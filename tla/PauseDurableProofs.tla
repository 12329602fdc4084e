------------------------- MODULE PauseDurableProofs -------------------------
(***************************************************************************)
(* What PauseChallenge keeps across daemon cycles when SIGTERM finds the   *)
(* daemon only where its memory and the state file agree (SafeKills): the  *)
(* policy of the browsers, the daily slots, the lockout, the deadline on a *)
(* client's screen; and that the whole implements PauseProtocol.           *)
(***************************************************************************)
EXTENDS PauseChallengeProofs

SafeKills == KillPoints \subseteq SafePoints

\* s agrees with the policy the browsers run under.
PolicyFits(s) == policy = "unblocked" <=> s.phase = 2

\* s has the lockout of the last failed attempt, as long as that lasts.
LockedOut(s) ==
  \/ failedAt = 0
  \/ now >= failedAt + COOLDOWN_SECS
  \/ s.phase = 0 /\ s.cooldown_end = failedAt + COOLDOWN_SECS

\* s counts every window granted since the daily reset it knows of.
Counted(s) == s.date = granted.since /\ s.count = granted.reset

\* A reset that a kill kept from the file is followed by no grant.
CountedOnDisk ==
  /\ disk.date <= granted.since
  /\ IF disk.date = granted.since THEN disk.count = granted.reset
                                  ELSE granted.reset = 0

(***************************************************************************)
(* The inductive invariant.  Between two cycles all of it is in the file;  *)
(* while a daemon runs, in its memory, and the file is equal to that       *)
(* whenever a kill may find it in the poll loop.                           *)
(***************************************************************************)
Durable ==
  /\ granted.since <= today
  /\ pc \in {"down", "sync"} => PolicyFits(disk) /\ LockedOut(disk) /\ CountedOnDisk
  /\ pc # "down" => LockedOut(mem) /\ Counted(mem)
  /\ pc \notin {"down", "unlock"} => PolicyFits(mem)
  /\ pc = "unlock" => mem.phase = 2
  /\ pc = "sync" /\ mem.date = disk.date => mem = disk
  /\ pc = "poll" => mem = disk
-----------------------------------------------------------------------------
\* What the changes to the saved state do to the fields Durable looks at.
LEMMA ChangedFields ==
  ASSUME NEW s \in PauseState, NEW n, NEW t
  PROVE  /\ NewDay(s, t).phase = s.phase /\ NewDay(s, t).cooldown_end = s.cooldown_end
         /\ NewDay(s, t).date = t /\ NewDay(s, t).count = 0
         /\ Begun(s, n, t).phase = 1 /\ Opened(s, t).phase = s.phase
         /\ Solved(s, n, t).phase = s.phase /\ Granted(s, t).phase = 2
         /\ Failed(s, t).phase = 0 /\ Failed(s, t).cooldown_end = t + COOLDOWN_SECS
         /\ Closed(s).phase = 0
         /\ Granted(s, t).date = s.date /\ Granted(s, t).count = s.count + 1
         /\ Opened(s, t).cooldown_end = s.cooldown_end
         /\ Solved(s, n, t).cooldown_end = s.cooldown_end
         /\ \A u \in {Begun(s, n, t), Opened(s, t), Solved(s, n, t), Failed(s, t), Closed(s)} :
              u.date = s.date /\ u.count = s.count
BY DEF NewDay, Begun, Opened, Solved, Granted, Failed, Closed, PauseState

LEMMA DurableInit == Init => Durable
BY DEF Init, Durable, PolicyFits, LockedOut, CountedOnDisk, Blank

LEMMA DurableEnvironment ==
  ASSUME SafeKills, TypeOK, Durable, Tick \/ Midnight \/ Kill
  PROVE  Durable'
<1> USE DEF Durable, PolicyFits, LockedOut, CountedOnDisk, Counted
<1>1. CASE Tick
  <2>1. \A d \in Nat : now >= d => now' >= d
    BY <1>1 DEF Tick, TypeOK
  <2>2. failedAt + COOLDOWN_SECS \in Nat
    BY ConstantsAssumption DEF TypeOK
  <2>3. UNCHANGED <<daemonVars, histVars, today>>
    BY <1>1 DEF Tick
  <2>4. QED
    BY <2>1, <2>2, <2>3 DEF daemonVars, histVars
<1>2. CASE Midnight
  <2>1. UNCHANGED <<daemonVars, now, failedAt>> /\ today' = today + 1
    BY <1>2 DEF Midnight
  <2>2. granted'.since = granted.since /\ granted'.reset = granted.reset
    BY <1>2 DEF Midnight, TypeOK
  <2>3. granted'.since <= today'
    BY <2>1, <2>2 DEF TypeOK
  <2>4. QED
    BY <2>1, <2>2, <2>3 DEF daemonVars
<1>3. CASE Kill
  <2>1. pc' = "down" /\ pc \in {"sync", "poll"}
    BY <1>3 DEF Kill, SafeKills, SafePoints
  <2>2. UNCHANGED <<now, today, disk, policy, histVars>>
    BY <1>3 DEF Kill
  <2>3. pc = "poll" => disk.date \in Int /\ mem = disk
    BY StateFields DEF TypeOK
  <2>4. QED
    BY <2>1, <2>2, <2>3 DEF histVars
<1>4. QED
  BY <1>1, <1>2, <1>3

LEMMA DurableCycle ==
  ASSUME TypeOK, Durable, Daemon
  PROVE  Durable'
<1> USE DEF Durable, PolicyFits, LockedOut, CountedOnDisk, Counted, envVars, histVars
<1>0. /\ mem \in PauseState /\ disk \in PauseState /\ now \in Nat /\ today \in Nat
      /\ granted \in [since : Int, reset : Nat, day : Nat] /\ disk.date \in Int
  BY StateFields DEF TypeOK
<1>1. CASE StartCycle
  <2>1. /\ pc' = "sync" /\ UNCHANGED <<disk, policy, failedAt, now, today>>
        /\ PolicyFits(disk) /\ LockedOut(disk) /\ CountedOnDisk
    BY <1>1 DEF StartCycle
  <2>2. /\ granted'.since = today
        /\ granted'.reset = IF granted.since = today THEN granted.reset ELSE 0
    BY <1>0, <1>1 DEF StartCycle
  <2>3. CASE disk.date # today
    <3>1. mem' = NewDay(disk, today)
      BY <1>1, <2>3 DEF StartCycle
    <3>2. mem'.phase = disk.phase /\ mem'.cooldown_end = disk.cooldown_end
          /\ mem'.date = today /\ mem'.count = 0
      BY <1>0, <3>1, ChangedFields
    <3>3. disk.date < today /\ granted'.reset = 0
      BY <1>0, <2>1, <2>2, <2>3
    <3>4. QED
      BY <1>0, <2>1, <2>2, <2>3, <3>2, <3>3
  <2>4. CASE disk.date = today
    <3>1. mem' = disk
      BY <1>1, <2>4 DEF StartCycle
    <3>2. granted.since = today
      BY <1>0, <2>1, <2>4
    <3>3. QED
      BY <1>0, <2>1, <2>2, <2>4, <3>1, <3>2
  <2>5. QED
    BY <2>3, <2>4
<1>2. CASE SyncPolicies
  <2>1. mem.phase \in {0, 1, 2}
    BY <1>0, StateFields
  <2>2. PolicyFits(mem)'
    BY <1>2, <2>1 DEF SyncPolicies
  <2>3. QED
    BY <1>2, <2>2 DEF SyncPolicies
<1>3. CASE TruncateState
  BY <1>3 DEF TruncateState
<1>4. CASE WriteState
  BY <1>4 DEF WriteState
<1>5. CASE ExitCycle
  BY <1>0, <1>5 DEF ExitCycle
<1>6. CASE SwapUnblocked
  BY <1>6 DEF SwapUnblocked
<1>7. CASE RecreateBinary \/ CloseWindow \/ NothingDue
  BY <1>7 DEF RecreateBinary, CloseWindow, NothingDue, WindowOver, Checking
<1>8. CASE ExpireChallenge
  <2>1. mem' = Failed(mem, now) /\ failedAt' = now /\ mem.phase = 1 /\ pc' = "save"
    BY <1>8 DEF ExpireChallenge, Fail, Expired
  <2>2. /\ mem'.phase = 0 /\ mem'.cooldown_end = failedAt' + COOLDOWN_SECS
        /\ mem'.date = mem.date /\ mem'.count = mem.count
    BY <1>0, <2>1, ChangedFields
  <2>3. UNCHANGED <<policy, granted, today>> /\ pc \in {"poll", "check"}
    BY <1>8 DEF ExpireChallenge, Checking
  <2>4. QED
    BY <2>1, <2>2, <2>3
<1>9. CASE SwapBlocking
  <2>1. /\ mem' = Closed(mem) /\ policy' = "blocking" /\ pc = "restore" /\ pc' = "save"
        /\ UNCHANGED <<histVars, envVars>>
    BY <1>9 DEF SwapBlocking
  <2>2. mem'.phase = 0 /\ mem'.date = mem.date /\ mem'.count = mem.count
        /\ mem'.cooldown_end = mem.cooldown_end
    BY <1>0, <2>1, ChangedFields DEF Closed, PauseState
  <2>3. LockedOut(mem)'
    BY <2>1, <2>2
  <2>4. QED
    BY <2>1, <2>2, <2>3
<1>10. QED
  BY <1>1, <1>2, <1>3, <1>4, <1>5, <1>6, <1>7, <1>8, <1>9 DEF Daemon

\* A challenge that is on, or one that is about to begin, has no lockout over it.
LEMMA NoLockout ==
  ASSUME TypeOK, Durable, pc # "down",
         mem.phase # 0 \/ now >= mem.cooldown_end
  PROVE  failedAt = 0 \/ now >= failedAt + COOLDOWN_SECS
BY DEF Durable, LockedOut

LEMMA DurableHandlers ==
  ASSUME TypeOK, Durable, NEW c \in Clients, Handle(c)
  PROVE  Durable'
<1> USE DEF Durable, PolicyFits, LockedOut, CountedOnDisk, Counted, envVars, histVars
<1>0. /\ mem \in PauseState /\ now \in Nat
      /\ granted \in [since : Int, reset : Nat, day : Nat]
  BY DEF TypeOK
<1>1. /\ pc = "poll" /\ pc' \in {"check", "rebuild", "unlock"}
      /\ UNCHANGED <<policy, now, today>>
  BY DEF Handle, RejectPeer, HelloRefused, StartChallenge, HelloTooLate,
     OpenQuestion, ReopenQuestion, AnswerIgnored, AnswerFails, AnswerCorrect,
     GrantWindow, Hello, Answer, Accept
<1>2. CASE mem' = mem /\ UNCHANGED histVars /\ pc' # "unlock"
  BY <1>1, <1>2
<1>3. CASE StartChallenge(c)
  <2>1. PICK n \in FreshNonces : mem' = Begun(mem, n, now)
    BY <1>3 DEF StartChallenge
  <2>2. mem'.phase = 1 /\ mem'.date = mem.date /\ mem'.count = mem.count
    BY <1>0, <2>1, ChangedFields
  <2>3. mem.phase = 0 /\ now >= mem.cooldown_end /\ UNCHANGED histVars /\ pc' = "check"
    BY <1>3 DEF StartChallenge, Hello
  <2>4. failedAt = 0 \/ now >= failedAt + COOLDOWN_SECS
    BY <1>1, <2>3, NoLockout
  <2>5. QED
    BY <1>1, <2>2, <2>3, <2>4
<1>4. CASE HelloTooLate(c) \/ AnswerFails(c)
  <2>1. mem' = Failed(mem, now) /\ failedAt' = now /\ mem.phase = 1 /\ UNCHANGED granted
    BY <1>4 DEF HelloTooLate, AnswerFails, Fail, Current, Hello
  <2>2. /\ mem'.phase = 0 /\ mem'.cooldown_end = failedAt' + COOLDOWN_SECS
        /\ mem'.date = mem.date /\ mem'.count = mem.count
    BY <1>0, <2>1, ChangedFields
  <2>3. pc' # "unlock"
    BY <1>4 DEF HelloTooLate, AnswerFails, Hello
  <2>4. QED
    BY <1>1, <2>1, <2>2, <2>3
<1>5. CASE OpenQuestion(c) \/ AnswerCorrect(c)
  <2>1. /\ mem.phase = 1 /\ UNCHANGED histVars /\ pc' # "unlock"
        /\ mem' = Opened(mem, now) \/ \E n \in FreshNonces : mem' = Solved(mem, n, now)
    BY <1>5 DEF OpenQuestion, AnswerCorrect, Hello, Current
  <2>2. mem'.phase = 1 /\ mem'.date = mem.date /\ mem'.count = mem.count
    BY <1>0, <2>1, ChangedFields
  <2>3. failedAt = 0 \/ now >= failedAt + COOLDOWN_SECS
    BY <1>1, <2>1, NoLockout
  <2>4. QED
    BY <1>1, <2>1, <2>2, <2>3
<1>6. CASE GrantWindow(c)
  <2>1. /\ mem' = Granted(mem, now) /\ pc' = "unlock" /\ UNCHANGED failedAt
        /\ mem.phase = 1
    BY <1>6 DEF GrantWindow, Current
  <2>2. granted'.since = granted.since /\ granted'.reset = granted.reset + 1
    BY <1>0, <1>6 DEF GrantWindow
  <2>3. mem'.phase = 2 /\ mem'.date = mem.date /\ mem'.count = mem.count + 1
    BY <1>0, <2>1, ChangedFields
  <2>4. failedAt = 0 \/ now >= failedAt + COOLDOWN_SECS
    BY <1>1, <2>1, NoLockout
  <2>5. QED
    BY <1>1, <2>1, <2>2, <2>3, <2>4
<1>7. RejectPeer(c) \/ HelloRefused(c) \/ ReopenQuestion(c) \/ AnswerIgnored(c)
        => mem' = mem /\ UNCHANGED histVars /\ pc' # "unlock"
  BY DEF RejectPeer, HelloRefused, ReopenQuestion, AnswerIgnored, Hello
<1>8. QED
  BY <1>2, <1>3, <1>4, <1>5, <1>6, <1>7 DEF Handle

LEMMA DurableStep ==
  ASSUME SafeKills
  PROVE  TypeOK /\ Durable /\ [Next]_vars => Durable'
<1> SUFFICES ASSUME TypeOK, Durable, [Next]_vars
             PROVE  Durable'
  OBVIOUS
<1>1. CASE Tick \/ Midnight \/ Kill
  BY <1>1, DurableEnvironment
<1>2. CASE Daemon
  BY <1>2, DurableCycle
<1>3. ASSUME NEW c \in Clients, Handle(c) PROVE Durable'
  BY <1>3, DurableHandlers
<1>4. CASE UNCHANGED <<daemonVars, histVars, envVars>>
  BY <1>4 DEF Durable, PolicyFits, LockedOut, CountedOnDisk, Counted, daemonVars,
     histVars, envVars
<1>5. ASSUME NEW c \in Clients, User(c) PROVE UNCHANGED <<daemonVars, histVars, envVars>>
  BY <1>5 DEF User, RunClient, Connect, SubmitAnswer, Abandon
<1>6. UNCHANGED vars => UNCHANGED <<daemonVars, histVars, envVars>>
  BY DEF vars
<1>7. QED
  BY <1>1, <1>2, <1>3, <1>4, <1>5, <1>6 DEF Next

LEMMA DurableInvariant ==
  ASSUME SafeKills
  PROVE  Spec => []Durable
<1>1. Init => Durable
  BY DurableInit
<1>2. TypeOK /\ Durable /\ [Next]_vars => Durable'
  BY DurableStep
<1>3. QED
  BY <1>1, <1>2, TypeCorrect, PTL DEF Spec
-----------------------------------------------------------------------------
\* With kills at SafePoints only, the browsers run unblocked exactly while the
\* polling daemon is in a window, over any number of cycles.
THEOREM PolicyMatchesPhaseHolds ==
  ASSUME SafeKills
  PROVE  Spec => []PolicyMatchesPhase
<1>1. Durable => PolicyMatchesPhase
  BY DEF Durable, PolicyMatchesPhase, PolicyFits
<1>2. QED
  BY <1>1, DurableInvariant, PTL

\* With kills at SafePoints only, every GRANTED reply since the daily reset is
\* in the count that the next HELLO is checked against.
THEOREM SlotConsumedHolds ==
  ASSUME SafeKills
  PROVE  Spec => []SlotConsumed
<1>1. Durable => SlotConsumed
  BY DEF Durable, SlotConsumed, Counted
<1>2. QED
  BY <1>1, DurableInvariant, PTL

\* A question is put on a client's screen only while no lockout is on.
LEMMA ShownUnlocked ==
  ASSUME TypeOK, Durable, [Next]_vars, NEW c \in Clients,
         client[c].at = "wait", client'[c].at = "typing"
  PROVE  failedAt = 0 \/ now >= failedAt + COOLDOWN_SECS
<1>1. client \in [Clients -> Client]
  BY DEF TypeOK
<1>2. ASSUME NEW d \in Clients, client' = [client EXCEPT ![d] = NoClient]
      PROVE  FALSE
  BY <1>1, <1>2 DEF NoClient
<1>3. ~DropConnections
  BY DEF DropConnections, NoClient
<1>4. PICK d \in Clients : Handle(d) \/ User(d)
  <2>1. ~(Tick \/ Midnight \/ Kill \/ UNCHANGED vars)
    BY <1>3 DEF Tick, Midnight, Kill, vars
  <2>2. ~Daemon
    <3>1. ~RecreateBinary
      BY <1>1 DEF RecreateBinary, Client
    <3>2. QED
      BY <1>3, <3>1 DEF Daemon, StartCycle, SyncPolicies, TruncateState, WriteState, ExitCycle,
         SwapUnblocked, ExpireChallenge, CloseWindow, NothingDue, SwapBlocking
  <2>3. QED
    BY <2>1, <2>2 DEF Next
<1>5. ~User(d)
  BY <1>1, <1>2 DEF User, RunClient, Connect, SubmitAnswer, Abandon, NoClient, Client
<1>6. StartChallenge(d) \/ OpenQuestion(d) \/ ReopenQuestion(d)
  BY <1>2, <1>4, <1>5 DEF Handle, RejectPeer, HelloRefused, HelloTooLate, AnswerIgnored,
     AnswerFails, AnswerCorrect, GrantWindow, Answer, Done
<1>7. pc = "poll" /\ (mem.phase # 0 \/ now >= mem.cooldown_end)
  BY <1>6 DEF StartChallenge, OpenQuestion, ReopenQuestion, Hello, Accept
<1>8. QED
  BY <1>7, NoLockout

\* With kills at SafePoints only, a failed attempt is followed by a lockout
\* that no restart of the daemon shortens: no question is shown and no window
\* granted before it is over.
THEOREM LockoutHeldHolds ==
  ASSUME SafeKills
  PROVE  Spec => LockoutHeld
<1>1. TypeOK /\ Durable /\ DownIsBlank /\ [Next]_vars =>
        [\/ \E c \in Clients : client[c].at = "wait" /\ client'[c].at = "typing"
         \/ mem.phase = 1 /\ mem'.phase = 2
         => failedAt = 0 \/ now >= failedAt + COOLDOWN_SECS]_vars
  <2> SUFFICES ASSUME TypeOK, Durable, DownIsBlank, [Next]_vars,
                      \/ \E c \in Clients : client[c].at = "wait" /\ client'[c].at = "typing"
                      \/ mem.phase = 1 /\ mem'.phase = 2
               PROVE  failedAt = 0 \/ now >= failedAt + COOLDOWN_SECS
    OBVIOUS
  <2>1. CASE \E c \in Clients : client[c].at = "wait" /\ client'[c].at = "typing"
    BY <2>1, ShownUnlocked
  <2>2. CASE mem.phase = 1
    <3>1. pc # "down"
      BY <2>2 DEF DownIsBlank, Blank
    <3>2. QED
      BY <2>2, <3>1, NoLockout
  <2>3. QED
    BY <2>1, <2>2
<1>2. Spec => [](TypeOK /\ Durable /\ DownIsBlank)
  BY TypeCorrect, DurableInvariant, PaceInvariant, PTL DEF PaceInv
<1>3. QED
  BY <1>1, <1>2, PTL DEF Spec, LockoutHeld
-----------------------------------------------------------------------------
(***************************************************************************)
(* The deadline on the screen.  Named tells a client that shows nothing    *)
(* yet (NoNonce) from one that shows the current question.                 *)
(***************************************************************************)
Named(s) == s.phase = 1 => s.nonce \in Nonces

\* The clients of f that show the question of s count down to its deadline.
Held(f, s) ==
  \A c \in Clients :
    f[c].at # "idle" /\ f[c].nonce = s.nonce /\ s.phase = 1
      => s.open_time # 0 /\ f[c].deadline = s.open_time + QUESTION_SECS

InStep(f, s) == Named(s) /\ Held(f, s)

\* Inductive: a restart reloads the question that the clients were shown.
Shown ==
  /\ InStep(client, mem)
  /\ pc \in {"down", "sync"} => InStep(client, disk)

\* No client is shown a question by this step.
NobodyAsked ==
  \A c \in Clients :
    client'[c].at # "idle" =>
      \/ client'[c].nonce = NoNonce
      \/ /\ client[c].at # "idle"
         /\ client'[c].nonce = client[c].nonce
         /\ client'[c].deadline = client[c].deadline

LEMMA InStepKept ==
  ASSUME NEW s \in PauseState, InStep(client, s), NobodyAsked
  PROVE  InStep(client', s)
BY ConstantsAssumption DEF InStep, Named, Held, NobodyAsked

LEMMA AskedNobody ==
  ASSUME TypeOK,
         \/ UNCHANGED client \/ DropConnections \/ RecreateBinary
         \/ \E c \in Clients : Done(c) \/ User(c)
  PROVE  NobodyAsked
<1>1. client \in [Clients -> Client]
  BY DEF TypeOK
<1>2. CASE UNCHANGED client
  BY <1>2 DEF NobodyAsked
<1>3. CASE DropConnections
  BY <1>3 DEF NobodyAsked, DropConnections, NoClient
<1>4. ASSUME NEW c \in Clients, Done(c) \/ Abandon(c) PROVE NobodyAsked
  BY <1>1, <1>4 DEF NobodyAsked, Done, Abandon, NoClient
<1>5. ASSUME NEW c \in Clients, RunClient(c) PROVE NobodyAsked
  BY <1>1, <1>5 DEF NobodyAsked, RunClient, NoClient
<1>6. ASSUME NEW c \in Clients, Connect(c) \/ SubmitAnswer(c) PROVE NobodyAsked
  BY <1>1, <1>6 DEF NobodyAsked, Connect, SubmitAnswer, Client
<1>7. CASE RecreateBinary
  BY <1>1, <1>7 DEF NobodyAsked, RecreateBinary, Client
<1>8. QED
  BY <1>2, <1>3, <1>4, <1>5, <1>6, <1>7 DEF User

\* The question of s is shown to c; whoever else shows it has the deadline too.
LEMMA AskedOne ==
  ASSUME TypeOK, NEW c \in Clients, NEW s \in PauseState, ShowQuestion(c, s),
         Named(s), s.open_time # 0,
         \A d \in Clients \ {c} :
           client[d].at # "idle" /\ client[d].nonce = s.nonce
             => client[d].deadline = s.open_time + QUESTION_SECS
  PROVE  InStep(client', s)
<1>1. client \in [Clients -> Client]
  BY DEF TypeOK
<1>2. \A d \in Clients \ {c} : client'[d] = client[d]
  BY <1>1 DEF ShowQuestion
<1>3. client'[c].deadline = s.open_time + QUESTION_SECS
  BY <1>1 DEF ShowQuestion, Client
<1>4. QED
  BY <1>2, <1>3 DEF InStep, Held

\* What the changes to the saved state do to the fields of a question.
LEMMA QuestionFields ==
  ASSUME NEW s \in PauseState, NEW n, NEW t
  PROVE  /\ NewDay(s, t).phase = s.phase /\ NewDay(s, t).nonce = s.nonce
         /\ NewDay(s, t).open_time = s.open_time /\ NewDay(s, t).qnum = s.qnum
         /\ Begun(s, n, t).nonce = n /\ Begun(s, n, t).open_time = t
         /\ Opened(s, t).nonce = s.nonce /\ Opened(s, t).open_time = t
         /\ Opened(s, t).qnum = s.qnum
         /\ Solved(s, n, t).nonce = n /\ Solved(s, n, t).open_time = 0
         /\ Solved(s, n, t).qnum = s.qnum + 1
         /\ Failed(s, t).qnum = s.qnum /\ Closed(s).qnum = s.qnum
BY DEF NewDay, Begun, Opened, Solved, Failed, Closed, PauseState

LEMMA ShownInit == Init => Shown
BY DEF Init, Shown, InStep, Named, Held, Blank

LEMMA InStepBlank == \A f : InStep(f, Blank)
BY DEF InStep, Named, Held, Blank

LEMMA ShownCycle ==
  ASSUME SafeKills, TypeOK, Durable, Shown, Kill \/ Daemon
  PROVE  Shown'
<1>1. mem \in PauseState /\ disk \in PauseState /\ now \in Nat /\ today \in Nat
  BY DEF TypeOK
<1>2. NobodyAsked
  <2>1. UNCHANGED client \/ DropConnections \/ RecreateBinary
    BY DEF Kill, Daemon, StartCycle, SyncPolicies, TruncateState, WriteState, ExitCycle,
       SwapUnblocked, ExpireChallenge, CloseWindow, NothingDue, SwapBlocking
  <2>2. QED
    BY <2>1, AskedNobody
<1>3. InStep(client', mem) /\ (pc \in {"down", "sync"} => InStep(client', disk))
  BY <1>1, <1>2, InStepKept DEF Shown
<1>4. CASE Kill \/ ExitCycle
  <2>1. mem' = Blank /\ pc' = "down" /\ disk' = disk
    BY <1>4 DEF Kill, ExitCycle
  <2>2. pc = "sync" \/ mem = disk
    BY <1>4 DEF Kill, ExitCycle, SafeKills, SafePoints, Durable
  <2>3. QED
    BY <1>3, <2>1, <2>2, InStepBlank DEF Shown
<1>5. CASE StartCycle
  <2>1. mem' \in {disk, NewDay(disk, today)} /\ disk' = disk /\ pc = "down"
    BY <1>5 DEF StartCycle
  <2>2. InStep(client', NewDay(disk, today))
    BY <1>1, <1>3, <2>1, QuestionFields DEF InStep, Named, Held
  <2>3. QED
    BY <1>3, <2>1, <2>2 DEF Shown
<1>6. CASE ExpireChallenge \/ SwapBlocking
  <2>1. mem' \in {Failed(mem, now), Closed(mem)} /\ pc' = "save"
    BY <1>6 DEF ExpireChallenge, SwapBlocking, Fail
  <2>2. mem'.phase = 0
    BY <1>1, <2>1, ChangedFields
  <2>3. QED
    BY <2>1, <2>2 DEF Shown, InStep, Named, Held
<1>7. ASSUME mem' = mem, pc' \notin {"down", "sync"} PROVE Shown'
  BY <1>3, <1>7 DEF Shown
<1>8. QED
  <2>1. SyncPolicies \/ TruncateState \/ WriteState \/ SwapUnblocked \/ RecreateBinary
          \/ CloseWindow \/ NothingDue => mem' = mem /\ pc' \notin {"down", "sync"}
    BY DEF SyncPolicies, TruncateState, WriteState, SwapUnblocked, RecreateBinary,
       CloseWindow, NothingDue
  <2>2. QED
    BY <1>4, <1>5, <1>6, <1>7, <2>1 DEF Daemon

LEMMA ShownHandlers ==
  ASSUME TypeOK, Shown, NEW c \in Clients, Handle(c)
  PROVE  Shown'
<1>1. mem \in PauseState /\ now \in Nat \ {0} /\ client \in [Clients -> Client]
  BY DEF TypeOK
<1>2. Named(mem) /\ Held(client, mem)
  BY DEF Shown, InStep
<1>3. pc' \notin {"down", "sync"}
  BY DEF Handle, RejectPeer, HelloRefused, StartChallenge, HelloTooLate, OpenQuestion,
     ReopenQuestion, AnswerIgnored, AnswerFails, AnswerCorrect, GrantWindow, Hello
<1>4. SUFFICES InStep(client', mem')
  BY <1>3 DEF Shown
<1>5. CASE StartChallenge(c)
  <2>1. PICK n \in FreshNonces : mem' = Begun(mem, n, now)
    BY <1>5 DEF StartChallenge
  <2>2. mem' \in PauseState /\ mem'.nonce = n /\ mem'.open_time = now /\ n \in Nonces
    BY <1>1, <2>1, BegunType, QuestionFields DEF FreshNonces
  <2>3. \A d \in Clients : client[d].nonce # n
    BY DEF FreshNonces
  <2>4. ShowQuestion(c, mem') /\ Named(mem')
    BY <1>5, <2>2 DEF StartChallenge, Named
  <2>5. QED
    BY <1>1, <2>2, <2>3, <2>4, AskedOne
<1>6. CASE OpenQuestion(c)
  <2>1. mem' = Opened(mem, now) /\ mem.phase = 1 /\ mem.open_time = 0 /\ ShowQuestion(c, mem')
    BY <1>6 DEF OpenQuestion
  <2>2. mem' \in PauseState /\ mem'.nonce = mem.nonce /\ mem'.open_time = now
    BY <1>1, <2>1, OpenedType, QuestionFields
  <2>3. \A d \in Clients : ~(client[d].at # "idle" /\ client[d].nonce = mem.nonce)
    BY <1>2, <2>1 DEF Held
  <2>4. Named(mem')
    BY <1>2, <2>1, <2>2 DEF Named
  <2>5. QED
    BY <1>1, <2>1, <2>2, <2>3, <2>4, AskedOne
<1>7. CASE ReopenQuestion(c)
  <2>1. mem' = mem /\ mem.phase = 1 /\ mem.open_time # 0 /\ ShowQuestion(c, mem)
    BY <1>7 DEF ReopenQuestion
  <2>2. \A d \in Clients \ {c} :
          client[d].at # "idle" /\ client[d].nonce = mem.nonce
            => client[d].deadline = mem.open_time + QUESTION_SECS
    BY <1>2, <2>1 DEF Held
  <2>3. QED
    BY <1>1, <1>2, <2>1, <2>2, AskedOne
<1>8. ASSUME Done(c), mem' = mem \/ mem'.phase # 1 PROVE InStep(client', mem')
  <2>1. NobodyAsked
    BY <1>8, AskedNobody
  <2>2. CASE mem' = mem
    BY <1>1, <1>2, <2>1, <2>2, InStepKept DEF InStep
  <2>3. CASE mem'.phase # 1
    BY <2>3 DEF InStep, Named, Held
  <2>4. QED
    BY <1>8, <2>2, <2>3
<1>9. CASE AnswerCorrect(c)
  <2>1. PICK n \in FreshNonces : mem' = Solved(mem, n, now)
    BY <1>9 DEF AnswerCorrect
  <2>2. mem'.nonce = n /\ n \in Nonces /\ \A d \in Clients : client[d].nonce # n
    BY <1>1, <2>1, QuestionFields DEF FreshNonces
  <2>3. \A d \in Clients : client'[d].nonce \in {client[d].nonce, NoNonce}
    BY <1>1, <1>9 DEF AnswerCorrect, Answer, Done, NoClient
  <2>4. \A d \in Clients : client'[d].nonce # n
    BY <2>2, <2>3, ConstantsAssumption
  <2>5. QED
    BY <2>2, <2>4 DEF InStep, Named, Held
<1>10. CASE HelloTooLate(c) \/ AnswerFails(c) \/ GrantWindow(c)
  <2>1. Done(c) /\ mem' \in {Failed(mem, now), Granted(mem, now)}
    BY <1>10 DEF HelloTooLate, AnswerFails, GrantWindow, Answer, Fail
  <2>2. mem'.phase # 1
    BY <1>1, <2>1, ChangedFields
  <2>3. QED
    BY <1>8, <2>1, <2>2
<1>11. CASE RejectPeer(c) \/ HelloRefused(c) \/ AnswerIgnored(c)
  BY <1>8, <1>11 DEF RejectPeer, HelloRefused, AnswerIgnored, Answer
<1>12. QED
  BY <1>5, <1>6, <1>7, <1>9, <1>10, <1>11 DEF Handle

LEMMA ShownInvariant ==
  ASSUME SafeKills
  PROVE  Spec => []Shown
<1>1. Init => Shown
  BY ShownInit
<1>2. TypeOK /\ Durable /\ Shown /\ [Next]_vars => Shown'
  <2> SUFFICES ASSUME TypeOK, Durable, Shown, [Next]_vars
               PROVE  Shown'
    OBVIOUS
  <2>1. ASSUME NobodyAsked, UNCHANGED daemonVars PROVE Shown'
    <3>1. mem \in PauseState /\ disk \in PauseState
      BY DEF TypeOK
    <3>2. QED
      BY <2>1, <3>1, InStepKept DEF Shown, daemonVars
  <2>2. CASE Tick \/ Midnight \/ UNCHANGED vars
    BY <2>1, <2>2, AskedNobody DEF Tick, Midnight, vars
  <2>3. CASE \E c \in Clients : User(c)
    <3>1. UNCHANGED daemonVars
      BY <2>3 DEF User, RunClient, Connect, SubmitAnswer, Abandon
    <3>2. QED
      BY <2>1, <2>3, <3>1, AskedNobody
  <2>4. CASE Kill \/ Daemon
    BY <2>4, ShownCycle
  <2>5. CASE \E c \in Clients : Handle(c)
    BY <2>5, ShownHandlers
  <2>6. QED
    BY <2>2, <2>3, <2>4, <2>5 DEF Next
<1>3. QED
  BY <1>1, <1>2, TypeCorrect, DurableInvariant, PTL DEF Spec

\* With kills at SafePoints only, the deadline a client counts down to is the
\* one the daemon will hold its answer to, whatever other clients, restarts and
\* reconnections do in between.
THEOREM ShownDeadlineIsHeldHolds ==
  ASSUME SafeKills
  PROVE  Spec => []ShownDeadlineIsHeld
<1>1. Shown => ShownDeadlineIsHeld
  BY DEF Shown, InStep, Held, ShownDeadlineIsHeld
<1>2. QED
  BY <1>1, ShownInvariant, PTL

\* Only the two handlers that score an answer raise the question number of a
\* challenge that is on.
LEMMA ScoreStep ==
  ASSUME TypeOK, DownIsBlank, [Next]_vars, mem.phase = 1, mem'.qnum > mem.qnum
  PROVE  \E c \in Clients : AnswerCorrect(c) \/ GrantWindow(c)
<1>1. mem \in PauseState /\ mem.qnum \in Nat
  BY StateFields DEF TypeOK
<1>2. ~(mem' = mem) /\ ~(mem' = Blank)
  BY <1>1 DEF Blank
<1>3. mem' \notin {Failed(mem, now), Closed(mem), Opened(mem, now)}
  BY <1>1, QuestionFields
<1>4. pc # "down"
  BY DEF DownIsBlank, Blank
<1>5. ~(Tick \/ Midnight \/ Kill \/ UNCHANGED vars)
  BY <1>2 DEF Tick, Midnight, Kill, vars, daemonVars
<1>6. ~Daemon
  BY <1>2, <1>3, <1>4 DEF Daemon, StartCycle, SyncPolicies, TruncateState, WriteState,
     ExitCycle, SwapUnblocked, RecreateBinary, ExpireChallenge, CloseWindow, NothingDue,
     SwapBlocking, Fail
<1>7. PICK c \in Clients : Handle(c) \/ User(c)
  BY <1>5, <1>6 DEF Next
<1>8. ~User(c)
  BY <1>2 DEF User, RunClient, Connect, SubmitAnswer, Abandon, daemonVars
<1>9. ~(\/ RejectPeer(c) \/ HelloRefused(c) \/ StartChallenge(c) \/ HelloTooLate(c)
        \/ OpenQuestion(c) \/ ReopenQuestion(c) \/ AnswerIgnored(c) \/ AnswerFails(c))
  BY <1>2, <1>3 DEF RejectPeer, HelloRefused, StartChallenge, HelloTooLate, OpenQuestion,
     ReopenQuestion, AnswerIgnored, AnswerFails, Fail
<1>10. QED
  BY <1>7, <1>8, <1>9 DEF Handle

\* With kills at SafePoints only, an answer scores only for the question and
\* for the opening that it was typed for.
THEOREM AnswerScoresOnceHolds ==
  ASSUME SafeKills
  PROVE  Spec => AnswerScoresOnce
<1>1. TypeOK /\ Shown /\ DownIsBlank /\ [Next]_vars =>
        [mem.phase = 1 /\ mem'.qnum > mem.qnum =>
           \E c \in Clients :
             /\ client[c].at = "wait" /\ client'[c].at = "idle"
             /\ client[c].req = "RIGHT"
             /\ client[c].deadline = mem.open_time + QUESTION_SECS]_vars
  <2> SUFFICES ASSUME TypeOK, Shown, DownIsBlank, [Next]_vars,
                      mem.phase = 1, mem'.qnum > mem.qnum
               PROVE  \E c \in Clients :
                        /\ client[c].at = "wait" /\ client'[c].at = "idle"
                        /\ client[c].req = "RIGHT"
                        /\ client[c].deadline = mem.open_time + QUESTION_SECS
    OBVIOUS
  <2>1. PICK c \in Clients : AnswerCorrect(c) \/ GrantWindow(c)
    BY ScoreStep
  <2>2. /\ client[c].at = "wait" /\ client[c].req = "RIGHT" /\ Done(c)
        /\ client[c].nonce = mem.nonce
    BY <2>1 DEF AnswerCorrect, GrantWindow, Answer, Accept, Current
  <2>3. client[c].deadline = mem.open_time + QUESTION_SECS
    BY <2>2 DEF Shown, InStep, Held
  <2>4. client'[c].at = "idle"
    BY <2>2 DEF Done, NoClient, TypeOK
  <2>5. QED
    BY <2>2, <2>3, <2>4
<1>2. QED
  BY <1>1, TypeCorrect, ShownInvariant, PaceInvariant, PTL DEF Spec, AnswerScoresOnce, PaceInv
-----------------------------------------------------------------------------
(***************************************************************************)
(* The refinement of PauseProtocol.  Its variables are fields of Record,   *)
(* so that the steps are first described as changes of that one record,    *)
(* and then each change is matched with an action of the protocol.         *)
(*                                                                         *)
(* Loaded: main has read the file and at most moved it to a new day.       *)
(***************************************************************************)
Loaded ==
  /\ pc = "sync" => \/ mem = disk
                    \/ \E day \in Nat : mem = NewDay(disk, day)
  /\ pc = "restore" => mem.phase = 2 /\ now >= mem.unblock_end

LEMMA LoadedInvariant == Spec => []Loaded
<1>1. Init => Loaded
  BY DEF Init, Loaded
<1>2. TypeOK /\ Loaded /\ [Next]_vars => Loaded'
  <2> SUFFICES ASSUME TypeOK, Loaded, [Next]_vars
               PROVE  Loaded'
    OBVIOUS
  <2> USE DEF Loaded, daemonVars, envVars, histVars
  <2>0. now \in Nat /\ mem \in PauseState /\ mem.unblock_end \in Nat /\ today \in Nat
    BY StateFields DEF TypeOK
  <2>1. CASE Tick \/ Midnight \/ UNCHANGED vars
    BY <2>0, <2>1 DEF Tick, Midnight, vars
  <2>2. CASE StartCycle \/ CloseWindow
    BY <2>0, <2>2 DEF StartCycle, CloseWindow, WindowOver
  <2>3. ASSUME NEW c \in Clients, User(c) PROVE Loaded'
    BY <2>3 DEF User, RunClient, Connect, SubmitAnswer, Abandon
  <2>4. ASSUME pc' \notin {"sync", "restore"} PROVE Loaded'
    BY <2>4
  <2>5. CASE Kill \/ (Daemon /\ ~StartCycle /\ ~CloseWindow)
    BY <2>4, <2>5 DEF Kill, Daemon, SyncPolicies, TruncateState, WriteState, ExitCycle,
       SwapUnblocked, RecreateBinary, ExpireChallenge, NothingDue, SwapBlocking
  <2>6. ASSUME NEW c \in Clients, Handle(c) PROVE Loaded'
    BY <2>4, <2>6 DEF Handle, RejectPeer, HelloRefused, StartChallenge, HelloTooLate,
       OpenQuestion, ReopenQuestion, AnswerIgnored, AnswerFails, AnswerCorrect,
       GrantWindow, Hello
  <2>7. QED
    BY <2>1, <2>2, <2>3, <2>5, <2>6 DEF Next
<1>3. QED
  BY <1>1, <1>2, TypeCorrect, PTL DEF Spec

(***************************************************************************)
(* The changes of the record at a time t, from s to r.                     *)
(***************************************************************************)
RecordChange(s, r, t) ==
  \/ r = s
  \/ \E day \in Nat : r = NewDay(s, day)
  \/ /\ s.phase = 0 /\ s.count < MAX_PAUSES_DAY /\ t >= s.cooldown_end
     /\ \E n \in Nonces : r = Begun(s, n, t)
  \/ s.phase = 1 /\ r \in {Opened(s, t), Failed(s, t)}
  \/ /\ s.phase = 1 /\ s.qnum + 1 < QUESTIONS_NEEDED
     /\ \E n \in Nonces : r = Solved(s, n, t)
  \/ s.phase = 1 /\ s.qnum + 1 = QUESTIONS_NEEDED /\ r = Granted(s, t)
  \/ s.phase = 2 /\ t >= s.unblock_end /\ r = Closed(s)

RecordStep ==
  \/ Record' = Record /\ now' = now + 1
  \/ RecordChange(Record, Record', now) /\ now' = now

\* The steps of the cycle around the poll loop: the file is the record until
\* main takes it over, and again when the process is gone.
LEMMA CycleRecord ==
  ASSUME SafeKills, TypeOK, Durable, Loaded,
         Kill \/ ExitCycle \/ StartCycle \/ SyncPolicies
  PROVE  RecordStep
<1> USE DEF RecordStep, RecordChange, Record, envVars
<1>1. CASE Kill
  BY <1>1 DEF Kill, SafeKills, SafePoints, Durable
<1>2. CASE ExitCycle
  BY <1>2 DEF ExitCycle, Durable
<1>3. CASE StartCycle
  BY <1>3 DEF StartCycle
<1>4. CASE SyncPolicies
  BY <1>4 DEF SyncPolicies, Loaded
<1>5. QED
  BY <1>1, <1>2, <1>3, <1>4

\* A challenge that is on has less than QUESTIONS_NEEDED questions solved, so
\* that the grant, which the code takes from there on, is the last of them.
LEMMA LoopRecord ==
  ASSUME TypeOK, PaceInv, Loaded, pc \notin {"down", "sync"},
         \/ Daemon /\ ~ExitCycle
         \/ \E c \in Clients : Handle(c)
  PROVE  RecordStep
<1>1. SUFFICES /\ pc' \notin {"down", "sync"} /\ now' = now
               /\ RecordChange(mem, mem', now)
  BY DEF RecordStep, Record
<1>2. mem \in PauseState /\ mem.qnum \in Nat
  BY StateFields DEF TypeOK
<1>3. mem.phase = 1 => mem.qnum < QUESTIONS_NEEDED
  BY DEF PaceInv, OnPace
<1> USE DEF envVars, RecordChange
<1>4. CASE ExpireChallenge \/ SwapBlocking
  BY <1>4 DEF ExpireChallenge, Expired, Fail, SwapBlocking, Loaded
<1>5. CASE Daemon /\ ~ExitCycle /\ ~ExpireChallenge /\ ~SwapBlocking
  BY <1>5 DEF Daemon, StartCycle, SyncPolicies, TruncateState, WriteState, SwapUnblocked,
     RecreateBinary, CloseWindow, NothingDue
<1>6. ASSUME NEW c \in Clients, Handle(c)
      PROVE  /\ pc' \notin {"down", "sync"} /\ now' = now
             /\ RecordChange(mem, mem', now)
  <2>1. CASE RejectPeer(c) \/ HelloRefused(c) \/ ReopenQuestion(c) \/ AnswerIgnored(c)
    BY <2>1 DEF RejectPeer, HelloRefused, ReopenQuestion, AnswerIgnored, Hello, Answer
  <2>2. CASE StartChallenge(c)
    BY <2>2 DEF StartChallenge, Hello, FreshNonces
  <2>3. CASE OpenQuestion(c)
    BY <2>3 DEF OpenQuestion, Hello
  <2>4. CASE HelloTooLate(c) \/ AnswerFails(c)
    BY <2>4 DEF HelloTooLate, AnswerFails, Hello, Answer, Current, Fail
  <2>5. CASE AnswerCorrect(c)
    BY <2>5 DEF AnswerCorrect, Answer, Current, FreshNonces
  <2>6. CASE GrantWindow(c)
    <3>1. mem.phase = 1 /\ mem.qnum + 1 >= QUESTIONS_NEEDED /\ mem' = Granted(mem, now)
      BY <2>6 DEF GrantWindow, Current
    <3>2. mem.qnum + 1 = QUESTIONS_NEEDED
      BY <1>2, <1>3, <3>1, ConstantsAssumption
    <3>3. QED
      BY <2>6, <3>1, <3>2 DEF GrantWindow, Answer
  <2>7. QED
    BY <1>6, <2>1, <2>2, <2>3, <2>4, <2>5, <2>6 DEF Handle
<1>7. QED
  BY <1>4, <1>5, <1>6

LEMMA NextIsRecordStep ==
  ASSUME SafeKills, TypeOK, Durable, PaceInv, Loaded, [Next]_vars
  PROVE  RecordStep
<1>1. CASE Tick
  BY <1>1 DEF Tick, RecordStep, Record, daemonVars
<1>2. CASE Midnight \/ UNCHANGED vars \/ \E c \in Clients : User(c)
  BY <1>2 DEF Midnight, vars, User, RunClient, Connect, SubmitAnswer, Abandon, daemonVars,
     envVars, RecordStep, RecordChange, Record
<1>3. CASE Kill \/ Daemon \/ \E c \in Clients : Handle(c)
  <2>1. CASE Kill \/ ExitCycle \/ StartCycle \/ SyncPolicies
    BY <2>1, CycleRecord
  <2>2. CASE (Daemon /\ ~StartCycle /\ ~SyncPolicies /\ ~ExitCycle)
               \/ \E c \in Clients : Handle(c)
    <3>1. pc \notin {"down", "sync"}
      BY <2>2 DEF Daemon, TruncateState, WriteState, SwapUnblocked, RecreateBinary,
         ExpireChallenge, CloseWindow, NothingDue, SwapBlocking, Checking, Handle,
         RejectPeer, HelloRefused, StartChallenge, HelloTooLate, OpenQuestion,
         ReopenQuestion, AnswerIgnored, AnswerFails, AnswerCorrect, GrantWindow, Hello,
         Answer, Accept
    <3>2. QED
      BY <2>2, <3>1, LoopRecord
  <2>3. QED
    BY <1>3, <2>1, <2>2
<1>4. QED
  BY <1>1, <1>2, <1>3 DEF Next

\* The fields of the record that the protocol has variables for.
LEMMA ProtocolFields ==
  ASSUME NEW s \in PauseState, NEW n, NEW t
  PROVE  /\ \A u \in {NewDay(s, t), Opened(s, t)} :
              /\ u.phase = s.phase /\ u.qnum = s.qnum
              /\ u.cooldown_end = s.cooldown_end /\ u.unblock_end = s.unblock_end
         /\ NewDay(s, t).count = 0 /\ Opened(s, t).count = s.count
         /\ \A u \in {Begun(s, n, t), Solved(s, n, t)} :
              u.phase \in {1, s.phase} /\ u.count = s.count /\ u.unblock_end = s.unblock_end
         /\ Begun(s, n, t).phase = 1 /\ Begun(s, n, t).qnum = 0
         /\ Begun(s, n, t).cooldown_end = 0
         /\ Solved(s, n, t).phase = s.phase /\ Solved(s, n, t).qnum = s.qnum + 1
         /\ Solved(s, n, t).cooldown_end = s.cooldown_end
         /\ Granted(s, t).phase = 2 /\ Granted(s, t).qnum = s.qnum + 1
         /\ Granted(s, t).count = s.count + 1
         /\ Granted(s, t).unblock_end = t + UNBLOCK_SECS
         /\ Granted(s, t).cooldown_end = s.cooldown_end
         /\ \A u \in {Failed(s, t), Closed(s)} :
              /\ u.phase = 0 /\ u.qnum = s.qnum /\ u.count = s.count
              /\ u.unblock_end = s.unblock_end
         /\ Failed(s, t).cooldown_end = t + COOLDOWN_SECS
         /\ Closed(s).cooldown_end = s.cooldown_end
BY DEF NewDay, Begun, Opened, Solved, Granted, Failed, Closed, PauseState

LEMMA RecordStepIsProtocolStep ==
  ASSUME TypeOK, RecordStep
  PROVE  [Protocol!Next]_Protocol!vars
<1>1. Record \in PauseState
  BY DEF Record, TypeOK
<1> DEFINE s == Record
           r == Record'
<1> SUFFICES ASSUME now' = now, RecordChange(s, r, now), r # s
             PROVE  [Protocol!Next]_Protocol!vars
  <2>1. CASE r = s /\ now' = now
    BY <2>1 DEF Protocol!vars
  <2>2. CASE r = s /\ now' = now + 1
    BY <2>2 DEF Protocol!Next, Protocol!Tick
  <2>3. QED
    BY <2>1, <2>2 DEF RecordStep
<1>2. CASE \E day \in Nat : r = NewDay(s, day)
  <2>1. /\ r.phase = s.phase /\ r.qnum = s.qnum /\ r.cooldown_end = s.cooldown_end
        /\ r.unblock_end = s.unblock_end /\ r.count = 0
    BY <1>1, <1>2, ProtocolFields
  <2>2. Protocol!DailyReset
    BY <2>1 DEF Protocol!DailyReset
  <2>3. QED
    BY <2>2 DEF Protocol!Next
<1>3. ASSUME s.phase = 0, s.count < MAX_PAUSES_DAY, now >= s.cooldown_end,
             NEW n \in Nonces, r = Begun(s, n, now)
      PROVE  [Protocol!Next]_Protocol!vars
  <2>1. /\ r.phase = 1 /\ r.qnum = 0 /\ r.cooldown_end = 0
        /\ r.unblock_end = s.unblock_end /\ r.count = s.count
    BY <1>1, <1>3, ProtocolFields
  <2>2. Protocol!Begin
    BY <1>3, <2>1 DEF Protocol!Begin
  <2>3. QED
    BY <2>2 DEF Protocol!Next
<1>4. CASE s.phase = 1 /\ r = Opened(s, now)
  <2>1. /\ r.phase = s.phase /\ r.qnum = s.qnum /\ r.cooldown_end = s.cooldown_end
        /\ r.unblock_end = s.unblock_end /\ r.count = s.count
    BY <1>1, <1>4, ProtocolFields
  <2>2. QED
    BY <2>1 DEF Protocol!vars
<1>5. CASE s.phase = 1 /\ r = Failed(s, now)
  <2>1. /\ r.phase = 0 /\ r.qnum = s.qnum /\ r.cooldown_end = now + COOLDOWN_SECS
        /\ r.unblock_end = s.unblock_end /\ r.count = s.count
    BY <1>1, <1>5, ProtocolFields
  <2>2. Protocol!Fail
    BY <1>5, <2>1 DEF Protocol!Fail
  <2>3. QED
    BY <2>2 DEF Protocol!Next
<1>6. ASSUME s.phase = 1, s.qnum + 1 < QUESTIONS_NEEDED,
             NEW n \in Nonces, r = Solved(s, n, now)
      PROVE  [Protocol!Next]_Protocol!vars
  <2>1. /\ r.phase = 1 /\ r.qnum = s.qnum + 1 /\ r.cooldown_end = s.cooldown_end
        /\ r.unblock_end = s.unblock_end /\ r.count = s.count
    BY <1>1, <1>6, ProtocolFields
  <2>2. Protocol!Solve
    BY <1>6, <2>1 DEF Protocol!Solve
  <2>3. QED
    BY <2>2 DEF Protocol!Next
<1>7. CASE s.phase = 1 /\ s.qnum + 1 = QUESTIONS_NEEDED /\ r = Granted(s, now)
  <2>1. /\ r.phase = 2 /\ r.qnum = s.qnum + 1 /\ r.cooldown_end = s.cooldown_end
        /\ r.unblock_end = now + UNBLOCK_SECS /\ r.count = s.count + 1
    BY <1>1, <1>7, ProtocolFields
  <2>2. Protocol!Grant
    BY <1>7, <2>1 DEF Protocol!Grant
  <2>3. QED
    BY <2>2 DEF Protocol!Next
<1>8. CASE s.phase = 2 /\ now >= s.unblock_end /\ r = Closed(s)
  <2>1. /\ r.phase = 0 /\ r.qnum = s.qnum /\ r.cooldown_end = s.cooldown_end
        /\ r.unblock_end = s.unblock_end /\ r.count = s.count
    BY <1>1, <1>8, ProtocolFields
  <2>2. Protocol!Close
    BY <1>8, <2>1 DEF Protocol!Close
  <2>3. QED
    BY <2>2 DEF Protocol!Next
<1>9. QED
  BY <1>2, <1>3, <1>4, <1>5, <1>6, <1>7, <1>8 DEF RecordChange

\* With kills at SafePoints only, daemon cycles, reconnecting clients and the
\* state file are invisible: the whole is one uninterrupted challenge protocol.
THEOREM ImplementsProtocolHolds ==
  ASSUME SafeKills
  PROVE  Spec => ImplementsProtocol
<1>1. Init => Protocol!Init
  BY DEF Init, Protocol!Init, Record, Blank
<1>2. TypeOK /\ Durable /\ PaceInv /\ Loaded /\ [Next]_vars => [Protocol!Next]_Protocol!vars
  BY NextIsRecordStep, RecordStepIsProtocolStep
<1>3. QED
  BY <1>1, <1>2, TypeCorrect, DurableInvariant, PaceInvariant, LoadedInvariant, PTL
     DEF Spec, ImplementsProtocol, Protocol!Spec
=============================================================================
