------------------------ MODULE PauseChallengeProofs ------------------------
(***************************************************************************)
(* Theorems about PauseChallenge, for every value of its constants.        *)
(***************************************************************************)
EXTENDS PauseChallenge, TLAPS

(***************************************************************************)
(* What each change to the saved state does to its fields.                 *)
(***************************************************************************)
LEMMA StateFields ==
  ASSUME NEW s \in PauseState
  PROVE  /\ s.phase \in {0, 1, 2} /\ s.count \in Nat /\ s.date \in Int
         /\ s.qnum \in Nat /\ s.nonce \in Nonces \union {NoNonce}
         /\ s.qstart \in Nat /\ s.open_time \in Nat /\ s.unblock_end \in Nat
         /\ s.cooldown_end \in Nat /\ s.begun \in Nat
BY DEF PauseState

LEMMA BlankType == Blank \in PauseState
BY DEF Blank, PauseState

LEMMA NewDayType ==
  ASSUME NEW s \in PauseState, NEW day \in Nat
  PROVE  NewDay(s, day) \in PauseState
<1>1. day \in Int
  OBVIOUS
<1>2. QED
  BY <1>1 DEF NewDay, PauseState

LEMMA BegunType ==
  ASSUME NEW s \in PauseState, NEW n \in Nonces, NEW t \in Nat
  PROVE  Begun(s, n, t) \in PauseState
BY DEF Begun, PauseState

LEMMA OpenedType ==
  ASSUME NEW s \in PauseState, NEW t \in Nat
  PROVE  Opened(s, t) \in PauseState
BY DEF Opened, PauseState

LEMMA SolvedType ==
  ASSUME NEW s \in PauseState, NEW n \in Nonces, NEW t \in Nat
  PROVE  Solved(s, n, t) \in PauseState
<1>1. s.qnum + 1 \in Nat /\ t + NEXT_Q_DELAY_SECS \in Nat
  BY StateFields, ConstantsAssumption
<1>2. QED
  BY <1>1 DEF Solved, PauseState

LEMMA GrantedType ==
  ASSUME NEW s \in PauseState, NEW t \in Nat
  PROVE  Granted(s, t) \in PauseState
<1>1. s.qnum + 1 \in Nat /\ s.count + 1 \in Nat /\ t + UNBLOCK_SECS \in Nat
  BY StateFields, ConstantsAssumption
<1>2. QED
  BY <1>1 DEF Granted, PauseState

LEMMA FailedType ==
  ASSUME NEW s \in PauseState, NEW t \in Nat
  PROVE  Failed(s, t) \in PauseState
<1>1. t + COOLDOWN_SECS \in Nat
  BY ConstantsAssumption
<1>2. QED
  BY <1>1 DEF Failed, PauseState

LEMMA ClosedType ==
  ASSUME NEW s \in PauseState
  PROVE  Closed(s) \in PauseState
BY DEF Closed, PauseState
-----------------------------------------------------------------------------
(***************************************************************************)
(* Types.                                                                  *)
(***************************************************************************)
LEMMA InitType == Init => TypeOK
BY BlankType DEF Init, TypeOK, PC, Client, NoClient, Requests

\* A client that is answered, dropped or shown a question stays a Client.
LEMMA ClientUpdates ==
  ASSUME NEW f \in [Clients -> Client], NEW c \in Clients
  PROVE  /\ [f EXCEPT ![c] = NoClient] \in [Clients -> Client]
         /\ [d \in Clients |-> IF f[d].at = "wait" THEN NoClient ELSE f[d]]
              \in [Clients -> Client]
BY DEF Client, NoClient, Requests

LEMMA ShownType ==
  ASSUME NEW s \in PauseState, TypeOK, NEW c \in Clients, ShowQuestion(c, s)
  PROVE  client' \in [Clients -> Client]
<1>1. s.nonce \in Nonces \union {NoNonce} /\ s.open_time + QUESTION_SECS \in Nat
  BY StateFields, ConstantsAssumption
<1> DEFINE shown == [client[c] EXCEPT !.at = "typing", !.nonce = s.nonce,
                                      !.deadline = s.open_time + QUESTION_SECS]
<1>2. shown \in Client
  BY <1>1 DEF TypeOK, Client
<1>3. client' = [client EXCEPT ![c] = shown]
  BY DEF ShowQuestion
<1>4. QED
  BY <1>2, <1>3 DEF TypeOK

LEMMA TypeStep == TypeOK /\ [Next]_vars => TypeOK'
<1> SUFFICES ASSUME TypeOK, [Next]_vars PROVE TypeOK'
  OBVIOUS
<1> USE DEF TypeOK
<1>1. CASE Tick
  BY <1>1 DEF Tick, daemonVars, histVars
<1>2. CASE Midnight
  BY <1>2 DEF Midnight, daemonVars
<1>3. CASE Kill
  <2>1. client' \in [Clients -> Client]
    BY <1>3, ClientUpdates DEF Kill, DropConnections, Client, NoClient, Requests
  <2>2. QED
    BY <1>3, <2>1, BlankType DEF Kill, histVars, PC
<1>4. CASE Daemon
  <2> USE DEF envVars, histVars, PC
  <2>1. CASE StartCycle
    <3>1. mem' \in PauseState
      BY <2>1, NewDayType DEF StartCycle
    <3>2. granted' \in [since : Int, reset : Nat, day : Nat]
      <4>1. today \in Int
        OBVIOUS
      <4>2. QED
        BY <2>1, <4>1 DEF StartCycle
    <3>3. QED
      BY <2>1, <3>1, <3>2 DEF StartCycle
  <2>2. CASE SyncPolicies
    BY <2>2, StateFields DEF SyncPolicies
  <2>3. CASE TruncateState
    BY <2>3, BlankType DEF TruncateState
  <2>4. CASE WriteState
    BY <2>4 DEF WriteState
  <2>5. CASE ExitCycle
    <3>1. client' \in [Clients -> Client]
      BY <2>5, ClientUpdates DEF ExitCycle, DropConnections, Client, NoClient, Requests
    <3>2. QED
      BY <2>5, <3>1, BlankType DEF ExitCycle
  <2>6. CASE SwapUnblocked
    BY <2>6 DEF SwapUnblocked
  <2>7. CASE RecreateBinary
    BY <2>7 DEF RecreateBinary, Client
  <2>8. CASE ExpireChallenge
    BY <2>8, FailedType DEF ExpireChallenge, Fail
  <2>9. CASE CloseWindow
    BY <2>9 DEF CloseWindow
  <2>10. CASE NothingDue
    BY <2>10 DEF NothingDue
  <2>11. CASE SwapBlocking
    BY <2>11, ClosedType DEF SwapBlocking
  <2>12. QED
    BY <1>4, <2>1, <2>2, <2>3, <2>4, <2>5, <2>6, <2>7, <2>8, <2>9, <2>10, <2>11 DEF Daemon
<1>5. ASSUME NEW c \in Clients, Handle(c) PROVE TypeOK'
  <2> USE DEF envVars, histVars, PC
  <2>1. CASE RejectPeer(c)
    BY <2>1, ClientUpdates DEF RejectPeer, Done
  <2>2. CASE HelloRefused(c)
    BY <2>2, ClientUpdates DEF HelloRefused, Hello, Done
  <2>3. CASE StartChallenge(c)
    <3>1. mem' \in PauseState
      BY <2>3, BegunType DEF StartChallenge, FreshNonces
    <3>2. client' \in [Clients -> Client]
      BY <2>3, <3>1, ShownType DEF StartChallenge
    <3>3. QED
      BY <2>3, <3>1, <3>2 DEF StartChallenge, Hello
  <2>4. CASE HelloTooLate(c)
    BY <2>4, ClientUpdates, FailedType DEF HelloTooLate, Hello, Fail, Done
  <2>5. CASE OpenQuestion(c)
    <3>1. mem' \in PauseState
      BY <2>5, OpenedType DEF OpenQuestion
    <3>2. client' \in [Clients -> Client]
      BY <2>5, <3>1, ShownType DEF OpenQuestion
    <3>3. QED
      BY <2>5, <3>1, <3>2 DEF OpenQuestion, Hello
  <2>6. CASE ReopenQuestion(c)
    <3>1. client' \in [Clients -> Client]
      BY <2>6, ShownType DEF ReopenQuestion
    <3>2. QED
      BY <2>6, <3>1 DEF ReopenQuestion, Hello
  <2>7. CASE AnswerIgnored(c)
    BY <2>7, ClientUpdates DEF AnswerIgnored, Answer, Done
  <2>8. CASE AnswerFails(c)
    <3>1. mem' \in PauseState
      BY <2>8, FailedType DEF AnswerFails, Fail
    <3>2. client' \in [Clients -> Client]
      BY <2>8, ClientUpdates DEF AnswerFails, Answer, Done
    <3>3. QED
      BY <2>8, <3>1, <3>2 DEF AnswerFails, Answer, Fail
  <2>9. CASE AnswerCorrect(c)
    <3>1. mem' \in PauseState
      BY <2>9, SolvedType DEF AnswerCorrect, FreshNonces
    <3>2. client' \in [Clients -> Client]
      BY <2>9, ClientUpdates DEF AnswerCorrect, Answer, Done
    <3>3. QED
      BY <2>9, <3>1, <3>2 DEF AnswerCorrect, Answer
  <2>10. CASE GrantWindow(c)
    <3>1. mem' \in PauseState
      BY <2>10, GrantedType DEF GrantWindow
    <3>2. client' \in [Clients -> Client]
      BY <2>10, ClientUpdates DEF GrantWindow, Answer, Done
    <3>3. granted' \in [since : Int, reset : Nat, day : Nat]
      <4>1. granted.reset + 1 \in Nat /\ granted.day + 1 \in Nat
        OBVIOUS
      <4>2. QED
        BY <2>10, <4>1 DEF GrantWindow
    <3>4. QED
      BY <2>10, <3>1, <3>2, <3>3 DEF GrantWindow, Answer
  <2>11. QED
    BY <1>5, <2>1, <2>2, <2>3, <2>4, <2>5, <2>6, <2>7, <2>8, <2>9, <2>10 DEF Handle
<1>6. ASSUME NEW c \in Clients, User(c) PROVE TypeOK'
  <2> USE DEF daemonVars, envVars, histVars
  <2>1. CASE RunClient(c)
    BY <2>1 DEF RunClient, NoClient, Client, Requests
  <2>2. CASE Connect(c)
    BY <2>2 DEF Connect, Client
  <2>3. CASE SubmitAnswer(c)
    <3>1. PICK r \in Requests : client' = [client EXCEPT ![c].at = "dial", ![c].req = r]
      BY <2>3 DEF SubmitAnswer
    <3>2. client' \in [Clients -> Client]
      BY <3>1 DEF Client
    <3>3. QED
      BY <2>3, <3>2 DEF SubmitAnswer
  <2>4. CASE Abandon(c)
    BY <2>4, ClientUpdates DEF Abandon
  <2>5. QED
    BY <1>6, <2>1, <2>2, <2>3, <2>4 DEF User
<1>7. CASE UNCHANGED vars
  BY <1>7 DEF vars, daemonVars, histVars, envVars
<1>8. QED
  BY <1>1, <1>2, <1>3, <1>4, <1>5, <1>6, <1>7 DEF Next

\* Every variable keeps its type.
THEOREM TypeCorrect == Spec => []TypeOK
<1>1. QED
  BY InitType, TypeStep, PTL DEF Spec
-----------------------------------------------------------------------------
(***************************************************************************)
(* The steps as the saved state sees them.  Every invariant of mem and     *)
(* disk is proved from this case split, so that the actions are opened     *)
(* once only.                                                              *)
(***************************************************************************)
Reload   == pc = "down" /\ mem' \in {disk, NewDay(disk, today)}
Begin    == /\ pc = "poll" /\ mem.phase = 0 /\ mem.count < MAX_PAUSES_DAY
            /\ now >= mem.cooldown_end
            /\ \E n \in Nonces : mem' = Begun(mem, n, now)
Open     == /\ mem.phase = 1 /\ mem.open_time = 0 /\ now >= mem.qstart
            /\ mem' = Opened(mem, now)
Solve    == /\ mem.phase = 1 /\ mem.open_time # 0
            /\ mem.qnum + 1 < QUESTIONS_NEEDED
            /\ \E n \in Nonces : mem' = Solved(mem, n, now)
Grant    == /\ mem.phase = 1 /\ mem.open_time # 0
            /\ mem.qnum + 1 >= QUESTIONS_NEEDED
            /\ mem' = Granted(mem, now)
GiveUp   == mem.phase = 1 /\ mem' = Failed(mem, now)
Close    == pc = "restore" /\ mem' = Closed(mem)

\* Either the memory keeps its content or is lost, and the file may be
\* truncated or overwritten with it; or the memory changes and nothing else
\* the state is compared with does.
MemStep == Reload \/ Begin \/ Open \/ Solve \/ Grant \/ GiveUp \/ Close

StateStep ==
  \/ mem' \in {mem, Blank} /\ disk' \in {disk, Blank, mem} /\ now' >= now
  \/ MemStep /\ disk' = disk /\ now' = now

LEMMA NextIsStateStep == TypeOK /\ [Next]_vars => StateStep
<1> SUFFICES ASSUME TypeOK, [Next]_vars PROVE StateStep
  OBVIOUS
<1>0. now \in Nat
  BY DEF TypeOK
<1> USE <1>0 DEF StateStep, MemStep, envVars, daemonVars, histVars
<1>1. CASE Tick
  BY <1>1 DEF Tick
<1>2. CASE Midnight
  BY <1>2 DEF Midnight
<1>3. CASE Kill
  BY <1>3 DEF Kill
<1>4. CASE Daemon
  <2>1. CASE StartCycle
    BY <2>1 DEF StartCycle, Reload
  <2>2. CASE SyncPolicies
    BY <2>2 DEF SyncPolicies
  <2>3. CASE TruncateState
    BY <2>3 DEF TruncateState
  <2>4. CASE WriteState
    BY <2>4 DEF WriteState
  <2>5. CASE ExitCycle
    BY <2>5 DEF ExitCycle
  <2>6. CASE SwapUnblocked
    BY <2>6 DEF SwapUnblocked
  <2>7. CASE RecreateBinary
    BY <2>7 DEF RecreateBinary
  <2>8. CASE ExpireChallenge
    BY <2>8 DEF ExpireChallenge, Expired, Fail, GiveUp
  <2>9. CASE CloseWindow
    BY <2>9 DEF CloseWindow
  <2>10. CASE NothingDue
    BY <2>10 DEF NothingDue
  <2>11. CASE SwapBlocking
    BY <2>11 DEF SwapBlocking, Close
  <2>12. QED
    BY <1>4, <2>1, <2>2, <2>3, <2>4, <2>5, <2>6, <2>7, <2>8, <2>9, <2>10, <2>11 DEF Daemon
<1>5. ASSUME NEW c \in Clients, Handle(c) PROVE StateStep
  <2>1. CASE RejectPeer(c)
    BY <2>1 DEF RejectPeer
  <2>2. CASE HelloRefused(c)
    BY <2>2 DEF HelloRefused, Hello
  <2>3. CASE StartChallenge(c)
    BY <2>3 DEF StartChallenge, Hello, Accept, FreshNonces, Begin
  <2>4. CASE HelloTooLate(c)
    BY <2>4 DEF HelloTooLate, Hello, Fail, GiveUp
  <2>5. CASE OpenQuestion(c)
    BY <2>5 DEF OpenQuestion, Hello, Open
  <2>6. CASE ReopenQuestion(c)
    BY <2>6 DEF ReopenQuestion, Hello
  <2>7. CASE AnswerIgnored(c)
    BY <2>7 DEF AnswerIgnored, Answer
  <2>8. CASE AnswerFails(c)
    BY <2>8 DEF AnswerFails, Answer, Current, Fail, GiveUp
  <2>9. CASE AnswerCorrect(c)
    BY <2>9 DEF AnswerCorrect, Answer, Current, InTime, FreshNonces, Solve
  <2>10. CASE GrantWindow(c)
    BY <2>10 DEF GrantWindow, Answer, Current, InTime, Grant
  <2>11. QED
    BY <1>5, <2>1, <2>2, <2>3, <2>4, <2>5, <2>6, <2>7, <2>8, <2>9, <2>10 DEF Handle
<1>6. ASSUME NEW c \in Clients, User(c) PROVE StateStep
  BY <1>6 DEF User, RunClient, Connect, SubmitAnswer, Abandon
<1>7. CASE UNCHANGED vars
  BY <1>7 DEF vars
<1>8. QED
  BY <1>1, <1>2, <1>3, <1>4, <1>5, <1>6, <1>7 DEF Next
-----------------------------------------------------------------------------
(***************************************************************************)
(* The daily limit.  DailyLimit is inductive: its second conjunct is what  *)
(* the grant, which increments without looking, relies on.                 *)
(***************************************************************************)
WithinLimit(s) ==
  s.count <= MAX_PAUSES_DAY /\ (s.phase = 1 => s.count < MAX_PAUSES_DAY)

LEMMA WithinLimitSteps ==
  ASSUME NEW s \in PauseState, WithinLimit(s), NEW t \in Nat
  PROVE  /\ WithinLimit(NewDay(s, t))
         /\ WithinLimit(Opened(s, t))
         /\ s.phase = 1 => WithinLimit(Granted(s, t))
         /\ WithinLimit(Failed(s, t))
         /\ WithinLimit(Closed(s))
         /\ \A n \in Nonces :
              /\ s.count < MAX_PAUSES_DAY => WithinLimit(Begun(s, n, t))
              /\ WithinLimit(Solved(s, n, t))
<1> USE ConstantsAssumption, StateFields DEF WithinLimit, PauseState
<1>1. WithinLimit(NewDay(s, t)) /\ WithinLimit(Opened(s, t))
  BY DEF NewDay, Opened
<1>2. s.phase = 1 => WithinLimit(Granted(s, t))
  BY DEF Granted
<1>3. WithinLimit(Failed(s, t)) /\ WithinLimit(Closed(s))
  BY DEF Failed, Closed
<1>4. ASSUME NEW n \in Nonces
      PROVE  /\ s.count < MAX_PAUSES_DAY => WithinLimit(Begun(s, n, t))
             /\ WithinLimit(Solved(s, n, t))
  BY DEF Begun, Solved
<1>5. QED
  BY <1>1, <1>2, <1>3, <1>4

LEMMA LimitStep == TypeOK /\ DailyLimit /\ StateStep => DailyLimit'
<1> SUFFICES ASSUME TypeOK, DailyLimit, StateStep
             PROVE  WithinLimit(mem') /\ WithinLimit(disk')
  BY DEF DailyLimit, WithinLimit
<1>1. WithinLimit(mem) /\ WithinLimit(disk) /\ WithinLimit(Blank)
  BY ConstantsAssumption DEF DailyLimit, WithinLimit, Blank
<1>2. mem \in PauseState /\ disk \in PauseState /\ now \in Nat /\ today \in Nat
  BY DEF TypeOK
<1>3. CASE mem' \in {mem, Blank} /\ disk' \in {disk, Blank, mem}
  BY <1>1, <1>3
<1>4. CASE MemStep /\ disk' = disk
  <2>1. CASE Reload
    BY <1>1, <1>2, <1>4, <2>1, WithinLimitSteps DEF Reload
  <2>2. CASE Begin
    BY <1>1, <1>2, <1>4, <2>2, WithinLimitSteps DEF Begin
  <2>3. CASE Open
    BY <1>1, <1>2, <1>4, <2>3, WithinLimitSteps DEF Open
  <2>4. CASE Solve
    BY <1>1, <1>2, <1>4, <2>4, WithinLimitSteps DEF Solve
  <2>5. CASE Grant
    BY <1>1, <1>2, <1>4, <2>5, WithinLimitSteps DEF Grant
  <2>6. CASE GiveUp
    BY <1>1, <1>2, <1>4, <2>6, WithinLimitSteps DEF GiveUp
  <2>7. CASE Close
    BY <1>1, <1>2, <1>4, <2>7, WithinLimitSteps DEF Close
  <2>8. QED
    BY <1>4, <2>1, <2>2, <2>3, <2>4, <2>5, <2>6, <2>7 DEF MemStep
<1>5. QED
  BY <1>3, <1>4 DEF StateStep

\* No restart, kill or lost write lets the count pass MAX_PAUSES_DAY.
THEOREM DailyLimitHolds == Spec => []DailyLimit
<1>1. Init => DailyLimit
  BY ConstantsAssumption DEF Init, DailyLimit, Blank
<1>2. TypeOK /\ DailyLimit /\ [Next]_vars => DailyLimit'
  BY NextIsStateStep, LimitStep
<1>3. QED
  BY <1>1, <1>2, TypeCorrect, PTL DEF Spec
-----------------------------------------------------------------------------
(***************************************************************************)
(* A grant takes time.  The strengthening: while a challenge is on, the    *)
(* current question became available no earlier than one delay per solved  *)
(* question after the challenge began, and was opened no earlier than it   *)
(* became available.                                                       *)
(***************************************************************************)
OnPace(s, t) ==
  s.phase = 1 =>
    /\ s.qnum < QUESTIONS_NEEDED
    /\ s.qstart >= s.begun + s.qnum * NEXT_Q_DELAY_SECS
    /\ s.open_time # 0 => s.qstart <= s.open_time /\ s.open_time <= t

DownIsBlank == pc = "down" => mem = Blank

PaceInv == OnPace(mem, now) /\ OnPace(disk, now) /\ DownIsBlank

LEMMA NextPeriod ==
  ASSUME NEW k \in Nat
  PROVE  /\ k * NEXT_Q_DELAY_SECS \in Nat
         /\ (k + 1) * NEXT_Q_DELAY_SECS
              = k * NEXT_Q_DELAY_SECS + NEXT_Q_DELAY_SECS
BY ConstantsAssumption

LEMMA OnPaceSteps ==
  ASSUME NEW s \in PauseState, NEW t \in Nat \ {0}, OnPace(s, t)
  PROVE  /\ \A u \in Nat : u >= t => OnPace(s, u)
         /\ \A day \in Nat : OnPace(NewDay(s, day), t)
         /\ s.phase = 1 /\ t >= s.qstart => OnPace(Opened(s, t), t)
         /\ OnPace(Granted(s, t), t)
         /\ OnPace(Failed(s, t), t)
         /\ OnPace(Closed(s), t)
         /\ \A n \in Nonces :
              /\ OnPace(Begun(s, n, t), t)
              /\ s.phase = 1 /\ s.open_time # 0
                   /\ s.qnum + 1 < QUESTIONS_NEEDED
                 => OnPace(Solved(s, n, t), t)
<1> USE StateFields, ConstantsAssumption
<1>1. ASSUME NEW u \in Nat, u >= t PROVE OnPace(s, u)
  BY <1>1 DEF OnPace
<1>2. ASSUME NEW day \in Nat PROVE OnPace(NewDay(s, day), t)
  BY DEF OnPace, NewDay, PauseState
<1>3. s.phase = 1 /\ t >= s.qstart => OnPace(Opened(s, t), t)
  BY DEF OnPace, Opened, PauseState
<1>4. OnPace(Granted(s, t), t) /\ OnPace(Failed(s, t), t) /\ OnPace(Closed(s), t)
  BY DEF OnPace, Granted, Failed, Closed, PauseState
<1>5. ASSUME NEW n \in Nonces PROVE OnPace(Begun(s, n, t), t)
  <2>1. 0 * NEXT_Q_DELAY_SECS = 0
    OBVIOUS
  <2>2. QED
    BY <2>1 DEF OnPace, Begun, PauseState
<1>6. ASSUME NEW n \in Nonces, s.phase = 1, s.open_time # 0,
             s.qnum + 1 < QUESTIONS_NEEDED
      PROVE  OnPace(Solved(s, n, t), t)
  <2> DEFINE q == s.qnum * NEXT_Q_DELAY_SECS
  <2>1. q \in Nat /\ (s.qnum + 1) * NEXT_Q_DELAY_SECS = q + NEXT_Q_DELAY_SECS
    BY NextPeriod
  <2>2. s.begun + q <= s.qstart /\ s.qstart <= s.open_time /\ s.open_time <= t
    BY <1>6 DEF OnPace
  <2>3. s.begun + (s.qnum + 1) * NEXT_Q_DELAY_SECS <= t + NEXT_Q_DELAY_SECS
    <3> HIDE DEF q
    <3> QED
      BY <2>1, <2>2
  <2>4. /\ Solved(s, n, t).qnum = s.qnum + 1
        /\ Solved(s, n, t).begun = s.begun
        /\ Solved(s, n, t).qstart = t + NEXT_Q_DELAY_SECS
        /\ Solved(s, n, t).open_time = 0
    BY DEF Solved, PauseState
  <2>5. QED
    BY <1>6, <2>3, <2>4 DEF OnPace
<1>7. QED
  BY <1>1, <1>2, <1>3, <1>4, <1>5, <1>6

LEMMA PaceStep ==
  TypeOK /\ OnPace(mem, now) /\ OnPace(disk, now) /\ StateStep /\ TypeOK'
    => OnPace(mem', now') /\ OnPace(disk', now')
<1> SUFFICES ASSUME TypeOK, OnPace(mem, now), OnPace(disk, now), StateStep, TypeOK'
             PROVE  OnPace(mem', now') /\ OnPace(disk', now')
  OBVIOUS
<1>1. /\ mem \in PauseState /\ disk \in PauseState
      /\ now \in Nat \ {0} /\ today \in Nat /\ now' \in Nat
  BY DEF TypeOK
<1>2. CASE mem' \in {mem, Blank} /\ disk' \in {disk, Blank, mem} /\ now' >= now
  <2>1. OnPace(mem, now') /\ OnPace(disk, now')
    BY <1>1, <1>2, OnPaceSteps
  <2>2. OnPace(Blank, now')
    BY DEF OnPace, Blank
  <2>3. QED
    BY <1>2, <2>1, <2>2
<1>3. CASE MemStep /\ disk' = disk /\ now' = now
  <2>1. CASE Reload
    BY <1>1, <1>3, <2>1, OnPaceSteps DEF Reload
  <2>2. CASE Begin
    BY <1>1, <1>3, <2>2, OnPaceSteps DEF Begin
  <2>3. CASE Open
    BY <1>1, <1>3, <2>3, OnPaceSteps DEF Open
  <2>4. CASE Solve
    BY <1>1, <1>3, <2>4, OnPaceSteps DEF Solve
  <2>5. CASE Grant
    BY <1>1, <1>3, <2>5, OnPaceSteps DEF Grant
  <2>6. CASE GiveUp
    BY <1>1, <1>3, <2>6, OnPaceSteps DEF GiveUp
  <2>7. CASE Close
    BY <1>1, <1>3, <2>7, OnPaceSteps DEF Close
  <2>8. QED
    BY <1>3, <2>1, <2>2, <2>3, <2>4, <2>5, <2>6, <2>7 DEF MemStep
<1>4. QED
  BY <1>2, <1>3 DEF StateStep

LEMMA DownStep == DownIsBlank /\ [Next]_vars => DownIsBlank'
<1> SUFFICES ASSUME DownIsBlank, [Next]_vars, pc' = "down" PROVE mem' = Blank
  BY DEF DownIsBlank
<1> USE DEF DownIsBlank, daemonVars, envVars, histVars
<1>1. CASE Tick \/ Midnight \/ UNCHANGED vars
  BY <1>1 DEF Tick, Midnight, vars
<1>2. CASE Kill
  BY <1>2 DEF Kill
<1>3. CASE Daemon
  BY <1>3 DEF Daemon, StartCycle, SyncPolicies, TruncateState, WriteState,
     ExitCycle, SwapUnblocked, RecreateBinary, ExpireChallenge, CloseWindow,
     NothingDue, SwapBlocking
<1>4. ASSUME NEW c \in Clients, Handle(c) PROVE mem' = Blank
  BY <1>4 DEF Handle, RejectPeer, HelloRefused, StartChallenge, HelloTooLate,
     OpenQuestion, ReopenQuestion, AnswerIgnored, AnswerFails, AnswerCorrect,
     GrantWindow, Hello, Answer, Accept
<1>5. ASSUME NEW c \in Clients, User(c) PROVE mem' = Blank
  BY <1>5 DEF User, RunClient, Connect, SubmitAnswer, Abandon
<1>6. QED
  BY <1>1, <1>2, <1>3, <1>4, <1>5 DEF Next

LEMMA PaceInvariant == Spec => []PaceInv
<1>1. Init => PaceInv
  BY DEF Init, PaceInv, OnPace, Blank, DownIsBlank
<1>2. TypeOK /\ TypeOK' /\ PaceInv /\ [Next]_vars => PaceInv'
  BY NextIsStateStep, PaceStep, DownStep DEF PaceInv
<1>3. QED
  BY <1>1, <1>2, TypeCorrect, PTL DEF Spec

\* A step from a challenge to a window is a grant, and then the pace of the
\* last question bounds the time since the challenge began.
LEMMA GrantStep ==
  ASSUME TypeOK, PaceInv, StateStep, mem.phase = 1, mem'.phase = 2
  PROVE  now >= mem.begun + (QUESTIONS_NEEDED - 1) * NEXT_Q_DELAY_SECS
<1>1. mem \in PauseState /\ now \in Nat
  BY DEF TypeOK
<1>2. Grant
  <2>1. pc # "down"
    BY DEF PaceInv, DownIsBlank, Blank
  <2>2. ~(mem' \in {mem, Blank})
    BY DEF Blank
  <2>3. ~Begin /\ ~Open /\ ~Solve /\ ~GiveUp /\ ~Close
    <3>1. ~Begin
      BY DEF Begin
    <3>2. Opened(mem, now).phase = 1 /\ Failed(mem, now).phase = 0
      BY <1>1 DEF Opened, Failed, PauseState
    <3>3. \A n \in Nonces : Solved(mem, n, now).phase = 1
      BY <1>1 DEF Solved, PauseState
    <3>4. Closed(mem).phase = 0
      BY <1>1 DEF Closed, PauseState
    <3>5. QED
      BY <3>1, <3>2, <3>3, <3>4 DEF Open, Solve, GiveUp, Close
  <2>4. QED
    BY <2>1, <2>2, <2>3 DEF StateStep, MemStep, Reload
<1> DEFINE q == mem.qnum * NEXT_Q_DELAY_SECS
<1>3. mem.qnum = QUESTIONS_NEEDED - 1
  BY <1>1, <1>2, StateFields, ConstantsAssumption DEF Grant, PaceInv, OnPace
<1>4. q \in Nat /\ mem.begun \in Nat /\ mem.qstart \in Nat /\ mem.open_time \in Nat
  BY <1>1, StateFields, NextPeriod
<1>5. mem.begun + q <= mem.qstart /\ mem.qstart <= mem.open_time /\ mem.open_time <= now
  BY <1>2 DEF Grant, PaceInv, OnPace
<1>6. mem.begun + q <= now
  <2> HIDE DEF q
  <2> QED
    BY <1>1, <1>4, <1>5
<1>7. QED
  BY <1>3, <1>6

\* Whatever the restarts, no window is granted sooner than one delay for each
\* question but the first after its challenge began.
THEOREM GrantTakesTimeHolds == Spec => GrantTakesTime
<1>1. TypeOK /\ PaceInv /\ [Next]_vars =>
        [mem.phase = 1 /\ mem'.phase = 2 =>
           now >= mem.begun + (QUESTIONS_NEEDED - 1) * NEXT_Q_DELAY_SECS]_vars
  BY NextIsStateStep, GrantStep
<1>2. QED
  BY <1>1, TypeCorrect, PaceInvariant, PTL DEF Spec, GrantTakesTime
=============================================================================
