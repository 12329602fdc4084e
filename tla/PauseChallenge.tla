--------------------------- MODULE PauseChallenge ---------------------------
(***************************************************************************)
(* The pause challenge of cockblockd: a user opens cb-pause, answers       *)
(* QUESTIONS_NEEDED questions spread over several minutes and is granted   *)
(* an unblocked window of UNBLOCK_SECS.                                    *)
(*                                                                         *)
(* The daemon is a short-lived process: systemd restarts it when it exits  *)
(* (after CYCLE_BUDGET seconds of polling) and kills it with SIGTERM at    *)
(* RuntimeMaxSec, wherever it happens to be.  Everything it must remember  *)
(* from one cycle to the next is in /var/lib/cockblock/state, which        *)
(* write_state truncates and then rewrites.  Clients are separate          *)
(* processes: one connection for HELLO, a second one for ANSWER.           *)
(*                                                                         *)
(* Time is in the units of the constants; it may pass between any two      *)
(* steps (a slow helper, a suspended laptop).  Question texts and answers  *)
(* are abstracted to the nonce that names the question and to whether the  *)
(* typed line is right, wrong or empty.                                    *)
(***************************************************************************)
EXTENDS Integers

CONSTANTS
  Clients,            \* cb-pause processes the user runs
  Nonces,             \* names of questions (gen_nonce: never repeated)
  NoNonce,            \* the empty nonce of a blank state
  MAX_PAUSES_DAY, QUESTIONS_NEEDED, QUESTION_SECS, NEXT_Q_DELAY_SECS,
  OPEN_WINDOW_SECS, GRACE_SECS, UNBLOCK_SECS, COOLDOWN_SECS,
  KillPoints,         \* where SIGTERM may hit the daemon
  MaxKills,           \* bound: kills at a point other than SafePoints
  LastStart,          \* bound: no challenge starts after this time
  Horizon,            \* bound: time stops here
  LastDay             \* bound: no midnight after this day

\* Control points of one daemon cycle.  "sync": main before pause_run;
\* "init_*": the write_state of main; the rest is the body of the poll loop.
PC == {"down", "sync", "init_save", "init_write", "poll", "unlock",
       "rebuild", "check", "restore", "save", "write"}

\* Where a kill finds nothing in memory that the state file does not hold.
SafePoints == {"sync", "poll"}

ASSUME ConstantsAssumption ==
  /\ NoNonce \notin Nonces
  /\ MAX_PAUSES_DAY \in Nat \ {0}
  /\ QUESTIONS_NEEDED \in Nat \ {0}
  /\ QUESTION_SECS \in Nat
  /\ NEXT_Q_DELAY_SECS \in Nat
  /\ OPEN_WINDOW_SECS \in Nat
  /\ GRACE_SECS \in Nat
  /\ UNBLOCK_SECS \in Nat
  /\ COOLDOWN_SECS \in Nat
  /\ KillPoints \subseteq PC \ {"down"}
  /\ MaxKills \in Nat
  /\ LastStart \in Nat
  /\ Horizon \in Nat
  /\ LastDay \in Nat

VARIABLES
  now,         \* time(NULL)
  today,       \* today_str(): the calendar day, as a number
  pc,          \* control point of the daemon process, "down" between cycles
  mem,         \* struct PauseState in the running daemon
  disk,        \* what read_state would return now
  policy,      \* which policies.json the browsers run under
  client,      \* the cb-pause processes
  kills,       \* kills spent at other than SafePoints
  granted,     \* history: GRANTED replies since the daily reset and in this day
  failedAt     \* history: time of the last failed attempt, 0 if none

daemonVars == <<pc, mem, disk, policy>>
histVars   == <<granted, failedAt>>
envVars    == <<now, today, kills>>
vars       == <<daemonVars, histVars, envVars, client>>
-----------------------------------------------------------------------------
(***************************************************************************)
(* The saved state.  "begun" is not a field of the program: it records     *)
(* when the running challenge was started and travels with the record, so  *)
(* that a restart restores it together with the fields it is compared to.  *)
(***************************************************************************)
PauseState ==
  [phase : {0, 1, 2}, count : Nat, date : Int, qnum : Nat,
   nonce : Nonces \union {NoNonce}, qstart : Nat, open_time : Nat,
   unblock_end : Nat, cooldown_end : Nat, begun : Nat]

\* What read_state returns for a missing or a truncated file.
Blank ==
  [phase |-> 0, count |-> 0, date |-> -1, qnum |-> 0, nonce |-> NoNonce,
   qstart |-> 0, open_time |-> 0, unblock_end |-> 0, cooldown_end |-> 0,
   begun |-> 0]

\* The changes the daemon makes to its state.
NewDay(s, day) == [s EXCEPT !.date = day, !.count = 0]

Begun(s, n, t) ==
  [s EXCEPT !.cooldown_end = 0, !.phase = 1, !.qnum = 0, !.nonce = n,
            !.qstart = t, !.open_time = t, !.begun = t]

Opened(s, t) == [s EXCEPT !.open_time = t]

\* Mutant: an unopened question is marked with -1 instead of 0.
Solved_MarkUnopened(s, n, t) ==
  [s EXCEPT !.qnum = @ + 1, !.nonce = n, !.qstart = t + NEXT_Q_DELAY_SECS,
            !.open_time = -1]

Solved(s, n, t) ==
  [s EXCEPT !.qnum = @ + 1, !.nonce = n, !.qstart = t + NEXT_Q_DELAY_SECS,
            !.open_time = 0]

Granted(s, t) ==
  [s EXCEPT !.qnum = @ + 1, !.count = @ + 1, !.phase = 2,
            !.unblock_end = t + UNBLOCK_SECS]

Failed(s, t) == [s EXCEPT !.phase = 0, !.cooldown_end = t + COOLDOWN_SECS]

Closed(s) == [s EXCEPT !.phase = 0]

Requests == {"HELLO", "RIGHT", "WRONG", "EMPTY"}

\* exe: /proc/<pid>/exe still names CB_PAUSE_BIN (not "... (deleted)").
Client ==
  [at : {"idle", "dial", "wait", "typing"}, req : Requests,
   nonce : Nonces \union {NoNonce}, deadline : Nat, exe : BOOLEAN]

NoClient ==
  [at |-> "idle", req |-> "HELLO", nonce |-> NoNonce, deadline |-> 0,
   exe |-> TRUE]

TypeOK ==
  /\ now \in Nat \ {0}
  /\ today \in Nat
  /\ pc \in PC
  /\ mem \in PauseState
  /\ disk \in PauseState
  /\ policy \in {"blocking", "unblocked"}
  /\ client \in [Clients -> Client]
  /\ kills \in Nat
  /\ granted \in [since : Int, reset : Nat, day : Nat]
  /\ failedAt \in Nat

Init ==
  /\ now = 1
  /\ today = 0
  /\ pc = "down"
  /\ mem = Blank
  /\ disk = Blank
  /\ policy = "blocking"
  /\ client = [c \in Clients |-> NoClient]
  /\ kills = 0
  /\ granted = [since |-> -1, reset |-> 0, day |-> 0]
  /\ failedAt = 0
-----------------------------------------------------------------------------
(***************************************************************************)
(* Environment.                                                            *)
(***************************************************************************)
Tick ==
  /\ now < Horizon
  /\ now' = now + 1
  /\ UNCHANGED <<daemonVars, histVars, today, kills, client>>

Midnight ==
  /\ today < LastDay
  /\ today' = today + 1
  /\ granted' = [granted EXCEPT !.day = 0]
  /\ UNCHANGED <<daemonVars, now, kills, failedAt, client>>

\* The abstract socket exists from pause_socket_setup to the end of pause_run.
Listening ==
  pc \in {"poll", "unlock", "rebuild", "check", "restore", "save", "write"}

\* A connection in the backlog is reset when the daemon's process ends; the
\* client reads end-of-file and exits.  One still dialling tries again.
DropConnections ==
  client' = [c \in Clients |->
               IF client[c].at = "wait" THEN NoClient ELSE client[c]]

\* SIGTERM (RuntimeMaxSec): no handler, the process ends where it stands.
Kill ==
  /\ pc \in KillPoints
  /\ pc \notin SafePoints => kills < MaxKills
  /\ kills' = IF pc \in SafePoints THEN kills ELSE kills + 1
  /\ pc' = "down"
  /\ mem' = Blank
  /\ DropConnections
  /\ UNCHANGED <<now, today, disk, policy, histVars>>
-----------------------------------------------------------------------------
(***************************************************************************)
(* The cb-pause process.                                                   *)
(***************************************************************************)
RunClient(c) ==
  /\ client[c].at = "idle"
  /\ client' = [client EXCEPT ![c] = [NoClient EXCEPT !.at = "dial"]]
  /\ UNCHANGED <<daemonVars, histVars, envVars>>

Connect(c) ==
  /\ client[c].at = "dial"
  /\ Listening
  /\ client' = [client EXCEPT ![c].at = "wait"]
  /\ UNCHANGED <<daemonVars, histVars, envVars>>

\* read_answer returns a line before the deadline it was shown; main then
\* dials a second connection to submit it.
SubmitAnswer(c) ==
  /\ client[c].at = "typing"
  /\ now < client[c].deadline
  /\ \E r \in Requests \ {"HELLO"} :
       client' = [client EXCEPT ![c].at = "dial", ![c].req = r]
  /\ UNCHANGED <<daemonVars, histVars, envVars>>

\* Time is up, no answer to connect or recv in time, or the user gives up.
Abandon(c) ==
  /\ client[c].at # "idle"
  /\ client' = [client EXCEPT ![c] = NoClient]
  /\ UNCHANGED <<daemonVars, histVars, envVars>>
-----------------------------------------------------------------------------
(***************************************************************************)
(* main: one daemon cycle up to pause_run.                                 *)
(***************************************************************************)
\* Mutant: every cycle resets the daily counter.
StartCycle_ResetCount ==
  /\ pc = "down"
  /\ pc' = "sync"
  /\ mem' = NewDay(disk, today)
  /\ granted' = IF granted.since # today
                THEN [granted EXCEPT !.since = today, !.reset = 0]
                ELSE granted
  /\ UNCHANGED <<disk, policy, failedAt, envVars, client>>

StartCycle ==
  /\ pc = "down"
  /\ pc' = "sync"
  /\ mem' = IF disk.date # today THEN NewDay(disk, today) ELSE disk
  /\ granted' = IF granted.since # today
                THEN [granted EXCEPT !.since = today, !.reset = 0]
                ELSE granted
  /\ UNCHANGED <<disk, policy, failedAt, envVars, client>>

\* Mutant: the normal sync runs in every phase.
SyncPolicies_AnyPhase ==
  /\ pc = "sync"
  /\ policy' = "blocking"
  /\ pc' = IF mem.date # disk.date THEN "init_save" ELSE "poll"
  /\ UNCHANGED <<mem, disk, histVars, envVars, client>>

\* Normal sync when no challenge or window is on, swap_unblocked in a window;
\* then write_state if the date changed (the only change main makes).
SyncPolicies ==
  /\ pc = "sync"
  /\ policy' = CASE mem.phase = 0 -> "blocking"
                 [] mem.phase = 1 -> policy
                 [] mem.phase = 2 -> "unblocked"
  /\ pc' = IF mem.date # disk.date THEN "init_save" ELSE "poll"
  /\ UNCHANGED <<mem, disk, histVars, envVars, client>>

\* write_state: fopen(..., "w") empties the file, the bytes go out at fclose.
TruncateState ==
  /\ \/ pc = "init_save" /\ pc' = "init_write"
     \/ pc = "save"      /\ pc' = "write"
  /\ disk' = Blank
  /\ UNCHANGED <<mem, policy, histVars, envVars, client>>

WriteState ==
  /\ pc \in {"init_write", "write"}
  /\ pc' = "poll"
  /\ disk' = mem
  /\ UNCHANGED <<mem, policy, histVars, envVars, client>>
-----------------------------------------------------------------------------
(***************************************************************************)
(* pause_run: the poll loop.                                               *)
(***************************************************************************)
\* CYCLE_BUDGET is over.  How many iterations it leaves depends on how long
\* each takes, so the loop may end before any of them.
ExitCycle ==
  /\ pc = "poll"
  /\ pc' = "down"
  /\ mem' = Blank
  /\ DropConnections
  /\ UNCHANGED <<disk, policy, histVars, envVars>>

\* pause_handle_conn takes c's connection; its peer check passed or failed.
Accept(c) ==
  /\ pc = "poll"
  /\ client[c].at = "wait"

\* The client got its reply (or a closed connection) and exits.
Done(c) == client' = [client EXCEPT ![c] = NoClient]

\* Reply QUESTION with the question of state s.
ShowQuestion(c, s) ==
  client' = [client EXCEPT ![c] =
               [@ EXCEPT !.at = "typing", !.nonce = s.nonce,
                         !.deadline = s.open_time + QUESTION_SECS]]

\* A failed attempt: back to idle, locked out for COOLDOWN_SECS.
Fail ==
  /\ mem' = Failed(mem, now)
  /\ failedAt' = now

RejectPeer(c) ==
  /\ Accept(c)
  /\ ~client[c].exe
  /\ Done(c)
  /\ pc' = "check"
  /\ UNCHANGED <<mem, disk, policy, histVars, envVars>>

Hello(c) ==
  /\ Accept(c)
  /\ client[c].exe
  /\ client[c].req = "HELLO"
  /\ pc' = "check"
  /\ UNCHANGED <<disk, policy, envVars, granted>>

\* COOLDOWN or LIMIT in phase 0, WAIT in phase 1, GRANTED in phase 2.
HelloRefused(c) ==
  /\ Hello(c)
  /\ \/ mem.phase = 0 /\ now < mem.cooldown_end
     \/ mem.phase = 0 /\ mem.count >= MAX_PAUSES_DAY
     \/ mem.phase = 1 /\ mem.open_time = 0 /\ now < mem.qstart
     \/ mem.phase = 2
  /\ Done(c)
  /\ UNCHANGED <<mem, failedAt>>

FreshNonces ==
  Nonces \ ({mem.nonce, disk.nonce} \union {client[d].nonce : d \in Clients})

\* Mutant: HELLO does not look at the daily counter.
StartChallenge_NoLimit(c) ==
  /\ Hello(c)
  /\ mem.phase = 0
  /\ now >= mem.cooldown_end
  /\ now <= LastStart
  /\ \E n \in FreshNonces :
       mem' = Begun(mem, n, now)
  /\ ShowQuestion(c, mem')
  /\ UNCHANGED failedAt

StartChallenge(c) ==
  /\ Hello(c)
  /\ mem.phase = 0
  /\ now >= mem.cooldown_end
  /\ mem.count < MAX_PAUSES_DAY
  /\ now <= LastStart
  /\ \E n \in FreshNonces :
       mem' = Begun(mem, n, now)
  /\ ShowQuestion(c, mem')
  /\ UNCHANGED failedAt

OpenMissed   == mem.open_time = 0 /\ now - mem.qstart > OPEN_WINDOW_SECS
AnswerMissed(limit) == mem.open_time # 0 /\ now - mem.open_time > limit

HelloTooLate(c) ==
  /\ Hello(c)
  /\ mem.phase = 1
  /\ OpenMissed \/ AnswerMissed(QUESTION_SECS)
  /\ Fail
  /\ Done(c)

\* Mutant: the question is shown before its delay is over.
OpenQuestion_NoDelay(c) ==
  /\ Hello(c)
  /\ mem.phase = 1
  /\ mem.open_time = 0
  /\ ~OpenMissed
  /\ mem' = Opened(mem, now)
  /\ ShowQuestion(c, mem')
  /\ UNCHANGED failedAt

OpenQuestion(c) ==
  /\ Hello(c)
  /\ mem.phase = 1
  /\ mem.open_time = 0
  /\ now >= mem.qstart
  /\ ~OpenMissed
  /\ mem' = Opened(mem, now)
  /\ ShowQuestion(c, mem')
  /\ UNCHANGED failedAt

\* Mutant: a second HELLO restarts the minute.
ReopenQuestion_Restart(c) ==
  /\ Hello(c)
  /\ mem.phase = 1
  /\ mem.open_time # 0
  /\ ~AnswerMissed(QUESTION_SECS)
  /\ mem' = Opened(mem, now)
  /\ ShowQuestion(c, mem')
  /\ UNCHANGED failedAt

ReopenQuestion(c) ==
  /\ Hello(c)
  /\ mem.phase = 1
  /\ mem.open_time # 0
  /\ ~AnswerMissed(QUESTION_SECS)
  /\ ShowQuestion(c, mem)
  /\ UNCHANGED <<mem, failedAt>>

Answer(c) ==
  /\ Accept(c)
  /\ client[c].exe
  /\ client[c].req # "HELLO"
  /\ Done(c)
  /\ UNCHANGED <<disk, policy, envVars>>

\* Mutant: an answer is scored whatever question it was typed for.
Current_AnyNonce(c) == mem.phase = 1

\* The answer is for the question that is on.
Current(c) == mem.phase = 1 /\ client[c].nonce = mem.nonce

\* BAD or STALE.
AnswerIgnored(c) ==
  /\ Answer(c)
  /\ client[c].req = "EMPTY" \/ ~Current(c)
  /\ pc' = "check"
  /\ UNCHANGED <<mem, histVars>>

InTime == mem.open_time # 0 /\ ~AnswerMissed(QUESTION_SECS + GRACE_SECS)

\* TIMEOUT, or WRONG.
AnswerFails(c) ==
  /\ Answer(c)
  /\ client[c].req # "EMPTY"
  /\ Current(c)
  /\ ~InTime \/ client[c].req = "WRONG"
  /\ Fail
  /\ pc' = "rebuild"
  /\ UNCHANGED granted

AnswerCorrect(c) ==
  /\ Answer(c)
  /\ client[c].req = "RIGHT"
  /\ Current(c)
  /\ InTime
  /\ mem.qnum + 1 < QUESTIONS_NEEDED
  /\ \E n \in FreshNonces :
       mem' = Solved(mem, n, now)
  /\ pc' = "rebuild"
  /\ UNCHANGED histVars

GrantWindow(c) ==
  /\ Answer(c)
  /\ client[c].req = "RIGHT"
  /\ Current(c)
  /\ InTime
  /\ mem.qnum + 1 >= QUESTIONS_NEEDED
  /\ mem' = Granted(mem, now)
  /\ granted' = [granted EXCEPT !.reset = @ + 1, !.day = @ + 1]
  /\ pc' = "unlock"
  /\ UNCHANGED failedAt

\* swap_unblocked, called by the handler before anything is saved.
SwapUnblocked ==
  /\ pc = "unlock"
  /\ policy' = "unblocked"
  /\ pc' = "rebuild"
  /\ UNCHANGED <<mem, disk, histVars, envVars, client>>

\* pause_delete_recreate_binary: every running cb-pause loses its identity.
RecreateBinary ==
  /\ pc = "rebuild"
  /\ client' = [c \in Clients |->
                  IF client[c].at = "idle" THEN client[c]
                                           ELSE [client[c] EXCEPT !.exe = FALSE]]
  /\ pc' = "check"
  /\ UNCHANGED <<mem, disk, policy, histVars, envVars>>

\* Mutant: deadlines are looked at only after a connection was handled.
Checking_AfterConnection == pc = "check"

\* The checks of every iteration: after a handled connection, or after select
\* timed out (an iteration in which nothing happens is a stuttering step).
Checking == pc \in {"poll", "check"}

\* Mutant: only an opened question expires.
Expired_OnlyOpened ==
  mem.phase = 1 /\ AnswerMissed(QUESTION_SECS + GRACE_SECS)

Expired   == /\ mem.phase = 1
             /\ OpenMissed \/ AnswerMissed(QUESTION_SECS + GRACE_SECS)
WindowOver == mem.phase = 2 /\ now >= mem.unblock_end

\* Mutant: an expired challenge is dropped without the lockout.
ExpireChallenge_NoLockout ==
  /\ Checking
  /\ Expired
  /\ mem' = [mem EXCEPT !.phase = 0]
  /\ failedAt' = now
  /\ pc' = "save"
  /\ UNCHANGED <<disk, policy, envVars, granted, client>>

ExpireChallenge ==
  /\ Checking
  /\ Expired
  /\ Fail
  /\ pc' = "save"
  /\ UNCHANGED <<disk, policy, envVars, granted, client>>

CloseWindow ==
  /\ Checking
  /\ WindowOver
  /\ pc' = "restore"
  /\ UNCHANGED <<mem, disk, policy, histVars, envVars, client>>

\* Mutant: the state is not saved after a request.
NothingDue_NoSave ==
  /\ pc = "check"
  /\ ~Expired
  /\ ~WindowOver
  /\ pc' = "poll"
  /\ UNCHANGED <<mem, disk, policy, histVars, envVars, client>>

\* Every handler that sets "dirty" changes mem, and no other does.
NothingDue ==
  /\ pc = "check"
  /\ ~Expired
  /\ ~WindowOver
  /\ pc' = IF mem # disk THEN "save" ELSE "poll"
  /\ UNCHANGED <<mem, disk, policy, histVars, envVars, client>>

SwapBlocking ==
  /\ pc = "restore"
  /\ policy' = "blocking"
  /\ mem' = Closed(mem)
  /\ pc' = "save"
  /\ UNCHANGED <<disk, histVars, envVars, client>>
-----------------------------------------------------------------------------
Handle(c) ==
  \/ RejectPeer(c)
  \/ HelloRefused(c)
  \/ StartChallenge(c)
  \/ HelloTooLate(c)
  \/ OpenQuestion(c)
  \/ ReopenQuestion(c)
  \/ AnswerIgnored(c)
  \/ AnswerFails(c)
  \/ AnswerCorrect(c)
  \/ GrantWindow(c)

Daemon ==
  \/ StartCycle
  \/ SyncPolicies
  \/ TruncateState
  \/ WriteState
  \/ ExitCycle
  \/ SwapUnblocked
  \/ RecreateBinary
  \/ ExpireChallenge
  \/ CloseWindow
  \/ NothingDue
  \/ SwapBlocking

User(c) == RunClient(c) \/ Connect(c) \/ SubmitAnswer(c) \/ Abandon(c)

Next ==
  \/ Tick
  \/ Midnight
  \/ Kill
  \/ Daemon
  \/ \E c \in Clients : Handle(c) \/ User(c)

Spec == Init /\ [][Next]_vars

\* The clock runs, systemd restarts the daemon and the daemon keeps executing.
\* A cycle gets through the sync, at least once round the poll loop and to the
\* end of its budget: kills may prevent it, but not for ever.  Nothing is
\* assumed of users, of kills, or of midnight.
FairSpec ==
  /\ Spec
  /\ WF_vars(Tick)
  /\ WF_vars(Daemon)
  /\ SF_vars(SyncPolicies)
  /\ SF_vars(ExpireChallenge)
  /\ SF_vars(CloseWindow)
  /\ SF_vars(ExitCycle)
-----------------------------------------------------------------------------
(***************************************************************************)
(* Properties that hold wherever the daemon is killed.                     *)
(***************************************************************************)

\* The count never passes MAX_PAUSES_DAY, in memory or on disk, although the
\* grant itself does not look at it: a challenge is only ever on while a slot
\* is free, across every restart that reloads it (HELLO checks, ANSWER counts).
DailyLimit ==
  \A s \in {mem, disk} :
    /\ s.count <= MAX_PAUSES_DAY
    /\ s.phase = 1 => s.count < MAX_PAUSES_DAY

\* However often the daemon is restarted and whatever order the connections
\* come in, a window is granted only after the challenge has lasted one
\* NEXT_Q_DELAY_SECS for every question but the first.
GrantTakesTime ==
  [][mem.phase = 1 /\ mem'.phase = 2 =>
       now >= mem.begun + (QUESTIONS_NEEDED - 1) * NEXT_Q_DELAY_SECS]_vars

\* An unblocked browser is blocked again: by the end of the window, or by the
\* next normal sync when a kill made the daemon forget the window.
UnblockedEnds == policy = "unblocked" ~> policy = "blocking"

\* A challenge that a polling daemon knows of is resolved: granted, failed or
\* expired.  No restart, and no user who walks away, leaves it on for ever
\* (which would also suspend every other enforcement of the daemon).
ChallengeEnds ==
  pc = "poll" /\ mem.phase = 1 ~> pc = "poll" /\ mem.phase # 1

(***************************************************************************)
(* Properties that need the daemon not to be killed between answering a    *)
(* client and the end of write_state (KillPoints \subseteq SafePoints).    *)
(***************************************************************************)

\* The browsers run unblocked exactly while the daemon is in a window.
PolicyMatchesPhase ==
  pc = "poll" => (policy = "unblocked" <=> mem.phase = 2)

\* "Any failed attempt ... sets a COOLDOWN_SECS lockout": until it is over no
\* question is shown and no window granted.
LockoutHeld ==
  [][\/ \E c \in Clients : client[c].at = "wait" /\ client'[c].at = "typing"
     \/ mem.phase = 1 /\ mem'.phase = 2
     => failedAt = 0 \/ now >= failedAt + COOLDOWN_SECS]_vars

\* "a fully solved challenge consumes a daily slot": every GRANTED reply since
\* the daily reset is in the count.
SlotConsumed == pc = "poll" => mem.count = granted.reset

\* A client that has the current question on screen counts down to the very
\* deadline the daemon holds: nobody else's open or restart moves it.
ShownDeadlineIsHeld ==
  \A c \in Clients :
    /\ client[c].at # "idle"
    /\ client[c].nonce = mem.nonce
    /\ mem.phase = 1
    => /\ mem.open_time # 0
       /\ client[c].deadline = mem.open_time + QUESTION_SECS

\* An answer scores only in the challenge, and for the opening, it was typed
\* for: one left over from an expired question or a second window does not.
AnswerScoresOnce ==
  [][mem.phase = 1 /\ mem'.qnum > mem.qnum =>
       \E c \in Clients :
         /\ client[c].at = "wait" /\ client'[c].at = "idle"
         /\ client[c].req = "RIGHT"
         /\ client[c].deadline = mem.open_time + QUESTION_SECS]_vars

\* The state of record: the file until main has taken it over, then the memory
\* of the running daemon.
Record == IF pc \in {"down", "sync"} THEN disk ELSE mem

Protocol == INSTANCE PauseProtocol WITH
  stage       <- CASE Record.phase = 0 -> "idle"
                   [] Record.phase = 1 -> "challenge"
                   [] Record.phase = 2 -> "window",
  solved      <- Record.qnum,
  used        <- Record.count,
  lockedUntil <- Record.cooldown_end,
  closesAt    <- Record.unblock_end

\* Daemon cycles, reconnecting clients and the state file are invisible: the
\* whole behaves as one uninterrupted challenge protocol.
ImplementsProtocol == Protocol!Spec

(***************************************************************************)
(* What the source says that the code does not keep.                       *)
(***************************************************************************)

\* "Daily pause limit reached.  Try again tomorrow": at most MAX_PAUSES_DAY
\* windows are granted between two midnights, whenever the cycles happen to
\* look at the date.
CalendarDayLimit == granted.day <= MAX_PAUSES_DAY
=============================================================================
