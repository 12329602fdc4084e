---------------------------- MODULE PauseProtocol ----------------------------
(***************************************************************************)
(* What the pause challenge promises, with no processes, connections,      *)
(* restarts or state file: attempts of QUESTIONS_NEEDED questions, one at  *)
(* a time, MAX_PAUSES_DAY successful ones between two daily resets, and a  *)
(* lockout after a failed one.                                             *)
(***************************************************************************)
EXTENDS Integers

CONSTANTS MAX_PAUSES_DAY, QUESTIONS_NEEDED, COOLDOWN_SECS, UNBLOCK_SECS

VARIABLES
  now,          \* the clock
  stage,        \* "idle", "challenge" or "window"
  solved,       \* questions answered in this challenge
  used,         \* windows granted since the daily reset
  lockedUntil,  \* no challenge starts before this time
  closesAt      \* end of the last window

vars == <<now, stage, solved, used, lockedUntil, closesAt>>

Init ==
  /\ now \in Nat
  /\ stage = "idle"
  /\ solved = 0
  /\ used = 0
  /\ lockedUntil = 0
  /\ closesAt = 0

Tick ==
  /\ now' = now + 1
  /\ UNCHANGED <<stage, solved, used, lockedUntil, closesAt>>

DailyReset ==
  /\ used' = 0
  /\ UNCHANGED <<now, stage, solved, lockedUntil, closesAt>>

Begin ==
  /\ stage = "idle"
  /\ now >= lockedUntil
  /\ used < MAX_PAUSES_DAY
  /\ stage' = "challenge"
  /\ solved' = 0
  /\ lockedUntil' = 0
  /\ UNCHANGED <<now, used, closesAt>>

Solve ==
  /\ stage = "challenge"
  /\ solved + 1 < QUESTIONS_NEEDED
  /\ solved' = solved + 1
  /\ UNCHANGED <<now, stage, used, lockedUntil, closesAt>>

Grant ==
  /\ stage = "challenge"
  /\ solved + 1 = QUESTIONS_NEEDED
  /\ solved' = solved + 1
  /\ used' = used + 1
  /\ stage' = "window"
  /\ closesAt' = now + UNBLOCK_SECS
  /\ UNCHANGED <<now, lockedUntil>>

Fail ==
  /\ stage = "challenge"
  /\ stage' = "idle"
  /\ lockedUntil' = now + COOLDOWN_SECS
  /\ UNCHANGED <<now, solved, used, closesAt>>

Close ==
  /\ stage = "window"
  /\ now >= closesAt
  /\ stage' = "idle"
  /\ UNCHANGED <<now, solved, used, lockedUntil, closesAt>>

Next == Tick \/ DailyReset \/ Begin \/ Solve \/ Grant \/ Fail \/ Close

Spec == Init /\ [][Next]_vars
=============================================================================
