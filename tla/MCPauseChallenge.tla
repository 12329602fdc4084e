-------------------------- MODULE MCPauseChallenge --------------------------
(***************************************************************************)
(* Small instances of PauseChallenge for TLC.                              *)
(***************************************************************************)
EXTENDS PauseChallenge, TLC

\* Kill only where memory and file agree, or anywhere in the cycle.
KillIdle     == SafePoints
KillAnywhere == PC \ {"down"}

Symmetry == Permutations(Nonces)
=============================================================================
