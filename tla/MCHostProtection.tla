-------------------------- MODULE MCHostProtection --------------------------
(***************************************************************************)
(* A small instance of HostProtection: five files, the order of update.sh. *)
(* The loader and its object file are one, "tools".  What the staged       *)
(* installation leaves unlocked: the updater, which Makefile:81 does not   *)
(* name, the runner, and the daemon's binary; the first update locks them. *)
(***************************************************************************)
EXTENDS HostProtection

CONSTANTS tools, updat, runner, cockblockd, pin

Listed == <<tools, updat, runner, cockblockd>>
=============================================================================
