----------------------------- MODULE MCStartWork -----------------------------
(***************************************************************************)
(* A small instance of StartWork: a nap that a suspend check overlooks,    *)
(* and one that is longer than everything.                                 *)
(***************************************************************************)
EXTENDS StartWork

ShortAndLong == {1, INTERVAL + WARNING + DURATION}
=============================================================================
