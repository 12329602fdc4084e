--------------------------- MODULE MCBrowserSync ---------------------------
(***************************************************************************)
(* Small instances of BrowserSync.                                         *)
(***************************************************************************)
EXTENDS BrowserSync

Nowhere == {}
Quiet   == {"down", "poll"}

\* A helper that may be slow but delays no restart that has begun.
Helper  == {"drift"}

Anywhere     == PC \ {"down"}

\* A Firefox that is started while its sets are restored may undo that.
OutsideClose == PC \ {"closeTerm", "closeCopy", "closeSets", "closeRules"}
=============================================================================
