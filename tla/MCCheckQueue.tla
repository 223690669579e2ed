---------------------------- MODULE MCCheckQueue -----------------------------
(***************************************************************************)
(* Two workers and four checks of which one is invalid.                    *)
(***************************************************************************)
EXTENDS CheckQueue

CONSTANTS c1, c2, c3, c4

OneInvalid == {c1, c2, c3}
=============================================================================
