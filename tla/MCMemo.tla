------------------------------- MODULE MCMemo -------------------------------
(* Two documents in one directory, two readers, three texts. *)
EXTENDS Memo

CONSTANTS d1, d2, r1, r2
=============================================================================
