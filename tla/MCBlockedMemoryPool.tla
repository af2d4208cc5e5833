------------------------- MODULE MCBlockedMemoryPool -------------------------
(* Model-checking instance of BlockedMemoryPool: see README for the bounds. *)
EXTENDS BlockedMemoryPool

CONSTANTS t1, t2, f1

MCThreads == {t1, t2}
MCForeign == {f1}
=============================================================================
