------------------------------ MODULE MCSeqLock ------------------------------
(* An instance of SeqLock: a slot that starts with zero in both halves.      *)
EXTENDS SeqLock

Zero == <<0, 0>>
=============================================================================
