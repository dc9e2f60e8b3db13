----------------------------- MODULE MCSeqStore -----------------------------
(* Instances of SeqStore for TLC. *)
EXTENDS SeqStore, TLC

Symmetry == Permutations(Threads)
=============================================================================
