---------------------------- MODULE MCListStore ----------------------------
(* ListStore on small instances. *)
EXTENDS ListStore, TLC

CONSTANTS a, b, t1, t2

MCThreads == {t1, t2}
MCData == {a, b}
MCUpdates == {<<>>, <<a>>, <<b, a, b>>}
MCOneDatum == {a}
MCShortUpdates == {<<a, a>>}
Symmetry == Permutations(MCThreads) \cup Permutations(Objects)
=============================================================================
