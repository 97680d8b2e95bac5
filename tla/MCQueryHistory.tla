--------------------------- MODULE MCQueryHistory ---------------------------
(* Instantiates QueryHistory for TLC: tabs are interchangeable.            *)
EXTENDS QueryHistory, TLC

TabSymmetry == Permutations(Tabs)
=============================================================================
