---------------------------- MODULE MCPanelCache ----------------------------
(* PanelCache on small instances. *)
EXTENDS PanelCache, TLC

CONSTANTS c1, c2, k1, k2

Symmetry == Permutations(Callers) \union Permutations(Keys)
=============================================================================
