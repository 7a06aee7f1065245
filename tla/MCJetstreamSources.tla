------------------------- MODULE MCJetstreamSources --------------------------
(* Small instances of JetstreamSources: the servers are alike. *)
EXTENDS JetstreamSources, TLC
Symmetry == Permutations(Sources)
=============================================================================
