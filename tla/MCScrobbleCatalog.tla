-------------------------- MODULE MCScrobbleCatalog --------------------------
(* Small instances of ScrobbleCatalog: listeners are interchangeable. *)
EXTENDS ScrobbleCatalog, TLC

Symmetry == Permutations(Calls)
=============================================================================
