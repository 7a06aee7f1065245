---------------------------- MODULE MCScrobblePut ----------------------------
(* Small instances of ScrobblePut: calls, and songs, are interchangeable. *)
EXTENDS ScrobblePut, TLC

Symmetry == Permutations(Calls) \union Permutations(Songs)
=============================================================================
