--------------------------- MODULE MCRockboxRouter ---------------------------
(* Small instances of RockboxRouter: two calls at one router, one at another, *)
(* where the sweep runs.                                                      *)
EXTENDS RockboxRouter
CONSTANTS r1, r2, c1, c2, c3, s1
MCHome == [x \in {c1, c2, c3, s1} |-> IF x \in {c1, c2} THEN r1 ELSE r2]
=============================================================================
