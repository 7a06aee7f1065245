--------------------------- MODULE MCDeviceMirror ----------------------------
(* Small instances of DeviceMirror. *)
EXTENDS DeviceMirror, TLC
PlayerSymmetry == Permutations(Players) \cup Permutations(Controllers)
=============================================================================
