----------------------------- MODULE MCRemoteWs ------------------------------
(* Small instances of RemoteWs. *)
EXTENDS RemoteWs, TLC
Symmetry == Permutations(Devices) \cup Permutations(Tracks)
=============================================================================
