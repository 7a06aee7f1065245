--------------------------- MODULE MCMirrorSources ---------------------------
(* Small instances of MirrorSources. *)
EXTENDS MirrorSources
=============================================================================
