---------------------------- MODULE MCActorStatus ----------------------------
(* Small instances of ActorStatus. *)
EXTENDS ActorStatus
=============================================================================
