---------------------------- MODULE MCCommitTasks ----------------------------
(* A small instance of CommitTasks: the records tell of one listen. *)
EXTENDS CommitTasks

OneListen == [r \in Records |-> "listen"]
=============================================================================
