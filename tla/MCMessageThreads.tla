-------------------------- MODULE MCMessageThreads --------------------------
(* Small instances of MessageThreads: how often an activity is resumed is in *)
(* the configurations.                                                       *)
EXTENDS MessageThreads
=============================================================================
