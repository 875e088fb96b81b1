-------------------------- MODULE MCRemoteControl --------------------------
(* Small instances of RemoteControl.                                         *)
EXTENDS RemoteControl

\* Of the two switches, the one that starts the recorder can fail.
MCFields == <<"Active", "isRecord">>
=============================================================================
