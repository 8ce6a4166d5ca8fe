-------------------------- MODULE MCRemoteControl --------------------------
(* A small instance of RemoteControl: the values of its cfg are all it needs. *)
EXTENDS RemoteControl
=============================================================================
