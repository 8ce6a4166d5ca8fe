---------------------------- MODULE MCWsServer ----------------------------
(***************************************************************************)
(* Small instances of WsServer.  Connections are interchangeable, so the   *)
(* safety runs use them as a symmetry set.                                 *)
(***************************************************************************)
EXTENDS WsServer, TLC

ConnSymmetry == Permutations(Conn)
=============================================================================
