---------------------------- MODULE MCRemoteAgent ----------------------------
(* The instance of RemoteAgent that TLC checks.                               *)
EXTENDS RemoteAgent
=============================================================================
