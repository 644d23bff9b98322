------------------------ MODULE MCRemoteDeployment ------------------------
(* A small instance of RemoteDeployment.                                   *)
EXTENDS RemoteDeployment
CONSTANTS v1, v2
=============================================================================
