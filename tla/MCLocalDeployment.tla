------------------------ MODULE MCLocalDeployment ------------------------
(* A small instance of LocalDeployment.                                    *)
EXTENDS LocalDeployment
CONSTANTS d1, d2
=============================================================================
