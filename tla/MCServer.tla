------------------------------ MODULE MCServer -------------------------------
(* Instances of Server.                                                    *)
EXTENDS Server
=============================================================================
