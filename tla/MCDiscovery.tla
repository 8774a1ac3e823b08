---------------------------- MODULE MCDiscovery ----------------------------
(***************************************************************************)
(* The instance of MCDeployment, with a client.                            *)
(***************************************************************************)
EXTENDS Discovery, MCDeployment
=============================================================================
