------------------------------ MODULE MCVhost -------------------------------
(***************************************************************************)
(* Two revisions of the snippet that load and one that does not.           *)
(***************************************************************************)
EXTENDS CaddyVhost

CONSTANTS v1, v2, bad
=============================================================================
