------------------------------ MODULE MCServer ------------------------------
(***************************************************************************)
(* Small instances of Server: three requests on a pool of two connections. *)
(***************************************************************************)
EXTENDS Server

CONSTANTS q1, q2, q3   \* requests
=============================================================================
