---------------------------- MODULE MCSubagents ----------------------------
(***************************************************************************)
(* A node with a shared and an isolated session.                           *)
(***************************************************************************)
EXTENDS Subagents
=============================================================================
