---------------------------- MODULE MCMcpClient ----------------------------
(***************************************************************************)
(* Instances of McpClient for TLC.                                         *)
(***************************************************************************)
EXTENDS McpClient

\* Ids no client request of the instance has.
MCOwnIds == {9}
=============================================================================
