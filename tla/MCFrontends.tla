---------------------------- MODULE MCFrontends ----------------------------
(***************************************************************************)
(* Instance of Frontends for TLC.                                          *)
(***************************************************************************)
EXTENDS MCAgentLoop, Frontends
=============================================================================
