---------------------------- MODULE MCAgentLoop ----------------------------
(***************************************************************************)
(* Instances of AgentLoop for TLC.                                         *)
(***************************************************************************)
EXTENDS AgentLoop

MCTaskCosts == {1}
MCSummaryCosts == {1, 3}
MCResultSizes == {1, 9}
MCSmallResults == {1}
=============================================================================
