----------------------------- MODULE MCAgentCall ----------------------------
(***************************************************************************)
(* Small instances of the agent call.  Counters grow only with steps,      *)
(* attempts and tool calls, all of which are bounded.                      *)
(***************************************************************************)
EXTENDS AgentCallProperties
=============================================================================
