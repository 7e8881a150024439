----------------------------- MODULE MCAgentHooks -----------------------------
(* Two turns of one session, with two notifications each.                   *)
EXTENDS AgentHooks

CONSTANTS output1, output2

MCOutputs == <<output1, output2>>
===============================================================================
