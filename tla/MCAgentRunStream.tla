-------------------------- MODULE MCAgentRunStream --------------------------
(* Instances of AgentRunStream for TLC.                                    *)
EXTENDS AgentRunStream

CONSTANTS s1, s2

StreamsTwo == {s1, s2}
=============================================================================
