---------------------------- MODULE MCAgentCalls ----------------------------
(* Two agents that may call each other, or three. *)
EXTENDS AgentCalls

CONSTANTS alice, bob, carol

MCAgents == {alice, bob}
MCThree == {alice, bob, carol}
MCAllowed == [a \in MCAgents |-> MCAgents \ {a}]
MCAllowedThree == [a \in MCThree |-> MCThree \ {a}]
=============================================================================
