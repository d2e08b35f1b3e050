-------------------------- MODULE MCAgentMessages --------------------------
\* Small instances of AgentMessages.
EXTENDS AgentMessages, TLC

AgentSymmetry == Permutations(Requests)
=============================================================================
