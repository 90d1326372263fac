--------------------------- MODULE MCAgentBroker ---------------------------
EXTENDS AgentBroker, TLC

Symmetry == Permutations(Conn) \cup Permutations(Cmd) \cup Permutations(Handle)
=============================================================================
