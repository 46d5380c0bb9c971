---- MODULE MCAgentRun ----
EXTENDS AgentRun, TLC
Symmetry == Permutations(Workers) \cup Permutations(ProviderIds)
====
