---- MODULE MCAgentTree ----
EXTENDS AgentTree

CONSTANTS root, mid, leaf

MCParent == [r \in {mid, leaf} |-> IF r = leaf THEN mid ELSE root]
====
