---- MODULE MCWorkflowClaim ----
EXTENDS WorkflowClaim, TLC
WorkerSymmetry == Permutations(Workers)
====
