------------------------- MODULE MCWorkflowRuntime -------------------------
\* Small instances of WorkflowRuntime for TLC.
EXTENDS WorkflowRuntime, TLC

Symmetry == Permutations(Workers)
=============================================================================
