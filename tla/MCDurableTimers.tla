-------------------------- MODULE MCDurableTimers --------------------------
\* Small instances of DurableTimers for TLC.
EXTENDS DurableTimers, TLC

Symmetry == Permutations(Txns)

\* Bound on the evidence kept: behaviours are followed up to the commit that
\* adds a second rejection or a second cancellation report.
LittleEvidence == Cardinality(rejected) <= 1 /\ Cardinality(reports) <= 1
=============================================================================
