------------------------- MODULE MCUpdateExecution -------------------------
EXTENDS UpdateExecutionProps, TLC

\* Server threads are interchangeable; packages are not, they have an order.
\* Used by the runs that check safety only.
Symmetry == Permutations(Threads)

=============================================================================
