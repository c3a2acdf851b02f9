--------------------------- MODULE MC_BuilderDriver ---------------------------
EXTENDS BuilderDriver, TLC

CONSTANTS r1, r2, r3

\* Three requests: the queue dispatches them in parallel, but they share no
\* state, so their order is the only interleaving.
MCRequests == {r1, r2, r3}

=============================================================================
