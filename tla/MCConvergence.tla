--------------------------- MODULE MCConvergence ---------------------------
\* One channel with a message from before, two more to come, and two requests.
EXTENDS Convergence
=============================================================================
