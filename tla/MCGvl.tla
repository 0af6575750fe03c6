------------------------------- MODULE MCGvl -------------------------------
\* The GVL with a few threads.
EXTENDS Gvl
=============================================================================
