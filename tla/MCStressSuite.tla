--------------------------- MODULE MCStressSuite ---------------------------
EXTENDS StressSuite
=============================================================================
