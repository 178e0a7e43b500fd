--------------------------- MODULE MCAccountTokens ---------------------------
\* AccountTokens on small instances: see the MCAccountTokens*.cfg files.
EXTENDS AccountTokens

CONSTANTS k1, k2
=============================================================================
