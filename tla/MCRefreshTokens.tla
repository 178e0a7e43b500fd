--------------------------- MODULE MCRefreshTokens ---------------------------
\* RefreshTokens on a small instance: see MCRefreshTokens.cfg.
EXTENDS RefreshTokens, TLC

CONSTANTS u1, r1, r2

Symmetric == Permutations({r1, r2})
=============================================================================
