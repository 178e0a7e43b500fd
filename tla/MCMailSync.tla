----------------------------- MODULE MCMailSync -----------------------------
\* MailSync on small instances: see the MCMailSync*.cfg files.
EXTENDS MailSync, TLC

CONSTANTS w1, w2

Symmetric == Permutations({w1, w2})
=============================================================================
