---------------------------- MODULE MCConnectFlow ----------------------------
\* ConnectFlow on a small instance: see MCConnectFlow.cfg.
EXTENDS ConnectFlow

CONSTANTS k1, k2
=============================================================================
