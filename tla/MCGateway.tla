------------------------------ MODULE MCGateway ------------------------------
(***************************************************************************)
(* The gateway process on a small instance: see MCGateway.cfg.  Arrive     *)
(* takes either answer of the limiter at any moment, and the limiter takes *)
(* any sequence of requests, so each part is checked against more than the *)
(* other can do.  They share no state: a behaviour moves one of the two.   *)
(***************************************************************************)
EXTENDS Gateway, RateLimiter

VARIABLE moving   \* the part that moves

processVars == <<moving, gatewayVars, vars>>

\* Small limits, so that they are reached.
SmallLimit == [r \in RuleIds |-> IF r = "account-actions" THEN 2 ELSE 1]

ProcessInit == GatewayInit /\ Init /\ moving \in {"requests", "limiter"}

ProcessNext ==
  /\ UNCHANGED moving
  /\ \/ moving = "requests" /\ GatewayNext /\ UNCHANGED vars
     \/ moving = "limiter" /\ Next /\ UNCHANGED gatewayVars

ProcessSpec == ProcessInit /\ [][ProcessNext]_processVars /\ GatewayFairness
=============================================================================
