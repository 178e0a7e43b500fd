---------------------------- MODULE SessionFamily ----------------------------
(***************************************************************************)
(* What the refresh-token rotation of user-management promises, without    *)
(* tables, clocks or interleaved statements.  A session family (one login  *)
(* and everything rotated out of it) is one capability.  At any moment it  *)
(* is held by one token, or by one request that has spent a token and not  *)
(* yet issued the next, or it is gone for good.  A token that gave the     *)
(* capability away never gets it back: every hand-over goes to a token     *)
(* that was never used before.                                             *)
(***************************************************************************)
CONSTANTS Families, Tokens, Requests

VARIABLES holder,   \* who holds each family's capability
          used      \* the tokens that ever held one

svars == <<holder, used>>

Unborn == <<"unborn">>
Dead   == <<"dead">>
ByToken(t)   == <<"token", t>>
ByRequest(r) == <<"request", r>>

Start(f) == /\ holder[f] = Unborn
            /\ \E t \in Tokens \ used : holder'[f] = ByToken(t)

Spend(f) == /\ \E t \in Tokens : holder[f] = ByToken(t)
            /\ \E r \in Requests : holder'[f] = ByRequest(r)

Rotate(f) == /\ \E r \in Requests : holder[f] = ByRequest(r)
             /\ \E t \in Tokens \ used : holder'[f] = ByToken(t)

Die(f) == /\ holder[f] # Unborn
          /\ holder'[f] = Dead

SInit == /\ holder = [f \in Families |-> Unborn]
         /\ used = {}

\* One sweep of the table can end several families in one step.
SNext ==
  /\ \A f \in Families : \/ holder'[f] = holder[f]
                         \/ Start(f) \/ Spend(f) \/ Rotate(f) \/ Die(f)
  /\ used \subseteq used'
  /\ \A f \in Families : \A t \in Tokens :
        holder'[f] = ByToken(t) => t \in used'

SSpec == SInit /\ [][SNext]_svars
=============================================================================
