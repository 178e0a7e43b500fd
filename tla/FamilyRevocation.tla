-------------------------- MODULE FamilyRevocation --------------------------
(***************************************************************************)
(* RefreshTokens with the history of its replay detections: detecting are  *)
(* the requests whose spend recognised a replay, severed the families on   *)
(* which their revokeFamily has run to its end.                            *)
(***************************************************************************)
EXTENDS RefreshTokens

VARIABLES detecting, severed

avars == <<vars, detecting, severed>>

AuditInit == Init /\ detecting = {} /\ severed = {}

DetectReplay(r) == /\ ReadExisting(r)
                   /\ pc'[r] = "revokeFamily"
                   /\ detecting' = detecting \cup {r}
                   /\ UNCHANGED severed

SeverFamily(r) == /\ RevokeFamily(r)
                  /\ r \in detecting
                  /\ detecting' = detecting \ {r}
                  /\ severed' = severed \cup {family[tok[r]]}

\* Every other step; a request that ends takes its detection with it.
OtherStep == /\ Next
             /\ \A r \in Requests : /\ ~(ReadExisting(r) /\ pc'[r] = "revokeFamily")
                                    /\ ~(RevokeFamily(r) /\ r \in detecting)
             /\ detecting' = {r \in detecting : pc'[r] # "idle"}
             /\ UNCHANGED severed

AuditNext == \/ \E r \in Requests : DetectReplay(r) \/ SeverFamily(r)
             \/ OtherStep

AuditSpec == AuditInit /\ [][AuditNext]_avars

\* "Replaying an already-spent token revokes its entire family."
\* (refresh-token.service.ts:59), "kills the whole family when a spent token is
\* replayed" (refresh-rotation.int-spec.ts:61): once a detected replay has run
\* revokeFamily to its end, no token of the family can be spent any more.
SeveredFamilyHasNoToken ==
  \A t \in Live : family[t] \notin severed
=============================================================================
