------------------------- MODULE RefreshTokensProofs -------------------------
(***************************************************************************)
(* Theorems about RefreshTokens, for every number of users, requests,      *)
(* tokens and days: types, one holder per family, evidence of replays, what*)
(* replacedById records, and that the statements of AuthService and        *)
(* RefreshTokenService implement the linear capability of SessionFamily.   *)
(***************************************************************************)
EXTENDS RefreshTokens, TLAPS

\* The pcs at which a request has read a row of the table.
HasRow == {"readSpent", "findUser", "issue", "link", "revokeFamily"}

\* What a request carries between its statements names rows that were created.
LocalsOK ==
  \A r \in Requests :
    /\ pc[r] \in HasRow => tok[r] \in 1..issued
    /\ pc[r] \in {"link", "respond"} => new[r] \in 1..issued
    /\ pc[r] = "issue" => who[r] = owner[tok[r]]

\* A created row belongs to a family that was started.
FamiliesOK == \A t \in 1..issued : family[t] \in 1..issued

IInv == TypeOK /\ LocalsOK /\ FamiliesOK /\ SingleHolder

-----------------------------------------------------------------------------
(* What a request's own bookkeeping preserves. *)

\* The conjuncts of TypeOK on the request variables.
RequestType ==
  /\ pc \in [Requests -> PCs]
  /\ tok \in [Requests -> Tokens \cup {NoToken}]
  /\ at \in [Requests -> 0..MaxClock]
  /\ who \in [Requests -> Users \cup {NoUser}]
  /\ new \in [Requests -> Tokens \cup {NoToken}]

\* Ending a request, or moving it to another statement, keeps its locals typed.
LEMMA BookkeepingType ==
  ASSUME TypeOK, NEW r \in Requests,
         \/ Finish(r)
         \/ (\E l \in PCs : Goto(r, l)) /\ UNCHANGED <<tok, at, who, new>>
  PROVE  RequestType'
<1>1. RequestType /\ MaxClock \in Nat
  BY ConstantsAssumption DEF TypeOK, RequestType
<1>2. CASE Finish(r)
  BY <1>1, <1>2 DEF RequestType, Finish, Goto, PCs, NoToken
<1>3. CASE (\E l \in PCs : Goto(r, l)) /\ UNCHANGED <<tok, at, who, new>>
  <2>1. PICK l \in PCs : Goto(r, l)
    BY <1>3
  <2> QED BY <1>1, <1>3, <2>1 DEF RequestType, Goto
<1> QED BY <1>2, <1>3

\* The step hands no family to anyone: neither a token nor a request becomes a
\* holder.
Quiet ==
  /\ Live' \subseteq Live
  /\ family' = family
  /\ \A r \in Requests : Rotating(r)' => Rotating(r) /\ tok'[r] = tok[r]

LEMMA HolderFrame ==
  ASSUME SingleHolder, Quiet
  PROVE  SingleHolder'
BY DEF SingleHolder, Quiet

-----------------------------------------------------------------------------
LEMMA InitIInv == Init => IInv
BY ConstantsAssumption DEF Init, IInv, TypeOK, LocalsOK, FamiliesOK, SingleHolder,
   Tokens, NoToken, PCs, HasRow, Rotating, Live

LEMMA AccountIInv ==
  ASSUME IInv, NEW u \in Users, Register(u) \/ Deactivate(u)
  PROVE  IInv' /\ Quiet
<1>1. UNCHANGED <<rows, issued, family, owner, expiresAt, revoked, replacedBy, delivered, clock,
                  pc, tok, at, who, new>>
  BY DEF Register, Deactivate, table, request
<1>2. TypeOK'
  BY <1>1 DEF IInv, TypeOK, Register, Deactivate
<1>3. LocalsOK' /\ FamiliesOK' /\ Quiet
  BY <1>1 DEF IInv, LocalsOK, FamiliesOK, HasRow, Quiet, Rotating, Live
<1> QED BY <1>2, <1>3, HolderFrame DEF IInv

LEMMA TickIInv ==
  ASSUME IInv, Tick
  PROVE  IInv' /\ Quiet
BY ConstantsAssumption
   DEF IInv, TypeOK, LocalsOK, FamiliesOK, SingleHolder, Tick, Rotating, Live, Quiet,
       table, request

LEMMA SweepIInv ==
  ASSUME IInv, Sweep
  PROVE  IInv' /\ Quiet
<1>1. TypeOK'
  BY DEF IInv, TypeOK, Sweep, request
<1>2. LocalsOK' /\ FamiliesOK'
  BY DEF IInv, LocalsOK, FamiliesOK, Sweep, request
<1>3. Quiet
  <2>1. Live' \subseteq Live /\ family' = family
    BY DEF Sweep, Live
  <2>2. \A r \in Requests : Rotating(r)' => Rotating(r) /\ tok'[r] = tok[r]
    BY DEF Sweep, Rotating, request
  <2> QED BY <2>1, <2>2 DEF Quiet
<1> QED BY <1>1, <1>2, <1>3, HolderFrame DEF IInv

LEMMA ArrivalIInv ==
  ASSUME IInv, NEW r \in Requests,
         \/ \E u \in Users : LoginFind(r, u)
         \/ \E t \in Tokens \cup {NoToken} : RefreshArrives(r, t) \/ LogoutArrives(r, t)
  PROVE  IInv' /\ Quiet
<1>1. TypeOK'
  <2>1. CASE \E u \in Users : LoginFind(r, u)
    BY <2>1 DEF IInv, TypeOK, LoginFind, Goto, PCs, table
  <2>2. CASE \E t \in Tokens \cup {NoToken} : RefreshArrives(r, t)
    BY <2>2 DEF IInv, TypeOK, RefreshArrives, readRefreshCookie, Goto, PCs, table
  <2>3. CASE \E t \in Tokens \cup {NoToken} : LogoutArrives(r, t)
    BY <2>3 DEF IInv, TypeOK, LogoutArrives, readRefreshCookie, Goto, PCs, table
  <2> QED BY <2>1, <2>2, <2>3
<1>2. pc[r] = "idle" /\ pc' = [pc EXCEPT ![r] = pc'[r]]
      /\ pc'[r] \in {"spend", "logoutFind", "startFamily"}
      /\ UNCHANGED table /\ UNCHANGED new
      /\ \A q \in Requests : q # r => who'[q] = who[q] /\ tok'[q] = tok[q]
  BY DEF IInv, TypeOK, LoginFind, RefreshArrives, LogoutArrives, readRefreshCookie, Goto
<1>3. LocalsOK' /\ FamiliesOK'
  BY <1>2 DEF IInv, TypeOK, LocalsOK, FamiliesOK, HasRow, table
<1>4. Quiet
  <2>1. Live' \subseteq Live /\ family' = family
    BY <1>2 DEF Live, table
  <2>2. \A q \in Requests : Rotating(q)' => Rotating(q) /\ tok'[q] = tok[q]
    BY <1>2 DEF Rotating, IInv, TypeOK
  <2> QED BY <2>1, <2>2 DEF Quiet
<1> QED BY <1>1, <1>3, <1>4, HolderFrame DEF IInv

\* Steps that read the table, or leave it but for a link, and then end the
\* request or take it on.
LEMMA ReadIInv ==
  ASSUME IInv, NEW r \in Requests,
         ReadSpent(r) \/ ReadExisting(r) \/ LogoutFind(r) \/ Fail(r) \/ Respond(r)
  PROVE  IInv' /\ Quiet
<1>1. /\ UNCHANGED <<account, table, clock>>
      /\ \A q \in Requests : q # r => /\ pc'[q] = pc[q] /\ tok'[q] = tok[q]
                                      /\ who'[q] = who[q] /\ new'[q] = new[q]
  BY DEF IInv, TypeOK, ReadSpent, ReadExisting, LogoutFind, Fail, Respond, setRefreshCookie, Goto, Finish
<1>2. \/ pc'[r] = "idle"
      \/ pc'[r] = "findUser" /\ pc[r] = "readSpent" /\ tok'[r] = tok[r]
      \/ pc'[r] = "revokeFamily" /\ tok'[r] = tok[r] /\ tok[r] \in rows
  BY DEF IInv, TypeOK, ReadSpent, ReadExisting, LogoutFind, Fail, Respond, setRefreshCookie, Goto, Finish
<1>3. RequestType'
  <2>1. Finish(r) \/ ((\E l \in PCs : Goto(r, l)) /\ UNCHANGED <<tok, at, who, new>>)
    BY DEF ReadSpent, ReadExisting, LogoutFind, Fail, Respond, PCs
  <2> QED BY <2>1, BookkeepingType DEF IInv
<1>4. delivered' \subseteq 1..issued
  <2>1. UNCHANGED delivered \/ (pc[r] = "respond" /\ delivered' = delivered \cup {new[r]})
    BY DEF ReadSpent, ReadExisting, LogoutFind, Fail, Respond, setRefreshCookie
  <2>2. delivered \subseteq 1..issued /\ (pc[r] = "respond" => new[r] \in 1..issued)
    BY DEF IInv, TypeOK, LocalsOK
  <2> QED BY <2>1, <2>2
<1>5. TypeOK'
  BY <1>1, <1>3, <1>4 DEF IInv, TypeOK, RequestType, table
<1>6. LocalsOK' /\ FamiliesOK'
  <2>1. rows \subseteq 1..issued
    BY DEF IInv, TypeOK
  <2>2. FamiliesOK'
    BY <1>1 DEF IInv, FamiliesOK, table
  <2>3. ASSUME NEW q \in Requests
        PROVE  /\ pc'[q] \in HasRow => tok'[q] \in 1..issued'
               /\ pc'[q] \in {"link", "respond"} => new'[q] \in 1..issued'
               /\ pc'[q] = "issue" => who'[q] = owner'[tok'[q]]
    <3>1. CASE q # r
      BY <1>1, <3>1 DEF IInv, LocalsOK, table
    <3>2. CASE q = r
      BY <1>1, <1>2, <2>1, <3>2 DEF IInv, LocalsOK, HasRow, table
    <3> QED BY <3>1, <3>2
  <2> QED BY <2>2, <2>3 DEF LocalsOK
<1>7. Quiet
  <2>1. Live' \subseteq Live /\ family' = family
    BY <1>1 DEF Live, table
  <2>2. \A q \in Requests : Rotating(q)' => Rotating(q) /\ tok'[q] = tok[q]
    BY <1>1, <1>2 DEF Rotating
  <2> QED BY <2>1, <2>2 DEF Quiet
<1> QED BY <1>5, <1>6, <1>7, HolderFrame DEF IInv

LEMMA RevokeFamilyIInv ==
  ASSUME IInv, NEW r \in Requests, RevokeFamily(r)
  PROVE  IInv' /\ Quiet
<1>1. /\ UNCHANGED <<account, issued, rows, owner, family, expiresAt, replacedBy,
                     delivered, clock>>
      /\ pc'[r] = "idle"
      /\ \A q \in Requests : q # r => /\ pc'[q] = pc[q] /\ tok'[q] = tok[q]
                                      /\ who'[q] = who[q] /\ new'[q] = new[q]
  BY DEF IInv, TypeOK, RevokeFamily, Goto, Finish
<1>2. revoked \subseteq revoked' /\ revoked' \subseteq 1..issued
  BY DEF IInv, TypeOK, RevokeFamily, FamilyRows
<1>3. TypeOK'
  <2>1. RequestType'
    BY BookkeepingType DEF IInv, RevokeFamily
  <2> QED BY <1>1, <1>2, <2>1 DEF IInv, TypeOK, RequestType
<1>4. LocalsOK' /\ FamiliesOK'
  BY <1>1 DEF IInv, LocalsOK, FamiliesOK, HasRow
<1>5. Quiet
  <2>1. Live' \subseteq Live /\ family' = family
    BY <1>1, <1>2 DEF Live
  <2>2. \A q \in Requests : Rotating(q)' => Rotating(q) /\ tok'[q] = tok[q]
    BY <1>1 DEF Rotating
  <2> QED BY <2>1, <2>2 DEF Quiet
<1> QED BY <1>3, <1>4, <1>5, HolderFrame DEF IInv

LEMMA FindUserIInv ==
  ASSUME IInv, NEW r \in Requests, FindUser(r)
  PROVE  IInv' /\ Quiet
<1>1. tok[r] \in 1..issued /\ tok[r] \in Tokens
  <2>1. tok[r] \in 1..issued
    BY DEF IInv, LocalsOK, FindUser, HasRow
  <2>2. issued \in 0..MaxTokens /\ MaxTokens \in Nat
    BY ConstantsAssumption DEF IInv, TypeOK
  <2> QED BY <2>1, <2>2 DEF Tokens
<1>2. UNCHANGED <<account, table, delivered, clock, tok, at, new>>
  BY DEF FindUser
<1>3. /\ pc' \in [Requests -> PCs] /\ who' \in [Requests -> Users \cup {NoUser}]
      /\ \A q \in Requests : q # r => pc'[q] = pc[q] /\ who'[q] = who[q]
      /\ pc'[r] \in {"issue", "revokeFamily"}
      /\ pc'[r] = "issue" => who'[r] = owner[tok[r]]
  BY <1>1 DEF IInv, TypeOK, FindUser, Goto, PCs
<1>4. TypeOK'
  BY <1>2, <1>3 DEF IInv, TypeOK, table
<1>5. LocalsOK' /\ FamiliesOK'
  BY <1>1, <1>2, <1>3 DEF IInv, LocalsOK, FamiliesOK, HasRow, table
<1>6. Quiet
  <2>1. Live' \subseteq Live /\ family' = family
    BY <1>2 DEF Live, table
  <2>2. \A q \in Requests : Rotating(q)' => Rotating(q) /\ tok'[q] = tok[q]
    BY <1>2, <1>3 DEF Rotating, FindUser
  <2> QED BY <2>1, <2>2 DEF Quiet
<1> QED BY <1>4, <1>5, <1>6, HolderFrame DEF IInv

LEMMA LinkReplacementIInv ==
  ASSUME IInv, NEW r \in Requests, LinkReplacement(r)
  PROVE  IInv' /\ Quiet
<1>1. /\ UNCHANGED <<account, issued, rows, owner, family, expiresAt, revoked,
                     delivered, clock>>
      /\ pc'[r] = "idle" \/ (pc'[r] = "respond" /\ new'[r] = new[r])
      /\ \A q \in Requests : q # r => /\ pc'[q] = pc[q] /\ tok'[q] = tok[q]
                                      /\ who'[q] = who[q] /\ new'[q] = new[q]
  BY DEF IInv, TypeOK, LinkReplacement, Goto, Finish
<1>2. new[r] \in 1..issued
  BY DEF IInv, LocalsOK, LinkReplacement
<1>3. TypeOK'
  <2>1. RequestType'
    <3>1. Finish(r) \/ ((\E l \in PCs : Goto(r, l)) /\ UNCHANGED <<tok, at, who, new>>)
      BY DEF LinkReplacement, PCs
    <3> QED BY <3>1, BookkeepingType DEF IInv
  <2>2. replacedBy' \in [Tokens -> Tokens \cup {NoToken}]
    BY DEF IInv, TypeOK, LinkReplacement
  <2> QED BY <1>1, <2>1, <2>2 DEF IInv, TypeOK, RequestType
<1>4. LocalsOK' /\ FamiliesOK'
  BY <1>1, <1>2 DEF IInv, LocalsOK, FamiliesOK, HasRow
<1>5. Quiet
  <2>1. Live' \subseteq Live /\ family' = family
    BY <1>1 DEF Live
  <2>2. \A q \in Requests : Rotating(q)' => Rotating(q) /\ tok'[q] = tok[q]
    BY <1>1 DEF Rotating
  <2> QED BY <2>1, <2>2 DEF Quiet
<1> QED BY <1>3, <1>4, <1>5, HolderFrame DEF IInv

LEMMA SpendUpdateIInv ==
  ASSUME IInv, NEW r \in Requests, SpendUpdate(r)
  PROVE  IInv'
<1>0. /\ UNCHANGED <<account, issued, rows, owner, family, expiresAt, replacedBy,
                     delivered, clock, tok, who, new>>
      /\ pc' \in [Requests -> PCs] /\ at' \in [Requests -> 0..MaxClock]
      /\ \A q \in Requests : q # r => pc'[q] = pc[q]
  BY ConstantsAssumption DEF IInv, TypeOK, SpendUpdate, Goto, PCs
<1>1. \/ /\ tok[r] \in Live /\ revoked' = revoked \cup {tok[r]}
         /\ pc'[r] = "readSpent"
      \/ /\ revoked' = revoked
         /\ pc'[r] = "readExisting"
  BY DEF IInv, TypeOK, SpendUpdate, Spendable, Goto, Live
<1>2. Live \subseteq 1..issued /\ revoked' \subseteq 1..issued
  BY <1>1 DEF IInv, TypeOK, Live
<1>3. TypeOK'
  BY <1>0, <1>2 DEF IInv, TypeOK
<1>4. LocalsOK' /\ FamiliesOK'
  BY <1>0, <1>1, <1>2 DEF IInv, LocalsOK, FamiliesOK, HasRow
<1>5. SingleHolder'
  <2>1. CASE revoked' = revoked /\ pc'[r] = "readExisting"
    <3>1. Quiet
      BY <1>0, <2>1 DEF Quiet, Live, Rotating
    <3> QED BY <3>1, HolderFrame DEF IInv
  <2>2. CASE tok[r] \in Live /\ revoked' = revoked \cup {tok[r]} /\ pc'[r] = "readSpent"
    <3>1. Live' = Live \ {tok[r]}
      BY <1>0, <2>2 DEF Live
    <3>2. \A q \in Requests : q # r => (Rotating(q)' <=> Rotating(q))
      BY <1>0 DEF Rotating
    <3> QED BY <1>0, <2>2, <3>1, <3>2 DEF IInv, SingleHolder
  <2> QED BY <1>1, <2>1, <2>2
<1> QED BY <1>3, <1>4, <1>5 DEF IInv

\* The two statements that create a row: the row is new, its family is the
\* request's own or a fresh one.
LEMMA CreateIInv ==
  ASSUME IInv, NEW r \in Requests, StartFamily(r) \/ Issue(r)
  PROVE  IInv'
<1> DEFINE t == issued + 1
<1>1. t \in Tokens /\ t \notin 1..issued /\ 1..t = 1..issued \cup {t} /\ issued \in Nat
  BY ConstantsAssumption DEF IInv, TypeOK, StartFamily, Issue, CreateRow, Tokens
<1>2. PICK f \in 1..t : CreateRow(who[r], f) /\ (\/ Issue(r) /\ f = family[tok[r]]
                                                 \/ StartFamily(r) /\ f = t)
  BY <1>1 DEF IInv, TypeOK, LocalsOK, FamiliesOK, HasRow, StartFamily, Issue
<1>3. /\ UNCHANGED <<account, delivered, clock, tok, at, who, revoked, replacedBy>>
      /\ issued' = t /\ rows' = rows \cup {t}
      /\ pc'[r] \in {"link", "respond"} /\ pc' \in [Requests -> PCs]
      /\ new'[r] = t /\ new' \in [Requests -> Tokens \cup {NoToken}]
      /\ \A q \in Requests : q # r => pc'[q] = pc[q] /\ new'[q] = new[q]
  BY <1>1, <1>2 DEF IInv, TypeOK, CreateRow, StartFamily, Issue, Goto, PCs
<1>4. /\ family' \in [Tokens -> Tokens \cup {NoToken}] /\ family'[t] = f
      /\ \A s \in 1..issued : family'[s] = family[s] /\ owner'[s] = owner[s]
      /\ owner' \in [Tokens -> Users \cup {NoUser}]
      /\ expiresAt' \in [Tokens -> Nat]
  BY <1>1, <1>2, ConstantsAssumption DEF IInv, TypeOK, CreateRow, Tokens
<1>5. TypeOK'
  BY <1>1, <1>3, <1>4 DEF IInv, TypeOK, Tokens
<1>6. LocalsOK'
  <2>1. pc'[r] \in HasRow => pc[r] \in HasRow
    BY <1>2, <1>3 DEF Issue, StartFamily, Goto, IInv, TypeOK, HasRow
  <2> QED BY <1>1, <1>3, <1>4, <2>1 DEF IInv, LocalsOK, HasRow
<1>7. FamiliesOK'
  BY <1>1, <1>2, <1>3, <1>4 DEF IInv, FamiliesOK
<1>8. SingleHolder'
  <2>1. Live' \subseteq Live \cup {t} /\ Live \subseteq 1..issued
    BY <1>3 DEF IInv, TypeOK, Live
  <2>2. \A q \in Requests : Rotating(q)' => /\ Rotating(q) /\ q # r
                                            /\ tok'[q] = tok[q] /\ tok[q] \in 1..issued
    BY <1>3 DEF IInv, LocalsOK, HasRow, Rotating
  <2>3. CASE Issue(r) /\ f = family[tok[r]]
    <3>1. Rotating(r) /\ tok[r] \in 1..issued
      BY <2>3 DEF Issue, Rotating, IInv, LocalsOK, HasRow
    <3> QED BY <1>1, <1>4, <2>1, <2>2, <2>3, <3>1 DEF IInv, SingleHolder
  <2>4. CASE f = t
    BY <1>1, <1>4, <2>1, <2>2, <2>4 DEF IInv, SingleHolder, FamiliesOK
  <2> QED BY <1>2, <2>3, <2>4
<1> QED BY <1>5, <1>6, <1>7, <1>8 DEF IInv

LEMMA NextIInv == IInv /\ [Next]_vars => IInv'
<1> SUFFICES ASSUME IInv, [Next]_vars PROVE IInv'
  OBVIOUS
<1>1. CASE \E u \in Users : Register(u) \/ Deactivate(u)
  BY <1>1, AccountIInv
<1>2. ASSUME NEW r \in Requests, Step(r) PROVE IInv'
  BY <1>2, ArrivalIInv, ReadIInv, RevokeFamilyIInv, FindUserIInv,
     LinkReplacementIInv, SpendUpdateIInv, CreateIInv DEF Step
<1>3. CASE Tick \/ Sweep
  BY <1>3, TickIInv, SweepIInv
<1>4. CASE UNCHANGED vars
  BY <1>4 DEF vars, table, request, IInv, TypeOK, LocalsOK, FamiliesOK, SingleHolder,
     Rotating, Live
<1> QED BY <1>1, <1>2, <1>3, <1>4 DEF Next

\* Every behaviour of login, refresh, logout and sweep keeps the table and the
\* requests' locals well typed, and between statements a request names rows and
\* families that exist.
THEOREM IndInvariant == Spec => []IInv
<1> QED BY InitIInv, NextIInv, PTL DEF Spec

\* Type correctness of the refresh-token service.
THEOREM TypeCorrect == Spec => []TypeOK
<1>1. IInv => TypeOK
  BY DEF IInv
<1> QED BY <1>1, IndInvariant, PTL

\* A session never forks: for any number of concurrent requests, at most one
\* unrevoked token or rotating request per family.
THEOREM SessionNeverForks == Spec => []SingleHolder
<1>1. IInv => SingleHolder
  BY DEF IInv
<1> QED BY <1>1, IndInvariant, PTL

-----------------------------------------------------------------------------
\* A step that creates a row or spends one acts on a family that is alive.
LEMMA DeadStep ==
  ASSUME IInv, Next, NEW f \in 1..issued, FamilyDead(f)
  PROVE  FamilyDead(f)'
<1>1. CASE Quiet
  BY <1>1 DEF Quiet, FamilyDead
<1>2. ASSUME NEW r \in Requests, SpendUpdate(r) PROVE FamilyDead(f)'
  <2>1. /\ UNCHANGED <<rows, family, tok>>
        /\ \A q \in Requests : q # r => pc'[q] = pc[q]
        /\ \/ tok[r] \in Live /\ revoked' = revoked \cup {tok[r]} /\ pc'[r] = "readSpent"
           \/ revoked' = revoked /\ pc'[r] = "readExisting"
    BY <1>2 DEF IInv, TypeOK, SpendUpdate, Spendable, Goto, Live
  <2> QED BY <2>1 DEF FamilyDead, Live, Rotating
<1>3. ASSUME NEW r \in Requests, StartFamily(r) \/ Issue(r) PROVE FamilyDead(f)'
  <2> DEFINE t == issued + 1
  <2>1. /\ t \in Tokens /\ t \notin 1..issued /\ rows' = rows \cup {t}
        /\ UNCHANGED <<revoked, tok>> /\ Live \subseteq 1..issued
        /\ \A s \in 1..issued : family'[s] = family[s]
        /\ pc'[r] \in {"link", "respond"}
        /\ \A q \in Requests : q # r => pc'[q] = pc[q]
    BY <1>3, ConstantsAssumption
       DEF IInv, TypeOK, StartFamily, Issue, CreateRow, Goto, Tokens, Live
  <2>2. family'[t] # f
    <3>1. CASE StartFamily(r)
      BY <2>1, <3>1 DEF IInv, TypeOK, StartFamily, CreateRow
    <3>2. CASE Issue(r)
      BY <2>1, <3>2 DEF IInv, TypeOK, Issue, CreateRow, FamilyDead, Rotating
    <3> QED BY <1>3, <3>1, <3>2
  <2>3. \A q \in Requests : Rotating(q)' => Rotating(q) /\ family'[tok'[q]] = family[tok[q]]
    BY <2>1 DEF IInv, LocalsOK, HasRow, Rotating
  <2> QED BY <2>1, <2>2, <2>3 DEF FamilyDead, Live
<1>4. ASSUME NEW r \in Requests, Step(r) PROVE FamilyDead(f)'
  BY <1>1, <1>2, <1>3, <1>4, ArrivalIInv, ReadIInv, RevokeFamilyIInv, FindUserIInv,
     LinkReplacementIInv DEF Step
<1>5. CASE Tick \/ Sweep \/ \E u \in Users : Register(u) \/ Deactivate(u)
  BY <1>1, <1>5, TickIInv, SweepIInv, AccountIInv
<1> QED BY <1>4, <1>5 DEF Next

\* A session that ended stays ended: no interleaving of requests, failures and
\* sweeps gives a family without holder a new one.
THEOREM EndedSessionsStayEnded == Spec => DeadStaysDead
<1>1. IInv /\ [Next]_vars
      => [\A f \in 1..issued : FamilyDead(f) => FamilyDead(f)']_vars
  BY DeadStep
<1> QED BY <1>1, IndInvariant, PTL DEF Spec, DeadStaysDead

-----------------------------------------------------------------------------
\* Only the sweep removes rows, only time passes, and a row is created with its
\* whole life before it.
LEMMA EvidenceStep ==
  ASSUME IInv, ReplayEvidenceKept, [Next]_vars
  PROVE  ReplayEvidenceKept'
<1>0. issued \in Nat /\ clock \in Nat /\ expiresAt \in [Tokens -> Nat]
      /\ 1..issued \subseteq Tokens
  BY ConstantsAssumption DEF IInv, TypeOK, Tokens
<1>1. CASE UNCHANGED <<issued, rows, expiresAt>> /\ clock' \in {clock, clock + 1}
  BY <1>0, <1>1 DEF ReplayEvidenceKept
<1>2. CASE Sweep
  <2>1. UNCHANGED <<issued, expiresAt, clock>>
        /\ \A t \in rows : expiresAt[t] >= clock => t \in rows'
    BY <1>0, <1>2 DEF Sweep, Sweepable, IInv, TypeOK
  <2> QED BY <2>1 DEF ReplayEvidenceKept
<1>3. ASSUME NEW r \in Requests, StartFamily(r) \/ Issue(r) PROVE ReplayEvidenceKept'
  <2>1. /\ issued' = issued + 1 /\ rows' = rows \cup {issued + 1} /\ clock' = clock
        /\ \A t \in 1..issued : expiresAt'[t] = expiresAt[t]
    BY <1>0, <1>3 DEF StartFamily, Issue, CreateRow
  <2>2. 1..(issued + 1) = 1..issued \cup {issued + 1}
    BY <1>0
  <2> QED BY <2>1, <2>2 DEF ReplayEvidenceKept
<1>4. ASSUME NEW r \in Requests, Step(r) PROVE ReplayEvidenceKept'
  <2>1. CASE ~(StartFamily(r) \/ Issue(r))
    <3>1. UNCHANGED <<issued, rows, expiresAt, clock>>
      BY <1>4, <2>1 DEF Step, LoginFind, RefreshArrives, LogoutArrives, SpendUpdate,
         ReadSpent, ReadExisting, RevokeFamily, FindUser, LinkReplacement, Respond,
         LogoutFind, Fail, table
    <3> QED BY <1>1, <3>1
  <2> QED BY <1>3, <2>1
<1>5. CASE Tick \/ (\E u \in Users : Register(u) \/ Deactivate(u)) \/ UNCHANGED vars
  BY <1>1, <1>5 DEF Tick, Register, Deactivate, vars, table
<1> QED BY <1>2, <1>4, <1>5 DEF Next

\* The sweep leaves replay detection its evidence: until a token expires its row
\* is in the table, whatever was revoked, linked or swept meanwhile.
THEOREM EvidenceOutlivesToken == Spec => []ReplayEvidenceKept
<1>1. Init => ReplayEvidenceKept
  BY DEF Init, ReplayEvidenceKept
<1>2. IInv /\ ReplayEvidenceKept /\ [Next]_vars => ReplayEvidenceKept'
  BY EvidenceStep
<1> QED BY <1>1, <1>2, IndInvariant, PTL DEF Spec

-----------------------------------------------------------------------------
(* The chain of replacements *)

\* The pcs between the spend of a token and the end of its rotation.
SpentPCs == {"readSpent", "findUser", "issue", "link"}

\* What a request spent stays revoked until it is linked.
SpentRevoked == \A r \in Requests : pc[r] \in SpentPCs => tok[r] \in revoked

\* A replacement that waits for its link is its request's alone, and is a later
\* row of the family and the user of the token it replaces.
PendingLink ==
  \A r \in Requests : pc[r] = "link" =>
    /\ tok[r] < new[r]
    /\ family[new[r]] = family[tok[r]]
    /\ owner[new[r]] = owner[tok[r]]
    /\ \A s \in 1..issued : replacedBy[s] # new[r]
    /\ \A q \in Requests : pc[q] = "link" /\ new[q] = new[r] => q = r

\* No row has a replacement before it is created.
NoEarlyLink == \A t \in Tokens : t \notin 1..issued => replacedBy[t] = NoToken

ChainInv == LinksFormChain /\ SpentRevoked /\ PendingLink /\ NoEarlyLink

\* What every step but a creation leaves of the columns the chain is about; a
\* request that enters or stays in its rotation keeps what it carries.
Unlinked ==
  /\ UNCHANGED <<issued, owner, family, replacedBy>>
  /\ revoked \subseteq revoked'
  /\ \A r \in Requests : pc'[r] \in SpentPCs =>
       /\ tok'[r] = tok[r]
       /\ pc[r] \in SpentPCs \/ (pc'[r] = "readSpent" /\ tok[r] \in revoked')
       /\ pc'[r] = "link" => pc[r] = "link" /\ new'[r] = new[r]

LEMMA ChainFrame ==
  ASSUME ChainInv, Unlinked
  PROVE  ChainInv'
<1>1. LinksFormChain' /\ NoEarlyLink'
  BY DEF ChainInv, Unlinked, LinksFormChain, NoEarlyLink
<1>2. SpentRevoked'
  BY DEF ChainInv, Unlinked, SpentRevoked
<1>3. PendingLink'
  BY DEF ChainInv, Unlinked, PendingLink, SpentPCs
<1> QED BY <1>1, <1>2, <1>3 DEF ChainInv

\* Every step of a request but a creation and a link.
LEMMA RequestUnlinked ==
  ASSUME IInv, NEW r \in Requests, Step(r),
         ~(StartFamily(r) \/ Issue(r) \/ LinkReplacement(r))
  PROVE  Unlinked
<1>1. UNCHANGED <<issued, owner, family, replacedBy>> /\ revoked \subseteq revoked'
  BY DEF Step, LoginFind, RefreshArrives, LogoutArrives, SpendUpdate, ReadSpent,
     ReadExisting, RevokeFamily, FindUser, Respond, LogoutFind, Fail, table
<1>2. \A q \in Requests : q # r => pc'[q] = pc[q] /\ tok'[q] = tok[q] /\ new'[q] = new[q]
  BY DEF Step, LoginFind, RefreshArrives, LogoutArrives, SpendUpdate, ReadSpent,
     ReadExisting, RevokeFamily, FindUser, Respond, LogoutFind, Fail, Goto, Finish,
     IInv, TypeOK
<1>3. pc'[r] \in SpentPCs =>
        /\ tok'[r] = tok[r] /\ pc'[r] # "link"
        /\ pc[r] \in SpentPCs \/ (pc'[r] = "readSpent" /\ tok[r] \in revoked')
  <2>1. CASE SpendUpdate(r)
    BY <2>1 DEF SpendUpdate, Goto, IInv, TypeOK, SpentPCs
  <2>2. CASE ReadSpent(r) \/ FindUser(r)
    BY <2>2 DEF ReadSpent, FindUser, Goto, Finish, IInv, TypeOK, SpentPCs
  <2>3. CASE ~(SpendUpdate(r) \/ ReadSpent(r) \/ FindUser(r))
    BY <2>3 DEF Step, LoginFind, RefreshArrives, LogoutArrives, ReadExisting, RevokeFamily,
       Respond, LogoutFind, Fail, Goto, Finish, IInv, TypeOK, SpentPCs
  <2> QED BY <2>1, <2>2, <2>3
<1> QED BY <1>1, <1>2, <1>3 DEF Unlinked, SpentPCs

\* A new row is linked to nothing, and nothing is linked to it.
LEMMA CreateChain ==
  ASSUME IInv, ChainInv, NEW r \in Requests, StartFamily(r) \/ Issue(r)
  PROVE  ChainInv'
<1> DEFINE t == issued + 1
<1>1. /\ t \in Tokens /\ t \notin 1..issued /\ issued \in Nat
      /\ 1..t = 1..issued \cup {t} /\ 1..issued \subseteq Tokens
  <2>1. issued \in 0..MaxTokens /\ issued < MaxTokens /\ MaxTokens \in Nat
    BY ConstantsAssumption DEF IInv, TypeOK, StartFamily, Issue, CreateRow
  <2> QED BY <2>1 DEF Tokens
<1>2. /\ issued' = t /\ UNCHANGED <<tok, revoked, replacedBy>>
      /\ \A s \in 1..issued : family'[s] = family[s] /\ owner'[s] = owner[s]
      /\ \A q \in Requests : q # r => pc'[q] = pc[q] /\ new'[q] = new[q]
  BY <1>1 DEF StartFamily, Issue, CreateRow, Goto, IInv, TypeOK
<1>3. /\ pc'[r] = "respond" \/ (pc[r] = "issue" /\ pc'[r] = "link")
      /\ new'[r] = t
      /\ pc'[r] = "link" => family'[t] = family[tok[r]] /\ owner'[t] = owner[tok[r]]
  BY <1>1 DEF StartFamily, Issue, CreateRow, Goto, IInv, TypeOK, LocalsOK
<1>4. NoEarlyLink' /\ replacedBy[t] = NoToken
  BY <1>1, <1>2 DEF ChainInv, NoEarlyLink
<1>5. \A s \in 1..issued : replacedBy[s] # NoToken => replacedBy[s] \in (s + 1)..issued
  BY DEF ChainInv, LinksFormChain
<1>6. LinksFormChain'
  <2> SUFFICES ASSUME NEW s \in 1..issued', replacedBy'[s] # NoToken
               PROVE  /\ s \in revoked'
                      /\ replacedBy'[s] \in (s + 1)..issued'
                      /\ family'[replacedBy'[s]] = family'[s]
                      /\ owner'[replacedBy'[s]] = owner'[s]
                      /\ \A x \in 1..issued' : replacedBy'[x] = replacedBy'[s] => x = s
    BY DEF LinksFormChain
  <2>1. s \in 1..issued /\ replacedBy[s] \in (s + 1)..issued /\ replacedBy[s] \in 1..issued
    BY <1>1, <1>2, <1>4, <1>5
  <2> QED BY <1>1, <1>2, <1>4, <2>1 DEF ChainInv, LinksFormChain
<1>7. SpentRevoked'
  BY <1>2, <1>3 DEF ChainInv, SpentRevoked, SpentPCs
<1>8. PendingLink'
  <2>1. \A q \in Requests : pc[q] \in {"issue", "link"} => tok[q] \in 1..issued
    BY DEF IInv, LocalsOK, HasRow
  <2>2. \A q \in Requests : pc[q] = "link" => new[q] \in 1..issued
    BY DEF IInv, LocalsOK
  <2>3. \A s \in 1..issued' : replacedBy'[s] # t
    BY <1>1, <1>2, <1>4, <1>5 DEF NoToken
  <2>4. \A q \in Requests : pc[q] = "link" => replacedBy[t] # new[q]
    BY <1>1, <1>4, <2>2 DEF NoToken
  <2>5. pc'[r] = "link" => tok[r] < t
    BY <1>1, <1>3, <2>1
  <2> QED BY <1>1, <1>2, <1>3, <2>1, <2>2, <2>3, <2>4, <2>5 DEF ChainInv, PendingLink
<1> QED BY <1>4, <1>6, <1>7, <1>8 DEF ChainInv

\* The link closes the rotation its request has carried along.
LEMMA LinkChain ==
  ASSUME IInv, ChainInv, NEW r \in Requests, LinkReplacement(r)
  PROVE  ChainInv'
<1>1. /\ UNCHANGED <<issued, owner, family, revoked>>
      /\ pc[r] = "link" /\ pc'[r] \in {"idle", "respond"}
      /\ \A q \in Requests : q # r => pc'[q] = pc[q] /\ tok'[q] = tok[q] /\ new'[q] = new[q]
  BY DEF LinkReplacement, Goto, Finish, IInv, TypeOK
<1>2. CASE tok[r] \notin rows
  <2>1. Unlinked
    BY <1>1, <1>2 DEF LinkReplacement, Unlinked, SpentPCs
  <2> QED BY <2>1, ChainFrame
<1>3. CASE tok[r] \in rows
  <2>1. /\ tok[r] \in 1..issued /\ new[r] \in 1..issued /\ issued \in Nat
        /\ tok[r] \in Tokens /\ 1..issued \subseteq Tokens
    BY <1>1, ConstantsAssumption DEF IInv, TypeOK, LocalsOK, HasRow, Tokens
  <2>2. /\ replacedBy'[tok[r]] = new[r]
        /\ \A s \in Tokens : s # tok[r] => replacedBy'[s] = replacedBy[s]
    BY <1>3, <2>1 DEF LinkReplacement, IInv, TypeOK
  <2>3. /\ tok[r] < new[r] /\ tok[r] \in revoked
        /\ family[new[r]] = family[tok[r]] /\ owner[new[r]] = owner[tok[r]]
        /\ \A s \in 1..issued : replacedBy[s] # new[r]
        /\ \A q \in Requests : pc[q] = "link" /\ new[q] = new[r] => q = r
    BY <1>1 DEF ChainInv, PendingLink, SpentRevoked, SpentPCs
  <2>4. LinksFormChain'
    <3> SUFFICES ASSUME NEW s \in 1..issued, replacedBy'[s] # NoToken
                 PROVE  /\ s \in revoked
                        /\ replacedBy'[s] \in (s + 1)..issued
                        /\ family[replacedBy'[s]] = family[s]
                        /\ owner[replacedBy'[s]] = owner[s]
                        /\ \A x \in 1..issued : replacedBy'[x] = replacedBy'[s] => x = s
      BY <1>1 DEF LinksFormChain
    <3>1. CASE s = tok[r]
      BY <2>1, <2>2, <2>3, <3>1
    <3>2. CASE s # tok[r]
      <4>1. replacedBy'[s] = replacedBy[s]
        BY <2>1, <2>2, <3>2
      <4> QED BY <2>1, <2>2, <2>3, <3>2, <4>1 DEF ChainInv, LinksFormChain
    <3> QED BY <3>1, <3>2
  <2>5. NoEarlyLink' /\ SpentRevoked'
    BY <1>1, <2>1, <2>2 DEF ChainInv, NoEarlyLink, SpentRevoked, SpentPCs
  <2>6. PendingLink'
    BY <1>1, <2>1, <2>2, <2>3 DEF ChainInv, PendingLink
  <2> QED BY <2>4, <2>5, <2>6 DEF ChainInv
<1> QED BY <1>2, <1>3

LEMMA NextChain == IInv /\ ChainInv /\ [Next]_vars => ChainInv'
<1> SUFFICES ASSUME IInv, ChainInv, [Next]_vars PROVE ChainInv'
  OBVIOUS
<1>1. ASSUME NEW r \in Requests, Step(r) PROVE ChainInv'
  BY <1>1, RequestUnlinked, ChainFrame, CreateChain, LinkChain
<1>2. CASE Tick \/ Sweep \/ (\E u \in Users : Register(u) \/ Deactivate(u)) \/ UNCHANGED vars
  <2>1. Unlinked
    BY <1>2 DEF Tick, Sweep, Register, Deactivate, vars, table, request, Unlinked, SpentPCs
  <2> QED BY <2>1, ChainFrame
<1> QED BY <1>1, <1>2 DEF Next

\* replacedById is a faithful record of the rotations, written though it is two
\* statements after the spend: rows of one family and user form chains in the
\* order of issue that never merge, for any number of requests, failures and
\* sweeps in between.
THEOREM ReplacementsFormChains == Spec => []LinksFormChain
<1>1. Init => ChainInv
  BY DEF Init, ChainInv, LinksFormChain, SpentRevoked, PendingLink, NoEarlyLink, SpentPCs
<1>2. ChainInv => LinksFormChain
  BY DEF ChainInv
<1> QED BY <1>1, <1>2, NextChain, IndInvariant, PTL DEF Spec

-----------------------------------------------------------------------------
(* The refinement of SessionFamily *)

\* A family is named after its first token, which belongs to it.
RootsOK == \A t \in 1..issued : family[family[t]] = family[t]

\* Only a creation adds rows, and it puts them in a family that has its root.
LEMMA NextRoots == IInv /\ RootsOK /\ [Next]_vars => RootsOK'
<1> SUFFICES ASSUME IInv, RootsOK, [Next]_vars PROVE RootsOK'
  OBVIOUS
<1>1. CASE UNCHANGED <<issued, family>>
  BY <1>1 DEF RootsOK
<1>2. ASSUME NEW r \in Requests, StartFamily(r) \/ Issue(r) PROVE RootsOK'
  <2> DEFINE t == issued + 1
  <2>1. issued \in 0..MaxTokens /\ issued < MaxTokens /\ MaxTokens \in Nat
    BY <1>2, ConstantsAssumption DEF IInv, TypeOK, StartFamily, Issue, CreateRow
  <2>2. t \in Tokens /\ t \notin 1..issued /\ 1..t = 1..issued \cup {t}
    BY <2>1 DEF Tokens
  <2>3. /\ issued' = t /\ \A s \in 1..issued : family'[s] = family[s]
        /\ family'[t] = t \/ (pc[r] = "issue" /\ family'[t] = family[tok[r]])
    <3>1. family \in [Tokens -> Tokens \cup {NoToken}]
      BY DEF IInv, TypeOK
    <3>2. CASE StartFamily(r)
      BY <2>1, <2>2, <3>1, <3>2 DEF StartFamily, CreateRow
    <3>3. CASE Issue(r)
      BY <2>1, <2>2, <3>1, <3>3 DEF Issue, CreateRow
    <3> QED BY <1>2, <3>2, <3>3
  <2>4. \A s \in 1..issued : family[s] \in 1..issued /\ family[family[s]] = family[s]
    BY DEF IInv, FamiliesOK, RootsOK
  <2>5. pc[r] = "issue" => tok[r] \in 1..issued
    BY DEF IInv, LocalsOK, HasRow
  <2>6. CASE family'[t] = t
    BY <2>2, <2>3, <2>4, <2>6 DEF RootsOK
  <2>7. CASE pc[r] = "issue" /\ family'[t] = family[tok[r]]
    BY <2>2, <2>3, <2>4, <2>5, <2>7 DEF RootsOK
  <2> QED BY <2>3, <2>6, <2>7
<1>3. ASSUME NEW r \in Requests, Step(r), ~(StartFamily(r) \/ Issue(r))
      PROVE  UNCHANGED <<issued, family>>
  BY <1>3 DEF Step, LoginFind, RefreshArrives, LogoutArrives, SpendUpdate, ReadSpent,
     ReadExisting, RevokeFamily, FindUser, LinkReplacement, Respond, LogoutFind, Fail, table
<1>4. CASE Tick \/ Sweep \/ (\E u \in Users : Register(u) \/ Deactivate(u)) \/ UNCHANGED vars
  BY <1>1, <1>4 DEF Tick, Sweep, Register, Deactivate, vars, table
<1> QED BY <1>1, <1>2, <1>3, <1>4 DEF Next

\* What the refinement mapping says of a family, without CASE and CHOOSE: with
\* a single holder there is nothing to choose.
HolderIs ==
  \A f \in Tokens :
    /\ f \notin 1..issued \/ family[f] # f => Holder(f) = <<"unborn">>
    /\ \A t \in Live : family[t] = f => Holder(f) = <<"token", t>>
    /\ \A r \in Requests : Rotating(r) /\ family[tok[r]] = f
                             => Holder(f) = <<"request", r>>
    /\ f \in 1..issued /\ family[f] = f /\ FamilyDead(f) => Holder(f) = <<"dead">>

LEMMA HolderFacts == IInv /\ RootsOK => HolderIs
<1> SUFFICES ASSUME IInv, RootsOK, NEW f \in Tokens
             PROVE  /\ f \notin 1..issued \/ family[f] # f => Holder(f) = <<"unborn">>
                    /\ \A t \in Live : family[t] = f => Holder(f) = <<"token", t>>
                    /\ \A r \in Requests : Rotating(r) /\ family[tok[r]] = f
                                             => Holder(f) = <<"request", r>>
                    /\ f \in 1..issued /\ family[f] = f /\ FamilyDead(f)
                         => Holder(f) = <<"dead">>
  BY DEF HolderIs
<1>1. ASSUME f \notin 1..issued \/ family[f] # f PROVE Holder(f) = <<"unborn">>
  BY <1>1 DEF Holder
<1>2. ASSUME NEW t \in Live, family[t] = f PROVE Holder(f) = <<"token", t>>
  <2>1. t \in 1..issued
    BY DEF IInv, TypeOK, Live
  <2>2. f \in 1..issued /\ family[f] = f
    BY <1>2, <2>1 DEF IInv, FamiliesOK, RootsOK
  <2>3. (CHOOSE s \in Live : family[s] = f) = t
    BY <1>2 DEF IInv, SingleHolder
  <2> QED BY <1>2, <2>2, <2>3 DEF Holder
<1>3. ASSUME NEW r \in Requests, Rotating(r), family[tok[r]] = f
      PROVE  Holder(f) = <<"request", r>>
  <2>1. tok[r] \in 1..issued
    BY <1>3 DEF IInv, LocalsOK, HasRow, Rotating
  <2>2. f \in 1..issued /\ family[f] = f
    BY <1>3, <2>1 DEF IInv, FamiliesOK, RootsOK
  <2>3. \A t \in Live : family[t] # f
    BY <1>3 DEF IInv, SingleHolder
  <2>4. (CHOOSE q \in Requests : Rotating(q) /\ family[tok[q]] = f) = r
    BY <1>3 DEF IInv, SingleHolder
  <2> QED BY <1>3, <2>2, <2>3, <2>4 DEF Holder
<1>4. ASSUME f \in 1..issued, family[f] = f, FamilyDead(f) PROVE Holder(f) = <<"dead">>
  BY <1>4 DEF Holder, FamilyDead
<1> QED BY <1>1, <1>2, <1>3, <1>4

\* One family's share of an abstract step.
FamilyStep(f) ==
  \/ Holder(f)' = Holder(f)
  \/ Session!Start(f) \/ Session!Spend(f) \/ Session!Rotate(f) \/ Session!Die(f)

\* A step that makes nobody a holder leaves a family alone or ends it.
LEMMA QuietFamilyStep ==
  ASSUME HolderIs, HolderIs', Quiet, issued' = issued, NEW f \in Tokens
  PROVE  FamilyStep(f)
<1>1. CASE f \notin 1..issued \/ family[f] # f
  <2>1. Holder(f) = <<"unborn">>
    BY <1>1 DEF HolderIs
  <2>2. Holder(f)' = <<"unborn">>
    BY <1>1 DEF HolderIs, Quiet
  <2> QED BY <2>1, <2>2 DEF FamilyStep
<1>2. CASE f \in 1..issued /\ family[f] = f /\ FamilyDead(f)
  <2>1. FamilyDead(f)'
    BY <1>2 DEF FamilyDead, Quiet
  <2>2. Holder(f) = <<"dead">>
    BY <1>2 DEF HolderIs
  <2>3. Holder(f)' = <<"dead">>
    BY <1>2, <2>1 DEF HolderIs, Quiet
  <2> QED BY <2>2, <2>3 DEF FamilyStep
<1>3. ASSUME f \in 1..issued, family[f] = f, ~FamilyDead(f),
             Holder(f) # <<"unborn">>
      PROVE  FamilyStep(f)
  <2>1. CASE FamilyDead(f)'
    <3>1. Holder(f)' = <<"dead">>
      BY <1>3, <2>1 DEF HolderIs, Quiet
    <3> QED BY <1>3, <3>1 DEF FamilyStep, Session!Die, Session!Unborn, Session!Dead
  <2>2. CASE ~FamilyDead(f)'
    <3>1. \/ \E t \in Live' : family'[t] = f
          \/ \E r \in Requests : Rotating(r)' /\ family'[tok'[r]] = f
      BY <2>2 DEF FamilyDead
    <3>2. CASE \E t \in Live' : family'[t] = f
      BY <3>2 DEF HolderIs, Quiet, FamilyStep
    <3>3. CASE \E r \in Requests : Rotating(r)' /\ family'[tok'[r]] = f
      BY <3>3 DEF HolderIs, Quiet, FamilyStep
    <3> QED BY <3>1, <3>2, <3>3
  <2> QED BY <2>1, <2>2
<1>4. ASSUME f \in 1..issued, family[f] = f, ~FamilyDead(f)
      PROVE  Holder(f) # <<"unborn">>
  <2>1. \/ \E t \in Live : Holder(f) = <<"token", t>>
        \/ \E r \in Requests : Holder(f) = <<"request", r>>
    BY <1>4 DEF HolderIs, FamilyDead
  <2> QED BY <2>1
<1> QED BY <1>1, <1>2, <1>3, <1>4

\* A spend hands the family of a live token to the request; the others keep
\* their holders.
LEMMA SpendFamilyStep ==
  ASSUME IInv, HolderIs, HolderIs', NEW r \in Requests, SpendUpdate(r),
         tok[r] \in Live, Rotating(r)', revoked' = revoked \cup {tok[r]},
         NEW f \in Tokens
  PROVE  FamilyStep(f)
<1>1. /\ UNCHANGED <<issued, rows, family, tok>> /\ ~Rotating(r)
      /\ \A q \in Requests : q # r => (Rotating(q)' <=> Rotating(q))
      /\ Live' = Live \ {tok[r]}
  BY DEF IInv, TypeOK, SpendUpdate, Goto, Rotating, Live
<1>2. CASE family[tok[r]] = f
  <2>0. issued \in 0..MaxTokens /\ MaxTokens \in Nat /\ tok[r] \in 1..issued
    BY ConstantsAssumption DEF IInv, TypeOK, Live
  <2>1. Holder(f) = <<"token", tok[r]>> /\ tok[r] \in Tokens
    BY <1>2, <2>0 DEF HolderIs, Tokens
  <2>2. Holder(f)' = <<"request", r>>
    BY <1>1, <1>2 DEF HolderIs
  <2> QED BY <2>1, <2>2 DEF FamilyStep, Session!Spend, Session!ByToken, Session!ByRequest
<1>3. CASE family[tok[r]] # f
  <2>1. CASE f \notin 1..issued \/ family[f] # f
    <3>1. Holder(f) = <<"unborn">>
      BY <2>1 DEF HolderIs
    <3>2. Holder(f)' = <<"unborn">>
      BY <1>1, <2>1 DEF HolderIs
    <3> QED BY <3>1, <3>2 DEF FamilyStep
  <2>2. CASE f \in 1..issued /\ family[f] = f /\ FamilyDead(f)
    <3>1. FamilyDead(f)'
      BY <1>1, <1>3, <2>2 DEF FamilyDead
    <3>2. Holder(f) = <<"dead">>
      BY <2>2 DEF HolderIs
    <3>3. Holder(f)' = <<"dead">>
      BY <1>1, <2>2, <3>1 DEF HolderIs
    <3> QED BY <3>2, <3>3 DEF FamilyStep
  <2>3. CASE ~FamilyDead(f)
    BY <1>1, <1>3, <2>3 DEF FamilyDead, HolderIs, FamilyStep
  <2> QED BY <2>1, <2>2, <2>3
<1> QED BY <1>2, <1>3

\* A creation starts a family with its first token, or hands a rotating
\* request's family to the token it issues.
LEMMA CreateFamilyStep ==
  ASSUME IInv, RootsOK, HolderIs, HolderIs', NEW r \in Requests,
         StartFamily(r) \/ Issue(r), NEW f \in Tokens
  PROVE  FamilyStep(f)
<1> DEFINE t == issued + 1
<1>0. issued \in 0..MaxTokens /\ issued < MaxTokens /\ MaxTokens \in Nat
  BY ConstantsAssumption DEF IInv, TypeOK, StartFamily, Issue, CreateRow
<1>1. t \in Tokens /\ t \notin 1..issued /\ 1..t = 1..issued \cup {t} /\ 1..issued \subseteq Tokens
  BY <1>0 DEF Tokens
<1>2. /\ issued' = t /\ UNCHANGED tok /\ family \in [Tokens -> Tokens \cup {NoToken}]
      /\ \A s \in Tokens : s # t => family'[s] = family[s]
      /\ Live' = Live \cup {t} /\ Live \subseteq 1..issued
      /\ ~Rotating(r)'
      /\ \A q \in Requests : q # r => (Rotating(q)' <=> Rotating(q))
  <2>1. /\ family \in [Tokens -> Tokens \cup {NoToken}] /\ pc \in [Requests -> PCs]
        /\ Live \subseteq 1..issued /\ revoked \subseteq 1..issued
    BY DEF IInv, TypeOK, Live
  <2>2. CASE StartFamily(r)
    BY <1>1, <2>1, <2>2 DEF StartFamily, CreateRow, Goto, Rotating, Live
  <2>3. CASE Issue(r)
    BY <1>1, <2>1, <2>3 DEF Issue, CreateRow, Goto, Rotating, Live
  <2> QED BY <2>2, <2>3
<1>3. \A q \in Requests : Rotating(q) => tok[q] \in 1..issued /\ tok[q] # t
  BY <1>1 DEF IInv, LocalsOK, HasRow, Rotating
<1>4. family'[t] = f => FamilyStep(f)
  <2> SUFFICES ASSUME family'[t] = f PROVE FamilyStep(f)
    OBVIOUS
  <2>1. Holder(f)' = <<"token", t>>
    BY <1>1, <1>2 DEF HolderIs
  <2>2. CASE StartFamily(r)
    <3>1. f = t
      BY <1>1, <1>2, <2>2 DEF StartFamily, CreateRow
    <3>2. Holder(f) = <<"unborn">>
      BY <1>1, <3>1 DEF HolderIs
    <3> QED BY <1>1, <2>1, <3>2 DEF FamilyStep, Session!Start, Session!Unborn, Session!ByToken
  <2>3. CASE Issue(r)
    <3>1. f = family[tok[r]] /\ Rotating(r)
      BY <1>1, <1>2, <2>3 DEF Issue, CreateRow, Rotating
    <3>2. Holder(f) = <<"request", r>>
      BY <3>1 DEF HolderIs
    <3> QED BY <1>1, <2>1, <3>2 DEF FamilyStep, Session!Rotate, Session!ByRequest, Session!ByToken
  <2> QED BY <2>2, <2>3
<1>5. family'[t] # f => FamilyStep(f)
  <2> SUFFICES ASSUME family'[t] # f PROVE FamilyStep(f)
    OBVIOUS
  <2>0. ~Rotating(r) \/ family[tok[r]] # f
    <3>1. CASE StartFamily(r)
      BY <3>1 DEF StartFamily, Rotating
    <3>2. CASE Issue(r)
      BY <1>1, <1>2, <3>2 DEF Issue, CreateRow
    <3> QED BY <3>1, <3>2
  <2>1. CASE f \notin 1..issued \/ family[f] # f
    <3>1. Holder(f) = <<"unborn">>
      BY <2>1 DEF HolderIs
    <3>2. f \notin 1..t \/ family'[f] # f
      BY <1>1, <1>2, <2>1
    <3>3. Holder(f)' = <<"unborn">>
      BY <1>2, <3>2 DEF HolderIs
    <3> QED BY <3>1, <3>3 DEF FamilyStep
  <2>2. CASE f \in 1..issued /\ family[f] = f /\ FamilyDead(f)
    <3>1. FamilyDead(f)'
      BY <1>1, <1>2, <1>3, <2>2 DEF FamilyDead
    <3>2. Holder(f) = <<"dead">>
      BY <2>2 DEF HolderIs
    <3>3. f \in 1..issued' /\ family'[f] = f
      BY <1>1, <1>2, <2>2
    <3>4. Holder(f)' = <<"dead">>
      BY <3>1, <3>3 DEF HolderIs
    <3> QED BY <3>2, <3>4 DEF FamilyStep
  <2>3. CASE ~FamilyDead(f)
    <3>1. CASE \E s \in Live : family[s] = f
      <4>1. PICK s \in Live : family[s] = f
        BY <3>1
      <4>2. s \in Live' /\ family'[s] = f
        BY <1>1, <1>2, <4>1
      <4> QED BY <4>1, <4>2 DEF HolderIs, FamilyStep
    <3>2. CASE \E q \in Requests : Rotating(q) /\ family[tok[q]] = f
      <4>1. PICK q \in Requests : Rotating(q) /\ family[tok[q]] = f
        BY <3>2
      <4>2. Rotating(q)' /\ family'[tok'[q]] = f
        BY <1>1, <1>2, <1>3, <2>0, <4>1
      <4> QED BY <4>1, <4>2 DEF HolderIs, FamilyStep
    <3> QED BY <2>3, <3>1, <3>2 DEF FamilyDead
  <2> QED BY <2>1, <2>2, <2>3
<1> QED BY <1>4, <1>5

\* Every step of the service is a step of the abstract session.
LEMMA StepSimulation ==
  ASSUME IInv, IInv', RootsOK, HolderIs, HolderIs', [Next]_vars
  PROVE  Session!SNext
<1>1. \A f \in Tokens : FamilyStep(f)
  <2> SUFFICES ASSUME NEW f \in Tokens PROVE FamilyStep(f)
    OBVIOUS
  <2>1. ASSUME NEW r \in Requests, Step(r), ~(StartFamily(r) \/ Issue(r))
        PROVE  UNCHANGED issued
    BY <2>1 DEF Step, LoginFind, RefreshArrives, LogoutArrives, SpendUpdate, ReadSpent,
       ReadExisting, RevokeFamily, FindUser, LinkReplacement, Respond, LogoutFind, Fail, table
  <2>2. ASSUME NEW r \in Requests, SpendUpdate(r) PROVE FamilyStep(f)
    <3>1. \/ tok[r] \in Live /\ revoked' = revoked \cup {tok[r]} /\ Rotating(r)'
          \/ Quiet
      BY <2>2 DEF IInv, TypeOK, SpendUpdate, Spendable, Goto, Live, Rotating, Quiet
    <3>2. UNCHANGED issued
      BY <2>2 DEF SpendUpdate
    <3> QED BY <2>2, <3>1, <3>2, SpendFamilyStep, QuietFamilyStep
  <2>3. ASSUME NEW r \in Requests, Step(r) PROVE FamilyStep(f)
    BY <2>1, <2>2, <2>3, CreateFamilyStep, QuietFamilyStep, ArrivalIInv, ReadIInv,
       RevokeFamilyIInv, FindUserIInv, LinkReplacementIInv DEF Step
  <2>4. CASE Tick \/ Sweep \/ (\E u \in Users : Register(u) \/ Deactivate(u))
    <3>1. UNCHANGED issued
      BY <2>4 DEF Tick, Sweep, Register, Deactivate, table
    <3> QED BY <2>4, <3>1, QuietFamilyStep, TickIInv, SweepIInv, AccountIInv
  <2>5. CASE UNCHANGED vars
    <3>1. Quiet /\ UNCHANGED issued
      BY <2>5 DEF vars, table, request, Quiet, Live, Rotating
    <3> QED BY <3>1, QuietFamilyStep
  <2> QED BY <2>3, <2>4, <2>5 DEF Next
<1>2. 1..issued \subseteq 1..issued'
  <2>1. ASSUME NEW r \in Requests, StartFamily(r) \/ Issue(r) PROVE issued' = issued + 1
    BY <2>1 DEF StartFamily, Issue, CreateRow
  <2>2. issued' = issued \/ issued' = issued + 1
    BY <2>1 DEF Next, Step, LoginFind, RefreshArrives, LogoutArrives, SpendUpdate, ReadSpent,
       ReadExisting, RevokeFamily, FindUser, LinkReplacement, Respond, LogoutFind, Fail,
       Tick, Sweep, Register, Deactivate, vars, table
  <2>3. issued \in Nat
    BY ConstantsAssumption DEF IInv, TypeOK
  <2> QED BY <2>2, <2>3
<1>3. ASSUME NEW f \in Tokens, NEW t \in Tokens, Holder(f)' = <<"token", t>>
      PROVE  t \in 1..issued'
  <2>1. Live' \subseteq 1..issued'
    BY DEF IInv, TypeOK, Live
  <2>2. CASE f \notin 1..issued' \/ family'[f] # f
    BY <1>3, <2>2 DEF HolderIs
  <2>3. CASE f \in 1..issued' /\ family'[f] = f /\ FamilyDead(f)'
    BY <1>3, <2>3 DEF HolderIs
  <2>4. CASE ~FamilyDead(f)'
    <3>1. \/ \E s \in Live' : Holder(f)' = <<"token", s>>
          \/ \E r \in Requests : Holder(f)' = <<"request", r>>
      BY <2>4 DEF FamilyDead, HolderIs
    <3> QED BY <1>3, <2>1, <3>1
  <2> QED BY <2>2, <2>3, <2>4
<1> QED BY <1>1, <1>2, <1>3 DEF FamilyStep, Session!SNext, Session!ByToken

\* The rotation of refresh tokens, statement by statement and with every
\* failure and sweep, implements the linear capability: each family has one
\* holder at most, hands over to tokens never used before, and is gone for good
\* once it is gone.
THEOREM RotationImplementsSession == Spec => ImplementsSession
<1>1. Init => RootsOK /\ Session!SInit
  BY DEF Init, RootsOK, Holder, Session!SInit, Session!Unborn
<1>2. IInv /\ IInv' /\ RootsOK /\ HolderIs /\ HolderIs' /\ [Next]_vars
      => [Session!SNext]_Session!svars
  BY StepSimulation
<1> QED BY <1>1, <1>2, NextRoots, HolderFacts, IndInvariant, PTL
        DEF Spec, ImplementsSession, Session!SSpec
=============================================================================
