----------------------------- MODULE ConnectFlow -----------------------------
(***************************************************************************)
(* The OAuth flow as a whole, for one user and one mailbox: authorize and  *)
(* callback of OAuthController, which put OAuthStateService in front of    *)
(* AccountsService.connect.  A callback redeems its state and sends the    *)
(* code to the provider without an await in between, so both are one step; *)
(* the upsert comes later and races the refreshes of AccountTokens.        *)
(***************************************************************************)
EXTENDS AccountTokens, OAuthState

NoState == 0

VARIABLES via,       \* the state each task redeemed, or NoState
          connects   \* history: upserts of this process that go back to a state

flowVars == <<vars, stateVars, via, connects>>

FlowTypeOK ==
  /\ TypeOK /\ StateTypeOK
  /\ via \in [Tasks -> States \cup {NoState}]
  /\ connects \in [States -> Nat]

FlowInit ==
  /\ Init /\ StateInit
  /\ via = [k \in Tasks |-> NoState]
  /\ connects = [s \in States |-> 0]

authorize == Issue /\ UNCHANGED <<vars, via, connects>>

\* Faulty variant: the code is exchanged first, the state is checked by nobody.
callbackUnverified(k, s) ==
  /\ s \in 1..issued
  /\ \E full, renewed \in BOOLEAN : Exchange(k, full, renewed)
  /\ via' = [via EXCEPT ![k] = IF pc'[k] = "upsert" THEN s ELSE NoState]
  /\ UNCHANGED <<stateVars, connects>>

\* verify, exchangeCode and the checks of connect before its upsert.
callback(k, s) ==
  /\ VerifyAccepts(s)
  /\ \E full, renewed \in BOOLEAN : Exchange(k, full, renewed)
  /\ via' = [via EXCEPT ![k] = IF pc'[k] = "upsert" THEN s ELSE NoState]
  /\ UNCHANGED connects

\* The provider refuses the code or does not answer: the state is spent.
callbackFails(s) == VerifyAccepts(s) /\ UNCHANGED <<vars, via, connects>>

callbackRefused(s) == VerifyRefuses(s) /\ UNCHANGED <<vars, via, connects>>

\* The end of connect.
connect(k) ==
  /\ Upsert(k)
  /\ connects' = [connects EXCEPT ![via[k]] = @ + 1]
  /\ via' = [via EXCEPT ![k] = NoState]
  /\ UNCHANGED stateVars

\* A statement of a task fails.
taskDies(k) ==
  /\ TaskDies(k)
  /\ via' = [via EXCEPT ![k] = NoState]
  /\ UNCHANGED <<stateVars, connects>>

\* The process stops with all it was doing, and starts again.
processRestarts ==
  /\ Restart
  /\ pc' = [k \in Tasks |-> "idle"]
  /\ held' = [k \in Tasks |-> NoGrant]
  /\ renews' = [k \in Tasks |-> FALSE]
  /\ via' = [k \in Tasks |-> NoState]
  /\ connects' = [s \in States |-> 0]
  /\ UNCHANGED <<granted, rejected, row, outages>>

\* What a sync job or a preview does, and the provider.
tokenStep ==
  /\ \/ \E g \in Grants : GrantEnds(g)
     \/ AccessTokenAges
     \/ \E k \in Tasks : \/ Load(k) \/ CallFails(k) \/ CallAnswers(k)
                         \/ PersistRefreshed(k) \/ MarkReauthRequired(k)
  /\ UNCHANGED <<stateVars, via, connects>>

FlowNext ==
  \/ authorize
  \/ \E s \in States : callbackFails(s) \/ callbackRefused(s)
  \/ \E k \in Tasks, s \in States : callback(k, s)
  \/ \E k \in Tasks : connect(k) \/ taskDies(k)
  \/ processRestarts
  \/ tokenStep
  \/ Tick /\ UNCHANGED <<vars, via, connects>>

FlowSpec == FlowInit /\ [][FlowNext]_flowVars /\ Fairness

-----------------------------------------------------------------------------
(* Properties *)

\* "A replayed state is either a stale back-button or someone re-presenting a
\* value they should not have; neither should connect a mailbox to an account."
\* (oauth-state.service.ts:87): however callbacks, failures, refreshes and time
\* interleave, a connect goes back to a state that was issued and redeemed, and
\* one process connects at most once for it.
OneConnectPerState ==
  /\ \A s \in States : connects[s] <= sinceBoot[s] /\ connects[s] <= 1
  /\ \A k \in Tasks : pc[k] = "upsert" => /\ via[k] \in 1..issued
                                          /\ connects[via[k]] = 0
=============================================================================
