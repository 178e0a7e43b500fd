-------------------------- MODULE ConnectFlowProofs --------------------------
(***************************************************************************)
(* Theorems about ConnectFlow, and through it about OAuthState and         *)
(* AccountTokens, for every number of tasks, grants, states, restarts and  *)
(* seconds.                                                                *)
(***************************************************************************)
EXTENDS ConnectFlow, TLAPS

\* The part of AccountTokens: which grant a task holds at which statement.
HeldOK ==
  \A k \in Tasks :
    /\ pc[k] \in {"call", "persist", "upsert"} => held[k] # NoGrant
    /\ pc[k] = "mark" => held[k] = NoGrant \/ held[k] \in rejected

TokenInv == TypeOK /\ HeldOK

\* The part of OAuthState: a state that was accepted is remembered until it is
\* out of date, and a restart forgets at most one use of each.
Remembered ==
  \A s \in States :
    /\ sinceBoot[s] > 0 => s \in 1..issued /\ (s \in redeemed \/ Forgettable(s))
    /\ sinceBoot[s] <= 1
    /\ sinceBoot[s] <= uses[s]
    /\ uses[s] <= restarts + sinceBoot[s]

StateInv == StateTypeOK /\ Remembered

\* Where both meet: a callback on its way to the upsert has redeemed its state
\* in this process, nobody else carries that state, and it has not connected.
CarriesOwnState ==
  \A k \in Tasks : pc[k] = "upsert" =>
    /\ via[k] \in 1..issued
    /\ sinceBoot[via[k]] = 1
    /\ connects[via[k]] = 0
    /\ \A j \in Tasks : pc[j] = "upsert" /\ via[j] = via[k] => j = k

ConnectInv ==
  /\ via \in [Tasks -> States \cup {NoState}]
  /\ connects \in [States -> Nat]
  /\ \A s \in States : connects[s] <= sinceBoot[s]
  /\ CarriesOwnState

FlowInv == TokenInv /\ StateInv /\ ConnectInv

-----------------------------------------------------------------------------
(* AccountTokens *)

\* Ending a task keeps the locals typed, and a task that is idle holds nothing
\* the invariant speaks of.
LEMMA FinishHeld ==
  ASSUME TokenInv, NEW k \in Tasks, Finish(k)
  PROVE  /\ pc' \in [Tasks -> {"idle", "call", "mark", "persist", "upsert"}]
         /\ held' \in [Tasks -> 0..granted]
         /\ renews' \in [Tasks -> BOOLEAN]
         /\ rejected \subseteq rejected' => HeldOK'
<1>1. granted \in Nat /\ 0 \in 0..granted
  BY AccountTokensAssumption DEF TokenInv, TypeOK
<1>2. /\ pc' \in [Tasks -> {"idle", "call", "mark", "persist", "upsert"}]
      /\ held' \in [Tasks -> 0..granted]
  BY <1>1 DEF TokenInv, TypeOK, Finish, Goto, NoGrant
<1>3. renews' \in [Tasks -> BOOLEAN]
  BY DEF TokenInv, TypeOK, Finish
<1>4. ASSUME rejected \subseteq rejected' PROVE HeldOK'
  BY <1>4 DEF TokenInv, TypeOK, HeldOK, Finish, Goto
<1> QED BY <1>2, <1>3, <1>4

LEMMA ProviderInv ==
  ASSUME TokenInv, (\E g \in Grants : GrantEnds(g)) \/ AccessTokenAges
  PROVE  TokenInv'
BY DEF TokenInv, TypeOK, HeldOK, GrantEnds, AccessTokenAges, row, locals

LEMMA ExchangeInv ==
  ASSUME TokenInv, NEW k \in Tasks, NEW full \in BOOLEAN, NEW renewed \in BOOLEAN,
         Exchange(k, full, renewed)
  PROVE  TokenInv'
<1>1. granted \in 0..MaxGrants /\ granted < MaxGrants /\ MaxGrants \in Nat /\ granted' = granted + 1
  BY AccountTokensAssumption DEF TokenInv, TypeOK, Exchange
<1>2. /\ granted' \in 0..MaxGrants /\ 1..granted \subseteq 1..granted'
      /\ 0..granted \subseteq 0..granted' /\ granted + 1 \in 0..granted' /\ granted + 1 # NoGrant
  BY <1>1 DEF NoGrant
<1>3. /\ pc' \in [Tasks -> {"idle", "call", "mark", "persist", "upsert"}]
      /\ held' \in [Tasks -> 0..granted']
      /\ \A j \in Tasks : j # k => pc'[j] = pc[j] /\ held'[j] = held[j]
      /\ pc'[k] = "idle" \/ (pc'[k] = "upsert" /\ held'[k] = granted + 1)
  <2>1. CASE full
    BY <1>2, <2>1 DEF TokenInv, TypeOK, Exchange, exchangeCode, Goto
  <2>2. CASE ~full
    BY <1>2, <2>2 DEF TokenInv, TypeOK, Exchange, locals
  <2> QED BY <2>1, <2>2
<1>4. renews' \in [Tasks -> BOOLEAN]
  BY DEF TokenInv, TypeOK, Exchange, exchangeCode, locals
<1>5. TypeOK'
  BY <1>2, <1>3, <1>4 DEF TokenInv, TypeOK, Exchange, row
<1>6. HeldOK'
  BY <1>2, <1>3 DEF TokenInv, HeldOK, Exchange
<1> QED BY <1>5, <1>6 DEF TokenInv

\* The statements that write the row: its grants are a task's or stay.
LEMMA WriteRowInv ==
  ASSUME TokenInv, NEW k \in Tasks, Upsert(k) \/ PersistRefreshed(k) \/ MarkReauthRequired(k)
  PROVE  TokenInv'
<1>1. Finish(k) /\ UNCHANGED <<granted, rejected, outages>>
  BY DEF Upsert, PersistRefreshed, MarkReauthRequired
<1>2. /\ status' \in {"NONE", "ACTIVE", "REAUTH_REQUIRED"}
      /\ stored' \in 0..granted /\ access' \in 0..granted
  BY DEF TokenInv, TypeOK, Upsert, PersistRefreshed, MarkReauthRequired, StoredAfterConnect
<1>3. fresh' \in BOOLEAN
  BY DEF TokenInv, TypeOK, Upsert, PersistRefreshed, MarkReauthRequired
<1> QED BY <1>1, <1>2, <1>3, FinishHeld DEF TokenInv, TypeOK

LEMMA EndTaskInv ==
  ASSUME TokenInv, NEW k \in Tasks, CallFails(k) \/ TaskDies(k)
  PROVE  TokenInv'
<1>1. Finish(k) /\ UNCHANGED <<granted, rejected, row>> /\ outages' \in 0..MaxOutages
  BY AccountTokensAssumption DEF TokenInv, TypeOK, CallFails, TaskDies
<1> QED BY <1>1, FinishHeld DEF TokenInv, TypeOK, row

LEMMA LoadCallInv ==
  ASSUME TokenInv, NEW k \in Tasks, Load(k) \/ CallAnswers(k)
  PROVE  TokenInv'
<1>1. UNCHANGED <<granted, rejected, row, renews, outages>>
  BY DEF Load, CallAnswers
<1>2. /\ pc' \in [Tasks -> {"idle", "call", "mark", "persist", "upsert"}]
      /\ held' \in [Tasks -> 0..granted]
      /\ \A j \in Tasks : j # k => pc'[j] = pc[j] /\ held'[j] = held[j]
  BY DEF TokenInv, TypeOK, Load, CallAnswers, Goto
<1>3. \/ pc'[k] = "mark" /\ (held'[k] = NoGrant \/ held'[k] \in rejected)
      \/ pc'[k] \in {"call", "persist"} /\ held'[k] # NoGrant
  BY DEF TokenInv, TypeOK, HeldOK, Load, CallAnswers, InvalidGrant, Goto
<1>4. TypeOK'
  BY <1>1, <1>2 DEF TokenInv, TypeOK, row
<1>5. HeldOK'
  BY <1>1, <1>2, <1>3 DEF TokenInv, HeldOK
<1> QED BY <1>4, <1>5 DEF TokenInv

\* A restart leaves the row and drops what the tasks were at.
LEMMA RestartTokenInv ==
  ASSUME TokenInv, processRestarts
  PROVE  TokenInv'
<1>1. granted \in Nat /\ 0 \in 0..granted
  BY AccountTokensAssumption DEF TokenInv, TypeOK
<1>2. renews' \in [Tasks -> BOOLEAN]
  BY DEF processRestarts
<1>3. TypeOK'
  BY <1>1, <1>2 DEF TokenInv, TypeOK, processRestarts, row, NoGrant
<1> QED BY <1>3 DEF TokenInv, HeldOK, processRestarts

-----------------------------------------------------------------------------
(* OAuthState *)

LEMMA StateStepInv ==
  ASSUME StateInv,
         \/ Issue \/ Restart \/ Tick \/ UNCHANGED stateVars
         \/ \E s \in States : VerifyAccepts(s) \/ VerifyRefuses(s)
  PROVE  StateInv'
<1> USE OAuthStateAssumption
<1>0. /\ clock \in Nat /\ issued \in Nat /\ 1..issued \subseteq States
      /\ exp \in [States -> Nat]
      /\ uses \in [States -> Nat] /\ sinceBoot \in [States -> Nat] /\ restarts \in Nat
  BY DEF StateInv, StateTypeOK, States
<1>1. CASE Issue
  <2>1. issued + 1 \in States /\ issued + 1 \notin 1..issued /\ issued + 1 \in 0..MaxStates
        /\ 1..issued \subseteq 1..(issued + 1)
    BY <1>0, <1>1 DEF StateInv, StateTypeOK, Issue, States
  <2>2. StateTypeOK'
    BY <1>0, <1>1, <2>1 DEF StateInv, StateTypeOK, Issue
  <2>3. \A s \in States : s # issued + 1 => exp'[s] = exp[s]
    BY <1>0, <1>1 DEF Issue
  <2>4. Remembered'
    BY <1>0, <1>1, <2>1, <2>3 DEF StateInv, Remembered, Issue, Forgettable
  <2> QED BY <2>2, <2>4 DEF StateInv
<1>2. CASE Restart
  <2>1. StateTypeOK'
    BY <1>0, <1>2 DEF StateInv, StateTypeOK, Restart
  <2>2. Remembered'
    BY <1>0, <1>2 DEF StateInv, Remembered, Restart
  <2> QED BY <2>1, <2>2 DEF StateInv
<1>3. CASE Tick
  <2>1. StateTypeOK'
    BY <1>0, <1>3 DEF StateInv, StateTypeOK, Tick
  <2>2. Remembered'
    BY <1>0, <1>3 DEF StateInv, Remembered, Tick, Forgettable
  <2> QED BY <2>1, <2>2 DEF StateInv
<1>4. ASSUME NEW s \in States, VerifyAccepts(s) PROVE StateInv'
  <2>1. /\ s \in 1..issued /\ exp[s] >= clock /\ s \notin redeemed
        /\ redeemed' = {x \in redeemed : ~Forgettable(x)} \cup {s}
        /\ UNCHANGED <<clock, issued, exp, restarts>>
    BY <1>0, <1>4 DEF VerifyAccepts, Acceptable, Kept, Forgettable
  <2>2. sinceBoot[s] = 0
    BY <1>0, <2>1 DEF StateInv, Remembered, Forgettable
  <2>3. /\ uses'[s] = uses[s] + 1 /\ sinceBoot'[s] = 1
        /\ \A x \in States : x # s => uses'[x] = uses[x] /\ sinceBoot'[x] = sinceBoot[x]
        /\ uses' \in [States -> 0..MaxUses] /\ sinceBoot' \in [States -> 0..MaxUses]
    <3>1. uses[s] < MaxUses /\ uses[s] \in 0..MaxUses /\ 1 \in 0..MaxUses
      BY <1>0, <1>4 DEF VerifyAccepts, StateInv, StateTypeOK
    <3>2. uses[s] + 1 \in 0..MaxUses
      BY <3>1
    <3> QED BY <1>4, <2>2, <3>1, <3>2 DEF VerifyAccepts, StateInv, StateTypeOK
  <2>4. StateTypeOK'
    BY <2>1, <2>3 DEF StateInv, StateTypeOK
  <2>5. Remembered'
    BY <1>0, <2>1, <2>2, <2>3 DEF StateInv, Remembered, Forgettable
  <2> QED BY <2>4, <2>5 DEF StateInv
<1>5. ASSUME NEW s \in States, VerifyRefuses(s) PROVE StateInv'
  BY <1>5 DEF StateInv, StateTypeOK, Remembered, VerifyRefuses, Kept, Forgettable
<1>6. CASE UNCHANGED stateVars
  BY <1>6 DEF StateInv, StateTypeOK, Remembered, stateVars, Forgettable
<1> QED BY <1>1, <1>2, <1>3, <1>4, <1>5, <1>6

\* A state that is accepted has not been accepted by this process before.
LEMMA AcceptedOnce ==
  ASSUME StateInv, NEW s \in States, VerifyAccepts(s)
  PROVE  /\ s \in 1..issued /\ sinceBoot[s] = 0 /\ sinceBoot'[s] = 1
         /\ \A x \in States : x # s => sinceBoot'[x] = sinceBoot[x]
<1>1. clock \in Nat /\ exp \in [States -> Nat] /\ sinceBoot \in [States -> Nat]
  BY OAuthStateAssumption DEF StateInv, StateTypeOK
<1>2. s \in 1..issued /\ exp[s] >= clock /\ s \notin redeemed
  BY <1>1 DEF VerifyAccepts, Acceptable, Kept, Forgettable
<1>3. sinceBoot[s] = 0
  BY <1>1, <1>2 DEF StateInv, Remembered, Forgettable
<1> QED BY <1>1, <1>2, <1>3 DEF VerifyAccepts

-----------------------------------------------------------------------------
(* The flow *)

\* A step that starts no callback: the tasks on their way to the upsert are
\* among those that were, with the state they carried.
LEMMA NoNewCallback ==
  ASSUME ConnectInv,
         UNCHANGED <<connects>>,
         \A s \in States : sinceBoot'[s] = sinceBoot[s],
         1..issued \subseteq 1..issued', 1..issued \subseteq States,
         via' \in [Tasks -> States \cup {NoState}],
         \A j \in Tasks : pc'[j] = "upsert" => pc[j] = "upsert" /\ via'[j] = via[j]
  PROVE  ConnectInv'
BY DEF ConnectInv, CarriesOwnState

LEMMA CallbackInv ==
  ASSUME FlowInv, NEW k \in Tasks, NEW s \in States, callback(k, s)
  PROVE  FlowInv'
<1>1. PICK full \in BOOLEAN, renewed \in BOOLEAN : Exchange(k, full, renewed)
  BY DEF callback
<1>2. TokenInv'
  BY <1>1, ExchangeInv DEF FlowInv
<1>3. StateInv'
  BY StateStepInv DEF FlowInv, callback
<1>4. /\ s \in 1..issued /\ sinceBoot[s] = 0 /\ sinceBoot'[s] = 1
      /\ \A x \in States : x # s => sinceBoot'[x] = sinceBoot[x]
      /\ UNCHANGED <<issued, connects>>
  BY AcceptedOnce DEF FlowInv, callback, VerifyAccepts
<1>5. /\ via' \in [Tasks -> States \cup {NoState}]
      /\ \A j \in Tasks : j # k => pc'[j] = pc[j] /\ via'[j] = via[j]
      /\ pc'[k] = "upsert" => via'[k] = s
  BY <1>1 DEF FlowInv, TokenInv, TypeOK, ConnectInv, callback, Exchange, Goto, locals
<1>6. connects[s] = 0 /\ \A x \in States : connects[x] <= sinceBoot'[x]
  <2>1. connects \in [States -> Nat] /\ \A x \in States : connects[x] <= sinceBoot[x]
    BY DEF FlowInv, ConnectInv
  <2> QED BY <1>4, <2>1
<1>7. \A j \in Tasks : pc[j] = "upsert" => via[j] # s /\ via[j] \in States
  <2>1. 1..issued \subseteq States
    BY OAuthStateAssumption DEF FlowInv, StateInv, StateTypeOK, States
  <2> QED BY <1>4, <2>1 DEF FlowInv, ConnectInv, CarriesOwnState
<1>8. CarriesOwnState'
  <2> SUFFICES ASSUME NEW j \in Tasks, pc'[j] = "upsert"
               PROVE  /\ via'[j] \in 1..issued /\ sinceBoot'[via'[j]] = 1
                      /\ connects[via'[j]] = 0
                      /\ \A i \in Tasks : pc'[i] = "upsert" /\ via'[i] = via'[j] => i = j
    BY <1>4 DEF CarriesOwnState
  <2>1. CASE j = k
    BY <1>4, <1>5, <1>6, <1>7, <2>1
  <2>2. CASE j # k
    BY <1>4, <1>5, <1>7, <2>2 DEF FlowInv, ConnectInv, CarriesOwnState
  <2> QED BY <2>1, <2>2
<1> QED BY <1>2, <1>3, <1>4, <1>5, <1>6, <1>8 DEF FlowInv, ConnectInv

LEMMA ConnectStepInv ==
  ASSUME FlowInv, NEW k \in Tasks, connect(k)
  PROVE  FlowInv'
<1>1. TokenInv'
  BY WriteRowInv DEF FlowInv, connect
<1>2. StateInv' /\ UNCHANGED <<issued, sinceBoot>>
  BY StateStepInv DEF FlowInv, connect, stateVars
<1>3. /\ pc[k] = "upsert" /\ pc'[k] = "idle"
      /\ \A j \in Tasks : j # k => pc'[j] = pc[j] /\ via'[j] = via[j]
      /\ via' \in [Tasks -> States \cup {NoState}]
  BY DEF FlowInv, TokenInv, TypeOK, ConnectInv, connect, Upsert, Finish, Goto
<1>4. /\ via[k] \in States /\ sinceBoot[via[k]] = 1 /\ connects[via[k]] = 0
      /\ \A j \in Tasks : pc[j] = "upsert" /\ via[j] = via[k] => j = k
  <2>1. 1..issued \subseteq States
    BY OAuthStateAssumption DEF FlowInv, StateInv, StateTypeOK, States
  <2> QED BY <1>3, <2>1 DEF FlowInv, ConnectInv, CarriesOwnState
<1>5. /\ connects' \in [States -> Nat] /\ connects'[via[k]] = 1
      /\ \A x \in States : x # via[k] => connects'[x] = connects[x]
  BY <1>4 DEF FlowInv, ConnectInv, connect
<1>6. CarriesOwnState'
  <2>1. 1..issued \subseteq States
    BY OAuthStateAssumption DEF FlowInv, StateInv, StateTypeOK, States
  <2> QED BY <1>2, <1>3, <1>4, <1>5, <2>1 DEF FlowInv, ConnectInv, CarriesOwnState
<1>7. \A x \in States : connects'[x] <= sinceBoot'[x]
  BY <1>2, <1>4, <1>5 DEF FlowInv, ConnectInv
<1> QED BY <1>1, <1>2, <1>3, <1>5, <1>6, <1>7 DEF FlowInv, ConnectInv

\* A statement of a task, of a job or of the provider beside the callbacks.
LEMMA TaskStepInv ==
  ASSUME FlowInv, tokenStep \/ \E k \in Tasks : taskDies(k)
  PROVE  FlowInv'
<1>1. TokenInv'
  BY ProviderInv, WriteRowInv, EndTaskInv, LoadCallInv DEF FlowInv, tokenStep, taskDies
<1>2. StateInv' /\ UNCHANGED <<issued, sinceBoot, connects>> /\ 1..issued \subseteq States
  <2>1. 1..issued \subseteq States
    BY OAuthStateAssumption DEF FlowInv, StateInv, StateTypeOK, States
  <2>2. UNCHANGED stateVars
    BY DEF tokenStep, taskDies
  <2> QED BY <2>1, <2>2, StateStepInv DEF FlowInv, stateVars, tokenStep, taskDies
<1>3. /\ via' \in [Tasks -> States \cup {NoState}]
      /\ \A j \in Tasks : pc'[j] = "upsert" => pc[j] = "upsert" /\ via'[j] = via[j]
  <2>1. CASE tokenStep
    BY <2>1 DEF FlowInv, TokenInv, TypeOK, ConnectInv, tokenStep, GrantEnds, AccessTokenAges,
       Load, CallFails, CallAnswers, PersistRefreshed, MarkReauthRequired, Finish, Goto, locals
  <2>2. CASE \E k \in Tasks : taskDies(k)
    BY <2>2 DEF FlowInv, TokenInv, TypeOK, ConnectInv, taskDies, TaskDies, Finish, Goto
  <2> QED BY <2>1, <2>2
<1>4. ConnectInv'
  BY <1>2, <1>3, NoNewCallback DEF FlowInv
<1> QED BY <1>1, <1>2, <1>4 DEF FlowInv

\* Steps of the state service alone; a code that is refused spends its state.
LEMMA StateOnlyInv ==
  ASSUME FlowInv, UNCHANGED <<vars, via, connects>>,
         \/ Issue \/ Tick
         \/ \E s \in States : VerifyAccepts(s) \/ VerifyRefuses(s)
  PROVE  FlowInv'
<1>1. TokenInv'
  BY DEF FlowInv, TokenInv, TypeOK, HeldOK, vars, row, locals
<1>2. StateInv'
  BY StateStepInv DEF FlowInv
<1>3. 1..issued \subseteq States /\ 1..issued \subseteq 1..issued'
  <2>1. issued \in 0..MaxStates /\ MaxStates \in Nat
    BY OAuthStateAssumption DEF FlowInv, StateInv, StateTypeOK
  <2>2. issued' = issued \/ issued' = issued + 1
    BY DEF Issue, Tick, VerifyAccepts, VerifyRefuses
  <2> QED BY <2>1, <2>2 DEF States
<1>4. UNCHANGED <<pc, via, connects>>
  BY DEF vars, locals
<1>5. CASE Issue \/ Tick \/ \E s \in States : VerifyRefuses(s)
  <2>1. UNCHANGED sinceBoot
    BY <1>5 DEF Issue, Tick, VerifyRefuses
  <2> QED BY <1>1, <1>2, <1>3, <1>4, <2>1, NoNewCallback DEF FlowInv, ConnectInv
<1>6. ASSUME NEW s \in States, VerifyAccepts(s) PROVE FlowInv'
  <2>1. /\ sinceBoot[s] = 0 /\ sinceBoot'[s] = 1
        /\ \A x \in States : x # s => sinceBoot'[x] = sinceBoot[x]
        /\ UNCHANGED issued
    BY <1>6, AcceptedOnce DEF FlowInv, VerifyAccepts
  <2>2. \A x \in States : connects[x] <= sinceBoot'[x]
    BY <2>1 DEF FlowInv, ConnectInv
  <2>3. CarriesOwnState'
    BY <1>3, <1>4, <2>1 DEF FlowInv, ConnectInv, CarriesOwnState
  <2> QED BY <1>1, <1>2, <1>4, <2>2, <2>3 DEF FlowInv, ConnectInv
<1> QED BY <1>5, <1>6

LEMMA RestartInv ==
  ASSUME FlowInv, processRestarts
  PROVE  FlowInv'
<1>1. TokenInv' /\ StateInv'
  BY RestartTokenInv, StateStepInv DEF FlowInv, processRestarts
<1>2. ConnectInv'
  BY DEF ConnectInv, CarriesOwnState, processRestarts, Restart
<1> QED BY <1>1, <1>2 DEF FlowInv

LEMMA InitFlowInv == FlowInit => FlowInv
<1> SUFFICES ASSUME FlowInit PROVE FlowInv
  OBVIOUS
<1>1. TokenInv
  <2>1. renews \in [Tasks -> BOOLEAN] /\ fresh \in BOOLEAN
    BY DEF FlowInit, Init
  <2>2. TypeOK
    BY <2>1, AccountTokensAssumption DEF FlowInit, Init, TypeOK, NoGrant
  <2>3. HeldOK
    BY DEF FlowInit, Init, HeldOK
  <2> QED BY <2>2, <2>3 DEF TokenInv
<1>2. StateInv
  <2>1. StateTypeOK
    BY OAuthStateAssumption DEF FlowInit, StateInit, StateTypeOK
  <2>2. Remembered
    BY DEF FlowInit, StateInit, Remembered
  <2> QED BY <2>1, <2>2 DEF StateInv
<1>3. ConnectInv
  BY DEF FlowInit, Init, StateInit, ConnectInv, CarriesOwnState
<1> QED BY <1>1, <1>2, <1>3 DEF FlowInv

LEMMA NextFlowInv == FlowInv /\ [FlowNext]_flowVars => FlowInv'
<1> SUFFICES ASSUME FlowInv, [FlowNext]_flowVars PROVE FlowInv'
  OBVIOUS
<1>1. CASE UNCHANGED flowVars
  BY <1>1 DEF flowVars, vars, stateVars, row, locals, FlowInv, TokenInv, TypeOK, HeldOK,
     StateInv, StateTypeOK, Remembered, Forgettable, ConnectInv, CarriesOwnState
<1>2. CASE FlowNext
  BY <1>2, CallbackInv, ConnectStepInv, TaskStepInv, StateOnlyInv, RestartInv
     DEF FlowNext, authorize, callbackFails, callbackRefused
<1> QED BY <1>1, <1>2

\* Every state the connect flow reaches satisfies the invariant: the callback of
\* oauth.controller.ts with OAuthStateService and AccountTokenService.
THEOREM FlowInvariant == FlowSpec => []FlowInv
<1> QED BY InitFlowInv, NextFlowInv, PTL DEF FlowSpec

\* Type correctness of the account row, the state map and the callbacks.
THEOREM FlowTypeCorrect == FlowSpec => []FlowTypeOK
<1>1. FlowInv => FlowTypeOK
  BY DEF FlowInv, TokenInv, StateInv, ConnectInv, FlowTypeOK
<1> QED BY <1>1, FlowInvariant, PTL

\* A process accepts no state twice although it forgets the nonces of states
\* that are out of date, and k restarts let a state be accepted k + 1 times at
\* most, for any lifetime and any clock.
THEOREM StatesAreSingleUse == FlowSpec => []SingleUse
<1>1. FlowInv => SingleUse
  <2> SUFFICES ASSUME FlowInv, NEW s \in States
               PROVE  sinceBoot[s] <= 1 /\ uses[s] <= restarts + 1
    BY DEF SingleUse
  <2>1. sinceBoot[s] \in Nat /\ uses[s] \in Nat /\ restarts \in Nat
    BY OAuthStateAssumption DEF FlowInv, StateInv, StateTypeOK
  <2> QED BY <2>1 DEF FlowInv, StateInv, Remembered
<1> QED BY <1>1, FlowInvariant, PTL

\* However callbacks, refreshes, failures and restarts interleave, an upsert
\* goes back to a state this process redeemed, and to no other upsert's.
THEOREM ConnectsOncePerState == FlowSpec => []OneConnectPerState
<1>1. FlowInv => OneConnectPerState
  <2> SUFFICES ASSUME FlowInv PROVE OneConnectPerState
    OBVIOUS
  <2>1. \A s \in States : connects[s] <= sinceBoot[s] /\ connects[s] <= 1
    <3> SUFFICES ASSUME NEW s \in States PROVE connects[s] <= sinceBoot[s] /\ connects[s] <= 1
      OBVIOUS
    <3>1. sinceBoot[s] \in Nat /\ connects[s] \in Nat
      BY OAuthStateAssumption DEF FlowInv, StateInv, StateTypeOK, ConnectInv
    <3> QED BY <3>1 DEF FlowInv, ConnectInv, StateInv, Remembered
  <2> QED BY <2>1 DEF FlowInv, ConnectInv, CarriesOwnState, OneConnectPerState
<1> QED BY <1>1, FlowInvariant, PTL

\* No order of reconnects and refreshes loses the refresh token an account has.
THEOREM RefreshTokenSurvives == FlowSpec => RefreshTokenKept
<1>1. FlowInv /\ [FlowNext]_flowVars => [stored # NoGrant => stored' # NoGrant]_vars
  <2> SUFFICES ASSUME FlowInv, FlowNext, stored # NoGrant PROVE stored' # NoGrant
    BY DEF flowVars
  <2>1. ASSUME NEW k \in Tasks, Upsert(k) \/ PersistRefreshed(k) PROVE stored' # NoGrant
    BY <2>1 DEF FlowInv, TokenInv, HeldOK, Upsert, PersistRefreshed, StoredAfterConnect
  <2>2. CASE UNCHANGED stored
    BY <2>2
  <2> QED BY <2>1, <2>2 DEF FlowNext, authorize, callbackFails, callbackRefused, callback,
          connect, taskDies, TaskDies, processRestarts, tokenStep, GrantEnds, AccessTokenAges,
          Load, CallFails, CallAnswers, MarkReauthRequired, Exchange, vars, row
<1> QED BY <1>1, FlowInvariant, PTL DEF FlowSpec, RefreshTokenKept

\* Only a task whose own grant was rejected, or which found no refresh token,
\* disables the account: no outage, timeout or crash does.
THEOREM OutagesDoNotDisable == FlowSpec => OnlyRejectionDisables
<1>1. FlowInv /\ [FlowNext]_flowVars =>
        [status # "REAUTH_REQUIRED" /\ status' = "REAUTH_REQUIRED" =>
           \E k \in Tasks : /\ pc[k] = "mark"
                            /\ held[k] = NoGrant \/ held[k] \in rejected]_vars
  <2> SUFFICES ASSUME FlowInv, FlowNext, status # "REAUTH_REQUIRED",
                      status' = "REAUTH_REQUIRED"
               PROVE  \E k \in Tasks : /\ pc[k] = "mark"
                                       /\ held[k] = NoGrant \/ held[k] \in rejected
    BY DEF flowVars
  <2>1. \E k \in Tasks : MarkReauthRequired(k)
    BY DEF FlowNext, authorize, callbackFails, callbackRefused, callback,
          connect, Upsert, taskDies, TaskDies, processRestarts, tokenStep, GrantEnds,
          AccessTokenAges, Load, CallFails, CallAnswers, PersistRefreshed, Exchange, vars, row
  <2> QED BY <2>1 DEF MarkReauthRequired, FlowInv, TokenInv, HeldOK
<1> QED BY <1>1, FlowInvariant, PTL DEF FlowSpec, OnlyRejectionDisables
=============================================================================
