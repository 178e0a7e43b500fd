----------------------------- MODULE OAuthState -----------------------------
(***************************************************************************)
(* The single-use state of the OAuth flow: OAuthStateService.issue and     *)
(* verify, called by the authorize and callback endpoints.  A state is a   *)
(* signed nonce with an expiry second, numbered in the order of issue; one *)
(* that is malformed or badly signed is refused before anything is read or *)
(* written.  verify runs without an await and is one step.  The redeemed   *)
(* nonces are a Map of the process, so a restart forgets them, while the   *)
(* secret comes from the environment and stays.  ConnectFlow composes this *)
(* with the account the callback connects.                                 *)
(***************************************************************************)
EXTENDS Integers

CONSTANTS MaxStates,    \* bound: states issued
          TTL,          \* STATE_TTL_SECONDS
          MaxClock,     \* bound: seconds that pass
          MaxRestarts,  \* bound: restarts of the process
          MaxUses       \* bound: callbacks accepted per state

ASSUME OAuthStateAssumption ==
  /\ MaxStates \in Nat /\ TTL \in Nat /\ MaxClock \in Nat
  /\ MaxRestarts \in Nat /\ MaxUses \in Nat

States == 1..MaxStates

VARIABLES clock,
          issued,    \* number of states issued
          exp,       \* claims.exp
          redeemed,  \* nonces held in the Map
          restarts,
          uses,      \* history: how often each state was accepted
          sinceBoot  \* history: ... since the process started

stateVars == <<clock, issued, exp, redeemed, restarts, uses, sinceBoot>>

StateTypeOK ==
  /\ clock \in 0..MaxClock
  /\ issued \in 0..MaxStates
  /\ exp \in [States -> Nat]
  /\ redeemed \subseteq 1..issued
  /\ restarts \in 0..MaxRestarts
  /\ uses \in [States -> 0..MaxUses]
  /\ sinceBoot \in [States -> 0..MaxUses]

StateInit ==
  /\ clock = 0 /\ issued = 0 /\ restarts = 0 /\ redeemed = {}
  /\ exp = [s \in States |-> 0]
  /\ uses = [s \in States |-> 0]
  /\ sinceBoot = [s \in States |-> 0]

\* GET authorize.  The claims also carry the user the state is for; the
\* signature covers them all.
Issue ==
  /\ issued < MaxStates
  /\ issued' = issued + 1
  /\ exp' = [exp EXCEPT ![issued + 1] = clock + TTL]
  /\ UNCHANGED <<clock, redeemed, restarts, uses, sinceBoot>>

\* Faulty variant: off by one second.
ForgettableAtExpiry(s) == exp[s] <= clock

\* exp < now: the state is refused from the next second on, and only then may
\* its nonce be dropped.
Forgettable(s) == exp[s] < clock

Acceptable(s) == exp[s] >= clock

\* What forget(now) leaves in the Map.
Kept == {s \in redeemed : ~Forgettable(s)}

\* Faulty variant: the claims are read and the signature is not compared.
VerifyAcceptsUnsigned(s) ==
  /\ Acceptable(s)
  /\ s \notin Kept
  /\ uses[s] < MaxUses
  /\ redeemed' = Kept \cup {s}
  /\ uses' = [uses EXCEPT ![s] = @ + 1]
  /\ sinceBoot' = [sinceBoot EXCEPT ![s] = @ + 1]
  /\ UNCHANGED <<clock, issued, exp, restarts>>

\* verify.  The signature has to be that of an issued state; it is refused when
\* it is out of date (nothing changes) or was redeemed (the Map is cleaned all
\* the same).
VerifyAccepts(s) ==
  /\ s \in 1..issued
  /\ Acceptable(s)
  /\ s \notin Kept
  /\ uses[s] < MaxUses
  /\ redeemed' = Kept \cup {s}
  /\ uses' = [uses EXCEPT ![s] = @ + 1]
  /\ sinceBoot' = [sinceBoot EXCEPT ![s] = @ + 1]
  /\ UNCHANGED <<clock, issued, exp, restarts>>

VerifyRefuses(s) ==
  /\ s \in 1..issued
  /\ Acceptable(s)
  /\ s \in Kept
  /\ redeemed' = Kept
  /\ UNCHANGED <<clock, issued, exp, restarts, uses, sinceBoot>>

Restart ==
  /\ restarts < MaxRestarts
  /\ restarts' = restarts + 1
  /\ redeemed' = {}
  /\ sinceBoot' = [s \in States |-> 0]
  /\ UNCHANGED <<clock, issued, exp, uses>>

Tick ==
  /\ clock < MaxClock
  /\ clock' = clock + 1
  /\ UNCHANGED <<issued, exp, redeemed, restarts, uses, sinceBoot>>

-----------------------------------------------------------------------------
(* Properties *)

\* "Single use." (oauth-state.service.ts:87), as far as it goes: while the
\* process lives no state is accepted twice, although nonces are dropped as
\* time passes; over its whole life a state is accepted once per process.
SingleUse == \A s \in States : /\ sinceBoot[s] <= 1
                               /\ uses[s] <= restarts + 1
=============================================================================
