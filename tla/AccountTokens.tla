---------------------------- MODULE AccountTokens ----------------------------
(***************************************************************************)
(* The OAuth grant of one mail account: AccountTokenService (getConnection *)
(* and its refresh), AccountsService.connect and the callback that leads   *)
(* to it.  Tasks are the sync jobs, previews and callbacks that work on    *)
(* the account at the same time; each awaited call is one step.            *)
(*                                                                         *)
(* A grant is what one consent of the user produced, numbered in order; it *)
(* stands for the refresh token and for the access tokens obtained with    *)
(* it.  Time is reduced to whether the stored access token still has more  *)
(* than REFRESH_SKEW_MS to live.                                           *)
(***************************************************************************)
EXTENDS Integers

CONSTANTS Tasks,
          MaxGrants,     \* bound: consents given
          MaxOutages     \* bound: provider calls that fail transiently, crashes

ASSUME AccountTokensAssumption == MaxGrants \in Nat /\ MaxOutages \in Nat

Grants  == 1..MaxGrants
NoGrant == 0

VARIABLES
  granted,     \* external: consents given so far
  rejected,    \* external: grants the provider no longer honours
  status,      \* MailAccount.status, or "NONE" before the first connect
  stored,      \* the grant of refreshTokenEnc
  access,      \* the grant of accessTokenEnc
  fresh,       \* accessTokenExpires is more than the skew away
  pc,
  held,        \* the grant a task read from the row, or got from the exchange
  renews,      \* the exchange also returned a refresh token
  outages

row    == <<status, stored, access, fresh>>
locals == <<pc, held, renews>>
vars   == <<granted, rejected, row, locals, outages>>

TypeOK ==
  /\ granted \in 0..MaxGrants
  /\ rejected \subseteq 1..granted
  /\ status \in {"NONE", "ACTIVE", "REAUTH_REQUIRED"}
  /\ stored \in 0..granted
  /\ access \in 0..granted
  /\ fresh \in BOOLEAN
  /\ pc \in [Tasks -> {"idle", "call", "mark", "persist", "upsert"}]
  /\ held \in [Tasks -> 0..granted]
  /\ renews \in [Tasks -> BOOLEAN]
  /\ outages \in 0..MaxOutages

Init ==
  /\ granted = 0 /\ rejected = {}
  /\ status = "NONE" /\ stored = NoGrant /\ access = NoGrant /\ fresh = FALSE
  /\ pc = [k \in Tasks |-> "idle"]
  /\ held = [k \in Tasks |-> NoGrant]
  /\ renews = [k \in Tasks |-> FALSE]
  /\ outages = 0

Goto(k, label) == pc' = [pc EXCEPT ![k] = label]

\* The task returns or throws.
Finish(k) == /\ Goto(k, "idle")
             /\ held' = [held EXCEPT ![k] = NoGrant]
             /\ renews' = [renews EXCEPT ![k] = FALSE]

-----------------------------------------------------------------------------
(* External: the provider and time *)

\* The user withdraws access, changes the password, or the token expires.
GrantEnds(g) ==
  /\ g \in (1..granted) \ rejected
  /\ rejected' = rejected \cup {g}
  /\ UNCHANGED <<granted, row, locals, outages>>

AccessTokenAges ==
  /\ fresh
  /\ fresh' = FALSE
  /\ UNCHANGED <<granted, rejected, status, stored, access, locals, outages>>

-----------------------------------------------------------------------------
(* Connecting *)

\* exchangeCode: the tokens of a new grant, with a refresh token or without.
exchangeCode(k, renewed) ==
  /\ held' = [held EXCEPT ![k] = granted + 1]
  /\ renews' = [renews EXCEPT ![k] = renewed]

\* The callback exchanges the code.  A provider may leave the refresh token
\* out; a consent without every required scope (403) and an identity that
\* cannot be read (502) end here, before the upsert.
Exchange(k, full, renewed) ==
  /\ pc[k] = "idle"
  /\ granted < MaxGrants
  /\ granted' = granted + 1
  /\ IF full
       THEN /\ Goto(k, "upsert")
            /\ exchangeCode(k, renewed)
       ELSE UNCHANGED locals
  /\ UNCHANGED <<rejected, row, outages>>

\* Faulty variant: a connect without a refresh token clears the stored one.
StoredAfterConnectCleared(k) == IF renews[k] THEN held[k] ELSE NoGrant

\* Only overwritten when the provider issued a new one.
StoredAfterConnect(k) == IF renews[k] THEN held[k] ELSE stored

\* The upsert of the account row.
Upsert(k) ==
  /\ pc[k] = "upsert"
  /\ status' = "ACTIVE"
  /\ stored' = StoredAfterConnect(k)
  /\ access' = held[k]
  /\ fresh' = TRUE
  /\ Finish(k)
  /\ UNCHANGED <<granted, rejected, outages>>

-----------------------------------------------------------------------------
(* getConnection *)

\* A job or a preview loads the row (a job only when it is ACTIVE).  An access
\* token that is still fresh is used as it is, which changes nothing.
Load(k) ==
  /\ pc[k] = "idle"
  /\ status # "NONE"
  /\ ~fresh
  /\ held' = [held EXCEPT ![k] = stored]
  /\ Goto(k, IF stored = NoGrant THEN "mark" ELSE "call")
  /\ UNCHANGED <<granted, rejected, row, renews, outages>>

\* Faulty variant: every error of the provider disables the account.
CallFailsDisabling(k) ==
  /\ pc[k] = "call"
  /\ outages < MaxOutages /\ outages' = outages + 1
  /\ Goto(k, "mark")
  /\ UNCHANGED <<granted, rejected, row, held, renews>>

\* refreshAccessToken: a 5xx, a timeout; rethrown, the row stays as it is.
CallFails(k) ==
  /\ pc[k] = "call"
  /\ outages < MaxOutages /\ outages' = outages + 1
  /\ Finish(k)
  /\ UNCHANGED <<granted, rejected, row>>

\* The token endpoint answers invalid_grant (Zoho also: invalid_code).
InvalidGrant(k) == held[k] \in rejected

\* refreshAccessToken: new tokens, or ProviderAuthRevokedError.
CallAnswers(k) ==
  /\ pc[k] = "call"
  /\ Goto(k, IF InvalidGrant(k) THEN "mark" ELSE "persist")
  /\ UNCHANGED <<granted, rejected, row, held, renews, outages>>

\* The update with the new access token.  The provider may have issued a new
\* refresh token of the same grant with it; otherwise the stored one stays.
PersistRefreshed(k) ==
  /\ pc[k] = "persist"
  /\ status' = "ACTIVE"
  /\ stored' \in {stored, held[k]}
  /\ access' = held[k]
  /\ fresh' = TRUE
  /\ Finish(k)
  /\ UNCHANGED <<granted, rejected, outages>>

\* Faulty variant: the reason is recorded, the status is forgotten.
MarkReasonOnly(k) ==
  /\ pc[k] = "mark"
  /\ Finish(k)
  /\ UNCHANGED <<granted, rejected, row, outages>>

MarkReauthRequired(k) ==
  /\ pc[k] = "mark"
  /\ status' = "REAUTH_REQUIRED"
  /\ Finish(k)
  /\ UNCHANGED <<granted, rejected, stored, access, fresh, outages>>

\* A statement fails or the process stops.
TaskDies(k) ==
  /\ pc[k] # "idle"
  /\ outages < MaxOutages /\ outages' = outages + 1
  /\ Finish(k)
  /\ UNCHANGED <<granted, rejected, row>>

-----------------------------------------------------------------------------
\* Steps a started task takes by itself.
Continue(k) == \/ CallAnswers(k) \/ PersistRefreshed(k) \/ MarkReauthRequired(k)
               \/ Upsert(k)

Next ==
  \/ \E g \in Grants : GrantEnds(g)
  \/ AccessTokenAges
  \/ \E k \in Tasks :
       \/ \E full, renewed \in BOOLEAN : Exchange(k, full, renewed)
       \/ Load(k) \/ CallFails(k) \/ TaskDies(k) \/ Continue(k)

\* Access tokens expire, started tasks go on, and the scheduler has every
\* ACTIVE account loaded again and again.
Fairness ==
  /\ WF_vars(AccessTokenAges)
  /\ \A k \in Tasks : WF_vars(Continue(k)) /\ WF_vars(Load(k) /\ status = "ACTIVE")

Spec == Init /\ [][Next]_vars /\ Fairness

-----------------------------------------------------------------------------
(* Properties *)

\* An account is disabled only by a task whose own grant the provider has
\* rejected, or which found no refresh token: an outage never disables it.
OnlyRejectionDisables ==
  [][status # "REAUTH_REQUIRED" /\ status' = "REAUTH_REQUIRED" =>
       \E k \in Tasks : /\ pc[k] = "mark"
                        /\ held[k] = NoGrant \/ held[k] \in rejected]_vars

\* A stored refresh token is replaced, never lost: no reconnect or refresh, in
\* any order, leaves an account that had one without.
RefreshTokenKept == [][stored # NoGrant => stored' # NoGrant]_vars

\* When the stored grant is rejected the account does not stay ACTIVE forever:
\* it is marked, or reconnected with another grant.
RevocationNoticed ==
  (status = "ACTIVE" /\ stored \in rejected) ~>
     (status = "REAUTH_REQUIRED" \/ stored \notin rejected)

\* "Only a grant the provider says is gone disables the account."
\* (account-token.service.ts:64): when a task whose refresh token the provider
\* rejected marks the account, the refresh token the account has is a rejected
\* one.  The tasks that found none stored are not spoken of.
DisabledMeansRejected ==
  [][\A k \in Tasks :
       MarkReauthRequired(k) /\ held[k] # NoGrant => stored \in rejected]_vars
=============================================================================
