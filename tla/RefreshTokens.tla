---------------------------- MODULE RefreshTokens ----------------------------
(***************************************************************************)
(* The session core of user-management: login, refresh, logout, account    *)
(* deactivation and the sweep of expired rows, over the refresh_token      *)
(* table.  Every awaited database statement of AuthService and             *)
(* RefreshTokenService is one step, so the statements of concurrent        *)
(* requests interleave as they do under Prisma (no transaction spans two). *)
(*                                                                         *)
(* A raw token, its hash and its row id are one number: the position in    *)
(* the order of issue.  A family id (randomUUID) is the number of the      *)
(* family's first token.  NoToken stands for a raw value that was never    *)
(* issued, and for "no value" in a column.  The columns of a deleted row   *)
(* are kept, for the properties only: no action reads them.                *)
(***************************************************************************)
EXTENDS Integers

CONSTANTS Users,      \* e-mail addresses / user ids
          Requests,   \* concurrent requests being served
          MaxTokens,  \* bound: rows ever created
          TTL,        \* JWT_REFRESH_TOKEN_TTL_DAYS
          MaxClock,   \* bound: days that pass
          NoUser      \* an unset user id

ASSUME ConstantsAssumption == /\ MaxTokens \in Nat
                              /\ TTL \in Nat \ {0}
                              /\ MaxClock \in Nat
                              /\ NoUser \notin Users

Tokens  == 1..MaxTokens
NoToken == 0

VARIABLES
  account,     \* User: "none", "active" or "inactive"
  issued,      \* number of rows ever created
  rows,        \* rows in the refresh_token table
  owner,       \* userId
  family,      \* familyId
  expiresAt,
  revoked,     \* rows whose revokedAt is set
  replacedBy,  \* replacedById
  delivered,   \* raw values that left the server in a response
  clock,
  pc,          \* the statement each request runs next
  tok,         \* the raw token a request presented
  at,          \* the Date a refresh took before its first statement
  who,         \* the user a request loaded
  new          \* the token a request issued

table   == <<issued, rows, owner, family, expiresAt, revoked, replacedBy>>
request == <<pc, tok, at, who, new>>
vars    == <<account, table, delivered, clock, request>>

PCs == {"idle", "spend", "readSpent", "readExisting", "findUser", "issue",
        "link", "respond", "startFamily", "logoutFind", "revokeFamily"}

TypeOK ==
  /\ account \in [Users -> {"none", "active", "inactive"}]
  /\ issued \in 0..MaxTokens
  /\ rows \subseteq 1..issued
  /\ owner \in [Tokens -> Users \cup {NoUser}]
  /\ family \in [Tokens -> Tokens \cup {NoToken}]
  /\ expiresAt \in [Tokens -> Nat]
  /\ revoked \subseteq 1..issued
  /\ replacedBy \in [Tokens -> Tokens \cup {NoToken}]
  /\ delivered \subseteq 1..issued
  /\ clock \in 0..MaxClock
  /\ pc \in [Requests -> PCs]
  /\ tok \in [Requests -> Tokens \cup {NoToken}]
  /\ at \in [Requests -> 0..MaxClock]
  /\ who \in [Requests -> Users \cup {NoUser}]
  /\ new \in [Requests -> Tokens \cup {NoToken}]

Init ==
  /\ account = [u \in Users |-> "none"]
  /\ issued = 0
  /\ rows = {}
  /\ owner = [t \in Tokens |-> NoUser]
  /\ family = [t \in Tokens |-> NoToken]
  /\ expiresAt = [t \in Tokens |-> 0]
  /\ revoked = {}
  /\ replacedBy = [t \in Tokens |-> NoToken]
  /\ delivered = {}
  /\ clock = 0
  /\ pc = [r \in Requests |-> "idle"]
  /\ tok = [r \in Requests |-> NoToken]
  /\ at = [r \in Requests |-> 0]
  /\ who = [r \in Requests |-> NoUser]
  /\ new = [r \in Requests |-> NoToken]

-----------------------------------------------------------------------------
(* Statements *)

\* Faulty variants of the definitions below; each shows that a property can fail.
SpendableTwice(t, now) == /\ t \in rows
                          /\ expiresAt[t] > now

SpendableMissing(t, now) == /\ t \notin revoked
                            /\ t \in rows => expiresAt[t] > now

SweepableWhenRevoked(t) == \/ expiresAt[t] < clock
                           \/ t \in revoked

\* where: { tokenHash, revokedAt: null, expiresAt: { gt: now } }
Spendable(t, now) == /\ t \in rows
                     /\ t \notin revoked
                     /\ expiresAt[t] > now

\* where: { expiresAt: { lt: new Date() } }
Sweepable(t) == expiresAt[t] < clock

\* where: { familyId, revokedAt: null }
FamilyRows(f) == {t \in rows : family[t] = f}

\* prisma.refreshToken.create, for user u in family f, as row t = issued + 1.
CreateRow(u, f) ==
  LET t == issued + 1 IN
  /\ issued < MaxTokens
  /\ issued' = t
  /\ rows' = rows \cup {t}
  /\ owner' = [owner EXCEPT ![t] = u]
  /\ family' = [family EXCEPT ![t] = f]
  /\ expiresAt' = [expiresAt EXCEPT ![t] = clock + TTL]
  /\ UNCHANGED <<revoked, replacedBy>>

\* A raw value goes out: from here on anyone may present it, any number of times.
setRefreshCookie(t) == delivered' = delivered \cup {t}

\* What a request can present: a value some response carried (its cookie or
\* its body), or one that no row has.
readRefreshCookie == delivered \cup {NoToken}

Goto(r, label) == pc' = [pc EXCEPT ![r] = label]

\* The request is answered (or its connection is gone): its locals go away.
Finish(r) ==
  /\ Goto(r, "idle")
  /\ tok' = [tok EXCEPT ![r] = NoToken]
  /\ at' = [at EXCEPT ![r] = 0]
  /\ who' = [who EXCEPT ![r] = NoUser]
  /\ new' = [new EXCEPT ![r] = NoToken]

-----------------------------------------------------------------------------
(* Accounts *)

\* POST /auth/register.  A second registration of the address fails on the
\* unique index (409) and changes nothing.
Register(u) ==
  /\ account[u] = "none"
  /\ account' = [account EXCEPT ![u] = "active"]
  /\ UNCHANGED <<table, delivered, clock, request>>

\* External: no code sets isActive; an operator does, in the database.
Deactivate(u) ==
  /\ account[u] = "active"
  /\ account' = [account EXCEPT ![u] = "inactive"]
  /\ UNCHANGED <<table, delivered, clock, request>>

-----------------------------------------------------------------------------
(* POST /auth/login *)

\* findByEmail returned an active user and the password matched; every other
\* login is answered 401 and changes nothing.
LoginFind(r, u) ==
  /\ pc[r] = "idle"
  /\ account[u] = "active"
  /\ Goto(r, "startFamily")
  /\ who' = [who EXCEPT ![r] = u]
  /\ UNCHANGED <<account, table, delivered, clock, tok, at, new>>

\* A login that reuses the user's newest family instead of a fresh one.
StartFamilyInOldFamily(r) ==
  /\ pc[r] = "startFamily"
  /\ CreateRow(who[r], IF issued > 0 THEN family[issued] ELSE 1)
  /\ Goto(r, "respond")
  /\ new' = [new EXCEPT ![r] = issued + 1]
  /\ UNCHANGED <<account, delivered, clock, tok, at, who>>

StartFamily(r) ==
  /\ pc[r] = "startFamily"
  /\ CreateRow(who[r], issued + 1)
  /\ Goto(r, "respond")
  /\ new' = [new EXCEPT ![r] = issued + 1]
  /\ UNCHANGED <<account, delivered, clock, tok, at, who>>

-----------------------------------------------------------------------------
(* POST /auth/refresh *)

\* A request without a value is answered 401 and changes nothing.
RefreshArrives(r, t) ==
  /\ pc[r] = "idle"
  /\ t \in readRefreshCookie
  /\ Goto(r, "spend")
  /\ tok' = [tok EXCEPT ![r] = t]
  /\ at' = [at EXCEPT ![r] = clock]
  /\ UNCHANGED <<account, table, delivered, clock, who, new>>

\* updateMany: sets revokedAt and reports how many rows matched.
SpendUpdate(r) ==
  /\ pc[r] = "spend"
  /\ IF Spendable(tok[r], at[r])
       THEN revoked' = revoked \cup {tok[r]} /\ Goto(r, "readSpent")
       ELSE revoked' = revoked /\ Goto(r, "readExisting")
  /\ at' = [at EXCEPT ![r] = 0]
  /\ UNCHANGED <<account, issued, rows, owner, family, expiresAt, replacedBy,
                 delivered, clock, tok, who, new>>

\* count = 1: load the spent row; it is null when the sweep came in between.
ReadSpent(r) ==
  /\ pc[r] = "readSpent"
  /\ IF tok[r] \in rows
       THEN Goto(r, "findUser") /\ UNCHANGED <<tok, at, who, new>>
       ELSE Finish(r)
  /\ UNCHANGED <<account, table, delivered, clock>>

\* count = 0: a row that is there and revoked is a replay.
ReadExisting(r) ==
  /\ pc[r] = "readExisting"
  /\ IF tok[r] \in rows /\ tok[r] \in revoked
       THEN Goto(r, "revokeFamily") /\ UNCHANGED <<tok, at, who, new>>
       ELSE Finish(r)
  /\ UNCHANGED <<account, table, delivered, clock>>

\* revokeFamily, on the replay path, the inactive-user path and logout; the
\* family id was read with the row and never changes.
RevokeFamily(r) ==
  /\ pc[r] = "revokeFamily"
  /\ revoked' = revoked \cup FamilyRows(family[tok[r]])
  /\ Finish(r)
  /\ UNCHANGED <<account, issued, rows, owner, family, expiresAt, replacedBy,
                 delivered, clock>>

\* findById(spent.userId); rows are never orphaned, the user is there.
FindUser(r) ==
  /\ pc[r] = "findUser"
  /\ IF account[owner[tok[r]]] = "active"
       THEN Goto(r, "issue") /\ who' = [who EXCEPT ![r] = owner[tok[r]]]
       ELSE Goto(r, "revokeFamily") /\ UNCHANGED who
  /\ UNCHANGED <<account, table, delivered, clock, tok, at, new>>

\* Faulty variant: the replacement starts a family of its own.
IssueInNewFamily(r) ==
  /\ pc[r] = "issue"
  /\ CreateRow(who[r], issued + 1)
  /\ Goto(r, "link")
  /\ new' = [new EXCEPT ![r] = issued + 1]
  /\ UNCHANGED <<account, delivered, clock, tok, at, who>>

Issue(r) ==
  /\ pc[r] = "issue"
  /\ CreateRow(who[r], family[tok[r]])
  /\ Goto(r, "link")
  /\ new' = [new EXCEPT ![r] = issued + 1]
  /\ UNCHANGED <<account, delivered, clock, tok, at, who>>

\* prisma update by id: it throws when the spent row was swept meanwhile, and
\* the replacement is never sent.
LinkReplacement(r) ==
  /\ pc[r] = "link"
  /\ IF tok[r] \in rows
       THEN /\ replacedBy' = [replacedBy EXCEPT ![tok[r]] = new[r]]
            /\ Goto(r, "respond")
            /\ UNCHANGED <<tok, at, who, new>>
       ELSE UNCHANGED replacedBy /\ Finish(r)
  /\ UNCHANGED <<account, issued, rows, owner, family, expiresAt, revoked,
                 delivered, clock>>

\* buildSession, then the answer with the cookie.
Respond(r) ==
  /\ pc[r] = "respond"
  /\ setRefreshCookie(new[r])
  /\ Finish(r)
  /\ UNCHANGED <<account, table, clock>>

-----------------------------------------------------------------------------
(* POST /auth/logout *)

LogoutArrives(r, t) ==
  /\ pc[r] = "idle"
  /\ t \in readRefreshCookie
  /\ Goto(r, "logoutFind")
  /\ tok' = [tok EXCEPT ![r] = t]
  /\ UNCHANGED <<account, table, delivered, clock, at, who, new>>

LogoutFind(r) ==
  /\ pc[r] = "logoutFind"
  /\ IF tok[r] \in rows
       THEN Goto(r, "revokeFamily") /\ UNCHANGED <<tok, at, who, new>>
       ELSE Finish(r)
  /\ UNCHANGED <<account, table, delivered, clock>>

-----------------------------------------------------------------------------
(* Failure, time and the sweep *)

\* A statement fails, or the process stops: the request ends where it was,
\* with the effects of the statements it had run.
Fail(r) ==
  /\ pc[r] # "idle"
  /\ Finish(r)
  /\ UNCHANGED <<account, table, delivered, clock>>

Tick ==
  /\ clock < MaxClock
  /\ clock' = clock + 1
  /\ UNCHANGED <<account, table, delivered, request>>

\* RefreshTokenCleanupService.sweep; a failed deleteMany is logged and changes
\* nothing.
Sweep ==
  /\ rows' = {t \in rows : ~Sweepable(t)}
  /\ rows' # rows
  /\ UNCHANGED <<account, issued, owner, family, expiresAt, revoked, replacedBy,
                 delivered, clock, request>>

-----------------------------------------------------------------------------
Step(r) ==
  \/ \E u \in Users : LoginFind(r, u)
  \/ \E t \in Tokens \cup {NoToken} : RefreshArrives(r, t) \/ LogoutArrives(r, t)
  \/ StartFamily(r)
  \/ SpendUpdate(r)
  \/ ReadSpent(r)
  \/ ReadExisting(r)
  \/ RevokeFamily(r)
  \/ FindUser(r)
  \/ Issue(r)
  \/ LinkReplacement(r)
  \/ Respond(r)
  \/ LogoutFind(r)
  \/ Fail(r)

Next ==
  \/ \E u \in Users : Register(u) \/ Deactivate(u)
  \/ \E r \in Requests : Step(r)
  \/ Tick
  \/ Sweep

Spec == Init /\ [][Next]_vars

-----------------------------------------------------------------------------
(* Properties *)

\* Rows that can still be spent once their time allows it.
Live == rows \ revoked

\* The request has spent its token and has not issued the replacement yet.
Rotating(r) == pc[r] \in {"readSpent", "findUser", "issue"}

\* However requests interleave, fail or replay tokens, a family has at most one
\* unrevoked token, or one request between spend and issue, and never both: a
\* session cannot fork into two that live on independently.
SingleHolder ==
  /\ \A s, t \in Live : family[s] = family[t] => s = t
  /\ \A t \in Live : \A r \in Requests :
        Rotating(r) => family[tok[r]] # family[t]
  /\ \A q, r \in Requests :
        Rotating(q) /\ Rotating(r) /\ family[tok[q]] = family[tok[r]] => q = r

\* replacedById, written two statements after the spend, records the rotation
\* that happened: it links a revoked row to one issued later, of the same
\* family and user, and no two rows have the same replacement.
LinksFormChain ==
  \A t \in 1..issued : replacedBy[t] # NoToken =>
     /\ t \in revoked
     /\ replacedBy[t] \in (t + 1)..issued
     /\ family[replacedBy[t]] = family[t]
     /\ owner[replacedBy[t]] = owner[t]
     /\ \A s \in 1..issued : replacedBy[s] = replacedBy[t] => s = t

\* The sweep never removes what replay detection needs: as long as a token has
\* not expired its row is there, revoked or not, so presenting it again is
\* recognised as a replay.
ReplayEvidenceKept ==
  \A t \in 1..issued : expiresAt[t] >= clock => t \in rows

FamilyDead(f) == /\ \A t \in Live : family[t] # f
                 /\ \A r \in Requests : Rotating(r) => family[tok[r]] # f

\* A family with no unrevoked token and no rotation under way stays so: no
\* login, late statement, replay or sweep brings a session back.
DeadStaysDead ==
  [][\A f \in 1..issued : FamilyDead(f) => FamilyDead(f)']_vars

\* The family's capability, as the abstract specification sees it.
Holder(f) ==
  CASE f \notin 1..issued \/ (f \in 1..issued /\ family[f] # f) -> <<"unborn">>
    [] f \in 1..issued /\ family[f] = f /\ (\E t \in Live : family[t] = f) ->
         <<"token", CHOOSE t \in Live : family[t] = f>>
    [] f \in 1..issued /\ family[f] = f /\ (\A t \in Live : family[t] # f)
         /\ (\E r \in Requests : Rotating(r) /\ family[tok[r]] = f) ->
         <<"request", CHOOSE r \in Requests : Rotating(r) /\ family[tok[r]] = f>>
    [] OTHER -> <<"dead">>

Session == INSTANCE SessionFamily
  WITH Families <- Tokens, Tokens <- Tokens, Requests <- Requests,
       holder <- [f \in Tokens |-> Holder(f)], used <- 1..issued

\* The rotation implements the linear capability of SessionFamily: one holder,
\* handed only to tokens never used before, and gone for good once it is gone.
ImplementsSession == Session!SSpec
=============================================================================
