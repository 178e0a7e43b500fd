# A TLA+ verification project for Finlytic

Finlytic ingests financial mail. A gateway is the only ingress; behind it run
`user-management` (accounts, sessions) and `email-ingestion` (mail accounts,
synchronisation, reading); a React application is the client. This directory
models the parts that keep state while several actors work on it, checks them
with TLC on small instances, and proves the central results with TLAPS for every
size.

Run from this directory: `tlc -config <cfg> <module>` for a run of the table
below, `tlapm <module>` for the proofs. `PROJECT.json` lists components, runs,
the definition-to-source map, hazards, findings and theorems.

## 1. Inventory

| Component | State it keeps | Operations | Talks to | What makes it correct |
|---|---|---|---|---|
| Refresh tokens (`user-management/src/auth`) | `RefreshToken` rows: owner, family, expiry, revoked, replacement | register, login, refresh (spend, read, find user, issue, link, answer), logout, hourly sweep | browser (cookie), Postgres | a session never forks, ends for good, replays are recognised |
| Access tokens (`token.service.ts`, `gateway/src/jwt.ts`, `packages/auth-lib`) | none (signed, 15 minutes) | issue, verify | all services | gateway and guard accept the same tokens |
| OAuth state (`oauth-state.service.ts`) | Map of redeemed nonces, in process | issue, verify, forget | authorize and callback endpoints | accepted once; a state connects at most one account |
| Account connection and provider tokens (`accounts/*`) | `MailAccount`: status, encrypted tokens, expiry | connect, getConnection, refresh, markReauthRequired, requestSync, preview | Google, Zoho, Postgres | only a lost grant disables an account; refresh tokens are not lost |
| Sync queue (`queue/*`, `sync-scheduler.service.ts`) | one BullMQ job per account, in Redis | enqueue (four calls), poll, pick, retry, back off | scheduler, API, worker | every ACTIVE account keeps being synchronised |
| Mail sync (`sync/mail-sync.service.ts`, `messages/message-ingestion.service.ts`) | `syncCursor`, `Message` rows, objects in S3/MinIO | initial and incremental sync, ingest | provider adapters, Postgres, object store | the cursor passes nothing that is not stored; rows name objects that exist |
| Provider adapters (`gmail.provider.ts`, `zoho.provider.ts`) | none | profile, list, changes, fetch, token calls | Gmail, Zoho | cursor and page semantics the sync relies on |
| Live events (`sync-events.service.ts`, `accounts.controller.ts`, `useSyncEvents.ts`, `sse.ts`) | listeners, heartbeats, per-tab buffer, abort flag, timer | subscribe, publish, close; read, reconnect, clean up | queue events, browser | no event lost or misdirected; the hook does not outlive a sign-out |
| Web client session (`api/client.ts`, `AuthProvider.tsx`) | access token, in-flight refresh, auth state | apiFetch with one retry, refresh, login, logout | gateway | an honest browser is not taken for a thief; a sign-out ends the session |
| Rate limiter (`gateway/src/rate-limit.ts`) | Map of windows per client and rule | check, prune | request handler | bounded bursts; pruning is invisible |
| Request handling (`server.ts`, `proxy.ts`, `static.ts`) | per request: head sent, response, upstream request, timer | handle, proxy, serve a file | clients, services | everyone is answered; no order of callbacks ends the process |
| Message reading (`messages.service.ts`, `messages.controller.ts`, `web/src/messages/*`) | the pages and details the web application caches | list by cursor, load more, refetch, read, download the original | Postgres, object store, sync events | pages neither skip nor repeat; a saved file is whole |
| Token encryption, UI, logging, health, configuration | none, or constant after start | | | |

Hard behaviour: statements of concurrent requests interleave, because nothing
runs in a database transaction; values read before an `await` are used after it
(cursor, refresh token, job state, set of owned accounts); calls fail and
processes stop between two writes; streams deliver their callbacks in any order;
timeouts race answers; cursors, caps and windows have boundaries. The hazards in
`PROJECT.json` give each at its line with the properties that watch it.

## 2. Modules

| Module | Models | Step = |
|---|---|---|
| `SessionFamily` | abstract: a session is one capability with one holder, handed only to fresh tokens, gone for good once gone | |
| `RefreshTokens` | rotation, login, logout, sweep; implements `SessionFamily` | one database statement |
| `FamilyRevocation` | `RefreshTokens` plus the history of replay detections | same |
| `RefreshTokensProofs` | theorems about `RefreshTokens`, its refinement of `SessionFamily` included | |
| `MailSync` | `syncAccount` down to the object store, both adapters, the mailbox (external) | one awaited call |
| `AccountTokens` | one account row, its grants, jobs, previews and callbacks | one awaited call |
| `OAuthState` | issue, verify, restart | one call (no await inside) |
| `ConnectFlow` | composes `OAuthState` and `AccountTokens`: authorize, callback, connect, jobs, restart | same |
| `SyncQueue` | enqueueing, polling, BullMQ as it is used (external) | one Redis call |
| `RateLimiter` | check, prune, the clock | one call |
| `MailSyncProofs`, `ConnectFlowProofs`, `SyncQueueProofs`, `WebSessionProofs` | theorems about the modules they are named after | |
| `GatewayProofs` | theorems about `Gateway` and `RateLimiter` | |
| `WebReadingProofs` | theorems about `SyncEvents` and `MessageReading` | |
| `SequenceLemmas` | induction over numbers, the concatenation of a sequence of sequences | |
| `Gateway` | handler, `serveStatic`, `proxy`; Node's streams (external) | one callback |
| `SyncEvents` | endpoint, wire, hook, `apiFetch`, the tab's access token and shared refresh, the cookie | one callback or awaited call |
| `WebSession` | tabs, cookie jar, `client.ts`, `AuthProvider`, the three session endpoints | one request sent, served or answered |
| `MessageReading` | list, detail and download, server and web application | one request served or answered |
| `MC*` | values of the constants for TLC, symmetry; `MCGateway` also puts `Gateway` and `RateLimiter` side by side | |

Correspondence worth knowing:

- `RefreshTokens`: a token number stands for the row, its raw value and its hash.
  A family is named by its first token. `pc[r]` is the statement a request is
  about to run; its local variables are `tok`, `who`, `new`, `at`. Rows keep
  their attributes after the sweep has removed them from `rows`, which gives the
  properties something to speak about. `Fail` ends a request anywhere.
- `MailSync`: messages are numbered in the order of arrival. Gmail's cursor is
  the number of the newest message, Zoho's the received time, which messages may
  share. `base` is the history of baselines: an initial sync takes only the
  newest `INITIAL_BATCH` messages by design, and `NoGap` speaks of the others.
  Workers are concurrent runs for one account: BullMQ starts a stalled job again.
  In the code Zoho's page and `MAX_IDS_PER_RUN` are both 200, so Zoho's loop never
  turns; the Zoho run keeps them equal.
- `AccountTokens`: a grant is one consent; it stands for its refresh token and
  the access tokens obtained with it.
- `ConnectFlow`: a callback verifies the state, exchanges the code and upserts the
  account; `via[k]` is the state a task's connect goes back to. A restart takes
  the redeemed nonces and all running tasks, and leaves the account row.
- `RateLimiter`: `startAll`/`countAll` are a limiter that is never pruned and
  `passed` the log of the times at which requests went through; both are history.
- `Gateway`: the first `writeHead` sets `head`; a second one throws. So does the
  URL parser over a request target it rejects, in the handler (`server.ts:45`) or
  in `proxy` (`proxy.ts:58`). An uncaught exception or unhandled rejection ends
  the process (`main.ts:11`), so `alive` becomes FALSE; `badTarget` is the history
  of the second cause. Docker starts a new process, with nothing of the old one;
  the model ends there.
  `Arrive` takes either answer of the limiter at any time and the limiter takes
  any sequence of requests, so each is checked against more than the other can
  do; they share no variable, and a behaviour of `MCGateway` moves one of them.
- `WebSession`: the server is what `RefreshTokens` is shown to implement: a family
  is held by one live token or by one request between spend and issue, and its
  steps are steps of `SessionFamily` (`ServerIsTheRotation`, proved). A slot is
  a request with its page (`tab`), its server side (`st`) and its reply (`ok`,
  `cookie`). A page that is reloaded stops waiting, and the server goes on. The
  gateway's own 429, 502 and 504 are answers without a cookie, for requests that
  never reached the server or that it is still at. A fetch that rejects runs no
  code but the reset of the flags: on the first load the tab then stays at
  "Restoring session…". A sign-out whose answer is not 204 shows the login form
  all the same, as the code does; the cookie stays. `FailsAfterIssue` is the 500
  after the new row exists (`linkReplacement` or `issueAccessToken` throws): a live
  token nobody has, and the spent cookie still in the jar, so that the next refresh
  of the page is taken for a replay. `NoFalseTheft` excuses the family, as it does
  for a lost reply.
  `excused`, `severed` and `signedOut` are history.
- `MessageReading`: the query library is external: a refetch reads as many pages as
  there were, each from the cursor of the one before, and replaces the list at
  the end; a new fetch cancels a running one. `Asked` has a limit below 1 and no
  limit, so pages have different sizes. `Ordered` is the database's `ORDER BY`, by
  rank: the row at position i has i - 1 rows before it. `seen` is history: the
  rows there were when the first page on screen was read.
- `SyncEvents`: text is a sequence of symbols (an account id is one, and none of
  the four of the format) and a chunk may end after any of them. The endpoint
  writes line feeds only, so the alphabet has no carriage return: `parseFrame`
  would drop one at the end of a line, `splitFrames` looks for two line feeds. An
  effect is one run of the hook's `useEffect`, of the user who signs in then
  (`User[e]`). A request carries the module's access token (`token`), so a
  connection has a `bearer`, and the endpoint sends what belongs to that user.
  `refreshSession` sets the token to the user of the cookie it was sent with
  (`refreshInFlight`), and another tab may change the cookie (`OtherTab`), so the
  bearer need not be the user on screen. `mixed` is the history of the effects
  during which the browser held another user's cookie, or began with a refresh of
  another user in flight. A connection that closes while its accounts are looked
  up keeps its listener and its heartbeat (state `"leaked"`): the close handler is
  registered after the lookup.

Every module with a passing run also holds faulty variants of some definitions
("Faulty variant" in the comment). They are used by no specification; each is a
plausible bug, and putting it in the place of the definition it varies violates
the property listed with it under `mutants`.

## 3. Runs

| Run | Bounds | Shows |
|---|---|---|
| `refresh_tokens` | 2 requests, 3 tokens, 1 user, TTL 1, clock 2 | types; no fork (`SingleHolder`); replacement chain; replay evidence kept; ended sessions stay ended; implements `SessionFamily` |
| `family_revocation` | 2 requests, 2 tokens | **violated**: a severed family gets a live token (finding 1) |
| `mail_sync_zoho` | 2 runs, 2 messages, 1 fault, 1 removal, 2 months | no gap but for baselines, rows have their objects, rows are final |
| `mail_sync_gmail` | 1 run, 3 messages, pages of 1, 2 faults, 1 removal | no gap but for baselines; mail that arrives after one is stored eventually |
| `mail_sync_cap` | 1 run, 3 messages, cap 2 | **violated**: the cap opens a gap (finding 2) |
| `connect_flow` | 2 tasks, 2 grants, 1 outage, 2 states, TTL 1, clock 2, 1 restart | a state is redeemed and connects once per process; outages disable nothing; refresh token kept; revocation noticed |
| `account_tokens_stale` | 2 tasks, 2 grants | **violated**: a stale rejection disables a reconnected account (finding 3) |
| `sync_queue` | 2 accounts, scheduler and 1 request, 2 attempts, 1 crash or status change | accounts keep syncing; an accepted sync is queued or has run |
| `gateway` | 2 concurrent requests; limiter: 1 client, 3 kinds of request, window of 3, "second" of 2, clock 6 | only a rejected request target ends the process; everyone answered while it runs; cut bodies not ended; upstream released; pruning invisible; burst at most twice the limit; Retry-After exact |
| `sync_events` | 2 effects (two users), 2 connections, 1 event, 1 heartbeat, 1 step of another tab or query | frames survive chunking; accounts of the token's user only, and of the signed-in user unless another's cookie was taken up; cleanup stops the effect and frees its listeners, leaked ones excepted |
| `web_session` | 2 tabs, 2 requests in flight, 3 tokens, 2 reloads or failures | theft is suspected only after two pages at once, a lost reply or a failure behind the new token; a sign-out that no refresh crossed ends the session |
| `message_reading` | 4 messages in two pairs of one second, every set of them there at the start, pages of 1 or 2; 1 message opened and downloaded | pages exact; saved files whole |

Why the bounds are enough: each property is about a pair of actors or of
objects (two requests and a family, two runs and a message, two callbacks of a
request, a window and its neighbour), and every bound admits the pair, one thing
more, and a failure between any two steps. Three tokens give a login, a rotation
and a second login or rotation. The limiter's clock passes two full windows, and
a window is no multiple of the "second", so rounding shows. Two connections are
a reconnection, a retry after 401, or two users, and one step from outside is
another tab's sign-in or a refresh that the hook shares with a query. Two requests in flight are two
tabs refreshing at once, a refresh and a sign-out, or a page and the request its
reload left behind. Four messages are three pages, with the cursor's row and its
neighbour sharing a second; messages, pages and downloads do not depend on each
other, so one opened message is enough. Symmetry is declared only in
runs without liveness properties. `CHECK_DEADLOCK FALSE` is set where the bounds
or the system let everything come to rest (the configuration says which).

### Fairness

- `MailSync`: weak fairness of each run's steps. The scheduler enqueues every
  ACTIVE account every five minutes, BullMQ retries, every awaited call returns or
  throws. Failures are bounded, success is not assumed otherwise.
- `ConnectFlow` (`AccountTokens`): access tokens age; started tasks go on; the scheduler has an
  ACTIVE account loaded again and again.
- `SyncQueue`: the cron fires, its loop and started calls go on, the worker takes
  waiting jobs, runs end, backoff ends. Nothing is assumed of the success of a
  run or of the removal of failed jobs.
- `Gateway`: the event loop makes the callbacks it owes, and the 30 s timer
  fires for an upstream that has not answered. Nothing is assumed of an upstream
  that streams, nor of the client. A process that has ended owes nothing.
- `SyncEvents`: aborted requests reject, settled promises call back, the refresh
  succeeds or fails (the gateway bounds it), Node emits `close` for a response whose
  connection is gone. Nothing else is assumed of server, network or user.
- `WebSession` and `MessageReading` state safety only and assume no fairness.

## 4. Findings

1. **A replay during a rotation does not end the session.** `spend` and `issue`
   are separate statements (`auth.service.ts:105`, `:118`). When a replay of the
   spent token is detected between them, `revokeFamily` has nothing left to
   revoke, and `issue` then creates a live token in the family.
   `refresh-token.service.ts:59`: "Replaying an already-spent token revokes its
   entire family." The session still cannot fork (`SingleHolder` is proved); it
   survives a detected replay.
2. **More than `MAX_IDS_PER_RUN` changes lose mail.** The loop of
   `incrementalSync` (`mail-sync.service.ts:147`) stops with pages left, while
   every Gmail history page carries the newest `historyId`; that cursor is written
   and the remaining pages are never listed again. The interface calls it the
   "New cursor to persist once this page set is ingested."
3. **A stale rejection disables a reconnected account.** `markReauthRequired`
   updates by id whatever the row holds by then (`account-token.service.ts:70`). In
   the trace the provider rejects the refresh token of the first grant, a reconnect
   stores the second grant, and the task that was rejected then sets the new
   connection to `REAUTH_REQUIRED`. The other branch, a task that found no refresh
   token stored (line 49), is left out of the property. Line 64: "Only a grant the
   provider says is gone disables the account."

## 5. Proofs

Eight modules hold the proofs. Each rests on the named `ASSUME` of the module it
is about, which says no more than the types of the constants, that the null
values are no members of the sets they stand beside, that an account id is none
of the symbols of the event format, and that the messages there can be are
finitely many; TLC evaluates it in the runs. `NoGap` alone has a further
hypothesis, stated in its theorem. Every inductive invariant was an invariant of
a TLC run before it was proved. A proof
is one lemma per action, or per group of actions that change the same things,
an initial-state lemma, a next-state lemma, and `PTL` at the end.

| Module | Theorem | States |
|---|---|---|
| `RefreshTokensProofs` | `TypeCorrect` | `Spec => []TypeOK` |
| | `SessionNeverForks` | `Spec => []SingleHolder` |
| | `EndedSessionsStayEnded` | `Spec => DeadStaysDead` |
| | `EvidenceOutlivesToken` | `Spec => []ReplayEvidenceKept` |
| | `ReplacementsFormChains` | `Spec => []LinksFormChain` |
| | `RotationImplementsSession` | `Spec => ImplementsSession` |
| `MailSyncProofs` | `SyncTypeCorrect` | `Spec => []TypeOK` |
| | `StoredRowsHaveBlobs` | `Spec => []RowsHaveBlobs` |
| | `NothingFallsIntoAGap` | `OneZohoPage` implies `Spec /\ []RunsFit => []NoGap` |
| | `StoredRowsAreFinal` | `Spec => RowsAreFinal` |
| `ConnectFlowProofs` | `FlowTypeCorrect` | `FlowSpec => []FlowTypeOK` |
| | `StatesAreSingleUse` | `FlowSpec => []SingleUse` |
| | `ConnectsOncePerState` | `FlowSpec => []OneConnectPerState` |
| | `RefreshTokenSurvives` | `FlowSpec => RefreshTokenKept` |
| | `OutagesDoNotDisable` | `FlowSpec => OnlyRejectionDisables` |
| `SyncQueueProofs` | `QueueTypeCorrect` | `Spec => []TypeOK` |
| | `AcceptedSyncsAreQueued` | `Spec => AcceptedSyncIsQueued` |
| `GatewayProofs` | `GatewayTypeCorrect` | `GatewaySpec => []GatewayTypeOK` |
| | `GatewayStaysUp` | `GatewaySpec => []StaysUp` |
| | `CutBodiesAreDropped` | `GatewaySpec => []CutBodyIsNotEnded` |
| | `LimiterTypeCorrect` | `Spec => []TypeOK` (of `RateLimiter`, as the next three) |
| | `PruningIsInvisible` | `Spec => []PruneInvisible` |
| | `RetryAfterIsExact` | `Spec => []RetryAfterExact` |
| | `BurstsAreBounded` | `Spec => []BurstBound` |
| `WebSessionProofs` | `WebTypeCorrect` | `WebSpec => []WebTypeOK` |
| | `HonestSessionsSurvive` | `WebSpec => []NoFalseTheft` |
| | `SignOutsEndSessions` | `WebSpec => []SignOutEndsSession` |
| | `ServerIsTheRotation` | `WebSpec => [][Session!SNext]_(Session!svars)` |
| `WebReadingProofs` | `EventsTypeCorrect` | `Spec => []TypeOK` (of `SyncEvents`, as the next two) |
| | `FramesAreNotLost` | `Spec => []FramesSurviveChunking` |
| | `EventsStayWithOwner` | `Spec => []OnlyOwnAccounts` |
| | `ReadTypeCorrect` | `ReadSpec => []ReadTypeOK` |
| | `ListsAreExact` | `ReadSpec => []PagesAreExact` |
| | `SavedFilesAreComplete` | `ReadSpec => []SavedFileIsComplete` |

**Refresh tokens**, for any numbers of users, requests and tokens. The inductive
invariant is `IInv == TypeOK /\ LocalsOK /\ FamiliesOK /\ SingleHolder`.
`SingleHolder` alone is not inductive: that a request about to issue holds the
only claim to its family needs the request's `tok` to be a created row
(`LocalsOK`), and that a login starts a family nobody is in needs every row's
family to be one of the rows created so far (`FamiliesOK`). Most actions are
`Quiet`: they add no holder to any family, and one lemma (`HolderFrame`) settles
them; spend, issue and login are treated one by one.

**The chain and the refinement.** `LinksFormChain` adds `SpentRevoked`,
`PendingLink` and `NoEarlyLink`: a replacement waiting for its link is its
request's alone, later than what it replaces and of the same family and user.
The refinement maps a family's holder to its unrevoked token or to the request
between spend and issue; initial states map to initial states, and each statement
is a step of `SessionFamily` or a stutter. `IInv` supplies that the mapped holder
is unique.

**Mail sync**, for any number of runs, messages, pages, faults and deletions and
both providers. `StoreInv` carries "blob first, pointer second": what a run has
put before it writes the row. `GapInv` carries `NoGap`. The cursor that a run
will write is fixed long before it is written, so the invariant follows each run
through its calls: what is behind the cursor it started from is settled; its
pages are whole; what lies up to the cursor it will write is settled, in its hands
or before its baseline. Under it lie lemmas about `Max` of a finite set, the
pages of both adapters and the growth of the mailbox. The hypothesis is

    RunsFit == \A w \in Workers :
                 pc[w] = "changes" => Cardinality(Since(from[w])) <= MaxIdsPerRun

at every moment: while a run lists, at most `MAX_IDS_PER_RUN` messages have
arrived since the cursor it started from. The mailbox and the mail to come are not
bounded. Without it the statement is false, and the run `mail_sync_cap` is the
counterexample (finding 2). A run that stops at the cap then holds as many
messages as there are since its cursor, hence all of them (`PageCollected`). For
Zoho the theorem also takes the page to be as large as the cap (`OneZohoPage`),
as both are 200 in the code: a message that the first page leaves out would have
a page of newer ones before it (`FirstPageHoldsTheNew`). Mail up to a baseline is
exempt in `NoGap` and therefore here. The passing runs satisfy both hypotheses.
This proof corrected the model's `TypeOK`: after a full last page
Zoho's next offset is one past the last message, which the old range left out
and which no run reached, as the Zoho instance's page is larger than its mailbox.

**Connect flow**, for any number of tasks, grants, states, restarts and seconds.
`SingleUse` needs `Remembered`: an accepted state is in the map or so old that
`verify` refuses it by its date. `OneConnectPerState` needs that a callback on
its way to the upsert carries a state that no other callback carries.
`OnlyRejectionDisables` needs that whoever is about to mark the account holds a
grant that the provider has rejected, or none.

**Sync queue**, for any accounts and callers. The promise is about four Redis
calls with others in between; `Clearance` is what survives them: since the
caller saw the id free, the job has been absent or waiting, or a worker has
taken it up.

**Rate limiter**, for any clients, limits and window. The invariant is
`RInv == TypeOK /\ PruneInvisible` (the agreement of the two limiters is what
bounds the unpruned counters). Lemma `CeilingDivision` is the rounding of
Retry-After. `BurstBound` says that two requests `2 * Limit` apart in the log are
a window apart in time. It needs to know where the log's windows lie (`LogInv`):
the last entries, as many as the current counter lets through, are of the current
window; all before them are no later than its start; and those more than a limit
before them are a whole window earlier than its start. Opening a window and
counting in it are a lemma each about a log of numbers (`LoggedOpens`,
`LoggedCounts`).

**Gateway**, for any number of requests. The invariant ties the head, the
response, the upstream request and the callbacks that are still owed to each
other, per request: while an upstream can still answer nothing has been sent, and
while it streams nobody else has ended the response. `GatewayStaysUp` says that
the process ends only over a request target that the URL parser rejects.

**Web session**, for any number of tabs, requests, tokens and failures. The
invariant says where the holder of a family can be: one live token or one request
that has spent it. Unless the family is excused, a refresh on its way carries the
live token, and the jar holds it or awaits the answer that replaces it; a cookie
that has not been delivered has never been sent. For the sign-out it adds that
one without a refresh beside it leaves nothing of its session in flight. The
parts take the table of requests as an argument, because a reload drops the
page's old requests and sends a new one in one step (`ThinFlight`, then
`SendFlight`); the server's steps are three: answer without a token, spend,
create. `ServerIsTheRotation` closes the gap between the two models of the
server: with a family's holder read off the live tokens and the requests between
spend and issue, every step of `WebSession` is a step of the `SessionFamily` that
`RefreshTokens` implements, or none. Only the steps are compared: a behaviour of
`WebSession` may begin with the session of an earlier visit, one of
`SessionFamily` begins with none. TLC checked it on the `web_session` instance
before it was proved; no run lists it.

**Live events**, for any users, accounts, effects, connections and events, and any
cutting of the text. `EventsInv` says of each effect that what is in its buffer or
on its connection is the text of whole frames, and that what it has handled,
followed by the accounts in that text, is what the endpoint wrote (`Stream`).
That the text is one of frames (`FrameText`) is needed because the parser cuts at
the first blank line: inside a frame there is none, so what is cut off is a whole
frame, and what stays in the buffer is again a beginning of one. `Reader` adds
that an effect reads a connection it opened itself, from its beginning, `Silent`
that nothing is written before the accounts have been looked up, and
`WrittenToOwner` that the listener lets through the accounts of the connection's
`bearer` only. That the bearer is the user signed in, for an effect that is not
`mixed`, needs `SessionInv`: the token, the cookie and the refresh in flight are of
that user or of nobody while the effect lives, and only the effect begun last is
not aborted.

**Message reading**, for any finite set of messages with any times, any limits a
caller may ask for and any pages. `ListInv` says of the list on screen, and of the
one a refetch is putting together, that its rows are in the order of the query,
that its cursor is its last row or that it has reached the end, and that every
row there was when the first page was read is in it or after its cursor. It
rests on what a page is: the first `take` rows after the cursor in the order of
`(date, id)`, which is total because ids differ. That the rank of a row gives
every row its own position, with no position left free, is by counting. `SavedFileIsComplete`
needs that a response is ended only when its body is whole: what the browser sees
is how it ended.

**Induction over data.** The splitting of text, the concatenation of sequences
and the refetch of pages go over data of any length. The library's induction
theorems take a predicate as a parameter, which the installed provers cannot
supply; `NumberInduction` takes a set of numbers instead, and a statement is
proved for every number by naming the set of those for which it holds. A
recursive function is a `CHOOSE`, so each comes with a lemma that a function with
its equation exists.

Model-checked only: liveness (`MailGetsStored`, `RevocationNoticed`,
`AccountKeepsSyncing`, `EveryoneIsAnswered`, `UpstreamIsReleased`,
`CleanupStopsEffect`, `ListenersAreReleased`), which this prover does not do. Every
invariant and every action property of the passing runs is a theorem. The
limiter's type invariant is proved and not checked by a run.

## 6. Not modelled

Cryptography (argon2, SHA-256, RS256, AES-GCM, HMAC) is modelled by what it
guarantees where a module needs it. Token verification (`gateway/src/jwt.ts`,
`packages/auth-lib`) is a check of one signed value without state; its verdict is
an input of `Gateway`. MIME parsing, headers, URLs, JSON shapes of the providers,
Zoho's regions, log lines and rendering are left out. Health checks,
configuration and deployment have no state that changes.

Left out of modelled parts, with the reason:

- `SyncEvents` keeps the accounts of a user constant: the code says nothing about
  when an account connected later should have live events.
- `WebSession` has one sign-out pending per tab; a second click sends the same
  request once more. Cookie and answer reach the page in one step, except that
  the body may break off after the cookie was stored.
- `MessageReading` treats a request for somebody else's account as one that fails
  (404), and one message as the observed one. That an outage is cached as a
  message without a body is in the model, and is what the code does on purpose.
- The accounts list and the preview only read.

## 7. Plan

The modules of the plan are written: sessions, synchronisation, provider tokens
and the connect flow, queue, gateway, live events, the browser's session, message
reading. The safety properties of all passing runs are proved; their liveness
properties stay with TLC. Worth adding when the code changes: a statement of when
an account connected later gets live events, once the code makes one, and the
two repairs that findings 1 and 3 ask for, each with the run that is violated
today expected to pass.
