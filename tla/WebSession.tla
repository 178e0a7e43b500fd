----------------------------- MODULE WebSession -----------------------------
(***************************************************************************)
(* The browser's side of a session: several tabs of the web application,   *)
(* each with its own access token and its own refresh in flight, over one  *)
(* cookie jar, against the three endpoints that set and spend the refresh  *)
(* cookie.  Requests reach the server in any order; a reply may be lost,   *)
(* replaced by the gateway's own error, or come after the page is gone.    *)
(*                                                                         *)
(* The server is reduced to what RefreshTokens is shown to implement       *)
(* (SessionFamily): a family is held by one live token, or by one request  *)
(* that has spent it and not issued the next.  A login stands for its user *)
(* too: what a tab shows is the family of the session it was given.        *)
(***************************************************************************)
EXTENDS Integers, FiniteSets

CONSTANTS Tabs,       \* tabs of one browser profile
          Slots,      \* bound: requests being sent, served or answered
          MaxTokens,  \* bound: refresh tokens ever issued
          MaxFaults   \* bound: reloads, lost replies, gateway and server errors

Tokens   == 1..MaxTokens
NoToken  == 0    \* no cookie in the jar; as a Set-Cookie, the cleared cookie
NoCookie == -1   \* a reply without Set-Cookie
NoTab    == "none"

ASSUME WebAssumption == /\ MaxTokens \in Nat \ {0}
                        /\ MaxFaults \in Nat
                        /\ NoTab \notin Tabs

VARIABLES
  issued,      \* number of tokens ever issued
  family,      \* a token's family: the token its login started with
  live,        \* tokens that a refresh would spend
  jar,         \* the refresh_token cookie
  page,        \* Tab: "closed", or AuthState's status
  shown,       \* Tab: family of the last session it rendered since its load
  access,      \* Tab: family of the accessToken variable
  req,         \* the requests
  faults,      \* reloads and failures so far
  excused,     \* history: families with a token that two pages had in flight,
               \* or with a refresh that spent and whose reply was lost, or
               \* that the server answered 500 after it had issued
  severed,     \* history: families not excused that a replay took from a holder
  signedOut    \* history: Tab: family of its last sign-out that was answered
               \* 204 and had no refresh of the family in flight beside it

server  == <<issued, family, live>>
tabs    == <<page, shown, access>>
history == <<excused, severed, signedOut>>
webVars == <<server, jar, tabs, req, faults, history>>

Free == [st |-> "free", tab |-> NoTab, kind |-> "none", tok |-> NoToken,
         ok |-> FALSE, cookie |-> NoCookie, crossed |-> FALSE]

\* st: sent, issuing (the token is spent, the next one is not there) or
\* answered.  tab is NoTab once nobody waits for the reply; crossed marks a
\* sign-out that had a refresh of its session in flight beside it.
Request ==
  [st : {"free", "sent", "issuing", "answered"}, tab : Tabs \cup {NoTab},
   kind : {"none", "refresh", "login", "logout"}, tok : Tokens \cup {NoToken},
   ok : BOOLEAN, cookie : Tokens \cup {NoToken, NoCookie}, crossed : BOOLEAN]

\* Every value that can reach the jar is a token the server has stored.
WebTypeOK ==
  /\ issued \in 0..MaxTokens
  /\ family \in [Tokens -> Tokens \cup {NoToken}]
  /\ live \subseteq 1..issued
  /\ jar \in 0..issued
  /\ page \in [Tabs -> {"closed", "loading", "anonymous", "authenticated"}]
  /\ shown \in [Tabs -> 0..issued]
  /\ access \in [Tabs -> 0..issued]
  /\ req \in [Slots -> Request]
  /\ \A r \in Slots : req[r].cookie \in -1..issued
  /\ faults \in 0..MaxFaults
  /\ excused \subseteq 1..issued /\ severed \subseteq 1..issued
  /\ signedOut \in [Tabs -> 0..issued]

\* A browser without a session, or with the cookie of an earlier one.
WebInit ==
  /\ \E t \in {NoToken, 1} :
       /\ issued = t /\ jar = t
       /\ live = {t} \ {NoToken}
       /\ family = [u \in Tokens |-> IF u = t THEN t ELSE NoToken]
  /\ page = [b \in Tabs |-> "closed"]
  /\ shown = [b \in Tabs |-> NoToken]
  /\ access = [b \in Tabs |-> NoToken]
  /\ req = [r \in Slots |-> Free]
  /\ faults = 0 /\ excused = {} /\ severed = {}
  /\ signedOut = [b \in Tabs |-> NoToken]

-----------------------------------------------------------------------------
(* Requests *)

FamilyOf(t) == IF t = NoToken THEN NoToken ELSE family[t]

\* The requests a page waits for.
Awaited(b, k) == {r \in Slots : req[r].tab = b /\ req[r].kind = k}

Spent(q) == q.kind = "refresh" /\ (q.st = "issuing" \/ (q.st = "answered" /\ q.ok))

\* The page, or the caller, stops waiting for the requests in rs: a reply that
\* is there is dropped, and the server finishes what it has begun.
Abandoned(rs) ==
  [r \in Slots |-> IF r \notin rs THEN req[r]
                   ELSE IF req[r].st = "answered" THEN Free
                   ELSE [req[r] EXCEPT !.tab = NoTab]]

CutBy(rs) == {family[req[r].tok] : r \in {q \in rs : Spent(req[q])}}

Fault == faults < MaxFaults /\ faults' = faults + 1

Crosses(k, q) == /\ {k, q.kind} = {"refresh", "logout"}
                 /\ jar # NoToken /\ FamilyOf(q.tok) = family[jar]

\* fetch: a request leaves page b with the cookie of the moment.  reqs is the
\* table of requests it is added to, lost the families it leaves cut off.
Send(b, k, reqs, lost) ==
  \E r \in {s \in Slots : reqs[s] = Free} :
    LET beside == {q \in Slots : Crosses(k, reqs[q])} IN
    /\ req' = [s \in Slots |->
         IF s = r THEN [Free EXCEPT !.st = "sent", !.tab = b, !.kind = k,
                                    !.tok = IF k = "login" THEN NoToken ELSE jar,
                                    !.crossed = k = "logout" /\ beside # {}]
         ELSE [reqs[s] EXCEPT !.crossed = @ \/ (k = "refresh" /\ s \in beside)]]
    /\ excused' = excused \cup lost \cup
         {family[reqs[q].tok] : q \in {p \in Slots :
            /\ k = "refresh" /\ jar # NoToken
            /\ reqs[p].kind = "refresh" /\ reqs[p].tok = jar /\ reqs[p].tab # b}}

-----------------------------------------------------------------------------
(* The pages *)

\* A tab is opened or reloaded: the module's variables start afresh, requests
\* of the old page are aborted, and AuthProvider's effect calls refreshSession.
load(b) ==
  LET old == {r \in Slots : req[r].tab = b} IN
  /\ page' = [page EXCEPT ![b] = "loading"]
  /\ shown' = [shown EXCEPT ![b] = NoToken]
  /\ access' = [access EXCEPT ![b] = NoToken]
  /\ Send(b, "refresh", Abandoned(old), CutBy(old))
  /\ IF page[b] = "closed" THEN UNCHANGED faults ELSE Fault
  /\ UNCHANGED <<server, jar, severed, signedOut>>

\* Faulty variant: every 401 starts a refresh of its own.
refreshSessionUnshared(b) ==
  /\ shown[b] # NoToken
  /\ Send(b, "refresh", req, {})
  /\ UNCHANGED <<server, jar, tabs, faults, severed, signedOut>>

\* apiFetch got a 401.  With a refresh in flight the caller joins it, and
\* nothing changes; a call that began before a sign-out may end after it.
refreshSession(b) ==
  /\ shown[b] # NoToken
  /\ Awaited(b, "refresh") = {}
  /\ Send(b, "refresh", req, {})
  /\ UNCHANGED <<server, jar, tabs, faults, severed, signedOut>>

\* The login form, disabled while its request is pending.
signIn(b) ==
  /\ page[b] = "anonymous" /\ Awaited(b, "login") = {}
  /\ Send(b, "login", req, {})
  /\ UNCHANGED <<server, jar, tabs, faults, severed, signedOut>>

\* A second click while the first is pending sends the same once more.
signOut(b) ==
  /\ page[b] = "authenticated" /\ Awaited(b, "logout") = {}
  /\ Send(b, "logout", req, {})
  /\ UNCHANGED <<server, jar, tabs, faults, severed, signedOut>>

\* What the page's code does with an answer; ok is response.ok, f the family
\* of the session in it.  The body of a logout's answer is never looked at,
\* its status neither.
Resolve(b, k, ok, f) ==
  LET put(v, x) == [v EXCEPT ![b] = x] IN
  \/ /\ k = "refresh"
     /\ access' = put(access, IF ok THEN f ELSE NoToken)
     /\ page' = put(page, IF page[b] # "loading" THEN page[b]
                          ELSE IF ok THEN "authenticated" ELSE "anonymous")
     /\ shown' = put(shown, IF page[b] = "loading" /\ ok THEN f ELSE shown[b])
  \/ /\ k = "login" /\ ok
     /\ access' = put(access, f)
     /\ shown' = put(shown, f)
     /\ page' = put(page, "authenticated")
  \/ /\ k = "login" /\ ~ok
     /\ UNCHANGED tabs
  \/ /\ k = "logout"
     /\ access' = put(access, NoToken)
     /\ page' = put(page, "anonymous")
     /\ UNCHANGED shown

\* The reply arrives: the browser stores its cookie, the page takes the rest.
Reply(r) ==
  LET q == req[r] IN
  /\ q.st = "answered"
  /\ jar' = IF q.cookie = NoCookie THEN jar ELSE q.cookie
  /\ Resolve(q.tab, q.kind, q.ok, IF q.cookie \in Tokens THEN family[q.cookie] ELSE NoToken)
  /\ signedOut' = IF q.kind = "logout" /\ q.ok /\ ~q.crossed
                    THEN [signedOut EXCEPT ![q.tab] = FamilyOf(q.tok)] ELSE signedOut
  /\ req' = [req EXCEPT ![r] = Free]
  /\ UNCHANGED <<server, faults, excused, severed>>

\* The gateway answers in the server's place: 429 or 502 for a request that
\* never got there, 502 or 504 for one the server is still at or has answered.
GatewayReplies(r) ==
  /\ req[r].st # "free" /\ req[r].tab # NoTab
  /\ Resolve(req[r].tab, req[r].kind, FALSE, NoToken)
  /\ \/ req' = Abandoned({r}) /\ excused' = excused \cup CutBy({r})
     \/ req[r].st = "sent" /\ req' = [req EXCEPT ![r] = Free] /\ UNCHANGED excused
  /\ Fault
  /\ UNCHANGED <<server, jar, severed, signedOut>>

\* fetch or response.json() rejects: no code of the page runs but the reset of
\* refreshInFlight and of the form's pending flag.  A reply whose body broke
\* off has left its cookie.
Rejects(r) ==
  /\ req[r].st # "free" /\ req[r].tab # NoTab
  /\ \/ req' = Abandoned({r}) /\ excused' = excused \cup CutBy({r}) /\ UNCHANGED jar
     \/ req[r].st = "sent" /\ req' = [req EXCEPT ![r] = Free] /\ UNCHANGED <<excused, jar>>
     \/ /\ req[r].st = "answered" /\ req[r].cookie # NoCookie
        /\ jar' = req[r].cookie /\ req' = [req EXCEPT ![r] = Free] /\ UNCHANGED excused
  /\ Fault
  /\ UNCHANGED <<server, tabs, severed, signedOut>>

-----------------------------------------------------------------------------
(* The server *)

\* The answer goes out; nobody reads it when the page is gone.
Answer(r, ok, cookie) ==
  req' = [req EXCEPT ![r] = IF @.tab = NoTab THEN Free
            ELSE [@ EXCEPT !.st = "answered", !.ok = ok, !.cookie = cookie]]

CreateToken(f) ==
  /\ issued < MaxTokens
  /\ issued' = issued + 1
  /\ family' = [family EXCEPT ![issued + 1] = f]
  /\ live' = live \cup {issued + 1}

Family(f) == {t \in Tokens : family[t] = f}

\* POST /auth/refresh up to spend: 401 without a value; a live token is spent;
\* any other has been spent or revoked, and its family goes.
refresh(r) ==
  LET q == req[r] IN
  /\ q.kind = "refresh" /\ q.st = "sent"
  /\ \/ /\ q.tok = NoToken
        /\ Answer(r, FALSE, NoCookie)
        /\ UNCHANGED <<live, excused, severed>>
     \/ /\ q.tok \in live
        /\ live' = live \ {q.tok}
        /\ req' = [req EXCEPT ![r].st = "issuing"]
        /\ excused' = IF q.tab = NoTab THEN excused \cup {family[q.tok]} ELSE excused
        /\ UNCHANGED severed
     \/ /\ q.tok \notin live \cup {NoToken}
        /\ live' = live \ Family(family[q.tok])
        /\ severed' = IF family[q.tok] \notin excused
                         /\ \/ live' # live
                            \/ \E p \in Slots : /\ req[p].st = "issuing"
                                                /\ FamilyOf(req[p].tok) = family[q.tok]
                        THEN severed \cup {family[q.tok]} ELSE severed
        /\ Answer(r, FALSE, NoCookie)
        /\ UNCHANGED excused
  /\ UNCHANGED <<issued, family, jar, tabs, faults, signedOut>>

\* ... and from issue on, with setRefreshCookie.
issue(r) ==
  /\ req[r].st = "issuing"
  /\ CreateToken(family[req[r].tok])
  /\ Answer(r, TRUE, issued + 1)
  /\ UNCHANGED <<jar, tabs, faults, history>>

\* Faulty variant: the cookie goes out, the row was never created.
loginUnstored(r) ==
  /\ req[r].kind = "login" /\ req[r].st = "sent"
  /\ issued < MaxTokens
  /\ Answer(r, TRUE, issued + 1)
  /\ UNCHANGED <<server, jar, tabs, faults, history>>

\* POST /auth/login with the right password.
login(r) ==
  /\ req[r].kind = "login" /\ req[r].st = "sent"
  /\ CreateToken(issued + 1)
  /\ Answer(r, TRUE, issued + 1)
  /\ UNCHANGED <<jar, tabs, faults, history>>

\* Faulty variant: the session is revoked, the cookie stays.
logoutKeepingCookie(r) ==
  /\ req[r].kind = "logout" /\ req[r].st = "sent"
  /\ live' = IF req[r].tok = NoToken THEN live ELSE live \ Family(family[req[r].tok])
  /\ Answer(r, TRUE, NoCookie)
  /\ UNCHANGED <<issued, family, jar, tabs, faults, history>>

\* POST /auth/logout: 204 and a cleared cookie, with or without a value.
logout(r) ==
  /\ req[r].kind = "logout" /\ req[r].st = "sent"
  /\ live' = IF req[r].tok = NoToken THEN live ELSE live \ Family(family[req[r].tok])
  /\ Answer(r, TRUE, NoToken)
  /\ UNCHANGED <<issued, family, jar, tabs, faults, history>>

\* A statement behind the new row throws, linkReplacement or issueAccessToken:
\* 500, and the token that was created lives on without anybody who has it.
FailsAfterIssue(r) ==
  /\ \/ /\ req[r].st = "issuing"
        /\ CreateToken(family[req[r].tok])
        /\ excused' = excused \cup {family[req[r].tok]}
     \/ /\ req[r].kind = "login" /\ req[r].st = "sent"
        /\ CreateToken(issued + 1)
        /\ UNCHANGED excused
  /\ Answer(r, FALSE, NoCookie)
  /\ Fault
  /\ UNCHANGED <<jar, tabs, severed, signedOut>>

\* A statement before that throws, or the credentials are wrong: 401 or 500
\* without a new cookie.  logout has cleared the cookie before it reaches the
\* database, which it does with a value only.
ServerFails(r) ==
  /\ req[r].st \in {"sent", "issuing"}
  /\ req[r].kind = "logout" => req[r].tok # NoToken
  /\ Answer(r, FALSE, IF req[r].kind = "logout" THEN NoToken ELSE NoCookie)
  /\ Fault
  /\ UNCHANGED <<server, jar, tabs, history>>

-----------------------------------------------------------------------------
WebNext ==
  \/ \E b \in Tabs : load(b) \/ refreshSession(b) \/ signIn(b) \/ signOut(b)
  \/ \E r \in Slots : \/ Reply(r) \/ GatewayReplies(r) \/ Rejects(r)
                      \/ refresh(r) \/ issue(r) \/ login(r) \/ logout(r)
                      \/ FailsAfterIssue(r) \/ ServerFails(r)

WebSpec == WebInit /\ [][WebNext]_webVars

-----------------------------------------------------------------------------
(* Properties *)

\* The server's theft detection never ends an honest browser's session unless
\* two pages had the same cookie in flight, or the reply that carried the next
\* cookie was lost, or the server failed between storing the next token and
\* answering: refreshInFlight keeps one page from ever doing it alone, whatever
\* its queries, sign-ins, sign-outs and other failures.
NoFalseTheft == severed = {}

\* Once a sign-out is answered 204, and no refresh of the same session was on
\* the way with it, that session is over everywhere: no token of it is live or
\* about to be issued, its cookie is gone from the jar, and the tab that signed
\* out never holds its access token again.
SignOutEndsSession ==
  \A b \in Tabs : signedOut[b] # NoToken =>
    /\ live \cap Family(signedOut[b]) = {}
    /\ \A r \in Slots : req[r].st = "issuing" => FamilyOf(req[r].tok) # signedOut[b]
    /\ FamilyOf(jar) # signedOut[b]
    /\ access[b] # signedOut[b]
=============================================================================
