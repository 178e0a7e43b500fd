------------------------------- MODULE Gateway -------------------------------
(***************************************************************************)
(* The life of requests in the gateway process: the handler of server.ts,  *)
(* serveStatic and proxy.  The handler runs without an await up to the     *)
(* first stat of a file or to the return of proxy; everything after that   *)
(* is a callback, and callbacks of one request and of others come in any   *)
(* order.  An exception none of them catches ends the process (main.ts),   *)
(* and with it every other request: writeHead on a response whose head was *)
(* sent is such an exception, and so is a request target that new URL or   *)
(* the upstream request does not take, which the handler does not catch.   *)
(*                                                                         *)
(* Node's streams are external: destroying a request to an upstream that   *)
(* has not answered emits "error", a body that breaks off makes its        *)
(* pipeline reject, a response that ended or was destroyed emits "close".  *)
(***************************************************************************)
EXTENDS Integers

CONSTANTS Requests,
          MaxServed   \* bound: requests that come in

ASSUME GatewayAssumption == MaxServed \in Nat

\* What a request asks for, by what the routing tells apart: a GET of /health,
\* the prefixes of the route table, the root, a page (a navigation, no file
\* extension), an asset, and what neither a route nor the static files serve.
Routes == {"auth", "users", "accounts", "oauth"}
Kinds  == Routes \cup {"health", "root", "page", "asset", "other"}

requiresAuth(kind) == kind \in {"users", "accounts"}

\* What the URL parser makes of a request target: it takes it, it rejects it in
\* the handler (server.ts:45), or it takes it there and proxy cannot build the
\* upstream's URL or request from it (proxy.ts:58, 72).
Targets == {"fine", "unparsable", "unproxied"}

NoHead == 0

VARIABLES
  alive,      \* the process
  kind,       \* what each request asks for; "none" when the slot is free
  pc,         \* where its handler waits
  head,       \* the status of the last writeHead
  res,        \* the response
  up,         \* the request to the upstream
  timedOut,
  uploading,  \* pipeline(req, upstreamReq) goes on
  pending,    \* callbacks that Node will make
  broken,     \* history: the body broke off after the head
  badTarget,  \* history: the handler threw over a request target
  served

perRequest == <<kind, pc, head, res, up, timedOut, uploading, pending, broken>>
gatewayVars == <<alive, perRequest, badTarget, served>>

\* The types, and an error status that tells its cause: 504 for an upstream that
\* timed out, 502 for one that broke.
GatewayTypeOK ==
  /\ alive \in BOOLEAN
  /\ kind \in [Requests -> Kinds \cup {"none"}]
  /\ pc \in [Requests -> {"none", "stat", "statIndex", "file", "proxy", "returned"}]
  /\ head \in [Requests -> {NoHead, 200, 401, 404, 429, 502, 504}]
  /\ res \in [Requests -> {"open", "ended", "destroyed", "closed"}]
  /\ up \in [Requests -> {"none", "waiting", "streaming", "done"}]
  /\ timedOut \in [Requests -> BOOLEAN]
  /\ uploading \in [Requests -> BOOLEAN]
  /\ pending \in [Requests -> SUBSET {"error", "body", "upload"}]
  /\ broken \in [Requests -> BOOLEAN]
  /\ badTarget \in BOOLEAN
  /\ served \in 0..MaxServed
  /\ \A r \in Requests : /\ head[r] = 504 => timedOut[r]
                         /\ head[r] = 502 => ~timedOut[r]

Fresh ==
  /\ kind = [r \in Requests |-> "none"]
  /\ pc = [r \in Requests |-> "none"]
  /\ head = [r \in Requests |-> NoHead]
  /\ res = [r \in Requests |-> "open"]
  /\ up = [r \in Requests |-> "none"]
  /\ timedOut = [r \in Requests |-> FALSE]
  /\ uploading = [r \in Requests |-> FALSE]
  /\ pending = [r \in Requests |-> {}]
  /\ broken = [r \in Requests |-> FALSE]

GatewayInit == alive = TRUE /\ Fresh /\ badTarget = FALSE /\ served = 0

-----------------------------------------------------------------------------
(* The response *)

\* res.writeHead throws when the head was sent.
WriteHead(r, status) ==
  /\ alive' = (head[r] = NoHead)
  /\ head' = [head EXCEPT ![r] = status]

\* end and destroy do nothing to a response that is over already.
ResEnd(r)     == res' = [res EXCEPT ![r] = IF @ = "open" THEN "ended" ELSE @]
ResDestroy(r) == res' = [res EXCEPT ![r] = IF @ \in {"open", "ended"} THEN "destroyed" ELSE @]

json(r, status) == WriteHead(r, status) /\ ResEnd(r)

\* upstreamReq.destroy(): it ends the wait with an error, or cuts the body off.
DestroyUpstream(r) ==
  /\ up' = [up EXCEPT ![r] = IF @ = "none" THEN @ ELSE "done"]
  /\ pending' = [pending EXCEPT ![r] =
        @ \cup (IF up[r] = "waiting" THEN {"error"} ELSE {})
          \cup (IF up[r] = "streaming" THEN {"body"} ELSE {})]

-----------------------------------------------------------------------------
(* The handler *)

\* An exception in the async handler: unhandledRejection, and process.exit.
Throws(r) ==
  /\ alive' = FALSE /\ badTarget' = TRUE
  /\ pc' = [pc EXCEPT ![r] = "returned"]
  /\ UNCHANGED <<head, res, up, uploading>>

Answers(r, status) ==
  /\ json(r, status)
  /\ pc' = [pc EXCEPT ![r] = "returned"]
  /\ UNCHANGED <<up, uploading, badTarget>>

\* The limiter's decision, the routes and the check of the token.
Routed(r, k, target, allowed, valid, body) ==
  \/ ~allowed /\ Answers(r, 429)
  \/ /\ k \in {"root", "page", "asset"} /\ allowed
     /\ pc' = [pc EXCEPT ![r] = IF k = "root" THEN "statIndex" ELSE "stat"]
     /\ UNCHANGED <<alive, head, res, up, uploading, badTarget>>
  \/ k = "other" /\ allowed /\ Answers(r, 404)
  \/ k \in Routes /\ allowed /\ requiresAuth(k) /\ ~valid /\ Answers(r, 401)
  \/ /\ k \in Routes /\ allowed /\ (requiresAuth(k) => valid)
     /\ target = "unproxied" /\ Throws(r)
  \/ /\ k \in Routes /\ allowed /\ (requiresAuth(k) => valid)
     /\ target = "fine"
     /\ up' = [up EXCEPT ![r] = "waiting"]
     /\ uploading' = [uploading EXCEPT ![r] = body]
     /\ pc' = [pc EXCEPT ![r] = "proxy"]
     /\ UNCHANGED <<alive, head, res, badTarget>>

\* A request comes in.  allowed is the limiter's decision, valid tells whether
\* it carries a token that verifyAccessToken accepts, body whether its own
\* body is still on the way.
Arrive(r, k, target, allowed, valid, body) ==
  /\ kind[r] = "none"
  /\ served < MaxServed /\ served' = served + 1
  /\ kind' = [kind EXCEPT ![r] = k]
  /\ \/ k = "health" /\ Answers(r, 200)
     \/ k # "health" /\ target = "unparsable" /\ Throws(r)
     \/ /\ k # "health" /\ target # "unparsable"
        /\ Routed(r, k, target, allowed, valid, body)
  /\ UNCHANGED <<timedOut, pending, broken>>

-----------------------------------------------------------------------------
(* serveStatic *)

\* stat found a file: the head goes out and the file is piped.
FileFound(r) ==
  /\ pc[r] \in {"stat", "statIndex"}
  /\ WriteHead(r, 200)
  /\ pc' = [pc EXCEPT ![r] = "file"]
  /\ UNCHANGED <<kind, res, up, timedOut, uploading, pending, broken, badTarget, served>>

\* There is none: index.html for a navigation, 404 for everything else.
FileMissing(r) ==
  /\ pc[r] \in {"stat", "statIndex"}
  /\ IF pc[r] = "stat" /\ kind[r] = "page"
       THEN /\ pc' = [pc EXCEPT ![r] = "statIndex"]
            /\ UNCHANGED <<alive, head, res>>
       ELSE /\ pc' = [pc EXCEPT ![r] = "returned"]
            /\ json(r, 404)
  /\ UNCHANGED <<kind, up, timedOut, uploading, pending, broken, badTarget, served>>

FileSent(r) ==
  /\ pc[r] = "file" /\ res[r] = "open"
  /\ ResEnd(r)
  /\ pc' = [pc EXCEPT ![r] = "returned"]
  /\ UNCHANGED <<alive, kind, head, up, timedOut, uploading, pending, broken, badTarget, served>>

\* A read fails, or the client is gone: the socket is dropped, and the request
\* counts as answered.
FileBreaks(r) ==
  /\ pc[r] = "file"
  /\ ResDestroy(r)
  /\ broken' = [broken EXCEPT ![r] = TRUE]
  /\ pc' = [pc EXCEPT ![r] = "returned"]
  /\ UNCHANGED <<alive, kind, head, up, timedOut, uploading, pending, badTarget, served>>

-----------------------------------------------------------------------------
(* proxy *)

\* The response callback; 200 stands for whatever status the upstream sent.
UpstreamResponds(r) ==
  /\ up[r] = "waiting"
  /\ up' = [up EXCEPT ![r] = "streaming"]
  /\ WriteHead(r, 200)
  /\ UNCHANGED <<kind, pc, res, timedOut, uploading, pending, broken, badTarget, served>>

UpstreamEnds(r) ==
  /\ up[r] = "streaming" /\ res[r] = "open"
  /\ up' = [up EXCEPT ![r] = "done"]
  /\ ResEnd(r)
  /\ UNCHANGED <<alive, kind, pc, head, timedOut, uploading, pending, broken, badTarget, served>>

\* The connection is refused or reset.  An upload that was under way breaks too.
UpstreamBreaks(r) ==
  /\ up[r] \in {"waiting", "streaming"}
  /\ up' = [up EXCEPT ![r] = "done"]
  /\ pending' = [pending EXCEPT ![r] =
        @ \cup (IF up[r] = "waiting" THEN {"error"} ELSE {"body"})
          \cup (IF uploading[r] THEN {"upload"} ELSE {})]
  /\ broken' = [broken EXCEPT ![r] = up[r] = "streaming"]
  /\ UNCHANGED <<alive, kind, pc, head, res, timedOut, uploading, badTarget, served>>

\* Faulty variant: the timer sets its flag and leaves the request to itself.
TimeoutFlagOnly(r) ==
  /\ up[r] \in {"waiting", "streaming"} /\ ~timedOut[r]
  /\ timedOut' = [timedOut EXCEPT ![r] = TRUE]
  /\ UNCHANGED <<alive, kind, pc, head, res, up, uploading, pending, broken, badTarget, served>>

\* 30 s without traffic, before or after the head: destroy with an error.
Timeout(r) ==
  /\ up[r] \in {"waiting", "streaming"} /\ ~timedOut[r]
  /\ timedOut' = [timedOut EXCEPT ![r] = TRUE]
  /\ up' = [up EXCEPT ![r] = "done"]
  /\ pending' = [pending EXCEPT ![r] =
        @ \cup {"error"} \cup (IF up[r] = "streaming" THEN {"body"} ELSE {})
          \cup (IF uploading[r] THEN {"upload"} ELSE {})]
  /\ broken' = [broken EXCEPT ![r] = up[r] = "streaming"]
  /\ UNCHANGED <<alive, kind, pc, head, res, uploading, badTarget, served>>

\* Faulty variant: the cause of the error is not looked at.
OnErrorWithoutCause(r) ==
  /\ "error" \in pending[r]
  /\ pending' = [pending EXCEPT ![r] = @ \ {"error"}]
  /\ IF head[r] # NoHead
       THEN ResDestroy(r) /\ UNCHANGED <<alive, head>>
       ELSE json(r, 502)
  /\ UNCHANGED <<kind, pc, up, timedOut, uploading, broken, badTarget, served>>

\* Faulty variant: the status is written whether or not a head is out.
OnErrorUnchecked(r) ==
  /\ "error" \in pending[r]
  /\ pending' = [pending EXCEPT ![r] = @ \ {"error"}]
  /\ json(r, IF timedOut[r] THEN 504 ELSE 502)
  /\ UNCHANGED <<kind, pc, up, timedOut, uploading, broken, badTarget, served>>

\* upstreamReq.on('error')
OnError(r) ==
  /\ "error" \in pending[r]
  /\ pending' = [pending EXCEPT ![r] = @ \ {"error"}]
  /\ IF head[r] # NoHead
       THEN ResDestroy(r) /\ UNCHANGED <<alive, head>>
       ELSE json(r, IF timedOut[r] THEN 504 ELSE 502)
  /\ UNCHANGED <<kind, pc, up, timedOut, uploading, broken, badTarget, served>>

\* Faulty variant: the response is ended, as pipe would leave it to the caller.
BodyRejectsEnding(r) ==
  /\ "body" \in pending[r]
  /\ pending' = [pending EXCEPT ![r] = @ \ {"body"}]
  /\ ResEnd(r)
  /\ UNCHANGED <<alive, kind, pc, head, up, timedOut, uploading, broken, badTarget, served>>

\* pipeline(upstreamRes, res).catch(() => res.destroy())
BodyRejects(r) ==
  /\ "body" \in pending[r]
  /\ pending' = [pending EXCEPT ![r] = @ \ {"body"}]
  /\ ResDestroy(r)
  /\ UNCHANGED <<alive, kind, pc, head, up, timedOut, uploading, broken, badTarget, served>>

UploadEnds(r) ==
  /\ uploading[r] /\ "upload" \notin pending[r]
  /\ uploading' = [uploading EXCEPT ![r] = FALSE]
  /\ UNCHANGED <<alive, kind, pc, head, res, up, timedOut, pending, broken, badTarget, served>>

\* pipeline(req, upstreamReq).catch(() => upstreamReq.destroy()).  Node may close
\* the socket with the request that was not read to its end.
UploadRejects(r) ==
  /\ "upload" \in pending[r]
  /\ up' = [up EXCEPT ![r] = "done"]
  /\ pending' = [pending EXCEPT ![r] = (@ \ {"upload"})
        \cup (IF up[r] = "waiting" THEN {"error"} ELSE {})
        \cup (IF up[r] = "streaming" THEN {"body"} ELSE {})]
  /\ uploading' = [uploading EXCEPT ![r] = FALSE]
  /\ \/ ResDestroy(r) \/ UNCHANGED res
  /\ UNCHANGED <<alive, kind, pc, head, timedOut, broken, badTarget, served>>

-----------------------------------------------------------------------------
(* The connection *)

\* The client hangs up; an upload breaks off with it.
ClientLeaves(r) ==
  /\ kind[r] # "none" /\ res[r] \in {"open", "ended"}
  /\ ResDestroy(r)
  /\ pending' = [pending EXCEPT ![r] = @ \cup (IF uploading[r] THEN {"upload"} ELSE {})]
  /\ UNCHANGED <<alive, kind, pc, head, up, timedOut, uploading, broken, badTarget, served>>

\* Faulty variant: nobody tells the upstream that the client is gone.
OnCloseLogOnly(r) ==
  /\ res[r] \in {"ended", "destroyed"}
  /\ res' = [res EXCEPT ![r] = "closed"]
  /\ UNCHANGED <<alive, kind, pc, head, up, timedOut, uploading, pending, broken, badTarget, served>>

\* res.on('close', () => upstreamReq.destroy())
OnClose(r) ==
  /\ res[r] \in {"ended", "destroyed"}
  /\ res' = [res EXCEPT ![r] = "closed"]
  /\ DestroyUpstream(r)
  /\ UNCHANGED <<alive, kind, pc, head, timedOut, uploading, broken, badTarget, served>>

\* Nothing of the request is left.
Forgotten(r) ==
  /\ res[r] = "closed" /\ pending[r] = {}
  /\ pc[r] \in {"returned", "proxy"} /\ up[r] \in {"none", "done"}
  /\ kind' = [kind EXCEPT ![r] = "none"]
  /\ pc' = [pc EXCEPT ![r] = "none"]
  /\ head' = [head EXCEPT ![r] = NoHead]
  /\ res' = [res EXCEPT ![r] = "open"]
  /\ up' = [up EXCEPT ![r] = "none"]
  /\ timedOut' = [timedOut EXCEPT ![r] = FALSE]
  /\ uploading' = [uploading EXCEPT ![r] = FALSE]
  /\ broken' = [broken EXCEPT ![r] = FALSE]
  /\ UNCHANGED <<alive, pending, badTarget, served>>

-----------------------------------------------------------------------------
Callback(r) == \/ OnError(r) \/ BodyRejects(r) \/ UploadRejects(r) \/ OnClose(r)
               \/ FileFound(r) \/ FileMissing(r) \/ FileBreaks(r) \/ FileSent(r)

GatewayNext ==
  /\ alive
  /\ \E r \in Requests :
       \/ \E k \in Kinds, target \in Targets : \E allowed, valid, body \in BOOLEAN :
             Arrive(r, k, target, allowed, valid, body)
       \/ Callback(r)
       \/ UpstreamResponds(r) \/ UpstreamEnds(r) \/ UpstreamBreaks(r) \/ Timeout(r)
       \/ UploadEnds(r) \/ ClientLeaves(r) \/ Forgotten(r)

\* The event loop makes the callbacks it owes, and the timer fires when an
\* upstream that has not answered stays silent.  Nothing is assumed of an
\* upstream that answers, of the end of its body, or of the client.
GatewayFairness ==
  \A r \in Requests :
    /\ WF_gatewayVars(alive /\ Callback(r))
    /\ WF_gatewayVars(alive /\ up[r] = "waiting" /\ Timeout(r))

GatewaySpec == GatewayInit /\ [][GatewayNext]_gatewayVars /\ GatewayFairness

-----------------------------------------------------------------------------
(* Properties *)

\* No order of response, error, timeout, close and file callbacks writes a
\* second head: the process goes down, and takes the other requests with it,
\* only over a request target that the handler cannot make a URL of.
StaysUp == alive \/ badTarget

\* A body that broke off after its head, from a file or an upstream, is never
\* ended like a complete one: the client sees the connection drop.
CutBodyIsNotEnded == \A r \in Requests : broken[r] => res[r] # "ended"

\* Every request gets a status line or loses its connection: an upstream that
\* hangs, breaks or is never reached leaves nobody waiting.  The end of the
\* process closes every connection.
EveryoneIsAnswered ==
  \A r \in Requests :
     kind[r] # "none" ~> head[r] # NoHead \/ res[r] \in {"destroyed", "closed"} \/ ~alive

\* Once a response is over, however it ended, the upstream work behind it is
\* stopped, a stream that would never end included, unless the process ends.
UpstreamIsReleased ==
  \A r \in Requests :
     res[r] = "destroyed" ~> up[r] \in {"none", "done"} \/ ~alive
=============================================================================
