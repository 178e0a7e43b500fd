---------------------------- MODULE GatewayProofs ----------------------------
(***************************************************************************)
(* Theorems about the two parts of the gateway process: about Gateway, for *)
(* every number of requests, and about RateLimiter, for every set of       *)
(* clients, every limit and every window length.                           *)
(***************************************************************************)
EXTENDS Gateway, RateLimiter, TLAPS

\* A slot that no request uses is as it was at the start.
UnusedIsFresh(r) ==
  kind[r] = "none" => /\ pc[r] = "none" /\ head[r] = NoHead /\ res[r] = "open"
                      /\ up[r] = "none" /\ ~broken[r]

\* A handler that waits for a stat has sent nothing and asked no upstream; one
\* that pipes a file has sent the head, and its body is whole so far.
StaticPath(r) ==
  /\ pc[r] \in {"stat", "statIndex"} => head[r] = NoHead /\ up[r] = "none" /\ ~broken[r]
  /\ pc[r] = "file" => head[r] # NoHead /\ up[r] = "none" /\ ~broken[r]

\* The upstream's answer is what sends the head, and while it can still come or
\* goes on, the response was not ended by anybody else.
ProxyPath(r) ==
  /\ up[r] = "waiting" => head[r] = NoHead
  /\ up[r] = "streaming" => head[r] = 200
  /\ up[r] \in {"waiting", "streaming"} => res[r] # "ended" /\ ~broken[r]

\* Callbacks are owed for an upstream request only, and its error comes after
\* its end.
OwedCallbacks(r) ==
  /\ pending[r] # {} \/ uploading[r] => up[r] # "none"
  /\ "error" \in pending[r] => up[r] = "done"

\* A body broke off behind its head, and is not ended.
Cut(r) == broken[r] => head[r] # NoHead /\ res[r] # "ended"

RequestInv(r) == /\ UnusedIsFresh(r) /\ StaticPath(r) /\ ProxyPath(r)
                 /\ OwedCallbacks(r) /\ Cut(r)

GatewayInv == /\ GatewayTypeOK
              /\ StaysUp
              /\ \A r \in Requests : RequestInv(r)

-----------------------------------------------------------------------------
\* The new values of one request's variables are of their types, and the
\* variables of the others stay as they are.
OnlyOf(r) ==
  /\ kind' = [kind EXCEPT ![r] = kind'[r]]
  /\ pc' = [pc EXCEPT ![r] = pc'[r]]
  /\ head' = [head EXCEPT ![r] = head'[r]]
  /\ res' = [res EXCEPT ![r] = res'[r]]
  /\ up' = [up EXCEPT ![r] = up'[r]]
  /\ timedOut' = [timedOut EXCEPT ![r] = timedOut'[r]]
  /\ uploading' = [uploading EXCEPT ![r] = uploading'[r]]
  /\ pending' = [pending EXCEPT ![r] = pending'[r]]
  /\ broken' = [broken EXCEPT ![r] = broken'[r]]

TypedOf(r) ==
  /\ kind'[r] \in Kinds \cup {"none"}
  /\ pc'[r] \in {"none", "stat", "statIndex", "file", "proxy", "returned"}
  /\ head'[r] \in {NoHead, 200, 401, 404, 429, 502, 504}
  /\ res'[r] \in {"open", "ended", "destroyed", "closed"}
  /\ up'[r] \in {"none", "waiting", "streaming", "done"}
  /\ timedOut'[r] \in BOOLEAN /\ uploading'[r] \in BOOLEAN /\ broken'[r] \in BOOLEAN
  /\ pending'[r] \in SUBSET {"error", "body", "upload"}
  /\ head'[r] = 504 => timedOut'[r]
  /\ head'[r] = 502 => ~timedOut'[r]

\* It is enough to look at the request that moves.
LEMMA OneRequest ==
  ASSUME GatewayInv, NEW r \in Requests, OnlyOf(r), TypedOf(r), served' \in 0..MaxServed,
         alive' \in BOOLEAN, badTarget' \in BOOLEAN, StaysUp', RequestInv(r)'
  PROVE  GatewayInv'
<1>1. GatewayTypeOK'
  <2>0. GatewayTypeOK
    BY DEF GatewayInv
  <2>1. /\ kind' \in [Requests -> Kinds \cup {"none"}]
        /\ pc' \in [Requests -> {"none", "stat", "statIndex", "file", "proxy", "returned"}]
        /\ head' \in [Requests -> {NoHead, 200, 401, 404, 429, 502, 504}]
        /\ res' \in [Requests -> {"open", "ended", "destroyed", "closed"}]
        /\ up' \in [Requests -> {"none", "waiting", "streaming", "done"}]
        /\ pending' \in [Requests -> SUBSET {"error", "body", "upload"}]
    BY <2>0 DEF GatewayTypeOK, OnlyOf, TypedOf
  <2>2. /\ timedOut' \in [Requests -> BOOLEAN] /\ uploading' \in [Requests -> BOOLEAN]
        /\ broken' \in [Requests -> BOOLEAN]
    BY <2>0 DEF GatewayTypeOK, OnlyOf, TypedOf
  <2>3. ASSUME NEW q \in Requests
        PROVE  (head'[q] = 504 => timedOut'[q]) /\ (head'[q] = 502 => ~timedOut'[q])
    <3>1. CASE q = r
      BY <3>1 DEF TypedOf
    <3>2. CASE q # r
      <4>1. head'[q] = head[q] /\ timedOut'[q] = timedOut[q]
        BY <2>0, <3>2 DEF GatewayTypeOK, OnlyOf
      <4> QED BY <2>0, <4>1 DEF GatewayTypeOK
    <3> QED BY <3>1, <3>2
  <2> QED BY <2>1, <2>2, <2>3 DEF GatewayTypeOK
<1>2. ASSUME NEW q \in Requests, q # r PROVE RequestInv(q)'
  <2>1. RequestInv(q)
    BY DEF GatewayInv
  <2>2. /\ kind'[q] = kind[q] /\ pc'[q] = pc[q] /\ head'[q] = head[q] /\ res'[q] = res[q]
        /\ up'[q] = up[q] /\ uploading'[q] = uploading[q] /\ pending'[q] = pending[q]
        /\ broken'[q] = broken[q]
    BY <1>2 DEF GatewayInv, GatewayTypeOK, OnlyOf
  <2> QED BY <2>1, <2>2 DEF RequestInv, UnusedIsFresh, StaticPath, ProxyPath,
          OwedCallbacks, Cut
<1> QED BY <1>1, <1>2 DEF GatewayInv

\* stat found a file: nothing had been sent.
LEMMA FileFoundInv ==
  ASSUME GatewayInv, alive, NEW r \in Requests, FileFound(r)
  PROVE  GatewayInv'
<1>0. RequestInv(r) /\ GatewayTypeOK /\ alive
  BY DEF GatewayInv
<1>1. OnlyOf(r)
  BY <1>0 DEF GatewayTypeOK, OnlyOf, FileFound, WriteHead
<1>2. /\ pc'[r] = "file"
      /\ head'[r] = 200
      /\ kind'[r] = kind[r]
      /\ res'[r] = res[r]
      /\ up'[r] = up[r]
      /\ timedOut'[r] = timedOut[r]
      /\ uploading'[r] = uploading[r]
      /\ pending'[r] = pending[r]
      /\ broken'[r] = broken[r]
  BY <1>0 DEF GatewayTypeOK, FileFound, WriteHead
<1>3. TypedOf(r) /\ served' \in 0..MaxServed
  BY <1>0, <1>2 DEF GatewayTypeOK, TypedOf, FileFound, WriteHead
<1>4. alive' /\ badTarget' = badTarget
  BY <1>0 DEF RequestInv, UnusedIsFresh, StaticPath, ProxyPath, FileFound, WriteHead
<1>5. RequestInv(r)'
  BY <1>0, <1>2 DEF FileFound, RequestInv, UnusedIsFresh, StaticPath, ProxyPath,
     OwedCallbacks, Cut, NoHead, Kinds, Routes
<1> QED BY <1>0, <1>1, <1>3, <1>4, <1>5, OneRequest DEF GatewayTypeOK, StaysUp

\* There is no file: one more stat, or the 404.
LEMMA FileMissingInv ==
  ASSUME GatewayInv, alive, NEW r \in Requests, FileMissing(r)
  PROVE  GatewayInv'
<1>0. RequestInv(r) /\ GatewayTypeOK /\ alive
  BY DEF GatewayInv
<1>1. OnlyOf(r)
  <2>1. CASE pc[r] = "stat" /\ kind[r] = "page"
    BY <1>0, <2>1 DEF GatewayTypeOK, OnlyOf, FileMissing, json, WriteHead, ResEnd
  <2>2. CASE ~(pc[r] = "stat" /\ kind[r] = "page")
    <3>1. /\ json(r, 404) /\ pc' = [pc EXCEPT ![r] = "returned"]
          /\ UNCHANGED <<kind, up, timedOut, uploading, pending, broken>>
      BY <2>2 DEF FileMissing
    <3> QED BY <1>0, <3>1 DEF GatewayTypeOK, OnlyOf, json, WriteHead, ResEnd
  <2> QED BY <2>1, <2>2
<1>2. /\ \/ pc'[r] = "statIndex" /\ head'[r] = head[r] /\ res'[r] = res[r]
         \/ pc'[r] = "returned" /\ head'[r] = 404
      /\ res'[r] \in {"open", "ended", "destroyed", "closed"}
      /\ kind'[r] = kind[r]
      /\ up'[r] = up[r]
      /\ timedOut'[r] = timedOut[r]
      /\ uploading'[r] = uploading[r]
      /\ pending'[r] = pending[r]
      /\ broken'[r] = broken[r]
  <2>1. CASE pc[r] = "stat" /\ kind[r] = "page"
    BY <1>0, <2>1 DEF GatewayTypeOK, FileMissing, json, WriteHead, ResEnd
  <2>2. CASE ~(pc[r] = "stat" /\ kind[r] = "page")
    <3>1. /\ json(r, 404) /\ pc' = [pc EXCEPT ![r] = "returned"]
          /\ UNCHANGED <<kind, up, timedOut, uploading, pending, broken>>
      BY <2>2 DEF FileMissing
    <3> QED BY <1>0, <3>1 DEF GatewayTypeOK, json, WriteHead, ResEnd
  <2> QED BY <2>1, <2>2
<1>3. TypedOf(r) /\ served' \in 0..MaxServed
  BY <1>0, <1>2 DEF GatewayTypeOK, TypedOf, FileMissing, json, WriteHead, ResEnd
<1>4. alive' /\ badTarget' = badTarget
  BY <1>0 DEF RequestInv, UnusedIsFresh, StaticPath, ProxyPath, FileMissing, json,
     WriteHead, ResEnd
<1>5. RequestInv(r)'
  BY <1>0, <1>2 DEF FileMissing, RequestInv, UnusedIsFresh, StaticPath, ProxyPath,
     OwedCallbacks, Cut, NoHead, Kinds, Routes
<1> QED BY <1>0, <1>1, <1>3, <1>4, <1>5, OneRequest DEF GatewayTypeOK, StaysUp

\* The file is through.
LEMMA FileSentInv ==
  ASSUME GatewayInv, alive, NEW r \in Requests, FileSent(r)
  PROVE  GatewayInv'
<1>0. RequestInv(r) /\ GatewayTypeOK /\ alive
  BY DEF GatewayInv
<1>1. OnlyOf(r)
  BY <1>0 DEF GatewayTypeOK, OnlyOf, FileSent, ResEnd
<1>2. /\ pc'[r] = "returned"
      /\ res'[r] = "ended"
      /\ kind'[r] = kind[r]
      /\ head'[r] = head[r]
      /\ up'[r] = up[r]
      /\ timedOut'[r] = timedOut[r]
      /\ uploading'[r] = uploading[r]
      /\ pending'[r] = pending[r]
      /\ broken'[r] = broken[r]
  BY <1>0 DEF GatewayTypeOK, FileSent, ResEnd
<1>3. TypedOf(r) /\ served' \in 0..MaxServed
  BY <1>0, <1>2 DEF GatewayTypeOK, TypedOf, FileSent, ResEnd
<1>4. alive' /\ badTarget' = badTarget
  BY <1>0 DEF RequestInv, UnusedIsFresh, StaticPath, ProxyPath, FileSent, ResEnd
<1>5. RequestInv(r)'
  BY <1>0, <1>2 DEF FileSent, RequestInv, UnusedIsFresh, StaticPath, ProxyPath,
     OwedCallbacks, Cut, NoHead, Kinds, Routes
<1> QED BY <1>0, <1>1, <1>3, <1>4, <1>5, OneRequest DEF GatewayTypeOK, StaysUp

\* The file broke off: the response is dropped in the same step.
LEMMA FileBreaksInv ==
  ASSUME GatewayInv, alive, NEW r \in Requests, FileBreaks(r)
  PROVE  GatewayInv'
<1>0. RequestInv(r) /\ GatewayTypeOK /\ alive
  BY DEF GatewayInv
<1>1. OnlyOf(r)
  BY <1>0 DEF GatewayTypeOK, OnlyOf, FileBreaks, ResDestroy
<1>2. /\ pc'[r] = "returned"
      /\ res'[r] = IF res[r] \in {"open", "ended"} THEN "destroyed" ELSE res[r]
      /\ broken'[r]
      /\ kind'[r] = kind[r]
      /\ head'[r] = head[r]
      /\ up'[r] = up[r]
      /\ timedOut'[r] = timedOut[r]
      /\ uploading'[r] = uploading[r]
      /\ pending'[r] = pending[r]
  BY <1>0 DEF GatewayTypeOK, FileBreaks, ResDestroy
<1>3. TypedOf(r) /\ served' \in 0..MaxServed
  BY <1>0, <1>2 DEF GatewayTypeOK, TypedOf, FileBreaks, ResDestroy
<1>4. alive' /\ badTarget' = badTarget
  BY <1>0 DEF RequestInv, UnusedIsFresh, StaticPath, ProxyPath, FileBreaks, ResDestroy
<1>5. RequestInv(r)'
  BY <1>0, <1>2 DEF FileBreaks, RequestInv, UnusedIsFresh, StaticPath, ProxyPath,
     OwedCallbacks, Cut, NoHead, Kinds, Routes
<1> QED BY <1>0, <1>1, <1>3, <1>4, <1>5, OneRequest DEF GatewayTypeOK, StaysUp

\* The upstream answers: it was waited for, so no head was sent.
LEMMA RespondsInv ==
  ASSUME GatewayInv, alive, NEW r \in Requests, UpstreamResponds(r)
  PROVE  GatewayInv'
<1>0. RequestInv(r) /\ GatewayTypeOK /\ alive
  BY DEF GatewayInv
<1>1. OnlyOf(r)
  BY <1>0 DEF GatewayTypeOK, OnlyOf, UpstreamResponds, WriteHead
<1>2. /\ head'[r] = 200
      /\ up'[r] = "streaming"
      /\ kind'[r] = kind[r]
      /\ pc'[r] = pc[r]
      /\ res'[r] = res[r]
      /\ timedOut'[r] = timedOut[r]
      /\ uploading'[r] = uploading[r]
      /\ pending'[r] = pending[r]
      /\ broken'[r] = broken[r]
  BY <1>0 DEF GatewayTypeOK, UpstreamResponds, WriteHead
<1>3. TypedOf(r) /\ served' \in 0..MaxServed
  BY <1>0, <1>2 DEF GatewayTypeOK, TypedOf, UpstreamResponds, WriteHead
<1>4. alive' /\ badTarget' = badTarget
  BY <1>0 DEF RequestInv, UnusedIsFresh, StaticPath, ProxyPath, UpstreamResponds, WriteHead
<1>5. RequestInv(r)'
  BY <1>0, <1>2 DEF UpstreamResponds, RequestInv, UnusedIsFresh, StaticPath, ProxyPath,
     OwedCallbacks, Cut, NoHead, Kinds, Routes
<1> QED BY <1>0, <1>1, <1>3, <1>4, <1>5, OneRequest DEF GatewayTypeOK, StaysUp

\* The upstream's body is through.
LEMMA EndsInv ==
  ASSUME GatewayInv, alive, NEW r \in Requests, UpstreamEnds(r)
  PROVE  GatewayInv'
<1>0. RequestInv(r) /\ GatewayTypeOK /\ alive
  BY DEF GatewayInv
<1>1. OnlyOf(r)
  BY <1>0 DEF GatewayTypeOK, OnlyOf, UpstreamEnds, ResEnd
<1>2. /\ res'[r] = "ended"
      /\ up'[r] = "done"
      /\ kind'[r] = kind[r]
      /\ pc'[r] = pc[r]
      /\ head'[r] = head[r]
      /\ timedOut'[r] = timedOut[r]
      /\ uploading'[r] = uploading[r]
      /\ pending'[r] = pending[r]
      /\ broken'[r] = broken[r]
  BY <1>0 DEF GatewayTypeOK, UpstreamEnds, ResEnd
<1>3. TypedOf(r) /\ served' \in 0..MaxServed
  BY <1>0, <1>2 DEF GatewayTypeOK, TypedOf, UpstreamEnds, ResEnd
<1>4. alive' /\ badTarget' = badTarget
  BY <1>0 DEF RequestInv, UnusedIsFresh, StaticPath, ProxyPath, UpstreamEnds, ResEnd
<1>5. RequestInv(r)'
  BY <1>0, <1>2 DEF UpstreamEnds, RequestInv, UnusedIsFresh, StaticPath, ProxyPath,
     OwedCallbacks, Cut, NoHead, Kinds, Routes
<1> QED BY <1>0, <1>1, <1>3, <1>4, <1>5, OneRequest DEF GatewayTypeOK, StaysUp

\* The upstream's connection breaks, before or after the head.
LEMMA BreaksInv ==
  ASSUME GatewayInv, alive, NEW r \in Requests, UpstreamBreaks(r)
  PROVE  GatewayInv'
<1>0. RequestInv(r) /\ GatewayTypeOK /\ alive
  BY DEF GatewayInv
<1>1. OnlyOf(r)
  BY <1>0 DEF GatewayTypeOK, OnlyOf, UpstreamBreaks
<1>2. /\ up'[r] = "done"
      /\ pending'[r] \in SUBSET {"error", "body", "upload"}
      /\ broken'[r] <=> up[r] = "streaming"
      /\ kind'[r] = kind[r]
      /\ pc'[r] = pc[r]
      /\ head'[r] = head[r]
      /\ res'[r] = res[r]
      /\ timedOut'[r] = timedOut[r]
      /\ uploading'[r] = uploading[r]
  <2>1. broken'[r] <=> up[r] = "streaming"
    <3>1. broken' = [broken EXCEPT ![r] = up[r] = "streaming"] /\ DOMAIN broken = Requests
      BY <1>0 DEF GatewayTypeOK, UpstreamBreaks
    <3> QED BY <3>1, Zenon
  <2> QED BY <1>0, <2>1 DEF GatewayTypeOK, UpstreamBreaks
<1>3. TypedOf(r) /\ served' \in 0..MaxServed
  BY <1>0, <1>2 DEF GatewayTypeOK, TypedOf, UpstreamBreaks
<1>4. alive' /\ badTarget' = badTarget
  BY <1>0 DEF RequestInv, UnusedIsFresh, StaticPath, ProxyPath, UpstreamBreaks
<1>5. RequestInv(r)'
  BY <1>0, <1>2 DEF UpstreamBreaks, RequestInv, UnusedIsFresh, StaticPath, ProxyPath,
     OwedCallbacks, Cut, NoHead, Kinds, Routes
<1> QED BY <1>0, <1>1, <1>3, <1>4, <1>5, OneRequest DEF GatewayTypeOK, StaysUp

\* The timer fires, before or after the head.
LEMMA TimeoutInv ==
  ASSUME GatewayInv, alive, NEW r \in Requests, Timeout(r)
  PROVE  GatewayInv'
<1>0. RequestInv(r) /\ GatewayTypeOK /\ alive
  BY DEF GatewayInv
<1>1. OnlyOf(r)
  BY <1>0 DEF GatewayTypeOK, OnlyOf, Timeout
<1>2. /\ up'[r] = "done"
      /\ timedOut'[r]
      /\ pending'[r] \in SUBSET {"error", "body", "upload"}
      /\ broken'[r] <=> up[r] = "streaming"
      /\ kind'[r] = kind[r]
      /\ pc'[r] = pc[r]
      /\ head'[r] = head[r]
      /\ res'[r] = res[r]
      /\ uploading'[r] = uploading[r]
  <2>1. broken'[r] <=> up[r] = "streaming"
    <3>1. broken' = [broken EXCEPT ![r] = up[r] = "streaming"] /\ DOMAIN broken = Requests
      BY <1>0 DEF GatewayTypeOK, Timeout
    <3> QED BY <3>1, Zenon
  <2> QED BY <1>0, <2>1 DEF GatewayTypeOK, Timeout
<1>3. TypedOf(r) /\ served' \in 0..MaxServed
  BY <1>0, <1>2 DEF GatewayTypeOK, TypedOf, Timeout, RequestInv, ProxyPath, NoHead
<1>4. alive' /\ badTarget' = badTarget
  BY <1>0 DEF RequestInv, UnusedIsFresh, StaticPath, ProxyPath, Timeout
<1>5. RequestInv(r)'
  BY <1>0, <1>2 DEF Timeout, RequestInv, UnusedIsFresh, StaticPath, ProxyPath,
     OwedCallbacks, Cut, NoHead, Kinds, Routes
<1> QED BY <1>0, <1>1, <1>3, <1>4, <1>5, OneRequest DEF GatewayTypeOK, StaysUp

\* The error handler: a status when no head was sent, else the end.
LEMMA OnErrorInv ==
  ASSUME GatewayInv, alive, NEW r \in Requests, OnError(r)
  PROVE  GatewayInv'
<1>0. RequestInv(r) /\ GatewayTypeOK /\ alive
  BY DEF GatewayInv
<1>1. OnlyOf(r)
  <2>1. CASE head[r] # NoHead
    BY <1>0, <2>1 DEF GatewayTypeOK, OnlyOf, OnError, json, WriteHead, ResEnd, ResDestroy
  <2>2. CASE head[r] = NoHead
    BY <1>0, <2>2 DEF GatewayTypeOK, OnlyOf, OnError, json, WriteHead, ResEnd, ResDestroy
  <2> QED BY <2>1, <2>2
<1>2. /\ \/ head[r] # NoHead /\ head'[r] = head[r] /\ res'[r] # "ended"
         \/ head[r] = NoHead /\ head'[r] = 504 /\ timedOut[r]
         \/ head[r] = NoHead /\ head'[r] = 502 /\ ~timedOut[r]
      /\ res'[r] \in {"open", "ended", "destroyed", "closed"} /\ (res'[r] = "open" => res[r] = "open")
      /\ pending'[r] \subseteq pending[r]
      /\ kind'[r] = kind[r]
      /\ pc'[r] = pc[r]
      /\ up'[r] = up[r]
      /\ timedOut'[r] = timedOut[r]
      /\ uploading'[r] = uploading[r]
      /\ broken'[r] = broken[r]
  <2>1. CASE head[r] # NoHead
    BY <1>0, <2>1 DEF GatewayTypeOK, OnError, json, WriteHead, ResEnd, ResDestroy
  <2>2. CASE head[r] = NoHead
    BY <1>0, <2>2 DEF GatewayTypeOK, OnError, json, WriteHead, ResEnd, ResDestroy
  <2> QED BY <2>1, <2>2
<1>3. TypedOf(r) /\ served' \in 0..MaxServed
  BY <1>0, <1>2 DEF GatewayTypeOK, TypedOf, OnError, json, WriteHead, ResEnd, ResDestroy
<1>4. alive' /\ badTarget' = badTarget
  BY <1>0 DEF RequestInv, UnusedIsFresh, StaticPath, ProxyPath, OnError, json, WriteHead,
     ResEnd, ResDestroy
<1>5. RequestInv(r)'
  BY <1>0, <1>2 DEF OnError, RequestInv, UnusedIsFresh, StaticPath, ProxyPath,
     OwedCallbacks, Cut, NoHead, Kinds, Routes
<1> QED BY <1>0, <1>1, <1>3, <1>4, <1>5, OneRequest DEF GatewayTypeOK, StaysUp

\* The pipeline of the body rejects.
LEMMA BodyRejectsInv ==
  ASSUME GatewayInv, alive, NEW r \in Requests, BodyRejects(r)
  PROVE  GatewayInv'
<1>0. RequestInv(r) /\ GatewayTypeOK /\ alive
  BY DEF GatewayInv
<1>1. OnlyOf(r)
  BY <1>0 DEF GatewayTypeOK, OnlyOf, BodyRejects, ResDestroy
<1>2. /\ res'[r] = IF res[r] \in {"open", "ended"} THEN "destroyed" ELSE res[r]
      /\ pending'[r] \subseteq pending[r]
      /\ kind'[r] = kind[r]
      /\ pc'[r] = pc[r]
      /\ head'[r] = head[r]
      /\ up'[r] = up[r]
      /\ timedOut'[r] = timedOut[r]
      /\ uploading'[r] = uploading[r]
      /\ broken'[r] = broken[r]
  BY <1>0 DEF GatewayTypeOK, BodyRejects, ResDestroy
<1>3. TypedOf(r) /\ served' \in 0..MaxServed
  BY <1>0, <1>2 DEF GatewayTypeOK, TypedOf, BodyRejects, ResDestroy
<1>4. alive' /\ badTarget' = badTarget
  BY <1>0 DEF RequestInv, UnusedIsFresh, StaticPath, ProxyPath, BodyRejects, ResDestroy
<1>5. RequestInv(r)'
  BY <1>0, <1>2 DEF BodyRejects, RequestInv, UnusedIsFresh, StaticPath, ProxyPath,
     OwedCallbacks, Cut, NoHead, Kinds, Routes
<1> QED BY <1>0, <1>1, <1>3, <1>4, <1>5, OneRequest DEF GatewayTypeOK, StaysUp

\* The request's own body is through.
LEMMA UploadEndsInv ==
  ASSUME GatewayInv, alive, NEW r \in Requests, UploadEnds(r)
  PROVE  GatewayInv'
<1>0. RequestInv(r) /\ GatewayTypeOK /\ alive
  BY DEF GatewayInv
<1>1. OnlyOf(r)
  BY <1>0 DEF GatewayTypeOK, OnlyOf, UploadEnds
<1>2. /\ ~uploading'[r]
      /\ kind'[r] = kind[r]
      /\ pc'[r] = pc[r]
      /\ head'[r] = head[r]
      /\ res'[r] = res[r]
      /\ up'[r] = up[r]
      /\ timedOut'[r] = timedOut[r]
      /\ pending'[r] = pending[r]
      /\ broken'[r] = broken[r]
  BY <1>0 DEF GatewayTypeOK, UploadEnds
<1>3. TypedOf(r) /\ served' \in 0..MaxServed
  BY <1>0, <1>2 DEF GatewayTypeOK, TypedOf, UploadEnds
<1>4. alive' /\ badTarget' = badTarget
  BY <1>0 DEF RequestInv, UnusedIsFresh, StaticPath, ProxyPath, UploadEnds
<1>5. RequestInv(r)'
  BY <1>0, <1>2 DEF UploadEnds, RequestInv, UnusedIsFresh, StaticPath, ProxyPath,
     OwedCallbacks, Cut, NoHead, Kinds, Routes
<1> QED BY <1>0, <1>1, <1>3, <1>4, <1>5, OneRequest DEF GatewayTypeOK, StaysUp

\* The pipeline of the request's own body rejects.
LEMMA UploadRejectsInv ==
  ASSUME GatewayInv, alive, NEW r \in Requests, UploadRejects(r)
  PROVE  GatewayInv'
<1>0. RequestInv(r) /\ GatewayTypeOK /\ alive
  BY DEF GatewayInv
<1>1. OnlyOf(r)
  BY <1>0 DEF GatewayTypeOK, OnlyOf, UploadRejects, ResDestroy
<1>2. /\ res'[r] = res[r] \/ res'[r] = "destroyed"
      /\ up'[r] = "done"
      /\ ~uploading'[r]
      /\ pending'[r] \in SUBSET {"error", "body", "upload"}
      /\ kind'[r] = kind[r]
      /\ pc'[r] = pc[r]
      /\ head'[r] = head[r]
      /\ timedOut'[r] = timedOut[r]
      /\ broken'[r] = broken[r]
  BY <1>0 DEF GatewayTypeOK, UploadRejects, ResDestroy
<1>3. TypedOf(r) /\ served' \in 0..MaxServed
  BY <1>0, <1>2 DEF GatewayTypeOK, TypedOf, UploadRejects, ResDestroy
<1>4. alive' /\ badTarget' = badTarget
  BY <1>0 DEF RequestInv, UnusedIsFresh, StaticPath, ProxyPath, UploadRejects, ResDestroy
<1>5. RequestInv(r)'
  BY <1>0, <1>2 DEF UploadRejects, RequestInv, UnusedIsFresh, StaticPath, ProxyPath,
     OwedCallbacks, Cut, NoHead, Kinds, Routes
<1> QED BY <1>0, <1>1, <1>3, <1>4, <1>5, OneRequest DEF GatewayTypeOK, StaysUp

\* The client hangs up.
LEMMA ClientLeavesInv ==
  ASSUME GatewayInv, alive, NEW r \in Requests, ClientLeaves(r)
  PROVE  GatewayInv'
<1>0. RequestInv(r) /\ GatewayTypeOK /\ alive
  BY DEF GatewayInv
<1>1. OnlyOf(r)
  BY <1>0 DEF GatewayTypeOK, OnlyOf, ClientLeaves, ResDestroy
<1>2. /\ res'[r] = "destroyed"
      /\ pending'[r] = pending[r] \cup (IF uploading[r] THEN {"upload"} ELSE {})
      /\ kind'[r] = kind[r]
      /\ pc'[r] = pc[r]
      /\ head'[r] = head[r]
      /\ up'[r] = up[r]
      /\ timedOut'[r] = timedOut[r]
      /\ uploading'[r] = uploading[r]
      /\ broken'[r] = broken[r]
  BY <1>0 DEF GatewayTypeOK, ClientLeaves, ResDestroy
<1>3. TypedOf(r) /\ served' \in 0..MaxServed
  BY <1>0, <1>2 DEF GatewayTypeOK, TypedOf, ClientLeaves, ResDestroy
<1>4. alive' /\ badTarget' = badTarget
  BY <1>0 DEF RequestInv, UnusedIsFresh, StaticPath, ProxyPath, ClientLeaves, ResDestroy
<1>5. RequestInv(r)'
  BY <1>0, <1>2 DEF ClientLeaves, RequestInv, UnusedIsFresh, StaticPath, ProxyPath,
     OwedCallbacks, Cut, NoHead, Kinds, Routes
<1> QED BY <1>0, <1>1, <1>3, <1>4, <1>5, OneRequest DEF GatewayTypeOK, StaysUp

\* The response closes and takes its upstream with it.
LEMMA OnCloseInv ==
  ASSUME GatewayInv, alive, NEW r \in Requests, OnClose(r)
  PROVE  GatewayInv'
<1>0. RequestInv(r) /\ GatewayTypeOK /\ alive
  BY DEF GatewayInv
<1>1. OnlyOf(r)
  BY <1>0 DEF GatewayTypeOK, OnlyOf, OnClose, DestroyUpstream
<1>2. /\ res'[r] = "closed"
      /\ up'[r] = IF up[r] = "none" THEN "none" ELSE "done"
      /\ pending'[r] = pending[r] \cup (IF up[r] = "waiting" THEN {"error"} ELSE {})
                           \cup (IF up[r] = "streaming" THEN {"body"} ELSE {})
      /\ kind'[r] = kind[r]
      /\ pc'[r] = pc[r]
      /\ head'[r] = head[r]
      /\ timedOut'[r] = timedOut[r]
      /\ uploading'[r] = uploading[r]
      /\ broken'[r] = broken[r]
  BY <1>0 DEF GatewayTypeOK, OnClose, DestroyUpstream
<1>3. TypedOf(r) /\ served' \in 0..MaxServed
  BY <1>0, <1>2 DEF GatewayTypeOK, TypedOf, OnClose, DestroyUpstream
<1>4. alive' /\ badTarget' = badTarget
  BY <1>0 DEF RequestInv, UnusedIsFresh, StaticPath, ProxyPath, OnClose, DestroyUpstream
<1>5. RequestInv(r)'
  BY <1>0, <1>2 DEF OnClose, RequestInv, UnusedIsFresh, StaticPath, ProxyPath,
     OwedCallbacks, Cut, NoHead, Kinds, Routes
<1> QED BY <1>0, <1>1, <1>3, <1>4, <1>5, OneRequest DEF GatewayTypeOK, StaysUp

\* The slot is free again.
LEMMA ForgottenInv ==
  ASSUME GatewayInv, alive, NEW r \in Requests, Forgotten(r)
  PROVE  GatewayInv'
<1>0. RequestInv(r) /\ GatewayTypeOK /\ alive
  BY DEF GatewayInv
<1>1. OnlyOf(r)
  BY <1>0 DEF GatewayTypeOK, OnlyOf, Forgotten
<1>2. /\ kind'[r] = "none"
      /\ pc'[r] = "none"
      /\ head'[r] = NoHead
      /\ res'[r] = "open"
      /\ up'[r] = "none"
      /\ ~timedOut'[r]
      /\ ~uploading'[r]
      /\ pending'[r] = {}
      /\ ~broken'[r]
  BY <1>0 DEF GatewayTypeOK, Forgotten
<1>3. TypedOf(r) /\ served' \in 0..MaxServed
  BY <1>0, <1>2 DEF GatewayTypeOK, TypedOf, Forgotten, NoHead
<1>4. alive' /\ badTarget' = badTarget
  BY <1>0 DEF RequestInv, UnusedIsFresh, StaticPath, ProxyPath, Forgotten
<1>5. RequestInv(r)'
  BY <1>0, <1>2 DEF Forgotten, RequestInv, UnusedIsFresh, StaticPath, ProxyPath,
     OwedCallbacks, Cut, NoHead, Kinds, Routes
<1> QED BY <1>0, <1>1, <1>3, <1>4, <1>5, OneRequest DEF GatewayTypeOK, StaysUp

\* The ways Arrive has to leave a request waiting.
Stats(r) == /\ \/ pc' = [pc EXCEPT ![r] = "stat"]
               \/ pc' = [pc EXCEPT ![r] = "statIndex"]
            /\ UNCHANGED <<alive, head, res, up, uploading, badTarget>>

Proxies(r, body) == /\ up' = [up EXCEPT ![r] = "waiting"]
                    /\ uploading' = [uploading EXCEPT ![r] = body]
                    /\ pc' = [pc EXCEPT ![r] = "proxy"]
                    /\ UNCHANGED <<alive, head, res, badTarget>>

\* The handler up to its first wait: the slot was fresh, whichever way it goes.
LEMMA ArriveInv ==
  ASSUME GatewayInv, alive, NEW r \in Requests, NEW k \in Kinds, NEW target \in Targets,
         NEW allowed \in BOOLEAN, NEW valid \in BOOLEAN, NEW body \in BOOLEAN,
         Arrive(r, k, target, allowed, valid, body)
  PROVE  GatewayInv'
<1>0. RequestInv(r) /\ GatewayTypeOK /\ alive
  BY DEF GatewayInv
<1>1. /\ head[r] = NoHead /\ res[r] = "open" /\ up[r] = "none" /\ ~broken[r]
      /\ pending[r] = {} /\ ~uploading[r]
  BY <1>0 DEF Arrive, RequestInv, UnusedIsFresh, OwedCallbacks
<1>2. /\ kind' = [kind EXCEPT ![r] = k] /\ UNCHANGED <<timedOut, pending, broken>>
      /\ served' \in 0..MaxServed
  BY <1>0, GatewayAssumption DEF Arrive, GatewayTypeOK
<1>3. \/ \E status \in {200, 401, 404, 429} : Answers(r, status)
      \/ Stats(r) \/ Proxies(r, body) \/ Throws(r)
  <2>1. \/ Answers(r, 200) \/ Throws(r)
        \/ Routed(r, k, target, allowed, valid, body)
    BY DEF Arrive
  <2>2. CASE Routed(r, k, target, allowed, valid, body)
    <3>1. \/ Answers(r, 401) \/ Answers(r, 404) \/ Answers(r, 429) \/ Throws(r)
          \/ Stats(r) \/ Proxies(r, body)
      BY <2>2 DEF Routed, Stats, Proxies
    <3> QED BY <3>1
  <2> QED BY <2>1, <2>2
<1>4. CASE \E status \in {200, 401, 404, 429} : Answers(r, status)
  <2>0. PICK status \in {200, 401, 404, 429} : Answers(r, status)
    BY <1>4
  <2>1. /\ json(r, status) /\ pc' = [pc EXCEPT ![r] = "returned"]
        /\ UNCHANGED <<up, uploading, badTarget>>
    BY <2>0 DEF Answers
  <2>2. OnlyOf(r)
    BY <1>0, <1>2, <2>1 DEF GatewayTypeOK, OnlyOf, json, WriteHead, ResEnd
  <2>3. TypedOf(r)
    BY <1>0, <1>1, <1>2, <2>1 DEF GatewayTypeOK, TypedOf, json, WriteHead, ResEnd
  <2>4. alive' /\ badTarget' = badTarget
    BY <1>1, <2>1 DEF json, WriteHead
  <2>5. /\ kind'[r] # "none" /\ pc'[r] = "returned" /\ head'[r] # NoHead
        /\ up'[r] = "none" /\ ~broken'[r] /\ pending'[r] = {} /\ ~uploading'[r]
    BY <1>0, <1>1, <1>2, <2>1
       DEF GatewayTypeOK, json, WriteHead, ResEnd, Kinds, Routes, NoHead
  <2>6. RequestInv(r)'
    BY <2>5 DEF RequestInv, UnusedIsFresh, StaticPath, ProxyPath, OwedCallbacks, Cut
  <2> QED BY <1>0, <1>2, <2>2, <2>3, <2>4, <2>6, OneRequest DEF GatewayTypeOK, StaysUp
<1>5. CASE Stats(r)
  <2>0. /\ \/ pc' = [pc EXCEPT ![r] = "stat"]
           \/ pc' = [pc EXCEPT ![r] = "statIndex"]
        /\ UNCHANGED <<alive, head, res, up, uploading, badTarget>>
    BY <1>5 DEF Stats
  <2>1. OnlyOf(r) /\ TypedOf(r)
    BY <1>0, <1>2, <2>0 DEF GatewayTypeOK, OnlyOf, TypedOf
  <2>2. /\ kind'[r] # "none" /\ pc'[r] \in {"stat", "statIndex"}
    BY <1>0, <1>2, <2>0 DEF GatewayTypeOK, Kinds, Routes
  <2>3. RequestInv(r)'
    BY <1>1, <1>2, <2>0, <2>2
       DEF RequestInv, UnusedIsFresh, StaticPath, ProxyPath, OwedCallbacks, Cut
  <2> QED BY <1>0, <1>2, <2>0, <2>1, <2>3, OneRequest DEF GatewayTypeOK, StaysUp
<1>6. CASE Proxies(r, body)
  <2>0. /\ up' = [up EXCEPT ![r] = "waiting"]
        /\ uploading' = [uploading EXCEPT ![r] = body]
        /\ pc' = [pc EXCEPT ![r] = "proxy"] /\ UNCHANGED <<alive, head, res, badTarget>>
    BY <1>6 DEF Proxies
  <2>1. OnlyOf(r) /\ TypedOf(r)
    BY <1>0, <1>2, <2>0 DEF GatewayTypeOK, OnlyOf, TypedOf
  <2>2. kind'[r] # "none" /\ pc'[r] = "proxy" /\ up'[r] = "waiting"
    BY <1>0, <1>2, <2>0 DEF GatewayTypeOK, Kinds, Routes
  <2>3. RequestInv(r)'
    BY <1>1, <1>2, <2>0, <2>2
       DEF RequestInv, UnusedIsFresh, StaticPath, ProxyPath, OwedCallbacks, Cut
  <2> QED BY <1>0, <1>2, <2>0, <2>1, <2>3, OneRequest DEF GatewayTypeOK, StaysUp
\* The request whose target made the handler throw was never answered.
<1>7. CASE Throws(r)
  <2>1. OnlyOf(r) /\ TypedOf(r)
    BY <1>0, <1>2, <1>7 DEF GatewayTypeOK, OnlyOf, TypedOf, Throws
  <2>2. kind'[r] # "none" /\ pc'[r] = "returned"
    BY <1>0, <1>2, <1>7 DEF GatewayTypeOK, Kinds, Routes, Throws
  <2>3. UNCHANGED <<head, res, up, uploading>> /\ ~alive' /\ alive' \in BOOLEAN /\ badTarget'
        /\ badTarget' \in BOOLEAN
    BY <1>7 DEF Throws
  <2>4. RequestInv(r)'
    BY <1>1, <1>2, <2>2, <2>3
       DEF RequestInv, UnusedIsFresh, StaticPath, ProxyPath, OwedCallbacks, Cut
  <2> QED BY <1>2, <2>1, <2>3, <2>4, OneRequest DEF StaysUp
<1> QED BY <1>3, <1>4, <1>5, <1>6, <1>7

LEMMA InitGatewayInv == GatewayInit => GatewayInv
<1> SUFFICES ASSUME GatewayInit PROVE GatewayInv
  OBVIOUS
<1>1. GatewayTypeOK
  <2>1. \A r \in Requests : head[r] = NoHead
    BY DEF GatewayInit, Fresh
  <2>2. NoHead # 504 /\ NoHead # 502
    BY DEF NoHead
  <2>3. alive \in BOOLEAN /\ badTarget \in BOOLEAN
    BY DEF GatewayInit
  <2> QED BY <2>1, <2>2, <2>3, GatewayAssumption DEF GatewayInit, Fresh, GatewayTypeOK
<1>2. ASSUME NEW r \in Requests PROVE RequestInv(r)
  BY DEF GatewayInit, Fresh, RequestInv, UnusedIsFresh, StaticPath, ProxyPath,
     OwedCallbacks, Cut
<1> QED BY <1>1, <1>2 DEF GatewayInit, GatewayInv, StaysUp

LEMMA NextGatewayInv == GatewayInv /\ [GatewayNext]_gatewayVars => GatewayInv'
<1> SUFFICES ASSUME GatewayInv, [GatewayNext]_gatewayVars PROVE GatewayInv'
  OBVIOUS
<1>1. CASE UNCHANGED gatewayVars
  BY <1>1 DEF gatewayVars, perRequest, GatewayInv, GatewayTypeOK, StaysUp, RequestInv,
     UnusedIsFresh, StaticPath, ProxyPath, OwedCallbacks, Cut
<1>2. ASSUME alive, NEW r \in Requests, Callback(r) PROVE GatewayInv'
  BY <1>2, OnErrorInv, BodyRejectsInv, UploadRejectsInv, OnCloseInv, FileFoundInv,
     FileMissingInv, FileBreaksInv, FileSentInv DEF Callback
<1>3. CASE GatewayNext
  BY <1>2, <1>3, ArriveInv, RespondsInv, EndsInv, BreaksInv, TimeoutInv, UploadEndsInv,
     ClientLeavesInv, ForgottenInv DEF GatewayNext
<1> QED BY <1>1, <1>3

\* Every state the handlers of server.ts, static.ts and proxy.ts reach satisfies
\* the invariant, whatever order their callbacks come in.
THEOREM GatewayInvariant == GatewaySpec => []GatewayInv
<1> QED BY InitGatewayInv, NextGatewayInv, PTL DEF GatewaySpec

\* Type correctness of the gateway's handlers and callbacks.
THEOREM GatewayTypeCorrect == GatewaySpec => []GatewayTypeOK
<1>1. GatewayInv => GatewayTypeOK
  BY DEF GatewayInv
<1> QED BY <1>1, GatewayInvariant, PTL

\* No order of response, error, timeout, close, upload and file callbacks, of
\* any number of requests, writes a second head: the process ends only over a
\* request target that new URL or the upstream request does not take.
THEOREM GatewayStaysUp == GatewaySpec => []StaysUp
<1>1. GatewayInv => StaysUp
  BY DEF GatewayInv
<1> QED BY <1>1, GatewayInvariant, PTL

\* A body that broke off behind its head is never ended like a complete one, by
\* none of the callbacks that are still owed.
THEOREM CutBodiesAreDropped == GatewaySpec => []CutBodyIsNotEnded
<1>1. GatewayInv => CutBodyIsNotEnded
  BY DEF GatewayInv, RequestInv, Cut, CutBodyIsNotEnded
<1> QED BY <1>1, GatewayInvariant, PTL

-----------------------------------------------------------------------------
(* The rate limiter *)

\* Rounding up: the quotient is enough, and one less is not.
LEMMA CeilingDivision ==
  ASSUME NEW a \in Nat \ {0}, NEW d \in Nat \ {0}
  PROVE  LET q == (a + d - 1) \div d
         IN  q \in Nat /\ q * d >= a /\ (q - 1) * d < a
<1> DEFINE q == (a + d - 1) \div d
           m == (a + d - 1) % d
<1>1. q \in Int /\ m \in 0..(d - 1) /\ a + d - 1 = d * q + m
  BY Z3
<1>2. q >= 0
  <2>1. ASSUME q <= -1 PROVE FALSE
    <3>1. d * q <= d * (-1)
      BY <1>1, <2>1, Z3
    <3> QED BY <1>1, <3>1, Z3
  <2> QED BY <1>1, <2>1, Z3
<1> QED BY <1>1, <1>2, Z3

-----------------------------------------------------------------------------
(* The inductive invariant: the pruned and the unpruned counters agree, which *)
(* is also what bounds the unpruned ones.                                     *)

RInv == TypeOK /\ PruneInvisible

LEMMA KeyOfCheck ==
  ASSUME NEW c \in Clients, NEW path
  PROVE  ruleFor(path) \in RuleIds /\ <<c, ruleFor(path)>> \in Keys
BY DEF ruleFor, RuleIds, Keys

LEMMA InitRInv == Init => RInv
BY RateLimiterAssumption DEF Init, RInv, TypeOK, PruneInvisible, NoDecision

LEMMA TickRInv ==
  ASSUME RInv, Tick
  PROVE  RInv'
<1>1. /\ MaxClock \in Nat /\ WindowMs \in Nat /\ clock \in 0..MaxClock
      /\ clock' = clock + 1 /\ clock' \in 0..MaxClock
      /\ UNCHANGED <<start, count, startAll, countAll, passed, last>>
  BY RateLimiterAssumption DEF RInv, TypeOK, Tick, counters, history
<1>2. TypeOK'
  BY <1>1 DEF RInv, TypeOK
<1>3. PruneInvisible'
  BY <1>1 DEF RInv, TypeOK, PruneInvisible, Expired
<1> QED BY <1>2, <1>3 DEF RInv

LEMMA PruneRInv ==
  ASSUME RInv, Prune
  PROVE  RInv'
<1>1. /\ MaxClock \in Nat /\ MaxHits \in Nat
      /\ UNCHANGED <<clock, startAll, countAll, passed, last>>
  BY RateLimiterAssumption DEF Prune, history
<1>2. TypeOK'
  <2>1. count' \in [Keys -> 0..MaxHits]
    BY <1>1 DEF RInv, TypeOK, Prune, Prunable, Expired
  <2>2. start' \in [Keys -> 0..MaxClock]
    BY <1>1 DEF RInv, TypeOK, Prune, Prunable, Expired
  <2> QED BY <1>1, <2>1, <2>2 DEF RInv, TypeOK
<1>3. PruneInvisible'
  BY <1>1 DEF RInv, TypeOK, PruneInvisible, Prune, Prunable, Expired
<1> QED BY <1>2, <1>3 DEF RInv

\* A window that is open has time left: Retry-After rounds it up.
LEMMA OpenWindow ==
  ASSUME RInv, NEW k \in Keys, ~Expired(start[k])
  PROVE  LET left == start[k] + WindowMs - clock
         IN  /\ left \in Nat \ {0}
             /\ RetryAfter(start[k]) \in Nat
             /\ RetryAfter(start[k]) * SecondMs >= left
             /\ (RetryAfter(start[k]) - 1) * SecondMs < left
<1> DEFINE left == start[k] + WindowMs - clock
<1>1. start[k] \in Nat /\ clock \in Nat /\ WindowMs \in Nat /\ SecondMs \in Nat \ {0}
  BY RateLimiterAssumption DEF RInv, TypeOK
<1>2. left \in Nat \ {0}
  BY <1>1 DEF Expired
<1>3. RetryAfter(start[k]) = (left + SecondMs - 1) \div SecondMs
  <2>1. WindowMs - (clock - start[k]) + SecondMs - 1 = left + SecondMs - 1
    BY <1>1
  <2> QED BY <2>1 DEF RetryAfter
<1> QED BY <1>1, <1>2, <1>3, CeilingDivision

LEMMA CheckRInv ==
  ASSUME RInv, NEW c \in Clients, NEW path, Check(c, path)
  PROVE  RInv' /\ (RetryAfterExact => RetryAfterExact')
<1> DEFINE k     == <<c, ruleFor(path)>>
           max   == Limit[ruleFor(path)]
           opens == count[k] = 0 \/ Expired(start[k])
           n     == IF opens THEN 1 ELSE count[k] + 1
           ok    == opens \/ WithinLimit(n, max)
           opensAll == countAll[k] = 0 \/ Expired(startAll[k])
<1>0. k \in Keys /\ max \in Nat
  BY KeyOfCheck, RateLimiterAssumption
<1>1. /\ MaxClock \in Nat /\ MaxHits \in Nat /\ WindowMs \in Nat \ {0}
      /\ clock \in 0..MaxClock
      /\ start[k] \in 0..MaxClock /\ startAll[k] \in 0..MaxClock
      /\ count[k] \in 0..MaxHits /\ countAll[k] \in 0..MaxHits
  BY <1>0, RateLimiterAssumption DEF RInv, TypeOK
<1>2. /\ n <= MaxHits /\ clock' = clock
      /\ start' = [start EXCEPT ![k] = IF opens THEN clock ELSE @]
      /\ count' = [count EXCEPT ![k] = n]
      /\ startAll' = [startAll EXCEPT ![k] = IF opensAll THEN clock ELSE @]
      /\ countAll' = [countAll EXCEPT ![k] = IF opensAll THEN 1 ELSE @ + 1]
      /\ passed' = [passed EXCEPT ![k] = IF ok THEN Append(@, clock) ELSE @]
      /\ last' = [allowed    |-> ok,
                  retryAfter |-> IF ok THEN 0 ELSE RetryAfter(start[k]),
                  ends       |-> start'[k] + WindowMs - clock]
  BY DEF Check
<1>3. n \in 0..MaxHits
  BY <1>1, <1>2
<1>4. /\ opens => opensAll
      /\ ~opens => ~opensAll /\ countAll[k] = count[k] /\ startAll[k] = start[k]
  BY <1>0, <1>1 DEF RInv, PruneInvisible
<1>5. /\ start' \in [Keys -> 0..MaxClock] /\ count' \in [Keys -> 0..MaxHits]
      /\ startAll' \in [Keys -> 0..MaxClock] /\ countAll' \in [Keys -> 0..MaxHits]
  BY <1>0, <1>1, <1>2, <1>3, <1>4 DEF RInv, TypeOK
<1>6. passed' \in [Keys -> Seq(0..MaxClock)]
  <2> HIDE DEF ok
  <2>1. passed[k] \in Seq(0..MaxClock) /\ Append(passed[k], clock) \in Seq(0..MaxClock)
    BY <1>0, <1>1 DEF RInv, TypeOK
  <2> QED BY <1>0, <1>2, <2>1 DEF RInv, TypeOK
<1>7. /\ last' \in [allowed : BOOLEAN, retryAfter : Nat, ends : Nat]
      /\ RetryAfterExact'
  <2>1. ok \in BOOLEAN
    BY DEF WithinLimit
  <2>2. CASE ok
    <3>1. start'[k] + WindowMs - clock \in Nat
      <4>1. CASE opens
        BY <1>0, <1>1, <1>2, <4>1 DEF RInv, TypeOK
      <4>2. CASE ~opens
        BY <1>0, <1>1, <1>2, <4>2, OpenWindow DEF RInv, TypeOK
      <4> QED BY <4>1, <4>2
    <3> QED BY <1>2, <2>1, <2>2, <3>1 DEF RetryAfterExact
  <2>3. CASE ~ok
    <3>1. ~Expired(start[k]) /\ start'[k] = start[k]
      BY <1>0, <1>2, <2>3 DEF RInv, TypeOK
    <3>2. LET left == start[k] + WindowMs - clock
          IN  /\ left \in Nat \ {0}
              /\ RetryAfter(start[k]) \in Nat
              /\ RetryAfter(start[k]) * SecondMs >= left
              /\ (RetryAfter(start[k]) - 1) * SecondMs < left
      BY <1>0, <3>1, OpenWindow
    <3>3. /\ last'.allowed = FALSE /\ last'.retryAfter = RetryAfter(start[k])
          /\ last'.ends = start[k] + WindowMs - clock
          /\ last' \in [allowed : BOOLEAN, retryAfter : Nat, ends : Nat]
      BY <1>2, <2>3, <3>1, <3>2
    <3> QED BY <3>2, <3>3 DEF RetryAfterExact
  <2> QED BY <2>1, <2>2, <2>3
<1>8. TypeOK'
  BY <1>1, <1>2, <1>5, <1>6, <1>7 DEF TypeOK
<1>9. PruneInvisible'
  <2>1. count'[k] = countAll'[k] /\ start'[k] = startAll'[k]
    BY <1>0, <1>2, <1>4 DEF RInv, TypeOK
  <2>2. \A j \in Keys : j # k => /\ count'[j] = count[j] /\ countAll'[j] = countAll[j]
                                 /\ start'[j] = start[j] /\ startAll'[j] = startAll[j]
    BY <1>0, <1>2 DEF RInv, TypeOK
  <2> QED BY <1>2, <2>1, <2>2 DEF RInv, PruneInvisible, Expired
<1> QED BY <1>7, <1>8, <1>9 DEF RInv

LEMMA NextRInv == RInv /\ [Next]_vars => RInv'
<1> SUFFICES ASSUME RInv, [Next]_vars PROVE RInv'
  OBVIOUS
<1>1. CASE UNCHANGED vars
  BY <1>1 DEF vars, counters, history, RInv, TypeOK, PruneInvisible, Expired
<1> QED BY <1>1, CheckRInv, PruneRInv, TickRInv DEF Next

\* Check, prune and the clock keep the counters well typed, and the number of
\* seconds in Retry-After is never negative.
THEOREM LimiterTypeCorrect == Spec => []TypeOK
<1>1. RInv => TypeOK
  BY DEF RInv
<1> QED BY <1>1, InitRInv, NextRInv, PTL DEF Spec

\* Whenever the timer runs, pruning changes no decision: for every set of
\* clients, every limit and every window length.
THEOREM PruningIsInvisible == Spec => []PruneInvisible
<1>1. RInv => PruneInvisible
  BY DEF RInv
<1> QED BY <1>1, InitRInv, NextRInv, PTL DEF Spec

\* The Retry-After of a denial is the exact number of seconds, rounded up,
\* until its window is over.
THEOREM RetryAfterIsExact == Spec => []RetryAfterExact
<1>1. Init => RetryAfterExact
  BY DEF Init, RetryAfterExact, NoDecision
<1>2. RInv /\ RetryAfterExact /\ [Next]_vars => RetryAfterExact'
  <2> SUFFICES ASSUME RInv, RetryAfterExact, [Next]_vars PROVE RetryAfterExact'
    OBVIOUS
  <2>1. CASE Prune \/ Tick \/ UNCHANGED vars
    BY <2>1 DEF Prune, Tick, vars, history, RetryAfterExact
  <2> QED BY <2>1, CheckRInv DEF Next
<1> QED BY <1>1, <1>2, InitRInv, NextRInv, PTL DEF Spec

-----------------------------------------------------------------------------
(* Bursts.  A window's requests are the last ones of the log: as many as were *)
(* counted in it, up to the limit.  The ones before them are not later than   *)
(* its start, and the ones before the previous window's are a window length   *)
(* older, because a window opens when the one before it has expired.          *)

InWindow(k) == IF countAll[k] < Limit[k[2]] THEN countAll[k] ELSE Limit[k[2]]

\* A log at time t whose last q requests are those of the window opened at s.
Logged(log, t, s, q, max) ==
  /\ s <= t
  /\ \A i \in 1..Len(log) : log[i] <= t
  /\ \A i \in 1..Len(log) : i <= Len(log) - q => log[i] <= s
  /\ \A i \in 1..Len(log) : i <= Len(log) - q - max => log[i] + WindowMs <= s

Spread(log, max) ==
  \A i \in 1..(Len(log) - 2 * max) : log[i + 2 * max] - log[i] >= WindowMs

LogOf(k) == /\ countAll[k] = 0 => Len(passed[k]) = 0
            /\ Logged(passed[k], clock, startAll[k], InWindow(k), Limit[k[2]])
            /\ Spread(passed[k], Limit[k[2]])

LogInv == \A k \in Keys : LogOf(k)

\* A request opens a window: the last one has expired, or there was none.
LEMMA LoggedOpens ==
  ASSUME NEW log \in Seq(Nat), NEW t \in Nat, NEW s \in Nat, NEW max \in Nat \ {0}, NEW q \in 0..max,
         Logged(log, t, s, q, max), Spread(log, max), Len(log) = 0 \/ t - s >= WindowMs
  PROVE  Logged(Append(log, t), t, t, 1, max) /\ Spread(Append(log, t), max)
<1> DEFINE len == Len(log)
           new == Append(log, t)
<1>1. /\ WindowMs \in Nat /\ len \in Nat /\ \A i \in 1..len : log[i] \in Nat
  BY RateLimiterAssumption
<1>2. Len(new) = len + 1 /\ new[len + 1] = t /\ \A i \in 1..len : new[i] = log[i]
  OBVIOUS
<1>3. \A i \in 1..len : i <= len - max => log[i] + WindowMs <= t
  <2> SUFFICES ASSUME NEW i \in 1..len, i <= len - max PROVE log[i] + WindowMs <= t
    OBVIOUS
  <2>1. i <= len - q /\ log[i] <= s
    BY <1>1 DEF Logged
  <2>2. log[i] \in Nat /\ len # 0
    BY <1>1
  <2>3. t - s >= WindowMs
    BY <2>2
  <2> DEFINE x == log[i]
  <2>4. x \in Nat /\ x <= s /\ WindowMs \in Nat /\ t - s >= WindowMs
    BY <1>1, <2>1, <2>2, <2>3
  <2> HIDE DEF x
  <2>5. x + WindowMs <= t
    BY <2>4
  <2> QED BY <2>5 DEF x
<1>4. \A i \in 1..len : log[i] <= t
  BY DEF Logged
<1>5. \A i \in 1..(len - 2 * max) : log[i + 2 * max] - log[i] >= WindowMs
  BY DEF Spread
<1> HIDE DEF len, new
<1>6. Logged(new, t, t, 1, max)
  <2>1. \A i \in 1..(len + 1) : new[i] <= t
    BY <1>1, <1>2, <1>4
  <2>2. \A i \in 1..(len + 1) : i <= (len + 1) - 1 - max => new[i] + WindowMs <= t
    BY <1>1, <1>2, <1>3
  <2> QED BY <1>2, <2>1, <2>2 DEF Logged
<1>7. Spread(new, max)
  <2> SUFFICES \A i \in 1..((len + 1) - 2 * max) : new[i + 2 * max] - new[i] >= WindowMs
    BY <1>2, Zenon DEF Spread
  <2> TAKE i \in 1..((len + 1) - 2 * max)
  <2>1. i \in 1..len /\ new[i] = log[i] /\ i <= len - max
    BY <1>1, <1>2
  <2>2. CASE i + 2 * max = len + 1
    <3>1. log[i] + WindowMs <= t /\ new[i + 2 * max] = t /\ log[i] \in Nat
      BY <1>1, <1>2, <1>3, <2>1, <2>2
    <3> QED BY <1>1, <2>1, <3>1
  <2>3. CASE i + 2 * max # len + 1
    <3>1. i \in 1..(len - 2 * max) /\ i + 2 * max \in 1..len
      BY <1>1, <2>3
    <3> QED BY <1>2, <1>5, <2>1, <3>1
  <2> QED BY <2>2, <2>3
<1> QED BY <1>6, <1>7 DEF new

\* A request is counted in the open window, and is within the limit.
LEMMA LoggedCounts ==
  ASSUME NEW log \in Seq(Nat), NEW t \in Nat, NEW s \in Nat, NEW max \in Nat \ {0}, NEW q \in Nat,
         q + 1 <= max, Logged(log, t, s, q, max), Spread(log, max)
  PROVE  Logged(Append(log, t), t, s, q + 1, max) /\ Spread(Append(log, t), max)
<1> DEFINE len == Len(log)
           new == Append(log, t)
<1>1. /\ WindowMs \in Nat /\ len \in Nat /\ \A i \in 1..len : log[i] \in Nat
  BY RateLimiterAssumption
<1>2. Len(new) = len + 1 /\ new[len + 1] = t /\ \A i \in 1..len : new[i] = log[i]
  OBVIOUS
<1>3. /\ s <= t
      /\ \A i \in 1..len : log[i] <= t
      /\ \A i \in 1..len : i <= len - q => log[i] <= s
      /\ \A i \in 1..len : i <= len - q - max => log[i] + WindowMs <= s
  BY DEF Logged
<1>4. \A i \in 1..(len - 2 * max) : log[i + 2 * max] - log[i] >= WindowMs
  BY DEF Spread
<1> HIDE DEF len, new
<1>5. Logged(new, t, s, q + 1, max)
  <2>1. \A i \in 1..(len + 1) : new[i] <= t
    BY <1>1, <1>2, <1>3
  <2>2. \A i \in 1..(len + 1) : i <= (len + 1) - (q + 1) => new[i] <= s
    BY <1>1, <1>2, <1>3
  <2>3. \A i \in 1..(len + 1) : i <= (len + 1) - (q + 1) - max => new[i] + WindowMs <= s
    BY <1>1, <1>2, <1>3
  <2> QED BY <1>2, <1>3, <2>1, <2>2, <2>3 DEF Logged
<1>6. Spread(new, max)
  <2> SUFFICES \A i \in 1..((len + 1) - 2 * max) : new[i + 2 * max] - new[i] >= WindowMs
    BY <1>2, Zenon DEF Spread
  <2> TAKE i \in 1..((len + 1) - 2 * max)
  <2>1. i \in 1..len /\ new[i] = log[i]
    BY <1>1, <1>2
  <2>2. CASE i + 2 * max = len + 1
    <3>1. i <= len - q - max /\ new[i + 2 * max] = t
      BY <1>1, <1>2, <2>2
    <3>2. log[i] + WindowMs <= s /\ log[i] \in Nat
      BY <1>1, <1>3, <2>1, <3>1
    <3> QED BY <1>1, <1>3, <2>1, <3>1, <3>2
  <2>3. CASE i + 2 * max # len + 1
    <3>1. i \in 1..(len - 2 * max) /\ i + 2 * max \in 1..len
      BY <1>1, <2>3
    <3> QED BY <1>2, <1>4, <2>1, <3>1
  <2> QED BY <2>2, <2>3
<1> QED BY <1>5, <1>6 DEF new

LEMMA LimitOfKey ==
  ASSUME NEW k \in Keys
  PROVE  Limit[k[2]] \in Nat \ {0}
BY RateLimiterAssumption DEF Keys

LEMMA LogType ==
  ASSUME RInv, NEW k \in Keys
  PROVE  /\ clock \in Nat /\ startAll[k] \in Nat /\ countAll[k] \in Nat /\ count[k] \in Nat
         /\ passed[k] \in Seq(Nat) /\ Len(passed[k]) \in Nat
         /\ InWindow(k) \in 0..Limit[k[2]]
<1>1. passed[k] \in Seq(0..MaxClock)
  BY DEF RInv, TypeOK
<1>2. passed[k] \in Seq(Nat)
  BY <1>1, RateLimiterAssumption
<1>3. clock \in Nat /\ startAll[k] \in Nat /\ countAll[k] \in Nat /\ count[k] \in Nat
  BY RateLimiterAssumption DEF RInv, TypeOK
<1> QED BY <1>2, <1>3, LimitOfKey DEF InWindow

LEMMA LogOfSame ==
  ASSUME RInv, NEW k \in Keys, LogOf(k), clock' \in Nat, clock <= clock',
         startAll'[k] = startAll[k], countAll'[k] = countAll[k], passed'[k] = passed[k]
  PROVE  LogOf(k)'
<1>1. InWindow(k)' = InWindow(k)
  BY DEF InWindow
<1>2. Logged(passed[k], clock', startAll[k], InWindow(k), Limit[k[2]])
  <2>1. clock \in Nat /\ startAll[k] \in Nat /\ \A i \in 1..Len(passed[k]) : passed[k][i] \in Nat
    BY LogType
  <2>2. /\ startAll[k] <= clock
        /\ \A i \in 1..Len(passed[k]) : passed[k][i] <= clock
    BY DEF LogOf, Logged
  <2>3. startAll[k] <= clock' /\ \A i \in 1..Len(passed[k]) : passed[k][i] <= clock'
    BY <2>1, <2>2
  <2> QED BY <2>3, Zenon DEF LogOf, Logged
<1> QED BY <1>1, <1>2 DEF LogOf

\* The key of a check, whose request is counted and, if allowed, logged.
LEMMA LogOfChecked ==
  ASSUME RInv, NEW c \in Clients, NEW path, Check(c, path), NEW k, k = <<c, ruleFor(path)>>, LogOf(k)
  PROVE  LogOf(k)'
<1> DEFINE max   == Limit[k[2]]
           opens == count[k] = 0 \/ Expired(start[k])
           n     == IF opens THEN 1 ELSE count[k] + 1
           ok    == opens \/ WithinLimit(n, max)
           opensAll == countAll[k] = 0 \/ Expired(startAll[k])
<1>0. k \in Keys /\ max \in Nat \ {0} /\ k[2] = ruleFor(path)
  BY KeyOfCheck, RateLimiterAssumption
<1>1. /\ clock \in Nat /\ startAll[k] \in Nat /\ countAll[k] \in Nat /\ count[k] \in Nat
      /\ passed[k] \in Seq(Nat) /\ InWindow(k) \in 0..max
  BY <1>0, LogType
<1>2. /\ clock' = clock
      /\ startAll'[k] = IF opensAll THEN clock ELSE startAll[k]
      /\ countAll'[k] = IF opensAll THEN 1 ELSE countAll[k] + 1
      /\ passed'[k] = IF ok THEN Append(passed[k], clock) ELSE passed[k]
  BY <1>0 DEF Check, RInv, TypeOK
<1>3. /\ opens => opensAll
      /\ ~opens => ~opensAll /\ countAll[k] = count[k] /\ startAll[k] = start[k]
  BY <1>0, <1>1 DEF RInv, PruneInvisible
<1>4. /\ countAll[k] = 0 => Len(passed[k]) = 0
      /\ Logged(passed[k], clock, startAll[k], InWindow(k), max) /\ Spread(passed[k], max)
  BY DEF LogOf
<1>5. InWindow(k) = IF countAll[k] < max THEN countAll[k] ELSE max
  BY DEF InWindow
<1>6. InWindow(k)' = IF countAll'[k] < max THEN countAll'[k] ELSE max
  BY DEF InWindow
<1>7. countAll'[k] # 0
  BY <1>1, <1>2
<1>8. CASE opens
  <2>1. /\ startAll'[k] = clock /\ InWindow(k)' = 1 /\ passed'[k] = Append(passed[k], clock)
    BY <1>0, <1>2, <1>3, <1>6, <1>8
  <2>2. Len(passed[k]) = 0 \/ clock - startAll[k] >= WindowMs
    BY <1>3, <1>4, <1>8 DEF Expired
  <2> HIDE DEF max
  <2>3. Logged(passed'[k], clock, clock, 1, max) /\ Spread(passed'[k], max)
    BY <1>0, <1>1, <1>4, <2>1, <2>2, LoggedOpens
  <2> QED BY <1>2, <1>7, <2>1, <2>3 DEF LogOf, max
<1>9. CASE ~opens /\ ok
  <2>1. /\ startAll'[k] = startAll[k] /\ passed'[k] = Append(passed[k], clock)
        /\ InWindow(k)' = InWindow(k) + 1 /\ InWindow(k) + 1 <= max
    BY <1>0, <1>1, <1>2, <1>3, <1>5, <1>6, <1>9 DEF WithinLimit
  <2> HIDE DEF max
  <2>2. InWindow(k) \in Nat
    BY <1>0, <1>1
  <2>3. Logged(passed'[k], clock, startAll[k], InWindow(k) + 1, max) /\ Spread(passed'[k], max)
    BY <1>0, <1>1, <1>4, <2>1, <2>2, LoggedCounts
  <2> QED BY <1>2, <1>7, <2>1, <2>3 DEF LogOf, max
<1>10. CASE ~ok
  <2>1. passed'[k] = passed[k] /\ startAll'[k] = startAll[k] /\ InWindow(k)' = InWindow(k)
    BY <1>0, <1>1, <1>2, <1>3, <1>5, <1>6, <1>10 DEF WithinLimit
  <2> QED BY <1>2, <1>4, <1>7, <2>1 DEF LogOf
<1> QED BY <1>8, <1>9, <1>10

LEMMA LogInvStep ==
  ASSUME RInv, LogInv, [Next]_vars
  PROVE  LogInv'
<1> SUFFICES ASSUME NEW k \in Keys PROVE LogOf(k)'
  BY DEF LogInv
<1>1. LogOf(k)
  BY DEF LogInv
<1>2. clock \in Nat
  BY RateLimiterAssumption DEF RInv, TypeOK
<1>3. CASE Prune \/ Tick \/ UNCHANGED vars
  <2>1. /\ clock' \in Nat /\ clock <= clock'
        /\ startAll' = startAll /\ countAll' = countAll /\ passed' = passed
    BY <1>2, <1>3 DEF Prune, Tick, vars, history, counters
  <2> QED BY <1>1, <2>1, LogOfSame
<1>4. ASSUME NEW c \in Clients, NEW path \in Paths, Check(c, path)
      PROVE  LogOf(k)'
  <2>1. CASE k = <<c, ruleFor(path)>>
    BY <1>1, <1>4, <2>1, LogOfChecked
  <2>2. CASE k # <<c, ruleFor(path)>>
    <3>1. /\ startAll'[k] = startAll[k] /\ countAll'[k] = countAll[k] /\ passed'[k] = passed[k]
          /\ clock' = clock
      BY <1>4, <2>2, KeyOfCheck DEF Check, RInv, TypeOK
    <3>2. clock <= clock' /\ clock' \in Nat
      BY <1>2, <3>1
    <3> QED BY <1>1, <3>1, <3>2, LogOfSame
  <2> QED BY <2>1, <2>2
<1> QED BY <1>3, <1>4 DEF Next

\* A client gets at most twice the limit of a rule through in any stretch of
\* one window length: for every limit, every window length and wherever prune
\* and the window boundaries fall.
THEOREM BurstsAreBounded == Spec => []BurstBound
<1>1. Init => LogInv
  <2> SUFFICES ASSUME Init, NEW k \in Keys PROVE LogOf(k)
    BY DEF LogInv
  <2>1. /\ passed[k] = <<>> /\ Len(passed[k]) = 0 /\ countAll[k] = 0 /\ startAll[k] = 0 /\ clock = 0
        /\ Limit[k[2]] \in Nat \ {0}
    BY LimitOfKey DEF Init
  <2> QED BY <2>1 DEF LogOf, Logged, Spread
<1>2. RInv /\ LogInv /\ [Next]_vars => LogInv'
  BY LogInvStep
<1>3. LogInv => BurstBound
  BY DEF LogInv, LogOf, Spread, BurstBound
<1> QED BY <1>1, <1>2, <1>3, InitRInv, NextRInv, PTL DEF Spec
=============================================================================
