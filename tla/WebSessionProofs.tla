-------------------------- MODULE WebSessionProofs --------------------------
(***************************************************************************)
(* Proofs about WebSession, for any number of tabs, requests in flight,    *)
(* tokens and faults: the types, that theft detection does not end an      *)
(* honest browser's session, that a sign-out ends it, and that what the    *)
(* three endpoints do to a session here are steps of SessionFamily.        *)
(*                                                                         *)
(* The invariant says where the holder of a family can be.  A family is    *)
(* held by one live token or by one request that has spent it (OneHolder). *)
(* Unless the family is excused, a refresh that is on its way carries the  *)
(* live token (SentIsLive), and so does the jar, or else the answer that   *)
(* will replace the jar's token is still awaited (JarIsLive).  A cookie    *)
(* that has not been delivered has never been sent (Sealed).               *)
(*                                                                         *)
(* The predicates take the table of requests and the excused families as   *)
(* arguments, because a page that is loaded drops its old requests and     *)
(* sends a new one in the same step.                                       *)
(***************************************************************************)
EXTENDS WebSession, TLAPS

\* Nothing holds the family: no refresh of it will ever succeed again.
Dead(rq, f) ==
  /\ \A t \in live : family[t] # f
  /\ \A r \in Slots : rq[r].st = "issuing" => family[rq[r].tok] # f

Refreshes(q) == q.kind = "refresh" /\ q.tok # NoToken

\* A family is a set of issued tokens.
Families ==
  /\ \A t \in 1..issued : family[t] \in 1..issued
  /\ \A t \in Tokens : t > issued => family[t] = NoToken

\* One request in each of its states.
Shape(q) ==
  /\ q.tok \in 0..issued
  /\ q.st = "free" => q = Free
  /\ q.st # "free" => q.kind # "none"
  /\ q.st = "issuing" => Refreshes(q)
  /\ q.st \in {"sent", "issuing"} => q.cookie = NoCookie /\ q.ok = FALSE
  /\ q.st = "answered" => q.tab # NoTab
  /\ q.st = "answered" /\ q.kind = "refresh" /\ q.ok =>
       q.cookie \in 1..issued /\ q.tok # NoToken /\ family[q.cookie] = family[q.tok]
  /\ q.st = "answered" /\ q.kind = "login" /\ q.ok =>
       q.cookie \in 1..issued
         /\ \A t \in 1..issued : family[t] = family[q.cookie] => t = q.cookie
  /\ q.st = "answered" /\ q.kind = "logout" => q.cookie = NoToken
  /\ q.st = "answered" /\ q.kind # "logout" /\ ~q.ok => q.cookie = NoCookie

Shapes(rq) == \A r \in Slots : Shape(rq[r])

\* A cookie on its way to the browser: it has not been there, and the session
\* it belongs to is held by it or by nobody.
Sealed(rq) ==
  \A r \in Slots : rq[r].st = "answered" /\ rq[r].cookie \in Tokens =>
    /\ jar # rq[r].cookie
    /\ \A s \in Slots : /\ rq[s].tok # rq[r].cookie
                        /\ s # r => rq[s].cookie # rq[r].cookie
    /\ rq[r].cookie \in live \/ Dead(rq, family[rq[r].cookie])

OneHolder(rq) ==
  /\ \A t, u \in live : family[t] = family[u] => t = u
  /\ \A r, s \in Slots : rq[r].st = "issuing" /\ rq[s].st = "issuing"
                           /\ family[rq[r].tok] = family[rq[s].tok] => r = s
  /\ \A t \in live, r \in Slots : rq[r].st = "issuing" => family[t] # family[rq[r].tok]

\* refreshInFlight: a page waits for one refresh at most.
OneRefresh(rq) ==
  \A r, s \in Slots :
    rq[r].kind = "refresh" /\ rq[s].kind = "refresh" /\ rq[r].tab = rq[s].tab
      => r = s \/ rq[r].tab = NoTab

SharedIsExcused(rq, ex) ==
  \A r, s \in Slots :
    Refreshes(rq[r]) /\ Refreshes(rq[s]) /\ rq[r].tok = rq[s].tok
      => r = s \/ family[rq[r].tok] \in ex

OrphanIsExcused(rq, ex) ==
  \A r \in Slots : rq[r].st = "issuing" /\ rq[r].tab = NoTab => family[rq[r].tok] \in ex

SentIsLive(rq, ex) ==
  \A r \in Slots : Refreshes(rq[r]) /\ rq[r].st = "sent" =>
    \/ family[rq[r].tok] \in ex
    \/ rq[r].tok \in live
    \/ Dead(rq, family[rq[r].tok])

JarIsLive(rq, ex) ==
  jar # NoToken =>
    \/ family[jar] \in ex
    \/ jar \in live
    \/ Dead(rq, family[jar])
    \/ \E p \in Slots : rq[p].tok = jar /\ Spent(rq[p]) /\ rq[p].tab # NoTab

\* A sign-out without a refresh beside it: none of its session is in flight, and
\* once it is answered the session is over.
Alone(rq) ==
  \A r \in Slots :
    /\ rq[r].kind = "logout" /\ rq[r].tok # NoToken /\ ~rq[r].crossed
    /\ rq[r].st = "sent" \/ (rq[r].st = "answered" /\ rq[r].ok)
    => /\ \A s \in Slots : Refreshes(rq[s]) => family[rq[s].tok] # family[rq[r].tok]
       /\ rq[r].st = "answered" => \A t \in live : family[t] # family[rq[r].tok]

\* A session whose sign-out has come through is over, and nothing of it is in
\* flight to bring it back.
Over(rq) ==
  \A b \in Tabs : signedOut[b] # NoToken =>
    /\ \A t \in live : family[t] # signedOut[b]
    /\ \A r \in Slots : Refreshes(rq[r]) => family[rq[r].tok] # signedOut[b]
    /\ \A r \in Slots : rq[r].st = "answered" /\ rq[r].cookie \in Tokens =>
                          family[rq[r].cookie] # signedOut[b]
    /\ jar # NoToken => family[jar] # signedOut[b]
    /\ access[b] # signedOut[b]

\* The part of the invariant that the requests carry.
Flight(rq, ex) ==
  /\ Shapes(rq) /\ Sealed(rq) /\ OneHolder(rq) /\ OneRefresh(rq)
  /\ SharedIsExcused(rq, ex) /\ OrphanIsExcused(rq, ex)
  /\ SentIsLive(rq, ex) /\ JarIsLive(rq, ex) /\ Alone(rq)

\* WebTypeOK in three parts.
ServerOK ==
  /\ issued \in 0..MaxTokens
  /\ family \in [Tokens -> Tokens \cup {NoToken}]
  /\ live \subseteq 1..issued
  /\ jar \in 0..issued

PagesOK ==
  /\ page \in [Tabs -> {"closed", "loading", "anonymous", "authenticated"}]
  /\ shown \in [Tabs -> 0..issued]
  /\ access \in [Tabs -> 0..issued]

HistoryOK ==
  /\ faults \in 0..MaxFaults
  /\ excused \subseteq 1..issued
  /\ signedOut \in [Tabs -> 0..issued]

RequestsOK == req \in [Slots -> Request]

WebInv ==
  /\ ServerOK /\ PagesOK /\ HistoryOK /\ RequestsOK /\ Families
  /\ Flight(req, excused) /\ Over(req) /\ NoFalseTheft

-----------------------------------------------------------------------------
(* Requests that nobody waits for any more, and requests that are sent *)

\* q and p are the same request but for who waits for it and for the mark of a
\* sign-out.
Alike(q, p) ==
  /\ p.st = q.st /\ p.kind = q.kind /\ p.tok = q.tok /\ p.ok = q.ok /\ p.cookie = q.cookie
  /\ p.crossed = FALSE => q.crossed = FALSE
  /\ q.st = "free" => p = q

\* rq with some requests abandoned; a reply that carried the next token is lost
\* only to an excused family.
Thinner(rq, ex, thin) ==
  \A r \in Slots :
    \/ /\ Alike(rq[r], thin[r]) /\ thin[r].tab = rq[r].tab
    \/ /\ Alike(rq[r], thin[r]) /\ thin[r].tab = NoTab
       /\ rq[r].st # "answered"
       /\ Spent(rq[r]) => family[rq[r].tok] \in ex
    \/ /\ thin[r] = Free /\ rq[r].st # "issuing"
       /\ Spent(rq[r]) => family[rq[r].tok] \in ex

\* Abandoning requests keeps what the invariant says of the others.
LEMMA ThinFlight ==
  ASSUME ServerOK, NEW rq, NEW ex, NEW thin, NEW more,
         Flight(rq, ex), ex \subseteq more, Thinner(rq, more, thin)
  PROVE  Flight(thin, more)
<1> USE DEF Free
<1>1. \A f : Dead(rq, f) <=> Dead(thin, f)
  BY DEF Thinner, Alike, Dead
<1>2. Shapes(thin)
  <2> SUFFICES ASSUME NEW r \in Slots PROVE Shape(thin[r])
    BY DEF Shapes
  <2>1. Shape(rq[r])
    BY DEF Flight, Shapes
  <2>2. CASE thin[r] = Free
    BY <2>2, <2>1 DEF Shape, NoToken, Refreshes, ServerOK
  <2>3. CASE Alike(rq[r], thin[r]) /\ (rq[r].st = "answered" => thin[r].tab = rq[r].tab)
    BY <2>1, <2>3 DEF Alike, Shape, Refreshes
  <2> QED
    BY <2>2, <2>3 DEF Thinner
<1>3. Sealed(thin)
  <2> SUFFICES ASSUME NEW r \in Slots, thin[r].st = "answered", thin[r].cookie \in Tokens
               PROVE  /\ jar # thin[r].cookie
                      /\ \A s \in Slots : /\ thin[s].tok # thin[r].cookie
                                          /\ s # r => thin[s].cookie # thin[r].cookie
                      /\ thin[r].cookie \in live \/ Dead(thin, family[thin[r].cookie])
    BY DEF Sealed
  <2>1. rq[r].st = "answered" /\ rq[r].cookie = thin[r].cookie
    BY DEF Thinner, Alike
  <2>2. \A s \in Slots : \/ thin[s].tok = rq[s].tok /\ thin[s].cookie = rq[s].cookie
                         \/ thin[s].tok = NoToken /\ thin[s].cookie = NoCookie
    BY DEF Thinner, Alike
  <2>3. NoToken \notin Tokens /\ NoCookie \notin Tokens
    BY WebAssumption DEF Tokens, NoToken, NoCookie
  <2> QED
    BY <1>1, <2>1, <2>2, <2>3 DEF Flight, Sealed
<1>4. OneHolder(thin)
  BY DEF Flight, OneHolder, Thinner, Alike
<1>5. OneRefresh(thin)
  BY DEF Flight, OneRefresh, Thinner, Alike
<1>6. SharedIsExcused(thin, more) /\ OrphanIsExcused(thin, more)
  <2>1. SharedIsExcused(thin, more)
    BY DEF Flight, SharedIsExcused, Refreshes, Thinner, Alike
  <2>2. OrphanIsExcused(thin, more)
    BY DEF Flight, OrphanIsExcused, Shapes, Shape, Refreshes, Spent, Thinner, Alike
  <2> QED
    BY <2>1, <2>2
<1>7. SentIsLive(thin, more)
  <2> SUFFICES ASSUME NEW r \in Slots, Refreshes(thin[r]), thin[r].st = "sent"
               PROVE  \/ family[thin[r].tok] \in more \/ thin[r].tok \in live
                      \/ Dead(thin, family[thin[r].tok])
    BY DEF SentIsLive
  <2>1. Refreshes(rq[r]) /\ rq[r].st = "sent" /\ rq[r].tok = thin[r].tok
    BY DEF Thinner, Alike, Refreshes
  <2> QED
    BY <1>1, <2>1 DEF Flight, SentIsLive
<1>8. JarIsLive(thin, more)
  <2> SUFFICES ASSUME jar # NoToken, NEW p \in Slots,
                      rq[p].tok = jar, Spent(rq[p]), rq[p].tab # NoTab
               PROVE  family[jar] \in more \/ (thin[p].tok = jar /\ Spent(thin[p])
                                                 /\ thin[p].tab # NoTab)
    BY <1>1 DEF Flight, JarIsLive
  <2> QED
    BY DEF Thinner, Alike, Spent
<1>9. Alone(thin)
  <2> SUFFICES ASSUME NEW r \in Slots, thin[r].kind = "logout", thin[r].tok # NoToken,
                      ~thin[r].crossed,
                      thin[r].st = "sent" \/ (thin[r].st = "answered" /\ thin[r].ok)
               PROVE  /\ \A s \in Slots : Refreshes(thin[s]) =>
                           family[thin[s].tok] # family[thin[r].tok]
                      /\ thin[r].st = "answered" =>
                           \A t \in live : family[t] # family[thin[r].tok]
    BY DEF Alone
  <2>1. Alike(rq[r], thin[r]) /\ rq[r].crossed = FALSE
    BY DEF Thinner, Alike
  <2>2. \A s \in Slots : Refreshes(thin[s]) => Refreshes(rq[s]) /\ rq[s].tok = thin[s].tok
    BY DEF Thinner, Alike, Refreshes
  <2> QED
    BY <2>1, <2>2 DEF Flight, Alone, Alike
<1> QED
  BY <1>2, <1>3, <1>4, <1>5, <1>6, <1>7, <1>8, <1>9 DEF Flight

\* What Abandoned leaves of the requests in rs.
LEMMA AbandonThins ==
  ASSUME RequestsOK, Flight(req, excused), NEW rs \in SUBSET Slots
  PROVE  Thinner(req, excused \cup CutBy(rs), Abandoned(rs))
<1> SUFFICES ASSUME NEW r \in Slots
             PROVE  LET thin == Abandoned(rs)[r]
                        more == excused \cup CutBy(rs)
                    IN  \/ /\ Alike(req[r], thin) /\ thin.tab = req[r].tab
                        \/ /\ Alike(req[r], thin) /\ thin.tab = NoTab
                           /\ req[r].st # "answered"
                           /\ Spent(req[r]) => family[req[r].tok] \in more
                        \/ /\ thin = Free /\ req[r].st # "issuing"
                           /\ Spent(req[r]) => family[req[r].tok] \in more
  BY DEF Thinner
<1>0. req[r] \in Request /\ Shape(req[r])
  BY DEF RequestsOK, Flight, Shapes
<1>1. CASE r \notin rs
  BY <1>1 DEF Abandoned, Alike
<1>2. CASE r \in rs
  <2>1. Spent(req[r]) => family[req[r].tok] \in CutBy(rs)
    BY <1>2 DEF CutBy
  <2>2. CASE req[r].st = "answered"
    BY <1>2, <2>1, <2>2 DEF Abandoned
  <2>3. CASE req[r].st # "answered"
    <3>1. Abandoned(rs)[r] = [req[r] EXCEPT !.tab = NoTab]
      BY <1>2, <2>3 DEF Abandoned
    <3>2. CASE req[r].st = "free"
      <4>1. req[r] = Free
        BY <1>0, <3>2 DEF Shape
      <4>2. req[r].tab = NoTab
        BY <4>1 DEF Free
      <4>3. Abandoned(rs)[r] = req[r]
        BY <1>0, <3>1, <4>2 DEF Request
      <4> QED
        BY <4>3 DEF Alike
    <3>3. CASE req[r].st # "free"
      <4>1. Alike(req[r], Abandoned(rs)[r]) /\ Abandoned(rs)[r].tab = NoTab
        BY <1>0, <3>1, <3>3 DEF Alike, Request
      <4> QED
        BY <2>1, <2>3, <4>1
    <3> QED
      BY <3>2, <3>3
  <2> QED
    BY <2>2, <2>3
<1> QED
  BY <1>1, <1>2

\* Abandoned requests are requests.
LEMMA AbandonType ==
  ASSUME RequestsOK, NEW rs \in SUBSET Slots
  PROVE  Abandoned(rs) \in [Slots -> Request]
<1>1. Free \in Request
  BY DEF Free, Request
<1>2. \A r \in Slots : req[r] \in Request /\ [req[r] EXCEPT !.tab = NoTab] \in Request
  BY DEF RequestsOK, Request
<1> QED
  BY <1>1, <1>2 DEF Abandoned

LEMMA AbandonNone ==
  ASSUME RequestsOK
  PROVE  Abandoned({}) = req /\ CutBy({}) = {}
  BY DEF RequestsOK, Abandoned, CutBy

\* Which requests a sign-out and a refresh have beside them.
LEMMA CrossesMeans ==
  ASSUME NEW q, NEW k
  PROVE  /\ k = "refresh" /\ q.kind = "logout" /\ jar # NoToken
              /\ FamilyOf(q.tok) = family[jar] => Crosses(k, q)
         /\ k = "logout" /\ q.kind = "refresh" /\ jar # NoToken
              /\ FamilyOf(q.tok) = family[jar] => Crosses(k, q)
         /\ Crosses(k, q) => q.kind \in {"refresh", "logout"}
  BY DEF Crosses

\* Page b has sent request r of kind k; reqs was the table and ex the excused
\* families before.
SentAs(r, b, k, reqs, ex) ==
  /\ reqs[r] = Free
  /\ req' \in [Slots -> Request]
  /\ req'[r].st = "sent" /\ req'[r].tab = b /\ req'[r].kind = k
  /\ req'[r].tok = (IF k = "login" THEN NoToken ELSE jar)
  /\ req'[r].ok = FALSE /\ req'[r].cookie = NoCookie
  /\ k = "logout" /\ ~req'[r].crossed => \A q \in Slots : ~Crosses(k, reqs[q])
  /\ \A s \in Slots : s # r =>
       /\ req'[s].st = reqs[s].st /\ req'[s].kind = reqs[s].kind
       /\ req'[s].tok = reqs[s].tok /\ req'[s].ok = reqs[s].ok
       /\ req'[s].cookie = reqs[s].cookie /\ req'[s].tab = reqs[s].tab
       /\ ~req'[s].crossed =>
            ~reqs[s].crossed /\ ~(k = "refresh" /\ Crosses(k, reqs[s]))
       /\ (k = "refresh" /\ Crosses(k, reqs[s])) \/ req'[s] = reqs[s]
  /\ ex \subseteq excused'
  /\ \A q \in Slots :
       k = "refresh" /\ jar # NoToken /\ reqs[q].kind = "refresh"
         /\ reqs[q].tok = jar /\ reqs[q].tab # b => family[jar] \in excused'
  /\ \A f \in excused' : f \in ex \/ (jar # NoToken /\ f = family[jar])

\* The request table after page b sent a request.
LEMMA SendTable ==
  ASSUME ServerOK, NEW b \in Tabs, NEW k \in {"refresh", "login", "logout"},
         NEW reqs \in [Slots -> Request], NEW lost, Send(b, k, reqs, lost)
  PROVE  \E r \in Slots : SentAs(r, b, k, reqs, excused \cup lost)
<1> DEFINE beside == {q \in Slots : Crosses(k, reqs[q])}
           New == [Free EXCEPT !.st = "sent", !.tab = b, !.kind = k,
                               !.tok = IF k = "login" THEN NoToken ELSE jar,
                               !.crossed = k = "logout" /\ beside # {}]
<1>1. PICK r \in {s \in Slots : reqs[s] = Free} :
        /\ req' = [s \in Slots |->
             IF s = r THEN New
             ELSE [reqs[s] EXCEPT !.crossed = @ \/ (k = "refresh" /\ s \in beside)]]
        /\ excused' = excused \cup lost \cup
             {family[reqs[q].tok] : q \in {p \in Slots :
                /\ k = "refresh" /\ jar # NoToken
                /\ reqs[p].kind = "refresh" /\ reqs[p].tok = jar /\ reqs[p].tab # b}}
  BY DEF Send
<1>2. jar \in Tokens \cup {NoToken}
  BY WebAssumption DEF ServerOK, Tokens, NoToken
<1>3. New \in Request
  BY <1>2 DEF Free, Request
<1>4. /\ New.st = "sent" /\ New.tab = b /\ New.kind = k /\ New.ok = FALSE
      /\ New.tok = (IF k = "login" THEN NoToken ELSE jar) /\ New.cookie = NoCookie
      /\ New.crossed = (k = "logout" /\ beside # {})
  BY DEF Free
<1>5. \A s \in Slots : reqs[s] \in Request
  OBVIOUS
<1>6. ASSUME NEW s \in Slots, s # r
      PROVE  /\ req'[s] \in Request
             /\ req'[s].st = reqs[s].st /\ req'[s].kind = reqs[s].kind
             /\ req'[s].tok = reqs[s].tok /\ req'[s].ok = reqs[s].ok
             /\ req'[s].cookie = reqs[s].cookie /\ req'[s].tab = reqs[s].tab
             /\ req'[s].crossed = (reqs[s].crossed \/ (k = "refresh" /\ s \in beside))
             /\ (k = "refresh" /\ s \in beside) \/ req'[s] = reqs[s]
  <2>1. req'[s] = [reqs[s] EXCEPT !.crossed = @ \/ (k = "refresh" /\ s \in beside)]
    BY <1>1, <1>6
  <2>2. reqs[s] \in Request
    BY <1>5
  <2>3. CASE k = "refresh" /\ s \in beside
    <3>1. req'[s] = [reqs[s] EXCEPT !.crossed = TRUE]
      <4>1. (reqs[s].crossed \/ (k = "refresh" /\ s \in beside)) = TRUE
        BY <2>3
      <4> QED
        BY <2>1, <4>1
    <3> QED
      BY <2>2, <2>3, <3>1 DEF Request
  <2>4. CASE ~(k = "refresh" /\ s \in beside)
    <3>1. reqs[s].crossed \in BOOLEAN
      BY <2>2 DEF Request
    <3>2. (reqs[s].crossed \/ (k = "refresh" /\ s \in beside)) = reqs[s].crossed
      BY <2>4, <3>1
    <3>3. req'[s] = [reqs[s] EXCEPT !.crossed = reqs[s].crossed]
      BY <2>1, <3>2
    <3>4. req'[s] = reqs[s]
      BY <2>2, <3>3 DEF Request
    <3> QED
      BY <2>2, <3>2, <3>4
  <2> QED
    BY <2>3, <2>4
<1>7. req' \in [Slots -> Request]
  BY <1>1, <1>3, <1>6
<1>8. req'[r] = New
  BY <1>1
<1> HIDE DEF New
<1>9. /\ req'[r].st = "sent" /\ req'[r].tab = b /\ req'[r].kind = k
      /\ req'[r].tok = (IF k = "login" THEN NoToken ELSE jar)
      /\ req'[r].ok = FALSE /\ req'[r].cookie = NoCookie
  BY <1>4, <1>8
<1>10. k = "logout" /\ ~req'[r].crossed => \A q \in Slots : ~Crosses(k, reqs[q])
  BY <1>4, <1>8
<1>11. \A s \in Slots : s # r =>
         /\ req'[s].st = reqs[s].st /\ req'[s].kind = reqs[s].kind
         /\ req'[s].tok = reqs[s].tok /\ req'[s].ok = reqs[s].ok
         /\ req'[s].cookie = reqs[s].cookie /\ req'[s].tab = reqs[s].tab
         /\ ~req'[s].crossed =>
              ~reqs[s].crossed /\ ~(k = "refresh" /\ Crosses(k, reqs[s]))
         /\ (k = "refresh" /\ Crosses(k, reqs[s])) \/ req'[s] = reqs[s]
  BY <1>6
<1>12. /\ excused \cup lost \subseteq excused'
       /\ \A q \in Slots :
            k = "refresh" /\ jar # NoToken /\ reqs[q].kind = "refresh"
              /\ reqs[q].tok = jar /\ reqs[q].tab # b => family[jar] \in excused'
       /\ \A f \in excused' : f \in excused \cup lost \/ (jar # NoToken /\ f = family[jar])
  BY <1>1
<1> QED
  BY <1>1, <1>7, <1>9, <1>10, <1>11, <1>12 DEF SentAs

\* Sending keeps the flight in order: it is the step at which two pages come to
\* share a token, and at which a sign-out and a refresh cross.
LEMMA SendFlight ==
  ASSUME ServerOK, Families, NEW b \in Tabs, NEW k \in {"refresh", "login", "logout"},
         NEW reqs \in [Slots -> Request], NEW lost,
         Flight(reqs, excused \cup lost), Send(b, k, reqs, lost),
         k = "refresh" => \A s \in Slots : ~(reqs[s].tab = b /\ reqs[s].kind = "refresh"),
         UNCHANGED <<server, jar>>
  PROVE  Flight(req, excused)'
<1> DEFINE ex == excused \cup lost
<1>1. PICK r \in Slots : SentAs(r, b, k, reqs, ex)
  BY SendTable
<1> HIDE DEF ex
<1> USE DEF SentAs
<1>2. /\ issued' = issued /\ family' = family /\ live' = live /\ jar' = jar
      /\ jar \in 0..issued /\ NoToken \notin Tokens /\ NoCookie \notin Tokens
      /\ NoToken \in 0..issued
  BY WebAssumption DEF server, ServerOK, Tokens, NoToken, NoCookie
<1>3. /\ reqs[r].st = "free" /\ reqs[r].kind = "none" /\ reqs[r].tok = NoToken
      /\ reqs[r].cookie = NoCookie /\ ~Refreshes(reqs[r]) /\ ~Spent(reqs[r])
  BY <1>1 DEF Free, Refreshes, Spent
<1>4. \A s \in Slots : s # r => /\ Refreshes(req'[s]) <=> Refreshes(reqs[s])
                                /\ Spent(req'[s]) <=> Spent(reqs[s])
  BY <1>1 DEF Refreshes, Spent
<1>5. Refreshes(req'[r]) => k = "refresh" /\ jar # NoToken /\ req'[r].tok = jar
  BY <1>1 DEF Refreshes
<1>6. \A f : (Dead(req, f))' <=> Dead(reqs, f)
  BY <1>1, <1>2, <1>3 DEF Dead
<1>7. Shapes(req)'
  <2> SUFFICES ASSUME NEW s \in Slots PROVE Shape(req[s])'
    BY DEF Shapes
  <2>1. CASE s = r
    BY <1>1, <1>2, <2>1 DEF Shape
  <2>2. CASE s # r
    <3>0. Shape(reqs[s])
      BY DEF Flight, Shapes
    <3>1. CASE reqs[s].st = "free"
      <4>1. reqs[s] = Free
        BY <3>0, <3>1 DEF Shape
      <4>2. ~Crosses(k, reqs[s])
        BY <4>1, CrossesMeans DEF Free
      <4>3. req'[s] = reqs[s]
        BY <1>1, <2>2, <4>2
      <4> QED
        BY <1>2, <3>0, <4>3 DEF Shape, Refreshes
    <3>2. CASE reqs[s].st # "free"
      BY <1>1, <1>2, <2>2, <3>0, <3>2 DEF Shape, Refreshes
    <3> QED
      BY <3>1, <3>2
  <2> QED
    BY <2>1, <2>2
<1>8. Sealed(req)'
  <2> SUFFICES ASSUME NEW s \in Slots, req'[s].st = "answered", req'[s].cookie \in Tokens
               PROVE  /\ jar # req'[s].cookie
                      /\ \A u \in Slots : /\ req'[u].tok # req'[s].cookie
                                          /\ u # s => req'[u].cookie # req'[s].cookie
                      /\ req'[s].cookie \in live \/ (Dead(req, family[req[s].cookie]))'
    BY <1>2 DEF Sealed
  <2>1. s # r /\ reqs[s].st = "answered" /\ reqs[s].cookie = req'[s].cookie
    BY <1>1
  <2>2. /\ jar # reqs[s].cookie
        /\ \A u \in Slots : /\ reqs[u].tok # reqs[s].cookie
                            /\ u # s => reqs[u].cookie # reqs[s].cookie
        /\ reqs[s].cookie \in live \/ Dead(reqs, family[reqs[s].cookie])
    BY <2>1 DEF Flight, Sealed
  <2>3. (Dead(req, family[req[s].cookie]))' <=> Dead(reqs, family[reqs[s].cookie])
    BY <1>2, <1>6, <2>1 DEF Dead
  <2> QED
    BY <1>1, <1>2, <2>1, <2>2, <2>3
<1>9. OneHolder(req)'
  <2>1. \A s \in Slots : req'[s].st = "issuing" => /\ reqs[s].st = "issuing"
                                                   /\ req'[s].tok = reqs[s].tok
    BY <1>1
  <2> QED
    BY <1>2, <2>1 DEF Flight, OneHolder
<1>10. OneRefresh(req)'
  <2>1. ASSUME NEW s \in Slots, NEW u \in Slots, req'[s].kind = "refresh",
               req'[u].kind = "refresh", req'[s].tab = req'[u].tab, s # u
        PROVE  req'[s].tab = NoTab
    <3>1. CASE s = r
      BY <1>1, <2>1, <3>1
    <3>2. CASE u = r
      BY <1>1, <2>1, <3>2
    <3>3. CASE s # r /\ u # r
      BY <1>1, <2>1, <3>3 DEF Flight, OneRefresh
    <3> QED
      BY <3>1, <3>2, <3>3
  <2> QED
    BY <2>1 DEF OneRefresh
<1>11. SharedIsExcused(req, excused)'
  <2>1. ASSUME NEW s \in Slots, NEW u \in Slots, Refreshes(req'[s]), Refreshes(req'[u]),
               req'[s].tok = req'[u].tok, s # u
        PROVE  family[req'[s].tok] \in excused'
    <3>1. ASSUME NEW p \in Slots, p # r, Refreshes(req'[p]), req'[p].tok = jar,
                 k = "refresh", jar # NoToken
          PROVE  family[jar] \in excused'
      <4>1. reqs[p].kind = "refresh" /\ reqs[p].tok = jar /\ reqs[p].tab # b
        BY <1>1, <3>1 DEF Refreshes
      <4> QED
        BY <1>1, <3>1, <4>1
    <3>2. CASE s = r
      BY <1>5, <2>1, <3>1, <3>2
    <3>3. CASE u = r
      BY <1>5, <2>1, <3>1, <3>3
    <3>4. CASE s # r /\ u # r
      BY <1>1, <1>4, <2>1, <3>4 DEF Flight, SharedIsExcused, ex
    <3> QED
      BY <3>2, <3>3, <3>4
  <2> QED
    BY <1>2, <2>1 DEF SharedIsExcused, Refreshes
<1>12. OrphanIsExcused(req, excused)'
  <2>1. \A s \in Slots : req'[s].st = "issuing" => s # r
    BY <1>1
  <2> QED
    BY <1>1, <1>2, <2>1 DEF Flight, OrphanIsExcused, ex
<1>13. SentIsLive(req, excused)'
  <2> SUFFICES ASSUME NEW s \in Slots, Refreshes(req'[s]), req'[s].st = "sent"
               PROVE  \/ family[req'[s].tok] \in excused' \/ req'[s].tok \in live
                      \/ (Dead(req, family[req[s].tok]))'
    BY <1>2 DEF SentIsLive, Refreshes
  <2>1. CASE s = r
    <3>1. k = "refresh" /\ jar # NoToken /\ req'[s].tok = jar
      BY <1>5, <2>1
    <3>2. (Dead(req, family[req[s].tok]))' <=> Dead(reqs, family[jar])
      BY <1>2, <1>6, <3>1 DEF Dead
    <3>3. ASSUME NEW p \in Slots, reqs[p].tok = jar, Spent(reqs[p])
          PROVE  family[jar] \in excused'
      BY <1>1, <3>1, <3>3 DEF Spent
    <3> QED
      BY <1>1, <3>1, <3>2, <3>3 DEF Flight, JarIsLive, ex
  <2>2. CASE s # r
    <3>1. Refreshes(reqs[s]) /\ reqs[s].st = "sent" /\ reqs[s].tok = req'[s].tok
      BY <1>1, <1>4, <2>2
    <3>2. (Dead(req, family[req[s].tok]))' <=> Dead(reqs, family[reqs[s].tok])
      <4>1. (Dead(req, family[req[s].tok]))' <=> Dead(reqs, family'[req'[s].tok])
        BY <1>2, <1>3, <1>1 DEF Dead
      <4> QED
        BY <1>2, <3>1, <4>1, Zenon
    <3> QED
      BY <1>1, <3>1, <3>2 DEF Flight, SentIsLive, ex
  <2> QED
    BY <2>1, <2>2
<1>14. JarIsLive(req, excused)'
  <2> SUFFICES ASSUME jar # NoToken
               PROVE  \/ family[jar] \in excused' \/ jar \in live
                      \/ (Dead(req, family[jar]))'
                      \/ \E p \in Slots : req'[p].tok = jar /\ Spent(req'[p])
                                            /\ req'[p].tab # NoTab
    BY <1>2 DEF JarIsLive, Spent
  <2>1. (Dead(req, family[jar]))' <=> Dead(reqs, family[jar])
    BY <1>2, <1>6 DEF Dead
  <2>2. ASSUME NEW p \in Slots, reqs[p].tok = jar, Spent(reqs[p]), reqs[p].tab # NoTab
        PROVE  req'[p].tok = jar /\ Spent(req'[p]) /\ req'[p].tab # NoTab
    <3>1. p # r
      BY <1>3, <2>2
    <3> QED
      BY <1>1, <1>4, <2>2, <3>1
  <2> QED
    BY <1>1, <2>1, <2>2 DEF Flight, JarIsLive, ex
<1>15. Alone(req)'
  <2> SUFFICES ASSUME NEW s \in Slots, req'[s].kind = "logout", req'[s].tok # NoToken,
                      ~req'[s].crossed,
                      req'[s].st = "sent" \/ (req'[s].st = "answered" /\ req'[s].ok)
               PROVE  /\ \A u \in Slots : Refreshes(req'[u]) =>
                           family[req'[u].tok] # family[req'[s].tok]
                      /\ req'[s].st = "answered" =>
                           \A t \in live : family[t] # family[req'[s].tok]
    BY <1>2 DEF Alone, Refreshes
  <2>1. CASE s = r
    <3>1. k = "logout" /\ req'[s].tok = jar /\ jar # NoToken /\ req'[s].st = "sent"
      BY <1>1, <2>1
    <3>2. \A q \in Slots : ~Crosses(k, reqs[q])
      BY <1>1, <2>1, <3>1
    <3>3. ASSUME NEW u \in Slots, Refreshes(req'[u])
          PROVE  family[req'[u].tok] # family[jar]
      <4>1. u # r /\ reqs[u].kind = "refresh" /\ reqs[u].tok # NoToken /\ req'[u].tok = reqs[u].tok
        BY <1>1, <1>5, <3>1, <3>3 DEF Refreshes
      <4> QED
        BY <3>1, <3>2, <4>1, CrossesMeans DEF FamilyOf
    <3> QED
      BY <3>1, <3>3
  <2>2. CASE s # r
    <3>1. /\ reqs[s].kind = "logout" /\ reqs[s].tok # NoToken /\ ~reqs[s].crossed
          /\ reqs[s].tok = req'[s].tok /\ reqs[s].st = req'[s].st
          /\ reqs[s].st = "sent" \/ (reqs[s].st = "answered" /\ reqs[s].ok)
          /\ ~(k = "refresh" /\ Crosses(k, reqs[s]))
      BY <1>1, <2>2
    <3>2. /\ \A u \in Slots : Refreshes(reqs[u]) => family[reqs[u].tok] # family[reqs[s].tok]
          /\ reqs[s].st = "answered" => \A t \in live : family[t] # family[reqs[s].tok]
      BY <3>1 DEF Flight, Alone
    <3>3. ASSUME NEW u \in Slots, Refreshes(req'[u])
          PROVE  family[req'[u].tok] # family[reqs[s].tok]
      <4>1. CASE u = r
        <5>1. k = "refresh" /\ jar # NoToken /\ req'[u].tok = jar
          BY <1>5, <3>3, <4>1
        <5> QED
          BY <3>1, <5>1, CrossesMeans DEF FamilyOf
      <4>2. CASE u # r
        BY <1>1, <1>4, <3>2, <3>3, <4>2
      <4> QED
        BY <4>1, <4>2
    <3> QED
      BY <3>1, <3>2, <3>3
  <2> QED
    BY <2>1, <2>2
<1> QED
  BY <1>7, <1>8, <1>9, <1>10, <1>11, <1>12, <1>13, <1>14, <1>15 DEF Flight

\* Whatever a sign-out ended stays ended when requests are dropped, when no
\* request of the session is added, and when no page is given its token.
LEMMA OverThin ==
  ASSUME Over(req), NEW rs \in SUBSET Slots
  PROVE  Over(Abandoned(rs))
<1>1. \A r \in Slots : \/ Abandoned(rs)[r] = Free
                       \/ Abandoned(rs)[r] = req[r]
                       \/ /\ Abandoned(rs)[r] = [req[r] EXCEPT !.tab = NoTab]
                          /\ req[r].st # "answered"
  BY DEF Abandoned
<1>2. ~Refreshes(Free) /\ Free.st # "answered"
  BY DEF Refreshes, Free
<1>3. \A q : /\ [q EXCEPT !.tab = NoTab].kind = q.kind /\ [q EXCEPT !.tab = NoTab].tok = q.tok
             /\ [q EXCEPT !.tab = NoTab].st = q.st
  OBVIOUS
<1>4. \A r \in Slots :
        /\ Refreshes(Abandoned(rs)[r]) => Refreshes(req[r]) /\ Abandoned(rs)[r].tok = req[r].tok
        /\ Abandoned(rs)[r].st = "answered" => Abandoned(rs)[r] = req[r]
  BY <1>1, <1>2, <1>3 DEF Refreshes
<1> QED
  BY <1>4 DEF Over

\* The families cut off are families of issued tokens.
LEMMA CutIsIssued ==
  ASSUME WebInv, NEW rs \in SUBSET Slots
  PROVE  CutBy(rs) \subseteq 1..issued
<1> SUFFICES ASSUME NEW r \in Slots, Spent(req[r]) PROVE family[req[r].tok] \in 1..issued
  BY DEF CutBy
<1>1. Shape(req[r])
  BY DEF WebInv, Flight, Shapes
<1>2. req[r].tok \in 0..issued /\ req[r].tok # NoToken
  BY <1>1 DEF Shape, Spent, Refreshes
<1>3. req[r].tok \in 1..issued
  BY <1>2 DEF WebInv, ServerOK, NoToken
<1> QED
  BY <1>3 DEF WebInv, Families

\* A page sends a request, having dropped those in rs.
LEMMA PageSends ==
  ASSUME WebInv, NEW b \in Tabs, NEW k \in {"refresh", "login", "logout"},
         NEW rs \in SUBSET Slots, Send(b, k, Abandoned(rs), CutBy(rs)),
         k = "refresh" => \A s \in Slots : req[s].tab = b /\ req[s].kind = "refresh" => s \in rs,
         UNCHANGED <<server, jar, severed, signedOut>>, PagesOK',
         \A c \in Tabs : access'[c] \in {access[c], NoToken},
         faults' \in 0..MaxFaults
  PROVE  WebInv'
<1> DEFINE reqs == Abandoned(rs)
           ex   == excused \cup CutBy(rs)
<1>1. reqs \in [Slots -> Request]
  BY AbandonType DEF WebInv
<1>2. Flight(reqs, ex)
  BY AbandonThins, ThinFlight DEF WebInv
<1>3. k = "refresh" => \A s \in Slots : ~(reqs[s].tab = b /\ reqs[s].kind = "refresh")
  <2> SUFFICES ASSUME k = "refresh", NEW s \in Slots, reqs[s].tab = b, reqs[s].kind = "refresh"
               PROVE  FALSE
    OBVIOUS
  <2>1. b # NoTab
    BY WebAssumption
  <2>2. req[s] \in Request
    BY DEF WebInv, RequestsOK
  <2>3. CASE s \in rs
    BY <2>1, <2>2, <2>3 DEF Abandoned, Free, Request
  <2>4. CASE s \notin rs
    BY <2>4 DEF Abandoned
  <2> QED
    BY <2>3, <2>4
<1> HIDE DEF reqs, ex
<1>4. Flight(req, excused)'
  BY <1>1, <1>2, <1>3, SendFlight DEF WebInv, reqs, ex
<1>5. PICK r \in Slots : SentAs(r, b, k, reqs, ex)
  BY <1>1, SendTable DEF WebInv, reqs, ex
<1>6. jar # NoToken => family[jar] \in 1..issued
  BY DEF WebInv, ServerOK, Families, NoToken
<1>7. HistoryOK' /\ RequestsOK'
  <2>1. excused' \subseteq 1..issued
    BY <1>5, <1>6, CutIsIssued DEF SentAs, ex, WebInv, HistoryOK
  <2> QED
    BY <1>5, <2>1 DEF SentAs, WebInv, HistoryOK, RequestsOK, server
<1>8. ServerOK' /\ Families' /\ NoFalseTheft'
  BY DEF WebInv, ServerOK, Families, NoFalseTheft, server
<1>9. Over(req)'
  <2> SUFFICES ASSUME NEW c \in Tabs, signedOut[c] # NoToken
               PROVE  /\ \A t \in live : family[t] # signedOut[c]
                      /\ \A s \in Slots : Refreshes(req'[s]) => family[req'[s].tok] # signedOut[c]
                      /\ \A s \in Slots : req'[s].st = "answered" /\ req'[s].cookie \in Tokens =>
                                            family[req'[s].cookie] # signedOut[c]
                      /\ jar # NoToken => family[jar] # signedOut[c]
                      /\ access'[c] # signedOut[c]
    BY DEF Over, server, Refreshes
  <2>1. /\ \A t \in live : family[t] # signedOut[c]
        /\ \A s \in Slots : Refreshes(reqs[s]) => family[reqs[s].tok] # signedOut[c]
        /\ \A s \in Slots : reqs[s].st = "answered" /\ reqs[s].cookie \in Tokens =>
                              family[reqs[s].cookie] # signedOut[c]
        /\ jar # NoToken => family[jar] # signedOut[c]
        /\ access[c] # signedOut[c]
    BY OverThin DEF WebInv, Over, reqs
  <2>2. access'[c] # signedOut[c]
    BY <2>1
  <2>3. \A s \in Slots : s # r =>
          /\ req'[s].st = reqs[s].st /\ req'[s].kind = reqs[s].kind
          /\ req'[s].tok = reqs[s].tok /\ req'[s].cookie = reqs[s].cookie
    BY <1>5 DEF SentAs
  <2>4. /\ req'[r].st = "sent" /\ (Refreshes(req'[r]) => req'[r].tok = jar /\ jar # NoToken)
    BY <1>5 DEF SentAs, Refreshes
  <2> QED
    BY <2>1, <2>2, <2>3, <2>4 DEF Refreshes
<1> QED
  BY <1>4, <1>7, <1>8, <1>9 DEF WebInv

\* load, refreshSession, signIn and signOut.
LEMMA PageStep ==
  ASSUME WebInv, NEW b \in Tabs,
         load(b) \/ refreshSession(b) \/ signIn(b) \/ signOut(b)
  PROVE  WebInv'
<1>0. faults \in 0..MaxFaults /\ MaxFaults \in Nat /\ PagesOK /\ NoToken \in 0..issued
  BY WebAssumption DEF WebInv, HistoryOK, ServerOK, NoToken
<1>1. CASE load(b)
  <2> DEFINE old == {r \in Slots : req[r].tab = b}
  <2>1. Send(b, "refresh", Abandoned(old), CutBy(old))
    BY <1>1 DEF load
  <2>2. faults' \in 0..MaxFaults
    BY <1>0, <1>1 DEF load, Fault
  <2>3. UNCHANGED <<server, jar, severed, signedOut>>
    BY <1>1 DEF load
  <2>4. PagesOK'
    BY <1>0, <1>1, <2>3 DEF load, PagesOK, server
  <2>5. \A c \in Tabs : access'[c] \in {access[c], NoToken}
    BY <1>0, <1>1 DEF load, PagesOK
  <2> QED
    BY <2>1, <2>2, <2>3, <2>4, <2>5, PageSends
<1>2. ASSUME NEW k \in {"refresh", "login", "logout"}, Send(b, k, req, {}),
             k = "refresh" => Awaited(b, "refresh") = {},
             UNCHANGED <<server, jar, tabs, faults, severed, signedOut>>
      PROVE  WebInv'
  <2>1. Send(b, k, Abandoned({}), CutBy({}))
    BY <1>2, AbandonNone DEF WebInv
  <2>2. \A s \in Slots : k = "refresh" => ~(req[s].tab = b /\ req[s].kind = "refresh")
    BY <1>2 DEF Awaited
  <2>3. PagesOK' /\ \A c \in Tabs : access'[c] \in {access[c], NoToken}
    BY <1>0, <1>2 DEF PagesOK, tabs, server
  <2> QED
    BY <1>0, <1>2, <2>1, <2>2, <2>3, PageSends
<1>3. CASE refreshSession(b)
  BY <1>2, <1>3 DEF refreshSession
<1>4. CASE signIn(b)
  BY <1>2, <1>4 DEF signIn
<1>5. CASE signOut(b)
  BY <1>2, <1>5 DEF signOut
<1> QED
  BY <1>1, <1>3, <1>4, <1>5

-----------------------------------------------------------------------------
(* Replies *)

\* What Resolve does to the three variables of the pages.
LEMMA ResolveType ==
  ASSUME PagesOK, issued' = issued, NEW b \in Tabs, NEW k, NEW ok \in BOOLEAN,
         NEW f \in 0..issued, NoToken \in 0..issued, Resolve(b, k, ok, f)
  PROVE  /\ PagesOK'
         /\ \A c \in Tabs : access'[c] = access[c] \/ access'[c] = NoToken
                              \/ (c = b /\ ok /\ k # "logout" /\ access'[c] = f)
         /\ k = "logout" => access'[b] = NoToken
<1> USE DEF PagesOK
<1>1. CASE k = "refresh" /\ ok
  BY <1>1 DEF Resolve
<1>2. CASE k = "refresh" /\ ~ok
  BY <1>2 DEF Resolve
<1>3. CASE k = "login" /\ ok
  BY <1>3 DEF Resolve
<1>4. CASE k = "login" /\ ~ok
  BY <1>4 DEF Resolve, tabs
<1>5. CASE k = "logout"
  BY <1>5 DEF Resolve
<1> QED
  BY <1>1, <1>2, <1>3, <1>4, <1>5 DEF Resolve

\* Only req and excused of the state change.
LEMMA SameServer ==
  ASSUME UNCHANGED <<server, jar>>, Flight(req', excused')
  PROVE  Flight(req, excused)'
  BY DEF server, Flight, Shapes, Shape, Sealed, OneHolder, OneRefresh, SharedIsExcused,
         OrphanIsExcused, SentIsLive, JarIsLive, Alone, Dead, Refreshes, Spent

\* A request is dropped before its reply: cut off by the gateway or the network,
\* or never sent on.
LEMMA DropStep ==
  ASSUME WebInv, NEW r \in Slots, req[r].tab # NoTab,
         \/ req' = Abandoned({r}) /\ excused' = excused \cup CutBy({r})
         \/ req[r].st = "sent" /\ req' = [req EXCEPT ![r] = Free] /\ UNCHANGED excused,
         UNCHANGED <<server, jar, severed, signedOut>>, PagesOK',
         \A c \in Tabs : access'[c] \in {access[c], NoToken},
         faults' \in 0..MaxFaults
  PROVE  WebInv'
<1>1. ServerOK' /\ Families' /\ NoFalseTheft'
  BY DEF WebInv, ServerOK, Families, NoFalseTheft, server
<1>2. CASE req' = Abandoned({r}) /\ excused' = excused \cup CutBy({r})
  <2>1. RequestsOK' /\ HistoryOK'
    BY <1>2, AbandonType, CutIsIssued DEF WebInv, HistoryOK, RequestsOK, server
  <2>2. Flight(Abandoned({r}), excused \cup CutBy({r}))
    BY AbandonThins, ThinFlight DEF WebInv
  <2>3. Flight(req, excused)'
    BY <1>2, <2>2, SameServer
  <2>4. Over(Abandoned({r}))
    BY OverThin DEF WebInv
  <2>5. Over(req)'
    BY <1>2, <2>4 DEF Over, Refreshes, server
  <2> QED
    BY <1>1, <2>1, <2>3, <2>5 DEF WebInv
<1>3. CASE req[r].st = "sent" /\ req' = [req EXCEPT ![r] = Free] /\ UNCHANGED excused
  <2>1. Free \in Request
    BY DEF Free, Request
  <2>2. RequestsOK' /\ HistoryOK' /\ \A s \in Slots : req'[s] = IF s = r THEN Free ELSE req[s]
    BY <1>3, <2>1 DEF WebInv, HistoryOK, RequestsOK, server
  <2>3. Thinner(req, excused, req')
    BY <1>3, <2>2 DEF Thinner, Alike, Spent
  <2>4. Flight(req', excused)
    BY <2>3, ThinFlight DEF WebInv
  <2>5. Flight(req, excused)'
    BY <1>3, <2>4, SameServer
  <2>6. Over(req)'
    BY <2>2 DEF WebInv, Over, Refreshes, server, Free
  <2> QED
    BY <1>1, <2>2, <2>5, <2>6 DEF WebInv
<1> QED
  BY <1>2, <1>3

\* A reply's cookie reaches the jar: the one step that changes it.
LEMMA DeliverFlight ==
  ASSUME WebInv, NEW r \in Slots, req[r].st = "answered",
         req' = [req EXCEPT ![r] = Free],
         jar' = IF req[r].cookie = NoCookie THEN jar ELSE req[r].cookie,
         UNCHANGED <<server, excused>>
  PROVE  Flight(req, excused)' /\ RequestsOK' /\ jar' \in 0..issued
<1>1. RequestsOK' /\ \A s \in Slots : req'[s] = IF s = r THEN Free ELSE req[s]
  <2>1. Free \in Request
    BY DEF Free, Request
  <2> QED
    BY <2>1 DEF WebInv, RequestsOK
<1>2. Shape(req[r]) /\ req[r] \in Request /\ Flight(req, excused)
  BY DEF WebInv, Flight, Shapes, RequestsOK
<1>3. issued' = issued /\ family' = family /\ live' = live /\ excused' = excused
  BY DEF server
<1>4. /\ Free.st = "free" /\ Free.kind = "none" /\ Free.tok = NoToken /\ Free.cookie = NoCookie
      /\ NoToken \notin Tokens /\ NoCookie \notin Tokens /\ NoToken \in 0..issued
  BY WebAssumption DEF Free, WebInv, ServerOK, Tokens, NoToken, NoCookie
<1>5. CASE req[r].cookie = NoCookie
  <2>1. ~Spent(req[r])
    <3>1. NoCookie \notin 1..issued
      BY DEF NoCookie, WebInv, ServerOK
    <3> QED
      BY <1>2, <1>5, <3>1 DEF Shape, Spent
  <2>2. Thinner(req, excused, req')
    BY <1>1, <2>1 DEF Thinner, Alike
  <2>3. Flight(req', excused')
    BY <1>2, <1>3, <2>2, ThinFlight DEF WebInv
  <2>4. jar' = jar
    BY <1>5
  <2> QED
    BY <1>1, <2>3, <2>4, SameServer DEF WebInv, ServerOK
<1>6. CASE req[r].cookie # NoCookie
  <2>1. jar' = req[r].cookie /\ jar' \in 0..issued /\ (jar' = NoToken \/ jar' \in Tokens)
    <3>1. req[r].cookie = NoToken \/ req[r].cookie \in 1..issued
      BY <1>2, <1>6 DEF Shape, Request
    <3>2. issued \in Nat /\ MaxTokens \in Nat /\ issued <= MaxTokens
      BY WebAssumption DEF WebInv, ServerOK
    <3>3. \A t \in 1..issued : t \in Tokens /\ t \in 0..issued
      BY <3>2 DEF Tokens
    <3> QED
      BY <1>4, <1>6, <3>1, <3>3
  <2>2. \A f : (Dead(req, f))' <=> Dead(req, f)
    BY <1>1, <1>3, <1>4 DEF Dead
  <2>3. Shapes(req)'
    <3> SUFFICES ASSUME NEW s \in Slots PROVE Shape(req[s])'
      BY DEF Shapes
    <3>1. CASE s = r
      BY <1>1, <1>3, <1>4, <3>1 DEF Shape, Refreshes
    <3>2. CASE s # r
      BY <1>1, <1>2, <1>3, <3>2 DEF Flight, Shapes, Shape, Refreshes
    <3> QED
      BY <3>1, <3>2
  <2>4. Sealed(req)'
    <3> SUFFICES ASSUME NEW s \in Slots, req'[s].st = "answered", req'[s].cookie \in Tokens
                 PROVE  /\ jar' # req'[s].cookie
                        /\ \A u \in Slots : /\ req'[u].tok # req'[s].cookie
                                            /\ u # s => req'[u].cookie # req'[s].cookie
                        /\ req'[s].cookie \in live \/ (Dead(req, family[req[s].cookie]))'
      BY <1>3 DEF Sealed
    <3>1. s # r /\ req'[s] = req[s]
      BY <1>1, <1>4
    <3>2. /\ jar # req[s].cookie
          /\ \A u \in Slots : /\ req[u].tok # req[s].cookie
                              /\ u # s => req[u].cookie # req[s].cookie
          /\ req[s].cookie \in live \/ Dead(req, family[req[s].cookie])
      BY <1>2, <3>1 DEF Flight, Sealed
    <3>3. (Dead(req, family[req[s].cookie]))' <=> Dead(req, family[req[s].cookie])
      BY <1>3, <2>2, <3>1 DEF Dead
    <3> QED
      BY <1>1, <1>4, <2>1, <3>1, <3>2, <3>3
  <2>5. OneHolder(req)' /\ OneRefresh(req)'
    BY <1>1, <1>2, <1>3, <1>4 DEF Flight, OneHolder, OneRefresh
  <2>6. SharedIsExcused(req, excused)' /\ OrphanIsExcused(req, excused)'
    BY <1>1, <1>2, <1>3, <1>4 DEF Flight, SharedIsExcused, OrphanIsExcused, Refreshes
  <2>7. SentIsLive(req, excused)'
    BY <1>1, <1>2, <1>3, <1>4 DEF Flight, SentIsLive, Refreshes, Dead
  <2>8. JarIsLive(req, excused)'
    <3> SUFFICES ASSUME jar' # NoToken PROVE jar' \in live \/ (Dead(req, family[jar]))'
      BY <1>3 DEF JarIsLive
    <3>1. req[r].cookie \in live \/ Dead(req, family[req[r].cookie])
      BY <1>2, <2>1 DEF Flight, Sealed
    <3> QED
      BY <1>3, <2>1, <2>2, <3>1 DEF Dead
  <2>9. Alone(req)'
    BY <1>1, <1>2, <1>3, <1>4 DEF Flight, Alone, Refreshes
  <2> QED
    BY <1>1, <2>1, <2>3, <2>4, <2>5, <2>6, <2>7, <2>8, <2>9 DEF Flight
<1> QED
  BY <1>5, <1>6

\* What was signed out stays out when a reply is delivered: its cookie is of
\* another session.
LEMMA DeliverOver ==
  ASSUME WebInv, NEW r \in Slots, req[r].st = "answered",
         req' = [req EXCEPT ![r] = Free],
         jar' = IF req[r].cookie = NoCookie THEN jar ELSE req[r].cookie,
         UNCHANGED <<server>>,
         NEW f \in (1..issued) \cup {NoToken}, f # NoToken,
         \A t \in live : family[t] # f,
         \A s \in Slots : Refreshes(req[s]) => family[req[s].tok] # f,
         \A s \in Slots : req[s].st = "answered" /\ req[s].cookie \in Tokens =>
                            family[req[s].cookie] # f,
         (jar # NoToken => family[jar] # f) \/ req[r].cookie = NoToken
  PROVE  /\ \A t \in live' : family'[t] # f
         /\ \A s \in Slots : Refreshes(req'[s]) => family'[req'[s].tok] # f
         /\ \A s \in Slots : req'[s].st = "answered" /\ req'[s].cookie \in Tokens =>
                               family'[req'[s].cookie] # f
         /\ jar' # NoToken => family'[jar'] # f
<1>1. \A s \in Slots : req'[s] = IF s = r THEN Free ELSE req[s]
  BY DEF WebInv, RequestsOK
<1>2. ~Refreshes(Free) /\ Free.st = "free"
  BY DEF Free, Refreshes
<1>3. family' = family /\ live' = live
  BY DEF server
<1>4. req[r].cookie \in Tokens \cup {NoToken, NoCookie} /\ NoToken # NoCookie
  BY DEF WebInv, RequestsOK, Request, NoToken, NoCookie
<1>5. jar' # NoToken => family[jar'] # f
  BY <1>4
<1> QED
  BY <1>1, <1>2, <1>3, <1>5

\* The reply reaches the page.
LEMMA ReplyStep ==
  ASSUME WebInv, NEW r \in Slots, Reply(r)
  PROVE  WebInv'
<1> DEFINE q == req[r]
           f == IF q.cookie \in Tokens THEN family[q.cookie] ELSE NoToken
<1>0. /\ q \in Request /\ Shape(q) /\ q.st = "answered" /\ q.tab \in Tabs
      /\ q.ok \in BOOLEAN /\ NoToken \in 0..issued /\ issued \in Nat
  BY DEF WebInv, RequestsOK, Flight, Shapes, Shape, Reply, Request, ServerOK, NoToken
<1>1. /\ req' = [req EXCEPT ![r] = Free] /\ UNCHANGED <<server, faults, excused, severed>>
      /\ jar' = IF q.cookie = NoCookie THEN jar ELSE q.cookie
      /\ Resolve(q.tab, q.kind, q.ok, f)
      /\ signedOut' = IF q.kind = "logout" /\ q.ok /\ ~q.crossed
                        THEN [signedOut EXCEPT ![q.tab] = FamilyOf(q.tok)] ELSE signedOut
  BY DEF Reply
<1>2. Flight(req, excused)' /\ RequestsOK' /\ jar' \in 0..issued
  BY <1>0, <1>1, DeliverFlight
<1>3. q.cookie \in Tokens => q.cookie \in 1..issued
  <2>1. q.cookie = NoToken \/ q.cookie = NoCookie \/ q.cookie \in 1..issued
    BY <1>0 DEF Shape, Request
  <2>2. NoToken \notin Tokens /\ NoCookie \notin Tokens
    BY WebAssumption DEF Tokens, NoToken, NoCookie
  <2> QED
    BY <2>1, <2>2
<1>4. f \in 0..issued /\ FamilyOf(q.tok) \in 0..issued
  <2>1. \A t \in 1..issued : family[t] \in 0..issued
    BY <1>0 DEF WebInv, Families
  <2>2. q.tok # NoToken => q.tok \in 1..issued
    BY <1>0 DEF Shape, NoToken
  <2> QED
    BY <1>0, <1>3, <2>1, <2>2 DEF FamilyOf
<1>5. /\ PagesOK'
      /\ \A c \in Tabs : access'[c] = access[c] \/ access'[c] = NoToken
                           \/ (c = q.tab /\ q.ok /\ q.kind # "logout" /\ access'[c] = f)
      /\ q.kind = "logout" => access'[q.tab] = NoToken
  <2>1. issued' = issued
    BY <1>1 DEF server
  <2> DEFINE b == q.tab
             k == q.kind
             ok == q.ok
  <2>2. PagesOK /\ b \in Tabs /\ ok \in BOOLEAN /\ NoToken \in 0..issued
        /\ f \in 0..issued /\ Resolve(b, k, ok, f)
    BY <1>0, <1>1, <1>4 DEF WebInv
  <2> HIDE DEF f, q, b, k, ok
  <2>3. /\ PagesOK'
        /\ \A c \in Tabs : access'[c] = access[c] \/ access'[c] = NoToken
                             \/ (c = b /\ ok /\ k # "logout" /\ access'[c] = f)
        /\ k = "logout" => access'[b] = NoToken
    BY <2>1, <2>2, ResolveType
  <2> QED
    BY <2>3 DEF b, k, ok
<1>6. ServerOK' /\ Families' /\ NoFalseTheft'
  BY <1>1, <1>2 DEF WebInv, ServerOK, Families, NoFalseTheft, server
<1>7. HistoryOK'
  <2>1. signedOut' \in [Tabs -> 0..issued]
    BY <1>0, <1>1, <1>4 DEF WebInv, HistoryOK
  <2> QED
    BY <1>1, <2>1 DEF WebInv, HistoryOK, server
<1>8. Over(req)'
  <2>0. SUFFICES ASSUME NEW c \in Tabs, signedOut'[c] # NoToken
               PROVE  /\ \A t \in live' : family'[t] # signedOut'[c]
                      /\ \A s \in Slots : Refreshes(req'[s]) =>
                                            family'[req'[s].tok] # signedOut'[c]
                      /\ \A s \in Slots : req'[s].st = "answered" /\ req'[s].cookie \in Tokens =>
                                            family'[req'[s].cookie] # signedOut'[c]
                      /\ jar' # NoToken => family'[jar'] # signedOut'[c]
                      /\ access'[c] # signedOut'[c]
    BY DEF Over, Refreshes
  <2>1. CASE signedOut'[c] = signedOut[c]
    <3> DEFINE g == signedOut[c]
    <3>1. /\ g \in (1..issued) \cup {NoToken} /\ g # NoToken
          /\ \A t \in live : family[t] # g
          /\ \A s \in Slots : Refreshes(req[s]) => family[req[s].tok] # g
          /\ \A s \in Slots : req[s].st = "answered" /\ req[s].cookie \in Tokens =>
                                family[req[s].cookie] # g
          /\ jar # NoToken => family[jar] # g
          /\ access[c] # g
      <4>1. g \in 0..issued /\ g # NoToken
        BY <2>0, <2>1 DEF WebInv, HistoryOK
      <4>2. g \in (1..issued) \cup {NoToken}
        BY <1>0, <4>1 DEF NoToken
      <4> QED
        BY <2>0, <2>1, <4>2 DEF WebInv, Over
    <3>2. access'[c] # g
      <4>1. f # g
        BY <1>0, <3>1
      <4> QED
        BY <1>5, <3>1, <4>1
    <3> HIDE DEF g
    <3>3. /\ \A t \in live' : family'[t] # g
          /\ \A s \in Slots : Refreshes(req'[s]) => family'[req'[s].tok] # g
          /\ \A s \in Slots : req'[s].st = "answered" /\ req'[s].cookie \in Tokens =>
                                family'[req'[s].cookie] # g
          /\ jar' # NoToken => family'[jar'] # g
      BY <1>0, <1>1, <3>1, DeliverOver
    <3> QED
      BY <2>1, <3>2, <3>3 DEF g
  <2>2. CASE signedOut'[c] # signedOut[c]
    <3> DEFINE g == FamilyOf(q.tok)
    <3>1. /\ c = q.tab /\ q.kind = "logout" /\ q.ok /\ ~q.crossed /\ signedOut'[c] = g
          /\ q.tok # NoToken /\ g = family[q.tok] /\ g # NoToken
      BY <1>0, <1>1, <2>0, <2>2 DEF WebInv, HistoryOK, FamilyOf
    <3>2. /\ \A s \in Slots : Refreshes(req[s]) => family[req[s].tok] # g
          /\ \A t \in live : family[t] # g
      BY <1>0, <3>1 DEF WebInv, Flight, Alone
    <3>3. ASSUME NEW s \in Slots, req[s].st = "answered", req[s].cookie \in Tokens
          PROVE  family[req[s].cookie] # g
      <4>0. Shape(req[s]) /\ req[s] \in Request
        BY DEF WebInv, Flight, Shapes, RequestsOK
      <4>1. NoToken \notin Tokens /\ NoCookie \notin Tokens
        BY WebAssumption DEF Tokens, NoToken, NoCookie
      <4>2. CASE req[s].kind = "refresh"
        <5>1. req[s].tok # NoToken /\ family[req[s].cookie] = family[req[s].tok]
          BY <3>3, <4>0, <4>1, <4>2 DEF Shape
        <5> QED
          BY <3>2, <4>2, <5>1 DEF Refreshes
      <4>3. CASE req[s].kind = "login"
        <5>1. \A t \in 1..issued : family[t] = family[req[s].cookie] => t = req[s].cookie
          BY <3>3, <4>0, <4>1, <4>3 DEF Shape
        <5>2. q.tok # req[s].cookie
          BY <3>3 DEF WebInv, Flight, Sealed
        <5>3. q.tok \in 1..issued
          BY <1>0, <3>1 DEF Shape, NoToken
        <5> QED
          BY <3>1, <5>1, <5>2, <5>3
      <4>4. CASE req[s].kind = "logout"
        BY <3>3, <4>0, <4>1, <4>4 DEF Shape
      <4>5. CASE req[s].kind = "none"
        BY <3>3, <4>0, <4>5 DEF Shape
      <4> QED
        BY <4>0, <4>2, <4>3, <4>4, <4>5 DEF Request
    <3>4. g \in (1..issued) \cup {NoToken} /\ q.cookie = NoToken
      BY <1>0, <1>4, <3>1 DEF Shape, NoToken
    <3>5. access'[c] # g
      BY <1>5, <3>1
    <3> HIDE DEF g
    <3>6. /\ \A t \in live' : family'[t] # g
          /\ \A s \in Slots : Refreshes(req'[s]) => family'[req'[s].tok] # g
          /\ \A s \in Slots : req'[s].st = "answered" /\ req'[s].cookie \in Tokens =>
                                family'[req'[s].cookie] # g
          /\ jar' # NoToken => family'[jar'] # g
      BY <1>0, <1>1, <3>1, <3>2, <3>3, <3>4, DeliverOver
    <3> QED
      BY <3>1, <3>5, <3>6
  <2> QED
    BY <2>1, <2>2
<1> QED
  BY <1>2, <1>5, <1>6, <1>7, <1>8 DEF WebInv

\* The gateway answers instead, or fetch rejects.
LEMMA TroubleStep ==
  ASSUME WebInv, NEW r \in Slots, GatewayReplies(r) \/ Rejects(r)
  PROVE  WebInv'
<1>0. /\ req[r].tab \in Tabs /\ req[r].tab # NoTab /\ NoToken \in 0..issued
      /\ faults' \in 0..MaxFaults /\ UNCHANGED <<server, severed, signedOut>>
  <2>1. Fault /\ req[r].tab # NoTab /\ UNCHANGED <<server, severed, signedOut>>
    <3>1. CASE GatewayReplies(r)
      BY <3>1 DEF GatewayReplies
    <3>2. CASE Rejects(r)
      BY <3>2 DEF Rejects
    <3> QED
      BY <3>1, <3>2
  <2>2. req[r].tab \in Tabs
    BY <2>1 DEF WebInv, RequestsOK, Request
  <2>3. faults \in 0..MaxFaults /\ MaxFaults \in Nat
    BY WebAssumption DEF WebInv, HistoryOK
  <2>4. faults' \in 0..MaxFaults
    BY <2>1, <2>3 DEF Fault
  <2>5. NoToken \in 0..issued
    BY DEF WebInv, ServerOK, NoToken
  <2> QED
    BY <2>1, <2>2, <2>4, <2>5
<1>1. CASE GatewayReplies(r)
  <2>1. PagesOK' /\ \A c \in Tabs : access'[c] \in {access[c], NoToken}
    <3>1. Resolve(req[r].tab, req[r].kind, FALSE, NoToken) /\ issued' = issued
      BY <1>1 DEF GatewayReplies, server
    <3> DEFINE no == FALSE
    <3>2. no \in BOOLEAN /\ PagesOK /\ Resolve(req[r].tab, req[r].kind, no, NoToken)
      BY <3>1 DEF WebInv
    <3> HIDE DEF no
    <3>3. /\ PagesOK'
          /\ \A c \in Tabs : access'[c] = access[c] \/ access'[c] = NoToken
                               \/ (c = req[r].tab /\ no /\ req[r].kind # "logout"
                                     /\ access'[c] = NoToken)
      BY <1>0, <3>1, <3>2, ResolveType
    <3> QED
      BY <3>3
  <2> QED
    BY <1>0, <1>1, <2>1, DropStep DEF GatewayReplies
<1>2. CASE Rejects(r)
  <2>1. PagesOK' /\ \A c \in Tabs : access'[c] \in {access[c], NoToken}
    BY <1>2 DEF Rejects, WebInv, PagesOK, tabs, server
  <2>2. CASE \/ /\ req' = Abandoned({r}) /\ excused' = excused \cup CutBy({r})
                /\ UNCHANGED jar
             \/ /\ req[r].st = "sent" /\ req' = [req EXCEPT ![r] = Free]
                /\ UNCHANGED <<excused, jar>>
    BY <1>0, <2>1, <2>2, DropStep
  <2>3. CASE /\ req[r].st = "answered" /\ req[r].cookie # NoCookie
             /\ jar' = req[r].cookie /\ req' = [req EXCEPT ![r] = Free] /\ UNCHANGED excused
    <3>1. jar' = IF req[r].cookie = NoCookie THEN jar ELSE req[r].cookie
      BY <2>3
    <3>2. Flight(req, excused)' /\ RequestsOK' /\ jar' \in 0..issued
      BY <1>0, <2>3, <3>1, DeliverFlight
    <3>3. ServerOK' /\ Families' /\ NoFalseTheft' /\ HistoryOK'
      BY <1>0, <2>3, <3>2 DEF WebInv, ServerOK, Families, NoFalseTheft, HistoryOK, server
    <3>4. Over(req)'
      <4>1. SUFFICES ASSUME NEW c \in Tabs, signedOut[c] # NoToken
                   PROVE  /\ \A t \in live' : family'[t] # signedOut[c]
                          /\ \A s \in Slots : Refreshes(req'[s]) =>
                                                family'[req'[s].tok] # signedOut[c]
                          /\ \A s \in Slots :
                               req'[s].st = "answered" /\ req'[s].cookie \in Tokens =>
                                 family'[req'[s].cookie] # signedOut[c]
                          /\ jar' # NoToken => family'[jar'] # signedOut[c]
                          /\ access'[c] # signedOut[c]
        BY <1>0 DEF Over, Refreshes
      <4> DEFINE g == signedOut[c]
      <4>2. /\ \A t \in live : family[t] # g
            /\ \A s \in Slots : Refreshes(req[s]) => family[req[s].tok] # g
            /\ \A s \in Slots : req[s].st = "answered" /\ req[s].cookie \in Tokens =>
                                  family[req[s].cookie] # g
            /\ jar # NoToken => family[jar] # g
            /\ access[c] # g
        BY <4>1 DEF WebInv, Over
      <4>3. g \in (1..issued) \cup {NoToken}
        BY DEF WebInv, HistoryOK, ServerOK, NoToken
      <4>4. access'[c] # g
        BY <2>1, <4>1, <4>2
      <4> HIDE DEF g
      <4>5. /\ \A t \in live' : family'[t] # g
            /\ \A s \in Slots : Refreshes(req'[s]) => family'[req'[s].tok] # g
            /\ \A s \in Slots : req'[s].st = "answered" /\ req'[s].cookie \in Tokens =>
                                  family'[req'[s].cookie] # g
            /\ jar' # NoToken => family'[jar'] # g
        <5>1. g # NoToken
          BY <4>1 DEF g
        <5> QED
          BY <1>0, <2>3, <3>1, <4>2, <4>3, <5>1, DeliverOver
      <4> QED
        BY <4>4, <4>5 DEF g
    <3> QED
      BY <2>1, <3>2, <3>3, <3>4 DEF WebInv
  <2> QED
    BY <1>2, <2>2, <2>3 DEF Rejects
<1> QED
  BY <1>1, <1>2
-----------------------------------------------------------------------------
(* The server *)

\* Request r has been answered with ok and cookie c, or dropped if nobody waits
\* for the answer.
AnsweredAs(r, ok, c) ==
  /\ req' \in [Slots -> Request]
  /\ \A s \in Slots : s # r => req'[s] = req[s]
  /\ \/ req[r].tab = NoTab /\ req'[r] = Free
     \/ /\ req[r].tab # NoTab
        /\ req'[r].st = "answered" /\ req'[r].ok = ok /\ req'[r].cookie = c
        /\ req'[r].tab = req[r].tab /\ req'[r].kind = req[r].kind
        /\ req'[r].tok = req[r].tok /\ req'[r].crossed = req[r].crossed

\* What Answer does to the table.
LEMMA AnswerTable ==
  ASSUME RequestsOK, NEW r \in Slots, NEW ok \in BOOLEAN,
         NEW c \in Tokens \cup {NoToken, NoCookie}, Answer(r, ok, c)
  PROVE  AnsweredAs(r, ok, c)
<1> DEFINE done == [req[r] EXCEPT !.st = "answered", !.ok = ok, !.cookie = c]
<1>1. req \in [Slots -> Request] /\ req[r] \in Request
  BY DEF RequestsOK
<1>2. /\ done \in Request
      /\ done.st = "answered" /\ done.ok = ok /\ done.cookie = c /\ done.tab = req[r].tab
      /\ done.kind = req[r].kind /\ done.tok = req[r].tok /\ done.crossed = req[r].crossed
  BY <1>1 DEF Request
<1>3. Free \in Request
  BY DEF Free, Request
<1>4. req' = [req EXCEPT ![r] = IF req[r].tab = NoTab THEN Free ELSE done]
  BY DEF Answer
<1> HIDE DEF done
<1>5. req' \in [Slots -> Request] /\ \A s \in Slots : s # r => req'[s] = req[s]
  BY <1>1, <1>2, <1>3, <1>4
<1>6. req'[r] = IF req[r].tab = NoTab THEN Free ELSE done
  BY <1>1, <1>4
<1> QED
  BY <1>2, <1>5, <1>6 DEF AnsweredAs

\* Dead after the step.
Ended(f) ==
  /\ \A t \in live' : family'[t] # f
  /\ \A r \in Slots : req'[r].st = "issuing" => family'[req'[r].tok] # f

\* A request is answered without a new token; the family g is revoked with it,
\* if g is one.
LEMMA ConcludeFlight ==
  ASSUME WebInv, NEW r \in Slots, req[r].st \in {"sent", "issuing"},
         NEW g, NEW ok \in BOOLEAN,
         NEW c, c = IF req[r].kind = "logout" THEN NoToken ELSE NoCookie,
         AnsweredAs(r, ok, c),
         live' = {t \in live : family[t] # g},
         ok => req[r].kind = "logout" /\ (req[r].tok # NoToken => family[req[r].tok] = g),
         UNCHANGED <<issued, family, jar, excused>>
  PROVE  Flight(req, excused)'
<1>1. Flight(req, excused) /\ Shape(req[r]) /\ req[r] \in Request
  BY DEF WebInv, RequestsOK, Flight, Shapes
<1>2. /\ Free.st = "free" /\ Free.kind = "none" /\ Free.tok = NoToken /\ Free.cookie = NoCookie
      /\ NoToken \notin Tokens /\ NoCookie \notin Tokens /\ NoToken \in 0..issued
  BY WebAssumption DEF Free, WebInv, ServerOK, Tokens, NoToken, NoCookie
<1>3. \A s \in Slots : s # r => req'[s] = req[s]
  BY DEF AnsweredAs
<1>4. \/ req'[r] = Free
      \/ /\ req[r].tab # NoTab
         /\ req'[r].st = "answered" /\ req'[r].ok = ok /\ req'[r].cookie = c
         /\ req'[r].tab = req[r].tab /\ req'[r].kind = req[r].kind
         /\ req'[r].tok = req[r].tok /\ req'[r].crossed = req[r].crossed
  BY DEF AnsweredAs
<1>5. req'[r].st \notin {"sent", "issuing"}
  BY <1>2, <1>4
<1>6. OneHolder(req)
  BY <1>1 DEF Flight
<1>7. ASSUME NEW f, Dead(req, f) PROVE Ended(f)
  BY <1>3, <1>5, <1>7 DEF Dead, Ended
<1>8. ASSUME NEW t \in live, t \notin live' PROVE Ended(family[t])
  <2>1. family[t] = g
    BY <1>8
  <2>2. \A s \in Slots : req[s].st = "issuing" => family[req[s].tok] # g
    BY <1>6, <2>1 DEF OneHolder
  <2> QED
    BY <1>3, <1>5, <2>1, <2>2 DEF Ended
<1>9. Shapes(req)'
  <2> SUFFICES ASSUME NEW s \in Slots PROVE Shape(req[s])'
    BY DEF Shapes
  <2>1. CASE s # r
    BY <1>1, <1>3, <2>1 DEF Flight, Shapes, Shape, Refreshes
  <2>2. CASE s = r /\ req'[r] = Free
    BY <1>2, <2>2 DEF Shape, Refreshes
  <2>3. CASE s = r /\ req'[r] # Free
    BY <1>1, <1>4, <2>3 DEF Shape, Refreshes
  <2> QED
    BY <2>1, <2>2, <2>3
<1>10. Sealed(req)'
  <2> SUFFICES ASSUME NEW s \in Slots, req'[s].st = "answered", req'[s].cookie \in Tokens
               PROVE  /\ jar # req'[s].cookie
                      /\ \A u \in Slots : /\ req'[u].tok # req'[s].cookie
                                          /\ u # s => req'[u].cookie # req'[s].cookie
                      /\ req'[s].cookie \in live' \/ Ended(family[req'[s].cookie])
    BY DEF Sealed, Dead, Ended
  <2>1. s # r /\ req'[s] = req[s]
    BY <1>2, <1>3, <1>4
  <2>2. /\ jar # req[s].cookie
        /\ \A u \in Slots : /\ req[u].tok # req[s].cookie
                            /\ u # s => req[u].cookie # req[s].cookie
        /\ req[s].cookie \in live \/ Dead(req, family[req[s].cookie])
    BY <1>1, <2>1 DEF Flight, Sealed
  <2>3. req[s].cookie \in live' \/ Ended(family[req[s].cookie])
    BY <1>7, <1>8, <2>2
  <2> QED
    BY <1>2, <1>3, <1>4, <2>1, <2>2, <2>3
<1>11. OneHolder(req)'
  BY <1>3, <1>5, <1>6 DEF OneHolder
<1>12. OneRefresh(req)'
  BY <1>1, <1>2, <1>3, <1>4 DEF Flight, OneRefresh
<1>13. SharedIsExcused(req, excused)' /\ OrphanIsExcused(req, excused)'
  BY <1>1, <1>2, <1>3, <1>4 DEF Flight, SharedIsExcused, OrphanIsExcused, Refreshes
<1>14. SentIsLive(req, excused)'
  <2> SUFFICES ASSUME NEW s \in Slots, Refreshes(req'[s]), req'[s].st = "sent"
               PROVE  \/ family[req'[s].tok] \in excused \/ req'[s].tok \in live'
                      \/ Ended(family[req'[s].tok])
    BY DEF SentIsLive, Refreshes, Dead, Ended
  <2>1. req'[s] = req[s]
    BY <1>3, <1>5
  <2>2. \/ family[req[s].tok] \in excused \/ req[s].tok \in live
        \/ Dead(req, family[req[s].tok])
    BY <1>1, <2>1 DEF Flight, SentIsLive
  <2> QED
    BY <1>7, <1>8, <2>1, <2>2
<1>15. JarIsLive(req, excused)'
  <2> SUFFICES ASSUME jar # NoToken
               PROVE  \/ family[jar] \in excused \/ jar \in live'
                      \/ Ended(family[jar])
                      \/ \E p \in Slots : req'[p].tok = jar /\ Spent(req'[p])
                                            /\ req'[p].tab # NoTab
    BY DEF JarIsLive, Spent, Dead, Ended
  <2>1. CASE \/ family[jar] \in excused \/ jar \in live \/ Dead(req, family[jar])
    BY <1>7, <1>8, <2>1
  <2>2. ASSUME NEW p \in Slots, req[p].tok = jar, Spent(req[p]), req[p].tab # NoTab
        PROVE  \/ Ended(family[jar])
               \/ req'[p].tok = jar /\ Spent(req'[p]) /\ req'[p].tab # NoTab
    <3>1. CASE p # r
      BY <1>3, <2>2, <3>1
    <3>2. CASE p = r
      <4>1. req[r].st = "issuing"
        BY <2>2, <3>2 DEF Spent
      <4>2. /\ \A t \in live : family[t] # family[jar]
            /\ \A s \in Slots : s # r /\ req[s].st = "issuing" =>
                                  family[req[s].tok] # family[jar]
        BY <1>6, <2>2, <3>2, <4>1 DEF OneHolder
      <4> QED
        BY <1>3, <1>5, <4>2 DEF Ended
    <3> QED
      BY <3>1, <3>2
  <2> QED
    BY <1>1, <2>1, <2>2 DEF Flight, JarIsLive
<1>16. Alone(req)'
  <2> SUFFICES ASSUME NEW s \in Slots, req'[s].kind = "logout", req'[s].tok # NoToken,
                      ~req'[s].crossed,
                      req'[s].st = "sent" \/ (req'[s].st = "answered" /\ req'[s].ok)
               PROVE  /\ \A u \in Slots : Refreshes(req'[u]) =>
                           family[req'[u].tok] # family[req'[s].tok]
                      /\ req'[s].st = "answered" =>
                           \A t \in live' : family[t] # family[req'[s].tok]
    BY DEF Alone, Refreshes
  <2>1. \A u \in Slots : Refreshes(req'[u]) => Refreshes(req[u]) /\ req'[u].tok = req[u].tok
    BY <1>2, <1>3, <1>4 DEF Refreshes
  <2>2. CASE s # r
    BY <1>1, <1>3, <2>1, <2>2 DEF Flight, Alone
  <2>3. CASE s = r
    <3>1. /\ req'[r].st = "answered" /\ req'[r].ok = ok /\ req[r].kind = "logout"
          /\ req'[r].tok = req[r].tok /\ req'[r].crossed = req[r].crossed
      BY <1>2, <1>4, <2>3
    <3>2. req[r].st = "sent" /\ family[req[r].tok] = g /\ ~req[r].crossed
      BY <1>1, <2>3, <3>1 DEF Shape, Refreshes
    <3>3. \A u \in Slots : Refreshes(req[u]) => family[req[u].tok] # family[req[r].tok]
      BY <1>1, <2>3, <3>1, <3>2 DEF Flight, Alone
    <3> QED
      BY <2>1, <2>3, <3>1, <3>2, <3>3
  <2> QED
    BY <2>2, <2>3
<1> QED
  BY <1>9, <1>10, <1>11, <1>12, <1>13, <1>14, <1>15, <1>16 DEF Flight
\* What was signed out stays out when a step adds no token to its session.
LEMMA ServerKeepsOver ==
  ASSUME WebInv, UNCHANGED <<issued, family, jar, tabs, signedOut>>, live' \subseteq live,
         \A s \in Slots : Refreshes(req'[s]) => Refreshes(req[s]) /\ req'[s].tok = req[s].tok,
         \A s \in Slots : req'[s].st = "answered" /\ req'[s].cookie \in Tokens =>
                            req[s].st = "answered" /\ req'[s].cookie = req[s].cookie
  PROVE  Over(req)'
<1> SUFFICES ASSUME NEW b \in Tabs, signedOut[b] # NoToken
             PROVE  /\ \A t \in live' : family[t] # signedOut[b]
                    /\ \A s \in Slots : Refreshes(req'[s]) => family[req'[s].tok] # signedOut[b]
                    /\ \A s \in Slots : req'[s].st = "answered" /\ req'[s].cookie \in Tokens =>
                                          family[req'[s].cookie] # signedOut[b]
                    /\ jar # NoToken => family[jar] # signedOut[b]
                    /\ access[b] # signedOut[b]
  BY DEF Over, Refreshes, tabs
<1> QED
  BY DEF WebInv, Over

\* The whole step that answers without a new token.
LEMMA ConcludeStep ==
  ASSUME WebInv, NEW r \in Slots, req[r].st \in {"sent", "issuing"},
         NEW g, NEW ok \in BOOLEAN,
         Answer(r, ok, IF req[r].kind = "logout" THEN NoToken ELSE NoCookie),
         live' = {t \in live : family[t] # g},
         ok => req[r].kind = "logout" /\ (req[r].tok # NoToken => family[req[r].tok] = g),
         UNCHANGED <<issued, family, jar, tabs, excused, severed, signedOut>>,
         faults' \in 0..MaxFaults
  PROVE  WebInv'
<1> DEFINE c == IF req[r].kind = "logout" THEN NoToken ELSE NoCookie
<1>1. c \in Tokens \cup {NoToken, NoCookie} /\ c \notin Tokens /\ Answer(r, ok, c)
  BY WebAssumption DEF Tokens, NoToken, NoCookie
<1>2. c = IF req[r].kind = "logout" THEN NoToken ELSE NoCookie
  OBVIOUS
<1> HIDE DEF c
<1>3. AnsweredAs(r, ok, c)
  BY <1>1, AnswerTable DEF WebInv
<1>4. Flight(req, excused)'
  BY <1>2, <1>3, ConcludeFlight
<1>5. ServerOK' /\ PagesOK' /\ HistoryOK' /\ RequestsOK' /\ Families' /\ NoFalseTheft'
  <2>1. ServerOK' /\ Families' /\ NoFalseTheft'
    BY DEF WebInv, ServerOK, Families, NoFalseTheft
  <2>2. PagesOK' /\ HistoryOK'
    BY DEF WebInv, PagesOK, HistoryOK, tabs
  <2>3. RequestsOK'
    BY <1>3 DEF AnsweredAs, RequestsOK
  <2> QED
    BY <2>1, <2>2, <2>3
<1>6. Over(req)'
  <2>1. \A s \in Slots : Refreshes(req'[s]) => Refreshes(req[s]) /\ req'[s].tok = req[s].tok
    BY <1>3 DEF AnsweredAs, Refreshes, Free
  <2>2. \A s \in Slots : req'[s].st = "answered" /\ req'[s].cookie \in Tokens =>
                           req[s].st = "answered" /\ req'[s].cookie = req[s].cookie
    BY <1>1, <1>3 DEF AnsweredAs, Free
  <2> QED
    BY <2>1, <2>2, ServerKeepsOver
<1> QED
  BY <1>4, <1>5, <1>6 DEF WebInv

\* What live is without a family.
LEMMA LiveWithout ==
  ASSUME WebInv
  PROVE  /\ \A g : live \ Family(g) = {t \in live : family[t] # g}
         /\ live = {t \in live : family[t] # NoToken}
<1>1. \A t \in live : t \in 1..issued /\ t \in Tokens
  BY WebAssumption DEF WebInv, ServerOK, Tokens
<1>2. NoToken \notin 1..issued
  BY DEF NoToken
<1> QED
  BY <1>1, <1>2 DEF WebInv, Families, Family

LEMMA LogoutStep ==
  ASSUME WebInv, NEW r \in Slots, logout(r)
  PROVE  WebInv'
<1> DEFINE g == FamilyOf(req[r].tok)
           yes == TRUE
<1>1. /\ req[r].st \in {"sent", "issuing"} /\ req[r].kind = "logout" /\ yes \in BOOLEAN
      /\ Answer(r, yes, IF req[r].kind = "logout" THEN NoToken ELSE NoCookie)
      /\ UNCHANGED <<issued, family, jar, tabs, excused, severed, signedOut>>
      /\ req[r].tok # NoToken => family[req[r].tok] = g
  BY DEF logout, history, FamilyOf
<1>2. live' = {t \in live : family[t] # g}
  BY LiveWithout DEF logout, FamilyOf
<1>3. faults' \in 0..MaxFaults
  BY DEF logout, WebInv, HistoryOK
<1> HIDE DEF g, yes
<1> QED
  BY <1>1, <1>2, <1>3, ConcludeStep

LEMMA FailStep ==
  ASSUME WebInv, NEW r \in Slots, ServerFails(r)
  PROVE  WebInv'
<1> DEFINE no == FALSE
<1>1. /\ req[r].st \in {"sent", "issuing"} /\ no \in BOOLEAN /\ ~no
      /\ Answer(r, no, IF req[r].kind = "logout" THEN NoToken ELSE NoCookie)
      /\ UNCHANGED <<issued, family, live, jar, tabs, excused, severed, signedOut>>
      /\ Fault
  BY DEF ServerFails, history, server
<1>2. live' = {t \in live : family[t] # NoToken}
  BY <1>1, LiveWithout
<1>3. faults' \in 0..MaxFaults
  <2>1. faults \in 0..MaxFaults /\ MaxFaults \in Nat
    BY WebAssumption DEF WebInv, HistoryOK
  <2> QED
    BY <1>1, <2>1 DEF Fault
<1> HIDE DEF no
<1> QED
  BY <1>1, <1>2, <1>3, ConcludeStep
\* A live token is spent: its request holds the family from here on.
LEMMA SpendFlight ==
  ASSUME WebInv, NEW r \in Slots, req[r].st = "sent", req[r].kind = "refresh",
         req[r].tok \in live, live' = live \ {req[r].tok},
         req' \in [Slots -> Request], \A s \in Slots : s # r => req'[s] = req[s],
         req'[r].st = "issuing", req'[r].tab = req[r].tab, req'[r].kind = "refresh",
         req'[r].tok = req[r].tok, req'[r].ok = req[r].ok, req'[r].cookie = req[r].cookie,
         excused \subseteq excused',
         req[r].tab = NoTab => family[req[r].tok] \in excused',
         UNCHANGED <<issued, family, jar>>
  PROVE  Flight(req, excused)'
<1>1. Flight(req, excused) /\ Shape(req[r]) /\ OneHolder(req)
  BY DEF WebInv, Flight, Shapes
<1>2. req[r].tok # NoToken
  BY DEF WebInv, ServerOK, NoToken
<1>3. ASSUME NEW f, Dead(req, f) PROVE Ended(f)
  BY <1>3 DEF Dead, Ended
<1>4. \A s \in Slots : /\ Refreshes(req'[s]) <=> Refreshes(req[s])
                       /\ req'[s].tok = req[s].tok /\ req'[s].kind = req[s].kind
                       /\ req'[s].tab = req[s].tab /\ req'[s].cookie = req[s].cookie
  BY DEF Refreshes
<1>5. Shapes(req)'
  <2> SUFFICES ASSUME NEW s \in Slots PROVE Shape(req[s])'
    BY DEF Shapes
  <2>1. CASE s # r
    BY <1>1, <2>1 DEF Flight, Shapes, Shape, Refreshes
  <2>2. CASE s = r
    BY <1>1, <1>2, <2>2 DEF Shape, Refreshes
  <2> QED
    BY <2>1, <2>2
<1>6. Sealed(req)'
  <2> SUFFICES ASSUME NEW s \in Slots, req'[s].st = "answered", req'[s].cookie \in Tokens
               PROVE  /\ jar # req'[s].cookie
                      /\ \A u \in Slots : /\ req'[u].tok # req'[s].cookie
                                          /\ u # s => req'[u].cookie # req'[s].cookie
                      /\ req'[s].cookie \in live' \/ Ended(family[req'[s].cookie])
    BY DEF Sealed, Dead, Ended
  <2>1. req'[s] = req[s]
    OBVIOUS
  <2>2. /\ jar # req[s].cookie
        /\ \A u \in Slots : /\ req[u].tok # req[s].cookie
                            /\ u # s => req[u].cookie # req[s].cookie
        /\ req[s].cookie \in live \/ Dead(req, family[req[s].cookie])
    BY <1>1, <2>1 DEF Flight, Sealed
  <2>3. req[s].cookie \in live' \/ Ended(family[req[s].cookie])
    BY <1>3, <2>2
  <2> QED
    BY <1>4, <2>1, <2>2, <2>3
<1>7. OneHolder(req)'
  <2>1. \A t, u \in live' : family[t] = family[u] => t = u
    BY <1>1 DEF OneHolder
  <2>2. \A s, u \in Slots : req'[s].st = "issuing" /\ req'[u].st = "issuing"
          /\ family[req'[s].tok] = family[req'[u].tok] => s = u
    BY <1>1, <1>4 DEF OneHolder
  <2>3. \A t \in live', s \in Slots : req'[s].st = "issuing" => family[t] # family[req'[s].tok]
    BY <1>1, <1>4 DEF OneHolder
  <2> QED
    BY <2>1, <2>2, <2>3 DEF OneHolder
<1>8. OneRefresh(req)'
  BY <1>1, <1>4 DEF Flight, OneRefresh
<1>9. SharedIsExcused(req, excused)'
  <2>1. SharedIsExcused(req, excused)
    BY <1>1 DEF Flight
  <2> QED
    BY <1>4, <2>1 DEF SharedIsExcused, Refreshes
<1>10. OrphanIsExcused(req, excused)'
  BY <1>1, <1>4 DEF Flight, OrphanIsExcused
<1>11. SentIsLive(req, excused)'
  <2> SUFFICES ASSUME NEW s \in Slots, Refreshes(req'[s]), req'[s].st = "sent"
               PROVE  \/ family[req'[s].tok] \in excused' \/ req'[s].tok \in live'
                      \/ Ended(family[req'[s].tok])
    BY DEF SentIsLive, Refreshes, Dead, Ended
  <2>1. s # r /\ req'[s] = req[s]
    OBVIOUS
  <2>2. \/ family[req[s].tok] \in excused \/ req[s].tok \in live
        \/ Dead(req, family[req[s].tok])
    BY <1>1, <2>1 DEF Flight, SentIsLive
  <2>3. req[s].tok = req[r].tok => family[req[s].tok] \in excused
    BY <1>1, <1>2, <2>1 DEF Flight, SharedIsExcused, Refreshes
  <2> QED
    BY <1>3, <2>1, <2>2, <2>3
<1>12. JarIsLive(req, excused)'
  <2> SUFFICES ASSUME jar # NoToken
               PROVE  \/ family[jar] \in excused' \/ jar \in live' \/ Ended(family[jar])
                      \/ \E p \in Slots : req'[p].tok = jar /\ Spent(req'[p])
                                            /\ req'[p].tab # NoTab
    BY DEF JarIsLive, Spent, Dead, Ended
  <2>1. CASE jar = req[r].tok
    BY <2>1 DEF Spent
  <2>2. CASE jar # req[r].tok /\ (family[jar] \in excused \/ jar \in live \/ Dead(req, family[jar]))
    BY <1>3, <2>2
  <2>3. ASSUME NEW p \in Slots, req[p].tok = jar, Spent(req[p]), req[p].tab # NoTab
        PROVE  req'[p].tok = jar /\ Spent(req'[p]) /\ req'[p].tab # NoTab
    BY <2>3 DEF Spent
  <2> QED
    BY <1>1, <2>1, <2>2, <2>3 DEF Flight, JarIsLive
<1>13. Alone(req)'
  <2> SUFFICES ASSUME NEW s \in Slots, req'[s].kind = "logout", req'[s].tok # NoToken,
                      ~req'[s].crossed,
                      req'[s].st = "sent" \/ (req'[s].st = "answered" /\ req'[s].ok)
               PROVE  /\ \A u \in Slots : Refreshes(req'[u]) =>
                           family[req'[u].tok] # family[req'[s].tok]
                      /\ req'[s].st = "answered" =>
                           \A t \in live' : family[t] # family[req'[s].tok]
    BY DEF Alone, Refreshes
  <2>1. req'[s] = req[s]
    OBVIOUS
  <2> QED
    BY <1>1, <1>4, <2>1 DEF Flight, Alone
<1> QED
  BY <1>5, <1>6, <1>7, <1>8, <1>9, <1>10, <1>11, <1>12, <1>13 DEF Flight

\* POST /auth/refresh up to spend, in its three cases.
LEMMA RefreshStep ==
  ASSUME WebInv, NEW r \in Slots, refresh(r)
  PROVE  WebInv'
<1> DEFINE q == req[r]
           no == FALSE
<1>0. /\ q.kind = "refresh" /\ q.st = "sent" /\ q \in Request /\ no \in BOOLEAN /\ ~no
      /\ UNCHANGED <<issued, family, jar, tabs, faults, signedOut>>
      /\ faults' \in 0..MaxFaults
  BY DEF refresh, WebInv, RequestsOK, HistoryOK
<1>1. CASE q.tok = NoToken /\ Answer(r, FALSE, NoCookie) /\ UNCHANGED <<live, excused, severed>>
  <2>1. Answer(r, no, IF req[r].kind = "logout" THEN NoToken ELSE NoCookie)
    BY <1>0, <1>1
  <2>2. live' = {t \in live : family[t] # NoToken}
    BY <1>1, LiveWithout
  <2> HIDE DEF no
  <2> QED
    BY <1>0, <1>1, <2>1, <2>2, ConcludeStep
<1>2. CASE /\ q.tok \in live
           /\ live' = live \ {q.tok}
           /\ req' = [req EXCEPT ![r].st = "issuing"]
           /\ excused' = IF q.tab = NoTab THEN excused \cup {family[q.tok]} ELSE excused
           /\ UNCHANGED severed
  <2>1. /\ req' \in [Slots -> Request] /\ \A s \in Slots : s # r => req'[s] = req[s]
        /\ req'[r].st = "issuing" /\ req'[r].tab = q.tab /\ req'[r].kind = "refresh"
        /\ req'[r].tok = q.tok /\ req'[r].ok = q.ok /\ req'[r].cookie = q.cookie
    BY <1>0, <1>2 DEF WebInv, RequestsOK, Request
  <2>2. Flight(req, excused)'
    BY <1>0, <1>2, <2>1, SpendFlight
  <2>3. Over(req)'
    BY <1>0, <1>2, <2>1, ServerKeepsOver DEF Refreshes
  <2>4. family[q.tok] \in 1..issued
    BY <1>2 DEF WebInv, ServerOK, Families
  <2>5. ServerOK' /\ Families' /\ NoFalseTheft'
    BY <1>0, <1>2 DEF WebInv, ServerOK, Families, NoFalseTheft
  <2>6. PagesOK' /\ HistoryOK'
    BY <1>0, <1>2, <2>4 DEF WebInv, PagesOK, HistoryOK, tabs
  <2> QED
    BY <2>1, <2>2, <2>3, <2>5, <2>6 DEF WebInv, RequestsOK
<1>3. CASE /\ q.tok \notin live \cup {NoToken}
           /\ live' = live \ Family(family[q.tok])
           /\ severed' = IF family[q.tok] \notin excused
                            /\ \/ live' # live
                               \/ \E p \in Slots : /\ req[p].st = "issuing"
                                                   /\ FamilyOf(req[p].tok) = family[q.tok]
                           THEN severed \cup {family[q.tok]} ELSE severed
           /\ Answer(r, FALSE, NoCookie)
           /\ UNCHANGED excused
  <2>1. Answer(r, no, IF req[r].kind = "logout" THEN NoToken ELSE NoCookie)
    BY <1>0, <1>3
  <2>2. live' = {t \in live : family[t] # family[q.tok]}
    BY <1>3, LiveWithout
  <2>3. family[q.tok] \in excused \/ Dead(req, family[q.tok])
    BY <1>0, <1>3 DEF WebInv, Flight, SentIsLive, Refreshes
  <2>4. \A p \in Slots : req[p].st = "issuing" => FamilyOf(req[p].tok) = family[req[p].tok]
    BY DEF WebInv, Flight, Shapes, Shape, Refreshes, FamilyOf
  <2>5. severed' = severed
    BY <1>3, <2>2, <2>3, <2>4 DEF Dead
  <2> HIDE DEF no
  <2> QED
    BY <1>0, <1>3, <2>1, <2>2, <2>5, ConcludeStep
<1> QED
  BY <1>1, <1>2, <1>3 DEF refresh
\* The numbers of issued tokens: what is true of them before a token is created
\* is true after it.
LEMMA NewToken ==
  ASSUME WebInv, NEW f, CreateToken(f), f \in 1..(issued + 1)
  PROVE  /\ issued' = issued + 1 /\ issued' \in 0..MaxTokens /\ issued' \in Tokens
         /\ issued' \in 1..issued' /\ issued' \notin 0..issued
         /\ 0..issued \subseteq 0..issued' /\ 1..issued \subseteq 1..issued'
         /\ 1..issued' = (1..issued) \cup {issued'}
         /\ \A t \in 1..issued : t \in Tokens /\ family'[t] = family[t]
         /\ family'[issued'] = f /\ live' = live \cup {issued'}
         /\ family' \in [Tokens -> Tokens \cup {NoToken}]
         /\ \A t \in Tokens : t > issued' => family'[t] = family[t]
<1>1. issued \in Nat /\ MaxTokens \in Nat /\ issued < MaxTokens /\ issued' = issued + 1
  BY WebAssumption DEF WebInv, ServerOK, CreateToken
<1>2. /\ issued' \in 0..MaxTokens /\ issued' \in 1..MaxTokens /\ f \in 1..MaxTokens
      /\ issued' \in 1..issued' /\ issued' \notin 0..issued
      /\ 0..issued \subseteq 0..issued' /\ 1..issued \subseteq 1..issued'
      /\ 1..issued' = (1..issued) \cup {issued'}
      /\ \A t \in 1..issued : t \in 1..MaxTokens /\ t # issued'
      /\ \A t \in 1..MaxTokens : t > issued' => t # issued'
  BY <1>1
<1>3. family \in [Tokens -> Tokens \cup {NoToken}]
  BY DEF WebInv, ServerOK
<1>4. family' = [family EXCEPT ![issued'] = f] /\ live' = live \cup {issued'}
  BY <1>1 DEF CreateToken
<1> QED
  BY <1>1, <1>2, <1>3, <1>4 DEF Tokens

\* A token is created, the next of a family whose holder is the request itself,
\* or the first of a new one.  Its cookie is sent, or the server fails behind
\* it, which excuses the family of a refresh.
LEMMA CreateFlight ==
  ASSUME WebInv, NEW r \in Slots, NEW f, CreateToken(f), f \in 1..(issued + 1),
         NEW ok \in BOOLEAN, NEW c, c = issued', NEW d, AnsweredAs(r, ok, d),
         \/ ok /\ d = c
         \/ ~ok /\ d = NoCookie /\ (req[r].st = "issuing" => f \in excused'),
         \/ req[r].st = "issuing" /\ f = family[req[r].tok]
         \/ req[r].st = "sent" /\ req[r].kind = "login" /\ f = c,
         UNCHANGED jar, excused \subseteq excused'
  PROVE  Flight(req, excused)'
<1>1. /\ Flight(req, excused) /\ Shape(req[r]) /\ OneHolder(req)
      /\ \A s \in Slots : Shape(req[s]) /\ req[s] \in Request
      /\ live \subseteq 1..issued /\ jar \in 0..issued
      /\ \A t \in 1..issued : family[t] \in 1..issued
  BY DEF WebInv, Flight, Shapes, RequestsOK, ServerOK, Families
<1>2. /\ Free.st = "free" /\ Free.kind = "none" /\ Free.tok = NoToken /\ Free.cookie = NoCookie
      /\ NoToken \notin Tokens /\ NoCookie \notin Tokens /\ NoToken \in 0..issued'
  BY NewToken, WebAssumption DEF Free, WebInv, ServerOK, Tokens, NoToken, NoCookie
<1>3. /\ c \in Tokens /\ c \in 1..issued' /\ c \notin 0..issued /\ c \notin 1..issued
      /\ 0..issued \subseteq 0..issued' /\ 1..issued \subseteq 1..issued'
      /\ 1..issued' = (1..issued) \cup {c}
      /\ \A t \in 1..issued : t \in Tokens /\ family'[t] = family[t]
      /\ family'[c] = f /\ live' = live \cup {c}
  BY NewToken
<1>4. \A s \in Slots : s # r => req'[s] = req[s]
  BY DEF AnsweredAs
<1>5. \/ req'[r] = Free /\ req[r].tab = NoTab
      \/ /\ req[r].tab # NoTab
         /\ req'[r].st = "answered" /\ req'[r].ok = ok /\ req'[r].cookie = d
         /\ req'[r].tab = req[r].tab /\ req'[r].kind = req[r].kind
         /\ req'[r].tok = req[r].tok /\ req'[r].crossed = req[r].crossed
  BY DEF AnsweredAs
<1>6. req'[r].st \notin {"sent", "issuing"}
  BY <1>2, <1>5
<1>7. \A s \in Slots : /\ req[s].tok \in 0..issued
                       /\ req[s].tok # NoToken => req[s].tok \in 1..issued
                       /\ Refreshes(req[s]) => req[s].tok \in 1..issued
                       /\ req[s].st = "issuing" => req[s].tok \in 1..issued
                       /\ req[s].st = "answered" /\ req[s].cookie \in Tokens =>
                            req[s].cookie \in 1..issued
                       /\ req[s].cookie \in Tokens => req[s].cookie \in 1..issued
  <2> SUFFICES ASSUME NEW s \in Slots
               PROVE  /\ req[s].tok \in 0..issued
                      /\ req[s].tok # NoToken => req[s].tok \in 1..issued
                      /\ Refreshes(req[s]) => req[s].tok \in 1..issued
                      /\ req[s].st = "issuing" => req[s].tok \in 1..issued
                      /\ req[s].cookie \in Tokens => req[s].cookie \in 1..issued
    OBVIOUS
  <2>1. Shape(req[s]) /\ req[s] \in Request
    BY <1>1
  <2>2. req[s].tok \in 0..issued /\ (req[s].tok # NoToken => req[s].tok \in 1..issued)
    BY <2>1 DEF Shape, NoToken
  <2>3. req[s].cookie \in Tokens => req[s].cookie \in 1..issued
    BY <1>2, <2>1 DEF Shape, Request
  <2> QED
    BY <2>1, <2>2, <2>3 DEF Shape, Refreshes
<1>8. \/ f = c /\ req[r].kind = "login"
      \/ /\ Refreshes(req[r]) /\ req[r].st = "issuing" /\ f = family[req[r].tok]
         /\ f \in 1..issued
  BY <1>1, <1>7 DEF Shape
<1>9. /\ \A t \in live : family[t] # f
      /\ \A s \in Slots : s # r /\ req[s].st = "issuing" => family[req[s].tok] # f
  <2>1. CASE f = c
    BY <1>1, <1>3, <1>7, <2>1
  <2>2. CASE req[r].st = "issuing" /\ f = family[req[r].tok]
    BY <1>1, <2>2 DEF OneHolder
  <2> QED
    BY <1>8, <2>1, <2>2
<1>10. ASSUME NEW h \in 1..issued, Dead(req, h) PROVE Ended(h)
  <2>1. h # f
    BY <1>3, <1>8, <1>10 DEF Dead
  <2>2. \A t \in live' : family'[t] # h
    BY <1>1, <1>3, <1>10, <2>1 DEF Dead
  <2>3. \A s \in Slots : req'[s].st = "issuing" => family'[req'[s].tok] # h
    BY <1>3, <1>4, <1>6, <1>7, <1>10 DEF Dead
  <2> QED
    BY <2>2, <2>3 DEF Ended
<1>11. \A s \in Slots : Refreshes(req'[s]) =>
         /\ Refreshes(req[s]) /\ req'[s].tok = req[s].tok
         /\ req[s].tok \in 1..issued /\ family'[req'[s].tok] = family[req[s].tok]
  <2>1. \A s \in Slots : Refreshes(req'[s]) => Refreshes(req[s]) /\ req'[s].tok = req[s].tok
    BY <1>2, <1>4, <1>5 DEF Refreshes
  <2> QED
    BY <1>3, <1>7, <2>1
<1>12. Shapes(req)'
  <2> SUFFICES ASSUME NEW s \in Slots PROVE Shape(req[s])'
    BY DEF Shapes
  <2>1. CASE s # r
    <3>1. Shape(req[s]) /\ req'[s] = req[s]
      BY <1>1, <1>4, <2>1
    <3>2. req[s].tok \in 0..issued'
      BY <1>3, <1>7
    <3>3. /\ req[s].cookie \in 1..issued => req[s].cookie \in 1..issued'
          /\ req[s].cookie \in 1..issued => family'[req[s].cookie] = family[req[s].cookie]
          /\ req[s].tok # NoToken => family'[req[s].tok] = family[req[s].tok]
      BY <1>3, <1>7
    <3>4. ASSUME req[s].st = "answered", req[s].kind = "login", req[s].ok,
                 NEW t \in 1..issued', family'[t] = family'[req[s].cookie]
          PROVE  t = req[s].cookie
      <4>1. /\ req[s].cookie \in 1..issued /\ req[s].cookie \in Tokens
            /\ \A u \in 1..issued : family[u] = family[req[s].cookie] => u = req[s].cookie
        BY <1>3, <3>1, <3>4 DEF Shape
      <4>2. CASE t \in 1..issued
        BY <1>3, <3>4, <4>1, <4>2
      <4>3. CASE t = c
        <5>1. f = family[req[s].cookie] /\ family[req[s].cookie] \in 1..issued
          BY <1>1, <1>3, <3>4, <4>1, <4>3
        <5>2. f = family[req[r].tok] /\ req[r].tok \in 1..issued
          BY <1>3, <1>7, <1>8, <5>1
        <5>3. req[r].tok = req[s].cookie
          BY <4>1, <5>1, <5>2
        <5>4. req[r].tok # req[s].cookie
          BY <1>1, <3>4, <4>1 DEF Flight, Sealed
        <5> QED
          BY <5>3, <5>4
      <4> QED
        BY <1>3, <4>2, <4>3
    <3> QED
      BY <3>1, <3>2, <3>3, <3>4 DEF Shape, Refreshes
  <2>2. CASE s = r /\ req'[r] = Free
    BY <1>2, <2>2 DEF Shape, Refreshes
  <2>3. CASE s = r /\ req'[r] # Free /\ ~ok
    <3>1. /\ req'[r].tab # NoTab /\ req'[r].st = "answered" /\ ~req'[r].ok
          /\ req'[r].cookie = NoCookie
          /\ req'[r].kind = req[r].kind /\ req'[r].tok = req[r].tok
      BY <1>5, <2>3
    <3>2. req'[r].tok \in 0..issued' /\ req[r].kind \in {"refresh", "login"}
      BY <1>3, <1>7, <1>8, <3>1 DEF Refreshes
    <3> QED
      BY <2>3, <3>1, <3>2 DEF Shape, Refreshes
  <2>4. CASE s = r /\ req'[r] # Free /\ ok
    <3>1. /\ req'[r].tab # NoTab /\ req'[r].st = "answered" /\ req'[r].ok /\ req'[r].cookie = c
          /\ req'[r].kind = req[r].kind /\ req'[r].tok = req[r].tok
      BY <1>5, <2>4
    <3>2. req'[r].tok \in 0..issued'
      BY <1>3, <1>7, <3>1
    <3>3. req[r].kind = "refresh" \/ (req[r].kind = "login" /\ f = c)
      BY <1>8 DEF Refreshes
    <3>4. req[r].kind = "refresh" => /\ req[r].tok # NoToken
                                     /\ family'[c] = family'[req[r].tok]
      BY <1>1, <1>3, <1>7, <1>8 DEF Shape, Refreshes
    <3>5. req[r].kind = "login" => \A t \in 1..issued' : family'[t] = family'[c] => t = c
      BY <1>1, <1>3, <1>8 DEF Refreshes
    <3> QED
      BY <1>3, <2>4, <3>1, <3>2, <3>3, <3>4, <3>5 DEF Shape, Refreshes
  <2> QED
    BY <2>1, <2>2, <2>3, <2>4
<1>13. Sealed(req)'
  <2> SUFFICES ASSUME NEW s \in Slots, req'[s].st = "answered", req'[s].cookie \in Tokens
               PROVE  /\ jar # req'[s].cookie
                      /\ \A u \in Slots : /\ req'[u].tok # req'[s].cookie
                                          /\ u # s => req'[u].cookie # req'[s].cookie
                      /\ req'[s].cookie \in live' \/ Ended(family'[req'[s].cookie])
    BY DEF Sealed, Dead, Ended
  <2>0. \A u \in Slots : /\ req'[u].tok = req[u].tok \/ req'[u].tok = NoToken
                         /\ \/ req'[u].cookie = req[u].cookie \/ req'[u].cookie = NoCookie
                            \/ u = r /\ req'[u].cookie = c
    BY <1>2, <1>4, <1>5
  <2>1. CASE s = r
    <3>1. req'[s].cookie = c
      BY <1>2, <1>5, <2>1
    <3>2. \A u \in Slots : req[u].tok # c /\ req[u].cookie # c
      BY <1>3, <1>7
    <3> QED
      BY <1>1, <1>2, <1>3, <2>0, <2>1, <3>1, <3>2
  <2>2. CASE s # r
    <3>1. /\ req'[s] = req[s] /\ req[s].cookie \in 1..issued
          /\ family'[req[s].cookie] = family[req[s].cookie]
          /\ family[req[s].cookie] \in 1..issued
      BY <1>1, <1>3, <1>4, <1>7, <2>2
    <3>2. /\ jar # req[s].cookie
          /\ \A u \in Slots : /\ req[u].tok # req[s].cookie
                              /\ u # s => req[u].cookie # req[s].cookie
          /\ req[s].cookie \in live \/ Dead(req, family[req[s].cookie])
      BY <1>1, <3>1 DEF Flight, Sealed
    <3>3. req[s].cookie \in live' \/ Ended(family[req[s].cookie])
      BY <1>3, <1>10, <3>1, <3>2
    <3> QED
      BY <1>2, <1>3, <2>0, <3>1, <3>2, <3>3
  <2> QED
    BY <2>1, <2>2
<1>14. OneHolder(req)'
  <2>1. \A s \in Slots : req'[s].st = "issuing" =>
          /\ s # r /\ req'[s] = req[s] /\ family'[req'[s].tok] = family[req[s].tok]
    BY <1>3, <1>4, <1>6, <1>7
  <2>2. \A t \in live : family'[t] = family[t]
    BY <1>1, <1>3
  <2>3. \A t, u \in live' : family'[t] = family'[u] => t = u
    BY <1>1, <1>3, <1>9, <2>2 DEF OneHolder
  <2>4. \A s, u \in Slots : req'[s].st = "issuing" /\ req'[u].st = "issuing"
          /\ family'[req'[s].tok] = family'[req'[u].tok] => s = u
    BY <1>1, <2>1 DEF OneHolder
  <2>5. \A t \in live', s \in Slots : req'[s].st = "issuing" =>
          family'[t] # family'[req'[s].tok]
    BY <1>1, <1>3, <1>9, <2>1, <2>2 DEF OneHolder
  <2> QED
    BY <2>3, <2>4, <2>5 DEF OneHolder
<1>15. OneRefresh(req)'
  <2>1. OneRefresh(req)
    BY <1>1 DEF Flight
  <2>2. \A s \in Slots : req'[s].kind = "refresh" =>
          req[s].kind = "refresh" /\ req'[s].tab = req[s].tab
    BY <1>2, <1>4, <1>5
  <2> QED
    BY <2>1, <2>2 DEF OneRefresh
<1>16. SharedIsExcused(req, excused)'
  <2>1. \A s, u \in Slots : Refreshes(req'[s]) /\ Refreshes(req'[u]) /\ req'[s].tok = req'[u].tok
          => s = u \/ family'[req'[s].tok] \in excused'
    BY <1>1, <1>11 DEF Flight, SharedIsExcused
  <2> QED
    BY <2>1 DEF SharedIsExcused, Refreshes
<1>17. OrphanIsExcused(req, excused)'
  BY <1>1, <1>3, <1>4, <1>6, <1>7 DEF Flight, OrphanIsExcused
<1>18. SentIsLive(req, excused)'
  <2> SUFFICES ASSUME NEW s \in Slots, Refreshes(req'[s]), req'[s].st = "sent"
               PROVE  \/ family'[req'[s].tok] \in excused' \/ req'[s].tok \in live'
                      \/ Ended(family'[req'[s].tok])
    BY DEF SentIsLive, Refreshes, Dead, Ended
  <2>1. req'[s] = req[s] /\ family'[req'[s].tok] = family[req[s].tok]
          /\ family[req[s].tok] \in 1..issued
    BY <1>1, <1>4, <1>6, <1>11
  <2>2. \/ family[req[s].tok] \in excused \/ req[s].tok \in live
        \/ Dead(req, family[req[s].tok])
    BY <1>1, <2>1 DEF Flight, SentIsLive
  <2> QED
    BY <1>3, <1>10, <2>1, <2>2
<1>19. JarIsLive(req, excused)'
  <2> SUFFICES ASSUME jar # NoToken
               PROVE  \/ family'[jar] \in excused' \/ jar \in live' \/ Ended(family'[jar])
                      \/ \E p \in Slots : req'[p].tok = jar /\ Spent(req'[p])
                                            /\ req'[p].tab # NoTab
    BY DEF JarIsLive, Spent, Dead, Ended
  <2>0. jar \in 1..issued
    BY <1>1 DEF NoToken
  <2>1. CASE family[jar] \in excused \/ jar \in live \/ Dead(req, family[jar])
    BY <1>1, <1>3, <1>10, <2>0, <2>1
  <2>2. ASSUME NEW p \in Slots, req[p].tok = jar, Spent(req[p]), req[p].tab # NoTab
        PROVE  \/ family'[jar] \in excused'
               \/ req'[p].tok = jar /\ Spent(req'[p]) /\ req'[p].tab # NoTab
    <3>1. CASE p # r
      BY <1>4, <2>2, <3>1
    <3>2. CASE p = r
      <4>1. req[r].st = "issuing" /\ req[r].kind = "refresh"
        BY <1>6, <2>2, <3>2 DEF Spent
      <4>2. CASE ok
        BY <1>5, <2>2, <3>2, <4>1, <4>2 DEF Spent
      <4>3. CASE ~ok
        BY <1>3, <2>0, <2>2, <3>2, <4>1, <4>3
      <4> QED
        BY <4>2, <4>3
    <3> QED
      BY <3>1, <3>2
  <2> QED
    BY <1>1, <2>1, <2>2 DEF Flight, JarIsLive
<1>20. Alone(req)'
  <2> SUFFICES ASSUME NEW s \in Slots, req'[s].kind = "logout", req'[s].tok # NoToken,
                      ~req'[s].crossed,
                      req'[s].st = "sent" \/ (req'[s].st = "answered" /\ req'[s].ok)
               PROVE  /\ \A u \in Slots : Refreshes(req'[u]) =>
                           family'[req'[u].tok] # family'[req'[s].tok]
                      /\ req'[s].st = "answered" =>
                           \A t \in live' : family'[t] # family'[req'[s].tok]
    BY DEF Alone, Refreshes
  <2>1. s # r /\ req'[s] = req[s]
    BY <1>2, <1>4, <1>5, <1>8 DEF Refreshes
  <2>2. req[s].tok \in 1..issued /\ family'[req[s].tok] = family[req[s].tok]
          /\ family[req[s].tok] \in 1..issued
    BY <1>1, <1>3, <1>7, <2>1
  <2>3. /\ \A u \in Slots : Refreshes(req[u]) => family[req[u].tok] # family[req[s].tok]
        /\ req[s].st = "answered" => \A t \in live : family[t] # family[req[s].tok]
    BY <1>1, <2>1 DEF Flight, Alone
  <2>4. f # family[req[s].tok]
    BY <1>3, <1>8, <2>2, <2>3
  <2>5. req[s].st = "answered" => \A t \in live' : family'[t] # family[req[s].tok]
    BY <1>1, <1>3, <2>3, <2>4
  <2> QED
    BY <1>11, <2>1, <2>2, <2>3, <2>5
<1> QED
  BY <1>12, <1>13, <1>14, <1>15, <1>16, <1>17, <1>18, <1>19, <1>20 DEF Flight
\* The whole step that creates a token, as issue and login do.
LEMMA CreateStep ==
  ASSUME WebInv, NEW r \in Slots, NEW f, CreateToken(f),
         NEW ok \in BOOLEAN, NEW d, Answer(r, ok, d),
         \/ ok /\ d = issued + 1
         \/ ~ok /\ d = NoCookie /\ (req[r].st = "issuing" => f \in excused'),
         \/ req[r].st = "issuing" /\ f = family[req[r].tok]
         \/ req[r].st = "sent" /\ req[r].kind = "login" /\ f = issued + 1,
         UNCHANGED <<jar, tabs, severed, signedOut>>, faults' \in 0..MaxFaults,
         excused \subseteq excused', excused' \subseteq 1..issued
  PROVE  WebInv'
<1> DEFINE c == issued'
<1>0. Shape(req[r]) /\ issued \in Nat /\ \A t \in 1..issued : family[t] \in 1..issued
  BY DEF WebInv, ServerOK, Flight, Shapes, Families
<1>1. f \in 1..(issued + 1) /\ (f \in 1..issued \/ f = issued + 1)
  <2>1. CASE req[r].st = "issuing" /\ f = family[req[r].tok]
    <3>1. req[r].tok \in 1..issued
      BY <1>0, <2>1 DEF Shape, Refreshes, NoToken
    <3> QED
      BY <1>0, <2>1, <3>1
  <2>2. CASE f = issued + 1
    BY <1>0, <2>2
  <2> QED
    BY <2>1, <2>2
<1>2. /\ c = issued + 1 /\ c \in 0..MaxTokens /\ c \in Tokens
      /\ c \in 1..issued' /\ c \notin 0..issued
      /\ 0..issued \subseteq 0..issued' /\ 1..issued \subseteq 1..issued'
      /\ 1..issued' = (1..issued) \cup {c}
      /\ \A t \in 1..issued : t \in Tokens /\ family'[t] = family[t]
      /\ family'[c] = f /\ live' = live \cup {c}
      /\ family' \in [Tokens -> Tokens \cup {NoToken}]
      /\ \A t \in Tokens : t > issued' => family'[t] = family[t]
  BY <1>1, NewToken
<1>3. \/ ok /\ d = c
      \/ ~ok /\ d = NoCookie /\ (req[r].st = "issuing" => f \in excused')
  BY <1>2
<1>4. c = issued'
  OBVIOUS
<1> HIDE DEF c
<1>5. AnsweredAs(r, ok, d)
  <2>1. d \in Tokens \cup {NoToken, NoCookie}
    BY <1>2, <1>3
  <2>2. RequestsOK /\ Answer(r, ok, d)
    BY DEF WebInv
  <2> QED
    BY <2>1, <2>2, AnswerTable
<1>6. Flight(req, excused)'
  BY <1>1, <1>2, <1>3, <1>4, <1>5, CreateFlight
<1>7. ServerOK'
  BY <1>2, <1>4 DEF WebInv, ServerOK
<1>8. Families'
  <2>1. \A t \in 1..issued' : family'[t] \in 1..issued'
    BY <1>0, <1>1, <1>2
  <2>2. \A t \in Tokens : t > issued' => family'[t] = NoToken
    <3>1. \A t \in Tokens : t > issued' => t > issued
      BY <1>0, <1>2, <1>4 DEF Tokens
    <3> QED
      BY <1>2, <3>1 DEF WebInv, Families
  <2> QED
    BY <2>1, <2>2 DEF Families
<1>9. PagesOK'
  BY <1>2 DEF WebInv, PagesOK, tabs
<1>10. HistoryOK' /\ RequestsOK' /\ NoFalseTheft'
  BY <1>2, <1>5 DEF WebInv, HistoryOK, RequestsOK, NoFalseTheft, AnsweredAs
<1>11. Over(req)'
  <2>1. SUFFICES ASSUME NEW b \in Tabs, signedOut[b] # NoToken
               PROVE  /\ \A t \in live' : family'[t] # signedOut[b]
                      /\ \A s \in Slots : Refreshes(req'[s]) =>
                                            family'[req'[s].tok] # signedOut[b]
                      /\ \A s \in Slots : req'[s].st = "answered" /\ req'[s].cookie \in Tokens =>
                                            family'[req'[s].cookie] # signedOut[b]
                      /\ jar # NoToken => family'[jar] # signedOut[b]
                      /\ access[b] # signedOut[b]
    BY DEF Over, Refreshes, tabs
  <2>2. /\ \A t \in live : family[t] # signedOut[b]
        /\ \A s \in Slots : Refreshes(req[s]) => family[req[s].tok] # signedOut[b]
        /\ \A s \in Slots : req[s].st = "answered" /\ req[s].cookie \in Tokens =>
                              family[req[s].cookie] # signedOut[b]
        /\ jar # NoToken => family[jar] # signedOut[b]
        /\ access[b] # signedOut[b]
    BY <2>1 DEF WebInv, Over
  <2>3. f # signedOut[b]
    <3>1. signedOut[b] \in 0..issued
      BY DEF WebInv, HistoryOK
    <3>2. req[r].st = "issuing" => Refreshes(req[r])
      BY <1>0 DEF Shape
    <3> QED
      BY <1>2, <2>2, <3>1, <3>2
  <2>4. \A t \in live' : family'[t] # signedOut[b]
    BY <1>2, <2>2, <2>3 DEF WebInv, ServerOK
  <2>5. /\ \A s \in Slots : s # r => req'[s] = req[s]
        /\ \/ req'[r] = Free
           \/ /\ req'[r].cookie = d /\ req'[r].kind = req[r].kind /\ req'[r].tok = req[r].tok
    BY <1>5 DEF AnsweredAs
  <2>6. ~Refreshes(Free) /\ Free.st = "free"
    BY DEF Free, Refreshes
  <2>7. ASSUME NEW s \in Slots, Refreshes(req'[s])
        PROVE  family'[req'[s].tok] # signedOut[b]
    <3>1. Refreshes(req[s]) /\ req'[s].tok = req[s].tok
      BY <2>5, <2>6, <2>7 DEF Refreshes
    <3>2. Shape(req[s])
      BY DEF WebInv, Flight, Shapes
    <3>3. req[s].tok \in 1..issued
      BY <3>1, <3>2 DEF Shape, Refreshes, NoToken
    <3> QED
      BY <1>2, <2>2, <3>1, <3>3
  <2>8. ASSUME NEW s \in Slots, req'[s].st = "answered", req'[s].cookie \in Tokens
        PROVE  family'[req'[s].cookie] # signedOut[b]
    <3>1. CASE s = r
      <4>1. req'[s].cookie = d /\ NoCookie \notin Tokens
        BY <2>5, <2>6, <2>8, <3>1 DEF Tokens, NoCookie
      <4> QED
        BY <1>2, <1>3, <2>3, <2>8, <4>1
    <3>2. CASE s # r
      <4>1. req'[s] = req[s] /\ Shape(req[s]) /\ req[s] \in Request
        BY <2>5, <3>2 DEF WebInv, Flight, Shapes, RequestsOK
      <4>2. NoToken \notin Tokens /\ NoCookie \notin Tokens
        BY WebAssumption DEF Tokens, NoToken, NoCookie
      <4>3. req[s].cookie \in 1..issued
        BY <2>8, <4>1, <4>2 DEF Shape, Request
      <4> QED
        BY <1>2, <2>2, <2>8, <4>1, <4>3
    <3> QED
      BY <3>1, <3>2
  <2>9. jar # NoToken => jar \in 1..issued
    BY DEF WebInv, ServerOK, NoToken
  <2> QED
    BY <1>2, <2>2, <2>4, <2>7, <2>8, <2>9
<1> QED
  BY <1>6, <1>7, <1>8, <1>9, <1>10, <1>11 DEF WebInv

LEMMA IssueStep ==
  ASSUME WebInv, NEW r \in Slots, issue(r) \/ login(r)
  PROVE  WebInv'
<1> DEFINE yes == TRUE
           c == issued + 1
<1>1. /\ yes \in BOOLEAN /\ yes /\ Answer(r, yes, c)
      /\ UNCHANGED <<jar, tabs, excused, severed, signedOut>>
      /\ faults' \in 0..MaxFaults /\ excused' \subseteq 1..issued
  BY DEF issue, login, history, WebInv, HistoryOK
<1>2. c = issued + 1
  OBVIOUS
<1> HIDE DEF yes, c
<1>3. CASE issue(r)
  <2>1. CreateToken(family[req[r].tok]) /\ req[r].st = "issuing"
    BY <1>3 DEF issue
  <2> QED
    BY <1>1, <1>2, <2>1, CreateStep
<1>4. CASE login(r)
  <2>1. CreateToken(c) /\ req[r].st = "sent" /\ req[r].kind = "login"
    BY <1>2, <1>4 DEF login
  <2> QED
    BY <1>1, <1>2, <2>1, CreateStep
<1> QED
  BY <1>3, <1>4

\* The token is there, and nobody has it: the family of a refresh is excused.
LEMMA FailAfterStep ==
  ASSUME WebInv, NEW r \in Slots, FailsAfterIssue(r)
  PROVE  WebInv'
<1> DEFINE no == FALSE
           c == issued + 1
<1>1. /\ no \in BOOLEAN /\ ~no /\ Answer(r, no, NoCookie)
      /\ UNCHANGED <<jar, tabs, severed, signedOut>>
      /\ excused \subseteq 1..issued
  BY DEF FailsAfterIssue, WebInv, HistoryOK
<1>2. faults' \in 0..MaxFaults /\ c = issued + 1
  BY WebAssumption DEF FailsAfterIssue, Fault, WebInv, HistoryOK
<1> HIDE DEF no, c
<1>3. CASE req[r].st = "issuing"
  <2>1. Shape(req[r]) /\ issued \in Nat /\ \A t \in 1..issued : family[t] \in 1..issued
    BY DEF WebInv, ServerOK, Flight, Shapes, Families
  <2>2. family[req[r].tok] \in 1..issued
    <3>1. req[r].tok \in 1..issued
      BY <1>3, <2>1 DEF Shape, Refreshes, NoToken
    <3> QED
      BY <2>1, <3>1
  <2>3. CreateToken(family[req[r].tok]) /\ excused' = excused \cup {family[req[r].tok]}
    BY <1>3 DEF FailsAfterIssue
  <2>4. /\ excused \subseteq excused' /\ excused' \subseteq 1..issued
        /\ family[req[r].tok] \in excused'
    BY <1>1, <2>2, <2>3
  <2> QED
    BY <1>1, <1>2, <1>3, <2>3, <2>4, CreateStep
<1>4. CASE req[r].st # "issuing"
  <2>1. CreateToken(c) /\ req[r].st = "sent" /\ req[r].kind = "login" /\ UNCHANGED excused
    BY <1>2, <1>4 DEF FailsAfterIssue
  <2>2. excused \subseteq excused' /\ excused' \subseteq 1..issued
    BY <1>1, <2>1
  <2> QED
    BY <1>1, <1>2, <1>4, <2>1, <2>2, CreateStep
<1> QED
  BY <1>3, <1>4

-----------------------------------------------------------------------------
(* The theorems *)

LEMMA InitWebInv ==
  ASSUME WebInit
  PROVE  WebInv
<1>1. PICK t \in {NoToken, 1} : /\ issued = t /\ jar = t /\ live = {t} \ {NoToken}
                                /\ family = [u \in Tokens |-> IF u = t THEN t ELSE NoToken]
  BY DEF WebInit
<1>2. /\ \A r \in Slots : req[r] = Free
      /\ Free \in Request /\ req = [r \in Slots |-> Free] /\ excused = {} /\ severed = {}
      /\ Free.st = "free" /\ Free.kind = "none" /\ Free.tok = NoToken /\ Free.cookie = NoCookie
      /\ Free.tab = NoTab
  BY DEF WebInit, Free, Request
<1>3. /\ t \in Nat /\ t <= 1 /\ t \in 0..MaxTokens /\ (t # NoToken => t \in Tokens)
      /\ NoToken \in 0..t /\ \A u \in 1..t : u = t /\ u # NoToken /\ u \in Tokens
      /\ \A u \in Tokens : u > t => u # t
      /\ t # NoToken => t \in 1..t
  BY WebAssumption DEF Tokens, NoToken
<1>4. ServerOK
  BY <1>1, <1>3 DEF ServerOK
<1>5. PagesOK /\ HistoryOK
  BY <1>1, <1>3, WebAssumption DEF WebInit, PagesOK, HistoryOK
<1>6. RequestsOK
  BY <1>2 DEF RequestsOK
<1>7. Families
  BY <1>1, <1>3 DEF Families
<1>8. Flight(req, excused)
  <2>1. Shapes(req)
    BY <1>1, <1>2, <1>3 DEF Shapes, Shape, Refreshes
  <2>2. Sealed(req) /\ OneRefresh(req)
    BY <1>2 DEF Sealed, OneRefresh
  <2>3. OneHolder(req)
    BY <1>1, <1>2 DEF OneHolder
  <2>4. SharedIsExcused(req, excused) /\ OrphanIsExcused(req, excused)
          /\ SentIsLive(req, excused) /\ Alone(req)
    BY <1>2 DEF SharedIsExcused, OrphanIsExcused, SentIsLive, Alone, Refreshes
  <2>5. JarIsLive(req, excused)
    BY <1>1 DEF JarIsLive
  <2> QED
    BY <2>1, <2>2, <2>3, <2>4, <2>5 DEF Flight
<1>9. Over(req) /\ NoFalseTheft
  BY <1>2 DEF WebInit, Over, NoFalseTheft
<1> QED
  BY <1>4, <1>5, <1>6, <1>7, <1>8, <1>9 DEF WebInv

LEMMA NextWebInv ==
  ASSUME WebInv, [WebNext]_webVars
  PROVE  WebInv'
<1>1. ASSUME NEW b \in Tabs, load(b) \/ refreshSession(b) \/ signIn(b) \/ signOut(b)
      PROVE  WebInv'
  BY <1>1, PageStep
<1>2. ASSUME NEW r \in Slots, Reply(r) PROVE WebInv'
  BY <1>2, ReplyStep
<1>3. ASSUME NEW r \in Slots, GatewayReplies(r) \/ Rejects(r) PROVE WebInv'
  BY <1>3, TroubleStep
<1>4. ASSUME NEW r \in Slots, refresh(r) PROVE WebInv'
  BY <1>4, RefreshStep
<1>5. ASSUME NEW r \in Slots, issue(r) \/ login(r) PROVE WebInv'
  BY <1>5, IssueStep
<1>6. ASSUME NEW r \in Slots, FailsAfterIssue(r) PROVE WebInv'
  BY <1>6, FailAfterStep
<1>7. ASSUME NEW r \in Slots, logout(r) PROVE WebInv'
  BY <1>7, LogoutStep
<1>8. ASSUME NEW r \in Slots, ServerFails(r) PROVE WebInv'
  BY <1>8, FailStep
<1>9. CASE UNCHANGED webVars
  <2>1. UNCHANGED <<issued, family, live, jar, page, shown, access, req, faults, excused,
                    severed, signedOut>>
    BY <1>9 DEF webVars, server, tabs, history
  <2>2. ServerOK' /\ PagesOK' /\ HistoryOK' /\ RequestsOK' /\ Families' /\ NoFalseTheft'
    BY <2>1 DEF WebInv, ServerOK, PagesOK, HistoryOK, RequestsOK, Families, NoFalseTheft
  <2>3. Flight(req, excused)'
    BY <2>1, SameServer DEF WebInv, server
  <2>4. Over(req)'
    BY <2>1 DEF WebInv, Over, Refreshes
  <2> QED
    BY <2>2, <2>3, <2>4 DEF WebInv
<1> QED
  BY <1>1, <1>2, <1>3, <1>4, <1>5, <1>6, <1>7, <1>8, <1>9 DEF WebNext

\* Every state that tabs, gateway and server reach together satisfies the
\* invariant: client.ts and AuthProvider.tsx, against auth.controller.ts.
THEOREM WebInvariant == WebSpec => []WebInv
<1>1. WebInit => WebInv
  BY InitWebInv
<1>2. WebInv /\ [WebNext]_webVars => WebInv'
  BY NextWebInv
<1> QED
  BY <1>1, <1>2, PTL DEF WebSpec

\* Every cookie in the jar, in a reply or in a tab is of a token that the server
\* has stored (the setRefreshCookie calls of auth.controller.ts).
THEOREM WebTypeCorrect == WebSpec => []WebTypeOK
<1>1. WebInv => WebTypeOK
  <2> SUFFICES ASSUME WebInv PROVE WebTypeOK
    OBVIOUS
  <2>1. ASSUME NEW r \in Slots PROVE req[r].cookie \in -1..issued
    <3>1. Shape(req[r]) /\ req[r] \in Request /\ issued \in Nat
      BY DEF WebInv, Flight, Shapes, RequestsOK, ServerOK
    <3>2. req[r].cookie \in {NoToken, NoCookie} \/ req[r].cookie \in 1..issued
      BY <3>1 DEF Shape, Request, Free
    <3> QED
      BY <3>1, <3>2 DEF NoToken, NoCookie
  <2>2. severed \subseteq 1..issued
    BY DEF WebInv, NoFalseTheft
  <2> QED
    BY <2>1, <2>2 DEF WebInv, ServerOK, PagesOK, HistoryOK, RequestsOK, WebTypeOK
<1> QED
  BY <1>1, WebInvariant, PTL

\* revokeFamily never ends the session of an honest browser, unless two pages had
\* the same cookie in flight, the reply with the next cookie was lost, or the
\* server failed behind the row of the next token (auth.service.ts:123-125).  One
\* page's refreshInFlight (client.ts) is enough for that, with any number of tabs.
THEOREM HonestSessionsSurvive == WebSpec => []NoFalseTheft
<1>1. WebInv => NoFalseTheft
  BY DEF WebInv
<1> QED
  BY <1>1, WebInvariant, PTL

\* A sign-out that was answered 204, with no refresh of its session beside it,
\* ends that session for every tab (logout in client.ts and auth.controller.ts).
THEOREM SignOutsEndSessions == WebSpec => []SignOutEndsSession
<1>1. WebInv => SignOutEndsSession
  <2> SUFFICES ASSUME WebInv, NEW b \in Tabs, signedOut[b] # NoToken
               PROVE  /\ live \cap Family(signedOut[b]) = {}
                      /\ \A r \in Slots : req[r].st = "issuing" =>
                                            FamilyOf(req[r].tok) # signedOut[b]
                      /\ FamilyOf(jar) # signedOut[b]
                      /\ access[b] # signedOut[b]
    BY DEF SignOutEndsSession
  <2>1. Over(req) /\ \A r \in Slots : req[r].st = "issuing" => Refreshes(req[r])
    BY DEF WebInv, Flight, Shapes, Shape
  <2>2. live \cap Family(signedOut[b]) = {}
    BY <2>1 DEF Over, Family
  <2>3. \A r \in Slots : req[r].st = "issuing" => FamilyOf(req[r].tok) # signedOut[b]
    BY <2>1 DEF Over, FamilyOf, Refreshes
  <2>4. FamilyOf(jar) # signedOut[b] /\ access[b] # signedOut[b]
    BY <2>1 DEF Over, FamilyOf
  <2> QED
    BY <2>2, <2>3, <2>4
<1> QED
  BY <1>1, WebInvariant, PTL

-----------------------------------------------------------------------------
(* The server's part keeps the promise of the rotation *)

Issuing(r) == req[r].st = "issuing"

\* The holder of a family's capability, as SessionFamily sees it.
Capability(f) ==
  IF \A t \in 1..issued : family[t] # f THEN <<"unborn">>
  ELSE IF \E t \in live : family[t] = f
    THEN <<"token", CHOOSE t \in live : family[t] = f>>
  ELSE IF \E r \in Slots : Issuing(r) /\ family[req[r].tok] = f
    THEN <<"request", CHOOSE r \in Slots : Issuing(r) /\ family[req[r].tok] = f>>
  ELSE <<"dead">>

Session == INSTANCE SessionFamily
  WITH Families <- Tokens, Tokens <- Tokens, Requests <- Slots,
       holder <- [f \in Tokens |-> Capability(f)], used <- 1..issued

\* What tabs, gateway and network do to a session is a step of the abstract one,
\* or none: the three endpoints of WebSession are the rotation that RefreshTokens
\* shows auth.service.ts to be.
ServerKeepsSession == [][Session!SNext]_(Session!svars)

Born(f) == \E t \in 1..issued : family[t] = f

\* The mapping without IF and CHOOSE: with one holder there is nothing to choose.
CapabilityIs ==
  \A f \in Tokens :
    /\ ~Born(f) => Capability(f) = <<"unborn">>
    /\ \A t \in live : family[t] = f => Capability(f) = <<"token", t>>
    /\ \A r \in Slots : Issuing(r) /\ family[req[r].tok] = f => Capability(f) = <<"request", r>>
    /\ Born(f) /\ Dead(req, f) => Capability(f) = <<"dead">>

\* A request between spend and issue has spent an issued token.
LEMMA IssuingHolds ==
  ASSUME WebInv, NEW r \in Slots, Issuing(r)
  PROVE  req[r].tok \in 1..issued
<1>1. Shape(req[r]) /\ issued \in Nat
  BY DEF WebInv, Flight, Shapes, ServerOK
<1> QED
  BY <1>1 DEF Shape, Refreshes, Issuing, NoToken

LEMMA CapabilityFacts == WebInv => CapabilityIs
<1> SUFFICES ASSUME WebInv, NEW f \in Tokens
             PROVE  /\ ~Born(f) => Capability(f) = <<"unborn">>
                    /\ \A t \in live : family[t] = f => Capability(f) = <<"token", t>>
                    /\ \A r \in Slots : Issuing(r) /\ family[req[r].tok] = f
                                          => Capability(f) = <<"request", r>>
                    /\ Born(f) /\ Dead(req, f) => Capability(f) = <<"dead">>
  BY DEF CapabilityIs
<1>0. OneHolder(req) /\ live \subseteq 1..issued
  BY DEF WebInv, Flight, ServerOK
<1>1. ~Born(f) => Capability(f) = <<"unborn">>
  BY DEF Born, Capability
<1>2. ASSUME NEW t \in live, family[t] = f PROVE Capability(f) = <<"token", t>>
  <2>1. (CHOOSE u \in live : family[u] = f) = t
    BY <1>0, <1>2 DEF OneHolder
  <2> QED
    BY <1>0, <1>2, <2>1 DEF Capability
<1>3. ASSUME NEW r \in Slots, Issuing(r), family[req[r].tok] = f
      PROVE  Capability(f) = <<"request", r>>
  <2>1. (CHOOSE s \in Slots : Issuing(s) /\ family[req[s].tok] = f) = r
    BY <1>0, <1>3 DEF OneHolder, Issuing
  <2>2. \A t \in live : family[t] # f
    BY <1>0, <1>3 DEF OneHolder, Issuing
  <2>3. req[r].tok \in 1..issued
    BY <1>3, IssuingHolds
  <2> QED
    BY <1>3, <2>1, <2>2, <2>3 DEF Capability
<1>4. Born(f) /\ Dead(req, f) => Capability(f) = <<"dead">>
  BY DEF Born, Dead, Issuing, Capability
<1> QED
  BY <1>1, <1>2, <1>3, <1>4

\* One family's share of an abstract step.
FamilyStep(f) ==
  \/ Capability(f)' = Capability(f)
  \/ Session!Start(f) \/ Session!Spend(f) \/ Session!Rotate(f) \/ Session!Die(f)

\* Nobody becomes a holder.
Quiet ==
  /\ UNCHANGED <<issued, family>> /\ live' \subseteq live
  /\ \A r \in Slots : Issuing(r)' => Issuing(r) /\ req'[r].tok = req[r].tok

\* A step that makes nobody a holder leaves a family alone or ends it.
LEMMA QuietFamily ==
  ASSUME CapabilityIs, CapabilityIs', Quiet, NEW f \in Tokens
  PROVE  FamilyStep(f)
<1>1. CASE ~Born(f)
  <2>1. ~Born(f)'
    BY <1>1 DEF Born, Quiet
  <2> QED
    BY <1>1, <2>1 DEF CapabilityIs, FamilyStep
<1>2. CASE \E t \in live' : family'[t] = f
  BY <1>2 DEF CapabilityIs, Quiet, FamilyStep
<1>3. CASE \E r \in Slots : Issuing(r)' /\ family'[req'[r].tok] = f
  BY <1>3 DEF CapabilityIs, Quiet, FamilyStep
<1>4. CASE Born(f) /\ Dead(req, f)'
  <2>1. Born(f)'
    BY <1>4 DEF Born, Quiet
  <2>2. Capability(f)' = <<"dead">>
    BY <1>4, <2>1 DEF CapabilityIs
  <2>3. Capability(f) # <<"unborn">>
    <3>1. CASE Dead(req, f)
      BY <1>4, <3>1 DEF CapabilityIs
    <3>2. CASE ~Dead(req, f)
      <4>1. \/ \E t \in live : Capability(f) = <<"token", t>>
            \/ \E r \in Slots : Capability(f) = <<"request", r>>
        BY <3>2 DEF CapabilityIs, Dead, Issuing
      <4> QED
        BY <4>1
    <3> QED
      BY <3>1, <3>2
  <2> QED
    BY <2>2, <2>3 DEF FamilyStep, Session!Die, Session!Unborn, Session!Dead
<1> QED
  BY <1>1, <1>2, <1>3, <1>4 DEF Dead, Issuing

\* A family that a step neither gives to a new holder nor takes from its own:
\* every claim there is stays, and no other comes.
Aside(f) ==
  /\ Born(f)' <=> Born(f)
  /\ \A t : t \in live' /\ family'[t] = f <=> t \in live /\ family[t] = f
  /\ \A r \in Slots : Issuing(r)' /\ family'[req'[r].tok] = f
                        <=> Issuing(r) /\ family[req[r].tok] = f

LEMMA AsideFamily ==
  ASSUME CapabilityIs, CapabilityIs', NEW f \in Tokens, Aside(f)
  PROVE  FamilyStep(f)
<1>1. CASE ~Born(f)
  BY <1>1 DEF Aside, CapabilityIs, FamilyStep
<1>2. CASE \E t \in live : family[t] = f
  BY <1>2 DEF Aside, CapabilityIs, FamilyStep
<1>3. CASE \E r \in Slots : Issuing(r) /\ family[req[r].tok] = f
  BY <1>3 DEF Aside, CapabilityIs, FamilyStep
<1>4. CASE Born(f) /\ Dead(req, f)
  <2>1. Born(f)' /\ Dead(req, f)'
    BY <1>4 DEF Aside, Dead, Issuing
  <2> QED
    BY <1>4, <2>1 DEF CapabilityIs, FamilyStep
<1> QED
  BY <1>1, <1>2, <1>3, <1>4 DEF Dead, Issuing

\* A spend hands the family of a live token to the request.
LEMMA SpendFamily ==
  ASSUME WebInv, CapabilityIs, CapabilityIs', NEW r \in Slots, req[r].st = "sent",
         req[r].tok \in live, live' = live \ {req[r].tok}, UNCHANGED <<issued, family>>,
         req' = [req EXCEPT ![r].st = "issuing"], NEW f \in Tokens
  PROVE  FamilyStep(f)
<1>0. /\ live \subseteq 1..issued /\ issued \in 0..MaxTokens /\ MaxTokens \in Nat
      /\ req \in [Slots -> Request] /\ req[r] \in Request /\ OneHolder(req)
  BY WebAssumption DEF WebInv, ServerOK, RequestsOK, Flight
<1>1. /\ Issuing(r)' /\ ~Issuing(r) /\ req'[r].tok = req[r].tok
      /\ \A s \in Slots : s # r => req'[s] = req[s]
  BY <1>0 DEF Issuing, Request
<1>2. CASE family[req[r].tok] = f
  <2>1. Capability(f) = <<"token", req[r].tok>> /\ req[r].tok \in Tokens
    BY <1>0, <1>2 DEF CapabilityIs, Tokens
  <2>2. Capability(f)' = <<"request", r>>
    BY <1>1, <1>2 DEF CapabilityIs
  <2> QED
    BY <2>1, <2>2 DEF FamilyStep, Session!Spend, Session!ByToken, Session!ByRequest
<1>3. CASE family[req[r].tok] # f
  <2>1. Aside(f)
    BY <1>1, <1>3 DEF Aside, Born, Issuing
  <2> QED
    BY <2>1, AsideFamily
<1> QED
  BY <1>2, <1>3

\* A creation starts a family with its first token, or hands the family of the
\* request that spent to the token it issues.
LEMMA CreateFamily ==
  ASSUME WebInv, CapabilityIs, CapabilityIs', NEW r \in Slots, NEW g, CreateToken(g),
         NEW ok \in BOOLEAN, NEW c \in Tokens \cup {NoToken, NoCookie}, Answer(r, ok, c),
         \/ Issuing(r) /\ g = family[req[r].tok]
         \/ ~Issuing(r) /\ g = issued + 1,
         NEW f \in Tokens
  PROVE  FamilyStep(f) /\ 1..issued \subseteq 1..issued'
<1> DEFINE t == issued + 1
<1>0. /\ live \subseteq 1..issued /\ issued \in Nat /\ req \in [Slots -> Request]
      /\ \A u \in 1..issued : family[u] \in 1..issued
  BY DEF WebInv, ServerOK, RequestsOK, Families
<1>1. g \in 1..t /\ (Issuing(r) => g \in 1..issued /\ req[r].tok \in 1..issued)
  BY <1>0, IssuingHolds
<1>2. /\ issued' = t /\ t \in Tokens /\ t \notin 1..issued
      /\ 1..issued' = 1..issued \cup {t}
      /\ \A u \in 1..issued : family'[u] = family[u]
      /\ family'[t] = g /\ live' = live \cup {t}
  BY <1>0, <1>1, NewToken
<1> HIDE DEF t
<1>3. ~Issuing(r)' /\ \A s \in Slots : s # r => req'[s] = req[s]
  <2>1. AnsweredAs(r, ok, c)
    BY AnswerTable DEF WebInv
  <2> QED
    BY <2>1 DEF AnsweredAs, Issuing, Free
<1>4. CASE f = g
  <2>1. Capability(f)' = <<"token", t>>
    BY <1>2, <1>4 DEF CapabilityIs
  <2>2. CASE Issuing(r)
    <3>1. Capability(f) = <<"request", r>>
      BY <1>2, <1>4, <2>2 DEF CapabilityIs, t
    <3> QED
      BY <1>2, <2>1, <3>1 DEF FamilyStep, Session!Rotate, Session!ByRequest, Session!ByToken
  <2>3. CASE ~Issuing(r)
    <3>1. f = t
      BY <1>4, <2>3 DEF t
    <3>2. ~Born(f)
      BY <1>0, <1>2, <3>1 DEF Born
    <3>3. Capability(f) = <<"unborn">>
      BY <3>2 DEF CapabilityIs
    <3> QED
      BY <1>2, <2>1, <3>3 DEF FamilyStep, Session!Start, Session!Unborn, Session!ByToken
  <2> QED
    BY <1>2, <2>2, <2>3
<1>5. CASE f # g
  <2>1. Born(f)' <=> Born(f)
    BY <1>2, <1>5 DEF Born
  <2>2. \A u : u \in live' /\ family'[u] = f <=> u \in live /\ family[u] = f
    BY <1>0, <1>2, <1>5
  <2>3. ASSUME NEW s \in Slots
        PROVE  Issuing(s)' /\ family'[req'[s].tok] = f <=> Issuing(s) /\ family[req[s].tok] = f
    <3>1. CASE s = r
      BY <1>3, <1>5, <3>1
    <3>2. CASE s # r
      BY <1>2, <1>3, <3>2, IssuingHolds DEF Issuing
    <3> QED
      BY <3>1, <3>2
  <2>4. Aside(f)
    BY <2>1, <2>2, <2>3 DEF Aside
  <2> QED
    BY <1>2, <2>4, AsideFamily
<1> QED
  BY <1>2, <1>4, <1>5

\* What the pages, the gateway and the network do makes nobody a holder.
LEMMA PagesAreQuiet ==
  ASSUME WebInv, NEW b \in Tabs,
         load(b) \/ refreshSession(b) \/ signIn(b) \/ signOut(b)
  PROVE  Quiet
<1>0. UNCHANGED <<issued, family, live>>
  BY DEF load, refreshSession, signIn, signOut, server
<1>1. ASSUME NEW k \in {"refresh", "login", "logout"}, NEW rs \in SUBSET Slots,
             Send(b, k, Abandoned(rs), CutBy(rs))
      PROVE  Quiet
  <2> DEFINE reqs == Abandoned(rs)
  <2>1. reqs \in [Slots -> Request]
    BY AbandonType DEF WebInv
  <2>2. \A r \in Slots : reqs[r].st = "issuing" =>
          req[r].st = "issuing" /\ reqs[r].tok = req[r].tok
    <3>1. Thinner(req, excused \cup CutBy(rs), reqs) /\ Free.st = "free"
      BY AbandonThins DEF WebInv, Free
    <3> QED
      BY <3>1 DEF Thinner, Alike
  <2> HIDE DEF reqs
  <2>3. PICK r \in Slots : SentAs(r, b, k, reqs, excused \cup CutBy(rs))
    BY <1>1, <2>1, SendTable DEF WebInv, reqs
  <2> QED
    BY <1>0, <2>2, <2>3 DEF SentAs, Quiet, Issuing
<1>2. CASE load(b)
  <2> DEFINE old == {r \in Slots : req[r].tab = b}
  <2>1. Send(b, "refresh", Abandoned(old), CutBy(old)) /\ old \in SUBSET Slots
    BY <1>2 DEF load
  <2> QED
    BY <1>1, <2>1
<1>3. ASSUME NEW k \in {"refresh", "login", "logout"}, Send(b, k, req, {}) PROVE Quiet
  <2>1. Send(b, k, Abandoned({}), CutBy({}))
    BY <1>3, AbandonNone DEF WebInv
  <2> QED
    BY <1>1, <2>1
<1> QED
  BY <1>2, <1>3 DEF refreshSession, signIn, signOut

LEMMA RepliesAreQuiet ==
  ASSUME WebInv, NEW r \in Slots, Reply(r) \/ GatewayReplies(r) \/ Rejects(r)
  PROVE  Quiet
<1>0. UNCHANGED <<issued, family, live>> /\ req \in [Slots -> Request] /\ Free.st = "free"
  BY DEF Reply, GatewayReplies, Rejects, server, WebInv, RequestsOK, Free
<1>1. CASE req' = [req EXCEPT ![r] = Free]
  BY <1>0, <1>1 DEF Quiet, Issuing
<1>2. CASE req' = Abandoned({r})
  <2>1. Thinner(req, excused \cup CutBy({r}), Abandoned({r}))
    BY AbandonThins DEF WebInv
  <2> QED
    BY <1>0, <1>2, <2>1 DEF Thinner, Alike, Quiet, Issuing
<1> QED
  BY <1>1, <1>2 DEF Reply, GatewayReplies, Rejects

\* An answer without a new token makes nobody a holder.
LEMMA AnswersAreQuiet ==
  ASSUME WebInv, NEW r \in Slots, NEW ok \in BOOLEAN,
         NEW c \in Tokens \cup {NoToken, NoCookie}, Answer(r, ok, c),
         UNCHANGED <<issued, family>>, live' \subseteq live
  PROVE  Quiet
<1>1. AnsweredAs(r, ok, c)
  BY AnswerTable DEF WebInv
<1> QED
  BY <1>1 DEF AnsweredAs, Quiet, Issuing, Free

\* Every step of tabs, gateway and server is a step of the abstract session.
LEMMA SessionStep ==
  ASSUME WebInv, WebInv', CapabilityIs, CapabilityIs', [WebNext]_webVars
  PROVE  Session!SNext
<1>1. \/ Quiet
      \/ \E r \in Slots : /\ req[r].st = "sent" /\ req[r].tok \in live
                          /\ live' = live \ {req[r].tok} /\ UNCHANGED <<issued, family>>
                          /\ req' = [req EXCEPT ![r].st = "issuing"]
      \/ \E r \in Slots : issue(r) \/ login(r) \/ FailsAfterIssue(r)
  <2>1. ASSUME NEW b \in Tabs, load(b) \/ refreshSession(b) \/ signIn(b) \/ signOut(b)
        PROVE  Quiet
    BY <2>1, PagesAreQuiet
  <2>2. ASSUME NEW r \in Slots, Reply(r) \/ GatewayReplies(r) \/ Rejects(r) PROVE Quiet
    BY <2>2, RepliesAreQuiet
  <2>3. ASSUME NEW r \in Slots, refresh(r)
        PROVE  \/ Quiet
               \/ /\ req[r].st = "sent" /\ req[r].tok \in live
                  /\ live' = live \ {req[r].tok} /\ UNCHANGED <<issued, family>>
                  /\ req' = [req EXCEPT ![r].st = "issuing"]
    <3>1. CASE Answer(r, FALSE, NoCookie) /\ live' \subseteq live
      BY <2>3, <3>1, AnswersAreQuiet DEF refresh
    <3> QED
      BY <2>3, <3>1 DEF refresh
  <2>4. ASSUME NEW r \in Slots, logout(r) \/ ServerFails(r) PROVE Quiet
    <3>1. live' \subseteq live /\ UNCHANGED <<issued, family>>
      BY <2>4 DEF logout, ServerFails, server
    <3>2. \E ok \in BOOLEAN, c \in Tokens \cup {NoToken, NoCookie} : Answer(r, ok, c)
      BY <2>4 DEF logout, ServerFails
    <3> QED
      BY <3>1, <3>2, AnswersAreQuiet
  <2>5. CASE UNCHANGED webVars
    BY <2>5 DEF webVars, server, Quiet, Issuing
  <2> QED
    BY <2>1, <2>2, <2>3, <2>4, <2>5 DEF WebNext
<1>2. ASSUME NEW f \in Tokens PROVE FamilyStep(f) /\ 1..issued \subseteq 1..issued'
  <2>1. CASE Quiet
    BY <2>1, QuietFamily DEF Quiet
  <2>2. ASSUME NEW r \in Slots, req[r].st = "sent", req[r].tok \in live,
               live' = live \ {req[r].tok}, UNCHANGED <<issued, family>>,
               req' = [req EXCEPT ![r].st = "issuing"]
        PROVE  FamilyStep(f) /\ 1..issued \subseteq 1..issued'
    BY <2>2, SpendFamily
  <2>3. ASSUME NEW r \in Slots, issue(r) \/ login(r) \/ FailsAfterIssue(r)
        PROVE  FamilyStep(f) /\ 1..issued \subseteq 1..issued'
    <3>1. \E ok \in BOOLEAN, c \in Tokens \cup {NoToken, NoCookie} : Answer(r, ok, c)
      <4>1. CASE issue(r) \/ login(r)
        <5>1. issued + 1 \in Tokens /\ Answer(r, TRUE, issued + 1)
          <6>1. Answer(r, TRUE, issued + 1)
            BY <4>1 DEF issue, login
          <6>2. issued < MaxTokens
            BY <4>1 DEF issue, login, CreateToken
          <6>3. issued \in Nat /\ MaxTokens \in Nat
            BY WebAssumption DEF WebInv, ServerOK
          <6>4. issued + 1 \in Tokens
            BY <6>2, <6>3 DEF Tokens
          <6> QED
            BY <6>1, <6>4, Zenon
        <5> QED
          BY <5>1
      <4>2. CASE FailsAfterIssue(r)
        BY <4>2 DEF FailsAfterIssue
      <4> QED
        BY <2>3, <4>1, <4>2
    <3>2. \/ CreateToken(family[req[r].tok]) /\ Issuing(r)
          \/ CreateToken(issued + 1) /\ ~Issuing(r)
      BY <2>3 DEF issue, login, FailsAfterIssue, Issuing
    <3>3. CASE CreateToken(family[req[r].tok]) /\ Issuing(r)
      BY <3>1, <3>3, CreateFamily
    <3>4. CASE CreateToken(issued + 1) /\ ~Issuing(r)
      BY <3>1, <3>4, CreateFamily
    <3> QED
      BY <3>2, <3>3, <3>4
  <2> QED
    BY <1>1, <2>1, <2>2, <2>3
<1>3. ASSUME NEW f \in Tokens, NEW t \in Tokens, Capability(f)' = <<"token", t>>
      PROVE  t \in 1..issued'
  <2>1. live' \subseteq 1..issued'
    BY DEF WebInv, ServerOK
  <2>2. CASE \E u \in live' : family'[u] = f
    BY <1>3, <2>1, <2>2 DEF CapabilityIs
  <2>3. CASE ~(\E u \in live' : family'[u] = f)
    <3>1. \/ Capability(f)' = <<"unborn">> \/ Capability(f)' = <<"dead">>
          \/ \E r \in Slots : Capability(f)' = <<"request", r>>
      BY <2>3 DEF CapabilityIs, Dead, Issuing
    <3> QED
      BY <1>3, <3>1
  <2> QED
    BY <2>2, <2>3
<1>4. 1..issued \subseteq 1..issued'
  <2>1. 1 \in Tokens
    BY WebAssumption DEF Tokens
  <2> QED
    BY <1>2, <2>1
<1> QED
  BY <1>2, <1>3, <1>4 DEF FamilyStep, Session!SNext, Session!ByToken

\* Whatever tabs, gateway and network do, each session that the three endpoints
\* serve is the one capability of SessionFamily: it passes from token to request
\* and on to a token never used before, and once gone it stays gone.
THEOREM ServerIsTheRotation == WebSpec => ServerKeepsSession
<1>1. WebInv /\ WebInv' /\ CapabilityIs /\ CapabilityIs' /\ [WebNext]_webVars
      => [Session!SNext]_(Session!svars)
  BY SessionStep
<1> QED
  BY <1>1, CapabilityFacts, WebInvariant, PTL DEF WebSpec, ServerKeepsSession
=============================================================================
