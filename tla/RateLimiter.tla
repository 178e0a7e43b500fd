---------------------------- MODULE RateLimiter ----------------------------
(***************************************************************************)
(* The gateway's fixed-window rate limiter (rate-limit.ts): check, called  *)
(* for every request before anything else is done for it, and prune, which *)
(* a timer calls once per window.  A counter belongs to one client address *)
(* and one rule.  A count of 0 means that the map has no entry.            *)
(*                                                                         *)
(* startAll and countAll are a second limiter that is never pruned, and    *)
(* passed is the log of what was let through; both are history only.       *)
(***************************************************************************)
EXTENDS Integers, Sequences

CONSTANTS Clients,   \* remote addresses
          Paths,     \* kinds of request, by the rule patterns
          Limit,     \* max of each rule
          WindowMs,  \* WINDOW_MS
          SecondMs,  \* milliseconds in a second
          MaxClock,  \* bound: milliseconds that pass
          MaxHits    \* bound: requests a counter sees in one window

RuleIds == {"auth-login", "auth-register", "auth-refresh", "account-actions",
            "message-raw", "default"}

ASSUME RateLimiterAssumption ==
  /\ Limit \in [RuleIds -> Nat \ {0}]
  /\ WindowMs \in Nat \ {0} /\ SecondMs \in Nat \ {0}
  /\ MaxClock \in Nat /\ MaxHits \in Nat

\* The first rule whose method and pattern match, or the default rule.
ruleFor(path) ==
  CASE path = "POST login"    -> "auth-login"
    [] path = "POST register" -> "auth-register"
    [] path = "POST refresh"  -> "auth-refresh"
    [] path \in {"POST preview", "POST sync"} -> "account-actions"
    [] path = "GET raw"       -> "message-raw"
    [] OTHER                  -> "default"

Keys == Clients \X RuleIds

VARIABLES clock,
          start, count,        \* the counters map
          startAll, countAll,  \* the same, never pruned
          passed,              \* when the requests of a key were let through
          last                 \* what check returned last

counters == <<start, count>>
history  == <<startAll, countAll, passed, last>>
vars     == <<clock, counters, history>>

NoDecision == [allowed |-> TRUE, retryAfter |-> 0, ends |-> 0]

TypeOK ==
  /\ clock \in 0..MaxClock
  /\ start \in [Keys -> 0..MaxClock]
  /\ count \in [Keys -> 0..MaxHits]
  /\ startAll \in [Keys -> 0..MaxClock]
  /\ countAll \in [Keys -> 0..MaxHits]
  /\ passed \in [Keys -> Seq(0..MaxClock)]
  /\ last \in [allowed : BOOLEAN, retryAfter : Nat, ends : Nat]

Init ==
  /\ clock = 0
  /\ start = [k \in Keys |-> 0] /\ count = [k \in Keys |-> 0]
  /\ startAll = [k \in Keys |-> 0] /\ countAll = [k \in Keys |-> 0]
  /\ passed = [k \in Keys |-> <<>>]
  /\ last = NoDecision

\* Faulty variants of the definitions below.
WithinLimitOffByOne(n, max) == n <= max + 1
RetryAfterFloor(since) == (WindowMs - (clock - since)) \div SecondMs

\* now - counter.windowStart >= windowMs, in check and in prune
Expired(since) == clock - since >= WindowMs

\* allowed, for the n-th request of a window
WithinLimit(n, max) == n <= max

\* Math.ceil((windowMs - elapsed) / 1000)
RetryAfter(since) == (WindowMs - (clock - since) + SecondMs - 1) \div SecondMs

\* Faulty variant: prune drops counters whose window is still open.
PrunableByCount(k) == count[k] > 0

Prunable(k) == count[k] > 0 /\ Expired(start[k])

\* check(client, method, pathname)
Check(c, path) ==
  LET k     == <<c, ruleFor(path)>>
      max   == Limit[ruleFor(path)]
      opens == count[k] = 0 \/ Expired(start[k])
      n     == IF opens THEN 1 ELSE count[k] + 1
      ok    == opens \/ WithinLimit(n, max)
      opensAll == countAll[k] = 0 \/ Expired(startAll[k])
  IN
  /\ n <= MaxHits
  /\ start' = [start EXCEPT ![k] = IF opens THEN clock ELSE @]
  /\ count' = [count EXCEPT ![k] = n]
  /\ startAll' = [startAll EXCEPT ![k] = IF opensAll THEN clock ELSE @]
  /\ countAll' = [countAll EXCEPT ![k] = IF opensAll THEN 1 ELSE @ + 1]
  /\ passed' = [passed EXCEPT ![k] = IF ok THEN Append(@, clock) ELSE @]
  /\ last' = [allowed    |-> ok,
              retryAfter |-> IF ok THEN 0 ELSE RetryAfter(start[k]),
              ends       |-> start'[k] + WindowMs - clock]
  /\ UNCHANGED clock

Prune ==
  /\ \E k \in Keys : Prunable(k)
  /\ count' = [k \in Keys |-> IF Prunable(k) THEN 0 ELSE count[k]]
  /\ start' = [k \in Keys |-> IF Prunable(k) THEN 0 ELSE start[k]]
  /\ UNCHANGED <<clock, history>>

Tick ==
  /\ clock < MaxClock
  /\ clock' = clock + 1
  /\ UNCHANGED <<counters, history>>

Next == \/ \E c \in Clients, path \in Paths : Check(c, path)
        \/ Prune
        \/ Tick

Spec == Init /\ [][Next]_vars

-----------------------------------------------------------------------------
(* Properties *)

\* Pruning is invisible: a counter the sweep removed is one the next check
\* would have restarted anyway, so every decision is the one a limiter that
\* never forgets would take.
PruneInvisible ==
  \A k \in Keys : \/ count[k] = countAll[k] /\ start[k] = startAll[k]
                  \/ count[k] = 0 /\ Expired(startAll[k])

\* "up to 2x the limit in a short span" (rate-limit.ts:72), and never more: of
\* the requests of one client let through under a rule, any two with twice the
\* limit less one between them are a window length apart, wherever the window
\* boundaries fall.
BurstBound ==
  \A k \in Keys :
    LET burst == 2 * Limit[k[2]]
    IN  \A i \in 1..(Len(passed[k]) - burst) : passed[k][i + burst] - passed[k][i] >= WindowMs

\* Retry-After is enough and not a second more than needed: once it has passed
\* the window is over, and one second less would still be inside it.
RetryAfterExact ==
  ~last.allowed => /\ last.retryAfter * SecondMs >= last.ends
                   /\ (last.retryAfter - 1) * SecondMs < last.ends
=============================================================================
