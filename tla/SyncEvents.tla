------------------------------ MODULE SyncEvents ------------------------------
(***************************************************************************)
(* The live updates of one browser tab: SyncEventsService, which publishes *)
(* the end of every sync job, the event-stream endpoint of the accounts    *)
(* controller, the frames on the wire, the useSyncEvents hook that reads    *)
(* them and reconnects, and apiFetch, which refreshes the session once.    *)
(*                                                                         *)
(* An effect is one run of the hook's useEffect: from the moment a user is *)
(* authenticated to the sign-out.  Its asynchronous work outlives its      *)
(* cleanup, and the next effect may have begun by then.                    *)
(*                                                                         *)
(* A request belongs to the user of the module's access token, which a     *)
(* refresh sets to the session of whatever cookie the browser held when it *)
(* was sent.  Tokens and cookies are modelled by the user they belong to.  *)
(*                                                                         *)
(* Text is a sequence of symbols: "N" a line feed, ":" the text of a       *)
(* comment, "E" the line naming the event, "D" the beginning of the data   *)
(* line and an account the rest of it.  A chunk may end after any symbol.  *)
(* There is no carriage return: the endpoint writes none.                  *)
(***************************************************************************)
EXTENDS Integers, Sequences, SequencesExt, FiniteSetsExt

CONSTANTS Accounts,
          Users,
          Mine,        \* Mine[u]: the accounts of user u
          User,        \* User[e]: who signs in in the tab, e-th in turn
          MaxEffects,  \* bound: sign-ins in the tab
          MaxConns,    \* bound: connections made
          MaxEvents,   \* bound: sync jobs that end
          MaxPings,    \* bound: heartbeats
          MaxOutside   \* bound: what other tabs and other calls of the tab do

NoUser == "nobody"  \* no access token, no cookie
Idle   == "idle"    \* no refresh in flight

ASSUME SyncEventsAssumption ==
  /\ Mine \in [Users -> SUBSET Accounts]
  /\ User \in [1..MaxEffects -> Users]
  /\ Users \cap {NoUser, Idle} = {}
  /\ Accounts \cap {"N", ":", "E", "D"} = {}
  /\ MaxEffects \in Nat /\ MaxConns \in Nat /\ MaxEvents \in Nat /\ MaxPings \in Nat
  /\ MaxOutside \in Nat

Effects == 1..MaxEffects
Conns   == 1..MaxConns
NoConn  == 0
Symbols == {"N", ":", "E", "D"} \cup Accounts

VARIABLES
  phase,      \* what the effect's asynchronous work is doing
  aborted,    \* its AbortController
  conn,       \* its current connection
  buffer,     \* text read and not yet split
  handled,    \* the events of the connection it has handled
  begun,      \* effects so far
  token,      \* the accessToken variable
  refreshInFlight,  \* the cookie it was sent with
  jar,        \* the browser's refresh cookie, of all its tabs
  outside,    \* steps of other tabs and of other calls of the tab so far
  mixed,      \* history: the effects during which the browser had, or had in
              \* flight, the cookie of a user other than theirs
  conns,      \* connections so far
  opener,     \* the effect that made each of them
  bearer,     \* the user of the token it was sent with
  srv,        \* the endpoint's side of each connection
  link,       \* whether the connection is up
  wire,       \* text written and not yet read
  written,    \* history: the events written to it
  listeners,  \* subscribed listeners, each with its heartbeat
  events, pings

client == <<phase, aborted, conn, buffer, handled, begun>>
session == <<token, refreshInFlight, jar, outside, mixed>>
server == <<srv, wire, written, listeners>>
made   == <<conns, opener, bearer>>
vars   == <<client, session, made, link, server, events, pings>>

TypeOK ==
  /\ phase \in [Effects -> {"unborn", "connecting", "refreshing", "retrying", "reading",
                         "settled", "waiting", "stopped"}]
  /\ aborted \in [Effects -> BOOLEAN]
  /\ conn \in [Effects -> 0..conns]
  /\ buffer \in [Effects -> Seq(Symbols)]
  /\ handled \in [Effects -> Seq(Accounts)]
  /\ begun \in 0..MaxEffects
  /\ token \in Users \cup {NoUser}
  /\ refreshInFlight \in Users \cup {NoUser, Idle}
  /\ jar \in Users \cup {NoUser}
  /\ outside \in 0..MaxOutside
  /\ mixed \subseteq Effects
  /\ conns \in 0..MaxConns
  /\ opener \in [1..conns -> Effects]
  /\ bearer \in [1..conns -> Users \cup {NoUser}]
  /\ srv \in [Conns -> {"none", "listing", "open", "leaked", "over"}]
  /\ link \in [Conns -> {"up", "gone"}]
  /\ wire \in [Conns -> Seq(Symbols)]
  /\ written \in [Conns -> Seq(Accounts)]
  /\ listeners \subseteq 1..conns
  /\ events \in 0..MaxEvents
  /\ pings \in 0..MaxPings

Init ==
  /\ phase = [e \in Effects |-> "unborn"]
  /\ aborted = [e \in Effects |-> FALSE]
  /\ conn = [e \in Effects |-> NoConn]
  /\ buffer = [e \in Effects |-> <<>>]
  /\ handled = [e \in Effects |-> <<>>]
  /\ begun = 0
  /\ token = NoUser /\ refreshInFlight = Idle /\ jar \in Users \cup {NoUser}
  /\ outside = 0 /\ mixed = {}
  /\ conns = 0 /\ opener = <<>> /\ bearer = <<>> /\ events = 0 /\ pings = 0
  /\ srv = [c \in Conns |-> "none"]
  /\ link = [c \in Conns |-> "up"]
  /\ wire = [c \in Conns |-> <<>>]
  /\ written = [c \in Conns |-> <<>>]
  /\ listeners = {}

-----------------------------------------------------------------------------
(* Frames *)

CommentFrame  == <<":", "N", "N">>
EventFrame(a) == <<"E", "N", "D", a, "N", "N">>

\* rest.indexOf('\n\n'), where rest begins at from; 0 for none
Boundary(text, from) ==
  LET at == {i \in from..(Len(text) - 1) : text[i] = "N" /\ text[i + 1] = "N"}
  IN  IF at = {} THEN 0 ELSE Min(at)

\* Faulty variant: what does not end a frame is thrown away.
splitFramesForgetting(text) ==
  LET split[from \in 1..(Len(text) + 1)] ==
        LET end == Boundary(text, from)
        IN  IF end = 0
              THEN <<>>
              ELSE <<SubSeq(text, from, end - 1)>> \o split[end + 2]
  IN  [frames |-> split[1], rest |-> <<>>]

\* The complete frames of the buffer, and what follows the last of them.
splitFrames(text) ==
  LET split[from \in 1..(Len(text) + 1)] ==
        LET end == Boundary(text, from)
        IN  IF end = 0
              THEN [frames |-> <<>>, rest |-> SubSeq(text, from, Len(text))]
              ELSE [frames |-> <<SubSeq(text, from, end - 1)>> \o split[end + 2].frames,
                    rest   |-> split[end + 2].rest]
  IN  split[1]

\* Faulty variant: a comment is an event of no account.
parseFrameKeepingComments(frame) == SelectSeq(frame, LAMBDA x : x \in Accounts \cup {":"})

\* The account of the frame's data line, if it has one that parses.  What ends
\* the line is not looked at, as the code strips the CR that a proxy may add.
parseFrame(frame) ==
  LET data == {i \in 1..(Len(frame) - 1) : frame[i] = "D" /\ frame[i + 1] \in Accounts}
  IN  IF data = {} THEN <<>> ELSE <<frame[Min(data) + 1]>>

-----------------------------------------------------------------------------
(* The endpoint *)

\* GET /accounts/events reaches the controller, which looks up the accounts.
\* The gateway lets no request without a token through.
EventsRequest(c) ==
  /\ c <= conns /\ srv[c] = "none" /\ bearer[c] # NoUser
  /\ srv' = [srv EXCEPT ![c] = "listing"]
  /\ UNCHANGED <<client, session, made, link, wire, written, listeners, events, pings>>

\* The accounts are known: head, first comment, subscription, heartbeat, close
\* handler.  A connection that closed before that never calls the handler.
EventsOpen(c) ==
  /\ srv[c] = "listing"
  /\ \/ srv' = [srv EXCEPT ![c] = "open"]
     \/ link[c] = "gone" /\ srv' = [srv EXCEPT ![c] = "leaked"]
  /\ listeners' = listeners \cup {c}
  /\ wire' = [wire EXCEPT ![c] = IF link[c] = "up" THEN CommentFrame ELSE @]
  /\ UNCHANGED <<client, session, made, link, written, events, pings>>

\* Faulty variant: the heartbeat is cleared, the listener is not removed.
EventsClosedHalf(c) ==
  /\ srv[c] = "open" /\ link[c] = "gone"
  /\ srv' = [srv EXCEPT ![c] = "over"]
  /\ UNCHANGED <<client, session, made, link, wire, written, listeners, events, pings>>

\* res.on('close'): heartbeat and subscription end.
EventsClosed(c) ==
  /\ srv[c] = "open" /\ link[c] = "gone"
  /\ srv' = [srv EXCEPT ![c] = "over"]
  /\ listeners' = listeners \ {c}
  /\ UNCHANGED <<client, session, made, link, wire, written, events, pings>>

\* Faulty variant: the queue's event stream is passed on as it is.
OwnedByAnyone(c, a) == a \in Accounts

\* owned.has(event.accountId): the accounts of the token's user, read once per
\* connection.
Owned(c, a) == a \in Mine[bearer[c]]

\* A sync job ends, completed or failed, and every listener is called.
Publish(a) ==
  /\ events < MaxEvents /\ events' = events + 1
  /\ LET told == {c \in listeners : Owned(c, a) /\ link[c] = "up"}
     IN  /\ wire' = [c \in Conns |-> IF c \in told THEN wire[c] \o EventFrame(a) ELSE wire[c]]
         /\ written' = [c \in Conns |-> IF c \in told THEN Append(written[c], a) ELSE written[c]]
  /\ UNCHANGED <<client, session, made, link, srv, listeners, pings>>

Heartbeat(c) ==
  /\ c \in listeners /\ link[c] = "up"
  /\ pings < MaxPings /\ pings' = pings + 1
  /\ wire' = [wire EXCEPT ![c] = @ \o CommentFrame]
  /\ UNCHANGED <<client, session, made, link, srv, written, listeners, events>>

-----------------------------------------------------------------------------
(* The hook *)

\* withToken: the request of a connection goes out with the token of user u.
\* phases is what the effects are at otherwise.
Send(e, label, u, phases) ==
  /\ conns < MaxConns /\ conns' = conns + 1
  /\ opener' = Append(opener, e)
  /\ bearer' = Append(bearer, u)
  /\ phase' = [phases EXCEPT ![e] = label]
  /\ conn' = [conn EXCEPT ![e] = conns + 1]
  /\ buffer' = [buffer EXCEPT ![e] = <<>>]
  /\ handled' = [handled EXCEPT ![e] = <<>>]

\* start(): consume() calls apiFetch.
Start(e, u) == Send(e, "connecting", u, phase)

\* login(), or the refresh of a page load, returned a session: its cookie and
\* its token are set, and the effect runs.
Mount ==
  LET e == begun + 1
      u == User[e]
  IN
  /\ begun < MaxEffects
  /\ begun > 0 => aborted[begun]
  /\ begun' = e
  /\ token' = u /\ jar' = u
  /\ mixed' = IF refreshInFlight \in {u, NoUser, Idle} THEN mixed ELSE mixed \cup {e}
  /\ Start(e, u)
  /\ UNCHANGED <<aborted, refreshInFlight, outside, link, server, events, pings>>

\* signOut: logout clears the token, whether or not its answer cleared the
\* cookie, and the cleanup aborts and clears a timer that was set.
Unmount(e) ==
  /\ e = begun /\ e > 0 /\ ~aborted[e]
  /\ token' = NoUser
  /\ jar' = NoUser \/ jar' = jar
  /\ aborted' = [aborted EXCEPT ![e] = TRUE]
  /\ phase' = [phase EXCEPT ![e] = IF @ = "waiting" THEN "stopped" ELSE @]
  /\ UNCHANGED <<conn, buffer, handled, begun, refreshInFlight, outside, mixed, made, link,
                 server, events, pings>>

\* refreshInFlight ??= the request, with the cookie of the moment.
RefreshSent == IF refreshInFlight = Idle THEN jar ELSE refreshInFlight

\* apiFetch: the gateway answers 401, the access token has expired or is null.
Unauthorized(e) ==
  /\ phase[e] = "connecting" /\ ~aborted[e]
  /\ srv[conn[e]] = "none"
  /\ srv' = [srv EXCEPT ![conn[e]] = "over"]
  /\ link' = [link EXCEPT ![conn[e]] = "gone"]
  /\ phase' = [phase EXCEPT ![e] = "refreshing"]
  /\ refreshInFlight' = RefreshSent
  /\ UNCHANGED <<aborted, conn, buffer, handled, begun, token, jar, outside, mixed, made,
                 wire, written, listeners, events, pings>>

Outside == outside < MaxOutside /\ outside' = outside + 1

\* Another apiFetch of the tab, of the lists on screen, gets a 401.
RefreshElsewhere ==
  /\ Outside
  /\ begun > 0 /\ refreshInFlight = Idle
  /\ refreshInFlight' = RefreshSent
  /\ UNCHANGED <<client, token, jar, mixed, made, link, server, events, pings>>

\* Another tab signs in or out, over the same cookie.
OtherTab(u) ==
  /\ Outside
  /\ jar' = u
  /\ mixed' = IF begun > 0 /\ ~aborted[begun] /\ u \notin {User[begun], NoUser}
                THEN mixed \cup {begun} ELSE mixed
  /\ UNCHANGED <<client, token, refreshInFlight, made, link, server, events, pings>>

\* What the effects that wait for the refresh do when it ends without a retry.
Settled == [e \in Effects |-> IF phase[e] = "refreshing" THEN "settled" ELSE phase[e]]

\* refreshSession returns a session to all who wait for it: one retry.  The
\* refresh is not tied to an effect's signal; the retry is, and rejects if that
\* is aborted.
RefreshSucceeds ==
  LET retrying == {e \in Effects : phase[e] = "refreshing" /\ ~aborted[e]} IN
  /\ refreshInFlight \in Users /\ refreshInFlight' = Idle
  /\ token' = refreshInFlight /\ jar' = refreshInFlight
  /\ \/ \E e \in retrying : Send(e, "retrying", refreshInFlight, Settled)
     \/ /\ retrying = {}
        /\ phase' = Settled
        /\ UNCHANGED <<conn, buffer, handled, made>>
  /\ UNCHANGED <<aborted, begun, outside, mixed, link, server, events, pings>>

\* It returns null and the token is cleared, or its request fails: apiFetch throws.
RefreshFails ==
  /\ refreshInFlight # Idle /\ refreshInFlight' = Idle
  /\ token' = NoUser \/ token' = token
  /\ phase' = Settled
  /\ UNCHANGED <<aborted, conn, buffer, handled, begun, jar, outside, mixed, made, link,
                 server, events, pings>>

\* The response is there and has a body.
StreamOpens(e) ==
  /\ phase[e] \in {"connecting", "retrying"} /\ ~aborted[e]
  /\ srv[conn[e]] = "open" /\ link[conn[e]] = "up"
  /\ phase' = [phase EXCEPT ![e] = "reading"]
  /\ UNCHANGED <<aborted, conn, buffer, handled, begun, session, made, link, server, events,
                 pings>>

\* reader.read() returns a chunk of any length.
Read(e) ==
  LET c == conn[e] IN
  /\ phase[e] = "reading" /\ ~aborted[e]
  /\ \E n \in 1..Len(wire[c]) :
       LET text  == buffer[e] \o SubSeq(wire[c], 1, n)
           split == splitFrames(text)
       IN  /\ wire' = [wire EXCEPT ![c] = SubSeq(@, n + 1, Len(@))]
           /\ buffer' = [buffer EXCEPT ![e] = split.rest]
           /\ handled' = [handled EXCEPT ![e] =
                @ \o FlattenSeq([i \in 1..Len(split.frames) |-> parseFrame(split.frames[i])])]
  /\ UNCHANGED <<phase, aborted, conn, begun, session, made, link, srv, written, listeners,
                 events, pings>>

\* consume() settles: the request was refused or aborted, the stream ended or
\* was cut (an idle one by the gateway).  What was on the wire is lost.
ConsumeSettles(e) ==
  /\ phase[e] \in {"connecting", "retrying", "reading"}
  /\ link' = [link EXCEPT ![conn[e]] = "gone"]
  /\ phase' = [phase EXCEPT ![e] = "settled"]
  /\ UNCHANGED <<aborted, conn, buffer, handled, begun, session, made, server, events, pings>>

\* Faulty variant: it reconnects whether or not the effect is over.
ScheduleReconnectAlways(e) ==
  /\ phase[e] = "settled"
  /\ phase' = [phase EXCEPT ![e] = "waiting"]
  /\ UNCHANGED <<aborted, conn, buffer, handled, begun, session, made, link, server, events,
                 pings>>

\* The delay grows with the attempts; here it is only some time.
ScheduleReconnect(e) ==
  /\ phase[e] = "settled"
  /\ phase' = [phase EXCEPT ![e] = IF aborted[e] THEN "stopped" ELSE "waiting"]
  /\ UNCHANGED <<aborted, conn, buffer, handled, begun, session, made, link, server, events,
                 pings>>

TimerFires(e) ==
  /\ phase[e] = "waiting"
  /\ Start(e, token)
  /\ UNCHANGED <<aborted, begun, session, link, server, events, pings>>

-----------------------------------------------------------------------------
Next ==
  \/ Mount
  \/ \E e \in Effects : \/ Unmount(e) \/ Unauthorized(e) \/ StreamOpens(e) \/ Read(e)
                        \/ ConsumeSettles(e) \/ ScheduleReconnect(e) \/ TimerFires(e)
  \/ RefreshElsewhere \/ RefreshSucceeds \/ RefreshFails
  \/ \E u \in Users \cup {NoUser} : OtherTab(u)
  \/ \E c \in Conns : \/ EventsRequest(c) \/ EventsOpen(c) \/ EventsClosed(c)
                      \/ Heartbeat(c)
  \/ \E a \in Accounts : Publish(a)

Spec == Init /\ [][Next]_vars

\* An aborted fetch or read rejects, a settled promise calls back, and the
\* refresh is answered (the gateway answers 504 for a service that does not).
\* Node emits 'close' for a response whose connection is gone.  Nothing else is
\* assumed of the server, the network or the user.
FairSpec ==
  /\ Spec
  /\ \A e \in Effects : /\ WF_vars(aborted[e] /\ ConsumeSettles(e))
                        /\ WF_vars(ScheduleReconnect(e))
  /\ WF_vars(RefreshSucceeds \/ RefreshFails)
  /\ \A c \in Conns : WF_vars(EventsClosed(c))

-----------------------------------------------------------------------------
(* Properties *)

\* The accounts that a text names, in order.
AccountsIn(text) ==
  FlattenSeq([i \in 1..Len(text) |-> IF text[i] \in Accounts THEN <<text[i]>> ELSE <<>>])

\* Wherever the network cuts the text, every event written to a connection is
\* handled once and in order, or is still in the buffer or on the wire.
FramesSurviveChunking ==
  \A e \in Effects : phase[e] = "reading" =>
     handled[e] \o AccountsIn(buffer[e] \o wire[conn[e]]) = written[conn[e]]

\* "a client must only ever see its own accounts" (accounts.controller.ts:40):
\* of the queue's global stream an effect handles no event of an account that
\* is not of the user whose token the connection was opened with; and that user
\* is the one signed in, over reconnections, retries behind a shared refresh,
\* sign-outs and sign-ins in the tab, unless the browser had or had in flight
\* the cookie of another user meanwhile (mixed): refreshSession takes it up.
OnlyOwnAccounts ==
  \A e \in Effects : conn[e] # NoConn =>
    /\ \A a \in ToSet(handled[e]) : Owned(conn[e], a)
    /\ e \notin mixed => ToSet(handled[e]) \subseteq Mine[User[e]]

\* After a sign-out the server lets go of every listener and heartbeat the
\* effect's connections had, for good: also of a connection whose request was
\* still on the way.  The exception is the one the code has: a connection that
\* closed before its close handler was registered stays ("leaked").
ListenersAreReleased ==
  <>[](\A c \in listeners : aborted[opener[c]] => srv[c] = "leaked")

\* After a sign-out the effect's work comes to rest, wherever it was.
CleanupStopsEffect == \A e \in Effects : aborted[e] ~> phase[e] = "stopped"
=============================================================================
