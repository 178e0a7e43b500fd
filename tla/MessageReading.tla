--------------------------- MODULE MessageReading ---------------------------
(***************************************************************************)
(* Reading mail in the web application: the paged list of an account's     *)
(* messages while syncs insert rows, the cached text of an opened message, *)
(* and the download of the original, over the message table and the object *)
(* store.  The query library is external and modelled by its contract: a   *)
(* refetch reads as many pages as there were, one after the other and from *)
(* the first one, and replaces the list when it has them all; a new fetch  *)
(* of the list cancels the one that is under way.                          *)
(*                                                                         *)
(* Message ids are numbers: their order, like that of uuids, has nothing   *)
(* to do with the order of insertion.  Rows are never changed or deleted.  *)
(***************************************************************************)
EXTENDS Integers, Sequences, FiniteSets, SequencesExt

CONSTANTS Ids,          \* message ids
          SentAt,       \* their sentAt
          Asked,        \* values of ?limit= that callers send; 0: none, or no number
          DefaultLimit, \* 25
          MaxLimit,     \* 100
          Opened,       \* the messages that are opened and downloaded
          WithText,     \* those of Opened that have a bodyTextKey
          MaxSyncs      \* bound: rows inserted while the list is open

ASSUME ReadingAssumption ==
  /\ Ids \subseteq Nat \ {0} /\ IsFiniteSet(Ids)
  /\ SentAt \in [Ids -> Nat]
  /\ Asked \subseteq Int
  /\ MaxLimit \in Nat /\ DefaultLimit \in 1..MaxLimit
  /\ MaxSyncs \in Nat
  /\ WithText \subseteq Opened /\ Opened \subseteq Ids

NoRow == 0

VARIABLES
  rows,      \* the message table, of one account
  syncs,     \* rows inserted so far
  pages,     \* the list on screen
  seen,      \* history: the rows there were when its first page was read
  fetch,     \* the fetch of the list that is under way
  storageUp, \* the object store answers
  objects,   \* messages whose objects are in the store
  body,      \* Message: its cached detail
  dl,        \* Message: the download
  saved      \* Message: what the browser saved

list    == <<pages, seen, fetch>>
table   == <<rows, syncs>>
reading == <<body, dl, saved>>
readVars == <<table, list, storageUp, objects, reading>>

NoFetch == [mode |-> "none", want |-> 0, got |-> <<>>, seen |-> {}]

\* "asked", then the head ("error" stands for 404, 503 and the gateway's own)
\* and the end of the response; whole is the body that was sent, sized whether
\* the head has a content-length.
Download == [st : {"none", "asked", "error", "streaming", "ended", "destroyed"},
             whole : BOOLEAN, sized : BOOLEAN]
NoDownload == [st |-> "none", whole |-> FALSE, sized |-> FALSE]

Page == [messages : Seq(Ids), next : Ids \cup {NoRow}]

\* A cursor that is handed out names a row of the table.
ReadTypeOK ==
  /\ rows \subseteq Ids
  /\ syncs \in 0..MaxSyncs
  /\ pages \in Seq(Page) /\ fetch.got \in Seq(Page)
  /\ \A p \in ToSet(pages \o fetch.got) :
       p.next # NoRow => p.next \in rows /\ p.messages # <<>>
  /\ seen \subseteq rows /\ fetch.seen \subseteq rows
  /\ fetch.mode \in {"none", "next", "refetch"} /\ fetch.want \in Nat
  /\ storageUp \in BOOLEAN
  /\ objects \subseteq Opened
  /\ body \in [Opened -> {"unread", "text", "none"}]
  /\ dl \in [Opened -> Download]
  /\ saved \in [Opened -> {"nothing", "message", "part", "error"}]

\* The panel is mounted: useMessages starts with its first page.
ReadInit ==
  /\ rows \in SUBSET Ids
  /\ syncs = 0
  /\ pages = <<>> /\ seen = {}
  /\ fetch = [NoFetch EXCEPT !.mode = "refetch", !.want = 1]
  /\ storageUp = TRUE
  /\ objects = Opened
  /\ body = [m \in Opened |-> "unread"]
  /\ dl = [m \in Opened |-> NoDownload]
  /\ saved = [m \in Opened |-> "nothing"]

-----------------------------------------------------------------------------
(* GET /accounts/:accountId/messages *)

\* Math.min(Math.max(Number(limit) || 25, 1), 100)
take(asked) ==
  LET n == IF asked = 0 THEN DefaultLimit ELSE asked
  IN  IF n < 1 THEN 1 ELSE IF n > MaxLimit THEN MaxLimit ELSE n

\* orderBy: [{ sentAt: 'desc' }, { id: 'desc' }]
Before(a, b) == \/ SentAt[a] > SentAt[b]
                \/ SentAt[a] = SentAt[b] /\ a > b

\* The rows of S in that order: the i-th has i - 1 of them before it.
Ordered(S) ==
  [i \in 1..Cardinality(S) |-> CHOOSE r \in S : Cardinality({q \in S : Before(q, r)}) = i - 1]

\* Faulty variant: only the time decides where a page starts.
AfterInTime(cursor) == {r \in rows : cursor = NoRow \/ SentAt[cursor] > SentAt[r]}

\* cursor: { id: cursor }, skip: 1
After(cursor) == {r \in rows : cursor = NoRow \/ Before(cursor, r)}

\* Faulty variant: the cursor is the time of the last row.
listForAccountByTime(cursor, limit) ==
  LET found == Ordered(After(cursor))
      more  == Len(found) > limit
  IN  [messages |-> SubSeq(found, 1, IF more THEN limit ELSE Len(found)),
       next     |-> IF more THEN SentAt[found[limit]] ELSE NoRow]

\* take: limit + 1; the extra row only tells that there is another page.
listForAccount(cursor, limit) ==
  LET found == Ordered(After(cursor))
      more  == Len(found) > limit
  IN  [messages |-> SubSeq(found, 1, IF more THEN limit ELSE Len(found)),
       next     |-> IF more THEN found[limit] ELSE NoRow]

-----------------------------------------------------------------------------
(* The list *)

\* A sync of the account stores a message.
Ingest(r) ==
  /\ r \notin rows /\ syncs < MaxSyncs
  /\ rows' = rows \cup {r}
  /\ syncs' = syncs + 1
  /\ UNCHANGED <<list, storageUp, objects, reading>>

\* A sync event, or a list gone stale: every page is read again.
invalidate ==
  /\ fetch' = [NoFetch EXCEPT !.mode = "refetch", !.want = IF pages = <<>> THEN 1 ELSE Len(pages)]
  /\ UNCHANGED <<table, pages, seen, storageUp, objects, reading>>

\* Load more, shown while hasNextPage and disabled while isFetchingNextPage.
fetchNextPage ==
  /\ pages # <<>> /\ Last(pages).next # NoRow
  /\ fetch.mode # "next"
  /\ fetch' = [NoFetch EXCEPT !.mode = "next"]
  /\ UNCHANGED <<table, pages, seen, storageUp, objects, reading>>

\* One request of the fetch is answered: getNextPageParam is the last page's
\* nextCursor, and a null one ends the fetch.
PageArrives(asked) ==
  LET before == IF fetch.mode = "next" THEN pages ELSE fetch.got
      cursor == IF before = <<>> THEN NoRow ELSE Last(before).next
      page   == listForAccount(cursor, take(asked))
      got    == Append(before, page)
      first  == IF before = <<>> THEN rows
                ELSE IF fetch.mode = "next" THEN seen ELSE fetch.seen
  IN
  /\ fetch.mode # "none"
  /\ IF fetch.mode = "next" \/ Len(got) = fetch.want \/ page.next = NoRow
       THEN pages' = got /\ seen' = first /\ fetch' = NoFetch
       ELSE /\ fetch' = [fetch EXCEPT !.got = got, !.seen = first]
            /\ UNCHANGED <<pages, seen>>
  /\ UNCHANGED <<table, storageUp, objects, reading>>

\* A request fails, 404 for an account of somebody else included: one retry of
\* the whole fetch, then the error, with the list as it was.
PageFails ==
  /\ fetch.mode # "none"
  /\ \/ fetch' = NoFetch
     \/ fetch' = [fetch EXCEPT !.got = <<>>, !.seen = {}]
  /\ UNCHANGED <<table, pages, seen, storageUp, objects, reading>>

-----------------------------------------------------------------------------
(* Storage *)

\* External: the store goes down or comes back, or an object drifts away.
StorageFlips ==
  /\ storageUp' = ~storageUp
  /\ UNCHANGED <<table, list, objects, reading>>

ObjectLost(m) ==
  /\ m \in objects
  /\ objects' = objects \ {m}
  /\ UNCHANGED <<table, list, storageUp, reading>>

Readable(m) == storageUp /\ m \in objects

Listed(m) == \E i \in 1..Len(pages) : m \in ToSet(pages[i].messages)

-----------------------------------------------------------------------------
(* One message *)

\* useMessage of a listed message that is not in the cache; a body that cannot
\* be read, for whatever reason, is a message without one, and is cached so.
getForAccount(m) ==
  /\ Listed(m) /\ body[m] = "unread"
  /\ body' = [body EXCEPT ![m] = IF m \in WithText /\ Readable(m) THEN "text" ELSE "none"]
  /\ UNCHANGED <<table, list, storageUp, objects, dl, saved>>

\* The sheet was closed for a while: staleTime is Infinity, gcTime is not.
cacheCollected(m) ==
  /\ body[m] # "unread"
  /\ body' = [body EXCEPT ![m] = "unread"]
  /\ UNCHANGED <<table, list, storageUp, objects, dl, saved>>

\* "Download original", in the sheet of a message that has loaded.
downloadMessage(m) ==
  /\ body[m] # "unread" /\ dl[m].st = "none"
  /\ dl' = [dl EXCEPT ![m].st = "asked"]
  /\ UNCHANGED <<table, list, storageUp, objects, body, saved>>

\* raw: the key, then getStream; 404 for NoSuchKey, 503 for everything else.
\* Otherwise the head goes out, with a length if the store gave one.
raw(m) ==
  /\ dl[m].st = "asked"
  /\ IF Readable(m)
       THEN \E sized \in BOOLEAN :
              dl' = [dl EXCEPT ![m] = [st |-> "streaming", whole |-> FALSE, sized |-> sized]]
       ELSE dl' = [dl EXCEPT ![m].st = "error"]
  /\ UNCHANGED <<table, list, storageUp, objects, body, saved>>

\* pipeline(object.body, res) has sent everything.
StreamEnds(m) ==
  /\ dl[m].st = "streaming"
  /\ dl' = [dl EXCEPT ![m].st = "ended", ![m].whole = TRUE]
  /\ UNCHANGED <<table, list, storageUp, objects, body, saved>>

\* Faulty variant: the response is ended where the stream broke off.
StreamBreaksEnding(m) ==
  /\ dl[m].st = "streaming"
  /\ dl' = [dl EXCEPT ![m].st = "ended"]
  /\ UNCHANGED <<table, list, storageUp, objects, body, saved>>

\* It rejects with the status line out: res.destroy().
StreamBreaks(m) ==
  /\ dl[m].st = "streaming"
  /\ dl' = [dl EXCEPT ![m].st = "destroyed"]
  /\ UNCHANGED <<table, list, storageUp, objects, body, saved>>

\* The gateway refuses the request, or the session is gone.
DownloadRefused(m) ==
  /\ dl[m].st = "asked"
  /\ dl' = [dl EXCEPT ![m].st = "error"]
  /\ UNCHANGED <<table, list, storageUp, objects, body, saved>>

\* The download settles: a response that is not ok throws, blob() rejects for
\* a body cut off or shorter than announced, and only what is left is saved.
DownloadSettles(m) ==
  /\ dl[m].st \in {"error", "ended", "destroyed"}
  /\ LET content == IF dl[m].st = "error" THEN "error"
                    ELSE IF dl[m].whole THEN "message" ELSE "part"
         ok       == dl[m].st # "error"
         resolves == dl[m].st = "ended" /\ (dl[m].sized => dl[m].whole)
     IN  saved' = [saved EXCEPT ![m] = IF ok /\ resolves THEN content ELSE @]
  /\ dl' = [dl EXCEPT ![m] = NoDownload]
  /\ UNCHANGED <<table, list, storageUp, objects, body>>

-----------------------------------------------------------------------------
ReadNext ==
  \/ \E r \in Ids : Ingest(r)
  \/ invalidate \/ fetchNextPage \/ PageFails
  \/ \E asked \in Asked : PageArrives(asked)
  \/ StorageFlips
  \/ \E m \in Opened :
       \/ ObjectLost(m) \/ getForAccount(m) \/ cacheCollected(m)
       \/ downloadMessage(m) \/ raw(m) \/ StreamEnds(m) \/ StreamBreaks(m)
       \/ DownloadRefused(m) \/ DownloadSettles(m)

ReadSpec == ReadInit /\ [][ReadNext]_readVars

-----------------------------------------------------------------------------
(* Properties *)

Rows(ps) == FlattenSeq([i \in 1..Len(ps) |-> ps[i].messages])

\* "without a deterministic order a cursor can skip or repeat rows"
\* (messages.service.ts:38).  Whatever is inserted between two pages, whatever
\* fetches cancel each other, and with messages of the same second: the list is
\* in order without repetition, and from its top to its end it has every row
\* there was when its first page was read.
PagesAreExact ==
  LET shown == Rows(pages) IN
  /\ \A i, j \in 1..Len(shown) : i < j => Before(shown[i], shown[j])
  /\ pages # <<>> =>
       \A r \in seen : \/ r \in ToSet(shown)
                       \/ /\ Last(pages).next # NoRow
                          /\ Before(Last(shown), r)

\* A file that was saved is the whole message: never the text of an error,
\* never what had arrived of a stream that broke off, whether or not the store
\* told the length.
SavedFileIsComplete == \A m \in Opened : saved[m] \in {"nothing", "message"}
=============================================================================
