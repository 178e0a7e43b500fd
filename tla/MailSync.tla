------------------------------ MODULE MailSync ------------------------------
(***************************************************************************)
(* Synchronisation of one mail account by the workers of email-ingestion:  *)
(* MailSyncService, MessageIngestionService and the part of the Gmail and  *)
(* Zoho adapters they depend on.  Every awaited call (provider request,    *)
(* database statement, object-store put) is one step.                      *)
(*                                                                         *)
(* The queue gives one account one job, but a job whose lock lapsed is run *)
(* again while the first run goes on, and the processor runs two jobs at a *)
(* time: Workers are the concurrent runs of syncAccount for the account.   *)
(*                                                                         *)
(* Messages are numbered in the order of their arrival at the provider.    *)
(* Gmail's historyId is the number of the newest message; Zoho's cursor is *)
(* the received time of a message, which two messages may share.           *)
(***************************************************************************)
EXTENDS Integers, FiniteSets, FiniteSetsExt

CONSTANTS Workers,
          Provider,      \* "GMAIL" or "ZOHO"
          MaxMail,       \* bound: messages that arrive
          PageSize,      \* entries in a page of changes
          InitialBatch,  \* INITIAL_BATCH
          MaxIdsPerRun,  \* MAX_IDS_PER_RUN
          Undated,       \* messages without a Date header
          WithText,      \* messages with a text body
          Months,        \* months in which messages are ingested
          MaxRemoved,    \* bound: messages deleted at the provider
          MaxFaults      \* bound: failed calls and crashes

Mail == 1..MaxMail

ASSUME MailSyncAssumption ==
  /\ Provider \in {"GMAIL", "ZOHO"}
  /\ MaxMail \in Nat /\ PageSize \in Nat \ {0} /\ MaxIdsPerRun \in Nat \ {0}
  /\ InitialBatch \in Nat /\ MaxRemoved \in Nat /\ MaxFaults \in Nat
  /\ Undated \subseteq Mail /\ WithText \subseteq Mail
  /\ Months \subseteq Nat /\ 0 \in Months

NoCursor == -1
NoRow    == -1
NoMail   == 0

VARIABLES
  \* the provider (external)
  arrived,    \* number of messages that have arrived
  received,   \* Zoho's receivedTime of each
  removed,    \* messages deleted at the provider
  horizon,    \* oldest historyId Gmail still answers from
  \* the MailAccount row
  status, cursor, syncError,
  \* the Message table and the object store
  row,        \* month in the stored row's object keys, or NoRow
  blobs,      \* <<kind, message, month>>
  \* the runs of syncAccount
  pc, from, token, ids, next, basis, msg, month,
  \* history
  base,       \* messages up to here were left to a baseline
  faults

mailbox == <<arrived, received, removed, horizon>>
account == <<status, cursor, syncError>>
store   == <<row, blobs>>
locals  == <<pc, from, token, ids, next, basis, msg, month>>
vars    == <<mailbox, account, store, locals, base, faults>>

PCs == {"idle", "connect", "profile", "list", "changes", "reset", "known",
        "loop", "find", "putRaw", "putBody", "create", "finish", "caught"}

TypeOK ==
  /\ arrived \in 0..MaxMail
  /\ received \in [Mail -> 0..MaxMail]
  /\ removed \subseteq 1..arrived
  /\ horizon \in 0..arrived
  /\ status \in {"ACTIVE", "REAUTH_REQUIRED"}
  /\ cursor \in {NoCursor} \cup 0..MaxMail
  /\ syncError \in BOOLEAN
  /\ row \in [Mail -> Months \cup {NoRow}]
  /\ blobs \subseteq ({"raw", "text"} \X Mail \X Months)
  /\ pc \in [Workers -> PCs]
  /\ from \in [Workers -> {NoCursor} \cup 0..MaxMail]
  /\ token \in [Workers -> 0..(MaxMail + 1)]
  /\ ids \in [Workers -> SUBSET Mail]
  /\ next \in [Workers -> {NoCursor} \cup 0..MaxMail]
  /\ basis \in [Workers -> 0..MaxMail]
  /\ msg \in [Workers -> Mail \cup {NoMail}]
  /\ month \in [Workers -> Months]
  /\ base \in 0..MaxMail
  /\ faults \in 0..MaxFaults

Init ==
  /\ arrived = 0 /\ received = [m \in Mail |-> 0] /\ removed = {} /\ horizon = 0
  /\ status = "ACTIVE" /\ cursor = NoCursor /\ syncError = FALSE
  /\ row = [m \in Mail |-> NoRow] /\ blobs = {}
  /\ pc = [w \in Workers |-> "idle"]
  /\ from = [w \in Workers |-> NoCursor]
  /\ token = [w \in Workers |-> 0]
  /\ ids = [w \in Workers |-> {}]
  /\ next = [w \in Workers |-> NoCursor]
  /\ basis = [w \in Workers |-> 0]
  /\ msg = [w \in Workers |-> NoMail]
  /\ month = [w \in Workers |-> 0]
  /\ base = 0 /\ faults = 0

Stored == {m \in Mail : row[m] # NoRow}

-----------------------------------------------------------------------------
(* The mailbox, as the adapters see it *)

Present == (1..arrived) \ removed

\* Positions start .. start + limit - 1 of the mailbox, newest first.
NewestFirst(start, limit) ==
  {m \in Present : Cardinality({n \in Present : n >= m}) \in start..(start + limit - 1)}

\* The first page; no run asks for a second one.
listMessageIds(limit) == NewestFirst(1, limit)

\* Faulty variant: the number the next message will get.
ProfileCursorPlusOne == arrived + 1

\* getProfile: Gmail's historyId, or the received time of Zoho's newest message.
GmailProfile == arrived
ZohoProfile  == IF Present = {} THEN 0 ELSE received[Max(Present)]

ProfileCursor == IF Provider = "GMAIL" THEN GmailProfile ELSE ZohoProfile

NoToken == 0

\* Gmail: history records after the cursor, oldest first; token is the last
\* record of the previous page; every page carries the current historyId.
GmailChanges(since, tok) ==
  LET after == IF tok = NoToken THEN since ELSE tok
      last  == Min({after + PageSize, arrived})
  IN  [invalid |-> since < horizon,
       ids     |-> (after + 1)..last,
       token   |-> IF last < arrived THEN last ELSE NoToken,
       cursor  |-> arrived]

\* Faulty variant: a strict comparison loses what shares the cursor's time.
ZohoFreshStrict(since, page) == {m \in page : received[m] > since}

ZohoFresh(since, page) == {m \in page : received[m] >= since}

\* Zoho: the mailbox by offset, newest first; token is the offset; only page 1
\* carries a cursor.
ZohoChanges(since, tok) ==
  LET start == IF tok = NoToken THEN 1 ELSE tok
      page  == NewestFirst(start, PageSize)
      fresh == ZohoFresh(since, page)
  IN  [invalid |-> FALSE,
       ids     |-> fresh,
       token   |-> IF fresh = page /\ Cardinality(page) = PageSize
                     THEN start + PageSize ELSE NoToken,
       cursor  |-> IF start = 1 /\ page # {} THEN received[Max(page)] ELSE NoCursor]

ListChanged(since, tok) ==
  IF Provider = "GMAIL" THEN GmailChanges(since, tok) ELSE ZohoChanges(since, tok)

\* Null for a message that is gone (404).
fetchRawMessage(m) == IF m \in removed THEN NoMail ELSE m

\* sentAt is the Date header, else the provider's date (Gmail only), else now.
MonthsOf(m) == IF m \in Undated /\ Provider = "ZOHO" THEN Months ELSE {0}

buildRawKey(m, sentAt)  == <<"raw", m, sentAt>>
buildBodyKey(m, sentAt) == <<"text", m, sentAt>>

put(key) == blobs' = blobs \cup {key}

-----------------------------------------------------------------------------
(* External: the mailbox changes at any time *)

MailArrives ==
  /\ arrived < MaxMail
  /\ arrived' = arrived + 1
  /\ \E t \in IF arrived = 0 THEN {1} ELSE {received[arrived], received[arrived] + 1} :
        received' = [received EXCEPT ![arrived + 1] = t]
  /\ Provider = "GMAIL" => received'[arrived + 1] = arrived + 1
  /\ UNCHANGED <<removed, horizon, account, store, locals, base, faults>>

MailRemoved(m) ==
  /\ m \in Present
  /\ Cardinality(removed) < MaxRemoved
  /\ removed' = removed \cup {m}
  /\ UNCHANGED <<arrived, received, horizon, account, store, locals, base, faults>>

HistoryExpires ==
  /\ Provider = "GMAIL"
  /\ horizon < arrived
  /\ horizon' = arrived
  /\ UNCHANGED <<arrived, received, removed, account, store, locals, base, faults>>

\* AccountsService.connect on the existing row.
Reconnect ==
  /\ status # "ACTIVE" \/ syncError
  /\ status' = "ACTIVE" /\ syncError' = FALSE
  /\ UNCHANGED <<mailbox, cursor, store, locals, base, faults>>

-----------------------------------------------------------------------------
(* One run of syncAccount *)

Goto(w, label) == pc' = [pc EXCEPT ![w] = label]

\* The run is over, its locals go away.
Finish(w) ==
  /\ Goto(w, "idle")
  /\ from' = [from EXCEPT ![w] = NoCursor]
  /\ token' = [token EXCEPT ![w] = NoToken]
  /\ ids' = [ids EXCEPT ![w] = {}]
  /\ next' = [next EXCEPT ![w] = NoCursor]
  /\ basis' = [basis EXCEPT ![w] = 0]
  /\ msg' = [msg EXCEPT ![w] = NoMail]
  /\ month' = [month EXCEPT ![w] = 0]

\* Faulty variant: an account whose last run failed is not run again.
BeginUnlessFailed(w) ==
  /\ pc[w] = "idle"
  /\ status = "ACTIVE" /\ ~syncError
  /\ from' = [from EXCEPT ![w] = cursor]
  /\ next' = [next EXCEPT ![w] = cursor]
  /\ Goto(w, "connect")
  /\ UNCHANGED <<mailbox, account, store, token, ids, basis, msg, month, base, faults>>

\* The job loads the account; one that is not ACTIVE ends it with an
\* UnrecoverableError and changes nothing.
Begin(w) ==
  /\ pc[w] = "idle"
  /\ status = "ACTIVE"
  /\ from' = [from EXCEPT ![w] = cursor]
  /\ next' = [next EXCEPT ![w] = cursor]
  /\ Goto(w, "connect")
  /\ UNCHANGED <<mailbox, account, store, token, ids, basis, msg, month, base, faults>>

\* getConnection with the stored access token, or with a refreshed one, whose
\* update also writes status and lastSyncError.
Connect(w) ==
  /\ pc[w] = "connect"
  /\ \/ UNCHANGED <<status, syncError>>
     \/ status' = "ACTIVE" /\ syncError' = FALSE
  /\ Goto(w, IF from[w] = NoCursor THEN "profile" ELSE "changes")
  /\ UNCHANGED <<mailbox, cursor, store, from, token, ids, next, basis, msg, month,
                 base, faults>>

\* getConnection: the provider says the grant is gone (markReauthRequired).
ConnectRevoked(w) ==
  /\ pc[w] = "connect"
  /\ faults < MaxFaults /\ faults' = faults + 1
  /\ status' = "REAUTH_REQUIRED" /\ syncError' = TRUE
  /\ Goto(w, "caught")
  /\ UNCHANGED <<mailbox, cursor, store, from, token, ids, next, basis, msg, month, base>>

GetProfile(w) ==
  /\ pc[w] = "profile"
  /\ next' = [next EXCEPT ![w] = ProfileCursor]
  /\ basis' = [basis EXCEPT ![w] = arrived]
  /\ Goto(w, "list")
  /\ UNCHANGED <<mailbox, account, store, from, token, ids, msg, month, base, faults>>

ListNewest(w) ==
  /\ pc[w] = "list"
  /\ ids' = [ids EXCEPT ![w] = listMessageIds(InitialBatch)]
  /\ Goto(w, "known")
  /\ UNCHANGED <<mailbox, account, store, from, token, next, basis, msg, month,
                 base, faults>>

\* One turn of the do-while of incrementalSync.
ListChanges(w) ==
  LET page == ListChanged(from[w], token[w])
      got  == ids[w] \cup page.ids
  IN
  /\ pc[w] = "changes"
  /\ \/ /\ page.invalid
        /\ ids' = [ids EXCEPT ![w] = {}]
        /\ token' = [token EXCEPT ![w] = NoToken]
        /\ Goto(w, "reset")
        /\ UNCHANGED next
     \/ /\ ~page.invalid
        /\ ids' = [ids EXCEPT ![w] = got]
        /\ next' = [next EXCEPT ![w] = IF page.cursor # NoCursor THEN page.cursor ELSE @]
        /\ token' = [token EXCEPT ![w] = page.token]
        /\ Goto(w, IF page.token # NoToken /\ Cardinality(got) < MaxIdsPerRun
                     THEN "changes" ELSE "known")
  /\ UNCHANGED <<mailbox, account, store, from, basis, msg, month, base, faults>>

\* The cursor expired: forget it and run initialSync.
ResetCursor(w) ==
  /\ pc[w] = "reset"
  /\ cursor' = NoCursor
  /\ from' = [from EXCEPT ![w] = NoCursor]
  /\ Goto(w, "profile")
  /\ UNCHANGED <<mailbox, status, syncError, store, token, ids, next, basis, msg,
                 month, base, faults>>

\* ingestAll: what is stored already is not fetched.
FilterKnown(w) ==
  /\ pc[w] = "known"
  /\ ids' = [ids EXCEPT ![w] = @ \ Stored]
  /\ token' = [token EXCEPT ![w] = NoToken]
  /\ Goto(w, "loop")
  /\ UNCHANGED <<mailbox, account, store, from, next, basis, msg, month, base, faults>>

\* The next message of the loop; the order of the listing is left open.
Fetch(w) ==
  /\ pc[w] = "loop"
  /\ \E m \in ids[w] :
       /\ ids' = [ids EXCEPT ![w] = @ \ {m}]
       /\ msg' = [msg EXCEPT ![w] = fetchRawMessage(m)]
       /\ Goto(w, IF fetchRawMessage(m) = NoMail THEN "loop" ELSE "find")
  /\ UNCHANGED <<mailbox, account, store, from, token, next, basis, month, base, faults>>

\* ingest: look the message up, parse it, build its object keys.
FindStored(w) ==
  /\ pc[w] = "find"
  /\ IF msg[w] \in Stored
       THEN Goto(w, "loop") /\ UNCHANGED month
       ELSE Goto(w, "putRaw") /\ \E d \in MonthsOf(msg[w]) : month' = [month EXCEPT ![w] = d]
  /\ UNCHANGED <<mailbox, account, store, from, token, ids, next, basis, msg, base, faults>>

\* Faulty variant: the text body is put after the row that points to it.
PutRawOnly(w) ==
  /\ pc[w] = "putRaw"
  /\ put(buildRawKey(msg[w], month[w]))
  /\ Goto(w, "create")
  /\ UNCHANGED <<mailbox, account, row, from, token, ids, next, basis, msg, month,
                 base, faults>>

PutRaw(w) ==
  /\ pc[w] = "putRaw"
  /\ put(buildRawKey(msg[w], month[w]))
  /\ Goto(w, IF msg[w] \in WithText THEN "putBody" ELSE "create")
  /\ UNCHANGED <<mailbox, account, row, from, token, ids, next, basis, msg, month,
                 base, faults>>

PutBody(w) ==
  /\ pc[w] = "putBody"
  /\ put(buildBodyKey(msg[w], month[w]))
  /\ Goto(w, "create")
  /\ UNCHANGED <<mailbox, account, row, from, token, ids, next, basis, msg, month,
                 base, faults>>

\* Faulty variant: an upsert instead of a create.
CreateOverwriting(w) ==
  /\ pc[w] = "create"
  /\ row' = [row EXCEPT ![msg[w]] = month[w]]
  /\ Goto(w, "loop")
  /\ msg' = [msg EXCEPT ![w] = NoMail]
  /\ month' = [month EXCEPT ![w] = 0]
  /\ UNCHANGED <<mailbox, account, blobs, from, token, ids, next, basis, base, faults>>

\* message.create; a unique violation (P2002) means the other run was faster.
CreateMessage(w) ==
  /\ pc[w] = "create"
  /\ row' = [row EXCEPT ![msg[w]] = IF @ = NoRow THEN month[w] ELSE @]
  /\ Goto(w, "loop")
  /\ msg' = [msg EXCEPT ![w] = NoMail]
  /\ month' = [month EXCEPT ![w] = 0]
  /\ UNCHANGED <<mailbox, account, blobs, from, token, ids, next, basis, base, faults>>

\* Faulty variant: the cursor is written although messages are left to fetch.
LoopEndsEarly(w) == pc[w] = "loop"

LoopEnds(w) == pc[w] = "loop" /\ ids[w] = {}

\* initialSync and incrementalSync end by writing the cursor they settled on.
WriteCursor(w) ==
  /\ LoopEnds(w)
  /\ cursor' = next[w]
  /\ base' = IF from[w] = NoCursor THEN Max({base, basis[w]}) ELSE base
  /\ Goto(w, "finish")
  /\ UNCHANGED <<mailbox, status, syncError, store, from, token, ids, next, basis,
                 msg, month, faults>>

\* lastSyncedAt, lastSyncError: null.
RecordSuccess(w) ==
  /\ pc[w] = "finish"
  /\ syncError' = FALSE
  /\ Finish(w)
  /\ UNCHANGED <<mailbox, status, cursor, store, base, faults>>

\* An awaited call throws; the catch of syncAccount records the reason and
\* rethrows, and the job is retried.
CallFails(w) ==
  /\ pc[w] \notin {"idle", "caught"}
  /\ faults < MaxFaults /\ faults' = faults + 1
  /\ Goto(w, "caught")
  /\ UNCHANGED <<mailbox, account, store, from, token, ids, next, basis, msg, month, base>>

RecordFailure(w) ==
  /\ pc[w] = "caught"
  /\ syncError' = TRUE
  /\ Finish(w)
  /\ UNCHANGED <<mailbox, status, cursor, store, base, faults>>

\* The worker process stops.
Crash(w) ==
  /\ pc[w] # "idle"
  /\ faults < MaxFaults /\ faults' = faults + 1
  /\ Finish(w)
  /\ UNCHANGED <<mailbox, account, store, base>>

-----------------------------------------------------------------------------
\* What the queue and the worker keep doing without being asked.
Run(w) ==
  \/ Begin(w) \/ Connect(w) \/ GetProfile(w) \/ ListNewest(w) \/ ListChanges(w)
  \/ ResetCursor(w) \/ FilterKnown(w) \/ Fetch(w) \/ FindStored(w) \/ PutRaw(w)
  \/ PutBody(w) \/ CreateMessage(w) \/ WriteCursor(w) \/ RecordSuccess(w)
  \/ RecordFailure(w)

Next ==
  \/ MailArrives
  \/ \E m \in Mail : MailRemoved(m)
  \/ HistoryExpires
  \/ Reconnect
  \/ \E w \in Workers : Run(w) \/ ConnectRevoked(w) \/ CallFails(w) \/ Crash(w)

Spec == Init /\ [][Next]_vars

\* The scheduler queues every ACTIVE account every five minutes and BullMQ
\* retries, so a run always starts and takes its next step.
FairSpec == Spec /\ \A w \in Workers : WF_vars(Run(w))

-----------------------------------------------------------------------------
(* Properties *)

\* The next incremental sync will not list m again.
Passed(m) == IF Provider = "GMAIL" THEN m <= cursor ELSE ZohoFresh(cursor, {m}) = {}

\* The cursor never moves past a message that is neither stored nor gone, but
\* for those a baseline leaves out: whatever fails, races or arrives in the
\* middle of a run, nothing falls into a gap.
NoGap ==
  \A m \in 1..arrived : m > base /\ Passed(m) => m \in Stored \/ m \in removed

\* "Blob first, pointer second": both objects a stored row names exist, after
\* any crash and for runs that race on the same message.
RowsHaveBlobs ==
  \A m \in Stored : /\ buildRawKey(m, row[m]) \in blobs
                    /\ m \in WithText => buildBodyKey(m, row[m]) \in blobs

\* A stored row keeps its object keys: a second run that ingests the message
\* under another month does not redirect it.
RowsAreFinal ==
  [][\A m \in Mail : row[m] # NoRow => row'[m] = row[m]]_vars

\* Mail that arrives after the baseline is stored eventually, unless it is
\* deleted, the account loses its grant, or a new baseline skips it.
MailGetsStored ==
  \A m \in Mail : m <= arrived /\ m > base ~>
     m \in Stored \/ m \in removed \/ m <= base \/ status # "ACTIVE"
=============================================================================
