--------------------------- MODULE MailSyncProofs ---------------------------
(***************************************************************************)
(* Proofs about MailSync, for any number of concurrent runs, messages,     *)
(* faults and deletions and both providers.                                *)
(*                                                                         *)
(* StoreInv carries the types and "blob first, pointer second".  Its       *)
(* strengthening is RunOK: what a run has put before it writes the row.    *)
(*                                                                         *)
(* GapInv carries NoGap.  The cursor a run will write is judged long       *)
(* before it is written, so the invariant follows every run: everything    *)
(* behind the cursor it started from is settled (RunReached), the pages it *)
(* has taken are whole (RunListing), and what lies between that cursor and *)
(* the one it will write is settled or in its hands (RunCollected), or     *)
(* belongs to its baseline (RunBaseline).  What arrives meanwhile is never *)
(* behind a cursor the provider has answered with (Growth).                *)
(***************************************************************************)
EXTENDS MailSync, FiniteSetTheorems, WellFoundedInduction, TLAPS

-----------------------------------------------------------------------------
(* The operators *)

\* A finite, non-empty set of numbers has a greatest element, and Max is it.
LEMMA MaxOfFinite ==
  ASSUME NEW S \in SUBSET Int, IsFiniteSet(S), S # {}
  PROVE  Max(S) \in S /\ \A y \in S : Max(S) >= y
<1> DEFINE Above(x) == {y \in S : y > x}
           T == {Above(x) : x \in S}
<1>1. T \subseteq FiniteSubsetsOf(S) /\ T # {}
  <2>1. \A x \in S : Above(x) \in SUBSET S /\ IsFiniteSet(Above(x))
    BY FS_Subset
  <2> QED
    BY <2>1 DEF FiniteSubsetsOf
<1>2. PICK A \in T : \A B \in T : ~ (<<B, A>> \in StrictSubsetOrdering(S))
  <2> HIDE DEF T
  <2> QED
    BY <1>1, FS_StrictSubsetOrderingWellFounded, WFMin
<1>3. PICK x \in S : A = Above(x)
  BY <1>2
<1>4. \A y \in S : x >= y
  <2>1. SUFFICES ASSUME NEW y \in S, y > x PROVE FALSE
    OBVIOUS
  <2>2. /\ Above(y) \subseteq A /\ y \in A /\ y \notin Above(y)
        /\ Above(y) \in T
    <3>1. y \in A /\ y \notin Above(y) /\ Above(y) \in T
      BY <1>3, <2>1
    <3>2. \A z \in Above(y) : z \in Above(x)
      <4> SUFFICES ASSUME NEW z \in S, z > y PROVE z > x
        OBVIOUS
      <4> QED
        BY <2>1
    <3> QED
      BY <1>3, <3>1, <3>2
  <2>3. <<Above(y), A>> \in StrictSubsetOrdering(S)
    <3>1. Above(y) \in SUBSET S /\ A \in SUBSET S
      BY <1>3
    <3> QED
      BY <2>2, <3>1 DEF StrictSubsetOrdering
  <2> QED
    BY <1>2, <2>2, <2>3
<1> QED
  BY <1>4 DEF Max

LEMMA MaxOfTwo ==
  ASSUME NEW a \in Int, NEW b \in Int
  PROVE  Max({a, b}) = IF a >= b THEN a ELSE b
  BY DEF Max

LEMMA MinOfTwo ==
  ASSUME NEW a \in Int, NEW b \in Int
  PROVE  Min({a, b}) = IF a <= b THEN a ELSE b
  BY DEF Min

-----------------------------------------------------------------------------
(* The invariant of the store *)

\* The clock of the mailbox: no message is received later than its number.
Clock == \A m \in Mail : received[m] <= m

\* A run between two steps.  It asks for changes only from a cursor, ingests
\* only a message it was given, and has put what its row will point to.
RunOK(w) ==
  /\ pc[w] = "changes" => from[w] # NoCursor
  /\ pc[w] \in {"find", "putRaw", "putBody", "create"} => msg[w] \in Mail
  /\ pc[w] \in {"putBody", "create"} => buildRawKey(msg[w], month[w]) \in blobs
  /\ pc[w] = "create" /\ msg[w] \in WithText => buildBodyKey(msg[w], month[w]) \in blobs

\* TypeOK in four parts.
BoxOK ==
  /\ arrived \in 0..MaxMail
  /\ received \in [Mail -> 0..MaxMail]
  /\ removed \subseteq 1..arrived
  /\ horizon \in 0..arrived
  /\ base \in 0..MaxMail
  /\ faults \in 0..MaxFaults

AccountOK ==
  /\ status \in {"ACTIVE", "REAUTH_REQUIRED"}
  /\ cursor \in {NoCursor} \cup 0..MaxMail
  /\ syncError \in BOOLEAN

StoreOK ==
  /\ row \in [Mail -> Months \cup {NoRow}]
  /\ blobs \subseteq ({"raw", "text"} \X Mail \X Months)

LocalsOK ==
  /\ pc \in [Workers -> PCs]
  /\ from \in [Workers -> {NoCursor} \cup 0..MaxMail]
  /\ token \in [Workers -> 0..(MaxMail + 1)]
  /\ ids \in [Workers -> SUBSET Mail]
  /\ next \in [Workers -> {NoCursor} \cup 0..MaxMail]
  /\ basis \in [Workers -> 0..MaxMail]
  /\ msg \in [Workers -> Mail \cup {NoMail}]
  /\ month \in [Workers -> Months]

LEMMA TypeParts == TypeOK <=> BoxOK /\ AccountOK /\ StoreOK /\ LocalsOK
  BY DEF TypeOK, BoxOK, AccountOK, StoreOK, LocalsOK

Runs == \A w \in Workers : RunOK(w)

StoreInv == BoxOK /\ AccountOK /\ StoreOK /\ LocalsOK /\ Clock /\ Runs /\ RowsHaveBlobs

-----------------------------------------------------------------------------
(* What the adapters answer *)

LEMMA PresentFacts ==
  ASSUME BoxOK
  PROVE  /\ arrived \in Nat /\ MaxMail \in Nat /\ arrived <= MaxMail
         /\ Present \in SUBSET Mail /\ Present \in SUBSET Int
         /\ IsFiniteSet(Present)
         /\ Cardinality(Present) \in Nat
         /\ Cardinality(Present) <= arrived
<1>1. arrived \in Nat /\ MaxMail \in Nat /\ arrived <= MaxMail
  BY MailSyncAssumption DEF BoxOK
<1>2. Present \in SUBSET (1..arrived)
  BY DEF Present
<1>3. IsFiniteSet(1..arrived) /\ Cardinality(1..arrived) = arrived
  BY <1>1, FS_Interval
<1>4. IsFiniteSet(Present) /\ Cardinality(Present) <= arrived
  BY <1>2, <1>3, FS_Subset
<1>5. Cardinality(Present) \in Nat
  BY <1>4, FS_CardinalityType
<1>6. (1..arrived) \subseteq Mail /\ Mail \subseteq Int
  BY <1>1 DEF Mail
<1> QED
  BY <1>1, <1>2, <1>4, <1>5, <1>6

\* A page is a finite set of messages; its last position is taken when it is full.
LEMMA PageFacts ==
  ASSUME BoxOK, NEW start \in Nat \ {0}, NEW limit \in Nat
  PROVE  LET page == NewestFirst(start, limit)
         IN  /\ page \in SUBSET Present /\ IsFiniteSet(page)
             /\ page # {} => Max(page) \in page /\ \A m \in page : Max(page) >= m
             /\ Cardinality(page) = limit /\ limit # 0 => start + limit - 1 <= arrived
<1> DEFINE page == NewestFirst(start, limit)
<1>1. page \in SUBSET Present
  BY DEF NewestFirst
<1>2. IsFiniteSet(page) /\ page \in SUBSET Int
  BY <1>1, PresentFacts, FS_Subset
<1>3. page # {} => Max(page) \in page /\ \A m \in page : Max(page) >= m
  BY <1>2, MaxOfFinite
<1>4. ASSUME Cardinality(page) = limit, limit # 0
      PROVE  start + limit - 1 <= arrived
  <2>1. page # {}
    BY <1>4, FS_EmptySet
  <2> DEFINE top == Max(page)
             newer == {n \in Present : n >= top}
  <2>2. top \in page /\ \A m \in page : top >= m
    BY <1>3, <2>1
  <2>3. top \in Present /\ Cardinality(newer) \in start..(start + limit - 1)
    BY <2>2 DEF NewestFirst
  <2>4. IsFiniteSet(newer) /\ newer \in SUBSET Present
    BY PresentFacts, FS_Subset
  <2>5. newer \cap page = {top}
    <3>1. top \in newer
      BY <2>3, PresentFacts
    <3>2. \A m \in newer \cap page : m = top
      BY <2>2, <1>2
    <3> QED
      BY <2>2, <3>1, <3>2
  <2>6. Cardinality(newer \cup page) = Cardinality(newer) + limit - 1
    <3>1. Cardinality({top}) = 1
      BY FS_Singleton
    <3>2. Cardinality(newer \cup page)
            = Cardinality(newer) + Cardinality(page) - Cardinality(newer \cap page)
      BY <1>2, <2>4, FS_Union
    <3> QED
      BY <3>1, <3>2, <2>5, <1>4
  <2>7. Cardinality(newer \cup page) <= Cardinality(Present)
    BY <1>1, <2>4, PresentFacts, FS_Subset
  <2>8. Cardinality(newer \cup page) \in Nat
    BY <1>2, <2>4, FS_Union, FS_CardinalityType
  <2> HIDE DEF page
  <2> QED
    BY <2>3, <2>6, <2>7, <2>8, PresentFacts
<1> QED
  BY <1>1, <1>2, <1>3, <1>4

LEMMA ProfileType ==
  ASSUME BoxOK
  PROVE  ProfileCursor \in 0..MaxMail
<1>1. CASE Provider = "GMAIL"
  BY <1>1 DEF ProfileCursor, GmailProfile, BoxOK
<1>2. CASE Provider # "GMAIL"
  <2>1. CASE Present = {}
    BY <1>2, <2>1, PresentFacts DEF ProfileCursor, ZohoProfile
  <2>2. CASE Present # {}
    <3>1. Max(Present) \in Mail
      BY <2>2, PresentFacts, MaxOfFinite
    <3> QED
      BY <1>2, <2>2, <3>1 DEF ProfileCursor, ZohoProfile, BoxOK
  <2> QED
    BY <2>1, <2>2
<1> QED
  BY <1>1, <1>2

\* One page of Gmail's history.
LEMMA GmailPage ==
  ASSUME BoxOK, NEW since \in 0..MaxMail, NEW tok \in 0..(MaxMail + 1)
  PROVE  LET page  == GmailChanges(since, tok)
             after == IF tok = NoToken THEN since ELSE tok
         IN  /\ page.ids \in SUBSET Mail
             /\ page.token \in 0..MaxMail
             /\ page.cursor = arrived
             /\ page.invalid \in BOOLEAN
             /\ page.token # NoToken =>
                  /\ page.token = after + PageSize /\ page.token < arrived
                  /\ page.ids = (after + 1)..page.token
             /\ page.token = NoToken => \A m \in (after + 1)..arrived : m \in page.ids
<1> DEFINE after == IF tok = NoToken THEN since ELSE tok
           last  == Min({after + PageSize, arrived})
<1>1. /\ after \in Nat /\ PageSize \in Nat /\ PageSize # 0
      /\ arrived \in Nat /\ MaxMail \in Nat /\ arrived <= MaxMail
  BY MailSyncAssumption, PresentFacts
<1>2. last = IF after + PageSize <= arrived THEN after + PageSize ELSE arrived
  BY <1>1, MinOfTwo
<1> HIDE DEF last, after
<1>3. (after + 1)..last \in SUBSET Mail
  BY <1>1, <1>2 DEF Mail
<1>4. GmailChanges(since, tok) =
        [invalid |-> since < horizon, ids |-> (after + 1)..last,
         token |-> IF last < arrived THEN last ELSE NoToken, cursor |-> arrived]
  BY DEF GmailChanges, last, after
<1>5. last < arrived => last = after + PageSize /\ last # NoToken
  BY <1>1, <1>2 DEF NoToken
<1>6. ~(last < arrived) => last = arrived
  BY <1>1, <1>2
<1>7. (IF last < arrived THEN last ELSE NoToken) \in 0..MaxMail
  BY <1>1, <1>2 DEF NoToken
<1> QED
  BY <1>3, <1>4, <1>5, <1>6, <1>7 DEF after

\* One page of Zoho's mailbox.
LEMMA ZohoPage ==
  ASSUME BoxOK, NEW since \in 0..MaxMail, NEW tok \in 0..(MaxMail + 1)
  PROVE  LET page == ZohoChanges(since, tok)
         IN  /\ page.ids \in SUBSET Mail
             /\ page.token \in 0..(MaxMail + 1)
             /\ page.cursor \in {NoCursor} \cup 0..MaxMail
             /\ page.invalid = FALSE
<1> DEFINE start == IF tok = NoToken THEN 1 ELSE tok
           pg    == NewestFirst(start, PageSize)
           fresh == ZohoFresh(since, pg)
<1>1. start \in Nat \ {0} /\ PageSize \in Nat /\ PageSize # 0
  BY MailSyncAssumption DEF NoToken
<1>2. /\ pg \in SUBSET Present
      /\ pg # {} => Max(pg) \in pg
      /\ Cardinality(pg) = PageSize => start + PageSize - 1 <= arrived
  BY <1>1, PageFacts
<1>3. pg \in SUBSET Mail /\ fresh \in SUBSET Mail
  BY <1>2, PresentFacts DEF ZohoFresh
<1> HIDE DEF fresh, pg, start
<1>4. ZohoChanges(since, tok) =
        [invalid |-> FALSE, ids |-> fresh,
         token   |-> IF fresh = pg /\ Cardinality(pg) = PageSize
                       THEN start + PageSize ELSE NoToken,
         cursor  |-> IF start = 1 /\ pg # {} THEN received[Max(pg)] ELSE NoCursor]
  BY DEF ZohoChanges, fresh, pg, start
<1>5. Cardinality(pg) = PageSize => start + PageSize \in 0..(MaxMail + 1)
  BY <1>1, <1>2, PresentFacts
<1>6. NoToken \in 0..(MaxMail + 1)
  BY PresentFacts DEF NoToken
<1>7. pg # {} => received[Max(pg)] \in 0..MaxMail
  BY <1>2, <1>3 DEF BoxOK
<1> QED
  BY <1>3, <1>4, <1>5, <1>6, <1>7

LEMMA ListedType ==
  ASSUME BoxOK, NEW since \in 0..MaxMail, NEW tok \in 0..(MaxMail + 1)
  PROVE  LET page == ListChanged(since, tok)
         IN  /\ page.ids \in SUBSET Mail
             /\ page.token \in 0..(MaxMail + 1)
             /\ page.cursor \in {NoCursor} \cup 0..MaxMail
<1>1. CASE Provider = "GMAIL"
  <2>1. \A n \in 0..MaxMail : n \in 0..(MaxMail + 1)
    BY MailSyncAssumption
  <2>2. arrived \in 0..MaxMail
    BY DEF BoxOK
  <2> QED
    BY <1>1, <2>1, <2>2, GmailPage DEF ListChanged
<1>2. CASE Provider # "GMAIL"
  BY <1>2, ZohoPage DEF ListChanged
<1> QED
  BY <1>1, <1>2

-----------------------------------------------------------------------------
(* The store: every step preserves StoreInv *)

\* The other runs keep their place.
Beside(w) ==
  \A u \in Workers : u # w => /\ pc'[u] = pc[u] /\ from'[u] = from[u]
                              /\ msg'[u] = msg[u] /\ month'[u] = month[u]

\* A step of one run that writes no row and removes no object.
LEMMA StoreFrame ==
  ASSUME StoreInv, NEW w \in Workers,
         BoxOK', AccountOK', LocalsOK', StoreOK',
         received' = received, row' = row, blobs \subseteq blobs',
         Beside(w), RunOK(w)'
  PROVE  StoreInv'
<1>1. Clock'
  BY DEF StoreInv, Clock
<1>2. Runs'
  <2> SUFFICES ASSUME NEW u \in Workers, u # w PROVE RunOK(u)'
    BY DEF Runs
  <2>1. RunOK(u)
    BY DEF StoreInv, Runs
  <2> QED
    BY <2>1 DEF Beside, RunOK, buildRawKey, buildBodyKey
<1>3. RowsHaveBlobs'
  BY DEF StoreInv, RowsHaveBlobs, Stored, buildRawKey, buildBodyKey
<1> QED
  BY <1>1, <1>2, <1>3 DEF StoreInv

\* A step of one run that leaves the mailbox and the store alone.
LEMMA QuietStore ==
  ASSUME StoreInv, NEW w \in Workers,
         UNCHANGED <<mailbox, store>>, base' \in 0..MaxMail, faults' \in 0..MaxFaults,
         AccountOK', LocalsOK', Beside(w), RunOK(w)'
  PROVE  StoreInv'
<1>1. BoxOK' /\ StoreOK'
  BY DEF StoreInv, BoxOK, StoreOK, mailbox, store
<1> QED
  BY <1>1, StoreFrame DEF mailbox, store

\* The end of a run, whatever ended it.
LEMMA FinishStore ==
  ASSUME StoreInv, NEW w \in Workers, Finish(w),
         UNCHANGED <<mailbox, store, base>>, faults' \in 0..MaxFaults, AccountOK'
  PROVE  StoreInv'
<1>1. LocalsOK'
  <2> USE MailSyncAssumption DEF StoreInv, LocalsOK, Finish, Goto
  <2>1. pc' \in [Workers -> PCs]
    BY DEF PCs
  <2>2. /\ from' \in [Workers -> {NoCursor} \cup 0..MaxMail]
        /\ next' \in [Workers -> {NoCursor} \cup 0..MaxMail]
    OBVIOUS
  <2>3. token' \in [Workers -> 0..(MaxMail + 1)] /\ basis' \in [Workers -> 0..MaxMail]
    BY DEF NoToken
  <2>4. ids' \in [Workers -> SUBSET Mail] /\ msg' \in [Workers -> Mail \cup {NoMail}]
    OBVIOUS
  <2>5. month' \in [Workers -> Months]
    OBVIOUS
  <2> QED
    BY <2>1, <2>2, <2>3, <2>4, <2>5
<1>2. Beside(w) /\ RunOK(w)'
  BY DEF StoreInv, LocalsOK, Finish, Goto, Beside, RunOK
<1>3. base' \in 0..MaxMail
  BY DEF StoreInv, BoxOK
<1> QED
  BY <1>1, <1>2, <1>3, QuietStore

\* Steps of the outside world: no run moves and no row is written.
LEMMA WorldStore ==
  ASSUME StoreInv,
         MailArrives \/ (\E m \in Mail : MailRemoved(m)) \/ HistoryExpires \/ Reconnect
  PROVE  StoreInv'
<1>0. UNCHANGED <<store, locals>>
  BY DEF MailArrives, MailRemoved, HistoryExpires, Reconnect
<1>1. StoreOK' /\ LocalsOK' /\ Runs' /\ RowsHaveBlobs'
  BY <1>0 DEF StoreInv, StoreOK, LocalsOK, Runs, RunOK, RowsHaveBlobs, Stored, store, locals,
              buildRawKey, buildBodyKey
<1>2. AccountOK'
  BY DEF StoreInv, AccountOK, account, MailArrives, MailRemoved, HistoryExpires, Reconnect
<1>3. BoxOK' /\ Clock'
  <2> USE MailSyncAssumption DEF StoreInv, BoxOK
  <2>1. CASE MailArrives
    <3>1. arrived \in Nat /\ arrived < MaxMail /\ MaxMail \in Nat /\ arrived' = arrived + 1
      BY <2>1 DEF MailArrives
    <3>2. arrived + 1 \in Mail /\ (arrived # 0 => arrived \in Mail)
      BY <3>1 DEF Mail
    <3>3. PICK t : /\ received' = [received EXCEPT ![arrived + 1] = t]
                   /\ t \in IF arrived = 0 THEN {1}
                            ELSE {received[arrived], received[arrived] + 1}
      BY <2>1 DEF MailArrives
    <3>4. t \in 0..MaxMail /\ t <= arrived + 1
      <4>1. CASE arrived = 0
        BY <3>1, <3>3, <4>1
      <4>2. CASE arrived # 0
        <5>1. received[arrived] \in Nat /\ received[arrived] <= arrived
          BY <3>2, <4>2 DEF Clock
        <5> QED
          BY <3>1, <3>3, <4>2, <5>1
      <4> QED
        BY <4>1, <4>2
    <3>5. received' \in [Mail -> 0..MaxMail]
      BY <3>2, <3>3, <3>4
    <3>6. Clock'
      BY <3>3, <3>4 DEF Clock
    <3>7. arrived' \in 0..MaxMail /\ horizon' \in 0..arrived' /\ removed' \subseteq 1..arrived'
      <4>1. UNCHANGED <<removed, horizon>>
        BY <2>1 DEF MailArrives
      <4> QED
        BY <3>1, <4>1
    <3> QED
      BY <2>1, <3>5, <3>6, <3>7 DEF MailArrives
  <2>2. CASE \E m \in Mail : MailRemoved(m)
    BY <2>2 DEF MailRemoved, Present, Clock
  <2>3. CASE HistoryExpires
    BY <2>3 DEF HistoryExpires, Clock
  <2>4. CASE Reconnect
    BY <2>4 DEF Reconnect, mailbox, Clock
  <2> QED
    BY <2>1, <2>2, <2>3, <2>4
<1> QED
  BY <1>1, <1>2, <1>3 DEF StoreInv

\* Up to the listing.
LEMMA ListingStore ==
  ASSUME StoreInv, NEW w \in Workers,
         Begin(w) \/ Connect(w) \/ GetProfile(w) \/ ListNewest(w) \/ ListChanges(w)
           \/ ResetCursor(w)
  PROVE  StoreInv'
<1>0. RunOK(w) /\ base \in 0..MaxMail /\ faults \in 0..MaxFaults /\ BoxOK
  BY DEF StoreInv, Runs, BoxOK
<1> USE DEF StoreInv, Goto
<1>1. CASE Begin(w)
  <2>1. LocalsOK'
    BY <1>1 DEF Begin, LocalsOK, AccountOK, PCs
  <2>2. AccountOK' /\ Beside(w) /\ RunOK(w)'
    BY <1>1 DEF Begin, LocalsOK, AccountOK, account, Beside, RunOK
  <2> QED
    BY <1>0, <1>1, <2>1, <2>2, QuietStore DEF Begin
<1>2. CASE Connect(w)
  <2>1. LocalsOK'
    BY <1>2 DEF Connect, LocalsOK, PCs
  <2>2. AccountOK'
    BY <1>2 DEF Connect, AccountOK
  <2>3. Beside(w) /\ RunOK(w)'
    BY <1>2 DEF Connect, LocalsOK, Beside, RunOK
  <2> QED
    BY <1>0, <1>2, <2>1, <2>2, <2>3, QuietStore DEF Connect
<1>3. CASE GetProfile(w)
  <2>1. ProfileCursor \in 0..MaxMail /\ arrived \in 0..MaxMail
    BY <1>0, ProfileType DEF BoxOK
  <2>2. LocalsOK'
    BY <1>3, <2>1 DEF GetProfile, LocalsOK, PCs
  <2>3. AccountOK' /\ Beside(w) /\ RunOK(w)'
    BY <1>3 DEF GetProfile, LocalsOK, AccountOK, account, Beside, RunOK
  <2> QED
    BY <1>0, <1>3, <2>2, <2>3, QuietStore DEF GetProfile
<1>4. CASE ListNewest(w)
  <2>1. listMessageIds(InitialBatch) \in SUBSET Mail
    BY <1>0, PresentFacts DEF listMessageIds, NewestFirst
  <2>2. LocalsOK'
    BY <1>4, <2>1 DEF ListNewest, LocalsOK, PCs
  <2>3. AccountOK' /\ Beside(w) /\ RunOK(w)'
    BY <1>4 DEF ListNewest, LocalsOK, AccountOK, account, Beside, RunOK
  <2> QED
    BY <1>0, <1>4, <2>2, <2>3, QuietStore DEF ListNewest
<1>5. CASE ListChanges(w)
  <2> DEFINE page == ListChanged(from[w], token[w])
  <2>1. from[w] \in 0..MaxMail /\ token[w] \in 0..(MaxMail + 1) /\ pc[w] = "changes"
    BY <1>0, <1>5 DEF ListChanges, RunOK, LocalsOK
  <2>2. /\ page.ids \in SUBSET Mail
        /\ page.token \in 0..(MaxMail + 1)
        /\ page.cursor \in {NoCursor} \cup 0..MaxMail
    BY <1>0, <2>1, ListedType
  <2> HIDE DEF page
  <2>3. /\ \/ /\ ids' = [ids EXCEPT ![w] = {}]
              /\ token' = [token EXCEPT ![w] = NoToken]
              /\ pc' = [pc EXCEPT ![w] = "reset"]
              /\ next' = next
           \/ /\ ids' = [ids EXCEPT ![w] = ids[w] \cup page.ids]
              /\ next' = [next EXCEPT ![w] =
                            IF page.cursor # NoCursor THEN page.cursor ELSE next[w]]
              /\ token' = [token EXCEPT ![w] = page.token]
              /\ \E l \in {"changes", "known"} : pc' = [pc EXCEPT ![w] = l]
        /\ UNCHANGED <<mailbox, account, store, from, basis, msg, month, base, faults>>
    <3>1. CASE page.invalid
      BY <1>5, <3>1 DEF ListChanges, page, LocalsOK
    <3>2. CASE ~page.invalid
      BY <1>5, <3>2 DEF ListChanges, page, LocalsOK
    <3> QED
      BY <3>1, <3>2
  <2>4. LocalsOK'
    <3>1. token' \in [Workers -> 0..(MaxMail + 1)]
      <4>1. NoToken \in 0..(MaxMail + 1)
        BY MailSyncAssumption DEF NoToken
      <4> QED
        BY <2>2, <2>3, <4>1 DEF LocalsOK
    <3>2. next' \in [Workers -> {NoCursor} \cup 0..MaxMail]
      BY <2>2, <2>3 DEF LocalsOK
    <3>3. ids' \in [Workers -> SUBSET Mail] /\ pc' \in [Workers -> PCs]
      BY <2>2, <2>3 DEF LocalsOK, PCs
    <3> QED
      BY <2>3, <3>1, <3>2, <3>3 DEF LocalsOK
  <2>5. AccountOK' /\ Beside(w)
    BY <2>3 DEF LocalsOK, AccountOK, account, Beside
  <2>6. RunOK(w)'
    BY <2>1, <2>3 DEF LocalsOK, RunOK, NoCursor
  <2> QED
    BY <1>0, <2>3, <2>4, <2>5, <2>6, QuietStore
<1>6. CASE ResetCursor(w)
  <2>1. LocalsOK'
    BY <1>6 DEF ResetCursor, LocalsOK, PCs
  <2>2. AccountOK' /\ Beside(w) /\ RunOK(w)'
    BY <1>6 DEF ResetCursor, LocalsOK, AccountOK, Beside, RunOK
  <2> QED
    BY <1>0, <1>6, <2>1, <2>2, QuietStore DEF ResetCursor
<1> QED
  BY <1>1, <1>2, <1>3, <1>4, <1>5, <1>6

\* Ingestion: what a run has put stays put, and a row is written only under
\* keys whose objects are there.
LEMMA IngestStore ==
  ASSUME StoreInv, NEW w \in Workers,
         FilterKnown(w) \/ Fetch(w) \/ FindStored(w) \/ PutRaw(w) \/ PutBody(w)
           \/ CreateMessage(w)
  PROVE  StoreInv'
<1>0. RunOK(w) /\ base \in 0..MaxMail /\ faults \in 0..MaxFaults
  BY DEF StoreInv, Runs, BoxOK
<1> USE DEF StoreInv, Goto
<1>1. CASE FilterKnown(w)
  <2>1. NoToken \in 0..(MaxMail + 1)
    BY MailSyncAssumption DEF NoToken
  <2>2. LocalsOK'
    BY <1>1, <2>1 DEF FilterKnown, LocalsOK, PCs
  <2>3. AccountOK' /\ Beside(w) /\ RunOK(w)'
    BY <1>1 DEF FilterKnown, LocalsOK, AccountOK, account, Beside, RunOK
  <2> QED
    BY <1>0, <1>1, <2>2, <2>3, QuietStore DEF FilterKnown
<1>2. CASE Fetch(w)
  <2>1. PICK m \in ids[w] :
          /\ ids' = [ids EXCEPT ![w] = @ \ {m}]
          /\ msg' = [msg EXCEPT ![w] = fetchRawMessage(m)]
          /\ pc' = [pc EXCEPT ![w] = IF fetchRawMessage(m) = NoMail THEN "loop" ELSE "find"]
    BY <1>2 DEF Fetch
  <2>2. m \in Mail /\ fetchRawMessage(m) \in {NoMail, m}
    BY DEF LocalsOK, fetchRawMessage
  <2>3. LocalsOK'
    BY <1>2, <2>1, <2>2 DEF Fetch, LocalsOK, PCs
  <2>4. AccountOK' /\ Beside(w) /\ RunOK(w)'
    BY <1>2, <2>1, <2>2 DEF Fetch, LocalsOK, AccountOK, account, Beside, RunOK
  <2> QED
    BY <1>0, <1>2, <2>3, <2>4, QuietStore DEF Fetch
<1>3. CASE FindStored(w)
  <2>1. MonthsOf(msg[w]) \subseteq Months
    BY MailSyncAssumption DEF MonthsOf
  <2>2. LocalsOK'
    BY <1>3, <2>1 DEF FindStored, LocalsOK, PCs
  <2>3. AccountOK' /\ Beside(w) /\ RunOK(w)'
    BY <1>0, <1>3 DEF FindStored, LocalsOK, AccountOK, account, Beside, RunOK
  <2> QED
    BY <1>0, <1>3, <2>2, <2>3, QuietStore DEF FindStored
<1>4. CASE PutRaw(w)
  <2>1. msg[w] \in Mail /\ month[w] \in Months
    BY <1>0, <1>4 DEF PutRaw, RunOK, LocalsOK
  <2>2. BoxOK' /\ AccountOK' /\ LocalsOK'
    BY <1>4 DEF PutRaw, BoxOK, AccountOK, LocalsOK, PCs, mailbox, account
  <2>3. StoreOK' /\ blobs \subseteq blobs'
    BY <1>4, <2>1 DEF PutRaw, put, buildRawKey, StoreOK
  <2>4. Beside(w) /\ RunOK(w)'
    BY <1>4, <2>1 DEF PutRaw, put, buildRawKey, LocalsOK, Beside, RunOK
  <2> QED
    BY <1>4, <2>2, <2>3, <2>4, StoreFrame DEF PutRaw, mailbox
<1>5. CASE PutBody(w)
  <2>1. msg[w] \in Mail /\ month[w] \in Months
    BY <1>0, <1>5 DEF PutBody, RunOK, LocalsOK
  <2>2. BoxOK' /\ AccountOK' /\ LocalsOK'
    BY <1>5 DEF PutBody, BoxOK, AccountOK, LocalsOK, PCs, mailbox, account
  <2>3. StoreOK' /\ blobs \subseteq blobs'
    BY <1>5, <2>1 DEF PutBody, put, buildBodyKey, StoreOK
  <2>4. Beside(w) /\ RunOK(w)'
    BY <1>0, <1>5, <2>1 DEF PutBody, put, buildRawKey, buildBodyKey, LocalsOK, Beside, RunOK
  <2> QED
    BY <1>5, <2>2, <2>3, <2>4, StoreFrame DEF PutBody, mailbox
<1>6. CASE CreateMessage(w)
  <2>1. msg[w] \in Mail /\ month[w] \in Months /\ 0 \in Months
    BY <1>0, <1>6, MailSyncAssumption DEF CreateMessage, RunOK, LocalsOK
  <2>2. BoxOK' /\ AccountOK' /\ Clock'
    BY <1>6 DEF CreateMessage, BoxOK, AccountOK, Clock, mailbox, account
  <2>3. LocalsOK'
    BY <1>6, <2>1 DEF CreateMessage, LocalsOK, PCs
  <2>4. StoreOK'
    BY <1>6, <2>1 DEF CreateMessage, StoreOK
  <2>5. Runs'
    <3>1. blobs' = blobs /\ Beside(w) /\ RunOK(w)'
      BY <1>6 DEF CreateMessage, LocalsOK, Beside, RunOK
    <3>2. ASSUME NEW u \in Workers, u # w PROVE RunOK(u)'
      BY <3>1, <3>2 DEF Runs, Beside, RunOK, buildRawKey, buildBodyKey
    <3> QED
      BY <3>1, <3>2 DEF Runs
  <2>6. RowsHaveBlobs'
    <3> SUFFICES ASSUME NEW m \in Mail, row'[m] # NoRow
                 PROVE  /\ buildRawKey(m, row'[m]) \in blobs
                        /\ m \in WithText => buildBodyKey(m, row'[m]) \in blobs
      BY <1>6 DEF RowsHaveBlobs, Stored, CreateMessage, buildRawKey, buildBodyKey
    <3>1. CASE row[m] = NoRow
      <4>1. m = msg[w] /\ row'[m] = month[w]
        BY <1>6, <3>1 DEF CreateMessage, StoreOK
      <4> QED
        BY <1>0, <1>6, <4>1 DEF CreateMessage, RunOK
    <3>2. CASE row[m] # NoRow
      <4>1. row'[m] = row[m]
        BY <1>6, <3>2 DEF CreateMessage, StoreOK
      <4> QED
        BY <3>2, <4>1 DEF RowsHaveBlobs, Stored
    <3> QED
      BY <3>1, <3>2
  <2> QED
    BY <2>2, <2>3, <2>4, <2>5, <2>6
<1> QED
  BY <1>1, <1>2, <1>3, <1>4, <1>5, <1>6

\* The ways a run ends.
LEMMA EndingStore ==
  ASSUME StoreInv, NEW w \in Workers,
         WriteCursor(w) \/ RecordSuccess(w) \/ RecordFailure(w) \/ ConnectRevoked(w)
           \/ CallFails(w) \/ Crash(w)
  PROVE  StoreInv'
<1>0. base \in 0..MaxMail /\ faults \in 0..MaxFaults /\ MaxMail \in Nat /\ MaxFaults \in Nat
  BY MailSyncAssumption DEF StoreInv, BoxOK
<1> USE DEF StoreInv
<1>1. CASE WriteCursor(w)
  <2>1. base' \in 0..MaxMail
    <3>1. basis[w] \in 0..MaxMail
      BY DEF LocalsOK
    <3>2. Max({base, basis[w]}) \in {base, basis[w]}
      BY <1>0, <3>1, MaxOfTwo
    <3> QED
      BY <1>0, <1>1, <3>1, <3>2 DEF WriteCursor
  <2>2. LocalsOK' /\ AccountOK'
    BY <1>1 DEF WriteCursor, LoopEnds, LocalsOK, AccountOK, Goto, PCs
  <2>3. Beside(w) /\ RunOK(w)'
    BY <1>1 DEF WriteCursor, LocalsOK, Beside, RunOK, Goto
  <2> QED
    BY <1>0, <1>1, <2>1, <2>2, <2>3, QuietStore DEF WriteCursor
<1>2. CASE RecordSuccess(w) \/ RecordFailure(w)
  <2>1. AccountOK'
    BY <1>2 DEF RecordSuccess, RecordFailure, AccountOK
  <2> QED
    BY <1>0, <1>2, <2>1, FinishStore DEF RecordSuccess, RecordFailure
<1>3. CASE Crash(w)
  <2>1. AccountOK'
    BY <1>3 DEF Crash, AccountOK, account
  <2>2. faults' \in 0..MaxFaults
    BY <1>0, <1>3 DEF Crash
  <2> QED
    BY <1>3, <2>1, <2>2, FinishStore DEF Crash
<1>4. CASE ConnectRevoked(w) \/ CallFails(w)
  <2>1. AccountOK'
    BY <1>4 DEF ConnectRevoked, CallFails, AccountOK, account
  <2>2. faults' \in 0..MaxFaults
    BY <1>0, <1>4 DEF ConnectRevoked, CallFails
  <2>3. LocalsOK'
    BY <1>4 DEF ConnectRevoked, CallFails, LocalsOK, Goto, PCs
  <2>4. Beside(w) /\ RunOK(w)'
    BY <1>4 DEF ConnectRevoked, CallFails, LocalsOK, Beside, RunOK, Goto
  <2> QED
    BY <1>0, <1>4, <2>1, <2>2, <2>3, <2>4, QuietStore DEF ConnectRevoked, CallFails
<1> QED
  BY <1>1, <1>2, <1>3, <1>4

LEMMA InitStoreInv == Init => StoreInv
<1> SUFFICES ASSUME Init PROVE StoreInv
  OBVIOUS
<1> USE MailSyncAssumption DEF Init
<1>1. BoxOK
  BY DEF BoxOK
<1>2. AccountOK /\ StoreOK
  BY DEF AccountOK, StoreOK
<1>3. LocalsOK
  BY DEF LocalsOK, PCs
<1>4. Clock /\ Runs /\ RowsHaveBlobs
  BY DEF Clock, Mail, Runs, RunOK, RowsHaveBlobs, Stored
<1> QED
  BY <1>1, <1>2, <1>3, <1>4 DEF StoreInv

LEMMA NextStoreInv == StoreInv /\ [Next]_vars => StoreInv'
<1> SUFFICES ASSUME StoreInv, [Next]_vars PROVE StoreInv'
  OBVIOUS
<1>1. CASE UNCHANGED vars
  <2> USE <1>1 DEF vars, mailbox, account, store, locals, StoreInv
  <2>1. BoxOK' /\ AccountOK' /\ StoreOK' /\ LocalsOK' /\ Clock'
    BY DEF BoxOK, AccountOK, StoreOK, LocalsOK, Clock
  <2>2. Runs' /\ RowsHaveBlobs'
    BY DEF Runs, RunOK, RowsHaveBlobs, Stored, buildRawKey, buildBodyKey
  <2> QED
    BY <2>1, <2>2
<1>2. CASE Next
  BY <1>2, WorldStore, ListingStore, IngestStore, EndingStore DEF Next, Run
<1> QED
  BY <1>1, <1>2

-----------------------------------------------------------------------------
\* The strengthened invariant of the store.
THEOREM StoreInvariant == Spec => []StoreInv
  BY InitStoreInv, NextStoreInv, PTL DEF Spec

\* Type correctness: no listing leaves the mailbox, no page token points beyond
\* the position after its last message, no cursor is ahead of the clock.
THEOREM SyncTypeCorrect == Spec => []TypeOK
<1>1. StoreInv => TypeOK
  BY TypeParts DEF StoreInv
<1> QED
  BY <1>1, StoreInvariant, PTL

\* Blob first, pointer second: for any number of concurrent runs, crashes and
\* failed calls, both objects a stored row names exist.
THEOREM StoredRowsHaveBlobs == Spec => []RowsHaveBlobs
<1>1. StoreInv => RowsHaveBlobs
  BY DEF StoreInv
<1> QED
  BY <1>1, StoreInvariant, PTL

-----------------------------------------------------------------------------
(* No gap *)

\* An incremental sync from cursor k does not list m.
Behind(k, m) == IF Provider = "GMAIL" THEN m <= k ELSE received[m] < k

\* What an incremental sync from cursor k has to list now.
Since(k) == {m \in 1..arrived : ~Behind(k, m)}

\* While a run lists, no more messages have arrived since the cursor it started
\* from than one run may list.  The mailbox itself may hold any number.
RunsFit ==
  \A w \in Workers :
    pc[w] = "changes" => Cardinality(Since(from[w])) <= MaxIdsPerRun

\* Zoho's page is at least as large as the cap (both are 200 in the code), so a
\* run takes one page: deletions between two pages shift no offset.
OneZohoPage == Provider = "ZOHO" => MaxIdsPerRun <= PageSize

Settled(m) == m \in Stored \/ m \in removed

Covered(k) == \A m \in 1..arrived : m > base /\ Behind(k, m) => Settled(m)

\* The cursor the provider would answer with now: nothing that arrives later is
\* behind a cursor that is not above it.
Newest == IF Provider = "GMAIL" \/ arrived = 0 THEN arrived ELSE received[arrived]

Ordered == \A m, n \in 1..arrived : m <= n => received[m] <= received[n]

Ingesting == {"find", "putRaw", "putBody", "create"}
Fetching  == {"known", "loop"} \cup Ingesting

\* What a run still has in hand.
InHand(w, m) == m \in ids[w] \/ (pc[w] \in Ingesting /\ m = msg[w])

\* Both cursors of a run have been reached, and everything behind the first is
\* settled.
RunReached(w) ==
  /\ from[w] <= Newest /\ next[w] <= Newest /\ basis[w] <= arrived
  /\ Covered(from[w])

\* How far a run has come before it fetches: it has taken no page, or exactly the
\* messages from its cursor up to the page token.
RunListing(w) ==
  /\ pc[w] \in {"idle", "connect"} => token[w] = NoToken /\ ids[w] = {}
  /\ pc[w] = "connect" => next[w] = from[w]
  /\ pc[w] \in {"profile", "list"} => from[w] = NoCursor
  /\ pc[w] = "changes" =>
       \/ token[w] = NoToken /\ next[w] = from[w] /\ ids[w] = {}
       \/ /\ Provider = "GMAIL" /\ from[w] <= token[w] /\ token[w] <= arrived
          /\ ids[w] = (from[w] + 1)..token[w]

\* A baseline is about to leave out what is up to basis, and nothing else.
RunBaseline(w) ==
  pc[w] \in Fetching \cup {"list"} /\ from[w] = NoCursor =>
    \A m \in 1..arrived : m > basis[w] => ~Behind(next[w], m)

\* An incremental run is about to pass only what is settled or in its hands.
RunCollected(w) ==
  pc[w] \in Fetching /\ from[w] # NoCursor =>
    \A m \in 1..arrived :
      Behind(next[w], m) /\ ~Behind(from[w], m) => Settled(m) \/ InHand(w, m)

RunGap(w) == RunReached(w) /\ RunListing(w) /\ RunBaseline(w) /\ RunCollected(w)

GapInv ==
  /\ Ordered /\ cursor <= Newest /\ Covered(cursor)
  /\ \A w \in Workers : RunGap(w)

Cursors == {NoCursor} \cup 0..MaxMail

\* What no step undoes: baselines, rows, deletions, and the order of arrival.
Grows ==
  /\ base <= base' /\ base' \in Nat
  /\ \A m \in Mail : row[m] # NoRow => row'[m] # NoRow
  /\ removed \subseteq removed'
  /\ MailArrives \/ UNCHANGED <<arrived, received>>

\* Every cursor reached so far stays reached, and stays ahead of the same messages.
LEMMA Growth ==
  ASSUME StoreInv, StoreInv', Ordered, Grows
  PROVE  /\ Ordered'
         /\ arrived <= arrived' /\ arrived \in Nat /\ arrived' \in Nat /\ Newest <= Newest'
         /\ Newest \in Nat /\ Newest' \in Nat
         /\ \A k \in Cursors : k <= Newest =>
              \A m \in 1..arrived' :
                 IF m \in 1..arrived
                   THEN (IF Provider = "GMAIL" THEN m <= k ELSE received'[m] < k)
                          <=> Behind(k, m)
                   ELSE ~(IF Provider = "GMAIL" THEN m <= k ELSE received'[m] < k)
<1>1. /\ arrived \in Nat /\ arrived' \in Nat /\ MaxMail \in Nat
      /\ arrived <= MaxMail /\ arrived' <= MaxMail
      /\ \A m \in 1..arrived : m \in Mail /\ received[m] \in Nat
      /\ \A m \in 1..arrived' : m \in Mail /\ received'[m] \in Nat
  BY MailSyncAssumption DEF StoreInv, BoxOK, Mail
<1>2. Newest \in Nat /\ Newest' \in Nat
  BY <1>1 DEF Newest
<1>3. CASE UNCHANGED <<arrived, received>>
  <2>1. Ordered' /\ Newest' = Newest
    BY <1>3 DEF Ordered, Newest
  <2> QED
    BY <1>1, <1>2, <1>3, <2>1 DEF Behind
<1>4. CASE MailArrives
  <2>1. /\ arrived' = arrived + 1 /\ arrived + 1 \in Mail
        /\ \A m \in 1..arrived : received'[m] = received[m]
        /\ arrived # 0 => received'[arrived + 1] >= received[arrived]
    <3>1. arrived' = arrived + 1 /\ arrived + 1 \in Mail
      BY <1>1, <1>4 DEF MailArrives, Mail
    <3>2. PICK t : /\ received' = [received EXCEPT ![arrived + 1] = t]
                   /\ t \in IF arrived = 0 THEN {1}
                            ELSE {received[arrived], received[arrived] + 1}
      BY <1>4 DEF MailArrives
    <3>3. \A m \in 1..arrived : received'[m] = received[m]
      BY <1>1, <3>2 DEF StoreInv, BoxOK
    <3>4. received'[arrived + 1] = t
      BY <3>1, <3>2 DEF StoreInv, BoxOK
    <3>5. arrived # 0 => received[arrived] \in Nat
      BY <1>1
    <3> QED
      BY <3>1, <3>2, <3>3, <3>4, <3>5
  <2>2. \A m \in 1..arrived : received[m] <= received'[arrived + 1]
    <3>1. SUFFICES ASSUME NEW m \in 1..arrived PROVE received[m] <= received'[arrived + 1]
      OBVIOUS
    <3>2. arrived # 0 /\ arrived \in 1..arrived /\ m <= arrived
      BY <1>1
    <3>3. received[m] <= received[arrived]
      BY <3>2 DEF Ordered
    <3>4. received[m] \in Nat /\ received[arrived] \in Nat /\ received'[arrived + 1] \in Nat
      BY <1>1, <2>1, <3>2
    <3> QED
      BY <2>1, <3>2, <3>3, <3>4
  <2>3. Ordered'
    <3> SUFFICES ASSUME NEW m \in 1..arrived', NEW n \in 1..arrived', m <= n
                 PROVE  received'[m] <= received'[n]
      BY DEF Ordered
    <3>1. CASE n = arrived + 1 /\ m = arrived + 1
      BY <1>1, <3>1
    <3>2. CASE n = arrived + 1 /\ m \in 1..arrived
      BY <2>1, <2>2, <3>2
    <3>3. CASE n \in 1..arrived /\ m \in 1..arrived
      BY <2>1, <3>3 DEF Ordered
    <3> QED
      BY <1>1, <2>1, <3>1, <3>2, <3>3
  <2>4. Newest <= Newest' /\ \A m \in 1..arrived' : m \notin 1..arrived => m = arrived + 1
    BY <1>1, <2>1 DEF Newest
  <2>5. ASSUME NEW k \in Cursors, k <= Newest
        PROVE  ~(IF Provider = "GMAIL" THEN arrived + 1 <= k ELSE received'[arrived + 1] < k)
    <3>1. k \in Int
      BY <1>1 DEF Cursors, NoCursor
    <3>2. received'[arrived + 1] \in Nat
      BY <1>1, <2>1
    <3>3. CASE Provider = "GMAIL"
      BY <1>1, <2>5, <3>1, <3>3 DEF Newest
    <3>4. CASE Provider # "GMAIL" /\ arrived = 0
      BY <2>5, <3>1, <3>2, <3>4 DEF Newest
    <3>5. CASE Provider # "GMAIL" /\ arrived # 0
      <4>1. k <= received[arrived] /\ received[arrived] \in Nat
        BY <1>1, <2>5, <3>5 DEF Newest
      <4> QED
        BY <2>1, <3>1, <3>2, <3>5, <4>1
    <3> QED
      BY <3>3, <3>4, <3>5
  <2>6. arrived <= arrived'
    BY <1>1, <2>1
  <2>7. ASSUME NEW k \in Cursors, k <= Newest, NEW m \in 1..arrived'
        PROVE  IF m \in 1..arrived
                 THEN (IF Provider = "GMAIL" THEN m <= k ELSE received'[m] < k)
                        <=> Behind(k, m)
                 ELSE ~(IF Provider = "GMAIL" THEN m <= k ELSE received'[m] < k)
    <3>1. CASE m \in 1..arrived
      BY <2>1, <3>1 DEF Behind
    <3>2. CASE m \notin 1..arrived
      BY <2>4, <2>5, <2>7, <3>2
    <3> QED
      BY <3>1, <3>2
  <2> QED
    BY <1>1, <1>2, <2>3, <2>4, <2>6, <2>7
<1> QED
  BY <1>3, <1>4 DEF Grows

LEMMA SettledStays ==
  ASSUME Grows, NEW m \in Mail, Settled(m)
  PROVE  Settled(m)'
  BY DEF Grows, Settled, Stored

\* A run that does not move in this step.
Rests(u) ==
  /\ pc'[u] = pc[u] /\ from'[u] = from[u] /\ token'[u] = token[u] /\ ids'[u] = ids[u]
  /\ next'[u] = next[u] /\ basis'[u] = basis[u] /\ msg'[u] = msg[u]

LEMMA CoveredStays ==
  ASSUME StoreInv, StoreInv', Ordered, Grows,
         NEW k \in Cursors, k <= Newest, Covered(k)
  PROVE  /\ k <= Newest'
         /\ \A m \in 1..arrived' :
              m > base' /\ (IF Provider = "GMAIL" THEN m <= k ELSE received'[m] < k)
                => Settled(m)'
<1>1. k <= Newest'
  <2>1. k \in Int
    BY MailSyncAssumption DEF Cursors, NoCursor
  <2> QED
    BY <2>1, Growth
<1>2. SUFFICES ASSUME NEW m \in 1..arrived', m > base',
                      IF Provider = "GMAIL" THEN m <= k ELSE received'[m] < k
               PROVE  Settled(m)'
  BY <1>1
<1>3. m \in 1..arrived /\ Behind(k, m)
  BY <1>2, Growth
<1>4. m > base /\ m \in Mail
  BY <1>2, <1>3, MailSyncAssumption DEF Grows, StoreInv, BoxOK, Mail
<1> QED
  BY <1>3, <1>4, SettledStays DEF Covered

LEMMA RestingRun ==
  ASSUME StoreInv, StoreInv', Ordered, Grows, NEW u \in Workers, Rests(u), RunGap(u)
  PROVE  RunGap(u)'
<1>0. from[u] \in Cursors /\ next[u] \in Cursors /\ basis[u] \in Nat /\ token[u] \in Nat
  BY MailSyncAssumption DEF StoreInv, LocalsOK, Cursors
<1>1. RunReached(u)'
  <2>1. from[u] <= Newest' /\ next[u] <= Newest' /\ basis[u] <= arrived'
    <3>1. from[u] \in Int /\ next[u] \in Int
      BY <1>0, MailSyncAssumption DEF Cursors, NoCursor
    <3> QED
      BY <1>0, <3>1, Growth DEF RunGap, RunReached
  <2>2. Covered(from[u])'
    BY <1>0, CoveredStays DEF RunGap, RunReached, Rests, Covered, Behind
  <2> QED
    BY <2>1, <2>2 DEF Rests, RunReached
<1>2. RunListing(u)'
  <2> USE DEF RunListing, Rests, RunGap
  <2>1. CASE pc[u] # "changes"
    BY <2>1
  <2>2. CASE pc[u] = "changes" /\ token[u] = NoToken /\ next[u] = from[u] /\ ids[u] = {}
    BY <2>2
  <2>3. CASE /\ pc[u] = "changes" /\ Provider = "GMAIL" /\ from[u] <= token[u]
             /\ token[u] <= arrived /\ ids[u] = (from[u] + 1)..token[u]
    <3>1. token[u] <= arrived'
      BY <1>0, <2>3, Growth
    <3> QED
      BY <2>3, <3>1
  <2> QED
    BY <2>1, <2>2, <2>3
<1>3. RunBaseline(u)'
  <2> SUFFICES ASSUME pc[u] \in Fetching \cup {"list"}, from[u] = NoCursor,
                      NEW m \in 1..arrived', m > basis[u]
               PROVE  ~(IF Provider = "GMAIL" THEN m <= next[u] ELSE received'[m] < next[u])
    BY DEF RunBaseline, Rests, Behind
  <2>1. next[u] <= Newest
    BY DEF RunGap, RunReached
  <2>2. CASE m \in 1..arrived
    BY <1>0, <2>1, <2>2, Growth DEF RunGap, RunBaseline
  <2>3. CASE m \notin 1..arrived
    BY <1>0, <2>1, <2>3, Growth
  <2> QED
    BY <2>2, <2>3
<1>4. RunCollected(u)'
  <2>1. SUFFICES ASSUME pc[u] \in Fetching, from[u] # NoCursor,
                      NEW m \in 1..arrived',
                      IF Provider = "GMAIL" THEN m <= next[u] ELSE received'[m] < next[u],
                      ~(IF Provider = "GMAIL" THEN m <= from[u] ELSE received'[m] < from[u])
               PROVE  Settled(m)' \/ InHand(u, m)'
    BY DEF RunCollected, Rests, Behind
  <2>2. next[u] <= Newest /\ from[u] <= Newest
    BY DEF RunGap, RunReached
  <2>3. m \in 1..arrived /\ Behind(next[u], m) /\ ~Behind(from[u], m)
    <3>1. m \in 1..arrived
      BY <1>0, <2>1, <2>2, Growth
    <3> QED
      BY <1>0, <2>1, <2>2, <3>1, Growth
  <2>4. m \in Mail
    BY <2>3, MailSyncAssumption DEF StoreInv, BoxOK, Mail
  <2>5. Settled(m) \/ InHand(u, m)
    BY <2>1, <2>3 DEF RunGap, RunCollected
  <2> QED
    BY <2>4, <2>5, SettledStays DEF InHand, Rests
<1> QED
  BY <1>1, <1>2, <1>3, <1>4 DEF RunGap

\* A step of one run: only that run and the account's cursor need an argument.
LEMMA OneRunGap ==
  ASSUME StoreInv, StoreInv', GapInv, Grows, NEW w \in Workers,
         \A u \in Workers : u # w => Rests(u),
         RunGap(w)',
         cursor' = cursor \/ (cursor' <= Newest' /\ Covered(cursor)')
  PROVE  GapInv'
<1>1. Ordered' /\ \A u \in Workers : RunGap(u)'
  BY Growth, RestingRun DEF GapInv
<1>2. cursor' <= Newest' /\ Covered(cursor)'
  <2>1. CASE cursor' = cursor
    <3>1. cursor \in Cursors
      BY DEF StoreInv, AccountOK, Cursors
    <3> QED
      BY <2>1, <3>1, CoveredStays DEF GapInv, Covered, Behind
  <2> QED
    BY <2>1
<1> QED
  BY <1>1, <1>2 DEF GapInv

LEMMA WorldGap ==
  ASSUME StoreInv, StoreInv', GapInv,
         MailArrives \/ (\E m \in Mail : MailRemoved(m)) \/ HistoryExpires \/ Reconnect
  PROVE  GapInv'
<1>0. base \in Nat
  BY MailSyncAssumption DEF StoreInv, BoxOK
<1>1. UNCHANGED <<base, cursor, row, locals>>
  BY DEF MailArrives, MailRemoved, HistoryExpires, Reconnect, store, account
<1>2. removed \subseteq removed' /\ (MailArrives \/ UNCHANGED <<arrived, received>>)
  BY DEF MailArrives, MailRemoved, HistoryExpires, Reconnect, mailbox
<1>3. Grows
  BY <1>0, <1>1, <1>2 DEF Grows
<1>4. \A u \in Workers : Rests(u)
  BY <1>1 DEF Rests, locals
<1>5. Ordered' /\ \A u \in Workers : RunGap(u)'
  BY <1>3, <1>4, Growth, RestingRun DEF GapInv
<1>6. cursor \in Cursors
  BY DEF StoreInv, AccountOK, Cursors
<1>7. cursor' <= Newest' /\ Covered(cursor)'
  BY <1>1, <1>3, <1>6, CoveredStays DEF GapInv, Covered, Behind
<1> QED
  BY <1>5, <1>7 DEF GapInv

\* The variables the four parts of RunGap read besides the run's own.
World == <<arrived, received, removed, row, base>>

\* A step of one run that changes nothing but its locals and the account's errors.
LEMMA QuietGap ==
  ASSUME StoreInv, StoreInv', GapInv, NEW w \in Workers, UNCHANGED <<World, cursor>>,
         \A u \in Workers : u # w => Rests(u), RunGap(w)'
  PROVE  GapInv'
<1>1. Grows
  <2>1. base \in Nat
    BY MailSyncAssumption DEF StoreInv, BoxOK
  <2> QED
    BY <2>1 DEF Grows, World
<1> QED
  BY <1>1, OneRunGap DEF World

\* The end of a run.
LEMMA FinishGap ==
  ASSUME StoreInv, StoreInv', GapInv, NEW w \in Workers, Finish(w),
         UNCHANGED <<World, cursor>>
  PROVE  GapInv'
<1>1. \A u \in Workers : u # w => Rests(u)
  BY DEF StoreInv, LocalsOK, Finish, Goto, Rests
<1>2. /\ pc'[w] = "idle" /\ from'[w] = NoCursor /\ next'[w] = NoCursor
      /\ token'[w] = NoToken /\ ids'[w] = {} /\ basis'[w] = 0
  BY DEF StoreInv, LocalsOK, Finish, Goto
<1>3. arrived' \in Nat /\ Newest' \in Nat
  <2>1. base \in Nat
    BY MailSyncAssumption DEF StoreInv, BoxOK
  <2>2. Grows
    BY <2>1 DEF Grows, World
  <2> QED
    BY <2>2, Growth DEF GapInv
<1>4. \A m \in 1..arrived' : ~Behind(NoCursor, m)'
  BY <1>3, MailSyncAssumption DEF Behind, NoCursor, StoreInv, BoxOK, Mail
<1>5. RunReached(w)'
  BY <1>2, <1>3, <1>4 DEF RunReached, Covered, NoCursor, Behind
<1>6. RunListing(w)' /\ RunBaseline(w)' /\ RunCollected(w)'
  BY <1>2 DEF RunListing, RunBaseline, RunCollected, Fetching, Ingesting
<1> QED
  BY <1>1, <1>5, <1>6, QuietGap DEF RunGap

\* The messages an incremental sync has to list are finitely many.
LEMMA SinceFinite ==
  ASSUME BoxOK, NEW k
  PROVE  IsFiniteSet(Since(k)) /\ Cardinality(Since(k)) \in Nat
<1>1. IsFiniteSet(1..arrived)
  BY PresentFacts, FS_Interval
<1> QED
  BY <1>1, FS_Subset, FS_CardinalityType DEF Since

\* Zoho's first page holds every message of the mailbox since the cursor: one it
\* left out would have a page of newer ones before it.
LEMMA FirstPageHoldsTheNew ==
  ASSUME BoxOK, Ordered, OneZohoPage, Provider = "ZOHO", NEW k \in 0..MaxMail,
         Cardinality(Since(k)) <= MaxIdsPerRun,
         NEW m \in Present, received[m] >= k
  PROVE  m \in NewestFirst(1, PageSize)
<1> DEFINE newer == {n \in Present : n >= m}
<1>1. /\ arrived \in Nat /\ PageSize \in Nat /\ MaxIdsPerRun \in Nat
      /\ MaxIdsPerRun <= PageSize /\ k \in Nat
  BY PresentFacts, MailSyncAssumption DEF OneZohoPage
<1>2. newer \subseteq Since(k)
  <2> SUFFICES ASSUME NEW n \in newer PROVE n \in 1..arrived /\ ~Behind(k, n)
    BY DEF Since
  <2>1. n \in 1..arrived /\ m \in 1..arrived /\ m <= n
    BY <1>1 DEF Present
  <2>2. received[n] \in Nat /\ received[m] \in Nat /\ received[m] <= received[n]
    BY <1>1, <2>1, PresentFacts DEF Ordered, BoxOK, Mail
  <2> QED
    BY <1>1, <2>1, <2>2 DEF Behind
<1>3. m \in newer
  BY PresentFacts
<1>4. IsFiniteSet(newer) /\ Cardinality(newer) <= Cardinality(Since(k))
  BY <1>2, SinceFinite, FS_Subset
<1>5. Cardinality(newer) \in Nat /\ Cardinality(newer) # 0
  BY <1>3, <1>4, FS_CardinalityType, FS_EmptySet
<1>6. Cardinality(newer) \in 1..(1 + PageSize - 1)
  BY <1>1, <1>4, <1>5, SinceFinite
<1> QED
  BY <1>6 DEF NewestFirst

\* No received time is after the newest message's.
LEMMA ReceivedReached ==
  ASSUME StoreInv, Ordered, Provider # "GMAIL", NEW m \in Present
  PROVE  received[m] <= Newest
<1>1. arrived \in Nat /\ m \in 1..arrived
  BY PresentFacts DEF StoreInv, Present
<1>2. arrived # 0 /\ arrived \in 1..arrived /\ m <= arrived
  BY <1>1
<1> QED
  BY <1>1, <1>2 DEF Ordered, Newest

LEMMA ProfileReached ==
  ASSUME StoreInv, Ordered
  PROVE  ProfileCursor <= Newest
<1>1. arrived \in Nat
  BY PresentFacts DEF StoreInv
<1>2. CASE Provider = "GMAIL"
  BY <1>1, <1>2 DEF ProfileCursor, GmailProfile, Newest
<1>3. CASE Provider # "GMAIL" /\ Present = {}
  <2>1. Newest \in Nat
    <3>1. arrived # 0 => arrived \in Mail
      BY <1>1, PresentFacts DEF StoreInv, Mail
    <3> QED
      BY <1>1, <3>1 DEF StoreInv, BoxOK, Newest
  <2> QED
    BY <1>3, <2>1 DEF ProfileCursor, ZohoProfile
<1>4. CASE Provider # "GMAIL" /\ Present # {}
  <2>1. Max(Present) \in Present
    BY <1>4, PresentFacts, MaxOfFinite DEF StoreInv
  <2> QED
    BY <1>4, <2>1, ReceivedReached DEF ProfileCursor, ZohoProfile
<1> QED
  BY <1>2, <1>3, <1>4

\* What a turn of the loop over the pages leaves behind.  Whichever page ends it,
\* the run holds everything between the two cursors; if it goes on, exactly what
\* lies between its cursor and the token.
LEMMA PageCollected ==
  ASSUME RunsFit, OneZohoPage, StoreInv, GapInv, NEW w \in Workers, pc[w] = "changes"
  PROVE  LET page == ListChanged(from[w], token[w])
             got  == ids[w] \cup page.ids
             nxt  == IF page.cursor # NoCursor THEN page.cursor ELSE next[w]
         IN  /\ nxt <= Newest
             /\ page.token # NoToken /\ Cardinality(got) < MaxIdsPerRun =>
                  /\ Provider = "GMAIL" /\ from[w] <= page.token /\ page.token <= arrived
                  /\ got = (from[w] + 1)..page.token
             /\ ~(page.token # NoToken /\ Cardinality(got) < MaxIdsPerRun) =>
                  \A m \in 1..arrived :
                    Behind(nxt, m) /\ ~Behind(from[w], m) => m \in removed \/ m \in got
<1> DEFINE page == ListChanged(from[w], token[w])
           got  == ids[w] \cup page.ids
           nxt  == IF page.cursor # NoCursor THEN page.cursor ELSE next[w]
<1>0. /\ BoxOK /\ from[w] \in 0..MaxMail /\ token[w] \in 0..(MaxMail + 1)
      /\ ids[w] \in SUBSET Mail
  BY DEF StoreInv, Runs, RunOK, LocalsOK
<1>1. /\ arrived \in Nat /\ MaxMail \in Nat /\ arrived <= MaxMail /\ from[w] \in Nat
      /\ MaxIdsPerRun \in Nat /\ PageSize \in Nat \ {0}
  BY <1>0, PresentFacts, MailSyncAssumption
<1>2. /\ IsFiniteSet(Since(from[w])) /\ Cardinality(Since(from[w])) \in Nat
      /\ Cardinality(Since(from[w])) <= MaxIdsPerRun
  BY <1>0, SinceFinite DEF RunsFit
<1>3. got \in SUBSET Mail
  BY <1>0, ListedType
<1>4. IsFiniteSet(got) /\ Cardinality(got) \in Nat
  <2>1. IsFiniteSet(Mail)
    BY <1>1, FS_Interval DEF Mail
  <2> QED
    BY <1>3, <2>1, FS_Subset, FS_CardinalityType
<1>6. (1..arrived) \subseteq Mail
  BY <1>1 DEF Mail
<1>7. next[w] <= Newest
  BY DEF GapInv, RunGap, RunReached
<1>8. RunListing(w)
  BY DEF GapInv, RunGap
<1>9. CASE Provider = "GMAIL"
  <2> DEFINE after == IF token[w] = NoToken THEN from[w] ELSE token[w]
  <2>1. page = GmailChanges(from[w], token[w])
    BY <1>9 DEF ListChanged
  <2>2. /\ page.token \in 0..MaxMail /\ page.cursor = arrived
        /\ page.token # NoToken => /\ page.token = after + PageSize /\ page.token < arrived
                                   /\ page.ids = (after + 1)..page.token
        /\ page.token = NoToken => \A m \in (after + 1)..arrived : m \in page.ids
    BY <1>0, <2>1, GmailPage
  <2>3. after \in Nat /\ from[w] <= after /\ ids[w] = (from[w] + 1)..after
    <3>1. CASE token[w] = NoToken /\ ids[w] = {}
      BY <1>1, <3>1
    <3>2. CASE token[w] # NoToken
      BY <1>0, <1>1, <1>8, <3>2 DEF RunListing
    <3>3. CASE from[w] <= token[w] /\ token[w] = NoToken /\ ids[w] = (from[w] + 1)..token[w]
      BY <1>1, <3>3 DEF NoToken
    <3> QED
      BY <1>8, <3>1, <3>2, <3>3 DEF RunListing
  <2> HIDE DEF after
  <2>4. nxt = arrived /\ nxt <= Newest
    <3>1. arrived # NoCursor
      BY <1>1 DEF NoCursor
    <3> QED
      BY <1>1, <1>9, <2>2, <3>1 DEF Newest
  <2>5. ASSUME page.token # NoToken
        PROVE  /\ from[w] <= page.token /\ page.token <= arrived
               /\ got = (from[w] + 1)..page.token
    BY <1>1, <2>2, <2>3, <2>5
  <2>6. ASSUME page.token = NoToken, NEW m \in 1..arrived, m > from[w] PROVE m \in got
    <3>1. CASE m <= after
      BY <1>1, <2>3, <2>6, <3>1
    <3>2. CASE ~(m <= after)
      BY <1>1, <2>2, <2>3, <2>6, <3>2
    <3> QED
      BY <3>1, <3>2
  <2> HIDE DEF page, got, nxt
  \* A run that stops at the cap holds as many messages as have arrived since its
  \* cursor, so it holds all of them.
  <2>7. ASSUME page.token # NoToken, ~(Cardinality(got) < MaxIdsPerRun)
        PROVE  got = Since(from[w])
    <3>1. got \subseteq Since(from[w])
      BY <1>1, <1>9, <2>2, <2>5, <2>7 DEF Since, Behind
    <3>2. Cardinality(got) <= Cardinality(Since(from[w]))
      BY <1>2, <3>1, FS_Subset
    <3>3. Cardinality(got) = Cardinality(Since(from[w]))
      BY <1>1, <1>2, <1>4, <2>7, <3>2
    <3> QED
      BY <1>2, <3>1, <3>3, FS_Subset
  <2>8. ASSUME ~(page.token # NoToken /\ Cardinality(got) < MaxIdsPerRun),
               NEW m \in 1..arrived, ~Behind(from[w], m)
        PROVE  m \in got
    <3>1. CASE page.token = NoToken
      <4>1. m > from[w]
        BY <1>1, <1>9, <2>8 DEF Behind
      <4> QED
        BY <2>6, <3>1, <4>1
    <3>2. CASE page.token # NoToken
      BY <2>7, <2>8, <3>2 DEF Since
    <3> QED
      BY <3>1, <3>2
  <2>9. /\ page.token # NoToken /\ Cardinality(got) < MaxIdsPerRun =>
             /\ Provider = "GMAIL" /\ from[w] <= page.token /\ page.token <= arrived
             /\ got = (from[w] + 1)..page.token
        /\ ~(page.token # NoToken /\ Cardinality(got) < MaxIdsPerRun) =>
             \A m \in 1..arrived :
               Behind(nxt, m) /\ ~Behind(from[w], m) => m \in removed \/ m \in got
    BY <1>9, <2>5, <2>8
  <2> QED
    BY <2>4, <2>9 DEF page, got, nxt
<1>10. CASE Provider # "GMAIL"
  <2> DEFINE first == NewestFirst(1, PageSize)
             fresh == ZohoFresh(from[w], first)
  <2>0. Provider = "ZOHO" /\ Ordered
    BY <1>10, MailSyncAssumption DEF GapInv
  <2>1. token[w] = NoToken /\ next[w] = from[w]
    BY <1>8, <1>10 DEF RunListing
  <2>2. first \in SUBSET Present /\ IsFiniteSet(first)
    <3>1. first \in SUBSET Present
      BY DEF NewestFirst
    <3> QED
      BY <1>0, <3>1, PresentFacts, FS_Subset
  <2>3. page = [invalid |-> FALSE, ids |-> fresh,
                token   |-> IF fresh = first /\ Cardinality(first) = PageSize
                              THEN 1 + PageSize ELSE NoToken,
                cursor  |-> IF first # {} THEN received[Max(first)] ELSE NoCursor]
    BY <1>10, <2>1 DEF ListChanged, ZohoChanges
  <2> HIDE DEF page, first
  <2>4. page.token # NoToken => Cardinality(got) >= MaxIdsPerRun
    <3> SUFFICES ASSUME page.token # NoToken PROVE Cardinality(got) >= MaxIdsPerRun
      OBVIOUS
    <3>1. fresh = first /\ Cardinality(first) = PageSize /\ first \subseteq got
      BY <2>3
    <3>2. Cardinality(first) <= Cardinality(got)
      BY <1>4, <3>1, FS_Subset
    <3> QED
      BY <1>1, <1>4, <2>0, <3>1, <3>2 DEF OneZohoPage
  <2>5. nxt <= Newest
    <3>1. CASE first = {}
      BY <1>7, <2>1, <2>3, <3>1
    <3>2. CASE first # {}
      <4>1. first \in SUBSET Int
        BY <1>0, <2>2, PresentFacts
      <4>2. Max(first) \in Present
        BY <2>2, <3>2, <4>1, MaxOfFinite
      <4>3. received[Max(first)] <= Newest
        BY <1>10, <2>0, <4>2, ReceivedReached
      <4> QED
        BY <1>7, <2>3, <3>2, <4>3
    <3> QED
      BY <3>1, <3>2
  <2>6. ASSUME NEW m \in 1..arrived, ~Behind(from[w], m) PROVE m \in removed \/ m \in got
    <3>1. received[m] >= from[w]
      BY <1>0, <1>1, <1>6, <1>10, <2>6 DEF Behind, BoxOK
    <3>2. CASE m \in Present
      <4>1. m \in first
        BY <1>0, <1>2, <2>0, <3>1, <3>2, FirstPageHoldsTheNew DEF first
      <4> QED
        BY <2>3, <3>1, <4>1 DEF ZohoFresh
    <3> QED
      BY <3>2 DEF Present
  <2> HIDE DEF got, nxt
  <2>7. ~(page.token # NoToken /\ Cardinality(got) < MaxIdsPerRun)
    BY <1>1, <1>4, <2>4
  <2> QED
    BY <2>5, <2>6, <2>7 DEF page, got, nxt
<1> QED
  BY <1>9, <1>10

\* Up to the listing.
LEMMA ListingGap ==
  ASSUME RunsFit, OneZohoPage, StoreInv, StoreInv', GapInv, NEW w \in Workers,
         Begin(w) \/ Connect(w) \/ GetProfile(w) \/ ListNewest(w) \/ ListChanges(w)
  PROVE  GapInv'
<1>0. UNCHANGED <<World, cursor>>
  BY DEF Begin, Connect, GetProfile, ListNewest, ListChanges, World, mailbox, account, store
<1>1. /\ Newest' = Newest /\ arrived' = arrived
      /\ \A k : Covered(k) => \A m \in 1..arrived' : m > base' /\ Behind(k, m) => Settled(m)
      /\ RunReached(w) /\ RunListing(w) /\ RunBaseline(w) /\ RunCollected(w)
  BY <1>0 DEF World, Newest, Covered, GapInv, RunGap
<1>2. \A u \in Workers : u # w => Rests(u)
  BY DEF Begin, Connect, GetProfile, ListNewest, ListChanges, Rests, Goto, StoreInv, LocalsOK
<1> USE DEF StoreInv, LocalsOK, Goto, Fetching, Ingesting
<1>3. CASE Begin(w)
  <2>1. /\ pc'[w] = "connect" /\ from'[w] = cursor /\ next'[w] = cursor
        /\ token'[w] = token[w] /\ ids'[w] = ids[w] /\ basis'[w] = basis[w]
        /\ pc[w] = "idle"
    BY <1>3 DEF Begin
  <2>2. RunReached(w)'
    BY <1>0, <1>1, <2>1 DEF RunReached, Covered, Behind, Settled, Stored, World, GapInv
  <2>3. RunListing(w)' /\ RunBaseline(w)' /\ RunCollected(w)'
    BY <1>1, <2>1 DEF RunListing, RunBaseline, RunCollected
  <2> QED
    BY <1>0, <1>2, <2>2, <2>3, QuietGap DEF RunGap
<1>4. CASE Connect(w)
  <2>1. /\ pc'[w] = IF from[w] = NoCursor THEN "profile" ELSE "changes"
        /\ from'[w] = from[w] /\ next'[w] = next[w]
        /\ token'[w] = token[w] /\ ids'[w] = ids[w] /\ basis'[w] = basis[w]
        /\ pc[w] = "connect"
    BY <1>4 DEF Connect
  <2>2. RunReached(w)'
    BY <1>0, <1>1, <2>1 DEF RunReached, Covered, Behind, Settled, Stored, World
  <2>3. RunListing(w)' /\ RunBaseline(w)' /\ RunCollected(w)'
    BY <1>1, <2>1 DEF RunListing, RunBaseline, RunCollected
  <2> QED
    BY <1>0, <1>2, <2>2, <2>3, QuietGap DEF RunGap
<1>5. CASE GetProfile(w)
  <2>1. /\ pc'[w] = "list" /\ from'[w] = from[w] /\ next'[w] = ProfileCursor
        /\ basis'[w] = arrived /\ pc[w] = "profile"
    BY <1>5 DEF GetProfile
  <2>2. ProfileCursor <= Newest /\ arrived \in Nat
    BY ProfileReached, PresentFacts DEF GapInv
  <2>3. RunReached(w)'
    BY <1>0, <1>1, <2>1, <2>2 DEF RunReached, Covered, Behind, Settled, Stored, World
  <2>4. RunListing(w)' /\ RunCollected(w)'
    BY <1>1, <2>1 DEF RunListing, RunCollected
  <2>5. RunBaseline(w)'
    BY <1>1, <2>1, <2>2 DEF RunBaseline
  <2> QED
    BY <1>0, <1>2, <2>3, <2>4, <2>5, QuietGap DEF RunGap
<1>6. CASE ListNewest(w)
  <2>1. /\ pc'[w] = "known" /\ from'[w] = from[w] /\ next'[w] = next[w]
        /\ basis'[w] = basis[w] /\ pc[w] = "list"
    BY <1>6 DEF ListNewest
  <2>2. RunReached(w)'
    BY <1>0, <1>1, <2>1 DEF RunReached, Covered, Behind, Settled, Stored, World
  <2>3. RunListing(w)' /\ RunCollected(w)'
    BY <1>1, <2>1 DEF RunListing, RunCollected
  <2>4. RunBaseline(w)'
    BY <1>0, <1>1, <2>1 DEF RunBaseline, Behind, World
  <2> QED
    BY <1>0, <1>2, <2>2, <2>3, <2>4, QuietGap DEF RunGap
<1>7. CASE ListChanges(w)
  <2> DEFINE page == ListChanged(from[w], token[w])
             got  == ids[w] \cup page.ids
             nxt  == IF page.cursor # NoCursor THEN page.cursor ELSE next[w]
             more == page.token # NoToken /\ Cardinality(got) < MaxIdsPerRun
  <2>1. pc[w] = "changes" /\ from'[w] = from[w] /\ basis'[w] = basis[w] /\ from[w] # NoCursor
    BY <1>7 DEF ListChanges, Runs, RunOK
  <2>2. /\ nxt <= Newest
        /\ more => /\ Provider = "GMAIL" /\ from[w] <= page.token /\ page.token <= arrived
                   /\ got = (from[w] + 1)..page.token
        /\ ~more => \A m \in 1..arrived :
                      Behind(nxt, m) /\ ~Behind(from[w], m) => m \in removed \/ m \in got
    BY <2>1, PageCollected
  <2>3. CASE page.invalid
    <3>1. pc'[w] = "reset" /\ next'[w] = next[w]
      BY <1>7, <2>3 DEF ListChanges
    <3>2. RunReached(w)'
      BY <1>0, <1>1, <2>1, <3>1 DEF RunReached, Covered, Behind, Settled, Stored, World
    <3>3. RunListing(w)' /\ RunBaseline(w)' /\ RunCollected(w)'
      BY <3>1 DEF RunListing, RunBaseline, RunCollected
    <3> QED
      BY <1>0, <1>2, <3>2, <3>3, QuietGap DEF RunGap
  <2>4. CASE ~page.invalid
    <3>1. /\ ids'[w] = got /\ next'[w] = nxt /\ token'[w] = page.token
          /\ pc'[w] = IF more THEN "changes" ELSE "known"
      BY <1>7, <2>4 DEF ListChanges
    <3> HIDE DEF page, got, nxt, more
    <3>2. RunReached(w)'
      BY <1>0, <1>1, <2>1, <2>2, <3>1 DEF RunReached, Covered, Behind, Settled, Stored, World
    <3>3. RunListing(w)'
      BY <1>1, <2>1, <2>2, <3>1 DEF RunListing
    <3>4. RunBaseline(w)'
      BY <2>1 DEF RunBaseline
    <3>5. RunCollected(w)'
      BY <1>0, <1>1, <2>1, <2>2, <3>1 DEF RunCollected, Behind, InHand, Settled, World
    <3> QED
      BY <1>0, <1>2, <3>2, <3>3, <3>4, <3>5, QuietGap DEF RunGap
  <2> QED
    BY <2>3, <2>4
<1> QED
  BY <1>3, <1>4, <1>5, <1>6, <1>7

\* A cursor that expired is forgotten: nothing is behind no cursor.
LEMMA ResetGap ==
  ASSUME StoreInv, StoreInv', GapInv, NEW w \in Workers, ResetCursor(w)
  PROVE  GapInv'
<1>1. UNCHANGED World /\ cursor' = NoCursor
  BY DEF ResetCursor, World, mailbox, store
<1>2. \A u \in Workers : u # w => Rests(u)
  BY DEF ResetCursor, Rests, Goto, StoreInv, LocalsOK
<1>3. /\ pc'[w] = "profile" /\ from'[w] = NoCursor /\ next'[w] = next[w]
      /\ basis'[w] = basis[w]
  BY DEF ResetCursor, Goto, StoreInv, LocalsOK
<1>4. Grows
  <2>1. base \in Nat
    BY MailSyncAssumption DEF StoreInv, BoxOK
  <2> QED
    BY <1>1, <2>1 DEF Grows, World
<1>5. Newest' \in Nat /\ arrived' \in Nat /\ Newest' = Newest /\ arrived' = arrived
  BY <1>1, <1>4, Growth DEF GapInv, World, Newest
<1>6. \A m \in 1..arrived' : ~Behind(NoCursor, m)'
  BY <1>5, MailSyncAssumption DEF Behind, NoCursor, StoreInv, BoxOK, Mail
<1>7. cursor' <= Newest' /\ Covered(cursor)'
  BY <1>1, <1>5, <1>6 DEF Covered, NoCursor, Behind
<1>8. RunReached(w)'
  BY <1>3, <1>5, <1>6 DEF RunReached, Covered, NoCursor, Behind, GapInv, RunGap
<1>9. RunListing(w)' /\ RunBaseline(w)' /\ RunCollected(w)'
  BY <1>3 DEF RunListing, RunBaseline, RunCollected, Fetching, Ingesting
<1> QED
  BY <1>2, <1>4, <1>7, <1>8, <1>9, OneRunGap DEF RunGap

\* A fetching run goes on fetching: what leaves its hands is settled.
LEMMA FetchingRun ==
  ASSUME StoreInv, StoreInv', GapInv, NEW w \in Workers, Grows,
         UNCHANGED <<arrived, received, cursor>>,
         \A u \in Workers : u # w => Rests(u),
         pc[w] \in Fetching, pc'[w] \in Fetching,
         from'[w] = from[w], next'[w] = next[w], basis'[w] = basis[w],
         \A m \in Mail : InHand(w, m) => InHand(w, m)' \/ Settled(m)'
  PROVE  GapInv'
<1>0. from[w] \in Cursors /\ RunGap(w) /\ Ordered
  BY DEF StoreInv, LocalsOK, Cursors, GapInv
<1>1. RunReached(w)'
  <2>1. from[w] <= Newest /\ Covered(from[w]) /\ Newest' = Newest
    BY <1>0 DEF RunGap, RunReached, Newest
  <2>2. Covered(from[w])'
    BY <1>0, <2>1, CoveredStays DEF Covered, Behind
  <2> QED
    BY <1>0, <2>1, <2>2 DEF RunGap, RunReached
<1>2. RunListing(w)' /\ RunBaseline(w)'
  BY <1>0 DEF RunGap, RunListing, RunBaseline, Fetching, Ingesting, Behind
<1>3. RunCollected(w)'
  <2> SUFFICES ASSUME from[w] # NoCursor, NEW m \in 1..arrived,
                      Behind(next[w], m), ~Behind(from[w], m)
               PROVE  Settled(m)' \/ InHand(w, m)'
    BY DEF RunCollected, Behind
  <2>1. Settled(m) \/ InHand(w, m)
    BY <1>0 DEF RunGap, RunCollected
  <2>2. m \in Mail
    BY MailSyncAssumption DEF StoreInv, BoxOK, Mail
  <2> QED
    BY <2>1, <2>2, SettledStays
<1> QED
  BY <1>1, <1>2, <1>3, OneRunGap DEF RunGap

LEMMA IngestGap ==
  ASSUME StoreInv, StoreInv', GapInv, NEW w \in Workers,
         FilterKnown(w) \/ Fetch(w) \/ FindStored(w) \/ PutRaw(w) \/ PutBody(w)
           \/ CreateMessage(w)
  PROVE  GapInv'
<1>0. /\ UNCHANGED <<arrived, received, removed, base, cursor>>
      /\ \A u \in Workers : u # w => Rests(u)
      /\ from'[w] = from[w] /\ next'[w] = next[w] /\ basis'[w] = basis[w]
  BY DEF FilterKnown, Fetch, FindStored, PutRaw, PutBody, CreateMessage, Goto, Rests,
         StoreInv, LocalsOK, mailbox, account
<1>1. \A m \in Mail : row[m] # NoRow => row'[m] # NoRow
  BY DEF FilterKnown, Fetch, FindStored, PutRaw, PutBody, CreateMessage, store,
         StoreInv, StoreOK
<1>2. Grows
  BY <1>0, <1>1, MailSyncAssumption DEF Grows, StoreInv, BoxOK
<1>3. pc[w] \in Fetching /\ pc'[w] \in Fetching
  BY DEF FilterKnown, Fetch, FindStored, PutRaw, PutBody, CreateMessage, Goto,
         StoreInv, LocalsOK, Fetching, Ingesting
<1>4. ASSUME NEW m \in Mail, InHand(w, m) PROVE InHand(w, m)' \/ Settled(m)'
  <2> USE DEF InHand, Ingesting, Goto, StoreInv, LocalsOK
  <2>1. CASE FilterKnown(w)
    BY <1>4, <2>1 DEF FilterKnown, Settled, Stored, store
  <2>2. CASE Fetch(w)
    <3>1. PICK n \in ids[w] :
            /\ ids' = [ids EXCEPT ![w] = @ \ {n}]
            /\ msg' = [msg EXCEPT ![w] = fetchRawMessage(n)]
            /\ pc' = [pc EXCEPT ![w] = IF fetchRawMessage(n) = NoMail THEN "loop" ELSE "find"]
      BY <2>2 DEF Fetch
    <3>2. m \in ids[w]
      BY <1>4, <2>2 DEF Fetch
    <3>3. CASE m # n
      BY <3>1, <3>2, <3>3
    <3>4. CASE m = n /\ m \in removed
      BY <1>0, <3>4 DEF Settled
    <3>5. CASE m = n /\ m \notin removed
      <4>1. m # NoMail /\ fetchRawMessage(n) = m
        BY <3>5, MailSyncAssumption DEF fetchRawMessage, Mail, NoMail
      <4> QED
        BY <3>1, <3>5, <4>1
    <3> QED
      BY <3>3, <3>4, <3>5
  <2>3. CASE FindStored(w)
    BY <1>4, <2>3 DEF FindStored, Settled, Stored, store
  <2>4. CASE PutRaw(w)
    BY <1>4, <2>4 DEF PutRaw
  <2>5. CASE PutBody(w)
    BY <1>4, <2>5 DEF PutBody
  <2>6. CASE CreateMessage(w)
    <3>1. CASE m \in ids[w]
      BY <2>6, <3>1 DEF CreateMessage
    <3>2. CASE m = msg[w]
      <4>1. row'[m] # NoRow
        BY <2>6, <3>2, MailSyncAssumption DEF CreateMessage, StoreOK, NoRow
      <4> QED
        BY <4>1 DEF Settled, Stored
    <3> QED
      BY <1>4, <3>1, <3>2
  <2> QED
    BY <2>1, <2>2, <2>3, <2>4, <2>5, <2>6
<1> QED
  BY <1>0, <1>2, <1>3, <1>4, FetchingRun

\* The cursor moves: behind it is what was behind the old one, what the run has
\* settled, or what its baseline leaves out.
LEMMA WriteGap ==
  ASSUME StoreInv, StoreInv', GapInv, NEW w \in Workers, WriteCursor(w)
  PROVE  GapInv'
<1>1. /\ UNCHANGED <<arrived, received, removed, row>> /\ cursor' = next[w]
      /\ from' = from /\ next' = next /\ token' = token /\ ids' = ids
      /\ basis' = basis /\ msg' = msg
      /\ pc[w] = "loop" /\ ids[w] = {} /\ pc'[w] = "finish"
      /\ base' = IF from[w] = NoCursor THEN Max({base, basis[w]}) ELSE base
  BY DEF WriteCursor, LoopEnds, Goto, StoreInv, LocalsOK, mailbox, store
<1>2. \A u \in Workers : u # w => Rests(u)
  BY <1>1 DEF WriteCursor, Goto, Rests, StoreInv, LocalsOK
<1>3. base \in Nat /\ basis[w] \in Nat /\ from[w] \in Cursors /\ next[w] \in Cursors
  BY MailSyncAssumption DEF StoreInv, BoxOK, LocalsOK, Cursors
<1>4. base' \in Nat /\ base' >= base /\ (from[w] = NoCursor => base' >= basis[w])
  <2>1. Max({base, basis[w]}) = IF base >= basis[w] THEN base ELSE basis[w]
    BY <1>3, MaxOfTwo
  <2> QED
    BY <1>1, <1>3, <2>1
<1>5. Grows
  BY <1>1, <1>4 DEF Grows
<1>6. RunReached(w) /\ RunBaseline(w) /\ RunCollected(w) /\ Newest' = Newest /\ Ordered
  BY <1>1 DEF GapInv, RunGap, Newest
<1>7. Covered(cursor)'
  <2> SUFFICES ASSUME NEW m \in 1..arrived, m > base', Behind(next[w], m)
               PROVE  Settled(m)
    BY <1>1 DEF Covered, Behind, Settled, Stored
  <2>0. m > base
    BY <1>3, <1>4
  <2>1. CASE from[w] = NoCursor
    <3>1. m > basis[w]
      BY <1>3, <1>4, <2>1
    <3> QED
      BY <1>1, <1>6, <2>1, <3>1 DEF RunBaseline, Fetching
  <2>2. CASE from[w] # NoCursor /\ Behind(from[w], m)
    BY <1>6, <2>0, <2>2 DEF RunReached, Covered
  <2>3. CASE from[w] # NoCursor /\ ~Behind(from[w], m)
    BY <1>1, <1>6, <2>3 DEF RunCollected, Fetching, Ingesting, InHand
  <2> QED
    BY <2>1, <2>2, <2>3
<1>8. RunReached(w)'
  <2>1. Covered(from[w])'
    BY <1>1, <1>3, <1>5, <1>6, CoveredStays DEF RunReached, Covered, Behind
  <2> QED
    BY <1>1, <1>6, <2>1 DEF RunReached
<1>9. RunListing(w)' /\ RunBaseline(w)' /\ RunCollected(w)'
  BY <1>1 DEF RunListing, RunBaseline, RunCollected, Fetching, Ingesting
<1> QED
  BY <1>1, <1>2, <1>5, <1>6, <1>7, <1>8, <1>9, OneRunGap DEF RunGap, RunReached

LEMMA EndingGap ==
  ASSUME StoreInv, StoreInv', GapInv, NEW w \in Workers,
         RecordSuccess(w) \/ RecordFailure(w) \/ ConnectRevoked(w) \/ CallFails(w) \/ Crash(w)
  PROVE  GapInv'
<1>1. UNCHANGED <<World, cursor>>
  BY DEF RecordSuccess, RecordFailure, ConnectRevoked, CallFails, Crash, World,
         mailbox, account, store
<1>2. CASE RecordSuccess(w) \/ RecordFailure(w) \/ Crash(w)
  BY <1>1, <1>2, FinishGap DEF RecordSuccess, RecordFailure, Crash
<1>3. CASE ConnectRevoked(w) \/ CallFails(w)
  <2>1. /\ pc'[w] = "caught" /\ from' = from /\ next' = next /\ basis' = basis
        /\ \A u \in Workers : u # w => Rests(u)
    BY <1>3 DEF ConnectRevoked, CallFails, Goto, Rests, StoreInv, LocalsOK
  <2>2. RunReached(w)'
    BY <1>1, <2>1 DEF RunReached, Covered, Behind, Settled, Stored, World, Newest,
                      GapInv, RunGap
  <2>3. RunListing(w)' /\ RunBaseline(w)' /\ RunCollected(w)'
    BY <2>1 DEF RunListing, RunBaseline, RunCollected, Fetching, Ingesting
  <2> QED
    BY <1>1, <2>1, <2>2, <2>3, QuietGap DEF RunGap
<1> QED
  BY <1>2, <1>3

LEMMA InitGapInv == Init => GapInv
<1> SUFFICES ASSUME Init PROVE GapInv
  OBVIOUS
<1>1. Ordered /\ cursor <= Newest /\ Covered(cursor)
  BY DEF Init, Ordered, Newest, Covered, NoCursor
<1>2. \A w \in Workers : RunGap(w)
  BY DEF Init, RunGap, RunReached, RunListing, RunBaseline, RunCollected, Fetching,
         Ingesting, Newest, Covered, NoCursor, NoToken
<1> QED
  BY <1>1, <1>2 DEF GapInv

LEMMA NextGapInv ==
  ASSUME OneZohoPage
  PROVE  RunsFit /\ StoreInv /\ GapInv /\ [Next]_vars => GapInv'
<1> SUFFICES ASSUME RunsFit, StoreInv, GapInv, [Next]_vars PROVE GapInv'
  OBVIOUS
<1>0. StoreInv'
  BY NextStoreInv
<1>1. CASE UNCHANGED vars
  <2> USE <1>1 DEF vars, mailbox, account, store, locals
  <2>1. Ordered' /\ (cursor <= Newest)' /\ Covered(cursor)'
    BY DEF GapInv, Ordered, Newest, Covered, Behind, Settled, Stored
  <2>2. \A u \in Workers : Rests(u)
    BY DEF Rests
  <2>3. Grows
    BY MailSyncAssumption DEF Grows, StoreInv, BoxOK
  <2> QED
    BY <1>0, <2>1, <2>2, <2>3, RestingRun DEF GapInv
<1>2. CASE Next
  BY <1>0, <1>2, WorldGap, ListingGap, ResetGap, IngestGap, WriteGap, EndingGap
     DEF Next, Run
<1> QED
  BY <1>1, <1>2

-----------------------------------------------------------------------------
\* The cursor never moves past a message that is neither stored nor gone, for any
\* number of concurrent runs, any mailbox, page size and faults, provided that
\* never more than MAX_IDS_PER_RUN messages have arrived since the cursor a run is
\* listing from.  As in NoGap, what arrived before a baseline (an initial sync, or
\* the one after an expired cursor) is exempt.
THEOREM NothingFallsIntoAGap ==
  ASSUME OneZohoPage
  PROVE  Spec /\ []RunsFit => []NoGap
<1>1. StoreInv /\ GapInv => NoGap
  <2> SUFFICES ASSUME StoreInv, GapInv, NEW m \in 1..arrived, m > base, Passed(m)
               PROVE  m \in Stored \/ m \in removed
    BY DEF NoGap
  <2>1. m \in Mail /\ received[m] \in Int /\ cursor \in Int
    BY MailSyncAssumption DEF StoreInv, BoxOK, AccountOK, Mail, NoCursor
  <2>2. Behind(cursor, m)
    BY <2>1 DEF Passed, ZohoFresh, Behind
  <2> QED
    BY <2>2 DEF GapInv, Covered, Settled
<1>2. RunsFit /\ StoreInv /\ GapInv /\ [Next]_vars => GapInv'
  BY NextGapInv
<1> QED
  BY <1>1, <1>2, InitGapInv, StoreInvariant, PTL DEF Spec

\* A stored row keeps its object keys whichever run ingests the message again.
THEOREM StoredRowsAreFinal == Spec => RowsAreFinal
<1>1. StoreInv /\ [Next]_vars =>
        [\A m \in Mail : row[m] # NoRow => row'[m] = row[m]]_vars
  <2> SUFFICES ASSUME StoreInv, Next, NEW m \in Mail, row[m] # NoRow
               PROVE  row'[m] = row[m]
    OBVIOUS
  <2>1. row' = row \/ \E w \in Workers : CreateMessage(w)
    BY DEF Next, Run, MailArrives, MailRemoved, HistoryExpires, Reconnect, Begin, Connect,
           GetProfile, ListNewest, ListChanges, ResetCursor, FilterKnown, Fetch, FindStored,
           PutRaw, PutBody, WriteCursor, RecordSuccess, RecordFailure, ConnectRevoked,
           CallFails, Crash, store
  <2> QED
    BY <2>1 DEF CreateMessage, StoreInv, StoreOK
<1> QED
  BY <1>1, StoreInvariant, PTL DEF Spec, RowsAreFinal
=============================================================================
