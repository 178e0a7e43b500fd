-------------------------- MODULE WebReadingProofs --------------------------
(***************************************************************************)
(* Proofs about what the web application reads: the live events of a tab   *)
(* (SyncEvents), and the list and the downloads of mail (MessageReading),  *)
(* for streams, tables and lists of any length.                            *)
(*                                                                         *)
(* SyncEvents.  splitFrames cuts at empty lines and parseFrame looks for a *)
(* data line, so nothing is lost only while the text is that of frames:    *)
(* the invariant says that buffer and wire together hold whole frames      *)
(* (FrameText, Complete), that the accounts they name complete what was    *)
(* handled to what was written, and that a connection is written to only   *)
(* with what belongs to the user whose token opened it.  A second one says *)
(* whose token that can be: only the effect begun last still connects, and *)
(* token, cookie and refresh are its user's unless the browser mixed two.  *)
(*                                                                         *)
(* MessageReading.  The invariant holds of the list on screen and of the   *)
(* one a refetch is putting together: it is in order, its cursor is its    *)
(* last row, and each row of the first page's table is shown or behind the *)
(* cursor; and a fetch goes on only from a page that has a cursor, since   *)
(* without one a page begins at the top again.  For downloads it adds that *)
(* the server ends a response only with its body whole.                    *)
(***************************************************************************)
EXTENDS SyncEvents, MessageReading, SequenceLemmas, FiniteSetTheorems, TLAPS

(* SyncEvents: the invariant *)

\* The symbol at i is one that may come after the ones before it.
Follows(t, i) ==
  /\ i = 1 => t[i] \in {":", "E"}
  /\ i > 1 => /\ t[i - 1] \in {":", "E"} \cup Accounts => t[i] = "N"
              /\ t[i - 1] = "D" => t[i] \in Accounts
  /\ i > 2 /\ t[i - 1] = "N" => /\ t[i - 2] \in {":"} \cup Accounts => t[i] = "N"
                                /\ t[i - 2] = "E" => t[i] = "D"
                                /\ t[i - 2] = "N" => t[i] \in {":", "E"}

\* The text of frames, one after the other, cut off anywhere.
FrameText(t) == \A i \in 1..Len(t) : Follows(t, i)

\* Its last frame is complete.
Complete(t) == Len(t) = 0 \/ (Len(t) >= 2 /\ t[Len(t)] = "N" /\ t[Len(t) - 1] = "N")

\* A frame begins at i.
FrameStart(t, i) == i = 1 \/ (i >= 3 /\ t[i - 1] = "N" /\ t[i - 2] = "N")

Unread(e) == buffer[e] \o wire[conn[e]]

\* What was written to the connection of an effect and not handled is the text
\* of whole frames.
Stream(e) ==
  /\ FrameText(Unread(e)) /\ Complete(Unread(e))
  /\ handled[e] \o AccountsIn(Unread(e)) = written[conn[e]]

\* An effect reads the connections it made, from their beginning.
Reader(e) ==
  /\ conn[e] = NoConn => phase[e] = "unborn" /\ handled[e] = <<>>
  /\ conn[e] # NoConn =>
       /\ opener[conn[e]] = e
       /\ srv[conn[e]] \in {"none", "listing"} => buffer[e] = <<>> /\ handled[e] = <<>>
       /\ Stream(e)

\* Nothing is written before the endpoint has looked up the accounts.
Silent(c) ==
  /\ c > conns => srv[c] = "none"
  /\ srv[c] \in {"none", "listing"} => wire[c] = <<>> /\ written[c] = <<>> /\ c \notin listeners

\* What is written to a connection is of the user whose token opened it.
WrittenToOwner(c) == c <= conns => \A a \in ToSet(written[c]) : Owned(c, a)

Phases == {"unborn", "connecting", "refreshing", "retrying", "reading", "settled", "waiting",
           "stopped"}

SessionTyped ==
  /\ token \in Users \cup {NoUser}
  /\ refreshInFlight \in Users \cup {NoUser, Idle}
  /\ jar \in Users \cup {NoUser}
  /\ outside \in 0..MaxOutside
  /\ mixed \subseteq Effects

EventsInv ==
  /\ TypeOK
  /\ \A e \in Effects : Reader(e)
  /\ \A c \in Conns : Silent(c) /\ WrittenToOwner(c)

-----------------------------------------------------------------------------
(* The accounts of a text *)

Named(x) == IF x \in Accounts THEN <<x>> ELSE <<>>
NamedIn(text) == [i \in 1..Len(text) |-> Named(text[i])]

\* Lists of accounts may be joined in any grouping.
LEMMA AccountsAssociate ==
  \A a, b, c \in Seq(Accounts) : (a \o b) \o c = a \o (b \o c)
BY ConcatAssociative

\* So may texts.
LEMMA SymbolsAssociate ==
  \A a, b, c \in Seq(Symbols) : (a \o b) \o c = a \o (b \o c)
BY ConcatAssociative

LEMMA AccountsInIs ==
  ASSUME NEW text
  PROVE  AccountsIn(text) = FlattenSeq(NamedIn(text))
BY DEF AccountsIn, NamedIn, Named

LEMMA NamedInType ==
  ASSUME NEW text \in Seq(Symbols)
  PROVE  /\ NamedIn(text) \in Seq(Seq(Accounts)) /\ Len(NamedIn(text)) = Len(text)
         /\ \A i \in 1..Len(text) : NamedIn(text)[i] = Named(text[i])
<1>1. \A x : Named(x) \in Seq(Accounts)
  BY DEF Named
<1> HIDE DEF Named
<1>2. NamedIn(text) \in [1..Len(text) -> Seq(Accounts)] /\ Len(text) \in Nat
  BY <1>1 DEF NamedIn
<1> QED BY <1>2, IsASeq DEF NamedIn

LEMMA AccountsInType ==
  ASSUME NEW text \in Seq(Symbols)
  PROVE  AccountsIn(text) \in Seq(Accounts)
BY AccountsInIs, NamedInType, FlattenType

LEMMA AccountsInEmpty == AccountsIn(<<>>) = <<>>
<1>1. NamedIn(<<>>) = <<>>
  BY DEF NamedIn
<1> QED BY <1>1, AccountsInIs, FlattenEmpty

LEMMA AccountsInOne ==
  ASSUME NEW x \in Symbols
  PROVE  AccountsIn(<<x>>) = Named(x)
<1>1. NamedIn(<<x>>) = <<Named(x)>>
  BY DEF NamedIn
<1>2. Named(x) \in Seq(Accounts)
  BY DEF Named
<1> QED BY <1>1, <1>2, AccountsInIs, FlattenOne

LEMMA AccountsInConcat ==
  ASSUME NEW s \in Seq(Symbols), NEW t \in Seq(Symbols)
  PROVE  AccountsIn(s \o t) = AccountsIn(s) \o AccountsIn(t)
<1> DEFINE st == s \o t
<1>1. st \in Seq(Symbols) /\ Len(st) = Len(s) + Len(t) /\ Len(s) \in Nat /\ Len(t) \in Nat
      /\ \A i \in 1..Len(st) : st[i] = IF i <= Len(s) THEN s[i] ELSE t[i - Len(s)]
  BY ConcatProperties
<1> HIDE DEF st
<1>2. /\ NamedIn(s) \in Seq(Seq(Accounts)) /\ Len(NamedIn(s)) = Len(s)
      /\ \A i \in 1..Len(s) : NamedIn(s)[i] = Named(s[i])
  BY NamedInType
<1>3. /\ NamedIn(t) \in Seq(Seq(Accounts)) /\ Len(NamedIn(t)) = Len(t)
      /\ \A i \in 1..Len(t) : NamedIn(t)[i] = Named(t[i])
  BY NamedInType
<1>4. /\ NamedIn(st) \in Seq(Seq(Accounts)) /\ Len(NamedIn(st)) = Len(st)
      /\ \A i \in 1..Len(st) : NamedIn(st)[i] = Named(st[i])
  BY <1>1, NamedInType
<1> DEFINE both == NamedIn(s) \o NamedIn(t)
<1>5. both \in Seq(Seq(Accounts)) /\ Len(both) = Len(st)
      /\ \A i \in 1..Len(st) : both[i] = IF i <= Len(s) THEN NamedIn(s)[i] ELSE NamedIn(t)[i - Len(s)]
  <2>1. /\ both \in Seq(Seq(Accounts)) /\ Len(both) = Len(NamedIn(s)) + Len(NamedIn(t))
        /\ \A i \in 1..(Len(NamedIn(s)) + Len(NamedIn(t))) :
             both[i] = IF i <= Len(NamedIn(s)) THEN NamedIn(s)[i] ELSE NamedIn(t)[i - Len(NamedIn(s))]
    <3> DEFINE ns == NamedIn(s)
               nt == NamedIn(t)
    <3>1. ns \in Seq(Seq(Accounts)) /\ nt \in Seq(Seq(Accounts)) /\ both = ns \o nt
      BY <1>2, <1>3
    <3> HIDE DEF ns, nt, both
    <3>2. /\ ns \o nt \in Seq(Seq(Accounts)) /\ Len(ns \o nt) = Len(ns) + Len(nt)
          /\ \A i \in 1..(Len(ns) + Len(nt)) :
               (ns \o nt)[i] = IF i <= Len(ns) THEN ns[i] ELSE nt[i - Len(ns)]
      BY <3>1, ConcatProperties
    <3> QED BY <3>1, <3>2 DEF ns, nt
  <2> HIDE DEF both
  <2> QED BY <1>1, <1>2, <1>3, <2>1
<1> HIDE DEF both
<1>6. ASSUME NEW i \in 1..Len(st) PROVE both[i] = NamedIn(st)[i]
  <2>1. CASE i <= Len(s)
    <3>1. i \in 1..Len(s)
      BY <1>1, <2>1
    <3> QED BY <1>1, <1>2, <1>4, <1>5, <2>1, <3>1
  <2>2. CASE ~(i <= Len(s))
    <3>1. i - Len(s) \in 1..Len(t)
      BY <1>1, <2>2
    <3> QED BY <1>1, <1>3, <1>4, <1>5, <2>2, <3>1
  <2> QED BY <2>1, <2>2
<1>7. NamedIn(st) = both
  BY <1>4, <1>5, <1>6, SeqEqual
<1>8. FlattenSeq(both) = FlattenSeq(NamedIn(s)) \o FlattenSeq(NamedIn(t))
  BY <1>2, <1>3, FlattenConcat DEF both
<1> QED BY <1>7, <1>8, AccountsInIs DEF st

LEMMA SymbolsAre ==
  /\ \A a \in Accounts : a \in Symbols /\ a \notin {"N", ":", "E", "D"}
  /\ \A x \in {"N", ":", "E", "D"} : x \in Symbols /\ x \notin Accounts
BY SyncEventsAssumption DEF Symbols

LEMMA AccountsInFrames ==
  /\ CommentFrame \in Seq(Symbols) /\ AccountsIn(CommentFrame) = <<>>
  /\ \A a \in Accounts : EventFrame(a) \in Seq(Symbols) /\ AccountsIn(EventFrame(a)) = <<a>>
<1> DEFINE n == <<"N">>
<1>1. n \in Seq(Symbols) /\ AccountsIn(n) = <<>>
  BY SymbolsAre, AccountsInOne DEF Named
<1>2. <<":">> \in Seq(Symbols) /\ AccountsIn(<<":">>) = <<>>
  BY SymbolsAre, AccountsInOne DEF Named
<1>3. <<"E">> \in Seq(Symbols) /\ AccountsIn(<<"E">>) = <<>>
  BY SymbolsAre, AccountsInOne DEF Named
<1>4. <<"D">> \in Seq(Symbols) /\ AccountsIn(<<"D">>) = <<>>
  BY SymbolsAre, AccountsInOne DEF Named
<1>5. CommentFrame = <<":">> \o (n \o n)
  BY DEF CommentFrame
<1>6. n \o n \in Seq(Symbols) /\ AccountsIn(n \o n) = <<>>
  <2>1. AccountsIn(n \o n) = <<>> \o <<>>
    BY <1>1, AccountsInConcat
  <2> QED BY <1>1, <2>1
<1> HIDE DEF n
<1>7. CommentFrame \in Seq(Symbols) /\ AccountsIn(CommentFrame) = <<>>
  <2>1. AccountsIn(CommentFrame) = <<>> \o <<>>
    BY <1>2, <1>5, <1>6, AccountsInConcat
  <2> QED BY <1>2, <1>5, <1>6, <2>1
<1>8. ASSUME NEW a \in Accounts
      PROVE  EventFrame(a) \in Seq(Symbols) /\ AccountsIn(EventFrame(a)) = <<a>>
  <2>1. <<a>> \in Seq(Symbols) /\ AccountsIn(<<a>>) = <<a>>
    BY SymbolsAre, AccountsInOne DEF Named
  <2> DEFINE head == <<"E">> \o (n \o <<"D">>)
             tail == <<a>> \o (n \o n)
  <2>2. EventFrame(a) = head \o tail
    BY DEF EventFrame, n
  <2>3. head \in Seq(Symbols) /\ AccountsIn(head) = <<>>
    <3> DEFINE d == <<"D">>
    <3>0. d \in Seq(Symbols) /\ AccountsIn(d) = <<>>
      BY <1>4
    <3> HIDE DEF d
    <3>1. n \o d \in Seq(Symbols) /\ AccountsIn(n \o d) = <<>> \o <<>>
      BY <1>1, <3>0, AccountsInConcat
    <3> USE DEF d
    <3>2. AccountsIn(head) = <<>> \o (<<>> \o <<>>)
      BY <1>3, <3>1, AccountsInConcat
    <3> QED BY <1>3, <3>1, <3>2
  <2>4. tail \in Seq(Symbols) /\ AccountsIn(tail) = <<a>>
    <3>1. AccountsIn(tail) = <<a>> \o <<>>
      BY <1>6, <2>1, AccountsInConcat
    <3> QED BY <1>6, <2>1, <3>1
  <2> HIDE DEF head, tail
  <2>5. AccountsIn(EventFrame(a)) = <<>> \o <<a>>
    BY <2>2, <2>3, <2>4, AccountsInConcat
  <2> QED BY <2>2, <2>3, <2>4, <2>5
<1> QED BY <1>7, <1>8

-----------------------------------------------------------------------------
(* Splitting *)

LEMMA MinIs ==
  ASSUME NEW S \in SUBSET Nat, S # {}
  PROVE  Min(S) \in S /\ \A m \in S : Min(S) <= m
<1>1. \E n \in S : \A m \in S : n <= m
  BY SmallestOf
<1> QED BY <1>1 DEF Min

IsBoundary(text, i) == text[i] = "N" /\ text[i + 1] = "N"

\* The first boundary behind a position, if there is one.
LEMMA BoundaryIs ==
  ASSUME NEW text \in Seq(Symbols), NEW from \in 1..(Len(text) + 1)
  PROVE  \/ /\ Boundary(text, from) = 0
            /\ \A i \in from..(Len(text) - 1) : ~IsBoundary(text, i)
         \/ /\ Boundary(text, from) \in from..(Len(text) - 1)
            /\ IsBoundary(text, Boundary(text, from))
            /\ \A i \in from..(Boundary(text, from) - 1) : ~IsBoundary(text, i)
<1> DEFINE at == {i \in from..(Len(text) - 1) : IsBoundary(text, i)}
<1>1. Boundary(text, from) = IF at = {} THEN 0 ELSE Min(at)
  BY DEF Boundary, IsBoundary
<1>2. at \in SUBSET Nat /\ Len(text) \in Nat
  OBVIOUS
<1>3. CASE at = {}
  BY <1>1, <1>3
<1>4. CASE at # {}
  <2>1. Min(at) \in at /\ \A m \in at : Min(at) <= m
    BY <1>2, <1>4, MinIs
  <2> DEFINE b == Min(at)
  <2>2. Boundary(text, from) = b /\ b \in at /\ \A m \in at : b <= m
    BY <1>1, <1>4, <2>1
  <2> HIDE DEF b
  <2>3. b \in from..(Len(text) - 1) /\ IsBoundary(text, b)
    BY <2>2
  <2>4. \A i \in from..(b - 1) : ~IsBoundary(text, i)
    BY <1>2, <2>2, <2>3
  <2> QED BY <2>2, <2>3, <2>4
<1> QED BY <1>3, <1>4

LEMMA BoundaryType ==
  ASSUME NEW text \in Seq(Symbols), NEW from \in 1..(Len(text) + 1)
  PROVE  Boundary(text, from) = 0 \/ Boundary(text, from) \in from..(Len(text) - 1)
BY BoundaryIs

Split == [frames : Seq(Seq(Symbols)), rest : Seq(Symbols)]

\* The step of the loop that begins at a position, and the whole of it.
SplitAt(text, f, from) ==
  LET end == Boundary(text, from)
  IN  IF end = 0
        THEN [frames |-> <<>>, rest |-> SubSeq(text, from, Len(text))]
        ELSE [frames |-> <<SubSeq(text, from, end - 1)>> \o f[end + 2].frames,
              rest   |-> f[end + 2].rest]

Splits(text, f) == f = [from \in 1..(Len(text) + 1) |-> SplitAt(text, f, from)]

LEMMA SplitAtType ==
  ASSUME NEW text \in Seq(Symbols), NEW from \in 1..(Len(text) + 1), NEW f,
         Boundary(text, from) # 0 => f[Boundary(text, from) + 2] \in Split
  PROVE  SplitAt(text, f, from) \in Split
<1> DEFINE end == Boundary(text, from)
<1>0. Len(text) \in Nat
  OBVIOUS
<1>1. CASE end = 0
  <2>1. SubSeq(text, from, Len(text)) \in Seq(Symbols) /\ <<>> \in Seq(Seq(Symbols))
    BY <1>0, SubSeqProperties
  <2> QED BY <1>1, <2>1 DEF SplitAt, Split
<1>2. CASE end # 0
  <2>1. end \in from..(Len(text) - 1)
    BY <1>2, BoundaryType
  <2> HIDE DEF end
  <2>2. SubSeq(text, from, end - 1) \in Seq(Symbols)
    BY <1>0, <2>1, SubSeqProperties
  <2> DEFINE later == f[end + 2]
             first == SubSeq(text, from, end - 1)
  <2>3. later \in Split
    BY <1>2 DEF end
  <2>4. later.frames \in Seq(Seq(Symbols)) /\ later.rest \in Seq(Symbols)
    BY <2>3 DEF Split
  <2>5. SplitAt(text, f, from) = [frames |-> <<first>> \o later.frames, rest |-> later.rest]
    BY <1>2 DEF SplitAt, end
  <2> HIDE DEF later, first
  <2>6. <<first>> \o later.frames \in Seq(Seq(Symbols))
    BY <2>2, <2>4 DEF first
  <2> QED BY <2>4, <2>5, <2>6 DEF Split
<1> QED BY <1>1, <1>2

LEMMA SplitsExists ==
  ASSUME NEW text \in Seq(Symbols)
  PROVE  \E f \in [1..(Len(text) + 1) -> Split] : Splits(text, f)
<1> DEFINE L == Len(text) + 1
           Part(n, f) == \A i \in (L - n)..L : f[i] = SplitAt(text, f, i)
           Has(n) == \E f \in [(L - n)..L -> Split] : Part(n, f)
           N == {n \in Nat : n < L => Has(n)}
<1>0. L \in Nat \ {0} /\ Len(text) \in Nat
  OBVIOUS
<1>1. ASSUME NEW i \in 1..L PROVE Boundary(text, i) = 0 \/ Boundary(text, i) + 2 \in (i + 1)..L
  BY <1>0, BoundaryType
<1>2. ASSUME NEW n \in Nat, n < L, NEW f \in [(L - n + 1)..L -> Split],
             \A i \in (L - n + 1)..L : f[i] = SplitAt(text, f, i)
      PROVE  Has(n)
  <2> DEFINE j == L - n
             g == [i \in j..L |-> IF i = j THEN SplitAt(text, f, j) ELSE f[i]]
  <2>1. j \in 1..L /\ j + 1 = L - n + 1
    BY <1>0, <1>2
  <2> HIDE DEF L, j
  <2>2. SplitAt(text, f, j) \in Split
    <3>1. Boundary(text, j) # 0 => f[Boundary(text, j) + 2] \in Split
      BY <1>1, <1>2, <2>1
    <3> QED BY <2>1, <3>1, SplitAtType DEF L
  <2>3. g \in [j..L -> Split]
    <3>1. \A i \in j..L : i # j => f[i] \in Split
      BY <1>0, <1>2, <2>1
    <3> QED BY <2>2, <3>1
  <2>4. ASSUME NEW i \in j..L PROVE g[i] = SplitAt(text, g, i)
    <3>1. i \in 1..L
      BY <1>0, <2>1
    <3>2. SplitAt(text, g, i) = SplitAt(text, f, i)
      <4>1. CASE Boundary(text, i) = 0
        BY <4>1 DEF SplitAt
      <4>2. CASE Boundary(text, i) # 0
        <5>1. Boundary(text, i) + 2 \in (i + 1)..L
          BY <1>1, <3>1, <4>2
        <5>2. Boundary(text, i) + 2 \in j..L /\ Boundary(text, i) + 2 # j
          BY <1>0, <2>1, <5>1
        <5>3. g[Boundary(text, i) + 2] = f[Boundary(text, i) + 2]
          BY <5>2
        <5> HIDE DEF g
        <5> QED BY <5>3 DEF SplitAt
      <4> QED BY <4>1, <4>2
    <3>3. g[i] = SplitAt(text, f, i)
      BY <1>0, <1>2, <2>1
    <3> QED BY <3>2, <3>3
  <2> HIDE DEF g
  <2> QED BY <2>3, <2>4 DEF j
<1>3. Has(0)
  <2> DEFINE f == [i \in {} |-> <<>>]
  <2>1. (L - 0 + 1)..L = {}
    BY <1>0
  <2>2. f \in [(L - 0 + 1)..L -> Split]
    BY <2>1
  <2>3. \A i \in (L - 0 + 1)..L : f[i] = SplitAt(text, f, i)
    BY <2>1
  <2> HIDE DEF f, L, Has
  <2> QED BY <1>0, <1>2, <2>2, <2>3
<1>4. ASSUME NEW n \in Nat, n + 1 < L, Has(n) PROVE Has(n + 1)
  <2>1. PICK f \in [(L - n)..L -> Split] : Part(n, f)
    BY <1>4
  <2>2. L - (n + 1) + 1 = L - n
    BY <1>0
  <2> HIDE DEF L, Has
  <2>3. n + 1 \in Nat
    OBVIOUS
  <2>4. /\ f \in [(L - (n + 1) + 1)..L -> Split]
        /\ \A i \in (L - (n + 1) + 1)..L : f[i] = SplitAt(text, f, i)
    BY <2>1, <2>2, Zenon
  <2> QED BY <1>2, <1>4, <2>3, <2>4, Zenon
<1> HIDE DEF Has
<1>5. Nat \subseteq N
  <2>1. 0 \in N
    BY <1>3
  <2>2. ASSUME NEW n \in Nat, n \in N PROVE n + 1 \in N
    BY <1>0, <1>4, <2>2
  <2> HIDE DEF N
  <2> QED BY <2>1, <2>2, NumberInduction
<1>6. L - 1 \in Nat /\ L - 1 < L /\ L - (L - 1) = 1
  BY <1>0
<1>7. Has(L - 1)
  <2> HIDE DEF L
  <2> QED BY <1>5, <1>6
<1>8. PICK f \in [1..L -> Split] : \A i \in 1..L : f[i] = SplitAt(text, f, i)
  BY <1>6, <1>7 DEF Has
<1>9. Splits(text, f)
  BY <1>8 DEF Splits
<1> QED BY <1>9

\* What a boundary ends is one frame: a comment, which parseFrame drops, or an
\* event, of which it returns the account.
LEMMA ParsedFrames ==
  /\ parseFrame(<<":">>) = <<>>
  /\ \A a \in Accounts : parseFrame(<<"E", "N", "D", a>>) = <<a>>
<1>1. parseFrame(<<":">>) = <<>>
  BY DEF parseFrame
<1>2. ASSUME NEW a \in Accounts PROVE parseFrame(<<"E", "N", "D", a>>) = <<a>>
  <2> DEFINE frame == <<"E", "N", "D", a>>
             data == {i \in 1..(Len(frame) - 1) : frame[i] = "D" /\ frame[i + 1] \in Accounts}
  <2>1. Len(frame) = 4 /\ frame[1] = "E" /\ frame[2] = "N" /\ frame[3] = "D" /\ frame[4] = a
    OBVIOUS
  <2>2. parseFrame(frame) = IF data = {} THEN <<>> ELSE <<frame[Min(data) + 1]>>
    BY DEF parseFrame
  <2> HIDE DEF frame
  <2>3. data = {3}
    BY <2>1
  <2>4. Min(data) = 3
    BY <2>3 DEF Min
  <2> QED BY <2>1, <2>2, <2>3, <2>4 DEF frame
<1> QED BY <1>1, <1>2

LEMMA parseFrameType ==
  ASSUME NEW frame \in Seq(Symbols)
  PROVE  parseFrame(frame) \in Seq(Accounts)
<1> DEFINE data == {i \in 1..(Len(frame) - 1) : frame[i] = "D" /\ frame[i + 1] \in Accounts}
<1>1. parseFrame(frame) = IF data = {} THEN <<>> ELSE <<frame[Min(data) + 1]>>
  BY DEF parseFrame
<1>2. data \in SUBSET Nat
  OBVIOUS
<1>3. data # {} => Min(data) \in data
  BY <1>2, MinIs
<1>4. data # {} => frame[Min(data) + 1] \in Accounts
  BY <1>3
<1> HIDE DEF data
<1> QED BY <1>1, <1>4

LEMMA TextPart ==
  ASSUME NEW text \in Seq(Symbols), NEW m \in 1..Len(text), NEW n \in m..Len(text)
  PROVE  /\ SubSeq(text, m, n) \in Seq(Symbols) /\ Len(SubSeq(text, m, n)) = n - m + 1
         /\ \A i \in 1..(n - m + 1) : SubSeq(text, m, n)[i] = text[m + i - 1]
<1>1. m \in Int /\ n \in Int /\ \A i \in m..n : text[i] \in Symbols
  OBVIOUS
<1>2. m <= n
  OBVIOUS
<1> QED BY <1>1, <1>2, SubSeqProperties

LEMMA FrameAt ==
  ASSUME NEW text \in Seq(Symbols), FrameText(text), NEW from \in 1..(Len(text) + 1),
         FrameStart(text, from), Boundary(text, from) # 0
  PROVE  LET b == Boundary(text, from)
         IN  /\ b \in from..(Len(text) - 1) /\ FrameStart(text, b + 2)
             /\ parseFrame(SubSeq(text, from, b - 1)) = AccountsIn(SubSeq(text, from, b + 1))
<1> DEFINE b == Boundary(text, from)
           L == Len(text)
<1>1. /\ b \in from..(L - 1) /\ IsBoundary(text, b) /\ L \in Nat
      /\ \A i \in from..(b - 1) : ~IsBoundary(text, i)
  BY BoundaryIs
<1> HIDE DEF b
<1>2. text[b] = "N" /\ text[b + 1] = "N"
  BY <1>1 DEF IsBoundary
<1>3. FrameStart(text, b + 2)
  BY <1>1, <1>2 DEF FrameStart
<1>4. \A i \in 1..L : Follows(text, i)
  BY DEF FrameText
<1>5. from \in 1..L /\ from + 1 \in 1..L
  BY <1>1
<1>6. text[from] \in {":", "E"}
  BY <1>4, <1>5 DEF Follows, FrameStart
<1>7. text[from + 1] = "N"
  <2>1. Follows(text, from + 1) /\ (from + 1) - 1 = from /\ from + 1 > 1
    BY <1>4, <1>5
  <2> QED BY <1>6, <2>1 DEF Follows
<1>8. b # from
  BY <1>2, <1>6
<1>9. from + 2 \in 1..L /\ from + 2 > 2 /\ (from + 2) - 1 = from + 1 /\ (from + 2) - 2 = from
  BY <1>1, <1>8
<1>10. Follows(text, from + 2)
  BY <1>4, <1>9
<1>11. CASE text[from] = ":"
  <2>1. text[from + 2] = "N"
    BY <1>7, <1>9, <1>10, <1>11 DEF Follows
  <2>2. b = from + 1
    <3>1. IsBoundary(text, from + 1)
      BY <1>7, <2>1, <1>9 DEF IsBoundary
    <3> QED BY <1>1, <1>8, <3>1
  <2>3. SubSeq(text, from, b - 1) = <<":">>
    <3> DEFINE s == SubSeq(text, from, from)
               t == <<":">>
    <3>1. s \in Seq(Symbols) /\ Len(s) = 1 /\ s[1] = text[from]
      BY <1>5
    <3>2. t \in Seq(Symbols) /\ Len(t) = 1 /\ t[1] = ":"
      BY SymbolsAre
    <3> HIDE DEF s, t
    <3>3. \A i \in 1..Len(s) : s[i] = t[i]
      BY <1>11, <3>1, <3>2
    <3>4. s = t
      BY <3>1, <3>2, <3>3, SeqEqual
    <3>5. b - 1 = from
      BY <2>2
    <3> QED BY <3>4, <3>5 DEF s, t
  <2>4. SubSeq(text, from, b + 1) = CommentFrame
    <3> DEFINE s == SubSeq(text, from, from + 2)
               t == CommentFrame
    <3>1. /\ s \in Seq(Symbols) /\ Len(s) = 3
          /\ s[1] = text[from] /\ s[2] = text[from + 1] /\ s[3] = text[from + 2]
      <4>1. /\ s \in Seq(Symbols) /\ Len(s) = 3
            /\ \A i \in 1..3 : s[i] = text[from + i - 1]
        <5>1. from + 2 \in from..L /\ (from + 2) - from + 1 = 3
          BY <1>5, <1>9
        <5> QED BY <1>5, <5>1, TextPart
      <4> HIDE DEF s
      <4> QED BY <1>5, <4>1
    <3>2. t \in Seq(Symbols) /\ Len(t) = 3 /\ t[1] = ":" /\ t[2] = "N" /\ t[3] = "N"
      BY SymbolsAre DEF CommentFrame
    <3> HIDE DEF s, t
    <3>3. \A i \in 1..Len(s) : s[i] = t[i]
      BY <1>7, <1>11, <2>1, <3>1, <3>2
    <3>4. s = t
      BY <3>1, <3>2, <3>3, SeqEqual
    <3>5. b + 1 = from + 2
      BY <2>2
    <3> QED BY <3>4, <3>5 DEF s, t
  <2>5. AccountsIn(SubSeq(text, from, b + 1)) = <<>>
    BY <2>4, AccountsInFrames
  <2> QED BY <1>1, <1>3, <2>3, <2>5, ParsedFrames DEF b
<1>12. CASE text[from] = "E"
  <2>1. text[from + 2] = "D"
    BY <1>7, <1>9, <1>10, <1>12 DEF Follows
  <2>2. b # from + 1 /\ b # from + 2
    BY <1>2, <1>9, <1>1, <2>1
  <2>3. from + 3 \in 1..L /\ from + 3 > 1 /\ (from + 3) - 1 = from + 2
    BY <1>1, <1>8, <2>2
  <2>4. text[from + 3] \in Accounts
    BY <1>4, <2>1, <2>3 DEF Follows
  <2>5. text[from + 3] # "N" /\ b # from + 3
    BY <1>2, <2>4, SymbolsAre
  <2>6. from + 4 \in 1..L /\ from + 4 > 1 /\ (from + 4) - 1 = from + 3
    BY <1>1, <1>8, <2>2, <2>5
  <2>7. text[from + 4] = "N"
    BY <1>4, <2>4, <2>6 DEF Follows
  <2>8. from + 5 \in 1..L /\ from + 5 > 2 /\ (from + 5) - 1 = from + 4 /\ (from + 5) - 2 = from + 3
        /\ (from + 4) + 1 = from + 5
    BY <1>1, <1>8, <2>2, <2>5
  <2>9. text[from + 5] = "N"
    BY <1>4, <2>4, <2>7, <2>8 DEF Follows
  <2>10. b = from + 4
    <3>1. IsBoundary(text, from + 4)
      BY <2>7, <2>8, <2>9 DEF IsBoundary
    <3> QED BY <1>1, <1>8, <2>2, <2>5, <3>1
  <2> DEFINE a == text[from + 3]
  <2>11. SubSeq(text, from, b - 1) = <<"E", "N", "D", a>>
    <3> DEFINE s == SubSeq(text, from, from + 3)
               t == <<"E", "N", "D", a>>
    <3>1. /\ s \in Seq(Symbols) /\ Len(s) = 4
          /\ s[1] = text[from] /\ s[2] = text[from + 1] /\ s[3] = text[from + 2] /\ s[4] = text[from + 3]
      <4>1. /\ s \in Seq(Symbols) /\ Len(s) = 4
            /\ \A i \in 1..4 : s[i] = text[from + i - 1]
        <5>1. from + 3 \in from..L /\ (from + 3) - from + 1 = 4
          BY <1>5, <2>3
        <5> QED BY <1>5, <5>1, TextPart
      <4> HIDE DEF s
      <4> QED BY <1>5, <4>1
    <3>2. t \in Seq(Symbols) /\ Len(t) = 4 /\ t[1] = "E" /\ t[2] = "N" /\ t[3] = "D" /\ t[4] = a
      BY <2>4, SymbolsAre
    <3> HIDE DEF s, t
    <3>3. \A i \in 1..Len(s) : s[i] = t[i]
      BY <1>7, <1>12, <2>1, <3>1, <3>2
    <3>4. s = t
      BY <3>1, <3>2, <3>3, SeqEqual
    <3>5. b - 1 = from + 3
      BY <2>10
    <3> QED BY <3>4, <3>5 DEF s, t
  <2>12. SubSeq(text, from, b + 1) = EventFrame(a)
    <3> DEFINE s == SubSeq(text, from, from + 5)
               t == EventFrame(a)
    <3>1. /\ s \in Seq(Symbols) /\ Len(s) = 6
          /\ s[1] = text[from] /\ s[2] = text[from + 1] /\ s[3] = text[from + 2] /\ s[4] = text[from + 3]
          /\ s[5] = text[from + 4] /\ s[6] = text[from + 5]
      <4>1. /\ s \in Seq(Symbols) /\ Len(s) = 6
            /\ \A i \in 1..6 : s[i] = text[from + i - 1]
        <5>1. from + 5 \in from..L /\ (from + 5) - from + 1 = 6
          BY <1>5, <2>8
        <5> QED BY <1>5, <5>1, TextPart
      <4> HIDE DEF s
      <4> QED BY <1>5, <4>1
    <3>2. t \in Seq(Symbols) /\ Len(t) = 6 /\ t[1] = "E" /\ t[2] = "N" /\ t[3] = "D" /\ t[4] = a
          /\ t[5] = "N" /\ t[6] = "N"
      BY <2>4, SymbolsAre DEF EventFrame
    <3> HIDE DEF s, t
    <3>3. \A i \in 1..Len(s) : s[i] = t[i]
      BY <1>7, <1>12, <2>1, <2>7, <2>9, <3>1, <3>2
    <3>4. s = t
      BY <3>1, <3>2, <3>3, SeqEqual
    <3>5. b + 1 = from + 5
      BY <2>10
    <3> QED BY <3>4, <3>5 DEF s, t
  <2>13. AccountsIn(SubSeq(text, from, b + 1)) = <<a>>
    BY <2>4, <2>12, AccountsInFrames
  <2>14. parseFrame(SubSeq(text, from, b - 1)) = <<a>>
    BY <2>4, <2>11, ParsedFrames
  <2> QED BY <1>1, <1>3, <2>13, <2>14 DEF b
<1> QED BY <1>6, <1>11, <1>12

Parsed(frames) == [k \in 1..Len(frames) |-> parseFrame(frames[k])]

LEMMA ParsedType ==
  ASSUME NEW frames \in Seq(Seq(Symbols))
  PROVE  /\ Parsed(frames) \in Seq(Seq(Accounts)) /\ Len(Parsed(frames)) = Len(frames)
         /\ \A k \in 1..Len(frames) : Parsed(frames)[k] = parseFrame(frames[k])
<1>1. \A k \in 1..Len(frames) : parseFrame(frames[k]) \in Seq(Accounts)
  BY parseFrameType
<1>2. Parsed(frames) \in [1..Len(frames) -> Seq(Accounts)] /\ Len(frames) \in Nat
  BY <1>1 DEF Parsed
<1> QED BY <1>2, IsASeq DEF Parsed

LEMMA ParsedCons ==
  ASSUME NEW frame \in Seq(Symbols), NEW frames \in Seq(Seq(Symbols))
  PROVE  FlattenSeq(Parsed(<<frame>> \o frames)) = parseFrame(frame) \o FlattenSeq(Parsed(frames))
<1> DEFINE all == <<frame>> \o frames
           one == <<parseFrame(frame)>>
           both == one \o Parsed(frames)
<1>1. /\ all \in Seq(Seq(Symbols)) /\ Len(all) = Len(frames) + 1 /\ Len(frames) \in Nat
      /\ all[1] = frame /\ \A k \in 2..(Len(frames) + 1) : all[k] = frames[k - 1]
  OBVIOUS
<1>2. parseFrame(frame) \in Seq(Accounts)
  BY parseFrameType
<1>3. one \in Seq(Seq(Accounts)) /\ FlattenSeq(one) = parseFrame(frame)
  BY <1>2, FlattenOne
<1>4. /\ Parsed(frames) \in Seq(Seq(Accounts)) /\ Len(Parsed(frames)) = Len(frames)
      /\ \A k \in 1..Len(frames) : Parsed(frames)[k] = parseFrame(frames[k])
  BY ParsedType
<1>5. /\ both \in Seq(Seq(Accounts)) /\ Len(both) = Len(frames) + 1
      /\ both[1] = parseFrame(frame) /\ \A k \in 2..(Len(frames) + 1) : both[k] = Parsed(frames)[k - 1]
  <2> DEFINE later == Parsed(frames)
  <2>1. one \in Seq(Seq(Accounts)) /\ Len(one) = 1 /\ one[1] = parseFrame(frame)
        /\ later \in Seq(Seq(Accounts)) /\ Len(later) = Len(frames)
    BY <1>3, <1>4
  <2> HIDE DEF one, later
  <2>2. /\ one \o later \in Seq(Seq(Accounts)) /\ Len(one \o later) = Len(frames) + 1
        /\ (one \o later)[1] = one[1] /\ \A k \in 2..(Len(frames) + 1) : (one \o later)[k] = later[k - 1]
    <3>1. /\ one \o later \in Seq(Seq(Accounts)) /\ Len(one \o later) = Len(one) + Len(later)
          /\ \A k \in 1..(Len(one) + Len(later)) :
               (one \o later)[k] = IF k <= Len(one) THEN one[k] ELSE later[k - Len(one)]
      BY <2>1, ConcatProperties
    <3> QED BY <1>1, <2>1, <3>1, SMTT(30)
  <2> QED BY <2>1, <2>2 DEF later
<1> HIDE DEF all, both, one
<1>6. /\ Parsed(all) \in Seq(Seq(Accounts)) /\ Len(Parsed(all)) = Len(all)
      /\ \A k \in 1..Len(all) : Parsed(all)[k] = parseFrame(all[k])
  BY <1>1, ParsedType
<1>7. ASSUME NEW k \in 1..Len(both) PROVE both[k] = Parsed(all)[k]
  <2>1. CASE k = 1
    BY <1>1, <1>5, <1>6, <2>1
  <2>2. CASE k # 1
    <3>1. k \in 2..(Len(frames) + 1) /\ k - 1 \in 1..Len(frames) /\ k \in 1..Len(all)
      BY <1>1, <1>5, <2>2
    <3> QED BY <1>1, <1>4, <1>5, <1>6, <3>1
  <2> QED BY <2>1, <2>2
<1>8. Parsed(all) = both
  BY <1>1, <1>5, <1>6, <1>7, SeqEqual
<1>9. FlattenSeq(both) = FlattenSeq(one) \o FlattenSeq(Parsed(frames))
  BY <1>3, <1>4, FlattenConcat DEF both
<1> QED BY <1>3, <1>8, <1>9 DEF all

\* From a position where a frame begins, a split gives every account of the
\* text to a frame or leaves it in the rest, which begins with a frame.
SplitFrom(text, sp, i) ==
  \E j \in i..(Len(text) + 1) :
    /\ FrameStart(text, j) /\ sp.rest = SubSeq(text, j, Len(text))
    /\ AccountsIn(SubSeq(text, i, Len(text))) = FlattenSeq(Parsed(sp.frames)) \o AccountsIn(sp.rest)

LEMMA SplitFromStep ==
  ASSUME NEW text \in Seq(Symbols), FrameText(text), NEW f, NEW i \in 1..(Len(text) + 1),
         FrameStart(text, i), f[i] = SplitAt(text, f, i),
         Boundary(text, i) # 0 => /\ f[Boundary(text, i) + 2] \in Split
                                  /\ SplitFrom(text, f[Boundary(text, i) + 2], Boundary(text, i) + 2)
  PROVE  SplitFrom(text, f[i], i)
<1> DEFINE b == Boundary(text, i)
           L == Len(text)
<1>0. L \in Nat
  OBVIOUS
<1>1. CASE b = 0
  <2> DEFINE s == SubSeq(text, i, L)
  <2>1. f[i] = [frames |-> <<>>, rest |-> s]
    BY <1>1 DEF SplitAt
  <2>2. s \in Seq(Symbols)
    BY <1>0
  <2>3. AccountsIn(s) \in Seq(Accounts)
    BY <2>2, AccountsInType
  <2>4. Parsed(<<>>) = <<>>
    BY DEF Parsed
  <2> HIDE DEF s
  <2>5. f[i].rest = s /\ f[i].frames = <<>> /\ <<>> \o AccountsIn(s) = AccountsIn(s)
    BY <2>1, <2>3
  <2>6. FlattenSeq(Parsed(f[i].frames)) = <<>>
    BY <2>4, <2>5, FlattenEmpty
  <2>7. i \in i..(L + 1)
    BY <1>0
  <2> QED BY <2>5, <2>6, <2>7 DEF SplitFrom, s
<1>2. CASE b # 0
  <2> DEFINE later == f[b + 2]
             first == SubSeq(text, i, b - 1)
             whole == SubSeq(text, i, b + 1)
             tail == SubSeq(text, b + 2, L)
  <2>1. /\ b \in i..(L - 1) /\ FrameStart(text, b + 2)
        /\ parseFrame(first) = AccountsIn(whole)
    BY <1>2, FrameAt
  <2>2. later \in Split /\ SplitFrom(text, later, b + 2)
    BY <1>2
  <2>3. f[i] = [frames |-> <<first>> \o later.frames, rest |-> later.rest]
    BY <1>2 DEF SplitAt
  <2> HIDE DEF b
  <2>4. first \in Seq(Symbols) /\ whole \in Seq(Symbols) /\ tail \in Seq(Symbols)
    BY <1>0, <2>1
  <2>5. whole \o tail = SubSeq(text, i, L)
    <3>1. b + 1 \in (i - 1)..L /\ L \in (b + 1)..L /\ (b + 1) + 1 = b + 2
      BY <1>0, <2>1
    <3> QED BY <3>1, ConcatAdjacentSubSeq
  <2>6. PICK j \in (b + 2)..(L + 1) :
          /\ FrameStart(text, j) /\ later.rest = SubSeq(text, j, L)
          /\ AccountsIn(tail) = FlattenSeq(Parsed(later.frames)) \o AccountsIn(later.rest)
    BY <2>2 DEF SplitFrom
  <2>7. later.frames \in Seq(Seq(Symbols)) /\ later.rest \in Seq(Symbols)
    BY <2>2 DEF Split
  <2> DEFINE A == AccountsIn(whole)
             B == FlattenSeq(Parsed(later.frames))
             C == AccountsIn(later.rest)
  <2>8. A \in Seq(Accounts) /\ B \in Seq(Accounts) /\ C \in Seq(Accounts)
    BY <2>4, <2>7, AccountsInType, ParsedType, FlattenType
  <2>9. AccountsIn(SubSeq(text, i, L)) = A \o (B \o C)
    BY <2>4, <2>5, <2>6, AccountsInConcat
  <2>10. FlattenSeq(Parsed(f[i].frames)) = A \o B /\ f[i].rest = later.rest
    <3>1. f[i].frames = <<first>> \o later.frames /\ f[i].rest = later.rest
      BY <2>3
    <3> HIDE DEF first, later
    <3> QED BY <2>1, <2>4, <2>7, <3>1, ParsedCons
  <2> HIDE DEF A, B, C
  <2>11. (A \o B) \o C = A \o (B \o C)
    BY <2>8, AccountsAssociate, Zenon
  <2>12. j \in i..(L + 1)
    BY <1>0, <2>1, <2>6
  <2> QED BY <2>6, <2>9, <2>10, <2>11, <2>12 DEF SplitFrom, C
<1> QED BY <1>1, <1>2

LEMMA SplitFramesIs ==
  ASSUME NEW text \in Seq(Symbols), FrameText(text)
  PROVE  splitFrames(text) \in Split /\ SplitFrom(text, splitFrames(text), 1)
<1> DEFINE L == Len(text) + 1
           f == CHOOSE h : Splits(text, h)
           Good(i) == f[i] \in Split /\ (FrameStart(text, i) => SplitFrom(text, f[i], i))
           All(n) == \A i \in 1..L : i >= L - n => Good(i)
           N == {n \in Nat : All(n)}
<1>0. L \in Nat \ {0} /\ Len(text) \in Nat
  OBVIOUS
<1>1. Splits(text, f)
  BY SplitsExists
<1>2. splitFrames(text) = f[1]
  BY DEF splitFrames, Splits, SplitAt
<1>3. \A i \in 1..L : f[i] = SplitAt(text, f, i)
  BY <1>1 DEF Splits
<1> HIDE DEF f
<1>4. ASSUME NEW i \in 1..L, Boundary(text, i) # 0 => Good(Boundary(text, i) + 2)
      PROVE  Good(i)
  <2>1. f[i] = SplitAt(text, f, i)
    BY <1>3
  <2>2. f[i] \in Split
    BY <1>4, <2>1, SplitAtType
  <2>3. ASSUME FrameStart(text, i) PROVE SplitFrom(text, f[i], i)
    <3>1. Boundary(text, i) # 0 => FrameStart(text, Boundary(text, i) + 2)
      BY <2>3, FrameAt
    <3>2. Boundary(text, i) # 0 => /\ f[Boundary(text, i) + 2] \in Split
                                   /\ SplitFrom(text, f[Boundary(text, i) + 2], Boundary(text, i) + 2)
      BY <1>4, <3>1
    <3> QED BY <2>1, <2>3, <3>2, SplitFromStep
  <2> QED BY <2>2, <2>3
<1> HIDE DEF Good
<1>5. ASSUME NEW i \in 1..L PROVE Boundary(text, i) = 0 \/ Boundary(text, i) + 2 \in (i + 1)..L
  BY <1>0, BoundaryType
<1>6. All(0)
  <2> SUFFICES ASSUME NEW i \in 1..L, i >= L - 0 PROVE Good(i)
    OBVIOUS
  <2>1. Boundary(text, i) = 0
    BY <1>0, <1>5
  <2> QED BY <1>4, <2>1
<1>7. ASSUME NEW n \in Nat, All(n) PROVE All(n + 1)
  <2> SUFFICES ASSUME NEW i \in 1..L, i >= L - (n + 1) PROVE Good(i)
    OBVIOUS
  <2>1. ASSUME Boundary(text, i) # 0 PROVE Good(Boundary(text, i) + 2)
    <3>1. Boundary(text, i) + 2 \in (i + 1)..L
      BY <1>5, <2>1
    <3>2. Boundary(text, i) + 2 \in 1..L /\ Boundary(text, i) + 2 >= L - n
      BY <1>0, <3>1
    <3> QED BY <1>7, <3>2
  <2> QED BY <1>4, <2>1
<1> HIDE DEF All
<1>8. Nat \subseteq N
  <2>1. 0 \in N
    BY <1>6
  <2>2. ASSUME NEW n \in Nat, n \in N PROVE n + 1 \in N
    BY <1>7, <2>2
  <2> HIDE DEF N
  <2> QED BY <2>1, <2>2, NumberInduction
<1>9. All(L)
  BY <1>0, <1>8
<1>10. Good(1)
  BY <1>0, <1>9 DEF All
<1> QED BY <1>2, <1>10 DEF Good, FrameStart

-----------------------------------------------------------------------------
(* Texts of frames *)

\* What begins where a frame begins is again such a text.
LEMMA SuffixText ==
  ASSUME NEW t \in Seq(Symbols), FrameText(t), Complete(t), NEW j \in 1..(Len(t) + 1), FrameStart(t, j)
  PROVE  FrameText(SubSeq(t, j, Len(t))) /\ Complete(SubSeq(t, j, Len(t)))
<1> DEFINE s == SubSeq(t, j, Len(t))
           L == Len(t)
<1>1. /\ s \in Seq(Symbols) /\ L \in Nat /\ Len(s) = L - j + 1 /\ Len(s) \in Nat
      /\ \A i \in 1..Len(s) : s[i] = t[j + i - 1] /\ j + i - 1 \in 1..L
  OBVIOUS
<1> HIDE DEF s, L
<1>2. \A i \in 1..L : Follows(t, i)
  BY DEF FrameText, L
<1>3. ASSUME NEW i \in 1..Len(s) PROVE Follows(s, i)
  <2> DEFINE k == j + i - 1
  <2>1. k \in 1..L /\ s[i] = t[k] /\ Follows(t, k)
    BY <1>1, <1>2
  <2>2. i = 1 => s[i] \in {":", "E"}
    <3>1. ASSUME i = 1 PROVE k = j /\ t[j] \in {":", "E"}
      BY <2>1, <3>1 DEF Follows, FrameStart
    <3> QED BY <2>1, <3>1
  <2>3. i > 1 => s[i - 1] = t[k - 1] /\ k > 1
    BY <1>1
  <2>4. i > 2 => s[i - 2] = t[k - 2] /\ k > 2
    BY <1>1
  <2> HIDE DEF k
  <2>5. i > 1 => /\ s[i - 1] \in {":", "E"} \cup Accounts => s[i] = "N"
                 /\ s[i - 1] = "D" => s[i] \in Accounts
    BY <2>1, <2>3 DEF Follows
  <2>6. i > 2 => i > 1
    BY <1>1
  <2>7. i > 2 /\ s[i - 1] = "N" => /\ s[i - 2] \in {":"} \cup Accounts => s[i] = "N"
                                   /\ s[i - 2] = "E" => s[i] = "D"
                                   /\ s[i - 2] = "N" => s[i] \in {":", "E"}
    BY <2>1, <2>3, <2>4, <2>6 DEF Follows
  <2> QED BY <2>2, <2>5, <2>7 DEF Follows
<1>4. FrameText(s)
  BY <1>3 DEF FrameText
<1>5. Complete(s)
  <2> SUFFICES ASSUME Len(s) # 0
               PROVE  Len(s) >= 2 /\ s[Len(s)] = "N" /\ s[Len(s) - 1] = "N"
    BY DEF Complete
  <2>1. L >= 2 /\ t[L] = "N" /\ t[L - 1] = "N"
    BY <1>1 DEF Complete, L
  <2>2. s[Len(s)] = "N"
    BY <1>1, <2>1
  <2>3. s[1] \in {":", "E"}
    BY <1>1, <1>3 DEF Follows
  <2>4. Len(s) >= 2
    BY <1>1, <2>2, <2>3
  <2>5. s[Len(s) - 1] = t[L - 1]
    BY <1>1, <2>4
  <2> QED BY <2>1, <2>2, <2>4, <2>5
<1> QED BY <1>4, <1>5 DEF s, L

LEMMA PrefixText ==
  ASSUME NEW s \in Seq(Symbols), NEW t \in Seq(Symbols), FrameText(s \o t)
  PROVE  FrameText(s)
<1> DEFINE st == s \o t
<1>1. /\ Len(s) \in Nat /\ Len(st) >= Len(s) /\ Len(st) \in Nat
      /\ \A i \in 1..Len(s) : st[i] = s[i]
  OBVIOUS
<1>2. \A i \in 1..Len(st) : Follows(st, i)
  BY DEF FrameText
<1> HIDE DEF st
<1>3. ASSUME NEW i \in 1..Len(s) PROVE Follows(s, i)
  <2>1. Follows(st, i) /\ st[i] = s[i] /\ (i > 1 => st[i - 1] = s[i - 1]) /\ (i > 2 => st[i - 2] = s[i - 2])
        /\ (i > 2 => i > 1)
    BY <1>1, <1>2
  <2> QED BY <2>1, Zenon DEF Follows
<1> QED BY <1>3 DEF FrameText

\* Whole frames may be followed by more text of frames.
LEMMA ConcatText ==
  ASSUME NEW t \in Seq(Symbols), NEW f \in Seq(Symbols),
         FrameText(t), Complete(t), FrameText(f), Complete(f)
  PROVE  FrameText(t \o f) /\ Complete(t \o f)
<1> DEFINE tf == t \o f
           L == Len(t)
<1>1. /\ tf \in Seq(Symbols) /\ L \in Nat /\ Len(f) \in Nat /\ Len(tf) = L + Len(f)
      /\ \A i \in 1..L : tf[i] = t[i]
      /\ \A i \in 1..Len(f) : tf[L + i] = f[i]
  OBVIOUS
<1> HIDE DEF tf, L
<1>2. L = 0 \/ (L >= 2 /\ tf[L] = "N" /\ tf[L - 1] = "N")
  <2>1. L = 0 \/ (L >= 2 /\ t[L] = "N" /\ t[L - 1] = "N")
    BY DEF Complete, L
  <2>2. L >= 2 => L \in 1..L /\ L - 1 \in 1..L
    BY <1>1
  <2> QED BY <1>1, <2>1, <2>2
<1>3. ASSUME NEW i \in 1..Len(tf) PROVE Follows(tf, i)
  <2>1. CASE i <= L
    <3>1. Follows(t, i) /\ tf[i] = t[i] /\ (i > 1 => tf[i - 1] = t[i - 1])
          /\ (i > 2 => tf[i - 2] = t[i - 2]) /\ (i > 2 => i > 1)
      <4>1. i \in 1..L /\ (i > 1 => i - 1 \in 1..L) /\ (i > 2 => i - 2 \in 1..L /\ i > 1)
        BY <1>1, <2>1
      <4>2. \A k \in 1..L : Follows(t, k)
        BY DEF FrameText, L
      <4> QED BY <1>1, <4>1, <4>2
    <3> QED BY <3>1, Zenon DEF Follows
  <2>2. CASE i > L
    <3> DEFINE k == i - L
    <3>0. k \in 1..Len(f) /\ i = L + k
      BY <1>1, <2>2
    <3>1. k \in 1..Len(f) /\ i = L + k /\ tf[i] = f[k]
      <4> HIDE DEF k
      <4> QED BY <1>1, <3>0, Zenon
    <3>2. Follows(f, k)
      BY <3>1 DEF FrameText
    <3> HIDE DEF k
    <3>3. k > 1 => tf[i - 1] = f[k - 1]
      <4>1. k > 1 => k - 1 \in 1..Len(f) /\ i - 1 = L + (k - 1)
        BY <1>1, <3>1
      <4> QED BY <1>1, <4>1, Zenon
    <3>4. k > 2 => tf[i - 2] = f[k - 2]
      <4>1. k > 2 => k - 2 \in 1..Len(f) /\ i - 2 = L + (k - 2)
        BY <1>1, <3>1
      <4> QED BY <1>1, <4>1, Zenon
    <3>5. CASE k = 1
      <4>1. tf[i] \in {":", "E"}
        BY <3>1, <3>2, <3>5 DEF Follows
      <4>2. CASE L = 0
        BY <3>1, <3>5, <4>1, <4>2 DEF Follows
      <4>3. CASE L # 0
        <5>1. tf[i - 1] = "N" /\ tf[i - 2] = "N" /\ i # 1
          BY <1>1, <1>2, <3>1, <3>5, <4>3
        <5> QED BY <4>1, <5>1, SymbolsAre DEF Follows
      <4> QED BY <4>2, <4>3
    <3>6. CASE k = 2
      <4>1. tf[i - 1] = f[1] /\ f[1] \in {":", "E"} /\ tf[i] = "N" /\ i # 1
        <5>1. f[1] \in {":", "E"}
          BY <3>1, <3>6 DEF FrameText, Follows
        <5>2. tf[i] = "N"
          BY <3>1, <3>2, <3>6, <5>1 DEF Follows
        <5> QED BY <1>1, <3>1, <3>3, <3>6, <5>1, <5>2
      <4> QED BY <4>1 DEF Follows
    <3>7. CASE k > 2
      <4>1. k > 1 /\ k # 1 /\ i # 1
        BY <1>1, <3>1, <3>7
      <4> QED BY <3>1, <3>2, <3>3, <3>4, <3>7, <4>1, Zenon DEF Follows
    <3> QED BY <3>1, <3>5, <3>6, <3>7
  <2> QED BY <1>1, <2>1, <2>2
<1>4. FrameText(tf)
  BY <1>3 DEF FrameText
<1>5. Complete(tf)
  <2>1. CASE Len(f) = 0
    BY <1>1, <1>2, <2>1 DEF Complete
  <2>2. CASE Len(f) # 0
    <3>1. Len(f) >= 2 /\ f[Len(f)] = "N" /\ f[Len(f) - 1] = "N"
      BY <2>2 DEF Complete
    <3>2. tf[L + Len(f)] = f[Len(f)] /\ tf[L + (Len(f) - 1)] = f[Len(f) - 1]
      <4>1. Len(f) \in 1..Len(f) /\ Len(f) - 1 \in 1..Len(f)
        BY <1>1, <3>1
      <4> QED BY <1>1, <4>1
    <3>3. L + (Len(f) - 1) = Len(tf) - 1 /\ Len(tf) >= 2
      BY <1>1, <3>1
    <3> QED BY <1>1, <3>1, <3>2, <3>3 DEF Complete
  <2> QED BY <2>1, <2>2
<1> QED BY <1>4, <1>5 DEF tf

LEMMA FramesAreText ==
  /\ FrameText(<<>>) /\ Complete(<<>>)
  /\ FrameText(CommentFrame) /\ Complete(CommentFrame)
  /\ \A a \in Accounts : FrameText(EventFrame(a)) /\ Complete(EventFrame(a))
<1>1. FrameText(<<>>) /\ Complete(<<>>)
  BY DEF FrameText, Complete
<1>2. FrameText(CommentFrame) /\ Complete(CommentFrame)
  <2> DEFINE t == CommentFrame
  <2>1. Len(t) = 3 /\ t[1] = ":" /\ t[2] = "N" /\ t[3] = "N"
    BY DEF CommentFrame
  <2> HIDE DEF t
  <2>2. \A i \in 1..3 : Follows(t, i)
    BY <2>1, SymbolsAre DEF Follows
  <2> QED BY <2>1, <2>2 DEF FrameText, Complete, t
<1>3. ASSUME NEW a \in Accounts PROVE FrameText(EventFrame(a)) /\ Complete(EventFrame(a))
  <2> DEFINE t == EventFrame(a)
  <2>1. Len(t) = 6 /\ t[1] = "E" /\ t[2] = "N" /\ t[3] = "D" /\ t[4] = a /\ t[5] = "N" /\ t[6] = "N"
    BY DEF EventFrame
  <2>2. a \in Accounts /\ a \notin {"N", ":", "E", "D"} /\ {"N", ":", "E", "D"} \cap Accounts = {}
    BY SymbolsAre
  <2> HIDE DEF t
  <2>3. Follows(t, 1) /\ Follows(t, 2) /\ Follows(t, 3)
    BY <2>1, <2>2 DEF Follows
  <2>4. Follows(t, 4) /\ Follows(t, 5) /\ Follows(t, 6)
    BY <2>1, <2>2 DEF Follows
  <2>5. \A i \in 1..6 : Follows(t, i)
    BY <2>3, <2>4
  <2> QED BY <2>1, <2>5 DEF FrameText, Complete, t
<1> QED BY <1>1, <1>2, <1>3

\* A chunk of any length is read: no account is lost, repeated or moved.
LEMMA ReadText ==
  ASSUME NEW buf \in Seq(Symbols), NEW w \in Seq(Symbols), NEW n \in 1..Len(w), NEW h \in Seq(Accounts),
         FrameText(buf \o w), Complete(buf \o w)
  PROVE  LET text == buf \o SubSeq(w, 1, n)
             left == SubSeq(w, n + 1, Len(w))
             sp   == splitFrames(text)
             got  == FlattenSeq(Parsed(sp.frames))
         IN  /\ sp.rest \in Seq(Symbols) /\ got \in Seq(Accounts) /\ left \in Seq(Symbols)
             /\ FrameText(sp.rest \o left) /\ Complete(sp.rest \o left)
             /\ (h \o got) \o AccountsIn(sp.rest \o left) = h \o AccountsIn(buf \o w)
<1> DEFINE chunk == SubSeq(w, 1, n)
           text == buf \o chunk
           left == SubSeq(w, n + 1, Len(w))
           sp   == splitFrames(text)
           got  == FlattenSeq(Parsed(sp.frames))
           all  == buf \o w
           L    == Len(text)
<1>1. chunk \in Seq(Symbols) /\ left \in Seq(Symbols) /\ chunk \o left = w
  <2>1. n \in (1 - 1)..Len(w) /\ Len(w) \in n..Len(w) /\ 1 \in 1..(Len(w) + 1)
    OBVIOUS
  <2>2. chunk \o left = SubSeq(w, 1, Len(w))
    BY <2>1, ConcatAdjacentSubSeq
  <2> QED BY <2>2, SubSeqFull
<1> HIDE DEF chunk, left
<1>2. text \in Seq(Symbols) /\ all = text \o left /\ all \in Seq(Symbols)
  <2>1. (buf \o chunk) \o left = buf \o (chunk \o left)
    <3>1. buf \in Seq(Symbols) /\ chunk \in Seq(Symbols) /\ left \in Seq(Symbols)
      BY <1>1
    <3> QED BY <3>1, SymbolsAssociate, Zenon
  <2> QED BY <1>1, <2>1
<1>3. FrameText(all) /\ Complete(all)
  OBVIOUS
<1> HIDE DEF text, all
<1>4. FrameText(text)
  BY <1>1, <1>2, <1>3, PrefixText
<1>5. sp \in Split /\ SplitFrom(text, sp, 1)
  BY <1>2, <1>4, SplitFramesIs
<1> HIDE DEF sp
<1>6. sp.frames \in Seq(Seq(Symbols)) /\ sp.rest \in Seq(Symbols)
  BY <1>5 DEF Split
<1>7. got \in Seq(Accounts)
  BY <1>6, ParsedType, FlattenType
<1> HIDE DEF got
<1>8. PICK j \in 1..(L + 1) :
        /\ FrameStart(text, j) /\ sp.rest = SubSeq(text, j, L)
        /\ AccountsIn(SubSeq(text, 1, L)) = got \o AccountsIn(sp.rest)
  BY <1>5 DEF SplitFrom, got
<1>9. SubSeq(text, 1, L) = text
  BY <1>2, SubSeqFull
<1>10. /\ L \in Nat /\ Len(left) \in Nat /\ Len(all) = L + Len(left)
       /\ \A i \in 1..L : all[i] = text[i]
       /\ \A i \in 1..Len(left) : all[L + i] = left[i]
  <2>1. text \in Seq(Symbols) /\ left \in Seq(Symbols) /\ all = text \o left
    BY <1>1, <1>2
  <2> QED BY ONLY <2>1
<1>11. FrameStart(all, j) /\ j \in 1..(Len(all) + 1)
  <2>1. j >= 3 => j - 1 \in 1..L /\ j - 2 \in 1..L
    BY <1>10
  <2>2. j >= 3 => all[j - 1] = text[j - 1] /\ all[j - 2] = text[j - 2]
    BY <1>10, <2>1
  <2>3. FrameStart(all, j)
    BY <1>8, <2>2, Zenon DEF FrameStart
  <2> QED BY <1>10, <2>3
<1>12. sp.rest \o left = SubSeq(all, j, Len(all))
  <2> DEFINE s == sp.rest \o left
             t == SubSeq(all, j, Len(all))
  <2>1. /\ sp.rest \in Seq(Symbols) /\ Len(sp.rest) = L - j + 1
        /\ \A i \in 1..(L - j + 1) : sp.rest[i] = text[j + i - 1]
    <3>1. /\ SubSeq(text, j, L) \in Seq(Symbols) /\ Len(SubSeq(text, j, L)) = L - j + 1
          /\ \A i \in 1..(L - j + 1) : SubSeq(text, j, L)[i] = text[j + i - 1]
      BY <1>2, <1>10
    <3> QED BY <1>8, <3>1, Zenon
  <2>2. /\ s \in Seq(Symbols) /\ Len(s) = L - j + 1 + Len(left)
        /\ \A i \in 1..(L - j + 1) : s[i] = sp.rest[i]
        /\ \A i \in 1..Len(left) : s[(L - j + 1) + i] = left[i]
    <3> DEFINE rest == sp.rest
    <3>1. rest \in Seq(Symbols) /\ Len(rest) = L - j + 1 /\ s = rest \o left
      BY <2>1
    <3> HIDE DEF rest
    <3>2. /\ rest \o left \in Seq(Symbols) /\ Len(rest \o left) = Len(rest) + Len(left)
          /\ \A i \in 1..Len(rest) : (rest \o left)[i] = rest[i]
          /\ \A i \in 1..Len(left) : (rest \o left)[Len(rest) + i] = left[i]
      <4>1. rest \in Seq(Symbols) /\ left \in Seq(Symbols)
        BY <1>1, <3>1
      <4> QED BY ONLY <4>1
    <3> QED BY <3>1, <3>2 DEF rest
  <2>3. /\ t \in Seq(Symbols) /\ Len(t) = L + Len(left) - j + 1
        /\ \A i \in 1..(L + Len(left) - j + 1) : t[i] = all[j + i - 1]
    BY <1>2, <1>10, <1>11, SMTT(30)
  <2> HIDE DEF s, t, L
  <2>4. ASSUME NEW i \in 1..Len(s) PROVE s[i] = t[i]
    <3>1. CASE i <= L - j + 1
      <4>1. i \in 1..(L - j + 1) /\ j + i - 1 \in 1..L /\ i \in 1..(L + Len(left) - j + 1)
        BY <1>8, <1>10, <2>2, <3>1
      <4> QED BY <1>10, <2>1, <2>2, <2>3, <4>1
    <3>2. CASE ~(i <= L - j + 1)
      <4> DEFINE k == i - (L - j + 1)
      <4>1. /\ k \in 1..Len(left) /\ i = (L - j + 1) + k /\ j + i - 1 = L + k
            /\ i \in 1..(L + Len(left) - j + 1)
        BY <1>8, <1>10, <2>2, <3>2
      <4> HIDE DEF k
      <4> QED BY <1>10, <2>2, <2>3, <4>1
    <3> QED BY <3>1, <3>2
  <2>5. Len(s) = Len(t)
    BY <1>8, <1>10, <2>2, <2>3, SMTT(30)
  <2> QED BY <2>2, <2>3, <2>4, <2>5, SeqEqual DEF s, t
<1>13. FrameText(sp.rest \o left) /\ Complete(sp.rest \o left)
  BY <1>2, <1>3, <1>11, <1>12, SuffixText
<1>14. (h \o got) \o AccountsIn(sp.rest \o left) = h \o AccountsIn(all)
  <2> DEFINE A == AccountsIn(sp.rest)
             B == AccountsIn(left)
  <2>1. A \in Seq(Accounts) /\ B \in Seq(Accounts)
    BY <1>1, <1>6, AccountsInType
  <2>2. AccountsIn(sp.rest \o left) = A \o B
    BY <1>1, <1>6, AccountsInConcat
  <2>3. AccountsIn(all) = (got \o A) \o B
    <3>1. AccountsIn(text \o left) = AccountsIn(text) \o B
      BY <1>1, <1>2, AccountsInConcat
    <3>2. AccountsIn(text) = got \o A
      BY <1>8, <1>9, Zenon
    <3> QED BY <1>2, <3>1, <3>2, Zenon
  <2> HIDE DEF A, B
  <2>4. h \in Seq(Accounts) /\ got \in Seq(Accounts) /\ A \in Seq(Accounts) /\ B \in Seq(Accounts)
    BY <1>7, <2>1
  <2>5. (got \o A) \o B = got \o (A \o B) /\ A \o B \in Seq(Accounts)
    <3>1. (got \o A) \o B = got \o (A \o B)
      BY ONLY <2>4, AccountsAssociate, Zenon
    <3>2. A \o B \in Seq(Accounts)
      BY ONLY <2>4
    <3> QED BY <3>1, <3>2
  <2> DEFINE AB == A \o B
  <2>6. h \in Seq(Accounts) /\ got \in Seq(Accounts) /\ AB \in Seq(Accounts)
    BY <2>4, <2>5
  <2> HIDE DEF AB
  <2>7. (h \o got) \o AB = h \o (got \o AB)
    BY <2>6, AccountsAssociate, Zenon
  <2> QED BY <2>2, <2>3, <2>5, <2>7, Zenon DEF AB
<1> QED BY <1>1, <1>6, <1>7, <1>13, <1>14 DEF got, sp, text, left, chunk, all

\* buf and w together are whole frames.
WholeFrames(buf, w) == FrameText(buf \o w) /\ Complete(buf \o w)

\* The accounts of a frame come last, h having been handled before.
AddsAccounts(buf, w, frame, h) ==
  h \o AccountsIn(buf \o (w \o frame)) = (h \o AccountsIn(buf \o w)) \o AccountsIn(frame)

\* A whole frame is written behind the text of whole frames.
LEMMA WriteText ==
  ASSUME NEW buf \in Seq(Symbols), NEW w \in Seq(Symbols), NEW h \in Seq(Accounts),
         NEW frame \in Seq(Symbols), FrameText(frame), Complete(frame), WholeFrames(buf, w)
  PROVE  WholeFrames(buf, w \o frame) /\ AddsAccounts(buf, w, frame, h)
<1> DEFINE t == buf \o w
<1>1. t \in Seq(Symbols) /\ buf \o (w \o frame) = t \o frame /\ FrameText(t) /\ Complete(t)
  <2>1. buf \o (w \o frame) = t \o frame
    BY SymbolsAssociate, Zenon
  <2>2. t \in Seq(Symbols)
    OBVIOUS
  <2> QED BY <2>1, <2>2, Zenon DEF WholeFrames
<1> HIDE DEF t
<1>2. FrameText(t \o frame) /\ Complete(t \o frame)
  BY <1>1, ConcatText
<1>3. AccountsIn(t \o frame) = AccountsIn(t) \o AccountsIn(frame)
  BY <1>1, AccountsInConcat
<1>4. AccountsIn(t) \in Seq(Accounts) /\ AccountsIn(frame) \in Seq(Accounts)
  BY <1>1, AccountsInType
<1>5. h \o (AccountsIn(t) \o AccountsIn(frame)) = (h \o AccountsIn(t)) \o AccountsIn(frame)
  BY <1>4, AccountsAssociate, Zenon
<1>6. WholeFrames(buf, w \o frame)
  BY <1>1, <1>2, Zenon DEF WholeFrames
<1>7. AddsAccounts(buf, w, frame, h)
  BY <1>1, <1>3, <1>5, Zenon DEF AddsAccounts, t
<1> QED BY <1>6, <1>7

-----------------------------------------------------------------------------
(* The invariant *)

LEMMA InitEvents ==
  ASSUME Init
  PROVE  EventsInv
<1>1. TypeOK
  <2>1. /\ opener \in [1..conns -> Effects] /\ bearer \in [1..conns -> Users \cup {NoUser}]
        /\ listeners \subseteq 1..conns
    BY DEF Init
  <2>2. /\ buffer \in [Effects -> Seq(Symbols)] /\ handled \in [Effects -> Seq(Accounts)]
        /\ wire \in [Conns -> Seq(Symbols)] /\ written \in [Conns -> Seq(Accounts)]
    BY DEF Init
  <2> QED BY <2>1, <2>2, SyncEventsAssumption DEF Init, TypeOK, NoConn
<1>2. ASSUME NEW e \in Effects PROVE Reader(e)
  BY DEF Init, Reader
<1>3. ASSUME NEW c \in Conns PROVE Silent(c) /\ WrittenToOwner(c)
  BY DEF Init, Silent, WrittenToOwner, Conns
<1> QED BY <1>1, <1>2, <1>3 DEF EventsInv

\* What a step leaves alone of an effect and of its connection.
Untouched(e) ==
  /\ conn'[e] = conn[e] /\ buffer'[e] = buffer[e] /\ handled'[e] = handled[e]
  /\ conn[e] = NoConn => phase'[e] = phase[e]
  /\ conn[e] # NoConn =>
       /\ opener'[conn[e]] = opener[conn[e]]
       /\ wire'[conn[e]] = wire[conn[e]] /\ written'[conn[e]] = written[conn[e]]
       /\ srv'[conn[e]] \in {"none", "listing"} => srv[conn[e]] \in {"none", "listing"}

LEMMA ReaderKept ==
  ASSUME EventsInv, NEW e \in Effects, Untouched(e)
  PROVE  Reader(e)'
<1>1. Reader(e)
  BY DEF EventsInv
<1>2. CASE conn[e] = NoConn
  BY <1>1, <1>2 DEF Reader, Untouched
<1>3. CASE conn[e] # NoConn
  <2>1. Unread(e)' = Unread(e) /\ Stream(e)
    BY <1>1, <1>3 DEF Reader, Untouched, Unread
  <2>2. Stream(e)'
    BY <1>3, <2>1 DEF Stream, Untouched
  <2> QED BY <1>1, <1>3, <2>2 DEF Reader, Untouched
<1> QED BY <1>2, <1>3

\* What a step leaves alone of a connection.
Still(c) ==
  /\ conns' = conns /\ bearer' = bearer
  /\ c > conns => srv'[c] = srv[c]
  /\ srv'[c] \in {"none", "listing"} =>
       /\ srv[c] \in {"none", "listing"}
       /\ wire'[c] = wire[c]
       /\ c \in listeners' => c \in listeners
  /\ written'[c] = written[c]

LEMMA ConnKept ==
  ASSUME EventsInv, NEW c \in Conns, Still(c)
  PROVE  (Silent(c) /\ WrittenToOwner(c))'
<1>1. Silent(c) /\ WrittenToOwner(c)
  BY DEF EventsInv
<1>2. Silent(c)'
  BY <1>1, Zenon DEF Silent, Still
<1>3. WrittenToOwner(c)'
  BY <1>1, Zenon DEF WrittenToOwner, Owned, Still
<1> QED BY <1>2, <1>3

\* The effect reads a connection that it made.
LEMMA ConnIs ==
  ASSUME EventsInv, NEW e \in Effects, phase[e] # "unborn"
  PROVE  /\ conn[e] # NoConn /\ conn[e] \in 1..conns /\ conn[e] \in Conns
         /\ opener[conn[e]] = e /\ Stream(e)
         /\ \A d \in Effects : d # e => conn[d] # conn[e]
<1>1. conn[e] \in 0..conns /\ conns \in 0..MaxConns /\ MaxConns \in Nat
  BY SyncEventsAssumption DEF EventsInv, TypeOK
<1>2. conn[e] # NoConn /\ opener[conn[e]] = e /\ Stream(e)
  BY DEF EventsInv, Reader
<1>3. conn[e] \in 1..conns /\ conn[e] \in Conns
  BY <1>1, <1>2 DEF NoConn, Conns
<1>4. ASSUME NEW d \in Effects, d # e PROVE conn[d] # conn[e]
  BY <1>2, <1>4 DEF EventsInv, Reader
<1> QED BY <1>2, <1>3, <1>4

\* Steps that change the phases of effects, and tokens, and nothing else.
PhaseOnly ==
  /\ UNCHANGED <<conn, buffer, handled, conns, opener, bearer, link, srv, wire, written, listeners,
                 events, pings>>
  /\ begun' = begun /\ aborted' \in [Effects -> BOOLEAN]
  /\ phase' \in [Effects -> Phases] /\ SessionTyped'
  /\ \A d \in Effects : phase[d] = "unborn" => phase'[d] = phase[d]

LEMMA PhaseOnlyStep ==
  ASSUME EventsInv, PhaseOnly
  PROVE  EventsInv'
<1>1. TypeOK'
  BY DEF EventsInv, TypeOK, PhaseOnly, SessionTyped, Phases
<1>2. ASSUME NEW d \in Effects PROVE Reader(d)'
  <2>1. conn[d] = NoConn => phase'[d] = phase[d]
    BY DEF EventsInv, Reader, PhaseOnly
  <2> QED BY <2>1, ReaderKept DEF Untouched, PhaseOnly
<1>3. ASSUME NEW c \in Conns PROVE (Silent(c) /\ WrittenToOwner(c))'
  BY ConnKept DEF Still, PhaseOnly
<1> QED BY <1>1, <1>2, <1>3 DEF EventsInv

LEMMA PhaseIs ==
  ASSUME EventsInv
  PROVE  /\ phase \in [Effects -> Phases] /\ aborted \in [Effects -> BOOLEAN] /\ SessionTyped
         /\ begun \in 0..MaxEffects /\ begun \in Nat
         /\ bearer \in [1..conns -> Users \cup {NoUser}]
BY SyncEventsAssumption DEF EventsInv, TypeOK, Phases, SessionTyped

\* Steps of one effect.
LEMMA PhaseStep ==
  ASSUME EventsInv, NEW e \in Effects, StreamOpens(e) \/ ScheduleReconnect(e) \/ Unmount(e)
  PROVE  EventsInv'
<1>0. /\ phase \in [Effects -> Phases] /\ aborted \in [Effects -> BOOLEAN] /\ SessionTyped
  BY PhaseIs
<1>1. UNCHANGED <<conn, buffer, handled, begun, conns, opener, bearer, link, srv, wire, written,
                  listeners, events, pings>>
  BY DEF Unmount, StreamOpens, ScheduleReconnect, server, made
<1>2. aborted' \in [Effects -> BOOLEAN]
  BY <1>0 DEF Unmount, StreamOpens, ScheduleReconnect
<1>3. PICK p \in Phases : phase' = [phase EXCEPT ![e] = p] /\ (phase[e] = "unborn" => p = phase[e])
  <2>1. phase[e] \in Phases
    BY <1>0
  <2> QED BY <2>1 DEF Unmount, StreamOpens, ScheduleReconnect, Phases
<1>4. phase' \in [Effects -> Phases] /\ \A d \in Effects : phase[d] = "unborn" => phase'[d] = phase[d]
  BY <1>0, <1>3
<1>5. SessionTyped'
  BY <1>0 DEF Unmount, StreamOpens, ScheduleReconnect, session, SessionTyped
<1> QED BY <1>1, <1>2, <1>4, <1>5, PhaseOnlyStep DEF PhaseOnly

LEMMA SettledIs ==
  ASSUME EventsInv
  PROVE  /\ Settled \in [Effects -> Phases]
         /\ \A d \in Effects : phase[d] = "unborn" => Settled[d] = phase[d]
BY PhaseIs DEF Settled, Phases

\* Steps of the session in which no request of the hook goes out.
LEMMA SessionStep ==
  ASSUME EventsInv,
         \/ RefreshElsewhere \/ RefreshFails
         \/ RefreshSucceeds /\ UNCHANGED made
         \/ \E u \in Users \cup {NoUser} : OtherTab(u)
  PROVE  EventsInv'
<1>0. /\ phase \in [Effects -> Phases] /\ aborted \in [Effects -> BOOLEAN] /\ SessionTyped
      /\ begun \in 0..MaxEffects /\ MaxEffects \in Nat /\ MaxOutside \in Nat
  BY PhaseIs, SyncEventsAssumption
<1>1. CASE RefreshElsewhere
  <2>1. SessionTyped'
    BY <1>0, <1>1 DEF RefreshElsewhere, RefreshSent, Outside, SessionTyped
  <2> QED BY <1>0, <1>1, <2>1, PhaseOnlyStep DEF RefreshElsewhere, PhaseOnly, client, made, server
<1>2. CASE RefreshFails
  <2>1. SessionTyped'
    BY <1>0, <1>2 DEF RefreshFails, SessionTyped
  <2> QED BY <1>0, <1>2, <2>1, SettledIs, PhaseOnlyStep DEF RefreshFails, PhaseOnly, made, server
<1>3. CASE RefreshSucceeds /\ UNCHANGED made
  <2>1. SessionTyped'
    BY <1>0, <1>3 DEF RefreshSucceeds, SessionTyped
  <2>2. conns' = conns /\ conns \in Nat
    BY <1>3, SyncEventsAssumption DEF made, EventsInv, TypeOK
  <2>3. phase' = Settled /\ UNCHANGED <<conn, buffer, handled, made>>
    BY <1>3, <2>2 DEF RefreshSucceeds, Send
  <2> QED BY <1>0, <1>3, <2>1, <2>3, SettledIs, PhaseOnlyStep DEF RefreshSucceeds, PhaseOnly, made, server
<1>4. ASSUME NEW u \in Users \cup {NoUser}, OtherTab(u) PROVE EventsInv'
  <2>1. begun > 0 => begun \in Effects
    BY <1>0 DEF Effects
  <2>2. SessionTyped'
    BY <1>0, <1>4, <2>1 DEF OtherTab, Outside, SessionTyped
  <2> QED BY <1>0, <1>4, <2>2, PhaseOnlyStep DEF OtherTab, PhaseOnly, client, made, server
<1> QED BY <1>1, <1>2, <1>3, <1>4

\* Steps that end a connection.
LEMMA EndStep ==
  ASSUME EventsInv, NEW e \in Effects, Unauthorized(e) \/ ConsumeSettles(e)
  PROVE  EventsInv'
<1>0. phase[e] # "unborn"
  BY DEF Unauthorized, ConsumeSettles
<1>1. conn[e] # NoConn /\ conn[e] \in 1..conns /\ conn[e] \in Conns
  BY <1>0, ConnIs
<1>2. UNCHANGED <<aborted, conn, buffer, handled, begun, conns, opener, bearer, wire, written, listeners,
                  events, pings>>
  BY DEF Unauthorized, ConsumeSettles, server, made
<1>3. /\ link' \in [Conns -> {"up", "gone"}]
      /\ phase' \in [Effects -> Phases]
      /\ srv' \in [Conns -> {"none", "listing", "open", "leaked", "over"}]
  <2>1. phase' = [phase EXCEPT ![e] = "refreshing"] \/ phase' = [phase EXCEPT ![e] = "settled"]
    BY DEF Unauthorized, ConsumeSettles
  <2>2. phase' \in [Effects -> Phases]
    BY <2>1, PhaseIs DEF Phases
  <2>3. /\ link' = [link EXCEPT ![conn[e]] = "gone"]
        /\ srv' = srv \/ srv' = [srv EXCEPT ![conn[e]] = "over"]
    BY DEF Unauthorized, ConsumeSettles, server
  <2> QED BY <2>2, <2>3 DEF EventsInv, TypeOK
<1>4. TypeOK'
  <2>1. SessionTyped'
    BY PhaseIs DEF Unauthorized, ConsumeSettles, RefreshSent, session, SessionTyped
  <2> QED BY <1>2, <1>3, <2>1 DEF EventsInv, TypeOK, SessionTyped, Phases
<1>5. \A c \in Conns : srv'[c] = srv[c] \/ (c = conn[e] /\ srv'[c] = "over")
  BY <1>1 DEF Unauthorized, ConsumeSettles, EventsInv, TypeOK, server
<1>6. ASSUME NEW d \in Effects PROVE Reader(d)'
  <2>1. conn[d] = NoConn => phase'[d] = phase[d]
    BY <1>1 DEF Unauthorized, ConsumeSettles, EventsInv, TypeOK
  <2>2. conn[d] # NoConn => conn[d] \in Conns
    <3>1. conn[d] \in 0..conns /\ conns \in 0..MaxConns /\ MaxConns \in Nat
      BY SyncEventsAssumption DEF EventsInv, TypeOK
    <3> QED BY <3>1 DEF Conns, NoConn
  <2> QED BY <1>2, <1>5, <2>1, <2>2, ReaderKept DEF Untouched
<1>7. ASSUME NEW c \in Conns PROVE (Silent(c) /\ WrittenToOwner(c))'
  <2>1. ~(conn[e] > conns)
    BY <1>1 DEF EventsInv, TypeOK
  <2> QED BY <1>2, <1>5, <2>1, ConnKept DEF Still
<1> QED BY <1>4, <1>6, <1>7 DEF EventsInv

\* A request goes out: the new connection has nothing on it.
LEMMA SendStep ==
  ASSUME EventsInv, NEW e \in Effects, NEW label \in {"connecting", "retrying"},
         NEW u \in Users \cup {NoUser}, NEW phases \in [Effects -> Phases],
         \A d \in Effects : phase[d] = "unborn" => phases[d] = phase[d],
         Send(e, label, u, phases), SessionTyped',
         aborted' = aborted, begun' \in 0..MaxEffects,
         UNCHANGED <<link, server, events, pings>>
  PROVE  EventsInv'
<1> DEFINE n == conns + 1
<1>1. /\ conns \in Nat /\ conns < MaxConns /\ MaxConns \in Nat /\ conns' = n
      /\ n \in Conns /\ n \in 1..n /\ n # NoConn /\ conns' \in 0..MaxConns
  BY SyncEventsAssumption DEF Send, EventsInv, TypeOK, Conns, NoConn
<1>2. opener \in Seq(Effects) /\ Len(opener) = conns
  BY <1>1, IsASeq DEF EventsInv, TypeOK
<1>3. /\ opener' \in [1..n -> Effects] /\ opener'[n] = e
      /\ \A c \in 1..conns : opener'[c] = opener[c]
  <2>1. /\ Append(opener, e) \in Seq(Effects) /\ Len(Append(opener, e)) = Len(opener) + 1
        /\ Append(opener, e)[Len(opener) + 1] = e
        /\ \A c \in 1..Len(opener) : Append(opener, e)[c] = opener[c]
    BY <1>2, AppendProperties
  <2>2. opener' = Append(opener, e)
    BY DEF Send
  <2>3. opener' \in [1..Len(opener') -> Effects]
    BY <2>1, <2>2, LenProperties
  <2> QED BY <1>2, <2>1, <2>2, <2>3
<1>31. /\ bearer' \in [1..n -> Users \cup {NoUser}] /\ bearer'[n] = u
       /\ \A c \in 1..conns : bearer'[c] = bearer[c]
  <2> DEFINE U == Users \cup {NoUser}
  <2>0. bearer \in [1..conns -> U] /\ u \in U
    BY DEF EventsInv, TypeOK
  <2> HIDE DEF U
  <2>1. bearer \in Seq(U) /\ Len(bearer) = conns
    BY <1>1, <2>0, IsASeq
  <2>2. /\ Append(bearer, u) \in Seq(U) /\ Len(Append(bearer, u)) = Len(bearer) + 1
        /\ Append(bearer, u)[Len(bearer) + 1] = u
        /\ \A c \in 1..Len(bearer) : Append(bearer, u)[c] = bearer[c]
    BY <2>0, <2>1, AppendProperties
  <2>3. bearer' = Append(bearer, u)
    BY DEF Send
  <2>4. bearer' \in [1..Len(bearer') -> U]
    BY <2>2, <2>3, LenProperties
  <2>5. bearer' \in [1..n -> U] /\ bearer'[n] = u /\ \A c \in 1..conns : bearer'[c] = bearer[c]
    BY <2>1, <2>2, <2>3, <2>4
  <2> QED BY <2>5 DEF U
<1>4. /\ phase' = [phases EXCEPT ![e] = label] /\ conn' = [conn EXCEPT ![e] = n]
      /\ buffer' = [buffer EXCEPT ![e] = <<>>] /\ handled' = [handled EXCEPT ![e] = <<>>]
  BY DEF Send
<1>5. UNCHANGED <<link, srv, wire, written, listeners, events, pings>>
  BY DEF server
<1> HIDE DEF n
<1>6. TypeOK'
  <2>1. phase' \in [Effects -> Phases]
    BY <1>4 DEF Phases
  <2>2. conn' \in [Effects -> 0..conns']
    <3>1. 0..conns \subseteq 0..n /\ n \in 0..n
      BY <1>1 DEF n
    <3>2. conn \in [Effects -> 0..n]
      BY <3>1 DEF EventsInv, TypeOK
    <3> QED BY <1>1, <1>4, <3>1, <3>2
  <2>3. /\ buffer' \in [Effects -> Seq(Symbols)] /\ handled' \in [Effects -> Seq(Accounts)]
    <3>1. <<>> \in Seq(Symbols) /\ <<>> \in Seq(Accounts)
      OBVIOUS
    <3> QED BY <1>4, <3>1 DEF EventsInv, TypeOK
  <2>4. listeners' \subseteq 1..conns'
    <3>1. 1..conns \subseteq 1..n
      BY <1>1 DEF n
    <3> QED BY <1>1, <1>5, <3>1 DEF EventsInv, TypeOK
  <2>5. /\ srv' \in [Conns -> {"none", "listing", "open", "leaked", "over"}]
        /\ link' \in [Conns -> {"up", "gone"}] /\ wire' \in [Conns -> Seq(Symbols)]
        /\ written' \in [Conns -> Seq(Accounts)]
        /\ events' \in 0..MaxEvents /\ pings' \in 0..MaxPings
        /\ aborted' \in [Effects -> BOOLEAN]
    BY <1>5 DEF EventsInv, TypeOK
  <2>6. /\ opener' \in [1..conns' -> Effects]
        /\ bearer' \in [1..conns' -> Users \cup {NoUser}]
    BY <1>1, <1>3, <1>31
  <2>7. SessionTyped'
    OBVIOUS
  <2> QED
    BY ONLY <1>1, <2>1, <2>2, <2>3, <2>4, <2>5, <2>6, <2>7, begun' \in 0..MaxEffects, Zenon
       DEF TypeOK, SessionTyped, Phases
<1>7. srv[n] = "none" /\ wire[n] = <<>> /\ written[n] = <<>>
  <2>1. n > conns
    BY <1>1 DEF n
  <2> QED BY <1>1, <2>1 DEF EventsInv, Silent
<1>8. ASSUME NEW d \in Effects PROVE Reader(d)'
  <2>1. CASE d = e
    <3>1. conn'[d] = n /\ buffer'[d] = <<>> /\ handled'[d] = <<>>
      BY <1>4, <2>1 DEF EventsInv, TypeOK
    <3>2. Unread(d)' = <<>>
      BY <1>5, <1>7, <3>1 DEF Unread
    <3>3. <<>> \o <<>> = <<>>
      OBVIOUS
    <3>4. Stream(d)'
      BY <1>5, <1>7, <3>1, <3>2, <3>3, FramesAreText, AccountsInEmpty DEF Stream
    <3> QED BY <1>1, <1>3, <2>1, <3>1, <3>4 DEF Reader
  <2>2. CASE d # e
    <3>1. conn'[d] = conn[d] /\ buffer'[d] = buffer[d] /\ handled'[d] = handled[d] /\ phase'[d] = phases[d]
      BY <1>4, <2>2 DEF EventsInv, TypeOK
    <3>3. conn[d] = NoConn => phase'[d] = phase[d]
      BY <3>1 DEF EventsInv, Reader
    <3>2. conn[d] # NoConn => conn[d] \in 1..conns
      <4>1. conn[d] \in 0..conns
        BY DEF EventsInv, TypeOK
      <4> QED BY <1>1, <4>1 DEF NoConn
    <3> QED BY <1>3, <1>5, <3>1, <3>2, <3>3, ReaderKept DEF Untouched
  <2> QED BY <2>1, <2>2
<1>9. ASSUME NEW c \in Conns PROVE (Silent(c) /\ WrittenToOwner(c))'
  <2>0. Silent(c) /\ WrittenToOwner(c)
    BY DEF EventsInv
  <2>1. c \in Nat /\ (c > n => c > conns) /\ (c <= n => c = n \/ (c <= conns /\ c \in 1..conns))
    BY <1>1 DEF n, Conns
  <2>2. Silent(c)'
    BY <1>1, <1>5, <2>0, <2>1 DEF Silent
  <2>3. ToSet(<<>>) = {}
    BY DEF ToSet
  <2>4. WrittenToOwner(c)'
    <3>1. CASE c = n
      BY <1>5, <1>7, <2>3, <3>1 DEF WrittenToOwner
    <3>2. CASE c # n
      BY <1>1, <1>31, <1>5, <2>0, <2>1, <3>2 DEF WrittenToOwner, Owned
    <3> QED BY <3>1, <3>2
  <2> QED BY <2>2, <2>4
<1> QED BY <1>6, <1>8, <1>9 DEF EventsInv

LEMMA ConnectStep ==
  ASSUME EventsInv,
         \/ \E e \in Effects : TimerFires(e)
         \/ RefreshSucceeds
  PROVE  EventsInv'
<1>0. /\ begun \in 0..MaxEffects /\ SessionTyped /\ phase \in [Effects -> Phases]
      /\ token \in Users \cup {NoUser}
  BY PhaseIs DEF SessionTyped
<1>1. ASSUME NEW e \in Effects, TimerFires(e) PROVE EventsInv'
  <2>1. Send(e, "connecting", token, phase) /\ UNCHANGED <<aborted, begun, session, link, server, events, pings>>
    BY <1>1 DEF TimerFires, Start
  <2>2. SessionTyped'
    BY <1>0, <2>1 DEF session, SessionTyped
  <2>3. begun' \in 0..MaxEffects /\ aborted' = aborted /\ UNCHANGED <<link, server, events, pings>>
    BY <1>0, <2>1
  <2> QED BY <1>0, <2>1, <2>2, <2>3, SendStep
<1>2. CASE RefreshSucceeds
  <2>1. SessionTyped' /\ refreshInFlight \in Users
    BY <1>0, <1>2 DEF RefreshSucceeds, SessionTyped
  <2>2. begun' \in 0..MaxEffects /\ aborted' = aborted /\ UNCHANGED <<link, server, events, pings>>
    BY <1>0, <1>2 DEF RefreshSucceeds
  <2>3. ASSUME NEW e \in Effects, Send(e, "retrying", refreshInFlight, Settled) PROVE EventsInv'
    BY <2>1, <2>2, <2>3, SettledIs, SendStep
  <2>4. CASE UNCHANGED made
    BY <1>2, <2>4, SessionStep
  <2> QED BY <1>2, <2>3, <2>4 DEF RefreshSucceeds
<1> QED BY <1>1, <1>2

LEMMA MountStep ==
  ASSUME EventsInv, Mount
  PROVE  EventsInv'
<1>0. begun \in 0..MaxEffects /\ MaxEffects \in Nat /\ SessionTyped /\ phase \in [Effects -> Phases]
  BY PhaseIs, SyncEventsAssumption
<1>1. begun + 1 \in Effects /\ begun' \in 0..MaxEffects
  BY <1>0 DEF Mount, Effects
<1> DEFINE u == User[begun + 1]
<1>2. u \in Users
  BY <1>1, SyncEventsAssumption DEF Effects
<1>3. Send(begun + 1, "connecting", u, phase) /\ UNCHANGED <<aborted, link, server, events, pings>>
  BY DEF Mount, Start
<1>4. SessionTyped'
  BY <1>0, <1>1, <1>2 DEF Mount, SessionTyped
<1> HIDE DEF u
<1>5. u \in Users \cup {NoUser} /\ aborted' = aborted /\ UNCHANGED <<link, server, events, pings>>
  BY <1>2, <1>3
<1> QED BY <1>0, <1>1, <1>3, <1>4, <1>5, SendStep

\* A chunk arrives.
LEMMA ReadStep ==
  ASSUME EventsInv, NEW e \in Effects, Read(e)
  PROVE  EventsInv'
<1> DEFINE c == conn[e]
<1>0. phase[e] # "unborn"
  BY DEF Read
<1>1. /\ c # NoConn /\ c \in Conns /\ opener[c] = e /\ Stream(e)
      /\ \A d \in Effects : d # e => conn[d] # c
  BY <1>0, ConnIs
<1>2. /\ buffer[e] \in Seq(Symbols) /\ wire[c] \in Seq(Symbols) /\ handled[e] \in Seq(Accounts)
      /\ buffer \in [Effects -> Seq(Symbols)] /\ handled \in [Effects -> Seq(Accounts)]
      /\ wire \in [Conns -> Seq(Symbols)] /\ conn \in [Effects -> 0..conns]
  BY <1>1 DEF EventsInv, TypeOK
<1>3. /\ UNCHANGED <<phase, aborted, conn, begun, conns, opener, bearer, link, srv, written, listeners,
                     events, pings>>
      /\ UNCHANGED <<token, refreshInFlight, jar, outside, mixed>>
  BY DEF Read, session, made
<1>4. PICK n \in 1..Len(wire[c]) :
        LET text == buffer[e] \o SubSeq(wire[c], 1, n)
            sp   == splitFrames(text)
        IN  /\ wire' = [wire EXCEPT ![c] = SubSeq(wire[c], n + 1, Len(wire[c]))]
            /\ buffer' = [buffer EXCEPT ![e] = sp.rest]
            /\ handled' = [handled EXCEPT ![e] = handled[e] \o FlattenSeq(Parsed(sp.frames))]
  BY DEF Read, Parsed
<1> DEFINE text == buffer[e] \o SubSeq(wire[c], 1, n)
           left == SubSeq(wire[c], n + 1, Len(wire[c]))
           rest == splitFrames(text).rest
           got  == FlattenSeq(Parsed(splitFrames(text).frames))
<1>5. FrameText(buffer[e] \o wire[c]) /\ Complete(buffer[e] \o wire[c])
      /\ handled[e] \o AccountsIn(buffer[e] \o wire[c]) = written[c]
  BY <1>1 DEF Stream, Unread
<1>6. /\ rest \in Seq(Symbols) /\ got \in Seq(Accounts) /\ left \in Seq(Symbols)
      /\ FrameText(rest \o left) /\ Complete(rest \o left)
      /\ (handled[e] \o got) \o AccountsIn(rest \o left) = handled[e] \o AccountsIn(buffer[e] \o wire[c])
  <2> DEFINE buf == buffer[e]
             w == wire[c]
             h == handled[e]
  <2>1. /\ buf \in Seq(Symbols) /\ w \in Seq(Symbols) /\ h \in Seq(Accounts) /\ n \in 1..Len(w)
        /\ FrameText(buf \o w) /\ Complete(buf \o w)
    BY <1>2, <1>5
  <2> HIDE DEF buf, w, h
  <2>2. LET tx == buf \o SubSeq(w, 1, n)
            lf == SubSeq(w, n + 1, Len(w))
            sp == splitFrames(tx)
            gt == FlattenSeq(Parsed(sp.frames))
        IN  /\ sp.rest \in Seq(Symbols) /\ gt \in Seq(Accounts) /\ lf \in Seq(Symbols)
            /\ FrameText(sp.rest \o lf) /\ Complete(sp.rest \o lf)
            /\ (h \o gt) \o AccountsIn(sp.rest \o lf) = h \o AccountsIn(buf \o w)
    BY <2>1, ReadText
  <2> QED BY <2>2, Zenon DEF buf, w, h
<1>7. wire' = [wire EXCEPT ![c] = left] /\ buffer' = [buffer EXCEPT ![e] = rest]
      /\ handled' = [handled EXCEPT ![e] = handled[e] \o got]
  BY <1>4
<1>8. handled[e] \o got \in Seq(Accounts)
  <2> DEFINE h == handled[e]
  <2>1. h \in Seq(Accounts) /\ got \in Seq(Accounts)
    BY <1>2, <1>6
  <2> HIDE DEF h, got
  <2> QED BY <2>1 DEF h
<1> HIDE DEF left, rest, got, c
<1>9. TypeOK'
  <2>1. wire' \in [Conns -> Seq(Symbols)] /\ buffer' \in [Effects -> Seq(Symbols)]
        /\ handled' \in [Effects -> Seq(Accounts)]
    BY <1>2, <1>6, <1>7, <1>8
  <2> QED BY <1>3, <2>1 DEF EventsInv, TypeOK
<1>10. ASSUME NEW d \in Effects PROVE Reader(d)'
  <2>1. CASE d = e
    <3>1. conn'[d] = c /\ buffer'[d] = rest /\ handled'[d] = handled[e] \o got /\ wire'[c] = left
      BY <1>1, <1>2, <1>3, <1>7, <2>1 DEF c
    <3>2. Unread(d)' = rest \o left
      BY <3>1 DEF Unread
    <3>3. Stream(d)'
      BY <1>3, <1>5, <1>6, <3>1, <3>2, Zenon DEF Stream
    <3>4. srv[c] \notin {"none", "listing"}
      <4>1. SUFFICES ASSUME srv[c] \in {"none", "listing"} PROVE FALSE
        OBVIOUS
      <4>2. wire[c] = <<>>
        BY <1>1, <4>1 DEF EventsInv, Silent
      <4> QED BY <1>4, <4>2
    <3> QED BY <1>1, <1>3, <2>1, <3>1, <3>3, <3>4 DEF Reader
  <2>2. CASE d # e
    <3>1. conn[d] # c /\ buffer'[d] = buffer[d] /\ handled'[d] = handled[d]
      BY <1>1, <1>2, <1>7, <2>2
    <3>2. wire'[conn[d]] = wire[conn[d]] \/ conn[d] = NoConn
      <4>1. conn[d] # NoConn => conn[d] \in Conns
        <5>1. conn[d] \in 0..conns /\ conns \in 0..MaxConns /\ MaxConns \in Nat
          BY SyncEventsAssumption DEF EventsInv, TypeOK
        <5> QED BY <5>1 DEF Conns, NoConn
      <4> QED BY <1>2, <1>7, <3>1, <4>1
    <3> QED BY <1>3, <3>1, <3>2, ReaderKept DEF Untouched
  <2> QED BY <2>1, <2>2
<1>11. ASSUME NEW k \in Conns PROVE (Silent(k) /\ WrittenToOwner(k))'
  <2>1. CASE k # c
    BY <1>2, <1>3, <1>7, <2>1, ConnKept DEF Still
  <2>2. CASE k = c
    <3>1. srv[c] \notin {"none", "listing"}
      <4>1. SUFFICES ASSUME srv[c] \in {"none", "listing"} PROVE FALSE
        OBVIOUS
      <4>2. wire[c] = <<>>
        BY <1>1, <4>1 DEF EventsInv, Silent
      <4> QED BY <1>4, <4>2
    <3> QED BY <1>3, <2>2, <3>1, ConnKept DEF Still
  <2> QED BY <2>1, <2>2
<1> QED BY <1>9, <1>10, <1>11 DEF EventsInv

\* The endpoint takes up a request, and lets go of a connection that closed.
LEMMA EndpointStep ==
  ASSUME EventsInv, NEW c \in Conns, EventsRequest(c) \/ EventsClosed(c)
  PROVE  EventsInv'
<1>1. /\ UNCHANGED <<phase, aborted, conn, buffer, handled, begun, conns, opener, bearer, link, wire,
                     written, events, pings>>
      /\ UNCHANGED <<token, refreshInFlight, jar, outside, mixed>>
      /\ listeners' \subseteq listeners
  BY DEF EventsRequest, EventsClosed, client, session, made
<1>2. /\ srv' \in [Conns -> {"none", "listing", "open", "leaked", "over"}]
      /\ \A k \in Conns : srv'[k] = srv[k] \/ (k <= conns /\ srv[k] = "none" /\ srv'[k] = "listing")
                          \/ (srv[k] = "open" /\ srv'[k] = "over")
  BY DEF EventsRequest, EventsClosed, EventsInv, TypeOK
<1>3. TypeOK'
  BY <1>1, <1>2 DEF EventsInv, TypeOK
<1>4. ASSUME NEW d \in Effects PROVE Reader(d)'
  <2>1. conn[d] # NoConn => conn[d] \in Conns
    <3>1. conn[d] \in 0..conns /\ conns \in 0..MaxConns /\ MaxConns \in Nat
      BY SyncEventsAssumption DEF EventsInv, TypeOK
    <3> QED BY <3>1 DEF Conns, NoConn
  <2> QED BY <1>1, <1>2, <2>1, ReaderKept DEF Untouched
<1>5. ASSUME NEW k \in Conns PROVE (Silent(k) /\ WrittenToOwner(k))'
  <2>1. k > conns => ~(k <= conns) /\ srv[k] = "none"
    BY DEF EventsInv, Silent, TypeOK, Conns
  <2> QED BY <1>1, <1>2, <2>1, ConnKept DEF Still
<1> QED BY <1>3, <1>4, <1>5 DEF EventsInv

\* A frame is written to the connection that an effect reads.
LEMMA ReaderWritten ==
  ASSUME EventsInv, NEW d \in Effects, conn[d] # NoConn, NEW frame \in Seq(Symbols),
         FrameText(frame), Complete(frame),
         UNCHANGED <<conn, buffer, handled, opener>>,
         srv'[conn[d]] \notin {"none", "listing"},
         wire'[conn[d]] = wire[conn[d]] \o frame,
         written'[conn[d]] = written[conn[d]] \o AccountsIn(frame)
  PROVE  Reader(d)'
<1> DEFINE buf == buffer[d]
           w == wire[conn[d]]
           h == handled[d]
<1>1. conn[d] \in Conns
  <2>1. conn[d] \in 0..conns /\ conns \in 0..MaxConns /\ MaxConns \in Nat
    BY SyncEventsAssumption DEF EventsInv, TypeOK
  <2> QED BY <2>1 DEF Conns, NoConn
<1>2. buf \in Seq(Symbols) /\ w \in Seq(Symbols) /\ h \in Seq(Accounts)
  BY <1>1 DEF EventsInv, TypeOK
<1>3. Stream(d) /\ opener[conn[d]] = d
  BY DEF EventsInv, Reader
<1>4. FrameText(buf \o w) /\ Complete(buf \o w) /\ h \o AccountsIn(buf \o w) = written[conn[d]]
  BY <1>3 DEF Stream, Unread
<1>5. Unread(d)' = buf \o (w \o frame) /\ handled'[d] = h
  BY DEF Unread
<1> HIDE DEF buf, w, h
<1>6. /\ FrameText(buf \o (w \o frame)) /\ Complete(buf \o (w \o frame))
      /\ h \o AccountsIn(buf \o (w \o frame)) = (h \o AccountsIn(buf \o w)) \o AccountsIn(frame)
  <2>1. WholeFrames(buf, w)
    BY <1>4, Zenon DEF WholeFrames
  <2>2. FrameText(frame) /\ Complete(frame) /\ frame \in Seq(Symbols)
    OBVIOUS
  <2>3. WholeFrames(buf, w \o frame) /\ AddsAccounts(buf, w, frame, h)
    BY ONLY <1>2, <2>1, <2>2, WriteText
  <2> QED BY <2>3, Zenon DEF WholeFrames, AddsAccounts
<1>7. Stream(d)'
  BY <1>4, <1>5, <1>6, Zenon DEF Stream
<1> QED BY <1>3, <1>7 DEF Reader

\* The endpoint begins to listen, and writes its first comment.
LEMMA OpenStep ==
  ASSUME EventsInv, NEW c \in Conns, EventsOpen(c)
  PROVE  EventsInv'
<1>1. /\ UNCHANGED <<phase, aborted, conn, buffer, handled, begun, conns, opener, bearer, link, written,
                     events, pings>>
      /\ UNCHANGED <<token, refreshInFlight, jar, outside, mixed>>
      /\ listeners' = listeners \cup {c} /\ srv[c] = "listing"
  BY DEF EventsOpen, client, session, made
<1>2. /\ srv' \in [Conns -> {"none", "listing", "open", "leaked", "over"}]
      /\ srv'[c] \in {"open", "leaked"}
      /\ \A k \in Conns : k # c => srv'[k] = srv[k]
  BY DEF EventsOpen, EventsInv, TypeOK
<1>3. wire[c] = <<>> /\ written[c] = <<>>
  BY <1>1 DEF EventsInv, Silent
<1>4. c \in 1..conns
  <2>1. ~(c > conns)
    BY <1>1 DEF EventsInv, Silent
  <2>2. c \in Nat /\ c >= 1 /\ conns \in Nat
    BY DEF Conns, EventsInv, TypeOK
  <2> QED BY <2>1, <2>2
<1>5. CommentFrame \in Seq(Symbols) /\ AccountsIn(CommentFrame) = <<>>
      /\ FrameText(CommentFrame) /\ Complete(CommentFrame)
  BY AccountsInFrames, FramesAreText
<1> DEFINE now == IF link[c] = "up" THEN CommentFrame ELSE wire[c]
<1>6. wire' = [wire EXCEPT ![c] = now]
  BY DEF EventsOpen
<1>7. now = CommentFrame \/ now = wire[c]
  OBVIOUS
<1>8. now \in Seq(Symbols) /\ wire \in [Conns -> Seq(Symbols)]
  BY <1>5 DEF EventsInv, TypeOK
<1> HIDE DEF now
<1>9. TypeOK'
  <2>1. wire' \in [Conns -> Seq(Symbols)] /\ listeners' \subseteq 1..conns
    BY <1>1, <1>4, <1>6, <1>8 DEF EventsInv, TypeOK
  <2> QED BY <1>1, <1>2, <2>1 DEF EventsInv, TypeOK
<1>10. ASSUME NEW d \in Effects PROVE Reader(d)'
  <2>0. conn[d] # NoConn => conn[d] \in Conns
    <3>1. conn[d] \in 0..conns /\ conns \in 0..MaxConns /\ MaxConns \in Nat
      BY SyncEventsAssumption DEF EventsInv, TypeOK
    <3> QED BY <3>1 DEF Conns, NoConn
  <2>1. CASE conn[d] # c \/ now = wire[c]
    <3>1. conn[d] # NoConn => /\ wire'[conn[d]] = wire[conn[d]]
                              /\ srv'[conn[d]] \in {"none", "listing"} => srv[conn[d]] \in {"none", "listing"}
      BY <1>2, <1>6, <1>8, <2>0, <2>1
    <3> QED BY <1>1, <3>1, ReaderKept DEF Untouched
  <2>2. CASE conn[d] = c /\ now = CommentFrame
    <3>1. wire'[conn[d]] = wire[conn[d]] \o CommentFrame
      <4>1. <<>> \o CommentFrame = CommentFrame
        BY <1>5
      <4> QED BY <1>3, <1>6, <1>8, <2>2, <4>1
    <3>2. written'[conn[d]] = written[conn[d]] \o AccountsIn(CommentFrame)
      <4>1. <<>> \o <<>> = <<>>
        OBVIOUS
      <4> QED BY <1>1, <1>3, <1>5, <2>2, <4>1
    <3>3. conn[d] # NoConn
      BY <2>2 DEF Conns, NoConn
    <3> QED BY <1>1, <1>2, <1>5, <2>2, <3>1, <3>2, <3>3, ReaderWritten
  <2> QED BY <1>7, <2>1, <2>2
<1>11. ASSUME NEW k \in Conns PROVE (Silent(k) /\ WrittenToOwner(k))'
  <2>1. c > conns => FALSE
    BY <1>4 DEF EventsInv, TypeOK
  <2>2. k # c => wire'[k] = wire[k] /\ (k \in listeners' => k \in listeners)
    BY <1>1, <1>6, <1>8
  <2> QED BY <1>1, <1>2, <2>1, <2>2, ConnKept DEF Still
<1> QED BY <1>9, <1>10, <1>11 DEF EventsInv

LEMMA HeartbeatStep ==
  ASSUME EventsInv, NEW c \in Conns, Heartbeat(c)
  PROVE  EventsInv'
<1>1. /\ UNCHANGED <<phase, aborted, conn, buffer, handled, begun, conns, opener, bearer, link, srv,
                     written, listeners, events>>
      /\ UNCHANGED <<token, refreshInFlight, jar, outside, mixed>>
      /\ c \in listeners
  BY DEF Heartbeat, client, session, made
<1>2. srv[c] \notin {"none", "listing"}
  BY <1>1 DEF EventsInv, Silent
<1>3. CommentFrame \in Seq(Symbols) /\ AccountsIn(CommentFrame) = <<>>
      /\ FrameText(CommentFrame) /\ Complete(CommentFrame)
  BY AccountsInFrames, FramesAreText
<1> DEFINE w == wire[c]
           now == w \o CommentFrame
<1>4. wire' = [wire EXCEPT ![c] = now] /\ wire \in [Conns -> Seq(Symbols)] /\ w \in Seq(Symbols)
  BY DEF Heartbeat, EventsInv, TypeOK
<1> HIDE DEF w
<1>5. now \in Seq(Symbols)
  BY <1>3, <1>4
<1> HIDE DEF now
<1>6. TypeOK'
  <2>1. wire' \in [Conns -> Seq(Symbols)]
    BY <1>4, <1>5
  <2>2. pings' \in 0..MaxPings
    BY SyncEventsAssumption DEF Heartbeat, EventsInv, TypeOK
  <2> QED BY <1>1, <2>1, <2>2 DEF EventsInv, TypeOK
<1>7. ASSUME NEW d \in Effects PROVE Reader(d)'
  <2>0. conn[d] # NoConn => conn[d] \in Conns
    <3>1. conn[d] \in 0..conns /\ conns \in 0..MaxConns /\ MaxConns \in Nat
      BY SyncEventsAssumption DEF EventsInv, TypeOK
    <3> QED BY <3>1 DEF Conns, NoConn
  <2>1. CASE conn[d] # c
    <3>1. conn[d] # NoConn => wire'[conn[d]] = wire[conn[d]]
      BY <1>4, <2>0, <2>1
    <3> QED BY <1>1, <3>1, ReaderKept DEF Untouched
  <2>2. CASE conn[d] = c
    <3>1. wire'[conn[d]] = wire[conn[d]] \o CommentFrame
      BY <1>4, <2>2 DEF now, w
    <3>2. written'[conn[d]] = written[conn[d]] \o AccountsIn(CommentFrame)
      <4>1. written[c] \in Seq(Accounts)
        BY DEF EventsInv, TypeOK
      <4>2. written[c] \o <<>> = written[c]
        BY <4>1
      <4> QED BY <1>1, <1>3, <2>2, <4>2
    <3>3. conn[d] # NoConn
      BY <2>2 DEF Conns, NoConn
    <3> QED BY <1>1, <1>2, <1>3, <2>2, <3>1, <3>2, <3>3, ReaderWritten
  <2> QED BY <2>1, <2>2
<1>8. ASSUME NEW k \in Conns PROVE (Silent(k) /\ WrittenToOwner(k))'
  <2>1. k # c => wire'[k] = wire[k]
    BY <1>4
  <2> QED BY <1>1, <1>2, <2>1, ConnKept DEF Still
<1> QED BY <1>6, <1>7, <1>8 DEF EventsInv

\* The end of a sync job is published.
LEMMA PublishStep ==
  ASSUME EventsInv, NEW a \in Accounts, Publish(a)
  PROVE  EventsInv'
<1> DEFINE told == {c \in listeners : Owned(c, a) /\ link[c] = "up"}
<1>1. /\ UNCHANGED <<phase, aborted, conn, buffer, handled, begun, conns, opener, bearer, link, srv,
                     listeners, pings>>
      /\ UNCHANGED <<token, refreshInFlight, jar, outside, mixed>>
      /\ wire' = [c \in Conns |-> IF c \in told THEN wire[c] \o EventFrame(a) ELSE wire[c]]
      /\ written' = [c \in Conns |-> IF c \in told THEN Append(written[c], a) ELSE written[c]]
  BY DEF Publish, client, session, made
<1>2. \A c \in told : c \in listeners /\ Owned(c, a)
  OBVIOUS
<1> HIDE DEF told
<1>3. EventFrame(a) \in Seq(Symbols) /\ AccountsIn(EventFrame(a)) = <<a>>
      /\ FrameText(EventFrame(a)) /\ Complete(EventFrame(a))
  BY AccountsInFrames, FramesAreText
<1> DEFINE frame == EventFrame(a)
<1>4. frame \in Seq(Symbols)
  BY <1>3
<1>5. ASSUME NEW c \in Conns
      PROVE  /\ wire[c] \in Seq(Symbols) /\ written[c] \in Seq(Accounts)
             /\ wire'[c] = IF c \in told THEN wire[c] \o frame ELSE wire[c]
             /\ written'[c] = IF c \in told THEN Append(written[c], a) ELSE written[c]
  BY <1>1 DEF EventsInv, TypeOK
<1> HIDE DEF frame
<1>6. ASSUME NEW c \in Conns
      PROVE  /\ wire[c] \o frame \in Seq(Symbols) /\ Append(written[c], a) \in Seq(Accounts)
             /\ Append(written[c], a) = written[c] \o <<a>>
             /\ ToSet(Append(written[c], a)) = ToSet(written[c]) \cup {a}
  <2> DEFINE w == wire[c]
             h == written[c]
  <2>1. w \in Seq(Symbols) /\ h \in Seq(Accounts)
    BY <1>5
  <2> HIDE DEF w, h
  <2>2. w \o frame \in Seq(Symbols)
    BY <1>4, <2>1
  <2>3. Append(h, a) \in Seq(Accounts) /\ Append(h, a) = h \o <<a>>
    BY <2>1
  <2>4. /\ Len(Append(h, a)) = Len(h) + 1 /\ Len(h) \in Nat
        /\ Append(h, a)[Len(h) + 1] = a
        /\ \A i \in 1..Len(h) : Append(h, a)[i] = h[i]
    BY <2>1, AppendProperties, LenProperties
  <2>5. ToSet(Append(h, a)) = ToSet(h) \cup {a}
    <3>1. 1..(Len(h) + 1) = 1..Len(h) \cup {Len(h) + 1}
      BY <2>4
    <3> QED BY <2>4, <3>1 DEF ToSet
  <2> QED BY <2>2, <2>3, <2>5 DEF w, h
<1>7. TypeOK'
  <2>1. wire' \in [Conns -> Seq(Symbols)]
    <3> DEFINE f(c) == IF c \in told THEN wire[c] \o frame ELSE wire[c]
    <3>1. wire' = [c \in Conns |-> f(c)]
      BY <1>1 DEF frame
    <3>2. \A c \in Conns : f(c) \in Seq(Symbols)
      BY <1>5, <1>6
    <3> HIDE DEF f
    <3> QED BY <3>1, <3>2
  <2>2. written' \in [Conns -> Seq(Accounts)]
    <3> DEFINE f(c) == IF c \in told THEN Append(written[c], a) ELSE written[c]
    <3>1. written' = [c \in Conns |-> f(c)]
      BY <1>1
    <3>2. \A c \in Conns : f(c) \in Seq(Accounts)
      BY <1>5, <1>6
    <3> HIDE DEF f
    <3> QED BY <3>1, <3>2
  <2>3. events' \in 0..MaxEvents
    BY SyncEventsAssumption DEF Publish, EventsInv, TypeOK
  <2> QED BY <1>1, <2>1, <2>2, <2>3 DEF EventsInv, TypeOK
<1>8. \A c \in Conns : c \in told => srv[c] \notin {"none", "listing"}
  BY <1>2 DEF EventsInv, Silent
<1>9. ASSUME NEW d \in Effects PROVE Reader(d)'
  <2>0. conn[d] # NoConn => conn[d] \in Conns
    <3>1. conn[d] \in 0..conns /\ conns \in 0..MaxConns /\ MaxConns \in Nat
      BY SyncEventsAssumption DEF EventsInv, TypeOK
    <3> QED BY <3>1 DEF Conns, NoConn
  <2>1. CASE conn[d] = NoConn \/ conn[d] \notin told
    <3>1. conn[d] # NoConn => wire'[conn[d]] = wire[conn[d]] /\ written'[conn[d]] = written[conn[d]]
      BY <1>5, <2>0, <2>1
    <3> QED BY <1>1, <3>1, ReaderKept DEF Untouched
  <2>2. CASE conn[d] # NoConn /\ conn[d] \in told
    <3>1. wire'[conn[d]] = wire[conn[d]] \o frame
      BY <1>5, <2>0, <2>2
    <3>2. written'[conn[d]] = written[conn[d]] \o AccountsIn(frame)
      BY <1>3, <1>5, <1>6, <2>0, <2>2 DEF frame
    <3>3. FrameText(frame) /\ Complete(frame)
      BY <1>3 DEF frame
    <3> QED BY <1>1, <1>4, <1>8, <2>0, <2>2, <3>1, <3>2, <3>3, ReaderWritten
  <2> QED BY <2>1, <2>2
<1>10. ASSUME NEW k \in Conns PROVE (Silent(k) /\ WrittenToOwner(k))'
  <2>1. CASE k \notin told
    BY <1>1, <1>5, <2>1, ConnKept DEF Still
  <2>2. CASE k \in told
    <3>1. Silent(k)'
      BY <1>1, <1>8, <2>2 DEF Silent, EventsInv
    <3>2. WrittenToOwner(k)'
      <4>1. WrittenToOwner(k)
        BY DEF EventsInv
      <4>2. ToSet(written'[k]) = ToSet(written[k]) \cup {a} /\ Owned(k, a)
        BY <1>2, <1>5, <1>6, <2>2
      <4> QED BY <1>1, <4>1, <4>2 DEF WrittenToOwner, Owned
    <3> QED BY <3>1, <3>2
  <2> QED BY <2>1, <2>2
<1> QED BY <1>7, <1>9, <1>10 DEF EventsInv

LEMMA NextEvents ==
  ASSUME EventsInv, [Next]_vars
  PROVE  EventsInv'
<1>1. CASE UNCHANGED vars
  <2>1. /\ UNCHANGED <<phase, aborted, conn, buffer, handled, begun, conns, opener, bearer, srv, link,
                       wire, written, listeners, events, pings>>
        /\ UNCHANGED <<token, refreshInFlight, jar, outside, mixed>>
    BY <1>1 DEF vars, client, session, made, server
  <2>2. TypeOK'
    BY <2>1 DEF EventsInv, TypeOK
  <2>3. ASSUME NEW d \in Effects PROVE Reader(d)'
    BY <2>1, ReaderKept DEF Untouched
  <2>4. ASSUME NEW c \in Conns PROVE (Silent(c) /\ WrittenToOwner(c))'
    BY <2>1, ConnKept DEF Still
  <2> QED BY <2>2, <2>3, <2>4 DEF EventsInv
<1>2. CASE Mount
  BY <1>2, MountStep
<1>3. ASSUME NEW e \in Effects,
             \/ Unmount(e) \/ Unauthorized(e) \/ StreamOpens(e)
             \/ Read(e) \/ ConsumeSettles(e) \/ ScheduleReconnect(e) \/ TimerFires(e)
      PROVE  EventsInv'
  BY <1>3, PhaseStep, EndStep, ConnectStep, ReadStep
<1>4. ASSUME NEW c \in Conns, EventsRequest(c) \/ EventsOpen(c) \/ EventsClosed(c) \/ Heartbeat(c)
      PROVE  EventsInv'
  BY <1>4, EndpointStep, OpenStep, HeartbeatStep
<1>5. ASSUME NEW a \in Accounts, Publish(a) PROVE EventsInv'
  BY <1>5, PublishStep
<1>6. CASE RefreshElsewhere \/ RefreshFails \/ \E u \in Users \cup {NoUser} : OtherTab(u)
  BY <1>6, SessionStep
<1>7. CASE RefreshSucceeds
  BY <1>7, ConnectStep
<1> QED BY <1>1, <1>2, <1>3, <1>4, <1>5, <1>6, <1>7 DEF Next

LEMMA EventsInvariant == Spec => []EventsInv
<1>1. Init => EventsInv
  BY InitEvents
<1>2. EventsInv /\ [Next]_vars => EventsInv'
  BY NextEvents
<1> QED BY <1>1, <1>2, PTL DEF Spec

\* The state of hook and endpoint is well formed: an effect's connection is one
\* that was made, and only connections that were made have a listener.
THEOREM EventsTypeCorrect == Spec => []TypeOK
<1>1. EventsInv => TypeOK
  BY DEF EventsInv
<1> QED BY <1>1, EventsInvariant, PTL

\* splitFrames and parseFrame lose, repeat and reorder no event, wherever the
\* chunks of a stream of any length end and however heartbeats lie between them.
THEOREM FramesAreNotLost == Spec => []FramesSurviveChunking
<1>1. EventsInv => FramesSurviveChunking
  <2> SUFFICES ASSUME EventsInv, NEW e \in Effects, phase[e] = "reading"
               PROVE  handled[e] \o AccountsIn(buffer[e] \o wire[conn[e]]) = written[conn[e]]
    BY DEF FramesSurviveChunking
  <2>1. Stream(e)
    BY ConnIs
  <2> QED BY <2>1 DEF Stream, Unread
<1> QED BY <1>1, EventsInvariant, PTL

\* Only the effect begun last still connects, and a timer is set only before
\* its cleanup.
OneEffect(e) ==
  /\ e # begun => aborted[e] \/ phase[e] = "unborn"
  /\ phase[e] = "waiting" => ~aborted[e]

\* Until it is cleaned up, token, cookie and refresh are of its user.
OwnToken ==
  begun > 0 /\ ~aborted[begun] /\ begun \notin mixed =>
    /\ token \in {User[begun], NoUser}
    /\ jar \in {User[begun], NoUser}
    /\ refreshInFlight \in {User[begun], NoUser, Idle}

\* So were the tokens of the connections made for it.
OwnBearer(c) ==
  c <= conns /\ opener[c] \notin mixed => bearer[c] \in {User[opener[c]], NoUser}

\* Without a token nobody listens.
Anonymous(c) ==
  c <= conns /\ bearer[c] = NoUser =>
    srv[c] \in {"none", "over"} /\ written[c] = <<>> /\ c \notin listeners

SessionInv ==
  /\ \A e \in Effects : OneEffect(e)
  /\ OwnToken
  /\ \A c \in Conns : OwnBearer(c) /\ Anonymous(c)

LEMMA InitSession ==
  ASSUME Init
  PROVE  SessionInv
BY DEF Init, SessionInv, OneEffect, OwnToken, OwnBearer, Anonymous, Conns

\* A request of the effect begun last goes out.
LEMMA SendSession ==
  ASSUME EventsInv, SessionInv, EventsInv', NEW e \in Effects, NEW label, NEW u, NEW phases,
         Send(e, label, u, phases), mixed \subseteq mixed',
         e \notin mixed' => u \in {User[e], NoUser}, UNCHANGED server
  PROVE  \A c \in Conns : (OwnBearer(c) /\ Anonymous(c))'
<1> DEFINE n == conns + 1
<1>1. /\ conns \in Nat /\ conns' = n
      /\ \A c \in Conns : c \in Nat /\ c > 0 /\ (c <= n => c = n \/ (c <= conns /\ c \in 1..conns))
      /\ n \in Conns /\ n > conns
  BY SyncEventsAssumption DEF Send, EventsInv, TypeOK, Conns
<1>2. /\ opener \in Seq(Effects) /\ Len(opener) = conns
      /\ opener' = Append(opener, e)
  BY <1>1, IsASeq DEF EventsInv, TypeOK, Send
<1>3. opener'[n] = e /\ \A c \in 1..conns : opener'[c] = opener[c]
  BY <1>1, <1>2, AppendProperties
<1>4. bearer'[n] = u /\ \A c \in 1..conns : bearer'[c] = bearer[c]
  <2> DEFINE U == Users \cup {NoUser}
  <2>1. bearer \in [1..conns -> U] /\ bearer' = Append(bearer, u)
    BY DEF EventsInv, TypeOK, Send
  <2> HIDE DEF U
  <2>2. bearer \in Seq(U) /\ Len(bearer) = conns
    BY <1>1, <2>1, IsASeq
  <2> QED BY <1>1, <2>1, <2>2
<1> HIDE DEF n
<1>5. srv[n] = "none" /\ written[n] = <<>> /\ n \notin listeners
  BY <1>1 DEF EventsInv, Silent
<1>6. ASSUME NEW c \in Conns PROVE (OwnBearer(c) /\ Anonymous(c))'
  <2>1. CASE c = n
    BY <1>1, <1>3, <1>4, <1>5, <2>1 DEF OwnBearer, Anonymous, server
  <2>2. CASE c # n
    <3>1. OwnBearer(c) /\ Anonymous(c) /\ (c <= n => c <= conns /\ c \in 1..conns)
      BY <1>1, <2>2 DEF SessionInv
    <3>2. c <= conns' => c <= conns /\ opener'[c] = opener[c] /\ bearer'[c] = bearer[c]
      BY <1>1, <1>3, <1>4, <3>1
    <3>3. UNCHANGED <<srv, written, listeners>>
      BY DEF server
    <3> QED BY <3>1, <3>2, <3>3 DEF OwnBearer, Anonymous
  <2> QED BY <2>1, <2>2
<1> QED BY <1>6

\* What keeps a connection's part of the invariant.
ConnSame(c) ==
  /\ conns' = conns /\ opener' = opener /\ bearer' = bearer /\ mixed \subseteq mixed'
  /\ c <= conns /\ bearer[c] = NoUser =>
       /\ srv'[c] = srv[c] \/ srv'[c] = "over"
       /\ written'[c] = written[c] /\ (c \in listeners' => c \in listeners)

LEMMA ConnSession ==
  ASSUME SessionInv, \A c \in Conns : ConnSame(c)
  PROVE  \A c \in Conns : (OwnBearer(c) /\ Anonymous(c))'
<1> SUFFICES ASSUME NEW c \in Conns PROVE (OwnBearer(c) /\ Anonymous(c))'
  OBVIOUS
<1>1. OwnBearer(c) /\ Anonymous(c) /\ ConnSame(c)
  BY DEF SessionInv
<1>2. OwnBearer(c)'
  BY <1>1 DEF OwnBearer, ConnSame
<1>3. Anonymous(c)'
  BY <1>1 DEF Anonymous, ConnSame
<1> QED BY <1>2, <1>3

\* Steps that leave effects, tokens and cookies alone.
LEMMA EffectsSame ==
  ASSUME SessionInv, UNCHANGED <<begun, aborted, mixed, token, jar, refreshInFlight>>,
         \A e \in Effects : phase'[e] = phase[e] \/ (phase'[e] # "waiting" /\ phase[e] # "unborn")
  PROVE  (\A e \in Effects : OneEffect(e))' /\ OwnToken'
<1>1. ASSUME NEW e \in Effects PROVE OneEffect(e)'
  BY DEF SessionInv, OneEffect
<1>2. OwnToken'
  BY DEF SessionInv, OwnToken
<1> QED BY <1>1, <1>2

LEMMA NextSession ==
  ASSUME EventsInv, EventsInv', SessionInv, [Next]_vars
  PROVE  SessionInv'
<1>0. /\ phase \in [Effects -> Phases] /\ aborted \in [Effects -> BOOLEAN]
      /\ begun \in Nat /\ begun \in 0..MaxEffects /\ MaxEffects \in Nat /\ mixed \subseteq Effects
      /\ \A e \in Effects : e \in Nat /\ e > 0
      /\ Users \cap {NoUser, Idle} = {}
  BY PhaseIs, SyncEventsAssumption DEF SessionTyped, Effects
<1>1. CASE UNCHANGED vars
  <2>1. /\ UNCHANGED <<phase, begun, aborted, mixed, token, jar, refreshInFlight>>
        /\ UNCHANGED <<conns, opener, bearer, srv, written, listeners>>
    BY <1>1 DEF vars, client, session, made, server
  <2>2. \A c \in Conns : ConnSame(c)
    BY <2>1 DEF ConnSame
  <2> QED BY <2>1, <2>2, ConnSession, EffectsSame DEF SessionInv
<1>2. CASE Mount
  <2> DEFINE e == begun + 1
  <2>1. e \in Effects /\ mixed \subseteq mixed' /\ UNCHANGED <<server, aborted, refreshInFlight>>
        /\ begun' = e /\ begun < MaxEffects /\ (begun > 0 => aborted[begun])
        /\ token' = User[e] /\ jar' = User[e]
        /\ Send(e, "connecting", User[e], phase)
        /\ (e \notin mixed' => refreshInFlight \in {User[e], NoUser, Idle})
    BY <1>0, <1>2 DEF Mount, Start, Effects
  <2>2. \A c \in Conns : (OwnBearer(c) /\ Anonymous(c))'
    BY <2>1, SendSession
  <2>3. ASSUME NEW d \in Effects PROVE OneEffect(d)'
    <3>1. OneEffect(d) /\ phase' = [phase EXCEPT ![e] = "connecting"] /\ (d # begun \/ aborted[d])
      BY <1>0, <2>1 DEF SessionInv, Send
    <3> HIDE DEF e
    <3>2. CASE d = e
      BY <1>0, <2>1, <3>1, <3>2 DEF OneEffect
    <3>3. CASE d # e
      BY <1>0, <2>1, <3>1, <3>3 DEF OneEffect
    <3> QED BY <3>2, <3>3
  <2>4. OwnToken'
    BY <2>1 DEF OwnToken
  <2> QED BY <2>2, <2>3, <2>4 DEF SessionInv
<1>3. ASSUME NEW e \in Effects, Unmount(e) PROVE SessionInv'
  <2>1. /\ UNCHANGED <<begun, conns, opener, bearer, srv, written, listeners, mixed>>
        /\ e = begun /\ aborted' = [aborted EXCEPT ![e] = TRUE]
        /\ phase' = [phase EXCEPT ![e] = IF phase[e] = "waiting" THEN "stopped" ELSE phase[e]]
    BY <1>3 DEF Unmount, made, server
  <2>2. \A c \in Conns : ConnSame(c)
    BY <2>1 DEF ConnSame
  <2>3. ASSUME NEW d \in Effects PROVE OneEffect(d)'
    BY <1>0, <2>1 DEF SessionInv, OneEffect
  <2>4. OwnToken'
    BY <1>0, <2>1 DEF OwnToken
  <2> QED BY <2>2, <2>3, <2>4, ConnSession DEF SessionInv
<1>4. ASSUME NEW e \in Effects, Unauthorized(e) PROVE SessionInv'
  <2>0. conn[e] \in Conns /\ phase[e] = "connecting" /\ ~aborted[e]
    BY <1>4, ConnIs DEF Unauthorized
  <2>1. /\ UNCHANGED <<begun, aborted, conns, opener, bearer, written, listeners, mixed, token, jar>>
        /\ phase' = [phase EXCEPT ![e] = "refreshing"]
        /\ srv' = [srv EXCEPT ![conn[e]] = "over"] /\ refreshInFlight' = RefreshSent
    BY <1>4 DEF Unauthorized, made
  <2>2. \A c \in Conns : ConnSame(c)
    BY <2>0, <2>1 DEF ConnSame, EventsInv, TypeOK
  <2>3. ASSUME NEW d \in Effects PROVE OneEffect(d)'
    BY <1>0, <2>0, <2>1 DEF SessionInv, OneEffect
  <2>4. OwnToken'
    BY <2>1 DEF OwnToken, SessionInv, RefreshSent
  <2> QED BY <2>2, <2>3, <2>4, ConnSession DEF SessionInv
<1>5. ASSUME NEW e \in Effects,
             StreamOpens(e) \/ Read(e) \/ ConsumeSettles(e) \/ ScheduleReconnect(e)
      PROVE  SessionInv'
  <2>1. /\ UNCHANGED <<begun, aborted, mixed, token, jar, refreshInFlight>>
        /\ UNCHANGED <<conns, opener, bearer, srv, written, listeners>>
    BY <1>5 DEF StreamOpens, Read, ConsumeSettles, ScheduleReconnect, session, made, server
  <2>2. \A c \in Conns : ConnSame(c)
    BY <2>1 DEF ConnSame
  <2>3. CASE StreamOpens(e) \/ Read(e) \/ ConsumeSettles(e) \/ aborted[e]
    <3>1. \A d \in Effects : phase'[d] = phase[d] \/ (phase'[d] # "waiting" /\ phase[d] # "unborn")
      BY <1>0, <1>5, <2>3 DEF StreamOpens, Read, ConsumeSettles, ScheduleReconnect
    <3> QED BY <2>1, <2>2, <3>1, ConnSession, EffectsSame DEF SessionInv
  <2>4. CASE ScheduleReconnect(e) /\ ~aborted[e]
    <3>1. phase' = [phase EXCEPT ![e] = "waiting"] /\ phase[e] = "settled"
      BY <2>4 DEF ScheduleReconnect
    <3>2. ASSUME NEW d \in Effects PROVE OneEffect(d)'
      BY <1>0, <2>1, <2>4, <3>1 DEF SessionInv, OneEffect
    <3>3. OwnToken'
      BY <2>1 DEF SessionInv, OwnToken
    <3> QED BY <2>2, <3>2, <3>3, ConnSession DEF SessionInv
  <2> QED BY <1>5, <2>3, <2>4
<1>6. ASSUME NEW e \in Effects, TimerFires(e) PROVE SessionInv'
  <2>1. /\ Send(e, "connecting", token, phase) /\ phase[e] = "waiting"
        /\ UNCHANGED <<aborted, begun, token, jar, refreshInFlight, mixed, server>>
    BY <1>6 DEF TimerFires, Start, session
  <2>2. e = begun /\ ~aborted[e]
    BY <2>1 DEF SessionInv, OneEffect
  <2>3. e \notin mixed' => token \in {User[e], NoUser}
    BY <1>0, <2>1, <2>2 DEF SessionInv, OwnToken
  <2>4. \A c \in Conns : (OwnBearer(c) /\ Anonymous(c))'
    BY <2>1, <2>3, SendSession
  <2>5. \A d \in Effects : phase'[d] = phase[d] \/ (phase'[d] # "waiting" /\ phase[d] # "unborn")
    BY <1>0, <2>1 DEF Send
  <2> QED BY <2>1, <2>4, <2>5, EffectsSame DEF SessionInv
<1>7. CASE RefreshElsewhere
  <2>1. /\ UNCHANGED <<phase, begun, aborted, mixed, token, jar>>
        /\ UNCHANGED <<conns, opener, bearer, srv, written, listeners>>
        /\ refreshInFlight' = RefreshSent
    BY <1>7 DEF RefreshElsewhere, client, made, server
  <2>2. \A c \in Conns : ConnSame(c)
    BY <2>1 DEF ConnSame
  <2>3. ASSUME NEW d \in Effects PROVE OneEffect(d)'
    BY <2>1 DEF SessionInv, OneEffect
  <2>4. OwnToken'
    BY <2>1 DEF OwnToken, SessionInv, RefreshSent
  <2> QED BY <2>2, <2>3, <2>4, ConnSession DEF SessionInv
<1>8. ASSUME NEW u \in Users \cup {NoUser}, OtherTab(u) PROVE SessionInv'
  <2>1. /\ UNCHANGED <<phase, begun, aborted, token, refreshInFlight>>
        /\ UNCHANGED <<conns, opener, bearer, srv, written, listeners>>
        /\ jar' = u /\ mixed \subseteq mixed'
        /\ begun > 0 /\ ~aborted[begun] /\ begun \notin mixed' => u \in {User[begun], NoUser}
    BY <1>8 DEF OtherTab, client, made, server
  <2>2. \A c \in Conns : ConnSame(c)
    BY <2>1 DEF ConnSame
  <2>3. ASSUME NEW d \in Effects PROVE OneEffect(d)'
    BY <2>1 DEF SessionInv, OneEffect
  <2>4. OwnToken'
    BY <2>1 DEF OwnToken, SessionInv
  <2> QED BY <2>2, <2>3, <2>4, ConnSession DEF SessionInv
<1>9. CASE RefreshSucceeds
  <2>1. /\ UNCHANGED <<aborted, begun, mixed, server>> /\ refreshInFlight \in Users
        /\ token' = refreshInFlight /\ jar' = refreshInFlight /\ refreshInFlight' = Idle
    BY <1>9 DEF RefreshSucceeds
  <2>2. OwnToken'
    BY <1>0, <2>1 DEF OwnToken, SessionInv
  <2>3. \/ \E e \in Effects : phase[e] = "refreshing" /\ ~aborted[e]
                              /\ Send(e, "retrying", refreshInFlight, Settled)
        \/ phase' = Settled /\ UNCHANGED made
    BY <1>9 DEF RefreshSucceeds
  <2>4. CASE phase' = Settled /\ UNCHANGED made
    <3>1. \A c \in Conns : ConnSame(c)
      BY <2>1, <2>4 DEF ConnSame, made, server
    <3>2. ASSUME NEW d \in Effects PROVE OneEffect(d)'
      BY <2>1, <2>4 DEF SessionInv, OneEffect, Settled
    <3> QED BY <2>2, <3>1, <3>2, ConnSession DEF SessionInv
  <2>5. ASSUME NEW e \in Effects, phase[e] = "refreshing", ~aborted[e],
               Send(e, "retrying", refreshInFlight, Settled)
        PROVE  SessionInv'
    <3>1. e = begun
      BY <2>5 DEF SessionInv, OneEffect
    <3>2. e \notin mixed' => refreshInFlight \in {User[e], NoUser}
      BY <1>0, <2>1, <2>5, <3>1 DEF SessionInv, OwnToken
    <3>3. \A c \in Conns : (OwnBearer(c) /\ Anonymous(c))'
      BY <2>1, <2>5, <3>2, SendSession
    <3>4. phase' = [Settled EXCEPT ![e] = "retrying"]
      BY <2>5 DEF Send
    <3>5. ASSUME NEW d \in Effects PROVE OneEffect(d)'
      BY <2>1, <2>5, <3>1, <3>4 DEF SessionInv, OneEffect, Settled
    <3> QED BY <2>2, <3>3, <3>5 DEF SessionInv
  <2> QED BY <2>3, <2>4, <2>5
<1>10. CASE RefreshFails
  <2>1. /\ UNCHANGED <<aborted, begun, mixed, jar, conns, opener, bearer, srv, written, listeners>>
        /\ (token' = NoUser \/ token' = token) /\ refreshInFlight' = Idle /\ phase' = Settled
    BY <1>10 DEF RefreshFails, made, server
  <2>2. \A c \in Conns : ConnSame(c)
    BY <2>1 DEF ConnSame
  <2>3. ASSUME NEW d \in Effects PROVE OneEffect(d)'
    BY <2>1 DEF SessionInv, OneEffect, Settled
  <2>4. OwnToken'
    BY <2>1 DEF OwnToken, SessionInv
  <2> QED BY <2>2, <2>3, <2>4, ConnSession DEF SessionInv
<1>11. ASSUME NEW c \in Conns, EventsRequest(c) \/ EventsOpen(c) \/ EventsClosed(c) \/ Heartbeat(c)
       PROVE  SessionInv'
  <2>1. /\ UNCHANGED <<phase, begun, aborted, mixed, token, jar, refreshInFlight>>
        /\ UNCHANGED <<conns, opener, bearer, written>>
    BY <1>11 DEF EventsRequest, EventsOpen, EventsClosed, Heartbeat, client, session, made
  <2>2. \A k \in Conns : ConnSame(k)
    <3>1. ASSUME NEW k \in Conns, k <= conns, bearer[k] = NoUser
          PROVE  /\ srv'[k] = srv[k] \/ srv'[k] = "over"
                 /\ k \in listeners' => k \in listeners
      <4>1. srv[k] \in {"none", "over"} /\ srv \in [Conns -> {"none", "listing", "open", "leaked", "over"}]
        BY <3>1 DEF SessionInv, Anonymous, EventsInv, TypeOK
      <4> QED BY <1>11, <3>1, <4>1 DEF EventsRequest, EventsOpen, EventsClosed, Heartbeat
    <3> QED BY <2>1, <3>1 DEF ConnSame
  <2> QED BY <2>1, <2>2, ConnSession, EffectsSame DEF SessionInv
<1>12. ASSUME NEW a \in Accounts, Publish(a) PROVE SessionInv'
  <2>1. /\ UNCHANGED <<phase, begun, aborted, mixed, token, jar, refreshInFlight>>
        /\ UNCHANGED <<conns, opener, bearer, srv, listeners>>
    BY <1>12 DEF Publish, client, session, made
  <2>2. \A k \in Conns : k \notin listeners => written'[k] = written[k]
    BY <1>12 DEF Publish, EventsInv, TypeOK
  <2>3. \A k \in Conns : ConnSame(k)
    BY <2>1, <2>2 DEF ConnSame, SessionInv, Anonymous
  <2> QED BY <2>1, <2>3, ConnSession, EffectsSame DEF SessionInv
<1> QED BY <1>1, <1>2, <1>3, <1>4, <1>5, <1>6, <1>7, <1>8, <1>9, <1>10, <1>11, <1>12 DEF Next

LEMMA SessionInvariant == Spec => []SessionInv
<1>1. Init => SessionInv
  BY InitSession
<1>2. EventsInv /\ EventsInv' /\ SessionInv /\ [Next]_vars => SessionInv'
  BY NextSession
<1> QED BY <1>1, <1>2, EventsInvariant, PTL DEF Spec

\* What the hook handles is of the user whose token opened the connection, and
\* unless the browser held the cookies of two users during the effect that is
\* the user signed in: a timer, a retry behind a shared refresh and a refresh
\* that outlives a sign-out bring no other token.
THEOREM EventsStayWithOwner == Spec => []OnlyOwnAccounts
<1>1. EventsInv /\ SessionInv => OnlyOwnAccounts
  <2> SUFFICES ASSUME EventsInv, SessionInv, NEW e \in Effects, conn[e] # NoConn
               PROVE  /\ \A a \in ToSet(handled[e]) : Owned(conn[e], a)
                      /\ e \notin mixed => ToSet(handled[e]) \subseteq Mine[User[e]]
    BY DEF OnlyOwnAccounts
  <2>1. conn[e] \in 0..conns /\ conns \in 0..MaxConns /\ MaxConns \in Nat
    BY SyncEventsAssumption DEF EventsInv, TypeOK
  <2>2. conn[e] \in Conns /\ conn[e] <= conns
    BY <2>1 DEF Conns, NoConn
  <2>3. opener[conn[e]] = e /\ Stream(e)
    BY DEF EventsInv, Reader
  <2> DEFINE h == handled[e]
             rest == AccountsIn(Unread(e))
  <2>4. h \in Seq(Accounts) /\ rest \in Seq(Accounts)
    <3>1. /\ buffer[e] \in Seq(Symbols) /\ wire[conn[e]] \in Seq(Symbols)
          /\ handled[e] \in Seq(Accounts)
      BY <2>2 DEF EventsInv, TypeOK
    <3>2. Unread(e) \in Seq(Symbols)
      BY <3>1, ConcatProperties DEF Unread
    <3> QED BY <3>1, <3>2, AccountsInType
  <2>5. h \o rest = written[conn[e]]
    BY <2>3 DEF Stream
  <2> HIDE DEF h, rest
  <2>6. ToSet(h) \subseteq ToSet(h \o rest)
    <3>1. /\ Len(h \o rest) = Len(h) + Len(rest) /\ Len(h) \in Nat /\ Len(rest) \in Nat
          /\ \A i \in 1..Len(h) : (h \o rest)[i] = h[i]
      BY <2>4
    <3>2. 1..Len(h) \subseteq 1..Len(h \o rest)
      BY <3>1
    <3> QED BY <3>1, <3>2 DEF ToSet
  <2>7. \A a \in ToSet(handled[e]) : a \in ToSet(written[conn[e]])
    BY <2>5, <2>6 DEF h
  <2>8. \A a \in ToSet(handled[e]) : Owned(conn[e], a)
    BY <2>2, <2>7 DEF EventsInv, WrittenToOwner
  <2>9. ASSUME e \notin mixed PROVE ToSet(handled[e]) \subseteq Mine[User[e]]
    <3>1. bearer[conn[e]] \in {User[e], NoUser} /\ Anonymous(conn[e])
      BY <2>2, <2>3, <2>9 DEF SessionInv, OwnBearer
    <3>2. CASE bearer[conn[e]] = User[e]
      BY <2>8, <3>2 DEF Owned
    <3>3. CASE bearer[conn[e]] = NoUser
      <4>1. written[conn[e]] = <<>>
        BY <2>2, <3>1, <3>3 DEF Anonymous
      <4>2. ToSet(<<>>) = {}
        BY DEF ToSet
      <4> QED BY <2>7, <4>1, <4>2
    <3> QED BY <3>1, <3>2, <3>3
  <2> QED BY <2>8, <2>9
<1> QED BY <1>1, EventsInvariant, SessionInvariant, PTL

-----------------------------------------------------------------------------
(* MessageReading: the order of rows *)

\* orderBy decides between any two rows.
LEMMA BeforeOrders ==
  ASSUME NEW a \in Ids, NEW b \in Ids, NEW c \in Ids
  PROVE  /\ ~Before(a, a)
         /\ Before(a, b) /\ Before(b, c) => Before(a, c)
         /\ a = b \/ Before(a, b) \/ Before(b, a)
<1>1. a \in Nat /\ b \in Nat /\ c \in Nat /\ SentAt[a] \in Nat /\ SentAt[b] \in Nat /\ SentAt[c] \in Nat
  BY ReadingAssumption
<1> QED BY <1>1 DEF Before

Ahead(S, r) == {q \in S : Before(q, r)}
Rank(S, r) == Cardinality(Ahead(S, r))

LEMMA RankGrows ==
  ASSUME NEW S \in SUBSET Ids, NEW r \in S
  PROVE  /\ IsFiniteSet(S) /\ Cardinality(S) \in Nat
         /\ Rank(S, r) \in 0..(Cardinality(S) - 1)
         /\ \A s \in S : Before(r, s) => Rank(S, r) < Rank(S, s)
<1>1. IsFiniteSet(S) /\ Cardinality(S) \in Nat
  <2>1. IsFiniteSet(S)
    BY ReadingAssumption, FS_Subset
  <2> QED BY <2>1, FS_CardinalityType
<1>2. ASSUME NEW s \in S
      PROVE  IsFiniteSet(Ahead(S, s)) /\ Rank(S, s) \in Nat
  <2>1. Ahead(S, s) \in SUBSET S
    BY DEF Ahead
  <2>2. IsFiniteSet(Ahead(S, s))
    BY <1>1, <2>1, FS_Subset
  <2> QED BY <2>2, FS_CardinalityType DEF Rank
<1>3. Rank(S, r) \in 0..(Cardinality(S) - 1)
  <2>1. Ahead(S, r) \in SUBSET S /\ r \notin Ahead(S, r)
    BY BeforeOrders DEF Ahead
  <2>2. Rank(S, r) <= Cardinality(S) /\ Cardinality(S) # Rank(S, r)
    BY <1>1, <2>1, FS_Subset DEF Rank
  <2> QED BY <1>1, <1>2, <2>2
<1>4. ASSUME NEW s \in S, Before(r, s) PROVE Rank(S, r) < Rank(S, s)
  <2>1. Ahead(S, r) \in SUBSET Ahead(S, s)
    <3>1. ASSUME NEW q \in S, Before(q, r) PROVE Before(q, s)
      BY <1>4, <3>1, BeforeOrders
    <3> QED BY <3>1 DEF Ahead
  <2>2. r \in Ahead(S, s) /\ r \notin Ahead(S, r)
    BY <1>4, BeforeOrders DEF Ahead
  <2>3. Rank(S, r) <= Rank(S, s) /\ Rank(S, s) # Rank(S, r)
    BY <1>2, <2>1, <2>2, FS_Subset DEF Rank
  <2> QED BY <1>2, <2>3
<1> QED BY <1>1, <1>3, <1>4

\* Each row has a place of its own, and no place is empty.
LEMMA RankIsPlace ==
  ASSUME NEW S \in SUBSET Ids
  PROVE  \A i \in 1..Cardinality(S) : \E r \in S : Rank(S, r) = i - 1
<1> DEFINE n == Cardinality(S)
           T == 0..(n - 1)
           f == [r \in S |-> Rank(S, r)]
<1>1. IsFiniteSet(S) /\ n \in Nat
  <2>1. IsFiniteSet(S)
    BY ReadingAssumption, FS_Subset
  <2> QED BY <2>1, FS_CardinalityType
<1>2. IsFiniteSet(T) /\ Cardinality(T) = n
  <2>1. 0 \in Int /\ n - 1 \in Int
    BY <1>1
  <2>2. IsFiniteSet(T) /\ Cardinality(T) = IF 0 > n - 1 THEN 0 ELSE (n - 1) - 0 + 1
    BY <2>1, FS_Interval
  <2>3. (IF 0 > n - 1 THEN 0 ELSE (n - 1) - 0 + 1) = n
    BY <1>1
  <2> QED BY <2>2, <2>3
<1>3. f \in [S -> T]
  BY RankGrows
<1>4. ASSUME NEW r \in S, NEW s \in S, r # s PROVE f[r] # f[s]
  <2>1. Before(r, s) \/ Before(s, r)
    BY <1>4, BeforeOrders
  <2>2. Rank(S, r) < Rank(S, s) \/ Rank(S, s) < Rank(S, r)
    BY <2>1, RankGrows
  <2>3. Rank(S, r) \in Int /\ Rank(S, s) \in Int
    BY <1>1, RankGrows
  <2> QED BY <2>2, <2>3
<1>5. f \in Injection(S, T)
  BY <1>3, <1>4 DEF Injection, IsInjective
<1>6. f \in Surjection(S, T)
  <2> HIDE DEF T, f
  <2> QED BY <1>1, <1>2, <1>5, FS_Injection
<1>7. ASSUME NEW i \in 1..n PROVE \E r \in S : Rank(S, r) = i - 1
  <2>1. i - 1 \in T
    BY <1>1
  <2>2. \E r \in S : f[r] = i - 1
    BY <1>6, <2>1 DEF Surjection
  <2> QED BY <2>2
<1> QED BY <1>7

\* What orderBy returns: every row once, in order.
LEMMA OrderedIs ==
  ASSUME NEW S \in SUBSET Ids
  PROVE  LET s == Ordered(S)
         IN  /\ s \in Seq(Ids) /\ Len(s) = Cardinality(S) /\ Len(s) \in Nat
             /\ \A i \in 1..Len(s) : s[i] \in S
             /\ \A i, j \in 1..Len(s) : i < j => Before(s[i], s[j])
             /\ \A r \in S : \E i \in 1..Len(s) : s[i] = r
<1> DEFINE s == Ordered(S)
           n == Cardinality(S)
<1>1. n \in Nat
  <2>1. IsFiniteSet(S)
    BY ReadingAssumption, FS_Subset
  <2> QED BY <2>1, FS_CardinalityType
<1>2. s = [i \in 1..n |-> CHOOSE r \in S : Rank(S, r) = i - 1]
  BY DEF Ordered, Rank, Ahead
<1>3. ASSUME NEW i \in 1..n PROVE s[i] \in S /\ Rank(S, s[i]) = i - 1
  <2>1. \E r \in S : Rank(S, r) = i - 1
    BY RankIsPlace
  <2>2. s[i] = CHOOSE r \in S : Rank(S, r) = i - 1
    BY <1>2
  <2> QED BY <2>1, <2>2
<1>4. s \in [1..n -> Ids] /\ DOMAIN s = 1..n
  BY <1>2, <1>3
<1> HIDE DEF s
<1>5. s \in Seq(Ids) /\ Len(s) = n
  BY <1>1, <1>4, IsASeq
<1>6. ASSUME NEW i \in 1..n, NEW j \in 1..n, i < j PROVE Before(s[i], s[j])
  <2>1. s[i] \in S /\ s[j] \in S /\ Rank(S, s[i]) = i - 1 /\ Rank(S, s[j]) = j - 1
    BY <1>3
  <2>2. ~(Rank(S, s[j]) < Rank(S, s[i])) /\ s[i] # s[j]
    BY <1>1, <1>6, <2>1
  <2>3. ~Before(s[j], s[i])
    BY <2>1, <2>2, RankGrows
  <2> QED BY <2>1, <2>2, <2>3, BeforeOrders
<1>7. ASSUME NEW r \in S PROVE \E i \in 1..n : s[i] = r
  <2> DEFINE i == Rank(S, r) + 1
  <2>1. i \in 1..n /\ i - 1 = Rank(S, r)
    BY <1>1, RankGrows
  <2>2. s[i] \in S /\ Rank(S, s[i]) = Rank(S, r)
    BY <1>3, <2>1
  <2>3. ~(Rank(S, s[i]) < Rank(S, r)) /\ ~(Rank(S, r) < Rank(S, s[i]))
    BY <1>1, <2>1, <2>2
  <2> HIDE DEF i
  <2>4. ~Before(s[i], r) /\ ~Before(r, s[i])
    BY <2>2, <2>3, RankGrows
  <2>5. s[i] = r
    BY <2>2, <2>4, BeforeOrders
  <2> QED BY <2>1, <2>5
<1> QED BY <1>1, <1>3, <1>5, <1>6, <1>7 DEF s

InOrder(s) == \A i, j \in 1..Len(s) : i < j => Before(s[i], s[j])

\* The cursor of the list ps.
Cursor(ps) == IF ps = <<>> THEN NoRow ELSE Last(ps).next

\* The pages ps, the first of which was read when the table held sn.
ListOK(ps, sn) ==
  /\ ps \in Seq(Page) /\ sn \subseteq rows
  /\ \A i \in 1..Len(ps) : ps[i].next # NoRow => ps[i].next \in rows /\ ps[i].messages # <<>>
  /\ InOrder(Rows(ps))
  /\ ps # <<>> => \A r \in sn : r \in ToSet(Rows(ps)) \/ (Cursor(ps) # NoRow /\ Before(Cursor(ps), r))
  /\ Cursor(ps) # NoRow => Rows(ps) # <<>> /\ Last(Rows(ps)) = Cursor(ps)

Fetches == [mode : {"none", "next", "refetch"}, want : Nat, got : Seq(Page), seen : SUBSET Ids]

\* A fetch goes on only from a page that has a next one.
FetchOK ==
  /\ fetch \in Fetches
  /\ ListOK(fetch.got, fetch.seen)
  /\ fetch.mode = "next" => pages # <<>> /\ Cursor(pages) # NoRow
  /\ fetch.got # <<>> => Cursor(fetch.got) # NoRow

ListInv ==
  /\ rows \subseteq Ids /\ syncs \in 0..MaxSyncs
  /\ ListOK(pages, seen)
  /\ FetchOK

\* take is a number of rows, whatever the caller sends.
LEMMA TakeIs ==
  ASSUME NEW asked \in Asked
  PROVE  take(asked) \in Nat /\ take(asked) >= 1
<1>1. asked \in Int /\ MaxLimit \in Nat /\ DefaultLimit \in 1..MaxLimit
  BY ReadingAssumption
<1> QED BY <1>1 DEF take

\* What one request returns: the rows after the cursor from the first of them,
\* and a cursor that stands before the others.
PageExact(p, cursor) ==
  /\ p \in Page
  /\ InOrder(p.messages)
  /\ \A i \in 1..Len(p.messages) : p.messages[i] \in After(cursor)
  /\ \A r \in After(cursor) : r \in ToSet(p.messages) \/ (p.next # NoRow /\ Before(p.next, r))
  /\ p.next # NoRow => p.messages # <<>> /\ Last(p.messages) = p.next /\ p.next \in rows

LEMMA PageIsExact ==
  ASSUME rows \subseteq Ids, NEW cursor, NEW limit \in Nat, limit >= 1
  PROVE  PageExact(listForAccount(cursor, limit), cursor)
<1> DEFINE S == After(cursor)
           found == Ordered(S)
           more == Len(found) > limit
           k == IF more THEN limit ELSE Len(found)
           p == listForAccount(cursor, limit)
           ms == SubSeq(found, 1, k)
<1>1. S \in SUBSET Ids /\ S \subseteq rows
  BY DEF After
<1>2. /\ found \in Seq(Ids) /\ Len(found) \in Nat
      /\ \A i \in 1..Len(found) : found[i] \in S
      /\ \A i, j \in 1..Len(found) : i < j => Before(found[i], found[j])
      /\ \A r \in S : \E i \in 1..Len(found) : found[i] = r
  <2> HIDE DEF S
  <2> QED BY <1>1, OrderedIs
<1>3. p = [messages |-> ms, next |-> IF more THEN found[limit] ELSE NoRow]
  BY DEF listForAccount
<1> HIDE DEF p, found, S
<1>4. /\ k \in 0..Len(found) /\ (more => k = limit /\ limit \in 1..Len(found))
      /\ (~more => k = Len(found))
  BY <1>2
<1>5. /\ ms \in Seq(Ids) /\ Len(ms) = k
      /\ \A i \in 1..k : ms[i] = found[i]
  <2> HIDE DEF k
  <2> QED BY <1>2, <1>4
<1>6. p.messages = ms /\ (more => p.next = found[limit]) /\ (~more => p.next = NoRow)
  BY <1>3
<1> HIDE DEF ms, k, more
<1>7. \A i \in 1..k : i \in 1..Len(found)
  BY <1>2, <1>4
<1>8. more => p.next \in S
  BY <1>2, <1>4, <1>6
<1>9. p \in Page
  <2>1. p.next \in Ids \cup {NoRow}
    BY <1>1, <1>6, <1>8
  <2>2. p = [messages |-> p.messages, next |-> p.next]
    BY <1>3
  <2> QED BY <1>5, <1>6, <2>1, <2>2 DEF Page
<1>10. InOrder(p.messages)
  BY <1>2, <1>5, <1>6, <1>7 DEF InOrder
<1>11. \A i \in 1..Len(p.messages) : p.messages[i] \in S
  BY <1>2, <1>5, <1>6, <1>7
<1>12. ASSUME NEW r \in S PROVE r \in ToSet(p.messages) \/ (p.next # NoRow /\ Before(p.next, r))
  <2>1. PICK i \in 1..Len(found) : found[i] = r
    BY <1>2
  <2>2. CASE i <= k
    <3>1. i \in 1..k
      BY <1>4, <2>2
    <3>2. i \in 1..Len(ms) /\ ms[i] = r
      BY <1>5, <2>1, <3>1
    <3> QED BY <1>6, <3>2 DEF ToSet
  <2>3. CASE ~(i <= k)
    <3>1. more /\ limit < i
      BY <1>2, <1>4, <2>3
    <3>2. Before(found[limit], found[i])
      BY <1>2, <1>4, <3>1
    <3>3. p.next # NoRow
      BY <1>1, <1>8, <3>1, ReadingAssumption DEF NoRow
    <3> QED BY <1>6, <2>1, <3>1, <3>2, <3>3
  <2> QED BY <2>2, <2>3
<1>13. ASSUME p.next # NoRow
       PROVE  p.messages # <<>> /\ Last(p.messages) = p.next /\ p.next \in rows
  <2>1. more /\ k = limit /\ limit \in 1..k
    BY <1>4, <1>6, <1>13
  <2>2. ms[limit] = found[limit] /\ Len(ms) = limit
    BY <1>5, <2>1
  <2>3. ms # <<>>
    BY <2>1, <2>2
  <2> QED BY <1>1, <1>6, <1>8, <2>1, <2>2, <2>3 DEF Last
<1> QED BY <1>9, <1>10, <1>11, <1>12, <1>13 DEF PageExact, p, S

Messages(ps) == [i \in 1..Len(ps) |-> ps[i].messages]

LEMMA RowsType ==
  ASSUME NEW ps \in Seq(Page)
  PROVE  Messages(ps) \in Seq(Seq(Ids)) /\ Rows(ps) \in Seq(Ids) /\ Rows(ps) = FlattenSeq(Messages(ps))
<1>1. Len(ps) \in Nat /\ \A i \in 1..Len(ps) : ps[i] \in Page
  OBVIOUS
<1>2. \A i \in 1..Len(ps) : ps[i].messages \in Seq(Ids)
  BY <1>1 DEF Page
<1>3. Messages(ps) \in [1..Len(ps) -> Seq(Ids)]
  BY <1>2 DEF Messages
<1>4. Messages(ps) \in Seq(Seq(Ids))
  BY <1>1, <1>3, IsASeq
<1>5. Rows(ps) = FlattenSeq(Messages(ps))
  BY DEF Rows, Messages
<1> QED BY <1>4, <1>5, FlattenType

LEMMA RowsEmpty == Rows(<<>>) = <<>>
<1>1. Messages(<<>>) = <<>>
  BY DEF Messages
<1>2. Rows(<<>>) = FlattenSeq(Messages(<<>>))
  BY DEF Rows, Messages
<1> QED BY <1>1, <1>2, FlattenEmpty

LEMMA RowsAppend ==
  ASSUME NEW ps \in Seq(Page), NEW p \in Page
  PROVE  Rows(Append(ps, p)) = Rows(ps) \o p.messages
<1> DEFINE qs == Append(ps, p)
           n == Len(ps)
<1>1. /\ qs \in Seq(Page) /\ Len(qs) = n + 1 /\ qs[n + 1] = p /\ n \in Nat
      /\ \A i \in 1..n : qs[i] = ps[i]
  BY AppendProperties, LenProperties
<1>2. p.messages \in Seq(Ids)
  BY DEF Page
<1>3. Messages(ps) \in Seq(Seq(Ids)) /\ Len(Messages(ps)) = n /\ \A i \in 1..n : Messages(ps)[i] = ps[i].messages
  <2>1. \A i \in 1..n : Messages(ps)[i] = ps[i].messages
    BY DEF Messages
  <2>2. Messages(ps) \in Seq(Seq(Ids)) /\ DOMAIN Messages(ps) = 1..n
    BY RowsType DEF Messages
  <2>3. Len(Messages(ps)) = n
    BY <1>1, <2>2, LenProperties
  <2> QED BY <2>1, <2>2, <2>3
<1> HIDE DEF qs
<1>4. Messages(qs) \in Seq(Seq(Ids)) /\ Len(Messages(qs)) = n + 1 /\ \A i \in 1..(n + 1) : Messages(qs)[i] = qs[i].messages
  <2>1. \A i \in 1..(n + 1) : Messages(qs)[i] = qs[i].messages
    BY <1>1 DEF Messages
  <2>2. Messages(qs) \in Seq(Seq(Ids)) /\ DOMAIN Messages(qs) = 1..(n + 1)
    BY <1>1, RowsType DEF Messages
  <2>3. Len(Messages(qs)) = n + 1
    BY <1>1, <2>2, LenProperties
  <2> QED BY <2>1, <2>2, <2>3
<1> DEFINE ms == Messages(ps)
           app == Append(ms, p.messages)
<1>5. /\ app \in Seq(Seq(Ids)) /\ Len(app) = n + 1 /\ app[n + 1] = p.messages
      /\ \A i \in 1..n : app[i] = Messages(ps)[i]
  <2>1. ms \in Seq(Seq(Ids)) /\ Len(ms) = n
    BY <1>3
  <2> HIDE DEF ms
  <2>2. /\ app \in Seq(Seq(Ids)) /\ Len(app) = Len(ms) + 1 /\ app[Len(ms) + 1] = p.messages
        /\ \A i \in 1..Len(ms) : app[i] = ms[i]
    BY <1>2, <2>1, AppendProperties
  <2> QED BY <2>1, <2>2 DEF ms
<1> HIDE DEF app
<1>6. ASSUME NEW i \in 1..(n + 1) PROVE Messages(qs)[i] = app[i]
  <2>1. CASE i = n + 1
    BY <1>1, <1>4, <1>5, <2>1
  <2>2. CASE i # n + 1
    <3>1. i \in 1..n
      BY <1>1, <2>2
    <3> QED BY <1>1, <1>3, <1>4, <1>5, <3>1
  <2> QED BY <2>1, <2>2
<1>7. Messages(qs) = app
  BY <1>4, <1>5, <1>6, SeqEqual
<1>8. FlattenSeq(app) = FlattenSeq(Messages(ps)) \o p.messages
  BY <1>2, <1>3, FlattenAppend DEF app
<1> QED BY <1>1, <1>7, <1>8, RowsType DEF qs

LEMMA ListEmpty ==
  ASSUME NEW sn \in SUBSET rows
  PROVE  ListOK(<<>>, sn) /\ Cursor(<<>>) = NoRow
<1>1. InOrder(<<>>)
  BY DEF InOrder
<1>2. <<>> \in Seq(Page) /\ Len(<<>>) = 0
  OBVIOUS
<1>3. Cursor(<<>>) = NoRow
  BY DEF Cursor
<1> QED BY <1>1, <1>2, <1>3, RowsEmpty DEF ListOK

\* A page read from the cursor of a list carries it on.
LEMMA ListGrows ==
  ASSUME rows \subseteq Ids, NEW ps, NEW sn, ListOK(ps, sn), NEW p, PageExact(p, Cursor(ps)),
         NEW first \in SUBSET rows,
         ps # <<>> => Cursor(ps) # NoRow /\ first = sn
  PROVE  /\ ListOK(Append(ps, p), first) /\ Append(ps, p) \in Seq(Page)
         /\ Append(ps, p) # <<>> /\ Cursor(Append(ps, p)) = p.next
<1> DEFINE qs == Append(ps, p)
           n == Len(ps)
           shown == Rows(ps)
           ms == p.messages
           all == Rows(qs)
           cursor == Cursor(ps)
<1>1. ps \in Seq(Page) /\ p \in Page /\ ms \in Seq(Ids)
  BY DEF ListOK, PageExact, Page
<1>2. /\ qs \in Seq(Page) /\ Len(qs) = n + 1 /\ qs[n + 1] = p /\ n \in Nat
      /\ \A i \in 1..n : qs[i] = ps[i]
  BY <1>1, AppendProperties, LenProperties
<1>3. qs # <<>> /\ Last(qs) = p
  BY <1>2 DEF Last
<1>4. Cursor(qs) = p.next
  BY <1>3 DEF Cursor
<1>5. all = shown \o ms /\ shown \in Seq(Ids)
  BY <1>1, RowsAppend, RowsType
<1> HIDE DEF shown, all, ms, qs
<1>6. /\ all \in Seq(Ids) /\ Len(all) = Len(shown) + Len(ms) /\ Len(shown) \in Nat /\ Len(ms) \in Nat
      /\ \A i \in 1..Len(shown) : all[i] = shown[i]
      /\ \A i \in 1..Len(ms) : all[Len(shown) + i] = ms[i]
  <2>1. ms \in Seq(Ids) /\ shown \in Seq(Ids)
    BY <1>1, <1>5
  <2>2. /\ shown \o ms \in Seq(Ids) /\ Len(shown \o ms) = Len(shown) + Len(ms) /\ Len(shown) \in Nat /\ Len(ms) \in Nat
        /\ \A i \in 1..Len(shown) : (shown \o ms)[i] = shown[i]
        /\ \A i \in 1..Len(ms) : (shown \o ms)[Len(shown) + i] = ms[i]
    BY ONLY <2>1
  <2> QED BY <1>5, <2>2
<1>7. InOrder(shown) /\ InOrder(ms)
  BY DEF ListOK, PageExact, shown, ms
<1>8. ASSUME Len(shown) # 0
      PROVE  cursor \in Ids /\ shown[Len(shown)] = cursor /\ ps # <<>> /\ cursor # NoRow
  <2>1. ps # <<>>
    <3>1. SUFFICES ASSUME ps = <<>> PROVE FALSE
      OBVIOUS
    <3>2. shown = <<>>
      BY <3>1, RowsEmpty DEF shown
    <3> QED BY <1>8, <3>2
  <2>2. cursor # NoRow /\ Last(shown) = cursor
    BY <2>1 DEF ListOK, shown
  <2>3. shown[Len(shown)] = cursor
    BY <2>2 DEF Last
  <2>4. Len(shown) \in 1..Len(shown)
    BY <1>6, <1>8
  <2> QED BY <1>5, <2>1, <2>2, <2>3, <2>4
<1>9. \A i \in 1..Len(ms) : ms[i] \in Ids /\ (cursor # NoRow => Before(cursor, ms[i]))
  BY <1>1 DEF PageExact, ms, After
<1>10. InOrder(all)
  <2> SUFFICES ASSUME NEW i \in 1..Len(all), NEW j \in 1..Len(all), i < j PROVE Before(all[i], all[j])
    BY DEF InOrder
  <2>1. CASE j <= Len(shown)
    <3>1. i \in 1..Len(shown) /\ j \in 1..Len(shown)
      BY <1>6, <2>1
    <3> QED BY <1>6, <1>7, <3>1 DEF InOrder
  <2>2. CASE i > Len(shown)
    <3> DEFINE a == i - Len(shown)
               b == j - Len(shown)
    <3>1. a \in 1..Len(ms) /\ b \in 1..Len(ms) /\ a < b /\ i = Len(shown) + a /\ j = Len(shown) + b
      BY <1>6, <2>2
    <3> HIDE DEF a, b
    <3> QED BY <1>6, <1>7, <3>1 DEF InOrder
  <2>3. CASE i <= Len(shown) /\ j > Len(shown)
    <3> DEFINE b == j - Len(shown)
    <3>1. i \in 1..Len(shown) /\ b \in 1..Len(ms) /\ j = Len(shown) + b /\ Len(shown) # 0
      BY <1>6, <2>3
    <3> HIDE DEF b
    <3>2. Before(cursor, ms[b]) /\ cursor \in Ids /\ ms[b] \in Ids
      BY <1>8, <1>9, <3>1
    <3>3. shown[i] = cursor \/ Before(shown[i], cursor)
      <4>1. CASE i = Len(shown)
        BY <1>8, <3>1, <4>1
      <4>2. CASE i # Len(shown)
        <5>1. i < Len(shown) /\ Len(shown) \in 1..Len(shown)
          BY <1>6, <3>1, <4>2
        <5> QED BY <1>7, <1>8, <3>1, <5>1 DEF InOrder
      <4> QED BY <4>1, <4>2
    <3>4. shown[i] \in Ids
      BY <1>5, <3>1
    <3>5. Before(shown[i], ms[b])
      BY <3>2, <3>3, <3>4, BeforeOrders
    <3> QED BY <1>6, <3>1, <3>5
  <2> QED BY <1>6, <2>1, <2>2, <2>3
<1>11. ToSet(shown) \subseteq ToSet(all) /\ ToSet(ms) \subseteq ToSet(all)
  <2>1. 1..Len(shown) \subseteq 1..Len(all) /\ \A i \in 1..Len(ms) : Len(shown) + i \in 1..Len(all)
    BY <1>6
  <2>2. \A i \in 1..Len(shown) : shown[i] = all[i] /\ i \in 1..Len(all)
    BY <1>6, <2>1
  <2>3. \A i \in 1..Len(ms) : ms[i] = all[Len(shown) + i]
    BY <1>6
  <2>4. ToSet(shown) \subseteq ToSet(all)
    BY <2>2 DEF ToSet
  <2>5. ToSet(ms) \subseteq ToSet(all)
    <3> SUFFICES ASSUME NEW x \in ToSet(ms) PROVE x \in ToSet(all)
      OBVIOUS
    <3>1. ms \in Seq(Ids) /\ DOMAIN all = 1..Len(all)
      BY <1>1, <1>6
    <3>2. PICK i \in 1..Len(ms) : ms[i] = x
      BY <3>1 DEF ToSet
    <3>3. Len(shown) + i \in DOMAIN all /\ all[Len(shown) + i] = x
      BY <2>1, <2>3, <3>1, <3>2
    <3> QED BY <3>3 DEF ToSet
  <2> QED BY <2>4, <2>5
<1>12. ASSUME NEW r \in first PROVE r \in ToSet(all) \/ (p.next # NoRow /\ Before(p.next, r))
  <2>1. r \in ToSet(shown) \/ r \in After(cursor)
    <3>1. CASE ps = <<>>
      BY <3>1 DEF Cursor, After
    <3>2. CASE ps # <<>>
      BY <3>2 DEF ListOK, After, shown
    <3> QED BY <3>1, <3>2
  <2>2. r \in After(cursor) => r \in ToSet(ms) \/ (p.next # NoRow /\ Before(p.next, r))
    BY DEF PageExact, ms
  <2> QED BY <1>11, <2>1, <2>2
<1>13. ASSUME p.next # NoRow PROVE all # <<>> /\ Last(all) = p.next
  <2>1. ms # <<>> /\ Last(ms) = p.next
    BY <1>13 DEF PageExact, ms
  <2>2. Len(ms) \in 1..Len(ms) /\ ms[Len(ms)] = p.next
    BY <1>1, <2>1 DEF Last
  <2>3. all[Len(all)] = p.next /\ Len(all) # 0
    BY <1>6, <2>2
  <2> QED BY <2>3 DEF Last
<1>14. ASSUME NEW i \in 1..Len(qs) PROVE qs[i].next # NoRow => qs[i].next \in rows /\ qs[i].messages # <<>>
  <2>1. CASE i = n + 1
    BY <1>2, <2>1 DEF PageExact
  <2>2. CASE i # n + 1
    <3>1. i \in 1..n
      BY <1>2, <2>2
    <3> QED BY <1>2, <3>1 DEF ListOK
  <2> QED BY <2>1, <2>2
<1>15. ListOK(qs, first)
  BY <1>2, <1>3, <1>4, <1>10, <1>12, <1>13, <1>14 DEF ListOK, all
<1> QED BY <1>2, <1>3, <1>4, <1>15 DEF qs

-----------------------------------------------------------------------------
(* The steps of the list *)

LEMMA InitList ==
  ASSUME ReadInit
  PROVE  ListInv
<1>1. ListOK(<<>>, {}) /\ Cursor(<<>>) = NoRow
  BY ListEmpty
<1>2. /\ fetch = [mode |-> "refetch", want |-> 1, got |-> <<>>, seen |-> {}]
      /\ pages = <<>> /\ seen = {} /\ syncs = 0 /\ rows \in SUBSET Ids
  BY DEF ReadInit, NoFetch
<1>3. fetch \in Fetches /\ fetch.got = <<>> /\ fetch.seen = {} /\ fetch.mode # "next"
  <2>1. <<>> \in Seq(Page)
    OBVIOUS
  <2> QED BY <1>2, <2>1 DEF Fetches
<1> QED BY <1>1, <1>2, <1>3, ReadingAssumption DEF ListInv, FetchOK

\* A fetch that begins, or begins again, holds no page yet.
LEMMA FetchBegins ==
  ASSUME ListInv, UNCHANGED <<rows, syncs, pages, seen>>,
         fetch' \in Fetches, fetch'.got = <<>>, fetch'.seen = {},
         fetch'.mode = "next" => pages # <<>> /\ Cursor(pages) # NoRow
  PROVE  ListInv'
<1>1. ListOK(<<>>, {})
  BY ListEmpty
<1>2. /\ ListOK(<<>>, {})' /\ ListOK(pages, seen)'
  BY <1>1 DEF ListInv, ListOK, InOrder, Cursor
<1>3. Fetches' = Fetches
  BY DEF Fetches
<1> QED BY <1>2 DEF ListInv, FetchOK, Cursor

\* Rows are added to the table.
LEMMA IngestList ==
  ASSUME ListInv, NEW r \in Ids, Ingest(r)
  PROVE  ListInv'
<1>1. /\ rows' = rows \cup {r} /\ UNCHANGED <<pages, seen, fetch>> /\ syncs' \in 0..MaxSyncs
  BY ReadingAssumption DEF Ingest, list, ListInv
<1>2. ASSUME NEW ps, NEW sn, ListOK(ps, sn)
      PROVE  /\ ps \in Seq(Page) /\ sn \subseteq rows'
             /\ \A i \in 1..Len(ps) : ps[i].next # NoRow => ps[i].next \in rows' /\ ps[i].messages # <<>>
             /\ InOrder(Rows(ps))
             /\ ps # <<>> => \A q \in sn : q \in ToSet(Rows(ps)) \/ (Cursor(ps) # NoRow /\ Before(Cursor(ps), q))
             /\ Cursor(ps) # NoRow => Rows(ps) # <<>> /\ Last(Rows(ps)) = Cursor(ps)
  BY <1>1, <1>2 DEF ListOK
<1>3. ListOK(pages, seen) /\ ListOK(fetch.got, fetch.seen)
  BY DEF ListInv, FetchOK
<1>4. ListOK(pages, seen)'
  BY <1>1, <1>2, <1>3 DEF ListOK, InOrder, Cursor
<1>5. ListOK(fetch.got, fetch.seen)'
  BY <1>1, <1>2, <1>3 DEF ListOK, InOrder, Cursor
<1> QED BY <1>1, <1>4, <1>5 DEF ListInv, FetchOK, Cursor

\* A fetch is begun, cancelled or fails.
LEMMA FetchList ==
  ASSUME ListInv, invalidate \/ fetchNextPage \/ PageFails
  PROVE  ListInv'
<1>0. UNCHANGED <<rows, syncs, pages, seen>> /\ fetch \in Fetches /\ pages \in Seq(Page)
  BY DEF invalidate, fetchNextPage, PageFails, table, ListInv, FetchOK, ListOK
<1>1. <<>> \in Seq(Page)
  OBVIOUS
<1>2. CASE invalidate
  <2> DEFINE want == IF pages = <<>> THEN 1 ELSE Len(pages)
  <2>0. fetch' = [NoFetch EXCEPT !.mode = "refetch", !.want = want]
    BY <1>2 DEF invalidate
  <2>1. want \in Nat
    BY <1>0
  <2> HIDE DEF want
  <2>2. fetch' \in Fetches /\ fetch'.got = <<>> /\ fetch'.seen = {} /\ fetch'.mode # "next"
    BY <1>1, <2>0, <2>1 DEF Fetches, NoFetch
  <2> QED BY <1>0, <2>2, FetchBegins
<1>3. CASE fetchNextPage
  <2>1. fetch' = [mode |-> "next", want |-> 0, got |-> <<>>, seen |-> {}]
    BY <1>3 DEF fetchNextPage, NoFetch
  <2>2. fetch' \in Fetches /\ fetch'.got = <<>> /\ fetch'.seen = {}
    BY <1>1, <2>1 DEF Fetches
  <2>3. pages # <<>> /\ Cursor(pages) # NoRow
    BY <1>3 DEF fetchNextPage, Cursor
  <2> QED BY <1>0, <2>2, <2>3, FetchBegins
<1>4. CASE PageFails
  <2>1. fetch' \in Fetches /\ fetch'.got = <<>> /\ fetch'.seen = {} /\ (fetch'.mode = fetch.mode \/ fetch'.mode = "none")
    <3>1. CASE fetch' = NoFetch
      BY <1>1, <3>1 DEF Fetches, NoFetch
    <3>2. CASE fetch' = [fetch EXCEPT !.got = <<>>, !.seen = {}]
      BY <1>0, <1>1, <3>2 DEF Fetches
    <3> QED BY <1>4, <3>1, <3>2 DEF PageFails
  <2>2. fetch'.mode = "next" => pages # <<>> /\ Cursor(pages) # NoRow
    BY <2>1 DEF ListInv, FetchOK
  <2> QED BY <1>0, <2>1, <2>2, FetchBegins
<1> QED BY <1>2, <1>3, <1>4

\* A page arrives: it carries on the list on screen or the one being read.
LEMMA PageList ==
  ASSUME ListInv, NEW asked \in Asked, PageArrives(asked)
  PROVE  ListInv'
<1> DEFINE before == IF fetch.mode = "next" THEN pages ELSE fetch.got
           cursor == IF before = <<>> THEN NoRow ELSE Last(before).next
           page == listForAccount(cursor, take(asked))
           got == Append(before, page)
           sn == IF fetch.mode = "next" THEN seen ELSE fetch.seen
           first == IF before = <<>> THEN rows ELSE sn
<1>0. /\ UNCHANGED <<rows, syncs>> /\ rows \subseteq Ids /\ syncs \in 0..MaxSyncs
      /\ fetch \in Fetches /\ ListOK(pages, seen) /\ ListOK(fetch.got, fetch.seen)
  BY DEF PageArrives, table, ListInv, FetchOK
<1>1. /\ IF fetch.mode = "next" \/ Len(got) = fetch.want \/ page.next = NoRow
           THEN pages' = got /\ seen' = first /\ fetch' = NoFetch
           ELSE /\ fetch' = [fetch EXCEPT !.got = got, !.seen = first]
                /\ UNCHANGED <<pages, seen>>
      /\ fetch.mode # "none"
  BY DEF PageArrives
<1>2. ListOK(before, sn) /\ (before # <<>> => Cursor(before) # NoRow)
  BY <1>0 DEF ListInv, FetchOK
<1>3. first \in SUBSET rows /\ (before # <<>> => first = sn)
  BY <1>2 DEF ListOK
<1>4. cursor = Cursor(before)
  BY DEF Cursor
<1>5. PageExact(page, cursor)
  <2> HIDE DEF cursor
  <2> QED BY <1>0, TakeIs, PageIsExact
<1> HIDE DEF before, cursor, page, sn, first
<1>6. ListOK(got, first) /\ got \in Seq(Page) /\ got # <<>> /\ Cursor(got) = page.next
  BY <1>0, <1>2, <1>3, <1>4, <1>5, ListGrows
<1> HIDE DEF got
<1>7. ListOK(<<>>, {})
  BY ListEmpty
<1>8. ASSUME NEW ps, NEW s, ListOK(ps, s)
      PROVE  /\ ps \in Seq(Page) /\ s \subseteq rows'
             /\ \A i \in 1..Len(ps) : ps[i].next # NoRow => ps[i].next \in rows' /\ ps[i].messages # <<>>
             /\ InOrder(Rows(ps))
             /\ ps # <<>> => \A q \in s : q \in ToSet(Rows(ps)) \/ (Cursor(ps) # NoRow /\ Before(Cursor(ps), q))
             /\ Cursor(ps) # NoRow => Rows(ps) # <<>> /\ Last(Rows(ps)) = Cursor(ps)
  BY <1>0, <1>8 DEF ListOK
<1>9. CASE pages' = got /\ seen' = first /\ fetch' = NoFetch
  <2>1. fetch' \in Fetches /\ fetch'.got = <<>> /\ fetch'.seen = {} /\ fetch'.mode = "none"
    <3>1. <<>> \in Seq(Page)
      OBVIOUS
    <3> QED BY <1>9, <3>1 DEF Fetches, NoFetch
  <2>2. ListOK(pages, seen)'
    BY <1>6, <1>8, <1>9 DEF ListOK, InOrder, Cursor
  <2>3. ListOK(fetch.got, fetch.seen)'
    BY <1>7, <1>8, <2>1 DEF ListOK, InOrder, Cursor
  <2> QED BY <1>0, <2>1, <2>2, <2>3 DEF ListInv, FetchOK, Cursor
<1>10. CASE /\ fetch.mode # "next" /\ page.next # NoRow
            /\ fetch' = [fetch EXCEPT !.got = got, !.seen = first] /\ UNCHANGED <<pages, seen>>
  <2>1. fetch' \in Fetches /\ fetch'.got = got /\ fetch'.seen = first /\ fetch'.mode = fetch.mode
    BY <1>0, <1>3, <1>6, <1>10 DEF Fetches
  <2>2. ListOK(pages, seen)'
    BY <1>0, <1>8, <1>10 DEF ListOK, InOrder, Cursor
  <2>3. ListOK(fetch.got, fetch.seen)'
    BY <1>6, <1>8, <2>1, SMTT(30) DEF ListOK, InOrder, Cursor
  <2>4. Cursor(fetch'.got) # NoRow
    BY <1>6, <1>10, <2>1
  <2> QED BY <1>0, <1>10, <2>1, <2>2, <2>3, <2>4 DEF ListInv, FetchOK, Cursor
<1> QED BY <1>1, <1>9, <1>10

LEMMA NextList ==
  ASSUME ListInv, [ReadNext]_readVars
  PROVE  ListInv'
<1>1. ASSUME UNCHANGED <<rows, syncs, pages, seen, fetch>> PROVE ListInv'
  BY <1>1 DEF ListInv, ListOK, FetchOK, InOrder, Cursor
<1>2. CASE UNCHANGED readVars
  BY <1>1, <1>2 DEF readVars, table, list
<1>3. CASE StorageFlips
  BY <1>1, <1>3 DEF StorageFlips, table, list
<1>4. ASSUME NEW m \in Opened, ObjectLost(m) \/ getForAccount(m) \/ cacheCollected(m)
      PROVE  ListInv'
  BY <1>1, <1>4 DEF ObjectLost, getForAccount, cacheCollected, table, list
<1>5. ASSUME NEW m \in Opened, \/ downloadMessage(m) \/ raw(m) \/ StreamEnds(m) \/ StreamBreaks(m)
                               \/ DownloadRefused(m) \/ DownloadSettles(m)
      PROVE  ListInv'
  BY <1>1, <1>5 DEF downloadMessage, raw, StreamEnds, StreamBreaks, DownloadRefused, DownloadSettles, table, list
<1> QED BY <1>2, <1>3, <1>4, <1>5, IngestList, FetchList, PageList DEF ReadNext

LEMMA ListInvariant == ReadSpec => []ListInv
<1>1. ReadInit => ListInv
  BY InitList
<1>2. ListInv /\ [ReadNext]_readVars => ListInv'
  BY NextList
<1> QED BY <1>1, <1>2, PTL DEF ReadSpec

\* Between two pages rows come in, fetches are cancelled and repeated: the list
\* on screen repeats no row and leaves none out.
THEOREM ListsAreExact == ReadSpec => []PagesAreExact
<1>1. ListInv => PagesAreExact
  <2> SUFFICES ASSUME ListInv PROVE PagesAreExact
    OBVIOUS
  <2>1. ListOK(pages, seen)
    BY DEF ListInv
  <2>2. InOrder(Rows(pages))
    BY <2>1 DEF ListOK
  <2>3. ASSUME pages # <<>>, NEW r \in seen
        PROVE  \/ r \in ToSet(Rows(pages))
               \/ Last(pages).next # NoRow /\ Before(Last(Rows(pages)), r)
    <3>1. Cursor(pages) = Last(pages).next
      BY <2>3 DEF Cursor
    <3> QED BY <2>1, <2>3, <3>1 DEF ListOK
  <2> QED BY <2>2, <2>3 DEF PagesAreExact, InOrder
<1> QED BY <1>1, ListInvariant, PTL

-----------------------------------------------------------------------------
(* Downloads *)

\* A response that was ended has sent its whole body.
EndedIsWhole == \A m \in Opened : dl[m].st = "ended" => dl[m].whole

DownloadInv ==
  /\ dl \in [Opened -> Download]
  /\ saved \in [Opened -> {"nothing", "message"}]
  /\ EndedIsWhole

LEMMA InitDownload ==
  ASSUME ReadInit
  PROVE  DownloadInv
BY DEF ReadInit, DownloadInv, EndedIsWhole, Download, NoDownload

\* The steps that ask for, refuse and send the message.
LEMMA ServeStep ==
  ASSUME DownloadInv, NEW m \in Opened,
         downloadMessage(m) \/ raw(m) \/ StreamEnds(m) \/ StreamBreaks(m) \/ DownloadRefused(m)
  PROVE  DownloadInv'
<1>0. dl[m] \in Download /\ dl \in [Opened -> Download]
  BY DEF DownloadInv
<1>1. saved' = saved
  BY DEF downloadMessage, raw, StreamEnds, StreamBreaks, DownloadRefused
<1>2. \E d \in Download : dl' = [dl EXCEPT ![m] = d] /\ (d.st = "ended" => d.whole)
  <2>1. CASE downloadMessage(m)
    <3> DEFINE d == [dl[m] EXCEPT !.st = "asked"]
    <3>1. d \in Download /\ d.st = "asked" /\ dl' = [dl EXCEPT ![m] = d]
      BY <1>0, <2>1 DEF downloadMessage, Download
    <3> QED
      BY <3>1
  <2>2. CASE raw(m) /\ Readable(m)
    <3>1. PICK sized \in BOOLEAN :
            dl' = [dl EXCEPT ![m] = [st |-> "streaming", whole |-> FALSE, sized |-> sized]]
      BY <2>2 DEF raw
    <3> DEFINE d == [st |-> "streaming", whole |-> FALSE, sized |-> sized]
    <3>2. d \in Download /\ d.st = "streaming"
      BY DEF Download
    <3> QED
      BY <3>1, <3>2
  <2>3. CASE (raw(m) /\ ~Readable(m)) \/ DownloadRefused(m)
    <3> DEFINE d == [dl[m] EXCEPT !.st = "error"]
    <3>1. d \in Download /\ d.st = "error" /\ dl' = [dl EXCEPT ![m] = d]
      BY <1>0, <2>3 DEF raw, DownloadRefused, Download
    <3> QED
      BY <3>1
  <2>4. CASE StreamEnds(m)
    <3> DEFINE d == [dl[m] EXCEPT !.st = "ended", !.whole = TRUE]
    <3>1. d \in Download /\ d.whole = TRUE /\ dl' = [dl EXCEPT ![m] = d]
      BY <1>0, <2>4 DEF StreamEnds, Download
    <3> QED
      BY <3>1
  <2>5. CASE StreamBreaks(m)
    <3> DEFINE d == [dl[m] EXCEPT !.st = "destroyed"]
    <3>1. d \in Download /\ d.st = "destroyed" /\ dl' = [dl EXCEPT ![m] = d]
      BY <1>0, <2>5 DEF StreamBreaks, Download
    <3> QED
      BY <3>1
  <2> QED
    BY <2>1, <2>2, <2>3, <2>4, <2>5
<1> QED
  BY <1>0, <1>1, <1>2 DEF DownloadInv, EndedIsWhole

\* The browser saves what it was sent, or throws.
LEMMA SettleStep ==
  ASSUME DownloadInv, NEW m \in Opened, DownloadSettles(m)
  PROVE  DownloadInv'
<1>1. dl' = [dl EXCEPT ![m] = NoDownload] /\ NoDownload \in Download /\ NoDownload.st = "none"
  BY DEF DownloadSettles, NoDownload, Download
<1>2. saved' \in [Opened -> {"nothing", "message"}]
  <2>1. CASE dl[m].st = "ended"
    <3>1. dl[m].whole
      BY <2>1 DEF DownloadInv, EndedIsWhole
    <3> QED
      BY <2>1, <3>1 DEF DownloadSettles, DownloadInv
  <2>2. CASE dl[m].st # "ended"
    BY <2>2 DEF DownloadSettles, DownloadInv
  <2> QED
    BY <2>1, <2>2
<1> QED
  BY <1>1, <1>2 DEF DownloadInv, EndedIsWhole

LEMMA NextDownload ==
  ASSUME DownloadInv, [ReadNext]_readVars
  PROVE  DownloadInv'
<1>1. ASSUME UNCHANGED <<dl, saved>> PROVE DownloadInv'
  BY <1>1 DEF DownloadInv, EndedIsWhole
<1>2. CASE UNCHANGED readVars
  BY <1>1, <1>2 DEF readVars, reading
<1>3. ASSUME NEW r \in Ids, Ingest(r) PROVE DownloadInv'
  BY <1>1, <1>3 DEF Ingest, reading
<1>4. CASE invalidate \/ fetchNextPage \/ PageFails \/ StorageFlips
  BY <1>1, <1>4 DEF invalidate, fetchNextPage, PageFails, StorageFlips, reading
<1>5. ASSUME NEW asked \in Asked, PageArrives(asked) PROVE DownloadInv'
  BY <1>1, <1>5 DEF PageArrives, reading
<1>6. ASSUME NEW m \in Opened, ObjectLost(m) \/ getForAccount(m) \/ cacheCollected(m)
      PROVE  DownloadInv'
  BY <1>1, <1>6 DEF ObjectLost, getForAccount, cacheCollected, reading
<1> QED
  BY <1>2, <1>3, <1>4, <1>5, <1>6, ServeStep, SettleStep DEF ReadNext

\* A file that downloadMessage saved is the whole message, however often the
\* store, the stream or the gateway fails and the download is repeated.
THEOREM SavedFilesAreComplete == ReadSpec => []SavedFileIsComplete
<1>1. DownloadInv => SavedFileIsComplete
  BY DEF DownloadInv, SavedFileIsComplete
<1>2. ReadInit => DownloadInv
  BY InitDownload
<1>3. DownloadInv /\ [ReadNext]_readVars => DownloadInv'
  BY NextDownload
<1> QED
  BY <1>1, <1>2, <1>3, PTL DEF ReadSpec

\* What the messages and the store can be.
ObjectsOK ==
  /\ storageUp \in BOOLEAN
  /\ objects \subseteq Opened
  /\ body \in [Opened -> {"unread", "text", "none"}]

LEMMA ObjectsInvariant == ReadSpec => []ObjectsOK
<1>1. ReadInit => ObjectsOK
  BY DEF ReadInit, ObjectsOK
<1>2. ObjectsOK /\ [ReadNext]_readVars => ObjectsOK'
  <2> SUFFICES ASSUME ObjectsOK, [ReadNext]_readVars PROVE ObjectsOK'
    OBVIOUS
  <2>1. ASSUME UNCHANGED <<storageUp, objects, body>> PROVE ObjectsOK'
    BY <2>1 DEF ObjectsOK
  <2>2. CASE UNCHANGED readVars
    BY <2>1, <2>2 DEF readVars, reading
  <2>3. ASSUME NEW r \in Ids, Ingest(r) PROVE ObjectsOK'
    BY <2>1, <2>3 DEF Ingest, reading
  <2>4. CASE invalidate \/ fetchNextPage \/ PageFails
    BY <2>1, <2>4 DEF invalidate, fetchNextPage, PageFails, reading
  <2>5. ASSUME NEW asked \in Asked, PageArrives(asked) PROVE ObjectsOK'
    BY <2>1, <2>5 DEF PageArrives, reading
  <2>6. CASE StorageFlips
    BY <2>6 DEF StorageFlips, reading, ObjectsOK
  <2>7. ASSUME NEW m \in Opened, ObjectLost(m) PROVE ObjectsOK'
    BY <2>7 DEF ObjectLost, reading, ObjectsOK
  <2>8. ASSUME NEW m \in Opened, getForAccount(m) \/ cacheCollected(m) PROVE ObjectsOK'
    BY <2>8 DEF getForAccount, cacheCollected, ObjectsOK
  <2>9. ASSUME NEW m \in Opened, \/ downloadMessage(m) \/ raw(m) \/ StreamEnds(m) \/ StreamBreaks(m)
                                 \/ DownloadRefused(m) \/ DownloadSettles(m)
        PROVE  ObjectsOK'
    BY <2>1, <2>9 DEF downloadMessage, raw, StreamEnds, StreamBreaks, DownloadRefused, DownloadSettles
  <2> QED BY <2>2, <2>3, <2>4, <2>5, <2>6, <2>7, <2>8, <2>9 DEF ReadNext
<1> QED BY <1>1, <1>2, PTL DEF ReadSpec

\* Every cursor that was handed out names a row that is there to continue from,
\* on a page that shows it.
THEOREM ReadTypeCorrect == ReadSpec => []ReadTypeOK
<1>1. ListInv /\ DownloadInv /\ ObjectsOK => ReadTypeOK
  <2> SUFFICES ASSUME ListInv, DownloadInv, ObjectsOK PROVE ReadTypeOK
    OBVIOUS
  <2>1. ListOK(pages, seen) /\ ListOK(fetch.got, fetch.seen)
    BY DEF ListInv, FetchOK
  <2> DEFINE both == pages \o fetch.got
             got == fetch.got
  <2>2. pages \in Seq(Page) /\ got \in Seq(Page) /\ both = pages \o got
    BY <2>1 DEF ListOK
  <2>3. /\ fetch.mode \in {"none", "next", "refetch"} /\ fetch.want \in Nat
        /\ seen \subseteq rows /\ fetch.seen \subseteq rows
    BY <2>1 DEF ListOK, ListInv, FetchOK, Fetches
  <2>4. ASSUME NEW p \in ToSet(both), p.next # NoRow PROVE p.next \in rows /\ p.messages # <<>>
    <3>1. /\ \A i \in 1..Len(pages) : pages[i].next # NoRow => pages[i].next \in rows /\ pages[i].messages # <<>>
          /\ \A i \in 1..Len(got) : got[i].next # NoRow => got[i].next \in rows /\ got[i].messages # <<>>
      BY <2>1 DEF ListOK
    <3> HIDE DEF got, both
    <3>2. /\ DOMAIN both = 1..(Len(pages) + Len(got)) /\ Len(pages) \in Nat /\ Len(got) \in Nat
          /\ \A i \in 1..Len(pages) : both[i] = pages[i]
          /\ \A i \in 1..Len(got) : both[Len(pages) + i] = got[i]
      BY <2>2
    <3>3. PICK i \in DOMAIN both : both[i] = p
      BY <2>4 DEF ToSet
    <3>4. CASE i <= Len(pages)
      <4>1. i \in 1..Len(pages)
        BY <3>2, <3>4
      <4> QED BY <2>4, <3>1, <3>2, <3>3, <4>1
    <3>5. CASE ~(i <= Len(pages))
      <4>1. i - Len(pages) \in 1..Len(got) /\ i = Len(pages) + (i - Len(pages))
        BY <3>2, <3>5
      <4> QED BY <2>4, <3>1, <3>2, <3>3, <4>1
    <3> QED BY <3>4, <3>5
  <2>5. rows \subseteq Ids /\ syncs \in 0..MaxSyncs
    BY DEF ListInv
  <2>6. /\ dl \in [Opened -> Download]
        /\ saved \in [Opened -> {"nothing", "message", "part", "error"}]
    BY DEF DownloadInv
  <2> QED BY <2>2, <2>3, <2>4, <2>5, <2>6 DEF ReadTypeOK, ObjectsOK
<1>2. ReadSpec => []DownloadInv
  <2>1. ReadInit => DownloadInv
    BY InitDownload
  <2>2. DownloadInv /\ [ReadNext]_readVars => DownloadInv'
    BY NextDownload
  <2> QED BY <2>1, <2>2, PTL DEF ReadSpec
<1> QED BY <1>1, <1>2, ListInvariant, ObjectsInvariant, PTL
=============================================================================
