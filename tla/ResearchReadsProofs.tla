------------------------ MODULE ResearchReadsProofs ------------------------
(***************************************************************************)
(* What the readers of the research boundary may rely on, however their    *)
(* statements interleave with the queue's and the replica's: the receipt   *)
(* cursor, the job context, the document served, the current accumulator.  *)
(***************************************************************************)
EXTENDS ResearchReads, SequenceTheorems, WellFoundedInduction, TLAPS

-----------------------------------------------------------------------------
(* Which step changes what.                                                *)

LEMMA FeedSteps ==
  ASSUME [Next]_vars
  PROVE  \/ UNCHANGED <<feed, consumer>>
         \/ UNCHANGED consumer /\ \E terminal \in BOOLEAN : Log(terminal)
         \/ UNCHANGED feed /\ (ConsumerStep \/ Interrupted)
<1>1. CASE Operate
  BY <1>1 DEF Operate
<1>2. CASE Tick \/ Deliver
  BY <1>2 DEF Tick, Deliver, Arrive, asking
<1>3. CASE ConsumerStep \/ Interrupted
  BY <1>3 DEF ConsumerStep, Interrupted, Poll, CheckMapping, ReadPage, StoreReceipts, StoreCursor, Consume
<1>4. CASE ContextStep
  BY <1>4 DEF ContextStep, AskContext, ReadTerminal, ReadLease, DeriveState, ReadProposals, FailContext, Read
<1>5. CASE DocumentStep \/ FailDocument
  BY <1>5 DEF DocumentStep, Search, ReadVersions, ReadObject, SearchAgain, FailDocument, Look
<1>6. CASE EvidenceStep \/ FailEvidence
  BY <1>6 DEF EvidenceStep, AskEvidence, ReadEvidence, ReadVersion, ReadBytes, FailEvidence, Prove
<1>7. CASE UNCHANGED vars
  BY <1>7 DEF vars, asking
<1> QED
  BY <1>1, <1>2, <1>3, <1>4, <1>5, <1>6, <1>7 DEF Next

LEMMA ReplicaSteps ==
  ASSUME [Next]_vars
  PROVE  \/ UNCHANGED replica
         \/ Deliver
<1>1. CASE Operate \/ Tick \/ Deliver
  BY <1>1 DEF Operate, Tick
<1>2. CASE ConsumerStep \/ Interrupted
  BY <1>2 DEF ConsumerStep, Interrupted, Poll, CheckMapping, ReadPage, StoreReceipts, StoreCursor, Consume
<1>3. CASE ContextStep
  BY <1>3 DEF ContextStep, AskContext, ReadTerminal, ReadLease, DeriveState, ReadProposals, FailContext, Read
<1>4. CASE DocumentStep \/ FailDocument
  BY <1>4 DEF DocumentStep, Search, ReadVersions, ReadObject, SearchAgain, FailDocument, Look
<1>5. CASE EvidenceStep \/ FailEvidence
  BY <1>5 DEF EvidenceStep, AskEvidence, ReadEvidence, ReadVersion, ReadBytes, FailEvidence, Prove
<1>6. CASE UNCHANGED vars
  BY <1>6 DEF vars
<1> QED
  BY <1>1, <1>2, <1>3, <1>4, <1>5, <1>6 DEF Next

-----------------------------------------------------------------------------
(* The receipt cursor.                                                     *)

\* The first n events of a log are among these.
Through(log, n, held) == n \in 0..Len(log) /\ \A i \in 1..n : log[i] \in held

\* The stored cursor is covered by what is held, and the next one by that and the page.
FeedInv ==
  /\ order \in Seq(Nat)
  /\ consumer \in ConsumerState
  /\ Through(order, Position(consumer.cursor), consumer.held)
  /\ consumer.pc = "answer" =>
       Through(order, Position(consumer.next), consumer.held \cup {consumer.page[i] : i \in DOMAIN consumer.page})
  /\ consumer.pc = "advance" => Through(order, Position(consumer.next), consumer.held)

LEMMA MinOfTwo ==
  ASSUME NEW m \in Nat, NEW n \in Nat
  PROVE  Min({m, n}) \in {m, n} /\ Min({m, n}) <= m /\ Min({m, n}) <= n
<1>1. \E x \in {m, n} : \A y \in {m, n} : x =< y
  OBVIOUS
<1> QED
  BY <1>1 DEF Min

\* A page is the stretch of the log after the cursor.
LEMMA PageIsStretch ==
  ASSUME NEW log \in Seq(Nat), NEW from \in Nat, NEW last \in Nat, from <= last, last <= Len(log)
  PROVE  /\ SubSeq(log, from + 1, last) \in Seq(Nat)
         /\ Len(SubSeq(log, from + 1, last)) = last - from
         /\ \A i \in 1..last - from : SubSeq(log, from + 1, last)[i] = log[from + i]
<1> DEFINE page == SubSeq(log, from + 1, last)
           first == from + 1
<1>1. first \in Int /\ last \in Int /\ \A i \in first..last : log[i] \in Nat
  OBVIOUS
<1>2. page = SubSeq(log, first, last)
  OBVIOUS
<1>3. first = from + 1
  OBVIOUS
<1> HIDE DEF first, page
<1>4. /\ page \in Seq(Nat)
      /\ Len(page) = IF first <= last THEN last - first + 1 ELSE 0
      /\ \A i \in 1..last - first + 1 : page[i] = log[first + i - 1]
  BY <1>1, <1>2, SubSeqProperties
<1>5. Len(page) = last - from
  BY <1>3, <1>4
<1>6. ASSUME NEW i \in 1..last - from PROVE page[i] = log[from + i]
  <2>1. i \in 1..last - first + 1 /\ first + i - 1 = from + i
    BY <1>3
  <2> QED
    BY <1>4, <2>1
<1> QED
  BY <1>4, <1>5, <1>6 DEF page

\* So its last position is covered by the page and what was before.
LEMMA PageCovers ==
  ASSUME NEW log \in Seq(Nat), NEW from \in Nat, NEW last \in Nat, from <= last, last <= Len(log),
         NEW held, Through(log, from, held)
  PROVE  LET page == SubSeq(log, from + 1, last)
         IN Through(log, from + Len(page), held \cup {page[i] : i \in DOMAIN page})
<1> DEFINE page == SubSeq(log, from + 1, last)
<1>1. /\ page \in Seq(Nat) /\ Len(page) = last - from
      /\ \A i \in 1..last - from : page[i] = log[from + i]
  BY PageIsStretch
<1> HIDE DEF page
<1>2. from + Len(page) = last
  BY <1>1
<1>3. ASSUME NEW i \in 1..last PROVE log[i] \in held \cup {page[k] : k \in DOMAIN page}
  <2>1. CASE i <= from
    BY <2>1 DEF Through
  <2>2. CASE i > from
    <3>1. i - from \in 1..last - from /\ from + (i - from) = i
      BY <2>2
    <3>2. i - from \in DOMAIN page
      BY <1>1, <3>1
    <3> QED
      BY <1>1, <3>1, <3>2
  <2> QED
    BY <2>1, <2>2
<1>4. last \in 0..Len(log)
  OBVIOUS
<1>5. Through(log, from + Len(page), held \cup {page[i] : i \in DOMAIN page})
  BY <1>2, <1>3, <1>4 DEF Through
<1> QED
  BY <1>5 DEF page

\* The stored cursor stays covered when events are appended.
LEMMA LogExtends ==
  ASSUME order \in Seq(Nat), NEW terminal, Log(terminal)
  PROVE  order' \in Seq(Nat) /\ \A n, held : Through(order, n, held) => Through(order', n, held)
<1>1. order' = Append(order, Len(order) + 1)
  BY DEF Log
<1>2. order' \in Seq(Nat) /\ Len(order') = Len(order) + 1
  BY <1>1
<1>3. ASSUME NEW i \in 1..Len(order) PROVE order'[i] = order[i]
  BY <1>1
<1>4. ASSUME NEW n, NEW held, Through(order, n, held) PROVE Through(order', n, held)
  <2>1. n \in 0..Len(order) /\ Len(order) \in Nat
    BY <1>4 DEF Through
  <2>2. n \in 0..Len(order')
    BY <1>2, <2>1
  <2>3. ASSUME NEW i \in 1..n PROVE order'[i] \in held
    <3>1. i \in 1..Len(order)
      BY <2>1
    <3> QED
      BY <1>3, <1>4, <3>1 DEF Through
  <2> QED
    BY <2>2, <2>3 DEF Through
<1> QED
  BY <1>2, <1>4

LEMMA FeedInvInit == Init => FeedInv
<1> SUFFICES ASSUME Init PROVE FeedInv
  OBVIOUS
<1>1. PICK s \in Scenarios :
        consumer = [pc |-> "idle", cursor |-> s.cursor, held |-> s.held, limit |-> 0,
                    page |-> <<>>, next |-> NoCursor]
  BY DEF Init
<1>2. order = Snapshot /\ order \in Seq(Nat)
  BY ConstantsAssumption DEF Init
<1>3. consumer \in ConsumerState
  BY <1>1, ConstantsAssumption DEF ConsumerState, Cursor, NoCursor
<1>4. Through(order, Position(consumer.cursor), consumer.held)
  BY <1>1, <1>2, CursorAssumption, ConstantsAssumption DEF Through, Position, Cursor
<1> QED
  BY <1>1, <1>2, <1>3, <1>4 DEF FeedInv
LEMMA FeedInvStep == FeedInv /\ [Next]_vars => FeedInv'
<1> SUFFICES ASSUME FeedInv, [Next]_vars PROVE FeedInv'
  OBVIOUS
<1> DEFINE paged == {consumer.page[i] : i \in DOMAIN consumer.page}
           position == Position(consumer.cursor)
<1>0. /\ order \in Seq(Nat) /\ Len(order) \in Nat /\ consumer \in ConsumerState
      /\ Through(order, position, consumer.held)
      /\ \A c \in Cursor : Position(c) \in Nat
      /\ <<>> \in Seq(Nat) /\ NoCursor \in Cursor
  BY DEF FeedInv, Position, Cursor, NoCursor
<1>1. CASE UNCHANGED <<feed, consumer>>
  BY <1>1 DEF FeedInv, feed
<1>2. CASE UNCHANGED consumer /\ \E terminal \in BOOLEAN : Log(terminal)
  BY <1>2, LogExtends DEF FeedInv
<1>3. CASE UNCHANGED feed /\ (ConsumerStep \/ Interrupted)
  <2>0. order' = order
    BY <1>3 DEF feed
  <2>1. CASE Poll
    BY <1>0, <2>0, <2>1, ConstantsAssumption DEF Poll, Consume, FeedInv, ConsumerState
  <2>2. CASE CheckMapping
    BY <1>0, <2>0, <2>2 DEF CheckMapping, Consume, FeedInv, ConsumerState
  <2>3. CASE ReadPage
    <3> DEFINE last == Min({position + consumer.limit, Len(order)})
               page == SubSeq(order, position + 1, last)
    <3>1. position \in Nat /\ position <= Len(order) /\ consumer.limit \in Nat
      BY <1>0 DEF Through, ConsumerState
    <3>2. last \in Nat /\ position <= last /\ last <= Len(order)
      <4>1. position + consumer.limit \in Nat
        BY <3>1
      <4> HIDE DEF position
      <4>2. last \in {position + consumer.limit, Len(order)} /\ last <= Len(order)
        BY <1>0, <4>1, MinOfTwo
      <4> QED
        BY <1>0, <3>1, <4>1, <4>2
    <3>3. page \in Seq(Nat) /\ Through(order, position + Len(page), consumer.held \cup {page[i] : i \in DOMAIN page})
      <4> HIDE DEF last, position
      <4> QED
        BY <1>0, <3>1, <3>2, PageIsStretch, PageCovers
    <3>4. consumer' = [consumer EXCEPT !.pc = "answer", !.page = page, !.next = NextSince(consumer.cursor, page)]
      BY <2>3 DEF ReadPage, Consume
    <3> HIDE DEF page
    <3>5. consumer.cursor \in Cursor /\ NextSince(consumer.cursor, page) \in Cursor
      BY <1>0, <3>1, <3>3 DEF NextSince, Cursor, ConsumerState
    <3>6. Through(order, Position(NextSince(consumer.cursor, page)),
                  consumer.held \cup {page[i] : i \in DOMAIN page})
      <4>1. CASE page = <<>>
        BY <1>0, <4>1 DEF NextSince, Through
      <4>2. CASE page # <<>>
        BY <3>3, <4>2 DEF NextSince, Position
      <4> QED
        BY <4>1, <4>2
    <3>7. /\ consumer' \in ConsumerState /\ consumer'.pc = "answer"
          /\ consumer'.cursor = consumer.cursor /\ consumer'.held = consumer.held
          /\ consumer'.page = page /\ consumer'.next = NextSince(consumer.cursor, page)
      BY <1>0, <3>3, <3>4, <3>5 DEF ConsumerState
    <3> QED
      BY <1>0, <2>0, <3>6, <3>7 DEF FeedInv
  <2>4. CASE StoreReceipts
    <3>1. consumer' = [consumer EXCEPT !.pc = "advance", !.held = @ \cup paged, !.page = <<>>]
      BY <2>4 DEF StoreReceipts, Consume
    <3>2. paged \subseteq Nat
      BY <1>0 DEF ConsumerState
    <3>3. Through(order, Position(consumer.next), consumer.held \cup paged)
      BY <2>4 DEF FeedInv, StoreReceipts
    <3> HIDE DEF paged
    <3>4. /\ consumer' \in ConsumerState /\ consumer'.pc = "advance"
          /\ consumer'.cursor = consumer.cursor /\ consumer'.held = consumer.held \cup paged
          /\ consumer'.next = consumer.next
      BY <1>0, <3>1, <3>2 DEF ConsumerState
    <3>5. Through(order, position, consumer.held \cup paged)
      BY <1>0 DEF Through
    <3> QED
      BY <1>0, <2>0, <3>3, <3>4, <3>5 DEF FeedInv
  <2>5. CASE StoreCursor
    <3>1. consumer' = [consumer EXCEPT !.pc = "idle", !.cursor = consumer.next, !.next = NoCursor, !.limit = 0]
      BY <2>5 DEF StoreCursor, Consume
    <3>2. /\ consumer' \in ConsumerState /\ consumer'.pc = "idle"
          /\ consumer'.cursor = consumer.next /\ consumer'.held = consumer.held
      BY <1>0, <3>1 DEF ConsumerState
    <3> QED
      BY <1>0, <2>0, <2>5, <3>2 DEF FeedInv, StoreCursor
  <2>6. CASE Interrupted
    <3>1. consumer' = [consumer EXCEPT !.pc = "idle", !.page = <<>>, !.next = NoCursor, !.limit = 0]
      BY <2>6 DEF Interrupted, Consume
    <3>2. /\ consumer' \in ConsumerState /\ consumer'.pc = "idle"
          /\ consumer'.cursor = consumer.cursor /\ consumer'.held = consumer.held
      BY <1>0, <3>1 DEF ConsumerState
    <3> QED
      BY <1>0, <2>0, <3>2 DEF FeedInv
  <2> QED
    BY <1>3, <2>1, <2>2, <2>3, <2>4, <2>5, <2>6 DEF ConsumerStep
<1> QED
  BY <1>1, <1>2, <1>3, FeedSteps

\* A consumer may trust its stored cursor: whatever epoch it came from, however its
\* polls interleave with new events, and wherever it was interrupted, it holds every
\* receipt before it.
THEOREM CursorNeverAhead == Spec => []CursorBehindReceipts
<1>1. FeedInv => CursorBehindReceipts
  BY DEF FeedInv, Through, CursorBehindReceipts
<1> QED
  BY <1>1, FeedInvInit, FeedInvStep, PTL DEF Spec

-----------------------------------------------------------------------------
(* The current accumulator.                                                *)

\* What the replica holds has its type.
ReplicaInv ==
  /\ inbox \subseteq Messages /\ bodies \subseteq Bodies
  /\ DOMAIN versions \subseteq VersionIds /\ \A k \in DOMAIN versions : versions[k] \in Version
  /\ DOMAIN snapshots \subseteq Nat /\ \A k \in DOMAIN snapshots : snapshots[k] \in Nat

LEMMA ReplicaInvInit == Init => ReplicaInv
<1> SUFFICES ASSUME Init PROVE ReplicaInv
  OBVIOUS
<1>1. inbox \subseteq Messages /\ bodies \subseteq Bodies
  BY ConstantsAssumption DEF Init
<1>2. DOMAIN versions = {}
  BY DEF Init
<1>3. DOMAIN snapshots = {}
  BY DEF Init
<1> QED
  BY <1>1, <1>2, <1>3 DEF ReplicaInv

LEMMA ReplicaInvStep == ReplicaInv /\ [Next]_vars => ReplicaInv'
<1> SUFFICES ASSUME ReplicaInv, [Next]_vars PROVE ReplicaInv'
  OBVIOUS
<1>1. CASE UNCHANGED replica
  BY <1>1 DEF ReplicaInv, replica
<1>2. CASE Deliver
  <2>1. PICK m \in inbox : Arrive(m)
    BY <1>2 DEF Deliver
  <2>2. m \in Message
    BY ConstantsAssumption DEF ReplicaInv
  <2>3. inbox' \subseteq Messages /\ bodies' \subseteq Bodies
    <3>1. m.type = "object" => m.body \in Bodies
      BY <2>2 DEF Message
    <3> QED
      BY <2>1, <3>1 DEF Arrive, ReplicaInv
  <2>4. DOMAIN versions' \subseteq VersionIds /\ \A k \in DOMAIN versions' : versions'[k] \in Version
    <3>1. CASE m.type = "document_version"
      <4>1. m.key \in VersionIds /\ m.version \in Version
        BY <2>2, <3>1 DEF Message
      <4> QED
        BY <2>1, <3>1, <4>1 DEF Arrive, ReplicaInv
    <3>2. CASE m.type # "document_version"
      BY <2>1, <3>2 DEF Arrive, ReplicaInv
    <3> QED
      BY <3>1, <3>2
  <2>5. DOMAIN snapshots' \subseteq Nat /\ \A k \in DOMAIN snapshots' : snapshots'[k] \in Nat
    <3>1. CASE m.type = "accumulator"
      <4>1. m.created \in Nat /\ m.key \in Nat
        BY <2>2, <3>1 DEF Message
      <4> QED
        BY <2>1, <3>1, <4>1 DEF Arrive, ReplicaInv
    <3>2. CASE m.type # "accumulator"
      BY <2>1, <3>2 DEF Arrive, ReplicaInv
    <3> QED
      BY <3>1, <3>2
  <2> QED
    BY <2>3, <2>4, <2>5 DEF ReplicaInv
<1> QED
  BY <1>1, <1>2, ReplicaSteps

\* Every row was sent in this scenario; a v4 envelope, and a snapshot, as it is there.
FromScenario(s) ==
  /\ inbox \subseteq s.inbox
  /\ \A e \in evidence : e.v4 => e \in References(s.inbox)
  /\ \A k \in DOMAIN versions :
       \E m \in s.inbox : m.type = "document_version" /\ m.key = k /\ m.version = versions[k]
  /\ \A k \in DOMAIN snapshots :
       \E m \in s.inbox : m.type = "accumulator" /\ m.key = k /\ m.created = snapshots[k]

SentInv == \E s \in Scenarios : FromScenario(s)

LEMMA SentInvInit == Init => SentInv
<1> SUFFICES ASSUME Init PROVE SentInv
  OBVIOUS
<1>1. PICK s \in Scenarios : inbox = s.inbox
  BY DEF Init
<1>2. evidence = {} /\ DOMAIN versions = {} /\ DOMAIN snapshots = {}
  BY DEF Init
<1> QED
  BY <1>1, <1>2 DEF FromScenario, SentInv

LEMMA ScenarioStays ==
  ASSUME NEW s \in Scenarios, FromScenario(s), [Next]_vars
  PROVE  FromScenario(s)'
<1>1. CASE UNCHANGED replica
  BY <1>1 DEF FromScenario, replica
<1>2. CASE Deliver
  <2>1. PICK m \in inbox : Arrive(m)
    BY <1>2 DEF Deliver
  <2>2. m \in s.inbox /\ inbox' \subseteq s.inbox
    BY <2>1 DEF Arrive, FromScenario
  <2>3. ASSUME NEW e \in evidence', e.v4
        PROVE  e \in References(s.inbox)
    <3>1. e \in evidence \/ (m.type = "evidence" /\ e = m.row)
      BY <2>1 DEF Arrive, KeptEvidence
    <3> QED
      BY <2>2, <2>3, <3>1 DEF FromScenario, References
  <2>4. ASSUME NEW k \in DOMAIN versions'
        PROVE  \E n \in s.inbox : n.type = "document_version" /\ n.key = k /\ n.version = versions'[k]
    <3>1. \/ k \in DOMAIN versions /\ versions'[k] = versions[k]
          \/ m.type = "document_version" /\ m.key = k /\ m.version = versions'[k]
      BY <2>1 DEF Arrive
    <3> QED
      BY <2>2, <3>1 DEF FromScenario
  <2>5. ASSUME NEW k \in DOMAIN snapshots'
        PROVE  \E n \in s.inbox : n.type = "accumulator" /\ n.key = k /\ n.created = snapshots'[k]
    <3>1. \/ k \in DOMAIN snapshots /\ snapshots'[k] = snapshots[k]
          \/ m.type = "accumulator" /\ m.key = k /\ m.created = snapshots'[k]
      BY <2>1 DEF Arrive
    <3> QED
      BY <2>2, <3>1 DEF FromScenario
  <2> QED
    BY <2>2, <2>3, <2>4, <2>5 DEF FromScenario
<1> QED
  BY <1>1, <1>2, ReplicaSteps

LEMMA SentInvStep == SentInv /\ [Next]_vars => SentInv'
BY ScenarioStays DEF SentInv

\* A row written anew keeps its time, so the one shown before is still a candidate.
LEMMA SnapshotsStay ==
  ASSUME NEW s \in Scenarios, FromScenario(s), ImmutableSnapshots(s.inbox), [Next]_vars,
         NEW k \in DOMAIN snapshots
  PROVE  k \in DOMAIN snapshots' /\ snapshots'[k] = snapshots[k]
<1>1. CASE UNCHANGED replica
  BY <1>1 DEF replica
<1>2. CASE Deliver
  <2>1. PICK m \in inbox : Arrive(m)
    BY <1>2 DEF Deliver
  <2>2. CASE m.type = "accumulator" /\ m.key = k
    <3>1. PICK n \in s.inbox : n.type = "accumulator" /\ n.key = k /\ n.created = snapshots[k]
      BY DEF FromScenario
    <3>2. m \in s.inbox
      BY DEF FromScenario
    <3>3. m.created = snapshots[k]
      BY <2>2, <3>1, <3>2 DEF ImmutableSnapshots
    <3> QED
      BY <2>1, <2>2, <3>3 DEF Arrive
  <2>3. CASE ~(m.type = "accumulator" /\ m.key = k)
    BY <2>1, <2>3 DEF Arrive
  <2> QED
    BY <2>2, <2>3
<1> QED
  BY <1>1, <1>2, ReplicaSteps

\* No scenario sends a snapshot under two calculation times.
SnapshotsImmutable == \A s \in Scenarios : ImmutableSnapshots(s.inbox)

\* Whatever order snapshots arrive in, and however often a row is written anew, the
\* accumulator shown is never replaced by one calculated earlier, if what the producer
\* sends of one snapshot states one calculation time.
THEOREM AccumulatorNeverGoesBack ==
  ASSUME SnapshotsImmutable
  PROVE  Spec => AccumulatorMovesForward
<1> DEFINE Forward ==
      \A old \in CurrentAccumulator(snapshots) : \A new \in CurrentAccumulator(snapshots') :
        \/ snapshots[old] < snapshots'[new]
        \/ snapshots[old] = snapshots'[new] /\ old <= new
<1>1. SentInv /\ [Next]_vars => [Forward]_vars
  <2> SUFFICES ASSUME SentInv, [Next]_vars PROVE Forward
    OBVIOUS
  <2>1. ASSUME NEW old \in CurrentAccumulator(snapshots), NEW new \in CurrentAccumulator(snapshots')
        PROVE  snapshots[old] < snapshots'[new] \/ (snapshots[old] = snapshots'[new] /\ old <= new)
    <3>1. PICK s \in Scenarios : FromScenario(s)
      BY DEF SentInv
    <3>2. old \in DOMAIN snapshots
      BY DEF CurrentAccumulator
    <3>3. old \in DOMAIN snapshots' /\ snapshots'[old] = snapshots[old]
      BY <3>1, <3>2, SnapshotsStay DEF SnapshotsImmutable
    <3> QED
      BY <3>3 DEF CurrentAccumulator
  <2> QED
    BY <2>1
<1> QED
  BY <1>1, SentInvInit, SentInvStep, PTL DEF Spec, AccumulatorMovesForward

-----------------------------------------------------------------------------
(* The document served.                                                    *)

LEMMA DocumentSteps ==
  ASSUME [Next]_vars
  PROVE  \/ UNCHANGED document
         \/ UNCHANGED bodies /\ (DocumentStep \/ FailDocument)
<1>1. CASE Operate \/ Tick \/ Deliver
  BY <1>1 DEF Operate, Tick, Deliver, Arrive, asking
<1>2. CASE ConsumerStep \/ Interrupted
  BY <1>2 DEF ConsumerStep, Interrupted, Poll, CheckMapping, ReadPage, StoreReceipts, StoreCursor, Consume
<1>3. CASE ContextStep
  BY <1>3 DEF ContextStep, AskContext, ReadTerminal, ReadLease, DeriveState, ReadProposals, FailContext, Read
<1>4. CASE DocumentStep \/ FailDocument
  BY <1>4 DEF DocumentStep, Search, ReadVersions, ReadObject, SearchAgain, FailDocument, Look, replica
<1>5. CASE EvidenceStep \/ FailEvidence
  BY <1>5 DEF EvidenceStep, AskEvidence, ReadEvidence, ReadVersion, ReadBytes, FailEvidence, Prove
<1>6. CASE UNCHANGED vars
  BY <1>6 DEF vars, asking
<1> QED
  BY <1>1, <1>2, <1>3, <1>4, <1>5, <1>6 DEF Next

LEMMA BodiesGrow ==
  ASSUME [Next]_vars
  PROVE  bodies \subseteq bodies'
BY ReplicaSteps DEF replica, Deliver, Arrive

\* A candidate that was passed over had no bytes when the request began.
DocumentInv ==
  /\ document \in DocumentState
  /\ document.there \subseteq bodies
  /\ document.pc = "objects" =>
       /\ document.left \subseteq document.servable
       /\ \A d \in document.servable \ document.left : d.body \notin document.there
  /\ document.pc # "done" \/ document.answer # "SERVED" => document.served = {}
  /\ BestVersionServed

LEMMA DocumentInvInit == Init => DocumentInv
BY DEF Init, DocumentInv, DocumentState, BestVersionServed

\* What may be served are bodies of versions.
LEMMA ServableTyped ==
  ASSUME ReplicaInv
  PROVE  Servable \subseteq Candidate
<1>1. ASSUME NEW k \in DOMAIN versions, NEW b \in ServableBody(versions[k])
      PROVE  [key |-> k, number |-> versions[k].number, body |-> b] \in Candidate
  <2>1. k \in VersionIds /\ versions[k] \in Version
    BY DEF ReplicaInv
  <2> QED
    BY <1>1, <2>1 DEF Candidate, Version, ServableBody
<1> QED
  BY <1>1 DEF Servable

LEMMA DocumentInvStep == ReplicaInv /\ DocumentInv /\ [Next]_vars => DocumentInv'
<1> SUFFICES ASSUME ReplicaInv, DocumentInv, [Next]_vars PROVE DocumentInv'
  OBVIOUS
<1>1. CASE UNCHANGED document
  BY <1>1, BodiesGrow DEF DocumentInv, BestVersionServed
<1>2. CASE UNCHANGED bodies /\ (DocumentStep \/ FailDocument)
  <2>0. document \in DocumentState /\ bodies' = bodies
    BY <1>2 DEF DocumentInv
  <2>1. CASE Search
    <3>1. document' = [document EXCEPT !.pc = "rows", !.listed = @ \cup {c.key : c \in Servable}]
      BY <2>1 DEF Search, Look
    <3>2. {c.key : c \in Servable} \subseteq VersionIds
      BY ServableTyped DEF Candidate
    <3>3. document' \in DocumentState
      BY <2>0, <3>1, <3>2 DEF DocumentState
    <3>4. document.served = {}
      BY <2>1 DEF Search, DocumentInv
    <3> QED
      BY <2>0, <3>1, <3>3, <3>4 DEF DocumentInv, DocumentState, BestVersionServed
  <2>2. CASE ReadVersions
    <3>1. document.served = {} /\ document.pc = "rows"
      BY <2>2 DEF ReadVersions, DocumentInv
    <3>2. CASE Servable # {}
      <4>1. document' = [document EXCEPT !.pc = "objects", !.left = Servable, !.servable = Servable,
                                         !.there = bodies]
        BY <2>2, <3>2 DEF ReadVersions, Look
      <4>2. document' \in DocumentState
        BY <2>0, <4>1, ServableTyped DEF DocumentState, ReplicaInv
      <4> QED
        BY <2>0, <3>1, <4>1, <4>2 DEF DocumentInv, DocumentState, BestVersionServed
    <3>3. CASE Servable = {}
      <4>1. PICK a \in {"NOT_FOUND", "UNSUPPORTED_OPERATION"} :
              document' = [document EXCEPT !.pc = "done", !.answer = a]
        BY <2>2, <3>3 DEF ReadVersions, Look
      <4>2. document' \in DocumentState
        BY <2>0, <4>1 DEF DocumentState
      <4> QED
        BY <2>0, <3>1, <4>1, <4>2 DEF DocumentInv, DocumentState, BestVersionServed
    <3> QED
      BY <3>2, <3>3
  <2>3. CASE ReadObject
    <3>1. PICK c \in document.left :
            /\ \A d \in document.left : d # c => Precedes(c, d)
            /\ Look(IF c.body \in bodies
                      THEN [document EXCEPT !.pc = "done", !.answer = "SERVED", !.served = {c}]
                    ELSE IF document.left = {c}
                      THEN [document EXCEPT !.pc = "done", !.answer = "STORE_UNAVAILABLE"]
                    ELSE [document EXCEPT !.left = @ \ {c}])
      BY <2>3 DEF ReadObject
    <3>2. /\ document.pc = "objects" /\ document.served = {}
          /\ document.left \subseteq document.servable /\ document.there \subseteq bodies
          /\ \A d \in document.servable \ document.left : d.body \notin document.there
          /\ document.left \subseteq Candidate /\ document.servable \subseteq Candidate
      BY <2>3 DEF ReadObject, DocumentInv, DocumentState
    <3>3. CASE c.body \in bodies
      <4>1. document' = [document EXCEPT !.pc = "done", !.answer = "SERVED", !.served = {c}]
        BY <3>1, <3>3 DEF Look
      <4>2. document' \in DocumentState
        BY <2>0, <3>2, <4>1 DEF DocumentState
      <4>3. ASSUME NEW d \in document.servable,
                   d.number > c.number \/ (d.number = c.number /\ d.key < c.key)
            PROVE  d.body \notin document.there
        <5>1. d.number \in Nat /\ c.number \in Nat /\ d.key \in Nat /\ c.key \in Nat
          BY <3>2, ConstantsAssumption DEF Candidate
        <5>2. d # c /\ ~Precedes(c, d)
          BY <4>3, <5>1 DEF Precedes
        <5> QED
          BY <3>1, <3>2, <5>2
      <4>4. BestVersionServed'
        BY <2>0, <4>1, <4>3 DEF BestVersionServed, DocumentState
      <4> QED
        BY <2>0, <3>2, <4>1, <4>2, <4>4 DEF DocumentInv, DocumentState
    <3>4. CASE c.body \notin bodies /\ document.left = {c}
      <4>1. document' = [document EXCEPT !.pc = "done", !.answer = "STORE_UNAVAILABLE"]
        BY <3>1, <3>4 DEF Look
      <4>2. document' \in DocumentState
        BY <2>0, <4>1 DEF DocumentState
      <4> QED
        BY <2>0, <3>2, <4>1, <4>2 DEF DocumentInv, DocumentState, BestVersionServed
    <3>5. CASE c.body \notin bodies /\ document.left # {c}
      <4>1. document' = [document EXCEPT !.left = @ \ {c}]
        BY <3>1, <3>5 DEF Look
      <4>2. document' \in DocumentState
        BY <2>0, <4>1 DEF DocumentState
      <4>3. \A d \in document.servable \ (document.left \ {c}) : d.body \notin document.there
        BY <3>2, <3>5
      <4> QED
        BY <2>0, <3>2, <4>1, <4>2, <4>3 DEF DocumentInv, DocumentState, BestVersionServed
    <3> QED
      BY <3>3, <3>4, <3>5
  <2>4. CASE SearchAgain
    <3>1. document' = [document EXCEPT !.pc = "idle", !.left = {}, !.servable = {}, !.there = {}, !.answer = "NONE"]
      BY <2>4 DEF SearchAgain, Look
    <3>2. document.served = {}
      BY <2>4 DEF SearchAgain, DocumentInv
    <3> QED
      BY <2>0, <3>1, <3>2 DEF DocumentInv, DocumentState, BestVersionServed
  <2>5. CASE FailDocument
    <3>1. PICK a \in {"STORE_UNAVAILABLE", "CORRUPTED"} :
            document' = [document EXCEPT !.pc = "done", !.answer = a]
      BY <2>5 DEF FailDocument, Look
    <3>2. document.served = {}
      BY <2>5 DEF FailDocument, DocumentInv
    <3> QED
      BY <2>0, <3>1, <3>2 DEF DocumentInv, DocumentState, BestVersionServed
  <2> QED
    BY <1>2, <2>1, <2>2, <2>3, <2>4, <2>5 DEF DocumentStep
<1> QED
  BY <1>1, <1>2, DocumentSteps

\* However versions, extractions and bytes arrive during a request, the body served is
\* that of the best version that had its bytes when the request read the rows.
THEOREM BestVersionIsServed == Spec => []BestVersionServed
<1>1. DocumentInv => BestVersionServed
  BY DEF DocumentInv
<1> QED
  BY <1>1, ReplicaInvInit, ReplicaInvStep, DocumentInvInit, DocumentInvStep, PTL DEF Spec

-----------------------------------------------------------------------------
(* The job context.                                                        *)

LEMMA JobSteps ==
  ASSUME [Next]_vars
  PROVE  \/ UNCHANGED <<queue, completed, reader>>
         \/ Operate \/ Tick
         \/ UNCHANGED <<queue, completed>> /\ ContextStep
<1>1. CASE Deliver
  BY <1>1 DEF Deliver, Arrive, asking, feed
<1>2. CASE ConsumerStep \/ Interrupted
  BY <1>2 DEF ConsumerStep, Interrupted, Poll, CheckMapping, ReadPage, StoreReceipts, StoreCursor, Consume, feed
<1>3. CASE ContextStep
  BY <1>3 DEF ContextStep, AskContext, ReadTerminal, ReadLease, DeriveState, ReadProposals, FailContext, Read, feed
<1>4. CASE DocumentStep \/ FailDocument
  BY <1>4 DEF DocumentStep, Search, ReadVersions, ReadObject, SearchAgain, FailDocument, Look, feed
<1>5. CASE EvidenceStep \/ FailEvidence
  BY <1>5 DEF EvidenceStep, AskEvidence, ReadEvidence, ReadVersion, ReadBytes, FailEvidence, Prove, feed
<1>6. CASE UNCHANGED vars
  BY <1>6 DEF vars, asking, feed
<1> QED
  BY <1>1, <1>2, <1>3, <1>4, <1>5, <1>6 DEF Next

\* A completed job has no lease, and its event comes with its result.
JobInv ==
  /\ time \in Nat
  /\ holder \in [{Job} -> SUBSET [owner : Owners, until : Nat]]
  /\ result \in [{Job} -> SUBSET Owners]
  /\ result[Job] # {} => holder[Job] = {}
  /\ completed # {} => result[Job] # {}

LEMMA JobInvInit == Init => JobInv
BY DEF Init, JobInv, Queue!Init

\* An operation grants the job, finishes it or gives it back.
LEMMA Operations ==
  ASSUME JobInv, Operate
  PROVE  /\ time' = time /\ Witness
         /\ result[Job] = {}
         /\ \/ /\ \A h \in holder[Job] : h.until <= time
               /\ \E o \in Owners, until \in Nat :
                    holder' = [holder EXCEPT ![Job] = {[owner |-> o, until |-> until]}]
               /\ result' = result /\ completed' = completed
            \/ /\ \E o \in Owners : result' = [result EXCEPT ![Job] = {o}]
               /\ holder' = [holder EXCEPT ![Job] = {}]
            \/ /\ result' = result /\ completed' = completed
               /\ holder' = [holder EXCEPT ![Job] = {}]
<1>1. PICK o \in Owners :
        \/ Queue!Grant(Job, o) /\ Log(FALSE)
        \/ Queue!Finish(Job, o) /\ Log(TRUE)
        \/ /\ Queue!Unfinished(Job)
           /\ holder' = [holder EXCEPT ![Job] = {}]
           /\ UNCHANGED <<time, result>>
           /\ Log(FALSE)
  BY DEF Operate
<1>2. Witness
  BY DEF Operate
<1>3. CASE Queue!Grant(Job, o) /\ Log(FALSE)
  <2>1. PICK until \in 0..(time + TTL) : holder' = [holder EXCEPT ![Job] = {[owner |-> o, until |-> until]}]
    BY <1>3 DEF Queue!Grant
  <2>2. until \in Nat
    BY <2>1, ConstantsAssumption DEF JobInv
  <2>3. completed' = completed
    BY <1>3 DEF Log
  <2> QED
    BY <1>2, <1>3, <2>1, <2>2, <2>3 DEF Queue!Grant, Queue!Unfinished
<1>4. CASE Queue!Finish(Job, o) /\ Log(TRUE)
  BY <1>2, <1>4 DEF Queue!Finish, Queue!Unfinished
<1>5. CASE /\ Queue!Unfinished(Job)
           /\ holder' = [holder EXCEPT ![Job] = {}]
           /\ UNCHANGED <<time, result>>
           /\ Log(FALSE)
  <2>1. completed' = completed
    BY <1>5 DEF Log
  <2> QED
    BY <1>2, <1>5, <2>1 DEF Queue!Unfinished
<1> QED
  BY <1>1, <1>3, <1>4, <1>5

LEMMA JobInvStep == JobInv /\ [Next]_vars => JobInv'
<1> SUFFICES ASSUME JobInv, [Next]_vars PROVE JobInv'
  OBVIOUS
<1>1. CASE UNCHANGED <<queue, completed>>
  BY <1>1 DEF JobInv, queue
<1>2. CASE Operate
  BY <1>2, Operations DEF JobInv
<1>3. CASE Tick
  BY <1>3 DEF Tick, Queue!Advance, JobInv, feed
<1> QED
  BY <1>1, <1>2, <1>3, JobSteps

TruthRules ==
  /\ Truth \subseteq {"COMPLETED", "QUEUED"} \cup Owners
  /\ result[Job] # {} => Truth = {"COMPLETED"}
  /\ result[Job] = {} =>
       /\ "COMPLETED" \notin Truth
       /\ \A h \in holder[Job] : h.until > time => h.owner \in Truth
       /\ (\A h \in holder[Job] : ~(h.until > time)) => Truth = {"QUEUED"}

LEMMA TruthIs == JobInv => TruthRules
<1> SUFFICES ASSUME JobInv PROVE TruthRules
  OBVIOUS
<1>1. \A h \in holder[Job] : h.owner \in Owners
  BY DEF JobInv, Job
<1>2. "COMPLETED" \notin Owners
  BY OwnersAssumption
<1> QED
  BY <1>1, <1>2 DEF Truth, TruthRules

LEMMA TruthIsNext == JobInv' => TruthRules'
BY TruthIs, PTL

\* What a request for the context has read so far, against what was true since it began.
Running == reader.pc \notin {"idle", "done"}

HistoryInv ==
  /\ reader \in ReaderState
  /\ Running => Truth \subseteq reader.seen
  /\ reader.told => result[Job] # {}
  /\ "COMPLETED" \in reader.began => result[Job] # {}

\* Past the terminal row the request has found none, so none was there before.
OpenInv ==
  reader.pc \in {"lease", "state"} \/ (reader.pc = "proposals" /\ reader.answer # "COMPLETED") =>
    ~reader.told /\ "COMPLETED" \notin reader.began

\* A lease read was the job's state while it runs; one that has run out, or none,
\* is what the job has yet, or it was queued or completed since the request began.
LeaseInv ==
  reader.pc = "state" =>
    /\ \A h \in reader.lease : h.until > time => h.owner \in reader.seen
    /\ \/ "QUEUED" \in reader.seen \/ "COMPLETED" \in reader.seen
       \/ holder[Job] = reader.lease /\ \E h \in reader.lease : h.until > time

AnswerInv ==
  reader.pc = "proposals" =>
    \/ reader.answer = "COMPLETED" /\ "COMPLETED" \in reader.seen /\ result[Job] # {}
    \/ reader.answer \in Owners /\ reader.answer \in reader.seen
    \/ reader.answer = "QUEUED" /\ ("QUEUED" \in reader.seen \/ "COMPLETED" \in reader.seen)

ReaderInv == HistoryInv /\ OpenInv /\ LeaseInv /\ AnswerInv /\ ContextTruthful

LEMMA ReaderInvInit == Init => ReaderInv
BY DEF Init, ReaderInv, HistoryInv, OpenInv, LeaseInv, AnswerInv, ContextTruthful, Running, ReaderState

LEMMA OperateKeepsReader == JobInv /\ JobInv' /\ ReaderInv /\ Operate => ReaderInv'
<1> SUFFICES ASSUME JobInv, JobInv', ReaderInv, Operate PROVE ReaderInv'
  OBVIOUS
<1>0. reader \in ReaderState /\ ~reader.told /\ "COMPLETED" \notin reader.began /\ time' = time /\ result[Job] = {}
  BY Operations DEF ReaderInv, HistoryInv
<1>1. CASE ~Running
  <2>1. reader' = reader
    BY <1>1, Operations DEF Witness, Running
  <2> QED
    BY <1>0, <1>1, <2>1 DEF ReaderInv, HistoryInv, OpenInv, LeaseInv, AnswerInv, ContextTruthful, Running
<1>2. CASE Running
  <2>1. reader' = [reader EXCEPT !.seen = @ \cup Truth']
    BY <1>2, Operations DEF Witness, Running
  <2>2. Truth' \subseteq {"COMPLETED", "QUEUED"} \cup Owners
    BY TruthIsNext DEF TruthRules
  <2>3. reader' \in ReaderState
    BY <1>0, <2>1, <2>2 DEF ReaderState
  <2>4. /\ reader'.pc = reader.pc /\ reader'.lease = reader.lease /\ reader'.answer = reader.answer
        /\ reader'.told = reader.told /\ reader'.began = reader.began
        /\ reader.seen \subseteq reader'.seen /\ Truth' \subseteq reader'.seen
    BY <1>0, <2>1 DEF ReaderState
  <2>5. HistoryInv'
    BY <1>0, <2>3, <2>4 DEF HistoryInv
  <2>6. OpenInv' /\ AnswerInv' /\ ContextTruthful'
    BY <1>0, <1>2, <2>4 DEF ReaderInv, OpenInv, AnswerInv, ContextTruthful, Running
  <2>7. ASSUME holder[Job] = reader.lease, \E h \in reader.lease : h.until > time
        PROVE  "QUEUED" \in Truth' \/ "COMPLETED" \in Truth'
    <3>0. \A h \in holder[Job] : h.until \in Nat
      BY DEF JobInv, Job
    <3>1. ~(\A h \in holder[Job] : h.until <= time)
      BY <2>7, <3>0 DEF JobInv
    <3>2. CASE \E o \in Owners : result' = [result EXCEPT ![Job] = {o}]
      <4>1. result'[Job] # {}
        BY <3>2 DEF JobInv
      <4> QED
        BY <4>1, TruthIsNext DEF TruthRules
    <3>3. CASE result' = result /\ holder' = [holder EXCEPT ![Job] = {}]
      <4>1. result'[Job] = {} /\ holder'[Job] = {}
        BY <1>0, <3>3 DEF JobInv
      <4> QED
        BY <4>1, TruthIsNext DEF TruthRules
    <3> QED
      BY <3>1, <3>2, <3>3, Operations
  <2>8. LeaseInv'
    <3> SUFFICES ASSUME reader.pc = "state" PROVE LeaseInv'
      BY <2>4 DEF LeaseInv
    <3>1. \A h \in reader'.lease : h.until > time' => h.owner \in reader'.seen
      BY <1>0, <2>4 DEF ReaderInv, LeaseInv
    <3>2. "QUEUED" \in reader'.seen \/ "COMPLETED" \in reader'.seen
      BY <2>4, <2>7 DEF ReaderInv, LeaseInv
    <3> QED
      BY <3>1, <3>2 DEF LeaseInv
  <2> QED
    BY <2>5, <2>6, <2>8 DEF ReaderInv
<1> QED
  BY <1>1, <1>2

LEMMA TickKeepsReader == JobInv /\ JobInv' /\ ReaderInv /\ Tick => ReaderInv'
<1> SUFFICES ASSUME JobInv, JobInv', ReaderInv, Tick PROVE ReaderInv'
  OBVIOUS
<1>0. /\ reader \in ReaderState /\ time \in Nat /\ time' = time + 1
      /\ holder' = holder /\ result' = result /\ Witness
  BY DEF ReaderInv, HistoryInv, JobInv, Tick, Queue!Advance
<1>1. CASE ~Running
  <2>1. reader' = reader
    BY <1>0, <1>1 DEF Witness, Running
  <2> QED
    BY <1>0, <1>1, <2>1 DEF ReaderInv, HistoryInv, OpenInv, LeaseInv, AnswerInv, ContextTruthful, Running
<1>2. CASE Running
  <2>1. reader' = [reader EXCEPT !.seen = @ \cup Truth']
    BY <1>0, <1>2 DEF Witness, Running
  <2>2. Truth' \subseteq {"COMPLETED", "QUEUED"} \cup Owners
    BY TruthIsNext DEF TruthRules
  <2>3. reader' \in ReaderState
    BY <1>0, <2>1, <2>2 DEF ReaderState
  <2>4. /\ reader'.pc = reader.pc /\ reader'.lease = reader.lease /\ reader'.answer = reader.answer
        /\ reader'.told = reader.told /\ reader'.began = reader.began
        /\ reader.seen \subseteq reader'.seen /\ Truth' \subseteq reader'.seen
    BY <1>0, <2>1 DEF ReaderState
  <2>5. HistoryInv'
    BY <1>0, <2>3, <2>4 DEF ReaderInv, HistoryInv
  <2>6. OpenInv' /\ AnswerInv' /\ ContextTruthful'
    BY <1>0, <1>2, <2>4 DEF ReaderInv, OpenInv, AnswerInv, ContextTruthful, Running
  <2>7. LeaseInv'
    <3> SUFFICES ASSUME reader.pc = "state" PROVE LeaseInv'
      BY <2>4 DEF LeaseInv
    <3>0. \A h \in reader.lease : h.until \in Nat /\ (h.until > time' => h.until > time)
      BY <1>0 DEF ReaderState
    <3>1. \A h \in reader'.lease : h.until > time' => h.owner \in reader'.seen
      BY <2>4, <3>0 DEF ReaderInv, LeaseInv
    <3>2. CASE "QUEUED" \in reader.seen \/ "COMPLETED" \in reader.seen
      BY <2>4, <3>1, <3>2 DEF LeaseInv
    <3>3. CASE holder[Job] = reader.lease /\ \E h \in reader.lease : h.until > time
      <4>1. CASE \E h \in reader.lease : h.until > time'
        BY <1>0, <2>4, <3>1, <3>3, <4>1 DEF LeaseInv
      <4>2. CASE \A h \in reader.lease : ~(h.until > time')
        <5>1. result'[Job] = {} /\ \A h \in holder'[Job] : ~(h.until > time')
          BY <1>0, <3>3, <4>2 DEF JobInv
        <5>2. "QUEUED" \in Truth'
          BY <5>1, TruthIsNext DEF TruthRules
        <5> QED
          BY <2>4, <3>1, <5>2 DEF LeaseInv
      <4> QED
        BY <4>1, <4>2
    <3> QED
      BY <3>2, <3>3 DEF ReaderInv, LeaseInv
  <2> QED
    BY <2>5, <2>6, <2>7 DEF ReaderInv
<1> QED
  BY <1>1, <1>2

LEMMA ContextKeepsReader == JobInv /\ ReaderInv /\ UNCHANGED <<queue, completed>> /\ ContextStep => ReaderInv'
<1> SUFFICES ASSUME JobInv, ReaderInv, UNCHANGED <<queue, completed>>, ContextStep PROVE ReaderInv'
  OBVIOUS
<1>0. /\ reader \in ReaderState /\ time' = time /\ holder' = holder /\ result' = result /\ Truth' = Truth
  BY DEF ReaderInv, HistoryInv, queue, Truth
<1>1. CASE AskContext
  <2>1. PICK t \in BOOLEAN : /\ t => result[Job] # {}
                             /\ reader' = [reader EXCEPT !.pc = "terminal", !.told = t, !.began = Truth, !.seen = Truth]
    <3> WITNESS (consumer.held \cap completed # {}) \in BOOLEAN
    <3> QED
      BY <1>1 DEF AskContext, Read, JobInv
  <2>2. reader' \in ReaderState
    BY <1>0, <2>1, TruthIs DEF ReaderState, TruthRules
  <2>3. HistoryInv'
    BY <1>0, <2>1, <2>2, TruthIs DEF HistoryInv, ReaderState, TruthRules
  <2> QED
    BY <1>0, <2>1, <2>3 DEF ReaderInv, OpenInv, LeaseInv, AnswerInv, ContextTruthful, ReaderState
<1>2. CASE ReadTerminal
  <2>1. CASE result[Job] # {}
    <3>1. reader' = [reader EXCEPT !.pc = "proposals", !.answer = "COMPLETED"]
      BY <1>2, <2>1 DEF ReadTerminal, Read
    <3>2. reader' \in ReaderState /\ "COMPLETED" \in reader.seen
      BY <1>0, <1>2, <2>1, <3>1, TruthIs DEF ReadTerminal, ReaderState, ReaderInv, HistoryInv, Running, TruthRules
    <3>3. HistoryInv'
      BY <1>0, <1>2, <3>1, <3>2 DEF ReadTerminal, ReaderInv, HistoryInv, Running, ReaderState
    <3> QED
      BY <1>0, <2>1, <3>1, <3>2, <3>3 DEF ReaderInv, OpenInv, LeaseInv, AnswerInv, ContextTruthful, ReaderState
  <2>2. CASE result[Job] = {}
    <3>1. reader' = [reader EXCEPT !.pc = "lease"]
      BY <1>2, <2>2 DEF ReadTerminal, Read
    <3>2. reader' \in ReaderState /\ ~reader.told /\ "COMPLETED" \notin reader.began
      BY <1>0, <2>2, <3>1 DEF ReaderState, ReaderInv, HistoryInv
    <3>3. HistoryInv'
      BY <1>0, <1>2, <3>1, <3>2 DEF ReadTerminal, ReaderInv, HistoryInv, Running, ReaderState
    <3> QED
      BY <1>0, <3>1, <3>2, <3>3 DEF ReaderInv, OpenInv, LeaseInv, AnswerInv, ContextTruthful, ReaderState
  <2> QED
    BY <2>1, <2>2
<1>3. CASE ReadLease
  <2>1. reader' = [reader EXCEPT !.pc = "state", !.lease = holder[Job]] /\ Truth \subseteq reader.seen
    BY <1>3 DEF ReadLease, Read, ReaderInv, HistoryInv, Running
  <2>2. reader' \in ReaderState
    BY <1>0, <2>1 DEF ReaderState, JobInv, Job
  <2>3. HistoryInv'
    BY <1>0, <2>1, <2>2 DEF ReaderInv, HistoryInv, ReaderState
  <2>4. OpenInv'
    BY <1>0, <1>3, <2>1 DEF ReadLease, ReaderInv, OpenInv, ReaderState
  <2>5. reader'.lease = holder'[Job] /\ reader'.seen = reader.seen
    BY <1>0, <2>1 DEF ReaderState
  <2>6. LeaseInv'
    <3>1. CASE result[Job] # {}
      <4>1. holder[Job] = {} /\ "COMPLETED" \in Truth
        BY <3>1, TruthIs DEF JobInv, TruthRules
      <4> QED
        BY <1>0, <2>1, <2>5, <4>1 DEF LeaseInv
    <3>2. CASE result[Job] = {}
      <4>1. \A h \in reader'.lease : h.until > time' => h.owner \in reader'.seen
        BY <1>0, <2>1, <2>5, <3>2, TruthIs DEF TruthRules
      <4>2. CASE \A h \in holder[Job] : ~(h.until > time)
        BY <1>0, <2>1, <2>5, <3>2, <4>1, <4>2, TruthIs DEF LeaseInv, TruthRules
      <4>3. CASE \E h \in holder[Job] : h.until > time
        BY <1>0, <2>5, <4>1, <4>3 DEF LeaseInv
      <4> QED
        BY <4>2, <4>3
    <3> QED
      BY <3>1, <3>2
  <2> QED
    BY <1>0, <2>1, <2>3, <2>4, <2>6 DEF ReaderInv, AnswerInv, ContextTruthful, ReaderState
<1>4. CASE DeriveState
  <2>1. PICK a \in IF LeaseLive(reader.lease, time) = {} THEN {"QUEUED"} ELSE LeaseLive(reader.lease, time) :
          reader' = [reader EXCEPT !.pc = "proposals", !.answer = a]
    BY <1>4 DEF DeriveState, Read
  <2>2. LeaseInv /\ OpenInv /\ reader.pc = "state"
    BY <1>4 DEF DeriveState, ReaderInv
  <2>3. /\ a # "COMPLETED"
        /\ \/ a \in Owners /\ a \in reader.seen
           \/ a = "QUEUED" /\ ("QUEUED" \in reader.seen \/ "COMPLETED" \in reader.seen)
    <3>1. CASE LeaseLive(reader.lease, time) = {}
      <4>1. ~ \E h \in reader.lease : h.until > time
        BY <3>1 DEF LeaseLive
      <4> QED
        BY <2>1, <2>2, <3>1, <4>1 DEF LeaseInv
    <3>2. CASE LeaseLive(reader.lease, time) # {}
      <4>1. PICK h \in reader.lease : h.until > time /\ a = h.owner
        BY <2>1, <3>2 DEF LeaseLive
      <4>2. h.owner \in Owners
        BY <1>0, <4>1 DEF ReaderState
      <4> QED
        BY <2>2, <4>1, <4>2, OwnersAssumption DEF LeaseInv
    <3> QED
      BY <3>1, <3>2
  <2>4. reader' \in ReaderState
    BY <1>0, <2>1, <2>3 DEF ReaderState
  <2>5. HistoryInv'
    BY <1>0, <1>4, <2>1, <2>4 DEF DeriveState, ReaderInv, HistoryInv, Running, ReaderState
  <2> QED
    BY <1>0, <2>1, <2>2, <2>3, <2>5 DEF ReaderInv, OpenInv, LeaseInv, AnswerInv, ContextTruthful, ReaderState
<1>5. CASE ReadProposals
  <2>1. reader' = [reader EXCEPT !.pc = "done", !.proposals = result[Job]] /\ reader.pc = "proposals"
    BY <1>5 DEF ReadProposals, Read
  <2>2. reader' \in ReaderState
    BY <1>0, <2>1 DEF ReaderState, JobInv, Job
  <2>3. HistoryInv'
    BY <1>0, <2>1, <2>2 DEF ReaderInv, HistoryInv, Running, ReaderState
  <2>4. /\ reader'.pc = "done" /\ reader'.answer = reader.answer /\ reader'.proposals = result[Job]
        /\ reader'.seen = reader.seen /\ reader'.began = reader.began /\ reader'.told = reader.told
    BY <1>0, <2>1 DEF ReaderState
  <2>5. ContextTruthful'
    BY <1>0, <2>1, <2>4, OwnersAssumption DEF ReaderInv, OpenInv, AnswerInv, ContextTruthful
  <2> QED
    BY <2>3, <2>4, <2>5 DEF ReaderInv, OpenInv, LeaseInv, AnswerInv
<1>6. CASE FailContext
  <2>1. reader' = [reader EXCEPT !.pc = "done", !.answer = "FAILED"]
    BY <1>6 DEF FailContext, Read
  <2>2. reader' \in ReaderState
    BY <1>0, <2>1 DEF ReaderState
  <2> QED
    BY <1>0, <2>1, <2>2, OwnersAssumption
    DEF ReaderInv, HistoryInv, OpenInv, LeaseInv, AnswerInv, ContextTruthful, Running, ReaderState
<1> QED
  BY <1>1, <1>2, <1>3, <1>4, <1>5, <1>6 DEF ContextStep

LEMMA ReaderInvStep == JobInv /\ JobInv' /\ ReaderInv /\ [Next]_vars => ReaderInv'
<1> SUFFICES ASSUME JobInv, JobInv', ReaderInv, [Next]_vars PROVE ReaderInv'
  OBVIOUS
<1>1. CASE UNCHANGED <<queue, completed, reader>>
  <2>1. /\ time' = time /\ holder' = holder /\ result' = result /\ reader' = reader
        /\ Truth' = Truth
    BY <1>1 DEF queue, Truth
  <2> QED
    BY <2>1 DEF ReaderInv, HistoryInv, OpenInv, LeaseInv, AnswerInv, ContextTruthful, Running
<1> QED
  BY <1>1, JobSteps, OperateKeepsReader, TickKeepsReader, ContextKeepsReader

\* A job's context, put together from three statements while leases come and go and the
\* job is completed, says what was so at some instant of the request.
THEOREM ContextIsTruthful == Spec => []ContextTruthful
<1>1. ReaderInv => ContextTruthful
  BY DEF ReaderInv
<1> QED
  BY <1>1, JobInvInit, JobInvStep, ReaderInvInit, ReaderInvStep, PTL DEF Spec

-----------------------------------------------------------------------------
(* Types.                                                                  *)


\* The trigger of migration 0007 numbers each event once, the next one by the next number.
OrderInv ==
  /\ order \in Seq(Nat)
  /\ \A i \in DOMAIN order : order[i] \in 1..Len(order)
  /\ \A i, k \in DOMAIN order : order[i] = order[k] => i = k
  /\ events \subseteq Nat /\ completed \subseteq events

RestInv ==
  /\ time \in 0..MaxTime
  /\ parked \in [{Job} -> SUBSET Nat]
  /\ evidence \subseteq EvidenceRow
  /\ proof \in ProofState
  /\ clients \subseteq Clients
  /\ faults \in 0..MaxFaults

LEMMA OrderInvInit == Init => OrderInv
BY ConstantsAssumption DEF Init, OrderInv

LEMMA OrderInvStep == OrderInv /\ [Next]_vars => OrderInv'
<1> SUFFICES ASSUME OrderInv, [Next]_vars PROVE OrderInv'
  OBVIOUS
<1>1. CASE UNCHANGED feed
  BY <1>1 DEF OrderInv, feed
<1>2. CASE \E terminal \in BOOLEAN : Log(terminal)
  <2> DEFINE id == Len(order) + 1
  <2>1. /\ order' = Append(order, id) /\ events' = events \cup {id}
        /\ completed' \subseteq completed \cup {id}
    BY <1>2 DEF Log
  <2>2. Len(order) \in Nat /\ order \in Seq(Nat) /\ id \in Nat
    BY DEF OrderInv
  <2>3. /\ order' \in Seq(Nat) /\ Len(order') = id /\ order'[id] = id
        /\ \A i \in 1..Len(order) : order'[i] = order[i]
    BY <2>1, <2>2
  <2>4. DOMAIN order' = 1..id /\ DOMAIN order = 1..Len(order)
    BY <2>2, <2>3
  <2>5. \A i \in 1..id : i = id \/ i \in 1..Len(order)
    BY <2>2
  <2>6. \A i \in 1..Len(order) : order'[i] \in 1..Len(order)
    BY <2>3, <2>4 DEF OrderInv
  <2>7. \A n \in 1..Len(order) : n \in 1..id /\ n # id
    BY <2>2
  <2>10. \A i \in DOMAIN order' : order'[i] \in 1..Len(order')
    <3>1. id \in 1..id
      BY <2>2
    <3> HIDE DEF id
    <3> QED
      BY <2>3, <2>4, <2>5, <2>6, <2>7, <3>1
  <2>8. ASSUME NEW i \in DOMAIN order', NEW k \in DOMAIN order', order'[i] = order'[k]
        PROVE  i = k
    <3>1. CASE i \in 1..Len(order) /\ k \in 1..Len(order)
      BY <2>3, <2>4, <2>8, <3>1 DEF OrderInv
    <3>2. CASE i = id \/ k = id
      <4> HIDE DEF id
      <4> QED
        BY <2>3, <2>4, <2>5, <2>6, <2>7, <2>8, <3>2
    <3> QED
      BY <2>4, <2>5, <3>1, <3>2
  <2>9. events' \subseteq Nat /\ completed' \subseteq events'
    BY <2>1, <2>2 DEF OrderInv
  <2> QED
    BY <2>3, <2>8, <2>9, <2>10 DEF OrderInv
<1> QED
  BY <1>1, <1>2, FeedSteps

LEMMA RestInvInit == Init => RestInv
BY ConstantsAssumption DEF Init, RestInv, Queue!Init, ProofState

\* A record that arrives leaves the evidence it brings, or the row that was there.
LEMMA EvidenceTyped ==
  ASSUME ReplicaInv, evidence \subseteq EvidenceRow, Deliver
  PROVE  evidence' \subseteq EvidenceRow
<1>1. PICK m \in inbox : Arrive(m)
  BY DEF Deliver
<1>2. m \in Message
  BY ConstantsAssumption DEF ReplicaInv
<1>3. CASE m.type = "evidence"
  <2>1. m.row \in EvidenceRow
    BY <1>2, <1>3 DEF Message
  <2> QED
    BY <1>1, <1>3, <2>1 DEF Arrive, KeptEvidence
<1>4. CASE m.type # "evidence"
  BY <1>1, <1>4 DEF Arrive
<1> QED
  BY <1>3, <1>4

LEMMA ProofTyped ==
  ASSUME proof \in ProofState, evidence \subseteq EvidenceRow, EvidenceStep \/ FailEvidence
  PROVE  proof' \in ProofState
<1>1. ASSUME NEW a \in {"VERIFIED", "LEGACY", "NOT_FOUND", "INTEGRITY_FAILED",
                        "STORE_UNAVAILABLE", "CORRUPTED"}
      PROVE  Verdict(a) \in ProofState
  BY <1>1 DEF Verdict, ProofState
<1>2. CASE AskEvidence
  BY <1>2 DEF AskEvidence, Prove, ProofState
<1>3. CASE ReadEvidence
  <2>1. proof' \in {Verdict("NOT_FOUND"), Verdict("LEGACY"),
                    [proof EXCEPT !.pc = "version", !.row = evidence]}
    BY <1>3 DEF ReadEvidence, Prove
  <2>2. [proof EXCEPT !.pc = "version", !.row = evidence] \in ProofState
    BY DEF ProofState, EvidenceRow
  <2> QED
    BY <1>1, <2>1, <2>2
<1>4. CASE ReadVersion
  <2>1. proof' \in {Verdict("NOT_FOUND"), Verdict("INTEGRITY_FAILED"), [proof EXCEPT !.pc = "object"]}
    BY <1>4 DEF ReadVersion, Prove
  <2>2. [proof EXCEPT !.pc = "object"] \in ProofState
    BY DEF ProofState
  <2> QED
    BY <1>1, <2>1, <2>2
<1>5. CASE ReadBytes
  <2>1. proof' \in {Verdict("VERIFIED"), Verdict("STORE_UNAVAILABLE")}
    BY <1>5 DEF ReadBytes, Prove
  <2> QED
    BY <1>1, <2>1
<1>6. CASE FailEvidence
  <2>1. PICK a \in {"STORE_UNAVAILABLE", "CORRUPTED"} : proof' = [Verdict(a) EXCEPT !.failed = TRUE]
    BY <1>6 DEF FailEvidence, Prove
  <2>2. Verdict(a) \in ProofState
    BY <1>1
  <2> QED
    BY <2>1, <2>2 DEF ProofState
<1> QED
  BY <1>2, <1>3, <1>4, <1>5, <1>6 DEF EvidenceStep

LEMMA ProofSteps ==
  ASSUME [Next]_vars
  PROVE  /\ clients' = clients
         /\ faults' = faults \/ Fault
         /\ \/ UNCHANGED proof
            \/ UNCHANGED replica /\ (EvidenceStep \/ FailEvidence)
<1>1. CASE Operate \/ Tick \/ Deliver
  BY <1>1 DEF Operate, Tick, Deliver, Arrive, asking
<1>2. CASE ConsumerStep \/ Interrupted
  BY <1>2 DEF ConsumerStep, Interrupted, Poll, CheckMapping, ReadPage, StoreReceipts, StoreCursor, Consume
<1>3. CASE ContextStep
  BY <1>3 DEF ContextStep, AskContext, ReadTerminal, ReadLease, DeriveState, ReadProposals, FailContext, Read
<1>4. CASE DocumentStep \/ FailDocument
  BY <1>4 DEF DocumentStep, Search, ReadVersions, ReadObject, SearchAgain, FailDocument, Look
<1>5. CASE EvidenceStep \/ FailEvidence
  BY <1>5 DEF EvidenceStep, AskEvidence, ReadEvidence, ReadVersion, ReadBytes, FailEvidence, Prove
<1>6. CASE UNCHANGED vars
  BY <1>6 DEF vars, asking
<1> QED
  BY <1>1, <1>2, <1>3, <1>4, <1>5, <1>6 DEF Next

LEMMA ClockTyped ==
  ASSUME RestInv, [Next]_vars
  PROVE  time' \in 0..MaxTime /\ parked' \in [{Job} -> SUBSET Nat]
<1>0. MaxTime \in Nat /\ time \in 0..MaxTime /\ parked \in [{Job} -> SUBSET Nat]
  BY ConstantsAssumption DEF RestInv
<1>1. CASE UNCHANGED queue
  BY <1>0, <1>1 DEF queue
<1>2. CASE Tick
  BY <1>0, <1>2 DEF Tick, Queue!Advance
<1>3. CASE Operate
  <2>1. /\ time' = time
        /\ \/ parked' = parked
           \/ \E t \in time..MaxTime : parked' = [parked EXCEPT ![Job] = {t}]
    BY <1>3 DEF Operate, Queue!Grant, Queue!Finish
  <2>2. \A t \in time..MaxTime : t \in Nat
    BY <1>0
  <2> QED
    BY <1>0, <2>1, <2>2
<1> QED
  BY <1>1, <1>2, <1>3, JobSteps

LEMMA RestInvStep == ReplicaInv /\ RestInv /\ [Next]_vars => RestInv'
<1> SUFFICES ASSUME ReplicaInv, RestInv, [Next]_vars PROVE RestInv'
  OBVIOUS
<1>1. time' \in 0..MaxTime /\ parked' \in [{Job} -> SUBSET Nat]
  BY ClockTyped
<1>2. clients' \subseteq Clients
  BY ProofSteps DEF RestInv
<1>3. faults' \in 0..MaxFaults
  BY ProofSteps, ConstantsAssumption DEF RestInv, Fault
<1>4. evidence' \subseteq EvidenceRow
  <2>1. CASE UNCHANGED replica
    BY <2>1 DEF RestInv, replica
  <2>2. CASE Deliver
    BY <2>2, EvidenceTyped DEF RestInv
  <2> QED
    BY <2>1, <2>2, ReplicaSteps
<1>5. proof' \in ProofState
  BY ProofSteps, ProofTyped DEF RestInv
<1> QED
  BY <1>1, <1>2, <1>3, <1>4, <1>5 DEF RestInv

\* Whatever arrives and however the requests interleave, every row and every local of a
\* request keeps its type, and the trigger of migration 0007 numbers no event twice.
THEOREM TypesAndNumbers == Spec => []TypeOK
<1>1. FeedInv /\ ReplicaInv /\ DocumentInv /\ JobInv /\ ReaderInv /\ OrderInv /\ RestInv => TypeOK
  <2>1. ReaderInv => reader \in ReaderState
    BY DEF ReaderInv, HistoryInv
  <2> QED
    BY <2>1 DEF FeedInv, ReplicaInv, DocumentInv, JobInv, OrderInv, RestInv, EvidenceRow, TypeOK
<1> QED
  BY <1>1, FeedInvInit, FeedInvStep, ReplicaInvInit, ReplicaInvStep, DocumentInvInit, DocumentInvStep,
     JobInvInit, JobInvStep, ReaderInvInit, ReaderInvStep, OrderInvInit, OrderInvStep,
     RestInvInit, RestInvStep, PTL DEF Spec

-----------------------------------------------------------------------------
(* Evidence.                                                               *)

Sound == evidence # {} /\ \A e \in evidence : e.v4

Arrived(s) == \A e \in References(s.inbox) : e.key \in DOMAIN versions

\* What a request has found so far stays as it found it, and so does what an earlier
\* one did that was answered VERIFIED.
ProofInv(s) ==
  /\ FromScenario(s)
  /\ proof \in ProofState
  /\ proof.row \subseteq References(s.inbox)
  /\ proof.pc \in {"version", "object"} => Sound
  /\ proof.pc = "object" => Arrived(s)
  /\ proof.verified => /\ Sound /\ Arrived(s)
                       /\ \A e \in References(s.inbox) : e.body \in bodies
  /\ VerifiedStays

EvidenceInv == \E s \in Scenarios : ProofInv(s)

LEMMA EvidenceInvInit == Init => EvidenceInv
<1> SUFFICES ASSUME Init PROVE EvidenceInv
  OBVIOUS
<1>1. PICK s \in Scenarios : inbox = s.inbox
  BY DEF Init
<1>2. FromScenario(s)
  BY <1>1 DEF Init, FromScenario
<1>3. proof = [pc |-> "idle", row |-> {}, failed |-> FALSE, verified |-> FALSE, answer |-> "NONE"]
  BY DEF Init
<1>4. proof \in ProofState
  BY <1>3 DEF ProofState
<1> QED
  BY <1>2, <1>3, <1>4 DEF EvidenceInv, ProofInv, VerifiedStays

\* Rows and bytes that arrive take nothing away from evidence that is there.
LEMMA EvidenceStays ==
  ASSUME NEW s \in Scenarios, [Next]_vars
  PROVE  /\ Sound => Sound'
         /\ Arrived(s) => Arrived(s)'
         /\ bodies \subseteq bodies'
<1>1. CASE UNCHANGED replica
  BY <1>1 DEF replica, Sound, Arrived
<1>2. CASE Deliver
  <2>1. PICK m \in inbox : Arrive(m)
    BY <1>2 DEF Deliver
  <2>2. Sound => Sound'
    BY <2>1 DEF Arrive, KeptEvidence, Sound
  <2>3. DOMAIN versions \subseteq DOMAIN versions' /\ bodies \subseteq bodies'
    BY <2>1 DEF Arrive
  <2> QED
    BY <2>2, <2>3 DEF Arrived
<1> QED
  BY <1>1, <1>2, ReplicaSteps

\* A verdict leaves nothing to disprove that is VERIFIED, the first one, or a failure's.
LEMMA VerdictKeeps ==
  ASSUME NEW s \in Scenarios, ProofInv(s), FromScenario(s)', proof' \in ProofState,
         NEW a, NEW f \in BOOLEAN, proof' = [Verdict(a) EXCEPT !.failed = f],
         proof.verified \/ a = "VERIFIED" =>
           Sound' /\ Arrived(s)' /\ \A e \in References(s.inbox) : e.body \in bodies',
         proof.verified /\ ~f => a = "VERIFIED"
  PROVE  ProofInv(s)'
<1>1. /\ proof'.pc = "done" /\ proof'.answer = a /\ proof'.row = {} /\ proof'.failed = f
      /\ proof'.verified <=> proof.verified \/ a = "VERIFIED"
  BY DEF Verdict, ProofInv, ProofState
<1>2. VerifiedStays'
  BY <1>1 DEF VerifiedStays
<1> QED
  BY <1>1, <1>2 DEF ProofInv

LEMMA ProofInvStep ==
  ASSUME NEW s \in Scenarios, FixedSource(s.inbox), RestInv, RestInv', ProofInv(s), [Next]_vars
  PROVE  ProofInv(s)'
<1> DEFINE refs == References(s.inbox)
           Stored == \A e \in refs : e.body \in bodies
<1>0. /\ FromScenario(s) /\ FromScenario(s)'
      /\ (Sound => Sound') /\ (Arrived(s) => Arrived(s)') /\ (Stored => Stored')
      /\ proof \in ProofState /\ proof' \in ProofState /\ proof.failed \in BOOLEAN
      /\ proof.verified => Sound /\ Arrived(s) /\ Stored
      /\ proof.verified => Sound' /\ Arrived(s)' /\ Stored'
  BY EvidenceStays, ScenarioStays DEF RestInv, ProofInv, ProofState
<1>1. CASE UNCHANGED proof
  BY <1>0, <1>1 DEF ProofInv, VerifiedStays
<1>2. CASE UNCHANGED replica /\ (EvidenceStep \/ FailEvidence)
  <2>0. /\ evidence' = evidence /\ versions' = versions /\ bodies' = bodies
        /\ \A a : Verdict(a) = [Verdict(a) EXCEPT !.failed = proof.failed]
    BY <1>0, <1>2 DEF replica, Verdict, ProofState
  <2>1. CASE AskEvidence
    <3>1. proof' = [proof EXCEPT !.pc = "evidence", !.answer = "NONE", !.failed = FALSE]
      BY <2>1 DEF AskEvidence, Prove
    <3>2. proof'.pc = "evidence" /\ proof'.row = proof.row /\ proof'.verified = proof.verified
      BY <1>0, <3>1 DEF ProofState
    <3> QED
      BY <1>0, <3>2 DEF ProofInv, VerifiedStays
  <2>2. CASE ReadEvidence
    <3>1. CASE evidence = {} \/ \E e \in evidence : ~e.v4
      <4>1. ~Sound /\ ~proof.verified
        BY <1>0, <3>1 DEF Sound
      <4>2. PICK a \in {"NOT_FOUND", "LEGACY"} : proof' = Verdict(a)
        BY <2>2, <3>1 DEF ReadEvidence, Prove
      <4> QED
        BY <1>0, <2>0, <4>1, <4>2, VerdictKeeps
    <3>2. CASE evidence # {} /\ \A e \in evidence : e.v4
      <4>1. proof' = [proof EXCEPT !.pc = "version", !.row = evidence]
        BY <2>2, <3>2 DEF ReadEvidence, Prove
      <4>2. proof'.pc = "version" /\ proof'.row = evidence /\ proof'.verified = proof.verified
        BY <1>0, <4>1 DEF ProofState
      <4>3. Sound' /\ evidence \subseteq refs
        BY <1>0, <3>2 DEF Sound, FromScenario
      <4> QED
        BY <1>0, <4>2, <4>3 DEF ProofInv, VerifiedStays
    <3> QED
      BY <3>1, <3>2
  <2>3. CASE ReadVersion
    <3>1. PICK e \in proof.row :
            Prove(IF e.key \notin DOMAIN versions THEN Verdict("NOT_FOUND")
                  ELSE IF ReferredBody(versions[e.key], e) # {e.body} THEN Verdict("INTEGRITY_FAILED")
                  ELSE [proof EXCEPT !.pc = "object"])
      BY <2>3 DEF ReadVersion
    <3>2. e \in refs /\ Sound
      BY <2>3 DEF ProofInv, ReadVersion
    <3>3. CASE e.key \notin DOMAIN versions
      <4>1. proof' = Verdict("NOT_FOUND") /\ ~proof.verified
        BY <1>0, <3>1, <3>2, <3>3 DEF Prove, Arrived
      <4> QED
        BY <1>0, <2>0, <4>1, VerdictKeeps
    <3>4. CASE e.key \in DOMAIN versions
      <4>1. PICK m \in s.inbox : m.type = "document_version" /\ m.key = e.key /\ m.version = versions[e.key]
        BY <1>0, <3>4 DEF FromScenario
      <4>2. ReferredBody(versions[e.key], e) = {e.body}
        BY <3>2, <4>1 DEF FixedSource
      <4>3. proof' = [proof EXCEPT !.pc = "object"]
        BY <3>1, <3>4, <4>2 DEF Prove
      <4>4. proof'.pc = "object" /\ proof'.row = proof.row /\ proof'.verified = proof.verified
        BY <1>0, <4>3 DEF ProofState
      <4>5. \A f \in refs : f = e
        BY <3>2 DEF FixedSource
      <4>6. Arrived(s)
        BY <3>4, <4>5 DEF Arrived
      <4> QED
        BY <1>0, <3>2, <4>4, <4>6 DEF ProofInv, VerifiedStays
    <3> QED
      BY <3>3, <3>4
  <2>4. CASE ReadBytes
    <3>1. PICK e \in proof.row :
            proof' = Verdict(IF e.body \in bodies THEN "VERIFIED" ELSE "STORE_UNAVAILABLE")
      BY <2>4 DEF ReadBytes, Prove
    <3>2. Sound /\ Arrived(s) /\ e \in refs
      BY <2>4 DEF ReadBytes, ProofInv
    <3>3. CASE e.body \in bodies
      <4>1. Stored'
        BY <1>0, <3>2, <3>3 DEF FixedSource
      <4> QED
        BY <1>0, <2>0, <3>1, <3>2, <3>3, <4>1, VerdictKeeps
    <3>4. CASE e.body \notin bodies
      <4>1. ~proof.verified
        BY <1>0, <3>2, <3>4
      <4> QED
        BY <1>0, <2>0, <3>1, <3>4, <4>1, VerdictKeeps
    <3> QED
      BY <3>3, <3>4
  <2>5. CASE FailEvidence
    <3>1. PICK a \in {"CORRUPTED", "STORE_UNAVAILABLE"} : proof' = [Verdict(a) EXCEPT !.failed = TRUE]
      BY <2>5 DEF FailEvidence, Prove
    <3> QED
      BY <1>0, <3>1, VerdictKeeps
  <2> QED
    BY <1>2, <2>1, <2>2, <2>3, <2>4, <2>5 DEF EvidenceStep
<1> QED
  BY <1>1, <1>2, ProofSteps

\* No scenario sends another source for its evidence.
SourcesFixed == \A s \in Scenarios : FixedSource(s.inbox)

\* Evidence that a request found VERIFIED every later one finds VERIFIED, but where a call
\* or the bytes fail in that request, however late or old the envelopes and the rows of
\* its version that arrive since, if its source is fixed.
THEOREM VerifiedEvidenceStays ==
  ASSUME SourcesFixed
  PROVE  Spec => []VerifiedStays
<1>1. EvidenceInv => VerifiedStays
  BY DEF EvidenceInv, ProofInv
<1>2. RestInv /\ RestInv' /\ EvidenceInv /\ [Next]_vars => EvidenceInv'
  BY ProofInvStep DEF EvidenceInv, SourcesFixed
<1> QED
  BY <1>1, <1>2, ReplicaInvInit, ReplicaInvStep, RestInvInit, RestInvStep, EvidenceInvInit, PTL DEF Spec

-----------------------------------------------------------------------------
(* The receipt feed implements the log.                                    *)

\* A bounded set of numbers that is not empty has a largest.
LEMMA LargestExists ==
  ASSUME NEW b \in Nat, NEW S, S \subseteq 0..b, NEW s \in S
  PROVE  \E m \in S : \A n \in S : m >= n
<1> DEFINE Away == {b - n : n \in S}
<1>1. Away \subseteq Nat /\ b - s \in Away
  <2>1. \A n \in S : b - n \in Nat
    OBVIOUS
  <2> QED
    BY <2>1
<1>2. IsWellFoundedOn(OpToRel(<, Nat), Nat)
  BY NatLessThanWellFounded
<1> HIDE DEF Away
<1>3. PICK x \in Away : \A y \in Away : ~(<<y, x>> \in OpToRel(<, Nat))
  BY <1>1, <1>2, WFMin
<1>4. \A y \in Away : ~(y < x)
  BY <1>1, <1>3 DEF OpToRel
<1>5. PICK m \in S : x = b - m
  BY DEF Away
<1>6. ASSUME NEW n \in S PROVE m >= n
  <2>1. ~(b - n < b - m)
    BY <1>4, <1>5 DEF Away
  <2>2. n \in Nat /\ m \in Nat
    OBVIOUS
  <2> QED
    BY <2>1, <2>2
<1> QED
  BY <1>6

\* Taken is the longest stretch from the front that the consumer holds.
TakenRules ==
  /\ Taken \in 0..Len(order)
  /\ Through(order, Taken, consumer.held)
  /\ \A n : Through(order, n, consumer.held) => n <= Taken

LEMMA TakenIs == FeedInv => TakenRules
<1> SUFFICES ASSUME FeedInv PROVE TakenRules
  OBVIOUS
<1> DEFINE S == {n \in 0..Len(order) : \A i \in 1..n : order[i] \in consumer.held}
<1>1. Len(order) \in Nat /\ S \subseteq 0..Len(order) /\ 0 \in S
  BY DEF FeedInv
<1>2. \A n : n \in S <=> Through(order, n, consumer.held)
  BY DEF Through
<1>3. Taken = Max(S)
  BY DEF Taken
<1> HIDE DEF S
<1>4. \E m \in S : \A n \in S : m >= n
  BY <1>1, LargestExists
<1>5. Taken \in S /\ \A n \in S : Taken >= n
  BY <1>3, <1>4 DEF Max
<1>6. \A n \in S : n \in Nat
  BY <1>1
<1> QED
  BY <1>1, <1>2, <1>5, <1>6 DEF TakenRules

LEMMA TakenIsNext == FeedInv' => TakenRules'
BY TakenIs, PTL

\* The consumer holds receipts of events there are.
HeldInv ==
  /\ consumer.held \subseteq 1..Len(order)
  /\ \A i \in DOMAIN consumer.page : consumer.page[i] \in 1..Len(order)
  /\ Len(order) <= MaxEvents

LEMMA HeldInvInit == Init => HeldInv
<1> SUFFICES ASSUME Init PROVE HeldInv
  OBVIOUS
<1>1. PICK s \in Scenarios :
        consumer = [pc |-> "idle", cursor |-> s.cursor, held |-> s.held, limit |-> 0,
                    page |-> <<>>, next |-> NoCursor]
  BY DEF Init
<1>2. order = Snapshot
  BY DEF Init
<1> QED
  BY <1>1, <1>2, CursorAssumption, ConstantsAssumption DEF HeldInv

LEMMA HeldInvStep == FeedInv /\ OrderInv /\ HeldInv /\ [Next]_vars => HeldInv'
<1> SUFFICES ASSUME FeedInv, OrderInv, HeldInv, [Next]_vars PROVE HeldInv'
  OBVIOUS
<1>0. order \in Seq(Nat) /\ Len(order) \in Nat /\ consumer \in ConsumerState
  BY DEF FeedInv
<1>1. CASE UNCHANGED <<feed, consumer>>
  BY <1>1 DEF HeldInv, feed
<1>2. CASE UNCHANGED consumer /\ \E terminal \in BOOLEAN : Log(terminal)
  <2>1. Len(order') = Len(order) + 1 /\ Len(order) + 1 <= MaxEvents
    BY <1>0, <1>2 DEF Log
  <2>2. \A n \in 1..Len(order) : n \in 1..Len(order')
    BY <1>0, <2>1
  <2> QED
    BY <1>2, <2>1, <2>2 DEF HeldInv
<1>3. CASE UNCHANGED feed /\ (ConsumerStep \/ Interrupted)
  <2>0. order' = order
    BY <1>3 DEF feed
  <2>1. CASE Poll \/ CheckMapping
    BY <1>0, <2>0, <2>1 DEF Poll, CheckMapping, Consume, HeldInv, ConsumerState
  <2>2. CASE ReadPage
    <3> DEFINE from == Position(consumer.cursor)
               last == Min({from + consumer.limit, Len(order)})
               page == SubSeq(order, from + 1, last)
    <3>1. from \in Nat /\ from <= Len(order) /\ consumer.limit \in Nat
      BY <1>0 DEF FeedInv, Through, ConsumerState
    <3>2. consumer' = [consumer EXCEPT !.pc = "answer", !.page = page, !.next = NextSince(consumer.cursor, page)]
      BY <2>2 DEF ReadPage, Consume
    <3> HIDE DEF from
    <3>3. last \in Nat /\ from <= last /\ last <= Len(order)
      <4>1. from + consumer.limit \in Nat
        BY <3>1
      <4>2. last \in {from + consumer.limit, Len(order)} /\ last <= Len(order)
        BY <1>0, <4>1, MinOfTwo
      <4> QED
        BY <1>0, <3>1, <4>1, <4>2
    <3> HIDE DEF last
    <3>4. /\ page \in Seq(Nat) /\ Len(page) = last - from
          /\ \A i \in 1..last - from : page[i] = order[from + i]
      BY <1>0, <3>1, <3>3, PageIsStretch
    <3> HIDE DEF page
    <3>5. ASSUME NEW i \in DOMAIN page PROVE page[i] \in 1..Len(order)
      <4>1. i \in 1..last - from
        BY <3>4
      <4>2. from + i \in 1..Len(order)
        BY <1>0, <3>1, <3>3, <4>1
      <4>3. from + i \in DOMAIN order
        BY <1>0, <4>2
      <4> QED
        BY <3>4, <4>1, <4>3 DEF OrderInv
    <3>6. consumer'.page = page /\ consumer'.held = consumer.held
      BY <1>0, <3>2 DEF ConsumerState
    <3> QED
      BY <2>0, <3>5, <3>6 DEF HeldInv
  <2>3. CASE StoreReceipts \/ StoreCursor \/ Interrupted
    <3>1. /\ consumer'.held \subseteq consumer.held \cup {consumer.page[i] : i \in DOMAIN consumer.page}
          /\ consumer'.page = <<>> \/ consumer'.page = consumer.page
      BY <1>0, <2>3 DEF StoreReceipts, StoreCursor, Interrupted, Consume, ConsumerState
    <3> QED
      BY <2>0, <3>1 DEF HeldInv
  <2> QED
    BY <1>3, <2>1, <2>2, <2>3 DEF ConsumerStep
<1> QED
  BY <1>1, <1>2, <1>3, FeedSteps

LEMMA LogWrites ==
  ASSUME FeedInv, FeedInv', HeldInv, UNCHANGED consumer, NEW terminal \in BOOLEAN, Log(terminal)
  PROVE  Receipts!Write
<1>1. order \in Seq(Nat) /\ Len(order) \in Nat /\ order' \in Seq(Nat)
  BY DEF FeedInv
<1>2. TakenRules /\ TakenRules'
  BY TakenIs, TakenIsNext
<1> DEFINE e == Len(order) + 1
<1>3. order' = Append(order, e) /\ e <= MaxEvents
  BY DEF Log
<1>4. Len(order') = e /\ order'[e] = e /\ e \notin consumer.held
  BY <1>1, <1>3 DEF HeldInv
<1>5. Through(order', Taken, consumer.held)
  BY <1>1, <1>2, LogExtends DEF TakenRules
<1>6. Through(order, Taken', consumer.held)
  <2>1. Taken' \in 0..e /\ \A i \in 1..Taken' : order'[i] \in consumer.held
    BY <1>2, <1>4 DEF TakenRules, Through
  <2>2. Taken' # e
    BY <1>1, <1>4, <2>1
  <2>3. Taken' \in 0..Len(order)
    BY <1>1, <2>1, <2>2
  <2>4. \A i \in 1..Taken' : order'[i] = order[i]
    BY <1>1, <1>3, <2>3
  <2> QED
    BY <2>1, <2>3, <2>4 DEF Through
<1>7. Taken <= Taken' /\ Taken' <= Taken
  BY <1>2, <1>5, <1>6 DEF TakenRules
<1>8. Taken \in Nat /\ Taken' \in Nat
  BY <1>1, <1>2 DEF TakenRules
<1>9. Taken' = Taken
  BY <1>7, <1>8
<1>10. e \in 1..MaxEvents
  BY <1>1, <1>3, ConstantsAssumption
<1> QED
  BY <1>3, <1>9, <1>10 DEF Receipts!Write

LEMMA ConsumerTakes ==
  ASSUME FeedInv, FeedInv', UNCHANGED feed, ConsumerStep \/ Interrupted
  PROVE  Receipts!Take \/ UNCHANGED <<order, Taken>>
<1>1. order \in Seq(Nat) /\ order' = order /\ Len(order) \in Nat /\ consumer \in ConsumerState
  BY DEF FeedInv, feed
<1>2. TakenRules /\ TakenRules'
  BY TakenIs, TakenIsNext
<1>3. consumer.held \subseteq consumer'.held
  BY <1>1 DEF ConsumerStep, Interrupted, Poll, CheckMapping, ReadPage, StoreReceipts, StoreCursor,
              Consume, ConsumerState
<1>4. Through(order', Taken, consumer'.held)
  BY <1>1, <1>2, <1>3 DEF TakenRules, Through
<1>5. Taken <= Taken' /\ Taken \in 0..Len(order) /\ Taken' \in 0..Len(order)
  BY <1>1, <1>2, <1>4 DEF TakenRules
<1>6. CASE Taken' = Taken
  BY <1>1, <1>6
<1>7. CASE Taken' # Taken
  <2>1. Taken' \in (Taken + 1)..Len(order)
    BY <1>1, <1>5, <1>7
  <2> QED
    BY <1>1, <2>1 DEF Receipts!Take
<1> QED
  BY <1>6, <1>7

\* The feed with its consumer is the log of ReceiptLog, but for its liveness: events are
\* only appended, and the consumer takes them from the front without a gap, wherever its
\* cursor is from, however pages and appends interleave, answers are lost or it restarts.
THEOREM FeedImplementsLog == Spec => Receipts!Init /\ [][Receipts!Next]_(Receipts!vars)
<1>1. Init => Receipts!Init
  <2> SUFFICES ASSUME Init PROVE Receipts!Init
    OBVIOUS
  <2>1. order \in [1..Len(order) -> 1..MaxEvents] /\ Len(order) \in Nat
    <3>1. order \in Seq(Nat) /\ Len(order) <= MaxEvents /\ \A i \in 1..Len(order) : order[i] \in 1..Len(order)
      BY ConstantsAssumption DEF Init
    <3>2. \A n \in 1..Len(order) : n \in 1..MaxEvents
      BY <3>1, ConstantsAssumption
    <3>3. order = [i \in 1..Len(order) |-> order[i]]
      BY <3>1
    <3> QED
      BY <3>1, <3>2, <3>3
  <2>2. order \in Seq(1..MaxEvents)
    BY <2>1, SeqDef
  <2>3. Taken \in 0..Len(order)
    BY FeedInvInit, TakenIs DEF TakenRules
  <2> QED
    BY <2>2, <2>3 DEF Receipts!Init
<1>2. FeedInv /\ FeedInv' /\ HeldInv /\ [Next]_vars => [Receipts!Next]_(Receipts!vars)
  <2> SUFFICES ASSUME FeedInv, FeedInv', HeldInv, [Next]_vars
               PROVE  Receipts!Next \/ UNCHANGED <<order, Taken>>
    BY DEF Receipts!vars
  <2>1. CASE UNCHANGED <<feed, consumer>>
    BY <2>1 DEF feed, Taken
  <2>2. CASE UNCHANGED consumer /\ \E terminal \in BOOLEAN : Log(terminal)
    BY <2>2, LogWrites DEF Receipts!Next
  <2>3. CASE UNCHANGED feed /\ (ConsumerStep \/ Interrupted)
    BY <2>3, ConsumerTakes DEF Receipts!Next
  <2> QED
    BY <2>1, <2>2, <2>3, FeedSteps
<1> QED
  BY <1>1, <1>2, FeedInvInit, FeedInvStep, OrderInvInit, OrderInvStep, HeldInvInit, HeldInvStep, PTL DEF Spec
=============================================================================
