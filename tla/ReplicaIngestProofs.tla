------------------------ MODULE ReplicaIngestProofs ------------------------
(***************************************************************************)
(* Theorems about ReplicaIngest, for every set of messages, deliveries and *)
(* contents, every scenario, every limit and every bound.                  *)
(***************************************************************************)
EXTENDS ReplicaIngest, FiniteSetTheorems, TLAPS

-----------------------------------------------------------------------------
(* The tables.                                                             *)

\* Appending extends a sequence and changes none of its elements.
LEMMA AppendExtends ==
  ASSUME NEW S, NEW s \in Seq(S), NEW x \in S
  PROVE  /\ Append(s, x) \in Seq(S)
         /\ DOMAIN Append(s, x) = 1..(Len(s) + 1) /\ DOMAIN s = 1..Len(s)
         /\ \A i \in DOMAIN s : Append(s, x)[i] = s[i]
         /\ Append(s, x)[Len(s) + 1] = x
BY SMT

\* An upsert keeps the primary key.
LEMMA UpsertIsKeyed ==
  ASSUME NEW rows \in SUBSET Messages, NEW m \in Messages,
         \A x, y \in rows : SameRecord(x, y) => x = y
  PROVE  /\ Upsert(rows, m) \in SUBSET Messages
         /\ \A x, y \in Upsert(rows, m) : SameRecord(x, y) => x = y
BY SMT DEF Upsert, SameRecord

\* An upsert leaves a row under every key that had one, and under its own.
LEMMA UpsertCovers ==
  ASSUME NEW rows \in SUBSET Messages, NEW m \in Messages
  PROVE  /\ \E row \in Upsert(rows, m) : SameRecord(row, m)
         /\ \A old \in rows : \E row \in Upsert(rows, m) : SameRecord(row, old)
BY SMT DEF Upsert, SameRecord

\* An upsert keeps a complete evidence record complete.
LEMMA UpsertKeepsComplete ==
  ASSUME NEW rows \in SUBSET Messages, NEW m \in Messages, NEW old \in rows,
         old.type = "evidence", old.schema = "v4",
         \A x, y \in rows : SameRecord(x, y) => x = y
  PROVE  \E row \in Upsert(rows, m) : SameRecord(row, old) /\ row.schema = "v4"
BY SMT DEF Upsert, SameRecord, Kept

\* What is upserted is the row of its key, unless a complete record was kept.
LEMMA UpsertStores ==
  ASSUME NEW rows \in SUBSET Messages, NEW m \in Messages, m.schema = "v4"
  PROVE  m \in Upsert(rows, m)
BY SMT DEF Upsert, Kept
-----------------------------------------------------------------------------
(* Typing.  TypeOK is inductive by itself.                                 *)

\* The moves of a delivery are typed.
LEMMA MoveType ==
  ASSUME TypeOK, NEW d \in Deliveries, NEW rec \in Delivery,
         del' = [del EXCEPT ![d] = rec]
  PROVE  del' \in [Deliveries -> Delivery]
BY DEF TypeOK

LEMMA GoType ==
  ASSUME TypeOK, NEW d \in Deliveries, NEW pc \in Steps, Go(d, pc)
  PROVE  del' \in [Deliveries -> Delivery]
<1> DEFINE rec == [del[d] EXCEPT !.pc = pc]
<1>1. del[d] \in Delivery
  BY DEF TypeOK
<1>2. rec \in Delivery
  BY <1>1 DEF Delivery
<1>3. del' = [del EXCEPT ![d] = rec]
  BY DEF Go
<1> QED
  BY <1>2, <1>3, MoveType

LEMMA AnswerType ==
  ASSUME TypeOK, NEW d \in Deliveries, NEW a \in Answers, Answer(d, a)
  PROVE  del' \in [Deliveries -> Delivery]
<1> DEFINE rec == [del[d] EXCEPT !.pc = "done", !.answer = a]
<1>1. del[d] \in Delivery
  BY DEF TypeOK
<1>2. rec \in Delivery
  BY <1>1 DEF Delivery, Steps
<1>3. del' = [del EXCEPT ![d] = rec]
  BY DEF Answer
<1> QED
  BY <1>2, <1>3, MoveType

\* A statement that returns, or does not, is typed if what it goes on to is.
LEMMA ReturnsType ==
  ASSUME TypeOK, NEW d \in Deliveries, NEW next, Returns(d, next),
         next => del' \in [Deliveries -> Delivery]
  PROVE  del' \in [Deliveries -> Delivery] /\ faults' \in 0..MaxFaults
<1>1. CASE next /\ UNCHANGED faults
  BY <1>1 DEF TypeOK
<1>2. CASE faults < MaxFaults /\ faults' = faults + 1 /\ Go(d, "failing")
  <2>1. "failing" \in Steps
    BY DEF Steps
  <2>2. faults' \in 0..MaxFaults
    BY <1>2, ConstantsAssumption, SMT DEF TypeOK, ConstantsAssumption
  <2> QED
    BY <1>2, <2>1, <2>2, GoType
<1> QED
  BY <1>1, <1>2 DEF Returns

\* A fault is counted within its bound.
LEMMA FaultType ==
  ASSUME TypeOK, faults < MaxFaults, faults' = faults + 1
  PROVE  faults' \in 0..MaxFaults
BY ConstantsAssumption, SMT DEF TypeOK, ConstantsAssumption

\* The put history stays a count.
LEMMA CountType ==
  ASSUME TypeOK, NEW d \in Deliveries, CountPut(d)
  PROVE  puts' \in [Months -> Nat]
<1>1. puts \in [Months -> Nat]
  BY DEF TypeOK
<1>2. \A m \in Months : puts[m] + 1 \in Nat
  BY <1>1
<1> QED
  BY <1>1, <1>2 DEF CountPut

LEMMA InitType == Init => TypeOK
<1> SUFFICES ASSUME Init PROVE TypeOK
  OBVIOUS
<1>1. message \in [Deliveries -> Messages]
  BY ConstantsAssumption DEF Init, ConstantsAssumption
<1>2. del \in [Deliveries -> Delivery]
  <2>1. 0 \in 0..MaxMonth
    BY ConstantsAssumption DEF ConstantsAssumption
  <2> QED
    BY <2>1 DEF Init, Delivery, Steps, Answers
<1>3. messages \in Seq(Messages) /\ \A i, k \in DOMAIN messages : messages[i] = messages[k] => i = k
  BY SMT DEF Init
<1>4. usage \in Usage /\ health \in Health
  <2>1. 0 \in 0..MaxMonth
    BY ConstantsAssumption DEF ConstantsAssumption
  <2>2. usage \in Usage
    BY <2>1 DEF Init, Usage
  <2>3. health \in Health
    BY <2>1 DEF Init, Health
  <2> QED
    BY <2>2, <2>3
<1>5. month \in Months /\ faults \in 0..MaxFaults /\ puts \in [Months -> Nat]
  BY ConstantsAssumption, SMT DEF Init, Months, ConstantsAssumption
<1> QED
  BY <1>1, <1>2, <1>3, <1>4, <1>5 DEF Init, TypeOK
\* Every step is typed: one case per action.
LEMMA StepType == TypeOK /\ [Next]_vars => TypeOK'
<1> SUFFICES ASSUME TypeOK, [Next]_vars PROVE TypeOK'
  OBVIOUS
<1>1. CASE UNCHANGED vars
  BY <1>1 DEF TypeOK, vars, logical, blobs
<1>2. CASE NextMonth
  <2>1. month' \in Months
    BY <1>2, ConstantsAssumption, SMT DEF NextMonth, TypeOK, Months, ConstantsAssumption
  <2> QED
    BY <1>2, <2>1 DEF NextMonth, TypeOK, logical, blobs
<1>3. ASSUME NEW d \in Deliveries, Ingest(d) PROVE TypeOK'
  <2> USE <1>3
  <2>0. message[d] \in Messages /\ del[d] \in Delivery /\ Content(d) \subseteq Contents
    BY ConstantsAssumption DEF TypeOK, Content, ConstantsAssumption, Message
  <2>1. CASE Start(d)
    <3> DEFINE rec == [del[d] EXCEPT !.pc = "replay", !.now = month]
    <3>1. rec \in Delivery
      <4>1. month \in 0..MaxMonth
        BY ConstantsAssumption, SMT DEF TypeOK, Months, ConstantsAssumption
      <4> QED
        BY <2>0, <4>1 DEF Delivery, Steps
    <3>2. del' = [del EXCEPT ![d] = rec]
      BY <2>1 DEF Start
    <3>3. del' \in [Deliveries -> Delivery]
      BY <3>1, <3>2, MoveType
    <3> QED
      BY <2>1, <3>3 DEF Start, TypeOK, logical, blobs
  <2>2. CASE ReadReplay(d)
    <3>1. del' \in [Deliveries -> Delivery]
      BY <2>2, GoType, AnswerType DEF ReadReplay, Steps, Answers
    <3> QED
      BY <2>2, <3>1 DEF ReadReplay, TypeOK, logical, blobs
  <2>3. CASE Rollover(d)
    <3>1. Go(d, "reserve") => del' \in [Deliveries -> Delivery]
      BY GoType DEF Steps
    <3>2. del' \in [Deliveries -> Delivery] /\ faults' \in 0..MaxFaults
      BY <2>3, <3>1, ReturnsType DEF Rollover
    <3>3. usage' \in Usage
      BY <2>0, <2>3 DEF Rollover, TypeOK, Usage, Delivery
    <3> QED
      BY <2>3, <3>2, <3>3 DEF Rollover, TypeOK, logical, blobs
  <2>4. CASE Reserve(d)
    <3>1. Go(d, "journal") => del' \in [Deliveries -> Delivery]
      BY GoType DEF Steps
    <3>2. del' \in [Deliveries -> Delivery] /\ faults' \in 0..MaxFaults
      BY <2>4, <3>1, ReturnsType DEF Reserve
    <3>3. BytesOf(d) \in Nat /\ WritesOf(d) \in Nat
      <4>1. JournalBytes[message[d]] \in Nat /\ ObjectBytes[Content(d)] \in Nat
        BY <2>0, ConstantsAssumption DEF ConstantsAssumption
      <4> QED
        BY <4>1, SMT DEF BytesOf, WritesOf
    <3>4. usage' \in Usage
      <4>1. usage.stored + BytesOf(d) \in Nat /\ usage.writes + WritesOf(d) \in Nat
        BY <3>3, SMT DEF TypeOK, Usage
      <4> QED
        BY <2>4, <4>1 DEF Reserve, TypeOK, Usage
    <3> QED
      BY <2>4, <3>2, <3>4 DEF Reserve, TypeOK, logical, blobs
  <2>5. CASE ReserveRefused(d)
    <3>1. del' \in [Deliveries -> Delivery]
      BY <2>5, AnswerType DEF ReserveRefused, Answers
    <3> QED
      BY <2>5, <3>1 DEF ReserveRefused, TypeOK, logical, blobs
  <2>6. CASE PutJournal(d)
    <3>1. Go(d, IF Content(d) = {} THEN "batch" ELSE "object") => del' \in [Deliveries -> Delivery]
      BY GoType DEF Steps
    <3>2. del' \in [Deliveries -> Delivery] /\ faults' \in 0..MaxFaults
      BY <2>6, <3>1, ReturnsType DEF PutJournal
    <3>3. puts' \in [Months -> Nat]
      BY <2>6, CountType DEF PutJournal
    <3> QED
      BY <2>0, <2>6, <3>2, <3>3 DEF PutJournal, TypeOK, logical, blobs
  <2>7. CASE PutObject(d)
    <3>1. Go(d, "batch") => del' \in [Deliveries -> Delivery]
      BY GoType DEF Steps
    <3>2. del' \in [Deliveries -> Delivery] /\ faults' \in 0..MaxFaults
      BY <2>7, <3>1, ReturnsType DEF PutObject
    <3>3. puts' \in [Months -> Nat]
      BY <2>7, CountType DEF PutObject
    <3> QED
      BY <2>0, <2>7, <3>2, <3>3 DEF PutObject, TypeOK, logical, blobs
  <2>8. CASE Batch(d)
    <3> DEFINE new == ~Ingested(message[d])
               rec == [del[d] EXCEPT !.pc = "health", !.inserted = new]
               next == del' = [del EXCEPT ![d].pc = "health", ![d].inserted = new]
    <3>1. rec \in Delivery
      <4>1. \A b \in BOOLEAN : [del[d] EXCEPT !.pc = "health", !.inserted = b] \in Delivery
        BY <2>0 DEF Delivery, Steps
      <4>2. new \in BOOLEAN
        BY DEF Ingested
      <4> HIDE DEF new
      <4> QED
        BY ONLY <4>1, <4>2, Zenon
    <3>2. next => del' \in [Deliveries -> Delivery]
      <4>1. next => del' = [del EXCEPT ![d] = rec]
        OBVIOUS
      <4> HIDE DEF rec, next
      <4> QED
        BY <3>1, <4>1, MoveType
    <3>3. del' \in [Deliveries -> Delivery] /\ faults' \in 0..MaxFaults
      BY <2>8, <3>2, ReturnsType DEF Batch
    <3>4. /\ messages' \in Seq(Messages)
          /\ \A i, k \in DOMAIN messages' : messages'[i] = messages'[k] => i = k
      <4>1. CASE Ingested(message[d])
        BY <2>8, <4>1 DEF Batch, TypeOK
      <4>2. CASE ~Ingested(message[d])
        <5>1. messages' = Append(messages, message[d])
          BY <2>8, <4>2 DEF Batch
        <5> QED
          BY <2>0, <4>2, <5>1, AppendExtends, SMT DEF TypeOK, Ingested
      <4> QED
        BY <4>1, <4>2
    <3>5. /\ records' \subseteq Messages
          /\ \A m, n \in records' : SameRecord(m, n) => m = n
      <4>1. records' = Upsert(records, message[d])
        BY <2>8 DEF Batch
      <4> QED
        BY <2>0, <4>1, UpsertIsKeyed DEF TypeOK
    <3>6. objects' \subseteq Contents
      BY <2>0, <2>8 DEF Batch, TypeOK, Content
    <3>7. links' \subseteq Keys \X Contents
      <4>1. message[d].key \in Keys /\ message[d].links \subseteq Contents
        BY <2>0, ConstantsAssumption DEF ConstantsAssumption, Message
      <4>2. LinksOf(message[d]) \subseteq Keys \X Contents
        BY <4>1 DEF LinksOf
      <4> QED
        BY <2>8, <4>2 DEF Batch, TypeOK
    <3> QED
      BY <2>8, <3>3, <3>4, <3>5, <3>6, <3>7 DEF Batch, TypeOK, blobs
  <2>9. CASE UpdateHealth(d)
    <3>1. Answer(d, Outcome(d)) => del' \in [Deliveries -> Delivery]
      BY AnswerType DEF Answers, Outcome
    <3>2. del' \in [Deliveries -> Delivery] /\ faults' \in 0..MaxFaults
      BY <2>9, <3>1, ReturnsType DEF UpdateHealth
    <3>3. health.accepted + (IF del[d].inserted THEN 1 ELSE 0) \in Nat
      BY SMT DEF TypeOK, Health
    <3>4. health' \in Health
      BY <2>0, <2>9, <3>3 DEF UpdateHealth, Health, Delivery
    <3> QED
      BY <2>9, <3>2, <3>4 DEF UpdateHealth, TypeOK, logical, blobs
  <2>10. CASE Throw(d)
    <3>1. del' \in [Deliveries -> Delivery] /\ faults' \in 0..MaxFaults
      BY <2>10, GoType, FaultType DEF Throw, Steps
    <3> QED
      BY <2>10, <3>1 DEF Throw, TypeOK, logical, blobs
  <2>11. CASE Fail(d)
    <3>1. del' \in [Deliveries -> Delivery] /\ faults' \in 0..MaxFaults
      BY <2>11, AnswerType, FaultType DEF Fail, Answers, TypeOK
    <3>2. health' \in Health
      BY <2>0, <2>11 DEF Fail, TypeOK, Health, Delivery
    <3> QED
      BY <2>11, <3>1, <3>2 DEF Fail, TypeOK, logical, blobs
  <2> QED
    BY <2>1, <2>2, <2>3, <2>4, <2>5, <2>6, <2>7, <2>8, <2>9, <2>10, <2>11 DEF Ingest
<1> QED
  BY <1>1, <1>2, <1>3 DEF Next

\* Every table, blob and local keeps its type, and no message or record key is
\* stored twice.
THEOREM ReplicaTypeCorrect == Spec => []TypeOK
<1>1. Init => TypeOK
  BY InitType
<1>2. TypeOK /\ [Next]_vars => TypeOK'
  BY StepType
<1> QED
  BY <1>1, <1>2, PTL DEF Spec

-----------------------------------------------------------------------------
(* Only three actions write a table or a blob; in the others no delivery   *)
(* comes nearer to its batch than its reservation, and an answer that says *)
(* the message is stored follows the batch or the message table.           *)

Past == {"object", "batch", "health"}

Stored == {"APPLIED", "REPLAY"}

Settles(d) ==
  \/ del'[d] = del[d]
  \/ del'[d].pc \notin Past /\ del'[d].answer = del[d].answer
  \/ /\ del'[d].pc = "done"
     /\ del'[d].answer \in Stored => At(d, "health") \/ Ingested(message[d])

Quiet == UNCHANGED <<logical, blobs>> /\ \A d \in Deliveries : Settles(d)

\* What the local moves do to the other deliveries and to their own.
LEMMA GoMoves ==
  ASSUME TypeOK, NEW d \in Deliveries, NEW pc, Go(d, pc)
  PROVE  /\ \A e \in Deliveries \ {d} : del'[e] = del[e]
         /\ del'[d].pc = pc /\ del'[d].answer = del[d].answer
BY DEF TypeOK, Go, Delivery

LEMMA AnswerMoves ==
  ASSUME TypeOK, NEW d \in Deliveries, NEW a, Answer(d, a)
  PROVE  /\ \A e \in Deliveries \ {d} : del'[e] = del[e]
         /\ del'[d].pc = "done" /\ del'[d].answer = a
BY DEF TypeOK, Answer, Delivery

\* Going on short of the object put, failing and refusing all settle.
LEMMA GoSettles ==
  ASSUME TypeOK, NEW d \in Deliveries, NEW pc, pc \notin Past, Go(d, pc)
  PROVE  \A e \in Deliveries : Settles(e)
BY GoMoves DEF Settles

LEMMA AnswerSettles ==
  ASSUME TypeOK, NEW d \in Deliveries, NEW a, Answer(d, a),
         a \in Stored => At(d, "health") \/ Ingested(message[d])
  PROVE  \A e \in Deliveries : Settles(e)
BY AnswerMoves DEF Settles

LEMMA StepKinds ==
  ASSUME TypeOK, [Next]_vars
  PROVE  /\ message' = message
         /\ Quiet \/ \E d \in Deliveries : PutJournal(d) \/ PutObject(d) \/ Batch(d)
<1>1. CASE UNCHANGED vars \/ NextMonth
  BY <1>1 DEF vars, NextMonth, Quiet, Settles, logical, blobs
<1>2. ASSUME NEW d \in Deliveries, Ingest(d),
             ~(PutJournal(d) \/ PutObject(d) \/ Batch(d))
      PROVE  Quiet /\ message' = message
  <2> USE <1>2
  <2>0. "failing" \notin Past
    BY DEF Past
  <2>1. CASE Start(d)
    <3>1. \A e \in Deliveries \ {d} : del'[e] = del[e]
      BY <2>1 DEF Start, TypeOK
    <3>2. del'[d].pc = "replay" /\ del'[d].answer = del[d].answer
      BY <2>1 DEF Start, TypeOK, Delivery
    <3> QED
      BY <2>1, <3>1, <3>2 DEF Start, Quiet, Settles, Past, logical, blobs
  <2>2. CASE ReadReplay(d)
    BY <2>2, GoSettles, AnswerSettles DEF ReadReplay, Quiet, Past, logical, blobs
  <2>3. CASE Rollover(d)
    BY <2>0, <2>3, GoSettles DEF Rollover, Returns, Quiet, Past, logical, blobs
  <2>4. CASE Reserve(d)
    BY <2>0, <2>4, GoSettles DEF Reserve, Returns, Quiet, Past, logical, blobs
  <2>5. CASE ReserveRefused(d)
    BY <2>5, AnswerSettles DEF ReserveRefused, Quiet, Stored, logical, blobs
  <2>6. CASE UpdateHealth(d)
    BY <2>0, <2>6, GoSettles, AnswerSettles DEF UpdateHealth, Returns, Quiet, logical, blobs
  <2>7. CASE Throw(d)
    BY <2>0, <2>7, GoSettles DEF Throw, Quiet, logical, blobs
  <2>8. CASE Fail(d)
    BY <2>8, AnswerSettles DEF Fail, Quiet, Stored, logical, blobs
  <2> QED
    BY <2>1, <2>2, <2>3, <2>4, <2>5, <2>6, <2>7, <2>8 DEF Ingest
<1>3. ASSUME NEW d \in Deliveries, PutJournal(d) \/ PutObject(d) \/ Batch(d)
      PROVE  message' = message
  BY <1>3 DEF PutJournal, PutObject, Batch
<1> QED
  BY <1>1, <1>2, <1>3 DEF Next

-----------------------------------------------------------------------------
(* Recovery.  A blob is never deleted, and a delivery past a put leaves its *)
(* blob behind it, so the batch finds both.                                *)

PutsBehind ==
  \A d \in Deliveries :
    /\ del[d].pc \in Past => message[d] \in journals
    /\ del[d].pc \in {"batch", "health"} => Content(d) \subseteq bodies

RecoveryInv == StoredIsRecoverable /\ PutsBehind

\* What a delivery that wrote a put or its batch has for its next step: that of
\* the effect, or the catch block.
LEMMA ReturnsMoves ==
  ASSUME TypeOK, NEW d \in Deliveries, NEW pc, Returns(d, Go(d, pc))
  PROVE  /\ \A e \in Deliveries \ {d} : del'[e] = del[e]
         /\ del'[d].pc \in {pc, "failing"} /\ del'[d].answer = del[d].answer
BY GoMoves DEF Returns

LEMMA BatchMoves ==
  ASSUME TypeOK, NEW d \in Deliveries, Batch(d)
  PROVE  /\ \A e \in Deliveries \ {d} : del'[e] = del[e]
         /\ del'[d].pc \in {"health", "failing"} /\ del'[d].answer = del[d].answer
<1> DEFINE new == ~Ingested(message[d])
<1>1. CASE Go(d, "failing")
  BY <1>1, GoMoves
<1>2. CASE del' = [del EXCEPT ![d].pc = "health", ![d].inserted = new]
  <2> HIDE DEF new
  <2> QED
    BY <1>2 DEF TypeOK, Delivery
<1> QED
  BY <1>1, <1>2 DEF Batch, Returns

\* Where the batch leaves the message table.
LEMMA BatchIngests ==
  ASSUME TypeOK, NEW d \in Deliveries, Batch(d)
  PROVE  /\ \E i \in DOMAIN messages' : messages'[i] = message[d]
         /\ \A i \in DOMAIN messages' :
              \/ messages'[i] = message[d]
              \/ i \in DOMAIN messages /\ messages'[i] = messages[i]
         /\ \A i \in DOMAIN messages : i \in DOMAIN messages' /\ messages'[i] = messages[i]
<1>1. message[d] \in Messages /\ messages \in Seq(Messages)
  BY DEF TypeOK
<1>2. CASE Ingested(message[d])
  BY <1>2 DEF Batch, Ingested
<1>3. CASE ~Ingested(message[d])
  <2>1. messages' = Append(messages, message[d])
    BY <1>3 DEF Batch
  <2> QED
    BY <1>1, <2>1, AppendExtends, SMT
<1> QED
  BY <1>2, <1>3

LEMMA RecoveryStep ==
  ASSUME TypeOK, RecoveryInv, [Next]_vars
  PROVE  RecoveryInv'
<1> USE DEF RecoveryInv
<1>0. message' = message
  BY StepKinds
<1>1. CASE Quiet
  <2>1. StoredIsRecoverable'
    BY <1>1 DEF Quiet, StoredIsRecoverable, logical, blobs
  <2>2. PutsBehind'
    BY <1>0, <1>1 DEF Quiet, Settles, PutsBehind, Past, Content, blobs
  <2> QED
    BY <2>1, <2>2
<1>2. ASSUME NEW d \in Deliveries, PutJournal(d) PROVE RecoveryInv'
  <2>1. StoredIsRecoverable'
    BY <1>2 DEF PutJournal, StoredIsRecoverable, logical
  <2>2. PutsBehind'
    <3>1. /\ \A e \in Deliveries \ {d} : del'[e] = del[e]
          /\ del'[d].pc \in {IF Content(d) = {} THEN "batch" ELSE "object", "failing"}
      BY <1>2, ReturnsMoves DEF PutJournal
    <3> QED
      BY <1>0, <1>2, <3>1 DEF PutJournal, PutsBehind, Past, Content
  <2> QED
    BY <2>1, <2>2
<1>3. ASSUME NEW d \in Deliveries, PutObject(d) PROVE RecoveryInv'
  <2>1. StoredIsRecoverable'
    BY <1>3 DEF PutObject, StoredIsRecoverable, logical
  <2>2. PutsBehind'
    <3>1. /\ \A e \in Deliveries \ {d} : del'[e] = del[e]
          /\ del'[d].pc \in {"batch", "failing"}
      BY <1>3, ReturnsMoves DEF PutObject
    <3> QED
      BY <1>0, <1>3, <3>1 DEF PutObject, PutsBehind, Past, Content, At
  <2> QED
    BY <2>1, <2>2
<1>4. ASSUME NEW d \in Deliveries, Batch(d) PROVE RecoveryInv'
  <2>1. message[d] \in journals /\ Content(d) \subseteq bodies
    BY <1>4 DEF Batch, At, PutsBehind, Past
  <2>2. objects' = objects \cup Content(d) /\ UNCHANGED blobs
    BY <1>4 DEF Batch, Content
  <2>3. StoredIsRecoverable'
    BY <1>4, <2>1, <2>2, BatchIngests DEF StoredIsRecoverable, blobs
  <2>4. PutsBehind'
    BY <1>0, <1>4, <2>1, <2>2, BatchMoves DEF PutsBehind, Past, Content, blobs
  <2> QED
    BY <2>3, <2>4
<1> QED
  BY <1>1, <1>2, <1>3, <1>4, StepKinds

\* Every ingested message has its journal in R2 and every READY object its bytes,
\* after any number of retries, faults and abandoned deliveries.
THEOREM DatabaseIsRecoverable == Spec => []StoredIsRecoverable
<1>1. Init => RecoveryInv
  BY SMT DEF Init, RecoveryInv, StoredIsRecoverable, PutsBehind, Past
<1>2. TypeOK /\ RecoveryInv /\ [Next]_vars => RecoveryInv'
  BY RecoveryStep
<1>3. RecoveryInv => StoredIsRecoverable
  BY DEF RecoveryInv
<1> QED
  BY <1>1, <1>2, <1>3, ReplicaTypeCorrect, PTL DEF Spec

-----------------------------------------------------------------------------
(* Evidence.  The guard of the upsert keeps a complete record against every *)
(* later write of its key; the key is unique, so there is no other row.    *)

LEMMA EvidenceStep ==
  ASSUME TypeOK, CompleteEvidenceStays, [Next]_vars
  PROVE  CompleteEvidenceStays'
<1>1. CASE UNCHANGED logical
  BY <1>1 DEF CompleteEvidenceStays, logical
<1>2. ASSUME NEW d \in Deliveries, Batch(d) PROVE CompleteEvidenceStays'
  <2> SUFFICES ASSUME NEW i \in DOMAIN messages',
                      messages'[i].type = "evidence", messages'[i].schema = "v4"
               PROVE  \E row \in records' : SameRecord(row, messages'[i]) /\ row.schema = "v4"
    BY DEF CompleteEvidenceStays
  <2>1. message[d] \in Messages /\ records \in SUBSET Messages
    BY DEF TypeOK
  <2>2. records' = Upsert(records, message[d])
    BY <1>2 DEF Batch
  <2>3. CASE messages'[i] = message[d]
    <3>1. message[d] \in records'
      BY <2>1, <2>2, <2>3, UpsertStores
    <3> QED
      BY <2>3, <3>1 DEF SameRecord
  <2>4. CASE i \in DOMAIN messages /\ messages'[i] = messages[i]
    <3>1. PICK row \in records : SameRecord(row, messages[i]) /\ row.schema = "v4"
      BY <2>4 DEF CompleteEvidenceStays
    <3>2. row.type = "evidence"
      BY <2>4, <3>1 DEF SameRecord
    <3>3. \E new \in records' : SameRecord(new, row) /\ new.schema = "v4"
      BY <2>1, <2>2, <3>1, <3>2, UpsertKeepsComplete DEF TypeOK
    <3> QED
      BY <2>4, <3>1, <3>3 DEF SameRecord
  <2> QED
    BY <1>2, <2>3, <2>4, BatchIngests
<1>3. UNCHANGED logical \/ \E d \in Deliveries : Batch(d)
  BY StepKinds DEF Quiet, PutJournal, PutObject
<1> QED
  BY <1>1, <1>2, <1>3

\* Once a v4 envelope of an evidence record was ingested the record stays v4, in
\* whatever order and however often the older envelopes are delivered.
THEOREM EvidenceStaysComplete == Spec => []CompleteEvidenceStays
<1>1. Init => CompleteEvidenceStays
  BY SMT DEF Init, CompleteEvidenceStays
<1>2. TypeOK /\ CompleteEvidenceStays /\ [Next]_vars => CompleteEvidenceStays'
  BY EvidenceStep
<1> QED
  BY <1>1, <1>2, ReplicaTypeCorrect, PTL DEF Spec

-----------------------------------------------------------------------------
(* Answers.  A delivery says a message is stored only after it was found in *)
(* the message table or written by its own batch, and rows, once there,    *)
(* are only replaced by rows of the same key.                              *)

\* An ingested message has a record under its key, and its object is READY.
RowsKept == \A i \in DOMAIN messages :
  /\ \E row \in records : SameRecord(row, messages[i])
  /\ messages[i].content \subseteq objects

Told ==
  \A d \in Deliveries : At(d, "health") \/ del[d].answer \in Stored => Ingested(message[d])

AnswerInv == RowsKept /\ Told

LEMMA AnswerStep ==
  ASSUME TypeOK, AnswerInv, [Next]_vars
  PROVE  AnswerInv'
<1> USE DEF AnswerInv
<1>0. message' = message
  BY StepKinds
<1>1. CASE Quiet
  <2>1. UNCHANGED <<messages, records, objects>>
    BY <1>1 DEF Quiet, logical
  <2>2. RowsKept'
    BY <2>1 DEF RowsKept
  <2>3. ASSUME NEW d \in Deliveries, At(d, "health")' \/ del'[d].answer \in Stored
        PROVE  Ingested(message[d])
    BY <1>1, <2>3 DEF Quiet, Settles, Told, Past, Stored, At
  <2>4. Told'
    BY <1>0, <2>1, <2>3 DEF Told, Ingested
  <2> QED
    BY <2>2, <2>4
<1>2. ASSUME NEW d \in Deliveries, PutJournal(d) \/ PutObject(d) PROVE AnswerInv'
  <2>1. UNCHANGED <<messages, records, objects>>
    BY <1>2 DEF PutJournal, PutObject, logical
  <2>2. RowsKept'
    BY <2>1 DEF RowsKept
  <2>3. /\ \A e \in Deliveries \ {d} : del'[e] = del[e]
        /\ del'[d].pc # "health" /\ del'[d].answer = del[d].answer
    <3>1. PICK pc \in {"batch", "object"} : Returns(d, Go(d, pc))
      BY <1>2 DEF PutJournal, PutObject
    <3> QED
      BY <3>1, ReturnsMoves
  <2>4. Told'
    BY <1>0, <2>1, <2>3 DEF Told, Ingested, At
  <2> QED
    BY <2>2, <2>4
<1>3. ASSUME NEW d \in Deliveries, Batch(d) PROVE AnswerInv'
  <2>0. message[d] \in Messages /\ records \in SUBSET Messages
    BY DEF TypeOK
  <2>1. records' = Upsert(records, message[d]) /\ objects' = objects \cup message[d].content
    BY <1>3 DEF Batch
  <2>2. ASSUME NEW i \in DOMAIN messages'
        PROVE  /\ \E row \in records' : SameRecord(row, messages'[i])
               /\ messages'[i].content \subseteq objects'
    <3>1. CASE messages'[i] = message[d]
      BY <2>0, <2>1, <3>1, UpsertCovers
    <3>2. CASE i \in DOMAIN messages /\ messages'[i] = messages[i]
      <4>1. PICK row \in records : SameRecord(row, messages[i])
        BY <3>2 DEF RowsKept
      <4>2. \E new \in records' : SameRecord(new, row)
        BY <2>0, <2>1, UpsertCovers
      <4>3. messages[i].content \subseteq objects'
        BY <2>1, <3>2 DEF RowsKept
      <4> QED
        BY <3>2, <4>1, <4>2, <4>3 DEF SameRecord
    <3> QED
      BY <1>3, <3>1, <3>2, BatchIngests
  <2>3. RowsKept'
    BY <2>2 DEF RowsKept
  <2>4. Told'
    <3>1. \A m : Ingested(m) => Ingested(m)'
      BY <1>3, BatchIngests DEF Ingested
    <3>2. Ingested(message[d])'
      BY <1>0, <1>3, BatchIngests DEF Ingested
    <3> QED
      BY <1>0, <1>3, <3>1, <3>2, BatchMoves DEF Told, At
  <2> QED
    BY <2>3, <2>4
<1> QED
  BY <1>1, <1>2, <1>3, StepKinds

\* A producer told APPLIED or REPLAY may forget the message: it is in the tables, and
\* its object in R2.
THEOREM ReplicaAnswersBacked == Spec => []AnswersBacked
<1>1. Init => AnswerInv
  BY SMT DEF Init, AnswerInv, RowsKept, Told, At, Stored
<1>2. TypeOK /\ AnswerInv /\ [Next]_vars => AnswerInv'
  BY AnswerStep
<1>3. AnswerInv /\ StoredIsRecoverable => AnswersBacked
  BY DEF AnswerInv, RowsKept, Told, StoredIsRecoverable, AnswersBacked, Ingested, Content, Stored
<1> QED
  BY <1>1, <1>2, <1>3, ReplicaTypeCorrect, DatabaseIsRecoverable, PTL DEF Spec

-----------------------------------------------------------------------------
(* Counting.  A message is inserted by one batch; the delivery that ran it  *)
(* counts it once, unless it stops first: what is counted and what is still *)
(* to be counted never exceeds the message table.                          *)

Pending == {d \in Deliveries : At(d, "health") /\ del[d].inserted}

InsertedOnce ==
  /\ \A d \in Deliveries :
       del[d].inserted => Ingested(message[d]) /\ del[d].pc \in {"health", "failing", "done"}
  /\ \A d, e \in Deliveries :
       del[d].inserted /\ del[e].inserted /\ message[d] = message[e] => d = e
  /\ \A d \in Deliveries : del[d].answer = "APPLIED" => del[d].inserted

Counted == health.accepted + Cardinality(Pending) <= Len(messages)

CountInv == InsertedOnce /\ Counted

\* A set of deliveries is finite, and a smaller one is no larger.
LEMMA PendingFinite == IsFiniteSet(Pending) /\ Cardinality(Pending) \in Nat
<1>1. IsFiniteSet(Deliveries) /\ Pending \subseteq Deliveries
  BY ConstantsAssumption DEF ConstantsAssumption, Pending
<1> QED
  BY <1>1, FS_Subset, FS_CardinalityType

\* A step that inserts and counts nothing keeps the count.
LEMMA CountKept ==
  ASSUME TypeOK, CountInv, message' = message, messages' = messages,
         health'.accepted = health.accepted,
         NEW d \in Deliveries, \A e \in Deliveries \ {d} : del'[e] = del[e],
         del'[d].inserted = del[d].inserted, del'[d].pc # "health",
         del[d].inserted => del'[d].pc \in {"failing", "done"},
         del'[d].answer # "APPLIED" \/ del'[d].answer = del[d].answer
  PROVE  CountInv'
<1>1. InsertedOnce'
  BY DEF CountInv, InsertedOnce, Ingested
<1>2. Pending' \subseteq Pending
  BY DEF Pending, At
<1>3. Cardinality(Pending') \in Nat /\ Cardinality(Pending') <= Cardinality(Pending)
  BY <1>2, PendingFinite, FS_Subset, FS_CardinalityType
<1>4. health.accepted \in Nat /\ Len(messages) \in Nat
  BY DEF TypeOK, Health
<1>5. Counted'
  <2>1. Cardinality(Pending)' = Cardinality(Pending')
    OBVIOUS
  <2> QED
    BY <1>3, <1>4, <2>1, PendingFinite, SMT DEF CountInv, Counted
<1> QED
  BY <1>1, <1>5 DEF CountInv

\* The local moves leave what was inserted alone.
LEMMA GoKeeps ==
  ASSUME TypeOK, NEW d \in Deliveries, NEW pc, Go(d, pc)
  PROVE  /\ \A e \in Deliveries \ {d} : del'[e] = del[e]
         /\ del'[d].inserted = del[d].inserted
         /\ del'[d].pc = pc /\ del'[d].answer = del[d].answer
BY DEF TypeOK, Go, Delivery

LEMMA AnswerKeeps ==
  ASSUME TypeOK, NEW d \in Deliveries, NEW a, Answer(d, a)
  PROVE  /\ \A e \in Deliveries \ {d} : del'[e] = del[e]
         /\ del'[d].inserted = del[d].inserted
         /\ del'[d].pc = "done" /\ del'[d].answer = a
BY DEF TypeOK, Answer, Delivery

LEMMA ReturnsKeeps ==
  ASSUME TypeOK, NEW d \in Deliveries, NEW pc, Returns(d, Go(d, pc))
  PROVE  /\ \A e \in Deliveries \ {d} : del'[e] = del[e]
         /\ del'[d].inserted = del[d].inserted
         /\ del'[d].pc \in {pc, "failing"} /\ del'[d].answer = del[d].answer
BY GoKeeps DEF Returns

\* The actions that neither insert nor count.
LEMMA CountIdle ==
  ASSUME TypeOK, CountInv, NEW d \in Deliveries, Ingest(d), ~Batch(d), ~UpdateHealth(d)
  PROVE  CountInv'
<1>0. message' = message /\ messages' = messages
  BY StepKinds DEF Next, Quiet, PutJournal, PutObject, logical,
     Ingest, Start, ReadReplay, Rollover, Reserve, ReserveRefused, Throw, Fail
<1>a. del[d].pc \notin {"health", "failing", "done"} => ~del[d].inserted
  BY DEF CountInv, InsertedOnce
<1>1. CASE Start(d)
  <2>1. /\ \A e \in Deliveries \ {d} : del'[e] = del[e]
        /\ del'[d].inserted = del[d].inserted
        /\ del'[d].pc = "replay" /\ del'[d].answer = del[d].answer
    BY <1>1 DEF Start, TypeOK, Delivery
  <2> QED
    BY <1>0, <1>a, <1>1, <2>1, CountKept DEF Start, At
<1>2. CASE ReadReplay(d)
  <2>1. CASE Go(d, "rollover")
    BY <1>0, <1>a, <1>2, <2>1, GoKeeps, CountKept DEF ReadReplay, At
  <2>2. CASE Answer(d, "REPLAY")
    BY <1>0, <1>a, <1>2, <2>2, AnswerKeeps, CountKept DEF ReadReplay, At
  <2> QED
    BY <1>2, <2>1, <2>2 DEF ReadReplay
<1>3. CASE Rollover(d)
  BY <1>0, <1>a, <1>3, ReturnsKeeps, CountKept DEF Rollover, At
<1>4. CASE Reserve(d)
  BY <1>0, <1>a, <1>4, ReturnsKeeps, CountKept DEF Reserve, At
<1>5. CASE ReserveRefused(d)
  BY <1>0, <1>a, <1>5, AnswerKeeps, CountKept DEF ReserveRefused, At
<1>6. CASE PutJournal(d)
  <2>1. PICK pc \in {"batch", "object"} : Returns(d, Go(d, pc))
    BY <1>6 DEF PutJournal
  <2> QED
    BY <1>0, <1>a, <1>6, <2>1, ReturnsKeeps, CountKept DEF PutJournal, At
<1>7. CASE PutObject(d)
  BY <1>0, <1>a, <1>7, ReturnsKeeps, CountKept DEF PutObject, At
<1>8. CASE Throw(d)
  BY <1>0, <1>8, GoKeeps, CountKept DEF Throw, At
<1>9. CASE Fail(d)
  <2>1. health'.accepted = health.accepted
    BY <1>9 DEF Fail, TypeOK, Health
  <2> QED
    BY <1>0, <1>9, <2>1, AnswerKeeps, CountKept DEF Fail
<1> QED
  BY <1>1, <1>2, <1>3, <1>4, <1>5, <1>6, <1>7, <1>8, <1>9 DEF Ingest

\* The delivery that counts its message is pending no more.
LEMMA CountOne ==
  ASSUME TypeOK, CountInv, NEW d \in Deliveries, UpdateHealth(d)
  PROVE  CountInv'
<1>0. message' = message /\ messages' = messages
  BY DEF UpdateHealth, logical
<1>1. /\ \A e \in Deliveries \ {d} : del'[e] = del[e]
      /\ del'[d].inserted = del[d].inserted
      /\ del'[d].pc \in {"failing", "done"}
      /\ del'[d].answer \in {Outcome(d), del[d].answer}
  BY GoKeeps, AnswerKeeps DEF UpdateHealth, Returns
<1>2. del[d].inserted \/ Outcome(d) # "APPLIED"
  BY DEF Outcome
<1>3. InsertedOnce'
  BY <1>0, <1>1, <1>2 DEF CountInv, InsertedOnce, Ingested
<1>4. Pending' = Pending \ {d}
  BY <1>1 DEF Pending, At
<1>5. d \in Pending <=> del[d].inserted
  BY DEF Pending, UpdateHealth
<1>6. health'.accepted = health.accepted + (IF del[d].inserted THEN 1 ELSE 0)
  BY DEF UpdateHealth
<1>7. Cardinality(Pending') = IF del[d].inserted THEN Cardinality(Pending) - 1 ELSE Cardinality(Pending)
  BY <1>4, <1>5, PendingFinite, FS_RemoveElement
<1>8. health.accepted \in Nat /\ Len(messages) \in Nat
  BY DEF TypeOK, Health
<1>9. Counted'
  <2>1. Cardinality(Pending)' = Cardinality(Pending')
    OBVIOUS
  <2> QED
    BY <1>0, <1>6, <1>7, <1>8, <2>1, PendingFinite, SMT DEF CountInv, Counted
<1> QED
  BY <1>3, <1>9 DEF CountInv

\* The batch that inserts a message makes its delivery pending.
LEMMA CountBatch ==
  ASSUME TypeOK, CountInv, NEW d \in Deliveries, Batch(d)
  PROVE  CountInv'
<1> DEFINE new == ~Ingested(message[d])
<1>0. message' = message /\ health' = health /\ message[d] \in Messages /\ messages \in Seq(Messages)
  BY DEF Batch, TypeOK
<1>1. /\ \A e \in Deliveries \ {d} : del'[e] = del[e]
      /\ del'[d].answer = del[d].answer
      /\ \/ del'[d].pc = "failing" /\ del'[d].inserted = del[d].inserted
         \/ del'[d].pc = "health" /\ del'[d].inserted = new
  <2>1. CASE Go(d, "failing")
    BY <2>1, GoKeeps
  <2>2. CASE del' = [del EXCEPT ![d].pc = "health", ![d].inserted = new]
    <3> HIDE DEF new
    <3> QED
      BY <2>2 DEF TypeOK, Delivery
  <2> QED
    BY <2>1, <2>2 DEF Batch, Returns
<1>2. \A m : Ingested(m) => Ingested(m)'
  BY BatchIngests DEF Ingested
<1>3. Ingested(message[d])'
  BY <1>0, BatchIngests DEF Ingested
<1>4. ~del[d].inserted /\ del[d].answer # "APPLIED"
  BY DEF CountInv, InsertedOnce, Batch, At
<1>5. InsertedOnce'
  <2>1. ASSUME NEW e \in Deliveries, del'[e].inserted
        PROVE  Ingested(message[e])' /\ del'[e].pc \in {"health", "failing", "done"}
    BY <1>0, <1>1, <1>2, <1>3, <1>4, <2>1 DEF CountInv, InsertedOnce
  <2>2. ASSUME NEW e \in Deliveries \ {d}, del[e].inserted, message[e] = message[d]
        PROVE  ~del'[d].inserted
    BY <1>1, <1>4, <2>2 DEF CountInv, InsertedOnce
  <2>3. ASSUME NEW e \in Deliveries, NEW f \in Deliveries,
               del'[e].inserted, del'[f].inserted, message[e] = message[f]
        PROVE  e = f
    BY <1>1, <2>2, <2>3 DEF CountInv, InsertedOnce
  <2>4. ASSUME NEW e \in Deliveries, del'[e].answer = "APPLIED" PROVE del'[e].inserted
    BY <1>1, <1>4, <2>4 DEF CountInv, InsertedOnce
  <2> HIDE DEF new
  <2> QED
    BY <1>0, <2>1, <2>3, <2>4 DEF InsertedOnce
<1>6. health.accepted \in Nat /\ Len(messages) \in Nat
  BY DEF TypeOK, Health
<1>7. CASE new
  <2>1. Len(messages') = Len(messages) + 1
    BY <1>0, <1>7, SMT DEF Batch
  <2>2. Pending' \subseteq Pending \cup {d}
    BY <1>1 DEF Pending, At
  <2>3. Cardinality(Pending') \in Nat /\ Cardinality(Pending') <= Cardinality(Pending) + 1
    <3>1. /\ IsFiniteSet(Pending \cup {d})
          /\ Cardinality(Pending \cup {d}) <= Cardinality(Pending) + 1
      <4>1. /\ IsFiniteSet(Pending \cup {d})
            /\ Cardinality(Pending \cup {d}) =
                 IF d \in Pending THEN Cardinality(Pending) ELSE Cardinality(Pending) + 1
        BY PendingFinite, FS_AddElement
      <4> QED
        BY <4>1, PendingFinite, SMT
    <3>2. /\ IsFiniteSet(Pending')
          /\ Cardinality(Pending') <= Cardinality(Pending \cup {d})
      BY <2>2, <3>1, FS_Subset
    <3>3. Cardinality(Pending') \in Nat /\ Cardinality(Pending \cup {d}) \in Nat
      BY <3>1, <3>2, FS_CardinalityType
    <3> QED
      BY <3>1, <3>2, <3>3, PendingFinite, SMT
  <2>4. Cardinality(Pending)' = Cardinality(Pending')
    OBVIOUS
  <2>5. Counted'
    BY <1>0, <1>6, <2>1, <2>3, <2>4, PendingFinite, SMT DEF CountInv, Counted
  <2> QED
    BY <1>5, <2>5 DEF CountInv
<1>8. CASE ~new
  <2>1. messages' = messages
    BY <1>8 DEF Batch
  <2>2. Pending' \subseteq Pending
    BY <1>1, <1>4, <1>8 DEF Pending, At
  <2>3. Cardinality(Pending') \in Nat /\ Cardinality(Pending') <= Cardinality(Pending)
    BY <2>2, PendingFinite, FS_Subset, FS_CardinalityType
  <2>4. Cardinality(Pending)' = Cardinality(Pending')
    OBVIOUS
  <2>5. Counted'
    BY <1>0, <1>6, <2>1, <2>3, <2>4, PendingFinite, SMT DEF CountInv, Counted
  <2> QED
    BY <1>5, <2>5 DEF CountInv
<1> QED
  BY <1>7, <1>8

\* No message is counted or reported as applied twice, however many deliveries of it
\* pass the replay check together.
THEOREM MessagesAppliedOnce == Spec => []AppliedOnce
<1>1. Init => CountInv
  <2> SUFFICES ASSUME Init PROVE CountInv
    OBVIOUS
  <2>1. InsertedOnce
    BY DEF Init, InsertedOnce
  <2>2. Pending = {}
    BY DEF Init, Pending
  <2>3. Counted
    BY <2>2, FS_EmptySet, SMT DEF Init, Counted
  <2> QED
    BY <2>1, <2>3 DEF CountInv
<1>2. TypeOK /\ CountInv /\ [Next]_vars => CountInv'
  <2> SUFFICES ASSUME TypeOK, CountInv, [Next]_vars PROVE CountInv'
    OBVIOUS
  <2>1. CASE UNCHANGED vars \/ NextMonth
    BY <2>1 DEF vars, NextMonth, logical, CountInv, InsertedOnce, Counted, Pending, Ingested, At
  <2>2. ASSUME NEW d \in Deliveries, Ingest(d) PROVE CountInv'
    BY <2>2, CountIdle, CountOne, CountBatch
  <2> QED
    BY <2>1, <2>2 DEF Next
<1>3. TypeOK /\ CountInv => AppliedOnce
  <2> SUFFICES ASSUME TypeOK, CountInv PROVE AppliedOnce
    OBVIOUS
  <2>1. health.accepted \in Nat /\ Len(messages) \in Nat
    BY DEF TypeOK, Health
  <2>2. health.accepted <= Len(messages)
    BY <2>1, PendingFinite, SMT DEF CountInv, Counted
  <2> QED
    BY <2>2 DEF CountInv, InsertedOnce, AppliedOnce
<1> QED
  BY <1>1, <1>2, <1>3, ReplicaTypeCorrect, PTL DEF Spec

-----------------------------------------------------------------------------
(* The quota.  Between its reservation and its puts a delivery has paid for *)
(* blobs R2 does not have yet; one that stops there is never paid back, so  *)
(* what is stored together with what is owed stays within the reservation. *)

OwedJournals == journals \cup {message[d] : d \in {e \in Deliveries : At(e, "journal")}}

OwedBodies ==
  {{c} : c \in bodies} \cup {Content(d) : d \in {e \in Deliveries : del[e].pc \in {"journal", "object"}}}

\* No more than stored bytes are in these blobs.
Within(js, bs, stored) ==
  /\ IsFiniteSet(Bytes(js, JournalBytes)) /\ IsFiniteSet(Bytes(bs, ObjectBytes))
  /\ Cardinality(Bytes(js, JournalBytes)) + Cardinality(Bytes(bs, ObjectBytes)) <= stored

QuotaInv == Within(OwedJournals, OwedBodies, usage.stored) /\ usage.stored <= MaxStored

\* One blob more adds at most its size.
LEMMA BytesOfOneMore ==
  ASSUME NEW kept, NEW size, NEW x, size[x] \in Nat, IsFiniteSet(Bytes(kept, size))
  PROVE  /\ IsFiniteSet(Bytes(kept \cup {x}, size))
         /\ Cardinality(Bytes(kept \cup {x}, size)) <= Cardinality(Bytes(kept, size)) + size[x]
<1> DEFINE own == {x} \X (1..size[x])
<1>1. Bytes(kept \cup {x}, size) = Bytes(kept, size) \cup own
  BY DEF Bytes
<1>2. IsFiniteSet(own) /\ Cardinality(own) = size[x]
  <2>1. IsFiniteSet({x}) /\ Cardinality({x}) = 1
    BY FS_Singleton
  <2>2. IsFiniteSet(1..size[x]) /\ Cardinality(1..size[x]) = size[x]
    BY FS_Interval, SMT
  <2>3. IsFiniteSet(own) /\ Cardinality(own) = Cardinality({x}) * Cardinality(1..size[x])
    BY <2>1, <2>2, FS_Product
  <2> HIDE DEF own
  <2> QED
    BY <2>1, <2>2, <2>3
<1>3. /\ IsFiniteSet(Bytes(kept, size) \cup own)
      /\ Cardinality(Bytes(kept, size) \cup own) =
           Cardinality(Bytes(kept, size)) + Cardinality(own) - Cardinality(Bytes(kept, size) \cap own)
  BY <1>2, FS_Union
<1>4. Cardinality(Bytes(kept, size)) \in Nat /\ Cardinality(Bytes(kept, size) \cap own) \in Nat
  BY FS_CardinalityType, FS_Intersection
<1>5. size[x] = Cardinality(own)
  BY <1>2
<1> HIDE DEF own
<1>6. /\ IsFiniteSet(Bytes(kept \cup {x}, size))
      /\ Cardinality(Bytes(kept \cup {x}, size)) =
           Cardinality(Bytes(kept, size)) + Cardinality(own) - Cardinality(Bytes(kept, size) \cap own)
  BY <1>1, <1>3, Zenon
<1> QED
  BY <1>4, <1>5, <1>6

\* Fewer blobs have fewer bytes.
LEMMA BytesOfFewer ==
  ASSUME NEW kept, NEW size, NEW fewer \in SUBSET kept, IsFiniteSet(Bytes(kept, size))
  PROVE  /\ IsFiniteSet(Bytes(fewer, size))
         /\ Cardinality(Bytes(fewer, size)) \in Nat
         /\ Cardinality(Bytes(fewer, size)) <= Cardinality(Bytes(kept, size))
<1>1. Bytes(fewer, size) \subseteq Bytes(kept, size)
  BY DEF Bytes
<1> QED
  BY <1>1, FS_Subset, FS_CardinalityType

LEMMA WithinFewer ==
  ASSUME NEW js, NEW bs, NEW stored \in Nat, Within(js, bs, stored),
         NEW fj \in SUBSET js, NEW fb \in SUBSET bs
  PROVE  Within(fj, fb, stored)
<1>1. /\ IsFiniteSet(Bytes(fj, JournalBytes))
      /\ Cardinality(Bytes(fj, JournalBytes)) \in Nat
      /\ Cardinality(Bytes(fj, JournalBytes)) <= Cardinality(Bytes(js, JournalBytes))
  BY BytesOfFewer DEF Within
<1>2. /\ IsFiniteSet(Bytes(fb, ObjectBytes))
      /\ Cardinality(Bytes(fb, ObjectBytes)) \in Nat
      /\ Cardinality(Bytes(fb, ObjectBytes)) <= Cardinality(Bytes(bs, ObjectBytes))
  BY BytesOfFewer DEF Within
<1>3. Cardinality(Bytes(js, JournalBytes)) \in Nat /\ Cardinality(Bytes(bs, ObjectBytes)) \in Nat
  BY FS_CardinalityType DEF Within
<1> QED
  BY <1>1, <1>2, <1>3 DEF Within

LEMMA WithinMore ==
  ASSUME NEW js, NEW bs, NEW stored \in Nat, Within(js, bs, stored), NEW j, NEW b,
         JournalBytes[j] \in Nat, ObjectBytes[b] \in Nat
  PROVE  Within(js \cup {j}, bs \cup {b}, stored + (JournalBytes[j] + ObjectBytes[b]))
<1>1. /\ IsFiniteSet(Bytes(js \cup {j}, JournalBytes))
      /\ Cardinality(Bytes(js \cup {j}, JournalBytes)) <= Cardinality(Bytes(js, JournalBytes)) + JournalBytes[j]
  BY BytesOfOneMore DEF Within
<1>2. /\ IsFiniteSet(Bytes(bs \cup {b}, ObjectBytes))
      /\ Cardinality(Bytes(bs \cup {b}, ObjectBytes)) <= Cardinality(Bytes(bs, ObjectBytes)) + ObjectBytes[b]
  BY BytesOfOneMore DEF Within
<1>3. /\ Cardinality(Bytes(js, JournalBytes)) \in Nat /\ Cardinality(Bytes(bs, ObjectBytes)) \in Nat
      /\ Cardinality(Bytes(js \cup {j}, JournalBytes)) \in Nat
      /\ Cardinality(Bytes(bs \cup {b}, ObjectBytes)) \in Nat
  BY <1>1, <1>2, FS_CardinalityType DEF Within
<1> QED
  BY <1>1, <1>2, <1>3 DEF Within

\* Every step but a reservation owes what was owed, or less.
LEMMA OwedUnlessReserved ==
  ASSUME TypeOK, NEW d \in Deliveries, Ingest(d), ~Reserve(d)
  PROVE  /\ OwedJournals' \subseteq OwedJournals /\ OwedBodies' \subseteq OwedBodies
         /\ usage'.stored = usage.stored
<1>0. message' = message
  BY DEF Ingest, Start, ReadReplay, Rollover, ReserveRefused, PutJournal, PutObject, Batch,
         UpdateHealth, Throw, Fail
<1>s. usage'.stored = usage.stored
  BY DEF TypeOK, Usage, Ingest, Start, ReadReplay, Rollover, ReserveRefused, PutJournal, PutObject,
         Batch, UpdateHealth, Throw, Fail
<1>1. CASE PutJournal(d)
  <2>1. PICK pc \in {"batch", "object"} : Returns(d, Go(d, pc))
    BY <1>1 DEF PutJournal
  <2>2. /\ \A e \in Deliveries \ {d} : del'[e] = del[e]
        /\ del'[d].pc \in {"batch", "object", "failing"} /\ del[d].pc = "journal"
    BY <1>1, <2>1, ReturnsKeeps DEF PutJournal, At
  <2>3. journals' = journals \cup {message[d]} /\ bodies' = bodies
    BY <1>1 DEF PutJournal
  <2>4. OwedJournals' \subseteq OwedJournals
    BY <1>0, <2>2, <2>3 DEF OwedJournals, At
  <2>5. OwedBodies' \subseteq OwedBodies
    BY <1>0, <2>2, <2>3 DEF OwedBodies, Content
  <2> QED
    BY <1>s, <2>4, <2>5
<1>2. CASE PutObject(d)
  <2>1. /\ \A e \in Deliveries \ {d} : del'[e] = del[e]
        /\ del'[d].pc \in {"batch", "failing"} /\ del[d].pc = "object"
    BY <1>2, ReturnsKeeps DEF PutObject, At
  <2>2. journals' = journals /\ bodies' = bodies \cup Content(d)
    BY <1>2 DEF PutObject
  <2>3. \A x \in Content(d) : Content(d) = {x}
    <3>1. message[d] \in Messages
      BY DEF TypeOK
    <3>2. message[d].content = {} \/ \E c \in Contents : message[d].content = {c}
      BY <3>1, ConstantsAssumption
    <3> QED
      BY <3>2 DEF Content
  <2>4. OwedJournals' \subseteq OwedJournals
    BY <1>0, <2>1, <2>2 DEF OwedJournals, At
  <2>5. OwedBodies' \subseteq OwedBodies
    BY <1>0, <2>1, <2>2, <2>3 DEF OwedBodies, Content
  <2> QED
    BY <1>s, <2>4, <2>5
<1>3. CASE ~PutJournal(d) /\ ~PutObject(d)
  <2>1. UNCHANGED blobs
    BY <1>3 DEF Ingest, Start, ReadReplay, Rollover, ReserveRefused, Batch, UpdateHealth, Throw, Fail
  <2>2. /\ \A e \in Deliveries \ {d} : del'[e] = del[e]
        /\ del'[d].pc \notin {"journal", "object"}
    <3>1. CASE Start(d)
      BY <3>1 DEF Start, TypeOK, Delivery
    <3>2. CASE ReadReplay(d) \/ Throw(d)
      BY <3>2, GoKeeps, AnswerKeeps DEF ReadReplay, Throw
    <3>3. CASE Rollover(d) \/ UpdateHealth(d)
      BY <3>3, GoKeeps, AnswerKeeps DEF Rollover, UpdateHealth, Returns
    <3>4. CASE ReserveRefused(d) \/ Fail(d)
      BY <3>4, AnswerKeeps DEF ReserveRefused, Fail
    <3>5. CASE Batch(d)
      BY <3>5, BatchMoves
    <3> QED
      BY <1>3, <3>1, <3>2, <3>3, <3>4, <3>5 DEF Ingest
  <2>3. OwedJournals' \subseteq OwedJournals
    BY <1>0, <2>1, <2>2 DEF OwedJournals, At, blobs
  <2>4. OwedBodies' \subseteq OwedBodies
    BY <1>0, <2>1, <2>2 DEF OwedBodies, Content, blobs
  <2> QED
    BY <1>s, <2>3, <2>4
<1> QED
  BY <1>1, <1>2, <1>3

LEMMA QuotaStep == TypeOK /\ TypeOK' /\ QuotaInv /\ [Next]_vars => QuotaInv'
<1> SUFFICES ASSUME TypeOK, TypeOK', QuotaInv, [Next]_vars PROVE QuotaInv'
  OBVIOUS
<1>0. usage.stored \in Nat /\ usage'.stored \in Nat
  BY DEF TypeOK, Usage
<1>1. CASE UNCHANGED vars \/ NextMonth
  <2>1. OwedJournals' = OwedJournals /\ OwedBodies' = OwedBodies /\ usage' = usage
    BY <1>1 DEF vars, NextMonth, blobs, OwedJournals, OwedBodies, At, Content
  <2> QED
    BY <2>1 DEF QuotaInv, Within
<1>2. ASSUME NEW d \in Deliveries, Reserve(d) PROVE QuotaInv'
  <2>1. /\ \A e \in Deliveries \ {d} : del'[e] = del[e]
        /\ del'[d].pc \in {"journal", "failing"}
    BY <1>2, ReturnsKeeps DEF Reserve
  <2>2. UNCHANGED <<blobs, message>>
    BY <1>2 DEF Reserve
  <2>3. usage'.stored = usage.stored + BytesOf(d) /\ usage'.stored <= MaxStored
    BY <1>2 DEF Reserve, Fits, TypeOK, Usage
  <2>4. JournalBytes[message[d]] \in Nat /\ ObjectBytes[Content(d)] \in Nat
    <3>1. message[d] \in Messages
      BY DEF TypeOK
    <3>2. Content(d) \in SUBSET Contents
      BY <3>1, ConstantsAssumption DEF Content, Message
    <3> QED
      BY <3>1, <3>2, ConstantsAssumption
  <2>5. Within(OwedJournals \cup {message[d]}, OwedBodies \cup {Content(d)}, usage'.stored)
    <3>1. Within(OwedJournals, OwedBodies, usage.stored)
      BY DEF QuotaInv
    <3>2. Within(OwedJournals \cup {message[d]}, OwedBodies \cup {Content(d)},
                 usage.stored + (JournalBytes[message[d]] + ObjectBytes[Content(d)]))
      BY <1>0, <2>4, <3>1, WithinMore
    <3> QED
      BY <2>3, <3>2 DEF BytesOf
  <2>6. OwedJournals' \subseteq OwedJournals \cup {message[d]}
    BY <2>1, <2>2 DEF OwedJournals, At, blobs
  <2>7. OwedBodies' \subseteq OwedBodies \cup {Content(d)}
    BY <2>1, <2>2 DEF OwedBodies, Content, blobs
  <2>8. Within(OwedJournals', OwedBodies', usage'.stored)
    BY <1>0, <2>5, <2>6, <2>7, WithinFewer
  <2> QED
    BY <2>3, <2>8 DEF QuotaInv, Within
<1>3. ASSUME NEW d \in Deliveries, Ingest(d), ~Reserve(d) PROVE QuotaInv'
  <2>1. /\ OwedJournals' \subseteq OwedJournals /\ OwedBodies' \subseteq OwedBodies
        /\ usage'.stored = usage.stored
    BY <1>3, OwedUnlessReserved
  <2>2. Within(OwedJournals', OwedBodies', usage.stored)
    BY <1>0, <2>1, WithinFewer DEF QuotaInv
  <2> QED
    BY <2>1, <2>2 DEF QuotaInv, Within
<1> QED
  BY <1>1, <1>2, <1>3 DEF Next

\* The bytes in R2 stay within what was reserved, and the reservation within its limit,
\* although deliveries of one message reserve and put it side by side and any of them
\* may stop between its reservation and its puts.
THEOREM ReplicaStaysInQuota == Spec => []ReservationCovers
<1>1. Init => QuotaInv
  <2> SUFFICES ASSUME Init PROVE QuotaInv
    OBVIOUS
  <2>1. OwedJournals = {} /\ OwedBodies = {}
    BY DEF Init, OwedJournals, OwedBodies, At
  <2>2. Bytes({}, JournalBytes) = {} /\ Bytes({}, ObjectBytes) = {}
    BY DEF Bytes
  <2>3. usage.stored = 0 /\ MaxStored \in Nat
    BY ConstantsAssumption DEF Init
  <2> QED
    BY <2>1, <2>2, <2>3, FS_EmptySet DEF QuotaInv, Within
<1>2. TypeOK /\ QuotaInv => ReservationCovers
  <2> SUFFICES ASSUME TypeOK, QuotaInv PROVE ReservationCovers
    OBVIOUS
  <2>1. journals \subseteq OwedJournals /\ {{c} : c \in bodies} \subseteq OwedBodies
    BY DEF OwedJournals, OwedBodies
  <2>2. Within(journals, {{c} : c \in bodies}, usage.stored)
    BY <2>1, WithinFewer DEF QuotaInv, TypeOK, Usage
  <2> QED
    BY <2>2 DEF Within, QuotaInv, ReservationCovers, StoredBytes
<1> QED
  BY <1>1, <1>2, QuotaStep, ReplicaTypeCorrect, PTL DEF Spec
=============================================================================
