-------------------------- MODULE EventIngestProofs --------------------------
(***************************************************************************)
(* Proofs about the notifier, for any notifiers, entries, rows, batches    *)
(* and faults.  EventIngest: no event is acknowledged away, and each fault *)
(* leaves at most one batch unrecorded.  NotificationOutbox: a row is      *)
(* given up only after its attempts, SENT only with a delivery, and never  *)
(* dispatched over and over by two pods that share it.                     *)
(***************************************************************************)
EXTENDS EventIngest, NotificationOutbox, FiniteSetTheorems, FunctionTheorems,
        SequenceTheorems, TLAPS

Recorded == DOMAIN events
Consumer == [pc: {"down", "read", "entry", "save", "fanout", "processed", "ack"},
             batch: Seq(1..MaxEntries)]
Held(n) == {ingest[n].batch[i] : i \in 1..Len(ingest[n].batch)}

\* The types; the group never reads ahead of the stream.
IngestShape ==
    /\ stream \in StreamType(MaxEntries) /\ stream.last <= stream.size
    /\ Recorded \subseteq {SourceId(e) : e \in 1..MaxEntries}
    /\ \A k \in Recorded : events[k] \in BOOLEAN
    /\ outboxRows = {}
    /\ ingest \in [Notifiers -> Consumer]
    /\ ingestFaults \in 0..MaxIngestFaults

\* What a consumer may be doing: a batch only while it works through it, and
\* beyond the save only with an entry that is well-formed and recorded.
GoodConsumer(c, rec) ==
    /\ c.batch = <<>> <=> c.pc \in {"down", "read"}
    /\ Len(c.batch) <= BatchSize
    /\ c.pc \in {"save", "fanout", "processed", "ack"} => Head(c.batch) \notin Malformed
    /\ c.pc \in {"fanout", "processed", "ack"} => SourceId(Head(c.batch)) \in rec
ConsumersGood == \A n \in Notifiers : GoodConsumer(ingest[n], Recorded)

\* Entries nobody will look at again and of which no event exists.
Safe(e) == e \notin Malformed /\ SourceId(e) \in Recorded
Lost == {e \in Stranded : ~Safe(e)}
LostBounded == Cardinality(Lost) <= ingestFaults * BatchSize

\* The inductive invariant.
IngestInv == IngestShape /\ ConsumersGood /\ AckedIsRecorded /\ LostBounded

-----------------------------------------------------------------------------
\* An entry is in hand when some pod holds it.
LEMMA InHandIsHeld ==
    ASSUME NEW e PROVE e \in InHand <=> \E n \in Notifiers : e \in Held(n)
BY DEF InHand, Held

\* A batch has no more entries than its length.
LEMMA SmallBatch ==
    ASSUME NEW S, NEW b \in Seq(S)
    PROVE  LET R == {b[i] : i \in 1..Len(b)}
           IN  IsFiniteSet(R) /\ Cardinality(R) <= Len(b)
<1> DEFINE R == {b[i] : i \in 1..Len(b)}
           f == [i \in 1..Len(b) |-> b[i]]
<1>1. Len(b) \in Nat
  OBVIOUS
<1>2. IsFiniteSet(1..Len(b)) /\ Cardinality(1..Len(b)) = Len(b)
  <2>1. \A n \in Nat : IsFiniteSet(1..n) /\ Cardinality(1..n) = n
    BY FS_Interval
  <2> QED BY <1>1, <2>1
<1>3. f \in Surjection(1..Len(b), R)
  BY DEF Surjection
<1> HIDE DEF f, R
<1>4. IsFiniteSet(R) /\ Cardinality(R) <= Cardinality(1..Len(b))
  BY <1>2, <1>3, FS_Surjection
<1> QED BY <1>2, <1>4 DEF R

\* What XREADGROUP hands out of a stream with unread entries: some of them, no
\* more than a batch, none beyond the end of the stream.
LEMMA UnreadWindow ==
    ASSUME NEW m \in Nat, NEW count \in Nat \ {0},
           NEW st, st.size \in 0..m, st.last \in 0..m, st.last < st.size
    PROVE  /\ Unread(st, count) \in Seq(1..m) /\ Unread(st, count) # <<>>
           /\ Len(Unread(st, count)) <= count
           /\ st.last + Len(Unread(st, count)) \in 0..m
           /\ st.last + Len(Unread(st, count)) <= st.size
           /\ {Unread(st, count)[i] : i \in 1..Len(Unread(st, count))} \subseteq 1..m
<1> DEFINE u == Unread(st, count)
           size == st.size
           last == st.last
           k == IF size - last < count THEN size - last ELSE count
<1>1. u = [i \in 1..k |-> last + i]
  BY DEF Unread
<1>2. size \in 0..m /\ last \in 0..m /\ last < size
  OBVIOUS
<1> HIDE DEF u, size, last
<1>3. k \in Nat /\ 1 <= k /\ k <= count /\ last + k <= size
  BY <1>2
<1> HIDE DEF k
<1>4. \A i \in 1..k : last + i \in 1..m
  BY <1>2, <1>3
<1>5. u \in Seq(1..m) /\ Len(u) = k
  BY <1>1, <1>3, <1>4
<1>6. {u[i] : i \in 1..Len(u)} \subseteq 1..m
  BY <1>1, <1>4, <1>5
<1>7. u # <<>> /\ last + Len(u) \in 0..m
  BY <1>2, <1>3, <1>5
<1> QED BY <1>3, <1>5, <1>6, <1>7 DEF u, size, last

\* The rest of a batch, and what it has lost.
LEMMA RestOfBatch ==
    ASSUME NEW S, NEW b \in Seq(S), b # <<>>
    PROVE  /\ Head(b) \in S /\ Tail(b) \in Seq(S) /\ Len(Tail(b)) = Len(b) - 1
           /\ Head(b) \in {b[i] : i \in 1..Len(b)}
           /\ \A e \in {b[i] : i \in 1..Len(b)} :
                 e = Head(b) \/ e \in {Tail(b)[i] : i \in 1..Len(Tail(b))}
<1>1. Len(b) \in Nat \ {0} /\ Head(b) = b[1] /\ Tail(b) \in Seq(S) /\ Len(Tail(b)) = Len(b) - 1
  OBVIOUS
<1>2. \A i \in 1..Len(b) : i # 1 => i - 1 \in 1..Len(Tail(b)) /\ Tail(b)[i - 1] = b[i]
  BY <1>1
<1>3. Head(b) \in S /\ 1 \in 1..Len(b)
  BY <1>1
<1> QED BY <1>1, <1>2, <1>3

\* A consumer's step: what it must say of its own batch.
LEMMA ConsumerMoves ==
    ASSUME IngestInv, IngestShape', NEW n \in Notifiers, NEW c \in Consumer,
           ingest' = [ingest EXCEPT ![n] = c],
           Recorded \subseteq Recorded', GoodConsumer(c, Recorded'),
           \A e \in stream'.acked : e \in stream.acked \/ e \in Malformed \/ SourceId(e) \in Recorded',
           \/ /\ ingestFaults' = ingestFaults
              /\ \A e \in stream'.pending :
                    \/ e \in stream.pending /\ e \notin Held(n)
                    \/ e \in {c.batch[i] : i \in 1..Len(c.batch)}
                    \/ Safe(e)'
           \/ ingestFaults' = ingestFaults + 1 /\ stream'.pending \subseteq stream.pending
    PROVE  IngestInv'
<1> USE IngestAssumption
<1>0. IngestShape /\ ConsumersGood /\ AckedIsRecorded /\ LostBounded
  BY DEF IngestInv
<1>1. ingest'[n] = c /\ \A m \in Notifiers : m # n => ingest'[m] = ingest[m]
  BY <1>0 DEF IngestShape
<1>2. ConsumersGood'
  <2> SUFFICES ASSUME NEW m \in Notifiers PROVE GoodConsumer(ingest'[m], Recorded')
    BY DEF ConsumersGood
  <2>1. CASE m = n
    BY <1>1, <2>1
  <2>2. CASE m # n
    <3>1. GoodConsumer(ingest[m], Recorded)
      BY <1>0 DEF ConsumersGood
    <3> QED BY <1>1, <2>2, <3>1 DEF GoodConsumer
  <2> QED BY <2>1, <2>2
<1>3. AckedIsRecorded'
  BY <1>0 DEF AckedIsRecorded, Recorded
<1>4. \A e : Safe(e) => Safe(e)'
  BY DEF Safe
<1>5. Held(n)' = {c.batch[i] : i \in 1..Len(c.batch)}
      /\ \A m \in Notifiers : m # n => Held(m)' = Held(m)
  BY <1>1 DEF Held
<1>6. \A e \in Lost' : /\ e \in stream'.pending /\ e \notin Held(n)' /\ ~Safe(e)'
                       /\ \A m \in Notifiers : m # n => e \notin Held(m)
  <2>1. \A e : e \in InHand' <=> \E m \in Notifiers : e \in Held(m)'
    BY DEF InHand, Held
  <2>2. \A e \in Lost' : e \in stream'.pending /\ e \notin InHand' /\ ~Safe(e)'
    BY DEF Lost, Stranded
  <2> QED BY <1>5, <2>1, <2>2
<1>7. \A e \in Lost' : e \in stream.pending => e \in Lost \/ e \in Held(n)
  BY <1>4, <1>6, InHandIsHeld DEF Lost, Stranded
<1>8. LostBounded'
  <2>1. IsFiniteSet(Lost) /\ Cardinality(Lost) \in Nat
    <3>1. IsFiniteSet(1..MaxEntries)
      BY FS_Interval
    <3>2. Lost \in SUBSET (1..MaxEntries)
      BY <1>0 DEF Lost, Stranded, IngestShape, StreamType
    <3> QED BY <3>1, <3>2, FS_Subset, FS_CardinalityType
  <2>2. ingestFaults \in Nat /\ BatchSize \in Nat
    BY <1>0 DEF IngestShape
  <2>3. CASE /\ ingestFaults' = ingestFaults
             /\ \A e \in stream'.pending :
                    \/ e \in stream.pending /\ e \notin Held(n)
                    \/ e \in {c.batch[i] : i \in 1..Len(c.batch)}
                    \/ Safe(e)'
    <3>1. Lost' \in SUBSET Lost
      BY <1>5, <1>6, <1>7, <2>3
    <3>2. Cardinality(Lost') <= Cardinality(Lost) /\ Cardinality(Lost') \in Nat
      BY <2>1, <3>1, FS_Subset, FS_CardinalityType
    <3>3. ingestFaults * BatchSize \in Nat /\ Cardinality(Lost) <= ingestFaults * BatchSize
      BY <1>0, <2>2 DEF LostBounded
    <3>4. Cardinality(Lost') <= ingestFaults * BatchSize
      BY <2>1, <3>2, <3>3
    <3> QED BY <2>3, <3>4 DEF LostBounded
  <2>4. CASE ingestFaults' = ingestFaults + 1 /\ stream'.pending \subseteq stream.pending
    <3>1. Lost' \in SUBSET (Lost \cup Held(n))
      BY <1>6, <1>7, <2>4
    <3>2. IsFiniteSet(Held(n)) /\ Cardinality(Held(n)) <= Len(ingest[n].batch)
      <4>1. ingest[n].batch \in Seq(1..MaxEntries)
        BY <1>0 DEF IngestShape, Consumer
      <4> QED BY <4>1, SmallBatch DEF Held
    <3>3. Cardinality(Held(n)) \in Nat /\ Cardinality(Held(n)) <= BatchSize
      <4>1. Len(ingest[n].batch) <= BatchSize /\ Len(ingest[n].batch) \in Nat
        BY <1>0 DEF ConsumersGood, GoodConsumer, IngestShape, Consumer
      <4>2. Cardinality(Held(n)) \in Nat
        BY <3>2, FS_CardinalityType
      <4> QED BY <2>2, <3>2, <4>1, <4>2
    <3>4. /\ IsFiniteSet(Lost \cup Held(n))
          /\ Cardinality(Lost \cup Held(n)) <= Cardinality(Lost) + Cardinality(Held(n))
      <4>1. /\ IsFiniteSet(Lost \cup Held(n)) /\ Cardinality(Lost \cap Held(n)) \in Nat
            /\ Cardinality(Lost \cup Held(n)) =
               Cardinality(Lost) + Cardinality(Held(n)) - Cardinality(Lost \cap Held(n))
        <5>1. IsFiniteSet(Lost \cap Held(n))
          BY <2>1, FS_Intersection
        <5> QED BY <2>1, <3>2, <5>1, FS_Union, FS_CardinalityType
      <4> QED BY <2>1, <3>3, <4>1
    <3>5. /\ Cardinality(Lost') \in Nat /\ Cardinality(Lost \cup Held(n)) \in Nat
          /\ Cardinality(Lost') <= Cardinality(Lost \cup Held(n))
      BY <3>1, <3>4, FS_Subset, FS_CardinalityType
    <3>6. Cardinality(Lost') <= ingestFaults * BatchSize + BatchSize
      <4>1. ingestFaults * BatchSize \in Nat /\ Cardinality(Lost) <= ingestFaults * BatchSize
        BY <1>0, <2>2 DEF LostBounded
      <4> QED BY <2>1, <2>2, <3>3, <3>4, <3>5, <4>1
    <3>7. (ingestFaults + 1) * BatchSize = ingestFaults * BatchSize + BatchSize
      BY <2>2
    <3> QED BY <2>4, <3>6, <3>7 DEF LostBounded
  <2> QED BY <2>3, <2>4
<1> QED BY <1>2, <1>3, <1>8 DEF IngestInv

-----------------------------------------------------------------------------
\* What the loop goes on with after an entry.
LEMMA RestIsConsumer ==
    ASSUME NEW rest \in Seq(1..MaxEntries), Len(rest) <= BatchSize, NEW c,
           c = IF rest = <<>> THEN IngestIdle ELSE [pc |-> "entry", batch |-> rest]
    PROVE  c \in Consumer /\ c.batch = rest /\ \A rec : GoodConsumer(c, rec)
<1>1. \/ c = [pc |-> "read", batch |-> rest] /\ rest = <<>>
      \/ c = [pc |-> "entry", batch |-> rest] /\ rest # <<>>
  BY DEF IngestIdle
<1>2. c \in Consumer /\ c.batch = rest
  BY <1>1 DEF Consumer
<1>3. ASSUME NEW rec PROVE GoodConsumer(c, rec)
  <2>1. /\ c.pc \notin {"save", "fanout", "processed", "ack"}
        /\ rest = <<>> <=> c.pc \in {"down", "read"}
    BY <1>1
  <2> QED BY <1>2, <2>1 DEF GoodConsumer
<1> QED BY <1>2, <1>3

\* Acknowledging and going on with the next entry.
LEMMA NextConsumer ==
    ASSUME IngestInv, NEW n \in Notifiers, ingest[n].batch # <<>>
    PROVE  LET rest == Tail(ingest[n].batch)
               c == IF rest = <<>> THEN IngestIdle ELSE [pc |-> "entry", batch |-> rest]
           IN  /\ c \in Consumer /\ c.batch = rest
               /\ \A rec : GoodConsumer(c, rec)
               /\ Entry(n) \in 1..MaxEntries
               /\ \A e \in Held(n) : e = Entry(n) \/ e \in {rest[i] : i \in 1..Len(rest)}
<1> DEFINE b == ingest[n].batch
           rest == Tail(b)
           c == IF rest = <<>> THEN IngestIdle ELSE [pc |-> "entry", batch |-> rest]
<1>1. b \in Seq(1..MaxEntries) /\ Len(b) <= BatchSize
  BY DEF IngestInv, IngestShape, Consumer, ConsumersGood, GoodConsumer
<1>2. /\ Head(b) \in 1..MaxEntries /\ rest \in Seq(1..MaxEntries) /\ Len(rest) = Len(b) - 1
      /\ \A e \in {b[i] : i \in 1..Len(b)} :
            e = Head(b) \/ e \in {rest[i] : i \in 1..Len(rest)}
  BY <1>1, RestOfBatch
<1>3. Len(rest) <= BatchSize
  BY <1>1, <1>2, IngestAssumption
<1> HIDE DEF rest
<1>4. /\ c \in Consumer /\ c.batch = rest
      /\ \A rec : GoodConsumer(c, rec)
  BY <1>2, <1>3, RestIsConsumer
<1> HIDE DEF c
<1> QED BY <1>2, <1>4 DEF Entry, Held, c, rest

\* Every step keeps the types.
LEMMA IngestShapeStep ==
    ASSUME IngestInv, [IngestNext]_ingestVars PROVE IngestShape'
<1> USE IngestAssumption
<1>0. IngestShape /\ ConsumersGood
  BY DEF IngestInv
<1>1. CASE UNCHANGED ingestVars
  BY <1>0, <1>1 DEF ingestVars, IngestShape, Recorded
<1>2. CASE Produce
  <2>1. stream' \in StreamType(MaxEntries) /\ stream'.last <= stream'.size
    BY <1>0, <1>2 DEF Produce, XAdd, IngestShape, StreamType
  <2> QED BY <1>0, <1>2, <2>1 DEF Produce, IngestShape, Recorded
<1>3. ASSUME NEW n \in Notifiers,
             IngestStep(n) \/ HandlerFails(n) \/ DropFails(n) \/ NotifierCrash(n)
      PROVE  IngestShape'
  <2> DEFINE b == ingest[n].batch
             rest == Tail(b)
  <2>1. ingest[n] \in Consumer /\ (b = <<>> <=> ingest[n].pc \in {"down", "read"})
    BY <1>0 DEF IngestShape, ConsumersGood, GoodConsumer
  <2>2. ASSUME NEW c \in Consumer, ingest' = [ingest EXCEPT ![n] = c]
        PROVE  ingest' \in [Notifiers -> Consumer]
    BY <1>0, <2>2 DEF IngestShape
  <2>3. ASSUME b # <<>>, NextEntry(n) PROVE ingest' \in [Notifiers -> Consumer]
    BY <2>2, <2>3, NextConsumer DEF NextEntry
  <2>4. ASSUME NEW pc \in {"read", "entry", "save", "fanout", "processed", "ack"}, IngestGoto(n, pc)
        PROVE  ingest' \in [Notifiers -> Consumer]
    <3>1. [ingest[n] EXCEPT !.pc = pc] \in Consumer
      BY <2>1 DEF Consumer
    <3> QED BY <2>2, <2>4, <3>1 DEF IngestGoto
  <2>5. IngestIdle \in Consumer /\ IngestDown \in Consumer
    BY DEF IngestIdle, IngestDown, Consumer
  <2>6. ASSUME NEW e \in 1..MaxEntries, stream' = XAck(stream, e)
        PROVE  stream' \in StreamType(MaxEntries) /\ stream'.last <= stream'.size
    BY <1>0, <2>6 DEF XAck, IngestShape, StreamType
  <2>7. b # <<>> => Entry(n) \in 1..MaxEntries
    BY NextConsumer
  <2>8. CASE StartConsumer(n)
    <3>1. stream' \in StreamType(MaxEntries) /\ stream'.last <= stream'.size
      <4>1. /\ stream \in StreamType(MaxEntries) /\ stream.last <= stream.size
            /\ stream' = EnsureGroup(stream)
        BY <1>0, <2>8 DEF StartConsumer, IngestShape
      <4>2. CASE stream.grouped
        BY <4>1, <4>2 DEF EnsureGroup
      <4>3. CASE ~stream.grouped
        <5>1. stream' = [stream EXCEPT !.grouped = TRUE, !.last = stream.size]
          BY <4>1, <4>3 DEF EnsureGroup
        <5>2. stream' \in StreamType(MaxEntries) /\ stream'.last = stream.size
                                                /\ stream'.size = stream.size
          BY <4>1, <5>1 DEF StreamType
        <5>3. stream.size \in Nat
          BY <4>1 DEF StreamType
        <5> QED BY <5>2, <5>3
      <4> QED BY <4>2, <4>3
    <3>2. ingest' \in [Notifiers -> Consumer]
      BY <2>4, <2>8 DEF StartConsumer
    <3> QED BY <1>0, <2>8, <3>1, <3>2 DEF StartConsumer, IngestShape, Recorded
  <2>9. CASE ReadBatch(n)
    <3> DEFINE u == Unread(stream, BatchSize)
    <3>1. /\ stream.size \in 0..MaxEntries /\ stream.last \in 0..MaxEntries
          /\ stream.last < stream.size
      BY <1>0, <2>9 DEF ReadBatch, IngestShape, StreamType
    <3>2. MaxEntries \in Nat /\ BatchSize \in Nat \ {0}
      BY DEF IngestAssumption
    <3>3. /\ u \in Seq(1..MaxEntries) /\ {u[i] : i \in 1..Len(u)} \subseteq 1..MaxEntries
          /\ stream.last + Len(u) \in 0..MaxEntries /\ stream.last + Len(u) <= stream.size
      BY <3>1, <3>2, UnreadWindow, Zenon
    <3>4. ingest' \in [Notifiers -> Consumer]
      <4>1. [pc |-> "entry", batch |-> u] \in Consumer
        BY <3>3 DEF Consumer
      <4> QED BY <2>2, <2>9, <4>1 DEF ReadBatch
    <3>5. stream' \in StreamType(MaxEntries) /\ stream'.last <= stream'.size
      <4>1. stream' = [stream EXCEPT !.last = stream.last + Len(u),
                                     !.pending = stream.pending \cup {u[i] : i \in 1..Len(u)}]
        BY <2>9 DEF ReadBatch, XReadGroup
      <4> HIDE DEF u
      <4> QED BY <1>0, <3>3, <4>1 DEF IngestShape, StreamType
    <3> QED BY <1>0, <2>9, <3>4, <3>5 DEF ReadBatch, IngestShape, Recorded
  <2>10. CASE DropMalformed(n)
    <3>1. b # <<>>
      BY <2>1, <2>10 DEF DropMalformed
    <3> QED BY <1>0, <2>3, <2>6, <2>7, <2>10, <3>1 DEF DropMalformed, IngestShape, Recorded
  <2>11. CASE FindEvent(n)
    <3>1. ingest' \in [Notifiers -> Consumer]
      BY <2>4, <2>11 DEF FindEvent
    <3> QED BY <1>0, <2>11, <3>1 DEF FindEvent, IngestShape, Recorded
  <2>12. CASE SaveEvent(n)
    <3>1. b # <<>> /\ UNCHANGED <<stream, outboxRows, ingestFaults>>
      BY <2>1, <2>12 DEF SaveEvent
    <3>2. CASE SourceId(Entry(n)) \in DOMAIN events
      BY <1>0, <2>3, <2>12, <3>1, <3>2 DEF SaveEvent, IngestShape, Recorded
    <3>3. CASE SourceId(Entry(n)) \notin DOMAIN events
      <4>1. ingest' \in [Notifiers -> Consumer]
        BY <2>4, <2>12, <3>3 DEF SaveEvent
      <4>2. events' = [k \in DOMAIN events \cup {SourceId(Entry(n))} |->
                          IF k \in DOMAIN events THEN events[k] ELSE FALSE]
        BY <2>12, <3>3 DEF SaveEvent
      <4>3. /\ Recorded' = Recorded \cup {SourceId(Entry(n))}
            /\ \A k \in Recorded' : events'[k] \in BOOLEAN
        BY <1>0, <4>2 DEF Recorded, IngestShape
      <4> QED BY <1>0, <2>7, <3>1, <4>1, <4>3 DEF IngestShape
    <3> QED BY <3>2, <3>3
  <2>13. CASE FanoutToOutbox(n)
    <3>1. ingest' \in [Notifiers -> Consumer]
      BY <2>4, <2>13 DEF FanoutToOutbox
    <3>2. outboxRows' = {}
      BY <1>0, <2>13 DEF FanoutToOutbox, Resolve, IngestShape
    <3> QED BY <1>0, <2>13, <3>1, <3>2 DEF FanoutToOutbox, IngestShape, Recorded
  <2>14. CASE MarkProcessed(n)
    <3>1. ingest' \in [Notifiers -> Consumer]
      BY <2>4, <2>14 DEF MarkProcessed
    <3>2. events' = [events EXCEPT ![SourceId(Entry(n))] = TRUE]
      BY <2>14 DEF MarkProcessed
    <3>3. Recorded' = Recorded /\ \A k \in Recorded' : events'[k] \in BOOLEAN
      BY <1>0, <3>2 DEF Recorded, IngestShape
    <3> QED BY <1>0, <2>14, <3>1, <3>3 DEF MarkProcessed, IngestShape
  <2>15. CASE AckEntry(n)
    <3>1. b # <<>>
      BY <2>1, <2>15 DEF AckEntry
    <3> QED BY <1>0, <2>3, <2>6, <2>7, <2>15, <3>1 DEF AckEntry, IngestShape, Recorded
  <2>16. CASE HandlerFails(n) \/ DropFails(n) \/ NotifierCrash(n)
    <3>1. ingestFaults' \in 0..MaxIngestFaults /\ UNCHANGED <<stream, events, outboxRows>>
      BY <1>0, <2>16 DEF HandlerFails, DropFails, NotifierCrash, IngestShape
    <3>2. ingest' \in [Notifiers -> Consumer]
      <4>1. CASE HandlerFails(n)
        <5>1. b # <<>>
          BY <2>1, <4>1 DEF HandlerFails
        <5> QED BY <2>3, <4>1, <5>1 DEF HandlerFails
      <4>2. CASE DropFails(n) \/ NotifierCrash(n)
        BY <2>2, <2>5, <4>2 DEF DropFails, NotifierCrash
      <4> QED BY <2>16, <4>1, <4>2
    <3> QED BY <1>0, <3>1, <3>2 DEF IngestShape, Recorded
  <2> QED BY <1>3, <2>8, <2>9, <2>10, <2>11, <2>12, <2>13, <2>14, <2>15, <2>16 DEF IngestStep
<1> QED BY <1>1, <1>2, <1>3 DEF IngestNext

-----------------------------------------------------------------------------
\* The initial state.
LEMMA IngestInvInit == IngestInit => IngestInv
<1> SUFFICES ASSUME IngestInit PROVE IngestInv
  OBVIOUS
<1> USE IngestAssumption
<1>1. IngestShape
  <2>1. stream \in StreamType(MaxEntries) /\ stream.last <= stream.size
    BY DEF IngestInit, EmptyStream, StreamType
  <2>2. Recorded = {}
    BY DEF IngestInit, Recorded
  <2>3. ingest \in [Notifiers -> Consumer]
    BY DEF IngestInit, IngestDown, Consumer
  <2> QED BY <2>1, <2>2, <2>3 DEF IngestInit, IngestShape
<1>2. ConsumersGood
  BY DEF IngestInit, IngestDown, ConsumersGood, GoodConsumer
<1>3. AckedIsRecorded
  BY DEF IngestInit, EmptyStream, AckedIsRecorded
<1>4. LostBounded
  <2>1. Lost = {} /\ ingestFaults = 0
    BY DEF IngestInit, EmptyStream, Lost, Stranded
  <2>2. Cardinality(Lost) = 0 /\ ingestFaults * BatchSize = 0
    BY <2>1, FS_EmptySet
  <2> QED BY <2>2 DEF LostBounded
<1> QED BY <1>1, <1>2, <1>3, <1>4 DEF IngestInv

\* A step that moves no consumer.
LEMMA NobodyMoves ==
    ASSUME IngestInv, IngestShape', UNCHANGED <<ingest, events, ingestFaults>>,
           stream'.pending = stream.pending, stream'.acked = stream.acked
    PROVE  IngestInv'
<1>0. ConsumersGood /\ AckedIsRecorded /\ LostBounded
  BY DEF IngestInv
<1>1. Recorded' = Recorded /\ InHand' = InHand
  BY DEF Recorded, InHand
<1>2. Lost' = Lost
  BY <1>1 DEF Lost, Stranded, Safe
<1> QED BY <1>0, <1>1, <1>2 DEF IngestInv, ConsumersGood, AckedIsRecorded, LostBounded, Recorded

\* A call within the handler: the entry stays the same.
LEMMA SameEntry ==
    ASSUME IngestInv, IngestShape', NEW n \in Notifiers,
           NEW pc \in {"save", "fanout", "processed", "ack"}, IngestGoto(n, pc),
           ingest[n].batch # <<>>, UNCHANGED <<stream, ingestFaults>>,
           Recorded \subseteq Recorded', Entry(n) \notin Malformed,
           pc # "save" => SourceId(Entry(n)) \in Recorded'
    PROVE  IngestInv'
<1> DEFINE c == [ingest[n] EXCEPT !.pc = pc]
<1>0. IngestShape /\ ConsumersGood /\ AckedIsRecorded
  BY DEF IngestInv
<1>1. ingest[n] \in Consumer /\ Len(ingest[n].batch) <= BatchSize
  BY <1>0 DEF IngestShape, ConsumersGood, GoodConsumer
<1>2. c \in Consumer /\ c.pc = pc /\ c.batch = ingest[n].batch
  BY <1>1 DEF Consumer
<1>3. ingest' = [ingest EXCEPT ![n] = c]
  BY DEF IngestGoto
<1> HIDE DEF c
<1>4. GoodConsumer(c, Recorded')
  BY <1>1, <1>2 DEF GoodConsumer, Entry
<1>5. \A e \in stream'.acked : e \in stream.acked \/ e \in Malformed \/ SourceId(e) \in Recorded'
  OBVIOUS
<1>6. \A e \in stream'.pending :
        \/ e \in stream.pending /\ e \notin Held(n)
        \/ e \in {c.batch[i] : i \in 1..Len(c.batch)}
  BY <1>2 DEF Held
<1> QED BY <1>2, <1>3, <1>4, <1>5, <1>6, ConsumerMoves

\* The entry is done with: acknowledged, or recorded, or lost to a fault.
LEMMA EntryDone ==
    ASSUME IngestInv, IngestShape', NEW n \in Notifiers, NextEntry(n),
           ingest[n].batch # <<>>, UNCHANGED events,
           \/ /\ stream' = XAck(stream, Entry(n)) /\ ingestFaults' = ingestFaults
              /\ Entry(n) \in Malformed \/ SourceId(Entry(n)) \in Recorded
           \/ stream' = stream /\ ingestFaults' = ingestFaults /\ Safe(Entry(n))
           \/ stream' = stream /\ ingestFaults' = ingestFaults + 1
    PROVE  IngestInv'
<1> DEFINE rest == Tail(ingest[n].batch)
           c == IF rest = <<>> THEN IngestIdle ELSE [pc |-> "entry", batch |-> rest]
<1>1. /\ c \in Consumer /\ c.batch = rest
      /\ GoodConsumer(c, Recorded')
      /\ Entry(n) \in 1..MaxEntries
      /\ \A e \in Held(n) : e = Entry(n) \/ e \in {rest[i] : i \in 1..Len(rest)}
  BY NextConsumer
<1>2. ingest' = [ingest EXCEPT ![n] = c]
  BY DEF NextEntry
<1>3. PICK x : x = Entry(n)
  OBVIOUS
<1>4. Recorded' = Recorded /\ (Safe(x) => Safe(x)')
  BY DEF Recorded, Safe
<1> HIDE DEF c, rest
<1>5. /\ \A e \in Held(n) : e = x \/ e \in {c.batch[i] : i \in 1..Len(c.batch)}
      /\ x \in 1..MaxEntries
  BY <1>1, <1>3
<1>6. CASE /\ stream' = XAck(stream, Entry(n)) /\ ingestFaults' = ingestFaults
           /\ Entry(n) \in Malformed \/ SourceId(Entry(n)) \in Recorded
  <2>1. stream'.pending = stream.pending \ {x} /\ stream'.acked = stream.acked \cup {x}
    BY <1>3, <1>6 DEF XAck, IngestInv, IngestShape, StreamType
  <2>2. \A e \in stream'.acked : e \in stream.acked \/ e \in Malformed \/ SourceId(e) \in Recorded'
    BY <1>3, <1>4, <1>6, <2>1
  <2>3. \A e \in stream'.pending :
          \/ e \in stream.pending /\ e \notin Held(n)
          \/ e \in {c.batch[i] : i \in 1..Len(c.batch)}
    BY <1>5, <2>1
  <2> QED BY <1>1, <1>2, <1>4, <1>6, <2>2, <2>3, ConsumerMoves
<1>7. CASE stream' = stream /\ ingestFaults' = ingestFaults /\ Safe(Entry(n))
  <2>1. \A e \in stream'.acked : e \in stream.acked \/ e \in Malformed \/ SourceId(e) \in Recorded'
    BY <1>7
  <2>2. Safe(x)'
    BY <1>3, <1>4, <1>7
  <2>3. \A e \in stream'.pending :
          \/ e \in stream.pending /\ e \notin Held(n)
          \/ e \in {c.batch[i] : i \in 1..Len(c.batch)}
          \/ Safe(e)'
    BY <1>5, <1>7, <2>2
  <2> QED BY <1>1, <1>2, <1>4, <1>7, <2>1, <2>3, ConsumerMoves
<1>8. CASE stream' = stream /\ ingestFaults' = ingestFaults + 1
  <2>1. \A e \in stream'.acked : e \in stream.acked \/ e \in Malformed \/ SourceId(e) \in Recorded'
    BY <1>8
  <2>2. stream'.pending \subseteq stream.pending
    BY <1>8
  <2> QED BY <1>1, <1>2, <1>4, <1>8, <2>1, <2>2, ConsumerMoves
<1> QED BY <1>6, <1>7, <1>8

\* Steps that start or end a batch.
LEMMA BatchStep ==
    ASSUME IngestInv, IngestShape', NEW n \in Notifiers,
           StartConsumer(n) \/ ReadBatch(n) \/ DropFails(n) \/ NotifierCrash(n)
    PROVE  IngestInv'
<1> USE IngestAssumption
<1>0. IngestShape /\ ConsumersGood /\ AckedIsRecorded
  BY DEF IngestInv
<1>1. /\ ingest[n] \in Consumer /\ stream \in StreamType(MaxEntries)
      /\ ingest[n].pc \in {"down", "read"} => ingest[n].batch = <<>> /\ Held(n) = {}
  <2>1. ingest[n].batch = <<>> => Held(n) = {}
    BY DEF Held
  <2> QED BY <1>0, <2>1 DEF IngestShape, ConsumersGood, GoodConsumer
<1>2. Recorded' = Recorded
  BY DEF StartConsumer, ReadBatch, DropFails, NotifierCrash, Recorded
<1>3. /\ IngestIdle \in Consumer /\ GoodConsumer(IngestIdle, Recorded')
      /\ IngestDown \in Consumer /\ GoodConsumer(IngestDown, Recorded')
  BY DEF IngestIdle, IngestDown, Consumer, GoodConsumer
<1>4. CASE StartConsumer(n)
  <2>1. ingest' = [ingest EXCEPT ![n] = IngestIdle] /\ ingestFaults' = ingestFaults
    <3>1. [ingest[n] EXCEPT !.pc = "read"] = IngestIdle
      BY <1>1, <1>4 DEF StartConsumer, IngestIdle, Consumer
    <3> QED BY <1>4, <3>1 DEF StartConsumer, IngestGoto
  <2>2. stream'.pending = stream.pending /\ stream'.acked = stream.acked
    BY <1>1, <1>4 DEF StartConsumer, EnsureGroup, StreamType
  <2>3. Held(n) = {}
    BY <1>1, <1>4 DEF StartConsumer
  <2>4. \A e \in stream'.acked : e \in stream.acked \/ e \in Malformed \/ SourceId(e) \in Recorded'
    BY <2>2
  <2>5. \A e \in stream'.pending : e \in stream.pending /\ e \notin Held(n)
    BY <2>2, <2>3
  <2> QED BY <1>2, <1>3, <2>1, <2>4, <2>5, ConsumerMoves
<1>5. CASE ReadBatch(n)
  <2> DEFINE u == Unread(stream, BatchSize)
             c == [pc |-> "entry", batch |-> u]
  <2>1. ingest' = [ingest EXCEPT ![n] = c] /\ ingestFaults' = ingestFaults
    BY <1>5 DEF ReadBatch
  <2>2. u \in Seq(1..MaxEntries) /\ u # <<>> /\ Len(u) <= BatchSize
    <3>1. /\ stream.size \in 0..MaxEntries /\ stream.last \in 0..MaxEntries
          /\ stream.last < stream.size
      BY <1>1, <1>5 DEF ReadBatch, StreamType
    <3>2. MaxEntries \in Nat /\ BatchSize \in Nat \ {0}
      BY DEF IngestAssumption
    <3> QED BY <3>1, <3>2, UnreadWindow, Zenon
  <2>3. stream'.pending = stream.pending \cup {u[i] : i \in 1..Len(u)} /\ stream'.acked = stream.acked
    BY <1>1, <1>5 DEF ReadBatch, XReadGroup, StreamType
  <2>4. Held(n) = {}
    BY <1>1, <1>5 DEF ReadBatch
  <2> HIDE DEF u
  <2>5. c \in Consumer /\ c.batch = u /\ c.pc = "entry"
    BY <2>2 DEF Consumer
  <2> HIDE DEF c
  <2>6. GoodConsumer(c, Recorded')
    BY <2>2, <2>5 DEF GoodConsumer
  <2>7. \A e \in stream'.acked : e \in stream.acked \/ e \in Malformed \/ SourceId(e) \in Recorded'
    BY <2>3
  <2>8. \A e \in stream'.pending :
          \/ e \in stream.pending /\ e \notin Held(n)
          \/ e \in {c.batch[i] : i \in 1..Len(c.batch)}
    BY <2>3, <2>4, <2>5
  <2> QED BY <1>2, <2>1, <2>5, <2>6, <2>7, <2>8, ConsumerMoves
<1>6. CASE DropFails(n) \/ NotifierCrash(n)
  <2>1. PICK c \in {IngestIdle, IngestDown} : ingest' = [ingest EXCEPT ![n] = c]
    BY <1>6 DEF DropFails, NotifierCrash
  <2>2. ingestFaults' = ingestFaults + 1 /\ stream' = stream
    BY <1>6 DEF DropFails, NotifierCrash
  <2>3. /\ stream'.pending \subseteq stream.pending
        /\ \A e \in stream'.acked : e \in stream.acked \/ e \in Malformed \/ SourceId(e) \in Recorded'
    BY <2>2
  <2>4. c \in Consumer /\ GoodConsumer(c, Recorded')
    BY <1>3, <2>1
  <2> QED BY <1>2, <2>1, <2>2, <2>3, <2>4, ConsumerMoves
<1> QED BY <1>4, <1>5, <1>6

\* Every step keeps the invariant.
LEMMA IngestInvStep == IngestInv /\ [IngestNext]_ingestVars => IngestInv'
<1> SUFFICES ASSUME IngestInv, [IngestNext]_ingestVars PROVE IngestInv'
  OBVIOUS
<1>0. IngestShape' /\ IngestShape /\ ConsumersGood
  BY IngestShapeStep DEF IngestInv
<1>1. CASE UNCHANGED ingestVars
  BY <1>0, <1>1, NobodyMoves DEF ingestVars
<1>2. CASE Produce
  <2>1. stream'.pending = stream.pending /\ stream'.acked = stream.acked
    BY <1>0, <1>2 DEF Produce, XAdd, IngestShape, StreamType
  <2> QED BY <1>0, <1>2, <2>1, NobodyMoves DEF Produce
<1>3. ASSUME NEW n \in Notifiers,
             IngestStep(n) \/ HandlerFails(n) \/ DropFails(n) \/ NotifierCrash(n)
      PROVE  IngestInv'
  <2>0. /\ ingest[n].batch = <<>> <=> ingest[n].pc \in {"down", "read"}
        /\ ingest[n].pc \in {"save", "fanout", "processed", "ack"} => Entry(n) \notin Malformed
        /\ ingest[n].pc \in {"fanout", "processed", "ack"} => SourceId(Entry(n)) \in Recorded
        /\ ingest[n] \in Consumer
    BY <1>0 DEF ConsumersGood, GoodConsumer, Entry, IngestShape
  <2>1. CASE StartConsumer(n) \/ ReadBatch(n) \/ DropFails(n) \/ NotifierCrash(n)
    BY <1>0, <2>1, BatchStep
  <2>2. CASE DropMalformed(n)
    BY <1>0, <2>0, <2>2, EntryDone DEF DropMalformed
  <2>3. CASE FindEvent(n)
    <3>1. PICK pc \in {"ack", "save"} :
            IngestGoto(n, pc) /\ (pc # "save" => SourceId(Entry(n)) \in Recorded)
      BY <2>3 DEF FindEvent, Recorded
    <3>2. Recorded' = Recorded /\ ingest[n].batch # <<>> /\ Entry(n) \notin Malformed
      BY <2>0, <2>3 DEF FindEvent, Recorded
    <3> QED BY <1>0, <2>3, <3>1, <3>2, SameEntry DEF FindEvent
  <2>4. CASE SaveEvent(n) /\ SourceId(Entry(n)) \in Recorded
    <3>1. Safe(Entry(n)) /\ ingest[n].batch # <<>>
      BY <2>0, <2>4 DEF SaveEvent, Safe
    <3>2. NextEntry(n) /\ UNCHANGED <<events, stream, ingestFaults>>
      BY <2>4 DEF SaveEvent, Recorded
    <3> QED BY <1>0, <3>1, <3>2, EntryDone
  <2>5. CASE SaveEvent(n) /\ SourceId(Entry(n)) \notin Recorded
    <3>1. IngestGoto(n, "fanout") /\ UNCHANGED <<stream, ingestFaults>>
      BY <2>5 DEF SaveEvent, Recorded
    <3>2. Recorded' = Recorded \cup {SourceId(Entry(n))}
      BY <2>5 DEF SaveEvent, Recorded
    <3>3. ingest[n].batch # <<>> /\ Entry(n) \notin Malformed
      BY <2>0, <2>5 DEF SaveEvent
    <3> QED BY <1>0, <3>1, <3>2, <3>3, SameEntry
  <2>6. CASE FanoutToOutbox(n) \/ MarkProcessed(n)
    <3>1. PICK pc \in {"processed", "ack"} : IngestGoto(n, pc)
      BY <2>6 DEF FanoutToOutbox, MarkProcessed
    <3>2. Recorded' = Recorded /\ UNCHANGED <<stream, ingestFaults>>
      BY <2>6 DEF FanoutToOutbox, MarkProcessed, Recorded
    <3>3. /\ ingest[n].batch # <<>> /\ Entry(n) \notin Malformed
          /\ SourceId(Entry(n)) \in Recorded
      BY <2>0, <2>6 DEF FanoutToOutbox, MarkProcessed
    <3> QED BY <1>0, <3>1, <3>2, <3>3, SameEntry
  <2>7. CASE AckEntry(n)
    <3>1. SourceId(Entry(n)) \in Recorded /\ ingest[n].batch # <<>>
      BY <2>0, <2>7 DEF AckEntry
    <3> QED BY <1>0, <2>7, <3>1, EntryDone DEF AckEntry
  <2>8. CASE HandlerFails(n)
    <3>1. ingest[n].batch # <<>>
      BY <2>0, <2>8 DEF HandlerFails
    <3> QED BY <1>0, <2>8, <3>1, EntryDone DEF HandlerFails
  <2> QED BY <1>3, <2>1, <2>2, <2>3, <2>4, <2>5, <2>6, <2>7, <2>8 DEF IngestStep
<1> QED BY <1>1, <1>2, <1>3 DEF IngestNext

-----------------------------------------------------------------------------
\* The stream, the consumers of RedisStreamConsumer.loop and the events table keep
\* their types.
THEOREM IngestTypes == IngestSpec => []IngestTypeOK
<1>1. IngestInv => IngestTypeOK
  BY DEF IngestInv, IngestShape, IngestTypeOK, Recorded, Consumer
<1> QED BY <1>1, IngestInvInit, IngestInvStep, PTL DEF IngestSpec

LEMMA IngestInvHandled == IngestInv => EntriesHandled
<1> SUFFICES ASSUME IngestInv PROVE EntriesHandled
  OBVIOUS
<1>1. Lost = {e \in Stranded : e \in Malformed \/ SourceId(e) \notin DOMAIN events}
  BY DEF Lost, Safe, Recorded
<1> QED BY <1>1 DEF IngestInv, LostBounded, EntriesHandled, StrandedOnlyByFaults

\* Whatever calls fail, whichever pods die or race on a source id: an acknowledged
\* event is recorded, and each fault leaves at most a batch without one.
THEOREM EventsAreHandled == IngestSpec => []EntriesHandled
BY IngestInvHandled, IngestInvInit, IngestInvStep, PTL DEF IngestSpec

-----------------------------------------------------------------------------
(***************************************************************************)
(* NotificationOutbox.  A row's attempts are counted by unguarded          *)
(* read-modify-writes, so they may run behind the dispatches; they never   *)
(* run ahead of them: attempts, as stored or as some pod has read them,    *)
(* plus the dispatches whose outcome is not written yet are at most the    *)
(* dispatches so far.                                                      *)
(***************************************************************************)
TickType == [pc: {"idle", "send", "delivery", "markSent", "markFailed", "update"},
             claimed: Seq(ClaimType), sent: BOOLEAN, read: Nat]

\* Between the dispatch of row r and the write of its outcome.
Flying == {"delivery", "markSent", "markFailed", "update"}
FlightOf(e, r) == e.pc \in Flying /\ Head(e.claimed).id = r
InFlight(r) == {d \in Dispatchers : FlightOf(tick[d], r)}
FlightCount == [r \in Notices |-> Cardinality(InFlight(r))]

\* What a running tick e has in hand, given the dispatches t, the delivered rows
\* del and the dispatches n in flight.
GoodTick(e, t, del, n) ==
    /\ e.pc = "idle" <=> e.claimed = <<>>
    /\ \A i \in 1..Len(e.claimed) : e.claimed[i].attempts <= t[e.claimed[i].id]
    /\ e.pc \in Flying => Head(e.claimed).attempts < t[Head(e.claimed).id]
    /\ e.pc = "markSent" => Head(e.claimed).id \in del
    /\ e.pc = "update" => e.read + n[Head(e.claimed).id] <= t[Head(e.claimed).id]

NoticeTypes ==
    /\ notice \in [Notices -> [status: {"PENDING", "SENT", "FAILED"}, attempts: Nat, due: BOOLEAN]]
    /\ tick \in [Dispatchers -> TickType]
    /\ tries \in [Notices -> Nat]
    /\ delivered \subseteq Notices
    /\ noticeFaults \in 0..MaxNoticeFaults

NoticeInv ==
    /\ NoticeTypes
    /\ \A d \in Dispatchers : GoodTick(tick[d], tries, delivered, FlightCount)
    /\ \A r \in Notices : notice[r].attempts + FlightCount[r] <= tries[r]
    /\ GivenUpAfterMaxAttempts /\ SentIsDelivered

\* The dispatches in flight are counted.
LEMMA FlightMoves ==
    ASSUME tick \in [Dispatchers -> TickType], NEW d \in Dispatchers, NEW e,
           tick' = [tick EXCEPT ![d] = e], NEW r \in Notices
    PROVE  /\ FlightCount[r] \in Nat /\ FlightCount'[r] \in Nat
           /\ FlightOf(e, r) /\ ~FlightOf(tick[d], r) => FlightCount'[r] = FlightCount[r] + 1
           /\ (FlightOf(e, r) <=> FlightOf(tick[d], r)) => FlightCount'[r] = FlightCount[r]
           /\ ~FlightOf(e, r) /\ FlightOf(tick[d], r) => FlightCount'[r] = FlightCount[r] - 1
<1>1. PICK A, B : A = InFlight(r) /\ B = InFlight(r)'
  OBVIOUS
<1>2. /\ A \subseteq Dispatchers /\ B \subseteq Dispatchers
      /\ d \in A <=> FlightOf(tick[d], r)
      /\ d \in B <=> FlightOf(e, r)
      /\ \A x : x # d => (x \in A <=> x \in B)
  <2>1. \A x \in Dispatchers : tick'[x] = IF x = d THEN e ELSE tick[x]
    OBVIOUS
  <2> QED BY <1>1, <2>1 DEF InFlight
<1>3. IsFiniteSet(A) /\ IsFiniteSet(B)
  BY <1>2, NoticeAssumption, FS_Subset
<1>4. Cardinality(A) \in Nat /\ Cardinality(B) \in Nat
  BY <1>3, FS_CardinalityType
<1>5. FlightCount[r] = Cardinality(A) /\ FlightCount'[r] = Cardinality(B)
  BY <1>1 DEF FlightCount
<1>6. CASE d \in A <=> d \in B
  <2>1. A = B
    BY <1>2, <1>6
  <2> QED BY <1>2, <1>4, <1>5, <1>6, <2>1
<1>7. CASE d \in B /\ d \notin A
  <2>1. B = A \cup {d}
    BY <1>2, <1>7
  <2>2. Cardinality(B) = Cardinality(A) + 1
    BY <1>3, <1>7, <2>1, FS_AddElement
  <2> QED BY <1>2, <1>4, <1>5, <1>7, <2>2
<1>8. CASE d \in A /\ d \notin B
  <2>1. A = B \cup {d}
    BY <1>2, <1>8
  <2>2. Cardinality(A) = Cardinality(B) + 1
    BY <1>3, <1>8, <2>1, FS_AddElement
  <2> QED BY <1>2, <1>4, <1>5, <1>8, <2>2
<1> QED BY <1>6, <1>7, <1>8

\* A tick that does not move stays good while dispatches are counted.
LEMMA GoodStays ==
    ASSUME NEW e \in TickType, NEW t \in [Notices -> Nat], NEW u \in [Notices -> Nat],
           NEW del, NEW del2, NEW n, NEW m,
           \A r \in Notices : n[r] \in Nat /\ m[r] \in Nat /\ t[r] <= u[r] /\ m[r] + t[r] <= n[r] + u[r],
           del \subseteq del2, GoodTick(e, t, del, n)
    PROVE  GoodTick(e, u, del2, m)
<1>1. e.claimed \in Seq(ClaimType) /\ e.read \in Nat
  BY DEF TickType
<1>2. \A i \in 1..Len(e.claimed) : e.claimed[i].id \in Notices /\ e.claimed[i].attempts \in Nat
  <2>1. \A i \in 1..Len(e.claimed) : e.claimed[i] \in ClaimType
    BY <1>1
  <2> QED BY <2>1 DEF ClaimType
<1>3. ASSUME e.claimed # <<>>
      PROVE  Head(e.claimed) = e.claimed[1] /\ 1 \in 1..Len(e.claimed)
  BY <1>1, <1>3
<1>4. e.pc \in Flying => e.claimed # <<>>
  BY DEF GoodTick, Flying
<1>5. \A i \in 1..Len(e.claimed) : e.claimed[i].attempts <= u[e.claimed[i].id]
  BY <1>2 DEF GoodTick
<1>6. ASSUME e.pc \in Flying
      PROVE  /\ Head(e.claimed).attempts < u[Head(e.claimed).id]
             /\ e.pc = "update" => e.read + m[Head(e.claimed).id] <= u[Head(e.claimed).id]
  <2>1. PICK h : h = Head(e.claimed)
    OBVIOUS
  <2>2. h.id \in Notices /\ h.attempts \in Nat
    BY <1>2, <1>3, <1>4, <1>6, <2>1
  <2>3. /\ h.attempts < t[h.id]
        /\ e.pc = "update" => e.read + n[h.id] <= t[h.id]
    BY <1>6, <2>1 DEF GoodTick
  <2>4. h.attempts < u[h.id]
    BY <2>2, <2>3
  <2>5. e.pc = "update" => e.read + m[h.id] <= u[h.id]
    BY <1>1, <2>2, <2>3
  <2> QED BY <2>1, <2>4, <2>5
<1> QED BY <1>5, <1>6 DEF GoodTick, Flying

\* A step of one tick that dispatches nothing unless it counts it leaves the
\* other ticks good and the rows' attempts behind the dispatches.
CountedMove(d, e) ==
    /\ tick' = [tick EXCEPT ![d] = e]
    /\ tries' \in [Notices -> Nat] /\ delivered \subseteq delivered' /\ delivered' \subseteq Notices
    /\ \A r \in Notices : tries[r] <= tries'[r]
    /\ \A r \in Notices : FlightOf(e, r) /\ ~FlightOf(tick[d], r) => tries[r] < tries'[r]
    /\ GoodTick(e, tries', delivered', FlightCount')

LEMMA TickMoves ==
    ASSUME NoticeInv, NEW d \in Dispatchers, NEW e \in TickType, CountedMove(d, e)
    PROVE  /\ tick' \in [Dispatchers -> TickType]
           /\ \A x \in Dispatchers : GoodTick(tick'[x], tries', delivered', FlightCount')
           /\ \A r \in Notices : notice[r].attempts + FlightCount'[r] <= tries'[r]
<1> USE DEF CountedMove
<1>t. /\ tick \in [Dispatchers -> TickType] /\ tries \in [Notices -> Nat]
      /\ \A r \in Notices : notice[r].attempts \in Nat
  BY DEF NoticeInv, NoticeTypes
<1>1. tick' \in [Dispatchers -> TickType]
  BY <1>t
<1>2. \A r \in Notices : /\ FlightCount[r] \in Nat /\ FlightCount'[r] \in Nat
                        /\ tries[r] <= tries'[r]
                        /\ FlightCount'[r] + tries[r] <= FlightCount[r] + tries'[r]
  <2> SUFFICES ASSUME NEW r \in Notices
               PROVE  /\ FlightCount[r] \in Nat /\ FlightCount'[r] \in Nat
                      /\ tries[r] <= tries'[r]
                      /\ FlightCount'[r] + tries[r] <= FlightCount[r] + tries'[r]
    OBVIOUS
  <2>1. /\ FlightCount[r] \in Nat /\ FlightCount'[r] \in Nat
        /\ FlightOf(e, r) /\ ~FlightOf(tick[d], r) => FlightCount'[r] = FlightCount[r] + 1
        /\ (FlightOf(e, r) <=> FlightOf(tick[d], r)) => FlightCount'[r] = FlightCount[r]
        /\ ~FlightOf(e, r) /\ FlightOf(tick[d], r) => FlightCount'[r] = FlightCount[r] - 1
    BY <1>t, FlightMoves
  <2>2. /\ tries[r] \in Nat /\ tries'[r] \in Nat /\ tries[r] <= tries'[r]
        /\ FlightOf(e, r) /\ ~FlightOf(tick[d], r) => tries[r] < tries'[r]
    BY <1>t
  <2> QED BY <2>1, <2>2
<1>3. ASSUME NEW x \in Dispatchers PROVE GoodTick(tick'[x], tries', delivered', FlightCount')
  <2>1. CASE x = d
    BY <1>t, <2>1
  <2>2. CASE x # d
    <3>1. tick'[x] = tick[x] /\ tick[x] \in TickType
      BY <1>t, <2>2
    <3>2. GoodTick(tick[x], tries, delivered, FlightCount)
      BY DEF NoticeInv
    <3>3. GoodTick(tick[x], tries', delivered', FlightCount')
      BY <1>2, <1>t, <3>1, <3>2, GoodStays
    <3> QED BY <3>1, <3>3
  <2> QED BY <2>1, <2>2
<1>4. ASSUME NEW r \in Notices PROVE notice[r].attempts + FlightCount'[r] <= tries'[r]
  <2>1. notice[r].attempts + FlightCount[r] <= tries[r]
    BY DEF NoticeInv
  <2> QED BY <1>2, <1>t, <2>1
<1> QED BY <1>1, <1>3, <1>4

\* The row in hand.
LEMMA NoticeInHand ==
    ASSUME NoticeInv, NEW d \in Dispatchers, tick[d].pc # "idle"
    PROVE  /\ tick[d] \in TickType /\ tick[d].claimed # <<>>
           /\ tick[d].claimed \in Seq(ClaimType)
           /\ Current(d) = tick[d].claimed[1] /\ 1 \in 1..Len(tick[d].claimed)
           /\ Current(d).id \in Notices /\ Current(d).attempts \in Nat
           /\ GoodTick(tick[d], tries, delivered, FlightCount)
<1>1. tick[d] \in TickType /\ GoodTick(tick[d], tries, delivered, FlightCount)
  BY DEF NoticeInv, NoticeTypes
<1>2. tick[d].claimed \in Seq(ClaimType) /\ tick[d].claimed # <<>>
  BY <1>1 DEF TickType, GoodTick
<1>3. Current(d) = tick[d].claimed[1] /\ 1 \in 1..Len(tick[d].claimed)
  BY <1>2 DEF Current
<1>4. Current(d) \in ClaimType
  BY <1>2, <1>3
<1> QED BY <1>1, <1>2, <1>3, <1>4 DEF ClaimType

\* A tick with nothing in flight.
LEMMA IdleTick ==
    /\ TickIdle \in TickType /\ \A r : ~FlightOf(TickIdle, r)
    /\ \A t, del, n : GoodTick(TickIdle, t, del, n)
<1>1. TickIdle \in TickType /\ TickIdle.pc = "idle" /\ TickIdle.claimed = <<>>
  BY DEF TickIdle, TickType
<1> QED BY <1>1 DEF FlightOf, Flying, GoodTick

\* handleRow is over: the rest of the batch is still to be sent.
LEMMA RestOfTick ==
    ASSUME NoticeInv, NEW d \in Dispatchers, tick[d].pc # "idle", NextNotice(d)
    PROVE  \E e \in TickType :
             /\ tick' = [tick EXCEPT ![d] = e] /\ \A r : ~FlightOf(e, r)
             /\ \A del, n : GoodTick(e, tries, del, n)
<1>1. PICK s : s = tick[d].claimed
  OBVIOUS
<1>2. /\ s \in Seq(ClaimType) /\ s # <<>>
      /\ \A i \in 1..Len(s) : s[i].attempts <= tries[s[i].id]
  BY <1>1, NoticeInHand DEF GoodTick
<1>3. PICK rest : rest = Tail(s)
  OBVIOUS
<1>4. /\ rest \in Seq(ClaimType) /\ Len(rest) = Len(s) - 1
      /\ \A i \in 1..Len(rest) : rest[i] = s[i + 1] /\ i + 1 \in 1..Len(s)
  BY <1>2, <1>3
<1>5. PICK e : /\ e = IF rest = <<>> THEN TickIdle
                      ELSE [TickIdle EXCEPT !.pc = "send", !.claimed = rest]
               /\ tick' = [tick EXCEPT ![d] = e]
  BY <1>1, <1>3 DEF NextNotice
<1>6. CASE rest = <<>>
  BY <1>5, <1>6, IdleTick
<1>7. CASE rest # <<>>
  <2>1. e \in TickType /\ e.pc = "send" /\ e.claimed = rest
    BY <1>4, <1>5, <1>7 DEF TickIdle, TickType
  <2>2. \A i \in 1..Len(rest) : rest[i].attempts <= tries[rest[i].id]
    BY <1>2, <1>4
  <2>3. (\A r : ~FlightOf(e, r)) /\ \A del, n : GoodTick(e, tries, del, n)
    BY <1>7, <2>1, <2>2 DEF FlightOf, Flying, GoodTick
  <2> QED BY <1>5, <2>1, <2>3
<1> QED BY <1>6, <1>7

\* A step that writes no row.
LEMMA QuietStep ==
    ASSUME NoticeInv, UNCHANGED notice, NEW d \in Dispatchers, NEW e \in TickType,
           CountedMove(d, e), noticeFaults' \in 0..MaxNoticeFaults
    PROVE  NoticeInv'
<1>1. /\ tick' \in [Dispatchers -> TickType]
      /\ \A x \in Dispatchers : GoodTick(tick'[x], tries', delivered', FlightCount')
      /\ \A r \in Notices : notice[r].attempts + FlightCount'[r] <= tries'[r]
  BY TickMoves
<1>2. NoticeTypes'
  BY <1>1 DEF CountedMove, NoticeInv, NoticeTypes
<1>3. GivenUpAfterMaxAttempts'
  BY NoticeAssumption DEF CountedMove, NoticeInv, NoticeTypes, GivenUpAfterMaxAttempts
<1>4. SentIsDelivered'
  BY DEF CountedMove, NoticeInv, SentIsDelivered
<1> QED BY <1>1, <1>2, <1>3, <1>4 DEF NoticeInv

\* The bound on faults.
LEMMA NoticeFaultType ==
    ASSUME NoticeInv PROVE /\ noticeFaults \in 0..MaxNoticeFaults
                           /\ NoticeFault => noticeFaults' \in 0..MaxNoticeFaults
  BY NoticeAssumption DEF NoticeInv, NoticeTypes, NoticeFault

\* The invariant is inductive.
LEMMA NoticeSteps ==
    ASSUME NoticeInv, [NoticeNext]_noticeVars
    PROVE  NoticeInv'
<1>t. /\ NoticeTypes /\ tick \in [Dispatchers -> TickType] /\ tries \in [Notices -> Nat]
      /\ delivered \subseteq Notices /\ noticeFaults \in 0..MaxNoticeFaults
      /\ \A r \in Notices : notice[r].attempts \in Nat /\ FlightCount[r] \in Nat
  <2>1. NoticeTypes
    BY DEF NoticeInv
  <2>2. \A r \in Notices : FlightCount[r] \in Nat
    <3> SUFFICES ASSUME NEW r \in Notices PROVE FlightCount[r] \in Nat
      OBVIOUS
    <3>1. InFlight(r) \subseteq Dispatchers
      BY DEF InFlight
    <3>2. Cardinality(InFlight(r)) \in Nat
      BY <3>1, NoticeAssumption, FS_Subset, FS_CardinalityType
    <3> QED BY <3>2 DEF FlightCount
  <2> QED BY <2>1, <2>2 DEF NoticeTypes
<1>1. ASSUME NEW d \in Dispatchers, ClaimPending(d) PROVE NoticeInv'
  <2>1. PICK n \in 1..OutboxBatch : \E ids \in [1..n -> DueRows] :
          tick' = [tick EXCEPT ![d] = [TickIdle EXCEPT !.pc = "send",
             !.claimed = [i \in 1..n |-> [id |-> ids[i], attempts |-> notice[ids[i]].attempts]]]]
    BY <1>1 DEF ClaimPending
  <2>2. PICK ids \in [1..n -> DueRows] :
          tick' = [tick EXCEPT ![d] = [TickIdle EXCEPT !.pc = "send",
             !.claimed = [i \in 1..n |-> [id |-> ids[i], attempts |-> notice[ids[i]].attempts]]]]
    BY <2>1
  <2>3. PICK s : s = [i \in 1..n |-> [id |-> ids[i], attempts |-> notice[ids[i]].attempts]]
    OBVIOUS
  <2>4. n \in Nat \ {0}
    BY NoticeAssumption
  <2>5. \A i \in 1..n : /\ s[i].id \in Notices /\ s[i].attempts = notice[s[i].id].attempts
                        /\ s[i] \in ClaimType
    BY <1>t, <2>3 DEF DueRows, ClaimType
  <2>6. s \in Seq(ClaimType) /\ Len(s) = n /\ s # <<>>
    <3>1. s \in [1..n -> ClaimType]
      BY <2>3, <2>5
    <3>2. s \in Seq(ClaimType)
      BY <2>4, <3>1, SeqDef
    <3>3. Len(s) = n
      BY <2>4, <3>1, <3>2, LenProperties
    <3> QED BY <2>4, <3>2, <3>3
  <2>7. PICK e : /\ e = [TickIdle EXCEPT !.pc = "send", !.claimed = s]
                 /\ tick' = [tick EXCEPT ![d] = e]
    BY <2>2, <2>3
  <2>8. e \in TickType /\ e.pc = "send" /\ e.claimed = s
    BY <2>6, <2>7 DEF TickType, TickIdle
  <2>9. \A i \in 1..Len(s) : s[i].attempts <= tries[s[i].id]
    <3>1. \A r \in Notices : notice[r].attempts <= tries[r]
      BY <1>t DEF NoticeInv
    <3> QED BY <2>5, <2>6, <3>1
  <2>10. GoodTick(e, tries, delivered, FlightCount') /\ \A r : ~FlightOf(e, r)
    BY <2>6, <2>8, <2>9 DEF GoodTick, Flying, FlightOf
  <2>11. UNCHANGED <<notice, tries, delivered, noticeFaults>>
    BY <1>1 DEF ClaimPending
  <2>12. CountedMove(d, e)
    BY <1>t, <2>7, <2>10, <2>11 DEF CountedMove
  <2> QED BY <1>t, <2>8, <2>11, <2>12, QuietStep
<1>2. ASSUME NEW d \in Dispatchers, Dispatch(d) PROVE NoticeInv'
  <2>1. PICK r : r = Current(d).id
    OBVIOUS
  <2>2. tick[d].pc = "send" /\ tick[d] \in TickType /\ r \in Notices
    BY <1>2, <2>1, NoticeInHand DEF Dispatch
  <2>3. PICK e : /\ tick' = [tick EXCEPT ![d] = e] /\ e \in TickType
                 /\ e.pc \in {"delivery", "markFailed"} /\ e.claimed = tick[d].claimed
    <3>1. \/ \E ok \in BOOLEAN : tick' = [tick EXCEPT ![d] = [tick[d] EXCEPT !.pc = "delivery", !.sent = ok]]
          \/ tick' = [tick EXCEPT ![d] = [tick[d] EXCEPT !.pc = "markFailed", !.sent = FALSE]]
      BY <1>2, <1>t DEF Dispatch
    <3>2. \A ok \in BOOLEAN : \A p \in {"delivery", "markFailed"} :
             /\ [tick[d] EXCEPT !.pc = p, !.sent = ok] \in TickType
             /\ [tick[d] EXCEPT !.pc = p, !.sent = ok].pc = p
             /\ [tick[d] EXCEPT !.pc = p, !.sent = ok].claimed = tick[d].claimed
      BY <2>2 DEF TickType
    <3> QED BY <3>1, <3>2
  <2>4. /\ tries' = [tries EXCEPT ![r] = @ + 1]
        /\ UNCHANGED <<notice, delivered, noticeFaults>>
    BY <1>2, <2>1 DEF Dispatch
  <2>5. /\ tries' \in [Notices -> Nat] /\ tries[r] < tries'[r]
        /\ \A x \in Notices : tries[x] <= tries'[x]
    BY <1>t, <2>2, <2>4
  <2>6. \A x : FlightOf(e, x) => x = r
    BY <2>1, <2>3 DEF FlightOf, Current
  <2>7. GoodTick(e, tries', delivered', FlightCount')
    <3>1. GoodTick(tick[d], tries, delivered, FlightCount) /\ tick[d].claimed # <<>>
      BY <2>2, NoticeInHand
    <3>2. \A i \in 1..Len(e.claimed) : /\ e.claimed[i].id \in Notices /\ e.claimed[i].attempts \in Nat
                                       /\ e.claimed[i].attempts <= tries[e.claimed[i].id]
      <4>1. e.claimed \in Seq(ClaimType)
        BY <2>3 DEF TickType
      <4>2. \A i \in 1..Len(e.claimed) : e.claimed[i] \in ClaimType
        BY <4>1
      <4> QED BY <2>3, <3>1, <4>2 DEF GoodTick, ClaimType
    <3>3. \A i \in 1..Len(e.claimed) : e.claimed[i].attempts <= tries'[e.claimed[i].id]
      BY <1>t, <2>5, <3>2
    <3>4. Head(e.claimed) = e.claimed[1] /\ 1 \in 1..Len(e.claimed) /\ e.claimed[1].id = r
      BY <2>1, <2>2, <2>3, NoticeInHand DEF Current
    <3>5. Head(e.claimed).attempts < tries'[Head(e.claimed).id]
      BY <1>t, <2>2, <2>5, <3>2, <3>4
    <3> QED BY <2>3, <3>1, <3>3, <3>5 DEF GoodTick
  <2>8. CountedMove(d, e)
    BY <1>t, <2>3, <2>4, <2>5, <2>6, <2>7 DEF CountedMove
  <2> QED BY <1>t, <2>3, <2>4, <2>8, QuietStep
<1>3. ASSUME NEW d \in Dispatchers, NEW p \in Flying, tick[d].pc \in Flying,
             tick' = [tick EXCEPT ![d].pc = p],
             UNCHANGED <<notice, tries>>, delivered \subseteq delivered', delivered' \subseteq Notices,
             noticeFaults' \in 0..MaxNoticeFaults, p # "update",
             p = "markSent" => Current(d).id \in delivered'
      PROVE  NoticeInv'
  <2>1. tick[d] \in TickType /\ GoodTick(tick[d], tries, delivered, FlightCount)
    BY <1>3, NoticeInHand DEF Flying
  <2>2. PICK e : e = [tick[d] EXCEPT !.pc = p] /\ tick' = [tick EXCEPT ![d] = e]
    BY <1>3, <1>t
  <2>3. e \in TickType /\ e.pc = p /\ e.claimed = tick[d].claimed
    BY <2>1, <2>2 DEF TickType, Flying
  <2>4. \A r : FlightOf(e, r) <=> FlightOf(tick[d], r)
    BY <1>3, <2>3 DEF FlightOf
  <2>5. GoodTick(e, tries, delivered', FlightCount')
    BY <1>3, <2>1, <2>3 DEF GoodTick, Current, Flying
  <2>6. CountedMove(d, e)
    BY <1>3, <1>t, <2>2, <2>4, <2>5 DEF CountedMove
  <2> QED BY <1>3, <2>3, <2>6, QuietStep
<1>4. ASSUME NEW d \in Dispatchers, InsertDelivery(d) \/ StatementFails(d) PROVE NoticeInv'
  <2>1. Current(d).id \in Notices
    BY <1>4, NoticeInHand DEF InsertDelivery, StatementFails
  <2>2. CASE InsertDelivery(d)
    <3>1. PICK p : p = IF tick[d].sent THEN "markSent" ELSE "markFailed"
      OBVIOUS
    <3>2. /\ tick' = [tick EXCEPT ![d].pc = p] /\ tick[d].pc = "delivery"
          /\ UNCHANGED <<notice, tries, noticeFaults>>
          /\ delivered' = IF tick[d].sent THEN delivered \cup {Current(d).id} ELSE delivered
      BY <2>2, <3>1 DEF InsertDelivery
    <3>3. /\ p \in Flying /\ p # "update" /\ tick[d].pc \in Flying
          /\ p = "markSent" => Current(d).id \in delivered'
          /\ delivered \subseteq delivered' /\ delivered' \subseteq Notices
      BY <1>t, <2>1, <3>1, <3>2 DEF Flying
    <3> QED BY <1>3, <1>t, <3>2, <3>3
  <2>3. CASE StatementFails(d)
    <3>1. /\ tick' = [tick EXCEPT ![d].pc = "markFailed"]
          /\ tick[d].pc \in Flying /\ UNCHANGED <<notice, tries, delivered>>
      BY <2>3 DEF StatementFails, Flying
    <3>2. noticeFaults' \in 0..MaxNoticeFaults
      BY <2>3, NoticeFaultType DEF StatementFails
    <3>3. "markFailed" \in Flying /\ delivered' \subseteq Notices
      BY <1>t, <3>1 DEF Flying
    <3> QED BY <1>3, <3>1, <3>2, <3>3
  <2> QED BY <1>4, <2>2, <2>3
<1>5. ASSUME NEW d \in Dispatchers, tick' = [tick EXCEPT ![d] = TickIdle], NoticeFault,
             UNCHANGED <<notice, tries, delivered>>
      PROVE  NoticeInv'
  <2>1. CountedMove(d, TickIdle)
    BY <1>5, <1>t, IdleTick DEF CountedMove
  <2>2. noticeFaults' \in 0..MaxNoticeFaults
    BY <1>5, NoticeFaultType
  <2> QED BY <1>5, <2>1, <2>2, IdleTick, QuietStep
<1>6. ASSUME NEW d \in Dispatchers, MarkFailedFails(d) \/ DispatcherCrash(d) PROVE NoticeInv'
  <2>1. CASE tick' = [tick EXCEPT ![d] = TickIdle]
    BY <1>5, <1>6, <2>1 DEF MarkFailedFails, DispatcherCrash
  <2>2. CASE MarkFailedFails(d) /\ tick' = [tick EXCEPT ![d].pc = "markFailed"]
    <3>1. tick[d].pc \in Flying /\ UNCHANGED <<notice, tries, delivered>>
      BY <2>2 DEF MarkFailedFails, Flying
    <3>2. noticeFaults' \in 0..MaxNoticeFaults
      BY <2>2, NoticeFaultType DEF MarkFailedFails
    <3>3. "markFailed" \in Flying /\ delivered' \subseteq Notices
      BY <1>t, <3>1 DEF Flying
    <3> QED BY <1>3, <2>2, <3>1, <3>2, <3>3
  <2> QED BY <1>6, <2>1, <2>2 DEF MarkFailedFails, DispatcherCrash
<1>7. ASSUME NEW d \in Dispatchers, MarkFailedRead(d) PROVE NoticeInv'
  <2>1. PICK r : r = Current(d).id
    OBVIOUS
  <2>2. /\ r \in Notices /\ tick[d] \in TickType /\ tick[d].pc = "markFailed"
        /\ GoodTick(tick[d], tries, delivered, FlightCount)
    BY <1>7, <2>1, NoticeInHand DEF MarkFailedRead
  <2>3. PICK e : /\ e = [tick[d] EXCEPT !.pc = "update", !.read = notice[r].attempts]
                 /\ tick' = [tick EXCEPT ![d] = e]
    BY <1>7, <1>t, <2>1 DEF MarkFailedRead
  <2>4. /\ e \in TickType /\ e.pc = "update" /\ e.claimed = tick[d].claimed
        /\ e.read = notice[r].attempts
    BY <1>t, <2>2, <2>3 DEF TickType
  <2>5. \A x : FlightOf(e, x) <=> FlightOf(tick[d], x)
    BY <2>2, <2>4 DEF FlightOf, Flying
  <2>6. FlightCount'[r] = FlightCount[r]
    BY <1>t, <2>2, <2>3, <2>5, FlightMoves
  <2>7. e.read + FlightCount'[r] <= tries[r]
    BY <2>2, <2>4, <2>6 DEF NoticeInv
  <2>8. GoodTick(e, tries, delivered, FlightCount')
    BY <2>1, <2>2, <2>4, <2>7 DEF GoodTick, Current, Flying
  <2>9. UNCHANGED <<notice, tries, delivered, noticeFaults>>
    BY <1>7 DEF MarkFailedRead
  <2>10. CountedMove(d, e)
    BY <1>t, <2>3, <2>5, <2>8, <2>9 DEF CountedMove
  <2> QED BY <1>t, <2>4, <2>9, <2>10, QuietStep
<1>8. ASSUME NEW d \in Dispatchers, MarkSent(d) \/ MarkFailedUpdate(d) PROVE NoticeInv'
  <2>1. PICK r : r = Current(d).id
    OBVIOUS
  <2>2. /\ r \in Notices /\ tick[d] \in TickType /\ tick[d].pc \in {"markSent", "update"}
        /\ GoodTick(tick[d], tries, delivered, FlightCount) /\ NextNotice(d)
        /\ UNCHANGED <<tries, delivered, noticeFaults>> /\ Current(d).attempts \in Nat
    BY <1>8, <2>1, NoticeInHand DEF MarkSent, MarkFailedUpdate
  <2>3. PICK e \in TickType :
          /\ tick' = [tick EXCEPT ![d] = e] /\ \A x : ~FlightOf(e, x)
          /\ \A del, n : GoodTick(e, tries, del, n)
    BY <2>2, RestOfTick
  <2>4. GoodTick(e, tries', delivered', FlightCount')
    BY <2>2, <2>3
  <2>5. /\ tick' \in [Dispatchers -> TickType]
        /\ \A x \in Dispatchers : GoodTick(tick'[x], tries', delivered', FlightCount')
        /\ \A x \in Notices : notice[x].attempts + FlightCount'[x] <= tries'[x]
    <3>1. CountedMove(d, e)
      BY <1>t, <2>2, <2>3, <2>4 DEF CountedMove
    <3> QED BY <3>1, TickMoves
  <2>6. FlightOf(tick[d], r)
    BY <2>1, <2>2 DEF FlightOf, Current, Flying
  <2>7. FlightCount'[r] = FlightCount[r] - 1 /\ FlightCount'[r] \in Nat
    BY <1>t, <2>2, <2>3, <2>6, FlightMoves
  <2>8. PICK w : /\ notice' = [notice EXCEPT ![r] = w]
                 /\ w \in [status: {"PENDING", "SENT", "FAILED"}, attempts: Nat, due: BOOLEAN]
                 /\ w.attempts + FlightCount'[r] <= tries[r]
                 /\ w.status = "SENT" => r \in delivered
                 /\ w.status = "FAILED" =>
                       notice[r].status = "FAILED" \/ tries[r] >= OutboxMaxAttempts
    <3>0. notice \in [Notices -> [status: {"PENDING", "SENT", "FAILED"}, attempts: Nat, due: BOOLEAN]]
      BY <1>t DEF NoticeTypes
    <3>1. CASE MarkSent(d)
      <4>1. PICK w : w = [notice[r] EXCEPT !.status = "SENT"] /\ notice' = [notice EXCEPT ![r] = w]
        BY <2>1, <3>0, <3>1 DEF MarkSent
      <4>2. /\ w \in [status: {"PENDING", "SENT", "FAILED"}, attempts: Nat, due: BOOLEAN]
            /\ w.status = "SENT" /\ w.attempts = notice[r].attempts
        BY <2>2, <3>0, <4>1
      <4>3. r \in delivered
        BY <2>1, <2>2, <3>1 DEF GoodTick, Current, MarkSent
      <4>4. w.attempts + FlightCount'[r] <= tries[r]
        BY <2>2, <2>5, <4>2
      <4> QED BY <4>1, <4>2, <4>3, <4>4
    <3>2. CASE MarkFailedUpdate(d)
      <4>1. PICK c, v, w : /\ c = Current(d).attempts /\ v = tick[d].read /\ w = FailedRow(Current(d), v)
        OBVIOUS
      <4>2. notice' = [notice EXCEPT ![r] = w]
        BY <2>1, <3>2, <4>1 DEF MarkFailedUpdate
      <4>3. /\ c \in Nat /\ v \in Nat /\ c < tries[r] /\ v + FlightCount[r] <= tries[r]
        BY <2>1, <2>2, <3>2, <4>1 DEF GoodTick, Current, MarkFailedUpdate, Flying, TickType
      <4>4. /\ w \in [status: {"PENDING", "SENT", "FAILED"}, attempts: Nat, due: BOOLEAN]
            /\ w.attempts = v + 1 /\ w.status # "SENT"
            /\ w.status = "FAILED" => c + 1 >= OutboxMaxAttempts
        BY <4>1, <4>3 DEF FailedRow, LastAttempt
      <4>5. w.attempts + FlightCount'[r] <= tries[r]
        BY <1>t, <2>2, <2>7, <4>3, <4>4
      <4>6. w.status = "FAILED" => tries[r] >= OutboxMaxAttempts
        BY <1>t, <2>2, <4>3, <4>4, NoticeAssumption
      <4> QED BY <4>2, <4>4, <4>5, <4>6
    <3> QED BY <1>8, <3>1, <3>2
  <2>9. \A x \in Notices : notice'[x] = IF x = r THEN w ELSE notice[x]
    BY <1>t, <2>8 DEF NoticeTypes
  <2>10. NoticeTypes'
    BY <1>t, <2>2, <2>5, <2>8 DEF NoticeTypes
  <2>11. \A x \in Notices : notice'[x].attempts + FlightCount'[x] <= tries'[x]
    BY <2>2, <2>5, <2>8, <2>9
  <2>12. GivenUpAfterMaxAttempts'
    BY <2>2, <2>8, <2>9 DEF NoticeInv, GivenUpAfterMaxAttempts
  <2>13. SentIsDelivered'
    BY <2>2, <2>8, <2>9 DEF NoticeInv, SentIsDelivered
  <2> QED BY <2>5, <2>10, <2>11, <2>12, <2>13 DEF NoticeInv
<1>9. ASSUME NEW r \in Notices, BackoffElapses(r) PROVE NoticeInv'
  <2>1. notice \in [Notices -> [status: {"PENDING", "SENT", "FAILED"}, attempts: Nat, due: BOOLEAN]]
    BY <1>t DEF NoticeTypes
  <2>2. /\ notice' = [notice EXCEPT ![r].due = TRUE]
        /\ UNCHANGED <<tick, tries, delivered, noticeFaults>>
    BY <1>9 DEF BackoffElapses
  <2>3. /\ notice' \in [Notices -> [status: {"PENDING", "SENT", "FAILED"}, attempts: Nat, due: BOOLEAN]]
        /\ \A x \in Notices : /\ notice'[x].status = notice[x].status
                               /\ notice'[x].attempts = notice[x].attempts
    BY <2>1, <2>2
  <2>4. FlightCount' = FlightCount
    BY <2>2 DEF FlightCount, InFlight
  <2> QED BY <1>t, <2>2, <2>3, <2>4 DEF NoticeInv, NoticeTypes, GivenUpAfterMaxAttempts, SentIsDelivered
<1>10. CASE UNCHANGED noticeVars
  <2>1. FlightCount' = FlightCount
    BY <1>10 DEF FlightCount, InFlight, noticeVars
  <2> QED BY <1>10, <1>t, <2>1 DEF noticeVars, NoticeInv, NoticeTypes, GivenUpAfterMaxAttempts,
             SentIsDelivered
<1> QED BY <1>1, <1>2, <1>4, <1>6, <1>7, <1>8, <1>9, <1>10 DEF NoticeNext, TickStep

\* It holds initially.
LEMMA NoticeInitInv == ASSUME NoticeInit PROVE NoticeInv
<1>1. NoticeTypes
  BY NoticeAssumption, IdleTick DEF NoticeInit, NoticeTypes
<1>2. \A r \in Notices : InFlight(r) = {}
  BY IdleTick DEF NoticeInit, InFlight
<1>3. \A r \in Notices : FlightCount[r] = 0
  BY <1>2, FS_EmptySet DEF FlightCount
<1>4. \A d \in Dispatchers : GoodTick(tick[d], tries, delivered, FlightCount)
  BY IdleTick DEF NoticeInit
<1>5. GivenUpAfterMaxAttempts /\ SentIsDelivered
  BY DEF NoticeInit, GivenUpAfterMaxAttempts, SentIsDelivered
<1> QED BY <1>1, <1>3, <1>4, <1>5 DEF NoticeInit, NoticeInv

\* The rows and the running ticks keep their types.
THEOREM NoticeTypesHold == NoticeSpec => []NoticeTypeOK
<1>1. NoticeInv => NoticeTypeOK
  BY DEF NoticeInv, NoticeTypes, NoticeTypeOK, TickType
<1> QED BY <1>1, NoticeInitInv, NoticeSteps, PTL DEF NoticeSpec

-----------------------------------------------------------------------------
(***************************************************************************)
(* DispatchesBounded: two pods may take turns to put a row back and to     *)
(* take its attempts back.  What a row can still cost is bounded by a      *)
(* budget that depends on its attempts and on what each pod has of it; a   *)
(* step lowers it by the dispatches it makes, and a fault pays for one.    *)
(***************************************************************************)
\* DispatchesBounded, for a row that two pods may hold.  From the attempts a, one pod
\* alone needs Remaining(a) dispatches to give the row up; two that take turns to put
\* the attempts back need at most Budget(a).
Remaining(a) == IF a + 1 < OutboxMaxAttempts THEN OutboxMaxAttempts - a ELSE 1
Budget(a) == (Remaining(a) * (Remaining(a) + 3)) \div 2

LEMMA BudgetFacts ==
    ASSUME NEW a \in Nat
    PROVE  /\ Remaining(a) \in Nat /\ Budget(a) \in Nat /\ 1 <= Remaining(a)
           /\ Remaining(a) + 1 <= Budget(a)
           /\ a + 1 < OutboxMaxAttempts => /\ Remaining(a) = Remaining(a + 1) + 1
                                           /\ Budget(a) = Budget(a + 1) + Remaining(a) + 1
           /\ a + 1 >= OutboxMaxAttempts => Remaining(a) = 1 /\ Budget(a) = 2
<1>1. Remaining(a) \in Nat /\ 1 <= Remaining(a) /\ Remaining(a + 1) \in Nat
  BY NoticeAssumption DEF Remaining
<1>2. ASSUME NEW n \in Nat, 1 <= n
      PROVE  (n * (n + 3)) \div 2 \in Nat /\ n + 1 <= (n * (n + 3)) \div 2
  <2>1. n * (n + 3) \in Nat /\ 2 * (n + 1) <= n * (n + 3)
    BY <1>2
  <2>2. PICK m \in Nat : m = n * (n + 3)
    BY <2>1
  <2> QED BY <2>1, <2>2
<1>3. ASSUME NEW n \in Nat
      PROVE  ((n + 1) * (n + 4)) \div 2 = ((n * (n + 3)) \div 2) + n + 2
  <2>1. (n + 1) * (n + 4) = n * (n + 3) + 2 * (n + 2) /\ n * (n + 3) \in Nat
    OBVIOUS
  <2>2. PICK m \in Nat : m = n * (n + 3)
    BY <2>1
  <2> QED BY <2>1, <2>2
<1>4. Budget(a) \in Nat /\ Remaining(a) + 1 <= Budget(a)
  BY <1>1, <1>2 DEF Budget
<1>5. ASSUME a + 1 < OutboxMaxAttempts
      PROVE  Remaining(a) = Remaining(a + 1) + 1 /\ Budget(a) = Budget(a + 1) + Remaining(a) + 1
  <2>1. Remaining(a) = Remaining(a + 1) + 1
    BY <1>5, NoticeAssumption DEF Remaining
  <2>2. PICK n \in Nat : n = Remaining(a + 1) /\ Remaining(a) = n + 1
    BY <1>1, <2>1
  <2>3. Budget(a) = ((n + 1) * (n + 4)) \div 2 /\ Budget(a + 1) = (n * (n + 3)) \div 2
    BY <2>2 DEF Budget
  <2>4. (n * (n + 3)) \div 2 \in Nat
    OBVIOUS
  <2> QED BY <1>3, <2>1, <2>2, <2>3, <2>4
<1>6. ASSUME a + 1 >= OutboxMaxAttempts PROVE Remaining(a) = 1 /\ Budget(a) = 2
  BY <1>6, NoticeAssumption DEF Remaining, Budget
<1> QED BY <1>1, <1>4, <1>5, <1>6

LEMMA BudgetFalls ==
    ASSUME NEW a \in Nat, NEW b \in Nat, a <= b
    PROVE  Remaining(b) <= Remaining(a) /\ Budget(b) + Remaining(a) <= Budget(a) + Remaining(b)
<1>1. PICK m \in Nat, n \in Nat : m = Remaining(a) /\ n = Remaining(b)
  BY BudgetFacts
<1>2. n <= m /\ 1 <= n
  BY <1>1, NoticeAssumption DEF Remaining
<1>3. Budget(a) = (m * (m + 3)) \div 2 /\ Budget(b) = (n * (n + 3)) \div 2
  BY <1>1 DEF Budget
<1>4. PICK k \in Nat : m = n + k
  BY <1>2
<1>5. n * (n + 3) + 2 * k <= m * (m + 3)
  <2>1. m * (m + 3) = n * (n + 3) + k * (2 * n + k + 3)
    BY <1>4
  <2>2. 2 * k <= k * (2 * n + k + 3)
    BY <1>2
  <2>3. n * (n + 3) \in Nat /\ k * (2 * n + k + 3) \in Nat
    OBVIOUS
  <2> QED BY <2>1, <2>2, <2>3
<1>6. PICK x \in Nat, y \in Nat : x = n * (n + 3) /\ y = m * (m + 3)
  OBVIOUS
<1> QED BY <1>1, <1>2, <1>3, <1>4, <1>5, <1>6


\* What a pod has of a row: whether it has claimed it, as the last attempt or not, whether
\* it has still to dispatch it, and the attempts its markFailed has read.
NoticeHand == [on: BOOLEAN, last: BOOLEAN, held: BOOLEAN, fixed: BOOLEAN, read: Nat]
EmptyHand == [on |-> FALSE, last |-> FALSE, held |-> FALSE, fixed |-> FALSE, read |-> 0]

\* The attempts that its markFailed writes, if the row's attempts stay as they are.
WritesBack(h, a) == IF h.fixed THEN h.read + 1 ELSE a + 1
StillDue(h) == IF h.on /\ h.held THEN 1 ELSE 0

\* The dispatches n of a row with attempts a may be followed by as many as keep them
\* within the bound b.  Nobody has the row: two pods may take turns.
FreeRow(a, pending, n, b, p, q) ==
    ~p.on /\ ~q.on /\ pending => n + Budget(a) <= b

\* One has it: the other may give the row up before the first puts it back, or claim it
\* too and be overwritten.
RowOfOne(a, pending, n, b, p, q) ==
    LET x == WritesBack(p, a)
        m == n + StillDue(p)
    IN  p.on /\ ~q.on =>
        /\ ~p.last /\ pending =>
             /\ m + Budget(a) <= b + 1 /\ m + Remaining(a) + Budget(x) <= b
             /\ a + 1 < OutboxMaxAttempts => m + 1 + Remaining(x) + Budget(a + 1) <= b
        /\ ~p.last /\ ~pending => m + Budget(x) <= b /\ m + Budget(a + 1) <= b + 1
        /\ p.last /\ pending =>
             /\ m + 1 <= b
             /\ a + 1 < OutboxMaxAttempts =>
                  m + Budget(a) <= b /\ m + Remaining(a) + Budget(x + 1) <= b + 1
        /\ p.last /\ ~pending => m <= b

\* Both have it: one of them claimed it as it is now.
RowOfTwo(a, pending, n, b, p, q) ==
    LET x == WritesBack(p, a)
        y == WritesBack(q, a)
        m == n + StillDue(p) + StillDue(q)
    IN  p.on /\ q.on =>
        /\ pending /\ (x = a + 1 \/ y = a + 1)
        /\ ~p.last /\ ~q.last =>
             m + Budget(a) <= b + 2 /\ (x <= y => m + Remaining(y) + Budget(x) <= b)
        /\ p.last /\ ~q.last =>
             /\ m + Budget(y) <= b /\ m + Remaining(y) + Budget(x + 1) <= b + 1
             /\ m + Budget(a) <= b + 1 /\ m + Remaining(a) + Budget(x + 1) <= b + 2
             /\ y # a + 1 => a + 1 >= OutboxMaxAttempts
        /\ p.last /\ q.last => m <= b /\ a + 1 >= OutboxMaxAttempts

RowBounded(a, pending, n, b, p, q) ==
    /\ n <= b
    /\ FreeRow(a, pending, n, b, p, q)
    /\ RowOfOne(a, pending, n, b, p, q) /\ RowOfOne(a, pending, n, b, q, p)
    /\ RowOfTwo(a, pending, n, b, p, q) /\ RowOfTwo(a, pending, n, b, q, p)

\* What the budgets at two values have to do with each other.
Compared(a, c) ==
    /\ Remaining(a) \in Nat /\ Budget(a) \in Nat /\ Remaining(c) \in Nat /\ Budget(c) \in Nat
    /\ 1 <= Remaining(a) /\ Remaining(a) + 1 <= Budget(a)
    /\ a + 1 >= OutboxMaxAttempts => Remaining(a) = 1 /\ Budget(a) = 2
    /\ a + 1 < OutboxMaxAttempts /\ c = a + 1 => /\ Remaining(a) = Remaining(c) + 1
                                              /\ Budget(a) = Budget(c) + Remaining(a) + 1
    /\ a <= c => Remaining(c) <= Remaining(a) /\ Budget(c) + Remaining(a) <= Budget(a) + Remaining(c)

LEMMA Compares ==
    ASSUME NEW a \in Nat, NEW c \in Nat
    PROVE  Compared(a, c) /\ Compared(c, a)
BY BudgetFacts, BudgetFalls DEF Compared

\* The values that a row's attempts may take next, compared.
Comparisons(a, x, y) ==
    /\ Compared(a, a + 1) /\ Compared(a + 1, a) /\ Compared(x, x + 1) /\ Compared(y, y + 1)
    /\ Compared(a, x) /\ Compared(x, a) /\ Compared(a, y) /\ Compared(y, a)
    /\ Compared(x, y) /\ Compared(y, x) /\ Compared(a + 1, x) /\ Compared(x, a + 1)
    /\ Compared(a + 1, y) /\ Compared(y, a + 1) /\ Compared(x + 1, y) /\ Compared(y, x + 1)
    /\ Compared(y + 1, x) /\ Compared(x, y + 1) /\ Compared(a + 1, x + 1) /\ Compared(x + 1, a + 1)
    /\ Compared(a + 1, y + 1) /\ Compared(y + 1, a + 1) /\ Compared(a + 1, a + 2)
    /\ Compared(x + 1, y + 1) /\ Compared(y + 1, x + 1) /\ Compared(x + 1, x + 2)

LEMMA Comparable == \A a, x, y \in Nat : Comparisons(a, x, y)
BY Compares DEF Comparisons

\* A pod claims the row.
LEMMA RowClaimed ==
    ASSUME NEW a \in Nat, NEW n \in Nat, NEW b \in Nat, NEW p \in NoticeHand, NEW q \in NoticeHand,
           NEW h \in NoticeHand, RowBounded(a, TRUE, n, b, p, q), ~p.on,
           h.on, h.last <=> LastAttempt(a), h.held, ~h.fixed
    PROVE  RowBounded(a, TRUE, n, b, h, q)
<1>1. PICK y \in Nat : y = WritesBack(q, a)
  BY DEF WritesBack, NoticeHand
<1>2. PICK c \in Nat : c = a + 1
  OBVIOUS
<1>3. Comparisons(a, a, y)
  BY Comparable
<1>4. /\ WritesBack(h, a) = c /\ StillDue(h) = 1 /\ StillDue(q) \in {0, 1}
      /\ h.last <=> c >= OutboxMaxAttempts
  BY <1>2 DEF WritesBack, StillDue, LastAttempt
<1>5. CASE ~q.on
  <2>1. n + Budget(a) <= b /\ StillDue(q) = 0
    BY <1>5 DEF RowBounded, FreeRow, StillDue
  <2>2. RowOfOne(a, TRUE, n, b, h, q)
    BY <1>2, <1>3, <1>4, <1>5, <2>1, NoticeAssumption DEF RowOfOne, Comparisons, Compared
  <2> QED BY <1>5, <2>1, <2>2 DEF RowBounded, FreeRow, RowOfOne, RowOfTwo
<1>6. CASE q.on
  <2>1. RowOfOne(a, TRUE, n, b, q, p) /\ n <= b
    BY DEF RowBounded
  <2>2. PICK k \in Nat : k = n + StillDue(q)
    BY <1>4
  <2>3. /\ ~q.last => /\ k + Budget(a) <= b + 1 /\ k + Remaining(a) + Budget(y) <= b
                      /\ c < OutboxMaxAttempts => k + 1 + Remaining(y) + Budget(c) <= b
        /\ q.last => /\ k + 1 <= b
                     /\ c < OutboxMaxAttempts =>
                          k + Budget(a) <= b /\ k + Remaining(a) + Budget(y + 1) <= b + 1
    BY <1>1, <1>2, <1>6, <2>1, <2>2 DEF RowOfOne
  <2>4. n + StillDue(h) + StillDue(q) = k + 1 /\ n + StillDue(q) + StillDue(h) = k + 1
    BY <1>4, <2>2
  <2>5. CASE ~q.last /\ ~h.last
    BY <1>1, <1>2, <1>3, <1>4, <1>6, <2>1, <2>3, <2>4, <2>5, NoticeAssumption
       DEF RowBounded, FreeRow, RowOfOne, RowOfTwo, Comparisons, Compared
  <2>6. CASE ~q.last /\ h.last
    BY <1>1, <1>2, <1>3, <1>4, <1>6, <2>1, <2>3, <2>4, <2>6, NoticeAssumption
       DEF RowBounded, FreeRow, RowOfOne, RowOfTwo, Comparisons, Compared
  <2>7. CASE q.last /\ ~h.last
    BY <1>1, <1>2, <1>3, <1>4, <1>6, <2>1, <2>3, <2>4, <2>7, NoticeAssumption
       DEF RowBounded, FreeRow, RowOfOne, RowOfTwo, Comparisons, Compared
  <2>8. CASE q.last /\ h.last
    BY <1>1, <1>2, <1>3, <1>4, <1>6, <2>1, <2>3, <2>4, <2>8, NoticeAssumption
       DEF RowBounded, FreeRow, RowOfOne, RowOfTwo, Comparisons, Compared
  <2> QED BY <2>5, <2>6, <2>7, <2>8 DEF NoticeHand
<1> QED BY <1>5, <1>6

\* It dispatches it.
LEMMA RowDispatched ==
    ASSUME NEW a \in Nat, NEW pending \in BOOLEAN, NEW n \in Nat, NEW b \in Nat,
           NEW p \in NoticeHand, NEW q \in NoticeHand, NEW h \in NoticeHand,
           RowBounded(a, pending, n, b, p, q), p.on, p.held, ~p.fixed,
           h.on, h.last = p.last, ~h.held, ~h.fixed
    PROVE  RowBounded(a, pending, n + 1, b, h, q)
<1>1. PICK x, y : x = WritesBack(p, a) /\ y = WritesBack(q, a)
  OBVIOUS
<1>2. x \in Nat /\ y \in Nat
  BY <1>1 DEF WritesBack, NoticeHand
<1>3. Comparisons(a, x, y)
  BY <1>2, Comparable
<1> QED BY <1>1, <1>2, <1>3, NoticeAssumption
        DEF Comparisons, Compared, RowBounded, FreeRow, RowOfOne, RowOfTwo, WritesBack, StillDue,
            NoticeHand

\* markFailed reads the attempts.
LEMMA RowRead ==
    ASSUME NEW a \in Nat, NEW pending \in BOOLEAN, NEW n \in Nat, NEW b \in Nat,
           NEW p \in NoticeHand, NEW q \in NoticeHand, NEW h \in NoticeHand,
           RowBounded(a, pending, n, b, p, q), p.on, ~p.held, ~p.fixed,
           h.on, h.last = p.last, ~h.held, h.fixed, h.read = a
    PROVE  RowBounded(a, pending, n, b, h, q)
BY DEF RowBounded, FreeRow, RowOfOne, RowOfTwo, WritesBack, StillDue, NoticeHand

\* markFailed writes them.
LEMMA RowWritten ==
    ASSUME NEW a \in Nat, NEW pending \in BOOLEAN, NEW n \in Nat, NEW b \in Nat,
           NEW p \in NoticeHand, NEW q \in NoticeHand, NEW h \in NoticeHand,
           RowBounded(a, pending, n, b, p, q), p.on, ~p.held, p.fixed, ~h.on
    PROVE  RowBounded(p.read + 1, ~p.last, n, b, h, q)
<1>1. PICK x \in Nat, y \in Nat : x = p.read + 1 /\ x = WritesBack(p, a) /\ y = WritesBack(q, a)
  BY DEF WritesBack, NoticeHand
<1>2. PICK c \in Nat : c = a + 1
  OBVIOUS
<1>3. PICK z \in Nat : z = WritesBack(q, x) /\ z = IF q.fixed THEN y ELSE x + 1
  BY <1>1 DEF WritesBack
<1>4. Comparisons(a, x, y)
  BY Comparable
<1>5. PICK m \in Nat : /\ m = n + StillDue(q) /\ n + StillDue(p) = n /\ n + StillDue(h) = n
                       /\ n + StillDue(p) + StillDue(q) = m /\ n + StillDue(q) + StillDue(p) = m
                       /\ n <= m /\ (q.on => m <= n + 1) /\ (~q.on => m = n)
  BY DEF StillDue
<1>6. CASE ~q.on
  <2>1. RowOfOne(a, pending, n, b, p, q) /\ n <= b
    BY DEF RowBounded
  <2>2. Compared(a, c) /\ Compared(a, x) /\ Compared(x, a) /\ Compared(x, x + 1)
    BY <1>2, Compares
  <2> QED BY <1>1, <1>2, <1>5, <1>6, <2>1, <2>2, NoticeAssumption
          DEF RowBounded, FreeRow, RowOfOne, RowOfTwo, Compared
<1>7. CASE q.on
  <2>1. /\ n <= b /\ RowOfTwo(a, pending, n, b, p, q) /\ RowOfTwo(a, pending, n, b, q, p)
    BY DEF RowBounded
  <2>2. pending /\ (x = c \/ y = c) /\ (~q.fixed => y = c)
    BY <1>1, <1>2, <1>7, <2>1 DEF RowOfTwo, WritesBack
  <2>3. CASE p.last /\ q.last
    BY <1>1, <1>2, <1>3, <1>4, <1>5, <1>7, <2>1, <2>2, <2>3, NoticeAssumption
       DEF RowBounded, FreeRow, RowOfOne, RowOfTwo, Comparisons, Compared
  <2>4. CASE p.last /\ ~q.last
    BY <1>1, <1>2, <1>3, <1>4, <1>5, <1>7, <2>1, <2>2, <2>4, NoticeAssumption
       DEF RowBounded, FreeRow, RowOfOne, RowOfTwo, Comparisons, Compared
  <2>5. CASE ~p.last /\ q.last
    BY <1>1, <1>2, <1>3, <1>4, <1>5, <1>7, <2>1, <2>2, <2>5, NoticeAssumption
       DEF RowBounded, FreeRow, RowOfOne, RowOfTwo, Comparisons, Compared
  <2>6. CASE ~p.last /\ ~q.last
    BY <1>1, <1>2, <1>3, <1>4, <1>5, <1>7, <2>1, <2>2, <2>6, NoticeAssumption
       DEF RowBounded, FreeRow, RowOfOne, RowOfTwo, Comparisons, Compared
  <2> QED BY <2>3, <2>4, <2>5, <2>6 DEF NoticeHand
<1> QED BY <1>6, <1>7

\* markSent settles the row.
LEMMA RowSent ==
    ASSUME NEW a \in Nat, NEW pending \in BOOLEAN, NEW n \in Nat, NEW b \in Nat,
           NEW p \in NoticeHand, NEW q \in NoticeHand, NEW h \in NoticeHand,
           RowBounded(a, pending, n, b, p, q), p.on, ~h.on
    PROVE  RowBounded(a, FALSE, n, b, h, q)
<1>1. PICK x, y : x = WritesBack(p, a) /\ y = WritesBack(q, a)
  OBVIOUS
<1>2. x \in Nat /\ y \in Nat
  BY <1>1 DEF WritesBack, NoticeHand
<1>3. Comparisons(a, x, y)
  BY <1>2, Comparable
<1> QED BY <1>1, <1>2, <1>3, NoticeAssumption
        DEF Comparisons, Compared, RowBounded, FreeRow, RowOfOne, RowOfTwo, WritesBack, StillDue,
            NoticeHand

\* The pod loses the row: that fault pays for one dispatch more.
LEMMA RowLost ==
    ASSUME NEW a \in Nat, NEW pending \in BOOLEAN, NEW n \in Nat, NEW b \in Nat,
           NEW p \in NoticeHand, NEW q \in NoticeHand, NEW h \in NoticeHand,
           RowBounded(a, pending, n, b, p, q), ~h.on
    PROVE  RowBounded(a, pending, n, b + 1, h, q)
<1>1. PICK x, y : x = WritesBack(p, a) /\ y = WritesBack(q, a)
  OBVIOUS
<1>2. x \in Nat /\ y \in Nat
  BY <1>1 DEF WritesBack, NoticeHand
<1>3. Comparisons(a, x, y)
  BY <1>2, Comparable
<1> QED BY <1>1, <1>2, <1>3, NoticeAssumption
        DEF Comparisons, Compared, RowBounded, FreeRow, RowOfOne, RowOfTwo, WritesBack, StillDue,
            NoticeHand

\* markFailed is called again: so does that fault.
LEMMA RowReadAgain ==
    ASSUME NEW a \in Nat, NEW pending \in BOOLEAN, NEW n \in Nat, NEW b \in Nat,
           NEW p \in NoticeHand, NEW q \in NoticeHand, NEW h \in NoticeHand,
           RowBounded(a, pending, n, b, p, q), p.on, ~p.held,
           h.on, h.last = p.last, ~h.held, ~h.fixed
    PROVE  RowBounded(a, pending, n, b + 1, h, q)
<1>1. PICK x \in Nat, y \in Nat : x = WritesBack(p, a) /\ y = WritesBack(q, a)
  BY DEF WritesBack, NoticeHand
<1>2. PICK c \in Nat : c = a + 1 /\ WritesBack(h, a) = c
  BY DEF WritesBack
<1>3. Comparisons(a, x, y)
  BY Comparable
<1>4. PICK m \in Nat : /\ m = n + StillDue(q) /\ n + StillDue(p) = n /\ n + StillDue(h) = n
                       /\ n + StillDue(p) + StillDue(q) = m /\ n + StillDue(q) + StillDue(p) = m
                       /\ n + StillDue(h) + StillDue(q) = m /\ n + StillDue(q) + StillDue(h) = m
                       /\ n <= m /\ (q.on => m <= n + 1) /\ (~q.on => m = n)
  BY DEF StillDue
<1>5. CASE ~p.fixed
  <2>1. x = c
    BY <1>1, <1>2, <1>5 DEF WritesBack
  <2>2. Compared(a, c) /\ Compared(x, x + 1) /\ Compared(y, y + 1)
    BY <1>2, Compares
  <2> QED BY <1>1, <1>2, <1>4, <2>1, <2>2, NoticeAssumption
          DEF RowBounded, FreeRow, RowOfOne, RowOfTwo, Compared
<1>6. CASE p.fixed /\ ~q.on
  <2>1. RowOfOne(a, pending, n, b, p, q) /\ n <= b
    BY DEF RowBounded
  <2>2. CASE p.last
    BY <1>1, <1>2, <1>3, <1>4, <1>6, <2>1, <2>2, NoticeAssumption
       DEF RowBounded, FreeRow, RowOfOne, RowOfTwo, Comparisons, Compared
  <2>3. CASE ~p.last
    BY <1>1, <1>2, <1>3, <1>4, <1>6, <2>1, <2>3, NoticeAssumption
       DEF RowBounded, FreeRow, RowOfOne, RowOfTwo, Comparisons, Compared
  <2> QED BY <2>2, <2>3
<1>7. CASE p.fixed /\ q.on
  <2>1. /\ n <= b /\ RowOfTwo(a, pending, n, b, p, q) /\ RowOfTwo(a, pending, n, b, q, p)
    BY DEF RowBounded
  <2>2. pending /\ (x = c \/ y = c)
    BY <1>1, <1>2, <1>7, <2>1 DEF RowOfTwo
  <2>3. CASE p.last /\ q.last
    BY <1>1, <1>2, <1>3, <1>4, <1>7, <2>1, <2>2, <2>3, NoticeAssumption
       DEF RowBounded, FreeRow, RowOfOne, RowOfTwo, Comparisons, Compared
  <2>4. CASE p.last /\ ~q.last
    BY <1>1, <1>2, <1>3, <1>4, <1>7, <2>1, <2>2, <2>4, NoticeAssumption
       DEF RowBounded, FreeRow, RowOfOne, RowOfTwo, Comparisons, Compared
  <2>5. CASE ~p.last /\ q.last
    BY <1>1, <1>2, <1>3, <1>4, <1>7, <2>1, <2>2, <2>5, NoticeAssumption
       DEF RowBounded, FreeRow, RowOfOne, RowOfTwo, Comparisons, Compared
  <2>6. CASE ~p.last /\ ~q.last
    BY <1>1, <1>2, <1>3, <1>4, <1>7, <2>1, <2>2, <2>6, NoticeAssumption
       DEF RowBounded, FreeRow, RowOfOne, RowOfTwo, Comparisons, Compared
  <2> QED BY <2>3, <2>4, <2>5, <2>6 DEF NoticeHand
<1> QED BY <1>5, <1>6, <1>7 DEF NoticeHand

\* A tick's claims of row r, and the hand it has of it.
Claimed(e, r) == \E i \in 1..Len(e.claimed) : e.claimed[i].id = r
ClaimedLast(e, r) ==
    \E i \in 1..Len(e.claimed) : e.claimed[i].id = r /\ LastAttempt(e.claimed[i].attempts)
Fixed(e, r) == e.pc = "update" /\ FlightOf(e, r)
HandOf(e, r) ==
    [on |-> Claimed(e, r), last |-> ClaimedLast(e, r), held |-> ~FlightOf(e, r),
     fixed |-> Fixed(e, r), read |-> IF Fixed(e, r) THEN e.read ELSE 0]
HandIn(t, d, r) == HandOf(IF d \in Dispatchers THEN t[d] ELSE TickIdle, r)

\* A batch holds no row twice.
OnceEach(e) ==
    \A i, j \in 1..Len(e.claimed) : e.claimed[i].id = e.claimed[j].id => i = j

\* At most two pods, p and q.
ThesePods(p, q) == p # q /\ Dispatchers \subseteq {p, q}

\* The dispatches of every row keep within the budget of a fresh one, plus the faults.
RowsBounded(p, q) ==
    \A r \in Notices :
        RowBounded(notice[r].attempts, notice[r].status = "PENDING", tries[r],
                   Budget(0) + noticeFaults, HandIn(tick, p, r), HandIn(tick, q, r))

\* The inductive invariant.
DispatchInv ==
    /\ NoticeInv
    /\ \A d \in Dispatchers : OnceEach(tick[d])
    /\ \A p, q : ThesePods(p, q) => RowsBounded(p, q)

LEMMA HandType ==
    ASSUME NEW e \in TickType, NEW r
    PROVE  /\ HandOf(e, r) \in NoticeHand
           /\ HandOf(e, r).on <=> Claimed(e, r)
           /\ HandOf(e, r).last <=> ClaimedLast(e, r)
           /\ HandOf(e, r).held <=> ~FlightOf(e, r)
           /\ HandOf(e, r).fixed <=> Fixed(e, r)
           /\ HandOf(e, r).read = IF Fixed(e, r) THEN e.read ELSE 0
<1>1. PICK x, l, h, f : /\ x = Claimed(e, r) /\ l = ClaimedLast(e, r)
                        /\ h = ~FlightOf(e, r) /\ f = Fixed(e, r)
  OBVIOUS
<1>2. x \in BOOLEAN /\ l \in BOOLEAN /\ h \in BOOLEAN /\ f \in BOOLEAN
  BY <1>1, Zenon DEF Claimed, ClaimedLast, FlightOf, Fixed
<1>3. PICK v : v = IF f THEN e.read ELSE 0
  OBVIOUS
<1>4. v \in Nat
  BY <1>3 DEF TickType
<1>5. HandOf(e, r) = [on |-> x, last |-> l, held |-> h, fixed |-> f, read |-> v]
  BY <1>1, <1>3, Zenon DEF HandOf
<1>6. v = IF Fixed(e, r) THEN e.read ELSE 0
  BY <1>1, <1>3, Zenon
<1>7. /\ HandOf(e, r) \in NoticeHand
      /\ HandOf(e, r).on = x /\ HandOf(e, r).last = l /\ HandOf(e, r).held = h
      /\ HandOf(e, r).fixed = f /\ HandOf(e, r).read = v
  BY <1>2, <1>4, <1>5 DEF NoticeHand
<1> QED BY <1>1, <1>6, <1>7, Zenon

\* Ticks that have the same of a row.
LEMMA SameHand ==
    ASSUME NEW e \in TickType, NEW f \in TickType, NEW r,
           Claimed(e, r) <=> Claimed(f, r), ClaimedLast(e, r) <=> ClaimedLast(f, r),
           FlightOf(e, r) <=> FlightOf(f, r), Fixed(e, r) <=> Fixed(f, r),
           Fixed(e, r) => e.read = f.read
    PROVE  HandOf(e, r) = HandOf(f, r)
<1>1. HandOf(e, r) \in NoticeHand /\ HandOf(f, r) \in NoticeHand
  BY HandType
<1>2. \A g, h \in NoticeHand :
        (g.on <=> h.on) /\ (g.last <=> h.last) /\ (g.held <=> h.held) /\ (g.fixed <=> h.fixed)
           /\ g.read = h.read => g = h
  BY DEF NoticeHand
<1>3. /\ HandOf(e, r).on <=> HandOf(f, r).on
      /\ HandOf(e, r).last <=> HandOf(f, r).last
      /\ HandOf(e, r).held <=> HandOf(f, r).held
      /\ HandOf(e, r).fixed <=> HandOf(f, r).fixed
  BY HandType
<1>4. HandOf(e, r).read = HandOf(f, r).read
  <2>1. HandOf(e, r).read = IF Fixed(e, r) THEN e.read ELSE 0
    BY HandType
  <2>2. HandOf(f, r).read = IF Fixed(f, r) THEN f.read ELSE 0
    BY HandType
  <2> QED BY <2>1, <2>2
<1> QED BY <1>1, <1>2, <1>3, <1>4

LEMMA RowSymmetric ==
    ASSUME NEW a, NEW pending, NEW n \in Nat, NEW b, NEW p \in NoticeHand, NEW q \in NoticeHand,
           RowBounded(a, pending, n, b, p, q)
    PROVE  RowBounded(a, pending, n, b, q, p)
BY DEF RowBounded, FreeRow

LEMMA RowMore ==
    ASSUME NEW a \in Nat, NEW pending \in BOOLEAN, NEW n \in Nat, NEW b \in Nat,
           NEW p \in NoticeHand, NEW q \in NoticeHand, RowBounded(a, pending, n, b, p, q)
    PROVE  RowBounded(a, pending, n, b + 1, p, q)
<1>1. PICK x \in Nat, y \in Nat : x = WritesBack(p, a) /\ y = WritesBack(q, a)
  BY DEF WritesBack, NoticeHand
<1>2. /\ Compared(a, a + 1) /\ Compared(x, x + 1) /\ Compared(y, y + 1)
      /\ StillDue(p) \in Nat /\ StillDue(q) \in Nat
  BY Compares DEF StillDue
<1> QED BY <1>1, <1>2 DEF Compared, RowBounded, FreeRow, RowOfOne, RowOfTwo

\* A pod moves: the other's hands stay.
LEMMA HandsMove ==
    ASSUME NEW t \in [Dispatchers -> TickType], NEW u \in [Dispatchers -> TickType],
           NEW d \in Dispatchers, NEW o, o \in Dispatchers => u[o] = t[o], NEW r
    PROVE  /\ HandIn(t, d, r) = HandOf(t[d], r) /\ HandIn(u, d, r) = HandOf(u[d], r)
           /\ HandIn(u, o, r) = HandIn(t, o, r)
           /\ HandIn(t, o, r) \in NoticeHand /\ HandIn(u, d, r) \in NoticeHand
<1>2. HandIn(t, d, r) = HandOf(t[d], r) /\ HandIn(u, d, r) = HandOf(u[d], r)
  BY DEF HandIn
<1>3. HandIn(u, o, r) = HandIn(t, o, r)
  BY DEF HandIn
<1>4. TickIdle \in TickType /\ (o \in Dispatchers => t[o] \in TickType) /\ u[d] \in TickType
  BY IdleTick
<1>5. HandIn(t, o, r) \in NoticeHand
  BY <1>4, HandType DEF HandIn
<1> QED BY <1>2, <1>3, <1>4, <1>5, HandType

\* A step of pod d to e keeps row r within bounds, whatever the other pod has of it.
RowKept(d, e, r) ==
    \A h \in NoticeHand :
        RowBounded(notice[r].attempts, notice[r].status = "PENDING", tries[r],
                   Budget(0) + noticeFaults, HandOf(tick[d], r), h)
        => RowBounded(notice'[r].attempts, notice'[r].status = "PENDING", tries'[r],
                      Budget(0) + noticeFaults', HandOf(e, r), h)

LEMMA RowTypes ==
    ASSUME NoticeInv, NEW r \in Notices
    PROVE  /\ notice[r].attempts \in Nat /\ (notice[r].status = "PENDING") \in BOOLEAN
           /\ tries[r] \in Nat /\ Budget(0) + noticeFaults \in Nat
<1>1. /\ notice[r].attempts \in Nat /\ tries[r] \in Nat /\ noticeFaults \in Nat
  BY NoticeAssumption DEF NoticeInv, NoticeTypes
<1>2. Budget(0) \in Nat
  BY BudgetFacts
<1> QED BY <1>1, <1>2

\* It keeps a row of which it does not touch anything.
LEMMA OtherRow ==
    ASSUME NoticeInv, NEW d \in Dispatchers, NEW e \in TickType, NEW r \in Notices,
           notice'[r].attempts = notice[r].attempts,
           notice'[r].status = "PENDING" <=> notice[r].status = "PENDING",
           tries'[r] = tries[r], noticeFaults' \in {noticeFaults, noticeFaults + 1},
           HandOf(e, r) = HandOf(tick[d], r)
    PROVE  RowKept(d, e, r)
<1>1. PICK a, n, b, g, pending :
          /\ a = notice[r].attempts /\ n = tries[r] /\ b = Budget(0) + noticeFaults
          /\ g = HandOf(e, r) /\ pending = (notice[r].status = "PENDING")
          /\ pending \in BOOLEAN
  OBVIOUS
<1>2. pending = (notice'[r].status = "PENDING")
  BY <1>1
<1>3. pending \in BOOLEAN /\ a \in Nat /\ n \in Nat /\ b \in Nat /\ noticeFaults \in Nat /\ Budget(0) \in Nat
  BY <1>1, RowTypes, BudgetFacts, NoticeAssumption DEF NoticeInv, NoticeTypes
<1>4. Budget(0) + noticeFaults' \in {b, b + 1}
  BY <1>1, <1>3
<1>5. g \in NoticeHand
  BY <1>1, HandType
<1>6. ASSUME NEW h \in NoticeHand, RowBounded(a, pending, n, b, g, h)
      PROVE  RowBounded(a, pending, n, Budget(0) + noticeFaults', g, h)
  <2>1. RowBounded(a, pending, n, b + 1, g, h)
    BY <1>3, <1>5, <1>6, RowMore
  <2> QED BY <1>4, <1>6, <2>1
<1>7. ASSUME NEW h \in NoticeHand
      PROVE  RowBounded(notice[r].attempts, notice[r].status = "PENDING", tries[r],
                        Budget(0) + noticeFaults, HandOf(tick[d], r), h)
             => RowBounded(notice'[r].attempts, notice'[r].status = "PENDING", tries'[r],
                           Budget(0) + noticeFaults', HandOf(e, r), h)
  BY <1>1, <1>2, <1>6, <1>7, Zenon
<1> QED BY <1>7 DEF RowKept

\* A step of one pod keeps the invariant when it keeps every row.
LEMMA PodStep ==
    ASSUME DispatchInv, NoticeInv', NEW d \in Dispatchers, NEW e \in TickType,
           tick' = [tick EXCEPT ![d] = e], OnceEach(e), \A r \in Notices : RowKept(d, e, r)
    PROVE  DispatchInv'
<1>t. /\ NoticeInv /\ tick \in [Dispatchers -> TickType]
  BY DEF DispatchInv, NoticeInv, NoticeTypes
<1>1. \A x \in Dispatchers : OnceEach(tick'[x])
  <2> SUFFICES ASSUME NEW x \in Dispatchers PROVE OnceEach(tick'[x])
    OBVIOUS
  <2>1. tick'[x] = IF x = d THEN e ELSE tick[x]
    BY <1>t
  <2> QED BY <2>1 DEF DispatchInv
<1>2. ASSUME NEW o, ThesePods(d, o) PROVE RowsBounded(d, o)' /\ RowsBounded(o, d)'
  <2>1. RowsBounded(d, o) /\ o # d
    BY <1>2 DEF DispatchInv, ThesePods
  <2>2. ASSUME NEW r \in Notices
        PROVE  /\ RowBounded(notice'[r].attempts, notice'[r].status = "PENDING", tries'[r],
                             Budget(0) + noticeFaults', HandIn(tick', d, r), HandIn(tick', o, r))
               /\ RowBounded(notice'[r].attempts, notice'[r].status = "PENDING", tries'[r],
                             Budget(0) + noticeFaults', HandIn(tick', o, r), HandIn(tick', d, r))
    <3>0. PICK t, u : t = tick /\ u = tick'
      OBVIOUS
    <3>6. /\ t \in [Dispatchers -> TickType] /\ u \in [Dispatchers -> TickType]
          /\ u[d] = e /\ t[d] = tick[d]
      BY <1>t, <3>0
    <3>7. o \in Dispatchers => u[o] = t[o]
      BY <1>t, <2>1, <3>0
    <3>8. /\ HandIn(t, d, r) = HandOf(t[d], r) /\ HandIn(u, d, r) = HandOf(u[d], r)
          /\ HandIn(u, o, r) = HandIn(t, o, r)
          /\ HandIn(t, o, r) \in NoticeHand /\ HandIn(u, d, r) \in NoticeHand
      BY <3>6, <3>7, HandsMove
    <3>1. /\ HandIn(tick, d, r) = HandOf(tick[d], r) /\ HandIn(tick', d, r) = HandOf(e, r)
          /\ HandIn(tick', o, r) = HandIn(tick, o, r) /\ HandIn(tick, o, r) \in NoticeHand
          /\ HandIn(tick', d, r) \in NoticeHand
      BY <3>0, <3>6, <3>8
    <3>2. RowBounded(notice[r].attempts, notice[r].status = "PENDING", tries[r],
                     Budget(0) + noticeFaults, HandOf(tick[d], r), HandIn(tick, o, r))
      BY <2>1, <3>1, Zenon DEF RowsBounded
    <3>3. RowBounded(notice'[r].attempts, notice'[r].status = "PENDING", tries'[r],
                     Budget(0) + noticeFaults', HandIn(tick', d, r), HandIn(tick', o, r))
      BY <3>1, <3>2, Zenon DEF RowKept
    <3>4. tries'[r] \in Nat
      BY DEF NoticeInv, NoticeTypes
    <3>5. RowBounded(notice'[r].attempts, notice'[r].status = "PENDING", tries'[r],
                     Budget(0) + noticeFaults', HandIn(tick', o, r), HandIn(tick', d, r))
      BY <3>1, <3>3, <3>4, RowSymmetric
    <3> QED BY <3>3, <3>5
  <2> QED BY <2>2, Zenon DEF RowsBounded
<1>3. ASSUME NEW p, NEW q, ThesePods(p, q) PROVE RowsBounded(p, q)'
  <2>1. d = p \/ d = q
    BY <1>3 DEF ThesePods
  <2>2. ThesePods(q, p)
    BY <1>3 DEF ThesePods
  <2> QED BY <1>2, <1>3, <2>1, <2>2
<1>4. \A p, q : ThesePods(p, q)' => RowsBounded(p, q)'
  BY <1>3 DEF ThesePods
<1> QED BY <1>1, <1>4 DEF DispatchInv

\* What a tick has of the row it is at.
LEMMA CurrentHand ==
    ASSUME NEW e \in TickType, e.claimed # <<>>, OnceEach(e), NEW r, r = Head(e.claimed).id
    PROVE  /\ HandOf(e, r) \in NoticeHand /\ HandOf(e, r).on
           /\ HandOf(e, r).last <=> LastAttempt(Head(e.claimed).attempts)
           /\ HandOf(e, r).held <=> e.pc \notin Flying
           /\ HandOf(e, r).fixed <=> e.pc = "update"
           /\ HandOf(e, r).fixed => HandOf(e, r).read = e.read
<1>1. e.claimed \in Seq(ClaimType) /\ Head(e.claimed) = e.claimed[1] /\ 1 \in 1..Len(e.claimed)
  BY DEF TickType
<1>2. Claimed(e, r) /\ (FlightOf(e, r) <=> e.pc \in Flying) /\ (Fixed(e, r) <=> e.pc = "update")
  BY <1>1 DEF Claimed, FlightOf, Fixed, Flying
<1>3. ClaimedLast(e, r) <=> LastAttempt(Head(e.claimed).attempts)
  <2>1. \A i \in 1..Len(e.claimed) : e.claimed[i].id = r => i = 1
    BY <1>1 DEF OnceEach
  <2> QED BY <1>1, <2>1 DEF ClaimedLast
<1>4. /\ HandOf(e, r) \in NoticeHand
      /\ HandOf(e, r).on <=> Claimed(e, r)
      /\ HandOf(e, r).last <=> ClaimedLast(e, r)
      /\ HandOf(e, r).held <=> ~FlightOf(e, r)
      /\ HandOf(e, r).fixed <=> Fixed(e, r)
      /\ HandOf(e, r).read = IF Fixed(e, r) THEN e.read ELSE 0
  BY HandType
<1> QED BY <1>2, <1>3, <1>4

\* While a tick works through a batch, it has the same of every row but the one it is at.
LEMMA SameBatch ==
    ASSUME NEW e \in TickType, NEW f \in TickType, e.claimed = f.claimed
    PROVE  /\ OnceEach(f) => OnceEach(e)
           /\ \A r : r # Head(e.claimed).id => HandOf(e, r) = HandOf(f, r)
           /\ \A r : (e.pc \in Flying <=> f.pc \in Flying) /\ e.pc # "update" /\ f.pc # "update"
                       => HandOf(e, r) = HandOf(f, r)
<1>1. \A r : /\ Claimed(e, r) <=> Claimed(f, r)
             /\ ClaimedLast(e, r) <=> ClaimedLast(f, r)
  BY DEF Claimed, ClaimedLast
<1>2. ASSUME NEW r, r # Head(e.claimed).id PROVE HandOf(e, r) = HandOf(f, r)
  <2>1. ~FlightOf(e, r) /\ ~FlightOf(f, r) /\ ~Fixed(e, r) /\ ~Fixed(f, r)
    BY <1>2 DEF FlightOf, Fixed
  <2> QED BY <1>1, <2>1, SameHand
<1>3. ASSUME NEW r, e.pc \in Flying <=> f.pc \in Flying, e.pc # "update", f.pc # "update"
      PROVE  HandOf(e, r) = HandOf(f, r)
  <2>1. (FlightOf(e, r) <=> FlightOf(f, r)) /\ ~Fixed(e, r) /\ ~Fixed(f, r)
    BY <1>3 DEF FlightOf, Fixed
  <2> QED BY <1>1, <2>1, SameHand
<1> QED BY <1>2, <1>3 DEF OnceEach

\* handleRow is over: the tick has the row no more, and the same of the others.
LEMMA BatchGoesOn ==
    ASSUME NEW f \in TickType, f.claimed # <<>>, f.pc # "idle", OnceEach(f), NEW e \in TickType,
           e = IF Tail(f.claimed) = <<>> THEN TickIdle
               ELSE [TickIdle EXCEPT !.pc = "send", !.claimed = Tail(f.claimed)]
    PROVE  /\ OnceEach(e) /\ ~HandOf(e, Head(f.claimed).id).on
           /\ \A r : r # Head(f.claimed).id => HandOf(e, r) = HandOf(f, r)
<1>1. PICK s, rest : s = f.claimed /\ rest = Tail(s)
  OBVIOUS
<1>2. s \in Seq(ClaimType) /\ s # <<>> /\ Head(s) = s[1]
  BY <1>1 DEF TickType
<1>3. /\ rest \in Seq(ClaimType) /\ Len(rest) = Len(s) - 1 /\ Len(s) \in Nat /\ 1 <= Len(s)
      /\ \A i \in 1..Len(rest) : rest[i] = s[i + 1] /\ i + 1 \in 1..Len(s)
  BY <1>1, <1>2
<1>4. e.claimed = rest /\ e.pc \in {"idle", "send"}
  BY <1>1, <1>3 DEF TickIdle
<1>5. \A i, j \in 1..Len(s) : s[i].id = s[j].id => i = j
  BY <1>1 DEF OnceEach
<1>6. OnceEach(e)
  <2>1. ASSUME NEW i \in 1..Len(rest), NEW j \in 1..Len(rest), rest[i].id = rest[j].id
        PROVE  i = j
    <3>0. PICK k \in 1..Len(s), l \in 1..Len(s) :
             k = i + 1 /\ l = j + 1 /\ rest[i] = s[k] /\ rest[j] = s[l]
      BY <1>3
    <3>1. i + 1 = j + 1
      BY <1>5, <2>1, <3>0
    <3> QED BY <1>3, <3>1
  <2> QED BY <1>4, <2>1, Zenon DEF OnceEach
<1>7. \A i \in 1..Len(rest) : rest[i].id # s[1].id
  <2>1. 1 \in 1..Len(s) /\ \A i \in 1..Len(rest) : i + 1 # 1
    BY <1>3
  <2> QED BY <1>3, <1>5, <2>1
<1>8. ~Claimed(e, Head(s).id)
  BY <1>2, <1>4, <1>7 DEF Claimed
<1>9. ASSUME NEW r, r # Head(s).id PROVE HandOf(e, r) = HandOf(f, r)
  <2>1. \A j \in 1..Len(s) : j # 1 => /\ j - 1 \in 1..Len(rest) /\ rest[j - 1] = s[j]
    BY <1>3
  <2>5. \A i \in 1..Len(rest) : \E j \in 1..Len(s) : s[j] = rest[i]
    BY <1>3
  <2>6. \A j \in 1..Len(s) : s[j].id = r => \E i \in 1..Len(rest) : rest[i] = s[j]
    BY <1>2, <1>9, <2>1
  <2>2. Claimed(e, r) <=> Claimed(f, r)
    <3>1. Claimed(e, r) <=> \E i \in 1..Len(rest) : rest[i].id = r
      BY <1>4, Zenon DEF Claimed
    <3>2. Claimed(f, r) <=> \E j \in 1..Len(s) : s[j].id = r
      BY <1>1, Zenon DEF Claimed
    <3> QED BY <2>5, <2>6, <3>1, <3>2, Zenon
  <2>3. ClaimedLast(e, r) <=> ClaimedLast(f, r)
    <3>1. ClaimedLast(e, r)
             <=> \E i \in 1..Len(rest) : rest[i].id = r /\ LastAttempt(rest[i].attempts)
      BY <1>4, Zenon DEF ClaimedLast
    <3>2. ClaimedLast(f, r)
             <=> \E j \in 1..Len(s) : s[j].id = r /\ LastAttempt(s[j].attempts)
      BY <1>1, Zenon DEF ClaimedLast
    <3>3. ASSUME ClaimedLast(e, r) PROVE ClaimedLast(f, r)
      <4>1. PICK i \in 1..Len(rest) : rest[i].id = r /\ LastAttempt(rest[i].attempts)
        BY <3>1, <3>3, Zenon
      <4>2. PICK j \in 1..Len(s) : s[j] = rest[i]
        BY <2>5, Zenon
      <4> QED BY <3>2, <4>1, <4>2, Zenon
    <3>4. ASSUME ClaimedLast(f, r) PROVE ClaimedLast(e, r)
      <4>1. PICK j \in 1..Len(s) : s[j].id = r /\ LastAttempt(s[j].attempts)
        BY <3>2, <3>4, Zenon
      <4>2. PICK i \in 1..Len(rest) : rest[i] = s[j]
        BY <2>6, <4>1, Zenon
      <4> QED BY <3>1, <4>1, <4>2, Zenon
    <3> QED BY <3>3, <3>4
  <2>4. ~FlightOf(e, r) /\ ~FlightOf(f, r) /\ ~Fixed(e, r) /\ ~Fixed(f, r)
    BY <1>1, <1>4, <1>9 DEF FlightOf, Fixed, Flying
  <2> QED BY <2>2, <2>3, <2>4, SameHand
<1> QED BY <1>1, <1>6, <1>8, <1>9, HandType

\* A tick with nothing claimed has nothing of any row.
LEMMA NothingInHand ==
    /\ OnceEach(TickIdle)
    /\ \A r : HandOf(TickIdle, r) \in NoticeHand /\ ~HandOf(TickIdle, r).on
<1>1. TickIdle \in TickType /\ TickIdle.claimed = <<>>
  BY IdleTick DEF TickIdle
<1>2. \A r : ~Claimed(TickIdle, r)
  BY <1>1 DEF Claimed
<1> QED BY <1>1, <1>2, HandType DEF OnceEach

\* claimPending: every row of the batch is pending, and claimed as it is now.
LEMMA KeptByClaim ==
    ASSUME DispatchInv, NEW d \in Dispatchers, ClaimPending(d)
    PROVE  \E e \in TickType : /\ tick' = [tick EXCEPT ![d] = e] /\ OnceEach(e)
                               /\ \A r \in Notices : RowKept(d, e, r)
<1>t. NoticeInv /\ NoticeTypes /\ tick \in [Dispatchers -> TickType]
  BY DEF DispatchInv, NoticeInv, NoticeTypes
<1>1. PICK n \in 1..OutboxBatch : \E ids \in [1..n -> DueRows] :
         /\ \A i, j \in 1..n : i # j => ids[i] # ids[j]
         /\ tick' = [tick EXCEPT ![d] = [TickIdle EXCEPT !.pc = "send",
             !.claimed = [i \in 1..n |-> [id |-> ids[i], attempts |-> notice[ids[i]].attempts]]]]
  BY DEF ClaimPending
<1>2. PICK ids \in [1..n -> DueRows] :
         /\ \A i, j \in 1..n : i # j => ids[i] # ids[j]
         /\ tick' = [tick EXCEPT ![d] = [TickIdle EXCEPT !.pc = "send",
             !.claimed = [i \in 1..n |-> [id |-> ids[i], attempts |-> notice[ids[i]].attempts]]]]
  BY <1>1
<1>3. PICK s : s = [i \in 1..n |-> [id |-> ids[i], attempts |-> notice[ids[i]].attempts]]
  OBVIOUS
<1>4. n \in Nat \ {0}
  BY NoticeAssumption
<1>5. \A i \in 1..n : /\ s[i].id = ids[i] /\ s[i].id \in Notices /\ s[i] \in ClaimType
                      /\ s[i].attempts = notice[s[i].id].attempts
                      /\ notice[s[i].id].status = "PENDING"
  BY <1>t, <1>3 DEF DueRows, ClaimType, NoticeTypes
<1>6. s \in Seq(ClaimType) /\ Len(s) = n
  <2>1. s \in [1..n -> ClaimType]
    BY <1>3, <1>5
  <2>2. s \in Seq(ClaimType)
    BY <1>4, <2>1, SeqDef
  <2> QED BY <1>4, <2>1, <2>2, LenProperties
<1>7. PICK e : /\ e = [TickIdle EXCEPT !.pc = "send", !.claimed = s]
               /\ tick' = [tick EXCEPT ![d] = e]
  BY <1>2, <1>3
<1>8. e \in TickType /\ e.pc = "send" /\ e.claimed = s
  BY <1>6, <1>7 DEF TickType, TickIdle
<1>9. OnceEach(e)
  <2>1. \A i, j \in 1..n : s[i].id = s[j].id => i = j
    BY <1>2, <1>5, Zenon
  <2> QED BY <1>6, <1>8, <2>1 DEF OnceEach
<1>10. /\ notice' = notice /\ tries' = tries /\ noticeFaults' = noticeFaults
       /\ tick[d].pc = "idle" /\ tick[d] \in TickType
  BY <1>t DEF ClaimPending
<1>11. tick[d].claimed = <<>>
  BY <1>10 DEF DispatchInv, NoticeInv, GoodTick
<1>12. ASSUME NEW r \in Notices PROVE RowKept(d, e, r)
  <2>1. ~Claimed(tick[d], r) /\ ~ClaimedLast(tick[d], r)
    BY <1>11 DEF Claimed, ClaimedLast
  <2>2. /\ ~FlightOf(tick[d], r) /\ ~FlightOf(e, r)
        /\ ~Fixed(tick[d], r) /\ ~Fixed(e, r)
    BY <1>8, <1>10 DEF FlightOf, Fixed, Flying
  <2>3. CASE ~Claimed(e, r)
    <3>1. ~ClaimedLast(e, r)
      BY <2>3 DEF Claimed, ClaimedLast
    <3>2. HandOf(e, r) = HandOf(tick[d], r)
      BY <1>8, <1>10, <2>1, <2>2, <2>3, <3>1, SameHand
    <3> QED BY <1>t, <1>8, <1>10, <3>2, OtherRow
  <2>4. CASE Claimed(e, r)
    <3>1. PICK i \in 1..n : s[i].id = r
      BY <1>6, <1>8, <2>4 DEF Claimed
    <3>2. notice[r].status = "PENDING"
      BY <1>5, <3>1
    <3>3. ClaimedLast(e, r) <=> LastAttempt(notice[r].attempts)
      <4>1. \A j \in 1..n : s[j].id = r => s[j].attempts = notice[r].attempts
        BY <1>5
      <4> QED BY <1>6, <1>8, <3>1, <4>1 DEF ClaimedLast
    <3>4. PICK a, m, b, g, k : /\ a = notice[r].attempts /\ m = tries[r]
                               /\ b = Budget(0) + noticeFaults
                               /\ g = HandOf(tick[d], r) /\ k = HandOf(e, r)
      OBVIOUS
    <3>5. a \in Nat /\ m \in Nat /\ b \in Nat
      BY <1>t, <3>4, RowTypes
    <3>6. /\ g \in NoticeHand /\ ~g.on /\ k \in NoticeHand /\ k.on
          /\ k.last <=> LastAttempt(a)
          /\ k.held /\ ~k.fixed
      BY <1>8, <1>10, <2>1, <2>2, <2>4, <3>3, <3>4, HandType
    <3>7. ASSUME NEW h \in NoticeHand, RowBounded(a, TRUE, m, b, g, h)
          PROVE  RowBounded(a, TRUE, m, b, k, h)
      BY <3>5, <3>6, <3>7, RowClaimed
    <3>8. /\ (notice[r].status = "PENDING") = TRUE /\ (notice'[r].status = "PENDING") = TRUE
          /\ notice'[r].attempts = a /\ tries'[r] = m /\ Budget(0) + noticeFaults' = b
      BY <1>10, <3>2, <3>4
    <3> QED BY <3>4, <3>7, <3>8, Zenon DEF RowKept
  <2> QED BY <2>3, <2>4
<1> QED BY <1>7, <1>8, <1>9, <1>12

\* dispatch.
LEMMA KeptByDispatch ==
    ASSUME DispatchInv, NEW d \in Dispatchers, Dispatch(d)
    PROVE  \E e \in TickType : /\ tick' = [tick EXCEPT ![d] = e] /\ OnceEach(e)
                               /\ \A r \in Notices : RowKept(d, e, r)
<1>t. NoticeInv /\ NoticeTypes /\ tick \in [Dispatchers -> TickType] /\ OnceEach(tick[d])
  BY DEF DispatchInv, NoticeInv, NoticeTypes
<1>1. PICK r : r = Current(d).id
  OBVIOUS
<1>2. /\ tick[d].pc = "send" /\ tick[d] \in TickType /\ r \in Notices
      /\ tick[d].claimed # <<>> /\ r = Head(tick[d].claimed).id
  BY <1>t, <1>1, NoticeInHand DEF Dispatch, Current
<1>3. PICK e : /\ tick' = [tick EXCEPT ![d] = e] /\ e \in TickType
               /\ e.pc \in {"delivery", "markFailed"} /\ e.claimed = tick[d].claimed
  <2>1. \/ \E ok \in BOOLEAN : tick' = [tick EXCEPT ![d] = [tick[d] EXCEPT !.pc = "delivery", !.sent = ok]]
        \/ tick' = [tick EXCEPT ![d] = [tick[d] EXCEPT !.pc = "markFailed", !.sent = FALSE]]
    BY <1>t DEF Dispatch
  <2>2. \A ok \in BOOLEAN : \A p \in {"delivery", "markFailed"} :
           /\ [tick[d] EXCEPT !.pc = p, !.sent = ok] \in TickType
           /\ [tick[d] EXCEPT !.pc = p, !.sent = ok].pc = p
           /\ [tick[d] EXCEPT !.pc = p, !.sent = ok].claimed = tick[d].claimed
    BY <1>2 DEF TickType
  <2> QED BY <2>1, <2>2
<1>4. /\ tries' = [tries EXCEPT ![r] = @ + 1] /\ tries \in [Notices -> Nat]
      /\ notice' = notice /\ noticeFaults' = noticeFaults
  BY <1>t, <1>1 DEF Dispatch, NoticeTypes
<1>5. OnceEach(e) /\ \A x : x # r => HandOf(e, x) = HandOf(tick[d], x)
  BY <1>t, <1>2, <1>3, SameBatch
<1>6. RowKept(d, e, r)
  <2>1. PICK a, m, b, g, k, pending : /\ a = notice[r].attempts /\ m = tries[r]
                             /\ b = Budget(0) + noticeFaults
                             /\ g = HandOf(tick[d], r) /\ k = HandOf(e, r)
                             /\ pending = (notice[r].status = "PENDING")
    OBVIOUS
  <2>2. a \in Nat /\ m \in Nat /\ b \in Nat /\ pending \in BOOLEAN
    BY <1>t, <1>2, <2>1, RowTypes
  <2>3. /\ g \in NoticeHand /\ g.on /\ g.held /\ ~g.fixed
        /\ g.last <=> LastAttempt(Head(tick[d].claimed).attempts)
    BY <1>t, <1>2, <2>1, CurrentHand DEF Flying
  <2>4. /\ k \in NoticeHand /\ k.on /\ ~k.held /\ ~k.fixed
        /\ k.last <=> LastAttempt(Head(tick[d].claimed).attempts)
    BY <1>2, <1>3, <1>5, <2>1, CurrentHand DEF Flying
  <2>5. k.last = g.last
    BY <2>3, <2>4 DEF NoticeHand
  <2>6. ASSUME NEW h \in NoticeHand, RowBounded(a, pending, m, b, g, h)
        PROVE  RowBounded(a, pending, m + 1, b, k, h)
    BY <2>2, <2>3, <2>4, <2>5, <2>6, RowDispatched
  <2>7. /\ (notice'[r].status = "PENDING") = pending /\ notice'[r].attempts = a
        /\ tries'[r] = m + 1 /\ Budget(0) + noticeFaults' = b
    BY <1>2, <1>4, <2>1
  <2> QED BY <2>1, <2>6, <2>7, Zenon DEF RowKept
<1>7. ASSUME NEW x \in Notices, x # r PROVE RowKept(d, e, x)
  <2>1. tries'[x] = tries[x] /\ HandOf(e, x) = HandOf(tick[d], x)
    BY <1>2, <1>4, <1>5, <1>7
  <2> QED BY <1>t, <1>3, <1>4, <2>1, OtherRow
<1> QED BY <1>3, <1>5, <1>6, <1>7

\* deliveries.insert, or a statement that fails after it: still in flight.
LEMMA KeptInFlight ==
    ASSUME DispatchInv, NEW d \in Dispatchers, InsertDelivery(d) \/ StatementFails(d)
    PROVE  \E e \in TickType : /\ tick' = [tick EXCEPT ![d] = e] /\ OnceEach(e)
                               /\ \A r \in Notices : RowKept(d, e, r)
<1>t. /\ NoticeInv /\ NoticeTypes /\ tick \in [Dispatchers -> TickType] /\ OnceEach(tick[d])
      /\ tick[d] \in TickType
  BY DEF DispatchInv, NoticeInv, NoticeTypes
<1>1. PICK p \in {"markSent", "markFailed"} : tick' = [tick EXCEPT ![d].pc = p]
  BY DEF InsertDelivery, StatementFails
<1>2. PICK e : e = [tick[d] EXCEPT !.pc = p] /\ tick' = [tick EXCEPT ![d] = e]
  BY <1>t, <1>1
<1>3. e \in TickType /\ e.pc = p /\ e.claimed = tick[d].claimed
  BY <1>t, <1>2 DEF TickType
<1>4. /\ tick[d].pc \in {"delivery", "markSent"} /\ notice' = notice /\ tries' = tries
      /\ noticeFaults' \in {noticeFaults, noticeFaults + 1}
  BY DEF InsertDelivery, StatementFails, NoticeFault
<1>5. OnceEach(e) /\ \A r : HandOf(e, r) = HandOf(tick[d], r)
  <2>1. (e.pc \in Flying <=> tick[d].pc \in Flying) /\ e.pc # "update" /\ tick[d].pc # "update"
    BY <1>3, <1>4 DEF Flying
  <2> QED BY <1>t, <1>3, <2>1, SameBatch
<1>6. ASSUME NEW r \in Notices PROVE RowKept(d, e, r)
  BY <1>t, <1>3, <1>4, <1>5, OtherRow
<1> QED BY <1>2, <1>3, <1>5, <1>6

\* A tick that ends early loses its rows.
LEMMA KeptByLoss ==
    ASSUME DispatchInv, NEW d \in Dispatchers, tick' = [tick EXCEPT ![d] = TickIdle], NoticeFault,
           UNCHANGED <<notice, tries>>
    PROVE  \E e \in TickType : /\ tick' = [tick EXCEPT ![d] = e] /\ OnceEach(e)
                               /\ \A r \in Notices : RowKept(d, e, r)
<1>t. NoticeInv /\ NoticeTypes /\ tick[d] \in TickType
  BY DEF DispatchInv, NoticeInv, NoticeTypes
<1>1. ASSUME NEW r \in Notices PROVE RowKept(d, TickIdle, r)
  <2>1. PICK a, m, b, g, k, pending : /\ a = notice[r].attempts /\ m = tries[r]
                             /\ b = Budget(0) + noticeFaults
                             /\ g = HandOf(tick[d], r) /\ k = HandOf(TickIdle, r)
                             /\ pending = (notice[r].status = "PENDING")
    OBVIOUS
  <2>2. a \in Nat /\ m \in Nat /\ b \in Nat /\ pending \in BOOLEAN
    BY <1>t, <2>1, RowTypes
  <2>3. g \in NoticeHand /\ k \in NoticeHand /\ ~k.on
    BY <1>t, <2>1, HandType, NothingInHand
  <2>4. ASSUME NEW h \in NoticeHand, RowBounded(a, pending, m, b, g, h)
        PROVE  RowBounded(a, pending, m, b + 1, k, h)
    BY <2>2, <2>3, <2>4, RowLost
  <2>5. Budget(0) \in Nat /\ noticeFaults \in Nat
    BY <1>t, BudgetFacts, NoticeAssumption DEF NoticeTypes
  <2>6. /\ (notice'[r].status = "PENDING") = pending /\ notice'[r].attempts = a
        /\ tries'[r] = m /\ Budget(0) + noticeFaults' = b + 1
    BY <2>1, <2>5 DEF NoticeFault
  <2> QED BY <2>1, <2>4, <2>6, Zenon DEF RowKept
<1> QED BY <1>1, IdleTick, NothingInHand

\* markFailed, its read, or its call again after a failure.
LEMMA KeptByRead ==
    ASSUME DispatchInv, NEW d \in Dispatchers,
           \/ MarkFailedRead(d)
           \/ MarkFailedFails(d) /\ tick' = [tick EXCEPT ![d].pc = "markFailed"]
    PROVE  \E e \in TickType : /\ tick' = [tick EXCEPT ![d] = e] /\ OnceEach(e)
                               /\ \A r \in Notices : RowKept(d, e, r)
<1>t. NoticeInv /\ NoticeTypes /\ tick \in [Dispatchers -> TickType] /\ OnceEach(tick[d])
  BY DEF DispatchInv, NoticeInv, NoticeTypes
<1>1. PICK r : r = Current(d).id
  OBVIOUS
<1>2. /\ tick[d].pc \in {"markFailed", "update"} /\ tick[d] \in TickType /\ r \in Notices
      /\ tick[d].claimed # <<>> /\ r = Head(tick[d].claimed).id
      /\ UNCHANGED <<notice, tries>>
  BY <1>t, <1>1, NoticeInHand DEF MarkFailedRead, MarkFailedFails, Current
<1>3. PICK e : /\ tick' = [tick EXCEPT ![d] = e] /\ e \in TickType /\ e.claimed = tick[d].claimed
               /\ \/ /\ tick[d].pc = "markFailed" /\ e.pc = "update"
                     /\ e.read = notice[r].attempts /\ noticeFaults' = noticeFaults
                  \/ e.pc = "markFailed" /\ noticeFaults' = noticeFaults + 1
  <2>1. CASE MarkFailedRead(d)
    <3>1. PICK e : /\ e = [tick[d] EXCEPT !.pc = "update", !.read = notice[r].attempts]
                   /\ tick' = [tick EXCEPT ![d] = e]
      BY <1>t, <1>1, <2>1 DEF MarkFailedRead
    <3>2. notice[r].attempts \in Nat
      BY <1>2, <1>t DEF NoticeTypes
    <3>3. /\ e \in TickType /\ e.claimed = tick[d].claimed /\ e.pc = "update"
          /\ e.read = notice[r].attempts
      BY <1>2, <3>1, <3>2 DEF TickType
    <3> QED BY <2>1, <3>1, <3>3 DEF MarkFailedRead
  <2>2. CASE MarkFailedFails(d) /\ tick' = [tick EXCEPT ![d].pc = "markFailed"]
    <3>1. PICK e : e = [tick[d] EXCEPT !.pc = "markFailed"] /\ tick' = [tick EXCEPT ![d] = e]
      BY <1>t, <2>2
    <3>2. e \in TickType /\ e.claimed = tick[d].claimed /\ e.pc = "markFailed"
      BY <1>2, <3>1 DEF TickType
    <3> QED BY <2>2, <3>1, <3>2 DEF MarkFailedFails, NoticeFault
  <2> QED BY <2>1, <2>2
<1>4. OnceEach(e) /\ \A x : x # r => HandOf(e, x) = HandOf(tick[d], x)
  BY <1>t, <1>2, <1>3, SameBatch
<1>5. RowKept(d, e, r)
  <2>1. PICK a, m, b, g, k, pending : /\ a = notice[r].attempts /\ m = tries[r]
                             /\ b = Budget(0) + noticeFaults
                             /\ g = HandOf(tick[d], r) /\ k = HandOf(e, r)
                             /\ pending = (notice[r].status = "PENDING")
    OBVIOUS
  <2>2. a \in Nat /\ m \in Nat /\ b \in Nat /\ pending \in BOOLEAN
    BY <1>t, <1>2, <2>1, RowTypes
  <2>3. /\ g \in NoticeHand /\ g.on /\ ~g.held /\ (g.fixed <=> tick[d].pc = "update")
        /\ g.last <=> LastAttempt(Head(tick[d].claimed).attempts)
    BY <1>t, <1>2, <2>1, CurrentHand DEF Flying
  <2>4. /\ k \in NoticeHand /\ k.on /\ ~k.held /\ (k.fixed <=> e.pc = "update")
        /\ k.fixed => k.read = e.read
        /\ k.last <=> LastAttempt(Head(tick[d].claimed).attempts)
    BY <1>2, <1>3, <1>4, <2>1, CurrentHand DEF Flying
  <2>5. k.last = g.last
    BY <2>3, <2>4 DEF NoticeHand
  <2>6. Budget(0) \in Nat /\ noticeFaults \in Nat
    BY <1>t, BudgetFacts, NoticeAssumption DEF NoticeTypes
  <2>7. /\ (notice'[r].status = "PENDING") = pending /\ notice'[r].attempts = a /\ tries'[r] = m
    BY <1>2, <2>1
  <2>8. CASE tick[d].pc = "markFailed" /\ e.pc = "update"
    <3>1. k.read = a /\ ~g.fixed /\ k.fixed /\ noticeFaults' = noticeFaults
      BY <1>3, <2>1, <2>3, <2>4, <2>8
    <3>2. ASSUME NEW h \in NoticeHand, RowBounded(a, pending, m, b, g, h)
          PROVE  RowBounded(a, pending, m, b, k, h)
      BY <2>2, <2>3, <2>4, <2>5, <3>1, <3>2, RowRead
    <3>3. Budget(0) + noticeFaults' = b
      BY <2>1, <3>1
    <3> QED BY <2>1, <2>7, <3>2, <3>3, Zenon DEF RowKept
  <2>9. CASE e.pc = "markFailed"
    <3>1. ~k.fixed /\ noticeFaults' = noticeFaults + 1
      BY <1>3, <2>4, <2>9
    <3>2. ASSUME NEW h \in NoticeHand, RowBounded(a, pending, m, b, g, h)
          PROVE  RowBounded(a, pending, m, b + 1, k, h)
      BY <2>2, <2>3, <2>4, <2>5, <3>1, <3>2, RowReadAgain
    <3>3. Budget(0) + noticeFaults' = b + 1
      BY <2>1, <2>6, <3>1
    <3> QED BY <2>1, <2>7, <3>2, <3>3, Zenon DEF RowKept
  <2> QED BY <1>3, <2>8, <2>9
<1>6. ASSUME NEW x \in Notices, x # r PROVE RowKept(d, e, x)
  <2>1. noticeFaults' \in {noticeFaults, noticeFaults + 1}
    BY <1>3
  <2>2. HandOf(e, x) = HandOf(tick[d], x)
    BY <1>4, <1>6
  <2> QED BY <1>t, <1>2, <1>3, <2>1, <2>2, OtherRow
<1> QED BY <1>3, <1>4, <1>5, <1>6

\* markSent and markFailed's write: the row is settled, given up or put back.
LEMMA KeptByMark ==
    ASSUME DispatchInv, NEW d \in Dispatchers, MarkSent(d) \/ MarkFailedUpdate(d)
    PROVE  \E e \in TickType : /\ tick' = [tick EXCEPT ![d] = e] /\ OnceEach(e)
                               /\ \A r \in Notices : RowKept(d, e, r)
<1>t. NoticeInv /\ NoticeTypes /\ tick \in [Dispatchers -> TickType] /\ OnceEach(tick[d])
  BY DEF DispatchInv, NoticeInv, NoticeTypes
<1>1. PICK r, c : r = Current(d).id /\ c = Current(d)
  OBVIOUS
<1>2. /\ tick[d].pc \in {"markSent", "update"} /\ tick[d] \in TickType /\ r \in Notices
      /\ tick[d].claimed # <<>> /\ c = Head(tick[d].claimed) /\ r = Head(tick[d].claimed).id
      /\ NextNotice(d) /\ tries' = tries /\ noticeFaults' = noticeFaults
  BY <1>t, <1>1, NoticeInHand DEF MarkSent, MarkFailedUpdate, Current
<1>3. PICK e : /\ tick' = [tick EXCEPT ![d] = e]
               /\ e = IF Tail(tick[d].claimed) = <<>> THEN TickIdle
                      ELSE [TickIdle EXCEPT !.pc = "send", !.claimed = Tail(tick[d].claimed)]
  BY <1>2 DEF NextNotice
<1>4. e \in TickType
  <2>1. Tail(tick[d].claimed) \in Seq(ClaimType)
    BY <1>2 DEF TickType
  <2> QED BY <1>3, <2>1, IdleTick DEF TickIdle, TickType
<1>5. OnceEach(e) /\ ~HandOf(e, r).on /\ \A x : x # r => HandOf(e, x) = HandOf(tick[d], x)
  BY <1>t, <1>2, <1>3, <1>4, BatchGoesOn
<1>6. notice \in [Notices -> [status: {"PENDING", "SENT", "FAILED"}, attempts: Nat, due: BOOLEAN]]
  BY <1>t DEF NoticeTypes
<1>7. \A x \in Notices : x # r => notice'[x] = notice[x]
  BY <1>1, <1>6 DEF MarkSent, MarkFailedUpdate
<1>8. RowKept(d, e, r)
  <2>1. PICK a, m, b, g, k, pending : /\ a = notice[r].attempts /\ m = tries[r]
                             /\ b = Budget(0) + noticeFaults
                             /\ g = HandOf(tick[d], r) /\ k = HandOf(e, r)
                             /\ pending = (notice[r].status = "PENDING")
    OBVIOUS
  <2>2. a \in Nat /\ m \in Nat /\ b \in Nat /\ pending \in BOOLEAN
    BY <1>t, <1>2, <2>1, RowTypes
  <2>3. /\ g \in NoticeHand /\ g.on /\ ~g.held /\ (g.fixed <=> tick[d].pc = "update")
        /\ g.fixed => g.read = tick[d].read
        /\ g.last <=> LastAttempt(c.attempts)
    BY <1>t, <1>2, <2>1, CurrentHand DEF Flying
  <2>4. k \in NoticeHand /\ ~k.on
    BY <1>4, <1>5, <2>1, HandType
  <2>5. tries'[r] = m /\ Budget(0) + noticeFaults' = b
    BY <1>2, <2>1
  <2>6. CASE MarkSent(d)
    <3>1. notice'[r].attempts = a /\ (notice'[r].status = "PENDING") = FALSE
      BY <1>1, <1>2, <1>6, <2>1, <2>6 DEF MarkSent
    <3>2. ASSUME NEW h \in NoticeHand, RowBounded(a, pending, m, b, g, h)
          PROVE  RowBounded(a, FALSE, m, b, k, h)
      BY <2>2, <2>3, <2>4, <3>2, RowSent
    <3> QED BY <2>1, <2>5, <3>1, <3>2, Zenon DEF RowKept
  <2>7. CASE MarkFailedUpdate(d)
    <3>1. g.fixed /\ g.read = tick[d].read
      BY <2>3, <2>7 DEF MarkFailedUpdate
    <3>2. notice'[r] = FailedRow(c, tick[d].read)
      BY <1>1, <1>2, <1>6, <2>7 DEF MarkFailedUpdate
    <3>3. notice'[r].attempts = g.read + 1 /\ (notice'[r].status = "PENDING" <=> ~g.last)
      BY <2>3, <3>1, <3>2 DEF FailedRow
    <3>4. (notice'[r].status = "PENDING") = ~g.last
      BY <3>3
    <3>5. ASSUME NEW h \in NoticeHand, RowBounded(a, pending, m, b, g, h)
          PROVE  RowBounded(g.read + 1, ~g.last, m, b, k, h)
      BY <2>2, <2>3, <2>4, <3>1, <3>5, RowWritten
    <3> QED BY <2>1, <2>5, <3>3, <3>4, <3>5, Zenon DEF RowKept
  <2> QED BY <2>6, <2>7
<1>9. ASSUME NEW x \in Notices, x # r PROVE RowKept(d, e, x)
  <2>1. notice'[x] = notice[x] /\ HandOf(e, x) = HandOf(tick[d], x)
    BY <1>5, <1>7, <1>9
  <2> QED BY <1>t, <1>2, <1>4, <2>1, OtherRow
<1> QED BY <1>3, <1>4, <1>5, <1>8, <1>9

\* The invariant is inductive.
LEMMA DispatchSteps ==
    ASSUME DispatchInv, [NoticeNext]_noticeVars
    PROVE  DispatchInv'
<1>1. NoticeInv /\ NoticeInv'
  BY NoticeSteps DEF DispatchInv
<1>2. ASSUME NEW d \in Dispatchers,
             TickStep(d) \/ StatementFails(d) \/ MarkFailedFails(d) \/ DispatcherCrash(d)
      PROVE  DispatchInv'
  <2>1. \E e \in TickType : /\ tick' = [tick EXCEPT ![d] = e] /\ OnceEach(e)
                            /\ \A r \in Notices : RowKept(d, e, r)
    <3>1. CASE MarkFailedFails(d) \/ DispatcherCrash(d)
      <4>1. NoticeFault /\ UNCHANGED <<notice, tries>>
        BY <3>1 DEF MarkFailedFails, DispatcherCrash
      <4>2. \/ tick' = [tick EXCEPT ![d] = TickIdle]
            \/ MarkFailedFails(d) /\ tick' = [tick EXCEPT ![d].pc = "markFailed"]
        BY <3>1 DEF MarkFailedFails, DispatcherCrash
      <4> QED BY <4>1, <4>2, KeptByLoss, KeptByRead
    <3>2. CASE TickStep(d) \/ StatementFails(d)
      BY <3>2, KeptByClaim, KeptByDispatch, KeptInFlight, KeptByRead, KeptByMark DEF TickStep
    <3> QED BY <1>2, <3>1, <3>2
  <2> QED BY <1>1, <2>1, PodStep
<1>3. ASSUME tick' = tick, tries' = tries, noticeFaults' = noticeFaults,
             \A r \in Notices : /\ notice'[r].attempts = notice[r].attempts
                                /\ notice'[r].status = notice[r].status
      PROVE  DispatchInv'
  <2>1. ASSUME NEW p, NEW q, ThesePods(p, q)' PROVE RowsBounded(p, q)'
    <3>1. RowsBounded(p, q)
      BY <2>1 DEF DispatchInv, ThesePods
    <3>2. ASSUME NEW r \in Notices
          PROVE  RowBounded(notice'[r].attempts, notice'[r].status = "PENDING", tries'[r],
                            Budget(0) + noticeFaults', HandIn(tick', p, r), HandIn(tick', q, r))
      BY <1>3, <3>1, Zenon DEF RowsBounded
    <3> QED BY <3>2, Zenon DEF RowsBounded
  <2> QED BY <1>1, <1>3, <2>1 DEF DispatchInv
<1>4. ASSUME NEW r \in Notices, BackoffElapses(r) PROVE DispatchInv'
  <2>1. notice \in [Notices -> [status: {"PENDING", "SENT", "FAILED"}, attempts: Nat, due: BOOLEAN]]
    BY <1>1 DEF NoticeInv, NoticeTypes
  <2> QED BY <1>3, <1>4, <2>1 DEF BackoffElapses
<1>5. CASE UNCHANGED noticeVars
  BY <1>3, <1>5 DEF noticeVars
<1> QED BY <1>2, <1>4, <1>5 DEF NoticeNext

\* It holds initially.
LEMMA DispatchInitInv == ASSUME NoticeInit PROVE DispatchInv
<1>1. NoticeInv
  BY NoticeInitInv
<1>2. \A d \in Dispatchers : tick[d] = TickIdle
  BY DEF NoticeInit
<1>3. ASSUME NEW p, NEW q PROVE RowsBounded(p, q)
  <2> SUFFICES ASSUME NEW r \in Notices
               PROVE  RowBounded(notice[r].attempts, notice[r].status = "PENDING", tries[r],
                                 Budget(0) + noticeFaults, HandIn(tick, p, r), HandIn(tick, q, r))
    BY Zenon DEF RowsBounded
  <2>1. HandIn(tick, p, r) = HandOf(TickIdle, r) /\ HandIn(tick, q, r) = HandOf(TickIdle, r)
    BY <1>2 DEF HandIn
  <2>2. PICK g : g = HandOf(TickIdle, r) /\ g \in NoticeHand /\ ~g.on
    BY NothingInHand
  <2>3. PICK b \in Nat : b = Budget(0) /\ b = Budget(0) + noticeFaults
    BY BudgetFacts DEF NoticeInit
  <2>4. RowBounded(0, TRUE, 0, b, g, g)
    BY <2>2, <2>3 DEF RowBounded, FreeRow, RowOfOne, RowOfTwo
  <2>5. notice[r].attempts = 0 /\ (notice[r].status = "PENDING") = TRUE /\ tries[r] = 0
    BY DEF NoticeInit
  <2> QED BY <2>1, <2>2, <2>3, <2>4, <2>5
<1> QED BY <1>1, <1>2, <1>3, NothingInHand DEF DispatchInv

\* Two pods at most are two in particular.
LEMMA TwoPods ==
    ASSUME Cardinality(Dispatchers) <= 2
    PROVE  \E p, q : ThesePods(p, q)
<1>1. CASE Dispatchers = {}
  <2>1. ThesePods(0, 1)
    BY <1>1 DEF ThesePods
  <2> QED BY <2>1
<1>2. CASE Dispatchers # {}
  <2>1. PICK p : p \in Dispatchers
    BY <1>2
  <2>2. PICK R : R = Dispatchers \ {p}
    OBVIOUS
  <2>3. IsFiniteSet(R) /\ Cardinality(R) = Cardinality(Dispatchers) - 1
    BY <2>1, <2>2, NoticeAssumption, FS_RemoveElement
  <2>4. Cardinality(Dispatchers) \in Nat /\ Cardinality(R) \in Nat
    BY <2>3, NoticeAssumption, FS_CardinalityType
  <2>5. CASE R = {}
    <3>1. Dispatchers = {p}
      BY <2>1, <2>2, <2>5
    <3>2. PICK q : q # p
      <4>1. \E q : q # p
        <5>1. 0 # p \/ 1 # p
          OBVIOUS
        <5> QED BY <5>1
      <4> QED BY <4>1
    <3>3. ThesePods(p, q)
      BY <3>1, <3>2 DEF ThesePods
    <3> QED BY <3>3
  <2>6. CASE R # {}
    <3>1. PICK q : q \in R
      BY <2>6
    <3>2. Cardinality(R) # 0
      BY <2>3, <2>6, FS_EmptySet
    <3>3. Cardinality(R) = 1
      BY <2>3, <2>4, <3>2
    <3>4. R = {q}
      <4>1. PICK y : R = {y}
        BY <2>3, <3>3, FS_Singleton
      <4> QED BY <3>1, <4>1
    <3>5. ThesePods(p, q)
      BY <2>2, <3>4 DEF ThesePods
    <3> QED BY <3>5
  <2> QED BY <2>5, <2>6
<1> QED BY <1>1, <1>2

LEMMA DispatchInvSafe == DispatchInv => NoticesSafe
<1> SUFFICES ASSUME DispatchInv PROVE NoticesSafe
  OBVIOUS
<1>1. ASSUME Cardinality(Dispatchers) <= 2, NEW r \in Notices
      PROVE  tries[r] <= (OutboxMaxAttempts * (OutboxMaxAttempts + 3)) \div 2 + noticeFaults
  <2>1. PICK p, q : ThesePods(p, q)
    BY <1>1, TwoPods
  <2>2. tries[r] <= Budget(0) + noticeFaults
    BY <2>1, Zenon DEF DispatchInv, RowsBounded, RowBounded
  <2>3. Remaining(0) = OutboxMaxAttempts
    BY NoticeAssumption DEF Remaining
  <2> QED BY <2>2, <2>3 DEF Budget
<1> QED BY <1>1 DEF DispatchInv, NoticeInv, NoticesSafe, DispatchesBounded

\* However the pods' unguarded marks overwrite each other: a row is given up only after
\* OutboxMaxAttempts dispatches, a SENT row has a delivery record, and two pods dispatch
\* a row at most M(M+3)/2 times for M = OutboxMaxAttempts, plus once per fault.
THEOREM NoticesAreSafe == NoticeSpec => []NoticesSafe
BY DispatchInvSafe, DispatchInitInv, DispatchSteps, PTL DEF NoticeSpec

==============================================================================
