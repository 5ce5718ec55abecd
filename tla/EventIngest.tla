----------------------------- MODULE EventIngest -----------------------------
(***************************************************************************)
(* The notifier's ingestion of a worker event stream (order.filled,        *)
(* order.placed, order.failed, decision.made, signal.detected,             *)
(* alert.raised): six consumers with the same loop                         *)
(* (RedisStreamConsumer.loop) and the same use case (Ingest*Usecase), so   *)
(* one stream stands for each of them.  A handler is a chain of awaited    *)
(* calls: findOne, save, resolve, insertMany, update, XACK; each is a step *)
(* of its own and may throw.                                               *)
(***************************************************************************)
EXTENDS StreamGroup

CONSTANTS
    Notifiers,        \* notifier pods, one consumer of the group each
    MaxEntries,       \* bound: entries produced
    BatchSize,        \* COUNT of XREADGROUP (16 in the code)
    MilliOf(_),       \* the millisecond half of an entry's id
    Malformed,        \* entries without a parsable payload
    MaxIngestFaults   \* bound: failing calls and crashes

ASSUME IngestAssumption ==
    /\ MaxEntries \in Nat /\ BatchSize \in Nat \ {0} /\ MaxIngestFaults \in Nat
    /\ Malformed \subseteq 1..MaxEntries
    /\ \A e \in 1..MaxEntries : MilliOf(e) \in Nat

VARIABLES
    stream,        \* the stream and its group "notifier"
    events,        \* the events table: source id |-> processedAt is set
    outboxRows,    \* rows insertMany wrote for an event
    ingest,        \* the consumer loop of each pod
    ingestFaults   \* faults taken so far

ingestVars == <<stream, events, outboxRows, ingest, ingestFaults>>

IngestIdle == [pc |-> "read", batch |-> <<>>]
IngestDown == [pc |-> "down", batch |-> <<>>]

\* sourceIdFromEntry: only the millisecond half of `<ms>-<seq>' is kept.
SourceId(e) == MilliOf(e)

IngestInit ==
    /\ stream = EmptyStream
    /\ events = <<>>
    /\ outboxRows = {}
    /\ ingest = [n \in Notifiers |-> IngestDown]
    /\ ingestFaults = 0

Entry(n) == Head(ingest[n].batch)

IngestGoto(n, pc) == ingest' = [ingest EXCEPT ![n].pc = pc]

\* The loop goes on with the next entry of the batch, or reads again.
NextEntry(n) ==
    LET rest == Tail(ingest[n].batch)
    IN  ingest' = [ingest EXCEPT ![n] =
            IF rest = <<>> THEN IngestIdle ELSE [pc |-> "entry", batch |-> rest]]

\* RedisBusStreams.produce, called by executor, tracker and detector pods.
Produce ==
    /\ stream.size < MaxEntries
    /\ stream' = XAdd(stream)
    /\ UNCHANGED <<events, outboxRows, ingest, ingestFaults>>

\* start: the group is ensured, then the loop runs.
StartConsumer(n) ==
    /\ ingest[n].pc = "down"
    /\ stream' = EnsureGroup(stream)
    /\ IngestGoto(n, "read")
    /\ UNCHANGED <<events, outboxRows, ingestFaults>>

\* XREADGROUP ... '>' returns a batch; without unread entries it blocks.
ReadBatch(n) ==
    /\ ingest[n].pc = "read"
    /\ stream.last < stream.size
    /\ ingest' = [ingest EXCEPT ![n] = [pc |-> "entry", batch |-> Unread(stream, BatchSize)]]
    /\ stream' = XReadGroup(stream, BatchSize)
    /\ UNCHANGED <<events, outboxRows, ingestFaults>>

\* parseEntry returned null: acknowledge and drop.
DropMalformed(n) ==
    /\ ingest[n].pc = "entry" /\ Entry(n) \in Malformed
    /\ stream' = XAck(stream, Entry(n))
    /\ NextEntry(n)
    /\ UNCHANGED <<events, outboxRows, ingestFaults>>

\* record: no hint is passed, so the lookups return null at once; then
\* insertIfAbsent's findOne.  An existing event ends the handler.
FindEvent(n) ==
    /\ ingest[n].pc = "entry" /\ Entry(n) \notin Malformed
    /\ IngestGoto(n, IF SourceId(Entry(n)) \in DOMAIN events THEN "ack" ELSE "save")
    /\ UNCHANGED <<stream, events, outboxRows, ingestFaults>>

\* insertIfAbsent's save.  The unique index (source type, source id, event
\* type) refuses a row another pod inserted since the findOne: the handler
\* throws and the entry stays pending.
SaveEvent(n) ==
    /\ ingest[n].pc = "save"
    /\ IF SourceId(Entry(n)) \in DOMAIN events
         THEN NextEntry(n) /\ UNCHANGED events
         ELSE /\ events' = [k \in DOMAIN events \cup {SourceId(Entry(n))} |->
                                IF k \in DOMAIN events THEN events[k] ELSE FALSE]
              /\ IngestGoto(n, "fanout")
    /\ UNCHANGED <<stream, outboxRows, ingestFaults>>

\* EventChannelResolverService.resolve: the ingest paths pass the sentinel 0,
\* for which it returns no candidate.
Resolve(sourceEventId) == IF sourceEventId <= 0 THEN {} ELSE {"channel"}

\* fanoutToOutbox: one row per candidate.
FanoutToOutbox(n) ==
    /\ ingest[n].pc = "fanout"
    /\ outboxRows' = outboxRows \cup (Resolve(0) \X {SourceId(Entry(n))})
    /\ IngestGoto(n, "processed")
    /\ UNCHANGED <<stream, events, ingestFaults>>

\* markProcessed.
MarkProcessed(n) ==
    /\ ingest[n].pc = "processed"
    /\ events' = [events EXCEPT ![SourceId(Entry(n))] = TRUE]
    /\ IngestGoto(n, "ack")
    /\ UNCHANGED <<stream, outboxRows, ingestFaults>>

\* XACK after the handler returned.
AckEntry(n) ==
    /\ ingest[n].pc = "ack"
    /\ stream' = XAck(stream, Entry(n))
    /\ NextEntry(n)
    /\ UNCHANGED <<events, outboxRows, ingestFaults>>

\* Mutant: the entry is acknowledged in a finally.
HandlerFailsAcked(n) ==
    /\ ingest[n].pc \in {"entry", "save", "processed", "ack"} /\ Entry(n) \notin Malformed
    /\ ingestFaults < MaxIngestFaults
    /\ ingestFaults' = ingestFaults + 1
    /\ stream' = XAck(stream, Entry(n)) /\ NextEntry(n)
    /\ UNCHANGED <<events, outboxRows>>

\* A call of the handler, or the XACK after it, throws: logged, left unacked,
\* and the loop goes on with the next entry.
HandlerFails(n) ==
    /\ ingest[n].pc \in {"entry", "save", "processed", "ack"} /\ Entry(n) \notin Malformed
    /\ ingestFaults < MaxIngestFaults
    /\ ingestFaults' = ingestFaults + 1
    /\ NextEntry(n)
    /\ UNCHANGED <<stream, events, outboxRows>>

\* The XACK of a malformed entry throws outside the inner try: the rest of the
\* batch is abandoned with it.
DropFails(n) ==
    /\ ingest[n].pc = "entry" /\ Entry(n) \in Malformed
    /\ ingestFaults < MaxIngestFaults
    /\ ingestFaults' = ingestFaults + 1
    /\ ingest' = [ingest EXCEPT ![n] = IngestIdle]
    /\ UNCHANGED <<stream, events, outboxRows>>

\* The pod dies and boots again later.
NotifierCrash(n) ==
    /\ ingest[n].pc # "down"
    /\ ingestFaults < MaxIngestFaults
    /\ ingestFaults' = ingestFaults + 1
    /\ ingest' = [ingest EXCEPT ![n] = IngestDown]
    /\ UNCHANGED <<stream, events, outboxRows>>

IngestStep(n) ==
    \/ StartConsumer(n) \/ ReadBatch(n) \/ DropMalformed(n) \/ FindEvent(n)
    \/ SaveEvent(n) \/ FanoutToOutbox(n) \/ MarkProcessed(n) \/ AckEntry(n)

IngestNext ==
    \/ Produce
    \/ \E n \in Notifiers :
         \/ IngestStep(n) \/ HandlerFails(n) \/ DropFails(n) \/ NotifierCrash(n)

IngestSpec == IngestInit /\ [][IngestNext]_ingestVars

-----------------------------------------------------------------------------
\* Types of the stream, the consumers and the tables.
IngestTypeOK ==
    /\ stream \in StreamType(MaxEntries)
    /\ DOMAIN events \subseteq {SourceId(e) : e \in 1..MaxEntries}
    /\ \A k \in DOMAIN events : events[k] \in BOOLEAN
    /\ outboxRows \subseteq {"channel"} \X DOMAIN events
    /\ \A n \in Notifiers :
         /\ ingest[n].pc \in {"down", "read", "entry", "save", "fanout", "processed", "ack"}
         /\ ingest[n].batch \in Seq(1..MaxEntries)
    /\ ingestFaults \in 0..MaxIngestFaults

\* Entries some pod still holds in the batch it is working through.
InHand == UNION {{ingest[n].batch[i] : i \in 1..Len(ingest[n].batch)} : n \in Notifiers}

\* Entries that were handed out and that nobody will look at again.
Stranded == stream.pending \ InHand

\* No event is acknowledged away: when the group has acknowledged a well-formed
\* entry, an events row of its source id exists, whatever calls failed, whichever
\* pod died and whichever two pods raced on the same source id.
AckedIsRecorded ==
    \A e \in stream.acked \ Malformed : SourceId(e) \in DOMAIN events

\* Pending entries are never claimed again, so what strands them matters: each
\* failing call or crash leaves at most one batch without an event, and the loser
\* of a race on a source id, stranded without any fault, finds its event recorded.
StrandedOnlyByFaults ==
    Cardinality({e \in Stranded : e \in Malformed \/ SourceId(e) \notin DOMAIN events})
        <= ingestFaults * BatchSize

\* Both: nothing is acknowledged away, and only faults leave an event unrecorded.
EntriesHandled == AckedIsRecorded /\ StrandedOnlyByFaults

==============================================================================
