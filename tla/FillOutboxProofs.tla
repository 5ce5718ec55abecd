-------------------------- MODULE FillOutboxProofs --------------------------
(***************************************************************************)
(* Proofs about FillOutbox, for any pods, fills and bounds.                *)
(***************************************************************************)
EXTENDS FillOutbox, TLAPS

\* A pass has a fill in one place: in hand, or as one item of its batch.
OncePerPass ==
    \A p \in Pods :
        /\ \A i, j \in batch[p] : i.fill = j.fill => i = j
        /\ hand[p] # NoItem => \A i \in batch[p] : i.fill # hand[p].fill

\* While all is calm nobody is on the way to record a failure.
NoneFailing ==
    /\ \A c \in Pods \X Fills \X Sinks : task[c] # "failing"
    /\ \A p \in Pods : hand[p].pc # "failing"

\* The inductive invariant: exclusivity of the claims needs to know where
\* the claimed fills are and that no failure is about to clear a claim.
OutboxInv ==
    /\ OutboxTypeOK
    /\ OncePerPass
    /\ Calm => NoneFailing
    /\ ClaimsExclusive

-----------------------------------------------------------------------------
\* What the record types of the module are.
LEMMA HandFacts ==
    ASSUME OutboxTypeOK, NEW p \in Pods
    PROVE  /\ hand[p] = NoItem \/ hand[p] \in Hand
           /\ hand[p].pc # "none" => hand[p] \in Hand
           /\ hand[p] \in Hand =>
                 /\ hand[p].fill \in Fills
                 /\ hand[p].needs \in SUBSET Sinks
                 /\ hand[p].pc # "none"
                 /\ hand[p] # NoItem
BY DEF OutboxTypeOK, NoItem, Hand, Lacking

\* The statements on order_fill, and the count of sends, keep the types.
LEMMA RowWrites ==
    ASSUME OutboxTypeOK, NEW f \in Fills, NEW s \in Sinks
    PROVE  /\ Stored(f) \in [Fills -> Row]
           /\ Marked(f, s) \in [Fills -> Row]
           /\ FailureRecorded(f) \in [Fills -> Row]
           /\ Released(f) \in [Fills -> Row]
<1>1. outbox[f] \in Row /\ NoRow \in Row
  BY DEF OutboxTypeOK, NoRow, Row
<1>2. [NoRow EXCEPT !.stored = TRUE] \in Row
  BY DEF NoRow, Row
<1>3. [outbox[f] EXCEPT !.marked = @ \union {s}] \in Row
  BY <1>1 DEF Row
<1>4. \A b \in BOOLEAN :
        [outbox[f] EXCEPT !.claim = "none", !.due = b] \in Row
  BY <1>1 DEF Row
<1> QED BY <1>1, <1>2, <1>3, <1>4
           DEF Stored, Marked, FailureRecorded, Released, OutboxTypeOK

\* markOutboxPublished touches neither the claim nor the row's existence.
LEMMA MarkKeeps ==
    ASSUME OutboxTypeOK, NEW f \in Fills, NEW s \in Sinks, NEW x \in Fills
    PROVE  /\ Marked(f, s)[x].stored = outbox[x].stored
           /\ Marked(f, s)[x].claim = outbox[x].claim
BY DEF Marked, OutboxTypeOK, Row

\* findPendingOutbox keeps the types.
LEMMA ClaimWrites ==
    ASSUME OutboxTypeOK, NEW rows \in SUBSET Claimable
    PROVE  Claimed(rows) \in [Fills -> Row]
<1>1. ASSUME NEW f \in Fills PROVE [outbox[f] EXCEPT !.claim = "fresh"] \in Row
  <2>1. outbox[f] \in Row
    BY DEF OutboxTypeOK
  <2> QED BY <2>1 DEF Row
<1> QED BY <1>1 DEF Claimed, OutboxTypeOK

\* The count of sends saturates.
LEMMA CountedType ==
    ASSUME OutboxTypeOK, NEW f \in Fills, NEW s \in Sinks
    PROVE  Counted(f, s) \in [Fills \X Sinks -> SendCount]
<1>1. sends[<<f, s>>] \in SendCount
  BY DEF OutboxTypeOK
<1>2. (IF sends[<<f, s>>] < MaxSends THEN sends[<<f, s>>] + 1
                                     ELSE sends[<<f, s>>]) \in SendCount
  BY <1>1, OutboxBoundsAssumption DEF SendCount
<1> QED BY <1>2 DEF Counted, OutboxTypeOK

\* A statement, whether it succeeds or throws, and a call to a sink, whether
\* it succeeds or fails, keep the types they touch.
LEMMA StatementTypes ==
    ASSUME OutboxTypeOK, NEW STATE effect, effect \in [Fills -> Row],
           (outbox' = effect /\ NoFault) \/ Throws(effect)
    PROVE  /\ outbox' \in [Fills -> Row]
           /\ faults' \in 0 .. MaxFaults
           /\ trouble' \in {"no", "yes"}
BY OutboxBoundsAssumption DEF OutboxTypeOK, NoFault, Throws, Fault

\* The same for a call to a sink.
LEMMA SinkTypes ==
    ASSUME OutboxTypeOK, NEW f \in Fills, NEW s \in Sinks,
           Publishes(f, s) \/ PublishFails(f, s)
    PROVE  /\ sends' \in [Fills \X Sinks -> SendCount]
           /\ faults' \in 0 .. MaxFaults
           /\ trouble' \in {"no", "yes"}
BY CountedType DEF OutboxTypeOK, Publishes, PublishFails, NoFault

\* The initial state satisfies the invariant.
LEMMA OutboxInvInit == OutboxInit => OutboxInv
BY OutboxBoundsAssumption
   DEF OutboxInit, OutboxInv, OutboxTypeOK, OncePerPass, NoneFailing,
       ClaimsExclusive, HeldIsClaimed, OneHolder, InHands, NoRow, NoItem, Row,
       Calm,
       Item, Hand, Lacking, TaskPc, SendCount, Sinks

\* Every step keeps the types.
LEMMA OutboxTypeStep ==
    ASSUME OutboxTypeOK, [OutboxNext]_outboxVars PROVE OutboxTypeOK'
<1> USE OutboxBoundsAssumption DEF OutboxTypeOK
<1>1. ASSUME NEW p \in Pods, NEW f \in Fills, IngestFill(p, f)
      PROVE  OutboxTypeOK'
  BY <1>1 DEF IngestFill, Stored, NoRow, Row, TaskPc
<1>2. ASSUME NEW f \in Fills, RetryUnmatched(f) PROVE OutboxTypeOK'
  BY <1>2 DEF RetryUnmatched, Stored, NoRow, Row
<1>3. ASSUME NEW f \in Fills, ClaimExpires(f) PROVE OutboxTypeOK'
  BY <1>3 DEF ClaimExpires, Row
<1>4. ASSUME NEW f \in Fills, BackoffEnds(f) PROVE OutboxTypeOK'
  BY <1>4 DEF BackoffEnds, Row
<1>5. ASSUME NEW p \in Pods, NEW f \in Fills, NEW s \in Sinks,
             TaskStep(p, f, s)
      PROVE  OutboxTypeOK'
  <2>0. /\ Marked(f, s) \in [Fills -> Row]
        /\ FailureRecorded(f) \in [Fills -> Row]
    BY RowWrites
  <2>1. CASE TaskPublishes(p, f, s)
    <3>1. task' \in [Pods \X Fills \X Sinks -> TaskPc]
      BY <2>1 DEF TaskPublishes, TaskPc
    <3>2. /\ sends' \in [Fills \X Sinks -> SendCount]
          /\ faults' \in 0 .. MaxFaults
          /\ trouble' \in {"no", "yes"}
      BY <2>1, SinkTypes DEF TaskPublishes
    <3> QED BY <2>1, <3>1, <3>2 DEF TaskPublishes
  <2>2. CASE TaskMarks(p, f, s)
    <3>1. task' \in [Pods \X Fills \X Sinks -> TaskPc]
      BY <2>2 DEF TaskMarks, TaskPc
    <3>2. /\ outbox' \in [Fills -> Row]
          /\ faults' \in 0 .. MaxFaults
          /\ trouble' \in {"no", "yes"}
      BY <2>0, <2>2, StatementTypes DEF TaskMarks
    <3> QED BY <2>2, <3>1, <3>2 DEF TaskMarks
  <2>3. CASE TaskFails(p, f, s)
    <3>1. task' \in [Pods \X Fills \X Sinks -> TaskPc]
      BY <2>3 DEF TaskFails, TaskPc
    <3>2. /\ outbox' \in [Fills -> Row]
          /\ faults' \in 0 .. MaxFaults
          /\ trouble' \in {"no", "yes"}
      BY <2>0, <2>3, StatementTypes DEF TaskFails
    <3> QED BY <2>3, <3>1, <3>2 DEF TaskFails
  <2> QED BY <1>5, <2>1, <2>2, <2>3 DEF TaskStep
<1>6. ASSUME NEW p \in Pods, FlushClaim(p) PROVE OutboxTypeOK'
  <2>1. outbox' \in [Fills -> Row]
    BY <1>6, ClaimWrites DEF FlushClaim
  <2>2. batch' \in [Pods -> SUBSET Item]
    <3>1. ASSUME NEW f \in Claimable
          PROVE  [fill |-> f, needs |-> Sinks \ outbox[f].marked] \in Item
      <4>1. f \in Fills /\ outbox[f].marked \in SUBSET Sinks
        BY DEF Claimable, Row
      <4>2. Sinks \ outbox[f].marked \in Lacking
        BY <4>1 DEF Claimable, Lacking
      <4> QED BY <4>1, <4>2 DEF Item
    <3> QED BY <1>6, <3>1 DEF FlushClaim
  <2> QED BY <1>6, <2>1, <2>2 DEF FlushClaim
<1>7. ASSUME NEW p \in Pods, FlushClaimLost(p) PROVE OutboxTypeOK'
  <2>1. outbox' \in [Fills -> Row]
    BY <1>7, ClaimWrites DEF FlushClaimLost
  <2>2. faults' \in 0 .. MaxFaults /\ trouble' \in {"no", "yes"}
    BY <1>7 DEF FlushClaimLost, Fault
  <2> QED BY <1>7, <2>1, <2>2 DEF FlushClaimLost
<1>8. ASSUME NEW p \in Pods, FlushStep(p) PROVE OutboxTypeOK'
  <2>1. CASE FlushStart(p)
    BY <2>1 DEF FlushStart, Item, Hand
  <2>2. CASE FlushPublishFails(p)
    <3>1. hand[p] \in Hand /\ NextSink(hand[p].needs) \in Sinks
      BY <2>2, HandFacts DEF FlushPublishFails, NextSink, Sinks
    <3>2. hand' \in [Pods -> Hand \union {NoItem}]
      BY <2>2, <3>1 DEF FlushPublishFails, Hand
    <3>3. /\ sends' \in [Fills \X Sinks -> SendCount]
          /\ faults' \in 0 .. MaxFaults
          /\ trouble' \in {"no", "yes"}
      BY <2>2, <3>1, HandFacts, SinkTypes DEF FlushPublishFails
    <3> QED BY <2>2, <3>2, <3>3 DEF FlushPublishFails
  <2>3. CASE FlushMarks(p)
    <3>1. hand[p] \in Hand /\ NextSink(hand[p].needs) \in Sinks
      BY <2>3, HandFacts DEF FlushMarks, NextSink, Sinks
    <3>2. hand' \in [Pods -> Hand \union {NoItem}]
      <4> DEFINE left == hand[p].needs \ {NextSink(hand[p].needs)}
      <4>0. hand[p].pc = "marking" /\ hand[p].needs \in Lacking
        BY <2>3, <3>1 DEF FlushMarks, Hand
      <4>1. left \in SUBSET Sinks
        BY <4>0 DEF Lacking
      <4>2. [hand[p] EXCEPT !.pc = IF left = {} THEN "releasing"
                                                ELSE "publishing",
                            !.needs = left] \in Hand
        BY <3>1, <4>1 DEF Hand, Lacking
      <4>3. [hand[p] EXCEPT !.pc = "failing"] \in Hand
        BY <3>1, <4>0 DEF Hand
      <4> QED BY <2>3, <4>2, <4>3 DEF FlushMarks
    <3>3. Marked(hand[p].fill, NextSink(hand[p].needs)) \in [Fills -> Row]
      BY <3>1, HandFacts, RowWrites
    <3>4. /\ outbox' \in [Fills -> Row]
          /\ faults' \in 0 .. MaxFaults
          /\ trouble' \in {"no", "yes"}
      BY <2>3, <3>3, StatementTypes DEF FlushMarks
    <3> QED BY <2>3, <3>2, <3>4 DEF FlushMarks
  <2>4. CASE FlushFails(p)
    <3>1. FailureRecorded(hand[p].fill) \in [Fills -> Row]
      BY <2>4, HandFacts, RowWrites DEF FlushFails, Sinks
    <3>2. /\ outbox' \in [Fills -> Row]
          /\ faults' \in 0 .. MaxFaults
          /\ trouble' \in {"no", "yes"}
      BY <2>4, <3>1, StatementTypes DEF FlushFails
    <3> QED BY <2>4, <3>2 DEF FlushFails
  <2>5. CASE FlushReleases(p)
    <3>1. Released(hand[p].fill) \in [Fills -> Row]
      BY <2>5, HandFacts, RowWrites DEF FlushReleases, Sinks
    <3>2. /\ outbox' \in [Fills -> Row]
          /\ faults' \in 0 .. MaxFaults
          /\ trouble' \in {"no", "yes"}
      BY <2>5, <3>1, StatementTypes DEF FlushReleases
    <3> QED BY <2>5, <3>2 DEF FlushReleases
  <2>6. ASSUME NEW f \in Fills, NEW s \in Sinks, FlushPublishes(p, f, s)
        PROVE  OutboxTypeOK'
    <3>1. hand' \in [Pods -> Hand \union {NoItem}]
      BY <2>6, HandFacts DEF FlushPublishes, Hand
    <3>2. /\ sends' \in [Fills \X Sinks -> SendCount]
          /\ faults' \in 0 .. MaxFaults
          /\ trouble' \in {"no", "yes"}
      BY <2>6, SinkTypes DEF FlushPublishes
    <3> QED BY <2>6, <3>1, <3>2 DEF FlushPublishes
  <2> QED BY <1>8, <2>1, <2>2, <2>3, <2>4, <2>5, <2>6 DEF FlushStep
<1>9. ASSUME NEW p \in Pods, PodCrash(p) PROVE OutboxTypeOK'
  BY <1>9 DEF PodCrash, Fault, TaskPc
<1>10. CASE UNCHANGED outboxVars
  BY <1>10 DEF outboxVars
<1> QED
  BY <1>1, <1>2, <1>3, <1>4, <1>5, <1>6, <1>7, <1>8, <1>9, <1>10
     DEF OutboxNext

-----------------------------------------------------------------------------
\* A step of a pass or of a publication that leaves the passes' items, the
\* stored flags and the claims alone keeps the exclusivity.
LEMMA ItemsUntouched ==
    ASSUME OutboxInv, OutboxTypeOK', UNCHANGED batch,
           \A p \in Pods : /\ hand'[p] = NoItem <=> hand[p] = NoItem
                           /\ hand[p] # NoItem =>
                                 hand'[p].fill = hand[p].fill,
           \A f \in Fills : /\ outbox'[f].stored = outbox[f].stored
                            /\ outbox'[f].claim = outbox[f].claim,
           Calm' => Calm /\ NoneFailing'
    PROVE  OutboxInv'
BY DEF OutboxInv, OncePerPass, ClaimsExclusive, HeldIsClaimed, OneHolder,
       InHands

\* Every step keeps the inductive invariant.
LEMMA OutboxInvStep ==
    ASSUME OutboxInv, [OutboxNext]_outboxVars PROVE OutboxInv'
<1> USE DEF OutboxInv, Calm
<1>0. OutboxTypeOK' BY OutboxTypeStep
<1>1. ASSUME NEW p \in Pods, NEW f \in Fills, IngestFill(p, f)
      PROVE  OutboxInv'
  BY <1>0, <1>1
     DEF IngestFill, Stored, NoRow, OutboxTypeOK, OncePerPass, NoneFailing,
         ClaimsExclusive, HeldIsClaimed, OneHolder, InHands
<1>2. ASSUME NEW f \in Fills, RetryUnmatched(f) PROVE OutboxInv'
  BY <1>0, <1>2
     DEF RetryUnmatched, Stored, NoRow, OutboxTypeOK, OncePerPass,
         NoneFailing, ClaimsExclusive, HeldIsClaimed, OneHolder, InHands
<1>3. ASSUME NEW f \in Fills, ClaimExpires(f) PROVE OutboxInv'
  BY <1>0, <1>3 DEF ClaimExpires, OncePerPass, ClaimsExclusive
<1>4. ASSUME NEW f \in Fills, BackoffEnds(f) PROVE OutboxInv'
  <2>1. \A x \in Fills : /\ outbox'[x].stored = outbox[x].stored
                         /\ outbox'[x].claim = outbox[x].claim
    BY <1>4 DEF BackoffEnds, OutboxTypeOK, Row
  <2> QED BY <1>0, <1>4, <2>1, ItemsUntouched DEF BackoffEnds, NoneFailing
<1>5. ASSUME NEW p \in Pods, NEW f \in Fills, NEW s \in Sinks,
             TaskStep(p, f, s)
      PROVE  OutboxInv'
  <2>1. CASE TaskPublishes(p, f, s)
    <3>1. Calm' => Calm /\ NoneFailing'
      BY <2>1 DEF TaskPublishes, Publishes, PublishFails, NoFault,
                  NoneFailing, OutboxTypeOK
    <3> QED BY <1>0, <2>1, <3>1, ItemsUntouched DEF TaskPublishes
  <2>2. CASE TaskMarks(p, f, s)
    <3>1. Calm' => Calm /\ NoneFailing'
      BY <2>2 DEF TaskMarks, Throws, Fault, NoFault, NoneFailing,
                  OutboxTypeOK
    <3>2. \A x \in Fills : /\ outbox'[x].stored = outbox[x].stored
                           /\ outbox'[x].claim = outbox[x].claim
      <4>1. outbox' = outbox \/ outbox' = Marked(f, s)
        BY <2>2 DEF TaskMarks, Throws
      <4> QED BY <4>1, MarkKeeps
    <3> QED BY <1>0, <2>2, <3>1, <3>2, ItemsUntouched DEF TaskMarks
  <2>3. CASE TaskFails(p, f, s)
    <3>1. ~Calm
      BY <2>3 DEF TaskFails, NoneFailing
    <3>2. ~Calm'
      BY <2>3, <3>1 DEF TaskFails, NoFault, Throws, Fault
    <3> QED BY <1>0, <2>3, <3>2 DEF TaskFails, OncePerPass, ClaimsExclusive
  <2> QED BY <1>5, <2>1, <2>2, <2>3 DEF TaskStep
<1>6. ASSUME NEW p \in Pods, FlushClaim(p) PROVE OutboxInv'
  <2>1. PICK rows \in SUBSET Claimable :
          /\ outbox' = Claimed(rows)
          /\ batch' = [batch EXCEPT ![p] =
                         {[fill |-> f, needs |-> Sinks \ outbox[f].marked] :
                             f \in rows}]
    BY <1>6 DEF FlushClaim
  <2>2. batch[p] = {} /\ hand[p] = NoItem /\ UNCHANGED <<hand, task, trouble>>
    BY <1>6 DEF FlushClaim
  <2>3. rows \subseteq Fills
    BY <2>1 DEF Claimable
  <2> DEFINE claimed == {[fill |-> f, needs |-> Sinks \ outbox[f].marked] :
                            f \in rows}
  <2>a. batch'[p] = claimed /\ \A q \in Pods : q # p => batch'[q] = batch[q]
    BY <2>1 DEF OutboxTypeOK
  <2>b. \A i, j \in claimed : i.fill = j.fill => i = j
    OBVIOUS
  <2>c. \A f \in Fills : (\E i \in claimed : i.fill = f) => f \in rows
    OBVIOUS
  <2>d. ASSUME NEW f \in rows PROVE \E i \in claimed : i.fill = f
    <3>1. [fill |-> f, needs |-> Sinks \ outbox[f].marked] \in claimed
      OBVIOUS
    <3> QED BY <3>1
  <2> HIDE DEF claimed
  <2>4. OncePerPass'
    BY <2>2, <2>a, <2>b DEF OncePerPass
  <2>5. (Calm => NoneFailing)'
    BY <2>2 DEF NoneFailing
  <2>6. \A q \in Pods, f \in Fills :
          InHands(q, f)' <=> InHands(q, f) \/ (q = p /\ f \in rows)
    BY <2>2, <2>3, <2>a, <2>c, <2>d DEF InHands
  <2>7. \A f \in rows : outbox[f].stored /\ outbox[f].claim # "fresh"
    BY <2>1 DEF Claimable
  <2>8. \A f \in Fills :
          /\ outbox'[f].stored = outbox[f].stored
          /\ outbox'[f].claim = IF f \in rows THEN "fresh"
                                ELSE outbox[f].claim
    BY <2>1 DEF Claimed, OutboxTypeOK, Row
  <2>9. ClaimsExclusive'
    BY <2>2, <2>3, <2>6, <2>7, <2>8
       DEF ClaimsExclusive, HeldIsClaimed, OneHolder
  <2> QED BY <1>0, <2>4, <2>5, <2>9
<1>7. ASSUME NEW p \in Pods, FlushClaimLost(p) PROVE OutboxInv'
  BY <1>0, <1>7 DEF FlushClaimLost, Fault, OncePerPass, ClaimsExclusive
<1>8. ASSUME NEW p \in Pods, FlushStep(p) PROVE OutboxInv'
  <2>1. CASE FlushStart(p)
    <3>1. PICK item \in batch[p] :
            /\ hand' = [hand EXCEPT ![p] = [pc |-> "publishing",
                                            fill |-> item.fill,
                                            needs |-> item.needs]]
            /\ batch' = [batch EXCEPT ![p] = @ \ {item}]
      BY <2>1 DEF FlushStart
    <3>2. hand[p] = NoItem /\ UNCHANGED <<outbox, task, trouble>>
      BY <2>1 DEF FlushStart
    <3>3. /\ hand'[p] # NoItem
          /\ hand'[p].fill = item.fill
          /\ hand'[p].pc = "publishing"
      BY <3>1 DEF OutboxTypeOK, NoItem
    <3>4. \A q \in Pods : q # p => hand'[q] = hand[q] /\ batch'[q] = batch[q]
      BY <3>1 DEF OutboxTypeOK
    <3>5. batch'[p] = batch[p] \ {item}
      BY <3>1 DEF OutboxTypeOK
    <3>6. OncePerPass'
      BY <3>3, <3>4, <3>5 DEF OncePerPass
    <3>7. \A q \in Pods, f \in Fills : InHands(q, f)' => InHands(q, f)
      BY <3>2, <3>3, <3>4, <3>5 DEF InHands
    <3>8. ClaimsExclusive'
      BY <3>2, <3>7 DEF ClaimsExclusive, HeldIsClaimed, OneHolder
    <3>9. (Calm => NoneFailing)'
      BY <3>2, <3>3, <3>4 DEF NoneFailing
    <3> QED BY <1>0, <3>6, <3>8, <3>9
  <2>2. CASE FlushPublishFails(p)
    <3>1. ~Calm'
      BY <2>2 DEF FlushPublishFails, PublishFails
    <3>2. hand[p].pc # "none" /\ hand[p] \in Hand
      BY <2>2, HandFacts DEF FlushPublishFails
    <3>3. hand' = [hand EXCEPT ![p].pc = "failing"] /\ UNCHANGED batch
      BY <2>2 DEF FlushPublishFails
    <3>4. /\ hand[p] # NoItem
          /\ hand'[p].fill = hand[p].fill
          /\ \A q \in Pods : q # p => hand'[q] = hand[q]
      BY <3>2, <3>3, HandFacts DEF OutboxTypeOK, Hand
    <3>5. OncePerPass'
      BY <3>3, <3>4 DEF OncePerPass
    <3> QED BY <1>0, <3>1, <3>5 DEF ClaimsExclusive
  <2>3. CASE FlushMarks(p)
    <3>1. hand[p] \in Hand /\ hand[p] # NoItem
      BY <2>3, HandFacts DEF FlushMarks
    <3>2. /\ hand'[p].fill = hand[p].fill
          /\ hand'[p] # NoItem
          /\ \A q \in Pods : q # p => hand'[q] = hand[q]
      BY <2>3, <3>1 DEF FlushMarks, OutboxTypeOK, Hand, NoItem
    <3>3. \A x \in Fills : /\ outbox'[x].stored = outbox[x].stored
                           /\ outbox'[x].claim = outbox[x].claim
      <4> DEFINE s == NextSink(hand[p].needs)
      <4>1. hand[p].fill \in Fills /\ s \in Sinks
        BY <3>1, HandFacts DEF NextSink, Sinks
      <4>2. outbox' = outbox \/ outbox' = Marked(hand[p].fill, s)
        BY <2>3 DEF FlushMarks, Throws
      <4> HIDE DEF s
      <4> QED BY <4>1, <4>2, MarkKeeps
    <3>4. Calm' => Calm /\ NoneFailing'
      BY <2>3, <3>1, <3>2
         DEF FlushMarks, Throws, Fault, NoFault, NoneFailing, OutboxTypeOK,
             Hand
    <3> QED BY <1>0, <2>3, <3>1, <3>2, <3>3, <3>4, ItemsUntouched
               DEF FlushMarks
  <2>4. CASE FlushFails(p)
    <3>1. ~Calm
      BY <2>4 DEF FlushFails, NoneFailing
    <3>2. ~Calm'
      BY <2>4, <3>1 DEF FlushFails, NoFault, Throws, Fault
    <3>3. OncePerPass'
      BY <2>4 DEF FlushFails, OncePerPass, OutboxTypeOK
    <3> QED BY <1>0, <3>2, <3>3 DEF ClaimsExclusive
  <2>5. CASE FlushReleases(p)
    <3>1. OncePerPass'
      BY <2>5 DEF FlushReleases, OncePerPass, OutboxTypeOK
    <3>2. CASE ~Calm'
      BY <1>0, <3>1, <3>2 DEF ClaimsExclusive
    <3>3. CASE Calm'
      <4>0. hand[p] \in Hand /\ hand[p] # NoItem /\ hand[p].fill \in Fills
        BY <2>5, HandFacts DEF FlushReleases
      <4>1. PICK f \in Fills : f = hand[p].fill
        BY <4>0
      <4>2. /\ Calm /\ outbox' = Released(f)
            /\ hand' = [hand EXCEPT ![p] = NoItem]
            /\ UNCHANGED <<batch, task>>
        BY <2>5, <3>3, <4>1 DEF FlushReleases, Throws, Fault, NoFault
      <4>3. \A x \in Fills :
              /\ x # f => outbox'[x] = outbox[x]
              /\ outbox'[x].stored = outbox[x].stored
        BY <4>1, <4>2 DEF Released, OutboxTypeOK, Row
      <4>4. ~InHands(p, f)'
        BY <4>0, <4>1, <4>2 DEF InHands, OncePerPass, OutboxTypeOK
      <4>5. \A q \in Pods, x \in Fills : InHands(q, x)' => InHands(q, x)
        BY <4>2 DEF InHands, OutboxTypeOK
      <4>6. InHands(p, f)
        BY <4>0, <4>1 DEF InHands
      <4>7. \A q \in Pods : ~InHands(q, f)'
        BY <4>1, <4>2, <4>4, <4>5, <4>6 DEF ClaimsExclusive, OneHolder
      <4>8. ClaimsExclusive'
        BY <4>2, <4>3, <4>5, <4>7
           DEF ClaimsExclusive, HeldIsClaimed, OneHolder
      <4>9. NoneFailing'
        BY <4>2 DEF NoneFailing, NoItem, OutboxTypeOK
      <4> QED BY <1>0, <3>1, <4>8, <4>9
    <3> QED BY <3>2, <3>3
  <2>6. ASSUME NEW f \in Fills, NEW s \in Sinks, FlushPublishes(p, f, s)
        PROVE  OutboxInv'
    <3>1. hand[p] \in Hand /\ hand[p] # NoItem
      BY <2>6, HandFacts DEF FlushPublishes
    <3>2. /\ hand'[p].fill = hand[p].fill
          /\ hand'[p].pc = "marking"
          /\ hand'[p] # NoItem
          /\ \A q \in Pods : q # p => hand'[q] = hand[q]
      BY <2>6, <3>1 DEF FlushPublishes, OutboxTypeOK, Hand, NoItem
    <3>3. Calm' => Calm /\ NoneFailing'
      BY <2>6, <3>2
         DEF FlushPublishes, Publishes, NoFault, NoneFailing
    <3> QED BY <1>0, <2>6, <3>1, <3>2, <3>3, ItemsUntouched
               DEF FlushPublishes
  <2> QED BY <1>8, <2>1, <2>2, <2>3, <2>4, <2>5, <2>6 DEF FlushStep
<1>9. ASSUME NEW p \in Pods, PodCrash(p) PROVE OutboxInv'
  BY <1>0, <1>9 DEF PodCrash, Fault, OncePerPass, ClaimsExclusive,
                    OutboxTypeOK
<1>10. CASE UNCHANGED outboxVars
  BY <1>0, <1>10
     DEF outboxVars, OncePerPass, NoneFailing, ClaimsExclusive,
         HeldIsClaimed, OneHolder, InHands
<1> QED
  BY <1>1, <1>2, <1>3, <1>4, <1>5, <1>6, <1>7, <1>8, <1>9, <1>10
     DEF OutboxNext

-----------------------------------------------------------------------------
(***************************************************************************)
(* Marks: markOutboxPublished comes after the call of its sink.            *)
(***************************************************************************)

\* Whoever is about to mark a sink has sent it the fill.
MarkersHaveSent ==
    /\ \A p \in Pods, f \in Fills, s \in Sinks :
          task[<<p, f, s>>] = "marking" => sends[<<f, s>>] > 0
    /\ \A p \in Pods :
          hand[p].pc = "marking"
              => sends[<<hand[p].fill, NextSink(hand[p].needs)>>] > 0

MarksInv == OutboxTypeOK /\ MarkersHaveSent /\ MarkedWasSent

\* A send is counted, and no count decreases.
LEMMA CountedGrows ==
    ASSUME OutboxTypeOK, NEW f \in Fills, NEW s \in Sinks,
           NEW x \in Fills, NEW y \in Sinks
    PROVE  /\ Counted(f, s)[<<f, s>>] > 0
           /\ sends[<<x, y>>] > 0 => Counted(f, s)[<<x, y>>] > 0
<1>1. sends \in [Fills \X Sinks -> 0 .. MaxSends]
  BY DEF OutboxTypeOK, SendCount
<1>2. sends[<<f, s>>] \in 0 .. MaxSends /\ sends[<<x, y>>] \in 0 .. MaxSends
  BY <1>1
<1>3. <<f, s>> \in DOMAIN sends /\ <<x, y>> \in DOMAIN sends
  BY <1>1
<1>4. CASE <<x, y>> = <<f, s>>
  BY <1>2, <1>3, <1>4, OutboxBoundsAssumption DEF Counted
<1>5. CASE <<x, y>> # <<f, s>>
  BY <1>2, <1>3, <1>5, OutboxBoundsAssumption DEF Counted
<1> QED BY <1>4, <1>5

\* What a sink has received stays received, whatever a step sends.
LEMMA SentStays ==
    ASSUME OutboxTypeOK, NEW x \in Fills, NEW y \in Sinks,
           sends[<<x, y>>] > 0,
           \/ UNCHANGED sends
           \/ \E f \in Fills, s \in Sinks : sends' = Counted(f, s)
    PROVE  sends'[<<x, y>>] > 0
BY CountedGrows

\* How a statement changes the marks of a row.
LEMMA MarksOf ==
    ASSUME OutboxTypeOK, NEW f \in Fills, NEW s \in Sinks, NEW x \in Fills
    PROVE  /\ Stored(f)[x].marked \subseteq outbox[x].marked
           /\ FailureRecorded(f)[x].marked = outbox[x].marked
           /\ Released(f)[x].marked = outbox[x].marked
           /\ \A y \in Marked(f, s)[x].marked :
                 y \in outbox[x].marked \/ (x = f /\ y = s)
BY DEF OutboxTypeOK, Row, NoRow, Stored, FailureRecorded, Released, Marked

\* Marking a sink that received the fill keeps the marks true.
LEMMA MarkingKeeps ==
    ASSUME OutboxTypeOK, MarkedWasSent, NEW f \in Fills, NEW s \in Sinks,
           sends[<<f, s>>] > 0, UNCHANGED sends,
           outbox' = outbox \/ outbox' = Marked(f, s)
    PROVE  MarkedWasSent'
<1> SUFFICES ASSUME NEW x \in Fills, NEW y \in outbox'[x].marked
             PROVE  sends[<<x, y>>] > 0
  BY DEF MarkedWasSent
<1>1. y \in outbox[x].marked \/ (x = f /\ y = s)
  BY MarksOf
<1> QED BY <1>1 DEF MarkedWasSent

\* A step keeps the invariant when every mark it sets and every publication
\* it brings to its mark is backed by a send.
LEMMA MarksStep ==
    ASSUME MarksInv, [OutboxNext]_outboxVars PROVE MarksInv'
<1> USE DEF MarksInv
<1>0. OutboxTypeOK' BY OutboxTypeStep
<1>1. ASSUME NEW p \in Pods, NEW f \in Fills, IngestFill(p, f)
      PROVE  MarksInv'
  <2>1. \A x \in Fills : outbox'[x].marked \subseteq outbox[x].marked
    BY <1>1, MarksOf DEF IngestFill, Sinks
  <2>2. \A q \in Pods, x \in Fills, s \in Sinks :
          task'[<<q, x, s>>] = "marking" => task[<<q, x, s>>] = "marking"
    BY <1>1 DEF IngestFill
  <2> QED BY <1>0, <1>1, <2>1, <2>2
             DEF IngestFill, MarkersHaveSent, MarkedWasSent
<1>2. ASSUME NEW f \in Fills, RetryUnmatched(f) PROVE MarksInv'
  <2>1. \A x \in Fills : outbox'[x].marked \subseteq outbox[x].marked
    BY <1>2, MarksOf DEF RetryUnmatched, Sinks
  <2> QED BY <1>0, <1>2, <2>1
             DEF RetryUnmatched, MarkersHaveSent, MarkedWasSent
<1>3. ASSUME NEW f \in Fills, ClaimExpires(f) \/ BackoffEnds(f)
      PROVE  MarksInv'
  <2>1. \A x \in Fills : outbox'[x].marked = outbox[x].marked
    BY <1>3 DEF ClaimExpires, BackoffEnds, OutboxTypeOK, Row
  <2> QED BY <1>0, <1>3, <2>1
             DEF ClaimExpires, BackoffEnds, MarkersHaveSent, MarkedWasSent
<1>5. ASSUME NEW p \in Pods, NEW f \in Fills, NEW s \in Sinks,
             TaskStep(p, f, s)
      PROVE  MarksInv'
  <2>1. CASE TaskPublishes(p, f, s)
    <3>1. /\ UNCHANGED <<outbox, hand>>
          /\ UNCHANGED sends \/ sends' = Counted(f, s)
      BY <2>1 DEF TaskPublishes, Publishes, PublishFails
    <3>2. \A x \in Fills, y \in Sinks :
            sends[<<x, y>>] > 0 => sends'[<<x, y>>] > 0
      BY <3>1, SentStays
    <3>3. ASSUME NEW q \in Pods, NEW x \in Fills, NEW y \in Sinks,
                 task'[<<q, x, y>>] = "marking"
          PROVE  sends'[<<x, y>>] > 0
      <4>1. CASE <<q, x, y>> = <<p, f, s>>
        <5>1. sends' = Counted(f, s)
          BY <2>1, <3>3, <4>1 DEF TaskPublishes, Publishes, OutboxTypeOK
        <5> QED BY <4>1, <5>1, CountedGrows
      <4>2. CASE <<q, x, y>> # <<p, f, s>>
        <5>1. task[<<q, x, y>>] = "marking"
          BY <2>1, <3>3, <4>2 DEF TaskPublishes, OutboxTypeOK
        <5> QED BY <3>2, <5>1 DEF MarkersHaveSent
      <4> QED BY <4>1, <4>2
    <3>4. ASSUME NEW q \in Pods, hand[q].pc = "marking"
          PROVE  sends'[<<hand[q].fill, NextSink(hand[q].needs)>>] > 0
      <4>1. hand[q].fill \in Fills /\ NextSink(hand[q].needs) \in Sinks
        BY <3>4, HandFacts DEF NextSink, Sinks
      <4> QED BY <3>2, <3>4, <4>1 DEF MarkersHaveSent
    <3>5. MarkersHaveSent'
      BY <3>1, <3>3, <3>4 DEF MarkersHaveSent
    <3>6. MarkedWasSent'
      BY <3>1, <3>2 DEF MarkedWasSent, OutboxTypeOK, Row
    <3> QED BY <1>0, <3>5, <3>6
  <2>2. CASE TaskMarks(p, f, s)
    <3>1. sends[<<f, s>>] > 0 /\ UNCHANGED <<sends, hand>>
      BY <2>2 DEF TaskMarks, MarkersHaveSent
    <3>2. \A q \in Pods, x \in Fills, y \in Sinks :
            task'[<<q, x, y>>] = "marking" => task[<<q, x, y>>] = "marking"
      BY <2>2 DEF TaskMarks, OutboxTypeOK
    <3>3. outbox' = outbox \/ outbox' = Marked(f, s)
      BY <2>2 DEF TaskMarks, Throws
    <3>4. MarkedWasSent'
      BY <3>1, <3>3, MarkingKeeps
    <3> QED BY <1>0, <3>1, <3>2, <3>4 DEF MarkersHaveSent
  <2>3. CASE TaskFails(p, f, s)
    <3>1. \A q \in Pods, x \in Fills, y \in Sinks :
            task'[<<q, x, y>>] = "marking" => task[<<q, x, y>>] = "marking"
      BY <2>3 DEF TaskFails, OutboxTypeOK
    <3>2. outbox' = outbox \/ outbox' = FailureRecorded(f)
      BY <2>3 DEF TaskFails, Throws
    <3>3. UNCHANGED <<sends, hand>>
      BY <2>3 DEF TaskFails
    <3> QED BY <1>0, <3>1, <3>2, <3>3, MarksOf
               DEF MarkersHaveSent, MarkedWasSent
  <2> QED BY <1>5, <2>1, <2>2, <2>3 DEF TaskStep
<1>6. ASSUME NEW p \in Pods, FlushClaim(p) \/ FlushClaimLost(p)
      PROVE  MarksInv'
  <2>1. \A x \in Fills : outbox'[x].marked = outbox[x].marked
    BY <1>6 DEF FlushClaim, FlushClaimLost, Claimed, OutboxTypeOK, Row
  <2> QED BY <1>0, <1>6, <2>1
             DEF FlushClaim, FlushClaimLost, MarkersHaveSent, MarkedWasSent
<1>8. ASSUME NEW p \in Pods, FlushStep(p) PROVE MarksInv'
  <2>1. CASE FlushStart(p)
    <3>1. \A q \in Pods : hand'[q].pc = "marking" => hand'[q] = hand[q]
      BY <2>1 DEF FlushStart, OutboxTypeOK
    <3> QED BY <1>0, <2>1, <3>1 DEF FlushStart, MarkersHaveSent, MarkedWasSent
  <2>2. CASE FlushPublishFails(p)
    <3>1. hand[p].fill \in Fills /\ NextSink(hand[p].needs) \in Sinks
      BY <2>2, HandFacts DEF FlushPublishFails, NextSink, Sinks
    <3>2. \A x \in Fills, y \in Sinks :
            sends[<<x, y>>] > 0 => sends'[<<x, y>>] > 0
      BY <2>2, <3>1, SentStays DEF FlushPublishFails, PublishFails
    <3>3. \A q \in Pods : hand'[q].pc = "marking" => hand'[q] = hand[q]
      BY <2>2, <3>1, HandFacts DEF FlushPublishFails, OutboxTypeOK, Hand
    <3>4. ASSUME NEW q \in Pods, hand'[q].pc = "marking"
          PROVE  sends'[<<hand'[q].fill, NextSink(hand'[q].needs)>>] > 0
      <4>1. hand[q].fill \in Fills /\ NextSink(hand[q].needs) \in Sinks
        BY <3>3, <3>4, HandFacts DEF NextSink, Sinks
      <4> QED BY <3>2, <3>3, <3>4, <4>1 DEF MarkersHaveSent
    <3>5. UNCHANGED <<outbox, task>>
      BY <2>2 DEF FlushPublishFails
    <3>6. MarkedWasSent'
      BY <3>2, <3>5 DEF MarkedWasSent, OutboxTypeOK, Row
    <3>7. MarkersHaveSent'
      BY <3>2, <3>4, <3>5 DEF MarkersHaveSent, NextSink
    <3> QED BY <1>0, <3>6, <3>7
  <2>3. CASE FlushMarks(p)
    <3> DEFINE s == NextSink(hand[p].needs)
    <3>1. hand[p].fill \in Fills /\ s \in Sinks
      BY <2>3, HandFacts DEF FlushMarks, NextSink, Sinks
    <3>2. sends[<<hand[p].fill, s>>] > 0 /\ UNCHANGED <<sends, task>>
      BY <2>3 DEF FlushMarks, MarkersHaveSent
    <3>3. outbox' = outbox \/ outbox' = Marked(hand[p].fill, s)
      BY <2>3 DEF FlushMarks, Throws
    <3> HIDE DEF s
    <3>4. MarkedWasSent'
      BY <3>1, <3>2, <3>3, MarkingKeeps
    <3>5. \A q \in Pods : hand'[q].pc = "marking" => hand'[q] = hand[q]
      BY <2>3, HandFacts DEF FlushMarks, OutboxTypeOK, Hand
    <3>6. MarkersHaveSent'
      BY <3>2, <3>5 DEF MarkersHaveSent
    <3> QED BY <1>0, <3>4, <3>6
  <2>4. CASE FlushFails(p) \/ FlushReleases(p)
    <3>1. hand[p].fill \in Fills
      BY <2>4, HandFacts DEF FlushFails, FlushReleases
    <3>2. \A x \in Fills : outbox'[x].marked = outbox[x].marked
      BY <2>4, <3>1, MarksOf DEF FlushFails, FlushReleases, Throws, Sinks
    <3>3. \A q \in Pods : hand'[q].pc = "marking" => hand'[q] = hand[q]
      BY <2>4 DEF FlushFails, FlushReleases, OutboxTypeOK, NoItem
    <3>4. UNCHANGED <<sends, task>>
      BY <2>4 DEF FlushFails, FlushReleases
    <3> QED BY <1>0, <3>2, <3>3, <3>4 DEF MarkersHaveSent, MarkedWasSent
  <2>6. ASSUME NEW f \in Fills, NEW s \in Sinks, FlushPublishes(p, f, s)
        PROVE  MarksInv'
    <3>1. sends' = Counted(f, s) /\ UNCHANGED <<outbox, task>>
      BY <2>6 DEF FlushPublishes, Publishes
    <3>2. \A x \in Fills, y \in Sinks :
            sends[<<x, y>>] > 0 => sends'[<<x, y>>] > 0
      BY <3>1, SentStays
    <3>3. hand[p] \in Hand /\ hand[p].fill = f /\ NextSink(hand[p].needs) = s
      BY <2>6, HandFacts DEF FlushPublishes
    <3>4. /\ hand'[p].fill = f /\ hand'[p].needs = hand[p].needs
          /\ \A q \in Pods : q # p => hand'[q] = hand[q]
      BY <2>6, <3>3 DEF FlushPublishes, OutboxTypeOK, Hand
    <3>5. ASSUME NEW q \in Pods, hand'[q].pc = "marking"
          PROVE  sends'[<<hand'[q].fill, NextSink(hand'[q].needs)>>] > 0
      <4>1. CASE q = p
        BY <3>1, <3>3, <3>4, <4>1, CountedGrows
      <4>2. CASE q # p
        <5>1. hand'[q] = hand[q]
          BY <3>4, <4>2
        <5>2. hand[q].fill \in Fills /\ NextSink(hand[q].needs) \in Sinks
          BY <3>5, <5>1, HandFacts DEF NextSink, Sinks
        <5> QED BY <3>2, <3>5, <5>1, <5>2 DEF MarkersHaveSent
      <4> QED BY <4>1, <4>2
    <3>6. MarkersHaveSent'
      BY <3>1, <3>2, <3>5 DEF MarkersHaveSent, NextSink
    <3>7. MarkedWasSent'
      BY <3>1, <3>2 DEF MarkedWasSent, OutboxTypeOK, Row
    <3> QED BY <1>0, <3>6, <3>7
  <2> QED BY <1>8, <2>1, <2>2, <2>3, <2>4, <2>6 DEF FlushStep
<1>9. ASSUME NEW p \in Pods, PodCrash(p) PROVE MarksInv'
  BY <1>0, <1>9 DEF PodCrash, MarkersHaveSent, MarkedWasSent, NoItem,
                    OutboxTypeOK
<1>10. CASE UNCHANGED outboxVars
  BY <1>0, <1>10 DEF outboxVars, MarkersHaveSent, MarkedWasSent
<1> QED
  BY <1>1, <1>2, <1>3, <1>5, <1>6, <1>8, <1>9, <1>10 DEF OutboxNext

-----------------------------------------------------------------------------
\* The outbox keeps its types (order_fill rows, publications and passes).
THEOREM OutboxTypeCorrect == OutboxSpec => []OutboxTypeOK
<1>1. OutboxInit => OutboxTypeOK
  BY OutboxInvInit DEF OutboxInv
<1> QED BY <1>1, OutboxTypeStep, PTL DEF OutboxSpec

\* findPendingOutbox's claim is exclusive: while nothing fails and no claim
\* expires, no two passes work on the same row, for any number of pods.
THEOREM OutboxClaimsExclusive == OutboxSpec => []ClaimsExclusive
<1>1. OutboxInv => ClaimsExclusive
  BY DEF OutboxInv
<1> QED BY <1>1, OutboxInvInit, OutboxInvStep, PTL DEF OutboxSpec

\* markOutboxPublished never drops a fill that its sink did not receive,
\* whatever fails, crashes or expires.
THEOREM OutboxMarksAreTrue == OutboxSpec => []MarkedWasSent
<1>1. OutboxInit => MarksInv
  BY OutboxInvInit
     DEF OutboxInv, OutboxInit, MarksInv, MarkersHaveSent, MarkedWasSent,
         NoRow, NoItem
<1>2. MarksInv => MarkedWasSent
  BY DEF MarksInv
<1> QED BY <1>1, <1>2, MarksStep, PTL DEF OutboxSpec
=============================================================================
