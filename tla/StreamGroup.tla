----------------------------- MODULE StreamGroup -----------------------------
(***************************************************************************)
(* A Redis stream with one consumer group, as redis-bus-streams.ts uses    *)
(* it: XADD, XGROUP CREATE at '$', XREADGROUP with '>' and XACK.  Entry    *)
(* ids are the positions 1, 2, 3 ... of the stream.  Nothing in the code   *)
(* calls XAUTOCLAIM or reads with an id other than '>', so an entry that   *)
(* was delivered and not acknowledged stays in the group's pending list.   *)
(***************************************************************************)
EXTENDS Naturals, Sequences, FiniteSets

\* The stream before any consumer has started: no group, no entry.
EmptyStream == [size |-> 0, grouped |-> FALSE, last |-> 0, pending |-> {}, acked |-> {}]

StreamType(n) ==
    [size: 0..n, grouped: BOOLEAN, last: 0..n, pending: SUBSET (1..n), acked: SUBSET (1..n)]

\* produce: XADD with a generated id.
XAdd(s) == [s EXCEPT !.size = @ + 1]

\* ensureGroup: XGROUP CREATE ... '$'; an existing group (BUSYGROUP) is kept.
EnsureGroup(s) == IF s.grouped THEN s ELSE [s EXCEPT !.grouped = TRUE, !.last = s.size]

\* The entries XREADGROUP COUNT count '>' hands out.
Unread(s, count) ==
    [i \in 1..(IF s.size - s.last < count THEN s.size - s.last ELSE count) |-> s.last + i]

XReadGroup(s, count) ==
    LET batch == Unread(s, count)
    IN  [s EXCEPT !.last = @ + Len(batch),
                  !.pending = @ \cup {batch[i] : i \in 1..Len(batch)}]

XAck(s, id) == [s EXCEPT !.pending = @ \ {id}, !.acked = @ \cup {id}]

==============================================================================
