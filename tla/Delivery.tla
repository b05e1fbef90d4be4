------------------------------ MODULE Delivery ------------------------------
(***************************************************************************)
(* Delivery of outbox rows to the sinks: deliverPending of                 *)
(* internal/pipeline/pipeline.go, the queue of internal/outbox/outbox.go   *)
(* and the sinks of internal/output, replaced while a delivery is going    *)
(* on.  Pipeline models a delivery as one atomic hand-over; here are the   *)
(* buffers and locks behind it.                                            *)
(*                                                                         *)
(* Four goroutines touch a sink: deliveryLoop (EmitTo: lookup, Emit,       *)
(* Flush), the caller of DynamicSink.Replace (Close of every sink that is  *)
(* not in the next map), the flushLoop of an HTTP sink, and none for the   *)
(* others.  A sink instance is <<destination, generation>>: each Replace   *)
(* compiles new instances of the connection sinks and keeps the static     *)
(* ones.                                                                   *)
(*                                                                         *)
(* Kinds: "ndjson" (output/file.go), "http" (output/http.go), "parquet"    *)
(* (output/parquet.go) and "direct" (output/kafka.go and stdout.go, whose  *)
(* Emit hands the event over and whose Flush has nothing to do).  A        *)
(* Parquet sink has one partition and a path of its own.  A flush forced   *)
(* by a full buffer inside Emit is the flush that EmitTo runs right after  *)
(* it.  Due times are a flag that MarkFailed clears and the passing of     *)
(* time sets.                                                              *)
(***************************************************************************)
EXTENDS Integers, FiniteSets, Sequences, SequencesExt

CONSTANTS
    Event,        \* normalized events
    Corrupt,      \* events whose outbox payload does not unmarshal
    Static,       \* destinations of main's own sinks, kept by every Replace
    Conn,         \* destinations of connection sinks
    Kindings,     \* what kinds of sink the destinations may have
    FetchLimit,   \* rows per FetchPending (100 in the code)
    MaxEvents,    \* bound on the events enqueued
    MaxReplace,   \* bound on configuration changes
    MaxFaults,    \* bound on failing writes, requests and store calls
    MaxCrashes    \* bound on crashes

Dest == Static \cup Conn
Kind == {"ndjson", "http", "parquet", "direct"}
Gen == 0 .. MaxReplace
Sink == Dest \X Gen
Buffered == {"http", "parquet"}   \* kinds with a flushMu and a batch in flight

ASSUME DeliveryAssumption ==
    /\ Corrupt \subseteq Event
    /\ IsFiniteSet(Static \cup Conn)
    /\ Kindings \subseteq [Dest -> Kind]
    /\ FetchLimit \in Nat \ {0}
    /\ MaxEvents \in Nat
    /\ MaxReplace \in Nat /\ MaxFaults \in Nat /\ MaxCrashes \in Nat

VARIABLES
    kind,       \* [Dest -> Kind]: the configuration, fixed
    outbox,     \* rows in id order: [event, dest, status, due]
    live,       \* [destination -> generation]: the map of DynamicSink
    sink,       \* [Sink -> instance state]
    received,   \* <<event, destination>> durable at the destination
    listed,     \* <<event, destination>> in a file that manifest.json names
    work,       \* deliverPending: [pc, batch, at]
    closing,    \* instances Replace has still to close
    contested,  \* destinations replaced while a sink held or was given events
    replaces, faults, crashes

vars == <<kind, outbox, live, sink, received, listed, work, closing, contested,
          replaces, faults, crashes>>

Status == {"pending", "delivered", "failed"}
Holder == {"nobody", "delivery", "close", "loop"}
Fresh == [closed |-> FALSE, broken |-> FALSE, buf |-> {}, batch |-> {}, lock |-> "nobody", seen |-> {}, wrote |-> FALSE]
Nowhere == CHOOSE s \in Sink : TRUE
Idle == [pc |-> "idle", batch |-> <<>>, at |-> Nowhere]

Init ==
    /\ kind \in Kindings
    /\ outbox = <<>>
    /\ live = [d \in Dest |-> 0]
    /\ sink = [s \in Sink |-> Fresh]
    /\ received = {} /\ listed = {}
    /\ work = Idle
    /\ closing = {} /\ contested = {}
    /\ replaces = 0 /\ faults = 0 /\ crashes = 0

-----------------------------------------------------------------------------
(* The outbox. *)

\* The rows of one event are inserted with it, one per active destination.
Enqueue(e) ==
    /\ \A i \in DOMAIN outbox : outbox[i].event # e
    /\ Cardinality({outbox[i].event : i \in DOMAIN outbox}) < MaxEvents
    /\ outbox' = outbox \o SetToSeq({[event |-> e, dest |-> d, status |-> "pending", due |-> TRUE] : d \in DOMAIN live})
    /\ UNCHANGED <<kind, live, sink, received, listed, work, closing, contested, replaces, faults, crashes>>

Due == {i \in DOMAIN outbox : outbox[i].status = "pending" /\ outbox[i].due}

\* batch lists the due rows of lowest id in order, at most FetchLimit of them.
Fetched(batch) ==
    /\ \A i, j \in DOMAIN batch : i < j => batch[i] < batch[j]
    /\ \A k \in Due \ Range(batch) : Len(batch) = FetchLimit /\ \A i \in DOMAIN batch : batch[i] < k

\* Mutant: a row that failed often enough is given up.
MarkFailedGivesUp(i) == outbox' = [outbox EXCEPT ![i].due = FALSE, ![i].status = "failed"]

\* maxAttempts 0: the row stays pending, with a later next_retry_at.
MarkFailed(i) == outbox' = [outbox EXCEPT ![i].due = FALSE]

\* The retry time of a row has passed.
BecomesDue(i) ==
    /\ outbox[i].status = "pending" /\ ~outbox[i].due
    /\ outbox' = [outbox EXCEPT ![i].due = TRUE]
    /\ UNCHANGED <<kind, live, sink, received, listed, work, closing, contested, replaces, faults, crashes>>

FetchPending ==
    /\ work.pc = "idle"
    /\ \E n \in 1 .. FetchLimit : \E batch \in [1 .. n -> Due] :
          Fetched(batch) /\ work' = [work EXCEPT !.pc = "lookup", !.batch = batch]
    /\ UNCHANGED <<kind, outbox, live, sink, received, listed, closing, contested, replaces, faults, crashes>>

Current == outbox[Head(work.batch)]

\* The rest of the fetched batch, or back to waiting for the ticker.
NextRow ==
    LET rest == Tail(work.batch)
    IN work' = IF rest = <<>> THEN Idle ELSE [Idle EXCEPT !.pc = "lookup", !.batch = rest]

Goto(pc) == work' = [work EXCEPT !.pc = pc]

\* A store call that fails leaves the row pending and due: it is delivered again.
Ack ==
    /\ work.pc = "ack"
    /\ NextRow
    /\ \/ outbox' = [outbox EXCEPT ![Head(work.batch)].status = "delivered"] /\ UNCHANGED faults
       \/ faults < MaxFaults /\ faults' = faults + 1 /\ UNCHANGED outbox
    /\ UNCHANGED <<kind, live, sink, received, listed, closing, contested, replaces, crashes>>

Nack ==
    /\ work.pc = "nack"
    /\ NextRow
    /\ \/ MarkFailed(Head(work.batch)) /\ UNCHANGED faults
       \/ faults < MaxFaults /\ faults' = faults + 1 /\ UNCHANGED outbox
    /\ UNCHANGED <<kind, live, sink, received, listed, closing, contested, replaces, crashes>>

-----------------------------------------------------------------------------
(* EmitTo: the lookup under the read lock, then Emit and Flush without it. *)

\* A payload that does not unmarshal is failed for good (maxAttempts 1).
RejectPayload ==
    /\ work.pc = "lookup" /\ Current.event \in Corrupt
    /\ NextRow
    /\ outbox' = [outbox EXCEPT ![Head(work.batch)].status = "failed"]
    /\ UNCHANGED <<kind, live, sink, received, listed, closing, contested, replaces, faults, crashes>>

Lookup ==
    /\ work.pc = "lookup" /\ Current.event \notin Corrupt
    /\ work' = IF Current.dest \in DOMAIN live
               THEN [work EXCEPT !.pc = "emit", !.at = <<Current.dest, live[Current.dest]>>]
               ELSE [work EXCEPT !.pc = "nack"]
    /\ UNCHANGED <<kind, outbox, live, sink, received, listed, closing, contested, replaces, faults, crashes>>

Target == <<Current.event, Current.dest>>

\* Emit into the buffer; a closed sink, or a bufio.Writer that has failed once,
\* refuses.  An event that is already buffered is not buffered again.
EmitBuffer(k) ==
    /\ work.pc = "emit" /\ kind[Current.dest] = k
    /\ IF sink[work.at].closed \/ sink[work.at].broken
       THEN Goto("nack") /\ UNCHANGED sink
       ELSE Goto("flush") /\ sink' = [sink EXCEPT ![work.at].buf = @ \cup {Current.event}]
    /\ UNCHANGED <<kind, outbox, live, received, listed, closing, contested, replaces, faults, crashes>>

EmitNDJSON == EmitBuffer("ndjson")
EmitHTTP == EmitBuffer("http")
EmitParquet == EmitBuffer("parquet")

\* Kafka's ProduceSync and the write to stdout; an error may come after the
\* record has arrived.
EmitDirect ==
    /\ work.pc = "emit" /\ kind[Current.dest] = "direct"
    /\ \/ sink[work.at].closed /\ Goto("nack") /\ UNCHANGED <<received, faults>>
       \/ ~sink[work.at].closed /\ Goto("ack") /\ received' = received \cup {Target} /\ UNCHANGED faults
       \/ faults < MaxFaults /\ faults' = faults + 1 /\ Goto("nack")
          /\ received' \in {received, received \cup {Target}}
    /\ UNCHANGED <<kind, outbox, live, sink, listed, closing, contested, replaces, crashes>>

To(d, events) == {<<e, d>> : e \in events}

\* NDJSON flushes under its mutex, and so does its Close.  After a failed write
\* the bufio.Writer refuses everything that follows (its error is sticky).
FlushFile(s, close) ==
    \/ /\ ~sink[s].broken
       /\ received' = received \cup To(s[1], sink[s].buf)
       /\ sink' = [sink EXCEPT ![s].buf = {}, ![s].closed = close]
       /\ UNCHANGED faults
    \/ /\ ~sink[s].broken /\ faults < MaxFaults
       /\ faults' = faults + 1
       /\ sink' = [sink EXCEPT ![s].broken = TRUE, ![s].closed = close]
       /\ UNCHANGED received
    \/ /\ sink[s].broken
       /\ sink' = [sink EXCEPT ![s].closed = close]
       /\ UNCHANGED <<received, faults>>

FlushNDJSON ==
    /\ work.pc = "flush" /\ kind[Current.dest] = "ndjson"
    /\ LET s == work.at
       IN \/ sink[s].closed /\ Goto("ack") /\ UNCHANGED <<sink, received, faults>>
          \/ ~sink[s].closed /\ FlushFile(s, FALSE) /\ Goto(IF sink'[s].broken THEN "nack" ELSE "ack")
    /\ UNCHANGED <<kind, outbox, live, listed, closing, contested, replaces, crashes>>

\* HTTP takes flushMu before it looks at the buffer ...
FlushHTTP ==
    /\ work.pc = "flush" /\ kind[Current.dest] = "http"
    /\ Goto("lock")
    /\ UNCHANGED <<kind, outbox, live, sink, received, listed, closing, contested, replaces, faults, crashes>>

\* ... Parquet lists its partitions first, and returns if there are none.
FlushParquet ==
    /\ work.pc = "flush" /\ kind[Current.dest] = "parquet"
    /\ Goto(IF sink[work.at].buf = {} THEN "ack" ELSE "lock")
    /\ UNCHANGED <<kind, outbox, live, sink, received, listed, closing, contested, replaces, faults, crashes>>

LockFree(s) == sink[s].lock = "nobody"

\* flushMu taken: the buffer becomes the batch in flight.
TakeBatch(s, who) == [sink EXCEPT ![s].lock = who, ![s].batch = sink[s].buf, ![s].buf = {}]

BeginFlush ==
    /\ work.pc = "lock" /\ LockFree(work.at)
    /\ IF sink[work.at].buf = {}
       THEN Goto("ack") /\ UNCHANGED sink
       ELSE Goto("sending") /\ sink' = TakeBatch(work.at, "delivery")
    /\ UNCHANGED <<kind, outbox, live, received, listed, closing, contested, replaces, faults, crashes>>

-----------------------------------------------------------------------------
(* The end of a flush, whoever holds flushMu. *)

Released(s, buf) ==
    [sink EXCEPT ![s].lock = "nobody", ![s].batch = {}, ![s].buf = buf, ![s].wrote = FALSE, ![s].seen = {}]

\* The holder goes on: EmitTo returns, Close is done, flushLoop waits again.
Returns(s, ok) ==
    /\ IF sink[s].lock = "delivery" THEN Goto(IF ok THEN "ack" ELSE "nack") ELSE UNCHANGED work
    /\ closing' = IF sink[s].lock = "close" THEN closing \ {s} ELSE closing

\* The endpoint answered 2xx ...
SendBatch(s) ==
    /\ kind[s[1]] = "http" /\ sink[s].lock # "nobody"
    /\ received' = received \cup To(s[1], sink[s].batch)
    /\ sink' = Released(s, sink[s].buf)
    /\ Returns(s, TRUE)
    /\ UNCHANGED <<kind, outbox, live, listed, contested, replaces, faults, crashes>>

\* What the manifest.json under the path of destination d names.
ListedAt(d) == {x \in listed : x[2] = d}

\* flushPartition: the data file is renamed into place and manifest.json is read ...
WriteFile(s) ==
    /\ kind[s[1]] = "parquet" /\ sink[s].lock # "nobody" /\ ~sink[s].wrote
    /\ sink' = [sink EXCEPT ![s].wrote = TRUE, ![s].seen = ListedAt(s[1])]
    /\ UNCHANGED <<kind, outbox, live, received, listed, work, closing, contested, replaces, faults, crashes>>

\* Mutant: the manifest names the new file only.
NewManifestAlone(s) == To(s[1], sink[s].batch)

NewManifest(s) == sink[s].seen \cup To(s[1], sink[s].batch)

\* ... and written with the new file added.
WriteManifest(s) ==
    /\ sink[s].wrote
    /\ received' = received \cup To(s[1], sink[s].batch)
    /\ listed' = (listed \ ListedAt(s[1])) \cup NewManifest(s)
    /\ sink' = Released(s, sink[s].buf)
    /\ Returns(s, TRUE)
    /\ UNCHANGED <<kind, outbox, live, contested, replaces, faults, crashes>>

\* Mutant: the events of a failed batch are dropped.
RestoredDropped(s) == sink[s].buf

\* The events a failed batch leaves in the buffer.
Restored(s) == sink[s].batch \cup sink[s].buf

\* The flush failed: its events go back into the buffer.
FailBatch(s) ==
    /\ sink[s].lock # "nobody" /\ faults < MaxFaults
    /\ faults' = faults + 1
    /\ sink' = Released(s, Restored(s))
    /\ Returns(s, FALSE)
    /\ UNCHANGED <<kind, outbox, live, listed, contested, replaces, crashes>>

\* Every attempt failed; the endpoint may have stored the batch all the same.
SendFails(s) ==
    /\ kind[s[1]] = "http" /\ FailBatch(s)
    /\ received' \in {received, received \cup To(s[1], sink[s].batch)}

\* The file, the rename or the manifest failed.
PartitionFails(s) == kind[s[1]] = "parquet" /\ FailBatch(s) /\ UNCHANGED received

\* The ticker of an HTTP sink, until its Close has stopped it.
FlushLoop(s) ==
    /\ kind[s[1]] = "http" /\ (sink[s].closed => s \in closing)
    /\ LockFree(s) /\ sink[s].buf # {}
    /\ sink' = TakeBatch(s, "loop")
    /\ UNCHANGED <<kind, outbox, live, received, listed, work, closing, contested, replaces, faults, crashes>>

-----------------------------------------------------------------------------
(* Replace: the next map is active at once, then the old sinks are closed. *)

Busy(s) == sink[s].buf # {} \/ sink[s].batch # {} \/ (work.pc \in {"emit", "flush", "lock", "sending"} /\ work.at = s)

Replace(keep) ==
    /\ closing = {} /\ replaces < MaxReplace
    /\ replaces' = replaces + 1
    /\ live' = [d \in Static \cup keep |-> IF d \in Static THEN 0 ELSE replaces + 1]
    /\ closing' = {<<d, live[d]>> : d \in DOMAIN live \ Static}
    /\ contested' = contested \cup {s[1] : s \in {t \in closing' : Busy(t)}}
    /\ UNCHANGED <<kind, outbox, sink, received, listed, work, faults, crashes>>

\* The old sinks are closed one after the other, and an error is ignored.
MayClose(s) == s \in closing /\ \A t \in closing \ {s} : ~sink[t].closed

CloseNDJSON(s) ==
    /\ MayClose(s) /\ kind[s[1]] = "ndjson"
    /\ closing' = closing \ {s}
    /\ FlushFile(s, TRUE)
    /\ UNCHANGED <<kind, outbox, live, listed, work, contested, replaces, crashes>>

CloseDirect(s) ==
    /\ MayClose(s) /\ kind[s[1]] = "direct"
    /\ closing' = closing \ {s}
    /\ sink' = [sink EXCEPT ![s].closed = TRUE]
    /\ UNCHANGED <<kind, outbox, live, received, listed, work, contested, replaces, faults, crashes>>

\* Close of a buffered sink: closed is set under mu ...
BeginClose(s) ==
    /\ MayClose(s) /\ kind[s[1]] \in Buffered /\ ~sink[s].closed
    /\ sink' = [sink EXCEPT ![s].closed = TRUE]
    /\ UNCHANGED <<kind, outbox, live, received, listed, work, closing, contested, replaces, faults, crashes>>

\* ... then the rest is flushed like any other batch.
FlushOnClose(s) ==
    /\ MayClose(s) /\ sink[s].closed /\ LockFree(s) /\ sink[s].buf # {}
    /\ sink' = TakeBatch(s, "close")
    /\ UNCHANGED <<kind, outbox, live, received, listed, work, closing, contested, replaces, faults, crashes>>

\* With nothing buffered Close returns: HTTP after it has had flushMu, Parquet
\* without it, although a batch of the partition may be in flight.
CloseEmpty(s) ==
    /\ MayClose(s) /\ kind[s[1]] \in Buffered /\ sink[s].closed /\ sink[s].buf = {}
    /\ sink[s].lock # "close" /\ (kind[s[1]] = "http" => LockFree(s))
    /\ closing' = closing \ {s}
    /\ UNCHANGED <<kind, outbox, live, sink, received, listed, work, contested, replaces, faults, crashes>>

\* The process dies; the restart, up to the end of main's start-up, opens new
\* sinks for the saved destinations.
Crash ==
    /\ crashes < MaxCrashes
    /\ crashes' = crashes + 1
    /\ sink' = [s \in Sink |-> Fresh]
    /\ live' = [d \in DOMAIN live |-> 0]
    /\ work' = Idle
    /\ closing' = {}
    /\ UNCHANGED <<kind, outbox, received, listed, contested, replaces, faults>>

-----------------------------------------------------------------------------
Deliver ==
    \/ FetchPending \/ RejectPayload \/ Lookup
    \/ EmitNDJSON \/ EmitHTTP \/ EmitParquet \/ EmitDirect
    \/ FlushNDJSON \/ FlushHTTP \/ FlushParquet \/ BeginFlush \/ Ack \/ Nack

EndFlush(s) == SendBatch(s) \/ WriteFile(s) \/ WriteManifest(s)

CloseOld(s) == CloseNDJSON(s) \/ CloseDirect(s) \/ BeginClose(s) \/ FlushOnClose(s) \/ CloseEmpty(s)

Next ==
    \/ \E e \in Event : Enqueue(e)
    \/ \E i \in DOMAIN outbox : BecomesDue(i)
    \/ Deliver
    \/ \E s \in Sink : EndFlush(s) \/ SendFails(s) \/ PartitionFails(s) \/ FlushLoop(s) \/ CloseOld(s)
    \/ \E keep \in SUBSET Conn : Replace(keep)
    \/ Crash

\* The goroutines go on, time passes and a request or a write comes to an end.
Fairness ==
    /\ WF_vars(Deliver)
    /\ \A s \in Sink : WF_vars(EndFlush(s)) /\ WF_vars(CloseOld(s))
    /\ \A i \in 1 .. MaxEvents * Cardinality(Dest) :
          WF_vars(i \in DOMAIN outbox /\ BecomesDue(i))

Spec == Init /\ [][Next]_vars /\ Fairness

-----------------------------------------------------------------------------
(* Properties. *)

Delivered == {<<outbox[i].event, outbox[i].dest>> : i \in {j \in DOMAIN outbox : outbox[j].status = "delivered"}}

\* EmitTo returns nil only when the event is durable at its destination
\* (pipeline.go marks the row delivered on that): through flushes of flushLoop
\* and Close that run at the same time, failed batches that go back into the
\* buffer, store errors and crashes.  For the file and the Parquet sink it holds
\* only for destinations no Replace has closed in use.
DeliveredIsDurable ==
    \A x \in Delivered : x \in received \/ (kind[x[2]] \in {"ndjson", "parquet"} /\ x[2] \in contested)

\* manifest.json of a Parquet destination names the file of every delivered
\* event, although each flush rewrites the manifest it has read.
ManifestNamesDelivered ==
    \A x \in Delivered : kind[x[2]] = "parquet" => x \in listed \/ x[2] \in contested

\* Rows that fail whenever they are fetched: no sink, or a file sink whose
\* writer has failed.
Stuck ==
    {i \in DOMAIN outbox : /\ outbox[i].status = "pending"
                           /\ \/ outbox[i].dest \notin DOMAIN live
                              \/ sink[<<outbox[i].dest, live[outbox[i].dest]>>].broken}

\* A pending row of a destination that stays active and intact is delivered, as
\* long as fewer rows than one fetch are stuck before it: FetchPending takes the
\* lowest ids first (outbox.go), and MarkFailed never gives up.
RowsAreDelivered ==
    \A i \in 1 .. MaxEvents * Cardinality(Dest) :
        <>[](i \in DOMAIN outbox /\ outbox[i].event \notin Corrupt /\ i \notin Stuck /\ Cardinality(Stuck) < FetchLimit)
            => <>[](i \in DOMAIN outbox /\ outbox[i].status = "delivered")

=============================================================================
