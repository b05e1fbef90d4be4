------------------------------ MODULE RawStore ------------------------------
(***************************************************************************)
(* The SQLite database of internal/rawstore/store.go and                   *)
(* internal/outbox/outbox.go: the tables raw_events, normalized_events,    *)
(* quarantine and outbox, and the transactions the pipeline runs on them.  *)
(*                                                                         *)
(* The store holds writeMu and a single connection (SetMaxOpenConns(1)),   *)
(* so one method is one atomic step and a crash falls between two methods; *)
(* synchronous=FULL makes a committed method durable.  An operator below   *)
(* is the whole effect of one method that returns nil; a method that       *)
(* returns an error leaves every table as it was.                          *)
(*                                                                         *)
(* Abstractions of the data.  A row of normalized_events is the pair       *)
(* <<raw_id, record_ordinal>>: storeNormalizedTx reuses the event_id of an *)
(* existing row of that child, so there is one row per child and the pair  *)
(* stands for the event_id.  A row of quarantine is <<raw_id,              *)
(* record_ordinal, why>>, where why stands for the (stage, reason) pair of *)
(* the unique index idx_quarantine_child.  A row of outbox is <<raw_id,    *)
(* record_ordinal, destination>>, in pend or in deliv by its status.  The  *)
(* bytes of a record are a member of Input.                                *)
(***************************************************************************)
EXTENDS Integers, FiniteSets

CONSTANTS
    MaxRaw,     \* bound on the rows of raw_events
    Input,      \* submitted records: payload bytes and receive metadata
    NoInput,    \* the content of a raw_id not yet in use
    Kids,       \* [Input -> Nat]: records that decoding the payload yields
    Broken,     \* inputs for which DetectAndDecode returns an error
    FileKey,    \* [Input -> key]: (file_id, file_offset) of a spooled record
    NoKey,      \* the key of a record of any other transport
    Dest        \* names of output destinations

RawId == 1 .. MaxRaw

Final == {"normalized", "quarantined", "partial"}
RawStatus == {"accepted"} \cup Final

\* The verdicts of matching, normalizing and validating one child record ...
Rejections == {"unknown_source", "ambiguous_source", "normalize_error", "validate_error"}
Verdicts == {"ok"} \cup Rejections

\* ... and the (stage, reason) pairs of the quarantine table.
Why == Rejections \cup {"parse_error", "empty_payload", "store_error", "sink_error"}

ASSUME StoreAssumption ==
    /\ MaxRaw \in Nat
    /\ NoInput \notin Input
    /\ Kids \in [Input -> Nat]
    /\ Broken \subseteq Input
    /\ DOMAIN FileKey = Input
    /\ IsFiniteSet(Dest)

VARIABLES
    rawIn,      \* [RawId -> Input or NoInput]: the bytes of a raw_events row
    rawStatus,  \* [RawId -> status or "absent"]
    norm,       \* rows of normalized_events
    quar,       \* rows of quarantine
    pend,       \* outbox rows with status 'pending'
    deliv       \* outbox rows with status 'delivered'

store == <<rawIn, rawStatus, norm, quar, pend, deliv>>

StoreTypeOK ==
    /\ rawIn \in [RawId -> Input \cup {NoInput}]
    /\ rawStatus \in [RawId -> RawStatus \cup {"absent"}]
    /\ \A r \in RawId : rawStatus[r] = "absent" <=> rawIn[r] = NoInput
    /\ norm \subseteq RawId \X Nat
    /\ quar \subseteq RawId \X Nat \X Why
    /\ pend \subseteq RawId \X Nat \X Dest
    /\ deliv \subseteq RawId \X Nat \X Dest

StoreInit ==
    /\ rawIn = [r \in RawId |-> NoInput]
    /\ rawStatus = [r \in RawId |-> "absent"]
    /\ norm = {}
    /\ quar = {}
    /\ pend = {}
    /\ deliv = {}

-----------------------------------------------------------------------------
(* Queries. *)

RawByStatus(st) == {r \in RawId : rawStatus[r] = st}

\* The rows of a table that belong to raw record r.
RowsOf(table, r) == {x \in table : x[1] = r}

CountCompletedChildren(r) == Cardinality(RowsOf(norm, r)) + Cardinality(RowsOf(quar, r))

HasCompletedChild(r, c) ==
    \/ <<r, c>> \in norm
    \/ \E x \in quar : x[1] = r /\ x[2] = c

\* Rows a file-spool record is a redelivery of: same (file_id, file_offset).
SpoolRows(i) ==
    {r \in RawId : rawStatus[r] # "absent" /\ FileKey[i] # NoKey /\ FileKey[rawIn[r]] = FileKey[i]}

\* The next raw_id: the counter in the id makes it larger than any before.
FreshRaw(r) ==
    /\ rawStatus[r] = "absent"
    /\ \A s \in RawId : s < r => rawStatus[s] # "absent"

\* empty_payload is the one quarantine entry written with ReplayEligible false.
ReplayEligible(q) == q[3] # "empty_payload"

\* Mutant: one normalized child makes the parent normalized.
ParentStatusOptimistic(n, q) == IF n = 0 /\ q > 0 THEN "quarantined" ELSE "normalized"

\* The parent status for n normalized and q quarantined rows.
ParentStatus(n, q) ==
    IF n = 0 /\ q > 0 THEN "quarantined" ELSE IF q > 0 THEN "partial" ELSE "normalized"

\* ... taken from the normalized rows ns and the quarantine rows qs.
OutcomeStatus(r, ns, qs) == ParentStatus(Cardinality(RowsOf(ns, r)), Cardinality(RowsOf(qs, r)))

-----------------------------------------------------------------------------
(* Transactions. *)

\* Mutant: the row is inserted without its status.
InsertRawWithoutStatus(r, i) ==
    /\ rawIn' = [rawIn EXCEPT ![r] = i]
    /\ UNCHANGED <<rawStatus, norm, quar, pend, deliv>>

InsertRaw(r, i) ==
    /\ rawIn' = [rawIn EXCEPT ![r] = i]
    /\ rawStatus' = [rawStatus EXCEPT ![r] = "accepted"]
    /\ UNCHANGED <<norm, quar, pend, deliv>>

\* Mutant: quarantining a child discards its normalized row.
QuarantineChildReplaces(r, c, why) ==
    /\ quar' = quar \cup {<<r, c, why>>}
    /\ norm' = norm \ {<<r, c>>}
    /\ UNCHANGED <<rawIn, rawStatus, pend, deliv>>

\* finalize is FALSE for every caller in the pipeline, so the parent keeps its
\* status; ON CONFLICT turns a second insert of the same row into an update.
QuarantineChild(r, c, why) ==
    /\ quar' = quar \cup {<<r, c, why>>}
    /\ UNCHANGED <<rawIn, rawStatus, norm, pend, deliv>>

\* Mutant: the upsert without WHERE outbox.status != 'delivered'.
OutboxUpsertReopens(r, c, dests) ==
    LET rows == {<<r, c, d>> : d \in dests}
    IN  /\ pend' = pend \cup rows
        /\ deliv' = deliv \ rows

\* One delivery row per destination; a delivered row is left alone.
OutboxUpsert(r, c, dests) ==
    /\ pend' = pend \cup ({<<r, c, d>> : d \in dests} \ deliv)
    /\ UNCHANGED deliv

StoreNormalizedWithOutbox(r, c, dests) ==
    /\ norm' = norm \cup {<<r, c>>}
    /\ OutboxUpsert(r, c, dests)
    /\ UNCHANGED <<rawIn, rawStatus, quar>>

DeleteNormalizedChild(r, c) ==
    /\ norm' = norm \ {<<r, c>>}
    /\ UNCHANGED <<rawIn, rawStatus, quar, pend, deliv>>

\* Mutant: the resolved quarantine row is kept.
ResolveQuarantineKeeps(q, dests) ==
    /\ q \in quar
    /\ norm' = norm \cup {<<q[1], q[2]>>}
    /\ rawStatus' = [rawStatus EXCEPT ![q[1]] = OutcomeStatus(q[1], norm', quar)]
    /\ OutboxUpsert(q[1], q[2], dests)
    /\ UNCHANGED <<rawIn, quar>>

\* Fails (n # 1) when the quarantine row has already been deleted.
ResolveQuarantineWithOutbox(q, dests) ==
    /\ q \in quar
    /\ norm' = norm \cup {<<q[1], q[2]>>}
    /\ quar' = quar \ {q}
    /\ rawStatus' = [rawStatus EXCEPT ![q[1]] = OutcomeStatus(q[1], norm', quar')]
    /\ OutboxUpsert(q[1], q[2], dests)
    /\ UNCHANGED rawIn

UpdateStatus(r, st) ==
    /\ rawStatus' = [rawStatus EXCEPT ![r] = st]
    /\ UNCHANGED <<rawIn, norm, quar, pend, deliv>>

MarkDelivered(row) ==
    /\ pend' = pend \ {row}
    /\ deliv' = deliv \cup {row}
    /\ UNCHANGED <<rawIn, rawStatus, norm, quar>>

\* Mutant: MarkFailed with a finite maxAttempts: the row leaves 'pending'.
MarkFailedForever(row) ==
    /\ pend' = pend \ {row}
    /\ UNCHANGED <<rawIn, rawStatus, norm, quar, deliv>>

\* Called with maxAttempts = 0: the row stays 'pending' with a later
\* next_retry_at, which the model does not hold.
MarkFailed(row) ==
    /\ row \in pend
    /\ UNCHANGED store

=============================================================================
