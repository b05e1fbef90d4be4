------------------------------ MODULE Pipeline ------------------------------
(***************************************************************************)
(* internal/pipeline/pipeline.go: the bounded queue, the worker pool that  *)
(* commits, decodes, normalizes and quarantines records, startup recovery, *)
(* the durable delivery loop, quarantine replay and the loss-accounting    *)
(* counters, over the database of RawStore.  The callers it depends on are *)
(* here too: the sink snapshot (output/dynamic.go), pack activation        *)
(* (packs/manager.go) and the order in which cmd/worm/main.go starts them. *)
(*                                                                         *)
(* A worker is a phase machine: one action per store method that           *)
(* processRecord calls, so that another worker, a replay or a crash may    *)
(* come between any two of them.  The atomic counters change in the same   *)
(* step as the store method next to them; they are compared only when      *)
(* nothing is in flight.  Stats takes "normalized" and "quarantined" from  *)
(* the tables, so only accepted and pending are state.                     *)
(***************************************************************************)
EXTENDS RawStore, Sequences

CONSTANTS
    Worker,       \* worker goroutines
    Replayer,     \* concurrent replay requests of the API
    Snapshot,     \* parser pack snapshots, and NoPacks
    NoPacks,      \* no pack manager, or one without an active snapshot
    Verdict(_, _, _), \* outcome of Match, Normalize, Validate: snapshot, input, child
    StaticSinks,  \* destinations given on the command line
    Durable,      \* TRUE: the sink has named destinations (DynamicSink)
    QueueCap,     \* Config.BufferSize
    FetchLimit,   \* the limit deliverPending passes to FetchPending
    MaxSubmits, MaxFaults, MaxCrashes   \* bounds of the model

ASSUME PipelineAssumption ==
    /\ NoPacks \in Snapshot
    /\ \A s \in Snapshot, i \in Input :
          \A c \in 0 .. (Kids[i] - 1) : Verdict(s, i, c) \in Verdicts
    /\ StaticSinks \subseteq Dest
    /\ Durable \in BOOLEAN
    /\ QueueCap \in Nat \ {0}
    /\ FetchLimit \in Nat \ {0}
    /\ MaxSubmits \in Nat /\ MaxFaults \in Nat /\ MaxCrashes \in Nat

VARIABLES
    inbound,    \* channel of records: a new input, or the raw_id of a recovered row
    toRecover,  \* accepted rows Start has listed and not yet enqueued
    up,         \* "starting" until main has reconciled the sinks, then "running"
    wk,         \* [Worker -> the local state of processRecord]
    rp,         \* [Replayer -> the quarantine row a replay is about to resolve]
    batch,      \* outbox rows fetched by deliverPending and not yet handled
    sent,       \* the row whose EmitTo returned nil and is not yet marked
    sinks,      \* destination names of the live sink snapshot
    configured, \* destination names of the saved sink configuration
    active,     \* the active pack snapshot
    accepted,   \* atomic counters
    pending,
    received,   \* rows the destinations hold (outside the program)
    submits, faults, crashes   \* counted against the bounds

volatile == <<inbound, toRecover, up, wk, rp, batch, sent, sinks, accepted, pending>>
counts == <<accepted, pending>>
budget == <<submits, faults, crashes>>
delivery == <<batch, sent, received>>
config == <<sinks, configured, active>>
vars == <<store, volatile, configured, active, received, budget>>

NoRaw == 0
NoRow == <<0, 0, NoInput>>

Phase == {"idle", "commit", "decode", "capture", "check", "process", "storeerr",
          "emit", "undo", "sinkerr", "count", "setstatus"}

\* st is the status setstatus will write: processRecord falls back to accepted.
IdleWorker ==
    [pc |-> "idle", raw |-> NoRaw, in |-> NoInput, recov |-> FALSE, next |-> 0,
     unres |-> FALSE, snap |-> NoPacks, st |-> "accepted"]

WorkerState ==
    [pc : Phase, raw : RawId \cup {NoRaw}, in : Input \cup {NoInput}, recov : BOOLEAN,
     next : Nat, unres : BOOLEAN, snap : Snapshot, st : RawStatus]

Record == [raw : RawId \cup {NoRaw}, in : Input \cup {NoInput}]

IdleReplay == [pc |-> "idle", q |-> NoRow]
Outbox == RawId \X Nat \X Dest

Init ==
    /\ StoreInit
    /\ inbound = <<>> /\ toRecover = {} /\ up = "starting"
    /\ wk = [w \in Worker |-> IdleWorker]
    /\ rp = [p \in Replayer |-> IdleReplay]
    /\ batch = {} /\ sent = NoRow
    /\ sinks = StaticSinks
    /\ configured \in {S \in SUBSET Dest : StaticSinks \subseteq S}
    /\ active \in Snapshot
    /\ accepted = 0 /\ pending = 0
    /\ received = {}
    /\ submits = 0 /\ faults = 0 /\ crashes = 0

-----------------------------------------------------------------------------
(* Helpers. *)

\* A store method returned an error (or nil): at most MaxFaults errors.
StoreFails == faults < MaxFaults /\ faults' = faults + 1 /\ UNCHANGED <<submits, crashes>>
StoreWorks == UNCHANGED budget

Count(da, dp) == accepted' = accepted + da /\ pending' = pending + dp

\* Mutant: the status is derived although a child is unresolved.
LoopPhaseIgnoresUnresolved(i, recov, n, unres) ==
    IF n < Kids[i] THEN (IF recov THEN "check" ELSE "process") ELSE "count"

\* Where the loop over the children goes with n of them handled.
LoopPhase(i, recov, n, unres) ==
    IF n < Kids[i] THEN (IF recov THEN "check" ELSE "process")
    ELSE IF unres THEN "setstatus" ELSE "count"

\* The end of the loop body for child k.next.
Advance(k, unresolved) ==
    LET n == k.next + 1
        u == k.unres \/ unresolved
    IN  [k EXCEPT !.next = n, !.unres = u, !.pc = LoopPhase(k.in, k.recov, n, u)]

Become(w, k) == wk' = [wk EXCEPT ![w] = k]

\* persistQuarantine: the row is written and counted, or the store failed.
PersistQuarantine(r, c, why) ==
    /\ QuarantineChild(r, c, why)
    /\ Count(0, -1)
    /\ StoreWorks
QuarantineFails == StoreFails /\ UNCHANGED <<store, counts>>

-----------------------------------------------------------------------------
(* Submission and the start of processRecord. *)

\* Submit and SubmitWait when there is room (Submit refuses and SubmitWait
\* blocks when there is none); SubmitSync is this followed by Take.
Submit(i) ==
    /\ up = "running"
    /\ submits < MaxSubmits
    /\ Len(inbound) < QueueCap
    /\ inbound' = Append(inbound, [raw |-> NoRaw, in |-> i])
    /\ Count(1, 1)
    /\ submits' = submits + 1
    /\ UNCHANGED <<store, toRecover, up, wk, rp, delivery, config, faults, crashes>>

Take(w) ==
    /\ wk[w].pc = "idle"
    /\ inbound # <<>>
    /\ Become(w, [IdleWorker EXCEPT !.pc = "commit", !.raw = Head(inbound).raw, !.in = Head(inbound).in])
    /\ inbound' = Tail(inbound)
    /\ UNCHANGED <<store, toRecover, up, rp, delivery, config, counts, budget>>

\* Mutant: a refused record stays counted as accepted.
RefuseKeepsAccepted(w) == Become(w, IdleWorker) /\ Count(0, -1) /\ UNCHANGED store

\* The commit of a new record failed: it was never accepted.
Refuse(w) == Become(w, IdleWorker) /\ Count(-1, -1) /\ UNCHANGED store

\* Store: a new row, the row a spooled record repeats, or an error.
StoreRecord(w) ==
    LET i == wk[w].in
    IN  /\ wk[w].pc = "commit" /\ wk[w].raw = NoRaw
        /\ \/ /\ SpoolRows(i) = {}
              /\ \E r \in RawId :
                    /\ FreshRaw(r)
                    /\ InsertRaw(r, i)
                    /\ Become(w, [wk[w] EXCEPT !.pc = "decode", !.raw = r])
              /\ StoreWorks /\ UNCHANGED counts
           \/ \E r \in SpoolRows(i) :
                 /\ rawIn[r] = i
                 /\ IF rawStatus[r] \in Final
                    THEN Refuse(w)
                    ELSE /\ Become(w, [wk[w] EXCEPT !.pc = "decode", !.raw = r, !.recov = TRUE])
                         /\ UNCHANGED <<store, counts>>
                 /\ StoreWorks
           \/ \E r \in SpoolRows(i) :
                 /\ rawIn[r] # i
                 /\ Refuse(w)
                 /\ StoreWorks
           \/ StoreFails /\ Refuse(w)
        /\ UNCHANGED <<inbound, toRecover, up, rp, delivery, config>>

\* Retrieve: a row that Start enqueued.
RetrieveRecord(w) ==
    LET r == wk[w].raw
    IN  /\ wk[w].pc = "commit" /\ r # NoRaw
        /\ \/ /\ Become(w, [wk[w] EXCEPT !.pc = "decode", !.in = rawIn[r], !.recov = TRUE])
              /\ StoreWorks /\ UNCHANGED <<store, counts>>
           \/ StoreFails /\ Refuse(w)
        /\ UNCHANGED <<inbound, toRecover, up, rp, delivery, config>>

\* DetectAndDecode failed: the raw record itself is quarantined as child 0.
DecodeFails(w) ==
    LET k == wk[w]
    IN  /\ k.pc = "decode" /\ k.in \in Broken
        /\ \/ /\ PersistQuarantine(k.raw, 0, "parse_error")
              /\ Become(w, [k EXCEPT !.pc = "setstatus", !.st = "quarantined"])
           \/ QuarantineFails /\ Become(w, [k EXCEPT !.pc = "setstatus"])
        /\ UNCHANGED <<inbound, toRecover, up, rp, delivery, config>>

\* A new record: one count per child.  A payload of no records is quarantined.
ExpandBatch(w) ==
    LET k == wk[w]
        n == Kids[k.in]
    IN  /\ k.pc = "decode" /\ k.in \notin Broken /\ ~k.recov
        /\ \/ /\ n > 0
              /\ Count(n - 1, n - 1)
              /\ Become(w, [k EXCEPT !.pc = "capture"])
              /\ StoreWorks /\ UNCHANGED store
           \/ /\ n = 0
              /\ PersistQuarantine(k.raw, 0, "empty_payload")
              /\ Become(w, [k EXCEPT !.pc = "setstatus", !.st = "quarantined"])
           \/ /\ n = 0
              /\ QuarantineFails
              /\ Become(w, [k EXCEPT !.pc = "setstatus"])
        /\ UNCHANGED <<inbound, toRecover, up, rp, delivery, config>>

\* Mutant: recovery counts every child again, the committed ones included.
ResumeBatchRecounts(w) ==
    LET k == wk[w]
        delta == Kids[k.in] - 1
    IN  /\ k.pc = "decode" /\ k.in \notin Broken /\ k.recov
        /\ Count(delta, delta)
        /\ Become(w, [k EXCEPT !.pc = "capture"])
        /\ StoreWorks
        /\ UNCHANGED <<store, inbound, toRecover, up, rp, delivery, config>>

\* A resumed record is already counted once: correct that to the children
\* that have no outcome yet.
ResumeBatch(w) ==
    LET k == wk[w]
        n == Kids[k.in]
        delta == n - CountCompletedChildren(k.raw) - 1
    IN  /\ k.pc = "decode" /\ k.in \notin Broken /\ k.recov
        /\ \/ /\ IF n > 0 THEN Count(delta, delta) ELSE UNCHANGED counts
              /\ Become(w, [k EXCEPT !.pc = "capture"])
              /\ StoreWorks
           \/ StoreFails /\ UNCHANGED counts /\ Become(w, [k EXCEPT !.pc = "setstatus"])
        /\ UNCHANGED <<store, inbound, toRecover, up, rp, delivery, config>>

\* One snapshot for the whole record; the loop starts at child 0.
CaptureSnapshot(w) ==
    LET k == wk[w]
    IN  /\ k.pc = "capture"
        /\ Become(w, [k EXCEPT !.snap = active, !.next = 0, !.unres = FALSE,
                              !.pc = LoopPhase(k.in, k.recov, 0, FALSE)])
        /\ UNCHANGED <<store, inbound, toRecover, up, rp, delivery, config, counts, budget>>

-----------------------------------------------------------------------------
(* The loop over the children. *)

\* A resumed record skips the children that have an outcome.
CheckChild(w) ==
    LET k == wk[w]
    IN  /\ k.pc = "check"
        /\ \/ /\ IF HasCompletedChild(k.raw, k.next)
                 THEN Become(w, Advance(k, FALSE))
                 ELSE Become(w, [k EXCEPT !.pc = "process"])
              /\ StoreWorks
           \/ StoreFails /\ Become(w, Advance(k, TRUE))
        /\ UNCHANGED <<store, inbound, toRecover, up, rp, delivery, config, counts>>

\* Match, Normalize or Validate rejects the child.
RejectChild(w) ==
    LET k == wk[w]
        v == Verdict(k.snap, k.in, k.next)
    IN  /\ k.pc = "process" /\ v # "ok"
        /\ \/ PersistQuarantine(k.raw, k.next, v) /\ Become(w, Advance(k, FALSE))
           \/ QuarantineFails /\ Become(w, Advance(k, TRUE))
        /\ UNCHANGED <<inbound, toRecover, up, rp, delivery, config>>

\* The normalized event and its delivery rows are committed together.
NormalizeChild(w) ==
    LET k == wk[w]
    IN  /\ k.pc = "process" /\ Verdict(k.snap, k.in, k.next) = "ok"
        /\ \/ /\ StoreNormalizedWithOutbox(k.raw, k.next, IF Durable THEN sinks ELSE {})
              /\ IF Durable
                 THEN Count(0, -1) /\ Become(w, Advance(k, FALSE))
                 ELSE UNCHANGED counts /\ Become(w, [k EXCEPT !.pc = "emit"])
              /\ StoreWorks
           \/ /\ StoreFails /\ UNCHANGED <<store, counts>>
              /\ Become(w, [k EXCEPT !.pc = "storeerr"])
        /\ UNCHANGED <<inbound, toRecover, up, rp, delivery, config>>

\* Mutant: a child that could not even be quarantined is taken as resolved.
QuarantineAfterForgets(w, phase, why) ==
    LET k == wk[w]
    IN  /\ k.pc = phase
        /\ \/ PersistQuarantine(k.raw, k.next, why) /\ Become(w, Advance(k, FALSE))
           \/ QuarantineFails /\ Become(w, Advance(k, FALSE))
        /\ UNCHANGED <<inbound, toRecover, up, rp, delivery, config>>

\* The quarantine that follows a failed store ("storeerr") or sink ("sinkerr").
QuarantineAfter(w, phase, why) ==
    LET k == wk[w]
    IN  /\ k.pc = phase
        /\ \/ PersistQuarantine(k.raw, k.next, why) /\ Become(w, Advance(k, FALSE))
           \/ QuarantineFails /\ Become(w, Advance(k, TRUE))
        /\ UNCHANGED <<inbound, toRecover, up, rp, delivery, config>>

\* Without named destinations the worker calls the sink itself.
EmitDirect(w) ==
    LET k == wk[w]
    IN  /\ k.pc = "emit"
        /\ \/ Count(0, -1) /\ Become(w, Advance(k, FALSE))
           \/ UNCHANGED counts /\ Become(w, [k EXCEPT !.pc = "undo"])
        /\ UNCHANGED <<store, inbound, toRecover, up, rp, delivery, config, budget>>

\* Mutant: the normalized row of an event the sink refused is kept.
UndoNormalizedKeeps(w) ==
    LET k == wk[w]
    IN  /\ k.pc = "undo"
        /\ Become(w, [k EXCEPT !.pc = "sinkerr"])
        /\ StoreWorks
        /\ UNCHANGED <<store, inbound, toRecover, up, rp, delivery, config, counts>>

\* The sink refused the event: take back its normalized row.
UndoNormalized(w) ==
    LET k == wk[w]
    IN  /\ k.pc = "undo"
        /\ \/ /\ DeleteNormalizedChild(k.raw, k.next)
              /\ Become(w, [k EXCEPT !.pc = "sinkerr"])
              /\ StoreWorks
           \/ StoreFails /\ UNCHANGED store /\ Become(w, Advance(k, TRUE))
        /\ UNCHANGED <<inbound, toRecover, up, rp, delivery, config, counts>>

\* ChildOutcomeCounts and the status derived from it.
DeriveStatus(w) ==
    LET k == wk[w]
    IN  /\ k.pc = "count"
        /\ \/ Become(w, [k EXCEPT !.pc = "setstatus", !.st = OutcomeStatus(k.raw, norm, quar)]) /\ StoreWorks
           \/ Become(w, [k EXCEPT !.pc = "setstatus"]) /\ StoreFails
        /\ UNCHANGED <<store, inbound, toRecover, up, rp, delivery, config, counts>>

\* processRecord ignores the error of its last UpdateStatus.
SetStatus(w) ==
    LET k == wk[w]
    IN  /\ k.pc = "setstatus"
        /\ Become(w, IdleWorker)
        /\ \/ UpdateStatus(k.raw, k.st) /\ StoreWorks
           \/ StoreFails /\ UNCHANGED store
        /\ UNCHANGED <<inbound, toRecover, up, rp, delivery, config, counts>>

ProcessRecord(w) ==
    \/ StoreRecord(w) \/ RetrieveRecord(w)
    \/ DecodeFails(w) \/ ExpandBatch(w) \/ ResumeBatch(w) \/ CaptureSnapshot(w)
    \/ CheckChild(w) \/ RejectChild(w) \/ NormalizeChild(w)
    \/ QuarantineAfter(w, "storeerr", "store_error")
    \/ EmitDirect(w) \/ UndoNormalized(w)
    \/ QuarantineAfter(w, "sinkerr", "sink_error")
    \/ DeriveStatus(w) \/ SetStatus(w)

-----------------------------------------------------------------------------
(* The delivery loop. *)

\* FetchPending: rows whose next_retry_at has passed, at most FetchLimit.
FetchPending ==
    /\ batch = {} /\ sent = NoRow
    /\ \E b \in SUBSET pend :
          /\ b # {} /\ Cardinality(b) <= FetchLimit
          /\ batch' = b
    /\ UNCHANGED <<store, inbound, toRecover, up, wk, rp, sent, received, config, counts, budget>>

\* EmitTo: the destination took the event and its flush returned nil.
EmitTo(row) ==
    /\ row \in batch /\ sent = NoRow
    /\ row[3] \in sinks
    /\ received' = received \cup {row}
    /\ batch' = batch \ {row}
    /\ sent' = row
    /\ UNCHANGED <<store, inbound, toRecover, up, wk, rp, config, counts, budget>>

\* Mutant: a failed EmitTo is marked delivered.
EmitToFailsAsDelivered(row) ==
    /\ row \in batch /\ sent = NoRow
    /\ MarkDelivered(row)
    /\ batch' = batch \ {row}
    /\ UNCHANGED <<received, inbound, toRecover, up, wk, rp, sent, config, counts, budget>>

\* The destination is not active, or it failed before or after it took the event.
EmitToFails(row) ==
    /\ row \in batch /\ sent = NoRow
    /\ MarkFailed(row)
    /\ \/ UNCHANGED received
       \/ row[3] \in sinks /\ received' = received \cup {row}
    /\ batch' = batch \ {row}
    /\ UNCHANGED <<inbound, toRecover, up, wk, rp, sent, config, counts, budget>>

AckDelivery ==
    /\ sent # NoRow
    /\ \/ MarkDelivered(sent) /\ StoreWorks
       \/ UNCHANGED store /\ StoreFails
    /\ sent' = NoRow
    /\ UNCHANGED <<inbound, toRecover, up, wk, rp, batch, received, config, counts>>

-----------------------------------------------------------------------------
(* Replay of a quarantined child, from the API. *)

\* Everything Replay does before its transaction; a replay that would fail
\* here changes nothing.
ReplayStart(p, q) ==
    /\ up = "running"
    /\ rp[p].pc = "idle"
    /\ q \in quar /\ ReplayEligible(q)
    /\ rawIn[q[1]] \notin Broken
    /\ q[2] < Kids[rawIn[q[1]]]
    /\ active # NoPacks
    /\ Verdict(active, rawIn[q[1]], q[2]) = "ok"
    /\ rp' = [rp EXCEPT ![p] = [pc |-> "commit", q |-> q]]
    /\ UNCHANGED <<store, inbound, toRecover, up, wk, delivery, config, counts, budget>>

ReplayCommit(p) ==
    /\ rp[p].pc = "commit"
    /\ \/ ResolveQuarantineWithOutbox(rp[p].q, IF Durable THEN sinks ELSE {}) /\ StoreWorks
       \/ rp[p].q \notin quar /\ UNCHANGED store /\ StoreWorks
       \/ StoreFails /\ UNCHANGED store
    /\ rp' = [rp EXCEPT ![p] = IdleReplay]
    /\ UNCHANGED <<inbound, toRecover, up, wk, delivery, config, counts>>

-----------------------------------------------------------------------------
(* Configuration, crash and startup. *)

\* An applied connection change: the live sink snapshot follows the saved one.
Reconfigure(S) ==
    /\ up = "running"
    /\ StaticSinks \subseteq S /\ S # configured
    /\ configured' = S /\ sinks' = S
    /\ UNCHANGED <<store, inbound, toRecover, up, wk, rp, delivery, active, counts, budget>>

\* Without a pack manager the API refuses to activate a pack.
ActivatePack(s) ==
    /\ up = "running"
    /\ active # NoPacks /\ s \notin {NoPacks, active}
    /\ active' = s
    /\ UNCHANGED <<store, inbound, toRecover, up, wk, rp, delivery, sinks, configured, counts, budget>>

\* Mutant: Start does not list the accepted rows.
CrashForgets ==
    /\ crashes < MaxCrashes /\ crashes' = crashes + 1
    /\ inbound' = <<>> /\ up' = "starting" /\ toRecover' = {}
    /\ wk' = [w \in Worker |-> IdleWorker]
    /\ rp' = [p \in Replayer |-> IdleReplay]
    /\ batch' = {} /\ sent' = NoRow
    /\ sinks' = StaticSinks
    /\ active' \in Snapshot
    /\ pending' = Cardinality(RawByStatus("accepted"))
    /\ accepted' = Cardinality(norm) + Cardinality(quar) + pending'
    /\ UNCHANGED <<store, configured, received, submits, faults>>

\* The process stops at any point (or is stopped at rest) and is started
\* again: New takes the counters from the tables, the sink snapshot holds the
\* command-line sinks, the packs are what the packs directory now holds.
\* Start recovers nothing when it cannot list the accepted rows.
Crash ==
    /\ crashes < MaxCrashes /\ crashes' = crashes + 1
    /\ inbound' = <<>> /\ up' = "starting"
    /\ \/ toRecover' = RawByStatus("accepted") /\ faults' = faults
       \/ toRecover' = {} /\ faults < MaxFaults /\ faults' = faults + 1
    /\ wk' = [w \in Worker |-> IdleWorker]
    /\ rp' = [p \in Replayer |-> IdleReplay]
    /\ batch' = {} /\ sent' = NoRow
    /\ sinks' = StaticSinks
    /\ active' \in Snapshot
    /\ pending' = Cardinality(RawByStatus("accepted"))
    /\ accepted' = Cardinality(norm) + Cardinality(quar) + pending'
    /\ UNCHANGED <<store, configured, received, submits>>

\* Start enqueues the accepted rows in order, blocking while the queue is full.
Recover(r) ==
    /\ r \in toRecover /\ \A s \in toRecover : r <= s
    /\ Len(inbound) < QueueCap
    /\ inbound' = Append(inbound, [raw |-> r, in |-> NoInput])
    /\ toRecover' = toRecover \ {r}
    /\ UNCHANGED <<store, up, wk, rp, delivery, config, counts, budget>>

\* main reconciles the configured sinks after Start has returned, then lets
\* the adapters and the API in.
FinishStartup ==
    /\ up = "starting" /\ toRecover = {}
    /\ up' = "running" /\ sinks' = configured
    /\ UNCHANGED <<store, inbound, toRecover, wk, rp, delivery, configured, active, counts, budget>>

\* The outcomes a raw record owes: its children, or the record itself when it
\* cannot be decoded.
Children(i) == IF i \in Broken THEN {0} ELSE 0 .. (Kids[i] - 1)

\* The delivery rows that can come to exist.
Deliverable == RawId \X (UNION {Children(i) : i \in Input}) \X Dest

Next ==
    \/ \E i \in Input : Submit(i)
    \/ \E w \in Worker : Take(w) \/ ProcessRecord(w)
    \/ FetchPending \/ AckDelivery
    \/ \E row \in batch : EmitTo(row) \/ EmitToFails(row)
    \/ \E p \in Replayer : ReplayCommit(p) \/ \E q \in quar : ReplayStart(p, q)
    \/ \E S \in SUBSET Dest : Reconfigure(S)
    \/ \E s \in Snapshot : ActivatePack(s)
    \/ Crash \/ FinishStartup
    \/ \E r \in toRecover : Recover(r)

Spec == Init /\ [][Next]_vars

\* What the Go scheduler gives: a runnable worker, the delivery goroutine and
\* the starting main goroutine eventually take their next step.  Nothing is
\* assumed of the environment (submissions, replays, crashes, faults).
Scheduling ==
    /\ \A w \in Worker : WF_vars(Take(w) \/ ProcessRecord(w))
    /\ WF_vars(FinishStartup \/ \E r \in toRecover : Recover(r))
    /\ WF_vars(AckDelivery)

FairSpec == Spec /\ Scheduling

\* Delivery: each due row is fetched and tried again and again (the backoff is
\* at most 64 s), and a destination that stays active takes a row it is
\* offered over and over.
DeliverySpec ==
    /\ FairSpec
    /\ \A row \in Deliverable : SF_vars(FetchPending /\ row \in batch')
    /\ \A row \in Deliverable : WF_vars(EmitTo(row) \/ EmitToFails(row))
    /\ \A row \in Deliverable : SF_vars(EmitTo(row))

-----------------------------------------------------------------------------
(* Properties. *)

Complete(r) == \A c \in Children(rawIn[r]) : HasCompletedChild(r, c)

\* Nothing queued, recovered, processed or replayed: the counters are at rest.
Quiescent ==
    /\ inbound = <<>> /\ toRecover = {}
    /\ \A w \in Worker : wk[w].pc = "idle"
    /\ \A p \in Replayer : rp[p].pc = "idle"

TypeOK ==
    /\ StoreTypeOK
    /\ inbound \in Seq(Record)
    /\ toRecover \subseteq RawId
    /\ up \in {"starting", "running"}
    /\ wk \in [Worker -> WorkerState]
    /\ rp \in [Replayer -> [pc : {"idle", "commit"}, q : (RawId \X Nat \X Why) \cup {NoRow}]]
    /\ batch \subseteq Outbox
    /\ sent \in Outbox \cup {NoRow}
    /\ sinks \subseteq Dest /\ configured \subseteq Dest
    /\ active \in Snapshot
    /\ accepted \in Int /\ pending \in Int
    /\ received \subseteq Outbox
    /\ submits \in 0 .. MaxSubmits /\ faults \in 0 .. MaxFaults /\ crashes \in 0 .. MaxCrashes

\* A raw record whose status is final (normalized, quarantined or partial) is
\* never looked at again by Start, so each of its children must already have
\* a normalized or a quarantine row: otherwise the child is silently lost.
NoSilentLoss == \A r \in RawId : rawStatus[r] \in Final => Complete(r)

\* The same when nothing is in flight: what is missing now is missing for good.
NothingLostAtRest == Quiescent => NoSilentLoss

\* VerifyInvariant at rest: accepted = normalized + quarantined + pending.
AccountingBalanced ==
    Quiescent => accepted = Cardinality(norm) + Cardinality(quar) + pending

\* At rest the pending counter is not negative, and it counts something only
\* while a raw row is still accepted and so will be recovered.
NoPhantomPending ==
    Quiescent => pending >= 0 /\ (pending > 0 => RawByStatus("accepted") # {})

\* At rest a final status tells what became of the children: normalized when
\* none is quarantined, quarantined when all are, partial otherwise.
StatusMatchesOutcomes ==
    Quiescent => \A r \in RawId : rawStatus[r] \in Final =>
        /\ rawStatus[r] = "normalized" <=> RowsOf(quar, r) = {}
        /\ rawStatus[r] = "partial" <=> RowsOf(quar, r) # {} /\ RowsOf(norm, r) # {}

\* A child is normalized, or quarantined for one reason, never both.
OneOutcomePerChild ==
    \A x, y \in quar : /\ <<x[1], x[2]>> \notin norm
                       /\ x[1] = y[1] /\ x[2] = y[2] => x = y

\* An outbox row is marked delivered only after its destination took the event.
NoFalseDelivery == deliv \subseteq received

\* No step (recovery, replay, a second worker on the same row, a crash) takes
\* back the outcome of a child: its row stays, or a replay turns quarantine
\* into normalized.
OutcomeStable ==
    [][\A r \in RawId : rawStatus[r] # "absent" => \A c \in Children(rawIn[r]) :
          /\ HasCompletedChild(r, c) => HasCompletedChild(r, c)'
          /\ <<r, c>> \in norm => (<<r, c>> \in norm)']_vars

\* A delivered row is never reopened: normalizing the child again leaves it.
DeliveredIsFinal == [][deliv \subseteq deliv']_vars

\* Each event normalized now gets a delivery row for each destination of the
\* saved sink configuration.
EveryDestinationGetsARow ==
    [][\A x \in norm' \ norm : \A d \in configured :
          <<x[1], x[2], d>> \in (pend \cup deliv)']_vars

\* Each committed raw record reaches a final status, whatever the crashes and
\* however long the recovery backlog, unless a store call failed.
EventuallySettled ==
    \A r \in RawId : rawStatus[r] = "accepted" ~> (rawStatus[r] \in Final \/ faults > 0)

\* A pending delivery row whose destination stays active is delivered.
EventuallyDelivered ==
    \A row \in Deliverable :
        <>[](row[3] \in sinks) => (row \in pend ~> row \in deliv)

=============================================================================
