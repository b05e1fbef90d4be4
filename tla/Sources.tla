------------------------------ MODULE Sources -------------------------------
(***************************************************************************)
(* The way of a record from an ingest adapter to the raw store, and what   *)
(* the adapter does with the acknowledgement: internal/ingest/file.go,     *)
(* poller.go, kafka.go, http.go, syslog.go, syslog_tls.go, the hand-over   *)
(* in pipeline.go (ConnectIngest, SubmitWait, Stop) and the shutdown of    *)
(* cmd/worm/main.go.                                                       *)
(*                                                                         *)
(* Sources do not interact except through the queues, so a behaviour has   *)
(* one, of a kind chosen at the start:                                     *)
(*   "file"   the spool: inbox/, processing/, processed/, failed/          *)
(*   "poll"   the cloud poller: records after a watermark kept in a file   *)
(*   "kafka"  a consumer whose offset is committed at the broker           *)
(*   "http"   POST of NDJSON lines; the reply says how many are accepted   *)
(*   "udp", "tcp"  syslog: a record is handed over and forgotten           *)
(*   "tls"    syslog: the next frame waits for an acknowledgement that is  *)
(*            not looked at (one connection)                               *)
(* Records of a kind other than "file" are numbered in the order of the    *)
(* source, <<None, n>>.  A record of the spool is <<file, line>>.          *)
(***************************************************************************)
EXTENDS Integers, FiniteSets, Sequences, SequencesExt

CONSTANTS
    Kinds,        \* the kinds of source a behaviour may have
    MaxRecord,    \* records the source has
    BatchSize,    \* records per poll or request
    File,         \* contents dropped into the inbox
    NameOf,       \* [File -> name in the spool directories]
    Lines,        \* records per file
    None,         \* no file
    OutCap,       \* capacity of the Manager's channel
    InCap,        \* capacity of the pipeline's queue
    MaxFaults,    \* bound on failing store calls, commits and file operations
    MaxCancels,   \* bound on reconfigurations (the adapter is cancelled and started again)
    MaxRestarts   \* bound on crashes and shutdowns

Name == {NameOf[f] : f \in File}
Place == {"inbox", "processing", "processed", "failed"}
Item == ({None} \X (1 .. MaxRecord)) \cup (File \X (1 .. Lines))

ASSUME SourcesAssumption ==
    /\ Kinds \subseteq {"file", "poll", "kafka", "http", "udp", "tcp", "tls"}
    /\ MaxRecord \in Nat /\ Lines \in Nat \ {0} /\ BatchSize \in Nat \ {0}
    /\ None \notin File
    /\ OutCap \in Nat \ {0} /\ InCap \in Nat \ {0}
    /\ MaxFaults \in Nat /\ MaxCancels \in Nat /\ MaxRestarts \in Nat

VARIABLES
    kind,      \* the kind of this behaviour's source
    pc,        \* the adapter: "down", "idle", "send", "wait", "save", "dead"
    ctx,       \* the adapter's context is live
    todo,      \* records of the current batch or file that are not acknowledged
    ack,       \* the acknowledgement of the record being waited for
    mem,       \* the position in memory
    saved,     \* the checkpoint outside: watermark file, broker offset, reply
    dir,       \* [place -> [name -> file]]: the spool
    scan,      \* the directory listing being worked through: [of, names]
    dropped,   \* files the producer has put into the inbox
    main,      \* the process: "run", "cancelled", "closed", "draining", "exited"
    out,       \* the Manager's channel
    hand,      \* ConnectIngest's record, on its way into the queue
    inbound,   \* the pipeline's queue and the workers' hands
    store,     \* records committed to raw_events
    faults, cancels, restarts

spool == <<dir, scan, dropped>>
path == <<out, hand, inbound>>
bounds == <<faults, cancels, restarts>>
vars == <<kind, pc, ctx, todo, ack, mem, saved, spool, main, path, store, bounds>>

\* A record in flight: mine while the adapter waits for its acknowledgement.
Flight == [item : Item, mine : BOOLEAN]

NoScan == [of |-> "inbox", names |-> {}]

Init ==
    /\ kind \in Kinds
    /\ pc = "down" /\ ctx = TRUE
    /\ todo = <<>> /\ ack = "none"
    /\ mem = 0 /\ saved = 0
    /\ dir = [p \in Place |-> [n \in Name |-> None]]
    /\ scan = NoScan /\ dropped = {}
    /\ main = "run"
    /\ out = <<>> /\ hand = <<>> /\ inbound = <<>>
    /\ store = {}
    /\ faults = 0 /\ cancels = 0 /\ restarts = 0

Fault == faults < MaxFaults /\ faults' = faults + 1 /\ UNCHANGED <<cancels, restarts>>

-----------------------------------------------------------------------------
(* The common path: adapter -> out -> ConnectIngest -> inbound -> store.   *)

Forgetful == {"udp", "tcp"}
Syslog == Forgetful \cup {"tls"}

\* select { out <- rec, <-ctx.Done() }, the first case.
Send ==
    /\ pc = "send" /\ Len(out) < OutCap /\ main \in {"run", "cancelled"}
    /\ out' = Append(out, [item |-> Head(todo), mine |-> kind \notin Forgetful])
    /\ IF kind \in Forgetful THEN pc' = "idle" /\ todo' = <<>> ELSE pc' = "wait" /\ UNCHANGED todo
    /\ UNCHANGED <<kind, ctx, ack, mem, saved, spool, main, hand, inbound, store, bounds>>

\* ConnectIngest receives, unless it has left on the cancelled context.
Connect ==
    /\ out # <<>> /\ hand = <<>>
    /\ hand' = <<Head(out)>> /\ out' = Tail(out)
    /\ UNCHANGED <<kind, pc, ctx, todo, ack, mem, saved, spool, main, inbound, store, bounds>>

\* SubmitWait puts the record into the queue, while beginSubmit lets it in.
SubmitWait ==
    /\ hand # <<>> /\ Len(inbound) < InCap /\ main # "draining" /\ main # "exited"
    /\ inbound' = inbound \o hand /\ hand' = <<>>
    /\ UNCHANGED <<kind, pc, ctx, todo, ack, mem, saved, spool, main, out, store, bounds>>

\* SubmitWait returns an error: the context is cancelled or the pipeline is
\* closed.  The record is dropped and nobody is told.
DropRecord ==
    /\ hand # <<>> /\ main # "run"
    /\ hand' = <<>>
    /\ UNCHANGED <<kind, pc, ctx, todo, ack, mem, saved, spool, main, out, inbound, store, bounds>>

Acknowledge(r, result) == ack' = IF r.mine /\ pc = "wait" THEN result ELSE ack

\* A worker commits the raw record and sends the acknowledgement.
Commit ==
    /\ inbound # <<>>
    /\ inbound' = Tail(inbound)
    /\ store' = store \cup {Head(inbound).item}
    /\ Acknowledge(Head(inbound), "ok")
    /\ UNCHANGED <<kind, pc, ctx, todo, mem, saved, spool, main, out, hand, bounds>>

CommitFails ==
    /\ inbound # <<>> /\ Fault
    /\ inbound' = Tail(inbound)
    /\ Acknowledge(Head(inbound), "error")
    /\ UNCHANGED <<kind, pc, ctx, todo, mem, saved, spool, main, out, hand, store>>

\* The acknowledgement channel of a record given up is garbage.
Forget(q) == [i \in DOMAIN q |-> [q[i] EXCEPT !.mine = FALSE]]

\* Mutant: the records of a cancelled adapter are taken out of the queue too.
GiveUpDrains == out' = <<>> /\ hand' = Forget(hand) /\ inbound' = <<>> /\ ack' = "none"

GiveUp == out' = Forget(out) /\ hand' = Forget(hand) /\ inbound' = Forget(inbound) /\ ack' = "none"

-----------------------------------------------------------------------------
(* Numbered sources. *)

Between(i, j) == [k \in 1 .. j - i |-> <<None, i + k>>]

\* The position after at most n records from i on.
Until(i, n) == IF i + n > MaxRecord THEN MaxRecord ELSE i + n

\* A batch of at most n records of a source of kind k, after the position from.
Take(k, from, n) ==
    /\ pc = "idle" /\ kind = k /\ ctx
    /\ Until(from, n) > from
    /\ todo' = Between(from, Until(from, n))
    /\ pc' = "send"
    /\ UNCHANGED <<kind, ctx, ack, saved, spool, main, path, store, bounds>>

\* The records after the watermark.  A request that fails is one that has not
\* begun: the next tick tries again.
PollOnce == Take("poll", mem, BatchSize) /\ UNCHANGED mem

\* The records after the consumer's position.
KafkaPoll == Take("kafka", mem, BatchSize) /\ mem' = Until(mem, BatchSize)

\* A client sends the lines after those it was told are accepted.
Request == Take("http", saved, BatchSize) /\ mem' = saved

\* One datagram, or one frame of the connection.
ReceiveUDP == Take("udp", mem, 1) /\ mem' = mem + 1
ReceiveTCP == Take("tcp", mem, 1) /\ mem' = mem + 1
ReceiveTLS == Take("tls", mem, 1) /\ mem' = mem + 1

Rest == Tail(todo)

\* A record of kind k is acknowledged: the next one, or the end of the batch.
RecordAcked(k, end) ==
    /\ pc = "wait" /\ ack = "ok" /\ kind = k
    /\ ack' = "none" /\ todo' = Rest
    /\ pc' = IF Rest # <<>> THEN "send" ELSE end
    /\ UNCHANGED <<kind, ctx, spool, main, path, store>>

PollAcked == RecordAcked("poll", "save") /\ UNCHANGED <<mem, saved, bounds>>

\* The offset of the record is committed at the broker; when that fails the
\* adapter ends with the error.
CommitOffset ==
    \/ RecordAcked("kafka", "idle") /\ saved' = Head(todo)[2] /\ UNCHANGED <<mem, bounds>>
    \/ /\ pc = "wait" /\ ack = "ok" /\ kind = "kafka" /\ Fault
       /\ ack' = "none" /\ todo' = Rest /\ pc' = "dead"
       /\ UNCHANGED <<kind, ctx, mem, saved, spool, main, path, store>>

LineAccepted == RecordAcked("http", "save") /\ mem' = Head(todo)[2] /\ UNCHANGED <<saved, bounds>>

\* Mutant: the reply counts the record that was not acknowledged.
AcceptedTooMany == mem + 1

\* The number of lines a reply, 200 or 503, says are accepted.
Accepted == mem

RecordRefused(k, next) ==
    /\ pc = "wait" /\ ack = "error" /\ kind = k
    /\ ack' = "none" /\ todo' = <<>> /\ pc' = next
    /\ UNCHANGED <<kind, ctx, mem, spool, main, path, store, bounds>>

\* A negative acknowledgement: the poller tries the batch again on the next
\* tick, the Kafka adapter ends with an error, the HTTP handler replies 503.
PollRefused == RecordRefused("poll", "idle") /\ UNCHANGED saved
KafkaRefused == RecordRefused("kafka", "dead") /\ UNCHANGED saved
LineRejected == RecordRefused("http", "idle") /\ saved' = Accepted

\* The TLS listener reads its next frame after any acknowledgement.
FrameAnswered ==
    /\ pc = "wait" /\ ack # "none" /\ kind = "tls"
    /\ ack' = "none" /\ todo' = <<>> /\ pc' = "idle"
    /\ UNCHANGED <<kind, ctx, mem, saved, spool, main, path, store, bounds>>

\* 15 s without an acknowledgement, or the client has gone (no reply reaches
\* it); the record may still be committed.
AckTimeout ==
    /\ pc \in {"send", "wait"} /\ kind = "http"
    /\ GiveUp
    /\ pc' = "idle" /\ todo' = <<>>
    /\ \/ pc = "wait" /\ saved' = Accepted
       \/ UNCHANGED saved
    /\ UNCHANGED <<kind, ctx, mem, spool, main, store, bounds>>

\* next_watermark of the batch just committed.
BatchEnd == Until(mem, BatchSize)

\* In memory first, then in place on disk, where a failed write may have
\* truncated the file.
SaveWatermark ==
    /\ pc = "save" /\ kind = "poll"
    /\ pc' = "idle" /\ mem' = BatchEnd
    /\ \/ saved' = BatchEnd /\ UNCHANGED bounds
       \/ Fault /\ saved' \in {saved, 0}
    /\ UNCHANGED <<kind, ctx, todo, ack, spool, main, path, store>>

\* 200: every line of the request is accepted.
Reply ==
    /\ pc = "save" /\ kind = "http"
    /\ pc' = "idle" /\ saved' = Accepted
    /\ UNCHANGED <<kind, ctx, todo, ack, mem, spool, main, path, store, bounds>>

-----------------------------------------------------------------------------
(* The file spool. *)

Named(p) == {n \in Name : dir[p][n] # None}

\* The producer moves a finished file into the inbox.
Drop(f) ==
    /\ kind = "file" /\ f \notin dropped /\ dir["inbox"][NameOf[f]] = None
    /\ dropped' = dropped \cup {f}
    /\ dir' = [dir EXCEPT !["inbox"][NameOf[f]] = f]
    /\ UNCHANGED <<kind, pc, ctx, todo, ack, mem, saved, scan, main, path, store, bounds>>

\* The ticker, also when the context is done too: select picks either.
ScanInbox ==
    /\ kind = "file" /\ pc = "idle" /\ scan.names = {}
    /\ Named("inbox") # {}
    /\ scan' = [of |-> "inbox", names |-> Named("inbox")]
    /\ UNCHANGED <<kind, pc, ctx, todo, ack, mem, saved, dir, dropped, main, path, store, bounds>>

Content(f) == [l \in 1 .. Lines |-> <<f, l>>]

\* The next file of the listing; one from the inbox is renamed into processing/
\* first, over whatever is there.
TakeFile(n) ==
    /\ pc = "idle" /\ n \in scan.names
    /\ LET f == dir[scan.of][n]
       IN /\ dir' = IF scan.of = "inbox"
                    THEN [dir EXCEPT !["inbox"][n] = None, !["processing"][n] = f]
                    ELSE dir
          /\ todo' = Content(f)
    /\ pc' = "send"
    /\ UNCHANGED <<kind, ctx, ack, mem, saved, scan, dropped, main, path, store, bounds>>

\* The file IngestFile is reading.
Reading == Head(todo)[1]

Move(f, to) == [dir EXCEPT !["processing"][NameOf[f]] = None, ![to][NameOf[f]] = f]

\* Back in the loop over the listing; scanProcessing stops on a done context,
\* and Start goes on to scanInbox either way.
NextFile(f) ==
    LET left == scan.names \ {NameOf[f]}
    IN scan' = IF scan.of = "inbox" THEN [scan EXCEPT !.names = left]
               ELSE IF left = {} \/ ~ctx THEN [of |-> "inbox", names |-> Named("inbox")]
               ELSE [scan EXCEPT !.names = left]

LineAcked ==
    /\ pc = "wait" /\ ack = "ok" /\ kind = "file"
    /\ ack' = "none" /\ todo' = Rest
    /\ IF Rest # <<>> THEN pc' = "send" /\ UNCHANGED <<dir, scan, bounds>>
       ELSE /\ pc' = "idle" /\ NextFile(Reading)
            /\ \/ dir' = Move(Reading, "processed") /\ UNCHANGED bounds
               \/ Fault /\ UNCHANGED dir
    /\ UNCHANGED <<kind, ctx, mem, saved, dropped, main, path, store>>

\* The store refused a line: the file is moved to failed/.
LineRefused ==
    /\ pc = "wait" /\ ack = "error" /\ kind = "file"
    /\ ack' = "none" /\ todo' = <<>> /\ pc' = "idle"
    /\ NextFile(Reading)
    /\ dir' = IF ctx THEN Move(Reading, "failed") ELSE dir
    /\ UNCHANGED <<kind, ctx, mem, saved, dropped, main, path, store, bounds>>

\* A line cannot be read or is too long: the same, with some lines committed.
ReadFails ==
    /\ pc = "send" /\ kind = "file" /\ Fault
    /\ todo' = <<>> /\ pc' = "idle"
    /\ NextFile(Reading)
    /\ dir' = IF ctx THEN Move(Reading, "failed") ELSE dir
    /\ UNCHANGED <<kind, ctx, ack, mem, saved, dropped, main, path, store>>

\* Mutant: an interrupted file counts as done.
InterruptedDone(f) == Move(f, "processed")

\* processFile leaves an interrupted file in processing/.
Interrupted(f) == dir

-----------------------------------------------------------------------------
(* Start, cancellation, shutdown and crash. *)

\* Mutant: what a former process left in processing/ is not looked at.
ResumedNone == {}

\* The files scanProcessing finds.
Resumed == Named("processing")

\* Start of the adapter: the poller loads its watermark, a consumer begins at
\* the committed offset, the watcher resumes what is left in processing/.
Start ==
    /\ pc = "down" /\ main = "run"
    /\ pc' = "idle" /\ ctx' = TRUE
    /\ mem' = IF kind \in Syslog THEN mem ELSE saved
    /\ scan' = [of |-> IF Resumed = {} THEN "inbox" ELSE "processing",
                names |-> IF Resumed = {} THEN Named("inbox") ELSE Resumed]
    /\ UNCHANGED <<kind, todo, ack, saved, dir, dropped, main, path, store, bounds>>

\* Reconcile cancels the adapters.
Cancel ==
    /\ pc # "down" /\ ctx /\ main = "run" /\ cancels < MaxCancels
    /\ ctx' = FALSE /\ cancels' = cancels + 1
    /\ UNCHANGED <<kind, pc, todo, ack, mem, saved, spool, main, path, store, faults, restarts>>

\* Mutant: the wait for an acknowledgement does not look at the context.
InterruptibleSend == {"send"}

\* Where an adapter's select has the case <-ctx.Done().
Interruptible == {"send", "wait"}

\* The adapter notices: between two records, or while it sends or waits.  The
\* watcher returns to its loop over the listing first.
Interrupt ==
    /\ ~ctx /\ pc \in Interruptible
    /\ GiveUp
    /\ todo' = <<>>
    /\ IF kind = "file"
       THEN pc' = "idle" /\ dir' = Interrupted(Reading) /\ NextFile(Reading)
       ELSE pc' = "down" /\ UNCHANGED <<dir, scan>>
    /\ saved' = IF kind = "http" THEN Accepted ELSE saved
    /\ UNCHANGED <<kind, ctx, mem, dropped, main, store, bounds>>

Leave ==
    /\ ~ctx /\ pc \in {"idle", "dead"} /\ scan.names = {}
    /\ pc' = "down"
    /\ UNCHANGED <<kind, ctx, todo, ack, mem, saved, spool, main, path, store, bounds>>

\* cancel(), mgr.Stop() (which waits for the adapters and closes its channel),
\* p.Stop() (no submission any more, then the queue drains).
Shutdown ==
    /\ \/ main = "run" /\ restarts < MaxRestarts /\ main' = "cancelled" /\ ctx' = FALSE
       \/ main = "cancelled" /\ pc = "down" /\ main' = "closed" /\ UNCHANGED ctx
       \/ main = "closed" /\ hand = <<>> /\ main' = "draining" /\ UNCHANGED ctx
       \/ main = "draining" /\ inbound = <<>> /\ main' = "exited" /\ UNCHANGED ctx
    /\ UNCHANGED <<kind, pc, todo, ack, mem, saved, spool, path, store, bounds>>

\* A new process, after a shutdown or a crash.
Restart ==
    /\ restarts < MaxRestarts
    /\ restarts' = restarts + 1
    /\ main' = "run" /\ pc' = "down" /\ ctx' = TRUE
    /\ todo' = <<>> /\ ack' = "none" /\ scan' = NoScan
    /\ out' = <<>> /\ hand' = <<>> /\ inbound' = <<>>
    /\ \/ UNCHANGED saved
       \/ pc = "save" /\ kind = "poll" /\ saved' = 0
    /\ UNCHANGED <<kind, mem, dir, dropped, store, faults, cancels>>

-----------------------------------------------------------------------------
Adapter ==
    \/ Start \/ Send \/ Interrupt \/ Leave
    \/ PollOnce \/ PollAcked \/ PollRefused \/ SaveWatermark
    \/ KafkaPoll \/ CommitOffset \/ KafkaRefused
    \/ Request \/ LineAccepted \/ LineRejected \/ Reply
    \/ ReceiveUDP \/ ReceiveTCP \/ ReceiveTLS \/ FrameAnswered
    \/ ScanInbox \/ LineAcked \/ LineRefused \/ (\E n \in Name : TakeFile(n))

Workers == Connect \/ SubmitWait \/ Commit

Next ==
    \/ Adapter \/ Workers
    \/ CommitFails \/ DropRecord \/ AckTimeout \/ ReadFails
    \/ \E f \in File : Drop(f)
    \/ Cancel \/ Shutdown \/ Restart

\* Goroutines that can go on do, and a shutdown that has begun is carried out.
Spec ==
    /\ Init /\ [][Next]_vars
    /\ WF_vars(Adapter) /\ WF_vars(Connect) /\ WF_vars(SubmitWait) /\ WF_vars(Commit)
    /\ WF_vars(main # "run" /\ Shutdown) /\ WF_vars(DropRecord /\ main \notin {"run", "cancelled"})

-----------------------------------------------------------------------------
(* Properties. *)

FirstRecords(n) == {None} \X (1 .. n)

\* A checkpoint never runs ahead of the raw store: every record below the saved
\* watermark, the committed Kafka offset or the count an HTTP client was told is
\* in raw_events, after late acknowledgements, timeouts, cancelled adapters,
\* failed commits, crashes and a graceful shutdown that drops queued records.
CheckpointCovered == FirstRecords(saved) \subseteq store

AllIn(f) == \A l \in 1 .. Lines : <<f, l>> \in store

\* A spooled file is in processed/ only when all its lines are committed, and a
\* file with an uncommitted line is still in the inbox, in processing/ or in
\* failed/ (file names being distinct).
SpoolKeepsFiles ==
    /\ \A n \in Name : dir["processed"][n] # None => AllIn(dir["processed"][n])
    /\ \A f \in dropped : AllIn(f) \/ \E p \in Place \ {"processed"} : dir[p][NameOf[f]] = f

InFlight == {r.item : r \in Range(out \o hand \o inbound)} \cup (IF pc = "send" THEN Range(todo) ELSE {})

\* A reconfiguration costs a syslog listener at most the one record it was
\* handing over: what is in the queues survives the adapter that put it there, as
\* long as the process runs and the store takes it (nobody is told of a loss).
PushLosesAtMostOne ==
    kind \in Syslog /\ main = "run" /\ faults = 0 /\ restarts = 0
        => Cardinality(FirstRecords(mem) \ (store \cup InFlight)) <= cancels

\* A shutdown that has begun comes to an end: no adapter, submission or worker
\* waits for another for ever (or the process dies first).
ShutdownCompletes == main = "cancelled" ~> main \in {"exited", "run"}

\* Every record of a source that keeps its records is committed in the end, if
\* the process stays up and the Kafka adapter has not ended with an error; a
\* spooled file may end in failed/ instead.
SourceDrains ==
    /\ kind \in {"poll", "kafka"} /\ <>[](main = "run" /\ pc # "dead") => <>(FirstRecords(MaxRecord) \subseteq store)
    /\ \A f \in File : <>[](main = "run" /\ f \in dropped) => <>(AllIn(f) \/ dir["failed"][NameOf[f]] = f)

=============================================================================
