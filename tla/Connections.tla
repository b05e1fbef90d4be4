---------------------------- MODULE Connections -----------------------------
(***************************************************************************)
(* Connections: the manifests on disk and in memory                        *)
(* (internal/connections/manager.go), the runtime built from them          *)
(* (runtime.go), their API handlers and the part of cmd/worm/main.go that  *)
(* loads them, starts and stops.  The runtime's adapters are those of      *)
(* IngestManager.                                                          *)
(*                                                                         *)
(* A manifest is a member of Manifest; what matters of it is its name, the *)
(* kind (source or sink), and whether it compiles and its source starts.   *)
(* ApplyFile and Rollback hold the manager's mutex to the end, so one call *)
(* is going on at a time.                                                  *)
(***************************************************************************)
EXTENDS IngestManager

CONSTANTS
    Sink,          \* manifests of kind Sink; the manifests of kind Source are Dynamic
    NameOf,        \* [Manifest -> metadata.name]
    Uncompilable,  \* manifests that Compile or validateAdapters refuses (a missing
                   \* secret or certificate, an adapter with the name of another)
    Unstartable,   \* sources whose Start ends with an error (address in use, a
                   \* consumer that may not commit)
    FileName,      \* file names in the sources and the sinks directory
    None, Garbage, \* no file; a file that does not parse
    MaxCalls,      \* bound on apply and rollback calls
    MaxFaults,     \* bound on failing writes and removals
    MaxCrashes     \* bound on crashes

Manifest == Dynamic \cup Sink
KindOf(m) == IF m \in Sink THEN "Sink" ELSE "Source"
Path == {"Source", "Sink"} \X FileName

ASSUME ConnectionsAssumption ==
    /\ Dynamic \cap Sink = {}
    /\ Uncompilable \subseteq Manifest /\ Unstartable \subseteq Dynamic
    /\ None \notin Manifest /\ Garbage \notin Manifest /\ None # Garbage
    /\ MaxCalls \in Nat /\ MaxFaults \in Nat /\ MaxCrashes \in Nat

VARIABLES
    disk,      \* [Path -> manifest, Garbage or None]
    conns,     \* connections and filePaths: set of <<manifest, path>>
    previous,  \* previousState and previousPaths, or None
    undo,      \* addedFile or backupFile: [path, old], old = None for a new file
    sinks,     \* connection sinks in the DynamicSink
    op,        \* the call: [by, stage]
    main,      \* "down", "up", "stopping", "exited", "fatal"
    suspect,   \* why files and runtime may disagree: "write", "undo", "late"
    calls, faults, crashes

connVars == <<disk, conns, previous, undo, sinks, op, main, suspect>>
bounds == <<calls, faults, crashes>>
vars == <<ingestVars, connVars, bounds>>

NoUndo == [path |-> CHOOSE p \in Path : TRUE, old |-> None]
NoOp == [by |-> "nobody", stage |-> "idle"]

Init ==
    /\ IngestInit
    /\ disk = [p \in Path |-> None]
    /\ conns = {} /\ previous = None
    /\ undo = NoUndo
    /\ sinks = {}
    /\ op = NoOp /\ main = "down" /\ suspect = {}
    /\ calls = 0 /\ faults = 0 /\ crashes = 0

-----------------------------------------------------------------------------
(* Files. *)

OnDisk == {<<disk[p], p>> : p \in {q \in Path : disk[q] # None}}

\* Mutant: the backup of the file that is replaced is forgotten.
RestoredForgets == disk

\* A new file is removed, a replaced one is written again, in place.
Restored == [disk EXCEPT ![undo.path] = undo.old]

\* Errors of the removal or of the write are ignored; a write may leave half a file.
UndoFile ==
    \/ disk' = Restored /\ UNCHANGED <<suspect, faults>>
    \/ /\ faults < MaxFaults /\ faults' = faults + 1
       /\ suspect' = suspect \cup {"write"}
       /\ \/ UNCHANGED disk
          \/ undo.old # None /\ disk' = [disk EXCEPT ![undo.path] = Garbage]

-----------------------------------------------------------------------------
(* Runtime.Reconcile. *)

Sources(c) == {x[1] : x \in c} \cap Dynamic
Sinks(c) == {x[1] : x \in c} \cap Sink

\* CompileSource and CompileSink of every manifest, and validateAdapters.
Compiles(c) == \A x \in c : x[1] \notin Uncompilable

\* The callback failed: the caller's error path.
Failed ==
    /\ op' = CASE op.by = "apply" -> [op EXCEPT !.stage = "undo"] [] OTHER -> NoOp
    /\ main' = IF op.by = "boot" THEN "fatal" ELSE main
    /\ suspect' = IF op.by \in {"restore", "rollback"} THEN suspect \cup {"undo"} ELSE suspect

\* A manifest does not compile: nothing has changed.
CompileFails ==
    /\ op.stage = "compile" /\ ~Compiles(conns)
    /\ Failed
    /\ UNCHANGED <<ingestVars, disk, conns, previous, undo, sinks, bounds>>

Compile ==
    /\ op.stage = "compile" /\ Compiles(conns)
    /\ op' = [op EXCEPT !.stage = "ingest"]
    /\ Reconcile(Static \cup Sources(conns))
    /\ UNCHANGED <<disk, conns, previous, undo, sinks, main, suspect, bounds>>

\* Ingest.Reconcile failed: the candidates are stopped, the sinks stay.
IngestFails ==
    /\ op.stage \in {"ingest", "start"} /\ call.pc = "failed"
    /\ call' = NoCall
    /\ shut' = shut \cup UNION {StopEffect(a, mgr.launch) : a \in Sources(conns)}
    /\ Failed
    /\ UNCHANGED <<mgr, parentDone, cancelled, starting, serving, watchers, registered, errs, open, stopping,
                   overlapped, panicked, disk, conns, previous, undo, sinks, bounds>>

\* Output.Replace; then ApplyFile and Rollback return, main goes on to Start.
ReplaceSinks ==
    /\ op.stage = "ingest" /\ call.pc = "ok"
    /\ call' = NoCall
    /\ sinks' = Sinks(conns)
    /\ op' = IF op.by = "boot" THEN [op EXCEPT !.stage = "start"] ELSE NoOp
    /\ UNCHANGED <<mgr, parentDone, cancelled, goroutines, open, stopping, overlapped, panicked,
                   disk, conns, previous, undo, main, suspect, bounds>>

-----------------------------------------------------------------------------
(* ApplyFile and Rollback. *)

\* Mutant: a manifest that takes over a file leaves the old connection active.
ReplacedKept(m, p) == {x \in conns : NameOf[x[1]] = NameOf[m]}

\* The connections a manifest written to p replaces: the one of its name, and
\* the one whose manifest was in the file.
Replaced(m, p) == {x \in conns : NameOf[x[1]] = NameOf[m] \/ (disk[p] \in Manifest /\ NameOf[x[1]] = NameOf[disk[p]])}

\* LoadConnection, the duplicate check, the rename and the maps.
ApplyFile(m, p) ==
    /\ main = "up" /\ op = NoOp /\ calls < MaxCalls
    /\ p[1] = KindOf(m)
    /\ \A x \in conns : NameOf[x[1]] = NameOf[m] => x[2] = p
    /\ calls' = calls + 1
    /\ disk' = [disk EXCEPT ![p] = m]
    /\ previous' = conns
    /\ undo' = [path |-> p, old |-> disk[p]]
    /\ conns' = (conns \ Replaced(m, p)) \cup {<<m, p>>}
    /\ op' = [by |-> "apply", stage |-> "compile"]
    /\ UNCHANGED <<ingestVars, sinks, main, suspect, faults, crashes>>

\* The error path of ApplyFile: the file, the maps, then the runtime again.
\* (addedFile and backupFile keep their values, but no Rollback reads them
\* without a previous state.)
UndoApply ==
    /\ op.stage = "undo"
    /\ UndoFile
    /\ conns' = previous /\ previous' = None /\ undo' = NoUndo
    /\ op' = [by |-> "restore", stage |-> "compile"]
    /\ UNCHANGED <<ingestVars, sinks, main, calls, crashes>>

Rollback ==
    /\ main = "up" /\ op = NoOp /\ calls < MaxCalls /\ previous # None
    /\ calls' = calls + 1
    /\ UndoFile
    /\ conns' = previous /\ previous' = None /\ undo' = NoUndo
    /\ op' = [by |-> "rollback", stage |-> "compile"]
    /\ UNCHANGED <<ingestVars, sinks, main, crashes>>

-----------------------------------------------------------------------------
(* main. *)

MemoryGone ==
    /\ mgr' = [running |-> FALSE, stopped |-> FALSE, adapters |-> {}, launch |-> 0]
    /\ parentDone' = FALSE /\ cancelled' = {}
    /\ starting' = {} /\ serving' = {} /\ shut' = {} /\ watchers' = {}
    /\ registered' = [a \in Static |-> 0]
    /\ errs' = {} /\ open' = TRUE
    /\ call' = NoCall /\ stopping' = NoStop
    /\ overlapped' = FALSE /\ panicked' = FALSE
    /\ conns' = {} /\ previous' = None /\ undo' = NoUndo /\ sinks' = {} /\ op' = NoOp

\* LoadDir of both directories: a file that does not parse, or two with one
\* name, is fatal.
Loads == \A x, y \in OnDisk : x[1] # Garbage /\ (NameOf[x[1]] = NameOf[y[1]] => x = y)

LoadDir ==
    /\ main = "down"
    /\ IF Loads
       THEN main' = "up" /\ conns' = OnDisk /\ op' = [by |-> "boot", stage |-> "compile"]
       ELSE main' = "fatal" /\ UNCHANGED <<conns, op>>
    /\ UNCHANGED <<ingestVars, disk, previous, undo, sinks, suspect, bounds>>

StartIngest ==
    /\ op.stage = "start" /\ call.pc = "idle"
    /\ StartManager
    /\ UNCHANGED <<connVars, bounds>>

\* Start's probe has passed.
Booted ==
    /\ op.stage = "start" /\ call.pc = "ok"
    /\ op' = NoOp /\ call' = NoCall
    /\ UNCHANGED <<mgr, parentDone, cancelled, goroutines, open, stopping, overlapped, panicked,
                   disk, conns, previous, undo, sinks, main, suspect, bounds>>

\* The signal: uiServer.Stop waits 2 s for the handlers, so a call may still be
\* going on when mgr.Stop is called.
Shutdown ==
    /\ main = "up" /\ op.by # "boot"
    /\ main' = "stopping"
    /\ Stop
    /\ UNCHANGED <<disk, conns, previous, undo, sinks, op, suspect, bounds>>

\* What a process that ends leaves behind.  Between the rename and the end of
\* the call the file is not yet known to be good, and an adapter that failed
\* after its probe has failed only in the health report.
Unfinished ==
    suspect' = suspect \cup (IF op.by \in {"apply", "restore", "rollback"} THEN {"write"} ELSE {})
                       \cup (IF Sources(conns) \cap Unstartable # {} THEN {"late"} ELSE {})

\* Main returns, whether or not a handler is still at work: its file stays.
Exit ==
    /\ main = "stopping" /\ stopping.pc = "done" /\ ~panicked
    /\ main' = "exited"
    /\ MemoryGone
    /\ Unfinished
    /\ UNCHANGED <<disk, bounds>>

\* The process dies, has panicked or has ended, and its memory is gone.
Crash ==
    /\ main \in {"up", "stopping", "exited"} /\ crashes < MaxCrashes
    /\ crashes' = crashes + 1
    /\ main' = "down"
    /\ Unfinished
    /\ disk' \in {disk} \cup (IF op.stage = "undo" /\ undo.old # None THEN {[disk EXCEPT ![undo.path] = Garbage]} ELSE {})
    /\ MemoryGone
    /\ UNCHANGED <<calls, faults>>

-----------------------------------------------------------------------------
AdapterStep(x) ==
    /\ \/ x[1] \notin Unstartable /\ Listen(x)
       \/ x[1] \in Unstartable /\ StartFails(x)
       \/ StartReturns(x) \/ Watch(x)
    /\ UNCHANGED <<connVars, bounds>>

ReconcileStep ==
    /\ ReconcileStops \/ Relaunch \/ probeStartup
    /\ UNCHANGED <<connVars, bounds>>

StopStep ==
    /\ StopStops \/ StopWaits \/ StopReturns
    /\ UNCHANGED <<connVars, bounds>>

RuntimeStep == CompileFails \/ Compile \/ IngestFails \/ ReplaceSinks \/ UndoApply

Alive == main \in {"up", "stopping"} /\ ~panicked

Next ==
    \/ LoadDir
    \/ /\ Alive
       /\ \/ RuntimeStep \/ ReconcileStep \/ StopStep \/ StartIngest \/ Booted \/ Shutdown \/ Exit
          \/ \E x \in Adapter \X Launch : AdapterStep(x)
          \/ \E m \in Manifest, p \in Path : ApplyFile(m, p)
          \/ Rollback
    \/ Crash

\* Every goroutine goes on.
Spec ==
    /\ Init /\ [][Next]_vars
    /\ WF_vars(Alive /\ (RuntimeStep \/ StartIngest \/ Booted))
    /\ WF_vars(Alive /\ ReconcileStep) /\ WF_vars(Alive /\ StopStep)
    /\ \A x \in Adapter \X Launch : WF_vars(Alive /\ AdapterStep(x))

-----------------------------------------------------------------------------
(* Properties. *)

AtRest == main = "up" /\ op = NoOp

\* Between two calls the files, the maps and the runtime say the same: after an
\* apply that failed to compile or to start and was undone, a rollback, and
\* manifests that take over each other's files.  Only a write error of an undo,
\* or a reconcile of an undo that fails too (both are reported or ignored, and
\* nothing repairs them), leave a difference.
FilesMatchRuntime ==
    AtRest => /\ "write" \notin suspect => conns = OnDisk
              /\ "undo" \notin suspect => /\ mgr.adapters = Static \cup Sources(conns)
                                          /\ sinks = Sinks(conns)

\* A restart ends in FATAL only if the process ended in an unfinished call, an
\* undo had failed, or a source had failed after its 50 ms probe, which only the
\* health report shows.
FatalIsExplained == main = "fatal" => suspect # {}

\* No two launches overlap: when the adapters of a launch run, those of the
\* launch before have returned (two listeners on one address, two consumers of
\* one watermark otherwise).
OneLaunchRuns == \A x, y \in Running : x[2] = y[2]

\* close(m.out) finds no adapter that could still send, and the WaitGroup is not
\* reused under Stop's feet, as long as no Reconcile was going on when Stop was
\* called.
StopIsSafe == ~overlapped => ~panicked /\ (open \/ Running = {})

\* A source of a connection is never stopped by the watcher of an earlier launch:
\* between calls it runs, or has failed and is reported.
SourcesServe ==
    AtRest /\ mgr.running /\ "undo" \notin suspect =>
        \A a \in Sources(conns) : <<a, mgr.launch>> \in Running \ shut \/ a \in errs

\* Every apply, rollback and start comes to an end, with the old adapters gone
\* (or the process ends first): a Stop that comes before the listener is
\* registered does not lose it.
CallsReturn == (op # NoOp) ~> (op = NoOp \/ ~Alive)

=============================================================================
