-------------------------- MODULE ConnectionsProofs -------------------------
(***************************************************************************)
(* Theorems about Connections and the IngestManager under it: launches do  *)
(* not overlap, Stop closes a channel nobody sends on, a connection's      *)
(* source is only stopped on purpose, files, maps and runtime agree        *)
(* between calls, and a start that ends in FATAL has a reason.  They hold  *)
(* for any adapters, manifests and bounds, and for every interleaving of   *)
(* adapters, watchers, calls, a shutdown and crashes.                      *)
(***************************************************************************)
EXTENDS Connections, TLAPS

CallPc == {"idle", "stopping", "waiting", "probe", "ok", "failed"}
StopPc == {"idle", "stopping", "waiting", "woken", "done"}
Content == Manifest \cup {None, Garbage}

TypeOK ==
    /\ mgr \in [running : BOOLEAN, stopped : BOOLEAN, adapters : SUBSET Adapter, launch : Nat]
    /\ parentDone \in BOOLEAN /\ cancelled \subseteq Nat
    /\ starting \subseteq Adapter \X Nat /\ serving \subseteq Adapter \X Nat
    /\ errs \subseteq Adapter
    /\ open \in BOOLEAN /\ overlapped \in BOOLEAN /\ panicked \in BOOLEAN
    /\ call \in [pc : CallPc, next : SUBSET Adapter, todo : SUBSET Adapter]
    /\ stopping \in [pc : StopPc, todo : SUBSET Adapter]
    /\ disk \in [Path -> Content]
    /\ conns \subseteq Manifest \X Path
    /\ op \in [by : {"nobody", "boot", "apply", "restore", "rollback"},
               stage : {"idle", "compile", "ingest", "start", "undo"}]
    /\ main \in {"down", "up", "stopping", "exited", "fatal"}
    /\ suspect \subseteq {"write", "undo", "late"}

\* What runs is of the current launch, and nothing runs between a Reconcile that
\* has waited and its launch.
LaunchOK ==
    /\ \A x \in Running : x[1] \in mgr.adapters /\ x[2] = mgr.launch
    /\ shut \subseteq serving
    /\ ~mgr.running /\ ~mgr.stopped /\ call.pc \notin {"stopping", "waiting"} => Running = {}
    /\ errs \subseteq mgr.adapters \cap Unstartable

\* A Stop that met no Reconcile is alone: a later Reconcile only fails.
StopOK ==
    /\ stopping.pc = "idle" <=> ~mgr.stopped
    /\ mgr.stopped /\ ~overlapped => call.pc \in {"idle", "failed"}
    /\ ~overlapped /\ stopping.pc \in {"woken", "done"} => Running = {}
    /\ ~open \/ panicked => stopping.pc = "done"
    /\ ~overlapped => ~panicked

\* The stages of a call, and when Reconcile or Start is under way.
OpOK ==
    /\ op.stage = "idle" <=> op.by = "nobody"
    /\ op.stage = "start" => op.by = "boot"
    /\ op.stage = "undo" => op.by = "apply"
    /\ op.by = "boot" => main = "up"
    /\ main \notin {"up", "stopping"} => op.by = "nobody"
    /\ call.pc # "idle" => op.stage \in {"ingest", "start"}
    /\ main \in {"up", "down"} => ~mgr.stopped /\ ~parentDone

Want == Static \cup Sources(conns)

\* What Reconcile is told to run, and what runs when it has succeeded.
AdaptersOK ==
    /\ call.pc \in {"stopping", "waiting"} => call.next = Want
    /\ call.pc \in {"probe", "ok"} => mgr.adapters = Want
    /\ call.pc = "failed" => mgr.stopped \/ (mgr.adapters = Want /\ errs # {})
    /\ op.stage = "start" => mgr.adapters = Want /\ sinks = Sinks(conns)
    /\ AtRest /\ "undo" \notin suspect => mgr.adapters = Want /\ sinks = Sinks(conns)

Listing(d) == {<<d[p], p>> : p \in {q \in Path : d[q] # None}}
Named(c) == \A x, y \in c : NameOf[x[1]] = NameOf[y[1]] => x = y

\* What an undo goes back to.
UndoOK ==
    /\ previous \subseteq Manifest \X Path /\ Named(previous)
    /\ undo.path \in Path /\ undo.old \in Content
    /\ "write" \notin suspect => previous = Listing(Restored)

FilesOK ==
    /\ Named(conns)
    /\ "write" \notin suspect /\ main \in {"up", "stopping"} => conns = Listing(disk)
    /\ op.by = "apply" \/ previous # None => UndoOK

\* Files that a restart loads, compiles and starts.
Good == \A x \in Listing(disk) :
    /\ x[1] \in Manifest /\ x[1] \notin Uncompilable \cup Unstartable
    /\ \A y \in Listing(disk) : NameOf[x[1]] = NameOf[y[1]] => x = y

StartsOK ==
    /\ suspect = {} /\ (main \in {"down", "exited"} \/ op.by = "boot") => Good
    /\ op.stage \in {"ingest", "start"} => Compiles(conns)
    /\ op.stage = "idle" /\ main \in {"up", "stopping"} /\ suspect = {} => Compiles(conns)
    /\ main = "fatal" => suspect # {}

\* A source that Reconcile or Start has launched runs, or its error is kept.
Served(a) == (<<a, mgr.launch>> \in Running /\ <<a, mgr.launch>> \notin shut) \/ a \in errs

ServeOK ==
    /\ \A g \in cancelled : g <= mgr.launch
    /\ mgr.running => mgr.launch \notin cancelled
    /\ main = "up" /\ mgr.running /\ (call.pc \in {"probe", "ok"} \/ (op.stage = "idle" /\ "undo" \notin suspect))
         => \A a \in mgr.adapters \cap Dynamic : Served(a)

ConnInv ==
    TypeOK /\ LaunchOK /\ StopOK /\ OpOK /\ AdaptersOK /\ FilesOK /\ StartsOK /\ ServeOK

LEMMA InitInv == Init => ConnInv
<1> SUFFICES ASSUME Init PROVE ConnInv
  OBVIOUS
<1> USE DEF Init, IngestInit, NoCall, NoStop, NoOp, NoUndo
<1>1. TypeOK
  BY DEF TypeOK, CallPc, StopPc, Content
<1>2. LaunchOK
  BY DEF LaunchOK, Running
<1>3. StopOK
  BY DEF StopOK, Running
<1>4. OpOK
  BY DEF OpOK
<1>5. AdaptersOK
  BY DEF AdaptersOK, Want, Sources, Sinks, AtRest, NoOp
<1>6. FilesOK
  BY DEF FilesOK, UndoOK, Named, Restored, Listing
<1>7. StartsOK
  BY DEF StartsOK, Good, Compiles, Listing
<1>8. ServeOK
  BY DEF ServeOK, Served, Running
<1> QED BY <1>1, <1>2, <1>3, <1>4, <1>5, <1>6, <1>7, <1>8 DEF ConnInv

-----------------------------------------------------------------------------
(* The adapters' goroutines.  Each lemma has one step per part of ConnInv. *)

LEMMA ListenKeeps ==
    ASSUME ConnInv, NEW x \in Adapter \X Launch, Listen(x), UNCHANGED <<connVars, bounds>>
    PROVE  ConnInv'
<1> USE DEF Listen, Watcher, Launch, ingestVars, goroutines, connVars, bounds, ConnInv
<1>1. TypeOK'
  BY DEF TypeOK
<1>2. LaunchOK'
  BY DEF LaunchOK, Running
<1>3. StopOK'
  BY DEF StopOK, Running
<1>4. OpOK'
  BY DEF OpOK
<1>5. AdaptersOK'
  BY DEF AdaptersOK, Want, Sources, Sinks, AtRest, NoOp
<1>6. FilesOK'
  BY DEF FilesOK, UndoOK, Named, Restored
<1>7. StartsOK'
  BY DEF StartsOK, Good
<1>8. ServeOK'
  BY DEF ServeOK, Served, Running
<1> HIDE DEF Listen, Watcher, Launch, ingestVars, goroutines, connVars, bounds
<1> QED BY <1>1, <1>2, <1>3, <1>4, <1>5, <1>6, <1>7, <1>8 DEF ConnInv

LEMMA StartFailsKeeps ==
    ASSUME ConnInv, NEW x \in Adapter \X Launch, x[1] \in Unstartable, StartFails(x), UNCHANGED <<connVars, bounds>>
    PROVE  ConnInv'
<1> USE DEF StartFails, Returned, Wake, ErrorKept, Done, Launch, ingestVars, goroutines, connVars, bounds, ConnInv
<1>1. TypeOK'
  BY DEF TypeOK, StopPc
<1>2. LaunchOK'
  BY DEF LaunchOK, Running
<1>3. StopOK'
  BY DEF StopOK, Running
<1>4. OpOK'
  BY DEF OpOK
<1>5. AdaptersOK'
  BY DEF AdaptersOK, Want, Sources, Sinks, AtRest, NoOp
<1>6. FilesOK'
  BY DEF FilesOK, UndoOK, Named, Restored
<1>7. StartsOK'
  BY DEF StartsOK, Good
<1>8. ServeOK'
  BY DEF ServeOK, Served, Running, OpOK
<1> HIDE DEF StartFails, Returned, Wake, ErrorKept, Done, Launch, ingestVars, goroutines, connVars, bounds
<1> QED BY <1>1, <1>2, <1>3, <1>4, <1>5, <1>6, <1>7, <1>8 DEF ConnInv

LEMMA StartReturnsKeeps ==
    ASSUME ConnInv, NEW x \in Adapter \X Launch, StartReturns(x), UNCHANGED <<connVars, bounds>>
    PROVE  ConnInv'
<1> USE DEF StartReturns, Returned, Wake, Done, Launch, ingestVars, goroutines, connVars, bounds, ConnInv
<1>1. TypeOK'
  BY DEF TypeOK, StopPc
<1>2. LaunchOK'
  BY DEF LaunchOK, Running
<1>3. StopOK'
  BY DEF StopOK, Running
<1>4. OpOK'
  BY DEF OpOK
<1>5. AdaptersOK'
  BY DEF AdaptersOK, Want, Sources, Sinks, AtRest, NoOp
<1>6. FilesOK'
  BY DEF FilesOK, UndoOK, Named, Restored
<1>7. StartsOK'
  BY DEF StartsOK, Good
<1>8. ServeOK'
  BY DEF ServeOK, Served, Running, OpOK
<1> HIDE DEF StartReturns, Returned, Wake, Done, Launch, ingestVars, goroutines, connVars, bounds
<1> QED BY <1>1, <1>2, <1>3, <1>4, <1>5, <1>6, <1>7, <1>8 DEF ConnInv

LEMMA WatchKeeps ==
    ASSUME ConnInv, NEW x \in Adapter \X Launch, Watch(x), UNCHANGED <<connVars, bounds>>
    PROVE  ConnInv'
<1> USE DEF Watch, StopEffect, Target, Done, Launch, ingestVars, goroutines, connVars, bounds, ConnInv
<1>1. TypeOK'
  BY DEF TypeOK
<1>2. LaunchOK'
  BY DEF LaunchOK, Running
<1>3. StopOK'
  BY DEF StopOK, Running
<1>4. OpOK'
  BY DEF OpOK
<1>5. AdaptersOK'
  BY DEF AdaptersOK, Want, Sources, Sinks, AtRest, NoOp
<1>6. FilesOK'
  BY DEF FilesOK, UndoOK, Named, Restored
<1>7. StartsOK'
  BY DEF StartsOK, Good
<1>8. ServeOK'
  BY IngestAssumption DEF ServeOK, Served, Running, OpOK
<1> HIDE DEF Watch, StopEffect, Target, Done, Launch, ingestVars, goroutines, connVars, bounds
<1> QED BY <1>1, <1>2, <1>3, <1>4, <1>5, <1>6, <1>7, <1>8 DEF ConnInv

-----------------------------------------------------------------------------
(* Reconcile and Stop of the manager. *)

LEMMA ReconcileStopsKeeps ==
    ASSUME ConnInv, ReconcileStops, UNCHANGED <<connVars, bounds>>
    PROVE  ConnInv'
<1> USE DEF ReconcileStops, StopEffect, ingestVars, goroutines, connVars, bounds, ConnInv
<1>1. TypeOK'
  <2>1. call' \in [pc : CallPc, next : SUBSET Adapter, todo : SUBSET Adapter]
    BY DEF TypeOK, CallPc
  <2>2. UNCHANGED <<mgr, parentDone, cancelled, starting, serving, errs, open, stopping, overlapped, panicked,
                 disk, conns, op, main, suspect>>
    OBVIOUS
  <2> HIDE DEF ReconcileStops
  <2> QED BY <2>1, <2>2 DEF TypeOK
<1>2. LaunchOK'
  BY DEF LaunchOK, Running
<1>3. StopOK'
  BY DEF StopOK
<1>4. OpOK'
  BY DEF OpOK
<1>5. AdaptersOK'
  BY DEF AdaptersOK, Want, Sources, Sinks, AtRest, NoOp
<1>6. FilesOK'
  BY DEF FilesOK, UndoOK, Named, Restored
<1>7. StartsOK'
  BY DEF StartsOK, Good
<1>8. ServeOK'
  BY DEF ServeOK, OpOK
<1> HIDE DEF ReconcileStops, StopEffect, ingestVars, goroutines, connVars, bounds
<1> QED BY <1>1, <1>2, <1>3, <1>4, <1>5, <1>6, <1>7, <1>8 DEF ConnInv

\* Everything of the old launch has returned, so shut is empty and the launch
\* number is new.
LEMMA RelaunchKeeps ==
    ASSUME ConnInv, Relaunch, UNCHANGED <<connVars, bounds>>
    PROVE  ConnInv'
<1> USE DEF Relaunch, launchLocked, OldGone, ingestVars, goroutines, connVars, bounds, ConnInv
<1>1. TypeOK'
  <2>1. mgr.launch + 1 \in Nat /\ call.next \subseteq Adapter /\ mgr.stopped \in BOOLEAN
    BY DEF TypeOK
  <2>2. mgr' = [running |-> TRUE, stopped |-> mgr.stopped, adapters |-> call.next, launch |-> mgr.launch + 1]
    BY DEF TypeOK
  <2>3. mgr' \in [running : BOOLEAN, stopped : BOOLEAN, adapters : SUBSET Adapter, launch : Nat]
    BY <2>1, <2>2
  <2>4. call' \in [pc : CallPc, next : SUBSET Adapter, todo : SUBSET Adapter]
    BY DEF TypeOK, CallPc
  <2>5. starting' \subseteq Adapter \X Nat /\ serving' \subseteq Adapter \X Nat
    BY <2>1 DEF TypeOK
  <2> QED BY <2>1, <2>2, <2>3, <2>4, <2>5 DEF TypeOK
<1>2. LaunchOK'
  BY DEF LaunchOK, Running
<1>3. StopOK'
  BY DEF StopOK
<1>4. OpOK'
  BY DEF OpOK
<1>5. AdaptersOK'
  BY DEF AdaptersOK, Want, Sources, Sinks, AtRest, NoOp
<1>6. FilesOK'
  BY DEF FilesOK, UndoOK, Named, Restored
<1>7. StartsOK'
  BY DEF StartsOK, Good
<1>8. ServeOK'
  BY DEF ServeOK, Served, Running, TypeOK, LaunchOK
<1> HIDE DEF Relaunch, launchLocked, OldGone, ingestVars, goroutines, connVars, bounds
<1> QED BY <1>1, <1>2, <1>3, <1>4, <1>5, <1>6, <1>7, <1>8 DEF ConnInv

LEMMA ProbeKeeps ==
    ASSUME ConnInv, probeStartup, UNCHANGED <<connVars, bounds>>
    PROVE  ConnInv'
<1> USE DEF probeStartup, ingestVars, goroutines, connVars, bounds, ConnInv
<1>1. TypeOK'
  BY DEF TypeOK, CallPc
<1>2. LaunchOK'
  BY DEF LaunchOK, Running
<1>3. StopOK'
  BY DEF StopOK
<1>4. OpOK'
  BY DEF OpOK
<1>5. AdaptersOK'
  BY DEF AdaptersOK, Want, Sources, Sinks, AtRest, NoOp
<1>6. FilesOK'
  BY DEF FilesOK, UndoOK, Named, Restored
<1>7. StartsOK'
  BY DEF StartsOK, Good
<1>8. ServeOK'
  BY DEF ServeOK, Served, Running
<1> HIDE DEF probeStartup, ingestVars, goroutines, connVars, bounds
<1> QED BY <1>1, <1>2, <1>3, <1>4, <1>5, <1>6, <1>7, <1>8 DEF ConnInv

\* Stop has been called, so main is no longer up.
LEMMA StopStopsKeeps ==
    ASSUME ConnInv, StopStops, UNCHANGED <<connVars, bounds>>
    PROVE  ConnInv'
<1> USE DEF StopStops, StopEffect, ingestVars, goroutines, connVars, bounds, ConnInv
<1>1. TypeOK'
  BY DEF TypeOK
<1>2. LaunchOK'
  BY DEF LaunchOK, Running
<1>3. StopOK'
  BY DEF StopOK
<1>4. OpOK'
  BY DEF OpOK
<1>5. AdaptersOK'
  BY DEF AdaptersOK, Want, Sources, Sinks, AtRest, NoOp
<1>6. FilesOK'
  BY DEF FilesOK, UndoOK, Named, Restored
<1>7. StartsOK'
  BY DEF StartsOK, Good
<1>8. ServeOK'
  <2>1. main # "up"
    BY DEF StopOK, OpOK
  <2> QED BY <2>1 DEF ServeOK
<1> HIDE DEF StopStops, StopEffect, ingestVars, goroutines, connVars, bounds
<1> QED BY <1>1, <1>2, <1>3, <1>4, <1>5, <1>6, <1>7, <1>8 DEF ConnInv

LEMMA StopWaitsKeeps ==
    ASSUME ConnInv, StopWaits, UNCHANGED <<connVars, bounds>>
    PROVE  ConnInv'
<1> USE DEF StopWaits, CloseOut, ingestVars, goroutines, connVars, bounds, ConnInv
<1>1. TypeOK'
  <2>1. stopping' \in [pc : StopPc, todo : SUBSET Adapter]
    BY DEF TypeOK, StopPc
  <2>2. open' \in BOOLEAN
    BY DEF TypeOK
  <2> QED BY <2>1, <2>2 DEF TypeOK
<1>2. LaunchOK'
  BY DEF LaunchOK, Running
<1>3. StopOK'
  BY DEF StopOK, Running, TypeOK
<1>4. OpOK'
  BY DEF OpOK
<1>5. AdaptersOK'
  BY DEF AdaptersOK, Want, Sources, Sinks, AtRest, NoOp
<1>6. FilesOK'
  BY DEF FilesOK, UndoOK, Named, Restored
<1>7. StartsOK'
  BY DEF StartsOK, Good
<1>8. ServeOK'
  BY DEF ServeOK, Served, Running
<1> HIDE DEF StopWaits, CloseOut, ingestVars, goroutines, connVars, bounds
<1> QED BY <1>1, <1>2, <1>3, <1>4, <1>5, <1>6, <1>7, <1>8 DEF ConnInv

LEMMA StopReturnsKeeps ==
    ASSUME ConnInv, StopReturns, UNCHANGED <<connVars, bounds>>
    PROVE  ConnInv'
<1> USE DEF StopReturns, CloseOut, ingestVars, goroutines, connVars, bounds, ConnInv
<1>1. TypeOK'
  <2>1. stopping' \in [pc : StopPc, todo : SUBSET Adapter]
    BY DEF TypeOK, StopPc
  <2>2. open' \in BOOLEAN /\ panicked' \in BOOLEAN
    BY DEF TypeOK
  <2> QED BY <2>1, <2>2 DEF TypeOK
<1>2. LaunchOK'
  BY DEF LaunchOK, Running
<1>3. StopOK'
  BY DEF StopOK, Running, TypeOK
<1>4. OpOK'
  BY DEF OpOK
<1>5. AdaptersOK'
  BY DEF AdaptersOK, Want, Sources, Sinks, AtRest, NoOp
<1>6. FilesOK'
  BY DEF FilesOK, UndoOK, Named, Restored
<1>7. StartsOK'
  BY DEF StartsOK, Good
<1>8. ServeOK'
  BY DEF ServeOK, Served, Running
<1> HIDE DEF StopReturns, CloseOut, ingestVars, goroutines, connVars, bounds
<1> QED BY <1>1, <1>2, <1>3, <1>4, <1>5, <1>6, <1>7, <1>8 DEF ConnInv

LEMMA StartIngestKeeps ==
    ASSUME ConnInv, StartIngest
    PROVE  ConnInv'
<1> USE DEF StartIngest, StartManager, launchLocked, NoCall, ingestVars, goroutines, connVars, bounds, ConnInv
<1>1. TypeOK'
  <2>1. mgr.launch + 1 \in Nat /\ mgr.adapters \subseteq Adapter /\ mgr.stopped \in BOOLEAN
    BY DEF TypeOK
  <2>2. mgr' = [running |-> TRUE, stopped |-> mgr.stopped, adapters |-> mgr.adapters, launch |-> mgr.launch + 1]
    BY DEF TypeOK
  <2>3. mgr' \in [running : BOOLEAN, stopped : BOOLEAN, adapters : SUBSET Adapter, launch : Nat]
    BY <2>1, <2>2
  <2>4. call' \in [pc : CallPc, next : SUBSET Adapter, todo : SUBSET Adapter]
    BY DEF TypeOK, CallPc
  <2>5. starting' \subseteq Adapter \X Nat /\ serving' \subseteq Adapter \X Nat
    BY <2>1 DEF TypeOK
  <2> QED BY <2>1, <2>2, <2>3, <2>4, <2>5 DEF TypeOK
<1>2. LaunchOK'
  BY DEF LaunchOK, Running
<1>3. StopOK'
  BY DEF StopOK
<1>4. OpOK'
  BY DEF OpOK
<1>5. AdaptersOK'
  BY DEF AdaptersOK, Want
<1>6. FilesOK'
  BY DEF FilesOK, UndoOK, Named, Restored
<1>7. StartsOK'
  BY DEF StartsOK, Good
<1>8. ServeOK'
  BY DEF ServeOK, Served, Running, TypeOK, LaunchOK
<1> HIDE DEF StartIngest, StartManager, launchLocked, NoCall, ingestVars, goroutines, connVars, bounds
<1> QED BY <1>1, <1>2, <1>3, <1>4, <1>5, <1>6, <1>7, <1>8 DEF ConnInv

-----------------------------------------------------------------------------
(* Runtime.Reconcile, ApplyFile, Rollback and main. *)

LEMMA CompileFailsKeeps ==
    ASSUME ConnInv, CompileFails
    PROVE  ConnInv'
<1> USE DEF CompileFails, Failed, NoOp, ingestVars, goroutines, connVars, bounds, ConnInv
<1>1. TypeOK'
  BY DEF TypeOK
<1>2. LaunchOK'
  BY DEF LaunchOK, Running
<1>3. StopOK'
  BY DEF StopOK, Running
<1>4. OpOK'
  BY DEF OpOK
<1>5. AdaptersOK'
  BY DEF AdaptersOK, Want, Sources, Sinks, AtRest, NoOp, TypeOK, OpOK
<1>6. FilesOK'
  BY DEF FilesOK, UndoOK, Named, Restored
<1>7. StartsOK'
  BY DEF StartsOK, Good, Compiles, TypeOK, OpOK, FilesOK, AdaptersOK
<1>8. ServeOK'
  BY DEF ServeOK, Served, Running, TypeOK, OpOK
<1> HIDE DEF CompileFails, Failed, NoOp, ingestVars, goroutines, connVars, bounds
<1> QED BY <1>1, <1>2, <1>3, <1>4, <1>5, <1>6, <1>7, <1>8 DEF ConnInv

LEMMA CompileKeeps ==
    ASSUME ConnInv, Compile
    PROVE  ConnInv'
<1> USE DEF Compile, Reconcile, NoCall, ingestVars, goroutines, connVars, bounds, ConnInv
<1>1. TypeOK'
  <2>1. Static \cup Sources(conns) \subseteq Adapter
    BY DEF Sources, Adapter
  <2>2. call' \in [pc : CallPc, next : SUBSET Adapter, todo : SUBSET Adapter]
    BY <2>1 DEF TypeOK, CallPc
  <2>3. mgr' \in [running : BOOLEAN, stopped : BOOLEAN, adapters : SUBSET Adapter, launch : Nat]
    BY <2>1 DEF TypeOK
  <2>4. cancelled' \subseteq Nat /\ errs' \subseteq Adapter
    BY DEF TypeOK
  <2>5. op' \in [by : {"nobody", "boot", "apply", "restore", "rollback"},
               stage : {"idle", "compile", "ingest", "start", "undo"}]
    BY DEF TypeOK
  <2> QED BY <2>1, <2>2, <2>3, <2>4, <2>5 DEF TypeOK
<1>2. LaunchOK'
  BY DEF LaunchOK, Running, TypeOK
<1>3. StopOK'
  BY DEF StopOK, Running, TypeOK
<1>4. OpOK'
  BY DEF OpOK, TypeOK
<1>5. AdaptersOK'
  BY DEF AdaptersOK, Want, Sources, Sinks, AtRest, NoOp, TypeOK
<1>6. FilesOK'
  BY DEF FilesOK, UndoOK, Named, Restored
<1>7. StartsOK'
  BY DEF StartsOK, Good
<1>8. ServeOK'
  BY DEF ServeOK, TypeOK
<1> HIDE DEF Compile, Reconcile, NoCall, ingestVars, goroutines, connVars, bounds
<1> QED BY <1>1, <1>2, <1>3, <1>4, <1>5, <1>6, <1>7, <1>8 DEF ConnInv

\* A boot that fails here has a source that cannot start, and so a suspect file.
LEMMA IngestFailsKeeps ==
    ASSUME ConnInv, IngestFails
    PROVE  ConnInv'
<1> USE DEF IngestFails, Failed, NoOp, NoCall, StopEffect, ingestVars, goroutines, connVars, bounds, ConnInv
<1>1. TypeOK'
  BY DEF TypeOK, CallPc
<1>2. LaunchOK'
  BY DEF LaunchOK, Running
<1>3. StopOK'
  BY DEF StopOK, Running
<1>4. OpOK'
  BY DEF OpOK
<1>5. AdaptersOK'
  BY DEF AdaptersOK, Want, Sources, Sinks, AtRest, NoOp, TypeOK, OpOK
<1>6. FilesOK'
  BY DEF FilesOK, UndoOK, Named, Restored
<1>7. StartsOK'
  <2>1. op.by = "boot" => suspect # {}
    <3> SUFFICES ASSUME op.by = "boot", suspect = {} PROVE FALSE
      OBVIOUS
    <3>1. mgr.adapters = Static \cup Sources(conns) /\ errs # {}
      BY DEF OpOK, AdaptersOK, Want
    <3>2. PICK e \in errs : TRUE
      BY <3>1
    <3>3. e \in Unstartable /\ e \in Sources(conns)
      BY <3>1, <3>2, IngestAssumption, ConnectionsAssumption DEF LaunchOK
    <3>4. conns = Listing(disk) /\ Good
      BY DEF FilesOK, StartsOK, OpOK
    <3> QED BY <3>3, <3>4 DEF Good, Sources
  <2> QED BY <2>1 DEF StartsOK, Good, Compiles, TypeOK, OpOK
<1>8. ServeOK'
  BY DEF ServeOK, Served, Running, TypeOK, OpOK
<1> HIDE DEF IngestFails, Failed, NoOp, NoCall, StopEffect, ingestVars, goroutines, connVars, bounds
<1> QED BY <1>1, <1>2, <1>3, <1>4, <1>5, <1>6, <1>7, <1>8 DEF ConnInv

LEMMA ReplaceSinksKeeps ==
    ASSUME ConnInv, ReplaceSinks
    PROVE  ConnInv'
<1> USE DEF ReplaceSinks, NoCall, NoOp, ingestVars, goroutines, connVars, bounds, ConnInv
<1>1. TypeOK'
  BY DEF TypeOK, CallPc
<1>2. LaunchOK'
  BY DEF LaunchOK, Running
<1>3. StopOK'
  BY DEF StopOK
<1>4. OpOK'
  BY DEF OpOK
<1>5. AdaptersOK'
  BY DEF AdaptersOK, Want
<1>6. FilesOK'
  BY DEF FilesOK, UndoOK, Named, Restored
<1>7. StartsOK'
  BY DEF StartsOK, Good
<1>8. ServeOK'
  BY DEF ServeOK, Served, Running
<1> HIDE DEF ReplaceSinks, NoCall, NoOp, ingestVars, goroutines, connVars, bounds
<1> QED BY <1>1, <1>2, <1>3, <1>4, <1>5, <1>6, <1>7, <1>8 DEF ConnInv

LEMMA BootedKeeps ==
    ASSUME ConnInv, Booted
    PROVE  ConnInv'
<1> USE DEF Booted, NoCall, NoOp, ingestVars, goroutines, connVars, bounds, ConnInv
<1>1. TypeOK'
  BY DEF TypeOK, CallPc
<1>2. LaunchOK'
  BY DEF LaunchOK, Running
<1>3. StopOK'
  BY DEF StopOK
<1>4. OpOK'
  BY DEF OpOK
<1>5. AdaptersOK'
  BY DEF AdaptersOK, Want
<1>6. FilesOK'
  BY DEF FilesOK, UndoOK, Named, Restored
<1>7. StartsOK'
  BY DEF StartsOK, Good
<1>8. ServeOK'
  BY DEF ServeOK, Served, Running
<1> HIDE DEF Booted, NoCall, NoOp, ingestVars, goroutines, connVars, bounds
<1> QED BY <1>1, <1>2, <1>3, <1>4, <1>5, <1>6, <1>7, <1>8 DEF ConnInv

\* The connections a manifest replaces are those of its file.
LEMMA ApplyFileKeeps ==
    ASSUME ConnInv, NEW m \in Manifest, NEW p \in Path, ApplyFile(m, p)
    PROVE  ConnInv'
<1> USE DEF ApplyFile, NoOp, ingestVars, goroutines, connVars, bounds, ConnInv
<1>1. TypeOK'
  BY DEF TypeOK, Content
<1>2. LaunchOK'
  BY DEF LaunchOK, Running
<1>3. StopOK'
  BY DEF StopOK, Running
<1>4. OpOK'
  BY DEF OpOK
<1>5. AdaptersOK'
  BY DEF AdaptersOK, Want, Sources, Sinks, AtRest, NoOp, OpOK
<1>6. FilesOK'
  <2>1. previous' \subseteq Manifest \X Path /\ Named(previous') /\ undo'.path \in Path /\ undo'.old \in Content
    BY DEF TypeOK, FilesOK
  <2>2. Named(conns)'
    BY DEF Named, Replaced, FilesOK
  <2>3. "write" \notin suspect => previous' = Listing([disk' EXCEPT ![p] = disk[p]])
    <3>1. [disk' EXCEPT ![p] = disk[p]] = disk
      BY DEF TypeOK
    <3> QED BY <3>1 DEF FilesOK
  <2>4. "write" \notin suspect => conns' = Listing(disk')
    <3> SUFFICES ASSUME "write" \notin suspect PROVE conns' = Listing(disk')
      OBVIOUS
    <3>1. conns = Listing(disk)
      BY DEF FilesOK
    <3>2. \A x \in conns : x = <<disk[x[2]], x[2]>> /\ x[1] = disk[x[2]] /\ x[2] \in Path /\ disk[x[2]] # None /\ x[1] \in Manifest
      BY <3>1 DEF Listing, TypeOK
    <3>3. Replaced(m, p) = {x \in conns : x[2] = p}
      <4>1. ASSUME NEW x \in conns, x[2] = p PROVE x \in Replaced(m, p)
        BY <3>2, <4>1 DEF Replaced
      <4>2. ASSUME NEW x \in Replaced(m, p) PROVE x[2] = p
        <5>1. CASE NameOf[x[1]] = NameOf[m]
          BY <5>1, <4>2 DEF Replaced
        <5>2. CASE disk[p] \in Manifest /\ NameOf[x[1]] = NameOf[disk[p]]
          <6>1. <<disk[p], p>> \in conns
            BY <5>2, <3>1, ConnectionsAssumption DEF Listing
          <6>2. x = <<disk[p], p>>
            BY <6>1, <5>2, <4>2 DEF Replaced, FilesOK, Named
          <6> QED BY <6>2
        <5> QED BY <5>1, <5>2, <4>2 DEF Replaced
      <4> QED BY <4>1, <4>2 DEF Replaced
    <3>4. disk' = [disk EXCEPT ![p] = m] /\ m # None
      BY ConnectionsAssumption
    <3>5. Listing(disk') = {x \in Listing(disk) : x[2] # p} \cup {<<m, p>>}
      <4>1. ASSUME NEW y \in Listing(disk') PROVE y \in {x \in Listing(disk) : x[2] # p} \cup {<<m, p>>}
        BY <3>4, <4>1 DEF Listing, TypeOK
      <4>2. ASSUME NEW y \in {x \in Listing(disk) : x[2] # p} \cup {<<m, p>>} PROVE y \in Listing(disk')
        BY <3>4, <4>2 DEF Listing, TypeOK
      <4> QED BY <4>1, <4>2
    <3> QED BY <3>1, <3>3, <3>5
  <2>5. UndoOK'
    BY <2>1, <2>3 DEF UndoOK, Restored
  <2> QED BY <2>2, <2>4, <2>5 DEF FilesOK
<1>7. StartsOK'
  BY DEF StartsOK
<1>8. ServeOK'
  BY DEF ServeOK, Served, Running
<1> HIDE DEF ApplyFile, NoOp, ingestVars, goroutines, connVars, bounds
<1> QED BY <1>1, <1>2, <1>3, <1>4, <1>5, <1>6, <1>7, <1>8 DEF ConnInv

LEMMA UndoApplyKeeps ==
    ASSUME ConnInv, UndoApply
    PROVE  ConnInv'
<1> USE DEF UndoApply, UndoFile, NoUndo, ingestVars, goroutines, connVars, bounds, ConnInv
<1>1. TypeOK'
  <2>1. UndoOK
    BY DEF FilesOK, OpOK
  <2>2. undo.path \in Path /\ undo.old \in Content /\ previous \subseteq Manifest \X Path
    BY <2>1 DEF UndoOK
  <2>3. disk' \in [Path -> Content]
    BY <2>2 DEF TypeOK, Content, Restored
  <2>4. suspect' \subseteq {"write", "undo", "late"}
    BY DEF TypeOK
  <2>5. conns' \subseteq Manifest \X Path
    BY <2>2
  <2> QED BY <2>1, <2>2, <2>3, <2>4, <2>5 DEF TypeOK
<1>2. LaunchOK'
  BY DEF LaunchOK, Running
<1>3. StopOK'
  BY DEF StopOK, Running
<1>4. OpOK'
  BY DEF OpOK
<1>5. AdaptersOK'
  BY DEF AdaptersOK, Want, Sources, Sinks, AtRest, NoOp, OpOK
<1>6. FilesOK'
  BY DEF FilesOK, UndoOK, Named, Restored, OpOK
<1>7. StartsOK'
  BY DEF StartsOK, OpOK
<1>8. ServeOK'
  BY DEF ServeOK, Served, Running
<1> HIDE DEF UndoApply, UndoFile, NoUndo, ingestVars, goroutines, connVars, bounds
<1> QED BY <1>1, <1>2, <1>3, <1>4, <1>5, <1>6, <1>7, <1>8 DEF ConnInv

LEMMA RollbackKeeps ==
    ASSUME ConnInv, Rollback
    PROVE  ConnInv'
<1> USE DEF Rollback, UndoFile, NoUndo, NoOp, ingestVars, goroutines, connVars, bounds, ConnInv
<1>1. TypeOK'
  <2>1. UndoOK
    BY DEF FilesOK, OpOK
  <2>2. undo.path \in Path /\ undo.old \in Content /\ previous \subseteq Manifest \X Path
    BY <2>1 DEF UndoOK
  <2>3. disk' \in [Path -> Content]
    BY <2>2 DEF TypeOK, Content, Restored
  <2>4. suspect' \subseteq {"write", "undo", "late"}
    BY DEF TypeOK
  <2>5. conns' \subseteq Manifest \X Path
    BY <2>2
  <2> QED BY <2>1, <2>2, <2>3, <2>4, <2>5 DEF TypeOK
<1>2. LaunchOK'
  BY DEF LaunchOK, Running
<1>3. StopOK'
  BY DEF StopOK, Running
<1>4. OpOK'
  BY DEF OpOK
<1>5. AdaptersOK'
  BY DEF AdaptersOK, Want, Sources, Sinks, AtRest, NoOp, OpOK
<1>6. FilesOK'
  BY DEF FilesOK, UndoOK
<1>7. StartsOK'
  BY DEF StartsOK
<1>8. ServeOK'
  BY DEF ServeOK, Served, Running
<1> HIDE DEF Rollback, UndoFile, NoUndo, NoOp, ingestVars, goroutines, connVars, bounds
<1> QED BY <1>1, <1>2, <1>3, <1>4, <1>5, <1>6, <1>7, <1>8 DEF ConnInv

LEMMA LoadDirKeeps ==
    ASSUME ConnInv, LoadDir
    PROVE  ConnInv'
<1> USE DEF LoadDir, Loads, OnDisk, ingestVars, goroutines, connVars, bounds, ConnInv
<1>1. TypeOK'
  BY DEF TypeOK, Content
<1>2. LaunchOK'
  BY DEF LaunchOK, Running
<1>3. StopOK'
  BY DEF StopOK, Running
<1>4. OpOK'
  BY DEF OpOK
<1>5. AdaptersOK'
  BY DEF AdaptersOK, Want, Sources, Sinks, AtRest, NoOp, OpOK
<1>6. FilesOK'
  <2>1. previous' # None \/ op'.by = "apply" => UndoOK
    BY DEF FilesOK, OpOK, TypeOK
  <2>2. OnDisk = Listing(disk)
    BY DEF Listing
  <2>3. Named(conns)'
    BY DEF Named, FilesOK
  <2> QED BY <2>1, <2>2, <2>3 DEF FilesOK, UndoOK, Restored, Named
<1>7. StartsOK'
  <2>1. OnDisk = Listing(disk)
    BY DEF Listing
  <2>2. Good => Loads
    BY <2>1, ConnectionsAssumption DEF Good
  <2> HIDE DEF Loads, OnDisk
  <2> QED BY <2>1, <2>2 DEF StartsOK, Good, Compiles, OpOK, TypeOK
<1>8. ServeOK'
  BY DEF ServeOK, OpOK
<1> HIDE DEF LoadDir, Loads, OnDisk, ingestVars, goroutines, connVars, bounds
<1> QED BY <1>1, <1>2, <1>3, <1>4, <1>5, <1>6, <1>7, <1>8 DEF ConnInv

LEMMA ShutdownKeeps ==
    ASSUME ConnInv, Shutdown
    PROVE  ConnInv'
<1> USE DEF Shutdown, Stop, ingestVars, goroutines, connVars, bounds, ConnInv
<1>1. TypeOK'
  BY DEF TypeOK, StopPc
<1>2. LaunchOK'
  BY DEF LaunchOK, Running
<1>3. StopOK'
  BY DEF StopOK, TypeOK
<1>4. OpOK'
  BY DEF OpOK
<1>5. AdaptersOK'
  BY DEF AdaptersOK, Want, Sources, Sinks, AtRest, NoOp
<1>6. FilesOK'
  BY DEF FilesOK, UndoOK, Named, Restored
<1>7. StartsOK'
  BY DEF StartsOK
<1>8. ServeOK'
  BY DEF ServeOK
<1> HIDE DEF Shutdown, Stop, ingestVars, goroutines, connVars, bounds
<1> QED BY <1>1, <1>2, <1>3, <1>4, <1>5, <1>6, <1>7, <1>8 DEF ConnInv

\* What a process that ends at rest leaves behind loads, compiles and starts.
LEMMA ExitKeeps ==
    ASSUME ConnInv, Exit
    PROVE  ConnInv'
<1> USE DEF Exit, Unfinished, MemoryGone, NoOp, NoCall, NoStop, NoUndo, ingestVars, goroutines, connVars, bounds, ConnInv
<1>1. TypeOK'
  BY DEF TypeOK, CallPc, StopPc, Content
<1>2. LaunchOK'
  BY DEF LaunchOK, Running
<1>3. StopOK'
  BY DEF StopOK
<1>4. OpOK'
  BY DEF OpOK
<1>5. AdaptersOK'
  BY DEF AdaptersOK, AtRest
<1>6. FilesOK'
  BY DEF FilesOK, Named
<1>7. StartsOK'
  <2>1. suspect' = {} => Good'
    <3> SUFFICES ASSUME suspect' = {} PROVE Good'
      OBVIOUS
    <3>1. suspect = {} /\ op.by \notin {"apply", "restore", "rollback"} /\ Sources(conns) \cap Unstartable = {}
      OBVIOUS
    <3>2. disk' = disk
      BY <3>1 DEF OpOK
    <3>3. Good
      <4>1. CASE main \in {"down", "exited"} \/ op.by = "boot"
        BY <4>1, <3>1 DEF StartsOK
      <4>2. CASE main \in {"up", "stopping"} /\ op.by = "nobody"
        <5>1. conns = Listing(disk) /\ Compiles(conns) /\ Named(conns)
          BY <4>2, <3>1 DEF FilesOK, StartsOK, OpOK
        <5> QED BY <5>1, <3>1, ConnectionsAssumption DEF Good, Compiles, Named, Sources, TypeOK, Manifest
      <4> QED BY <4>1, <4>2, <3>1 DEF TypeOK, OpOK
    <3> QED BY <3>2, <3>3 DEF Good
  <2> QED BY <2>1 DEF StartsOK
<1>8. ServeOK'
  BY DEF ServeOK
<1> HIDE DEF Exit, Unfinished, MemoryGone, NoOp, NoCall, NoStop, NoUndo, ingestVars, goroutines, connVars, bounds
<1> QED BY <1>1, <1>2, <1>3, <1>4, <1>5, <1>6, <1>7, <1>8 DEF ConnInv

LEMMA CrashKeeps ==
    ASSUME ConnInv, Crash
    PROVE  ConnInv'
<1> USE DEF Crash, Unfinished, MemoryGone, NoOp, NoCall, NoStop, NoUndo, ingestVars, goroutines, connVars, bounds, ConnInv
<1>1. TypeOK'
  BY DEF TypeOK, CallPc, StopPc, Content
<1>2. LaunchOK'
  BY DEF LaunchOK, Running
<1>3. StopOK'
  BY DEF StopOK
<1>4. OpOK'
  BY DEF OpOK
<1>5. AdaptersOK'
  BY DEF AdaptersOK, AtRest
<1>6. FilesOK'
  BY DEF FilesOK, Named
<1>7. StartsOK'
  <2>1. suspect' = {} => Good'
    <3> SUFFICES ASSUME suspect' = {} PROVE Good'
      OBVIOUS
    <3>1. suspect = {} /\ op.by \notin {"apply", "restore", "rollback"} /\ Sources(conns) \cap Unstartable = {}
      OBVIOUS
    <3>2. disk' = disk
      BY <3>1 DEF OpOK
    <3>3. Good
      <4>1. CASE main \in {"down", "exited"} \/ op.by = "boot"
        BY <4>1, <3>1 DEF StartsOK
      <4>2. CASE main \in {"up", "stopping"} /\ op.by = "nobody"
        <5>1. conns = Listing(disk) /\ Compiles(conns) /\ Named(conns)
          BY <4>2, <3>1 DEF FilesOK, StartsOK, OpOK
        <5> QED BY <5>1, <3>1, ConnectionsAssumption DEF Good, Compiles, Named, Sources, TypeOK, Manifest
      <4> QED BY <4>1, <4>2, <3>1 DEF TypeOK, OpOK
    <3> QED BY <3>2, <3>3 DEF Good
  <2> QED BY <2>1 DEF StartsOK
<1>8. ServeOK'
  BY DEF ServeOK
<1> HIDE DEF Crash, Unfinished, MemoryGone, NoOp, NoCall, NoStop, NoUndo, ingestVars, goroutines, connVars, bounds
<1> QED BY <1>1, <1>2, <1>3, <1>4, <1>5, <1>6, <1>7, <1>8 DEF ConnInv

-----------------------------------------------------------------------------
(* The specification. *)

LEMMA NextInv == ConnInv /\ [Next]_vars => ConnInv'
<1> SUFFICES ASSUME ConnInv, [Next]_vars PROVE ConnInv'
  OBVIOUS
<1>1. CASE LoadDir
  BY <1>1, LoadDirKeeps
<1>2. CASE RuntimeStep
  BY <1>2, CompileFailsKeeps, CompileKeeps, IngestFailsKeeps, ReplaceSinksKeeps, UndoApplyKeeps DEF RuntimeStep
<1>3. CASE ReconcileStep
  BY <1>3, ReconcileStopsKeeps, RelaunchKeeps, ProbeKeeps DEF ReconcileStep
<1>4. CASE StopStep
  BY <1>4, StopStopsKeeps, StopWaitsKeeps, StopReturnsKeeps DEF StopStep
<1>5. CASE StartIngest \/ Booted \/ Shutdown \/ Exit \/ Rollback \/ Crash
  BY <1>5, StartIngestKeeps, BootedKeeps, ShutdownKeeps, ExitKeeps, RollbackKeeps, CrashKeeps
<1>6. ASSUME NEW x \in Adapter \X Launch, AdapterStep(x) PROVE ConnInv'
  BY <1>6, ListenKeeps, StartFailsKeeps, StartReturnsKeeps, WatchKeeps DEF AdapterStep
<1>7. ASSUME NEW m \in Manifest, NEW p \in Path, ApplyFile(m, p) PROVE ConnInv'
  BY <1>7, ApplyFileKeeps
<1>8. CASE UNCHANGED vars
  <2> USE <1>8 DEF vars, ingestVars, goroutines, connVars, bounds, ConnInv
  <2>1. TypeOK' /\ StopOK' /\ LaunchOK' /\ OpOK'
    BY DEF TypeOK, StopOK, LaunchOK, OpOK, Running
  <2>2. AdaptersOK'
    BY DEF AdaptersOK, Want, AtRest
  <2>3. FilesOK'
    BY DEF FilesOK, UndoOK, Restored
  <2>4. StartsOK'
    BY DEF StartsOK, Good
  <2>5. ServeOK'
    BY DEF ServeOK, Served, Running
  <2> QED BY <2>1, <2>2, <2>3, <2>4, <2>5
<1> QED BY <1>1, <1>2, <1>3, <1>4, <1>5, <1>6, <1>7, <1>8 DEF Next

LEMMA ConnInvHolds == Spec => []ConnInv
<1> QED BY InitInv, NextInv, PTL DEF Spec

\* Whenever adapters run they are of one launch: Reconcile (adapter.go) waits for
\* every goroutine of the old launch before it starts the new one.
THEOREM LaunchesApart == Spec => []OneLaunchRuns
<1>1. ConnInv => OneLaunchRuns
  BY DEF ConnInv, LaunchOK, OneLaunchRuns
<1> QED BY <1>1, ConnInvHolds, PTL

\* Manager.Stop closes the output channel only when no adapter is left to send on
\* it and its WaitGroup does not panic, if no Reconcile was going on when it was
\* called.
THEOREM StopSafe == Spec => []StopIsSafe
<1>1. ConnInv => StopIsSafe
  BY DEF ConnInv, StopOK, StopIsSafe, TypeOK
<1> QED BY <1>1, ConnInvHolds, PTL

\* Between calls a connection's source runs and has not been stopped, by a watcher
\* of an earlier launch or anyone else, or its error is in the health report.
THEOREM SourcesRun == Spec => []SourcesServe
<1>1. ConnInv => SourcesServe
  <2> SUFFICES ASSUME ConnInv, AtRest, mgr.running, "undo" \notin suspect, NEW a \in Sources(conns)
               PROVE  <<a, mgr.launch>> \in Running \ shut \/ a \in errs
    BY DEF SourcesServe
  <2>1. main = "up" /\ op.stage = "idle"
    BY DEF AtRest, NoOp
  <2>2. a \in mgr.adapters \cap Dynamic
    BY DEF ConnInv, AdaptersOK, Want, Sources
  <2>3. Served(a)
    BY <2>1, <2>2 DEF ConnInv, ServeOK
  <2> QED BY <2>3 DEF Served
<1> QED BY <1>1, ConnInvHolds, PTL

\* Between calls the manifests on disk, the maps of the connection manager and what
\* Runtime.Reconcile has running agree, unless an undo failed.
THEOREM FilesAgree == Spec => []FilesMatchRuntime
<1>1. ConnInv => FilesMatchRuntime
  BY DEF ConnInv, FilesOK, AdaptersOK, Want, FilesMatchRuntime, AtRest, OnDisk, Listing
<1> QED BY <1>1, ConnInvHolds, PTL

\* A start that ends in FATAL (cmd/worm/main.go) follows an unfinished call, a
\* failed undo or a source that failed after its probe.
THEOREM FatalExplained == Spec => []FatalIsExplained
<1>1. ConnInv => FatalIsExplained
  BY DEF ConnInv, StartsOK, FatalIsExplained
<1> QED BY <1>1, ConnInvHolds, PTL

=============================================================================
