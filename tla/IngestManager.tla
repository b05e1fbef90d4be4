--------------------------- MODULE IngestManager ----------------------------
(***************************************************************************)
(* The ingest manager of internal/ingest/adapter.go: it launches the       *)
(* adapters, replaces them (Reconcile) and stops them (Stop).  Both let go *)
(* of the mutex while they cancel, stop and wait for the old adapters.     *)
(*                                                                         *)
(* A goroutine of an adapter is <<adapter, launch>>; every launch has its  *)
(* own context, derived from main's.  Listeners (http.go, syslog.go's TCP, *)
(* syslog_tls.go) also start a goroutine that waits for the context and    *)
(* calls Stop: a watcher.  Stop closes the listener the adapter has        *)
(* registered last.  The adapters of main are the same objects in every    *)
(* launch; those of connections are compiled anew.                         *)
(***************************************************************************)
EXTENDS Integers, FiniteSets

CONSTANTS
    Static,     \* main's own adapters
    Dynamic,    \* adapters of connections
    Loops,      \* adapters without a listener: UDP, poller, Kafka (syslog.go 48)
    MaxLaunch,  \* bound on launches in one process
    MaxStale    \* bound on watchers that are late when the next launch comes

Adapter == Static \cup Dynamic
Launch == 1 .. MaxLaunch

ASSUME IngestAssumption ==
    /\ Static \cap Dynamic = {}
    /\ Loops \subseteq Adapter
    /\ MaxLaunch \in Nat \ {0} /\ MaxStale \in Nat

VARIABLES
    mgr,        \* the Manager: [running, stopped, adapters, launch]
    parentDone, \* main has cancelled its context
    cancelled,  \* launches whose own context is cancelled
    starting, serving,  \* goroutines between go and listen, and after it
    shut,       \* serving goroutines whose adapter was stopped
    watchers,   \* goroutines that wait for a context and then call Stop
    registered, \* [Static -> launch whose listener is in the object's field, or 0]
    errs,       \* adapterErrs
    open,       \* the output channel is open
    call,       \* Reconcile: [pc, next, todo]
    stopping,   \* Stop: [pc, todo]
    overlapped, \* Stop was called while a Reconcile was going on
    panicked    \* sync.WaitGroup has panicked

goroutines == <<starting, serving, shut, watchers, registered, errs>>
ingestVars == <<mgr, parentDone, cancelled, goroutines, open, call, stopping, overlapped, panicked>>

NoCall == [pc |-> "idle", next |-> {}, todo |-> {}]
NoStop == [pc |-> "idle", todo |-> {}]

\* The Manager of a new process.
IngestInit ==
    /\ mgr = [running |-> FALSE, stopped |-> FALSE, adapters |-> {}, launch |-> 0]
    /\ parentDone = FALSE /\ cancelled = {}
    /\ starting = {} /\ serving = {} /\ shut = {} /\ watchers = {}
    /\ registered = [a \in Static |-> 0]
    /\ errs = {} /\ open = TRUE
    /\ call = NoCall /\ stopping = NoStop
    /\ overlapped = FALSE /\ panicked = FALSE

Running == starting \cup serving
Done(g) == parentDone \/ g \in cancelled

-----------------------------------------------------------------------------
(* An adapter's goroutine. *)

\* The goroutine whose listener the object of adapter a, as of launch g, holds.
Target(a, g) == IF a \in Static THEN <<a, registered[a]>> ELSE <<a, g>>

\* Stop of a: a listener that is not registered yet is not there to close.
StopEffect(a, g) == {Target(a, g)} \cap serving

\* Mutant: no goroutine waits for the context.
NoWatcher(x) == watchers

\* The goroutine that waits for the context.
Watcher(x) == watchers \cup {x}

\* Start binds its address and registers what it has bound.
Listen(x) ==
    /\ x \in starting
    /\ starting' = starting \ {x} /\ serving' = serving \cup {x}
    /\ watchers' = Watcher(x)
    /\ registered' = IF x[1] \in Static THEN [registered EXCEPT ![x[1]] = x[2]] ELSE registered
    /\ UNCHANGED <<mgr, parentDone, cancelled, shut, errs, open, call, stopping, overlapped, panicked>>

\* Mutant: any goroutine that returns wakes the waiter.
WakeEarly(left) == stopping' = IF stopping.pc = "waiting" THEN [stopping EXCEPT !.pc = "woken"] ELSE stopping

\* The last goroutine wakes whoever waits for the WaitGroup.
Wake(left) == stopping' = IF left = {} /\ stopping.pc = "waiting" THEN [stopping EXCEPT !.pc = "woken"] ELSE stopping

\* The goroutine ends.  (The watcher of a connection's adapter has nothing left
\* to stop then; that of a static one has the object's next listener.)
Returned(x) ==
    /\ starting' = starting \ {x} /\ serving' = serving \ {x} /\ shut' = shut \ {x}
    /\ watchers' = IF x[1] \in Static THEN watchers ELSE watchers \ {x}
    /\ Wake(Running \ {x})
    /\ UNCHANGED <<mgr, parentDone, cancelled, registered, open, call, overlapped, panicked>>

\* Mutant: the error of an adapter is swallowed.
ErrorLost(x) == errs

\* The error of an adapter is kept for the health report, unless its context is
\* done.
ErrorKept(x) == IF Done(x[2]) THEN errs ELSE errs \cup {x[1]}

\* Start returns an error (address in use, a broker that refuses a commit).
StartFails(x) ==
    /\ x \in starting \/ (x \in serving /\ x[1] \in Loops)
    /\ errs' = ErrorKept(x)
    /\ Returned(x)

\* Start returns nil: the adapter was stopped, or is a loop whose context is done.
StartReturns(x) ==
    /\ x \in serving /\ (x \in shut \/ (x[1] \in Loops /\ Done(x[2])))
    /\ Returned(x)
    /\ UNCHANGED errs

\* <-ctx.Done(); Stop().
Watch(x) ==
    /\ x \in watchers /\ Done(x[2])
    /\ watchers' = watchers \ {x}
    /\ shut' = shut \cup StopEffect(x[1], x[2])
    /\ UNCHANGED <<mgr, parentDone, cancelled, starting, serving, registered, errs, open, call, stopping,
                   overlapped, panicked>>

-----------------------------------------------------------------------------
(* Launching, under the mutex. *)

\* One goroutine per adapter; a loop, which has nothing to bind, serves at once.
launchLocked(adapters, g) ==
    /\ starting' = starting \cup ((adapters \ Loops) \X {g})
    /\ serving' = serving \cup ((adapters \cap Loops) \X {g})

\* Start, called once by main; probeStartup is the end of both Start and
\* Reconcile.
StartManager ==
    /\ ~mgr.running /\ ~mgr.stopped /\ call.pc = "idle"
    /\ mgr' = [mgr EXCEPT !.running = TRUE, !.launch = mgr.launch + 1]
    /\ launchLocked(mgr.adapters, mgr.launch + 1)
    /\ call' = [NoCall EXCEPT !.pc = "probe"]
    /\ UNCHANGED <<parentDone, cancelled, shut, watchers, registered, errs, open, stopping, overlapped, panicked>>

\* Reconcile up to the end of its first critical section.
Reconcile(next) ==
    /\ call.pc = "idle"
    /\ \/ /\ mgr.stopped
          /\ call' = [NoCall EXCEPT !.pc = "failed"]
          /\ UNCHANGED <<mgr, cancelled, errs>>
       \/ /\ ~mgr.stopped /\ mgr.running
          /\ mgr' = [mgr EXCEPT !.running = FALSE]
          /\ cancelled' = cancelled \cup {mgr.launch}
          /\ call' = [pc |-> IF mgr.adapters = {} THEN "waiting" ELSE "stopping", next |-> next, todo |-> mgr.adapters]
          /\ UNCHANGED errs
       \/ /\ ~mgr.stopped /\ ~mgr.running
          /\ mgr' = [mgr EXCEPT !.adapters = next]
          /\ errs' = {}
          /\ call' = [NoCall EXCEPT !.pc = "ok"]
          /\ UNCHANGED cancelled
    /\ UNCHANGED <<parentDone, starting, serving, shut, watchers, registered, open, stopping, overlapped, panicked>>

\* The adapters are stopped one by one, the static ones first.
First(todo) == CHOOSE a \in todo : a \in Static \/ todo \cap Static = {}

\* Stop of each old adapter, then wg.Wait.
ReconcileStops ==
    /\ call.pc = "stopping"
    /\ LET a == First(call.todo)
       IN /\ call' = [call EXCEPT !.todo = @ \ {a}, !.pc = IF call.todo = {a} THEN "waiting" ELSE "stopping"]
          /\ shut' = shut \cup StopEffect(a, mgr.launch)
    /\ UNCHANGED <<mgr, parentDone, cancelled, starting, serving, watchers, registered, errs, open, stopping,
                   overlapped, panicked>>

\* Mutant: the old adapters are not waited for.
OldGoneEager == TRUE

\* wg.Wait of Reconcile returns.
OldGone == Running = {}

\* The second critical section: the new adapters are launched.
Relaunch ==
    /\ call.pc = "waiting" /\ OldGone
    /\ mgr.launch < MaxLaunch /\ Cardinality(watchers) <= MaxStale
    /\ mgr' = [mgr EXCEPT !.running = TRUE, !.launch = mgr.launch + 1, !.adapters = call.next]
    /\ errs' = {}
    /\ launchLocked(call.next, mgr.launch + 1)
    /\ call' = [call EXCEPT !.pc = "probe"]
    /\ UNCHANGED <<parentDone, cancelled, shut, watchers, registered, open, stopping, overlapped, panicked>>

\* 50 ms later, or when the context is done: an adapter that has failed by now
\* fails the call.
probeStartup ==
    /\ call.pc = "probe"
    /\ call' = [call EXCEPT !.pc = IF errs = {} THEN "ok" ELSE "failed"]
    /\ UNCHANGED <<mgr, parentDone, cancelled, goroutines, open, stopping, overlapped, panicked>>

-----------------------------------------------------------------------------
(* Stop, after main has cancelled its context. *)

Stop ==
    /\ stopping.pc = "idle"
    /\ parentDone' = TRUE
    /\ mgr' = [mgr EXCEPT !.stopped = TRUE, !.running = FALSE]
    /\ stopping' = [pc |-> "stopping", todo |-> mgr.adapters]
    /\ overlapped' = (call.pc # "idle")
    /\ UNCHANGED <<cancelled, goroutines, open, call, panicked>>

StopStops ==
    /\ stopping.pc = "stopping" /\ stopping.todo # {}
    /\ stopping' = [stopping EXCEPT !.todo = @ \ {First(stopping.todo)}]
    /\ shut' = shut \cup StopEffect(First(stopping.todo), mgr.launch)
    /\ UNCHANGED <<mgr, parentDone, cancelled, starting, serving, watchers, registered, errs, open, call,
                   overlapped, panicked>>

CloseOut == stopping' = [stopping EXCEPT !.pc = "done"] /\ open' = FALSE

\* wg.Wait: with nothing to wait for the channel is closed at once.
StopWaits ==
    /\ stopping.pc = "stopping" /\ stopping.todo = {}
    /\ \/ Running = {} /\ CloseOut
       \/ Running # {} /\ stopping' = [stopping EXCEPT !.pc = "waiting"] /\ UNCHANGED open
    /\ UNCHANGED <<mgr, parentDone, cancelled, goroutines, call, overlapped, panicked>>

\* Woken up, wg.Wait returns and the channel is closed; a WaitGroup that is in
\* use again by then panics.
StopReturns ==
    /\ stopping.pc = "woken"
    /\ \/ Running = {} /\ CloseOut /\ UNCHANGED panicked
       \/ Running # {} /\ panicked' = TRUE /\ stopping' = [stopping EXCEPT !.pc = "done"] /\ UNCHANGED open
    /\ UNCHANGED <<mgr, parentDone, cancelled, goroutines, call, overlapped>>

=============================================================================
