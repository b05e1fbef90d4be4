------------------------------ MODULE PackStore ------------------------------
(***************************************************************************)
(* internal/packs/manager.go: a change of the parser pack set as a         *)
(* sequence of file writes under a transaction record, its abort, and the  *)
(* recovery that every start and every later change begins with.           *)
(*                                                                         *)
(* A write is one atomicWrite, durableRemove or Remove; a crash falls      *)
(* between two writes.  A write that returns an error has changed the file *)
(* or not: the rename of atomicReplace and the removal of durableRemove    *)
(* come before the sync of the directory that may fail.  mutationMu and    *)
(* the lock of the directory let one change run at a time, in the daemon   *)
(* or in a command-line process that makes one change.  The previous snapshot and the *)
(* backup in memory serve only a manager without a directory.              *)
(***************************************************************************)
EXTENDS PackManifest

CONSTANTS MaxOps, MaxFaults, MaxCrashes   \* bounds of the model

ASSUME BoundAssumption == MaxOps \in Nat /\ MaxFaults \in Nat /\ MaxCrashes \in Nat

\* The record of a change, pending or committed.
TxnRec == [file : File, before : Pack \cup {None}, prior : Manifest \cup {None},
           priorUndo : UndoRec \cup {None}, committed : BOOLEAN,
           undo : UndoRec \cup {None}, next : Manifest \cup {None}]

ASSUME TxnAssumption == None \notin TxnRec

VARIABLES
    disk,     \* the pack files, manifest.json, rollback.json and transaction.json
    up,       \* "down", "cli", "exiting" (its change made), "loaded", "serving" (API up)
    op,       \* the change in progress: its kind, phase, target and writes to do
    active,   \* the files of the active snapshot, None without one
    late,     \* history: a write failed with the committed record on disk
    stale,    \* history: RollbackPack read a manifest that its recovery took back
    ops, faults, crashes   \* counted against the bounds

vars == <<disk, up, op, active, late, stale, ops, faults, crashes>>

NoOp == [kind |-> "none", pc |-> "idle", target |-> None, txn |-> None, todo |-> <<>>]

Init ==
    /\ \E fs \in Shipped :
          ValidSet(fs) /\ disk = [files |-> fs, manifest |-> None, undo |-> None, txn |-> None]
    /\ up = "down" /\ op = NoOp /\ active = None /\ late = FALSE /\ stale = FALSE
    /\ ops = 0 /\ faults = 0 /\ crashes = 0

-----------------------------------------------------------------------------
(* Writes. *)

PutFile(f, p) == [what |-> "files", val |-> [file |-> f, pack |-> p]]
PutUndo(u) == [what |-> "undo", val |-> u]
PutManifest(m) == [what |-> "manifest", val |-> m]
PutTxn(t) == [what |-> "txn", val |-> t]

Put(w) == IF w.what = "files" THEN [disk EXCEPT !.files[w.val.file] = w.val.pack]
          ELSE [disk EXCEPT ![w.what] = w.val]

\* A failed Remove left the file; any other failed write may have happened.
AfterFailure(w) == {disk} \cup (IF w.what # "files" /\ w.val = None THEN {} ELSE {Put(w)})

\* Mutant: the record is dropped before the files are restored.
AbortWritesRecordFirst(t) ==
    <<PutTxn(None), PutFile(t.file, t.before), PutUndo(t.priorUndo), PutManifest(t.prior)>>

\* abortTransaction: take the change back, then drop its record.
AbortWrites(t) ==
    <<PutFile(t.file, t.before), PutUndo(t.priorUndo), PutManifest(t.prior), PutTxn(None)>>

\* Mutant: an uncommitted change is finished instead of taken back.
RecoverWritesForward(t) == IF t = None THEN <<>> ELSE <<PutTxn(None)>>

\* RecoverTransactions: finish a committed change, take back any other.
RecoverWrites(t) ==
    IF t = None THEN <<>>
    ELSE IF ~t.committed THEN AbortWrites(t)
    ELSE <<PutUndo(t.undo)>> \o (IF t.next = None THEN <<>> ELSE <<PutManifest(t.next)>>) \o <<PutTxn(None)>>

\* What RecoverTransactions makes of the disk.
View ==
    LET t == disk.txn
    IN  IF t = None
        THEN [files |-> disk.files, manifest |-> disk.manifest, undo |-> disk.undo]
        ELSE IF t.committed
        THEN [files |-> disk.files, undo |-> t.undo,
              manifest |-> IF t.next = None THEN disk.manifest ELSE t.next]
        ELSE [files |-> [disk.files EXCEPT ![t.file] = t.before], undo |-> t.priorUndo, manifest |-> t.prior]

-----------------------------------------------------------------------------
(* Requests. *)

Recovering(kind, target) ==
    [kind |-> kind, pc |-> "recover", target |-> target, txn |-> None, todo |-> RecoverWrites(disk.txn)]

\* main and the command line: recover, then load.
Start ==
    /\ up = "down" /\ op = NoOp
    /\ op' = Recovering("start", None)
    /\ UNCHANGED <<disk, up, active, late, stale, ops, faults, crashes>>

\* target is what a change will write: a file, its pack, and for a rollback
\* the manifest that goes with it.
Request(kind, target) ==
    /\ up \in {"cli", "serving"} /\ active # None /\ op = NoOp
    /\ up' = IF up = "cli" THEN "exiting" ELSE up
    /\ ops < MaxOps /\ ops' = ops + 1
    /\ op' = Recovering(kind, target)
    /\ UNCHANGED <<disk, active, late, faults, crashes>>

ApplyPackFile(f, p) == Request("apply", [file |-> f, pack |-> p, man |-> None]) /\ UNCHANGED stale
RemovePackFile(f) == Request("remove", [file |-> f, pack |-> None, man |-> None]) /\ UNCHANGED stale
Rollback == Request("rollback", None) /\ UNCHANGED stale

\* The manifest is read here, before the recovery that Request begins with.
RollbackPack(n) ==
    /\ up = "serving"
    /\ History(disk.manifest, n) # <<>>
    /\ LET r == LastRevision(disk.manifest, n)
       IN  Request("rollbackPack", [file |-> r.file, pack |-> r.pack, man |-> RolledBack(disk.manifest, n)])
    /\ stale' = (stale \/ disk.manifest # View.manifest)

\* The API server adopts the packs that have no manifest entry; it ignores errors.
Serve ==
    /\ up = "loaded" /\ op = NoOp
    /\ up' = "serving"
    /\ LET w == PutManifest(Adopted(disk.manifest, disk.files))
       IN  \/ disk' = Put(w) /\ UNCHANGED faults
           \/ disk' \in AfterFailure(w) /\ faults < MaxFaults /\ faults' = faults + 1
    /\ UNCHANGED <<op, active, late, stale, ops, crashes>>

-----------------------------------------------------------------------------
(* The steps of a change. *)

Goto(pc, todo) == op' = [op EXCEPT !.pc = pc, !.todo = todo]
Return == op' = NoOp

\* One write succeeds.
Write ==
    /\ op.todo # <<>>
    /\ disk' = Put(Head(op.todo))
    /\ op' = [op EXCEPT !.todo = Tail(@)]
    /\ UNCHANGED <<up, active, late, stale, ops, faults, crashes>>

\* Recovery is done: a start loads the directory.
Load ==
    /\ op.kind = "start" /\ op.todo = <<>>
    /\ up' \in {"cli", "loaded"}
    /\ active' = IF ValidSet(disk.files) THEN disk.files ELSE None
    /\ Return
    /\ UNCHANGED <<disk, late, stale, ops, faults, crashes>>

\* beginFileTransaction and the pending record; the change may be refused
\* because the file is not what the caller expected.
Begin ==
    LET goal == IF op.kind = "rollback" THEN disk.undo ELSE op.target
        pending == [file |-> goal.file, before |-> disk.files[goal.file], prior |-> disk.manifest,
                    priorUndo |-> disk.undo, committed |-> FALSE, undo |-> None, next |-> None]
        stage == <<PutTxn(pending), PutFile(goal.file, goal.pack)>>
                 \o (IF op.kind \in {"rollback", "rollbackPack"} THEN <<PutManifest(goal.man)>> ELSE <<>>)
    IN  /\ op.pc = "recover" /\ op.kind # "start" /\ op.todo = <<>>
        /\ \/ /\ goal # None
              /\ op.kind = "remove" => disk.files[goal.file] # None
              /\ op' = [op EXCEPT !.pc = "stage", !.target = goal, !.txn = pending, !.todo = stage]
           \/ goal = None /\ Return
           \/ op.kind \in {"apply", "remove"} /\ Return
        /\ UNCHANGED <<disk, up, active, late, stale, ops, faults, crashes>>

\* LoadDir of the staged directory and, for an install, the identity checks.
Validated ==
    /\ ValidSet(disk.files)
    /\ op.kind = "apply" => NameAllowed(op.txn.before, op.txn.file, op.target.pack)

NextManifest ==
    LET t == op.txn
    IN  IF op.kind = "apply" THEN NextManifestForApply(t.prior, t.before, t.file, op.target.pack)
        ELSE IF op.kind = "remove" THEN NextManifestForRemove(t.prior, t.before, t.file)
        ELSE disk.manifest

\* Mutant: the rollback record holds the next manifest.
CommitUndoesToNext ==
    LET t == op.txn
        committed == [t EXCEPT !.committed = TRUE, !.next = NextManifest,
                               !.undo = [file |-> t.file, pack |-> t.before, man |-> NextManifest]]
        promised == <<PutTxn(committed), PutUndo(committed.undo)>>
                    \o (IF op.kind \in {"apply", "remove"} THEN <<PutManifest(committed.next)>> ELSE <<>>)
    IN  /\ op.pc = "stage" /\ op.todo = <<>> /\ Validated
        /\ Goto("commit", Append(promised, PutTxn(None)))
        /\ UNCHANGED <<disk, up, active, late, stale, ops, faults, crashes>>

\* The staged set is valid: the committed record, then what it promises.
Commit ==
    LET t == op.txn
        committed == [t EXCEPT !.committed = TRUE, !.next = NextManifest,
                               !.undo = [file |-> t.file, pack |-> t.before, man |-> t.prior]]
        promised == <<PutTxn(committed), PutUndo(committed.undo)>>
                    \o (IF op.kind \in {"apply", "remove"} THEN <<PutManifest(committed.next)>> ELSE <<>>)
    IN  /\ op.pc = "stage" /\ op.todo = <<>> /\ Validated
        /\ Goto("commit", Append(promised, PutTxn(None)))
        /\ UNCHANGED <<disk, up, active, late, stale, ops, faults, crashes>>

Reject ==
    /\ op.pc = "stage" /\ op.todo = <<>> /\ ~Validated
    /\ Goto("abort", AbortWrites(op.txn))
    /\ UNCHANGED <<disk, up, active, late, stale, ops, faults, crashes>>

\* Mutant: the new snapshot is not activated.
FinishKeepsActive ==
    /\ op.pc \in {"commit", "abort"} /\ op.todo = <<>>
    /\ UNCHANGED active
    /\ Return
    /\ UNCHANGED <<disk, up, late, stale, ops, faults, crashes>>

\* The last write is done: a committed change activates the staged set.
Finish ==
    /\ op.pc \in {"commit", "abort"} /\ op.todo = <<>>
    /\ active' = IF op.pc = "commit" THEN disk.files ELSE active
    /\ Return
    /\ UNCHANGED <<disk, up, late, stale, ops, faults, crashes>>

\* The record could not be removed: an install or removal does not mind.
Cleaning == op.pc = "commit" /\ op.todo = <<PutTxn(None)>>

\* One write fails.
WriteFails ==
    /\ op.todo # <<>>
    /\ faults < MaxFaults /\ faults' = faults + 1
    /\ disk' \in AfterFailure(Head(op.todo))
    /\ \/ /\ Cleaning /\ op.kind \in {"apply", "remove"}
          /\ active' = disk.files /\ Return
          /\ UNCHANGED <<up, late>>
       \/ /\ Cleaning /\ op.kind \in {"rollback", "rollbackPack"}
          /\ Return /\ late' = TRUE
          /\ UNCHANGED <<up, active>>
       \/ /\ op.pc = "commit" /\ ~Cleaning
          /\ Goto("abort", AbortWrites(op.txn))
          /\ late' = (late \/ disk'.txn.committed)
          /\ UNCHANGED <<up, active>>
       \/ /\ op.pc = "stage"
          /\ IF Head(op.todo).what = "txn" THEN Return ELSE Goto("abort", AbortWrites(op.txn))
          /\ UNCHANGED <<up, active, late>>
       \/ /\ op.pc \in {"recover", "abort"}
          /\ Return
          /\ UNCHANGED <<up, active, late>>
    /\ UNCHANGED <<stale, ops, crashes>>

Exit ==
    /\ up # "down" /\ op = NoOp
    /\ up' = "down" /\ active' = None
    /\ UNCHANGED <<disk, op, late, stale, ops, faults, crashes>>

\* The process stops between two steps of a change or of a start.
Crash ==
    /\ op # NoOp
    /\ crashes < MaxCrashes /\ crashes' = crashes + 1
    /\ up' = "down" /\ op' = NoOp /\ active' = None
    /\ UNCHANGED <<disk, late, stale, ops, faults>>

Next ==
    \/ Start \/ Load \/ Serve \/ Begin \/ Write \/ WriteFails \/ Commit \/ Reject \/ Finish \/ Exit \/ Crash
    \/ \E f \in File : RemovePackFile(f) \/ \E p \in Pack : ApplyPackFile(f, p)
    \/ Rollback
    \/ \E n \in Name : RollbackPack(n)

Spec == Init /\ [][Next]_vars

-----------------------------------------------------------------------------
(* Properties. *)

\* Whatever was interrupted, a restart finds a pack set that LoadDir accepts.
RestartLoads == ValidSet(View.files)

\* No write failed after the commit record, and no change was computed from
\* a manifest that was not the committed one.
Sound == ~late /\ ~stale

\* The manifest a restart finds tells the truth about the pack files, unless
\* a write failed after the commit record or RollbackPack used a stale manifest.
ManifestDescribesFiles == Sound => Describes(View.manifest, View.files)

\* A rollback would restore a pack set that loads and a manifest that
\* describes it.
UndoIsConsistent ==
    LET u == View.undo
        fs == [View.files EXCEPT ![u.file] = u.pack]
    IN  Sound /\ u # None => ValidSet(fs) /\ Describes(u.man, fs)

\* Between changes, the active snapshot is what a restart would load.
ServesWhatRestartLoads == ~late /\ up # "down" /\ op = NoOp => active = View.files

Promise == INSTANCE PackSet WITH
    files <- View.files, manifest <- View.manifest, undo <- View.undo

\* Writes, aborts, recoveries and crashes implement the whole changes of
\* PackSet, unless a write failed after the commit record or RollbackPack
\* used a stale manifest.
KeepsPackSet == Promise!Init /\ [][Promise!Next \/ ~Sound']_<<View.files, View.manifest, View.undo>>

=============================================================================
