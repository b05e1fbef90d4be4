------------------------------ MODULE PackProofs ------------------------------
(***************************************************************************)
(* The pack manager, for every set of files, packs and names and any       *)
(* number of changes, failed writes and crashes: a restart always loads    *)
(* (RestartSafe), the active snapshot is what it would load (ServesRestart),*)
(* the writes implement the whole changes of PackSet (KeepsSet), and from  *)
(* that the manifest and the rollback record tell the truth (ManifestTrue, *)
(* UndoTrue).                                                              *)
(***************************************************************************)
EXTENDS PackStore, SequenceTheorems, TLAPS

-----------------------------------------------------------------------------
(* The inductive invariant, over a disk d and a change o in progress. *)

DiskRec == [files : FileSet, manifest : Manifest \cup {None},
            undo : UndoRec \cup {None}, txn : TxnRec \cup {None}]

Kinds == {"none", "start", "apply", "remove", "rollback", "rollbackPack"}
Phases == {"idle", "recover", "stage", "commit", "abort"}
Processes == {"down", "cli", "exiting", "loaded", "serving"}
RollsBack(o) == o.kind \in {"rollback", "rollbackPack"}

OpTypeOK(o) ==
    /\ o = [kind |-> o.kind, pc |-> o.pc, target |-> o.target, txn |-> o.txn, todo |-> o.todo]
    /\ o.kind \in Kinds /\ o.pc \in Phases
    /\ o.target \in UndoRec \cup {None} /\ o.txn \in TxnRec \cup {None}

PackTypeOK ==
    /\ disk \in DiskRec /\ up \in Processes /\ OpTypeOK(op)
    /\ late \in BOOLEAN /\ stale \in BOOLEAN

\* What a write makes of d, and what a recovery would make of it.
Effect(d, w) ==
    IF w.what = "files" THEN [d EXCEPT !.files[w.val.file] = w.val.pack]
    ELSE [d EXCEPT ![w.what] = w.val]

ViewFiles(d) == IF d.txn = None \/ d.txn.committed THEN d.files
                ELSE [d.files EXCEPT ![d.txn.file] = d.txn.before]
ViewUndo(d) == IF d.txn = None THEN d.undo
               ELSE IF d.txn.committed THEN d.txn.undo ELSE d.txn.priorUndo
ViewManifest(d) == IF d.txn = None \/ (d.txn.committed /\ d.txn.next = None) THEN d.manifest
                   ELSE IF d.txn.committed THEN d.txn.next ELSE d.txn.prior

\* A recovery finds the same set, manifest and rollback record.
SameView(d, e) ==
    ViewFiles(d) = ViewFiles(e) /\ ViewUndo(d) = ViewUndo(e) /\ ViewManifest(d) = ViewManifest(e)

\* The pack files with the change of t taken back.
Prior(d, t) == [d.files EXCEPT ![t.file] = t.before]

\* The pack files load whether the change of the record is taken back or,
\* once committed, kept.
DiskOK(d) ==
    /\ d.txn = None \/ d.txn.committed => ValidSet(d.files)
    /\ d.txn # None => ValidSet(Prior(d, d.txn))

\* What is left of taking t back, and what has been restored by then.
TakingBack(d, t, todo) ==
    \/ todo = <<PutFile(t.file, t.before), PutUndo(t.priorUndo), PutManifest(t.prior), PutTxn(None)>>
    \/ /\ todo = <<PutUndo(t.priorUndo), PutManifest(t.prior), PutTxn(None)>>
       /\ d.files = Prior(d, t)
    \/ /\ todo = <<PutManifest(t.prior), PutTxn(None)>>
       /\ d.files = Prior(d, t) /\ d.undo = t.priorUndo
    \/ /\ todo = <<PutTxn(None)>>
       /\ d.files = Prior(d, t) /\ d.undo = t.priorUndo /\ d.manifest = t.prior

\* What is left of finishing the committed t, and what has been written.
Finishing(d, t, todo) ==
    \/ todo = <<PutUndo(t.undo), PutManifest(t.next), PutTxn(None)>> /\ t.next # None
    \/ todo = <<PutUndo(t.undo), PutTxn(None)>> /\ t.next = None
    \/ /\ todo = <<PutManifest(t.next), PutTxn(None)>>
       /\ t.next # None /\ d.undo = t.undo
    \/ /\ todo = <<PutTxn(None)>>
       /\ d.undo = t.undo /\ (t.next = None \/ d.manifest = t.next)

RecoverOK(d, o) ==
    /\ o.txn = None
    /\ \/ d.txn = None /\ o.todo = <<>>
       \/ d.txn # None /\ ~d.txn.committed /\ TakingBack(d, d.txn, o.todo)
       \/ d.txn # None /\ d.txn.committed /\ Finishing(d, d.txn, o.todo)

\* The record and the target of a change that is staged, committed or aborted.
ChangeOK(d, o) ==
    /\ o.txn # None /\ o.target # None /\ o.txn.file = o.target.file
    /\ ~o.txn.committed
    /\ ValidSet(Prior(d, o.txn))
    /\ o.kind \in {"apply", "remove", "rollback", "rollbackPack"}
    /\ o.kind = "remove" => o.txn.before # None
    /\ o.kind = "rollback" => o.target = o.txn.priorUndo

\* The manifest once the change is staged, and the one its commit promises.
StagedManifest(o) == IF RollsBack(o) THEN o.target.man ELSE o.txn.prior

CommitManifest(o) ==
    IF o.kind = "apply" THEN NextManifestForApply(o.txn.prior, o.txn.before, o.txn.file, o.target.pack)
    ELSE IF o.kind = "remove" THEN NextManifestForRemove(o.txn.prior, o.txn.before, o.txn.file)
    ELSE o.target.man

CommitUndo(o) == [file |-> o.txn.file, pack |-> o.txn.before, man |-> o.txn.prior]

Committed(o) ==
    [o.txn EXCEPT !.committed = TRUE, !.next = CommitManifest(o), !.undo = CommitUndo(o)]

StageOK(d, o) ==
    /\ d.undo = o.txn.priorUndo
    /\ \/ /\ o.todo = IF RollsBack(o)
                      THEN <<PutTxn(o.txn), PutFile(o.txn.file, o.target.pack), PutManifest(o.target.man)>>
                      ELSE <<PutTxn(o.txn), PutFile(o.txn.file, o.target.pack)>>
          /\ d.txn = None /\ d.files = Prior(d, o.txn) /\ d.manifest = o.txn.prior
       \/ /\ o.todo = IF RollsBack(o)
                      THEN <<PutFile(o.txn.file, o.target.pack), PutManifest(o.target.man)>>
                      ELSE <<PutFile(o.txn.file, o.target.pack)>>
          /\ d.txn = o.txn /\ d.files = Prior(d, o.txn) /\ d.manifest = o.txn.prior
       \/ /\ RollsBack(o) /\ o.todo = <<PutManifest(o.target.man)>>
          /\ d.txn = o.txn /\ d.files[o.txn.file] = o.target.pack /\ d.manifest = o.txn.prior
       \/ /\ o.todo = <<>>
          /\ d.txn = o.txn /\ d.files[o.txn.file] = o.target.pack /\ d.manifest = StagedManifest(o)

CommitOK(d, o) ==
    /\ ValidSet(d.files) /\ d.files[o.txn.file] = o.target.pack
    /\ o.kind = "apply" => NameAllowed(o.txn.before, o.txn.file, o.target.pack)
    /\ \/ /\ o.todo = IF RollsBack(o)
                      THEN <<PutTxn(Committed(o)), PutUndo(CommitUndo(o)), PutTxn(None)>>
                      ELSE <<PutTxn(Committed(o)), PutUndo(CommitUndo(o)), PutManifest(CommitManifest(o)), PutTxn(None)>>
          /\ d.txn = o.txn /\ d.undo = o.txn.priorUndo /\ d.manifest = StagedManifest(o)
       \/ /\ o.todo = IF RollsBack(o)
                      THEN <<PutUndo(CommitUndo(o)), PutTxn(None)>>
                      ELSE <<PutUndo(CommitUndo(o)), PutManifest(CommitManifest(o)), PutTxn(None)>>
          /\ d.txn = Committed(o) /\ d.manifest = StagedManifest(o)
       \/ /\ ~RollsBack(o) /\ o.todo = <<PutManifest(CommitManifest(o)), PutTxn(None)>>
          /\ d.txn = Committed(o) /\ d.undo = CommitUndo(o)
       \/ /\ o.todo = <<PutTxn(None)>>
          /\ d.txn = Committed(o) /\ d.undo = CommitUndo(o) /\ d.manifest = CommitManifest(o)
       \/ o.todo = <<>> /\ d.txn = None

\* An abort takes back a pending record, or a committed one when a write
\* failed late.
AbortOK(d, o, l) ==
    \/ /\ TakingBack(d, o.txn, o.todo)
       /\ d.txn # None /\ d.txn.file = o.txn.file /\ d.txn.before = o.txn.before
       /\ l \/ d.txn = o.txn
    \/ o.todo = <<>> /\ d.txn = None

PhaseOK(d, o, l) ==
    /\ o.pc = "idle" => o = NoOp
    /\ o.pc = "recover" => RecoverOK(d, o)
    /\ o.pc \in {"stage", "commit", "abort"} => ChangeOK(d, o)
    /\ o.pc = "stage" => StageOK(d, o)
    /\ o.pc = "commit" => CommitOK(d, o)
    /\ o.pc = "abort" => AbortOK(d, o, l)

\* The target is what RollbackPack computes from the manifest m.
FromHistory(target, m) ==
    \E n \in Name :
        /\ History(m, n) # <<>>
        /\ target = [file |-> LastRevision(m, n).file, pack |-> LastRevision(m, n).pack, man |-> RolledBack(m, n)]

\* A change has a target that fits it.
TargetOK(d, o, s) ==
    /\ o.kind = "none" <=> o.pc = "idle"
    /\ o.kind = "start" => o.pc = "recover"
    /\ o.kind = "apply" => o.target # None /\ o.target.pack \in Pack
    /\ o.kind = "remove" => o.target # None /\ o.target.pack = None
    /\ o.kind = "rollbackPack" => o.target # None
    /\ o.kind = "rollbackPack" /\ ~s =>
          FromHistory(o.target, IF o.pc = "recover" THEN ViewManifest(d) ELSE o.txn.prior)

\* The active snapshot is the set before the change until the change ends.
ActiveOK(d, o, l) ==
    /\ up = "loaded" => o.pc = "idle" /\ d.txn = None
    /\ l \/ up = "down" \/ active = IF o.pc = "commit" THEN Prior(d, o.txn) ELSE ViewFiles(d)

PackInv ==
    /\ PackTypeOK /\ DiskOK(disk) /\ PhaseOK(disk, op, late)
    /\ TargetOK(disk, op, stale) /\ ActiveOK(disk, op, late)

\* Each file belongs to one pack name, for good: the pack it holds, those it
\* held and those a rollback would put back have this name.
Owned(owner, fs, m) ==
    /\ \A f \in File : fs[f] # None => NameOf[fs[f]] = owner[f]
    /\ \A n \in Name : \A i \in DOMAIN Decode(m).hist[n] :
          LET r == Decode(m).hist[n][i]
          IN  /\ owner[r.file] = n
              /\ r.pack # None => NameOf[r.pack] = n
              /\ r.prev # None => r.prev = Entry(r.file, r.pack)

\* A pack set with its manifest; a new pack goes to a file of its own.
SetOK(owner, fs, m) == ValidSet(fs) /\ Owned(owner, fs, m) /\ Describes(m, fs)

SetInv(fs, m, u) ==
    \E owner \in [File -> Name \cup {None}] :
        /\ \A n \in Name : owner[FileOf[n]] = n
        /\ SetOK(owner, fs, m)
        /\ u # None => SetOK(owner, [fs EXCEPT ![u.file] = u.pack], u.man)

\* No two packs share a file name, and no shipped file has the name of
\* another pack's file.
OwnFiles ==
    /\ \A m, n \in Name : FileOf[m] = FileOf[n] => m = n
    /\ \A fs \in Shipped, n \in Name : fs[FileOf[n]] # None => NameOf[fs[FileOf[n]]] = n

-----------------------------------------------------------------------------
(* Tuples of writes. *)

LEMMA Spelled ==
  ASSUME NEW S, NEW s \in Seq(S)
  PROVE  /\ Len(s) = 2 => s = <<s[1], s[2]>>
         /\ Len(s) = 3 => s = <<s[1], s[2], s[3]>>
         /\ Len(s) = 4 => s = <<s[1], s[2], s[3], s[4]>>
  OBVIOUS

LEMMA JoinOne ==
  ASSUME NEW a, NEW b
  PROVE  <<a>> \o <<b>> = <<a, b>> /\ <<a>> \o <<>> = <<a>>
<1> PICK S : S = {a, b}
    OBVIOUS
<1>0. <<a>> \in Seq(S) /\ Len(<<a>>) = 1 /\ <<b>> \in Seq(S) /\ Len(<<b>>) = 1
    OBVIOUS
<1> PICK s : s = <<a>> \o <<b>>
    OBVIOUS
<1>1. s \in Seq(S) /\ Len(s) = 2
    BY <1>0, ConcatProperties
<1>2. \A i \in 1 .. 2 : s[i] = IF i <= 1 THEN <<a>>[i] ELSE <<b>>[i - 1]
    BY <1>0, ConcatProperties
<1>3. s[1] = a /\ s[2] = b
    BY <1>2
<1>4. <<a>> \o <<>> = <<a>>
    BY <1>0, ConcatEmptySeq
<1> QED BY <1>1, <1>3, <1>4, Spelled

LEMMA JoinTwo ==
  ASSUME NEW a, NEW b, NEW c
  PROVE  <<a, b>> \o <<c>> = <<a, b, c>> /\ <<a, b>> \o <<>> = <<a, b>>
<1> PICK S : S = {a, b, c}
    OBVIOUS
<1>0. <<a, b>> \in Seq(S) /\ Len(<<a, b>>) = 2 /\ <<c>> \in Seq(S) /\ Len(<<c>>) = 1
    OBVIOUS
<1> PICK s : s = <<a, b>> \o <<c>>
    OBVIOUS
<1>1. s \in Seq(S) /\ Len(s) = 3
    BY <1>0, ConcatProperties
<1>2. \A i \in 1 .. 3 : s[i] = IF i <= 2 THEN <<a, b>>[i] ELSE <<c>>[i - 2]
    BY <1>0, ConcatProperties
<1>3. s[1] = a /\ s[2] = b /\ s[3] = c
    BY <1>2
<1>4. <<a, b>> \o <<>> = <<a, b>>
    BY <1>0, ConcatEmptySeq
<1> QED BY <1>1, <1>3, <1>4, Spelled

LEMMA AppendTwo ==
  ASSUME NEW a, NEW b, NEW c
  PROVE  Append(<<a, b>>, c) = <<a, b, c>>
<1> PICK S : S = {a, b, c}
    OBVIOUS
<1>0. <<a, b>> \in Seq(S) /\ Len(<<a, b>>) = 2 /\ c \in S
    OBVIOUS
<1> PICK s : s = Append(<<a, b>>, c)
    OBVIOUS
<1>1. s \in Seq(S) /\ Len(s) = 3 /\ s[1] = a /\ s[2] = b /\ s[3] = c
    BY <1>0, AppendProperties
<1> QED BY <1>1, Spelled

LEMMA AppendThree ==
  ASSUME NEW a, NEW b, NEW c, NEW d
  PROVE  Append(<<a, b, c>>, d) = <<a, b, c, d>>
<1> PICK S : S = {a, b, c, d}
    OBVIOUS
<1>0. <<a, b, c>> \in Seq(S) /\ Len(<<a, b, c>>) = 3 /\ d \in S
    OBVIOUS
<1> PICK s : s = Append(<<a, b, c>>, d)
    OBVIOUS
<1>1. s \in Seq(S) /\ Len(s) = 4 /\ s[1] = a /\ s[2] = b /\ s[3] = c /\ s[4] = d
    BY <1>0, AppendProperties
<1> QED BY <1>1, Spelled

LEMMA Heads ==
  ASSUME NEW a, NEW b, NEW c, NEW d
  PROVE  /\ Head(<<a>>) = a /\ Tail(<<a>>) = <<>> /\ <<a>> # <<>>
         /\ Head(<<a, b>>) = a /\ Tail(<<a, b>>) = <<b>> /\ <<a, b>> # <<>>
         /\ Head(<<a, b, c>>) = a /\ Tail(<<a, b, c>>) = <<b, c>> /\ <<a, b, c>> # <<>>
         /\ Head(<<a, b, c, d>>) = a /\ Tail(<<a, b, c, d>>) = <<b, c, d>> /\ <<a, b, c, d>> # <<>>
  OBVIOUS

\* A recovery takes a pending change back and finishes a committed one.
LEMMA RecoverShape ==
  ASSUME NEW d \in DiskRec
  PROVE  \/ d.txn = None /\ RecoverWrites(d.txn) = <<>>
         \/ d.txn # None /\ ~d.txn.committed /\ TakingBack(d, d.txn, RecoverWrites(d.txn))
         \/ d.txn # None /\ d.txn.committed /\ Finishing(d, d.txn, RecoverWrites(d.txn))
<1>1. CASE d.txn = None
    BY <1>1 DEF RecoverWrites
<1>2. CASE d.txn # None /\ ~d.txn.committed
    BY <1>2 DEF RecoverWrites, TakingBack, AbortWrites
<1>3. CASE d.txn # None /\ d.txn.committed /\ d.txn.next = None
  <2>1. RecoverWrites(d.txn) = <<PutUndo(d.txn.undo)>> \o <<>> \o <<PutTxn(None)>>
    BY <1>3 DEF RecoverWrites
  <2>2. RecoverWrites(d.txn) = <<PutUndo(d.txn.undo), PutTxn(None)>>
    BY <2>1, JoinOne
  <2> QED BY <1>3, <2>2 DEF Finishing
<1>4. CASE d.txn # None /\ d.txn.committed /\ d.txn.next # None
  <2>1. RecoverWrites(d.txn) = <<PutUndo(d.txn.undo)>> \o <<PutManifest(d.txn.next)>> \o <<PutTxn(None)>>
    BY <1>4 DEF RecoverWrites
  <2>2. <<PutUndo(d.txn.undo)>> \o <<PutManifest(d.txn.next)>> = <<PutUndo(d.txn.undo), PutManifest(d.txn.next)>>
    BY JoinOne
  <2>3. <<PutUndo(d.txn.undo), PutManifest(d.txn.next)>> \o <<PutTxn(None)>>
           = <<PutUndo(d.txn.undo), PutManifest(d.txn.next), PutTxn(None)>>
    BY JoinTwo
  <2> QED BY <1>4, <2>1, <2>2, <2>3 DEF Finishing
<1> QED BY <1>1, <1>2, <1>3, <1>4

-----------------------------------------------------------------------------
(* Single writes. *)

LEMMA EffectFile ==
  ASSUME NEW d \in DiskRec, NEW f \in File, NEW p \in Pack \cup {None}, NEW e,
         e = Effect(d, PutFile(f, p))
  PROVE  /\ e \in DiskRec /\ e.files = [d.files EXCEPT ![f] = p]
         /\ e.manifest = d.manifest /\ e.undo = d.undo /\ e.txn = d.txn
  BY DEF Effect, PutFile, DiskRec, FileSet

LEMMA EffectUndo ==
  ASSUME NEW d \in DiskRec, NEW u \in UndoRec \cup {None}, NEW e,
         e = Effect(d, PutUndo(u))
  PROVE  /\ e \in DiskRec /\ e.files = d.files
         /\ e.manifest = d.manifest /\ e.undo = u /\ e.txn = d.txn
  BY DEF Effect, PutUndo, DiskRec

LEMMA EffectManifest ==
  ASSUME NEW d \in DiskRec, NEW m \in Manifest \cup {None}, NEW e,
         e = Effect(d, PutManifest(m))
  PROVE  /\ e \in DiskRec /\ e.files = d.files
         /\ e.manifest = m /\ e.undo = d.undo /\ e.txn = d.txn
  BY DEF Effect, PutManifest, DiskRec

LEMMA EffectTxn ==
  ASSUME NEW d \in DiskRec, NEW t \in TxnRec \cup {None}, NEW e,
         e = Effect(d, PutTxn(t))
  PROVE  /\ e \in DiskRec /\ e.files = d.files
         /\ e.manifest = d.manifest /\ e.undo = d.undo /\ e.txn = t
  BY DEF Effect, PutTxn, DiskRec

LEMMA DiskFields ==
  ASSUME NEW d \in DiskRec
  PROVE  /\ d.files \in FileSet /\ d.manifest \in Manifest \cup {None}
         /\ d.undo \in UndoRec \cup {None} /\ d.txn \in TxnRec \cup {None}
  BY DEF DiskRec

LEMMA TxnFields ==
  ASSUME NEW t \in TxnRec
  PROVE  /\ t.file \in File /\ t.before \in Pack \cup {None} /\ t.prior \in Manifest \cup {None}
         /\ t.priorUndo \in UndoRec \cup {None} /\ t.committed \in BOOLEAN
         /\ t.undo \in UndoRec \cup {None} /\ t.next \in Manifest \cup {None} /\ t # None
  BY TxnAssumption DEF TxnRec

\* A record is taken back as before when the file it names was restored.
LEMMA PriorTwice ==
  ASSUME NEW d \in DiskRec, NEW e \in DiskRec, NEW t \in TxnRec, NEW p,
         e.files = [d.files EXCEPT ![t.file] = p]
  PROVE  Prior(e, t) = Prior(d, t) /\ e.files[t.file] = p
<1>1. d.files \in FileSet /\ t.file \in File
    BY DiskFields, TxnFields
<1> QED BY <1>1 DEF Prior, FileSet

-----------------------------------------------------------------------------
(* One write of each phase. *)

\* A write that takes t back leaves the rest to do, or t taken back.
LEMMA TakeBackStep ==
  ASSUME NEW d \in DiskRec, NEW t \in TxnRec, NEW todo, TakingBack(d, t, todo),
         NEW e, e = Effect(d, Head(todo))
  PROVE  /\ todo # <<>> /\ e \in DiskRec /\ Prior(e, t) = Prior(d, t)
         /\ e.files = d.files \/ e.files = Prior(d, t)
         /\ \/ /\ Tail(todo) = <<>> /\ e.txn = None /\ e.files = Prior(d, t)
               /\ e.undo = t.priorUndo /\ e.manifest = t.prior
            \/ TakingBack(e, t, Tail(todo)) /\ e.txn = d.txn
<1> USE DiskFields, TxnFields
<1>1. CASE todo = <<PutFile(t.file, t.before), PutUndo(t.priorUndo), PutManifest(t.prior), PutTxn(None)>>
  <2>1. e = Effect(d, PutFile(t.file, t.before))
    BY <1>1, Heads
  <2>2. Tail(todo) = <<PutUndo(t.priorUndo), PutManifest(t.prior), PutTxn(None)>> /\ todo # <<>>
    BY <1>1, Heads
  <2>3. e \in DiskRec /\ e.files = Prior(d, t) /\ e.txn = d.txn
    BY <2>1, EffectFile DEF Prior
  <2>4. Prior(e, t) = Prior(d, t)
    BY <2>3, PriorTwice DEF Prior
  <2> QED BY <2>2, <2>3, <2>4 DEF TakingBack
<1>2. CASE /\ todo = <<PutUndo(t.priorUndo), PutManifest(t.prior), PutTxn(None)>>
           /\ d.files = Prior(d, t)
  <2>1. e = Effect(d, PutUndo(t.priorUndo))
    BY <1>2, Heads
  <2>2. Tail(todo) = <<PutManifest(t.prior), PutTxn(None)>> /\ todo # <<>>
    BY <1>2, Heads
  <2>3. e \in DiskRec /\ e.files = d.files /\ e.undo = t.priorUndo /\ e.txn = d.txn
    BY <2>1, EffectUndo
  <2>4. Prior(e, t) = Prior(d, t)
    BY <2>3 DEF Prior
  <2> QED BY <1>2, <2>2, <2>3, <2>4 DEF TakingBack
<1>3. CASE /\ todo = <<PutManifest(t.prior), PutTxn(None)>>
           /\ d.files = Prior(d, t) /\ d.undo = t.priorUndo
  <2>1. e = Effect(d, PutManifest(t.prior))
    BY <1>3, Heads
  <2>2. Tail(todo) = <<PutTxn(None)>> /\ todo # <<>>
    BY <1>3, Heads
  <2>3. e \in DiskRec /\ e.files = d.files /\ e.undo = d.undo /\ e.manifest = t.prior /\ e.txn = d.txn
    BY <2>1, EffectManifest
  <2>4. Prior(e, t) = Prior(d, t)
    BY <2>3 DEF Prior
  <2> QED BY <1>3, <2>2, <2>3, <2>4 DEF TakingBack
<1>4. CASE /\ todo = <<PutTxn(None)>>
           /\ d.files = Prior(d, t) /\ d.undo = t.priorUndo /\ d.manifest = t.prior
  <2>1. e = Effect(d, PutTxn(None))
    BY <1>4, Heads
  <2>2. Tail(todo) = <<>> /\ todo # <<>>
    BY <1>4, Heads
  <2>3. e \in DiskRec /\ e.files = d.files /\ e.undo = d.undo /\ e.manifest = d.manifest /\ e.txn = None
    BY <2>1, EffectTxn
  <2>4. Prior(e, t) = Prior(d, t)
    BY <2>3 DEF Prior
  <2> QED BY <1>4, <2>2, <2>3, <2>4
<1> QED BY <1>1, <1>2, <1>3, <1>4 DEF TakingBack

\* Taking a change back is invisible to a recovery when its record is
\* pending, and in any case leaves files that load.
LEMMA TakeBackSafe ==
  ASSUME NEW d \in DiskRec, NEW t \in TxnRec, NEW todo, TakingBack(d, t, todo),
         NEW e, e = Effect(d, Head(todo)),
         DiskOK(d), d.txn # None, d.txn.file = t.file, d.txn.before = t.before
  PROVE  /\ DiskOK(e)
         /\ d.txn = t /\ ~t.committed => SameView(d, e)
<1> PICK x \in TxnRec : x = d.txn
    BY DiskFields
<1>1. Prior(d, x) = Prior(d, t) /\ Prior(e, x) = Prior(e, t)
    BY DEF Prior
<1>2. ValidSet(Prior(d, t))
    BY <1>1 DEF DiskOK
<1>3. /\ e \in DiskRec /\ Prior(e, t) = Prior(d, t)
      /\ e.files = d.files \/ e.files = Prior(d, t)
      /\ \/ e.txn = None /\ e.files = Prior(d, t) /\ e.undo = t.priorUndo /\ e.manifest = t.prior
         \/ e.txn = d.txn
    BY TakeBackStep
<1>4. DiskOK(e)
    BY <1>1, <1>2, <1>3 DEF DiskOK
<1>5. ASSUME d.txn = t, ~t.committed
      PROVE  SameView(d, e)
  <2>1. t # None
    BY TxnFields
  <2>2. ViewFiles(d) = Prior(d, t) /\ ViewUndo(d) = t.priorUndo /\ ViewManifest(d) = t.prior
    BY <1>5, <2>1 DEF ViewFiles, ViewUndo, ViewManifest, Prior
  <2>3. CASE e.txn = None /\ e.files = Prior(d, t) /\ e.undo = t.priorUndo /\ e.manifest = t.prior
    BY <2>2, <2>3 DEF SameView, ViewFiles, ViewUndo, ViewManifest
  <2>4. CASE e.txn = d.txn
    <3>1. ViewFiles(e) = Prior(e, t) /\ ViewUndo(e) = t.priorUndo /\ ViewManifest(e) = t.prior
      BY <1>5, <2>1, <2>4 DEF ViewFiles, ViewUndo, ViewManifest, Prior
    <3> QED BY <1>3, <2>2, <3>1 DEF SameView
  <2> QED BY <1>3, <2>3, <2>4
<1> QED BY <1>4, <1>5

\* Finishing a committed change is invisible to a recovery.
LEMMA FinishStep ==
  ASSUME NEW d \in DiskRec, d.txn # None, d.txn.committed, NEW todo, Finishing(d, d.txn, todo),
         NEW e, e = Effect(d, Head(todo)), DiskOK(d)
  PROVE  /\ todo # <<>> /\ e \in DiskRec /\ DiskOK(e) /\ SameView(d, e) /\ e.files = d.files
         /\ \/ Tail(todo) = <<>> /\ e.txn = None
            \/ Finishing(e, d.txn, Tail(todo)) /\ e.txn = d.txn
<1> PICK t \in TxnRec : t = d.txn
    BY DiskFields
<1> USE TxnFields
<1>1. CASE todo = <<PutUndo(t.undo), PutManifest(t.next), PutTxn(None)>> /\ t.next # None
  <2>1. e = Effect(d, PutUndo(t.undo)) /\ Tail(todo) = <<PutManifest(t.next), PutTxn(None)>> /\ todo # <<>>
    BY <1>1, Heads
  <2>2. e \in DiskRec /\ e.files = d.files /\ e.manifest = d.manifest /\ e.undo = t.undo /\ e.txn = t
    BY <2>1, EffectUndo
  <2>3. DiskOK(e) /\ SameView(d, e)
    BY <2>2 DEF DiskOK, SameView, ViewFiles, ViewUndo, ViewManifest, Prior
  <2> QED BY <1>1, <2>1, <2>2, <2>3 DEF Finishing
<1>2. CASE todo = <<PutUndo(t.undo), PutTxn(None)>> /\ t.next = None
  <2>1. e = Effect(d, PutUndo(t.undo)) /\ Tail(todo) = <<PutTxn(None)>> /\ todo # <<>>
    BY <1>2, Heads
  <2>2. e \in DiskRec /\ e.files = d.files /\ e.manifest = d.manifest /\ e.undo = t.undo /\ e.txn = t
    BY <2>1, EffectUndo
  <2>3. DiskOK(e) /\ SameView(d, e)
    BY <2>2 DEF DiskOK, SameView, ViewFiles, ViewUndo, ViewManifest, Prior
  <2> QED BY <1>2, <2>1, <2>2, <2>3 DEF Finishing
<1>3. CASE todo = <<PutManifest(t.next), PutTxn(None)>> /\ t.next # None /\ d.undo = t.undo
  <2>1. e = Effect(d, PutManifest(t.next)) /\ Tail(todo) = <<PutTxn(None)>> /\ todo # <<>>
    BY <1>3, Heads
  <2>2. e \in DiskRec /\ e.files = d.files /\ e.manifest = t.next /\ e.undo = d.undo /\ e.txn = t
    BY <2>1, EffectManifest
  <2>3. DiskOK(e) /\ SameView(d, e)
    BY <1>3, <2>2 DEF DiskOK, SameView, ViewFiles, ViewUndo, ViewManifest, Prior
  <2> QED BY <1>3, <2>1, <2>2, <2>3 DEF Finishing
<1>4. CASE todo = <<PutTxn(None)>> /\ d.undo = t.undo /\ (t.next = None \/ d.manifest = t.next)
  <2>1. e = Effect(d, PutTxn(None)) /\ Tail(todo) = <<>> /\ todo # <<>>
    BY <1>4, Heads
  <2>2. e \in DiskRec /\ e.files = d.files /\ e.manifest = d.manifest /\ e.undo = d.undo /\ e.txn = None
    BY <2>1, EffectTxn
  <2>3. DiskOK(e) /\ SameView(d, e)
    BY <1>4, <2>2 DEF DiskOK, SameView, ViewFiles, ViewUndo, ViewManifest, Prior
  <2> QED BY <1>4, <2>1, <2>2, <2>3
<1> QED BY <1>1, <1>2, <1>3, <1>4 DEF Finishing

-----------------------------------------------------------------------------
(* The next manifest. *)

LEMMA DecodeType ==
  ASSUME NEW m \in Manifest \cup {None}
  PROVE  Decode(m) \in Manifest
<1>1. EmptyManifest \in Manifest
  <2>1. [n \in Name |-> <<>>] \in [Name -> Seq(RevisionRec)]
    BY EmptySeq
  <2> QED BY <2>1 DEF EmptyManifest, Manifest
<1> QED BY <1>1 DEF Decode

LEMMA PushType ==
  ASSUME NEW m \in Manifest, NEW n \in Name, NEW r \in RevisionRec, NEW e \in EntryRec \cup {None}
  PROVE  /\ Push(m, n, r, e) \in Manifest
         /\ Push(m, n, r, e).entries = [m.entries EXCEPT ![n] = e]
         /\ Push(m, n, r, e).hist = [m.hist EXCEPT ![n] = Append(m.hist[n], r)]
<1>1. m.hist[n] \in Seq(RevisionRec) /\ Append(m.hist[n], r) \in Seq(RevisionRec)
    BY AppendProperties DEF Manifest
<1> QED BY <1>1 DEF Push, Manifest

LEMMA ApplyType ==
  ASSUME NEW m \in Manifest \cup {None}, NEW before \in Pack \cup {None}, NEW f \in File, NEW p \in Pack
  PROVE  NextManifestForApply(m, before, f, p) \in Manifest
<1>1. Decode(m) \in Manifest /\ NameOf[p] \in Name
    BY DecodeType, PackAssumption
<1>2. PICK prev : prev = IF before = None THEN None ELSE Decode(m).entries[NameOf[p]]
    OBVIOUS
<1>3. prev \in EntryRec \cup {None}
    BY <1>1, <1>2 DEF Manifest
<1>4. Revision(f, before, prev) \in RevisionRec /\ Entry(f, p) \in EntryRec
    BY <1>3 DEF Revision, RevisionRec, Entry, EntryRec
<1>5. NextManifestForApply(m, before, f, p) = Push(Decode(m), NameOf[p], Revision(f, before, prev), Entry(f, p))
    BY <1>2 DEF NextManifestForApply
<1>6. Push(Decode(m), NameOf[p], Revision(f, before, prev), Entry(f, p)) \in Manifest
    BY <1>1, <1>4, PushType
<1> QED BY <1>5, <1>6

LEMMA RemoveType ==
  ASSUME NEW m \in Manifest \cup {None}, NEW before \in Pack, NEW f \in File
  PROVE  NextManifestForRemove(m, before, f) \in Manifest
<1>1. Decode(m) \in Manifest /\ NameOf[before] \in Name
    BY DecodeType, PackAssumption
<1>2. PICK prev : prev = Decode(m).entries[NameOf[before]]
    OBVIOUS
<1>3. prev \in EntryRec \cup {None}
    BY <1>1, <1>2 DEF Manifest
<1>4. Revision(f, before, prev) \in RevisionRec
    BY <1>3 DEF Revision, RevisionRec
<1>5. NextManifestForRemove(m, before, f) = Push(Decode(m), NameOf[before], Revision(f, before, prev), None)
    BY <1>2 DEF NextManifestForRemove
<1>6. Push(Decode(m), NameOf[before], Revision(f, before, prev), None) \in Manifest
    BY <1>1, <1>4, PushType
<1> QED BY <1>5, <1>6

LEMMA UndoFields ==
  ASSUME NEW u \in UndoRec
  PROVE  u.file \in File /\ u.pack \in Pack \cup {None} /\ u.man \in Manifest \cup {None} /\ u # None
  BY NoneAssumption DEF UndoRec

\* The committed record of a change promises a manifest unless it is a rollback.
LEMMA CommittedType ==
  ASSUME NEW d \in DiskRec, NEW o, OpTypeOK(o), ChangeOK(d, o), NEW s, TargetOK(d, o, s)
  PROVE  /\ o.txn \in TxnRec /\ o.target \in UndoRec
         /\ CommitManifest(o) \in Manifest \cup {None}
         /\ ~RollsBack(o) => CommitManifest(o) \in Manifest /\ CommitManifest(o) # None
         /\ RollsBack(o) => CommitManifest(o) = StagedManifest(o)
         /\ StagedManifest(o) \in Manifest \cup {None}
         /\ CommitUndo(o) \in UndoRec
         /\ Committed(o) \in TxnRec /\ Committed(o).committed
         /\ Committed(o).file = o.txn.file /\ Committed(o).before = o.txn.before
         /\ Committed(o).next = CommitManifest(o) /\ Committed(o).undo = CommitUndo(o)
<1>1. o.txn \in TxnRec /\ o.target \in UndoRec
    BY DEF OpTypeOK, ChangeOK
<1> PICK t \in TxnRec : t = o.txn
    BY <1>1
<1> PICK u \in UndoRec : u = o.target
    BY <1>1
<1> USE TxnFields, UndoFields
<1>2. CommitUndo(o) \in UndoRec
    BY DEF CommitUndo, UndoRec
<1>3. ASSUME o.kind = "apply"
      PROVE  CommitManifest(o) \in Manifest
  <2>1. u.pack \in Pack
    BY <1>3 DEF TargetOK
  <2>2. CommitManifest(o) = NextManifestForApply(t.prior, t.before, t.file, u.pack)
    BY <1>3 DEF CommitManifest
  <2>3. t.prior \in Manifest \cup {None} /\ t.before \in Pack \cup {None} /\ t.file \in File
    OBVIOUS
  <2>4. NextManifestForApply(t.prior, t.before, t.file, u.pack) \in Manifest
    BY ONLY <2>1, <2>3, ApplyType
  <2> QED BY <2>2, <2>4
<1>4. ASSUME o.kind = "remove"
      PROVE  CommitManifest(o) \in Manifest
  <2>1. t.before \in Pack
    BY <1>4 DEF ChangeOK
  <2>2. CommitManifest(o) = NextManifestForRemove(t.prior, t.before, t.file)
    BY <1>4 DEF CommitManifest
  <2> QED BY <2>1, <2>2, RemoveType
<1>5. /\ RollsBack(o) => CommitManifest(o) = u.man /\ StagedManifest(o) = u.man
      /\ o.kind = "apply" \/ o.kind = "remove" \/ RollsBack(o)
    BY DEF RollsBack, CommitManifest, StagedManifest, ChangeOK
<1>6. /\ CommitManifest(o) \in Manifest \cup {None}
      /\ ~RollsBack(o) => CommitManifest(o) \in Manifest /\ CommitManifest(o) # None
      /\ RollsBack(o) => CommitManifest(o) = StagedManifest(o)
    BY <1>3, <1>4, <1>5, NoneAssumption
<1>7. StagedManifest(o) \in Manifest \cup {None}
    BY DEF StagedManifest
<1>8. /\ Committed(o) \in TxnRec /\ Committed(o).committed
      /\ Committed(o).file = o.txn.file /\ Committed(o).before = o.txn.before
      /\ Committed(o).next = CommitManifest(o) /\ Committed(o).undo = CommitUndo(o)
    BY <1>2, <1>6 DEF Committed, TxnRec
<1> QED BY <1>1, <1>2, <1>6, <1>7, <1>8

-----------------------------------------------------------------------------
(* The writes that stage and commit a change. *)

\* o with its first write done.
Advanced(o, x) ==
    /\ x.kind = o.kind /\ x.pc = o.pc /\ x.target = o.target /\ x.txn = o.txn
    /\ x.todo = Tail(o.todo)

\* Staging is invisible to a recovery: the pending record comes first.
LEMMA StageStep ==
  ASSUME NEW d \in DiskRec, NEW o, OpTypeOK(o), ChangeOK(d, o), StageOK(d, o), o.todo # <<>>,
         NEW e, e = Effect(d, Head(o.todo)), DiskOK(d), NEW x, Advanced(o, x)
  PROVE  /\ e \in DiskRec /\ DiskOK(e) /\ SameView(d, e) /\ Prior(e, o.txn) = Prior(d, o.txn)
         /\ e.txn = o.txn /\ StageOK(e, x)
<1>1. o.txn \in TxnRec /\ o.target \in UndoRec
    BY DEF OpTypeOK, ChangeOK
<1> PICK t \in TxnRec : t = o.txn
    BY <1>1
<1> PICK u \in UndoRec : u = o.target
    BY <1>1
<1>2. /\ t # None /\ ~t.committed /\ ValidSet(Prior(d, t)) /\ t.file \in File
      /\ u.pack \in Pack \cup {None} /\ u.man \in Manifest \cup {None}
      /\ d.undo = t.priorUndo
    BY TxnFields, UndoFields DEF ChangeOK, StageOK
<1>3. /\ x.txn = t /\ x.target = u /\ x.todo = Tail(o.todo) /\ (RollsBack(x) <=> RollsBack(o))
      /\ StagedManifest(x) = StagedManifest(o)
    BY DEF Advanced, RollsBack, StagedManifest
<1>4. RollsBack(o) => StagedManifest(o) = u.man
    BY DEF StagedManifest
<1>5. ~RollsBack(o) => StagedManifest(o) = t.prior
    BY DEF StagedManifest
<1>6. ASSUME NEW g \in DiskRec, g.txn = t, Prior(g, t) = Prior(d, t)
      PROVE  /\ DiskOK(g)
             /\ ViewFiles(g) = Prior(d, t) /\ ViewUndo(g) = t.priorUndo /\ ViewManifest(g) = t.prior
  <2>1. DiskOK(g)
    BY <1>2, <1>6 DEF DiskOK
  <2> QED BY <1>2, <1>6, <2>1 DEF ViewFiles, ViewUndo, ViewManifest, Prior
<1>7. CASE /\ o.todo = IF RollsBack(o)
                       THEN <<PutTxn(t), PutFile(t.file, u.pack), PutManifest(u.man)>>
                       ELSE <<PutTxn(t), PutFile(t.file, u.pack)>>
           /\ d.txn = None /\ d.files = Prior(d, t) /\ d.manifest = t.prior
  <2>1. /\ e = Effect(d, PutTxn(t))
        /\ Tail(o.todo) = IF RollsBack(o)
                          THEN <<PutFile(t.file, u.pack), PutManifest(u.man)>>
                          ELSE <<PutFile(t.file, u.pack)>>
    BY <1>7, Heads
  <2>2. e \in DiskRec /\ e.files = d.files /\ e.manifest = d.manifest /\ e.undo = d.undo /\ e.txn = t
    BY <2>1, EffectTxn
  <2>3. Prior(e, t) = Prior(d, t)
    BY <2>2 DEF Prior
  <2>4. ViewFiles(d) = Prior(d, t) /\ ViewUndo(d) = t.priorUndo /\ ViewManifest(d) = t.prior
    BY <1>2, <1>7 DEF ViewFiles, ViewUndo, ViewManifest
  <2>5. DiskOK(e) /\ SameView(d, e)
    BY <1>6, <2>2, <2>3, <2>4 DEF SameView
  <2>6. StageOK(e, x)
    BY <1>2, <1>3, <1>7, <2>1, <2>2, <2>3 DEF StageOK
  <2> QED BY <2>2, <2>3, <2>5, <2>6
<1>8. CASE /\ o.todo = IF RollsBack(o)
                       THEN <<PutFile(t.file, u.pack), PutManifest(u.man)>>
                       ELSE <<PutFile(t.file, u.pack)>>
           /\ d.txn = t /\ d.files = Prior(d, t) /\ d.manifest = t.prior
  <2>1. /\ e = Effect(d, PutFile(t.file, u.pack))
        /\ Tail(o.todo) = IF RollsBack(o) THEN <<PutManifest(u.man)>> ELSE <<>>
    BY <1>8, Heads
  <2>2. /\ e \in DiskRec /\ e.files = [d.files EXCEPT ![t.file] = u.pack]
        /\ e.manifest = d.manifest /\ e.undo = d.undo /\ e.txn = t
    BY <1>2, <1>8, <2>1, EffectFile
  <2>3. Prior(e, t) = Prior(d, t) /\ e.files[t.file] = u.pack
    <3> PICK p : p = u.pack
        OBVIOUS
    <3>1. e.files = [d.files EXCEPT ![t.file] = p] /\ e \in DiskRec
        BY <2>2
    <3> QED BY ONLY <3>1, PriorTwice, p = u.pack, d \in DiskRec, t \in TxnRec
  <2>4. DiskOK(e) /\ SameView(d, e)
    BY <1>6, <1>8, <2>2, <2>3 DEF SameView
  <2>5. StageOK(e, x)
    BY <1>2, <1>3, <1>5, <1>8, <2>1, <2>2, <2>3 DEF StageOK
  <2> QED BY <2>2, <2>3, <2>4, <2>5
<1>9. CASE /\ RollsBack(o) /\ o.todo = <<PutManifest(u.man)>>
           /\ d.txn = t /\ d.files[t.file] = u.pack /\ d.manifest = t.prior
  <2>1. e = Effect(d, PutManifest(u.man)) /\ Tail(o.todo) = <<>>
    BY <1>9, Heads
  <2>2. e \in DiskRec /\ e.files = d.files /\ e.manifest = u.man /\ e.undo = d.undo /\ e.txn = t
    BY <1>2, <1>9, <2>1, EffectManifest
  <2>3. Prior(e, t) = Prior(d, t)
    BY <2>2 DEF Prior
  <2>4. DiskOK(e) /\ SameView(d, e)
    BY <1>6, <1>9, <2>2, <2>3 DEF SameView
  <2>5. StageOK(e, x)
    BY <1>2, <1>3, <1>4, <1>9, <2>1, <2>2, <2>3 DEF StageOK
  <2> QED BY <2>2, <2>3, <2>4, <2>5
<1> QED BY <1>7, <1>8, <1>9 DEF StageOK

\* The committed record switches what a recovery finds to the staged set;
\* the writes after it are invisible.
LEMMA CommitStep ==
  ASSUME NEW d \in DiskRec, NEW o, OpTypeOK(o), ChangeOK(d, o), CommitOK(d, o), o.todo # <<>>,
         NEW s, TargetOK(d, o, s),
         NEW e, e = Effect(d, Head(o.todo)), DiskOK(d), NEW x, Advanced(o, x)
  PROVE  /\ e \in DiskRec /\ DiskOK(e) /\ e.files = d.files /\ CommitOK(e, x)
         /\ e.txn \in {Committed(o), None}
         /\ e.txn = None => Head(o.todo) = PutTxn(None) /\ x.todo = <<>>
         /\ \/ d.txn # o.txn /\ SameView(d, e)
            \/ /\ d.txn = o.txn
               /\ ViewFiles(e) = d.files /\ ViewUndo(e) = CommitUndo(o) /\ ViewManifest(e) = CommitManifest(o)
<1>1. /\ o.txn \in TxnRec /\ o.target \in UndoRec
      /\ CommitManifest(o) \in Manifest \cup {None}
      /\ ~RollsBack(o) => CommitManifest(o) # None
      /\ RollsBack(o) => CommitManifest(o) = StagedManifest(o)
      /\ CommitUndo(o) \in UndoRec
      /\ Committed(o) \in TxnRec /\ Committed(o).committed
      /\ Committed(o).file = o.txn.file /\ Committed(o).before = o.txn.before
      /\ Committed(o).next = CommitManifest(o) /\ Committed(o).undo = CommitUndo(o)
    BY CommittedType
<1> PICK t \in TxnRec : t = o.txn
    BY <1>1
<1> PICK c \in TxnRec : c = Committed(o)
    BY <1>1
<1> PICK m : m = CommitManifest(o)
    OBVIOUS
<1> PICK u : u = CommitUndo(o)
    OBVIOUS
<1>2. t # None /\ c # None /\ t # c /\ ~t.committed /\ ValidSet(Prior(d, t)) /\ ValidSet(d.files)
    BY <1>1, TxnFields DEF ChangeOK, CommitOK
<1>3. /\ x.kind = o.kind /\ x.txn = t /\ x.target = o.target /\ x.todo = Tail(o.todo)
      /\ (RollsBack(x) <=> RollsBack(o)) /\ StagedManifest(x) = StagedManifest(o)
      /\ CommitManifest(x) = m /\ CommitUndo(x) = u /\ Committed(x) = c
    BY DEF Advanced, RollsBack, StagedManifest, CommitManifest, CommitUndo, Committed
<1>4. ASSUME NEW g \in DiskRec, g.txn = c, g.files = d.files, g.manifest = m \/ m # None
      PROVE  DiskOK(g) /\ ViewFiles(g) = d.files /\ ViewUndo(g) = u /\ ViewManifest(g) = m
  <2>1. Prior(g, c) = Prior(d, t)
    BY <1>1, <1>4 DEF Prior
  <2>2. DiskOK(g)
    BY <1>2, <1>4, <2>1 DEF DiskOK
  <2> QED BY <1>1, <1>2, <1>4, <2>2 DEF ViewFiles, ViewUndo, ViewManifest
<1>5. ASSUME NEW g \in DiskRec, g.txn = None, g.files = d.files, g.undo = u, g.manifest = m
      PROVE  DiskOK(g) /\ ViewFiles(g) = d.files /\ ViewUndo(g) = u /\ ViewManifest(g) = m
    BY <1>2, <1>5 DEF DiskOK, ViewFiles, ViewUndo, ViewManifest
<1>6. /\ d.files[t.file] = o.target.pack
      /\ o.kind = "apply" => NameAllowed(t.before, t.file, o.target.pack)
    BY DEF CommitOK
<1>7. CASE /\ o.todo = IF RollsBack(o)
                       THEN <<PutTxn(c), PutUndo(u), PutTxn(None)>>
                       ELSE <<PutTxn(c), PutUndo(u), PutManifest(m), PutTxn(None)>>
           /\ d.txn = t /\ d.undo = t.priorUndo /\ d.manifest = StagedManifest(o)
  <2>1. /\ e = Effect(d, PutTxn(c))
        /\ Tail(o.todo) = IF RollsBack(o)
                          THEN <<PutUndo(u), PutTxn(None)>>
                          ELSE <<PutUndo(u), PutManifest(m), PutTxn(None)>>
    BY <1>7, Heads
  <2>2. e \in DiskRec /\ e.files = d.files /\ e.manifest = d.manifest /\ e.undo = d.undo /\ e.txn = c
    BY <2>1, EffectTxn, SMTT(30)
  <2>3. e.manifest = m \/ m # None
    BY <1>1, <1>7, <2>2
  <2>4. DiskOK(e) /\ ViewFiles(e) = d.files /\ ViewUndo(e) = u /\ ViewManifest(e) = m
    BY <1>4, <2>2, <2>3
  <2>5. CommitOK(e, x)
    BY <1>2, <1>3, <1>6, <1>7, <2>1, <2>2 DEF CommitOK
  <2> QED BY <1>2, <1>7, <2>2, <2>4, <2>5
<1>8. CASE /\ o.todo = IF RollsBack(o)
                       THEN <<PutUndo(u), PutTxn(None)>>
                       ELSE <<PutUndo(u), PutManifest(m), PutTxn(None)>>
           /\ d.txn = c /\ d.manifest = StagedManifest(o)
  <2>1. /\ e = Effect(d, PutUndo(u))
        /\ Tail(o.todo) = IF RollsBack(o) THEN <<PutTxn(None)>> ELSE <<PutManifest(m), PutTxn(None)>>
    BY <1>8, Heads
  <2>2. e \in DiskRec /\ e.files = d.files /\ e.manifest = d.manifest /\ e.undo = u /\ e.txn = c
    BY <1>1, <1>8, <2>1, EffectUndo
  <2>3. e.manifest = m \/ m # None
    BY <1>1, <1>8, <2>2
  <2>4. DiskOK(e) /\ SameView(d, e)
    BY <1>4, <1>8, <2>2, <2>3 DEF SameView
  <2>5. CommitOK(e, x)
    BY <1>1, <1>2, <1>3, <1>6, <1>8, <2>1, <2>2 DEF CommitOK
  <2> QED BY <1>2, <1>8, <2>2, <2>4, <2>5
<1>9. CASE /\ ~RollsBack(o) /\ o.todo = <<PutManifest(m), PutTxn(None)>>
           /\ d.txn = c /\ d.undo = u
  <2>1. e = Effect(d, PutManifest(m)) /\ Tail(o.todo) = <<PutTxn(None)>>
    BY <1>9, Heads
  <2>2. e \in DiskRec /\ e.files = d.files /\ e.manifest = m /\ e.undo = d.undo /\ e.txn = c
    BY <1>1, <1>9, <2>1, EffectManifest
  <2>3. DiskOK(e) /\ SameView(d, e)
    BY <1>1, <1>4, <1>9, <2>2 DEF SameView
  <2>4. CommitOK(e, x)
    BY <1>2, <1>3, <1>6, <1>9, <2>1, <2>2 DEF CommitOK
  <2> QED BY <1>2, <1>9, <2>2, <2>3, <2>4
<1>10. CASE /\ o.todo = <<PutTxn(None)>>
            /\ d.txn = c /\ d.undo = u /\ d.manifest = m
  <2>1. e = Effect(d, PutTxn(None)) /\ Head(o.todo) = PutTxn(None) /\ Tail(o.todo) = <<>>
    BY <1>10, Heads
  <2>2. e \in DiskRec /\ e.files = d.files /\ e.manifest = m /\ e.undo = u /\ e.txn = None
    BY <1>10, <2>1, EffectTxn, SMTT(30)
  <2>3. DiskOK(e) /\ SameView(d, e)
    BY <1>4, <1>5, <1>10, <2>2 DEF SameView
  <2>4. CommitOK(e, x)
    BY <1>2, <1>3, <1>6, <1>10, <2>1, <2>2 DEF CommitOK
  <2> QED BY <1>2, <1>3, <1>10, <2>1, <2>2, <2>3, <2>4
<1> QED BY <1>7, <1>8, <1>9, <1>10 DEF CommitOK

\* The committed record is being written.
Switching(d, o, e) ==
    /\ o.pc = "commit" /\ d.txn = o.txn /\ e.files = d.files
    /\ ViewFiles(e) = d.files /\ ViewUndo(e) = CommitUndo(o) /\ ViewManifest(e) = CommitManifest(o)

\* The first write left to do, in any phase.
LEMMA WriteOK ==
  ASSUME NEW d \in DiskRec, NEW o, OpTypeOK(o), DiskOK(d), NEW l, PhaseOK(d, o, l),
         NEW s, TargetOK(d, o, s), o.todo # <<>>,
         NEW e, e = Effect(d, Head(o.todo)), NEW x, Advanced(o, x)
  PROVE  /\ o.pc # "idle" /\ e \in DiskRec /\ DiskOK(e) /\ PhaseOK(e, x, l) /\ TargetOK(e, x, s)
         /\ o.pc \in {"stage", "commit", "abort"} => Prior(e, o.txn) = Prior(d, o.txn)
         /\ l \/ SameView(d, e) \/ Switching(d, o, e)
<1>0. x.pc = o.pc /\ x.kind = o.kind /\ x.txn = o.txn /\ x.target = o.target /\ x.todo = Tail(o.todo)
    BY DEF Advanced
<1>1. o.pc # "idle"
    BY DEF PhaseOK, NoOp
<1>2. ASSUME ViewManifest(e) = ViewManifest(d) \/ o.pc # "recover"
      PROVE  TargetOK(e, x, s)
    BY <1>0, <1>2 DEF TargetOK
<1>3. ASSUME Prior(e, o.txn) = Prior(d, o.txn), o.pc \in {"stage", "commit", "abort"}
      PROVE  ChangeOK(e, x)
    BY <1>0, <1>3 DEF ChangeOK, PhaseOK
<1>4. CASE o.pc = "recover"
  <2>1. RecoverOK(d, o)
    BY <1>4 DEF PhaseOK
  <2>2. d.txn \in TxnRec /\ o.txn = None
    BY <2>1, DiskFields DEF RecoverOK
  <2>3. CASE ~d.txn.committed /\ TakingBack(d, d.txn, o.todo)
    <3> PICK t \in TxnRec : t = d.txn
        BY <2>2
    <3>0. TakingBack(d, t, o.todo) /\ d.txn # None /\ t # None
        BY <2>3, TxnFields
    <3>1. e \in DiskRec /\ ((e.txn = None /\ x.todo = <<>>) \/ (e.txn = t /\ TakingBack(e, t, x.todo)))
        BY <1>0, <3>0, TakeBackStep
    <3>2. DiskOK(e) /\ SameView(d, e)
        BY <2>3, <3>0, TakeBackSafe
    <3>3. RecoverOK(e, x)
        BY <1>0, <2>2, <2>3, <3>0, <3>1 DEF RecoverOK
    <3>4. TargetOK(e, x, s)
        BY <1>2, <3>2 DEF SameView
    <3> QED BY <1>0, <1>1, <1>4, <3>1, <3>2, <3>3, <3>4 DEF PhaseOK
  <2>4. CASE d.txn.committed /\ Finishing(d, d.txn, o.todo)
    <3>0. d.txn # None
        BY <2>2, TxnFields
    <3>1. /\ e \in DiskRec /\ DiskOK(e) /\ SameView(d, e)
          /\ (e.txn = None /\ x.todo = <<>>) \/ (e.txn = d.txn /\ Finishing(e, d.txn, x.todo))
        BY <1>0, <2>4, <3>0, FinishStep
    <3>2. RecoverOK(e, x)
        BY <1>0, <2>2, <2>4, <3>0, <3>1 DEF RecoverOK
    <3>3. TargetOK(e, x, s)
        BY <1>2, <3>1 DEF SameView
    <3> QED BY <1>0, <1>1, <1>4, <3>1, <3>2, <3>3 DEF PhaseOK
  <2> QED BY <2>1, <2>3, <2>4 DEF RecoverOK
<1>5. CASE o.pc = "stage"
  <2>1. ChangeOK(d, o) /\ StageOK(d, o)
    BY <1>5 DEF PhaseOK
  <2>2. /\ e \in DiskRec /\ DiskOK(e) /\ SameView(d, e) /\ Prior(e, o.txn) = Prior(d, o.txn)
        /\ StageOK(e, x)
    BY <2>1, StageStep
  <2>3. TargetOK(e, x, s) /\ ChangeOK(e, x)
    BY <1>2, <1>3, <1>5, <2>2
  <2> QED BY <1>0, <1>1, <1>5, <2>2, <2>3 DEF PhaseOK
<1>6. CASE o.pc = "commit"
  <2>1. ChangeOK(d, o) /\ CommitOK(d, o)
    BY <1>6 DEF PhaseOK
  <2>2. /\ e \in DiskRec /\ DiskOK(e) /\ e.files = d.files /\ CommitOK(e, x)
        /\ \/ SameView(d, e)
           \/ /\ d.txn = o.txn
              /\ ViewFiles(e) = d.files /\ ViewUndo(e) = CommitUndo(o) /\ ViewManifest(e) = CommitManifest(o)
    BY <2>1, CommitStep
  <2>3. Prior(e, o.txn) = Prior(d, o.txn)
    BY <2>2 DEF Prior
  <2>4. TargetOK(e, x, s) /\ ChangeOK(e, x)
    BY <1>2, <1>3, <1>6, <2>3
  <2>5. SameView(d, e) \/ Switching(d, o, e)
    BY <1>6, <2>2 DEF Switching
  <2> QED BY <1>0, <1>1, <1>6, <2>2, <2>3, <2>4, <2>5 DEF PhaseOK
<1>7. CASE o.pc = "abort"
  <2>1. /\ ChangeOK(d, o) /\ TakingBack(d, o.txn, o.todo)
        /\ d.txn # None /\ d.txn.file = o.txn.file /\ d.txn.before = o.txn.before
        /\ l \/ d.txn = o.txn
    BY <1>7 DEF PhaseOK, AbortOK
  <2>2. o.txn \in TxnRec /\ ~o.txn.committed
    BY <2>1 DEF ChangeOK, OpTypeOK
  <2>3. /\ e \in DiskRec /\ Prior(e, o.txn) = Prior(d, o.txn)
        /\ (e.txn = None /\ x.todo = <<>>) \/ (e.txn = d.txn /\ TakingBack(e, o.txn, x.todo))
    BY <1>0, <2>1, <2>2, TakeBackStep
  <2>4. DiskOK(e) /\ (d.txn = o.txn => SameView(d, e))
    BY <2>1, <2>2, TakeBackSafe
  <2>5. TargetOK(e, x, s) /\ ChangeOK(e, x)
    BY <1>2, <1>3, <1>7, <2>3
  <2>6. AbortOK(e, x, l)
    BY <1>0, <2>1, <2>3 DEF AbortOK
  <2> QED BY <1>0, <1>1, <1>7, <2>1, <2>3, <2>4, <2>5, <2>6 DEF PhaseOK
<1> QED BY <1>1, <1>4, <1>5, <1>6, <1>7 DEF OpTypeOK, Phases

-----------------------------------------------------------------------------
(* Values computed by RollbackPack and by the API server. *)

LEMMA LastOf ==
  ASSUME NEW S, NEW h \in Seq(S), h # <<>>
  PROVE  /\ Len(h) \in Nat \ {0} /\ h[Len(h)] \in S /\ Len(h) \in DOMAIN h
         /\ SubSeq(h, 1, Len(h) - 1) \in Seq(S)
         /\ Len(SubSeq(h, 1, Len(h) - 1)) = Len(h) - 1
         /\ \A i \in 1 .. Len(h) - 1 : SubSeq(h, 1, Len(h) - 1)[i] = h[i] /\ i \in DOMAIN h
<1>1. Len(h) \in Nat \ {0} /\ h \in [1 .. Len(h) -> S] /\ DOMAIN h = 1 .. Len(h)
    BY EmptySeq, LenProperties
<1> PICK k : k = Len(h) - 1
    OBVIOUS
<1>2. k \in Nat /\ \A i \in 1 .. k : h[i] \in S
    BY <1>1
<1>3. /\ SubSeq(h, 1, k) \in Seq(S) /\ Len(SubSeq(h, 1, k)) = IF 1 <= k THEN k - 1 + 1 ELSE 0
      /\ \A i \in 1 .. k - 1 + 1 : SubSeq(h, 1, k)[i] = h[1 + i - 1]
    BY <1>2, SubSeqProperties
<1>4. Len(SubSeq(h, 1, k)) = k /\ \A i \in 1 .. k : SubSeq(h, 1, k)[i] = h[i]
    BY <1>2, <1>3
<1> QED BY <1>1, <1>3, <1>4

LEMMA RolledBackType ==
  ASSUME NEW m \in Manifest \cup {None}, NEW n \in Name, History(m, n) # <<>>
  PROVE  /\ LastRevision(m, n) \in RevisionRec
         /\ RolledBack(m, n) \in Manifest
         /\ [file |-> LastRevision(m, n).file, pack |-> LastRevision(m, n).pack,
             man |-> RolledBack(m, n)] \in UndoRec
<1> PICK d : d = Decode(m)
    OBVIOUS
<1>1. d \in Manifest
    BY DecodeType
<1> PICK h : h = d.hist[n]
    OBVIOUS
<1>2. h \in Seq(RevisionRec) /\ h # <<>>
    BY <1>1 DEF Manifest, History
<1>3. h[Len(h)] \in RevisionRec /\ SubSeq(h, 1, Len(h) - 1) \in Seq(RevisionRec)
    BY <1>2, LastOf
<1>4. LastRevision(m, n) = h[Len(h)]
    BY DEF LastRevision, History
<1>5. RolledBack(m, n) = [d EXCEPT !.hist[n] = SubSeq(h, 1, Len(h) - 1), !.entries[n] = h[Len(h)].prev]
    BY DEF RolledBack
<1>6. h[Len(h)].prev \in EntryRec \cup {None} /\ h[Len(h)].file \in File /\ h[Len(h)].pack \in Pack \cup {None}
    BY <1>3 DEF RevisionRec
<1> PICK cut : cut = SubSeq(h, 1, Len(h) - 1)
    OBVIOUS
<1> PICK prev : prev = h[Len(h)].prev
    OBVIOUS
<1>7. RolledBack(m, n) \in Manifest
  <2>1. [d.entries EXCEPT ![n] = prev] \in [Name -> EntryRec \cup {None}]
    BY <1>1, <1>6 DEF Manifest
  <2>2. [d.hist EXCEPT ![n] = cut] \in [Name -> Seq(RevisionRec)]
    BY <1>1, <1>3 DEF Manifest
  <2>3. RolledBack(m, n) = [entries |-> [d.entries EXCEPT ![n] = prev], hist |-> [d.hist EXCEPT ![n] = cut]]
    BY <1>1, <1>5 DEF Manifest
  <2> QED BY <2>1, <2>2, <2>3 DEF Manifest
<1> QED BY <1>3, <1>4, <1>6, <1>7 DEF UndoRec

LEMMA AdoptedType ==
  ASSUME NEW m \in Manifest \cup {None}, NEW fs \in FileSet
  PROVE  Adopted(m, fs) \in Manifest \cup {None} /\ (Adopted(m, fs) = m \/ Adopted(m, fs) \in Manifest)
<1> DEFINE d == Decode(m)
<1>1. d \in Manifest
    BY DecodeType
<1> DEFINE holding(n) == {f \in File : fs[f] # None /\ NameOf[fs[f]] = n}
           held(n) == CHOOSE f \in holding(n) : TRUE
           entry(n) == Entry(held(n), fs[held(n)])
<1>2. ASSUME NEW n \in Name, holding(n) # {}
      PROVE  entry(n) \in EntryRec
  <2>1. held(n) \in holding(n)
      BY <1>2
  <2>2. held(n) \in File /\ fs[held(n)] \in Pack
      BY <2>1 DEF FileSet
  <2> QED BY <2>2 DEF Entry, EntryRec
<1> DEFINE es == [n \in Name |-> IF d.entries[n] = None /\ holding(n) # {} THEN entry(n) ELSE d.entries[n]]
<1>3. es \in [Name -> EntryRec \cup {None}]
  <2> HIDE DEF entry, holding, d
  <2> QED BY <1>1, <1>2 DEF Manifest
<1>4. [d EXCEPT !.entries = es] \in Manifest
  <2> HIDE DEF es, d
  <2> QED BY <1>1, <1>3 DEF Manifest
<1>5. Adopted(m, fs) = IF \E n \in Name : d.entries[n] = None /\ holding(n) # {}
                       THEN [d EXCEPT !.entries = es] ELSE m
    BY DEF Adopted
<1> QED BY <1>4, <1>5

-----------------------------------------------------------------------------
(* The steps of the specification. *)

LEMMA ViewIs ==
  ASSUME PackTypeOK
  PROVE  View.files = ViewFiles(disk) /\ View.undo = ViewUndo(disk) /\ View.manifest = ViewManifest(disk)
<1>1. disk.txn = None \/ (disk.txn # None /\ disk.txn.committed \in BOOLEAN)
    BY DiskFields, TxnFields DEF PackTypeOK
<1> QED BY <1>1 DEF View, ViewFiles, ViewUndo, ViewManifest

LEMMA ViewIsNext ==
  ASSUME PackTypeOK'
  PROVE  View'.files = ViewFiles(disk') /\ View'.undo = ViewUndo(disk') /\ View'.manifest = ViewManifest(disk')
<1>1. disk'.txn = None \/ (disk'.txn # None /\ disk'.txn.committed \in BOOLEAN)
    BY DiskFields, TxnFields DEF PackTypeOK
<1> QED BY <1>1 DEF View, ViewFiles, ViewUndo, ViewManifest

LEMMA PutIsEffect ==
  ASSUME NEW w
  PROVE  Put(w) = Effect(disk, w)
  BY DEF Put, Effect

\* A process that makes no change.
LEMMA IdleOK ==
  ASSUME NEW d, NEW l, NEW s
  PROVE  OpTypeOK(NoOp) /\ PhaseOK(d, NoOp, l) /\ TargetOK(d, NoOp, s) /\ NoOp.pc = "idle" /\ NoOp.todo = <<>>
  BY DEF OpTypeOK, PhaseOK, TargetOK, NoOp, Kinds, Phases

\* A change that begins with the recovery.
LEMMA RecoveringOK ==
  ASSUME disk \in DiskRec, NEW kind \in Kinds, NEW target \in UndoRec \cup {None}, NEW l, NEW o,
         o = Recovering(kind, target)
  PROVE  /\ OpTypeOK(o) /\ PhaseOK(disk, o, l) /\ o.pc = "recover" /\ o.kind = kind /\ o.target = target
<1>1. OpTypeOK(o) /\ o.pc = "recover" /\ o.kind = kind /\ o.target = target /\ o.txn = None
      /\ o.todo = RecoverWrites(disk.txn)
    BY DEF Recovering, OpTypeOK, Phases
<1>2. RecoverOK(disk, o)
    BY <1>1, RecoverShape DEF RecoverOK
<1> QED BY <1>1, <1>2 DEF PhaseOK

LEMMA InitInv == Init => PackInv
<1> SUFFICES ASSUME Init PROVE PackInv
    OBVIOUS
<1>1. /\ disk \in DiskRec /\ disk.txn = None /\ ValidSet(disk.files)
      /\ up = "down" /\ op = NoOp /\ late = FALSE /\ stale = FALSE
    BY PackAssumption DEF Init, DiskRec
<1>2. DiskOK(disk) /\ ActiveOK(disk, op, late)
    BY <1>1 DEF DiskOK, ActiveOK
<1>3. PackTypeOK
    BY <1>1, IdleOK DEF PackTypeOK, Processes
<1> QED BY <1>1, <1>2, <1>3, IdleOK DEF PackInv

LEMMA StartKeeps ==
  ASSUME PackInv, Start
  PROVE  PackInv'
<1>0. PackTypeOK /\ DiskOK(disk) /\ disk \in DiskRec /\ up = "down"
    BY DEF PackInv, PackTypeOK, Start
<1>1. op' = Recovering("start", None) /\ disk' = disk /\ up' = up /\ active' = active /\ late' = late /\ stale' = stale
    BY DEF Start
<1>2. OpTypeOK(op') /\ PhaseOK(disk, op', late) /\ op'.pc = "recover" /\ op'.kind = "start"
    BY <1>0, <1>1, RecoveringOK DEF Kinds
<1>3. PackTypeOK'
    BY <1>0, <1>1, <1>2 DEF PackTypeOK
<1>4. TargetOK(disk', op', stale')
    BY <1>2 DEF TargetOK
<1>5. ActiveOK(disk, op, late)'
    BY <1>0, <1>1 DEF ActiveOK
<1> QED BY <1>0, <1>1, <1>2, <1>3, <1>4, <1>5 DEF PackInv

\* A change of any kind is requested of a process that is idle.
LEMMA RequestKeeps ==
  ASSUME PackInv, NEW kind \in Kinds \ {"none", "start"}, NEW target \in UndoRec \cup {None},
         Request(kind, target), stale' \in BOOLEAN,
         kind = "apply" => target # None /\ target.pack \in Pack,
         kind = "remove" => target # None /\ target.pack = None,
         kind = "rollbackPack" => target # None /\ (stale' \/ FromHistory(target, ViewManifest(disk)))
  PROVE  PackInv'
<1>0. PackTypeOK /\ DiskOK(disk) /\ disk \in DiskRec /\ op = NoOp /\ ActiveOK(disk, op, late)
    BY DEF PackInv, PackTypeOK, Request
<1>1. /\ op' = Recovering(kind, target) /\ disk' = disk /\ active' = active /\ late' = late
      /\ up \in {"cli", "serving"} /\ up' \in {"exiting", "serving"}
    BY DEF Request
<1>2. OpTypeOK(op') /\ PhaseOK(disk, op', late) /\ op'.pc = "recover" /\ op'.kind = kind /\ op'.target = target
    BY <1>0, <1>1, RecoveringOK DEF Kinds
<1>3. PackTypeOK'
    BY <1>0, <1>1, <1>2 DEF PackTypeOK, Processes
<1>4. TargetOK(disk, op', stale')
    BY <1>2 DEF TargetOK
<1>5. late \/ active = ViewFiles(disk)
    BY <1>0, <1>1, IdleOK DEF ActiveOK
<1>6. ActiveOK(disk, op, late)'
    BY <1>1, <1>2, <1>5 DEF ActiveOK
<1> QED BY <1>0, <1>1, <1>2, <1>3, <1>4, <1>6 DEF PackInv

LEMMA ApplyKeeps ==
  ASSUME PackInv, NEW f \in File, NEW p \in Pack, ApplyPackFile(f, p)
  PROVE  PackInv'
<1> PICK u : u = [file |-> f, pack |-> p, man |-> None]
    OBVIOUS
<1>1. u \in UndoRec /\ u.pack \in Pack /\ u # None
    BY UndoFields DEF UndoRec
<1>2. Request("apply", u) /\ stale' \in BOOLEAN
    BY DEF ApplyPackFile, PackInv, PackTypeOK
<1> QED BY <1>1, <1>2, RequestKeeps DEF Kinds

LEMMA RemoveKeeps ==
  ASSUME PackInv, NEW f \in File, RemovePackFile(f)
  PROVE  PackInv'
<1> PICK u : u = [file |-> f, pack |-> None, man |-> None]
    OBVIOUS
<1>1. u \in UndoRec /\ u.pack = None /\ u # None
    BY UndoFields DEF UndoRec
<1>2. Request("remove", u) /\ stale' \in BOOLEAN
    BY DEF RemovePackFile, PackInv, PackTypeOK
<1> QED BY <1>1, <1>2, RequestKeeps DEF Kinds

LEMMA RollbackKeeps ==
  ASSUME PackInv, Rollback
  PROVE  PackInv'
<1>1. Request("rollback", None) /\ stale' \in BOOLEAN
    BY DEF Rollback, PackInv, PackTypeOK
<1> QED BY <1>1, RequestKeeps DEF Kinds

LEMMA RollbackPackKeeps ==
  ASSUME PackInv, NEW n \in Name, RollbackPack(n)
  PROVE  PackInv'
<1>1. PackTypeOK /\ disk.manifest \in Manifest \cup {None} /\ stale \in BOOLEAN
    BY DiskFields DEF PackInv, PackTypeOK
<1> PICK m : m = disk.manifest
    OBVIOUS
<1> PICK u : u = [file |-> LastRevision(m, n).file, pack |-> LastRevision(m, n).pack, man |-> RolledBack(m, n)]
    OBVIOUS
<1>2. History(m, n) # <<>> /\ Request("rollbackPack", u) /\ stale' = (stale \/ m # View.manifest)
    BY DEF RollbackPack
<1>3. u \in UndoRec /\ u # None
    BY <1>1, <1>2, RolledBackType, UndoFields
<1>4. FromHistory(u, m)
    BY <1>2 DEF FromHistory
<1>5. stale' \/ FromHistory(u, ViewManifest(disk))
    BY <1>1, <1>2, <1>4, ViewIs
<1>6. stale' \in BOOLEAN
    BY <1>1, <1>2
<1> QED BY <1>2, <1>3, <1>5, <1>6, RequestKeeps DEF Kinds

\* The API server writes the adopted manifest, or fails to.
LEMMA ServeKeeps ==
  ASSUME PackInv, Serve
  PROVE  /\ PackInv'
         /\ disk.txn = None /\ disk'.txn = None /\ disk'.files = disk.files /\ disk'.undo = disk.undo
         /\ disk'.manifest = disk.manifest \/ disk'.manifest = Adopted(disk.manifest, disk.files)
<1>0. /\ PackTypeOK /\ DiskOK(disk) /\ disk \in DiskRec /\ op = NoOp /\ op' = NoOp /\ up = "loaded" /\ up' = "serving"
      /\ active' = active /\ late' = late /\ stale' = stale
    BY DEF PackInv, PackTypeOK, Serve
<1>1. disk.txn = None /\ (late \/ active = disk.files)
    BY <1>0, IdleOK DEF PackInv, ActiveOK, ViewFiles
<1> PICK m : m = Adopted(disk.manifest, disk.files)
    OBVIOUS
<1>2. m \in Manifest \cup {None}
    BY <1>0, DiskFields, AdoptedType
<1>3. disk' = disk \/ disk' = Effect(disk, PutManifest(m))
    BY PutIsEffect DEF Serve, AfterFailure
<1>4. /\ disk' \in DiskRec /\ disk'.files = disk.files /\ disk'.undo = disk.undo /\ disk'.txn = disk.txn
      /\ disk'.manifest = disk.manifest \/ disk'.manifest = m
    BY <1>0, <1>2, <1>3, EffectManifest
<1>5. DiskOK(disk')
    BY <1>0, <1>1, <1>4 DEF DiskOK
<1>6. ActiveOK(disk, op, late)'
    BY <1>0, <1>1, <1>4, IdleOK DEF ActiveOK, ViewFiles
<1>7. PackTypeOK'
    BY <1>0, <1>4, IdleOK DEF PackTypeOK, Processes
<1>8. PhaseOK(disk', op', late') /\ TargetOK(disk', op', stale')
    BY <1>0, IdleOK
<1> QED BY <1>1, <1>4, <1>5, <1>6, <1>7, <1>8 DEF PackInv

\* op with its first write done.
LEMMA AdvancedOp ==
  ASSUME OpTypeOK(op), op' = [op EXCEPT !.todo = Tail(@)]
  PROVE  Advanced(op, op') /\ OpTypeOK(op')
<1>1. op' = [kind |-> op.kind, pc |-> op.pc, target |-> op.target, txn |-> op.txn, todo |-> Tail(op.todo)]
    BY DEF OpTypeOK
<1> QED BY <1>1 DEF Advanced, OpTypeOK

LEMMA WriteKeeps ==
  ASSUME PackInv, Write
  PROVE  PackInv' /\ (late \/ SameView(disk, disk') \/ Switching(disk, op, disk'))
<1>0. /\ disk \in DiskRec /\ OpTypeOK(op) /\ DiskOK(disk) /\ PhaseOK(disk, op, late) /\ TargetOK(disk, op, stale)
      /\ up \in Processes /\ late \in BOOLEAN /\ stale \in BOOLEAN /\ ActiveOK(disk, op, late)
    BY DEF PackInv, PackTypeOK
<1>1. /\ op.todo # <<>> /\ disk' = Effect(disk, Head(op.todo)) /\ op' = [op EXCEPT !.todo = Tail(@)]
      /\ up' = up /\ active' = active /\ late' = late /\ stale' = stale
    BY PutIsEffect DEF Write
<1>2. Advanced(op, op') /\ OpTypeOK(op')
    BY <1>0, <1>1, AdvancedOp
<1>3. /\ op.pc # "idle" /\ disk' \in DiskRec /\ DiskOK(disk') /\ PhaseOK(disk', op', late) /\ TargetOK(disk', op', stale)
      /\ op.pc \in {"stage", "commit", "abort"} => Prior(disk', op.txn) = Prior(disk, op.txn)
      /\ late \/ SameView(disk, disk') \/ Switching(disk, op, disk')
    BY <1>0, <1>1, <1>2, WriteOK
<1>4. op'.pc = op.pc /\ op'.txn = op.txn
    BY <1>2 DEF Advanced
<1>5. ActiveOK(disk, op, late)'
  <2>1. up # "loaded"
    BY <1>0, <1>3 DEF ActiveOK
  <2>2. CASE late \/ up = "down"
    BY <1>1, <2>1, <2>2 DEF ActiveOK
  <2>3. CASE ~late /\ op.pc = "commit" /\ active = Prior(disk, op.txn)
    BY <1>1, <1>3, <1>4, <2>1, <2>3 DEF ActiveOK
  <2>4. CASE ~late /\ op.pc # "commit" /\ active = ViewFiles(disk)
    <3>1. ViewFiles(disk') = ViewFiles(disk)
        BY <1>3, <2>4 DEF SameView, Switching
    <3> QED BY <1>1, <1>4, <2>1, <2>4, <3>1 DEF ActiveOK
  <2> QED BY <1>0, <2>2, <2>3, <2>4 DEF ActiveOK
<1>6. PackTypeOK'
    BY <1>0, <1>1, <1>2, <1>3 DEF PackTypeOK
<1> QED BY <1>1, <1>3, <1>5, <1>6 DEF PackInv

\* The recovery is done when nothing of it is left.
LEMMA Recovered ==
  ASSUME PackInv, op.pc = "recover", op.todo = <<>>
  PROVE  disk.txn = None /\ ValidSet(disk.files) /\ ViewFiles(disk) = disk.files
         /\ ViewManifest(disk) = disk.manifest /\ ViewUndo(disk) = disk.undo
<1>1. RecoverOK(disk, op)
    BY DEF PackInv, PhaseOK
<1>2. disk.txn = None
    BY <1>1, Heads DEF RecoverOK, TakingBack, Finishing
<1> QED BY <1>2 DEF PackInv, DiskOK, ViewFiles, ViewManifest, ViewUndo

LEMMA LoadKeeps ==
  ASSUME PackInv, Load
  PROVE  PackInv'
<1>0. op.kind = "start" /\ op.todo = <<>> /\ op.pc = "recover"
    BY DEF PackInv, TargetOK, Load
<1>1. disk.txn = None /\ ValidSet(disk.files) /\ ViewFiles(disk) = disk.files
    BY <1>0, Recovered
<1>2. /\ disk' = disk /\ op' = NoOp /\ active' = disk.files /\ late' = late /\ stale' = stale
      /\ up' \in {"cli", "loaded"}
    BY <1>1 DEF Load, Return
<1>3. PackTypeOK'
    BY <1>2, IdleOK DEF PackInv, PackTypeOK, Processes
<1>4. DiskOK(disk') /\ PhaseOK(disk', op', late') /\ TargetOK(disk', op', stale')
    BY <1>2, IdleOK DEF PackInv
<1>5. ActiveOK(disk, op, late)'
    BY <1>1, <1>2, IdleOK DEF ActiveOK
<1> QED BY <1>3, <1>4, <1>5 DEF PackInv

\* A change that returns leaves a disk that loads, and the active snapshot.
LEMMA ReturnKeeps ==
  ASSUME PackInv, op' = NoOp, disk' \in DiskRec, DiskOK(disk'), up' \in Processes,
         late' \in BOOLEAN, stale' \in BOOLEAN,
         up' = "loaded" => disk'.txn = None,
         late' \/ up' = "down" \/ active' = ViewFiles(disk')
  PROVE  PackInv'
<1>1. OpTypeOK(op') /\ PhaseOK(disk', op', late') /\ TargetOK(disk', op', stale') /\ op'.pc = "idle"
    BY IdleOK
<1>2. ActiveOK(disk, op, late)'
    BY <1>1 DEF ActiveOK
<1> QED BY <1>1, <1>2 DEF PackInv, PackTypeOK

LEMMA ExitKeeps ==
  ASSUME PackInv, Exit
  PROVE  PackInv'
<1>1. /\ disk' = disk /\ op' = NoOp /\ up' = "down" /\ late' = late /\ stale' = stale
      /\ disk \in DiskRec /\ DiskOK(disk) /\ late \in BOOLEAN /\ stale \in BOOLEAN
    BY DEF Exit, PackInv, PackTypeOK
<1> QED BY <1>1, ReturnKeeps DEF Processes

LEMMA CrashKeeps ==
  ASSUME PackInv, Crash
  PROVE  PackInv'
<1>1. /\ disk' = disk /\ op' = NoOp /\ up' = "down" /\ late' = late /\ stale' = stale
      /\ disk \in DiskRec /\ DiskOK(disk) /\ late \in BOOLEAN /\ stale \in BOOLEAN
    BY DEF Crash, PackInv, PackTypeOK
<1> QED BY <1>1, ReturnKeeps DEF Processes

\* The last write of an abort or of a commit is done.
LEMMA FinishKeeps ==
  ASSUME PackInv, Finish
  PROVE  PackInv'
<1>0. /\ op.pc \in {"commit", "abort"} /\ op.todo = <<>> /\ op' = NoOp /\ disk' = disk
      /\ up' = up /\ late' = late /\ stale' = stale
      /\ active' = IF op.pc = "commit" THEN disk.files ELSE active
      /\ disk \in DiskRec /\ DiskOK(disk) /\ up \in Processes /\ late \in BOOLEAN /\ stale \in BOOLEAN
      /\ PhaseOK(disk, op, late) /\ ActiveOK(disk, op, late)
    BY DEF Finish, Return, PackInv, PackTypeOK
<1>1. disk.txn = None
  <2>1. CASE op.pc = "commit"
    BY <1>0, <2>1, Heads DEF PhaseOK, CommitOK
  <2>2. CASE op.pc = "abort"
    BY <1>0, <2>2, Heads DEF PhaseOK, AbortOK, TakingBack
  <2> QED BY <1>0, <2>1, <2>2
<1>2. ViewFiles(disk) = disk.files
    BY <1>1 DEF ViewFiles
<1>3. late \/ up = "down" \/ active' = ViewFiles(disk)
    BY <1>0, <1>2 DEF ActiveOK
<1> QED BY <1>0, <1>1, <1>3, ReturnKeeps

\* The pending record of a change holds what is there before it.
LEMMA BeginKeeps ==
  ASSUME PackInv, Begin
  PROVE  PackInv'
<1> DEFINE goal == IF op.kind = "rollback" THEN disk.undo ELSE op.target
           pending == [file |-> goal.file, before |-> disk.files[goal.file], prior |-> disk.manifest,
                       priorUndo |-> disk.undo, committed |-> FALSE, undo |-> None, next |-> None]
           stage == <<PutTxn(pending), PutFile(goal.file, goal.pack)>>
                    \o (IF op.kind \in {"rollback", "rollbackPack"} THEN <<PutManifest(goal.man)>> ELSE <<>>)
<1>0. /\ disk \in DiskRec /\ OpTypeOK(op) /\ DiskOK(disk) /\ TargetOK(disk, op, stale)
      /\ up \in Processes /\ late \in BOOLEAN /\ stale \in BOOLEAN /\ ActiveOK(disk, op, late)
    BY DEF PackInv, PackTypeOK
<1>1. /\ op.pc = "recover" /\ op.todo = <<>> /\ op.kind \in {"apply", "remove", "rollback", "rollbackPack"}
      /\ disk' = disk /\ up' = up /\ active' = active /\ late' = late /\ stale' = stale
    BY <1>0 DEF Begin, TargetOK, OpTypeOK, Kinds
<1>2. /\ disk.txn = None /\ ValidSet(disk.files) /\ ViewFiles(disk) = disk.files
      /\ ViewManifest(disk) = disk.manifest
    BY <1>1, Recovered
<1>3. up # "loaded" /\ (late \/ up = "down" \/ active = disk.files)
    BY <1>0, <1>1, <1>2 DEF ActiveOK
<1>4. CASE op' = NoOp
    BY <1>0, <1>1, <1>2, <1>3, <1>4, ReturnKeeps
<1>5. CASE /\ goal # None /\ (op.kind = "remove" => disk.files[goal.file] # None)
           /\ op' = [op EXCEPT !.pc = "stage", !.target = goal, !.txn = pending, !.todo = stage]
  <2>1. goal \in UndoRec
    BY <1>0, <1>5, DiskFields DEF OpTypeOK
  <2> PICK u \in UndoRec : u = goal
    BY <2>1
  <2> PICK t : t = pending
    OBVIOUS
  <2>2. /\ u.file \in File /\ u.pack \in Pack \cup {None} /\ u # None
        /\ disk.files \in FileSet /\ disk.manifest \in Manifest \cup {None} /\ disk.undo \in UndoRec \cup {None}
    BY <1>0, UndoFields, DiskFields
  <2>3. /\ t.file = u.file /\ t.before = disk.files[u.file] /\ t.prior = disk.manifest /\ t.priorUndo = disk.undo
        /\ t.committed = FALSE /\ t \in TxnRec
    BY <2>2 DEF TxnRec, FileSet
  <2>4. t # None
    BY <2>3, TxnFields
  <2>5. op' = [kind |-> op.kind, pc |-> "stage", target |-> u, txn |-> t, todo |-> stage]
    BY <1>0, <1>5 DEF OpTypeOK
  <2>6. op'.kind = op.kind /\ op'.pc = "stage" /\ op'.target = u /\ op'.txn = t /\ op'.todo = stage
    BY <2>5
  <2>7. OpTypeOK(op')
    BY <1>0, <2>3, <2>5, <2>6 DEF OpTypeOK, Phases
  <2>8. disk.files = Prior(disk, t)
    BY <2>2, <2>3 DEF Prior, FileSet
  <2>9. ChangeOK(disk, op')
    <3>1. op.kind = "remove" => t.before # None
        BY <1>5, <2>3
    <3>2. op.kind = "rollback" => u = t.priorUndo
        BY <2>3
    <3>3. ValidSet(Prior(disk, t)) /\ ~t.committed
        BY <1>2, <2>3, <2>8
    <3> HIDE DEF goal, pending, stage
    <3> QED BY <1>1, <2>2, <2>3, <2>4, <2>6, <3>1, <3>2, <3>3 DEF ChangeOK
  <2>10. op'.todo = IF RollsBack(op')
                    THEN <<PutTxn(t), PutFile(t.file, u.pack), PutManifest(u.man)>>
                    ELSE <<PutTxn(t), PutFile(t.file, u.pack)>>
    <3>1. CASE RollsBack(op')
      <4>1. op'.todo = <<PutTxn(t), PutFile(t.file, u.pack)>> \o <<PutManifest(u.man)>>
        BY <2>3, <2>6, <3>1 DEF RollsBack
      <4> QED BY <3>1, <4>1, JoinTwo
    <3>2. CASE ~RollsBack(op')
      <4>1. op'.todo = <<PutTxn(t), PutFile(t.file, u.pack)>> \o <<>>
        BY <2>3, <2>6, <3>2 DEF RollsBack
      <4> QED BY <3>2, <4>1, JoinTwo
    <3> QED BY <3>1, <3>2
  <2>11. StageOK(disk, op')
    BY <1>2, <2>3, <2>6, <2>8, <2>10 DEF StageOK
  <2>12. PhaseOK(disk, op', late)
    BY <2>6, <2>9, <2>11 DEF PhaseOK
  <2>13. TargetOK(disk, op', stale)
    BY <1>0, <1>1, <1>2, <2>3, <2>6 DEF TargetOK
  <2>14. ActiveOK(disk, op, late)'
    BY <1>1, <1>2, <1>3, <2>6 DEF ActiveOK
  <2>15. PackTypeOK'
    BY <1>0, <1>1, <2>7 DEF PackTypeOK
  <2> QED BY <1>0, <1>1, <2>12, <2>13, <2>14, <2>15 DEF PackInv
<1> QED
  <2>1. \/ op' = NoOp
        \/ /\ goal # None /\ (op.kind = "remove" => disk.files[goal.file] # None)
           /\ op' = [op EXCEPT !.pc = "stage", !.target = goal, !.txn = pending, !.todo = stage]
    BY DEF Begin, Return
  <2> QED BY <1>4, <1>5, <2>1

\* The change is staged.
LEMMA Staged ==
  ASSUME PackInv, op.pc = "stage", op.todo = <<>>
  PROVE  /\ ChangeOK(disk, op) /\ disk.txn = op.txn /\ disk.undo = op.txn.priorUndo
         /\ disk.files[op.txn.file] = op.target.pack /\ disk.manifest = StagedManifest(op)
         /\ ViewFiles(disk) = Prior(disk, op.txn)
<1>1. ChangeOK(disk, op) /\ StageOK(disk, op)
    BY DEF PackInv, PhaseOK
<1>2. /\ disk.txn = op.txn /\ disk.undo = op.txn.priorUndo
      /\ disk.files[op.txn.file] = op.target.pack /\ disk.manifest = StagedManifest(op)
    BY <1>1, Heads DEF StageOK
<1> QED BY <1>1, <1>2 DEF ChangeOK, ViewFiles, Prior

\* Goto a phase of the same change.
LEMMA GotoOp ==
  ASSUME OpTypeOK(op), NEW pc \in Phases, NEW todo, Goto(pc, todo)
  PROVE  /\ OpTypeOK(op') /\ op'.kind = op.kind /\ op'.pc = pc /\ op'.target = op.target
         /\ op'.txn = op.txn /\ op'.todo = todo
<1>1. op' = [kind |-> op.kind, pc |-> pc, target |-> op.target, txn |-> op.txn, todo |-> todo]
    BY DEF OpTypeOK, Goto
<1> QED BY <1>1 DEF OpTypeOK

LEMMA CommitKeeps ==
  ASSUME PackInv, Commit
  PROVE  PackInv'
<1>0. /\ disk \in DiskRec /\ OpTypeOK(op) /\ DiskOK(disk) /\ TargetOK(disk, op, stale)
      /\ up \in Processes /\ late \in BOOLEAN /\ stale \in BOOLEAN /\ ActiveOK(disk, op, late)
    BY DEF PackInv, PackTypeOK
<1>1. /\ op.pc = "stage" /\ op.todo = <<>> /\ Validated
      /\ disk' = disk /\ up' = up /\ active' = active /\ late' = late /\ stale' = stale
    BY DEF Commit
<1>2. /\ ChangeOK(disk, op) /\ disk.txn = op.txn /\ disk.undo = op.txn.priorUndo
      /\ disk.files[op.txn.file] = op.target.pack /\ disk.manifest = StagedManifest(op)
      /\ ViewFiles(disk) = Prior(disk, op.txn)
    BY <1>1, Staged
<1>3. NextManifest = CommitManifest(op)
    BY <1>2 DEF NextManifest, CommitManifest, StagedManifest, RollsBack, ChangeOK
<1> PICK c : c = Committed(op)
    OBVIOUS
<1> PICK m : m = CommitManifest(op)
    OBVIOUS
<1> PICK u : u = CommitUndo(op)
    OBVIOUS
<1>4. c.undo = u /\ c.next = m
    BY <1>0, <1>2, CommittedType
<1> PICK todo : todo = IF RollsBack(op)
                       THEN <<PutTxn(c), PutUndo(u), PutTxn(None)>>
                       ELSE <<PutTxn(c), PutUndo(u), PutManifest(m), PutTxn(None)>>
    OBVIOUS
<1>5. Goto("commit", todo)
  <2>1. Goto("commit", Append(<<PutTxn(c), PutUndo(c.undo)>>
                              \o (IF op.kind \in {"apply", "remove"} THEN <<PutManifest(c.next)>> ELSE <<>>),
                              PutTxn(None)))
    BY <1>3 DEF Commit, Committed, CommitUndo
  <2>2. CASE RollsBack(op)
    <3>1. Goto("commit", Append(<<PutTxn(c), PutUndo(u)>> \o <<>>, PutTxn(None)))
      BY <1>4, <2>1, <2>2 DEF RollsBack
    <3>2. <<PutTxn(c), PutUndo(u)>> \o <<>> = <<PutTxn(c), PutUndo(u)>>
      BY JoinTwo
    <3>3. Append(<<PutTxn(c), PutUndo(u)>>, PutTxn(None)) = todo
      BY <2>2, AppendTwo
    <3> QED BY <3>1, <3>2, <3>3
  <2>3. CASE ~RollsBack(op)
    <3>1. Goto("commit", Append(<<PutTxn(c), PutUndo(u)>> \o <<PutManifest(m)>>, PutTxn(None)))
      BY <1>2, <1>4, <2>1, <2>3 DEF RollsBack, ChangeOK
    <3>2. <<PutTxn(c), PutUndo(u)>> \o <<PutManifest(m)>> = <<PutTxn(c), PutUndo(u), PutManifest(m)>>
      BY JoinTwo
    <3>3. Append(<<PutTxn(c), PutUndo(u), PutManifest(m)>>, PutTxn(None)) = todo
      BY <2>3, AppendThree
    <3> QED BY <3>1, <3>2, <3>3
  <2> QED BY <2>2, <2>3
<1>6. /\ OpTypeOK(op') /\ op'.kind = op.kind /\ op'.pc = "commit" /\ op'.target = op.target
      /\ op'.txn = op.txn /\ op'.todo = todo
    BY <1>0, <1>5, GotoOp DEF Phases
<1>7. /\ (RollsBack(op') <=> RollsBack(op)) /\ StagedManifest(op') = StagedManifest(op)
      /\ CommitManifest(op') = m /\ CommitUndo(op') = u /\ Committed(op') = c
    BY <1>6 DEF RollsBack, StagedManifest, CommitManifest, CommitUndo, Committed
<1>8. ChangeOK(disk, op')
    BY <1>2, <1>6 DEF ChangeOK
<1>9. CommitOK(disk, op')
    BY <1>1, <1>2, <1>6, <1>7 DEF CommitOK, Validated
<1>10. PhaseOK(disk, op', late)
    BY <1>6, <1>8, <1>9 DEF PhaseOK
<1>11. TargetOK(disk, op', stale)
    BY <1>0, <1>1, <1>6 DEF TargetOK
<1>12. ActiveOK(disk, op, late)'
    BY <1>0, <1>1, <1>2, <1>6 DEF ActiveOK
<1>13. PackTypeOK'
    BY <1>0, <1>1, <1>6 DEF PackTypeOK
<1> QED BY <1>0, <1>1, <1>10, <1>11, <1>12, <1>13 DEF PackInv

\* A change whose record may be on disk is taken back.
LEMMA AbortKeeps ==
  ASSUME PackInv, op.pc \in {"stage", "commit"}, Goto("abort", AbortWrites(op.txn)),
         disk' \in DiskRec, DiskOK(disk'), Prior(disk', op.txn) = Prior(disk, op.txn),
         disk'.txn # None, disk'.txn.file = op.txn.file, disk'.txn.before = op.txn.before,
         up' = up, active' = active, late' \in BOOLEAN, late => late', stale' = stale,
         late' \/ disk'.txn = op.txn
  PROVE  PackInv'
<1>0. /\ disk \in DiskRec /\ OpTypeOK(op) /\ DiskOK(disk) /\ TargetOK(disk, op, stale)
      /\ up \in Processes /\ late \in BOOLEAN /\ stale \in BOOLEAN /\ ActiveOK(disk, op, late)
      /\ ChangeOK(disk, op)
    BY DEF PackInv, PackTypeOK, PhaseOK
<1>1. /\ OpTypeOK(op') /\ op'.kind = op.kind /\ op'.pc = "abort" /\ op'.target = op.target
      /\ op'.txn = op.txn /\ op'.todo = AbortWrites(op.txn)
    BY <1>0, GotoOp DEF Phases
<1>2. ChangeOK(disk', op')
    BY <1>0, <1>1 DEF ChangeOK
<1>3. AbortOK(disk', op', late')
    BY <1>1 DEF AbortOK, TakingBack, AbortWrites
<1>4. PhaseOK(disk', op', late')
    BY <1>1, <1>2, <1>3 DEF PhaseOK
<1>5. TargetOK(disk', op', stale')
    BY <1>0, <1>1 DEF TargetOK
<1>6. up # "loaded"
    BY <1>0 DEF ActiveOK
<1>7. late' \/ up = "down" \/ active = ViewFiles(disk')
  <2> SUFFICES ASSUME ~late', up # "down" PROVE active = ViewFiles(disk')
      OBVIOUS
  <2>1. ~late /\ disk'.txn = op.txn /\ ~op.txn.committed
      BY <1>0 DEF ChangeOK
  <2>2. ViewFiles(disk') = Prior(disk', op.txn)
      BY <2>1 DEF ViewFiles, Prior
  <2>3. CASE op.pc = "commit"
      BY <1>0, <2>1, <2>2, <2>3 DEF ActiveOK
  <2>4. CASE op.pc = "stage"
    <3>1. StageOK(disk, op)
        BY <2>4 DEF PackInv, PhaseOK
    <3>2. ViewFiles(disk) = Prior(disk, op.txn)
        BY <2>1, <3>1 DEF StageOK, ViewFiles, Prior
    <3> QED BY <1>0, <2>1, <2>2, <2>4, <3>2 DEF ActiveOK
  <2> QED BY <2>3, <2>4
<1>8. ActiveOK(disk, op, late)'
    BY <1>1, <1>6, <1>7 DEF ActiveOK
<1>9. PackTypeOK'
    BY <1>0, <1>1 DEF PackTypeOK
<1> QED BY <1>4, <1>5, <1>8, <1>9 DEF PackInv

LEMMA RejectKeeps ==
  ASSUME PackInv, Reject
  PROVE  PackInv'
<1>1. /\ op.pc = "stage" /\ op.todo = <<>> /\ Goto("abort", AbortWrites(op.txn))
      /\ disk' = disk /\ up' = up /\ active' = active /\ late' = late /\ stale' = stale
      /\ disk \in DiskRec /\ DiskOK(disk) /\ late \in BOOLEAN
    BY DEF Reject, PackInv, PackTypeOK
<1>2. disk.txn = op.txn /\ op.txn # None
    BY <1>1, Staged DEF ChangeOK
<1> QED BY <1>1, <1>2, AbortKeeps

\* A write that fails has happened or not.
LEMMA WriteFailsKeeps ==
  ASSUME PackInv, WriteFails
  PROVE  /\ PackInv'
         /\ late' \/ SameView(disk, disk')
<1>0. /\ disk \in DiskRec /\ OpTypeOK(op) /\ DiskOK(disk) /\ PhaseOK(disk, op, late) /\ TargetOK(disk, op, stale)
      /\ up \in Processes /\ late \in BOOLEAN /\ stale \in BOOLEAN /\ ActiveOK(disk, op, late)
    BY DEF PackInv, PackTypeOK
<1> PICK w : w = Head(op.todo)
    OBVIOUS
<1>1. op.todo # <<>> /\ stale' = stale
    BY DEF WriteFails
<1>2. \/ disk' = disk
      \/ disk' = Effect(disk, w) /\ ~(w.what # "files" /\ w.val = None)
    BY PutIsEffect DEF WriteFails, AfterFailure
<1> PICK x : x = [op EXCEPT !.todo = Tail(@)]
    OBVIOUS
<1>3. Advanced(op, x)
  <2>1. x = [kind |-> op.kind, pc |-> op.pc, target |-> op.target, txn |-> op.txn, todo |-> Tail(op.todo)]
    BY <1>0 DEF OpTypeOK
  <2> QED BY <2>1 DEF Advanced
<1>4. ASSUME disk' = Effect(disk, w)
      PROVE  /\ disk' \in DiskRec /\ DiskOK(disk') /\ PhaseOK(disk', x, late)
             /\ op.pc \in {"stage", "commit", "abort"} => Prior(disk', op.txn) = Prior(disk, op.txn)
             /\ late \/ SameView(disk, disk') \/ Switching(disk, op, disk')
    BY <1>0, <1>1, <1>3, <1>4, WriteOK
<1>5. /\ op.pc # "idle" /\ up # "loaded"
      /\ disk' \in DiskRec /\ DiskOK(disk')
      /\ op.pc \in {"stage", "commit", "abort"} => Prior(disk', op.txn) = Prior(disk, op.txn)
      /\ late \/ SameView(disk, disk') \/ Switching(disk, op, disk')
  <2>1. op.pc # "idle"
    BY <1>0, <1>1 DEF PhaseOK, NoOp
  <2>2. up # "loaded"
    BY <1>0, <2>1 DEF ActiveOK
  <2> QED BY <1>0, <1>2, <1>4, <2>1, <2>2 DEF SameView
<1>6. ASSUME w = PutTxn(None)
      PROVE  disk' = disk
    BY <1>2, <1>6 DEF PutTxn
<1>7. CASE Cleaning /\ op.kind \in {"apply", "remove"} /\ active' = disk.files /\ Return /\ UNCHANGED <<up, late>>
  <2>1. op.pc = "commit" /\ op.todo = <<PutTxn(None)>>
    BY <1>7 DEF Cleaning
  <2>2. disk' = disk
    BY <1>6, <2>1, Heads
  <2>3. CommitOK(disk, op) /\ ChangeOK(disk, op) /\ Committed(op).committed
    BY <1>0, <2>1, CommittedType DEF PhaseOK
  <2>4. disk.txn = Committed(op)
    <3>1. ~RollsBack(op)
      BY <1>7 DEF RollsBack
    <3>2. \/ op.todo = <<PutTxn(Committed(op)), PutUndo(CommitUndo(op)), PutManifest(CommitManifest(op)), PutTxn(None)>>
          \/ op.todo = <<>>
          \/ disk.txn = Committed(op)
      BY <2>3, <3>1 DEF CommitOK
    <3> QED BY <2>1, <3>2
  <2>5. ViewFiles(disk) = disk.files
    BY <2>3, <2>4 DEF ViewFiles
  <2>6. op' = NoOp /\ up' = up /\ late' = late /\ active' = disk.files
    BY <1>7 DEF Return
  <2> QED BY <1>0, <1>1, <1>5, <2>2, <2>5, <2>6, ReturnKeeps DEF SameView
<1>8. CASE Cleaning /\ op.kind \in {"rollback", "rollbackPack"} /\ Return /\ late' = TRUE /\ UNCHANGED <<up, active>>
    BY <1>0, <1>1, <1>5, <1>8, ReturnKeeps DEF Return
<1>9. CASE /\ op.pc = "commit" /\ ~Cleaning
           /\ Goto("abort", AbortWrites(op.txn))
           /\ late' = (late \/ disk'.txn.committed)
           /\ UNCHANGED <<up, active>>
  <2>1. /\ CommitOK(disk, op) /\ ChangeOK(disk, op) /\ op.txn \in TxnRec /\ Committed(op) \in TxnRec
        /\ Committed(op).file = op.txn.file /\ Committed(op).before = op.txn.before /\ Committed(op).committed
    BY <1>0, <1>9, CommittedType DEF PhaseOK
  <2>2. disk.txn = op.txn \/ disk.txn = Committed(op)
    BY <1>1, <2>1 DEF CommitOK
  <2>3. disk'.txn \in {op.txn, Committed(op)}
    <3>1. CASE disk' = disk
      BY <2>2, <3>1
    <3>2. CASE disk' = Effect(disk, w) /\ ~(w.what # "files" /\ w.val = None)
      <4>1. /\ disk'.txn \in {Committed(op), None}
            /\ disk'.txn = None => w = PutTxn(None)
        BY <1>0, <1>1, <1>3, <2>1, <3>2, CommitStep
      <4>2. w # PutTxn(None)
        BY <3>2 DEF PutTxn
      <4> QED BY <4>1, <4>2
    <3> QED BY <1>2, <3>1, <3>2
  <2>4. disk'.txn # None /\ disk'.txn.file = op.txn.file /\ disk'.txn.before = op.txn.before
        /\ (disk'.txn = op.txn \/ disk'.txn.committed) /\ disk'.txn.committed \in BOOLEAN
    BY <2>1, <2>3, TxnFields
  <2>5. late' \in BOOLEAN /\ (late => late') /\ (late' \/ disk'.txn = op.txn)
    BY <1>0, <1>9, <2>4
  <2>6. PackInv'
    BY <1>1, <1>5, <1>9, <2>4, <2>5, AbortKeeps
  <2>7. late' \/ SameView(disk, disk')
    <3> SUFFICES ASSUME ~late' PROVE SameView(disk, disk')
        OBVIOUS
    <3>1. ~late /\ disk'.txn = op.txn /\ ~disk'.txn.committed
        BY <1>9, <2>4
    <3>2. CASE disk' = disk
        BY <3>2 DEF SameView
    <3>3. CASE disk' = Effect(disk, w)
        BY <1>0, <1>1, <1>3, <2>1, <2>4, <3>1, <3>3, CommitStep
    <3> QED BY <1>2, <3>2, <3>3
  <2> QED BY <2>6, <2>7
<1>10. CASE /\ op.pc = "stage"
            /\ IF Head(op.todo).what = "txn" THEN Return ELSE Goto("abort", AbortWrites(op.txn))
            /\ UNCHANGED <<up, active, late>>
  <2>1. late \/ SameView(disk, disk')
    BY <1>5, <1>10 DEF Switching
  <2>2. /\ ChangeOK(disk, op) /\ StageOK(disk, op) /\ op.txn # None
    BY <1>0, <1>10 DEF PhaseOK, ChangeOK
  <2>3. CASE w.what = "txn"
    <3>1. op' = NoOp /\ up' = up /\ active' = active /\ late' = late
        BY <1>10, <2>3 DEF Return
    <3>2. late \/ up = "down" \/ active = ViewFiles(disk')
        BY <1>0, <1>10, <2>1 DEF ActiveOK, SameView
    <3> QED BY <1>0, <1>1, <1>5, <2>1, <3>1, <3>2, ReturnKeeps
  <2>4. CASE w.what # "txn"
    <3>1. disk.txn = op.txn
        BY <2>2, <2>4, Heads DEF StageOK, PutTxn
    <3>2. disk'.txn = op.txn
        BY <1>0, <1>1, <1>2, <1>3, <2>2, <3>1, StageStep
    <3>3. PackInv'
        BY <1>0, <1>1, <1>5, <1>10, <2>2, <2>4, <3>2, AbortKeeps
    <3> QED BY <1>10, <2>1, <3>3
  <2> QED BY <2>3, <2>4
<1>11. CASE op.pc \in {"recover", "abort"} /\ Return /\ UNCHANGED <<up, active, late>>
  <2>1. late \/ SameView(disk, disk')
    BY <1>5, <1>11 DEF Switching
  <2>2. op' = NoOp /\ up' = up /\ active' = active /\ late' = late
    BY <1>11 DEF Return
  <2>3. late \/ up = "down" \/ active = ViewFiles(disk')
    BY <1>0, <1>11, <2>1 DEF ActiveOK, SameView
  <2> QED BY <1>0, <1>1, <1>5, <2>1, <2>2, <2>3, ReturnKeeps
<1> QED BY <1>7, <1>8, <1>9, <1>10, <1>11 DEF WriteFails

LEMMA StepInv == PackInv /\ [Next]_vars => PackInv'
<1> SUFFICES ASSUME PackInv, [Next]_vars PROVE PackInv'
    OBVIOUS
<1>1. CASE Start
    BY <1>1, StartKeeps
<1>2. CASE Load
    BY <1>2, LoadKeeps
<1>3. CASE Serve
    BY <1>3, ServeKeeps
<1>4. CASE Begin
    BY <1>4, BeginKeeps
<1>5. CASE Write
    BY <1>5, WriteKeeps
<1>6. CASE WriteFails
    BY <1>6, WriteFailsKeeps
<1>7. CASE Commit
    BY <1>7, CommitKeeps
<1>8. CASE Reject
    BY <1>8, RejectKeeps
<1>9. CASE Finish
    BY <1>9, FinishKeeps
<1>10. CASE Exit
    BY <1>10, ExitKeeps
<1>11. CASE Crash
    BY <1>11, CrashKeeps
<1>12. ASSUME NEW f \in File, RemovePackFile(f)
       PROVE  PackInv'
    BY <1>12, RemoveKeeps
<1>13. ASSUME NEW f \in File, NEW p \in Pack, ApplyPackFile(f, p)
       PROVE  PackInv'
    BY <1>13, ApplyKeeps
<1>14. CASE Rollback
    BY <1>14, RollbackKeeps
<1>15. ASSUME NEW n \in Name, RollbackPack(n)
       PROVE  PackInv'
    BY <1>15, RollbackPackKeeps
<1>16. CASE UNCHANGED vars
    BY <1>16 DEF vars, PackInv, PackTypeOK, ActiveOK
<1> QED BY <1>1, <1>2, <1>3, <1>4, <1>5, <1>6, <1>7, <1>8, <1>9, <1>10, <1>11, <1>12, <1>13, <1>14, <1>15, <1>16 DEF Next

LEMMA AlwaysInv == Spec => []PackInv
  BY InitInv, StepInv, PTL DEF Spec

\* Whatever write failed and wherever a process stopped, the pack set that
\* RecoverTransactions and LoadDir find loads, also after a write that failed
\* past the commit record.
THEOREM RestartSafe == Spec => []RestartLoads
<1>1. PackInv => RestartLoads
  <2> SUFFICES ASSUME PackInv PROVE ValidSet(ViewFiles(disk))
      BY ViewIs DEF RestartLoads, PackInv
  <2> QED BY DEF PackInv, DiskOK, ViewFiles, Prior
<1> QED BY <1>1, AlwaysInv, PTL

\* Between changes the SnapshotManager serves exactly the pack set that a
\* restart would load, unless a write failed past the commit record.
THEOREM ServesRestart == Spec => []ServesWhatRestartLoads
<1>1. PackInv => ServesWhatRestartLoads
  <2> SUFFICES ASSUME PackInv, ~late, up # "down", op = NoOp PROVE active = ViewFiles(disk)
      BY ViewIs DEF ServesWhatRestartLoads, PackInv
  <2> QED BY IdleOK DEF PackInv, ActiveOK
<1> QED BY <1>1, AlwaysInv, PTL

-----------------------------------------------------------------------------
(* What a recovery finds changes as PackSet says. *)

\* Putting p into file f with the manifest next is a change of PackSet.
SetChange(fs, m, u, f, p, next) ==
    \/ p \in Pack /\ NameAllowed(fs[f], f, p) /\ next = NextManifestForApply(m, fs[f], f, p)
    \/ p = None /\ fs[f] # None /\ next = NextManifestForRemove(m, fs[f], f)
    \/ u # None /\ f = u.file /\ p = u.pack /\ next = u.man
    \/ \E n \in Name :
          /\ History(m, n) # <<>> /\ next = RolledBack(m, n)
          /\ f = LastRevision(m, n).file /\ p = LastRevision(m, n).pack

\* The view of e is that of d after such a change.
Changed(d, e) ==
    \E f \in File, p \in Pack \cup {None} :
        /\ SetChange(ViewFiles(d), ViewManifest(d), ViewUndo(d), f, p, ViewManifest(e))
        /\ ViewFiles(e) = [ViewFiles(d) EXCEPT ![f] = p] /\ ValidSet(ViewFiles(e))
        /\ ViewUndo(e) = [file |-> f, pack |-> ViewFiles(d)[f], man |-> ViewManifest(d)]

LEMMA SwitchChanges ==
  ASSUME PackInv, ~stale, NEW e, Switching(disk, op, e)
  PROVE  Changed(disk, e)
<1>0. /\ disk \in DiskRec /\ OpTypeOK(op) /\ TargetOK(disk, op, stale)
      /\ op.pc = "commit" /\ ChangeOK(disk, op) /\ CommitOK(disk, op)
      /\ disk.txn = op.txn /\ ViewFiles(e) = disk.files
      /\ ViewUndo(e) = CommitUndo(op) /\ ViewManifest(e) = CommitManifest(op)
    BY DEF PackInv, PackTypeOK, PhaseOK, Switching
<1>1. op.txn \in TxnRec /\ op.target \in UndoRec
    BY <1>0, CommittedType
<1> PICK t \in TxnRec : t = op.txn
    BY <1>1
<1> PICK u \in UndoRec : u = op.target
    BY <1>1
<1>2. /\ t.file \in File /\ u.pack \in Pack \cup {None} /\ t # None /\ u # None /\ disk.files \in FileSet
      /\ ~t.committed /\ t.file = u.file /\ ValidSet(disk.files) /\ disk.files[t.file] = u.pack
      /\ t.before \in Pack \cup {None}
    BY <1>0, TxnFields, UndoFields, DiskFields DEF ChangeOK, CommitOK
<1>3. ViewFiles(disk) = Prior(disk, t) /\ ViewManifest(disk) = t.prior /\ ViewUndo(disk) = t.priorUndo
    BY <1>0, <1>2 DEF ViewFiles, ViewManifest, ViewUndo, Prior
<1>4. Prior(disk, t)[t.file] = t.before /\ disk.files = [Prior(disk, t) EXCEPT ![t.file] = u.pack]
    BY <1>2 DEF Prior, FileSet
<1>5. ViewUndo(e) = [file |-> t.file, pack |-> Prior(disk, t)[t.file], man |-> t.prior]
    BY <1>0, <1>4 DEF CommitUndo
<1>6. SetChange(Prior(disk, t), t.prior, t.priorUndo, t.file, u.pack, CommitManifest(op))
  <2>1. CASE op.kind = "apply"
    BY <1>0, <1>4, <2>1 DEF SetChange, CommitManifest, TargetOK, CommitOK
  <2>2. CASE op.kind = "remove"
    BY <1>0, <1>4, <2>2 DEF SetChange, CommitManifest, TargetOK, ChangeOK
  <2>3. CASE op.kind = "rollback"
    BY <1>0, <1>2, <2>3 DEF SetChange, CommitManifest, ChangeOK
  <2>4. CASE op.kind = "rollbackPack"
    <3>1. PICK n \in Name :
             /\ History(t.prior, n) # <<>>
             /\ u = [file |-> LastRevision(t.prior, n).file, pack |-> LastRevision(t.prior, n).pack,
                     man |-> RolledBack(t.prior, n)]
      BY <1>0, <2>4 DEF TargetOK, FromHistory
    <3>2. CommitManifest(op) = RolledBack(t.prior, n) /\ t.file = LastRevision(t.prior, n).file
          /\ u.pack = LastRevision(t.prior, n).pack
      BY <1>2, <2>4, <3>1 DEF CommitManifest
    <3> QED BY <3>1, <3>2 DEF SetChange
  <2> QED BY <1>0, <2>1, <2>2, <2>3, <2>4 DEF ChangeOK
<1> QED BY <1>0, <1>2, <1>3, <1>4, <1>5, <1>6, ZenonT(30) DEF Changed

\* The API server adopts the packs without an entry.
Adopts(d, e) ==
    /\ ViewManifest(e) = Adopted(ViewManifest(d), ViewFiles(d))
    /\ ViewFiles(e) = ViewFiles(d) /\ ViewUndo(e) = ViewUndo(d)

\* Every step leaves what a recovery finds, or is one whole change of it.
LEMMA ViewStep ==
  ASSUME PackInv, [Next]_vars, Sound'
  PROVE  SameView(disk, disk') \/ Adopts(disk, disk') \/ Changed(disk, disk')
<1>1. CASE disk' = disk
    BY <1>1 DEF SameView
<1>2. CASE Serve
  <2>1. /\ disk.txn = None /\ disk'.txn = None /\ disk'.files = disk.files /\ disk'.undo = disk.undo
        /\ disk'.manifest = disk.manifest \/ disk'.manifest = Adopted(disk.manifest, disk.files)
    BY <1>2, ServeKeeps
  <2> QED BY <2>1 DEF SameView, Adopts, ViewFiles, ViewManifest, ViewUndo
<1>3. CASE Write
  <2>1. ~late /\ ~stale
    BY <1>3 DEF Write, Sound
  <2> QED BY <1>3, <2>1, WriteKeeps, SwitchChanges
<1>4. CASE WriteFails
    BY <1>4, WriteFailsKeeps DEF Sound
<1>5. disk' = disk \/ Serve \/ Write \/ WriteFails
    BY DEF Next, vars, Start, Load, Begin, Commit, Reject, Finish, Exit, Crash,
           RemovePackFile, ApplyPackFile, Rollback, RollbackPack, Request
<1> QED BY <1>1, <1>2, <1>3, <1>4, <1>5

\* The operators of PackManifest, seen through the abstract specification.
LEMMA SameOperators ==
  ASSUME NEW fs, NEW m, NEW before, NEW f, NEW p, NEW n
  PROVE  /\ Promise!ValidSet(fs) <=> ValidSet(fs)
         /\ Promise!NameAllowed(before, f, p) <=> NameAllowed(before, f, p)
         /\ Promise!NextManifestForApply(m, before, f, p) = NextManifestForApply(m, before, f, p)
         /\ Promise!NextManifestForRemove(m, before, f) = NextManifestForRemove(m, before, f)
         /\ Promise!History(m, n) = History(m, n)
         /\ Promise!LastRevision(m, n) = LastRevision(m, n)
         /\ Promise!RolledBack(m, n) = RolledBack(m, n)
<1>1. Promise!ValidSet(fs) <=> ValidSet(fs)
    BY DEF Promise!ValidSet, ValidSet
<1>2. Promise!NameAllowed(before, f, p) <=> NameAllowed(before, f, p)
    BY DEF Promise!NameAllowed, NameAllowed
<1>3. \A x : Promise!Decode(x) = Decode(x)
    BY DEF Promise!Decode, Decode, Promise!EmptyManifest, EmptyManifest
<1>4. Promise!NextManifestForApply(m, before, f, p) = NextManifestForApply(m, before, f, p)
    BY <1>3 DEF Promise!NextManifestForApply, NextManifestForApply, Promise!Push, Push,
                Promise!Revision, Revision, Promise!Entry, Entry
<1>5. Promise!NextManifestForRemove(m, before, f) = NextManifestForRemove(m, before, f)
    BY <1>3 DEF Promise!NextManifestForRemove, NextManifestForRemove, Promise!Push, Push,
                Promise!Revision, Revision
<1>6. Promise!History(m, n) = History(m, n) /\ Promise!LastRevision(m, n) = LastRevision(m, n)
    BY <1>3 DEF Promise!History, History, Promise!LastRevision, LastRevision
<1>7. Promise!RolledBack(m, n) = RolledBack(m, n)
    BY <1>3 DEF Promise!RolledBack, RolledBack
<1> QED BY <1>1, <1>2, <1>4, <1>5, <1>6, <1>7

LEMMA SameAdopted ==
  ASSUME NEW m, NEW fs
  PROVE  Promise!Adopted(m, fs) = Adopted(m, fs)
<1>1. Promise!Decode(m) = Decode(m)
    BY DEF Promise!Decode, Decode, Promise!EmptyManifest, EmptyManifest
<1> QED BY <1>1 DEF Promise!Adopted, Adopted, Promise!Entry, Entry

\* The file writes of the pack manager, with their failures and crashes,
\* implement the whole changes of PackSet: a recovery finds the set before a
\* change or after it, with the manifest and the rollback record of that set.
THEOREM KeepsSet == Spec => KeepsPackSet
<1>1. Init => Promise!Init
  <2> SUFFICES ASSUME Init PROVE Promise!Init
      OBVIOUS
  <2>1. disk.files \in Shipped /\ ValidSet(disk.files) /\ disk.manifest = None /\ disk.undo = None /\ disk.txn = None
      BY DEF Init
  <2>2. View.files = disk.files /\ View.manifest = None /\ View.undo = None
      BY <2>1 DEF View
  <2> QED BY <2>1, <2>2, SameOperators DEF Promise!Init
<1>2. PackInv /\ [Next]_vars => [Promise!Next \/ ~Sound']_<<View.files, View.manifest, View.undo>>
  <2> SUFFICES ASSUME PackInv, [Next]_vars, Sound',
                      ~(UNCHANGED <<View.files, View.manifest, View.undo>>)
               PROVE  Promise!Next
      OBVIOUS
  <2> PICK fs : fs = ViewFiles(disk)
      OBVIOUS
  <2> PICK m : m = ViewManifest(disk)
      OBVIOUS
  <2> PICK u : u = ViewUndo(disk)
      OBVIOUS
  <2>1. View.files = fs /\ View.manifest = m /\ View.undo = u
      BY ViewIs DEF PackInv
  <2>2. View'.files = ViewFiles(disk') /\ View'.undo = ViewUndo(disk') /\ View'.manifest = ViewManifest(disk')
      BY StepInv, ViewIsNext DEF PackInv
  <2>3. ~SameView(disk, disk')
      BY <2>1, <2>2 DEF SameView
  <2>4. CASE Adopts(disk, disk')
    <3>1. Promise!Adopt
        BY <2>1, <2>2, <2>4, SameAdopted DEF Adopts, Promise!Adopt
    <3> QED BY <3>1 DEF Promise!Next
  <2>5. CASE Changed(disk, disk')
    <3>1. PICK f \in File, p \in Pack \cup {None} :
             /\ SetChange(fs, m, u, f, p, ViewManifest(disk'))
             /\ ViewFiles(disk') = [fs EXCEPT ![f] = p] /\ ValidSet(ViewFiles(disk'))
             /\ ViewUndo(disk') = [file |-> f, pack |-> fs[f], man |-> m]
        BY <2>5 DEF Changed
    <3>2. ASSUME NEW next, next = ViewManifest(disk')
          PROVE  Promise!Change(f, p, next)
        BY <2>1, <2>2, <3>1, <3>2, SameOperators DEF Promise!Change
    <3>3. CASE p \in Pack /\ NameAllowed(fs[f], f, p) /\ ViewManifest(disk') = NextManifestForApply(m, fs[f], f, p)
      <4>1. Promise!Install(f, p)
          BY <2>1, <3>2, <3>3, SameOperators DEF Promise!Install
      <4> QED BY <3>3, <4>1 DEF Promise!Next
    <3>4. CASE p = None /\ fs[f] # None /\ ViewManifest(disk') = NextManifestForRemove(m, fs[f], f)
      <4>1. Promise!Remove(f)
          BY <2>1, <3>2, <3>4, SameOperators DEF Promise!Remove
      <4> QED BY <4>1 DEF Promise!Next
    <3>5. CASE u # None /\ f = u.file /\ p = u.pack /\ ViewManifest(disk') = u.man
      <4>1. Promise!TakeBack
          BY <2>1, <3>2, <3>5 DEF Promise!TakeBack
      <4> QED BY <4>1 DEF Promise!Next
    <3>6. CASE \E n \in Name :
                  /\ History(m, n) # <<>> /\ ViewManifest(disk') = RolledBack(m, n)
                  /\ f = LastRevision(m, n).file /\ p = LastRevision(m, n).pack
      <4>1. PICK n \in Name :
                  /\ History(m, n) # <<>> /\ ViewManifest(disk') = RolledBack(m, n)
                  /\ f = LastRevision(m, n).file /\ p = LastRevision(m, n).pack
          BY <3>6
      <4>2. Promise!TakeBackPack(n)
          BY <2>1, <3>2, <4>1, SameOperators DEF Promise!TakeBackPack
      <4> QED BY <4>2 DEF Promise!Next
    <3> QED BY <3>1, <3>3, <3>4, <3>5, <3>6 DEF SetChange
  <2> QED BY <2>3, <2>4, <2>5, ViewStep
<1> QED BY <1>1, <1>2, AlwaysInv, PTL DEF Spec, KeepsPackSet

-----------------------------------------------------------------------------
(* Changes of PackSet keep a pack set and its manifest in agreement. *)

LEMMA DecodeManifest ==
  ASSUME NEW m \in Manifest
  PROVE  Decode(m) = m
  BY NoneAssumption DEF Decode

\* Only the entry of n differs, and it is that of pack p in file f or none.
EntryOnly(m, next, n, f, p, en) ==
    /\ next \in Manifest
    /\ next.entries = [Decode(m).entries EXCEPT ![n] = en]
    /\ en # None => p \in Pack /\ NameOf[p] = n /\ en = Entry(f, p)

\* The pack in file f, owned by name n, and the entry of n change together.
LEMMA DescribesReplaced ==
  ASSUME NEW owner, NEW fs \in FileSet, NEW m \in Manifest \cup {None}, NEW next,
         SetOK(owner, fs, m), NEW n \in Name, NEW f \in File, owner[f] = n,
         NEW p \in Pack \cup {None}, NEW en, EntryOnly(m, next, n, f, p, en)
  PROVE  Describes(next, [fs EXCEPT ![f] = p])
<1>0. /\ next \in Manifest
      /\ next.entries = [Decode(m).entries EXCEPT ![n] = en]
      /\ en # None => p \in Pack /\ NameOf[p] = n /\ en = Entry(f, p)
    BY DEF EntryOnly
<1> PICK d : d = Decode(m)
    OBVIOUS
<1> PICK gs : gs = [fs EXCEPT ![f] = p]
    OBVIOUS
<1>1. d \in Manifest /\ Decode(next) = next
    BY <1>0, DecodeType, DecodeManifest
<1>2. \A g \in File : gs[g] = IF g = f THEN p ELSE fs[g]
    BY DEF FileSet
<1>3. ASSUME NEW k \in Name, next.entries[k] # None
      PROVE  gs[next.entries[k].file] = next.entries[k].pack /\ NameOf[next.entries[k].pack] = k
  <2>1. CASE k = n
    <3>1. next.entries[k] = en
        BY <1>0, <1>1, <2>1 DEF Manifest
    <3> QED BY <1>0, <1>2, <1>3, <2>1, <3>1 DEF Entry
  <2>2. CASE k # n
    <3> PICK e : e = d.entries[k]
        OBVIOUS
    <3>1. next.entries[k] = e /\ e # None /\ e \in EntryRec
        BY <1>0, <1>1, <1>3, <2>2 DEF Manifest
    <3>2. fs[e.file] = e.pack /\ NameOf[e.pack] = k /\ e.file \in File /\ e.pack \in Pack
        BY <3>1 DEF SetOK, Describes, EntryRec
    <3>3. fs[e.file] # None
        BY <3>2, PackAssumption
    <3>4. owner[e.file] = k
        BY <3>2, <3>3 DEF SetOK, Owned
    <3> QED BY <1>2, <2>2, <3>1, <3>2, <3>4
  <2> QED BY <2>1, <2>2
<1> QED BY <1>1, <1>3 DEF Describes

\* A file that holds a pack and the entry of the pack's name go together.
LEMMA EntryOfFile ==
  ASSUME NEW owner, NEW fs \in FileSet, NEW m \in Manifest \cup {None}, SetOK(owner, fs, m),
         NEW f \in File, NEW n \in Name, fs[f] # None, NameOf[fs[f]] = n, Decode(m).entries[n] # None
  PROVE  Decode(m).entries[n] = Entry(f, fs[f])
<1> PICK e : e = Decode(m).entries[n]
    OBVIOUS
<1>1. e \in EntryRec
    BY DecodeType DEF Manifest
<1>2. fs[e.file] = e.pack /\ NameOf[e.pack] = n /\ e.file \in File /\ e.pack \in Pack
    BY <1>1 DEF SetOK, Describes, EntryRec
<1>3. e.file = f
    BY <1>2, PackAssumption DEF SetOK, ValidSet
<1>4. e = [file |-> e.file, pack |-> e.pack]
    BY <1>1 DEF EntryRec
<1> QED BY <1>2, <1>3, <1>4 DEF Entry

\* What the history records of pack n.
RevisionOK(owner, n, r) ==
    /\ owner[r.file] = n
    /\ r.pack # None => NameOf[r.pack] = n
    /\ r.prev # None => r.prev = Entry(r.file, r.pack)

LEMMA OwnedHistory ==
  ASSUME NEW owner, NEW fs, NEW m
  PROVE  Owned(owner, fs, m) <=>
            /\ \A f \in File : fs[f] # None => NameOf[fs[f]] = owner[f]
            /\ \A n \in Name : \A i \in DOMAIN Decode(m).hist[n] : RevisionOK(owner, n, Decode(m).hist[n][i])
  BY DEF Owned, RevisionOK

\* An install or a removal records how the name stood.
LEMMA PushOK ==
  ASSUME NEW owner, NEW fs \in FileSet, NEW m \in Manifest \cup {None}, SetOK(owner, fs, m),
         NEW n \in Name, NEW f \in File, owner[f] = n,
         NEW p \in Pack \cup {None}, p # None => NameOf[p] = n,
         NEW en \in EntryRec \cup {None}, en # None => p \in Pack /\ en = Entry(f, p),
         NEW r \in RevisionRec, RevisionOK(owner, n, r),
         ValidSet([fs EXCEPT ![f] = p])
  PROVE  SetOK(owner, [fs EXCEPT ![f] = p], Push(Decode(m), n, r, en))
<1> PICK d : d = Decode(m)
    OBVIOUS
<1> PICK next : next = Push(d, n, r, en)
    OBVIOUS
<1> PICK gs : gs = [fs EXCEPT ![f] = p]
    OBVIOUS
<1>1. d \in Manifest
    BY DecodeType
<1>2. /\ next \in Manifest /\ next.entries = [d.entries EXCEPT ![n] = en]
      /\ next.hist = [d.hist EXCEPT ![n] = Append(d.hist[n], r)]
  <2>1. /\ Push(d, n, r, en) \in Manifest
        /\ Push(d, n, r, en).entries = [d.entries EXCEPT ![n] = en]
        /\ Push(d, n, r, en).hist = [d.hist EXCEPT ![n] = Append(d.hist[n], r)]
    BY ONLY <1>1, PushType, n \in Name, r \in RevisionRec, en \in EntryRec \cup {None}
  <2> QED BY <2>1
<1>3. Describes(next, gs)
  <2>1. EntryOnly(m, next, n, f, p, en)
    BY <1>2, PackAssumption DEF EntryOnly
  <2>3. Describes(next, [fs EXCEPT ![f] = p])
    BY ONLY <2>1, DescribesReplaced, fs \in FileSet, m \in Manifest \cup {None}, SetOK(owner, fs, m),
            n \in Name, f \in File, owner[f] = n, p \in Pack \cup {None}
  <2> QED BY <2>3
<1>4. \A g \in File : gs[g] # None => NameOf[gs[g]] = owner[g]
    BY DEF SetOK, Owned, FileSet
<1>5. ASSUME NEW k \in Name, NEW i \in DOMAIN next.hist[k]
      PROVE  RevisionOK(owner, k, next.hist[k][i])
  <2>1. \A j \in DOMAIN d.hist[k] : RevisionOK(owner, k, d.hist[k][j])
    BY OwnedHistory DEF SetOK
  <2>2. CASE k # n
    <3>1. next.hist[k] = d.hist[k]
        BY <1>1, <1>2, <2>2 DEF Manifest
    <3> QED BY <1>5, <2>1, <3>1
  <2>3. CASE k = n
    <3> PICK h : h = d.hist[n]
        OBVIOUS
    <3>1. h \in Seq(RevisionRec) /\ next.hist[k] = Append(h, r)
        BY <1>1, <1>2, <2>3 DEF Manifest
    <3>2. /\ Len(h) \in Nat /\ DOMAIN h = 1 .. Len(h) /\ DOMAIN Append(h, r) = 1 .. Len(h) + 1
          /\ \A j \in 1 .. Len(h) : Append(h, r)[j] = h[j]
          /\ Append(h, r)[Len(h) + 1] = r
        BY <3>1, LenProperties, AppendProperties
    <3>3. CASE i = Len(h) + 1
        BY <2>3, <3>1, <3>2, <3>3
    <3>4. CASE i \in 1 .. Len(h)
        BY <2>1, <2>3, <3>1, <3>2, <3>4
    <3> QED BY <1>5, <3>1, <3>2, <3>3, <3>4
  <2> QED BY <2>2, <2>3
<1>6. Owned(owner, gs, next)
  <2>1. Decode(next) = next
    BY <1>2, DecodeManifest
  <2> QED BY <1>4, <1>5, <2>1, OwnedHistory
<1> QED BY <1>3, <1>6 DEF SetOK

\* A rollback of one pack takes its last revision back.
LEMMA PopOK ==
  ASSUME NEW owner, NEW fs \in FileSet, NEW m \in Manifest \cup {None}, SetOK(owner, fs, m),
         NEW n \in Name, History(m, n) # <<>>, NEW f \in File, NEW p \in Pack \cup {None},
         f = LastRevision(m, n).file, p = LastRevision(m, n).pack,
         ValidSet([fs EXCEPT ![f] = p])
  PROVE  SetOK(owner, [fs EXCEPT ![f] = p], RolledBack(m, n))
<1> PICK d : d = Decode(m)
    OBVIOUS
<1> PICK next : next = RolledBack(m, n)
    OBVIOUS
<1> PICK gs : gs = [fs EXCEPT ![f] = p]
    OBVIOUS
<1> PICK h : h = d.hist[n]
    OBVIOUS
<1>1. d \in Manifest
    BY DecodeType
<1>2. h \in Seq(RevisionRec) /\ h # <<>>
    BY <1>1 DEF Manifest, History
<1> PICK r : r = h[Len(h)]
    OBVIOUS
<1> PICK cut : cut = SubSeq(h, 1, Len(h) - 1)
    OBVIOUS
<1>3. /\ r \in RevisionRec /\ Len(h) \in DOMAIN h /\ Len(h) \in Nat \ {0} /\ cut \in Seq(RevisionRec)
      /\ Len(cut) = Len(h) - 1
      /\ \A i \in 1 .. Len(h) - 1 : cut[i] = h[i] /\ i \in DOMAIN h
    BY <1>2, LastOf
<1>4. f = r.file /\ p = r.pack /\ f \in File /\ p \in Pack \cup {None} /\ r.prev \in EntryRec \cup {None}
    BY <1>3 DEF LastRevision, History, RevisionRec
<1>5. \A k \in Name : \A i \in DOMAIN d.hist[k] : RevisionOK(owner, k, d.hist[k][i])
    BY OwnedHistory DEF SetOK
<1>6. RevisionOK(owner, n, r)
    BY <1>3, <1>5
<1>7. /\ next \in Manifest
      /\ next.entries = [d.entries EXCEPT ![n] = r.prev] /\ next.hist = [d.hist EXCEPT ![n] = cut]
  <2>1. next \in Manifest
    BY RolledBackType
  <2>2. next = [d EXCEPT !.hist[n] = cut, !.entries[n] = r.prev]
    BY DEF RolledBack
  <2> QED BY <1>1, <2>1, <2>2 DEF Manifest
<1>8. r.prev # None => p \in Pack /\ NameOf[p] = n /\ r.prev = Entry(f, p)
  <2> SUFFICES ASSUME r.prev # None PROVE p \in Pack /\ NameOf[p] = n /\ r.prev = Entry(f, p)
      OBVIOUS
  <2>1. r.prev = Entry(f, p) /\ r.prev \in EntryRec
      BY <1>4, <1>6 DEF RevisionOK
  <2>2. p \in Pack
      BY <2>1 DEF Entry, EntryRec
  <2> QED BY <1>4, <1>6, <2>1, <2>2, PackAssumption DEF RevisionOK
<1>9. Describes(next, gs)
  <2> PICK en \in EntryRec \cup {None} : en = r.prev
      BY <1>4
  <2>1. EntryOnly(m, next, n, f, p, en)
    BY <1>7, <1>8 DEF EntryOnly
  <2>3. owner[f] = n
    BY <1>4, <1>6 DEF RevisionOK
  <2>4. Describes(next, [fs EXCEPT ![f] = p])
    BY ONLY <2>1, <2>3, DescribesReplaced, fs \in FileSet, m \in Manifest \cup {None},
            SetOK(owner, fs, m), n \in Name, f \in File, p \in Pack \cup {None}
  <2> QED BY <2>4
<1>10. \A g \in File : gs[g] # None => NameOf[gs[g]] = owner[g]
  <2>1. \A g \in File : gs[g] = IF g = f THEN p ELSE fs[g]
    BY DEF FileSet
  <2>2. \A g \in File : fs[g] # None => NameOf[fs[g]] = owner[g]
    BY OwnedHistory DEF SetOK
  <2>3. p # None => NameOf[p] = owner[f]
    BY <1>4, <1>6 DEF RevisionOK
  <2> QED BY ONLY <2>1, <2>2, <2>3
<1>11. ASSUME NEW k \in Name, NEW i \in DOMAIN next.hist[k]
       PROVE  RevisionOK(owner, k, next.hist[k][i])
  <2>1. CASE k # n
    <3>1. next.hist[k] = d.hist[k]
        BY <1>1, <1>7, <2>1 DEF Manifest
    <3> QED BY <1>5, <1>11, <3>1
  <2>2. CASE k = n
    <3>1. next.hist[k] = cut
        BY <1>1, <1>7, <2>2 DEF Manifest
    <3>2. DOMAIN cut = 1 .. Len(h) - 1
        BY <1>3, LenProperties
    <3>3. i \in 1 .. Len(h) - 1 /\ cut[i] = h[i] /\ i \in DOMAIN h
        BY <1>3, <1>11, <3>1, <3>2
    <3> QED BY <1>5, <2>2, <3>1, <3>3
  <2> QED BY <2>1, <2>2
<1>12. Owned(owner, gs, next)
  <2>1. Decode(next) = next
    BY <1>7, DecodeManifest
  <2> QED BY <1>10, <1>11, <2>1, OwnedHistory
<1> QED BY <1>9, <1>12 DEF SetOK

\* A fresh packs directory gives each file its owner.
LEMMA SetInit ==
  ASSUME OwnFiles, NEW fs \in Shipped, ValidSet(fs)
  PROVE  SetInv(fs, None, None)
<1> PICK owner : owner = [f \in File |->
                            IF fs[f] # None THEN NameOf[fs[f]]
                            ELSE IF \E n \in Name : FileOf[n] = f THEN CHOOSE n \in Name : FileOf[n] = f
                            ELSE None]
    OBVIOUS
<1>1. fs \in FileSet
    BY PackAssumption
<1>2. owner \in [File -> Name \cup {None}]
  <2> SUFFICES ASSUME NEW f \in File PROVE owner[f] \in Name \cup {None}
      OBVIOUS
  <2>1. fs[f] # None => NameOf[fs[f]] \in Name
      BY <1>1, PackAssumption DEF FileSet
  <2>2. (\E n \in Name : FileOf[n] = f) => (CHOOSE n \in Name : FileOf[n] = f) \in Name
      OBVIOUS
  <2> QED BY <2>1, <2>2
<1>3. \A n \in Name : owner[FileOf[n]] = n
  <2> SUFFICES ASSUME NEW n \in Name PROVE owner[FileOf[n]] = n
      OBVIOUS
  <2> PICK f \in File : f = FileOf[n]
      BY PackAssumption
  <2>1. CASE fs[f] # None
      BY <2>1 DEF OwnFiles
  <2>2. CASE fs[f] = None
    <3>1. \A k \in Name : FileOf[k] = f => k = n
        BY DEF OwnFiles
    <3>2. (CHOOSE k \in Name : FileOf[k] = f) = n
        BY <3>1
    <3> QED BY <2>2, <3>2
  <2> QED BY <2>1, <2>2
<1>4. Decode(None) = EmptyManifest
    BY DEF Decode
<1>5. \A n \in Name : EmptyManifest.entries[n] = None /\ DOMAIN EmptyManifest.hist[n] = {}
    BY DEF EmptyManifest
<1>6. Owned(owner, fs, None)
    BY <1>4, <1>5 DEF Owned
<1>7. Describes(None, fs)
    BY <1>4, <1>5 DEF Describes
<1> QED BY <1>2, <1>3, <1>6, <1>7 DEF SetInv, SetOK

\* Adoption adds entries of packs that files hold and leaves the history.
LEMMA AdoptOK ==
  ASSUME NEW owner, NEW fs \in FileSet, NEW m \in Manifest \cup {None}, SetOK(owner, fs, m)
  PROVE  SetOK(owner, fs, Adopted(m, fs))
<1> DEFINE d == Decode(m)
<1>1. d \in Manifest
    BY DecodeType
<1> DEFINE holding(n) == {f \in File : fs[f] # None /\ NameOf[fs[f]] = n}
           held(n) == CHOOSE f \in holding(n) : TRUE
           entry(n) == Entry(held(n), fs[held(n)])
<1> DEFINE all == [n \in Name |-> IF d.entries[n] = None /\ holding(n) # {} THEN entry(n) ELSE d.entries[n]]
<1>2. Adopted(m, fs) = IF \E n \in Name : d.entries[n] = None /\ holding(n) # {}
                       THEN [d EXCEPT !.entries = all] ELSE m
    BY DEF Adopted
<1> PICK next : next = Adopted(m, fs)
    OBVIOUS
<1>6. Decode(m) = d
    OBVIOUS
<1> HIDE DEF d
<1>3. CASE next = m
    BY <1>3
<1>4. CASE next = [d EXCEPT !.entries = all] /\ next \in Manifest
  <2>1. next.entries = all /\ next.hist = d.hist
    <3> HIDE DEF all
    <3> QED BY <1>1, <1>4 DEF Manifest
  <2>3. Decode(next) = next
      BY <1>4, DecodeManifest
  <2>4. ASSUME NEW n \in Name, next.entries[n] # None
        PROVE  fs[next.entries[n].file] = next.entries[n].pack /\ NameOf[next.entries[n].pack] = n
    <3>1. CASE d.entries[n] = None /\ holding(n) # {}
      <4> PICK f : f = held(n)
          OBVIOUS
      <4>1. f \in File /\ fs[f] # None /\ NameOf[fs[f]] = n
          BY <3>1
      <4> HIDE DEF holding, held
      <4>2. next.entries[n] = Entry(f, fs[f])
          BY <2>1, <3>1
      <4> QED BY <4>1, <4>2 DEF Entry
    <3>2. CASE ~(d.entries[n] = None /\ holding(n) # {})
      <4>1. next.entries[n] = d.entries[n]
        <5> HIDE DEF entry, holding
        <5> QED BY <2>1, <3>2
      <4> QED BY <1>6, <2>4, <4>1 DEF SetOK, Describes
    <3> QED BY <3>1, <3>2
  <2>5. Describes(next, fs)
      BY <2>3, <2>4 DEF Describes
  <2>6. Owned(owner, fs, next)
    <3>1. next.hist = d.hist
        BY <2>1
    <3> HIDE DEF all
    <3> QED BY <1>6, <2>3, <3>1 DEF SetOK, Owned
  <2> QED BY <2>5, <2>6 DEF SetOK
<1>5. next = m \/ next \in Manifest
    BY AdoptedType
<1> QED BY <1>2, <1>3, <1>4, <1>5

\* A whole change keeps a set, its manifest and its rollback record true.
LEMMA ChangeKeeps ==
  ASSUME NEW owner \in [File -> Name \cup {None}], \A n \in Name : owner[FileOf[n]] = n,
         NEW fs \in FileSet, NEW m \in Manifest \cup {None}, NEW u \in UndoRec \cup {None},
         SetOK(owner, fs, m), u # None => SetOK(owner, [fs EXCEPT ![u.file] = u.pack], u.man),
         NEW f \in File, NEW p \in Pack \cup {None}, NEW next, SetChange(fs, m, u, f, p, next),
         ValidSet([fs EXCEPT ![f] = p])
  PROVE  SetOK(owner, [fs EXCEPT ![f] = p], next)
<1> PICK d : d = Decode(m)
    OBVIOUS
<1>1. d \in Manifest
    BY DecodeType
<1>2. fs[f] \in Pack \cup {None} /\ (fs[f] # None => NameOf[fs[f]] \in Name /\ owner[f] = NameOf[fs[f]])
    BY PackAssumption DEF FileSet, SetOK, Owned
<1>3. CASE p \in Pack /\ NameAllowed(fs[f], f, p) /\ next = NextManifestForApply(m, fs[f], f, p)
  <2> PICK n \in Name : n = NameOf[p]
      BY <1>3, PackAssumption
  <2>1. owner[f] = n
      BY <1>2, <1>3 DEF NameAllowed
  <2> PICK prev \in EntryRec \cup {None} : prev = IF fs[f] = None THEN None ELSE d.entries[n]
      BY <1>1 DEF Manifest
  <2>2. fs[f] # None => NameOf[fs[f]] = n
      BY <1>2, <2>1
  <2>3. prev # None => prev = Entry(f, fs[f])
      BY <2>2, EntryOfFile
  <2> PICK r \in RevisionRec : r = Revision(f, fs[f], prev)
      BY <1>2 DEF Revision, RevisionRec
  <2>4. RevisionOK(owner, n, r)
      BY <2>1, <2>2, <2>3 DEF RevisionOK, Revision
  <2> PICK en \in EntryRec \cup {None} : en = Entry(f, p)
      BY <1>3 DEF Entry, EntryRec
  <2>5. next = Push(Decode(m), n, r, en)
      BY <1>3 DEF NextManifestForApply
  <2>6. en # None => p \in Pack /\ en = Entry(f, p)
      BY <1>3
  <2>7. p # None => NameOf[p] = n
      OBVIOUS
  <2>8. SetOK(owner, [fs EXCEPT ![f] = p], Push(Decode(m), n, r, en))
      BY ONLY <2>1, <2>4, <2>6, <2>7, PushOK, fs \in FileSet, m \in Manifest \cup {None}, SetOK(owner, fs, m),
              n \in Name, f \in File, p \in Pack \cup {None}, en \in EntryRec \cup {None}, r \in RevisionRec,
              ValidSet([fs EXCEPT ![f] = p])
  <2> QED BY <2>5, <2>8
<1>4. CASE p = None /\ fs[f] # None /\ next = NextManifestForRemove(m, fs[f], f)
  <2> PICK n \in Name : n = NameOf[fs[f]]
      BY <1>2, <1>4
  <2>1. owner[f] = n
      BY <1>2, <1>4
  <2> PICK prev \in EntryRec \cup {None} : prev = d.entries[n]
      BY <1>1 DEF Manifest
  <2>3. prev # None => prev = Entry(f, fs[f])
      BY <1>4, EntryOfFile
  <2> PICK r \in RevisionRec : r = Revision(f, fs[f], prev)
      BY <1>2 DEF Revision, RevisionRec
  <2>4. RevisionOK(owner, n, r)
      BY <2>1, <2>3 DEF RevisionOK, Revision
  <2> PICK en \in EntryRec \cup {None} : en = None
      OBVIOUS
  <2>5. next = Push(Decode(m), n, r, en)
      BY <1>4 DEF NextManifestForRemove
  <2>6. en # None => p \in Pack /\ en = Entry(f, p)
      OBVIOUS
  <2>7. p # None => NameOf[p] = n
      BY <1>4
  <2>8. SetOK(owner, [fs EXCEPT ![f] = p], Push(Decode(m), n, r, en))
      BY ONLY <2>1, <2>4, <2>6, <2>7, PushOK, fs \in FileSet, m \in Manifest \cup {None}, SetOK(owner, fs, m),
              n \in Name, f \in File, p \in Pack \cup {None}, en \in EntryRec \cup {None}, r \in RevisionRec,
              ValidSet([fs EXCEPT ![f] = p])
  <2> QED BY <2>5, <2>8
<1>5. CASE u # None /\ f = u.file /\ p = u.pack /\ next = u.man
    BY <1>5
<1>6. CASE \E n \in Name :
              /\ History(m, n) # <<>> /\ next = RolledBack(m, n)
              /\ f = LastRevision(m, n).file /\ p = LastRevision(m, n).pack
  <2> PICK n \in Name :
              /\ History(m, n) # <<>> /\ next = RolledBack(m, n)
              /\ f = LastRevision(m, n).file /\ p = LastRevision(m, n).pack
      BY <1>6
  <2>1. SetOK(owner, [fs EXCEPT ![f] = p], RolledBack(m, n))
      BY PopOK
  <2> QED BY <2>1
<1> QED BY <1>3, <1>4, <1>5, <1>6 DEF SetChange

LEMMA SetStep ==
  ASSUME NEW fs \in FileSet, NEW m \in Manifest \cup {None}, NEW u \in UndoRec \cup {None}, SetInv(fs, m, u),
         NEW f \in File, NEW p \in Pack \cup {None}, NEW next, SetChange(fs, m, u, f, p, next),
         ValidSet([fs EXCEPT ![f] = p])
  PROVE  SetInv([fs EXCEPT ![f] = p], next, [file |-> f, pack |-> fs[f], man |-> m])
<1> PICK owner \in [File -> Name \cup {None}] :
        /\ \A n \in Name : owner[FileOf[n]] = n
        /\ SetOK(owner, fs, m)
        /\ u # None => SetOK(owner, [fs EXCEPT ![u.file] = u.pack], u.man)
    BY DEF SetInv
<1>1. SetOK(owner, [fs EXCEPT ![f] = p], next)
    BY ChangeKeeps
<1> PICK u2 : u2 = [file |-> f, pack |-> fs[f], man |-> m]
    OBVIOUS
<1> PICK fs2 : fs2 = [fs EXCEPT ![f] = p]
    OBVIOUS
<1>2. u2.file = f /\ u2.pack = fs[f] /\ u2.man = m
    OBVIOUS
<1>3. [fs2 EXCEPT ![u2.file] = u2.pack] = fs
    BY <1>2 DEF FileSet
<1>4. SetOK(owner, [fs2 EXCEPT ![u2.file] = u2.pack], u2.man)
    BY <1>2, <1>3
<1>5. SetInv(fs2, next, u2)
    BY <1>1, <1>4 DEF SetInv
<1> QED BY <1>5

LEMMA ViewTypes ==
  ASSUME NEW d \in DiskRec
  PROVE  ViewFiles(d) \in FileSet /\ ViewManifest(d) \in Manifest \cup {None} /\ ViewUndo(d) \in UndoRec \cup {None}
<1>1. d.files \in FileSet /\ d.manifest \in Manifest \cup {None} /\ d.undo \in UndoRec \cup {None}
    BY DiskFields
<1>2. CASE d.txn = None
    BY <1>1, <1>2 DEF ViewFiles, ViewManifest, ViewUndo
<1>3. CASE d.txn # None
  <2> PICK t \in TxnRec : t = d.txn
      BY <1>3, DiskFields
  <2>1. [d.files EXCEPT ![t.file] = t.before] \in FileSet
      BY <1>1, TxnFields DEF FileSet
  <2> QED BY <1>1, <1>3, <2>1, TxnFields DEF ViewFiles, ViewManifest, ViewUndo
<1> QED BY <1>2, <1>3

\* What a recovery finds of a disk that no late or stale change reached.
ViewOK(d) == SetInv(ViewFiles(d), ViewManifest(d), ViewUndo(d))

LEMMA ViewKeeps ==
  ASSUME PackInv, [Next]_vars, PackInv', Sound', ViewOK(disk)
  PROVE  ViewOK(disk')
<1> PICK fs : fs = ViewFiles(disk)
    OBVIOUS
<1> PICK m : m = ViewManifest(disk)
    OBVIOUS
<1> PICK u : u = ViewUndo(disk)
    OBVIOUS
<1>1. fs \in FileSet /\ m \in Manifest \cup {None} /\ u \in UndoRec \cup {None} /\ SetInv(fs, m, u)
    BY ViewTypes DEF PackInv, PackTypeOK, ViewOK
<1>2. CASE SameView(disk, disk')
    BY <1>2 DEF SameView, ViewOK
<1>3. CASE Adopts(disk, disk')
  <2>1. ViewFiles(disk') = fs /\ ViewUndo(disk') = u /\ ViewManifest(disk') = Adopted(m, fs)
      BY <1>3 DEF Adopts
  <2>2. SetInv(fs, Adopted(m, fs), u)
      BY <1>1, AdoptOK DEF SetInv
  <2> QED BY <2>1, <2>2 DEF ViewOK
<1>4. CASE Changed(disk, disk')
  <2> PICK f \in File, p \in Pack \cup {None} :
             /\ SetChange(fs, m, u, f, p, ViewManifest(disk'))
             /\ ViewFiles(disk') = [fs EXCEPT ![f] = p] /\ ValidSet(ViewFiles(disk'))
             /\ ViewUndo(disk') = [file |-> f, pack |-> fs[f], man |-> m]
      BY <1>4 DEF Changed
  <2> PICK next : next = ViewManifest(disk')
      OBVIOUS
  <2>1. SetChange(fs, m, u, f, p, next) /\ ValidSet([fs EXCEPT ![f] = p])
      OBVIOUS
  <2>2. SetInv([fs EXCEPT ![f] = p], next, [file |-> f, pack |-> fs[f], man |-> m])
      BY <1>1, <2>1, SetStep
  <2> QED BY <2>2 DEF ViewOK
<1> QED BY <1>2, <1>3, <1>4, ViewStep

\* A late or stale change stays on record.
LEMMA SoundBefore ==
  ASSUME [Next]_vars, PackTypeOK, Sound'
  PROVE  Sound
<1>1. /\ late' = late \/ late' = TRUE \/ late' = (late \/ disk'.txn.committed)
      /\ stale' = stale \/ stale' = (stale \/ disk.manifest # View.manifest)
    BY DEF Next, vars, Start, Load, Serve, Begin, Write, WriteFails, Commit, Reject, Finish, Exit, Crash,
           RemovePackFile, ApplyPackFile, Rollback, RollbackPack, Request
<1> QED BY <1>1 DEF Sound, PackTypeOK

LEMMA AlwaysTrue ==
  ASSUME OwnFiles
  PROVE  Spec => [](PackInv /\ (Sound => ViewOK(disk)))
<1>1. Init => (Sound => ViewOK(disk))
  <2> SUFFICES ASSUME Init PROVE ViewOK(disk)
      OBVIOUS
  <2> PICK fs \in Shipped :
          ValidSet(fs) /\ disk = [files |-> fs, manifest |-> None, undo |-> None, txn |-> None]
      BY DEF Init
  <2>1. ViewFiles(disk) = fs /\ ViewManifest(disk) = None /\ ViewUndo(disk) = None
      BY DEF ViewFiles, ViewManifest, ViewUndo
  <2> QED BY <2>1, SetInit DEF ViewOK
<1>2. PackInv /\ PackInv' /\ [Next]_vars /\ (Sound => ViewOK(disk)) => (Sound => ViewOK(disk))'
  <2> SUFFICES ASSUME PackInv, PackInv', [Next]_vars, Sound => ViewOK(disk), Sound'
               PROVE  ViewOK(disk')
      BY DEF ViewOK, ViewFiles, ViewManifest, ViewUndo
  <2>1. Sound
      BY SoundBefore DEF PackInv
  <2> QED BY <2>1, ViewKeeps
<1> QED BY <1>1, <1>2, AlwaysInv, PTL DEF Spec

\* Every manifest entry names a file that holds the pack of the entry and has
\* its name, in what a restart finds after any changes, failed writes and
\* crashes, unless a write failed past the commit record or RollbackPack used
\* a stale manifest, when no two packs share a file.
THEOREM ManifestTrue ==
  ASSUME OwnFiles
  PROVE  Spec => []ManifestDescribesFiles
<1>1. PackInv /\ (Sound => ViewOK(disk)) => ManifestDescribesFiles
  <2> SUFFICES ASSUME PackInv, ViewOK(disk) PROVE Describes(View.manifest, View.files)
      BY DEF ManifestDescribesFiles
  <2>1. View.files = ViewFiles(disk) /\ View.manifest = ViewManifest(disk)
      BY ViewIs DEF PackInv
  <2>2. Describes(ViewManifest(disk), ViewFiles(disk))
      BY DEF ViewOK, SetInv, SetOK
  <2> QED BY <2>1, <2>2
<1> QED BY <1>1, AlwaysTrue, PTL

\* Rollback would restore a pack set that LoadDir accepts and a manifest that
\* describes it, under the same hypotheses.
THEOREM UndoTrue ==
  ASSUME OwnFiles
  PROVE  Spec => []UndoIsConsistent
<1>1. PackInv /\ (Sound => ViewOK(disk)) => UndoIsConsistent
  <2> SUFFICES ASSUME PackInv, ViewOK(disk), View.undo # None
               PROVE  /\ ValidSet([View.files EXCEPT ![View.undo.file] = View.undo.pack])
                      /\ Describes(View.undo.man, [View.files EXCEPT ![View.undo.file] = View.undo.pack])
      BY DEF UndoIsConsistent
  <2> PICK u : u = ViewUndo(disk)
      OBVIOUS
  <2> PICK fs : fs = ViewFiles(disk)
      OBVIOUS
  <2>1. View.files = fs /\ View.undo = u
      BY ViewIs DEF PackInv
  <2>2. ValidSet([fs EXCEPT ![u.file] = u.pack]) /\ Describes(u.man, [fs EXCEPT ![u.file] = u.pack])
      BY <2>1 DEF ViewOK, SetInv, SetOK
  <2> QED BY <2>1, <2>2
<1> QED BY <1>1, AlwaysTrue, PTL

=============================================================================
