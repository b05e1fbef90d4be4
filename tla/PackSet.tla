------------------------------- MODULE PackSet -------------------------------
(***************************************************************************)
(* What the pack manager promises: each change of the pack set (the files, *)
(* the manifest and the record that a rollback will use) happens whole or  *)
(* not at all, and the record always undoes the last change.               *)
(***************************************************************************)
EXTENDS PackManifest

VARIABLES files, manifest, undo

packset == <<files, manifest, undo>>

Init == files \in Shipped /\ ValidSet(files) /\ manifest = None /\ undo = None

Change(f, p, m) ==
    /\ files' = [files EXCEPT ![f] = p]
    /\ ValidSet(files')
    /\ manifest' = m
    /\ undo' = [file |-> f, pack |-> files[f], man |-> manifest]

Install(f, p) == NameAllowed(files[f], f, p) /\ Change(f, p, NextManifestForApply(manifest, files[f], f, p))
Remove(f) == files[f] # None /\ Change(f, None, NextManifestForRemove(manifest, files[f], f))
TakeBack == undo # None /\ Change(undo.file, undo.pack, undo.man)

TakeBackPack(n) ==
    /\ History(manifest, n) # <<>>
    /\ LET r == LastRevision(manifest, n) IN Change(r.file, r.pack, RolledBack(manifest, n))

Adopt == manifest' = Adopted(manifest, files) /\ UNCHANGED <<files, undo>>

Next ==
    \/ \E f \in File : Remove(f) \/ \E p \in Pack : Install(f, p)
    \/ TakeBack
    \/ \E n \in Name : TakeBackPack(n)
    \/ Adopt

Spec == Init /\ [][Next]_packset

=============================================================================
