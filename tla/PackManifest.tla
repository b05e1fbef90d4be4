---------------------------- MODULE PackManifest ----------------------------
(***************************************************************************)
(* The values of internal/packs: pack files, the manifest of               *)
(* internal/packs/manifest.go and how one change of the pack set computes  *)
(* the next manifest.  A file holds a pack (a model value) or nothing; its *)
(* digest, version, origin and pin in a manifest entry are abstracted to   *)
(* the pack they describe.  JSON encoding keeps these values, so a         *)
(* manifest file is the manifest, or None when the file is absent.         *)
(***************************************************************************)
EXTENDS Naturals, Sequences

CONSTANTS
    File,       \* names of files in the packs directory
    Pack,       \* contents of a valid pack file
    Name,       \* pack names
    NameOf,     \* [Pack -> Name]: metadata.name
    FileOf,     \* [Name -> File]: the name with ".yaml"
    Shipped,    \* the contents a packs directory may start with
    None        \* no pack, no file, no record

FileSet == [File -> Pack \cup {None}]

ASSUME PackAssumption ==
    /\ Shipped \subseteq FileSet
    /\ NameOf \in [Pack -> Name]
    /\ FileOf \in [Name -> File]
    /\ None \notin Pack

\* An entry of the manifest, a revision of its history, the manifest, and the
\* record of how to undo a change.
EntryRec == [file : File, pack : Pack]
RevisionRec == [file : File, pack : Pack \cup {None}, prev : EntryRec \cup {None}]
Manifest == [entries : [Name -> EntryRec \cup {None}], hist : [Name -> Seq(RevisionRec)]]
UndoRec == [file : File, pack : Pack \cup {None}, man : Manifest \cup {None}]

ASSUME NoneAssumption == None \notin EntryRec \cup Manifest \cup UndoRec

Entry(f, p) == [file |-> f, pack |-> p]
Revision(f, p, prev) == [file |-> f, pack |-> p, prev |-> prev]

EmptyManifest == [entries |-> [n \in Name |-> None], hist |-> [n \in Name |-> <<>>]]
Decode(m) == IF m = None THEN EmptyManifest ELSE m

\* LoadDir: every file is a valid pack, so only duplicate names can fail.
ValidSet(fs) ==
    \A f, g \in File :
        fs[f] # None /\ fs[g] # None /\ NameOf[fs[f]] = NameOf[fs[g]] => f = g

\* A file keeps its pack name; a new file is named after its pack.
NameAllowed(before, f, p) ==
    IF before = None THEN f = FileOf[NameOf[p]] ELSE NameOf[before] = NameOf[p]

Push(m, n, revision, entry) ==
    [m EXCEPT !.hist[n] = Append(@, revision), !.entries[n] = entry]

NextManifestForApply(m, before, f, p) ==
    LET d == Decode(m)
        n == NameOf[p]
        prev == IF before = None THEN None ELSE d.entries[n]
    IN  Push(d, n, Revision(f, before, prev), Entry(f, p))

NextManifestForRemove(m, before, f) ==
    LET d == Decode(m)
        n == NameOf[before]
    IN  Push(d, n, Revision(f, before, d.entries[n]), None)

History(m, n) == Decode(m).hist[n]
LastRevision(m, n) == History(m, n)[Len(History(m, n))]

\* Mutant: the entry of the revision is not restored.
RolledBackKeepsEntry(m, n) ==
    LET d == Decode(m)
        h == d.hist[n]
    IN  [d EXCEPT !.hist[n] = SubSeq(h, 1, Len(h) - 1)]

\* The manifest after the last revision of pack n is taken back.
RolledBack(m, n) ==
    LET d == Decode(m)
        h == d.hist[n]
    IN  [d EXCEPT !.hist[n] = SubSeq(h, 1, Len(h) - 1), !.entries[n] = h[Len(h)].prev]

\* CacheBundledArtifacts: an entry for each file whose pack has none.
Adopted(m, fs) ==
    LET d == Decode(m)
        holding(n) == {f \in File : fs[f] # None /\ NameOf[fs[f]] = n}
        entry(n) == LET f == CHOOSE f \in holding(n) : TRUE IN Entry(f, fs[f])
    IN  IF \E n \in Name : d.entries[n] = None /\ holding(n) # {}
        THEN [d EXCEPT !.entries =
                 [n \in Name |-> IF d.entries[n] = None /\ holding(n) # {} THEN entry(n)
                                 ELSE d.entries[n]]]
        ELSE m

\* Each entry of m names a file that holds the pack of the entry.
Describes(m, fs) ==
    \A n \in Name : LET e == Decode(m).entries[n]
                    IN  e # None => fs[e.file] = e.pack /\ NameOf[e.pack] = n

=============================================================================
