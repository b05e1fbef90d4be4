---------------------------- MODULE Marketplace -----------------------------
(***************************************************************************)
(* One parser pack under the marketplace: internal/marketplace/catalog.go, *)
(* the marketplace handlers of internal/api/server.go and the commands of  *)
(* internal/cli/marketplace.go and cli.go that work on the pack directory  *)
(* while no daemon holds its lock.                                         *)
(*                                                                         *)
(* A pack change is one atomic step here (PackStore has its writes); what  *)
(* is split are the handlers, which read catalog, manifest and file first, *)
(* each at its own time, and compare only some of it again under the lock. *)
(* The contents of a pack file are a release (a number, in the order of    *)
(* semantic versions; equal numbers are equal digests) or something a user *)
(* wrote.                                                                  *)
(***************************************************************************)
EXTENDS Integers, FiniteSets, FiniteSetsExt, Sequences

CONSTANTS
    Client,       \* callers of the API and of the local commands
    MaxRelease,   \* releases are 1 .. MaxRelease
    MajorOf,      \* [Release -> major version]
    Prerelease,   \* releases whose version is a pre-release
    NeedsNewer,   \* releases whose min_worm is newer than this daemon
    Catalog,      \* signed catalogs, oldest first: [releases, withdrawn]
    Custom,       \* packs users write, of the same name
    Posted,       \* packs posted to the API as they are
    Bundle,       \* bundles for import: [cat, artifacts]
    CustomVersion,\* the version they give them
    Junk,         \* a damaged artifact
    None,         \* no file
    MaxRevision,  \* bound on changes of the pack
    MaxCalls,     \* bound on the calls made
    MaxEdits      \* bound on edits by hand, imports, fetches and damage to the cache

Release == 1 .. MaxRelease
Content == Release \cup Custom \cup {Junk}

ASSUME MarketplaceAssumption ==
    /\ MaxRelease \in Nat \ {0} /\ MaxRevision \in Nat /\ MaxCalls \in Nat /\ MaxEdits \in Nat
    /\ MajorOf \in [Release -> Nat] /\ CustomVersion \in Release
    /\ Catalog \in Seq([releases : SUBSET Release, withdrawn : SUBSET Release]) /\ Catalog # <<>>
    /\ \A i \in DOMAIN Catalog : Catalog[i].withdrawn \subseteq Catalog[i].releases
    /\ \A i, j \in DOMAIN Catalog : i <= j => Catalog[i].withdrawn \subseteq Catalog[j].withdrawn
    /\ None \notin Content /\ Posted \subseteq Release \cup Custom
    /\ \A b \in Bundle : b.cat \in DOMAIN Catalog /\ b.artifacts \subseteq Catalog[b.cat].releases

VARIABLES
    registry,   \* the catalog the registry serves
    cached,     \* the catalog in .marketplace/catalog.json (1: the embedded one)
    artifact,   \* [Release -> content of its cached pack.yaml, or None]
    file,       \* the pack file, or None
    entry,      \* its entry of the manifest, or NoEntry
    undo,       \* the rollback record, or NoUndo
    serving,    \* the pack in the active snapshot, or None
    up,         \* a daemon runs and holds the directory lock
    req,        \* [Client -> the call in progress]
    reverted,   \* an import has put back an older catalog
    revision, calls, edits

vars == <<registry, cached, artifact, file, entry, undo, serving, up, req, reverted, revision, calls, edits>>
pack == <<file, entry, undo, serving, revision>>
world == <<registry, cached, artifact, up, reverted, calls, edits>>

NoEntry == [version |-> 0, digest |-> None, origin |-> "none", pinned |-> FALSE]
NoUndo == [file |-> None, entry |-> NoEntry, valid |-> FALSE]
Idle == [op |-> "none", pc |-> "idle", want |-> 0, pin |-> FALSE, target |-> 0, cat |-> 0,
         was |-> NoEntry, seen |-> None, expect |-> NoEntry, rev |-> 0, known |-> 0]

VersionOf(c) == IF c \in Release THEN c ELSE CustomVersion
Installed(c, origin, pin) == [version |-> VersionOf(c), digest |-> c, origin |-> origin, pinned |-> pin]
Managed(e) == e.origin \in {"marketplace", "bundled"}

Init ==
    /\ registry = 1 /\ cached = 1
    /\ artifact = [r \in Release |-> None]
    /\ file \in Catalog[1].releases \cup Custom \cup {None}
    /\ entry = NoEntry /\ undo = NoUndo /\ serving = None
    /\ up = FALSE
    /\ req = [q \in Client |-> Idle]
    /\ reverted = FALSE /\ revision = 0 /\ calls = 0 /\ edits = 0

-----------------------------------------------------------------------------
(* The catalog. *)

\* Mutant: withdrawn releases can still be chosen.
AvailableAll(c) == Catalog[c].releases

\* Releases of catalog c that are not withdrawn.
Available(c) == Catalog[c].releases \ Catalog[c].withdrawn

Newest(S) == IF S = {} THEN 0 ELSE Max(S)

LatestCompatible(c, newer) == Newest(Available(c) \ (Prerelease \cup newer))

LatestCompatibleForMajor(c, newer, major) ==
    Newest({r \in Available(c) \ (Prerelease \cup newer) : MajorOf[r] = major})

\* An exact version.
ReleaseOf(c, version) == Newest(Available(c) \cap {version})

\* The newer release an ordinary upgrade of e goes to, or 0.
UpgradeTarget(c, newer, e) ==
    LET r == LatestCompatibleForMajor(c, newer, MajorOf[e.version])
    IN IF r > e.version THEN r ELSE 0

\* The owner publishes the next catalog.
Publish ==
    /\ registry < Len(Catalog)
    /\ registry' = registry + 1
    /\ UNCHANGED <<cached, artifact, up, reverted, calls, edits, pack, req>>

\* Fetch: any catalog with a trusted signature replaces the cached one.
Refresh ==
    /\ cached # registry
    /\ cached' = registry
    /\ UNCHANGED <<registry, artifact, up, reverted, calls, edits, pack, req>>

\* A bundle exported elsewhere, with a catalog and some of its artifacts: all are
\* verified, then copied, the catalog last.
ImportSnapshot(b) ==
    /\ b.cat <= registry
    /\ edits < MaxEdits /\ edits' = edits + 1
    /\ cached' = b.cat
    /\ artifact' = [r \in Release |-> IF r \in b.artifacts THEN r ELSE artifact[r]]
    /\ reverted' = (reverted \/ b.cat < cached)
    /\ UNCHANGED <<registry, up, calls, pack, req>>

\* Mutant: a cached artifact is used as it is.
ArtifactCached(r) == IF artifact[r] = None THEN r ELSE artifact[r]

\* The verified bytes of a release: those in the cache if their digest is the
\* catalog's, or else those of the registry.
Artifact(r) == IF artifact[r] = r THEN artifact[r] ELSE r

\* fetch: the release is cached, not installed.
FetchPack(r) ==
    /\ r \in Available(cached) /\ artifact[r] # r
    /\ edits < MaxEdits /\ edits' = edits + 1
    /\ artifact' = [artifact EXCEPT ![r] = r]
    /\ UNCHANGED <<registry, cached, up, reverted, calls, pack, req>>

-----------------------------------------------------------------------------
(* What happens outside: edits, damage, start and stop. *)

HandEdit(c) ==
    /\ edits < MaxEdits /\ c # file
    /\ edits' = edits + 1
    /\ file' = c
    /\ UNCHANGED <<registry, cached, artifact, entry, undo, serving, revision, up, req, reverted, calls>>

DamageArtifact(r) ==
    /\ edits < MaxEdits /\ artifact[r] = r
    /\ edits' = edits + 1
    /\ artifact' = [artifact EXCEPT ![r] = Junk]
    /\ UNCHANGED <<registry, cached, up, reverted, calls, pack, req>>

\* Start: LoadDir, then CacheBundledArtifacts adopts a file without an entry, as
\* bundled when it is a release of the embedded catalog.
Boot ==
    /\ ~up /\ up' = TRUE
    /\ serving' = file
    /\ IF file = None \/ entry # NoEntry THEN UNCHANGED <<entry, artifact>>
       ELSE IF file \in Catalog[1].releases
       THEN entry' = Installed(file, "bundled", FALSE) /\ artifact' = [artifact EXCEPT ![file] = file]
       ELSE entry' = Installed(file, "custom", FALSE) /\ UNCHANGED artifact
    /\ UNCHANGED <<registry, cached, file, undo, req, reverted, revision, calls, edits>>

Local == {"localInstall", "localUpgrade", "localRemove"}

\* The daemon exits or dies, and its handlers with it.
Shutdown ==
    /\ up /\ up' = FALSE
    /\ serving' = None
    /\ req' = [q \in Client |-> IF req[q].op \in Local THEN req[q] ELSE Idle]
    /\ UNCHANGED <<registry, cached, artifact, file, entry, undo, reverted, revision, calls, edits>>

-----------------------------------------------------------------------------
(* Changes of the pack, under the mutation lock or the directory lock. *)

Write(c, e) ==
    /\ revision < MaxRevision /\ revision' = revision + 1
    /\ undo' = [file |-> file, entry |-> entry, valid |-> TRUE]
    /\ file' = c /\ entry' = e
    /\ serving' = IF up THEN c ELSE None

\* ApplyPackFile of posted or local YAML: origin custom, nothing expected.
Activate(c) ==
    /\ Write(c, Installed(c, "custom", FALSE))
    /\ UNCHANGED <<world, req>>

\* The last transaction is undone, whatever is in the file now.
Rollback ==
    /\ undo.valid
    /\ Write(undo.file, undo.entry)
    /\ UNCHANGED <<world, req>>

Done(q) == req' = [req EXCEPT ![q] = Idle]
Refuse(q) == Done(q) /\ UNCHANGED <<world, pack>>
Go(q, r) == req' = [req EXCEPT ![q] = r] /\ UNCHANGED <<world, pack>>

First == [install |-> "choose", upgrade |-> "pick", remove |-> "look",
          localInstall |-> "local", localUpgrade |-> "localPick", localRemove |-> "localRemove"]

\* A call begins; want is an exact version, or 0 for the latest.
Call(q, op, want) ==
    /\ req[q] = Idle /\ calls < MaxCalls
    /\ op \notin {"install", "localInstall"} => want = 0
    /\ calls' = calls + 1
    /\ req' = [req EXCEPT ![q] = [Idle EXCEPT !.op = op, !.pc = First[op], !.want = want, !.pin = want # 0, !.known = cached]]
    /\ UNCHANGED <<registry, cached, artifact, up, reverted, edits, pack>>

-----------------------------------------------------------------------------
(* handleMarketplaceInstall. *)

Wanted(q) ==
    IF req[q].want = 0 THEN LatestCompatible(cached, NeedsNewer)
    ELSE Newest({ReleaseOf(cached, req[q].want)} \ NeedsNewer)

\* The catalog and the manifest are read.
InstallChoose(q) ==
    /\ up /\ req[q].pc = "choose"
    /\ \/ Wanted(q) = 0 /\ Refuse(q)
       \/ Wanted(q) # 0 /\ Go(q, [req[q] EXCEPT !.pc = "inspect", !.target = Wanted(q), !.cat = cached, !.was = entry])

\* Mutant: what the upgrade expects is not compared.
ChangedNever(r, f) == FALSE

\* expected_version and expected_sha256 of an upgrade are compared with a file
\* that is there.
Changed(r, f) == f # None /\ r.expect # NoEntry /\ (r.expect.version # r.was.version \/ r.expect.digest # f)

Already(r, f) == f = r.target /\ serving # None /\ VersionOf(serving) = r.target

\* A file that is neither a release of the catalog nor what the manifest records.
Foreign(r, f) == f # None /\ f \notin Catalog[r.cat].releases /\ ~(r.was # NoEntry /\ r.was.digest = f)

\* The file is read and judged.  "Already installed" returns before the pin.
InstallInspect(q) ==
    /\ up /\ req[q].pc = "inspect"
    /\ LET refused == Changed(req[q], file) \/ Already(req[q], file) \/ Foreign(req[q], file)
       IN \/ refused /\ Refuse(q)
          \/ ~refused /\ Go(q, [req[q] EXCEPT !.pc = "apply", !.seen = file])

\* Mutant: the expectation is not checked under the lock.
AsExpectedAlways(q) == TRUE

\* PackFileExpectation: the file is still the one that was read.
AsExpected(q) == file = req[q].seen

\* The artifact is taken from the cache or downloaded (which may fail), and the
\* file is replaced if it is still the one inspected.
InstallApply(q) ==
    /\ up /\ req[q].pc = "apply"
    /\ \/ ~AsExpected(q) /\ Refuse(q)
       \/ artifact[req[q].target] # req[q].target /\ Refuse(q)
       \/ /\ AsExpected(q)
          /\ LET c == Artifact(req[q].target)
             IN /\ Write(c, Installed(c, "marketplace", req[q].pin))
                /\ artifact' = [artifact EXCEPT ![req[q].target] = c]
          /\ Done(q)
          /\ UNCHANGED <<registry, cached, up, reverted, calls, edits>>

\* handleMarketplaceUpgrade: manifest and catalog are read, then the install
\* handler is called with the version and digest of the manifest.
UpgradePick(q) ==
    /\ up /\ req[q].pc = "pick"
    /\ LET eligible == Managed(entry) /\ ~entry.pinned /\ UpgradeTarget(cached, NeedsNewer, entry) # 0
       IN \/ ~eligible /\ Refuse(q)
          \/ eligible /\ Go(q, [req[q] EXCEPT !.pc = "choose", !.want = UpgradeTarget(cached, NeedsNewer, entry),
                                              !.expect = entry, !.rev = revision])

-----------------------------------------------------------------------------
(* handleMarketplaceRemove: manifest, then file, then the removal. *)

RemoveLook(q) ==
    /\ up /\ req[q].pc = "look"
    /\ \/ ~Managed(entry) /\ Refuse(q)
       \/ Managed(entry) /\ Go(q, [req[q] EXCEPT !.pc = "compare", !.was = entry])

RemoveCompare(q) ==
    /\ up /\ req[q].pc = "compare"
    /\ \/ file # req[q].was.digest /\ Refuse(q)
       \/ file = req[q].was.digest /\ Go(q, [req[q] EXCEPT !.pc = "remove", !.seen = file])

RemoveApply(q) ==
    /\ up /\ req[q].pc = "remove"
    /\ \/ ~AsExpected(q) /\ Refuse(q)
       \/ AsExpected(q) /\ Write(None, NoEntry) /\ Done(q) /\ UNCHANGED world

-----------------------------------------------------------------------------
(* The local commands: one step under the directory lock, which a running  *)
(* daemon holds.  They take every min_worm for satisfied.                  *)

\* Manifest and catalog are read without the lock.
LocalUpgradePick(q) ==
    /\ req[q].pc = "localPick"
    /\ LET eligible == entry # NoEntry /\ ~entry.pinned /\ UpgradeTarget(cached, {}, entry) # 0
       IN \/ ~eligible /\ Refuse(q)
          \/ eligible /\ Go(q, [req[q] EXCEPT !.pc = "local", !.want = UpgradeTarget(cached, {}, entry), !.rev = revision])

LocalWanted(q) == IF req[q].want = 0 THEN LatestCompatible(cached, {}) ELSE ReleaseOf(cached, req[q].want)

\* readUnmodifiedMarketplacePack, or no file where there is no entry.
Unmodified == file = entry.digest

LocalInstall(q) ==
    /\ req[q].pc = "local"
    /\ LET r == LocalWanted(q)
           allowed == ~up /\ r # 0 /\ artifact[r] = r /\ Unmodified
       IN \/ ~allowed /\ Refuse(q)
          \/ allowed /\ Write(r, Installed(r, "marketplace", req[q].pin)) /\ Done(q) /\ UNCHANGED world

LocalRemove(q) ==
    /\ req[q].pc = "localRemove"
    /\ LET allowed == ~up /\ Managed(entry) /\ Unmodified
       IN \/ ~allowed /\ Refuse(q)
          \/ allowed /\ Write(None, NoEntry) /\ Done(q) /\ UNCHANGED world

-----------------------------------------------------------------------------
Handle(q) ==
    \/ InstallChoose(q) \/ InstallInspect(q) \/ InstallApply(q) \/ UpgradePick(q)
    \/ RemoveLook(q) \/ RemoveCompare(q) \/ RemoveApply(q)
    \/ LocalUpgradePick(q) \/ LocalInstall(q) \/ LocalRemove(q)

Next ==
    \/ Publish \/ Refresh \/ Boot \/ Shutdown \/ Rollback
    \/ \E b \in Bundle : ImportSnapshot(b)
    \/ \E r \in Release : FetchPack(r) \/ DamageArtifact(r)
    \/ \E c \in Custom \cup {None} : HandEdit(c)
    \/ \E c \in Posted : Activate(c)
    \/ \E q \in Client : Handle(q) \/ \E op \in DOMAIN First, want \in {0} \cup Release : Call(q, op, want)

Spec == Init /\ [][Next]_vars

-----------------------------------------------------------------------------
(* Properties. *)

\* What the manifest says comes from the marketplace is a signed release, through
\* damaged cache files, rollbacks and adoption at start.
InstalledIsVerified ==
    Managed(entry) => entry.digest \in UNION {Catalog[c].releases : c \in 1 .. registry} /\ entry.version = entry.digest

\* The client whose call changed the pack in this step.
Changes(q) == file' # file /\ req[q] # Idle /\ req'[q] = Idle /\ up' = up

\* No marketplace call overwrites or deletes a file a user wrote by hand (one the
\* manifest neither records nor recorded when the call read it), not even one
\* written between the handler's reading of manifest and file and the change.
HandEditsSurvive ==
    [][\A q \in Client : Changes(q) => file \in Release \cup {None, entry.digest, req[q].was.digest}]_vars

\* An upgrade through the API that replaces a file takes a release of the same
\* major version to a newer one that is no pre-release and runs on this daemon,
\* whatever other calls changed since it read the manifest; a pinned pack is
\* replaced only if it was pinned after that.
UpgradeIsOrdinary ==
    [][\A q \in Client : Changes(q) /\ req[q].op = "upgrade" /\ file # None =>
          /\ file \in Release /\ file' > file /\ MajorOf[file'] = MajorOf[file]
          /\ file' \notin Prerelease \cup NeedsNewer
          /\ entry.pinned => revision > req[q].rev]_vars

\* MARKETPLACE.md: "After users refresh, they cannot newly install withdrawn
\* releases": a call made after the refresh never does, as long as no import has
\* brought back an older catalog.
WithdrawnStaysOut ==
    [][\A q \in Client : Changes(q) /\ file' # None =>
          reverted \/ file' \notin Catalog[req[q].known].withdrawn]_vars

=============================================================================
