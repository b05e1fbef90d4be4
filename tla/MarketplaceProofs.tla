------------------------- MODULE MarketplaceProofs --------------------------
(***************************************************************************)
(* Theorems about Marketplace for every value of its constants: any        *)
(* catalogs, bundles, releases and number of callers, calls, edits and     *)
(* changes of the pack.                                                    *)
(***************************************************************************)
EXTENDS Marketplace, SequenceTheorems, WellFoundedInduction, TLAPS

-----------------------------------------------------------------------------
(* The inductive invariant. *)

Entry ==
    [version : 0 .. MaxRelease, digest : Content \cup {None},
     origin : {"none", "marketplace", "bundled", "custom"}, pinned : BOOLEAN]

Op == {"install", "upgrade", "remove", "localInstall", "localUpgrade", "localRemove"}
Phase == {"idle", "choose", "pick", "look", "local", "localPick", "localRemove", "inspect", "apply", "compare", "remove"}

Request ==
    [op : Op \cup {"none"}, pc : Phase, want : 0 .. MaxRelease, pin : BOOLEAN, target : 0 .. MaxRelease,
     cat : 0 .. Len(Catalog), was : Entry, seen : Content \cup {None}, expect : Entry, rev : Nat,
     known : 0 .. Len(Catalog)]

MarketTypeOK ==
    /\ registry \in 1 .. Len(Catalog) /\ cached \in 1 .. registry
    /\ artifact \in [Release -> Content \cup {None}]
    /\ file \in Content \cup {None} /\ entry \in Entry
    /\ undo \in [file : Content \cup {None}, entry : Entry, valid : BOOLEAN]
    /\ up \in BOOLEAN /\ reverted \in BOOLEAN /\ revision \in Nat
    /\ req \in [Client -> Request]

Published == UNION {Catalog[c].releases : c \in 1 .. registry}

\* An entry that says it comes from the marketplace names a published release.
Signed(e) == Managed(e) => e.digest \in Published /\ e.version = e.digest

\* want is an ordinary upgrade of the release the entry e records.
Ordinary(e, want) ==
    /\ Managed(e) /\ ~e.pinned /\ e.digest \in Release /\ e.version = e.digest
    /\ want \in Release /\ want > e.version /\ MajorOf[want] = MajorOf[e.version]
    /\ want \notin Prerelease \cup NeedsNewer

\* What a call in progress has read that is still good for something: the catalog
\* it chose from, the file it inspected and, for an upgrade, the entry it started
\* from, which is the manifest's until the next change of the pack.
ReqOK(r) ==
    /\ r.op # "none" => r.known \in 1 .. registry /\ (reverted \/ r.known <= cached)
    /\ r.pc \in {"inspect", "apply"} => /\ r.cat \in 1 .. registry /\ r.target \in Available(r.cat)
                                        /\ reverted \/ r.known <= r.cat
    /\ r.pc = "apply" => r.seen \in Release \cup {None, r.was.digest}
    /\ r.pc = "remove" => r.seen = r.was.digest
    /\ r.pc # "idle" => r.op # "none"
    /\ r.op = "upgrade" => r.pc \in {"pick", "choose", "inspect", "apply"}
    /\ r.op = "upgrade" /\ r.pc # "pick" =>
          Ordinary(r.expect, r.want) /\ r.rev <= revision /\ (r.rev = revision => entry = r.expect)
    /\ r.op = "upgrade" /\ r.pc \in {"inspect", "apply"} => r.target = r.want
    /\ r.op = "upgrade" /\ r.pc = "apply" /\ r.seen # None => r.seen = r.expect.digest

MarketInv ==
    /\ MarketTypeOK
    /\ Signed(entry) /\ Signed(undo.entry)
    /\ \A q \in Client : ReqOK(req[q])

-----------------------------------------------------------------------------
(* Lemmas about the choice of a release. *)

\* A set of releases has a largest one.
LEMMA LargestRelease ==
    ASSUME NEW S, S \subseteq 0 .. MaxRelease, S # {}
    PROVE  \E x \in S : \A y \in S : x >= y
<1> DEFINE T == {MaxRelease - x : x \in S}
           R == OpToRel(<, Nat)
<1>1. MaxRelease \in Nat
  BY MarketplaceAssumption
<1>0. \A x \in S : x \in Nat /\ MaxRelease - x \in Nat
  BY <1>1
<1>2. T \subseteq Nat /\ T # {}
  BY <1>0
<1>3. PICK t \in T : \A u \in T : ~(<<u, t>> \in R)
  <2> HIDE DEF T, R
  <2>1. IsWellFoundedOn(R, Nat)
    BY NatLessThanWellFounded DEF R
  <2> QED BY <1>2, <2>1, WFMin
<1>4. \A u \in T : ~(u < t)
  <2> SUFFICES ASSUME NEW u \in T, u < t PROVE FALSE
    OBVIOUS
  <2>1. <<u, t>> \in R
    BY <1>2 DEF OpToRel
  <2> QED BY <1>3, <2>1
<1>5. PICK x \in S : t = MaxRelease - x
  OBVIOUS
<1>6. \A y \in S : x >= y
  <2> TAKE y \in S
  <2>1. ~(MaxRelease - y < MaxRelease - x)
    BY <1>4, <1>5
  <2> QED BY <1>0, <1>1, <2>1
<1> QED BY <1>6

LEMMA NewestIs ==
    ASSUME NEW S, S \subseteq 0 .. MaxRelease
    PROVE  IF S = {} THEN Newest(S) = 0 ELSE Newest(S) \in S
<1>1. CASE S # {}
  <2>1. \E x \in S : \A y \in S : x >= y
    BY <1>1, LargestRelease
  <2>2. Max(S) \in S
    BY <2>1 DEF Max
  <2> QED BY <1>1, <2>2 DEF Newest
<1> QED BY <1>1 DEF Newest

\* The catalogs list releases.
LEMMA CatalogReleases ==
    ASSUME NEW c \in 1 .. Len(Catalog)
    PROVE  /\ Catalog[c].releases \subseteq Release /\ Available(c) \subseteq Release
           /\ Release \subseteq 0 .. MaxRelease /\ 0 \notin Release
           /\ \A d \in 1 .. Len(Catalog) : d <= c => Catalog[d].withdrawn \subseteq Catalog[c].withdrawn
<1>0. Catalog \in Seq([releases : SUBSET Release, withdrawn : SUBSET Release])
  BY MarketplaceAssumption
<1>1. DOMAIN Catalog = 1 .. Len(Catalog)
  BY <1>0
<1>2. Catalog[c] \in [releases : SUBSET Release, withdrawn : SUBSET Release]
  BY <1>0, ElementOfSeq
<1>3. \A i, j \in DOMAIN Catalog : i <= j => Catalog[i].withdrawn \subseteq Catalog[j].withdrawn
  BY MarketplaceAssumption
<1>4. Catalog[c].releases \subseteq Release
  BY <1>2
<1>5. Release \subseteq 0 .. MaxRelease /\ 0 \notin Release
  BY MarketplaceAssumption DEF Release
<1>6. \A d \in 1 .. Len(Catalog) : d <= c => Catalog[d].withdrawn \subseteq Catalog[c].withdrawn
  BY <1>1, <1>3
<1> QED BY <1>4, <1>5, <1>6 DEF Available

\* An exact version is found or not.
LEMMA ExactVersion ==
    ASSUME NEW c \in 1 .. Len(Catalog), NEW want \in 0 .. MaxRelease
    PROVE  ReleaseOf(c, want) = 0 \/ (ReleaseOf(c, want) = want /\ want \in Available(c))
BY CatalogReleases, NewestIs DEF ReleaseOf

\* The release an install call chooses is available in the cached catalog; for an
\* exact version it is that one.
LEMMA WantedIs ==
    ASSUME MarketInv, NEW q \in Client
    PROVE  /\ Wanted(q) = 0 \/ Wanted(q) \in Available(cached)
           /\ req[q].want # 0 => Wanted(q) \in {0, req[q].want}
           /\ LocalWanted(q) = 0 \/ LocalWanted(q) \in Available(cached)
<1>1. cached \in 1 .. Len(Catalog) /\ req[q].want \in 0 .. MaxRelease
  BY DEF MarketInv, MarketTypeOK, Request
<1>2. Available(cached) \subseteq 0 .. MaxRelease
  BY <1>1, CatalogReleases
<1>3. ASSUME NEW S PROVE LatestCompatible(cached, S) = 0 \/ LatestCompatible(cached, S) \in Available(cached)
  <2>1. Available(cached) \ (Prerelease \cup S) \subseteq 0 .. MaxRelease
    BY <1>2
  <2> QED BY <2>1, NewestIs DEF LatestCompatible
<1> DEFINE x == ReleaseOf(cached, req[q].want)
<1>4. x = 0 \/ (x = req[q].want /\ x \in Available(cached))
  BY <1>1, ExactVersion
<1>5. Newest({x} \ NeedsNewer) \in {0, x}
  <2> HIDE DEF x
  <2>1. {x} \ NeedsNewer \subseteq 0 .. MaxRelease
    BY <1>1, <1>2, <1>4, MarketplaceAssumption
  <2> QED BY <2>1, NewestIs
<1> HIDE DEF x
<1>6. Wanted(q) = 0 \/ Wanted(q) \in Available(cached)
  BY <1>3, <1>4, <1>5 DEF Wanted, x
<1>7. req[q].want # 0 => Wanted(q) \in {0, req[q].want}
  BY <1>4, <1>5 DEF Wanted, x
<1>8. LocalWanted(q) = 0 \/ LocalWanted(q) \in Available(cached)
  BY <1>3, <1>4 DEF LocalWanted, x
<1> QED BY <1>6, <1>7, <1>8

\* The target of an ordinary upgrade.
LEMMA UpgradeTargetIs ==
    ASSUME MarketInv, NEW newer, UpgradeTarget(cached, newer, entry) # 0
    PROVE  LET r == UpgradeTarget(cached, newer, entry)
           IN r \in Release /\ r > entry.version /\ MajorOf[r] = MajorOf[entry.version] /\ r \notin Prerelease \cup newer
<1> DEFINE S == {r \in Available(cached) \ (Prerelease \cup newer) : MajorOf[r] = MajorOf[entry.version]}
           x == Newest(S)
<1>1. cached \in 1 .. Len(Catalog)
  BY DEF MarketInv, MarketTypeOK
<1>2. Available(cached) \subseteq Release /\ Release \subseteq 0 .. MaxRelease
  BY <1>1, CatalogReleases
<1>3. S \subseteq 0 .. MaxRelease
  BY <1>2
<1>4. x = 0 \/ x \in S
  <2> HIDE DEF S
  <2> QED BY <1>3, NewestIs
<1>5. UpgradeTarget(cached, newer, entry) = x /\ x > entry.version
  BY DEF UpgradeTarget, LatestCompatibleForMajor
<1>6. x \in S
  BY <1>4, <1>5
<1> QED BY <1>2, <1>5, <1>6

-----------------------------------------------------------------------------
(* Every step keeps the invariant. *)

LEMMA IdleOK == Idle \in Request /\ ReqOK(Idle) /\ NoEntry \in Entry /\ ~Managed(NoEntry)
<1>1. MaxRelease \in Nat /\ Len(Catalog) \in Nat
  BY MarketplaceAssumption
<1>2. NoEntry \in Entry /\ ~Managed(NoEntry)
  BY <1>1 DEF NoEntry, Entry, Managed
<1>3. Idle \in Request
  BY <1>1, <1>2 DEF Idle, Request, Phase
<1>4. ReqOK(Idle)
  BY DEF Idle, ReqOK
<1> QED BY <1>2, <1>3, <1>4

LEMMA InstalledOK ==
    ASSUME NEW c \in Content, NEW o \in {"marketplace", "bundled", "custom"}, NEW pin \in BOOLEAN
    PROVE  /\ Installed(c, o, pin) \in Entry
           /\ o = "custom" => Signed(Installed(c, o, pin))
           /\ c \in Release /\ c \in Published => Signed(Installed(c, o, pin))
<1>1. VersionOf(c) \in 0 .. MaxRelease /\ (c \in Release => VersionOf(c) = c)
  BY MarketplaceAssumption DEF VersionOf, Release
<1> QED BY <1>1 DEF Installed, Entry, Signed, Managed

\* A step never takes back a publication or a change of the pack, and between two
\* changes of the pack the manifest keeps an entry it has.
Forward ==
    /\ registry \in 1 .. registry' /\ (reverted => reverted') /\ (~reverted' => cached <= cached')
    /\ revision <= revision' /\ (revision' = revision => entry' = entry \/ entry = NoEntry)

LEMMA ReqForward ==
    ASSUME MarketInv, Forward, registry' \in 1 .. Len(Catalog), cached' \in 1 .. registry', revision' \in Nat,
           NEW r \in Request, ReqOK(r)
    PROVE  ReqOK(r)'
<1>1. registry \in Nat /\ cached \in Nat /\ registry' \in Nat /\ cached' \in Nat /\ revision \in Nat
      /\ r.known \in Nat /\ r.cat \in Nat /\ r.rev \in Nat
  BY DEF MarketInv, MarketTypeOK, Request
<1>2. r.op # "none" => r.known \in 1 .. registry' /\ (reverted' \/ r.known <= cached')
  BY <1>1 DEF ReqOK, Forward
<1>3. ASSUME r.pc \in {"inspect", "apply"}
      PROVE  r.cat \in 1 .. registry' /\ r.target \in Available(r.cat) /\ (reverted' \/ r.known <= r.cat)
  <2>1. r.cat \in 1 .. registry /\ r.target \in Available(r.cat) /\ (reverted \/ r.known <= r.cat)
    BY <1>3 DEF ReqOK
  <2> QED BY <1>1, <2>1 DEF Forward
<1>4. r.op = "upgrade" /\ r.pc # "pick" =>
          Ordinary(r.expect, r.want) /\ r.rev <= revision' /\ (r.rev = revision' => entry' = r.expect)
  <2> SUFFICES ASSUME r.op = "upgrade", r.pc # "pick"
               PROVE  r.rev <= revision' /\ (r.rev = revision' => entry' = r.expect)
    BY DEF ReqOK
  <2>1. Ordinary(r.expect, r.want) /\ r.rev <= revision /\ (r.rev = revision => entry = r.expect)
    BY DEF ReqOK
  <2>2. r.expect # NoEntry
    BY <2>1, IdleOK DEF Ordinary
  <2> QED BY <1>1, <2>1, <2>2 DEF Forward
<1>5. /\ r.pc = "apply" => r.seen \in Release \cup {None, r.was.digest}
      /\ r.pc = "remove" => r.seen = r.was.digest
      /\ r.pc # "idle" => r.op # "none"
      /\ r.op = "upgrade" => r.pc \in {"pick", "choose", "inspect", "apply"}
      /\ r.op = "upgrade" /\ r.pc \in {"inspect", "apply"} => r.target = r.want
      /\ r.op = "upgrade" /\ r.pc = "apply" /\ r.seen # None => r.seen = r.expect.digest
  BY DEF ReqOK
<1>6. (r.op # "none" => r.known \in 1 .. registry /\ (reverted \/ r.known <= cached))'
  BY <1>2
<1>7. (r.pc \in {"inspect", "apply"} =>
           r.cat \in 1 .. registry /\ r.target \in Available(r.cat) /\ (reverted \/ r.known <= r.cat))'
  BY <1>3 DEF Available
<1>8. (r.op = "upgrade" /\ r.pc # "pick" =>
          Ordinary(r.expect, r.want) /\ r.rev <= revision /\ (r.rev = revision => entry = r.expect))'
  BY <1>4 DEF Ordinary, Managed
<1> QED BY <1>5, <1>6, <1>7, <1>8 DEF ReqOK

\* The request a handler's step leaves.
LEMMA HandleReq ==
    ASSUME MarketInv, NEW q \in Client, Handle(q)
    PROVE  \E r \in Request : ReqOK(r) /\ req' = [req EXCEPT ![q] = r]
<1> PICK s : s = req[q]
  OBVIOUS
<1>1. s \in Request /\ ReqOK(s)
  BY DEF MarketInv, MarketTypeOK
<1>2. CASE Done(q)
  BY <1>2, IdleOK DEF Done
<1>3. /\ registry \in 1 .. Len(Catalog) /\ cached \in 1 .. registry /\ entry \in Entry /\ file \in Content \cup {None}
      /\ revision \in Nat /\ Len(Catalog) \in Nat
  BY MarketplaceAssumption DEF MarketInv, MarketTypeOK
<1>4. CASE InstallChoose(q) /\ ~Done(q)
  <2> DEFINE r == [s EXCEPT !.pc = "inspect", !.target = Wanted(q), !.cat = cached, !.was = entry]
  <2>1. req' = [req EXCEPT ![q] = r] /\ Wanted(q) # 0 /\ s.pc = "choose"
    BY <1>4 DEF InstallChoose, Refuse, Go
  <2>2. Wanted(q) \in Available(cached) /\ Wanted(q) \in 0 .. MaxRelease
    BY <1>3, <2>1, WantedIs, CatalogReleases
  <2>3. r \in Request
    <3>1. cached \in 0 .. Len(Catalog)
      BY <1>3
    <3> QED BY <1>1, <1>3, <2>2, <3>1 DEF Request, Phase
  <2>4. s.op = "upgrade" => Wanted(q) = s.want
    <3> SUFFICES ASSUME s.op = "upgrade" PROVE Wanted(q) = s.want
      OBVIOUS
    <3>1. s.want \in Release
      BY <1>1, <2>1 DEF ReqOK, Ordinary
    <3>2. s.want # 0
      BY <3>1, CatalogReleases, <1>3
    <3> QED BY <2>1, <3>2, WantedIs
  <2>5. /\ r.op = s.op /\ r.pc = "inspect" /\ r.known = s.known /\ r.cat = cached /\ r.target = Wanted(q)
        /\ r.want = s.want /\ r.expect = s.expect /\ r.rev = s.rev
    BY <1>1 DEF Request, Phase
  <2> HIDE DEF r
  <2>6. ReqOK(r)
    BY <1>1, <1>3, <2>1, <2>2, <2>4, <2>5 DEF ReqOK
  <2> QED BY <2>1, <2>3, <2>6
<1>5. CASE InstallInspect(q) /\ ~Done(q)
  <2> DEFINE r == [s EXCEPT !.pc = "apply", !.seen = file]
  <2>1. /\ req' = [req EXCEPT ![q] = r] /\ s.pc = "inspect"
        /\ ~Changed(s, file) /\ ~Foreign(s, file)
    BY <1>5 DEF InstallInspect, Refuse, Go
  <2>2. r \in Request
    BY <1>1, <1>3 DEF Request, Phase
  <2>3. /\ r.op = s.op /\ r.pc = "apply" /\ r.known = s.known /\ r.cat = s.cat /\ r.target = s.target
        /\ r.want = s.want /\ r.expect = s.expect /\ r.rev = s.rev /\ r.seen = file /\ r.was = s.was
    BY <1>1 DEF Request, Phase
  <2>4. file \in Release \cup {None, s.was.digest}
    <3>1. s.cat \in 1 .. Len(Catalog)
      BY <1>1, <1>3, <2>1 DEF ReqOK
    <3> QED BY <2>1, <3>1, CatalogReleases DEF Foreign
  <2>5. s.op = "upgrade" /\ file # None => file = s.expect.digest
    <3> SUFFICES ASSUME s.op = "upgrade", file # None PROVE file = s.expect.digest
      OBVIOUS
    <3>1. Managed(s.expect)
      BY <1>1, <2>1 DEF ReqOK, Ordinary
    <3>2. s.expect # NoEntry
      BY <3>1, IdleOK
    <3> QED BY <2>1, <3>2 DEF Changed
  <2> HIDE DEF r
  <2>6. ReqOK(r)
    BY <1>1, <2>1, <2>3, <2>4, <2>5 DEF ReqOK
  <2> QED BY <2>1, <2>2, <2>6
<1>6. CASE UpgradePick(q) /\ ~Done(q)
  <2> DEFINE t == UpgradeTarget(cached, NeedsNewer, entry)
             r == [s EXCEPT !.pc = "choose", !.want = t, !.expect = entry, !.rev = revision]
  <2>1. /\ req' = [req EXCEPT ![q] = r] /\ s.pc = "pick" /\ Managed(entry) /\ ~entry.pinned /\ t # 0
    BY <1>6 DEF UpgradePick, Refuse, Go
  <2>2. t \in Release /\ t > entry.version /\ MajorOf[t] = MajorOf[entry.version] /\ t \notin Prerelease \cup NeedsNewer
    BY <2>1, UpgradeTargetIs
  <2> HIDE DEF t
  <2>3. t \in 0 .. MaxRelease
    BY <1>3, <2>2, CatalogReleases
  <2>4. r \in Request
    BY <1>1, <1>3, <2>3 DEF Request, Phase
  <2>5. /\ r.op = s.op /\ r.pc = "choose" /\ r.known = s.known /\ r.want = t /\ r.expect = entry /\ r.rev = revision
    BY <1>1 DEF Request, Phase
  <2>6. entry.version = entry.digest /\ entry.digest \in Release
    <3>1. PICK c \in 1 .. registry : entry.digest \in Catalog[c].releases
      BY <2>1 DEF MarketInv, Signed, Published
    <3>2. c \in 1 .. Len(Catalog)
      BY <1>3
    <3> QED BY <2>1, <3>1, <3>2, CatalogReleases DEF MarketInv, Signed
  <2> HIDE DEF r
  <2>7. Ordinary(r.expect, r.want)
    BY <2>1, <2>2, <2>5, <2>6 DEF Ordinary
  <2>8. ReqOK(r)
    BY <1>1, <1>3, <2>1, <2>5, <2>7 DEF ReqOK
  <2> QED BY <2>1, <2>4, <2>8
<1>7. CASE RemoveLook(q) /\ ~Done(q)
  <2> DEFINE r == [s EXCEPT !.pc = "compare", !.was = entry]
  <2>1. req' = [req EXCEPT ![q] = r] /\ s.pc = "look"
    BY <1>7 DEF RemoveLook, Refuse, Go
  <2>2. r \in Request /\ r.op = s.op /\ r.pc = "compare" /\ r.known = s.known
    BY <1>1, <1>3 DEF Request, Phase
  <2> HIDE DEF r
  <2>3. ReqOK(r)
    BY <1>1, <2>1, <2>2 DEF ReqOK
  <2> QED BY <2>1, <2>2, <2>3
<1>8. CASE RemoveCompare(q) /\ ~Done(q)
  <2> DEFINE r == [s EXCEPT !.pc = "remove", !.seen = file]
  <2>1. req' = [req EXCEPT ![q] = r] /\ s.pc = "compare" /\ file = s.was.digest
    BY <1>8 DEF RemoveCompare, Refuse, Go
  <2>2. r \in Request /\ r.op = s.op /\ r.pc = "remove" /\ r.known = s.known /\ r.seen = file /\ r.was = s.was
    BY <1>1, <1>3 DEF Request, Phase
  <2> HIDE DEF r
  <2>3. ReqOK(r)
    BY <1>1, <2>1, <2>2 DEF ReqOK
  <2> QED BY <2>1, <2>2, <2>3
<1>9. CASE LocalUpgradePick(q) /\ ~Done(q)
  <2> DEFINE t == UpgradeTarget(cached, {}, entry)
             r == [s EXCEPT !.pc = "local", !.want = t, !.rev = revision]
  <2>1. req' = [req EXCEPT ![q] = r] /\ s.pc = "localPick" /\ t # 0
    BY <1>9 DEF LocalUpgradePick, Refuse, Go
  <2>2. t \in Release
    BY <2>1, UpgradeTargetIs
  <2> HIDE DEF t
  <2>3. t \in 0 .. MaxRelease
    BY <1>3, <2>2, CatalogReleases
  <2>4. r \in Request /\ r.op = s.op /\ r.pc = "local" /\ r.known = s.known
    BY <1>1, <1>3, <2>3 DEF Request, Phase
  <2> HIDE DEF r
  <2>5. ReqOK(r)
    BY <1>1, <2>1, <2>4 DEF ReqOK
  <2> QED BY <2>1, <2>4, <2>5
<1>10. InstallApply(q) \/ RemoveApply(q) \/ LocalInstall(q) \/ LocalRemove(q) => Done(q)
  BY DEF InstallApply, RemoveApply, LocalInstall, LocalRemove, Refuse
<1> QED BY <1>2, <1>4, <1>5, <1>6, <1>7, <1>8, <1>9, <1>10 DEF Handle

\* What a step does to the pack: a user replaces the file, the daemon adopts a
\* file without an entry, or file and entry are written together; an entry that
\* says it comes from the marketplace is signed.
PackStep ==
    \/ /\ file' \in Content \cup {None} /\ UNCHANGED <<undo, revision>>
       /\ entry' = entry \/ (entry = NoEntry /\ \E e \in Entry : Signed(e) /\ entry' = e)
    \/ \E c \in Content \cup {None}, e \in Entry : Signed(e) /\ Write(c, e)

LEMMA TargetPublished ==
    ASSUME MarketInv, NEW c \in 1 .. registry, NEW r \in Available(c)
    PROVE  r \in Release /\ r \in Published /\ r \in Content /\ Artifact(r) = r
<1>1. c \in 1 .. Len(Catalog)
  BY DEF MarketInv, MarketTypeOK
<1>2. r \in Release
  BY <1>1, CatalogReleases
<1> QED BY <1>2 DEF Available, Published, Content, Artifact

LEMMA HandlePack ==
    ASSUME MarketInv, NEW q \in Client, Handle(q)
    PROVE  /\ PackStep /\ UNCHANGED <<registry, cached, up, reverted>>
           /\ artifact' \in [Release -> Content \cup {None}]
<1>1. req[q] \in Request /\ ReqOK(req[q]) /\ artifact \in [Release -> Content \cup {None}] /\ cached \in 1 .. registry
  BY DEF MarketInv, MarketTypeOK
<1>2. req[q].pin \in BOOLEAN
  BY <1>1 DEF Request
<1>3. CASE UNCHANGED <<world, pack>>
  BY <1>1, <1>3 DEF world, pack, PackStep, MarketInv, MarketTypeOK
<1>4. ASSUME Write(None, NoEntry) PROVE PackStep
  BY <1>4, IdleOK DEF PackStep, Signed
<1>5. CASE InstallApply(q) /\ ~UNCHANGED <<world, pack>>
  <2> PICK t : t = req[q].target
    OBVIOUS
  <2>1. /\ req[q].pc = "apply" /\ Write(Artifact(t), Installed(Artifact(t), "marketplace", req[q].pin))
        /\ artifact' = [artifact EXCEPT ![t] = Artifact(t)] /\ UNCHANGED <<registry, cached, up, reverted>>
    BY <1>5 DEF InstallApply, Refuse
  <2>2. t \in Release /\ t \in Published /\ t \in Content /\ Artifact(t) = t
    BY <1>1, <2>1, TargetPublished DEF ReqOK
  <2>3. Installed(t, "marketplace", req[q].pin) \in Entry /\ Signed(Installed(t, "marketplace", req[q].pin))
    BY <1>2, <2>2, InstalledOK
  <2>4. PackStep
    BY <2>1, <2>2, <2>3 DEF PackStep
  <2> QED BY <1>1, <2>1, <2>2, <2>4
<1>6. CASE LocalInstall(q) /\ ~UNCHANGED <<world, pack>>
  <2> PICK t : t = LocalWanted(q)
    OBVIOUS
  <2>1. t # 0 /\ Write(t, Installed(t, "marketplace", req[q].pin)) /\ UNCHANGED <<registry, cached, up, reverted, artifact>>
    BY <1>6 DEF LocalInstall, Refuse, world
  <2>2. t \in Available(cached)
    BY <2>1, WantedIs
  <2>3. t \in Release /\ t \in Published /\ t \in Content
    BY <1>1, <2>2, TargetPublished
  <2>4. Installed(t, "marketplace", req[q].pin) \in Entry /\ Signed(Installed(t, "marketplace", req[q].pin))
    BY <1>2, <2>3, InstalledOK
  <2> QED BY <1>1, <2>1, <2>3, <2>4 DEF PackStep
<1>7. CASE (RemoveApply(q) \/ LocalRemove(q)) /\ ~UNCHANGED <<world, pack>>
  <2>1. Write(None, NoEntry) /\ UNCHANGED <<registry, cached, up, reverted, artifact>>
    BY <1>7 DEF RemoveApply, LocalRemove, Refuse, world
  <2> QED BY <1>1, <1>4, <2>1
<1>8. \/ InstallApply(q) \/ LocalInstall(q) \/ RemoveApply(q) \/ LocalRemove(q)
      \/ UNCHANGED <<world, pack>>
  BY DEF Handle, InstallChoose, InstallInspect, UpgradePick, RemoveLook, RemoveCompare, LocalUpgradePick, Refuse, Go
<1> QED BY <1>3, <1>5, <1>6, <1>7, <1>8

\* A step of the pack, typed and signed, moves forward.
LEMMA PackForward ==
    ASSUME MarketInv, PackStep, registry' \in 1 .. Len(Catalog), registry <= registry'
    PROVE  /\ file' \in Content \cup {None} /\ entry' \in Entry
           /\ undo' \in [file : Content \cup {None}, entry : Entry, valid : BOOLEAN]
           /\ revision' \in Nat /\ revision <= revision' /\ (revision' = revision => entry' = entry \/ entry = NoEntry)
           /\ Signed(entry)' /\ Signed(undo.entry)'
<1>1. /\ file \in Content \cup {None} /\ entry \in Entry /\ revision \in Nat /\ Signed(entry) /\ Signed(undo.entry)
      /\ undo \in [file : Content \cup {None}, entry : Entry, valid : BOOLEAN]
      /\ registry \in 1 .. Len(Catalog)
  BY DEF MarketInv, MarketTypeOK
<1>2. Published \subseteq Published'
  BY <1>1 DEF Published
<1>3. ASSUME NEW e, Signed(e) PROVE Signed(e)'
  BY <1>2, <1>3 DEF Signed, Managed
<1>4. CASE /\ file' \in Content \cup {None} /\ UNCHANGED <<undo, revision>>
           /\ entry' = entry \/ (entry = NoEntry /\ \E e \in Entry : Signed(e) /\ entry' = e)
  <2>1. PICK e \in Entry : Signed(e) /\ entry' = e
    BY <1>1, <1>4
  <2>2. Signed(entry)' /\ Signed(undo.entry)'
    BY <1>1, <1>2, <1>4, <2>1 DEF Signed, Managed
  <2> QED BY <1>1, <1>4, <2>1, <2>2
<1>5. ASSUME NEW c \in Content \cup {None}, NEW e \in Entry, Signed(e), Write(c, e)
      PROVE  /\ file' \in Content \cup {None} /\ entry' \in Entry
             /\ undo' \in [file : Content \cup {None}, entry : Entry, valid : BOOLEAN]
             /\ revision' \in Nat /\ revision <= revision' /\ (revision' = revision => entry' = entry \/ entry = NoEntry)
             /\ Signed(entry)' /\ Signed(undo.entry)'
  <2>1. file' = c /\ entry' = e /\ undo' = [file |-> file, entry |-> entry, valid |-> TRUE] /\ revision' = revision + 1
    BY <1>5 DEF Write
  <2>2. undo'.entry = entry
    BY <2>1
  <2>3. Signed(entry)'
    BY <1>2, <1>5, <2>1 DEF Signed, Managed
  <2>4. Signed(undo.entry)'
    BY <1>1, <1>2, <2>2 DEF Signed, Managed
  <2> QED BY <1>1, <2>1, <2>3, <2>4
<1> QED BY <1>4, <1>5 DEF PackStep

\* The invariant, from its parts.
LEMMA Rebuild ==
    ASSUME MarketInv, PackStep,
           registry' \in 1 .. Len(Catalog), registry <= registry', cached' \in 1 .. registry',
           artifact' \in [Release -> Content \cup {None}], up' \in BOOLEAN, reverted' \in BOOLEAN,
           reverted => reverted', ~reverted' => cached <= cached',
           req' \in [Client -> Request], \A q \in Client : ReqOK(req'[q])
    PROVE  MarketInv' /\ Forward
<1>1. Forward
  BY PackForward DEF Forward, MarketInv, MarketTypeOK
<1>2. MarketTypeOK'
  BY PackForward DEF MarketTypeOK
<1>3. ASSUME NEW q \in Client PROVE ReqOK(req[q])'
  <2>1. PICK r \in Request : r = req'[q] /\ ReqOK(r)
    OBVIOUS
  <2>2. ReqOK(r)'
    BY <1>1, <2>1, ReqForward, PackForward
  <2> QED BY <2>1, <2>2
<1> QED BY <1>1, <1>2, <1>3, PackForward DEF MarketInv

LEMMA MarketInit == Init => MarketInv
<1> SUFFICES ASSUME Init PROVE MarketInv
  OBVIOUS
<1>1. 1 \in 1 .. Len(Catalog) /\ Len(Catalog) \in Nat
  BY MarketplaceAssumption
<1>2. Catalog[1].releases \subseteq Release
  BY <1>1, CatalogReleases
<1>3. MarketTypeOK
  <2>1. registry \in 1 .. Len(Catalog) /\ cached \in 1 .. registry /\ revision \in Nat
    BY <1>1 DEF Init
  <2>2. artifact \in [Release -> Content \cup {None}] /\ file \in Content \cup {None}
    BY <1>2 DEF Init, Content
  <2>3. entry \in Entry /\ undo \in [file : Content \cup {None}, entry : Entry, valid : BOOLEAN]
    BY IdleOK DEF Init, NoUndo
  <2>4. req \in [Client -> Request] /\ up \in BOOLEAN /\ reverted \in BOOLEAN
    BY IdleOK DEF Init
  <2> QED BY <2>1, <2>2, <2>3, <2>4 DEF MarketTypeOK
<1>4. Signed(entry) /\ Signed(undo.entry)
  BY IdleOK DEF Init, Signed, NoUndo
<1> QED BY <1>3, <1>4, IdleOK DEF Init, MarketInv

LEMMA MarketNext == ASSUME MarketInv, [Next]_vars PROVE MarketInv'
<1>1. /\ registry \in 1 .. Len(Catalog) /\ cached \in 1 .. registry /\ artifact \in [Release -> Content \cup {None}]
      /\ file \in Content \cup {None} /\ entry \in Entry /\ up \in BOOLEAN /\ reverted \in BOOLEAN
      /\ req \in [Client -> Request] /\ Signed(entry) /\ Signed(undo.entry) /\ Len(Catalog) \in Nat
      /\ undo \in [file : Content \cup {None}, entry : Entry, valid : BOOLEAN]
  BY MarketplaceAssumption DEF MarketInv, MarketTypeOK
<1>2. \A q \in Client : ReqOK(req[q])
  BY DEF MarketInv
<1>3. registry <= registry /\ cached <= cached /\ Release \subseteq Content /\ Custom \subseteq Content /\ Junk \in Content
  BY <1>1 DEF Content
<1>4. CASE UNCHANGED <<registry, cached, artifact, up, reverted, req>> /\ PackStep
  BY <1>1, <1>2, <1>3, <1>4, Rebuild
<1>5. ASSUME UNCHANGED <<file, entry, undo, revision>> PROVE PackStep
  BY <1>1, <1>5 DEF PackStep
<1>6. CASE UNCHANGED vars
  BY <1>4, <1>5, <1>6 DEF vars
<1>7. CASE Publish \/ Refresh
  <2>1. /\ UNCHANGED <<artifact, up, reverted, req, file, entry, undo, revision>>
        /\ registry' \in 1 .. Len(Catalog) /\ registry <= registry' /\ cached' \in 1 .. registry' /\ cached <= cached'
    BY <1>1, <1>7 DEF Publish, Refresh, pack
  <2> QED BY <1>1, <1>2, <1>5, <2>1, Rebuild
<1>8. ASSUME NEW b \in Bundle, ImportSnapshot(b) PROVE MarketInv'
  <2>1. b.cat \in 1 .. Len(Catalog) /\ b.cat \in 1 .. registry
    <3>1. b.cat \in DOMAIN Catalog /\ Catalog \in Seq([releases : SUBSET Release, withdrawn : SUBSET Release])
      BY MarketplaceAssumption
    <3>2. b.cat \in 1 .. Len(Catalog)
      BY <3>1, LenProperties
    <3> QED BY <1>1, <1>8, <3>2 DEF ImportSnapshot
  <2>2. /\ UNCHANGED <<registry, up, req, file, entry, undo, revision>> /\ cached' = b.cat
        /\ reverted' = (reverted \/ b.cat < cached)
        /\ artifact' = [r \in Release |-> IF r \in b.artifacts THEN r ELSE artifact[r]]
    BY <1>8 DEF ImportSnapshot, pack
  <2>3. artifact' \in [Release -> Content \cup {None}] /\ reverted' \in BOOLEAN
    BY <1>1, <1>3, <2>2
  <2>4. (reverted => reverted') /\ (~reverted' => cached <= cached')
    <3>1. ~(b.cat < cached) => cached <= b.cat
      BY <1>1, <2>1
    <3>2. reverted => reverted'
      BY <2>2
    <3>3. ~reverted' => ~(b.cat < cached)
      BY <2>2
    <3> QED BY <2>2, <3>1, <3>2, <3>3
  <2> QED BY <1>1, <1>2, <1>3, <1>5, <2>1, <2>2, <2>3, <2>4, Rebuild
<1>9. ASSUME NEW r \in Release, FetchPack(r) \/ DamageArtifact(r) PROVE MarketInv'
  <2>1. /\ UNCHANGED <<registry, cached, up, reverted, req, file, entry, undo, revision>>
        /\ artifact' \in [Release -> Content \cup {None}]
    BY <1>1, <1>3, <1>9 DEF FetchPack, DamageArtifact, pack
  <2> QED BY <1>1, <1>2, <1>3, <1>5, <2>1, Rebuild
<1>10. ASSUME NEW c \in Custom \cup {None}, HandEdit(c) PROVE MarketInv'
  <2>1. UNCHANGED <<registry, cached, artifact, up, reverted, req, entry, undo, revision>> /\ file' \in Content \cup {None}
    BY <1>3, <1>10 DEF HandEdit
  <2>2. PackStep
    BY <2>1 DEF PackStep
  <2> QED BY <1>4, <2>1, <2>2
<1>11. ASSUME NEW c \in Posted, Activate(c) PROVE MarketInv'
  <2>1. c \in Content
    BY <1>3, MarketplaceAssumption
  <2>2. Installed(c, "custom", FALSE) \in Entry /\ Signed(Installed(c, "custom", FALSE))
    BY <2>1, InstalledOK
  <2>3. Write(c, Installed(c, "custom", FALSE)) /\ UNCHANGED <<registry, cached, artifact, up, reverted, req>>
    BY <1>11 DEF Activate, world
  <2>4. PackStep
    BY <2>1, <2>2, <2>3 DEF PackStep
  <2> QED BY <1>4, <2>3, <2>4
<1>12. CASE Rollback
  <2>1. Write(undo.file, undo.entry) /\ UNCHANGED <<registry, cached, artifact, up, reverted, req>>
    BY <1>12 DEF Rollback, world
  <2>2. undo.file \in Content \cup {None} /\ undo.entry \in Entry
    BY <1>1
  <2>3. PackStep
    BY <1>1, <2>1, <2>2 DEF PackStep
  <2> QED BY <1>4, <2>1, <2>3
<1>13. CASE Boot
  <2>1. UNCHANGED <<registry, cached, reverted, req, file, undo, revision>> /\ up' \in BOOLEAN
    BY <1>13 DEF Boot
  <2>2. CASE UNCHANGED <<entry, artifact>>
    BY <1>1, <1>2, <1>3, <1>5, <2>1, <2>2, Rebuild
  <2>3. CASE ~UNCHANGED <<entry, artifact>>
    <3>1. /\ file # None /\ entry = NoEntry
          /\ \/ /\ file \in Catalog[1].releases /\ entry' = Installed(file, "bundled", FALSE)
                /\ artifact' = [artifact EXCEPT ![file] = file]
             \/ entry' = Installed(file, "custom", FALSE) /\ UNCHANGED artifact
      BY <1>13, <2>3 DEF Boot
    <3>2. file \in Content /\ 1 \in 1 .. registry /\ 1 \in 1 .. Len(Catalog)
      BY <1>1, <3>1
    <3>3. file \in Catalog[1].releases => file \in Release /\ file \in Published
      BY <3>2, CatalogReleases DEF Published
    <3>4. /\ Installed(file, "custom", FALSE) \in Entry /\ Signed(Installed(file, "custom", FALSE))
          /\ Installed(file, "bundled", FALSE) \in Entry
          /\ file \in Catalog[1].releases => Signed(Installed(file, "bundled", FALSE))
      BY <3>2, <3>3, InstalledOK
    <3>5. PackStep
      BY <1>1, <2>1, <3>1, <3>4 DEF PackStep
    <3>6. artifact' \in [Release -> Content \cup {None}]
      BY <1>1, <3>1, <3>2, <3>3
    <3> QED BY <1>1, <1>2, <1>3, <2>1, <3>5, <3>6, Rebuild
  <2> QED BY <2>2, <2>3
<1>14. CASE Shutdown
  <2>1. /\ UNCHANGED <<registry, cached, artifact, reverted, file, entry, undo, revision>> /\ up' \in BOOLEAN
        /\ req' = [q \in Client |-> IF req[q].op \in Local THEN req[q] ELSE Idle]
    BY <1>14 DEF Shutdown
  <2>2. req' \in [Client -> Request] /\ \A q \in Client : req'[q] = req[q] \/ req'[q] = Idle
    BY <1>1, <2>1, IdleOK
  <2>3. \A q \in Client : ReqOK(req'[q])
    BY <1>2, <2>2, IdleOK
  <2> QED BY <1>1, <1>3, <1>5, <2>1, <2>2, <2>3, Rebuild
<1>15. ASSUME NEW q \in Client, NEW r \in Request, ReqOK(r), req' = [req EXCEPT ![q] = r]
       PROVE  req' \in [Client -> Request] /\ \A p \in Client : ReqOK(req'[p])
  <2>1. req' \in [Client -> Request] /\ \A p \in Client : req'[p] = req[p] \/ req'[p] = r
    BY <1>1, <1>15
  <2> QED BY <1>2, <1>15, <2>1
<1>16. ASSUME NEW q \in Client, Handle(q) PROVE MarketInv'
  <2>1. PICK r \in Request : ReqOK(r) /\ req' = [req EXCEPT ![q] = r]
    BY <1>16, HandleReq
  <2>2. PackStep /\ UNCHANGED <<registry, cached, up, reverted>> /\ artifact' \in [Release -> Content \cup {None}]
    BY <1>16, HandlePack
  <2>3. req' \in [Client -> Request] /\ \A p \in Client : ReqOK(req'[p])
    BY <1>15, <2>1
  <2> QED BY <1>1, <1>3, <2>2, <2>3, Rebuild
<1>17. ASSUME NEW q \in Client, NEW op \in DOMAIN First, NEW want \in {0} \cup Release, Call(q, op, want) PROVE MarketInv'
  <2> DEFINE r == [Idle EXCEPT !.op = op, !.pc = First[op], !.want = want, !.pin = want # 0, !.known = cached]
  <2>1. UNCHANGED <<registry, cached, artifact, up, reverted, file, entry, undo, revision>> /\ req' = [req EXCEPT ![q] = r]
    BY <1>17 DEF Call, pack
  <2>2. op \in Op /\ First[op] \in {"choose", "pick", "look", "local", "localPick", "localRemove"}
        /\ (op = "upgrade" => First[op] = "pick")
    BY DEF First, Op
  <2>3. want \in 0 .. MaxRelease /\ cached \in 0 .. Len(Catalog) /\ (want # 0) \in BOOLEAN
    BY <1>1, CatalogReleases, MarketplaceAssumption
  <2>4. r \in Request
    BY <2>2, <2>3, IdleOK DEF Request, Phase
  <2>5. r.op = op /\ r.pc = First[op] /\ r.known = cached
    BY DEF Idle
  <2> HIDE DEF r
  <2>6. ReqOK(r)
    <3>1. op # "none" /\ cached <= cached
      BY <1>3, <2>2 DEF Op
    <3> QED BY <1>1, <2>2, <2>5, <3>1 DEF ReqOK
  <2>7. req' \in [Client -> Request] /\ \A p \in Client : ReqOK(req'[p])
    BY <1>15, <2>1, <2>4, <2>6
  <2> QED BY <1>1, <1>3, <1>5, <2>1, <2>7, Rebuild
<1> QED BY <1>6, <1>7, <1>8, <1>9, <1>10, <1>11, <1>12, <1>13, <1>14, <1>16, <1>17 DEF Next

\* What the manifest says comes from the marketplace is a signed release: no
\* damaged cache file, rollback, adoption or interleaved call records another.
THEOREM InstalledVerified == Spec => []InstalledIsVerified
<1>1. MarketInv => InstalledIsVerified
  BY DEF MarketInv, Signed, Published, InstalledIsVerified
<1>2. MarketInv /\ [Next]_vars => MarketInv'
  BY MarketNext
<1> QED BY <1>1, <1>2, MarketInit, PTL DEF Spec

-----------------------------------------------------------------------------
(* What a call may do when it changes the pack. *)

\* A call changes the pack by one of four steps of its own.
LEMMA ChangeIs ==
    ASSUME MarketInv, [Next]_vars, NEW q \in Client, Changes(q)
    PROVE  \/ /\ req[q].pc = "apply" /\ file = req[q].seen
              /\ file' = req[q].target /\ req[q].target \in Release
           \/ req[q].pc = "remove" /\ file = req[q].seen /\ file' = None
           \/ req[q].pc = "local" /\ file = entry.digest /\ file' \in Available(cached)
           \/ req[q].pc = "localRemove" /\ file = entry.digest /\ file' = None
<1>0. req \in [Client -> Request] /\ file' # file /\ req'[q] # req[q]
  BY DEF MarketInv, MarketTypeOK, Changes
<1>1. ~UNCHANGED pack /\ ~UNCHANGED req
  BY <1>0 DEF pack
<1>2. ASSUME NEW p \in Client, NEW r, p # q, req' = [req EXCEPT ![p] = r] PROVE FALSE
  BY <1>0, <1>2
<1>3. Handle(q)
  <2>1. ~(UNCHANGED vars) /\ ~Publish /\ ~Refresh /\ ~Boot /\ ~Rollback /\ ~Shutdown
    BY <1>0 DEF vars, Publish, Refresh, Boot, Rollback, Shutdown, Changes
  <2>2. /\ \A b \in Bundle : ~ImportSnapshot(b)
        /\ \A r \in Release : ~FetchPack(r) /\ ~DamageArtifact(r)
        /\ \A c \in Custom \cup {None} : ~HandEdit(c)
        /\ \A c \in Posted : ~Activate(c)
    BY <1>1 DEF ImportSnapshot, FetchPack, DamageArtifact, HandEdit, Activate
  <2>3. \A p \in Client, op \in DOMAIN First, want \in {0} \cup Release : ~Call(p, op, want)
    BY <1>1 DEF Call
  <2>4. PICK p \in Client : Handle(p)
    BY <2>1, <2>2, <2>3 DEF Next
  <2>5. PICK r \in Request : req' = [req EXCEPT ![p] = r]
    BY <2>4, HandleReq
  <2>6. p = q
    BY <1>2, <2>5
  <2> QED BY <2>4, <2>6
<1>4. ReqOK(req[q]) /\ cached \in 1 .. registry
  BY DEF MarketInv, MarketTypeOK
<1>5. CASE InstallApply(q)
  <2>1. req[q].pc = "apply" /\ file = req[q].seen /\ file' = Artifact(req[q].target)
    BY <1>1, <1>5 DEF InstallApply, Refuse, AsExpected, Write
  <2>2. Artifact(req[q].target) = req[q].target /\ req[q].target \in Release
    BY <1>4, <2>1, TargetPublished DEF ReqOK
  <2> QED BY <2>1, <2>2
<1>6. CASE RemoveApply(q)
  BY <1>1, <1>6 DEF RemoveApply, Refuse, AsExpected, Write
<1>7. CASE LocalInstall(q)
  <2>1. /\ req[q].pc = "local" /\ file = entry.digest /\ LocalWanted(q) # 0
        /\ Write(LocalWanted(q), Installed(LocalWanted(q), "marketplace", req[q].pin))
    BY <1>1, <1>7 DEF LocalInstall, Refuse, Unmodified
  <2>2. file' = LocalWanted(q)
    BY <2>1 DEF Write
  <2> QED BY <2>1, <2>2, WantedIs
<1>8. CASE LocalRemove(q)
  BY <1>1, <1>8 DEF LocalRemove, Refuse, Unmodified, Write
<1> QED BY <1>1, <1>3, <1>5, <1>6, <1>7, <1>8 DEF Handle, InstallChoose, InstallInspect, UpgradePick, RemoveLook,
       RemoveCompare, LocalUpgradePick, Refuse, Go

\* No marketplace call overwrites or deletes a file written by hand: the handler
\* replaces the very file it inspected, or the one the manifest records.
THEOREM HandEditsKept == Spec => HandEditsSurvive
<1>1. ASSUME MarketInv, [Next]_vars, NEW q \in Client, Changes(q)
      PROVE  file \in Release \cup {None, entry.digest, req[q].was.digest}
  <2>1. ReqOK(req[q])
    BY <1>1 DEF MarketInv
  <2> QED BY <1>1, <2>1, ChangeIs DEF ReqOK
<1>2. MarketInv /\ [Next]_vars =>
        [\A q \in Client : Changes(q) => file \in Release \cup {None, entry.digest, req[q].was.digest}]_vars
  BY <1>1
<1>3. MarketInv /\ [Next]_vars => MarketInv'
  BY MarketNext
<1> QED BY <1>2, <1>3, MarketInit, PTL DEF Spec, HandEditsSurvive

\* An upgrade through the API replaces a release by a newer one of the same major
\* version that runs on this daemon, and a pinned pack only if it was pinned
\* since, whatever happens between its reads and its write.
THEOREM UpgradesOrdinary == Spec => UpgradeIsOrdinary
<1>1. ASSUME MarketInv, [Next]_vars, NEW q \in Client, Changes(q), req[q].op = "upgrade", file # None
      PROVE  /\ file \in Release /\ file' > file /\ MajorOf[file'] = MajorOf[file]
             /\ file' \notin Prerelease \cup NeedsNewer
             /\ entry.pinned => revision > req[q].rev
  <2>1. ReqOK(req[q]) /\ req[q] \in Request /\ revision \in Nat
    BY <1>1 DEF MarketInv, MarketTypeOK
  <2>2. req[q].pc = "apply" /\ file = req[q].seen /\ file' = req[q].target
    BY <1>1, <2>1, ChangeIs DEF ReqOK
  <2>3. /\ Ordinary(req[q].expect, req[q].want) /\ req[q].target = req[q].want /\ req[q].seen = req[q].expect.digest
        /\ req[q].rev <= revision /\ (req[q].rev = revision => entry = req[q].expect)
    BY <1>1, <2>1, <2>2 DEF ReqOK
  <2>4. req[q].rev \in Nat
    BY <2>1 DEF Request
  <2>5. entry.pinned => revision > req[q].rev
    BY <2>1, <2>3, <2>4 DEF Ordinary
  <2> QED BY <2>2, <2>3, <2>5 DEF Ordinary
<1>2. MarketInv /\ [Next]_vars =>
        [\A q \in Client : Changes(q) /\ req[q].op = "upgrade" /\ file # None =>
            /\ file \in Release /\ file' > file /\ MajorOf[file'] = MajorOf[file]
            /\ file' \notin Prerelease \cup NeedsNewer
            /\ entry.pinned => revision > req[q].rev]_vars
  BY <1>1
<1>3. MarketInv /\ [Next]_vars => MarketInv'
  BY MarketNext
<1> QED BY <1>2, <1>3, MarketInit, PTL DEF Spec, UpgradeIsOrdinary

\* A call made after a refresh never installs a release that the refreshed catalog
\* withdraws, as long as no import has brought back an older catalog.
THEOREM WithdrawnOut == Spec => WithdrawnStaysOut
<1>1. ASSUME MarketInv, [Next]_vars, NEW q \in Client, Changes(q), file' # None, ~reverted
      PROVE  file' \notin Catalog[req[q].known].withdrawn
  <2>1. /\ ReqOK(req[q]) /\ registry \in 1 .. Len(Catalog) /\ cached \in 1 .. registry /\ req[q] \in Request
        /\ None \notin Release
    BY <1>1, MarketplaceAssumption DEF MarketInv, MarketTypeOK, Content
  <2>2. PICK c \in 1 .. registry : file' \in Available(c) /\ req[q].known <= c /\ req[q].known \in 1 .. registry
    <3>1. CASE req[q].pc = "apply"
      <4>1. file' = req[q].target
        BY <1>1, <3>1, ChangeIs
      <4> QED BY <1>1, <2>1, <3>1, <4>1 DEF ReqOK
    <3>2. CASE req[q].pc # "apply"
      <4>1. req[q].pc = "local" /\ file' \in Available(cached)
        BY <1>1, <3>2, ChangeIs
      <4> QED BY <1>1, <2>1, <4>1 DEF ReqOK
    <3> QED BY <3>1, <3>2
  <2>3. c \in 1 .. Len(Catalog) /\ req[q].known \in 1 .. Len(Catalog)
    BY <2>1, <2>2
  <2>4. Catalog[req[q].known].withdrawn \subseteq Catalog[c].withdrawn
    BY <2>2, <2>3, CatalogReleases
  <2> QED BY <2>2, <2>4 DEF Available
<1>2. MarketInv /\ [Next]_vars =>
        [\A q \in Client : Changes(q) /\ file' # None => reverted \/ file' \notin Catalog[req[q].known].withdrawn]_vars
  BY <1>1
<1>3. MarketInv /\ [Next]_vars => MarketInv'
  BY MarketNext
<1> QED BY <1>2, <1>3, MarketInit, PTL DEF Spec, WithdrawnStaysOut

=============================================================================
