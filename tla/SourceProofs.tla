---------------------------- MODULE SourceProofs ----------------------------
(***************************************************************************)
(* Theorems about Sources for every value of its constants: any number of  *)
(* records, files and lines, any queue capacities, any number of failing   *)
(* calls, reconfigurations, shutdowns and crashes.                         *)
(***************************************************************************)
EXTENDS Sources, SequenceTheorems, FiniteSetTheorems, TLAPS

\* The producer does not use a file name twice.
DistinctNames == \A f, g \in File : NameOf[f] = NameOf[g] => f = g

-----------------------------------------------------------------------------
(* The inductive invariant. *)

Phase == {"down", "idle", "send", "wait", "save", "dead"}
Busy == pc \in {"send", "wait"}

SourceTypeOK ==
    /\ kind \in Kinds /\ pc \in Phase /\ ctx \in BOOLEAN
    /\ todo \in Seq(Item) /\ ack \in {"none", "ok", "error"}
    /\ mem \in 0 .. MaxRecord /\ saved \in 0 .. MaxRecord
    /\ dir \in [Place -> [Name -> File \cup {None}]]
    /\ scan \in [of : {"inbox", "processing"}, names : SUBSET Name]
    /\ dropped \subseteq File
    /\ main \in {"run", "cancelled", "closed", "draining", "exited"}
    /\ out \in Seq(Flight) /\ hand \in Seq(Flight) /\ inbound \in Seq(Flight)
    /\ store \subseteq Item
    /\ faults \in Nat /\ cancels \in Nat /\ restarts \in Nat

\* Records i + 1 to j of a file or, for None, of a numbered source.
Run(a, i, j) == [k \in 1 .. j - i |-> <<a, i + k>>]

Unowned(q) == \A i \in 1 .. Len(q) : ~q[i].mine
Single(q, x) ==
    \A i \in 1 .. Len(q) : q[i].mine => q[i].item = x /\ \A j \in 1 .. Len(q) : q[j].mine => j = i

\* At most one record of the three queues is one the adapter waits for, and it is x.
OneOwned(o, h, b, x) ==
    /\ Single(o, x) /\ Single(h, x) /\ Single(b, x)
    /\ \/ Unowned(o) /\ Unowned(h)
       \/ Unowned(o) /\ Unowned(b)
       \/ Unowned(h) /\ Unowned(b)

\* An acknowledgement is for the first record of todo: no other record in flight
\* can still answer, and a positive answer means the record is committed.
AckInv ==
    /\ Busy => todo # <<>>
    /\ pc = "wait" /\ ack = "none" => OneOwned(out, hand, inbound, Head(todo))
    /\ ~(pc = "wait" /\ ack = "none") => Unowned(out) /\ Unowned(hand) /\ Unowned(inbound)
    /\ ack # "none" => pc = "wait"
    /\ ack = "ok" => Head(todo) \in store

Covered(n) == FirstRecords(n) \subseteq store
Checkpointed == {"poll", "kafka", "http"}

\* todo is records i + 1 to j of a file or of a numbered source, and a source
\* that remembers where it is has committed what comes before.
At(a, i, j) ==
    /\ i < j /\ todo = Run(a, i, j)
    /\ kind = "file" => /\ a \in File /\ j = Lines
                        /\ dir["processing"][NameOf[a]] = a
                        /\ \A l \in 1 .. i : <<a, l>> \in store
    /\ kind # "file" => a = None /\ j <= MaxRecord
    /\ kind \in Checkpointed => Covered(i)
    /\ kind = "poll" => j = Until(mem, BatchSize)
    /\ kind \in {"kafka"} \cup Syslog => j = mem
    /\ kind = "http" => i = mem
    /\ kind \in Syslog => i + 1 = mem

PositionInv == Busy => \E a \in File \cup {None}, i \in Nat, j \in Nat : At(a, i, j)

\* What is committed between two batches.
CoveredInv ==
    /\ kind = "poll" /\ pc = "save" => Covered(Until(mem, BatchSize))
    /\ kind = "kafka" /\ pc = "idle" => Covered(mem)
    /\ kind \in {"poll", "http"} => Covered(mem)
    /\ CheckpointCovered

\* A file lies under its own name, and the files of the listing are there except
\* the one being read.
ListingInv ==
    /\ \A p \in Place, n \in Name : dir[p][n] # None => NameOf[dir[p][n]] = n
    /\ kind # "file" => scan.names = {} /\ \A p \in Place, n \in Name : dir[p][n] = None
    /\ kind = "file" => pc \in {"down", "idle", "send", "wait"}
    /\ \A n \in scan.names : (Busy /\ n = NameOf[Reading]) \/ dir[scan.of][n] # None

SourceInv == SourceTypeOK /\ AckInv /\ PositionInv /\ CoveredInv /\ ListingInv

-----------------------------------------------------------------------------
(* Lemmas on the queues and on runs of records. *)

LEMMA FlightFields == \A r \in Flight : r.item \in Item /\ r.mine \in BOOLEAN
BY DEF Flight

\* A record put behind others that nobody waits for.
LEMMA AppendOwned ==
    ASSUME NEW q \in Seq(Flight), NEW r \in Flight, Unowned(q)
    PROVE  /\ Append(q, r) \in Seq(Flight)
           /\ ~r.mine => Unowned(Append(q, r))
           /\ Single(Append(q, r), r.item)
<1>1. /\ Append(q, r) \in Seq(Flight) /\ Len(Append(q, r)) = Len(q) + 1 /\ Len(q) \in Nat
      /\ \A i \in 1 .. Len(q) : Append(q, r)[i] = q[i]
      /\ Append(q, r)[Len(q) + 1] = r
  BY AppendProperties, LenProperties
<1> QED BY <1>1 DEF Unowned, Single

\* The first record is taken out of a queue.
LEMMA TailOwned ==
    ASSUME NEW q \in Seq(Flight), q # <<>>
    PROVE  /\ Head(q) \in Flight /\ Tail(q) \in Seq(Flight)
           /\ Unowned(q) => Unowned(Tail(q)) /\ ~Head(q).mine
           /\ \A x : Single(q, x) => Single(Tail(q), x)
           /\ \A x : Single(q, x) /\ Head(q).mine => Unowned(Tail(q)) /\ Head(q).item = x
<1>1. /\ Head(q) \in Flight /\ Tail(q) \in Seq(Flight) /\ Len(Tail(q)) = Len(q) - 1
      /\ \A i \in 1 .. Len(Tail(q)) : Tail(q)[i] = q[i + 1]
      /\ Len(q) \in Nat \ {0} /\ Head(q) = q[1]
  BY HeadTailProperties, LenProperties, EmptySeq
<1> QED BY <1>1 DEF Unowned, Single

LEMMA JoinOwned ==
    ASSUME NEW p \in Seq(Flight), NEW q \in Seq(Flight)
    PROVE  /\ p \o q \in Seq(Flight)
           /\ Unowned(p) /\ Unowned(q) => Unowned(p \o q)
           /\ \A x : Single(p, x) /\ Unowned(q) => Single(p \o q, x)
           /\ \A x : Unowned(p) /\ Single(q, x) => Single(p \o q, x)
<1>1. /\ p \o q \in Seq(Flight) /\ Len(p \o q) = Len(p) + Len(q)
      /\ \A i \in 1 .. Len(p) + Len(q) : (p \o q)[i] = IF i <= Len(p) THEN p[i] ELSE q[i - Len(p)]
      /\ Len(p) \in Nat /\ Len(q) \in Nat
  BY ConcatProperties, LenProperties
<1>2. \A i \in 1 .. Len(p) + Len(q) : i > Len(p) => i - Len(p) \in 1 .. Len(q)
  BY <1>1
<1> QED BY <1>1, <1>2 DEF Unowned, Single

\* A function on 1 .. n is a sequence of length n.
LEMMA LenIs ==
    ASSUME NEW S, NEW n \in Nat, NEW f \in [1 .. n -> S]
    PROVE  f \in Seq(S) /\ Len(f) = n /\ (n > 0 => f # <<>> /\ Head(f) = f[1])
OBVIOUS

LEMMA ForgetOwned ==
    ASSUME NEW q \in Seq(Flight)
    PROVE  Forget(q) \in Seq(Flight) /\ Unowned(Forget(q)) /\ Len(Forget(q)) = Len(q)
           /\ \A i \in 1 .. Len(q) : Forget(q)[i].item = q[i].item
<1>1. DOMAIN q = 1 .. Len(q) /\ Len(q) \in Nat /\ \A i \in 1 .. Len(q) : q[i] \in Flight
  BY LenProperties, ElementOfSeq
<1>2. \A i \in 1 .. Len(q) : [q[i] EXCEPT !.mine = FALSE] \in Flight
  BY <1>1 DEF Flight
<1>3. Forget(q) \in [1 .. Len(q) -> Flight]
  BY <1>1, <1>2 DEF Forget
<1>4. Forget(q) \in Seq(Flight)
  BY <1>1, <1>3, LenIs
<1>5. Len(Forget(q)) = Len(q)
  BY <1>1, <1>3, LenIs
<1>6. \A i \in 1 .. Len(q) : ~Forget(q)[i].mine /\ Forget(q)[i].item = q[i].item
  BY <1>1 DEF Forget, Flight
<1> QED BY <1>4, <1>5, <1>6 DEF Unowned

\* The first record of a run and the rest.
LEMMA RunProperties ==
    ASSUME NEW a, NEW i \in Nat, NEW j \in Nat
    PROVE  /\ i < j => /\ Run(a, i, j) # <<>>
                       /\ Head(Run(a, i, j)) = <<a, i + 1>>
                       /\ Tail(Run(a, i, j)) = Run(a, i + 1, j)
           /\ i >= j => Run(a, i, j) = <<>>
<1>1. CASE i < j
  <2> DEFINE S == {a} \X Nat
  <2>1. j - i \in Nat \ {0} /\ j - (i + 1) \in Nat
    BY <1>1
  <2>2. Run(a, i, j) \in [1 .. j - i -> S] /\ Run(a, i + 1, j) \in [1 .. j - (i + 1) -> S]
    BY <2>1 DEF Run
  <2> HIDE DEF S
  <2>3. /\ Run(a, i, j) \in Seq(S) /\ Len(Run(a, i, j)) = j - i
        /\ Run(a, i, j) # <<>> /\ Head(Run(a, i, j)) = Run(a, i, j)[1]
    BY <2>1, <2>2, LenIs
  <2>4. Run(a, i + 1, j) \in Seq(S) /\ Len(Run(a, i + 1, j)) = j - (i + 1)
    BY <2>1, <2>2, LenIs
  <2>6. /\ Tail(Run(a, i, j)) \in Seq(S) /\ Len(Tail(Run(a, i, j))) = j - i - 1
        /\ \A k \in 1 .. Len(Tail(Run(a, i, j))) : Tail(Run(a, i, j))[k] = Run(a, i, j)[k + 1]
    BY <2>3, HeadTailProperties
  <2>7. Len(Tail(Run(a, i, j))) = Len(Run(a, i + 1, j))
    BY <2>1, <2>4, <2>6
  <2>8. \A k \in 1 .. Len(Tail(Run(a, i, j))) : Tail(Run(a, i, j))[k] = Run(a, i + 1, j)[k]
    <3> TAKE k \in 1 .. Len(Tail(Run(a, i, j)))
    <3>1. k \in 1 .. j - (i + 1) /\ k + 1 \in 1 .. j - i /\ i + (k + 1) = (i + 1) + k
      BY <2>1, <2>6
    <3>2. Run(a, i, j)[k + 1] = <<a, i + (k + 1)>> /\ Run(a, i + 1, j)[k] = <<a, (i + 1) + k>>
      BY <3>1 DEF Run
    <3> QED BY <2>6, <3>1, <3>2
  <2>9. Tail(Run(a, i, j)) = Run(a, i + 1, j)
    BY <2>4, <2>6, <2>7, <2>8, SeqEqual
  <2>10. Head(Run(a, i, j)) = <<a, i + 1>>
    BY <2>1, <2>3 DEF Run
  <2> QED BY <1>1, <2>3, <2>9, <2>10
<1>2. CASE i >= j
  <2>1. 1 .. j - i = {}
    BY <1>2
  <2> QED BY <1>2, <2>1 DEF Run
<1> QED BY <1>1, <1>2

LEMMA RunEmpty ==
    ASSUME NEW a, NEW i \in Nat, NEW j \in Nat
    PROVE  (Run(a, i, j) = <<>>) <=> (i >= j)
<1>1. CASE i < j
  <2>1. Run(a, i, j) # <<>>
    BY <1>1, RunProperties
  <2> QED BY <1>1, <2>1
<1>2. CASE i >= j
  <2>1. Run(a, i, j) = <<>>
    BY <1>2, RunProperties
  <2> QED BY <1>2, <2>1
<1> QED BY <1>1, <1>2


-----------------------------------------------------------------------------
(* Every step keeps the invariant. *)

\* Steps that leave the adapter where it is.
LEMMA PlaceKept ==
    ASSUME SourceInv, UNCHANGED <<kind, pc, todo, mem, saved, dir, scan>>, store \subseteq store'
    PROVE  PositionInv' /\ CoveredInv' /\ ListingInv'
<1>1. PositionInv'
  BY DEF SourceInv, PositionInv, At, Busy, Covered, FirstRecords, Until
<1>2. CoveredInv'
  BY DEF SourceInv, CoveredInv, Covered, FirstRecords, Until, CheckpointCovered
<1>3. ListingInv'
  BY DEF SourceInv, ListingInv, Busy, Reading
<1> QED BY <1>1, <1>2, <1>3

LEMMA HeadTodo == ASSUME SourceInv, Busy PROVE todo # <<>> /\ Head(todo) \in Item /\ Rest \in Seq(Item)
BY HeadTailProperties DEF SourceInv, AckInv, SourceTypeOK, Rest

LEMMA StepConnect == ASSUME SourceInv, Connect PROVE SourceInv'
<1>1. /\ Head(out) \in Flight /\ Tail(out) \in Seq(Flight)
      /\ Unowned(out) => Unowned(Tail(out)) /\ ~Head(out).mine
      /\ \A x : Single(out, x) => Single(Tail(out), x)
      /\ \A x : Single(out, x) /\ Head(out).mine => Unowned(Tail(out)) /\ Head(out).item = x
  BY TailOwned DEF SourceInv, SourceTypeOK, Connect
<1>2. <<>> \in Seq(Flight) /\ Unowned(<<>>)
  BY DEF Unowned
<1>3. /\ <<Head(out)>> \in Seq(Flight) /\ Single(<<Head(out)>>, Head(out).item)
      /\ ~Head(out).mine => Unowned(<<Head(out)>>) /\ \A x : Single(<<Head(out)>>, x)
  BY <1>1 DEF Single, Unowned
<1>4. SourceTypeOK'
  BY <1>1, <1>3 DEF SourceInv, SourceTypeOK, Connect, spool, bounds
<1>5. AckInv'
  BY <1>1, <1>3 DEF SourceInv, AckInv, OneOwned, Connect, Busy
<1> QED BY <1>4, <1>5, PlaceKept DEF SourceInv, Connect, spool

LEMMA StepSubmitWait == ASSUME SourceInv, SubmitWait PROVE SourceInv'
<1>1. /\ inbound \o hand \in Seq(Flight)
      /\ Unowned(inbound) /\ Unowned(hand) => Unowned(inbound \o hand)
      /\ \A x : Single(inbound, x) /\ Unowned(hand) => Single(inbound \o hand, x)
      /\ \A x : Unowned(inbound) /\ Single(hand, x) => Single(inbound \o hand, x)
  BY JoinOwned DEF SourceInv, SourceTypeOK
<1>2. <<>> \in Seq(Flight) /\ Unowned(<<>>) /\ \A x : Single(<<>>, x)
  BY DEF Unowned, Single
<1>3. SourceTypeOK'
  BY <1>1, <1>2 DEF SourceInv, SourceTypeOK, SubmitWait, spool, bounds
<1>4. AckInv'
  BY <1>1, <1>2 DEF SourceInv, AckInv, OneOwned, SubmitWait, Busy
<1> QED BY <1>3, <1>4, PlaceKept DEF SourceInv, SubmitWait, spool

LEMMA StepDropRecord == ASSUME SourceInv, DropRecord PROVE SourceInv'
<1>1. <<>> \in Seq(Flight) /\ Unowned(<<>>) /\ \A x : Single(<<>>, x)
  BY DEF Unowned, Single
<1>2. SourceTypeOK'
  BY <1>1 DEF SourceInv, SourceTypeOK, DropRecord, spool, bounds
<1>3. AckInv'
  BY <1>1 DEF SourceInv, AckInv, OneOwned, DropRecord, Busy
<1> QED BY <1>2, <1>3, PlaceKept DEF SourceInv, DropRecord, spool

LEMMA StepCommit == ASSUME SourceInv, Commit \/ CommitFails PROVE SourceInv'
<1>1. /\ Head(inbound) \in Flight /\ Tail(inbound) \in Seq(Flight)
      /\ Unowned(inbound) => Unowned(Tail(inbound)) /\ ~Head(inbound).mine
      /\ \A x : Single(inbound, x) => Single(Tail(inbound), x)
      /\ \A x : Single(inbound, x) /\ Head(inbound).mine => Unowned(Tail(inbound)) /\ Head(inbound).item = x
  BY TailOwned DEF SourceInv, SourceTypeOK, Commit, CommitFails
<1>2. Head(inbound).item \in Item /\ Head(inbound).mine \in BOOLEAN
  BY <1>1, FlightFields
<1>3. store' \in {store, store \cup {Head(inbound).item}} /\ (Commit => Head(inbound).item \in store')
  BY DEF Commit, CommitFails
<1>4. SourceTypeOK'
  <2>1. ack' \in {"none", "ok", "error"}
    BY DEF SourceInv, SourceTypeOK, Commit, CommitFails, Acknowledge
  <2>2. faults' \in Nat /\ UNCHANGED <<cancels, restarts>>
    BY DEF SourceInv, SourceTypeOK, Commit, CommitFails, Fault, bounds
  <2>3. /\ UNCHANGED <<kind, pc, ctx, todo, mem, saved, dir, scan, dropped, main, out, hand>>
        /\ inbound' = Tail(inbound)
    BY DEF Commit, CommitFails, spool
  <2>4. store' \subseteq Item
    BY <1>2, <1>3 DEF SourceInv, SourceTypeOK
  <2> QED BY <1>1, <2>1, <2>2, <2>3, <2>4 DEF SourceInv, SourceTypeOK
<1>5. Unowned(inbound) \/ (Unowned(out) /\ Unowned(hand))
  BY DEF SourceInv, AckInv, OneOwned
<1>6. AckInv'
  <2>1. CASE Head(inbound).mine
    <3>1. pc = "wait" /\ ack = "none" /\ Unowned(out) /\ Unowned(hand) /\ Single(inbound, Head(todo))
      BY <1>1, <1>5, <2>1 DEF SourceInv, AckInv, OneOwned
    <3>2. Unowned(Tail(inbound)) /\ Head(inbound).item = Head(todo)
      BY <1>1, <2>1, <3>1
    <3>3. ack' = IF Commit THEN "ok" ELSE "error"
      BY <2>1, <3>1 DEF Commit, CommitFails, Acknowledge, Fault, bounds
    <3> QED BY <1>3, <3>1, <3>2, <3>3 DEF SourceInv, AckInv, Commit, CommitFails, Busy
  <2>2. CASE ~Head(inbound).mine
    <3>1. UNCHANGED <<pc, ack, todo, out, hand>> /\ inbound' = Tail(inbound) /\ store \subseteq store'
      BY <1>3, <2>2 DEF Commit, CommitFails, Acknowledge
    <3> QED BY <1>1, <3>1 DEF SourceInv, AckInv, OneOwned, Busy
  <2> QED BY <2>1, <2>2
<1>7. UNCHANGED <<kind, pc, todo, mem, saved, dir, scan>> /\ store \subseteq store'
  BY <1>3 DEF Commit, CommitFails, spool
<1> QED BY <1>4, <1>6, <1>7, PlaceKept DEF SourceInv

LEMMA StepSend == ASSUME SourceInv, Send PROVE SourceInv'
<1> DEFINE r == [item |-> Head(todo), mine |-> kind \notin Forgetful]
<1>1. Head(todo) \in Item /\ Unowned(out) /\ Unowned(hand) /\ Unowned(inbound) /\ out \in Seq(Flight)
  BY HeadTodo DEF Send, Busy, SourceInv, AckInv, SourceTypeOK
<1>2. r \in Flight
  BY <1>1 DEF Flight
<1>3. /\ Append(out, r) \in Seq(Flight)
      /\ ~r.mine => Unowned(Append(out, r))
      /\ Single(Append(out, r), r.item)
  <2> HIDE DEF r
  <2> QED BY <1>1, <1>2, AppendOwned
<1>4. \A q \in Seq(Flight) : \A x : Unowned(q) => Single(q, x)
  BY DEF Unowned, Single
<1>5. out' = Append(out, r)
  BY DEF Send
<1>6. SourceTypeOK'
  <2>1. out' \in Seq(Flight)
    BY <1>3, <1>5
  <2>2. pc' \in Phase /\ todo' \in Seq(Item)
    <3>1. todo' \in {todo, <<>>} /\ pc' \in {"idle", "wait"}
      BY DEF Send
    <3>2. <<>> \in Seq(Item)
      BY EmptySeq
    <3> QED BY <3>1, <3>2 DEF SourceInv, SourceTypeOK, Phase
  <2>3. UNCHANGED <<kind, ctx, ack, mem, saved, dir, scan, dropped, main, hand, inbound, store, faults, cancels, restarts>>
    BY DEF Send, spool, bounds
  <2> QED BY <2>1, <2>2, <2>3 DEF SourceInv, SourceTypeOK
<1>7. CASE kind \in Forgetful
  <2>1. pc' = "idle" /\ ack' = "none" /\ Unowned(out') /\ Unowned(hand') /\ Unowned(inbound')
    BY <1>1, <1>3, <1>5, <1>7 DEF Send, SourceInv, AckInv
  <2>2. AckInv' /\ PositionInv'
    BY <2>1 DEF AckInv, PositionInv, Busy
  <2>3. CoveredInv' /\ ListingInv'
    BY <1>7 DEF Send, SourceInv, CoveredInv, ListingInv, Forgetful, CheckpointCovered, Busy, Covered, FirstRecords, spool
  <2> QED BY <1>6, <2>2, <2>3 DEF SourceInv
<1>8. CASE kind \notin Forgetful
  <2>1. pc' = "wait" /\ ack' = "none" /\ UNCHANGED <<kind, todo, hand, inbound, mem, saved, dir, scan, store>> /\ pc = "send"
    BY <1>8 DEF Send, SourceInv, AckInv, spool
  <2>2. AckInv'
    BY <1>1, <1>3, <1>4, <1>5, <2>1 DEF SourceInv, SourceTypeOK, AckInv, OneOwned, Busy
  <2>3. PositionInv'
    BY <2>1 DEF SourceInv, PositionInv, At, Busy, Covered, FirstRecords, Until
  <2>4. CoveredInv'
    BY <2>1 DEF SourceInv, CoveredInv, Covered, FirstRecords, Until, CheckpointCovered
  <2>5. ListingInv'
    BY <2>1 DEF SourceInv, ListingInv, Busy, Reading
  <2> QED BY <1>6, <2>2, <2>3, <2>4, <2>5 DEF SourceInv
<1> QED BY <1>7, <1>8

\* The adapter has given up or finished: nothing it waits for is in flight.
LEMMA Released ==
    ASSUME SourceInv, GiveUp
    PROVE  /\ out' \in Seq(Flight) /\ hand' \in Seq(Flight) /\ inbound' \in Seq(Flight)
           /\ Unowned(out)' /\ Unowned(hand)' /\ Unowned(inbound)' /\ ack' = "none"
BY ForgetOwned DEF SourceInv, SourceTypeOK, GiveUp

\* A batch begins at the position from.
LEMMA StepTake ==
    ASSUME SourceInv, NEW k \in {"poll", "kafka", "http"} \cup Syslog, NEW from \in 0 .. MaxRecord,
           NEW n \in Nat \ {0}, Take(k, from, n),
           k \in Checkpointed => Covered(from),
           k = "poll" => from = mem /\ mem' = mem /\ n = BatchSize,
           k = "kafka" => mem' = Until(from, n),
           k = "http" => mem' = from,
           k \in Syslog => from = mem /\ mem' = mem + 1 /\ n = 1
    PROVE  SourceInv'
<1>1. MaxRecord \in Nat /\ BatchSize \in Nat \ {0} /\ mem \in 0 .. MaxRecord
  BY SourcesAssumption DEF SourceInv, SourceTypeOK
<1>2. Until(from, n) \in 0 .. MaxRecord /\ from < Until(from, n) /\ (n = 1 => Until(from, n) = from + 1)
  BY <1>1 DEF Take, Until
<1>3. todo' = Run(None, from, Until(from, n))
  BY DEF Take, Between, Run
<1>4. todo' # <<>> /\ todo' \in Seq(Item)
  <2>1. todo' \in [1 .. Until(from, n) - from -> Item]
    BY <1>1, <1>2, <1>3 DEF Run, Item
  <2> QED BY <1>2, <2>1, LenIs
<1>5. mem' \in 0 .. MaxRecord
  BY <1>1, <1>2 DEF Syslog, Forgetful
<1>6. /\ pc' = "send" /\ kind = k /\ pc = "idle"
      /\ UNCHANGED <<kind, ctx, ack, saved, dir, scan, dropped, main, out, hand, inbound, store, faults, cancels, restarts>>
  BY DEF Take, spool, path, bounds
<1>7. SourceTypeOK'
  BY <1>4, <1>5, <1>6 DEF SourceInv, SourceTypeOK, Phase
<1>8. AckInv'
  BY <1>4, <1>6 DEF SourceInv, AckInv, Busy
<1>9. PositionInv'
  <2>1. At(None, from, Until(from, n))'
    <3>1. kind' = "poll" => Until(from, n) = Until(mem, BatchSize)'
      BY <1>6 DEF Until
    <3>2. kind' \in {"kafka"} \cup Syslog => Until(from, n) = mem'
      BY <1>2, <1>6 DEF Syslog, Forgetful
    <3>3. kind' # "file" /\ (kind' \in Checkpointed => Covered(from)')
      BY <1>6 DEF Syslog, Forgetful, Covered, FirstRecords
    <3>4. kind' \in Syslog => from + 1 = mem'
      BY <1>6
    <3>5. kind' = "http" => from = mem'
      BY <1>6
    <3> QED BY <1>1, <1>2, <1>3, <3>1, <3>2, <3>3, <3>4, <3>5 DEF At, Until
  <2>2. from \in Nat /\ Until(from, n) \in Nat
    BY <1>2
  <2> QED BY <2>1, <2>2 DEF PositionInv, Until
<1>10. CoveredInv'
  BY <1>6 DEF SourceInv, CoveredInv, Covered, FirstRecords, Until, CheckpointCovered, Checkpointed
<1>11. ListingInv'
  BY <1>6 DEF SourceInv, ListingInv, Busy, Syslog, Forgetful
<1> QED BY <1>7, <1>8, <1>9, <1>10, <1>11 DEF SourceInv

LEMMA StepBatch ==
    ASSUME SourceInv, PollOnce \/ KafkaPoll \/ Request \/ ReceiveUDP \/ ReceiveTCP \/ ReceiveTLS
    PROVE  SourceInv'
<1> USE SourcesAssumption DEF SourceInv, SourceTypeOK, CoveredInv, CheckpointCovered, Checkpointed, Syslog, Forgetful
<1>1. CASE PollOnce
  BY <1>1, StepTake DEF PollOnce, Take
<1>2. CASE KafkaPoll
  BY <1>2, StepTake DEF KafkaPoll, Take
<1>3. CASE Request
  BY <1>3, StepTake DEF Request, Take, Covered
<1>4. CASE ReceiveUDP
  BY <1>4, StepTake DEF ReceiveUDP
<1>5. CASE ReceiveTCP
  BY <1>5, StepTake DEF ReceiveTCP
<1>6. CASE ReceiveTLS
  BY <1>6, StepTake DEF ReceiveTLS
<1> QED BY <1>1, <1>2, <1>3, <1>4, <1>5, <1>6

\* Covered by the store up to i, and record i + 1 is in it too.
LEMMA CoverNext ==
    ASSUME NEW i \in Nat, Covered(i), <<None, i + 1>> \in store
    PROVE  Covered(i + 1)
<1>1. 1 .. i + 1 = (1 .. i) \cup {i + 1}
  OBVIOUS
<1> QED BY <1>1 DEF Covered, FirstRecords

\* Nobody waits any more and nothing is in flight that could answer.
LEMMA AckKept ==
    ASSUME SourceInv, ack' = "none", pc = "wait", ack # "none", UNCHANGED <<out, hand, inbound>>,
           pc' \in {"send", "wait"} => todo' # <<>>, pc' # "wait"
    PROVE  AckInv'
BY DEF SourceInv, AckInv, Busy

\* The place of the record that is acknowledged.
LEMMA AckedPlace ==
    ASSUME SourceInv, pc = "wait", ack = "ok"
    PROVE  \E a \in File \cup {None}, i \in Nat, j \in Nat :
              /\ At(a, i, j) /\ Head(todo) = <<a, i + 1>> /\ Rest = Run(a, i + 1, j)
              /\ <<a, i + 1>> \in store
              /\ (Rest # <<>>) <=> (i + 1 < j)
<1>1. PICK a \in File \cup {None}, i \in Nat, j \in Nat : At(a, i, j)
  BY DEF SourceInv, PositionInv, Busy
<1>2. Head(todo) = <<a, i + 1>> /\ Rest = Run(a, i + 1, j) /\ ((Rest # <<>>) <=> (i + 1 < j))
  <2>1. i < j /\ i + 1 \in Nat
    BY <1>1 DEF At
  <2>2. Head(Run(a, i, j)) = <<a, i + 1>> /\ Tail(Run(a, i, j)) = Run(a, i + 1, j)
    BY <2>1, RunProperties
  <2>3. (Run(a, i + 1, j) = <<>>) <=> (i + 1 >= j)
    BY <2>1, RunEmpty
  <2>4. Head(todo) = <<a, i + 1>> /\ Rest = Run(a, i + 1, j)
    BY <1>1, <2>2 DEF At, Rest
  <2>5. (i + 1 >= j) <=> ~(i + 1 < j)
    BY <2>1
  <2> QED BY <2>3, <2>4, <2>5
<1>3. Head(todo) \in store
  BY DEF SourceInv, AckInv
<1> QED BY <1>1, <1>2, <1>3

LEMMA StepRecordAcked ==
    ASSUME SourceInv, PollAcked \/ CommitOffset \/ LineAccepted
    PROVE  SourceInv'
<1>1. /\ pc = "wait" /\ ack = "ok" /\ kind \in Checkpointed /\ ack' = "none" /\ todo' = Rest
      /\ UNCHANGED <<kind, ctx, dir, scan, dropped, main, out, hand, inbound, store>>
      /\ pc' = (IF Rest # <<>> THEN "send" ELSE IF kind = "kafka" THEN "idle" ELSE "save") \/ (pc' = "dead" /\ kind = "kafka")
      /\ kind = "poll" => UNCHANGED <<mem, saved>>
      /\ kind = "kafka" => mem' = mem /\ saved' \in {saved, Head(todo)[2]}
      /\ kind = "http" => saved' = saved /\ mem' = Head(todo)[2]
      /\ faults' \in {faults, faults + 1} /\ UNCHANGED <<cancels, restarts>>
  BY DEF PollAcked, CommitOffset, LineAccepted, RecordAcked, Checkpointed, spool, path, bounds, Fault
<1>2. PICK a \in File \cup {None}, i \in Nat, j \in Nat :
              /\ At(a, i, j) /\ Head(todo) = <<a, i + 1>> /\ Rest = Run(a, i + 1, j)
              /\ <<a, i + 1>> \in store
              /\ (Rest # <<>>) <=> (i + 1 < j)
  BY <1>1, AckedPlace
<1>3. a = None /\ i < j /\ j <= MaxRecord /\ Covered(i) /\ Head(todo)[2] = i + 1
  BY <1>1, <1>2 DEF At, Checkpointed
<1>4. Covered(i + 1) /\ i + 1 \in 0 .. MaxRecord
  BY <1>2, <1>3, CoverNext, SourcesAssumption
<1>5. Rest \in Seq(Item)
  BY <1>1, HeadTodo DEF Busy
<1>6. SourceTypeOK'
  <2>1. mem' \in {mem, i + 1} /\ saved' \in {saved, i + 1}
    BY <1>1, <1>3 DEF Checkpointed
  <2>2. pc' \in Phase /\ faults' \in Nat
    BY <1>1 DEF SourceInv, SourceTypeOK, Phase
  <2>3. mem' \in 0 .. MaxRecord /\ saved' \in 0 .. MaxRecord
    BY <1>4, <2>1 DEF SourceInv, SourceTypeOK
  <2> QED BY <1>1, <1>5, <2>2, <2>3 DEF SourceInv, SourceTypeOK
<1>7. AckInv'
  BY <1>1, AckKept
<1>8. PositionInv'
  <2> SUFFICES ASSUME Busy' PROVE At(a, i + 1, j)'
    BY DEF PositionInv
  <2>1. Rest # <<>> /\ i + 1 < j
    BY <1>1, <1>2 DEF Busy
  <2>2. Covered(i + 1)'
    BY <1>1, <1>4 DEF Covered, FirstRecords
  <2>3. kind # "file" /\ kind \notin Syslog
    BY <1>1 DEF Checkpointed, Syslog, Forgetful
  <2> QED BY <1>1, <1>2, <1>3, <2>1, <2>2, <2>3 DEF At, Checkpointed, Until
<1>9. CoveredInv'
  <2>1. CheckpointCovered'
    BY <1>1, <1>3, <1>4 DEF SourceInv, CoveredInv, CheckpointCovered, Covered, FirstRecords, Checkpointed
  <2>2. kind \in {"poll", "http"} => Covered(mem)'
    BY <1>1, <1>3, <1>4 DEF SourceInv, CoveredInv, Covered, FirstRecords
  <2>3. Rest = <<>> => i + 1 = j
    BY <1>2, <1>3
  <2>4. kind = "poll" /\ pc' = "save" => Covered(Until(mem, BatchSize))'
    BY <1>1, <1>2, <1>4, <2>3 DEF At, Covered, FirstRecords, Until
  <2>5. kind = "kafka" /\ pc' = "idle" => Covered(mem)'
    BY <1>1, <1>2, <1>4, <2>3 DEF At, Covered, FirstRecords
  <2> QED BY <1>1, <2>1, <2>2, <2>4, <2>5 DEF CoveredInv
<1>10. ListingInv'
  BY <1>1 DEF SourceInv, ListingInv, Checkpointed
<1> QED BY <1>6, <1>7, <1>8, <1>9, <1>10 DEF SourceInv

\* The adapter of a numbered source stops work on its batch.
LEMMA BatchEnds ==
    ASSUME SourceInv, kind # "file",
           UNCHANGED <<kind, dir, scan, dropped, main, store, cancels, restarts>>,
           ctx' \in BOOLEAN, pc' \in {"idle", "down", "dead"}, ack' = "none",
           todo' \in Seq(Item), mem' \in 0 .. MaxRecord, saved' \in 0 .. MaxRecord, faults' \in Nat,
           out' \in Seq(Flight), hand' \in Seq(Flight), inbound' \in Seq(Flight),
           Unowned(out)', Unowned(hand)', Unowned(inbound)',
           Covered(saved'), kind = "kafka" /\ pc' = "idle" => Covered(mem'),
           kind \in {"poll", "http"} => Covered(mem')
    PROVE  SourceInv'
<1>1. SourceTypeOK'
  BY DEF SourceInv, SourceTypeOK, Phase
<1>2. AckInv' /\ PositionInv'
  BY DEF AckInv, PositionInv, Busy
<1>3. CoveredInv'
  BY DEF SourceInv, CoveredInv, Covered, FirstRecords, CheckpointCovered
<1>4. ListingInv'
  BY DEF SourceInv, ListingInv
<1> QED BY <1>1, <1>2, <1>3, <1>4 DEF SourceInv

LEMMA StepRefused ==
    ASSUME SourceInv, PollRefused \/ KafkaRefused \/ LineRejected \/ FrameAnswered
    PROVE  SourceInv'
<1>1. /\ pc = "wait" /\ ack # "none" /\ kind # "file" /\ ack' = "none" /\ todo' = <<>>
      /\ UNCHANGED <<kind, ctx, mem, dir, scan, dropped, main, out, hand, inbound, store, faults, cancels, restarts>>
      /\ pc' \in {"idle", "dead"} /\ (kind = "kafka" => pc' = "dead")
      /\ saved' = saved \/ (kind = "http" /\ saved' = mem)
  BY DEF PollRefused, KafkaRefused, LineRejected, FrameAnswered, RecordRefused, Accepted, spool, path, bounds
<1>2. /\ todo' \in Seq(Item) /\ ctx' \in BOOLEAN /\ mem' \in 0 .. MaxRecord /\ saved' \in 0 .. MaxRecord
      /\ faults' \in Nat /\ out' \in Seq(Flight) /\ hand' \in Seq(Flight) /\ inbound' \in Seq(Flight)
  BY <1>1 DEF SourceInv, SourceTypeOK
<1>3. Unowned(out)' /\ Unowned(hand)' /\ Unowned(inbound)'
  BY <1>1 DEF SourceInv, AckInv
<1>4. Covered(saved') /\ (kind \in {"poll", "http"} => Covered(mem'))
  BY <1>1 DEF SourceInv, CoveredInv, CheckpointCovered, Covered
<1> QED BY <1>1, <1>2, <1>3, <1>4, BatchEnds

LEMMA StepAckTimeout == ASSUME SourceInv, AckTimeout PROVE SourceInv'
<1>1. /\ kind = "http" /\ todo' = <<>> /\ pc' = "idle" /\ saved' \in {saved, mem} /\ GiveUp
      /\ UNCHANGED <<kind, ctx, mem, dir, scan, dropped, main, store, faults, cancels, restarts>>
  BY DEF AckTimeout, Accepted, spool, bounds
<1>2. /\ todo' \in Seq(Item) /\ ctx' \in BOOLEAN /\ mem' \in 0 .. MaxRecord /\ saved' \in 0 .. MaxRecord
      /\ faults' \in Nat
  BY <1>1 DEF SourceInv, SourceTypeOK
<1>3. Covered(saved') /\ Covered(mem')
  BY <1>1 DEF SourceInv, CoveredInv, CheckpointCovered, Covered
<1> QED BY <1>1, <1>2, <1>3, Released, BatchEnds

LEMMA StepSave == ASSUME SourceInv, SaveWatermark \/ Reply PROVE SourceInv'
<1>0. MaxRecord \in Nat /\ BatchSize \in Nat \ {0}
  BY SourcesAssumption
<1>1. /\ pc = "save" /\ kind \in {"poll", "http"} /\ pc' = "idle"
      /\ UNCHANGED <<kind, ctx, todo, ack, dir, scan, dropped, main, out, hand, inbound, store, cancels, restarts>>
      /\ kind = "poll" => mem' = Until(mem, BatchSize) /\ saved' \in {saved, 0, Until(mem, BatchSize)}
      /\ kind = "http" => mem' = mem /\ saved' = mem
      /\ faults' \in {faults, faults + 1}
  BY DEF SaveWatermark, Reply, BatchEnd, Accepted, spool, path, bounds, Fault
<1>2. Until(mem, BatchSize) \in 0 .. MaxRecord
  BY <1>0 DEF Until, SourceInv, SourceTypeOK
<1>3. ack' = "none" /\ Unowned(out)' /\ Unowned(hand)' /\ Unowned(inbound)'
  BY <1>1 DEF SourceInv, AckInv
<1>4. /\ todo' \in Seq(Item) /\ ctx' \in BOOLEAN /\ mem' \in 0 .. MaxRecord /\ saved' \in 0 .. MaxRecord
      /\ faults' \in Nat /\ out' \in Seq(Flight) /\ hand' \in Seq(Flight) /\ inbound' \in Seq(Flight)
  BY <1>0, <1>1, <1>2 DEF SourceInv, SourceTypeOK
<1>5. Covered(0)
  BY DEF Covered, FirstRecords
<1>6. Covered(saved') /\ Covered(mem')
  BY <1>1, <1>5 DEF SourceInv, CoveredInv, CheckpointCovered, Covered
<1> QED BY <1>1, <1>3, <1>4, <1>6, BatchEnds

LEMMA StepDrop == ASSUME SourceInv, NEW f \in File, Drop(f) PROVE SourceInv'
<1>1. /\ kind = "file" /\ dir["inbox"][NameOf[f]] = None /\ dropped' = dropped \cup {f}
      /\ dir' = [dir EXCEPT !["inbox"][NameOf[f]] = f]
      /\ UNCHANGED <<kind, pc, ctx, todo, ack, mem, saved, scan, main, out, hand, inbound, store, faults, cancels, restarts>>
  BY DEF Drop, path, bounds
<1>2. NameOf[f] \in Name /\ "inbox" \in Place /\ "processing" \in Place
  BY DEF Name, Place
<1>3. dir \in [Place -> [Name -> File \cup {None}]]
  BY DEF SourceInv, SourceTypeOK
<1>4. SourceTypeOK'
  <2>1. dir' \in [Place -> [Name -> File \cup {None}]] /\ dropped' \subseteq File
    BY <1>1, <1>2, <1>3 DEF SourceInv, SourceTypeOK
  <2> QED BY <1>1, <2>1 DEF SourceInv, SourceTypeOK
<1>5. AckInv'
  BY <1>1 DEF SourceInv, AckInv, Busy
<1>6. \A p \in Place, n \in Name : dir'[p][n] = IF p = "inbox" /\ n = NameOf[f] THEN f ELSE dir[p][n]
  BY <1>1, <1>2, <1>3
<1>7. PositionInv'
  <2> SUFFICES ASSUME Busy' PROVE PositionInv'
    BY DEF PositionInv
  <2>1. PICK a \in File \cup {None}, i \in Nat, j \in Nat : At(a, i, j)
    BY <1>1 DEF SourceInv, PositionInv, Busy
  <2>2. a \in File /\ NameOf[a] \in Name
    BY <1>1, <2>1 DEF At, Name
  <2>3. At(a, i, j)'
    BY <1>1, <1>2, <1>6, <2>1, <2>2 DEF At, Checkpointed, Syslog, Forgetful, Until
  <2> QED BY <2>3 DEF PositionInv
<1>8. CoveredInv'
  BY <1>1 DEF SourceInv, CoveredInv, Covered, FirstRecords, Until, CheckpointCovered
<1>9. ListingInv'
  <2>1. None \notin File /\ scan.names \subseteq Name /\ scan.of \in Place
    BY SourcesAssumption DEF SourceInv, SourceTypeOK, Place
  <2> QED BY <1>1, <1>2, <1>6, <2>1 DEF SourceInv, ListingInv, Busy, Reading
<1> QED BY <1>4, <1>5, <1>7, <1>8, <1>9 DEF SourceInv

LEMMA NamedThere ==
    ASSUME SourceInv, NEW p \in {"inbox", "processing"}
    PROVE  Named(p) \subseteq Name /\ \A n \in Named(p) : dir[p][n] # None
BY DEF Named

\* The listing changes while no file is being read.
LEMMA StepListing == ASSUME SourceInv, ScanInbox \/ Leave PROVE SourceInv'
<1>1. CASE ScanInbox
  <2>1. /\ kind = "file" /\ pc = "idle" /\ scan' = [of |-> "inbox", names |-> Named("inbox")]
        /\ UNCHANGED <<kind, pc, ctx, todo, ack, mem, saved, dir, dropped, main, out, hand, inbound, store, faults, cancels, restarts>>
    BY <1>1 DEF ScanInbox, path, bounds
  <2>2. SourceTypeOK'
    BY <2>1, NamedThere DEF SourceInv, SourceTypeOK
  <2>3. AckInv' /\ PositionInv'
    BY <2>1 DEF SourceInv, AckInv, PositionInv, Busy
  <2>4. CoveredInv'
    BY <2>1 DEF SourceInv, CoveredInv, Covered, FirstRecords, Until, CheckpointCovered
  <2>5. ListingInv'
    BY <2>1, NamedThere DEF SourceInv, ListingInv
  <2> QED BY <2>2, <2>3, <2>4, <2>5 DEF SourceInv
<1>2. CASE Leave
  <2>1. /\ pc \in {"idle", "dead"} /\ scan.names = {} /\ pc' = "down"
        /\ UNCHANGED <<kind, ctx, todo, ack, mem, saved, dir, scan, dropped, main, out, hand, inbound, store, faults, cancels, restarts>>
    BY <1>2 DEF Leave, spool, path, bounds
  <2>2. SourceTypeOK'
    BY <2>1 DEF SourceInv, SourceTypeOK, Phase
  <2>3. AckInv' /\ PositionInv'
    BY <2>1 DEF SourceInv, AckInv, PositionInv, Busy
  <2>4. CoveredInv'
    BY <2>1 DEF SourceInv, CoveredInv, Covered, FirstRecords, Until, CheckpointCovered
  <2>5. ListingInv'
    BY <2>1 DEF SourceInv, ListingInv
  <2> QED BY <2>2, <2>3, <2>4, <2>5 DEF SourceInv
<1> QED BY <1>1, <1>2

LEMMA StepTakeFile == ASSUME SourceInv, NEW n \in Name, TakeFile(n) PROVE SourceInv'
<1> PICK f : f = dir[scan.of][n]
  OBVIOUS
<1>1. /\ pc = "idle" /\ n \in scan.names /\ pc' = "send" /\ todo' = Content(f)
      /\ dir' = IF scan.of = "inbox" THEN [dir EXCEPT !["inbox"][n] = None, !["processing"][n] = f] ELSE dir
      /\ UNCHANGED <<kind, ctx, ack, mem, saved, scan, dropped, main, out, hand, inbound, store, faults, cancels, restarts>>
  BY DEF TakeFile, path, bounds
<1>2. dir \in [Place -> [Name -> File \cup {None}]] /\ scan.of \in {"inbox", "processing"} /\ scan.names \subseteq Name
  BY DEF SourceInv, SourceTypeOK
<1>3. {"inbox", "processing"} \subseteq Place
  BY DEF Place
<1>4. kind = "file" /\ f # None /\ NameOf[f] = n
  BY <1>1, <1>2, <1>3 DEF SourceInv, ListingInv, Busy
<1>5. f \in File
  BY <1>2, <1>3, <1>4
<1>6. \A p \in Place, m \in Name :
          dir'[p][m] = IF scan.of = "inbox" /\ m = n /\ p = "inbox" THEN None
                       ELSE IF scan.of = "inbox" /\ m = n /\ p = "processing" THEN f ELSE dir[p][m]
  BY <1>1, <1>2, <1>3
<1>7. dir' \in [Place -> [Name -> File \cup {None}]]
  BY <1>1, <1>2, <1>3, <1>5
<1>8. todo' = Run(f, 0, Lines) /\ Lines \in Nat \ {0}
  BY <1>1, SourcesAssumption DEF Content, Run
<1>9. todo' \in Seq(Item) /\ todo' # <<>> /\ Head(todo') = <<f, 1>>
  <2>1. todo' \in [1 .. Lines -> Item] /\ todo'[1] = <<f, 1>>
    BY <1>1, <1>5, <1>8 DEF Content, Item
  <2> QED BY <1>8, <2>1, LenIs
<1>10. SourceTypeOK'
  BY <1>1, <1>7, <1>9 DEF SourceInv, SourceTypeOK, Phase
<1>11. AckInv'
  BY <1>1, <1>9 DEF SourceInv, AckInv, Busy
<1>12. PositionInv'
  <2>1. dir'["processing"][NameOf[f]] = f
    BY <1>2, <1>3, <1>4, <1>6
  <2>2. kind' = "file" /\ kind' \notin {"kafka"} \cup Syslog /\ kind' \notin Checkpointed
    BY <1>1, <1>4 DEF Checkpointed, Syslog, Forgetful
  <2>3. 0 < Lines /\ 1 .. 0 = {}
    BY <1>8
  <2>4. At(f, 0, Lines)'
    BY <1>5, <1>8, <2>1, <2>2, <2>3 DEF At
  <2> QED BY <1>5, <1>8, <2>4 DEF PositionInv
<1>13. CoveredInv'
  BY <1>1, <1>4 DEF SourceInv, CoveredInv, Covered, FirstRecords, CheckpointCovered
<1>14. ListingInv'
  <2>1. Busy' /\ Reading' = f
    BY <1>1, <1>9 DEF Busy, Reading
  <2>2. \A m \in scan.names : m = n \/ dir'[scan.of][m] # None
    BY <1>1, <1>2, <1>3, <1>6 DEF SourceInv, ListingInv, Busy
  <2>3. \A p \in Place, m \in Name : dir'[p][m] # None => NameOf[dir'[p][m]] = m
    BY <1>4, <1>6 DEF SourceInv, ListingInv
  <2> QED BY <1>1, <1>4, <2>1, <2>2, <2>3 DEF ListingInv
<1> QED BY <1>10, <1>11, <1>12, <1>13, <1>14 DEF SourceInv

\* The file being read.
LEMMA ReadingFile ==
    ASSUME SourceInv, Busy, kind = "file"
    PROVE  /\ Reading \in File /\ NameOf[Reading] \in Name
           /\ dir["processing"][NameOf[Reading]] = Reading
           /\ Rest = <<>> /\ pc = "wait" /\ ack = "ok" => AllIn(Reading)
<1>1. PICK a \in File \cup {None}, i \in Nat, j \in Nat : At(a, i, j)
  BY DEF SourceInv, PositionInv
<1>2. a \in File /\ dir["processing"][NameOf[a]] = a /\ i < j /\ j = Lines /\ todo = Run(a, i, j)
      /\ \A l \in 1 .. i : <<a, l>> \in store
  BY <1>1 DEF At
<1>3. Head(todo) = <<a, i + 1>> /\ Rest = Run(a, i + 1, j)
  BY <1>2, RunProperties DEF Rest
<1>4. Reading = a
  BY <1>3 DEF Reading
<1>5. ASSUME Rest = <<>>, pc = "wait", ack = "ok" PROVE AllIn(Reading)
  <2>1. i + 1 >= j
    BY <1>2, <1>3, <1>5, RunEmpty
  <2>2. <<a, i + 1>> \in store
    BY <1>3, <1>5 DEF SourceInv, AckInv
  <2>3. i + 1 = Lines
    BY <1>2, <2>1
  <2> QED BY <1>2, <1>4, <2>2, <2>3 DEF AllIn
<1> QED BY <1>2, <1>4, <1>5 DEF Name

\* The watcher is done with a file, which it has moved or left in processing/.
LEMMA FileDone ==
    ASSUME SourceInv, Busy, kind = "file", NextFile(Reading), pc' = "idle", ack' = "none",
           NEW to \in {"processed", "failed"}, dir' = dir \/ dir' = Move(Reading, to),
           UNCHANGED <<kind, ctx, mem, saved, dropped, main, store, cancels, restarts>>,
           todo' \in Seq(Item), faults' \in Nat,
           out' \in Seq(Flight), hand' \in Seq(Flight), inbound' \in Seq(Flight),
           Unowned(out)', Unowned(hand)', Unowned(inbound)'
    PROVE  SourceInv'
<1> PICK f : f = Reading
  OBVIOUS
<1>1. f \in File /\ NameOf[f] \in Name /\ dir["processing"][NameOf[f]] = f
  BY ReadingFile
<1>2. dir \in [Place -> [Name -> File \cup {None}]] /\ scan \in [of : {"inbox", "processing"}, names : SUBSET Name]
  BY DEF SourceInv, SourceTypeOK
<1>3. {"inbox", "processing", "processed", "failed"} = Place
  BY DEF Place
<1>4. scan' \in [of : {"inbox", "processing"}, names : SUBSET Name]
  BY <1>2 DEF NextFile, Named
<1>5. dir' = dir \/ dir' = [dir EXCEPT !["processing"][NameOf[f]] = None, ![to][NameOf[f]] = f]
  BY DEF Move
<1>6. dir' \in [Place -> [Name -> File \cup {None}]]
  <2>1. CASE dir' = dir
    BY <1>2, <2>1
  <2>2. CASE dir' = [dir EXCEPT !["processing"][NameOf[f]] = None, ![to][NameOf[f]] = f]
    <3>1. f \in File \cup {None} /\ None \in File \cup {None} /\ to # "processing" /\ to \in Place /\ "processing" \in Place
      BY <1>1, <1>3
    <3>2. [dir EXCEPT !["processing"][NameOf[f]] = None] \in [Place -> [Name -> File \cup {None}]]
      BY <1>1, <1>2, <3>1
    <3> QED BY <1>1, <2>2, <3>1, <3>2
  <2> QED BY <1>5, <2>1, <2>2
<1>7. SourceTypeOK'
  BY <1>4, <1>6 DEF SourceInv, SourceTypeOK, Phase
<1>8. AckInv' /\ PositionInv'
  BY DEF AckInv, PositionInv, Busy
<1>9. CoveredInv'
  BY DEF SourceInv, CoveredInv, Covered, FirstRecords, CheckpointCovered
<1>10. ListingInv'
  <2>1. \A p \in Place, n \in Name :
            dir'[p][n] = dir[p][n] \/ (n = NameOf[f] /\ p = "processing" /\ dir'[p][n] = None)
                                  \/ (n = NameOf[f] /\ p = to /\ dir'[p][n] = f)
    BY <1>1, <1>2, <1>3, <1>5
  <2>2. \A p \in Place, n \in Name : dir'[p][n] # None => NameOf[dir'[p][n]] = n
    BY <2>1 DEF SourceInv, ListingInv
  <2>3. \A n \in Name : dir'["inbox"][n] = dir["inbox"][n]
    BY <1>3, <2>1
  <2>4. ASSUME NEW n \in scan'.names PROVE dir'[scan'.of][n] # None
    <3>1. CASE scan' = [of |-> "inbox", names |-> Named("inbox")]
      BY <2>3, <2>4, <3>1 DEF Named
    <3>2. CASE scan' = [scan EXCEPT !.names = scan.names \ {NameOf[f]}]
      <4>1. n \in scan.names /\ n # NameOf[f] /\ scan'.of = scan.of /\ n \in Name /\ scan.of \in Place
        BY <1>2, <1>3, <2>4, <3>2
      <4>2. dir[scan.of][n] # None
        BY <4>1 DEF SourceInv, ListingInv
      <4> QED BY <2>1, <4>1, <4>2
    <3> QED BY <3>1, <3>2 DEF NextFile
  <2> QED BY <2>2, <2>4 DEF ListingInv
<1> QED BY <1>7, <1>8, <1>9, <1>10 DEF SourceInv

\* The line is acknowledged, and more lines of the file follow.
LEMMA NextLine ==
    ASSUME SourceInv, LineAcked, Rest # <<>>
    PROVE  SourceInv'
<1>1. /\ pc = "wait" /\ ack = "ok" /\ kind = "file" /\ ack' = "none" /\ todo' = Rest /\ pc' = "send"
      /\ UNCHANGED <<kind, ctx, mem, saved, dir, scan, dropped, main, out, hand, inbound, store, faults, cancels, restarts>>
  BY DEF LineAcked, path, bounds
<1>2. PICK a \in File \cup {None}, i \in Nat, j \in Nat : At(a, i, j)
  BY <1>1 DEF SourceInv, PositionInv, Busy
<1>3. /\ a \in File /\ dir["processing"][NameOf[a]] = a /\ i < j /\ j = Lines /\ todo = Run(a, i, j)
      /\ \A l \in 1 .. i : <<a, l>> \in store
  BY <1>1, <1>2 DEF At
<1>4. Head(todo) = <<a, i + 1>> /\ Rest = Run(a, i + 1, j)
  BY <1>3, RunProperties DEF Rest
<1>5. i + 1 \in Nat /\ i + 1 < j
  <2>1. i + 1 \in Nat
    OBVIOUS
  <2>2. ~(i + 1 >= j)
    BY <1>4, <2>1, RunEmpty
  <2> QED BY <2>1, <2>2
<1>6. <<a, i + 1>> \in store /\ Rest \in Seq(Item)
  BY <1>1, <1>4, HeadTodo DEF SourceInv, AckInv, Busy
<1>7. Head(Rest) = <<a, (i + 1) + 1>>
  BY <1>4, <1>5, RunProperties
<1>8. SourceTypeOK'
  BY <1>1, <1>6 DEF SourceInv, SourceTypeOK, Phase
<1>9. AckInv'
  BY <1>1 DEF SourceInv, AckInv, Busy
<1>10. PositionInv'
  <2>1. \A l \in 1 .. i + 1 : <<a, l>> \in store
    BY <1>3, <1>6
  <2>2. kind' \notin {"kafka"} \cup Syslog /\ kind' \notin Checkpointed
    BY <1>1 DEF Checkpointed, Syslog, Forgetful
  <2>3. At(a, i + 1, j)'
    BY <1>1, <1>3, <1>4, <1>5, <2>1, <2>2 DEF At
  <2> QED BY <2>3 DEF PositionInv
<1>11. CoveredInv'
  BY <1>1 DEF SourceInv, CoveredInv, Covered, FirstRecords, CheckpointCovered
<1>12. ListingInv'
  <2>1. Reading' = Reading /\ Busy /\ Busy'
    BY <1>1, <1>4, <1>7 DEF Reading, Busy
  <2> QED BY <1>1, <2>1 DEF SourceInv, ListingInv
<1> QED BY <1>8, <1>9, <1>10, <1>11, <1>12 DEF SourceInv

\* The end of a file: all its lines acknowledged, a line refused or unreadable.
LEMMA StepFile == ASSUME SourceInv, LineAcked \/ LineRefused \/ ReadFails PROVE SourceInv'
<1>1. CASE LineAcked /\ Rest # <<>>
  BY <1>1, NextLine
<1>2. CASE (LineAcked /\ Rest = <<>>) \/ LineRefused \/ ReadFails
  <2>1. /\ Busy /\ kind = "file" /\ NextFile(Reading) /\ pc' = "idle" /\ todo' \in {<<>>, Rest}
        /\ UNCHANGED <<kind, ctx, mem, saved, dropped, main, store, cancels, restarts, out, hand, inbound>>
        /\ faults' \in {faults, faults + 1}
    BY <1>2 DEF LineAcked, LineRefused, ReadFails, Busy, path, bounds, Fault
  <2>2. ack' = "none" /\ Unowned(out)' /\ Unowned(hand)' /\ Unowned(inbound)'
    BY <1>2, <2>1 DEF LineAcked, LineRefused, ReadFails, SourceInv, AckInv
  <2>3. PICK to \in {"processed", "failed"} : dir' = dir \/ dir' = Move(Reading, to)
    BY <1>2 DEF LineAcked, LineRefused, ReadFails
  <2>4. /\ todo' \in Seq(Item) /\ faults' \in Nat
        /\ out' \in Seq(Flight) /\ hand' \in Seq(Flight) /\ inbound' \in Seq(Flight)
    <3>1. <<>> \in Seq(Item) /\ Rest \in Seq(Item)
      BY <2>1, HeadTodo
    <3>2. faults \in Nat /\ out \in Seq(Flight) /\ hand \in Seq(Flight) /\ inbound \in Seq(Flight)
      BY DEF SourceInv, SourceTypeOK
    <3>3. todo' \in Seq(Item)
      BY <2>1, <3>1
    <3>4. faults' \in Nat
      BY <2>1, <3>2
    <3> QED BY <2>1, <3>2, <3>3, <3>4
  <2> QED BY <2>1, <2>2, <2>3, <2>4, FileDone
<1> QED BY <1>1, <1>2

LEMMA StepInterrupt == ASSUME SourceInv, Interrupt PROVE SourceInv'
<1>1. /\ Busy /\ GiveUp /\ todo' = <<>> /\ todo' \in Seq(Item)
      /\ UNCHANGED <<kind, ctx, mem, dropped, main, store, faults, cancels, restarts>>
  BY DEF Interrupt, Interruptible, Busy, bounds
<1>2. /\ out' \in Seq(Flight) /\ hand' \in Seq(Flight) /\ inbound' \in Seq(Flight) /\ ack' = "none"
      /\ Unowned(out)' /\ Unowned(hand)' /\ Unowned(inbound)'
  BY <1>1, Released
<1>3. CASE kind = "file"
  <2>1. pc' = "idle" /\ dir' = dir /\ NextFile(Reading) /\ UNCHANGED saved
    BY <1>3 DEF Interrupt, Interrupted
  <2>2. faults' \in Nat
    BY <1>1 DEF SourceInv, SourceTypeOK
  <2> QED BY <1>1, <1>2, <1>3, <2>1, <2>2, FileDone
<1>4. CASE kind # "file"
  <2>1. pc' = "down" /\ UNCHANGED <<dir, scan>> /\ saved' \in {saved, mem} /\ (saved' # saved => kind = "http")
    BY <1>4 DEF Interrupt, Accepted
  <2>2. ctx' \in BOOLEAN /\ mem' \in 0 .. MaxRecord /\ saved' \in 0 .. MaxRecord /\ faults' \in Nat
    BY <1>1, <2>1 DEF SourceInv, SourceTypeOK
  <2>3. Covered(saved') /\ (kind \in {"poll", "http"} => Covered(mem'))
    BY <1>1, <2>1 DEF SourceInv, CoveredInv, CheckpointCovered, Covered
  <2> QED BY <1>1, <1>2, <1>4, <2>1, <2>2, <2>3, BatchEnds
<1> QED BY <1>3, <1>4

LEMMA StepStart == ASSUME SourceInv, Start PROVE SourceInv'
<1>1. /\ pc = "down" /\ pc' = "idle" /\ ctx' = TRUE /\ mem' \in {mem, saved} /\ (kind \notin Syslog => mem' = saved)
      /\ scan' \in {[of |-> "inbox", names |-> Named("inbox")], [of |-> "processing", names |-> Named("processing")]}
      /\ UNCHANGED <<kind, todo, ack, saved, dir, dropped, main, out, hand, inbound, store, faults, cancels, restarts>>
  BY DEF Start, Resumed, path, bounds
<1>2. scan' \in [of : {"inbox", "processing"}, names : SUBSET Name] /\ \A n \in scan'.names : dir[scan'.of][n] # None
  BY <1>1 DEF Named
<1>3. SourceTypeOK'
  BY <1>1, <1>2 DEF SourceInv, SourceTypeOK, Phase
<1>4. AckInv' /\ PositionInv'
  BY <1>1 DEF SourceInv, AckInv, PositionInv, Busy
<1>5. CoveredInv'
  BY <1>1 DEF SourceInv, CoveredInv, Covered, FirstRecords, CheckpointCovered, Syslog, Forgetful
<1>6. ListingInv'
  <2>1. kind # "file" => scan'.names = {}
    BY <1>1 DEF SourceInv, ListingInv, Named, Place
  <2> QED BY <1>1, <1>2, <2>1 DEF SourceInv, ListingInv
<1> QED BY <1>3, <1>4, <1>5, <1>6 DEF SourceInv

\* The context is cancelled, or the process goes on with its shutdown.
LEMMA StepShutdown == ASSUME SourceInv, Cancel \/ Shutdown PROVE SourceInv'
<1>1. /\ ctx' \in {ctx, FALSE} /\ cancels' \in {cancels, cancels + 1}
      /\ main' \in {main, "cancelled", "closed", "draining", "exited"}
      /\ UNCHANGED <<kind, pc, todo, ack, mem, saved, dir, scan, dropped, out, hand, inbound, store, faults, restarts>>
  BY DEF Cancel, Shutdown, spool, path, bounds
<1>2. SourceTypeOK'
  <2>1. ctx \in BOOLEAN /\ cancels \in Nat /\ main \in {"run", "cancelled", "closed", "draining", "exited"}
    BY DEF SourceInv, SourceTypeOK
  <2>2. ctx' \in BOOLEAN
    BY <1>1, <2>1
  <2>3. cancels' \in Nat
    BY <1>1, <2>1
  <2>4. main' \in {"run", "cancelled", "closed", "draining", "exited"}
    BY <1>1, <2>1
  <2> QED BY <1>1, <2>2, <2>3, <2>4 DEF SourceInv, SourceTypeOK
<1>3. AckInv'
  BY <1>1 DEF SourceInv, AckInv, Busy
<1> QED BY <1>1, <1>2, <1>3, PlaceKept DEF SourceInv

LEMMA StepRestart == ASSUME SourceInv, Restart PROVE SourceInv'
<1>0. <<>> \in Seq(Item) /\ <<>> \in Seq(Flight) /\ Unowned(<<>>) /\ 0 \in 0 .. MaxRecord /\ Covered(0)
  BY SourcesAssumption DEF Unowned, Covered, FirstRecords
<1>1. /\ pc' = "down" /\ ctx' = TRUE /\ main' = "run" /\ todo' = <<>> /\ ack' = "none" /\ scan' = NoScan
      /\ out' = <<>> /\ hand' = <<>> /\ inbound' = <<>> /\ saved' \in {saved, 0} /\ restarts' = restarts + 1
      /\ UNCHANGED <<kind, mem, dir, dropped, store, faults, cancels>>
  BY DEF Restart
<1>2. SourceTypeOK'
  BY <1>0, <1>1 DEF SourceInv, SourceTypeOK, Phase, NoScan
<1>3. AckInv' /\ PositionInv'
  BY <1>0, <1>1 DEF AckInv, PositionInv, Busy
<1>4. CoveredInv'
  BY <1>0, <1>1 DEF SourceInv, CoveredInv, Covered, FirstRecords, CheckpointCovered
<1>5. ListingInv'
  BY <1>1 DEF SourceInv, ListingInv, NoScan
<1> QED BY <1>2, <1>3, <1>4, <1>5 DEF SourceInv

LEMMA SourceInit == Init => SourceInv
<1> SUFFICES ASSUME Init PROVE SourceInv
  OBVIOUS
<1>0. <<>> \in Seq(Item) /\ <<>> \in Seq(Flight) /\ Unowned(<<>>) /\ 0 \in 0 .. MaxRecord /\ Covered(0)
  BY SourcesAssumption DEF Unowned, Covered, FirstRecords
<1>1. SourceTypeOK
  BY <1>0 DEF Init, SourceTypeOK, Phase, NoScan
<1>2. AckInv /\ PositionInv
  BY <1>0 DEF Init, AckInv, PositionInv, Busy
<1>3. CoveredInv
  BY <1>0 DEF Init, CoveredInv, Covered, FirstRecords, CheckpointCovered
<1>4. ListingInv
  BY DEF Init, ListingInv, NoScan
<1> QED BY <1>1, <1>2, <1>3, <1>4 DEF SourceInv

LEMMA SourceNext == SourceInv /\ [Next]_vars => SourceInv'
<1> SUFFICES ASSUME SourceInv, [Next]_vars PROVE SourceInv'
  OBVIOUS
<1>1. CASE UNCHANGED vars
  <2>1. UNCHANGED <<kind, pc, ctx, todo, ack, mem, saved, dir, scan, dropped, main, out, hand, inbound, store, faults, cancels, restarts>>
    BY <1>1 DEF vars, spool, path, bounds
  <2>2. SourceTypeOK'
    BY <2>1 DEF SourceInv, SourceTypeOK
  <2>3. AckInv'
    BY <2>1 DEF SourceInv, AckInv, Busy
  <2> QED BY <2>1, <2>2, <2>3, PlaceKept DEF SourceInv
<1>2. CASE Adapter
  BY <1>2, StepStart, StepSend, StepInterrupt, StepListing, StepBatch, StepRecordAcked, StepRefused, StepSave,
     StepFile, StepTakeFile DEF Adapter
<1>3. CASE Workers \/ CommitFails \/ DropRecord
  BY <1>3, StepConnect, StepSubmitWait, StepCommit, StepDropRecord DEF Workers
<1>4. CASE AckTimeout \/ ReadFails \/ Cancel \/ Shutdown \/ Restart
  BY <1>4, StepAckTimeout, StepFile, StepShutdown, StepRestart
<1>5. CASE \E f \in File : Drop(f)
  BY <1>5, StepDrop
<1> QED BY <1>1, <1>2, <1>3, <1>4, <1>5 DEF Next

\* No checkpoint (watermark file, Kafka offset, count in an HTTP reply) runs
\* ahead of the raw store: the adapter moves it only on an acknowledgement of
\* the record it waits for, and no late acknowledgement can be taken for that one.
THEOREM CheckpointsCovered == Spec => []CheckpointCovered
<1>1. SourceInv => CheckpointCovered
  BY DEF SourceInv, CoveredInv
<1> QED BY <1>1, SourceInit, SourceNext, PTL DEF Spec

-----------------------------------------------------------------------------
(* The spool. *)

\* No step moves a file over another one, or out of the three directories that
\* are looked at again before its lines are committed.
LEMMA SpoolNext ==
    ASSUME DistinctNames, SourceInv, SpoolKeepsFiles, [Next]_vars
    PROVE  SpoolKeepsFiles'
<1>1. dir \in [Place -> [Name -> File \cup {None}]] /\ dropped \subseteq File /\ scan.names \subseteq Name
      /\ scan.of \in {"inbox", "processing"} /\ None \notin File
  BY SourcesAssumption DEF SourceInv, SourceTypeOK
<1>2. {"inbox", "processing", "processed", "failed"} = Place /\ \A f \in File : NameOf[f] \in Name
  BY DEF Place, Name
<1>3. \A p \in Place, n \in Name, f \in File : NameOf[f] = n /\ dir[p][n] # None => dir[p][n] = f
  BY <1>1 DEF DistinctNames, SourceInv, ListingInv
<1>4. store \subseteq store'
  BY DEF Next, vars, Adapter, Workers, Connect, SubmitWait, Commit, CommitFails, DropRecord, AckTimeout, ReadFails, Drop,
         Cancel, Shutdown, Restart, Start, Send, Interrupt, Leave, PollOnce, PollAcked, PollRefused, SaveWatermark,
         KafkaPoll, CommitOffset, KafkaRefused, Request, LineAccepted, LineRejected, Reply, ReceiveUDP, ReceiveTCP,
         ReceiveTLS, FrameAnswered, ScanInbox, LineAcked, LineRefused, TakeFile, Take, RecordAcked, RecordRefused
<1>5. \A f : AllIn(f) => AllIn(f)'
  BY <1>4 DEF AllIn
<1>6. CASE UNCHANGED <<dir, dropped>>
  BY <1>5, <1>6 DEF SpoolKeepsFiles
<1>7. ASSUME NEW f \in File, Drop(f) PROVE SpoolKeepsFiles'
  <2>1. /\ dir["inbox"][NameOf[f]] = None /\ dropped' = dropped \cup {f}
        /\ dir' = [dir EXCEPT !["inbox"][NameOf[f]] = f]
    BY <1>7 DEF Drop
  <2>2. \A p \in Place, n \in Name : dir'[p][n] = IF p = "inbox" /\ n = NameOf[f] THEN f ELSE dir[p][n]
    BY <1>1, <1>2, <2>1
  <2> QED BY <1>1, <1>2, <1>5, <2>1, <2>2 DEF SpoolKeepsFiles
<1>8. ASSUME NEW n \in Name, TakeFile(n) PROVE SpoolKeepsFiles'
  <2> PICK f : f = dir[scan.of][n]
    OBVIOUS
  <2>1. /\ dir' = IF scan.of = "inbox" THEN [dir EXCEPT !["inbox"][n] = None, !["processing"][n] = f] ELSE dir
        /\ dropped' = dropped /\ pc = "idle" /\ n \in scan.names
    BY <1>8 DEF TakeFile
  <2>2. f # None /\ f \in File /\ NameOf[f] = n
    BY <1>1, <1>2, <2>1 DEF SourceInv, ListingInv, Busy
  <2>3. \A p \in Place, m \in Name :
            dir'[p][m] = IF scan.of = "inbox" /\ m = n /\ p = "inbox" THEN None
                         ELSE IF scan.of = "inbox" /\ m = n /\ p = "processing" THEN f ELSE dir[p][m]
    BY <1>1, <1>2, <2>1
  <2>4. \A m \in Name : dir'["processed"][m] = dir["processed"][m]
    BY <1>2, <2>3
  <2>5. ASSUME NEW g \in dropped, NEW p \in Place \ {"processed"}, dir[p][NameOf[g]] = g
        PROVE  \E q \in Place \ {"processed"} : dir'[q][NameOf[g]] = g
    <3>1. CASE NameOf[g] = n /\ scan.of = "inbox"
      <4>1. g = f
        BY <1>1, <2>2, <3>1 DEF DistinctNames
      <4>2. dir'["processing"][NameOf[g]] = g /\ "processing" \in Place \ {"processed"}
        BY <1>2, <2>3, <3>1, <4>1
      <4> QED BY <4>2
    <3>2. CASE ~(NameOf[g] = n /\ scan.of = "inbox")
      <4>1. dir'[p][NameOf[g]] = g
        BY <1>1, <1>2, <2>3, <2>5, <3>2
      <4> QED BY <4>1
    <3> QED BY <3>1, <3>2
  <2> QED BY <1>5, <2>1, <2>4, <2>5 DEF SpoolKeepsFiles
<1>9. ASSUME Busy, kind = "file", NEW to \in {"processed", "failed"}, dir' = Move(Reading, to), dropped' = dropped,
             to = "processed" => AllIn(Reading)
      PROVE  SpoolKeepsFiles'
  <2> PICK f : f = Reading
    OBVIOUS
  <2>1. f \in File /\ NameOf[f] \in Name /\ dir["processing"][NameOf[f]] = f
    BY <1>9, ReadingFile
  <2>2. dir' = [dir EXCEPT !["processing"][NameOf[f]] = None, ![to][NameOf[f]] = f]
    BY <1>9 DEF Move
  <2>3. \A p \in Place, n \in Name :
            dir'[p][n] = IF p = to /\ n = NameOf[f] THEN f
                         ELSE IF p = "processing" /\ n = NameOf[f] THEN None ELSE dir[p][n]
    BY <1>1, <1>2, <1>9, <2>1, <2>2
  <2>0. to = "processed" => AllIn(f)'
    BY <1>4, <1>9 DEF AllIn
  <2>4. ASSUME NEW n \in Name, dir'["processed"][n] # None PROVE (AllIn(dir["processed"][n]))'
    <3>1. PICK g : g = dir'["processed"][n]
      OBVIOUS
    <3>2. (g = f /\ to = "processed") \/ g = dir["processed"][n]
      BY <1>2, <2>3, <3>1
    <3>3. AllIn(g)'
      BY <1>4, <2>0, <2>4, <3>1, <3>2 DEF AllIn, SpoolKeepsFiles
    <3> QED BY <3>1, <3>3 DEF AllIn
  <2>5. ASSUME NEW g \in dropped PROVE AllIn(g)' \/ \E q \in Place \ {"processed"} : dir'[q][NameOf[g]] = g
    <3>1. CASE AllIn(g)
      BY <1>5, <3>1
    <3>2. CASE g = f /\ to = "failed"
      <4>1. dir'["failed"][NameOf[g]] = g /\ "failed" \in Place \ {"processed"}
        BY <1>2, <2>1, <2>3, <3>2
      <4> QED BY <4>1
    <3>3. CASE g # f
      <4>1. NameOf[g] # NameOf[f] /\ NameOf[g] \in Name
        BY <1>1, <1>2, <2>1, <3>3 DEF DistinctNames
      <4> QED BY <1>5, <2>3, <4>1 DEF SpoolKeepsFiles
    <3> QED BY <2>0, <3>1, <3>2, <3>3
  <2> QED BY <1>9, <2>4, <2>5 DEF SpoolKeepsFiles
<1>10. CASE LineAcked \/ LineRefused \/ ReadFails
  <2>1. Busy /\ kind = "file" /\ dropped' = dropped
    BY <1>10 DEF LineAcked, LineRefused, ReadFails, Busy
  <2>2. \/ dir' = dir
        \/ dir' = Move(Reading, "failed")
        \/ dir' = Move(Reading, "processed") /\ Rest = <<>> /\ pc = "wait" /\ ack = "ok"
    BY <1>10 DEF LineAcked, LineRefused, ReadFails
  <2>3. dir' = Move(Reading, "processed") /\ Rest = <<>> /\ pc = "wait" /\ ack = "ok" => AllIn(Reading)
    BY <2>1, ReadingFile
  <2> QED BY <1>6, <1>9, <2>1, <2>2, <2>3
<1>11. CASE UNCHANGED vars \/ Workers \/ CommitFails \/ DropRecord \/ AckTimeout \/ Cancel \/ Shutdown \/ Restart
  <2>1. UNCHANGED <<dir, dropped>>
    BY <1>11 DEF vars, Workers, Connect, SubmitWait, Commit, CommitFails, DropRecord, AckTimeout, Cancel, Shutdown, Restart, spool
  <2> QED BY <1>6, <2>1
<1>12. CASE Adapter /\ ~LineAcked /\ ~LineRefused /\ ~\E n \in Name : TakeFile(n)
  <2>1. UNCHANGED <<dir, dropped>>
    BY <1>12 DEF Adapter, Start, Send, Interrupt, Interrupted, Leave, PollOnce, PollAcked, PollRefused, SaveWatermark,
         KafkaPoll, CommitOffset, KafkaRefused, Request, LineAccepted, LineRejected, Reply, ReceiveUDP, ReceiveTCP,
         ReceiveTLS, FrameAnswered, ScanInbox, Take, RecordAcked, RecordRefused, spool
  <2> QED BY <1>6, <2>1
<1> QED BY <1>7, <1>8, <1>10, <1>11, <1>12 DEF Next, Adapter

\* When the producer does not use a name twice, a spooled file is in processed/
\* only with all its lines committed, and a file with an uncommitted line stays
\* where a later scan or an operator finds it, whatever is cancelled or crashes.
THEOREM SpoolKeeps == ASSUME DistinctNames PROVE Spec => []SpoolKeepsFiles
<1>1. Init => SpoolKeepsFiles
  BY DEF Init, SpoolKeepsFiles, Place
<1>2. SourceInv /\ SpoolKeepsFiles /\ [Next]_vars => SpoolKeepsFiles'
  BY SpoolNext
<1> QED BY <1>1, <1>2, SourceInit, SourceNext, PTL DEF Spec

-----------------------------------------------------------------------------
(* What a reconfiguration costs a syslog listener. *)

Items(q) == {q[i].item : i \in 1 .. Len(q)}
Sending == IF pc = "send" THEN {Head(todo)} ELSE {}
Kept == store \cup Items(out) \cup Items(hand) \cup Items(inbound) \cup Sending

\* A cancelled listener may still lose the record in its hands.
AtRisk == IF ~ctx /\ pc # "down" THEN 1 ELSE 0

LossInv ==
    kind \in Syslog /\ main = "run" /\ faults = 0 /\ restarts = 0
        => Cardinality(FirstRecords(mem) \ Kept) + AtRisk <= cancels

LEMMA ItemsJoin ==
    ASSUME NEW p \in Seq(Flight), NEW q \in Seq(Flight)
    PROVE  Items(p \o q) = Items(p) \cup Items(q)
<1>1. /\ p \o q \in Seq(Flight) /\ Len(p \o q) = Len(p) + Len(q)
      /\ \A i \in 1 .. Len(p) + Len(q) : (p \o q)[i] = IF i <= Len(p) THEN p[i] ELSE q[i - Len(p)]
      /\ Len(p) \in Nat /\ Len(q) \in Nat
  BY ConcatProperties, LenProperties
<1>2. \A i \in 1 .. Len(p) + Len(q) : i > Len(p) => i - Len(p) \in 1 .. Len(q)
  BY <1>1
<1>3. \A i \in 1 .. Len(q) : Len(p) + i \in 1 .. Len(p) + Len(q) /\ (p \o q)[Len(p) + i] = q[i]
  BY <1>1
<1>4. \A i \in 1 .. Len(p) : i \in 1 .. Len(p) + Len(q) /\ (p \o q)[i] = p[i]
  BY <1>1
<1>5. ASSUME NEW y \in Items(p \o q) PROVE y \in Items(p) \cup Items(q)
  <2>1. PICK i \in 1 .. Len(p) + Len(q) : y = (p \o q)[i].item
    BY <1>1, <1>5 DEF Items
  <2>2. CASE i <= Len(p)
    <3>1. i \in 1 .. Len(p) /\ y = p[i].item
      BY <1>1, <2>1, <2>2
    <3> QED BY <3>1 DEF Items
  <2>3. CASE i > Len(p)
    <3>1. i - Len(p) \in 1 .. Len(q) /\ y = q[i - Len(p)].item
      BY <1>1, <1>2, <2>1, <2>3
    <3> QED BY <3>1 DEF Items
  <2> QED BY <1>1, <2>2, <2>3
<1>6. ASSUME NEW y \in Items(p) PROVE y \in Items(p \o q)
  BY <1>1, <1>4, <1>6 DEF Items
<1>7. ASSUME NEW y \in Items(q) PROVE y \in Items(p \o q)
  BY <1>1, <1>3, <1>7 DEF Items
<1> QED BY <1>5, <1>6, <1>7

LEMMA ItemsAppend ==
    ASSUME NEW q \in Seq(Flight), NEW r \in Flight
    PROVE  Items(Append(q, r)) = Items(q) \cup {r.item}
<1>1. /\ Len(Append(q, r)) = Len(q) + 1 /\ Len(q) \in Nat
      /\ \A i \in 1 .. Len(q) : Append(q, r)[i] = q[i]
      /\ Append(q, r)[Len(q) + 1] = r
  BY AppendProperties, LenProperties
<1>2. 1 .. Len(q) + 1 = (1 .. Len(q)) \cup {Len(q) + 1}
  BY <1>1
<1> QED BY <1>1, <1>2 DEF Items

LEMMA ItemsTail ==
    ASSUME NEW q \in Seq(Flight), q # <<>>
    PROVE  Items(q) = Items(Tail(q)) \cup {Head(q).item}
<1>1. /\ Len(Tail(q)) = Len(q) - 1 /\ \A i \in 1 .. Len(Tail(q)) : Tail(q)[i] = q[i + 1]
      /\ Len(q) \in Nat \ {0} /\ Head(q) = q[1]
  BY HeadTailProperties, LenProperties, EmptySeq
<1>2. \A i \in 1 .. Len(q) : i = 1 \/ (i - 1 \in 1 .. Len(Tail(q)) /\ Tail(q)[i - 1] = q[i])
  BY <1>1
<1>3. \A i \in 1 .. Len(Tail(q)) : i + 1 \in 1 .. Len(q)
  BY <1>1
<1>4. Items(q) \subseteq Items(Tail(q)) \cup {Head(q).item}
  <2> SUFFICES ASSUME NEW i \in 1 .. Len(q) PROVE q[i].item \in Items(Tail(q)) \cup {Head(q).item}
    BY DEF Items
  <2>1. CASE i = 1
    BY <1>1, <2>1
  <2>2. CASE i # 1
    BY <1>2, <2>2 DEF Items
  <2> QED BY <2>1, <2>2
<1>5. Items(Tail(q)) \subseteq Items(q) /\ Head(q).item \in Items(q)
  BY <1>1, <1>3 DEF Items
<1> QED BY <1>4, <1>5

LEMMA ItemsForget == ASSUME NEW q \in Seq(Flight) PROVE Items(Forget(q)) = Items(q)
BY ForgetOwned DEF Items

LEMMA ItemsEmpty == Items(<<>>) = {} /\ \A r : Items(<<r>>) = {r.item}
BY DEF Items

\* The record a listener hands over is the last one it received.
LEMMA OneInHand ==
    ASSUME SourceInv, kind \in Syslog, Busy
    PROVE  todo = <<Head(todo)>> /\ Head(todo) = <<None, mem>> /\ mem > 0
<1>1. PICK a \in File \cup {None}, i \in Nat, j \in Nat : At(a, i, j)
  BY DEF SourceInv, PositionInv
<1>2. a = None /\ j = mem /\ i + 1 = mem /\ i < j /\ todo = Run(a, i, j)
  BY <1>1 DEF At, Syslog, Forgetful
<1>3. Head(todo) = <<None, mem>> /\ Tail(todo) = <<>>
  <2>1. Head(Run(a, i, j)) = <<a, i + 1>> /\ Tail(Run(a, i, j)) = Run(a, i + 1, j)
    BY <1>2, RunProperties
  <2>2. Run(a, i + 1, j) = <<>>
    BY <1>2, RunEmpty
  <2> QED BY <1>2, <2>1, <2>2
<1>4. todo \in Seq(Item) /\ todo # <<>>
  BY HeadTodo DEF SourceInv, SourceTypeOK
<1>5. Len(todo) = 1 /\ todo[1] = Head(todo)
  <2>1. Len(Tail(todo)) = Len(todo) - 1 /\ Len(todo) \in Nat
    BY <1>4, HeadTailProperties, LenProperties
  <2>2. Len(<<>>) = 0
    BY EmptySeq
  <2>3. Len(todo) - 1 = 0
    BY <1>3, <2>1, <2>2
  <2>4. todo[1] = Head(todo)
    BY <1>4, HeadTailProperties, LenProperties, EmptySeq
  <2> QED BY <2>1, <2>3, <2>4
<1>6. todo = <<Head(todo)>>
  BY <1>4, <1>5
<1> QED BY <1>2, <1>3, <1>6

\* InFlight, queue by queue.
LEMMA KeptInFlight ==
    ASSUME SourceInv, kind \in Syslog
    PROVE  Kept = store \cup InFlight
<1>1. out \in Seq(Flight) /\ hand \in Seq(Flight) /\ inbound \in Seq(Flight)
  BY DEF SourceInv, SourceTypeOK
<1>2. out \o hand \in Seq(Flight) /\ out \o hand \o inbound \in Seq(Flight)
  BY <1>1, JoinOwned
<1>3. Items(out \o hand \o inbound) = Items(out) \cup Items(hand) \cup Items(inbound)
  <2>1. Items(out \o hand) = Items(out) \cup Items(hand)
    BY <1>1, ItemsJoin
  <2>2. Items(out \o hand \o inbound) = Items(out \o hand) \cup Items(inbound)
    BY <1>1, <1>2, ItemsJoin
  <2> QED BY <2>1, <2>2
<1>4. {r.item : r \in Range(out \o hand \o inbound)} = Items(out \o hand \o inbound)
  <2>1. DOMAIN (out \o hand \o inbound) = 1 .. Len(out \o hand \o inbound)
    BY <1>2, LenProperties
  <2> QED BY <2>1 DEF Range, Items
<1>5. (IF pc = "send" THEN Range(todo) ELSE {}) = Sending
  <2>1. CASE pc = "send"
    <3>1. todo = <<Head(todo)>>
      BY <2>1, OneInHand DEF Busy
    <3>2. Range(<<Head(todo)>>) = {Head(todo)}
      BY DEF Range
    <3> QED BY <2>1, <3>1, <3>2 DEF Sending
  <2> QED BY <2>1 DEF Sending
<1> QED BY <1>3, <1>4, <1>5 DEF Kept, InFlight

LEMMA FirstFinite == ASSUME NEW n \in Nat, NEW S PROVE IsFiniteSet(FirstRecords(n) \ S)
<1>1. IsFiniteSet(1 .. n) /\ IsFiniteSet({None})
  <2>1. 1 \in Int /\ n \in Int
    OBVIOUS
  <2> QED BY <2>1, FS_Interval, FS_Singleton
<1>2. IsFiniteSet({None} \X (1 .. n))
  BY <1>1, FS_Product
<1> QED BY <1>2, FS_Difference DEF FirstRecords

LEMMA Bounded ==
    ASSUME NEW a \in Nat, NEW b \in Nat, b <= a, NEW c \in Nat, NEW d \in Nat,
           NEW r \in Int, NEW s \in Int, a + r <= c, s - d <= r - c
    PROVE  b + s <= d
OBVIOUS

\* No record is lost, and no risk appears but by a cancellation.
LEMMA NothingLost ==
    ASSUME SourceInv, LossInv, kind' = kind, main = "run", faults = 0, restarts = 0,
           mem' \in Nat, FirstRecords(mem') \ Kept' \subseteq FirstRecords(mem) \ Kept,
           cancels' \in Nat, AtRisk' - cancels' <= AtRisk - cancels
    PROVE  LossInv'
<1> SUFFICES ASSUME kind \in Syslog PROVE Cardinality(FirstRecords(mem') \ Kept') + AtRisk' <= cancels'
  BY DEF LossInv, FirstRecords
<1> DEFINE A == FirstRecords(mem) \ Kept
           B == FirstRecords(mem') \ Kept'
<1>1. mem \in Nat /\ cancels \in Nat
  BY SourcesAssumption DEF SourceInv, SourceTypeOK
<1>2. IsFiniteSet(A) /\ IsFiniteSet(B)
  BY <1>1, FirstFinite
<1>3. Cardinality(A) \in Nat /\ Cardinality(B) \in Nat /\ Cardinality(B) <= Cardinality(A)
  <2> HIDE DEF A, B
  <2>1. B \subseteq A
    BY DEF A, B
  <2> QED BY <1>2, <2>1, FS_Subset, FS_CardinalityType
<1>4. Cardinality(A) + AtRisk <= cancels
  BY DEF LossInv
<1>5. AtRisk \in Int /\ AtRisk' \in Int
  BY DEF AtRisk
<1> HIDE DEF A, B
<1>6. Cardinality(B) + AtRisk' <= cancels'
  <2>1. Cardinality(A) + AtRisk <= cancels
    BY <1>4
  <2> QED BY <1>1, <1>3, <1>5, <2>1, Bounded
<1> QED BY <1>6 DEF B

\* Steps of the queues and the workers: every record stays in a queue or gets
\* into the store.
LEMMA PathKeeps ==
    ASSUME SourceInv, kind \in Syslog, Send \/ Workers
    PROVE  Kept \subseteq Kept' /\ UNCHANGED <<mem, cancels, ctx>> /\ (pc' = "down" <=> pc = "down")
<1>1. out \in Seq(Flight) /\ hand \in Seq(Flight) /\ inbound \in Seq(Flight)
  BY DEF SourceInv, SourceTypeOK
<1>2. CASE Send
  <2>1. Head(todo) \in Item
    BY <1>2, HeadTodo DEF Send, Busy
  <2>2. [item |-> Head(todo), mine |-> kind \notin Forgetful] \in Flight
    BY <2>1 DEF Flight
  <2>3. Items(out') = Items(out) \cup {Head(todo)}
    <3>1. PICK r \in Flight : r.item = Head(todo) /\ out' = Append(out, r)
      BY <1>2, <2>2 DEF Send
    <3> QED BY <1>1, <3>1, ItemsAppend
  <2>4. Sending = {Head(todo)} /\ UNCHANGED <<hand, inbound, store, mem, cancels, ctx>> /\ pc = "send" /\ pc' # "down"
    BY <1>2 DEF Send, Sending, bounds
  <2> QED BY <2>3, <2>4 DEF Kept, Items
<1>3. CASE Connect
  <2>1. Items(out) = Items(Tail(out)) \cup {Head(out).item} /\ Items(<<Head(out)>>) = {Head(out).item} /\ Items(<<>>) = {}
    BY <1>1, <1>3, ItemsTail, ItemsEmpty DEF Connect
  <2>2. /\ out' = Tail(out) /\ hand = <<>> /\ hand' = <<Head(out)>>
        /\ UNCHANGED <<pc, todo, inbound, store, mem, cancels, ctx>>
    BY <1>3 DEF Connect, bounds
  <2>3. Items(out)' = Items(Tail(out)) /\ Items(hand)' = {Head(out).item} /\ Items(hand) = {}
    BY <2>1, <2>2 DEF Items
  <2>4. Items(inbound)' = Items(inbound) /\ Sending' = Sending
    BY <2>2 DEF Items, Sending
  <2> QED BY <2>1, <2>2, <2>3, <2>4 DEF Kept
<1>4. CASE SubmitWait
  <2>1. Items(inbound \o hand) = Items(inbound) \cup Items(hand) /\ Items(<<>>) = {}
    BY <1>1, ItemsJoin, ItemsEmpty
  <2>2. /\ inbound' = inbound \o hand /\ hand' = <<>>
        /\ UNCHANGED <<pc, todo, out, store, mem, cancels, ctx>>
    BY <1>4 DEF SubmitWait, bounds
  <2>3. Items(inbound)' = Items(inbound \o hand) /\ Items(out)' = Items(out) /\ Sending' = Sending
    BY <2>2 DEF Items, Sending
  <2> QED BY <2>1, <2>2, <2>3 DEF Kept
<1>5. CASE Commit
  <2>1. Items(inbound) = Items(Tail(inbound)) \cup {Head(inbound).item}
    BY <1>1, <1>5, ItemsTail DEF Commit
  <2>2. /\ inbound' = Tail(inbound) /\ store' = store \cup {Head(inbound).item}
        /\ UNCHANGED <<pc, todo, out, hand, mem, cancels, ctx>>
    BY <1>5 DEF Commit, bounds
  <2>3. Items(inbound)' = Items(Tail(inbound)) /\ Items(out)' = Items(out) /\ Items(hand)' = Items(hand) /\ Sending' = Sending
    BY <2>2 DEF Items, Sending
  <2> QED BY <2>1, <2>2, <2>3 DEF Kept
<1> QED BY <1>2, <1>3, <1>4, <1>5 DEF Workers

\* A frame or datagram is received.
LEMMA ReceiveKeeps ==
    ASSUME SourceInv, ReceiveUDP \/ ReceiveTCP \/ ReceiveTLS
    PROVE  /\ mem' \in Nat /\ FirstRecords(mem') \ Kept' \subseteq FirstRecords(mem) \ Kept
           /\ ctx /\ ctx' /\ UNCHANGED cancels
<1>1. /\ mem' = mem + 1 /\ ctx /\ ctx' /\ pc = "idle" /\ pc' = "send" /\ kind \in Syslog
      /\ UNCHANGED <<kind, out, hand, inbound, store, cancels>>
  BY DEF ReceiveUDP, ReceiveTCP, ReceiveTLS, Take, path, bounds, Syslog, Forgetful
<1>2. SourceInv'
  BY StepBatch
<1>3. Head(todo') = <<None, mem'>>
  <2>1. (kind \in Syslog /\ Busy)'
    BY <1>1 DEF Busy
  <2>2. PICK a \in File \cup {None}, i \in Nat, j \in Nat : At(a, i, j)'
    BY <1>2, <2>1 DEF SourceInv, PositionInv
  <2>3. a = None /\ j = mem' /\ i + 1 = mem' /\ i < j /\ todo' = Run(a, i, j)
    BY <2>1, <2>2 DEF At, Syslog, Forgetful
  <2> QED BY <2>3, RunProperties
<1>4. mem \in Nat
  BY SourcesAssumption DEF SourceInv, SourceTypeOK
<1>5. Kept' = Kept \cup {<<None, mem + 1>>}
  <2>1. Sending = {} /\ Sending' = {<<None, mem + 1>>}
    BY <1>1, <1>3 DEF Sending
  <2>2. Items(out)' = Items(out) /\ Items(hand)' = Items(hand) /\ Items(inbound)' = Items(inbound)
    BY <1>1 DEF Items
  <2> QED BY <1>1, <2>1, <2>2 DEF Kept
<1>6. 1 .. mem + 1 = (1 .. mem) \cup {mem + 1}
  BY <1>4
<1>7. FirstRecords(mem') \subseteq FirstRecords(mem) \cup {<<None, mem + 1>>}
  BY <1>1, <1>6 DEF FirstRecords
<1> QED BY <1>1, <1>4, <1>5, <1>7

\* The cancelled listener leaves its select: the record it was sending is gone,
\* and with it the risk.
LEMMA InterruptCosts ==
    ASSUME SourceInv, LossInv, Interrupt, kind \in Syslog, main = "run", faults = 0, restarts = 0
    PROVE  LossInv'
<1>1. /\ ~ctx /\ Busy /\ GiveUp /\ pc' = "down" /\ UNCHANGED <<kind, ctx, mem, main, store, cancels, faults, restarts>>
  BY DEF Interrupt, Interruptible, Busy, bounds, Syslog, Forgetful
<1>2. /\ Items(out)' = Items(out) /\ Items(hand)' = Items(hand) /\ Items(inbound)' = Items(inbound)
  <2>1. out \in Seq(Flight) /\ hand \in Seq(Flight) /\ inbound \in Seq(Flight)
    BY DEF SourceInv, SourceTypeOK
  <2>2. Items(Forget(out)) = Items(out) /\ Items(Forget(hand)) = Items(hand) /\ Items(Forget(inbound)) = Items(inbound)
    BY <2>1, ItemsForget
  <2>3. out' = Forget(out) /\ hand' = Forget(hand) /\ inbound' = Forget(inbound)
    BY <1>1 DEF GiveUp
  <2> QED BY <2>2, <2>3 DEF Items
<1>3. Kept \subseteq Kept' \cup {Head(todo)}
  BY <1>1, <1>2 DEF Kept, Sending
<1> DEFINE A == FirstRecords(mem) \ Kept
           B == FirstRecords(mem) \ Kept'
<1>4. mem \in Nat /\ cancels \in Nat
  BY SourcesAssumption DEF SourceInv, SourceTypeOK
<1>5. IsFiniteSet(A) /\ IsFiniteSet(B)
  BY <1>4, FirstFinite
<1>6. B \subseteq A \cup {Head(todo)}
  BY <1>3
<1>7. Cardinality(A) + 1 <= cancels
  BY <1>1 DEF LossInv, AtRisk, Busy
<1>8. Cardinality(A) \in Nat /\ Cardinality(B) \in Nat /\ Cardinality(B) <= Cardinality(A) + 1
  <2> HIDE DEF A, B
  <2>1. /\ IsFiniteSet(A \cup {Head(todo)})
        /\ Cardinality(A \cup {Head(todo)}) = IF Head(todo) \in A THEN Cardinality(A) ELSE Cardinality(A) + 1
    BY <1>5, FS_AddElement
  <2>2. Cardinality(B) <= Cardinality(A \cup {Head(todo)})
    BY <1>6, <2>1, FS_Subset
  <2>3. Cardinality(A) \in Nat /\ Cardinality(B) \in Nat
    BY <1>5, FS_CardinalityType
  <2> QED BY <2>1, <2>2, <2>3
<1>9. AtRisk' = 0
  BY <1>1 DEF AtRisk
<1>10. Cardinality(B) + 0 <= cancels
  <2> HIDE DEF A, B
  <2> QED BY <1>4, <1>7, <1>8
<1> QED BY <1>1, <1>9, <1>10 DEF LossInv, FirstRecords

LEMMA LossNext == ASSUME SourceInv, LossInv, [Next]_vars PROVE LossInv'
<1> SUFFICES ASSUME kind' \in Syslog, main' = "run", faults' = 0, restarts' = 0 PROVE LossInv'
  BY DEF LossInv
<1>1. mem \in Nat /\ cancels \in Nat /\ faults \in Nat /\ restarts \in Nat /\ ctx \in BOOLEAN
  BY SourcesAssumption DEF SourceInv, SourceTypeOK
<1>2. ~Restart /\ ~CommitFails /\ ~ReadFails /\ ~Shutdown /\ ~DropRecord
  BY <1>1 DEF Restart, CommitFails, ReadFails, Fault, Shutdown, DropRecord
<1>3. ASSUME NEW f \in File PROVE ~Drop(f)
  BY DEF Drop, Syslog, Forgetful
<1>4. ASSUME UNCHANGED <<kind, main, faults, restarts, mem, cancels>>, Kept \subseteq Kept',
             ctx' = ctx \/ ctx', pc' = "down" \/ pc # "down" \/ ctx'
      PROVE  LossInv'
  <2>1. FirstRecords(mem') \ Kept' \subseteq FirstRecords(mem) \ Kept
    BY <1>4
  <2>2. AtRisk' - cancels' <= AtRisk - cancels
    BY <1>1, <1>4 DEF AtRisk
  <2> QED BY <1>1, <1>4, <2>1, <2>2, NothingLost
<1>5. ASSUME UNCHANGED <<out, hand, inbound, store>>, pc # "send" PROVE Kept \subseteq Kept'
  BY <1>5 DEF Kept, Sending, Items
<1>6. CASE Send \/ Workers
  <2>1. UNCHANGED <<kind, main, faults, restarts>>
    BY <1>6 DEF Send, Workers, Connect, SubmitWait, Commit, bounds
  <2> QED BY <1>4, <1>6, <2>1, PathKeeps
<1>7. CASE ReceiveUDP \/ ReceiveTCP \/ ReceiveTLS
  <2>1. UNCHANGED <<kind, main, faults, restarts>>
    BY <1>7 DEF ReceiveUDP, ReceiveTCP, ReceiveTLS, Take, bounds
  <2>2. AtRisk' = 0 /\ AtRisk = 0 /\ cancels' \in Nat
    BY <1>1, <1>7, ReceiveKeeps DEF AtRisk
  <2>3. AtRisk' - cancels' <= AtRisk - cancels
    <3>1. cancels' = cancels /\ ctx /\ ctx'
      BY <1>7, ReceiveKeeps
    <3> QED BY <1>1, <3>1 DEF AtRisk
  <2> QED BY <1>7, <2>1, <2>2, <2>3, ReceiveKeeps, NothingLost
<1>8. CASE Interrupt
  BY <1>8, InterruptCosts DEF Interrupt, bounds
<1>9. CASE Start
  <2>1. UNCHANGED <<kind, main, faults, restarts, cancels, out, hand, inbound, store>> /\ ctx' /\ pc # "send"
    BY <1>9 DEF Start, path, bounds
  <2>2. mem' = mem
    BY <1>9 DEF Start
  <2> QED BY <1>4, <1>5, <2>1, <2>2
<1>10. CASE Leave \/ FrameAnswered
  <2>1. /\ UNCHANGED <<kind, main, faults, restarts, cancels, mem, out, hand, inbound, store, ctx>> /\ pc # "send"
        /\ pc # "down"
    BY <1>10 DEF Leave, FrameAnswered, path, bounds
  <2> QED BY <1>4, <1>5, <2>1
<1>11. CASE Cancel
  <2>1. /\ UNCHANGED <<kind, main, faults, restarts, mem, pc, todo, out, hand, inbound, store>> /\ cancels' = cancels + 1
        /\ ctx /\ ~ctx'
    BY <1>11 DEF Cancel, path
  <2>2. Kept' = Kept
    BY <2>1 DEF Kept, Sending, Items
  <2>4. AtRisk' - cancels' <= AtRisk - cancels /\ cancels' \in Nat
    BY <1>1, <2>1 DEF AtRisk
  <2> QED BY <1>1, <2>1, <2>2, <2>4, NothingLost
<1>12. CASE UNCHANGED vars
  <2>1. UNCHANGED <<kind, main, faults, restarts, mem, pc, todo, out, hand, inbound, store, cancels, ctx>>
    BY <1>12 DEF vars, path, bounds
  <2>2. Kept' = Kept
    BY <2>1 DEF Kept, Sending, Items
  <2> QED BY <1>4, <2>1, <2>2
<1>13. CASE AckTimeout \/ PollOnce \/ PollAcked \/ PollRefused \/ SaveWatermark \/ KafkaPoll \/ CommitOffset
            \/ KafkaRefused \/ Request \/ LineAccepted \/ LineRejected \/ Reply \/ ScanInbox \/ LineAcked \/ LineRefused
  BY <1>13 DEF AckTimeout, PollOnce, PollAcked, PollRefused, SaveWatermark, KafkaPoll, CommitOffset, KafkaRefused, Request,
       LineAccepted, LineRejected, Reply, ScanInbox, LineAcked, LineRefused, Take, RecordAcked, RecordRefused, Syslog, Forgetful
<1>14. ASSUME NEW n \in Name PROVE ~TakeFile(n)
  BY DEF TakeFile, SourceInv, ListingInv, Syslog, Forgetful
<1> QED BY <1>2, <1>3, <1>6, <1>7, <1>8, <1>9, <1>10, <1>11, <1>12, <1>13, <1>14 DEF Next, Adapter

\* A reconfiguration costs a syslog listener at most one record: the number of
\* records received and neither stored nor in flight never exceeds the number of
\* cancellations, as long as the process runs and no commit fails.
THEOREM PushLosesFew == Spec => []PushLosesAtMostOne
<1>1. Init => LossInv
  <2> SUFFICES ASSUME Init PROVE Cardinality(FirstRecords(mem) \ Kept) + AtRisk <= cancels
    BY DEF LossInv
  <2>1. FirstRecords(0) \ Kept = {} /\ AtRisk = 0 /\ mem = 0 /\ cancels = 0
    BY DEF Init, FirstRecords, AtRisk
  <2> QED BY <2>1, FS_EmptySet
<1>2. SourceInv /\ LossInv /\ [Next]_vars => LossInv'
  BY LossNext
<1>3. SourceInv /\ LossInv => PushLosesAtMostOne
  <2> SUFFICES ASSUME SourceInv, LossInv, kind \in Syslog, main = "run", faults = 0, restarts = 0
               PROVE  Cardinality(FirstRecords(mem) \ (store \cup InFlight)) <= cancels
    BY DEF PushLosesAtMostOne
  <2>1. Cardinality(FirstRecords(mem) \ Kept) + AtRisk <= cancels /\ AtRisk \in {0, 1}
    BY DEF LossInv, AtRisk
  <2>2. mem \in Nat /\ cancels \in Nat
    BY SourcesAssumption DEF SourceInv, SourceTypeOK
  <2>3. Cardinality(FirstRecords(mem) \ Kept) \in Nat
    BY <2>2, FirstFinite, FS_CardinalityType
  <2>4. Cardinality(FirstRecords(mem) \ Kept) <= cancels
    BY <2>1, <2>2, <2>3
  <2> QED BY <2>4, KeptInFlight
<1> QED BY <1>1, <1>2, <1>3, SourceInit, SourceNext, PTL DEF Spec

=============================================================================
