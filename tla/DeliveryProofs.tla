---------------------------- MODULE DeliveryProofs ----------------------------
(***************************************************************************)
(* Delivery, for any events and destinations and any number of             *)
(* configuration changes, faults and crashes: a row is marked delivered    *)
(* only when its event is durable (DeliveryDurable) and, for a Parquet     *)
(* destination, named by the manifest (DeliveryListed).                    *)
(***************************************************************************)
EXTENDS Delivery, FiniteSetTheorems, SequenceTheorems, TLAPS

-----------------------------------------------------------------------------
(* The inductive invariant. *)

Row == [event : Event, dest : Dest, status : Status, due : BOOLEAN]
Instance == [closed : BOOLEAN, broken : BOOLEAN, buf : SUBSET Event, batch : SUBSET Event,
             lock : Holder, seen : SUBSET (Event \X Dest), wrote : BOOLEAN]
AtSink == {"emit", "flush", "lock", "sending"}
Steps == AtSink \cup {"idle", "lookup", "ack", "nack"}

TypeOK ==
    /\ kind \in [Dest -> Kind] /\ outbox \in Seq(Row) /\ sink \in [Sink -> Instance]
    /\ received \subseteq Event \X Dest /\ listed \subseteq Event \X Dest
    /\ work = [pc |-> work.pc, batch |-> work.batch, at |-> work.at]
    /\ work.pc \in Steps /\ work.batch \in Seq(Nat)
    /\ replaces \in Nat /\ replaces <= MaxReplace
    /\ closing \subseteq Sink /\ contested \subseteq Dest

\* The active map: main's own sinks, and connection sinks of an earlier or
\* the last configuration.
LiveOK ==
    /\ live = [d \in DOMAIN live |-> live[d]]
    /\ Static \subseteq DOMAIN live /\ DOMAIN live \subseteq Dest
    /\ \A d \in DOMAIN live : live[d] \in 0 .. replaces
    /\ \A d \in Static : live[d] = 0

Live(s) == s[1] \in DOMAIN live /\ live[s[1]] = s[2]

\* One sink instance: flushMu is held while a batch is in flight, by whom it
\* can be; an active sink is open; a sink of a later configuration is unused;
\* a replaced sink that was idle holds nothing.
SinkOK(s) ==
    /\ sink[s].lock = "nobody" <=> sink[s].batch = {}
    /\ sink[s].lock = "delivery" => work.pc = "sending" /\ work.at = s
    /\ sink[s].lock = "loop" => kind[s[1]] = "http"
    /\ sink[s].lock = "close" => ~Live(s)
    /\ sink[s].lock # "nobody" => kind[s[1]] \in Buffered
    /\ sink[s].wrote => sink[s].lock # "nobody" /\ kind[s[1]] = "parquet"
    /\ sink[s].wrote /\ s[1] \notin contested => sink[s].seen = ListedAt(s[1])
    /\ \A x \in sink[s].seen : x[2] = s[1]
    /\ s \in closing => ~Live(s) /\ s[2] <= replaces
    /\ s \in closing /\ sink[s].closed => kind[s[1]] \in Buffered
    /\ Live(s) => ~sink[s].closed
    /\ s[2] > replaces => sink[s] = Fresh
    /\ ~Live(s) /\ s[1] \notin contested => sink[s].buf = {} /\ sink[s].batch = {}

\* x has arrived for good, or its destination lost the guarantee.
Durable(x) ==
    \/ x \in received /\ (kind[x[2]] = "parquet" => x \in listed)
    \/ kind[x[2]] \in {"ndjson", "parquet"} /\ x[2] \in contested

\* deliverPending is at a row of the outbox, at a sink of its destination,
\* and its event is in the sink or has arrived.
WorkOK ==
    /\ work.pc # "idle" => work.batch # <<>>
    /\ \A i \in DOMAIN work.batch : work.batch[i] \in DOMAIN outbox
    /\ work.pc \in AtSink =>
          /\ work.at \in Sink /\ work.at[1] = Current.dest /\ work.at[2] <= replaces
          /\ Live(work.at) \/ Current.dest \in contested
    /\ work.pc \in {"lock", "sending"} => kind[Current.dest] \in Buffered
    /\ work.pc = "flush" => kind[Current.dest] # "direct"
    /\ work.pc \in {"flush", "lock"} =>
          Durable(Target) \/ Current.event \in sink[work.at].buf \cup sink[work.at].batch
    /\ work.pc = "sending" =>
          /\ sink[work.at].lock = "delivery"
          /\ Durable(Target) \/ Current.event \in sink[work.at].batch
    /\ work.pc = "ack" => Durable(Target)

RowsOK == \A i \in DOMAIN outbox : outbox[i].status = "delivered" => Durable(<<outbox[i].event, outbox[i].dest>>)

DeliveryInv == TypeOK /\ LiveOK /\ (\A s \in Sink : SinkOK(s)) /\ WorkOK /\ RowsOK

-----------------------------------------------------------------------------
(* Values. *)

LEMMA RowSequence ==
  ASSUME NEW q \in Seq(Row), NEW i \in DOMAIN q, NEW r \in Row
  PROVE  /\ [q EXCEPT ![i] = r] \in Seq(Row) /\ DOMAIN [q EXCEPT ![i] = r] = DOMAIN q
         /\ \A j \in DOMAIN q : [q EXCEPT ![i] = r][j] = IF j = i THEN r ELSE q[j]
  OBVIOUS

LEMMA SinkPair ==
  ASSUME NEW s \in Sink
  PROVE  s = <<s[1], s[2]>> /\ s[1] \in Dest /\ s[2] \in Nat /\ s[2] <= MaxReplace
  BY DeliveryAssumption DEF Sink, Gen

LEMMA SinkIs ==
  ASSUME NEW d \in Dest, NEW g \in Nat, g <= MaxReplace
  PROVE  <<d, g>> \in Sink
  BY DeliveryAssumption DEF Sink, Gen

\* SetToSeq lists a finite set.
LEMMA SetToSeqType ==
  ASSUME NEW S, IsFiniteSet(S)
  PROVE  SetToSeq(S) \in Seq(S)
<1>1. PICK f \in [1 .. Cardinality(S) -> S] : \A a, b \in 1 .. Cardinality(S) : f[a] = f[b] => a = b
    BY FS_CardinalityType DEF ExistsBijection, Bijection, Injection, Surjection, IsInjective
<1>2. \E g \in [1 .. Cardinality(S) -> S] : IsInjective(g)
    BY <1>1 DEF IsInjective
<1>3. SetToSeq(S) \in [1 .. Cardinality(S) -> S]
    BY <1>2 DEF SetToSeq
<1> QED BY <1>3, FS_CardinalityType

\* The rows of one event, listed.
LEMMA NewRows ==
  ASSUME NEW e \in Event, NEW D \in SUBSET Dest
  PROVE  SetToSeq({[event |-> e, dest |-> d, status |-> "pending", due |-> TRUE] : d \in D})
             \in Seq({r \in Row : r.status = "pending"})
<1> DEFINE row(d) == [event |-> e, dest |-> d, status |-> "pending", due |-> TRUE]
           T == {row(d) : d \in D}
           f == [d \in D |-> row(d)]
<1>1. IsFiniteSet(D)
    BY FS_Subset, DeliveryAssumption DEF Dest
<1>2. f \in Surjection(D, T)
    BY DEF Surjection
<1>3. IsFiniteSet(T)
    BY <1>1, <1>2, FS_Surjection DEF ExistsSurjection
<1>4. T \subseteq {r \in Row : r.status = "pending"}
  <2>1. ASSUME NEW d \in D PROVE row(d) \in Row /\ row(d).status = "pending"
      BY DEF Row, Status
  <2> HIDE DEF row
  <2> QED BY <2>1
<1> HIDE DEF T
<1>5. SetToSeq(T) \in Seq(T)
    BY <1>3, SetToSeqType
<1>6. SetToSeq(T) \in Seq({r \in Row : r.status = "pending"})
    BY <1>4, <1>5
<1> QED BY <1>6 DEF T

-----------------------------------------------------------------------------
(* What steps leave alone. *)

\* What has arrived stays, outside the contested destinations.
Grows ==
    /\ kind' = kind /\ received \subseteq received' /\ contested \subseteq contested'
    /\ \A x \in listed : x \in listed' \/ (kind[x[2]] = "parquet" /\ x[2] \in contested')

\* Rows keep their event and destination.
Kept ==
    \A i \in DOMAIN outbox :
        i \in DOMAIN outbox' /\ outbox'[i].event = outbox[i].event /\ outbox'[i].dest = outbox[i].dest

\* No row becomes delivered.
NoneDelivered ==
    \A i \in DOMAIN outbox' : outbox'[i].status = "delivered" =>
        i \in DOMAIN outbox /\ outbox[i].status = "delivered"

\* The configuration stays.
Steady == kind' = kind /\ live' = live /\ replaces' = replaces /\ contested' = contested

LEMMA DurableKeeps ==
  ASSUME Grows, NEW x, Durable(x)
  PROVE  Durable(x)'
  BY DEF Grows, Durable

LEMMA RowsKeep ==
  ASSUME RowsOK, Kept, Grows, NoneDelivered
  PROVE  RowsOK'
<1>1. ASSUME NEW i \in DOMAIN outbox', outbox'[i].status = "delivered"
      PROVE  Durable(<<outbox[i].event, outbox[i].dest>>)'
  <2> PICK x : x = <<outbox[i].event, outbox[i].dest>>
      OBVIOUS
  <2>1. i \in DOMAIN outbox /\ outbox[i].status = "delivered" /\ x = <<outbox[i].event, outbox[i].dest>>'
      BY <1>1 DEF NoneDelivered, Kept
  <2>2. Durable(x)
      BY <2>1 DEF RowsOK
  <2>3. Durable(x)'
      BY <2>2, DurableKeeps
  <2> QED BY <2>1, <2>3 DEF Durable
<1> QED BY <1>1 DEF RowsOK

\* The row that deliverPending is at.
LEMMA CurrentRow ==
  ASSUME TypeOK, WorkOK, work.pc # "idle"
  PROVE  /\ Head(work.batch) \in DOMAIN outbox /\ Current \in Row /\ 1 \in DOMAIN work.batch
         /\ Current.event \in Event /\ Current.dest \in Dest /\ Target \in Event \X Dest
         /\ kind[Current.dest] \in Kind /\ Target[2] = Current.dest /\ Target[1] = Current.event
<1>1. work.batch \in Seq(Nat) /\ work.batch # <<>>
    BY DEF TypeOK, WorkOK
<1>2. 1 \in DOMAIN work.batch /\ Head(work.batch) = work.batch[1]
    BY <1>1
<1>3. Head(work.batch) \in DOMAIN outbox
    BY <1>2 DEF WorkOK
<1>4. Current \in Row
    BY <1>3 DEF TypeOK, Current
<1> QED BY <1>2, <1>3, <1>4 DEF TypeOK, Row, Target

LEMMA SameTarget ==
  ASSUME TypeOK, WorkOK, work.pc # "idle", Kept, work'.batch = work.batch
  PROVE  Current'.event = Current.event /\ Current'.dest = Current.dest /\ Target' = Target
<1>1. Head(work.batch) \in DOMAIN outbox
    BY CurrentRow
<1>2. Current'.event = Current.event /\ Current'.dest = Current.dest
    BY <1>1 DEF Kept, Current
<1> QED BY <1>2 DEF Target

\* A sink that the step does not touch.
LEMMA SinkKeeps ==
  ASSUME TypeOK, NEW s \in Sink, SinkOK(s), sink'[s] = sink[s], Steady, closing' \subseteq closing,
         sink[s].lock = "delivery" => work'.pc = "sending" /\ work'.at = s,
         sink[s].wrote /\ s[1] \notin contested => ListedAt(s[1])' = ListedAt(s[1])
  PROVE  SinkOK(s)'
  BY DEF SinkOK, Steady, Live, Fresh

LEMMA SinksKeep ==
  ASSUME DeliveryInv, sink' = sink, Steady, closing' \subseteq closing, listed' = listed,
         work' = work \/ work.pc # "sending"
  PROVE  LiveOK' /\ (\A s \in Sink : SinkOK(s))'
<1>1. LiveOK'
    BY DEF DeliveryInv, LiveOK, Steady
<1>2. ASSUME NEW s \in Sink PROVE SinkOK(s)'
  <2>1. TypeOK /\ SinkOK(s)
      BY DEF DeliveryInv
  <2>2. sink[s].lock = "delivery" => work'.pc = "sending" /\ work'.at = s
      BY <2>1 DEF SinkOK
  <2>3. ListedAt(s[1])' = ListedAt(s[1])
      BY DEF ListedAt
  <2> QED BY <2>1, <2>2, <2>3, SinkKeeps
<1> QED BY <1>1, <1>2

\* deliverPending goes on with the row it is at.
LEMMA WorkStep ==
  ASSUME TypeOK, WorkOK, work.pc # "idle", work'.batch = work.batch, Kept, kind' = kind,
         NEW x, x = Target, NEW s, s = work'.at,
         work'.pc \in AtSink => s \in Sink /\ s[1] = x[2] /\ s[2] <= replaces' /\ (Live(s)' \/ x[2] \in contested'),
         work'.pc \in {"lock", "sending"} => kind[x[2]] \in Buffered,
         work'.pc = "flush" => kind[x[2]] # "direct",
         work'.pc \in {"flush", "lock"} => Durable(x)' \/ x[1] \in sink'[s].buf \cup sink'[s].batch,
         work'.pc = "sending" => sink'[s].lock = "delivery" /\ (Durable(x)' \/ x[1] \in sink'[s].batch),
         work'.pc = "ack" => Durable(x)'
  PROVE  WorkOK'
<1>1. Current'.event = x[1] /\ Current'.dest = x[2] /\ Target' = x
    BY SameTarget, CurrentRow
<1>2. \A i \in DOMAIN work'.batch : work'.batch[i] \in DOMAIN outbox'
    BY DEF WorkOK, Kept
<1>3. work'.batch # <<>>
    BY DEF WorkOK
<1>4. Durable(x)' => Durable(Target)'
    BY <1>1 DEF Durable
<1> QED BY <1>1, <1>2, <1>3, <1>4 DEF WorkOK

\* What is known of the row that deliverPending is at.
LEMMA WorkFacts ==
  ASSUME TypeOK, WorkOK, work.pc # "idle", NEW x, x = Target, NEW s, s = work.at
  PROVE  /\ x \in Event \X Dest /\ x[1] = Current.event /\ x[2] = Current.dest /\ x = <<x[1], x[2]>>
         /\ work.pc \in AtSink => s \in Sink /\ s[1] = x[2] /\ s[2] <= replaces /\ (Live(s) \/ x[2] \in contested)
         /\ work.pc \in {"lock", "sending"} => kind[x[2]] \in Buffered
         /\ work.pc = "flush" => kind[x[2]] # "direct"
         /\ work.pc \in {"flush", "lock"} => Durable(x) \/ x[1] \in sink[s].buf \cup sink[s].batch
         /\ work.pc = "sending" => sink[s].lock = "delivery" /\ (Durable(x) \/ x[1] \in sink[s].batch)
         /\ work.pc = "ack" => Durable(x)
<1>1. x \in Event \X Dest /\ x[1] = Current.event /\ x[2] = Current.dest
    BY CurrentRow
<1> QED BY <1>1 DEF WorkOK

\* The step leaves deliverPending and the sink it is at.
LEMMA WorkKeeps ==
  ASSUME TypeOK, WorkOK, work' = work, Kept, Grows, Steady,
         work.pc \in AtSink => sink'[work.at] = sink[work.at]
  PROVE  WorkOK'
<1>1. CASE work.pc = "idle"
    BY <1>1 DEF WorkOK, Kept, AtSink
<1>2. CASE work.pc # "idle"
  <2> PICK x : x = Target
      OBVIOUS
  <2> PICK s : s = work'.at
      OBVIOUS
  <2>1. Durable(x) => Durable(x)'
      BY DurableKeeps
  <2>2. work.pc \in AtSink => sink'[s] = sink[s] /\ (Live(s)' <=> Live(s))
      BY DEF Live, Steady
  <2> QED BY <1>2, <2>1, <2>2, WorkStep, WorkFacts DEF AtSink, Steady
<1> QED BY <1>1, <1>2

\* deliverPending is done with a row.
LEMMA NextRowOK ==
  ASSUME TypeOK, WorkOK, work.pc # "idle", NextRow, Kept
  PROVE  /\ WorkOK'
         /\ work' = [pc |-> work'.pc, batch |-> work'.batch, at |-> work'.at]
         /\ work'.pc \in Steps /\ work'.batch \in Seq(Nat)
<1> PICK b : b = work.batch
    OBVIOUS
<1>1. b \in Seq(Nat) /\ b # <<>> /\ \A i \in DOMAIN b : b[i] \in DOMAIN outbox
    BY DEF TypeOK, WorkOK
<1> PICK rest : rest = Tail(b)
    OBVIOUS
<1>2. rest \in Seq(Nat) /\ \A i \in DOMAIN rest : rest[i] \in DOMAIN outbox'
  <2>1. rest \in Seq(Nat) /\ \A i \in DOMAIN rest : i + 1 \in DOMAIN b /\ rest[i] = b[i + 1]
      BY <1>1, HeadTailProperties
  <2> QED BY <1>1, <2>1 DEF Kept
<1>3. CASE rest = <<>>
  <2>1. work' = [pc |-> "idle", batch |-> <<>>, at |-> Nowhere]
      BY <1>3 DEF NextRow, Idle
  <2> QED BY <2>1 DEF WorkOK, Steps, AtSink
<1>4. CASE rest # <<>>
  <2>1. work' = [pc |-> "lookup", batch |-> rest, at |-> Nowhere]
      BY <1>4 DEF NextRow, Idle
  <2> QED BY <1>2, <1>4, <2>1 DEF WorkOK, Steps, AtSink
<1> QED BY <1>3, <1>4

LEMMA GotoType ==
  ASSUME TypeOK, NEW pc \in Steps, Goto(pc)
  PROVE  /\ work' = [pc |-> work'.pc, batch |-> work'.batch, at |-> work'.at]
         /\ work'.pc = pc /\ work'.batch = work.batch /\ work'.at = work.at /\ work'.batch \in Seq(Nat)
  BY DEF Goto, TypeOK

-----------------------------------------------------------------------------
(* The outbox. *)

LEMMA EnqueueInv ==
  ASSUME DeliveryInv, NEW e \in Event, Enqueue(e)
  PROVE  DeliveryInv'
<1> PICK q : q = SetToSeq({[event |-> e, dest |-> d, status |-> "pending", due |-> TRUE] : d \in DOMAIN live})
    OBVIOUS
<1>1. /\ outbox' = outbox \o q
      /\ UNCHANGED <<kind, live, sink, received, listed, work, closing, contested, replaces>>
    BY DEF Enqueue
<1>2. q \in Seq(Row) /\ \A i \in DOMAIN q : q[i].status = "pending"
  <2> PICK D : D = DOMAIN live
      OBVIOUS
  <2>1. D \in SUBSET Dest
      BY DEF DeliveryInv, LiveOK
  <2>2. q \in Seq({r \in Row : r.status = "pending"})
      BY <2>1, NewRows
  <2> PICK P : P = {r \in Row : r.status = "pending"}
      OBVIOUS
  <2>3. q \in Seq(P) /\ P \subseteq Row /\ \A r \in P : r.status = "pending"
      BY <2>2
  <2>4. \A i \in DOMAIN q : q[i] \in P
      BY <2>3
  <2> QED BY <2>3, <2>4
<1>3. /\ outbox' \in Seq(Row) /\ \A i \in DOMAIN outbox : i \in DOMAIN outbox' /\ outbox'[i] = outbox[i]
      /\ \A i \in DOMAIN outbox' : i \in DOMAIN outbox \/ outbox'[i].status = "pending"
  <2>1. outbox \in Seq(Row)
      BY DEF DeliveryInv, TypeOK
  <2> PICK m \in Nat : m = Len(outbox)
      BY <2>1, LenProperties
  <2> PICK k \in Nat : k = Len(q)
      BY <1>2, LenProperties
  <2> PICK o : o = outbox \o q
      OBVIOUS
  <2>2. /\ o \in Seq(Row) /\ Len(o) = m + k
        /\ \A i \in 1 .. m + k : o[i] = IF i <= m THEN outbox[i] ELSE q[i - m]
      BY <1>2, <2>1, ConcatProperties
  <2>3. DOMAIN o = 1 .. m + k /\ DOMAIN outbox = 1 .. m /\ DOMAIN q = 1 .. k
      BY <1>2, <2>1, <2>2, LenProperties
  <2>4. ASSUME NEW i \in 1 .. m PROVE i \in 1 .. m + k /\ o[i] = outbox[i]
      BY <2>2
  <2>5. ASSUME NEW i \in 1 .. m + k, i \notin 1 .. m PROVE o[i].status = "pending"
    <3>1. i - m \in 1 .. k /\ o[i] = q[i - m]
        BY <2>2, <2>5
    <3> QED BY <1>2, <2>3, <3>1
  <2> QED BY <1>1, <2>2, <2>3, <2>4, <2>5
<1>4. Kept /\ NoneDelivered
    BY <1>3 DEF Kept, NoneDelivered
<1>5. Grows /\ Steady
    BY <1>1 DEF Grows, Steady
<1>6. TypeOK'
    BY <1>1, <1>3 DEF DeliveryInv, TypeOK
<1>7. WorkOK'
    BY <1>1, <1>4, <1>5, WorkKeeps DEF DeliveryInv
<1>8. RowsOK'
    BY <1>4, <1>5, RowsKeep DEF DeliveryInv
<1>9. LiveOK' /\ (\A s \in Sink : SinkOK(s))'
    BY <1>1, <1>5, SinksKeep
<1> QED BY <1>6, <1>7, <1>8, <1>9 DEF DeliveryInv

\* A row that changes its due time or its status.
LEMMA RowChange ==
  ASSUME TypeOK, NEW i \in DOMAIN outbox, NEW r \in Row, outbox' = [outbox EXCEPT ![i] = r],
         r.event = outbox[i].event, r.dest = outbox[i].dest
  PROVE  outbox' \in Seq(Row) /\ Kept /\ DOMAIN outbox' = DOMAIN outbox
         /\ (r.status # "delivered" => NoneDelivered)
<1>1. /\ outbox' \in Seq(Row) /\ DOMAIN outbox' = DOMAIN outbox
      /\ \A j \in DOMAIN outbox : outbox'[j] = IF j = i THEN r ELSE outbox[j]
    BY RowSequence DEF TypeOK
<1> QED BY <1>1 DEF Kept, NoneDelivered

LEMMA BecomesDueInv ==
  ASSUME DeliveryInv, NEW i \in DOMAIN outbox, BecomesDue(i)
  PROVE  DeliveryInv'
<1> PICK r : r = [outbox[i] EXCEPT !.due = TRUE]
    OBVIOUS
<1>1. /\ outbox' = [outbox EXCEPT ![i] = r] /\ outbox[i].status = "pending"
      /\ UNCHANGED <<kind, live, sink, received, listed, work, closing, contested, replaces>>
    BY DEF BecomesDue
<1>2. outbox[i] \in Row
    BY DEF DeliveryInv, TypeOK
<1>3. r \in Row /\ r.event = outbox[i].event /\ r.dest = outbox[i].dest /\ r.status = "pending"
    BY <1>1, <1>2 DEF Row
<1>4. outbox' \in Seq(Row) /\ Kept /\ NoneDelivered
    BY <1>1, <1>3, RowChange DEF DeliveryInv
<1>5. Grows /\ Steady
    BY <1>1 DEF Grows, Steady
<1>6. TypeOK'
    BY <1>1, <1>4 DEF DeliveryInv, TypeOK
<1>7. WorkOK'
    BY <1>1, <1>4, <1>5, WorkKeeps DEF DeliveryInv
<1>8. RowsOK'
    BY <1>4, <1>5, RowsKeep DEF DeliveryInv
<1>9. LiveOK' /\ (\A s \in Sink : SinkOK(s))'
    BY <1>1, <1>5, SinksKeep
<1> QED BY <1>6, <1>7, <1>8, <1>9 DEF DeliveryInv

LEMMA FetchInv ==
  ASSUME DeliveryInv, FetchPending
  PROVE  DeliveryInv'
<1> PICK n \in 1 .. FetchLimit :
        \E b \in [1 .. n -> Due] : work' = [work EXCEPT !.pc = "lookup", !.batch = b]
    BY DEF FetchPending
<1> PICK b \in [1 .. n -> Due] : work' = [work EXCEPT !.pc = "lookup", !.batch = b]
    OBVIOUS
<1>1. /\ work.pc = "idle"
      /\ UNCHANGED <<kind, outbox, live, sink, received, listed, closing, contested, replaces>>
    BY DEF FetchPending
<1>2. Due \subseteq Nat /\ \A i \in DOMAIN b : b[i] \in DOMAIN outbox
    BY DEF Due, DeliveryInv, TypeOK
<1>3. b \in Seq(Nat) /\ b # <<>>
    BY <1>2, DeliveryAssumption
<1>4. work'.pc = "lookup" /\ work'.batch = b /\ work' = [pc |-> work'.pc, batch |-> work'.batch, at |-> work'.at]
    BY DEF DeliveryInv, TypeOK
<1>5. TypeOK'
    BY <1>1, <1>3, <1>4 DEF DeliveryInv, TypeOK, Steps
<1>6. WorkOK'
    BY <1>1, <1>2, <1>3, <1>4 DEF WorkOK, AtSink
<1>7. RowsOK'
    BY <1>1 DEF DeliveryInv, RowsOK, Durable
<1>8. LiveOK' /\ (\A s \in Sink : SinkOK(s))'
    BY <1>1, SinksKeep DEF Steady
<1> QED BY <1>5, <1>6, <1>7, <1>8 DEF DeliveryInv

\* The status or due time of the row changes, and the row is done.
LEMMA RowDone ==
  ASSUME DeliveryInv, work.pc \in {"lookup", "ack", "nack"}, NextRow,
         UNCHANGED <<kind, live, sink, received, listed, closing, contested, replaces>>,
         NEW r \in Row, outbox' = [outbox EXCEPT ![Head(work.batch)] = r],
         r.event = Current.event, r.dest = Current.dest,
         r.status = "delivered" => Durable(Target)
  PROVE  DeliveryInv'
<1> PICK i : i = Head(work.batch)
    OBVIOUS
<1>0. work.pc # "idle" /\ work.pc # "sending"
    OBVIOUS
<1>1. i \in DOMAIN outbox /\ Current = outbox[i]
    BY <1>0, CurrentRow DEF DeliveryInv, Current
<1>2. outbox' \in Seq(Row) /\ Kept /\ DOMAIN outbox' = DOMAIN outbox
    BY <1>1, RowChange DEF DeliveryInv
<1>3. Grows /\ Steady
    BY DEF Grows, Steady
<1>4. /\ WorkOK' /\ work' = [pc |-> work'.pc, batch |-> work'.batch, at |-> work'.at]
      /\ work'.pc \in Steps /\ work'.batch \in Seq(Nat)
    BY <1>0, <1>2, NextRowOK DEF DeliveryInv
<1>5. TypeOK'
    BY <1>2, <1>4 DEF DeliveryInv, TypeOK
<1>6. RowsOK'
  <2>1. ASSUME NEW j \in DOMAIN outbox', outbox'[j].status = "delivered"
        PROVE  Durable(<<outbox[j].event, outbox[j].dest>>)'
    <3>1. j \in DOMAIN outbox /\ outbox'[j].event = outbox[j].event /\ outbox'[j].dest = outbox[j].dest
        BY <1>2 DEF Kept
    <3> PICK x : x = <<outbox[j].event, outbox[j].dest>>
        OBVIOUS
    <3>2. CASE j = i
      <4>1. outbox'[j] = r
          BY <1>1, <3>2 DEF DeliveryInv, TypeOK
      <4>2. Durable(x)
          BY <1>1, <2>1, <3>2, <4>1 DEF Target
      <4> QED BY <3>1, <4>2 DEF Durable
    <3>3. CASE j # i
      <4>1. outbox'[j] = outbox[j]
          BY <1>1, <3>1, <3>3 DEF DeliveryInv, TypeOK
      <4>2. Durable(x)
          BY <2>1, <3>1, <4>1 DEF DeliveryInv, RowsOK
      <4> QED BY <3>1, <4>2 DEF Durable
    <3> QED BY <3>2, <3>3
  <2> QED BY <2>1 DEF RowsOK
<1>7. LiveOK' /\ (\A s \in Sink : SinkOK(s))'
    BY <1>0, <1>3, SinksKeep
<1> QED BY <1>4, <1>5, <1>6, <1>7 DEF DeliveryInv

\* MarkDelivered, MarkFailed and a payload that does not unmarshal.
LEMMA AckInv ==
  ASSUME DeliveryInv, Ack \/ Nack \/ RejectPayload
  PROVE  DeliveryInv'
<1> PICK i : i = Head(work.batch)
    OBVIOUS
<1>1. /\ work.pc \in {"lookup", "ack", "nack"} /\ NextRow
      /\ UNCHANGED <<kind, live, sink, received, listed, closing, contested, replaces>>
      /\ \/ work.pc = "ack" /\ outbox' = [outbox EXCEPT ![i].status = "delivered"]
         \/ outbox' = [outbox EXCEPT ![i].due = FALSE]
         \/ outbox' = [outbox EXCEPT ![i].status = "failed"]
         \/ outbox' = outbox
    BY DEF Ack, Nack, MarkFailed, RejectPayload
<1>2. i \in DOMAIN outbox /\ Current = outbox[i] /\ Current \in Row
    BY <1>1, CurrentRow DEF DeliveryInv, Current
<1>3. PICK r \in Row : /\ outbox' = [outbox EXCEPT ![i] = r] /\ r.event = Current.event /\ r.dest = Current.dest
                       /\ r.status = "delivered" => work.pc = "ack" \/ r.status = Current.status
  <2>1. CASE work.pc = "ack" /\ outbox' = [outbox EXCEPT ![i].status = "delivered"]
    <3> PICK r : r = [Current EXCEPT !.status = "delivered"]
        OBVIOUS
    <3> QED BY <1>2, <2>1 DEF Row, Status
  <2>2. CASE outbox' = [outbox EXCEPT ![i].due = FALSE]
    <3> PICK r : r = [Current EXCEPT !.due = FALSE]
        OBVIOUS
    <3>1. r \in Row /\ r.event = Current.event /\ r.dest = Current.dest /\ r.status = Current.status
        BY <1>2 DEF Row
    <3>2. outbox' = [outbox EXCEPT ![i] = r]
        BY <1>2, <2>2
    <3> QED BY <3>1, <3>2
  <2>3. CASE outbox' = [outbox EXCEPT ![i].status = "failed"]
    <3> PICK r : r = [Current EXCEPT !.status = "failed"]
        OBVIOUS
    <3> QED BY <1>2, <2>3, ZenonT(30) DEF Row, Status
  <2>4. CASE outbox' = outbox
    <3>1. outbox' = [outbox EXCEPT ![i] = Current]
        BY <1>2, <2>4 DEF DeliveryInv, TypeOK
    <3> QED BY <1>2, <3>1
  <2> QED BY <1>1, <2>1, <2>2, <2>3, <2>4
<1>4. r.status = "delivered" => Durable(Target)
  <2>1. Current.status = "delivered" => Durable(Target)
      BY <1>2 DEF DeliveryInv, RowsOK, Target
  <2>2. work.pc = "ack" => Durable(Target)
      BY DEF DeliveryInv, WorkOK
  <2> QED BY <1>3, <2>1, <2>2
<1> QED BY <1>1, <1>2, <1>3, <1>4, RowDone

-----------------------------------------------------------------------------
(* EmitTo. *)

\* The step changes one sink and leaves what the manifests name.
LEMMA SinkChange ==
  ASSUME DeliveryInv, NEW s \in Sink, NEW v \in Instance, sink' = [sink EXCEPT ![s] = v], Steady,
         closing' \subseteq closing, listed' = listed,
         work' = work \/ work.pc # "sending" \/ work.at = s, SinkOK(s)'
  PROVE  sink' \in [Sink -> Instance] /\ LiveOK' /\ (\A t \in Sink : SinkOK(t))'
<1>1. LiveOK'
    BY DEF DeliveryInv, LiveOK, Steady
<1>2. sink' \in [Sink -> Instance] /\ \A t \in Sink : t # s => sink'[t] = sink[t]
    BY DEF DeliveryInv, TypeOK
<1>3. ASSUME NEW t \in Sink, t # s PROVE SinkOK(t)'
  <2>1. TypeOK /\ SinkOK(t) /\ sink'[t] = sink[t]
      BY <1>2, <1>3 DEF DeliveryInv
  <2>2. sink[t].lock = "delivery" => work'.pc = "sending" /\ work'.at = t
      BY <1>3, <2>1 DEF SinkOK
  <2>3. ListedAt(t[1])' = ListedAt(t[1])
      BY DEF ListedAt
  <2> QED BY <2>1, <2>2, <2>3, SinkKeeps
<1> QED BY <1>1, <1>2, <1>3

LEMMA LookupInv ==
  ASSUME DeliveryInv, Lookup
  PROVE  DeliveryInv'
<1>1. /\ work.pc = "lookup"
      /\ UNCHANGED <<kind, outbox, live, sink, received, listed, closing, contested, replaces>>
    BY DEF Lookup
<1> PICK x : x = Target
    OBVIOUS
<1>2. x \in Event \X Dest /\ x[1] = Current.event /\ x[2] = Current.dest
    BY <1>1, WorkFacts DEF DeliveryInv
<1> PICK s : s = work'.at
    OBVIOUS
<1>3. Kept /\ Grows /\ Steady /\ NoneDelivered
    BY <1>1 DEF Kept, Grows, Steady, NoneDelivered
<1>4. CASE Current.dest \in DOMAIN live
  <2>1. work' = [work EXCEPT !.pc = "emit", !.at = <<x[2], live[x[2]]>>]
      BY <1>2, <1>4 DEF Lookup
  <2>2. /\ work'.pc = "emit" /\ work'.batch = work.batch /\ s = <<x[2], live[x[2]]>>
        /\ work' = [pc |-> work'.pc, batch |-> work'.batch, at |-> work'.at]
      BY <2>1 DEF DeliveryInv, TypeOK
  <2>3. live[x[2]] \in Nat /\ live[x[2]] <= replaces /\ live[x[2]] <= MaxReplace
    <3>1. live[x[2]] \in 0 .. replaces /\ replaces \in Nat /\ replaces <= MaxReplace /\ MaxReplace \in Nat
        BY <1>2, <1>4, DeliveryAssumption DEF DeliveryInv, LiveOK, TypeOK
    <3> QED BY <3>1
  <2>4. s \in Sink /\ s[1] = x[2] /\ s[2] <= replaces'
      BY <1>1, <1>2, <2>2, <2>3, SinkIs, DeliveryAssumption
  <2>5. Live(s)'
      BY <1>1, <1>2, <1>4, <2>2 DEF Live
  <2>6. WorkOK'
      BY <1>1, <1>3, <2>2, <2>4, <2>5, WorkStep DEF DeliveryInv
  <2>7. TypeOK'
      BY <1>1, <2>2 DEF DeliveryInv, TypeOK, Steps, AtSink
  <2> QED BY <1>1, <1>3, <2>6, <2>7, RowsKeep, SinksKeep DEF DeliveryInv
<1>5. CASE Current.dest \notin DOMAIN live
  <2>1. work' = [work EXCEPT !.pc = "nack"]
      BY <1>5 DEF Lookup
  <2>2. /\ work'.pc = "nack" /\ work'.batch = work.batch
        /\ work' = [pc |-> work'.pc, batch |-> work'.batch, at |-> work'.at]
      BY <2>1 DEF DeliveryInv, TypeOK
  <2>3. WorkOK'
      BY <1>1, <1>3, <2>2, WorkStep DEF DeliveryInv, AtSink
  <2>4. TypeOK'
      BY <1>1, <2>2 DEF DeliveryInv, TypeOK, Steps
  <2> QED BY <1>1, <1>3, <2>3, <2>4, RowsKeep, SinksKeep DEF DeliveryInv
<1> QED BY <1>4, <1>5

\* EmitTo goes on without touching a sink or a manifest.
LEMMA GotoInv ==
  ASSUME DeliveryInv, work.pc \in {"emit", "flush", "lock"}, NEW pc \in {"ack", "nack", "lock"}, Goto(pc),
         UNCHANGED <<kind, outbox, live, sink, listed, closing, contested, replaces>>,
         received \subseteq received', received' \subseteq Event \X Dest,
         pc = "ack" => Durable(Target)',
         pc = "lock" => work.pc = "flush" /\ kind[Current.dest] \in Buffered
  PROVE  DeliveryInv'
<1> PICK x : x = Target
    OBVIOUS
<1> PICK s : s = work'.at
    OBVIOUS
<1>0. work.pc \in AtSink /\ work.pc # "idle" /\ work.pc # "sending" /\ pc \in Steps
    BY DEF AtSink, Steps
<1>1. /\ work' = [pc |-> work'.pc, batch |-> work'.batch, at |-> work'.at]
      /\ work'.pc = pc /\ work'.batch = work.batch /\ work'.at = work.at /\ work'.batch \in Seq(Nat)
    BY <1>0, GotoType DEF DeliveryInv
<1>2. Kept /\ Grows /\ Steady /\ NoneDelivered
    BY DEF Kept, Grows, Steady, NoneDelivered
<1>3. /\ x[2] = Current.dest /\ s \in Sink /\ s[1] = x[2] /\ s[2] <= replaces
      /\ Live(s) \/ x[2] \in contested
      /\ work.pc = "flush" => Durable(x) \/ x[1] \in sink[s].buf \cup sink[s].batch
    BY <1>0, <1>1, WorkFacts DEF DeliveryInv
<1>4. Live(s)' <=> Live(s)
    BY DEF Live
<1>5. Durable(x) => Durable(x)'
    BY <1>2, DurableKeeps
<1>6. Target' = x
    BY <1>0, <1>1, <1>2, SameTarget DEF DeliveryInv
<1>7. pc = "ack" => Durable(x)'
    BY <1>6 DEF Durable
<1>8. WorkOK'
    BY <1>0, <1>1, <1>2, <1>3, <1>4, <1>5, <1>7, WorkStep DEF DeliveryInv
<1>9. TypeOK'
    BY <1>0, <1>1 DEF DeliveryInv, TypeOK
<1> QED BY <1>0, <1>2, <1>8, <1>9, RowsKeep, SinksKeep DEF DeliveryInv

\* Emit into the buffer of an NDJSON, HTTP or Parquet sink.
LEMMA EmitBufferInv ==
  ASSUME DeliveryInv, NEW k \in {"ndjson", "http", "parquet"}, EmitBuffer(k)
  PROVE  DeliveryInv'
<1>1. /\ work.pc = "emit" /\ kind[Current.dest] = k
      /\ UNCHANGED <<kind, outbox, live, received, listed, closing, contested, replaces>>
    BY DEF EmitBuffer
<1> PICK x : x = Target
    OBVIOUS
<1> PICK s : s = work.at
    OBVIOUS
<1>2. /\ x \in Event \X Dest /\ x[1] = Current.event /\ x[2] = Current.dest
      /\ s \in Sink /\ s[1] = x[2] /\ s[2] <= replaces /\ (Live(s) \/ x[2] \in contested)
    BY <1>1, WorkFacts DEF DeliveryInv, AtSink
<1>3. CASE sink[s].closed \/ sink[s].broken
  <2>1. Goto("nack") /\ sink' = sink
      BY <1>3 DEF EmitBuffer
  <2> QED BY <1>1, <2>1, GotoInv DEF DeliveryInv, TypeOK
<1>4. CASE ~(sink[s].closed \/ sink[s].broken)
  <2> PICK v : v = [sink[s] EXCEPT !.buf = @ \cup {x[1]}]
      OBVIOUS
  <2>1. Goto("flush") /\ sink' = [sink EXCEPT ![s] = v]
      BY <1>2, <1>4 DEF EmitBuffer
  <2>2. /\ work' = [pc |-> work'.pc, batch |-> work'.batch, at |-> work'.at]
        /\ work'.pc = "flush" /\ work'.batch = work.batch /\ work'.at = s /\ work'.batch \in Seq(Nat)
      BY <2>1, GotoType DEF DeliveryInv, Steps, AtSink
  <2>3. Kept /\ Grows /\ Steady /\ NoneDelivered
      BY <1>1 DEF Kept, Grows, Steady, NoneDelivered
  <2>4. SinkOK(s) /\ sink[s] \in Instance /\ TypeOK /\ WorkOK /\ RowsOK
      BY <1>2 DEF DeliveryInv, TypeOK
  <2>5. /\ v \in Instance /\ v.buf = sink[s].buf \cup {x[1]} /\ v.batch = sink[s].batch /\ v.lock = sink[s].lock
        /\ v.closed = sink[s].closed /\ v.wrote = sink[s].wrote /\ v.seen = sink[s].seen
      BY <1>2, <2>4 DEF Instance
  <2>6. sink'[s] = v /\ ListedAt(s[1])' = ListedAt(s[1]) /\ (Live(s)' <=> Live(s))
      BY <1>1, <1>2, <2>1 DEF DeliveryInv, TypeOK, ListedAt, Live
  <2>7. SinkOK(s)'
    <3>1. ~(s[2] > replaces) /\ sink[s].lock # "delivery"
        BY <1>1, <1>2, <2>4, SinkPair DEF SinkOK, TypeOK
    <3> QED BY <1>1, <1>2, <2>4, <2>5, <2>6, <3>1 DEF SinkOK
  <2>8. sink' \in [Sink -> Instance] /\ LiveOK' /\ (\A t \in Sink : SinkOK(t))'
      BY <1>1, <1>2, <2>1, <2>3, <2>5, <2>7, SinkChange
  <2>9. WorkOK'
    <3>1. s = work'.at /\ work'.pc = "flush" /\ work.pc # "idle" /\ kind' = kind /\ work'.batch = work.batch
        BY <1>1, <2>2
    <3>2. s \in Sink /\ s[1] = x[2] /\ s[2] <= replaces' /\ (Live(s)' \/ x[2] \in contested')
        BY <1>1, <1>2, <2>6
    <3>3. kind[x[2]] # "direct" /\ x[1] \in sink'[s].buf \cup sink'[s].batch
        BY <1>1, <1>2, <2>5, <2>6
    <3> QED BY <2>3, <2>4, <3>1, <3>2, <3>3, WorkStep
  <2>10. TypeOK'
      BY <1>1, <2>2, <2>4, <2>8 DEF TypeOK, Steps, AtSink
  <2> QED BY <2>3, <2>4, <2>8, <2>9, <2>10, RowsKeep DEF DeliveryInv
<1> QED BY <1>3, <1>4

LEMMA EmitDirectInv ==
  ASSUME DeliveryInv, EmitDirect
  PROVE  DeliveryInv'
<1>1. /\ work.pc = "emit" /\ kind[Current.dest] = "direct"
      /\ UNCHANGED <<kind, outbox, live, sink, listed, closing, contested, replaces>>
      /\ received' \in {received, received \cup {Target}}
      /\ Goto("nack") \/ (Goto("ack") /\ received' = received \cup {Target})
    BY DEF EmitDirect
<1> PICK x : x = Target
    OBVIOUS
<1>2. x \in Event \X Dest /\ x[1] = Current.event /\ x[2] = Current.dest /\ TypeOK /\ WorkOK
    BY <1>1, WorkFacts DEF DeliveryInv
<1>3. received \subseteq received' /\ received' \subseteq Event \X Dest
    BY <1>1, <1>2 DEF TypeOK
<1>4. CASE Goto("nack")
    BY <1>1, <1>3, <1>4, GotoInv
<1>5. CASE Goto("ack") /\ received' = received \cup {x}
  <2>1. Durable(x)'
      BY <1>1, <1>2, <1>5 DEF Durable
  <2>2. work'.batch = work.batch
      BY <1>2, <1>5, GotoType DEF Steps
  <2>3. Target' = x
      BY <1>1, <1>2, <2>2, SameTarget DEF Kept
  <2>4. Durable(Target)'
      BY <2>1, <2>3 DEF Durable
  <2> QED BY <1>1, <1>3, <1>5, <2>4, GotoInv
<1> QED BY <1>1, <1>4, <1>5

\* A flush of an NDJSON sink, by EmitTo or by Close.
LEMMA FlushFileOK ==
  ASSUME DeliveryInv, NEW s \in Sink, NEW close \in BOOLEAN, FlushFile(s, close), kind[s[1]] = "ndjson",
         s[2] <= replaces, close => ~Live(s) /\ s \notin closing',
         UNCHANGED <<kind, outbox, live, listed, contested, replaces>>, closing' \subseteq closing,
         work' = work \/ work.pc # "sending"
  PROVE  /\ sink' \in [Sink -> Instance] /\ LiveOK' /\ (\A t \in Sink : SinkOK(t))'
         /\ received \subseteq received' /\ received' \subseteq Event \X Dest
         /\ \A t \in Sink : t # s => sink'[t] = sink[t]
         /\ \A e \in sink[s].buf : e \in sink'[s].buf \/ <<e, s[1]>> \in received'
         /\ ~sink'[s].broken => \A e \in sink[s].buf : <<e, s[1]>> \in received'
<1>1. SinkOK(s) /\ sink[s] \in Instance /\ TypeOK
    BY DEF DeliveryInv, TypeOK
<1>2. PICK v \in Instance :
          /\ sink' = [sink EXCEPT ![s] = v] /\ v.closed = close /\ v.buf \subseteq sink[s].buf
          /\ v.batch = sink[s].batch /\ v.lock = sink[s].lock /\ v.wrote = sink[s].wrote /\ v.seen = sink[s].seen
          /\ received' = received \cup To(s[1], sink[s].buf) \/ (received' = received /\ v.buf = sink[s].buf /\ v.broken)
  <2>1. CASE /\ ~sink[s].broken /\ received' = received \cup To(s[1], sink[s].buf)
             /\ sink' = [sink EXCEPT ![s].buf = {}, ![s].closed = close]
    <3> PICK v : v = [sink[s] EXCEPT !.buf = {}, !.closed = close]
        OBVIOUS
    <3>1. v \in Instance
        BY <1>1 DEF Instance
    <3>2. sink' = [sink EXCEPT ![s] = v]
        BY <1>1, <2>1 DEF TypeOK
    <3>3. /\ v.closed = close /\ v.buf = {} /\ v.batch = sink[s].batch /\ v.lock = sink[s].lock
          /\ v.wrote = sink[s].wrote /\ v.seen = sink[s].seen
        BY <1>1 DEF Instance
    <3> QED BY <2>1, <3>1, <3>2, <3>3
  <2>2. CASE received' = received /\ sink' = [sink EXCEPT ![s].broken = TRUE, ![s].closed = close]
    <3> PICK v : v = [sink[s] EXCEPT !.broken = TRUE, !.closed = close]
        OBVIOUS
    <3>1. v \in Instance
        BY <1>1 DEF Instance
    <3>2. sink' = [sink EXCEPT ![s] = v]
        BY <1>1, <2>2 DEF TypeOK
    <3>3. /\ v.closed = close /\ v.buf = sink[s].buf /\ v.batch = sink[s].batch /\ v.lock = sink[s].lock
          /\ v.wrote = sink[s].wrote /\ v.seen = sink[s].seen /\ v.broken
        BY <1>1 DEF Instance
    <3> QED BY <2>2, <3>1, <3>2, <3>3
  <2>3. CASE sink[s].broken /\ received' = received /\ sink' = [sink EXCEPT ![s].closed = close]
    <3> PICK v : v = [sink[s] EXCEPT !.closed = close]
        OBVIOUS
    <3>1. v \in Instance
        BY <1>1 DEF Instance
    <3>2. sink' = [sink EXCEPT ![s] = v]
        BY <1>1, <2>3 DEF TypeOK
    <3>3. /\ v.closed = close /\ v.buf = sink[s].buf /\ v.batch = sink[s].batch /\ v.lock = sink[s].lock
          /\ v.wrote = sink[s].wrote /\ v.seen = sink[s].seen /\ v.broken
        BY <1>1, <2>3 DEF Instance
    <3> QED BY <2>3, <3>1, <3>2, <3>3
  <2> QED BY <2>1, <2>2, <2>3 DEF FlushFile
<1>3. sink'[s] = v /\ (\A t \in Sink : t # s => sink'[t] = sink[t])
    BY <1>1, <1>2 DEF TypeOK
<1>4. ListedAt(s[1])' = ListedAt(s[1]) /\ (Live(s)' <=> Live(s)) /\ Steady
    BY DEF ListedAt, Live, Steady
<1>5. SinkOK(s)'
  <2>1. ~(s[2] > replaces) /\ sink[s].lock = "nobody"
      BY <1>1, SinkPair DEF SinkOK, TypeOK, Buffered
  <2> QED BY <1>1, <1>2, <1>3, <1>4, <2>1 DEF SinkOK
<1>6. sink' \in [Sink -> Instance] /\ LiveOK' /\ (\A t \in Sink : SinkOK(t))'
    BY <1>2, <1>4, <1>5, SinkChange
<1>7. sink[s].buf \subseteq Event /\ s[1] \in Dest
    BY <1>1, SinkPair DEF Instance
<1>8. To(s[1], sink[s].buf) \subseteq Event \X Dest /\ \A e \in sink[s].buf : <<e, s[1]>> \in To(s[1], sink[s].buf)
    BY <1>7 DEF To
<1>9. received \subseteq received' /\ received' \subseteq Event \X Dest
    BY <1>1, <1>2, <1>8 DEF TypeOK
<1> QED BY <1>2, <1>3, <1>6, <1>8, <1>9

LEMMA FlushNDJSONInv ==
  ASSUME DeliveryInv, FlushNDJSON
  PROVE  DeliveryInv'
<1>1. /\ work.pc = "flush" /\ kind[Current.dest] = "ndjson"
      /\ UNCHANGED <<kind, outbox, live, listed, closing, contested, replaces>>
    BY DEF FlushNDJSON
<1> PICK x : x = Target
    OBVIOUS
<1> PICK s : s = work.at
    OBVIOUS
<1>2. /\ x \in Event \X Dest /\ x[1] = Current.event /\ x[2] = Current.dest /\ x = <<x[1], x[2]>>
      /\ s \in Sink /\ s[1] = x[2] /\ s[2] <= replaces /\ (Live(s) \/ x[2] \in contested)
      /\ Durable(x) \/ x[1] \in sink[s].buf \cup sink[s].batch
    BY <1>1, WorkFacts DEF DeliveryInv, AtSink
<1>3. TypeOK /\ WorkOK /\ RowsOK /\ SinkOK(s)
    BY <1>2 DEF DeliveryInv
<1>4. CASE sink[s].closed /\ Goto("ack") /\ UNCHANGED <<sink, received>>
  <2>1. Durable(x)
      BY <1>1, <1>2, <1>3, <1>4 DEF Durable, SinkOK
  <2>2. work'.batch = work.batch
      BY <1>3, <1>4, GotoType DEF Steps
  <2>3. Target' = x
      BY <1>1, <1>3, <2>2, SameTarget DEF Kept
  <2>4. Durable(Target)'
      BY <1>1, <1>4, <2>1, <2>3 DEF Durable
  <2> QED BY <1>1, <1>3, <1>4, <2>4, GotoInv DEF TypeOK
<1>5. CASE ~sink[s].closed /\ FlushFile(s, FALSE) /\ Goto(IF sink'[s].broken THEN "nack" ELSE "ack")
  <2>1. /\ sink' \in [Sink -> Instance] /\ LiveOK' /\ (\A t \in Sink : SinkOK(t))'
        /\ received \subseteq received' /\ received' \subseteq Event \X Dest
        /\ ~sink'[s].broken => \A e \in sink[s].buf : <<e, s[1]>> \in received'
      BY <1>1, <1>2, <1>5, FlushFileOK
  <2> PICK pc \in {"ack", "nack"} : Goto(pc) /\ (pc = "ack" => ~sink'[s].broken)
      BY <1>5
  <2>2. /\ work' = [pc |-> work'.pc, batch |-> work'.batch, at |-> work'.at]
        /\ work'.pc = pc /\ work'.batch = work.batch /\ work'.at = s /\ work'.batch \in Seq(Nat)
      BY <1>3, GotoType DEF Steps
  <2>3. Kept /\ Grows /\ NoneDelivered
      BY <1>1, <2>1 DEF Kept, Grows, NoneDelivered
  <2>4. pc = "ack" => Durable(x)'
    <3> SUFFICES ASSUME pc = "ack" PROVE Durable(x)'
        OBVIOUS
    <3>1. CASE Durable(x)
        BY <2>3, <3>1, DurableKeeps
    <3>2. CASE x[1] \in sink[s].buf
      <4>1. x \in received'
          BY <1>2, <2>1, <3>2
      <4> QED BY <1>1, <1>2, <4>1 DEF Durable
    <3>3. sink[s].batch = {}
        BY <1>1, <1>2, <1>3 DEF SinkOK, Buffered
    <3> QED BY <1>2, <3>1, <3>2, <3>3
  <2>5. WorkOK'
      BY <1>1, <1>3, <2>2, <2>3, <2>4, WorkStep DEF AtSink
  <2>6. TypeOK'
      BY <1>1, <1>3, <2>1, <2>2 DEF TypeOK, Steps
  <2> QED BY <1>3, <2>1, <2>3, <2>5, <2>6, RowsKeep DEF DeliveryInv
<1> QED BY <1>4, <1>5 DEF FlushNDJSON

\* A Parquet sink that holds nothing has written the event, unless contested.
LEMMA EmptyIsDurable ==
  ASSUME DeliveryInv, work.pc \in {"flush", "lock"}, sink[work.at].buf = {},
         (work.pc = "lock" /\ LockFree(work.at)) \/ (work.pc = "flush" /\ kind[Current.dest] = "parquet")
  PROVE  Durable(Target)
<1> PICK x : x = Target
    OBVIOUS
<1> PICK s : s = work.at
    OBVIOUS
<1>1. TypeOK /\ WorkOK
    BY DEF DeliveryInv
<1>2. /\ x \in Event \X Dest /\ x[2] = Current.dest
      /\ s \in Sink /\ s[1] = x[2] /\ (Live(s) \/ x[2] \in contested)
      /\ Durable(x) \/ x[1] \in sink[s].buf \cup sink[s].batch
    BY <1>1, WorkFacts DEF AtSink
<1>3. SinkOK(s) /\ sink[s].lock \in Holder
    BY <1>1, <1>2 DEF DeliveryInv, TypeOK, Instance
<1>4. CASE sink[s].lock = "nobody"
    BY <1>2, <1>3, <1>4 DEF SinkOK
<1>5. CASE sink[s].lock # "nobody" /\ work.pc = "flush" /\ kind[x[2]] = "parquet"
  <2>1. sink[s].lock = "close"
      BY <1>2, <1>3, <1>5 DEF SinkOK, Holder
  <2>2. x[2] \in contested
      BY <1>2, <1>3, <2>1 DEF SinkOK
  <2> QED BY <1>5, <2>2 DEF Durable
<1> QED BY <1>2, <1>4, <1>5 DEF LockFree

LEMMA FlushBufferedInv ==
  ASSUME DeliveryInv, FlushHTTP \/ FlushParquet
  PROVE  DeliveryInv'
<1>1. /\ work.pc = "flush" /\ kind[Current.dest] \in Buffered
      /\ UNCHANGED <<kind, outbox, live, sink, received, listed, closing, contested, replaces>>
      /\ Goto("lock") \/ (Goto("ack") /\ kind[Current.dest] = "parquet" /\ sink[work.at].buf = {})
    BY DEF FlushHTTP, FlushParquet, Buffered
<1>2. TypeOK /\ WorkOK
    BY DEF DeliveryInv
<1>3. CASE Goto("lock")
    BY <1>1, <1>2, <1>3, GotoInv DEF TypeOK
<1>4. CASE Goto("ack") /\ kind[Current.dest] = "parquet" /\ sink[work.at].buf = {}
  <2> PICK x : x = Target
      OBVIOUS
  <2>1. Durable(x)
      BY <1>1, <1>4, EmptyIsDurable
  <2>2. work'.batch = work.batch
      BY <1>2, <1>4, GotoType DEF Steps
  <2>3. Target' = x
      BY <1>1, <1>2, <2>2, SameTarget DEF Kept
  <2>4. Durable(Target)'
      BY <1>1, <2>1, <2>3 DEF Durable
  <2> QED BY <1>1, <1>2, <1>4, <2>4, GotoInv DEF TypeOK
<1> QED BY <1>1, <1>3, <1>4

-----------------------------------------------------------------------------
(* flushMu. *)

\* deliverPending waits while another goroutine works on its sink.
LEMMA WorkHeld ==
  ASSUME TypeOK, WorkOK, work' = work, Kept, Grows, Steady,
         work.pc \in {"flush", "lock"} =>
            \A e \in sink[work.at].buf \cup sink[work.at].batch :
                e \in sink'[work.at].buf \cup sink'[work.at].batch \/ Durable(<<e, work.at[1]>>)',
         work.pc = "sending" =>
            sink'[work.at].lock = sink[work.at].lock /\ sink'[work.at].batch = sink[work.at].batch
  PROVE  WorkOK'
<1>1. CASE work.pc = "idle"
    BY <1>1 DEF WorkOK, Kept, AtSink
<1>2. CASE work.pc # "idle"
  <2> PICK x : x = Target
      OBVIOUS
  <2> PICK s : s = work'.at
      OBVIOUS
  <2>1. Durable(x) => Durable(x)'
      BY DurableKeeps
  <2>2. Live(s)' <=> Live(s)
      BY DEF Live, Steady
  <2>3. /\ x = <<x[1], x[2]>>
        /\ work.pc \in AtSink => s \in Sink /\ s[1] = x[2] /\ s[2] <= replaces /\ (Live(s) \/ x[2] \in contested)
        /\ work.pc \in {"lock", "sending"} => kind[x[2]] \in Buffered
        /\ work.pc = "flush" => kind[x[2]] # "direct"
        /\ work.pc \in {"flush", "lock"} => Durable(x) \/ x[1] \in sink[s].buf \cup sink[s].batch
        /\ work.pc = "sending" => sink[s].lock = "delivery" /\ (Durable(x) \/ x[1] \in sink[s].batch)
        /\ work.pc = "ack" => Durable(x)
      BY <1>2, WorkFacts
  <2>4. ASSUME work.pc \in {"flush", "lock"}
        PROVE  Durable(x)' \/ x[1] \in sink'[s].buf \cup sink'[s].batch
    <3>1. CASE Durable(x)
        BY <2>1, <3>1
    <3>2. CASE x[1] \in sink[s].buf \cup sink[s].batch
      <4>1. x = <<x[1], work.at[1]>>
          BY <2>3, <2>4 DEF AtSink
      <4>2. x[1] \in sink'[s].buf \cup sink'[s].batch \/ Durable(<<x[1], work.at[1]>>)'
          BY <2>4, <3>2
      <4>3. Durable(<<x[1], work.at[1]>>)' => Durable(x)'
          BY <4>1 DEF Durable
      <4> QED BY <4>2, <4>3
    <3> QED BY <2>3, <2>4, <3>1, <3>2
  <2> QED BY <1>2, <2>1, <2>2, <2>3, <2>4, WorkStep DEF AtSink, Steady
<1> QED BY <1>1, <1>2

\* The buffer becomes the batch in flight.
LEMMA TakeBatchOK ==
  ASSUME DeliveryInv, NEW s \in Sink, NEW who \in Holder, who # "nobody", LockFree(s), sink[s].buf # {},
         sink' = TakeBatch(s, who), Steady, UNCHANGED <<listed, closing>>, kind[s[1]] \in Buffered,
         who = "delivery" => work'.pc = "sending" /\ work'.at = s,
         who = "loop" => kind[s[1]] = "http", who = "close" => ~Live(s),
         work' = work \/ work.pc # "sending"
  PROVE  /\ sink' \in [Sink -> Instance] /\ LiveOK' /\ (\A t \in Sink : SinkOK(t))'
         /\ \A t \in Sink : t # s => sink'[t] = sink[t]
         /\ sink'[s].lock = who /\ sink'[s].batch = sink[s].buf /\ sink[s].batch = {}
<1>1. SinkOK(s) /\ sink[s] \in Instance /\ TypeOK
    BY DEF DeliveryInv, TypeOK
<1> PICK v : v = [sink[s] EXCEPT !.lock = who, !.batch = sink[s].buf, !.buf = {}]
    OBVIOUS
<1>2. sink' = [sink EXCEPT ![s] = v]
    BY <1>1 DEF TakeBatch, TypeOK
<1>3. /\ v \in Instance /\ v.lock = who /\ v.batch = sink[s].buf /\ v.buf = {} /\ v.closed = sink[s].closed
      /\ v.wrote = sink[s].wrote /\ v.seen = sink[s].seen
    BY <1>1 DEF Instance
<1>4. sink'[s] = v /\ (\A t \in Sink : t # s => sink'[t] = sink[t])
    BY <1>1, <1>2 DEF TypeOK
<1>5. ListedAt(s[1])' = ListedAt(s[1]) /\ (Live(s)' <=> Live(s))
    BY DEF ListedAt, Live, Steady
<1>6. sink[s].batch = {} /\ ~sink[s].wrote /\ ~(s[2] > replaces) /\ (Live(s) \/ s[1] \in contested)
    BY <1>1 DEF SinkOK, LockFree, Fresh
<1>7. SinkOK(s)'
    BY <1>1, <1>3, <1>4, <1>5, <1>6 DEF SinkOK, Steady
<1>8. sink' \in [Sink -> Instance] /\ LiveOK' /\ (\A t \in Sink : SinkOK(t))'
    BY <1>2, <1>3, <1>7, SinkChange
<1> QED BY <1>3, <1>4, <1>6, <1>8

LEMMA BeginFlushInv ==
  ASSUME DeliveryInv, BeginFlush
  PROVE  DeliveryInv'
<1>1. /\ work.pc = "lock" /\ LockFree(work.at)
      /\ UNCHANGED <<kind, outbox, live, received, listed, closing, contested, replaces>>
    BY DEF BeginFlush
<1>2. TypeOK /\ WorkOK /\ RowsOK
    BY DEF DeliveryInv
<1> PICK x : x = Target
    OBVIOUS
<1> PICK s : s = work.at
    OBVIOUS
<1>3. CASE sink[s].buf = {}
  <2>0. Goto("ack") /\ sink' = sink
      BY <1>3 DEF BeginFlush
  <2>1. Durable(x)
      BY <1>1, <1>3, EmptyIsDurable
  <2>2. work'.batch = work.batch
      BY <1>2, <2>0, GotoType DEF Steps
  <2>3. Target' = x
      BY <1>1, <1>2, <2>2, SameTarget DEF Kept
  <2>4. Durable(Target)'
      BY <1>1, <2>1, <2>3 DEF Durable
  <2> QED BY <1>1, <1>2, <2>0, <2>4, GotoInv DEF TypeOK
<1>4. CASE sink[s].buf # {}
  <2>0. Goto("sending") /\ sink' = TakeBatch(s, "delivery")
      BY <1>4 DEF BeginFlush
  <2>1. /\ x \in Event \X Dest /\ x[2] = Current.dest /\ x[1] = Current.event /\ kind[x[2]] \in Buffered
        /\ s \in Sink /\ s[1] = x[2] /\ s[2] <= replaces /\ (Live(s) \/ x[2] \in contested)
        /\ Durable(x) \/ x[1] \in sink[s].buf \cup sink[s].batch
      BY <1>1, <1>2, WorkFacts DEF AtSink
  <2>2. /\ work' = [pc |-> work'.pc, batch |-> work'.batch, at |-> work'.at]
        /\ work'.pc = "sending" /\ work'.batch = work.batch /\ work'.at = s /\ work'.batch \in Seq(Nat)
      BY <1>2, <2>0, GotoType DEF Steps, AtSink
  <2>3. Kept /\ Grows /\ NoneDelivered /\ Steady
      BY <1>1 DEF Kept, Grows, NoneDelivered, Steady
  <2>4. /\ sink' \in [Sink -> Instance] /\ LiveOK' /\ (\A t \in Sink : SinkOK(t))'
        /\ sink'[s].lock = "delivery" /\ sink'[s].batch = sink[s].buf /\ sink[s].batch = {}
      BY <1>1, <1>4, <2>0, <2>1, <2>2, <2>3, TakeBatchOK DEF Holder
  <2>5. Durable(x) => Durable(x)'
      BY <2>3, DurableKeeps
  <2>6. Live(s)' <=> Live(s)
      BY <1>1 DEF Live
  <2>7. WorkOK'
      BY <1>1, <1>2, <2>1, <2>2, <2>3, <2>4, <2>5, <2>6, WorkStep
  <2>8. TypeOK'
      BY <1>1, <1>2, <2>2, <2>4 DEF TypeOK, Steps, AtSink
  <2> QED BY <1>2, <2>3, <2>4, <2>7, <2>8, RowsKeep DEF DeliveryInv
<1> QED BY <1>3, <1>4

\* flushLoop and Close take the buffer of a sink.
LEMMA OthersTakeInv ==
  ASSUME DeliveryInv, NEW s \in Sink, FlushLoop(s) \/ FlushOnClose(s)
  PROVE  DeliveryInv'
<1>0. TypeOK /\ WorkOK /\ RowsOK /\ SinkOK(s)
    BY DEF DeliveryInv
<1>1. /\ LockFree(s) /\ sink[s].buf # {} /\ Steady /\ work' = work
      /\ UNCHANGED <<kind, outbox, live, received, listed, closing, contested, replaces>>
    BY DEF FlushLoop, FlushOnClose, Steady
<1>2. PICK who \in {"loop", "close"} :
          /\ sink' = TakeBatch(s, who) /\ kind[s[1]] \in Buffered
          /\ who = "loop" => kind[s[1]] = "http"
          /\ who = "close" => ~Live(s)
  <2>1. CASE FlushLoop(s)
      BY <2>1 DEF FlushLoop, Buffered
  <2>2. CASE FlushOnClose(s)
      BY <1>0, <2>2 DEF FlushOnClose, MayClose, SinkOK
  <2> QED BY <2>1, <2>2
<1>3. /\ sink' \in [Sink -> Instance] /\ LiveOK' /\ (\A t \in Sink : SinkOK(t))'
      /\ \A t \in Sink : t # s => sink'[t] = sink[t]
      /\ sink'[s].lock = who /\ sink'[s].batch = sink[s].buf /\ sink[s].batch = {}
    BY <1>1, <1>2, TakeBatchOK DEF Holder
<1>4. Kept /\ Grows /\ NoneDelivered
    BY <1>1 DEF Kept, Grows, NoneDelivered
<1>5. WorkOK'
  <2>1. work.pc \in AtSink => work.at \in Sink
      BY <1>0 DEF WorkOK
  <2>2. work.pc = "sending" => work.at # s
      BY <1>0, <1>1 DEF WorkOK, LockFree
  <2> QED BY <1>0, <1>1, <1>3, <1>4, <2>1, <2>2, WorkHeld DEF AtSink
<1>6. TypeOK'
    BY <1>0, <1>1, <1>3 DEF TypeOK
<1> QED BY <1>0, <1>3, <1>4, <1>5, <1>6, RowsKeep DEF DeliveryInv

\* The holder of flushMu is done: the batch has arrived or is back in the buffer.
LEMMA ReleasedInv ==
  ASSUME DeliveryInv, NEW s \in Sink, NEW ok \in BOOLEAN, NEW buf \in SUBSET Event, sink[s].lock # "nobody",
         sink' = Released(s, buf), Returns(s, ok), Steady, outbox' = outbox, Grows,
         received' \subseteq Event \X Dest, listed' \subseteq Event \X Dest,
         sink[s].buf \subseteq buf,
         \A e \in sink[s].batch : IF ok THEN Durable(<<e, s[1]>>)' ELSE e \in buf,
         \A t \in Sink : t # s /\ sink[t].wrote /\ t[1] \notin contested => ListedAt(t[1])' = ListedAt(t[1])
  PROVE  DeliveryInv'
<1>0. TypeOK /\ WorkOK /\ RowsOK /\ SinkOK(s) /\ sink[s] \in Instance
    BY DEF DeliveryInv, TypeOK
<1> PICK v : v = [sink[s] EXCEPT !.lock = "nobody", !.batch = {}, !.buf = buf, !.wrote = FALSE, !.seen = {}]
    OBVIOUS
<1>1. sink' = [sink EXCEPT ![s] = v]
    BY <1>0 DEF Released, TypeOK
<1>2. /\ v \in Instance /\ v.lock = "nobody" /\ v.batch = {} /\ v.buf = buf /\ v.closed = sink[s].closed
      /\ ~v.wrote /\ v.seen = {}
    BY <1>0 DEF Instance, Holder
<1>3. sink' \in [Sink -> Instance] /\ sink'[s] = v /\ (\A t \in Sink : t # s => sink'[t] = sink[t])
    BY <1>0, <1>1, <1>2 DEF TypeOK
<1>4. closing' \subseteq closing
    BY DEF Returns
<1>5. ~(s[2] > replaces) /\ (Live(s) \/ s[1] \in contested)
    BY <1>0 DEF SinkOK, Fresh
<1>6. Live(s)' <=> Live(s)
    BY DEF Live, Steady
<1>7. SinkOK(s)'
    BY <1>0, <1>2, <1>3, <1>4, <1>5, <1>6 DEF SinkOK, Steady
<1>8. ASSUME NEW t \in Sink, t # s PROVE SinkOK(t)'
  <2>1. SinkOK(t) /\ sink'[t] = sink[t]
      BY <1>3, <1>8 DEF DeliveryInv
  <2>2. sink[t].lock = "delivery" => work'.pc = "sending" /\ work'.at = t
      BY <1>0, <1>8, <2>1 DEF SinkOK, Returns
  <2> QED BY <1>0, <1>4, <1>8, <2>1, <2>2, SinkKeeps
<1>9. LiveOK'
    BY DEF DeliveryInv, LiveOK, Steady
<1>10. Kept /\ NoneDelivered
    BY DEF Kept, NoneDelivered
<1>11. CASE sink[s].lock = "delivery"
  <2> PICK x : x = Target
      OBVIOUS
  <2> PICK pc \in {"ack", "nack"} : Goto(pc) /\ (pc = "ack" => ok)
      BY <1>11 DEF Returns
  <2>1. work.pc = "sending" /\ work.at = s
      BY <1>0, <1>11 DEF SinkOK
  <2>2. /\ work' = [pc |-> work'.pc, batch |-> work'.batch, at |-> work'.at]
        /\ work'.pc = pc /\ work'.batch = work.batch /\ work'.batch \in Seq(Nat)
      BY <1>0, GotoType DEF Steps
  <2>3. x = <<x[1], s[1]>> /\ (Durable(x) \/ x[1] \in sink[s].batch)
      BY <1>0, <2>1, WorkFacts DEF AtSink
  <2>4. pc = "ack" => Durable(x)'
    <3>1. Durable(x) => Durable(x)'
        BY DurableKeeps
    <3>2. ok /\ x[1] \in sink[s].batch => Durable(<<x[1], s[1]>>)'
        OBVIOUS
    <3>3. Durable(<<x[1], s[1]>>)' => Durable(x)'
        BY <2>3 DEF Durable
    <3> QED BY <2>3, <3>1, <3>2, <3>3
  <2>5. WorkOK'
      BY <1>0, <1>10, <2>1, <2>2, <2>4, WorkStep DEF AtSink, Steady
  <2>6. TypeOK'
      BY <1>0, <1>3, <1>4, <2>2 DEF TypeOK, Steps, Steady
  <2> QED BY <1>0, <1>7, <1>8, <1>9, <1>10, <2>5, <2>6, RowsKeep DEF DeliveryInv
<1>12. CASE sink[s].lock # "delivery"
  <2>1. work' = work
      BY <1>12 DEF Returns
  <2>2. work.pc \in AtSink => work.at \in Sink
      BY <1>0 DEF WorkOK
  <2>3. work.pc = "sending" => work.at # s
      BY <1>0, <1>12 DEF WorkOK
  <2>4. ASSUME work.pc \in {"flush", "lock"}, NEW e \in sink[work.at].buf \cup sink[work.at].batch
        PROVE  e \in sink'[work.at].buf \cup sink'[work.at].batch \/ Durable(<<e, work.at[1]>>)'
    <3>1. CASE work.at # s
        BY <1>3, <2>2, <2>4, <3>1 DEF AtSink
    <3>2. CASE work.at = s /\ e \in sink[s].buf
        BY <1>2, <1>3, <3>2
    <3>3. CASE work.at = s /\ e \in sink[s].batch /\ ~ok
        BY <1>2, <1>3, <3>3
    <3>4. CASE work.at = s /\ e \in sink[s].batch /\ ok
      <4>1. Durable(<<e, s[1]>>)'
          BY <3>4
      <4>2. Durable(<<e, s[1]>>)' => Durable(<<e, work.at[1]>>)'
          BY <2>1, <3>4 DEF Durable
      <4> QED BY <4>1, <4>2
    <3> QED BY <2>4, <3>1, <3>2, <3>3, <3>4
  <2>5. WorkOK'
      BY <1>0, <1>3, <1>10, <2>1, <2>2, <2>3, <2>4, WorkHeld DEF AtSink
  <2>6. TypeOK'
      BY <1>0, <1>3, <1>4, <2>1 DEF TypeOK, Steady
  <2> QED BY <1>0, <1>7, <1>8, <1>9, <1>10, <2>5, <2>6, RowsKeep DEF DeliveryInv
<1> QED BY <1>11, <1>12

LEMMA ToType ==
  ASSUME TypeOK, NEW s \in Sink
  PROVE  /\ sink[s].batch \subseteq Event /\ sink[s].buf \subseteq Event
         /\ To(s[1], sink[s].batch) \subseteq Event \X Dest
         /\ \A e \in sink[s].batch : <<e, s[1]>> \in To(s[1], sink[s].batch)
         /\ \A x \in To(s[1], sink[s].batch) : x[2] = s[1]
<1>1. sink[s].batch \subseteq Event /\ sink[s].buf \subseteq Event /\ s[1] \in Dest
    BY SinkPair DEF TypeOK, Instance
<1> QED BY <1>1 DEF To

\* An HTTP request that succeeds, one that does not, and a failed Parquet file.
LEMMA SendInv ==
  ASSUME DeliveryInv, NEW s \in Sink, SendBatch(s) \/ SendFails(s) \/ PartitionFails(s)
  PROVE  DeliveryInv'
<1>0. TypeOK
    BY DEF DeliveryInv
<1>1. /\ sink[s].batch \subseteq Event /\ sink[s].buf \subseteq Event
      /\ To(s[1], sink[s].batch) \subseteq Event \X Dest
      /\ \A e \in sink[s].batch : <<e, s[1]>> \in To(s[1], sink[s].batch)
    BY <1>0, ToType
<1>2. /\ sink[s].lock # "nobody" /\ Steady /\ UNCHANGED <<kind, outbox, listed, contested>>
      /\ received' = received \/ received' = received \cup To(s[1], sink[s].batch)
    BY DEF SendBatch, SendFails, PartitionFails, FailBatch, Steady
<1>3. received \subseteq received' /\ received' \subseteq Event \X Dest /\ Grows /\ listed' \subseteq Event \X Dest
    BY <1>0, <1>1, <1>2 DEF TypeOK, Grows
<1>4. \A t \in Sink : ListedAt(t[1])' = ListedAt(t[1])
    BY <1>2 DEF ListedAt
<1>5. CASE SendBatch(s)
  <2>1. /\ sink' = Released(s, sink[s].buf) /\ Returns(s, TRUE) /\ kind[s[1]] = "http"
        /\ received' = received \cup To(s[1], sink[s].batch)
      BY <1>5 DEF SendBatch
  <2>2. \A e \in sink[s].batch : Durable(<<e, s[1]>>)'
      BY <1>1, <1>2, <2>1 DEF Durable
  <2> QED BY <1>1, <1>2, <1>3, <1>4, <2>1, <2>2, ReleasedInv
<1>6. CASE SendFails(s) \/ PartitionFails(s)
  <2> PICK buf : buf = Restored(s)
      OBVIOUS
  <2>1. sink' = Released(s, buf) /\ Returns(s, FALSE)
      BY <1>6 DEF SendFails, PartitionFails, FailBatch
  <2>2. buf = sink[s].batch \cup sink[s].buf /\ buf \in SUBSET Event
      BY <1>1 DEF Restored
  <2> QED BY <1>1, <1>2, <1>3, <1>4, <2>1, <2>2, ReleasedInv
<1> QED BY <1>5, <1>6

LEMMA WriteFileInv ==
  ASSUME DeliveryInv, NEW s \in Sink, WriteFile(s)
  PROVE  DeliveryInv'
<1>0. TypeOK /\ WorkOK /\ RowsOK /\ SinkOK(s) /\ sink[s] \in Instance
    BY DEF DeliveryInv, TypeOK
<1> PICK v : v = [sink[s] EXCEPT !.wrote = TRUE, !.seen = ListedAt(s[1])]
    OBVIOUS
<1>1. /\ sink' = [sink EXCEPT ![s] = v] /\ kind[s[1]] = "parquet" /\ sink[s].lock # "nobody"
      /\ UNCHANGED <<kind, outbox, live, received, listed, work, closing, contested, replaces>>
    BY <1>0 DEF WriteFile, TypeOK
<1>2. ListedAt(s[1]) \subseteq Event \X Dest /\ \A x \in ListedAt(s[1]) : x[2] = s[1]
    BY <1>0 DEF TypeOK, ListedAt
<1>3. /\ v \in Instance /\ v.lock = sink[s].lock /\ v.batch = sink[s].batch /\ v.buf = sink[s].buf
      /\ v.closed = sink[s].closed /\ v.wrote /\ v.seen = ListedAt(s[1])
    BY <1>0, <1>2 DEF Instance
<1>4. sink'[s] = v /\ (\A t \in Sink : t # s => sink'[t] = sink[t])
    BY <1>0, <1>1 DEF TypeOK
<1>5. /\ ListedAt(s[1])' = ListedAt(s[1]) /\ (Live(s)' <=> Live(s))
      /\ Kept /\ Grows /\ NoneDelivered /\ Steady
    BY <1>1 DEF ListedAt, Live, Kept, Grows, NoneDelivered, Steady
<1>6. ~(s[2] > replaces)
    BY <1>0, <1>1 DEF SinkOK, Fresh
<1>7. SinkOK(s)'
    BY <1>0, <1>1, <1>2, <1>3, <1>4, <1>5, <1>6 DEF SinkOK
<1>8. sink' \in [Sink -> Instance] /\ LiveOK' /\ (\A t \in Sink : SinkOK(t))'
    BY <1>1, <1>3, <1>5, <1>7, SinkChange
<1>9. WorkOK'
  <2>1. work.pc \in AtSink => work.at \in Sink
      BY <1>0 DEF WorkOK
  <2> QED BY <1>0, <1>1, <1>3, <1>4, <1>5, <2>1, WorkHeld DEF AtSink
<1>10. TypeOK'
    BY <1>0, <1>1, <1>8 DEF TypeOK
<1> QED BY <1>0, <1>5, <1>8, <1>9, <1>10, RowsKeep DEF DeliveryInv

\* The manifest of an uncontested destination grows: only its active sink
\* writes it, so that what was read is what it still names.
LEMMA WriteManifestInv ==
  ASSUME DeliveryInv, NEW s \in Sink, WriteManifest(s)
  PROVE  DeliveryInv'
<1>0. TypeOK /\ SinkOK(s) /\ sink[s] \in Instance
    BY DEF DeliveryInv, TypeOK
<1>1. /\ sink[s].batch \subseteq Event /\ sink[s].buf \subseteq Event
      /\ To(s[1], sink[s].batch) \subseteq Event \X Dest
      /\ \A e \in sink[s].batch : <<e, s[1]>> \in To(s[1], sink[s].batch)
      /\ \A x \in To(s[1], sink[s].batch) : x[2] = s[1]
    BY <1>0, ToType
<1>2. /\ sink[s].wrote /\ sink[s].lock # "nobody" /\ kind[s[1]] = "parquet"
      /\ sink[s].seen \subseteq Event \X Dest /\ \A x \in sink[s].seen : x[2] = s[1]
    BY <1>0 DEF WriteManifest, SinkOK, Instance
<1>3. /\ Steady /\ UNCHANGED <<kind, outbox, contested>> /\ Returns(s, TRUE)
      /\ sink' = Released(s, sink[s].buf)
      /\ received' = received \cup To(s[1], sink[s].batch)
      /\ listed' = (listed \ ListedAt(s[1])) \cup sink[s].seen \cup To(s[1], sink[s].batch)
    BY DEF WriteManifest, NewManifest, Steady
<1>4. received' \subseteq Event \X Dest /\ listed' \subseteq Event \X Dest
    BY <1>0, <1>1, <1>2, <1>3 DEF TypeOK
<1>5. Grows
  <2>1. ASSUME NEW x \in listed PROVE x \in listed' \/ (kind[x[2]] = "parquet" /\ x[2] \in contested')
    <3>1. CASE x[2] # s[1]
        BY <1>3, <3>1 DEF ListedAt
    <3>2. CASE x[2] = s[1] /\ s[1] \in contested
        BY <1>2, <1>3, <3>2
    <3>3. CASE x[2] = s[1] /\ s[1] \notin contested
        BY <1>0, <1>2, <1>3, <3>3 DEF ListedAt, SinkOK
    <3> QED BY <3>1, <3>2, <3>3
  <2> QED BY <1>3, <2>1 DEF Grows
<1>6. \A e \in sink[s].batch : Durable(<<e, s[1]>>)'
    BY <1>1, <1>3 DEF Durable
<1>7. ASSUME NEW t \in Sink, t # s, sink[t].wrote, t[1] \notin contested
      PROVE  ListedAt(t[1])' = ListedAt(t[1])
  <2>1. t[1] # s[1]
    <3> SUFFICES ASSUME t[1] = s[1] PROVE FALSE
        OBVIOUS
    <3>1. SinkOK(t)
        BY DEF DeliveryInv
    <3>2. Live(t) /\ Live(s)
        BY <1>0, <1>2, <1>7, <3>1 DEF SinkOK
    <3>3. t[2] = s[2]
        BY <3>2 DEF Live
    <3> QED BY <1>7, <3>3, SinkPair
  <2> QED BY <1>1, <1>2, <1>3, <2>1 DEF ListedAt
<1> QED BY <1>1, <1>2, <1>3, <1>4, <1>5, <1>6, <1>7, ReleasedInv

-----------------------------------------------------------------------------
(* Replace and Crash. *)

\* Close of the replaced sinks that does not flush a batch.
LEMMA CloseInv ==
  ASSUME DeliveryInv, NEW s \in Sink, CloseNDJSON(s) \/ CloseDirect(s) \/ BeginClose(s) \/ CloseEmpty(s)
  PROVE  DeliveryInv'
<1>0. TypeOK /\ WorkOK /\ RowsOK /\ SinkOK(s) /\ sink[s] \in Instance
    BY DEF DeliveryInv, TypeOK
<1>1. /\ s \in closing /\ closing' \in {closing, closing \ {s}} /\ work' = work
      /\ UNCHANGED <<kind, outbox, live, listed, contested, replaces>>
    BY DEF CloseNDJSON, CloseDirect, BeginClose, CloseEmpty, MayClose
<1>2. ~Live(s) /\ s[2] <= replaces /\ ~(s[2] > replaces)
    BY <1>0, <1>1, SinkPair DEF SinkOK, TypeOK
<1>3. Kept /\ NoneDelivered /\ Steady /\ closing' \subseteq closing
    BY <1>1 DEF Kept, NoneDelivered, Steady
<1>4. work.pc \in AtSink => work.at \in Sink
    BY <1>0 DEF WorkOK
<1>5. CASE CloseNDJSON(s)
  <2>1. FlushFile(s, TRUE) /\ kind[s[1]] = "ndjson" /\ s \notin closing'
      BY <1>5 DEF CloseNDJSON
  <2>2. /\ sink' \in [Sink -> Instance] /\ LiveOK' /\ (\A t \in Sink : SinkOK(t))'
        /\ received \subseteq received' /\ received' \subseteq Event \X Dest
        /\ \A t \in Sink : t # s => sink'[t] = sink[t]
        /\ \A e \in sink[s].buf : e \in sink'[s].buf \/ <<e, s[1]>> \in received'
      BY <1>1, <1>2, <1>3, <2>1, FlushFileOK
  <2>3. Grows
      BY <1>1, <2>2 DEF Grows
  <2>4. sink[s].lock = "nobody" /\ sink[s].batch = {}
      BY <1>0, <2>1 DEF SinkOK, Buffered
  <2>5. ASSUME work.pc \in {"flush", "lock"}, NEW e \in sink[work.at].buf \cup sink[work.at].batch
        PROVE  e \in sink'[work.at].buf \cup sink'[work.at].batch \/ Durable(<<e, work.at[1]>>)'
    <3>1. CASE work.at # s
        BY <1>4, <2>2, <2>5, <3>1 DEF AtSink
    <3>2. CASE work.at = s
      <4>1. e \in sink'[s].buf \/ <<e, s[1]>> \in received'
          BY <2>2, <2>4, <2>5, <3>2
      <4>2. <<e, s[1]>> \in received' => Durable(<<e, work.at[1]>>)'
          BY <1>1, <2>1, <3>2 DEF Durable
      <4> QED BY <3>2, <4>1, <4>2
    <3> QED BY <3>1, <3>2
  <2>6. work.pc = "sending" => work.at # s
      BY <1>0, <2>4 DEF WorkOK
  <2>7. WorkOK'
      BY <1>0, <1>1, <1>3, <1>4, <2>2, <2>3, <2>5, <2>6, WorkHeld DEF AtSink
  <2>8. TypeOK'
      BY <1>0, <1>1, <2>2 DEF TypeOK
  <2> QED BY <1>0, <1>3, <2>2, <2>3, <2>7, <2>8, RowsKeep DEF DeliveryInv
<1>6. CASE CloseEmpty(s)
  <2>1. sink' = sink /\ received' = received
      BY <1>6 DEF CloseEmpty
  <2>2. Grows
      BY <1>1, <2>1 DEF Grows
  <2>3. WorkOK'
      BY <1>0, <1>1, <1>3, <2>1, <2>2, WorkKeeps
  <2>4. TypeOK'
      BY <1>0, <1>1, <2>1 DEF TypeOK
  <2> QED BY <1>0, <1>1, <1>3, <2>1, <2>2, <2>3, <2>4, RowsKeep, SinksKeep DEF DeliveryInv
<1>7. CASE CloseDirect(s) \/ BeginClose(s)
  <2> PICK v : v = [sink[s] EXCEPT !.closed = TRUE]
      OBVIOUS
  <2>1. /\ sink' = [sink EXCEPT ![s] = v] /\ received' = received
        /\ s \in closing' => kind[s[1]] \in Buffered
      BY <1>0, <1>7 DEF CloseDirect, BeginClose, TypeOK
  <2>2. /\ v \in Instance /\ v.lock = sink[s].lock /\ v.batch = sink[s].batch /\ v.buf = sink[s].buf
        /\ v.wrote = sink[s].wrote /\ v.seen = sink[s].seen
      BY <1>0 DEF Instance
  <2>3. sink'[s] = v /\ (\A t \in Sink : t # s => sink'[t] = sink[t])
      BY <1>0, <2>1 DEF TypeOK
  <2>4. ListedAt(s[1])' = ListedAt(s[1]) /\ (Live(s)' <=> Live(s)) /\ Grows
      BY <1>1, <2>1 DEF ListedAt, Live, Grows
  <2>5. SinkOK(s)'
      BY <1>0, <1>1, <1>2, <1>3, <2>1, <2>2, <2>3, <2>4 DEF SinkOK
  <2>6. sink' \in [Sink -> Instance] /\ LiveOK' /\ (\A t \in Sink : SinkOK(t))'
      BY <1>1, <1>3, <2>1, <2>2, <2>5, SinkChange
  <2>7. WorkOK'
      BY <1>0, <1>1, <1>3, <1>4, <2>2, <2>3, <2>4, WorkHeld DEF AtSink
  <2>8. TypeOK'
      BY <1>0, <1>1, <2>1, <2>6 DEF TypeOK
  <2> QED BY <1>0, <1>3, <2>4, <2>6, <2>7, <2>8, RowsKeep DEF DeliveryInv
<1> QED BY <1>5, <1>6, <1>7

\* Replace: a replaced sink was idle, or its destination is contested.
LEMMA ReplaceInv ==
  ASSUME DeliveryInv, NEW keep \in SUBSET Conn, Replace(keep)
  PROVE  DeliveryInv'
<1>0. TypeOK /\ LiveOK /\ WorkOK /\ RowsOK /\ \A s \in Sink : SinkOK(s)
    BY DEF DeliveryInv
<1>1. /\ closing = {} /\ replaces < MaxReplace /\ replaces' = replaces + 1
      /\ live' = [d \in Static \cup keep |-> IF d \in Static THEN 0 ELSE replaces + 1]
      /\ closing' = {<<d, live[d]>> : d \in DOMAIN live \ Static}
      /\ contested' = contested \cup {s[1] : s \in {t \in closing' : Busy(t)}}
      /\ UNCHANGED <<kind, outbox, sink, received, listed, work>>
    BY DEF Replace
<1>2. replaces \in Nat /\ replaces' \in Nat /\ replaces' <= MaxReplace /\ MaxReplace \in Nat
    BY <1>0, <1>1, DeliveryAssumption DEF TypeOK
<1>3. \A d \in DOMAIN live : live[d] \in Nat /\ live[d] <= replaces /\ d \in Dest
    BY <1>0, <1>2 DEF LiveOK
<1>4. closing' \subseteq Sink /\ \A s \in closing' : Live(s) /\ s[1] \notin Static
  <2>1. ASSUME NEW d \in DOMAIN live \ Static
        PROVE  <<d, live[d]>> \in Sink /\ Live(<<d, live[d]>>)
    <3> PICK g : g = live[d]
        OBVIOUS
    <3>0. g \in Nat /\ g <= replaces /\ d \in Dest
        BY <1>3
    <3>1. g \in Nat /\ g <= MaxReplace /\ d \in Dest
        BY <1>1, <1>2, <3>0
    <3>2. Live(<<d, live[d]>>)
        BY DEF Live
    <3> QED BY <3>1, <3>2, SinkIs
  <2> QED BY <1>1, <2>1
<1>5. \A s \in Sink : Live(s) /\ s[1] \notin Static => s \in closing'
  <2> SUFFICES ASSUME NEW s \in Sink, Live(s), s[1] \notin Static PROVE s \in closing'
      OBVIOUS
  <2>1. s = <<s[1], live[s[1]]>> /\ s[1] \in DOMAIN live \ Static
      BY SinkPair DEF Live
  <2> QED BY <1>1, <2>1
<1>6. contested \subseteq contested' /\ contested' \subseteq Dest
      /\ \A s \in closing' : Busy(s) => s[1] \in contested'
    BY <1>0, <1>1, <1>4, SinkPair DEF TypeOK
<1>7. Kept /\ Grows /\ NoneDelivered
    BY <1>1, <1>6 DEF Kept, Grows, NoneDelivered
<1>8. \A d \in DOMAIN live' : d \in Dest /\ live'[d] = IF d \in Static THEN 0 ELSE replaces + 1
    BY <1>1 DEF Dest
<1>9. LiveOK'
  <2>1. Static \subseteq DOMAIN live' /\ DOMAIN live' \subseteq Dest /\ live' = [d \in DOMAIN live' |-> live'[d]]
      BY <1>1, <1>8
  <2>2. ASSUME NEW d \in DOMAIN live' PROVE live'[d] \in 0 .. replaces' /\ (d \in Static => live'[d] = 0)
      BY <1>1, <1>2, <1>8
  <2> QED BY <2>1, <2>2 DEF LiveOK
<1>10. ASSUME NEW s \in Sink, s[1] \in Static PROVE Live(s)' <=> Live(s)
    BY <1>0, <1>1, <1>8, <1>10 DEF LiveOK, Live
<1>11. ASSUME NEW s \in Sink, s[1] \notin Static, Live(s)' PROVE sink[s] = Fresh /\ ~Live(s) /\ s[2] = replaces + 1
  <2>1. s[2] = replaces + 1
      BY <1>8, <1>11 DEF Live
  <2>2. s[2] > replaces
      BY <1>2, <2>1
  <2>3. ~Live(s)
      BY <1>2, <1>3, <2>1 DEF Live
  <2> QED BY <1>0, <2>1, <2>2, <2>3 DEF SinkOK
<1>12. ASSUME NEW s \in Sink PROVE SinkOK(s)'
  <2>1. SinkOK(s) /\ sink'[s] = sink[s] /\ ListedAt(s[1])' = ListedAt(s[1]) /\ kind' = kind /\ work' = work
      BY <1>0, <1>1 DEF ListedAt
  <2>2. s[2] \in Nat
      BY SinkPair
  <2>3. s \in closing' => ~Live(s)' /\ s[2] <= replaces' /\ ~sink[s].closed
    <3> SUFFICES ASSUME s \in closing' PROVE ~Live(s)' /\ s[2] <= replaces' /\ ~sink[s].closed
        OBVIOUS
    <3>1. Live(s) /\ s[1] \notin Static
        BY <1>4
    <3>2. s[2] <= replaces
        BY <1>3, <3>1 DEF Live
    <3> QED BY <1>1, <1>2, <1>11, <2>1, <2>2, <3>1, <3>2 DEF SinkOK
  <2>4. Live(s)' => ~sink[s].closed /\ sink[s].lock # "close"
      BY <1>10, <1>11, <2>1 DEF SinkOK, Fresh
  <2>5. s[2] > replaces' => sink[s] = Fresh
    <3> SUFFICES ASSUME s[2] > replaces' PROVE sink[s] = Fresh
        OBVIOUS
    <3>1. s[2] > replaces
        BY <1>1, <1>2, <2>2
    <3> QED BY <2>1, <3>1 DEF SinkOK
  <2>6. ~Live(s)' /\ s[1] \notin contested' => sink[s].buf = {} /\ sink[s].batch = {}
    <3> SUFFICES ASSUME ~Live(s)', s[1] \notin contested' PROVE sink[s].buf = {} /\ sink[s].batch = {}
        OBVIOUS
    <3>1. CASE Live(s)
      <4>1. s \in closing'
          BY <1>5, <1>10, <3>1
      <4> QED BY <1>6, <4>1 DEF Busy
    <3>2. CASE ~Live(s)
        BY <1>6, <2>1, <3>2 DEF SinkOK
    <3> QED BY <3>1, <3>2
  <2>7. s[1] \notin contested' => s[1] \notin contested
      BY <1>6
  <2> QED BY <2>1, <2>3, <2>4, <2>5, <2>6, <2>7 DEF SinkOK
<1>13. WorkOK'
  <2>1. CASE work.pc = "idle"
      BY <1>0, <1>1, <2>1 DEF WorkOK, AtSink
  <2>2. CASE work.pc # "idle"
    <3> PICK x : x = Target
        OBVIOUS
    <3> PICK s : s = work'.at
        OBVIOUS
    <3>1. /\ x[2] = Current.dest
          /\ work.pc \in AtSink => s \in Sink /\ s[1] = x[2] /\ s[2] <= replaces /\ (Live(s) \/ x[2] \in contested)
          /\ work.pc \in {"lock", "sending"} => kind[x[2]] \in Buffered
          /\ work.pc = "flush" => kind[x[2]] # "direct"
          /\ work.pc \in {"flush", "lock"} => Durable(x) \/ x[1] \in sink[s].buf \cup sink[s].batch
          /\ work.pc = "sending" => sink[s].lock = "delivery" /\ (Durable(x) \/ x[1] \in sink[s].batch)
          /\ work.pc = "ack" => Durable(x)
        BY <1>0, <1>1, <2>2, WorkFacts
    <3>2. Durable(x) => Durable(x)'
        BY <1>7, DurableKeeps
    <3>3. work.pc \in AtSink => s[2] <= replaces' /\ (Live(s)' \/ x[2] \in contested')
      <4> SUFFICES ASSUME work.pc \in AtSink PROVE s[2] <= replaces' /\ (Live(s)' \/ x[2] \in contested')
          OBVIOUS
      <4>1. s \in Sink /\ s[1] = x[2] /\ s[2] \in Nat /\ s[2] <= replaces
          BY <3>1, SinkPair
      <4>2. CASE x[2] \in contested
          BY <1>1, <1>2, <1>6, <4>1, <4>2
      <4>3. CASE Live(s) /\ s[1] \in Static
          BY <1>1, <1>2, <1>10, <4>1, <4>3
      <4>4. CASE Live(s) /\ s[1] \notin Static
        <5>1. s \in closing' /\ Busy(s)
            BY <1>1, <1>5, <4>1, <4>4 DEF Busy, AtSink
        <5> QED BY <1>1, <1>2, <1>6, <4>1, <5>1
      <4> QED BY <3>1, <4>2, <4>3, <4>4
    <3> QED BY <1>0, <1>1, <1>7, <2>2, <3>1, <3>2, <3>3, WorkStep
  <2> QED BY <2>1, <2>2
<1>14. TypeOK'
    BY <1>0, <1>1, <1>2, <1>4, <1>6 DEF TypeOK
<1> QED BY <1>0, <1>7, <1>9, <1>12, <1>13, <1>14, RowsKeep DEF DeliveryInv

LEMMA FreshType == Fresh \in Instance
  BY DEF Fresh, Instance, Holder

\* All sinks new, as after a start.
LEMMA AllFresh ==
  ASSUME NEW s \in Sink, sink[s] = Fresh, closing = {}
  PROVE  SinkOK(s)
  BY DEF SinkOK, Fresh

LEMMA AllFreshNext ==
  ASSUME NEW s \in Sink, sink'[s] = Fresh, closing' = {}
  PROVE  SinkOK(s)'
  BY DEF SinkOK, Fresh

LEMMA CrashInv ==
  ASSUME DeliveryInv, Crash
  PROVE  DeliveryInv'
<1>0. TypeOK /\ LiveOK /\ RowsOK
    BY DEF DeliveryInv
<1>1. /\ sink' = [s \in Sink |-> Fresh] /\ live' = [d \in DOMAIN live |-> 0] /\ closing' = {}
      /\ work' = [pc |-> "idle", batch |-> <<>>, at |-> Nowhere]
      /\ UNCHANGED <<kind, outbox, received, listed, contested, replaces>>
    BY DEF Crash, Idle
<1>2. \A s \in Sink : SinkOK(s)'
    BY <1>1, AllFreshNext
<1>3. LiveOK'
  <2>1. replaces' \in Nat /\ DOMAIN live' = DOMAIN live /\ \A d \in DOMAIN live' : live'[d] = 0
      BY <1>0, <1>1 DEF TypeOK
  <2> QED BY <1>0, <1>1, <2>1 DEF LiveOK
<1>4. WorkOK'
    BY <1>1 DEF WorkOK, AtSink
<1>5. TypeOK'
    BY <1>0, <1>1, FreshType DEF TypeOK, Steps
<1>6. RowsOK'
    BY <1>0, <1>1 DEF RowsOK, Durable
<1> QED BY <1>2, <1>3, <1>4, <1>5, <1>6 DEF DeliveryInv

-----------------------------------------------------------------------------
(* The theorems. *)

LEMMA InitInv ==
  ASSUME Init
  PROVE  DeliveryInv
<1>1. /\ kind \in [Dest -> Kind] /\ outbox = <<>> /\ live = [d \in Dest |-> 0] /\ sink = [s \in Sink |-> Fresh]
      /\ received = {} /\ listed = {} /\ work = [pc |-> "idle", batch |-> <<>>, at |-> Nowhere]
      /\ closing = {} /\ contested = {} /\ replaces = 0
    BY DeliveryAssumption DEF Init, Idle
<1>2. \A s \in Sink : SinkOK(s)
    BY <1>1, AllFresh
<1>3. TypeOK
    BY <1>1, FreshType, DeliveryAssumption DEF TypeOK, Steps
<1>4. LiveOK
    BY <1>1 DEF LiveOK, Dest
<1>5. WorkOK /\ RowsOK
    BY <1>1 DEF WorkOK, RowsOK, AtSink
<1> QED BY <1>2, <1>3, <1>4, <1>5 DEF DeliveryInv

LEMMA StepInv ==
  ASSUME DeliveryInv, [Next]_vars
  PROVE  DeliveryInv'
<1>1. CASE UNCHANGED vars
  <2>1. UNCHANGED <<kind, outbox, live, sink, received, listed, work, closing, contested, replaces>>
      BY <1>1 DEF vars
  <2> QED BY <2>1 DEF DeliveryInv, TypeOK, LiveOK, SinkOK, WorkOK, RowsOK, Live, Durable, Current, Target, ListedAt
<1>2. CASE Deliver
  <2>1. CASE EmitNDJSON \/ EmitHTTP \/ EmitParquet
      BY <2>1, EmitBufferInv DEF EmitNDJSON, EmitHTTP, EmitParquet
  <2> QED BY <1>2, <2>1, FetchInv, AckInv, LookupInv, EmitDirectInv, FlushNDJSONInv, FlushBufferedInv, BeginFlushInv
          DEF Deliver
<1>3. CASE \E e \in Event : Enqueue(e)
    BY <1>3, EnqueueInv
<1>4. CASE \E i \in DOMAIN outbox : BecomesDue(i)
    BY <1>4, BecomesDueInv
<1>5. CASE \E s \in Sink : EndFlush(s) \/ SendFails(s) \/ PartitionFails(s) \/ FlushLoop(s) \/ CloseOld(s)
    BY <1>5, SendInv, WriteFileInv, WriteManifestInv, OthersTakeInv, CloseInv DEF EndFlush, CloseOld
<1>6. CASE \E keep \in SUBSET Conn : Replace(keep)
    BY <1>6, ReplaceInv
<1>7. CASE Crash
    BY <1>7, CrashInv
<1> QED BY <1>1, <1>2, <1>3, <1>4, <1>5, <1>6, <1>7 DEF Next

LEMMA AlwaysInv == Spec => []DeliveryInv
  BY InitInv, StepInv, PTL DEF Spec

\* A delivered row is one of the outbox.
LEMMA DeliveredRow ==
  ASSUME DeliveryInv, NEW x \in Delivered
  PROVE  Durable(x)
<1> PICK i \in DOMAIN outbox : outbox[i].status = "delivered" /\ x = <<outbox[i].event, outbox[i].dest>>
    BY DEF Delivered
<1> QED BY DEF DeliveryInv, RowsOK

\* EmitTo returns nil only when the event is durable at its destination: for
\* any events, destinations and sinks, through any number of flushes of
\* flushLoop and Close that run at the same time, failed batches, store
\* errors, configuration changes and crashes.
THEOREM DeliveryDurable == Spec => []DeliveredIsDurable
<1>1. DeliveryInv => DeliveredIsDurable
    BY DeliveredRow DEF DeliveredIsDurable, Durable
<1> QED BY <1>1, AlwaysInv, PTL

\* manifest.json of a Parquet destination names the file of every delivered
\* event, although each flush writes back the manifest it has read.
THEOREM DeliveryListed == Spec => []ManifestNamesDelivered
<1>1. DeliveryInv => ManifestNamesDelivered
    BY DeliveredRow DEF ManifestNamesDelivered, Durable
<1> QED BY <1>1, AlwaysInv, PTL

=============================================================================
