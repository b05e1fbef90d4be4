--------------------------- MODULE PipelineProofs ---------------------------
(***************************************************************************)
(* Theorems about Pipeline for every value of its constants: any number of *)
(* workers, replays, inputs, children, destinations, store errors and      *)
(* crashes.                                                                *)
(***************************************************************************)
EXTENDS PipelineCustody, FiniteSetTheorems, TLAPS

-----------------------------------------------------------------------------
(* The inductive strengthening of TypeOK. *)

\* A record in the queue or with a worker is a known input or an existing row.
Known(raw, in) == IF raw = NoRaw THEN in \in Input ELSE rawStatus[raw] # "absent"

\* Past the commit the worker holds an existing row and its bytes; past the
\* decoding the bytes are decodable; in the loop there is a child to handle.
WorkerOK(k) ==
    /\ k.pc = "commit" => Known(k.raw, k.in)
    /\ k.pc \notin {"idle", "commit"} =>
          /\ k.raw \in RawId
          /\ rawStatus[k.raw] # "absent"
          /\ k.in = rawIn[k.raw]
    /\ k.pc \notin {"idle", "commit", "decode", "setstatus"} => k.in \notin Broken
    /\ k.pc \in {"check", "process", "storeerr", "emit", "undo", "sinkerr"} => k.next < Kids[k.in]

WorkersOK == \A w \in Worker : WorkerOK(wk[w])
QueueOK == \A n \in 1 .. Len(inbound) : Known(inbound[n].raw, inbound[n].in)
RecoverOK == \A r \in toRecover : rawStatus[r] # "absent"
RowsOK == \A x \in quar : rawStatus[x[1]] # "absent"
Finite == IsFiniteSet(norm) /\ IsFiniteSet(quar)

TypeInv == TypeOK /\ WorkersOK /\ QueueOK /\ RecoverOK /\ RowsOK /\ Finite

\* Rows of raw_events are never deleted and their bytes never change.
Persists ==
    \A r \in RawId : rawStatus[r] # "absent" => rawStatus'[r] # "absent" /\ rawIn'[r] = rawIn[r]

-----------------------------------------------------------------------------
(* Lemmas on the operators of the model. *)

\* The derived parent status is always final.
LEMMA ParentStatusFinal == \A n, q : ParentStatus(n, q) \in Final
BY DEF ParentStatus, Final

LEMMA OutcomeStatusFinal == \A r, ns, qs : OutcomeStatus(r, ns, qs) \in Final
BY ParentStatusFinal DEF OutcomeStatus

\* The number of outcomes of a raw record is a natural number.
LEMMA CompletedIsNat ==
    ASSUME Finite, NEW r
    PROVE  CountCompletedChildren(r) \in Nat
<1>1. IsFiniteSet(RowsOf(norm, r)) /\ IsFiniteSet(RowsOf(quar, r))
  <2>1. RowsOf(norm, r) \subseteq norm /\ RowsOf(quar, r) \subseteq quar
    BY DEF RowsOf
  <2> QED BY <2>1, FS_Subset DEF Finite
<1>2. Cardinality(RowsOf(norm, r)) \in Nat /\ Cardinality(RowsOf(quar, r)) \in Nat
  BY <1>1, FS_CardinalityType
<1> QED BY <1>2 DEF CountCompletedChildren

\* Only finitely many raw records wait for recovery.
LEMMA AcceptedIsNat == Cardinality(RawByStatus("accepted")) \in Nat
<1>1. IsFiniteSet(RawId)
  BY StoreAssumption, FS_Interval DEF RawId
<1>2. RawByStatus("accepted") \subseteq RawId
  BY DEF RawByStatus
<1> QED BY <1>1, <1>2, FS_Subset, FS_CardinalityType

\* The loop goes on to a phase of its own, and into its body only with a child.
LEMMA LoopPhaseType ==
    ASSUME NEW i, NEW recov, NEW n, NEW unres
    PROVE  /\ LoopPhase(i, recov, n, unres) \in {"check", "process", "setstatus", "count"}
           /\ LoopPhase(i, recov, n, unres) \in {"check", "process"} => n < Kids[i]
           /\ LoopPhase(i, recov, n, unres) = "count" => ~(n < Kids[i]) /\ ~unres
BY DEF LoopPhase

\* Ending the loop body keeps the worker well-typed and its record.
LEMMA AdvanceType ==
    ASSUME NEW k \in WorkerState, NEW u \in BOOLEAN
    PROVE  /\ Advance(k, u) \in WorkerState
           /\ Advance(k, u).pc = LoopPhase(k.in, k.recov, k.next + 1, k.unres \/ u)
           /\ Advance(k, u).raw = k.raw
           /\ Advance(k, u).in = k.in
           /\ Advance(k, u).next = k.next + 1
           /\ Advance(k, u).unres = (k.unres \/ u)
           /\ Advance(k, u).st = k.st
<1> DEFINE p == LoopPhase(k.in, k.recov, k.next + 1, k.unres \/ u)
<1>1. p \in Phase
  BY LoopPhaseType DEF Phase
<1>2. Advance(k, u) = [k EXCEPT !.next = k.next + 1, !.unres = k.unres \/ u, !.pc = p]
  BY DEF Advance
<1> HIDE DEF p
<1>3. k.next + 1 \in Nat /\ (k.unres \/ u) \in BOOLEAN
  BY DEF WorkerState
<1> QED BY <1>1, <1>2, <1>3 DEF WorkerState, p

-----------------------------------------------------------------------------
(* TypeInv is inductive. *)

LEMMA TypeInit == Init => TypeInv
<1> SUFFICES ASSUME Init PROVE TypeInv
  OBVIOUS
<1> USE StoreAssumption, PipelineAssumption DEF Init, StoreInit
<1>1. StoreTypeOK
  BY DEF StoreTypeOK
<1>2. wk \in [Worker -> WorkerState]
  BY DEF IdleWorker, WorkerState, Phase, RawStatus, NoRaw
<1>3. rp \in [Replayer -> [pc : {"idle", "commit"}, q : (RawId \X Nat \X Why) \cup {NoRow}]]
  BY DEF IdleReplay
<1>4. TypeOK
  BY <1>1, <1>2, <1>3 DEF TypeOK
<1>5. WorkersOK
  BY DEF WorkersOK, WorkerOK, IdleWorker
<1>6. Finite
  BY FS_EmptySet DEF Finite
<1> QED BY <1>4, <1>5, <1>6 DEF TypeInv, QueueOK, RecoverOK, RowsOK

\* A step of one worker that moves neither the queue nor the replays keeps the
\* facts about everyone else.
LEMMA OthersKeep ==
    ASSUME TypeInv, Persists, NEW w \in Worker,
           \A v \in Worker : v # w => wk'[v] = wk[v],
           WorkerOK(wk[w])',
           inbound' = inbound, toRecover' = toRecover
    PROVE  WorkersOK' /\ QueueOK' /\ RecoverOK'
<1> USE DEF TypeInv, TypeOK, Persists, Known
<1>1. \A v \in Worker : v # w => WorkerOK(wk[v])'
  BY DEF WorkersOK, WorkerOK, WorkerState, NoRaw, StoreTypeOK
<1>2. WorkersOK'
  BY <1>1 DEF WorkersOK
<1>3. QueueOK'
  <2> SUFFICES ASSUME NEW n \in 1 .. Len(inbound)
               PROVE  Known(inbound[n].raw, inbound[n].in)'
    BY DEF QueueOK
  <2>1. inbound[n] \in Record /\ Known(inbound[n].raw, inbound[n].in)
    BY DEF QueueOK
  <2> QED BY <2>1 DEF Record, NoRaw
<1>4. RecoverOK'
  BY DEF RecoverOK
<1> QED BY <1>2, <1>3, <1>4

\* What each transaction of the store does to its types.
LEMMA StoreTypes ==
    ASSUME TypeInv
    PROVE  /\ UNCHANGED store => StoreTypeOK' /\ Persists /\ RowsOK' /\ Finite'
           /\ \A r \in RawId, i \in Input :
                 FreshRaw(r) /\ InsertRaw(r, i) => StoreTypeOK' /\ Persists /\ RowsOK' /\ Finite'
           /\ \A r \in RawId, c \in Nat, y \in Why :
                 rawStatus[r] # "absent" /\ QuarantineChild(r, c, y)
                    => StoreTypeOK' /\ Persists /\ RowsOK' /\ Finite'
           /\ \A r \in RawId, c \in Nat, D \in SUBSET Dest :
                 StoreNormalizedWithOutbox(r, c, D)
                    => StoreTypeOK' /\ Persists /\ RowsOK' /\ Finite'
           /\ \A r \in RawId, c \in Nat :
                 DeleteNormalizedChild(r, c) => StoreTypeOK' /\ Persists /\ RowsOK' /\ Finite'
           /\ \A q \in RawId \X Nat \X Why, D \in SUBSET Dest :
                 ResolveQuarantineWithOutbox(q, D)
                    => StoreTypeOK' /\ Persists /\ RowsOK' /\ Finite'
           /\ \A r \in RawId, st \in RawStatus :
                 rawStatus[r] # "absent" /\ UpdateStatus(r, st)
                    => StoreTypeOK' /\ Persists /\ RowsOK' /\ Finite'
           /\ \A row \in Outbox :
                 MarkDelivered(row) => StoreTypeOK' /\ Persists /\ RowsOK' /\ Finite'
<1> USE StoreAssumption DEF TypeInv, TypeOK, StoreTypeOK, Persists, RowsOK
<1>1. UNCHANGED store => StoreTypeOK' /\ Persists /\ RowsOK' /\ Finite'
  BY DEF store, Finite
<1>2. ASSUME NEW r \in RawId, NEW i \in Input, FreshRaw(r), InsertRaw(r, i)
      PROVE  StoreTypeOK' /\ Persists /\ RowsOK' /\ Finite'
  <2>1. rawIn' = [rawIn EXCEPT ![r] = i] /\ rawStatus' = [rawStatus EXCEPT ![r] = "accepted"]
    BY <1>2 DEF InsertRaw
  <2>2. StoreTypeOK'
    BY <1>2, <2>1 DEF InsertRaw, RawStatus
  <2>3. Persists /\ RowsOK'
    BY <1>2, <2>1 DEF InsertRaw, FreshRaw
  <2> QED BY <1>2, <2>2, <2>3 DEF InsertRaw, Finite
<1>3. ASSUME NEW r \in RawId, NEW c \in Nat, NEW y \in Why,
             rawStatus[r] # "absent", QuarantineChild(r, c, y)
      PROVE  StoreTypeOK' /\ Persists /\ RowsOK' /\ Finite'
  <2>1. Finite'
    BY <1>3, FS_AddElement DEF QuarantineChild, Finite
  <2> QED BY <1>3, <2>1 DEF QuarantineChild
<1>4. ASSUME NEW r \in RawId, NEW c \in Nat, NEW D \in SUBSET Dest,
             StoreNormalizedWithOutbox(r, c, D)
      PROVE  StoreTypeOK' /\ Persists /\ RowsOK' /\ Finite'
  <2>1. Finite'
    BY <1>4, FS_AddElement DEF StoreNormalizedWithOutbox, Finite
  <2>2. pend' \subseteq RawId \X Nat \X Dest
    BY <1>4 DEF StoreNormalizedWithOutbox, OutboxUpsert
  <2> QED BY <1>4, <2>1, <2>2 DEF StoreNormalizedWithOutbox, OutboxUpsert
<1>5. ASSUME NEW r \in RawId, NEW c \in Nat, DeleteNormalizedChild(r, c)
      PROVE  StoreTypeOK' /\ Persists /\ RowsOK' /\ Finite'
  <2>1. Finite'
    BY <1>5, FS_RemoveElement DEF DeleteNormalizedChild, Finite
  <2> QED BY <1>5, <2>1 DEF DeleteNormalizedChild
<1>6. ASSUME NEW q \in RawId \X Nat \X Why, NEW D \in SUBSET Dest,
             ResolveQuarantineWithOutbox(q, D)
      PROVE  StoreTypeOK' /\ Persists /\ RowsOK' /\ Finite'
  <2>1. Finite'
    BY <1>6, FS_AddElement, FS_RemoveElement DEF ResolveQuarantineWithOutbox, Finite
  <2>2. PICK st \in Final : rawStatus' = [rawStatus EXCEPT ![q[1]] = st]
    BY <1>6, OutcomeStatusFinal DEF ResolveQuarantineWithOutbox
  <2>3. q[1] \in RawId /\ q[2] \in Nat /\ rawStatus[q[1]] # "absent"
    BY <1>6 DEF ResolveQuarantineWithOutbox
  <2>4. st # "absent" /\ st \in RawStatus
    BY DEF Final, RawStatus
  <2>5. pend' \subseteq RawId \X Nat \X Dest
    BY <1>6, <2>3 DEF ResolveQuarantineWithOutbox, OutboxUpsert
  <2>6. norm' \subseteq RawId \X Nat
    BY <1>6, <2>3 DEF ResolveQuarantineWithOutbox
  <2>7. rawIn' = rawIn /\ quar' \subseteq quar /\ deliv' = deliv
    BY <1>6 DEF ResolveQuarantineWithOutbox, OutboxUpsert
  <2>8. Persists /\ RowsOK'
    BY <2>2, <2>3, <2>4, <2>7
  <2> QED BY <2>1, <2>2, <2>3, <2>4, <2>5, <2>6, <2>7, <2>8
<1>7. ASSUME NEW r \in RawId, NEW st \in RawStatus, rawStatus[r] # "absent", UpdateStatus(r, st)
      PROVE  StoreTypeOK' /\ Persists /\ RowsOK' /\ Finite'
  <2>1. st # "absent"
    BY DEF RawStatus, Final
  <2> QED BY <1>7, <2>1 DEF UpdateStatus, Finite
<1>8. ASSUME NEW row \in Outbox, MarkDelivered(row)
      PROVE  StoreTypeOK' /\ Persists /\ RowsOK' /\ Finite'
  BY <1>8 DEF MarkDelivered, Outbox, Finite
<1> QED BY <1>1, <1>2, <1>3, <1>4, <1>5, <1>6, <1>7, <1>8

\* The two outcomes of a store call keep the bounds.
LEMMA BudgetType ==
    ASSUME TypeInv, StoreWorks \/ StoreFails
    PROVE  submits' \in 0 .. MaxSubmits /\ faults' \in 0 .. MaxFaults /\ crashes' \in 0 .. MaxCrashes
BY PipelineAssumption DEF TypeInv, TypeOK, StoreWorks, StoreFails, budget

\* What is left to show for a step of one worker.
LEMMA WorkerStep ==
    ASSUME TypeInv, NEW w \in Worker,
           StoreTypeOK' /\ Persists /\ RowsOK' /\ Finite',
           StoreWorks \/ StoreFails,
           NEW STATE k, wk' = [wk EXCEPT ![w] = k], k \in WorkerState,
           WorkerOK(wk[w])',
           accepted' \in Int /\ pending' \in Int,
           UNCHANGED <<inbound, toRecover, up, rp, delivery, config>>
    PROVE  TypeInv'
<1>1. wk' \in [Worker -> WorkerState] /\ \A v \in Worker : v # w => wk'[v] = wk[v]
  BY DEF TypeInv, TypeOK
<1>2. WorkersOK' /\ QueueOK' /\ RecoverOK'
  BY <1>1, OthersKeep
<1>3. TypeOK'
  BY <1>1, BudgetType DEF TypeInv, TypeOK, delivery, config
<1> QED BY <1>2, <1>3 DEF TypeInv

LEMMA TypeStoreRecord ==
    ASSUME TypeInv, NEW w \in Worker, StoreRecord(w)
    PROVE  TypeInv'
<1> DEFINE i == wk[w].in
<1>0. wk \in [Worker -> WorkerState] /\ wk[w] \in WorkerState /\ WorkerOK(wk[w]) /\ i \in Input
      /\ accepted \in Int /\ pending \in Int /\ IdleWorker \in WorkerState
  BY StoreAssumption, PipelineAssumption
     DEF TypeInv, TypeOK, WorkersOK, WorkerOK, StoreRecord, Known, WorkerState, IdleWorker,
         Phase, RawStatus
<1>1. UNCHANGED <<inbound, toRecover, up, rp, delivery, config>>
  BY DEF StoreRecord
<1>2. ASSUME Refuse(w), StoreWorks \/ StoreFails
      PROVE  TypeInv'
  <2>1. wk' = [wk EXCEPT ![w] = IdleWorker] /\ UNCHANGED store /\ accepted' \in Int /\ pending' \in Int
    BY <1>0, <1>2 DEF Refuse, Become, Count
  <2>2. WorkerOK(wk[w])'
    BY <1>0, <2>1 DEF WorkerOK, IdleWorker
  <2> QED BY <1>0, <1>1, <1>2, <2>1, <2>2, StoreTypes, WorkerStep
<1>3. ASSUME NEW r \in RawId, FreshRaw(r), InsertRaw(r, i), StoreWorks, UNCHANGED counts,
             Become(w, [wk[w] EXCEPT !.pc = "decode", !.raw = r])
      PROVE  TypeInv'
  <2> DEFINE k == [wk[w] EXCEPT !.pc = "decode", !.raw = r]
  <2>1. k \in WorkerState /\ k.pc = "decode" /\ k.raw = r /\ k.in = i
    BY <1>0 DEF WorkerState, Phase
  <2>2. wk' = [wk EXCEPT ![w] = k] /\ wk'[w] = k
    BY <1>0, <1>3 DEF Become
  <2>3. rawIn'[r] = i /\ rawStatus'[r] = "accepted"
    BY <1>3 DEF InsertRaw, TypeInv, TypeOK, StoreTypeOK
  <2> HIDE DEF k, i
  <2>4. WorkerOK(wk[w])'
    BY <2>1, <2>2, <2>3 DEF WorkerOK
  <2>5. StoreTypeOK' /\ Persists /\ RowsOK' /\ Finite'
    BY <1>0, <1>3, StoreTypes
  <2> QED BY <1>0, <1>1, <1>3, <2>1, <2>2, <2>4, <2>5, WorkerStep DEF counts
<1>4. ASSUME NEW r \in SpoolRows(i), rawIn[r] = i, StoreWorks, UNCHANGED <<store, counts>>,
             Become(w, [wk[w] EXCEPT !.pc = "decode", !.raw = r, !.recov = TRUE])
      PROVE  TypeInv'
  <2> DEFINE k == [wk[w] EXCEPT !.pc = "decode", !.raw = r, !.recov = TRUE]
  <2>0. r \in RawId /\ rawStatus[r] # "absent"
    BY DEF SpoolRows
  <2>1. k \in WorkerState /\ k.pc = "decode" /\ k.raw = r /\ k.in = i
    BY <1>0, <2>0 DEF WorkerState, Phase
  <2>2. wk' = [wk EXCEPT ![w] = k] /\ wk'[w] = k
    BY <1>0, <1>4 DEF Become
  <2> HIDE DEF k, i
  <2>3. WorkerOK(wk[w])'
    BY <1>4, <2>0, <2>1, <2>2 DEF WorkerOK, store
  <2>4. StoreTypeOK' /\ Persists /\ RowsOK' /\ Finite'
    BY <1>4, StoreTypes
  <2> QED BY <1>0, <1>1, <1>4, <2>1, <2>2, <2>3, <2>4, WorkerStep DEF counts
<1> QED BY <1>2, <1>3, <1>4 DEF StoreRecord

LEMMA TypeRetrieveRecord ==
    ASSUME TypeInv, NEW w \in Worker, RetrieveRecord(w)
    PROVE  TypeInv'
<1> DEFINE r == wk[w].raw
           k == [wk[w] EXCEPT !.pc = "decode", !.in = rawIn[r], !.recov = TRUE]
<1>0. /\ wk \in [Worker -> WorkerState] /\ wk[w] \in WorkerState
      /\ r \in RawId /\ rawStatus[r] # "absent" /\ rawIn[r] \in Input
      /\ accepted \in Int /\ pending \in Int /\ IdleWorker \in WorkerState
  BY StoreAssumption, PipelineAssumption
     DEF TypeInv, TypeOK, StoreTypeOK, WorkersOK, WorkerOK, RetrieveRecord, Known, WorkerState,
         IdleWorker, Phase, RawStatus
<1>1. UNCHANGED <<inbound, toRecover, up, rp, delivery, config>> /\ UNCHANGED store
  BY DEF RetrieveRecord, Refuse
<1>2. StoreTypeOK' /\ Persists /\ RowsOK' /\ Finite'
  BY <1>1, StoreTypes
<1>3. CASE StoreFails /\ Refuse(w)
  <2>1. wk' = [wk EXCEPT ![w] = IdleWorker] /\ accepted' \in Int /\ pending' \in Int
    BY <1>0, <1>3 DEF Refuse, Become, Count
  <2>2. WorkerOK(wk[w])'
    BY <1>0, <2>1 DEF WorkerOK, IdleWorker
  <2> QED BY <1>0, <1>1, <1>2, <1>3, <2>1, <2>2, WorkerStep
<1>4. CASE Become(w, k) /\ StoreWorks /\ UNCHANGED counts
  <2>1. k \in WorkerState /\ k.pc = "decode" /\ k.raw = r /\ k.in = rawIn[r]
    BY <1>0 DEF WorkerState, Phase
  <2>2. wk' = [wk EXCEPT ![w] = k] /\ wk'[w] = k
    BY <1>0, <1>4 DEF Become
  <2> HIDE DEF k, r
  <2>3. WorkerOK(wk[w])'
    BY <1>0, <1>1, <2>1, <2>2 DEF WorkerOK, store
  <2> QED BY <1>0, <1>1, <1>2, <1>4, <2>1, <2>2, <2>3, WorkerStep DEF counts
<1> QED BY <1>3, <1>4 DEF RetrieveRecord

\* A worker past the commit that goes on to k, with the record it holds.
LEMMA WorkerMoves ==
    ASSUME TypeInv, NEW w \in Worker, wk[w].pc \notin {"idle", "commit"},
           StoreTypeOK' /\ Persists /\ RowsOK' /\ Finite',
           StoreWorks \/ StoreFails,
           NEW STATE k, wk' = [wk EXCEPT ![w] = k], k \in WorkerState,
           k.raw = wk[w].raw, k.in = wk[w].in,
           k.pc \notin {"idle", "commit"},
           k.pc \notin {"decode", "setstatus"} => k.in \notin Broken,
           k.pc \in {"check", "process", "storeerr", "emit", "undo", "sinkerr"} => k.next < Kids[k.in],
           accepted' \in Int /\ pending' \in Int,
           UNCHANGED <<inbound, toRecover, up, rp, delivery, config>>
    PROVE  TypeInv'
<1>1. wk'[w] = k /\ WorkerOK(wk[w]) /\ wk[w] \in WorkerState
  BY DEF TypeInv, TypeOK, WorkersOK
<1>2. k.raw \in RawId /\ rawStatus'[k.raw] # "absent" /\ k.in = rawIn'[k.raw]
  BY <1>1 DEF WorkerOK, Persists
<1>3. WorkerOK(wk[w])'
  BY <1>1, <1>2 DEF WorkerOK
<1> QED BY <1>3, WorkerStep

\* What TypeInv says of a worker past the commit.
LEMMA WorkerFacts ==
    ASSUME TypeInv, NEW w \in Worker, wk[w].pc \notin {"idle", "commit"}
    PROVE  /\ wk[w] \in WorkerState /\ WorkerOK(wk[w])
           /\ wk[w].raw \in RawId /\ wk[w].in \in Input /\ wk[w].next \in Nat
           /\ rawStatus[wk[w].raw] # "absent" /\ rawIn[wk[w].raw] = wk[w].in
           /\ Kids[wk[w].in] \in Nat
           /\ accepted \in Int /\ pending \in Int /\ sinks \in SUBSET Dest /\ active \in Snapshot
BY StoreAssumption DEF TypeInv, TypeOK, WorkersOK, WorkerOK, WorkerState, StoreTypeOK

LEMMA TypeDecodeFails ==
    ASSUME TypeInv, NEW w \in Worker, DecodeFails(w)
    PROVE  TypeInv'
<1> DEFINE k == wk[w]
           k1 == [k EXCEPT !.pc = "setstatus", !.st = "quarantined"]
           k2 == [k EXCEPT !.pc = "setstatus"]
<1>0. k.pc = "decode" /\ UNCHANGED <<inbound, toRecover, up, rp, delivery, config>>
  BY DEF DecodeFails
<1>1. wk[w].pc \notin {"idle", "commit"}
  BY <1>0
<1>2. k1 \in WorkerState /\ k1.pc = "setstatus" /\ k1.raw = k.raw /\ k1.in = k.in
  BY <1>1, WorkerFacts DEF WorkerState, Phase, RawStatus, Final
<1>3. k2 \in WorkerState /\ k2.pc = "setstatus" /\ k2.raw = k.raw /\ k2.in = k.in
  BY <1>1, WorkerFacts DEF WorkerState, Phase
<1>4. CASE PersistQuarantine(k.raw, 0, "parse_error") /\ Become(w, k1)
  <2>1. StoreTypeOK' /\ Persists /\ RowsOK' /\ Finite'
    BY <1>1, <1>4, WorkerFacts, StoreTypes DEF PersistQuarantine, Why
  <2>2. accepted' \in Int /\ pending' \in Int /\ StoreWorks
    BY <1>1, <1>4, WorkerFacts DEF PersistQuarantine, Count
  <2> HIDE DEF k1, k2
  <2> QED BY <1>0, <1>1, <1>2, <1>4, <2>1, <2>2, WorkerMoves DEF Become
<1>5. CASE QuarantineFails /\ Become(w, k2)
  <2>1. StoreTypeOK' /\ Persists /\ RowsOK' /\ Finite' /\ StoreFails
    BY <1>5, StoreTypes DEF QuarantineFails
  <2>2. accepted' \in Int /\ pending' \in Int
    BY <1>1, <1>5, WorkerFacts DEF QuarantineFails, counts
  <2> HIDE DEF k1, k2
  <2> QED BY <1>0, <1>1, <1>3, <1>5, <2>1, <2>2, WorkerMoves DEF Become
<1> QED BY <1>4, <1>5 DEF DecodeFails

LEMMA TypeExpandBatch ==
    ASSUME TypeInv, NEW w \in Worker, ExpandBatch(w)
    PROVE  TypeInv'
<1> DEFINE k == wk[w]
           n == Kids[k.in]
           k0 == [k EXCEPT !.pc = "capture"]
           k1 == [k EXCEPT !.pc = "setstatus", !.st = "quarantined"]
           k2 == [k EXCEPT !.pc = "setstatus"]
<1>0. k.pc = "decode" /\ k.in \notin Broken /\ UNCHANGED <<inbound, toRecover, up, rp, delivery, config>>
  BY DEF ExpandBatch
<1>1. wk[w].pc \notin {"idle", "commit"}
  BY <1>0
<1>2. k0 \in WorkerState /\ k0.pc = "capture" /\ k0.raw = k.raw /\ k0.in = k.in
  BY <1>1, WorkerFacts DEF WorkerState, Phase
<1>3. k1 \in WorkerState /\ k1.pc = "setstatus" /\ k1.raw = k.raw /\ k1.in = k.in
  BY <1>1, WorkerFacts DEF WorkerState, Phase, RawStatus, Final
<1>4. k2 \in WorkerState /\ k2.pc = "setstatus" /\ k2.raw = k.raw /\ k2.in = k.in
  BY <1>1, WorkerFacts DEF WorkerState, Phase
<1>5. CASE Count(n - 1, n - 1) /\ Become(w, k0) /\ StoreWorks /\ UNCHANGED store
  <2>1. StoreTypeOK' /\ Persists /\ RowsOK' /\ Finite'
    BY <1>5, StoreTypes
  <2>2. accepted' \in Int /\ pending' \in Int
    BY <1>1, <1>5, WorkerFacts DEF Count
  <2> HIDE DEF k0, k1, k2
  <2> QED BY <1>0, <1>1, <1>2, <1>5, <2>1, <2>2, WorkerMoves DEF Become
<1>6. CASE PersistQuarantine(k.raw, 0, "empty_payload") /\ Become(w, k1)
  <2>1. StoreTypeOK' /\ Persists /\ RowsOK' /\ Finite'
    BY <1>1, <1>6, WorkerFacts, StoreTypes DEF PersistQuarantine, Why
  <2>2. accepted' \in Int /\ pending' \in Int /\ StoreWorks
    BY <1>1, <1>6, WorkerFacts DEF PersistQuarantine, Count
  <2> HIDE DEF k0, k1, k2
  <2> QED BY <1>0, <1>1, <1>3, <1>6, <2>1, <2>2, WorkerMoves DEF Become
<1>7. CASE QuarantineFails /\ Become(w, k2)
  <2>1. StoreTypeOK' /\ Persists /\ RowsOK' /\ Finite' /\ StoreFails
    BY <1>7, StoreTypes DEF QuarantineFails
  <2>2. accepted' \in Int /\ pending' \in Int
    BY <1>1, <1>7, WorkerFacts DEF QuarantineFails, counts
  <2> HIDE DEF k0, k1, k2
  <2> QED BY <1>0, <1>1, <1>4, <1>7, <2>1, <2>2, WorkerMoves DEF Become
<1> QED BY <1>5, <1>6, <1>7 DEF ExpandBatch

LEMMA TypeResumeBatch ==
    ASSUME TypeInv, NEW w \in Worker, ResumeBatch(w)
    PROVE  TypeInv'
<1> DEFINE k == wk[w]
           n == Kids[k.in]
           delta == n - CountCompletedChildren(k.raw) - 1
           k0 == [k EXCEPT !.pc = "capture"]
           k2 == [k EXCEPT !.pc = "setstatus"]
<1>0. /\ k.pc = "decode" /\ k.in \notin Broken
      /\ UNCHANGED <<inbound, toRecover, up, rp, delivery, config>> /\ UNCHANGED store
  BY DEF ResumeBatch
<1>1. wk[w].pc \notin {"idle", "commit"}
  BY <1>0
<1>2. k0 \in WorkerState /\ k0.pc = "capture" /\ k0.raw = k.raw /\ k0.in = k.in
  BY <1>1, WorkerFacts DEF WorkerState, Phase
<1>3. k2 \in WorkerState /\ k2.pc = "setstatus" /\ k2.raw = k.raw /\ k2.in = k.in
  BY <1>1, WorkerFacts DEF WorkerState, Phase
<1>4. StoreTypeOK' /\ Persists /\ RowsOK' /\ Finite'
  BY <1>0, StoreTypes
<1>5. delta \in Int
  BY <1>1, WorkerFacts, CompletedIsNat DEF TypeInv
<1>6. CASE (IF n > 0 THEN Count(delta, delta) ELSE UNCHANGED counts) /\ Become(w, k0) /\ StoreWorks
  <2> HIDE DEF k0, k2, delta
  <2>1. accepted' \in Int /\ pending' \in Int
    BY <1>1, <1>5, <1>6, WorkerFacts DEF Count, counts
  <2> QED BY <1>0, <1>1, <1>2, <1>4, <1>6, <2>1, WorkerMoves DEF Become
<1>7. CASE StoreFails /\ UNCHANGED counts /\ Become(w, k2)
  <2> HIDE DEF k0, k2, delta
  <2>1. accepted' \in Int /\ pending' \in Int
    BY <1>1, <1>7, WorkerFacts DEF counts
  <2> QED BY <1>0, <1>1, <1>3, <1>4, <1>7, <2>1, WorkerMoves DEF Become
<1> QED BY <1>6, <1>7 DEF ResumeBatch

LEMMA TypeCaptureSnapshot ==
    ASSUME TypeInv, NEW w \in Worker, CaptureSnapshot(w)
    PROVE  TypeInv'
<1> DEFINE k == wk[w]
           p == LoopPhase(k.in, k.recov, 0, FALSE)
           k0 == [k EXCEPT !.snap = active, !.next = 0, !.unres = FALSE, !.pc = p]
<1>0. k.pc = "capture" /\ Become(w, k0) /\ StoreWorks
      /\ UNCHANGED <<store, inbound, toRecover, up, rp, delivery, config, counts>>
  BY DEF CaptureSnapshot, StoreWorks
<1>1. wk[w].pc \notin {"idle", "commit"} /\ k.in \notin Broken
  BY <1>0, WorkerFacts DEF WorkerOK
<1>2. p \in {"check", "process", "setstatus", "count"} /\ (p \in {"check", "process"} => 0 < Kids[k.in])
  BY LoopPhaseType
<1>3. /\ k0 \in WorkerState /\ k0.pc = p /\ k0.raw = k.raw /\ k0.in = k.in /\ k0.next = 0
  <2> HIDE DEF p
  <2> QED BY <1>1, <1>2, WorkerFacts DEF WorkerState, Phase
<1>4. StoreTypeOK' /\ Persists /\ RowsOK' /\ Finite' /\ accepted' \in Int /\ pending' \in Int
  BY <1>0, <1>1, WorkerFacts, StoreTypes DEF counts
<1> HIDE DEF k0, p
<1> QED BY <1>0, <1>1, <1>2, <1>3, <1>4, WorkerMoves DEF Become

\* The loop body ends with Advance(wk[w], u).
LEMMA TypeAdvance ==
    ASSUME TypeInv, NEW w \in Worker,
           wk[w].pc \in {"check", "process", "storeerr", "emit", "undo", "sinkerr"},
           NEW u \in BOOLEAN, Become(w, Advance(wk[w], u)),
           StoreTypeOK' /\ Persists /\ RowsOK' /\ Finite',
           StoreWorks \/ StoreFails,
           accepted' \in Int /\ pending' \in Int,
           UNCHANGED <<inbound, toRecover, up, rp, delivery, config>>
    PROVE  TypeInv'
<1> DEFINE k == wk[w]
           k1 == Advance(k, u)
<1>1. wk[w].pc \notin {"idle", "commit"} /\ k.in \notin Broken
  BY WorkerFacts DEF WorkerOK
<1>2. /\ k1 \in WorkerState /\ k1.raw = k.raw /\ k1.in = k.in /\ k1.next = k.next + 1
      /\ k1.pc = LoopPhase(k.in, k.recov, k.next + 1, k.unres \/ u)
  BY <1>1, WorkerFacts, AdvanceType
<1>3. /\ k1.pc \in {"check", "process", "setstatus", "count"}
      /\ k1.pc \in {"check", "process"} => k1.next < Kids[k1.in]
  BY <1>2, LoopPhaseType
<1> HIDE DEF k1
<1> QED BY <1>1, <1>2, <1>3, WorkerMoves DEF Become, k1

\* The worker stays on the same child in another phase of the loop body.
LEMMA TypeSameChild ==
    ASSUME TypeInv, NEW w \in Worker,
           wk[w].pc \in {"check", "process", "storeerr", "emit", "undo", "sinkerr"},
           NEW p \in {"process", "storeerr", "emit", "undo", "sinkerr"},
           Become(w, [wk[w] EXCEPT !.pc = p]),
           StoreTypeOK' /\ Persists /\ RowsOK' /\ Finite',
           StoreWorks \/ StoreFails,
           accepted' \in Int /\ pending' \in Int,
           UNCHANGED <<inbound, toRecover, up, rp, delivery, config>>
    PROVE  TypeInv'
<1> DEFINE k == wk[w]
           k1 == [k EXCEPT !.pc = p]
<1>1. wk[w].pc \notin {"idle", "commit"} /\ k.in \notin Broken /\ k.next < Kids[k.in]
  BY WorkerFacts DEF WorkerOK
<1>2. k1 \in WorkerState /\ k1.raw = k.raw /\ k1.in = k.in /\ k1.next = k.next /\ k1.pc = p
  BY <1>1, WorkerFacts DEF WorkerState, Phase
<1> HIDE DEF k1
<1> QED BY <1>1, <1>2, WorkerMoves DEF Become, k1

\* Quarantining the child the worker is on.
LEMMA TypeQuarantine ==
    ASSUME TypeInv, NEW w \in Worker,
           wk[w].pc \in {"check", "process", "storeerr", "emit", "undo", "sinkerr"},
           NEW why \in Why,
           \/ PersistQuarantine(wk[w].raw, wk[w].next, why) /\ Become(w, Advance(wk[w], FALSE))
           \/ QuarantineFails /\ Become(w, Advance(wk[w], TRUE)),
           UNCHANGED <<inbound, toRecover, up, rp, delivery, config>>
    PROVE  TypeInv'
<1>1. wk[w].pc \notin {"idle", "commit"}
  OBVIOUS
<1>2. CASE PersistQuarantine(wk[w].raw, wk[w].next, why) /\ Become(w, Advance(wk[w], FALSE))
  <2>1. StoreTypeOK' /\ Persists /\ RowsOK' /\ Finite'
    BY <1>1, <1>2, WorkerFacts, StoreTypes DEF PersistQuarantine
  <2>2. accepted' \in Int /\ pending' \in Int /\ StoreWorks
    BY <1>1, <1>2, WorkerFacts DEF PersistQuarantine, Count
  <2> QED BY <1>2, <2>1, <2>2, TypeAdvance
<1>3. CASE QuarantineFails /\ Become(w, Advance(wk[w], TRUE))
  <2>1. StoreTypeOK' /\ Persists /\ RowsOK' /\ Finite' /\ StoreFails
    BY <1>3, StoreTypes DEF QuarantineFails
  <2>2. accepted' \in Int /\ pending' \in Int
    BY <1>1, <1>3, WorkerFacts DEF QuarantineFails, counts
  <2> QED BY <1>3, <2>1, <2>2, TypeAdvance
<1> QED BY <1>2, <1>3

LEMMA TypeChildSteps ==
    ASSUME TypeInv, NEW w \in Worker,
           \/ CheckChild(w) \/ RejectChild(w) \/ NormalizeChild(w)
           \/ QuarantineAfter(w, "storeerr", "store_error")
           \/ EmitDirect(w) \/ UndoNormalized(w)
           \/ QuarantineAfter(w, "sinkerr", "sink_error")
    PROVE  TypeInv'
<1> DEFINE k == wk[w]
<1>0. k.pc \in {"check", "process", "storeerr", "emit", "undo", "sinkerr"}
      /\ UNCHANGED <<inbound, toRecover, up, rp, delivery, config>>
  BY DEF CheckChild, RejectChild, NormalizeChild, QuarantineAfter, EmitDirect, UndoNormalized
<1>1. k.pc \notin {"idle", "commit"} /\ k.in \notin Broken /\ k.next < Kids[k.in]
  BY <1>0, WorkerFacts DEF WorkerOK
<1>2. UNCHANGED store => StoreTypeOK' /\ Persists /\ RowsOK' /\ Finite'
  BY StoreTypes
<1>3. UNCHANGED counts => accepted' \in Int /\ pending' \in Int
  BY <1>1, WorkerFacts DEF counts
<1>4. Count(0, -1) => accepted' \in Int /\ pending' \in Int
  BY <1>1, WorkerFacts DEF Count
<1>5. CASE CheckChild(w)
  <2>1. UNCHANGED <<store, counts>> /\ (StoreWorks \/ StoreFails)
    BY <1>5 DEF CheckChild
  <2>2. \/ \E u \in BOOLEAN : Become(w, Advance(k, u))
        \/ Become(w, [k EXCEPT !.pc = "process"])
    BY <1>5 DEF CheckChild
  <2> QED BY <1>0, <1>2, <1>3, <2>1, <2>2, TypeAdvance, TypeSameChild
<1>6. CASE RejectChild(w)
  <2>1. Verdict(k.snap, k.in, k.next) \in Why
    <3>1. k.snap \in Snapshot /\ k.in \in Input /\ k.next \in 0 .. (Kids[k.in] - 1)
      BY <1>1, WorkerFacts DEF WorkerState
    <3>2. Verdict(k.snap, k.in, k.next) \in Verdicts
      BY <3>1, PipelineAssumption
    <3> QED BY <1>6, <3>2 DEF RejectChild, Verdicts, Why
  <2> QED BY <1>0, <1>6, <2>1, TypeQuarantine DEF RejectChild
<1>7. CASE NormalizeChild(w)
  <2> DEFINE D == IF Durable THEN sinks ELSE {}
  <2>1. CASE StoreNormalizedWithOutbox(k.raw, k.next, D) /\ StoreWorks
             /\ IF Durable THEN Count(0, -1) /\ Become(w, Advance(k, FALSE))
                ELSE UNCHANGED counts /\ Become(w, [k EXCEPT !.pc = "emit"])
    <3>1. D \in SUBSET Dest
      BY <1>1, WorkerFacts
    <3> HIDE DEF D
    <3>2. StoreTypeOK' /\ Persists /\ RowsOK' /\ Finite'
      BY <1>1, <2>1, <3>1, WorkerFacts, StoreTypes
    <3>3. CASE Durable
      BY <1>0, <1>4, <2>1, <3>2, <3>3, TypeAdvance
    <3>4. CASE ~Durable
      BY <1>0, <1>3, <2>1, <3>2, <3>4, TypeSameChild
    <3> QED BY <3>3, <3>4
  <2>2. CASE StoreFails /\ UNCHANGED <<store, counts>> /\ Become(w, [k EXCEPT !.pc = "storeerr"])
    BY <1>0, <1>2, <1>3, <2>2, TypeSameChild
  <2> QED BY <1>7, <2>1, <2>2 DEF NormalizeChild
<1>8. CASE QuarantineAfter(w, "storeerr", "store_error")
  <2>1. "store_error" \in Why
    BY DEF Why
  <2> QED BY <1>0, <1>8, <2>1, TypeQuarantine DEF QuarantineAfter
<1>9. CASE QuarantineAfter(w, "sinkerr", "sink_error")
  <2>1. "sink_error" \in Why
    BY DEF Why
  <2> QED BY <1>0, <1>9, <2>1, TypeQuarantine DEF QuarantineAfter
<1>10. CASE EmitDirect(w)
  <2>1. UNCHANGED store /\ StoreWorks
    BY <1>10 DEF EmitDirect, StoreWorks
  <2>2. \/ Count(0, -1) /\ Become(w, Advance(k, FALSE))
        \/ UNCHANGED counts /\ Become(w, [k EXCEPT !.pc = "undo"])
    BY <1>10 DEF EmitDirect
  <2> QED BY <1>0, <1>2, <1>3, <1>4, <2>1, <2>2, TypeAdvance, TypeSameChild
<1>11. CASE UndoNormalized(w)
  <2>1. UNCHANGED counts
    BY <1>11 DEF UndoNormalized
  <2>2. CASE DeleteNormalizedChild(k.raw, k.next) /\ Become(w, [k EXCEPT !.pc = "sinkerr"]) /\ StoreWorks
    <3>1. StoreTypeOK' /\ Persists /\ RowsOK' /\ Finite'
      BY <1>1, <2>2, WorkerFacts, StoreTypes
    <3> QED BY <1>0, <1>3, <2>1, <2>2, <3>1, TypeSameChild
  <2>3. CASE StoreFails /\ UNCHANGED store /\ Become(w, Advance(k, TRUE))
    BY <1>0, <1>2, <1>3, <2>1, <2>3, TypeAdvance
  <2> QED BY <1>11, <2>2, <2>3 DEF UndoNormalized
<1> QED BY <1>5, <1>6, <1>7, <1>8, <1>9, <1>10, <1>11

LEMMA TypeDeriveStatus ==
    ASSUME TypeInv, NEW w \in Worker, DeriveStatus(w)
    PROVE  TypeInv'
<1> DEFINE k == wk[w]
           st == OutcomeStatus(k.raw, norm, quar)
           k1 == [k EXCEPT !.pc = "setstatus", !.st = st]
           k2 == [k EXCEPT !.pc = "setstatus"]
<1>0. /\ k.pc = "count" /\ UNCHANGED <<store, inbound, toRecover, up, rp, delivery, config, counts>>
      /\ StoreWorks \/ StoreFails
      /\ Become(w, k1) \/ Become(w, k2)
  BY DEF DeriveStatus
<1>1. k.pc \notin {"idle", "commit"}
  BY <1>0
<1>2. st \in RawStatus
  BY OutcomeStatusFinal DEF RawStatus
<1>3. k1 \in WorkerState /\ k1.pc = "setstatus" /\ k1.raw = k.raw /\ k1.in = k.in
  <2> HIDE DEF st
  <2> QED BY <1>1, <1>2, WorkerFacts DEF WorkerState, Phase
<1>4. k2 \in WorkerState /\ k2.pc = "setstatus" /\ k2.raw = k.raw /\ k2.in = k.in
  BY <1>1, WorkerFacts DEF WorkerState, Phase
<1>5. StoreTypeOK' /\ Persists /\ RowsOK' /\ Finite' /\ accepted' \in Int /\ pending' \in Int
  BY <1>0, <1>1, WorkerFacts, StoreTypes DEF counts
<1> HIDE DEF k1, k2
<1>6. CASE Become(w, k1)
  BY <1>0, <1>1, <1>3, <1>5, <1>6, WorkerMoves DEF Become
<1>7. CASE Become(w, k2)
  BY <1>0, <1>1, <1>4, <1>5, <1>7, WorkerMoves DEF Become
<1> QED BY <1>0, <1>6, <1>7

LEMMA TypeSetStatus ==
    ASSUME TypeInv, NEW w \in Worker, SetStatus(w)
    PROVE  TypeInv'
<1> DEFINE k == wk[w]
<1>0. /\ k.pc = "setstatus" /\ UNCHANGED <<inbound, toRecover, up, rp, delivery, config, counts>>
      /\ StoreWorks \/ StoreFails
      /\ wk' = [wk EXCEPT ![w] = IdleWorker]
      /\ UNCHANGED store \/ UpdateStatus(k.raw, k.st)
  BY DEF SetStatus, Become
<1>1. k.pc \notin {"idle", "commit"}
  BY <1>0
<1>2. IdleWorker \in WorkerState /\ k.st \in RawStatus
  BY <1>1, WorkerFacts, PipelineAssumption DEF WorkerState, IdleWorker, Phase, RawStatus
<1>3. StoreTypeOK' /\ Persists /\ RowsOK' /\ Finite'
  BY <1>0, <1>1, <1>2, WorkerFacts, StoreTypes
<1>4. WorkerOK(wk[w])'
  BY <1>0 DEF WorkerOK, IdleWorker, TypeInv, TypeOK
<1>5. accepted' \in Int /\ pending' \in Int
  BY <1>0, <1>1, WorkerFacts DEF counts
<1> QED BY <1>0, <1>2, <1>3, <1>4, <1>5, WorkerStep

\* Steps that leave the workers, the queue and the list of rows to recover.
LEMMA OutsideKeep ==
    ASSUME TypeInv, Persists, UNCHANGED <<wk, inbound, toRecover>>
    PROVE  WorkersOK' /\ QueueOK' /\ RecoverOK'
<1> USE DEF TypeInv, TypeOK, Persists, Known
<1>1. WorkersOK'
  BY DEF WorkersOK, WorkerOK, WorkerState, NoRaw, StoreTypeOK
<1>2. QueueOK'
  <2> SUFFICES ASSUME NEW n \in 1 .. Len(inbound)
               PROVE  Known(inbound[n].raw, inbound[n].in)'
    BY DEF QueueOK
  <2>1. inbound[n] \in Record /\ Known(inbound[n].raw, inbound[n].in)
    BY DEF QueueOK
  <2> QED BY <2>1 DEF Record, NoRaw
<1>3. RecoverOK'
  BY DEF RecoverOK
<1> QED BY <1>1, <1>2, <1>3

LEMMA TypeSubmit ==
    ASSUME TypeInv, NEW i \in Input, Submit(i)
    PROVE  TypeInv'
<1> DEFINE rec == [raw |-> NoRaw, in |-> i]
<1>1. rec \in Record
  BY DEF Record
<1>2. inbound \in Seq(Record) /\ inbound' = Append(inbound, rec)
  BY DEF Submit, TypeInv, TypeOK
<1>3. inbound' \in Seq(Record)
  BY <1>1, <1>2
<1>4. TypeOK'
  BY <1>3, PipelineAssumption
     DEF Submit, Count, TypeInv, TypeOK, StoreTypeOK, store, delivery, config
<1>5. QueueOK'
  <2> SUFFICES ASSUME NEW n \in 1 .. Len(inbound')
               PROVE  Known(inbound[n].raw, inbound[n].in)'
    BY DEF QueueOK
  <2>1. CASE n <= Len(inbound)
    <3>1. inbound'[n] = inbound[n] /\ n \in 1 .. Len(inbound)
      BY <1>1, <1>2, <2>1
    <3>2. Known(inbound[n].raw, inbound[n].in)
      BY <3>1 DEF QueueOK, TypeInv
    <3> QED BY <3>1, <3>2 DEF Known, Submit, store
  <2>2. CASE n = Len(inbound) + 1
    <3>1. inbound'[n] = rec
      BY <1>1, <1>2, <2>2
    <3> QED BY <3>1 DEF Known
  <2> QED BY <1>1, <1>2, <2>1, <2>2
<1>6. WorkersOK' /\ RecoverOK' /\ RowsOK' /\ Finite'
  BY DEF Submit, TypeInv, WorkersOK, WorkerOK, Known, RecoverOK, RowsOK, Finite, store
<1> QED BY <1>4, <1>5, <1>6 DEF TypeInv

LEMMA TypeRecover ==
    ASSUME TypeInv, NEW r \in toRecover, Recover(r)
    PROVE  TypeInv'
<1> DEFINE rec == [raw |-> r, in |-> NoInput]
<1>0. r \in RawId /\ rawStatus[r] # "absent" /\ r # NoRaw
  BY DEF TypeInv, TypeOK, RecoverOK, NoRaw, RawId
<1>1. rec \in Record
  BY <1>0 DEF Record
<1>2. inbound \in Seq(Record) /\ inbound' = Append(inbound, rec)
  BY DEF Recover, TypeInv, TypeOK
<1>3. inbound' \in Seq(Record)
  BY <1>1, <1>2
<1>4. TypeOK'
  BY <1>3 DEF Recover, TypeInv, TypeOK, StoreTypeOK, store, delivery, config, counts, budget
<1>5. QueueOK'
  <2> SUFFICES ASSUME NEW n \in 1 .. Len(inbound')
               PROVE  Known(inbound[n].raw, inbound[n].in)'
    BY DEF QueueOK
  <2>1. CASE n <= Len(inbound)
    <3>1. inbound'[n] = inbound[n] /\ n \in 1 .. Len(inbound)
      BY <1>1, <1>2, <2>1
    <3>2. Known(inbound[n].raw, inbound[n].in)
      BY <3>1 DEF QueueOK, TypeInv
    <3> QED BY <3>1, <3>2 DEF Known, Recover, store
  <2>2. CASE n = Len(inbound) + 1
    <3>1. inbound'[n] = rec
      BY <1>1, <1>2, <2>2
    <3> QED BY <1>0, <3>1 DEF Known, Recover, store
  <2> QED BY <1>1, <1>2, <2>1, <2>2
<1>6. WorkersOK' /\ RecoverOK' /\ RowsOK' /\ Finite'
  BY DEF Recover, TypeInv, WorkersOK, WorkerOK, Known, RecoverOK, RowsOK, Finite, store
<1> QED BY <1>4, <1>5, <1>6 DEF TypeInv

LEMMA TypeTake ==
    ASSUME TypeInv, NEW w \in Worker, Take(w)
    PROVE  TypeInv'
<1> DEFINE h == Head(inbound)
           k == [IdleWorker EXCEPT !.pc = "commit", !.raw = h.raw, !.in = h.in]
<1>1. inbound \in Seq(Record) /\ inbound # <<>> /\ inbound' = Tail(inbound)
      /\ wk' = [wk EXCEPT ![w] = k] /\ wk \in [Worker -> WorkerState]
      /\ UNCHANGED <<store, toRecover, up, rp, delivery, config, counts, budget>>
  BY DEF Take, Become, TypeInv, TypeOK
<1>2. h = inbound[1] /\ h \in Record /\ 1 \in 1 .. Len(inbound)
  BY <1>1
<1>3. Known(h.raw, h.in)
  BY <1>2 DEF TypeInv, QueueOK
<1>4. k \in WorkerState /\ k.pc = "commit" /\ k.raw = h.raw /\ k.in = h.in
  <2> HIDE DEF h
  <2> QED BY <1>2, PipelineAssumption DEF IdleWorker, WorkerState, Record, Phase, RawStatus
<1> HIDE DEF k, h
<1>5. wk' \in [Worker -> WorkerState] /\ wk'[w] = k /\ \A v \in Worker : v # w => wk'[v] = wk[v]
  BY <1>1, <1>4
<1>6. inbound' \in Seq(Record)
  BY <1>1
<1>7. TypeOK'
  BY <1>1, <1>5, <1>6 DEF TypeInv, TypeOK, StoreTypeOK, store, delivery, config, counts, budget
<1>8. QueueOK'
  <2> SUFFICES ASSUME NEW n \in 1 .. Len(inbound')
               PROVE  Known(inbound[n].raw, inbound[n].in)'
    BY DEF QueueOK
  <2>1. inbound'[n] = inbound[n + 1] /\ n + 1 \in 1 .. Len(inbound)
    BY <1>1
  <2>2. Known(inbound[n + 1].raw, inbound[n + 1].in)
    BY <2>1 DEF TypeInv, QueueOK
  <2> QED BY <1>1, <2>1, <2>2 DEF Known, store
<1>9. WorkersOK'
  <2>1. WorkerOK(wk[w])'
    BY <1>1, <1>3, <1>4, <1>5 DEF WorkerOK, Known, store
  <2>2. \A v \in Worker : v # w => WorkerOK(wk[v])'
    BY <1>1, <1>5 DEF TypeInv, WorkersOK, WorkerOK, Known, store
  <2> QED BY <2>1, <2>2 DEF WorkersOK
<1>10. RecoverOK' /\ RowsOK' /\ Finite'
  BY <1>1 DEF TypeInv, RecoverOK, RowsOK, Finite, store
<1> QED BY <1>7, <1>8, <1>9, <1>10 DEF TypeInv

LEMMA TypeDelivery ==
    ASSUME TypeInv,
           FetchPending \/ AckDelivery \/ \E row \in batch : EmitTo(row) \/ EmitToFails(row)
    PROVE  TypeInv'
<1>1. UNCHANGED <<wk, inbound, toRecover, up, rp, config, counts>>
  BY DEF FetchPending, AckDelivery, EmitTo, EmitToFails
<1>2. /\ batch' \subseteq Outbox /\ sent' \in Outbox \cup {NoRow} /\ received' \subseteq Outbox
  BY DEF FetchPending, AckDelivery, EmitTo, EmitToFails, TypeInv, TypeOK, StoreTypeOK, Outbox
<1>3. StoreTypeOK' /\ Persists /\ RowsOK' /\ Finite'
  <2>1. UNCHANGED store \/ \E row \in Outbox : MarkDelivered(row)
    BY DEF FetchPending, AckDelivery, EmitTo, EmitToFails, MarkFailed, TypeInv, TypeOK
  <2> QED BY <2>1, StoreTypes
<1>4. StoreWorks \/ StoreFails
  BY DEF FetchPending, AckDelivery, EmitTo, EmitToFails, StoreWorks
<1>5. TypeOK'
  BY <1>1, <1>2, <1>3, <1>4, BudgetType DEF TypeInv, TypeOK, config, counts
<1>6. WorkersOK' /\ QueueOK' /\ RecoverOK'
  BY <1>1, <1>3, OutsideKeep
<1> QED BY <1>3, <1>5, <1>6 DEF TypeInv

LEMMA TypeReplay ==
    ASSUME TypeInv, NEW p \in Replayer, ReplayCommit(p) \/ \E q \in quar : ReplayStart(p, q)
    PROVE  TypeInv'
<1> DEFINE RP == [pc : {"idle", "commit"}, q : (RawId \X Nat \X Why) \cup {NoRow}]
<1>1. UNCHANGED <<wk, inbound, toRecover, up, delivery, config, counts>>
  BY DEF ReplayCommit, ReplayStart
<1>2. rp' \in [Replayer -> RP]
  <2>1. IdleReplay \in RP /\ \A q \in quar : [pc |-> "commit", q |-> q] \in RP
    BY DEF IdleReplay, TypeInv, TypeOK, StoreTypeOK
  <2>2. rp \in [Replayer -> RP]
    BY DEF TypeInv, TypeOK
  <2>3. \E x \in RP : rp' = [rp EXCEPT ![p] = x]
    BY <2>1 DEF ReplayCommit, ReplayStart
  <2> QED BY <2>2, <2>3
<1>3. StoreWorks \/ StoreFails
  BY DEF ReplayCommit, ReplayStart, StoreWorks
<1>4. StoreTypeOK' /\ Persists /\ RowsOK' /\ Finite'
  <2>1. CASE UNCHANGED store
    BY <2>1, StoreTypes
  <2>2. CASE ResolveQuarantineWithOutbox(rp[p].q, IF Durable THEN sinks ELSE {})
    <3>1. rp[p].q \in RawId \X Nat \X Why
      BY <2>2 DEF ResolveQuarantineWithOutbox, TypeInv, TypeOK, StoreTypeOK
    <3>2. (IF Durable THEN sinks ELSE {}) \in SUBSET Dest
      BY DEF TypeInv, TypeOK
    <3> QED BY <2>2, <3>1, <3>2, StoreTypes
  <2> QED BY <2>1, <2>2 DEF ReplayCommit, ReplayStart
<1>5. TypeOK'
  BY <1>1, <1>2, <1>3, <1>4, BudgetType DEF TypeInv, TypeOK, delivery, config, counts
<1>6. WorkersOK' /\ QueueOK' /\ RecoverOK'
  BY <1>1, <1>4, OutsideKeep
<1> QED BY <1>4, <1>5, <1>6 DEF TypeInv

LEMMA TypeConfig ==
    ASSUME TypeInv,
           \/ \E S \in SUBSET Dest : Reconfigure(S)
           \/ \E s \in Snapshot : ActivatePack(s)
           \/ FinishStartup
    PROVE  TypeInv'
<1>1. UNCHANGED <<store, wk, inbound, toRecover, rp, delivery, counts, budget>>
      /\ up' \in {"starting", "running"} /\ sinks' \subseteq Dest /\ configured' \subseteq Dest
      /\ active' \in Snapshot
  BY DEF Reconfigure, ActivatePack, FinishStartup, TypeInv, TypeOK
<1>2. StoreTypeOK' /\ Persists /\ RowsOK' /\ Finite'
  BY <1>1, StoreTypes
<1>3. TypeOK'
  BY <1>1, <1>2 DEF TypeInv, TypeOK, delivery, counts, budget
<1>4. WorkersOK' /\ QueueOK' /\ RecoverOK'
  BY <1>1, <1>2, OutsideKeep
<1> QED BY <1>2, <1>3, <1>4 DEF TypeInv

LEMMA TypeCrash ==
    ASSUME TypeInv, Crash
    PROVE  TypeInv'
<1> USE StoreAssumption, PipelineAssumption
<1>1. wk' \in [Worker -> WorkerState] /\ rp' \in [Replayer -> [pc : {"idle", "commit"}, q : (RawId \X Nat \X Why) \cup {NoRow}]]
  BY DEF Crash, IdleWorker, IdleReplay, WorkerState, Phase, RawStatus, NoRaw
<1>2. accepted' \in Int /\ pending' \in Int
  <2>1. Cardinality(norm) \in Nat /\ Cardinality(quar) \in Nat
    BY FS_CardinalityType DEF TypeInv, Finite
  <2> QED BY <2>1, AcceptedIsNat DEF Crash
<1>3. StoreTypeOK' /\ Persists /\ RowsOK' /\ Finite'
  BY StoreTypes DEF Crash
<1>4. toRecover' \in {RawByStatus("accepted"), {}} /\ UNCHANGED store
  BY DEF Crash
<1>5. TypeOK'
  <2>1. toRecover' \subseteq RawId
    BY <1>4 DEF RawByStatus
  <2>2. inbound' \in Seq(Record) /\ batch' \subseteq Outbox /\ received' \subseteq Outbox
    BY DEF Crash, TypeInv, TypeOK
  <2> QED BY <1>1, <1>2, <1>3, <2>1, <2>2 DEF Crash, TypeInv, TypeOK
<1>6. WorkersOK'
  BY DEF Crash, WorkersOK, WorkerOK, IdleWorker
<1>7. QueueOK'
  BY DEF Crash, QueueOK
<1>8. RecoverOK'
  BY <1>4 DEF RecoverOK, RawByStatus, store
<1> QED BY <1>3, <1>5, <1>6, <1>7, <1>8 DEF TypeInv

LEMMA TypeNext == TypeInv /\ [Next]_vars => TypeInv'
<1> SUFFICES ASSUME TypeInv, [Next]_vars PROVE TypeInv'
  OBVIOUS
<1>1. CASE \E i \in Input : Submit(i)
  BY <1>1, TypeSubmit
<1>2. CASE \E w \in Worker : Take(w)
  BY <1>2, TypeTake
<1>3. CASE \E w \in Worker : ProcessRecord(w)
  BY <1>3, TypeStoreRecord, TypeRetrieveRecord, TypeDecodeFails, TypeExpandBatch, TypeResumeBatch,
     TypeCaptureSnapshot, TypeChildSteps, TypeDeriveStatus, TypeSetStatus DEF ProcessRecord
<1>4. CASE FetchPending \/ AckDelivery \/ \E row \in batch : EmitTo(row) \/ EmitToFails(row)
  BY <1>4, TypeDelivery
<1>5. CASE \E p \in Replayer : ReplayCommit(p) \/ \E q \in quar : ReplayStart(p, q)
  BY <1>5, TypeReplay
<1>6. CASE (\E S \in SUBSET Dest : Reconfigure(S)) \/ (\E s \in Snapshot : ActivatePack(s)) \/ FinishStartup
  BY <1>6, TypeConfig
<1>7. CASE Crash
  BY <1>7, TypeCrash
<1>8. CASE \E r \in toRecover : Recover(r)
  BY <1>8, TypeRecover
<1>9. CASE UNCHANGED vars
  BY <1>9 DEF vars, volatile, store, budget, TypeInv, TypeOK, StoreTypeOK, WorkersOK, WorkerOK, Known,
     QueueOK, RecoverOK, RowsOK, Finite
<1> QED BY <1>1, <1>2, <1>3, <1>4, <1>5, <1>6, <1>7, <1>8, <1>9 DEF Next

\* Every reachable state is well-typed: in particular the tables stay finite,
\* the counters stay integers, and a quarantine row carries a known reason.
THEOREM TypeCorrect == Spec => []TypeOK
<1>1. TypeInv => TypeOK
  BY DEF TypeInv
<1> QED BY TypeInit, TypeNext, <1>1, PTL DEF Spec

-----------------------------------------------------------------------------
(* Delivery. *)

\* A row is delivered, or about to be marked so, only if its destination has it.
DeliveryInv == deliv \subseteq received /\ (sent # NoRow => sent \in received)

LEMMA DeliveryStep == DeliveryInv /\ [Next]_vars => DeliveryInv'
<1> SUFFICES ASSUME DeliveryInv, [Next]_vars PROVE DeliveryInv'
  OBVIOUS
<1> USE DEF DeliveryInv
<1>1. CASE UNCHANGED <<deliv, sent, received>>
  BY <1>1
<1>2. CASE \E row \in batch : EmitTo(row)
  BY <1>2 DEF EmitTo, store
<1>3. CASE \E row \in batch : EmitToFails(row)
  BY <1>3 DEF EmitToFails, MarkFailed, store
<1>4. CASE AckDelivery
  BY <1>4 DEF AckDelivery, MarkDelivered, store
<1>5. CASE FetchPending
  BY <1>5 DEF FetchPending, store
<1>6. CASE Crash
  BY <1>6 DEF Crash, store
<1>7. CASE \E p \in Replayer : ReplayCommit(p) \/ \E q \in quar : ReplayStart(p, q)
  BY <1>7 DEF ReplayCommit, ReplayStart, ResolveQuarantineWithOutbox, OutboxUpsert, store, delivery
<1>8. CASE \E w \in Worker : Take(w) \/ ProcessRecord(w)
  BY <1>8, ZenonT(40) DEF ProcessRecord, Take, StoreRecord, RetrieveRecord, Refuse, DecodeFails, ExpandBatch, ResumeBatch,
     CaptureSnapshot, CheckChild, RejectChild, NormalizeChild, QuarantineAfter, EmitDirect, UndoNormalized,
     DeriveStatus, SetStatus, PersistQuarantine, QuarantineFails, InsertRaw, QuarantineChild,
     StoreNormalizedWithOutbox, OutboxUpsert, DeleteNormalizedChild, UpdateStatus, store, delivery
<1>9. CASE \/ \E i \in Input : Submit(i)
           \/ \E S \in SUBSET Dest : Reconfigure(S)
           \/ \E s \in Snapshot : ActivatePack(s)
           \/ FinishStartup
           \/ \E r \in toRecover : Recover(r)
  BY <1>9 DEF Submit, Reconfigure, ActivatePack, FinishStartup, Recover, store, delivery
<1>10. CASE UNCHANGED vars
  BY <1>10 DEF vars, volatile, store
<1> QED BY <1>1, <1>2, <1>3, <1>4, <1>5, <1>6, <1>7, <1>8, <1>9, <1>10 DEF Next

\* deliverPending marks a row delivered only after EmitTo returned nil, across
\* crashes, store errors and changes of the sinks.
THEOREM NoFalseDeliveryHolds == Spec => []NoFalseDelivery
<1>1. Init => DeliveryInv
  BY DEF Init, StoreInit, DeliveryInv
<1>2. DeliveryInv => NoFalseDelivery
  BY DEF DeliveryInv, NoFalseDelivery
<1> QED BY <1>1, <1>2, DeliveryStep, PTL DEF Spec

\* Normalizing a child again (recovery, redelivery, replay) leaves the rows
\* that are already delivered alone.
THEOREM DeliveredIsFinalHolds == Spec => DeliveredIsFinal
<1> DEFINE Keeps == deliv \subseteq deliv'
<1>1. [Next]_vars => [Keeps]_vars
  <2> SUFFICES ASSUME [Next]_vars PROVE Keeps
    OBVIOUS
  <2>1. CASE UNCHANGED vars
    BY <2>1 DEF vars, store
  <2>2. CASE \E w \in Worker : Take(w) \/ ProcessRecord(w)
    BY <2>2, ZenonT(40) DEF ProcessRecord, Take, StoreRecord, RetrieveRecord, Refuse, DecodeFails, ExpandBatch, ResumeBatch,
       CaptureSnapshot, CheckChild, RejectChild, NormalizeChild, QuarantineAfter, EmitDirect, UndoNormalized,
       DeriveStatus, SetStatus, PersistQuarantine, QuarantineFails, InsertRaw, QuarantineChild,
       StoreNormalizedWithOutbox, OutboxUpsert, DeleteNormalizedChild, UpdateStatus, store
  <2>3. CASE FetchPending \/ AckDelivery \/ \E row \in batch : EmitTo(row) \/ EmitToFails(row)
    BY <2>3 DEF FetchPending, AckDelivery, EmitTo, EmitToFails, MarkDelivered, MarkFailed, store
  <2>4. CASE \E p \in Replayer : ReplayCommit(p) \/ \E q \in quar : ReplayStart(p, q)
    BY <2>4 DEF ReplayCommit, ReplayStart, ResolveQuarantineWithOutbox, OutboxUpsert, store
  <2>5. CASE \/ \E i \in Input : Submit(i)
             \/ \E S \in SUBSET Dest : Reconfigure(S)
             \/ \E s \in Snapshot : ActivatePack(s)
             \/ Crash \/ FinishStartup
             \/ \E r \in toRecover : Recover(r)
    BY <2>5 DEF Submit, Reconfigure, ActivatePack, Crash, FinishStartup, Recover, store
  <2> QED BY <2>1, <2>2, <2>3, <2>4, <2>5 DEF Next
<1> QED BY <1>1, PTL DEF Spec, DeliveredIsFinal

-----------------------------------------------------------------------------
(* Outcomes are never taken back. *)

\* With named destinations a worker never calls a sink itself, so it has
\* nothing to take back.
NoDirectEmit == \A w \in Worker : wk[w].pc \notin {"emit", "undo", "sinkerr"}

LEMMA NoDirectEmitStep ==
    ASSUME Durable, TypeInv, NoDirectEmit, [Next]_vars
    PROVE  NoDirectEmit'
<1> USE DEF NoDirectEmit
<1>0. wk \in [Worker -> WorkerState]
  BY DEF TypeInv, TypeOK
<1>1. CASE UNCHANGED wk
  BY <1>1
<1>2. ASSUME NEW w \in Worker, NEW STATE k, wk' = [wk EXCEPT ![w] = k], k.pc \notin {"emit", "undo", "sinkerr"}
      PROVE  NoDirectEmit'
  BY <1>0, <1>2
<1>3. \A w \in Worker, u \in BOOLEAN : Become(w, Advance(wk[w], u)) => NoDirectEmit'
  <2> SUFFICES ASSUME NEW w \in Worker, NEW u \in BOOLEAN, Become(w, Advance(wk[w], u))
               PROVE  NoDirectEmit'
    OBVIOUS
  <2>1. Advance(wk[w], u).pc \notin {"emit", "undo", "sinkerr"}
    BY <1>0, AdvanceType, LoopPhaseType
  <2> QED BY <1>2, <2>1 DEF Become
<1>4. \A w \in Worker : Become(w, IdleWorker) => NoDirectEmit'
  BY <1>0 DEF Become, IdleWorker
<1>5. ASSUME NEW w \in Worker, Take(w)
      PROVE  NoDirectEmit'
  BY <1>0, <1>5 DEF Take, Become, IdleWorker
<1>6. ASSUME NEW w \in Worker,
             StoreRecord(w) \/ RetrieveRecord(w) \/ DecodeFails(w) \/ ExpandBatch(w) \/ ResumeBatch(w)
             \/ DeriveStatus(w)
      PROVE  NoDirectEmit'
  <2>1. wk[w] \in WorkerState
    BY <1>0
  <2>2. CASE StoreRecord(w)
    <3>1. \A r : Become(w, [wk[w] EXCEPT !.pc = "decode", !.raw = r]) => NoDirectEmit'
      BY <1>0, <2>1 DEF Become, WorkerState
    <3>2. \A r : Become(w, [wk[w] EXCEPT !.pc = "decode", !.raw = r, !.recov = TRUE]) => NoDirectEmit'
      BY <1>0, <2>1 DEF Become, WorkerState
    <3> QED BY <1>4, <2>2, <3>1, <3>2 DEF StoreRecord, Refuse
  <2>3. CASE RetrieveRecord(w)
    <3>1. \A i : Become(w, [wk[w] EXCEPT !.pc = "decode", !.in = i, !.recov = TRUE]) => NoDirectEmit'
      BY <1>0, <2>1 DEF Become, WorkerState
    <3> QED BY <1>4, <2>3, <3>1 DEF RetrieveRecord, Refuse
  <2>4. CASE DecodeFails(w) \/ ExpandBatch(w)
    BY <1>0, <2>1, <2>4, ZenonT(40) DEF DecodeFails, ExpandBatch, Become, WorkerState
  <2>5. CASE ResumeBatch(w)
    BY <1>0, <2>1, <2>5 DEF ResumeBatch, Become, WorkerState
  <2>6. CASE DeriveStatus(w)
    BY <1>0, <2>1, <2>6, ZenonT(40) DEF DeriveStatus, Become, WorkerState
  <2> QED BY <1>6, <2>2, <2>3, <2>4, <2>5, <2>6
<1>7. ASSUME NEW w \in Worker, CaptureSnapshot(w)
      PROVE  NoDirectEmit'
  <2>1. LoopPhase(wk[w].in, wk[w].recov, 0, FALSE) \notin {"emit", "undo", "sinkerr"}
    BY LoopPhaseType
  <2> QED BY <1>0, <1>7, <2>1 DEF CaptureSnapshot, Become, WorkerState
<1>8. ASSUME NEW w \in Worker, CheckChild(w) \/ NormalizeChild(w)
      PROVE  NoDirectEmit'
  <2>1. \A p \in {"process", "storeerr"} : Become(w, [wk[w] EXCEPT !.pc = p]) => NoDirectEmit'
    BY <1>0 DEF Become, WorkerState
  <2> QED BY <1>3, <1>8, <2>1 DEF CheckChild, NormalizeChild
<1>9. ASSUME NEW w \in Worker,
             RejectChild(w) \/ QuarantineAfter(w, "storeerr", "store_error")
             \/ QuarantineAfter(w, "sinkerr", "sink_error")
      PROVE  NoDirectEmit'
  BY <1>3, <1>9 DEF RejectChild, QuarantineAfter
<1>10. ASSUME NEW w \in Worker, EmitDirect(w) \/ UndoNormalized(w) \/ SetStatus(w)
       PROVE  NoDirectEmit'
  BY <1>4, <1>10 DEF EmitDirect, UndoNormalized, SetStatus
<1>11. CASE \E w \in Worker : Take(w) \/ ProcessRecord(w)
  BY <1>5, <1>6, <1>7, <1>8, <1>9, <1>10, <1>11 DEF ProcessRecord
<1>12. CASE Crash
  BY <1>12 DEF Crash, IdleWorker
<1>13. CASE \/ \E i \in Input : Submit(i)
            \/ FetchPending \/ AckDelivery
            \/ \E row \in batch : EmitTo(row) \/ EmitToFails(row)
            \/ \E p \in Replayer : ReplayCommit(p) \/ \E q \in quar : ReplayStart(p, q)
            \/ \E S \in SUBSET Dest : Reconfigure(S)
            \/ \E s \in Snapshot : ActivatePack(s)
            \/ FinishStartup
            \/ \E r \in toRecover : Recover(r)
  BY <1>1, <1>13 DEF Submit, FetchPending, AckDelivery, EmitTo, EmitToFails, ReplayCommit, ReplayStart,
     Reconfigure, ActivatePack, FinishStartup, Recover
<1>14. CASE UNCHANGED vars
  BY <1>1, <1>14 DEF vars, volatile
<1> QED BY <1>11, <1>12, <1>13, <1>14 DEF Next

\* No table row that is an outcome goes away, except that a quarantine row may
\* become a normalized row of the same child.
Grows ==
    \A r \in RawId, c \in Nat :
        /\ <<r, c>> \in norm => <<r, c>> \in norm'
        /\ HasCompletedChild(r, c) => HasCompletedChild(r, c)'

LEMMA GrowsStep ==
    ASSUME TypeInv, NoDirectEmit, [Next]_vars
    PROVE  Grows
<1>1. CASE UNCHANGED <<norm, quar>>
  BY <1>1 DEF Grows, HasCompletedChild
<1>2. ASSUME NEW r, NEW c, NEW y, QuarantineChild(r, c, y)
      PROVE  Grows
  BY <1>2 DEF Grows, HasCompletedChild, QuarantineChild
<1>3. ASSUME NEW r, NEW c, NEW D, StoreNormalizedWithOutbox(r, c, D)
      PROVE  Grows
  BY <1>3 DEF Grows, HasCompletedChild, StoreNormalizedWithOutbox
<1>4. ASSUME NEW q, NEW D, ResolveQuarantineWithOutbox(q, D)
      PROVE  Grows
  <2>1. q \in quar /\ norm' = norm \cup {<<q[1], q[2]>>} /\ quar' = quar \ {q}
    BY <1>4 DEF ResolveQuarantineWithOutbox
  <2> SUFFICES ASSUME NEW r \in RawId, NEW c \in Nat, HasCompletedChild(r, c)
               PROVE  HasCompletedChild(r, c)'
    BY <2>1 DEF Grows
  <2>2. CASE <<r, c>> \in norm
    BY <2>1, <2>2 DEF HasCompletedChild
  <2>3. ASSUME NEW x \in quar, x[1] = r, x[2] = c
        PROVE  HasCompletedChild(r, c)'
    <3>1. CASE x = q
      BY <2>1, <2>3, <3>1 DEF HasCompletedChild
    <3>2. CASE x # q
      BY <2>1, <2>3, <3>2 DEF HasCompletedChild
    <3> QED BY <3>1, <3>2
  <2> QED BY <2>2, <2>3 DEF HasCompletedChild
<1>5. CASE \E w \in Worker : ProcessRecord(w)
  <2> PICK w \in Worker : ProcessRecord(w)
    BY <1>5
  <2>1. CASE StoreRecord(w) \/ RetrieveRecord(w) \/ ResumeBatch(w) \/ CaptureSnapshot(w) \/ CheckChild(w)
             \/ EmitDirect(w) \/ DeriveStatus(w) \/ SetStatus(w)
    BY <1>1, <2>1 DEF StoreRecord, RetrieveRecord, Refuse, ResumeBatch, CaptureSnapshot, CheckChild, EmitDirect,
       DeriveStatus, SetStatus, InsertRaw, UpdateStatus, store
  <2>2. CASE DecodeFails(w) \/ ExpandBatch(w) \/ RejectChild(w)
             \/ QuarantineAfter(w, "storeerr", "store_error") \/ QuarantineAfter(w, "sinkerr", "sink_error")
    BY <1>1, <1>2, <2>2 DEF DecodeFails, ExpandBatch, RejectChild, QuarantineAfter, PersistQuarantine,
       QuarantineFails, store
  <2>3. CASE NormalizeChild(w)
    BY <1>1, <1>3, <2>3 DEF NormalizeChild, store
  <2>4. ~UndoNormalized(w)
    BY DEF UndoNormalized, NoDirectEmit
  <2> QED BY <2>1, <2>2, <2>3, <2>4 DEF ProcessRecord
<1>6. CASE \E p \in Replayer : ReplayCommit(p) \/ \E q \in quar : ReplayStart(p, q)
  BY <1>1, <1>4, <1>6 DEF ReplayCommit, ReplayStart, store
<1>7. CASE \/ \E i \in Input : Submit(i)
           \/ \E w \in Worker : Take(w)
           \/ FetchPending \/ AckDelivery
           \/ \E row \in batch : EmitTo(row) \/ EmitToFails(row)
           \/ \E S \in SUBSET Dest : Reconfigure(S)
           \/ \E s \in Snapshot : ActivatePack(s)
           \/ Crash \/ FinishStartup
           \/ \E r \in toRecover : Recover(r)
  BY <1>1, <1>7 DEF Submit, Take, FetchPending, AckDelivery, EmitTo, EmitToFails, MarkDelivered, MarkFailed,
     Reconfigure, ActivatePack, Crash, FinishStartup, Recover, store
<1>8. CASE UNCHANGED vars
  BY <1>1, <1>8 DEF vars, store
<1> QED BY <1>5, <1>6, <1>7, <1>8 DEF Next

\* The children of an input are numbered by natural numbers.
LEMMA ChildrenAreNat == \A i \in Input : Children(i) \subseteq Nat
BY StoreAssumption DEF Children

\* With named destinations no step of any actor, and no crash, takes back the
\* outcome of a child: whatever the number of workers on the same raw record.
THEOREM OutcomeStableHolds == ASSUME Durable PROVE Spec => OutcomeStable
<1> DEFINE Inv == TypeInv /\ NoDirectEmit
           Stable == \A r \in RawId : rawStatus[r] # "absent" => \A c \in Children(rawIn[r]) :
                        /\ HasCompletedChild(r, c) => HasCompletedChild(r, c)'
                        /\ <<r, c>> \in norm => (<<r, c>> \in norm)'
<1>1. Init => Inv
  BY TypeInit DEF Init, NoDirectEmit, IdleWorker
<1>2. Inv /\ [Next]_vars => Inv'
  BY TypeNext, NoDirectEmitStep
<1>3. Inv /\ [Next]_vars => [Stable]_vars
  <2> SUFFICES ASSUME TypeInv, NoDirectEmit, [Next]_vars PROVE Stable
    OBVIOUS
  <2> SUFFICES ASSUME NEW r \in RawId, rawStatus[r] # "absent", NEW c \in Children(rawIn[r])
               PROVE  /\ HasCompletedChild(r, c) => HasCompletedChild(r, c)'
                      /\ <<r, c>> \in norm => (<<r, c>> \in norm)'
    OBVIOUS
  <2>1. c \in Nat
    BY ChildrenAreNat DEF TypeInv, TypeOK, StoreTypeOK
  <2> QED BY <2>1, GrowsStep DEF Grows
<1> QED BY <1>1, <1>2, <1>3, PTL DEF Spec, OutcomeStable

-----------------------------------------------------------------------------
(***************************************************************************)
(* No silent loss: with named destinations, and with replay either absent  *)
(* or confined to payloads of at most one record, no child of a raw record *)
(* with a final status is without an outcome, for any number of workers on *)
(* the same raw record, any store errors and any crashes.  The hypothesis  *)
(* on replay is needed: run ReplayLosesSibling shows what happens without  *)
(* it.  Under the same hypotheses Pipeline implements Custody.             *)
(***************************************************************************)

SafeReplay == Replayer = {} \/ \A i \in Input : Kids[i] <= 1

-----------------------------------------------------------------------------
(* The inductive strengthening of NoSilentLoss. *)

\* A worker still in the loop has an outcome for every child it has passed,
\* or remembers that it has none; it leaves the loop for a final status only
\* with an outcome for every child.
LossOK(k) ==
    /\ k.pc # "setstatus" => k.st = "accepted"
    /\ k.pc \in {"check", "process", "storeerr"} =>
          k.unres \/ \A c \in 0 .. (k.next - 1) : HasCompletedChild(k.raw, c)
    /\ k.pc = "count" => Complete(k.raw)
    /\ k.pc = "setstatus" /\ k.st \in Final => Complete(k.raw)

WorkersLossOK == \A w \in Worker : LossOK(wk[w])

\* A replay is about to resolve a child that its raw record really has.
ReplayOK ==
    \A p \in Replayer : rp[p].pc = "commit" =>
        /\ rp[p].q \in RawId \X Nat \X Why
        /\ rawStatus[rp[p].q[1]] # "absent"
        /\ rp[p].q[2] \in Children(rawIn[rp[p].q[1]])

LossInv == TypeInv /\ NoDirectEmit /\ NoSilentLoss /\ WorkersLossOK /\ ReplayOK

-----------------------------------------------------------------------------
(* What every step keeps. *)

LEMMA PersistsStep ==
    ASSUME TypeInv, [Next]_vars
    PROVE  Persists
<1>1. CASE UNCHANGED <<rawIn, rawStatus>>
  BY <1>1 DEF Persists
<1>2. CASE \E w \in Worker : ProcessRecord(w)
  <2> PICK w \in Worker : ProcessRecord(w)
    BY <1>2
  <2>1. CASE StoreRecord(w)
    <3>1. CASE UNCHANGED store
      BY <1>1, <3>1 DEF store
    <3>2. ASSUME NEW r \in RawId, FreshRaw(r), InsertRaw(r, wk[w].in)
          PROVE  Persists
      BY <3>2 DEF FreshRaw, InsertRaw, Persists, TypeInv, TypeOK, StoreTypeOK
    <3> QED BY <2>1, <3>1, <3>2 DEF StoreRecord, Refuse
  <2>2. CASE SetStatus(w)
    <3>1. wk[w].raw \in RawId /\ wk[w].st \in RawStatus /\ rawStatus[wk[w].raw] # "absent"
      BY <2>2, WorkerFacts DEF SetStatus, WorkerState
    <3> QED BY <2>2, <3>1, StoreTypes DEF SetStatus
  <2>3. CASE ~StoreRecord(w) /\ ~SetStatus(w)
    BY <1>1, <2>3 DEF ProcessRecord, RetrieveRecord, Refuse, DecodeFails, ExpandBatch, ResumeBatch,
       CaptureSnapshot, CheckChild, RejectChild, NormalizeChild, QuarantineAfter, EmitDirect, UndoNormalized,
       DeriveStatus, PersistQuarantine, QuarantineFails, QuarantineChild, StoreNormalizedWithOutbox,
       DeleteNormalizedChild, store
  <2> QED BY <2>1, <2>2, <2>3
<1>3. CASE \E p \in Replayer : ReplayCommit(p) \/ \E q \in quar : ReplayStart(p, q)
  <2>1. CASE UNCHANGED store
    BY <1>1, <2>1 DEF store
  <2>2. ASSUME NEW q, NEW D, ResolveQuarantineWithOutbox(q, D)
        PROVE  Persists
    <3>1. q[1] \in RawId /\ rawStatus[q[1]] # "absent" /\ rawIn' = rawIn
      BY <2>2 DEF ResolveQuarantineWithOutbox, TypeInv, TypeOK, StoreTypeOK, RowsOK
    <3>2. PICK st \in Final : rawStatus' = [rawStatus EXCEPT ![q[1]] = st]
      BY <2>2, OutcomeStatusFinal DEF ResolveQuarantineWithOutbox
    <3>3. st # "absent"
      BY DEF Final
    <3> QED BY <3>1, <3>2, <3>3 DEF Persists, TypeInv, TypeOK, StoreTypeOK
  <2> QED BY <1>3, <2>1, <2>2 DEF ReplayCommit, ReplayStart
<1>4. CASE \/ \E i \in Input : Submit(i)
           \/ \E w \in Worker : Take(w)
           \/ FetchPending \/ AckDelivery
           \/ \E row \in batch : EmitTo(row) \/ EmitToFails(row)
           \/ \E S \in SUBSET Dest : Reconfigure(S)
           \/ \E s \in Snapshot : ActivatePack(s)
           \/ Crash \/ FinishStartup
           \/ \E r \in toRecover : Recover(r)
  BY <1>1, <1>4 DEF Submit, Take, FetchPending, AckDelivery, EmitTo, EmitToFails, MarkDelivered, MarkFailed,
     Reconfigure, ActivatePack, Crash, FinishStartup, Recover, store
<1>5. CASE UNCHANGED vars
  BY <1>1, <1>5 DEF vars, store
<1> QED BY <1>2, <1>3, <1>4, <1>5 DEF Next

\* A record that has all its outcomes keeps them.
LEMMA CompleteStays ==
    ASSUME TypeInv, Persists, Grows, NEW r \in RawId, rawStatus[r] # "absent", Complete(r)
    PROVE  Complete(r)'
<1>1. rawIn'[r] = rawIn[r] /\ rawIn[r] \in Input
  BY DEF Persists, TypeInv, TypeOK, StoreTypeOK
<1>2. \A c \in Children(rawIn[r]) : HasCompletedChild(r, c)'
  BY <1>1, ChildrenAreNat DEF Complete, Grows
<1> QED BY <1>1, <1>2 DEF Complete

\* A worker that does not move keeps its part of the invariant.
LEMMA LossOKStays ==
    ASSUME TypeInv, Persists, Grows, NEW w \in Worker, LossOK(wk[w]), wk'[w] = wk[w]
    PROVE  LossOK(wk[w])'
<1> DEFINE k == wk[w]
<1>1. CASE k.pc \in {"idle", "commit"}
  BY <1>1 DEF LossOK
<1>2. CASE k.pc \notin {"idle", "commit"}
  <2>1. k.raw \in RawId /\ rawStatus[k.raw] # "absent" /\ k.next \in Nat
    BY <1>2, WorkerFacts
  <2>2. PICK r \in RawId : r = k.raw
    BY <2>1
  <2>3. Complete(r) => Complete(r)'
    BY <2>1, <2>2, CompleteStays
  <2>4. \A c \in Nat : HasCompletedChild(r, c) => HasCompletedChild(r, c)'
    BY DEF Grows
  <2> HIDE DEF k
  <2>5. LossOK(k) /\ k = wk[w] /\ wk'[w] = k
    BY DEF k
  <2>6. wk'[w].raw = r /\ wk[w].raw = r
    BY <2>2, <2>5
  <2> QED BY <2>1, <2>2, <2>3, <2>4, <2>5, <2>6 DEF LossOK, Complete, HasCompletedChild
<1> QED BY <1>1, <1>2

\* NoSilentLoss is at stake only for the rows whose status changes.
LEMMA NoSilentLossStays ==
    ASSUME TypeInv, Persists, Grows, NoSilentLoss,
           \A r \in RawId : rawStatus'[r] \in Final => rawStatus'[r] = rawStatus[r] \/ Complete(r)'
    PROVE  NoSilentLoss'
<1> SUFFICES ASSUME NEW r \in RawId, rawStatus'[r] \in Final
             PROVE  Complete(r)'
  BY DEF NoSilentLoss
<1>1. CASE rawStatus'[r] = rawStatus[r]
  <2>1. rawStatus[r] # "absent" /\ Complete(r)
    BY <1>1 DEF NoSilentLoss, Final
  <2> QED BY <2>1, CompleteStays
<1> QED BY <1>1

\* What is left to show for a step of worker w that leaves every status alone.
LEMMA LossWorkerStep ==
    ASSUME LossInv, TypeInv', NoDirectEmit', Persists, Grows,
           NEW w \in Worker, NEW STATE k, wk' = [wk EXCEPT ![w] = k], LossOK(wk[w])',
           rp' = rp,
           \A r \in RawId : rawStatus'[r] \in Final => rawStatus'[r] = rawStatus[r] \/ Complete(r)'
    PROVE  LossInv'
<1>1. wk'[w] = k /\ \A v \in Worker : v # w => wk'[v] = wk[v]
  BY DEF LossInv, TypeInv, TypeOK
<1>2. WorkersLossOK'
  <2>1. \A v \in Worker : v # w => LossOK(wk[v])'
    BY <1>1, LossOKStays DEF LossInv, WorkersLossOK
  <2> QED BY <2>1 DEF WorkersLossOK
<1>3. NoSilentLoss'
  BY NoSilentLossStays DEF LossInv
<1>4. ReplayOK'
  BY DEF LossInv, ReplayOK, Persists
<1> QED BY <1>2, <1>3, <1>4 DEF LossInv

-----------------------------------------------------------------------------
(* The steps of a worker. *)

\* A worker that goes outside the loop with nothing decided yet.
LEMMA LossFresh ==
    ASSUME LossInv, TypeInv', NoDirectEmit', Persists, Grows,
           NEW w \in Worker, NEW STATE k, wk' = [wk EXCEPT ![w] = k],
           k.pc \in {"idle", "commit", "decode", "capture", "setstatus"}, k.st = "accepted",
           rp' = rp,
           \A r \in RawId : rawStatus'[r] \in Final => rawStatus'[r] = rawStatus[r] \/ Complete(r)'
    PROVE  LossInv'
<1>1. wk'[w] = k
  BY DEF LossInv, TypeInv, TypeOK
<1>2. wk'[w].pc \in {"idle", "commit", "decode", "capture", "setstatus"} /\ wk'[w].st = "accepted"
  BY <1>1
<1>3. LossOK(wk[w])'
  BY <1>2 DEF LossOK, Final
<1> QED BY <1>3, LossWorkerStep

\* A worker whose record has all its outcomes.
LEMMA LossComplete ==
    ASSUME LossInv, TypeInv', NoDirectEmit', Persists, Grows,
           NEW w \in Worker, NEW STATE k, wk' = [wk EXCEPT ![w] = k],
           NEW r \in RawId, Complete(r)', k.raw = r,
           k.pc \in {"count", "setstatus"}, k.pc = "count" => k.st = "accepted",
           UNCHANGED <<rp, rawStatus>>
    PROVE  LossInv'
<1>1. wk'[w] = k
  BY DEF LossInv, TypeInv, TypeOK
<1>2. wk'[w].pc \in {"count", "setstatus"} /\ wk'[w].raw = r /\ (wk'[w].pc = "count" => wk'[w].st = "accepted")
  BY <1>1
<1>3. LossOK(wk[w])'
  BY <1>2 DEF LossOK, Complete, HasCompletedChild
<1> QED BY <1>3, LossWorkerStep

\* The loop body ends: the child has an outcome now, or is remembered as unresolved.
LEMMA LossAdvance ==
    ASSUME LossInv, TypeInv', NoDirectEmit', Persists, Grows,
           NEW w \in Worker, wk[w].pc \in {"check", "process", "storeerr"},
           NEW u \in BOOLEAN, Become(w, Advance(wk[w], u)),
           NEW r \in RawId, r = wk[w].raw, NEW n \in Nat, n = wk[w].next,
           u \/ HasCompletedChild(r, n)',
           UNCHANGED <<rp, rawStatus>>
    PROVE  LossInv'
<1> DEFINE k == Advance(wk[w], u)
<1>1. wk[w].pc \notin {"idle", "commit"} /\ TypeInv /\ LossOK(wk[w])
  BY DEF LossInv, WorkersLossOK
<1>2. /\ wk[w] \in WorkerState /\ wk[w].in \in Input /\ wk[w].in \notin Broken /\ Kids[wk[w].in] \in Nat
      /\ wk[w].in = rawIn[r] /\ rawStatus[r] # "absent"
  BY <1>1, WorkerFacts DEF WorkerOK
<1>3. /\ k.raw = r /\ k.in = wk[w].in /\ k.next = n + 1 /\ k.st = "accepted"
      /\ k.unres = (wk[w].unres \/ u)
      /\ k.pc = LoopPhase(k.in, wk[w].recov, k.next, k.unres)
  BY <1>1, <1>2, AdvanceType DEF LossOK
<1>4. /\ k.pc \in {"check", "process", "setstatus", "count"}
      /\ k.pc = "count" => ~(k.next < Kids[k.in]) /\ ~k.unres
  BY <1>3, LoopPhaseType
<1>5. wk' = [wk EXCEPT ![w] = k]
  BY DEF Become
<1>6. ~k.unres => \A c \in 0 .. n : HasCompletedChild(r, c)'
  <2> SUFFICES ASSUME ~k.unres, NEW c \in 0 .. n PROVE HasCompletedChild(r, c)'
    OBVIOUS
  <2>1. ~u /\ ~wk[w].unres
    BY <1>2, <1>3 DEF WorkerState
  <2>2. CASE c = n
    BY <2>1, <2>2
  <2>3. CASE c # n
    <3>1. c \in 0 .. (n - 1) /\ c \in Nat
      BY <2>3
    <3>2. HasCompletedChild(r, c)
      BY <1>1, <2>1, <3>1 DEF LossOK
    <3> QED BY <3>1, <3>2 DEF Grows
  <2> QED BY <2>2, <2>3
<1> HIDE DEF k
<1>7. CASE k.pc = "setstatus"
  BY <1>3, <1>5, <1>7, LossFresh
<1>8. CASE k.pc = "count"
  <2>1. Children(rawIn'[r]) = 0 .. (Kids[k.in] - 1)
    BY <1>2, <1>3 DEF Children, Persists
  <2>2. Complete(r)'
    BY <1>2, <1>3, <1>4, <1>6, <1>8, <2>1 DEF Complete
  <2> QED BY <1>3, <1>5, <1>8, <2>2, LossComplete
<1>9. CASE k.pc \in {"check", "process"}
  <2>1. wk'[w] = k
    BY <1>1, <1>5 DEF TypeInv, TypeOK
  <2>2. wk'[w].pc \in {"check", "process"} /\ wk'[w].st = "accepted" /\ wk'[w].raw = r
        /\ wk'[w].next = n + 1 /\ wk'[w].unres = k.unres
    BY <1>3, <1>9, <2>1
  <2>3. 0 .. (wk'[w].next - 1) = 0 .. n
    BY <2>2
  <2>4. LossOK(wk[w])'
    BY <1>6, <2>2, <2>3 DEF LossOK, HasCompletedChild
  <2> QED BY <1>5, <2>4, LossWorkerStep
<1> QED BY <1>4, <1>7, <1>8, <1>9

\* The worker stays on its child.
LEMMA LossSameChild ==
    ASSUME LossInv, TypeInv', NoDirectEmit', Persists, Grows,
           NEW w \in Worker, wk[w].pc \in {"check", "process"},
           NEW p \in {"process", "storeerr"}, Become(w, [wk[w] EXCEPT !.pc = p]),
           UNCHANGED <<rp, rawStatus>>
    PROVE  LossInv'
<1> DEFINE k == [wk[w] EXCEPT !.pc = p]
<1>1. wk[w].pc \notin {"idle", "commit"} /\ TypeInv /\ LossOK(wk[w])
  BY DEF LossInv, WorkersLossOK
<1>2. PICK r \in RawId, n \in Nat : r = wk[w].raw /\ n = wk[w].next
  BY <1>1, WorkerFacts
<1>3. k.pc = p /\ k.raw = r /\ k.next = n /\ k.unres = wk[w].unres /\ k.st = "accepted"
  BY <1>1, <1>2, WorkerFacts DEF WorkerState, LossOK
<1>4. wk' = [wk EXCEPT ![w] = k] /\ wk'[w] = k
  BY <1>1 DEF Become, TypeInv, TypeOK
<1>5. wk[w].unres \/ \A c \in 0 .. (n - 1) : HasCompletedChild(r, c)'
  <2>1. wk[w].unres \/ \A c \in 0 .. (n - 1) : HasCompletedChild(r, c)
    BY <1>1, <1>2 DEF LossOK
  <2>2. \A c \in Nat : HasCompletedChild(r, c) => HasCompletedChild(r, c)'
    BY DEF Grows
  <2> QED BY <2>1, <2>2
<1> HIDE DEF k
<1>6. LossOK(wk[w])'
  <2>1. wk'[w].pc = p /\ wk'[w].raw = r /\ wk'[w].next = n /\ wk'[w].unres = wk[w].unres /\ wk'[w].st = "accepted"
    BY <1>3, <1>4
  <2> QED BY <1>5, <2>1 DEF LossOK, HasCompletedChild
<1> QED BY <1>4, <1>6, LossWorkerStep

LEMMA LossCommit ==
    ASSUME LossInv, TypeInv', NoDirectEmit', Persists, Grows,
           NEW w \in Worker, Take(w) \/ StoreRecord(w) \/ RetrieveRecord(w)
    PROVE  LossInv'
<1>1. wk[w] \in WorkerState /\ wk[w].st = "accepted" /\ rp' = rp
  BY DEF LossInv, TypeInv, TypeOK, WorkersLossOK, LossOK, Take, StoreRecord, RetrieveRecord
<1>2. \A r \in RawId : rawStatus'[r] \in Final => rawStatus'[r] = rawStatus[r]
  <2>1. CASE UNCHANGED store
    BY <2>1 DEF store
  <2>2. ASSUME NEW r \in RawId, InsertRaw(r, wk[w].in)
        PROVE  \A x \in RawId : rawStatus'[x] \in Final => rawStatus'[x] = rawStatus[x]
    BY <2>2 DEF InsertRaw, Final, LossInv, TypeInv, TypeOK, StoreTypeOK
  <2> QED BY <2>1, <2>2 DEF Take, StoreRecord, RetrieveRecord, Refuse
<1>3. ASSUME NEW STATE k, Become(w, k), k.pc \in {"idle", "commit", "decode"}, k.st = "accepted"
      PROVE  LossInv'
  BY <1>1, <1>2, <1>3, LossFresh DEF Become
<1>4. CASE Become(w, IdleWorker)
  BY <1>3, <1>4 DEF IdleWorker
<1>5. ASSUME NEW r, Become(w, [wk[w] EXCEPT !.pc = "decode", !.raw = r])
      PROVE  LossInv'
  <2> DEFINE k == [wk[w] EXCEPT !.pc = "decode", !.raw = r]
  <2>1. k.pc = "decode" /\ k.st = "accepted"
    BY <1>1 DEF WorkerState
  <2> HIDE DEF k
  <2> QED BY <1>3, <1>5, <2>1 DEF k
<1>6. ASSUME NEW r, Become(w, [wk[w] EXCEPT !.pc = "decode", !.raw = r, !.recov = TRUE])
      PROVE  LossInv'
  <2> DEFINE k == [wk[w] EXCEPT !.pc = "decode", !.raw = r, !.recov = TRUE]
  <2>1. k.pc = "decode" /\ k.st = "accepted"
    BY <1>1 DEF WorkerState
  <2> HIDE DEF k
  <2> QED BY <1>3, <1>6, <2>1 DEF k
<1>7. ASSUME NEW i, Become(w, [wk[w] EXCEPT !.pc = "decode", !.in = i, !.recov = TRUE])
      PROVE  LossInv'
  <2> DEFINE k == [wk[w] EXCEPT !.pc = "decode", !.in = i, !.recov = TRUE]
  <2>1. k.pc = "decode" /\ k.st = "accepted"
    BY <1>1 DEF WorkerState
  <2> HIDE DEF k
  <2> QED BY <1>3, <1>7, <2>1 DEF k
<1>8. CASE Take(w)
  <2> DEFINE k == [IdleWorker EXCEPT !.pc = "commit", !.raw = Head(inbound).raw, !.in = Head(inbound).in]
  <2>1. k.pc = "commit" /\ k.st = "accepted" /\ Become(w, k)
    BY <1>8 DEF Take, IdleWorker
  <2> HIDE DEF k
  <2> QED BY <1>3, <2>1
<1>9. CASE StoreRecord(w)
  BY <1>4, <1>5, <1>6, <1>9 DEF StoreRecord, Refuse
<1>10. CASE RetrieveRecord(w)
  BY <1>4, <1>7, <1>10 DEF RetrieveRecord, Refuse
<1> QED BY <1>8, <1>9, <1>10

LEMMA LossDecode ==
    ASSUME LossInv, TypeInv', NoDirectEmit', Persists, Grows, NEW w \in Worker,
           DecodeFails(w) \/ ExpandBatch(w) \/ ResumeBatch(w) \/ CaptureSnapshot(w)
    PROVE  LossInv'
<1>1. /\ wk[w].pc \in {"decode", "capture"} /\ wk[w].pc \notin {"idle", "commit"} /\ TypeInv
      /\ wk[w].st = "accepted" /\ UNCHANGED <<rp, rawStatus>>
  BY DEF LossInv, WorkersLossOK, LossOK, DecodeFails, ExpandBatch, ResumeBatch, CaptureSnapshot,
         PersistQuarantine, QuarantineFails, QuarantineChild, store
<1>2. wk[w] \in WorkerState /\ wk[w].in \in Input /\ Kids[wk[w].in] \in Nat
  BY <1>1, WorkerFacts
<1>3. PICK r \in RawId : r = wk[w].raw /\ rawIn[r] = wk[w].in /\ rawStatus[r] # "absent"
  BY <1>1, WorkerFacts
<1>4. rawIn'[r] = wk[w].in
  BY <1>3 DEF Persists
<1>5. \A p \in {"capture", "setstatus"} : Become(w, [wk[w] EXCEPT !.pc = p]) => LossInv'
  <2> SUFFICES ASSUME NEW p \in {"capture", "setstatus"}, Become(w, [wk[w] EXCEPT !.pc = p])
               PROVE  LossInv'
    OBVIOUS
  <2> DEFINE k == [wk[w] EXCEPT !.pc = p]
  <2>1. k.pc = p /\ k.st = "accepted"
    BY <1>1, <1>2 DEF WorkerState
  <2> HIDE DEF k
  <2> QED BY <1>1, <2>1, LossFresh DEF Become, k
<1>6. ASSUME Become(w, [wk[w] EXCEPT !.pc = "setstatus", !.st = "quarantined"]), Complete(r)'
      PROVE  LossInv'
  <2> DEFINE k == [wk[w] EXCEPT !.pc = "setstatus", !.st = "quarantined"]
  <2>1. k.pc = "setstatus" /\ k.raw = r
    BY <1>2, <1>3 DEF WorkerState
  <2> HIDE DEF k
  <2> QED BY <1>1, <1>6, <2>1, LossComplete DEF Become, k
<1>7. CASE DecodeFails(w)
  <2>1. CASE PersistQuarantine(wk[w].raw, 0, "parse_error") /\ Become(w, [wk[w] EXCEPT !.pc = "setstatus", !.st = "quarantined"])
    <3>1. <<r, 0, "parse_error">> \in quar'
      BY <1>3, <2>1 DEF PersistQuarantine, QuarantineChild
    <3>2. HasCompletedChild(r, 0)'
      BY <3>1 DEF HasCompletedChild
    <3>3. Children(rawIn'[r]) = {0}
      BY <1>4, <1>7 DEF Children, DecodeFails
    <3>4. Complete(r)'
      BY <3>2, <3>3 DEF Complete
    <3> QED BY <1>6, <2>1, <3>4
  <2> QED BY <1>5, <1>7, <2>1 DEF DecodeFails
<1>8. CASE ExpandBatch(w)
  <2>1. CASE Kids[wk[w].in] = 0
    <3>1. Children(rawIn'[r]) = {}
      BY <1>4, <1>8, <2>1 DEF Children, ExpandBatch
    <3>2. Complete(r)'
      BY <3>1 DEF Complete
    <3> QED BY <1>5, <1>6, <1>8, <2>1, <3>2 DEF ExpandBatch
  <2> QED BY <1>5, <1>8, <2>1 DEF ExpandBatch
<1>9. CASE ResumeBatch(w)
  BY <1>5, <1>9 DEF ResumeBatch
<1>10. CASE CaptureSnapshot(w)
  <2> DEFINE p == LoopPhase(wk[w].in, wk[w].recov, 0, FALSE)
             k == [wk[w] EXCEPT !.snap = active, !.next = 0, !.unres = FALSE, !.pc = p]
  <2>0. Become(w, k) /\ wk[w].in \notin Broken
    BY <1>1, <1>10, WorkerFacts DEF CaptureSnapshot, WorkerOK
  <2>1. p \in {"check", "process", "count"} /\ (p = "count" => ~(0 < Kids[wk[w].in]))
    BY DEF LoopPhase
  <2> HIDE DEF p
  <2>2. k.pc = p /\ k.raw = r /\ k.next = 0 /\ k.st = "accepted"
    BY <1>1, <1>2, <1>3 DEF WorkerState
  <2> HIDE DEF k
  <2>3. CASE p = "count"
    <3>1. Children(rawIn'[r]) = {}
      BY <1>2, <1>4, <2>0, <2>1, <2>3 DEF Children
    <3>2. Complete(r)'
      BY <3>1 DEF Complete
    <3> QED BY <1>1, <2>0, <2>2, <2>3, <3>2, LossComplete DEF Become
  <2>4. CASE p # "count"
    <3>1. wk'[w] = k
      BY <1>1, <2>0 DEF Become, TypeInv, TypeOK
    <3>2. wk'[w].pc \in {"check", "process"} /\ wk'[w].next = 0 /\ wk'[w].st = "accepted"
      BY <2>1, <2>2, <2>4, <3>1
    <3>3. LossOK(wk[w])'
      BY <3>2 DEF LossOK
    <3> QED BY <1>1, <2>0, <3>3, LossWorkerStep DEF Become
  <2> QED BY <2>3, <2>4
<1> QED BY <1>7, <1>8, <1>9, <1>10

LEMMA LossChild ==
    ASSUME LossInv, TypeInv', NoDirectEmit', Persists, Grows, NEW w \in Worker, Durable,
           \/ CheckChild(w) \/ RejectChild(w) \/ NormalizeChild(w)
           \/ QuarantineAfter(w, "storeerr", "store_error")
    PROVE  LossInv'
<1>1. /\ wk[w].pc \in {"check", "process", "storeerr"} /\ wk[w].pc \notin {"idle", "commit"}
      /\ TypeInv /\ UNCHANGED <<rp, rawStatus>>
  BY DEF LossInv, CheckChild, RejectChild, NormalizeChild, QuarantineAfter, PersistQuarantine, QuarantineFails,
         QuarantineChild, StoreNormalizedWithOutbox, store
<1>2. PICK r \in RawId, n \in Nat : r = wk[w].raw /\ n = wk[w].next
  BY <1>1, WorkerFacts
<1>3. ASSUME Become(w, Advance(wk[w], TRUE))
      PROVE  LossInv'
  BY <1>1, <1>2, <1>3, LossAdvance
<1>4. ASSUME Become(w, Advance(wk[w], FALSE)), HasCompletedChild(r, n)'
      PROVE  LossInv'
  BY <1>1, <1>2, <1>4, LossAdvance
<1>5. CASE CheckChild(w)
  <2>1. HasCompletedChild(r, n) => HasCompletedChild(r, n)'
    BY DEF Grows
  <2>2. Become(w, [wk[w] EXCEPT !.pc = "process"]) => LossInv'
    BY <1>1, <1>5, LossSameChild DEF CheckChild
  <2>3. \/ HasCompletedChild(r, n) /\ Become(w, Advance(wk[w], FALSE))
        \/ Become(w, [wk[w] EXCEPT !.pc = "process"])
        \/ Become(w, Advance(wk[w], TRUE))
    BY <1>2, <1>5 DEF CheckChild
  <2> QED BY <1>3, <1>4, <2>1, <2>2, <2>3
<1>6. ASSUME NEW y, PersistQuarantine(wk[w].raw, wk[w].next, y)
      PROVE  HasCompletedChild(r, n)'
  <2>1. <<r, n, y>> \in quar'
    BY <1>2, <1>6 DEF PersistQuarantine, QuarantineChild
  <2> QED BY <2>1 DEF HasCompletedChild
<1>7. CASE RejectChild(w) \/ QuarantineAfter(w, "storeerr", "store_error")
  BY <1>3, <1>4, <1>6, <1>7 DEF RejectChild, QuarantineAfter
<1>8. CASE NormalizeChild(w)
  <2>1. ASSUME NEW D, StoreNormalizedWithOutbox(wk[w].raw, wk[w].next, D)
        PROVE  HasCompletedChild(r, n)'
    BY <1>2, <2>1 DEF StoreNormalizedWithOutbox, HasCompletedChild
  <2>2. Become(w, [wk[w] EXCEPT !.pc = "storeerr"]) => LossInv'
    BY <1>1, <1>8, LossSameChild DEF NormalizeChild
  <2> QED BY <1>4, <1>8, <2>1, <2>2 DEF NormalizeChild
<1> QED BY <1>5, <1>7, <1>8

LEMMA LossStatus ==
    ASSUME LossInv, TypeInv', NoDirectEmit', Persists, Grows, NEW w \in Worker,
           DeriveStatus(w) \/ SetStatus(w)
    PROVE  LossInv'
<1>1. wk[w].pc \in {"count", "setstatus"} /\ wk[w].pc \notin {"idle", "commit"} /\ TypeInv /\ rp' = rp
      /\ LossOK(wk[w])
  BY DEF LossInv, WorkersLossOK, DeriveStatus, SetStatus
<1>2. wk[w] \in WorkerState
  BY <1>1, WorkerFacts
<1>3. PICK r \in RawId : r = wk[w].raw /\ rawStatus[r] # "absent"
  BY <1>1, WorkerFacts
<1>4. Complete(r) => Complete(r)'
  BY <1>1, <1>3, CompleteStays
<1>5. CASE DeriveStatus(w)
  <2>0. wk[w].pc = "count" /\ wk[w].st = "accepted" /\ Complete(r)' /\ rawStatus' = rawStatus
    BY <1>1, <1>3, <1>4, <1>5 DEF DeriveStatus, LossOK, store
  <2>1. ASSUME NEW STATE st, Become(w, [wk[w] EXCEPT !.pc = "setstatus", !.st = st])
        PROVE  LossInv'
    <3> DEFINE k == [wk[w] EXCEPT !.pc = "setstatus", !.st = st]
    <3>1. k.pc = "setstatus" /\ k.raw = r
      BY <1>2, <1>3 DEF WorkerState
    <3> HIDE DEF k
    <3> QED BY <1>1, <2>0, <2>1, <3>1, LossComplete DEF Become, k
  <2>2. ASSUME Become(w, [wk[w] EXCEPT !.pc = "setstatus"])
        PROVE  LossInv'
    <3> DEFINE k == [wk[w] EXCEPT !.pc = "setstatus"]
    <3>1. k.pc = "setstatus" /\ k.raw = r
      BY <1>2, <1>3 DEF WorkerState
    <3> HIDE DEF k
    <3> QED BY <1>1, <2>0, <2>2, <3>1, LossComplete DEF Become, k
  <2> QED BY <1>5, <2>1, <2>2 DEF DeriveStatus
<1>6. CASE SetStatus(w)
  <2>1. \A x \in RawId : rawStatus'[x] \in Final => rawStatus'[x] = rawStatus[x] \/ Complete(x)'
    <3>1. CASE UNCHANGED store
      BY <3>1 DEF store
    <3>2. CASE UpdateStatus(wk[w].raw, wk[w].st)
      <4>1. rawStatus' = [rawStatus EXCEPT ![r] = wk[w].st] /\ rawStatus \in [RawId -> RawStatus \cup {"absent"}]
        BY <1>1, <1>3, <3>2 DEF UpdateStatus, TypeInv, TypeOK, StoreTypeOK
      <4>2. wk[w].st \in Final => Complete(r)'
        BY <1>1, <1>3, <1>4, <1>6 DEF SetStatus, LossOK
      <4> SUFFICES ASSUME NEW x \in RawId, rawStatus'[x] \in Final
                   PROVE  rawStatus'[x] = rawStatus[x] \/ Complete(x)'
        OBVIOUS
      <4>3. CASE x = r
        BY <4>1, <4>2, <4>3
      <4>4. CASE x # r
        BY <4>1, <4>4
      <4> QED BY <4>3, <4>4
    <3> QED BY <1>6, <3>1, <3>2 DEF SetStatus
  <2>2. wk' = [wk EXCEPT ![w] = IdleWorker] /\ IdleWorker.pc = "idle" /\ IdleWorker.st = "accepted"
    BY <1>6 DEF SetStatus, Become, IdleWorker
  <2> QED BY <1>1, <2>1, <2>2, LossFresh
<1> QED BY <1>5, <1>6

-----------------------------------------------------------------------------
(* The steps of everyone else. *)

\* Nobody but the workers and the replays is in the way of NoSilentLoss.
LEMMA LossOutside ==
    ASSUME LossInv, TypeInv', NoDirectEmit', Persists, Grows, UNCHANGED <<wk, rp, rawStatus>>
    PROVE  LossInv'
<1>1. WorkersLossOK'
  BY LossOKStays DEF LossInv, WorkersLossOK
<1>2. NoSilentLoss'
  BY NoSilentLossStays DEF LossInv
<1>3. ReplayOK'
  BY DEF LossInv, ReplayOK, Persists
<1> QED BY <1>1, <1>2, <1>3 DEF LossInv

LEMMA LossCrash ==
    ASSUME LossInv, TypeInv', NoDirectEmit', Persists, Grows, Crash
    PROVE  LossInv'
<1>1. WorkersLossOK'
  BY DEF Crash, WorkersLossOK, LossOK, IdleWorker
<1>2. NoSilentLoss'
  BY NoSilentLossStays DEF LossInv, Crash, store
<1>3. ReplayOK'
  BY DEF Crash, ReplayOK, IdleReplay
<1> QED BY <1>1, <1>2, <1>3 DEF LossInv

\* A replay closes its raw record whatever the other children: harmless when
\* there are none.
LEMMA LossReplay ==
    ASSUME SafeReplay, LossInv, TypeInv', NoDirectEmit', Persists, Grows,
           NEW p \in Replayer, ReplayCommit(p) \/ \E q \in quar : ReplayStart(p, q)
    PROVE  LossInv'
<1>1. wk' = wk /\ \A i \in Input : Kids[i] \in Nat /\ Kids[i] <= 1
  BY StoreAssumption DEF ReplayCommit, ReplayStart, SafeReplay
<1>2. WorkersLossOK'
  BY <1>1, LossOKStays DEF LossInv, WorkersLossOK
<1>3. TypeInv /\ rp \in [Replayer -> [pc : {"idle", "commit"}, q : (RawId \X Nat \X Why) \cup {NoRow}]]
  BY DEF LossInv, TypeInv, TypeOK
<1>4. ReplayOK'
  <2>1. CASE ReplayCommit(p)
    BY <1>3, <2>1 DEF LossInv, ReplayOK, ReplayCommit, IdleReplay, Persists
  <2>2. ASSUME NEW q \in quar, ReplayStart(p, q)
        PROVE  ReplayOK'
    <3>1. q \in RawId \X Nat \X Why /\ rawStatus[q[1]] # "absent"
      BY <1>3 DEF TypeInv, TypeOK, StoreTypeOK, RowsOK
    <3>2. rawIn[q[1]] \in Input /\ rawIn[q[1]] \notin Broken /\ q[2] < Kids[rawIn[q[1]]]
      BY <1>3, <2>2, <3>1 DEF ReplayStart, TypeInv, TypeOK, StoreTypeOK
    <3>3. q[2] \in Children(rawIn[q[1]])
      BY <1>1, <3>1, <3>2 DEF Children
    <3>4. rp' = [rp EXCEPT ![p] = [pc |-> "commit", q |-> q]] /\ UNCHANGED store
      BY <2>2 DEF ReplayStart
    <3>5. \A o \in Replayer : rp'[o] = IF o = p THEN [pc |-> "commit", q |-> q] ELSE rp[o]
      BY <1>3, <3>4
    <3> QED BY <3>1, <3>3, <3>4, <3>5 DEF LossInv, ReplayOK, store
  <2> QED BY <2>1, <2>2
<1>5. NoSilentLoss'
  <2>1. CASE UNCHANGED store
    BY <1>3, <2>1, NoSilentLossStays DEF LossInv, store
  <2>2. ASSUME rp[p].pc = "commit", NEW D, ResolveQuarantineWithOutbox(rp[p].q, D)
        PROVE  NoSilentLoss'
    <3>1. PICK q \in RawId \X Nat \X Why : q = rp[p].q /\ rawStatus[q[1]] # "absent" /\ q[2] \in Children(rawIn[q[1]])
      BY <2>2 DEF LossInv, ReplayOK
    <3>2. PICK r \in RawId, c \in Nat : r = q[1] /\ c = q[2]
      BY <3>1
    <3>3. <<r, c>> \in norm'
      BY <2>2, <3>1, <3>2 DEF ResolveQuarantineWithOutbox
    <3>4. rawIn'[r] = rawIn[r] /\ rawIn[r] \in Input
      BY <1>3, <3>1, <3>2 DEF Persists, TypeInv, TypeOK, StoreTypeOK
    <3>5. Children(rawIn[r]) \subseteq {0}
      BY <1>1, <3>4 DEF Children
    <3>6. Complete(r)'
      <4>1. c = 0
        BY <3>1, <3>2, <3>5
      <4>2. HasCompletedChild(r, 0)'
        BY <3>3, <4>1 DEF HasCompletedChild
      <4> QED BY <3>4, <3>5, <4>2 DEF Complete
    <3>7. rawStatus \in [RawId -> RawStatus \cup {"absent"}] /\ \A x \in RawId : x # r => rawStatus'[x] = rawStatus[x]
      BY <1>3, <2>2, <3>1, <3>2 DEF ResolveQuarantineWithOutbox, TypeInv, TypeOK, StoreTypeOK
    <3>8. \A x \in RawId : rawStatus'[x] \in Final => rawStatus'[x] = rawStatus[x] \/ Complete(x)'
      <4> SUFFICES ASSUME NEW x \in RawId, rawStatus'[x] \in Final
                   PROVE  rawStatus'[x] = rawStatus[x] \/ Complete(x)'
        OBVIOUS
      <4>1. CASE x = r
        BY <3>6, <4>1
      <4> QED BY <3>7, <4>1
    <3> QED BY <1>3, <3>8, NoSilentLossStays DEF LossInv
  <2> QED BY <2>1, <2>2 DEF ReplayCommit, ReplayStart
<1> QED BY <1>2, <1>4, <1>5 DEF LossInv

LEMMA LossNext ==
    ASSUME Durable, SafeReplay, LossInv, [Next]_vars
    PROVE  LossInv'
<1>0. TypeInv /\ NoDirectEmit
  BY DEF LossInv
<1>1. TypeInv' /\ NoDirectEmit' /\ Persists /\ Grows
  BY <1>0, TypeNext, NoDirectEmitStep, PersistsStep, GrowsStep
<1>2. CASE \E w \in Worker : Take(w) \/ ProcessRecord(w)
  <2> PICK w \in Worker : Take(w) \/ ProcessRecord(w)
    BY <1>2
  <2>1. ~(EmitDirect(w) \/ UndoNormalized(w) \/ QuarantineAfter(w, "sinkerr", "sink_error"))
    BY <1>0 DEF NoDirectEmit, EmitDirect, UndoNormalized, QuarantineAfter
  <2> QED BY <1>1, <2>1, LossCommit, LossDecode, LossChild, LossStatus DEF ProcessRecord
<1>3. CASE \E p \in Replayer : ReplayCommit(p) \/ \E q \in quar : ReplayStart(p, q)
  BY <1>1, <1>3, LossReplay
<1>4. CASE Crash
  BY <1>1, <1>4, LossCrash
<1>5. CASE \/ \E i \in Input : Submit(i)
           \/ FetchPending \/ AckDelivery
           \/ \E row \in batch : EmitTo(row) \/ EmitToFails(row)
           \/ \E S \in SUBSET Dest : Reconfigure(S)
           \/ \E s \in Snapshot : ActivatePack(s)
           \/ FinishStartup
           \/ \E r \in toRecover : Recover(r)
  <2>1. UNCHANGED <<wk, rp, rawStatus>>
    BY <1>5 DEF Submit, FetchPending, AckDelivery, EmitTo, EmitToFails, MarkDelivered, MarkFailed,
       Reconfigure, ActivatePack, FinishStartup, Recover, store
  <2> QED BY <1>1, <2>1, LossOutside
<1>6. CASE UNCHANGED vars
  BY <1>1, <1>6, LossOutside DEF vars, volatile, store
<1> QED BY <1>2, <1>3, <1>4, <1>5, <1>6 DEF Next

LEMMA LossInit == Init => LossInv
<1> SUFFICES ASSUME Init PROVE LossInv
  OBVIOUS
<1>1. NoDirectEmit /\ WorkersLossOK
  BY DEF Init, NoDirectEmit, WorkersLossOK, LossOK, IdleWorker
<1>2. NoSilentLoss
  BY DEF Init, StoreInit, NoSilentLoss, Final
<1>3. ReplayOK
  BY DEF Init, ReplayOK, IdleReplay
<1> QED BY <1>1, <1>2, <1>3, TypeInit DEF LossInv

\* A raw record gets a final status, and is out of reach of recovery, only
\* when each of its children is in normalized_events or in quarantine.
THEOREM NoSilentLossHolds == ASSUME Durable, SafeReplay PROVE Spec => []NoSilentLoss
<1>1. LossInv /\ [Next]_vars => LossInv'
  BY LossNext
<1>2. LossInv => NoSilentLoss
  BY DEF LossInv
<1> QED BY <1>1, <1>2, LossInit, PTL DEF Spec

-----------------------------------------------------------------------------
(* The refinement of Custody.  A step is classified by what it does to the *)
(* tables that the refinement mapping reads.                               *)

\* A normalized row belongs to a row of raw_events.
NormRowsOK == \A x \in norm : rawStatus[x[1]] # "absent"

SameOutcomes == UNCHANGED <<rawIn, rawStatus, norm, quar>>
Commits == \E r \in RawId, i \in Input : FreshRaw(r) /\ InsertRaw(r, i)
Quarantines ==
    \E r \in RawId, c \in Nat, y \in Why : rawStatus[r] # "absent" /\ QuarantineChild(r, c, y)
Normalizes ==
    \E r \in RawId, c \in Nat : \E D : rawStatus[r] # "absent" /\ StoreNormalizedWithOutbox(r, c, D)
Resolves ==
    \E r \in RawId, c \in Nat, y \in Why : \E D :
        /\ Replayer # {} /\ rawStatus[r] # "absent" /\ c \in Children(rawIn[r])
        /\ ResolveQuarantineWithOutbox(<<r, c, y>>, D)
SetsStatus ==
    \E r \in RawId, st \in RawStatus :
        /\ rawStatus[r] # "absent" /\ (st \in Final => Complete(r))
        /\ UpdateStatus(r, st)

LEMMA StoreEffect ==
    ASSUME Durable, LossInv, [Next]_vars
    PROVE  SameOutcomes \/ Commits \/ Quarantines \/ Normalizes \/ Resolves \/ SetsStatus
<1>0. TypeInv /\ NoDirectEmit
  BY DEF LossInv
<1>1. CASE \E w \in Worker : ProcessRecord(w)
  <2> PICK w \in Worker : ProcessRecord(w)
    BY <1>1
  <2>1. CASE StoreRecord(w)
    <3>1. CASE UNCHANGED store
      BY <3>1 DEF store, SameOutcomes
    <3>2. ASSUME NEW r \in RawId, FreshRaw(r), InsertRaw(r, wk[w].in)
          PROVE  Commits
      <4>1. wk[w].in \in Input
        BY <1>0, <2>1 DEF StoreRecord, TypeInv, WorkersOK, WorkerOK, Known
      <4> QED BY <3>2, <4>1 DEF Commits
    <3> QED BY <2>1, <3>1, <3>2 DEF StoreRecord, Refuse
  <2>2. CASE SetStatus(w)
    <3>1. wk[w].raw \in RawId /\ wk[w].st \in RawStatus /\ rawStatus[wk[w].raw] # "absent"
      BY <1>0, <2>2, WorkerFacts DEF SetStatus, WorkerState
    <3>2. wk[w].st \in Final => Complete(wk[w].raw)
      BY <2>2 DEF SetStatus, LossInv, WorkersLossOK, LossOK
    <3>3. CASE UNCHANGED store
      BY <3>3 DEF store, SameOutcomes
    <3> QED BY <2>2, <3>1, <3>2, <3>3 DEF SetStatus, SetsStatus
  <2>3. ASSUME NEW c \in Nat, NEW y \in Why, wk[w].pc \notin {"idle", "commit"}, QuarantineChild(wk[w].raw, c, y)
        PROVE  Quarantines
    BY <1>0, <2>3, WorkerFacts DEF Quarantines
  <2>4. CASE DecodeFails(w) \/ ExpandBatch(w)
    <3>1. "parse_error" \in Why /\ "empty_payload" \in Why /\ 0 \in Nat
      BY DEF Why
    <3>2. wk[w].pc \notin {"idle", "commit"}
      BY <2>4 DEF DecodeFails, ExpandBatch
    <3> QED BY <2>3, <2>4, <3>1, <3>2 DEF DecodeFails, ExpandBatch, PersistQuarantine, QuarantineFails, store, SameOutcomes
  <2>5. CASE RejectChild(w)
    <3>1. wk[w].pc = "process" /\ wk[w].pc \notin {"idle", "commit"}
      BY <2>5 DEF RejectChild
    <3>2. wk[w].next \in 0 .. (Kids[wk[w].in] - 1) /\ wk[w].snap \in Snapshot /\ wk[w].in \in Input
      BY <1>0, <3>1, WorkerFacts DEF WorkerOK, WorkerState
    <3>3. Verdict(wk[w].snap, wk[w].in, wk[w].next) \in Why
      BY <2>5, <3>2, PipelineAssumption DEF RejectChild, Verdicts, Why
    <3>4. wk[w].next \in Nat
      BY <1>0, <3>1, WorkerFacts
    <3> QED BY <2>3, <2>5, <3>1, <3>3, <3>4 DEF RejectChild, PersistQuarantine, QuarantineFails, store, SameOutcomes
  <2>6. CASE QuarantineAfter(w, "storeerr", "store_error")
    <3>1. wk[w].pc = "storeerr" /\ wk[w].pc \notin {"idle", "commit"} /\ "store_error" \in Why
      BY <2>6 DEF QuarantineAfter, Why
    <3>2. wk[w].next \in Nat
      BY <1>0, <3>1, WorkerFacts
    <3> QED BY <2>3, <2>6, <3>1, <3>2 DEF QuarantineAfter, PersistQuarantine, QuarantineFails, store, SameOutcomes
  <2>7. CASE NormalizeChild(w)
    <3>1. wk[w].pc \notin {"idle", "commit"}
      BY <2>7 DEF NormalizeChild
    <3>2. wk[w].next \in Nat /\ wk[w].raw \in RawId /\ rawStatus[wk[w].raw] # "absent"
      BY <1>0, <3>1, WorkerFacts
    <3> QED BY <2>7, <3>2 DEF NormalizeChild, Normalizes, store, SameOutcomes
  <2>8. CASE RetrieveRecord(w) \/ ResumeBatch(w) \/ CaptureSnapshot(w) \/ CheckChild(w) \/ DeriveStatus(w)
    BY <2>8 DEF RetrieveRecord, Refuse, ResumeBatch, CaptureSnapshot, CheckChild, DeriveStatus, store, SameOutcomes
  <2>9. ~(EmitDirect(w) \/ UndoNormalized(w) \/ QuarantineAfter(w, "sinkerr", "sink_error"))
    BY <1>0 DEF NoDirectEmit, EmitDirect, UndoNormalized, QuarantineAfter
  <2> QED BY <2>1, <2>2, <2>4, <2>5, <2>6, <2>7, <2>8, <2>9 DEF ProcessRecord
<1>2. ASSUME NEW p \in Replayer, ReplayCommit(p)
      PROVE  SameOutcomes \/ Resolves
  <2>1. CASE UNCHANGED store
    BY <2>1 DEF store, SameOutcomes
  <2>2. ASSUME NEW D, ResolveQuarantineWithOutbox(rp[p].q, D)
        PROVE  Resolves
    <3>1. PICK q \in RawId \X Nat \X Why : q = rp[p].q /\ rawStatus[q[1]] # "absent" /\ q[2] \in Children(rawIn[q[1]])
      BY <1>2 DEF ReplayCommit, LossInv, ReplayOK
    <3>2. PICK r \in RawId, c \in Nat, y \in Why : q = <<r, c, y>>
      BY <3>1
    <3>3. rawStatus[r] # "absent" /\ c \in Children(rawIn[r]) /\ ResolveQuarantineWithOutbox(<<r, c, y>>, D)
      BY <2>2, <3>1, <3>2
    <3> QED BY <1>2, <3>3 DEF Resolves
  <2> QED BY <1>2, <2>1, <2>2 DEF ReplayCommit
<1>3. CASE \/ \E i \in Input : Submit(i)
           \/ \E w \in Worker : Take(w)
           \/ FetchPending \/ AckDelivery
           \/ \E row \in batch : EmitTo(row) \/ EmitToFails(row)
           \/ \E p \in Replayer : \E q \in quar : ReplayStart(p, q)
           \/ \E S \in SUBSET Dest : Reconfigure(S)
           \/ \E s \in Snapshot : ActivatePack(s)
           \/ Crash \/ FinishStartup
           \/ \E r \in toRecover : Recover(r)
  BY <1>3 DEF Submit, Take, FetchPending, AckDelivery, EmitTo, EmitToFails, MarkDelivered, MarkFailed,
     ReplayStart, Reconfigure, ActivatePack, Crash, FinishStartup, Recover, store, SameOutcomes
<1>4. CASE UNCHANGED vars
  BY <1>4 DEF vars, store, SameOutcomes
<1> QED BY <1>1, <1>2, <1>3, <1>4 DEF Next

LEMMA NormRowsStep ==
    ASSUME Durable, LossInv, NormRowsOK, [Next]_vars
    PROVE  NormRowsOK'
<1>0. TypeInv /\ Persists
  BY PersistsStep DEF LossInv
<1>1. norm \subseteq RawId \X Nat
  BY <1>0 DEF TypeInv, TypeOK, StoreTypeOK
<1>2. CASE norm' = norm
  BY <1>0, <1>1, <1>2 DEF NormRowsOK, Persists
<1>3. ASSUME NEW r \in RawId, NEW c \in Nat, rawStatus[r] # "absent", norm' = norm \cup {<<r, c>>}
      PROVE  NormRowsOK'
  BY <1>0, <1>1, <1>3 DEF NormRowsOK, Persists
<1>4. CASE SameOutcomes \/ Commits \/ Quarantines \/ SetsStatus
  BY <1>2, <1>4 DEF SameOutcomes, Commits, Quarantines, SetsStatus, InsertRaw, QuarantineChild, UpdateStatus
<1>5. CASE Normalizes
  BY <1>3, <1>5 DEF Normalizes, StoreNormalizedWithOutbox
<1>6. CASE Resolves
  <2>1. PICK r \in RawId, c \in Nat, y \in Why :
           rawStatus[r] # "absent" /\ \E D : ResolveQuarantineWithOutbox(<<r, c, y>>, D)
    BY <1>6 DEF Resolves
  <2>2. norm' = norm \cup {<<r, c>>}
    BY <2>1 DEF ResolveQuarantineWithOutbox
  <2> QED BY <1>3, <2>1, <2>2
<1> QED BY <1>4, <1>5, <1>6, StoreEffect

-----------------------------------------------------------------------------
(* What the steps do under the refinement mapping. *)

\* The outcomes of one raw record.
RowOutcome(r) == [c \in Children(rawIn[r]) |-> ChildOutcome(r, c)]

LEMMA RowIs ==
    ASSUME NEW r \in RawId
    PROVE  /\ rawStatus[r] # "absent" => OutcomeMap[r] = RowOutcome(r)
           /\ rawStatus[r] = "absent" => OutcomeMap[r] = Promise!Nothing
BY DEF OutcomeMap, RowOutcome, Promise!Nothing

LEMMA RowIsNext ==
    ASSUME NEW r \in RawId
    PROVE  /\ rawStatus'[r] # "absent" => OutcomeMap'[r] = RowOutcome(r)'
           /\ rawStatus'[r] = "absent" => OutcomeMap'[r] = Promise!Nothing
BY DEF OutcomeMap, RowOutcome, Promise!Nothing

\* A step that changes the outcomes of no record but r.
LEMMA MapChange ==
    ASSUME NEW r \in RawId, NEW v, OutcomeMap'[r] = v,
           \A s \in RawId : s # r => OutcomeMap'[s] = OutcomeMap[s]
    PROVE  OutcomeMap' = [OutcomeMap EXCEPT ![r] = v]
<1>1. OutcomeMap = [s \in RawId |-> OutcomeMap[s]]
  BY DEF OutcomeMap
<1>2. OutcomeMap' = [s \in RawId |-> OutcomeMap'[s]]
  BY DEF OutcomeMap
<1> QED BY <1>1, <1>2

LEMMA MapSame ==
    ASSUME \A s \in RawId : OutcomeMap'[s] = OutcomeMap[s]
    PROVE  OutcomeMap' = OutcomeMap
<1>1. OutcomeMap = [s \in RawId |-> OutcomeMap[s]]
  BY DEF OutcomeMap
<1>2. OutcomeMap' = [s \in RawId |-> OutcomeMap'[s]]
  BY DEF OutcomeMap
<1> QED BY <1>1, <1>2

\* The outcomes of a record are a matter of its status, its bytes and the
\* rows of its children.
LEMMA RowSame ==
    ASSUME NEW s \in RawId, rawStatus'[s] = "absent" <=> rawStatus[s] = "absent",
           rawIn'[s] = rawIn[s],
           rawStatus[s] # "absent" => \A c \in Children(rawIn[s]) : ChildOutcome(s, c)' = ChildOutcome(s, c)
    PROVE  OutcomeMap'[s] = OutcomeMap[s]
<1>1. CASE rawStatus[s] = "absent"
  BY <1>1, RowIs, RowIsNext
<1>2. CASE rawStatus[s] # "absent"
  <2>1. RowOutcome(s)' = RowOutcome(s)
    BY <1>2 DEF RowOutcome
  <2> QED BY <1>2, <2>1, RowIs, RowIsNext
<1> QED BY <1>1, <1>2

\* One child of one record has a new outcome.
LEMMA ChildChange ==
    ASSUME NEW r \in RawId, NEW c \in Children(rawIn[r]), NEW o,
           UNCHANGED rawIn, rawStatus[r] # "absent",
           \A s \in RawId : rawStatus'[s] = "absent" <=> rawStatus[s] = "absent",
           ChildOutcome(r, c)' = o,
           \A s \in RawId : \A d \in Children(rawIn[s]) :
               <<s, d>> # <<r, c>> => ChildOutcome(s, d)' = ChildOutcome(s, d)
    PROVE  OutcomeMap' = [OutcomeMap EXCEPT ![r][c] = o]
<1>1. OutcomeMap[r] = RowOutcome(r) /\ OutcomeMap'[r] = RowOutcome(r)'
  BY RowIs, RowIsNext
<1>2. RowOutcome(r)' = [RowOutcome(r) EXCEPT ![c] = o]
  <2>1. \A d \in Children(rawIn[r]) : d # c => ChildOutcome(r, d)' = ChildOutcome(r, d)
    OBVIOUS
  <2> QED BY <2>1 DEF RowOutcome
<1>3. \A s \in RawId : s # r => OutcomeMap'[s] = OutcomeMap[s]
  <2> SUFFICES ASSUME NEW s \in RawId, s # r
               PROVE  OutcomeMap'[s] = OutcomeMap[s]
    OBVIOUS
  <2>1. \A d \in Children(rawIn[s]) : ChildOutcome(s, d)' = ChildOutcome(s, d)
    OBVIOUS
  <2> QED BY <2>1, RowSame
<1>4. OutcomeMap'[r] = [OutcomeMap[r] EXCEPT ![c] = o]
  BY <1>1, <1>2
<1> QED BY <1>3, <1>4, MapChange

LEMMA ChildrenSame ==
    ASSUME UNCHANGED rawIn,
           \A s \in RawId : rawStatus'[s] = "absent" <=> rawStatus[s] = "absent",
           \A s \in RawId : rawStatus[s] # "absent" =>
               \A d \in Children(rawIn[s]) : ChildOutcome(s, d)' = ChildOutcome(s, d)
    PROVE  OutcomeMap' = OutcomeMap
BY RowSame, MapSame

\* A record all of whose children have a row is decided.
LEMMA CompleteDecided ==
    ASSUME NEW r \in RawId, rawStatus[r] # "absent", Complete(r)
    PROVE  Promise!Decided(OutcomeMap[r])
<1>1. OutcomeMap[r] = RowOutcome(r)
  BY RowIs
<1>2. \A c \in Children(rawIn[r]) : ChildOutcome(r, c) # "none"
  BY DEF Complete, ChildOutcome
<1>3. DOMAIN RowOutcome(r) = Children(rawIn[r]) /\ \A c \in Children(rawIn[r]) : RowOutcome(r)[c] # "none"
  BY <1>2 DEF RowOutcome
<1> QED BY <1>1, <1>3 DEF Promise!Decided

PromiseStep == Promise!Next \/ UNCHANGED <<OutcomeMap, ClosedMap>>

LEMMA AcceptStep ==
    ASSUME LossInv, NormRowsOK, Commits
    PROVE  PromiseStep
<1>1. PICK r \in RawId, i \in Input : FreshRaw(r) /\ InsertRaw(r, i)
  BY DEF Commits
<1>2. /\ rawStatus[r] = "absent" /\ UNCHANGED <<norm, quar>>
      /\ rawIn' = [rawIn EXCEPT ![r] = i] /\ rawStatus' = [rawStatus EXCEPT ![r] = "accepted"]
  BY <1>1 DEF FreshRaw, InsertRaw
<1>3. /\ rawIn \in [RawId -> Input \cup {NoInput}] /\ rawStatus \in [RawId -> RawStatus \cup {"absent"}]
      /\ norm \subseteq RawId \X Nat /\ quar \subseteq RawId \X Nat \X Why /\ RowsOK
  BY DEF LossInv, TypeInv, TypeOK, StoreTypeOK
<1>4. rawIn'[r] = i /\ rawStatus'[r] = "accepted"
  BY <1>2, <1>3
<1>5. \A s \in RawId : s # r => rawIn'[s] = rawIn[s] /\ rawStatus'[s] = rawStatus[s]
  BY <1>2, <1>3
<1>6. \A c : ~HasCompletedChild(r, c)
  BY <1>2, <1>3 DEF HasCompletedChild, NormRowsOK, RowsOK
<1>7. \A c : ChildOutcome(r, c)' = "none"
  <2>1. \A c : ~HasCompletedChild(r, c)'
    BY <1>2, <1>6 DEF HasCompletedChild
  <2> QED BY <2>1 DEF ChildOutcome, HasCompletedChild
<1>8. OutcomeMap'[r] = [c \in Children(i) |-> "none"]
  <2>1. OutcomeMap'[r] = RowOutcome(r)'
    BY <1>4, RowIsNext
  <2> QED BY <1>4, <1>7, <2>1 DEF RowOutcome
<1>9. \A s \in RawId : s # r => OutcomeMap'[s] = OutcomeMap[s]
  <2>1. \A s, d : ChildOutcome(s, d)' = ChildOutcome(s, d)
    BY <1>2 DEF ChildOutcome, HasCompletedChild
  <2> QED BY <1>5, <2>1, RowSame
<1>10. OutcomeMap' = [OutcomeMap EXCEPT ![r] = [c \in Children(i) |-> "none"]]
  BY <1>8, <1>9, MapChange
<1>11. ClosedMap' = ClosedMap /\ r \notin ClosedMap
  BY <1>2, <1>4, <1>5 DEF ClosedMap, Final
<1>12. OutcomeMap[r] = Promise!Nothing
  BY <1>2, RowIs
<1>13. Promise!Accept(r, i)
  BY <1>10, <1>11, <1>12 DEF Promise!Accept
<1> QED BY <1>13 DEF PromiseStep, Promise!Next

\* A child gets an outcome that it had not, or a better one; no status moves.
LEMMA DecideStep ==
    ASSUME NEW r \in RawId, NEW c \in Children(rawIn[r]), NEW o \in {"quarantined", "normalized"},
           rawStatus[r] # "absent", UNCHANGED <<rawIn, rawStatus>>, ChildOutcome(r, c)' = o,
           \/ ChildOutcome(r, c) = "none"
           \/ ChildOutcome(r, c) = "quarantined" /\ o = "normalized" /\ (rawStatus[r] \in Final => Complete(r)),
           \A s \in RawId : \A d \in Children(rawIn[s]) :
               <<s, d>> # <<r, c>> => ChildOutcome(s, d)' = ChildOutcome(s, d)
    PROVE  PromiseStep
<1>1. OutcomeMap' = [OutcomeMap EXCEPT ![r][c] = o]
  BY ChildChange
<1>2. ClosedMap' = ClosedMap
  BY DEF ClosedMap
<1>3. OutcomeMap[r] = RowOutcome(r)
  BY RowIs
<1>4. c \in DOMAIN OutcomeMap[r] /\ OutcomeMap[r][c] = ChildOutcome(r, c)
  BY <1>3 DEF RowOutcome
<1>5. CASE ChildOutcome(r, c) = "none"
  <2>1. Promise!Decide(r, c, o)
    BY <1>1, <1>2, <1>4, <1>5 DEF Promise!Decide
  <2> QED BY <1>4, <2>1 DEF PromiseStep, Promise!Next
<1>6. CASE ChildOutcome(r, c) = "quarantined" /\ o = "normalized" /\ (rawStatus[r] \in Final => Complete(r))
  <2>1. r \in ClosedMap' => Promise!Decided(OutcomeMap[r])
    BY <1>2, <1>6, CompleteDecided DEF ClosedMap
  <2>2. Promise!Redeem(r, c)
    BY <1>1, <1>2, <1>4, <1>6, <2>1 DEF Promise!Redeem
  <2> QED BY <1>4, <2>2 DEF PromiseStep, Promise!Next
<1> QED BY <1>5, <1>6

LEMMA OutcomeStep ==
    ASSUME LossInv, Quarantines \/ Normalizes
    PROVE  PromiseStep
<1>1. PICK r \in RawId, c \in Nat :
         /\ rawStatus[r] # "absent" /\ UNCHANGED <<rawIn, rawStatus>>
         /\ \/ norm' = norm /\ \E y : quar' = quar \cup {<<r, c, y>>}
            \/ norm' = norm \cup {<<r, c>>} /\ quar' = quar
  BY DEF Quarantines, Normalizes, QuarantineChild, StoreNormalizedWithOutbox
<1>2. \A s, d : <<s, d>> # <<r, c>> => ChildOutcome(s, d)' = ChildOutcome(s, d)
  <2> SUFFICES ASSUME NEW s, NEW d, <<s, d>> # <<r, c>>
               PROVE  ChildOutcome(s, d)' = ChildOutcome(s, d)
    OBVIOUS
  <2>1. <<s, d>> \in norm' <=> <<s, d>> \in norm
    BY <1>1
  <2>2. (\E x \in quar' : x[1] = s /\ x[2] = d) <=> (\E x \in quar : x[1] = s /\ x[2] = d)
    BY <1>1
  <2> QED BY <2>1, <2>2 DEF ChildOutcome, HasCompletedChild
<1>3. PICK b : b = ChildOutcome(r, c)
  OBVIOUS
<1>4. PICK o : o = ChildOutcome(r, c)'
  OBVIOUS
<1>5. /\ o \in {"quarantined", "normalized"} /\ b \in {"none", "quarantined", "normalized"}
      /\ b = "normalized" => o = "normalized"
  <2>1. ASSUME NEW y, quar' = quar \cup {<<r, c, y>>}
        PROVE  HasCompletedChild(r, c)'
    <3>1. <<r, c, y>> \in quar' /\ <<r, c, y>>[1] = r /\ <<r, c, y>>[2] = c
      BY <2>1
    <3> QED BY <3>1 DEF HasCompletedChild
  <2>2. HasCompletedChild(r, c)'
    BY <1>1, <2>1 DEF HasCompletedChild
  <2>3. <<r, c>> \in norm => <<r, c>> \in norm'
    BY <1>1
  <2> QED BY <1>3, <1>4, <2>2, <2>3 DEF ChildOutcome
<1>6. CASE c \in Children(rawIn[r]) /\ o # b
  <2>1. rawStatus[r] \in Final => Complete(r)
    BY DEF LossInv, NoSilentLoss
  <2> QED BY <1>1, <1>2, <1>3, <1>4, <1>5, <1>6, <2>1, DecideStep
<1>7. CASE ~(c \in Children(rawIn[r]) /\ o # b)
  <2>1. \A s \in RawId : \A d \in Children(rawIn[s]) : ChildOutcome(s, d)' = ChildOutcome(s, d)
    BY <1>2, <1>3, <1>4, <1>7
  <2>2. OutcomeMap' = OutcomeMap
    BY <1>1, <2>1, ChildrenSame
  <2> QED BY <1>1, <2>2 DEF PromiseStep, ClosedMap
<1> QED BY <1>6, <1>7

LEMMA ResolveStep ==
    ASSUME SafeReplay, LossInv, Resolves
    PROVE  PromiseStep
<1>1. PICK r \in RawId, c \in Nat, y \in Why :
         /\ rawStatus[r] # "absent" /\ c \in Children(rawIn[r])
         /\ \E D : ResolveQuarantineWithOutbox(<<r, c, y>>, D)
  BY DEF Resolves
<1>2. /\ <<r, c, y>> \in quar /\ norm' = norm \cup {<<r, c>>} /\ quar' = quar \ {<<r, c, y>>}
      /\ rawIn' = rawIn
  BY <1>1 DEF ResolveQuarantineWithOutbox
<1>3. PICK st \in Final : rawStatus' = [rawStatus EXCEPT ![r] = st]
  BY <1>1, OutcomeStatusFinal DEF ResolveQuarantineWithOutbox
<1>4. rawStatus \in [RawId -> RawStatus \cup {"absent"}] /\ rawIn[r] \in Input
  BY <1>1 DEF LossInv, TypeInv, TypeOK, StoreTypeOK
<1>5. /\ rawStatus'[r] \in Final
      /\ \A s \in RawId : s # r => rawStatus'[s] = rawStatus[s]
      /\ \A s \in RawId : rawStatus'[s] = "absent" <=> rawStatus[s] = "absent"
  BY <1>1, <1>3, <1>4 DEF Final
<1>6. ClosedMap' = ClosedMap \cup {r}
  BY <1>5 DEF ClosedMap
<1>7. HasCompletedChild(r, c) /\ ChildOutcome(r, c)' = "normalized"
  BY <1>2 DEF HasCompletedChild, ChildOutcome
<1>8. Children(rawIn[r]) = {c}
  <2>1. Kids[rawIn[r]] \in Nat /\ Kids[rawIn[r]] <= 1
    BY <1>4, StoreAssumption DEF SafeReplay, Resolves
  <2>2. Children(rawIn[r]) \subseteq {0}
    BY <2>1 DEF Children
  <2> QED BY <1>1, <2>2
<1>9. Promise!Decided(OutcomeMap[r])
  BY <1>1, <1>7, <1>8, CompleteDecided DEF Complete
<1>10. \A s, d : <<s, d>> # <<r, c>> => ChildOutcome(s, d)' = ChildOutcome(s, d)
  <2> SUFFICES ASSUME NEW s, NEW d, <<s, d>> # <<r, c>>
               PROVE  ChildOutcome(s, d)' = ChildOutcome(s, d)
    OBVIOUS
  <2>1. <<s, d>> \in norm' <=> <<s, d>> \in norm
    BY <1>2
  <2>2. (\E x \in quar' : x[1] = s /\ x[2] = d) <=> (\E x \in quar : x[1] = s /\ x[2] = d)
    BY <1>2
  <2> QED BY <2>1, <2>2 DEF ChildOutcome, HasCompletedChild
<1>11. CASE <<r, c>> \in norm
  <2>1. ChildOutcome(r, c) = "normalized"
    BY <1>11 DEF ChildOutcome
  <2>2. \A s \in RawId : \A d \in Children(rawIn[s]) : ChildOutcome(s, d)' = ChildOutcome(s, d)
    BY <1>7, <1>10, <2>1
  <2>3. OutcomeMap' = OutcomeMap
    BY <1>2, <1>5, <2>2, ChildrenSame
  <2>4. Promise!Close(r)
    BY <1>6, <1>9, <2>3 DEF Promise!Close
  <2> QED BY <2>4 DEF PromiseStep, Promise!Next
<1>12. CASE <<r, c>> \notin norm
  <2>1. ChildOutcome(r, c) = "quarantined"
    BY <1>7, <1>12 DEF ChildOutcome
  <2>2. OutcomeMap' = [OutcomeMap EXCEPT ![r][c] = "normalized"]
    BY <1>1, <1>2, <1>5, <1>7, <1>10, ChildChange
  <2>3. OutcomeMap[r] = RowOutcome(r)
    BY <1>1, RowIs
  <2>4. c \in DOMAIN OutcomeMap[r] /\ OutcomeMap[r][c] = "quarantined"
    BY <1>1, <2>1, <2>3 DEF RowOutcome
  <2>5. Promise!Redeem(r, c)
    BY <1>6, <1>9, <2>2, <2>4 DEF Promise!Redeem
  <2> QED BY <2>4, <2>5 DEF PromiseStep, Promise!Next
<1> QED BY <1>11, <1>12

LEMMA StatusStep ==
    ASSUME LossInv, SetsStatus
    PROVE  PromiseStep
<1>1. PICK r \in RawId, st \in RawStatus :
         rawStatus[r] # "absent" /\ (st \in Final => Complete(r)) /\ UpdateStatus(r, st)
  BY DEF SetsStatus
<1>2. UNCHANGED <<rawIn, norm, quar>> /\ rawStatus' = [rawStatus EXCEPT ![r] = st]
  BY <1>1 DEF UpdateStatus
<1>3. rawStatus \in [RawId -> RawStatus \cup {"absent"}]
  BY DEF LossInv, TypeInv, TypeOK, StoreTypeOK
<1>4. /\ rawStatus'[r] = st /\ st # "absent"
      /\ \A s \in RawId : s # r => rawStatus'[s] = rawStatus[s]
  BY <1>2, <1>3 DEF RawStatus, Final
<1>5. OutcomeMap' = OutcomeMap
  <2>1. \A s, d : ChildOutcome(s, d)' = ChildOutcome(s, d)
    BY <1>2 DEF ChildOutcome, HasCompletedChild
  <2>2. \A s \in RawId : rawStatus'[s] = "absent" <=> rawStatus[s] = "absent"
    BY <1>1, <1>4
  <2> QED BY <1>2, <2>1, <2>2, ChildrenSame
<1>6. CASE st \in Final
  <2>1. ClosedMap' = ClosedMap \cup {r}
    BY <1>4, <1>6 DEF ClosedMap
  <2>2. Promise!Decided(OutcomeMap[r])
    BY <1>1, <1>6, CompleteDecided
  <2>3. Promise!Close(r)
    BY <1>5, <2>1, <2>2 DEF Promise!Close
  <2> QED BY <2>3 DEF PromiseStep, Promise!Next
<1>7. CASE st \notin Final
  <2>1. ClosedMap' = ClosedMap \ {r}
    BY <1>4, <1>7 DEF ClosedMap
  <2>2. Promise!Reopen(r)
    BY <1>5, <2>1 DEF Promise!Reopen
  <2> QED BY <2>2 DEF PromiseStep, Promise!Next
<1> QED BY <1>6, <1>7

\* The queue, the workers, the replays, the store errors and the restarts
\* implement Custody: every step commits a record, gives one child its first
\* outcome, turns a quarantined child into a normalized one, closes a decided
\* record, opens one again, or is invisible.
THEOREM CustodyKept == ASSUME Durable, SafeReplay PROVE Spec => KeepsCustody
<1> DEFINE Inv == LossInv /\ NormRowsOK
<1>1. Init => Promise!Init
  <2> SUFFICES ASSUME Init PROVE Promise!Init
    OBVIOUS
  <2>1. rawStatus = [r \in RawId |-> "absent"]
    BY DEF Init, StoreInit
  <2>2. OutcomeMap = [r \in RawId |-> Promise!Nothing]
    BY <2>1 DEF OutcomeMap, Promise!Nothing
  <2>3. ClosedMap = {}
    BY <2>1 DEF ClosedMap, Final
  <2> QED BY <2>2, <2>3 DEF Promise!Init
<1>2. Init => Inv
  BY LossInit DEF Init, StoreInit, NormRowsOK
<1>3. Inv /\ [Next]_vars => Inv'
  BY LossNext, NormRowsStep
<1>4. Inv /\ [Next]_vars => [Promise!Next]_(Promise!custody)
  <2> SUFFICES ASSUME LossInv, NormRowsOK, [Next]_vars
               PROVE  PromiseStep
    BY DEF PromiseStep, Promise!custody
  <2>1. CASE SameOutcomes
    <3>1. OutcomeMap' = OutcomeMap /\ ClosedMap' = ClosedMap
      BY <2>1 DEF SameOutcomes, OutcomeMap, ClosedMap, ChildOutcome, HasCompletedChild
    <3> QED BY <3>1 DEF PromiseStep
  <2> QED BY <2>1, StoreEffect, AcceptStep, OutcomeStep, ResolveStep, StatusStep
<1> QED BY <1>1, <1>2, <1>3, <1>4, PTL DEF Spec, KeepsCustody, Promise!Spec

=============================================================================
