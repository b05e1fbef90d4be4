---------------------------- MODULE OutcomeProofs ----------------------------
(***************************************************************************)
(* One outcome per child: a worker gives a child an outcome only when it   *)
(* has none, and a replay turns the one row it has into the other.  This   *)
(* holds when no two workers can hold one raw record: there is one worker, *)
(* or no input that a spool can deliver again.  Otherwise two workers can  *)
(* both resume one accepted row, and both find a child without outcome.    *)
(* From it follow what a final status tells of the children, that the      *)
(* counters balance, and that pending counts nothing that is not there.    *)
(***************************************************************************)
EXTENDS PipelineProofs

NoRedelivery == \A i \in Input : FileKey[i] = NoKey
OneHandler == (\A v, w \in Worker : v = w) \/ NoRedelivery

Handles(w, r) == wk[w].pc # "idle" /\ wk[w].raw = r

\* A raw record is with one worker at most; without redelivery it is also
\* queued or listed for recovery at most once, and not while it is handled.
AloneOK ==
    /\ \A r \in RawId : \A v, w \in Worker : Handles(v, r) /\ Handles(w, r) => v = w
    /\ NoRedelivery => \A r \in RawId :
          /\ \A m, n \in 1 .. Len(inbound) : inbound[m].raw = r /\ inbound[n].raw = r => m = n
          /\ \A n \in 1 .. Len(inbound) : inbound[n].raw = r =>
                r \notin toRecover /\ \A w \in Worker : ~Handles(w, r)
          /\ r \in toRecover => \A w \in Worker : ~Handles(w, r)

QuarantinedChild(r, c) == \E x \in quar : x[1] = r /\ x[2] = c

\* The child a worker is about to give an outcome has none, and neither have
\* the later ones, unless the record is resumed and they are checked first.
CleanOK(k) ==
    /\ k.pc \in {"process", "storeerr", "sinkerr"} => ~HasCompletedChild(k.raw, k.next)
    /\ k.pc \in {"emit", "undo"} => ~QuarantinedChild(k.raw, k.next)
    /\ ~k.recov /\ k.pc \in {"decode", "capture"} => \A c \in Nat : ~HasCompletedChild(k.raw, c)
    /\ ~k.recov /\ k.pc \in {"check", "process", "storeerr", "emit", "undo", "sinkerr"} =>
          \A c \in Nat : c > k.next => ~HasCompletedChild(k.raw, c)

WorkersCleanOK == \A w \in Worker : CleanOK(wk[w])

\* An undecodable record has no row but its parse_error.
BrokenRowsOK ==
    /\ \A x \in quar : rawIn[x[1]] \in Broken => x[2] = 0 /\ x[3] = "parse_error"
    /\ \A x \in norm : rawIn[x[1]] \notin Broken

ReplaysDecodable ==
    \A p \in Replayer : rp[p].pc = "commit" => rp[p].q[1] \in RawId /\ rawIn[rp[p].q[1]] \notin Broken \cup {NoInput}

OneInv ==
    /\ TypeInv /\ AloneOK /\ NormRowsOK /\ BrokenRowsOK /\ ReplaysDecodable
    /\ WorkersCleanOK /\ OneOutcomePerChild

-----------------------------------------------------------------------------
(* A raw record is with one worker. *)

\* No worker takes up a record that it does not have.
NoneTakesUp == \A v \in Worker : \A r \in RawId : Handles(v, r)' => Handles(v, r)

LEMMA WorkerKeepsRecord ==
    ASSUME TypeInv, NEW w \in Worker, ProcessRecord(w), ~StoreRecord(w)
    PROVE  NoneTakesUp /\ UNCHANGED <<inbound, toRecover>>
<1>0. wk \in [Worker -> WorkerState]
  BY DEF TypeInv, TypeOK
<1>1. ASSUME NEW STATE k, Become(w, k), k.pc = "idle" \/ (k.raw = wk[w].raw /\ wk[w].pc # "idle")
      PROVE  NoneTakesUp
  <2>1. wk'[w] = k /\ \A v \in Worker : v # w => wk'[v] = wk[v]
    BY <1>0, <1>1 DEF Become
  <2> SUFFICES ASSUME NEW v \in Worker, NEW r \in RawId, Handles(v, r)'
               PROVE  Handles(v, r)
    BY DEF NoneTakesUp
  <2>2. CASE v = w
    BY <1>1, <2>1, <2>2 DEF Handles
  <2>3. CASE v # w
    BY <2>1, <2>3 DEF Handles
  <2> QED BY <2>2, <2>3
<1>2. Become(w, IdleWorker) => NoneTakesUp
  <2>1. IdleWorker.pc = "idle"
    BY DEF IdleWorker
  <2> QED BY <1>1, <2>1
<1>3. ASSUME wk[w].pc # "idle"
      PROVE  /\ \A u \in BOOLEAN : Become(w, Advance(wk[w], u)) => NoneTakesUp
             /\ \A p : Become(w, [wk[w] EXCEPT !.pc = p]) => NoneTakesUp
             /\ \A p, s : Become(w, [wk[w] EXCEPT !.pc = p, !.st = s]) => NoneTakesUp
             /\ \A p, i : Become(w, [wk[w] EXCEPT !.pc = p, !.in = i, !.recov = TRUE]) => NoneTakesUp
             /\ \A p, s : Become(w, [wk[w] EXCEPT !.snap = s, !.next = 0, !.unres = FALSE, !.pc = p]) => NoneTakesUp
  <2>0. wk[w] \in WorkerState
    BY <1>0
  <2>1. \A u \in BOOLEAN : Become(w, Advance(wk[w], u)) => NoneTakesUp
    <3> SUFFICES ASSUME NEW u \in BOOLEAN, Become(w, Advance(wk[w], u)) PROVE NoneTakesUp
      OBVIOUS
    <3>1. Advance(wk[w], u).raw = wk[w].raw
      BY <2>0, AdvanceType
    <3> QED BY <1>1, <1>3, <3>1
  <2>2. \A p : Become(w, [wk[w] EXCEPT !.pc = p]) => NoneTakesUp
    <3> SUFFICES ASSUME NEW p, Become(w, [wk[w] EXCEPT !.pc = p]) PROVE NoneTakesUp
      OBVIOUS
    <3>1. [wk[w] EXCEPT !.pc = p].raw = wk[w].raw
      BY <2>0 DEF WorkerState
    <3> QED BY <1>1, <1>3, <3>1
  <2>3. \A p, s : Become(w, [wk[w] EXCEPT !.pc = p, !.st = s]) => NoneTakesUp
    <3> SUFFICES ASSUME NEW p, NEW s, Become(w, [wk[w] EXCEPT !.pc = p, !.st = s]) PROVE NoneTakesUp
      OBVIOUS
    <3>1. [wk[w] EXCEPT !.pc = p, !.st = s].raw = wk[w].raw
      BY <2>0 DEF WorkerState
    <3> QED BY <1>1, <1>3, <3>1
  <2>4. \A p, i : Become(w, [wk[w] EXCEPT !.pc = p, !.in = i, !.recov = TRUE]) => NoneTakesUp
    <3> SUFFICES ASSUME NEW p, NEW i, Become(w, [wk[w] EXCEPT !.pc = p, !.in = i, !.recov = TRUE])
                 PROVE NoneTakesUp
      OBVIOUS
    <3>1. [wk[w] EXCEPT !.pc = p, !.in = i, !.recov = TRUE].raw = wk[w].raw
      BY <2>0 DEF WorkerState
    <3> QED BY <1>1, <1>3, <3>1
  <2>5. \A p, s : Become(w, [wk[w] EXCEPT !.snap = s, !.next = 0, !.unres = FALSE, !.pc = p]) => NoneTakesUp
    <3> SUFFICES ASSUME NEW p, NEW s,
                        Become(w, [wk[w] EXCEPT !.snap = s, !.next = 0, !.unres = FALSE, !.pc = p])
                 PROVE NoneTakesUp
      OBVIOUS
    <3>1. [wk[w] EXCEPT !.snap = s, !.next = 0, !.unres = FALSE, !.pc = p].raw = wk[w].raw
      BY <2>0 DEF WorkerState
    <3> QED BY <1>1, <1>3, <3>1
  <2> QED BY <2>1, <2>2, <2>3, <2>4, <2>5
<1>4. CASE RetrieveRecord(w)
  BY <1>2, <1>3, <1>4 DEF RetrieveRecord, Refuse
<1>5. CASE DecodeFails(w) \/ ExpandBatch(w) \/ ResumeBatch(w)
  BY <1>3, <1>5 DEF DecodeFails, ExpandBatch, ResumeBatch
<1>6. CASE CaptureSnapshot(w)
  BY <1>3, <1>6 DEF CaptureSnapshot
<1>7. CASE CheckChild(w) \/ RejectChild(w) \/ NormalizeChild(w)
  BY <1>3, <1>7 DEF CheckChild, RejectChild, NormalizeChild
<1>8. CASE QuarantineAfter(w, "storeerr", "store_error") \/ QuarantineAfter(w, "sinkerr", "sink_error")
  BY <1>3, <1>8 DEF QuarantineAfter
<1>9. CASE EmitDirect(w) \/ UndoNormalized(w) \/ DeriveStatus(w)
  BY <1>3, <1>9 DEF EmitDirect, UndoNormalized, DeriveStatus
<1>10. CASE SetStatus(w)
  BY <1>2, <1>10 DEF SetStatus
<1> QED BY <1>4, <1>5, <1>6, <1>7, <1>8, <1>9, <1>10 DEF ProcessRecord

\* Nobody takes up a record, and nothing is queued or listed.
LEMMA AloneStays ==
    ASSUME AloneOK, NoneTakesUp, UNCHANGED <<inbound, toRecover>>
    PROVE  AloneOK'
<1>1. \A r \in RawId : \A v, w \in Worker : Handles(v, r)' /\ Handles(w, r)' => v = w
  BY DEF AloneOK, NoneTakesUp
<1>2. ASSUME NoRedelivery, NEW r \in RawId
      PROVE  /\ \A m, n \in 1 .. Len(inbound') : inbound'[m].raw = r /\ inbound'[n].raw = r => m = n
             /\ \A n \in 1 .. Len(inbound') : inbound'[n].raw = r =>
                   r \notin toRecover' /\ \A w \in Worker : ~Handles(w, r)'
             /\ r \in toRecover' => \A w \in Worker : ~Handles(w, r)'
  BY <1>2 DEF AloneOK, NoneTakesUp
<1> QED BY <1>1, <1>2 DEF AloneOK

\* Worker w, which had none, takes up record r, which nobody has.
LEMMA AloneTakesUp ==
    ASSUME TypeInv, AloneOK, NEW w \in Worker, NEW STATE k, wk' = [wk EXCEPT ![w] = k],
           NEW s \in RawId, k.raw = s, \A v \in Worker : ~Handles(v, s),
           NoRedelivery => s \notin toRecover /\ \A n \in 1 .. Len(inbound') : inbound'[n].raw # s,
           toRecover' = toRecover,
           NoRedelivery => \A r \in RawId :
               /\ \A m, n \in 1 .. Len(inbound') : inbound'[m].raw = r /\ inbound'[n].raw = r => m = n
               /\ \A n \in 1 .. Len(inbound') : inbound'[n].raw = r =>
                     r \notin toRecover /\ \A v \in Worker : ~Handles(v, r)
    PROVE  AloneOK'
<1>1. wk'[w] = k /\ \A v \in Worker : v # w => wk'[v] = wk[v]
  BY DEF TypeInv, TypeOK
<1>2. \A v \in Worker : \A r \in RawId : Handles(v, r)' => Handles(v, r) \/ (v = w /\ r = s)
  BY <1>1 DEF Handles
<1>3. \A r \in RawId : \A v, x \in Worker : Handles(v, r)' /\ Handles(x, r)' => v = x
  BY <1>2 DEF AloneOK
<1>4. ASSUME NoRedelivery, NEW r \in RawId
      PROVE  /\ \A m, n \in 1 .. Len(inbound') : inbound'[m].raw = r /\ inbound'[n].raw = r => m = n
             /\ \A n \in 1 .. Len(inbound') : inbound'[n].raw = r =>
                   r \notin toRecover' /\ \A v \in Worker : ~Handles(v, r)'
             /\ r \in toRecover' => \A v \in Worker : ~Handles(v, r)'
  <2>1. CASE r = s
    BY <1>4, <2>1
  <2>2. CASE r # s
    BY <1>2, <1>4, <2>2 DEF AloneOK
  <2> QED BY <2>1, <2>2
<1> QED BY <1>3, <1>4 DEF AloneOK

\* A fresh raw_id is nowhere yet.
LEMMA FreshIsNowhere ==
    ASSUME TypeInv, NEW r \in RawId, rawStatus[r] = "absent"
    PROVE  /\ \A v \in Worker : ~Handles(v, r)
           /\ r \notin toRecover /\ \A n \in 1 .. Len(inbound) : inbound[n].raw # r
<1>0. r # NoRaw
  BY DEF RawId, NoRaw
<1>1. \A v \in Worker : ~Handles(v, r)
  BY <1>0 DEF Handles, TypeInv, WorkersOK, WorkerOK, Known
<1>2. \A n \in 1 .. Len(inbound) : inbound[n].raw # r
  BY <1>0 DEF TypeInv, QueueOK, Known
<1> QED BY <1>1, <1>2 DEF TypeInv, RecoverOK

LEMMA AloneStoreRecord ==
    ASSUME OneHandler, TypeInv, AloneOK, NEW w \in Worker, StoreRecord(w)
    PROVE  AloneOK'
<1>0. UNCHANGED <<inbound, toRecover>> /\ wk \in [Worker -> WorkerState] /\ wk[w].in \in Input
  BY DEF StoreRecord, TypeInv, TypeOK, WorkersOK, WorkerOK, Known
<1>1. CASE ~NoRedelivery
  BY <1>1 DEF OneHandler, AloneOK
<1>2. CASE NoRedelivery
  <2>1. SpoolRows(wk[w].in) = {}
    BY <1>0, <1>2 DEF SpoolRows, NoRedelivery
  <2>2. CASE Become(w, IdleWorker)
    <3>1. NoneTakesUp
      BY <1>0, <2>2 DEF Become, IdleWorker, NoneTakesUp, Handles
    <3> QED BY <1>0, <3>1, AloneStays
  <2>3. ASSUME NEW r \in RawId, FreshRaw(r), Become(w, [wk[w] EXCEPT !.pc = "decode", !.raw = r])
        PROVE  AloneOK'
    <3> DEFINE k == [wk[w] EXCEPT !.pc = "decode", !.raw = r]
    <3>1. k.raw = r
      BY <1>0 DEF WorkerState
    <3> HIDE DEF k
    <3>2. wk' = [wk EXCEPT ![w] = k]
      BY <2>3 DEF Become, k
    <3>3. rawStatus[r] = "absent"
      BY <2>3 DEF FreshRaw
    <3>4. /\ \A v \in Worker : ~Handles(v, r)
          /\ r \notin toRecover /\ \A n \in 1 .. Len(inbound) : inbound[n].raw # r
      BY <3>3, FreshIsNowhere
    <3>5. \A s \in RawId :
             /\ \A m, n \in 1 .. Len(inbound') : inbound'[m].raw = s /\ inbound'[n].raw = s => m = n
             /\ \A n \in 1 .. Len(inbound') : inbound'[n].raw = s =>
                   s \notin toRecover /\ \A v \in Worker : ~Handles(v, s)
      BY <1>0, <1>2 DEF AloneOK
    <3> QED BY <1>0, <3>1, <3>2, <3>4, <3>5, AloneTakesUp
  <2> QED BY <2>1, <2>2, <2>3 DEF StoreRecord, Refuse
<1> QED BY <1>1, <1>2

LEMMA AloneTake ==
    ASSUME OneHandler, TypeInv, AloneOK, NEW w \in Worker, Take(w)
    PROVE  AloneOK'
<1> DEFINE h == Head(inbound)
           k == [IdleWorker EXCEPT !.pc = "commit", !.raw = h.raw, !.in = h.in]
<1>1. /\ inbound \in Seq(Record) /\ inbound # <<>> /\ inbound' = Tail(inbound)
      /\ wk' = [wk EXCEPT ![w] = k] /\ wk \in [Worker -> WorkerState] /\ toRecover' = toRecover
  BY DEF Take, Become, TypeInv, TypeOK
<1>2. h = inbound[1] /\ h \in Record /\ 1 \in 1 .. Len(inbound)
  BY <1>1
<1>3. k.raw = h.raw
  <2> HIDE DEF h
  <2> QED BY DEF IdleWorker
<1> HIDE DEF k, h
<1>4. \A n \in 1 .. Len(inbound') : inbound'[n] = inbound[n + 1] /\ n + 1 \in 2 .. Len(inbound)
  BY <1>1
<1>5. CASE ~NoRedelivery
  BY <1>5 DEF OneHandler, AloneOK
<1>6. CASE NoRedelivery
  <2>1. \A r \in RawId :
           /\ \A m, n \in 1 .. Len(inbound') : inbound'[m].raw = r /\ inbound'[n].raw = r => m = n
           /\ \A n \in 1 .. Len(inbound') : inbound'[n].raw = r =>
                 r \notin toRecover /\ \A v \in Worker : ~Handles(v, r)
    <3> SUFFICES ASSUME NEW r \in RawId
                 PROVE  /\ \A m, n \in 1 .. Len(inbound') : inbound'[m].raw = r /\ inbound'[n].raw = r => m = n
                        /\ \A n \in 1 .. Len(inbound') : inbound'[n].raw = r =>
                              r \notin toRecover /\ \A v \in Worker : ~Handles(v, r)
      OBVIOUS
    <3>1. /\ \A m, n \in 1 .. Len(inbound) : inbound[m].raw = r /\ inbound[n].raw = r => m = n
          /\ \A n \in 1 .. Len(inbound) : inbound[n].raw = r =>
                r \notin toRecover /\ \A v \in Worker : ~Handles(v, r)
      BY <1>6 DEF AloneOK
    <3>2. ASSUME NEW m \in 1 .. Len(inbound'), NEW n \in 1 .. Len(inbound'), inbound'[m].raw = r, inbound'[n].raw = r
          PROVE  m = n
      <4>1. m \in Int /\ n \in Int
        OBVIOUS
      <4>2. m + 1 \in 1 .. Len(inbound) /\ n + 1 \in 1 .. Len(inbound) /\ inbound[m + 1].raw = r /\ inbound[n + 1].raw = r
        BY <1>4, <3>2
      <4>3. m + 1 = n + 1
        BY <3>1, <4>2
      <4> QED BY <4>1, <4>3
    <3>3. ASSUME NEW n \in 1 .. Len(inbound'), inbound'[n].raw = r
          PROVE  r \notin toRecover /\ \A v \in Worker : ~Handles(v, r)
      <4>1. n + 1 \in 1 .. Len(inbound) /\ inbound[n + 1].raw = r
        BY <1>4, <3>3
      <4> QED BY <3>1, <4>1
    <3> QED BY <3>2, <3>3
  <2>2. CASE h.raw \in RawId
    <3>1. PICK s \in RawId : s = h.raw
      BY <2>2
    <3>2. s \notin toRecover /\ \A v \in Worker : ~Handles(v, s)
      BY <1>2, <1>6, <3>1 DEF AloneOK
    <3>3. \A n \in 1 .. Len(inbound') : inbound'[n].raw # s
      <4> SUFFICES ASSUME NEW n \in 1 .. Len(inbound'), inbound'[n].raw = s PROVE FALSE
        OBVIOUS
      <4>1. n + 1 \in 1 .. Len(inbound) /\ inbound[n + 1].raw = s /\ n \in Int /\ n >= 1
        BY <1>4
      <4>2. n + 1 = 1
        BY <1>2, <1>6, <3>1, <4>1 DEF AloneOK
      <4> QED BY <4>1, <4>2
    <3> QED BY <1>1, <1>3, <2>1, <3>1, <3>2, <3>3, AloneTakesUp
  <2>3. CASE h.raw \notin RawId
    <3>1. NoneTakesUp
      <4>1. wk'[w] = k /\ \A v \in Worker : v # w => wk'[v] = wk[v]
        BY <1>1
      <4> QED BY <1>3, <2>3, <4>1 DEF NoneTakesUp, Handles
    <3>2. \A r \in RawId : \A v, x \in Worker : Handles(v, r)' /\ Handles(x, r)' => v = x
      BY <3>1 DEF AloneOK, NoneTakesUp
    <3>3. \A r \in RawId : r \in toRecover' => \A v \in Worker : ~Handles(v, r)'
      BY <1>1, <1>6, <3>1 DEF AloneOK, NoneTakesUp
    <3>4. \A r \in RawId : \A n \in 1 .. Len(inbound') : inbound'[n].raw = r =>
             r \notin toRecover' /\ \A v \in Worker : ~Handles(v, r)'
      BY <1>1, <2>1, <3>1 DEF NoneTakesUp
    <3> QED BY <2>1, <3>2, <3>3, <3>4 DEF AloneOK
  <2> QED BY <2>2, <2>3
<1> QED BY <1>5, <1>6

\* A record is put at the end of the queue: a new one, or one of toRecover.
LEMMA AloneEnqueue ==
    ASSUME OneHandler, TypeInv, AloneOK, wk' = wk,
           \/ \E i \in Input : Submit(i)
           \/ \E r \in toRecover : Recover(r)
    PROVE  AloneOK'
<1>1. PICK rec \in Record :
         /\ inbound' = Append(inbound, rec)
         /\ \/ rec.raw = NoRaw /\ toRecover' = toRecover
            \/ rec.raw \in toRecover /\ toRecover' = toRecover \ {rec.raw}
  <2>1. CASE \E i \in Input : Submit(i)
    <3> PICK i \in Input : Submit(i)
      BY <2>1
    <3>1. [raw |-> NoRaw, in |-> i] \in Record
      BY DEF Record
    <3>2. inbound' = Append(inbound, [raw |-> NoRaw, in |-> i]) /\ toRecover' = toRecover
      BY DEF Submit
    <3> QED BY <3>1, <3>2
  <2>2. CASE \E r \in toRecover : Recover(r)
    <3> PICK r \in toRecover : Recover(r)
      BY <2>2
    <3>1. [raw |-> r, in |-> NoInput] \in Record
      BY DEF Record, TypeInv, TypeOK
    <3>2. inbound' = Append(inbound, [raw |-> r, in |-> NoInput]) /\ toRecover' = toRecover \ {r}
      BY DEF Recover
    <3> QED BY <3>1, <3>2
  <2> QED BY <2>1, <2>2
<1>2. inbound \in Seq(Record) /\ NoRaw \notin RawId /\ toRecover \subseteq RawId
  BY DEF TypeInv, TypeOK, NoRaw, RawId
<1>3. Len(inbound) \in Nat /\ Len(inbound') = Len(inbound) + 1 /\ inbound'[Len(inbound) + 1] = rec
  BY <1>1, <1>2
<1>4. \A n \in 1 .. Len(inbound') : \/ n \in 1 .. Len(inbound) /\ inbound'[n] = inbound[n]
                                    \/ n = Len(inbound) + 1 /\ inbound'[n] = rec
  BY <1>1, <1>2, <1>3
<1>5. \A v : \A r : Handles(v, r)' <=> Handles(v, r)
  BY DEF Handles
<1>6. CASE ~NoRedelivery
  BY <1>6 DEF OneHandler, AloneOK
<1>7. ASSUME NoRedelivery, NEW r \in RawId
      PROVE  /\ \A m, n \in 1 .. Len(inbound') : inbound'[m].raw = r /\ inbound'[n].raw = r => m = n
             /\ \A n \in 1 .. Len(inbound') : inbound'[n].raw = r =>
                   r \notin toRecover' /\ \A w \in Worker : ~Handles(w, r)'
             /\ r \in toRecover' => \A w \in Worker : ~Handles(w, r)'
  <2>1. /\ \A m, n \in 1 .. Len(inbound) : inbound[m].raw = r /\ inbound[n].raw = r => m = n
        /\ \A n \in 1 .. Len(inbound) : inbound[n].raw = r =>
              r \notin toRecover /\ \A w \in Worker : ~Handles(w, r)
        /\ r \in toRecover => \A w \in Worker : ~Handles(w, r)
    BY <1>7 DEF AloneOK
  <2>2. CASE rec.raw # r
    <3>1. \A n \in 1 .. Len(inbound') : inbound'[n].raw = r => n \in 1 .. Len(inbound) /\ inbound[n].raw = r
      BY <1>4, <2>2
    <3>2. r \in toRecover' => r \in toRecover
      BY <1>1
    <3> QED BY <1>5, <2>1, <3>1, <3>2
  <2>3. CASE rec.raw = r
    <3>1. r \in toRecover /\ r \notin toRecover'
      BY <1>1, <1>2, <2>3
    <3>2. \A n \in 1 .. Len(inbound') : inbound'[n].raw = r => n = Len(inbound) + 1
      BY <1>4, <2>1, <3>1
    <3> QED BY <1>5, <2>1, <3>1, <3>2
  <2> QED BY <2>2, <2>3
<1> QED BY <1>5, <1>6, <1>7 DEF AloneOK

LEMMA AloneStep ==
    ASSUME OneHandler, TypeInv, AloneOK, [Next]_vars
    PROVE  AloneOK'
<1>1. CASE UNCHANGED <<wk, inbound, toRecover>>
  <2>1. NoneTakesUp
    BY <1>1 DEF NoneTakesUp, Handles
  <2> QED BY <1>1, <2>1, AloneStays
<1>2. CASE \E w \in Worker : Take(w) \/ ProcessRecord(w)
  BY <1>2, AloneTake, AloneStoreRecord, WorkerKeepsRecord, AloneStays
<1>3. CASE (\E i \in Input : Submit(i)) \/ (\E r \in toRecover : Recover(r))
  <2>1. wk' = wk
    BY <1>3 DEF Submit, Recover
  <2> QED BY <1>3, <2>1, AloneEnqueue
<1>4. CASE Crash
  <2>1. \A w \in Worker : \A r : ~Handles(w, r)'
    BY <1>4 DEF Crash, IdleWorker, Handles
  <2>2. 1 .. Len(inbound') = {}
    BY <1>4 DEF Crash
  <2> QED BY <2>1, <2>2 DEF AloneOK
<1>5. CASE \/ FetchPending \/ AckDelivery \/ FinishStartup
           \/ \E row \in batch : EmitTo(row) \/ EmitToFails(row)
           \/ \E p \in Replayer : ReplayCommit(p) \/ \E q \in quar : ReplayStart(p, q)
           \/ \E S \in SUBSET Dest : Reconfigure(S)
           \/ \E s \in Snapshot : ActivatePack(s)
  BY <1>1, <1>5 DEF FetchPending, AckDelivery, FinishStartup, EmitTo, EmitToFails, ReplayCommit, ReplayStart,
     Reconfigure, ActivatePack
<1>6. CASE UNCHANGED vars
  BY <1>1, <1>6 DEF vars, volatile
<1> QED BY <1>2, <1>3, <1>4, <1>5, <1>6 DEF Next

-----------------------------------------------------------------------------
(* What the writes do to the rows. *)

OneRowsOK == NormRowsOK /\ BrokenRowsOK /\ OneOutcomePerChild

LEMMA RowsTyped ==
    ASSUME TypeInv, NormRowsOK
    PROVE  /\ \A x \in quar : /\ x \in RawId \X Nat \X Why /\ x = <<x[1], x[2], x[3]>>
                             /\ x[1] \in RawId /\ rawStatus[x[1]] # "absent"
           /\ \A x \in norm : x \in RawId \X Nat /\ x[1] \in RawId /\ rawStatus[x[1]] # "absent"
BY DEF TypeInv, TypeOK, StoreTypeOK, RowsOK, NormRowsOK

\* Rows are only removed, or none is touched.
LEMMA RowsShrink ==
    ASSUME TypeInv, OneRowsOK, Persists, norm' \subseteq norm, quar' \subseteq quar
    PROVE  OneRowsOK'
<1>1. NormRowsOK'
  BY RowsTyped DEF OneRowsOK, NormRowsOK, Persists
<1>2. BrokenRowsOK'
  BY RowsTyped DEF OneRowsOK, BrokenRowsOK, Persists
<1>3. OneOutcomePerChild'
  BY DEF OneRowsOK, OneOutcomePerChild
<1> QED BY <1>1, <1>2, <1>3 DEF OneRowsOK

\* A child without an outcome is quarantined.
LEMMA RowsQuarantine ==
    ASSUME TypeInv, OneRowsOK, Persists, NEW r \in RawId, NEW c \in Nat, NEW y \in Why,
           rawStatus[r] # "absent", QuarantineChild(r, c, y),
           \/ rawIn[r] \notin Broken /\ ~HasCompletedChild(r, c)
           \/ rawIn[r] \in Broken /\ c = 0 /\ y = "parse_error"
    PROVE  OneRowsOK'
<1>1. norm' = norm /\ quar' = quar \cup {<<r, c, y>>} /\ rawIn' = rawIn
  BY DEF QuarantineChild
<1>2. PICK z : z = <<r, c, y>>
  OBVIOUS
<1>2a. z[1] = r /\ z[2] = c /\ z[3] = y
  BY <1>2
<1>3. NormRowsOK'
  BY <1>1, RowsTyped DEF OneRowsOK, NormRowsOK, Persists
<1>4. BrokenRowsOK'
  BY <1>1, <1>2, <1>2a DEF OneRowsOK, BrokenRowsOK
<1>5. \A x \in quar : x[1] = r /\ x[2] = c => x = z
  <2> SUFFICES ASSUME NEW x \in quar, x[1] = r, x[2] = c PROVE x = z
    OBVIOUS
  <2>1. rawIn[r] \in Broken /\ y = "parse_error"
    BY DEF HasCompletedChild
  <2>2. x[3] = "parse_error"
    BY <2>1 DEF OneRowsOK, BrokenRowsOK
  <2>3. x = <<x[1], x[2], x[3]>>
    BY RowsTyped DEF OneRowsOK
  <2> QED BY <1>2, <2>1, <2>2, <2>3
<1>6. <<r, c>> \notin norm
  BY DEF HasCompletedChild, OneRowsOK, BrokenRowsOK
<1>7. OneOutcomePerChild'
  <2> SUFFICES ASSUME NEW a \in quar', NEW b \in quar'
               PROVE  <<a[1], a[2]>> \notin norm' /\ (a[1] = b[1] /\ a[2] = b[2] => a = b)
    BY DEF OneOutcomePerChild
  <2>1. (a \in quar \/ a = z) /\ (b \in quar \/ b = z)
    BY <1>1, <1>2
  <2>2. <<a[1], a[2]>> \notin norm
    BY <1>2a, <1>6, <2>1 DEF OneRowsOK, OneOutcomePerChild
  <2>3. ASSUME a[1] = b[1], a[2] = b[2] PROVE a = b
    <3>1. CASE a \in quar /\ b \in quar
      BY <2>3, <3>1 DEF OneRowsOK, OneOutcomePerChild
    <3>2. CASE a = z \/ b = z
      BY <1>2a, <1>5, <2>1, <2>3, <3>2
    <3> QED BY <2>1, <3>1, <3>2
  <2> QED BY <1>1, <2>2, <2>3
<1> QED BY <1>3, <1>4, <1>7 DEF OneRowsOK

\* A child without a quarantine row, or with the one that is now removed, is
\* normalized.
LEMMA RowsNormalize ==
    ASSUME TypeInv, OneRowsOK, Persists, NEW r \in RawId, NEW c \in Nat,
           rawStatus[r] # "absent", rawIn[r] \notin Broken,
           norm' = norm \cup {<<r, c>>}, quar' \subseteq quar,
           \A x \in quar' : ~(x[1] = r /\ x[2] = c)
    PROVE  OneRowsOK'
<1>1. NormRowsOK'
  BY RowsTyped DEF OneRowsOK, NormRowsOK, Persists
<1>2. BrokenRowsOK'
  <2>1. rawIn'[r] = rawIn[r]
    BY DEF Persists
  <2>2. \A x \in norm' : rawIn'[x[1]] \notin Broken
    BY <2>1, RowsTyped DEF OneRowsOK, BrokenRowsOK, Persists
  <2>3. \A x \in quar' : rawIn'[x[1]] \in Broken => x[2] = 0 /\ x[3] = "parse_error"
    BY RowsTyped DEF OneRowsOK, BrokenRowsOK, Persists
  <2> QED BY <2>2, <2>3 DEF BrokenRowsOK
<1>3. OneOutcomePerChild'
  BY DEF OneRowsOK, OneOutcomePerChild
<1> QED BY <1>1, <1>2, <1>3 DEF OneRowsOK

-----------------------------------------------------------------------------
(* A worker and the children ahead of it. *)

LEMMA CleanStays ==
    ASSUME TypeInv, NEW v \in Worker, CleanOK(wk[v]), wk'[v] = wk[v],
           \A r \in RawId : Handles(v, r) => \A d \in Nat :
               /\ HasCompletedChild(r, d)' => HasCompletedChild(r, d)
               /\ QuarantinedChild(r, d)' => QuarantinedChild(r, d)
    PROVE  CleanOK(wk[v])'
<1>1. CASE wk[v].pc \in {"idle", "commit"}
  BY <1>1 DEF CleanOK
<1>2. CASE wk[v].pc \notin {"idle", "commit"}
  <2>1. wk[v].next \in Nat /\ wk[v].raw \in RawId
    BY <1>2, WorkerFacts
  <2>2. PICK r \in RawId : r = wk[v].raw
    BY <2>1
  <2>3. \A d \in Nat : /\ HasCompletedChild(r, d)' => HasCompletedChild(r, d)
                       /\ QuarantinedChild(r, d)' => QuarantinedChild(r, d)
    BY <1>2, <2>2 DEF Handles
  <2>4. PICK k : k = wk[v] /\ wk'[v] = k
    OBVIOUS
  <2>5. k.raw = r /\ k.next \in Nat
    BY <2>1, <2>2, <2>4
  <2>6. \A d \in Nat : /\ HasCompletedChild(k.raw, d)' => HasCompletedChild(k.raw, d)
                       /\ QuarantinedChild(k.raw, d)' => QuarantinedChild(k.raw, d)
    BY <2>3, <2>5 DEF HasCompletedChild, QuarantinedChild
  <2>7. CleanOK(k)
    BY <2>4
  <2>8. CleanOK(k)'
    BY <2>5, <2>6, <2>7 DEF CleanOK
  <2> QED BY <2>4, <2>8 DEF CleanOK, HasCompletedChild, QuarantinedChild
<1> QED BY <1>1, <1>2

\* The end of the loop body.
LEMMA CleanAdvance ==
    ASSUME TypeInv, NEW w \in Worker, NEW u \in BOOLEAN, CleanOK(wk[w]), wk'[w] = Advance(wk[w], u),
           wk[w].pc \in {"check", "process", "storeerr", "emit", "undo", "sinkerr"},
           NEW r \in RawId, NEW n \in Nat, r = wk[w].raw, n = wk[w].next,
           \A d \in Nat : d # n => (HasCompletedChild(r, d)' => HasCompletedChild(r, d))
    PROVE  CleanOK(wk[w])'
<1>1. wk[w] \in WorkerState
  BY DEF TypeInv, TypeOK
<1>2. PICK k : k = Advance(wk[w], u)
  OBVIOUS
<1>3. /\ k.pc = LoopPhase(wk[w].in, wk[w].recov, n + 1, wk[w].unres \/ u)
      /\ k.raw = r /\ k.next = n + 1
  BY <1>1, <1>2, AdvanceType
<1>4. k.recov = wk[w].recov /\ wk[w].recov \in BOOLEAN
  BY <1>1, <1>2 DEF Advance, WorkerState
<1>5. k.pc \in {"check", "process", "setstatus", "count"} /\ (k.pc = "process" => ~k.recov)
  BY <1>3, <1>4 DEF LoopPhase
<1>6. ~k.recov => \A c \in Nat : c > n => ~HasCompletedChild(r, c)
  BY <1>4 DEF CleanOK
<1>7. ~k.recov => \A c \in Nat : c > n => ~HasCompletedChild(r, c)'
  <2> SUFFICES ASSUME ~k.recov, NEW c \in Nat, c > n PROVE ~HasCompletedChild(r, c)'
    OBVIOUS
  <2>1. c # n
    OBVIOUS
  <2>2. HasCompletedChild(r, c)' => HasCompletedChild(r, c)
    BY <2>1
  <2>3. ~HasCompletedChild(r, c)
    BY <1>6
  <2> QED BY <2>2, <2>3
<1>8. ~k.recov => ~HasCompletedChild(r, n + 1)' /\ \A c \in Nat : c > n + 1 => ~HasCompletedChild(r, c)'
  BY <1>7
<1>9. wk'[w] = k
  BY <1>2
<1> QED BY <1>3, <1>5, <1>8, <1>9 DEF CleanOK, HasCompletedChild

\* A write for child c of record r touches no other child.
LEMMA WriteSpares ==
    ASSUME NEW r, NEW c, NEW y, norm' \subseteq norm \cup {<<r, c>>}, quar' \subseteq quar \cup {<<r, c, y>>}
    PROVE  \A s, d : s # r \/ d # c =>
               /\ HasCompletedChild(s, d)' => HasCompletedChild(s, d)
               /\ QuarantinedChild(s, d)' => QuarantinedChild(s, d)
<1> SUFFICES ASSUME NEW s, NEW d, s # r \/ d # c
             PROVE  /\ HasCompletedChild(s, d)' => HasCompletedChild(s, d)
                    /\ QuarantinedChild(s, d)' => QuarantinedChild(s, d)
  OBVIOUS
<1>1. <<s, d>> \in norm' => <<s, d>> \in norm
  OBVIOUS
<1>2. (\E x \in quar' : x[1] = s /\ x[2] = d) => (\E x \in quar : x[1] = s /\ x[2] = d)
  OBVIOUS
<1> QED BY <1>1, <1>2 DEF HasCompletedChild, QuarantinedChild

LEMMA ReplaysStay ==
    ASSUME TypeInv, ReplaysDecodable, Persists, rp' = rp
    PROVE  ReplaysDecodable'
<1> SUFFICES ASSUME NEW p \in Replayer, rp[p].pc = "commit"
             PROVE  rp[p].q[1] \in RawId /\ rawIn'[rp[p].q[1]] \notin Broken \cup {NoInput}
  BY DEF ReplaysDecodable
<1>1. rp[p].q[1] \in RawId /\ rawIn[rp[p].q[1]] \notin Broken \cup {NoInput}
  BY DEF ReplaysDecodable
<1>2. rawStatus[rp[p].q[1]] # "absent"
  BY <1>1 DEF TypeInv, TypeOK, StoreTypeOK
<1> QED BY <1>1, <1>2 DEF Persists

\* A step of worker w that writes, if anything, for the record it handles.
LEMMA OneWorkerStep ==
    ASSUME OneInv, TypeInv', AloneOK', Persists, NEW w \in Worker, NEW STATE k, wk' = [wk EXCEPT ![w] = k],
           rp' = rp, OneRowsOK', CleanOK(wk[w])',
           \/ UNCHANGED <<norm, quar>>
           \/ /\ wk[w].pc # "idle"
              /\ \A s \in RawId : s # wk[w].raw => \A d \in Nat :
                    /\ HasCompletedChild(s, d)' => HasCompletedChild(s, d)
                    /\ QuarantinedChild(s, d)' => QuarantinedChild(s, d)
    PROVE  OneInv'
<1>1. wk'[w] = k /\ \A v \in Worker : v # w => wk'[v] = wk[v]
  BY DEF OneInv, TypeInv, TypeOK
<1>2. ASSUME NEW v \in Worker, v # w
      PROVE  CleanOK(wk[v])'
  <2>1. \A r \in RawId : Handles(v, r) => \A d \in Nat :
           /\ HasCompletedChild(r, d)' => HasCompletedChild(r, d)
           /\ QuarantinedChild(r, d)' => QuarantinedChild(r, d)
    <3>1. CASE UNCHANGED <<norm, quar>>
      BY <3>1 DEF HasCompletedChild, QuarantinedChild
    <3>2. CASE /\ wk[w].pc # "idle"
               /\ \A s \in RawId : s # wk[w].raw => \A d \in Nat :
                     /\ HasCompletedChild(s, d)' => HasCompletedChild(s, d)
                     /\ QuarantinedChild(s, d)' => QuarantinedChild(s, d)
      <4>1. \A r \in RawId : Handles(v, r) => r # wk[w].raw
        BY <1>2, <3>2 DEF OneInv, AloneOK, Handles
      <4> QED BY <3>2, <4>1
    <3> QED BY <3>1, <3>2
  <2>2. TypeInv /\ CleanOK(wk[v]) /\ wk'[v] = wk[v]
    BY <1>1, <1>2 DEF OneInv, WorkersCleanOK
  <2> QED BY <2>1, <2>2, CleanStays
<1>3. WorkersCleanOK'
  BY <1>2 DEF WorkersCleanOK
<1>4. ReplaysDecodable'
  BY ReplaysStay DEF OneInv
<1> QED BY <1>3, <1>4 DEF OneInv, OneRowsOK

\* ... that writes nothing.
LEMMA OneQuietStep ==
    ASSUME OneInv, TypeInv', AloneOK', Persists, NEW w \in Worker, NEW STATE k, wk' = [wk EXCEPT ![w] = k],
           UNCHANGED <<rp, norm, quar>>, CleanOK(k)
    PROVE  OneInv'
<1>1. wk'[w] = k
  BY DEF OneInv, TypeInv, TypeOK
<1>2. PICK j : j = k
  OBVIOUS
<1>3. CleanOK(j)
  BY <1>2
<1>4. CleanOK(j)'
  BY <1>3 DEF CleanOK, HasCompletedChild, QuarantinedChild
<1>5. wk'[w] = j
  BY <1>1, <1>2
<1>6. CleanOK(wk[w])'
  BY <1>4, <1>5 DEF CleanOK, HasCompletedChild, QuarantinedChild
<1>7. OneRowsOK'
  BY RowsShrink DEF OneInv, OneRowsOK
<1> QED BY <1>6, <1>7, OneWorkerStep

LEMMA OneCommit ==
    ASSUME OneInv, TypeInv', AloneOK', Persists, NEW w \in Worker, Take(w) \/ StoreRecord(w) \/ RetrieveRecord(w)
    PROVE  OneInv'
<1>0. wk[w] \in WorkerState /\ UNCHANGED <<rp, norm, quar>>
  BY DEF OneInv, TypeInv, TypeOK, Take, StoreRecord, RetrieveRecord, Refuse, InsertRaw, store
<1>1. CASE Take(w)
  <2> DEFINE k == [IdleWorker EXCEPT !.pc = "commit", !.raw = Head(inbound).raw, !.in = Head(inbound).in]
  <2>1. k.pc = "commit" /\ Become(w, k)
    BY <1>1 DEF Take, IdleWorker
  <2> HIDE DEF k
  <2>2. CleanOK(k)
    BY <2>1 DEF CleanOK
  <2> QED BY <1>0, <2>1, <2>2, OneQuietStep DEF Become
<1>2. CASE Become(w, IdleWorker)
  <2>1. IdleWorker.pc = "idle"
    BY DEF IdleWorker
  <2>2. CleanOK(IdleWorker)
    BY <2>1 DEF CleanOK
  <2> QED BY <1>0, <1>2, <2>2, OneQuietStep DEF Become
<1>3. ASSUME NEW r \in RawId, FreshRaw(r), Become(w, [wk[w] EXCEPT !.pc = "decode", !.raw = r])
      PROVE  OneInv'
  <2> DEFINE k == [wk[w] EXCEPT !.pc = "decode", !.raw = r]
  <2>1. k.pc = "decode" /\ k.raw = r /\ Become(w, k)
    BY <1>0, <1>3 DEF WorkerState
  <2> HIDE DEF k
  <2>2. \A c \in Nat : ~HasCompletedChild(r, c)
    <3>1. TypeInv /\ NormRowsOK /\ rawStatus[r] = "absent"
      BY <1>3 DEF OneInv, FreshRaw
    <3> QED BY <3>1, RowsTyped DEF HasCompletedChild
  <2>3. CleanOK(k)
    BY <2>1, <2>2 DEF CleanOK
  <2> QED BY <1>0, <2>1, <2>3, OneQuietStep DEF Become
<1>4. ASSUME NEW r, Become(w, [wk[w] EXCEPT !.pc = "decode", !.raw = r, !.recov = TRUE])
      PROVE  OneInv'
  <2> DEFINE k == [wk[w] EXCEPT !.pc = "decode", !.raw = r, !.recov = TRUE]
  <2>1. k.pc = "decode" /\ k.recov /\ Become(w, k)
    BY <1>0, <1>4 DEF WorkerState
  <2> HIDE DEF k
  <2>2. CleanOK(k)
    BY <2>1 DEF CleanOK
  <2> QED BY <1>0, <2>1, <2>2, OneQuietStep DEF Become
<1>5. ASSUME NEW i, Become(w, [wk[w] EXCEPT !.pc = "decode", !.in = rawIn[i], !.recov = TRUE])
      PROVE  OneInv'
  <2> DEFINE k == [wk[w] EXCEPT !.pc = "decode", !.in = rawIn[i], !.recov = TRUE]
  <2>1. k.pc = "decode" /\ k.recov /\ Become(w, k)
    BY <1>0, <1>5 DEF WorkerState
  <2> HIDE DEF k
  <2>2. CleanOK(k)
    BY <2>1 DEF CleanOK
  <2> QED BY <1>0, <2>1, <2>2, OneQuietStep DEF Become
<1>6. CASE StoreRecord(w)
  BY <1>2, <1>3, <1>4, <1>6 DEF StoreRecord, Refuse
<1>7. CASE RetrieveRecord(w)
  <2>1. wk[w].raw \in RawId \cup {NoRaw}
    BY <1>0 DEF WorkerState
  <2>2. PICK r : r = wk[w].raw
    OBVIOUS
  <2> QED BY <1>2, <1>5, <1>7, <2>2 DEF RetrieveRecord, Refuse
<1> QED BY <1>1, <1>6, <1>7

LEMMA OneDecode ==
    ASSUME OneInv, TypeInv', AloneOK', Persists, NEW w \in Worker,
           DecodeFails(w) \/ ExpandBatch(w) \/ ResumeBatch(w) \/ CaptureSnapshot(w) \/ DeriveStatus(w) \/ SetStatus(w)
    PROVE  OneInv'
<1>0. /\ wk[w].pc \in {"decode", "capture", "count", "setstatus"} /\ wk[w].pc \notin {"idle", "commit"} /\ TypeInv
      /\ OneRowsOK /\ rp' = rp /\ CleanOK(wk[w])
  BY DEF OneInv, OneRowsOK, WorkersCleanOK, DecodeFails, ExpandBatch, ResumeBatch, CaptureSnapshot, DeriveStatus, SetStatus
<1>1. wk[w] \in WorkerState /\ wk[w].in \in Input /\ Kids[wk[w].in] \in Nat
  BY <1>0, WorkerFacts
<1>2. PICK r \in RawId : r = wk[w].raw /\ rawIn[r] = wk[w].in /\ rawStatus[r] # "absent"
  BY <1>0, WorkerFacts
<1>3. ASSUME NEW STATE k, Become(w, k), k.pc \in {"idle", "setstatus"}, UNCHANGED <<norm, quar>>
      PROVE  OneInv'
  <2>1. CleanOK(k)
    BY <1>3 DEF CleanOK
  <2> QED BY <1>0, <1>3, <2>1, OneQuietStep DEF Become
<1>4. ASSUME Become(w, [wk[w] EXCEPT !.pc = "setstatus"]), UNCHANGED <<norm, quar>>
      PROVE  OneInv'
  <2> DEFINE k == [wk[w] EXCEPT !.pc = "setstatus"]
  <2>1. k.pc = "setstatus" /\ Become(w, k)
    BY <1>1, <1>4 DEF WorkerState
  <2> HIDE DEF k
  <2> QED BY <1>3, <1>4, <2>1
<1>5. ASSUME NEW STATE st, Become(w, [wk[w] EXCEPT !.pc = "setstatus", !.st = st]), UNCHANGED <<norm, quar>>
      PROVE  OneInv'
  <2> DEFINE k == [wk[w] EXCEPT !.pc = "setstatus", !.st = st]
  <2>1. k.pc = "setstatus" /\ Become(w, k)
    BY <1>1, <1>5 DEF WorkerState
  <2> HIDE DEF k
  <2> QED BY <1>3, <1>5, <2>1
<1>6. ASSUME NEW y \in Why, QuarantineChild(wk[w].raw, 0, y),
             \/ rawIn[r] \notin Broken /\ ~HasCompletedChild(r, 0)
             \/ rawIn[r] \in Broken /\ y = "parse_error",
             Become(w, [wk[w] EXCEPT !.pc = "setstatus", !.st = "quarantined"])
      PROVE  OneInv'
  <2> DEFINE k == [wk[w] EXCEPT !.pc = "setstatus", !.st = "quarantined"]
  <2>1. k.pc = "setstatus"
    BY <1>1 DEF WorkerState
  <2> HIDE DEF k
  <2>2. wk' = [wk EXCEPT ![w] = k] /\ QuarantineChild(r, 0, y)
    BY <1>2, <1>6 DEF Become, k
  <2>3. wk'[w].pc = "setstatus"
    BY <1>0, <2>1, <2>2 DEF TypeInv, TypeOK
  <2>4. CleanOK(wk[w])'
    BY <2>3 DEF CleanOK
  <2>5. OneRowsOK'
    BY <1>0, <1>2, <1>6, <2>2, RowsQuarantine
  <2>6. norm' \subseteq norm \cup {<<r, 0>>} /\ quar' \subseteq quar \cup {<<r, 0, y>>}
    BY <2>2 DEF QuarantineChild
  <2>7. \A s \in RawId : s # wk[w].raw => \A d \in Nat :
           /\ HasCompletedChild(s, d)' => HasCompletedChild(s, d)
           /\ QuarantinedChild(s, d)' => QuarantinedChild(s, d)
    BY <1>2, <2>6, WriteSpares
  <2>8. wk[w].pc # "idle"
    BY <1>0
  <2> QED BY <1>0, <2>2, <2>4, <2>5, <2>7, <2>8, OneWorkerStep
<1>7. ASSUME Become(w, [wk[w] EXCEPT !.pc = "capture"]), wk[w].pc = "decode", UNCHANGED <<norm, quar>>
      PROVE  OneInv'
  <2> DEFINE k == [wk[w] EXCEPT !.pc = "capture"]
  <2>1. k.pc = "capture" /\ k.raw = r /\ k.recov = wk[w].recov /\ Become(w, k)
    BY <1>1, <1>2, <1>7 DEF WorkerState
  <2> HIDE DEF k
  <2>2. ~wk[w].recov => \A c \in Nat : ~HasCompletedChild(r, c)
    BY <1>0, <1>2, <1>7 DEF CleanOK
  <2>3. CleanOK(k)
    BY <2>1, <2>2 DEF CleanOK
  <2> QED BY <1>0, <1>7, <2>1, <2>3, OneQuietStep DEF Become
<1>8. CASE DecodeFails(w)
  <2>1. rawIn[r] \in Broken /\ "parse_error" \in Why
    BY <1>2, <1>8 DEF DecodeFails, Why
  <2> QED BY <1>4, <1>6, <1>8, <2>1 DEF DecodeFails, PersistQuarantine, QuarantineFails, store
<1>9. CASE ExpandBatch(w)
  <2>1. /\ rawIn[r] \notin Broken /\ "empty_payload" \in Why /\ ~HasCompletedChild(r, 0)
        /\ wk[w].pc = "decode"
    BY <1>0, <1>2, <1>9 DEF ExpandBatch, Why, CleanOK
  <2> QED BY <1>4, <1>6, <1>7, <1>9, <2>1 DEF ExpandBatch, PersistQuarantine, QuarantineFails, store
<1>10. CASE ResumeBatch(w)
  BY <1>4, <1>7, <1>10 DEF ResumeBatch, store
<1>11. CASE CaptureSnapshot(w)
  <2> DEFINE p == LoopPhase(wk[w].in, wk[w].recov, 0, FALSE)
             k == [wk[w] EXCEPT !.snap = active, !.next = 0, !.unres = FALSE, !.pc = p]
  <2>0. Become(w, k) /\ UNCHANGED <<norm, quar>> /\ wk[w].pc = "capture" /\ wk[w].recov \in BOOLEAN
    BY <1>1, <1>11 DEF CaptureSnapshot, store, WorkerState
  <2>1. p \in {"check", "process", "count"} /\ (p = "process" => ~wk[w].recov)
    BY <2>0 DEF LoopPhase
  <2> HIDE DEF p
  <2>2. k.pc = p /\ k.raw = r /\ k.next = 0 /\ k.recov = wk[w].recov
    BY <1>1, <1>2 DEF WorkerState
  <2> HIDE DEF k
  <2>3. ~wk[w].recov => \A c \in Nat : ~HasCompletedChild(r, c)
    BY <1>0, <1>2, <2>0 DEF CleanOK
  <2>4. CleanOK(k)
    BY <2>1, <2>2, <2>3 DEF CleanOK
  <2> QED BY <1>0, <2>0, <2>4, OneQuietStep DEF Become
<1>12. CASE DeriveStatus(w)
  BY <1>4, <1>5, <1>12 DEF DeriveStatus, store
<1>13. CASE SetStatus(w)
  <2>1. IdleWorker.pc = "idle" /\ Become(w, IdleWorker) /\ UNCHANGED <<norm, quar>>
    BY <1>13 DEF IdleWorker, SetStatus, UpdateStatus, store
  <2> QED BY <1>3, <2>1
<1> QED BY <1>8, <1>9, <1>10, <1>11, <1>12, <1>13

LEMMA OneChild ==
    ASSUME OneInv, TypeInv', AloneOK', Persists, NEW w \in Worker,
           \/ CheckChild(w) \/ RejectChild(w) \/ NormalizeChild(w) \/ EmitDirect(w) \/ UndoNormalized(w)
           \/ QuarantineAfter(w, "storeerr", "store_error") \/ QuarantineAfter(w, "sinkerr", "sink_error")
    PROVE  OneInv'
<1>0. /\ wk[w].pc \in {"check", "process", "storeerr", "emit", "undo", "sinkerr"}
      /\ wk[w].pc \notin {"idle", "commit"} /\ TypeInv /\ OneRowsOK /\ rp' = rp /\ CleanOK(wk[w])
  BY DEF OneInv, OneRowsOK, WorkersCleanOK, CheckChild, RejectChild, NormalizeChild, EmitDirect, UndoNormalized,
     QuarantineAfter
<1>1. wk[w] \in WorkerState /\ wk[w].in \in Input
  BY <1>0, WorkerFacts
<1>2. PICK r \in RawId : r = wk[w].raw /\ rawIn[r] = wk[w].in /\ rawStatus[r] # "absent"
  BY <1>0, WorkerFacts
<1>3. PICK n \in Nat : n = wk[w].next
  BY <1>0, WorkerFacts
<1>4. rawIn[r] \notin Broken /\ n < Kids[wk[w].in]
  BY <1>0, <1>2, <1>3, WorkerFacts DEF WorkerOK
<1>5. wk[w].pc \in {"process", "storeerr", "sinkerr"} => ~HasCompletedChild(r, n)
  BY <1>0, <1>2, <1>3 DEF CleanOK
<1>6. ASSUME NEW u \in BOOLEAN, Become(w, Advance(wk[w], u)), OneRowsOK', NEW y,
             norm' \subseteq norm \cup {<<r, n>>}, quar' \subseteq quar \cup {<<r, n, y>>}
      PROVE  OneInv'
  <2>1. \A s, d : s # r \/ d # n =>
            /\ HasCompletedChild(s, d)' => HasCompletedChild(s, d)
            /\ QuarantinedChild(s, d)' => QuarantinedChild(s, d)
    BY <1>6, WriteSpares
  <2>2. wk'[w] = Advance(wk[w], u)
    BY <1>0, <1>6 DEF Become, TypeInv, TypeOK
  <2>3. \A d \in Nat : d # n => (HasCompletedChild(r, d)' => HasCompletedChild(r, d))
    BY <2>1
  <2>4. CleanOK(wk[w])'
    BY <1>0, <1>2, <1>3, <1>6, <2>2, <2>3, CleanAdvance
  <2>5. \A s \in RawId : s # wk[w].raw => \A d \in Nat :
            /\ HasCompletedChild(s, d)' => HasCompletedChild(s, d)
            /\ QuarantinedChild(s, d)' => QuarantinedChild(s, d)
    BY <1>2, <2>1
  <2>6. PICK k : k = Advance(wk[w], u)
    OBVIOUS
  <2>7. wk' = [wk EXCEPT ![w] = k] /\ wk[w].pc # "idle"
    BY <1>0, <1>6, <2>6 DEF Become
  <2> QED BY <1>0, <1>6, <2>4, <2>5, <2>7, OneWorkerStep
<1>7. ASSUME NEW u \in BOOLEAN, Become(w, Advance(wk[w], u)), UNCHANGED <<norm, quar>>
      PROVE  OneInv'
  <2>1. OneRowsOK'
    BY <1>0, <1>7, RowsShrink
  <2>2. norm' \subseteq norm \cup {<<r, n>>} /\ quar' \subseteq quar \cup {<<r, n, "parse_error">>}
    BY <1>7
  <2> QED BY <1>6, <1>7, <2>1, <2>2
<1>8. ASSUME NEW y \in Why, QuarantineChild(wk[w].raw, wk[w].next, y), Become(w, Advance(wk[w], FALSE)),
             wk[w].pc \in {"process", "storeerr", "sinkerr"}
      PROVE  OneInv'
  <2>1. QuarantineChild(r, n, y)
    BY <1>2, <1>3, <1>8
  <2>2. OneRowsOK'
    BY <1>0, <1>2, <1>4, <1>5, <1>8, <2>1, RowsQuarantine
  <2>3. norm' \subseteq norm \cup {<<r, n>>} /\ quar' \subseteq quar \cup {<<r, n, y>>}
    BY <2>1 DEF QuarantineChild
  <2> QED BY <1>6, <1>8, <2>2, <2>3
<1>9. ~wk[w].recov => \A c \in Nat : c > n => ~HasCompletedChild(r, c)
  BY <1>0, <1>2, <1>3 DEF CleanOK
<1>10. ASSUME NEW p \in {"process", "storeerr", "undo"}, Become(w, [wk[w] EXCEPT !.pc = p]), UNCHANGED <<norm, quar>>,
              p = "undo" => ~QuarantinedChild(r, n), p # "undo" => ~HasCompletedChild(r, n)
       PROVE  OneInv'
  <2> DEFINE k == [wk[w] EXCEPT !.pc = p]
  <2>1. k.pc = p /\ k.raw = r /\ k.next = n /\ k.recov = wk[w].recov /\ Become(w, k)
    BY <1>1, <1>2, <1>3, <1>10 DEF WorkerState
  <2> HIDE DEF k
  <2>2. CleanOK(k)
    BY <1>9, <1>10, <2>1 DEF CleanOK
  <2> QED BY <1>0, <1>10, <2>1, <2>2, OneQuietStep DEF Become
<1>11. ASSUME NEW p \in {"emit", "sinkerr"}, Become(w, [wk[w] EXCEPT !.pc = p]), OneRowsOK',
              norm' \subseteq norm \cup {<<r, n>>}, quar' = quar,
              ~QuarantinedChild(r, n), p = "sinkerr" => <<r, n>> \notin norm'
       PROVE  OneInv'
  <2>1. PICK k : k = [wk[w] EXCEPT !.pc = p]
    OBVIOUS
  <2>2. k.pc = p /\ k.raw = r /\ k.next = n /\ k.recov = wk[w].recov /\ wk' = [wk EXCEPT ![w] = k]
    BY <1>1, <1>2, <1>3, <1>11, <2>1 DEF WorkerState, Become
  <2>3. quar' \subseteq quar \cup {<<r, n, "sink_error">>}
    BY <1>11
  <2>4. \A s, d : s # r \/ d # n =>
            /\ HasCompletedChild(s, d)' => HasCompletedChild(s, d)
            /\ QuarantinedChild(s, d)' => QuarantinedChild(s, d)
    BY <1>11, <2>3, WriteSpares
  <2>5. ~QuarantinedChild(r, n)' /\ (p = "sinkerr" => ~HasCompletedChild(r, n)')
    BY <1>11 DEF QuarantinedChild, HasCompletedChild
  <2>6. ~wk[w].recov => \A c \in Nat : c > n => ~HasCompletedChild(r, c)'
    <3> SUFFICES ASSUME ~wk[w].recov, NEW c \in Nat, c > n PROVE ~HasCompletedChild(r, c)'
      OBVIOUS
    <3>1. c # n /\ ~HasCompletedChild(r, c)
      BY <1>9
    <3> QED BY <2>4, <3>1
  <2>7. wk'[w] = k
    BY <1>0, <2>2 DEF TypeInv, TypeOK
  <2>8. CleanOK(wk[w])'
    BY <1>11, <2>2, <2>5, <2>6, <2>7 DEF CleanOK, QuarantinedChild, HasCompletedChild
  <2>9. \A s \in RawId : s # wk[w].raw => \A d \in Nat :
            /\ HasCompletedChild(s, d)' => HasCompletedChild(s, d)
            /\ QuarantinedChild(s, d)' => QuarantinedChild(s, d)
    BY <1>2, <2>4
  <2> QED BY <1>0, <1>11, <2>2, <2>8, <2>9, OneWorkerStep
<1>12. CASE CheckChild(w)
  <2>1. UNCHANGED <<norm, quar>> /\ TRUE \in BOOLEAN /\ FALSE \in BOOLEAN
    BY <1>12 DEF CheckChild, store
  <2>2. \/ \E u \in BOOLEAN : Become(w, Advance(wk[w], u))
        \/ Become(w, [wk[w] EXCEPT !.pc = "process"]) /\ ~HasCompletedChild(r, n)
    BY <1>2, <1>3, <1>12, <2>1 DEF CheckChild
  <2> QED BY <1>7, <1>10, <2>1, <2>2
<1>13. CASE RejectChild(w)
  <2>1. wk[w].pc = "process" /\ wk[w].next \in 0 .. (Kids[wk[w].in] - 1) /\ wk[w].snap \in Snapshot
    BY <1>0, <1>13, WorkerFacts DEF RejectChild, WorkerOK, WorkerState
  <2>2. Verdict(wk[w].snap, wk[w].in, wk[w].next) \in Why
    BY <1>1, <1>13, <2>1, PipelineAssumption DEF RejectChild, Verdicts, Why
  <2> QED BY <1>7, <1>8, <1>13, <2>1, <2>2 DEF RejectChild, PersistQuarantine, QuarantineFails, store
<1>14. CASE QuarantineAfter(w, "storeerr", "store_error") \/ QuarantineAfter(w, "sinkerr", "sink_error")
  <2>1. "store_error" \in Why /\ "sink_error" \in Why
    BY DEF Why
  <2> QED BY <1>7, <1>8, <1>14, <2>1 DEF QuarantineAfter, PersistQuarantine, QuarantineFails, store
<1>15. CASE NormalizeChild(w)
  <2>1. wk[w].pc = "process" /\ ~HasCompletedChild(r, n)
    BY <1>5, <1>15 DEF NormalizeChild
  <2>2. ~QuarantinedChild(r, n)
    BY <2>1 DEF HasCompletedChild, QuarantinedChild
  <2>3. CASE UNCHANGED store
    <3>1. UNCHANGED <<norm, quar>>
      BY <2>3 DEF store
    <3>2. CASE Become(w, [wk[w] EXCEPT !.pc = "storeerr"])
      BY <1>10, <2>1, <3>1, <3>2
    <3>3. CASE norm' = norm \cup {<<wk[w].raw, wk[w].next>>}
      BY <1>2, <1>3, <2>1, <3>1, <3>3 DEF HasCompletedChild
    <3> QED BY <1>15, <3>2, <3>3 DEF NormalizeChild, StoreNormalizedWithOutbox
  <2>4. CASE norm' = norm \cup {<<r, n>>} /\ quar' = quar
    <3>1. OneRowsOK'
      BY <1>0, <1>2, <1>4, <2>2, <2>4, RowsNormalize DEF QuarantinedChild
    <3>2. quar' \subseteq quar \cup {<<r, n, "sink_error">>} /\ norm' \subseteq norm \cup {<<r, n>>}
      BY <2>4
    <3>3. CASE Become(w, Advance(wk[w], FALSE))
      BY <1>6, <3>1, <3>2, <3>3
    <3>4. CASE Become(w, [wk[w] EXCEPT !.pc = "emit"])
      BY <1>11, <2>2, <2>4, <3>1, <3>2, <3>4
    <3> QED BY ONLY <1>15, <2>3, <3>3, <3>4 DEF NormalizeChild
  <2> QED BY <1>2, <1>3, <1>15, <2>3, <2>4 DEF NormalizeChild, StoreNormalizedWithOutbox
<1>16. CASE EmitDirect(w)
  <2>1. UNCHANGED <<norm, quar>> /\ ~QuarantinedChild(r, n)
    BY <1>0, <1>2, <1>3, <1>16 DEF EmitDirect, store, CleanOK
  <2> QED BY <1>7, <1>10, <1>16, <2>1 DEF EmitDirect
<1>17. CASE UndoNormalized(w)
  <2>1. ~QuarantinedChild(r, n)
    BY <1>0, <1>2, <1>3, <1>17 DEF UndoNormalized, CleanOK
  <2>2. CASE DeleteNormalizedChild(r, n) /\ Become(w, [wk[w] EXCEPT !.pc = "sinkerr"])
    <3>1. norm' \subseteq norm /\ quar' = quar /\ <<r, n>> \notin norm'
      BY <2>2 DEF DeleteNormalizedChild
    <3>2. OneRowsOK'
      BY <1>0, <3>1, RowsShrink
    <3>3. norm' \subseteq norm \cup {<<r, n>>}
      BY <3>1
    <3> QED BY <1>11, <2>1, <2>2, <3>1, <3>2, <3>3
  <2>3. CASE UNCHANGED store /\ Become(w, Advance(wk[w], TRUE))
    BY <1>7, <2>3 DEF store
  <2> QED BY <1>2, <1>3, <1>17, <2>2, <2>3 DEF UndoNormalized
<1> QED BY <1>12, <1>13, <1>14, <1>15, <1>16, <1>17

\* A step of no worker that completes no child.
LEMMA OneOutsideStep ==
    ASSUME OneInv, TypeInv', AloneOK', wk' = wk, OneRowsOK', ReplaysDecodable',
           \A s \in RawId : \A d \in Nat :
               /\ HasCompletedChild(s, d)' => HasCompletedChild(s, d)
               /\ QuarantinedChild(s, d)' => QuarantinedChild(s, d)
    PROVE  OneInv'
<1>1. ASSUME NEW v \in Worker PROVE CleanOK(wk[v])'
  <2>1. TypeInv /\ CleanOK(wk[v]) /\ wk'[v] = wk[v]
    BY DEF OneInv, WorkersCleanOK
  <2> QED BY <2>1, CleanStays
<1>2. WorkersCleanOK'
  BY <1>1 DEF WorkersCleanOK
<1> QED BY <1>2 DEF OneInv, OneRowsOK

LEMMA OneOutside ==
    ASSUME OneInv, TypeInv', AloneOK', Persists, UNCHANGED <<wk, norm, quar>>, rp' = rp \/ ReplaysDecodable'
    PROVE  OneInv'
<1>1. OneRowsOK'
  BY RowsShrink DEF OneInv, OneRowsOK
<1>2. ReplaysDecodable'
  BY ReplaysStay DEF OneInv
<1>3. \A s \in RawId : \A d \in Nat :
          /\ HasCompletedChild(s, d)' => HasCompletedChild(s, d)
          /\ QuarantinedChild(s, d)' => QuarantinedChild(s, d)
  BY DEF HasCompletedChild, QuarantinedChild
<1> QED BY <1>1, <1>2, <1>3, OneOutsideStep

LEMMA OneReplayStart ==
    ASSUME OneInv, TypeInv', AloneOK', Persists, NEW p \in Replayer, NEW q \in quar, ReplayStart(p, q)
    PROVE  OneInv'
<1>1. q[1] \in RawId /\ rawStatus[q[1]] # "absent"
  BY RowsTyped DEF OneInv
<1>2. rawIn[q[1]] \notin Broken \cup {NoInput} /\ UNCHANGED <<wk, norm, quar, rawIn>>
  BY <1>1 DEF ReplayStart, OneInv, TypeInv, TypeOK, StoreTypeOK, store
<1>3. PICK k : k = [pc |-> "commit", q |-> q]
  OBVIOUS
<1>4. k.q = q /\ rp' = [rp EXCEPT ![p] = k] /\ rp'[p] = k /\ \A s \in Replayer : s # p => rp'[s] = rp[s]
  BY <1>3 DEF ReplayStart, OneInv, TypeInv, TypeOK
<1>5. ReplaysDecodable'
  <2> SUFFICES ASSUME NEW s \in Replayer, rp'[s].pc = "commit"
               PROVE  rp'[s].q[1] \in RawId /\ rawIn'[rp'[s].q[1]] \notin Broken \cup {NoInput}
    BY DEF ReplaysDecodable
  <2>1. CASE s = p
    BY <1>1, <1>2, <1>4, <2>1
  <2>2. CASE s # p
    BY <1>2, <1>4, <2>2 DEF OneInv, ReplaysDecodable
  <2> QED BY <2>1, <2>2
<1> QED BY <1>2, <1>5, OneOutside

LEMMA OneReplayCommit ==
    ASSUME OneInv, TypeInv', AloneOK', Persists, NEW p \in Replayer, ReplayCommit(p)
    PROVE  OneInv'
<1>1. wk' = wk /\ rp' = [rp EXCEPT ![p] = IdleReplay] /\ rp[p].pc = "commit" /\ rawIn' = rawIn
  BY DEF ReplayCommit, ResolveQuarantineWithOutbox, store
<1>2. rp'[p] = IdleReplay /\ IdleReplay.pc = "idle" /\ \A s \in Replayer : s # p => rp'[s] = rp[s]
  BY <1>1 DEF OneInv, TypeInv, TypeOK, IdleReplay
<1>3. ReplaysDecodable'
  <2> SUFFICES ASSUME NEW s \in Replayer, rp'[s].pc = "commit"
               PROVE  rp'[s].q[1] \in RawId /\ rawIn'[rp'[s].q[1]] \notin Broken \cup {NoInput}
    BY DEF ReplaysDecodable
  <2>1. s # p
    BY <1>2
  <2> QED BY <1>1, <1>2, <2>1 DEF OneInv, ReplaysDecodable
<1>4. CASE UNCHANGED store
  BY <1>1, <1>3, <1>4, OneOutside DEF store
<1>5. ASSUME NEW D, ResolveQuarantineWithOutbox(rp[p].q, D)
      PROVE  OneInv'
  <2>1. PICK q \in quar : q = rp[p].q
    BY <1>5 DEF ResolveQuarantineWithOutbox
  <2>2. norm' = norm \cup {<<q[1], q[2]>>} /\ quar' = quar \ {q}
    BY <1>5, <2>1 DEF ResolveQuarantineWithOutbox
  <2>3. PICK r \in RawId, c \in Nat : r = q[1] /\ c = q[2]
    BY RowsTyped DEF OneInv
  <2>4. rawStatus[r] # "absent" /\ rawIn[r] \notin Broken
    BY <1>1, <2>1, <2>3, RowsTyped DEF OneInv, ReplaysDecodable
  <2>5. \A x \in quar' : ~(x[1] = r /\ x[2] = c)
    BY <2>2, <2>3 DEF OneInv, OneOutcomePerChild
  <2>6. TypeInv /\ OneRowsOK /\ norm' = norm \cup {<<r, c>>} /\ quar' \subseteq quar
    BY <2>2, <2>3 DEF OneInv, OneRowsOK
  <2>7. OneRowsOK'
    BY <2>4, <2>5, <2>6, RowsNormalize
  <2>8. QuarantinedChild(r, c) /\ HasCompletedChild(r, c)
    BY <2>3 DEF QuarantinedChild, HasCompletedChild
  <2>9. quar' \subseteq quar \cup {<<r, c, "parse_error">>} /\ norm' \subseteq norm \cup {<<r, c>>}
    BY <2>6
  <2>10. \A s, d : s # r \/ d # c =>
            /\ HasCompletedChild(s, d)' => HasCompletedChild(s, d)
            /\ QuarantinedChild(s, d)' => QuarantinedChild(s, d)
    BY <2>9, WriteSpares
  <2>11. \A s \in RawId : \A d \in Nat :
            /\ HasCompletedChild(s, d)' => HasCompletedChild(s, d)
            /\ QuarantinedChild(s, d)' => QuarantinedChild(s, d)
    BY <2>8, <2>10
  <2> QED BY <1>1, <1>3, <2>7, <2>11, OneOutsideStep
<1> QED BY <1>4, <1>5 DEF ReplayCommit

LEMMA OneNext == ASSUME OneHandler PROVE OneInv /\ [Next]_vars => OneInv'
<1> SUFFICES ASSUME OneInv, [Next]_vars PROVE OneInv'
  OBVIOUS
<1>0. TypeInv' /\ AloneOK' /\ Persists
  BY TypeNext, AloneStep, PersistsStep DEF OneInv
<1>1. CASE \E w \in Worker : Take(w) \/ ProcessRecord(w)
  BY <1>0, <1>1, OneCommit, OneDecode, OneChild DEF ProcessRecord
<1>2. CASE \E p \in Replayer : ReplayCommit(p) \/ \E q \in quar : ReplayStart(p, q)
  BY <1>0, <1>2, OneReplayStart, OneReplayCommit
<1>3. CASE Crash
  <2>1. \A w \in Worker : wk'[w].pc = "idle"
    BY <1>3 DEF Crash, IdleWorker
  <2>2. \A p \in Replayer : rp'[p].pc = "idle"
    BY <1>3 DEF Crash, IdleReplay
  <2>3. WorkersCleanOK' /\ ReplaysDecodable'
    BY <2>1, <2>2 DEF WorkersCleanOK, CleanOK, ReplaysDecodable
  <2>4. UNCHANGED <<norm, quar>>
    BY <1>3 DEF Crash, store
  <2>5. OneRowsOK'
    BY <1>0, <2>4, RowsShrink DEF OneInv, OneRowsOK
  <2> QED BY <1>0, <2>3, <2>5 DEF OneInv, OneRowsOK
<1>4. CASE UNCHANGED <<wk, rp, norm, quar>>
  BY <1>0, <1>4, OneOutside
<1>5. CASE \/ \E i \in Input : Submit(i)
           \/ FetchPending \/ AckDelivery
           \/ \E row \in batch : EmitTo(row) \/ EmitToFails(row)
           \/ \E S \in SUBSET Dest : Reconfigure(S)
           \/ \E s \in Snapshot : ActivatePack(s)
           \/ FinishStartup
           \/ \E r \in toRecover : Recover(r)
  BY <1>4, <1>5 DEF Submit, FetchPending, AckDelivery, MarkDelivered, EmitTo, EmitToFails, MarkFailed, Reconfigure,
     ActivatePack, FinishStartup, Recover, store
<1>6. CASE UNCHANGED vars
  BY <1>4, <1>6 DEF vars, volatile, store
<1> QED BY <1>1, <1>2, <1>3, <1>5, <1>6 DEF Next

LEMMA OneInit == Init => OneInv
<1> SUFFICES ASSUME Init PROVE OneInv
  OBVIOUS
<1>1. \A w \in Worker : wk[w].pc = "idle"
  BY DEF Init, IdleWorker
<1>2. \A p \in Replayer : rp[p].pc = "idle"
  BY DEF Init, IdleReplay
<1>3. norm = {} /\ quar = {} /\ 1 .. Len(inbound) = {}
  BY DEF Init, StoreInit
<1>4. AloneOK
  BY <1>1, <1>3 DEF AloneOK, Handles, Init
<1>5. NormRowsOK /\ BrokenRowsOK /\ OneOutcomePerChild
  BY <1>3 DEF NormRowsOK, BrokenRowsOK, OneOutcomePerChild
<1>6. WorkersCleanOK /\ ReplaysDecodable
  BY <1>1, <1>2 DEF WorkersCleanOK, CleanOK, ReplaysDecodable
<1> QED BY <1>4, <1>5, <1>6, TypeInit DEF OneInv

\* A child is never both normalized and quarantined and has one quarantine
\* row, whatever the workers, the replays, the store and sink errors and the
\* restarts do, when no two workers can hold one raw record.
THEOREM OneOutcomeHolds == ASSUME OneHandler PROVE Spec => []OneOutcomePerChild
<1>1. OneInv /\ [Next]_vars => OneInv'
  BY OneNext
<1>2. OneInv => OneOutcomePerChild
  BY DEF OneInv
<1> QED BY OneInit, <1>1, <1>2, PTL DEF Spec

-----------------------------------------------------------------------------
(* The status of a record and the outcomes of its children.  Without       *)
(* replays a status once derived is still true when it is written; with    *)
(* them a worker may overwrite the status that the replay has written.     *)

\* The rows of record r are those its final status st tells of.
RowsTell(r, st) ==
    /\ st = "normalized" <=> RowsOf(quar, r) = {}
    /\ st = "partial" <=> RowsOf(quar, r) # {} /\ RowsOf(norm, r) # {}

StatusOK == \A r \in RawId : rawStatus[r] \in Final => RowsTell(r, rawStatus[r])

\* The status a worker is about to write is still true.
SettingOK ==
    \A w \in Worker : wk[w].pc = "setstatus" /\ wk[w].st \in Final => RowsTell(wk[w].raw, wk[w].st)

\* A record that its worker has committed itself has no final status yet.
FirstOK ==
    \A w \in Worker : wk[w].pc \notin {"idle", "commit"} /\ ~wk[w].recov => rawStatus[wk[w].raw] = "accepted"

StatusInv == LossInv /\ OneInv /\ StatusOK /\ SettingOK /\ FirstOK

LEMMA OutcomeTells ==
    ASSUME TypeInv, NEW r
    PROVE  RowsTell(r, OutcomeStatus(r, norm, quar))
<1>1. IsFiniteSet(RowsOf(norm, r)) /\ IsFiniteSet(RowsOf(quar, r))
  <2>1. RowsOf(norm, r) \subseteq norm /\ RowsOf(quar, r) \subseteq quar
    BY DEF RowsOf
  <2> QED BY <2>1, FS_Subset DEF TypeInv, Finite
<1>2. PICK n, q : n = Cardinality(RowsOf(norm, r)) /\ q = Cardinality(RowsOf(quar, r))
  OBVIOUS
<1>3. n \in Nat /\ q \in Nat /\ (n = 0 <=> RowsOf(norm, r) = {}) /\ (q = 0 <=> RowsOf(quar, r) = {})
  BY <1>1, <1>2, FS_CardinalityType, FS_EmptySet
<1>4. OutcomeStatus(r, norm, quar) = ParentStatus(n, q)
  BY <1>2 DEF OutcomeStatus
<1> QED BY <1>3, <1>4 DEF ParentStatus, RowsTell

\* A write for one record touches the rows of no other.
LEMMA RowsOfOthers ==
    ASSUME NEW r, NEW c, NEW y, norm' \subseteq norm \cup {<<r, c>>}, norm \subseteq norm',
           quar' \subseteq quar \cup {<<r, c, y>>}, quar \subseteq quar'
    PROVE  \A s : s # r => RowsOf(norm, s)' = RowsOf(norm, s) /\ RowsOf(quar, s)' = RowsOf(quar, s)
<1> SUFFICES ASSUME NEW s, s # r
             PROVE  RowsOf(norm, s)' = RowsOf(norm, s) /\ RowsOf(quar, s)' = RowsOf(quar, s)
  OBVIOUS
<1>1. \A x : x \in norm' /\ x[1] = s <=> x \in norm /\ x[1] = s
  OBVIOUS
<1>2. \A x : x \in quar' /\ x[1] = s <=> x \in quar /\ x[1] = s
  OBVIOUS
<1> QED BY <1>1, <1>2 DEF RowsOf

\* What a worker writes, it writes for a record without a final status.
LEMMA WorkerWrites ==
    ASSUME StatusInv, NEW w \in Worker, ProcessRecord(w)
    PROVE  \/ UNCHANGED <<norm, quar>>
           \/ /\ wk[w].pc \notin {"idle", "commit"} /\ UNCHANGED rawStatus
              /\ rawStatus[wk[w].raw] \notin Final
              /\ \A s : s # wk[w].raw =>
                    RowsOf(norm, s)' = RowsOf(norm, s) /\ RowsOf(quar, s)' = RowsOf(quar, s)
<1> DEFINE Spares == /\ wk[w].pc \notin {"idle", "commit"} /\ UNCHANGED rawStatus
                     /\ rawStatus[wk[w].raw] \notin Final
                     /\ \A s : s # wk[w].raw =>
                           RowsOf(norm, s)' = RowsOf(norm, s) /\ RowsOf(quar, s)' = RowsOf(quar, s)
<1>0. TypeInv /\ NoDirectEmit /\ NoSilentLoss /\ BrokenRowsOK /\ CleanOK(wk[w])
  BY DEF StatusInv, LossInv, OneInv, WorkersCleanOK
<1>1. ASSUME wk[w].pc \in {"process", "storeerr"}
      PROVE  rawStatus[wk[w].raw] \notin Final
  <2>1. /\ wk[w].raw \in RawId /\ wk[w].in \notin Broken /\ wk[w].in = rawIn[wk[w].raw]
        /\ wk[w].next \in Nat /\ wk[w].next < Kids[wk[w].in] /\ Kids[wk[w].in] \in Nat
    BY <1>0, <1>1, WorkerFacts DEF WorkerOK
  <2>2. wk[w].next \in Children(rawIn[wk[w].raw])
    BY <2>1 DEF Children
  <2>3. ~HasCompletedChild(wk[w].raw, wk[w].next)
    BY <1>0, <1>1 DEF CleanOK
  <2> QED BY <1>0, <2>1, <2>2, <2>3 DEF NoSilentLoss, Complete
<1>2. ASSUME NEW c, NEW y, QuarantineChild(wk[w].raw, c, y), wk[w].pc \notin {"idle", "commit"},
             rawStatus[wk[w].raw] \notin Final
      PROVE  Spares
  <2>1. UNCHANGED rawStatus /\ norm' = norm /\ quar' = quar \cup {<<wk[w].raw, c, y>>}
    BY <1>2 DEF QuarantineChild
  <2>2. PICK r : r = wk[w].raw
    OBVIOUS
  <2>3. \A s : s # r => RowsOf(norm, s)' = RowsOf(norm, s) /\ RowsOf(quar, s)' = RowsOf(quar, s)
    BY <2>1, <2>2, RowsOfOthers
  <2> QED BY <1>2, <2>1, <2>2, <2>3
<1>3. CASE RejectChild(w)
  <2>1. wk[w].pc = "process"
    BY <1>3 DEF RejectChild
  <2> QED BY <1>1, <1>2, <1>3, <2>1 DEF RejectChild, PersistQuarantine, QuarantineFails, store
<1>4. CASE QuarantineAfter(w, "storeerr", "store_error")
  <2>1. wk[w].pc = "storeerr"
    BY <1>4 DEF QuarantineAfter
  <2> QED BY <1>1, <1>2, <1>4, <2>1 DEF QuarantineAfter, PersistQuarantine, QuarantineFails, store
<1>5. CASE NormalizeChild(w)
  <2>1. wk[w].pc = "process"
    BY <1>5 DEF NormalizeChild
  <2>2. CASE UNCHANGED store
    BY <2>2 DEF store
  <2>3. ASSUME NEW D, StoreNormalizedWithOutbox(wk[w].raw, wk[w].next, D)
        PROVE  Spares
    <3>1. UNCHANGED <<rawStatus, quar>> /\ norm' = norm \cup {<<wk[w].raw, wk[w].next>>}
      BY <2>3 DEF StoreNormalizedWithOutbox
    <3>2. PICK r, c : r = wk[w].raw /\ c = wk[w].next
      OBVIOUS
    <3>3. \A s : s # r => RowsOf(norm, s)' = RowsOf(norm, s) /\ RowsOf(quar, s)' = RowsOf(quar, s)
      <4>1. norm' \subseteq norm \cup {<<r, c>>} /\ norm \subseteq norm'
        BY <3>1, <3>2
      <4>2. quar' \subseteq quar \cup {<<r, c, 0>>} /\ quar \subseteq quar'
        BY <3>1
      <4> QED BY <4>1, <4>2, RowsOfOthers
    <3> QED BY <1>1, <2>1, <3>1, <3>2, <3>3
  <2> QED BY <1>5, <2>2, <2>3 DEF NormalizeChild
<1>6. CASE ExpandBatch(w)
  <2>1. wk[w].pc = "decode" /\ ~wk[w].recov
    BY <1>6 DEF ExpandBatch
  <2>2. rawStatus[wk[w].raw] \notin Final
    BY <2>1 DEF StatusInv, FirstOK, Final
  <2> QED BY <1>2, <1>6, <2>1, <2>2 DEF ExpandBatch, PersistQuarantine, QuarantineFails, store
<1>7. CASE DecodeFails(w)
  <2>0. wk[w].pc = "decode" /\ wk[w].in \in Broken
    BY <1>7 DEF DecodeFails
  <2>1. PICK r \in RawId : r = wk[w].raw /\ rawIn[r] = wk[w].in
    BY <1>0, <2>0, WorkerFacts
  <2>2. CASE rawStatus[r] \notin Final
    BY <1>2, <1>7, <2>0, <2>1, <2>2 DEF DecodeFails, PersistQuarantine, QuarantineFails, store
  <2>3. CASE rawStatus[r] \in Final
    <3>1. HasCompletedChild(r, 0)
      BY <1>0, <2>0, <2>1, <2>3 DEF NoSilentLoss, Complete, Children
    <3>2. <<r, 0>> \notin norm
      BY <1>0, <2>0, <2>1 DEF BrokenRowsOK
    <3>3. PICK x \in quar : x[1] = r /\ x[2] = 0
      BY <3>1, <3>2 DEF HasCompletedChild
    <3>4. x[3] = "parse_error" /\ x = <<x[1], x[2], x[3]>>
      BY <1>0, <2>0, <2>1, <3>3, RowsTyped DEF BrokenRowsOK, StatusInv, OneInv
    <3>5. <<r, 0, "parse_error">> \in quar
      BY <3>3, <3>4
    <3> QED BY <1>7, <2>1, <3>5 DEF DecodeFails, PersistQuarantine, QuarantineFails, QuarantineChild, store
  <2> QED BY <2>2, <2>3
<1>8. CASE \/ StoreRecord(w) \/ RetrieveRecord(w) \/ ResumeBatch(w) \/ CaptureSnapshot(w) \/ CheckChild(w)
           \/ DeriveStatus(w) \/ SetStatus(w)
  BY <1>8 DEF StoreRecord, InsertRaw, Refuse, RetrieveRecord, ResumeBatch, CaptureSnapshot, CheckChild, DeriveStatus,
     SetStatus, UpdateStatus, store
<1>9. ~(EmitDirect(w) \/ UndoNormalized(w) \/ QuarantineAfter(w, "sinkerr", "sink_error"))
  BY <1>0 DEF NoDirectEmit, EmitDirect, UndoNormalized, QuarantineAfter
<1> QED BY <1>3, <1>4, <1>5, <1>6, <1>7, <1>8, <1>9 DEF ProcessRecord

\* A worker keeps its record, and the status it will write stays "accepted"
\* until it derives another.
LEMMA SettingMoves ==
    ASSUME StatusInv, NEW w \in Worker, ProcessRecord(w), ~StoreRecord(w)
    PROVE  \/ wk'[w].pc = "idle"
           \/ /\ \/ wk'[w].recov
                 \/ wk[w].pc \notin {"idle", "commit"} /\ wk'[w].raw = wk[w].raw /\ wk'[w].recov = wk[w].recov
              /\ wk'[w].st = "accepted" \/ DeriveStatus(w) \/ DecodeFails(w) \/ ExpandBatch(w)
<1> DEFINE Moves == \/ wk'[w].pc = "idle"
                    \/ /\ \/ wk'[w].recov
                          \/ /\ wk[w].pc \notin {"idle", "commit"}
                             /\ wk'[w].raw = wk[w].raw /\ wk'[w].recov = wk[w].recov
                       /\ wk'[w].st = "accepted" \/ DeriveStatus(w) \/ DecodeFails(w) \/ ExpandBatch(w)
<1> SUFFICES Moves
  OBVIOUS
<1> HIDE DEF Moves
<1>0. wk \in [Worker -> WorkerState] /\ NoDirectEmit /\ (wk[w].pc # "setstatus" => wk[w].st = "accepted")
  BY DEF StatusInv, LossInv, TypeInv, TypeOK, WorkersLossOK, LossOK
<1>1. wk[w] \in WorkerState
  BY <1>0
<1>2. ASSUME NEW STATE k, Become(w, k) PROVE wk'[w] = k
  BY <1>0, <1>2 DEF Become
<1>3. CASE Become(w, IdleWorker)
  <2>1. wk'[w] = IdleWorker
    BY <1>2, <1>3
  <2> QED BY <2>1 DEF IdleWorker, Moves
<1>4. ASSUME NEW u \in BOOLEAN, Become(w, Advance(wk[w], u)), wk[w].pc \notin {"idle", "commit", "setstatus"}
      PROVE  Moves
  <2>1. wk'[w] = Advance(wk[w], u)
    BY <1>2, <1>4
  <2>2. Advance(wk[w], u).raw = wk[w].raw /\ Advance(wk[w], u).st = wk[w].st
    BY <1>1, AdvanceType
  <2>3. Advance(wk[w], u).recov = wk[w].recov
    BY <1>1 DEF Advance, WorkerState
  <2> QED BY <1>0, <1>4, <2>1, <2>2, <2>3 DEF Moves
<1>5. ASSUME NEW STATE p, Become(w, [wk[w] EXCEPT !.pc = p]), wk[w].pc \notin {"idle", "commit", "setstatus"}
      PROVE  Moves
  <2>1. wk'[w] = [wk[w] EXCEPT !.pc = p]
    BY <1>2, <1>5
  <2>2. wk'[w].raw = wk[w].raw /\ wk'[w].recov = wk[w].recov /\ wk'[w].st = wk[w].st
    BY <1>1, <2>1 DEF WorkerState
  <2> QED BY <1>0, <1>5, <2>2 DEF Moves
<1>6. ASSUME NEW STATE s, Become(w, [wk[w] EXCEPT !.pc = "setstatus", !.st = s]), wk[w].pc \notin {"idle", "commit"},
             DeriveStatus(w) \/ DecodeFails(w) \/ ExpandBatch(w)
      PROVE  Moves
  <2>1. wk'[w] = [wk[w] EXCEPT !.pc = "setstatus", !.st = s]
    BY <1>2, <1>6
  <2>2. wk'[w].raw = wk[w].raw /\ wk'[w].recov = wk[w].recov
    BY <1>1, <2>1 DEF WorkerState
  <2> QED BY <1>6, <2>2 DEF Moves
<1>7. CASE RetrieveRecord(w)
  <2>1. CASE Become(w, [wk[w] EXCEPT !.pc = "decode", !.in = rawIn[wk[w].raw], !.recov = TRUE])
    <3>1. wk'[w] = [wk[w] EXCEPT !.pc = "decode", !.in = rawIn[wk[w].raw], !.recov = TRUE]
      BY <1>2, <2>1
    <3>2. wk'[w].recov /\ wk'[w].st = wk[w].st
      BY <1>1, <3>1 DEF WorkerState
    <3>3. wk[w].pc = "commit"
      BY <1>7 DEF RetrieveRecord
    <3> QED BY <1>0, <3>2, <3>3 DEF Moves
  <2> QED BY <1>3, <1>7, <2>1 DEF RetrieveRecord, Refuse
<1>8. CASE CaptureSnapshot(w)
  <2> DEFINE k == [wk[w] EXCEPT !.snap = active, !.next = 0, !.unres = FALSE,
                                !.pc = LoopPhase(wk[w].in, wk[w].recov, 0, FALSE)]
  <2>1. wk'[w] = k /\ wk[w].pc = "capture"
    BY <1>2, <1>8 DEF CaptureSnapshot
  <2>2. k.raw = wk[w].raw /\ k.recov = wk[w].recov /\ k.st = wk[w].st
    BY <1>1 DEF WorkerState
  <2> HIDE DEF k
  <2> QED BY <1>0, <2>1, <2>2 DEF Moves
<1>9. CASE DecodeFails(w) \/ ExpandBatch(w)
  BY <1>5, <1>6, <1>9 DEF DecodeFails, ExpandBatch
<1>10. CASE ResumeBatch(w)
  BY <1>5, <1>10 DEF ResumeBatch
<1>11. CASE CheckChild(w) \/ RejectChild(w) \/ NormalizeChild(w)
  BY <1>4, <1>5, <1>11 DEF CheckChild, RejectChild, NormalizeChild
<1>12. CASE QuarantineAfter(w, "storeerr", "store_error")
  BY <1>4, <1>12 DEF QuarantineAfter
<1>13. CASE DeriveStatus(w)
  BY <1>5, <1>6, <1>13 DEF DeriveStatus
<1>14. CASE SetStatus(w)
  BY <1>3, <1>14 DEF SetStatus
<1>15. ~(EmitDirect(w) \/ UndoNormalized(w) \/ QuarantineAfter(w, "sinkerr", "sink_error"))
  BY <1>0 DEF NoDirectEmit, EmitDirect, UndoNormalized, QuarantineAfter
<1> QED BY <1>7, <1>8, <1>9, <1>10, <1>11, <1>12, <1>13, <1>14, <1>15 DEF ProcessRecord

\* The status a worker has just derived is true of the rows.
LEMMA DerivedTells ==
    ASSUME StatusInv, NEW w \in Worker, DeriveStatus(w) \/ DecodeFails(w) \/ ExpandBatch(w),
           wk'[w].pc = "setstatus", wk'[w].st \in Final
    PROVE  RowsTell(wk[w].raw, wk[w].st)'
<1>0. /\ wk \in [Worker -> WorkerState] /\ wk[w] \in WorkerState /\ TypeInv
      /\ wk[w].pc # "setstatus" /\ wk[w].st \notin Final /\ wk[w].pc \notin {"idle", "commit"}
  BY DEF StatusInv, LossInv, TypeInv, TypeOK, WorkersLossOK, LossOK, Final, DeriveStatus, DecodeFails, ExpandBatch
<1>1. ASSUME NEW STATE p, Become(w, [wk[w] EXCEPT !.pc = p])
      PROVE  FALSE
  <2>1. wk'[w] = [wk[w] EXCEPT !.pc = p]
    BY <1>0, <1>1 DEF Become
  <2> QED BY <1>0, <2>1 DEF WorkerState
<1>2. PICK r \in RawId : r = wk[w].raw /\ rawIn[r] = wk[w].in
  BY <1>0, WorkerFacts
<1>3. CASE DeriveStatus(w)
  <2>1. PICK s : s = OutcomeStatus(wk[w].raw, norm, quar)
    OBVIOUS
  <2>2. Become(w, [wk[w] EXCEPT !.pc = "setstatus", !.st = s]) /\ UNCHANGED <<norm, quar>>
    BY <1>1, <1>3, <2>1 DEF DeriveStatus, store
  <2>3. wk'[w] = [wk[w] EXCEPT !.pc = "setstatus", !.st = s]
    BY <1>0, <2>2 DEF Become
  <2>4. wk'[w].raw = r /\ wk'[w].st = s
    BY <1>0, <1>2, <2>3 DEF WorkerState
  <2>5. RowsTell(r, s)
    BY <1>0, <1>2, <2>1, OutcomeTells
  <2> QED BY <2>2, <2>4, <2>5 DEF RowsTell, RowsOf
<1>4. ASSUME NEW y, QuarantineChild(wk[w].raw, 0, y), \A c : <<r, c>> \notin norm,
             Become(w, [wk[w] EXCEPT !.pc = "setstatus", !.st = "quarantined"])
      PROVE  RowsTell(wk[w].raw, wk[w].st)'
  <2>1. wk'[w] = [wk[w] EXCEPT !.pc = "setstatus", !.st = "quarantined"]
    BY <1>0, <1>4 DEF Become
  <2>2. wk'[w].raw = r /\ wk'[w].st = "quarantined"
    BY <1>0, <1>2, <2>1 DEF WorkerState
  <2>3. norm' = norm /\ <<r, 0, y>> \in quar'
    BY <1>2, <1>4 DEF QuarantineChild
  <2>4. \A x \in norm : x[1] # r
    <3>1. norm \subseteq RawId \X Nat
      BY <1>0 DEF TypeInv, TypeOK, StoreTypeOK
    <3>2. \A x \in norm : x = <<x[1], x[2]>>
      BY <3>1
    <3> QED BY <1>4, <3>2
  <2>5. <<r, 0, y>>[1] = r
    OBVIOUS
  <2>6. RowsOf(quar, r)' # {} /\ RowsOf(norm, r)' = {}
    BY <2>3, <2>4, <2>5 DEF RowsOf
  <2> QED BY <2>2, <2>6 DEF RowsTell
<1>5. CASE DecodeFails(w)
  <2>1. \A c : <<r, c>> \notin norm
    BY <1>2, <1>5 DEF DecodeFails, StatusInv, OneInv, BrokenRowsOK
  <2> QED BY <1>1, <1>4, <1>5, <2>1 DEF DecodeFails, PersistQuarantine
<1>6. CASE ExpandBatch(w)
  <2>1. \A c \in Nat : <<r, c>> \notin norm
    BY <1>2, <1>6 DEF ExpandBatch, StatusInv, OneInv, WorkersCleanOK, CleanOK, HasCompletedChild
  <2>2. \A c : <<r, c>> \notin norm
    BY <1>0, <2>1 DEF TypeInv, TypeOK, StoreTypeOK
  <2> QED BY <1>1, <1>4, <1>6, <2>2 DEF ExpandBatch, PersistQuarantine
<1> QED BY <1>3, <1>5, <1>6

\* A record whose rows do not change keeps the status that tells of them.
LEMMA TellsStays ==
    ASSUME NEW r, NEW st, RowsTell(r, st), RowsOf(norm, r)' = RowsOf(norm, r), RowsOf(quar, r)' = RowsOf(quar, r)
    PROVE  RowsTell(r, st)'
BY DEF RowsTell

\* The commit of a new record, or of one that the spool repeats.
LEMMA StatusStore ==
    ASSUME StatusInv, NEW w \in Worker, StoreRecord(w)
    PROVE  (StatusOK /\ SettingOK /\ FirstOK)'
<1>0. /\ wk \in [Worker -> WorkerState] /\ wk[w] \in WorkerState /\ TypeInv
      /\ rawStatus \in [RawId -> RawStatus \cup {"absent"}] /\ StatusOK /\ SettingOK /\ FirstOK
  BY DEF StatusInv, LossInv, TypeInv, TypeOK, StoreTypeOK
<1>1. UNCHANGED <<norm, quar>>
  BY DEF StoreRecord, InsertRaw, Refuse, store
<1>2. \A r, st : RowsTell(r, st)' <=> RowsTell(r, st)
  BY <1>1 DEF RowsTell, RowsOf
<1>3. ASSUME NEW STATE k, Become(w, k), k.pc # "setstatus",
             k.pc \notin {"idle", "commit"} /\ ~k.recov => rawStatus'[k.raw] = "accepted",
             \A r \in RawId : rawStatus[r] # "absent" => rawStatus'[r] = rawStatus[r],
             \A r \in RawId : rawStatus'[r] \in Final => rawStatus'[r] = rawStatus[r]
      PROVE  (StatusOK /\ SettingOK /\ FirstOK)'
  <2>1. wk'[w] = k /\ \A v \in Worker : v # w => wk'[v] = wk[v]
    BY <1>0, <1>3 DEF Become
  <2>2. StatusOK'
    BY <1>0, <1>2, <1>3 DEF StatusOK
  <2>3. SettingOK'
    <3> SUFFICES ASSUME NEW v \in Worker, wk'[v].pc = "setstatus", wk'[v].st \in Final
                 PROVE  RowsTell(wk[v].raw, wk[v].st)'
      BY DEF SettingOK
    <3>1. v # w
      BY <1>3, <2>1
    <3>2. wk'[v] = wk[v]
      BY <2>1, <3>1
    <3>3. PICK r, st : r = wk[v].raw /\ st = wk[v].st
      OBVIOUS
    <3>4. RowsTell(r, st)
      BY <1>0, <3>2, <3>3 DEF SettingOK
    <3>5. RowsTell(r, st)'
      BY <1>2, <3>4
    <3> QED BY <3>2, <3>3, <3>5
  <2>4. FirstOK'
    <3> SUFFICES ASSUME NEW v \in Worker, wk'[v].pc \notin {"idle", "commit"}, ~wk'[v].recov
                 PROVE  rawStatus'[wk'[v].raw] = "accepted"
      BY DEF FirstOK
    <3>1. CASE v = w
      BY <1>3, <2>1, <3>1
    <3>2. CASE v # w
      <4>1. wk'[v] = wk[v]
        BY <2>1, <3>2
      <4>2. wk[v].raw \in RawId /\ rawStatus[wk[v].raw] = "accepted"
        BY <1>0, <4>1, WorkerFacts DEF FirstOK
      <4> QED BY <1>3, <4>1, <4>2
    <3> QED BY <3>1, <3>2
  <2> QED BY <2>2, <2>3, <2>4
<1>4. CASE Become(w, IdleWorker) /\ UNCHANGED store
  <2>1. IdleWorker.pc = "idle"
    BY DEF IdleWorker
  <2>2. rawStatus' = rawStatus
    BY <1>4 DEF store
  <2> QED BY <1>3, <1>4, <2>1, <2>2
<1>5. ASSUME NEW r \in RawId, FreshRaw(r), InsertRaw(r, wk[w].in), Become(w, [wk[w] EXCEPT !.pc = "decode", !.raw = r])
      PROVE  (StatusOK /\ SettingOK /\ FirstOK)'
  <2> DEFINE k == [wk[w] EXCEPT !.pc = "decode", !.raw = r]
  <2>1. k.pc = "decode" /\ k.raw = r /\ Become(w, k)
    BY <1>0, <1>5 DEF WorkerState
  <2> HIDE DEF k
  <2>2. rawStatus[r] = "absent" /\ rawStatus' = [rawStatus EXCEPT ![r] = "accepted"]
    BY <1>5 DEF FreshRaw, InsertRaw
  <2>3. rawStatus'[r] = "accepted" /\ \A s \in RawId : s # r => rawStatus'[s] = rawStatus[s]
    BY <1>0, <2>2
  <2>4. \A s \in RawId : rawStatus[s] # "absent" => rawStatus'[s] = rawStatus[s]
    BY <2>2, <2>3
  <2>5. \A s \in RawId : rawStatus'[s] \in Final => rawStatus'[s] = rawStatus[s]
    BY <2>3 DEF Final
  <2> QED BY <1>3, <2>1, <2>3, <2>4, <2>5
<1>6. ASSUME NEW r, Become(w, [wk[w] EXCEPT !.pc = "decode", !.raw = r, !.recov = TRUE]), UNCHANGED store
      PROVE  (StatusOK /\ SettingOK /\ FirstOK)'
  <2> DEFINE k == [wk[w] EXCEPT !.pc = "decode", !.raw = r, !.recov = TRUE]
  <2>1. k.pc = "decode" /\ k.recov /\ Become(w, k)
    BY <1>0, <1>6 DEF WorkerState
  <2> HIDE DEF k
  <2>2. rawStatus' = rawStatus
    BY <1>6 DEF store
  <2> QED BY <1>3, <2>1, <2>2
<1> QED BY <1>4, <1>5, <1>6 DEF StoreRecord, Refuse

\* The status of a record is written by its only worker.
LEMMA StatusSet ==
    ASSUME StatusInv, NEW w \in Worker, SetStatus(w)
    PROVE  (StatusOK /\ SettingOK /\ FirstOK)'
<1>0. /\ wk \in [Worker -> WorkerState] /\ TypeInv /\ wk[w].pc = "setstatus" /\ AloneOK
      /\ rawStatus \in [RawId -> RawStatus \cup {"absent"}] /\ StatusOK /\ SettingOK /\ FirstOK
  BY DEF StatusInv, LossInv, OneInv, TypeInv, TypeOK, StoreTypeOK, SetStatus
<1>1. UNCHANGED <<norm, quar>>
  BY DEF SetStatus, UpdateStatus, store
<1>2. \A r, st : RowsTell(r, st)' <=> RowsTell(r, st)
  BY <1>1 DEF RowsTell, RowsOf
<1>3. wk'[w].pc = "idle" /\ \A v \in Worker : v # w => wk'[v] = wk[v]
  <2>1. wk'[w] = IdleWorker /\ \A v \in Worker : v # w => wk'[v] = wk[v]
    BY <1>0 DEF SetStatus, Become
  <2> QED BY <2>1 DEF IdleWorker
<1>4. PICK r \in RawId, st \in RawStatus : r = wk[w].raw /\ st = wk[w].st
  BY <1>0, WorkerFacts DEF WorkerState
<1>5. /\ rawStatus'[r] = st \/ rawStatus' = rawStatus
      /\ \A s \in RawId : s # r => rawStatus'[s] = rawStatus[s]
  BY <1>0, <1>4 DEF SetStatus, UpdateStatus, store
<1>6. StatusOK'
  <2> SUFFICES ASSUME NEW s \in RawId, rawStatus'[s] \in Final
               PROVE  RowsTell(s, rawStatus[s])'
    BY DEF StatusOK
  <2>1. CASE rawStatus'[s] = rawStatus[s]
    <3>1. PICK x : x = rawStatus[s]
      OBVIOUS
    <3>2. RowsTell(s, x)
      BY <1>0, <2>1, <3>1 DEF StatusOK
    <3> QED BY <1>2, <2>1, <3>1, <3>2
  <2>2. CASE s = r /\ rawStatus'[s] = st
    <3>1. RowsTell(r, st)
      BY <1>0, <1>4, <2>2 DEF SettingOK
    <3>2. RowsTell(r, st)'
      BY <1>2, <3>1
    <3> QED BY <2>2, <3>2
  <2> QED BY <1>5, <2>1, <2>2
<1>7. SettingOK'
  <2> SUFFICES ASSUME NEW v \in Worker, wk'[v].pc = "setstatus", wk'[v].st \in Final
               PROVE  RowsTell(wk[v].raw, wk[v].st)'
    BY DEF SettingOK
  <2>1. wk'[v] = wk[v]
    BY <1>3
  <2>2. PICK s, x : s = wk[v].raw /\ x = wk[v].st
    OBVIOUS
  <2>3. RowsTell(s, x)
    BY <1>0, <2>1, <2>2 DEF SettingOK
  <2>4. RowsTell(s, x)'
    BY <1>2, <2>3
  <2> QED BY <2>1, <2>2, <2>4
<1>8. FirstOK'
  <2> SUFFICES ASSUME NEW v \in Worker, wk'[v].pc \notin {"idle", "commit"}, ~wk'[v].recov
               PROVE  rawStatus'[wk'[v].raw] = "accepted"
    BY DEF FirstOK
  <2>1. v # w /\ wk'[v] = wk[v]
    BY <1>3
  <2>2. wk[v].raw \in RawId /\ rawStatus[wk[v].raw] = "accepted"
    BY <1>0, <2>1, WorkerFacts DEF FirstOK
  <2>3. wk[v].raw # r
    BY <1>0, <1>4, <2>1, <2>2 DEF AloneOK, Handles
  <2> QED BY <1>5, <2>1, <2>2, <2>3
<1> QED BY <1>6, <1>7, <1>8

\* The other steps of a worker.
LEMMA StatusWork ==
    ASSUME StatusInv, NEW w \in Worker, ProcessRecord(w), ~StoreRecord(w), ~SetStatus(w)
    PROVE  (StatusOK /\ SettingOK /\ FirstOK)'
<1>0. TypeInv /\ AloneOK /\ NoDirectEmit /\ StatusOK /\ SettingOK /\ FirstOK /\ wk \in [Worker -> WorkerState]
  BY DEF StatusInv, LossInv, OneInv, TypeInv, TypeOK
<1>1. UNCHANGED rawStatus /\ wk[w].pc # "idle" /\ \A v \in Worker : v # w => wk'[v] = wk[v]
  <2>1. \A k : Become(w, k) => \A v \in Worker : v # w => wk'[v] = wk[v]
    BY <1>0 DEF Become
  <2>2. CASE RetrieveRecord(w)
    BY <2>1, <2>2 DEF RetrieveRecord, Refuse, store
  <2>3. CASE DecodeFails(w) \/ ExpandBatch(w) \/ ResumeBatch(w) \/ CaptureSnapshot(w)
    BY <2>1, <2>3 DEF DecodeFails, ExpandBatch, ResumeBatch, CaptureSnapshot, PersistQuarantine, QuarantineFails,
       QuarantineChild, store
  <2>4. CASE CheckChild(w) \/ RejectChild(w) \/ NormalizeChild(w)
    BY <2>1, <2>4 DEF CheckChild, RejectChild, NormalizeChild, PersistQuarantine, QuarantineFails, QuarantineChild,
       StoreNormalizedWithOutbox, store
  <2>5. CASE QuarantineAfter(w, "storeerr", "store_error")
    BY <2>1, <2>5 DEF QuarantineAfter, PersistQuarantine, QuarantineFails, QuarantineChild, store
  <2>6. CASE DeriveStatus(w)
    BY <2>1, <2>6 DEF DeriveStatus, store
  <2>7. ~(EmitDirect(w) \/ UndoNormalized(w) \/ QuarantineAfter(w, "sinkerr", "sink_error"))
    BY <1>0 DEF NoDirectEmit, EmitDirect, UndoNormalized, QuarantineAfter
  <2> QED BY <2>2, <2>3, <2>4, <2>5, <2>6, <2>7 DEF ProcessRecord
<1>2. \A s : s # wk[w].raw \/ rawStatus[wk[w].raw] \in Final =>
          RowsOf(norm, s)' = RowsOf(norm, s) /\ RowsOf(quar, s)' = RowsOf(quar, s)
  <2>1. CASE UNCHANGED <<norm, quar>>
    BY <2>1 DEF RowsOf
  <2> QED BY <2>1, WorkerWrites
<1>3. StatusOK'
  <2> SUFFICES ASSUME NEW s \in RawId, rawStatus'[s] \in Final
               PROVE  RowsTell(s, rawStatus[s])'
    BY DEF StatusOK
  <2>1. PICK x : x = rawStatus[s] /\ rawStatus'[s] = x
    BY <1>1
  <2>2. RowsTell(s, x)
    BY <1>0, <2>1 DEF StatusOK
  <2>3. RowsOf(norm, s)' = RowsOf(norm, s) /\ RowsOf(quar, s)' = RowsOf(quar, s)
    BY <1>2, <2>1
  <2>4. RowsTell(s, x)'
    BY <2>2, <2>3, TellsStays
  <2> QED BY <2>1, <2>4
<1>4. SettingOK'
  <2> SUFFICES ASSUME NEW v \in Worker, wk'[v].pc = "setstatus", wk'[v].st \in Final
               PROVE  RowsTell(wk[v].raw, wk[v].st)'
    BY DEF SettingOK
  <2>1. CASE v = w
    BY <2>1, SettingMoves, DerivedTells DEF Final
  <2>2. CASE v # w
    <3>1. wk'[v] = wk[v]
      BY <1>1, <2>2
    <3>2. wk[v].raw \in RawId
      BY <1>0, <3>1, WorkerFacts
    <3>3. PICK s \in RawId : s = wk[v].raw
      BY <3>2
    <3>4. PICK x : x = wk[v].st
      OBVIOUS
    <3>5. s # wk[w].raw
      BY <1>0, <1>1, <2>2, <3>1, <3>3 DEF AloneOK, Handles
    <3>6. RowsTell(s, x)
      BY <1>0, <3>1, <3>3, <3>4 DEF SettingOK
    <3>7. RowsTell(s, x)'
      BY <1>2, <3>5, <3>6, TellsStays
    <3> QED BY <3>1, <3>3, <3>4, <3>7
  <2> QED BY <2>1, <2>2
<1>5. FirstOK'
  <2> SUFFICES ASSUME NEW v \in Worker, wk'[v].pc \notin {"idle", "commit"}, ~wk'[v].recov
               PROVE  rawStatus'[wk'[v].raw] = "accepted"
    BY DEF FirstOK
  <2>1. CASE v = w
    <3>1. wk[w].pc \notin {"idle", "commit"} /\ wk'[w].raw = wk[w].raw /\ wk'[w].recov = wk[w].recov
      BY <2>1, SettingMoves
    <3> QED BY <1>0, <1>1, <2>1, <3>1 DEF FirstOK
  <2>2. CASE v # w
    BY <1>0, <1>1, <2>2 DEF FirstOK
  <2> QED BY <2>1, <2>2
<1> QED BY <1>3, <1>4, <1>5

\* Steps that leave the workers, the statuses and the outcomes alone.
LEMMA StatusOutside ==
    ASSUME StatusOK /\ SettingOK /\ FirstOK, UNCHANGED <<wk, rawStatus, norm, quar>>
    PROVE  (StatusOK /\ SettingOK /\ FirstOK)'
BY DEF StatusOK, SettingOK, FirstOK, RowsTell, RowsOf

LEMMA StatusNext ==
    ASSUME Durable, OneHandler, Replayer = {}
    PROVE  StatusInv /\ [Next]_vars => StatusInv'
<1> SUFFICES ASSUME StatusInv, [Next]_vars PROVE StatusInv'
  OBVIOUS
<1>0. LossInv' /\ OneInv'
  <2>1. SafeReplay
    BY DEF SafeReplay
  <2> QED BY <2>1, LossNext, OneNext DEF StatusInv
<1> SUFFICES (StatusOK /\ SettingOK /\ FirstOK)'
  BY <1>0 DEF StatusInv
<1>1. CASE \E w \in Worker : ProcessRecord(w)
  BY <1>1, StatusStore, StatusSet, StatusWork
<1>2. CASE \E w \in Worker : Take(w)
  <2> PICK w \in Worker : Take(w)
    BY <1>2
  <2>1. UNCHANGED <<rawStatus, norm, quar>>
    BY DEF Take, store
  <2>2. wk'[w].pc = "commit" /\ \A v \in Worker : v # w => wk'[v] = wk[v]
    <3>1. wk \in [Worker -> WorkerState]
      BY DEF StatusInv, LossInv, TypeInv, TypeOK
    <3>2. /\ wk'[w] = [IdleWorker EXCEPT !.pc = "commit", !.raw = Head(inbound).raw, !.in = Head(inbound).in]
          /\ \A v \in Worker : v # w => wk'[v] = wk[v]
      BY <3>1 DEF Take, Become
    <3> QED BY <3>2 DEF IdleWorker
  <2>3. StatusOK'
    BY <2>1 DEF StatusInv, StatusOK, RowsTell, RowsOf
  <2>4. SettingOK'
    BY <2>1, <2>2 DEF StatusInv, SettingOK, RowsTell, RowsOf
  <2>5. FirstOK'
    BY <2>1, <2>2 DEF StatusInv, FirstOK
  <2> QED BY <2>3, <2>4, <2>5
<1>3. CASE Crash
  <2>1. \A w \in Worker : wk'[w].pc = "idle"
    BY <1>3 DEF Crash, IdleWorker
  <2>2. UNCHANGED <<rawStatus, norm, quar>>
    BY <1>3 DEF Crash, store
  <2>3. StatusOK'
    BY <2>2 DEF StatusInv, StatusOK, RowsTell, RowsOf
  <2> QED BY <2>1, <2>3 DEF SettingOK, FirstOK
<1>4. CASE UNCHANGED <<wk, rawStatus, norm, quar>>
  BY <1>4, StatusOutside DEF StatusInv
<1>5. CASE \/ \E i \in Input : Submit(i)
           \/ FetchPending \/ AckDelivery
           \/ \E row \in batch : EmitTo(row) \/ EmitToFails(row)
           \/ \E S \in SUBSET Dest : Reconfigure(S)
           \/ \E s \in Snapshot : ActivatePack(s)
           \/ FinishStartup
           \/ \E r \in toRecover : Recover(r)
  BY <1>4, <1>5 DEF Submit, FetchPending, AckDelivery, MarkDelivered, EmitTo, EmitToFails, MarkFailed, Reconfigure,
     ActivatePack, FinishStartup, Recover, store
<1>6. CASE UNCHANGED vars
  BY <1>4, <1>6 DEF vars, volatile, store
<1> QED BY <1>1, <1>2, <1>3, <1>5, <1>6 DEF Next

\* At rest, and in fact always, a final status tells what became of the
\* children: whatever the store errors, the crashes and the redeliveries,
\* when no replay runs and no two workers can hold one raw record.
THEOREM StatusMatchesHolds ==
    ASSUME Durable, OneHandler, Replayer = {}
    PROVE  Spec => []StatusMatchesOutcomes
<1>1. Init => StatusInv
  <2> SUFFICES ASSUME Init PROVE StatusInv
    OBVIOUS
  <2>1. StatusOK
    BY DEF Init, StoreInit, StatusOK, Final
  <2>2. SettingOK /\ FirstOK
    BY DEF Init, IdleWorker, SettingOK, FirstOK
  <2> QED BY <2>1, <2>2, LossInit, OneInit DEF StatusInv
<1>2. StatusInv => StatusMatchesOutcomes
  BY DEF StatusInv, StatusOK, RowsTell, StatusMatchesOutcomes
<1> QED BY StatusNext, <1>1, <1>2, PTL DEF Spec

-----------------------------------------------------------------------------
(* The accounting of VerifyInvariant.  With named destinations the counter *)
(* of a step changes with the row it writes, and the row is new, so the    *)
(* balance holds between any two steps.  An undecodable record is the      *)
(* exception: recovery quarantines it again and counts it again.           *)

Balanced == accepted = Cardinality(norm) + Cardinality(quar) + pending

BalanceInv == OneInv /\ NoDirectEmit /\ Balanced

LEMMA BalanceTypes ==
    ASSUME TypeInv
    PROVE  /\ IsFiniteSet(norm) /\ IsFiniteSet(quar) /\ Cardinality(norm) \in Nat /\ Cardinality(quar) \in Nat
           /\ accepted \in Int /\ pending \in Int
BY FS_CardinalityType DEF TypeInv, TypeOK, Finite

\* Both counters move together and no row is written.
LEMMA BalanceTogether ==
    ASSUME TypeInv, Balanced, NEW STATE d, d \in Int, Count(d, d), UNCHANGED <<norm, quar>>
    PROVE  Balanced'
<1>1. accepted' = accepted + d /\ pending' = pending + d
  BY DEF Count
<1> QED BY <1>1, BalanceTypes DEF Balanced

\* One new row, one pending child less.
LEMMA BalanceQuarantine ==
    ASSUME TypeInv, Balanced, NEW r, NEW c, NEW y, QuarantineChild(r, c, y), Count(0, -1), ~HasCompletedChild(r, c)
    PROVE  Balanced'
<1>1. accepted' = accepted /\ pending' = pending - 1
  BY BalanceTypes DEF Count
<1>2. norm' = norm /\ quar' = quar \cup {<<r, c, y>>}
  BY DEF QuarantineChild
<1>3. <<r, c, y>> \notin quar
  BY DEF HasCompletedChild
<1>4. Cardinality(quar') = Cardinality(quar) + 1
  BY <1>2, <1>3, BalanceTypes, FS_AddElement
<1> QED BY <1>1, <1>2, <1>4, BalanceTypes DEF Balanced

LEMMA BalanceNormalize ==
    ASSUME TypeInv, Balanced, NEW r, NEW c, NEW D, StoreNormalizedWithOutbox(r, c, D), Count(0, -1),
           ~HasCompletedChild(r, c)
    PROVE  Balanced'
<1>1. accepted' = accepted /\ pending' = pending - 1
  BY BalanceTypes DEF Count
<1>2. norm' = norm \cup {<<r, c>>} /\ quar' = quar
  BY DEF StoreNormalizedWithOutbox
<1>3. <<r, c>> \notin norm
  BY DEF HasCompletedChild
<1>4. Cardinality(norm') = Cardinality(norm) + 1
  BY <1>2, <1>3, BalanceTypes, FS_AddElement
<1> QED BY <1>1, <1>2, <1>4, BalanceTypes DEF Balanced

\* A replay moves one row from quarantine to normalized_events.
LEMMA BalanceResolve ==
    ASSUME TypeInv, Balanced, OneOutcomePerChild, NEW q, NEW D, ResolveQuarantineWithOutbox(q, D), UNCHANGED counts
    PROVE  Balanced'
<1>1. q \in quar /\ norm' = norm \cup {<<q[1], q[2]>>} /\ quar' = quar \ {q} /\ UNCHANGED <<accepted, pending>>
  BY DEF ResolveQuarantineWithOutbox, counts
<1>2. <<q[1], q[2]>> \notin norm
  BY <1>1 DEF OneOutcomePerChild
<1>3. Cardinality(norm') = Cardinality(norm) + 1
  BY <1>1, <1>2, BalanceTypes, FS_AddElement
<1>4. Cardinality(quar') = Cardinality(quar) - 1
  BY <1>1, BalanceTypes, FS_RemoveElement
<1> QED BY <1>1, <1>3, <1>4, BalanceTypes DEF Balanced

LEMMA BalanceWorker ==
    ASSUME Durable, Broken = {}, BalanceInv, NEW w \in Worker, ProcessRecord(w)
    PROVE  Balanced'
<1>0. TypeInv /\ NoDirectEmit /\ CleanOK(wk[w]) /\ Balanced
  BY DEF BalanceInv, OneInv, WorkersCleanOK
<1>1. ASSUME UNCHANGED <<norm, quar, accepted, pending>>
      PROVE  Balanced'
  BY <1>0, <1>1 DEF Balanced
<1>2. ASSUME Refuse(w) PROVE Balanced'
  <2>1. -1 \in Int /\ Count(-1, -1) /\ UNCHANGED <<norm, quar>>
    BY <1>2 DEF Refuse, store
  <2> QED BY <1>0, <2>1, BalanceTogether
<1>3. ASSUME wk[w].pc \in {"process", "storeerr"}
      PROVE  ~HasCompletedChild(wk[w].raw, wk[w].next)
  BY <1>0, <1>3 DEF CleanOK
<1>4. ASSUME NEW STATE c, NEW STATE y, PersistQuarantine(wk[w].raw, c, y), ~HasCompletedChild(wk[w].raw, c)
      PROVE  Balanced'
  <2>1. PICK r, d, z : r = wk[w].raw /\ d = c /\ z = y
    OBVIOUS
  <2>2. QuarantineChild(r, d, z) /\ Count(0, -1) /\ ~HasCompletedChild(r, d)
    BY <1>4, <2>1 DEF PersistQuarantine
  <2> QED BY <1>0, <2>2, BalanceQuarantine
<1>5. CASE StoreRecord(w)
  BY <1>1, <1>2, <1>5 DEF StoreRecord, InsertRaw, store, counts
<1>6. CASE RetrieveRecord(w)
  BY <1>1, <1>2, <1>6 DEF RetrieveRecord, store, counts
<1>7. ~DecodeFails(w)
  BY DEF DecodeFails
<1>8. CASE ExpandBatch(w)
  <2>1. wk[w].pc = "decode" /\ ~wk[w].recov
    BY <1>8 DEF ExpandBatch
  <2>2. Kids[wk[w].in] \in Nat
    BY <1>0, <2>1, WorkerFacts
  <2>3. ~HasCompletedChild(wk[w].raw, 0)
    BY <1>0, <2>1 DEF CleanOK
  <2>4. CASE QuarantineFails
    BY <1>1, <2>4 DEF QuarantineFails, store, counts
  <2>5. CASE PersistQuarantine(wk[w].raw, 0, "empty_payload")
    BY <1>4, <2>3, <2>5
  <2>6. CASE Count(Kids[wk[w].in] - 1, Kids[wk[w].in] - 1) /\ UNCHANGED store
    <3>1. Kids[wk[w].in] - 1 \in Int /\ UNCHANGED <<norm, quar>>
      BY <2>2, <2>6 DEF store
    <3> QED BY <1>0, <2>6, <3>1, BalanceTogether
  <2> QED BY <1>8, <2>4, <2>5, <2>6 DEF ExpandBatch
<1>9. CASE ResumeBatch(w)
  <2> DEFINE delta == Kids[wk[w].in] - CountCompletedChildren(wk[w].raw) - 1
  <2>1. wk[w].pc = "decode" /\ UNCHANGED <<norm, quar>>
    BY <1>9 DEF ResumeBatch, store
  <2>2. Kids[wk[w].in] \in Nat
    BY <1>0, <2>1, WorkerFacts
  <2>3. CountCompletedChildren(wk[w].raw) \in Nat
    <3>1. RowsOf(norm, wk[w].raw) \subseteq norm /\ RowsOf(quar, wk[w].raw) \subseteq quar
      BY DEF RowsOf
    <3>2. IsFiniteSet(RowsOf(norm, wk[w].raw)) /\ IsFiniteSet(RowsOf(quar, wk[w].raw))
      BY <1>0, <3>1, BalanceTypes, FS_Subset
    <3>3. Cardinality(RowsOf(norm, wk[w].raw)) \in Nat /\ Cardinality(RowsOf(quar, wk[w].raw)) \in Nat
      BY <3>2, FS_CardinalityType
    <3> QED BY <3>3 DEF CountCompletedChildren
  <2>4. delta \in Int
    BY <2>2, <2>3
  <2>5. Count(delta, delta) \/ UNCHANGED <<accepted, pending>>
    BY <1>9 DEF ResumeBatch, counts
  <2> HIDE DEF delta
  <2> QED BY <1>0, <1>1, <2>1, <2>4, <2>5, BalanceTogether
<1>10. CASE CaptureSnapshot(w) \/ CheckChild(w) \/ DeriveStatus(w) \/ SetStatus(w)
  BY <1>1, <1>10 DEF CaptureSnapshot, CheckChild, DeriveStatus, SetStatus, UpdateStatus, store, counts
<1>11. CASE RejectChild(w)
  <2>1. wk[w].pc = "process"
    BY <1>11 DEF RejectChild
  <2>2. CASE QuarantineFails
    BY <1>1, <2>2 DEF QuarantineFails, store, counts
  <2> QED BY <1>3, <1>4, <1>11, <2>1, <2>2 DEF RejectChild
<1>12. CASE QuarantineAfter(w, "storeerr", "store_error")
  <2>1. wk[w].pc = "storeerr"
    BY <1>12 DEF QuarantineAfter
  <2>2. CASE QuarantineFails
    BY <1>1, <2>2 DEF QuarantineFails, store, counts
  <2> QED BY <1>3, <1>4, <1>12, <2>1, <2>2 DEF QuarantineAfter
<1>13. CASE NormalizeChild(w)
  <2>1. wk[w].pc = "process"
    BY <1>13 DEF NormalizeChild
  <2>2. CASE UNCHANGED <<store, counts>>
    BY <1>1, <2>2 DEF store, counts
  <2>3. ASSUME NEW D, StoreNormalizedWithOutbox(wk[w].raw, wk[w].next, D), Count(0, -1)
        PROVE  Balanced'
    <3>1. PICK r, c : r = wk[w].raw /\ c = wk[w].next
      OBVIOUS
    <3>2. StoreNormalizedWithOutbox(r, c, D) /\ ~HasCompletedChild(r, c)
      BY <1>3, <2>1, <2>3, <3>1
    <3> QED BY <1>0, <2>3, <3>2, BalanceNormalize
  <2> QED BY <1>13, <2>2, <2>3 DEF NormalizeChild
<1>14. ~(EmitDirect(w) \/ UndoNormalized(w) \/ QuarantineAfter(w, "sinkerr", "sink_error"))
  BY <1>0 DEF NoDirectEmit, EmitDirect, UndoNormalized, QuarantineAfter
<1> QED BY <1>5, <1>6, <1>7, <1>8, <1>9, <1>10, <1>11, <1>12, <1>13, <1>14 DEF ProcessRecord

LEMMA BalanceNext ==
    ASSUME Durable, OneHandler, Broken = {}
    PROVE  BalanceInv /\ [Next]_vars => BalanceInv'
<1> SUFFICES ASSUME BalanceInv, [Next]_vars PROVE BalanceInv'
  OBVIOUS
<1>0. OneInv' /\ NoDirectEmit' /\ TypeInv /\ Balanced /\ OneOutcomePerChild
  BY OneNext, NoDirectEmitStep DEF BalanceInv, OneInv
<1> SUFFICES Balanced'
  BY <1>0 DEF BalanceInv
<1>1. CASE \E w \in Worker : ProcessRecord(w)
  BY <1>1, BalanceWorker
<1>2. CASE \E p \in Replayer : ReplayCommit(p)
  <2> PICK p \in Replayer : ReplayCommit(p)
    BY <1>2
  <2>1. UNCHANGED counts
    BY DEF ReplayCommit
  <2>2. CASE UNCHANGED store
    BY <1>0, <2>1, <2>2 DEF Balanced, store, counts
  <2>3. ASSUME NEW D, ResolveQuarantineWithOutbox(rp[p].q, D)
        PROVE  Balanced'
    <3>1. PICK q : q = rp[p].q
      OBVIOUS
    <3> QED BY <1>0, <2>1, <2>3, <3>1, BalanceResolve
  <2> QED BY <2>2, <2>3 DEF ReplayCommit
<1>3. CASE \E i \in Input : Submit(i)
  <2>1. Count(1, 1) /\ UNCHANGED <<norm, quar>> /\ 1 \in Int
    BY <1>3 DEF Submit, store
  <2> QED BY <1>0, <2>1, BalanceTogether
<1>4. CASE Crash
  BY <1>4 DEF Crash, Balanced, store
<1>5. CASE UNCHANGED <<norm, quar, accepted, pending>>
  BY <1>0, <1>5 DEF Balanced
<1>6. CASE \/ \E w \in Worker : Take(w)
           \/ \E p \in Replayer : \E q \in quar : ReplayStart(p, q)
           \/ FetchPending \/ AckDelivery
           \/ \E row \in batch : EmitTo(row) \/ EmitToFails(row)
           \/ \E S \in SUBSET Dest : Reconfigure(S)
           \/ \E s \in Snapshot : ActivatePack(s)
           \/ FinishStartup
           \/ \E r \in toRecover : Recover(r)
  BY <1>5, <1>6 DEF Take, ReplayStart, FetchPending, AckDelivery, MarkDelivered, EmitTo, EmitToFails, MarkFailed,
     Reconfigure, ActivatePack, FinishStartup, Recover, store, counts
<1>7. CASE UNCHANGED vars
  BY <1>5, <1>7 DEF vars, volatile, store
<1> QED BY <1>1, <1>2, <1>3, <1>4, <1>6, <1>7 DEF Next

\* accepted = normalized + quarantined + pending, at rest and in fact between
\* any two steps, whatever the store errors, the crashes, the redeliveries
\* and the replays: when no two workers can hold one raw record and every
\* payload can be decoded.
THEOREM AccountingHolds ==
    ASSUME Durable, OneHandler, Broken = {}
    PROVE  Spec => []AccountingBalanced
<1>1. Init => BalanceInv
  <2> SUFFICES ASSUME Init PROVE BalanceInv
    OBVIOUS
  <2>1. norm = {} /\ quar = {} /\ accepted = 0 /\ pending = 0
    BY DEF Init, StoreInit
  <2>2. Cardinality({}) = 0
    BY FS_EmptySet
  <2>3. Balanced
    BY <2>1, <2>2 DEF Balanced
  <2>4. NoDirectEmit
    BY DEF Init, IdleWorker, NoDirectEmit
  <2> QED BY <2>3, <2>4, OneInit DEF BalanceInv
<1>2. BalanceInv => AccountingBalanced
  BY DEF BalanceInv, Balanced, AccountingBalanced
<1> QED BY BalanceNext, <1>1, <1>2, PTL DEF Spec

-----------------------------------------------------------------------------
(* What the pending counter counts.  Without redelivery and replay each    *)
(* unit of it stands for a record in the queue or at its commit, for a row *)
(* that waits as a whole, or for a child without outcome of a row whose    *)
(* children are counted: so what is left of it at rest belongs to accepted *)
(* rows.  A resumed payload of no records would keep its unit for good, so *)
(* every decodable payload holds a record.                                 *)

\* The rows W count once each, the rows E by their children without outcome.
\* Each record in flight is where its phase has put it.
WorkerPlace(k, W, E) ==
    /\ k.pc = "commit" /\ k.raw # NoRaw => rawStatus[k.raw] = "accepted" /\ k.raw \notin W \cup E
    /\ k.pc = "decode" => k.raw \in W
    /\ k.pc \in {"capture", "check", "process", "storeerr", "count"} => k.raw \in E
    /\ k.pc = "setstatus" /\ k.st \in Final => k.raw \notin W

Places(W, E) ==
    /\ W \subseteq RawId /\ E \subseteq RawId /\ W \cap E = {}
    /\ \A r \in W : rawStatus[r] = "accepted"
    /\ \A r \in E : rawStatus[r] # "absent" /\ rawIn[r] \notin Broken
    /\ toRecover \subseteq W
    /\ \A n \in 1 .. Len(inbound) : inbound[n].raw # NoRaw =>
          rawStatus[inbound[n].raw] = "accepted" /\ inbound[n].raw \notin W \cup E
    /\ \A w \in Worker : WorkerPlace(wk[w], W, E)

Committing == {w \in Worker : wk[w].pc = "commit"}

\* The children of rows E that have no outcome.
Units(E) == {x \in E \X Nat : x[2] < Kids[rawIn[x[1]]] /\ ~HasCompletedChild(x[1], x[2])}

Owed(W, E) ==
    /\ Places(W, E)
    /\ IsFiniteSet(Committing) /\ IsFiniteSet(Units(E))
    /\ pending = Len(inbound) + Cardinality(Committing) + Cardinality(W) + Cardinality(Units(E))

\* A row of a decodable record belongs to one of its children.
ChildRowsOK ==
    /\ \A x \in norm : rawIn[x[1]] \notin Broken => x[2] < Kids[rawIn[x[1]]]
    /\ \A x \in quar : rawIn[x[1]] \notin Broken => x[2] < Kids[rawIn[x[1]]]

PendingInv == LossInv /\ OneInv /\ ChildRowsOK /\ \E W, E : Owed(W, E)

\* Decoding a payload without an error yields at least one record.
NoEmptyPayload == \A i \in Input \ Broken : Kids[i] > 0

\* Record r is with worker w, or on its way to it, and nowhere else.
Apart(w, r) ==
    /\ r \notin toRecover
    /\ \A n \in 1 .. Len(inbound) : inbound[n].raw # r
    /\ \A v \in Worker : v # w => ~Handles(v, r)

LEMMA HandledIsApart ==
    ASSUME NoRedelivery, AloneOK, NEW w \in Worker, NEW r \in RawId, Handles(w, r)
    PROVE  Apart(w, r)
BY DEF AloneOK, Apart

\* A step of worker w that moves at most its record r.
LEMMA PlacesStep ==
    ASSUME TypeInv, NEW w \in Worker, NEW r, NEW W, NEW E, NEW V, NEW F, Places(W, E),
           V \subseteq RawId, F \subseteq RawId, V \cap F = {},
           UNCHANGED <<inbound, toRecover>>, \A v \in Worker : v # w => wk'[v] = wk[v],
           r \in RawId => Apart(w, r),
           \A s : s # r => (s \in V <=> s \in W) /\ (s \in F <=> s \in E),
           \A s \in RawId : s # r => rawStatus'[s] = rawStatus[s] /\ rawIn'[s] = rawIn[s],
           r \in V => rawStatus'[r] = "accepted",
           r \in F => rawStatus'[r] # "absent" /\ rawIn'[r] \notin Broken,
           WorkerPlace(wk[w], V, F)'
    PROVE  Places(V, F)'
<1>0. /\ toRecover \subseteq RawId /\ W \subseteq RawId /\ E \subseteq RawId
      /\ inbound \in Seq(Record) /\ wk \in [Worker -> WorkerState]
  BY DEF TypeInv, TypeOK, Places
<1>1. \A s \in V : rawStatus'[s] = "accepted"
  BY DEF Places
<1>2. \A s \in F : rawStatus'[s] # "absent" /\ rawIn'[s] \notin Broken
  BY DEF Places
<1>3. toRecover' \subseteq V
  BY <1>0 DEF Places, Apart
<1>4. ASSUME NEW n \in 1 .. Len(inbound'), inbound'[n].raw # NoRaw
      PROVE  rawStatus'[inbound'[n].raw] = "accepted" /\ inbound'[n].raw \notin V \cup F
  <2>1. PICK s : s = inbound[n].raw
    OBVIOUS
  <2>2. s \in RawId /\ rawStatus[s] = "accepted" /\ s \notin W \cup E
    <3>1. inbound[n] \in Record
      BY <1>0, <1>4
    <3> QED BY <1>4, <2>1, <3>1 DEF Places, Record
  <2>3. s # r
    BY <1>4, <2>1, <2>2 DEF Apart
  <2> QED BY <2>1, <2>2, <2>3
<1>5. ASSUME NEW v \in Worker
      PROVE  WorkerPlace(wk[v], V, F)'
  <2>1. CASE v = w
    BY <2>1
  <2>2. CASE v # w
    <3>1. wk'[v] = wk[v] /\ wk[v] \in WorkerState /\ WorkerPlace(wk[v], W, E)
      BY <1>0, <2>2 DEF Places
    <3>2. PICK s : s = wk[v].raw
      OBVIOUS
    <3>3. CASE wk[v].pc = "idle" \/ s \notin RawId
      <4>1. wk[v].pc \in {"idle", "commit"}
        BY <3>2, <3>3, WorkerFacts
      <4>2. wk[v].pc = "commit" => s = NoRaw
        BY <3>1, <3>2, <3>3 DEF WorkerState
      <4> QED BY <3>1, <3>2, <4>1, <4>2 DEF WorkerPlace
    <3>4. CASE wk[v].pc # "idle" /\ s \in RawId
      <4>1. s # r
        BY <2>2, <3>2, <3>4 DEF Apart, Handles
      <4>2. rawStatus'[s] = rawStatus[s] /\ (s \in V <=> s \in W) /\ (s \in F <=> s \in E)
        BY <3>4, <4>1
      <4> QED BY <3>1, <3>2, <4>2 DEF WorkerPlace
    <3> QED BY <3>3, <3>4
  <2> QED BY <2>1, <2>2
<1> QED BY <1>1, <1>2, <1>3, <1>4, <1>5 DEF Places

\* The workers at a commit.
LEMMA CommittingStep ==
    ASSUME NEW w \in Worker, \A v \in Worker : v # w => wk'[v] = wk[v], IsFiniteSet(Committing)
    PROVE  /\ IsFiniteSet(Committing')
           /\ wk[w].pc # "commit" /\ wk'[w].pc # "commit" => Committing' = Committing
           /\ wk[w].pc = "commit" /\ wk'[w].pc # "commit" => Cardinality(Committing') = Cardinality(Committing) - 1
           /\ wk[w].pc # "commit" /\ wk'[w].pc = "commit" => Cardinality(Committing') = Cardinality(Committing) + 1
<1>1. CASE (wk[w].pc = "commit") = (wk'[w].pc = "commit")
  <2>1. Committing' = Committing
    BY <1>1 DEF Committing
  <2> QED BY <1>1, <2>1
<1>2. CASE wk[w].pc = "commit" /\ wk'[w].pc # "commit"
  <2>1. Committing' = Committing \ {w} /\ w \in Committing
    BY <1>2 DEF Committing
  <2> QED BY <1>2, <2>1, FS_RemoveElement
<1>3. CASE wk[w].pc # "commit" /\ wk'[w].pc = "commit"
  <2>1. Committing' = Committing \cup {w} /\ w \notin Committing
    BY <1>3 DEF Committing
  <2> QED BY <1>3, <2>1, FS_AddElement
<1> QED BY <1>1, <1>2, <1>3

\* The children that are owed do not change while no row is written.
LEMMA UnitsSame ==
    ASSUME NEW E, \A r \in E : rawIn'[r] = rawIn[r], UNCHANGED <<norm, quar>>
    PROVE  Units(E)' = Units(E)
BY DEF Units, HasCompletedChild

\* An outcome for child c of record r.
LEMMA UnitsWritten ==
    ASSUME NEW E, NEW r \in E, NEW c \in Nat, NEW y, UNCHANGED rawIn,
           \/ norm' = norm \cup {<<r, c>>} /\ quar' = quar
           \/ norm' = norm /\ quar' = quar \cup {<<r, c, y>>}
    PROVE  Units(E)' = Units(E) \ {<<r, c>>}
<1>1. HasCompletedChild(r, c)'
  <2>1. CASE norm' = norm \cup {<<r, c>>}
    BY <2>1 DEF HasCompletedChild
  <2>2. CASE quar' = quar \cup {<<r, c, y>>}
    <3>1. <<r, c, y>>[1] = r /\ <<r, c, y>>[2] = c /\ <<r, c, y>> \in quar'
      BY <2>2
    <3> QED BY <3>1 DEF HasCompletedChild
  <2> QED BY <2>1, <2>2
<1>2. ASSUME NEW s, NEW d, s # r \/ d # c
      PROVE  HasCompletedChild(s, d)' <=> HasCompletedChild(s, d)
  <2>1. norm' \subseteq norm \cup {<<r, c>>} /\ quar' \subseteq quar \cup {<<r, c, y>>}
    OBVIOUS
  <2>2. HasCompletedChild(s, d)' => HasCompletedChild(s, d)
    BY <1>2, <2>1, WriteSpares
  <2>3. norm \subseteq norm' /\ quar \subseteq quar'
    OBVIOUS
  <2> QED BY <2>2, <2>3 DEF HasCompletedChild
<1>3. \A x \in E \X Nat : x = <<x[1], x[2]>> /\ x[1] \in E /\ x[2] \in Nat
  OBVIOUS
<1>4. ASSUME NEW x \in E \X Nat
      PROVE  x \in Units(E)' <=> x \in Units(E) \ {<<r, c>>}
  <2>1. CASE x = <<r, c>>
    BY <1>1, <2>1 DEF Units
  <2>2. CASE x # <<r, c>>
    <3>1. x[1] # r \/ x[2] # c
      BY <1>3, <2>2
    <3>2. HasCompletedChild(x[1], x[2])' <=> HasCompletedChild(x[1], x[2])
      BY <1>2, <3>1
    <3> QED BY <2>2, <3>2 DEF Units
  <2> QED BY <2>1, <2>2
<1>5. Units(E) \subseteq E \X Nat /\ Units(E)' \subseteq E \X Nat
  BY DEF Units
<1> QED BY <1>4, <1>5

\* The children of one more record: as many as have no outcome yet.
LEMMA UnitsAdded ==
    ASSUME TypeInv, NormRowsOK, OneOutcomePerChild, ChildRowsOK, NEW E, IsFiniteSet(Units(E)),
           NEW r \in RawId, r \notin E, rawStatus[r] # "absent", rawIn[r] \notin Broken
    PROVE  /\ IsFiniteSet(Units(E \cup {r})) /\ Kids[rawIn[r]] \in Nat /\ CountCompletedChildren(r) \in Nat
           /\ Cardinality(Units(E \cup {r}))
                 = Cardinality(Units(E)) + Kids[rawIn[r]] - CountCompletedChildren(r)
<1>1. PICK n \in Nat : n = Kids[rawIn[r]]
  <2>1. rawIn[r] \in Input
    BY DEF TypeInv, TypeOK, StoreTypeOK
  <2> QED BY <2>1, StoreAssumption
<1>2. PICK N, Q : N = RowsOf(norm, r) /\ Q = RowsOf(quar, r)
  OBVIOUS
<1>3. /\ \A x \in N : x \in norm /\ x[1] = r /\ x[2] \in Nat /\ x[2] < n /\ x = <<r, x[2]>>
      /\ \A x \in Q : x \in quar /\ x[1] = r /\ x[2] \in Nat /\ x[2] < n /\ x = <<r, x[2], x[3]>>
  <2>1. ASSUME NEW x \in N PROVE x \in norm /\ x[1] = r /\ x[2] \in Nat /\ x[2] < n /\ x = <<r, x[2]>>
    <3>1. x \in norm /\ x[1] = r
      BY <1>2 DEF RowsOf
    <3>2. x \in RawId \X Nat
      BY <3>1, RowsTyped
    <3> QED BY <1>1, <3>1, <3>2 DEF ChildRowsOK
  <2>2. ASSUME NEW x \in Q PROVE x \in quar /\ x[1] = r /\ x[2] \in Nat /\ x[2] < n /\ x = <<r, x[2], x[3]>>
    <3>1. x \in quar /\ x[1] = r
      BY <1>2 DEF RowsOf
    <3>2. x \in RawId \X Nat \X Why
      BY <3>1, RowsTyped
    <3> QED BY <1>1, <3>1, <3>2 DEF ChildRowsOK
  <2> QED BY <2>1, <2>2
<1>4. IsFiniteSet(N) /\ IsFiniteSet(Q) /\ Cardinality(N) \in Nat /\ Cardinality(Q) \in Nat
  <2>1. N \subseteq norm /\ Q \subseteq quar
    BY <1>3
  <2>2. IsFiniteSet(N) /\ IsFiniteSet(Q)
    BY <2>1, FS_Subset DEF TypeInv, Finite
  <2> QED BY <2>2, FS_CardinalityType
<1>5. CountCompletedChildren(r) = Cardinality(N) + Cardinality(Q)
  BY <1>2 DEF CountCompletedChildren
<1> DEFINE P == {<<r, x[2]>> : x \in Q}
           f == [x \in Q |-> <<r, x[2]>>]
           U == {r} \X (0 .. (n - 1))
<1>6. IsFiniteSet(P) /\ Cardinality(P) = Cardinality(Q)
  <2>1. \A x, y \in Q : x[2] = y[2] => x = y
    BY <1>3 DEF OneOutcomePerChild
  <2>2. f \in [Q -> P] /\ \A y \in P : \E x \in Q : f[x] = y
    OBVIOUS
  <2>3. \A x, y \in Q : f[x] = f[y] => x = y
    BY <2>1
  <2> HIDE DEF f, P
  <2>4. f \in Bijection(Q, P)
    BY <2>2, <2>3 DEF Bijection, Injection, Surjection, IsInjective
  <2>5. ExistsBijection(Q, P)
    BY <2>4 DEF ExistsBijection
  <2> QED BY <1>4, <2>5, FS_Bijection
<1>7. IsFiniteSet(U) /\ Cardinality(U) = n
  <2>1. IsFiniteSet(0 .. (n - 1)) /\ Cardinality(0 .. (n - 1)) = n
    <3>1. 0 \in Int /\ n - 1 \in Int
      OBVIOUS
    <3>2. IsFiniteSet(0 .. (n - 1)) /\ Cardinality(0 .. (n - 1)) = IF 0 > n - 1 THEN 0 ELSE n - 1 - 0 + 1
      BY <3>1, FS_Interval
    <3> QED BY <3>2
  <2>2. IsFiniteSet({r}) /\ Cardinality({r}) = 1
    BY FS_Singleton
  <2>3. IsFiniteSet(U) /\ Cardinality(U) = Cardinality({r}) * Cardinality(0 .. (n - 1))
    BY <2>1, <2>2, FS_Product
  <2> QED BY <2>1, <2>2, <2>3
<1>8. N \cap P = {} /\ N \cup P \subseteq U
  <2>1. \A x \in Q : <<r, x[2]>> \notin norm
    BY <1>3 DEF OneOutcomePerChild
  <2>2. N \cap P = {}
    BY <1>3, <2>1
  <2>3. N \subseteq U
    BY <1>3
  <2>4. P \subseteq U
    BY <1>3
  <2> QED BY <2>2, <2>3, <2>4
<1>9. \A c \in Nat : HasCompletedChild(r, c) <=> <<r, c>> \in N \cup P
  <2> SUFFICES ASSUME NEW c \in Nat PROVE HasCompletedChild(r, c) <=> <<r, c>> \in N \cup P
    OBVIOUS
  <2>1. <<r, c>> \in norm <=> <<r, c>> \in N
    BY <1>2 DEF RowsOf
  <2>2. (\E x \in quar : x[1] = r /\ x[2] = c) <=> \E x \in Q : x[2] = c
    BY <1>2 DEF RowsOf
  <2>3. (\E x \in Q : x[2] = c) <=> <<r, c>> \in P
    OBVIOUS
  <2> QED BY <2>1, <2>2, <2>3 DEF HasCompletedChild
<1> DEFINE B == U \ (N \cup P)
<1>10. Units(E \cup {r}) = Units(E) \cup B
  <2>1. ASSUME NEW x \in E \X Nat PROVE x \in Units(E \cup {r}) <=> x \in Units(E)
    BY DEF Units
  <2>2. ASSUME NEW x \in {r} \X Nat PROVE x \in Units(E \cup {r}) <=> x \in B
    <3>1. PICK c \in Nat : x = <<r, c>>
      OBVIOUS
    <3>2. x \in Units(E \cup {r}) <=> c < n /\ ~HasCompletedChild(r, c)
      BY <1>1, <3>1 DEF Units
    <3>3. x \in U <=> c < n
      BY <3>1
    <3>4. HasCompletedChild(r, c) <=> x \in N \cup P
      BY <1>9, <3>1
    <3> HIDE DEF U, P
    <3> QED BY <3>2, <3>3, <3>4
  <2>3. Units(E) \subseteq E \X Nat /\ Units(E \cup {r}) \subseteq (E \cup {r}) \X Nat
    BY DEF Units
  <2>4. U \subseteq {r} \X Nat
    OBVIOUS
  <2>5. B \subseteq {r} \X Nat
    BY <2>4
  <2>6. (E \cup {r}) \X Nat = (E \X Nat) \cup ({r} \X Nat) /\ (E \X Nat) \cap ({r} \X Nat) = {}
    OBVIOUS
  <2>7. PICK A, C, X, Y, Z : A = E \X Nat /\ C = {r} \X Nat /\ X = Units(E \cup {r}) /\ Y = Units(E) /\ Z = B
    OBVIOUS
  <2>8. /\ \A x \in A : x \in X <=> x \in Y
        /\ \A x \in C : x \in X <=> x \in Z
        /\ Y \subseteq A /\ X \subseteq A \cup C /\ Z \subseteq C
    BY <2>1, <2>2, <2>3, <2>5, <2>6, <2>7
  <2>9. X = Y \cup Z
    BY <2>8
  <2> QED BY <2>7, <2>9
<1>11. IsFiniteSet(B) /\ Cardinality(B) = n - (Cardinality(N) + Cardinality(Q))
  <2> HIDE DEF U, P
  <2>1. Cardinality(N \cup P) = Cardinality(N) + Cardinality(P) /\ IsFiniteSet(N \cup P)
    <3>1. IsFiniteSet(N \cup P) /\ Cardinality(N \cup P) = Cardinality(N) + Cardinality(P) - Cardinality({})
      BY <1>4, <1>6, <1>8, FS_Union
    <3> QED BY <1>4, <1>6, <3>1, FS_EmptySet
  <2>2. U \cap (N \cup P) = N \cup P
    BY <1>8
  <2>3. IsFiniteSet(B) /\ Cardinality(B) = Cardinality(U) - Cardinality(U \cap (N \cup P))
    BY <1>7, FS_Difference
  <2> QED BY <1>4, <1>6, <1>7, <2>1, <2>2, <2>3
<1>12. Units(E) \cap B = {}
  <2>1. \A x \in Units(E) : x[1] \in E
    BY DEF Units
  <2>2. \A x \in B : x[1] = r
    OBVIOUS
  <2> QED BY <2>1, <2>2
<1> HIDE DEF B
<1>13. /\ IsFiniteSet(Units(E) \cup B)
       /\ Cardinality(Units(E) \cup B) = Cardinality(Units(E)) + Cardinality(B) - Cardinality({})
  BY <1>11, <1>12, FS_Union
<1>14. Cardinality({}) = 0 /\ Cardinality(Units(E)) \in Nat
  BY FS_EmptySet, FS_CardinalityType
<1>15. PICK a \in Nat, b \in Nat, m \in Nat : a = Cardinality(N) /\ b = Cardinality(Q) /\ m = Cardinality(Units(E))
  BY <1>4, <1>14
<1>16. Cardinality(Units(E \cup {r})) = m + (n - (a + b)) - 0
  BY <1>10, <1>11, <1>13, <1>14, <1>15
<1>17. CountCompletedChildren(r) = a + b
  BY <1>5, <1>15
<1>18. m + (n - (a + b)) - 0 = m + n - (a + b) /\ a + b \in Nat
  BY <1>1
<1>19. Cardinality(Units(E \cup {r})) = Cardinality(Units(E)) + Kids[rawIn[r]] - CountCompletedChildren(r)
  BY <1>1, <1>15, <1>16, <1>17, <1>18
<1> QED BY <1>1, <1>10, <1>13, <1>17, <1>18, <1>19

\* The rows of the database are finitely many.
LEMMA RawIdFinite == ASSUME NEW W, W \subseteq RawId PROVE IsFiniteSet(W) /\ Cardinality(W) \in Nat
<1>1. IsFiniteSet(RawId)
  BY FS_Interval, StoreAssumption DEF RawId
<1>2. IsFiniteSet(W)
  BY <1>1, FS_Subset
<1> QED BY <1>2, FS_CardinalityType

\* The counter of a step of worker w moves by d.
LEMMA OwedStep ==
    ASSUME TypeInv, NEW w \in Worker, NEW W, NEW E, NEW V, NEW F, Owed(W, E), Places(V, F)', UNCHANGED inbound,
           \A v \in Worker : v # w => wk'[v] = wk[v], wk'[w].pc # "commit",
           NEW d \in Int, pending' = pending + d,
           IsFiniteSet(Units(F)'),
           Cardinality(V) + Cardinality(Units(F)')
              = Cardinality(W) + Cardinality(Units(E)) + d + (IF wk[w].pc = "commit" THEN 1 ELSE 0)
    PROVE  Owed(V, F)'
<1>1. PICK l \in Nat : l = Len(inbound) /\ l = Len(inbound')
  BY DEF TypeInv, TypeOK
<1>2. PICK x \in Nat, y \in Nat, a \in Nat, b \in Nat :
         x = Cardinality(W) /\ y = Cardinality(Units(E)) /\ a = Cardinality(V) /\ b = Cardinality(Units(F)')
  <2>1. Cardinality(W) \in Nat /\ Cardinality(V) \in Nat
    BY RawIdFinite DEF Owed, Places
  <2>2. Cardinality(Units(E)) \in Nat /\ Cardinality(Units(F)') \in Nat
    BY FS_CardinalityType DEF Owed
  <2> QED BY <2>1, <2>2
<1>3. IsFiniteSet(Committing) /\ pending = l + Cardinality(Committing) + x + y
  BY <1>1, <1>2 DEF Owed
<1>4. PICK m \in Nat : m = Cardinality(Committing)
  BY <1>3, FS_CardinalityType
<1>5. IsFiniteSet(Committing') /\ Cardinality(Committing') = IF wk[w].pc = "commit" THEN m - 1 ELSE m
  BY <1>3, <1>4, CommittingStep
<1>6. pending' = l + Cardinality(Committing') + a + b
  <2>0. a + b = x + y + d + (IF wk[w].pc = "commit" THEN 1 ELSE 0) /\ pending' = l + m + x + y + d
    BY <1>2, <1>3, <1>4
  <2>1. CASE wk[w].pc = "commit"
    <3>1. a + b = x + y + d + 1 /\ Cardinality(Committing') = m - 1
      BY <1>5, <2>0, <2>1
    <3> QED BY <2>0, <3>1
  <2>2. CASE wk[w].pc # "commit"
    <3>1. a + b = x + y + d + 0 /\ Cardinality(Committing') = m
      BY <1>5, <2>0, <2>2
    <3> QED BY <2>0, <3>1
  <2> QED BY <2>1, <2>2
<1>7. pending' = Len(inbound') + Cardinality(Committing') + Cardinality(V) + Cardinality(Units(F)')
  BY <1>1, <1>2, <1>6
<1> QED BY <1>5, <1>7 DEF Owed

\* A refused record leaves the queue and is not counted any more.
LEMMA OwedRefused ==
    ASSUME TypeInv, NEW w \in Worker, wk[w].pc = "commit", NEW W, NEW E, Owed(W, E), Refuse(w),
           UNCHANGED <<inbound, toRecover>>
    PROVE  Owed(W, E)'
<1>0. wk \in [Worker -> WorkerState] /\ Places(W, E) /\ W \subseteq RawId /\ E \subseteq RawId /\ W \cap E = {}
  BY DEF TypeInv, TypeOK, Owed, Places
<1>1. wk'[w].pc = "idle" /\ \A v \in Worker : v # w => wk'[v] = wk[v]
  BY <1>0 DEF Refuse, Become, IdleWorker
<1>2. UNCHANGED <<rawIn, rawStatus, norm, quar>>
  BY DEF Refuse, store
<1>3. Places(W, E)'
  <2>1. PICK r : r = NoRaw /\ r \notin RawId
    BY DEF NoRaw, RawId
  <2>2. WorkerPlace(wk[w], W, E)'
    BY <1>1 DEF WorkerPlace
  <2>3. r \notin W /\ r \notin E
    BY <1>0, <2>1
  <2> QED BY <1>0, <1>1, <1>2, <2>1, <2>2, <2>3, PlacesStep
<1>4. Units(E)' = Units(E)
  BY <1>2, UnitsSame
<1>5. PICK d \in Int : d = -1
  OBVIOUS
<1>6. pending' = pending + d
  BY <1>5 DEF Refuse, Count
<1>7. wk'[w].pc # "commit"
  BY <1>1
<1>8. /\ IsFiniteSet(Units(E)')
      /\ Cardinality(W) + Cardinality(Units(E)')
            = Cardinality(W) + Cardinality(Units(E)) + d + (IF wk[w].pc = "commit" THEN 1 ELSE 0)
  <2>1. Cardinality(W) \in Nat /\ Cardinality(Units(E)) \in Nat /\ IsFiniteSet(Units(E))
    BY <1>0, RawIdFinite, FS_CardinalityType DEF Owed
  <2>2. PICK x \in Nat, y \in Nat : x = Cardinality(W) /\ y = Cardinality(Units(E))
    BY <2>1
  <2>3. x + y = x + y + d + 1
    BY <1>5
  <2> QED BY <1>4, <2>1, <2>2, <2>3
<1> QED BY <1>1, <1>3, <1>6, <1>7, <1>8, OwedStep

\* A record that is committed, or retrieved, counts as a row from now on.
LEMMA OwedCommitted ==
    ASSUME TypeInv, NEW w \in Worker, wk[w].pc = "commit", NEW W, NEW E, Owed(W, E), NEW r \in RawId, Apart(w, r),
           r \notin W \cup E, rawStatus'[r] = "accepted", UNCHANGED <<inbound, toRecover, norm, quar, pending>>,
           \A s \in RawId : s # r => rawStatus'[s] = rawStatus[s] /\ rawIn'[s] = rawIn[s],
           wk'[w].pc = "decode", wk'[w].raw = r, \A v \in Worker : v # w => wk'[v] = wk[v]
    PROVE  Owed(W \cup {r}, E)'
<1>0. Places(W, E) /\ W \subseteq RawId /\ E \subseteq RawId /\ W \cap E = {}
  BY DEF Owed, Places
<1>1. PICK V : V = W \cup {r}
  OBVIOUS
<1>2. V \subseteq RawId /\ V \cap E = {} /\ r \in V /\ r \notin E
  BY <1>0, <1>1
<1>3. Places(V, E)'
  <2>1. WorkerPlace(wk[w], V, E)'
    BY <1>2 DEF WorkerPlace
  <2>2. \A s : s # r => (s \in V <=> s \in W) /\ (s \in E <=> s \in E)
    BY <1>1
  <2> QED BY <1>0, <1>2, <2>1, <2>2, PlacesStep
<1>4. Units(E)' = Units(E)
  <2>1. \A s \in E : rawIn'[s] = rawIn[s]
    BY <1>0, <1>2
  <2> QED BY <2>1, UnitsSame
<1>5. PICK d \in Int : d = 0
  OBVIOUS
<1>6. pending' = pending + d
  BY <1>5 DEF TypeInv, TypeOK
<1>7. /\ IsFiniteSet(Units(E)')
      /\ Cardinality(V) + Cardinality(Units(E)')
            = Cardinality(W) + Cardinality(Units(E)) + d + (IF wk[w].pc = "commit" THEN 1 ELSE 0)
  <2>1. Cardinality(W) \in Nat /\ Cardinality(Units(E)) \in Nat /\ IsFiniteSet(Units(E)) /\ IsFiniteSet(W)
    BY <1>0, RawIdFinite, FS_CardinalityType DEF Owed
  <2>2. Cardinality(V) = Cardinality(W) + 1
    BY <1>1, <2>1, FS_AddElement
  <2>3. PICK x \in Nat, y \in Nat : x = Cardinality(W) /\ y = Cardinality(Units(E))
    BY <2>1
  <2>4. x + 1 + y = x + y + d + 1
    BY <1>5
  <2> QED BY <1>4, <2>1, <2>2, <2>3, <2>4
<1>8. wk'[w].pc # "commit"
  OBVIOUS
<1>9. Owed(V, E)'
  BY <1>3, <1>6, <1>7, <1>8, OwedStep
<1> QED BY <1>1, <1>9

LEMMA OwedCommit ==
    ASSUME NoRedelivery, TypeInv, AloneOK, NEW w \in Worker, StoreRecord(w) \/ RetrieveRecord(w),
           NEW W, NEW E, Owed(W, E)
    PROVE  \E V, F : Owed(V, F)'
<1>0. /\ wk \in [Worker -> WorkerState] /\ wk[w] \in WorkerState /\ wk[w].pc = "commit" /\ WorkerOK(wk[w])
      /\ UNCHANGED <<inbound, toRecover>>
      /\ rawStatus \in [RawId -> RawStatus \cup {"absent"}] /\ rawIn \in [RawId -> Input \cup {NoInput}]
  BY DEF TypeInv, TypeOK, StoreTypeOK, WorkersOK, StoreRecord, RetrieveRecord
<1>1. CASE Refuse(w)
  <2>1. Owed(W, E)'
    BY <1>0, <1>1, OwedRefused
  <2> QED BY <2>1
<1>2. CASE StoreRecord(w)
  <2>0. wk[w].in \in Input
    BY <1>0, <1>2 DEF StoreRecord, WorkerOK, Known
  <2>1. SpoolRows(wk[w].in) = {}
    BY <2>0 DEF SpoolRows, NoRedelivery
  <2>2. ASSUME NEW r \in RawId, FreshRaw(r), InsertRaw(r, wk[w].in), UNCHANGED counts,
               Become(w, [wk[w] EXCEPT !.pc = "decode", !.raw = r])
        PROVE  Owed(W \cup {r}, E)'
    <3>1. wk'[w].pc = "decode" /\ wk'[w].raw = r /\ \A v \in Worker : v # w => wk'[v] = wk[v]
      BY <1>0, <2>2 DEF Become, WorkerState
    <3>2. rawStatus[r] = "absent"
      BY <2>2 DEF FreshRaw
    <3>3. Apart(w, r)
      BY <3>2, FreshIsNowhere DEF Apart
    <3>4. r \notin W \cup E
      BY <3>2 DEF Owed, Places
    <3>5. /\ rawStatus'[r] = "accepted" /\ UNCHANGED <<norm, quar, pending>>
          /\ \A s \in RawId : s # r => rawStatus'[s] = rawStatus[s] /\ rawIn'[s] = rawIn[s]
      BY <1>0, <2>2 DEF InsertRaw, counts
    <3> QED BY <1>0, <3>1, <3>3, <3>4, <3>5, OwedCommitted
  <2> QED BY <1>1, <1>2, <2>1, <2>2 DEF StoreRecord
<1>3. CASE RetrieveRecord(w)
  <2>1. PICK r \in RawId : r = wk[w].raw /\ r # NoRaw
    BY <1>0, <1>3 DEF RetrieveRecord, WorkerState
  <2>2. ASSUME Become(w, [wk[w] EXCEPT !.pc = "decode", !.in = rawIn[r], !.recov = TRUE]), UNCHANGED <<store, counts>>
        PROVE  Owed(W \cup {r}, E)'
    <3>1. wk'[w].pc = "decode" /\ wk'[w].raw = r /\ \A v \in Worker : v # w => wk'[v] = wk[v]
      BY <1>0, <2>1, <2>2 DEF Become, WorkerState
    <3>2. rawStatus[r] = "accepted" /\ r \notin W \cup E
      BY <1>0, <2>1 DEF Owed, Places, WorkerPlace
    <3>3. Apart(w, r)
      BY <1>0, <2>1, HandledIsApart DEF Handles
    <3>4. UNCHANGED <<rawStatus, rawIn, norm, quar, pending>>
      BY <2>2 DEF store, counts
    <3> QED BY <1>0, <3>1, <3>2, <3>3, <3>4, OwedCommitted
  <2> QED BY <1>1, <1>3, <2>1, <2>2 DEF RetrieveRecord
<1> QED BY <1>2, <1>3

\* A write for a record whose children are not counted.
LEMMA UnitsElsewhere ==
    ASSUME NEW E, NEW r, r \notin E, NEW c, NEW y, UNCHANGED <<rawIn, norm>>, quar' = quar \cup {<<r, c, y>>}
    PROVE  Units(E)' = Units(E)
<1>1. \A s \in E : \A d : HasCompletedChild(s, d)' <=> HasCompletedChild(s, d)
  <2> SUFFICES ASSUME NEW s \in E, NEW d PROVE HasCompletedChild(s, d)' <=> HasCompletedChild(s, d)
    OBVIOUS
  <2>1. HasCompletedChild(s, d)' => HasCompletedChild(s, d)
    BY WriteSpares
  <2> QED BY <2>1 DEF HasCompletedChild
<1>2. \A x \in E \X Nat : x \in Units(E)' <=> x \in Units(E)
  BY <1>1 DEF Units
<1>3. Units(E) \subseteq E \X Nat /\ Units(E)' \subseteq E \X Nat
  BY DEF Units
<1> QED BY <1>2, <1>3

\* A step of a worker past the commit.
LEMMA OwedHandled ==
    ASSUME NoRedelivery, TypeInv, AloneOK, NEW w \in Worker, wk[w].pc \notin {"idle", "commit"},
           NEW r \in RawId, r = wk[w].raw,
           NEW W, NEW E, NEW V, NEW F, Owed(W, E), V \subseteq RawId, F \subseteq RawId, V \cap F = {},
           UNCHANGED <<inbound, toRecover, rawIn>>, \A v \in Worker : v # w => wk'[v] = wk[v],
           \A s : s # r => (s \in V <=> s \in W) /\ (s \in F <=> s \in E),
           \A s \in RawId : s # r => rawStatus'[s] = rawStatus[s],
           r \in V => rawStatus'[r] = "accepted",
           r \in F => rawStatus'[r] # "absent" /\ rawIn[r] \notin Broken,
           WorkerPlace(wk[w], V, F)', wk'[w].pc # "commit",
           NEW d \in Int, pending' = pending + d, IsFiniteSet(Units(F)'),
           Cardinality(V) + Cardinality(Units(F)') = Cardinality(W) + Cardinality(Units(E)) + d
    PROVE  Owed(V, F)'
<1>1. Apart(w, r)
  BY HandledIsApart DEF Handles
<1>2. Places(W, E) /\ \A s \in RawId : s # r => rawStatus'[s] = rawStatus[s] /\ rawIn'[s] = rawIn[s]
  BY DEF Owed
<1>3. Places(V, F)'
  BY <1>1, <1>2, PlacesStep
<1>4. Cardinality(V) + Cardinality(Units(F)')
         = Cardinality(W) + Cardinality(Units(E)) + d + (IF wk[w].pc = "commit" THEN 1 ELSE 0)
  <2>1. Cardinality(W) \in Nat /\ Cardinality(Units(E)) \in Nat
    BY RawIdFinite, FS_CardinalityType DEF Owed, Places
  <2>2. PICK x \in Nat, y \in Nat : x = Cardinality(W) /\ y = Cardinality(Units(E))
    BY <2>1
  <2>3. x + y + d = x + y + d + 0
    OBVIOUS
  <2> QED BY <2>2, <2>3
<1> QED BY <1>3, <1>4, OwedStep

\* Nothing is written and nothing counted.
LEMMA OwedIdleStep ==
    ASSUME NoRedelivery, TypeInv, AloneOK, NEW w \in Worker, wk[w].pc \notin {"idle", "commit"},
           NEW W, NEW E, Owed(W, E), UNCHANGED <<inbound, toRecover, rawIn, norm, quar, pending>>,
           \A v \in Worker : v # w => wk'[v] = wk[v], WorkerPlace(wk[w], W, E)', wk'[w].pc # "commit",
           \A s \in RawId : s # wk[w].raw => rawStatus'[s] = rawStatus[s],
           wk[w].raw \in W => rawStatus'[wk[w].raw] = "accepted",
           wk[w].raw \in E => rawStatus'[wk[w].raw] # "absent"
    PROVE  Owed(W, E)'
<1>1. PICK r \in RawId : r = wk[w].raw
  BY WorkerFacts
<1>2. W \subseteq RawId /\ E \subseteq RawId /\ W \cap E = {} /\ (r \in E => rawIn[r] \notin Broken)
  BY DEF Owed, Places
<1>3. Units(E)' = Units(E)
  BY UnitsSame
<1>4. PICK d \in Int : d = 0
  OBVIOUS
<1>5. pending' = pending + d
  BY <1>4 DEF TypeInv, TypeOK
<1>6. IsFiniteSet(Units(E)') /\ Cardinality(W) + Cardinality(Units(E)') = Cardinality(W) + Cardinality(Units(E)) + d
  <2>1. Cardinality(W) \in Nat /\ Cardinality(Units(E)) \in Nat /\ IsFiniteSet(Units(E))
    BY <1>2, RawIdFinite, FS_CardinalityType DEF Owed
  <2>2. PICK x \in Nat, y \in Nat : x = Cardinality(W) /\ y = Cardinality(Units(E))
    BY <2>1
  <2>3. x + y = x + y + d
    BY <1>4
  <2> QED BY <1>3, <2>1, <2>2, <2>3
<1>7. (r \in W => rawStatus'[r] = "accepted") /\ (r \in E => rawStatus'[r] # "absent")
  BY <1>1
<1>8. \A s \in RawId : s # r => rawStatus'[s] = rawStatus[s]
  BY <1>1
<1> QED BY <1>1, <1>2, <1>5, <1>6, <1>7, <1>8, OwedHandled

\* Decoding has succeeded: the row is counted by its children from now on.
LEMMA OwedExpanded ==
    ASSUME NoRedelivery, OneInv, ChildRowsOK, NEW w \in Worker, wk[w].pc = "decode", wk[w].in \notin Broken,
           NEW W, NEW E, Owed(W, E), UNCHANGED <<inbound, toRecover, rawIn, rawStatus, norm, quar>>,
           \A v \in Worker : v # w => wk'[v] = wk[v], wk'[w].pc = "capture", wk'[w].raw = wk[w].raw,
           pending' = pending + (Kids[wk[w].in] - CountCompletedChildren(wk[w].raw) - 1)
    PROVE  \E V, F : Owed(V, F)'
<1>0. TypeInv /\ AloneOK /\ NormRowsOK /\ OneOutcomePerChild
  BY DEF OneInv
<1>1. PICK r \in RawId : r = wk[w].raw /\ rawStatus[r] # "absent" /\ rawIn[r] = wk[w].in
  BY <1>0, WorkerFacts
<1>2. /\ W \subseteq RawId /\ E \subseteq RawId /\ W \cap E = {} /\ r \in W /\ r \notin E
      /\ IsFiniteSet(Units(E)) /\ rawIn[r] \notin Broken
  BY <1>1 DEF Owed, Places, WorkerPlace
<1>3. PICK V, F : V = W \ {r} /\ F = E \cup {r}
  OBVIOUS
<1>4. /\ IsFiniteSet(Units(F)) /\ Kids[rawIn[r]] \in Nat /\ CountCompletedChildren(r) \in Nat
      /\ Cardinality(Units(F)) = Cardinality(Units(E)) + Kids[rawIn[r]] - CountCompletedChildren(r)
  BY <1>0, <1>1, <1>2, <1>3, UnitsAdded
<1>5. PICK n \in Nat, m \in Nat : n = Kids[rawIn[r]] /\ m = CountCompletedChildren(r)
  BY <1>4
<1>6. PICK d \in Int : d = n - m - 1
  OBVIOUS
<1>7. pending' = pending + d
  BY <1>1, <1>5, <1>6
<1>8. Units(F)' = Units(F)
  BY UnitsSame
<1>9. IsFiniteSet(Units(F)') /\ Cardinality(V) + Cardinality(Units(F)') = Cardinality(W) + Cardinality(Units(E)) + d
  <2>1. Cardinality(W) \in Nat /\ IsFiniteSet(W) /\ Cardinality(Units(E)) \in Nat
    BY <1>2, RawIdFinite, FS_CardinalityType
  <2>2. Cardinality(V) = Cardinality(W) - 1
    BY <1>2, <1>3, <2>1, FS_RemoveElement
  <2>3. PICK x \in Nat, y \in Nat : x = Cardinality(W) /\ y = Cardinality(Units(E))
    BY <2>1
  <2>4. Cardinality(Units(F)) = y + n - m
    BY <1>4, <1>5, <2>3
  <2>5. x - 1 + (y + n - m) = x + y + d
    BY <1>6
  <2> QED BY <1>4, <1>8, <2>2, <2>3, <2>4, <2>5
<1>10. V \subseteq RawId /\ F \subseteq RawId /\ V \cap F = {} /\ r \notin V /\ r \in F
  BY <1>2, <1>3
<1>11. WorkerPlace(wk[w], V, F)'
  BY <1>1, <1>10 DEF WorkerPlace
<1>12. \A s : s # r => (s \in V <=> s \in W) /\ (s \in F <=> s \in E)
  BY <1>3
<1>13. wk[w].pc \notin {"idle", "commit"} /\ wk'[w].pc # "commit"
  OBVIOUS
<1>14. Owed(V, F)'
  BY <1>0, <1>1, <1>2, <1>7, <1>9, <1>10, <1>11, <1>12, <1>13, OwedHandled
<1> QED BY <1>14

LEMMA OwedDecode ==
    ASSUME NoRedelivery, NoEmptyPayload, LossInv, OneInv, ChildRowsOK, NEW w \in Worker,
           DecodeFails(w) \/ ExpandBatch(w) \/ ResumeBatch(w), NEW W, NEW E, Owed(W, E)
    PROVE  \E V, F : Owed(V, F)'
<1>0. /\ TypeInv /\ AloneOK /\ wk \in [Worker -> WorkerState] /\ wk[w] \in WorkerState
      /\ wk[w].pc = "decode" /\ UNCHANGED <<inbound, toRecover>> /\ wk[w].st = "accepted" /\ CleanOK(wk[w])
      /\ pending \in Int
  BY DEF OneInv, WorkersCleanOK, LossInv, WorkersLossOK, LossOK, TypeInv, TypeOK, DecodeFails, ExpandBatch, ResumeBatch
<1>1. PICK r \in RawId : r = wk[w].raw /\ rawStatus[r] # "absent" /\ rawIn[r] = wk[w].in
  BY <1>0, WorkerFacts
<1>2. /\ W \subseteq RawId /\ E \subseteq RawId /\ W \cap E = {} /\ r \in W /\ r \notin E
      /\ IsFiniteSet(Units(E)) /\ rawStatus[r] = "accepted"
  BY <1>0, <1>1 DEF Owed, Places, WorkerPlace
<1>3. ASSUME Become(w, [wk[w] EXCEPT !.pc = "setstatus"]), UNCHANGED <<rawIn, rawStatus, norm, quar, pending>>
      PROVE  Owed(W, E)'
  <2>1. /\ wk'[w].pc = "setstatus" /\ wk'[w].st = "accepted" /\ \A v \in Worker : v # w => wk'[v] = wk[v]
    BY <1>0, <1>3 DEF Become, WorkerState
  <2>2. WorkerPlace(wk[w], W, E)'
    BY <2>1 DEF WorkerPlace, Final
  <2>3. wk[w].pc \notin {"idle", "commit"} /\ wk'[w].pc # "commit"
    BY <1>0, <2>1
  <2>4. /\ wk[w].raw \in W => rawStatus'[wk[w].raw] = "accepted"
        /\ wk[w].raw \in E => rawStatus'[wk[w].raw] # "absent"
        /\ \A s \in RawId : s # wk[w].raw => rawStatus'[s] = rawStatus[s]
    BY <1>1, <1>2, <1>3
  <2> QED BY <1>0, <1>3, <2>1, <2>2, <2>3, <2>4, OwedIdleStep
<1>4. ASSUME Become(w, [wk[w] EXCEPT !.pc = "capture"])
      PROVE  wk'[w].pc = "capture" /\ wk'[w].raw = wk[w].raw /\ \A v \in Worker : v # w => wk'[v] = wk[v]
  BY <1>0, <1>4 DEF Become, WorkerState
<1>5. CASE DecodeFails(w)
  <2>1. CASE QuarantineFails /\ Become(w, [wk[w] EXCEPT !.pc = "setstatus"])
    BY <1>3, <2>1 DEF QuarantineFails, store, counts
  <2>2. CASE PersistQuarantine(wk[w].raw, 0, "parse_error") /\ Become(w, [wk[w] EXCEPT !.pc = "setstatus", !.st = "quarantined"])
    <3>1. /\ wk'[w].pc = "setstatus" /\ wk'[w].raw = r /\ \A v \in Worker : v # w => wk'[v] = wk[v]
      BY <1>0, <1>1, <2>2 DEF Become, WorkerState
    <3>2. UNCHANGED <<rawIn, rawStatus, norm>> /\ quar' = quar \cup {<<r, 0, "parse_error">>}
      BY <1>1, <2>2 DEF PersistQuarantine, QuarantineChild
    <3>3. Units(E)' = Units(E)
      BY <1>2, <3>2, UnitsElsewhere
    <3>4. PICK V : V = W \ {r}
      OBVIOUS
    <3>5. PICK d \in Int : d = -1
      OBVIOUS
    <3>6. pending' = pending + d
      BY <2>2, <3>5 DEF PersistQuarantine, Count
    <3>7. /\ IsFiniteSet(Units(E)')
          /\ Cardinality(V) + Cardinality(Units(E)') = Cardinality(W) + Cardinality(Units(E)) + d
      <4>1. Cardinality(W) \in Nat /\ IsFiniteSet(W) /\ Cardinality(Units(E)) \in Nat
        BY <1>2, RawIdFinite, FS_CardinalityType
      <4>2. Cardinality(V) = Cardinality(W) - 1
        BY <1>2, <3>4, <4>1, FS_RemoveElement
      <4>3. PICK x \in Nat, y \in Nat : x = Cardinality(W) /\ y = Cardinality(Units(E))
        BY <4>1
      <4>4. x - 1 + y = x + y + d
        BY <3>5
      <4> QED BY <1>2, <3>3, <4>2, <4>3, <4>4
    <3>8. WorkerPlace(wk[w], V, E)'
      BY <3>1, <3>4 DEF WorkerPlace
    <3>9. V \subseteq RawId /\ V \cap E = {} /\ r \notin V /\ \A s : s # r => (s \in V <=> s \in W) /\ (s \in E <=> s \in E)
      BY <1>2, <3>4
    <3>10. wk[w].pc \notin {"idle", "commit"} /\ wk'[w].pc # "commit"
      BY <1>0, <3>1
    <3>11. Owed(V, E)'
      BY <1>0, <1>1, <1>2, <3>1, <3>2, <3>6, <3>7, <3>8, <3>9, <3>10, OwedHandled
    <3> QED BY <3>11
  <2> QED BY <1>5, <2>1, <2>2 DEF DecodeFails
<1>6. CASE ExpandBatch(w)
  <2>1. wk[w].in \notin Broken /\ ~wk[w].recov
    BY <1>6 DEF ExpandBatch
  <2>2. wk[w].in \in Input
    BY <1>0, WorkerFacts
  <2>3. PICK n \in Nat : n = Kids[wk[w].in] /\ n > 0
    BY <2>1, <2>2, StoreAssumption DEF NoEmptyPayload
  <2>4. Count(n - 1, n - 1) /\ Become(w, [wk[w] EXCEPT !.pc = "capture"]) /\ UNCHANGED store
    BY <1>6, <2>3 DEF ExpandBatch
  <2>5. CountCompletedChildren(r) = 0
    <3>1. \A c \in Nat : ~HasCompletedChild(r, c)
      BY <1>0, <1>1, <2>1 DEF CleanOK
    <3>2. RowsOf(norm, r) = {}
      <4>1. \A x \in norm : x[2] \in Nat /\ x = <<x[1], x[2]>>
        BY <1>0 DEF TypeInv, TypeOK, StoreTypeOK
      <4> QED BY <3>1, <4>1 DEF RowsOf, HasCompletedChild
    <3>3. RowsOf(quar, r) = {}
      <4>1. \A x \in quar : x[2] \in Nat
        BY <1>0 DEF TypeInv, TypeOK, StoreTypeOK
      <4> QED BY <3>1, <4>1 DEF RowsOf, HasCompletedChild
    <3> QED BY <3>2, <3>3, FS_EmptySet DEF CountCompletedChildren
  <2>6. pending' = pending + (Kids[wk[w].in] - CountCompletedChildren(wk[w].raw) - 1)
    <3>1. pending' = pending + (n - 1)
      BY <2>4 DEF Count
    <3>2. n - 1 = n - 0 - 1
      OBVIOUS
    <3> QED BY <1>1, <2>3, <2>5, <3>1, <3>2
  <2>7. UNCHANGED <<rawIn, rawStatus, norm, quar>>
    BY <2>4 DEF store
  <2> QED BY <1>0, <1>4, <2>1, <2>4, <2>6, <2>7, OwedExpanded
<1>7. CASE ResumeBatch(w)
  <2>1. wk[w].in \notin Broken /\ UNCHANGED <<rawIn, rawStatus, norm, quar>>
    BY <1>7 DEF ResumeBatch, store
  <2>2. wk[w].in \in Input
    BY <1>0, WorkerFacts
  <2>3. Kids[wk[w].in] > 0
    BY <2>1, <2>2 DEF NoEmptyPayload
  <2>4. CASE UNCHANGED counts /\ Become(w, [wk[w] EXCEPT !.pc = "setstatus"])
    BY <1>3, <2>1, <2>4 DEF counts
  <2>5. CASE /\ Become(w, [wk[w] EXCEPT !.pc = "capture"])
             /\ pending' = pending + (Kids[wk[w].in] - CountCompletedChildren(wk[w].raw) - 1)
    BY <1>0, <1>4, <2>1, <2>5, OwedExpanded
  <2> QED BY <1>7, <2>3, <2>4, <2>5 DEF ResumeBatch, Count
<1> QED BY <1>5, <1>6, <1>7

\* The outcome of child c of a row that is counted by its children.
LEMMA OwedWritten ==
    ASSUME NoRedelivery, OneInv, NEW w \in Worker, wk[w].pc \in {"process", "storeerr"}, NEW W, NEW E, Owed(W, E),
           UNCHANGED <<inbound, toRecover, rawIn, rawStatus>>, pending' = pending + -1,
           \A v \in Worker : v # w => wk'[v] = wk[v], WorkerPlace(wk[w], W, E)', wk'[w].pc # "commit",
           NEW y,
           \/ norm' = norm \cup {<<wk[w].raw, wk[w].next>>} /\ quar' = quar
           \/ norm' = norm /\ quar' = quar \cup {<<wk[w].raw, wk[w].next, y>>}
    PROVE  Owed(W, E)'
<1>0. TypeInv /\ AloneOK /\ CleanOK(wk[w])
  BY DEF OneInv, WorkersCleanOK
<1>1. PICK r \in RawId, c \in Nat : /\ r = wk[w].raw /\ c = wk[w].next /\ rawStatus[r] # "absent"
                                    /\ rawIn[r] = wk[w].in /\ c < Kids[rawIn[r]] /\ rawIn[r] \notin Broken
  BY <1>0, WorkerFacts DEF WorkerOK
<1>2. /\ W \subseteq RawId /\ E \subseteq RawId /\ W \cap E = {} /\ r \in E /\ r \notin W
      /\ IsFiniteSet(Units(E))
  BY <1>1 DEF Owed, Places, WorkerPlace
<1>3. <<r, c>> \in Units(E)
  <2>1. ~HasCompletedChild(r, c)
    BY <1>0, <1>1 DEF CleanOK
  <2> QED BY <1>1, <1>2, <2>1 DEF Units
<1>4. Units(E)' = Units(E) \ {<<r, c>>}
  <2>1. \/ norm' = norm \cup {<<r, c>>} /\ quar' = quar
        \/ norm' = norm /\ quar' = quar \cup {<<r, c, y>>}
    BY <1>1
  <2> QED BY <1>2, <2>1, UnitsWritten
<1>5. PICK d \in Int : d = -1
  OBVIOUS
<1>6. pending' = pending + d
  BY <1>5
<1>7. IsFiniteSet(Units(E)') /\ Cardinality(W) + Cardinality(Units(E)') = Cardinality(W) + Cardinality(Units(E)) + d
  <2>1. Cardinality(W) \in Nat /\ Cardinality(Units(E)) \in Nat
    BY <1>2, RawIdFinite, FS_CardinalityType
  <2>2. IsFiniteSet(Units(E)') /\ Cardinality(Units(E)') = Cardinality(Units(E)) - 1
    <3>1. PICK S, x : S = Units(E) /\ x = <<r, c>> /\ IsFiniteSet(S) /\ x \in S
      BY <1>2, <1>3
    <3>2. IsFiniteSet(S \ {x}) /\ Cardinality(S \ {x}) = Cardinality(S) - 1
      BY <3>1, FS_RemoveElement
    <3> QED BY <1>4, <3>1, <3>2
  <2>3. PICK a \in Nat, b \in Nat : a = Cardinality(W) /\ b = Cardinality(Units(E))
    BY <2>1
  <2>4. a + (b - 1) = a + b + d
    BY <1>5
  <2> QED BY <2>2, <2>3, <2>4
<1>8. wk[w].pc \notin {"idle", "commit"}
  OBVIOUS
<1>9. (r \in W => rawStatus'[r] = "accepted") /\ (r \in E => rawStatus'[r] # "absent")
  BY <1>1, <1>2
<1> QED BY <1>0, <1>1, <1>2, <1>6, <1>7, <1>8, <1>9, OwedHandled

\* The loop over the children: the row stays counted by its children.
LEMMA OwedLoop ==
    ASSUME Durable, NoRedelivery, LossInv, OneInv, NEW w \in Worker,
           wk[w].pc \in {"capture", "check", "process", "storeerr", "count"}, ProcessRecord(w), NEW W, NEW E, Owed(W, E)
    PROVE  Owed(W, E)'
<1>0. TypeInv /\ AloneOK /\ wk \in [Worker -> WorkerState] /\ wk[w] \in WorkerState
  BY DEF OneInv, TypeInv, TypeOK
<1>1. PICK r \in RawId : r = wk[w].raw /\ r \in E /\ r \notin W /\ rawStatus[r] # "absent"
  BY <1>0, WorkerFacts DEF Owed, Places, WorkerPlace
<1> DEFINE Stays == /\ \A v \in Worker : v # w => wk'[v] = wk[v]
                    /\ wk'[w].pc # "commit" /\ WorkerPlace(wk[w], W, E)'
<1>2. ASSUME NEW STATE k, Become(w, k), k.raw = wk[w].raw, k.pc \notin {"commit", "decode"}
      PROVE  Stays
  <2>1. wk'[w] = k /\ \A v \in Worker : v # w => wk'[v] = wk[v]
    BY <1>0, <1>2 DEF Become
  <2>2. WorkerPlace(wk[w], W, E)'
    BY <1>1, <1>2, <2>1 DEF WorkerPlace
  <2> QED BY <1>2, <2>1, <2>2
<1>3. ASSUME NEW u \in BOOLEAN, Become(w, Advance(wk[w], u))
      PROVE  Stays
  <2>1. Advance(wk[w], u).raw = wk[w].raw /\ Advance(wk[w], u).pc \notin {"commit", "decode"}
    BY <1>0, AdvanceType, LoopPhaseType
  <2> QED BY <1>2, <1>3, <2>1
<1>4. ASSUME NEW STATE p, Become(w, [wk[w] EXCEPT !.pc = p]), p \notin {"commit", "decode"}
      PROVE  Stays
  <2> DEFINE k == [wk[w] EXCEPT !.pc = p]
  <2>1. k.raw = wk[w].raw /\ k.pc = p /\ Become(w, k)
    BY <1>0, <1>4 DEF WorkerState
  <2> HIDE DEF k
  <2> QED BY <1>2, <1>4, <2>1
<1>5. ASSUME Stays, UNCHANGED <<inbound, toRecover, rawIn, rawStatus, norm, quar, pending>>
      PROVE  Owed(W, E)'
  <2>1. wk[w].pc \notin {"idle", "commit"}
    OBVIOUS
  <2>2. /\ wk[w].raw \in W => rawStatus'[wk[w].raw] = "accepted"
        /\ wk[w].raw \in E => rawStatus'[wk[w].raw] # "absent"
        /\ \A s \in RawId : s # wk[w].raw => rawStatus'[s] = rawStatus[s]
    BY <1>1, <1>5
  <2> QED BY <1>0, <1>5, <2>1, <2>2, OwedIdleStep
<1>6. ASSUME Stays, wk[w].pc \in {"process", "storeerr"}, NEW STATE y, PersistQuarantine(wk[w].raw, wk[w].next, y),
             UNCHANGED <<inbound, toRecover>>
      PROVE  Owed(W, E)'
  <2>1. PICK z : z = y
    OBVIOUS
  <2>2. /\ UNCHANGED <<rawIn, rawStatus>> /\ pending' = pending + -1
        /\ norm' = norm /\ quar' = quar \cup {<<wk[w].raw, wk[w].next, z>>}
    BY <1>6, <2>1 DEF PersistQuarantine, QuarantineChild, Count
  <2> QED BY <1>6, <2>2, OwedWritten
<1>7. CASE CaptureSnapshot(w)
  <2> DEFINE k == [wk[w] EXCEPT !.snap = active, !.next = 0, !.unres = FALSE,
                                !.pc = LoopPhase(wk[w].in, wk[w].recov, 0, FALSE)]
  <2>1. k.raw = wk[w].raw /\ k.pc \notin {"commit", "decode"}
    BY <1>0, LoopPhaseType DEF WorkerState
  <2>2. Become(w, k) /\ UNCHANGED <<inbound, toRecover, rawIn, rawStatus, norm, quar, pending>>
    BY <1>7 DEF CaptureSnapshot, store, counts
  <2> HIDE DEF k
  <2> QED BY <1>2, <1>5, <2>1, <2>2
<1>8. CASE CheckChild(w)
  <2>1. UNCHANGED <<inbound, toRecover, rawIn, rawStatus, norm, quar, pending>>
    BY <1>8 DEF CheckChild, store, counts
  <2>2. \/ Become(w, Advance(wk[w], FALSE)) \/ Become(w, Advance(wk[w], TRUE))
        \/ Become(w, [wk[w] EXCEPT !.pc = "process"])
    BY <1>8 DEF CheckChild
  <2>3. CASE Become(w, [wk[w] EXCEPT !.pc = "process"])
    BY <1>4, <1>5, <2>1, <2>3
  <2>4. CASE Become(w, Advance(wk[w], FALSE)) \/ Become(w, Advance(wk[w], TRUE))
    BY <1>3, <1>5, <2>1, <2>4
  <2> QED BY <2>2, <2>3, <2>4
<1>9. CASE RejectChild(w)
  <2>1. UNCHANGED <<inbound, toRecover>> /\ wk[w].pc = "process"
    BY <1>9 DEF RejectChild
  <2>2. Stays
    BY <1>3, <1>9 DEF RejectChild
  <2>3. CASE QuarantineFails
    BY <1>5, <2>1, <2>2, <2>3 DEF QuarantineFails, store, counts
  <2>4. CASE PersistQuarantine(wk[w].raw, wk[w].next, Verdict(wk[w].snap, wk[w].in, wk[w].next))
    BY <1>6, <2>1, <2>2, <2>4
  <2> QED BY <1>9, <2>3, <2>4 DEF RejectChild
<1>10. CASE QuarantineAfter(w, "storeerr", "store_error")
  <2>1. UNCHANGED <<inbound, toRecover>> /\ wk[w].pc = "storeerr"
    BY <1>10 DEF QuarantineAfter
  <2>2. Stays
    BY <1>3, <1>10 DEF QuarantineAfter
  <2>3. CASE QuarantineFails
    BY <1>5, <2>1, <2>2, <2>3 DEF QuarantineFails, store, counts
  <2>4. CASE PersistQuarantine(wk[w].raw, wk[w].next, "store_error")
    BY <1>6, <2>1, <2>2, <2>4
  <2> QED BY <1>10, <2>3, <2>4 DEF QuarantineAfter
<1>11. CASE NormalizeChild(w)
  <2>1. UNCHANGED <<inbound, toRecover>> /\ wk[w].pc = "process"
    BY <1>11 DEF NormalizeChild
  <2>2. Stays
    <3>1. CASE Become(w, Advance(wk[w], FALSE))
      BY <1>3, <3>1
    <3>2. CASE Become(w, [wk[w] EXCEPT !.pc = "storeerr"])
      BY <1>4, <3>2
    <3> QED BY <1>11, <3>1, <3>2 DEF NormalizeChild
  <2>3. CASE UNCHANGED <<store, counts>>
    BY <1>5, <2>1, <2>2, <2>3 DEF store, counts
  <2>4. ASSUME NEW D, StoreNormalizedWithOutbox(wk[w].raw, wk[w].next, D), Count(0, -1)
        PROVE  Owed(W, E)'
    <3>1. /\ UNCHANGED <<rawIn, rawStatus>> /\ pending' = pending + -1
          /\ norm' = norm \cup {<<wk[w].raw, wk[w].next>>} /\ quar' = quar
      BY <2>4 DEF StoreNormalizedWithOutbox, Count
    <3> QED BY <2>1, <2>2, <3>1, OwedWritten
  <2> QED BY <1>11, <2>3, <2>4 DEF NormalizeChild
<1>12. CASE DeriveStatus(w)
  <2>1. UNCHANGED <<inbound, toRecover, rawIn, rawStatus, norm, quar, pending>>
    BY <1>12 DEF DeriveStatus, store, counts
  <2>2. CASE Become(w, [wk[w] EXCEPT !.pc = "setstatus"])
    BY <1>4, <1>5, <2>1, <2>2
  <2>3. CASE Become(w, [wk[w] EXCEPT !.pc = "setstatus", !.st = OutcomeStatus(wk[w].raw, norm, quar)])
    <3> DEFINE k == [wk[w] EXCEPT !.pc = "setstatus", !.st = OutcomeStatus(wk[w].raw, norm, quar)]
    <3>1. k.raw = wk[w].raw /\ k.pc = "setstatus" /\ Become(w, k)
      BY <1>0, <2>3 DEF WorkerState
    <3> HIDE DEF k
    <3> QED BY <1>2, <1>5, <2>1, <3>1
  <2> QED BY <1>12, <2>2, <2>3 DEF DeriveStatus
<1>13. ~(\/ StoreRecord(w) \/ RetrieveRecord(w) \/ DecodeFails(w) \/ ExpandBatch(w) \/ ResumeBatch(w)
         \/ EmitDirect(w) \/ UndoNormalized(w) \/ QuarantineAfter(w, "sinkerr", "sink_error") \/ SetStatus(w))
  BY DEF StoreRecord, RetrieveRecord, DecodeFails, ExpandBatch, ResumeBatch, EmitDirect, UndoNormalized,
     QuarantineAfter, SetStatus
<1> QED BY <1>7, <1>8, <1>9, <1>10, <1>11, <1>12, <1>13 DEF ProcessRecord

\* A final status is written only for a row that does not count as a whole.
LEMMA OwedSet ==
    ASSUME NoRedelivery, TypeInv, AloneOK, NEW w \in Worker, SetStatus(w), NEW W, NEW E, Owed(W, E)
    PROVE  Owed(W, E)'
<1>0. /\ wk \in [Worker -> WorkerState] /\ wk[w].pc = "setstatus"
      /\ rawStatus \in [RawId -> RawStatus \cup {"absent"}]
      /\ UNCHANGED <<inbound, toRecover, rawIn, norm, quar, pending>>
  BY DEF TypeInv, TypeOK, StoreTypeOK, SetStatus, UpdateStatus, store, counts
<1>1. PICK r \in RawId, st \in RawStatus : r = wk[w].raw /\ st = wk[w].st /\ rawStatus[r] # "absent"
  BY <1>0, WorkerFacts DEF WorkerState
<1>2. (r \in W => rawStatus[r] = "accepted" /\ st = "accepted") /\ W \subseteq RawId
  BY <1>0, <1>1 DEF Owed, Places, WorkerPlace, RawStatus
<1>3. /\ rawStatus'[r] = st \/ rawStatus'[r] = rawStatus[r]
      /\ \A s \in RawId : s # r => rawStatus'[s] = rawStatus[s]
  BY <1>0, <1>1 DEF SetStatus, UpdateStatus, store
<1>4. wk'[w].pc = "idle" /\ \A v \in Worker : v # w => wk'[v] = wk[v]
  BY <1>0 DEF SetStatus, Become, IdleWorker
<1>5. WorkerPlace(wk[w], W, E)'
  BY <1>4 DEF WorkerPlace
<1>6. /\ wk[w].raw \in W => rawStatus'[wk[w].raw] = "accepted"
      /\ wk[w].raw \in E => rawStatus'[wk[w].raw] # "absent"
      /\ \A s \in RawId : s # wk[w].raw => rawStatus'[s] = rawStatus[s]
  BY <1>1, <1>2, <1>3 DEF RawStatus, Final
<1>7. wk[w].pc \notin {"idle", "commit"} /\ wk'[w].pc # "commit"
  BY <1>0, <1>4
<1> QED BY <1>0, <1>4, <1>5, <1>6, <1>7, OwedIdleStep

LEMMA OwedSubmit ==
    ASSUME TypeInv, NEW i \in Input, Submit(i), NEW W, NEW E, Owed(W, E)
    PROVE  Owed(W, E)'
<1>0. /\ inbound \in Seq(Record) /\ pending \in Int /\ pending' = pending + 1
      /\ inbound' = Append(inbound, [raw |-> NoRaw, in |-> i])
      /\ UNCHANGED <<toRecover, wk, rawIn, rawStatus, norm, quar>>
  BY DEF TypeInv, TypeOK, Submit, Count, store
<1>1. PICK l \in Nat : l = Len(inbound)
  BY <1>0
<1>2. /\ Len(inbound') = l + 1 /\ inbound'[l + 1].raw = NoRaw
      /\ \A n \in 1 .. (l + 1) : n = l + 1 \/ (n \in 1 .. l /\ inbound'[n] = inbound[n])
  <2>1. PICK e \in Record : e = [raw |-> NoRaw, in |-> i] /\ e.raw = NoRaw
    <3>1. [raw |-> NoRaw, in |-> i] \in Record
      BY DEF Record
    <3> QED BY <3>1
  <2>2. inbound' = Append(inbound, e)
    BY <1>0, <2>1
  <2>3. Len(inbound') = l + 1 /\ inbound'[l + 1] = e
    BY <1>0, <1>1, <2>2
  <2>4. \A n \in 1 .. (l + 1) : n = l + 1 \/ (n \in 1 .. l /\ inbound'[n] = inbound[n])
    BY <1>0, <1>1, <2>2
  <2> QED BY <2>1, <2>3, <2>4
<1>3. Places(W, E)'
  <2>1. \A v \in Worker : WorkerPlace(wk[v], W, E)'
    BY <1>0 DEF Owed, Places, WorkerPlace
  <2>2. \A n \in 1 .. Len(inbound') : inbound'[n].raw # NoRaw =>
           rawStatus'[inbound'[n].raw] = "accepted" /\ inbound'[n].raw \notin W \cup E
    BY <1>0, <1>1, <1>2 DEF Owed, Places
  <2> QED BY <1>0, <2>1, <2>2 DEF Owed, Places
<1>4. Committing' = Committing /\ Units(E)' = Units(E)
  BY <1>0, UnitsSame DEF Committing
<1>5. PICK a \in Nat, b \in Nat, c \in Nat :
         a = Cardinality(Committing) /\ b = Cardinality(W) /\ c = Cardinality(Units(E))
  BY RawIdFinite, FS_CardinalityType DEF Owed, Places
<1>6. pending = l + a + b + c
  BY <1>1, <1>5 DEF Owed
<1>7. pending' = (l + 1) + a + b + c
  BY <1>0, <1>6
<1>8. pending' = Len(inbound') + Cardinality(Committing') + Cardinality(W) + Cardinality(Units(E)')
  BY <1>2, <1>4, <1>5, <1>7
<1> QED BY <1>3, <1>4, <1>8 DEF Owed

LEMMA OwedRecover ==
    ASSUME NoRedelivery, TypeInv, AloneOK, NEW r \in toRecover, Recover(r), NEW W, NEW E, Owed(W, E)
    PROVE  Owed(W \ {r}, E)'
<1>0. /\ inbound \in Seq(Record) /\ r \in RawId
      /\ inbound' = Append(inbound, [raw |-> r, in |-> NoInput]) /\ toRecover' = toRecover \ {r}
      /\ UNCHANGED <<wk, rawIn, rawStatus, norm, quar, pending>>
  BY DEF TypeInv, TypeOK, Recover, counts, store
<1>1. PICK l \in Nat : l = Len(inbound)
  BY <1>0
<1>2. /\ Len(inbound') = l + 1 /\ inbound'[l + 1].raw = r
      /\ \A n \in 1 .. (l + 1) : n = l + 1 \/ (n \in 1 .. l /\ inbound'[n] = inbound[n])
  <2>1. PICK e \in Record : e = [raw |-> r, in |-> NoInput] /\ e.raw = r
    BY <1>0 DEF Record
  <2>2. inbound' = Append(inbound, e)
    BY <1>0, <2>1
  <2>3. Len(inbound') = l + 1 /\ inbound'[l + 1] = e
    BY <1>0, <1>1, <2>2
  <2>4. \A n \in 1 .. (l + 1) : n = l + 1 \/ (n \in 1 .. l /\ inbound'[n] = inbound[n])
    BY <1>0, <1>1, <2>2
  <2> QED BY <2>1, <2>3, <2>4
<1>3. r \in W /\ r \notin E /\ rawStatus[r] = "accepted" /\ W \subseteq RawId
  BY DEF Owed, Places
<1>4. PICK V : V = W \ {r}
  OBVIOUS
<1>5. Places(V, E)'
  <2>1. ASSUME NEW v \in Worker PROVE WorkerPlace(wk[v], V, E)'
    <3>1. wk[v].pc # "idle" => wk[v].raw # r
      BY <1>0 DEF AloneOK, Handles
    <3>2. WorkerPlace(wk[v], W, E)
      BY DEF Owed, Places
    <3> QED BY <1>0, <1>4, <3>1, <3>2 DEF WorkerPlace
  <2>2. ASSUME NEW n \in 1 .. Len(inbound'), inbound'[n].raw # NoRaw
        PROVE  rawStatus'[inbound'[n].raw] = "accepted" /\ inbound'[n].raw \notin V \cup E
    <3>1. CASE n = l + 1
      BY <1>0, <1>2, <1>3, <1>4, <3>1
    <3>2. CASE n \in 1 .. l /\ inbound'[n] = inbound[n]
      BY <1>0, <1>1, <1>4, <2>2, <3>2 DEF Owed, Places
    <3> QED BY <1>2, <3>1, <3>2
  <2>3. V \subseteq RawId /\ V \cap E = {} /\ toRecover' \subseteq V
    BY <1>0, <1>4 DEF Owed, Places
  <2>4. /\ \A s \in V : rawStatus'[s] = "accepted"
        /\ \A s \in E : rawStatus'[s] # "absent" /\ rawIn'[s] \notin Broken
    BY <1>0, <1>4 DEF Owed, Places
  <2>5. E \subseteq RawId
    BY DEF Owed, Places
  <2> QED BY <2>1, <2>2, <2>3, <2>4, <2>5 DEF Places
<1>6. Committing' = Committing /\ Units(E)' = Units(E)
  BY <1>0, UnitsSame DEF Committing
<1>7. PICK a \in Nat, b \in Nat, c \in Nat :
         a = Cardinality(Committing) /\ b = Cardinality(W) /\ c = Cardinality(Units(E))
  BY RawIdFinite, FS_CardinalityType DEF Owed, Places
<1>8. pending = l + a + b + c
  BY <1>1, <1>7 DEF Owed
<1>9. Cardinality(V) = b - 1
  <2>1. IsFiniteSet(W)
    BY <1>3, RawIdFinite
  <2> QED BY <1>3, <1>4, <1>7, <2>1, FS_RemoveElement
<1>10. pending' = (l + 1) + a + (b - 1) + c
  BY <1>0, <1>8
<1>11. pending' = Len(inbound') + Cardinality(Committing') + Cardinality(V) + Cardinality(Units(E)')
  BY <1>2, <1>6, <1>7, <1>9, <1>10
<1>12. Owed(V, E)'
  BY <1>5, <1>6, <1>11 DEF Owed
<1> QED BY <1>4, <1>12

LEMMA OwedTake ==
    ASSUME TypeInv, NEW w \in Worker, Take(w), NEW W, NEW E, Owed(W, E)
    PROVE  Owed(W, E)'
<1>0. /\ inbound \in Seq(Record) /\ inbound # <<>> /\ inbound' = Tail(inbound) /\ wk[w].pc = "idle"
      /\ wk \in [Worker -> WorkerState]
      /\ UNCHANGED <<toRecover, rawIn, rawStatus, norm, quar, pending>>
  BY DEF TypeInv, TypeOK, Take, counts, store
<1>1. PICK l \in Nat : l = Len(inbound) /\ l > 0 /\ Len(inbound') = l - 1
  BY <1>0
<1>2. \A n \in 1 .. (l - 1) : n + 1 \in 1 .. l /\ inbound'[n] = inbound[n + 1]
  BY <1>0, <1>1
<1>3. Head(inbound) = inbound[1]
  BY <1>0
<1>4. wk'[w].pc = "commit" /\ wk'[w].raw = inbound[1].raw /\ \A v \in Worker : v # w => wk'[v] = wk[v]
  <2>1. /\ wk'[w] = [IdleWorker EXCEPT !.pc = "commit", !.raw = Head(inbound).raw, !.in = Head(inbound).in]
        /\ \A v \in Worker : v # w => wk'[v] = wk[v]
    BY <1>0 DEF Take, Become
  <2> QED BY <1>3, <2>1 DEF IdleWorker
<1>5. Places(W, E)'
  <2>0. \A n \in 1 .. l : inbound[n].raw # NoRaw =>
           rawStatus[inbound[n].raw] = "accepted" /\ inbound[n].raw \notin W \cup E
    BY <1>1 DEF Owed, Places
  <2>1. ASSUME NEW v \in Worker PROVE WorkerPlace(wk[v], W, E)'
    <3>1. CASE v = w
      <4>1. 1 \in 1 .. l
        BY <1>1
      <4> QED BY <1>0, <1>4, <2>0, <3>1, <4>1 DEF WorkerPlace
    <3>2. CASE v # w
      BY <1>0, <1>4, <3>2 DEF Owed, Places, WorkerPlace
    <3> QED BY <3>1, <3>2
  <2>2. \A n \in 1 .. Len(inbound') : inbound'[n].raw # NoRaw =>
           rawStatus'[inbound'[n].raw] = "accepted" /\ inbound'[n].raw \notin W \cup E
    BY <1>0, <1>1, <1>2, <2>0
  <2> QED BY <1>0, <2>1, <2>2 DEF Owed, Places
<1>6. Units(E)' = Units(E)
  BY <1>0, UnitsSame
<1>7. PICK a \in Nat, b \in Nat, c \in Nat :
         a = Cardinality(Committing) /\ b = Cardinality(W) /\ c = Cardinality(Units(E))
  BY RawIdFinite, FS_CardinalityType DEF Owed, Places
<1>8. pending = l + a + b + c
  BY <1>1, <1>7 DEF Owed
<1>9. IsFiniteSet(Committing') /\ Cardinality(Committing') = a + 1
  BY <1>0, <1>4, <1>7, CommittingStep DEF Owed
<1>10. pending' = (l - 1) + (a + 1) + b + c
  BY <1>0, <1>8
<1>11. pending' = Len(inbound') + Cardinality(Committing') + Cardinality(W) + Cardinality(Units(E)')
  BY <1>1, <1>6, <1>7, <1>9, <1>10
<1>12. IsFiniteSet(Units(E)')
  BY <1>6 DEF Owed
<1> QED BY <1>5, <1>9, <1>11, <1>12 DEF Owed

\* New counts each accepted row once.
LEMMA OwedCrash ==
    ASSUME TypeInv, Crash
    PROVE  \E V, F : Owed(V, F)'
<1>0. /\ inbound' = <<>> /\ toRecover' \subseteq RawByStatus("accepted") /\ UNCHANGED <<rawIn, rawStatus, norm, quar>>
      /\ \A w \in Worker : wk'[w].pc = "idle"
      /\ pending' = Cardinality(RawByStatus("accepted"))
  BY DEF Crash, store, IdleWorker
<1>1. PICK V : V = RawByStatus("accepted")
  OBVIOUS
<1>2. V \subseteq RawId /\ \A r \in V : rawStatus[r] = "accepted"
  BY <1>1 DEF RawByStatus
<1>3. Len(inbound') = 0 /\ 1 .. Len(inbound') = {}
  BY <1>0
<1>4. Places(V, {})'
  <2>1. \A w \in Worker : WorkerPlace(wk[w], V, {})'
    BY <1>0 DEF WorkerPlace
  <2> QED BY <1>0, <1>1, <1>2, <1>3, <2>1 DEF Places
<1>5. Committing' = {} /\ Units({})' = {}
  BY <1>0 DEF Committing, Units
<1>6. PICK b \in Nat : b = Cardinality(V)
  BY <1>2, RawIdFinite
<1>7. pending' = 0 + 0 + b + 0
  BY <1>0, <1>1, <1>6
<1>8. pending' = Len(inbound') + Cardinality(Committing') + Cardinality(V) + Cardinality(Units({})')
  BY <1>3, <1>5, <1>6, <1>7, FS_EmptySet
<1>9. Owed(V, {})'
  BY <1>4, <1>5, <1>8, FS_EmptySet DEF Owed
<1> QED BY <1>9

\* The other steps touch nothing that counts.
LEMMA OwedOutside ==
    ASSUME NEW W, NEW E, Owed(W, E), UNCHANGED <<inbound, toRecover, wk, rawIn, rawStatus, norm, quar, pending>>
    PROVE  Owed(W, E)'
<1>1. Places(W, E)'
  BY DEF Owed, Places, WorkerPlace
<1>2. Committing' = Committing /\ Units(E)' = Units(E)
  BY UnitsSame DEF Committing
<1> QED BY <1>1, <1>2 DEF Owed

\* A row is written for a child that its record has.
LEMMA ChildRowsWritten ==
    ASSUME TypeInv, NormRowsOK, ChildRowsOK, Persists, NEW r \in RawId, NEW c, NEW y, rawStatus[r] # "absent",
           rawIn[r] \notin Broken => c < Kids[rawIn[r]],
           norm' \subseteq norm \cup {<<r, c>>}, quar' \subseteq quar \cup {<<r, c, y>>}
    PROVE  ChildRowsOK'
<1>1. rawIn'[r] = rawIn[r] /\ \A x \in norm \cup quar : rawIn'[x[1]] = rawIn[x[1]]
  BY RowsTyped DEF Persists
<1>2. \A x \in norm' : rawIn'[x[1]] \notin Broken => x[2] < Kids[rawIn'[x[1]]]
  BY <1>1 DEF ChildRowsOK
<1>3. \A x \in quar' : rawIn'[x[1]] \notin Broken => x[2] < Kids[rawIn'[x[1]]]
  BY <1>1 DEF ChildRowsOK
<1> QED BY <1>2, <1>3 DEF ChildRowsOK

LEMMA ChildRowsStep ==
    ASSUME Durable, NoEmptyPayload, Replayer = {}, LossInv, OneInv, ChildRowsOK, [Next]_vars
    PROVE  ChildRowsOK'
<1>0. TypeInv /\ NormRowsOK /\ NoDirectEmit /\ Persists
  BY PersistsStep DEF LossInv, OneInv
<1>1. ASSUME UNCHANGED <<norm, quar>> PROVE ChildRowsOK'
  <2>1. \A x \in norm \cup quar : rawIn'[x[1]] = rawIn[x[1]]
    BY <1>0, RowsTyped DEF Persists
  <2> QED BY <1>1, <2>1 DEF ChildRowsOK
<1>2. ASSUME NEW w \in Worker, ProcessRecord(w)
      PROVE  ChildRowsOK'
  <2>0. wk[w].pc \notin {"idle", "commit"} => wk[w].raw \in RawId /\ rawStatus[wk[w].raw] # "absent"
                                             /\ rawIn[wk[w].raw] = wk[w].in /\ wk[w].in \in Input
    BY <1>0, WorkerFacts
  <2>1. ASSUME wk[w].pc \notin {"idle", "commit"}, NEW STATE c, NEW STATE y, wk[w].in \notin Broken => c < Kids[wk[w].in],
               \/ QuarantineChild(wk[w].raw, c, y)
               \/ \E D : StoreNormalizedWithOutbox(wk[w].raw, c, D)
        PROVE  ChildRowsOK'
    <3>1. PICK r \in RawId : r = wk[w].raw /\ rawStatus[r] # "absent" /\ rawIn[r] = wk[w].in
      BY <2>0, <2>1
    <3>2. PICK d, z : d = c /\ z = y
      OBVIOUS
    <3>3. norm' \subseteq norm \cup {<<r, d>>} /\ quar' \subseteq quar \cup {<<r, d, z>>}
      BY <2>1, <3>1, <3>2 DEF QuarantineChild, StoreNormalizedWithOutbox
    <3>4. rawIn[r] \notin Broken => d < Kids[rawIn[r]]
      BY <2>1, <3>1, <3>2
    <3> QED BY <1>0, <3>1, <3>3, <3>4, ChildRowsWritten
  <2>2. ASSUME wk[w].pc \in {"process", "storeerr"} PROVE wk[w].next < Kids[wk[w].in]
    BY <1>0, <2>2, WorkerFacts DEF WorkerOK
  <2>3. CASE DecodeFails(w)
    <3>1. wk[w].pc = "decode" /\ wk[w].in \in Broken
      BY <2>3 DEF DecodeFails
    <3>2. UNCHANGED <<norm, quar>> \/ QuarantineChild(wk[w].raw, 0, "parse_error")
      BY <2>3 DEF DecodeFails, PersistQuarantine, QuarantineFails, store
    <3> QED BY <1>1, <2>1, <3>1, <3>2
  <2>4. CASE ExpandBatch(w)
    <3>1. wk[w].pc = "decode" /\ wk[w].in \notin Broken
      BY <2>4 DEF ExpandBatch
    <3>2. Kids[wk[w].in] > 0 /\ Kids[wk[w].in] \in Nat
      BY <2>0, <3>1, StoreAssumption DEF NoEmptyPayload
    <3>3. UNCHANGED <<norm, quar>>
      BY <2>4, <3>2 DEF ExpandBatch, store
    <3> QED BY <1>1, <3>3
  <2>5. CASE RejectChild(w)
    <3>1. wk[w].pc = "process"
      BY <2>5 DEF RejectChild
    <3>2. UNCHANGED <<norm, quar>> \/ QuarantineChild(wk[w].raw, wk[w].next, Verdict(wk[w].snap, wk[w].in, wk[w].next))
      BY <2>5 DEF RejectChild, PersistQuarantine, QuarantineFails, store
    <3> QED BY <1>1, <2>1, <2>2, <3>1, <3>2
  <2>6. CASE QuarantineAfter(w, "storeerr", "store_error")
    <3>1. wk[w].pc = "storeerr"
      BY <2>6 DEF QuarantineAfter
    <3>2. UNCHANGED <<norm, quar>> \/ QuarantineChild(wk[w].raw, wk[w].next, "store_error")
      BY <2>6 DEF QuarantineAfter, PersistQuarantine, QuarantineFails, store
    <3> QED BY <1>1, <2>1, <2>2, <3>1, <3>2
  <2>7. CASE NormalizeChild(w)
    <3>1. wk[w].pc = "process"
      BY <2>7 DEF NormalizeChild
    <3>2. UNCHANGED <<norm, quar>> \/ \E D : StoreNormalizedWithOutbox(wk[w].raw, wk[w].next, D)
      BY <2>7 DEF NormalizeChild, store
    <3> QED BY <1>1, <2>1, <2>2, <3>1, <3>2
  <2>8. CASE \/ StoreRecord(w) \/ RetrieveRecord(w) \/ ResumeBatch(w) \/ CaptureSnapshot(w) \/ CheckChild(w)
             \/ DeriveStatus(w) \/ SetStatus(w)
    <3>1. UNCHANGED <<norm, quar>>
      BY <2>8 DEF StoreRecord, InsertRaw, Refuse, RetrieveRecord, ResumeBatch, CaptureSnapshot, CheckChild, DeriveStatus,
         SetStatus, UpdateStatus, store
    <3> QED BY <1>1, <3>1
  <2>9. ~(EmitDirect(w) \/ UndoNormalized(w) \/ QuarantineAfter(w, "sinkerr", "sink_error"))
    BY <1>0 DEF NoDirectEmit, EmitDirect, UndoNormalized, QuarantineAfter
  <2> QED BY <1>2, <2>3, <2>4, <2>5, <2>6, <2>7, <2>8, <2>9 DEF ProcessRecord
<1>3. CASE \/ \E w \in Worker : Take(w)
           \/ \E i \in Input : Submit(i)
           \/ FetchPending \/ AckDelivery \/ Crash
           \/ \E row \in batch : EmitTo(row) \/ EmitToFails(row)
           \/ \E S \in SUBSET Dest : Reconfigure(S)
           \/ \E s \in Snapshot : ActivatePack(s)
           \/ FinishStartup
           \/ \E r \in toRecover : Recover(r)
           \/ UNCHANGED vars
  <2>1. UNCHANGED <<norm, quar>>
    BY <1>3 DEF Take, Submit, FetchPending, AckDelivery, MarkDelivered, EmitTo, EmitToFails, MarkFailed, Reconfigure,
       ActivatePack, FinishStartup, Recover, Crash, vars, store
  <2> QED BY <1>1, <2>1
<1> QED BY <1>2, <1>3 DEF Next

LEMMA OwedNext ==
    ASSUME Durable, NoRedelivery, NoEmptyPayload, Replayer = {}, PendingInv, [Next]_vars
    PROVE  \E V, F : Owed(V, F)'
<1>0. LossInv /\ OneInv /\ ChildRowsOK /\ TypeInv /\ AloneOK /\ NoDirectEmit
  BY DEF PendingInv, LossInv, OneInv
<1>1. PICK W, E : Owed(W, E)
  BY DEF PendingInv
<1>2. ASSUME NEW w \in Worker, ProcessRecord(w)
      PROVE  \E V, F : Owed(V, F)'
  <2>1. CASE StoreRecord(w) \/ RetrieveRecord(w)
    BY <1>0, <1>1, <2>1, OwedCommit
  <2>2. CASE DecodeFails(w) \/ ExpandBatch(w) \/ ResumeBatch(w)
    BY <1>0, <1>1, <2>2, OwedDecode
  <2>3. CASE SetStatus(w)
    BY <1>0, <1>1, <2>3, OwedSet
  <2>4. CASE wk[w].pc \in {"capture", "check", "process", "storeerr", "count"}
    BY <1>0, <1>1, <1>2, <2>4, OwedLoop
  <2>5. \/ wk[w].pc \in {"capture", "check", "process", "storeerr", "count"}
        \/ StoreRecord(w) \/ RetrieveRecord(w) \/ DecodeFails(w) \/ ExpandBatch(w) \/ ResumeBatch(w) \/ SetStatus(w)
    BY <1>0, <1>2 DEF NoDirectEmit, ProcessRecord, CaptureSnapshot, CheckChild, RejectChild, NormalizeChild,
       QuarantineAfter, DeriveStatus, EmitDirect, UndoNormalized
  <2> QED BY <2>1, <2>2, <2>3, <2>4, <2>5
<1>3. CASE \E w \in Worker : Take(w)
  BY <1>0, <1>1, <1>3, OwedTake
<1>4. CASE \E i \in Input : Submit(i)
  BY <1>0, <1>1, <1>4, OwedSubmit
<1>5. CASE \E r \in toRecover : Recover(r)
  <2> PICK r \in toRecover : Recover(r)
    BY <1>5
  <2>1. Owed(W \ {r}, E)'
    BY <1>0, <1>1, OwedRecover
  <2> QED BY <2>1
<1>6. CASE Crash
  BY <1>0, <1>6, OwedCrash
<1>7. CASE \/ FetchPending \/ AckDelivery
           \/ \E row \in batch : EmitTo(row) \/ EmitToFails(row)
           \/ \E S \in SUBSET Dest : Reconfigure(S)
           \/ \E s \in Snapshot : ActivatePack(s)
           \/ FinishStartup
           \/ UNCHANGED vars
  <2>1. UNCHANGED <<inbound, toRecover, wk, rawIn, rawStatus, norm, quar, pending>>
    BY <1>7 DEF FetchPending, AckDelivery, MarkDelivered, EmitTo, EmitToFails, MarkFailed, Reconfigure,
       ActivatePack, FinishStartup, vars, volatile, store, counts
  <2> QED BY <1>1, <2>1, OwedOutside
<1> QED BY <1>2, <1>3, <1>4, <1>5, <1>6, <1>7 DEF Next

LEMMA OwedInit == Init => \E W, E : Owed(W, E)
<1> SUFFICES ASSUME Init PROVE Owed({}, {})
  OBVIOUS
<1>0. inbound = <<>> /\ toRecover = {} /\ pending = 0 /\ \A w \in Worker : wk[w].pc = "idle"
  BY DEF Init, IdleWorker
<1>1. Len(inbound) = 0 /\ 1 .. Len(inbound) = {}
  BY <1>0
<1>2. Places({}, {})
  BY <1>0, <1>1 DEF Places, WorkerPlace
<1>3. Committing = {} /\ Units({}) = {}
  BY <1>0 DEF Committing, Units
<1>4. Cardinality({}) = 0 /\ IsFiniteSet({})
  BY FS_EmptySet
<1>5. 0 = 0 + 0 + 0 + 0
  OBVIOUS
<1>6. pending = Len(inbound) + Cardinality(Committing) + Cardinality({}) + Cardinality(Units({}))
  BY <1>0, <1>1, <1>3, <1>4, <1>5
<1> QED BY <1>2, <1>3, <1>4, <1>6 DEF Owed

\* At rest pending is not negative, and it is positive only while a raw row is
\* still accepted: whatever the store errors, the crashes and the number of
\* workers, when no spool delivers a record again, no replay runs and every
\* decodable payload holds a record.
THEOREM NoPhantomPendingHolds ==
    ASSUME Durable, NoRedelivery, NoEmptyPayload, Replayer = {}
    PROVE  Spec => []NoPhantomPending
<1>1. Init => PendingInv
  <2> SUFFICES ASSUME Init PROVE PendingInv
    OBVIOUS
  <2>1. ChildRowsOK
    BY DEF Init, StoreInit, ChildRowsOK
  <2> QED BY <2>1, LossInit, OneInit, OwedInit DEF PendingInv
<1>2. PendingInv /\ [Next]_vars => PendingInv'
  <2> SUFFICES ASSUME PendingInv, [Next]_vars PROVE PendingInv'
    OBVIOUS
  <2>1. OneHandler /\ SafeReplay
    BY DEF OneHandler, SafeReplay
  <2>2. LossInv /\ OneInv /\ ChildRowsOK
    BY DEF PendingInv
  <2>3. LossInv' /\ OneInv'
    BY <2>1, <2>2, LossNext, OneNext
  <2>4. ChildRowsOK'
    BY <2>2, ChildRowsStep
  <2>5. \E V, F : Owed(V, F)'
    BY OwedNext
  <2> QED BY <2>3, <2>4, <2>5 DEF PendingInv
<1>3. PendingInv => NoPhantomPending
  <2> SUFFICES ASSUME PendingInv, Quiescent
               PROVE  pending >= 0 /\ (pending > 0 => RawByStatus("accepted") # {})
    BY DEF NoPhantomPending
  <2>0. /\ inbound = <<>> /\ \A w \in Worker : wk[w].pc = "idle"
        /\ NoSilentLoss /\ TypeInv
    BY DEF Quiescent, PendingInv, LossInv
  <2>1. PICK W, E : Owed(W, E)
    BY DEF PendingInv
  <2>2. Committing = {} /\ Len(inbound) = 0 /\ Cardinality({}) = 0
    BY <2>0, FS_EmptySet DEF Committing
  <2>3. PICK b \in Nat, c \in Nat : b = Cardinality(W) /\ c = Cardinality(Units(E))
    BY <2>1, RawIdFinite, FS_CardinalityType DEF Owed, Places
  <2>4. pending = 0 + 0 + b + c
    BY <2>1, <2>2, <2>3 DEF Owed
  <2>5. ASSUME b > 0 PROVE RawByStatus("accepted") # {}
    <3>1. CASE W = {}
      <4>1. b = 0
        BY <2>2, <2>3, <3>1
      <4> QED BY <2>5, <4>1
    <3>2. CASE W # {}
      BY <2>1, <3>2 DEF Owed, Places, RawByStatus
    <3> QED BY <3>1, <3>2
  <2>6. ASSUME c > 0 PROVE RawByStatus("accepted") # {}
    <3>1. Units(E) # {}
      <4>1. CASE Units(E) = {}
        <5>1. c = 0
          BY <2>2, <2>3, <4>1
        <5> QED BY <2>6, <5>1
      <4> QED BY <4>1
    <3>2. PICK x \in Units(E) : TRUE
      BY <3>1
    <3>3. PICK r \in E, d \in Nat : d < Kids[rawIn[r]] /\ ~HasCompletedChild(r, d)
      BY <3>2 DEF Units
    <3>4. r \in RawId /\ rawStatus[r] # "absent" /\ rawIn[r] \notin Broken
      BY <2>1 DEF Owed, Places
    <3>5. rawIn[r] \in Input /\ rawStatus[r] \in RawStatus \cup {"absent"}
      BY <2>0, <3>4 DEF TypeInv, TypeOK, StoreTypeOK
    <3>6. Kids[rawIn[r]] \in Nat
      BY <3>5, StoreAssumption
    <3>7. d \in Children(rawIn[r])
      BY <3>3, <3>4, <3>6 DEF Children
    <3>8. rawStatus[r] \notin Final
      BY <2>0, <3>3, <3>4, <3>7 DEF NoSilentLoss, Complete
    <3> QED BY <3>4, <3>5, <3>8 DEF RawStatus, RawByStatus
  <2> QED BY <2>3, <2>4, <2>5, <2>6
<1> QED BY <1>1, <1>2, <1>3, PTL DEF Spec

==============================================================================
