------------------------------ MODULE Custody ------------------------------
(***************************************************************************)
(* What the pipeline promises about a record once it is committed, without *)
(* queues, workers, crashes or tables: each record owes one outcome per    *)
(* child; an outcome is never taken back, and only ever improves from      *)
(* quarantined to normalized; a record is closed (a restart does not look  *)
(* at it again) only when every child has its outcome.  A closed record    *)
(* may be opened again, which only costs a second look.                    *)
(***************************************************************************)
CONSTANTS
    Raw,        \* identities of committed records
    Content,    \* what a record may contain
    Owed(_)     \* the children a content owes an outcome for

VARIABLES
    outcome,    \* [Raw -> [child -> outcome]], the empty function if not committed
    closed      \* records that no restart recovers

custody == <<outcome, closed>>

Outcome == {"none", "quarantined", "normalized"}
Nothing == [c \in {} |-> "none"]

Decided(f) == \A c \in DOMAIN f : f[c] # "none"

Init == outcome = [r \in Raw |-> Nothing] /\ closed = {}

\* A record is committed; nothing is decided yet.
Accept(r, i) ==
    /\ outcome[r] = Nothing /\ r \notin closed
    /\ outcome' = [outcome EXCEPT ![r] = [c \in Owed(i) |-> "none"]]
    /\ UNCHANGED closed

\* A child gets its first outcome.
Decide(r, c, o) ==
    /\ outcome[r][c] = "none"
    /\ outcome' = [outcome EXCEPT ![r][c] = o]
    /\ UNCHANGED closed

\* A quarantined child is normalized after all; its record may be closed with it.
Redeem(r, c) ==
    /\ outcome[r][c] = "quarantined"
    /\ outcome' = [outcome EXCEPT ![r][c] = "normalized"]
    /\ closed' \in {closed, closed \cup {r}}
    /\ r \in closed' => Decided(outcome[r])

Close(r) == Decided(outcome[r]) /\ closed' = closed \cup {r} /\ UNCHANGED outcome
Reopen(r) == closed' = closed \ {r} /\ UNCHANGED outcome

Next ==
    \E r \in Raw :
        \/ \E i \in Content : Accept(r, i)
        \/ \E c \in DOMAIN outcome[r] :
              \/ \E o \in {"quarantined", "normalized"} : Decide(r, c, o)
              \/ Redeem(r, c)
        \/ Close(r) \/ Reopen(r)

Spec == Init /\ [][Next]_custody

=============================================================================
