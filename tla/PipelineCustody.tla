-------------------------- MODULE PipelineCustody --------------------------
(***************************************************************************)
(* The refinement mapping from Pipeline to Custody.  A normalized row      *)
(* outweighs a quarantine row of the same child, which two workers on one  *)
(* redelivered record can leave behind; the quarantine row of an empty     *)
(* payload belongs to no child.                                            *)
(***************************************************************************)
EXTENDS Pipeline

ChildOutcome(r, c) ==
    IF <<r, c>> \in norm THEN "normalized"
    ELSE IF HasCompletedChild(r, c) THEN "quarantined" ELSE "none"

OutcomeMap ==
    [r \in RawId |->
        IF rawStatus[r] = "absent" THEN [c \in {} |-> "none"]
        ELSE [c \in Children(rawIn[r]) |-> ChildOutcome(r, c)]]

ClosedMap == {r \in RawId : rawStatus[r] \in Final}

Promise == INSTANCE Custody WITH
    Raw <- RawId, Content <- Input, Owed <- Children,
    outcome <- OutcomeMap, closed <- ClosedMap

\* The pipeline with its queue, workers, replays, store errors and restarts
\* keeps the promise of Custody: outcomes are never taken back, and no record
\* is closed with a child undecided.
KeepsCustody == Promise!Spec

=============================================================================
