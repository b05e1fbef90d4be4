----------------------------- MODULE MCPackStore -----------------------------
(***************************************************************************)
(* A small instance of PackStore for TLC: two versions of pack a and one   *)
(* of pack b; a directory may start with a pack in a file of another name. *)
(***************************************************************************)
EXTENDS PackStore

MCNameOf == [p \in Pack |-> IF p = "b1" THEN "b" ELSE "a"]
MCFileOf == [n \in Name |-> IF n = "b" THEN "b.yaml" ELSE "a.yaml"]

\* An empty directory, and one with pack a in a file of another name.
MCTidy == {[f \in File |-> None], [f \in File |-> IF f = "x.yaml" THEN "a1" ELSE IF f = "b.yaml" THEN "b1" ELSE None]}

=============================================================================
