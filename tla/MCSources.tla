----------------------------- MODULE MCSources ------------------------------
(***************************************************************************)
(* Small instances of Sources for TLC.                                     *)
(***************************************************************************)
EXTENDS Sources

\* The producer does not use a file name twice.
MCNameOf == [f \in File |-> f]

=============================================================================
