----------------------------- MODULE MCPipeline -----------------------------
(***************************************************************************)
(* Small instances of Pipeline for TLC.  Each configuration file picks the *)
(* inputs that may be submitted; what they contain is fixed here.          *)
(***************************************************************************)
EXTENDS PipelineCustody, TLC

CONSTANTS Offered   \* the inputs of a configuration, by name

Kinds == {"one", "bad", "late", "pair", "mixed", "garbled", "empty", "spooled", "respooled"}
ASSUME Offered \subseteq Kinds

MCKids == [i \in Offered |->
    IF i \in {"pair", "mixed"} THEN 2 ELSE IF i \in {"garbled", "empty"} THEN 0 ELSE 1]

MCBroken == Offered \cap {"garbled"}

\* late, spooled and respooled have the same file coordinates and different bytes.
MCFileKey == [i \in Offered |-> IF i \in {"late", "spooled", "respooled"} THEN "f1" ELSE "none"]

\* "late" and the first child of "mixed" match only in the packs of v2.
MCVerdict(s, i, c) ==
    IF i = "bad" THEN "validate_error"
    ELSE IF s = "v1" /\ (i = "late" \/ (i = "mixed" /\ c = 0)) THEN "unknown_source"
    ELSE "ok"

=============================================================================
