--------------------------- MODULE MCConnections ----------------------------
(***************************************************************************)
(* A small instance of Connections for TLC: a TLS listener, a consumer     *)
(* that ends with an error, a sink, and the same sink with a manifest that *)
(* does not compile.                                                       *)
(***************************************************************************)
EXTENDS Connections

MCNameOf == [m \in Manifest |-> IF m = "siemBad" THEN "siem" ELSE m]

=============================================================================
