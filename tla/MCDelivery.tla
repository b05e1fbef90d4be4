----------------------------- MODULE MCDelivery -----------------------------
(***************************************************************************)
(* Small instances of Delivery for TLC: one connection destination of each *)
(* kind in turn, beside the standard output of main.                       *)
(***************************************************************************)
EXTENDS Delivery

CONSTANTS kinds   \* the kinds the connection destinations range over

MCKindings == {k \in [Dest -> Kind] : (\A d \in Static : k[d] = "direct") /\ (\A d \in Conn : k[d] \in kinds)}

=============================================================================
