--------------------------- MODULE MCMarketplace ----------------------------
(***************************************************************************)
(* A pack with the releases 1.0, 1.1, 1.2-rc1 (for a newer WORM) and 2.0;  *)
(* the second catalog adds the last two and withdraws 1.0.                 *)
(***************************************************************************)
EXTENDS Marketplace, TLC

MCMajorOf == <<1, 1, 1, 2>>
MCCatalog == << [releases |-> {1, 2}, withdrawn |-> {}], [releases |-> 1 .. 4, withdrawn |-> {1}] >>
MCBundle == {[cat |-> 1, artifacts |-> {1, 2}], [cat |-> 2, artifacts |-> {2, 4}]}
MCPosted == Custom \cup {1}
MCSymmetry == Permutations(Client)

=============================================================================
