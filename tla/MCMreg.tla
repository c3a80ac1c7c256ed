------------------------------- MODULE MCMreg -------------------------------
EXTENDS Mreg

(* Regions inside one megabyte.                                            *)
SmallRegions == {[adr |-> a, size |-> 2] : a \in {0, 5}}
=============================================================================
