------------------------------ MODULE MCListing ------------------------------
(* Instances of Listing for the model checker.                              *)
EXTENDS Listing

MCSortValues == {1, 2, 3}
Symmetry == Permutations(Customers)
=============================================================================
