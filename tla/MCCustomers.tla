----------------------------- MODULE MCCustomers -----------------------------
(* Instances of Customers for the model checker.                            *)
EXTENDS CustomersObserved, TLC

Symmetry == Permutations(Clients) \cup Permutations(Ids)
              \cup Permutations(Emails)
=============================================================================
