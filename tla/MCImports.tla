------------------------------ MODULE MCImports ------------------------------
(* Instances of Imports for the model checker: job 1 is the upload of a sheet *)
(* that names a key twice and has an invalid row, job 2 a data file that      *)
(* shares a key with it.                                                      *)
EXTENDS Imports, TLC

MCMaxAttempts == [j \in Jobs |-> IF j = 1 THEN 2 ELSE 1]
MCFileOf == [j \in Jobs |-> IF j = 1 THEN "upload-1.xlsx" ELSE "data.xlsx"]
MCRows == [j \in Jobs |-> IF j = 1 THEN <<"k1", Invalid, "k1">>
                                   ELSE <<"k2", "k1">>]

Symmetry == Permutations(Workers)
=============================================================================
