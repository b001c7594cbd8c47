--------------------------- MODULE MCImportsClaims ---------------------------
(* An instance of ImportsClaims for the model checker: one upload, tried twice. *)
EXTENDS ImportsClaims

MCMaxAttempts == [j \in Jobs |-> 2]
MCFileOf == [j \in Jobs |-> "upload-1.xlsx"]
MCRows == [j \in Jobs |-> <<"k1", "k1">>]
=============================================================================
