------------------------ MODULE MCPropertyIngestion ------------------------
(***************************************************************************)
(* Instances of PropertyIngestion for TLC.                                 *)
(***************************************************************************)
EXTENDS PropertyIngestion

CONSTANTS i1, i2, price, v1, v2, j1, j2

MCRank == [i \in Items |-> IF i = i1 THEN 1 ELSE 2]
=============================================================================
