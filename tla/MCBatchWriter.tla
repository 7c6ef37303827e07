--------------------------- MODULE MCBatchWriter ---------------------------
(* BatchWriter on two ticks with the same (ts, source) and a book row, through *)
(* two lives of the process.                                                   *)
EXTENDS BatchWriter

CONSTANTS s1, s2, b1, k1

MCTableOf == [r \in Row |-> IF r = b1 THEN "book" ELSE "spot"]
MCKeyOf == [r \in Row |-> k1]
=============================================================================
