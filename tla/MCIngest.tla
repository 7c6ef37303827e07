------------------------------ MODULE MCIngest ------------------------------
(* One token: tokens do not interact.  With two prices a side of its book can  *)
(* lose its level, gain the other, and have both, so that a level that does not *)
(* convert leaves a worse top.                                                *)
EXTENDS Ingest

MCPrice == 1..2
=============================================================================
