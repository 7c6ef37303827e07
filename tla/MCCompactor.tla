---------------------------- MODULE MCCompactor ----------------------------
(* Two instants to a second and three adjacent windows of a second.  The     *)
(* transaction of the oldest market, p, never succeeds.  Market a is the     *)
(* second 6..8 and has two tokens; of its quotes three are of one token in   *)
(* that second, two of which tie, and one is just after the end, in the      *)
(* second that begins there.  The quote of b, one without prices, is beyond  *)
(* the scope of b and may arrive while a is compacted.                       *)
EXTENDS Compactor

CONSTANTS p, a, b, up, dn, tb,
          up6, up7, up7x, dn6, up9, b13

MCStart == [m \in Market |-> CASE m = p -> 4 [] m = a -> 6 [] m = b -> 8]
MCEnd == [m \in Market |-> MCStart[m] + 2]
MCMarketOf == [k \in Token |-> IF k = tb THEN b ELSE a]
MCTokenOf == [r \in Row |-> CASE r = dn6 -> dn [] r = b13 -> tb [] OTHER -> up]
MCTsOf == [r \in Row |-> CASE r \in {up6, dn6} -> 6
                           [] r \in {up7, up7x} -> 7
                           [] r = up9 -> 9
                           [] r = b13 -> 13]
=============================================================================
