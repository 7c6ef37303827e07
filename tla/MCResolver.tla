----------------------------- MODULE MCResolver -----------------------------
(* The durations keep the order of the real ones, 5 < 30 < 45 < 60 < 180 <    *)
(* 300 seconds; the windows are adjacent, as the five-minute markets are.     *)
EXTENDS Resolver

CONSTANTS w1, w2, m1, m2

\* Bursts: with the first tick of the first window long after its start and the
\* last one of the second before its end; and dense from the first end on.
MCStreams == {{0, 1, 6, 7, 8, 12}, {2, 5, 7, 8, 9, 10, 13, 14, 15, 16}}
OneStreams == {Time}

MCStart == [m \in {m1, m2} |-> IF m = m1 THEN 3 ELSE 9]
MCEnd == [m \in {m1, m2} |-> IF m = m1 THEN 9 ELSE 15]
OneStart == [m \in {m1} |-> 3]
OneEnd == [m \in {m1} |-> 9]

\* Prices that go up and down and repeat.
MCPrice == [t \in Time |-> (t * t) % 5]
=============================================================================
