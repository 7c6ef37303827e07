----------------------------- MODULE MCSession -----------------------------
(* Three markets; two values of each control, the larger N short of all three; *)
(* a URL can hold the other control's values, which are not allowed, too.      *)
EXTENDS Session

CONSTANT Garbage

MCMarket == 1..3
MCValue == [x_sec |-> {5, 20}, n_markets |-> {1, 2}]
MCDefault == [x_sec |-> 20, n_markets |-> 2]
MCUrlValue == {1, 2, 5, 20, Garbage}
=============================================================================
