---------------------------- MODULE MCMarketFeed ----------------------------
(* Two markets, one of them later than the other, two breaks and one failure. *)
EXTENDS MarketFeed

MCMarket == 1..2
=============================================================================
