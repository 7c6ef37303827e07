----------------------------- MODULE MCStrategy -----------------------------
(***************************************************************************)
(* Two families of markets: the walk over every book of at most three      *)
(* quotes, and the gates over every combination of their inputs.           *)
(***************************************************************************)
EXTENDS Strategy

MCInstant == -4..6

Quoted(T) == {[ts |-> t, bid |-> a - 1, ask |-> a] : t \in T, a \in {1, 2, 4}}

\* At most three quotes, one per instant.
Books(T) ==
  {{}} \cup {b \in {{p, q, r} : p, q, r \in Quoted(T)} :
               \A p, q \in b : p.ts = q.ts => p = q}

Fresh == [spotAge |-> 0, strikeAge |-> 0, above |-> TRUE, pct |-> None]

Given(signal, retry, interval, agreement) ==
  [signal |-> signal, minAsk |-> 2, retry |-> retry, interval |-> interval,
   maxBook |-> 1, maxSpot |-> 1, minAgreement |-> agreement]

Walks ==
  {[book |-> [Up |-> b, Down |-> {}], inputs |-> Fresh] : b \in Books(MCInstant \ {-2})}
    \X {Given("spot_vs_strike", r[1], r[2], 0) :
          r \in {<<FALSE, 1>>, <<TRUE, 0>>, <<TRUE, 1>>, <<TRUE, 2>>}}

EntryBooks == {{}} \cup {{q} : q \in Quoted({-4, -1})}

Gated ==
  {[book |-> [Up |-> u, Down |-> d],
    inputs |-> [spotAge |-> a, strikeAge |-> s, above |-> v, pct |-> p]] :
     u \in EntryBooks, d \in EntryBooks, a \in {None, 0, 2}, s \in {None, 0, 2},
     v \in BOOLEAN, p \in {None, 30, 80}}
    \X {Given(g, FALSE, 1, m) : g \in {"pm_price", "spot_vs_strike"}, m \in {0, 50}}

MCInput == Walks \cup Gated
=============================================================================
