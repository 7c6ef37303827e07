-------------------------- MODULE CompactorProofs --------------------------
(***************************************************************************)
(* The safety properties of Compactor, for every set of markets, quotes    *)
(* and compactors on one database.                                         *)
(***************************************************************************)
EXTENDS Compactor, IntegerFacts, TLAPS

Mine(m) == {r \in Row : MarketOf[TokenOf[r]] = m}
HomeOf(r) == MarketOf[TokenOf[r]]

\* What the compactor may keep of a market once all its quotes have arrived.
Kept(m) == Latest(arrived \cap Scope(m))

\* At most one quote of each token and second.
OnePerSecond(rows) == \A r, s \in rows : SameSecond(r, s) => r = s

\* A pass works on old markets, and has written what its statements wrote.
PassGoesOn ==
  \A w \in Worker :
    /\ pc[w] \in {"sleep", "insert"} => ins[w] = {}
    /\ pc[w] \in {"sleep", "insert", "delete"} => del[w] = {}
    /\ pc[w] # "sleep" => todo[w] # {} /\ \A m \in todo[w] : Old(m)

\* The INSERT selected from all of the market's quotes, or from none of them
\* because another compactor had been there.
Inserted ==
  \A w \in Worker :
    pc[w] \in {"delete", "stamp", "commit"} =>
      /\ ins[w] \subseteq Kept(Current(w)) /\ OnePerSecond(ins[w])
      /\ Current(w) \notin stamped =>
           \A r \in Kept(Current(w)) : \E s \in ins[w] : SameSecond(r, s)

\* The DELETE took all that is left of the scope, and nothing else.
Deleted ==
  \A w \in Worker :
    pc[w] \in {"stamp", "commit"} =>
      /\ raw \cap Scope(Current(w)) \subseteq del[w]
      /\ del[w] \subseteq Scope(Current(w))

\* A market without a stamp is as the feed left it ...
Whole ==
  \A m \in Market \ stamped :
    /\ arrived \cap Mine(m) \subseteq raw
    /\ \A w \in Worker, r \in Mine(m) : copies[w][r] = 0

\* ... and one with a stamp has a quote for each second it should have one for.
Compacted ==
  \A m \in stamped :
    /\ Old(m) /\ raw \cap Scope(m) = {}
    /\ \A r \in Kept(m) : \E w \in Worker, s \in Kept(m) :
                            SameSecond(r, s) /\ copies[w][s] > 0

OnlyKept == \A w \in Worker, r \in Row : copies[w][r] > 0 => r \in Kept(HomeOf(r))

OutsideIsRaw ==
  /\ raw \subseteq arrived
  /\ \A r \in arrived : r \in Scope(HomeOf(r)) \/ r \in raw

\* A compactor has copied one quote of a second, once, and is through with the
\* market then.
Spent ==
  \A w \in Worker, r \in Row :
    copies[w][r] > 0 =>
      /\ copies[w][r] = 1 /\ HomeOf(r) \notin todo[w]
      /\ \A s \in Row : copies[w][s] > 0 /\ SameSecond(r, s) => r = s

IInv == /\ TypeOK /\ PassGoesOn /\ Inserted /\ Deleted /\ Whole /\ Compacted
        /\ OnlyKept /\ OutsideIsRaw /\ Spent
-----------------------------------------------------------------------------
(* Lemmas about the operators *)

\* A pass that is not over is at one of its markets.
LEMMA CurrentIsNext ==
  ASSUME TypeOK, NEW w \in Worker, todo[w] # {}
  PROVE  Current(w) \in todo[w] /\ Current(w) \in Market
<1>. DEFINE Ends == {End[m] : m \in todo[w]}
<1>1. todo[w] \subseteq Market /\ \A m \in todo[w] : End[m] \in Nat
  BY WindowAssumption DEF TypeOK
<1>2. Ends \in SUBSET Nat /\ Ends # {}
  BY <1>1
<1>3. \E e \in Ends : \A f \in Ends : e <= f
  BY <1>2, LeastExists
<1>4. \E m \in todo[w] : \A n \in todo[w] : End[m] <= End[n]
  BY <1>3
<1>. QED
  BY <1>1, <1>4 DEF Current

LEMMA CurrentStays ==
  ASSUME NEW w \in Worker, todo'[w] = todo[w] PROVE Current(w)' = Current(w)
  BY DEF Current

LEMMA ScopeIsMine ==
  ASSUME NEW m \in Market
  PROVE  /\ Scope(m) \subseteq Mine(m) /\ Mine(m) \subseteq Row
         /\ \A r \in Scope(m) : HomeOf(r) = m
  BY DEF Scope, Mine, HomeOf

LEMMA EachHasAHome ==
  ASSUME NEW r \in Row PROVE HomeOf(r) \in Market /\ r \in Mine(HomeOf(r))
  BY WindowAssumption DEF Mine, HomeOf

LEMMA LatestSubset == \A rows : Latest(rows) \subseteq rows \cap Quoted
  BY DEF Latest

\* What is selected: one of the latest quotes of each second.
LEMMA SelectionFacts ==
  ASSUME NEW rows \in SUBSET Row, NEW sel \in Selections(rows)
  PROVE  /\ sel \subseteq Latest(rows) /\ sel \subseteq Row /\ OnePerSecond(sel)
         /\ \A r \in Latest(rows) : \E s \in sel : SameSecond(r, s)
<1>1. /\ sel \subseteq Latest(rows) /\ sel \subseteq Row
      /\ \A r \in Latest(rows) :
           \E s \in sel : \A x \in sel : SameSecond(r, x) <=> x = s
  BY LatestSubset DEF Selections
<1>2. OnePerSecond(sel)
  BY <1>1 DEF OnePerSecond, SameSecond
<1>. QED
  BY <1>1, <1>2

\* Quotes of a second are of one market.
LEMMA SameHome ==
  ASSUME NEW r, NEW s, SameSecond(r, s) PROVE HomeOf(r) = HomeOf(s)
  BY DEF SameSecond, HomeOf

LEMMA Durations ==
  /\ Second \in Nat \ {0} /\ Before \in Nat /\ After \in Nat /\ Age \in Nat
  /\ Late \in Nat /\ After + Late < Age
  BY DurationAssumption

\* Nothing arrives any more in the scope of a market that is old.
LEMMA ScopeIsClosed ==
  ASSUME TypeOK, NEW m \in Market, Old(m), NEW r \in Row, Arrive(r)
  PROVE  r \notin Scope(m)
<1>. /\ End[m] \in Nat /\ TsOf[r] \in Nat /\ now \in Nat
     /\ Before \in Nat /\ After \in Nat /\ Age \in Nat /\ Late \in Nat
     /\ After + Late < Age
  BY WindowAssumption, BoundsAssumption, Durations DEF TypeOK
<1>. QED
  BY DEF Arrive, Scope, Old

-----------------------------------------------------------------------------
(* The feed *)

LEMMA Initially == Init => IInv
<1>. SUFFICES ASSUME Init PROVE IInv
  OBVIOUS
<1>1. TypeOK
  BY BoundsAssumption DEF Init, TypeOK
<1>2. /\ PassGoesOn /\ Inserted /\ Deleted /\ Whole /\ Compacted /\ OnlyKept
      /\ OutsideIsRaw /\ Spent
  BY DEF Init, PassGoesOn, Inserted, Deleted, Whole, Compacted, OnlyKept,
         OutsideIsRaw, Mine, Spent
<1>. QED
  BY <1>1, <1>2 DEF IInv

LEMMA ArriveKeeps == ASSUME IInv, NEW r \in Row, Arrive(r) PROVE IInv'
<1>. USE DEF IInv
<1>1. /\ r \notin arrived /\ raw' = raw \cup {r} /\ arrived' = arrived \cup {r}
      /\ UNCHANGED <<now, copies, stamped, pc, todo, ins, del, aborts>>
  BY DEF Arrive, workers
<1>2. \A m \in Market : Old(m) => r \notin Scope(m) /\ Kept(m)' = Kept(m)
  <2>1. ASSUME NEW m \in Market, Old(m) PROVE r \notin Scope(m)
    BY <2>1, ScopeIsClosed
  <2>2. ASSUME NEW m \in Market, Old(m) PROVE arrived' \cap Scope(m) = arrived \cap Scope(m)
    BY <1>1, <2>1, <2>2
  <2>. QED
    BY <2>1, <2>2 DEF Kept
<1>3. TypeOK'
  BY <1>1 DEF TypeOK
<1>4. PassGoesOn'
  BY <1>1 DEF PassGoesOn, Old
<1>5. ASSUME NEW w \in Worker
      PROVE  /\ Current(w)' = Current(w)
             /\ pc[w] # "sleep" => Current(w) \in Market /\ Old(Current(w))
  BY <1>1, CurrentStays, CurrentIsNext DEF PassGoesOn
<1>6. Inserted' /\ Deleted'
  <2>1. ASSUME NEW w \in Worker, pc[w] # "sleep"
        PROVE  /\ Kept(Current(w))' = Kept(Current(w))
               /\ r \notin Scope(Current(w))
    BY <1>2, <1>5, <2>1 DEF Kept
  <2>. QED
    BY <1>1, <1>5, <2>1 DEF Inserted, Deleted
<1>7. Whole' /\ OutsideIsRaw'
  BY <1>1 DEF Whole, OutsideIsRaw
<1>8. Compacted'
  BY <1>1, <1>2 DEF Compacted, Old, TypeOK
<1>9. OnlyKept'
  <2>1. SUFFICES ASSUME NEW w \in Worker, NEW s \in Row, copies[w][s] > 0
                 PROVE  s \in Kept(HomeOf(s))'
    BY <1>1 DEF OnlyKept
  <2>2. HomeOf(s) \in stamped
    BY <2>1, EachHasAHome DEF Whole
  <2>. QED
    BY <1>2, <2>1, <2>2 DEF OnlyKept, Compacted, TypeOK
<1>10. Spent'
  BY <1>1 DEF Spent
<1>. QED
  BY <1>3, <1>4, <1>6, <1>7, <1>8, <1>9, <1>10

LEMMA PassKeeps == ASSUME IInv, Pass PROVE IInv'
<1>. USE DEF IInv
<1>1. /\ now' = now + 1 /\ now < MaxTime
      /\ UNCHANGED <<raw, copies, stamped, arrived, pc, todo, ins, del, aborts>>
  BY DEF Pass, book, workers
<1>2. now \in Nat /\ \A m \in Market : Old(m) => Old(m)'
  BY <1>1, WindowAssumption, BoundsAssumption, Durations DEF TypeOK, Old
<1>3. TypeOK'
  BY <1>1, <1>2, BoundsAssumption DEF TypeOK
<1>4. PassGoesOn'
  BY <1>1, <1>2 DEF PassGoesOn, TypeOK
<1>5. \A w \in Worker : Current(w)' = Current(w)
  BY <1>1, CurrentStays
<1>6. Inserted' /\ Deleted'
  BY <1>1, <1>5 DEF Inserted, Deleted, Kept
<1>7. Whole' /\ OutsideIsRaw' /\ OnlyKept' /\ Spent'
  BY <1>1 DEF Whole, OutsideIsRaw, OnlyKept, Kept, Spent
<1>8. Compacted'
  BY <1>1, <1>2 DEF Compacted, Kept, TypeOK
<1>. QED
  BY <1>3, <1>4, <1>6, <1>7, <1>8
-----------------------------------------------------------------------------
(* The compactors *)

\* A step that changes neither the table nor the feed.
LEMMA BookStays ==
  ASSUME IInv, UNCHANGED <<now, book, arrived>>
  PROVE  /\ Whole' /\ Compacted' /\ OnlyKept' /\ OutsideIsRaw'
         /\ \A m \in Market : Kept(m)' = Kept(m) /\ (Old(m)' <=> Old(m))
  BY DEF IInv, book, Whole, Compacted, OnlyKept, OutsideIsRaw, Kept, Old

LEMMA FetchMarketsKeeps ==
  ASSUME IInv, NEW w \in Worker, FetchMarkets(w) PROVE IInv'
<1>. USE DEF IInv
<1>1. /\ pc[w] = "sleep" /\ Fetch # {}
      /\ todo' \in [Worker -> SUBSET Market] /\ todo'[w] = Fetch
      /\ pc' \in [Worker -> {"sleep", "insert", "delete", "stamp", "commit"}]
      /\ pc'[w] = "insert"
      /\ \A v \in Worker \ {w} : todo'[v] = todo[v] /\ pc'[v] = pc[v]
      /\ UNCHANGED <<now, book, arrived, ins, del, aborts>>
  BY DEF FetchMarkets, TypeOK, Fetch, Eligible
<1>2. TypeOK'
  BY <1>1 DEF TypeOK, book
<1>3. \A m \in Fetch : m \in Market /\ Old(m)
  BY DEF Fetch, Eligible
<1>4. PassGoesOn'
  BY <1>1, <1>3 DEF PassGoesOn, Old
<1>5. \A v \in Worker \ {w} : Current(v)' = Current(v)
  BY <1>1, CurrentStays
<1>6. Inserted' /\ Deleted'
  <2>1. \A v \in Worker :
          pc'[v] \notin {"sleep", "insert"} =>
            /\ pc[v] = pc'[v] /\ Current(v)' = Current(v)
            /\ Kept(Current(v))' = Kept(Current(v))
    BY <1>1, <1>5 DEF Kept
  <2>. QED
    BY <1>1, <2>1 DEF Inserted, Deleted, book
<1>7. Spent'
  <2>1. ASSUME NEW r \in Row, copies[w][r] > 0 PROVE HomeOf(r) \notin Fetch
    BY <2>1, EachHasAHome DEF Whole, Fetch, Eligible
  <2>. QED
    BY <1>1, <2>1 DEF Spent, book
<1>. QED
  BY <1>1, <1>2, <1>4, <1>6, <1>7, BookStays

LEMMA InsertCompactKeeps ==
  ASSUME IInv, NEW w \in Worker, InsertCompact(w) PROVE IInv'
<1>. USE DEF IInv
<1>. DEFINE m == Current(w)
<1>. PICK new \in Selections(raw \cap Scope(m)) : ins' = [ins EXCEPT ![w] = new]
  BY DEF InsertCompact
<1>0. /\ new \subseteq Latest(raw \cap Scope(m)) /\ new \subseteq Row /\ OnePerSecond(new)
      /\ \A r \in Latest(raw \cap Scope(m)) : \E s \in new : SameSecond(r, s)
  BY SelectionFacts DEF TypeOK
<1>1. /\ pc[w] = "insert"
      /\ ins' \in [Worker -> SUBSET Row] /\ ins'[w] = new
      /\ pc' \in [Worker -> {"sleep", "insert", "delete", "stamp", "commit"}]
      /\ pc'[w] = "delete"
      /\ \A v \in Worker \ {w} : ins'[v] = ins[v] /\ pc'[v] = pc[v]
      /\ UNCHANGED <<now, book, arrived, todo, del, aborts>>
  BY <1>0 DEF InsertCompact, TypeOK
<1>2. m \in Market /\ Old(m)
  BY <1>1, CurrentIsNext DEF PassGoesOn
<1>. HIDE DEF m
<1>3. m \notin stamped => raw \cap Scope(m) = arrived \cap Scope(m)
  BY <1>2, ScopeIsMine DEF Whole, OutsideIsRaw
<1>4. /\ new \subseteq Kept(m)
      /\ m \notin stamped => \A r \in Kept(m) : \E s \in new : SameSecond(r, s)
  <2>1. CASE m \in stamped
    <3>1. raw \cap Scope(m) = {}
      BY <2>1 DEF Compacted
    <3>. QED
      BY <1>0, <2>1, <3>1, LatestSubset
  <2>2. CASE m \notin stamped
    BY <1>0, <1>3, <2>2 DEF Kept
  <2>. QED
    BY <2>1, <2>2
<1>5. TypeOK'
  BY <1>1 DEF TypeOK, book
<1>6. PassGoesOn'
  BY <1>1 DEF PassGoesOn, Old
<1>7. \A v \in Worker : Current(v)' = Current(v)
  BY <1>1, CurrentStays
<1>8. Inserted'
  BY <1>0, <1>1, <1>4, <1>7 DEF Inserted, Kept, book, m
<1>9. Deleted'
  BY <1>1, <1>7 DEF Deleted, book
<1>10. Spent'
  BY <1>1 DEF Spent, book
<1>. QED
  BY <1>1, <1>5, <1>6, <1>8, <1>9, <1>10, BookStays

LEMMA DeleteOriginalsKeeps ==
  ASSUME IInv, NEW w \in Worker, DeleteOriginals(w) PROVE IInv'
<1>. USE DEF IInv
<1>1. /\ pc[w] = "delete"
      /\ del' \in [Worker -> SUBSET Row] /\ del'[w] = raw \cap Scope(Current(w))
      /\ pc' \in [Worker -> {"sleep", "insert", "delete", "stamp", "commit"}]
      /\ pc'[w] = "stamp"
      /\ \A v \in Worker \ {w} : del'[v] = del[v] /\ pc'[v] = pc[v]
      /\ UNCHANGED <<now, book, arrived, todo, ins, aborts>>
  BY DEF DeleteOriginals, TypeOK
<1>2. TypeOK'
  BY <1>1 DEF TypeOK, book
<1>3. PassGoesOn'
  BY <1>1 DEF PassGoesOn, Old
<1>4. \A v \in Worker : Current(v)' = Current(v)
  BY <1>1, CurrentStays
<1>5. Inserted' /\ Deleted'
  BY <1>1, <1>4 DEF Inserted, Deleted, Kept, book
<1>6. Spent'
  BY <1>1 DEF Spent, book
<1>. QED
  BY <1>1, <1>2, <1>3, <1>5, <1>6, BookStays

LEMMA StampKeeps ==
  ASSUME IInv, NEW w \in Worker, Stamp(w) PROVE IInv'
<1>. USE DEF IInv
<1>1. /\ pc[w] = "stamp"
      /\ pc' \in [Worker -> {"sleep", "insert", "delete", "stamp", "commit"}]
      /\ pc'[w] = "commit"
      /\ \A v \in Worker \ {w} : pc'[v] = pc[v]
      /\ UNCHANGED <<now, book, arrived, todo, ins, del, aborts>>
  BY DEF Stamp, TypeOK
<1>2. TypeOK'
  BY <1>1 DEF TypeOK, book
<1>3. PassGoesOn'
  BY <1>1 DEF PassGoesOn, Old
<1>4. \A v \in Worker : Current(v)' = Current(v)
  BY <1>1, CurrentStays
<1>5. Inserted' /\ Deleted'
  BY <1>1, <1>4 DEF Inserted, Deleted, Kept, book
<1>6. Spent'
  BY <1>1 DEF Spent, book
<1>. QED
  BY <1>1, <1>2, <1>3, <1>5, <1>6, BookStays

\* What the end of a transaction does to the compactor.
Over(w) ==
  /\ pc' \in [Worker -> {"sleep", "insert", "delete", "stamp", "commit"}]
  /\ todo' \in [Worker -> SUBSET Market]
  /\ ins' \in [Worker -> SUBSET Row] /\ del' \in [Worker -> SUBSET Row]
  /\ pc'[w] = IF todo'[w] = {} THEN "sleep" ELSE "insert"
  /\ todo'[w] \subseteq todo[w] /\ ins'[w] = {} /\ del'[w] = {}
  /\ \A v \in Worker \ {w} :
       /\ pc'[v] = pc[v] /\ todo'[v] = todo[v]
       /\ ins'[v] = ins[v] /\ del'[v] = del[v]

LEMMA NextMarketIsOver ==
  ASSUME TypeOK, NEW w \in Worker, NextMarket(w) PROVE Over(w)
  BY DEF NextMarket, TypeOK, Over

LEMMA RestartIsOver ==
  ASSUME TypeOK, NEW w \in Worker, Restart(w) PROVE Over(w)
  BY DEF Restart, TypeOK, Over

LEMMA OverKeepsPass ==
  ASSUME IInv, NEW w \in Worker, Over(w), now' = now, pc[w] # "sleep"
  PROVE  PassGoesOn' /\ \A v \in Worker \ {w} : Current(v)' = Current(v)
<1>1. \A v \in Worker \ {w} : Current(v)' = Current(v)
  BY CurrentStays DEF Over
<1>2. PassGoesOn'
  BY DEF IInv, PassGoesOn, Over, Old
<1>. QED
  BY <1>1, <1>2

\* A transaction that is rolled back.
LEMMA UndoneKeeps ==
  ASSUME IInv, NEW w \in Worker, pc[w] # "sleep", Over(w),
         UNCHANGED <<now, book, arrived>>, aborts' \in 0..MaxAborts
  PROVE  IInv'
<1>. USE DEF IInv
<1>1. TypeOK'
  BY DEF TypeOK, Over, book
<1>2. PassGoesOn' /\ \A v \in Worker \ {w} : Current(v)' = Current(v)
  BY OverKeepsPass
<1>3. Inserted' /\ Deleted'
  <2>1. \A v \in Worker :
          pc'[v] \notin {"sleep", "insert"} =>
            /\ pc[v] = pc'[v] /\ ins[v] = ins'[v] /\ del[v] = del'[v]
            /\ Current(v)' = Current(v) /\ Kept(Current(v))' = Kept(Current(v))
    BY <1>2 DEF Kept, Over
  <2>. QED
    BY <2>1 DEF Inserted, Deleted, book
<1>4. Spent'
  BY DEF Spent, Over, book
<1>. QED
  BY <1>1, <1>2, <1>3, <1>4, BookStays

LEMMA CommitKeeps ==
  ASSUME IInv, NEW w \in Worker, Commit(w) PROVE IInv'
<1>. USE DEF IInv
<1>1. pc[w] = "commit"
  BY DEF Commit
<1>. PICK m : m = Current(w) /\ m \in todo[w] /\ m \in Market
  BY <1>1, CurrentIsNext DEF PassGoesOn
<1>2. /\ raw' = raw \ del[w] /\ stamped' = stamped \cup {m}
      /\ copies' = [copies EXCEPT ![w] =
           [r \in Row |-> IF r \in ins[w] THEN copies[w][r] + 1 ELSE copies[w][r]]]
      /\ UNCHANGED <<now, arrived, aborts>>
  BY DEF Commit, Applied
<1>3. Over(w)
  BY NextMarketIsOver DEF Commit
<1>4. Old(m)
  BY <1>1 DEF PassGoesOn
<1>5. /\ ins[w] \subseteq Kept(m) /\ OnePerSecond(ins[w])
      /\ m \notin stamped => \A r \in Kept(m) : \E s \in ins[w] : SameSecond(r, s)
      /\ raw \cap Scope(m) \subseteq del[w] /\ del[w] \subseteq Scope(m)
  BY <1>1 DEF Inserted, Deleted
<1>6. /\ ins[w] \subseteq Scope(m)
      /\ \A r \in Scope(m) : r \in Mine(m) /\ HomeOf(r) = m
      /\ \A n \in Market : \A r \in Mine(n) : r \in Row /\ HomeOf(r) = n
  BY <1>4, <1>5, LatestSubset, ScopeIsMine DEF Kept, Mine, HomeOf
<1>7. /\ copies' \in [Worker -> [Row -> Nat]]
      /\ \A v \in Worker, r \in Row :
           /\ copies[v][r] \in Nat /\ copies'[v][r] \in Nat
           /\ copies'[v][r] = IF v = w /\ r \in ins[w] THEN copies[v][r] + 1
                              ELSE copies[v][r]
  BY <1>2 DEF TypeOK
<1>8. \A n : Kept(n)' = Kept(n)
  BY <1>2 DEF Kept
<1>9. TypeOK'
  BY <1>2, <1>3, <1>4, <1>7 DEF TypeOK, Over
<1>10. PassGoesOn' /\ \A v \in Worker \ {w} : Current(v)' = Current(v)
  BY <1>1, <1>2, <1>3, OverKeepsPass
<1>11. Inserted' /\ Deleted'
  BY <1>2, <1>3, <1>10 DEF Inserted, Deleted, Kept, Over
<1>12. Whole'
  <2>1. SUFFICES ASSUME NEW n \in Market, n \notin stamped, n # m
                 PROVE  /\ arrived \cap Mine(n) \subseteq raw'
                        /\ \A v \in Worker, r \in Mine(n) : copies'[v][r] = 0
    BY <1>2 DEF Whole
  <2>2. \A r \in Mine(n) : r \in Row /\ r \notin ins[w] /\ r \notin del[w]
    BY <1>5, <1>6, <2>1
  <2>. QED
    BY <1>2, <1>7, <2>1, <2>2 DEF Whole
<1>13. Compacted'
  <2>1. \A n \in Market : \A r \in Kept(n) : r \in Row
    BY LatestSubset DEF Kept, Scope
  <2>2. ASSUME NEW n \in stamped, NEW r \in Kept(n)
        PROVE  \E v \in Worker, s \in Kept(n) : SameSecond(r, s) /\ copies'[v][s] > 0
    <3>1. PICK v \in Worker, s \in Kept(n) : SameSecond(r, s) /\ copies[v][s] > 0
      BY <2>2 DEF Compacted
    <3>2. s \in Row
      BY <2>1, <2>2 DEF TypeOK
    <3>. QED
      BY <1>7, <3>1, <3>2
  <2>3. ASSUME m \notin stamped, NEW r \in Kept(m)
        PROVE  \E v \in Worker, s \in Kept(m) : SameSecond(r, s) /\ copies'[v][s] > 0
    <3>1. PICK s \in ins[w] : SameSecond(r, s)
      BY <1>5, <2>3
    <3>2. s \in Kept(m) /\ s \in Row
      BY <1>5, <2>1, <3>1
    <3>3. copies'[w][s] > 0
      BY <1>7, <3>1, <3>2
    <3>. QED
      BY <3>1, <3>2, <3>3
  <2>4. \A n \in stamped : Old(n)' /\ raw' \cap Scope(n) = {}
    BY <1>2 DEF Compacted, Old
  <2>5. Old(m)' /\ raw' \cap Scope(m) = {}
    BY <1>2, <1>4, <1>5 DEF Old
  <2>. QED
    BY <1>2, <1>8, <2>2, <2>3, <2>4, <2>5 DEF Compacted
<1>14. OnlyKept'
  <2>1. SUFFICES ASSUME NEW v \in Worker, NEW r \in Row, copies'[v][r] > 0
                 PROVE  r \in Kept(HomeOf(r))
    BY <1>8 DEF OnlyKept
  <2>2. CASE r \in ins[w]
    BY <1>5, <1>6, <2>2
  <2>3. CASE r \notin ins[w]
    BY <1>7, <2>1, <2>3 DEF OnlyKept
  <2>. QED
    BY <2>2, <2>3
<1>15. OutsideIsRaw'
  BY <1>2, <1>5, <1>6 DEF OutsideIsRaw
<1>16. Spent'
  \* The compactor has never copied a quote of this market before.
  <2>1. \A r \in Row : copies[w][r] > 0 => HomeOf(r) # m
    BY DEF Spent
  <2>2. \A r \in ins[w] : r \in Row /\ HomeOf(r) = m /\ copies[w][r] = 0
    BY <1>5, <1>6, <1>7, <2>1 DEF Mine
  <2>3. m \notin todo'[w] /\ todo'[w] \subseteq todo[w]
    BY DEF Commit, NextMarket, TypeOK
  <2>4. \A r \in Row : copies'[w][r] > 0 =>
          copies'[w][r] = 1 /\ HomeOf(r) \notin todo'[w]
    BY <1>7, <2>2, <2>3 DEF Spent
  <2>5. ASSUME NEW r \in Row, NEW s \in Row, copies'[w][r] > 0, copies'[w][s] > 0,
               SameSecond(r, s)
        PROVE  r = s
    <3>1. HomeOf(r) = HomeOf(s)
      BY <2>5, SameHome
    <3>2. CASE r \in ins[w] /\ s \in ins[w]
      BY <1>5, <2>5, <3>2 DEF OnePerSecond
    <3>3. CASE r \notin ins[w] /\ s \notin ins[w]
      BY <1>7, <2>5, <3>3 DEF Spent
    <3>4. CASE r \in ins[w] /\ s \notin ins[w]
      BY <1>7, <2>1, <2>2, <2>5, <3>1, <3>4
    <3>5. CASE r \notin ins[w] /\ s \in ins[w]
      BY <1>7, <2>1, <2>2, <2>5, <3>1, <3>5
    <3>. QED
      BY <3>2, <3>3, <3>4, <3>5
  <2>6. ASSUME NEW v \in Worker \ {w}
        PROVE  todo'[v] = todo[v] /\ \A r \in Row : copies'[v][r] = copies[v][r]
    BY <1>3, <1>7 DEF Over
  <2>. QED
    BY <2>4, <2>5, <2>6 DEF Spent
<1>. QED
  BY <1>9, <1>10, <1>11, <1>12, <1>13, <1>14, <1>15, <1>16
-----------------------------------------------------------------------------
(* The specification *)

LEMMA StepKeeps == ASSUME IInv, [Next]_vars PROVE IInv'
<1>1. CASE UNCHANGED vars
  <2>1. \A w \in Worker : Current(w)' = Current(w)
    BY <1>1, CurrentStays DEF vars, workers
  <2>2. TypeOK' /\ PassGoesOn' /\ Spent'
    BY <1>1
    DEF vars, book, workers, IInv, TypeOK, PassGoesOn, Old, Spent
  <2>3. Inserted' /\ Deleted'
    BY <1>1, <2>1 DEF vars, book, workers, IInv, Inserted, Deleted, Kept
  <2>. QED
    BY <1>1, <2>2, <2>3, BookStays DEF vars, IInv
<1>2. CASE Pass
  BY <1>2, PassKeeps
<1>3. ASSUME NEW r \in Row, Arrive(r) PROVE IInv'
  BY <1>3, ArriveKeeps
<1>4. ASSUME NEW w \in Worker, Abort(w) \/ AbortPoison(w) PROVE IInv'
  <2>1. Over(w) /\ UNCHANGED <<now, book, arrived>> /\ pc[w] # "sleep"
    BY <1>4, NextMarketIsOver DEF IInv, Abort, AbortPoison, Undone, Logged
  <2>2. aborts' \in 0..MaxAborts
    BY <1>4, BoundsAssumption DEF IInv, TypeOK, Abort, AbortPoison
  <2>. QED
    BY <2>1, <2>2, UndoneKeeps
<1>5. ASSUME NEW w \in Worker, Restart(w) PROVE IInv'
  <2>1. Over(w) /\ UNCHANGED <<now, book, arrived>> /\ pc[w] # "sleep"
    BY <1>5, RestartIsOver DEF IInv, Restart
  <2>2. aborts' \in 0..MaxAborts
    BY <1>5, BoundsAssumption DEF IInv, TypeOK, Restart
  <2>. QED
    BY <2>1, <2>2, UndoneKeeps
<1>. QED
  BY <1>1, <1>2, <1>3, <1>4, <1>5, FetchMarketsKeeps, InsertCompactKeeps,
     DeleteOriginalsKeeps, StampKeeps, CommitKeeps DEF Next, Work

\* The inductive invariant holds in every reachable state.
THEOREM Invariance == Spec => []IInv
  BY Initially, StepKeeps, PTL DEF Spec

\* The table, its history and the compactors keep their types.
THEOREM TypeIsCorrect == Spec => []TypeOK
<1>1. IInv => TypeOK
  BY DEF IInv
<1>. QED
  BY <1>1, Invariance, PTL

\* A market is as the feed left it, or stamped, old and free of originals in
\* its scope, with any number of compactors, aborts and restarts.
THEOREM NeverHalfDone == Spec => []AllOrNothing
<1>1. IInv => AllOrNothing
  BY DEF IInv, AllOrNothing, Whole, Compacted, Mine
<1>. QED
  BY <1>1, Invariance, PTL

\* Nothing outside a scope is touched, a compactor copies one quote of a second
\* once, and no second is compacted to two moments.
THEOREM CopiesAreBounded == Spec => []CopiesBounded
<1>1. ASSUME IInv PROVE CopiesBounded
  <2>1. \A r \in arrived : r \in Scope(MarketOf[TokenOf[r]]) \/ r \in raw
    BY <1>1 DEF IInv, OutsideIsRaw, HomeOf
  <2>2. \A w \in Worker, r \in Row : copies[w][r] <= 1
    BY <1>1 DEF IInv, Spent, TypeOK
  <2>3. ASSUME NEW v \in Worker, NEW w \in Worker, NEW r \in Row, NEW s \in Row,
               copies[v][r] > 0, copies[w][s] > 0, SameSecond(r, s)
        PROVE  TsOf[r] = TsOf[s] /\ (v = w => r = s)
    <3>1. r \in Kept(HomeOf(r)) /\ s \in Kept(HomeOf(r))
      BY <1>1, <2>3, SameHome DEF IInv, OnlyKept
    <3>2. TsOf[r] <= TsOf[s] /\ TsOf[s] <= TsOf[r]
      BY <2>3, <3>1 DEF Kept, Latest, SameSecond
    <3>3. TsOf[r] \in Nat /\ TsOf[s] \in Nat
      BY WindowAssumption
    <3>. QED
      BY <1>1, <2>3, <3>2, <3>3 DEF IInv, Spent
  <2>. QED
    BY <2>1, <2>2, <2>3 DEF CopiesBounded
<1>. QED
  BY <1>1, Invariance, PTL
-----------------------------------------------------------------------------
(* What a reader sees second by second *)

LEMMA SecondBounds ==
  ASSUME NEW t \in Nat
  PROVE  /\ SecondOf(t) \in Int /\ Trunc(t) \in Nat /\ Trunc(t) <= t
         /\ SecondOf(Trunc(t)) = SecondOf(t)
<1>. DEFINE q == SecondOf(t)
            e == t % Second
<1>1. q \in Int /\ e \in 0..(Second - 1) /\ t = Second * q + e
  BY DivMod, Durations DEF SecondOf
<1>2. Second * q \in Int /\ Second * q <= t
  BY <1>1, Durations
<1>3. SecondOf(Second * q) = q
  <2>. DEFINE n == Second * q
  <2>1. n < (q + 1) * Second /\ ~(n < ((q - 1) + 1) * Second)
    BY <1>1, Durations
  <2>2. q + 1 \in Int /\ q - 1 \in Int /\ n \in Int
    BY <1>1, <1>2
  <2>. HIDE DEF n, q
  <2>3. SecondOf(n) \in Int /\ SecondOf(n) <= q /\ ~(SecondOf(n) <= q - 1)
    BY <1>1, <2>1, <2>2, DivIsFloor, Durations DEF SecondOf
  <2>. QED
    BY <1>1, <2>3 DEF n
<1>4. q >= 0
  <2>1. -1 \in Int /\ (-1 + 1) * Second = 0 /\ ~(t < 0)
    BY Durations
  <2>2. ~(q <= -1)
    BY <2>1, DivIsFloor, Durations DEF SecondOf
  <2>. QED
    BY <1>1, <2>2
<1>5. Second * q \in Nat
  BY <1>1, <1>4, Durations
<1>. QED
  BY <1>1, <1>2, <1>3, <1>5 DEF Trunc

\* A scope begins and an entry is at the start of a second, a window ends with
\* one: a second is before or after, and one before the end is in the scope as
\* soon as it begins no earlier.
LEMMA SecondIsWhole ==
  ASSUME NEW j \in Int, NEW t \in Nat
  PROVE  /\ SecondOf(t) < j => t < Second * j
         /\ j <= SecondOf(t) => Second * j <= t
<1>1. ((j - 1) + 1) * Second = Second * j /\ j - 1 \in Int /\ SecondOf(t) \in Int
  BY Durations, SecondBounds
<1>2. SecondOf(t) <= j - 1 <=> t < Second * j
  BY <1>1, DivIsFloor, Durations DEF SecondOf
<1>3. Second * j \in Int
  BY Durations
<1>. QED
  BY <1>1, <1>2, <1>3

LEMMA WholeSeconds ==
  ASSUME NEW m \in Market
  PROVE  \E i, j \in Int : Start[m] - Before = Second * i /\ End[m] = Second * j
<1>1. \A b \in Int : b % Second = 0 => \E i \in Int : b = Second * i
  <2>1. SUFFICES ASSUME NEW b \in Int, b % Second = 0
                 PROVE  b \div Second \in Int /\ b = Second * (b \div Second)
    OBVIOUS
  <2>. QED
    BY <2>1, DivMod, Durations
<1>2. /\ Start[m] - Before \in Int /\ (Start[m] - Before) % Second = 0
      /\ End[m] \in Int /\ End[m] % Second = 0
  BY WindowAssumption, DurationAssumption, Durations
<1>. QED
  BY <1>1, <1>2

\* A second of the walk: from the entry on, and before the end.
Walked(k, e, s) == e \in Int /\ s \in Int /\ e <= s /\ Second * s < End[MarketOf[k]]

LEMMA WalkedSecond ==
  ASSUME NEW k \in Token, NEW e, NEW s, Walked(k, e, s),
         NEW t \in Nat, SecondOf(t) = s
  PROVE  /\ Second * e <= t /\ t < End[MarketOf[k]]
         /\ \A u \in Nat : /\ SecondOf(u) = s
                           /\ Start[MarketOf[k]] - Before <= u
               => Start[MarketOf[k]] - Before <= t
<1>. DEFINE m == MarketOf[k]
<1>1. m \in Market /\ e \in Int /\ s \in Int
  BY WindowAssumption DEF Walked
<1>. HIDE DEF m
<1>2. PICK i \in Int, j \in Int : Start[m] - Before = Second * i /\ End[m] = Second * j
  BY <1>1, WholeSeconds
<1>3. s < j
  <2>1. Second * s < Second * j
    BY <1>2 DEF Walked, m
  <2>2. SUFFICES ASSUME j <= s PROVE Second * j <= Second * s
    BY <1>1, <2>1, Durations
  <2>3. Second * (s - j) \in Nat
    BY <1>1, <2>2, Durations
  <2>4. Second * (s - j) = Second * s - Second * j
    BY <1>1, Durations
  <2>. QED
    BY <1>1, <2>3, <2>4, Durations
<1>4. Second * e <= t /\ t < End[m]
  BY <1>1, <1>2, <1>3, SecondIsWhole DEF Walked
<1>5. ASSUME NEW u \in Nat, SecondOf(u) = s, Start[m] - Before <= u
      PROVE  Start[m] - Before <= t
  <2>1. i <= s
    BY <1>1, <1>2, <1>5, SecondIsWhole, Durations
  <2>. QED
    BY <1>1, <1>2, <2>1, SecondIsWhole
<1>. QED
  BY <1>4, <1>5 DEF m

\* A quote of token k in second s.
Asks(Q, k, s, t, r) == <<t, r>> \in Q /\ TokenOf[r] = k /\ SecondOf(t) = s

\* The walk reads the newest ones.
LEMMA InView ==
  ASSUME NEW k \in Token, NEW e, NEW s, Walked(k, e, s),
         NEW Q \in SUBSET (Nat \X Row), NEW r
  PROVE  r \in SecondView(Q, k, Second * e, s) <=>
           \E t \in Nat : /\ r \in Row /\ Asks(Q, k, s, t, r)
                          /\ \A u \in Nat, x \in Row : Asks(Q, k, s, u, x) => u <= t
<1>. DEFINE P == {q \in OfToken(Q, k) : /\ SecondOf(q[1]) = s
                                       /\ q[1] >= Second * e
                                       /\ q[1] <= End[MarketOf[k]]}
<1>1. \A q \in P : q = <<q[1], q[2]>> /\ q[1] \in Nat /\ q[2] \in Row
  BY DEF OfToken
<1>2. \A t \in Nat, x \in Row : <<t, x>> \in P <=> Asks(Q, k, s, t, x)
  <2>1. \A t \in Nat : SecondOf(t) = s => t >= Second * e /\ t <= End[MarketOf[k]]
    <3>1. End[MarketOf[k]] \in Nat /\ Second * e \in Int
      BY WindowAssumption, Durations DEF Walked
    <3>. QED
      BY <3>1, WalkedSecond
  <2>. QED
    BY <2>1 DEF OfToken, Asks
<1>. HIDE DEF P
<1>3. r \in Newest(P) <=> \E t \in Nat : /\ <<t, r>> \in P
                                         /\ \A q \in P : q[1] <= t
  <2>1. r \in Newest(P) <=> \E p \in P : p[2] = r /\ \A q \in P : q[1] <= p[1]
    BY DEF Newest
  <2>. QED
    BY <1>1, <2>1
<1>4. \A t : (\A q \in P : q[1] <= t) <=>
               \A u \in Nat, x \in Row : <<u, x>> \in P => u <= t
  BY <1>1
<1>5. \A t : <<t, r>> \in P => r \in Row
  BY <1>1
<1>. QED
  BY <1>2, <1>3, <1>4, <1>5 DEF SecondView, P

\* The quotes of token k in second s, and the last ones of them.
Asked(k, s) == {r \in arrived \cap Quoted : TokenOf[r] = k /\ SecondOf(TsOf[r]) = s}
LastAsked(k, s) == {r \in Asked(k, s) : \A x \in Asked(k, s) : TsOf[x] <= TsOf[r]}

LEMMA LastExists ==
  ASSUME TypeOK, NEW k, NEW s, NEW i \in Asked(k, s), SecondOf(TsOf[i]) = s
  PROVE  LastAsked(k, s) # {}
<1>. DEFINE T == {TsOf[r] : r \in Asked(k, s)}
<1>1. \A r \in Asked(k, s) : r \in Row /\ TsOf[r] \in Nat
  BY WindowAssumption DEF Asked, TypeOK
<1>2. Second * (s + 1) \in Nat /\ \A r \in Asked(k, s) : TsOf[r] <= Second * (s + 1)
  <2>1. s \in Int /\ TsOf[i] \in Nat
    BY <1>1, SecondBounds
  <2>2. \A r \in Asked(k, s) : TsOf[r] < Second * (s + 1)
    BY <1>1, <2>1, SecondIsWhole DEF Asked
  <2>3. Second * (s + 1) \in Int
    BY <2>1, Durations
  <2>. QED
    BY <1>1, <2>1, <2>2, <2>3
<1>3. T \in SUBSET (0..(Second * (s + 1))) /\ T # {}
  BY <1>1, <1>2
<1>4. \E t \in T : \A u \in T : t >= u
  BY <1>2, <1>3, GreatestExists
<1>. QED
  BY <1>1, <1>4 DEF LastAsked

LEMMA ArrivedView ==
  ASSUME TypeOK, NEW k \in Token, NEW e, NEW s, Walked(k, e, s)
  PROVE  SecondView(Quotes(arrived), k, Second * e, s) = LastAsked(k, s)
<1>. DEFINE Q == Quotes(arrived)
            A == Asked(k, s)
<1>1. A \subseteq Row /\ \A x \in Row : TsOf[x] \in Nat
  BY WindowAssumption DEF Asked, TypeOK
<1>2. Q \in SUBSET (Nat \X Row)
  BY <1>1 DEF Quotes, TypeOK
<1>3. \A t \in Nat, x \in Row : Asks(Q, k, s, t, x) <=> x \in A /\ t = TsOf[x]
  BY DEF Quotes, Asked, Asks
<1>4. LastAsked(k, s) = {x \in A : \A y \in A : TsOf[y] <= TsOf[x]}
  BY DEF LastAsked
<1>. HIDE DEF Q, A
<1>5. ASSUME NEW r PROVE r \in SecondView(Q, k, Second * e, s) <=> r \in LastAsked(k, s)
  <2>1. r \in SecondView(Q, k, Second * e, s) <=>
          \E t \in Nat : /\ r \in Row /\ Asks(Q, k, s, t, r)
                         /\ \A u \in Nat, x \in Row : Asks(Q, k, s, u, x) => u <= t
    BY <1>2, InView
  <2>. QED
    BY <1>1, <1>3, <1>4, <2>1
<1>. QED
  BY <1>5 DEF Q

LEMMA BookQuotes ==
  ASSUME TypeOK
  PROVE  /\ Book \in SUBSET (Nat \X Row)
         /\ \A t, x : <<t, x>> \in Book <=>
              \/ x \in raw \cap Quoted /\ t = TsOf[x]
              \/ /\ x \in Row /\ t = Trunc(TsOf[x])
                 /\ \E w \in Worker : copies[w][x] > 0
<1>1. \A x \in Row : TsOf[x] \in Nat /\ Trunc(TsOf[x]) \in Nat
  BY WindowAssumption, SecondBounds
<1>2. \A t, x : <<t, x>> \in Quotes(raw) <=> x \in raw \cap Quoted /\ t = TsOf[x]
  BY DEF Quotes
<1>3. \A t, x : <<t, x>> \in CompactQuotes(copies) <=>
                  /\ x \in Row /\ t = Trunc(TsOf[x])
                  /\ \E w \in Worker : copies[w][x] > 0
  BY DEF CompactQuotes
<1>4. Quotes(raw) \in SUBSET (Nat \X Row) /\ CompactQuotes(copies) \in SUBSET (Nat \X Row)
  BY <1>1 DEF Quotes, CompactQuotes, TypeOK
<1>. QED
  BY <1>2, <1>3, <1>4 DEF Book

\* A second the compactors have not touched is read as it was.
LEMMA SameView ==
  ASSUME NEW Q, NEW R, NEW k, NEW e, NEW s,
         Q \in SUBSET (Nat \X Row), R \in SUBSET (Nat \X Row),
         \A t \in Nat, x \in Row : Asks(Q, k, s, t, x) <=> Asks(R, k, s, t, x)
  PROVE  SecondView(Q, k, e, s) = SecondView(R, k, e, s)
<1>1. {q \in OfToken(Q, k) : /\ SecondOf(q[1]) = s
                            /\ q[1] >= e /\ q[1] <= End[MarketOf[k]]}
        = {q \in OfToken(R, k) : /\ SecondOf(q[1]) = s
                                /\ q[1] >= e /\ q[1] <= End[MarketOf[k]]}
  <2>1. \A q \in Nat \X Row : q = <<q[1], q[2]>> /\ q[1] \in Nat /\ q[2] \in Row
    OBVIOUS
  <2>. QED
    BY <2>1 DEF OfToken, Asks
<1>. QED
  BY <1>1 DEF SecondView

\* Where a market is compacted, a second is read from what was copied of it.
LEMMA StampedView ==
  ASSUME IInv, NEW k \in Token, NEW e, NEW s, Walked(k, e, s),
         MarketOf[k] \in stamped,
         NEW i \in Asked(k, s), i \in Scope(MarketOf[k])
  PROVE  /\ SecondView(Book, k, Second * e, s) \subseteq LastAsked(k, s)
         /\ SecondView(Book, k, Second * e, s) # {}
<1>. DEFINE m == MarketOf[k]
            A == Asked(k, s)
            Copied(x) == \E w \in Worker : copies[w][x] > 0
<1>1. m \in Market /\ m \in stamped /\ TypeOK /\ A \subseteq Row /\ s \in Int
  BY WindowAssumption DEF Asked, IInv, TypeOK, Walked
<1>2. \A x \in Row : /\ TsOf[x] \in Nat /\ Trunc(TsOf[x]) \in Nat
                     /\ Trunc(TsOf[x]) = Second * SecondOf(TsOf[x])
                     /\ SecondOf(Trunc(TsOf[x])) = SecondOf(TsOf[x])
  BY WindowAssumption, SecondBounds DEF Trunc
<1>3. \A x \in A : x \in Scope(m)
  <2>1. SUFFICES ASSUME NEW x \in A PROVE x \in Scope(m)
    OBVIOUS
  <2>2. /\ TsOf[x] \in Nat /\ SecondOf(TsOf[x]) = s
        /\ TsOf[i] \in Nat /\ SecondOf(TsOf[i]) = s
        /\ TokenOf[x] = k /\ Start[m] - Before <= TsOf[i]
        /\ Start[m] - Before \in Int /\ End[m] \in Nat /\ After \in Nat
    BY <1>1, <1>2, <2>1, WindowAssumption, Durations DEF Asked, Scope
  <2>3. Start[m] - Before <= TsOf[x] /\ TsOf[x] < End[m]
    BY <2>2, WalkedSecond
  <2>. QED
    BY <1>1, <2>1, <2>2, <2>3 DEF Scope
<1>4. \A x \in raw \cap Quoted : ~(TokenOf[x] = k /\ SecondOf(TsOf[x]) = s)
  BY <1>1, <1>3 DEF IInv, OutsideIsRaw, Compacted, Asked
<1>5. \A x : /\ x \in Kept(m) /\ TokenOf[x] = k /\ SecondOf(TsOf[x]) = s
             <=> x \in LastAsked(k, s)
  BY <1>3 DEF Kept, Latest, SameSecond, Asked, LastAsked
<1>6. \A x \in Row : TokenOf[x] = k /\ Copied(x) => x \in Kept(m)
  BY DEF IInv, OnlyKept, HomeOf
<1>7. \A t \in Nat, x \in Row :
        Asks(Book, k, s, t, x) <=> x \in LastAsked(k, s) /\ Copied(x) /\ t = Second * s
  <2>1. \A t, x : <<t, x>> \in Book <=>
          \/ x \in raw \cap Quoted /\ t = TsOf[x]
          \/ x \in Row /\ t = Trunc(TsOf[x]) /\ Copied(x)
    BY <1>1, BookQuotes
  <2>2. \A x \in LastAsked(k, s) : x \in Row /\ TokenOf[x] = k /\ SecondOf(TsOf[x]) = s
    BY <1>1 DEF LastAsked, Asked
  <2>. QED
    BY <1>2, <1>4, <1>5, <1>6, <2>1, <2>2 DEF Asks
<1>8. PICK l \in LastAsked(k, s) : Copied(l)
  <2>1. PICK x : x \in LastAsked(k, s)
    BY <1>1, LastExists DEF Asked
  <2>2. x \in Kept(m) /\ TokenOf[x] = k /\ SecondOf(TsOf[x]) = s
    BY <1>5, <2>1
  <2>3. PICK w \in Worker, y \in Kept(m) : SameSecond(x, y) /\ copies[w][y] > 0
    BY <1>1, <2>2 DEF IInv, Compacted
  <2>4. y \in LastAsked(k, s)
    BY <1>5, <2>2, <2>3 DEF SameSecond
  <2>. QED
    BY <2>3, <2>4
<1>9. l \in Row /\ Second * s \in Nat
  BY <1>1, <1>2 DEF LastAsked, Asked
<1>. HIDE DEF A, m, Copied
<1>10. ASSUME NEW r
       PROVE  r \in SecondView(Book, k, Second * e, s) <=>
                \E t \in Nat : /\ r \in Row /\ Asks(Book, k, s, t, r)
                               /\ \A u \in Nat, x \in Row : Asks(Book, k, s, u, x) => u <= t
  BY <1>1, BookQuotes, InView
<1>11. SecondView(Book, k, Second * e, s) \subseteq LastAsked(k, s)
  BY <1>7, <1>10
<1>12. l \in SecondView(Book, k, Second * e, s)
  BY <1>7, <1>8, <1>9, <1>10
<1>. QED
  BY <1>11, <1>12

LEMMA ViewsAgree ==
  ASSUME IInv, NEW k \in Token, NEW e, NEW s, Walked(k, e, s)
  PROVE  LET swapped == SecondView(Book, k, Second * e, s)
             original == SecondView(Quotes(arrived), k, Second * e, s)
         IN  swapped \subseteq original /\ (swapped = {} => original = {})
<1>. DEFINE m == MarketOf[k]
<1>1. TypeOK /\ m \in Market /\ raw \subseteq arrived
  BY WindowAssumption DEF IInv, OutsideIsRaw
<1>2. Quotes(arrived) \in SUBSET (Nat \X Row)
  BY <1>1, WindowAssumption DEF Quotes, TypeOK
<1>3. \A t, x : <<t, x>> \in Quotes(arrived) <=> x \in arrived \cap Quoted /\ t = TsOf[x]
  BY DEF Quotes
<1>4. \A x \in Row : TokenOf[x] = k => x \in Mine(m) /\ HomeOf(x) = m
  BY DEF Mine, HomeOf
<1>5. CASE m \notin stamped
  <2>1. \A x \in Row : TokenOf[x] = k =>
          /\ x \in arrived <=> x \in raw
          /\ \A w \in Worker : ~(copies[w][x] > 0)
    BY <1>1, <1>4, <1>5 DEF IInv, Whole
  <2>2. \A t \in Nat, x \in Row :
          Asks(Book, k, s, t, x) <=> Asks(Quotes(arrived), k, s, t, x)
    BY <1>1, <1>3, <2>1, BookQuotes DEF Asks
  <2>. QED
    BY <1>1, <1>2, <2>2, BookQuotes, SameView
<1>6. CASE m \in stamped /\ \E i \in Asked(k, s) : i \in Scope(m)
  BY <1>1, <1>6, StampedView, ArrivedView
<1>7. CASE m \in stamped /\ \A i \in Asked(k, s) : i \notin Scope(m)
  <2>1. \A w \in Worker, x \in Row : TokenOf[x] = k /\ copies[w][x] > 0 =>
                                      x \in arrived \cap Quoted /\ x \in Scope(m)
    <3>1. Kept(m) \subseteq (arrived \cap Scope(m)) \cap Quoted
      BY LatestSubset DEF Kept
    <3>. QED
      BY <1>4, <3>1 DEF IInv, OnlyKept
  <2>2. \A w \in Worker, x \in Row :
          TokenOf[x] = k /\ copies[w][x] > 0 => SecondOf(Trunc(TsOf[x])) # s
    <3>1. \A x \in Row : SecondOf(Trunc(TsOf[x])) = SecondOf(TsOf[x])
      BY WindowAssumption, SecondBounds
    <3>. QED
      BY <1>7, <2>1, <3>1 DEF Asked
  <2>3. \A x \in Row : TokenOf[x] = k /\ SecondOf(TsOf[x]) = s =>
          (x \in arrived \cap Quoted <=> x \in raw \cap Quoted)
    BY <1>1, <1>4, <1>7 DEF IInv, OutsideIsRaw, Asked
  <2>4. \A t \in Nat, x \in Row :
          Asks(Book, k, s, t, x) <=> Asks(Quotes(arrived), k, s, t, x)
    BY <1>1, <1>3, <2>2, <2>3, BookQuotes DEF Asks
  <2>. QED
    BY <1>1, <1>2, <2>4, BookQuotes, SameView
<1>. QED
  BY <1>5, <1>6, <1>7

\* The retry walk reads, in every second from its entry to the end, a quote it
\* might have read had no compactor ever run: such a second is all inside the
\* scope or all before it, and inside it one of its last quotes is copied.
THEOREM SecondsAreKept == Spec => []SecondsKept
<1>1. IInv => SecondsKept
  <2>1. SUFFICES ASSUME IInv, NEW k \in Token, NEW e \in SecondsOfRows,
                        NEW s \in SecondsOfRows, e <= s, Second * s < End[MarketOf[k]]
                 PROVE  LET swapped == SecondView(Book, k, Second * e, s)
                            original == SecondView(Quotes(arrived), k, Second * e, s)
                        IN  swapped \subseteq original /\ (swapped = {} => original = {})
    BY DEF SecondsKept
  <2>2. Walked(k, e, s)
    BY <2>1, WindowAssumption, SecondBounds DEF Walked, SecondsOfRows
  <2>. QED
    BY <2>1, <2>2, ViewsAgree
<1>. QED
  BY <1>1, Invariance, PTL
=============================================================================
