--------------------------- MODULE StrategyProofs ---------------------------
(* The safety properties of Strategy, for every book and every parameter.    *)
EXTENDS Strategy, WellFoundedInduction, IntegerFacts, TLAPS

USE UnitAssumption, NoneAssumption

-----------------------------------------------------------------------------
(* Lemmas about the operators *)

\* The first instant after second a.
Limit(a) == (a + 1) * Second

\* A time is in second a or before it iff it comes before second a + 1.
LEMMA SecondBound ==
  \A t, a \in Int : /\ SecondOf(t) \in Int
                    /\ Limit(a) \in Int
                    /\ SecondOf(t) <= a <=> t < Limit(a)
BY DivIsFloor DEF SecondOf, Limit

LEMMA LimitFacts ==
  ASSUME NEW a \in Nat
  PROVE  /\ Limit(a) \in Nat
         /\ Limit(a) > 0
         /\ Limit(a) > a * Second
         /\ X * Second \in Nat
         /\ a < X => Limit(a) <= X * Second
<1>1. Limit(a) = a * Second + Second /\ a * Second \in Nat /\ X * Second \in Nat
  BY SMT DEF Limit
<1>2. ASSUME a < X PROVE (a + 1) * Second <= X * Second
  BY <1>2, SMT
<1> QED
  BY <1>1, <1>2 DEF Limit

\* An age of at most m rounded seconds is less than half a second above m.
LEMMA RoundedAge ==
  ASSUME NEW d \in Int, NEW m \in Nat
  PROVE  Seconds(d) \in Int /\ (Seconds(d) <= m <=> 2 * d < (2 * m + 1) * Second)
<1> DEFINE n == 2 * d + Second
           k == 2 * Second
<1>1. n \in Int /\ k \in Nat \ {0} /\ m \in Int
  OBVIOUS
<1>2. (m + 1) * k = (2 * m + 1) * Second + Second /\ (2 * m + 1) * Second \in Int
  OBVIOUS
<1> HIDE DEF n, k
<1>3. n \div k \in Int /\ (n \div k <= m <=> n < (m + 1) * k)
  BY <1>1, DivIsFloor
<1>4. Seconds(d) = n \div k
  BY DEF Seconds, n, k
<1>5. n < (2 * m + 1) * Second + Second <=> 2 * d < (2 * m + 1) * Second
  BY <1>2 DEF n
<1> QED
  BY <1>2, <1>3, <1>4, <1>5

\* A set of quotes none of which is later than B has a newest one.
LEMMA NewestExists ==
  ASSUME NEW S \in SUBSET Quote, S # {}, NEW B \in Int, \A q \in S : q.ts <= B
  PROVE  /\ Newest(S) \in S
         /\ Newest(S) # None
         /\ \A p \in S : p.ts <= Newest(S).ts
<1> DEFINE Age == {B - q.ts : q \in S}
<1>1. \A q \in S : q.ts \in Int
  BY DEF Quote
<1>2. Age \subseteq Nat /\ Age # {}
  BY <1>1
<1> HIDE DEF Age
<1>3. PICK m \in Age : \A n \in Age : ~(<<n, m>> \in OpToRel(<, Nat))
  BY <1>2, NatLessThanWellFounded, WFMin
<1>4. \A n \in Age : ~(n < m)
  BY <1>2, <1>3 DEF OpToRel
<1>5. \E q \in S : \A p \in S : p.ts <= q.ts
  <2>1. PICK q \in S : m = B - q.ts
    BY <1>3 DEF Age
  <2>2. ASSUME NEW p \in S PROVE p.ts <= q.ts
    <3>1. ~(B - p.ts < B - q.ts)
      BY <1>4, <2>1 DEF Age
    <3> QED
      BY <3>1, <1>1
  <2> QED
    BY <2>2
<1> QED
  BY <1>5 DEF Newest

LEMMA NewestOfNone == Newest({}) = None
BY DEF Newest
-----------------------------------------------------------------------------
(* The books of a market *)

\* What every market of Input satisfies.
OneQuotePerInstant ==
  \A k \in Side : \A p, q \in book[k] : p.ts = q.ts => p = q

\* The history rows an attempt at second a looks at.
Rows(a) == {q \in History(side) : SecondOf(q.ts) <= a}

\* The quotes known by second a.
Known(a) == {q \in book[side] : SecondOf(q.ts) <= a}

\* The entry quote is one of the book, not later than t_entry and the newest.
LEMMA EntryFacts ==
  ASSUME book \in [Side -> SUBSET Quote], NEW k \in Side, Entry(k) # None
  PROVE  /\ Entry(k) \in book[k]
         /\ Entry(k) \in Quote
         /\ Entry(k).ts <= 0
         /\ \A q \in book[k] : q.ts <= 0 => q.ts <= Entry(k).ts
<1> DEFINE S == {q \in book[k] : q.ts <= 0}
<1>1. S \in SUBSET Quote /\ \A q \in S : q.ts <= 0
  OBVIOUS
<1>2. Entry(k) = Newest(S)
  BY DEF Entry
<1>3. S # {}
  BY <1>2, NewestOfNone
<1>4. Newest(S) \in S /\ \A p \in S : p.ts <= Newest(S).ts
  BY <1>1, <1>3, NewestExists
<1> QED
  BY <1>1, <1>2, <1>4

\* What an attempt finds, if it finds a row.
LEMMA SnapshotFacts ==
  ASSUME book \in [Side -> SUBSET Quote], side \in Side, NEW a \in Nat,
         Snapshot(a) # None
  PROVE  /\ Snapshot(a) \in Rows(a)
         /\ Snapshot(a) \in book[side]
         /\ Snapshot(a) \in Quote
         /\ Snapshot(a).ts \in Int
         /\ Snapshot(a).ts >= 0
         /\ Snapshot(a).ts < Limit(a)
         /\ \A q \in Rows(a) : q.ts <= Snapshot(a).ts
<1>1. /\ Rows(a) \in SUBSET book[side]
      /\ Rows(a) \in SUBSET Quote
      /\ \A q \in Rows(a) : q.ts >= 0
  BY DEF Rows, History
<1>2. ASSUME NEW q \in Rows(a) PROVE q.ts \in Int /\ q.ts < Limit(a)
  <2>1. q.ts \in Int
    BY <1>1 DEF Quote
  <2>2. SecondOf(q.ts) <= a
    BY DEF Rows
  <2> QED
    BY <2>1, <2>2, SecondBound
<1>3. Limit(a) \in Int /\ \A q \in Rows(a) : q.ts <= Limit(a)
  BY <1>2, LimitFacts
<1>4. Snapshot(a) = Newest(Rows(a))
  BY DEF Snapshot, Rows
<1>5. Rows(a) # {}
  BY <1>4, NewestOfNone
<1>6. Newest(Rows(a)) \in Rows(a) /\ \A p \in Rows(a) : p.ts <= Newest(Rows(a)).ts
  BY <1>1, <1>3, <1>5, NewestExists
<1> QED
  BY <1>1, <1>2, <1>4, <1>6

\* The clipped, subsampled history tells an attempt what the whole book would,
\* once the entry quote was turned down.
LEMMA SnapshotIsKnown ==
  ASSUME book \in [Side -> SUBSET Quote], OneQuotePerInstant, side \in Side,
         NEW a \in Nat, a < X,
         Entry(side) # None, ~Qualifies(Entry(side))
  PROVE  Qualifies(Snapshot(a)) <=> Qualifies(KnownBy(a))
<1> DEFINE n == KnownBy(a)
           e == Entry(side)
<1>1. /\ e \in book[side] /\ e.ts \in Int /\ e.ts <= 0
      /\ \A q \in book[side] : q.ts <= 0 => q.ts <= e.ts
  BY EntryFacts DEF Quote
<1>2. \A q \in book[side] : q \in Quote /\ q.ts \in Int
  BY DEF Quote
<1>3. \A q \in book[side] : /\ SecondOf(q.ts) \in Int
                            /\ SecondOf(q.ts) <= a <=> q.ts < Limit(a)
  BY <1>2, SecondBound
<1>4. Limit(a) \in Nat /\ Limit(a) > 0 /\ Limit(a) <= X * Second /\ X * Second \in Nat
  BY LimitFacts
<1>5. Known(a) = {q \in book[side] : q.ts < Limit(a)}
  BY <1>3 DEF Known
<1>6. e \in Known(a) /\ Known(a) \in SUBSET Quote
  BY <1>1, <1>2, <1>4, <1>5
<1>7. n \in Known(a) /\ \A p \in Known(a) : p.ts <= n.ts
  <2>1. Limit(a) \in Int /\ \A q \in Known(a) : q.ts <= Limit(a)
    BY <1>2, <1>4, <1>5
  <2>2. n = Newest(Known(a))
    BY DEF KnownBy, Known
  <2> QED
    BY <1>6, <2>1, <2>2, NewestExists
<1> HIDE DEF n, e
<1>8. CASE n.ts >= 0
  <2>1. n \in book[side] /\ n.ts \in Int /\ n.ts <= X * Second /\ SecondOf(n.ts) <= a
    BY <1>2, <1>4, <1>5, <1>7 DEF Known
  <2>2. ASSUME NEW p \in book[side], SecondOf(p.ts) = SecondOf(n.ts)
        PROVE  p.ts <= n.ts
    BY <1>7, <2>1, <2>2 DEF Known
  <2>3. n \in Rows(a)
    BY <1>8, <2>1, <2>2 DEF Rows, History
  <2>4. Snapshot(a) # None
    <3>1. Rows(a) \in SUBSET Quote /\ \A q \in Rows(a) : q.ts <= n.ts
      BY <1>2, <1>7 DEF Rows, History, Known
    <3>2. Snapshot(a) = Newest(Rows(a))
      BY DEF Snapshot, Rows
    <3> QED
      BY <2>1, <2>3, <3>1, <3>2, NewestExists
  <2>5. /\ Snapshot(a) \in book[side] /\ Snapshot(a).ts \in Int
        /\ n.ts <= Snapshot(a).ts /\ Snapshot(a).ts <= n.ts
    <3>1. /\ Snapshot(a) \in Rows(a) /\ Snapshot(a) \in book[side]
          /\ Snapshot(a).ts \in Int /\ n.ts <= Snapshot(a).ts
      BY <2>3, <2>4, SnapshotFacts
    <3>2. Snapshot(a) \in Known(a)
      BY <3>1 DEF Rows, Known
    <3> QED
      BY <1>7, <3>1, <3>2
  <2>6. Snapshot(a) = n
    BY <2>1, <2>5 DEF OneQuotePerInstant
  <2> QED
    BY <2>6 DEF n
<1>9. CASE n.ts < 0
  <2>1. Snapshot(a) = None
    <3> SUFFICES ASSUME Snapshot(a) # None PROVE FALSE
      OBVIOUS
    <3>1. /\ Snapshot(a) \in Rows(a) /\ Snapshot(a) \in book[side]
          /\ Snapshot(a).ts \in Int /\ Snapshot(a).ts >= 0
      BY SnapshotFacts
    <3>2. Snapshot(a) \in Known(a)
      BY <3>1 DEF Rows, Known
    <3>3. n.ts \in Int
      BY <1>2, <1>7 DEF Known
    <3> QED
      BY <1>7, <1>9, <3>1, <3>2, <3>3
  <2>2. n = e
    <3>1. n \in book[side] /\ n.ts \in Int
      BY <1>2, <1>7 DEF Known
    <3>2. n.ts <= e.ts /\ e.ts <= n.ts
      BY <1>1, <1>6, <1>7, <1>9, <3>1
    <3> QED
      BY <1>1, <3>1, <3>2 DEF OneQuotePerInstant
  <2> QED
    BY <2>1, <2>2 DEF Qualifies, n, e
<1>10. n.ts \in Int
  BY <1>2, <1>7 DEF Known
<1> QED
  BY <1>8, <1>9, <1>10

\* A quote an attempt finds is newer than the attempt before it, if that one
\* was in vain.
LEMMA SnapshotIsFresh ==
  ASSUME book \in [Side -> SUBSET Quote], OneQuotePerInstant, side \in Side,
         NEW a \in Nat, NEW b \in Nat, b < a,
         Snapshot(a) # None, Qualifies(Snapshot(a)),
         Entry(side) # None, ~Qualifies(Entry(side)),
         b # 0 => ~Qualifies(Snapshot(b))
  PROVE  Snapshot(a).ts > b * Second
<1> DEFINE s == Snapshot(a)
<1>1. /\ s \in Rows(a) /\ s \in book[side] /\ s \in Quote /\ s.ts \in Int /\ s.ts >= 0
      /\ \A q \in Rows(a) : q.ts <= s.ts
  BY SnapshotFacts
<1> SUFFICES ASSUME s.ts <= b * Second PROVE FALSE
  BY <1>1
<1> HIDE DEF s
<1>2. CASE b = 0
  <2>1. s.ts = 0
    BY <1>1, <1>2
  <2>2. /\ Entry(side) \in book[side] /\ Entry(side).ts \in Int
        /\ Entry(side).ts <= 0 /\ s.ts <= Entry(side).ts
    BY <1>1, <2>1, EntryFacts DEF Quote
  <2>3. s = Entry(side)
    BY <1>1, <2>1, <2>2 DEF OneQuotePerInstant
  <2> QED
    BY <2>3 DEF s
<1>3. CASE b # 0
  <2>1. SecondOf(s.ts) <= b
    <3>1. b * Second < Limit(b) /\ b * Second \in Int
      BY LimitFacts
    <3>2. s.ts < Limit(b) /\ Limit(b) \in Int
      BY <1>1, <3>1, LimitFacts
    <3> QED
      BY <1>1, <3>2, SecondBound
  <2>2. s \in Rows(b)
    BY <1>1, <2>1 DEF Rows
  <2>3. Rows(b) \subseteq Rows(a) /\ Rows(b) \in SUBSET Quote
    <3>1. ASSUME NEW q \in Rows(b) PROVE q \in Rows(a) /\ q \in Quote
      <4>1. q \in History(side) /\ q \in Quote /\ q.ts \in Int /\ SecondOf(q.ts) <= b
        BY DEF Rows, History, Quote
      <4>2. SecondOf(q.ts) \in Int
        BY <4>1, SecondBound
      <4> QED
        BY <4>1, <4>2 DEF Rows
    <3> QED
      BY <3>1
  <2>4. Snapshot(b) # None
    <3>1. Snapshot(b) = Newest(Rows(b))
      BY DEF Snapshot, Rows
    <3> QED
      BY <1>1, <2>2, <2>3, <3>1, NewestExists
  <2>5. /\ Snapshot(b) \in Rows(b) /\ Snapshot(b) \in book[side]
        /\ Snapshot(b).ts \in Int /\ s.ts <= Snapshot(b).ts
    BY <2>2, <2>4, SnapshotFacts
  <2>6. Snapshot(b).ts <= s.ts
    BY <1>1, <2>3, <2>5
  <2>7. Snapshot(b) = s
    BY <1>1, <2>5, <2>6 DEF OneQuotePerInstant
  <2> QED
    BY <1>3, <2>7 DEF s
<1> QED
  BY <1>2, <1>3
-----------------------------------------------------------------------------
(* The attempts *)

LEMMA MultipleMod ==
  ASSUME NEW d \in Nat \ {0}, NEW q \in Int
  PROVE  (d * q) % d = 0
<1> DEFINE p == (d * q) \div d
           e == (d * q) % d
<1>1. d * q \in Int
  OBVIOUS
<1>2. p \in Int /\ e \in 0..(d - 1) /\ d * q = d * p + e
  BY <1>1, DivMod
<1> HIDE DEF p, e
<1>3. ~(p < q)
  <2> SUFFICES ASSUME p < q PROVE FALSE
    OBVIOUS
  <2>1. d * (p + 1) <= d * q
    BY <1>2
  <2>2. d * (p + 1) = d * p + d
    BY <1>2
  <2> QED
    BY <1>2, <2>1, <2>2
<1>4. ~(p > q)
  <2> SUFFICES ASSUME p > q PROVE FALSE
    OBVIOUS
  <2>1. d * (q + 1) <= d * p
    BY <1>2
  <2>2. d * (q + 1) = d * q + d
    BY <1>2
  <2> QED
    BY <1>2, <2>1, <2>2
<1>5. p = q
  BY <1>2, <1>3, <1>4
<1> QED
  BY <1>2, <1>5 DEF e

\* Multiples of r are r apart.
LEMMA Multiples ==
  ASSUME NEW r \in Nat \ {0}, NEW a \in Nat, NEW b \in Nat, a % r = 0
  PROVE  /\ (a + r) % r = 0
         /\ (a - r) % r = 0
         /\ r % r = 0
         /\ b % r = 0 /\ a < b => a + r <= b
<1>1. /\ a = r * (a \div r) /\ a \div r \in Int
      /\ b % r = 0 => b = r * (b \div r) /\ b \div r \in Int
  <2>1. a = r * (a \div r) + (a % r) /\ a \div r \in Int
    BY DivMod
  <2>2. b = r * (b \div r) + (b % r) /\ b \div r \in Int
    BY DivMod
  <2>3. r * (a \div r) \in Int /\ r * (b \div r) \in Int
    BY <2>1, <2>2
  <2> QED
    BY <2>1, <2>2, <2>3
<1>2. r % r = 0 /\ (a + r) % r = 0 /\ (a - r) % r = 0
  <2>1. r = r * 1
    OBVIOUS
  <2>2. r % r = 0
    BY <2>1, MultipleMod
  <2> DEFINE i == a \div r
  <2>3. a = r * i /\ i \in Int
    BY <1>1
  <2> HIDE DEF i
  <2>4. a + r = r * (i + 1) /\ i + 1 \in Int /\ a - r = r * (i - 1) /\ i - 1 \in Int
    BY <2>3
  <2> QED
    BY <2>2, <2>4, MultipleMod
<1>3. ASSUME b % r = 0, a < b PROVE a + r <= b
  <2> DEFINE i == a \div r
             j == b \div r
  <2>1. a = r * i /\ b = r * j /\ i \in Int /\ j \in Int
    BY <1>1, <1>3
  <2> HIDE DEF i, j
  <2>2. i < j
    <3> SUFFICES ASSUME j <= i PROVE FALSE
      BY <2>1
    <3>1. r * j <= r * i
      BY <2>1
    <3> QED
      BY <1>3, <2>1, <3>1
  <2>3. r * (i + 1) <= r * j
    BY <2>1, <2>2
  <2>4. r * (i + 1) = r * i + r
    BY <2>1
  <2> QED
    BY <2>1, <2>3, <2>4
<1> QED
  BY <1>2, <1>3
-----------------------------------------------------------------------------
(* The inductive invariant *)

\* A PM_PRICE side is the one of the entry mids, of which there is one.
Picked ==
  side # None /\ params.signal = "pm_price" =>
    /\ side = ByPrice(Mid("Up"), Mid("Down"))
    /\ Mid("Up") # None \/ Mid("Down") # None

\* Nothing is bought or given up before the end.
Pending == pc # "done" => bought = None /\ reason = ""

AtEntry == pc \in {"decide", "gates", "first"} => attempt = 0

Decided == pc \in {"gates", "first", "walk"} => side \in Side

\* What the gates let through has an entry quote that is not stale.
Passed == pc \in {"first", "walk"} => Entry(side) # None /\ ~BookStale

\* Every attempt before this one was in vain.
Walking ==
  pc = "walk" =>
    /\ params.retry /\ params.interval > 0
    /\ attempt > 0 /\ attempt % params.interval = 0
    /\ ~Qualifies(Entry(side))
    /\ \A a \in Attempts : a < attempt => ~Good(a)

IInv ==
  /\ TypeOK
  /\ OneQuotePerInstant
  /\ Picked
  /\ Pending
  /\ AtEntry
  /\ Decided
  /\ Passed
  /\ Walking
  /\ FirstGoodAttempt
  /\ BoughtInTime
  /\ BoughtFresh

LEMMA InitIInv == Init => IInv
<1> SUFFICES ASSUME Init PROVE IInv
  OBVIOUS
<1>1. PICK in \in Input : book = in[1].book /\ inputs = in[1].inputs /\ params = in[2]
  BY DEF Init
<1>2. in[1] \in [book : [Side -> SUBSET Quote], inputs : Inputs] /\ in[2] \in Params
  BY InputAssumption
<1>3. /\ book \in [Side -> SUBSET Quote] /\ inputs \in Inputs /\ params \in Params
      /\ OneQuotePerInstant
  BY <1>1, <1>2, InputAssumption DEF OneQuotePerInstant
<1>4. TypeOK
  <2>1. params.interval \in Nat
    BY <1>3 DEF Params
  <2>2. 0 \in 0..(X - 1 + params.interval)
    BY <2>1
  <2> QED
    BY <1>3, <2>2 DEF Init, TypeOK
<1>5. Picked /\ Pending /\ AtEntry /\ Decided /\ Passed /\ Walking
  BY DEF Init, Picked, Pending, AtEntry, Decided, Passed, Walking
<1>6. FirstGoodAttempt /\ BoughtInTime /\ BoughtFresh
  BY DEF Init, FirstGoodAttempt, BoughtInTime, BoughtFresh, Traded
<1> QED
  BY <1>3, <1>4, <1>5, <1>6 DEF IInv

\* The operators on the market read nothing but the market and the side.
LEMMA SameMarket ==
  ASSUME UNCHANGED given
  PROVE  /\ book' = book /\ inputs' = inputs /\ params' = params
         /\ Mid("Up")' = Mid("Up") /\ Mid("Down")' = Mid("Down")
         /\ OneQuotePerInstant' <=> OneQuotePerInstant
         /\ Attempts' = Attempts
BY DEF given, Mid, Entry, OneQuotePerInstant, Attempts

LEMMA SameSide ==
  ASSUME UNCHANGED <<given, side>>
  PROVE  /\ Entry(side)' = Entry(side)
         /\ BookStale' <=> BookStale
         /\ (Qualifies(Entry(side)))' <=> Qualifies(Entry(side))
         /\ \A a : Good(a)' <=> Good(a)
BY DEF given, Entry, BookStale, BookAge, Qualifies, Good, KnownBy

LEMMA TypeFacts ==
  ASSUME TypeOK
  PROVE  /\ book \in [Side -> SUBSET Quote]
         /\ params.interval \in Nat /\ params.minAsk \in Nat /\ params.maxBook \in Nat
         /\ params.retry \in BOOLEAN
         /\ attempt \in Nat
         /\ Attempts \subseteq 0..(X - 1)
         /\ \A a \in Attempts : a = 0 \/ (a > 0 /\ a % params.interval = 0)
<1>1. /\ book \in [Side -> SUBSET Quote]
      /\ params.interval \in Nat /\ params.minAsk \in Nat /\ params.maxBook \in Nat
      /\ params.retry \in BOOLEAN
  BY DEF TypeOK, Params
<1>2. attempt \in 0..(X - 1 + params.interval)
  BY DEF TypeOK
<1>3. attempt \in Nat
  BY <1>1, <1>2
<1>4. /\ Attempts \subseteq 0..(X - 1)
      /\ \A a \in Attempts : a = 0 \/ (a > 0 /\ a % params.interval = 0)
  BY DEF Attempts
<1> QED
  BY <1>1, <1>3, <1>4

\* An outcome without a trade, for another reason than the price.
LEMMA NoTrade ==
  ASSUME bought' = None, reason' # "price_too_low"
  PROVE  FirstGoodAttempt' /\ BoughtInTime' /\ BoughtFresh'
BY DEF FirstGoodAttempt, BoughtInTime, BoughtFresh, Traded

LEMMA DecideSideIInv == IInv /\ DecideSide => IInv'
<1> SUFFICES ASSUME IInv, DecideSide PROVE IInv'
  OBVIOUS
<1> USE DEF IInv
<1>1. UNCHANGED given /\ attempt' = attempt /\ attempt = 0 /\ bought = None /\ reason = ""
  BY DEF DecideSide, AtEntry, Pending
<1>2. /\ OneQuotePerInstant' /\ book' = book /\ inputs' = inputs /\ params' = params
      /\ Mid("Up")' = Mid("Up") /\ Mid("Down")' = Mid("Down")
  BY <1>1, SameMarket
<1>3. CASE ~Decidable /\ Skip("no_data") /\ UNCHANGED side
  <2>1. bought' = None /\ reason' = "no_data" /\ pc' = "done" /\ side' = side
    BY <1>1, <1>3 DEF Skip
  <2>2. TypeOK'
    BY <1>1, <1>2, <2>1 DEF TypeOK
  <2>3. Picked'
    BY <1>2, <2>1 DEF Picked
  <2>4. Pending' /\ AtEntry' /\ Decided' /\ Passed' /\ Walking'
    BY <2>1 DEF Pending, AtEntry, Decided, Passed, Walking
  <2>5. FirstGoodAttempt' /\ BoughtInTime' /\ BoughtFresh'
    BY <2>1, NoTrade
  <2> QED
    BY <1>2, <2>2, <2>3, <2>4, <2>5
<1>4. CASE /\ Decidable
           /\ side' = IF params.signal = "pm_price" THEN ByPrice(Mid("Up"), Mid("Down"))
                      ELSE IF inputs.above THEN "Up" ELSE "Down"
           /\ pc' = "gates"
           /\ UNCHANGED <<bought, reason>>
  <2>1. bought' = None /\ reason' = "" /\ side' \in Side
    BY <1>1, <1>4 DEF ByPrice, Side
  <2>2. TypeOK'
    BY <1>1, <1>2, <1>4, <2>1 DEF TypeOK
  <2>3. Picked'
    <3>1. params.signal = "pm_price" => Mid("Up") # None \/ Mid("Down") # None
      BY <1>4 DEF Decidable, Side
    <3>2. params.signal = "pm_price" => side' = ByPrice(Mid("Up"), Mid("Down"))
      BY <1>4
    <3> QED
      BY <1>2, <3>1, <3>2 DEF Picked, ByPrice
  <2>4. Pending' /\ AtEntry' /\ Decided' /\ Passed' /\ Walking'
    BY <1>1, <1>4, <2>1 DEF Pending, AtEntry, Decided, Passed, Walking
  <2>5. FirstGoodAttempt' /\ BoughtInTime' /\ BoughtFresh'
    BY <2>1, NoTrade
  <2> QED
    BY <1>2, <2>2, <2>3, <2>4, <2>5
<1> QED
  BY <1>3, <1>4 DEF DecideSide

\* A step that changes neither market nor side keeps what is said of them.
LEMMA KeptFacts ==
  ASSUME UNCHANGED <<given, side>>
  PROVE  /\ OneQuotePerInstant => OneQuotePerInstant'
         /\ Picked => Picked'
BY SameMarket DEF Picked, ByPrice

LEMMA GatesIInv == IInv /\ Gates => IInv'
<1> SUFFICES ASSUME IInv, Gates PROVE IInv'
  OBVIOUS
<1> USE DEF IInv
<1>1. /\ UNCHANGED <<given, side>> /\ book' = book /\ inputs' = inputs /\ params' = params
      /\ side' = side /\ attempt' = attempt /\ attempt = 0
      /\ bought = None /\ reason = "" /\ side \in Side
  BY DEF Gates, AtEntry, Pending, Decided, given
<1>2. OneQuotePerInstant' /\ Picked'
  BY <1>1, KeptFacts
<1>3. CASE Gate # "" /\ Skip(Gate)
  <2>1. /\ bought' = None /\ pc' = "done"
        /\ reason' \in {"no_data", "stale", "low_agreement"}
    BY <1>1, <1>3 DEF Skip, Gate
  <2>2. TypeOK'
    BY <1>1, <2>1 DEF TypeOK
  <2>3. Pending' /\ AtEntry' /\ Decided' /\ Passed' /\ Walking'
    BY <2>1 DEF Pending, AtEntry, Decided, Passed, Walking
  <2>4. FirstGoodAttempt' /\ BoughtInTime' /\ BoughtFresh'
    BY <2>1, NoTrade
  <2> QED
    BY <1>2, <2>2, <2>3, <2>4
<1>4. CASE Gate = "" /\ pc' = "first" /\ UNCHANGED <<bought, reason>>
  <2>1. bought' = None /\ reason' = ""
    BY <1>1, <1>4
  <2>2. TypeOK'
    BY <1>1, <1>4, <2>1 DEF TypeOK
  <2>3. Pending' /\ AtEntry' /\ Decided' /\ Walking'
    BY <1>1, <1>4, <2>1 DEF Pending, AtEntry, Decided, Walking
  <2>4. Passed'
    <3>1. Entry(side) # None /\ ~BookStale
      BY <1>4 DEF Gate
    <3> QED
      BY <1>1, <3>1, SameSide DEF Passed
  <2>5. FirstGoodAttempt' /\ BoughtInTime' /\ BoughtFresh'
    BY <2>1, NoTrade
  <2> QED
    BY <1>2, <2>2, <2>3, <2>4, <2>5
<1> QED
  BY <1>3, <1>4 DEF Gates

\* Past the first attempt, with the entry quote turned down, an attempt is
\* good iff the history says so.
LEMMA GoodIsSnapshot ==
  ASSUME IInv, side \in Side, Entry(side) # None, ~Qualifies(Entry(side)),
         NEW a \in 1..(X - 1)
  PROVE  Good(a) <=> Qualifies(Snapshot(a))
BY TypeFacts, SnapshotIsKnown DEF IInv, Good

\* The entry quote is bought.
LEMMA BuyEntry ==
  ASSUME IInv, pc = "first", side \in Side, UNCHANGED <<given, side, attempt>>,
         Qualifies(Entry(side)), bought' = Entry(side), reason' # "price_too_low"
  PROVE  FirstGoodAttempt' /\ BoughtInTime' /\ BoughtFresh'
<1> DEFINE e == Entry(side)
<1>1. /\ book \in [Side -> SUBSET Quote] /\ Attempts \subseteq 0..(X - 1)
      /\ params.maxBook \in Nat
  BY TypeFacts DEF IInv
<1>2. attempt = 0 /\ attempt' = 0 /\ Entry(side) # None /\ ~BookStale
  BY DEF IInv, AtEntry, Passed
<1>3. params' = params /\ Attempts' = Attempts
  BY SameMarket
<1>4. e \in Quote /\ e.ts \in Int /\ e.ts <= 0
  BY <1>1, <1>2, EntryFacts DEF Quote
<1> HIDE DEF e
<1>5. FirstGoodAttempt'
  <2>1. 0 \in Attempts /\ Good(0)
    BY DEF Attempts, Good
  <2>2. Good(0)'
    BY <2>1, SameSide
  <2>3. \A a \in Attempts : ~(a < 0)
    BY <1>1
  <2> QED
    BY <1>2, <1>3, <2>1, <2>2, <2>3 DEF FirstGoodAttempt
<1>6. BoughtInTime'
  <2>1. Limit(0) > 0 /\ Limit(0) <= X * Second /\ Limit(0) = Second /\ X * Second \in Nat
    BY LimitFacts DEF Limit
  <2>2. e.ts < Second /\ e.ts < X * Second
    BY <1>4, <2>1
  <2>3. (attempt' + 1) * Second = Second
    BY <1>2
  <2> QED
    BY <1>2, <1>4, <2>2, <2>3 DEF BoughtInTime, e
<1>7. BoughtFresh'
  <2>1. BookAge(side) = Seconds(0 - e.ts) /\ 0 - e.ts \in Int
    BY <1>4 DEF BookAge, e
  <2>2. BookAge(side) <= params.maxBook
    BY <1>1, <1>2, <2>1, RoundedAge DEF BookStale
  <2>3. 2 * (0 - e.ts) < (2 * params.maxBook + 1) * Second
    BY <1>1, <2>1, <2>2, RoundedAge
  <2> QED
    BY <1>2, <1>3, <2>3 DEF BoughtFresh, e
<1> QED
  BY <1>5, <1>6, <1>7

LEMMA FirstIInv == IInv /\ First => IInv'
<1> SUFFICES ASSUME IInv, First PROVE IInv'
  OBVIOUS
<1>1. /\ UNCHANGED <<given, side>> /\ book' = book /\ inputs' = inputs /\ params' = params
      /\ side' = side /\ attempt = 0 /\ bought = None /\ reason = "" /\ side \in Side
      /\ Entry(side) # None /\ pc = "first" /\ TypeOK
  BY DEF First, IInv, AtEntry, Pending, Decided, Passed, given
<1>2. OneQuotePerInstant' /\ Picked'
  BY <1>1, KeptFacts DEF IInv
<1>3. /\ book \in [Side -> SUBSET Quote] /\ params.interval \in Nat
      /\ Attempts \subseteq 0..(X - 1)
      /\ \A a \in Attempts : a = 0 \/ (a > 0 /\ a % params.interval = 0)
  BY <1>1, TypeFacts
<1>4. Entry(side) \in Quote
  BY <1>1, <1>3, EntryFacts
<1>5. ASSUME pc' = "done", attempt' = 0, bought' \in Quote \cup {None},
             reason' \in {"", "bad_price", "price_too_low"}
      PROVE  TypeOK' /\ Pending' /\ AtEntry' /\ Decided' /\ Passed' /\ Walking'
  BY <1>1, <1>5 DEF TypeOK, Pending, AtEntry, Decided, Passed, Walking
<1>6. CASE Qualifies(Entry(side)) /\ Buy(Entry(side)) /\ UNCHANGED attempt
  <2>1. CASE Skip("bad_price")
    <3>1. bought' = None /\ reason' = "bad_price" /\ pc' = "done" /\ attempt' = 0
      BY <1>1, <1>6, <2>1 DEF Skip
    <3> QED
      BY <1>2, <1>5, <3>1, NoTrade DEF IInv
  <2>2. CASE bought' = Entry(side) /\ reason' = "" /\ pc' = "done"
    <3>1. FirstGoodAttempt' /\ BoughtInTime' /\ BoughtFresh'
      BY <1>1, <1>6, <2>2, BuyEntry
    <3> QED
      BY <1>1, <1>2, <1>4, <1>5, <1>6, <2>2, <3>1 DEF IInv
  <2> QED
    BY <1>6, <2>1, <2>2 DEF Buy
<1>7. CASE /\ ~Qualifies(Entry(side)) /\ Retry /\ attempt' = params.interval
           /\ pc' = "walk" /\ UNCHANGED <<bought, reason>>
  <2>1. params.retry /\ params.interval > 0
    BY <1>7 DEF Retry
  <2>2. TypeOK'
    <3>1. params.interval \in 0..(X - 1 + params.interval)
      BY <1>3
    <3> QED
      BY <1>1, <1>7, <3>1 DEF TypeOK
  <2>3. Pending' /\ AtEntry' /\ Decided'
    BY <1>1, <1>7 DEF Pending, AtEntry, Decided
  <2>4. Passed'
    BY <1>1, SameSide DEF IInv, Passed
  <2>5. Walking'
    <3>1. params.interval % params.interval = 0
      BY <1>3, <2>1, Multiples
    <3>2. ASSUME NEW a \in Attempts, a < params.interval PROVE ~Good(a)
      <4>1. a \in Nat
        BY <1>3
      <4>2. 0 % params.interval = 0
        BY <1>3, <2>1, MultipleMod
      <4>3. a = 0
        BY <1>3, <2>1, <3>2, <4>1, <4>2, Multiples
      <4> QED
        BY <1>7, <4>3 DEF Good
    <3>3. /\ Attempts' = Attempts /\ (\A a : Good(a)' <=> Good(a))
          /\ (Qualifies(Entry(side)))' <=> Qualifies(Entry(side))
      BY <1>1, SameMarket, SameSide
    <3>4. \A a \in Attempts' : a < attempt' => ~Good(a)'
      BY <1>7, <3>2, <3>3
    <3> QED
      BY <1>1, <1>7, <2>1, <3>1, <3>3, <3>4 DEF Walking
  <2>6. FirstGoodAttempt' /\ BoughtInTime' /\ BoughtFresh'
    BY <1>1, <1>7, NoTrade
  <2> QED
    BY <1>2, <2>2, <2>3, <2>4, <2>5, <2>6 DEF IInv
<1>8. CASE ~Qualifies(Entry(side)) /\ ~Retry /\ Skip("price_too_low") /\ UNCHANGED attempt
  <2>1. bought' = None /\ reason' = "price_too_low" /\ pc' = "done" /\ attempt' = 0
    BY <1>1, <1>8 DEF Skip
  <2>2. ASSUME NEW a \in Attempts PROVE ~Good(a)
    <3>1. CASE a = 0
      BY <1>8, <3>1 DEF Good
    <3>2. CASE a # 0
      <4>1. a \in 1..(X - 1)
        BY <1>3, <3>2
      <4>2. History(side) = {}
        BY <1>8, <3>2 DEF Retry, Attempts
      <4>3. Snapshot(a) = None
        BY <4>2, NewestOfNone DEF Snapshot
      <4>4. ~Qualifies(Snapshot(a))
        BY <4>3 DEF Qualifies
      <4> QED
        BY <1>1, <1>8, <4>1, <4>4, GoodIsSnapshot
    <3> QED
      BY <3>1, <3>2
  <2>3. FirstGoodAttempt' /\ BoughtInTime' /\ BoughtFresh'
    <3>1. Attempts' = Attempts /\ (\A a : Good(a)' <=> Good(a))
      BY <1>1, SameMarket, SameSide
    <3>2. ~Traded'
      BY <2>1 DEF Traded
    <3> QED
      BY <2>2, <3>1, <3>2 DEF FirstGoodAttempt, BoughtInTime, BoughtFresh
  <2> QED
    BY <1>2, <1>5, <2>1, <2>3 DEF IInv
<1> QED
  BY <1>6, <1>7, <1>8 DEF First

\* What an attempt of the walk finds is bought.
LEMMA BuySnapshot ==
  ASSUME IInv, pc = "walk", side \in Side, UNCHANGED <<given, side, attempt>>,
         attempt < X, Qualifies(Snapshot(attempt)),
         bought' = Snapshot(attempt), reason' # "price_too_low"
  PROVE  FirstGoodAttempt' /\ BoughtInTime' /\ BoughtFresh'
<1> DEFINE s == Snapshot(attempt)
<1>1. /\ book \in [Side -> SUBSET Quote] /\ OneQuotePerInstant
      /\ attempt \in Nat /\ params.interval \in Nat
      /\ Attempts \subseteq 0..(X - 1)
      /\ \A a \in Attempts : a = 0 \/ (a > 0 /\ a % params.interval = 0)
  BY TypeFacts DEF IInv
<1>2. /\ Entry(side) # None /\ ~Qualifies(Entry(side))
      /\ params.retry /\ params.interval > 0
      /\ attempt > 0 /\ attempt % params.interval = 0
      /\ \A a \in Attempts : a < attempt => ~Good(a)
  BY DEF IInv, Passed, Walking
<1>3. /\ attempt' = attempt /\ params' = params /\ Attempts' = Attempts
      /\ \A a : Good(a)' <=> Good(a)
  BY SameMarket, SameSide
<1>4. s # None
  BY DEF Qualifies
<1>5. s.ts \in Int /\ s.ts >= 0 /\ s.ts < Limit(attempt)
  BY <1>1, <1>4, SnapshotFacts
<1>6. FirstGoodAttempt'
  <2>1. attempt \in Attempts
    BY <1>1, <1>2 DEF Attempts
  <2>2. Good(attempt)
    BY <1>1, <1>2, <2>1, GoodIsSnapshot
  <2> QED
    BY <1>2, <1>3, <2>1, <2>2 DEF FirstGoodAttempt
<1> DEFINE b == attempt - params.interval
<1>7. b \in Nat /\ b < attempt /\ (b # 0 => b \in Attempts)
  <2>1. 0 % params.interval = 0
    BY <1>1, <1>2, MultipleMod
  <2>2. params.interval <= attempt
    BY <1>1, <1>2, <2>1, Multiples
  <2>3. b \in Nat /\ b < attempt
    BY <1>1, <1>2, <2>2
  <2>4. ASSUME b # 0 PROVE b \in Attempts
    <3>1. b % params.interval = 0
      BY <1>1, <1>2, Multiples
    <3>2. b \in 1..(X - 1)
      BY <1>1, <2>3, <2>4
    <3> QED
      BY <1>2, <3>1, <3>2 DEF Attempts
  <2> QED
    BY <2>3, <2>4
<1> HIDE DEF s, b
<1>8. BoughtInTime'
  <2>1. Limit(attempt) \in Nat /\ Limit(attempt) <= X * Second /\ X * Second \in Nat
    BY <1>1, LimitFacts
  <2>2. s.ts < (attempt + 1) * Second /\ s.ts < X * Second
    BY <1>5, <2>1 DEF Limit
  <2> QED
    BY <1>2, <1>3, <2>2 DEF BoughtInTime, s
<1>9. BoughtFresh'
  <2>1. b # 0 => ~Qualifies(Snapshot(b))
    <3> SUFFICES ASSUME b # 0 PROVE ~Qualifies(Snapshot(b))
      OBVIOUS
    <3>1. b \in Attempts /\ b \in 1..(X - 1) /\ ~Good(b)
      BY <1>1, <1>2, <1>7
    <3> QED
      BY <1>2, <3>1, GoodIsSnapshot
  <2>2. s.ts > b * Second
    BY <1>1, <1>2, <1>4, <1>7, <2>1, SnapshotIsFresh DEF s
  <2>3. s.ts > (attempt - params.interval) * Second
    BY <2>2 DEF b
  <2> QED
    BY <1>2, <1>3, <2>3 DEF BoughtFresh, s
<1> QED
  BY <1>6, <1>8, <1>9

LEMMA AttemptIInv == IInv /\ Attempt => IInv'
<1> SUFFICES ASSUME IInv, Attempt PROVE IInv'
  OBVIOUS
<1>1. /\ UNCHANGED <<given, side>> /\ book' = book /\ inputs' = inputs /\ params' = params
      /\ side' = side /\ bought = None /\ reason = "" /\ pc = "walk" /\ TypeOK
      /\ attempt \in 0..(X - 1 + params.interval)
  BY DEF Attempt, IInv, Pending, given, TypeOK
<1>2. OneQuotePerInstant' /\ Picked'
  BY <1>1, KeptFacts DEF IInv
<1>3. /\ book \in [Side -> SUBSET Quote] /\ params.interval \in Nat /\ attempt \in Nat
      /\ Attempts \subseteq 0..(X - 1)
      /\ \A a \in Attempts : a = 0 \/ (a > 0 /\ a % params.interval = 0)
  BY <1>1, TypeFacts
<1>4. /\ side \in Side /\ Entry(side) # None /\ ~Qualifies(Entry(side))
      /\ params.retry /\ params.interval > 0
      /\ attempt > 0 /\ attempt % params.interval = 0
      /\ \A a \in Attempts : a < attempt => ~Good(a)
  BY <1>1 DEF IInv, Decided, Passed, Walking
<1>5. ASSUME pc' = "done", attempt' = attempt, bought' \in Quote \cup {None},
             reason' \in {"", "bad_price", "price_too_low"}
      PROVE  TypeOK' /\ Pending' /\ AtEntry' /\ Decided' /\ Passed' /\ Walking'
  BY <1>1, <1>5 DEF TypeOK, Pending, AtEntry, Decided, Passed, Walking
<1>6. CASE attempt > X - 1 /\ Skip("price_too_low") /\ UNCHANGED attempt
  <2>1. bought' = None /\ reason' = "price_too_low" /\ pc' = "done"
    BY <1>1, <1>6 DEF Skip
  <2>2. \A a \in Attempts : ~Good(a)
    <3>1. \A a \in Attempts : a < attempt
      BY <1>3, <1>6
    <3> QED
      BY <1>4, <3>1
  <2>3. FirstGoodAttempt' /\ BoughtInTime' /\ BoughtFresh'
    <3>1. Attempts' = Attempts /\ (\A a : Good(a)' <=> Good(a))
      BY <1>1, SameMarket, SameSide
    <3>2. ~Traded'
      BY <2>1 DEF Traded
    <3> QED
      BY <2>2, <3>1, <3>2 DEF FirstGoodAttempt, BoughtInTime, BoughtFresh
  <2> QED
    BY <1>2, <1>5, <1>6, <2>1, <2>3 DEF IInv
<1>7. CASE /\ ~(attempt > X - 1) /\ Qualifies(Snapshot(attempt))
           /\ Buy(Snapshot(attempt)) /\ UNCHANGED attempt
  <2>1. CASE Skip("bad_price")
    <3>1. bought' = None /\ reason' = "bad_price" /\ pc' = "done"
      BY <1>1, <2>1 DEF Skip
    <3> QED
      BY <1>2, <1>5, <1>7, <3>1, NoTrade DEF IInv
  <2>2. CASE bought' = Snapshot(attempt) /\ reason' = "" /\ pc' = "done"
    <3>1. attempt < X
      BY <1>3, <1>7
    <3>2. Snapshot(attempt) \in Quote
      BY <1>3, <1>4, <1>7, SnapshotFacts DEF Qualifies
    <3>3. FirstGoodAttempt' /\ BoughtInTime' /\ BoughtFresh'
      BY <1>1, <1>4, <1>7, <2>2, <3>1, BuySnapshot
    <3> QED
      BY <1>2, <1>5, <1>7, <2>2, <3>2, <3>3 DEF IInv
  <2> QED
    BY <1>7, <2>1, <2>2 DEF Buy
<1>8. CASE /\ ~(attempt > X - 1) /\ ~Qualifies(Snapshot(attempt))
           /\ attempt' = NextAttempt(attempt) /\ UNCHANGED <<pc, bought, reason>>
  <2>1. attempt' = attempt + params.interval
    BY <1>8 DEF NextAttempt
  <2>2. TypeOK'
    <3>1. attempt + params.interval \in 0..(X - 1 + params.interval)
      BY <1>3, <1>8
    <3> QED
      BY <1>1, <1>8, <2>1, <3>1 DEF TypeOK
  <2>3. Pending' /\ AtEntry' /\ Decided'
    BY <1>1, <1>4, <1>8 DEF Pending, AtEntry, Decided
  <2>4. Passed'
    BY <1>1, SameSide DEF IInv, Passed
  <2>5. Walking'
    <3>1. (attempt + params.interval) % params.interval = 0
      BY <1>3, <1>4, Multiples
    <3>2. ASSUME NEW a \in Attempts, a < attempt + params.interval PROVE ~Good(a)
      <4>1. a \in Nat
        BY <1>3
      <4>2. CASE a < attempt
        BY <1>4, <4>2
      <4>3. CASE a = attempt
        <5>1. attempt \in 1..(X - 1)
          BY <1>3, <1>4, <1>8
        <5> QED
          BY <1>4, <1>8, <4>3, <5>1, GoodIsSnapshot
      <4>4. ~(attempt < a)
        BY <1>3, <1>4, <3>2, <4>1, Multiples
      <4> QED
        BY <1>3, <4>1, <4>2, <4>3, <4>4
    <3>3. /\ Attempts' = Attempts /\ (\A a : Good(a)' <=> Good(a))
          /\ (Qualifies(Entry(side)))' <=> Qualifies(Entry(side))
      BY <1>1, SameMarket, SameSide
    <3>4. \A a \in Attempts' : a < attempt' => ~Good(a)'
      BY <2>1, <3>2, <3>3
    <3>5. attempt' > 0 /\ attempt' % params'.interval = 0
      <4>1. params' = params
        BY <1>1
      <4> QED
        BY <1>3, <1>4, <2>1, <3>1, <4>1
    <3> QED
      BY <1>1, <1>4, <3>3, <3>4, <3>5 DEF Walking
  <2>6. FirstGoodAttempt' /\ BoughtInTime' /\ BoughtFresh'
    BY <1>1, <1>8, NoTrade
  <2> QED
    BY <1>2, <2>2, <2>3, <2>4, <2>5, <2>6 DEF IInv
<1> QED
  BY <1>6, <1>7, <1>8 DEF Attempt

LEMMA StutterIInv == IInv /\ UNCHANGED vars => IInv'
<1> SUFFICES ASSUME IInv, UNCHANGED vars PROVE IInv'
  OBVIOUS
<1>1. /\ UNCHANGED <<given, side>> /\ book' = book /\ inputs' = inputs /\ params' = params
      /\ pc' = pc /\ side' = side /\ attempt' = attempt /\ bought' = bought /\ reason' = reason
  BY DEF vars, given
<1>2. OneQuotePerInstant' /\ Picked'
  BY <1>1, KeptFacts DEF IInv
<1>3. TypeOK'
  BY <1>1 DEF IInv, TypeOK
<1>4. /\ Attempts' = Attempts /\ (\A a : Good(a)' <=> Good(a))
      /\ Entry(side)' = Entry(side)
      /\ BookStale' <=> BookStale
      /\ (Qualifies(Entry(side)))' <=> Qualifies(Entry(side))
  BY <1>1, SameMarket, SameSide
<1>5. Pending' /\ AtEntry' /\ Decided' /\ Passed' /\ Walking'
  BY <1>1, <1>4 DEF IInv, Pending, AtEntry, Decided, Passed, Walking
<1>6. FirstGoodAttempt' /\ BoughtInTime' /\ BoughtFresh'
  BY <1>1, <1>4 DEF IInv, FirstGoodAttempt, BoughtInTime, BoughtFresh, Traded
<1> QED
  BY <1>2, <1>3, <1>5, <1>6 DEF IInv

LEMMA Inductive == Spec => []IInv
<1>1. IInv /\ [Next]_vars => IInv'
  BY DecideSideIInv, GatesIInv, FirstIInv, AttemptIInv, StutterIInv DEF Next
<1> QED
  BY InitIInv, <1>1, PTL DEF Spec
-----------------------------------------------------------------------------
(* The theorems *)

\* Every reachable state of the back-test of a market is type correct.
THEOREM StrategyTypeCorrect == Spec => []TypeOK
<1>1. IInv => TypeOK
  BY DEF IInv
<1> QED
  BY Inductive, <1>1, PTL

\* The retry walk over the clipped and subsampled history (_walk_retries) buys
\* at the first attempt at which the whole book qualifies, and gives up for the
\* price only if there is none.
THEOREM BuysAtFirstGoodAttempt == Spec => []FirstGoodAttempt
<1>1. IInv => FirstGoodAttempt
  BY DEF IInv
<1> QED
  BY Inductive, <1>1, PTL

\* A quote that is bought is from before the end of the window and of the second
\* of its attempt; the one bought at t_entry is not from after it.
THEOREM BuysInTime == Spec => []BoughtInTime
<1>1. IInv => BoughtInTime
  BY DEF IInv
<1> QED
  BY Inductive, <1>1, PTL

\* A quote bought by a retry is newer than the attempt before, one bought at
\* t_entry within the staleness threshold, although no retry tests an age.
THEOREM BuysFreshQuotes == Spec => []BoughtFresh
<1>1. IInv => BoughtFresh
  BY DEF IInv
<1> QED
  BY Inductive, <1>1, PTL

\* PM_PRICE (_decide_side) has no preference for a side.
THEOREM SidesAlike == Spec => []Mirror
<1>1. IInv => Mirror
  <2> SUFFICES ASSUME IInv, side # None, params.signal = "pm_price", Mid("Up") # Mid("Down")
               PROVE  side # ByPrice(Mid("Down"), Mid("Up"))
    BY DEF Mirror
  <2>1. /\ side = ByPrice(Mid("Up"), Mid("Down"))
        /\ Mid("Up") # None \/ Mid("Down") # None
    BY DEF IInv, Picked
  <2>2. ASSUME NEW k \in Side, Mid(k) # None PROVE Mid(k) \in Nat
    <3>1. book \in [Side -> SUBSET Quote] /\ Entry(k) # None
      BY <2>2 DEF IInv, TypeOK, Mid
    <3>2. Entry(k) \in Quote
      BY <3>1, EntryFacts
    <3> QED
      BY <3>1, <3>2 DEF Mid, Quote
  <2> DEFINE u == Mid("Up")
             d == Mid("Down")
  <2>3. u \in Nat \cup {None} /\ d \in Nat \cup {None}
    BY <2>2 DEF Side
  <2>4. /\ side = ByPrice(u, d) /\ (u # None \/ d # None) /\ u # d
    BY <2>1
  <2> HIDE DEF u, d
  <2>5. side # ByPrice(d, u)
    BY <2>3, <2>4 DEF ByPrice
  <2> QED
    BY <2>5 DEF u, d
<1> QED
  BY Inductive, <1>1, PTL
=============================================================================
