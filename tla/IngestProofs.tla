---------------------------- MODULE IngestProofs ----------------------------
(***************************************************************************)
(* The safety properties of Ingest, for every set of tokens and prices and *)
(* every number of events, drops and items that are not as they should be. *)
(***************************************************************************)
EXTENDS Ingest, FiniteSetTheorems, IntegerFacts, TLAPS

Stamps == Nat \cup {None}
Depths == [Side -> SUBSET [price : Price \cup {None}, size : {0, 1}]]

\* What messages consist of.
Item == [kind : {"unread", "raises", "price_change"}]
          \cup [kind : {"trade"}, at : Nat, stamp : Stamps]
          \cup [kind : {"best_bid_ask"}, token : Token, at : Nat, stamp : Stamps, top : Top]
          \cup [kind : {"book"}, token : Token, at : Nat, stamp : Stamps, depth : Depths]

Items(msg) == {msg[i] : i \in 1..Len(msg)}
InFlight == UNION {Items(wire[i]) : i \in 1..Len(wire)}

\* The top of the book that the recorded quote will have.
TopOf(e) == IF e.kind = "best_bid_ask" THEN e.top
            ELSE [side \in Side |-> TopOfBook(e.depth[side], side)]

\* Not after what the exchange told last of tok, and not before.
BeforeTold(tok, t) == t <= since \/ \E p \in past : p.token = tok /\ t <= p.at
Fresh(tok, t) == since <= t /\ \A p \in past : p.token = tok => p.at <= t

\* What the exchange says of now is so,
Exact(e) == e.kind \in Dated =>
  /\ e.at = clock
  /\ e.stamp = Stamp(e.at)
  /\ e.kind = "trade" => e.at \in made
  /\ e.kind \in Quoted => /\ TopOf(e) = TopIn(levels, e.token)
                          /\ Fresh(e.token, e.at) /\ BeforeTold(e.token, e.at)

\* and was so then when it arrives, but for the damage done to it.
Honest(e) == e.kind \in Dated =>
  /\ e.at <= clock
  /\ \/ e.stamp = Stamp(e.at)
     \/ client # "binance" /\ e.stamp = None /\ Harm(e, "undated") \in damage
  /\ e.kind = "trade" => e.at \in made
  /\ e.kind \in Quoted =>
       LET was == TopAt(e.token, e.at) IN
       /\ TopOf(e) = was \/ (Harm(e, "garbled") \in damage /\ NoBetter(TopOf(e), was))
       /\ BeforeTold(e.token, e.at)

Messages ==
  /\ wire \in Seq(Seq(Item))
  /\ \A e \in InFlight : Honest(e)

\* It remembers every top since the beginning, and which is the present one.
History ==
  /\ \A tok \in Token : \E p \in past : p.token = tok /\ p.at = 0
  /\ \A p \in past : p.at <= clock
  /\ \A p, q \in past : p.token = q.token /\ p.at = q.at => p = q
  /\ \A tok \in Token : TopAt(tok, clock) = TopIn(levels, tok)
  /\ \A t \in made : t <= clock
  /\ since <= clock

\* Each instant is paid for by an event or by a message, each message by an event
\* or a connection, each connection but the first by a drop or a raising item.
Spent ==
  clock + Len(wire)
    + (IF conn = "down" \/ \E i \in 1..Len(wire) : Raises(wire[i]) THEN 1 ELSE 0)
  <= events + events + drops + bad + 1

\* Messages are in the order of what they tell, and after what is recorded; and
\* without times of their own, rows have times in that order.
Ordered ==
  /\ \A i, j \in 1..Len(wire) : i <= j =>
       \A e \in Items(wire[i]), f \in Items(wire[j]) :
         e.kind \in Dated /\ f.kind \in Dated => e.at <= f.at
  /\ \A e \in InFlight : e.kind \in Dated =>
       /\ \A q \in quotes : q.at <= e.at
       /\ \A s \in DOMAIN ticks : ticks[s] # None => ticks[s] <= e.at
  /\ \A q \in quotes : q.ts <= clock /\ q.at <= clock /\ BeforeTold(q.token, q.at)
  /\ \A s \in DOMAIN ticks : ticks[s] # None => ticks[s] <= clock
  /\ unit = "none" => \A q, r \in quotes : q.at < r.at => q.ts < r.ts

\* Binance counts in milliseconds.
Binance == client = "binance" => unit = "ms"

\* An item that tells the present top of tok.
Tells(e, tok) == /\ e.kind \in Quoted /\ e.token = tok /\ Fresh(tok, e.at)
                 /\ TopOf(e) = TopIn(levels, tok)

\* The top of a token is recorded, damaged, or announced, or the connection will
\* break.
QuoteComes(tok) ==
  \/ \E q \in quotes : q.token = tok /\ Fresh(tok, q.at) /\ q.top = TopIn(levels, tok)
  \/ \E d \in damage : d.about = tok /\ d.flaw # "undated" /\ Fresh(tok, d.at)
  \/ \E i \in 1..Len(wire) : Raises(wire[i]) \/ \E e \in Items(wire[i]) : Tells(e, tok)

\* So is the trade of an instant, and the tick of its second.
Sells(msg, t) == Raises(msg) \/ \E e \in Items(msg) : e.kind = "trade" /\ e.at = t

TradeComes(t) ==
  Unread(t) \/ (\E r \in trades : r.at = t) \/ \E i \in 1..Len(wire) : Sells(wire[i], t)

TickComes(t) ==
  \/ Unread(t) \/ (ticks[t \div Kilo] # None /\ ticks[t \div Kilo] <= t)
  \/ \E i \in 1..Len(wire) : Sells(wire[i], t)

AllComes ==
  conn = "up" =>
    /\ client = "clob" => \A tok \in Token : QuoteComes(tok)
    /\ client # "binance" => \A t \in made : t > since => TradeComes(t)
    /\ client = "binance" => \A t \in made : t > since => TickComes(t)

IInv == /\ TypeOK /\ Messages /\ History /\ Spent /\ Ordered /\ Binance
        /\ AllComes /\ RowsAreTrue
-----------------------------------------------------------------------------
(* Lemmas about times *)

LEMMA Constants ==
  /\ {Kilo, Epoch, Milli, Micro, Nano} \subseteq Nat \ {0}
  /\ MaxEvents \in Nat /\ MaxDrops \in Nat /\ MaxBad \in Nat /\ MaxClock \in Nat
  BY UnitAssumption DEF MaxClock

LEMMA TimesLess ==
  ASSUME NEW a \in Int, NEW b \in Int, NEW d \in Nat \ {0}
  PROVE  a * d < b * d <=> a < b
<1>1. ASSUME a < b PROVE a * d < b * d
  BY <1>1, Z3
<1>2. ASSUME b <= a PROVE b * d <= a * d
  BY <1>2, Z3
<1>. QED
  BY <1>1, <1>2

\* Two quotients with the same bounds are equal.
LEMMA TimesDiv ==
  ASSUME NEW a \in Int, NEW d \in Nat \ {0}, NEW k \in Nat \ {0}
  PROVE  /\ (a * k) \div k = a
         /\ (a * k) \div (d * k) = a \div d
<1>1. d * k \in Nat \ {0} /\ a * k \in Int
  BY Z3
<1>2. (a * k) \div k = a
  <2>1. \A m \in Int : (a * k) \div k <= m <=> a * k < (m + 1) * k
    BY <1>1, DivIsFloor
  <2>2. \A m \in Int : a * k < (m + 1) * k <=> a < m + 1
    BY TimesLess
  <2>3. (a * k) \div k \in Int
    BY <1>1, DivIsFloor
  <2>. QED
    BY <2>1, <2>2, <2>3
<1>3. (a * k) \div (d * k) = a \div d
  <2>1. \A m \in Int : (a * k) \div (d * k) <= m <=> a * k < (m + 1) * (d * k)
    BY <1>1, DivIsFloor
  <2>2. \A m \in Int : (m + 1) * (d * k) = ((m + 1) * d) * k /\ (m + 1) * d \in Int
    BY Z3
  <2>3. \A m \in Int : a * k < ((m + 1) * d) * k <=> a < (m + 1) * d
    BY <2>2, TimesLess
  <2>4. \A m \in Int : a \div d <= m <=> a < (m + 1) * d
    BY DivIsFloor
  <2>5. (a * k) \div (d * k) \in Int /\ a \div d \in Int
    BY <1>1, DivIsFloor
  <2>6. \A m \in Int : (a * k) \div (d * k) <= m <=> a \div d <= m
    BY <2>1, <2>2, <2>3, <2>4
  <2>. QED
    BY <2>5, <2>6
<1>. QED
  BY <1>2, <1>3

LEMMA SecondIsBounded ==
  ASSUME NEW t \in Nat PROVE t \div Kilo \in 0..t
<1>1. /\ Kilo \in Nat \ {0} /\ t \div Kilo \in Int
      /\ \A m \in Int : t \div Kilo <= m <=> t < (m + 1) * Kilo
  BY Constants, DivIsFloor
<1>2. t < (t + 1) * Kilo
  <2>1. (t + 1) * 1 <= (t + 1) * Kilo /\ (t + 1) * Kilo \in Int
    BY <1>1, Z3
  <2>. QED
    BY <1>1, <2>1
<1>3. t \div Kilo <= t
  BY <1>1, <1>2
<1>4. ~(t \div Kilo <= -1)
  BY <1>1
<1>. QED
  BY <1>1, <1>3, <1>4

\* The Epoch is a number of seconds, to which those since then are added.
LEMMA SecondsAdd ==
  ASSUME NEW t \in Nat
  PROVE  /\ Epoch = Kilo * (Epoch \div Kilo) /\ Epoch \div Kilo \in Nat
         /\ t \div Kilo \in Nat /\ Kilo * (t \div Kilo) \in 0..t
         /\ (Epoch + t) \div Kilo = Epoch \div Kilo + t \div Kilo
<1>. DEFINE k == Epoch \div Kilo
            n == t \div Kilo
            m == (Epoch + t) \div Kilo
<1>1. Epoch \in Nat /\ Kilo \in Nat \ {0} /\ Epoch % Kilo = 0
  BY Constants, EpochAssumption
<1>2. k \in Int /\ Epoch = Kilo * k
  <2>1. Epoch \div Kilo \in Int /\ Epoch = Kilo * (Epoch \div Kilo) + (Epoch % Kilo)
    BY <1>1, DivMod
  <2>2. Kilo * k \in Int
    BY <1>1, <2>1, Z3
  <2>. QED
    BY <1>1, <2>1, <2>2
<1>3. n \in Int /\ t % Kilo \in 0..(Kilo - 1) /\ t = Kilo * n + (t % Kilo)
  BY <1>1, DivMod
<1>4. m \in Int /\ (Epoch + t) % Kilo \in 0..(Kilo - 1)
      /\ Epoch + t = Kilo * m + ((Epoch + t) % Kilo)
  BY <1>1, DivMod
<1>. HIDE DEF k, n, m
<1>5. \A a, b \in Int : a < b => Kilo * a + Kilo <= Kilo * b
  <2>. SUFFICES ASSUME NEW a \in Int, NEW b \in Int, a < b
                PROVE  Kilo * a + Kilo <= Kilo * b
    OBVIOUS
  <2>1. (a + 1) * Kilo <= b * Kilo
    <3>1. ~(b < a + 1)
      OBVIOUS
    <3>2. ~(b * Kilo < (a + 1) * Kilo)
      BY <1>1, <3>1, TimesLess
    <3>3. b * Kilo \in Int /\ (a + 1) * Kilo \in Int
      BY <1>1, Z3
    <3>. QED
      BY <3>2, <3>3
  <2>2. (a + 1) * Kilo = Kilo * a + Kilo /\ b * Kilo = Kilo * b
    BY <1>1, Z3
  <2>. QED
    BY <2>1, <2>2
<1>6. Kilo * (k + n) = Kilo * k + Kilo * n /\ k + n \in Int
      /\ Kilo * k \in Int /\ Kilo * n \in Int /\ Kilo * m \in Int
  BY <1>1, <1>2, <1>3, <1>4, Z3
<1>7. m = k + n
  <2>. PICK p \in Int : p = k + n
    BY <1>6
  <2>. PICK r \in Int : r = t % Kilo /\ 0 <= r /\ r < Kilo
    BY <1>1, <1>3
  <2>. PICK u \in Int : u = (Epoch + t) % Kilo /\ 0 <= u /\ u < Kilo
    BY <1>1, <1>4
  <2>1. Kilo * p + r = Kilo * m + u /\ Kilo * p \in Int
    BY <1>1, <1>2, <1>3, <1>4, <1>6
  <2>2. ~(m < p)
    <3>1. m < p => Kilo * m + Kilo <= Kilo * p
      BY <1>4, <1>5
    <3>. QED
      BY <1>1, <1>6, <2>1, <3>1
  <2>3. ~(p < m)
    <3>1. p < m => Kilo * p + Kilo <= Kilo * m
      BY <1>4, <1>5
    <3>. QED
      BY <1>1, <1>6, <2>1, <3>1
  <2>. QED
    BY <1>4, <2>2, <2>3
<1>8. k \in Nat
  <2>1. k < 0 => Kilo * k + Kilo <= Kilo * 0
    BY <1>2, <1>5
  <2>2. Kilo * 0 = 0
    BY <1>1, Z3
  <2>. QED
    BY <1>1, <1>2, <1>6, <2>1, <2>2
<1>9. n \in Nat
  <2>1. n < 0 => Kilo * n + Kilo <= Kilo * 0
    BY <1>3, <1>5
  <2>2. Kilo * 0 = 0
    BY <1>1, Z3
  <2>. QED
    BY <1>1, <1>3, <1>6, <2>1, <2>2
<1>10. Kilo * n \in 0..t
  <2>1. Kilo * n >= 0
    BY <1>1, <1>9, Z3
  <2>. QED
    BY <1>1, <1>3, <1>6, <2>1
<1>. QED
  BY <1>2, <1>7, <1>8, <1>9, <1>10 DEF k, n, m

\* The magnitude of a number tells its unit: a time is parsed to itself, or to
\* the beginning of its second.
LEMMA Parsed ==
  ASSUME NEW t \in 0..MaxClock, unit \in Units, unit # "none"
  PROVE  ParseTs(Stamp(t)) - Epoch = IF unit = "s" THEN Kilo * (t \div Kilo) ELSE t
<1>. DEFINE v == Epoch + t
            E1 == Epoch * Kilo
            E2 == Epoch * (Kilo * Kilo)
            V1 == v * Kilo
            V2 == v * (Kilo * Kilo)
            L0 == Epoch + MaxClock
            L1 == (Epoch + MaxClock) * Kilo
<1>1. /\ v \in Nat /\ Epoch <= v /\ v <= L0 /\ L0 \in Nat
      /\ Kilo \in Nat \ {0} /\ Kilo * Kilo \in Nat \ {0}
      /\ Epoch \in Nat \ {0} /\ MaxClock \in Nat
      /\ Milli \in Nat /\ Micro \in Nat /\ Nano \in Nat
  BY Constants, Z3
<1>2. /\ Epoch * Kilo * Kilo = E2 /\ v * Kilo * Kilo = V2
      /\ E1 \in Nat /\ E2 \in Nat /\ V1 \in Nat /\ V2 \in Nat /\ L1 \in Nat
  <2>. HIDE DEF v
  <2>. QED
    BY <1>1, Z3
<1>3. /\ L0 \div Kilo <= Milli /\ Milli < Epoch
      /\ L0 <= Micro /\ Micro < E1 /\ L1 <= Nano /\ Nano < E2
  BY <1>2, RangeAssumption
<1>4. E1 <= V1 /\ V1 <= L1 /\ E2 <= V2
  <2>. HIDE DEF v
  <2>. QED
    BY <1>1, Z3
<1>5. V1 \div Kilo = v /\ V2 \div (Kilo * Kilo) = v
  <2>. HIDE DEF v
  <2>. QED
    BY <1>1, TimesDiv
<1>6. v \div Kilo \in Nat /\ v \div Kilo <= L0 \div Kilo
  <2>1. /\ v \div Kilo = Epoch \div Kilo + t \div Kilo
        /\ Epoch \div Kilo \in Nat /\ t \div Kilo \in Nat
    BY SecondsAdd
  <2>2. L0 \div Kilo \in Int /\ v < (L0 \div Kilo + 1) * Kilo
    <3>1. L0 \div Kilo \in Int
      BY <1>1, DivIsFloor
    <3>2. L0 < (L0 \div Kilo + 1) * Kilo
      BY <1>1, <3>1, DivIsFloor
    <3>3. (L0 \div Kilo + 1) * Kilo \in Int
      BY <1>1, <3>1, Z3
    <3>. QED
      BY <1>1, <3>1, <3>2, <3>3
  <2>3. v \div Kilo <= L0 \div Kilo
    BY <1>1, <2>2, DivIsFloor
  <2>. QED
    BY <2>1, <2>3
<1>7. /\ v \div Kilo <= Milli /\ Milli < v /\ v <= Micro /\ Micro < V1 /\ V1 <= Nano
      /\ Nano < V2 /\ Milli < Micro /\ Micro < Nano
  <2>. DEFINE q == v \div Kilo
              p == L0 \div Kilo
  <2>1. q \in Nat /\ p \in Int /\ q <= p /\ p <= Milli
    BY <1>1, <1>3, <1>6, DivIsFloor
  <2>. HIDE DEF v, E1, E2, V1, V2, L0, L1, q, p
  <2>2. q <= Milli
    BY <1>1, <2>1
  <2>3. /\ Milli < v /\ v <= Micro /\ Micro < V1 /\ V1 <= Nano
        /\ Nano < V2 /\ Milli < Micro /\ Micro < Nano
    BY <1>1, <1>2, <1>3, <1>4
  <2>. QED
    BY <2>2, <2>3 DEF q
<1>8. /\ unit = "s" => ParseTs(Stamp(t)) = (v \div Kilo) * Kilo
      /\ unit \in {"ms", "us", "ns"} => ParseTs(Stamp(t)) = v
  <2>1. /\ unit = "s" => Stamp(t) = v \div Kilo
        /\ unit = "ms" => Stamp(t) = v
        /\ unit = "us" => Stamp(t) = V1
        /\ unit = "ns" => Stamp(t) = V2
    BY <1>2 DEF Stamp
  <2>. DEFINE q == v \div Kilo
  <2>. HIDE DEF v, V1, V2, q
  <2>2. unit = "s" => ParseTs(Stamp(t)) = q * Kilo
    <3>1. ~(q > Nano) /\ ~(q > Micro) /\ ~(q > Milli)
      BY <1>1, <1>6, <1>7 DEF q
    <3>. QED
      BY <2>1, <3>1 DEF ParseTs, q
  <2>3. unit = "ms" => ParseTs(Stamp(t)) = v
    <3>1. ~(v > Nano) /\ ~(v > Micro) /\ v > Milli
      BY <1>1, <1>7
    <3>. QED
      BY <2>1, <3>1 DEF ParseTs
  <2>4. unit = "us" => ParseTs(Stamp(t)) = v
    <3>1. ~(V1 > Nano) /\ V1 > Micro
      BY <1>1, <1>2, <1>7
    <3>. QED
      BY <1>5, <2>1, <3>1 DEF ParseTs
  <2>5. unit = "ns" => ParseTs(Stamp(t)) = v
    <3>1. V2 > Nano
      BY <1>1, <1>2, <1>7
    <3>. QED
      BY <1>5, <2>1, <3>1 DEF ParseTs
  <2>. QED
    BY <2>2, <2>3, <2>4, <2>5 DEF q
<1>9. (v \div Kilo) * Kilo - Epoch = Kilo * (t \div Kilo)
  <2>. PICK k : k = Epoch \div Kilo
    OBVIOUS
  <2>. PICK n : n = t \div Kilo
    OBVIOUS
  <2>1. v \div Kilo = k + n /\ k \in Nat /\ n \in Nat /\ Epoch = Kilo * k
    BY SecondsAdd
  <2>. HIDE DEF v
  <2>2. (k + n) * Kilo = Kilo * k + Kilo * n /\ Kilo * k \in Nat /\ Kilo * n \in Nat
    BY <1>1, <2>1, Z3
  <2>3. (v \div Kilo) * Kilo = Epoch + Kilo * n
    BY <2>1, <2>2
  <2>. QED
    BY <1>1, <2>2, <2>3
<1>10. v - Epoch = t
  BY <1>1
<1>. QED
  BY <1>8, <1>9, <1>10 DEF Units

\* A stamp is a number, unless there is none; and it says the right time.
LEMMA StampType == ASSUME NEW t \in Nat, unit \in Units PROVE
  /\ Stamp(t) \in Stamps
  /\ unit = "none" => Stamp(t) = None
  /\ unit # "none" => Stamp(t) # None
<1>1. Kilo \in Nat \ {0} /\ Epoch \in Nat /\ None \notin Nat
  BY Constants, PriceAssumption
<1>2. (Epoch + t) \div Kilo \in Nat
  <2>. PICK k : k = Epoch \div Kilo
    OBVIOUS
  <2>. PICK n : n = t \div Kilo
    OBVIOUS
  <2>1. (Epoch + t) \div Kilo = k + n /\ k \in Nat /\ n \in Nat
    BY <1>1, SecondsAdd
  <2>. QED
    BY <2>1
<1>3. Epoch + t \in Nat /\ (Epoch + t) * Kilo \in Nat /\ (Epoch + t) * Kilo * Kilo \in Nat
  BY <1>1, Z3
<1>4. unit # "none" => Stamp(t) \in Nat
  BY <1>2, <1>3 DEF Stamp, Units
<1>5. unit = "none" => Stamp(t) = None
  BY DEF Stamp
<1>. QED
  BY <1>1, <1>4, <1>5 DEF Stamps

LEMMA Stamped ==
  ASSUME TypeOK, NEW t \in 0..clock, clock + 1 \in 0..MaxClock
  PROVE  /\ RightTime(RecordedAt(Stamp(t)), t)
         /\ RecordedAt(Stamp(t)) \in 0..MaxClock /\ RecordedAt(Stamp(t)) <= clock + 1
         /\ unit = "none" => RecordedAt(Stamp(t)) = clock + 1
<1>1. /\ clock \in Nat /\ MaxClock \in Nat /\ t \in 0..MaxClock /\ t \in Nat /\ t <= clock
      /\ unit \in Units
  BY Constants DEF TypeOK
<1>2. CASE unit = "none"
  <2>1. RecordedAt(Stamp(t)) = clock + 1
    BY <1>1, <1>2, StampType DEF RecordedAt
  <2>2. t < clock + 1
    BY <1>1
  <2>. QED
    BY <1>2, <2>1, <2>2 DEF RightTime
<1>3. CASE unit # "none"
  <2>1. RecordedAt(Stamp(t)) = ParseTs(Stamp(t)) - Epoch
    BY <1>1, <1>3, StampType DEF RecordedAt
  <2>2. RecordedAt(Stamp(t)) = IF unit = "s" THEN Kilo * (t \div Kilo) ELSE t
    BY <1>1, <1>3, <2>1, Parsed
  <2>3. Kilo * (t \div Kilo) \in 0..t
    BY <1>1, SecondsAdd
  <2>4. RecordedAt(Stamp(t)) \in 0..t
    BY <1>1, <2>2, <2>3
  <2>5. RightTime(RecordedAt(Stamp(t)), t)
    BY <1>3, <2>2 DEF RightTime
  <2>. QED
    BY <1>1, <1>3, <2>4, <2>5
<1>. QED
  BY <1>2, <1>3

\* A Binance trade is filed under the second it was made in.
LEMMA TickFiled ==
  ASSUME NEW e, e.at \in Nat, e.stamp = Stamp(e.at), unit = "ms"
  PROVE  TickOf(e) = e.at \div Kilo
<1>. DEFINE k == Epoch \div Kilo
            n == e.at \div Kilo
<1>1. TickOf(e) = (Epoch + e.at) \div Kilo - k
  BY DEF TickOf, FloorToSec, Stamp
<1>2. (Epoch + e.at) \div Kilo = k + n /\ k \in Nat /\ n \in Nat
  BY SecondsAdd
<1>3. k + n - k = n
  BY <1>2
<1>. QED
  BY <1>1, <1>2, <1>3
-----------------------------------------------------------------------------
(* Lemmas about tops *)

\* Every set of prices has a highest and a lowest one.
LEMMA PricesAreBounded ==
  ASSUME NEW S \in SUBSET Price, S # {}
  PROVE  /\ Max(S) \in S /\ \A x \in S : Max(S) >= x
         /\ Min(S) \in S /\ \A x \in S : Min(S) <= x
<1>1. PICK n \in Price : \A q \in Price : q <= n
  BY PriceAssumption
<1>2. n \in Nat /\ S \in SUBSET (0..n) /\ S \in SUBSET Nat
  BY <1>1, PriceAssumption
<1>3. \E x \in S : \A y \in S : x >= y
  BY <1>2, GreatestExists
<1>4. \E x \in S : \A y \in S : x <= y
  BY <1>2, LeastExists
<1>. QED
  BY <1>3, <1>4 DEF Max, Min

LEMMA BestIsPrice ==
  ASSUME NEW S \in SUBSET Price, NEW side \in Side
  PROVE  BestOf(S, side) \in Price \cup {None}
  BY PricesAreBounded DEF BestOf

LEMMA TopInType ==
  ASSUME NEW lv \in [Token -> [Side -> SUBSET Price]], NEW tok \in Token
  PROVE  TopIn(lv, tok) \in Top
<1>1. \A side \in Side : lv[tok][side] \in SUBSET Price
  OBVIOUS
<1>2. \A side \in Side : BestOf(lv[tok][side], side) \in Price \cup {None}
  BY <1>1, BestIsPrice
<1>. QED
  BY <1>2 DEF TopIn, Top

\* The prices of the levels that have both, and the best of them.
Offered(depth) == {l.price : l \in {k \in depth : k.price # None /\ k.size > 0}}

LEMMA OfferedType ==
  ASSUME NEW depth \in SUBSET [price : Price \cup {None}, size : {0, 1}]
  PROVE  Offered(depth) \in SUBSET Price
  BY DEF Offered

LEMMA TopIsBestOffered ==
  ASSUME NEW depth, NEW side PROVE TopOfBook(depth, side) = BestOf(Offered(depth), side)
  BY DEF TopOfBook, BestOf, Offered

LEMMA FewerAreNoBetter ==
  ASSUME NEW T \in SUBSET Price, NEW S \in SUBSET T
  PROVE  /\ BestOf(S, "bid") # None =>
              BestOf(T, "bid") # None /\ BestOf(S, "bid") <= BestOf(T, "bid")
         /\ BestOf(S, "ask") # None =>
              BestOf(T, "ask") # None /\ BestOf(S, "ask") >= BestOf(T, "ask")
<1>1. Price \subseteq Nat /\ None \notin Price
  BY PriceAssumption
<1>2. CASE S = {}
  BY <1>2 DEF BestOf
<1>3. CASE S # {}
  <2>1. T # {} /\ S \in SUBSET Price
    BY <1>3
  <2>2. /\ Max(S) \in T /\ Min(S) \in T
        /\ Max(T) \in Price /\ \A x \in T : Max(T) >= x
        /\ Min(T) \in Price /\ \A x \in T : Min(T) <= x
    BY <1>3, <2>1, PricesAreBounded
  <2>3. /\ BestOf(S, "bid") = Max(S) /\ BestOf(S, "ask") = Min(S)
        /\ BestOf(T, "bid") = Max(T) /\ BestOf(T, "ask") = Min(T)
    BY <1>3, <2>1 DEF BestOf
  <2>. QED
    BY <1>1, <2>2, <2>3
<1>. QED
  BY <1>2, <1>3

\* What an item has depends on its kind.
LEMMA ItemHas ==
  ASSUME NEW e \in Item
  PROVE  /\ e.kind \in Dated \cup {"unread", "raises", "price_change"}
         /\ e.kind \in Dated => e.at \in Nat /\ e.stamp \in Stamps
         /\ e.kind \in Quoted => e.token \in Token /\ TopOf(e) \in Top
         /\ e.kind = "book" => e.depth \in Depths
         /\ e.kind = "best_bid_ask" => e.top \in Top
<1>1. /\ e.kind \in Dated \cup {"unread", "raises", "price_change"}
      /\ e.kind \in Dated => e.at \in Nat /\ e.stamp \in Stamps
      /\ e.kind \in Quoted => e.token \in Token
      /\ e.kind = "best_bid_ask" => e.top \in Top
      /\ e.kind = "book" => e.depth \in Depths
  BY DEF Item, Dated, Quoted
<1>2. ASSUME e.kind = "book" PROVE TopOf(e) \in Top
  <2>1. TopOf(e) = [side \in Side |-> TopOfBook(e.depth[side], side)]
    BY <1>2 DEF TopOf
  <2>2. \A side \in Side : TopOfBook(e.depth[side], side) \in Price \cup {None}
    <3>. SUFFICES ASSUME NEW side \in Side
                  PROVE  TopOfBook(e.depth[side], side) \in Price \cup {None}
      OBVIOUS
    <3>1. e.depth[side] \in SUBSET [price : Price \cup {None}, size : {0, 1}]
      BY <1>1, <1>2 DEF Depths
    <3>. QED
      BY <3>1, OfferedType, TopIsBestOffered, BestIsPrice
  <2>. QED
    BY <2>1, <2>2 DEF Top
<1>3. e.kind = "best_bid_ask" => TopOf(e) = e.top
  BY DEF TopOf
<1>. QED
  BY <1>1, <1>2, <1>3 DEF Quoted

\* What does not convert makes nothing better.
LEMMA GarbledIsWorse ==
  ASSUME NEW e \in Item, e.kind \in Dated, NEW f \in Garbled(e)
  PROVE  /\ f \in Item /\ f.kind = e.kind /\ f.kind \in Quoted
         /\ f.token = e.token /\ f.at = e.at /\ f.stamp = e.stamp
         /\ NoBetter(TopOf(f), TopOf(e))
<1>0. Price \subseteq Nat /\ None \notin Price
  BY PriceAssumption
<1>1. CASE e.kind = "best_bid_ask"
  <2>1. PICK side \in Side : f = [e EXCEPT !.top[side] = None]
    BY <1>1 DEF Garbled
  <2>2. e \in [kind : {"best_bid_ask"}, token : Token, at : Nat, stamp : Stamps, top : Top]
    BY <1>1 DEF Item
  <2>3. [e.top EXCEPT ![side] = None] \in Top /\ e.top \in Top
    BY <2>2 DEF Top
  <2>4. /\ f \in [kind : {"best_bid_ask"}, token : Token, at : Nat, stamp : Stamps,
                  top : Top]
        /\ f.kind = e.kind /\ f.token = e.token /\ f.at = e.at /\ f.stamp = e.stamp
        /\ f.top = [e.top EXCEPT ![side] = None]
    BY <2>1, <2>2, <2>3
  <2>5. TopOf(f) = f.top /\ TopOf(e) = e.top
    BY <1>1, <2>4 DEF TopOf
  <2>6. \A x \in Side : f.top[x] # None => f.top[x] = e.top[x]
    BY <2>3, <2>4 DEF Top
  <2>7. \A x \in Side : f.top[x] # None =>
          e.top[x] # None /\ f.top[x] <= e.top[x] /\ f.top[x] >= e.top[x]
    <3>1. \A x \in Side : e.top[x] \in Price \cup {None}
      BY <2>3 DEF Top
    <3>2. \A p \in Price : p <= p /\ p >= p /\ p # None
      BY <1>0
    <3>. QED
      BY <2>6, <3>1, <3>2
  <2>8. NoBetter(f.top, e.top)
    BY <2>7 DEF NoBetter, Side
  <2>. QED
    BY <1>1, <2>4, <2>5, <2>8 DEF Item, Quoted
<1>2. CASE e.kind = "book"
  <2>1. PICK side \in Side : \E l \in {k \in e.depth[side] : k.size > 0} :
          f = [e EXCEPT !.depth[side] = (@ \ {l}) \cup {[l EXCEPT !.price = None]}]
    BY <1>2 DEF Garbled
  <2>2. PICK l \in e.depth[side] : /\ l.size > 0
          /\ f = [e EXCEPT !.depth[side] = (@ \ {l}) \cup {[l EXCEPT !.price = None]}]
    BY <2>1
  <2>3. /\ e \in [kind : {"book"}, token : Token, at : Nat, stamp : Stamps,
                  depth : Depths]
        /\ e.depth \in Depths
    BY <1>2 DEF Item
  <2>4. l \in [price : Price \cup {None}, size : {0, 1}]
    BY <2>3 DEF Depths
  <2>. DEFINE bad1 == [l EXCEPT !.price = None]
              rest == (e.depth[side] \ {l}) \cup {bad1}
  <2>5. bad1 \in [price : Price \cup {None}, size : {0, 1}] /\ bad1.price = None
    BY <2>4
  <2>6. rest \in SUBSET [price : Price \cup {None}, size : {0, 1}]
    BY <2>3, <2>5 DEF Depths
  <2>7. /\ f \in [kind : {"book"}, token : Token, at : Nat, stamp : Stamps,
                  depth : Depths]
        /\ f.kind = e.kind /\ f.token = e.token /\ f.at = e.at /\ f.stamp = e.stamp
        /\ f.depth = [e.depth EXCEPT ![side] = rest]
    <3>1. [e.depth EXCEPT ![side] = rest] \in Depths
      BY <2>3, <2>6 DEF Depths
    <3>2. f = [e EXCEPT !.depth = [e.depth EXCEPT ![side] = rest]]
      BY <2>2, <2>3
    <3>. HIDE DEF rest
    <3>. QED
      BY <2>3, <3>1, <3>2
  <2>8. \A x \in Side : /\ Offered(e.depth[x]) \in SUBSET Price
                        /\ Offered(f.depth[x]) \in SUBSET Offered(e.depth[x])
    <3>. SUFFICES ASSUME NEW x \in Side
                  PROVE  /\ Offered(e.depth[x]) \in SUBSET Price
                         /\ Offered(f.depth[x]) \in SUBSET Offered(e.depth[x])
      OBVIOUS
    <3>1. e.depth[x] \in SUBSET [price : Price \cup {None}, size : {0, 1}]
      BY <2>3 DEF Depths
    <3>2. \A k \in f.depth[x] : k \in e.depth[x] \/ k = bad1
      BY <2>3, <2>7 DEF Depths
    <3>3. Offered(f.depth[x]) \in SUBSET Offered(e.depth[x])
      <4>. HIDE DEF bad1, rest
      <4>. QED
        BY <2>5, <3>2 DEF Offered
    <3>. QED
      BY <3>1, <3>3, OfferedType
  <2>9. \A x \in Side : /\ TopOf(e)[x] = BestOf(Offered(e.depth[x]), x)
                        /\ TopOf(f)[x] = BestOf(Offered(f.depth[x]), x)
    BY <1>2, <2>7, TopIsBestOffered DEF TopOf
  <2>10. NoBetter(TopOf(f), TopOf(e))
    <3>1. /\ TopOf(e)["bid"] = BestOf(Offered(e.depth["bid"]), "bid")
          /\ TopOf(f)["bid"] = BestOf(Offered(f.depth["bid"]), "bid")
          /\ TopOf(e)["ask"] = BestOf(Offered(e.depth["ask"]), "ask")
          /\ TopOf(f)["ask"] = BestOf(Offered(f.depth["ask"]), "ask")
      BY <2>9 DEF Side
    <3>2. /\ Offered(e.depth["bid"]) \in SUBSET Price
          /\ Offered(f.depth["bid"]) \in SUBSET Offered(e.depth["bid"])
          /\ Offered(e.depth["ask"]) \in SUBSET Price
          /\ Offered(f.depth["ask"]) \in SUBSET Offered(e.depth["ask"])
      BY <2>8 DEF Side
    <3>. QED
      BY <3>1, <3>2, FewerAreNoBetter DEF NoBetter
  <2>. QED
    BY <1>2, <2>7, <2>10 DEF Item, Quoted
<1>3. CASE e.kind = "trade"
  BY <1>3 DEF Garbled
<1>. QED
  BY <1>1, <1>2, <1>3 DEF Dated, Quoted

\* A book event tells the top of the book it was made from.
LEMMA BookTells ==
  ASSUME TypeOK, NEW tok \in Token, Stamp(clock) \in Stamps
  PROVE  /\ Book(tok) \in Item
         /\ Book(tok).kind = "book" /\ Book(tok).token = tok
         /\ Book(tok).at = clock /\ Book(tok).stamp = Stamp(clock)
         /\ TopOf(Book(tok)) = TopIn(levels, tok)
<1>1. \A side \in Side : /\ levels[tok][side] \in SUBSET Price
                         /\ Depth(tok, side) \in SUBSET [price : Price, size : {0, 1}]
  BY DEF Depth, TypeOK
<1>2. /\ Book(tok).kind = "book" /\ Book(tok).token = tok
      /\ Book(tok).at = clock /\ Book(tok).stamp = Stamp(clock)
      /\ Book(tok).depth = [side \in Side |-> Depth(tok, side)]
  BY DEF Book
<1>3. Book(tok) \in [kind : {"book"}, token : Token, at : Nat, stamp : Stamps,
                     depth : Depths]
  <2>1. [side \in Side |-> Depth(tok, side)] \in Depths
    BY <1>1 DEF Depths
  <2>2. clock \in Nat
    BY Constants DEF TypeOK
  <2>. QED
    BY <2>1, <2>2 DEF Book
<1>4. \A side \in Side : Offered(Depth(tok, side)) = levels[tok][side]
  <2>. SUFFICES ASSUME NEW side \in Side
                PROVE  Offered(Depth(tok, side)) = levels[tok][side]
    OBVIOUS
  <2>1. None \notin Price
    BY PriceAssumption
  <2>2. ASSUME NEW p \in levels[tok][side] PROVE p \in Offered(Depth(tok, side))
    <3>1. [price |-> p, size |-> 1] \in Depth(tok, side) /\ p # None
      BY <1>1, <2>1 DEF Depth
    <3>. QED
      BY <3>1 DEF Offered
  <2>3. ASSUME NEW l \in Depth(tok, side), l.size > 0 PROVE l.price \in levels[tok][side]
    BY <2>3 DEF Depth
  <2>. QED
    BY <2>2, <2>3 DEF Offered
<1>5. TopOf(Book(tok)) = [side \in Side |-> TopOfBook(Depth(tok, side), side)]
  BY <1>2 DEF TopOf
<1>6. \A side \in Side : TopOfBook(Depth(tok, side), side) = BestOf(levels[tok][side], side)
  BY <1>4, TopIsBestOffered
<1>. QED
  BY <1>2, <1>3, <1>5, <1>6 DEF Item, TopIn

\* Time goes on, and what happens is added to what has happened.
Later == /\ clock' \in Nat /\ clock <= clock'
         /\ past \subseteq past' /\ \A p \in past' : p \in past \/ p.at > clock
         /\ \A p \in past' : p.at \in Nat
         /\ made \subseteq made' /\ damage \subseteq damage'
         /\ since' \in Nat /\ since <= since'
         /\ UNCHANGED <<client, unit>>

LEMMA TopAtStays ==
  ASSUME TypeOK, Later, NEW tok, NEW t \in Nat, t <= clock
  PROVE  TopAt(tok, t)' = TopAt(tok, t)
<1>1. clock \in Nat
  BY Constants DEF TypeOK
<1>2. {p \in past' : p.token = tok /\ p.at <= t} = {p \in past : p.token = tok /\ p.at <= t}
  BY <1>1 DEF Later
<1>. QED
  BY <1>2 DEF TopAt

LEMMA BeforeToldStays ==
  ASSUME TypeOK, Later, NEW tok, NEW t \in Nat, BeforeTold(tok, t)
  PROVE  BeforeTold(tok, t)'
<1>1. since \in Nat
  BY Constants DEF TypeOK
<1>. QED
  BY <1>1 DEF BeforeTold, Later

\* What was told honestly stays true.
LEMMA HonestStays ==
  ASSUME TypeOK, Later, NEW e \in Item, Honest(e)
  PROVE  Honest(e)'
<1>. SUFFICES ASSUME e.kind \in Dated PROVE Honest(e)'
  BY DEF Honest
<1>1. clock \in Nat /\ e.at \in Nat /\ e.at <= clock /\ e.at <= clock'
  BY Constants, ItemHas DEF TypeOK, Honest, Later
<1>2. e.kind \in Quoted => /\ TopAt(e.token, e.at)' = TopAt(e.token, e.at)
                           /\ BeforeTold(e.token, e.at)'
  BY <1>1, TopAtStays, BeforeToldStays DEF Honest
<1>3. Stamp(e.at)' = Stamp(e.at) /\ client' = client
  BY DEF Later, Stamp
<1>4. e.at \in made => e.at \in made'
  BY DEF Later
<1>5. \A flaw : Harm(e, flaw) \in damage => Harm(e, flaw) \in damage'
  BY DEF Later
<1>. QED
  BY <1>1, <1>2, <1>3, <1>4, <1>5 DEF Honest

LEMMA RowsStayTrue ==
  ASSUME TypeOK, Ordered, RowsAreTrue, Later, UNCHANGED rows
  PROVE  RowsAreTrue'
<1>1. UNCHANGED <<quotes, trades, ticks, unit>>
  BY DEF rows, Later
<1>2. \A q \in quotes : q.at \in Nat /\ q.at <= clock
  BY Constants DEF TypeOK, Ordered
<1>3. \A q \in quotes : TopAt(q.token, q.at)' = TopAt(q.token, q.at)
  BY <1>2, TopAtStays
<1>4. \A about, t, flaw : Flawed(about, t, flaw) => Flawed(about, t, flaw)'
  BY DEF Later, Flawed
<1>5. made \subseteq made'
  BY DEF Later
<1>6. \A ts, t : RightTime(ts, t)' <=> RightTime(ts, t)
  BY <1>1 DEF RightTime
<1>. QED
  BY <1>1, <1>3, <1>4, <1>5, <1>6 DEF RowsAreTrue
-----------------------------------------------------------------------------
(* Lemmas about messages *)

LEMMA ItemsOf ==
  ASSUME NEW msg \in Seq(Item)
  PROVE  /\ Items(msg) \subseteq Item
         /\ Raises(msg) <=> \E e \in Items(msg) : e.kind = "raises"
         /\ Readable(msg) \subseteq Items(msg)
         /\ ~Raises(msg) => Readable(msg) = Items(msg)
  BY DEF Items, Raises, Readable

LEMMA InFlightItems ==
  ASSUME wire \in Seq(Seq(Item))
  PROVE  /\ InFlight \subseteq Item
         /\ \A i \in 1..Len(wire) :
              wire[i] \in Seq(Item) /\ Items(wire[i]) \subseteq InFlight
<1>1. \A i \in 1..Len(wire) : wire[i] \in Seq(Item)
  OBVIOUS
<1>2. \A i \in 1..Len(wire) : Items(wire[i]) \subseteq Item
  BY <1>1, ItemsOf
<1>. QED
  BY <1>1, <1>2 DEF InFlight

\* What becomes of an item e that is sent in m.
Arrives(e, m) ==
  \/ Raises(m)
  \/ \E f \in Items(m) : /\ f.kind = e.kind /\ f.at = e.at
                         /\ e.kind \in Quoted => f.token = e.token /\ TopOf(f) = TopOf(e)
  \/ Harm(e, "unread") \in damage'
  \/ e.kind \in Quoted /\ Harm(e, "garbled") \in damage'

LEMMA ExactIsHonest ==
  ASSUME History', clock' \in Nat, NEW e \in Item, Exact(e)' PROVE Honest(e)'
<1>. SUFFICES ASSUME e.kind \in Dated PROVE Honest(e)'
  BY DEF Honest
<1>1. /\ e.at = clock' /\ e.stamp = Stamp(e.at)'
      /\ e.kind = "trade" => e.at \in made'
      /\ e.kind \in Quoted => TopOf(e) = TopIn(levels, e.token)' /\ BeforeTold(e.token, e.at)'
  BY DEF Exact
<1>2. e.kind \in Quoted => TopOf(e) = TopAt(e.token, e.at)'
  <2>1. e.kind \in Quoted => e.token \in Token
    BY ItemHas
  <2>2. e.kind \in Quoted => TopAt(e.token, clock)' = TopIn(levels, e.token)'
    BY <2>1 DEF History
  <2>3. TopAt(e.token, e.at)' = TopAt(e.token, clock)'
    BY <1>1 DEF TopAt
  <2>. QED
    BY <1>1, <2>2, <2>3
<1>. QED
  BY <1>1, <1>2 DEF Honest

LEMMA UndatedIsHonest ==
  ASSUME client' # "binance", NEW e \in Item, e.kind \in Dated, Honest(e)',
         NEW f \in Item, f = [e EXCEPT !.stamp = None], Harm(e, "undated") \in damage',
         Harm(f, "garbled") \in damage' <=> Harm(e, "garbled") \in damage'
  PROVE  Honest(f)' /\ f.kind = e.kind /\ f.at = e.at
         /\ (e.kind \in Quoted => f.token = e.token /\ TopOf(f) = TopOf(e))
<1>1. /\ f.kind = e.kind /\ f.at = e.at /\ f.stamp = None
      /\ e.kind \in Quoted => f.token = e.token /\ TopOf(f) = TopOf(e)
  <2>1. CASE e.kind = "trade"
    <3>1. e \in [kind : {"trade"}, at : Nat, stamp : Stamps]
      BY <2>1 DEF Item
    <3>. QED
      BY <2>1, <3>1 DEF Quoted
  <2>2. CASE e.kind = "best_bid_ask"
    <3>1. e \in [kind : {"best_bid_ask"}, token : Token, at : Nat, stamp : Stamps, top : Top]
      BY <2>2 DEF Item
    <3>2. /\ f.kind = e.kind /\ f.at = e.at /\ f.stamp = None /\ f.token = e.token
          /\ f.top = e.top
      BY <3>1
    <3>. QED
      BY <3>2, <2>2 DEF TopOf
  <2>3. CASE e.kind = "book"
    <3>1. e \in [kind : {"book"}, token : Token, at : Nat, stamp : Stamps, depth : Depths]
      BY <2>3 DEF Item
    <3>2. /\ f.kind = e.kind /\ f.at = e.at /\ f.stamp = None /\ f.token = e.token
          /\ f.depth = e.depth
      BY <3>1
    <3>. QED
      BY <3>2, <2>3 DEF TopOf
  <2>. QED
    BY <2>1, <2>2, <2>3 DEF Dated, Quoted
<1>2. Harm(f, "undated") = Harm(e, "undated")
  BY <1>1 DEF Harm, Dated, Quoted
<1>3. /\ f.at <= clock' /\ (f.kind = "trade" => f.at \in made')
  BY <1>1 DEF Honest
<1>4. /\ f.kind \in Quoted =>
           /\ \/ TopOf(f) = TopAt(f.token, f.at)'
              \/ /\ Harm(f, "garbled") \in damage'
                 /\ NoBetter(TopOf(f), TopAt(f.token, f.at)')
           /\ BeforeTold(f.token, f.at)'
  <2>. SUFFICES ASSUME f.kind \in Quoted
                PROVE  /\ \/ TopOf(f) = TopAt(f.token, f.at)'
                          \/ /\ Harm(f, "garbled") \in damage'
                             /\ NoBetter(TopOf(f), TopAt(f.token, f.at)')
                       /\ BeforeTold(f.token, f.at)'
    OBVIOUS
  <2>1. /\ \/ TopOf(e) = TopAt(e.token, e.at)'
           \/ /\ Harm(e, "garbled") \in damage'
              /\ NoBetter(TopOf(e), TopAt(e.token, e.at)')
        /\ BeforeTold(e.token, e.at)'
    BY <1>1 DEF Honest
  <2>2. f.token = e.token /\ f.at = e.at /\ TopOf(f) = TopOf(e)
    BY <1>1
  <2>3. TopAt(f.token, f.at)' = TopAt(e.token, e.at)'
    BY <2>2 DEF TopAt
  <2>4. BeforeTold(f.token, f.at)'
    BY <2>1, <2>2 DEF BeforeTold
  <2>. QED
    BY <2>1, <2>2, <2>3, <2>4
<1>. QED
  BY <1>1, <1>2, <1>3, <1>4 DEF Honest

LEMMA GarbledIsHonest ==
  ASSUME NEW e \in Item, e.kind \in Dated, Exact(e)', Honest(e)', History',
         NEW f \in Garbled(e), Harm(e, "garbled") \in damage'
  PROVE  Honest(f)' /\ f \in Item /\ f.at = e.at
<1>1. /\ f \in Item /\ f.kind = e.kind /\ f.kind \in Quoted
      /\ f.token = e.token /\ f.at = e.at /\ f.stamp = e.stamp
      /\ NoBetter(TopOf(f), TopOf(e))
  BY GarbledIsWorse
<1>2. Harm(f, "garbled") = Harm(e, "garbled")
  BY <1>1 DEF Harm, Dated, Quoted
<1>3. TopOf(e) = TopAt(f.token, f.at)'
  <2>1. /\ e.at = clock' /\ TopOf(e) = TopIn(levels, e.token)'
    BY <1>1 DEF Exact
  <2>2. e.token \in Token
    BY <1>1, ItemHas
  <2>3. TopAt(e.token, clock)' = TopIn(levels, e.token)'
    BY <2>2 DEF History
  <2>4. TopAt(f.token, f.at)' = TopAt(e.token, clock)'
    BY <1>1, <2>1 DEF TopAt
  <2>. QED
    BY <2>1, <2>3, <2>4
<1>4. /\ f.at <= clock' /\ f.kind # "trade" /\ BeforeTold(f.token, f.at)'
      /\ f.stamp = Stamp(f.at)'
  <2>1. e.at <= clock' /\ e.stamp = Stamp(e.at)' /\ BeforeTold(e.token, e.at)'
    BY <1>1 DEF Exact, Honest
  <2>. QED
    BY <1>1, <2>1 DEF Quoted, BeforeTold, Stamp
<1>. QED
  BY <1>1, <1>2, <1>3, <1>4 DEF Honest

\* The server sends what is there to say; what is damaged of it is remembered.
Sent(messages, msg, m) ==
  /\ wire' = Append(messages, m)
  /\ \A e \in Items(m) : Honest(e)' /\ (e.kind \in Dated => e.at = clock')
  /\ \A e \in Items(msg) : e.kind \in Dated => Arrives(e, m)
  /\ damage \subseteq damage'
  /\ \A d \in damage' : \/ d \in damage
                        \/ d \in [about : Token \cup {None}, at : {clock'},
                                  flaw : {"unread", "undated", "garbled"}]
  /\ bad' \in 0..MaxBad /\ bad <= bad'
  /\ Raises(m) => bad' = bad + 1

LEMMA HarmType ==
  ASSUME NEW e \in Item, e.kind \in Dated, e.at = clock',
         NEW flaw \in {"unread", "undated", "garbled"}
  PROVE  Harm(e, flaw) \in [about : Token \cup {None}, at : {clock'},
                            flaw : {"unread", "undated", "garbled"}]
  BY ItemHas DEF Harm, Dated

LEMMA SendEffect ==
  ASSUME NEW messages \in Seq(Seq(Item)), NEW msg \in Seq(Item), ~Raises(msg),
         bad \in 0..MaxBad, UNCHANGED <<client, unit>>, History', clock' \in Nat,
         \A e \in Items(msg) : Exact(e)', Send(messages, msg)
  PROVE  \E m \in Seq(Item) : Sent(messages, msg, m)
<1>0. MaxBad \in Nat /\ bad \in Nat /\ Len(msg) \in Nat
  BY Constants
<1>1. /\ Items(msg) \subseteq Item
      /\ \A i \in 1..Len(msg) : msg[i] \in Items(msg) /\ msg[i] \in Item /\ Exact(msg[i])'
      /\ \A e \in Items(msg) : /\ Honest(e)' /\ e.kind # "raises"
                               /\ e.kind \in Dated => e.at = clock'
  <2>1. Items(msg) \subseteq Item
    BY ItemsOf
  <2>2. \A e \in Items(msg) : Honest(e)'
    BY <2>1, ExactIsHonest
  <2>3. \A i \in 1..Len(msg) : msg[i] \in Items(msg)
    BY DEF Items
  <2>4. \A e \in Items(msg) : e.kind # "raises"
    BY DEF Items, Raises
  <2>5. \A e \in Items(msg) : e.kind \in Dated => e.at = clock'
    BY DEF Exact
  <2>. QED
    BY <2>1, <2>2, <2>3, <2>4, <2>5
<1>2. CASE wire' = Append(messages, msg) /\ UNCHANGED <<damage, bad>>
  <2>1. \A e \in Items(msg) : Arrives(e, msg)
    BY DEF Arrives
  <2>2. Sent(messages, msg, msg)
    BY <1>0, <1>1, <1>2, <2>1 DEF Sent
  <2>. QED
    BY <2>2
<1>3. bad < MaxBad /\ bad' = bad + 1 => bad' \in 0..MaxBad /\ bad <= bad'
  BY <1>0
<1>4. ASSUME bad < MaxBad, bad' = bad + 1, SendUnread(messages, msg)
      PROVE  \E m \in Seq(Item) : Sent(messages, msg, m)
  <2>. PICK blank : blank = [kind |-> "unread"]
    OBVIOUS
  <2>1. PICK lost \in SUBSET (1..Len(msg)) :
          /\ wire' = Append(messages, [i \in 1..Len(msg) |->
                       IF i \in lost THEN blank ELSE msg[i]])
          /\ damage' = damage \cup {Harm(msg[i], "unread") :
                                    i \in {j \in lost : msg[j].kind \in Dated}}
    BY <1>4 DEF SendUnread
  <2>. PICK m : m = [i \in 1..Len(msg) |-> IF i \in lost THEN blank ELSE msg[i]]
    OBVIOUS
  <2>2. blank \in Item /\ blank.kind = "unread" /\ Honest(blank)'
    BY DEF Item, Honest, Dated, Quoted
  <2>3. /\ m \in Seq(Item) /\ Len(m) = Len(msg)
        /\ \A i \in 1..Len(msg) : m[i] = IF i \in lost THEN blank ELSE msg[i]
    BY <1>0, <1>1, <2>2
  <2>4. Items(m) \subseteq Items(msg) \cup {blank}
    BY <1>1, <2>3 DEF Items
  <2>5. ASSUME NEW e \in Items(msg), e.kind \in Dated PROVE Arrives(e, m)
    <3>1. PICK i \in 1..Len(msg) : e = msg[i]
      BY DEF Items
    <3>2. CASE i \in lost
      <4>1. Harm(e, "unread") \in damage'
        BY <2>1, <2>5, <3>1, <3>2
      <4>. QED
        BY <4>1 DEF Arrives
    <3>3. CASE i \notin lost
      <4>1. m[i] = e /\ i \in 1..Len(m)
        BY <2>3, <3>1, <3>3
      <4>2. e \in Items(m)
        BY <4>1 DEF Items
      <4>. QED
        BY <4>2 DEF Arrives
    <3>. QED
      BY <3>2, <3>3
  <2>6. \A d \in damage' : \/ d \in damage
                           \/ d \in [about : Token \cup {None}, at : {clock'},
                                     flaw : {"unread", "undated", "garbled"}]
    BY <1>1, <2>1, HarmType
  <2>7. ~Raises(m)
    <3>1. \A e \in Items(m) : e.kind # "raises"
      BY <1>1, <2>2, <2>4
    <3>. QED
      BY <2>3, <3>1, ItemsOf
  <2>8. \A e \in Items(m) : Honest(e)' /\ (e.kind \in Dated => e.at = clock')
    BY <1>1, <2>2, <2>4 DEF Dated, Quoted
  <2>9. wire' = Append(messages, m) /\ damage \subseteq damage'
    BY <2>1
  <2>10. Sent(messages, msg, m)
    BY <1>3, <1>4, <2>5, <2>6, <2>7, <2>8, <2>9 DEF Sent
  <2>. QED
    BY <2>3, <2>10
<1>5. ASSUME bad < MaxBad, bad' = bad + 1, SendFlawed(messages, msg)
      PROVE  \E m \in Seq(Item) : Sent(messages, msg, m)
  <2>1. PICK i \in 1..Len(msg) : /\ msg[i].kind \in Dated
          /\ \/ /\ wire' = Append(messages, [msg EXCEPT ![i].stamp = None])
                /\ damage' = damage \cup {Harm(msg[i], "undated")}
             \/ \E g \in Garbled(msg[i]) :
                  /\ wire' = Append(messages, [msg EXCEPT ![i] = g])
                  /\ damage' = damage \cup {Harm(msg[i], "garbled")}
    BY <1>5 DEF SendFlawed
  <2>. PICK e : e = msg[i]
    OBVIOUS
  <2>2. /\ e \in Items(msg) /\ e \in Item /\ e.kind \in Dated /\ e.at = clock'
        /\ Honest(e)' /\ Exact(e)'
        /\ client' # "binance"
    BY <1>1, <1>5, <2>1 DEF SendFlawed
  <2>3. PICK f : \E flaw \in {"undated", "garbled"} :
          /\ wire' = Append(messages, [msg EXCEPT ![i] = f])
          /\ damage' = damage \cup {Harm(e, flaw)}
          /\ \/ f = [e EXCEPT !.stamp = None] /\ flaw = "undated"
             \/ f \in Garbled(e) /\ flaw = "garbled"
    <3>. PICK g : g = [e EXCEPT !.stamp = None]
      OBVIOUS
    <3>1. [msg EXCEPT ![i].stamp = None] = [msg EXCEPT ![i] = g]
      BY <2>1
    <3>2. CASE /\ wire' = Append(messages, [msg EXCEPT ![i] = g])
               /\ damage' = damage \cup {Harm(e, "undated")}
      BY <3>2, Zenon
    <3>3. CASE \E h \in Garbled(e) : /\ wire' = Append(messages, [msg EXCEPT ![i] = h])
                                    /\ damage' = damage \cup {Harm(e, "garbled")}
      BY <3>3, Zenon
    <3>. QED
      BY <2>1, <3>1, <3>2, <3>3, Zenon
  <2>. PICK flaw \in {"undated", "garbled"} :
          /\ wire' = Append(messages, [msg EXCEPT ![i] = f])
          /\ damage' = damage \cup {Harm(e, flaw)}
          /\ \/ f = [e EXCEPT !.stamp = None] /\ flaw = "undated"
             \/ f \in Garbled(e) /\ flaw = "garbled"
    BY <2>3
  <2>4. /\ f \in Item /\ f.kind # "raises" /\ f.at = e.at /\ Honest(f)'
        /\ \/ e.kind \in Quoted /\ Harm(e, "garbled") \in damage'
           \/ /\ f.kind = e.kind
              /\ e.kind \in Quoted => f.token = e.token /\ TopOf(f) = TopOf(e)
    <3>1. CASE f = [e EXCEPT !.stamp = None] /\ flaw = "undated"
      <4>1. f \in Item /\ Harm(f, "garbled") = Harm(e, "garbled")
        <5>1. CASE e.kind = "trade"
          <6>1. e \in [kind : {"trade"}, at : Nat, stamp : Stamps]
            BY <2>2, <5>1 DEF Item
          <6>2. /\ f \in [kind : {"trade"}, at : Nat, stamp : Stamps]
                /\ f.kind = e.kind /\ f.at = e.at
            BY <3>1, <6>1 DEF Stamps
          <6>. QED
            BY <5>1, <6>2 DEF Item, Harm
        <5>2. CASE e.kind = "best_bid_ask"
          <6>1. e \in [kind : {"best_bid_ask"}, token : Token, at : Nat, stamp : Stamps,
                       top : Top]
            BY <2>2, <5>2 DEF Item
          <6>2. /\ f \in [kind : {"best_bid_ask"}, token : Token, at : Nat, stamp : Stamps,
                          top : Top]
                /\ f.kind = e.kind /\ f.at = e.at /\ f.token = e.token
            BY <3>1, <6>1 DEF Stamps
          <6>. QED
            BY <5>2, <6>2 DEF Item, Harm
        <5>3. CASE e.kind = "book"
          <6>1. e \in [kind : {"book"}, token : Token, at : Nat, stamp : Stamps,
                       depth : Depths]
            BY <2>2, <5>3 DEF Item
          <6>2. /\ f \in [kind : {"book"}, token : Token, at : Nat, stamp : Stamps,
                          depth : Depths]
                /\ f.kind = e.kind /\ f.at = e.at /\ f.token = e.token
            BY <3>1, <6>1 DEF Stamps
          <6>. QED
            BY <5>3, <6>2 DEF Item, Harm
        <5>. QED
          BY <2>2, <5>1, <5>2, <5>3 DEF Dated, Quoted
      <4>2. Harm(e, "undated") \in damage'
        BY <2>3, <3>1
      <4>3. /\ Honest(f)' /\ f.kind = e.kind /\ f.at = e.at
            /\ (e.kind \in Quoted => f.token = e.token /\ TopOf(f) = TopOf(e))
        BY <2>2, <3>1, <4>1, <4>2, UndatedIsHonest
      <4>. QED
        BY <1>1, <2>2, <4>1, <4>3
    <3>2. CASE f \in Garbled(e) /\ flaw = "garbled"
      <4>1. Harm(e, "garbled") \in damage'
        BY <3>2
      <4>2. Honest(f)' /\ f \in Item /\ f.at = e.at /\ f.kind = e.kind /\ e.kind \in Quoted
        BY <2>2, <3>2, <4>1, GarbledIsHonest, GarbledIsWorse
      <4>. QED
        BY <1>1, <2>2, <4>1, <4>2
    <3>. QED
      BY <2>3, <3>1, <3>2
  <2>. PICK m : m = [msg EXCEPT ![i] = f]
    OBVIOUS
  <2>5. /\ m \in Seq(Item) /\ Len(m) = Len(msg) /\ m[i] = f
        /\ \A j \in 1..Len(msg) : j # i => m[j] = msg[j]
    BY <2>4
  <2>6. Items(m) \subseteq Items(msg) \cup {f} /\ f \in Items(m)
    BY <2>5 DEF Items
  <2>7. ASSUME NEW x \in Items(msg), x.kind \in Dated PROVE Arrives(x, m)
    <3>1. PICK j \in 1..Len(msg) : x = msg[j]
      BY DEF Items
    <3>2. CASE j = i
      BY <2>4, <2>6, <3>1, <3>2 DEF Arrives
    <3>3. CASE j # i
      <4>1. x \in Items(m)
        BY <2>5, <3>1, <3>3 DEF Items
      <4>. QED
        BY <4>1 DEF Arrives
    <3>. QED
      BY <3>2, <3>3
  <2>8. \A d \in damage' : \/ d \in damage
                           \/ d \in [about : Token \cup {None}, at : {clock'},
                                     flaw : {"unread", "undated", "garbled"}]
    BY <2>2, <2>3, HarmType
  <2>9. ~Raises(m)
    <3>1. \A x \in Items(m) : x.kind # "raises"
      BY <1>1, <2>4, <2>6
    <3>. QED
      BY <2>5, <3>1, ItemsOf
  <2>10. \A x \in Items(m) : Honest(x)' /\ (x.kind \in Dated => x.at = clock')
    BY <1>1, <2>2, <2>4, <2>6
  <2>11. wire' = Append(messages, m) /\ damage \subseteq damage'
    BY <2>3
  <2>. QED
    <3>1. Sent(messages, msg, m)
      BY <1>3, <1>5, <2>7, <2>8, <2>9, <2>10, <2>11 DEF Sent
    <3>. QED
      BY <2>5, <3>1
<1>6. ASSUME bad < MaxBad, bad' = bad + 1, SendRaising(messages, msg)
      PROVE  \E m \in Seq(Item) : Sent(messages, msg, m)
  <2>. PICK f : f = [kind |-> "raises"]
    OBVIOUS
  <2>1. PICK i \in 1..Len(msg) :
          wire' = Append(messages, [msg EXCEPT ![i] = f]) /\ UNCHANGED damage
    BY <1>6 DEF SendRaising
  <2>. PICK m : m = [msg EXCEPT ![i] = f]
    OBVIOUS
  <2>2. f \in Item /\ f.kind = "raises" /\ Honest(f)'
    BY DEF Item, Honest, Dated, Quoted
  <2>3. /\ m \in Seq(Item) /\ Len(m) = Len(msg) /\ m[i] = f
        /\ \A j \in 1..Len(msg) : j # i => m[j] = msg[j]
    BY <2>2
  <2>4. Items(m) \subseteq Items(msg) \cup {f} /\ f \in Items(m)
    BY <2>3 DEF Items
  <2>5. Raises(m)
    BY <2>2, <2>3 DEF Raises
  <2>6. \A x \in Items(m) : Honest(x)' /\ (x.kind \in Dated => x.at = clock')
    BY <1>1, <2>2, <2>4 DEF Dated, Quoted
  <2>7. \A x \in Items(msg) : Arrives(x, m)
    BY <2>5 DEF Arrives
  <2>8. wire' = Append(messages, m)
    BY <2>1
  <2>9. damage \subseteq damage' /\ \A d \in damage' : d \in damage
    BY <2>1
  <2>10. Sent(messages, msg, m)
    BY <1>3, <1>6, <2>6, <2>7, <2>8, <2>9 DEF Sent
  <2>. QED
    BY <2>3, <2>10
<1>. QED
  BY <1>2, <1>4, <1>5, <1>6 DEF Send

LEMMA AppendEffect ==
  ASSUME wire \in Seq(Seq(Item)), NEW m \in Seq(Item), wire' = Append(wire, m)
  PROVE  /\ wire' \in Seq(Seq(Item))
         /\ Len(wire) \in Nat /\ Len(wire)' = Len(wire) + 1
         /\ \A i \in 1..Len(wire) : wire'[i] = wire[i]
         /\ wire'[Len(wire) + 1] = m
         /\ InFlight' = InFlight \cup Items(m)
<1>1. /\ wire' \in Seq(Seq(Item))
      /\ Len(wire) \in Nat /\ Len(wire)' = Len(wire) + 1
      /\ \A i \in 1..Len(wire) : wire'[i] = wire[i]
      /\ wire'[Len(wire) + 1] = m
  OBVIOUS
<1>2. 1..Len(wire)' = (1..Len(wire)) \cup {Len(wire) + 1}
  BY <1>1
<1>3. InFlight' = UNION {Items(wire'[i]) : i \in 1..Len(wire')}
  BY DEF InFlight, Items
<1>4. InFlight' \subseteq InFlight \cup Items(m)
  BY <1>1, <1>2, <1>3 DEF InFlight
<1>5. InFlight \cup Items(m) \subseteq InFlight'
  <2>1. \A i \in 1..Len(wire) : i \in 1..Len(wire') /\ Items(wire'[i]) = Items(wire[i])
    BY <1>1
  <2>2. Len(wire) + 1 \in 1..Len(wire') /\ Items(wire'[Len(wire) + 1]) = Items(m)
    BY <1>1
  <2>. QED
    BY <1>3, <2>1, <2>2 DEF InFlight
<1>. QED
  BY <1>1, <1>4, <1>5

LEMMA TailEffect ==
  ASSUME wire \in Seq(Seq(Item)), wire # <<>>, wire' = Tail(wire)
  PROVE  /\ wire' \in Seq(Seq(Item))
         /\ Len(wire) \in Nat /\ Len(wire)' = Len(wire) - 1
         /\ \A i \in 1..Len(wire') : i + 1 \in 1..Len(wire) /\ wire'[i] = wire[i + 1]
         /\ 1 \in 1..Len(wire) /\ Head(wire) = wire[1] /\ Head(wire) \in Seq(Item)
         /\ InFlight' \subseteq InFlight
<1>1. /\ wire' \in Seq(Seq(Item))
      /\ Len(wire) \in Nat /\ Len(wire)' = Len(wire) - 1
      /\ \A i \in 1..Len(wire') : i + 1 \in 1..Len(wire) /\ wire'[i] = wire[i + 1]
      /\ 1 \in 1..Len(wire) /\ Head(wire) = wire[1] /\ Head(wire) \in Seq(Item)
  OBVIOUS
<1>2. InFlight' = UNION {Items(wire'[i]) : i \in 1..Len(wire')}
  BY DEF InFlight, Items
<1>3. InFlight' \subseteq InFlight
  BY <1>1, <1>2 DEF InFlight
<1>. QED
  BY <1>1, <1>3

LEMMA EmptyEffect ==
  ASSUME wire' = <<>>
  PROVE  wire' \in Seq(Seq(Item)) /\ Len(wire)' = 0 /\ InFlight' = {}
  BY DEF InFlight

\* The initial frame is answered with a book per token.
LEMMA AnswerIsBooks ==
  ASSUME TypeOK, Stamp(clock) \in Stamps
  PROVE  LET answer == SetToSeq({Book(tok) : tok \in Token})
         IN  answer \in Seq(Item) /\ Items(answer) = {Book(tok) : tok \in Token}
<1>. DEFINE S == {Book(tok) : tok \in Token}
            n == Cardinality(S)
            answer == SetToSeq(S)
<1>1. IsFiniteSet(S)
  <2>1. [tok \in Token |-> Book(tok)] \in Surjection(Token, S)
    BY DEF Surjection
  <2>. HIDE DEF S
  <2>. QED
    BY <2>1, TokenAssumption, FS_Surjection
<1>2. S \subseteq Item
  BY BookTells
<1>. HIDE DEF S
<1>3. n \in Nat /\ \E f \in [1..n -> S] : IsInjective(f)
  BY <1>1, FS_CardinalityType DEF ExistsBijection, Bijection, Injection
<1>4. answer \in [1..n -> S] /\ IsInjective(answer)
  BY <1>3 DEF SetToSeq
<1>5. IsFiniteSet(1..n) /\ Cardinality(1..n) = n
  BY <1>3, FS_Interval
<1>6. answer \in Injection(1..n, S)
  BY <1>4 DEF Injection
<1>7. answer \in Surjection(1..n, S)
  BY <1>1, <1>5, <1>6, FS_Injection
<1>8. answer \in Seq(Item) /\ Len(answer) = n
  <2>. HIDE DEF answer, n
  <2>. QED
    BY <1>2, <1>3, <1>4
<1>9. Items(answer) = S
  BY <1>4, <1>7, <1>8 DEF Items, Surjection
<1>. QED
  BY <1>8, <1>9 DEF S
(* The beginning *)

LEMMA Initially == Init => IInv
<1>. SUFFICES ASSUME Init PROVE IInv
  OBVIOUS
<1>. DEFINE First(tok) == [token |-> tok, at |-> 0, top |-> TopIn(levels, tok)]
<1>0. /\ client \in {"clob", "rtds", "binance"} /\ unit \in Units
      /\ client = "binance" => unit = "ms"
      /\ clock = 0 /\ since = 0 /\ conn = "down" /\ wire = <<>>
      /\ past = {First(tok) : tok \in Token} /\ made = {}
      /\ quotes = {} /\ trades = {} /\ damage = {} /\ ticks = [s \in 0..MaxClock |-> None]
      /\ events = 0 /\ drops = 0 /\ bad = 0
  BY DEF Init, Units
<1>1. /\ Price # {} /\ Price \in SUBSET Price
      /\ MaxClock \in Nat /\ MaxEvents \in Nat /\ MaxDrops \in Nat /\ MaxBad \in Nat
  BY Constants, PriceAssumption
<1>2. Min(Price) \in Price /\ Max(Price) \in Price
  BY <1>1, PricesAreBounded
<1>3. levels \in [Token -> [Side -> SUBSET Price]]
  BY <1>2 DEF Init
<1>4. \A tok \in Token : TopIn(levels, tok) \in Top
  BY <1>3, TopInType
<1>5. TypeOK
  <2>1. past \subseteq [token : Token, at : 0..MaxClock, top : Top]
    BY <1>0, <1>1, <1>4
  <2>2. ticks \in [0..MaxClock -> (0..MaxClock) \cup {None}]
    BY <1>0
  <2>. QED
    BY <1>0, <1>1, <1>3, <2>1, <2>2 DEF TypeOK
<1>6. History
  <2>1. \A tok \in Token : TopAt(tok, clock) = TopIn(levels, tok)
    <3>. SUFFICES ASSUME NEW tok \in Token
                  PROVE  TopAt(tok, clock) = TopIn(levels, tok)
      OBVIOUS
    <3>1. {p \in past : p.token = tok /\ p.at <= clock} = {First(tok)}
      BY <1>0
    <3>2. TopAt(tok, clock)
            = (CHOOSE p \in {First(tok)} : \A q \in {First(tok)} : q.at <= p.at).top
      BY <3>1 DEF TopAt
    <3>3. (CHOOSE p \in {First(tok)} : \A q \in {First(tok)} : q.at <= p.at) = First(tok)
      <4>1. First(tok).at <= First(tok).at
        OBVIOUS
      <4>. HIDE DEF First
      <4>. QED
        BY <4>1
    <3>. QED
      BY <3>2, <3>3
  <2>2. /\ \A tok \in Token : First(tok) \in past
        /\ \A p \in past : \E tok \in Token : p = First(tok)
        /\ \A tok : First(tok).token = tok /\ First(tok).at = 0
    BY <1>0
  <2>. HIDE DEF First
  <2>3. /\ \A tok \in Token : \E p \in past : p.token = tok /\ p.at = 0
        /\ \A p \in past : p.at <= clock
        /\ \A p, q \in past : p.token = q.token /\ p.at = q.at => p = q
    BY <1>0, <2>2
  <2>. QED
    BY <1>0, <2>1, <2>3 DEF History
<1>7. InFlight = {} /\ Len(wire) = 0 /\ wire \in Seq(Seq(Item))
  BY <1>0 DEF InFlight
<1>8. Messages /\ Spent /\ Ordered /\ Binance
  BY <1>0, <1>7 DEF Messages, Spent, Ordered, Binance
<1>9. AllComes /\ RowsAreTrue
  BY <1>0 DEF AllComes, RowsAreTrue
<1>. QED
  BY <1>5, <1>6, <1>8, <1>9 DEF IInv
-----------------------------------------------------------------------------
(* What happens on the exchange *)

\* What happens is paid for: there is an instant left for an event, for a message
\* and for a connection.
LEMMA ClockAhead ==
  ASSUME IInv, events < MaxEvents \/ wire # <<>> \/ conn = "down"
  PROVE  clock + 1 \in 0..MaxClock
<1>. PICK b \in {0, 1} :
       b = IF conn = "down" \/ \E i \in 1..Len(wire) : Raises(wire[i]) THEN 1 ELSE 0
  OBVIOUS
<1>1. /\ MaxEvents \in Nat /\ MaxDrops \in Nat /\ MaxBad \in Nat
      /\ MaxClock = MaxEvents + MaxEvents + MaxDrops + MaxBad + 1
      /\ clock \in Nat /\ events \in 0..MaxEvents /\ drops \in 0..MaxDrops
      /\ bad \in 0..MaxBad
  BY Constants DEF MaxClock, IInv, TypeOK
<1>2. Len(wire) \in Nat /\ (wire # <<>> => Len(wire) >= 1)
  BY DEF IInv, Messages
<1>3. clock + Len(wire) + b <= events + events + drops + bad + 1
  BY DEF IInv, Spent
<1>. QED
  BY <1>1, <1>2, <1>3

LEMMA RaisingIsPaid ==
  ASSUME NEW x \in Nat, NEW y \in Nat, x <= y, NEW b \in {0, 1}, NEW c \in {0, 1},
         c = 1 => b = 1 \/ y = x + 1
  PROVE  x + c <= y + b
<1>1. CASE c = 0
  BY <1>1
<1>2. CASE c = 1
  BY <1>2
<1>. QED
  BY <1>1, <1>2

\* A message more is in order, as long as it tells of the present.
LEMMA SentKeeps ==
  ASSUME IInv, Later, History', UNCHANGED rows, clock' \in 0..MaxClock,
         NEW msg, NEW m \in Seq(Item), Sent(wire, msg, m)
  PROVE  /\ Messages' /\ Ordered' /\ RowsAreTrue' /\ Binance'
         /\ damage' \subseteq [about : Token \cup {None}, at : 0..MaxClock,
                               flaw : {"unread", "undated", "garbled"}]
<1>1. /\ clock \in Nat /\ clock' \in Nat /\ clock <= clock'
      /\ UNCHANGED <<client, unit, quotes, trades, ticks>>
      /\ wire \in Seq(Seq(Item)) /\ Len(wire) \in Nat
  BY Constants DEF IInv, TypeOK, Messages, Later, rows
<1>2. /\ wire' = Append(wire, m)
      /\ \A e \in Items(m) : Honest(e)' /\ (e.kind \in Dated => e.at = clock')
  BY DEF Sent
<1>3. /\ wire' \in Seq(Seq(Item))
      /\ Len(wire)' = Len(wire) + 1
      /\ \A i \in 1..Len(wire) : wire'[i] = wire[i]
      /\ wire'[Len(wire) + 1] = m
      /\ InFlight' = InFlight \cup Items(m)
  BY <1>1, <1>2, AppendEffect
<1>4. 1..Len(wire') = (1..Len(wire)) \cup {Len(wire) + 1}
  BY <1>1, <1>3
<1>5. InFlight \subseteq Item /\ \A e \in InFlight : Honest(e)'
  BY <1>1, InFlightItems, HonestStays DEF IInv, Messages
<1>6. Messages'
  BY <1>2, <1>3, <1>5 DEF Messages
<1>7. /\ \A q \in quotes : /\ q.ts \in Nat /\ q.ts <= clock /\ q.ts <= clock'
                           /\ q.at \in Nat /\ q.at <= clock /\ q.at <= clock'
      /\ \A s \in DOMAIN ticks : ticks[s] # None =>
           ticks[s] \in Nat /\ ticks[s] <= clock /\ ticks[s] <= clock'
  <2>1. /\ \A q \in quotes : q.ts \in Nat /\ q.ts <= clock /\ q.at \in Nat /\ q.at <= clock
        /\ \A s \in DOMAIN ticks : ticks[s] # None => ticks[s] \in Nat /\ ticks[s] <= clock
    BY Constants DEF IInv, TypeOK, Ordered
  <2>. QED
    BY <1>1, <2>1
<1>8. Ordered'
  <2>1. \A e \in InFlight : e.kind \in Dated => e.at \in Nat /\ e.at <= clock
    BY <1>5, ItemHas DEF IInv, Messages, Honest
  <2>2. \A i \in 1..Len(wire) : Items(wire[i]) \subseteq InFlight
    BY <1>1, InFlightItems
  <2>3. ASSUME NEW i \in 1..Len(wire'), NEW j \in 1..Len(wire'), i <= j,
               NEW e \in Items(wire'[i]), NEW f \in Items(wire'[j]),
               e.kind \in Dated, f.kind \in Dated
        PROVE  e.at <= f.at
    <3>1. CASE j \in 1..Len(wire)
      <4>1. i \in 1..Len(wire) /\ wire'[i] = wire[i] /\ wire'[j] = wire[j]
        BY <1>3, <2>3, <3>1
      <4>. QED
        BY <2>3, <3>1, <4>1 DEF IInv, Ordered
    <3>2. CASE j = Len(wire) + 1
      <4>1. f.at = clock'
        BY <1>2, <1>3, <2>3, <3>2
      <4>2. CASE i \in 1..Len(wire)
        <5>1. e \in InFlight
          BY <1>3, <2>2, <2>3, <4>2
        <5>. QED
          BY <1>1, <2>1, <2>3, <4>1, <5>1
      <4>3. CASE i = Len(wire) + 1
        BY <1>1, <1>2, <1>3, <2>3, <4>1, <4>3
      <4>. QED
        BY <1>4, <4>2, <4>3
    <3>. QED
      BY <1>4, <3>1, <3>2
  <2>4. ASSUME NEW e \in InFlight', e.kind \in Dated
        PROVE  /\ \A q \in quotes' : q.at <= e.at
               /\ \A s \in DOMAIN ticks' : ticks'[s] # None => ticks'[s] <= e.at
    <3>1. CASE e \in InFlight
      BY <1>1, <2>4, <3>1 DEF IInv, Ordered
    <3>2. CASE e \in Items(m)
      <4>1. e.at = clock'
        BY <1>2, <2>4, <3>2
      <4>. QED
        BY <1>1, <1>7, <4>1
    <3>. QED
      BY <1>3, <3>1, <3>2
  <2>5. \A q \in quotes : BeforeTold(q.token, q.at)'
    BY <1>7, BeforeToldStays DEF IInv, Ordered
  <2>6. unit = "none" => \A q, r \in quotes : q.at < r.at => q.ts < r.ts
    BY DEF IInv, Ordered
  <2>. QED
    BY <1>1, <1>7, <2>3, <2>4, <2>5, <2>6 DEF Ordered, Items
<1>9. RowsAreTrue' /\ Binance'
  BY <1>1, RowsStayTrue DEF IInv, Binance
<1>10. damage' \subseteq [about : Token \cup {None}, at : 0..MaxClock,
                          flaw : {"unread", "undated", "garbled"}]
  BY DEF IInv, TypeOK, Sent
<1>. QED
  BY <1>6, <1>8, <1>9, <1>10

\* What is sent of the present top of a token is on its way.
LEMMA SentQuote ==
  ASSUME wire \in Seq(Seq(Item)), NEW msg \in Seq(Item), NEW m \in Seq(Item),
         Sent(wire, msg, m), NEW e \in Items(msg), e.kind \in Quoted, Exact(e)'
  PROVE  QuoteComes(e.token)'
<1>1. /\ Len(wire) + 1 \in 1..Len(wire') /\ wire'[Len(wire) + 1] = m
  BY AppendEffect DEF Sent
<1>2. Fresh(e.token, e.at)' /\ TopOf(e) = TopIn(levels, e.token)' /\ e.kind \in Dated
  BY DEF Exact, Dated
<1>3. Arrives(e, m)
  BY <1>2 DEF Sent
<1>4. CASE Raises(m)
  BY <1>1, <1>4 DEF QuoteComes, Raises
<1>5. ASSUME NEW f \in Items(m), f.kind = e.kind, f.at = e.at, f.token = e.token,
             TopOf(f) = TopOf(e)
      PROVE  QuoteComes(e.token)'
  <2>1. Tells(f, e.token)'
    BY <1>2, <1>5 DEF Tells, TopOf, TopOfBook, Fresh
  <2>2. \E x \in Items(wire'[Len(wire) + 1]) : Tells(x, e.token)'
    BY <1>1, <1>5, <2>1
  <2>. QED
    BY <1>1, <2>2 DEF QuoteComes, Items, Tells, Fresh
<1>6. ASSUME NEW flaw \in {"unread", "garbled"}, Harm(e, flaw) \in damage'
      PROVE  QuoteComes(e.token)'
  <2>1. /\ Harm(e, flaw).about = e.token /\ Harm(e, flaw).at = e.at
        /\ Harm(e, flaw).flaw # "undated"
    BY DEF Harm, Quoted
  <2>2. Fresh(e.token, Harm(e, flaw).at)'
    BY <1>2, <2>1 DEF Fresh
  <2>3. \E d \in damage' : /\ d.about = e.token /\ d.flaw # "undated"
                           /\ Fresh(e.token, d.at)'
    BY <1>6, <2>1, <2>2
  <2>. QED
    BY <2>3 DEF QuoteComes, Fresh
<1>. QED
  BY <1>3, <1>4, <1>5, <1>6 DEF Arrives

\* So is what is sent of a trade.
LEMMA SentTrade ==
  ASSUME wire \in Seq(Seq(Item)), NEW msg \in Seq(Item), NEW m \in Seq(Item),
         Sent(wire, msg, m), NEW e \in Items(msg), e.kind = "trade"
  PROVE  TradeComes(e.at)' /\ TickComes(e.at)'
<1>1. /\ Len(wire) + 1 \in 1..Len(wire') /\ wire'[Len(wire) + 1] = m
  BY AppendEffect DEF Sent
<1>2. Arrives(e, m) /\ e.kind \notin Quoted
  BY DEF Sent, Dated, Quoted
<1>3. Sells(m, e.at) \/ Harm(e, "unread") \in damage'
  BY <1>2 DEF Arrives, Sells
<1>4. Harm(e, "unread") = [about |-> None, at |-> e.at, flaw |-> "unread"]
  BY DEF Harm
<1>5. CASE Sells(m, e.at)
  <2>1. \E i \in 1..Len(wire') : Sells(wire'[i], e.at)
    BY <1>1, <1>5
  <2>. QED
    BY <2>1 DEF TradeComes, TickComes, Sells, Raises, Items
<1>6. CASE Harm(e, "unread") \in damage'
  BY <1>4, <1>6 DEF TradeComes, TickComes, Unread, Flawed
<1>. QED
  BY <1>3, <1>5, <1>6

\* What was on its way still is, as long as no message is lost.
LEMMA QuoteStillComes ==
  ASSUME NEW tok, TopIn(levels, tok)' = TopIn(levels, tok), since' = since,
         \A p \in past' : p.token = tok => p \in past, UNCHANGED quotes,
         damage \subseteq damage',
         \A i \in 1..Len(wire) : i \in 1..Len(wire') /\ wire'[i] = wire[i],
         QuoteComes(tok)
  PROVE  QuoteComes(tok)'
<1>1. \A t : Fresh(tok, t) => Fresh(tok, t)'
  BY DEF Fresh
<1>2. \A e : Tells(e, tok) => Tells(e, tok)'
  BY <1>1 DEF Tells, TopOf, TopOfBook
<1>3. CASE \E q \in quotes : q.token = tok /\ Fresh(tok, q.at) /\ q.top = TopIn(levels, tok)
  <2>1. \E q \in quotes' : /\ q.token = tok /\ Fresh(tok, q.at)'
                           /\ q.top = TopIn(levels, tok)'
    BY <1>1, <1>3
  <2>. QED
    BY <2>1 DEF QuoteComes, Fresh
<1>4. CASE \E d \in damage : d.about = tok /\ d.flaw # "undated" /\ Fresh(tok, d.at)
  <2>1. \E d \in damage' : d.about = tok /\ d.flaw # "undated" /\ Fresh(tok, d.at)'
    BY <1>1, <1>4
  <2>. QED
    BY <2>1 DEF QuoteComes, Fresh
<1>5. ASSUME NEW i \in 1..Len(wire),
             Raises(wire[i]) \/ \E e \in Items(wire[i]) : Tells(e, tok)
      PROVE  QuoteComes(tok)'
  <2>1. \E k \in 1..Len(wire') :
          Raises(wire'[k]) \/ \E e \in Items(wire'[k]) : Tells(e, tok)'
    BY <1>2, <1>5
  <2>. QED
    BY <2>1 DEF QuoteComes, Raises, Items, Tells, Fresh
<1>. QED
  BY <1>3, <1>4, <1>5 DEF QuoteComes

LEMMA TradeStillComes ==
  ASSUME NEW t, UNCHANGED <<trades, ticks>>, damage \subseteq damage',
         \A i \in 1..Len(wire) : i \in 1..Len(wire') /\ wire'[i] = wire[i]
  PROVE  /\ TradeComes(t) => TradeComes(t)'
         /\ TickComes(t) => TickComes(t)'
<1>1. (\E i \in 1..Len(wire) : Sells(wire[i], t)) => \E i \in 1..Len(wire') : Sells(wire'[i], t)
  OBVIOUS
<1>2. Unread(t) => Unread(t)'
  BY DEF Unread, Flawed
<1>. QED
  BY <1>1, <1>2 DEF TradeComes, TickComes, Sells, Raises, Items

LEMMA HistoryStays ==
  ASSUME TypeOK, History, UNCHANGED past, clock' \in Nat, clock <= clock',
         \A tok \in Token : TopIn(levels, tok)' = TopIn(levels, tok),
         \A t \in made' : t \in made \/ t <= clock',
         since' = since \/ since' <= clock'
  PROVE  History'
<1>1. /\ \A p \in past : p.at \in Nat /\ p.at <= clock /\ p.at <= clock'
      /\ \A t \in made : t \in Nat /\ t <= clock /\ t <= clock'
      /\ since \in Nat /\ since <= clock /\ since <= clock'
  BY Constants DEF TypeOK, History
<1>2. \A tok \in Token : TopAt(tok, clock)' = TopAt(tok, clock)
  <2>. SUFFICES ASSUME NEW tok \in Token PROVE TopAt(tok, clock)' = TopAt(tok, clock)
    OBVIOUS
  <2>1. {p \in past' : p.token = tok /\ p.at <= clock'}
          = {p \in past : p.token = tok /\ p.at <= clock}
    BY <1>1
  <2>. QED
    BY <2>1 DEF TopAt
<1>. QED
  BY <1>1, <1>2 DEF History

\* An event of the exchange, with the message for those who listen.
Happens(msg) ==
  /\ Event /\ Emit(msg)
  /\ UNCHANGED <<client, unit, conn, since, rows, drops>>
  /\ past \subseteq past' /\ \A p \in past' : p \in past \/ p.at = clock'
  /\ made \subseteq made'

\* An event pays for its instant and for its message.
LEMMA OneMore ==
  ASSUME NEW t \in Nat, NEW n \in Nat, NEW e \in Nat, NEW d \in Nat,
         NEW x \in Nat, NEW y \in Nat, NEW b \in Int, NEW c \in Int,
         t + n + b <= e + e + d + x + 1, x + c <= y + b
  PROVE  (t + 1) + (n + 1) + c <= (e + 1) + (e + 1) + d + y + 1
  OBVIOUS

LEMMA HappensKeeps ==
  ASSUME IInv, NEW msg \in Seq(Item), Happens(msg), ~Raises(msg), History',
         \A e \in Items(msg) : Exact(e)'
  PROVE  /\ Messages' /\ Spent' /\ Ordered' /\ Binance' /\ RowsAreTrue'
         /\ clock' \in 0..MaxClock /\ events' \in 0..MaxEvents /\ bad' \in 0..MaxBad
         /\ damage' \subseteq [about : Token \cup {None}, at : 0..MaxClock,
                               flaw : {"unread", "undated", "garbled"}]
         /\ damage \subseteq damage'
         /\ conn' # "up" => wire' = <<>>
         /\ conn = "up" => \E m \in Seq(Item) : Sent(wire, msg, m)
<1>1. /\ clock \in Nat /\ clock' = clock + 1
      /\ UNCHANGED <<client, unit, conn, quotes, trades, ticks, drops>>
      /\ events \in 0..MaxEvents /\ events < MaxEvents /\ events' = events + 1
      /\ events \in Nat /\ bad \in Nat /\ drops \in Nat
      /\ MaxEvents \in Nat /\ bad \in 0..MaxBad /\ wire \in Seq(Seq(Item))
      /\ Len(wire) \in Nat
  BY Constants DEF IInv, TypeOK, Messages, Happens, Event, rows
<1>2. clock' \in 0..MaxClock /\ events' \in 0..MaxEvents
  BY <1>1, ClockAhead
<1>. PICK b \in {0, 1} :
       b = IF conn = "down" \/ \E i \in 1..Len(wire) : Raises(wire[i]) THEN 1 ELSE 0
  OBVIOUS
<1>. PICK c \in {0, 1} :
       c = IF conn' = "down" \/ \E i \in 1..Len(wire') : Raises(wire'[i]) THEN 1 ELSE 0
  OBVIOUS
<1>3. /\ clock + Len(wire) + b <= events + events + drops + bad + 1
      /\ Spent' <=> clock' + Len(wire)' + c <= events' + events' + drops' + bad' + 1
  BY DEF IInv, Spent, Raises
<1>4. damage \subseteq damage' => Later
  <2>1. (\A p \in past : p.at \in Nat) /\ since \in Nat
    BY Constants DEF IInv, TypeOK
  <2>2. /\ \A p \in past' : p \in past \/ p.at = clock + 1
        /\ past \subseteq past' /\ made \subseteq made' /\ since' = since
    BY <1>1 DEF Happens
  <2>3. clock + 1 \in Nat /\ clock <= clock + 1 /\ clock + 1 > clock
        /\ since <= since
    BY <1>1, <2>1
  <2>4. \A p \in past' : p.at \in Nat /\ (p \in past \/ p.at > clock)
    BY <2>1, <2>2, <2>3
  <2>. QED
    BY <1>1, <2>1, <2>2, <2>3, <2>4 DEF Later
<1>5. CASE conn # "up"
  <2>1. wire = <<>> /\ UNCHANGED <<wire, damage, bad>>
    BY <1>5 DEF Happens, Emit, IInv, TypeOK
  <2>2. Later
    BY <1>4, <2>1
  <2>3. Len(wire) = 0 /\ Len(wire)' = 0 /\ InFlight' = {} /\ wire' \in Seq(Seq(Item))
    BY <2>1, EmptyEffect
  <2>4. Messages'
    BY <2>3 DEF Messages
  <2>5. Spent'
    <3>1. c = b
      BY <1>1, <2>1
    <3>. QED
      BY <1>1, <1>3, <2>1, <2>3, <3>1
  <2>6. Ordered'
    <3>1. /\ \A q \in quotes : /\ q.ts \in Nat /\ q.ts <= clock
                               /\ q.at \in Nat /\ q.at <= clock /\ BeforeTold(q.token, q.at)
          /\ \A s \in DOMAIN ticks : ticks[s] # None => ticks[s] \in Nat /\ ticks[s] <= clock
      BY Constants DEF IInv, TypeOK, Ordered
    <3>2. /\ \A q \in quotes : /\ q.ts <= clock' /\ q.at <= clock'
                               /\ BeforeTold(q.token, q.at)'
          /\ \A s \in DOMAIN ticks : ticks[s] # None => ticks[s] <= clock'
      BY <1>1, <2>2, <3>1, BeforeToldStays DEF IInv
    <3>3. unit = "none" => \A q, r \in quotes : q.at < r.at => q.ts < r.ts
      BY DEF IInv, Ordered
    <3>. QED
      BY <1>1, <2>3, <3>2, <3>3 DEF Ordered
  <2>7. RowsAreTrue' /\ Binance'
    BY <1>1, <2>2, RowsStayTrue DEF IInv, Binance, Happens
  <2>8. damage' \subseteq [about : Token \cup {None}, at : 0..MaxClock,
                           flaw : {"unread", "undated", "garbled"}]
    BY <2>1 DEF IInv, TypeOK
  <2>. QED
    BY <1>1, <1>2, <1>5, <2>1, <2>4, <2>5, <2>6, <2>7, <2>8
<1>6. CASE conn = "up"
  <2>1. Send(wire, msg)
    BY <1>6 DEF Happens, Emit
  <2>. \E m \in Seq(Item) : Sent(wire, msg, m)
    <3>1. wire \in Seq(Seq(Item)) /\ bad \in 0..MaxBad /\ UNCHANGED <<client, unit>>
      BY <1>1
    <3>2. clock' \in Nat
      BY <1>1
    <3>3. \A e \in Items(msg) : Exact(e)'
      OBVIOUS
    <3>. QED
      BY <2>1, <3>1, <3>2, <3>3, SendEffect, ZenonT(60)
  <2>2. PICK m \in Seq(Item) : Sent(wire, msg, m)
    OBVIOUS
  <2>3. /\ damage \subseteq damage' /\ Later /\ wire' = Append(wire, m)
        /\ bad' \in 0..MaxBad /\ bad <= bad' /\ (Raises(m) => bad' = bad + 1)
    BY <1>4, <2>2 DEF Sent
  <2>4. /\ Messages' /\ Ordered' /\ RowsAreTrue' /\ Binance'
        /\ damage' \subseteq [about : Token \cup {None}, at : 0..MaxClock,
                              flaw : {"unread", "undated", "garbled"}]
    BY <1>2, <2>2, <2>3, SentKeeps DEF Happens
  <2>5. Spent'
    <3>1. /\ Len(wire)' = Len(wire) + 1
          /\ \A i \in 1..Len(wire) : wire'[i] = wire[i]
          /\ wire'[Len(wire) + 1] = m
      BY <1>1, <2>3, AppendEffect
    <3>2. c = 1 => b = 1 \/ bad' = bad + 1
      <4>1. 1..Len(wire') = (1..Len(wire)) \cup {Len(wire) + 1}
        BY <1>1, <3>1
      <4>. QED
        BY <1>1, <2>3, <3>1, <4>1
    <3>3. bad' \in Nat /\ bad + c <= bad' + b
      <4>1. bad' \in Nat /\ bad \in Nat /\ bad <= bad'
        BY <1>1, <2>3, Constants
      <4>. QED
        BY <3>2, <4>1, RaisingIsPaid
    <3>4. /\ (clock + 1) + (Len(wire) + 1) + c
               <= (events + 1) + (events + 1) + drops + bad' + 1
      <4>1. b \in Int /\ c \in Int
        OBVIOUS
      <4>2. bad \in Nat /\ drops \in Nat /\ events \in Nat
        BY <1>1
      <4>. QED
        BY <1>1, <1>3, <3>3, <4>1, <4>2, OneMore
    <3>5. /\ clock' = clock + 1 /\ Len(wire)' = Len(wire) + 1
          /\ events' = events + 1 /\ drops' = drops
      BY <1>1, <3>1
    <3>. QED
      BY <1>3, <3>4, <3>5, Zenon
  <2>. QED
    BY <1>1, <1>2, <1>6, <2>2, <2>3, <2>4, <2>5
<1>. QED
  BY <1>5, <1>6

\* What it does not tell of anew still comes.
LEMMA HappensElsewhere ==
  ASSUME IInv, NEW msg, Happens(msg), NEW m \in Seq(Item), Sent(wire, msg, m)
  PROVE  /\ \A tok : /\ TopIn(levels, tok)' = TopIn(levels, tok)
                     /\ \A p \in past' : p.token = tok => p \in past
                     => (QuoteComes(tok) => QuoteComes(tok)')
         /\ \A t : /\ TradeComes(t) => TradeComes(t)'
                   /\ TickComes(t) => TickComes(t)'
<1>1. /\ \A i \in 1..Len(wire) : i \in 1..Len(wire') /\ wire'[i] = wire[i]
      /\ damage \subseteq damage' /\ UNCHANGED <<quotes, trades, ticks, since>>
  <2>1. /\ Len(wire) \in Nat /\ Len(wire)' = Len(wire) + 1
        /\ \A i \in 1..Len(wire) : wire'[i] = wire[i]
    BY AppendEffect DEF IInv, Messages, Sent
  <2>2. damage \subseteq damage' /\ UNCHANGED <<quotes, trades, ticks, since>>
    BY DEF Sent, Happens, rows
  <2>. QED
    BY <2>1, <2>2
<1>2. ASSUME NEW tok, TopIn(levels, tok)' = TopIn(levels, tok),
             \A p \in past' : p.token = tok => p \in past, QuoteComes(tok)
      PROVE  QuoteComes(tok)'
  BY <1>1, <1>2, QuoteStillComes
<1>3. \A t : /\ TradeComes(t) => TradeComes(t)'
             /\ TickComes(t) => TickComes(t)'
  BY <1>1, TradeStillComes
<1>. QED
  BY <1>2, <1>3

LEMMA TradeKeeps ==
  ASSUME IInv, Trade PROVE IInv'
<1>. PICK e : e = [kind |-> "trade", at |-> clock', stamp |-> Stamp(clock')]
  OBVIOUS
<1>. PICK msg : msg = <<e>>
  OBVIOUS
<1>1. /\ clock \in Nat /\ clock' = clock + 1 /\ made' = made \cup {clock'}
      /\ UNCHANGED <<client, unit, levels, past, conn, since, rows, drops>>
      /\ Event /\ Emit(msg) /\ unit \in Units
  BY Constants DEF Trade, Event, IInv, TypeOK
<1>2. Happens(msg)
  BY <1>1 DEF Happens
<1>3. /\ e \in Item /\ e.kind = "trade" /\ e.at = clock' /\ e.stamp = Stamp(clock')
      /\ msg \in Seq(Item) /\ ~Raises(msg) /\ Items(msg) = {e}
  <2>1. clock' \in Nat /\ Stamp(clock') \in Stamps
    BY <1>1, StampType
  <2>2. e \in [kind : {"trade"}, at : Nat, stamp : Stamps]
    BY <2>1
  <2>3. e \in Item /\ e.kind = "trade" /\ e.at = clock' /\ e.stamp = Stamp(clock')
    BY <2>2 DEF Item
  <2>4. msg \in Seq(Item) /\ Len(msg) = 1 /\ msg[1] = e
    BY <2>3
  <2>. QED
    BY <2>3, <2>4 DEF Items, Raises
<1>4. Exact(e)'
  <2>1. Stamp(e.at)' = Stamp(e.at)
    BY <1>1 DEF Stamp
  <2>. QED
    BY <1>1, <1>3, <2>1 DEF Exact, Quoted, Dated
<1>5. \A tok \in Token : TopIn(levels, tok)' = TopIn(levels, tok)
  BY <1>1 DEF TopIn
<1>6. History'
  BY <1>1, <1>5, HistoryStays DEF IInv
<1>7. /\ Messages' /\ Spent' /\ Ordered' /\ Binance' /\ RowsAreTrue'
      /\ clock' \in 0..MaxClock /\ events' \in 0..MaxEvents /\ bad' \in 0..MaxBad
      /\ damage' \subseteq [about : Token \cup {None}, at : 0..MaxClock,
                            flaw : {"unread", "undated", "garbled"}]
      /\ conn' # "up" => wire' = <<>>
      /\ conn = "up" => \E m \in Seq(Item) : Sent(wire, msg, m)
  BY <1>2, <1>3, <1>4, <1>6, HappensKeeps
<1>8. TypeOK'
  BY <1>1, <1>7 DEF IInv, TypeOK, rows
<1>9. AllComes'
  <2>. SUFFICES ASSUME conn = "up" PROVE AllComes'
    BY <1>1 DEF AllComes
  <2>1. PICK m \in Seq(Item) : Sent(wire, msg, m)
    BY <1>7
  <2>2. TradeComes(e.at)' /\ TickComes(e.at)'
    <3>1. wire \in Seq(Seq(Item))
      BY DEF IInv, Messages
    <3>. QED
      BY <1>3, <2>1, <3>1, SentTrade
  <2>3. \A tok \in Token : QuoteComes(tok) => QuoteComes(tok)'
    BY <1>1, <1>2, <1>5, <2>1, HappensElsewhere
  <2>4. \A t : /\ TradeComes(t) => TradeComes(t)'
               /\ TickComes(t) => TickComes(t)'
    BY <1>2, <2>1, HappensElsewhere
  <2>5. ASSUME client # "binance", NEW t \in made', t > since PROVE TradeComes(t)'
    <3>1. CASE t \in made
      BY <1>1, <2>4, <2>5, <3>1 DEF IInv, AllComes
    <3>2. CASE t = e.at
      BY <2>2, <3>2 DEF TradeComes, Unread, Flawed, Sells, Raises, Items
    <3>. QED
      BY <1>1, <1>3, <2>5, <3>1, <3>2
  <2>6. ASSUME client = "binance", NEW t \in made', t > since PROVE TickComes(t)'
    <3>1. CASE t \in made
      BY <1>1, <2>4, <2>6, <3>1 DEF IInv, AllComes
    <3>2. CASE t = e.at
      BY <2>2, <3>2 DEF TickComes, Unread, Flawed, Sells, Raises, Items
    <3>. QED
      BY <1>1, <1>3, <2>6, <3>1, <3>2
  <2>7. client = "clob" => \A tok \in Token : QuoteComes(tok)'
    BY <2>3 DEF IInv, AllComes
  <2>. QED
    BY <1>1, <2>5, <2>6, <2>7 DEF AllComes
<1>. QED
  BY <1>6, <1>7, <1>8, <1>9 DEF IInv

LEMMA ChangeEffect ==
  ASSUME TypeOK, NEW tok \in Token, NEW side \in Side, NEW p \in Price,
         Change(tok, side, p)
  PROVE  /\ client = "clob" /\ clock \in Nat /\ clock' = clock + 1
         /\ UNCHANGED <<client, unit, made, conn, since, quotes, trades, ticks, drops>>
         /\ levels' \in [Token -> [Side -> SUBSET Price]]
         /\ TopIn(levels', tok) \in Top
         /\ \A k \in Token \ {tok} : TopIn(levels, k)' = TopIn(levels, k)
<1>1. /\ client = "clob" /\ clock \in Nat /\ clock' = clock + 1
      /\ UNCHANGED <<client, unit, made, conn, since, quotes, trades, ticks, drops>>
  BY Constants DEF Change, Event, TypeOK, rows
<1>2. /\ levels' \in [Token -> [Side -> SUBSET Price]]
      /\ \A k \in Token \ {tok} : levels'[k] = levels[k]
  <2>1. levels \in [Token -> [Side -> SUBSET Price]]
    BY DEF TypeOK
  <2>2. PICK S \in SUBSET Price : levels' = [levels EXCEPT ![tok][side] = S]
    <3>1. levels[tok][side] \in SUBSET Price
      BY <2>1
    <3>. QED
      BY <3>1 DEF Change
  <2>. QED
    BY <2>1, <2>2
<1>. QED
  BY <1>1, <1>2, TopInType DEF TopIn

\* Nothing but quotes interests a client of books.
LEMMA OnlyQuotes ==
  ASSUME client' = "clob", made' = made, since' = since, client = "clob", AllComes,
         conn = "up", \A tok \in Token : QuoteComes(tok)',
         \A t : TradeComes(t) => TradeComes(t)'
  PROVE  AllComes'
  BY DEF AllComes

\* A change that leaves the top alone is announced for nothing.
LEMMA SameTopKeeps ==
  ASSUME IInv, NEW tok \in Token, NEW side \in Side, NEW p \in Price,
         Change(tok, side, p), TopIn(levels', tok) = TopIn(levels, tok),
         Emit(<<[kind |-> "price_change"]>>), UNCHANGED past
  PROVE  IInv'
<1>. DEFINE msg == <<[kind |-> "price_change"]>>
<1>1. /\ client = "clob" /\ clock \in Nat /\ clock' = clock + 1
      /\ UNCHANGED <<client, unit, made, conn, since, quotes, trades, ticks, drops>>
      /\ levels' \in [Token -> [Side -> SUBSET Price]]
      /\ \A k \in Token : TopIn(levels, k)' = TopIn(levels, k)
  BY ChangeEffect DEF IInv, TopIn
<1>2. Happens(msg)
  BY <1>1 DEF Happens, Change, Event, rows
<1>3. /\ msg \in Seq(Item) /\ ~Raises(msg)
      /\ Items(msg) = {[kind |-> "price_change"]}
  <2>1. [kind |-> "price_change"] \in Item
    BY DEF Item
  <2>2. msg \in Seq(Item) /\ Len(msg) = 1 /\ msg[1] = [kind |-> "price_change"]
    BY <2>1
  <2>. QED
    BY <2>2 DEF Items, Raises
<1>. HIDE DEF msg
<1>4. \A e \in Items(msg) : Exact(e)'
  BY <1>3 DEF Exact, Quoted, Dated
<1>5. History'
  BY <1>1, HistoryStays DEF IInv
<1>6. /\ Messages' /\ Spent' /\ Ordered' /\ Binance' /\ RowsAreTrue'
      /\ clock' \in 0..MaxClock /\ events' \in 0..MaxEvents /\ bad' \in 0..MaxBad
      /\ damage' \subseteq [about : Token \cup {None}, at : 0..MaxClock,
                            flaw : {"unread", "undated", "garbled"}]
      /\ conn' # "up" => wire' = <<>>
      /\ conn = "up" => \E m \in Seq(Item) : Sent(wire, msg, m)
  BY <1>2, <1>3, <1>4, <1>5, HappensKeeps
<1>7. TypeOK'
  BY <1>1, <1>6 DEF IInv, TypeOK
<1>8. AllComes'
  <2>. SUFFICES ASSUME conn = "up" PROVE AllComes'
    BY <1>1 DEF AllComes
  <2>1. PICK m \in Seq(Item) : Sent(wire, msg, m)
    BY <1>6
  <2>2. \A k \in Token : QuoteComes(k) => QuoteComes(k)'
    BY <1>1, <1>2, <2>1, HappensElsewhere
  <2>3. \A t : TradeComes(t) => TradeComes(t)'
    BY <1>2, <2>1, HappensElsewhere
  <2>4. \A k \in Token : QuoteComes(k)
    BY <1>1 DEF IInv, AllComes
  <2>. QED
    BY <1>1, <2>2, <2>3, <2>4, OnlyQuotes DEF IInv
<1>. QED
  BY <1>5, <1>6, <1>7, <1>8 DEF IInv

\* A new top is history from now on, and said so in a best_bid_ask.
LEMMA NewTopKeeps ==
  ASSUME IInv, NEW tok \in Token, NEW side \in Side, NEW p \in Price,
         Change(tok, side, p),
         Emit(<<[kind |-> "price_change"],
                [kind |-> "best_bid_ask", token |-> tok, at |-> clock',
                 stamp |-> Stamp(clock'), top |-> TopIn(levels', tok)]>>),
         past' = past \cup {[token |-> tok, at |-> clock', top |-> TopIn(levels', tok)]}
  PROVE  IInv'
<1>. PICK new : new = [token |-> tok, at |-> clock', top |-> TopIn(levels', tok)]
  OBVIOUS
<1>. PICK item : item = [kind |-> "best_bid_ask", token |-> tok, at |-> clock',
                         stamp |-> Stamp(clock'), top |-> TopIn(levels', tok)]
  OBVIOUS
<1>. DEFINE msg == <<[kind |-> "price_change"], item>>
<1>1. /\ client = "clob" /\ clock \in Nat /\ clock' = clock + 1
      /\ UNCHANGED <<client, unit, made, conn, since, quotes, trades, ticks, drops>>
      /\ levels' \in [Token -> [Side -> SUBSET Price]]
      /\ TopIn(levels', tok) \in Top
      /\ \A k \in Token \ {tok} : TopIn(levels, k)' = TopIn(levels, k)
  BY ChangeEffect DEF IInv
<1>2. Happens(msg)
  BY <1>1 DEF Happens, Change, Event, rows
<1>3. /\ new.token = tok /\ new.at = clock' /\ new.top = TopIn(levels', tok)
      /\ item.kind = "best_bid_ask" /\ item.token = tok /\ item.at = clock'
      /\ item.stamp = Stamp(clock') /\ item.top = TopIn(levels', tok) /\ item \in Item
      /\ past' = past \cup {new}
  <2>1. unit \in Units /\ clock' \in Nat
    BY <1>1 DEF IInv, TypeOK
  <2>2. Stamp(clock') \in Stamps
    BY <2>1, StampType
  <2>. QED
    BY <1>1, <2>1, <2>2 DEF Item
<1>4. /\ msg \in Seq(Item) /\ ~Raises(msg)
      /\ Items(msg) = {[kind |-> "price_change"], item}
  <2>1. [kind |-> "price_change"] \in Item
    BY DEF Item
  <2>2. /\ msg \in Seq(Item) /\ Len(msg) = 2
        /\ msg[1] = [kind |-> "price_change"] /\ msg[2] = item
    BY <1>3, <2>1
  <2>. HIDE DEF msg
  <2>. QED
    BY <1>3, <2>2 DEF Items, Raises
<1>. HIDE DEF msg
<1>5. /\ \A q \in past : q.at \in Nat /\ q.at <= clock /\ q.at < clock'
      /\ \A t \in made : t \in Nat /\ t <= clock
      /\ since \in Nat /\ since <= clock /\ clock < clock' /\ clock <= clock'
  <2>1. /\ \A q \in past : q.at \in Nat /\ q.at <= clock
        /\ \A t \in made : t \in Nat /\ t <= clock
        /\ since \in Nat /\ since <= clock
    BY Constants DEF IInv, TypeOK, History
  <2>. QED
    BY <1>1, <2>1
<1>6. TopAt(tok, clock)' = TopIn(levels', tok)
  <2>. DEFINE tops == {q \in past' : q.token = tok /\ q.at <= clock'}
  <2>1. new \in tops /\ \A q \in tops : q.at <= new.at /\ (q.at = new.at => q = new)
    BY <1>1, <1>3, <1>5
  <2>2. \A q \in tops : q.at \in Nat
    BY <1>1, <1>3, <1>5
  <2>. HIDE DEF tops
  <2>3. \A q \in tops : (\A r \in tops : r.at <= q.at) => q = new
    BY <2>1, <2>2
  <2>4. (CHOOSE q \in tops : \A r \in tops : r.at <= q.at) = new
    BY <2>1, <2>3
  <2>5. TopAt(tok, clock)' = (CHOOSE q \in tops : \A r \in tops : r.at <= q.at).top
    BY DEF TopAt, tops
  <2>. QED
    BY <1>3, <2>4, <2>5
<1>7. History'
  <2>1. \A k \in Token : TopAt(k, clock)' = TopIn(levels, k)'
    <3>. SUFFICES ASSUME NEW k \in Token, k # tok
                  PROVE  TopAt(k, clock)' = TopIn(levels, k)'
      BY <1>6 DEF TopIn
    <3>1. {q \in past' : q.token = k /\ q.at <= clock'}
            = {q \in past : q.token = k /\ q.at <= clock}
      BY <1>1, <1>3, <1>5
    <3>2. TopAt(k, clock)' = TopAt(k, clock)
      BY <3>1 DEF TopAt
    <3>. QED
      BY <1>1, <3>2 DEF IInv, History
  <2>2. \A q, r \in past' : q.token = r.token /\ q.at = r.at => q = r
    BY <1>1, <1>3, <1>5 DEF IInv, History
  <2>3. \A q \in past' : q.at <= clock'
    BY <1>1, <1>3, <1>5
  <2>4. since <= clock' /\ \A t \in made : t <= clock'
    BY <1>1, <1>5
  <2>. QED
    BY <1>1, <1>3, <2>1, <2>2, <2>3, <2>4 DEF IInv, History
<1>8. Exact(item)' /\ \A e \in Items(msg) : Exact(e)'
  <2>1. TopOf(item) = TopIn(levels, tok)'
    BY <1>3 DEF TopOf, TopIn
  <2>2. Fresh(tok, item.at)' /\ BeforeTold(tok, item.at)'
    <3>1. since <= clock' /\ \A q \in past' : q.at <= clock'
      BY <1>1, <1>3, <1>5
    <3>2. new \in past' /\ clock' <= new.at
      BY <1>1, <1>3
    <3>. QED
      BY <1>1, <1>3, <3>1, <3>2 DEF Fresh, BeforeTold
  <2>3. Stamp(item.at)' = Stamp(clock')
    BY <1>1, <1>3 DEF Stamp
  <2>4. Exact(item)'
    <3>1. TopOf(item)' = TopOf(item)
      BY DEF TopOf, TopOfBook
    <3>. QED
      BY <1>3, <2>1, <2>2, <2>3, <3>1 DEF Exact, Quoted, Dated, Fresh, BeforeTold, TopIn
  <2>. QED
    BY <1>4, <2>4 DEF Exact, Quoted, Dated
<1>9. /\ Messages' /\ Spent' /\ Ordered' /\ Binance' /\ RowsAreTrue'
      /\ clock' \in 0..MaxClock /\ events' \in 0..MaxEvents /\ bad' \in 0..MaxBad
      /\ damage' \subseteq [about : Token \cup {None}, at : 0..MaxClock,
                            flaw : {"unread", "undated", "garbled"}]
      /\ conn' # "up" => wire' = <<>>
      /\ conn = "up" => \E m \in Seq(Item) : Sent(wire, msg, m)
  BY <1>2, <1>4, <1>7, <1>8, HappensKeeps
<1>10. TypeOK'
  <2>1. past' \subseteq [token : Token, at : 0..MaxClock, top : Top]
    BY <1>1, <1>9 DEF IInv, TypeOK
  <2>. QED
    BY <1>1, <1>9, <2>1 DEF IInv, TypeOK
<1>11. AllComes'
  <2>. SUFFICES ASSUME conn = "up" PROVE AllComes'
    BY <1>1 DEF AllComes
  <2>1. PICK m \in Seq(Item) : Sent(wire, msg, m)
    BY <1>9
  <2>2. QuoteComes(tok)'
    <3>1. wire \in Seq(Seq(Item)) /\ item \in Items(msg) /\ item.kind \in Quoted
      BY <1>3, <1>4 DEF IInv, Messages, Quoted
    <3>2. QuoteComes(item.token)'
      BY <1>4, <1>8, <2>1, <3>1, SentQuote
    <3>. QED
      BY <1>3, <3>2 DEF QuoteComes, Tells, Fresh, TopIn, Raises, Items
  <2>3. ASSUME NEW k \in Token, k # tok PROVE QuoteComes(k)'
    <3>1. TopIn(levels, k)' = TopIn(levels, k) /\ \A q \in past' : q.token = k => q \in past
      BY <1>1, <1>3, <2>3
    <3>2. QuoteComes(k)
      BY <1>1 DEF IInv, AllComes
    <3>. QED
      BY <1>2, <2>1, <3>1, <3>2, HappensElsewhere
  <2>4. \A t : TradeComes(t) => TradeComes(t)'
    BY <1>2, <2>1, HappensElsewhere
  <2>. QED
    BY <1>1, <2>2, <2>3, <2>4, OnlyQuotes DEF IInv
<1>. QED
  BY <1>7, <1>9, <1>10, <1>11 DEF IInv

LEMMA ChangeKeeps ==
  ASSUME IInv, NEW tok \in Token, NEW side \in Side, NEW p \in Price,
         Change(tok, side, p)
  PROVE  IInv'
  BY SameTopKeeps, NewTopKeeps DEF Change
-----------------------------------------------------------------------------
(* What happens to a connection *)

\* Messages that are read or lost leave the others as they were.
LEMMA FewerMessages ==
  ASSUME IInv, Later,
         \/ wire' = <<>>
         \/ wire # <<>> /\ wire' = Tail(wire)
  PROVE  /\ Messages'
         /\ Len(wire) \in Nat /\ Len(wire)' \in Nat
         /\ wire # <<>> => Len(wire)' + 1 <= Len(wire)
         /\ InFlight' \subseteq InFlight
         /\ \A i \in 1..Len(wire') :
              i + 1 \in 1..Len(wire) /\ wire'[i] = wire[i + 1]
<1>1. wire \in Seq(Seq(Item))
  BY DEF IInv, Messages
<1>2. /\ wire' \in Seq(Seq(Item))
      /\ Len(wire) \in Nat /\ Len(wire)' \in Nat
      /\ wire # <<>> => Len(wire)' + 1 <= Len(wire)
      /\ InFlight' \subseteq InFlight
      /\ \A i \in 1..Len(wire') :
           i + 1 \in 1..Len(wire) /\ wire'[i] = wire[i + 1]
  <2>1. CASE wire' = <<>>
    <3>1. wire' \in Seq(Seq(Item)) /\ Len(wire)' = 0 /\ InFlight' = {}
      BY <2>1, EmptyEffect
    <3>2. Len(wire) \in Nat /\ (wire # <<>> => Len(wire) >= 1)
      BY <1>1
    <3>. QED
      BY <3>1, <3>2
  <2>2. CASE wire # <<>> /\ wire' = Tail(wire)
    BY <1>1, <2>2, TailEffect
  <2>. QED
    BY <2>1, <2>2
<1>3. \A e \in InFlight' : Honest(e)'
  <2>1. InFlight \subseteq Item
    BY <1>1, InFlightItems
  <2>. QED
    BY <1>2, <2>1, HonestStays DEF IInv, Messages
<1>. QED
  BY <1>2, <1>3 DEF Messages

LEMMA DropKeeps ==
  ASSUME IInv, Drop PROVE IInv'
<1>1. /\ conn = "up" /\ conn' = "down" /\ wire' = <<>>
      /\ drops < MaxDrops /\ drops' = drops + 1
      /\ UNCHANGED <<client, unit, clock, levels, past, made, since, quotes, trades,
                     ticks, damage, events, bad>>
      /\ clock \in Nat /\ drops \in Nat /\ events \in Nat /\ bad \in Nat /\ MaxDrops \in Nat
      /\ since \in Nat
      /\ \A p \in past : p.at \in Nat
  BY Constants DEF Drop, Disconnect, AfterError, exchange, rows, IInv, TypeOK
<1>2. Later
  BY <1>1 DEF Later
<1>3. /\ Messages' /\ Len(wire) \in Nat /\ InFlight' = {} /\ Len(wire)' = 0
  BY <1>1, <1>2, FewerMessages, EmptyEffect
<1>4. TypeOK'
  BY <1>1 DEF IInv, TypeOK
<1>5. History'
  BY <1>1, HistoryStays DEF IInv, TopIn
<1>6. Spent'
  <2>. DEFINE b == IF conn = "down" \/ \E i \in 1..Len(wire) : Raises(wire[i])
                   THEN 1 ELSE 0
  <2>1. b \in Nat /\ clock + Len(wire) + b <= events + events + drops + bad + 1
    BY DEF IInv, Spent
  <2>2. Spent' <=> clock' + Len(wire)' + 1 <= events' + events' + drops' + bad' + 1
    BY <1>1 DEF Spent
  <2>. HIDE DEF b
  <2>. QED
    BY <1>1, <1>3, <2>1, <2>2
<1>7. Ordered'
  BY <1>1, <1>3 DEF IInv, Ordered, BeforeTold
<1>8. Binance' /\ AllComes'
  BY <1>1 DEF IInv, Binance, AllComes
<1>9. RowsAreTrue'
  <2>1. UNCHANGED rows
    BY <1>1 DEF rows
  <2>. QED
    BY <1>2, <2>1, RowsStayTrue DEF IInv
<1>. QED
  BY <1>3, <1>4, <1>5, <1>6, <1>7, <1>8, <1>9 DEF IInv

LEMMA ConnectKeeps ==
  ASSUME IInv, Connect PROVE IInv'
<1>1. /\ conn = "down" /\ conn' = "up" /\ since' = clock /\ wire = <<>>
      /\ UNCHANGED <<client, unit, clock, levels, past, made, quotes, trades,
                     ticks, events, drops>>
      /\ UNCHANGED rows
      /\ clock \in Nat /\ clock' \in 0..MaxClock /\ drops \in Nat /\ events \in Nat
      /\ bad \in 0..MaxBad /\ bad \in Nat /\ MaxBad \in Nat
      /\ wire \in Seq(Seq(Item)) /\ Len(wire) = 0
      /\ unit \in Units /\ unit' = unit
  BY Constants DEF Connect, exchange, rows, IInv, TypeOK
<1>2. /\ \A p \in past : p.at \in Nat /\ p.at <= clock
      /\ since \in Nat /\ since <= clock
      /\ \A t \in made : t \in Nat /\ t <= clock
  BY Constants DEF IInv, TypeOK, History
<1>3. History'
  BY <1>1, HistoryStays DEF IInv, TopIn
<1>4. damage \subseteq damage' => Later
  BY <1>1, <1>2 DEF Later
<1>5. clock + 1 <= events + events + drops + bad + 1
  <2>1. clock + Len(wire) + 1 <= events + events + drops + bad + 1
    BY <1>1 DEF IInv, Spent
  <2>. QED
    BY <1>1, <2>1
<1>6. \A t \in made' : ~(t > since')
  BY <1>1, <1>2
<1>7. CASE client # "clob" /\ UNCHANGED <<wire, damage, bad>>
  <2>1. wire' = <<>> /\ bad' = bad /\ damage' = damage /\ client # "clob" /\ Later
    BY <1>1, <1>4, <1>7
  <2>2. wire' \in Seq(Seq(Item)) /\ Len(wire)' = 0 /\ InFlight' = {}
    BY <2>1, EmptyEffect
  <2>3. TypeOK'
    BY <1>1, <2>1 DEF IInv, TypeOK
  <2>4. Messages'
    BY <2>2 DEF Messages
  <2>5. Ordered'
    <3>1. \A q \in quotes : q.at \in Nat /\ BeforeTold(q.token, q.at)
      BY Constants DEF IInv, TypeOK, Ordered
    <3>2. \A q \in quotes : BeforeTold(q.token, q.at)'
      BY <2>1, <3>1, BeforeToldStays DEF IInv
    <3>. QED
      BY <1>1, <2>2, <3>2 DEF IInv, Ordered
  <2>6. Spent'
    <3>1. ~(conn' = "down" \/ \E i \in 1..Len(wire') : Raises(wire'[i]))
      BY <1>1, <2>2
    <3>. QED
      BY <1>1, <1>5, <2>1, <2>2, <3>1 DEF Spent, Raises
  <2>7. AllComes'
    BY <1>1, <1>6, <2>1 DEF AllComes
  <2>8. RowsAreTrue' /\ Binance'
    BY <1>1, <2>1, RowsStayTrue DEF IInv, Binance
  <2>. QED
    BY <1>3, <2>3, <2>4, <2>5, <2>6, <2>7, <2>8 DEF IInv
<1>8. CASE client = "clob" /\ Send(<<>>, SetToSeq({Book(tok) : tok \in Token}))
  <2>. PICK books : books = {Book(tok) : tok \in Token}
    OBVIOUS
  <2>. PICK msg : msg = SetToSeq(books)
    OBVIOUS
  <2>0. Stamp(clock) \in Stamps
    BY <1>1, StampType
  <2>1. msg \in Seq(Item) /\ Items(msg) = books /\ Send(wire, msg) /\ client = "clob"
    BY <1>1, <1>8, <2>0, AnswerIsBooks DEF IInv
  <2>2. \A tok \in Token : /\ Book(tok) \in Item /\ Book(tok).kind = "book"
                           /\ Book(tok).token = tok /\ Book(tok).at = clock
                           /\ Book(tok).stamp = Stamp(clock)
                           /\ TopOf(Book(tok)) = TopIn(levels, tok)
    BY <2>0, BookTells DEF IInv
  <2>3. \A e \in books : e.kind = "book" /\ Exact(e)'
    <3>. SUFFICES ASSUME NEW tok \in Token, NEW e, e = Book(tok)
                  PROVE  e.kind = "book" /\ Exact(e)'
      OBVIOUS
    <3>1. /\ e.kind = "book" /\ e.token = tok /\ e.at = clock
          /\ e.stamp = Stamp(clock) /\ TopOf(e) = TopIn(levels, tok)
      BY <2>2
    <3>2. Fresh(tok, clock)' /\ BeforeTold(tok, clock)'
      BY <1>1, <1>2 DEF Fresh, BeforeTold
    <3>3. TopOf(e)' = TopOf(e) /\ TopIn(levels, tok)' = TopIn(levels, tok)
          /\ Stamp(clock)' = Stamp(clock)
      BY <1>1 DEF TopOf, TopOfBook, TopIn, Stamp
    <3>. QED
      BY <1>1, <3>1, <3>2, <3>3 DEF Exact, Quoted, Dated, Fresh, BeforeTold, Stamp, TopIn
  <2>4. ~Raises(msg)
    BY <2>1, <2>3, ItemsOf
  <2>5. PICK m \in Seq(Item) : Sent(wire, msg, m)
    BY <1>1, <1>3, <2>1, <2>3, <2>4, SendEffect
  <2>6. /\ wire' = Append(wire, m) /\ damage \subseteq damage' /\ Later
        /\ bad' \in 0..MaxBad /\ bad <= bad' /\ (Raises(m) => bad' = bad + 1)
    BY <1>4, <2>5 DEF Sent
  <2>7. /\ Messages' /\ Ordered' /\ RowsAreTrue' /\ Binance'
        /\ damage' \subseteq [about : Token \cup {None}, at : 0..MaxClock,
                              flaw : {"unread", "undated", "garbled"}]
    BY <1>1, <1>3, <2>5, <2>6, SentKeeps
  <2>8. TypeOK'
    BY <1>1, <2>6, <2>7 DEF IInv, TypeOK
  <2>9. Spent'
    <3>. PICK c \in {0, 1} :
           c = IF conn' = "down" \/ \E i \in 1..Len(wire') : Raises(wire'[i])
               THEN 1 ELSE 0
      OBVIOUS
    <3>1. Len(wire)' = 1 /\ wire'[1] = m
      BY <1>1, <2>6, AppendEffect
    <3>2. c = 1 => bad' = bad + 1
      BY <1>1, <2>6, <3>1
    <3>3. Spent' <=> clock' + Len(wire)' + c <= events' + events' + drops' + bad' + 1
      BY DEF Spent, Raises
    <3>4. bad' \in Nat /\ bad + c <= bad' + 0
      <4>1. bad' \in Nat
        BY <1>1, <2>6
      <4>. QED
        BY <1>1, <2>6, <3>2, <4>1, RaisingIsPaid
    <3>5. (clock + 1) + c <= events + events + drops + bad' + 1
      <4>1. \A a, b, x, y, d \in Int : a + 1 <= b + x + 1 /\ x + d <= y + 0
                                      => (a + 1) + d <= b + y + 1
        OBVIOUS
      <4>2. events + events + drops \in Int /\ clock \in Int /\ c \in Int
            /\ bad \in Int /\ bad' \in Int
        BY <1>1, <3>4
      <4>. QED
        BY <1>5, <3>4, <4>1, <4>2
    <3>. QED
      BY <1>1, <3>1, <3>3, <3>5
  <2>10. AllComes'
    <3>1. ASSUME NEW tok \in Token PROVE QuoteComes(tok)'
      <4>. PICK e \in books : e = Book(tok)
        OBVIOUS
      <4>1. e.kind \in Quoted /\ Exact(e)' /\ e \in Items(msg) /\ e.token = tok
        BY <2>1, <2>2, <2>3 DEF Quoted
      <4>2. QuoteComes(e.token)'
        BY <1>1, <2>1, <2>5, <4>1, SentQuote
      <4>. QED
        BY <4>1, <4>2 DEF QuoteComes, Tells, Fresh, TopIn, Raises, Items
    <3>. QED
      BY <1>1, <1>6, <2>1, <3>1 DEF AllComes
  <2>. QED
    BY <1>3, <2>7, <2>8, <2>9, <2>10 DEF IInv
<1>. QED
  BY <1>7, <1>8 DEF Connect
-----------------------------------------------------------------------------
(* The client reads *)

\* A message that was read leaves those behind it in their order.
LEMMA TailKeepsOrder ==
  ASSUME IInv, Later,
         \/ wire' = <<>>
         \/ wire # <<>> /\ wire' = Tail(wire)
  PROVE  \A i, j \in 1..Len(wire') : i <= j =>
           \A e \in Items(wire'[i]), f \in Items(wire'[j]) :
             e.kind \in Dated /\ f.kind \in Dated => e.at <= f.at
<1>. SUFFICES ASSUME NEW i \in 1..Len(wire'), NEW j \in 1..Len(wire'), i <= j,
                     NEW e \in Items(wire'[i]), NEW f \in Items(wire'[j]),
                     e.kind \in Dated, f.kind \in Dated
              PROVE  e.at <= f.at
  OBVIOUS
<1>1. /\ i + 1 \in 1..Len(wire) /\ wire'[i] = wire[i + 1]
      /\ j + 1 \in 1..Len(wire) /\ wire'[j] = wire[j + 1]
  BY FewerMessages
<1>2. i + 1 <= j + 1
  OBVIOUS
<1>. QED
  BY <1>1, <1>2 DEF IInv, Ordered

\* A turn of the loop is paid for by its message, and one that breaks the
\* connection by the raising item.
LEMMA ReadingIsPaid ==
  ASSUME IInv, Later, wire # <<>>, conn = "up", clock' = clock + 1,
         UNCHANGED <<events, drops, bad>>,
         \/ wire' = Tail(wire) /\ conn' = conn
         \/ Raises(Head(wire)) /\ wire' = <<>>
  PROVE  Spent'
<1>. DEFINE b == IF conn = "down" \/ \E i \in 1..Len(wire) : Raises(wire[i])
                 THEN 1 ELSE 0
            c == IF conn' = "down" \/ \E i \in 1..Len(wire') : Raises(wire'[i])
                 THEN 1 ELSE 0
<1>1. clock \in Nat /\ clock' \in Nat /\ clock <= clock'
  BY Constants DEF IInv, TypeOK
<1>2. /\ Len(wire) \in Nat /\ Len(wire)' \in Nat /\ Len(wire)' + 1 <= Len(wire)
      /\ \A i \in 1..Len(wire') : i + 1 \in 1..Len(wire) /\ wire'[i] = wire[i + 1]
  BY <1>1, FewerMessages
<1>3. 1 \in 1..Len(wire) /\ Head(wire) = wire[1]
  BY <1>2 DEF IInv, Messages
<1>4. b \in {0, 1} /\ c \in {0, 1} /\ (c = 1 => b = 1)
  BY <1>2, <1>3
<1>5. clock + Len(wire) + b <= events + events + drops + bad + 1
  BY DEF IInv, Spent
<1>6. Spent' <=> clock' + Len(wire)' + c <= events + events + drops + bad + 1
  BY DEF Spent, Raises
<1>. HIDE DEF b, c
<1>7. /\ b \in Nat /\ c \in Nat /\ c <= b
  BY <1>4
<1>8. events + events + drops + bad + 1 \in Nat
  BY Constants DEF IInv, TypeOK
<1>9. clock' + Len(wire)' + c <= events + events + drops + bad + 1
  BY <1>1, <1>2, <1>5, <1>7, <1>8
<1>. QED
  BY <1>6, <1>9

\* The time an item is recorded with is right, or nothing said it.
LEMMA Filed ==
  ASSUME IInv, NEW e \in Item, e.kind \in Dated, Honest(e), clock + 1 \in 0..MaxClock
  PROVE  LET ts == RecordedAt(e.stamp) IN
         /\ e.at \in Nat /\ e.at <= clock /\ e.at \in 0..MaxClock
         /\ ts \in 0..MaxClock /\ ts <= clock + 1
         /\ unit = "none" => ts = clock + 1
         /\ RightTime(ts, e.at) \/ (Harm(e, "undated") \in damage /\ e.at < ts)
<1>1. /\ clock \in Nat /\ MaxClock \in Nat
      /\ e.at \in Nat /\ e.at <= clock /\ e.at \in 0..MaxClock /\ e.at \in 0..clock
  BY Constants, ItemHas DEF IInv, TypeOK, Honest
<1>2. CASE e.stamp = Stamp(e.at)
  <2>1. /\ RightTime(RecordedAt(Stamp(e.at)), e.at)
        /\ RecordedAt(Stamp(e.at)) \in 0..MaxClock /\ RecordedAt(Stamp(e.at)) <= clock + 1
        /\ unit = "none" => RecordedAt(Stamp(e.at)) = clock + 1
    BY <1>1, Stamped DEF IInv
  <2>. QED
    BY <1>1, <1>2, <2>1
<1>3. CASE e.stamp = None /\ Harm(e, "undated") \in damage
  <2>1. RecordedAt(e.stamp) = clock + 1
    BY <1>3 DEF RecordedAt
  <2>. QED
    BY <1>1, <1>3, <2>1
<1>. QED
  BY <1>2, <1>3 DEF Honest

\* What the items of a message add to the rows.
LEMMA RecordEffect ==
  ASSUME IInv, NEW items \in SUBSET InFlight, Record(items)
  PROVE  /\ quotes' = quotes \cup {QuoteOf(e) : e \in {x \in items : x.kind \in Quoted}}
         /\ \A e \in items : e.kind \in Quoted =>
              QuoteOf(e) = [token |-> e.token, ts |-> RecordedAt(e.stamp), at |-> e.at,
                            top |-> TopOf(e)]
         /\ client # "binance" =>
              trades' = trades \cup {[ts |-> RecordedAt(e.stamp), at |-> e.at] :
                                      e \in {x \in items : x.kind = "trade"}}
         /\ client = "binance" => trades' = trades
         /\ ticks' = ticks \/ client = "binance"
         /\ client = "binance" =>
              /\ ticks' = [s \in DOMAIN ticks |-> ticks'[s]]
              /\ \A s \in DOMAIN ticks :
                   IF /\ ticks[s] = None
                      /\ \E e \in items : e.kind = "trade" /\ e.at \div Kilo = s
                   THEN \E e \in items : /\ e.kind = "trade" /\ e.at \div Kilo = s
                                         /\ ticks'[s] = e.at
                   ELSE ticks'[s] = ticks[s]
<1>. DEFINE sold == {e \in items : e.kind = "trade"}
            told == {x \in items : x.kind \in Quoted}
<1>1. \A e \in told : QuoteOf(e) = [token |-> e.token, ts |-> RecordedAt(e.stamp),
                                    at |-> e.at, top |-> TopOf(e)]
  BY DEF QuoteOf, TopOf
<1>2. /\ quotes' = quotes \cup {QuoteOf(e) : e \in told}
      /\ client # "binance" => trades' = trades \cup TradesOf(sold) /\ ticks' = ticks
      /\ client = "binance" => trades' = trades
  BY DEF Record
<1>3. ASSUME client = "binance"
      PROVE  /\ ticks' = [s \in DOMAIN ticks |-> ticks'[s]]
             /\ \A s \in DOMAIN ticks :
                  IF /\ ticks[s] = None
                     /\ \E e \in items : e.kind = "trade" /\ e.at \div Kilo = s
                  THEN \E e \in items : /\ e.kind = "trade" /\ e.at \div Kilo = s
                                        /\ ticks'[s] = e.at
                  ELSE ticks'[s] = ticks[s]
  <2>1. \A e \in sold : TickOf(e) = e.at \div Kilo
    <3>1. \A e \in sold : e.kind \in Dated /\ e \in Item /\ Honest(e)
      BY InFlightItems DEF IInv, Messages, Dated
    <3>2. \A e \in sold : e.at \in Nat /\ e.stamp = Stamp(e.at)
      BY <1>3, <3>1, ItemHas DEF Honest
    <3>. QED
      BY <1>3, <3>2, TickFiled DEF IInv, Binance
  <2>2. ticks' = [s \in DOMAIN ticks |->
                    IF ticks[s] = None /\ \E e \in sold : TickOf(e) = s
                    THEN (CHOOSE e \in sold : TickOf(e) = s).at ELSE ticks[s]]
    BY <1>3 DEF Record
  <2>3. ASSUME NEW s \in DOMAIN ticks, ticks[s] = None, \E e \in sold : TickOf(e) = s
        PROVE  \E e \in sold : TickOf(e) = s /\ ticks'[s] = e.at
    <3>1. ticks'[s] = (CHOOSE e \in sold : TickOf(e) = s).at
      BY <2>2, <2>3
    <3>2. (CHOOSE e \in sold : TickOf(e) = s) \in sold
          /\ TickOf(CHOOSE e \in sold : TickOf(e) = s) = s
      BY <2>3
    <3>. QED
      BY <3>1, <3>2
  <2>4. ASSUME NEW s \in DOMAIN ticks, ~(ticks[s] = None /\ \E e \in sold : TickOf(e) = s)
        PROVE  ticks'[s] = ticks[s]
    BY <2>2, <2>4
  <2>. QED
    BY <2>1, <2>2, <2>3, <2>4
<1>4. client # "binance" =>
        trades' = trades \cup {[ts |-> RecordedAt(e.stamp), at |-> e.at] : e \in sold}
  BY <1>2 DEF TradesOf
<1>. QED
  BY <1>1, <1>2, <1>3, <1>4

LEMMA ReceiveKeeps ==
  ASSUME IInv, Receive PROVE IInv'
<1>. DEFINE items == Readable(Head(wire))
            Row(e) == [token |-> e.token, ts |-> RecordedAt(e.stamp), at |-> e.at,
                       top |-> TopOf(e)]
            Sale(e) == [ts |-> RecordedAt(e.stamp), at |-> e.at]
<1>1. /\ conn = "up" /\ wire # <<>> /\ Record(items)
      /\ UNCHANGED <<client, unit, levels, past, made, since, damage, events, drops, bad>>
      /\ clock \in Nat /\ clock' = clock + 1 /\ clock' \in Nat /\ clock <= clock'
      /\ \/ ~Raises(Head(wire)) /\ wire' = Tail(wire) /\ conn' = conn
         \/ Raises(Head(wire)) /\ wire' = <<>> /\ conn' = "down"
      /\ \A p \in past' : p.at \in Nat
      /\ since \in Nat
  BY Constants DEF Receive, Break, Disconnect, AfterError, exchange, IInv, TypeOK
<1>0. Later
  BY <1>1 DEF Later
<1>2. /\ Messages' /\ Len(wire)' \in Nat /\ InFlight' \subseteq InFlight
      /\ \A i \in 1..Len(wire') : i + 1 \in 1..Len(wire) /\ wire'[i] = wire[i + 1]
  BY <1>0, <1>1, FewerMessages
<1>3. /\ 1 \in 1..Len(wire) /\ Head(wire) = wire[1] /\ wire[1] \in Seq(Item)
      /\ items \subseteq Items(wire[1]) /\ Items(wire[1]) \subseteq InFlight
      /\ items \subseteq InFlight /\ InFlight \subseteq Item
      /\ ~Raises(wire[1]) => items = Items(wire[1])
  <2>1. wire \in Seq(Seq(Item)) /\ 1 \in 1..Len(wire) /\ Head(wire) = wire[1]
    BY <1>1 DEF IInv, Messages
  <2>2. /\ wire[1] \in Seq(Item) /\ Items(wire[1]) \subseteq InFlight
        /\ InFlight \subseteq Item
    BY <2>1, InFlightItems
  <2>. QED
    BY <2>1, <2>2, ItemsOf
<1>. HIDE DEF items
<1>4. /\ quotes' = quotes \cup {QuoteOf(e) : e \in {x \in items : x.kind \in Quoted}}
      /\ \A e \in items : e.kind \in Quoted => QuoteOf(e) = Row(e)
      /\ client # "binance" =>
           trades' = trades \cup {Sale(e) : e \in {x \in items : x.kind = "trade"}}
      /\ client = "binance" => trades' = trades
      /\ ticks' = ticks \/ client = "binance"
      /\ client = "binance" =>
           /\ ticks' = [s \in DOMAIN ticks |-> ticks'[s]]
           /\ \A s \in DOMAIN ticks :
                IF /\ ticks[s] = None
                   /\ \E e \in items : e.kind = "trade" /\ e.at \div Kilo = s
                THEN \E e \in items : /\ e.kind = "trade" /\ e.at \div Kilo = s
                                      /\ ticks'[s] = e.at
                ELSE ticks'[s] = ticks[s]
  BY <1>1, <1>3, RecordEffect
<1>5. Spent' /\ clock' \in 0..MaxClock /\ clock + 1 \in 0..MaxClock
  BY <1>0, <1>1, ReadingIsPaid, ClockAhead
<1>6. \A e \in items : e.kind \in Dated =>
        /\ e \in Item /\ Honest(e)
        /\ e.at \in Nat /\ e.at <= clock /\ e.at \in 0..MaxClock
        /\ RecordedAt(e.stamp) \in 0..MaxClock /\ RecordedAt(e.stamp) <= clock'
        /\ unit = "none" => RecordedAt(e.stamp) = clock + 1
        /\ \/ RightTime(RecordedAt(e.stamp), e.at)
           \/ Harm(e, "undated") \in damage /\ e.at < RecordedAt(e.stamp)
  <2>1. \A e \in items : e \in Item /\ Honest(e)
    BY <1>3 DEF IInv, Messages
  <2>. QED
    BY <1>1, <1>5, <2>1, Filed
<1>7. \A q \in quotes' : q \in quotes \/
        \E e \in items : e.kind \in Quoted /\ e.kind \in Dated /\ q = Row(e)
  BY <1>4 DEF Dated
<1>8. \A e : /\ Row(e).token = e.token /\ Row(e).ts = RecordedAt(e.stamp)
             /\ Row(e).at = e.at /\ Row(e).top = TopOf(e)
             /\ Sale(e).ts = RecordedAt(e.stamp) /\ Sale(e).at = e.at
  OBVIOUS
<1>9. \A e \in items : e.kind \in Quoted => /\ Row(e) \in quotes' /\ e.kind \in Dated
                                            /\ e.token \in Token
  BY <1>3, <1>4, ItemHas DEF Dated
<1>10. TypeOK'
  <2>1. quotes' \subseteq [token : Token, ts : 0..MaxClock, at : 0..MaxClock, top : Top]
    <3>1. ASSUME NEW e \in items, e.kind \in Quoted, e.kind \in Dated
          PROVE  Row(e) \in [token : Token, ts : 0..MaxClock, at : 0..MaxClock, top : Top]
      BY <1>6, <3>1, ItemHas
    <3>2. quotes \subseteq [token : Token, ts : 0..MaxClock, at : 0..MaxClock, top : Top]
      BY DEF IInv, TypeOK
    <3>. QED
      BY <1>7, <3>1, <3>2
  <2>2. trades' \subseteq [ts : 0..MaxClock, at : 0..MaxClock]
    <3>1. trades \subseteq [ts : 0..MaxClock, at : 0..MaxClock]
      BY DEF IInv, TypeOK
    <3>2. \A e \in {x \in items : x.kind = "trade"} :
            RecordedAt(e.stamp) \in 0..MaxClock /\ e.at \in 0..MaxClock
      BY <1>6 DEF Dated
    <3>. QED
      BY <1>4, <3>1, <3>2
  <2>3. ticks' \in [0..MaxClock -> (0..MaxClock) \cup {None}]
    <3>1. ticks \in [0..MaxClock -> (0..MaxClock) \cup {None}]
      BY DEF IInv, TypeOK
    <3>2. ASSUME client = "binance", NEW s \in 0..MaxClock
          PROVE  ticks'[s] \in (0..MaxClock) \cup {None}
      BY <1>4, <1>6, <3>1, <3>2 DEF Dated
    <3>. QED
      BY <1>4, <3>1, <3>2
  <2>. QED
    BY <1>1, <1>5, <2>1, <2>2, <2>3 DEF IInv, TypeOK
<1>11. History'
  BY <1>1, HistoryStays DEF IInv, TopIn
<1>12. RowsAreTrue'
  <2>0. \A ts, at : RightTime(ts, at) <=> RightTime(ts, at)'
    BY <1>1 DEF RightTime
  <2>1. ASSUME NEW q \in quotes'
        PROVE  /\ \/ q.top = TopAt(q.token, q.at)'
                  \/ /\ Flawed(q.token, q.at, "garbled")'
                     /\ NoBetter(q.top, TopAt(q.token, q.at)')
               /\ RightTime(q.ts, q.at)' \/ (Flawed(q.token, q.at, "undated")' /\ q.at < q.ts)
    <3>1. CASE q \in quotes
      <4>1. q.at \in Nat /\ q.at <= clock
        BY <3>1, Constants DEF IInv, TypeOK, Ordered
      <4>2. TopAt(q.token, q.at)' = TopAt(q.token, q.at)
        BY <1>0, <4>1, TopAtStays DEF IInv
      <4>. QED
        BY <1>1, <2>0, <3>1, <4>2 DEF IInv, RowsAreTrue, Flawed
    <3>2. ASSUME NEW e \in items, e.kind \in Quoted, e.kind \in Dated, q = Row(e)
          PROVE  /\ \/ q.top = TopAt(q.token, q.at)'
                    \/ /\ Flawed(q.token, q.at, "garbled")'
                       /\ NoBetter(q.top, TopAt(q.token, q.at)')
                 /\ RightTime(q.ts, q.at)' \/ (Flawed(q.token, q.at, "undated")' /\ q.at < q.ts)
      <4>1. /\ q.token = e.token /\ q.at = e.at /\ q.top = TopOf(e)
            /\ q.ts = RecordedAt(e.stamp)
        BY <1>8, <3>2
      <4>2. /\ e \in Item /\ Honest(e) /\ e.at \in Nat /\ e.at <= clock
            /\ \/ RightTime(q.ts, q.at)
               \/ Harm(e, "undated") \in damage /\ q.at < q.ts
        BY <1>6, <3>2, <4>1
      <4>3. TopAt(e.token, e.at)' = TopAt(e.token, e.at)
        BY <1>0, <4>2, TopAtStays DEF IInv
      <4>4. e.kind # "trade"
        BY <3>2 DEF Quoted
      <4>5. \A flaw : Harm(e, flaw) \in damage <=> Flawed(q.token, q.at, flaw)'
        BY <1>1, <4>1, <4>4 DEF Harm, Flawed
      <4>6. \/ TopOf(e) = TopAt(e.token, e.at)
            \/ Harm(e, "garbled") \in damage /\ NoBetter(TopOf(e), TopAt(e.token, e.at))
        BY <3>2, <4>2 DEF Honest
      <4>7. \/ q.top = TopAt(q.token, q.at)'
            \/ /\ Flawed(q.token, q.at, "garbled")'
               /\ NoBetter(q.top, TopAt(q.token, q.at)')
        BY <4>1, <4>3, <4>5, <4>6
      <4>8. RightTime(q.ts, q.at)' \/ (Flawed(q.token, q.at, "undated")' /\ q.at < q.ts)
        BY <2>0, <4>2, <4>5
      <4>. QED
        BY <4>7, <4>8
    <3>. QED
      BY <1>7, <3>1, <3>2
  <2>2. ASSUME NEW r \in trades'
        PROVE  /\ r.at \in made'
               /\ RightTime(r.ts, r.at)' \/ (Flawed(None, r.at, "undated")' /\ r.at < r.ts)
    <3>1. CASE r \in trades
      BY <1>1, <2>0, <3>1 DEF IInv, RowsAreTrue, Flawed
    <3>2. ASSUME NEW e \in items, e.kind = "trade", r = Sale(e)
          PROVE  /\ r.at \in made'
                 /\ RightTime(r.ts, r.at)' \/ (Flawed(None, r.at, "undated")' /\ r.at < r.ts)
      <4>1. r.at = e.at /\ r.ts = RecordedAt(e.stamp) /\ e.kind \in Dated
        BY <1>8, <3>2 DEF Dated
      <4>2. /\ Honest(e)
            /\ \/ RightTime(r.ts, r.at)
               \/ Harm(e, "undated") \in damage /\ r.at < r.ts
        BY <1>6, <4>1
      <4>3. Harm(e, "undated") \in damage <=> Flawed(None, r.at, "undated")'
        BY <1>1, <3>2, <4>1 DEF Harm, Flawed
      <4>4. r.at \in made'
        BY <1>1, <3>2, <4>1, <4>2 DEF Honest
      <4>5. RightTime(r.ts, r.at)' \/ (Flawed(None, r.at, "undated")' /\ r.at < r.ts)
        BY <2>0, <4>2, <4>3
      <4>. QED
        BY <4>4, <4>5
    <3>3. r \in trades \/ \E e \in items : e.kind = "trade" /\ r = Sale(e)
      BY <1>4
    <3>. QED
      BY <3>1, <3>2, <3>3
  <2>3. \A s \in DOMAIN ticks' : ticks'[s] # None => ticks'[s] \div Kilo = s
    <3>1. DOMAIN ticks' = DOMAIN ticks
      BY <1>4
    <3>2. ASSUME client = "binance", NEW s \in DOMAIN ticks, ticks'[s] # None
          PROVE  ticks'[s] \div Kilo = s
      BY <1>4, <3>2 DEF IInv, RowsAreTrue
    <3>. QED
      BY <1>4, <3>1, <3>2 DEF IInv, RowsAreTrue
  <2>. QED
    BY <2>1, <2>2, <2>3 DEF RowsAreTrue
<1>13. /\ \A e, f \in items : e.kind \in Dated /\ f.kind \in Dated => e.at = f.at
       /\ \A f \in InFlight', e \in items :
            e.kind \in Dated /\ f.kind \in Dated => e.at <= f.at
  <2>1. \A j \in 1..Len(wire) : \A e \in items, f \in Items(wire[j]) :
          e.kind \in Dated /\ f.kind \in Dated => e.at <= f.at
    BY <1>3 DEF IInv, Ordered
  <2>2. ASSUME NEW f \in InFlight', NEW e \in items, e.kind \in Dated, f.kind \in Dated
        PROVE  e.at <= f.at
    <3>1. PICK j \in 1..Len(wire') : f \in Items(wire'[j])
      BY <2>2 DEF InFlight, Items
    <3>2. j + 1 \in 1..Len(wire) /\ f \in Items(wire[j + 1])
      BY <1>2, <3>1
    <3>. QED
      BY <2>1, <2>2, <3>2
  <2>3. ASSUME NEW e \in items, NEW f \in items, e.kind \in Dated, f.kind \in Dated
        PROVE  e.at = f.at
    <3>1. e.at <= f.at /\ f.at <= e.at
      BY <1>3, <2>1, <2>3
    <3>. QED
      BY <1>6, <2>3, <3>1
  <2>. QED
    BY <2>2, <2>3
<1>14. Ordered'
  <2>1. \A i, j \in 1..Len(wire') : i <= j =>
          \A e \in Items(wire'[i]), f \in Items(wire'[j]) :
            e.kind \in Dated /\ f.kind \in Dated => e.at <= f.at
    BY <1>0, <1>1, TailKeepsOrder
  <2>2. /\ \A q \in quotes : /\ q.ts \in Nat /\ q.ts <= clock
                             /\ q.at \in Nat /\ q.at <= clock /\ BeforeTold(q.token, q.at)
        /\ \A s \in DOMAIN ticks : ticks[s] # None => ticks[s] \in Nat /\ ticks[s] <= clock
    BY Constants DEF IInv, TypeOK, Ordered
  <2>3. ASSUME NEW q \in quotes'
        PROVE  q.ts <= clock' /\ q.at <= clock' /\ BeforeTold(q.token, q.at)'
    <3>1. CASE q \in quotes
      <4>1. q.ts <= clock' /\ q.at <= clock'
        BY <1>1, <2>2, <3>1
      <4>2. BeforeTold(q.token, q.at)'
        BY <1>0, <2>2, <3>1, BeforeToldStays DEF IInv
      <4>. QED
        BY <4>1, <4>2
    <3>2. ASSUME NEW e \in items, e.kind \in Quoted, e.kind \in Dated, q = Row(e)
          PROVE  q.ts <= clock' /\ q.at <= clock' /\ BeforeTold(q.token, q.at)'
      <4>1. q.token = e.token /\ q.at = e.at /\ q.ts = RecordedAt(e.stamp)
        BY <1>8, <3>2
      <4>2. Honest(e) /\ e.at \in Nat /\ e.at <= clock /\ q.ts <= clock'
        BY <1>6, <3>2, <4>1
      <4>3. BeforeTold(e.token, e.at)
        BY <3>2, <4>2 DEF Honest
      <4>4. BeforeTold(e.token, e.at)'
        BY <1>0, <4>2, <4>3, BeforeToldStays DEF IInv
      <4>. QED
        BY <1>1, <4>1, <4>2, <4>4
    <3>. QED
      BY <1>7, <3>1, <3>2
  <2>4. DOMAIN ticks' = DOMAIN ticks
    BY <1>4
  <2>5. \A s \in DOMAIN ticks : ticks'[s] # None =>
          ticks'[s] = ticks[s] \/ \E e \in items : e.kind = "trade" /\ ticks'[s] = e.at
    BY <1>4
  <2>6. \A s \in DOMAIN ticks' : ticks'[s] # None => ticks'[s] <= clock'
    <3>. SUFFICES ASSUME NEW s \in DOMAIN ticks, ticks'[s] # None PROVE ticks'[s] <= clock'
      BY <2>4
    <3>1. CASE ticks'[s] = ticks[s]
      BY <1>1, <2>2, <3>1
    <3>2. ASSUME NEW e \in items, e.kind = "trade", ticks'[s] = e.at
          PROVE  ticks'[s] <= clock'
      BY <1>1, <1>6, <3>2 DEF Dated
    <3>. QED
      BY <2>5, <3>1, <3>2
  <2>7. ASSUME NEW f \in InFlight', f.kind \in Dated
        PROVE  /\ \A q \in quotes' : q.at <= f.at
               /\ \A s \in DOMAIN ticks' : ticks'[s] # None => ticks'[s] <= f.at
    <3>1. f \in InFlight /\ \A e \in items : e.kind \in Dated => e.at <= f.at
      BY <1>2, <1>13, <2>7
    <3>2. ASSUME NEW q \in quotes' PROVE q.at <= f.at
      BY <1>7, <1>8, <2>7, <3>1, <3>2 DEF IInv, Ordered
    <3>3. ASSUME NEW s \in DOMAIN ticks, ticks'[s] # None PROVE ticks'[s] <= f.at
      <4>1. CASE ticks'[s] = ticks[s]
        BY <2>7, <3>1, <3>3, <4>1 DEF IInv, Ordered
      <4>2. ASSUME NEW e \in items, e.kind = "trade", ticks'[s] = e.at
            PROVE  ticks'[s] <= f.at
        BY <3>1, <4>2 DEF Dated
      <4>. QED
        BY <2>5, <3>3, <4>1, <4>2
    <3>. QED
      BY <2>4, <3>2, <3>3
  <2>8. ASSUME unit = "none", NEW q \in quotes', NEW r \in quotes', q.at < r.at
        PROVE  q.ts < r.ts
    <3>1. ASSUME NEW e \in items, e.kind \in Dated
          PROVE  /\ e.at \in Nat /\ RecordedAt(e.stamp) = clock + 1
                 /\ \A x \in quotes : x.at <= e.at
      BY <1>3, <1>6, <2>8, <3>1 DEF IInv, Ordered
    <3>2. CASE q \in quotes /\ r \in quotes
      BY <2>8, <3>2 DEF IInv, Ordered
    <3>3. ASSUME q \in quotes, NEW f \in items, f.kind \in Dated, r = Row(f)
          PROVE  q.ts < r.ts
      <4>1. r.ts = clock + 1 /\ q.ts \in Nat /\ q.ts <= clock
        BY <1>8, <2>2, <3>1, <3>3
      <4>. QED
        BY <1>1, <4>1
    <3>4. ASSUME NEW e \in items, e.kind \in Dated, q = Row(e)
          PROVE  FALSE
      <4>1. q.at = e.at /\ e.at \in Nat
        BY <1>8, <3>1, <3>4
      <4>2. CASE r \in quotes
        <5>1. r.at <= e.at /\ r.at \in Nat
          BY <2>2, <3>1, <3>4, <4>2
        <5>. QED
          BY <2>8, <4>1, <5>1
      <4>3. ASSUME NEW f \in items, f.kind \in Dated, r = Row(f) PROVE FALSE
        <5>1. r.at = e.at
          BY <1>8, <1>13, <3>4, <4>3
        <5>. QED
          BY <2>8, <4>1, <5>1
      <4>. QED
        BY <1>7, <4>2, <4>3
    <3>. QED
      BY <1>7, <3>2, <3>3, <3>4
  <2>9. unit' = unit
    BY <1>1
  <2>. QED
    BY <2>1, <2>3, <2>6, <2>7, <2>8, <2>9 DEF Ordered, Items
<1>15. AllComes'
  <2>. SUFFICES ASSUME conn' = "up" PROVE AllComes'
    BY DEF AllComes
  <2>1. ~Raises(wire[1]) /\ wire' = Tail(wire) /\ items = Items(wire[1])
    BY <1>1, <1>3
  <2>2. \A i \in 1..Len(wire) : i # 1 => i - 1 \in 1..Len(wire') /\ wire'[i - 1] = wire[i]
    <3>1. Len(wire) \in Nat /\ Len(wire)' = Len(wire) - 1
      BY <1>1, <2>1, TailEffect DEF IInv, Messages
    <3>2. \A i \in 1..Len(wire) : i # 1 => i - 1 \in 1..Len(wire') /\ (i - 1) + 1 = i
      BY <3>1
    <3>. QED
      BY <1>2, <3>2
  <2>3. \A t : Unread(t) => Unread(t)'
    BY <1>1 DEF Unread, Flawed
  <2>4. ASSUME client = "clob", NEW tok \in Token PROVE QuoteComes(tok)'
    <3>1. QuoteComes(tok)
      BY <1>1, <2>4 DEF IInv, AllComes
    <3>2. \A t : Fresh(tok, t)' <=> Fresh(tok, t)
      BY <1>1 DEF Fresh
    <3>3. TopIn(levels, tok)' = TopIn(levels, tok)
      BY <1>1 DEF TopIn
    <3>4. ASSUME NEW q \in quotes', q.token = tok, Fresh(tok, q.at), q.top = TopIn(levels, tok)
          PROVE  QuoteComes(tok)'
      <4>1. \E r \in quotes' : /\ r.token = tok /\ Fresh(tok, r.at)'
                               /\ r.top = TopIn(levels, tok)'
        BY <3>2, <3>3, <3>4
      <4>. QED
        BY <4>1 DEF QuoteComes, Fresh
    <3>5. ASSUME NEW d \in damage, d.about = tok, d.flaw # "undated", Fresh(tok, d.at)
          PROVE  QuoteComes(tok)'
      <4>1. \E c \in damage' : c.about = tok /\ c.flaw # "undated" /\ Fresh(tok, c.at)'
        BY <1>1, <3>2, <3>5
      <4>. QED
        BY <4>1 DEF QuoteComes, Fresh
    <3>6. ASSUME NEW e \in items, Tells(e, tok) PROVE QuoteComes(tok)'
      <4>1. /\ Row(e) \in quotes' /\ Row(e).token = tok /\ Row(e).at = e.at
            /\ Row(e).top = TopIn(levels, tok) /\ Fresh(tok, e.at)
        BY <1>8, <1>9, <3>6 DEF Tells
      <4>. QED
        BY <3>4, <4>1
    <3>7. ASSUME NEW i \in 1..Len(wire), i # 1,
                 Raises(wire[i]) \/ \E e \in Items(wire[i]) : Tells(e, tok)
          PROVE  QuoteComes(tok)'
      <4>1. i - 1 \in 1..Len(wire') /\ wire'[i - 1] = wire[i]
        BY <2>2, <3>7
      <4>2. \A e : Tells(e, tok) => Tells(e, tok)'
        BY <3>2, <3>3 DEF Tells, TopOf, TopOfBook
      <4>3. CASE Raises(wire[i])
        <5>1. \E k \in 1..Len(wire') : Raises(wire'[k])
          BY <4>1, <4>3
        <5>. QED
          BY <5>1 DEF QuoteComes, Raises
      <4>4. ASSUME NEW e \in Items(wire[i]), Tells(e, tok) PROVE QuoteComes(tok)'
        <5>1. \E k \in 1..Len(wire') : \E f \in Items(wire'[k]) : Tells(f, tok)'
          BY <4>1, <4>2, <4>4
        <5>. QED
          BY <5>1 DEF QuoteComes, Items, Tells, Fresh, TopIn, TopOf, TopOfBook
      <4>. QED
        BY <3>7, <4>3, <4>4
    <3>8. quotes \subseteq quotes'
      BY <1>4
    <3>. QED
      BY <2>1, <3>1, <3>4, <3>5, <3>6, <3>7, <3>8 DEF QuoteComes
  <2>5. ASSUME client # "binance", NEW t \in made, t > since PROVE TradeComes(t)'
    <3>1. TradeComes(t)
      BY <1>1, <2>5 DEF IInv, AllComes
    <3>2. CASE Unread(t) \/ \E r \in trades : r.at = t
      BY <1>4, <2>3, <2>5, <3>2 DEF TradeComes
    <3>3. CASE Sells(wire[1], t)
      <4>1. PICK e \in items : e.kind = "trade" /\ e.at = t
        BY <2>1, <3>3 DEF Sells
      <4>2. Sale(e) \in trades' /\ Sale(e).at = t
        BY <1>4, <1>8, <2>5, <4>1
      <4>. QED
        BY <4>2 DEF TradeComes
    <3>4. ASSUME NEW i \in 1..Len(wire), i # 1, Sells(wire[i], t)
          PROVE  TradeComes(t)'
      <4>1. i - 1 \in 1..Len(wire') /\ wire'[i - 1] = wire[i]
        BY <2>2, <3>4
      <4>2. \E k \in 1..Len(wire') : Sells(wire'[k], t)
        BY <3>4, <4>1
      <4>. QED
        BY <4>2 DEF TradeComes, Raises, Sells, Items
    <3>. QED
      BY <3>1, <3>2, <3>3, <3>4 DEF TradeComes
  <2>6. ASSUME client = "binance", NEW t \in made, t > since PROVE TickComes(t)'
    <3>1. TickComes(t)
      BY <1>1, <2>6 DEF IInv, AllComes
    <3>. DEFINE s == t \div Kilo
    <3>2. t \in Nat /\ s \in DOMAIN ticks /\ None \notin Nat
      <4>1. t \in 0..MaxClock /\ MaxClock \in Nat /\ DOMAIN ticks = 0..MaxClock
        BY Constants DEF IInv, TypeOK
      <4>2. s \in 0..t
        BY <4>1, SecondIsBounded
      <4>. QED
        BY <4>1, <4>2, PriceAssumption
    <3>. HIDE DEF s
    <3>0. CASE Unread(t)
      BY <2>3, <3>0 DEF TickComes
    <3>3. CASE ticks[s] # None /\ ticks[s] <= t
      <4>1. ticks'[s] = ticks[s]
        BY <1>4, <2>6, <3>2, <3>3
      <4>. QED
        BY <3>3, <4>1 DEF TickComes, s
    <3>4. CASE Sells(wire[1], t)
      <4>1. PICK e \in items : e.kind = "trade" /\ e.at = t
        BY <2>1, <3>4 DEF Sells
      <4>2. CASE ticks[s] = None
        <5>1. PICK f \in items : f.kind = "trade" /\ ticks'[s] = f.at
          BY <1>4, <2>6, <3>2, <4>1, <4>2 DEF s
        <5>2. f.at \in Nat /\ f.at <= e.at
          BY <1>6, <1>13, <4>1, <5>1 DEF Dated
        <5>3. ticks'[s] # None /\ ticks'[s] <= t
          BY <3>2, <4>1, <5>1, <5>2
        <5>. QED
          BY <5>3 DEF TickComes, s
      <4>3. CASE ticks[s] # None
        <5>1. ticks'[s] = ticks[s]
          BY <1>4, <2>6, <3>2, <4>3
        <5>2. ticks[s] <= e.at
          BY <1>3, <3>2, <4>1, <4>3 DEF IInv, Ordered, Dated
        <5>. QED
          BY <4>1, <4>3, <5>1, <5>2 DEF TickComes, s
      <4>. QED
        BY <4>2, <4>3
    <3>5. ASSUME NEW i \in 1..Len(wire), i # 1, Sells(wire[i], t) PROVE TickComes(t)'
      <4>1. i - 1 \in 1..Len(wire') /\ wire'[i - 1] = wire[i]
        BY <2>2, <3>5
      <4>2. \E k \in 1..Len(wire') : Sells(wire'[k], t)
        BY <3>5, <4>1
      <4>. QED
        BY <4>2 DEF TickComes, Sells, Items, Raises
    <3>. QED
      BY <3>0, <3>1, <3>3, <3>4, <3>5 DEF TickComes, s
  <2>. QED
    BY <1>1, <2>4, <2>5, <2>6 DEF AllComes
<1>16. Binance'
  BY <1>1 DEF IInv, Binance
<1>. QED
  BY <1>2, <1>5, <1>10, <1>11, <1>12, <1>14, <1>15, <1>16 DEF IInv
-----------------------------------------------------------------------------
(* What was told last *)

\* The seconds that begin before u's do not end after it.
LEMMA SecondsGrow ==
  ASSUME NEW t \in Nat, NEW u \in Nat, t <= u
  PROVE  /\ Kilo * (t \div Kilo) \in Int /\ Kilo * (u \div Kilo) \in Int
         /\ Kilo * (t \div Kilo) <= Kilo * (u \div Kilo)
         /\ u - Kilo < Kilo * (u \div Kilo)
<1>. DEFINE a == t \div Kilo
            b == u \div Kilo
<1>1. Kilo \in Nat \ {0}
  BY Constants
<1>2. /\ a \in Int /\ b \in Int
      /\ \A m \in Int : a <= m <=> t < (m + 1) * Kilo
      /\ \A m \in Int : b <= m <=> u < (m + 1) * Kilo
      /\ u % Kilo \in 0..(Kilo - 1) /\ u = Kilo * b + (u % Kilo)
  <2>1. t \in Int /\ u \in Int
    OBVIOUS
  <2>2. \A m \in Int : t \div Kilo \in Int /\ (t \div Kilo <= m <=> t < (m + 1) * Kilo)
    BY <1>1, <2>1, DivIsFloor
  <2>3. \A m \in Int : u \div Kilo \in Int /\ (u \div Kilo <= m <=> u < (m + 1) * Kilo)
    BY <1>1, <2>1, DivIsFloor
  <2>4. u % Kilo \in 0..(Kilo - 1) /\ u = Kilo * b + (u % Kilo) /\ b \in Int
    BY <1>1, <2>1, DivMod
  <2>5. a \in Int
    BY <1>1, <2>1, DivMod
  <2>. QED
    BY <2>2, <2>3, <2>4, <2>5
<1>. HIDE DEF a, b
<1>3. a * Kilo \in Int /\ b * Kilo \in Int /\ (b + 1) * Kilo \in Int
      /\ Kilo * a = a * Kilo /\ Kilo * b = b * Kilo
  BY <1>1, <1>2, Z3
<1>4. a <= b
  <2>1. u < (b + 1) * Kilo
    BY <1>2
  <2>2. t < (b + 1) * Kilo
    BY <1>3, <2>1
  <2>. QED
    BY <1>2, <2>2
<1>5. a * Kilo <= b * Kilo
  <2>1. b * Kilo < a * Kilo <=> b < a
    BY <1>1, <1>2, TimesLess
  <2>. QED
    BY <1>2, <1>3, <1>4, <2>1
<1>6. u - Kilo < b * Kilo
  BY <1>1, <1>2, <1>3
<1>7. Kilo * a \in Int /\ Kilo * b \in Int /\ Kilo * a <= Kilo * b /\ u - Kilo < Kilo * b
  BY <1>3, <1>5, <1>6
<1>. QED
  BY <1>7 DEF a, b

LEMMA LastTold ==
  ASSUME IInv, NEW tok \in Token
  PROVE  /\ Told(tok) \in Nat
         /\ \A t : Fresh(tok, t) => Told(tok) <= t
         /\ \A t \in Nat : BeforeTold(tok, t) => t <= Told(tok)
         /\ TopAt(tok, Told(tok)) = TopIn(levels, tok)
<1>. DEFINE S == {since} \cup {p.at : p \in {x \in past : x.token = tok}}
<1>1. /\ MaxClock \in Nat /\ since \in 0..MaxClock /\ since \in Nat /\ clock \in Nat
      /\ \A p \in past : p.at \in 0..MaxClock /\ p.at \in Nat /\ p.at <= clock
      /\ since <= clock
  BY Constants DEF IInv, TypeOK, History
<1>2. S \in SUBSET (0..MaxClock) /\ S # {}
  BY <1>1
<1>3. Told(tok) \in S /\ \A y \in S : Told(tok) >= y
  <2>1. \E x \in S : \A y \in S : x >= y
    BY <1>1, <1>2, GreatestExists
  <2>2. Told(tok) = CHOOSE x \in S : \A y \in S : x >= y
    BY DEF Told, Max
  <2>. HIDE DEF S
  <2>. QED
    BY <2>1, <2>2
<1>4. /\ Told(tok) \in Nat /\ Told(tok) <= clock /\ since <= Told(tok)
      /\ \A p \in past : p.token = tok => p.at <= Told(tok)
      /\ Told(tok) = since \/ \E p \in past : p.token = tok /\ p.at = Told(tok)
  BY <1>1, <1>3
<1>5. \A t : Fresh(tok, t) => Told(tok) <= t
  BY <1>4 DEF Fresh
<1>6. \A t \in Nat : BeforeTold(tok, t) => t <= Told(tok)
  BY <1>1, <1>4 DEF BeforeTold
<1>7. TopAt(tok, Told(tok)) = TopIn(levels, tok)
  <2>1. {p \in past : p.token = tok /\ p.at <= Told(tok)}
          = {p \in past : p.token = tok /\ p.at <= clock}
    BY <1>1, <1>4
  <2>2. TopAt(tok, Told(tok)) = TopAt(tok, clock)
    BY <2>1 DEF TopAt
  <2>. QED
    BY <2>2 DEF IInv, History
<1>. QED
  BY <1>4, <1>5, <1>6, <1>7

\* A quote of what was told last is, unless excused, the newest.
LEMMA LastIsNewest ==
  ASSUME IInv, NEW tok \in Token, ~Excused(tok),
         NEW q \in quotes, q.token = tok, Fresh(tok, q.at), q.top = TopIn(levels, tok)
  PROVE  Current(tok)
<1>. PICK T : T = Told(tok)
  OBVIOUS
<1>. PICK grain : grain = IF unit = "s" THEN Kilo ELSE 1
  OBVIOUS
<1>. DEFINE mine == {r \in quotes : r.token = tok}
<1>1. T \in Nat /\ grain \in Nat \ {0} /\ TopAt(tok, T) = TopIn(levels, tok)
  BY LastTold, Constants
<1>2. \A r \in mine : /\ r.ts \in Nat /\ r.ts \in 0..MaxClock /\ r.at \in Nat /\ r.at <= T
  <2>1. \A r \in mine : r.ts \in Nat /\ r.ts \in 0..MaxClock /\ r.at \in Nat
    BY Constants DEF IInv, TypeOK
  <2>2. \A r \in mine : BeforeTold(tok, r.at)
    BY DEF IInv, Ordered
  <2>. QED
    BY <2>1, <2>2, LastTold
<1>3. q \in mine /\ q.at = T
  <2>1. T <= q.at
    BY LastTold
  <2>. QED
    BY <1>1, <1>2, <2>1
<1>4. \A r \in mine : RightTime(r.ts, r.at) \/ r.ts <= T - grain
  BY <1>1, <1>2 DEF Excused
<1>5. \A r \in mine : RightTime(r.ts, r.at) \/ r.at < r.ts
  BY DEF IInv, RowsAreTrue
<1>6. RightTime(q.ts, T)
  BY <1>1, <1>2, <1>3, <1>4, <1>5
<1>7. \A r \in mine : r.at = T => r.top = TopIn(levels, tok)
  <2>. SUFFICES ASSUME NEW r \in mine, r.at = T, r.top # TopIn(levels, tok) PROVE FALSE
    OBVIOUS
  <2>1. Flawed(tok, T, "garbled")
    BY <1>1 DEF IInv, RowsAreTrue
  <2>2. Excused(tok)
    BY <1>1, <2>1 DEF Excused, Flawed
  <2>. QED
    BY <2>2
<1>8. CASE unit = "s"
  <2>1. q.ts = Kilo * (T \div Kilo)
    BY <1>6, <1>8 DEF RightTime
  <2>2. ASSUME NEW r \in mine PROVE r.ts <= q.ts
    <3>1. /\ Kilo * (r.at \div Kilo) \in Int /\ Kilo * (T \div Kilo) \in Int
          /\ Kilo * (r.at \div Kilo) <= Kilo * (T \div Kilo)
          /\ T - Kilo < Kilo * (T \div Kilo) /\ Kilo \in Nat
      BY <1>1, <1>2, SecondsGrow, Constants
    <3>2. CASE r.ts = Kilo * (r.at \div Kilo)
      BY <2>1, <3>1, <3>2
    <3>3. CASE r.ts <= T - Kilo
      BY <1>1, <1>2, <2>1, <3>1, <3>3
    <3>. QED
      BY <1>4, <1>8, <3>2, <3>3 DEF RightTime
  <2>. QED
    BY <1>3, <1>8, <2>2 DEF Current
<1>9. CASE unit # "s"
  <2>1. PICK n \in mine : \A r \in mine : r.ts <= n.ts
    <3>. DEFINE S == {r.ts : r \in mine}
    <3>1. MaxClock \in Nat /\ S \in SUBSET (0..MaxClock) /\ S # {}
      BY <1>2, <1>3, Constants
    <3>2. \E x \in S : \A y \in S : x >= y
      BY <3>1, GreatestExists
    <3>. QED
      BY <1>2, <3>2
  <2>2. ASSUME NEW r \in mine, q.ts <= r.ts PROVE r.at = T
    <3>1. CASE unit = "none"
      <4>1. ~(r.at < q.at)
        BY <1>2, <1>3, <2>2, <3>1 DEF IInv, Ordered
      <4>. QED
        BY <1>1, <1>2, <1>3, <4>1
    <3>2. CASE unit # "none"
      <4>1. q.ts = T /\ grain = 1
        BY <1>6, <1>9, <3>2 DEF RightTime
      <4>2. RightTime(r.ts, r.at)
        BY <1>1, <1>2, <1>4, <2>2, <4>1
      <4>3. r.ts = r.at
        BY <1>9, <3>2, <4>2 DEF RightTime
      <4>. QED
        BY <1>1, <1>2, <2>2, <4>1, <4>3
    <3>. QED
      BY <3>1, <3>2
  <2>3. \A r \in quotes : /\ r.token = tok
                          /\ \A x \in quotes : x.token = tok => x.ts <= r.ts
                          => r.top = TopIn(levels, tok)
    BY <1>3, <1>7, <2>2
  <2>4. n \in quotes /\ n.token = tok /\ n.top = TopIn(levels, tok)
    BY <1>3, <1>7, <2>1, <2>2
  <2>. QED
    BY <2>1, <2>3, <2>4 DEF Current
<1>. QED
  BY <1>8, <1>9
-----------------------------------------------------------------------------
(* The theorems *)

LEMMA Preserved ==
  ASSUME IInv, [Next]_vars PROVE IInv'
<1>1. CASE UNCHANGED vars
  <2>1. /\ UNCHANGED <<client, unit, clock, levels, past, made, conn, since, wire>>
        /\ UNCHANGED <<quotes, trades, ticks, damage, events, drops, bad>>
    BY <1>1 DEF vars, exchange, rows
  <2>2. TypeOK'
    BY <2>1 DEF IInv, TypeOK
  <2>3. InFlight' = InFlight
    BY <2>1 DEF InFlight, Items
  <2>0. /\ \A tok, t : TopAt(tok, t)' = TopAt(tok, t)
        /\ \A tok, t : BeforeTold(tok, t)' <=> BeforeTold(tok, t)
        /\ \A tok, t : Fresh(tok, t)' <=> Fresh(tok, t)
        /\ \A tok : TopIn(levels, tok)' = TopIn(levels, tok)
        /\ \A t : Stamp(t)' = Stamp(t)
        /\ \A t : Unread(t)' <=> Unread(t)
    BY <2>1 DEF TopAt, BeforeTold, Fresh, TopIn, Stamp, Unread, Flawed
  <2>4. Messages'
    <3>1. \A e : Honest(e) => Honest(e)'
      BY <2>0, <2>1 DEF Honest
    <3>. QED
      BY <2>1, <2>3, <3>1 DEF IInv, Messages
  <2>5. History' /\ Spent'
    BY <2>1 DEF IInv, History, TopAt, TopIn, Spent, Raises
  <2>6. Ordered' /\ Binance'
    <3>1. \A i : Items(wire[i])' = Items(wire[i])
      BY <2>1 DEF Items
    <3>2. \A tok, t : BeforeTold(tok, t)' <=> BeforeTold(tok, t)
      BY <2>1 DEF BeforeTold
    <3>. QED
      BY <2>1, <2>3, <3>1, <3>2 DEF IInv, Ordered, Binance
  <2>7. AllComes'
    <3>1. \A tok : QuoteComes(tok)' <=> QuoteComes(tok)
      BY <2>0, <2>1 DEF QuoteComes, Tells
    <3>2. \A t : TradeComes(t)' <=> TradeComes(t)
      BY <2>0, <2>1 DEF TradeComes
    <3>3. \A t : TickComes(t)' <=> TickComes(t)
      BY <2>0, <2>1 DEF TickComes
    <3>. QED
      BY <2>1, <3>1, <3>2, <3>3 DEF IInv, AllComes
  <2>8. RowsAreTrue'
    BY <2>1 DEF IInv, RowsAreTrue, TopAt, RightTime, Flawed, NoBetter
  <2>. QED
    BY <2>2, <2>4, <2>5, <2>6, <2>7, <2>8 DEF IInv
<1>2. CASE \E tok \in Token, side \in Side, p \in Price : Change(tok, side, p)
  BY <1>2, ChangeKeeps
<1>3. CASE Trade
  BY <1>3, TradeKeeps
<1>4. CASE Receive
  BY <1>4, ReceiveKeeps
<1>5. CASE Drop
  BY <1>5, DropKeeps
<1>6. CASE Connect
  BY <1>6, ConnectKeeps
<1>. QED
  BY <1>1, <1>2, <1>3, <1>4, <1>5, <1>6 DEF Next

\* The invariant holds of every book, trade and unit, and whatever is lost,
\* skipped or misread.
THEOREM Invariance == Spec => []IInv
<1>1. Init => IInv
  BY Initially
<1>2. IInv /\ [Next]_vars => IInv'
  BY Preserved
<1>. QED
  BY <1>1, <1>2, PTL DEF Spec

\* The state has its type; that the clock stays in its bounds is the accounting
\* of Spent.
THEOREM TypeIsCorrect == Spec => []TypeOK
<1>1. IInv => TypeOK
  BY DEF IInv
<1>. QED
  BY <1>1, Invariance, PTL

\* What CLOBClient, RTDSClient and BinanceSpotClient record was so at its time:
\* _parse_ts finds the unit and _floor_to_sec the second.  What is misread is
\* never a better top, and what is dated with the present was so before.
THEOREM RowsAreFacts == Spec => []RowsAreTrue
<1>1. IInv => RowsAreTrue
  BY DEF IInv
<1>. QED
  BY <1>1, Invariance, PTL

\* A client that has read all it was sent has missed nothing since it connected,
\* though handlers raise half-way and drops take what is in flight, but the last
\* of what it skipped or misread.
THEOREM NothingIsMissed == Spec => []CaughtUp
<1>1. ASSUME IInv, conn = "up", wire = <<>> PROVE CaughtUp
  <2>1. Len(wire) = 0
    BY <1>1
  <2>2. ASSUME client = "clob", NEW tok \in Token, ~Excused(tok) PROVE Current(tok)
    <3>1. QuoteComes(tok)
      BY <1>1, <2>2 DEF IInv, AllComes
    <3>2. ASSUME NEW d \in damage, d.about = tok, d.flaw # "undated", Fresh(tok, d.at)
          PROVE  FALSE
      <4>1. Told(tok) <= d.at /\ Told(tok) \in Nat
        BY <1>1, <3>2, LastTold
      <4>2. d.at \in Nat
        BY <1>1, Constants DEF IInv, TypeOK
      <4>. QED
        BY <2>2, <3>2, <4>1, <4>2 DEF Excused
    <3>3. PICK q \in quotes : q.token = tok /\ Fresh(tok, q.at) /\ q.top = TopIn(levels, tok)
      BY <2>1, <3>1, <3>2 DEF QuoteComes
    <3>. QED
      BY <1>1, <2>2, <3>3, LastIsNewest
  <2>3. ASSUME client # "binance", NEW t \in made, t > since
        PROVE  Unread(t) \/ \E r \in trades : r.at = t
    BY <1>1, <2>1, <2>3 DEF IInv, AllComes, TradeComes
  <2>4. ASSUME client = "binance", NEW t \in made, t > since
        PROVE  Unread(t) \/ (ticks[t \div Kilo] # None /\ ticks[t \div Kilo] <= t)
    BY <1>1, <2>1, <2>4 DEF IInv, AllComes, TickComes
  <2>. QED
    BY <2>2, <2>3, <2>4 DEF CaughtUp
<1>2. IInv => CaughtUp
  BY <1>1 DEF CaughtUp
<1>. QED
  BY <1>2, Invariance, PTL
=============================================================================
