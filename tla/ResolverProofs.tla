--------------------------- MODULE ResolverProofs ---------------------------
(***************************************************************************)
(* The safety properties of Resolver, for all streams of ticks, prices,    *)
(* windows and durations in the order of the code's.  What concerns the    *)
(* feed holds for any number of resolvers, what concerns one row for a     *)
(* single one.                                                             *)
(***************************************************************************)
EXTENDS Resolver, IntegerFacts, TLAPS

\* Nobody else resolves on this database.
OneResolver == \A v, w \in Worker : v = w

\* The rotator is never late, and no transaction began in the future.
OnTime ==
  /\ captureAt - Rotate <= now /\ now <= captureAt
  /\ \A w \in Worker : began[w] <= now

\* S holds what the stream has up to some moment that is not before q.
Landed(S, q) ==
  /\ \A t \in S, x \in stream : x <= t => x \in S
  /\ \A x \in stream : x <= q => x \in S

\* Without failures btc_spot holds every tick that had shown at the last
\* capture, or, while that one is buffered, at the one before.
Fed ==
  misses = 0 =>
    /\ buffered # {} => now = captureAt - Rotate
    /\ Landed(spot, now - Rotate - Delay)
    /\ Landed(spot \cup buffered, captureAt - Rotate - Delay)

TimelyStrike(m, t) ==
  t # None => \A u \in stream : u >= Start[m] - Lookback => t <= u
TimelyClose(m, t) ==
  t # None =>
    \A u \in stream :
      u >= Start[m] /\ u <= End[m] - (Rotate + Delay - Grace)
        => Distance(t, End[m]) <= Distance(u, End[m])
TimelyRow(m, r) == TimelyStrike(m, r.strike) /\ TimelyClose(m, r.close)

\* Without failures no tick of the stream is a better pick, but for the close
\* one that may not have shown yet.
Timely ==
  misses = 0 =>
    \A m \in Market :
      /\ TimelyRow(m, row[m])
      /\ \A w \in Worker :
           /\ wrote[w][m] # None => TimelyRow(m, wrote[w][m])
           /\ pc[w] = "strike" => TimelyStrike(m, sub[w][m])
           /\ pc[w] = "close" => TimelyClose(m, sub[w][m])

FeedInv == TypeOK /\ OnTime /\ Fed /\ Timely

\* A transaction writes only what its row did not have.
Consistent(r) ==
  r.close # None => /\ r.strike # None
                    /\ r.up = (Price[r.close] >= Price[r.strike])

Extends(r, old) == /\ old.strike # None => r.strike = old.strike
                   /\ old.close # None => r = old

RowInv ==
  \A m \in Market :
    /\ Consistent(row[m])
    /\ \A w \in Worker :
         /\ pc[w] \in {"idle", "strike"} => wrote[w][m] = None
         /\ wrote[w][m] # None =>
              Consistent(wrote[w][m]) /\ Extends(wrote[w][m], row[m])
         /\ pc[w] = "strike" /\ sub[w][m] # None => row[m].strike = None
         /\ pc[w] = "close" /\ sub[w][m] # None =>
              Seen(w, m).close = None /\ Seen(w, m).strike # None
-----------------------------------------------------------------------------
(* Lemmas about the picks *)

LEMMA DistanceIsNat ==
  ASSUME NEW t \in Nat, NEW u \in Nat PROVE Distance(t, u) \in Nat
  BY DEF Distance

LEMMA TimeIsNat == /\ MaxTime \in Nat /\ Time \subseteq Nat /\ 0 \in Time
                   /\ \A t \in Nat : t \in Time <=> t <= MaxTime
  BY BoundsAssumption DEF Time

LEMMA Durations == /\ Lookback \in Nat /\ Lookahead \in Nat /\ Grace \in Nat
                   /\ Rotate \in Nat /\ Snapshot \in Nat /\ Delay \in Nat
                   /\ 0 < Rotate /\ Grace <= Rotate /\ Rotate + Delay <= Snapshot
  BY DurationAssumption, OverlapAssumption

\* The strike subquery returns the earliest tick in its range.
LEMMA StrikePicked ==
  ASSUME TypeOK, NEW m \in Market, StrikeTicks(m) # {}
  PROVE  /\ StrikePick(m) \in StrikeTicks(m) /\ StrikePick(m) \in Time
         /\ \A u \in StrikeTicks(m) : StrikePick(m) <= u
<1>1. StrikeTicks(m) \subseteq spot /\ spot \subseteq Time
  BY DEF StrikeTicks, TypeOK
<1>2. \E t \in StrikeTicks(m) : \A u \in StrikeTicks(m) : t <= u
  BY <1>1, LeastExists, TimeIsNat
<1>. QED
  BY <1>1, <1>2 DEF StrikePick

\* The close subquery returns a tick of its range nearest to the end.
LEMMA ClosePicked ==
  ASSUME TypeOK, NEW m \in Market, NEW late \in SUBSET Market, CloseTicks(m) # {}
  PROVE  LET t == ClosePick(m, m \in late)
         IN  t \in NearestTicks(m) /\ t \in Time
<1>1. /\ CloseTicks(m) \subseteq Time /\ CloseTicks(m) \subseteq Nat
      /\ End[m] \in Nat
  <2>1. CloseTicks(m) \subseteq spot /\ spot \subseteq Time /\ End[m] \in Time
    BY WindowAssumption DEF CloseTicks, TypeOK
  <2>. QED
    BY <2>1, TimeIsNat
<1>. DEFINE D == {Distance(t, End[m]) : t \in CloseTicks(m)}
<1>2. D \in SUBSET Nat /\ D # {}
  BY <1>1, DistanceIsNat
<1>3. \E d \in D : \A e \in D : d <= e
  BY <1>2, LeastExists
<1>4. NearestTicks(m) # {} /\ NearestTicks(m) \in SUBSET Nat
      /\ NearestTicks(m) \in SUBSET (0..MaxTime)
  BY <1>1, <1>3 DEF NearestTicks, Time
<1>5. /\ \E t \in NearestTicks(m) : \A u \in NearestTicks(m) : t >= u
      /\ \E t \in NearestTicks(m) : \A u \in NearestTicks(m) : t <= u
  BY <1>4, LeastExists, GreatestExists, BoundsAssumption
<1>6. ClosePick(m, m \in late) \in NearestTicks(m)
  BY <1>5 DEF ClosePick
<1>. QED
  BY <1>1, <1>6 DEF NearestTicks
-----------------------------------------------------------------------------
(* The feed, with any number of resolvers *)

LEMMA HistoryIsTime ==
  ASSUME TypeOK PROVE \A late \in 0..Delay : History(late) \subseteq Time
  BY DEF History, TypeOK

LEMMA SeenType ==
  ASSUME TypeOK, NEW w \in Worker, NEW m \in Market PROVE Seen(w, m) \in Row
  BY DEF Seen, TypeOK

LEMMA TypeStart == Init => TypeOK
  BY BoundsAssumption, StreamAssumption, Durations
  DEF Init, TypeOK, Row, Unresolved, Nowhere, Time

LEMMA TypeKept == ASSUME TypeOK, [Next]_vars PROVE TypeOK'
<1>1. CASE UNCHANGED vars
  BY <1>1 DEF vars, feed, resolvers, TypeOK
<1>2. CASE Capture \/ CaptureFails \/ Flush \/ FlushFails \/ Pass
  <2>1. CASE Capture \/ CaptureFails
    <3>1. now + Rotate \in Nat
      BY TimeIsNat, Durations DEF TypeOK
    <3>. QED
      BY <2>1, <3>1, HistoryIsTime, BoundsAssumption
      DEF Capture, CaptureFails, resolvers, TypeOK
  <2>2. CASE Flush \/ FlushFails
    BY <2>2, BoundsAssumption DEF Flush, FlushFails, resolvers, TypeOK
  <2>3. CASE Pass
    <3>1. now + 1 \in Time
      BY <2>3, TimeIsNat DEF Pass, TypeOK
    <3>. QED
      BY <2>3, <3>1 DEF Pass, feed, resolvers, TypeOK
  <2>. QED
    BY <1>2, <2>1, <2>2, <2>3
<1>3. ASSUME NEW w \in Worker, StrikeRead(w) PROVE TypeOK'
  <2>1. \A m \in Market : NeedsStrike(w, m, now) => StrikePick(m) \in Time
    BY StrikePicked DEF NeedsStrike
  <2>. QED
    BY <1>3, <2>1 DEF StrikeRead, feed, TypeOK
<1>4. ASSUME NEW w \in Worker, StrikeWrite(w) PROVE TypeOK'
  <2>1. \A m \in Market : sub[w][m] # None =>
                            [Seen(w, m) EXCEPT !.strike = sub[w][m]] \in Row
    <3>1. \A m \in Market : sub[w][m] \in Time \cup {None}
      BY DEF TypeOK
    <3>. QED
      BY <3>1, SeenType DEF Row
  <2>. QED
    BY <1>4, <2>1 DEF StrikeWrite, feed, TypeOK
<1>5. ASSUME NEW w \in Worker, CloseRead(w) PROVE TypeOK'
  <2>1. PICK late \in SUBSET Market :
          sub' = [sub EXCEPT ![w] =
            [m \in Market |-> IF NeedsClose(w, m) THEN ClosePick(m, m \in late) ELSE None]]
    BY <1>5 DEF CloseRead
  <2>2. \A m \in Market : NeedsClose(w, m) => ClosePick(m, m \in late) \in Time
    <3>1. \A m \in Market : CloseTicks(m) # {} => ClosePick(m, m \in late) \in Time
      BY ClosePicked
    <3>. QED
      BY <3>1 DEF NeedsClose
  <2>. QED
    BY <1>5, <2>1, <2>2 DEF CloseRead, feed, TypeOK
<1>6. ASSUME NEW w \in Worker, CloseWrite(w) PROVE TypeOK'
  <2>1. \A m \in Market : sub[w][m] # None =>
          [Seen(w, m) EXCEPT !.close = sub[w][m],
                             !.up = Outcome(sub[w][m], Seen(w, m).strike)] \in Row
    <3>1. \A m \in Market : sub[w][m] \in Time \cup {None}
      BY DEF TypeOK
    <3>2. \A t, u : Outcome(t, u) \in BOOLEAN
      BY DEF Outcome
    <3>. QED
      BY <3>1, <3>2, SeenType DEF Row
  <2>. QED
    BY <1>6, <2>1 DEF CloseWrite, feed, TypeOK
<1>7. ASSUME NEW w \in Worker, Commit(w) PROVE TypeOK'
  BY <1>7, SeenType DEF Commit, Finished, Nowhere, feed, TypeOK
<1>8. ASSUME NEW w \in Worker, Abort(w) PROVE TypeOK'
  BY <1>8, BoundsAssumption DEF Abort, Finished, Nowhere, feed, TypeOK
<1>. QED
  BY <1>1, <1>2, <1>3, <1>4, <1>5, <1>6, <1>7, <1>8 DEF Next, Resolve

LEMMA ClockStart == Init => OnTime
  BY BoundsAssumption, Durations DEF Init, OnTime

LEMMA ClockKept == ASSUME TypeOK, OnTime, [Next]_vars PROVE OnTime'
<1>1. CASE UNCHANGED vars
  BY <1>1 DEF vars, feed, resolvers, OnTime
<1>. /\ now \in Nat /\ captureAt \in Nat /\ Rotate \in Nat /\ 0 < Rotate
     /\ \A w \in Worker : began[w] \in Nat
  BY TimeIsNat, Durations DEF TypeOK
<1>2. CASE Capture \/ CaptureFails
  BY <1>2 DEF Capture, CaptureFails, resolvers, OnTime
<1>3. CASE Flush \/ FlushFails
  BY <1>3 DEF Flush, FlushFails, resolvers, OnTime
<1>4. CASE Pass
  BY <1>4 DEF Pass, feed, resolvers, OnTime
<1>5. ASSUME NEW w \in Worker, StrikeRead(w) PROVE OnTime'
  BY <1>5 DEF StrikeRead, feed, TypeOK, OnTime
<1>6. ASSUME NEW w \in Worker,
             StrikeWrite(w) \/ CloseRead(w) \/ CloseWrite(w) \/ Commit(w) \/ Abort(w)
      PROVE  OnTime'
  BY <1>6 DEF StrikeWrite, CloseRead, CloseWrite, Commit, Abort, feed, OnTime
<1>. QED
  BY <1>1, <1>2, <1>3, <1>4, <1>5, <1>6 DEF Next, Resolve

LEMMA FedStart == Init => Fed
<1>1. ASSUME Init PROVE \A q \in Int : q < 0 => Landed({}, q)
  BY <1>1, StreamAssumption, TimeIsNat DEF Init, Landed
<1>2. ASSUME Init
      PROVE  /\ now - Rotate - Delay \in Int /\ now - Rotate - Delay < 0
             /\ captureAt - Rotate - Delay \in Int /\ captureAt - Rotate - Delay < 0
  BY <1>2, Durations DEF Init
<1>. QED
  BY <1>1, <1>2 DEF Init, Fed

LEMMA FedKept == ASSUME TypeOK, OnTime, Fed, [Next]_vars PROVE Fed'
<1>. /\ now \in Nat /\ captureAt \in Nat /\ stream \subseteq Nat
     /\ Rotate \in Nat /\ 0 < Rotate /\ Delay \in Nat /\ Snapshot \in Nat
     /\ Rotate + Delay <= Snapshot
  BY TimeIsNat, Durations DEF TypeOK
<1>1. CASE UNCHANGED vars
  BY <1>1 DEF vars, feed, resolvers, Fed, Landed
<1>2. CASE Capture
  <2>1. SUFFICES ASSUME misses = 0 PROVE Fed'
    BY <1>2 DEF Capture, Fed
  <2>2. now = captureAt /\ captureAt' = now + Rotate /\ buffered = {}
        /\ UNCHANGED <<now, spot, stream>>
    BY <1>2, <2>1 DEF Capture, Fed
  <2>3. PICK late \in 0..Delay : buffered' = History(late)
    BY <1>2, <2>2 DEF Capture
  <2>4. Landed(spot, now - Rotate - Delay)
    BY <2>1 DEF Fed
  <2>. DEFINE S == spot \cup History(late)
  <2>5. ASSUME NEW x \in stream, x <= now - late PROVE x \in S
    <3>1. CASE x > now - Snapshot
      BY <2>5, <3>1 DEF History
    <3>2. CASE x <= now - Snapshot
      BY <2>4, <2>5, <3>2 DEF Landed
    <3>. QED
      BY <3>1, <3>2
  <2>6. ASSUME NEW t \in S, NEW x \in stream, x <= t PROVE x \in S
    <3>1. CASE t \in spot
      BY <2>4, <2>6, <3>1 DEF Landed
    <3>2. CASE t \in History(late)
      BY <2>5, <2>6, <3>2 DEF History
    <3>. QED
      BY <2>6, <3>1, <3>2
  <2>7. \A x \in stream : x <= now - Delay => x \in S
    BY <2>5
  <2>8. Landed(S, now - Delay)
    BY <2>6, <2>7 DEF Landed
  <2>9. /\ now' = captureAt' - Rotate /\ captureAt' - Rotate - Delay = now - Delay
        /\ spot' \cup buffered' = S /\ now' - Rotate - Delay = now - Rotate - Delay
    BY <2>2, <2>3
  <2>10. Landed(spot, now - Rotate - Delay)' /\ Landed(spot \cup buffered, captureAt - Rotate - Delay)'
    <3>. HIDE DEF S
    <3>. QED
      BY <2>2, <2>4, <2>8, <2>9 DEF Landed
  <2>. QED
    BY <2>9, <2>10 DEF Fed
<1>3. CASE Flush
  <2>1. SUFFICES ASSUME misses = 0 PROVE Fed'
    BY <1>3 DEF Flush, Fed
  <2>2. /\ now = captureAt - Rotate /\ Landed(spot \cup buffered, captureAt - Rotate - Delay)
        /\ spot' = spot \cup buffered /\ buffered' = {}
        /\ UNCHANGED <<stream, now, captureAt>>
    BY <1>3, <2>1 DEF Flush, Fed
  <2>3. now - Rotate - Delay <= captureAt - Rotate - Delay
    BY <2>2
  <2>. QED
    BY <2>2, <2>3 DEF Fed, Landed
<1>4. CASE Pass
  <2>1. SUFFICES ASSUME misses = 0 PROVE Fed'
    BY <1>4 DEF Pass, feed, Fed
  <2>2. /\ buffered = {} /\ Landed(spot, captureAt - Rotate - Delay)
        /\ now' = now + 1 /\ now' <= captureAt
        /\ UNCHANGED <<stream, captureAt, spot, buffered>>
    BY <1>4, <2>1 DEF Pass, feed, Fed, OnTime
  <2>3. now' - Rotate - Delay <= captureAt - Rotate - Delay
    BY <2>2
  <2>. QED
    BY <2>2, <2>3 DEF Fed, Landed
<1>5. CASE CaptureFails \/ FlushFails
  BY <1>5 DEF CaptureFails, FlushFails, Fed, TypeOK
<1>6. ASSUME NEW w \in Worker, Resolve(w) PROVE Fed'
  <2>1. UNCHANGED <<stream, now, feed>>
    BY <1>6 DEF Resolve, StrikeRead, StrikeWrite, CloseRead, CloseWrite, Commit
  <2>. QED
    BY <2>1 DEF feed, Fed, Landed
<1>7. ASSUME NEW w \in Worker, Abort(w) PROVE Fed'
  BY <1>7 DEF Abort, TypeOK, Fed
<1>. QED
  BY <1>1, <1>2, <1>3, <1>4, <1>5, <1>6, <1>7 DEF Next

\* What was not there when the strike was picked is later than the pick.
LEMMA StrikePickTimely ==
  ASSUME TypeOK, Fed, misses = 0, NEW m \in Market, StrikeTicks(m) # {}
  PROVE  TimelyStrike(m, StrikePick(m))
<1>1. Start[m] \in Nat /\ Lookahead \in Nat /\ Lookback \in Nat /\ stream \subseteq Nat
  BY WindowAssumption, TimeIsNat, Durations DEF TypeOK
<1>2. /\ StrikePick(m) \in StrikeTicks(m) /\ StrikePick(m) \in Nat
      /\ \A u \in StrikeTicks(m) : StrikePick(m) <= u
  BY StrikePicked, TimeIsNat
<1>3. SUFFICES ASSUME NEW u \in stream, u >= Start[m] - Lookback
               PROVE  StrikePick(m) <= u
  BY DEF TimelyStrike
<1>4. CASE u < StrikePick(m)
  <2>1. u \in spot
    BY <1>1, <1>2, <1>4 DEF Fed, Landed, StrikeTicks
  <2>2. u \in StrikeTicks(m)
    BY <1>1, <1>2, <1>3, <1>4, <2>1 DEF StrikeTicks
  <2>. QED
    BY <1>2, <2>2
<1>. QED
  BY <1>1, <1>2, <1>4

\* What was not there when the close was picked is younger than that.
LEMMA ClosePickTimely ==
  ASSUME TypeOK, OnTime, Fed, misses = 0, NEW m \in Market, NEW w \in Worker,
         NeedsClose(w, m), NEW c \in NearestTicks(m)
  PROVE  TimelyClose(m, c)
<1>1. /\ Start[m] \in Nat /\ End[m] \in Nat /\ stream \subseteq Nat
      /\ Rotate \in Nat /\ Grace \in Nat /\ Delay \in Nat /\ Grace <= Rotate
      /\ now \in Nat /\ began[w] \in Nat /\ began[w] <= now /\ End[m] <= began[w] - Grace
  BY TimeIsNat, WindowAssumption, Durations DEF TypeOK, OnTime, NeedsClose
<1>2. SUFFICES ASSUME NEW u \in stream, u >= Start[m],
                      u <= End[m] - (Rotate + Delay - Grace)
               PROVE  Distance(c, End[m]) <= Distance(u, End[m])
  BY DEF TimelyClose
<1>3. u <= now - Rotate - Delay /\ u <= End[m] + Grace
  BY <1>1, <1>2
<1>4. u \in CloseTicks(m)
  BY <1>2, <1>3 DEF Fed, Landed, CloseTicks
<1>. QED
  BY <1>4 DEF NearestTicks

LEMMA TimelyStart == Init => Timely
<1>1. ASSUME Init, NEW m \in Market
      PROVE  /\ row[m].strike = None /\ row[m].close = None
             /\ \A w \in Worker : wrote[w][m] = None /\ pc[w] = "idle"
  BY <1>1 DEF Init, Unresolved, Nowhere
<1>2. ASSUME Init, NEW m \in Market PROVE TimelyRow(m, row[m])
  BY <1>1, <1>2 DEF TimelyRow, TimelyStrike, TimelyClose
<1>. QED
  BY <1>1, <1>2 DEF Timely

LEMMA SeenTimely ==
  ASSUME Timely, misses = 0, NEW w \in Worker, NEW m \in Market
  PROVE  TimelyRow(m, Seen(w, m))
  BY DEF Timely, Seen

LEMMA TimelyKept ==
  ASSUME TypeOK, OnTime, Fed, Timely, [Next]_vars PROVE Timely'
<1>1. CASE UNCHANGED <<stream, row, resolvers>> /\ (misses' = 0 => misses = 0)
  BY <1>1 DEF resolvers, Timely, TimelyRow, TimelyStrike, TimelyClose
<1>2. CASE UNCHANGED vars \/ Capture \/ CaptureFails \/ Flush \/ FlushFails \/ Pass
  BY <1>1, <1>2
  DEF vars, feed, Capture, CaptureFails, Flush, FlushFails, Pass, TypeOK
<1>3. ASSUME NEW w \in Worker, StrikeRead(w), misses = 0 PROVE Timely'
  <2>1. \A m \in Market : NeedsStrike(w, m, now) => TimelyStrike(m, StrikePick(m))
    BY <1>3, StrikePickTimely DEF NeedsStrike
  <2>2. \A m \in Market : pc'[w] = "strike" /\ TimelyStrike(m, sub'[w][m])
    BY <1>3, <2>1 DEF StrikeRead, TypeOK, TimelyStrike
  <2>3. \A v \in Worker \ {w} : pc'[v] = pc[v] /\ sub'[v] = sub[v]
    BY <1>3 DEF StrikeRead, TypeOK
  <2>. QED
    BY <1>3, <2>2, <2>3 DEF StrikeRead, feed, Timely, TimelyRow, TimelyStrike, TimelyClose
<1>4. ASSUME NEW w \in Worker, StrikeWrite(w), misses = 0 PROVE Timely'
  <2>1. /\ pc[w] = "strike" /\ pc'[w] = "between"
        /\ \A v \in Worker \ {w} : pc'[v] = pc[v] /\ wrote'[v] = wrote[v]
        /\ UNCHANGED <<stream, row, sub, misses>>
    BY <1>4 DEF StrikeWrite, feed, TypeOK
  <2>2. ASSUME NEW m \in Market, sub[w][m] # None
        PROVE  TimelyRow(m, [Seen(w, m) EXCEPT !.strike = sub[w][m]])
    <3>1. Seen(w, m) \in Row /\ TimelyRow(m, Seen(w, m)) /\ TimelyStrike(m, sub[w][m])
      BY <1>4, <2>1, SeenType, SeenTimely DEF Timely
    <3>. QED
      BY <3>1 DEF TimelyRow, Row
  <2>3. \A m \in Market : wrote'[w][m] # None => TimelyRow(m, wrote'[w][m])
    BY <1>4, <2>2 DEF StrikeWrite, TypeOK, Timely
  <2>. QED
    BY <1>4, <2>1, <2>3 DEF Timely, TimelyRow, TimelyStrike, TimelyClose
<1>5. ASSUME NEW w \in Worker, CloseRead(w), misses = 0 PROVE Timely'
  <2>1. PICK late \in SUBSET Market :
          sub' = [sub EXCEPT ![w] =
            [m \in Market |-> IF NeedsClose(w, m) THEN ClosePick(m, m \in late) ELSE None]]
    BY <1>5 DEF CloseRead
  <2>2. ASSUME NEW m \in Market, NeedsClose(w, m)
        PROVE  TimelyClose(m, ClosePick(m, m \in late))
    <3>1. ClosePick(m, m \in late) \in NearestTicks(m)
      BY <2>2, ClosePicked DEF NeedsClose
    <3>. QED
      BY <1>5, <2>2, <3>1, ClosePickTimely DEF TimelyClose
  <2>3. \A m \in Market : pc'[w] = "close" /\ TimelyClose(m, sub'[w][m])
    BY <1>5, <2>1, <2>2 DEF CloseRead, TypeOK, TimelyClose
  <2>4. \A v \in Worker \ {w} : pc'[v] = pc[v] /\ sub'[v] = sub[v]
    BY <1>5, <2>1 DEF CloseRead, TypeOK
  <2>. QED
    BY <1>5, <2>3, <2>4 DEF CloseRead, feed, Timely, TimelyRow, TimelyStrike, TimelyClose
<1>6. ASSUME NEW w \in Worker, CloseWrite(w), misses = 0 PROVE Timely'
  <2>1. /\ pc[w] = "close" /\ pc'[w] = "commit"
        /\ \A v \in Worker \ {w} : pc'[v] = pc[v] /\ wrote'[v] = wrote[v]
        /\ UNCHANGED <<stream, row, sub, misses>>
    BY <1>6 DEF CloseWrite, feed, TypeOK
  <2>2. ASSUME NEW m \in Market, sub[w][m] # None
        PROVE  TimelyRow(m, [Seen(w, m) EXCEPT
                               !.close = sub[w][m],
                               !.up = Outcome(sub[w][m], Seen(w, m).strike)])
    <3>1. Seen(w, m) \in Row /\ TimelyRow(m, Seen(w, m)) /\ TimelyClose(m, sub[w][m])
      BY <1>6, <2>1, SeenType, SeenTimely DEF Timely
    <3>. QED
      BY <3>1 DEF TimelyRow, Row
  <2>3. \A m \in Market : wrote'[w][m] # None => TimelyRow(m, wrote'[w][m])
    BY <1>6, <2>2 DEF CloseWrite, TypeOK, Timely
  <2>. QED
    BY <1>6, <2>1, <2>3 DEF Timely, TimelyRow, TimelyStrike, TimelyClose
<1>7. ASSUME NEW w \in Worker, Finished(w), UNCHANGED <<stream, misses>>, misses = 0,
             \A m \in Market : TimelyRow(m, row'[m])
      PROVE  Timely'
  <2>1. /\ pc'[w] = "idle" /\ wrote'[w] = Nowhere
        /\ \A v \in Worker \ {w} :
             pc'[v] = pc[v] /\ wrote'[v] = wrote[v] /\ sub'[v] = sub[v]
    BY <1>7 DEF Finished, TypeOK
  <2>. QED
    BY <1>7, <2>1 DEF Timely, Nowhere, TimelyRow, TimelyStrike, TimelyClose
<1>8. ASSUME NEW w \in Worker, Commit(w), misses = 0 PROVE Timely'
  BY <1>7, <1>8, SeenTimely DEF Commit, feed
<1>9. ASSUME NEW w \in Worker, Abort(w) PROVE Timely'
  BY <1>9 DEF Abort, TypeOK, Timely
<1>10. ASSUME NEW w \in Worker, Resolve(w), misses # 0 PROVE Timely'
  BY <1>10
  DEF Resolve, StrikeRead, StrikeWrite, CloseRead, CloseWrite, Commit, feed, Timely
<1>. QED
  BY <1>2, <1>3, <1>4, <1>5, <1>6, <1>8, <1>9, <1>10 DEF Next, Resolve

\* The inductive invariant of the feed and of what is picked from it.
THEOREM FeedInvariance == Spec => []FeedInv
<1>1. Init => FeedInv
  BY TypeStart, ClockStart, FedStart, TimelyStart DEF FeedInv
<1>2. FeedInv /\ [Next]_vars => FeedInv'
  BY TypeKept, ClockKept, FedKept, TimelyKept DEF FeedInv
<1>. QED
  BY <1>1, <1>2, PTL DEF Spec

\* The rows, the snapshots and the transactions keep their types.
THEOREM TypeIsCorrect == Spec => []TypeOK
<1>1. FeedInv => TypeOK
  BY DEF FeedInv
<1>. QED
  BY <1>1, FeedInvariance, PTL

\* Without failures the snapshots leave no gap in btc_spot: that successive
\* ones overlap by more than the delay of a tick is all it takes.
THEOREM SnapshotsOverlap == Spec => []NoGap
<1>1. FeedInv => NoGap
  <2>1. SUFFICES ASSUME FeedInv, misses = 0, NEW t \in spot, NEW u \in spot,
                        NEW x \in stream, t < x /\ x < u
                 PROVE  x \in spot
    BY DEF NoGap
  <2>2. x \in Nat /\ u \in Nat
    BY <2>1, TimeIsNat DEF FeedInv, TypeOK
  <2>. QED
    BY <2>1, <2>2 DEF FeedInv, Fed, Landed
<1>. QED
  BY <1>1, FeedInvariance, PTL

\* Without failures every strike is the first tick of the stream since the
\* start less the lookback, however many resolvers there are.
THEOREM StrikeIsFirstTick == Spec => []StrikeIsFirst
<1>1. FeedInv => StrikeIsFirst
  BY DEF FeedInv, Timely, TimelyRow, TimelyStrike, StrikeIsFirst
<1>. QED
  BY <1>1, FeedInvariance, PTL

\* Without failures a close is as near to the end as any tick older than
\* Rotate + Delay - Grace then, however many resolvers there are.
THEOREM CloseIsNear == Spec => []CloseIsRecent
<1>1. FeedInv => CloseIsRecent
  BY DEF FeedInv, Timely, TimelyRow, TimelyClose, CloseIsRecent
<1>. QED
  BY <1>1, FeedInvariance, PTL
-----------------------------------------------------------------------------
(* The rows, with a single resolver *)

LEMMA RowStart == Init => RowInv
<1>1. ASSUME Init, NEW m \in Market
      PROVE  /\ row[m].strike = None /\ row[m].close = None
             /\ \A w \in Worker : wrote[w][m] = None /\ pc[w] = "idle"
  BY <1>1 DEF Init, Unresolved, Nowhere
<1>. QED
  BY <1>1 DEF RowInv, Consistent

\* What a resolver sees of a row is consistent, and extends the committed one.
LEMMA SeenExtends ==
  ASSUME RowInv, NEW w \in Worker, NEW m \in Market
  PROVE  Consistent(Seen(w, m)) /\ Extends(Seen(w, m), row[m])
  BY DEF RowInv, Seen, Extends

LEMMA RowKept ==
  ASSUME OneResolver, TypeOK, RowInv, [Next]_vars PROVE RowInv'
<1>1. CASE UNCHANGED <<row, resolvers>>
  BY <1>1 DEF resolvers, RowInv, Consistent, Extends, Seen
<1>2. CASE UNCHANGED vars \/ Capture \/ CaptureFails \/ Flush \/ FlushFails \/ Pass
  BY <1>1, <1>2 DEF vars, feed, Capture, CaptureFails, Flush, FlushFails, Pass
<1>3. ASSUME NEW w \in Worker, StrikeRead(w) PROVE RowInv'
  <2>1. \A v \in Worker : v = w
    BY DEF OneResolver
  <2>2. /\ pc[w] = "idle" /\ pc'[w] = "strike" /\ UNCHANGED <<row, wrote>>
        /\ \A m \in Market : sub'[w][m] # None => NeedsStrike(w, m, now)
    BY <1>3 DEF StrikeRead, feed, TypeOK
  <2>3. \A m \in Market : sub'[w][m] # None => row[m].strike = None
    BY <2>2 DEF RowInv, NeedsStrike, Seen
  <2>. QED
    BY <2>1, <2>2, <2>3 DEF RowInv
<1>4. ASSUME NEW w \in Worker, StrikeWrite(w) PROVE RowInv'
  <2>1. \A v \in Worker : v = w
    BY DEF OneResolver
  <2>2. /\ pc[w] = "strike" /\ pc'[w] = "between" /\ UNCHANGED row
        /\ \A m \in Market :
             wrote'[w][m] = IF sub[w][m] = None THEN wrote[w][m]
                            ELSE [Seen(w, m) EXCEPT !.strike = sub[w][m]]
    BY <1>4 DEF StrikeWrite, TypeOK
  <2>3. ASSUME NEW m \in Market, sub[w][m] # None
        PROVE  LET r == [Seen(w, m) EXCEPT !.strike = sub[w][m]]
               IN  Consistent(r) /\ Extends(r, row[m])
    <3>1. Seen(w, m) = row[m] /\ row[m].strike = None /\ row[m].close = None
      BY <2>2, <2>3 DEF RowInv, Seen, Consistent
    <3>2. row[m] \in Row
      BY DEF TypeOK
    <3>. QED
      BY <3>1, <3>2 DEF Consistent, Extends, Row
  <2>4. ASSUME NEW m \in Market
        PROVE  /\ Consistent(row'[m])
               /\ wrote'[w][m] # None =>
                    Consistent(wrote'[w][m]) /\ Extends(wrote'[w][m], row'[m])
    <3>1. CASE sub[w][m] = None
      BY <2>2, <3>1 DEF RowInv
    <3>2. CASE sub[w][m] # None
      BY <2>2, <2>3, <3>2 DEF RowInv
    <3>. QED
      BY <3>1, <3>2
  <2>5. pc'[w] \notin {"idle", "strike", "close"}
    BY <2>2
  <2>. QED
    BY <2>1, <2>4, <2>5 DEF RowInv, Consistent, Extends
<1>5. ASSUME NEW w \in Worker, CloseRead(w) PROVE RowInv'
  <2>1. \A v \in Worker : v = w
    BY DEF OneResolver
  <2>2. /\ pc'[w] = "close" /\ UNCHANGED <<row, wrote>>
        /\ \A m \in Market : sub'[w][m] # None => NeedsClose(w, m)
    BY <1>5 DEF CloseRead, feed, TypeOK
  <2>. QED
    BY <2>1, <2>2 DEF RowInv, NeedsClose, Seen
<1>6. ASSUME NEW w \in Worker, CloseWrite(w) PROVE RowInv'
  <2>1. \A v \in Worker : v = w
    BY DEF OneResolver
  <2>2. /\ pc[w] = "close" /\ pc'[w] = "commit" /\ UNCHANGED row
        /\ \A m \in Market :
             wrote'[w][m] =
               IF sub[w][m] = None THEN wrote[w][m]
               ELSE [Seen(w, m) EXCEPT !.close = sub[w][m],
                                       !.up = Outcome(sub[w][m], Seen(w, m).strike)]
    BY <1>6 DEF CloseWrite, TypeOK
  <2>3. ASSUME NEW m \in Market, sub[w][m] # None
        PROVE  LET r == [Seen(w, m) EXCEPT
                           !.close = sub[w][m],
                           !.up = Outcome(sub[w][m], Seen(w, m).strike)]
               IN  Consistent(r) /\ Extends(r, row[m])
    <3>1. Seen(w, m).close = None /\ Seen(w, m).strike # None /\ Seen(w, m) \in Row
      BY <2>2, <2>3, SeenType DEF RowInv
    <3>2. Extends(Seen(w, m), row[m])
      BY SeenExtends
    <3>3. row[m].close = None
      BY <3>1, <3>2 DEF Extends
    <3>. QED
      BY <3>1, <3>2, <3>3 DEF Consistent, Extends, Row, Outcome
  <2>4. ASSUME NEW m \in Market, wrote'[w][m] # None
        PROVE  Consistent(wrote'[w][m]) /\ Extends(wrote'[w][m], row[m])
    <3>1. CASE sub[w][m] = None
      BY <2>2, <2>4, <3>1 DEF RowInv
    <3>2. CASE sub[w][m] # None
      <4>. DEFINE r == [Seen(w, m) EXCEPT
                          !.close = sub[w][m],
                          !.up = Outcome(sub[w][m], Seen(w, m).strike)]
      <4>1. wrote'[w][m] = r
        BY <2>2, <3>2
      <4>2. Consistent(r) /\ Extends(r, row[m])
        BY <2>3, <3>2
      <4>. HIDE DEF r
      <4>. QED
        BY <4>1, <4>2
    <3>. QED
      BY <3>1, <3>2
  <2>. QED
    BY <2>1, <2>2, <2>4 DEF RowInv
<1>7. ASSUME NEW w \in Worker, Finished(w), \A m \in Market : Consistent(row'[m])
      PROVE  RowInv'
  <2>1. \A v \in Worker : v = w
    BY DEF OneResolver
  <2>2. pc'[w] = "idle" /\ \A m \in Market : wrote'[w][m] = None
    BY <1>7 DEF Finished, Nowhere, TypeOK
  <2>. QED
    BY <1>7, <2>1, <2>2 DEF RowInv, Consistent
<1>8. ASSUME NEW w \in Worker, Commit(w) PROVE RowInv'
  <2>1. Finished(w) /\ \A m \in Market : row'[m] = Seen(w, m)
    BY <1>8 DEF Commit
  <2>. QED
    BY <1>7, <2>1, SeenExtends
<1>9. ASSUME NEW w \in Worker, Abort(w) PROVE RowInv'
  BY <1>7, <1>9 DEF Abort, RowInv
<1>. QED
  BY <1>2, <1>3, <1>4, <1>5, <1>6, <1>8, <1>9 DEF Next, Resolve

\* With one resolver: transactions write only what their rows lack.
THEOREM RowInvariance == ASSUME OneResolver PROVE Spec => [](TypeOK /\ RowInv)
<1>1. Init => TypeOK /\ RowInv
  BY TypeStart, RowStart
<1>2. TypeOK /\ RowInv /\ [Next]_vars => (TypeOK /\ RowInv)'
  BY OneResolver, TypeKept, RowKept
<1>. QED
  BY <1>1, <1>2, PTL DEF Spec

\* With one resolver a recorded outcome is the comparison of the recorded close
\* and strike.
THEOREM OutcomeIsRight == ASSUME OneResolver PROVE Spec => []OutcomeMatches
<1>1. RowInv => OutcomeMatches
  BY DEF RowInv, Consistent, OutcomeMatches
<1>. QED
  BY <1>1, OneResolver, RowInvariance, PTL

\* With one resolver a strike, and a close with its outcome, never change.
THEOREM WrittenOnce == ASSUME OneResolver PROVE Spec => WriteOnce
<1>1. ASSUME TypeOK, RowInv, [Next]_vars, NEW m \in Market
      PROVE  /\ row[m].strike # None => row'[m].strike = row[m].strike
             /\ row[m].close # None => row'[m] = row[m]
  <2>1. CASE UNCHANGED row
    BY <2>1
  <2>2. ASSUME NEW w \in Worker, Commit(w) PROVE Extends(row'[m], row[m])
    BY <1>1, <2>2, SeenExtends DEF Commit
  <2>. QED
    BY <1>1, <2>1, <2>2
    DEF Next, vars, feed, Capture, CaptureFails, Flush, FlushFails, Pass, Resolve,
        StrikeRead, StrikeWrite, CloseRead, CloseWrite, Abort, Extends
<1>2. TypeOK /\ RowInv /\ [Next]_vars =>
        [\A m \in Market :
           /\ row[m].strike # None => row'[m].strike = row[m].strike
           /\ row[m].close # None => row'[m] = row[m]]_vars
  BY <1>1
<1>. QED
  BY <1>2, OneResolver, RowInvariance, PTL DEF Spec, WriteOnce
=============================================================================
