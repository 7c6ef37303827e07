------------------------------ MODULE Resolver ------------------------------
(***************************************************************************)
(* How a market gets its strike, close price and outcome: the Chainlink    *)
(* ticks reach btc_spot in snapshots (chainlink_snapshot.py, db.py), and   *)
(* resolver.py fills the markets table from whatever is there when it      *)
(* looks.                                                                  *)
(*                                                                         *)
(* Time is counted in units.  The Chainlink stream has a tick at some of   *)
(* them, in bursts that may be minutes apart (resolver.py:27-28), and      *)
(* shows it up to Delay later; strike and close_price are represented by   *)
(* the tick they were copied from, whose price is Price[tick].  The        *)
(* durations are parameters; what matters of the code's 5, 30, 45, 60, 180 *)
(* and 300 seconds is their order.                                         *)
(***************************************************************************)
EXTENDS Integers

CONSTANTS Market, Start, End,   \* window_start and window_end of each market
          Streams,              \* the times at which there may be ticks
          Price,                \* the Chainlink price at each of them
          Delay,                \* how late a tick may show in a snapshot
          Lookback, Lookahead,  \* STRIKE_LOOKBACK_SEC, STRIKE_LOOKAHEAD_SEC
          Grace,                \* LATE_GRACE_SEC
          Rotate, Snapshot,     \* ROTATE_EVERY_SEC, SNAPSHOT_SECONDS
          Worker,               \* resolver tasks on this database
          None,
          MaxTime,              \* bound: the last moment
          MaxMisses             \* bound: captures and flushes that fail

Time == 0..MaxTime

ASSUME DurationAssumption ==
  /\ {Lookback, Lookahead, Grace, Rotate, Snapshot, Delay} \subseteq Nat
  /\ 0 < Rotate /\ Grace <= Rotate
\* The overlap of successive snapshots makes up for the delay of a tick.
ASSUME OverlapAssumption == Rotate + Delay <= Snapshot
ASSUME WindowAssumption ==
  /\ Start \in [Market -> Time] /\ End \in [Market -> Time]
  /\ \A m \in Market : Start[m] < End[m]
ASSUME StreamAssumption == Streams \subseteq SUBSET Time
ASSUME PriceAssumption == Price \in [Time -> Int]
ASSUME BoundsAssumption == MaxTime \in Nat /\ MaxMisses \in Nat
ASSUME NoneAssumption == None \notin Time

VARIABLES
  stream,     \* the times at which there are ticks
  now,
  captureAt,  \* when the rotator opens its next connection
  buffered,   \* ticks handed to the batch writer, not in btc_spot yet
  spot,       \* Chainlink ticks in btc_spot
  misses,     \* captures and flushes that failed so far
  row,        \* the committed rows of markets
  pc,         \* where each resolver's transaction is
  began,      \* ... the moment it began, which is what NOW() means in it
  sub,        \* ... what the subquery of its current UPDATE selected
  wrote       \* ... the rows it has written (and locked), None if not

feed == <<captureAt, buffered, spot, misses>>
resolvers == <<pc, began, sub, wrote>>
vars == <<stream, now, feed, row, resolvers>>

Row == [strike : Time \cup {None}, close : Time \cup {None}, up : BOOLEAN]
Unresolved == [strike |-> None, close |-> None, up |-> FALSE]

TypeOK ==
  /\ stream \subseteq Time
  /\ now \in Time
  /\ captureAt \in Nat
  /\ buffered \subseteq Time /\ spot \subseteq Time
  /\ misses \in 0..MaxMisses
  /\ row \in [Market -> Row]
  /\ pc \in [Worker -> {"idle", "strike", "between", "close", "commit"}]
  /\ began \in [Worker -> Time]
  /\ sub \in [Worker -> [Market -> Time \cup {None}]]
  /\ wrote \in [Worker -> [Market -> Row \cup {None}]]

Nowhere == [m \in Market |-> None]

Init ==
  /\ stream \in Streams
  /\ now = 0
  /\ captureAt \in 0..(Rotate - 1)
  /\ buffered = {} /\ spot = {} /\ misses = 0
  /\ row = [m \in Market |-> Unresolved]
  /\ pc = [w \in Worker |-> "idle"]
  /\ began = [w \in Worker |-> 0]
  /\ sub = [w \in Worker |-> Nowhere]
  /\ wrote = [w \in Worker |-> Nowhere]
-----------------------------------------------------------------------------
(* The Chainlink rotator and the writer *)

\* What one snapshot holds of the stream, the last ticks of which may come later.
History(late) == {t \in stream : t > now - Snapshot /\ t <= now - late}

\* Variant: the pause is counted from the end of the history just read.
CaptureLate ==
  /\ now = captureAt
  /\ captureAt' = now + Rotate + Snapshot
  /\ \E late \in 0..Delay : buffered' = buffered \cup History(late)
  /\ UNCHANGED <<stream, now, spot, misses, row, resolvers>>

\* _capture_one: connect, subscribe, take the snapshot; the next one follows
\* ROTATE_EVERY_SEC after this one began, however this one went.
Capture ==
  /\ now = captureAt
  /\ captureAt' = now + Rotate
  /\ \E late \in 0..Delay : buffered' = buffered \cup History(late)
  /\ UNCHANGED <<stream, now, spot, misses, row, resolvers>>

CaptureFails ==
  /\ now = captureAt
  /\ misses < MaxMisses
  /\ misses' = misses + 1
  /\ captureAt' = now + Rotate
  /\ UNCHANGED <<stream, now, buffered, spot, row, resolvers>>

\* The writer's flush commits; the primary key drops the overlap.
Flush ==
  /\ buffered # {}
  /\ spot' = spot \cup buffered
  /\ buffered' = {}
  /\ UNCHANGED <<stream, now, captureAt, misses, row, resolvers>>

FlushFails ==
  /\ buffered # {}
  /\ misses < MaxMisses
  /\ misses' = misses + 1
  /\ buffered' = {}
  /\ UNCHANGED <<stream, now, captureAt, spot, row, resolvers>>

\* Captures are on time, and a flush takes less than a unit.
Pass ==
  /\ now < MaxTime
  /\ now # captureAt /\ buffered = {}
  /\ now' = now + 1
  /\ UNCHANGED <<stream, feed, row, resolvers>>
-----------------------------------------------------------------------------
(* resolve_once: two UPDATEs in one READ COMMITTED transaction *)

\* A row as worker w sees it: its own version before the committed one.
Seen(w, m) == IF wrote[w][m] # None THEN wrote[w][m] ELSE row[m]

\* The market's row is not locked by another transaction.
Free(w, m) == \A v \in Worker \ {w} : wrote[v][m] = None

Distance(t, u) == IF t < u THEN u - t ELSE t - u

StrikeTicks(m) == {t \in spot : t >= Start[m] - Lookback /\ t <= Start[m] + Lookahead}

\* Variant: ORDER BY s.ts DESC.
StrikePickLast(m) ==
  CHOOSE t \in StrikeTicks(m) : \A u \in StrikeTicks(m) : t >= u

\* DISTINCT ON (slug) ... ORDER BY s.ts ASC
StrikePick(m) ==
  CHOOSE t \in StrikeTicks(m) : \A u \in StrikeTicks(m) : t <= u

NeedsStrike(w, m, at) ==
  Seen(w, m).strike = None /\ Start[m] <= at /\ StrikeTicks(m) # {}

\* The transaction begins and the first UPDATE reads.
StrikeRead(w) ==
  /\ pc[w] = "idle"
  /\ began' = [began EXCEPT ![w] = now]
  /\ sub' = [sub EXCEPT ![w] =
       [m \in Market |-> IF NeedsStrike(w, m, now) THEN StrikePick(m) ELSE None]]
  /\ pc' = [pc EXCEPT ![w] = "strike"]
  /\ UNCHANGED <<stream, now, feed, row, wrote>>

\* Once it holds the row locks it writes.  PostgreSQL re-evaluates the WHERE
\* clause of the UPDATE on the newest version of a row it had to wait for, and
\* that clause is only m.slug = sub.slug.
StrikeWrite(w) ==
  /\ pc[w] = "strike"
  /\ \A m \in Market : sub[w][m] # None => Free(w, m)
  /\ wrote' = [wrote EXCEPT ![w] =
       [m \in Market |-> IF sub[w][m] = None THEN wrote[w][m]
                         ELSE [Seen(w, m) EXCEPT !.strike = sub[w][m]]]]
  /\ pc' = [pc EXCEPT ![w] = "between"]
  /\ UNCHANGED <<stream, now, feed, row, began, sub>>

CloseTicks(m) == {t \in spot : t >= Start[m] /\ t <= End[m] + Grace}

\* ORDER BY ABS(ts - window_end): of two ticks equally far, the earlier or the
\* later one.
NearestTicks(m) ==
  {t \in CloseTicks(m) :
     \A u \in CloseTicks(m) : Distance(t, End[m]) <= Distance(u, End[m])}

ClosePick(m, later) ==
  CHOOSE t \in NearestTicks(m) :
    \A u \in NearestTicks(m) : IF later THEN t >= u ELSE t <= u

\* Variants: no m.close_price IS NULL; the grace period is not waited for; only
\* the pass that sets the strike looks for the close.
NeedsCloseAgain(w, m) ==
  /\ Seen(w, m).strike # None
  /\ End[m] <= began[w] - Grace
  /\ CloseTicks(m) # {}

NeedsCloseEarly(w, m) ==
  /\ Seen(w, m).close = None /\ Seen(w, m).strike # None
  /\ End[m] <= began[w]
  /\ CloseTicks(m) # {}

NeedsCloseAtOnce(w, m) ==
  /\ Seen(w, m).close = None /\ wrote[w][m] # None
  /\ End[m] <= began[w] - Grace
  /\ CloseTicks(m) # {}

NeedsClose(w, m) ==
  /\ Seen(w, m).close = None /\ Seen(w, m).strike # None
  /\ End[m] <= began[w] - Grace
  /\ CloseTicks(m) # {}

\* The second UPDATE reads: what was committed since the first one counts.
CloseRead(w) ==
  /\ pc[w] = "between"
  /\ \E late \in SUBSET Market :
       sub' = [sub EXCEPT ![w] =
         [m \in Market |-> IF NeedsClose(w, m) THEN ClosePick(m, m \in late) ELSE None]]
  /\ pc' = [pc EXCEPT ![w] = "close"]
  /\ UNCHANGED <<stream, now, feed, row, began, wrote>>

\* Variants: neither outcome on a tie; the strict comparison.
OutcomeTie(close, strike) ==
  IF Price[close] = Price[strike] THEN None ELSE Price[close] > Price[strike]

OutcomeStrict(close, strike) == Price[close] > Price[strike]

\* CASE WHEN sub.price >= m.strike THEN 'Up' ELSE 'Down' END
Outcome(close, strike) == Price[close] >= Price[strike]

CloseWrite(w) ==
  /\ pc[w] = "close"
  /\ \A m \in Market : sub[w][m] # None => Free(w, m)
  /\ wrote' = [wrote EXCEPT ![w] =
       [m \in Market |->
          IF sub[w][m] = None THEN wrote[w][m]
          ELSE [Seen(w, m) EXCEPT !.close = sub[w][m],
                                  !.up = Outcome(sub[w][m], Seen(w, m).strike)]]]
  /\ pc' = [pc EXCEPT ![w] = "commit"]
  /\ UNCHANGED <<stream, now, feed, row, began, sub>>

Finished(w) == /\ wrote' = [wrote EXCEPT ![w] = Nowhere]
               /\ sub' = [sub EXCEPT ![w] = Nowhere]
               /\ pc' = [pc EXCEPT ![w] = "idle"]

Commit(w) ==
  /\ pc[w] = "commit"
  /\ row' = [m \in Market |-> Seen(w, m)]
  /\ Finished(w)
  /\ UNCHANGED <<stream, now, feed, began>>

\* A statement or the commit raised, or the process ended: rolled back, and
\* run_forever tries again.
Abort(w) ==
  /\ pc[w] # "idle"
  /\ misses < MaxMisses
  /\ misses' = misses + 1
  /\ Finished(w)
  /\ UNCHANGED <<stream, now, captureAt, buffered, spot, row, began>>

Resolve(w) == \/ StrikeRead(w) \/ StrikeWrite(w) \/ CloseRead(w)
              \/ CloseWrite(w) \/ Commit(w)

Next ==
  \/ Capture \/ CaptureFails
  \/ Flush \/ FlushFails
  \/ Pass
  \/ \E w \in Worker : Resolve(w) \/ Abort(w)

Spec == Init /\ [][Next]_vars

\* Time passes, the rotator and the writer go on, and the resolver's loop runs.
Fairness ==
  /\ WF_vars(Pass) /\ WF_vars(Capture) /\ WF_vars(Flush)
  /\ \A w \in Worker : WF_vars(Resolve(w))

LiveSpec == Spec /\ Fairness
-----------------------------------------------------------------------------
(* Properties *)

\* A recorded outcome is the comparison of the recorded close and strike, which
\* is what the back-tester assumes when it pays a trade by resolved_outcome.
OutcomeMatches ==
  \A m \in Market : row[m].close # None =>
    /\ row[m].strike # None
    /\ row[m].up = (Price[row[m].close] >= Price[row[m].strike])

\* A strike, and a close with its outcome, are written once and for all, however
\* ticks that arrive later look.
WriteOnce ==
  [][\A m \in Market :
       /\ row[m].strike # None => row'[m].strike = row[m].strike
       /\ row[m].close # None => row'[m] = row[m]]_vars

\* chainlink_snapshot.py:8: successive snapshots overlap.  Without failures they
\* miss no tick of the stream, whatever the phase of the rotation, however late
\* ticks show and however long the stream pauses.
NoGap ==
  misses = 0 =>
    \A t, u \in spot : \A x \in stream : t < x /\ x < u => x \in spot

\* resolver.py:4 and 25: without failures the strike is the first tick of the
\* stream since window_start less the lookback.  It is picked for good from
\* what is stored when the resolver first looks, and may be minutes late; but
\* no tick before it lands afterwards.
StrikeIsFirst ==
  misses = 0 =>
    \A m \in Market : row[m].strike # None =>
      \A t \in stream : t >= Start[m] - Lookback => row[m].strike <= t

\* Without failures the recorded close is the nearest tick to the end of all but
\* those younger than Rotate + Delay - Grace then: the wait makes up for all of
\* the rotation and the delay but that.  A capture and its flush, a few seconds
\* in the code, are taken to be shorter than a unit.
CloseIsRecent ==
  misses = 0 =>
    \A m \in Market : row[m].close # None =>
      \A t \in stream :
        t >= Start[m] /\ t <= End[m] - (Rotate + Delay - Grace)
          => Distance(row[m].close, End[m]) <= Distance(t, End[m])

\* A market whose ticks are stored gets its outcome, past any number of aborted
\* passes short of for ever.
EventuallyResolved ==
  \A m \in Market :
    (StrikeTicks(m) # {} /\ CloseTicks(m) # {} /\ now >= End[m] + Grace)
      ~> row[m].close # None

\* README:41: the database "can be shared between dev and prod containers
\* safely": a recorded outcome does not change, whoever else resolves.
OutcomeFinal ==
  [][\A m \in Market : row[m].close # None => row'[m].up = row[m].up]_vars

\* resolver.py:23 waits "past window_end before snapping close_price (lets late
\* ticks land)": when every capture and flush succeeds, the tick recorded as the
\* close is not one that an earlier-or-equal nearer tick lands after.
GraceLetsTicksLand ==
  misses = 0 =>
    \A m \in Market : row[m].close # None =>
      \A t \in spot : t <= End[m] =>
        Distance(row[m].close, End[m]) <= Distance(t, End[m])
=============================================================================
