------------------------------ MODULE Strategy ------------------------------
(***************************************************************************)
(* One market through the back-tester: its row of the dataset (sql.py),    *)
(* and what _build_trade_row and _walk_retries (core.py) make of it: the   *)
(* side, the gates, the retry walk, a trade or the reason for none.        *)
(*                                                                         *)
(* Time is counted in instants, Second of them to a second, from t_entry;  *)
(* the window ends at X seconds.  Prices are cents, One of them a dollar.  *)
(* Payoffs are left out: they are arithmetic on the result.                *)
(***************************************************************************)
EXTENDS Integers

CONSTANTS X,        \* x_sec
          Second,   \* instants in a second
          One,      \* cents in a dollar
          Instant,  \* when quotes may be made
          Input,    \* <<market, parameters>> to start from
          None

ASSUME UnitAssumption ==
  /\ X \in Nat \ {0}
  /\ Second \in Nat \ {0}
  /\ One \in Nat \ {0}
  /\ Instant \subseteq Int

Side == {"Up", "Down"}
Quote == [ts : Instant, bid : 0..One, ask : 0..One]

\* The ages are rounded to seconds; whatever is None is NULL in the row.
Inputs == [spotAge : Nat \cup {None}, strikeAge : Nat \cup {None},
           above : BOOLEAN, pct : (0..100) \cup {None}]

Params == [signal : {"spot_vs_strike", "pm_price"}, minAsk : Nat, retry : BOOLEAN,
           interval : Nat, maxBook : Nat, maxSpot : Nat, minAgreement : Nat]

ASSUME InputAssumption ==
  /\ Input \subseteq [book : [Side -> SUBSET Quote], inputs : Inputs] \X Params
  /\ \A in \in Input : \A k \in Side : \A p, q \in in[1].book[k] : p.ts = q.ts => p = q

ASSUME NoneAssumption == None \notin Quote /\ None \notin Int /\ None \notin Side

VARIABLES
  book,     \* the quotes of each side's token that have a bid and an ask
  inputs,   \* spot_age, strike_age, above (spot >= strike), pct_above
  params,   \* what the sidebar sets
  pc,       \* where _build_trade_row is
  side,
  attempt,  \* attempt_sec
  bought,   \* the quote that was bought, None so far
  reason    \* skip_reason, "" for a trade

vars == <<book, inputs, params, pc, side, attempt, bought, reason>>

TypeOK ==
  /\ book \in [Side -> SUBSET Quote]
  /\ inputs \in Inputs
  /\ params \in Params
  /\ pc \in {"decide", "gates", "first", "walk", "done"}
  /\ side \in Side \cup {None}
  /\ attempt \in 0..(X - 1 + params.interval)
  /\ bought \in Quote \cup {None}
  /\ reason \in {"", "no_data", "stale", "bad_price", "price_too_low", "low_agreement"}

Init ==
  /\ \E in \in Input : /\ book = in[1].book
                       /\ inputs = in[1].inputs
                       /\ params = in[2]
  /\ pc = "decide"
  /\ side = None
  /\ attempt = 0
  /\ bought = None
  /\ reason = ""

given == <<book, inputs, params>>
-----------------------------------------------------------------------------
(* The dataset *)

SecondOf(t) == t \div Second

\* EXTRACT(EPOCH FROM ...)::int rounds to the nearest second.
Seconds(d) == (2 * d + Second) \div (2 * Second)

Newest(quotes) ==
  IF quotes = {} THEN None
  ELSE CHOOSE q \in quotes : \A p \in quotes : p.ts <= q.ts

\* The lookup at t_entry, and its staleness.
Entry(k) == Newest({q \in book[k] : q.ts <= 0})
BookAge(k) == Seconds(0 - Entry(k).ts)

\* One row per second of [t_entry, window_end], the last of the second.
History(k) ==
  LET during == {q \in book[k] : q.ts >= 0 /\ q.ts <= X * Second} IN
  {q \in during : \A p \in during : SecondOf(p.ts) = SecondOf(q.ts) => p.ts <= q.ts}
-----------------------------------------------------------------------------
(* _decide_side *)

Skip(why) == /\ reason' = why
             /\ pc' = "done"
             /\ UNCHANGED bought

\* Twice the mid, if there is a book.
Mid(k) == IF Entry(k) = None THEN None ELSE Entry(k).bid + Entry(k).ask

\* Variant: without an Up book the side that is quoted high is not the pick.
ByPriceOneSided(up, dn) ==
  IF dn = None THEN IF up > One THEN "Up" ELSE "Down"
  ELSE IF up = None THEN IF dn > One THEN "Up" ELSE "Down"
  ELSE IF up >= dn THEN "Up" ELSE "Down"

\* PM_PRICE with a mid on one side at least.
ByPrice(up, dn) ==
  IF up = None THEN IF dn > One THEN "Down" ELSE "Up"
  ELSE IF dn = None THEN IF up > One THEN "Up" ELSE "Down"
  ELSE IF up >= dn THEN "Up" ELSE "Down"

SpotKnown == inputs.spotAge # None /\ inputs.strikeAge # None

Decidable == IF params.signal = "spot_vs_strike"
             THEN SpotKnown
             ELSE \E k \in Side : Mid(k) # None

DecideSide ==
  /\ pc = "decide"
  /\ UNCHANGED <<given, attempt>>
  /\ \/ /\ ~Decidable
        /\ Skip("no_data")
        /\ UNCHANGED side
     \/ /\ Decidable
        /\ side' = IF params.signal = "pm_price" THEN ByPrice(Mid("Up"), Mid("Down"))
                   ELSE IF inputs.above THEN "Up" ELSE "Down"
        /\ pc' = "gates"
        /\ UNCHANGED <<bought, reason>>
-----------------------------------------------------------------------------
(* The gates of _build_trade_row, in its order *)

Agreement == IF side = "Up" THEN inputs.pct ELSE 100 - inputs.pct

SpotStale == /\ params.signal = "spot_vs_strike"
             /\ \/ inputs.strikeAge > params.maxSpot
                \/ inputs.spotAge > params.maxSpot

Disagrees == inputs.pct # None /\ Agreement < params.minAgreement

\* Variant: the age of the other side's book is looked at.
BookStaleOther == \E k \in Side \ {side} :
                    Entry(k) # None /\ BookAge(k) > params.maxBook

BookStale == BookAge(side) > params.maxBook

Gate ==
  IF ~SpotKnown THEN "no_data"
  ELSE IF SpotStale THEN "stale"
  ELSE IF Disagrees THEN "low_agreement"
  ELSE IF Entry(side) = None THEN "no_data"
  ELSE IF Entry(side).ask <= 0 THEN "no_data"
  ELSE IF BookStale THEN "stale"
  ELSE ""

Gates ==
  /\ pc = "gates"
  /\ UNCHANGED <<given, side, attempt>>
  /\ \/ Gate # "" /\ Skip(Gate)
     \/ Gate = "" /\ pc' = "first" /\ UNCHANGED <<bought, reason>>
-----------------------------------------------------------------------------
(* _walk_retries *)

Qualifies(q) == q # None /\ q.ask >= params.minAsk

\* The trade, unless the price is a dollar.
Buy(q) == IF q.ask >= One THEN Skip("bad_price")
          ELSE /\ bought' = q
               /\ reason' = ""
               /\ pc' = "done"

\* Variant: an interval of zero is not refused.
RetryAnyInterval == params.retry /\ History(side) # {}

Retry == params.retry /\ params.interval > 0 /\ History(side) # {}

\* Attempt 0, with the quote of the dataset.
First ==
  /\ pc = "first"
  /\ UNCHANGED <<given, side>>
  /\ IF Qualifies(Entry(side))
     THEN Buy(Entry(side)) /\ UNCHANGED attempt
     ELSE IF Retry
     THEN /\ attempt' = params.interval
          /\ pc' = "walk"
          /\ UNCHANGED <<bought, reason>>
     ELSE Skip("price_too_low") /\ UNCHANGED attempt

\* Variants: the history row of the attempt's second only; any row of the
\* second after it.
SnapshotExact(a) == Newest({q \in History(side) : SecondOf(q.ts) = a})

SnapshotNext(a) == Newest({q \in History(side) : SecondOf(q.ts) <= a + 1})

\* The last history row with sec <= attempt_sec.
Snapshot(a) == Newest({q \in History(side) : SecondOf(q.ts) <= a})

\* Variant: the interval doubles.
NextAttemptDoubles(a) == 2 * a

NextAttempt(a) == a + params.interval

\* One turn of the loop; X - 1 is the last second an attempt may be made in.
Attempt ==
  /\ pc = "walk"
  /\ UNCHANGED <<given, side>>
  /\ IF attempt > X - 1
     THEN Skip("price_too_low") /\ UNCHANGED attempt
     ELSE IF Qualifies(Snapshot(attempt))
     THEN Buy(Snapshot(attempt)) /\ UNCHANGED attempt
     ELSE /\ attempt' = NextAttempt(attempt)
          /\ UNCHANGED <<pc, bought, reason>>

Next == DecideSide \/ Gates \/ First \/ Attempt

Spec == Init /\ [][Next]_vars

\* The function runs.
LiveSpec == Spec /\ WF_vars(Next)
-----------------------------------------------------------------------------
(* Properties *)

Traded == pc = "done" /\ bought # None

\* What is known of the side's book at second a, from all of its quotes.
KnownBy(a) == Newest({q \in book[side] : SecondOf(q.ts) <= a})

Attempts == {0} \cup (IF params.retry /\ params.interval > 0
                      THEN {a \in 1..(X - 1) : a % params.interval = 0} ELSE {})

Good(a) == Qualifies(IF a = 0 THEN Entry(side) ELSE KnownBy(a))

\* The walk over the clipped, subsampled history buys at the first of the
\* planned attempts at which the whole book qualifies, and reports
\* "price_too_low" only if there is none.
FirstGoodAttempt ==
  /\ Traded => /\ attempt \in Attempts /\ Good(attempt)
               /\ \A a \in Attempts : a < attempt => ~Good(a)
  /\ pc = "done" /\ reason = "price_too_low" => \A a \in Attempts : ~Good(a)

\* Whatever is bought was quoted before the window closed, within a second of
\* the attempt, and at t_entry itself not after it.
BoughtInTime ==
  Traded => /\ bought.ts < (attempt + 1) * Second
            /\ bought.ts < X * Second
            /\ attempt = 0 => bought.ts <= 0

\* The staleness threshold is tested at t_entry only; a retry nevertheless
\* never buys a quote older than the attempt before it.
BoughtFresh ==
  Traded => IF attempt = 0
            THEN 2 * (0 - bought.ts) < (2 * params.maxBook + 1) * Second
            ELSE bought.ts > (attempt - params.interval) * Second

\* PM_PRICE treats the sides alike: with the books exchanged it would have
\* picked the other side, but for a tie.
Mirror ==
  side # None /\ params.signal = "pm_price" /\ Mid("Up") # Mid("Down")
    => side # ByPrice(Mid("Down"), Mid("Up"))

\* The walk ends for every interval, also one of zero.
Terminates == <>(pc = "done")
=============================================================================
