------------------------------- MODULE Ingest -------------------------------
(***************************************************************************)
(* From what happens on an exchange to the rows handed to the BatchWriter: *)
(* one connection of CLOBClient, RTDSClient or BinanceSpotClient, message  *)
(* by message.  The three share their run loop; they differ in what the    *)
(* server sends and in how a message is dispatched.                        *)
(*                                                                         *)
(* The exchange's clock counts milliseconds, Kilo of them to a second, and *)
(* powers of Kilo stand for powers of a thousand, Epoch for the decades    *)
(* since 1970.  A message carries its time as a number in a unit that the  *)
(* client has to guess from its magnitude; no two events happen in one     *)
(* millisecond.  Subscriptions are MarketFeed's subject and constant here. *)
(***************************************************************************)
EXTENDS Integers, SequencesExt

CONSTANTS Token, Price,
          Kilo, Epoch,
          Milli, Micro, Nano,   \* the thresholds of _parse_ts
          None,
          MaxEvents, MaxDrops, MaxBad   \* bounds

ASSUME UnitAssumption ==
  /\ {Kilo, Epoch, Milli, Micro, Nano} \subseteq Nat \ {0}
  /\ MaxEvents \in Nat /\ MaxDrops \in Nat /\ MaxBad \in Nat
ASSUME EpochAssumption == Epoch % Kilo = 0
\* A price is at most a dollar.
ASSUME PriceAssumption ==
  /\ Price \subseteq Nat /\ None \notin Nat
  /\ \E p \in Price : \A q \in Price : q <= p
ASSUME TokenAssumption == IsFiniteSet(Token)

MaxClock == MaxEvents + MaxEvents + MaxDrops + MaxBad + 1  \* events and messages

\* The ranges of the units are apart, as they are for the times of our decades.
ASSUME RangeAssumption ==
  LET End == Epoch + MaxClock IN
  /\ End \div Kilo <= Milli /\ Milli < Epoch
  /\ End <= Micro /\ Micro < Epoch * Kilo
  /\ End * Kilo <= Nano /\ Nano < Epoch * Kilo * Kilo

VARIABLES
  client,    \* whose connection this is
  unit,      \* what its messages count time in
  clock,
  levels,    \* the exchange's books: the prices with a size, per token and side
  past,      \* history: every top a token's book had, and since when
  made,      \* history: the instants of the trades
  conn,      \* "up", "down", or "off" for good
  since,     \* history: when the connection came up
  wire,      \* messages in flight
  quotes, trades, ticks,  \* what add_book, add_trade and add_spot were given
  damage,    \* history: what was sent so that it is not read as it was meant
  events, drops, bad

exchange == <<levels, past, made>>
rows == <<quotes, trades, ticks>>
vars == <<client, unit, clock, exchange, conn, since, wire, rows, damage, events, drops,
          bad>>

Side == {"bid", "ask"}
Units == {"s", "ms", "us", "ns", "none"}
Top == [Side -> Price \cup {None}]

TypeOK ==
  /\ client \in {"clob", "rtds", "binance"}
  /\ unit \in Units
  /\ clock \in 0..MaxClock
  /\ levels \in [Token -> [Side -> SUBSET Price]]
  /\ past \subseteq [token : Token, at : 0..MaxClock, top : Top]
  /\ made \subseteq 0..MaxClock
  /\ conn \in {"up", "down", "off"}
  /\ since \in 0..MaxClock
  /\ conn # "up" => wire = <<>>
  /\ quotes \subseteq [token : Token, ts : 0..MaxClock, at : 0..MaxClock, top : Top]
  /\ trades \subseteq [ts : 0..MaxClock, at : 0..MaxClock]
  /\ ticks \in [0..MaxClock -> (0..MaxClock) \cup {None}]
  /\ damage \subseteq [about : Token \cup {None}, at : 0..MaxClock,
                       flaw : {"unread", "undated", "garbled"}]
  /\ events \in 0..MaxEvents /\ drops \in 0..MaxDrops /\ bad \in 0..MaxBad
-----------------------------------------------------------------------------
(* Parsing *)

\* The highest bid, the lowest ask, of the levels whose price and size convert
\* and that have a size.
TopOfBook(depth, side) ==
  LET prices == {l.price : l \in {k \in depth : k.price # None /\ k.size > 0}} IN
  IF prices = {} THEN None ELSE IF side = "bid" THEN Max(prices) ELSE Min(prices)

\* What a message from instant t says its time is.
Stamp(t) == CASE unit = "s" -> (Epoch + t) \div Kilo
              [] unit = "ms" -> Epoch + t
              [] unit = "us" -> (Epoch + t) * Kilo
              [] unit = "ns" -> (Epoch + t) * Kilo * Kilo
              [] unit = "none" -> None

\* Variant: microseconds are not thought of.
ParseTsNoMicro(v) ==
  IF v > Nano THEN v \div (Kilo * Kilo) ELSE IF v > Milli THEN v ELSE v * Kilo

\* The unit is told by the magnitude.
ParseTs(v) == IF v > Nano THEN v \div (Kilo * Kilo) ELSE IF v > Micro THEN v \div Kilo
              ELSE IF v > Milli THEN v ELSE v * Kilo

\* The time an item is recorded with: its own, or the present when it has none
\* or a string that is none, also if its envelope has: the fallback is a
\* datetime, which _parse_ts does not recognise.
RecordedAt(stamp) == IF stamp = None THEN clock + 1 ELSE ParseTs(stamp) - Epoch
-----------------------------------------------------------------------------
(* The exchange *)

BestOf(prices, side) ==
  IF prices = {} THEN None ELSE IF side = "bid" THEN Max(prices) ELSE Min(prices)

TopIn(lv, tok) == [side \in Side |-> BestOf(lv[tok][side], side)]

Depth(tok, side) ==
  {[price |-> p, size |-> IF p \in levels[tok][side] THEN 1 ELSE 0] : p \in Price}

\* An item says its time in stamp; at is when it was so, which no client reads.
Book(tok) == [kind |-> "book", token |-> tok, at |-> clock, stamp |-> Stamp(clock),
              depth |-> [side \in Side |-> Depth(tok, side)]]

Init ==
  /\ client \in {"clob", "rtds", "binance"}
  /\ unit \in IF client = "binance" THEN {"ms"} ELSE Units
  /\ clock = 0
  /\ levels = [tok \in Token |-> [side \in Side |->
                 {IF side = "bid" THEN Min(Price) ELSE Max(Price)}]]
  /\ past = {[token |-> tok, at |-> 0, top |-> TopIn(levels, tok)] : tok \in Token}
  /\ made = {}
  /\ conn = "down" /\ since = 0 /\ wire = <<>>
  /\ quotes = {} /\ trades = {}
  /\ ticks = [s \in 0..MaxClock |-> None]
  /\ damage = {} /\ events = 0 /\ drops = 0 /\ bad = 0

\* Kinds that are recorded, and known.  A price_change is skipped on purpose.
Quoted == {"book", "best_bid_ask"}
Dated == Quoted \cup {"trade"}

Harm(e, flaw) == [about |-> IF e.kind = "trade" THEN None ELSE e.token,
                  at |-> e.at, flaw |-> flaw]

\* One side of e's prices does not convert, or one level of its book.
Garbled(e) ==
  CASE e.kind = "best_bid_ask" -> {[e EXCEPT !.top[side] = None] : side \in Side}
    [] e.kind = "book" ->
         UNION {{[e EXCEPT !.depth[side] = (@ \ {l}) \cup {[l EXCEPT !.price = None]}] :
                   l \in {k \in e.depth[side] : k.size > 0}} : side \in Side}
    [] OTHER -> {}

\* Items that are no dicts, lack an asset_id or the price, or, of Binance, a time
\* or price that converts, and frames that are no JSON: nobody notices.
SendUnread(messages, msg) ==
  \E lost \in (SUBSET (1..Len(msg))) \ {{}} :
    /\ wire' = Append(messages, [i \in 1..Len(msg) |->
                 IF i \in lost THEN [kind |-> "unread"] ELSE msg[i]])
    /\ damage' = damage \cup {Harm(msg[i], "unread") :
                              i \in {j \in lost : msg[j].kind \in Dated}}

\* Items that are recorded, but not as they were meant.
SendFlawed(messages, msg) ==
  /\ client # "binance"
  /\ \E i \in {j \in 1..Len(msg) : msg[j].kind \in Dated} :
       \/ /\ unit # "none"
          /\ wire' = Append(messages, [msg EXCEPT ![i].stamp = None])
          /\ damage' = damage \cup {Harm(msg[i], "undated")}
       \/ \E e \in Garbled(msg[i]) :
            /\ wire' = Append(messages, [msg EXCEPT ![i] = e])
            /\ damage' = damage \cup {Harm(msg[i], "garbled")}

\* Items whose handler raises: a level that is no dict, a time out of datetime's
\* range, or for Binance a frame that is no UTF-8 or no dict.
SendRaising(messages, msg) ==
  \E i \in 1..Len(msg) :
    /\ wire' = Append(messages, [msg EXCEPT ![i] = [kind |-> "raises"]])
    /\ UNCHANGED damage

\* A message arrives as it was meant, or not quite.
Send(messages, msg) ==
  \/ wire' = Append(messages, msg) /\ UNCHANGED <<damage, bad>>
  \/ /\ bad < MaxBad
     /\ bad' = bad + 1
     /\ \/ SendUnread(messages, msg)
        \/ SendFlawed(messages, msg)
        \/ SendRaising(messages, msg)

\* Whoever is not connected is told nothing.
Emit(msg) == IF conn = "up" THEN Send(wire, msg) ELSE UNCHANGED <<wire, damage, bad>>

Event == /\ events < MaxEvents
         /\ events' = events + 1
         /\ clock' = clock + 1

\* An order comes or goes at one price.  A new top is announced once more, with a
\* best_bid_ask event.
Change(tok, side, p) ==
  /\ client = "clob"
  /\ Event
  /\ levels' = [levels EXCEPT ![tok][side] =
                  IF p \in @ THEN @ \ {p} ELSE @ \cup {p}]
  /\ \A b \in levels'[tok]["bid"] : \A a \in levels'[tok]["ask"] : b < a
  /\ LET top == TopIn(levels', tok)
         change == [kind |-> "price_change"] IN
     \/ /\ top = TopIn(levels, tok)
        /\ Emit(<<change>>)
        /\ UNCHANGED past
     \/ /\ top # TopIn(levels, tok)
        /\ Emit(<<change, [kind |-> "best_bid_ask", token |-> tok, at |-> clock',
                           stamp |-> Stamp(clock'), top |-> top]>>)
        /\ past' = past \cup {[token |-> tok, at |-> clock', top |-> top]}
  /\ UNCHANGED <<client, unit, made, conn, since, rows, drops>>

Trade ==
  /\ Event
  /\ made' = made \cup {clock'}
  /\ Emit(<<[kind |-> "trade", at |-> clock', stamp |-> Stamp(clock')]>>)
  /\ UNCHANGED <<client, unit, levels, past, conn, since, rows, drops>>
-----------------------------------------------------------------------------
(* The client *)

\* What comes before the item whose dispatch raises.
Readable(msg) ==
  {msg[i] : i \in {j \in 1..Len(msg) : \A k \in 1..j : msg[k].kind # "raises"}}

Raises(msg) == \E i \in 1..Len(msg) : msg[i].kind = "raises"

QuoteOf(e) == [token |-> e.token, ts |-> RecordedAt(e.stamp), at |-> e.at,
               top |-> IF e.kind = "best_bid_ask" THEN e.top
                       ELSE [side \in Side |-> TopOfBook(e.depth[side], side)]]

\* Seconds of milliseconds, rounded down.
FloorToSec(v) == v \div Kilo

TickOf(e) == FloorToSec(e.stamp) - Epoch \div Kilo

\* last_trade_price of the book client, an activity of the trades client.
TradesOf(sold) == {[ts |-> RecordedAt(e.stamp), at |-> e.at] : e \in sold}

\* add_book, add_trade and add_spot; of a second's ticks btc_spot keeps the first.
Record(items) ==
  LET sold == {e \in items : e.kind = "trade"} IN
  /\ quotes' = quotes \cup {QuoteOf(e) : e \in {x \in items : x.kind \in Quoted}}
  /\ trades' = IF client = "binance" THEN trades
               ELSE trades \cup TradesOf(sold)
  /\ ticks' = IF client # "binance" THEN ticks
              ELSE [s \in DOMAIN ticks |->
                      IF ticks[s] = None /\ \E e \in sold : TickOf(e) = s
                      THEN (CHOOSE e \in sold : TickOf(e) = s).at ELSE ticks[s]]

\* The handler raised or the socket did: run_forever logs it, sleeps, goes on.
AfterErrorOff == "off"  \* Variant: the exception ends the loop.

AfterError == "down"

\* Variant: messages that had arrived are still there after the reconnect.
DisconnectKeeping == conn' = AfterError /\ UNCHANGED wire

Disconnect == conn' = AfterError /\ wire' = <<>>

\* Variant: the exception is handled message by message.
BreakNot == wire' = Tail(wire) /\ UNCHANGED conn

\* The exception ends _run_once.
Break == Disconnect

\* async for raw in ws: the items of one message, in their order.
Receive ==
  /\ conn = "up" /\ wire # <<>>
  /\ clock' = clock + 1
  /\ Record(Readable(Head(wire)))
  /\ \/ ~Raises(Head(wire)) /\ wire' = Tail(wire) /\ UNCHANGED conn
     \/ Raises(Head(wire)) /\ Break
  /\ UNCHANGED <<client, unit, exchange, since, damage, events, drops, bad>>

Drop ==
  /\ conn = "up"
  /\ drops < MaxDrops
  /\ drops' = drops + 1
  /\ Disconnect
  /\ UNCHANGED <<client, unit, clock, exchange, since, rows, damage, events, bad>>

\* run_forever after its sleep.  The initial frame is answered with a book per
\* token; trades are not repeated.
Connect ==
  /\ conn = "down"
  /\ conn' = "up"
  /\ since' = clock
  /\ \/ client = "clob" /\ Send(<<>>, SetToSeq({Book(tok) : tok \in Token}))
     \/ client # "clob" /\ UNCHANGED <<wire, damage, bad>>
  /\ UNCHANGED <<client, unit, clock, exchange, rows, events, drops>>

Next == \/ \E tok \in Token, side \in Side, p \in Price : Change(tok, side, p)
        \/ Trade
        \/ Receive
        \/ Drop \/ Connect

Spec == Init /\ [][Next]_vars

\* The event loop reads what arrived, and sleeps end.
LiveSpec == Spec /\ WF_vars(Receive) /\ WF_vars(Connect)
-----------------------------------------------------------------------------
(* Properties *)

TopAt(tok, t) ==
  LET tops == {p \in past : p.token = tok /\ p.at <= t} IN
  (CHOOSE p \in tops : \A q \in tops : q.at <= p.at).top

\* When the exchange last told of tok, with a book or a new top.
Told(tok) == Max({since} \cup {p.at : p \in {x \in past : x.token = tok}})

\* The time a row has right, of something that was so at instant at.
RightTime(ts, at) == CASE unit = "none" -> at < ts
                       [] unit = "s" -> ts = Kilo * (at \div Kilo)
                       [] OTHER -> ts = at

\* The quotes of tok, as a reader orders them, end with the top of its book, if in
\* whole seconds not with that alone.
Current(tok) ==
  LET newest == {q \in quotes : /\ q.token = tok
                                /\ \A r \in quotes : r.token = tok => r.ts <= q.ts}
  IN  /\ \E q \in newest : q.top = TopIn(levels, tok)
      /\ unit # "s" => \A q \in newest : q.top = TopIn(levels, tok)

\* What was told last of tok could not be read, or a quote with the wrong time is
\* ahead of it.
Excused(tok) ==
  \/ \E d \in damage : /\ d.about = tok /\ d.flaw # "undated"
                       /\ d.at >= Told(tok)
  \/ \E q \in quotes : /\ q.token = tok /\ ~RightTime(q.ts, q.at)
                       /\ q.ts > Told(tok) - (IF unit = "s" THEN Kilo ELSE 1)

Flawed(about, at, flaw) == [about |-> about, at |-> at, flaw |-> flaw] \in damage

Unread(t) == Flawed(None, t, "unread")

\* A client that has read all it was sent has missed nothing since it connected
\* but what it skipped: the last recorded quote of every token is the top of the
\* exchange's book, although price_change events are dropped, handlers raise
\* half-way and messages are lost with their connection, and a quote that was
\* skipped or misread is made good by the next one; every trade has its row,
\* every second with Binance trades the first of them.
CaughtUp ==
  conn = "up" /\ wire = <<>> =>
    /\ client = "clob" => \A tok \in Token : Current(tok) \/ Excused(tok)
    /\ client # "binance" =>
         \A t \in made : t > since => Unread(t) \/ \E r \in trades : r.at = t
    /\ client = "binance" =>
         \A t \in made : t > since =>
           LET tick == ticks[t \div Kilo] IN Unread(t) \/ (tick # None /\ tick <= t)

NoBetter(top, was) ==
  /\ top["bid"] # None => was["bid"] # None /\ top["bid"] <= was["bid"]
  /\ top["ask"] # None => was["ask"] # None /\ top["ask"] >= was["ask"]

\* A recorded row was so at its time, whatever unit the exchange counts in: a
\* quote was the top then, a trade was made then, a tick within its second.
\* Without a time in the message, or with one that is none, it was so before; and
\* what does not convert never makes a quote better than the top was.
RowsAreTrue ==
  /\ \A q \in quotes :
       LET was == TopAt(q.token, q.at) IN
       /\ q.top = was \/ (Flawed(q.token, q.at, "garbled") /\ NoBetter(q.top, was))
       /\ RightTime(q.ts, q.at) \/ (Flawed(q.token, q.at, "undated") /\ q.at < q.ts)
  /\ \A r \in trades :
       /\ r.at \in made
       /\ RightTime(r.ts, r.at) \/ (Flawed(None, r.at, "undated") /\ r.at < r.ts)
  /\ \A s \in DOMAIN ticks : ticks[s] # None => ticks[s] \div Kilo = s

\* Once the exchange is quiet and nothing breaks any more, every client is
\* connected and has read everything, so that CaughtUp applies.
EventuallyCaughtUp == <>[](conn = "up" /\ wire = <<>>)
=============================================================================
