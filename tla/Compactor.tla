----------------------------- MODULE Compactor -----------------------------
(***************************************************************************)
(* compactor.py: the quotes of a market older than COMPACT_AGE_DAYS are    *)
(* replaced by one row per token and second, in one transaction per        *)
(* market, while the collector goes on inserting quotes of newer ones.     *)
(*                                                                         *)
(* Time is counted in instants, Second of them to a second.  A Row is one  *)
(* raw quote; the 'compact' row made from it carries its prices and the    *)
(* start of its second, so it is represented by that raw row.              *)
(***************************************************************************)
EXTENDS Integers, FiniteSets

CONSTANTS Market, Start, End,  \* window_start and window_end of each market
          Token, MarketOf,     \* each token and the market it belongs to
          Row, TokenOf, TsOf,  \* the quotes the feed can deliver
          Quoted,              \* those with a best_bid and a best_ask
          Second,              \* instants in a second
          Before, After,       \* 5 s, 30 s: what belongs to a market
          Age,                 \* COMPACT_AGE_DAYS
          Late,                \* how long a quote is under way
          Batch,               \* BATCH_SIZE
          Worker,              \* compactor tasks on this database
          Poison,              \* markets whose transaction never succeeds
          None,
          MaxTime,             \* bound: the last moment
          MaxAborts            \* bound: other transactions that fail, crashes

ASSUME WindowAssumption ==
  /\ Start \in [Market -> Nat] /\ End \in [Market -> Nat]
  /\ MarketOf \in [Token -> Market]
  /\ TokenOf \in [Row -> Token] /\ TsOf \in [Row -> Nat]
  /\ Quoted \subseteq Row /\ Poison \subseteq Market
ASSUME DurationAssumption ==
  /\ Second \in Nat \ {0}
  /\ {Before, After, Age, Late, Batch} \subseteq Nat
  /\ After + Late < Age
  /\ \A m \in Market : (Start[m] - Before) % Second = 0 /\ End[m] % Second = 0
ASSUME BoundsAssumption == MaxTime \in Nat /\ MaxAborts \in Nat
ASSUME OldestAssumption == \A m, n \in Market : End[m] = End[n] => m = n
ASSUME NoneAssumption == None \notin Market

VARIABLES
  now,
  raw,      \* pm_book: the rows that are not 'compact'
  copies,   \* pm_book: how many 'compact' rows each compactor made from each
            \* raw row
  stamped,  \* the markets with a compacted_at
  arrived,  \* history: the rows the feed inserted
  pc,       \* where each compactor is
  todo,     \* ... the markets its pass fetched and has not processed
  ins,      \* ... its uncommitted 'compact' rows
  del,      \* ... the rows it deleted (and locked), uncommitted
  aborts

book == <<raw, copies, stamped>>
workers == <<pc, todo, ins, del>>
vars == <<now, book, arrived, workers, aborts>>

TypeOK ==
  /\ now \in 0..MaxTime
  /\ raw \subseteq Row /\ arrived \subseteq Row
  /\ copies \in [Worker -> [Row -> Nat]]
  /\ stamped \subseteq Market
  /\ pc \in [Worker -> {"sleep", "insert", "delete", "stamp", "commit"}]
  /\ todo \in [Worker -> SUBSET Market]
  /\ ins \in [Worker -> SUBSET Row] /\ del \in [Worker -> SUBSET Row]
  /\ aborts \in 0..MaxAborts

Init ==
  /\ now = 0
  /\ raw = {} /\ arrived = {} /\ stamped = {}
  /\ copies = [w \in Worker |-> [r \in Row |-> 0]]
  /\ pc = [w \in Worker |-> "sleep"]
  /\ todo = [w \in Worker |-> {}]
  /\ ins = [w \in Worker |-> {}] /\ del = [w \in Worker |-> {}]
  /\ aborts = 0
-----------------------------------------------------------------------------
(* The feed *)

\* A quote reaches pm_book within Late of its timestamp, or never.
Arrive(r) ==
  /\ r \notin arrived
  /\ TsOf[r] <= now /\ now <= TsOf[r] + Late
  /\ raw' = raw \cup {r}
  /\ arrived' = arrived \cup {r}
  /\ UNCHANGED <<now, copies, stamped, workers, aborts>>

Pass == /\ now < MaxTime
        /\ now' = now + 1
        /\ UNCHANGED <<book, arrived, workers, aborts>>
-----------------------------------------------------------------------------
(* The compactor *)

SecondOf(t) == t \div Second

\* The rows of a market's tokens in [window_start - 5s, window_end + 30s].
Scope(m) ==
  {r \in Row : /\ MarketOf[TokenOf[r]] = m
               /\ TsOf[r] >= Start[m] - Before
               /\ TsOf[r] <= End[m] + After}

\* window_end < NOW() - make_interval(days => 7)
Old(m) == End[m] + Age < now

Eligible == {m \in Market : m \notin stamped /\ Old(m)}

\* ORDER BY window_end ASC LIMIT 20
Fetch ==
  {m \in Eligible : Cardinality({n \in Eligible : End[n] < End[m]}) < Batch}

\* A pass begins, after the sleep or at once when the last one was full; with
\* nothing to do it is over.
FetchMarkets(w) ==
  /\ pc[w] = "sleep"
  /\ Fetch # {}
  /\ todo' = [todo EXCEPT ![w] = Fetch]
  /\ pc' = [pc EXCEPT ![w] = "insert"]
  /\ UNCHANGED <<now, book, arrived, ins, del, aborts>>

\* The market the pass is at.
Current(w) == CHOOSE m \in todo[w] : \A n \in todo[w] : End[m] <= End[n]

\* Variant: DISTINCT ON the second only.
SameSecondAnyToken(r, s) == SecondOf(TsOf[r]) = SecondOf(TsOf[s])

SameSecond(r, s) ==
  TokenOf[r] = TokenOf[s] /\ SecondOf(TsOf[r]) = SecondOf(TsOf[s])

\* The quotes that no other of their token and second is later than.
Latest(rows) ==
  {r \in rows \cap Quoted :
     \A s \in rows \cap Quoted : SameSecond(r, s) => TsOf[s] <= TsOf[r]}

\* Variants: no DISTINCT; the seconds without the rows.
SelectionsAll(rows) == {rows \cap Quoted}

SelectionsSeconds(rows) == {{SecondOf(TsOf[r]) : r \in rows \cap Quoted}}

\* DISTINCT ON (date_trunc('second', ts), token_id) ... ORDER BY ts DESC: one
\* of the latest quotes of each token and second, any one of a tie.
Selections(rows) ==
  {sel \in SUBSET Latest(rows) :
     \A r \in Latest(rows) :
       \E s \in sel : \A x \in sel : SameSecond(r, x) <=> x = s}

InsertCompact(w) ==
  /\ pc[w] = "insert"
  /\ \E sel \in Selections(raw \cap Scope(Current(w))) :
       ins' = [ins EXCEPT ![w] = sel]
  /\ pc' = [pc EXCEPT ![w] = "delete"]
  /\ UNCHANGED <<now, book, arrived, todo, del, aborts>>

\* A statement of its own, with its own snapshot.  It waits for the rows that
\* another transaction has deleted; committed, they are gone for it too.
DeleteOriginals(w) ==
  LET originals == raw \cap Scope(Current(w)) IN
  /\ pc[w] = "delete"
  /\ \A v \in Worker \ {w} : del[v] \cap originals = {}
  /\ del' = [del EXCEPT ![w] = originals]
  /\ pc' = [pc EXCEPT ![w] = "stamp"]
  /\ UNCHANGED <<now, book, arrived, todo, ins, aborts>>

\* The stamp locks the market's row.
Stamp(w) ==
  /\ pc[w] = "stamp"
  /\ \A v \in Worker \ {w} : pc[v] = "commit" => Current(v) # Current(w)
  /\ pc' = [pc EXCEPT ![w] = "commit"]
  /\ UNCHANGED <<now, book, arrived, todo, ins, del, aborts>>

\* The transaction is over, and so is the market for this pass.
NextMarket(w) ==
  LET rest == todo[w] \ {Current(w)} IN
  /\ todo' = [todo EXCEPT ![w] = rest]
  /\ pc' = [pc EXCEPT ![w] = IF rest = {} THEN "sleep" ELSE "insert"]
  /\ ins' = [ins EXCEPT ![w] = {}]
  /\ del' = [del EXCEPT ![w] = {}]

\* What the transaction did to the database.
Applied(w) ==
  /\ raw' = raw \ del[w]
  /\ copies' = [copies EXCEPT ![w] =
       [r \in Row |-> IF r \in ins[w] THEN copies[w][r] + 1 ELSE copies[w][r]]]
  /\ stamped' = stamped \cup {Current(w)}

\* Whether the answer to the COMMIT arrives makes no difference to the pass.
Commit(w) ==
  /\ pc[w] = "commit" /\ Current(w) \notin Poison
  /\ Applied(w)
  /\ NextMarket(w)
  /\ UNCHANGED <<now, arrived, aborts>>

\* Variant of Undone: get_conn's connection commits each statement.
UndoneNot(w) ==
  /\ raw' = raw \ del[w]
  /\ copies' = [copies EXCEPT ![w] =
       [r \in Row |-> IF r \in ins[w] THEN copies[w][r] + 1 ELSE copies[w][r]]]
  /\ UNCHANGED stamped

\* Rolled back.
Undone(w) == UNCHANGED book

\* Variant: the try is around the loop.
PassEnds(w) ==
  /\ todo' = [todo EXCEPT ![w] = {}]
  /\ pc' = [pc EXCEPT ![w] = "sleep"]
  /\ ins' = [ins EXCEPT ![w] = {}]
  /\ del' = [del EXCEPT ![w] = {}]

\* compact_once logs the exception and goes on.
Logged(w) == NextMarket(w)

\* A statement or the commit raised.
Abort(w) ==
  /\ pc[w] # "sleep"
  /\ aborts < MaxAborts
  /\ aborts' = aborts + 1
  /\ Undone(w)
  /\ Logged(w)
  /\ UNCHANGED <<now, arrived>>

AbortPoison(w) ==
  /\ pc[w] = "commit" /\ Current(w) \in Poison
  /\ Undone(w)
  /\ Logged(w)
  /\ UNCHANGED <<now, arrived, aborts>>

\* The process is killed and started again.
Restart(w) ==
  /\ pc[w] # "sleep"
  /\ aborts < MaxAborts
  /\ aborts' = aborts + 1
  /\ pc' = [pc EXCEPT ![w] = "sleep"]
  /\ todo' = [todo EXCEPT ![w] = {}]
  /\ ins' = [ins EXCEPT ![w] = {}]
  /\ del' = [del EXCEPT ![w] = {}]
  /\ UNCHANGED <<now, book, arrived>>

Work(w) == \/ FetchMarkets(w) \/ InsertCompact(w) \/ DeleteOriginals(w)
           \/ Stamp(w) \/ Commit(w) \/ AbortPoison(w)

Next == \/ \E r \in Row : Arrive(r)
        \/ Pass
        \/ \E w \in Worker : Work(w) \/ Abort(w) \/ Restart(w)

Spec == Init /\ [][Next]_vars

\* Time passes and every compactor's loop goes on: statements and sleeps end.
Fairness == WF_vars(Pass) /\ \A w \in Worker : WF_vars(Work(w))

LiveSpec == Spec /\ Fairness
-----------------------------------------------------------------------------
(* What a reader of pm_book sees: quotes <<when, which>> *)

Quotes(rows) == {<<TsOf[r], r>> : r \in rows \cap Quoted}

\* date_trunc('second', ts)
Trunc(t) == Second * SecondOf(t)

CompactQuotes(c) ==
  {<<Trunc(TsOf[r]), r>> : r \in {s \in Row : \E w \in Worker : c[w][s] > 0}}

Book == Quotes(raw) \cup CompactQuotes(copies)

OfToken(quotes, k) == {q \in quotes : TokenOf[q[2]] = k}

Newest(quotes) == {q[2] : q \in {p \in quotes : \A q \in quotes : q[1] <= p[1]}}

\* The row of second s in the per-second history of the retry walk, which is
\* cut off at t_entry and window_end (sql.py:106-142); of a tie, any one.
SecondView(quotes, k, entry, s) ==
  Newest({q \in OfToken(quotes, k) : /\ SecondOf(q[1]) = s
                                    /\ q[1] >= entry /\ q[1] <= End[MarketOf[k]]})

\* The last quote at or before t (sql.py:82-105).
LastQuote(quotes, k, t) == Newest({q \in OfToken(quotes, k) : q[1] <= t})
-----------------------------------------------------------------------------
(* Properties *)

SecondsOfRows == {SecondOf(TsOf[r]) : r \in Row}

\* compactor.py:16-18, for the retry walk, whose attempts end before window_end
\* (core.py:179): for every entry at a whole second, at every moment and in
\* every second before window_end, it reads a quote it might have read had no
\* compactor ever run, though INSERT and DELETE look at the table at different
\* moments and quotes keep arriving.  The history's last row, of the second
\* that begins at window_end, is another matter, and is not read.
SecondsKept ==
  \A k \in Token, e, s \in SecondsOfRows :
    e <= s /\ Second * s < End[MarketOf[k]] =>
      LET swapped == SecondView(Book, k, Second * e, s)
          original == SecondView(Quotes(arrived), k, Second * e, s)
      IN  swapped \subseteq original /\ (swapped = {} => original = {})

\* compactor.py:12-14: a market is either as the feed left it, or stamped, a
\* week old and free of originals in its scope; never half done, whatever
\* aborts or is killed, and however many compactors there are.
AllOrNothing ==
  \A m \in Market :
    LET mine == {r \in Row : MarketOf[TokenOf[r]] = m} IN
    IF m \in stamped
    THEN Old(m) /\ raw \cap Scope(m) = {}
    ELSE /\ arrived \cap mine \subseteq raw
         /\ \A w \in Worker, r \in mine : copies[w][r] = 0

\* A quote outside the scope of its market is never touched, and each compactor
\* copies at most one quote of a token and second, once; when two compactors
\* copy from the same second, it is the same moment.
CopiesBounded ==
  /\ \A r \in arrived : r \in Scope(MarketOf[TokenOf[r]]) \/ r \in raw
  /\ \A w \in Worker, r \in Row : copies[w][r] <= 1
  /\ \A v, w \in Worker, r, s \in Row :
       copies[v][r] > 0 /\ copies[w][s] > 0 /\ SameSecond(r, s) =>
         TsOf[r] = TsOf[s] /\ (v = w => r = s)

\* Every market is compacted in the end, also behind fewer than Batch markets
\* whose transaction always fails.
EventuallyCompacted == <>(Market \ Poison \subseteq stamped)

\* compactor.py:16-18: "the swap is transparent", also for the lookups at the
\* whole seconds window_start, t_entry and window_end.
LookupsKept ==
  \A k \in Token : \A s \in SecondsOfRows :
    LastQuote(Book, k, Second * s) = LastQuote(Quotes(arrived), k, Second * s)
=============================================================================
