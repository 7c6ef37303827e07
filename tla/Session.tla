------------------------------ MODULE Session ------------------------------
(***************************************************************************)
(* The back-tester's page (app.py) in one browser session: its controls,   *)
(* the URL they are saved in, the session's cache of dataset rows, and the *)
(* two queries behind it (sql.py), over a database in which markets go on  *)
(* resolving and the data of resolved ones goes on changing.               *)
(*                                                                         *)
(* Of the controls only X and N decide which rows are shown; they stand    *)
(* for all of them.  Markets are numbered by window_end; lists, which are  *)
(* always newest first, are sets.  A row is its market, its X and the     *)
(* version of the data it was made from.                                   *)
(***************************************************************************)
EXTENDS Integers, FiniteSets

CONSTANTS Market,    \* a set of numbers
          Value,     \* what each control can be set to
          Default,   \* what it is without a URL
          UrlValue,  \* what a URL can hold for one
          None,
          MaxMoves,  \* bound: changes of a market's data
          MaxFails   \* bound: failing queries

Control == {"x_sec", "n_markets"}

ASSUME MarketAssumption == Market \subseteq Nat /\ IsFiniteSet(Market)
ASSUME ControlAssumption ==
  \A c \in Control : /\ Default[c] \in Value[c]
                     /\ Value[c] \subseteq UrlValue \cap Nat
ASSUME BoundsAssumption == MaxMoves \in Nat /\ MaxFails \in Nat

Row == [slug : Market, x : Value["x_sec"], version : 0..MaxMoves]

ASSUME NoneAssumption == None \notin Nat /\ None \notin Row

VARIABLES
  \* The database
  resolved,  \* markets with a close price and an outcome
  version,   \* of each market's ticks and quotes
  \* The browser and Streamlit
  url,       \* st.query_params
  widget,    \* each control's value, and the default it was made with
  \* The session
  cache,     \* st.session_state[_CACHE_KEY], by market and X
  moved,     \* history: markets whose data changed since it was last empty
  pc,        \* where the script is
  used,      \* the values of the controls in this run
  slugs,     \* what fetch_resolved_slugs returned
  shown,     \* the raw dataset of the page
  moves, fails

database == <<resolved, version, moves>>
script == <<pc, used, slugs, shown>>
vars == <<database, url, widget, cache, moved, script, fails>>

Urls == [Control -> UrlValue]

TypeOK ==
  /\ resolved \subseteq Market
  /\ version \in [Market -> 0..moves]
  /\ url \in Urls
  /\ DOMAIN widget = Control
  /\ \A c \in Control : widget[c] \in [value : Value[c], dflt : Value[c] \cup {None}]
  /\ cache \in [Market -> [Value["x_sec"] -> Row \cup {None}]]
  /\ moved \subseteq Market
  /\ pc \in {"idle", "list", "fetch", "show"}
  /\ used \in [Control -> UrlValue]
  /\ \A c \in Control : used[c] \in Value[c]
  /\ slugs \subseteq Market /\ shown \subseteq Row
  /\ moves \in 0..MaxMoves /\ fails \in 0..MaxFails

EmptyCache == [m \in Market |-> [x \in Value["x_sec"] |-> None]]
NoWidgets == [c \in Control |-> [value |-> Default[c], dflt |-> None]]

\* The page before it is opened.
Init ==
  /\ resolved = {}
  /\ version = [m \in Market |-> 0]
  /\ url \in Urls
  /\ widget = NoWidgets
  /\ cache = EmptyCache /\ moved = {}
  /\ pc = "idle"
  /\ used = [c \in Control |-> Default[c]]
  /\ slugs = {} /\ shown = {}
  /\ moves = 0 /\ fails = 0
-----------------------------------------------------------------------------
(* The collector *)

\* A market resolves whenever its ticks are there, whatever the order of windows.
Resolve(m) ==
  /\ m \notin resolved
  /\ resolved' = resolved \cup {m}
  /\ UNCHANGED <<version, moves, url, widget, cache, moved, script, fails>>

\* Late rows of a resolved market are flushed, or its quotes are compacted.
Move(m) ==
  /\ m \in resolved
  /\ moves < MaxMoves
  /\ moves' = moves + 1
  /\ version' = [version EXCEPT ![m] = @ + 1]
  /\ moved' = moved \cup {m}
  /\ UNCHANGED <<resolved, url, widget, cache, script, fails>>
-----------------------------------------------------------------------------
(* The controls *)

\* _qp_int: what is no number counts as missing.
QpInt(u, c) == IF u[c] \in Int THEN u[c] ELSE Default[c]

\* Streamlit knows a control without a key by its parameters, the default among
\* them: with another default it is another control, which has that value.
Rendered(ws, u) ==
  [c \in Control |-> IF ws[c].dflt = QpInt(u, c) THEN ws[c]
                     ELSE [value |-> QpInt(u, c), dflt |-> QpInt(u, c)]]

\* Variant: any number will do.
RendersAny(u) == \A c \in Control : QpInt(u, c) \in Int

\* A default that the control does not allow raises.
Renders(u) == \A c \in Control : QpInt(u, c) \in Value[c]

\* The script starts over, with the controls as the browser has them.
Run(ws, u) ==
  /\ slugs' = {} /\ shown' = {}
  /\ \/ /\ Renders(u)
        /\ widget' = Rendered(ws, u)
        /\ used' = [c \in Control |-> widget'[c].value]
        /\ pc' = "list"
     \/ /\ ~Renders(u)
        /\ widget' = ws
        /\ pc' = "idle"
        /\ UNCHANGED used

\* The script can be interrupted once the queries are done.
Interactive == pc \in {"idle", "show"} /\ Renders(url)

Choose(c, v) ==
  /\ Interactive
  /\ widget[c].dflt # None
  /\ v # widget[c].value
  /\ Run([widget EXCEPT ![c].value = v], url)
  /\ UNCHANGED <<database, url, cache, moved, fails>>

\* Variant: the script starts over before the cache is dropped.
ClearKeeping ==
  /\ Interactive
  /\ widget["x_sec"].dflt # None
  /\ moved' = {}
  /\ Run(widget, url)
  /\ UNCHANGED <<database, url, cache, fails>>

\* "Clear market cache"
Clear ==
  /\ Interactive
  /\ widget["x_sec"].dflt # None
  /\ cache' = EmptyCache /\ moved' = {}
  /\ Run(widget, url)
  /\ UNCHANGED <<database, url, fails>>

\* A reload, or a link somebody shared: a new session.
Open(u) ==
  /\ url' = u
  /\ cache' = EmptyCache /\ moved' = {}
  /\ Run(NoWidgets, u)
  /\ UNCHANGED <<database, fails>>
-----------------------------------------------------------------------------
(* cached_dataset *)

\* ORDER BY window_end DESC LIMIT n
Newest(markets, n) ==
  {m \in markets : Cardinality({k \in markets : k > m}) < n}

Missing(list, x) == {m \in list : cache[m][x] = None}

\* The cached rows of the listed markets.
RowsOf(list, rows, x) == {rows[m][x] : m \in list} \ {None}

\* fetch_resolved_slugs; if nothing is missing the dataset is there.
ListSlugs ==
  /\ pc = "list"
  /\ slugs' = Newest(resolved, used["n_markets"])
  /\ \/ /\ Missing(slugs', used["x_sec"]) = {}
        /\ shown' = RowsOf(slugs', cache, used["x_sec"])
        /\ pc' = "show"
     \/ /\ Missing(slugs', used["x_sec"]) # {}
        /\ pc' = "fetch"
        /\ UNCHANGED shown
  /\ UNCHANGED <<database, url, widget, cache, moved, used, fails>>

\* Variant: as many of the newest as are missing.
FetchedAny(missing) == Newest(resolved, Cardinality(missing))

\* WHERE slug = ANY(slugs) ... LIMIT len(slugs)
Fetched(missing) == Newest(resolved \cap missing, Cardinality(missing))

\* fetch_resolved_dataset for the missing markets tops up the cache.
Fetch ==
  /\ pc = "fetch"
  /\ LET x == used["x_sec"]
         new == Fetched(Missing(slugs, x)) IN
     /\ cache' = [m \in Market |->
          IF m \in new
          THEN [cache[m] EXCEPT ![x] = [slug |-> m, x |-> x, version |-> version[m]]]
          ELSE cache[m]]
     /\ shown' = RowsOf(slugs, cache', x)
  /\ pc' = "show"
  /\ UNCHANGED <<database, url, widget, moved, used, slugs, fails>>

\* Either query raises, and with it the script.
QueryFails ==
  /\ pc \in {"list", "fetch"}
  /\ fails < MaxFails
  /\ fails' = fails + 1
  /\ pc' = "idle"
  /\ UNCHANGED <<database, url, widget, cache, moved, used, slugs, shown>>

\* apply_strategy made no trade of the rows: st.stop.
Stop ==
  /\ pc = "show"
  /\ pc' = "idle"
  /\ UNCHANGED <<database, url, widget, cache, moved, used, slugs, shown, fails>>

\* Some row is a trade: the page is drawn to its end, where the URL is written.
Persist ==
  /\ pc = "show"
  /\ shown # {}
  /\ url' = used
  /\ pc' = "idle"
  /\ UNCHANGED <<database, widget, cache, moved, used, slugs, shown, fails>>

Next ==
  \/ \E m \in Market : Resolve(m) \/ Move(m)
  \/ \E c \in Control : \E v \in Value[c] : Choose(c, v)
  \/ \E u \in Urls : Open(u)
  \/ Clear
  \/ ListSlugs \/ Fetch \/ QueryFails
  \/ Stop \/ Persist

Spec == Init /\ [][Next]_vars
-----------------------------------------------------------------------------
(* Properties *)

\* The page shows every market of the list, with rows for the X in use, although
\* markets resolve between the two queries, earlier runs filled the cache with
\* other Xs and Ns, and some of them failed half-way.
Complete ==
  pc = "show" => /\ {r.slug : r \in shown} = slugs
                 /\ \A r \in shown : r.x = used["x_sec"]

\* A row is out of date only if its market's data changed since the session
\* began or the cache was cleared: what "Clear market cache" promises.
StaleOnlyIfMoved ==
  \A r \in shown : r.slug \in moved \/ r.version = version[r.slug]

\* docs/backtester.md:11: the controls are "persisted in URL query params so reload
\* restores them": once a page with a dataset is there, the URL gives what it shows.
ReloadRestores ==
  pc = "idle" /\ shown # {} => \A c \in Control : QpInt(url, c) = used[c]
=============================================================================
