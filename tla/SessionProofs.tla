--------------------------- MODULE SessionProofs ---------------------------
(***************************************************************************)
(* The properties of Session for every set of markets, every value of the  *)
(* controls and any number of changes and failures.                        *)
(***************************************************************************)
EXTENDS Session, FiniteSetTheorems, TLAPS

\* A cached row is filed under its market and its X.
Filed ==
  \A m \in Market : \A x \in Value["x_sec"] :
    cache[m][x] # None => cache[m][x].slug = m /\ cache[m][x].x = x

\* Only the data of `moved' changed since a row was cached.
Aged ==
  \A m \in Market : \A x \in Value["x_sec"] :
    cache[m][x] # None => m \in moved \/ cache[m][x].version = version[m]

\* What was listed stays resolved, which the second query relies on.
Listed == pc = "fetch" => slugs \subseteq resolved

IInv == TypeOK /\ Filed /\ Aged /\ Listed /\ Complete /\ StaleOnlyIfMoved
-----------------------------------------------------------------------------
(* The two queries and the cache between them *)

\* The LIMIT of the second query cuts nothing off.
LEMMA FetchedIsMissing ==
  ASSUME NEW missing, missing \subseteq resolved, resolved \subseteq Market
  PROVE  Fetched(missing) = missing
<1>1. resolved \cap missing = missing
  OBVIOUS
<1>2. IsFiniteSet(missing)
  BY MarketAssumption, FS_Subset
<1>3. ASSUME NEW m \in missing
      PROVE  Cardinality({k \in missing : k > m}) < Cardinality(missing)
  <2>1. IsFiniteSet(missing \ {m}) /\ Cardinality(missing \ {m}) = Cardinality(missing) - 1
    BY <1>2, FS_RemoveElement
  <2>2. {k \in missing : k > m} \subseteq missing \ {m}
    BY MarketAssumption
  <2>3. /\ IsFiniteSet({k \in missing : k > m})
        /\ Cardinality({k \in missing : k > m}) <= Cardinality(missing \ {m})
    BY <2>1, <2>2, FS_Subset
  <2>. QED
    BY <1>2, <2>1, <2>3, FS_CardinalityType
<1>. QED
  BY <1>1, <1>3 DEF Fetched, Newest

\* A list of markets that are all cached for x is shown as it is.
LEMMA RowsAreComplete ==
  ASSUME NEW list \in SUBSET Market, NEW rows, NEW x \in Value["x_sec"],
         rows \in [Market -> [Value["x_sec"] -> Row \cup {None}]],
         \A m \in list : rows[m][x] # None /\ rows[m][x].slug = m /\ rows[m][x].x = x
  PROVE  /\ RowsOf(list, rows, x) \subseteq Row
         /\ {r.slug : r \in RowsOf(list, rows, x)} = list
         /\ \A r \in RowsOf(list, rows, x) : r.x = x
<1>1. \A m \in list : rows[m][x] \in Row
  OBVIOUS
<1>2. RowsOf(list, rows, x) = {rows[m][x] : m \in list}
  BY DEF RowsOf
<1>. QED
  BY <1>1, <1>2

-----------------------------------------------------------------------------
(* One step of the script from its beginning *)

LEMMA RenderedType ==
  ASSUME NEW ws, NEW u \in Urls, Renders(u),
         DOMAIN ws = Control,
         \A c \in Control : ws[c] \in [value : Value[c], dflt : Value[c] \cup {None}]
  PROVE  /\ DOMAIN Rendered(ws, u) = Control
         /\ \A c \in Control :
              Rendered(ws, u)[c] \in [value : Value[c], dflt : Value[c] \cup {None}]
  BY DEF Rendered, Renders

LEMMA RunType ==
  ASSUME TypeOK, NEW ws, NEW u \in Urls, Run(ws, u),
         DOMAIN ws = Control,
         \A c \in Control : ws[c] \in [value : Value[c], dflt : Value[c] \cup {None}]
  PROVE  /\ DOMAIN widget' = Control
         /\ \A c \in Control : widget'[c] \in [value : Value[c], dflt : Value[c] \cup {None}]
         /\ used' \in [Control -> UrlValue]
         /\ \A c \in Control : used'[c] \in Value[c]
         /\ pc' \in {"idle", "list"} /\ slugs' = {} /\ shown' = {}
<1>1. CASE Renders(u) /\ widget' = Rendered(ws, u)
           /\ used' = [c \in Control |-> widget'[c].value] /\ pc' = "list"
  <2>1. /\ DOMAIN widget' = Control
        /\ \A c \in Control : widget'[c] \in [value : Value[c], dflt : Value[c] \cup {None}]
    BY <1>1, RenderedType
  <2>2. \A c \in Control : widget'[c].value \in Value[c]
    BY <2>1
  <2>. QED
    BY <1>1, <2>1, <2>2, ControlAssumption DEF Run
<1>2. CASE ~Renders(u) /\ widget' = ws /\ pc' = "idle" /\ UNCHANGED used
  BY <1>2 DEF Run, TypeOK
<1>. QED
  BY <1>1, <1>2 DEF Run

LEMMA NoWidgetsType ==
  /\ DOMAIN NoWidgets = Control
  /\ \A c \in Control : NoWidgets[c] \in [value : Value[c], dflt : Value[c] \cup {None}]
  BY ControlAssumption DEF NoWidgets

LEMMA EmptyCacheType ==
  /\ EmptyCache \in [Market -> [Value["x_sec"] -> Row \cup {None}]]
  /\ \A m \in Market : \A x \in Value["x_sec"] : EmptyCache[m][x] = None
  BY DEF EmptyCache
-----------------------------------------------------------------------------
(* The invariant, an action at a time *)

LEMMA Initially == Init => IInv
<1>. SUFFICES ASSUME Init PROVE IInv
  OBVIOUS
<1>1. TypeOK
  BY NoWidgetsType, EmptyCacheType, ControlAssumption, BoundsAssumption
  DEF Init, TypeOK, Urls
<1>2. Filed /\ Aged
  BY EmptyCacheType DEF Init, Filed, Aged
<1>. QED
  BY <1>1, <1>2 DEF Init, IInv, Listed, Complete, StaleOnlyIfMoved

LEMMA ResolveKeeps == ASSUME IInv, NEW m \in Market, Resolve(m) PROVE IInv'
<1>. USE DEF IInv, Resolve, script
<1>1. TypeOK'
  BY DEF TypeOK
<1>2. Filed' /\ Aged' /\ Listed'
  BY DEF Filed, Aged, Listed
<1>. QED
  BY <1>1, <1>2 DEF Complete, StaleOnlyIfMoved

LEMMA MoveKeeps == ASSUME IInv, NEW m \in Market, Move(m) PROVE IInv'
<1>. USE DEF IInv, Move, script
<1>1. TypeOK'
  BY BoundsAssumption DEF TypeOK
<1>2. \A k \in Market : k \notin moved' => k \in Market \ (moved \cup {m}) /\ version'[k] = version[k]
  BY DEF TypeOK
<1>3. Filed' /\ Listed' /\ Complete'
  BY DEF Filed, Listed, Complete
<1>4. Aged'
  BY <1>2 DEF Aged
<1>5. \A r \in shown : r.slug \in Market
  BY DEF TypeOK, Row
<1>6. StaleOnlyIfMoved'
  BY <1>2, <1>5 DEF StaleOnlyIfMoved
<1>. QED
  BY <1>1, <1>3, <1>4, <1>6

\* The script starts over with the cache as it is, or with an empty one.
LEMMA RunKeeps ==
  ASSUME IInv, NEW ws, NEW u \in Urls, Run(ws, u), UNCHANGED <<database, fails>>,
         DOMAIN ws = Control,
         \A c \in Control : ws[c] \in [value : Value[c], dflt : Value[c] \cup {None}],
         url' \in Urls,
         \/ UNCHANGED <<cache, moved>>
         \/ cache' = EmptyCache /\ moved' = {}
  PROVE  IInv'
<1>. USE DEF IInv, database
<1>1. /\ DOMAIN widget' = Control
      /\ \A c \in Control : widget'[c] \in [value : Value[c], dflt : Value[c] \cup {None}]
      /\ used' \in [Control -> UrlValue]
      /\ \A c \in Control : used'[c] \in Value[c]
      /\ pc' \in {"idle", "list"} /\ slugs' = {} /\ shown' = {}
  BY RunType
<1>2. TypeOK'
  BY <1>1, EmptyCacheType DEF TypeOK
<1>3. Filed' /\ Aged'
  <2>1. CASE UNCHANGED <<cache, moved>>
    BY <2>1 DEF Filed, Aged
  <2>2. CASE cache' = EmptyCache
    BY <2>2, EmptyCacheType DEF Filed, Aged
  <2>. QED
    BY <2>1, <2>2
<1>. QED
  BY <1>1, <1>2, <1>3 DEF Listed, Complete, StaleOnlyIfMoved

LEMMA ChooseKeeps ==
  ASSUME IInv, NEW c \in Control, NEW v \in Value[c], Choose(c, v) PROVE IInv'
<1> DEFINE ws == [widget EXCEPT ![c].value = v]
<1>1. DOMAIN ws = Control
  BY DEF IInv, TypeOK
<1>2. \A d \in Control : ws[d] \in [value : Value[d], dflt : Value[d] \cup {None}]
  BY DEF IInv, TypeOK
<1>3. Run(ws, url) /\ UNCHANGED <<database, url, cache, moved, fails>>
  BY DEF Choose
<1>4. url \in Urls /\ url' \in Urls
  BY <1>3 DEF IInv, TypeOK
<1>. HIDE DEF ws
<1>. QED
  BY <1>1, <1>2, <1>3, <1>4, RunKeeps

LEMMA ClearKeeps == ASSUME IInv, Clear PROVE IInv'
<1>1. url \in Urls /\ url' \in Urls /\ Run(widget, url)
  BY DEF Clear, IInv, TypeOK
<1>2. /\ DOMAIN widget = Control
      /\ \A c \in Control : widget[c] \in [value : Value[c], dflt : Value[c] \cup {None}]
  BY DEF IInv, TypeOK
<1>. QED
  BY <1>1, <1>2, RunKeeps DEF Clear

LEMMA OpenKeeps == ASSUME IInv, NEW u \in Urls, Open(u) PROVE IInv'
  BY NoWidgetsType, RunKeeps DEF Open

LEMMA ListSlugsKeeps == ASSUME IInv, ListSlugs PROVE IInv'
<1>. USE DEF IInv, ListSlugs, database
<1> DEFINE x == used["x_sec"]
<1>1. x \in Value["x_sec"] /\ UNCHANGED <<used, cache, moved, version, resolved>>
  BY DEF TypeOK, Control
<1>2. slugs' \subseteq resolved /\ slugs' \in SUBSET Market
  BY DEF Newest, TypeOK
<1>3. CASE Missing(slugs', x) = {} /\ shown' = RowsOf(slugs', cache, x) /\ pc' = "show"
  <2>1. \A m \in slugs' : cache[m][x] # None /\ cache[m][x].slug = m /\ cache[m][x].x = x
    BY <1>1, <1>2, <1>3 DEF Missing, Filed
  <2>2. /\ shown' \subseteq Row
        /\ {r.slug : r \in shown'} = slugs'
        /\ \A r \in shown' : r.x = x
    BY <1>1, <1>2, <1>3, <2>1, RowsAreComplete DEF TypeOK
  <2>3. \A m \in slugs' : cache[m][x] # None =>
          cache[m][x].slug = m /\ (m \in moved \/ cache[m][x].version = version[m])
    BY <1>1, <1>2, <2>1 DEF Aged
  <2>4. \A r \in shown' : r.slug \in moved \/ r.version = version[r.slug]
    <3>1. \A r \in shown' : \E m \in slugs' : r = cache[m][x] /\ r # None
      BY <1>3 DEF RowsOf
    <3>. QED
      BY <2>3, <3>1
  <2>5. TypeOK'
    BY <1>2, <1>3, <2>2 DEF TypeOK
  <2>. QED
    BY <1>1, <1>3, <2>2, <2>4, <2>5
    DEF Filed, Aged, Listed, Complete, StaleOnlyIfMoved
<1>4. CASE pc' = "fetch" /\ UNCHANGED shown
  <2>1. TypeOK'
    BY <1>2, <1>4 DEF TypeOK
  <2>. QED
    BY <1>1, <1>2, <1>4, <2>1 DEF Filed, Aged, Listed, Complete, StaleOnlyIfMoved
<1>. QED
  BY <1>3, <1>4

LEMMA FetchKeeps == ASSUME IInv, Fetch PROVE IInv'
<1>. USE DEF IInv, database
<1> DEFINE x == used["x_sec"]
           new == Missing(slugs, x)
           row(m) == [slug |-> m, x |-> x, version |-> version[m]]
<1>1. /\ x \in Value["x_sec"]
      /\ UNCHANGED <<used, moved, version, resolved, slugs, url, widget, moves, fails>>
      /\ pc' = "show"
      /\ slugs \in SUBSET Market
  BY DEF TypeOK, Control, Fetch
<1>2. Fetched(new) = new
  BY FetchedIsMissing DEF Missing, Listed, TypeOK, Fetch
<1>3. /\ cache' = [m \in Market |-> IF m \in new THEN [cache[m] EXCEPT ![x] = row(m)]
                                    ELSE cache[m]]
      /\ shown' = RowsOf(slugs, cache', x)
  BY <1>2 DEF Fetch
<1>. HIDE DEF x
<1>4. \A m \in Market : \A y \in Value["x_sec"] :
        cache'[m][y] = IF m \in new /\ y = x THEN row(m) ELSE cache[m][y]
  BY <1>3 DEF TypeOK
<1>5. \A m \in Market : /\ row(m) \in Row /\ row(m) # None
                        /\ row(m).slug = m /\ row(m).x = x /\ row(m).version = version[m]
  <2>1. \A m \in Market : version[m] \in 0..MaxMoves
    BY BoundsAssumption DEF TypeOK
  <2>2. \A m \in Market : row(m) \in Row
    BY <1>1, <2>1 DEF Row
  <2>3. \A m \in Market : row(m) # None
    BY <2>2, NoneAssumption
  <2>. QED
    BY <2>2, <2>3
<1>. HIDE DEF new, row
<1>6. cache' \in [Market -> [Value["x_sec"] -> Row \cup {None}]]
  BY <1>1, <1>3, <1>5 DEF TypeOK
<1>7. Filed' /\ Aged'
  <2>1. ASSUME NEW m \in Market, NEW y \in Value["x_sec"], cache'[m][y] # None
        PROVE  /\ cache'[m][y].slug = m /\ cache'[m][y].x = y
               /\ m \in moved' \/ cache'[m][y].version = version'[m]
    <3>1. CASE m \in new /\ y = x
      BY <1>1, <1>4, <1>5, <3>1
    <3>2. CASE cache'[m][y] = cache[m][y]
      BY <1>1, <2>1, <3>2 DEF Filed, Aged
    <3>. QED
      BY <1>4, <3>1, <3>2
  <2>. QED
    BY <2>1 DEF Filed, Aged
<1>8. \A m \in slugs : cache'[m][x] # None /\ cache'[m][x].slug = m /\ cache'[m][x].x = x
  <2>1. \A m \in slugs : cache'[m][x] # None
    BY <1>1, <1>4, <1>5 DEF Missing, new
  <2>. QED
    BY <1>1, <1>7, <2>1 DEF Filed
<1>9. /\ shown' \subseteq Row
      /\ {r.slug : r \in shown'} = slugs
      /\ \A r \in shown' : r.x = x
  <2>1. shown' = {cache'[m][x] : m \in slugs} \ {None}
    BY <1>3 DEF RowsOf
  <2>2. \A m \in slugs : cache'[m][x] \in Row
    BY <1>1, <1>6, <1>8
  <2>. QED
    BY <1>8, <2>1, <2>2
<1>10. \A m \in slugs : cache'[m][x] # None =>
         cache'[m][x].slug = m /\ (m \in moved \/ cache'[m][x].version = version[m])
  BY <1>1, <1>7, <1>8 DEF Aged
<1>11. \A r \in shown' : r.slug \in moved \/ r.version = version[r.slug]
  <2>1. \A r \in shown' : \E m \in slugs : r = cache'[m][x] /\ r # None
    BY <1>3 DEF RowsOf
  <2>. QED
    BY <1>10, <2>1
<1>12. TypeOK'
  BY <1>1, <1>6, <1>9 DEF TypeOK
<1>13. Complete'
  BY <1>1, <1>9 DEF Complete, x
<1>. QED
  BY <1>1, <1>7, <1>11, <1>12, <1>13 DEF Listed, StaleOnlyIfMoved

\* The script ends.
LEMMA EndKeeps == ASSUME IInv, QueryFails \/ Stop \/ Persist PROVE IInv'
<1>. USE DEF IInv, QueryFails, Stop, Persist, database
<1>1. TypeOK'
  BY BoundsAssumption DEF TypeOK, Urls
<1>2. Filed' /\ Aged' /\ Listed'
  BY DEF Filed, Aged, Listed
<1>. QED
  BY <1>1, <1>2 DEF Complete, StaleOnlyIfMoved

LEMMA StepKeeps == ASSUME IInv, [Next]_vars PROVE IInv'
<1>1. CASE UNCHANGED vars
  BY <1>1 DEF IInv, TypeOK, Filed, Aged, Listed, Complete, StaleOnlyIfMoved,
              vars, database, script
<1>2. CASE Next
  BY <1>2, ResolveKeeps, MoveKeeps, ChooseKeeps, ClearKeeps, OpenKeeps, ListSlugsKeeps,
     FetchKeeps, EndKeeps DEF Next
<1>. QED
  BY <1>1, <1>2

LEMMA Invariance == Spec => []IInv
<1>1. IInv /\ [Next]_vars => IInv'
  BY StepKeeps
<1>. QED
  BY Initially, <1>1, PTL DEF Spec
-----------------------------------------------------------------------------
(* The theorems *)

\* Every variable of the page and its database has its type.
THEOREM TypeCorrect == Spec => []TypeOK
<1>1. IInv => TypeOK
  BY DEF IInv
<1>. QED
  BY Invariance, <1>1, PTL

\* The page shows all listed markets with rows for the X in use.
THEOREM PageIsComplete == Spec => []Complete
<1>1. IInv => Complete
  BY DEF IInv
<1>. QED
  BY Invariance, <1>1, PTL

\* Shown rows are out of date only where data changed since the cache was empty.
THEOREM RowsAreFresh == Spec => []StaleOnlyIfMoved
<1>1. IInv => StaleOnlyIfMoved
  BY DEF IInv
<1>. QED
  BY Invariance, <1>1, PTL
=============================================================================
