------------------------- MODULE BatchWriterProofs -------------------------
(* The safety properties of BatchWriter, for every set of rows and keys.     *)
EXTENDS BatchWriter, WellFoundedInduction, TLAPS

USE TableOfAssumption, KeyOfAssumption, NoRowAssumption, MaxRestartsAssumption

-----------------------------------------------------------------------------
(* Lemmas about the operators *)

\* Every nonempty set of numbers has a least element.
LEMMA LeastExists ==
  ASSUME NEW N \in SUBSET Nat, N # {}
  PROVE  \E m \in N : \A n \in N : m <= n
<1>1. PICK m \in N : \A n \in N : ~(<<n, m>> \in OpToRel(<, Nat))
  BY NatLessThanWellFounded, WFMin
<1>2. \A n \in N : ~(n < m)
  BY <1>1 DEF OpToRel
<1> QED
  BY <1>2

\* The row INSERT ... DO NOTHING lets through is a row of the batch, and none
\* of the batch came before it.
LEMMA EarliestIsFirst ==
  ASSUME NEW rows \in SUBSET Row, rows # {}, arrival \in [Row -> Nat]
  PROVE  /\ Earliest(rows) \in rows
         /\ \A s \in rows : arrival[Earliest(rows)] <= arrival[s]
<1> DEFINE N == {arrival[r] : r \in rows}
<1>0. N \in SUBSET Nat /\ N # {}
  OBVIOUS
<1> HIDE DEF N
<1>1. PICK m \in N : \A n \in N : m <= n
  BY <1>0, LeastExists
<1>2. \E r \in rows : \A s \in rows : arrival[r] <= arrival[s]
  BY <1>1 DEF N
<1> QED
  BY <1>2 DEF Earliest

\* The transactions left behind are exactly the non-empty batches of ts.
LEMMA AbandonFacts ==
  ASSUME NEW f \in [Table -> SUBSET Row], NEW ts \in SUBSET Table
  PROVE  /\ Abandon(f, ts) \subseteq Batch
         /\ \A b \in Abandon(f, ts) : b.table \in ts /\ b.rows = f[b.table] /\ b.rows # {}
         /\ \A t \in ts : f[t] # {} =>
              \E b \in Abandon(f, ts) : b.table = t /\ b.rows = f[t]
         /\ \A b, c \in Abandon(f, ts) : b.table = c.table => b = c
<1>1. /\ Abandon(f, ts) \subseteq Batch
      /\ \A b \in Abandon(f, ts) : b.table \in ts /\ b.rows = f[b.table] /\ b.rows # {}
  BY DEF Abandon
<1>2. ASSUME NEW t \in ts, f[t] # {}
      PROVE  \E b \in Abandon(f, ts) : b.table = t /\ b.rows = f[t]
  <2> DEFINE b == [table |-> t, rows |-> f[t]]
  <2>1. b \in Abandon(f, ts)
    BY <1>2 DEF Abandon, Batch
  <2> QED
    BY <2>1
<1>3. \A b, c \in Abandon(f, ts) : b.table = c.table => b = c
  BY DEF Abandon, Batch
<1> QED
  BY <1>1, <1>2, <1>3

\* Where a row may be found.
LEMMA WhereInMemory ==
  ASSUME NEW r
  PROVE  /\ InMemory(r) <=> \/ \E t \in Table : r \in buf[t] \/ r \in live[t]
                            \/ \E o \in orphans : r \in o.rows
         /\ InMemory(r)' <=> \/ \E t \in Table : r \in buf'[t] \/ r \in live'[t]
                             \/ \E o \in orphans' : r \in o.rows
  BY DEF InMemory, RowsIn, OrphanRows

-----------------------------------------------------------------------------
(* Type correctness *)

LEMMA TypeStep == TypeOK /\ [Next]_vars => TypeOK'
<1> SUFFICES ASSUME TypeOK, [Next]_vars
             PROVE  TypeOK'
  OBVIOUS
<1>0. Nothing \in [Table -> SUBSET Row]
  BY DEF Nothing
<1>1. ASSUME NEW rows \in SUBSET Row, Insert(rows)
      PROVE  /\ spot' \in [Key -> Row \cup {NoRow}]
             /\ inserted' \in [Row -> Nat]
  <2>1. \A k \in Key : Rivals(rows, k) # {} => Earliest(Rivals(rows, k)) \in Row
    <3>1. ASSUME NEW k \in Key, Rivals(rows, k) # {}
          PROVE  Earliest(Rivals(rows, k)) \in Row
      <4>1. Rivals(rows, k) \subseteq Row
        BY DEF Rivals
      <4>2. arrival \in [Row -> Nat]
        BY DEF TypeOK
      <4>3. Earliest(Rivals(rows, k)) \in Rivals(rows, k)
        BY <3>1, <4>1, <4>2, EarliestIsFirst
      <4>. QED
        BY <4>1, <4>3
    <3>. QED
      BY <3>1
  <2>2. spot' \in [Key -> Row \cup {NoRow}]
    BY <1>1, <2>1 DEF Insert, SpotAfter, TypeOK
  <2>3. inserted' \in [Row -> Nat]
    BY <1>1 DEF Insert, InsertedAfter, TypeOK
  <2> QED
    BY <2>2, <2>3
<1>2. ASSUME NEW t \in Table, GatherRaises(t)
      PROVE  orphans' \subseteq Batch /\ failed' \subseteq Table
  <2>1. Abandon(live, Table \ {t}) \subseteq Batch
    BY AbandonFacts DEF TypeOK
  <2> QED
    BY <1>2, <2>1 DEF GatherRaises, TypeOK
<1>3. ASSUME Vanish
      PROVE  orphans' \subseteq Batch /\ lost' \subseteq Row
  <2>1. Abandon(live, Table) \subseteq Batch
    BY AbandonFacts DEF TypeOK
  <2>2. RowsIn(buf) \subseteq Row
    BY DEF RowsIn, TypeOK
  <2> QED
    BY <1>3, <2>1, <2>2 DEF Vanish, TypeOK
<1>4. CASE \E r \in Row : Add(r)
  BY <1>4 DEF Add, TypeOK
<1>5. CASE FlushBegin
  BY <1>0, <1>5 DEF FlushBegin, Swap, TypeOK, PC
<1>6. ASSUME NEW t \in Table, Commit(t)
      PROVE  TypeOK'
  <2>1. live[t] \in SUBSET Row
    BY DEF TypeOK
  <2> QED
    BY <1>1, <1>6, <2>1 DEF Commit, TypeOK
<1>7. ASSUME NEW t \in Table, Fail(t)
      PROVE  TypeOK'
  BY <1>0, <1>2, <1>7 DEF Fail, GatherRaises, TypeOK
<1>8. ASSUME NEW t \in Table, FailUnacked(t)
      PROVE  TypeOK'
  <2>1. live[t] \in SUBSET Row
    BY DEF TypeOK
  <2> QED
    BY <1>0, <1>1, <1>2, <1>8, <2>1 DEF FailUnacked, GatherRaises, TypeOK
<1>9. CASE Loop
  BY <1>0, <1>9 DEF Loop, Swap, TypeOK, PC
<1>10. CASE Finish
  BY <1>10 DEF Finish, TypeOK, PC
<1>11. ASSUME NEW o \in orphans, OrphanCommit(o)
       PROVE  TypeOK'
  <2>1. o.rows \in SUBSET Row
    BY DEF TypeOK, Batch
  <2> QED
    BY <1>1, <1>11, <2>1 DEF OrphanCommit, TypeOK
<1>12. ASSUME NEW o \in orphans, OrphanAbort(o)
       PROVE  TypeOK'
  BY <1>12 DEF OrphanAbort, TypeOK, Batch
<1>13. CASE CancelTasks
  BY <1>13 DEF CancelTasks, TypeOK, Phase
<1>14. CASE StopWriter
  BY <1>14 DEF StopWriter, TypeOK, Phase
<1>15. CASE Exit
  BY <1>0, <1>3, <1>15 DEF Exit, Vanish, TypeOK, Phase, PC
<1>16. CASE Crash
  BY <1>0, <1>3, <1>16 DEF Crash, Vanish, TypeOK, Phase, PC
<1>17. CASE Restart
  BY <1>17 DEF Restart, TypeOK, Phase, PC
<1>18. CASE UNCHANGED vars
  BY <1>18 DEF vars, TypeOK
<1> QED
  BY <1>4, <1>5, <1>6, <1>7, <1>8, <1>9, <1>10, <1>11, <1>12, <1>13, <1>14,
     <1>15, <1>16, <1>17, <1>18 DEF Next, Answer, Settle

\* The variables stay in their types.
THEOREM TypeCorrect == Spec => []TypeOK
<1>1. Init => TypeOK
  <2>1. Nothing \in [Table -> SUBSET Row]
    BY DEF Nothing
  <2>2. 0 \in 0..MaxRestarts
    OBVIOUS
  <2>3. ASSUME Init
        PROVE  /\ arrival \in [Row -> Nat] /\ inserted \in [Row -> Nat]
               /\ spot \in [Key -> Row \cup {NoRow}]
    BY <2>3 DEF Init
  <2>4. ASSUME Init
        PROVE  /\ pc \in PC /\ phase \in Phase /\ killed \in BOOLEAN
               /\ clock \in Nat /\ restarts \in 0..MaxRestarts
    BY <2>2, <2>4 DEF Init, PC, Phase
  <2>5. ASSUME Init
        PROVE  /\ buf \in [Table -> SUBSET Row] /\ live \in [Table -> SUBSET Row]
               /\ orphans \subseteq Batch /\ lost \subseteq Row /\ failed \subseteq Table
    BY <2>1, <2>5, Zenon DEF Init
  <2> QED
    BY <2>3, <2>4, <2>5 DEF TypeOK
<1> QED
  BY <1>1, TypeStep, PTL DEF Spec
-----------------------------------------------------------------------------
(* Every row is in exactly one place *)

Placed == Filed /\ Apart /\ Idle /\ Accounted

LEMMA PlacedStep == TypeOK /\ TypeOK' /\ Placed /\ [Next]_vars => Placed'
<1> SUFFICES ASSUME TypeOK, TypeOK', Placed, [Next]_vars
             PROVE  Placed'
  OBVIOUS
<1> USE DEF Placed
<1>1. CASE \E r \in Row : Add(r)
  <2>1. PICK r \in Row : Add(r)
    BY <1>1
  <2>2. ~InMemory(r) /\ inserted[r] = 0 /\ r \notin lost
    BY <2>1 DEF Add, Accounted
  <2>3. /\ buf' \in [Table -> SUBSET Row]
        /\ buf'[TableOf[r]] = buf[TableOf[r]] \cup {r}
        /\ \A t \in Table : t # TableOf[r] => buf'[t] = buf[t]
        /\ live' = live /\ orphans' = orphans /\ inserted' = inserted /\ lost' = lost
        /\ \A s \in Row : s # r => arrival'[s] = arrival[s]
        /\ arrival'[r] # 0
    BY <2>1 DEF Add, TypeOK
  <2>4. /\ \A t \in Table : r \notin live[t]
        /\ \A o \in orphans : r \notin o.rows
    BY <2>2, WhereInMemory
  <2>5. Filed'
    BY <2>3 DEF Filed
  <2>6. Apart'
    BY <2>3, <2>4 DEF Apart, TypeOK, Batch
  <2>7. \A s \in Row : InMemory(s)' <=> s = r \/ InMemory(s)
    BY <2>3, WhereInMemory
  <2>8. Accounted'
    BY <2>2, <2>3, <2>7 DEF Accounted, AtMostOnce, NothingForgotten, Offered
  <2>9. Idle'
    BY <2>1 DEF Add, Idle
  <2> QED
    BY <2>5, <2>6, <2>8, <2>9
<1>2. ASSUME Swap, live = Nothing,
             UNCHANGED <<orphans, arrival, inserted, lost>>
      PROVE  Filed' /\ Apart' /\ Accounted'
  <2>1. \A t \in Table : live'[t] = buf[t] /\ buf'[t] = {} /\ live[t] = {}
    BY <1>2 DEF Swap, Nothing
  <2>2. \A s \in Row : InMemory(s)' <=> InMemory(s)
    BY <1>2, <2>1, WhereInMemory
  <2>3. Accounted'
    BY <1>2, <2>2 DEF Accounted, AtMostOnce, NothingForgotten, Offered
  <2>4. Filed'
    BY <1>2, <2>1 DEF Filed
  <2>5. Apart'
    BY <1>2, <2>1 DEF Apart, TypeOK, Batch
  <2> QED
    BY <2>3, <2>4, <2>5
<1>3. CASE FlushBegin
  BY <1>2, <1>3 DEF FlushBegin, Idle
<1>4. CASE Loop
  <2>1. CASE phase = "stopping"
    BY <1>2, <1>4, <2>1 DEF Loop, Idle
  <2>2. CASE phase # "stopping"
    <3>1. UNCHANGED <<buf, live, orphans, arrival, inserted, lost>>
      BY <1>4, <2>2 DEF Loop
    <3>2. Filed' /\ Apart' /\ Accounted'
      BY <3>1 DEF Filed, Apart, Accounted, AtMostOnce, NothingForgotten, Offered,
                  InMemory, RowsIn, OrphanRows
    <3> QED
      BY <1>4, <3>2 DEF Loop, Idle
  <2> QED
    BY <2>1, <2>2
<1>5. ASSUME UNCHANGED <<buf, live, orphans, arrival, inserted, lost>>, Idle'
      PROVE  Placed'
  BY <1>5 DEF Filed, Apart, Accounted, AtMostOnce, NothingForgotten, Offered,
              InMemory, RowsIn, OrphanRows
<1>6. CASE Finish \/ CancelTasks \/ StopWriter \/ Restart \/ UNCHANGED vars
  BY <1>5, <1>6 DEF Finish, CancelTasks, StopWriter, Restart, vars, Idle

\* A transaction ends: its rows leave memory and are stored or lost.
<1>7. ASSUME NEW rows \in SUBSET Row,
             \A s \in Row : InMemory(s)' <=> InMemory(s) /\ s \notin rows,
             \A s \in rows : InMemory(s),
             UNCHANGED arrival,
             \/ inserted' = InsertedAfter(rows) /\ lost' = lost
             \/ inserted' = inserted /\ lost' = lost \cup rows
      PROVE  Accounted'
  <2>1. \A s \in rows : arrival[s] # 0 /\ inserted[s] = 0 /\ s \notin lost
    BY <1>7 DEF Accounted
  <2>2. CASE inserted' = InsertedAfter(rows) /\ lost' = lost
    <3>1. \A s \in Row : /\ s \in rows => inserted'[s] = 1
                         /\ s \notin rows => inserted'[s] = inserted[s]
      BY <2>1, <2>2 DEF InsertedAfter
    <3> QED
      BY <1>7, <2>1, <2>2, <3>1
      DEF Accounted, AtMostOnce, NothingForgotten, Offered
  <2>3. CASE inserted' = inserted /\ lost' = lost \cup rows
    BY <1>7, <2>1, <2>3 DEF Accounted, AtMostOnce, NothingForgotten, Offered
  <2> QED
    BY <1>7, <2>2, <2>3
<1>8. ASSUME NEW t \in Table, Commit(t)
      PROVE  Placed'
  <2>1. /\ live' \in [Table -> SUBSET Row]
        /\ live'[t] = {}
        /\ \A u \in Table : u # t => live'[u] = live[u]
        /\ buf' = buf /\ orphans' = orphans
    BY <1>8 DEF Commit, TypeOK
  <2>2. Filed'
    BY <2>1 DEF Filed
  <2>3. Apart'
    BY <2>1 DEF Apart, TypeOK, Batch
  <2>4. \A s \in Row : InMemory(s)' <=> InMemory(s) /\ s \notin live[t]
    BY <2>1, WhereInMemory DEF Filed, Apart, TypeOK, Batch
  <2>5. \A s \in live[t] : InMemory(s)
    BY WhereInMemory
  <2>6. Accounted'
    <3>1. live[t] \in SUBSET Row
      BY DEF TypeOK
    <3> QED
      BY <1>7, <1>8, <2>4, <2>5, <3>1 DEF Commit, Insert
  <2>7. Idle'
    BY <1>8, <2>1 DEF Commit, Idle, Nothing
  <2> QED
    BY <2>2, <2>3, <2>6, <2>7
<1>9. ASSUME NEW t \in Table, GatherRaises(t)
      PROVE  /\ Filed' /\ Apart' /\ Idle'
             /\ \A s \in Row : InMemory(s)' <=> InMemory(s) /\ s \notin live[t]
             /\ \A s \in live[t] : InMemory(s)
  <2> DEFINE new == Abandon(live, Table \ {t})
  <2>1. /\ new \subseteq Batch
        /\ \A b \in new : b.table \in Table \ {t} /\ b.rows = live[b.table]
        /\ \A u \in Table \ {t} : live[u] # {} => \E b \in new : b.table = u /\ b.rows = live[u]
        /\ \A b, c \in new : b.table = c.table => b = c
    <3>1. live \in [Table -> SUBSET Row] /\ Table \ {t} \in SUBSET Table
      BY DEF TypeOK
    <3> HIDE DEF new
    <3>2. /\ new \subseteq Batch
          /\ \A b \in new : b.table \in Table \ {t} /\ b.rows = live[b.table] /\ b.rows # {}
          /\ \A u \in Table \ {t} : live[u] # {} =>
               \E b \in new : b.table = u /\ b.rows = live[u]
          /\ \A b, c \in new : b.table = c.table => b = c
      BY <3>1, AbandonFacts, Zenon DEF new
    <3> QED
      BY <3>2
  <2>2. /\ orphans' = orphans \cup new
        /\ buf' = buf
        /\ \A u \in Table : live'[u] = {}
    BY <1>9 DEF GatherRaises, Nothing
  <2> HIDE DEF new
  <2>3. Filed'
    BY <2>1, <2>2 DEF Filed
  <2>4. Apart'
    <3>1. \A o \in orphans' : o.rows \cap (buf[o.table] \cup {}) = {}
      BY <2>1, <2>2 DEF Apart
    <3>2. \A b, c \in new : b = c \/ b.rows \cap c.rows = {}
      BY <2>1 DEF Filed
    <3>3. \A o \in orphans, b \in new : o.rows \cap b.rows = {}
      BY <2>1 DEF Filed, Apart, TypeOK, Batch
    <3> QED
      BY <2>1, <2>2, <3>1, <3>2, <3>3 DEF Apart, TypeOK, Batch
  <2>5. Idle'
    BY <1>9 DEF GatherRaises, Idle
  <2>6. \A s \in Row : InMemory(s)' <=> InMemory(s) /\ s \notin live[t]
    <3>1. ASSUME NEW s \in Row, InMemory(s)'
          PROVE  InMemory(s) /\ s \notin live[t]
      BY <3>1, <2>1, <2>2, WhereInMemory DEF Filed, Apart, TypeOK, Batch
    <3>2. ASSUME NEW s \in Row, InMemory(s), s \notin live[t]
          PROVE  InMemory(s)'
      BY <3>2, <2>1, <2>2, WhereInMemory
    <3> QED
      BY <3>1, <3>2
  <2> QED
    BY <2>3, <2>4, <2>5, <2>6, WhereInMemory
<1>10. ASSUME NEW t \in Table, Fail(t) \/ FailUnacked(t)
       PROVE  Placed'
  <2>1. GatherRaises(t) /\ live[t] \in SUBSET Row
    BY <1>10 DEF Fail, FailUnacked, TypeOK
  <2>2. Accounted'
    BY <1>7, <1>9, <1>10, <2>1 DEF Fail, FailUnacked, GatherRaises, Insert
  <2> QED
    BY <1>9, <2>1, <2>2
<1>11. ASSUME NEW o \in orphans, Settle(o)
       PROVE  Placed'
  <2>1. orphans' = orphans \ {o} /\ buf' = buf /\ live' = live
    BY <1>11 DEF Settle, OrphanCommit, OrphanAbort
  <2>2. Filed' /\ Apart'
    BY <2>1 DEF Filed, Apart
  <2>3. Idle'
    BY <1>11 DEF Settle, OrphanCommit, OrphanAbort, Idle
  <2>4. \A s \in Row : InMemory(s)' <=> InMemory(s) /\ s \notin o.rows
    <3>1. ASSUME NEW s \in Row, InMemory(s)'
          PROVE  InMemory(s) /\ s \notin o.rows
      BY <3>1, <2>1, WhereInMemory DEF Filed, Apart, TypeOK, Batch
    <3>2. ASSUME NEW s \in Row, InMemory(s), s \notin o.rows
          PROVE  InMemory(s)'
      BY <3>2, <2>1, WhereInMemory
    <3> QED
      BY <3>1, <3>2
  <2>5. \A s \in o.rows : InMemory(s)
    BY WhereInMemory
  <2>6. o.rows \in SUBSET Row
    BY DEF TypeOK, Batch
  <2>7. Accounted'
    BY <1>7, <1>11, <2>4, <2>5, <2>6 DEF Settle, OrphanCommit, OrphanAbort, Insert
  <2> QED
    BY <2>2, <2>3, <2>7
<1>12. CASE Exit \/ Crash
  <2> DEFINE new == Abandon(live, Table)
  <2>1. /\ new \subseteq Batch
        /\ \A b \in new : b.table \in Table /\ b.rows = live[b.table]
        /\ \A u \in Table : live[u] # {} => \E b \in new : b.table = u /\ b.rows = live[u]
        /\ \A b, c \in new : b.table = c.table => b = c
    BY AbandonFacts DEF TypeOK
  <2>2. /\ orphans' = orphans \cup new
        /\ \A u \in Table : live'[u] = {} /\ buf'[u] = {}
        /\ lost' = lost \cup RowsIn(buf)
        /\ inserted' = inserted /\ arrival' = arrival
    BY <1>12 DEF Exit, Crash, Vanish, Nothing
  <2> HIDE DEF new
  <2>3. Filed'
    BY <2>1, <2>2 DEF Filed
  <2>4. Apart'
    <3>1. \A b, c \in new : b = c \/ b.rows \cap c.rows = {}
      BY <2>1 DEF Filed
    <3>2. \A o \in orphans, b \in new : o.rows \cap b.rows = {}
      BY <2>1 DEF Filed, Apart, TypeOK, Batch
    <3> QED
      BY <2>1, <2>2, <3>1, <3>2 DEF Apart, TypeOK, Batch
  <2>5. Idle'
    BY <1>12 DEF Exit, Crash, Vanish, Idle
  <2>6. RowsIn(buf) \in SUBSET Row /\ \A s \in RowsIn(buf) : InMemory(s)
    BY DEF RowsIn, TypeOK, InMemory
  <2>7. \A s \in Row : InMemory(s)' <=> InMemory(s) /\ s \notin RowsIn(buf)
    <3>1. ASSUME NEW s \in Row, InMemory(s)'
          PROVE  InMemory(s) /\ s \notin RowsIn(buf)
      BY <3>1, <2>1, <2>2, WhereInMemory DEF Filed, Apart, TypeOK, Batch, RowsIn
    <3>2. ASSUME NEW s \in Row, InMemory(s), s \notin RowsIn(buf)
          PROVE  InMemory(s)'
      BY <3>2, <2>1, <2>2, WhereInMemory DEF RowsIn
    <3> QED
      BY <3>1, <3>2
  <2>8. Accounted'
    BY <1>7, <2>2, <2>6, <2>7
  <2> QED
    BY <2>3, <2>4, <2>5, <2>8
<1> QED
  BY <1>1, <1>3, <1>4, <1>6, <1>8, <1>10, <1>11, <1>12 DEF Next, Answer

LEMMA PlacedInit == Init => Placed
<1> SUFFICES ASSUME Init
             PROVE  Placed
  OBVIOUS
<1>1. \A t \in Table : buf[t] = {} /\ live[t] = {}
  BY DEF Init, Nothing
<1>2. \A s \in Row : ~InMemory(s)
  BY <1>1, WhereInMemory DEF Init
<1> QED
  BY <1>1, <1>2 DEF Init, Placed, Filed, Apart, Idle, Accounted, AtMostOnce,
                    NothingForgotten, Offered

LEMMA PlacedAlways == Spec => []Placed
<1> QED
  BY PlacedInit, PlacedStep, TypeCorrect, PTL DEF Spec

\* No row is stored twice, or stored while it is still on its way or lost.
THEOREM StoredAtMostOnce == Spec => []AtMostOnce
<1>1. Placed => AtMostOnce
  BY DEF Placed, Accounted
<1> QED
  BY <1>1, PlacedAlways, PTL

\* Every row that was added is on its way, stored, or lost.
THEOREM NoRowForgotten == Spec => []NothingForgotten
<1>1. Placed => NothingForgotten
  BY DEF Placed, Accounted
<1> QED
  BY <1>1, PlacedAlways, PTL
-----------------------------------------------------------------------------
(* The orderly run loses nothing *)

LEMMA OrderlyStep == TypeOK /\ Placed /\ Orderly /\ [Next]_vars => Orderly'
<1> SUFFICES ASSUME TypeOK, Placed, Orderly, [Next]_vars, failed' = {}, ~killed'
             PROVE  Orderly'
  BY DEF Orderly
<1>1. failed = {} /\ ~killed /\ ~Crash /\ (\A t \in Table : ~Fail(t) /\ ~FailUnacked(t))
  BY DEF Next, Answer, Commit, Fail, FailUnacked, GatherRaises, Add, FlushBegin,
         Loop, Finish, Settle, OrphanCommit, OrphanAbort, CancelTasks,
         StopWriter, Exit, Crash, Vanish, Restart, vars, TypeOK
<1>2. /\ lost = {} /\ orphans = {}
      /\ pc = "final" => phase = "stopping" /\ buf = Nothing
      /\ pc = "done" => phase \in {"stopping", "down"} /\ buf = Nothing
      /\ pc \in {"sleep", "done"} => live = Nothing
      /\ phase = "down" => pc = "done"
  BY <1>1 DEF Orderly, Placed, Idle
<1>3. CASE \E r \in Row : Add(r)
  BY <1>1, <1>2, <1>3 DEF Add, Orderly
<1>4. CASE FlushBegin
  BY <1>1, <1>2, <1>4 DEF FlushBegin, Orderly
<1>5. CASE \E t \in Table : Commit(t)
  BY <1>1, <1>2, <1>5 DEF Commit, Orderly
<1>6. CASE Loop
  BY <1>1, <1>2, <1>6 DEF Loop, Swap, Orderly
<1>7. CASE Finish
  BY <1>1, <1>2, <1>7 DEF Finish, Orderly
<1>8. CASE CancelTasks \/ StopWriter \/ Restart \/ UNCHANGED vars
  BY <1>1, <1>2, <1>8 DEF CancelTasks, StopWriter, Restart, vars, Orderly
<1>9. CASE Exit
  <2>1. buf = Nothing /\ live = Nothing
    BY <1>2, <1>9 DEF Exit
  <2>2. RowsIn(buf) = {}
    BY <2>1 DEF RowsIn, Nothing
  <2>3. Abandon(live, Table) = {}
    BY <2>1 DEF Abandon, Nothing
  <2> QED
    BY <1>1, <1>2, <1>9, <2>2, <2>3 DEF Exit, Vanish, Orderly
<1> QED
  BY <1>1, <1>2, <1>3, <1>4, <1>5, <1>6, <1>7, <1>8, <1>9
  DEF Next, Answer

LEMMA OrderlyAlways == Spec => []Orderly
<1>1. Init => Orderly
  BY DEF Init, Orderly
<1> QED
  BY <1>1, OrderlyStep, TypeCorrect, PlacedAlways, PTL DEF Spec

\* Without an INSERT error or a kill nothing is lost, and after the orderly
\* shutdown everything that was added is stored.
THEOREM OrderlyShutdown == Spec => []CleanExit
<1>1. TypeOK /\ Placed /\ Orderly => CleanExit
  <2> SUFFICES ASSUME TypeOK, Placed, Orderly, failed = {}, ~killed,
                      phase = "down", NEW r \in Offered
               PROVE  inserted[r] = 1
    BY DEF CleanExit, Orderly
  <2>1. buf = Nothing /\ live = Nothing /\ orphans = {} /\ lost = {}
    BY DEF Orderly, Placed, Idle
  <2>2. ~InMemory(r)
    BY <2>1, WhereInMemory DEF Nothing
  <2> QED
    BY <2>1, <2>2 DEF Placed, Accounted, NothingForgotten
<1> QED
  BY <1>1, OrderlyAlways, TypeCorrect, PlacedAlways, PTL
-----------------------------------------------------------------------------
(* A failure costs rows of its own table only *)

LEMMA LossStep == TypeOK /\ Placed /\ LossIsolated /\ [Next]_vars => LossIsolated'
<1> SUFFICES ASSUME TypeOK, Placed, LossIsolated, [Next]_vars,
                    restarts' = 0, phase' # "down", NEW r \in lost'
             PROVE  TableOf[r] \in failed'
  BY DEF LossIsolated
<1>1. restarts = 0 /\ phase # "down" /\ ~Exit /\ ~Crash /\ ~Restart
  <2>1. ~Exit /\ ~Crash
    BY DEF Exit, Crash, Vanish
  <2>2. ~Restart
    <3>1. restarts \in Nat
      BY DEF TypeOK
    <3> QED
      BY <3>1 DEF Restart
  <2> QED
    BY <2>1, <2>2 DEF Next, Answer, Commit, Fail, FailUnacked, GatherRaises, Add, FlushBegin,
         Loop, Finish, Settle, OrphanCommit, OrphanAbort, CancelTasks,
         StopWriter, vars
<1>2. \A s \in lost : TableOf[s] \in failed
  BY <1>1 DEF LossIsolated
<1>3. CASE \E t \in Table : Fail(t) \/ FailUnacked(t)
  BY <1>2, <1>3 DEF Fail, FailUnacked, GatherRaises, Placed, Filed
<1>4. CASE \E o \in orphans : Settle(o)
  BY <1>1, <1>2, <1>4 DEF Settle, OrphanCommit, OrphanAbort, Placed, Filed
<1>5. CASE /\ ~\E t \in Table : Fail(t) \/ FailUnacked(t)
           /\ ~\E o \in orphans : Settle(o)
  <2>1. lost' = lost /\ failed' = failed
    BY <1>1, <1>5 DEF Next, Answer, Add, FlushBegin, Commit, Loop, Finish,
                      CancelTasks, StopWriter, vars
  <2> QED
    BY <1>2, <2>1
<1> QED
  BY <1>3, <1>4, <1>5

\* While the first process is up, a lost row's own table had an INSERT error.
THEOREM LossesAreIsolated == Spec => []LossIsolated
<1>1. Init => LossIsolated
  BY DEF Init, LossIsolated
<1> QED
  BY <1>1, LossStep, TypeCorrect, PlacedAlways, PTL DEF Spec
-----------------------------------------------------------------------------
(* The first tick with a key wins *)

LEMMA InOrderStep ==
  TypeOK /\ TypeOK' /\ Placed /\ Placed' /\ Orderly /\ Orderly' /\ InOrder /\ [Next]_vars
    => InOrder'
<1> SUFFICES ASSUME TypeOK, TypeOK', Placed, Placed', Orderly, Orderly', InOrder,
                    [Next]_vars
             PROVE  InOrder'
  OBVIOUS
<1>1. CASE \E r \in Row : Add(r)
  <2>1. PICK r \in Row : Add(r)
    BY <1>1
  <2>2. /\ arrival'[r] = clock + 1 /\ clock' = clock + 1 /\ arrival[r] = 0
        /\ \A s \in Row \ {r} : arrival'[s] = arrival[s]
        /\ \A s \in Row : arrival[s] <= clock
        /\ clock \in Nat /\ \A s \in Row : arrival[s] \in Nat
        /\ live' = live /\ spot' = spot /\ inserted' = inserted
        /\ failed' = failed /\ killed' = killed
    BY <2>1 DEF Add, InOrder, TypeOK
  <2>3. \A s \in Row : arrival'[s] <= clock'
    BY <2>2
  <2>4. ASSUME failed = {}, ~killed
        PROVE  InOrder'
    <3>1. /\ ~InMemory(r) /\ inserted[r] = 0
      BY <2>2 DEF Placed, Accounted
    <3>2. \A s \in live["spot"] : s \in Row /\ s # r
      BY <3>1, WhereInMemory DEF TypeOK, Table
    <3>3. \A s \in live'["spot"], b \in buf'["spot"] : arrival'[s] <= arrival'[b]
      <4>1. \A b \in buf'["spot"] : b \in Row /\ (b = r \/ b \in buf["spot"])
        BY <2>1 DEF Add, TypeOK, Table
      <4> QED
        BY <2>2, <2>4, <3>2, <4>1 DEF InOrder
    <3>4. \A k \in Key : \A s \in Rivals(Offered, k)' : s = r \/ s \in Rivals(Offered, k)
      BY <2>2 DEF Rivals, Offered
    <3>5. \A k \in Key : spot'[k] = NoRow =>
            \A s \in Rivals(Offered, k)' : inserted'[s] = 0
      BY <2>2, <2>4, <3>1, <3>4 DEF InOrder
    <3>6. FirstTickWins'
      <4> SUFFICES ASSUME NEW k \in Key, spot[k] # NoRow
                   PROVE  /\ spot[k] \in Rivals(Offered, k)'
                          /\ \A s \in Rivals(Offered, k)' : arrival'[spot[k]] <= arrival'[s]
        BY <2>2 DEF FirstTickWins
      <4>1. /\ spot[k] \in Rivals(Offered, k)
            /\ \A s \in Rivals(Offered, k) : arrival[spot[k]] <= arrival[s]
        BY <2>4 DEF InOrder, FirstTickWins
      <4>2. spot[k] \in Row /\ spot[k] # r /\ arrival'[spot[k]] = arrival[spot[k]]
        BY <2>2, <4>1 DEF Rivals, Offered
      <4>3. spot[k] \in Rivals(Offered, k)'
        BY <4>1, <4>2 DEF Rivals, Offered
      <4>4. ASSUME NEW s \in Rivals(Offered, k)'
            PROVE  arrival'[spot[k]] <= arrival'[s]
        <5>1. CASE s = r
          BY <2>2, <4>2, <5>1
        <5>2. CASE s # r
          <6>1. s \in Rivals(Offered, k) /\ s \in Row
            BY <3>4, <4>4, <5>2 DEF Rivals, Offered
          <6> QED
            BY <2>2, <4>1, <4>2, <5>2, <6>1
        <5> QED
          BY <5>1, <5>2
      <4> QED
        BY <4>3, <4>4
    <3> QED
      BY <2>3, <3>3, <3>5, <3>6 DEF InOrder
  <2> QED
    BY <2>2, <2>3, <2>4 DEF InOrder
<1>2. ASSUME UNCHANGED <<arrival, clock>>,
             \/ failed' # {} \/ killed'
             \/ /\ UNCHANGED <<spot, inserted, failed, killed>>
                /\ \/ UNCHANGED <<buf, live>>
                   \/ buf'["spot"] = {}
      PROVE  InOrder'
  <2>1. \A k \in Key : Rivals(Offered, k)' = Rivals(Offered, k)
    BY <1>2 DEF Rivals, Offered
  <2> QED
    BY <1>2, <2>1 DEF InOrder, FirstTickWins
<1>3. Nothing["spot"] = {}
  BY DEF Nothing, Table
<1>4. ASSUME NEW t \in Table, Commit(t)
      PROVE  InOrder'
  <2>1. /\ live[t] \in SUBSET Row /\ live[t] # {}
        /\ UNCHANGED <<arrival, clock, buf, failed, killed>>
        /\ spot' = SpotAfter(live[t]) /\ inserted' = InsertedAfter(live[t])
        /\ live' = [live EXCEPT ![t] = {}]
    BY <1>4 DEF Commit, Insert, TypeOK
  <2>2. \A k \in Key : Rivals(Offered, k)' = Rivals(Offered, k)
    BY <2>1 DEF Rivals, Offered
  <2>3. ASSUME failed = {}, ~killed
        PROVE  InOrder'
    <3>1. \A s \in live'["spot"], b \in buf'["spot"] : arrival'[s] <= arrival'[b]
      <4>1. live'["spot"] \subseteq live["spot"]
        BY <2>1 DEF TypeOK, Table
      <4> QED
        BY <2>1, <2>3, <4>1 DEF InOrder
    <3>2. ASSUME NEW k \in Key
          PROVE  /\ spot'[k] = NoRow => \A s \in Rivals(Offered, k) : inserted'[s] = 0
                 /\ spot'[k] # NoRow =>
                      /\ spot'[k] \in Rivals(Offered, k)
                      /\ \A s \in Rivals(Offered, k) : arrival[spot'[k]] <= arrival[s]
      <4>1. Rivals(live[t], k) \subseteq Rivals(Offered, k)
        <5>1. \A s \in live[t] : s \in Row /\ arrival[s] # 0
          BY <2>1, WhereInMemory DEF Placed, Accounted
        <5> QED
          BY <5>1 DEF Rivals, Offered
      <4>2. CASE spot[k] # NoRow
        BY <2>1, <2>3, <4>2 DEF SpotAfter, InOrder, FirstTickWins
      <4>3. CASE spot[k] = NoRow /\ Rivals(live[t], k) = {}
        <5>1. spot'[k] = NoRow
          BY <2>1, <4>3 DEF SpotAfter
        <5>2. \A s \in Rivals(Offered, k) : s \in Row /\ s \notin live[t] /\ inserted[s] = 0
          BY <2>3, <4>3 DEF InOrder, Rivals, Offered
        <5> QED
          BY <2>1, <5>1, <5>2 DEF InsertedAfter
      <4>4. CASE spot[k] = NoRow /\ Rivals(live[t], k) # {}
        <5>1. spot'[k] = Earliest(Rivals(live[t], k))
          BY <2>1, <4>4 DEF SpotAfter
        <5>2. /\ Rivals(live[t], k) \in SUBSET Row
              /\ arrival \in [Row -> Nat]
          BY <2>1 DEF Rivals, TypeOK
        <5>3. /\ spot'[k] \in Rivals(live[t], k)
              /\ \A s \in Rivals(live[t], k) : arrival[spot'[k]] <= arrival[s]
          BY <4>4, <5>1, <5>2, EarliestIsFirst
        <5>4. t = "spot" /\ spot'[k] \in live["spot"]
          BY <5>3 DEF Rivals, Placed, Filed
        <5>5. ASSUME NEW s \in Rivals(Offered, k), s \notin Rivals(live[t], k)
              PROVE  arrival[spot'[k]] <= arrival[s]
          <6>1. s \in Row /\ TableOf[s] = "spot" /\ s \notin live["spot"]
            BY <5>4, <5>5 DEF Rivals, Offered
          <6>2. inserted[s] = 0 /\ s \notin lost /\ orphans = {}
            BY <2>3, <4>4 DEF InOrder, Orderly
          <6>3. InMemory(s)
            BY <6>2 DEF Placed, Accounted, NothingForgotten, Rivals
          <6>4. s \in buf["spot"]
            BY <6>1, <6>2, <6>3, WhereInMemory DEF Placed, Filed
          <6> QED
            BY <2>3, <5>4, <6>4 DEF InOrder
        <5>6. spot'[k] # NoRow
          BY <5>2, <5>3
        <5> QED
          BY <4>1, <5>3, <5>5, <5>6
      <4> QED
        BY <4>2, <4>3, <4>4
    <3> QED
      BY <2>1, <2>2, <3>1, <3>2 DEF InOrder, FirstTickWins
  <2> QED
    BY <2>1, <2>3 DEF InOrder
<1>5. ASSUME NEW t \in Table, Fail(t) \/ FailUnacked(t)
      PROVE  InOrder'
  BY <1>2, <1>5 DEF Fail, FailUnacked, GatherRaises
<1>6. ASSUME NEW o \in orphans, Settle(o)
      PROVE  InOrder'
  <2>1. failed' # {} \/ killed'
    BY <1>6 DEF Settle, OrphanCommit, OrphanAbort, Orderly
  <2> QED
    BY <1>2, <1>6, <2>1 DEF Settle, OrphanCommit, OrphanAbort
<1>7. CASE FlushBegin \/ Loop
  BY <1>2, <1>3, <1>7 DEF FlushBegin, Loop, Swap
<1>8. CASE Finish \/ CancelTasks \/ StopWriter \/ Restart \/ UNCHANGED vars
  BY <1>2, <1>8 DEF Finish, CancelTasks, StopWriter, Restart, vars
<1>9. CASE Exit \/ Crash
  BY <1>2, <1>3, <1>9 DEF Exit, Crash, Vanish
<1> QED
  BY <1>1, <1>4, <1>5, <1>6, <1>7, <1>8, <1>9 DEF Next, Answer

LEMMA InOrderAlways == Spec => []InOrder
<1>1. Init => InOrder
  BY DEF Init, InOrder, FirstTickWins, Rivals, Offered, Nothing, Table
<1> QED
  BY <1>1, InOrderStep, TypeCorrect, PlacedAlways, OrderlyAlways, PTL DEF Spec

\* In an orderly run btc_spot holds, under each key, the first tick added.
THEOREM FirstTickStored == Spec => []FirstTickWins
<1>1. Spec => [](failed = {} /\ ~killed => FirstTickWins)
  <2>1. InOrder => (failed = {} /\ ~killed => FirstTickWins)
    BY DEF InOrder
  <2> QED
    BY <2>1, InOrderAlways, PTL
<1>2. (failed = {} /\ ~killed => FirstTickWins) => FirstTickWins
  BY DEF FirstTickWins
<1> QED
  BY <1>1, <1>2, PTL
-----------------------------------------------------------------------------
(* The writer implements the at-most-once sink *)

LEMMA StatusFacts ==
  /\ Status = [r \in Row |-> Status[r]]
  /\ \A r \in Row :
       Status[r] = IF inserted[r] # 0 THEN "kept"
                   ELSE IF r \in lost THEN "lost"
                   ELSE IF arrival[r] # 0 THEN "pending" ELSE "new"
BY DEF Status

LEMMA PendingInMemory ==
  ASSUME TypeOK, Placed, NEW r \in Row, InMemory(r)
  PROVE  Status[r] = "pending" /\ inserted[r] = 0 /\ r \notin lost /\ arrival[r] # 0
BY StatusFacts DEF Placed, Accounted

LEMMA KeepStep ==
  ASSUME TypeOK, Placed, NEW t \in Table, NEW rows \in SUBSET Row,
         \A r \in rows : InMemory(r) /\ TableOf[r] = t,
         Insert(rows), UNCHANGED <<lost, arrival>>, TypeOK'
  PROVE  Sink!Keep(t, rows)
<1>1. \A r \in rows : Status[r] = "pending" /\ inserted[r] = 0
  BY PendingInMemory
<1>2. rows \subseteq Sink!Pending(t)
  BY <1>1 DEF Sink!Pending
<1>3. Sink!Move(rows, "kept")
  <2>1. \A r \in Row : inserted'[r] = IF r \in rows THEN inserted[r] + 1 ELSE inserted[r]
    BY DEF Insert, InsertedAfter
  <2>2. \A r \in rows : inserted'[r] # 0
    BY <1>1, <2>1
  <2>3. Status' = [r \in Row |-> IF r \in rows THEN "kept" ELSE Status[r]]
    BY <2>1, <2>2 DEF Status
  <2> QED
    BY <2>3 DEF Sink!Move
<1>4. \A k \in Key : Sink!Candidates(rows, k) = Rivals(rows, k)
  BY DEF Sink!Candidates, Rivals
<1>5. spot' \in [Key -> Row \cup {NoRow}]
  BY DEF TypeOK
<1>6. ASSUME NEW k \in Key
      PROVE  IF spot[k] # NoRow \/ Rivals(rows, k) = {}
             THEN spot'[k] = spot[k] ELSE spot'[k] \in Rivals(rows, k)
  <2>1. Rivals(rows, k) # {} => Earliest(Rivals(rows, k)) \in Rivals(rows, k)
    BY EarliestIsFirst DEF Rivals, TypeOK
  <2> QED
    BY <2>1 DEF Insert, SpotAfter
<1> QED
  BY <1>2, <1>3, <1>4, <1>5, <1>6 DEF Sink!Keep

LEMMA LoseStep ==
  ASSUME TypeOK, Placed, NEW rows \in SUBSET Row,
         \A r \in rows : InMemory(r),
         lost' = lost \cup rows, UNCHANGED <<spot, inserted, arrival>>
  PROVE  Sink!Lose(rows)
<1>1. \A r \in rows : Status[r] = "pending" /\ inserted[r] = 0
  BY PendingInMemory
<1>2. Status' = [r \in Row |-> IF r \in rows THEN "lost" ELSE Status[r]]
  BY <1>1 DEF Status
<1> QED
  BY <1>1, <1>2 DEF Sink!Lose, Sink!Move

LEMMA SinkStep ==
  TypeOK /\ TypeOK' /\ Placed /\ [Next]_vars => [Sink!Next]_(Sink!vars)
<1> SUFFICES ASSUME TypeOK, TypeOK', Placed, [Next]_vars
             PROVE  [Sink!Next]_(Sink!vars)
  OBVIOUS
<1>1. ASSUME NEW r \in Row, Add(r)
      PROVE  Sink!Next
  <2>1. inserted[r] = 0 /\ r \notin lost /\ arrival[r] = 0
    BY <1>1 DEF Add, Placed, Accounted
  <2>2. Status[r] = "new"
    BY <2>1, StatusFacts
  <2>3. /\ arrival'[r] # 0 /\ \A s \in Row \ {r} : arrival'[s] = arrival[s]
        /\ UNCHANGED <<inserted, lost, spot>>
    BY <1>1 DEF Add, TypeOK
  <2>4. Status' = [s \in Row |-> IF s \in {r} THEN "pending" ELSE Status[s]]
    BY <2>1, <2>3 DEF Status
  <2>5. Sink!Offer(r)
    BY <2>2, <2>3, <2>4 DEF Sink!Offer, Sink!Move
  <2> QED
    BY <2>5 DEF Sink!Next
<1>2. ASSUME NEW t \in Table, NEW rows \in SUBSET Row, Sink!Keep(t, rows)
      PROVE  Sink!Next
  BY <1>2 DEF Sink!Next
<1>3. ASSUME NEW rows \in SUBSET Row, Sink!Lose(rows)
      PROVE  Sink!Next
  BY <1>3 DEF Sink!Next
<1>4. ASSUME NEW t \in Table, Answer(t)
      PROVE  Sink!Next
  <2>1. /\ live[t] \in SUBSET Row
        /\ \A r \in live[t] : InMemory(r) /\ TableOf[r] = t
    BY WhereInMemory DEF TypeOK, Placed, Filed
  <2>2. CASE Commit(t)
    <3>1. Sink!Keep(t, live[t])
      BY <2>1, <2>2, KeepStep DEF Commit
    <3> QED
      BY <1>2, <2>1, <3>1
  <2>3. CASE Fail(t)
    <3>1. Sink!Lose(live[t])
      BY <2>1, <2>3, LoseStep DEF Fail, GatherRaises
    <3> QED
      BY <1>3, <2>1, <3>1
  <2>4. CASE FailUnacked(t)
    <3>1. Sink!Keep(t, live[t])
      BY <2>1, <2>4, KeepStep DEF FailUnacked, GatherRaises
    <3> QED
      BY <1>2, <2>1, <3>1
  <2> QED
    BY <1>4, <2>2, <2>3, <2>4 DEF Answer
<1>5. ASSUME NEW o \in orphans, Settle(o)
      PROVE  Sink!Next
  <2>1. /\ o.rows \in SUBSET Row /\ o.table \in Table
        /\ \A r \in o.rows : InMemory(r) /\ TableOf[r] = o.table
    BY WhereInMemory DEF TypeOK, Batch, Placed, Filed
  <2>2. CASE OrphanCommit(o)
    <3>1. Sink!Keep(o.table, o.rows)
      BY <2>1, <2>2, KeepStep DEF OrphanCommit
    <3> QED
      BY <1>2, <2>1, <3>1
  <2>3. CASE OrphanAbort(o)
    <3>1. Sink!Lose(o.rows)
      BY <2>1, <2>3, LoseStep DEF OrphanAbort
    <3> QED
      BY <1>3, <2>1, <3>1
  <2> QED
    BY <1>5, <2>2, <2>3 DEF Settle
<1>6. ASSUME Vanish
      PROVE  Sink!Next
  <2>1. RowsIn(buf) \in SUBSET Row /\ \A r \in RowsIn(buf) : InMemory(r)
    BY DEF RowsIn, TypeOK, InMemory
  <2>2. Sink!Lose(RowsIn(buf))
    BY <1>6, <2>1, LoseStep DEF Vanish
  <2> QED
    BY <1>3, <2>1, <2>2
<1>7. ASSUME UNCHANGED <<inserted, lost, arrival, spot>>
      PROVE  UNCHANGED Sink!vars
  BY <1>7 DEF Status, Sink!vars
<1>8. CASE FlushBegin \/ Loop \/ Finish \/ CancelTasks \/ StopWriter \/ Restart \/ UNCHANGED vars
  BY <1>7, <1>8 DEF FlushBegin, Loop, Finish, CancelTasks, StopWriter, Restart, vars
<1> QED
  BY <1>1, <1>4, <1>5, <1>6, <1>8 DEF Next, Exit, Crash

\* The writer is an at-most-once sink.
THEOREM WriterIsASink == Spec => ImplementsSink
<1>1. Init => Sink!Init
  BY DEF Init, Status, Sink!Init
<1> QED
  BY <1>1, SinkStep, TypeCorrect, PlacedAlways, PTL DEF Spec, ImplementsSink, Sink!Spec
=============================================================================
