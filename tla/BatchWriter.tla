---------------------------- MODULE BatchWriter ----------------------------
(***************************************************************************)
(* The collector's write path: BatchWriter (db.py), the process life cycle *)
(* of _amain (main.py) around it, and the three tables it fills.           *)
(*                                                                         *)
(* A Row is one call of add_spot, add_book or add_trade.  The writer's     *)
(* three lists are sets here and `arrival' keeps their order.  A flush     *)
(* swaps the lists out and runs one INSERT transaction per table under     *)
(* asyncio.gather, which returns when all are done or AS SOON AS ONE       *)
(* FAILS: the others then go on with nobody waiting for them (`orphans').  *)
(***************************************************************************)
EXTENDS Naturals, FiniteSets

CONSTANTS Row,          \* rows the feeds can produce
          Key,          \* (ts, source) pairs, the primary key of btc_spot
          NoRow,        \* "no row under this key"
          TableOf,      \* the list a row is appended to
          KeyOf,        \* the key of a row; matters for spot rows only
          MaxRestarts   \* bound: how often the container is started again

Table == {"spot", "book", "trades"}

ASSUME TableOfAssumption == TableOf \in [Row -> Table]
ASSUME KeyOfAssumption == KeyOf \in [Row -> Key]
ASSUME NoRowAssumption == NoRow \notin Row
ASSUME MaxRestartsAssumption == MaxRestarts \in Nat

VARIABLES
  buf,        \* _spot, _book and _trades: rows not yet taken by a flush
  live,       \* the batches the current _flush awaits, {} once inserted
  orphans,    \* batches [table, rows] whose transaction nobody awaits
  pc,         \* where the _runner task is
  phase,      \* how far the process is: _amain and the writer's _stopping
  arrival,    \* 0, or the moment the row was added
  clock,      \* the number of rows added so far
  spot,       \* btc_spot: the row stored under each key
  inserted,   \* how many committed transactions inserted the row
  lost,       \* history: rows that no longer are anywhere
  failed,     \* history: tables on which an INSERT raised
  killed,     \* history: the process was killed at least once
  restarts

vars == <<buf, live, orphans, pc, phase, arrival, clock, spot, inserted,
          lost, failed, killed, restarts>>

Phase == {"running",     \* the producers run
          "cancelled",   \* their tasks were cancelled and gathered
          "stopping",    \* writer.stop() was called and awaits the runner
          "down"}        \* the process is gone
PC == {"sleep", "gather", "final", "done"}

Nothing == [t \in Table |-> {}]

RowsIn(f) == UNION {f[t] : t \in Table}
OrphanRows == UNION {o.rows : o \in orphans}
Batch == [table : Table, rows : SUBSET Row]

\* The transactions of `f' that still run and belong to another table.
Abandon(f, ts) ==
  {b \in Batch : b.table \in ts /\ b.rows = f[b.table] /\ b.rows # {}}

Offered == {r \in Row : arrival[r] # 0}

TypeOK ==
  /\ buf \in [Table -> SUBSET Row]
  /\ live \in [Table -> SUBSET Row]
  /\ orphans \subseteq Batch
  /\ pc \in PC
  /\ phase \in Phase
  /\ arrival \in [Row -> Nat]
  /\ clock \in Nat
  /\ spot \in [Key -> Row \cup {NoRow}]
  /\ inserted \in [Row -> Nat]
  /\ lost \subseteq Row
  /\ failed \subseteq Table
  /\ killed \in BOOLEAN
  /\ restarts \in 0..MaxRestarts

Init ==
  /\ buf = Nothing
  /\ live = Nothing
  /\ orphans = {}
  /\ pc = "sleep"
  /\ phase = "running"
  /\ arrival = [r \in Row |-> 0]
  /\ clock = 0
  /\ spot = [k \in Key |-> NoRow]
  /\ inserted = [r \in Row |-> 0]
  /\ lost = {}
  /\ failed = {}
  /\ killed = FALSE
  /\ restarts = 0
-----------------------------------------------------------------------------
(* The tables *)

\* The rows of a batch that carry key k.
Rivals(rows, k) == {r \in rows : TableOf[r] = "spot" /\ KeyOf[r] = k}

\* Variant: the batch is written newest row first.
Latest(rows) == CHOOSE r \in rows : \A s \in rows : arrival[r] >= arrival[s]

\* executemany runs in list order, so the first row added goes first.
Earliest(rows) == CHOOSE r \in rows : \A s \in rows : arrival[r] <= arrival[s]

\* Variant: ON CONFLICT DO UPDATE.
SpotOverwritten(rows) ==
  [k \in Key |-> IF Rivals(rows, k) = {}
                 THEN spot[k] ELSE Earliest(Rivals(rows, k))]

\* INSERT ... ON CONFLICT (ts, source) DO NOTHING, for a whole batch.
SpotAfter(rows) ==
  [k \in Key |-> IF spot[k] # NoRow \/ Rivals(rows, k) = {}
                 THEN spot[k] ELSE Earliest(Rivals(rows, k))]

\* pm_book and pm_trades have no unique key: a second INSERT of a row is a
\* second row, which is why the transactions that inserted a row are counted.
InsertedAfter(rows) ==
  [r \in Row |-> IF r \in rows THEN inserted[r] + 1 ELSE inserted[r]]

Insert(rows) == /\ spot' = SpotAfter(rows)
                /\ inserted' = InsertedAfter(rows)
-----------------------------------------------------------------------------
(* The feeds *)

\* add_spot, add_book, add_trade: the feeds run until their tasks are cancelled.
Add(r) ==
  /\ phase = "running"
  /\ arrival[r] = 0
  /\ buf' = [buf EXCEPT ![TableOf[r]] = @ \cup {r}]
  /\ clock' = clock + 1
  /\ arrival' = [arrival EXCEPT ![r] = clock + 1]
  /\ UNCHANGED <<live, orphans, pc, phase, spot, inserted, lost, failed,
                 killed, restarts>>
-----------------------------------------------------------------------------
(* The runner *)

\* Variant: the swap forgets to put a fresh list in place of two of the lists.
SwapForgets == /\ live' = buf
               /\ buf' = [t \in {"spot"} |-> {}]

\* The swap under the lock; the runner is its only user.
Swap == /\ live' = buf
        /\ buf' = Nothing

\* asyncio.sleep(flush_interval) is over and _flush starts.
FlushBegin ==
  /\ phase # "down"
  /\ pc = "sleep"
  /\ pc' = "gather"
  /\ Swap
  /\ UNCHANGED <<orphans, phase, arrival, clock, spot, inserted, lost, failed,
                 killed, restarts>>

\* One insert_*_many of the current flush has committed.
Commit(t) ==
  /\ live[t] # {}
  /\ Insert(live[t])
  /\ live' = [live EXCEPT ![t] = {}]
  /\ UNCHANGED <<buf, orphans, pc, phase, arrival, clock, lost, failed,
                 killed, restarts>>

\* Variants of GatherRaises: the rows go back into the list for another try;
\* the batches of the other tables are dropped; nothing catches the exception.
GatherRaisesRebuffers(t) ==
  /\ live[t] # {}
  /\ live' = Nothing
  /\ buf' = [buf EXCEPT ![t] = @ \cup live[t]]
  /\ orphans' = orphans \cup Abandon(live, Table \ {t})
  /\ failed' = failed \cup {t}
  /\ UNCHANGED <<pc, phase, arrival, clock, killed, restarts>>

GatherRaisesDrops(t) ==
  /\ live[t] # {}
  /\ live' = Nothing
  /\ failed' = failed \cup {t}
  /\ UNCHANGED <<buf, orphans, pc, phase, arrival, clock, killed, restarts>>

GatherRaisesUncaught(t) ==
  /\ live[t] # {}
  /\ live' = Nothing
  /\ orphans' = orphans \cup Abandon(live, Table \ {t})
  /\ failed' = failed \cup {t}
  /\ pc' = "done"
  /\ UNCHANGED <<buf, phase, arrival, clock, killed, restarts>>

\* One insert_*_many raised: gather raises at once, _flush logs and returns,
\* and the transactions of the other tables are left running.
GatherRaises(t) ==
  /\ live[t] # {}
  /\ live' = Nothing
  /\ orphans' = orphans \cup Abandon(live, Table \ {t})
  /\ failed' = failed \cup {t}
  /\ UNCHANGED <<buf, pc, phase, arrival, clock, killed, restarts>>

\* Variant: the failure of one INSERT cancels the others.
FailCancelsSiblings(t) ==
  /\ live[t] # {}
  /\ live' = Nothing
  /\ failed' = failed \cup {t}
  /\ lost' = lost \cup RowsIn(live)
  /\ UNCHANGED <<buf, orphans, pc, phase, arrival, clock, spot, inserted,
                 killed, restarts>>

\* ... after a rollback: nothing re-buffers the rows.
Fail(t) == /\ GatherRaises(t)
           /\ lost' = lost \cup live[t]
           /\ UNCHANGED <<spot, inserted>>

\* ... after the server committed, the connection broke before it said so.
FailUnacked(t) == /\ GatherRaises(t)
                  /\ Insert(live[t])
                  /\ UNCHANGED lost

\* Variants of Loop: no final flush; a loop that does not look at _stopping.
LoopNoFinal ==
  /\ phase # "down"
  /\ pc = "gather"
  /\ live = Nothing
  /\ pc' = IF phase = "stopping" THEN "final" ELSE "sleep"
  /\ UNCHANGED <<buf, live, orphans, phase, arrival, clock, spot, inserted,
                 lost, failed, killed, restarts>>

LoopForever ==
  /\ phase # "down"
  /\ pc = "gather"
  /\ live = Nothing
  /\ pc' = "sleep"
  /\ UNCHANGED <<buf, live, orphans, phase, arrival, clock, spot, inserted,
                 lost, failed, killed, restarts>>

\* gather has returned or raised and the runner goes round its loop: another
\* sleep, or the final flush once _stopping is set.
Loop ==
  /\ phase # "down"
  /\ pc = "gather"
  /\ live = Nothing
  /\ IF phase = "stopping"
     THEN pc' = "final" /\ Swap
     ELSE pc' = "sleep" /\ UNCHANGED <<buf, live>>
  /\ UNCHANGED <<orphans, phase, arrival, clock, spot, inserted, lost, failed,
                 killed, restarts>>

\* The final flush is over and the runner task ends.
Finish ==
  /\ pc = "final"
  /\ live = Nothing
  /\ pc' = "done"
  /\ UNCHANGED <<buf, live, orphans, phase, arrival, clock, spot, inserted,
                 lost, failed, killed, restarts>>
-----------------------------------------------------------------------------
(* Transactions nobody awaits: the database still decides each of them *)

OrphanCommit(o) ==
  /\ o \in orphans
  /\ Insert(o.rows)
  /\ orphans' = orphans \ {o}
  /\ UNCHANGED <<buf, live, pc, phase, arrival, clock, lost, failed, killed,
                 restarts>>

\* Rolled back: an error, or cancelled together with the process.
OrphanAbort(o) ==
  /\ o \in orphans
  /\ lost' = lost \cup o.rows
  /\ orphans' = orphans \ {o}
  /\ failed' = IF phase = "down" THEN failed ELSE failed \cup {o.table}
  /\ UNCHANGED <<buf, live, pc, phase, arrival, clock, spot, inserted, killed,
                 restarts>>
-----------------------------------------------------------------------------
(* The process *)

\* SIGINT or SIGTERM: the producers are cancelled and gathered.
CancelTasks ==
  /\ phase = "running"
  /\ phase' = "cancelled"
  /\ UNCHANGED <<buf, live, orphans, pc, arrival, clock, spot, inserted, lost,
                 failed, killed, restarts>>

\* await writer.stop()
StopWriter ==
  /\ phase = "cancelled"
  /\ phase' = "stopping"
  /\ UNCHANGED <<buf, live, orphans, pc, arrival, clock, spot, inserted, lost,
                 failed, killed, restarts>>

\* The process ends: what is still in its memory is gone.
Vanish ==
  /\ phase' = "down"
  /\ pc' = "done"
  /\ buf' = Nothing
  /\ live' = Nothing
  /\ lost' = lost \cup RowsIn(buf)
  /\ orphans' = orphans \cup Abandon(live, Table)
  /\ UNCHANGED <<arrival, clock, spot, inserted, failed, restarts>>

\* writer.stop() returned; close_pool() and the end of asyncio.run follow.
Exit ==
  /\ phase = "stopping"
  /\ pc = "done"
  /\ Vanish
  /\ UNCHANGED killed

\* SIGKILL, out of memory, power.
Crash ==
  /\ phase # "down"
  /\ Vanish
  /\ killed' = TRUE

\* restart: unless-stopped; the database kept what was committed.
Restart ==
  /\ phase = "down"
  /\ restarts < MaxRestarts
  /\ restarts' = restarts + 1
  /\ phase' = "running"
  /\ pc' = "sleep"
  /\ UNCHANGED <<buf, live, orphans, arrival, clock, spot, inserted, lost,
                 failed, killed>>

Answer(t) == Commit(t) \/ Fail(t) \/ FailUnacked(t)
Settle(o) == OrphanCommit(o) \/ OrphanAbort(o)

Next ==
  \/ \E r \in Row : Add(r)
  \/ FlushBegin
  \/ \E t \in Table : Answer(t)
  \/ Loop
  \/ Finish
  \/ \E o \in orphans : Settle(o)
  \/ CancelTasks
  \/ StopWriter
  \/ Exit
  \/ Crash
  \/ Restart

Spec == Init /\ [][Next]_vars

\* The event loop runs every ready task and every sleep ends; a statement or
\* its connection's timeout answers; the database resolves every transaction.
\* Nothing forces a tick, a signal, a crash or a restart.
Fairness ==
  /\ WF_vars(FlushBegin) /\ WF_vars(Loop) /\ WF_vars(Finish)
  /\ WF_vars(StopWriter) /\ WF_vars(Exit)
  /\ \A t \in Table : WF_vars(Answer(t))
  /\ WF_vars(\E o \in orphans : Settle(o))

LiveSpec == Spec /\ Fairness
-----------------------------------------------------------------------------
(* Properties *)

InMemory(r) == \/ r \in RowsIn(buf)
               \/ r \in RowsIn(live)
               \/ r \in OrphanRows

\* No row is stored twice, whatever fails, is acknowledged late or is
\* restarted, and a row on its way or lost is not stored: db.py re-buffers
\* nothing, and a batch has one transaction.
AtMostOnce ==
  \A r \in Row : /\ inserted[r] <= 1
                 /\ inserted[r] = 1 => ~InMemory(r) /\ r \notin lost

\* No row slips between the lists during a swap, a failed gather or a stop:
\* an added row is on its way, stored, or was lost in an accounted way.
NothingForgotten ==
  \A r \in Offered : InMemory(r) \/ inserted[r] = 1 \/ r \in lost

\* Without an INSERT error or a kill no row is lost, and when the orderly
\* shutdown of _amain is through everything that was added is stored.
CleanExit ==
  failed = {} /\ ~killed =>
    /\ lost = {}
    /\ phase = "down" => \A r \in Offered : inserted[r] = 1

\* While the first process is up, a row is lost only if an INSERT into its own
\* table raised: one table's failure does not cost another table's rows, even
\* though gather stops waiting for them.
LossIsolated ==
  restarts = 0 /\ phase # "down" => \A r \in lost : TableOf[r] \in failed

\* Of the spot rows with one (ts, source) the first one added is stored,
\* unless an INSERT error or a kill reordered or dropped batches.
FirstTickWins ==
  failed = {} /\ ~killed =>
    \A k \in Key : spot[k] # NoRow =>
      /\ spot[k] \in Rivals(Offered, k)
      /\ \A r \in Rivals(Offered, k) : arrival[spot[k]] <= arrival[r]

\* Every added row is eventually stored or lost: none stays in a list for ever.
EverySettles ==
  \A r \in Row : arrival[r] # 0 ~> (inserted[r] = 1 \/ r \in lost)

\* Once the tasks are cancelled the collector goes down, whatever the database
\* answers: writer.stop() never waits for ever.
StopTerminates == phase = "cancelled" ~> phase = "down"

-----------------------------------------------------------------------------
(* The inductive strengthening of the safety properties *)

\* Rows are in the list, batch or transaction of their own table ...
Filed ==
  /\ \A t \in Table : \A r \in buf[t] \cup live[t] : TableOf[r] = t
  /\ \A o \in orphans : \A r \in o.rows : TableOf[r] = o.table

\* ... and in one of them only.
Apart ==
  /\ \A t \in Table : buf[t] \cap live[t] = {}
  /\ \A o \in orphans : o.rows \cap (buf[o.table] \cup live[o.table]) = {}
  /\ \A o, p \in orphans : o = p \/ o.rows \cap p.rows = {}

\* Only a runner in a flush has transactions to wait for.
Idle == /\ pc \in {"sleep", "done"} => live = Nothing
        /\ phase = "down" => pc = "done"

\* Rows never added are nowhere; the others are in exactly one place.
Accounted ==
  /\ \A r \in Row : arrival[r] = 0 =>
       ~InMemory(r) /\ inserted[r] = 0 /\ r \notin lost
  /\ \A r \in Row : InMemory(r) => inserted[r] = 0 /\ r \notin lost
  /\ AtMostOnce
  /\ NothingForgotten

\* The orderly run: nothing is abandoned, and the final flush is final.
Orderly ==
  failed = {} /\ ~killed =>
    /\ lost = {}
    /\ orphans = {}
    /\ pc = "final" => phase = "stopping" /\ buf = Nothing
    /\ pc = "done" => phase \in {"stopping", "down"} /\ buf = Nothing

\* The orderly run stores spot rows in the order they were added.
InOrder ==
  /\ \A r \in Row : arrival[r] <= clock
  /\ failed = {} /\ ~killed =>
       /\ \A r \in live["spot"], s \in buf["spot"] : arrival[r] <= arrival[s]
       /\ \A k \in Key : spot[k] = NoRow =>
            \A r \in Rivals(Offered, k) : inserted[r] = 0
       /\ FirstTickWins

IInv == /\ TypeOK /\ Filed /\ Apart /\ Idle /\ Accounted
        /\ Orderly /\ LossIsolated /\ InOrder
-----------------------------------------------------------------------------
(* What the writer implements *)

Status ==
  [r \in Row |-> IF inserted[r] # 0 THEN "kept"
                 ELSE IF r \in lost THEN "lost"
                 ELSE IF arrival[r] # 0 THEN "pending" ELSE "new"]

\* The writer is an at-most-once sink: it implements RowSink.
Sink == INSTANCE RowSink WITH status <- Status, view <- spot

ImplementsSink == Sink!Spec
=============================================================================
