------------------------------ MODULE RowSink ------------------------------
(***************************************************************************)
(* What the collector's feeds may rely on when they hand a row to the      *)
(* batch writer: an at-most-once sink.  A row that was offered is pending  *)
(* until it is kept (its INSERT committed) or lost; both are final.  Rows  *)
(* are kept a batch of one table at a time, all or none.  Of the btc_spot  *)
(* rows with one (ts, source) key the first batch that is kept decides     *)
(* which one readers see, and that never changes (ON CONFLICT DO NOTHING). *)
(***************************************************************************)
CONSTANTS Row, Key, NoRow, Table, TableOf, KeyOf

VARIABLES status,   \* [Row -> {"new", "pending", "kept", "lost"}]
          view      \* the btc_spot row readers see under each key

vars == <<status, view>>

Pending(t) == {r \in Row : status[r] = "pending" /\ TableOf[r] = t}

Init == /\ status = [r \in Row |-> "new"]
        /\ view = [k \in Key |-> NoRow]

Move(S, s) == status' = [r \in Row |-> IF r \in S THEN s ELSE status[r]]

Offer(r) == /\ status[r] = "new"
            /\ Move({r}, "pending")
            /\ UNCHANGED view

Candidates(S, k) == {r \in S : TableOf[r] = "spot" /\ KeyOf[r] = k}

Keep(t, S) ==
  /\ S \subseteq Pending(t)
  /\ Move(S, "kept")
  /\ view' \in [Key -> Row \cup {NoRow}]
  /\ \A k \in Key :
       IF view[k] # NoRow \/ Candidates(S, k) = {}
       THEN view'[k] = view[k]
       ELSE view'[k] \in Candidates(S, k)

Lose(S) == /\ \A r \in S : status[r] = "pending"
           /\ Move(S, "lost")
           /\ UNCHANGED view

Next == \/ \E r \in Row : Offer(r)
        \/ \E t \in Table, S \in SUBSET Row : Keep(t, S)
        \/ \E S \in SUBSET Row : Lose(S)

Spec == Init /\ [][Next]_vars
=============================================================================
