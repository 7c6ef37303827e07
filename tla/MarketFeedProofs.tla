-------------------------- MODULE MarketFeedProofs --------------------------
(***************************************************************************)
(* The safety properties of MarketFeed, for every set of markets and every *)
(* number of drops and failures.                                           *)
(***************************************************************************)
EXTENDS MarketFeed, IntegerFacts, TLAPS

\* Who is inside ws.send on a socket that is closed, not just about to be, will
\* get an exception, and an initial frame meets only the end of its own connection.
DoomIsKnown ==
  \A c \in Client :
    /\ lock[c] # "free" /\ ws[c] # "open" /\ rpc[c] # "closing" => doomed[c]
    /\ lock[c] = "run" /\ doomed[c] => ws[c] # "open"

\* Between connections nothing is open, and the clients start after the scan
\* that primes them.
Between ==
  /\ \A c \in Client : rpc[c] \in {"off", "connect", "closing", "backoff"} => ws[c] # "open"
  /\ phase = "priming" => rpc = All("off")

\* Nothing is marked, subscribed or framed that the client was not given.
Given ==
  /\ \A c \in Client : marked[c] \cup server[c] \cup snap[c] \subseteq wanted[c]
  /\ dpc \in {"wait", "send"} => todo # {} /\ Current \in wanted[dclient]

\* The item that discovery will still send to the server of c.
Coming(c) ==
  IF Pushing(c) /\ (dpc = "send" => ~doomed[c]) THEN {Current} ELSE {}

\* What a client was given is subscribed, in the frame, or on its way.
OnItsWay ==
  \A c \in Client :
    ws[c] = "open" =>
      /\ rpc[c] = "read" => wanted[c] \subseteq server[c] \cup Coming(c)
      /\ rpc[c] \in {"initWait", "initSend"} =>
           wanted[c] \subseteq server[c] \cup snap[c] \cup Coming(c)

\* Without a drop sends succeed and announcements go through.
Unbroken ==
  drops = 0 =>
    /\ \A c \in Client : ws[c] # "dead" /\ (Pushing(c) => ws[c] = "open")
    /\ dpc = "send" => ~doomed[dclient]
    /\ seen \subseteq wanted["clob"]
         \cup (IF Pushing("rtds") THEN {Current} ELSE {})

IInv == /\ TypeOK /\ LockIsHeld /\ DoomIsKnown /\ Between /\ Given /\ OnItsWay
        /\ SeenIsKept /\ Unbroken
-----------------------------------------------------------------------------
(* Lemmas about the operators *)

\* A scan with something left to do has a next market.
LEMMA CurrentIsNext ==
  ASSUME TypeOK, todo # {}
  PROVE  Current \in todo /\ Current \in Market
<1>1. todo \subseteq Nat
  BY MarketAssumption DEF TypeOK
<1>2. \E m \in todo : \A n \in todo : m <= n
  BY <1>1, LeastExists
<1>. QED
  BY <1>2 DEF Current, TypeOK

LEMMA CurrentStays == ASSUME todo' = todo PROVE Current' = Current
  BY DEF Current

\* What a step does to the lock and the socket check of one client.
LEMMA LocksEffect ==
  ASSUME TypeOK, NEW freed, NEW taken, NEW who \in {"free", "run", "disc", "ping"},
         Locks(freed, taken, who)
  PROVE  /\ lock' \in [Client -> {"free", "run", "disc", "ping"}]
         /\ doomed' \in [Client -> BOOLEAN]
         /\ \A c \in Client :
              /\ c \in taken => lock'[c] = who /\ (doomed'[c] <=> ws'[c] # "open")
              /\ c \notin taken /\ c \in freed => lock'[c] = "free" /\ ~doomed'[c]
              /\ c \notin taken /\ c \notin freed =>
                   lock'[c] = lock[c] /\ doomed'[c] = doomed[c]
  BY DEF Locks, TypeOK

LEMMA Initially == Init => IInv
  BY BoundsAssumption
  DEF Init, All, IInv, TypeOK, DPC, RPC, LockIsHeld, DoomIsKnown, Between, Given,
      OnItsWay, SeenIsKept, Unbroken, Pushing, Client
-----------------------------------------------------------------------------
(* The discovery task *)

LEMMA ScanBeginKeeps ==
  ASSUME IInv, NEW found \in SUBSET Market, ScanBegin(found) PROVE IInv'
<1>. USE DEF IInv, ScanBegin, clients
<1>1. TypeOK' /\ LockIsHeld' /\ DoomIsKnown' /\ Between' /\ Given' /\ SeenIsKept'
  BY DEF TypeOK, DPC, LockIsHeld, DoomIsKnown, Between, Given, SeenIsKept
<1>2. OnItsWay' /\ Unbroken'
  BY DEF OnItsWay, Unbroken, Coming, Pushing
<1>. QED
  BY <1>1, <1>2

LEMMA UpsertKeeps ==
  ASSUME IInv, Upsert PROVE IInv'
<1>. USE DEF IInv
<1>1. /\ dpc = "scan" /\ todo # {}
      /\ UNCHANGED <<phase, marked, ws, rpc, snap, server, drops, fails>>
      /\ stored' = stored \cup {Current}
      /\ "rtds" \in Client /\ "clob" \in Client
  BY DEF Upsert, Client
<1>2. Current \in todo /\ Current \in Market
  BY <1>1, CurrentIsNext
<1>3. CASE Current \in seen /\ GoOn({}, Current, {}) /\ UNCHANGED seen
  <2>1. /\ dpc' = "scan" /\ todo' = todo \ {Current} /\ dclient' = dclient
        /\ wanted' \in [Client -> SUBSET Market]
        /\ lock' \in [Client -> {"free", "run", "disc", "ping"}]
        /\ doomed' \in [Client -> BOOLEAN]
        /\ \A c \in Client : /\ wanted'[c] = wanted[c]
                             /\ lock'[c] = lock[c] /\ doomed'[c] = doomed[c]
    BY <1>2, <1>3 DEF GoOn, Take, Locks, TypeOK, IInv
  <2>2. UNCHANGED <<wanted, lock, doomed>>
    BY <2>1 DEF TypeOK
  <2>3. TypeOK' /\ LockIsHeld' /\ DoomIsKnown' /\ SeenIsKept'
    BY <1>1, <1>2, <1>3, <2>1, <2>2
    DEF TypeOK, DPC, Client, LockIsHeld, DoomIsKnown, SeenIsKept
  <2>4. Between' /\ Given' /\ OnItsWay' /\ Unbroken'
    BY <1>1, <1>3, <2>1, <2>2 DEF Between, Given, OnItsWay, Unbroken, Coming, Pushing
  <2>. QED
    BY <2>3, <2>4
<1>4. CASE /\ Current \notin seen /\ seen' = seen \cup {Current}
           /\ NeedsSend("rtds", Current)
           /\ PushThrough("rtds", {"rtds"}, Current, {})
  <2>1. /\ dpc' \in {"wait", "send"} /\ todo' = todo /\ dclient' = "rtds"
        /\ Current' = Current
        /\ wanted' \in [Client -> SUBSET Market]
        /\ lock' \in [Client -> {"free", "run", "disc", "ping"}]
        /\ doomed' \in [Client -> BOOLEAN]
        /\ wanted'["rtds"] = wanted["rtds"] \cup {Current}
        /\ wanted'["clob"] = wanted["clob"]
        /\ lock'["clob"] = lock["clob"] /\ doomed'["clob"] = doomed["clob"]
        /\ dpc' = "wait" => lock'["rtds"] = lock["rtds"] /\ doomed'["rtds"] = doomed["rtds"]
        /\ dpc' = "send" => /\ lock["rtds"] = "free" /\ lock'["rtds"] = "disc"
                            /\ doomed'["rtds"] <=> ws["rtds"] # "open"
    BY <1>1, <1>2, <1>4, CurrentStays DEF PushThrough, Take, Locks, Busy, TypeOK, IInv
  <2>2. /\ TypeOK' /\ LockIsHeld' /\ DoomIsKnown' /\ SeenIsKept'
    BY <1>1, <1>2, <1>4, <2>1
    DEF TypeOK, DPC, Client, LockIsHeld, DoomIsKnown, SeenIsKept
  <2>3. Between' /\ Given' /\ OnItsWay' /\ Unbroken'
    BY <1>1, <1>2, <1>4, <2>1
    DEF TypeOK, Client, Between, Given, OnItsWay, Unbroken, Coming, Pushing, NeedsSend
  <2>. QED
    BY <2>2, <2>3
<1>5. CASE /\ Current \notin seen /\ seen' = seen \cup {Current}
           /\ ~NeedsSend("rtds", Current)
           /\ NeedsSend("clob", Current)
           /\ PushThrough("clob", {"rtds", "clob"}, Current, {})
  <2>1. /\ dpc' \in {"wait", "send"} /\ todo' = todo /\ dclient' = "clob"
        /\ Current' = Current
        /\ wanted' \in [Client -> SUBSET Market]
        /\ lock' \in [Client -> {"free", "run", "disc", "ping"}]
        /\ doomed' \in [Client -> BOOLEAN]
        /\ wanted'["rtds"] = wanted["rtds"] \cup {Current}
        /\ wanted'["clob"] = wanted["clob"] \cup {Current}
        /\ lock'["rtds"] = lock["rtds"] /\ doomed'["rtds"] = doomed["rtds"]
        /\ dpc' = "wait" => lock'["clob"] = lock["clob"] /\ doomed'["clob"] = doomed["clob"]
        /\ dpc' = "send" => /\ lock["clob"] = "free" /\ lock'["clob"] = "disc"
                            /\ doomed'["clob"] <=> ws["clob"] # "open"
    BY <1>1, <1>2, <1>5, CurrentStays DEF PushThrough, Take, Locks, Busy, TypeOK, IInv
  <2>2. /\ TypeOK' /\ LockIsHeld' /\ DoomIsKnown' /\ SeenIsKept'
    BY <1>1, <1>2, <1>5, <2>1
    DEF TypeOK, DPC, Client, LockIsHeld, DoomIsKnown, SeenIsKept
  <2>3. Between' /\ Given' /\ OnItsWay' /\ Unbroken'
    BY <1>1, <1>2, <1>5, <2>1
    DEF TypeOK, Client, Between, Given, OnItsWay, Unbroken, Coming, Pushing, NeedsSend
  <2>. QED
    BY <2>2, <2>3
<1>6. CASE /\ Current \notin seen /\ seen' = seen \cup {Current}
           /\ ~NeedsSend("rtds", Current) /\ ~NeedsSend("clob", Current)
           /\ GoOn({"rtds", "clob"}, Current, {})
  <2>1. /\ dpc' = "scan" /\ todo' = todo \ {Current} /\ dclient' = dclient
        /\ wanted' \in [Client -> SUBSET Market]
        /\ lock' \in [Client -> {"free", "run", "disc", "ping"}]
        /\ doomed' \in [Client -> BOOLEAN]
        /\ wanted'["rtds"] = wanted["rtds"] \cup {Current}
        /\ wanted'["clob"] = wanted["clob"] \cup {Current}
        /\ lock'["rtds"] = lock["rtds"] /\ doomed'["rtds"] = doomed["rtds"]
        /\ lock'["clob"] = lock["clob"] /\ doomed'["clob"] = doomed["clob"]
    BY <1>1, <1>2, <1>6 DEF GoOn, Take, Locks, TypeOK, IInv
  <2>2. /\ TypeOK' /\ LockIsHeld' /\ DoomIsKnown' /\ SeenIsKept'
    BY <1>1, <1>2, <1>6, <2>1
    DEF TypeOK, DPC, Client, LockIsHeld, DoomIsKnown, SeenIsKept
  <2>3. Between' /\ Given' /\ OnItsWay' /\ Unbroken'
    BY <1>1, <1>2, <1>6, <2>1
    DEF TypeOK, Client, Between, Given, OnItsWay, Unbroken, Coming, Pushing, NeedsSend
  <2>. QED
    BY <2>2, <2>3
<1>. QED
  BY <1>3, <1>4, <1>5, <1>6 DEF Upsert, OnNewMarket, AddTokens

LEMMA UpsertFailsKeeps ==
  ASSUME IInv, UpsertFails PROVE IInv'
<1>. USE DEF IInv, UpsertFails, Abort, clients
<1>1. TypeOK' /\ LockIsHeld' /\ DoomIsKnown' /\ Between' /\ Given' /\ SeenIsKept'
  BY BoundsAssumption
  DEF TypeOK, DPC, LockIsHeld, DoomIsKnown, Between, Given, SeenIsKept
<1>2. OnItsWay' /\ Unbroken'
  BY DEF OnItsWay, Unbroken, Coming, Pushing
<1>. QED
  BY <1>1, <1>2

LEMMA ScanEndKeeps ==
  ASSUME IInv, ScanEnd PROVE IInv'
<1>. USE DEF IInv, ScanEnd, All
<1>1. TypeOK' /\ LockIsHeld' /\ DoomIsKnown' /\ Between' /\ Given' /\ SeenIsKept'
  BY DEF TypeOK, DPC, RPC, LockIsHeld, DoomIsKnown, Between, Given, SeenIsKept
<1>2. OnItsWay' /\ Unbroken'
  BY DEF OnItsWay, Unbroken, Coming, Pushing
<1>. QED
  BY <1>1, <1>2

LEMMA DiscSendKeeps ==
  ASSUME IInv, DiscSend PROVE IInv'
<1>. USE DEF IInv, DiscSend, Acquire
<1>1. Current' = Current
  BY DEF Current
<1>2. /\ lock' \in [Client -> {"free", "run", "disc", "ping"}]
      /\ doomed' \in [Client -> BOOLEAN]
      /\ lock'[dclient] = "disc"
      /\ doomed'[dclient] <=> ws[dclient] # "open"
      /\ \A c \in Client \ {dclient} : lock'[c] = lock[c] /\ doomed'[c] = doomed[c]
  BY LocksEffect DEF TypeOK
<1>3. TypeOK' /\ LockIsHeld' /\ DoomIsKnown' /\ Between' /\ Given' /\ SeenIsKept'
  BY <1>1, <1>2
  DEF TypeOK, DPC, LockIsHeld, DoomIsKnown, Between, Given, SeenIsKept
<1>4. OnItsWay' /\ Unbroken'
  BY <1>1, <1>2 DEF TypeOK, OnItsWay, Unbroken, Coming, Pushing
<1>. QED
  BY <1>3, <1>4

LEMMA DiscSentKeeps ==
  ASSUME IInv, DiscSent PROVE IInv'
<1>. USE DEF IInv
<1>1. /\ dpc = "send" /\ ~doomed[dclient]
      /\ UNCHANGED <<phase, seen, stored, ws, rpc, snap, drops, fails>>
      /\ todo # {} /\ Current \in wanted[dclient]
      /\ "rtds" \in Client /\ "clob" \in Client /\ dclient \in Client
  BY DEF DiscSent, Given, TypeOK, Client
<1>2. Current \in todo /\ Current \in Market
  BY <1>1, CurrentIsNext
<1>3. /\ server' \in [Client -> SUBSET Market] /\ marked' \in [Client -> SUBSET Market]
      /\ server'[dclient] = server[dclient] \cup {Current}
      /\ marked'[dclient] = marked[dclient] \cup {Current}
      /\ \A c \in Client \ {dclient} : server'[c] = server[c] /\ marked'[c] = marked[c]
  BY <1>1, <1>2 DEF DiscSent, TypeOK
<1>4. CASE /\ dclient = "rtds" /\ NeedsSend("clob", Current)
           /\ PushThrough("clob", {"clob"}, Current, {"rtds"})
  <2>1. /\ dpc' \in {"wait", "send"} /\ todo' = todo /\ dclient' = "clob"
        /\ Current' = Current
        /\ wanted' \in [Client -> SUBSET Market]
        /\ lock' \in [Client -> {"free", "run", "disc", "ping"}]
        /\ doomed' \in [Client -> BOOLEAN]
        /\ wanted'["rtds"] = wanted["rtds"]
        /\ wanted'["clob"] = wanted["clob"] \cup {Current}
        /\ lock'["rtds"] = "free" /\ ~doomed'["rtds"]
        /\ dpc' = "wait" => lock'["clob"] = lock["clob"] /\ doomed'["clob"] = doomed["clob"]
        /\ dpc' = "send" => /\ lock["clob"] = "free" /\ lock'["clob"] = "disc"
                            /\ doomed'["clob"] <=> ws["clob"] # "open"
    BY <1>1, <1>2, <1>4, CurrentStays DEF PushThrough, Take, Locks, Busy, TypeOK, IInv
  <2>2. /\ TypeOK' /\ LockIsHeld' /\ DoomIsKnown' /\ SeenIsKept'
    BY <1>1, <1>2, <1>3, <1>4, <2>1
    DEF TypeOK, DPC, Client, LockIsHeld, DoomIsKnown, SeenIsKept
  <2>3. Between' /\ Given'
    BY <1>1, <1>2, <1>3, <1>4, <2>1 DEF TypeOK, Client, Between, Given
  <2>4. OnItsWay' /\ Unbroken'
    BY <1>1, <1>2, <1>3, <1>4, <2>1
    DEF TypeOK, Client, OnItsWay, Unbroken, Coming, Pushing, NeedsSend
  <2>. QED
    BY <2>2, <2>3, <2>4
<1>5. CASE /\ dclient = "rtds" /\ ~NeedsSend("clob", Current)
           /\ GoOn({"clob"}, Current, {"rtds"})
  <2>1. /\ dpc' = "scan" /\ todo' = todo \ {Current} /\ dclient' = dclient
        /\ wanted' \in [Client -> SUBSET Market]
        /\ lock' \in [Client -> {"free", "run", "disc", "ping"}]
        /\ doomed' \in [Client -> BOOLEAN]
        /\ wanted'["rtds"] = wanted["rtds"]
        /\ wanted'["clob"] = wanted["clob"] \cup {Current}
        /\ lock'["rtds"] = "free" /\ ~doomed'["rtds"]
        /\ lock'["clob"] = lock["clob"] /\ doomed'["clob"] = doomed["clob"]
    BY <1>1, <1>2, <1>5 DEF GoOn, Take, Locks, TypeOK, IInv
  <2>2. /\ TypeOK' /\ LockIsHeld' /\ DoomIsKnown' /\ SeenIsKept'
    BY <1>1, <1>2, <1>3, <1>5, <2>1
    DEF TypeOK, DPC, Client, LockIsHeld, DoomIsKnown, SeenIsKept
  <2>3. Between' /\ Given'
    BY <1>1, <1>2, <1>3, <1>5, <2>1 DEF TypeOK, Client, Between, Given
  <2>4. OnItsWay' /\ Unbroken'
    BY <1>1, <1>2, <1>3, <1>5, <2>1
    DEF TypeOK, Client, Given, OnItsWay, Unbroken, Coming, Pushing, NeedsSend
  <2>. QED
    BY <2>2, <2>3, <2>4
<1>6. CASE dclient = "clob" /\ GoOn({}, Current, {"clob"})
  <2>1. /\ dpc' = "scan" /\ todo' = todo \ {Current} /\ dclient' = dclient
        /\ wanted' \in [Client -> SUBSET Market]
        /\ lock' \in [Client -> {"free", "run", "disc", "ping"}]
        /\ doomed' \in [Client -> BOOLEAN]
        /\ wanted'["rtds"] = wanted["rtds"]
        /\ wanted'["clob"] = wanted["clob"]
        /\ lock'["rtds"] = lock["rtds"] /\ doomed'["rtds"] = doomed["rtds"]
        /\ lock'["clob"] = "free" /\ ~doomed'["clob"]
    BY <1>1, <1>2, <1>6 DEF GoOn, Take, Locks, TypeOK, IInv
  <2>2. /\ TypeOK' /\ LockIsHeld' /\ DoomIsKnown' /\ SeenIsKept'
    BY <1>1, <1>2, <1>3, <1>6, <2>1
    DEF TypeOK, DPC, Client, LockIsHeld, DoomIsKnown, SeenIsKept
  <2>3. Between' /\ Given'
    BY <1>1, <1>2, <1>3, <1>6, <2>1 DEF TypeOK, Client, Between, Given
  <2>4. OnItsWay' /\ Unbroken'
    BY <1>1, <1>2, <1>3, <1>6, <2>1
    DEF TypeOK, Client, Given, OnItsWay, Unbroken, Coming, Pushing, NeedsSend
  <2>. QED
    BY <2>2, <2>3, <2>4
<1>. QED
  BY <1>4, <1>5, <1>6 DEF DiscSent, AddTokens

LEMMA DiscRaisesKeeps ==
  ASSUME IInv, DiscRaises PROVE IInv'
<1>. USE DEF IInv, DiscRaises, Release, Abort
<1>1. /\ lock' \in [Client -> {"free", "run", "disc", "ping"}]
      /\ doomed' \in [Client -> BOOLEAN]
      /\ lock'[dclient] = "free" /\ ~doomed'[dclient]
      /\ \A c \in Client \ {dclient} : lock'[c] = lock[c] /\ doomed'[c] = doomed[c]
  BY LocksEffect DEF TypeOK
<1>2. TypeOK' /\ LockIsHeld' /\ DoomIsKnown' /\ Between' /\ Given' /\ SeenIsKept'
  BY <1>1
  DEF TypeOK, DPC, LockIsHeld, DoomIsKnown, Between, Given, SeenIsKept
<1>3. OnItsWay' /\ Unbroken'
  BY <1>1 DEF TypeOK, OnItsWay, Unbroken, Coming, Pushing
<1>. QED
  BY <1>2, <1>3
-----------------------------------------------------------------------------
(* The runners *)

LEMMA ConnectKeeps ==
  ASSUME IInv, NEW c \in Client, Connect(c) PROVE IInv'
<1>. USE DEF IInv, Connect, discovery
<1>1. Current' = Current
  BY DEF Current
<1>2. /\ lock' \in [Client -> {"free", "run", "disc", "ping"}]
      /\ doomed' \in [Client -> BOOLEAN]
      /\ \A d \in Client \ {c} : lock'[d] = lock[d] /\ doomed'[d] = doomed[d]
      /\ IF wanted[c] # {} /\ ~Busy(c)
           THEN lock[c] = "free" /\ lock'[c] = "run" /\ ~doomed'[c]
           ELSE lock'[c] = lock[c] /\ doomed'[c] = doomed[c]
  BY LocksEffect DEF TypeOK, Acquire
<1>3. /\ ws' \in [Client -> {"none", "open", "dead"}] /\ ws'[c] = "open"
      /\ snap' \in [Client -> SUBSET Market] /\ snap'[c] = wanted[c]
      /\ rpc' \in [Client -> RPC]
      /\ IF wanted[c] = {} THEN rpc'[c] = "read" ELSE
         IF Busy(c) THEN rpc'[c] = "initWait" ELSE rpc'[c] = "initSend"
      /\ \A d \in Client \ {c} : ws'[d] = ws[d] /\ snap'[d] = snap[d] /\ rpc'[d] = rpc[d]
  BY DEF TypeOK, RPC
<1>4. phase # "priming"
  BY DEF Between, All
<1>5. TypeOK' /\ LockIsHeld' /\ SeenIsKept'
  BY <1>1, <1>2, <1>3 DEF TypeOK, LockIsHeld, SeenIsKept
<1>6. DoomIsKnown' /\ Between' /\ Given'
  BY <1>1, <1>2, <1>3, <1>4 DEF TypeOK, DoomIsKnown, Between, Given, LockIsHeld
<1>7. OnItsWay' /\ Unbroken'
  BY <1>1, <1>2, <1>3 DEF TypeOK, OnItsWay, Unbroken, Coming, Pushing
<1>. QED
  BY <1>5, <1>6, <1>7

LEMMA ConnectFailsKeeps ==
  ASSUME IInv, NEW c \in Client, ConnectFails(c) PROVE IInv'
<1>. USE DEF IInv, ConnectFails, discovery
<1>1. Current' = Current
  BY DEF Current
<1>2. phase # "priming"
  BY DEF Between, All
<1>3. TypeOK' /\ LockIsHeld' /\ DoomIsKnown' /\ Between' /\ Given' /\ SeenIsKept'
  BY <1>1, <1>2, BoundsAssumption
  DEF TypeOK, RPC, LockIsHeld, DoomIsKnown, Between, Given, SeenIsKept
<1>4. OnItsWay' /\ Unbroken'
  BY <1>1 DEF TypeOK, OnItsWay, Unbroken, Coming, Pushing
<1>. QED
  BY <1>3, <1>4

LEMMA RetryKeeps ==
  ASSUME IInv, NEW c \in Client, Retry(c) PROVE IInv'
<1>. USE DEF IInv, Retry, discovery
<1>1. Current' = Current
  BY DEF Current
<1>2. phase # "priming"
  BY DEF Between, All
<1>3. TypeOK' /\ LockIsHeld' /\ DoomIsKnown' /\ Between' /\ Given' /\ SeenIsKept'
  BY <1>1, <1>2
  DEF TypeOK, RPC, LockIsHeld, DoomIsKnown, Between, Given, SeenIsKept
<1>4. OnItsWay' /\ Unbroken'
  BY <1>1 DEF TypeOK, OnItsWay, Unbroken, Coming, Pushing
<1>. QED
  BY <1>3, <1>4

LEMMA InitSendKeeps ==
  ASSUME IInv, NEW c \in Client, InitSend(c) PROVE IInv'
<1>. USE DEF IInv, InitSend, Acquire, discovery
<1>1. Current' = Current
  BY DEF Current
<1>2. /\ lock' \in [Client -> {"free", "run", "disc", "ping"}]
      /\ doomed' \in [Client -> BOOLEAN]
      /\ lock'[c] = "run" /\ (doomed'[c] <=> ws[c] # "open")
      /\ \A d \in Client \ {c} : lock'[d] = lock[d] /\ doomed'[d] = doomed[d]
  BY LocksEffect DEF TypeOK
<1>3. phase # "priming"
  BY DEF Between, All
<1>4. TypeOK'
  BY <1>1, <1>2, <1>3 DEF TypeOK, RPC
<1>5. LockIsHeld' /\ DoomIsKnown'
  BY <1>1, <1>2, <1>3 DEF TypeOK, LockIsHeld, DoomIsKnown
<1>6. Between' /\ Given' /\ SeenIsKept'
  BY <1>1, <1>2, <1>3 DEF TypeOK, LockIsHeld, Between, Given, SeenIsKept
<1>7. OnItsWay' /\ Unbroken'
  BY <1>1, <1>2 DEF TypeOK, LockIsHeld, OnItsWay, Unbroken, Coming, Pushing
<1>. QED
  BY <1>4, <1>5, <1>6, <1>7

LEMMA InitSentKeeps ==
  ASSUME IInv, NEW c \in Client, InitSent(c) PROVE IInv'
<1>. USE DEF IInv, InitSent, Release, discovery
<1>1. Current' = Current
  BY DEF Current
<1>2. /\ lock' \in [Client -> {"free", "run", "disc", "ping"}]
      /\ doomed' \in [Client -> BOOLEAN]
      /\ lock'[c] = "free" /\ ~doomed'[c]
      /\ \A d \in Client \ {c} : lock'[d] = lock[d] /\ doomed'[d] = doomed[d]
  BY LocksEffect DEF TypeOK
<1>3. phase # "priming"
  BY DEF Between, All
<1>4. TypeOK'
  BY <1>1, <1>2, <1>3 DEF TypeOK, RPC
<1>5. LockIsHeld' /\ DoomIsKnown'
  BY <1>1, <1>2, <1>3 DEF TypeOK, LockIsHeld, DoomIsKnown
<1>6. Between' /\ Given' /\ SeenIsKept'
  BY <1>1, <1>2, <1>3 DEF TypeOK, LockIsHeld, Between, Given, SeenIsKept
<1>7. OnItsWay' /\ Unbroken'
  BY <1>1, <1>2
  DEF TypeOK, LockIsHeld, DoomIsKnown, OnItsWay, Unbroken, Coming, Pushing
<1>. QED
  BY <1>4, <1>5, <1>6, <1>7

LEMMA InitRaisesKeeps ==
  ASSUME IInv, NEW c \in Client, InitRaises(c) PROVE IInv'
<1>. USE DEF IInv, InitRaises, Release, discovery
<1>1. Current' = Current
  BY DEF Current
<1>2. /\ lock' \in [Client -> {"free", "run", "disc", "ping"}]
      /\ doomed' \in [Client -> BOOLEAN]
      /\ lock'[c] = "free" /\ ~doomed'[c]
      /\ \A d \in Client \ {c} : lock'[d] = lock[d] /\ doomed'[d] = doomed[d]
  BY LocksEffect DEF TypeOK
<1>3. phase # "priming"
  BY DEF Between, All
<1>4. TypeOK'
  BY <1>1, <1>2, <1>3 DEF TypeOK, RPC
<1>5. LockIsHeld' /\ DoomIsKnown'
  BY <1>1, <1>2, <1>3 DEF TypeOK, LockIsHeld, DoomIsKnown
<1>6. Between' /\ Given' /\ SeenIsKept'
  BY <1>1, <1>2, <1>3 DEF TypeOK, LockIsHeld, DoomIsKnown, Between, Given, SeenIsKept
<1>7. OnItsWay' /\ Unbroken'
  BY <1>1, <1>2
  DEF TypeOK, LockIsHeld, DoomIsKnown, OnItsWay, Unbroken, Coming, Pushing
<1>. QED
  BY <1>4, <1>5, <1>6, <1>7

LEMMA DisconnectedKeeps ==
  ASSUME IInv, NEW c \in Client, Disconnected(c) PROVE IInv'
<1>. USE DEF IInv, Disconnected, Finally, discovery
<1>1. Current' = Current
  BY DEF Current
<1>2. /\ lock' \in [Client -> {"free", "run", "disc", "ping"}]
      /\ doomed' \in [Client -> BOOLEAN]
      /\ IF lock[c] = "ping" THEN lock'[c] = "free" /\ ~doomed'[c]
                             ELSE lock'[c] = lock[c] /\ doomed'[c] = doomed[c]
      /\ \A d \in Client \ {c} : lock'[d] = lock[d] /\ doomed'[d] = doomed[d]
  BY LocksEffect DEF TypeOK, Release
<1>3. phase # "priming"
  BY DEF Between, All
<1>4. TypeOK'
  BY <1>1, <1>2, <1>3 DEF TypeOK, RPC
<1>5. LockIsHeld' /\ DoomIsKnown'
  BY <1>1, <1>2, <1>3 DEF TypeOK, LockIsHeld, DoomIsKnown
<1>6. Between' /\ Given' /\ SeenIsKept'
  BY <1>1, <1>2, <1>3 DEF TypeOK, LockIsHeld, Between, Given, SeenIsKept
<1>7. OnItsWay' /\ Unbroken'
  BY <1>1, <1>2
  DEF TypeOK, LockIsHeld, DoomIsKnown, OnItsWay, Unbroken, Coming, Pushing
<1>. QED
  BY <1>4, <1>5, <1>6, <1>7

LEMMA HandlerRaisesKeeps ==
  ASSUME IInv, NEW c \in Client, HandlerRaises(c) PROVE IInv'
<1>. USE DEF IInv, HandlerRaises, Finally, discovery
<1>1. Current' = Current
  BY DEF Current
<1>2. /\ lock' \in [Client -> {"free", "run", "disc", "ping"}]
      /\ doomed' \in [Client -> BOOLEAN]
      /\ IF lock[c] = "ping" THEN lock'[c] = "free" /\ ~doomed'[c]
                             ELSE lock'[c] = lock[c] /\ doomed'[c] = doomed[c]
      /\ \A d \in Client \ {c} : lock'[d] = lock[d] /\ doomed'[d] = doomed[d]
  BY LocksEffect DEF TypeOK, Release
<1>3. phase # "priming"
  BY DEF Between, All
<1>4. TypeOK'
  <2>1. drops' \in 0..MaxDrops
    BY BoundsAssumption DEF TypeOK
  <2>2. /\ ws' \in [Client -> {"none", "open", "dead"}] /\ rpc' \in [Client -> RPC]
        /\ marked' \in [Client -> SUBSET Market]
    BY DEF TypeOK, RPC
  <2>. QED
    BY <1>2, <2>1, <2>2 DEF TypeOK
<1>5. LockIsHeld' /\ DoomIsKnown'
  BY <1>1, <1>2, <1>3 DEF TypeOK, LockIsHeld, DoomIsKnown
<1>6. Between' /\ Given' /\ SeenIsKept'
  BY <1>1, <1>2, <1>3 DEF TypeOK, LockIsHeld, Between, Given, SeenIsKept
<1>7. OnItsWay' /\ Unbroken'
  BY <1>1, <1>2
  DEF TypeOK, LockIsHeld, DoomIsKnown, OnItsWay, Unbroken, Coming, Pushing
<1>. QED
  BY <1>4, <1>5, <1>6, <1>7

LEMMA ClosedKeeps ==
  ASSUME IInv, NEW c \in Client, Closed(c) PROVE IInv'
<1>. USE DEF IInv, Closed, discovery
<1>1. Current' = Current
  BY DEF Current
<1>2. phase # "priming"
  BY DEF Between, All
<1>3. TypeOK'
  BY <1>1, <1>2 DEF TypeOK, RPC
<1>4. LockIsHeld' /\ DoomIsKnown'
  BY <1>1, <1>2 DEF TypeOK, LockIsHeld, DoomIsKnown
<1>5. Between' /\ Given' /\ SeenIsKept'
  BY <1>1, <1>2 DEF TypeOK, Between, Given, SeenIsKept
<1>6. OnItsWay' /\ Unbroken'
  BY <1>1, <1>2 DEF TypeOK, Between, OnItsWay, Unbroken, Coming, Pushing
<1>. QED
  BY <1>3, <1>4, <1>5, <1>6

LEMMA PingKeeps ==
  ASSUME IInv, NEW c \in Client, Ping(c) PROVE IInv'
<1>. USE DEF IInv, Ping, Acquire, discovery
<1>1. Current' = Current
  BY DEF Current
<1>2. /\ lock' \in [Client -> {"free", "run", "disc", "ping"}]
      /\ doomed' \in [Client -> BOOLEAN]
      /\ lock'[c] = "ping" /\ (doomed'[c] <=> ws[c] # "open")
      /\ \A d \in Client \ {c} : lock'[d] = lock[d] /\ doomed'[d] = doomed[d]
  BY LocksEffect DEF TypeOK
<1>3. TypeOK' /\ LockIsHeld' /\ DoomIsKnown' /\ Between' /\ Given' /\ SeenIsKept'
  BY <1>1, <1>2
  DEF TypeOK, LockIsHeld, DoomIsKnown, Between, Given, SeenIsKept
<1>4. OnItsWay' /\ Unbroken'
  BY <1>1, <1>2
  DEF TypeOK, LockIsHeld, DoomIsKnown, OnItsWay, Unbroken, Coming, Pushing
<1>. QED
  BY <1>3, <1>4

LEMMA PingDoneKeeps ==
  ASSUME IInv, NEW c \in Client, PingDone(c) PROVE IInv'
<1>. USE DEF IInv, PingDone, Release, discovery
<1>1. Current' = Current
  BY DEF Current
<1>2. /\ lock' \in [Client -> {"free", "run", "disc", "ping"}]
      /\ doomed' \in [Client -> BOOLEAN]
      /\ lock'[c] = "free" /\ ~doomed'[c]
      /\ \A d \in Client \ {c} : lock'[d] = lock[d] /\ doomed'[d] = doomed[d]
  BY LocksEffect DEF TypeOK
<1>3. TypeOK' /\ LockIsHeld' /\ DoomIsKnown' /\ Between' /\ Given' /\ SeenIsKept'
  BY <1>1, <1>2
  DEF TypeOK, LockIsHeld, DoomIsKnown, Between, Given, SeenIsKept
<1>4. OnItsWay' /\ Unbroken'
  BY <1>1, <1>2
  DEF TypeOK, LockIsHeld, DoomIsKnown, OnItsWay, Unbroken, Coming, Pushing
<1>. QED
  BY <1>3, <1>4

LEMMA DropKeeps ==
  ASSUME IInv, NEW c \in Client, Drop(c) PROVE IInv'
<1>. USE DEF IInv, Drop, discovery
<1>1. Current' = Current
  BY DEF Current
<1>2. TypeOK'
  BY <1>1, BoundsAssumption DEF TypeOK
<1>3. LockIsHeld' /\ DoomIsKnown'
  BY <1>1 DEF TypeOK, LockIsHeld, DoomIsKnown
<1>4. Between' /\ Given' /\ SeenIsKept'
  BY <1>1 DEF TypeOK, LockIsHeld, Between, Given, SeenIsKept
<1>5. OnItsWay' /\ Unbroken'
  BY <1>1 DEF TypeOK, LockIsHeld, DoomIsKnown, OnItsWay, Unbroken, Coming, Pushing
<1>. QED
  BY <1>2, <1>3, <1>4, <1>5

LEMMA RestartKeeps == ASSUME IInv, Restart PROVE IInv'
  BY BoundsAssumption
  DEF Restart, Fresh, All, IInv, TypeOK, DPC, RPC, LockIsHeld, DoomIsKnown, Between,
      Given, OnItsWay, SeenIsKept, Unbroken, Pushing, Client
-----------------------------------------------------------------------------
(* The specification *)

LEMMA StepKeeps == ASSUME IInv, [Next]_vars PROVE IInv'
<1>1. CASE UNCHANGED vars
  <2>. Current' = Current
    BY <1>1 DEF Current, vars, discovery
  <2>. QED
    BY <1>1
    DEF vars, discovery, clients, IInv, TypeOK, LockIsHeld, DoomIsKnown, Between, Given,
        OnItsWay, SeenIsKept, Unbroken, Coming, Pushing
<1>2. CASE Discovery \/ UpsertFails \/ Restart
  BY <1>2, UpsertKeeps, ScanEndKeeps, DiscSendKeeps, DiscSentKeeps, DiscRaisesKeeps,
     UpsertFailsKeeps, RestartKeeps DEF Discovery
<1>3. ASSUME NEW found \in SUBSET Market, ScanBegin(found) PROVE IInv'
  BY <1>3, ScanBeginKeeps
<1>4. ASSUME NEW c \in Client, Runner(c) PROVE IInv'
  BY <1>4, ConnectKeeps, InitSendKeeps, InitSentKeeps, InitRaisesKeeps,
     DisconnectedKeeps, ClosedKeeps, RetryKeeps DEF Runner
<1>5. ASSUME NEW c \in Client, \/ ConnectFails(c) \/ Ping(c) \/ PingDone(c)
                            \/ Drop(c) \/ HandlerRaises(c)
      PROVE  IInv'
  BY <1>5, ConnectFailsKeeps, PingKeeps, PingDoneKeeps, DropKeeps, HandlerRaisesKeeps
<1>. QED
  BY <1>1, <1>2, <1>3, <1>4, <1>5 DEF Next

\* The inductive invariant holds in every reachable state.
THEOREM Invariance == Spec => []IInv
  BY Initially, StepKeeps, PTL DEF Spec

\* The variables of the discovery task, of the clients and of the servers keep
\* their types, whatever the API returns and whatever breaks.
THEOREM TypeIsCorrect == Spec => []TypeOK
<1>1. IInv => TypeOK
  BY DEF IInv
<1>. QED
  BY <1>1, Invariance, PTL

\* The send lock of a client is held by exactly the task that is in ws.send.
THEOREM LockIsReleased == Spec => []LockIsHeld
<1>1. IInv => LockIsHeld
  BY DEF IInv
<1>. QED
  BY <1>1, Invariance, PTL

\* Every announced market has its row and its trades subscription, for good.
THEOREM AnnouncedIsKept == Spec => []SeenIsKept
<1>1. IInv => SeenIsKept
  BY DEF IInv
<1>. QED
  BY <1>1, Invariance, PTL

\* A client that reads from an open socket, through which discovery is not
\* just pushing an item, has exactly its items subscribed: no add is lost to
\* the race with an initial frame, a reconnect or another holder of the lock.
THEOREM NoAddIsLost == Spec => []InSync
<1>1. IInv => InSync
  BY DEF IInv, InSync, OnItsWay, Given, Coming
<1>. QED
  BY <1>1, Invariance, PTL

\* Without a drop every announced market reaches both clients by the end of
\* its scan, past any number of failed upserts and connects.
THEOREM UnbrokenIsFed == Spec => []FedUnlessDropped
<1>1. IInv => FedUnlessDropped
  BY DEF IInv, FedUnlessDropped, Unbroken, Pushing
<1>. QED
  BY <1>1, Invariance, PTL
=============================================================================
