----------------------------- MODULE MarketFeed -----------------------------
(***************************************************************************)
(* From a market on the Gamma API to its two subscriptions: GammaDiscovery *)
(* (gamma.py), on_new_market (main.py), and the connection handling that   *)
(* RTDSClient and CLOBClient share line for line (rtds_client.py,          *)
(* clob_client.py): initial frame, later adds, pings, drops, reconnects.   *)
(*                                                                         *)
(* Markets are numbered by window, the order of a scan.  The item a client *)
(* subscribes for a market (the slug; the pair of tokens) is the market.   *)
(* Timers are nondeterministic: a backoff, a ping or a scan interval may   *)
(* end at any moment.                                                      *)
(***************************************************************************)
EXTENDS Naturals

CONSTANTS Market,     \* markets the API can return, a set of numbers
          MaxDrops,   \* bound: connections that break or are given up
          MaxFails    \* bound: failed connects and failed upserts

ASSUME MarketAssumption == Market \subseteq Nat
ASSUME BoundsAssumption == MaxDrops \in Nat /\ MaxFails \in Nat

Client == {"rtds", "clob"}

VARIABLES
  phase,     \* "priming" (the scan before the clients start), "running", "down"
  \* GammaDiscovery
  dpc,       \* where the discovery task is
  dclient,   \* the client it is sending through
  todo,      \* markets the scan fetched and has not processed
  seen,      \* _seen
  stored,    \* rows of the markets table
  \* RTDSClient and CLOBClient
  wanted,    \* _slugs, _tokens
  marked,    \* _subscribed_slugs, _subscribed
  ws,        \* _ws: "none", "open", or "dead": a socket that was closed
  rpc,       \* where run_forever is
  snap,      \* the items of the initial frame
  lock,      \* who holds _send_lock and is in ws.send
  doomed,    \* ... on a socket that is closed or None: that send will raise
  \* The servers
  server,    \* the subscriptions of the open connection
  drops, fails

discovery == <<dpc, dclient, todo, seen, stored>>
clients == <<wanted, marked, ws, rpc, snap, lock, doomed>>
vars == <<phase, discovery, clients, server, drops, fails>>

DPC == {"idle", "scan", "wait", "send"}
RPC == {"off", "connect", "initWait", "initSend", "read", "closing", "backoff"}

TypeOK ==
  /\ phase \in {"priming", "running", "down"}
  /\ dpc \in DPC
  /\ dclient \in Client
  /\ todo \subseteq Market /\ seen \subseteq Market /\ stored \subseteq Market
  /\ wanted \in [Client -> SUBSET Market]
  /\ marked \in [Client -> SUBSET Market]
  /\ ws \in [Client -> {"none", "open", "dead"}]
  /\ rpc \in [Client -> RPC]
  /\ snap \in [Client -> SUBSET Market]
  /\ lock \in [Client -> {"free", "run", "disc", "ping"}]
  /\ doomed \in [Client -> BOOLEAN]
  /\ server \in [Client -> SUBSET Market]
  /\ drops \in 0..MaxDrops /\ fails \in 0..MaxFails

All(x) == [c \in Client |-> x]

\* A process that has just started.
Fresh ==
  /\ phase' = "priming"
  /\ dpc' = "idle" /\ dclient' = "rtds" /\ todo' = {} /\ seen' = {}
  /\ wanted' = All({}) /\ marked' = All({}) /\ snap' = All({})
  /\ ws' = All("none") /\ rpc' = All("off")
  /\ lock' = All("free") /\ doomed' = All(FALSE)
  /\ server' = All({})

Init ==
  /\ phase = "priming"
  /\ dpc = "idle" /\ dclient = "rtds" /\ todo = {} /\ seen = {} /\ stored = {}
  /\ wanted = All({}) /\ marked = All({}) /\ snap = All({})
  /\ ws = All("none") /\ rpc = All("off")
  /\ lock = All("free") /\ doomed = All(FALSE)
  /\ server = All({})
  /\ drops = 0 /\ fails = 0
-----------------------------------------------------------------------------
(* The send lock *)

\* asyncio.Lock serves its waiters first: nobody else takes it before them.
Busy(c) == \/ lock[c] # "free"
           \/ rpc[c] = "initWait"
           \/ dpc = "wait" /\ dclient = c

\* The clients in `freed' have their lock released, those in `taken' have it
\* taken by `who', who goes on into ws.send at once: it raises if _ws is closed
\* or None.
Locks(freed, taken, who) ==
  /\ lock' = [c \in Client |-> IF c \in taken THEN who
                               ELSE IF c \in freed THEN "free" ELSE lock[c]]
  /\ doomed' = [c \in Client |-> IF c \in taken THEN ws'[c] # "open"
                                 ELSE c \notin freed /\ doomed[c]]

Release(c) == Locks({c}, {}, "free")
Acquire(c, who) == lock[c] = "free" /\ Locks({}, {c}, who)
-----------------------------------------------------------------------------
(* GammaDiscovery *)

\* scan_once fetches every candidate; a failed fetch counts as no market.
ScanBegin(found) ==
  /\ phase # "down"
  /\ dpc = "idle"
  /\ dpc' = "scan"
  /\ todo' = found
  /\ UNCHANGED <<phase, dclient, seen, stored, clients, server, drops, fails>>

\* Variant: _ws is set once the initial frame is out.
NeedsSendLate(c, m) == rpc[c] = "read" /\ ws[c] # "none" /\ m \notin marked[c]

\* add_slug and add_tokens: is there a connection to send the new item on?
NeedsSend(c, m) == ws[c] # "none" /\ m \notin marked[c]

\* The market the scan is at: results come in window order.
Current == CHOOSE m \in todo : \A n \in todo : m <= n

\* Variant: the slug of the next window.
TakeNext(cs, m) ==
  wanted' = [c \in Client |-> IF c \in cs THEN wanted[c] \cup {m + 1} ELSE wanted[c]]

Take(cs, m) ==
  wanted' = [c \in Client |-> IF c \in cs THEN wanted[c] \cup {m} ELSE wanted[c]]

\* The clients cs take m, the locks in `freed' are released, and the discovery
\* task sends m through c, or waits for its lock, ...
PushThrough(c, cs, m, freed) ==
  /\ Take(cs, m)
  /\ dclient' = c
  /\ UNCHANGED todo
  /\ \/ Busy(c) /\ dpc' = "wait" /\ Locks(freed, {}, "disc")
     \/ ~Busy(c) /\ dpc' = "send" /\ Locks(freed, {c}, "disc")

\* ... or nothing is left to send and the scan goes on.
GoOn(cs, m, freed) ==
  /\ Take(cs, m)
  /\ dpc' = "scan" /\ todo' = todo \ {m}
  /\ UNCHANGED dclient
  /\ Locks(freed, {}, "disc")

\* Variant: without a connection the tokens are left to the next scan.
AddTokensLater(cs, m, freed) ==
  \/ NeedsSend("clob", m) /\ PushThrough("clob", cs, m, freed)
  \/ ~NeedsSend("clob", m) /\ GoOn(cs \ {"clob"}, m, freed)

\* on_new_market: rtds.add_slug, then clob.add_tokens.  Neither gives way to
\* another task before it sends.
AddTokens(cs, m, freed) ==
  \/ NeedsSend("clob", m) /\ PushThrough("clob", cs, m, freed)
  \/ ~NeedsSend("clob", m) /\ GoOn(cs, m, freed)

OnNewMarket(m) ==
  \/ NeedsSend("rtds", m) /\ PushThrough("rtds", {"rtds"}, m, {})
  \/ ~NeedsSend("rtds", m) /\ AddTokens({"rtds", "clob"}, m, {})

\* upsert_market commits; a slug not seen before is announced.
Upsert ==
  /\ dpc = "scan" /\ todo # {}
  /\ UNCHANGED <<phase, marked, ws, rpc, snap, server, drops, fails>>
  /\ stored' = stored \cup {Current}
  /\ \/ /\ Current \in seen
        /\ GoOn({}, Current, {})
        /\ UNCHANGED seen
     \/ /\ Current \notin seen
        /\ seen' = seen \cup {Current}
        /\ OnNewMarket(Current)

\* An exception leaves scan_once: run_forever logs it and sleeps; in the scan
\* that primes the subscriptions it ends the process.
Abort == /\ dpc' = "idle" /\ todo' = {}
         /\ phase' = IF phase = "priming" THEN "down" ELSE phase

\* Variant: _seen.add comes before the upsert.
UpsertFailsSeen ==
  /\ dpc = "scan" /\ todo # {}
  /\ fails < MaxFails
  /\ fails' = fails + 1
  /\ seen' = seen \cup {Current}
  /\ Abort
  /\ UNCHANGED <<dclient, stored, clients, server, drops>>

\* upsert_market or _parse_market raised.
UpsertFails ==
  /\ dpc = "scan" /\ todo # {}
  /\ fails < MaxFails
  /\ fails' = fails + 1
  /\ Abort
  /\ UNCHANGED <<dclient, seen, stored, clients, server, drops>>

\* The scan is complete; the first one lets _amain start the clients.
ScanEnd ==
  /\ dpc = "scan" /\ todo = {}
  /\ dpc' = "idle"
  /\ phase' = "running"
  /\ rpc' = IF phase = "priming" THEN All("connect") ELSE rpc
  /\ UNCHANGED <<dclient, todo, seen, stored, wanted, marked, ws, snap, lock,
                 doomed, server, drops, fails>>

\* The lock was handed to the waiting discovery task.
DiscSend ==
  /\ dpc = "wait"
  /\ dpc' = "send"
  /\ UNCHANGED <<phase, dclient, todo, seen, stored, wanted, marked, ws, rpc,
                 snap, server, drops, fails>>
  /\ Acquire(dclient, "disc")

\* The subscribe message went out: the client marks the item and _on_new goes on.
DiscSent ==
  /\ dpc = "send" /\ ~doomed[dclient]
  /\ UNCHANGED <<phase, seen, stored, ws, rpc, snap, drops, fails>>
  /\ server' = [server EXCEPT ![dclient] = @ \cup {Current}]
  /\ marked' = [marked EXCEPT ![dclient] = @ \cup {Current}]
  /\ \/ dclient = "rtds" /\ AddTokens({"clob"}, Current, {"rtds"})
     \/ dclient = "clob" /\ GoOn({}, Current, {"clob"})

\* ConnectionClosed, or None has no attribute send: _on_new raises, and with
\* it the scan.  The slug stays in _seen.
DiscRaises ==
  /\ dpc = "send" /\ doomed[dclient]
  /\ Release(dclient)
  /\ Abort
  /\ UNCHANGED <<dclient, seen, stored, wanted, marked, ws, rpc, snap, server,
                 drops, fails>>
-----------------------------------------------------------------------------
(* run_forever and _run_once of a client *)

\* The socket opens and the items of the initial frame are collected; without
\* items there is none to send.
Connect(c) ==
  /\ rpc[c] = "connect"
  /\ ws' = [ws EXCEPT ![c] = "open"]
  /\ snap' = [snap EXCEPT ![c] = wanted[c]]
  /\ \/ /\ wanted[c] = {}
        /\ rpc' = [rpc EXCEPT ![c] = "read"]
        /\ UNCHANGED <<lock, doomed>>
     \/ /\ wanted[c] # {} /\ Busy(c)
        /\ rpc' = [rpc EXCEPT ![c] = "initWait"]
        /\ UNCHANGED <<lock, doomed>>
     \/ /\ wanted[c] # {} /\ ~Busy(c)
        /\ rpc' = [rpc EXCEPT ![c] = "initSend"]
        /\ Acquire(c, "run")
  /\ UNCHANGED <<phase, discovery, wanted, marked, server, drops, fails>>

\* connect raises; _ws keeps the value it had.
ConnectFails(c) ==
  /\ rpc[c] = "connect"
  /\ fails < MaxFails
  /\ fails' = fails + 1
  /\ rpc' = [rpc EXCEPT ![c] = "backoff"]
  /\ UNCHANGED <<phase, discovery, wanted, marked, ws, snap, lock, doomed,
                 server, drops>>

\* The lock was handed to the waiting runner.
InitSend(c) ==
  /\ rpc[c] = "initWait"
  /\ rpc' = [rpc EXCEPT ![c] = "initSend"]
  /\ UNCHANGED <<phase, discovery, wanted, marked, ws, snap, server, drops, fails>>
  /\ Acquire(c, "run")

\* RTDS marks every slug it has by now, CLOB the tokens that were in the frame.
InitSent(c) ==
  /\ rpc[c] = "initSend" /\ ~doomed[c]
  /\ server' = [server EXCEPT ![c] = @ \cup snap[c]]
  /\ marked' = [marked EXCEPT ![c] = IF c = "rtds" THEN wanted[c] ELSE snap[c]]
  /\ Release(c)
  /\ rpc' = [rpc EXCEPT ![c] = "read"]
  /\ UNCHANGED <<phase, discovery, wanted, ws, snap, drops, fails>>

\* Variants: the lock is not an async with; the exception ends run_forever.
InitRaisesLocked(c) ==
  /\ rpc[c] = "initSend" /\ doomed[c]
  /\ rpc' = [rpc EXCEPT ![c] = "backoff"]
  /\ UNCHANGED <<phase, discovery, wanted, marked, ws, snap, lock, doomed,
                 server, drops, fails>>

InitRaisesOut(c) ==
  /\ rpc[c] = "initSend" /\ doomed[c]
  /\ Release(c)
  /\ rpc' = [rpc EXCEPT ![c] = "off"]
  /\ UNCHANGED <<phase, discovery, wanted, marked, ws, snap, server, drops, fails>>

\* The initial send raises outside the try: _ws keeps the closed socket.
InitRaises(c) ==
  /\ rpc[c] = "initSend" /\ doomed[c]
  /\ Release(c)
  /\ rpc' = [rpc EXCEPT ![c] = "backoff"]
  /\ UNCHANGED <<phase, discovery, wanted, marked, ws, snap, server, drops, fails>>

\* The finally clause of _run_once cancels the ping task, and clears _ws and the
\* marks.
Finally(c) ==
  /\ ws' = [ws EXCEPT ![c] = "none"]
  /\ marked' = [marked EXCEPT ![c] = {}]
  /\ IF lock[c] = "ping" THEN Release(c) ELSE UNCHANGED <<lock, doomed>>

\* async for ends or raises on a socket that is closed.
Disconnected(c) ==
  /\ rpc[c] = "read" /\ ws[c] = "dead"
  /\ Finally(c)
  /\ rpc' = [rpc EXCEPT ![c] = "backoff"]
  /\ UNCHANGED <<phase, discovery, wanted, snap, server, drops, fails>>

\* _handle_message raises: async with closes the socket, which is still open, only
\* after the finally clause.
HandlerRaises(c) ==
  /\ rpc[c] = "read" /\ ws[c] = "open"
  /\ drops < MaxDrops
  /\ drops' = drops + 1
  /\ Finally(c)
  /\ rpc' = [rpc EXCEPT ![c] = "closing"]
  /\ UNCHANGED <<phase, discovery, wanted, snap, server, fails>>

\* What is still being sent on it by then raises.
Closed(c) ==
  /\ rpc[c] = "closing"
  /\ rpc' = [rpc EXCEPT ![c] = "backoff"]
  /\ server' = [server EXCEPT ![c] = {}]
  /\ doomed' = [doomed EXCEPT ![c] = lock[c] # "free"]
  /\ UNCHANGED <<phase, discovery, wanted, marked, ws, snap, lock, drops, fails>>

Retry(c) ==
  /\ rpc[c] = "backoff"
  /\ rpc' = [rpc EXCEPT ![c] = "connect"]
  /\ UNCHANGED <<phase, discovery, wanted, marked, ws, snap, lock, doomed,
                 server, drops, fails>>

\* The ping task shares the lock; its errors end it silently.
Ping(c) ==
  /\ rpc[c] = "read" /\ ~Busy(c)
  /\ UNCHANGED <<phase, discovery, wanted, marked, ws, rpc, snap, server, drops,
                 fails>>
  /\ Acquire(c, "ping")

PingDone(c) ==
  /\ lock[c] = "ping"
  /\ Release(c)
  /\ UNCHANGED <<phase, discovery, wanted, marked, ws, rpc, snap, server, drops,
                 fails>>
-----------------------------------------------------------------------------
(* The network and the container runtime *)

\* The connection breaks, under whatever is being sent on it.
Drop(c) ==
  /\ ws[c] = "open"
  /\ drops < MaxDrops
  /\ drops' = drops + 1
  /\ ws' = [ws EXCEPT ![c] = "dead"]
  /\ server' = [server EXCEPT ![c] = {}]
  /\ doomed' = [doomed EXCEPT ![c] = lock[c] # "free"]
  /\ UNCHANGED <<phase, discovery, wanted, marked, rpc, snap, lock, fails>>

\* restart: unless-stopped
Restart == /\ phase = "down"
           /\ Fresh
           /\ UNCHANGED <<stored, drops, fails>>

Runner(c) == \/ Connect(c) \/ InitSend(c) \/ InitSent(c) \/ InitRaises(c)
             \/ Disconnected(c) \/ Closed(c) \/ Retry(c)

Discovery == Upsert \/ ScanEnd \/ DiscSend \/ DiscSent \/ DiscRaises

Next == \/ \E found \in SUBSET Market : ScanBegin(found)
        \/ Discovery
        \/ UpsertFails
        \/ \E c \in Client : \/ Runner(c)
                            \/ ConnectFails(c)
                            \/ Ping(c)
                            \/ PingDone(c)
                            \/ Drop(c)
                            \/ HandlerRaises(c)
        \/ Restart

Spec == Init /\ [][Next]_vars

\* Tasks that are ready run, sleeps end, sends return or raise.  Pings and
\* scans may or may not happen.
Fairness ==
  /\ WF_vars(Discovery)
  /\ \A c \in Client : WF_vars(Runner(c)) /\ WF_vars(PingDone(c))

LiveSpec == Spec /\ Fairness
-----------------------------------------------------------------------------
(* Properties *)

\* Sending discovery holds, or waits for, the lock of client c.
Pushing(c) == dpc \in {"wait", "send"} /\ dclient = c

\* While a client reads from an open socket and discovery is not just pushing
\* an item through it, the server has exactly the items the client was given,
\* and no mark, which would suppress a send, stands for one it has not: no add
\* is lost to the initial frame it raced with, to a reconnect, or to a send that
\* waited for the lock across one.
InSync ==
  \A c \in Client :
    rpc[c] = "read" /\ ws[c] = "open" /\ ~Pushing(c) =>
      server[c] = wanted[c] /\ marked[c] \subseteq server[c]

\* The lock is held by exactly the task that is inside ws.send, so it is free
\* again when that send returns or raises.
LockIsHeld ==
  \A c \in Client :
    /\ lock[c] = "disc" <=> dpc = "send" /\ dclient = c
    /\ lock[c] = "run" <=> rpc[c] = "initSend"
    /\ lock[c] = "ping" => rpc[c] = "read"

\* An announced market has its row and its trades subscription for good: the
\* resolver and the back-tester find it whatever happens to the announcement.
SeenIsKept == seen \subseteq stored /\ seen \subseteq wanted["rtds"]

\* As long as no connection breaks, every announced market reaches both
\* clients by the end of the scan, also past failed upserts and connects.
FedUnlessDropped ==
  drops = 0 /\ dpc = "idle" => seen \subseteq wanted["clob"]

\* gamma.py:94: "async callable invoked with parsed market dict the first time
\* we see a given slug in this process. Use it to push subscriptions."  A
\* market the process has seen is subscribed on both clients, at the latest
\* when the scan is over: README:75 has them re-sent "from in-memory state".
SeenIsFed == dpc = "idle" => seen \subseteq wanted["clob"]

\* When connections break only finitely often, every item a client was given
\* ends up subscribed for good.
EventuallyInSync ==
  \A c \in Client : <>[](phase = "running" => server[c] = wanted[c])
=============================================================================
