----------------------------- MODULE EventStream ------------------------------
(***************************************************************************)
(* Live updates: the event bus (logic/events.py), the /api/events stream   *)
(* (main_pkg/ops_routes.py) and one browser tab in Live mode               *)
(* (static/js/app-sse.js, refresh() in static/js/app-admin.js).            *)
(*                                                                         *)
(* `cache:invalidated` tells the tab to ask for a rebuild of the items     *)
(* cache: a forced GET /api/items that reaches the server afterwards.  It  *)
(* asks too when it is told that events were dropped and when it           *)
(* reconnects.  Between bus and socket an event passes two bounded queues: *)
(* the subscriber's, which drops its oldest event, and a local one, which  *)
(* drops the newest.  Subscribers share nothing, so one tab is modelled,   *)
(* with every connection it opens.  How the server rebuilds the cache is   *)
(* not part of this module.                                                *)
(***************************************************************************)
EXTENDS Naturals, Sequences

CONSTANTS
  QueueMax,     \* _QUEUE_MAX, the cap of a subscriber's queue
  LocalMax,     \* maxsize of the local queue of /api/events
  WireMax,      \* what the socket buffers for a slow client
  MaxPublished, \* bound on events
  MaxConns,     \* bound on connections the tab opens
  MaxFailures   \* bound on reloads that fail

ASSUME EventAssumption ==
  /\ {QueueMax, LocalMax, WireMax} \subseteq Nat \ {0}
  /\ {MaxPublished, MaxFailures} \subseteq Nat
  /\ MaxConns \in Nat \ {0}

VARIABLES
  published,     \* events published
  invalidations, \* of which cache:invalidated
  srv,           \* per connection: "none", "starting", "serving", "closed"
  subs,          \* connections registered on the bus
  bus,           \* per connection: the subscriber's queue
  overflow,      \* per connection: the subscriber's overflow flag
  local,         \* per connection: the local queue
  wire,          \* per connection: sent and not yet handled
  cli,           \* the tab's side: "none", "opening", "open", "gone"
  reconnects,    \* _sseReconnects: `open` events so far
  fetch,         \* the reload in flight: "idle", "forced", "plain", "answered"
  again,         \* _refreshForcePending
  timer,         \* the debounce timer of cache:invalidated is set
  refetch,       \* the debounce timer of cache:refreshed is set
  seen,          \* invalidations before the tab's last forced reload got there
  failures,      \* reloads that failed
  gap            \* why the tab will not ask: "no", "at_load", "local", "failed"

serverVars == <<published, invalidations, srv, subs, bus, overflow, local>>
tabVars == <<fetch, again, timer, refetch, seen, failures>>
evVars == <<serverVars, wire, cli, reconnects, tabVars, gap>>

Conns == 1..MaxConns

EventKind == {"cache:invalidated", "cache:refreshed", ":overflow"}

\* The events that make the tab ask for a rebuild.
Telling == {"cache:invalidated", ":overflow"}

Tells(q) == \E i \in DOMAIN q : q[i] \in Telling

-------------------------------------------------------------------------------
(* The bus.                                                                *)

\* Bug: the cap is forgotten.
PushBug(q, k) == Append(q, k)

\* Drop the oldest event when the queue is full.
Push(q, k) == Append(IF Len(q) >= QueueMax THEN Tail(q) ELSE q, k)

\* publish: to every subscriber, without waiting for any.
Publish(k) ==
  /\ published < MaxPublished
  /\ published' = published + 1
  /\ invalidations' = IF k = "cache:invalidated" THEN invalidations + 1 ELSE invalidations
  /\ bus' = [c \in Conns |-> IF c \in subs THEN Push(bus[c], k) ELSE bus[c]]
  /\ overflow' = [c \in Conns |-> overflow[c] \/ (c \in subs /\ Len(bus[c]) >= QueueMax)]
  /\ gap' = CASE k # "cache:invalidated" -> gap
              [] k = "cache:invalidated" /\ subs = {} /\ reconnects = 0 -> "at_load"
              [] OTHER -> "no"
  /\ UNCHANGED <<srv, subs, local, wire, cli, reconnects, tabVars>>

\* Bug: the flag is cleared and the marker forgotten.
HandedOverBug(c) == bus[c]

\* What the subscription yields when it runs: it was suspended in queue.get(),
\* so the head comes first, then the marker if events were dropped meanwhile.
HandedOver(c) ==
  IF overflow[c] THEN <<Head(bus[c]), ":overflow">> \o Tail(bus[c]) ELSE bus[c]

\* The producer task runs until the bus queue is empty, without a pause in which
\* the local queue could be read.  What does not fit is dropped, and so is the
\* :local-overflow hint, which is put into the same full queue.
Drain(c) ==
  /\ srv[c] = "serving"
  /\ bus[c] # <<>>
  /\ LET all  == local[c] \o HandedOver(c)
         kept == SubSeq(all, 1, IF Len(all) > LocalMax THEN LocalMax ELSE Len(all))
         cut  == SubSeq(all, Len(kept) + 1, Len(all))
     IN  /\ local' = [local EXCEPT ![c] = kept]
         /\ gap' = IF Tells(cut) /\ ~Tells(kept) THEN "local" ELSE gap
  /\ bus' = [bus EXCEPT ![c] = <<>>]
  /\ overflow' = [overflow EXCEPT ![c] = FALSE]
  /\ UNCHANGED <<published, invalidations, srv, subs, wire, cli, reconnects, tabVars>>

-------------------------------------------------------------------------------
(* The connection.                                                         *)

\* The EventSource connects; /api/events sends its hello frame.  The page has
\* loaded its data before it opens the stream.
Connect(c) ==
  /\ cli[c] = "none"
  /\ \A d \in Conns : IF d < c THEN cli[d] = "gone" ELSE cli[d] = "none"
  /\ cli' = [cli EXCEPT ![c] = "opening"]
  /\ srv' = [srv EXCEPT ![c] = "starting"]
  /\ UNCHANGED <<published, invalidations, subs, bus, overflow, local, wire, reconnects, tabVars, gap>>

\* The producer task starts: the subscriber is registered.
Subscribe(c) ==
  /\ srv[c] = "starting"
  /\ srv' = [srv EXCEPT ![c] = "serving"]
  /\ subs' = subs \union {c}
  /\ UNCHANGED <<published, invalidations, bus, overflow, local, wire, cli, reconnects, tabVars, gap>>

\* One event is written to the socket.
Send(c) ==
  /\ srv[c] = "serving"
  /\ cli[c] # "gone"
  /\ local[c] # <<>>
  /\ Len(wire[c]) < WireMax
  /\ wire' = [wire EXCEPT ![c] = Append(@, Head(local[c]))]
  /\ local' = [local EXCEPT ![c] = Tail(@)]
  /\ UNCHANGED <<published, invalidations, srv, subs, bus, overflow, cli, reconnects, tabVars, gap>>

\* The browser notices that the network dropped or the laptop slept.  Bound: the last connection lives.
Drop(c) ==
  /\ cli[c] = "open"
  /\ c < MaxConns
  /\ cli' = [cli EXCEPT ![c] = "gone"]
  /\ wire' = [wire EXCEPT ![c] = <<>>]
  /\ UNCHANGED <<published, invalidations, srv, subs, bus, overflow, local, reconnects, tabVars, gap>>

\* Bug: the generator is dropped without running its finally clause.
LeaveBug(c) ==
  /\ srv' = [srv EXCEPT ![c] = "closed"]
  /\ UNCHANGED subs

\* The finally clauses of the stream and of the subscription.
Leave(c) ==
  /\ srv' = [srv EXCEPT ![c] = "closed"]
  /\ subs' = subs \ {c}

\* The stream notices that the client is gone, or its lifetime is over (the
\* queues are forgotten; what is on the wire still arrives).
CloseStream(c) ==
  /\ srv[c] = "serving"
  /\ cli[c] = "gone" \/ (cli[c] = "open" /\ c < MaxConns)
  /\ Leave(c)
  /\ bus' = [bus EXCEPT ![c] = <<>>]
  /\ overflow' = [overflow EXCEPT ![c] = FALSE]
  /\ local' = [local EXCEPT ![c] = <<>>]
  /\ UNCHANGED <<published, invalidations, wire, cli, reconnects, tabVars, gap>>

-------------------------------------------------------------------------------
(* The tab.                                                                *)

\* Bug: a forced reload joins the one in flight, which may have gone too early.
RefreshBug ==
  /\ UNCHANGED again
  /\ fetch' = IF fetch = "idle" THEN "forced" ELSE fetch

\* refresh(true): one reload at a time, and another after it if it was asked for.
Refresh ==
  /\ again' = (again \/ fetch # "idle")
  /\ fetch' = IF fetch = "idle" THEN "forced" ELSE fetch

\* Bug: reconnecting does not reload.
OpenedBug(c) ==
  /\ cli[c] = "opening"
  /\ srv[c] # "starting"
  /\ cli' = [cli EXCEPT ![c] = "open"]
  /\ reconnects' = reconnects + 1
  /\ UNCHANGED <<serverVars, wire, tabVars, gap>>

\* The `open` event: every one but the first reloads.  The hello frame leaves
\* the server a few turns of its loop before the producer starts, a round trip
\* before the tab's reload can reach it.
Opened(c) ==
  /\ cli[c] = "opening"
  /\ srv[c] # "starting"
  /\ cli' = [cli EXCEPT ![c] = "open"]
  /\ reconnects' = reconnects + 1
  /\ IF reconnects > 0 THEN Refresh ELSE UNCHANGED <<fetch, again>>
  /\ UNCHANGED <<serverVars, wire, timer, refetch, seen, failures, gap>>

\* The tab handles one event: a marker reloads at once, the others start (or
\* restart) their debounce timer.
Receive(c) ==
  /\ cli[c] = "open"
  /\ wire[c] # <<>>
  /\ wire' = [wire EXCEPT ![c] = Tail(@)]
  /\ IF Head(wire[c]) = ":overflow" THEN Refresh ELSE UNCHANGED <<fetch, again>>
  /\ timer' = (timer \/ Head(wire[c]) = "cache:invalidated")
  /\ refetch' = (refetch \/ Head(wire[c]) = "cache:refreshed")
  /\ UNCHANGED <<serverVars, cli, reconnects, seen, failures, gap>>

TimerFires ==
  /\ timer
  /\ timer' = FALSE
  /\ Refresh
  /\ UNCHANGED <<serverVars, wire, cli, reconnects, refetch, seen, failures, gap>>

\* refresh(false) re-reads the rebuilt cache; it is dropped while a reload is in
\* flight.
RefetchFires ==
  /\ refetch
  /\ refetch' = FALSE
  /\ fetch' = IF fetch = "idle" THEN "plain" ELSE fetch
  /\ UNCHANGED <<serverVars, wire, cli, reconnects, again, timer, seen, failures, gap>>

\* The stream ended: EventSource goes on to reconnect.
SeeEnd(c) ==
  /\ cli[c] = "open"
  /\ srv[c] = "closed"
  /\ wire[c] = <<>>
  /\ cli' = [cli EXCEPT ![c] = "gone"]
  /\ UNCHANGED <<serverVars, wire, reconnects, tabVars, gap>>

\* GET /api/items reaches the server.
Answer ==
  /\ fetch \in {"forced", "plain"}
  /\ fetch' = "answered"
  /\ seen' = IF fetch = "forced" THEN invalidations ELSE seen
  /\ gap' = IF fetch = "forced" THEN "no" ELSE gap
  /\ UNCHANGED <<serverVars, wire, cli, reconnects, again, timer, refetch, failures>>

\* It does not, or comes back as an error: a toast, and no retry.
FetchFails ==
  /\ fetch \in {"forced", "plain"}
  /\ failures < MaxFailures
  /\ failures' = failures + 1
  /\ fetch' = "answered"
  /\ gap' = IF fetch = "forced" /\ seen # invalidations THEN "failed" ELSE gap
  /\ UNCHANGED <<serverVars, wire, cli, reconnects, again, timer, refetch, seen>>

\* The reload is over; a forced one that was asked for meanwhile follows it.
Reloaded ==
  /\ fetch = "answered"
  /\ fetch' = IF again THEN "forced" ELSE "idle"
  /\ again' = FALSE
  /\ UNCHANGED <<serverVars, wire, cli, reconnects, timer, refetch, seen, failures, gap>>

-------------------------------------------------------------------------------
EvInit ==
  /\ published = 0
  /\ invalidations = 0
  /\ srv = [c \in Conns |-> "none"]
  /\ subs = {}
  /\ bus = [c \in Conns |-> <<>>]
  /\ overflow = [c \in Conns |-> FALSE]
  /\ local = [c \in Conns |-> <<>>]
  /\ wire = [c \in Conns |-> <<>>]
  /\ cli = [c \in Conns |-> "none"]
  /\ reconnects = 0
  /\ fetch = "idle"
  /\ again = FALSE
  /\ timer = FALSE
  /\ refetch = FALSE
  /\ seen = 0
  /\ failures = 0
  /\ gap = "no"

Serve(c) ==
  \/ Subscribe(c)
  \/ Drain(c)
  \/ Send(c)

TabStep(c) ==
  \/ Connect(c)
  \/ Opened(c)
  \/ Receive(c)
  \/ SeeEnd(c)

EvNext ==
  \/ \E k \in {"cache:invalidated", "cache:refreshed"} : Publish(k)
  \/ \E c \in Conns : Serve(c)
  \/ \E c \in Conns : CloseStream(c)
  \/ \E c \in Conns : Drop(c)
  \/ \E c \in Conns : TabStep(c)
  \/ TimerFires
  \/ RefetchFires
  \/ Answer
  \/ FetchFails
  \/ Reloaded

EvSpec == EvInit /\ [][EvNext]_evVars

\* The event loop gets round to every task, the stream of a vanished client
\* looks for it at least once per heartbeat, and a tab that is there reads its
\* socket, reconnects and gets an answer.  Nothing need be published, be dropped
\* or fail.
EvFairness ==
  /\ \A c \in Conns :
       /\ WF_evVars(Subscribe(c))
       /\ WF_evVars(Drain(c))
       /\ WF_evVars(Send(c))
       /\ WF_evVars(cli[c] = "gone" /\ CloseStream(c))
       /\ WF_evVars(TabStep(c))
  /\ WF_evVars(TimerFires)
  /\ WF_evVars(RefetchFires)
  /\ WF_evVars(Answer)
  /\ WF_evVars(Reloaded)

FairEvSpec == EvSpec /\ EvFairness

-------------------------------------------------------------------------------
(* Properties.                                                             *)

\* Types; the queues of a client that does not read stay bounded.
EvTypeOK ==
  /\ published \in 0..MaxPublished
  /\ invalidations \in 0..published
  /\ srv \in [Conns -> {"none", "starting", "serving", "closed"}]
  /\ subs \subseteq Conns
  /\ bus \in [Conns -> Seq(EventKind \ {":overflow"})]
  /\ \A c \in Conns : Len(bus[c]) <= QueueMax
  /\ overflow \in [Conns -> BOOLEAN]
  /\ local \in [Conns -> Seq(EventKind)]
  /\ \A c \in Conns : Len(local[c]) <= LocalMax
  /\ wire \in [Conns -> Seq(EventKind)]
  /\ \A c \in Conns : Len(wire[c]) <= WireMax
  /\ cli \in [Conns -> {"none", "opening", "open", "gone"}]
  /\ reconnects \in 0..MaxConns
  /\ fetch \in {"idle", "forced", "plain", "answered"}
  /\ {again, timer, refetch} \subseteq BOOLEAN
  /\ seen \in 0..invalidations
  /\ failures \in 0..MaxFailures
  /\ gap \in {"no", "at_load", "local", "failed"}

\* A forced reload is under way or about to start.
ReloadComing == timer \/ again \/ fetch = "forced"

\* Something on connection c will make the tab reload.
Announced(c) ==
  \/ /\ cli[c] = "opening"
     /\ reconnects > 0
  \/ /\ cli[c] \in {"opening", "open"}
     /\ overflow[c] \/ (\E q \in {bus[c], local[c], wire[c]} : Tells(q))
  \/ /\ cli[c] = "open"
     /\ srv[c] = "closed"

Reconnecting == reconnects > 0 /\ \A c \in Conns : cli[c] \in {"none", "gone"}

\* An invalidation the server has not been asked about since is going to be: an
\* event, a marker, a reconnection or a reload is on its way, however many
\* events the subscriber's queue dropped, wherever the connection broke and
\* whatever reload was in flight.  The exceptions are named in `gap`: an
\* invalidation before the tab's first subscription, one that the local queue
\* dropped, and one whose reload failed.
NoInvalidationForgotten ==
  \/ seen = invalidations
  \/ gap # "no"
  \/ ReloadComing
  \/ Reconnecting
  \/ \E c \in Conns : Announced(c)

\* A tab in Live mode, where nothing polls, ends up having asked for a rebuild
\* that covers every invalidation.
EveryInvalidationAskedFor == <>[](seen = invalidations \/ gap # "no")

\* A client that went away does not stay subscribed, so a dead connection never
\* goes on filling a queue.
DeadSubscribersLeave == \A c \in Conns : (cli[c] = "gone") ~> (c \notin subs)
===============================================================================
