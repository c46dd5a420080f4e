-------------------------- MODULE EventStreamProofs ---------------------------
(***************************************************************************)
(* What the live updates guarantee for queues, sockets and numbers of      *)
(* events, connections and failures of any size.                           *)
(***************************************************************************)
EXTENDS EventStream, TLAPS

-------------------------------------------------------------------------------
(* The inductive invariant.                                                *)

\* The two ends of a connection, and the connections of a tab one after another.
Connections ==
  /\ \A c, d \in Conns : c < d /\ cli[d] # "none" => cli[c] = "gone"
  /\ \A c \in Conns :
       /\ srv[c] = "none" <=> cli[c] = "none"
       /\ srv[c] = "starting" => cli[c] = "opening"
       /\ srv[c] = "closed" => cli[c] \in {"open", "gone"}
       /\ c \in subs <=> srv[c] = "serving"
       /\ cli[c] \in {"open", "gone"} <=> c <= reconnects

EvInv ==
  /\ EvTypeOK
  /\ Connections
  /\ NoInvalidationForgotten
-------------------------------------------------------------------------------
(* Which queues tell the tab to reload.                                    *)

LEMMA TellsAppend ==
  ASSUME NEW q \in Seq(EventKind), NEW k \in EventKind
  PROVE  Tells(Append(q, k)) <=> Tells(q) \/ k \in Telling
<1>1. /\ Len(Append(q, k)) = Len(q) + 1 /\ Append(q, k)[Len(q) + 1] = k
      /\ \A n \in 1..Len(q) : Append(q, k)[n] = q[n]
      /\ DOMAIN Append(q, k) = 1..(Len(q) + 1) /\ DOMAIN q = 1..Len(q) /\ Len(q) \in Nat
  OBVIOUS
<1>2. QED
  BY <1>1 DEF Tells

LEMMA TellsConcat ==
  ASSUME NEW p \in Seq(EventKind), NEW q \in Seq(EventKind)
  PROVE  /\ p \o q \in Seq(EventKind)
         /\ Tells(p) \/ Tells(q) => Tells(p \o q)
<1>1. /\ p \o q \in Seq(EventKind) /\ Len(p \o q) = Len(p) + Len(q)
      /\ DOMAIN p = 1..Len(p) /\ DOMAIN q = 1..Len(q) /\ DOMAIN (p \o q) = 1..Len(p \o q)
      /\ Len(p) \in Nat /\ Len(q) \in Nat
  OBVIOUS
<1>2. /\ \A n \in 1..Len(p) : (p \o q)[n] = p[n]
      /\ \A n \in 1..Len(q) : (p \o q)[Len(p) + n] = q[n]
  OBVIOUS
<1>3. ASSUME NEW n \in 1..Len(q) PROVE Len(p) + n \in 1..Len(p \o q)
  BY <1>1
<1>4. ASSUME Tells(p) PROVE Tells(p \o q)
  <2>1. PICK n \in 1..Len(p) : p[n] \in Telling
    BY <1>1, <1>4 DEF Tells
  <2>2. n \in DOMAIN (p \o q) /\ (p \o q)[n] \in Telling
    BY <1>1, <1>2, <2>1
  <2>3. QED
    BY <2>2 DEF Tells
<1>5. ASSUME Tells(q) PROVE Tells(p \o q)
  <2>1. PICK n \in 1..Len(q) : q[n] \in Telling
    BY <1>1, <1>5 DEF Tells
  <2>2. Len(p) + n \in DOMAIN (p \o q) /\ (p \o q)[Len(p) + n] \in Telling
    BY <1>1, <1>2, <1>3, <2>1
  <2>3. QED
    BY <2>2 DEF Tells
<1>6. QED
  BY <1>1, <1>4, <1>5

\* Cutting a queue in two loses no event.
LEMMA TellsCut ==
  ASSUME NEW q \in Seq(EventKind), NEW n \in 0..Len(q), Tells(q)
  PROVE  Tells(SubSeq(q, 1, n)) \/ Tells(SubSeq(q, n + 1, Len(q)))
<1>1. Len(q) \in Nat /\ n \in Nat /\ n <= Len(q) /\ DOMAIN q = 1..Len(q)
  OBVIOUS
<1>2. PICK m \in 1..Len(q) : q[m] \in Telling
  BY <1>1 DEF Tells
<1>3. CASE m <= n
  <2>1. SubSeq(q, 1, n)[m] = q[m] /\ m \in DOMAIN SubSeq(q, 1, n)
    BY <1>1, <1>3
  <2>2. QED
    BY <1>2, <2>1 DEF Tells
<1>4. CASE m > n
  <2>1. /\ SubSeq(q, n + 1, Len(q))[m - n] = q[m]
        /\ m - n \in DOMAIN SubSeq(q, n + 1, Len(q))
    BY <1>1, <1>4
  <2>2. QED
    BY <1>2, <2>1 DEF Tells
<1>5. QED
  BY <1>1, <1>3, <1>4

LEMMA TellsHead ==
  ASSUME NEW q \in Seq(EventKind), q # <<>>
  PROVE  /\ Head(q) \in EventKind /\ Tail(q) \in Seq(EventKind) /\ Len(Tail(q)) = Len(q) - 1
         /\ Tells(q) => Head(q) \in Telling \/ Tells(Tail(q))
<1>1. /\ Len(q) \in Nat \ {0} /\ DOMAIN q = 1..Len(q)
      /\ Head(q) = q[1] /\ Head(q) \in EventKind
      /\ Tail(q) \in Seq(EventKind) /\ Len(Tail(q)) = Len(q) - 1
      /\ DOMAIN Tail(q) = 1..(Len(q) - 1)
  OBVIOUS
<1>2. \A n \in 1..(Len(q) - 1) : Tail(q)[n] = q[n + 1]
  BY <1>1
<1>3. ASSUME NEW n \in 1..Len(q), q[n] \in Telling, n # 1
      PROVE  n - 1 \in 1..(Len(q) - 1) /\ Tail(q)[n - 1] \in Telling
  BY <1>1, <1>2, <1>3
<1>4. QED
  BY <1>1, <1>3 DEF Tells

\* A queue into which an event is pushed stays within its cap, and what it
\* forgets it forgets only when it was full.
LEMMA PushKeeps ==
  ASSUME NEW q \in Seq(EventKind \ {":overflow"}), Len(q) <= QueueMax,
         NEW k \in EventKind \ {":overflow"}
  PROVE  /\ Push(q, k) \in Seq(EventKind \ {":overflow"})
         /\ Len(Push(q, k)) <= QueueMax
         /\ Tells(q) => Tells(Push(q, k)) \/ Len(q) >= QueueMax
         /\ k \in Telling => Tells(Push(q, k))
<1>1. QueueMax \in Nat /\ QueueMax > 0
  BY EventAssumption
<1>2. q \in Seq(EventKind) /\ k \in EventKind
  BY DEF EventKind
<1>3. CASE Len(q) >= QueueMax
  <2>1. q # <<>> /\ Len(q) = QueueMax
    BY <1>1, <1>3
  <2>2. Tail(q) \in Seq(EventKind \ {":overflow"}) /\ Len(Tail(q)) = Len(q) - 1
    BY <2>1
  <2>3. Tail(q) \in Seq(EventKind)
    BY <1>2, <2>1, TellsHead
  <2>4. Push(q, k) = Append(Tail(q), k)
    BY <1>3 DEF Push
  <2>5. Push(q, k) \in Seq(EventKind \ {":overflow"}) /\ Len(Push(q, k)) <= QueueMax
    BY <1>1, <2>1, <2>2, <2>4
  <2>6. k \in Telling => Tells(Push(q, k))
    BY <1>2, <2>3, <2>4, TellsAppend
  <2>7. QED
    BY <1>3, <2>5, <2>6
<1>4. CASE ~(Len(q) >= QueueMax)
  <2>1. Push(q, k) = Append(q, k)
    BY <1>4 DEF Push
  <2>2. QED
    BY <1>1, <1>2, <1>4, <2>1, TellsAppend
<1>5. QED
  BY <1>3, <1>4

\* What the subscription hands over tells of everything that was queued or
\* dropped.
LEMMA HandedOverTells ==
  ASSUME NEW c \in Conns, EvTypeOK, bus[c] # <<>>
  PROVE  /\ HandedOver(c) \in Seq(EventKind)
         /\ overflow[c] \/ Tells(bus[c]) => Tells(HandedOver(c))
<1>1. bus[c] \in Seq(EventKind)
  BY DEF EvTypeOK, EventKind
<1>2. CASE ~overflow[c]
  BY <1>1, <1>2 DEF HandedOver
<1>3. CASE overflow[c]
  <2> DEFINE p == <<Head(bus[c]), ":overflow">>
  <2>1. Head(bus[c]) \in EventKind /\ Tail(bus[c]) \in Seq(EventKind)
    BY <1>1, TellsHead
  <2>2. p \in Seq(EventKind)
    BY <2>1 DEF EventKind
  <2>3. Tells(p)
    <3>1. DOMAIN p = 1..2 /\ p[2] = ":overflow"
      OBVIOUS
    <3>2. QED
      BY <3>1 DEF Tells, Telling
  <2>4. HandedOver(c) = p \o Tail(bus[c])
    BY <1>3 DEF HandedOver
  <2> HIDE DEF p
  <2>5. QED
    BY <2>1, <2>2, <2>3, <2>4, TellsConcat
<1>4. QED
  BY <1>2, <1>3
-------------------------------------------------------------------------------
(* Every step preserves the invariant.                                     *)

\* The queues of a connection, one by one.
QueuesTell(c) == overflow[c] \/ Tells(bus[c]) \/ Tells(local[c]) \/ Tells(wire[c])

\* The tab has opened a connection before: if none is live it will reconnect, and
\* if one is, the reconnection, the subscription or the end of the stream tells.
LEMMA TabHasOpened ==
  ASSUME EvInv, reconnects > 0
  PROVE  Reconnecting \/ \E c \in Conns :
           \/ cli[c] = "opening"
           \/ cli[c] = "open" /\ (c \in subs \/ srv[c] = "closed")
  BY DEF EvInv, EvTypeOK, Connections, Reconnecting

LEMMA PublishKeeps ==
  ASSUME NEW k \in {"cache:invalidated", "cache:refreshed"}, EvInv, Publish(k)
  PROVE  EvInv'
<1>1. /\ bus \in [Conns -> Seq(EventKind \ {":overflow"})]
      /\ \A c \in Conns : Len(bus[c]) <= QueueMax
      /\ overflow \in [Conns -> BOOLEAN]
      /\ k \in EventKind \ {":overflow"}
  BY DEF EvInv, EvTypeOK, EventKind
<1>2. /\ srv' = srv /\ subs' = subs /\ local' = local /\ wire' = wire /\ cli' = cli
      /\ reconnects' = reconnects /\ fetch' = fetch /\ again' = again /\ timer' = timer
      /\ refetch' = refetch /\ seen' = seen /\ failures' = failures
  BY DEF Publish, tabVars
<1>3. /\ published' = published + 1 /\ published < MaxPublished
      /\ invalidations' = IF k = "cache:invalidated" THEN invalidations + 1 ELSE invalidations
      /\ bus' = [c \in Conns |-> IF c \in subs THEN Push(bus[c], k) ELSE bus[c]]
      /\ overflow' = [c \in Conns |-> overflow[c] \/ (c \in subs /\ Len(bus[c]) >= QueueMax)]
      /\ gap' = CASE k # "cache:invalidated" -> gap
                  [] k = "cache:invalidated" /\ subs = {} /\ reconnects = 0 -> "at_load"
                  [] OTHER -> "no"
  BY DEF Publish
<1>4. \A c \in Conns : /\ Push(bus[c], k) \in Seq(EventKind \ {":overflow"})
                       /\ Len(Push(bus[c], k)) <= QueueMax
                       /\ Tells(bus[c]) => Tells(Push(bus[c], k)) \/ Len(bus[c]) >= QueueMax
                       /\ k \in Telling => Tells(Push(bus[c], k))
  BY <1>1, PushKeeps
<1>5. EvTypeOK'
  <2>1. published' \in 0..MaxPublished /\ invalidations' \in 0..published' /\ seen' \in 0..invalidations'
    BY <1>2, <1>3, EventAssumption DEF EvInv, EvTypeOK
  <2>2. /\ bus' \in [Conns -> Seq(EventKind \ {":overflow"})]
        /\ \A c \in Conns : Len(bus'[c]) <= QueueMax
    BY <1>1, <1>3, <1>4
  <2>3. overflow' \in [Conns -> BOOLEAN]
    BY <1>3
  <2>4. gap' \in {"no", "at_load", "local", "failed"}
    BY <1>3 DEF EvInv, EvTypeOK
  <2>5. QED
    BY <1>2, <2>1, <2>2, <2>3, <2>4 DEF EvInv, EvTypeOK
<1>6. Connections'
  BY <1>2 DEF EvInv, Connections
<1>7. \A c \in Conns : c \in subs => QueuesTell(c)' \/ (~QueuesTell(c) /\ k \notin Telling)
  BY <1>2, <1>3, <1>4 DEF QueuesTell
<1>8. \A c \in Conns : c \notin subs => QueuesTell(c)' <=> QueuesTell(c)
  BY <1>2, <1>3 DEF QueuesTell
<1>9. NoInvalidationForgotten'
  <2>1. CASE k = "cache:invalidated"
    <3>1. k \in Telling
      BY <2>1 DEF Telling
    <3>2. CASE subs = {} /\ reconnects = 0
      BY <1>3, <2>1, <3>2 DEF NoInvalidationForgotten
    <3>3. ASSUME NEW c \in subs, cli[c] \in {"opening", "open"}
          PROVE  Announced(c)' /\ c \in Conns
      <4>1. c \in Conns
        BY DEF EvInv, EvTypeOK
      <4>2. QueuesTell(c)'
        BY <1>7, <3>1, <4>1
      <4>3. QED
        BY <1>2, <3>3, <4>1, <4>2 DEF Announced, QueuesTell
    <3>4. CASE reconnects = 0 /\ subs # {}
      <4>1. PICK c \in subs : c \in Conns
        BY <3>4 DEF EvInv, EvTypeOK
      <4>2. cli[c] = "opening"
        <5>1. srv[c] = "serving" /\ ~(c <= reconnects)
          BY <3>4, <4>1 DEF EvInv, Connections, Conns
        <5>2. QED
          BY <4>1, <5>1 DEF EvInv, EvTypeOK, Connections
      <4>3. QED
        BY <3>3, <4>1, <4>2 DEF NoInvalidationForgotten
    <3>5. CASE reconnects > 0
      <4>1. CASE Reconnecting
        BY <1>2, <4>1 DEF NoInvalidationForgotten, Reconnecting
      <4>2. ASSUME NEW c \in Conns, cli[c] = "opening" \/ (cli[c] = "open" /\ srv[c] = "closed")
            PROVE  NoInvalidationForgotten'
        BY <1>2, <3>5, <4>2 DEF NoInvalidationForgotten, Announced
      <4>3. ASSUME NEW c \in Conns, cli[c] = "open", c \in subs
            PROVE  NoInvalidationForgotten'
        BY <3>3, <4>3 DEF NoInvalidationForgotten
      <4>4. QED
        BY <3>5, <4>1, <4>2, <4>3, TabHasOpened
    <3>6. reconnects \in Nat
      BY EventAssumption DEF EvInv, EvTypeOK
    <3>7. QED
      BY <3>2, <3>4, <3>5, <3>6
  <2>2. CASE k = "cache:refreshed"
    <3>1. gap' = gap /\ invalidations' = invalidations
      BY <1>3, <2>2
    <3>2. ASSUME NEW c \in Conns, Announced(c) PROVE Announced(c)'
      <4>1. QueuesTell(c) => QueuesTell(c)'
        BY <1>7, <1>8
      <4>2. QED
        BY <1>2, <3>2, <4>1 DEF Announced, QueuesTell
    <3>3. QED
      BY <1>2, <3>1, <3>2 DEF EvInv, NoInvalidationForgotten, ReloadComing, Reconnecting
  <2>3. QED
    BY <2>1, <2>2
<1>10. QED
  BY <1>5, <1>6, <1>9 DEF EvInv
\* What does not fit into the local queue is cut off; if only that told, `gap`
\* says so.
LEMMA DrainKeeps ==
  ASSUME NEW c \in Conns, EvInv, Drain(c)
  PROVE  EvInv'
<1> DEFINE all  == local[c] \o HandedOver(c)
           n    == IF Len(all) > LocalMax THEN LocalMax ELSE Len(all)
           kept == SubSeq(all, 1, n)
           cut  == SubSeq(all, Len(kept) + 1, Len(all))
<1>1. /\ published' = published /\ invalidations' = invalidations /\ srv' = srv /\ subs' = subs
      /\ wire' = wire /\ cli' = cli /\ reconnects' = reconnects /\ fetch' = fetch
      /\ again' = again /\ timer' = timer /\ refetch' = refetch /\ seen' = seen
      /\ failures' = failures
      /\ bus[c] # <<>>
  BY DEF Drain, tabVars
<1>2. /\ local' = [local EXCEPT ![c] = kept]
      /\ gap' = IF Tells(cut) /\ ~Tells(kept) THEN "local" ELSE gap
      /\ bus' = [bus EXCEPT ![c] = <<>>]
      /\ overflow' = [overflow EXCEPT ![c] = FALSE]
  BY DEF Drain
<1>3. /\ bus \in [Conns -> Seq(EventKind \ {":overflow"})]
      /\ overflow \in [Conns -> BOOLEAN]
      /\ local \in [Conns -> Seq(EventKind)] /\ local[c] \in Seq(EventKind)
  BY DEF EvInv, EvTypeOK
<1>4. all \in Seq(EventKind) /\ (QueuesTell(c) => Tells(all) \/ Tells(wire[c]))
  <2>1. HandedOver(c) \in Seq(EventKind)
        /\ (overflow[c] \/ Tells(bus[c]) => Tells(HandedOver(c)))
    BY <1>1, HandedOverTells DEF EvInv
  <2>2. QED
    BY <1>3, <2>1, TellsConcat DEF QueuesTell
<1>5. n \in 0..Len(all) /\ n <= LocalMax /\ Len(all) \in Nat
  BY <1>4, EventAssumption
<1> HIDE DEF all, n
<1>6. kept \in Seq(EventKind) /\ Len(kept) = n
  <2>1. \A m \in 1..n : all[m] \in EventKind
    BY <1>4, <1>5
  <2>2. QED
    BY <1>4, <1>5, <2>1
<1>7. Tells(all) => Tells(kept) \/ Tells(cut)
  BY <1>4, <1>5, <1>6, TellsCut
<1> HIDE DEF kept, cut
<1>8. EvTypeOK'
  <2>1. local' \in [Conns -> Seq(EventKind)] /\ \A d \in Conns : Len(local'[d]) <= LocalMax
    BY <1>2, <1>3, <1>5, <1>6 DEF EvInv, EvTypeOK
  <2>2. <<>> \in Seq(EventKind \ {":overflow"}) /\ Len(<<>>) = 0
    OBVIOUS
  <2>3. /\ bus' \in [Conns -> Seq(EventKind \ {":overflow"})]
        /\ \A d \in Conns : Len(bus'[d]) <= QueueMax
    BY <1>2, <1>3, <2>2, EventAssumption DEF EvInv, EvTypeOK
  <2>4. overflow' \in [Conns -> BOOLEAN]
    BY <1>2, <1>3
  <2>5. gap' \in {"no", "at_load", "local", "failed"}
    BY <1>2 DEF EvInv, EvTypeOK
  <2>6. QED
    BY <1>1, <2>1, <2>3, <2>4, <2>5 DEF EvInv, EvTypeOK
<1>9. Connections'
  BY <1>1 DEF EvInv, Connections
<1>10. NoInvalidationForgotten'
  <2>1. CASE gap' # "no"
    BY <2>1 DEF NoInvalidationForgotten
  <2>2. CASE gap' = "no"
    <3>1. gap = "no"
      BY <1>2, <2>2
    <3>2. Tells(all) => Tells(kept)
      BY <1>2, <1>7, <2>2
    <3>3. local'[c] = kept
      BY <1>2, <1>3
    <3>4. QueuesTell(c) => QueuesTell(c)'
      BY <1>1, <1>4, <3>2, <3>3 DEF QueuesTell
    <3>5. \A d \in Conns : d # c => (QueuesTell(d) => QueuesTell(d)')
      BY <1>1, <1>2, <1>3 DEF QueuesTell
    <3>6. ASSUME NEW d \in Conns, Announced(d) PROVE Announced(d)'
      <4>1. QueuesTell(d) => QueuesTell(d)'
        BY <3>4, <3>5
      <4>2. QED
        BY <1>1, <3>6, <4>1 DEF Announced, QueuesTell
    <3>7. QED
      BY <1>1, <3>1, <3>6 DEF EvInv, NoInvalidationForgotten, ReloadComing, Reconnecting
  <2>3. QED
    BY <2>1, <2>2
<1>11. QED
  BY <1>8, <1>9, <1>10 DEF EvInv

\* A new connection stands for the reconnection that was due; no earlier one is
\* live.
LEMMA ConnectKeeps ==
  ASSUME NEW c \in Conns, EvInv, Connect(c)
  PROVE  EvInv'
<1>1. /\ published' = published /\ invalidations' = invalidations /\ subs' = subs
      /\ bus' = bus /\ overflow' = overflow /\ local' = local
      /\ wire' = wire /\ reconnects' = reconnects /\ fetch' = fetch
      /\ again' = again /\ timer' = timer /\ refetch' = refetch /\ seen' = seen
      /\ failures' = failures /\ gap' = gap
      /\ cli' = [cli EXCEPT ![c] = "opening"] /\ srv' = [srv EXCEPT ![c] = "starting"]
      /\ cli[c] = "none"
      /\ \A d \in Conns : IF d < c THEN cli[d] = "gone" ELSE cli[d] = "none"
  BY DEF Connect, tabVars
<1>2. EvTypeOK'
  BY <1>1 DEF EvInv, EvTypeOK
<1>3. /\ cli \in [Conns -> {"none", "opening", "open", "gone"}]
      /\ srv \in [Conns -> {"none", "starting", "serving", "closed"}]
      /\ Conns \subseteq Nat
  BY DEF EvInv, EvTypeOK, Conns
<1>4. /\ cli'[c] = "opening" /\ srv'[c] = "starting"
      /\ \A d \in Conns : d # c => cli'[d] = cli[d] /\ srv'[d] = srv[d]
  BY <1>1, <1>3
<1>5. Connections'
  <2>1. \A d, e \in Conns : d < e /\ cli'[e] # "none" => cli'[d] = "gone"
    BY <1>1, <1>3, <1>4 DEF EvInv, Connections
  <2>2. srv[c] = "none"
    BY <1>1 DEF EvInv, Connections
  <2>3. QED
    BY <1>1, <1>4, <2>1, <2>2 DEF EvInv, Connections
<1>6. NoInvalidationForgotten'
  <2>1. \A d \in Conns : ~Announced(d)
    BY <1>1 DEF Announced
  <2>2. Reconnecting => Announced(c)'
    BY <1>1, <1>4 DEF Reconnecting, Announced
  <2>3. QED
    BY <1>1, <2>1, <2>2 DEF EvInv, NoInvalidationForgotten, ReloadComing
<1>7. QED
  BY <1>2, <1>5, <1>6 DEF EvInv

LEMMA SubscribeKeeps ==
  ASSUME NEW c \in Conns, EvInv, Subscribe(c)
  PROVE  EvInv'
<1>1. /\ published' = published /\ invalidations' = invalidations
      /\ bus' = bus /\ overflow' = overflow /\ local' = local
      /\ wire' = wire /\ cli' = cli /\ reconnects' = reconnects /\ fetch' = fetch
      /\ again' = again /\ timer' = timer /\ refetch' = refetch /\ seen' = seen
      /\ failures' = failures /\ gap' = gap
      /\ srv[c] = "starting"
      /\ srv' = [srv EXCEPT ![c] = "serving"] /\ subs' = subs \union {c}
  BY DEF Subscribe, tabVars
<1>2. EvTypeOK'
  BY <1>1 DEF EvInv, EvTypeOK
<1>3. srv'[c] = "serving" /\ \A d \in Conns : d # c => srv'[d] = srv[d]
  BY <1>1 DEF EvInv, EvTypeOK
<1>4. Connections'
  BY <1>1, <1>3 DEF EvInv, Connections
<1>5. \A d \in Conns : Announced(d) => Announced(d)'
  BY <1>1, <1>3 DEF Announced
<1>6. NoInvalidationForgotten'
  BY <1>1, <1>5 DEF EvInv, NoInvalidationForgotten, ReloadComing, Reconnecting
<1>7. QED
  BY <1>2, <1>4, <1>6 DEF EvInv

\* An event passes from the local queue to the socket.
LEMMA SendKeeps ==
  ASSUME NEW c \in Conns, EvInv, Send(c)
  PROVE  EvInv'
<1>1. /\ published' = published /\ invalidations' = invalidations /\ srv' = srv /\ subs' = subs
      /\ bus' = bus /\ overflow' = overflow
      /\ cli' = cli /\ reconnects' = reconnects /\ fetch' = fetch
      /\ again' = again /\ timer' = timer /\ refetch' = refetch /\ seen' = seen
      /\ failures' = failures /\ gap' = gap
      /\ local[c] # <<>> /\ Len(wire[c]) < WireMax
      /\ wire' = [wire EXCEPT ![c] = Append(@, Head(local[c]))]
      /\ local' = [local EXCEPT ![c] = Tail(@)]
  BY DEF Send, tabVars
<1>2. /\ wire \in [Conns -> Seq(EventKind)] /\ wire[c] \in Seq(EventKind)
      /\ local \in [Conns -> Seq(EventKind)] /\ local[c] \in Seq(EventKind)
      /\ \A d \in Conns : Len(wire[d]) <= WireMax /\ Len(local[d]) <= LocalMax
  BY DEF EvInv, EvTypeOK
<1>3. /\ Head(local[c]) \in EventKind /\ Tail(local[c]) \in Seq(EventKind)
      /\ Len(Tail(local[c])) = Len(local[c]) - 1
      /\ Tells(local[c]) => Head(local[c]) \in Telling \/ Tells(Tail(local[c]))
  BY <1>1, <1>2, TellsHead
<1>4. /\ Append(wire[c], Head(local[c])) \in Seq(EventKind)
      /\ Len(Append(wire[c], Head(local[c]))) = Len(wire[c]) + 1
      /\ Tells(Append(wire[c], Head(local[c]))) <=> Tells(wire[c]) \/ Head(local[c]) \in Telling
  BY <1>2, <1>3, TellsAppend
<1>5. /\ wire'[c] = Append(wire[c], Head(local[c])) /\ local'[c] = Tail(local[c])
      /\ \A d \in Conns : d # c => wire'[d] = wire[d] /\ local'[d] = local[d]
      /\ wire' \in [Conns -> Seq(EventKind)] /\ local' \in [Conns -> Seq(EventKind)]
  BY <1>1, <1>2, <1>3, <1>4
<1>6. \A d \in Conns : Len(wire'[d]) <= WireMax /\ Len(local'[d]) <= LocalMax
  <2>1. Len(wire[c]) \in Nat /\ Len(local[c]) \in Nat
    BY <1>2
  <2>2. Len(wire'[c]) <= WireMax /\ Len(local'[c]) <= LocalMax
    BY <1>1, <1>2, <1>3, <1>4, <1>5, <2>1, EventAssumption
  <2>3. QED
    BY <1>2, <1>5, <2>2
<1>7. EvTypeOK'
  BY <1>1, <1>5, <1>6 DEF EvInv, EvTypeOK
<1>8. Connections'
  BY <1>1 DEF EvInv, Connections
<1>9. ASSUME NEW d \in Conns, Announced(d) PROVE Announced(d)'
  <2>1. QueuesTell(d) => QueuesTell(d)'
    BY <1>1, <1>3, <1>4, <1>5 DEF QueuesTell
  <2>2. QED
    BY <1>1, <1>9, <2>1 DEF Announced, QueuesTell
<1>10. NoInvalidationForgotten'
  BY <1>1, <1>9 DEF EvInv, NoInvalidationForgotten, ReloadComing, Reconnecting
<1>11. QED
  BY <1>7, <1>8, <1>10 DEF EvInv
\* When the live connection goes, the tab is about to reconnect.
LEMMA LastOneGone ==
  ASSUME NEW c \in Conns, EvInv, cli[c] = "open",
         cli' = [cli EXCEPT ![c] = "gone"], reconnects' = reconnects
  PROVE  Reconnecting'
<1>1. /\ cli \in [Conns -> {"none", "opening", "open", "gone"}]
      /\ Conns \subseteq Nat /\ reconnects \in Nat /\ c > 0
  BY EventAssumption DEF EvInv, EvTypeOK, Conns
<1>2. reconnects > 0
  <2>1. c <= reconnects
    BY DEF EvInv, Connections
  <2>2. QED
    BY <1>1, <2>1
<1>3. ASSUME NEW d \in Conns PROVE cli'[d] \in {"none", "gone"}
  <2>1. CASE d = c
    BY <1>1, <2>1
  <2>2. CASE d < c
    <3>1. cli[d] = "gone"
      BY <2>2 DEF EvInv, Connections
    <3>2. QED
      BY <1>1, <2>2, <3>1
  <2>3. CASE c < d
    <3>1. cli[d] = "none"
      BY <2>3 DEF EvInv, Connections
    <3>2. QED
      BY <1>1, <2>3, <3>1
  <2>4. c \in Nat /\ d \in Nat
    BY <1>1
  <2>5. QED
    BY <2>1, <2>2, <2>3, <2>4
<1>4. QED
  BY <1>2, <1>3 DEF Reconnecting

LEMMA GoneKeeps ==
  ASSUME NEW c \in Conns, EvInv, Drop(c) \/ SeeEnd(c)
  PROVE  EvInv'
<1>1. /\ published' = published /\ invalidations' = invalidations /\ srv' = srv /\ subs' = subs
      /\ bus' = bus /\ overflow' = overflow /\ local' = local
      /\ reconnects' = reconnects /\ fetch' = fetch
      /\ again' = again /\ timer' = timer /\ refetch' = refetch /\ seen' = seen
      /\ failures' = failures /\ gap' = gap
      /\ cli[c] = "open" /\ cli' = [cli EXCEPT ![c] = "gone"]
      /\ wire' = wire \/ wire' = [wire EXCEPT ![c] = <<>>]
  BY DEF Drop, SeeEnd, serverVars, tabVars
<1>2. EvTypeOK'
  <2>1. <<>> \in Seq(EventKind) /\ Len(<<>>) = 0
    OBVIOUS
  <2>2. /\ wire \in [Conns -> Seq(EventKind)] /\ \A d \in Conns : Len(wire[d]) <= WireMax
        /\ WireMax \in Nat
    BY EventAssumption DEF EvInv, EvTypeOK
  <2>3. wire' \in [Conns -> Seq(EventKind)] /\ \A d \in Conns : Len(wire'[d]) <= WireMax
    <3>1. CASE wire' = wire
      BY <2>2, <3>1
    <3>2. CASE wire' = [wire EXCEPT ![c] = <<>>]
      BY <2>1, <2>2, <3>2
    <3>3. QED
      BY <1>1, <3>1, <3>2
  <2>4. QED
    BY <1>1, <2>3 DEF EvInv, EvTypeOK
<1>3. cli'[c] = "gone" /\ \A d \in Conns : d # c => cli'[d] = cli[d]
  BY <1>1 DEF EvInv, EvTypeOK
<1>4. Connections'
  BY <1>1, <1>3 DEF EvInv, Connections
<1>5. NoInvalidationForgotten'
  BY <1>1, LastOneGone DEF NoInvalidationForgotten
<1>6. QED
  BY <1>2, <1>4, <1>5 DEF EvInv

\* The end of the stream is itself an announcement: the tab reconnects.
LEMMA CloseStreamKeeps ==
  ASSUME NEW c \in Conns, EvInv, CloseStream(c)
  PROVE  EvInv'
<1>1. /\ published' = published /\ invalidations' = invalidations
      /\ wire' = wire /\ cli' = cli /\ reconnects' = reconnects /\ fetch' = fetch
      /\ again' = again /\ timer' = timer /\ refetch' = refetch /\ seen' = seen
      /\ failures' = failures /\ gap' = gap
      /\ srv[c] = "serving" /\ cli[c] \in {"gone", "open"}
      /\ srv' = [srv EXCEPT ![c] = "closed"] /\ subs' = subs \ {c}
      /\ bus' = [bus EXCEPT ![c] = <<>>]
      /\ overflow' = [overflow EXCEPT ![c] = FALSE]
      /\ local' = [local EXCEPT ![c] = <<>>]
  BY DEF CloseStream, Leave, tabVars
<1>2. EvTypeOK'
  <2>1. <<>> \in Seq(EventKind) /\ <<>> \in Seq(EventKind \ {":overflow"}) /\ Len(<<>>) = 0
    OBVIOUS
  <2>2. /\ bus' \in [Conns -> Seq(EventKind \ {":overflow"})]
        /\ \A d \in Conns : Len(bus'[d]) <= QueueMax
    BY <1>1, <2>1, EventAssumption DEF EvInv, EvTypeOK
  <2>3. local' \in [Conns -> Seq(EventKind)] /\ \A d \in Conns : Len(local'[d]) <= LocalMax
    BY <1>1, <2>1, EventAssumption DEF EvInv, EvTypeOK
  <2>4. overflow' \in [Conns -> BOOLEAN]
    BY <1>1 DEF EvInv, EvTypeOK
  <2>5. srv' \in [Conns -> {"none", "starting", "serving", "closed"}] /\ subs' \subseteq Conns
    BY <1>1 DEF EvInv, EvTypeOK
  <2>6. QED
    BY <1>1, <2>2, <2>3, <2>4, <2>5 DEF EvInv, EvTypeOK
<1>3. /\ srv'[c] = "closed"
      /\ \A d \in Conns : d # c =>
           /\ srv'[d] = srv[d] /\ bus'[d] = bus[d]
           /\ local'[d] = local[d] /\ overflow'[d] = overflow[d]
  BY <1>1 DEF EvInv, EvTypeOK
<1>4. Connections'
  BY <1>1, <1>3 DEF EvInv, Connections
<1>5. ASSUME NEW d \in Conns, Announced(d) PROVE Announced(d)'
  <2>1. CASE d = c
    BY <1>1, <1>3, <1>5, <2>1 DEF Announced
  <2>2. CASE d # c
    BY <1>1, <1>3, <1>5, <2>2 DEF Announced
  <2>3. QED
    BY <2>1, <2>2
<1>6. NoInvalidationForgotten'
  BY <1>1, <1>5 DEF EvInv, NoInvalidationForgotten, ReloadComing, Reconnecting
<1>7. QED
  BY <1>2, <1>4, <1>6 DEF EvInv

\* However a reload is asked for, one comes, and none that was coming is lost.
LEMMA RefreshComes ==
  ASSUME EvTypeOK, Refresh
  PROVE  /\ again' \/ fetch' = "forced"
         /\ again' \in BOOLEAN
         /\ fetch' \in {"idle", "forced", "plain", "answered"}
  BY DEF EvTypeOK, Refresh

LEMMA OpenedKeeps ==
  ASSUME NEW c \in Conns, EvInv, Opened(c)
  PROVE  EvInv'
<1>1. /\ published' = published /\ invalidations' = invalidations /\ srv' = srv /\ subs' = subs
      /\ bus' = bus /\ overflow' = overflow /\ local' = local /\ wire' = wire
      /\ timer' = timer /\ refetch' = refetch /\ seen' = seen
      /\ failures' = failures /\ gap' = gap
      /\ cli[c] = "opening" /\ srv[c] # "starting"
      /\ cli' = [cli EXCEPT ![c] = "open"] /\ reconnects' = reconnects + 1
      /\ IF reconnects > 0 THEN Refresh ELSE again' = again /\ fetch' = fetch
  BY DEF Opened, serverVars
<1>2. reconnects \in Nat /\ reconnects = c - 1 /\ c \in Nat /\ c <= MaxConns
  <2>1. reconnects \in Nat /\ c \in Nat \ {0} /\ c <= MaxConns /\ MaxConns \in Nat
    BY EventAssumption DEF EvInv, EvTypeOK, Conns
  <2>2. ~(c <= reconnects)
    BY <1>1 DEF EvInv, Connections
  <2>3. CASE c = 1
    BY <2>1, <2>2, <2>3
  <2>4. CASE c > 1
    <3>1. c - 1 \in Conns /\ c - 1 < c
      BY <2>1, <2>4 DEF Conns
    <3>2. cli[c - 1] = "gone"
      BY <1>1, <3>1 DEF EvInv, Connections
    <3>3. c - 1 <= reconnects
      BY <3>1, <3>2 DEF EvInv, Connections
    <3>4. QED
      BY <2>1, <2>2, <3>3
  <2>5. QED
    BY <2>1, <2>3, <2>4
<1>3. cli'[c] = "open" /\ \A d \in Conns : d # c => cli'[d] = cli[d]
  BY <1>1 DEF EvInv, EvTypeOK
<1>4. again' \in BOOLEAN /\ fetch' \in {"idle", "forced", "plain", "answered"}
  BY <1>1, RefreshComes DEF EvInv, EvTypeOK
<1>5. EvTypeOK'
  <2>1. cli' \in [Conns -> {"none", "opening", "open", "gone"}]
    BY <1>1 DEF EvInv, EvTypeOK
  <2>2. reconnects' \in 0..MaxConns
    BY <1>1, <1>2, EventAssumption
  <2>3. {again', timer', refetch'} \subseteq BOOLEAN
    BY <1>1, <1>4 DEF EvInv, EvTypeOK
  <2>4. QED
    BY <1>1, <1>4, <2>1, <2>2, <2>3 DEF EvInv, EvTypeOK
<1>6. Connections'
  <2>1. \A d, e \in Conns : d < e /\ cli'[e] # "none" => cli'[d] = "gone"
    <3> SUFFICES ASSUME NEW d \in Conns, NEW e \in Conns, d < e, cli'[e] # "none"
                 PROVE  cli'[d] = "gone"
      OBVIOUS
    <3>1. cli[e] # "none"
      BY <1>1, <1>3
    <3>2. cli[d] = "gone"
      BY <3>1 DEF EvInv, Connections
    <3>3. QED
      BY <1>1, <1>3, <3>2
  <2>2. \A d \in Conns : cli'[d] \in {"open", "gone"} <=> d <= reconnects'
    <3> SUFFICES ASSUME NEW d \in Conns
                 PROVE  cli'[d] \in {"open", "gone"} <=> d <= reconnects'
      OBVIOUS
    <3>1. d \in Nat
      BY DEF Conns
    <3>2. CASE d = c
      BY <1>1, <1>2, <1>3, <3>2
    <3>3. CASE d # c
      <4>1. d <= reconnects <=> d <= reconnects'
        BY <1>1, <1>2, <3>1, <3>3
      <4>2. QED
        BY <1>3, <3>3, <4>1 DEF EvInv, Connections
    <3>4. QED
      BY <3>2, <3>3
  <2>3. \A d \in Conns :
          /\ srv[d] = "none" <=> cli'[d] = "none"
          /\ srv[d] = "starting" => cli'[d] = "opening"
          /\ srv[d] = "closed" => cli'[d] \in {"open", "gone"}
          /\ d \in subs <=> srv[d] = "serving"
    BY <1>1, <1>3 DEF EvInv, Connections
  <2>4. QED
    BY <1>1, <2>1, <2>2, <2>3 DEF Connections
<1>7. NoInvalidationForgotten'
  <2>1. CASE reconnects > 0
    <3>1. again' \/ fetch' = "forced"
      BY <1>1, <2>1, RefreshComes DEF EvInv
    <3>2. QED
      BY <3>1 DEF NoInvalidationForgotten, ReloadComing
  <2>2. CASE ~(reconnects > 0)
    <3>1. ~Reconnecting /\ again' = again /\ fetch' = fetch
      BY <1>1, <2>2 DEF Reconnecting
    <3>2. ASSUME NEW d \in Conns, Announced(d) PROVE Announced(d)'
      BY <1>1, <1>3, <2>2, <3>2 DEF Announced
    <3>3. QED
      BY <1>1, <3>1, <3>2 DEF EvInv, NoInvalidationForgotten, ReloadComing
  <2>3. QED
    BY <2>1, <2>2
<1>8. QED
  BY <1>5, <1>6, <1>7 DEF EvInv

LEMMA ReceiveKeeps ==
  ASSUME NEW c \in Conns, EvInv, Receive(c)
  PROVE  EvInv'
<1>1. /\ published' = published /\ invalidations' = invalidations /\ srv' = srv /\ subs' = subs
      /\ bus' = bus /\ overflow' = overflow /\ local' = local
      /\ cli' = cli /\ reconnects' = reconnects /\ seen' = seen
      /\ failures' = failures /\ gap' = gap
      /\ cli[c] = "open" /\ wire[c] # <<>>
      /\ wire' = [wire EXCEPT ![c] = Tail(@)]
      /\ IF Head(wire[c]) = ":overflow" THEN Refresh ELSE again' = again /\ fetch' = fetch
      /\ timer' = (timer \/ Head(wire[c]) = "cache:invalidated")
      /\ refetch' = (refetch \/ Head(wire[c]) = "cache:refreshed")
  BY DEF Receive, serverVars
<1>2. wire \in [Conns -> Seq(EventKind)] /\ wire[c] \in Seq(EventKind)
      /\ \A d \in Conns : Len(wire[d]) <= WireMax
  BY DEF EvInv, EvTypeOK
<1>3. /\ Tail(wire[c]) \in Seq(EventKind) /\ Len(Tail(wire[c])) = Len(wire[c]) - 1
      /\ Tells(wire[c]) => Head(wire[c]) \in Telling \/ Tells(Tail(wire[c]))
  BY <1>1, <1>2, TellsHead
<1>4. /\ wire'[c] = Tail(wire[c]) /\ \A d \in Conns : d # c => wire'[d] = wire[d]
      /\ wire' \in [Conns -> Seq(EventKind)]
  BY <1>1, <1>2, <1>3
<1>5. again' \in BOOLEAN /\ fetch' \in {"idle", "forced", "plain", "answered"}
  BY <1>1, RefreshComes DEF EvInv, EvTypeOK
<1>6. EvTypeOK'
  <2>1. Len(wire'[c]) <= WireMax
    BY <1>2, <1>3, <1>4, EventAssumption
  <2>2. \A d \in Conns : Len(wire'[d]) <= WireMax
    BY <1>2, <1>4, <2>1
  <2>3. timer' \in BOOLEAN /\ refetch' \in BOOLEAN
    BY <1>1
  <2>4. QED
    BY <1>1, <1>4, <1>5, <2>2, <2>3 DEF EvInv, EvTypeOK
<1>7. Connections'
  BY <1>1 DEF EvInv, Connections
<1>8. NoInvalidationForgotten'
  <2>1. CASE Head(wire[c]) \in Telling
    <3>1. again' \/ fetch' = "forced" \/ timer'
      BY <1>1, <2>1, RefreshComes DEF EvInv, Telling
    <3>2. QED
      BY <3>1 DEF NoInvalidationForgotten, ReloadComing
  <2>2. CASE Head(wire[c]) \notin Telling
    <3>1. again' = again /\ fetch' = fetch /\ (timer => timer')
      BY <1>1, <2>2 DEF Telling
    <3>2. ASSUME NEW d \in Conns, Announced(d) PROVE Announced(d)'
      <4>1. QueuesTell(d) => QueuesTell(d)'
        BY <1>1, <1>3, <1>4, <2>2 DEF QueuesTell
      <4>2. QED
        BY <1>1, <3>2, <4>1 DEF Announced, QueuesTell
    <3>3. QED
      BY <1>1, <3>1, <3>2 DEF EvInv, NoInvalidationForgotten, ReloadComing, Reconnecting
  <2>3. QED
    BY <2>1, <2>2
<1>9. QED
  BY <1>6, <1>7, <1>8 DEF EvInv

\* The tab's timers and its reload: what is coming is not lost, and a forced
\* reload that arrives has seen every invalidation.
LEMMA TabKeeps ==
  ASSUME EvInv, TimerFires \/ RefetchFires \/ Answer \/ FetchFails \/ Reloaded
  PROVE  EvInv'
<1>1. /\ published' = published /\ invalidations' = invalidations /\ srv' = srv /\ subs' = subs
      /\ bus' = bus /\ overflow' = overflow /\ local' = local /\ wire' = wire
      /\ cli' = cli /\ reconnects' = reconnects
  BY DEF TimerFires, RefetchFires, Answer, FetchFails, Reloaded, serverVars
<1>2. /\ fetch \in {"idle", "forced", "plain", "answered"}
      /\ {again, timer, refetch} \subseteq BOOLEAN
      /\ invalidations \in Nat /\ seen \in 0..invalidations /\ failures \in 0..MaxFailures
      /\ gap \in {"no", "at_load", "local", "failed"}
  BY DEF EvInv, EvTypeOK
<1>3. /\ fetch' \in {"idle", "forced", "plain", "answered"}
      /\ again' \in BOOLEAN /\ timer' \in BOOLEAN /\ refetch' \in BOOLEAN
      /\ gap' \in {"no", "at_load", "local", "failed"}
  BY <1>2, RefreshComes DEF TimerFires, RefetchFires, Answer, FetchFails, Reloaded, EvInv
<1>4. seen' \in 0..invalidations' /\ failures' \in 0..MaxFailures
  BY <1>1, <1>2, EventAssumption DEF TimerFires, RefetchFires, Answer, FetchFails, Reloaded
<1>5. EvTypeOK'
  BY <1>1, <1>3, <1>4 DEF EvInv, EvTypeOK
<1>6. Connections'
  BY <1>1 DEF EvInv, Connections
<1>7. \/ seen' = invalidations' \/ gap' # "no" \/ timer' \/ again' \/ fetch' = "forced"
      \/ seen' = seen /\ gap' = gap /\ ~ReloadComing
  BY <1>1, <1>2, RefreshComes
     DEF TimerFires, RefetchFires, Answer, FetchFails, Reloaded, ReloadComing, EvInv
<1>8. \A c \in Conns : Announced(c) => Announced(c)'
  BY <1>1 DEF Announced
<1>9. NoInvalidationForgotten'
  BY <1>1, <1>7, <1>8 DEF EvInv, NoInvalidationForgotten, ReloadComing, Reconnecting
<1>10. QED
  BY <1>5, <1>6, <1>9 DEF EvInv
-------------------------------------------------------------------------------
(* The theorems.                                                           *)

LEMMA EvStarts == EvInit => EvInv
<1>. SUFFICES ASSUME EvInit PROVE EvInv
  OBVIOUS
<1>1. EvTypeOK
  <2>1. <<>> \in Seq(EventKind) /\ <<>> \in Seq(EventKind \ {":overflow"}) /\ Len(<<>>) = 0
    OBVIOUS
  <2>2. /\ published \in 0..MaxPublished /\ invalidations \in 0..published
        /\ reconnects \in 0..MaxConns /\ seen \in 0..invalidations
        /\ failures \in 0..MaxFailures
    BY EventAssumption DEF EvInit
  <2>3. /\ srv \in [Conns -> {"none", "starting", "serving", "closed"}] /\ subs \subseteq Conns
        /\ cli \in [Conns -> {"none", "opening", "open", "gone"}]
        /\ overflow \in [Conns -> BOOLEAN]
    BY DEF EvInit
  <2>4. /\ bus \in [Conns -> Seq(EventKind \ {":overflow"})]
        /\ local \in [Conns -> Seq(EventKind)] /\ wire \in [Conns -> Seq(EventKind)]
    BY <2>1 DEF EvInit
  <2>5. \A c \in Conns : Len(bus[c]) <= QueueMax /\ Len(local[c]) <= LocalMax /\ Len(wire[c]) <= WireMax
    BY <2>1, EventAssumption DEF EvInit
  <2>6. {again, timer, refetch} \subseteq BOOLEAN /\ fetch = "idle" /\ gap = "no"
    BY DEF EvInit
  <2>7. QED
    BY <2>2, <2>3, <2>4, <2>5, <2>6 DEF EvTypeOK
<1>2. Connections
  BY EventAssumption DEF EvInit, Connections, Conns
<1>3. NoInvalidationForgotten
  BY DEF EvInit, NoInvalidationForgotten
<1>4. QED
  BY <1>1, <1>2, <1>3 DEF EvInv

LEMMA EvStepKeeps == EvInv /\ [EvNext]_evVars => EvInv'
<1>. SUFFICES ASSUME EvInv, [EvNext]_evVars PROVE EvInv'
  OBVIOUS
<1>1. ASSUME NEW k \in {"cache:invalidated", "cache:refreshed"}, Publish(k) PROVE EvInv'
  BY <1>1, PublishKeeps
<1>2. ASSUME NEW c \in Conns, Serve(c) PROVE EvInv'
  BY <1>2, SubscribeKeeps, DrainKeeps, SendKeeps DEF Serve
<1>3. ASSUME NEW c \in Conns, CloseStream(c) PROVE EvInv'
  BY <1>3, CloseStreamKeeps
<1>4. ASSUME NEW c \in Conns, Drop(c) PROVE EvInv'
  BY <1>4, GoneKeeps
<1>5. ASSUME NEW c \in Conns, TabStep(c) PROVE EvInv'
  BY <1>5, ConnectKeeps, OpenedKeeps, ReceiveKeeps, GoneKeeps DEF TabStep
<1>6. ASSUME TimerFires \/ RefetchFires \/ Answer \/ FetchFails \/ Reloaded PROVE EvInv'
  BY <1>6, TabKeeps
<1>7. ASSUME UNCHANGED evVars PROVE EvInv'
  <2>1. /\ published' = published /\ invalidations' = invalidations /\ srv' = srv /\ subs' = subs
        /\ bus' = bus /\ overflow' = overflow /\ local' = local /\ wire' = wire /\ cli' = cli
        /\ reconnects' = reconnects /\ fetch' = fetch /\ again' = again /\ timer' = timer
        /\ refetch' = refetch /\ seen' = seen /\ failures' = failures /\ gap' = gap
    BY <1>7 DEF evVars, serverVars, tabVars
  <2>2. QED
    BY <2>1 DEF EvInv, EvTypeOK, Connections, NoInvalidationForgotten, ReloadComing,
                Reconnecting, Announced
<1>8. QED
  BY <1>1, <1>2, <1>3, <1>4, <1>5, <1>6, <1>7 DEF EvNext

\* Every state the bus, the streams and the tab reach satisfies the inductive
\* invariant: the connections follow one another, each end knows of the other
\* what the protocol lets it know, and no invalidation is forgotten.
THEOREM EvInvariance == EvSpec => []EvInv
<1>1. QED
  BY EvStarts, EvStepKeeps, PTL DEF EvSpec

\* The queues of the bus, of the stream and of the socket stay within their caps
\* (_QUEUE_MAX, the local queue's maxsize), however slowly a tab reads.
THEOREM EvTypeCorrect == EvSpec => []EvTypeOK
<1>1. EvInv => EvTypeOK
  BY DEF EvInv
<1>2. QED
  BY <1>1, EvInvariance, PTL

\* Wherever a connection breaks, whatever a full queue drops and whatever reload
\* is in flight, an invalidation the server has not been asked about since still
\* has an event, a marker, a reconnection or a reload under way to the tab,
\* unless it is one of the losses that `gap` names.
THEOREM EvNothingForgotten == EvSpec => []NoInvalidationForgotten
<1>1. EvInv => NoInvalidationForgotten
  BY DEF EvInv
<1>2. QED
  BY <1>1, EvInvariance, PTL
===============================================================================
