--------------------------- MODULE SchedulerProofs ----------------------------
(***************************************************************************)
(* What the scheduler guarantees for any number of schedules, nodes, fires *)
(* and failures, and for every interval, waiter timeout and stuck-run      *)
(* threshold.                                                              *)
(***************************************************************************)
EXTENDS Scheduler, OpsRegistryProofs

-------------------------------------------------------------------------------
(* The inductive invariant.                                                *)

\* The stages of a fire, and what its record says in each.
FireOK(f) ==
  /\ fires[f].waiter = "unused" => fires[f] = Unused
  /\ fires[f].waiter \in {"unused", "launching"} => since_fire[f] = 0
  /\ fires[f].waiter = "launching" <=> firing = f
  /\ fires[f].waiter # "launching" => fires[f].todo = {}
  /\ fires[f].waiter # "unused" =>
       /\ fires[f].of \in Schedules /\ row[fires[f].of].life # "unborn"
       /\ fires[f].by # "none"
  /\ fires[f].kind # "gather_refresh" => fires[f].task = "none"
  /\ \A o \in fires[f].children : pc[o] # "none"
  /\ fires[f].waiter \in {"unstamped", "unrecorded"} => faults > 0
  /\ \A g \in Fires : f < g /\ fires[f].waiter \in {"unused", "launching"} =>
       fires[g].waiter = "unused"

\* How a fire ended agrees with how its operations did.
FireEnd(f) ==
  /\ fires[f].waiter = "success" =>
       fires[f].task # "error" /\ fires[f].task # "running"
       /\ \A o \in fires[f].children : status[o] = "success"
  /\ fires[f].waiter \in {"lost", "crashed"} => ~Prunes(f)

\* The ages: a row has run since each fire that was stamped on it, and a fire
\* whose waiter still polls is younger than the waiter's timeout.
FireAge(f) ==
  /\ fires[f].waiter \notin {"unused", "launching", "crashed", "unrecorded"} =>
       since_run[fires[f].of] <= since_fire[f]
  /\ fires[f].waiter = "launching" /\ fires[f].by = "tick" =>
       since_run[fires[f].of] >= Interval
  /\ fires[f].waiter = "waiting" /\ fires[f].kind # "gather_refresh" =>
       since_fire[f] <= WaiterTimeout

\* What a row that names a fire says of it.
RowOK(s) ==
  /\ row[s].life = "unborn" => since_run[s] = 0
  /\ row[s].life # "present" => row[s].last_op_id = NoFire
  /\ firing # NoFire /\ fires[firing].of = s => row[s].life = "present"
  /\ row[s].last_op_id = ErrFire => row[s].last_duration = "recorded"
  /\ row[s].last_op_id \in Fires =>
       LET f == row[s].last_op_id
       IN  /\ fires[f].of = s
           /\ fires[f].waiter \in {"waiting", "success", "error", "unstamped", "lost"}
           /\ fires[f].waiter \in {"success", "error"} =>
                row[s].last_duration = "recorded" /\ row[s].last_status = fires[f].waiter

\* The sweep finds nothing in flight.
AtBoot ==
  loop = "boot" =>
    /\ firing = NoFire
    /\ \A f \in Fires : fires[f].waiter # "waiting" /\ fires[f].children \intersect ops = {}

SchedInv ==
  /\ OpsInv
  /\ SchedTypeOK
  /\ \A f \in Fires : FireOK(f) /\ FireEnd(f) /\ FireAge(f)
  /\ \A s \in Schedules : RowOK(s)
  /\ AtBoot
  /\ NoGhostRows
  /\ TickFiresSpaced

\* The row names the prune_node run that is under way, unless it was displaced.
Tracked(f) ==
  /\ fires[f].kind = "prune_node"
  /\ f \notin displaced
  /\ fires[f].waiter \notin {"unstamped", "unrecorded"}
  /\ Prunes(f)

PruneInv ==
  /\ \A f \in Fires : Tracked(f) =>
       \/ firing = f
       \/ row[fires[f].of].last_op_id = f
       \/ row[fires[f].of].life = "deleted"
  /\ \A f, g \in Fires :
       /\ f # g /\ firing = g /\ fires[g].by = "tick"
       /\ fires[f].of = fires[g].of
       => ~Tracked(f)
  /\ PruneNodeRunsDoNotOverlap

-------------------------------------------------------------------------------
(* Facts about records and ages.                                           *)

LEMMA Ids ==
  /\ NoFire \in 0..ErrFire /\ ErrFire \in 1..ErrFire /\ Fires \subseteq 1..ErrFire
  /\ NoFire \notin Fires /\ ErrFire \notin Fires /\ NoFire # ErrFire
  /\ \A f \in 0..ErrFire : f # NoFire /\ f # ErrFire => f \in Fires
  BY SchedAssumption DEF NoFire, ErrFire, Fires

Waiter == {"unused", "launching", "waiting", "success", "error",
           "unstamped", "unrecorded", "lost", "crashed"}

\* Moving the waiter of a fire on leaves the rest of the record alone.
LEMMA WaiterSet ==
  ASSUME NEW f \in Fires, NEW w \in Waiter, fires \in [Fires -> Fire],
         fires' = [fires EXCEPT ![f].waiter = w]
  PROVE  /\ fires' \in [Fires -> Fire]
         /\ \A g \in Fires : g # f => fires'[g] = fires[g]
         /\ \A g \in Fires :
              /\ fires'[g].of = fires[g].of /\ fires'[g].kind = fires[g].kind
              /\ fires'[g].by = fires[g].by /\ fires'[g].todo = fires[g].todo
              /\ fires'[g].children = fires[g].children /\ fires'[g].task = fires[g].task
         /\ fires'[f].waiter = w
<1> DEFINE b == [fires[f] EXCEPT !.waiter = w]
<1>1. fires[f] \in Fire
  OBVIOUS
<1>2. /\ b \in Fire /\ b.waiter = w
      /\ b.of = fires[f].of /\ b.kind = fires[f].kind /\ b.by = fires[f].by
      /\ b.todo = fires[f].todo /\ b.children = fires[f].children /\ b.task = fires[f].task
  BY <1>1 DEF Fire, Waiter
<1>3. fires' = [fires EXCEPT ![f] = b]
  OBVIOUS
<1> HIDE DEF b
<1>4. fires'[f] = b /\ \A g \in Fires : g # f => fires'[g] = fires[g]
  BY <1>3
<1>5. QED
  BY <1>2, <1>3, <1>4

\* What record_run does to the row it is called for, and to no other.
LEMMA RecordRun ==
  ASSUME NEW s \in Schedules, NEW f \in 1..ErrFire, SchedTypeOK,
         NEW duration \in {"NULL", "recorded"}, NEW st \in {"NULL", "success", "error"},
         NEW upd \in BOOLEAN, record_run(s, f, duration, st, upd)
  PROVE  /\ row' \in [Schedules -> Row] /\ since_run' \in [Schedules -> 0..Horizon]
         /\ \A t \in Schedules : row'[t].life = row[t].life
         /\ \A t \in Schedules : t # s => row'[t] = row[t] /\ since_run'[t] = since_run[t]
         /\ row[s].life # "present" => row'[s] = row[s] /\ since_run'[s] = since_run[s]
         /\ row[s].life = "present" =>
              /\ row'[s].last_op_id = f
              /\ row'[s].last_duration =
                   IF duration = "NULL" THEN row[s].last_duration ELSE duration
              /\ row'[s].last_status = IF st = "NULL" THEN row[s].last_status ELSE st
              /\ since_run'[s] = IF upd THEN 0 ELSE since_run[s]
<1> DEFINE b == [row[s] EXCEPT !.last_op_id = f,
                               !.last_duration = IF duration = "NULL" THEN @ ELSE duration,
                               !.last_status = IF st = "NULL" THEN @ ELSE st]
<1>1. row[s] \in Row /\ row \in [Schedules -> Row] /\ since_run \in [Schedules -> 0..Horizon]
  BY DEF SchedTypeOK
<1>2. f \in 0..ErrFire /\ 0 \in 0..Horizon
  BY SchedAssumption DEF ErrFire
<1>3. /\ b \in Row /\ b.life = row[s].life /\ b.last_op_id = f
      /\ b.last_duration = IF duration = "NULL" THEN row[s].last_duration ELSE duration
      /\ b.last_status = IF st = "NULL" THEN row[s].last_status ELSE st
  BY <1>1, <1>2 DEF Row
<1>4. row' = IF row[s].life # "present" THEN row ELSE [row EXCEPT ![s] = b]
  BY <1>1 DEF record_run
<1>5. since_run' = IF row[s].life = "present" /\ upd THEN [since_run EXCEPT ![s] = 0] ELSE since_run
  BY DEF record_run
<1> HIDE DEF b
<1>6. CASE row[s].life # "present"
  BY <1>1, <1>4, <1>5, <1>6
<1>7. CASE row[s].life = "present"
  <2>1. row' = [row EXCEPT ![s] = b]
    BY <1>4, <1>7
  <2>2. row' \in [Schedules -> Row] /\ row'[s] = b
        /\ \A t \in Schedules : t # s => row'[t] = row[t]
    BY <1>1, <1>3, <2>1
  <2>3. /\ since_run' \in [Schedules -> 0..Horizon]
        /\ \A t \in Schedules : t # s => since_run'[t] = since_run[t]
        /\ since_run'[s] = IF upd THEN 0 ELSE since_run[s]
    BY <1>1, <1>2, <1>5, <1>7
  <2>4. QED
    BY <1>3, <1>7, <2>2, <2>3
<1>8. QED
  BY <1>6, <1>7

LEMMA OlderFacts ==
  ASSUME NEW a \in 0..Horizon
  PROVE  /\ Older(a) \in 0..Horizon /\ a <= Older(a)
         /\ \A b \in 0..Horizon : a <= b => Older(a) <= Older(b)
         /\ Older(a) <= a + 1
<1>1. Horizon \in Nat /\ a \in Nat /\ a <= Horizon
  BY SchedAssumption
<1>2. ASSUME NEW b \in 0..Horizon, a <= b PROVE Older(a) <= Older(b)
  BY <1>1, <1>2 DEF Older
<1>3. QED
  BY <1>1, <1>2 DEF Older

-------------------------------------------------------------------------------
(* What the registry's steps mean to the scheduler.                        *)

\* No operation starts twice, leaves its success or comes back into the dict.
Onward ==
  \A i \in OpIds : pc[i] # "none" =>
    /\ pc'[i] # "none"
    /\ status'[i] = "running" => status[i] = "running"
    /\ status[i] = "success" => status'[i] = "success"
    /\ i \in ops' => i \in ops

LEMMA NewOpOnward ==
  ASSUME NEW i \in OpIds, NEW t, NEW g, OpsInv, NewOp(i, t, g),
         \A o \in OpIds : pc[o] # "none" => pc'[o] # "none"
  PROVE  Onward
  BY DEF Onward, NewOp, OpsInv, OpsTypeOK

LEMMA StartOnward ==
  ASSUME NEW i \in OpIds, NEW t, NEW g, OpsInv, Start(i, t, g)
  PROVE  Onward
  BY NewOpOnward DEF Start, OpsInv, OpsTypeOK

LEMMA OpsOnward ==
  ASSUME OpsInv, [OpsNext]_opsVars
  PROVE  Onward
<1>1. ASSUME NEW i \in OpIds, NEW t \in Requested, NEW g \in Targets, Start(i, t, g) PROVE Onward
  BY <1>1, StartOnward
<1>2. ASSUME NEW i \in OpIds, Succeed(i) \/ Fail(i) PROVE Onward
  BY <1>2 DEF Onward, Succeed, Fail, OpsInv, OpsTypeOK, HandlerShape
<1>3. ASSUME NEW i \in OpIds, Finish(i) PROVE Onward
  BY <1>3 DEF Onward, Finish, OpsInv, OpsTypeOK
<1>4. ASSUME NEW i \in OpIds, NEW j \in OpIds, FinishAndPrefetch(i, j) PROVE Onward
  <2>1. \A o \in OpIds : pc[o] # "none" => pc'[o] # "none"
    BY <1>4 DEF FinishAndPrefetch, OpsInv, OpsTypeOK
  <2>2. QED
    BY <1>4, <2>1, NewOpOnward DEF FinishAndPrefetch
<1>5. ASSUME Restart PROVE Onward
  BY <1>5 DEF Onward, Restart, OpsInv, OpsTypeOK, HandlerShape
<1>6. ASSUME UNCHANGED opsVars PROVE Onward
  BY <1>6 DEF Onward, opsVars
<1>7. QED
  BY <1>1, <1>2, <1>3, <1>4, <1>5, <1>6 DEF OpsNext, HandlerStep

\* The children of a fire, when the operations go on.
LEMMA ChildrenOnward ==
  ASSUME NEW f \in Fires, SchedTypeOK, FireOK(f), FireEnd(f), Onward,
         fires'[f].children = fires[f].children
  PROVE  /\ Prunes(f)' => Prunes(f)
         /\ \A o \in fires'[f].children : pc'[o] # "none"
         /\ (\A o \in fires[f].children : status[o] = "success") =>
              \A o \in fires'[f].children : status'[o] = "success"
         /\ fires'[f].children \intersect ops' \subseteq fires[f].children \intersect ops
<1>1. fires[f].children \subseteq OpIds
  BY DEF SchedTypeOK, Fire
<1>2. \A o \in fires[f].children : o \in OpIds /\ pc[o] # "none"
  BY <1>1 DEF FireOK
<1>3. QED
  BY <1>1, <1>2 DEF Onward, Prunes

\* The registry's own steps disturb nothing of the scheduler.
LEMMA OpsKeeps ==
  ASSUME SchedInv, OpsInv', Onward, UNCHANGED schedOnlyVars
  PROVE  SchedInv' /\ (PruneInv => PruneInv')
<1>1. /\ row' = row /\ since_run' = since_run /\ fires' = fires /\ since_fire' = since_fire
      /\ firing' = firing /\ loop' = loop /\ run_nows' = run_nows /\ faults' = faults
      /\ displaced' = displaced
  BY DEF schedOnlyVars
<1>2. SchedTypeOK'
  BY <1>1 DEF SchedInv, SchedTypeOK
<1>3. ASSUME NEW f \in Fires
      PROVE  /\ FireOK(f)' /\ FireEnd(f)' /\ FireAge(f)'
             /\ Prunes(f)' => Prunes(f)
             /\ fires[f].children \intersect ops = {} => fires'[f].children \intersect ops' = {}
  <2>1. FireOK(f) /\ FireEnd(f) /\ FireAge(f) /\ SchedTypeOK
    BY DEF SchedInv
  <2>2. /\ Prunes(f)' => Prunes(f)
        /\ \A o \in fires'[f].children : pc'[o] # "none"
        /\ (\A o \in fires[f].children : status[o] = "success") =>
             \A o \in fires'[f].children : status'[o] = "success"
        /\ fires'[f].children \intersect ops' \subseteq fires[f].children \intersect ops
    BY <1>1, <2>1, ChildrenOnward
  <2>3. FireOK(f)'
    BY <1>1, <2>1, <2>2 DEF FireOK
  <2>4. FireEnd(f)'
    BY <1>1, <2>1, <2>2 DEF FireEnd
  <2>5. FireAge(f)'
    BY <1>1, <2>1 DEF FireAge
  <2>6. QED
    BY <2>2, <2>3, <2>4, <2>5
<1>4. \A s \in Schedules : RowOK(s)'
  BY <1>1 DEF SchedInv, RowOK
<1>5. AtBoot'
  BY <1>1, <1>3 DEF SchedInv, AtBoot
<1>6. NoGhostRows' /\ TickFiresSpaced'
  BY <1>1 DEF SchedInv, NoGhostRows, TickFiresSpaced
<1>7. SchedInv'
  BY <1>2, <1>3, <1>4, <1>5, <1>6 DEF SchedInv
<1>8. ASSUME PruneInv PROVE PruneInv'
  <2>1. \A f \in Fires : Tracked(f)' => Tracked(f)
    BY <1>1, <1>3 DEF Tracked
  <2>2. PruneNodeRunsDoNotOverlap'
    BY <1>1, <1>3, <1>8 DEF PruneInv, PruneNodeRunsDoNotOverlap
  <2>3. QED
    BY <1>1, <1>8, <2>1, <2>2 DEF PruneInv
<1>9. QED
  BY <1>7, <1>8

-------------------------------------------------------------------------------
(* Steps that touch nothing but the table.                                 *)

\* What such a step must leave right for the rest to stay right.
LEMMA RowStepKeeps ==
  ASSUME SchedInv, SchedTypeOK', firing = NoFire,
         UNCHANGED <<opsVars, fires, since_fire, firing>>, faults' >= faults,
         \A s \in Schedules : /\ row[s].life # "unborn" => row'[s].life # "unborn"
                              /\ since_run'[s] <= since_run[s]
                              /\ RowOK(s)',
         AtBoot', NoGhostRows'
  PROVE  SchedInv'
<1>1. /\ fires' = fires /\ since_fire' = since_fire /\ firing' = firing
      /\ ops' = ops /\ ops_order' = ops_order /\ op_type' = op_type /\ target_id' = target_id
      /\ status' = status /\ pc' = pc /\ history' = history /\ restarts' = restarts
  BY DEF opsVars
<1>2. OpsInv'
  BY OpsStepInv DEF SchedInv
<1>3. ASSUME NEW f \in Fires PROVE FireOK(f)' /\ FireEnd(f)' /\ FireAge(f)'
  <2>1. FireOK(f) /\ FireEnd(f) /\ FireAge(f) /\ SchedTypeOK
    BY DEF SchedInv
  <2>2. faults \in Nat /\ faults' \in Nat
    BY SchedAssumption DEF SchedInv, SchedTypeOK
  <2>3. FireOK(f)'
    BY <1>1, <2>1, <2>2 DEF FireOK
  <2>4. FireEnd(f)'
    BY <1>1, <2>1 DEF FireEnd, Prunes
  <2>5. /\ since_fire[f] \in Nat
        /\ fires[f].waiter # "unused" =>
             /\ since_run[fires[f].of] \in Nat /\ since_run'[fires[f].of] \in Nat
             /\ since_run'[fires[f].of] <= since_run[fires[f].of]
    BY <2>1, SchedAssumption DEF SchedTypeOK, FireOK
  <2>6. fires[f].waiter # "launching"
    BY <2>1 DEF FireOK, Fires, NoFire
  <2>7. FireAge(f)'
    BY <1>1, <2>1, <2>5, <2>6 DEF FireAge
  <2>8. QED
    BY <2>3, <2>4, <2>7
<1>4. TickFiresSpaced'
  BY <1>1 DEF SchedInv, TickFiresSpaced
<1>5. QED
  BY <1>2, <1>3, <1>4 DEF SchedInv

LEMMA RowStepTracks ==
  ASSUME SchedInv, PruneInv, firing = NoFire,
         UNCHANGED <<opsVars, fires, firing, displaced>>,
         \A f \in Fires : LET s == fires[f].of
                          IN  Tracked(f) /\ (row[s].last_op_id = f \/ row[s].life = "deleted") =>
                                row'[s].last_op_id = f \/ row'[s].life = "deleted"
  PROVE  PruneInv'
<1>1. /\ fires' = fires /\ firing' = firing /\ displaced' = displaced /\ status' = status
  BY DEF opsVars
<1>2. \A f \in Fires : Tracked(f)' <=> Tracked(f)
  BY <1>1 DEF Tracked, Prunes
<1>3. \A f \in Fires : firing # f
  BY DEF Fires, NoFire
<1>4. PruneNodeRunsDoNotOverlap'
  BY <1>1 DEF PruneInv, PruneNodeRunsDoNotOverlap, Prunes
<1>5. QED
  BY <1>1, <1>2, <1>3, <1>4 DEF PruneInv

\* Only a fire that has begun has operations.
LEMMA TrackedIsUsed ==
  ASSUME NEW f \in Fires, FireOK(f), Tracked(f)
  PROVE  fires[f].waiter # "unused"
  BY DEF FireOK, Tracked, Prunes, Unused

LEMMA CreateKeeps ==
  ASSUME NEW s \in Schedules, NEW k \in Kinds, SchedInv, Create(s, k)
  PROVE  SchedInv' /\ (PruneInv => PruneInv')
<1> DEFINE b == [Unborn EXCEPT !.life = "present", !.kind = k, !.enabled = TRUE]
<1>1. /\ b \in Row /\ b.life = "present" /\ b.last_op_id = NoFire
      /\ b.last_duration = "NULL" /\ b.last_status = "NULL"
  BY Ids DEF Unborn, Row
<1>2. /\ row[s].life = "unborn" /\ firing = NoFire
      /\ row' = [row EXCEPT ![s] = b] /\ since_run' = [since_run EXCEPT ![s] = 0]
      /\ UNCHANGED <<opsVars, fires, since_fire, firing>>
      /\ fires' = fires /\ since_fire' = since_fire /\ firing' = firing /\ loop' = loop
      /\ run_nows' = run_nows /\ faults' = faults /\ displaced' = displaced /\ ops' = ops
  BY DEF Create, opsVars
<1> HIDE DEF b
<1>3. /\ row \in [Schedules -> Row] /\ since_run \in [Schedules -> 0..Horizon]
      /\ 0 \in 0..Horizon /\ Horizon \in Nat /\ faults \in Nat
  BY SchedAssumption DEF SchedInv, SchedTypeOK
<1>4. /\ row' \in [Schedules -> Row] /\ since_run' \in [Schedules -> 0..Horizon]
      /\ row'[s] = b /\ since_run'[s] = 0
      /\ \A t \in Schedules : t # s => row'[t] = row[t] /\ since_run'[t] = since_run[t]
  BY <1>1, <1>2, <1>3
<1>5. SchedTypeOK'
  BY <1>1, <1>2, <1>4 DEF SchedInv, SchedTypeOK
<1>6. ASSUME NEW t \in Schedules
      PROVE  /\ row[t].life # "unborn" => row'[t].life # "unborn"
             /\ since_run'[t] <= since_run[t]
             /\ RowOK(t)'
  <2>1. CASE t = s
    <3>1. since_run'[t] = since_run[t] /\ since_run[t] \in Nat
      BY <1>2, <1>3, <1>4, <2>1 DEF SchedInv, RowOK
    <3>2. RowOK(t)'
      BY <1>1, <1>4, <2>1, Ids DEF RowOK
    <3>3. QED
      BY <1>1, <1>4, <2>1, <3>1, <3>2
  <2>2. CASE t # s
    <3>1. row'[t] = row[t] /\ since_run'[t] = since_run[t] /\ since_run[t] \in Nat
      BY <1>3, <1>4, <2>2
    <3>2. QED
      BY <1>2, <3>1 DEF SchedInv, RowOK
  <2>3. QED
    BY <2>1, <2>2
<1>7. AtBoot'
  BY <1>2 DEF SchedInv, AtBoot
<1>8. NoGhostRows'
  BY <1>1, <1>2, <1>4 DEF SchedInv, NoGhostRows
<1>9. SchedInv'
  BY <1>2, <1>3, <1>5, <1>6, <1>7, <1>8, RowStepKeeps
<1>10. ASSUME PruneInv PROVE PruneInv'
  <2>1. ASSUME NEW f \in Fires, Tracked(f) PROVE row'[fires[f].of] = row[fires[f].of]
    <3>1. fires[f].of \in Schedules /\ fires[f].of # s
      BY <1>2, <2>1, TrackedIsUsed DEF SchedInv, FireOK
    <3>2. QED
      BY <1>4, <3>1
  <2>2. QED
    BY <1>2, <1>10, <2>1, RowStepTracks
<1>11. QED
  BY <1>9, <1>10

LEMMA EditKeeps ==
  ASSUME NEW s \in Schedules, NEW k \in Kinds, NEW e \in BOOLEAN, SchedInv, Edit(s, k, e)
  PROVE  SchedInv' /\ (PruneInv => PruneInv')
<1> DEFINE b == [row[s] EXCEPT !.kind = k, !.enabled = e]
<1>1. row[s] \in Row /\ row \in [Schedules -> Row] /\ since_run \in [Schedules -> 0..Horizon]
  BY DEF SchedInv, SchedTypeOK
<1>2. /\ b \in Row /\ b.life = row[s].life /\ b.last_op_id = row[s].last_op_id
      /\ b.last_duration = row[s].last_duration /\ b.last_status = row[s].last_status
  BY <1>1 DEF Row
<1>3. /\ firing = NoFire
      /\ row' = [row EXCEPT ![s] = b] /\ since_run' = since_run
      /\ UNCHANGED <<opsVars, fires, since_fire, firing>>
      /\ fires' = fires /\ since_fire' = since_fire /\ firing' = firing /\ loop' = loop
      /\ run_nows' = run_nows /\ faults' = faults /\ displaced' = displaced /\ ops' = ops
  BY <1>1 DEF Edit, opsVars
<1> HIDE DEF b
<1>4. row' \in [Schedules -> Row] /\ row'[s] = b /\ \A t \in Schedules : t # s => row'[t] = row[t]
  BY <1>1, <1>2, <1>3
<1>5. \A t \in Schedules :
        /\ row'[t].life = row[t].life /\ row'[t].last_op_id = row[t].last_op_id
        /\ row'[t].last_duration = row[t].last_duration
        /\ row'[t].last_status = row[t].last_status
  BY <1>2, <1>4
<1>6. SchedTypeOK'
  BY <1>3, <1>4, <1>5 DEF SchedInv, SchedTypeOK
<1>7. ASSUME NEW t \in Schedules
      PROVE  /\ row[t].life # "unborn" => row'[t].life # "unborn"
             /\ since_run'[t] <= since_run[t]
             /\ RowOK(t)'
  <2>1. since_run[t] \in Nat
    BY <1>1, SchedAssumption
  <2>2. RowOK(t)'
    BY <1>3, <1>5 DEF SchedInv, RowOK
  <2>3. QED
    BY <1>3, <1>5, <2>1, <2>2
<1>8. AtBoot' /\ NoGhostRows'
  BY <1>3, <1>5 DEF SchedInv, AtBoot, NoGhostRows
<1>9. SchedInv'
  <2>1. faults' >= faults
    BY <1>3, SchedAssumption DEF SchedInv, SchedTypeOK
  <2>2. QED
    BY <1>3, <1>6, <1>7, <1>8, <2>1, RowStepKeeps
<1>10. ASSUME PruneInv PROVE PruneInv'
  <2>1. \A f \in Fires : Tracked(f) => fires[f].of \in Schedules
    BY TrackedIsUsed DEF SchedInv, FireOK
  <2>2. QED
    BY <1>3, <1>5, <1>10, <2>1, RowStepTracks
<1>11. QED
  BY <1>9, <1>10

LEMMA DeleteKeeps ==
  ASSUME NEW s \in Schedules, SchedInv, Delete(s)
  PROVE  SchedInv' /\ (PruneInv => PruneInv')
<1> DEFINE b == [Unborn EXCEPT !.life = "deleted"]
<1>1. /\ b \in Row /\ b.life = "deleted" /\ b.last_op_id = NoFire
      /\ b.last_duration = "NULL" /\ b.last_status = "NULL"
  BY Ids DEF Unborn, Row
<1>2. /\ firing = NoFire
      /\ row' = [row EXCEPT ![s] = b] /\ since_run' = since_run
      /\ UNCHANGED <<opsVars, fires, since_fire, firing>>
      /\ fires' = fires /\ since_fire' = since_fire /\ firing' = firing /\ loop' = loop
      /\ run_nows' = run_nows /\ faults' = faults /\ displaced' = displaced /\ ops' = ops
  BY DEF Delete, opsVars
<1> HIDE DEF b
<1>3. row \in [Schedules -> Row] /\ since_run \in [Schedules -> 0..Horizon] /\ faults \in Nat
  BY SchedAssumption DEF SchedInv, SchedTypeOK
<1>4. row' \in [Schedules -> Row] /\ row'[s] = b /\ \A t \in Schedules : t # s => row'[t] = row[t]
  BY <1>1, <1>2, <1>3
<1>5. SchedTypeOK'
  BY <1>1, <1>2, <1>4 DEF SchedInv, SchedTypeOK
<1>6. ASSUME NEW t \in Schedules
      PROVE  /\ row[t].life # "unborn" => row'[t].life # "unborn"
             /\ since_run'[t] <= since_run[t]
             /\ RowOK(t)'
  <2>1. since_run'[t] <= since_run[t]
    BY <1>2, <1>3, SchedAssumption
  <2>2. CASE t = s
    BY <1>1, <1>2, <1>4, <2>1, <2>2, Ids DEF RowOK
  <2>3. CASE t # s
    BY <1>2, <1>4, <2>1, <2>3 DEF SchedInv, RowOK
  <2>4. QED
    BY <2>2, <2>3
<1>7. AtBoot' /\ NoGhostRows'
  BY <1>1, <1>2, <1>4 DEF SchedInv, AtBoot, NoGhostRows
<1>8. SchedInv'
  <2>1. faults' >= faults
    BY <1>2, <1>3
  <2>2. QED
    BY <1>2, <1>5, <1>6, <1>7, <2>1, RowStepKeeps
<1>9. ASSUME PruneInv PROVE PruneInv'
  <2>1. \A f \in Fires : Tracked(f) => fires[f].of \in Schedules
    BY TrackedIsUsed DEF SchedInv, FireOK
  <2>2. QED
    BY <1>1, <1>2, <1>4, <1>9, <2>1, RowStepTracks
<1>10. QED
  BY <1>8, <1>9

\* What the check for a run in flight finds out: the registry has every running
\* operation, and a waiter that has not stamped its outcome by the time the row
\* counts as stuck is no longer waiting.
LEMMA NothingUnderWay ==
  ASSUME WaiterTimeout < StuckAfter, SchedInv, PruneInv, NEW f \in Fires, firing = NoFire,
         fires[f].of \in Schedules, row[fires[f].of].life = "present",
         ~PreviousRunActive(fires[f].of)
  PROVE  ~Tracked(f)
<1> DEFINE s == fires[f].of
<1>. SUFFICES ASSUME Tracked(f) PROVE FALSE
  OBVIOUS
<1>1. row[s].last_op_id = f /\ f # NoFire
  BY Ids DEF PruneInv
<1>2. PICK o \in fires[f].children : status[o] = "running"
  BY DEF Tracked, Prunes
<1>3. o \in ops
  BY <1>2 DEF SchedInv, SchedTypeOK, Fire, OpsInv, RunningIsRegistered
<1>4. OpOf(f) = fires[f].children
  BY DEF OpOf, Tracked
<1>5. row[s].last_duration = "NULL" /\ ~(since_run[s] <= StuckAfter)
  BY <1>1, <1>2, <1>3, <1>4 DEF PreviousRunActive
<1>6. fires[f].waiter = "waiting"
  BY <1>1, <1>5 DEF SchedInv, RowOK, FireEnd, Tracked
<1>7. since_run[s] <= since_fire[f] /\ since_fire[f] <= WaiterTimeout
  BY <1>6 DEF SchedInv, FireAge, Tracked
<1>8. since_run[s] \in Nat /\ since_fire[f] \in Nat /\ StuckAfter \in Nat /\ WaiterTimeout \in Nat
  BY SchedAssumption DEF SchedInv, SchedTypeOK
<1>9. QED
  BY <1>5, <1>7, <1>8

LEMMA TickRefusedKeeps ==
  ASSUME NEW s \in Schedules, SchedInv, TickRefused(s)
  PROVE  SchedInv' /\ (PruneInv /\ WaiterTimeout < StuckAfter => PruneInv')
<1>1. /\ firing = NoFire /\ loop = "ticking" /\ row[s].life = "present" /\ ~PreviousRunActive(s)
      /\ record_run(s, ErrFire, "recorded", "error", TRUE)
      /\ UNCHANGED <<opsVars, fires, since_fire, firing>>
      /\ fires' = fires /\ since_fire' = since_fire /\ firing' = firing /\ loop' = loop
      /\ run_nows' = run_nows /\ faults' = faults /\ displaced' = displaced /\ ops' = ops
  BY DEF TickRefused, Due, opsVars
<1>2. /\ row' \in [Schedules -> Row] /\ since_run' \in [Schedules -> 0..Horizon]
      /\ \A t \in Schedules : row'[t].life = row[t].life
      /\ \A t \in Schedules : t # s => row'[t] = row[t] /\ since_run'[t] = since_run[t]
      /\ row'[s].last_op_id = ErrFire /\ row'[s].last_duration = "recorded"
      /\ since_run'[s] = 0
  BY <1>1, Ids, RecordRun DEF SchedInv
<1>3. SchedTypeOK'
  BY <1>1, <1>2, Ids DEF SchedInv, SchedTypeOK
<1>4. ASSUME NEW t \in Schedules
      PROVE  /\ row[t].life # "unborn" => row'[t].life # "unborn"
             /\ since_run'[t] <= since_run[t]
             /\ RowOK(t)'
  <2>1. since_run[t] \in Nat
    BY SchedAssumption DEF SchedInv, SchedTypeOK
  <2>2. CASE t = s
    BY <1>1, <1>2, <2>1, <2>2, Ids DEF RowOK
  <2>3. CASE t # s
    BY <1>1, <1>2, <2>1, <2>3 DEF SchedInv, RowOK
  <2>4. QED
    BY <2>2, <2>3
<1>5. AtBoot' /\ NoGhostRows'
  BY <1>1, <1>2 DEF SchedInv, AtBoot, NoGhostRows
<1>6. SchedInv'
  <2>1. faults' >= faults
    BY <1>1, SchedAssumption DEF SchedInv, SchedTypeOK
  <2>2. QED
    BY <1>1, <1>3, <1>4, <1>5, <2>1, RowStepKeeps
<1>7. ASSUME PruneInv, WaiterTimeout < StuckAfter PROVE PruneInv'
  <2>1. ASSUME NEW f \in Fires, Tracked(f) PROVE fires[f].of \in Schedules /\ fires[f].of # s
    <3>1. fires[f].of \in Schedules
      BY <2>1, TrackedIsUsed DEF SchedInv, FireOK
    <3>2. QED
      BY <1>1, <1>7, <2>1, <3>1, NothingUnderWay
  <2>2. QED
    BY <1>1, <1>2, <1>7, <2>1, RowStepTracks
<1>8. QED
  BY <1>6, <1>7

\* The sweep closes what it finds open, and at boot nothing open is in flight.
LEMMA SweepKeeps ==
  ASSUME SchedInv, Sweep
  PROVE  SchedInv' /\ (PruneInv => PruneInv')
<1>0. row' = [s \in Schedules |->
               IF s \in Ghosts
               THEN [row[s] EXCEPT !.last_duration = "recorded", !.last_status = "error"]
               ELSE row[s]]
  BY DEF Sweep
<1>1. /\ loop = "boot" /\ firing = NoFire /\ since_run' = since_run
      /\ loop' = "asleep"
      /\ UNCHANGED <<opsVars, fires, since_fire, firing>>
      /\ fires' = fires /\ since_fire' = since_fire /\ firing' = firing
      /\ run_nows' = run_nows /\ faults' = faults /\ displaced' = displaced /\ ops' = ops
  BY DEF Sweep, opsVars, SchedInv, AtBoot
<1>2. ASSUME NEW s \in Schedules
      PROVE  /\ row'[s] \in Row /\ row'[s].life = row[s].life
             /\ row'[s].last_op_id = row[s].last_op_id
             /\ s \in Ghosts => row'[s].last_duration = "recorded" /\ row'[s].last_status = "error"
             /\ s \notin Ghosts => row'[s] = row[s]
  <2>1. row[s] \in Row
    BY DEF SchedInv, SchedTypeOK
  <2>2. CASE s \in Ghosts
    <3>1. row'[s] = [row[s] EXCEPT !.last_duration = "recorded", !.last_status = "error"]
      BY <1>0, <2>2
    <3>2. QED
      BY <2>1, <2>2, <3>1 DEF Row
  <2>3. CASE s \notin Ghosts
    BY <1>0, <2>1, <2>3
  <2>4. QED
    BY <2>2, <2>3
<1>3. ASSUME NEW s \in Schedules
      PROVE  s \in Ghosts <=> row[s].last_op_id # NoFire /\ row[s].last_duration = "NULL"
  <2>1. OpOf(row[s].last_op_id) \intersect ops = {}
    BY <1>1 DEF SchedInv, AtBoot, OpOf
  <2>2. QED
    BY <2>1 DEF Ghosts
<1>4. SchedTypeOK'
  <2>1. row' \in [Schedules -> Row]
    BY <1>0, <1>2
  <2>2. \A s \in Schedules : row'[s].last_op_id = NoFire =>
          row'[s].last_duration = "NULL" /\ row'[s].last_status = "NULL"
    BY <1>2, <1>3 DEF SchedInv, SchedTypeOK
  <2>3. QED
    BY <1>1, <2>1, <2>2 DEF SchedInv, SchedTypeOK
<1>5. ASSUME NEW t \in Schedules
      PROVE  /\ row[t].life # "unborn" => row'[t].life # "unborn"
             /\ since_run'[t] <= since_run[t]
             /\ RowOK(t)'
  <2>1. since_run'[t] <= since_run[t]
    BY <1>1, SchedAssumption DEF SchedInv, SchedTypeOK
  <2>2. RowOK(t)'
    <3>1. CASE t \in Ghosts
      BY <1>1, <1>2, <1>3, <3>1 DEF SchedInv, RowOK
    <3>2. CASE t \notin Ghosts
      BY <1>1, <1>2, <3>2 DEF SchedInv, RowOK
    <3>3. QED
      BY <3>1, <3>2
  <2>3. QED
    BY <1>2, <2>1, <2>2
<1>6. AtBoot'
  BY <1>1 DEF AtBoot
<1>7. NoGhostRows'
  BY <1>2, <1>3 DEF NoGhostRows
<1>8. SchedInv'
  <2>1. faults' >= faults
    BY <1>1, SchedAssumption DEF SchedInv, SchedTypeOK
  <2>2. QED
    BY <1>1, <1>4, <1>5, <1>6, <1>7, <2>1, RowStepKeeps
<1>9. ASSUME PruneInv PROVE PruneInv'
  <2>1. \A f \in Fires : Tracked(f) => fires[f].of \in Schedules
    BY TrackedIsUsed DEF SchedInv, FireOK
  <2>2. QED
    BY <1>1, <1>2, <1>9, <2>1, RowStepTracks
<1>10. QED
  BY <1>8, <1>9

LEMMA SweepFailsKeeps ==
  ASSUME SchedInv, SweepFails
  PROVE  SchedInv' /\ (PruneInv => PruneInv')
<1>1. /\ loop = "boot" /\ firing = NoFire /\ since_run' = since_run /\ row' = row
      /\ loop' = "asleep" /\ faults' = faults + 1 /\ faults < MaxFaults
      /\ UNCHANGED <<opsVars, fires, since_fire, firing>>
      /\ fires' = fires /\ since_fire' = since_fire /\ firing' = firing
      /\ run_nows' = run_nows /\ displaced' = displaced
  BY DEF SweepFails, SchedInv, AtBoot
<1>2. faults \in Nat /\ MaxFaults \in Nat /\ faults' \in 0..MaxFaults /\ faults' # 0 /\ faults' >= faults
  BY <1>1, SchedAssumption DEF SchedInv, SchedTypeOK
<1>3. SchedTypeOK'
  BY <1>1, <1>2 DEF SchedInv, SchedTypeOK
<1>4. ASSUME NEW t \in Schedules PROVE since_run'[t] <= since_run[t] /\ RowOK(t)'
  <2>1. since_run'[t] <= since_run[t]
    BY <1>1, SchedAssumption DEF SchedInv, SchedTypeOK
  <2>2. RowOK(t)'
    BY <1>1 DEF SchedInv, RowOK
  <2>3. QED
    BY <2>1, <2>2
<1>5. AtBoot' /\ NoGhostRows'
  BY <1>1, <1>2 DEF AtBoot, NoGhostRows
<1>6. SchedInv'
  BY <1>1, <1>2, <1>3, <1>4, <1>5, RowStepKeeps
<1>7. PruneInv => PruneInv'
  BY <1>1, RowStepTracks
<1>8. QED
  BY <1>6, <1>7

-------------------------------------------------------------------------------
(* Firing.                                                                 *)

LEMMA BeginKeeps ==
  ASSUME NEW s \in Schedules, NEW who \in {"tick", "operator"}, SchedInv, Begin(s, who),
         run_nows' \in 0..MaxRunNows, loop # "boot",
         who = "tick" => since_run[s] >= Interval
  PROVE  /\ SchedInv'
         /\ PruneInv /\ (who = "tick" => \A f \in Fires : fires[f].of = s => ~Tracked(f)) =>
              PruneInv'
<1>1. PICK f \in Fires, hosts \in Hosts(row[s].kind) :
        /\ fires[f].waiter = "unused"
        /\ \A g \in 1..(f - 1) : fires[g].waiter # "unused"
        /\ fires' = [fires EXCEPT ![f] =
             [of |-> s, kind |-> row[s].kind, by |-> who, todo |-> hosts, children |-> {},
              task |-> IF row[s].kind = "gather_refresh" THEN "running" ELSE "none",
              waiter |-> "launching"]]
        /\ firing' = f
  BY DEF Begin
<1>2. /\ firing = NoFire /\ row[s].life = "present" /\ UNCHANGED opsVars
      /\ row' = row /\ since_run' = since_run /\ since_fire' = since_fire /\ loop' = loop
      /\ faults' = faults /\ displaced' = displaced
      /\ status' = status /\ pc' = pc /\ ops' = ops
  BY DEF Begin, opsVars
<1> DEFINE b == [of |-> s, kind |-> row[s].kind, by |-> who, todo |-> hosts, children |-> {},
                 task |-> IF row[s].kind = "gather_refresh" THEN "running" ELSE "none",
                 waiter |-> "launching"]
<1>3. /\ b \in Fire /\ b.of = s /\ b.by = who /\ b.children = {} /\ b.waiter = "launching"
      /\ b.kind # "gather_refresh" => b.task = "none"
  <2>1. row[s] \in Row /\ hosts \subseteq Nodes
    BY DEF SchedInv, SchedTypeOK, Hosts
  <2>2. QED
    BY <2>1 DEF Row, Fire
<1>4. fires' = [fires EXCEPT ![f] = b]
  BY <1>1
<1> HIDE DEF b
<1>5. fires \in [Fires -> Fire]
  BY DEF SchedInv, SchedTypeOK
<1>6. fires' \in [Fires -> Fire] /\ fires'[f] = b /\ \A g \in Fires : g # f => fires'[g] = fires[g]
  BY <1>3, <1>4, <1>5
<1>7. \A g \in Fires : fires[g].waiter # "launching"
  BY <1>2, Ids DEF SchedInv, FireOK
<1>8. OpsInv'
  BY <1>2, OpsStepInv DEF SchedInv
<1>9. SchedTypeOK'
  <2>1. f \in 0..MaxFires
    BY SchedAssumption DEF Fires
  <2>2. QED
    BY <1>1, <1>2, <1>6, <2>1 DEF SchedInv, SchedTypeOK
<1>10. ASSUME NEW g \in Fires PROVE FireOK(g)' /\ FireEnd(g)' /\ FireAge(g)'
  <2>1. FireOK(g) /\ FireEnd(g) /\ FireAge(g) /\ FireOK(f)
    BY DEF SchedInv
  <2>2. CASE g = f
    <3>1. ASSUME NEW h \in Fires, f < h PROVE fires'[h].waiter = "unused"
      <4>1. h # f
        BY <3>1 DEF Fires
      <4>2. QED
        BY <1>1, <1>6, <2>1, <3>1, <4>1 DEF FireOK
    <3>2. FireOK(f)'
      BY <1>1, <1>2, <1>3, <1>6, <2>1, <3>1 DEF FireOK
    <3>3. FireEnd(f)'
      BY <1>3, <1>6 DEF FireEnd
    <3>4. FireAge(f)'
      BY <1>2, <1>3, <1>6 DEF FireAge
    <3>5. QED
      BY <2>2, <3>2, <3>3, <3>4
  <2>3. CASE g # f
    <3>1. fires'[g] = fires[g] /\ fires[g].waiter # "launching"
      BY <1>6, <1>7, <2>3
    <3>2. ASSUME NEW h \in Fires, g < h, fires[g].waiter = "unused"
          PROVE  fires'[h].waiter = "unused"
      <4>1. ~(g < f)
        <5>1. g \in Nat \ {0} /\ f \in Nat
          BY DEF Fires
        <5>2. QED
          BY <1>1, <3>2, <5>1
      <4>2. h # f
        BY <3>2, <4>1
      <4>3. QED
        BY <1>6, <2>1, <3>2, <4>2 DEF FireOK
    <3>3. FireOK(g)'
      BY <1>1, <1>2, <2>1, <2>3, <3>1, <3>2 DEF FireOK
    <3>4. FireEnd(g)'
      BY <1>2, <2>1, <3>1 DEF FireEnd, Prunes
    <3>5. FireAge(g)'
      BY <1>2, <2>1, <3>1 DEF FireAge
    <3>6. QED
      BY <3>3, <3>4, <3>5
  <2>4. QED
    BY <2>2, <2>3
<1>11. ASSUME NEW t \in Schedules PROVE RowOK(t)'
  <2>1. RowOK(t)
    BY DEF SchedInv
  <2>2. ASSUME row[t].last_op_id \in Fires PROVE row[t].last_op_id # f
    BY <1>1, <2>1, <2>2 DEF RowOK
  <2>3. QED
    BY <1>1, <1>2, <1>3, <1>6, <2>1, <2>2 DEF RowOK
<1>12. AtBoot'
  BY <1>2 DEF AtBoot
<1>13. NoGhostRows'
  <2>1. ASSUME NEW t \in Schedules, fires[row[t].last_op_id].waiter = "waiting",
               row[t].last_op_id \in Fires
        PROVE  fires'[row[t].last_op_id].waiter = "waiting"
    BY <1>1, <1>6, <2>1
  <2>2. \A t \in Schedules : row[t].last_op_id # NoFire /\ row[t].last_duration = "NULL" =>
                               row[t].last_op_id \in Fires
    BY Ids DEF SchedInv, RowOK, SchedTypeOK, Row
  <2>3. QED
    BY <1>2, <2>1, <2>2 DEF SchedInv, NoGhostRows
<1>14. TickFiresSpaced'
  <2>1. ASSUME NEW g \in Fires, g # f, fires[g].of = s, fires[g].by = "tick", who = "tick",
               fires[g].waiter \notin {"crashed", "unrecorded"}
        PROVE  since_fire[g] >= Interval
    <3>1. fires[g].waiter \notin {"unused", "launching"}
      BY <1>7, <2>1 DEF SchedInv, FireOK, Unused
    <3>2. since_run[s] <= since_fire[g]
      BY <2>1, <3>1 DEF SchedInv, FireAge
    <3>3. since_run[s] \in Nat /\ since_fire[g] \in Nat /\ Interval \in Nat
      BY SchedAssumption DEF SchedInv, SchedTypeOK
    <3>4. QED
      BY <2>1, <3>2, <3>3
  <2>2. QED
    BY <1>2, <1>3, <1>6, <2>1 DEF SchedInv, TickFiresSpaced
<1>15. SchedInv'
  BY <1>8, <1>9, <1>10, <1>11, <1>12, <1>13, <1>14 DEF SchedInv
<1>16. ASSUME PruneInv, who = "tick" => \A g \in Fires : fires[g].of = s => ~Tracked(g)
       PROVE  PruneInv'
  <2>1. ~Prunes(f)' /\ ~Tracked(f)'
    BY <1>3, <1>6 DEF Tracked, Prunes
  <2>2. ASSUME NEW g \in Fires, g # f
        PROVE  (Prunes(g)' <=> Prunes(g)) /\ (Tracked(g)' <=> Tracked(g)) /\ fires'[g] = fires[g]
    BY <1>2, <1>6, <2>2 DEF Tracked, Prunes
  <2>3. \A g \in Fires : firing # g
    BY <1>2, Ids
  <2>4. \A g \in Fires : Tracked(g)' =>
          \/ row'[fires'[g].of].last_op_id = g
          \/ row'[fires'[g].of].life = "deleted"
    BY <1>2, <1>16, <2>1, <2>2, <2>3 DEF PruneInv
  <2>5. \A g, h \in Fires : g # h /\ firing' = h /\ fires'[h].by = "tick"
                            /\ fires'[g].of = fires'[h].of => ~Tracked(g)'
    BY <1>1, <1>3, <1>6, <1>16, <2>1, <2>2
  <2>6. PruneNodeRunsDoNotOverlap'
    BY <1>2, <1>16, <2>1, <2>2 DEF PruneInv, PruneNodeRunsDoNotOverlap
  <2>7. QED
    BY <2>4, <2>5, <2>6 DEF PruneInv
<1>17. QED
  BY <1>15, <1>16

LEMMA TickFiresKeeps ==
  ASSUME NEW s \in Schedules, SchedInv, TickFires(s)
  PROVE  SchedInv' /\ (PruneInv /\ WaiterTimeout < StuckAfter => PruneInv')
<1>1. /\ loop = "ticking" /\ row[s].life = "present" /\ since_run[s] >= Interval
      /\ ~PreviousRunActive(s) /\ Begin(s, "tick") /\ run_nows' = run_nows /\ firing = NoFire
  BY DEF TickFires, Due, Begin
<1>2. run_nows' \in 0..MaxRunNows
  BY <1>1 DEF SchedInv, SchedTypeOK
<1>3. SchedInv'
  BY <1>1, <1>2, BeginKeeps
<1>4. ASSUME PruneInv, WaiterTimeout < StuckAfter PROVE PruneInv'
  <2>1. \A f \in Fires : fires[f].of = s => ~Tracked(f)
    BY <1>1, <1>4, NothingUnderWay
  <2>2. QED
    BY <1>1, <1>2, <1>4, <2>1, BeginKeeps
<1>5. QED
  BY <1>3, <1>4

LEMMA RunNowKeeps ==
  ASSUME NEW s \in Schedules, SchedInv, RunNow(s)
  PROVE  SchedInv' /\ (PruneInv => PruneInv')
<1>1. loop # "boot" /\ Begin(s, "operator") /\ run_nows' = run_nows + 1 /\ run_nows < MaxRunNows
  BY DEF RunNow
<1>2. run_nows' \in 0..MaxRunNows
  BY <1>1, SchedAssumption DEF SchedInv, SchedTypeOK
<1>3. QED
  BY <1>1, <1>2, BeginKeeps

LEMMA LaunchKeeps ==
  ASSUME NEW i \in OpIds, NEW n \in Nodes, SchedInv, Launch(i, n)
  PROVE  SchedInv' /\ (PruneInv => PruneInv')
<1>0. PICK f \in Fires : f = firing
  BY SchedAssumption DEF Launch, SchedInv, SchedTypeOK, Fires, NoFire
<1> DEFINE b == [fires[f] EXCEPT !.todo = @ \ {n}, !.children = @ \union {i}]
<1>1. /\ firing = f /\ firing # NoFire /\ Start(i, "prune_node", n) /\ NewOp(i, "prune_node", n)
      /\ fires' = [fires EXCEPT ![f].todo = @ \ {n}, ![f].children = @ \union {i}]
      /\ pc' = [pc EXCEPT ![i] = "working"]
      /\ row' = row /\ since_run' = since_run /\ since_fire' = since_fire /\ firing' = firing
      /\ loop' = loop /\ run_nows' = run_nows /\ faults' = faults /\ displaced' = displaced
  BY <1>0 DEF Launch, Start
<1>2. f \in Fires /\ fires \in [Fires -> Fire] /\ fires[f] \in Fire
  BY DEF SchedInv, SchedTypeOK
<1>3. /\ b \in Fire /\ b.of = fires[f].of /\ b.kind = fires[f].kind /\ b.by = fires[f].by
      /\ b.task = fires[f].task /\ b.waiter = fires[f].waiter
      /\ b.children = fires[f].children \union {i}
  BY <1>2 DEF Fire
<1>4. fires' = [fires EXCEPT ![f] = b]
  BY <1>1, <1>2
<1> HIDE DEF b
<1>5. fires' \in [Fires -> Fire] /\ fires'[f] = b /\ \A g \in Fires : g # f => fires'[g] = fires[g]
  BY <1>2, <1>3, <1>4
<1>6. \A g \in Fires : /\ fires'[g].of = fires[g].of /\ fires'[g].kind = fires[g].kind
                       /\ fires'[g].by = fires[g].by /\ fires'[g].task = fires[g].task
                       /\ fires'[g].waiter = fires[g].waiter
  BY <1>3, <1>5
<1>7. OpsInv' /\ Onward
  <2>1. n \in Targets /\ "prune_node" \in OpType
    BY SchedAssumption DEF OpType
  <2>2. OpsInv
    BY DEF SchedInv
  <2>3. QED
    BY <1>1, <2>1, <2>2, StartInv, StartOnward
<1>8. SchedTypeOK'
  BY <1>1, <1>5 DEF SchedInv, SchedTypeOK
<1>9. fires[f].waiter = "launching" /\ loop # "boot" /\ pc'[i] = "working"
  BY <1>1, <1>2 DEF SchedInv, FireOK, AtBoot, OpsInv, OpsTypeOK
<1>10. ASSUME NEW g \in Fires
       PROVE  /\ FireOK(g)' /\ FireEnd(g)' /\ FireAge(g)'
              /\ g # f => (Prunes(g)' => Prunes(g))
  <2>1. FireOK(g) /\ FireEnd(g) /\ FireAge(g) /\ SchedTypeOK
    BY DEF SchedInv
  <2>2. \A h \in Fires : g < h /\ fires'[g].waiter \in {"unused", "launching"} =>
          fires'[h].waiter = "unused"
    BY <1>6, <2>1 DEF FireOK
  <2>3. FireAge(g)'
    BY <1>1, <1>6, <2>1 DEF FireAge
  <2>4. CASE g = f
    <3>1. fires[f].children \subseteq OpIds
      BY <1>2 DEF Fire
    <3>2. \A o \in fires'[f].children : pc'[o] # "none"
      BY <1>3, <1>5, <1>7, <1>9, <2>1, <2>4, <3>1 DEF FireOK, Onward
    <3>3. FireOK(f)'
      BY <1>1, <1>6, <1>9, <2>1, <2>2, <2>4, <3>2 DEF FireOK
    <3>4. FireEnd(f)'
      BY <1>6, <1>9 DEF FireEnd
    <3>5. QED
      BY <2>3, <2>4, <3>3, <3>4
  <2>5. CASE g # f
    <3>1. fires'[g] = fires[g]
      BY <1>5, <2>5
    <3>2. /\ Prunes(g)' => Prunes(g)
          /\ \A o \in fires'[g].children : pc'[o] # "none"
          /\ (\A o \in fires[g].children : status[o] = "success") =>
               \A o \in fires'[g].children : status'[o] = "success"
      BY <1>7, <2>1, <3>1, ChildrenOnward
    <3>3. FireOK(g)'
      BY <1>1, <2>1, <2>2, <2>5, <3>1, <3>2 DEF FireOK
    <3>4. FireEnd(g)'
      BY <2>1, <3>1, <3>2 DEF FireEnd
    <3>5. QED
      BY <2>3, <3>2, <3>3, <3>4
  <2>6. QED
    BY <2>4, <2>5
<1>11. \A t \in Schedules : RowOK(t)'
  BY <1>1, <1>2, <1>6 DEF SchedInv, RowOK
<1>12. AtBoot'
  BY <1>1, <1>9 DEF AtBoot
<1>13. NoGhostRows'
  <2>1. \A t \in Schedules : row[t].last_op_id # NoFire /\ row[t].last_duration = "NULL" =>
                               row[t].last_op_id \in Fires
    BY Ids DEF SchedInv, RowOK, SchedTypeOK, Row
  <2>2. QED
    BY <1>1, <1>6, <2>1 DEF SchedInv, NoGhostRows
<1>14. TickFiresSpaced'
  BY <1>1, <1>6 DEF SchedInv, TickFiresSpaced
<1>15. SchedInv'
  BY <1>7, <1>8, <1>10, <1>11, <1>12, <1>13, <1>14 DEF SchedInv
<1>16. ASSUME PruneInv PROVE PruneInv'
  <2>1. \A g \in Fires : g # f => (Tracked(g)' => Tracked(g))
    BY <1>1, <1>6, <1>10 DEF Tracked
  <2>2. \A g \in Fires : Tracked(g)' =>
          \/ firing' = g
          \/ row'[fires'[g].of].last_op_id = g
          \/ row'[fires'[g].of].life = "deleted"
    BY <1>1, <1>6, <1>16, <2>1 DEF PruneInv
  <2>3. \A g, h \in Fires : g # h /\ firing' = h /\ fires'[h].by = "tick"
                            /\ fires'[g].of = fires'[h].of => ~Tracked(g)'
    <3>1. ASSUME NEW g \in Fires, g # f, fires[f].by = "tick", fires[g].of = fires[f].of
          PROVE  ~Tracked(g)
      BY <1>1, <1>16, <3>1 DEF PruneInv
    <3>2. QED
      BY <1>1, <1>6, <2>1, <3>1
  <2>4. ASSUME NEW g \in Fires, NEW h \in Fires, g < h, fires'[g].of = fires'[h].of,
               fires'[g].kind = "prune_node", fires'[h].kind = "prune_node",
               fires'[h].by = "tick", g \notin displaced',
               fires'[g].waiter \notin {"unstamped", "unrecorded"}, Prunes(g)', Prunes(h)'
        PROVE  FALSE
    <3>1. CASE h = f
      <4>1. g # f
        BY <2>4, <3>1 DEF Fires
      <4>2. Tracked(g)'
        BY <2>4 DEF Tracked
      <4>3. QED
        BY <1>1, <2>3, <2>4, <3>1, <4>1, <4>2
    <3>2. CASE g = f
      <4>1. h # f /\ fires[h].waiter = "unused"
        BY <1>9, <2>4, <3>2 DEF SchedInv, FireOK, Fires
      <4>2. fires'[h].children = {}
        BY <1>5, <4>1 DEF SchedInv, FireOK, Unused
      <4>3. QED
        BY <2>4, <4>2 DEF Prunes
    <3>3. CASE g # f /\ h # f
      BY <1>1, <1>6, <1>10, <1>16, <2>4, <3>3 DEF PruneInv, PruneNodeRunsDoNotOverlap
    <3>4. QED
      BY <3>1, <3>2, <3>3
  <2>5. PruneNodeRunsDoNotOverlap'
    BY <2>4 DEF PruneNodeRunsDoNotOverlap
  <2>6. QED
    BY <2>2, <2>3, <2>5 DEF PruneInv
<1>17. QED
  BY <1>15, <1>16

-------------------------------------------------------------------------------
(* Waiting for the outcome.                                                *)

\* What a step that moves the waiter of one fire on, and perhaps stamps its row,
\* must leave right.
LEMMA WaiterMoves ==
  ASSUME NEW f \in Fires, NEW w \in {"waiting", "success", "error", "unstamped", "unrecorded"},
         SchedInv, SchedTypeOK', NoGhostRows', firing' = NoFire,
         \/ firing = f
         \/ firing = NoFire /\ fires[f].waiter = "waiting",
         fires[f].todo = {}, fires' = [fires EXCEPT ![f].waiter = w],
         UNCHANGED <<opsVars, since_fire, loop>>,
         faults' >= faults, w \in {"unstamped", "unrecorded"} => faults' > 0,
         w = "waiting" => firing = f,
         w = "success" => /\ fires[f].task # "error" /\ fires[f].task # "running"
                          /\ \A o \in fires[f].children : status[o] = "success",
         firing = f /\ w # "unrecorded" => since_run'[fires[f].of] = 0,
         \A s \in Schedules : /\ row'[s].life = row[s].life
                              /\ since_run'[s] <= since_run[s]
                              /\ RowOK(s)'
  PROVE  SchedInv'
<1>1. /\ since_fire' = since_fire /\ ops' = ops /\ status' = status /\ pc' = pc /\ loop' = loop
      /\ SchedTypeOK /\ fires \in [Fires -> Fire]
  BY DEF opsVars, SchedInv, SchedTypeOK
<1>2. /\ \A g \in Fires : g # f => fires'[g] = fires[g]
      /\ \A g \in Fires :
           /\ fires'[g].of = fires[g].of /\ fires'[g].kind = fires[g].kind
           /\ fires'[g].by = fires[g].by /\ fires'[g].todo = fires[g].todo
           /\ fires'[g].children = fires[g].children /\ fires'[g].task = fires[g].task
      /\ fires'[f].waiter = w
  <2>1. w \in Waiter
    BY DEF Waiter
  <2>2. QED
    BY <1>1, <2>1, WaiterSet
<1>3. OpsInv'
  BY OpsStepInv DEF SchedInv
<1>4. faults \in Nat /\ faults' \in Nat
  BY SchedAssumption DEF SchedInv, SchedTypeOK
<1>5. /\ fires[f].waiter \in {"launching", "waiting"} /\ f # NoFire
      /\ fires[f].waiter = "launching" <=> firing = f
      /\ firing = f => since_fire[f] = 0
  BY Ids DEF SchedInv, FireOK
<1>6. ASSUME NEW g \in Fires PROVE FireOK(g)' /\ FireEnd(g)' /\ FireAge(g)'
  <2>1. FireOK(g) /\ FireEnd(g) /\ FireAge(g) /\ g # NoFire
    BY Ids DEF SchedInv
  <2>2. /\ since_fire[g] \in Nat
        /\ fires[g].waiter # "unused" =>
             /\ since_run[fires[g].of] \in Nat /\ since_run'[fires[g].of] \in Nat
             /\ since_run'[fires[g].of] <= since_run[fires[g].of]
             /\ row'[fires[g].of].life # "unborn"
    BY <2>1, SchedAssumption DEF SchedInv, SchedTypeOK, FireOK
  <2>3. WaiterTimeout \in Nat
    BY SchedAssumption
  <2>4. CASE g = f
    <3>1. FireOK(f)'
      <4>1. /\ fires[f].of \in Schedules /\ row'[fires'[f].of].life # "unborn"
            /\ fires'[f].by # "none"
        BY <1>2, <1>5, <2>1, <2>2, <2>4 DEF FireOK
      <4>2. /\ fires'[f].todo = {}
            /\ fires'[f].kind # "gather_refresh" => fires'[f].task = "none"
            /\ \A o \in fires'[f].children : pc'[o] # "none"
        BY <1>1, <1>2, <2>1, <2>4 DEF FireOK
      <4>3. /\ w \notin {"unused", "launching"} /\ fires'[f].waiter = w
            /\ w \in {"unstamped", "unrecorded"} => faults' > 0
            /\ firing' # f
        BY <1>2, <1>5
      <4>4. QED
        <5>1. fires'[f].of = fires[f].of /\ fires'[f].waiter \notin {"unused", "launching"}
          BY <1>2, <4>3
        <5>2. fires'[f].waiter \in {"unstamped", "unrecorded"} => faults' > 0
          BY <4>3
        <5>3. QED
          BY <4>1, <4>2, <4>3, <5>1, <5>2 DEF FireOK
    <3>2. FireEnd(f)'
      BY <1>1, <1>2 DEF FireEnd
    <3>3. w # "unrecorded" => since_run'[fires[f].of] <= since_fire[f]
      BY <1>5, <2>1, <2>2, <2>4 DEF FireAge
    <3>4. FireAge(f)'
      BY <1>1, <1>2, <1>5, <2>3, <3>3 DEF FireAge
    <3>5. QED
      BY <2>4, <3>1, <3>2, <3>4
  <2>5. CASE g # f
    <3>1. fires'[g] = fires[g] /\ fires[g].waiter # "launching"
      BY <1>2, <2>1, <2>5 DEF FireOK
    <3>2. \A h \in Fires : g < h /\ fires[g].waiter = "unused" => fires'[h].waiter = "unused"
      BY <1>2, <1>5, <2>1 DEF FireOK
    <3>3. FireOK(g)'
      BY <1>1, <1>4, <2>1, <2>2, <3>1, <3>2 DEF FireOK
    <3>4. FireEnd(g)'
      BY <1>1, <2>1, <3>1 DEF FireEnd, Prunes
    <3>5. FireAge(g)'
      <4>1. fires[g].waiter \notin {"unused", "launching", "crashed", "unrecorded"} =>
              since_run'[fires[g].of] <= since_fire[g]
        BY <2>1, <2>2 DEF FireAge
      <4>2. fires[g].waiter = "waiting" /\ fires[g].kind # "gather_refresh" =>
              since_fire[g] <= WaiterTimeout
        BY <2>1 DEF FireAge
      <4>3. QED
        BY <1>1, <3>1, <4>1, <4>2 DEF FireAge
    <3>6. QED
      BY <3>3, <3>4, <3>5
  <2>6. QED
    BY <2>4, <2>5
<1>7. AtBoot'
  BY <1>1, <1>5 DEF SchedInv, AtBoot
<1>8. TickFiresSpaced'
  <2>1. \A g \in Fires : fires'[g].waiter \notin {"crashed", "unrecorded"} =>
          fires[g].waiter \notin {"crashed", "unrecorded"}
    BY <1>2, <1>5
  <2>2. QED
    BY <1>1, <1>2, <2>1 DEF SchedInv, TickFiresSpaced
<1>9. QED
  BY <1>3, <1>6, <1>7, <1>8 DEF SchedInv

LEMMA WaiterMovesTracks ==
  ASSUME NEW f \in Fires, NEW w \in {"waiting", "success", "error", "unstamped", "unrecorded"},
         SchedInv, PruneInv, firing' = NoFire, fires[f].waiter \in {"launching", "waiting"},
         fires' = [fires EXCEPT ![f].waiter = w],
         UNCHANGED opsVars, displaced \subseteq displaced',
         \A g \in Fires : /\ Tracked(g) /\ g \notin displaced'
                          /\ g = f => w \notin {"unstamped", "unrecorded"}
                          => \/ row'[fires[g].of].last_op_id = g
                             \/ row'[fires[g].of].life = "deleted"
  PROVE  PruneInv'
<1>1. status' = status /\ fires \in [Fires -> Fire] /\ w \in Waiter
  BY DEF opsVars, SchedInv, SchedTypeOK, Waiter
<1>2. /\ \A g \in Fires : g # f => fires'[g] = fires[g]
      /\ \A g \in Fires :
           /\ fires'[g].of = fires[g].of /\ fires'[g].kind = fires[g].kind
           /\ fires'[g].by = fires[g].by /\ fires'[g].children = fires[g].children
      /\ fires'[f].waiter = w
  BY <1>1, WaiterSet
<1>3. \A g \in Fires : Prunes(g)' <=> Prunes(g)
  BY <1>1, <1>2 DEF Prunes
<1>4. \A g \in Fires : fires'[g].waiter \notin {"unstamped", "unrecorded"} =>
        fires[g].waiter \notin {"unstamped", "unrecorded"}
  BY <1>2
<1>5. \A g \in Fires : Tracked(g)' =>
        /\ Tracked(g) /\ g \notin displaced'
        /\ g = f => w \notin {"unstamped", "unrecorded"}
  BY <1>2, <1>3, <1>4 DEF Tracked
<1>6. PruneNodeRunsDoNotOverlap'
  BY <1>2, <1>3, <1>4 DEF PruneInv, PruneNodeRunsDoNotOverlap
<1>7. \A g \in Fires : firing' # g
  BY Ids
<1>8. QED
  BY <1>2, <1>5, <1>6, <1>7 DEF PruneInv

\* A row that is left alone, when the waiter of a fire moves on.
LEMMA RowElsewhere ==
  ASSUME NEW f \in Fires, NEW w \in Waiter, NEW t \in Schedules, SchedInv,
         fires' = [fires EXCEPT ![f].waiter = w], firing' = NoFire,
         row'[t] = row[t], since_run'[t] = since_run[t],
         row[t].last_op_id = f => w = "unstamped"
  PROVE  /\ RowOK(t)'
         /\ since_run'[t] <= since_run[t] /\ row'[t].life = row[t].life
         /\ loop # "boot" /\ faults = 0 /\ w # "unstamped" =>
              (row'[t].last_op_id # NoFire /\ row'[t].last_duration = "NULL" =>
                 fires'[row'[t].last_op_id].waiter = "waiting")
<1>1. fires \in [Fires -> Fire] /\ RowOK(t) /\ since_run[t] \in Nat
      /\ row[t].last_op_id \in 0..ErrFire
  BY SchedAssumption DEF SchedInv, SchedTypeOK, Row
<1>2. /\ \A g \in Fires : fires'[g].of = fires[g].of
      /\ \A g \in Fires : g # f => fires'[g] = fires[g]
      /\ fires'[f].waiter = w
  BY <1>1, WaiterSet
<1>3. RowOK(t)'
  <2>1. CASE row[t].last_op_id \notin Fires
    BY <1>1, <1>2, <2>1 DEF RowOK
  <2>2. CASE row[t].last_op_id \in Fires /\ row[t].last_op_id # f
    BY <1>1, <1>2, <2>2 DEF RowOK
  <2>3. CASE row[t].last_op_id = f
    BY <1>1, <1>2, <2>3 DEF RowOK
  <2>4. QED
    BY <2>1, <2>2, <2>3
<1>4. ASSUME loop # "boot", faults = 0, w # "unstamped",
             row'[t].last_op_id # NoFire, row'[t].last_duration = "NULL"
      PROVE  fires'[row'[t].last_op_id].waiter = "waiting"
  <2>1. row[t].last_op_id \in Fires /\ row[t].last_op_id # f
    BY <1>1, <1>4, Ids DEF RowOK
  <2>2. fires[row[t].last_op_id].waiter = "waiting"
    BY <1>4 DEF SchedInv, NoGhostRows
  <2>3. QED
    BY <1>2, <2>1, <2>2
<1>5. QED
  BY <1>1, <1>3, <1>4

LEMMA FiredKeeps ==
  ASSUME SchedInv, Fired
  PROVE  SchedInv' /\ (PruneInv => PruneInv')
<1>0. PICK f \in Fires : f = firing
  BY SchedAssumption DEF Fired, SchedInv, SchedTypeOK, Fires, NoFire
<1> DEFINE s == fires[f].of
<1>1. /\ firing = f /\ firing' = NoFire /\ fires[f].todo = {}
      /\ record_run(s, f, "NULL", "NULL", TRUE)
      /\ fires' = [fires EXCEPT ![f].waiter = "waiting"]
      /\ displaced' = IF fires[f].by = "operator" THEN displaced \union Displaces(f) ELSE displaced
      /\ UNCHANGED opsVars /\ since_fire' = since_fire /\ loop' = loop
      /\ run_nows' = run_nows /\ faults' = faults
  BY <1>0 DEF Fired
<1>2. /\ fires[f].waiter = "launching" /\ s \in Schedules /\ row[s].life = "present"
      /\ SchedTypeOK /\ faults \in Nat /\ fires \in [Fires -> Fire]
      /\ fires[f].by \in {"tick", "operator"}
  <2>1. FireOK(f) /\ SchedTypeOK
    BY DEF SchedInv
  <2>2. fires[f].waiter = "launching" /\ s \in Schedules
    BY <1>1, <2>1 DEF FireOK
  <2>3. row[s].life = "present"
    BY <1>1, <2>2, Ids DEF SchedInv, RowOK
  <2>4. fires[f].by \in {"tick", "operator"}
    BY <2>1, <2>2 DEF FireOK, SchedTypeOK, Fire
  <2>5. QED
    BY <2>1, <2>2, <2>3, <2>4, SchedAssumption DEF SchedTypeOK
<1>3. /\ row' \in [Schedules -> Row] /\ since_run' \in [Schedules -> 0..Horizon]
      /\ \A t \in Schedules : row'[t].life = row[t].life
      /\ \A t \in Schedules : t # s => row'[t] = row[t] /\ since_run'[t] = since_run[t]
      /\ row'[s].last_op_id = f /\ row'[s].last_duration = row[s].last_duration
      /\ row'[s].last_status = row[s].last_status /\ since_run'[s] = 0
  <2>1. f \in 1..ErrFire
    BY Ids
  <2>2. QED
    BY <1>1, <1>2, <2>1, RecordRun
<1>4. /\ fires' \in [Fires -> Fire] /\ fires'[f].waiter = "waiting" /\ fires'[f].of = s
      /\ \A g \in Fires : g # f => fires'[g] = fires[g]
  BY <1>1, <1>2, WaiterSet DEF Waiter
<1>5. SchedTypeOK'
  <2>1. displaced' \subseteq Fires
    <3>1. Displaces(f) \subseteq Fires
      BY <1>2, Ids DEF Displaces, SchedTypeOK, Row
    <3>2. QED
      BY <1>1, <1>2, <3>1 DEF SchedTypeOK
  <2>2. \A t \in Schedules : row'[t].last_op_id = NoFire =>
          row'[t].last_duration = "NULL" /\ row'[t].last_status = "NULL"
    BY <1>2, <1>3, Ids DEF SchedTypeOK
  <2>3. firing' \in 0..MaxFires
    BY <1>1, SchedAssumption DEF NoFire
  <2>4. QED
    BY <1>1, <1>2, <1>3, <1>4, <2>1, <2>2, <2>3 DEF SchedTypeOK
<1>6. \A t \in Schedules : row[t].last_op_id # f
  BY <1>2 DEF SchedInv, RowOK
<1>7. ASSUME NEW t \in Schedules, t # s
      PROVE  /\ RowOK(t)'
             /\ since_run'[t] <= since_run[t] /\ row'[t].life = row[t].life
             /\ loop # "boot" /\ faults = 0 =>
                  (row'[t].last_op_id # NoFire /\ row'[t].last_duration = "NULL" =>
                     fires'[row'[t].last_op_id].waiter = "waiting")
  BY <1>1, <1>3, <1>6, <1>7, RowElsewhere DEF Waiter
<1>8. ASSUME NEW t \in Schedules, t = s
      PROVE  RowOK(t)' /\ since_run'[t] <= since_run[t]
  <2>1. since_run[s] \in Nat
    BY <1>2, SchedAssumption DEF SchedTypeOK
  <2>2. QED
    BY <1>1, <1>2, <1>3, <1>4, <1>8, <2>1, Ids DEF RowOK
<1>9. NoGhostRows'
  BY <1>1, <1>2, <1>3, <1>4, <1>7 DEF NoGhostRows
<1>10. SchedInv'
  <2>1. ASSUME NEW t \in Schedules
        PROVE  row'[t].life = row[t].life /\ since_run'[t] <= since_run[t] /\ RowOK(t)'
    <3>1. CASE t = s
      BY <1>3, <1>8, <3>1
    <3>2. CASE t # s
      BY <1>7, <3>2
    <3>3. QED
      BY <3>1, <3>2
  <2>2. faults' >= faults
    BY <1>1, <1>2
  <2>3. QED
    BY <1>1, <1>3, <1>5, <1>9, <2>1, <2>2, WaiterMoves
<1>11. ASSUME PruneInv PROVE PruneInv'
  <2>1. ASSUME NEW g \in Fires, Tracked(g), g \notin displaced'
        PROVE  \/ row'[fires[g].of].last_op_id = g
               \/ row'[fires[g].of].life = "deleted"
    <3>1. CASE g = f
      BY <1>3, <3>1
    <3>2. CASE g # f /\ fires[g].of = s
      <4>1. fires[f].by = "operator"
        BY <1>1, <1>2, <1>11, <2>1, <3>2 DEF PruneInv
      <4>2. row[s].last_op_id = g
        BY <1>1, <1>2, <1>11, <2>1, <3>2 DEF PruneInv
      <4>3. g \in Displaces(f)
        BY <3>2, <4>2, Ids DEF Displaces
      <4>4. QED
        BY <1>1, <2>1, <4>1, <4>3
    <3>3. CASE fires[g].of # s
      <4>1. fires[g].of \in Schedules
        BY <2>1, TrackedIsUsed DEF SchedInv, FireOK
      <4>2. g # f
        BY <3>3
      <4>3. QED
        BY <1>1, <1>3, <1>11, <2>1, <3>3, <4>1, <4>2 DEF PruneInv
    <3>4. QED
      BY <3>1, <3>2, <3>3
  <2>2. displaced \subseteq displaced'
    BY <1>1
  <2>3. QED
    BY <1>1, <1>2, <1>11, <2>1, <2>2, WaiterMovesTracks
<1>12. QED
  BY <1>10, <1>11

LEMMA FireFailsKeeps ==
  ASSUME SchedInv, FireFails
  PROVE  SchedInv' /\ (PruneInv => PruneInv')
<1>0. PICK f \in Fires : f = firing
  BY SchedAssumption DEF FireFails, SchedInv, SchedTypeOK, Fires, NoFire
<1> DEFINE s == fires[f].of
<1>1. /\ firing = f /\ firing' = NoFire /\ fires[f].todo = {}
      /\ faults' = faults + 1 /\ faults < MaxFaults /\ displaced' = displaced
      /\ UNCHANGED opsVars /\ since_fire' = since_fire /\ loop' = loop
      /\ run_nows' = run_nows
  BY <1>0 DEF FireFails
<1>2. PICK w \in {"unstamped", "unrecorded"} :
        /\ fires' = [fires EXCEPT ![f].waiter = w]
        /\ \/ /\ w = "unstamped" /\ fires[f].by = "tick"
              /\ record_run(s, ErrFire, "recorded", "error", TRUE)
           \/ w = "unrecorded" /\ row' = row /\ since_run' = since_run
  BY <1>0 DEF FireFails
<1>3. /\ fires[f].waiter = "launching" /\ s \in Schedules /\ row[s].life = "present"
      /\ SchedTypeOK /\ fires \in [Fires -> Fire] /\ w \in Waiter
      /\ faults' \in 0..MaxFaults /\ faults' > 0 /\ faults' >= faults
  <2>1. FireOK(f) /\ SchedTypeOK
    BY DEF SchedInv
  <2>2. fires[f].waiter = "launching" /\ s \in Schedules
    BY <1>1, <2>1 DEF FireOK
  <2>3. row[s].life = "present"
    BY <1>1, <2>2, Ids DEF SchedInv, RowOK
  <2>4. faults' \in 0..MaxFaults /\ faults' > 0 /\ faults' >= faults
    BY <1>1, <2>1, SchedAssumption DEF SchedTypeOK
  <2>5. QED
    BY <2>1, <2>2, <2>3, <2>4 DEF SchedTypeOK, Waiter
<1>4. /\ row' \in [Schedules -> Row] /\ since_run' \in [Schedules -> 0..Horizon]
      /\ \A t \in Schedules : row'[t].life = row[t].life
      /\ \A t \in Schedules : t # s => row'[t] = row[t] /\ since_run'[t] = since_run[t]
      /\ w = "unstamped" => /\ row'[s].last_op_id = ErrFire
                             /\ row'[s].last_duration = "recorded"
                             /\ since_run'[s] = 0 /\ fires[f].by = "tick"
      /\ w = "unrecorded" => row' = row /\ since_run' = since_run
  <2>1. CASE w = "unstamped"
    <3>1. record_run(s, ErrFire, "recorded", "error", TRUE) /\ fires[f].by = "tick"
      BY <1>2, <2>1
    <3>2. ErrFire \in 1..ErrFire
      BY Ids
    <3>3. QED
      BY <1>3, <2>1, <3>1, <3>2, RecordRun
  <2>2. CASE w = "unrecorded"
    BY <1>2, <1>3, <2>2 DEF SchedTypeOK
  <2>3. QED
    BY <2>1, <2>2
<1>5. /\ fires' \in [Fires -> Fire] /\ fires'[f].of = s
      /\ \A g \in Fires : g # f => fires'[g] = fires[g]
  BY <1>2, <1>3, WaiterSet
<1>6. SchedTypeOK'
  <2>1. \A t \in Schedules : row'[t].last_op_id = NoFire =>
          row'[t].last_duration = "NULL" /\ row'[t].last_status = "NULL"
    BY <1>3, <1>4, Ids DEF SchedTypeOK
  <2>2. firing' \in 0..MaxFires
    BY <1>1, SchedAssumption DEF NoFire
  <2>3. QED
    BY <1>1, <1>3, <1>4, <1>5, <2>1, <2>2 DEF SchedTypeOK
<1>7. ASSUME NEW t \in Schedules
      PROVE  RowOK(t)' /\ since_run'[t] <= since_run[t] /\ row'[t].life = row[t].life
  <2>1. row[t].last_op_id # f
    BY <1>3 DEF SchedInv, RowOK
  <2>2. CASE row'[t] = row[t] /\ since_run'[t] = since_run[t]
    BY <1>1, <1>2, <1>3, <2>1, <2>2, RowElsewhere
  <2>3. CASE t = s /\ w = "unstamped"
    <3>1. since_run[s] \in Nat
      BY <1>3, SchedAssumption DEF SchedTypeOK
    <3>2. QED
      BY <1>1, <1>3, <1>4, <2>3, <3>1, Ids DEF RowOK
  <2>4. QED
    BY <1>2, <1>4, <2>2, <2>3
<1>8. NoGhostRows'
  BY <1>3 DEF NoGhostRows
<1>9. SchedInv'
  <2>1. firing = f /\ w # "unrecorded" => since_run'[s] = 0
    BY <1>2, <1>4
  <2>2. QED
    BY <1>1, <1>2, <1>3, <1>6, <1>7, <1>8, <2>1, WaiterMoves
<1>10. ASSUME PruneInv PROVE PruneInv'
  <2>1. ASSUME NEW g \in Fires, Tracked(g), g # f
        PROVE  \/ row'[fires[g].of].last_op_id = g
               \/ row'[fires[g].of].life = "deleted"
    <3>1. \/ row[fires[g].of].last_op_id = g
          \/ row[fires[g].of].life = "deleted"
      BY <1>1, <1>10, <2>1 DEF PruneInv
    <3>2. fires[g].of \in Schedules
      BY <2>1, TrackedIsUsed DEF SchedInv, FireOK
    <3>3. w = "unstamped" => fires[g].of # s
      BY <1>1, <1>4, <1>10, <2>1 DEF PruneInv
    <3>4. row'[fires[g].of] = row[fires[g].of]
      BY <1>2, <1>4, <3>2, <3>3
    <3>5. QED
      BY <3>1, <3>4
  <2>2. QED
    BY <1>1, <1>2, <1>3, <1>10, <2>1, WaiterMovesTracks
<1>11. QED
  BY <1>9, <1>10

LEMMA WaiterStampsKeeps ==
  ASSUME NEW f \in Fires, SchedInv, WaiterStamps(f)
  PROVE  SchedInv' /\ (PruneInv => PruneInv')
<1> DEFINE s == fires[f].of
<1>1. PICK st \in {"success", "error"} :
        /\ st \in Outcomes(f)
        /\ record_run(s, f, "recorded", st, FALSE)
        /\ fires' = [fires EXCEPT ![f].waiter = st]
  BY DEF WaiterStamps, Outcomes
<1>2. /\ firing = NoFire /\ firing' = NoFire /\ fires[f].waiter = "waiting"
      /\ fires[f].task # "running"
      /\ displaced' = displaced \union Displaces(f)
      /\ UNCHANGED opsVars /\ since_fire' = since_fire /\ loop' = loop
      /\ run_nows' = run_nows /\ faults' = faults
  BY DEF WaiterStamps, WaiterReady
<1>3. /\ s \in Schedules /\ SchedTypeOK /\ faults \in Nat /\ fires \in [Fires -> Fire]
      /\ fires[f].todo = {} /\ row[s].life # "unborn"
  BY <1>2, SchedAssumption DEF SchedInv, SchedTypeOK, FireOK
<1>4. /\ st \in {"success", "error"} /\ st \in Waiter
      /\ st = "success" => /\ fires[f].task # "error"
                           /\ \A o \in fires[f].children : status[o] = "success"
  BY <1>1 DEF Outcomes, Earned, Waiter
<1>5. /\ row' \in [Schedules -> Row] /\ since_run' \in [Schedules -> 0..Horizon]
      /\ \A t \in Schedules : row'[t].life = row[t].life /\ since_run'[t] = since_run[t]
      /\ \A t \in Schedules : t # s => row'[t] = row[t]
      /\ row[s].life # "present" => row'[s] = row[s]
      /\ row[s].life = "present" => /\ row'[s].last_op_id = f
                                    /\ row'[s].last_duration = "recorded"
                                    /\ row'[s].last_status = st
  <2>1. f \in 1..ErrFire /\ st \in {"NULL", "success", "error"} /\ st # "NULL"
    BY <1>4, Ids
  <2>2. /\ row' \in [Schedules -> Row] /\ since_run' \in [Schedules -> 0..Horizon]
        /\ \A t \in Schedules : row'[t].life = row[t].life
        /\ \A t \in Schedules : t # s => row'[t] = row[t] /\ since_run'[t] = since_run[t]
        /\ row[s].life # "present" => row'[s] = row[s] /\ since_run'[s] = since_run[s]
        /\ row[s].life = "present" =>
             /\ row'[s].last_op_id = f
             /\ row'[s].last_duration = "recorded"
             /\ row'[s].last_status = st
             /\ since_run'[s] = since_run[s]
    <3>1. record_run(s, f, "recorded", st, FALSE) /\ s \in Schedules /\ SchedTypeOK
      BY <1>1, <1>3
    <3> HIDE DEF s
    <3>2. QED
      BY <2>1, <3>1, RecordRun
  <2>3. \A t \in Schedules : since_run'[t] = since_run[t]
    BY <2>2
  <2>4. QED
    BY <2>2, <2>3
<1>6. /\ fires' \in [Fires -> Fire] /\ fires'[f].waiter = st /\ fires'[f].of = s
      /\ \A g \in Fires : g # f => fires'[g] = fires[g]
  BY <1>1, <1>3, <1>4, WaiterSet
<1>7. SchedTypeOK'
  <2>1. displaced' \subseteq Fires
    <3>1. Displaces(f) \subseteq Fires
      BY <1>3, Ids DEF Displaces, SchedTypeOK, Row
    <3>2. QED
      BY <1>2, <1>3, <3>1 DEF SchedTypeOK
  <2>2. \A t \in Schedules : row'[t].last_op_id = NoFire =>
          row'[t].last_duration = "NULL" /\ row'[t].last_status = "NULL"
    BY <1>3, <1>5, Ids DEF SchedTypeOK
  <2>3. firing' \in 0..MaxFires
    BY <1>2, SchedAssumption DEF NoFire
  <2>4. QED
    BY <1>2, <1>3, <1>5, <1>6, <2>1, <2>2, <2>3 DEF SchedTypeOK
<1>8. ASSUME NEW t \in Schedules
      PROVE  /\ RowOK(t)'
             /\ since_run'[t] <= since_run[t] /\ row'[t].life = row[t].life
             /\ loop # "boot" /\ faults = 0 =>
                  (row'[t].last_op_id # NoFire /\ row'[t].last_duration = "NULL" =>
                     fires'[row'[t].last_op_id].waiter = "waiting")
  <2>1. since_run[t] \in Nat /\ since_run'[t] = since_run[t]
    BY <1>3, <1>5, SchedAssumption DEF SchedTypeOK
  <2>2. CASE t = s /\ row[s].life = "present"
    BY <1>2, <1>3, <1>4, <1>5, <1>6, <2>1, <2>2, Ids DEF RowOK
  <2>3. CASE t # s \/ row[s].life # "present"
    <3>1. row[t].last_op_id # f
      BY <2>3, Ids DEF SchedInv, RowOK
    <3>2. row'[t] = row[t] /\ st # "unstamped"
      BY <1>4, <1>5, <2>3
    <3>3. fires' = [fires EXCEPT ![f].waiter = st] /\ firing' = NoFire /\ st \in Waiter
      BY <1>1, <1>2, <1>4
    <3>4. RowOK(t)'
      BY <2>1, <3>1, <3>2, <3>3, RowElsewhere
    <3>5. row'[t].life = row[t].life
      BY <3>2
    <3>6. since_run'[t] <= since_run[t]
      BY <2>1
    <3>7. ASSUME loop # "boot", faults = 0, row'[t].last_op_id # NoFire,
                 row'[t].last_duration = "NULL"
          PROVE  fires'[row'[t].last_op_id].waiter = "waiting"
      <4>1. row[t].last_op_id \in Fires /\ fires[row[t].last_op_id].waiter = "waiting"
        BY <3>2, <3>7, Ids DEF SchedInv, NoGhostRows, SchedTypeOK, Row, RowOK
      <4>2. QED
        BY <1>6, <3>1, <3>2, <4>1
    <3>8. QED
      BY <3>4, <3>5, <3>6, <3>7
  <2>4. QED
    BY <2>2, <2>3
<1>9. NoGhostRows'
  BY <1>2, <1>8 DEF NoGhostRows
<1>10. SchedInv'
  <2>1. faults' >= faults /\ firing # f
    BY <1>2, <1>3, Ids
  <2>2. st \in {"waiting", "success", "error", "unstamped", "unrecorded"} /\ st # "waiting"
        /\ st \notin {"unstamped", "unrecorded"}
    BY <1>4
  <2>3. \A t \in Schedules : /\ row'[t].life = row[t].life
                             /\ since_run'[t] <= since_run[t]
                             /\ RowOK(t)'
    BY <1>8
  <2>4. QED
    BY <1>1, <1>2, <1>3, <1>4, <1>7, <1>9, <2>1, <2>2, <2>3, WaiterMoves
<1>11. ASSUME PruneInv PROVE PruneInv'
  <2>1. ASSUME NEW g \in Fires, Tracked(g), g \notin displaced'
        PROVE  \/ row'[fires[g].of].last_op_id = g
               \/ row'[fires[g].of].life = "deleted"
    <3>1. \/ row[fires[g].of].last_op_id = g
          \/ row[fires[g].of].life = "deleted"
      BY <1>2, <1>11, <2>1, Ids DEF PruneInv
    <3>2. fires[g].of \in Schedules
      BY <2>1, TrackedIsUsed DEF SchedInv, FireOK
    <3>3. CASE row[fires[g].of].life = "deleted"
      BY <1>5, <3>2, <3>3
    <3>4. CASE row[fires[g].of].last_op_id = g /\ fires[g].of = s
      <4>1. g = f \/ g \in Displaces(f)
        BY <3>4, Ids DEF Displaces
      <4>2. g = f /\ row[s].life = "present"
        BY <1>2, <1>3, <2>1, <3>4, <4>1, Ids DEF SchedInv, RowOK
      <4>3. QED
        BY <1>5, <4>2
    <3>5. CASE row[fires[g].of].last_op_id = g /\ fires[g].of # s
      BY <1>5, <3>2, <3>5
    <3>6. QED
      BY <3>1, <3>3, <3>4, <3>5
  <2>2. displaced \subseteq displaced' /\ st \in {"success", "error"}
    BY <1>2, <1>4
  <2>3. QED
    BY <1>1, <1>2, <1>11, <2>1, <2>2, WaiterMovesTracks
<1>12. QED
  BY <1>10, <1>11

LEMMA WaiterDiesKeeps ==
  ASSUME NEW f \in Fires, SchedInv, WaiterDies(f)
  PROVE  SchedInv' /\ (PruneInv => PruneInv')
<1>1. /\ firing = NoFire /\ firing' = NoFire /\ fires[f].waiter = "waiting"
      /\ faults' = faults + 1 /\ faults < MaxFaults
      /\ fires' = [fires EXCEPT ![f].waiter = "unstamped"]
      /\ row' = row /\ since_run' = since_run /\ displaced' = displaced
      /\ UNCHANGED opsVars /\ since_fire' = since_fire /\ loop' = loop
      /\ run_nows' = run_nows
  BY DEF WaiterDies, WaiterReady
<1>2. /\ SchedTypeOK /\ faults' \in 0..MaxFaults /\ faults' > 0 /\ faults' >= faults
      /\ fires \in [Fires -> Fire] /\ fires[f].todo = {} /\ firing # f
      /\ "unstamped" \in Waiter
  BY <1>1, SchedAssumption, Ids DEF SchedInv, SchedTypeOK, FireOK, Waiter
<1>3. fires' \in [Fires -> Fire]
  BY <1>1, <1>2, WaiterSet
<1>4. SchedTypeOK'
  BY <1>1, <1>2, <1>3 DEF SchedTypeOK
<1>5. ASSUME NEW t \in Schedules
      PROVE  RowOK(t)' /\ since_run'[t] <= since_run[t] /\ row'[t].life = row[t].life
  BY <1>1, <1>2, RowElsewhere
<1>6. NoGhostRows'
  BY <1>2 DEF NoGhostRows
<1>7. SchedInv'
  BY <1>1, <1>2, <1>4, <1>5, <1>6, WaiterMoves
<1>8. ASSUME PruneInv PROVE PruneInv'
  <2>1. ASSUME NEW g \in Fires, Tracked(g)
        PROVE  \/ row'[fires[g].of].last_op_id = g
               \/ row'[fires[g].of].life = "deleted"
    BY <1>1, <1>8, <2>1, Ids DEF PruneInv
  <2>2. QED
    BY <1>1, <1>8, <2>1, WaiterMovesTracks
<1>9. QED
  BY <1>7, <1>8

LEMMA TaskEndsKeeps ==
  ASSUME NEW f \in Fires, NEW st \in {"success", "error"}, SchedInv, TaskEnds(f, st)
  PROVE  SchedInv' /\ (PruneInv => PruneInv')
<1> DEFINE b == [fires[f] EXCEPT !.task = st]
<1>1. /\ firing = NoFire /\ fires[f].task = "running"
      /\ row' = row /\ since_run' = since_run /\ since_fire' = since_fire /\ firing' = firing
      /\ loop' = loop /\ run_nows' = run_nows /\ faults' = faults /\ displaced' = displaced
      /\ UNCHANGED opsVars /\ status' = status /\ pc' = pc /\ ops' = ops
  BY DEF TaskEnds, opsVars
<1>2. fires \in [Fires -> Fire] /\ fires[f] \in Fire
  BY DEF SchedInv, SchedTypeOK
<1>3. /\ b \in Fire /\ b.of = fires[f].of /\ b.kind = fires[f].kind /\ b.by = fires[f].by
      /\ b.todo = fires[f].todo /\ b.children = fires[f].children
      /\ b.waiter = fires[f].waiter
  BY <1>2 DEF Fire
<1>4. fires' = [fires EXCEPT ![f] = b]
  BY DEF TaskEnds
<1> HIDE DEF b
<1>5. fires' \in [Fires -> Fire] /\ fires'[f] = b /\ \A g \in Fires : g # f => fires'[g] = fires[g]
  BY <1>2, <1>3, <1>4
<1>6. \A g \in Fires : /\ fires'[g].of = fires[g].of /\ fires'[g].kind = fires[g].kind
                       /\ fires'[g].by = fires[g].by /\ fires'[g].todo = fires[g].todo
                       /\ fires'[g].children = fires[g].children
                       /\ fires'[g].waiter = fires[g].waiter
  BY <1>3, <1>5
<1>7. fires[f].waiter \notin {"unused", "success"} /\ fires[f].kind = "gather_refresh"
  <2>1. FireOK(f) /\ FireEnd(f)
    BY DEF SchedInv
  <2>2. fires[f].waiter # "unused"
    BY <1>1, <2>1 DEF FireOK, Unused
  <2>3. fires[f].waiter # "success"
    BY <1>1, <2>1 DEF FireEnd
  <2>4. fires[f].kind = "gather_refresh"
    BY <1>1, <2>1 DEF FireOK
  <2>5. QED
    BY <2>2, <2>3, <2>4
<1>8. OpsInv'
  BY <1>1, OpsStepInv DEF SchedInv
<1>9. SchedTypeOK'
  BY <1>1, <1>5 DEF SchedInv, SchedTypeOK
<1>10. ASSUME NEW g \in Fires PROVE FireOK(g)' /\ FireEnd(g)' /\ FireAge(g)' /\ (Prunes(g)' <=> Prunes(g))
  <2>1. FireOK(g) /\ FireEnd(g) /\ FireAge(g)
    BY DEF SchedInv
  <2>2. Prunes(g)' <=> Prunes(g)
    BY <1>1, <1>6 DEF Prunes
  <2>3. FireAge(g)'
    BY <1>1, <1>6, <2>1 DEF FireAge
  <2>4. CASE g = f
    <3>1. FireOK(f)'
      BY <1>1, <1>6, <1>7, <2>1, <2>4 DEF FireOK
    <3>2. FireEnd(f)'
      BY <1>6, <1>7, <2>1, <2>2, <2>4 DEF FireEnd
    <3>3. QED
      BY <2>2, <2>3, <2>4, <3>1, <3>2
  <2>5. CASE g # f
    <3>1. fires'[g] = fires[g]
      BY <1>5, <2>5
    <3>2. FireOK(g)'
      BY <1>1, <1>6, <2>1, <3>1 DEF FireOK
    <3>3. FireEnd(g)'
      BY <1>1, <2>1, <2>2, <3>1 DEF FireEnd
    <3>4. QED
      BY <2>2, <2>3, <3>2, <3>3
  <2>6. QED
    BY <2>4, <2>5
<1>11. ASSUME NEW t \in Schedules PROVE RowOK(t)'
  <2>1. RowOK(t)
    BY DEF SchedInv
  <2>2. QED
    BY <1>1, <1>6, <2>1 DEF RowOK
<1>12. AtBoot'
  BY <1>1, <1>6 DEF SchedInv, AtBoot
<1>13. NoGhostRows'
  <2>1. \A t \in Schedules : row[t].last_op_id # NoFire /\ row[t].last_duration = "NULL" =>
                               row[t].last_op_id \in Fires
    BY Ids DEF SchedInv, RowOK, SchedTypeOK, Row
  <2>2. QED
    BY <1>1, <1>6, <2>1 DEF SchedInv, NoGhostRows
<1>14. TickFiresSpaced'
  BY <1>1, <1>6 DEF SchedInv, TickFiresSpaced
<1>15. SchedInv'
  BY <1>8, <1>9, <1>10, <1>11, <1>12, <1>13, <1>14 DEF SchedInv
<1>16. ASSUME PruneInv PROVE PruneInv'
  <2>1. \A g \in Fires : Tracked(g)' => Tracked(g)
    BY <1>1, <1>6, <1>10 DEF Tracked
  <2>2. PruneNodeRunsDoNotOverlap'
    BY <1>1, <1>6, <1>10, <1>16 DEF PruneInv, PruneNodeRunsDoNotOverlap
  <2>3. \A g \in Fires : firing # g
    BY <1>1, Ids
  <2>4. QED
    BY <1>1, <1>6, <1>16, <2>1, <2>2, <2>3 DEF PruneInv
<1>17. QED
  BY <1>15, <1>16-------------------------------------------------------------------------------
(* The clock and the process.                                              *)

LEMMA AdvanceKeeps ==
  ASSUME SchedInv, Advance
  PROVE  SchedInv' /\ (PruneInv => PruneInv')
<1>1. /\ firing = NoFire /\ loop # "boot" /\ loop' = "ticking"
      /\ row' = row /\ fires' = fires /\ firing' = firing
      /\ run_nows' = run_nows /\ faults' = faults /\ displaced' = displaced
      /\ UNCHANGED opsVars /\ status' = status /\ pc' = pc /\ ops' = ops
  BY DEF Advance, opsVars
<1>2. /\ SchedTypeOK /\ 0 \in 0..Horizon
      /\ \A f \in Fires : since_fire[f] \in 0..Horizon /\ since_fire[f] \in Nat
      /\ \A s \in Schedules : since_run[s] \in 0..Horizon /\ since_run[s] \in Nat
  BY SchedAssumption DEF SchedInv, SchedTypeOK
<1>3. /\ since_run' = [s \in Schedules |->
                         IF row[s].life = "present" THEN Older(since_run[s]) ELSE 0]
      /\ since_fire' = [f \in Fires |->
                          IF fires[f].waiter = "unused" THEN 0 ELSE Older(since_fire[f])]
  BY DEF Advance
<1>4. ASSUME NEW s \in Schedules
      PROVE  /\ since_run'[s] = IF row[s].life = "present" THEN Older(since_run[s]) ELSE 0
             /\ since_run'[s] \in 0..Horizon
  <2>1. Older(since_run[s]) \in 0..Horizon
    BY <1>2, OlderFacts
  <2>2. QED
    BY <1>2, <1>3, <2>1
<1>5. ASSUME NEW f \in Fires
      PROVE  /\ since_fire'[f] = IF fires[f].waiter = "unused" THEN 0 ELSE Older(since_fire[f])
             /\ since_fire'[f] \in 0..Horizon
             /\ since_fire[f] <= since_fire'[f] /\ since_fire'[f] <= since_fire[f] + 1
  <2>1. /\ Older(since_fire[f]) \in 0..Horizon
        /\ since_fire[f] <= Older(since_fire[f]) /\ Older(since_fire[f]) <= since_fire[f] + 1
    BY <1>2, OlderFacts
  <2>2. fires[f].waiter = "unused" => since_fire[f] = 0
    BY DEF SchedInv, FireOK
  <2>3. QED
    BY <1>2, <1>3, <2>1, <2>2
<1>6. SchedTypeOK'
  <2>1. since_run' \in [Schedules -> 0..Horizon]
    BY <1>3, <1>4
  <2>2. since_fire' \in [Fires -> 0..Horizon]
    BY <1>3, <1>5
  <2>3. QED
    BY <1>1, <1>2, <2>1, <2>2 DEF SchedTypeOK
<1>7. OpsInv'
  BY <1>1, OpsStepInv DEF SchedInv
<1>8. ASSUME NEW f \in Fires PROVE FireOK(f)' /\ FireEnd(f)' /\ FireAge(f)'
  <2>1. FireOK(f) /\ FireEnd(f) /\ FireAge(f)
    BY DEF SchedInv
  <2>2. fires[f].waiter # "launching"
    BY <1>1, <2>1, Ids DEF FireOK
  <2>3. FireOK(f)'
    BY <1>1, <1>5, <2>1, <2>2 DEF FireOK
  <2>4. FireEnd(f)'
    BY <1>1, <2>1 DEF FireEnd, Prunes
  <2>5. ASSUME fires[f].waiter \notin {"unused", "launching", "crashed", "unrecorded"}
        PROVE  since_run'[fires[f].of] <= since_fire'[f]
    <3>1. fires[f].of \in Schedules /\ since_run[fires[f].of] <= since_fire[f]
      BY <2>1, <2>5 DEF FireOK, FireAge
    <3>2. CASE row[fires[f].of].life = "present"
      <4>1. Older(since_run[fires[f].of]) <= Older(since_fire[f])
        BY <1>2, <3>1, OlderFacts
      <4>2. QED
        BY <1>4, <1>5, <2>5, <3>1, <3>2, <4>1
    <3>3. CASE row[fires[f].of].life # "present"
      <4>1. since_run'[fires[f].of] = 0 /\ since_fire'[f] \in Nat
        BY <1>4, <1>5, <3>1, <3>3, SchedAssumption
      <4>2. QED
        BY <4>1
    <3>4. QED
      BY <3>2, <3>3
  <2>6. ASSUME fires[f].waiter = "waiting", fires[f].kind # "gather_refresh"
        PROVE  since_fire'[f] <= WaiterTimeout
    <3>1. fires[f].task = "none" /\ ~WaiterReady(f)
      BY <2>1, <2>6 DEF FireOK, Advance
    <3>2. ~(since_fire[f] >= WaiterTimeout)
      BY <2>6, <3>1 DEF WaiterReady
    <3>3. since_fire[f] \in Nat /\ since_fire'[f] \in Nat /\ WaiterTimeout \in Nat
      BY <1>2, <1>5, SchedAssumption
    <3>4. QED
      BY <1>5, <3>2, <3>3
  <2>7. FireAge(f)'
    BY <1>1, <2>2, <2>5, <2>6 DEF FireAge
  <2>8. QED
    BY <2>3, <2>4, <2>7
<1>9. ASSUME NEW s \in Schedules PROVE RowOK(s)'
  <2>1. RowOK(s)
    BY DEF SchedInv
  <2>2. row[s].life = "unborn" => since_run'[s] = 0
    BY <1>4
  <2>3. QED
    BY <1>1, <2>1, <2>2 DEF RowOK
<1>10. AtBoot' /\ NoGhostRows'
  BY <1>1 DEF SchedInv, AtBoot, NoGhostRows
<1>11. TickFiresSpaced'
  <2>1. \A f \in Fires : since_fire[f] >= Interval => since_fire'[f] >= Interval
    <3>1. ASSUME NEW f \in Fires, since_fire[f] >= Interval PROVE since_fire'[f] >= Interval
      <4>1. /\ Interval \in Nat /\ since_fire[f] \in Nat /\ since_fire'[f] \in Nat
            /\ since_fire[f] <= since_fire'[f]
        BY <1>2, <1>5, SchedAssumption
      <4>2. QED
        BY <3>1, <4>1
    <3>2. QED
      BY <3>1
  <2>2. QED
    BY <1>1, <2>1 DEF SchedInv, TickFiresSpaced
<1>12. SchedInv'
  BY <1>6, <1>7, <1>8, <1>9, <1>10, <1>11 DEF SchedInv
<1>13. PruneInv => PruneInv'
  BY <1>1 DEF PruneInv, Tracked, Prunes, PruneNodeRunsDoNotOverlap
<1>14. QED
  BY <1>12, <1>13

\* No operation survives the process, so a restart leaves no run under way.
LEMMA ProcessRestartKeeps ==
  ASSUME SchedInv, ProcessRestart
  PROVE  SchedInv' /\ (PruneInv => PruneInv')
<1>0. fires' = [f \in Fires |->
        [fires[f] EXCEPT !.waiter = CASE @ = "launching" -> "crashed"
                                      [] @ = "waiting" -> "lost"
                                      [] OTHER -> @,
                         !.task = IF @ = "running" THEN "error" ELSE @,
                         !.todo = {}]]
  BY DEF ProcessRestart
<1>1. /\ Restart /\ loop' = "boot" /\ firing' = NoFire /\ row' = row /\ since_run' = since_run
      /\ since_fire' = since_fire /\ run_nows' = run_nows /\ faults' = faults
      /\ displaced' = displaced
  BY DEF ProcessRestart
<1>2. OpsInv' /\ Onward
  <2>1. [OpsNext]_opsVars /\ OpsInv
    BY <1>1 DEF OpsNext, SchedInv
  <2>2. QED
    BY <2>1, OpsStepInv, OpsOnward
<1>3. ops' = {} /\ \A i \in OpIds : status'[i] # "running"
  BY <1>1 DEF Restart, SchedInv, OpsInv, OpsTypeOK, HandlerShape
<1>4. ASSUME NEW f \in Fires
      PROVE  /\ fires'[f] \in Fire
             /\ fires'[f].of = fires[f].of /\ fires'[f].kind = fires[f].kind
             /\ fires'[f].by = fires[f].by /\ fires'[f].children = fires[f].children
             /\ fires'[f].todo = {}
             /\ fires'[f].task = IF fires[f].task = "running" THEN "error" ELSE fires[f].task
             /\ fires'[f].waiter = CASE fires[f].waiter = "launching" -> "crashed"
                                     [] fires[f].waiter = "waiting" -> "lost"
                                     [] OTHER -> fires[f].waiter
             /\ fires[f] = Unused => fires'[f] = Unused
  <2>1. fires[f] \in Fire
    BY DEF SchedInv, SchedTypeOK
  <2>2. DEFINE w == CASE fires[f].waiter = "launching" -> "crashed"
                      [] fires[f].waiter = "waiting" -> "lost"
                      [] OTHER -> fires[f].waiter
               k == IF fires[f].task = "running" THEN "error" ELSE fires[f].task
  <2>3. fires'[f] = [fires[f] EXCEPT !.waiter = w, !.task = k, !.todo = {}]
    BY <1>0, <2>1
  <2>4. w \in Waiter /\ k \in {"none", "running", "success", "error"}
    BY <2>1 DEF Fire, Waiter
  <2>5. fires[f] = Unused => w = "unused" /\ k = "none" /\ fires[f].todo = {}
    BY DEF Unused
  <2> HIDE DEF w, k
  <2>6. /\ fires'[f] \in Fire
        /\ fires'[f].of = fires[f].of /\ fires'[f].kind = fires[f].kind
        /\ fires'[f].by = fires[f].by /\ fires'[f].children = fires[f].children
        /\ fires'[f].todo = {} /\ fires'[f].task = k /\ fires'[f].waiter = w
    BY <2>1, <2>3, <2>4 DEF Fire, Waiter
  <2>7. ASSUME fires[f] = Unused PROVE fires'[f] = Unused
    <3>1. fires'[f] = [Unused EXCEPT !.waiter = "unused", !.task = "none", !.todo = {}]
      BY <2>3, <2>5, <2>7
    <3>2. QED
      BY <3>1 DEF Unused
  <2>8. QED
    BY <2>6, <2>7 DEF w, k
<1>5. ASSUME NEW f \in Fires
      PROVE  /\ fires'[f].waiter \notin {"launching", "waiting"}
             /\ \A w \in {"unused", "success", "error", "unstamped", "unrecorded"} :
                  fires'[f].waiter = w <=> fires[f].waiter = w
             /\ fires'[f].waiter = "lost" => fires[f].waiter \in {"waiting", "lost"}
             /\ fires'[f].waiter = "crashed" <=> fires[f].waiter \in {"launching", "crashed"}
             /\ fires[f].waiter = "waiting" => fires'[f].waiter = "lost"
             /\ fires[f].waiter = "lost" => fires'[f].waiter = "lost"
  BY <1>4
<1>6. SchedTypeOK'
  <2>1. fires' \in [Fires -> Fire]
    BY <1>0, <1>4
  <2>2. firing' \in 0..MaxFires
    BY <1>1, SchedAssumption DEF NoFire
  <2>3. QED
    BY <1>1, <2>1, <2>2 DEF SchedInv, SchedTypeOK
<1>7. ASSUME NEW f \in Fires PROVE ~Prunes(f)'
  <2>1. fires'[f].children \subseteq OpIds
    BY <1>4 DEF Fire
  <2>2. QED
    BY <1>3, <2>1 DEF Prunes
<1>8. ASSUME NEW f \in Fires PROVE FireOK(f)' /\ FireEnd(f)' /\ FireAge(f)'
  <2>1. FireOK(f) /\ FireEnd(f) /\ FireAge(f) /\ SchedTypeOK
    BY DEF SchedInv
  <2>2. /\ \A o \in fires'[f].children : pc'[o] # "none"
        /\ (\A o \in fires[f].children : status[o] = "success") =>
             \A o \in fires'[f].children : status'[o] = "success"
    BY <1>2, <1>4, <2>1, ChildrenOnward
  <2>3. FireOK(f)'
    <3>1. fires'[f].waiter = "unused" => fires'[f] = Unused /\ since_fire'[f] = 0
      BY <1>1, <1>4, <1>5, <2>1 DEF FireOK
    <3>2. fires'[f].waiter # "launching" /\ firing' # f /\ fires'[f].todo = {}
      BY <1>1, <1>4, <1>5, Ids
    <3>3. fires'[f].waiter # "unused" =>
            /\ fires'[f].of \in Schedules /\ row'[fires'[f].of].life # "unborn"
            /\ fires'[f].by # "none"
      BY <1>1, <1>4, <1>5, <2>1 DEF FireOK
    <3>4. fires'[f].kind # "gather_refresh" => fires'[f].task = "none"
      BY <1>4, <2>1 DEF FireOK
    <3>5. fires'[f].waiter \in {"unstamped", "unrecorded"} => faults' > 0
      BY <1>1, <1>5, <2>1 DEF FireOK
    <3>6. \A g \in Fires : f < g /\ fires'[f].waiter \in {"unused", "launching"} =>
            fires'[g].waiter = "unused"
      BY <1>5, <2>1 DEF FireOK
    <3>7. QED
      BY <2>2, <3>1, <3>2, <3>3, <3>4, <3>5, <3>6 DEF FireOK
  <2>4. FireEnd(f)'
    <3>1. fires'[f].waiter = "success" =>
            fires'[f].task # "error" /\ fires'[f].task # "running"
            /\ \A o \in fires'[f].children : status'[o] = "success"
      BY <1>4, <1>5, <2>1, <2>2 DEF FireEnd
    <3>2. QED
      BY <1>7, <3>1 DEF FireEnd
  <2>5. FireAge(f)'
    <3>1. fires'[f].waiter \notin {"unused", "launching", "crashed", "unrecorded"} =>
            fires[f].waiter \notin {"unused", "launching", "crashed", "unrecorded"}
      BY <1>5
    <3>2. QED
      BY <1>1, <1>4, <1>5, <2>1, <3>1 DEF FireAge
  <2>6. QED
    BY <2>3, <2>4, <2>5
<1>9. ASSUME NEW s \in Schedules PROVE RowOK(s)'
  <2>1. RowOK(s)
    BY DEF SchedInv
  <2>2. QED
    BY <1>1, <1>4, <1>5, <2>1 DEF RowOK
<1>10. AtBoot' /\ NoGhostRows'
  BY <1>1, <1>3, <1>5 DEF AtBoot, NoGhostRows
<1>11. TickFiresSpaced'
  BY <1>1, <1>4, <1>5 DEF SchedInv, TickFiresSpaced
<1>12. SchedInv'
  BY <1>2, <1>6, <1>8, <1>9, <1>10, <1>11 DEF SchedInv
<1>13. PruneInv'
  BY <1>7 DEF PruneInv, Tracked, PruneNodeRunsDoNotOverlap
<1>14. QED
  BY <1>12, <1>13-------------------------------------------------------------------------------
(* The scheduler as a whole.                                               *)

\* What a step of the scheduler is to the registry: a step of its own, or the
\* start of an operation for a fire.
LEMMA SchedStepOps ==
  ASSUME [SchedNext]_schedVars
  PROVE  \/ [OpsNext]_opsVars
         \/ \E i \in OpIds, n \in Nodes : Start(i, "prune_node", n)
<1>1. ASSUME NEW i \in OpIds, NEW n \in Nodes, Launch(i, n) PROVE Start(i, "prune_node", n)
  BY <1>1 DEF Launch, Start
<1>2. ASSUME NEW i \in OpIds, OperatorStep(i) \/ Handle(i) PROVE OpsNext
  BY <1>2 DEF OperatorStep, Handle, OpsStep, OpsNext
<1>3. ASSUME NEW s \in Schedules, TickFires(s) \/ RunNow(s) PROVE UNCHANGED opsVars
  BY <1>3 DEF TickFires, RunNow, Begin
<1>4. ASSUME NEW s \in Schedules, NEW k, NEW e, Create(s, k) \/ Edit(s, k, e) \/ Delete(s) \/ TickRefused(s)
      PROVE  UNCHANGED opsVars
  BY <1>4 DEF Create, Edit, Delete, TickRefused
<1>5. ASSUME NEW f \in Fires, NEW st, TaskEnds(f, st) \/ WaiterStamps(f) \/ WaiterDies(f)
      PROVE  UNCHANGED opsVars
  BY <1>5 DEF TaskEnds, WaiterStamps, WaiterDies
<1>6. ASSUME Fired \/ FireFails \/ Sweep \/ SweepFails \/ Advance PROVE UNCHANGED opsVars
  BY <1>6 DEF Fired, FireFails, Sweep, SweepFails, Advance
<1>7. ProcessRestart => OpsNext
  BY DEF ProcessRestart, OpsNext
<1>8. UNCHANGED schedVars => UNCHANGED opsVars
  BY DEF schedVars
<1>9. QED
  BY <1>1, <1>2, <1>3, <1>4, <1>5, <1>6, <1>7, <1>8 DEF SchedNext, LaunchAny

LEMMA SchedStarts ==
  ASSUME SchedInit
  PROVE  SchedInv /\ PruneInv
<1> USE DEF SchedInit
<1>1. OpsInv
  BY OpsInitInv
<1>2. Unborn \in Row /\ Unused \in Fire
  BY Ids DEF Unborn, Unused, Row, Fire
<1>3. 0 \in 0..Horizon /\ NoFire \in 0..MaxFires /\ 0 \in 0..MaxRunNows /\ 0 \in 0..MaxFaults
  BY SchedAssumption DEF NoFire
<1>4. SchedTypeOK
  BY <1>2, <1>3 DEF SchedTypeOK, Unborn
<1>5. \A f \in Fires : /\ fires[f].waiter = "unused" /\ fires[f].task = "none"
                       /\ fires[f].todo = {} /\ fires[f].children = {} /\ fires[f].by = "none"
                       /\ fires[f] = Unused /\ fires[f].of = NoSchedule
                       /\ since_fire[f] = 0 /\ firing # f
  BY Ids DEF Unused
<1>6. ASSUME NEW f \in Fires PROVE FireOK(f) /\ FireEnd(f) /\ FireAge(f)
  BY <1>5 DEF FireOK, FireEnd, FireAge
<1>7. \A s \in Schedules : RowOK(s) /\ row[s].last_op_id = NoFire
  BY Ids DEF RowOK, Unborn
<1>8. AtBoot /\ NoGhostRows /\ TickFiresSpaced
  BY <1>5 DEF AtBoot, NoGhostRows, TickFiresSpaced
<1>9. SchedInv
  BY <1>1, <1>4, <1>6, <1>7, <1>8 DEF SchedInv
<1>10. PruneInv
  BY <1>5 DEF PruneInv, Tracked, Prunes, PruneNodeRunsDoNotOverlap
<1>11. QED
  BY <1>9, <1>10

LEMMA SchedStepKeeps ==
  ASSUME SchedInv, [SchedNext]_schedVars
  PROVE  SchedInv' /\ (PruneInv /\ WaiterTimeout < StuckAfter => PruneInv')
<1>1. ASSUME NEW s \in Schedules, NEW k \in Kinds, Create(s, k)
      PROVE  SchedInv' /\ (PruneInv => PruneInv')
  BY <1>1, CreateKeeps
<1>2. ASSUME NEW s \in Schedules, NEW k \in Kinds, NEW e \in BOOLEAN, Edit(s, k, e)
      PROVE  SchedInv' /\ (PruneInv => PruneInv')
  BY <1>2, EditKeeps
<1>3. ASSUME NEW s \in Schedules, Delete(s) PROVE SchedInv' /\ (PruneInv => PruneInv')
  BY <1>3, DeleteKeeps
<1>4. ASSUME NEW s \in Schedules, TickFires(s)
      PROVE  SchedInv' /\ (PruneInv /\ WaiterTimeout < StuckAfter => PruneInv')
  BY <1>4, TickFiresKeeps
<1>5. ASSUME NEW s \in Schedules, TickRefused(s)
      PROVE  SchedInv' /\ (PruneInv /\ WaiterTimeout < StuckAfter => PruneInv')
  BY <1>5, TickRefusedKeeps
<1>6. ASSUME NEW s \in Schedules, RunNow(s) PROVE SchedInv' /\ (PruneInv => PruneInv')
  BY <1>6, RunNowKeeps
<1>7. ASSUME NEW i \in OpIds, NEW n \in Nodes, Launch(i, n)
      PROVE  SchedInv' /\ (PruneInv => PruneInv')
  BY <1>7, LaunchKeeps
<1>8. ASSUME Fired \/ FireFails PROVE SchedInv' /\ (PruneInv => PruneInv')
  BY <1>8, FiredKeeps, FireFailsKeeps
<1>9. ASSUME NEW f \in Fires, NEW st \in {"success", "error"}, TaskEnds(f, st)
      PROVE  SchedInv' /\ (PruneInv => PruneInv')
  BY <1>9, TaskEndsKeeps
<1>10. ASSUME NEW f \in Fires, WaiterStamps(f) \/ WaiterDies(f)
       PROVE  SchedInv' /\ (PruneInv => PruneInv')
  BY <1>10, WaiterStampsKeeps, WaiterDiesKeeps
<1>11. ASSUME Sweep \/ SweepFails PROVE SchedInv' /\ (PruneInv => PruneInv')
  BY <1>11, SweepKeeps, SweepFailsKeeps
<1>12. ASSUME Advance \/ ProcessRestart PROVE SchedInv' /\ (PruneInv => PruneInv')
  BY <1>12, AdvanceKeeps, ProcessRestartKeeps
<1>13. ASSUME NEW i \in OpIds, OperatorStep(i) \/ Handle(i)
       PROVE  SchedInv' /\ (PruneInv => PruneInv')
  <2>1. OpsNext /\ UNCHANGED schedOnlyVars /\ OpsInv
    BY <1>13 DEF OperatorStep, Handle, OpsStep, OpsNext, SchedInv
  <2>2. OpsInv' /\ Onward
    BY <2>1, OpsStepInv, OpsOnward
  <2>3. QED
    BY <2>1, <2>2, OpsKeeps
<1>14. ASSUME UNCHANGED schedVars PROVE SchedInv' /\ (PruneInv => PruneInv')
  <2>1. UNCHANGED opsVars /\ UNCHANGED schedOnlyVars /\ OpsInv
    BY <1>14 DEF schedVars, SchedInv
  <2>2. OpsInv' /\ Onward
    BY <2>1, OpsStepInv, OpsOnward
  <2>3. QED
    BY <2>1, <2>2, OpsKeeps
<1>15. QED
  BY <1>1, <1>2, <1>3, <1>4, <1>5, <1>6, <1>7, <1>8, <1>9, <1>10, <1>11, <1>12, <1>13, <1>14
     DEF SchedNext, LaunchAny

\* The invariant holds in every state of every instance.
THEOREM SchedInvariance == SchedSpec => []SchedInv
<1>1. SchedInit => SchedInv
  BY SchedStarts
<1>2. SchedInv /\ [SchedNext]_schedVars => SchedInv'
  BY SchedStepKeeps
<1>3. QED
  BY <1>1, <1>2, PTL DEF SchedSpec

\* A row shows an outcome only once it has run, and every variable has its type.
THEOREM SchedTypeCorrect == SchedSpec => []SchedTypeOK
<1>1. SchedInv => SchedTypeOK
  BY DEF SchedInv
<1>2. QED
  BY <1>1, SchedInvariance, PTL

\* When a row shows a fire whose waiter stamped an outcome, it shows that one,
\* and "success" only if every operation of the fire succeeded.
THEOREM SchedRowTellsTheOutcome == SchedSpec => []RowTellsTheOutcome
<1>1. ASSUME SchedInv, NEW s \in Schedules, row[s].last_op_id \in Fires,
             fires[row[s].last_op_id].waiter \in {"success", "error"}
      PROVE  /\ row[s].last_status = fires[row[s].last_op_id].waiter
             /\ row[s].last_status = "success" =>
                  /\ fires[row[s].last_op_id].task # "error"
                  /\ \A o \in fires[row[s].last_op_id].children : status[o] = "success"
  <2>1. row[s].last_status = fires[row[s].last_op_id].waiter
    BY <1>1 DEF SchedInv, RowOK
  <2>2. FireEnd(row[s].last_op_id)
    BY <1>1 DEF SchedInv
  <2>3. QED
    BY <2>1, <2>2 DEF FireEnd
<1>2. SchedInv => RowTellsTheOutcome
  BY <1>1 DEF RowTellsTheOutcome
<1>3. QED
  BY <1>2, SchedInvariance, PTL

\* Once the sweep at boot has run, and while the database answers, a row without
\* an outcome has a waiter that will write it.
THEOREM SchedNoGhostRows == SchedSpec => []NoGhostRows
<1>1. SchedInv => NoGhostRows
  BY DEF SchedInv
<1>2. QED
  BY <1>1, SchedInvariance, PTL

\* Ticks fire a schedule at most once per interval.
THEOREM SchedTickFiresSpaced == SchedSpec => []TickFiresSpaced
<1>1. SchedInv => TickFiresSpaced
  BY DEF SchedInv
<1>2. QED
  BY <1>1, SchedInvariance, PTL

\* With a waiter that gives up before a run counts as stuck, as the defaults of
\* schedules.py have it (30 minutes, one hour), no tick starts a prune_node run
\* of a schedule whose row names one that is under way.
THEOREM SchedPruneNodeRunsDoNotOverlap ==
  ASSUME WaiterTimeout < StuckAfter
  PROVE  SchedSpec => []PruneNodeRunsDoNotOverlap
<1>1. SchedInit => SchedInv /\ PruneInv
  BY SchedStarts
<1>2. SchedInv /\ PruneInv /\ [SchedNext]_schedVars => (SchedInv /\ PruneInv)'
  BY SchedStepKeeps
<1>3. SchedInv /\ PruneInv => PruneNodeRunsDoNotOverlap
  BY DEF PruneInv
<1>4. QED
  BY <1>1, <1>2, <1>3, PTL DEF SchedSpec

\* What moves a row's last_run_at: a fire, or the tick's error stamp.
LEMMA LastRunStep ==
  ASSUME SchedInv, [SchedNext]_schedVars, NEW s \in Schedules, since_run'[s] < since_run[s]
  PROVE  \/ row'[s].life # "present"
         \/ firing # NoFire /\ firing' = NoFire /\ fires[firing].of = s
         \/ row'[s].last_op_id = ErrFire /\ UNCHANGED fires
<1> DEFINE Moved == \/ row'[s].life # "present"
                    \/ firing # NoFire /\ firing' = NoFire /\ fires[firing].of = s
                    \/ row'[s].last_op_id = ErrFire /\ UNCHANGED fires
<1>1. /\ SchedTypeOK /\ since_run \in [Schedules -> 0..Horizon]
      /\ since_run[s] \in 0..Horizon /\ since_run[s] \in Nat
  BY SchedAssumption DEF SchedInv, SchedTypeOK
<1>2. since_run'[s] # since_run[s] /\ since_run' # since_run
  BY <1>1
<1>3. ASSUME NEW t \in Schedules, NEW k \in Kinds, Create(t, k) PROVE FALSE
  <2>1. since_run' = [since_run EXCEPT ![t] = 0] /\ row[t].life = "unborn"
    BY <1>3 DEF Create
  <2>2. since_run[t] = 0
    BY <2>1 DEF SchedInv, RowOK
  <2>3. QED
    BY <1>1, <1>2, <2>1, <2>2
<1>4. ASSUME NEW t \in Schedules, TickRefused(t) PROVE Moved
  <2>1. /\ record_run(t, ErrFire, "recorded", "error", TRUE)
        /\ row[t].life = "present" /\ fires' = fires
    BY <1>4 DEF TickRefused, Due
  <2>2. ErrFire \in 1..ErrFire
    BY Ids
  <2>3. /\ \A u \in Schedules : u # t => since_run'[u] = since_run[u]
        /\ row'[t].last_op_id = ErrFire
    BY <1>1, <2>1, <2>2, RecordRun
  <2>4. s = t
    BY <1>2, <2>3
  <2>5. QED
    BY <2>1, <2>3, <2>4
<1>5. ASSUME Fired \/ FireFails PROVE Moved
  <2>1. firing # NoFire /\ firing' = NoFire
    BY <1>5 DEF Fired, FireFails
  <2>2. fires[firing].of = s
    BY <1>1, <1>2, <1>5 DEF Fired, FireFails, record_run
  <2>3. QED
    BY <2>1, <2>2
<1>6. ASSUME NEW f \in Fires, WaiterStamps(f) PROVE FALSE
  BY <1>2, <1>6 DEF WaiterStamps, record_run
<1>7. ASSUME Advance PROVE Moved
  <2>1. since_run'[s] = IF row[s].life = "present" THEN Older(since_run[s]) ELSE 0
    BY <1>7 DEF Advance
  <2>2. row' = row
    BY <1>7 DEF Advance
  <2>3. since_run[s] <= Older(since_run[s]) /\ Older(since_run[s]) \in 0..Horizon
    BY <1>1, OlderFacts
  <2>4. row[s].life # "present"
    BY <1>1, <2>1, <2>3, SchedAssumption
  <2>5. QED
    BY <2>2, <2>4
<1>8. ASSUME NEW f \in Fires, NEW st, TaskEnds(f, st) \/ WaiterDies(f) PROVE FALSE
  BY <1>2, <1>8 DEF TaskEnds, WaiterDies
<1>9. ASSUME Sweep \/ SweepFails \/ ProcessRestart \/ UNCHANGED schedVars PROVE FALSE
  BY <1>2, <1>9 DEF Sweep, SweepFails, ProcessRestart, schedVars, schedOnlyVars
<1>10. ASSUME NEW i \in OpIds, NEW n, Launch(i, n) \/ OperatorStep(i) \/ Handle(i) PROVE FALSE
  BY <1>2, <1>10 DEF Launch, OperatorStep, Handle, OpsStep, schedOnlyVars
<1>11. ASSUME NEW t \in Schedules, NEW k \in Kinds, NEW e \in BOOLEAN, Edit(t, k, e) PROVE FALSE
  BY <1>2, <1>11 DEF Edit
<1>12. ASSUME NEW t \in Schedules, Delete(t) \/ TickFires(t) \/ RunNow(t) PROVE FALSE
  BY <1>2, <1>12 DEF Delete, TickFires, RunNow, Begin
<1>13. QED
  BY <1>3, <1>4, <1>5, <1>6, <1>7, <1>8, <1>9, <1>10, <1>11, <1>12 DEF SchedNext, LaunchAny

\* Neither a waiter nor the sweep at boot moves a row's last_run_at: only a fire
\* does, or the tick that stamps the error of a fire it could not begin.
THEOREM SchedLastRunIsFireMoment == SchedSpec => LastRunIsFireMoment
<1>1. SchedInv /\ [SchedNext]_schedVars =>
        \A s \in Schedules :
          since_run'[s] < since_run[s] =>
            \/ row'[s].life # "present"
            \/ firing # NoFire /\ firing' = NoFire /\ fires[firing].of = s
            \/ row'[s].last_op_id = ErrFire /\ UNCHANGED fires
  BY LastRunStep
<1>2. QED
  BY <1>1, SchedInvariance, PTL DEF SchedSpec, LastRunIsFireMoment

\* The scheduler starts prune operations without the guards of a route, and the
\* registry's locks hold all the same.
THEOREM SchedImplementsLocks == SchedSpec => ImplementsLocks
<1>1. SchedInit => TheLocks!LockInit
  BY LocksInit DEF SchedInit
<1>2. ASSUME SchedInv, [SchedNext]_schedVars PROVE [TheLocks!LockNext]_(TheLocks!lockVars)
  <2>1. CASE [OpsNext]_opsVars
    BY <1>2, <2>1, LocksStep DEF SchedInv
  <2>2. ASSUME NEW i \in OpIds, NEW n \in Nodes, Start(i, "prune_node", n)
        PROVE  [TheLocks!LockNext]_(TheLocks!lockVars)
    <3>1. n \in Targets /\ "prune_node" \in OpType
      BY SchedAssumption DEF OpType
    <3>2. NewOp(i, "prune_node", n)
      BY <2>2 DEF Start
    <3>3. TheLocks!LockNext \/ UNCHANGED <<Holder, Spent>>
      BY <1>2, <3>1, <3>2, NewOpAcquires DEF SchedInv
    <3>4. QED
      BY <3>3 DEF TheLocks!lockVars
  <2>3. QED
    BY <1>2, <2>1, <2>2, SchedStepOps
<1>3. QED
  BY <1>1, <1>2, SchedInvariance, PTL DEF SchedSpec, ImplementsLocks, TheLocks!LockSpec
===============================================================================
