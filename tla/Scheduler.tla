------------------------------ MODULE Scheduler ------------------------------
(***************************************************************************)
(* Scheduled jobs (logic/schedules.py): the rows of the `schedules` table, *)
(* the tick loop that fires the due ones, the waiter that stamps the       *)
(* outcome of each fire on its row, and the sweep of ghost runs at boot.   *)
(* Prune kinds fire operations of the registry, so the module composes     *)
(* with it; the other kinds run a task of their own under a synthetic id   *)
(* and are all modelled by "gather_refresh".                               *)
(*                                                                         *)
(* Time is kept as ages (how long ago a row last ran, how long ago a fire  *)
(* began), counted in ticks and capped at Horizon, so that behaviours can  *)
(* be infinite.  A tick fires each due schedule without giving the event   *)
(* loop back; here each schedule is a step of its own, since what the tick *)
(* decides about one depends on its own row and on the operations only.    *)
(***************************************************************************)
EXTENDS OpsRegistry

CONSTANTS
  Schedules,     \* ids of rows; AUTOINCREMENT never reuses one
  Nodes,         \* hostnames of Swarm nodes
  Kinds,         \* the schedule kinds in use
  Interval,      \* interval_seconds (every schedule has the same one)
  WaiterTimeout, \* WAITER_TIMEOUT_SECONDS
  StuckAfter,    \* the stuck-run threshold
  Horizon,       \* ages are not told apart from here on
  MaxFires,      \* bound on fires
  MaxRunNows,    \* bound on uses of "Run now"
  MaxFaults      \* bound on failures of the database (or of a task)

ASSUME SchedAssumption ==
  /\ Nodes \subseteq Targets
  /\ Kinds \subseteq {"prune_node", "prune_all_nodes", "gather_refresh"}
  /\ {Interval, WaiterTimeout, StuckAfter, Horizon} \subseteq Nat \ {0}
  /\ \A n \in {Interval, WaiterTimeout, StuckAfter} : n < Horizon
  /\ {MaxFires, MaxRunNows, MaxFaults} \subseteq Nat

VARIABLES
  row,        \* the schedules table
  since_run,  \* age of last_run_at, or of created_at before the first run
  fires,      \* one record per call of fire_schedule
  since_fire, \* age of each fire
  firing,     \* the fire that holds the event loop, NoFire otherwise
  loop,       \* scheduler_loop: "boot" (before the sweep), "asleep", "ticking"
  run_nows, faults,
  displaced   \* history: fires whose row names another one, by a stamp no tick made

schedOnlyVars == <<row, since_run, fires, since_fire, firing, loop, run_nows, faults, displaced>>
schedVars == <<opsVars, schedOnlyVars>>

Fires == 1..MaxFires
NoFire == 0              \* last_op_id IS NULL
ErrFire == MaxFires + 1  \* an "err-..." id, stamped when the fire itself failed
NoSchedule == "none"

Unborn == [life |-> "unborn", kind |-> "none", enabled |-> FALSE,
           last_op_id |-> NoFire, last_duration |-> "NULL", last_status |-> "NULL"]

Unused == [of |-> NoSchedule, kind |-> "none", by |-> "none", todo |-> {},
           children |-> {}, task |-> "none", waiter |-> "unused"]

-------------------------------------------------------------------------------
(* The row.                                                                *)

\* Bug: the waiter's stamp moves last_run_at too.
record_runBug(s, f, duration, st, update_run_at) ==
  /\ row' = IF row[s].life # "present" THEN row
            ELSE [row EXCEPT ![s].last_op_id = f,
                             ![s].last_duration = IF duration = "NULL" THEN @ ELSE duration,
                             ![s].last_status = IF st = "NULL" THEN @ ELSE st]
  /\ since_run' = IF row[s].life = "present" THEN [since_run EXCEPT ![s] = 0] ELSE since_run

\* record_run: "NULL" for the duration or the status means "don't touch it".
\* The UPDATE of a deleted row changes nothing.
record_run(s, f, duration, st, update_run_at) ==
  /\ row' = IF row[s].life # "present" THEN row
            ELSE [row EXCEPT ![s].last_op_id = f,
                             ![s].last_duration = IF duration = "NULL" THEN @ ELSE duration,
                             ![s].last_status = IF st = "NULL" THEN @ ELSE st]
  /\ since_run' = IF row[s].life = "present" /\ update_run_at
                  THEN [since_run EXCEPT ![s] = 0]
                  ELSE since_run

Create(s, k) ==
  /\ row[s].life = "unborn"
  /\ firing = NoFire
  /\ row' = [row EXCEPT ![s] = [Unborn EXCEPT !.life = "present", !.kind = k, !.enabled = TRUE]]
  /\ since_run' = [since_run EXCEPT ![s] = 0]
  /\ UNCHANGED <<opsVars, fires, since_fire, firing, loop, run_nows, faults, displaced>>

\* update_schedule leaves the outcome of earlier runs on the row.
Edit(s, k, e) ==
  /\ row[s].life = "present"
  /\ firing = NoFire
  /\ row' = [row EXCEPT ![s].kind = k, ![s].enabled = e]
  /\ UNCHANGED <<opsVars, since_run, fires, since_fire, firing, loop, run_nows, faults, displaced>>

Delete(s) ==
  /\ row[s].life = "present"
  /\ firing = NoFire
  /\ row' = [row EXCEPT ![s] = [Unborn EXCEPT !.life = "deleted"]]
  /\ UNCHANGED <<opsVars, since_run, fires, since_fire, firing, loop, run_nows, faults, displaced>>

-------------------------------------------------------------------------------
(* Firing.                                                                 *)

\* next_run_at <= now, in interval mode.
Due(s) ==
  /\ row[s].life = "present"
  /\ row[s].enabled
  /\ since_run[s] >= Interval

\* The operations found in the `ops` dict under a row's last_op_id: only
\* prune_node records the id of an operation.
OpOf(f) == IF f \in Fires /\ fires[f].kind = "prune_node" THEN fires[f].children ELSE {}

\* Bug: an outcome on the row is taken to be the outcome of the last fire.
PreviousRunActiveBug(s) ==
  /\ row[s].last_op_id # NoFire
  /\ row[s].last_duration = "NULL"
  /\ since_run[s] <= StuckAfter

\* Bug: a run without an outcome is waited for, however old it is.
PreviousRunForeverBug(s) ==
  /\ row[s].last_op_id # NoFire
  /\ \/ row[s].last_duration = "NULL"
     \/ \E o \in OpOf(row[s].last_op_id) : o \in ops /\ status[o] = "running"

\* _is_previous_run_active: no outcome yet and not stuck, or the op still runs.
PreviousRunActive(s) ==
  /\ row[s].last_op_id # NoFire
  /\ \/ row[s].last_duration = "NULL" /\ since_run[s] <= StuckAfter
     \/ /\ row[s].last_duration # "NULL"
        /\ \E o \in OpOf(row[s].last_op_id) : o \in ops /\ status[o] = "running"

\* The nodes a fire of kind k may prune: the configured one, or those the cache
\* knows at this moment.
Hosts(k) ==
  {h \in SUBSET Nodes : /\ k = "prune_node" => Cardinality(h) = 1
                        /\ k = "prune_all_nodes" => h # {}
                        /\ k = "gather_refresh" => h = {}}

\* fire_schedule up to the runner; the operations are registered one by one.
Begin(s, who) ==
  /\ firing = NoFire
  /\ row[s].life = "present"
  /\ \E f \in Fires, hosts \in Hosts(row[s].kind) :
       /\ fires[f].waiter = "unused"
       /\ \A g \in 1..(f - 1) : fires[g].waiter # "unused"
       /\ NextId + Cardinality(hosts) <= MaxCreated + 1  \* bound: enough ids left
       /\ fires' = [fires EXCEPT ![f] =
            [of |-> s, kind |-> row[s].kind, by |-> who, todo |-> hosts, children |-> {},
             task |-> IF row[s].kind = "gather_refresh" THEN "running" ELSE "none",
             waiter |-> "launching"]]
       /\ firing' = f
  /\ UNCHANGED <<opsVars, row, since_run, since_fire, loop, faults, displaced>>

\* The tick loop: due and not skipped.
TickFires(s) ==
  /\ loop = "ticking"
  /\ Due(s)
  /\ ~PreviousRunActive(s)
  /\ Begin(s, "tick")
  /\ UNCHANGED run_nows

\* The runner raised before it started anything (no hostname, no node in the
\* cache): the tick stamps an error so that the schedule waits its interval.
TickRefused(s) ==
  /\ loop = "ticking"
  /\ firing = NoFire
  /\ Due(s)
  /\ ~PreviousRunActive(s)
  /\ row[s].kind # "gather_refresh"
  /\ record_run(s, ErrFire, "recorded", "error", TRUE)
  /\ UNCHANGED <<opsVars, fires, since_fire, firing, loop, run_nows, faults, displaced>>

\* POST /api/schedules/{id}/run: no check of the interval or of a run in flight.
RunNow(s) ==
  /\ loop # "boot"
  /\ run_nows < MaxRunNows
  /\ run_nows' = run_nows + 1
  /\ Begin(s, "operator")

\* new_op and the spawn of do_prune_node for one host.
Launch(i, n) ==
  /\ firing # NoFire
  /\ n \in fires[firing].todo
  /\ NewOp(i, "prune_node", n)
  /\ pc' = [pc EXCEPT ![i] = "working"]
  /\ fires' = [fires EXCEPT ![firing].todo = @ \ {n}, ![firing].children = @ \union {i}]
  /\ UNCHANGED <<history, restarts, row, since_run, since_fire, firing, loop, run_nows, faults, displaced>>

\* The fire that the row of f's schedule stops naming when it comes to name f.
Displaces(f) == {row[fires[f].of].last_op_id} \ {f, NoFire, ErrFire}

\* Everything is launched: stamp last_run_at and last_op_id, spawn the waiter.
Fired ==
  /\ firing # NoFire
  /\ fires[firing].todo = {}
  /\ record_run(fires[firing].of, firing, "NULL", "NULL", TRUE)
  /\ displaced' = IF fires[firing].by = "operator"
                  THEN displaced \union Displaces(firing) ELSE displaced
  /\ fires' = [fires EXCEPT ![firing].waiter = "waiting"]
  /\ firing' = NoFire
  /\ UNCHANGED <<opsVars, since_fire, loop, run_nows, faults>>

\* Bug: a failed fire leaves the row alone.
FireFailsBug ==
  /\ firing # NoFire
  /\ fires[firing].todo = {}
  /\ faults < MaxFaults
  /\ faults' = faults + 1
  /\ UNCHANGED <<row, since_run>>
  /\ fires' = [fires EXCEPT ![firing].waiter = "unstamped"]
  /\ firing' = NoFire
  /\ UNCHANGED <<opsVars, since_fire, loop, run_nows, displaced>>

\* That stamp raised: what was launched runs on with nobody waiting for it.
\* The tick loop stamps an error instead, which may fail as well; the route only
\* answers 500.
FireFails ==
  /\ firing # NoFire
  /\ fires[firing].todo = {}
  /\ faults < MaxFaults
  /\ faults' = faults + 1
  /\ \/ /\ fires[firing].by = "tick"
        /\ record_run(fires[firing].of, ErrFire, "recorded", "error", TRUE)
        /\ fires' = [fires EXCEPT ![firing].waiter = "unstamped"]
     \/ /\ UNCHANGED <<row, since_run>>
        /\ fires' = [fires EXCEPT ![firing].waiter = "unrecorded"]
  /\ firing' = NoFire
  /\ UNCHANGED <<opsVars, since_fire, loop, run_nows, displaced>>

-------------------------------------------------------------------------------
(* Waiting for the outcome.                                                *)

\* The own task of a synthetic kind ends.
TaskEnds(f, st) ==
  /\ firing = NoFire
  /\ fires[f].task = "running"
  /\ fires' = [fires EXCEPT ![f].task = st]
  /\ UNCHANGED <<opsVars, row, since_run, since_fire, firing, loop, run_nows, faults, displaced>>

\* Bug: a fan-out succeeds when one child does.
EarnedBug(f) ==
  fires[f].children # {} => \E o \in fires[f].children : status[o] = "success"

Earned(f) == \A o \in fires[f].children : status[o] = "success"

\* _await_op_completion returns: the op is no longer running, or was evicted,
\* or 30 minutes have passed.  A task is awaited for as long as it takes.
WaiterReady(f) ==
  /\ fires[f].waiter = "waiting"
  /\ fires[f].task # "running"
  /\ \A o \in fires[f].children :
       o \notin ops \/ status[o] # "running" \/ since_fire[f] >= WaiterTimeout

\* What the waiter may report.  An op evicted before it was polled counts as an
\* error; in a fan-out a child may have been polled before it was evicted.
Outcomes(f) ==
  {st \in {"success", "error"} :
     /\ st = "success" => /\ fires[f].task \in {"none", "success"}
                          /\ Earned(f)
                          /\ fires[f].kind = "prune_node" => fires[f].children \subseteq ops
     /\ st = "error" => \/ fires[f].task = "error"
                        \/ ~Earned(f)
                        \/ ~(fires[f].children \subseteq ops)}

WaiterStamps(f) ==
  /\ firing = NoFire
  /\ WaiterReady(f)
  /\ \E st \in Outcomes(f) :
       /\ record_run(fires[f].of, f, "recorded", st, FALSE)
       /\ fires' = [fires EXCEPT ![f].waiter = st]
  /\ displaced' = displaced \union Displaces(f)
  /\ UNCHANGED <<opsVars, since_fire, firing, loop, run_nows, faults>>

\* The stamp raised, or the task raised an exception the waiter does not expect.
WaiterDies(f) ==
  /\ firing = NoFire
  /\ WaiterReady(f)
  /\ faults < MaxFaults
  /\ faults' = faults + 1
  /\ fires' = [fires EXCEPT ![f].waiter = "unstamped"]
  /\ UNCHANGED <<opsVars, row, since_run, since_fire, firing, loop, run_nows, displaced>>

-------------------------------------------------------------------------------
(* The process and the clock.                                              *)

\* Bug: a schedule that never ran is taken for a ghost.
GhostsBug ==
  {s \in Schedules : /\ row[s].life = "present"
                     /\ row[s].last_duration = "NULL"
                     /\ OpOf(row[s].last_op_id) \intersect ops = {}}

\* Rows whose run cannot be in flight in a process that has just started.
Ghosts ==
  {s \in Schedules : /\ row[s].last_op_id # NoFire
                     /\ row[s].last_duration = "NULL"
                     /\ OpOf(row[s].last_op_id) \intersect ops = {}}

\* Bug: the sweep only looks for ids of operations.
SweepBug ==
  /\ loop = "boot"
  /\ row' = [s \in Schedules |->
               IF s \in Ghosts /\ OpOf(row[s].last_op_id) # {}
               THEN [row[s] EXCEPT !.last_duration = "recorded", !.last_status = "error"]
               ELSE row[s]]
  /\ loop' = "asleep"
  /\ UNCHANGED <<opsVars, since_run, fires, since_fire, firing, run_nows, faults, displaced>>

\* The sweep at the start of scheduler_loop; last_run_at stays.
Sweep ==
  /\ loop = "boot"
  /\ row' = [s \in Schedules |->
               IF s \in Ghosts
               THEN [row[s] EXCEPT !.last_duration = "recorded", !.last_status = "error"]
               ELSE row[s]]
  /\ loop' = "asleep"
  /\ UNCHANGED <<opsVars, since_run, fires, since_fire, firing, run_nows, faults, displaced>>

SweepFails ==
  /\ loop = "boot"
  /\ faults < MaxFaults
  /\ faults' = faults + 1
  /\ loop' = "asleep"
  /\ UNCHANGED <<opsVars, row, since_run, fires, since_fire, firing, run_nows, displaced>>

Older(age) == IF age < Horizon THEN age + 1 ELSE Horizon

\* A minute passes.  A waiter polls every two seconds, so none is left ready
\* for that long; the loop sleeps one tick before its first pass.
Advance ==
  /\ firing = NoFire
  /\ loop # "boot"
  /\ \A f \in Fires : ~WaiterReady(f)
  /\ since_run' = [s \in Schedules |->
                     IF row[s].life = "present" THEN Older(since_run[s]) ELSE 0]
  /\ since_fire' = [f \in Fires |->
                      IF fires[f].waiter = "unused" THEN 0 ELSE Older(since_fire[f])]
  /\ loop' = "ticking"
  /\ UNCHANGED <<opsVars, row, fires, firing, run_nows, faults, displaced>>

\* The process stops, perhaps half-way through a fire: tasks and waiters die
\* with it, the rows stay.
ProcessRestart ==
  /\ Restart
  /\ loop' = "boot"
  /\ firing' = NoFire
  /\ fires' = [f \in Fires |->
       [fires[f] EXCEPT !.waiter = CASE @ = "launching" -> "crashed"
                                     [] @ = "waiting" -> "lost"
                                     [] OTHER -> @,
                        !.task = IF @ = "running" THEN "error" ELSE @,
                        !.todo = {}]]
  /\ UNCHANGED <<row, since_run, since_fire, run_nows, faults, displaced>>

\* What the registry does by itself while no fire holds the event loop.
OpsStep(A) == firing = NoFire /\ A /\ UNCHANGED schedOnlyVars

OperatorStep(i) == \E t \in Requested, g \in Targets : OpsStep(Start(i, t, g))

Handle(i) == OpsStep(HandlerStep(i))

-------------------------------------------------------------------------------
SchedInit ==
  /\ OpsInit
  /\ row = [s \in Schedules |-> Unborn]
  /\ since_run = [s \in Schedules |-> 0]
  /\ fires = [f \in Fires |-> Unused]
  /\ since_fire = [f \in Fires |-> 0]
  /\ firing = NoFire
  /\ loop = "boot"
  /\ run_nows = 0
  /\ faults = 0
  /\ displaced = {}

LaunchAny == \E i \in OpIds, n \in Nodes : Launch(i, n)

SchedNext ==
  \/ \E s \in Schedules, k \in Kinds : Create(s, k)
  \/ \E s \in Schedules, k \in Kinds, e \in BOOLEAN : Edit(s, k, e)
  \/ \E s \in Schedules : Delete(s)
  \/ \E s \in Schedules : TickFires(s)
  \/ \E s \in Schedules : TickRefused(s)
  \/ \E s \in Schedules : RunNow(s)
  \/ LaunchAny
  \/ Fired
  \/ FireFails
  \/ \E f \in Fires, st \in {"success", "error"} : TaskEnds(f, st)
  \/ \E f \in Fires : WaiterStamps(f)
  \/ \E f \in Fires : WaiterDies(f)
  \/ Sweep
  \/ SweepFails
  \/ Advance
  \/ ProcessRestart
  \/ \E i \in OpIds : OperatorStep(i)
  \/ \E i \in OpIds : Handle(i)

SchedSpec == SchedInit /\ [][SchedNext]_schedVars

\* The event loop runs what is ready, time passes, and an operation ends; a
\* task of a synthetic kind may hang.
SchedFairness ==
  /\ WF_schedVars(LaunchAny)
  /\ WF_schedVars(Fired)
  /\ WF_schedVars(Sweep)
  /\ WF_schedVars(Advance)
  /\ \A f \in Fires : WF_schedVars(WaiterStamps(f))
  /\ \A i \in OpIds : WF_schedVars(Handle(i))

FairSchedSpec == SchedSpec /\ SchedFairness

-------------------------------------------------------------------------------
(* Properties.                                                             *)

Row ==
  [life : {"unborn", "present", "deleted"}, kind : Kinds \union {"none"}, enabled : BOOLEAN,
   last_op_id : 0..ErrFire, last_duration : {"NULL", "recorded"},
   last_status : {"NULL", "success", "error"}]

Fire ==
  [of : Schedules \union {NoSchedule}, kind : Kinds \union {"none"},
   by : {"none", "tick", "operator"}, todo : SUBSET Nodes, children : SUBSET OpIds,
   task : {"none", "running", "success", "error"},
   waiter : {"unused", "launching", "waiting", "success", "error",
             "unstamped", "unrecorded", "lost", "crashed"}]

\* Types; a row shows an outcome only once it has run.
SchedTypeOK ==
  /\ row \in [Schedules -> Row]
  /\ \A s \in Schedules : row[s].last_op_id = NoFire =>
       row[s].last_duration = "NULL" /\ row[s].last_status = "NULL"
  /\ since_run \in [Schedules -> 0..Horizon]
  /\ fires \in [Fires -> Fire]
  /\ since_fire \in [Fires -> 0..Horizon]
  /\ firing \in 0..MaxFires
  /\ loop \in {"boot", "asleep", "ticking"}
  /\ run_nows \in 0..MaxRunNows
  /\ faults \in 0..MaxFaults
  /\ displaced \subseteq Fires

Prunes(f) == \E o \in fires[f].children : status[o] = "running"

\* "Overlapping prune_nodes in particular would compete for the same Docker
\* daemon": a tick never starts a prune_node run of a schedule while another is
\* under way.  The row goes NULL -> recorded only once in its life, so from the
\* second run on this rests on the registry alone (a running op is in `ops`),
\* and in the first on the waiter giving up before the row counts as stuck.  It
\* fails where the row does not name the run: a database write was lost, "Run
\* now" was used, or the waiter of an earlier fire stamped its own id after a
\* later fire had stamped its.
PruneNodeRunsDoNotOverlap ==
  \A f, g \in Fires :
    /\ f < g
    /\ fires[f].of = fires[g].of
    /\ fires[f].kind = "prune_node" /\ fires[g].kind = "prune_node"
    /\ fires[g].by = "tick"
    /\ f \notin displaced
    /\ fires[f].waiter \notin {"unstamped", "unrecorded"}
    => ~(Prunes(f) /\ Prunes(g))

RunningOf(s, k) ==
  {o \in UNION {fires[f].children : f \in {g \in Fires : fires[g].of = s /\ fires[g].kind = k}} :
     status[o] = "running"}

\* The same promise for prune_all_nodes, as its docstring and the scheduler
\* guide make it ("until the waiter resolves every child, last_duration is NULL
\* and the tick loop will not re-fire. So a slow node can't cause overlapping
\* prune passes"): no two passes of one schedule prune a node at a time.
PrunePassesDoNotOverlap ==
  \A s \in Schedules : \A o, p \in RunningOf(s, "prune_all_nodes") :
    o # p => target_id[o] # target_id[p]

\* When a row shows a fire whose outcome was stamped, it shows that outcome,
\* whatever older waiters wrote since; and "success" means that every
\* operation of the fire succeeded.
RowTellsTheOutcome ==
  \A s \in Schedules :
    LET f == row[s].last_op_id
    IN  f \in Fires /\ fires[f].waiter \in {"success", "error"} =>
          /\ row[s].last_status = fires[f].waiter
          /\ row[s].last_status = "success" =>
               fires[f].task # "error" /\ \A o \in fires[f].children : status[o] = "success"

\* Once the sweep has run, a row without an outcome has a waiter that will
\* write it: no crash, at whatever point of a fire, leaves a schedule locked.
NoGhostRows ==
  loop # "boot" /\ faults = 0 =>
    \A s \in Schedules :
      row[s].last_op_id # NoFire /\ row[s].last_duration = "NULL" =>
        fires[row[s].last_op_id].waiter = "waiting"

\* Ticks fire a schedule at most once per interval, the fires whose database
\* write fails included ("so a persistently-broken schedule doesn't re-fire
\* every tick forever"); only a crash before the stamp, or a failure of the
\* error stamp as well, is forgotten.
TickFiresSpaced ==
  \A f, g \in Fires :
    /\ f # g
    /\ fires[f].of = fires[g].of
    /\ fires[f].by = "tick" /\ fires[g].by = "tick"
    /\ {fires[f].waiter, fires[g].waiter} \intersect {"crashed", "unrecorded"} = {}
    => since_fire[f] >= Interval \/ since_fire[g] >= Interval

\* last_run_at is the moment of a fire, or of a failed attempt at one: neither
\* the waiter nor the sweep at boot moves it ("Daily @ 01:30 shows 48 minutes
\* ago" in record_run).
LastRunIsFireMoment ==
  [][\A s \in Schedules :
       since_run'[s] < since_run[s] =>
         \/ row'[s].life # "present"
         \/ firing # NoFire /\ firing' = NoFire /\ fires[firing].of = s
         \/ row'[s].last_op_id = ErrFire /\ UNCHANGED fires]_schedVars

\* A schedule is never skipped for good: whatever became of its last run, of
\* the waiter and of the sweep, the tick loop is eventually free to fire it.
NeverSkippedForever ==
  \A s \in Schedules : PreviousRunActive(s) ~> ~PreviousRunActive(s)
===============================================================================
