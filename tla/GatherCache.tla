------------------------------ MODULE GatherCache ------------------------------
(***************************************************************************)
(* The items cache (logic/gather.py): what GET /api/items serves, the      *)
(* gathers that rebuild it, invalidate_cache and the snapshot a restarted  *)
(* process starts from.                                                    *)
(*                                                                         *)
(* The fleet is a version number, raised by every change.  A gather reads  *)
(* it from Portainer in parallel parts, each of which may fail: every part *)
(* of the Swarm items is the version its read answered with, 0 if missing; *)
(* the items of the direct Docker node are the list of copies that merges  *)
(* have appended.  A gather reads, builds for seconds, publishes, reads    *)
(* the direct node and appends its items; it gives the event loop back     *)
(* between these steps.  /api/items starts gathers through a single-flight *)
(* guard, the scheduler and the assistant call gather() themselves.        *)
(* Portainer and one direct node are configured.                           *)
(***************************************************************************)
EXTENDS Naturals, Sequences

CONSTANTS
  Reads,       \* the parallel reads of Portainer
  MaxFleet,    \* bound on the versions of the fleet
  Callers,     \* who may run a gather: "background" is /api/items
  MaxFailures, \* bound on failures: of reads, of a write, of a whole gather
  MaxRestarts  \* bound on process restarts

ASSUME CacheAssumption ==
  /\ Reads \subseteq {"services", "containers", "tasks", "nodes", "stacks"}
  /\ MaxFleet \in Nat \ {0}
  /\ "background" \in Callers
  /\ {MaxFailures, MaxRestarts} \subseteq Nat

VARIABLES
  fleet,     \* version of what really runs
  announced, \* version at the last invalidate_cache
  swarm,     \* per read: version of that part of the Swarm items of _cache, 0 without
  direct,    \* versions of the copies of the direct node's items in _cache
  fresh,     \* _cache["ts"] is younger than the TTL
  snapshot,  \* the items_snapshot row
  pc,        \* per caller: where its gather is
  read,      \* per caller and read: the version it answered with, 0 if it failed;
             \* until it answers the version when it was sent
  ver,       \* per caller: the version the direct node answered with
  keeps,     \* per caller: Portainer was down, it kept the last good items
  waiting,   \* a request with nothing to serve awaits the background gather
  restarts, failures,
  overlap,   \* two gathers ran at a time, and none has published alone since
             \* (or the snapshot seeded is the work of such)
  missed     \* a gather read something before the last invalidation and may publish it

cacheVars == <<swarm, direct, fresh, snapshot>>
boundVars == <<restarts, failures>>
gcVars == <<fleet, announced, cacheVars, pc, read, ver, keeps, waiting, boundVars, overlap,
            missed>>

\* Portainer counts as down only when none of these answers ...
Core == Reads \ {"stacks"}

\* ... and these are the reads whose answers become items.
Listed == Reads \intersect {"services", "containers"}

Nothing == [r \in Reads |-> 0]

NoSnapshot == [swarm |-> Nothing, direct |-> <<>>]

Alone(c) == \A d \in Callers \ {c} : pc[d] = "idle"

\* Answers with a part older than v.
Older(ans, v) == \E r \in Reads : 0 < ans[r] /\ ans[r] < v

\* The gathers that have read, and not yet published, something older than v.
Behind(v) == {c \in Callers : pc[c] = "building" /\ Older(read[c], v)}

-------------------------------------------------------------------------------
(* The world and the TTL.                                                  *)

\* A container is updated, removed, restarted, by OmniGrid or by anybody.
Change ==
  /\ fleet < MaxFleet
  /\ fleet' = fleet + 1
  /\ UNCHANGED <<announced, cacheVars, pc, read, ver, keeps, waiting, boundVars, overlap, missed>>

\* Bug: only the event is published.
InvalidateBug ==
  /\ announced' = fleet
  /\ missed' = (Behind(fleet) # {})
  /\ UNCHANGED <<fleet, cacheVars, pc, read, ver, keeps, waiting, boundVars, overlap>>

\* invalidate_cache: the finally clause of a write operation.
Invalidate ==
  /\ announced' = fleet
  /\ fresh' = FALSE
  /\ missed' = (Behind(fleet) # {})
  /\ UNCHANGED <<fleet, swarm, direct, snapshot, pc, read, ver, keeps, waiting, boundVars, overlap>>

Expire ==
  /\ fresh
  /\ fresh' = FALSE
  /\ UNCHANGED <<fleet, announced, swarm, direct, snapshot, pc, read, ver, keeps, waiting,
                 boundVars, overlap, missed>>

-------------------------------------------------------------------------------
(* Starting a gather.                                                      *)

Start(c) ==
  /\ pc[c] = "idle"
  /\ pc' = [pc EXCEPT ![c] = "reading"]
  /\ read' = [read EXCEPT ![c] = [r \in Reads |-> fleet]]
  /\ overlap' = (overlap \/ ~Alone(c))

HasItems == direct # <<>> \/ \E r \in Listed : swarm[r] # 0

\* _kick_background_gather: the task in flight if there is one.
Kick ==
  \/ Start("background")
  \/ pc["background"] # "idle" /\ UNCHANGED <<pc, read, overlap>>

\* Bug: a stale cache is served without a gather.
GetItemsBug(force) ==
  /\ \/ ~HasItems /\ Kick /\ waiting' = TRUE
     \/ HasItems /\ fresh /\ force /\ Kick /\ UNCHANGED waiting
  /\ UNCHANGED <<fleet, announced, cacheVars, ver, keeps, boundVars, missed>>

\* api_items: with nothing to serve it waits for the gather, with a stale cache
\* or force it starts one behind its answer.
GetItems(force) ==
  /\ \/ ~HasItems /\ Kick /\ waiting' = TRUE
     \/ HasItems /\ (~fresh \/ force) /\ Kick /\ UNCHANGED waiting
  /\ UNCHANGED <<fleet, announced, cacheVars, ver, keeps, boundVars, missed>>

\* The scheduler's gather_refresh and the assistant call gather() as it is.
GatherDirectly(c) ==
  /\ c # "background"
  /\ Start(c)
  /\ UNCHANGED <<fleet, announced, cacheVars, ver, keeps, waiting, boundVars, missed>>

-------------------------------------------------------------------------------
(* One gather.                                                             *)

\* What may come back: each read answers with some state of the fleet since it
\* was sent, or fails.
Answers(c) ==
  {ans \in [Reads -> 0..fleet] : \A r \in Reads : ans[r] = 0 \/ ans[r] >= read[c][r]}

\* The items are built from these answers, a part that failed counting as empty.
Build(c, ans) ==
  /\ pc[c] = "reading"
  /\ pc' = [pc EXCEPT ![c] = "building"]
  /\ read' = [read EXCEPT ![c] = ans]
  /\ missed' = (missed \/ Older(ans, announced))
  /\ UNCHANGED <<fleet, announced, cacheVars, ver, keeps, waiting, restarts, overlap>>

\* All of the parallel reads answer.
Read(c) ==
  /\ \E ans \in Answers(c) : (\A r \in Reads : ans[r] # 0) /\ Build(c, ans)
  /\ UNCHANGED failures

\* Some of them fail, but not all that are core: the gather goes on as if the
\* fleet had nothing there.
ReadInPart(c) ==
  /\ failures < MaxFailures
  /\ failures' = failures + 1
  /\ \E ans \in Answers(c) :
       /\ \E r \in Reads : ans[r] = 0
       /\ \E r \in Core : ans[r] # 0
       /\ Build(c, ans)

\* Bug: the direct node's items are not stripped before the next merge.
PortainerDownBug(c) ==
  /\ pc[c] = "reading"
  /\ failures < MaxFailures
  /\ failures' = failures + 1
  /\ pc' = [pc EXCEPT ![c] = "published"]
  /\ read' = [read EXCEPT ![c] = Nothing]
  /\ keeps' = [keeps EXCEPT ![c] = TRUE]
  /\ overlap' = (overlap /\ ~Alone(c))
  /\ UNCHANGED <<fleet, announced, cacheVars, ver, waiting, restarts, missed>>

\* Bug: the gather goes on, as when some reads fail, and takes the fleet for empty.
PortainerDownWipesBug(c) ==
  /\ failures < MaxFailures
  /\ failures' = failures + 1
  /\ Build(c, Nothing)

\* All core reads fail: keep the last good items and their age, strip the direct
\* node's, which are merged anew.
PortainerDown(c) ==
  /\ pc[c] = "reading"
  /\ failures < MaxFailures
  /\ failures' = failures + 1
  /\ pc' = [pc EXCEPT ![c] = "published"]
  /\ read' = [read EXCEPT ![c] = Nothing]
  /\ keeps' = [keeps EXCEPT ![c] = TRUE]
  /\ direct' = <<>>
  /\ overlap' = (overlap /\ ~Alone(c))
  /\ UNCHANGED <<fleet, announced, swarm, fresh, snapshot, ver, waiting, restarts, missed>>

\* The new items replace the cache and count as fresh from now on.
Publish(c) ==
  /\ pc[c] = "building"
  /\ pc' = [pc EXCEPT ![c] = "published"]
  /\ swarm' = read[c]
  /\ read' = [read EXCEPT ![c] = Nothing]
  /\ direct' = <<>>
  /\ fresh' = TRUE
  /\ overlap' = (overlap /\ ~Alone(c))
  /\ missed' = (missed /\ Behind(announced) # {})
  /\ UNCHANGED <<fleet, announced, snapshot, ver, keeps, waiting, boundVars>>

\* merge_docker_nodes_into_cache up to its last await: the direct node answers.
ReadNode(c) ==
  /\ pc[c] = "published"
  /\ pc' = [pc EXCEPT ![c] = "merging"]
  /\ ver' = [ver EXCEPT ![c] = fleet]
  /\ UNCHANGED <<fleet, announced, cacheVars, read, keeps, waiting, boundVars, overlap, missed>>

\* It does not: its items are left out of the cache.
NodeDown(c) ==
  /\ pc[c] = "published"
  /\ failures < MaxFailures
  /\ failures' = failures + 1
  /\ pc' = [pc EXCEPT ![c] = "merging"]
  /\ ver' = [ver EXCEPT ![c] = 0]
  /\ UNCHANGED <<fleet, announced, cacheVars, read, keeps, waiting, restarts, overlap, missed>>

\* save_items_snapshot writes the row, or logs and leaves the old one.
SaveSnapshot(items) ==
  \/ /\ snapshot' = [swarm |-> swarm, direct |-> items]
     /\ UNCHANGED failures
  \/ /\ failures < MaxFailures
     /\ failures' = failures + 1
     /\ UNCHANGED snapshot

\* The items read are appended to whatever the cache holds by now, and the
\* snapshot is saved, but for a gather that kept the last good items.
Merge(c) ==
  /\ pc[c] = "merging"
  /\ direct' = IF ver[c] = 0 THEN direct ELSE Append(direct, ver[c])
  /\ IF keeps[c] THEN UNCHANGED <<snapshot, failures>> ELSE SaveSnapshot(direct')
  /\ pc' = [pc EXCEPT ![c] = "ending"]
  /\ ver' = [ver EXCEPT ![c] = 0]
  /\ keeps' = [keeps EXCEPT ![c] = FALSE]
  /\ UNCHANGED <<fleet, announced, swarm, fresh, read, waiting, restarts, overlap, missed>>

\* The digests are flushed; whoever waits for the background gather goes on.
End(c) ==
  /\ pc[c] = "ending"
  /\ pc' = [pc EXCEPT ![c] = "idle"]
  /\ waiting' = (waiting /\ c # "background")
  /\ UNCHANGED <<fleet, announced, cacheVars, read, ver, keeps, boundVars, overlap, missed>>

\* A gather ends early, and what it holds is lost.
Gone(c) ==
  /\ pc' = [pc EXCEPT ![c] = "idle"]
  /\ read' = [read EXCEPT ![c] = Nothing]
  /\ ver' = [ver EXCEPT ![c] = 0]
  /\ keeps' = [keeps EXCEPT ![c] = FALSE]

\* Bug: the request that waits is not told.
AbortBug(c) ==
  /\ pc[c] # "idle"
  /\ c = "background" => pc[c] \in {"reading", "building"}
  /\ failures < MaxFailures
  /\ failures' = failures + 1
  /\ Gone(c)
  /\ UNCHANGED <<fleet, announced, cacheVars, waiting, restarts, overlap, missed>>

\* The gather raises before it publishes, or is cancelled with the request that
\* called it.
Abort(c) ==
  /\ pc[c] # "idle"
  /\ c = "background" => pc[c] \in {"reading", "building"}
  /\ failures < MaxFailures
  /\ failures' = failures + 1
  /\ Gone(c)
  /\ waiting' = (waiting /\ c # "background")
  /\ UNCHANGED <<fleet, announced, cacheVars, restarts, overlap, missed>>

\* The 25 seconds of the waiting request are over: asyncio.wait_for cancels the
\* gather, wherever it is.
TimeOut ==
  /\ waiting
  /\ pc["background"] # "idle"
  /\ failures < MaxFailures
  /\ failures' = failures + 1
  /\ Gone("background")
  /\ waiting' = FALSE
  /\ UNCHANGED <<fleet, announced, cacheVars, restarts, overlap, missed>>

\* Bug: the snapshot brings its own age along.
SeedBug ==
  /\ swarm' = snapshot.swarm
  /\ direct' = snapshot.direct
  /\ fresh' = (snapshot # NoSnapshot)
  /\ UNCHANGED failures

\* seed_items_cache_from_snapshot: the last known items, stale from the start;
\* or none when the row cannot be read.
Seed ==
  /\ fresh' = FALSE
  /\ \/ /\ swarm' = snapshot.swarm
        /\ direct' = snapshot.direct
        /\ UNCHANGED failures
     \/ /\ failures < MaxFailures
        /\ failures' = failures + 1
        /\ swarm' = Nothing
        /\ direct' = <<>>

\* The process stops and the next one starts from the snapshot.
Reboot ==
  /\ restarts < MaxRestarts
  /\ restarts' = restarts + 1
  /\ Seed
  /\ pc' = [c \in Callers |-> "idle"]
  /\ read' = [c \in Callers |-> Nothing]
  /\ ver' = [c \in Callers |-> 0]
  /\ keeps' = [c \in Callers |-> FALSE]
  /\ waiting' = FALSE
  /\ overlap' = (Len(snapshot.direct) > 1)
  /\ missed' = FALSE
  /\ UNCHANGED <<fleet, announced, snapshot>>

-------------------------------------------------------------------------------
GcInit ==
  /\ fleet = 1
  /\ announced = 0
  /\ swarm = Nothing
  /\ direct = <<>>
  /\ fresh = FALSE
  /\ snapshot = NoSnapshot
  /\ pc = [c \in Callers |-> "idle"]
  /\ read = [c \in Callers |-> Nothing]
  /\ ver = [c \in Callers |-> 0]
  /\ keeps = [c \in Callers |-> FALSE]
  /\ waiting = FALSE
  /\ restarts = 0
  /\ failures = 0
  /\ overlap = FALSE
  /\ missed = FALSE

GatherStep(c) ==
  \/ Read(c)
  \/ Publish(c)
  \/ ReadNode(c)
  \/ Merge(c)
  \/ End(c)

GcNext ==
  \/ Change
  \/ Invalidate
  \/ Expire
  \/ \E force \in BOOLEAN : GetItems(force)
  \/ \E c \in Callers : GatherDirectly(c)
  \/ \E c \in Callers : GatherStep(c)
  \/ \E c \in Callers : ReadInPart(c)
  \/ \E c \in Callers : PortainerDown(c)
  \/ \E c \in Callers : NodeDown(c)
  \/ \E c \in Callers : Abort(c)
  \/ TimeOut
  \/ Reboot

GcSpec == GcInit /\ [][GcNext]_gcVars

\* Every await of a gather has a timeout, the TTL runs out, and a page that
\* polls asks again and again, without force.
GcFairness ==
  /\ \A c \in Callers : WF_gcVars(GatherStep(c))
  /\ WF_gcVars(Expire)
  /\ WF_gcVars(GetItems(FALSE))

FairGcSpec == GcSpec /\ GcFairness
-------------------------------------------------------------------------------
(* Properties.                                                             *)

\* Types; a request waits only for a gather that is there.
CacheTypeOK ==
  /\ fleet \in 1..MaxFleet
  /\ announced \in 0..fleet
  /\ swarm \in [Reads -> 0..fleet]
  /\ direct \in Seq(1..fleet)
  /\ fresh \in BOOLEAN
  /\ snapshot \in [swarm : [Reads -> 0..fleet], direct : Seq(1..fleet)]
  /\ pc \in [Callers -> {"idle", "reading", "building", "published", "merging", "ending"}]
  /\ read \in [Callers -> [Reads -> 0..fleet]]
  /\ ver \in [Callers -> 0..fleet]
  /\ keeps \in [Callers -> BOOLEAN]
  /\ waiting \in BOOLEAN
  /\ waiting => pc["background"] # "idle"
  /\ restarts \in 0..MaxRestarts
  /\ failures \in 0..MaxFailures
  /\ overlap \in BOOLEAN
  /\ missed \in BOOLEAN

\* The direct node's items are in the cache at most once, although merges append
\* them to a list that others replace, strip and restore meanwhile; duplicates
\* are the doing of gathers that overlapped, and the next one that runs alone
\* removes them.
DirectItemsOnce == ~overlap => Len(direct) <= 1

\* Items that count as fresh show nothing from before the last announced change,
\* after a restart too: each part shows that change or, its read having failed, is
\* missing.  The exception is an invalidation that fell between the reads of a
\* gather and its end.
FreshShowsInvalidated ==
  fresh /\ ~missed => \A r \in Reads : swarm[r] = 0 \/ swarm[r] >= announced

\* The same without the exception, as the docstring of invalidate_cache has it:
\* "Mark the cache stale so the next gather request rebuilds it."
StaleUntilRebuilt == fresh => \A r \in Reads : swarm[r] >= announced

\* Within one process no part of the Swarm items goes back to an older state of the
\* fleet, and none goes away while Portainer is down: a part is lost only by a
\* gather that reads another, core one.  Overlapping gathers overtake each other.
CacheNeverGoesBack ==
  [][\/ \A r \in Reads : \/ swarm'[r] >= swarm[r]
                         \/ swarm'[r] = 0 /\ (\E q \in Core : swarm'[q] # 0)
     \/ overlap
     \/ restarts' # restarts]_gcVars

\* Once the fleet rests, a page that polls is served its state for good: a lost
\* invalidation, a missing part, a failed gather or an overtaking one is made up for.
CacheCatchesUp ==
  <>[](/\ \A r \in Reads : swarm[r] = fleet
       /\ \A i \in DOMAIN direct : direct[i] = fleet)
===============================================================================
