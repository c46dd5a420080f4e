----------------------------- MODULE OpsRegistry ------------------------------
(***************************************************************************)
(* The in-memory registry of write operations (logic/ops.py) and the       *)
(* background handlers that carry them out (do_* in logic/ops_extras.py).  *)
(*                                                                         *)
(* One asyncio event loop runs everything: what happens between two awaits *)
(* is one step.  A route or the scheduler registers an Operation, refused  *)
(* when one of the same conflict family is RUNNING on the same target, and *)
(* hands it to a background task.  The handler works, marks the operation  *)
(* done, awaits the notification fan-out and writes the history row.       *)
(***************************************************************************)
EXTENDS Naturals, Sequences, FiniteSets

CONSTANTS
  MaxCreated, \* bound on the number of operations ever registered
  Targets,    \* target_id values: stacks, containers, services, nodes
  Requested,  \* the op types the operator asks for in this instance
  MaxOps,     \* MAX_OPS, the length of the /api/ops list
  MaxRestarts \* bound on process restarts

OpType == {"update_stack", "update_container", "restart_container",
           "remove_container", "restart_service", "rollback_service",
           "prefetch_image", "prune_node"}

\* Identities of Operation objects: the n-th one registered.  The code draws a
\* uuid4 prefix; only that it is never reused matters.
OpIds == 1..MaxCreated

ASSUME OpsAssumption ==
  /\ MaxCreated \in Nat
  /\ MaxOps \in Nat \ {0}
  /\ Requested \subseteq OpType
  /\ MaxRestarts \in Nat

VARIABLES
  ops,        \* keys of the `ops` dict
  ops_order,  \* the `ops_order` list, newest first
  op_type,    \* attributes of each Operation ("none" before it exists)
  target_id,
  status,     \* "running", "success", "error"; "lost" once a restart dropped it
  pc,         \* where the handler is: "none", "working", "notifying", "ended"
  history,    \* status written to the op's history row, "absent" without one
  restarts    \* process restarts so far

opsVars == <<ops, ops_order, op_type, target_id, status, pc, history, restarts>>

NoTarget == "none"

-------------------------------------------------------------------------------
(* Registration.  The definitions whose names end in Bug are wrong on      *)
(* purpose: each is a slip the code could have made, used only to confirm  *)
(* that a property would notice it.                                        *)

\* Ops that change what a target is running, grouped by what they act on.
ConflictFamilies ==
  { {"update_stack"},
    {"update_container", "restart_container", "remove_container"},
    {"restart_service", "rollback_service"},
    {"prefetch_image"} }

SameFamily(t, u) == \E f \in ConflictFamilies : t \in f /\ u \in f

\* Bug: the clash is looked up by op type instead of by family.
RunningConflictBug(t, g) ==
  {o \in ops : status[o] = "running" /\ op_type[o] = t /\ target_id[o] = g}

\* The registered RUNNING ops a new op of type t on target g would clash with.
RunningConflict(t, g) ==
  {o \in ops : status[o] = "running" /\ SameFamily(op_type[o], t) /\ target_id[o] = g}

\* Ids pushed off the end of the list when `i` goes to its front.
Overflow(i) ==
  LET order == <<i>> \o ops_order
  IN  {order[k] : k \in {n \in DOMAIN order : n > MaxOps}}

\* Bug: eviction forgets to look at the status.
EvictedBug(i) == {o \in Overflow(i) : o \in ops}

\* Of those, the ones dropped from the dict: only an op that no longer runs.
Evicted(i) == {o \in Overflow(i) : o \in ops /\ status[o] # "running"}

\* Bug: the list is trimmed before the new id goes in front.
FrontOfListBug(i) ==
  <<i>> \o SubSeq(ops_order, 1, IF Len(ops_order) > MaxOps THEN MaxOps ELSE Len(ops_order))

\* The new list: `i` first, trimmed to MAX_OPS.
FrontOfList(i) ==
  LET order == <<i>> \o ops_order
  IN  SubSeq(order, 1, IF Len(order) > MaxOps THEN MaxOps ELSE Len(order))

\* The id of the next Operation object.
NextId == Cardinality({i \in OpIds : pc[i] # "none"}) + 1

\* Bug: no conflict check (the UI's disabled button is trusted).
NewOpBug(i, t, g) ==
  /\ pc[i] = "none"
  /\ i = NextId
  /\ ops' = (ops \union {i}) \ Evicted(i)
  /\ ops_order' = FrontOfList(i)
  /\ op_type' = [op_type EXCEPT ![i] = t]
  /\ target_id' = [target_id EXCEPT ![i] = g]
  /\ status' = [status EXCEPT ![i] = "running"]

\* new_op: refuse on a clash, else register, list first and trim the list.
\* OpConflict leaves everything unchanged, so a refusal is not a step.
NewOp(i, t, g) ==
  /\ pc[i] = "none"
  /\ i = NextId
  /\ RunningConflict(t, g) = {}
  /\ ops' = (ops \union {i}) \ Evicted(i)
  /\ ops_order' = FrontOfList(i)
  /\ op_type' = [op_type EXCEPT ![i] = t]
  /\ target_id' = [target_id EXCEPT ![i] = g]
  /\ status' = [status EXCEPT ![i] = "running"]

-------------------------------------------------------------------------------
(* Handlers.                                                               *)

\* A route (or a chat command) registers an op and queues its handler.
Start(i, t, g) ==
  /\ NewOp(i, t, g)
  /\ pc' = [pc EXCEPT ![i] = "working"]
  /\ UNCHANGED <<history, restarts>>

\* op.done("success"), then the await of the success notification.
Succeed(i) ==
  /\ pc[i] = "working"
  /\ status' = [status EXCEPT ![i] = "success"]
  /\ pc' = [pc EXCEPT ![i] = "notifying"]
  /\ UNCHANGED <<ops, ops_order, op_type, target_id, history, restarts>>

\* Bug: the except clause notifies but does not call op.done.
FailBug(i) ==
  /\ pc[i] = "working"
  /\ pc' = [pc EXCEPT ![i] = "notifying"]
  /\ UNCHANGED <<ops, ops_order, op_type, target_id, status, history, restarts>>

\* The body raised, or notify raised before its first await right after
\* done("success"): the except clause calls op.done("error") either way.
Fail(i) ==
  /\ pc[i] = "working"
  /\ status' = [status EXCEPT ![i] = "error"]
  /\ pc' = [pc EXCEPT ![i] = "notifying"]
  /\ UNCHANGED <<ops, ops_order, op_type, target_id, history, restarts>>

\* The finally clause: persist_history writes the row, or raises and leaves none.
PersistHistory(i) ==
  \/ history' = [history EXCEPT ![i] = status[i]]
  \/ UNCHANGED history

Finish(i) ==
  /\ pc[i] = "notifying"
  /\ PersistHistory(i)
  /\ pc' = [pc EXCEPT ![i] = "ended"]
  /\ UNCHANGED <<ops, ops_order, op_type, target_id, status, restarts>>

\* do_rollback_to_image registers op j to keep downloading the new version
\* once the rollback has succeeded; a clash is only logged (that is Finish).
FinishAndPrefetch(i, j) ==
  /\ pc[i] = "notifying"
  /\ op_type[i] = "rollback_service"
  /\ status[i] = "success"
  /\ NewOp(j, "prefetch_image", target_id[i])
  /\ PersistHistory(i)
  /\ pc' = [pc EXCEPT ![i] = "ended", ![j] = "working"]
  /\ UNCHANGED restarts

InFlight == {i \in OpIds : pc[i] \in {"working", "notifying"}}

\* The process stops.  A handler still in flight is cancelled at its await (it
\* re-raises without done(), and its finally clause writes the row with the
\* status as it stands) or killed before that.  The new process starts empty.
Restart ==
  /\ restarts < MaxRestarts
  /\ restarts' = restarts + 1
  /\ \E cancelled \in SUBSET InFlight :
       history' = [i \in OpIds |-> IF i \in cancelled THEN status[i] ELSE history[i]]
  /\ ops' = {}
  /\ ops_order' = <<>>
  /\ status' = [i \in OpIds |-> IF pc[i] = "working" THEN "lost" ELSE status[i]]
  /\ pc' = [i \in OpIds |-> IF i \in InFlight THEN "ended" ELSE pc[i]]
  /\ UNCHANGED <<op_type, target_id>>

-------------------------------------------------------------------------------
OpsInit ==
  /\ ops = {}
  /\ ops_order = <<>>
  /\ op_type = [i \in OpIds |-> "none"]
  /\ target_id = [i \in OpIds |-> NoTarget]
  /\ status = [i \in OpIds |-> "none"]
  /\ pc = [i \in OpIds |-> "none"]
  /\ history = [i \in OpIds |-> "absent"]
  /\ restarts = 0

HandlerStep(i) ==
  \/ Succeed(i)
  \/ Fail(i)
  \/ Finish(i)
  \/ \E j \in OpIds : FinishAndPrefetch(i, j)

OpsNext ==
  \/ \E i \in OpIds, t \in Requested, g \in Targets : Start(i, t, g)
  \/ \E i \in OpIds : HandlerStep(i)
  \/ Restart

OpsSpec == OpsInit /\ [][OpsNext]_opsVars

\* Every await of a handler has a timeout, so a handler is never stuck; nothing
\* obliges an operator to start one.
OpsFairness == \A i \in OpIds : WF_opsVars(HandlerStep(i))

FairOpsSpec == OpsSpec /\ OpsFairness

-------------------------------------------------------------------------------
(* Properties.                                                             *)

\* Types, and a list that stays within MAX_OPS however many ops run at a time.
OpsTypeOK ==
  /\ ops \in SUBSET OpIds
  /\ ops_order \in Seq(OpIds)
  /\ Len(ops_order) <= MaxOps
  /\ op_type \in [OpIds -> OpType \union {"none"}]
  /\ target_id \in [OpIds -> Targets \union {NoTarget}]
  /\ status \in [OpIds -> {"none", "running", "success", "error", "lost"}]
  /\ pc \in [OpIds -> {"none", "working", "notifying", "ended"}]
  /\ history \in [OpIds -> {"absent", "running", "success", "error"}]
  /\ restarts \in 0..MaxRestarts

\* No two running ops of one conflict family act on one target, whichever
\* route, chat command, schedule or handler started them: the registry stays
\* authoritative although old entries are evicted while ops still run.
NoConflictingOps ==
  \A i, j \in OpIds :
    /\ i # j
    /\ status[i] = "running"
    /\ status[j] = "running"
    /\ SameFamily(op_type[i], op_type[j])
    => target_id[i] # target_id[j]

\* A running op is always in the dict: running_conflict, the scheduler's
\* waiter and the sweep of orphaned fetch jobs all take "not in `ops`" to mean
\* "not running".
RunningIsRegistered == \A i \in OpIds : status[i] = "running" => i \in ops

\* The durable row of an op says what became of it; it says "running" only of
\* an op that a shutdown cut short.
HistoryFaithful ==
  \A i \in OpIds :
    /\ history[i] \in {"success", "error"} => status[i] = history[i]
    /\ history[i] = "running" => status[i] = "lost"

\* Every op that starts also stops running, so a target is never locked for
\* good while the process lives.
EveryOpEnds == \A i \in OpIds : (status[i] = "running") ~> (status[i] # "running")

\* The locks an op needs: its family (at most one) on its target.
Lock(i) == {l \in ConflictFamilies \X Targets : op_type[i] \in l[1] /\ target_id[i] = l[2]}

Holder == [l \in ConflictFamilies \X Targets |->
             {i \in OpIds : status[i] = "running" /\ l \in Lock(i)}]

Spent == {i \in OpIds : Lock(i) # {}}

TheLocks == INSTANCE TargetLock WITH
  Locks <- ConflictFamilies \X Targets, Ops <- OpIds, holder <- Holder, spent <- Spent

\* The registry implements one lock per conflict family and target: every step
\* of every handler, the eviction and the restart included, takes one free lock
\* for an op that never had one, gives one back, or leaves the locks alone.
ImplementsLocks == TheLocks!LockSpec
===============================================================================
