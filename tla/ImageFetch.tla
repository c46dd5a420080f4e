------------------------------ MODULE ImageFetch ------------------------------
(***************************************************************************)
(* The body of the handlers that replace what a stack or a service runs    *)
(* (do_update_stack, do_rollback_service, do_prefetch_image in             *)
(* logic/ops_extras.py) with the image fetch that comes first              *)
(* (logic/image_pull.py) and the wait for the rollout that comes last.     *)
(*                                                                         *)
(* An image is fetched by a one-shot Swarm job pinned to a node.  The job  *)
(* lives in Swarm: it may exist before its creator learns its id, outlive  *)
(* the creator and the process, and refuse to be removed.  Every fetch     *)
(* first sweeps the jobs whose operation no longer runs here.              *)
(***************************************************************************)
EXTENDS OpsRegistry

CONSTANTS
  Images \* (node, image) pairs that an operation on a Swarm service fetches

ASSUME FetchAssumption == Images \in Nat \ {0}

Goals == 1..Images

\* One fetch job per operation and pair: its name holds both.
Jobs == OpIds \X Goals

VARIABLES
  body,     \* the locals of an op's body: see Fresh
  listed,   \* jobs in the answer to the op's sweep that it has yet to look at
  sent,     \* jobs whose creation Swarm has been asked for and has not answered
  job,      \* jobs at Swarm
  local,    \* pairs whose image is on its node
  rollout,  \* what Swarm's UpdateStatus says of a stack's services
  left,     \* history: jobs that were legitimately left behind
  due       \* history: orphans that the op's sweep has to remove

jobVars == <<listed, sent, job, local, left, due>>
fetchVars == <<opsVars, body, jobVars, rollout>>

Fresh == [step |-> "starting", \* where the body of an op that is "working" awaits
          count |-> 0,         \* number of pairs to fetch
          goal |-> 1,          \* the pair it is at
          softened |-> {},     \* pairs a registry refused and it carries on without
          outcome |-> "none",  \* what the fetch came to, while its job is removed
          clean |-> 0,         \* clean polls of the rollout in a row
          seen |-> "never",    \* what the last answered poll saw
          hinted |-> FALSE]    \* that poll found a task Swarm cannot place

Over == [Fresh EXCEPT !.step = "over"]

\* do_prefetch_image: nobody waits for it, and it stops nothing.
Strict == {"prefetch_image"}

\* do_update_stack waits until Swarm has rolled out; the rollback does not.
Waits == {"update_stack"}

Present == {j \in Jobs : job[j] # "none"}

Orphans == {j \in Present : status[j[1]] # "running"}

Fetch(i) == <<i, body[i].goal>>

At(i, s) == pc[i] = "working" /\ body[i].step = s

GoTo(i, s) == body' = [body EXCEPT ![i].step = s]

\* The body returns: the op succeeds.
Return(i) == Succeed(i) /\ body' = [body EXCEPT ![i] = Over]

\* Bug: the except clause notifies but does not call op.done.
RaiseBug(i) == FailBug(i) /\ body' = [body EXCEPT ![i] = Over]

\* An exception leaves the body: the except clause ends the op.
Raise(i) == Fail(i) /\ body' = [body EXCEPT ![i] = Over]

-------------------------------------------------------------------------------
(* Resolving and sweeping.                                                 *)

\* The stack or service has been read: its running tasks say what to fetch.
\* Without a task there is nothing to disrupt and nothing to fetch.
Resolve(i) ==
  /\ At(i, "starting")
  /\ \/ /\ body' = [body EXCEPT ![i].step = "listing", ![i].count = Images]
        /\ UNCHANGED opsVars
     \/ op_type[i] \notin Strict /\ GoTo(i, "swapping") /\ UNCHANGED opsVars
     \/ Raise(i)
  /\ UNCHANGED <<jobVars, rollout>>

\* Bug: the loop runs once too often.
MoreBug(i, k) == k <= body[i].count + 1

\* There is a pair k to fetch.
More(i, k) == k <= body[i].count

\* The loop of ensure_images_on_nodes comes to pair k: a job, a streamed pull
\* (no Swarm manager, or a node that did not resolve), or the budget that all
\* pairs share is used up.  After the last pair the caller goes on.
Onward(i, k, soft, asked) ==
  LET at(s, g) == [body EXCEPT ![i].step = s, ![i].goal = g,
                               ![i].softened = soft, ![i].outcome = "none"]
  IN  \/ /\ More(i, k)
         /\ \/ body' = at("creating", k) /\ sent' = asked \union {<<i, k>>}
            \/ body' = at("streaming", k) /\ sent' = asked
         /\ UNCHANGED opsVars
      \/ More(i, k) /\ Raise(i) /\ sent' = asked
      \/ /\ ~More(i, k)
         /\ IF op_type[i] \in Strict
            THEN Return(i)
            ELSE body' = at("swapping", body[i].goal) /\ UNCHANGED opsVars
         /\ sent' = asked

\* The services with the fetch label are listed, or the request fails (or there
\* is no Swarm manager to ask): the sweep never blocks the fetch.
List(i) ==
  /\ At(i, "listing")
  /\ \/ /\ listed' = [listed EXCEPT ![i] = Present]
        /\ due' = [due EXCEPT ![i] = Orphans]
        /\ GoTo(i, "sweeping")
        /\ UNCHANGED <<opsVars, sent>>
     \/ Onward(i, 1, {}, sent) /\ UNCHANGED <<listed, due>>
  /\ UNCHANGED <<job, local, left, rollout>>

\* Bug: an op that /api/ops does not list counts as over.
AwaitedBug(j) ==
  \E k \in DOMAIN ops_order : ops_order[k] = j[1] /\ status[j[1]] = "running"

\* The owner named by the job's label is registered and runs.
Awaited(j) == j[1] \in ops /\ status[j[1]] = "running"

\* Bug: an owner this process does not know is spared.
SweptBug(i) == {j \in listed[i] : j[1] \in ops /\ ~Awaited(j)}

\* What the sweep removes of the jobs it has not looked at yet.
Swept(i) == {j \in listed[i] : ~Awaited(j)}

\* The loop passes over some awaited jobs and comes to one to remove.  Any HTTP
\* status counts as removed; a request that fails ends the sweep.
Sweep(i) ==
  /\ At(i, "sweeping")
  /\ \E j \in Swept(i), passed \in SUBSET (listed[i] \ Swept(i)) :
       \/ /\ listed' = [listed EXCEPT ![i] = @ \ ({j} \union passed)]
          /\ \/ /\ job' = [job EXCEPT ![j] = "none"]
                /\ left' = left \ {j}
                /\ UNCHANGED due
             \/ due' = [due EXCEPT ![i] = @ \ {j}] /\ UNCHANGED <<job, left>>
          /\ UNCHANGED <<opsVars, body, sent>>
       \/ /\ listed' = [listed EXCEPT ![i] = {}]
          /\ due' = [due EXCEPT ![i] = {}]
          /\ Onward(i, 1, {}, sent)
          /\ UNCHANGED <<job, left>>
  /\ UNCHANGED <<local, rollout>>

\* Nothing is left to remove: the fetch begins.
SweepEnds(i) ==
  /\ At(i, "sweeping")
  /\ Swept(i) = {}
  /\ listed' = [listed EXCEPT ![i] = {}]
  /\ due' = [due EXCEPT ![i] = {}]
  /\ Onward(i, 1, {}, sent)
  /\ UNCHANGED <<job, local, left, rollout>>

-------------------------------------------------------------------------------
(* One pair: the job of _pull_via_swarm_job or a streamed pull.            *)

\* Bug: a deadline is treated like missing credentials.
SettleBug(i, o, asked) ==
  \/ o # "failed" /\ Onward(i, body[i].goal + 1, body[i].softened, asked)
  \/ o = "failed" /\ Raise(i) /\ sent' = asked

\* The fetch of a pair is over: take the next pair, carry on without this one
\* when the registry wants credentials and Portainer's own pull may have them,
\* or raise, before anything has been stopped.
Settle(i, o, asked) ==
  \/ o = "ok" /\ Onward(i, body[i].goal + 1, body[i].softened, asked)
  \/ /\ o = "auth" /\ op_type[i] \notin Strict
     /\ Onward(i, body[i].goal + 1, body[i].softened \union {body[i].goal}, asked)
  \/ /\ o \in {"failed", "timeout"} \/ (o = "auth" /\ op_type[i] \in Strict)
     /\ Raise(i)
     /\ sent' = asked

\* The pull streamed through Portainer ends, well or not.
Streamed(i) ==
  /\ At(i, "streaming")
  /\ \E o \in {"ok", "auth", "failed", "timeout"} :
       /\ local' = IF o = "ok" THEN local \union {body[i].goal} ELSE local
       /\ Settle(i, o, sent)
  /\ UNCHANGED <<listed, job, left, due, rollout>>

\* POST services/create is answered with the id: from here on the job is
\* removed whatever happens.
Created(i) ==
  /\ At(i, "creating")
  /\ Fetch(i) \in Present
  /\ GoTo(i, "polling")
  /\ UNCHANGED <<opsVars, jobVars, rollout>>

\* Swarm refuses to create the job.
Refused(i) ==
  /\ At(i, "creating")
  /\ Fetch(i) \in sent
  /\ \E o \in {"auth", "failed"} : Settle(i, o, sent \ {Fetch(i)})
  /\ UNCHANGED <<listed, job, local, left, due, rollout>>

\* The answer does not come or cannot be read.  The id is not known yet, so
\* nothing removes the job that exists or may still come to exist.
CreateLost(i) ==
  /\ At(i, "creating")
  /\ Raise(i)
  /\ left' = left \union {Fetch(i)}
  /\ UNCHANGED <<listed, sent, job, local, due, rollout>>

\* What a poll of the job's task may find; the node's message says whether the
\* registry refused it.
PollResult(i) ==
  CASE job[Fetch(i)] = "pulled"   -> {"ok"}
    [] job[Fetch(i)] = "rejected" -> {"auth", "failed"}
    [] OTHER                      -> {}

\* Bug: the loop has no deadline.
PollBug(i) ==
  /\ At(i, "polling")
  /\ \E o \in PollResult(i) :
       body' = [body EXCEPT ![i].step = "removing", ![i].outcome = o]
  /\ UNCHANGED <<opsVars, jobVars, rollout>>

\* A poll that ends the loop.  A task query refused with an HTTP status shows no
\* task, so the deadline can pass whatever the job has come to.
Poll(i) ==
  /\ At(i, "polling")
  /\ \E o \in PollResult(i) \union {"timeout"} :
       body' = [body EXCEPT ![i].step = "removing", ![i].outcome = o]
  /\ UNCHANGED <<opsVars, jobVars, rollout>>

\* The request itself fails and httpx's error leaves the loop, or no node suits
\* the task.
PollRaises(i) ==
  /\ At(i, "polling")
  /\ body' = [body EXCEPT ![i].step = "removing", ![i].outcome = "failed"]
  /\ UNCHANGED <<opsVars, jobVars, rollout>>

\* Bug: the job is removed only when the fetch went well.
RemoveJobBug(i) ==
  /\ At(i, "removing")
  /\ job' = IF body[i].outcome = "ok" THEN [job EXCEPT ![Fetch(i)] = "none"] ELSE job
  /\ Settle(i, body[i].outcome, sent)
  /\ UNCHANGED <<listed, local, left, due, rollout>>

\* The finally clause: the job is removed, or stays when Portainer refuses or
\* does not answer (only the latter is logged).
RemoveJob(i) ==
  /\ At(i, "removing")
  /\ \/ job' = [job EXCEPT ![Fetch(i)] = "none"] /\ UNCHANGED left
     \/ left' = left \union {Fetch(i)} /\ UNCHANGED job
  /\ Settle(i, body[i].outcome, sent)
  /\ UNCHANGED <<listed, local, due, rollout>>

-------------------------------------------------------------------------------
(* Swapping, and waiting for the rollout.                                  *)

\* The request that stops the old tasks.  It may be lost after it was obeyed.
Swap(i) ==
  /\ At(i, "swapping")
  /\ \/ op_type[i] \in Waits /\ rollout' = [rollout EXCEPT ![target_id[i]] = "accepted"]
     \/ UNCHANGED rollout
  /\ \/ Raise(i)
     \/ op_type[i] \notin Waits /\ Return(i)
     \/ /\ op_type[i] \in Waits /\ rollout'[target_id[i]] = "accepted"
        /\ GoTo(i, "waiting")
        /\ UNCHANGED opsVars
  /\ UNCHANGED jobVars

Moving == {"updating", "unplaceable"}

\* One answered poll of the stack's services; one that fails changes nothing.
\* A task Swarm cannot place fails the op on the second look in a row.
ConvergencePoll(i) ==
  /\ At(i, "waiting")
  /\ LET moving == rollout[target_id[i]] \in Moving
         noPlace == rollout[target_id[i]] = "unplaceable"
     IN
     \/ /\ body[i].count = 0 /\ rollout[target_id[i]] = "accepted"
        /\ Return(i) \* the stack has no Swarm service: none will ever update
     \/ moving /\ noPlace /\ body[i].hinted /\ Raise(i)
     \/ /\ moving
        /\ \E hint \in {FALSE, noPlace /\ ~body[i].hinted} :
             body' = [body EXCEPT ![i].clean = 0, ![i].seen = "moving", ![i].hinted = hint]
        /\ UNCHANGED opsVars
     \/ ~moving /\ body[i].clean = 1 /\ Return(i)
     \/ /\ ~moving /\ body[i].clean = 0
        /\ body' = [body EXCEPT ![i].clean = 1, ![i].seen = "clean"]
        /\ UNCHANGED opsVars
  /\ UNCHANGED <<jobVars, rollout>>

\* Bug: the op warns and succeeds, as it once did.
WaitTimesOutBug(i) ==
  /\ At(i, "waiting")
  /\ Return(i)
  /\ UNCHANGED <<jobVars, rollout>>

\* The observe timeout passes.
WaitTimesOut(i) ==
  /\ At(i, "waiting")
  /\ IF body[i].seen = "clean" THEN Return(i) ELSE Raise(i)
  /\ UNCHANGED <<jobVars, rollout>>

-------------------------------------------------------------------------------
(* Swarm, as far as the code can tell.                                     *)

\* A creation that was asked for is obeyed, whoever still waits for the answer.
SwarmCreates ==
  \E j \in sent :
    /\ sent' = sent \ {j}
    /\ job' = [job EXCEPT ![j] = "preparing"]
    /\ UNCHANGED <<opsVars, body, listed, local, left, due, rollout>>

\* The node downloads the image or rejects the task.
JobMoves ==
  \E j \in Jobs, s \in {"pulled", "rejected"} :
    /\ job[j] = "preparing"
    /\ job' = [job EXCEPT ![j] = s]
    /\ local' = IF s = "pulled" THEN local \union {j[2]} ELSE local
    /\ UNCHANGED <<opsVars, body, listed, sent, left, due, rollout>>

\* UpdateStatus of the stack's services taken together: between two services
\* nothing shows as updating; an update can also be abandoned ("paused",
\* "rollback_started", "rollback_paused").
RolloutStep == {<<"accepted", "updating">>, <<"updating", "accepted">>,
                <<"updating", "done">>, <<"updating", "abandoned">>,
                <<"updating", "unplaceable">>, <<"unplaceable", "updating">>}

RolloutMoves ==
  \E g \in Targets, s \in RolloutStep :
    /\ rollout[g] = s[1]
    /\ rollout' = [rollout EXCEPT ![g] = s[2]]
    /\ UNCHANGED <<opsVars, body, jobVars>>

-------------------------------------------------------------------------------
HasJob(i) == i \in InFlight /\ body[i].step \in {"creating", "polling", "removing"}

\* The process stops.  A cancelled fetch may still get its job removed.
FetchRestart ==
  /\ Restart
  /\ left' = left \union {Fetch(i) : i \in {o \in OpIds : HasJob(o)}}
  /\ \E removed \in SUBSET {Fetch(i) : i \in {o \in OpIds : HasJob(o)}} :
       job' = [j \in Jobs |->
                IF j \in removed /\ body[j[1]].step # "creating" THEN "none" ELSE job[j]]
  /\ body' = [i \in OpIds |-> IF i \in InFlight THEN Over ELSE body[i]]
  /\ listed' = [i \in OpIds |-> {}]
  /\ due' = [i \in OpIds |-> {}]
  /\ UNCHANGED <<sent, local, rollout>>

FetchInit ==
  /\ OpsInit
  /\ body = [i \in OpIds |-> Fresh]
  /\ listed = [i \in OpIds |-> {}]
  /\ sent = {}
  /\ job = [j \in Jobs |-> "none"]
  /\ local = {}
  /\ rollout = [g \in Targets |-> "done"]
  /\ left = {}
  /\ due = [i \in OpIds |-> {}]

\* The steps by which a body gets on with its work.
BodyStep(i) ==
  \/ Resolve(i) \/ List(i) \/ Sweep(i) \/ SweepEnds(i)
  \/ Streamed(i) \/ Created(i) \/ Refused(i) \/ CreateLost(i)
  \/ Poll(i) \/ RemoveJob(i) \/ Swap(i) \/ ConvergencePoll(i)

Ends(i) ==
  /\ Finish(i) \/ \E j \in OpIds : FinishAndPrefetch(i, j)
  /\ UNCHANGED <<body, jobVars, rollout>>

FetchNext ==
  \/ \E i \in OpIds, t \in Requested, g \in Targets :
       Start(i, t, g) /\ UNCHANGED <<body, jobVars, rollout>>
  \/ \E i \in OpIds : BodyStep(i) \/ PollRaises(i) \/ WaitTimesOut(i) \/ Ends(i)
  \/ SwarmCreates
  \/ JobMoves
  \/ RolloutMoves
  \/ FetchRestart

FetchSpec == FetchInit /\ [][FetchNext]_fetchVars

\* Every request has a timeout and every wait a deadline, so a body gets on;
\* the polls of a rollout may repeat until the deadline ends them.  Nothing is
\* assumed of Swarm: a download or a rollout may never end.
FetchFairness ==
  \A i \in OpIds :
    WF_fetchVars(BodyStep(i)) /\ WF_fetchVars(WaitTimesOut(i)) /\ WF_fetchVars(Ends(i))

FairFetchSpec == FetchSpec /\ FetchFairness

-------------------------------------------------------------------------------
(* Properties.                                                             *)

\* Types.
FetchTypeOK ==
  /\ body \in [OpIds ->
       [step : {"starting", "listing", "sweeping", "creating", "streaming",
                "polling", "removing", "swapping", "waiting", "over"},
        count : {0, Images}, goal : Goals, softened : SUBSET Goals,
        outcome : {"none", "ok", "auth", "failed", "timeout"},
        clean : 0..1, seen : {"never", "moving", "clean"}, hinted : BOOLEAN]]
  /\ listed \in [OpIds -> SUBSET Jobs]
  /\ sent \in SUBSET Jobs
  /\ job \in [Jobs -> {"none", "preparing", "pulled", "rejected"}]
  /\ local \in SUBSET Goals
  /\ rollout \in [Targets -> {"done", "accepted", "updating", "abandoned", "unplaceable"}]
  /\ left \in SUBSET Jobs
  /\ due \in [OpIds -> SUBSET Jobs]

\* An op that is about to stop running tasks, or has, has every image it needs
\* on its node, except those a registry refused: not one whose download timed
\* out, failed, or was cut by another op's sweep.
SwapOnlyWithImages ==
  \A i \in OpIds : body[i].step \in {"swapping", "waiting"} =>
    \A k \in 1..body[i].count : k \in local \/ k \in body[i].softened

\* Whoever sweeps, the job of an op that still runs goes only by that op's own
\* hand, even when the op has been pushed off the end of the list of ops.
AwaitedJobStays ==
  [][\A j \in Jobs :
       (j \in Present /\ j \notin Present' /\ status'[j[1]] = "running")
          => body[j[1]].step = "removing"]_fetchVars

\* A job outlives its op only when its creation was not answered, its removal
\* did not succeed or the process stopped: no path through an op forgets it.
OrphansExplained == Orphans \subseteq left

\* When a sweep has nothing left to remove, the orphans it found are gone, those
\* of an earlier process included, except where a removal was refused.
SweepRemovesOrphans ==
  \A i \in OpIds : At(i, "sweeping") /\ Swept(i) = {} => due[i] \intersect Present = {}

\* An update is reported as done only when the last answered poll of the rollout
\* saw nothing moving: not when the wait ran out over a service that never came
\* up or over a list that was never answered.
GreenOnlyWhenStill ==
  [][\A i \in OpIds :
       (At(i, "waiting") /\ status'[i] = "success" /\ body[i].count > 0)
          => body[i].seen = "clean"]_fetchVars

\* Seen from the registry, these bodies are handlers like the others, and the
\* fairness assumed of handlers there is what their deadlines deliver here: no
\* download, sweep or rollout, however Swarm behaves, holds an op for good.
ImplementsOps == FairOpsSpec
===============================================================================
