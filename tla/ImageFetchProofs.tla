--------------------------- MODULE ImageFetchProofs ----------------------------
(***************************************************************************)
(* What the image fetch guarantees whatever the number of operations,      *)
(* targets, images and restarts and the length of the list of ops: images  *)
(* before the swap, awaited jobs stay, orphans explained and swept, green  *)
(* only when still, and every handler body a handler of the registry.      *)
(***************************************************************************)
EXTENDS ImageFetch, OpsRegistryProofs

-------------------------------------------------------------------------------
(* The inductive invariant.                                                *)

\* Where no job of the op can exist yet.
Early == {"starting", "listing", "sweeping"}

\* Where the op minds the job of the pair it is at.
Minding == {"creating", "polling", "removing"}

\* The jobs that Swarm, a request or somebody's sweep knows of.
Known == Present \union sent \union UNION {listed[i] \union due[i] : i \in OpIds}

\* The locals of a body agree with how far its handler is.
Bodies ==
  \A i \in OpIds :
    /\ pc[i] = "none" => body[i] = Fresh
    /\ pc[i] \in {"notifying", "ended"} => body[i] = Over
    /\ pc[i] = "working" => body[i].step # "over"
    /\ body[i].step = "starting" => body[i] = Fresh
    /\ body[i].clean = 1 => body[i].seen = "clean"

\* The pairs a body has behind it are on their node or were refused by a
\* registry, and what a poll found is so.
Fetched ==
  /\ \A j \in Jobs : job[j] = "pulled" => j[2] \in local
  /\ \A i \in OpIds :
       body[i].step = "removing" /\ body[i].outcome = "ok" => body[i].goal \in local
  /\ \A i \in OpIds : body[i].step \notin Early =>
       \A k \in 1..body[i].count :
         k < body[i].goal \/ body[i].step \in {"swapping", "waiting"} =>
           k \in local \/ k \in body[i].softened

\* A job is asked for once, by a body that has come to its pair; from then on it
\* is minded by that body or was left behind.
JobLife ==
  /\ \A j \in Known :
       /\ pc[j[1]] # "none"
       /\ pc[j[1]] = "working" => body[j[1]].step \notin Early /\ j[2] <= body[j[1]].goal
  /\ \A j \in sent : j \notin Present /\ \A i \in OpIds : j \notin listed[i] /\ j \notin due[i]
  /\ \A i \in OpIds : body[i].step \in {"polling", "removing"} => Fetch(i) \notin sent
  /\ \A j \in Present \union sent :
       \/ j \in left
       \/ pc[j[1]] = "working" /\ body[j[1]].step \in Minding /\ j[2] = body[j[1]].goal

\* What a sweep has to remove is nobody's any more, and it has yet to come to
\* those that still exist.
Sweeps ==
  \A i \in OpIds : \A j \in due[i] :
    /\ status[j[1]] # "running"
    /\ j \in Present => j \in listed[i]

FetchInv ==
  /\ OpsInv
  /\ FetchTypeOK
  /\ Bodies
  /\ Fetched
  /\ JobLife
  /\ Sweeps
-------------------------------------------------------------------------------
(* Seen from the registry: a body ends its op or leaves the registry alone. *)

LEMMA OnwardOps ==
  ASSUME NEW i \in OpIds, NEW k, NEW soft, NEW asked, Onward(i, k, soft, asked)
  PROVE  Succeed(i) \/ Fail(i) \/ UNCHANGED opsVars
  BY DEF Onward, Raise, Return

LEMMA SettleOps ==
  ASSUME NEW i \in OpIds, NEW o, NEW asked, Settle(i, o, asked)
  PROVE  Succeed(i) \/ Fail(i) \/ UNCHANGED opsVars
  BY OnwardOps DEF Settle, Raise

\* Every step of a body.
LEMMA BodyOps ==
  ASSUME NEW i \in OpIds, BodyStep(i) \/ PollRaises(i) \/ WaitTimesOut(i)
  PROVE  Succeed(i) \/ Fail(i) \/ UNCHANGED opsVars
<1> DEFINE Seen == Succeed(i) \/ Fail(i) \/ UNCHANGED opsVars
<1>1. CASE Resolve(i)
  BY <1>1 DEF Resolve, Raise
<1>2. CASE List(i)
  BY <1>2, OnwardOps DEF List
<1>3. CASE Sweep(i)
  BY <1>3, OnwardOps DEF Sweep
<1>4. CASE SweepEnds(i)
  BY <1>4, OnwardOps DEF SweepEnds
<1>5. CASE Streamed(i)
  BY <1>5, SettleOps DEF Streamed
<1>6. CASE Created(i) \/ Poll(i) \/ PollRaises(i)
  BY <1>6 DEF Created, Poll, PollRaises
<1>7. CASE Refused(i)
  BY <1>7, SettleOps DEF Refused
<1>8. CASE CreateLost(i)
  BY <1>8 DEF CreateLost, Raise
<1>9. CASE RemoveJob(i)
  BY <1>9, SettleOps DEF RemoveJob
<1>10. CASE Swap(i)
  BY <1>10 DEF Swap, Raise, Return
<1>11. CASE ConvergencePoll(i)
  BY <1>11 DEF ConvergencePoll, Raise, Return
<1>12. CASE WaitTimesOut(i)
  BY <1>12 DEF WaitTimesOut, Raise, Return
<1>13. QED
  BY <1>1, <1>2, <1>3, <1>4, <1>5, <1>6, <1>7, <1>8, <1>9, <1>10, <1>11, <1>12 DEF BodyStep

LEMMA FetchStepOps == [FetchNext]_fetchVars => [OpsNext]_opsVars
<1> SUFFICES ASSUME [FetchNext]_fetchVars PROVE OpsNext \/ UNCHANGED opsVars
  OBVIOUS
<1>1. ASSUME NEW i \in OpIds, NEW t \in Requested, NEW g \in Targets, Start(i, t, g)
      PROVE  OpsNext
  BY <1>1 DEF OpsNext
<1>2. ASSUME NEW i \in OpIds, BodyStep(i) \/ PollRaises(i) \/ WaitTimesOut(i)
      PROVE  OpsNext \/ UNCHANGED opsVars
  BY <1>2, BodyOps DEF OpsNext, HandlerStep
<1>3. ASSUME NEW i \in OpIds, Ends(i)
      PROVE  OpsNext
  BY <1>3 DEF Ends, OpsNext, HandlerStep
<1>4. CASE SwarmCreates \/ JobMoves \/ RolloutMoves
  BY <1>4 DEF SwarmCreates, JobMoves, RolloutMoves
<1>5. CASE FetchRestart
  BY <1>5 DEF FetchRestart, OpsNext
<1>6. CASE UNCHANGED fetchVars
  BY <1>6 DEF fetchVars
<1>7. QED
  BY <1>1, <1>2, <1>3, <1>4, <1>5, <1>6 DEF FetchNext

\* The safety part of ImplementsOps: whatever Swarm, the sweeps and the deadlines
\* do, the bodies are handlers of the registry, so all that is proved of the
\* registry holds while images are fetched.
THEOREM FetchImplementsOps == FetchSpec => OpsSpec
<1>1. FetchInit => OpsInit
  BY DEF FetchInit
<1>2. QED
  BY <1>1, FetchStepOps, PTL DEF FetchSpec, OpsSpec
-------------------------------------------------------------------------------
(* What the steps of a body have in common.                                *)

\* The record of a body's locals.
BodyType ==
  [step : {"starting", "listing", "sweeping", "creating", "streaming",
           "polling", "removing", "swapping", "waiting", "over"},
   count : {0, Images}, goal : Goals, softened : SUBSET Goals,
   outcome : {"none", "ok", "auth", "failed", "timeout"},
   clean : 0..1, seen : {"never", "moving", "clean"}, hinted : BOOLEAN]

\* A step that takes on no job: jobs only go, sweeps only get on, images only
\* arrive, and no job still there or still asked for leaves `left`.
NoNewJobs ==
  /\ listed' \in [OpIds -> SUBSET Jobs]
  /\ due' \in [OpIds -> SUBSET Jobs]
  /\ job' \in [Jobs -> {"none", "preparing", "pulled", "rejected"}]
  /\ local' \in SUBSET Goals
  /\ left' \in SUBSET Jobs
  /\ rollout' \in [Targets -> {"done", "accepted", "updating", "abandoned", "unplaceable"}]
  /\ local \subseteq local'
  /\ \A j \in Jobs : job'[j] = job[j] \/ job'[j] = "none"
  /\ \A x \in OpIds : listed'[x] \subseteq listed[x] /\ due'[x] \subseteq due[x]
  /\ \A x \in OpIds : \A j \in due'[x] : job'[j] # "none" => j \in listed'[x]
  /\ \A j \in left : j \in left' \/ (job'[j] = "none" /\ j \notin sent)

\* A body that moves on within its op keeps the invariant if its new locals fit
\* what it leaves behind.
LEMMA MoveKeeps ==
  ASSUME NEW i \in OpIds, NEW b \in BodyType,
         FetchInv, pc[i] = "working", UNCHANGED opsVars, NoNewJobs,
         body' = [body EXCEPT ![i] = b],
         b.step \notin {"starting", "over"},
         b.clean = 1 => b.seen = "clean",
         b.step = "removing" /\ b.outcome = "ok" => b.goal \in local',
         b.step \notin Early => \A m \in 1..b.count :
           m < b.goal \/ b.step \in {"swapping", "waiting"} => m \in local' \/ m \in b.softened,
         \A j \in Known : j[1] = i => b.step \notin Early /\ j[2] <= b.goal,
         sent' \subseteq sent \/ /\ sent' \subseteq sent \union {<<i, b.goal>>}
                                 /\ b.step = "creating"
                                 /\ <<i, b.goal>> \notin Known,
         b.step \in {"polling", "removing"} => <<i, b.goal>> \notin sent',
         \A j \in Jobs : (job'[j] # "none" \/ j \in sent') /\ j[1] = i =>
           j \in left' \/ (b.step \in Minding /\ j[2] = b.goal)
  PROVE  FetchInv'
<1>1. /\ body \in [OpIds -> BodyType] /\ sent \subseteq Jobs
      /\ job \in [Jobs -> {"none", "preparing", "pulled", "rejected"}]
      /\ local \subseteq Goals /\ left \subseteq Jobs
      /\ listed \in [OpIds -> SUBSET Jobs] /\ due \in [OpIds -> SUBSET Jobs]
  BY DEF FetchInv, FetchTypeOK, BodyType
<1>2. body'[i] = b /\ \A o \in OpIds : o # i => body'[o] = body[o]
  BY <1>1
<1>3. pc' = pc /\ status' = status
  BY DEF opsVars
<1>4. b.goal \in Goals /\ <<i, b.goal>> \in Jobs
  BY DEF BodyType, Jobs
<1>5. sent' \subseteq sent \union {<<i, b.goal>>} /\ sent' \subseteq Jobs
  BY <1>1, <1>4
<1>6. OpsInv'
  BY OpsStepInv DEF FetchInv
<1>7. FetchTypeOK'
  <2>1. body' \in [OpIds -> BodyType]
    BY <1>1
  <2>2. QED
    BY <1>5, <2>1 DEF FetchTypeOK, NoNewJobs, BodyType
<1>8. Bodies'
  BY <1>2, <1>3 DEF FetchInv, Bodies
<1>9. Fetched'
  <2>1. \A j \in Jobs : job'[j] = "pulled" => j[2] \in local'
    BY <1>1 DEF FetchInv, Fetched, NoNewJobs
  <2>2. \A o \in OpIds :
          body'[o].step = "removing" /\ body'[o].outcome = "ok" => body'[o].goal \in local'
    BY <1>2 DEF FetchInv, Fetched, NoNewJobs
  <2>3. ASSUME NEW o \in OpIds, body'[o].step \notin Early, NEW k \in 1..body'[o].count,
               k < body'[o].goal \/ body'[o].step \in {"swapping", "waiting"}
        PROVE  k \in local' \/ k \in body'[o].softened
    <3>1. CASE o = i
      BY <1>2, <2>3, <3>1
    <3>2. CASE o # i
      BY <1>2, <2>3, <3>2 DEF FetchInv, Fetched, NoNewJobs
    <3>3. QED
      BY <3>1, <3>2
  <2>4. QED
    BY <2>1, <2>2, <2>3 DEF Fetched
<1>10. \A j \in Known' : j \in Jobs /\ (j \in Known \/ (j = <<i, b.goal>> /\ b.step = "creating"))
  <2>1. \A j \in Present' : j \in Present
    BY <1>1 DEF NoNewJobs, Present
  <2>2. \A x \in OpIds : listed'[x] \subseteq listed[x] /\ due'[x] \subseteq due[x]
    BY DEF NoNewJobs
  <2>3. QED
    BY <1>1, <1>4, <1>5, <2>1, <2>2 DEF Known, Present
<1>11. JobLife'
  <2>1. ASSUME NEW j \in Known'
        PROVE  /\ pc'[j[1]] # "none"
               /\ pc'[j[1]] = "working" =>
                    body'[j[1]].step \notin Early /\ j[2] <= body'[j[1]].goal
    <3>1. CASE j[1] = i
      <4>1. b.step \notin Early /\ j[2] <= b.goal
        BY <1>4, <1>10, <2>1, <3>1, FetchAssumption DEF Early, Goals
      <4>2. QED
        BY <1>2, <1>3, <3>1, <4>1
    <3>2. CASE j[1] # i
      <4>1. j \in Known /\ j[1] \in OpIds
        BY <1>10, <2>1, <3>2 DEF Jobs
      <4>2. QED
        BY <1>2, <1>3, <3>2, <4>1 DEF FetchInv, JobLife
    <3>3. QED
      BY <3>1, <3>2
  <2>2. ASSUME NEW j \in sent'
        PROVE  j \notin Present' /\ \A x \in OpIds : j \notin listed'[x] /\ j \notin due'[x]
    <3>1. CASE j \in sent
      BY <1>1, <3>1 DEF FetchInv, JobLife, NoNewJobs, Present
    <3>2. CASE j \notin sent
      <4>1. j = <<i, b.goal>> /\ j \notin Known /\ j \in Jobs
        BY <1>4, <2>2, <3>2
      <4>2. QED
        BY <4>1 DEF Known, NoNewJobs, Present
    <3>3. QED
      BY <3>1, <3>2
  <2>3. \A o \in OpIds : body'[o].step \in {"polling", "removing"} =>
          <<o, body'[o].goal>> \notin sent'
    BY <1>2, <1>5 DEF FetchInv, JobLife, Fetch
  <2>4. ASSUME NEW j \in Present' \union sent'
        PROVE  \/ j \in left'
               \/ /\ pc'[j[1]] = "working"
                  /\ body'[j[1]].step \in Minding
                  /\ j[2] = body'[j[1]].goal
    <3>1. j \in Jobs /\ (job'[j] # "none" \/ j \in sent')
      BY <1>5, <2>4 DEF Present
    <3>2. CASE j[1] = i
      BY <1>2, <1>3, <3>1, <3>2
    <3>3. CASE j[1] # i
      <4>1. j \in Present \union sent /\ j[1] \in OpIds
        BY <1>1, <1>5, <3>1, <3>3 DEF NoNewJobs, Present, Jobs
      <4>2. CASE j \in left
        BY <3>1, <4>2, <1>5, <3>3 DEF NoNewJobs
      <4>3. CASE j \notin left
        BY <1>2, <1>3, <3>3, <4>1, <4>3 DEF FetchInv, JobLife
      <4>4. QED
        BY <4>2, <4>3
    <3>4. QED
      BY <3>2, <3>3
  <2>5. QED
    BY <2>1, <2>2, <2>3, <2>4 DEF JobLife, Fetch
<1>12. Sweeps'
  BY <1>1, <1>3 DEF FetchInv, Sweeps, NoNewJobs, Present
<1>13. QED
  BY <1>6, <1>7, <1>8, <1>9, <1>11, <1>12 DEF FetchInv
\* A body that ends its op keeps the invariant if it has left nothing behind
\* without saying so.
LEMMA EndKeeps ==
  ASSUME NEW i \in OpIds,
         FetchInv, Return(i) \/ Raise(i), NoNewJobs,
         sent' \subseteq sent,
         \A j \in Jobs : (job'[j] # "none" \/ j \in sent') /\ j[1] = i => j \in left'
  PROVE  FetchInv'
<1>1. /\ body \in [OpIds -> BodyType] /\ sent \subseteq Jobs
      /\ job \in [Jobs -> {"none", "preparing", "pulled", "rejected"}]
      /\ local \subseteq Goals /\ left \subseteq Jobs
      /\ listed \in [OpIds -> SUBSET Jobs] /\ due \in [OpIds -> SUBSET Jobs]
      /\ pc \in [OpIds -> {"none", "working", "notifying", "ended"}]
      /\ status \in [OpIds -> {"none", "running", "success", "error", "lost"}]
  BY DEF FetchInv, FetchTypeOK, BodyType, OpsInv, OpsTypeOK
<1>2. Succeed(i) \/ Fail(i)
  BY DEF Return, Raise
<1>3. /\ body' = [body EXCEPT ![i] = Over]
      /\ pc[i] = "working" /\ pc' = [pc EXCEPT ![i] = "notifying"]
      /\ status' = [status EXCEPT ![i] = "success"] \/ status' = [status EXCEPT ![i] = "error"]
  BY DEF Return, Raise, Succeed, Fail
<1>4. /\ body'[i] = Over /\ \A o \in OpIds : o # i => body'[o] = body[o]
      /\ pc'[i] = "notifying" /\ \A o \in OpIds : o # i => pc'[o] = pc[o]
      /\ status'[i] # "running" /\ \A o \in OpIds : o # i => status'[o] = status[o]
  BY <1>1, <1>3
<1>5. /\ Over \in BodyType /\ Over.step = "over" /\ Over.clean = 0 /\ Over.count = 0
  <2>1. Fresh \in BodyType
    <3>1. 1 \in Goals
      BY FetchAssumption DEF Goals
    <3>2. QED
      BY <3>1 DEF Fresh, BodyType
  <2>2. Fresh.clean = 0 /\ Fresh.count = 0
    BY DEF Fresh
  <2> HIDE DEF Fresh
  <2>3. QED
    BY <2>1, <2>2 DEF Over, BodyType
<1>6. OpsInv'
  BY <1>2, DoneInv DEF FetchInv
<1>7. FetchTypeOK'
  <2>1. body' \in [OpIds -> BodyType]
    BY <1>1, <1>3, <1>5
  <2>2. QED
    BY <1>1, <2>1 DEF FetchTypeOK, NoNewJobs, BodyType
<1>8. Bodies'
  BY <1>4, <1>5 DEF FetchInv, Bodies
<1>9. Fetched'
  <2>1. \A j \in Jobs : job'[j] = "pulled" => j[2] \in local'
    BY <1>1 DEF FetchInv, Fetched, NoNewJobs
  <2>2. \A o \in OpIds :
          body'[o].step = "removing" /\ body'[o].outcome = "ok" => body'[o].goal \in local'
    BY <1>4, <1>5 DEF FetchInv, Fetched, NoNewJobs
  <2>3. ASSUME NEW o \in OpIds, body'[o].step \notin Early, NEW k \in 1..body'[o].count,
               k < body'[o].goal \/ body'[o].step \in {"swapping", "waiting"}
        PROVE  k \in local' \/ k \in body'[o].softened
    <3>1. CASE o = i
      BY <1>4, <1>5, <2>3, <3>1
    <3>2. CASE o # i
      BY <1>4, <2>3, <3>2 DEF FetchInv, Fetched, NoNewJobs
    <3>3. QED
      BY <3>1, <3>2
  <2>4. QED
    BY <2>1, <2>2, <2>3 DEF Fetched
<1>10. \A j \in Known' : j \in Jobs /\ j[1] \in OpIds /\ j \in Known
  <2>1. \A j \in Present' : j \in Present
    BY <1>1 DEF NoNewJobs, Present
  <2>2. \A x \in OpIds : listed'[x] \subseteq listed[x] /\ due'[x] \subseteq due[x]
    BY DEF NoNewJobs
  <2>3. QED
    BY <1>1, <2>1, <2>2 DEF Known, Present, Jobs
<1>11. JobLife'
  <2>1. ASSUME NEW j \in Known'
        PROVE  /\ pc'[j[1]] # "none"
               /\ pc'[j[1]] = "working" =>
                    body'[j[1]].step \notin Early /\ j[2] <= body'[j[1]].goal
    BY <1>4, <1>10, <2>1 DEF FetchInv, JobLife
  <2>2. ASSUME NEW j \in sent'
        PROVE  j \notin Present' /\ \A x \in OpIds : j \notin listed'[x] /\ j \notin due'[x]
    BY <1>1, <2>2 DEF FetchInv, JobLife, NoNewJobs, Present
  <2>3. \A o \in OpIds : body'[o].step \in {"polling", "removing"} =>
          <<o, body'[o].goal>> \notin sent'
    BY <1>4, <1>5 DEF FetchInv, JobLife, Fetch
  <2>4. ASSUME NEW j \in Present' \union sent'
        PROVE  \/ j \in left'
               \/ /\ pc'[j[1]] = "working"
                  /\ body'[j[1]].step \in Minding
                  /\ j[2] = body'[j[1]].goal
    <3>1. j \in Jobs /\ (job'[j] # "none" \/ j \in sent')
      BY <1>1, <2>4 DEF Present
    <3>2. CASE j[1] = i
      BY <3>1, <3>2
    <3>3. CASE j[1] # i
      <4>1. j \in Present \union sent /\ j[1] \in OpIds
        BY <1>1, <3>1, <3>3 DEF NoNewJobs, Present, Jobs
      <4>2. CASE j \in left
        BY <3>1, <4>2 DEF NoNewJobs
      <4>3. CASE j \notin left
        BY <1>4, <3>3, <4>1, <4>3 DEF FetchInv, JobLife
      <4>4. QED
        BY <4>2, <4>3
    <3>4. QED
      BY <3>2, <3>3
  <2>5. QED
    BY <2>1, <2>2, <2>3, <2>4 DEF JobLife, Fetch
<1>12. Sweeps'
  <2>1. ASSUME NEW x \in OpIds, NEW j \in due'[x]
        PROVE  status'[j[1]] # "running" /\ (j \in Present' => j \in listed'[x])
    <3>1. j \in due[x] /\ j \in Jobs /\ j[1] \in OpIds
      BY <1>1, <2>1 DEF NoNewJobs, Jobs
    <3>2. status'[j[1]] # "running"
      BY <1>4, <3>1 DEF FetchInv, Sweeps
    <3>3. QED
      BY <2>1, <3>2 DEF NoNewJobs, Present
  <2>2. QED
    BY <2>1 DEF Sweeps
<1>13. QED
  BY <1>6, <1>7, <1>8, <1>9, <1>11, <1>12 DEF FetchInv

\* The loop over the pairs comes to pair k, with everything before it settled and
\* every earlier job of the op gone or left behind.
LEMMA OnwardKeeps ==
  ASSUME NEW i \in OpIds, NEW k \in Nat \ {0}, NEW soft \in SUBSET Goals, NEW asked \in SUBSET sent,
         FetchInv, pc[i] = "working", NoNewJobs, Onward(i, k, soft, asked),
         body[i].step \notin {"starting", "swapping", "waiting"},
         \A m \in 1..body[i].count : m < k => m \in local' \/ m \in soft,
         body[i].step \in Early \/ body[i].goal < k,
         \A j \in Jobs : (job'[j] # "none" \/ j \in asked) /\ j[1] = i => j \in left'
  PROVE  FetchInv'
<1>1. /\ body \in [OpIds -> BodyType] /\ body[i] \in BodyType /\ sent \subseteq Jobs
      /\ body[i].count \in Nat /\ body[i].goal \in Nat
  BY FetchAssumption DEF FetchInv, FetchTypeOK, BodyType, Goals
<1>2. \A j \in Known :
        j[2] \in Nat /\ (j[1] = i => body[i].step \notin Early /\ j[2] <= body[i].goal)
  <2>1. Known \subseteq Jobs
    BY DEF Known, Present, FetchInv, FetchTypeOK
  <2>2. QED
    BY <2>1, FetchAssumption DEF FetchInv, JobLife, Jobs, Goals
<1>3. CASE (Return(i) \/ Raise(i)) /\ sent' = asked
  BY <1>3, EndKeeps
<1>4. ASSUME More(i, k), NEW s \in {"creating", "streaming"},
             body' = [body EXCEPT ![i].step = s, ![i].goal = k,
                                  ![i].softened = soft, ![i].outcome = "none"],
             sent' = IF s = "creating" THEN asked \union {<<i, k>>} ELSE asked,
             UNCHANGED opsVars
      PROVE  FetchInv'
  <2>1. k \in Goals /\ k <= body[i].count
    BY <1>1, <1>4, FetchAssumption DEF More, Goals, BodyType
  <2> DEFINE b == [body[i] EXCEPT !.step = s, !.goal = k, !.softened = soft, !.outcome = "none"]
  <2>3. body' = [body EXCEPT ![i] = b]
    BY <1>4
  <2>4. /\ b \in BodyType
        /\ b.step = s /\ b.goal = k /\ b.softened = soft
        /\ b.count = body[i].count /\ b.clean = body[i].clean /\ b.seen = body[i].seen
    BY <1>1, <2>1 DEF BodyType
  <2>5. b.clean = 1 => b.seen = "clean"
    BY <2>4 DEF FetchInv, Bodies
  <2>6. \A j \in Known : j[1] = i => j[2] <= b.goal /\ j # <<i, k>>
    <3> SUFFICES ASSUME NEW j \in Known, j[1] = i PROVE j[2] <= b.goal /\ j # <<i, k>>
      OBVIOUS
    <3>1. j[2] \in Nat /\ j[2] <= body[i].goal /\ body[i].goal < k
      BY <1>2
    <3>2. QED
      BY <1>1, <2>4, <3>1
  <2>7. \A m \in 1..b.count :
          m < b.goal \/ b.step \in {"swapping", "waiting"} => m \in local' \/ m \in b.softened
    BY <2>4
  <2>8. \A j \in Jobs : (job'[j] # "none" \/ j \in sent') /\ j[1] = i =>
          j \in left' \/ (b.step \in Minding /\ j[2] = b.goal)
    BY <1>4, <2>4 DEF Minding
  <2>9. sent' \subseteq sent \/ /\ sent' \subseteq sent \union {<<i, b.goal>>}
                                /\ b.step = "creating"
                                /\ <<i, b.goal>> \notin Known
    BY <1>4, <2>4, <2>6
  <2>10. b.step \notin {"starting", "over", "polling", "removing"} /\ b.step \notin Early
    BY <2>4 DEF Early
  <2> HIDE DEF b
  <2>11. QED
    BY <1>4, <2>3, <2>4, <2>5, <2>6, <2>7, <2>8, <2>9, <2>10, MoveKeeps
<1>5. ASSUME ~More(i, k),
             body' = [body EXCEPT ![i].step = "swapping", ![i].goal = body[i].goal,
                                  ![i].softened = soft, ![i].outcome = "none"],
             sent' = asked,
             UNCHANGED opsVars
      PROVE  FetchInv'
  <2> DEFINE b == [body[i] EXCEPT !.step = "swapping", !.goal = body[i].goal,
                                  !.softened = soft, !.outcome = "none"]
  <2>2. body' = [body EXCEPT ![i] = b]
    BY <1>5
  <2>3. /\ b \in BodyType
        /\ b.step = "swapping" /\ b.goal = body[i].goal /\ b.softened = soft
        /\ b.count = body[i].count /\ b.clean = body[i].clean /\ b.seen = body[i].seen
    BY <1>1 DEF BodyType
  <2>4. b.clean = 1 => b.seen = "clean"
    BY <2>3 DEF FetchInv, Bodies
  <2>5. \A m \in 1..b.count : m \in local' \/ m \in b.softened
    BY <1>1, <1>5, <2>3 DEF More
  <2>6. \A j \in Known : j[1] = i => j[2] <= b.goal
    BY <1>2, <2>3
  <2>7. \A j \in Jobs : (job'[j] # "none" \/ j \in sent') /\ j[1] = i => j \in left'
    BY <1>5
  <2> HIDE DEF b
  <2>8. QED
    BY <1>5, <2>2, <2>3, <2>4, <2>5, <2>6, <2>7, MoveKeeps DEF Early
<1>6. CASE More(i, k)
  <2>1. CASE \E s \in {"creating", "streaming"} :
               /\ body' = [body EXCEPT ![i].step = s, ![i].goal = k,
                                       ![i].softened = soft, ![i].outcome = "none"]
               /\ sent' = IF s = "creating" THEN asked \union {<<i, k>>} ELSE asked
               /\ UNCHANGED opsVars
    BY <1>4, <1>6, <2>1
  <2>2. CASE Raise(i) /\ sent' = asked
    BY <1>3, <2>2
  <2>3. QED
    BY <1>6, <2>1, <2>2 DEF Onward
<1>7. QED
  BY <1>3, <1>5, <1>6 DEF Onward
\* The fetch of a pair is over and its job gone or left behind.
LEMMA SettleKeeps ==
  ASSUME NEW i \in OpIds, NEW o, NEW asked \in SUBSET sent,
         FetchInv, pc[i] = "working", NoNewJobs, Settle(i, o, asked),
         body[i].step \in {"creating", "streaming", "removing"},
         o = "ok" => body[i].goal \in local',
         \A j \in Jobs : (job'[j] # "none" \/ j \in asked) /\ j[1] = i => j \in left'
  PROVE  FetchInv'
<1>1. /\ body[i].goal \in Goals /\ body[i].goal \in Nat /\ body[i].goal + 1 \in Nat \ {0}
      /\ body[i].count \in Nat /\ body[i].softened \in SUBSET Goals
  BY FetchAssumption DEF FetchInv, FetchTypeOK, Goals
<1>2. body[i].step \notin Early
  BY DEF Early
<1>3. \A m \in 1..body[i].count : m < body[i].goal => m \in local' \/ m \in body[i].softened
  BY <1>1, <1>2 DEF FetchInv, Fetched, NoNewJobs
<1>4. ASSUME NEW soft \in SUBSET Goals, body[i].softened \subseteq soft,
             body[i].goal \in local' \/ body[i].goal \in soft,
             Onward(i, body[i].goal + 1, soft, asked)
      PROVE  FetchInv'
  <2>1. \A m \in 1..body[i].count : m < body[i].goal + 1 => m \in local' \/ m \in soft
    BY <1>1, <1>3, <1>4
  <2>2. QED
    BY <1>1, <1>4, <2>1, OnwardKeeps
<1>5. CASE o = "ok" /\ Onward(i, body[i].goal + 1, body[i].softened, asked)
  BY <1>1, <1>4, <1>5
<1>6. CASE Onward(i, body[i].goal + 1, body[i].softened \union {body[i].goal}, asked)
  BY <1>1, <1>4, <1>6
<1>7. CASE Raise(i) /\ sent' = asked
  BY <1>7, EndKeeps
<1>8. QED
  BY <1>5, <1>6, <1>7 DEF Settle

-------------------------------------------------------------------------------
(* Every step preserves the invariant.                                     *)

\* What the sweeps, jobs, images and rollouts look like when a step leaves them
\* alone.
LEMMA StillNoNewJobs ==
  ASSUME FetchInv, listed' = listed, due' = due, job' = job, local' = local, left' = left,
         rollout' = rollout
  PROVE  NoNewJobs
  BY DEF FetchInv, FetchTypeOK, Sweeps, NoNewJobs, Present

\* What is minded at most: the job of the pair a working body is at.
LEMMA OthersAreLeft ==
  ASSUME NEW i \in OpIds, FetchInv
  PROVE  /\ \A j \in Jobs : (job[j] # "none" \/ j \in sent) /\ j[1] = i /\ j # Fetch(i) => j \in left
         /\ body[i].step \notin Minding =>
              \A j \in Jobs : (job[j] # "none" \/ j \in sent) /\ j[1] = i => j \in left
<1>1. \A j \in Jobs : (job[j] # "none" \/ j \in sent) /\ j[1] = i =>
        j \in left \/ (body[i].step \in Minding /\ j[2] = body[i].goal)
  BY DEF FetchInv, JobLife, Present
<1>2. \A j \in Jobs : j[1] = i /\ j[2] = body[i].goal => j = Fetch(i)
  BY DEF Jobs, Fetch
<1>3. QED
  BY <1>1, <1>2

\* The images are resolved, the op has nothing to fetch, or it fails at once.
LEMMA ResolveKeeps ==
  ASSUME NEW i \in OpIds, FetchInv, Resolve(i)
  PROVE  FetchInv'
<1>1. /\ pc[i] = "working" /\ body[i].step = "starting"
      /\ body[i].clean = 0 /\ body[i].count = 0
      /\ body[i] \in BodyType
  BY DEF Resolve, At, FetchInv, Bodies, FetchTypeOK, BodyType, Fresh
<1>2. NoNewJobs /\ sent' = sent
  BY StillNoNewJobs DEF Resolve, jobVars
<1>3. \A j \in Known : j[1] # i
  BY <1>1 DEF FetchInv, JobLife, Early
<1>4. \A j \in Jobs : (job'[j] # "none" \/ j \in sent') /\ j[1] = i => j \in left'
  BY <1>3 DEF Resolve, jobVars, Known, Present
<1>5. CASE Raise(i)
  BY <1>2, <1>4, <1>5, EndKeeps
<1>6. ASSUME NEW b \in BodyType, b.step \in {"listing", "swapping"},
             b.step = "swapping" => b.count = 0,
             b.clean = 0,
             body' = [body EXCEPT ![i] = b], UNCHANGED opsVars
      PROVE  FetchInv'
  <2>1. \A m \in 1..b.count : b.step \notin Early => m \in local' \/ m \in b.softened
    BY <1>6 DEF Early
  <2>2. \A j \in Known : j[1] = i => b.step \notin Early /\ j[2] <= b.goal
    BY <1>3
  <2>3. b.step \notin {"starting", "over", "removing", "polling", "creating"} /\ b.clean # 1
    BY <1>6
  <2>4. QED
    BY <1>1, <1>2, <1>4, <1>6, <2>1, <2>2, <2>3, MoveKeeps
<1>7. CASE body' = [body EXCEPT ![i].step = "listing", ![i].count = Images] /\ UNCHANGED opsVars
  <2> DEFINE b == [body[i] EXCEPT !.step = "listing", !.count = Images]
  <2>1. b \in BodyType /\ b.step = "listing" /\ b.clean = 0
    BY <1>1 DEF BodyType
  <2>2. body' = [body EXCEPT ![i] = b]
    BY <1>7
  <2> HIDE DEF b
  <2>3. QED
    BY <1>6, <1>7, <2>1, <2>2
<1>8. CASE GoTo(i, "swapping") /\ UNCHANGED opsVars
  <2> DEFINE b == [body[i] EXCEPT !.step = "swapping"]
  <2>1. b \in BodyType /\ b.step = "swapping" /\ b.clean = 0 /\ b.count = 0
    BY <1>1 DEF BodyType
  <2>2. body' = [body EXCEPT ![i] = b]
    BY <1>8 DEF GoTo
  <2> HIDE DEF b
  <2>3. QED
    BY <1>6, <1>8, <2>1, <2>2
<1>9. QED
  BY <1>5, <1>7, <1>8 DEF Resolve

\* A pull streamed through Portainer has no job.
LEMMA StreamedKeeps ==
  ASSUME NEW i \in OpIds, FetchInv, Streamed(i)
  PROVE  FetchInv'
<1>1. PICK o \in {"ok", "auth", "failed", "timeout"} :
        /\ local' = IF o = "ok" THEN local \union {body[i].goal} ELSE local
        /\ Settle(i, o, sent)
  BY DEF Streamed
<1>2. pc[i] = "working" /\ body[i].step = "streaming" /\ body[i].goal \in Goals
  BY DEF Streamed, At, FetchInv, FetchTypeOK
<1>3. local' \in SUBSET Goals /\ local \subseteq local' /\ (o = "ok" => body[i].goal \in local')
  BY <1>1, <1>2 DEF FetchInv, FetchTypeOK
<1>4. NoNewJobs
  BY <1>3 DEF Streamed, FetchInv, FetchTypeOK, Sweeps, NoNewJobs, Present
<1>5. \A j \in Jobs : (job'[j] # "none" \/ j \in sent) /\ j[1] = i => j \in left'
  BY <1>2, OthersAreLeft DEF Streamed, Minding
<1>6. QED
  BY <1>1, <1>2, <1>3, <1>4, <1>5, SettleKeeps
\* The job's creation is refused: it is neither there nor asked for any more.
LEMMA RefusedKeeps ==
  ASSUME NEW i \in OpIds, FetchInv, Refused(i)
  PROVE  FetchInv'
<1>1. PICK o \in {"auth", "failed"} : Settle(i, o, sent \ {Fetch(i)})
  BY DEF Refused
<1>2. pc[i] = "working" /\ body[i].step = "creating" /\ Fetch(i) \in sent
  BY DEF Refused, At
<1>3. Fetch(i) \notin Present
  BY <1>2 DEF FetchInv, JobLife
<1>4. NoNewJobs
  BY StillNoNewJobs DEF Refused
<1>5. \A j \in Jobs : (job'[j] # "none" \/ j \in sent \ {Fetch(i)}) /\ j[1] = i => j \in left'
  BY <1>3, OthersAreLeft DEF Refused, Present
<1>6. QED
  BY <1>1, <1>2, <1>4, <1>5, SettleKeeps

\* The answer to the creation is lost: the job is left behind, and said to be.
LEMMA CreateLostKeeps ==
  ASSUME NEW i \in OpIds, FetchInv, CreateLost(i)
  PROVE  FetchInv'
<1>1. Fetch(i) \in Jobs
  BY DEF Fetch, Jobs, FetchInv, FetchTypeOK
<1>2. NoNewJobs /\ sent' = sent
  BY <1>1 DEF CreateLost, FetchInv, FetchTypeOK, Sweeps, NoNewJobs, Present
<1>3. \A j \in Jobs : (job'[j] # "none" \/ j \in sent') /\ j[1] = i => j \in left'
  BY OthersAreLeft DEF CreateLost
<1>4. QED
  BY <1>2, <1>3, EndKeeps DEF CreateLost

\* The job is removed, or left behind when the removal is refused.
LEMMA RemoveJobKeeps ==
  ASSUME NEW i \in OpIds, FetchInv, RemoveJob(i)
  PROVE  FetchInv'
<1>1. /\ pc[i] = "working" /\ body[i].step = "removing"
      /\ body[i].outcome = "ok" => body[i].goal \in local
      /\ Fetch(i) \notin sent
  BY DEF RemoveJob, At, FetchInv, Fetched, JobLife
<1>2. Fetch(i) \in Jobs
  BY DEF Fetch, Jobs, FetchInv, FetchTypeOK
<1>3. \/ job' = [job EXCEPT ![Fetch(i)] = "none"] /\ left' = left
      \/ left' = left \union {Fetch(i)} /\ job' = job
  BY DEF RemoveJob
<1>4. NoNewJobs
  BY <1>2, <1>3 DEF RemoveJob, FetchInv, FetchTypeOK, Sweeps, NoNewJobs, Present
<1>5. \A j \in Jobs : (job'[j] # "none" \/ j \in sent) /\ j[1] = i => j \in left'
  BY <1>1, <1>2, <1>3, OthersAreLeft DEF FetchInv, FetchTypeOK
<1>6. QED
  BY <1>1, <1>4, <1>5, SettleKeeps DEF RemoveJob

\* The creation is answered and the job polled until the poll or its deadline
\* says what came of it.
LEMMA PollKeeps ==
  ASSUME NEW i \in OpIds, FetchInv, Created(i) \/ Poll(i) \/ PollRaises(i)
  PROVE  FetchInv'
<1>1. /\ pc[i] = "working" /\ body[i].step \in {"creating", "polling"}
      /\ body[i] \in BodyType
      /\ body[i].clean = 1 => body[i].seen = "clean"
  BY DEF Created, Poll, PollRaises, At, FetchInv, FetchTypeOK, Bodies, BodyType
<1>2. NoNewJobs /\ sent' = sent /\ job' = job /\ local' = local /\ left' = left
      /\ UNCHANGED opsVars
  BY StillNoNewJobs DEF Created, Poll, PollRaises, jobVars
<1>3. \A m \in 1..body[i].count : m < body[i].goal => m \in local \/ m \in body[i].softened
  BY <1>1 DEF FetchInv, Fetched, Early
<1>4. \A j \in Known : j[1] = i => j[2] <= body[i].goal
  BY <1>1 DEF FetchInv, JobLife
<1>5. Fetch(i) \notin sent
  BY DEF Created, Poll, PollRaises, At, FetchInv, JobLife
<1>6. Fetch(i) \in Jobs /\ Fetch(i)[2] = body[i].goal
  BY DEF Fetch, Jobs, FetchInv, FetchTypeOK
<1>7. ASSUME NEW b \in BodyType, b.step \in {"polling", "removing"},
             b.goal = body[i].goal, b.count = body[i].count, b.softened = body[i].softened,
             b.clean = body[i].clean, b.seen = body[i].seen,
             b.step = "removing" /\ b.outcome = "ok" => b.goal \in local,
             body' = [body EXCEPT ![i] = b]
      PROVE  FetchInv'
  <2>1. \A m \in 1..b.count :
          m < b.goal \/ b.step \in {"swapping", "waiting"} => m \in local' \/ m \in b.softened
    BY <1>2, <1>3, <1>7
  <2>2. \A j \in Known : j[1] = i => b.step \notin Early /\ j[2] <= b.goal
    BY <1>4, <1>7 DEF Early
  <2>3. <<i, b.goal>> \notin sent'
    BY <1>2, <1>5, <1>7 DEF Fetch
  <2>4. \A j \in Jobs : (job'[j] # "none" \/ j \in sent') /\ j[1] = i =>
          j \in left' \/ (b.step \in Minding /\ j[2] = b.goal)
    BY <1>2, <1>6, <1>7, OthersAreLeft DEF Minding
  <2>5. b.step \notin {"starting", "over"} /\ (b.clean = 1 => b.seen = "clean")
    BY <1>1, <1>7
  <2>6. QED
    BY <1>1, <1>2, <1>7, <2>1, <2>2, <2>3, <2>4, <2>5, MoveKeeps
<1>8. CASE Created(i)
  <2> DEFINE b == [body[i] EXCEPT !.step = "polling"]
  <2>1. body' = [body EXCEPT ![i] = b]
    BY <1>8 DEF Created, GoTo
  <2>2. /\ b \in BodyType /\ b.step = "polling" /\ b.goal = body[i].goal
        /\ b.count = body[i].count /\ b.softened = body[i].softened
        /\ b.clean = body[i].clean /\ b.seen = body[i].seen
    BY <1>1 DEF BodyType
  <2> HIDE DEF b
  <2>3. QED
    BY <1>7, <2>1, <2>2
<1>9. ASSUME NEW o \in {"ok", "auth", "failed", "timeout"},
             body' = [body EXCEPT ![i].step = "removing", ![i].outcome = o],
             o = "ok" => body[i].goal \in local
      PROVE  FetchInv'
  <2> DEFINE b == [body[i] EXCEPT !.step = "removing", !.outcome = o]
  <2>1. body' = [body EXCEPT ![i] = b]
    BY <1>9
  <2>2. /\ b \in BodyType /\ b.step = "removing" /\ b.goal = body[i].goal
        /\ b.count = body[i].count /\ b.softened = body[i].softened
        /\ b.clean = body[i].clean /\ b.seen = body[i].seen /\ b.outcome = o
    BY <1>1 DEF BodyType
  <2> HIDE DEF b
  <2>3. QED
    BY <1>7, <1>9, <2>1, <2>2
<1>10. CASE Poll(i)
  <2>1. PICK o \in PollResult(i) \union {"timeout"} :
          body' = [body EXCEPT ![i].step = "removing", ![i].outcome = o]
    BY <1>10 DEF Poll
  <2>2. o \in {"ok", "auth", "failed", "timeout"} /\ (o = "ok" => job[Fetch(i)] = "pulled")
    BY <2>1 DEF PollResult
  <2>3. o = "ok" => body[i].goal \in local
    BY <1>6, <2>2 DEF FetchInv, Fetched
  <2>4. QED
    BY <1>9, <2>1, <2>2, <2>3
<1>11. CASE PollRaises(i)
  BY <1>9, <1>11 DEF PollRaises
<1>12. QED
  BY <1>8, <1>10, <1>11
\* A body that stops its tasks, waits for the rollout or ends has all its images
\* and keeps them.
LEMMA RolloutKeeps ==
  ASSUME NEW i \in OpIds, FetchInv, Swap(i) \/ ConvergencePoll(i) \/ WaitTimesOut(i)
  PROVE  FetchInv'
<1>1. /\ pc[i] = "working" /\ body[i].step \in {"swapping", "waiting"}
      /\ body[i] \in BodyType
      /\ body[i].clean = 1 => body[i].seen = "clean"
  BY DEF Swap, ConvergencePoll, WaitTimesOut, At, FetchInv, FetchTypeOK, Bodies, BodyType
<1>2. /\ listed' = listed /\ due' = due /\ job' = job /\ local' = local /\ left' = left
      /\ sent' = sent
  BY DEF Swap, ConvergencePoll, WaitTimesOut, jobVars
<1>3. rollout' \in [Targets -> {"done", "accepted", "updating", "abandoned", "unplaceable"}]
  BY DEF Swap, ConvergencePoll, WaitTimesOut, FetchInv, FetchTypeOK
<1>4. NoNewJobs
  BY <1>2, <1>3 DEF NoNewJobs, FetchInv, FetchTypeOK, Sweeps, Present
<1>5. \A j \in Jobs : (job'[j] # "none" \/ j \in sent') /\ j[1] = i => j \in left'
  BY <1>1, <1>2, OthersAreLeft DEF Minding
<1>6. CASE Return(i) \/ Raise(i)
  BY <1>2, <1>4, <1>5, <1>6, EndKeeps
<1>7. ASSUME NEW b \in BodyType, b.step = "waiting",
             b.goal = body[i].goal, b.count = body[i].count, b.softened = body[i].softened,
             b.clean = 1 => b.seen = "clean",
             body' = [body EXCEPT ![i] = b], UNCHANGED opsVars
      PROVE  FetchInv'
  <2>1. \A m \in 1..b.count : m \in local' \/ m \in b.softened
    BY <1>1, <1>2, <1>7 DEF FetchInv, Fetched, Early
  <2>2. \A j \in Known : j[1] = i => b.step \notin Early /\ j[2] <= b.goal
    BY <1>1, <1>7 DEF FetchInv, JobLife, Early
  <2>3. QED
    BY <1>1, <1>2, <1>4, <1>5, <1>7, <2>1, <2>2, MoveKeeps
<1>8. CASE GoTo(i, "waiting") /\ UNCHANGED opsVars
  <2> DEFINE b == [body[i] EXCEPT !.step = "waiting"]
  <2>1. body' = [body EXCEPT ![i] = b]
    BY <1>8 DEF GoTo
  <2>2. /\ b \in BodyType /\ b.step = "waiting" /\ b.goal = body[i].goal
        /\ b.count = body[i].count /\ b.softened = body[i].softened
        /\ b.clean = body[i].clean /\ b.seen = body[i].seen
    BY <1>1 DEF BodyType
  <2> HIDE DEF b
  <2>3. QED
    BY <1>1, <1>7, <1>8, <2>1, <2>2
<1>9. ASSUME body[i].step = "waiting", NEW c \in 0..1, NEW saw \in {"moving", "clean"}, NEW hint \in BOOLEAN,
             c = 1 => saw = "clean",
             body' = [body EXCEPT ![i].clean = c, ![i].seen = saw, ![i].hinted = hint],
             UNCHANGED opsVars
      PROVE  FetchInv'
  <2> DEFINE b == [body[i] EXCEPT !.clean = c, !.seen = saw, !.hinted = hint]
  <2>1. body' = [body EXCEPT ![i] = b]
    BY <1>9
  <2>2. /\ b \in BodyType /\ b.step = "waiting" /\ b.goal = body[i].goal
        /\ b.count = body[i].count /\ b.softened = body[i].softened
        /\ b.clean = c /\ b.seen = saw
    BY <1>1, <1>9 DEF BodyType
  <2> HIDE DEF b
  <2>3. QED
    BY <1>7, <1>9, <2>1, <2>2
<1>10. CASE Swap(i)
  BY <1>6, <1>8, <1>10 DEF Swap
<1>11. CASE ConvergencePoll(i)
  <2>1. body[i].step = "waiting"
    BY <1>11 DEF ConvergencePoll, At
  <2>2. ASSUME NEW hint \in BOOLEAN,
               body' = [body EXCEPT ![i].clean = 0, ![i].seen = "moving", ![i].hinted = hint],
               UNCHANGED opsVars
        PROVE  FetchInv'
    <3>1. 0 \in 0..1 /\ 0 # 1
      OBVIOUS
    <3>2. QED
      BY <1>9, <2>1, <2>2, <3>1
  <2>3. CASE body' = [body EXCEPT ![i].clean = 1, ![i].seen = "clean"] /\ UNCHANGED opsVars
    <3> DEFINE b == [body[i] EXCEPT !.clean = 1, !.seen = "clean"]
    <3>1. body' = [body EXCEPT ![i] = b]
      BY <2>3
    <3>2. /\ b \in BodyType /\ b.step = "waiting" /\ b.goal = body[i].goal
          /\ b.count = body[i].count /\ b.softened = body[i].softened
          /\ b.clean = 1 /\ b.seen = "clean"
      <4>1. 1 \in 0..1 /\ "clean" \in {"never", "moving", "clean"}
        OBVIOUS
      <4>2. b \in BodyType
        BY <1>1, <4>1 DEF BodyType
      <4>3. QED
        BY <1>1, <2>1, <4>2 DEF BodyType
    <3> HIDE DEF b
    <3>3. QED
      BY <1>7, <2>3, <3>1, <3>2
  <2>4. QED
    <3> DEFINE noPlace == rollout[target_id[i]] = "unplaceable" /\ ~body[i].hinted
    <3>1. noPlace \in BOOLEAN
      OBVIOUS
    <3> HIDE DEF noPlace
    <3>2. \/ Return(i) \/ Raise(i)
          \/ /\ \E hint \in {FALSE, noPlace} :
                  body' = [body EXCEPT ![i].clean = 0, ![i].seen = "moving", ![i].hinted = hint]
             /\ UNCHANGED opsVars
          \/ /\ body' = [body EXCEPT ![i].clean = 1, ![i].seen = "clean"]
             /\ UNCHANGED opsVars
      BY <1>11 DEF ConvergencePoll, noPlace
    <3>3. ASSUME NEW hint \in {FALSE, noPlace} PROVE hint \in BOOLEAN
      BY <3>1, Zenon
    <3>4. QED
      BY <1>6, <2>2, <2>3, <3>2, <3>3
<1>12. CASE WaitTimesOut(i)
  BY <1>6, <1>12 DEF WaitTimesOut
<1>13. QED
  BY <1>10, <1>11, <1>12
\* The fetch jobs are listed: a sweep takes on the orphans among them, or the
\* fetch goes on without one.
LEMMA ListKeeps ==
  ASSUME NEW i \in OpIds, FetchInv, List(i)
  PROVE  FetchInv'
<1>1. /\ pc[i] = "working" /\ body[i].step = "listing" /\ body[i] \in BodyType
      /\ body[i].clean = 1 => body[i].seen = "clean"
  BY DEF List, At, FetchInv, FetchTypeOK, Bodies, BodyType
<1>2. job' = job /\ local' = local /\ left' = left /\ rollout' = rollout
  BY DEF List
<1>3. \A j \in Known : j[1] # i
  BY <1>1 DEF FetchInv, JobLife, Early
<1>4. CASE Onward(i, 1, {}, sent) /\ listed' = listed /\ due' = due
  <2>1. NoNewJobs
    BY <1>2, <1>4, StillNoNewJobs
  <2>2. \A j \in Jobs : (job'[j] # "none" \/ j \in sent) /\ j[1] = i => j \in left'
    BY <1>2, <1>3 DEF Known, Present
  <2>3. \A m \in 1..body[i].count : m < 1 => m \in local' \/ m \in {}
    BY <1>1, FetchAssumption DEF BodyType
  <2>4. body[i].step \in Early
    BY <1>1 DEF Early
  <2>5. 1 \in Nat \ {0} /\ {} \in SUBSET Goals /\ sent \in SUBSET sent
    OBVIOUS
  <2>6. QED
    BY <1>1, <1>4, <2>1, <2>2, <2>3, <2>4, <2>5, OnwardKeeps
<1>5. ASSUME listed' = [listed EXCEPT ![i] = Present],
             due' = [due EXCEPT ![i] = Orphans],
             GoTo(i, "sweeping"), UNCHANGED <<opsVars, sent>>
      PROVE  FetchInv'
  <2>1. /\ body \in [OpIds -> BodyType] /\ sent \subseteq Jobs
        /\ listed \in [OpIds -> SUBSET Jobs] /\ due \in [OpIds -> SUBSET Jobs]
    BY DEF FetchInv, FetchTypeOK, BodyType
  <2> DEFINE b == [body[i] EXCEPT !.step = "sweeping"]
  <2>2. body' = [body EXCEPT ![i] = b]
    BY <1>5 DEF GoTo
  <2>3. /\ b \in BodyType /\ b.step = "sweeping"
        /\ b.clean = body[i].clean /\ b.seen = body[i].seen
    BY <1>1 DEF BodyType
  <2> HIDE DEF b
  <2>4. body'[i] = b /\ \A o \in OpIds : o # i => body'[o] = body[o]
    BY <2>1, <2>2
  <2>5. /\ pc' = pc /\ status' = status /\ sent' = sent
        /\ Present' = Present
    BY <1>2, <1>5 DEF opsVars, Present
  <2>6. Present \subseteq Jobs /\ Orphans \subseteq Present
    BY DEF Present, Orphans
  <2>7. /\ listed'[i] = Present /\ \A x \in OpIds : x # i => listed'[x] = listed[x]
        /\ due'[i] = Orphans /\ \A x \in OpIds : x # i => due'[x] = due[x]
    BY <1>5, <2>1
  <2>8. OpsInv'
    BY <1>5, OpsStepInv DEF FetchInv
  <2>9. FetchTypeOK'
    <3>1. body' \in [OpIds -> BodyType]
      BY <2>1, <2>2, <2>3
    <3>2. listed' \in [OpIds -> SUBSET Jobs] /\ due' \in [OpIds -> SUBSET Jobs]
      BY <1>5, <2>1, <2>6
    <3>3. QED
      BY <1>2, <2>5, <3>1, <3>2 DEF FetchInv, FetchTypeOK, BodyType
  <2>10. Bodies'
    BY <1>1, <2>3, <2>4, <2>5 DEF FetchInv, Bodies
  <2>11. Fetched'
    BY <1>2, <2>3, <2>4 DEF FetchInv, Fetched, Early
  <2>12. Known' \subseteq Known
    BY <2>5, <2>6, <2>7 DEF Known
  <2>13. JobLife'
    <3>1. ASSUME NEW j \in Known'
          PROVE  /\ pc'[j[1]] # "none"
                 /\ pc'[j[1]] = "working" =>
                      body'[j[1]].step \notin Early /\ j[2] <= body'[j[1]].goal
      <4>1. j \in Known /\ j[1] # i
        BY <1>3, <2>12, <3>1
      <4>2. j[1] \in OpIds
        BY <2>1, <2>6, <4>1 DEF Known, Jobs
      <4>3. QED
        BY <2>4, <2>5, <4>1, <4>2 DEF FetchInv, JobLife
    <3>2. ASSUME NEW j \in sent'
          PROVE  j \notin Present' /\ \A x \in OpIds : j \notin listed'[x] /\ j \notin due'[x]
      BY <2>5, <2>6, <2>7, <3>2 DEF FetchInv, JobLife
    <3>3. \A o \in OpIds : body'[o].step \in {"polling", "removing"} =>
            <<o, body'[o].goal>> \notin sent'
      BY <2>3, <2>4, <2>5 DEF FetchInv, JobLife, Fetch
    <3>4. ASSUME NEW j \in Present' \union sent'
          PROVE  \/ j \in left'
                 \/ /\ pc'[j[1]] = "working"
                    /\ body'[j[1]].step \in Minding
                    /\ j[2] = body'[j[1]].goal
      <4>1. j[1] \in OpIds /\ j[1] # i /\ j \in Present \union sent
        BY <1>3, <2>1, <2>5, <2>6, <3>4 DEF Known, Jobs
      <4>2. QED
        BY <1>2, <2>4, <2>5, <4>1 DEF FetchInv, JobLife
    <3>5. QED
      BY <3>1, <3>2, <3>3, <3>4 DEF JobLife, Fetch
  <2>14. Sweeps'
    BY <2>5, <2>6, <2>7 DEF FetchInv, Sweeps, Orphans
  <2>15. QED
    BY <2>8, <2>9, <2>10, <2>11, <2>13, <2>14 DEF FetchInv
<1>6. QED
  BY <1>4, <1>5 DEF List

\* One job less to look at, or the end of the sweep.
LEMMA SweepKeeps ==
  ASSUME NEW i \in OpIds, FetchInv, Sweep(i) \/ SweepEnds(i)
  PROVE  FetchInv'
<1>1. /\ pc[i] = "working" /\ body[i].step = "sweeping" /\ body[i] \in BodyType
      /\ local' = local /\ rollout' = rollout
  BY DEF Sweep, SweepEnds, At, FetchInv, FetchTypeOK, BodyType
<1>2. /\ listed \in [OpIds -> SUBSET Jobs] /\ due \in [OpIds -> SUBSET Jobs]
      /\ job \in [Jobs -> {"none", "preparing", "pulled", "rejected"}]
      /\ body \in [OpIds -> BodyType] /\ sent \subseteq Jobs
  BY DEF FetchInv, FetchTypeOK, BodyType
<1>3. \A j \in Known : j[1] # i
  BY <1>1 DEF FetchInv, JobLife, Early
<1>4. ASSUME listed' = [listed EXCEPT ![i] = {}], due' = [due EXCEPT ![i] = {}],
             Onward(i, 1, {}, sent), job' = job, left' = left
      PROVE  FetchInv'
  <2>1. NoNewJobs
    BY <1>1, <1>2, <1>4 DEF FetchInv, FetchTypeOK, Sweeps, NoNewJobs, Present
  <2>2. \A j \in Jobs : (job'[j] # "none" \/ j \in sent) /\ j[1] = i => j \in left'
    BY <1>3, <1>4 DEF Known, Present
  <2>3. \A m \in 1..body[i].count : m < 1 => m \in local' \/ m \in {}
    BY <1>1, FetchAssumption DEF BodyType
  <2>4. body[i].step \in Early
    BY <1>1 DEF Early
  <2>5. 1 \in Nat \ {0} /\ {} \in SUBSET Goals /\ sent \in SUBSET sent
    OBVIOUS
  <2>6. QED
    BY <1>1, <1>4, <2>1, <2>2, <2>3, <2>4, <2>5, OnwardKeeps
<1>5. ASSUME NEW j \in Swept(i), NEW passed \in SUBSET (listed[i] \ Swept(i)),
             listed' = [listed EXCEPT ![i] = @ \ ({j} \union passed)],
             \/ /\ job' = [job EXCEPT ![j] = "none"]
                /\ left' = left \ {j}
                /\ UNCHANGED due
             \/ due' = [due EXCEPT ![i] = @ \ {j}] /\ UNCHANGED <<job, left>>,
             UNCHANGED <<opsVars, body, sent>>
      PROVE  FetchInv'
  <2>1. j \in Jobs /\ j \in listed[i] /\ j \notin sent
    BY <1>2, <1>5 DEF Swept, FetchInv, JobLife
  \* What the loop passed over is awaited, so no orphan of this sweep.
  <2>2. \A q \in passed : q \notin due[i]
    BY <1>5 DEF Swept, Awaited, FetchInv, Sweeps
  <2>3. /\ listed'[i] = listed[i] \ ({j} \union passed)
        /\ \A x \in OpIds : x # i => listed'[x] = listed[x]
        /\ listed' \in [OpIds -> SUBSET Jobs]
    BY <1>2, <1>5
  <2>4. /\ job' \in [Jobs -> {"none", "preparing", "pulled", "rejected"}]
        /\ \A q \in Jobs : job'[q] = job[q] \/ job'[q] = "none"
        /\ left' \in SUBSET Jobs
        /\ \A q \in left : q \in left' \/ (job'[q] = "none" /\ q \notin sent)
    BY <1>2, <1>5, <2>1 DEF FetchInv, FetchTypeOK
  <2>5. /\ due' \in [OpIds -> SUBSET Jobs]
        /\ \A x \in OpIds : due'[x] \subseteq due[x]
        /\ job'[j] = "none" \/ j \notin due'[i]
    BY <1>2, <1>5, <2>1
  <2>6. ASSUME NEW x \in OpIds, NEW q \in due'[x], job'[q] # "none"
        PROVE  q \in listed'[x]
    <3>1. q \in Jobs /\ q \in due[x] /\ job[q] # "none"
      BY <1>2, <2>4, <2>5, <2>6
    <3>2. q \in listed[x]
      BY <3>1 DEF FetchInv, Sweeps, Present
    <3>3. QED
      BY <2>2, <2>3, <2>5, <2>6, <3>1, <3>2
  <2>7. NoNewJobs
    <3>1. \A x \in OpIds : listed'[x] \subseteq listed[x]
      BY <2>3
    <3>2. local' \in SUBSET Goals /\ local \subseteq local'
          /\ rollout' \in [Targets -> {"done", "accepted", "updating", "abandoned", "unplaceable"}]
      BY <1>1 DEF FetchInv, FetchTypeOK
    <3>3. QED
      BY <2>3, <2>4, <2>5, <2>6, <3>1, <3>2 DEF NoNewJobs
  <2>8. body' = [body EXCEPT ![i] = body[i]] /\ sent' = sent /\ UNCHANGED opsVars
    BY <1>2, <1>5
  <2>9. body[i].clean = 1 => body[i].seen = "clean"
    BY DEF FetchInv, Bodies
  <2>10. \A q \in Known : q[1] = i => body[i].step \notin Early /\ q[2] <= body[i].goal
    BY <1>3
  <2>11. \A q \in Jobs : (job'[q] # "none" \/ q \in sent') /\ q[1] = i => q \in left'
    BY <1>3, <2>4, <2>8 DEF Known, Present
  <2>12. body[i].step \in Early
    BY <1>1 DEF Early
  <2>13. QED
    BY <1>1, <2>7, <2>8, <2>9, <2>10, <2>11, <2>12, MoveKeeps
<1>6. QED
  BY <1>1, <1>4, <1>5 DEF Sweep, SweepEnds
\* So every step of a body.
LEMMA BodyStepKeeps ==
  ASSUME NEW i \in OpIds, FetchInv, BodyStep(i) \/ PollRaises(i) \/ WaitTimesOut(i)
  PROVE  FetchInv'
  BY ResolveKeeps, ListKeeps, SweepKeeps, StreamedKeeps, RefusedKeeps, CreateLostKeeps,
     PollKeeps, RemoveJobKeeps, RolloutKeeps DEF BodyStep

\* Swarm obeys a creation: the job, which nobody has listed yet, is as much minded
\* or left behind as the request was.
LEMMA SwarmCreatesKeeps ==
  ASSUME FetchInv, SwarmCreates
  PROVE  FetchInv'
<1>1. PICK j \in sent : /\ sent' = sent \ {j}
                        /\ job' = [job EXCEPT ![j] = "preparing"]
                        /\ UNCHANGED <<opsVars, body, listed, local, left, due, rollout>>
  BY DEF SwarmCreates
<1>2. /\ sent \subseteq Jobs /\ j \in Jobs
      /\ job \in [Jobs -> {"none", "preparing", "pulled", "rejected"}]
  BY DEF FetchInv, FetchTypeOK
<1>3. /\ job'[j] = "preparing" /\ \A q \in Jobs : q # j => job'[q] = job[q]
      /\ Present' = Present \union {j}
  BY <1>1, <1>2 DEF Present
<1>4. /\ pc' = pc /\ status' = status /\ body' = body /\ local' = local /\ left' = left
      /\ listed' = listed /\ due' = due /\ rollout' = rollout
  BY <1>1 DEF opsVars
<1>5. OpsInv'
  BY <1>1, OpsStepInv DEF FetchInv
<1>6. FetchTypeOK'
  BY <1>1, <1>2, <1>4 DEF FetchInv, FetchTypeOK
<1>7. Bodies' /\ Fetched'
  BY <1>3, <1>4 DEF FetchInv, Bodies, Fetched
<1>8. Known' = Known
  BY <1>1, <1>3, <1>4 DEF Known
<1>9. JobLife'
  BY <1>1, <1>3, <1>4, <1>8 DEF FetchInv, JobLife, Fetch
<1>10. Sweeps'
  BY <1>3, <1>4 DEF FetchInv, Sweeps, JobLife
<1>11. QED
  BY <1>5, <1>6, <1>7, <1>9, <1>10 DEF FetchInv

\* A node gets on with a job, or Swarm with a rollout.
LEMMA SwarmMovesKeeps ==
  ASSUME FetchInv, JobMoves \/ RolloutMoves
  PROVE  FetchInv'
<1>1. /\ pc' = pc /\ status' = status /\ body' = body /\ left' = left /\ sent' = sent
      /\ listed' = listed /\ due' = due /\ UNCHANGED opsVars
  BY DEF JobMoves, RolloutMoves, jobVars, opsVars
<1>2. OpsInv'
  BY <1>1, OpsStepInv DEF FetchInv
<1>3. /\ job' \in [Jobs -> {"none", "preparing", "pulled", "rejected"}]
      /\ \A j \in Jobs : job'[j] # "none" <=> job[j] # "none"
      /\ \A j \in Jobs : job'[j] = "pulled" => job[j] = "pulled" \/ j[2] \in local'
      /\ local \subseteq local' /\ local' \in SUBSET Goals
      /\ rollout' \in [Targets -> {"done", "accepted", "updating", "abandoned", "unplaceable"}]
  <2>1. CASE RolloutMoves
    <3>1. PICK g \in Targets, s \in RolloutStep : rollout' = [rollout EXCEPT ![g] = s[2]]
      BY <2>1 DEF RolloutMoves
    <3>2. s[2] \in {"done", "accepted", "updating", "abandoned", "unplaceable"}
      BY DEF RolloutStep
    <3>3. QED
      BY <2>1, <3>1, <3>2 DEF RolloutMoves, jobVars, FetchInv, FetchTypeOK
  <2>2. CASE JobMoves
    <3>1. PICK j \in Jobs, s \in {"pulled", "rejected"} :
            /\ job[j] = "preparing"
            /\ job' = [job EXCEPT ![j] = s]
            /\ local' = IF s = "pulled" THEN local \union {j[2]} ELSE local
            /\ rollout' = rollout
      BY <2>2 DEF JobMoves
    <3>2. j[2] \in Goals
      BY DEF Jobs
    <3>3. QED
      BY <3>1, <3>2 DEF FetchInv, FetchTypeOK
  <2>3. QED
    BY <2>1, <2>2
<1>4. Present' = Present
  BY <1>3 DEF Present
<1>5. FetchTypeOK'
  BY <1>1, <1>3 DEF FetchInv, FetchTypeOK
<1>6. Bodies' /\ Fetched'
  BY <1>1, <1>3 DEF FetchInv, Bodies, Fetched
<1>7. JobLife'
  BY <1>1, <1>4 DEF FetchInv, JobLife, Fetch, Known
<1>8. Sweeps'
  BY <1>1, <1>4 DEF FetchInv, Sweeps
<1>9. QED
  BY <1>2, <1>5, <1>6, <1>7, <1>8 DEF FetchInv
\* The registry's own steps, a registration or the end of a handler: they leave
\* the bodies alone, and an op that begins to work has a fresh one and no job.
LEMMA RegistryKeeps ==
  ASSUME FetchInv, OpsNext, UNCHANGED <<body, jobVars, rollout>>,
         \A o \in OpIds : pc[o] = "none" =>
           (pc'[o] = "none" /\ status'[o] = status[o]) \/ pc'[o] = "working",
         \A o \in OpIds : pc[o] = "working" => pc'[o] = "working" /\ status'[o] = status[o],
         \A o \in OpIds : pc[o] \in {"notifying", "ended"} =>
           pc'[o] \in {"notifying", "ended"} /\ status'[o] = status[o]
  PROVE  FetchInv'
<1>1. /\ body' = body /\ left' = left /\ sent' = sent /\ job' = job /\ local' = local
      /\ listed' = listed /\ due' = due /\ rollout' = rollout
  BY DEF jobVars
<1>2. /\ pc \in [OpIds -> {"none", "working", "notifying", "ended"}]
      /\ listed \in [OpIds -> SUBSET Jobs] /\ due \in [OpIds -> SUBSET Jobs]
      /\ sent \subseteq Jobs
  BY DEF FetchInv, OpsInv, OpsTypeOK, FetchTypeOK
<1>3. OpsInv'
  BY OpsStepInv DEF FetchInv
<1>4. FetchTypeOK'
  BY <1>1 DEF FetchInv, FetchTypeOK
<1>5. Bodies'
  <2>1. Fresh.step # "over"
    BY DEF Fresh
  <2>2. ASSUME NEW o \in OpIds
        PROVE  /\ pc'[o] = "none" => body[o] = Fresh
               /\ pc'[o] \in {"notifying", "ended"} => body[o] = Over
               /\ pc'[o] = "working" => body[o].step # "over"
    BY <1>2, <2>1 DEF FetchInv, Bodies
  <2>3. QED
    BY <1>1, <2>2 DEF FetchInv, Bodies
<1>6. Fetched'
  BY <1>1 DEF FetchInv, Fetched
<1>7. Known' = Known /\ Present' = Present
  BY <1>1 DEF Known, Present
<1>8. \A j \in Known : j[1] \in OpIds /\ pc[j[1]] # "none"
  BY <1>2 DEF Known, Present, Jobs, FetchInv, JobLife
<1>9. JobLife'
  <2>1. ASSUME NEW j \in Known
        PROVE  /\ pc'[j[1]] # "none"
               /\ pc'[j[1]] = "working" <=> pc[j[1]] = "working"
    BY <1>2, <1>8
  <2>2. Present \union sent \subseteq Known
    BY DEF Known
  <2>3. QED
    BY <1>1, <1>7, <2>1, <2>2 DEF FetchInv, JobLife, Fetch
<1>10. Sweeps'
  <2>1. ASSUME NEW x \in OpIds, NEW j \in due[x]
        PROVE  status'[j[1]] # "running"
    <3>1. j \in Known /\ j[1] \in OpIds /\ status[j[1]] # "running"
      BY <1>2 DEF Known, Jobs, FetchInv, Sweeps
    <3>2. QED
      BY <1>2, <1>8, <3>1
  <2>2. QED
    BY <1>1, <1>7, <2>1 DEF FetchInv, Sweeps
<1>11. QED
  BY <1>3, <1>4, <1>5, <1>6, <1>9, <1>10 DEF FetchInv

LEMMA StartKeeps ==
  ASSUME NEW i \in OpIds, NEW t \in Requested, NEW g \in Targets,
         FetchInv, Start(i, t, g), UNCHANGED <<body, jobVars, rollout>>
  PROVE  FetchInv'
<1>1. OpsNext
  BY DEF OpsNext
<1>2. /\ pc \in [OpIds -> {"none", "working", "notifying", "ended"}]
      /\ status \in [OpIds -> {"none", "running", "success", "error", "lost"}]
  BY DEF FetchInv, OpsInv, OpsTypeOK
<1>3. /\ pc[i] = "none" /\ pc'[i] = "working"
      /\ \A o \in OpIds : o # i => pc'[o] = pc[o] /\ status'[o] = status[o]
  BY <1>2 DEF Start, NewOp
<1>4. QED
  BY <1>1, <1>3, RegistryKeeps

LEMMA EndsKeeps ==
  ASSUME NEW i \in OpIds, FetchInv, Ends(i)
  PROVE  FetchInv'
<1>1. /\ pc \in [OpIds -> {"none", "working", "notifying", "ended"}]
      /\ status \in [OpIds -> {"none", "running", "success", "error", "lost"}]
  BY DEF FetchInv, OpsInv, OpsTypeOK
<1>2. OpsNext /\ UNCHANGED <<body, jobVars, rollout>>
  BY DEF Ends, OpsNext, HandlerStep
<1>3. CASE Finish(i)
  <2>1. /\ pc[i] = "notifying" /\ pc'[i] = "ended" /\ status' = status
        /\ \A o \in OpIds : o # i => pc'[o] = pc[o]
    BY <1>1, <1>3 DEF Finish
  <2>2. QED
    BY <1>2, <2>1, RegistryKeeps
<1>4. ASSUME NEW j \in OpIds, FinishAndPrefetch(i, j)
      PROVE  FetchInv'
  <2>1. /\ pc[i] = "notifying" /\ pc[j] = "none" /\ i # j
        /\ pc' = [pc EXCEPT ![i] = "ended", ![j] = "working"]
        /\ status' = [status EXCEPT ![j] = "running"]
    BY <1>4 DEF FinishAndPrefetch, NewOp
  <2>2. /\ pc'[i] = "ended" /\ pc'[j] = "working"
        /\ \A o \in OpIds : o # i /\ o # j => pc'[o] = pc[o]
        /\ \A o \in OpIds : o # j => status'[o] = status[o]
    BY <1>1, <2>1
  <2>3. QED
    BY <1>2, <2>1, <2>2, RegistryKeeps
<1>5. QED
  BY <1>3, <1>4 DEF Ends

\* After a restart no body works; the jobs its bodies minded are left behind.
LEMMA FetchRestartKeeps ==
  ASSUME FetchInv, FetchRestart
  PROVE  FetchInv'
<1>1. /\ pc \in [OpIds -> {"none", "working", "notifying", "ended"}]
      /\ status \in [OpIds -> {"none", "running", "success", "error", "lost"}]
      /\ body \in [OpIds -> BodyType] /\ sent \subseteq Jobs /\ left \subseteq Jobs
      /\ job \in [Jobs -> {"none", "preparing", "pulled", "rejected"}]
  BY DEF FetchInv, OpsInv, OpsTypeOK, FetchTypeOK, BodyType
<1>2. Restart /\ sent' = sent /\ local' = local /\ rollout' = rollout
  BY DEF FetchRestart
<1>3. /\ pc' = [o \in OpIds |-> IF o \in InFlight THEN "ended" ELSE pc[o]]
      /\ body' = [o \in OpIds |-> IF o \in InFlight THEN Over ELSE body[o]]
      /\ listed' = [o \in OpIds |-> {}] /\ due' = [o \in OpIds |-> {}]
      /\ left' = left \union {Fetch(o) : o \in {p \in OpIds : HasJob(p)}}
  BY DEF FetchRestart, Restart
<1>4. \A o \in OpIds : pc'[o] # "working" /\ (pc'[o] = "none" <=> pc[o] = "none")
  BY <1>1, <1>3 DEF InFlight
<1>5. PICK removed \in SUBSET {Fetch(o) : o \in {p \in OpIds : HasJob(p)}} :
        job' = [j \in Jobs |->
                 IF j \in removed /\ body[j[1]].step # "creating" THEN "none" ELSE job[j]]
  BY DEF FetchRestart
<1>6. \A j \in Jobs : job'[j] = job[j] \/ job'[j] = "none"
  BY <1>5
<1>7. /\ Over \in BodyType /\ Over.step = "over" /\ Over.clean = 0 /\ Over.count = 0
  <2>1. Fresh \in BodyType
    <3>1. 1 \in Goals
      BY FetchAssumption DEF Goals
    <3>2. QED
      BY <3>1 DEF Fresh, BodyType
  <2>2. Fresh.clean = 0 /\ Fresh.count = 0
    BY DEF Fresh
  <2> HIDE DEF Fresh
  <2>3. QED
    BY <2>1, <2>2 DEF Over, BodyType
<1>8. OpsInv'
  BY <1>2, RestartInv DEF FetchInv
<1>9. FetchTypeOK'
  <2>1. body' \in [OpIds -> BodyType]
    BY <1>1, <1>3, <1>7
  <2>2. left' \in SUBSET Jobs
    BY <1>1, <1>3 DEF Fetch, Jobs, FetchInv, FetchTypeOK
  <2>3. job' \in [Jobs -> {"none", "preparing", "pulled", "rejected"}]
    BY <1>1, <1>5
  <2>4. QED
    BY <1>2, <1>3, <2>1, <2>2, <2>3 DEF FetchInv, FetchTypeOK, BodyType
<1>10. Bodies'
  <2>1. ASSUME NEW o \in OpIds
        PROVE  /\ pc'[o] = "none" => body'[o] = Fresh
               /\ pc'[o] = "ended" \/ pc'[o] = "notifying" => body'[o] = Over
               /\ body'[o].step = "starting" => body'[o] = Fresh
               /\ body'[o].clean = 1 => body'[o].seen = "clean"
    <3>1. CASE o \in InFlight
      BY <1>3, <1>7, <3>1
    <3>2. CASE o \notin InFlight
      BY <1>1, <1>3, <3>2 DEF FetchInv, Bodies, InFlight
    <3>3. QED
      BY <3>1, <3>2
  <2>2. QED
    BY <1>4, <2>1 DEF Bodies
<1>11. Fetched'
  <2>1. \A j \in Jobs : job'[j] = "pulled" => j[2] \in local'
    BY <1>2, <1>6 DEF FetchInv, Fetched
  <2>2. \A o \in OpIds : body'[o] = body[o] \/ body'[o] = Over
    BY <1>3
  <2>3. \A o \in OpIds :
          body'[o].step = "removing" /\ body'[o].outcome = "ok" => body'[o].goal \in local'
    BY <1>2, <1>7, <2>2 DEF FetchInv, Fetched
  <2>4. ASSUME NEW o \in OpIds, body'[o].step \notin Early, NEW k \in 1..body'[o].count,
               k < body'[o].goal \/ body'[o].step \in {"swapping", "waiting"}
        PROVE  k \in local' \/ k \in body'[o].softened
    <3>1. CASE body'[o] = Over
      BY <1>7, <2>4, <3>1
    <3>2. CASE body'[o] = body[o]
      BY <1>2, <2>4, <3>2 DEF FetchInv, Fetched
    <3>3. QED
      BY <2>2, <3>1, <3>2
  <2>5. QED
    BY <2>1, <2>3, <2>4 DEF Fetched
<1>12. \A j \in Known' : j \in Known /\ j \in Jobs /\ j[1] \in OpIds /\ j \in Present' \union sent'
  <2>1. \A j \in Present' : j \in Present
    BY <1>6 DEF Present
  <2>2. QED
    BY <1>1, <1>2, <1>3, <2>1 DEF Known, Present, Jobs
<1>13. JobLife'
  <2>1. ASSUME NEW j \in Known'
        PROVE  pc'[j[1]] # "none" /\ pc'[j[1]] # "working"
    BY <1>4, <1>12 DEF FetchInv, JobLife
  <2>2. ASSUME NEW j \in sent'
        PROVE  j \notin Present' /\ \A x \in OpIds : j \notin listed'[x] /\ j \notin due'[x]
    BY <1>2, <1>3, <1>6 DEF FetchInv, JobLife, Present
  <2>3. \A o \in OpIds : body'[o].step \in {"polling", "removing"} =>
          <<o, body'[o].goal>> \notin sent'
    <3>1. \A o \in OpIds : body'[o] = body[o] \/ body'[o] = Over
      BY <1>3
    <3>2. QED
      BY <1>2, <1>7, <3>1 DEF FetchInv, JobLife, Fetch
  <2>4. ASSUME NEW j \in Present' \union sent'
        PROVE  j \in left'
    <3>1. j \in Present \union sent /\ j \in Jobs /\ j[1] \in OpIds
      BY <1>1, <1>2, <1>6, <2>4 DEF Present, Jobs
    <3>2. CASE j \in left
      BY <1>3, <3>2
    <3>3. CASE j \notin left
      <4>1. pc[j[1]] = "working" /\ body[j[1]].step \in Minding /\ j[2] = body[j[1]].goal
        BY <3>1, <3>3 DEF FetchInv, JobLife
      <4>2. HasJob(j[1]) /\ j = Fetch(j[1])
        BY <3>1, <4>1 DEF HasJob, InFlight, Minding, Fetch, Jobs
      <4>3. QED
        BY <1>3, <3>1, <4>2
    <3>4. QED
      BY <3>2, <3>3
  <2>5. QED
    BY <2>1, <2>2, <2>3, <2>4 DEF JobLife, Fetch
<1>14. Sweeps'
  BY <1>3 DEF Sweeps
<1>15. QED
  BY <1>8, <1>9, <1>10, <1>11, <1>13, <1>14 DEF FetchInv

\* Nothing has been asked of Swarm yet.
LEMMA FetchStarts == FetchInit => FetchInv
<1> SUFFICES ASSUME FetchInit PROVE FetchInv
  OBVIOUS
<1> USE DEF FetchInit
<1>1. OpsInv
  BY OpsInitInv
<1>2. 1 \in Goals
  BY FetchAssumption DEF Goals
<1>3. Fresh \in BodyType /\ Fresh.step = "starting" /\ Fresh.clean = 0
  BY <1>2 DEF Fresh, BodyType
<1>4. FetchTypeOK
  BY <1>3 DEF FetchTypeOK, BodyType
<1>5. Known = {} /\ Present = {}
  BY DEF Known, Present
<1>6. Bodies
  BY <1>3 DEF Bodies, OpsInit
<1>7. Fetched
  BY <1>3 DEF Fetched, Early
<1>8. JobLife /\ Sweeps
  BY <1>5 DEF JobLife, Sweeps
<1>9. QED
  BY <1>1, <1>4, <1>6, <1>7, <1>8 DEF FetchInv

LEMMA FetchStepKeeps == FetchInv /\ [FetchNext]_fetchVars => FetchInv'
<1> SUFFICES ASSUME FetchInv, [FetchNext]_fetchVars PROVE FetchInv'
  OBVIOUS
<1>1. CASE UNCHANGED fetchVars
  BY <1>1 DEF fetchVars, opsVars, jobVars, FetchInv, FetchTypeOK, Bodies, Fetched, JobLife, Sweeps,
              Known, Present, Fetch, OpsInv, OpsTypeOK, HandlerShape, RunningIsRegistered,
              NoConflictingOps, HistoryFaithful
<1>2. QED
  BY <1>1, StartKeeps, BodyStepKeeps, EndsKeeps, SwarmCreatesKeeps, SwarmMovesKeeps,
     FetchRestartKeeps DEF FetchNext
-------------------------------------------------------------------------------
(* The properties.                                                         *)

\* The inductive invariant of the fetch, for any number of ops, targets, images
\* and restarts.
THEOREM FetchInvariance == FetchSpec => []FetchInv
<1>1. QED
  BY FetchStarts, FetchStepKeeps, PTL DEF FetchSpec

\* Every variable of the bodies and of Swarm keeps its type.
THEOREM FetchTypeCorrect == FetchSpec => []FetchTypeOK
<1>1. FetchInv => FetchTypeOK
  BY DEF FetchInv
<1>2. QED
  BY <1>1, FetchInvariance, PTL

\* No handler stops running tasks before the images of all its pairs are on
\* their nodes or were refused by a registry.
THEOREM FetchSwapOnlyWithImages == FetchSpec => []SwapOnlyWithImages
<1>1. FetchInv => SwapOnlyWithImages
  BY DEF FetchInv, Fetched, SwapOnlyWithImages, Early
<1>2. QED
  BY <1>1, FetchInvariance, PTL

\* No path through a handler, nor a restart, forgets a fetch job: one without a
\* running op lost its creation's answer, its removal or its process.
THEOREM FetchOrphansExplained == FetchSpec => []OrphansExplained
<1>1. ASSUME FetchInv PROVE OrphansExplained
  <2>1. SUFFICES ASSUME NEW j \in Present, status[j[1]] # "running" PROVE j \in left
    BY DEF OrphansExplained, Orphans
  <2>2. j[1] \in OpIds
    BY DEF Present, Jobs
  <2>3. pc[j[1]] # "working"
    BY <1>1, <2>1, <2>2 DEF FetchInv, OpsInv, HandlerShape
  <2>4. QED
    BY <1>1, <2>1, <2>3 DEF FetchInv, JobLife
<1>2. QED
  BY <1>1, FetchInvariance, PTL

\* A sweep that has nothing left to remove has removed the orphans it found.
THEOREM FetchSweepRemovesOrphans == FetchSpec => []SweepRemovesOrphans
<1>1. ASSUME FetchInv PROVE SweepRemovesOrphans
  <2>1. SUFFICES ASSUME NEW i \in OpIds, Swept(i) = {}, NEW j \in due[i], j \in Present
                 PROVE  FALSE
    BY DEF SweepRemovesOrphans
  <2>2. j \in listed[i] /\ status[j[1]] # "running"
    BY <1>1, <2>1 DEF FetchInv, Sweeps
  <2>3. QED
    BY <2>1, <2>2 DEF Swept, Awaited
<1>2. QED
  BY <1>1, FetchInvariance, PTL

\* A job of a running op is removed by that op's own finally clause only: a sweep
\* asks the dict of ops, in which a running op always is.
THEOREM FetchAwaitedJobStays == FetchSpec => AwaitedJobStays
<1>1. ASSUME FetchInv, [FetchNext]_fetchVars,
             NEW j \in Jobs, j \in Present, j \notin Present', status'[j[1]] = "running"
      PROVE  body[j[1]].step = "removing"
  <2>1. job[j] # "none" /\ job'[j] = "none" /\ j[1] \in OpIds
    <3>1. job[j] # "none" /\ j[1] \in OpIds
      BY <1>1 DEF Present, Jobs
    <3>2. j \in Present' <=> j \in Jobs /\ job'[j] # "none"
      BY DEF Present
    <3>3. QED
      BY <1>1, <3>1, <3>2
  <2>2. job \in [Jobs -> {"none", "preparing", "pulled", "rejected"}]
    BY <1>1 DEF FetchInv, FetchTypeOK
  <2>3. job' # job
    BY <2>1
  <2>4. ASSUME NEW i \in OpIds, Sweep(i)
        PROVE  FALSE
    <3>1. PICK k \in Swept(i) : job' = [job EXCEPT ![k] = "none"] /\ UNCHANGED opsVars
      BY <2>3, <2>4 DEF Sweep
    <3>2. k = j
      BY <2>1, <2>2, <3>1
    <3>3. status' = status
      BY <3>1 DEF opsVars
    <3>4. status[j[1]] = "running" /\ j[1] \in ops
      BY <1>1, <2>1, <3>3 DEF FetchInv, OpsInv, RunningIsRegistered
    <3>5. QED
      BY <3>1, <3>2, <3>4 DEF Swept, Awaited
  <2>5. ASSUME NEW i \in OpIds, RemoveJob(i)
        PROVE  body[j[1]].step = "removing"
    <3>1. job' = [job EXCEPT ![Fetch(i)] = "none"] /\ body[i].step = "removing"
      BY <2>3, <2>5 DEF RemoveJob, At
    <3>2. j = Fetch(i)
      BY <2>1, <2>2, <3>1
    <3>3. QED
      BY <3>1, <3>2 DEF Fetch
  <2>6. ~FetchRestart
    BY <1>1, <2>1 DEF FetchRestart, Restart, FetchInv, OpsInv, HandlerShape
  <2>7. ~SwarmCreates /\ ~JobMoves /\ ~RolloutMoves
    BY <2>1, <2>2 DEF SwarmCreates, JobMoves, RolloutMoves, jobVars
  <2>8. ASSUME NEW i \in OpIds,
               BodyStep(i) \/ PollRaises(i) \/ WaitTimesOut(i) \/ Ends(i)
        PROVE  Sweep(i) \/ RemoveJob(i)
    BY <2>3, <2>8 DEF BodyStep, Resolve, List, SweepEnds, Streamed, Created, Refused, CreateLost,
                      Poll, PollRaises, Swap, ConvergencePoll, WaitTimesOut, Ends, jobVars
  <2>9. FetchNext
    BY <1>1, <2>3 DEF fetchVars, jobVars
  <2>10. PICK i \in OpIds : BodyStep(i) \/ PollRaises(i) \/ WaitTimesOut(i) \/ Ends(i)
    BY <2>3, <2>6, <2>7, <2>9 DEF FetchNext, jobVars
  <2>11. QED
    BY <2>4, <2>5, <2>8, <2>10
<1>2. FetchInv /\ [FetchNext]_fetchVars =>
        \A j \in Jobs : (j \in Present /\ j \notin Present' /\ status'[j[1]] = "running")
          => body[j[1]].step = "removing"
  BY <1>1
<1>3. QED
  BY <1>2, FetchInvariance, PTL DEF FetchSpec, AwaitedJobStays

\* An update is green only after a poll of the rollout that saw nothing move.
THEOREM FetchGreenOnlyWhenStill == FetchSpec => GreenOnlyWhenStill
<1>1. ASSUME FetchInv, [FetchNext]_fetchVars,
             NEW i \in OpIds, At(i, "waiting"), status'[i] = "success", body[i].count > 0
      PROVE  body[i].seen = "clean"
  <2>1. pc[i] = "working" /\ body[i].step = "waiting" /\ status[i] = "running"
    BY <1>1 DEF At, FetchInv, OpsInv, HandlerShape
  <2>2. /\ status \in [OpIds -> {"none", "running", "success", "error", "lost"}]
        /\ body[i].count \in Nat
        /\ body[i].clean = 1 => body[i].seen = "clean"
    BY <1>1, FetchAssumption DEF FetchInv, OpsInv, OpsTypeOK, FetchTypeOK, Bodies
  <2>3. status' # status
    BY <1>1, <2>1
  <2>4. ~FetchRestart
    BY <1>1, <2>1 DEF FetchRestart, Restart
  <2>5. \A o \in OpIds, t \in Requested, g \in Targets : ~Start(o, t, g)
    BY <1>1, <2>1, <2>2 DEF Start, NewOp
  <2>6. \A o \in OpIds : ~Ends(o)
    BY <1>1, <2>1, <2>2 DEF Ends, Finish, FinishAndPrefetch, NewOp
  <2>7. FetchNext /\ ~SwarmCreates /\ ~JobMoves /\ ~RolloutMoves
    BY <1>1, <2>3 DEF fetchVars, opsVars, SwarmCreates, JobMoves, RolloutMoves
  <2>8. PICK o \in OpIds : BodyStep(o) \/ PollRaises(o) \/ WaitTimesOut(o)
    BY <2>4, <2>5, <2>6, <2>7 DEF FetchNext
  \* Only the op's own body ends it.
  <2>9. o = i
    <3>1. status' = [status EXCEPT ![o] = "success"] \/ status' = [status EXCEPT ![o] = "error"]
          \/ status' = status
      BY <2>8, BodyOps DEF Succeed, Fail, opsVars
    <3>2. QED
      BY <1>1, <2>1, <2>2, <3>1
  <2>10. ConvergencePoll(i) \/ WaitTimesOut(i)
    BY <2>1, <2>8, <2>9 DEF BodyStep, At, Resolve, List, Sweep, SweepEnds, Streamed, Created,
                            Refused, CreateLost, Poll, PollRaises, RemoveJob, Swap
  <2>11. ~Raise(i)
    BY <1>1, <2>2 DEF Raise, Fail
  <2>12. CASE ConvergencePoll(i)
    BY <1>1, <2>2, <2>3, <2>11, <2>12 DEF ConvergencePoll, opsVars
  <2>13. CASE WaitTimesOut(i)
    BY <2>11, <2>13 DEF WaitTimesOut
  <2>14. QED
    BY <2>10, <2>12, <2>13
<1>2. FetchInv /\ [FetchNext]_fetchVars =>
        \A i \in OpIds : (At(i, "waiting") /\ status'[i] = "success" /\ body[i].count > 0)
          => body[i].seen = "clean"
  BY <1>1
<1>3. QED
  BY <1>2, FetchInvariance, PTL DEF FetchSpec, GreenOnlyWhenStill
===============================================================================
