-------------------------- MODULE OpsRegistryProofs ---------------------------
(***************************************************************************)
(* What the operation registry guarantees whatever the number of           *)
(* operations, targets and restarts and the length of the list.            *)
(***************************************************************************)
EXTENDS OpsRegistry, TLAPS

\* How far the handler is decides what the op can look like.
HandlerShape ==
  \A i \in OpIds :
    /\ pc[i] = "none" <=> status[i] = "none"
    /\ pc[i] = "working" <=> status[i] = "running"
    /\ pc[i] = "notifying" => status[i] \in {"success", "error"}
    /\ pc[i] = "none" => op_type[i] = "none"
    /\ pc[i] # "none" => op_type[i] \in OpType /\ target_id[i] \in Targets
    /\ i \in ops => pc[i] # "none"
    /\ pc[i] # "ended" => history[i] = "absent"

OpsInv ==
  /\ OpsTypeOK
  /\ HandlerShape
  /\ RunningIsRegistered
  /\ NoConflictingOps
  /\ HistoryFaithful

-------------------------------------------------------------------------------
(* Facts about registration.                                               *)

\* Families do not overlap, so an op type clashes with the same types
\* whichever side is asked.
LEMMA SameFamilySymmetric ==
  \A t, u : SameFamily(t, u) <=> SameFamily(u, t)
  BY DEF SameFamily

\* Trimming the list keeps it a list of operation ids, within its bound.
LEMMA FrontOfListType ==
  ASSUME NEW i \in OpIds, OpsTypeOK
  PROVE  FrontOfList(i) \in Seq(OpIds) /\ Len(FrontOfList(i)) <= MaxOps
<1> DEFINE order == <<i>> \o ops_order
           n == IF Len(order) > MaxOps THEN MaxOps ELSE Len(order)
<1>1. order \in Seq(OpIds) /\ Len(order) \in Nat
  BY DEF OpsTypeOK
<1>2. n \in Nat /\ n <= Len(order) /\ n <= MaxOps
  BY <1>1, OpsAssumption
<1>3. SubSeq(order, 1, n) \in Seq(OpIds)
  <2>1. \A k \in 1..n : order[k] \in OpIds
    BY <1>1, <1>2
  <2>2. QED
    BY <1>1, <1>2, <2>1
<1>4. Len(SubSeq(order, 1, n)) = n
  BY <1>1, <1>2
<1>5. QED
  BY <1>2, <1>3, <1>4 DEF FrontOfList

\* What new_op establishes: the new op is running, registered and clashes with
\* no running op, and no running op has left the dict.
LEMMA NewOpInv ==
  ASSUME NEW i \in OpIds, NEW t \in OpType, NEW g \in Targets,
         OpsInv, NewOp(i, t, g)
  PROVE  /\ ops' \in SUBSET OpIds
         /\ ops_order' \in Seq(OpIds) /\ Len(ops_order') <= MaxOps
         /\ op_type' \in [OpIds -> OpType \union {"none"}]
         /\ target_id' \in [OpIds -> Targets \union {NoTarget}]
         /\ status' \in [OpIds -> {"none", "running", "success", "error", "lost"}]
         /\ RunningIsRegistered'
         /\ NoConflictingOps'
<1> USE DEF OpsInv, OpsTypeOK, NewOp
<1>1. ops' \in SUBSET OpIds
  OBVIOUS
<1>2. ops_order' \in Seq(OpIds) /\ Len(ops_order') <= MaxOps
  BY FrontOfListType
<1>3. /\ op_type' \in [OpIds -> OpType \union {"none"}]
      /\ target_id' \in [OpIds -> Targets \union {NoTarget}]
      /\ status' \in [OpIds -> {"none", "running", "success", "error", "lost"}]
  OBVIOUS
<1>4. RunningIsRegistered'
  <2> SUFFICES ASSUME NEW o \in OpIds, status'[o] = "running"
               PROVE  o \in ops'
    BY DEF RunningIsRegistered
  <2>1. CASE o = i
    <3>1. i \notin ops
      BY DEF HandlerShape
    <3>2. QED
      BY <2>1, <3>1 DEF Evicted
  <2>2. CASE o # i
    <3>1. status[o] = "running" /\ o \in ops
      BY <2>2 DEF RunningIsRegistered
    <3>2. o \notin Evicted(i)
      BY <3>1 DEF Evicted
    <3>3. QED
      BY <3>1, <3>2
  <2>3. QED
    BY <2>1, <2>2
<1>5. NoConflictingOps'
  <2> SUFFICES ASSUME NEW o \in OpIds, NEW p \in OpIds, o # p,
                      status'[o] = "running", status'[p] = "running",
                      SameFamily(op_type'[o], op_type'[p])
               PROVE  target_id'[o] # target_id'[p]
    BY DEF NoConflictingOps
  \* The registered ops were checked against the new one.
  <2>1. ASSUME NEW q \in OpIds, q # i, status[q] = "running", SameFamily(op_type[q], t)
        PROVE  target_id[q] # g
    BY <2>1 DEF RunningIsRegistered, RunningConflict
  <2>2. CASE o = i
    <3>1. status[p] = "running" /\ op_type'[p] = op_type[p] /\ target_id'[p] = target_id[p]
      BY <2>2
    <3>2. SameFamily(op_type[p], t)
      BY <2>2, <3>1, SameFamilySymmetric
    <3>3. QED
      BY <2>1, <2>2, <3>1, <3>2
  <2>3. CASE p = i
    <3>1. status[o] = "running" /\ op_type'[o] = op_type[o] /\ target_id'[o] = target_id[o]
      BY <2>3
    <3>2. SameFamily(op_type[o], t)
      BY <2>3, <3>1
    <3>3. QED
      BY <2>1, <2>3, <3>1, <3>2
  <2>4. CASE o # i /\ p # i
    BY <2>4 DEF NoConflictingOps
  <2>5. QED
    BY <2>2, <2>3, <2>4
<1>6. QED
  BY <1>1, <1>2, <1>3, <1>4, <1>5

-------------------------------------------------------------------------------
(* Every step preserves the invariant.                                     *)

\* An empty registry satisfies the invariant.
LEMMA OpsInitInv == OpsInit => OpsInv
<1> SUFFICES ASSUME OpsInit PROVE OpsInv
  OBVIOUS
<1> USE DEF OpsInit
<1>1. OpsTypeOK
  BY OpsAssumption DEF OpsTypeOK
<1>2. HandlerShape
  BY DEF HandlerShape
<1>3. RunningIsRegistered /\ NoConflictingOps /\ HistoryFaithful
  BY DEF RunningIsRegistered, NoConflictingOps, HistoryFaithful
<1>4. QED
  BY <1>1, <1>2, <1>3 DEF OpsInv

\* A route registers an op that clashes with none.
LEMMA StartInv ==
  ASSUME NEW i \in OpIds, NEW t \in OpType, NEW g \in Targets,
         OpsInv, Start(i, t, g)
  PROVE  OpsInv'
<1>1. NewOp(i, t, g)
  BY DEF Start
<1>2. /\ pc' = [pc EXCEPT ![i] = "working"]
      /\ UNCHANGED <<history, restarts>>
  BY DEF Start
<1>3. OpsTypeOK'
  BY <1>1, <1>2, NewOpInv DEF OpsInv, OpsTypeOK
<1>4. HandlerShape'
  BY <1>1, <1>2 DEF NewOp, HandlerShape, OpsInv, OpsTypeOK
<1>5. RunningIsRegistered' /\ NoConflictingOps'
  BY <1>1, NewOpInv
<1>6. HistoryFaithful'
  BY <1>1, <1>2 DEF NewOp, HistoryFaithful, HandlerShape, OpsInv, OpsTypeOK
<1>7. QED
  BY <1>3, <1>4, <1>5, <1>6 DEF OpsInv

\* Marking an op done only takes it out of the running ops.
LEMMA DoneInv ==
  ASSUME NEW i \in OpIds, OpsInv, Succeed(i) \/ Fail(i)
  PROVE  OpsInv'
<1> USE DEF OpsInv, OpsTypeOK, Succeed, Fail
<1>1. OpsTypeOK'
  OBVIOUS
<1>2. HandlerShape'
  BY DEF HandlerShape
<1>3. RunningIsRegistered'
  BY DEF RunningIsRegistered
<1>4. NoConflictingOps'
  BY DEF NoConflictingOps
<1>5. HistoryFaithful'
  BY DEF HistoryFaithful, HandlerShape
<1>6. QED
  BY <1>1, <1>2, <1>3, <1>4, <1>5

\* Writing the history row changes no status.
LEMMA FinishInv ==
  ASSUME NEW i \in OpIds, OpsInv, Finish(i)
  PROVE  OpsInv'
<1> USE DEF OpsInv, OpsTypeOK, Finish, PersistHistory
<1>1. status[i] \in {"success", "error"}
  BY DEF HandlerShape
<1>2. OpsTypeOK'
  BY <1>1
<1>3. HandlerShape'
  BY <1>1 DEF HandlerShape
<1>4. RunningIsRegistered' /\ NoConflictingOps'
  BY DEF RunningIsRegistered, NoConflictingOps
<1>5. HistoryFaithful'
  BY <1>1 DEF HistoryFaithful
<1>6. QED
  BY <1>2, <1>3, <1>4, <1>5

\* The rollback's row is written and its background fetch registered in one step.
LEMMA FinishAndPrefetchInv ==
  ASSUME NEW i \in OpIds, NEW j \in OpIds, OpsInv, FinishAndPrefetch(i, j)
  PROVE  OpsInv'
<1> DEFINE g == target_id[i]
<1>1. /\ pc[i] = "notifying" /\ status[i] = "success"
      /\ NewOp(j, "prefetch_image", g)
      /\ PersistHistory(i)
      /\ pc' = [pc EXCEPT ![i] = "ended", ![j] = "working"]
      /\ UNCHANGED restarts
  BY DEF FinishAndPrefetch
<1>2. pc[j] = "none" /\ i # j
  BY <1>1 DEF NewOp
<1>3. g \in Targets /\ "prefetch_image" \in OpType
  BY <1>1 DEF OpsInv, HandlerShape, OpType
<1>4. OpsTypeOK'
  BY <1>1, <1>3, NewOpInv DEF OpsInv, OpsTypeOK, PersistHistory
<1>5. HandlerShape'
  BY <1>1, <1>2, <1>3 DEF NewOp, HandlerShape, OpsInv, OpsTypeOK, PersistHistory
<1>6. RunningIsRegistered' /\ NoConflictingOps'
  BY <1>1, <1>3, NewOpInv
<1>7. HistoryFaithful'
  BY <1>1, <1>2 DEF NewOp, HistoryFaithful, HandlerShape, OpsInv, OpsTypeOK, PersistHistory
<1>8. QED
  BY <1>4, <1>5, <1>6, <1>7 DEF OpsInv

\* After a restart nothing runs.
LEMMA RestartInv ==
  ASSUME OpsInv, Restart
  PROVE  OpsInv'
<1> USE DEF OpsInv, OpsTypeOK, Restart
<1>1. PICK cancelled \in SUBSET InFlight :
        history' = [i \in OpIds |-> IF i \in cancelled THEN status[i] ELSE history[i]]
  OBVIOUS
<1>2. \A i \in cancelled : i \in OpIds /\ pc[i] \in {"working", "notifying"}
  BY DEF InFlight
<1>3. OpsTypeOK'
  <2>1. history' \in [OpIds -> {"absent", "running", "success", "error"}]
    BY <1>1, <1>2 DEF HandlerShape
  <2>2. restarts' \in 0..MaxRestarts
    BY OpsAssumption
  <2>3. ops' \in SUBSET OpIds /\ ops_order' \in Seq(OpIds) /\ Len(ops_order') <= MaxOps
    BY OpsAssumption
  <2>4. status' \in [OpIds -> {"none", "running", "success", "error", "lost"}]
    OBVIOUS
  <2>5. pc' \in [OpIds -> {"none", "working", "notifying", "ended"}]
    OBVIOUS
  <2>6. QED
    BY <2>1, <2>2, <2>3, <2>4, <2>5
<1>4. HandlerShape'
  BY <1>1, <1>2 DEF HandlerShape, InFlight
<1>5. \A i \in OpIds : status'[i] # "running"
  BY DEF HandlerShape
<1>6. RunningIsRegistered' /\ NoConflictingOps'
  BY <1>5 DEF RunningIsRegistered, NoConflictingOps
<1>7. HistoryFaithful'
  BY <1>1, <1>2 DEF HistoryFaithful, HandlerShape
<1>8. QED
  BY <1>3, <1>4, <1>6, <1>7

\* So every step preserves it.
LEMMA OpsStepInv == OpsInv /\ [OpsNext]_opsVars => OpsInv'
<1> SUFFICES ASSUME OpsInv, [OpsNext]_opsVars PROVE OpsInv'
  OBVIOUS
<1>1. ASSUME NEW i \in OpIds, NEW t \in Requested, NEW g \in Targets, Start(i, t, g)
      PROVE  OpsInv'
  BY <1>1, StartInv, OpsAssumption
<1>2. ASSUME NEW i \in OpIds, HandlerStep(i)
      PROVE  OpsInv'
  BY <1>2, DoneInv, FinishInv, FinishAndPrefetchInv DEF HandlerStep
<1>3. CASE Restart
  BY <1>3, RestartInv
<1>4. CASE UNCHANGED opsVars
  BY <1>4 DEF opsVars, OpsInv, OpsTypeOK, HandlerShape, RunningIsRegistered,
              NoConflictingOps, HistoryFaithful
<1>5. QED
  BY <1>1, <1>2, <1>3, <1>4 DEF OpsNext

\* The inductive invariant of the registry, for any number of ops, targets, list
\* slots and restarts.
THEOREM OpsInvariance == OpsSpec => []OpsInv
<1>1. QED
  BY OpsInitInv, OpsStepInv, PTL DEF OpsSpec

\* No two running ops of one family ever share a target.
THEOREM OpsExclusion == OpsSpec => []NoConflictingOps
<1>1. OpsInv => NoConflictingOps
  BY DEF OpsInv
<1>2. QED
  BY <1>1, OpsInvariance, PTL

\* Every variable keeps its type.
THEOREM OpsTypeCorrect == OpsSpec => []OpsTypeOK
<1>1. OpsInv => OpsTypeOK
  BY DEF OpsInv
<1>2. QED
  BY <1>1, OpsInvariance, PTL

\* No running op ever leaves the dict, however many are registered after it.
THEOREM OpsRunningRegistered == OpsSpec => []RunningIsRegistered
<1>1. OpsInv => RunningIsRegistered
  BY DEF OpsInv
<1>2. QED
  BY <1>1, OpsInvariance, PTL

\* The history row of an op never contradicts what became of it.
THEOREM OpsHistory == OpsSpec => []HistoryFaithful
<1>1. OpsInv => HistoryFaithful
  BY DEF OpsInv
<1>2. QED
  BY <1>1, OpsInvariance, PTL

-------------------------------------------------------------------------------
(* The registry implements the locks.                                      *)

TheFamilies == ConflictFamilies \X Targets

\* An op type belongs to at most one family, and "none" to none.
LEMMA FamilyUnique ==
  /\ \A f, h \in ConflictFamilies : \A t : t \in f /\ t \in h => f = h
  /\ \A f \in ConflictFamilies : "none" \notin f
  BY DEF ConflictFamilies

\* An op needs at most one lock.
LEMMA LockUnique ==
  ASSUME NEW i \in OpIds, NEW l \in Lock(i), NEW m \in Lock(i)
  PROVE  l = m
<1>1. /\ l \in TheFamilies /\ op_type[i] \in l[1] /\ target_id[i] = l[2]
      /\ m \in TheFamilies /\ op_type[i] \in m[1] /\ target_id[i] = m[2]
  BY DEF Lock, TheFamilies
<1>2. l[1] = m[1] /\ l[2] = m[2]
  BY <1>1, FamilyUnique DEF TheFamilies
<1>3. QED
  BY <1>1, <1>2 DEF TheFamilies

\* Registering an op acquires the lock it needs, or none.
LEMMA NewOpAcquires ==
  ASSUME NEW i \in OpIds, NEW t \in OpType, NEW g \in Targets,
         OpsInv, NewOp(i, t, g)
  PROVE  TheLocks!LockNext \/ UNCHANGED <<Holder, Spent>>
<1> USE DEF TheFamilies
<1>1. /\ Lock(i) = {}
      /\ status[i] # "running"
  BY FamilyUnique DEF Lock, OpsInv, HandlerShape, NewOp
<1>2. /\ \A o \in OpIds \ {i} : Lock(o)' = Lock(o) /\ status'[o] = status[o]
      /\ status'[i] = "running"
      /\ Lock(i)' = {l \in TheFamilies : t \in l[1] /\ g = l[2]}
  BY DEF NewOp, Lock, OpsInv, OpsTypeOK
<1>3. CASE Lock(i)' = {}
  <2>1. Spent' = Spent
    BY <1>1, <1>2, <1>3 DEF Spent
  <2>2. \A l \in TheFamilies :
          {o \in OpIds : status'[o] = "running" /\ l \in Lock(o)'}
            = {o \in OpIds : status[o] = "running" /\ l \in Lock(o)}
    BY <1>1, <1>2, <1>3
  <2>3. Holder' = Holder
    BY <2>2 DEF Holder
  <2>4. QED
    BY <2>1, <2>3
<1>4. CASE Lock(i)' # {}
  <2>1. PICK l \in TheFamilies : l \in Lock(i)'
    BY <1>2, <1>4
  <2>2. t \in l[1] /\ l[2] = g
    BY <1>2, <2>1
  \* Whoever held the lock would have been a running conflict.
  <2>3. Holder[l] = {}
    <3>1. SUFFICES ASSUME NEW o \in OpIds, status[o] = "running", l \in Lock(o)
                   PROVE  FALSE
      BY DEF Holder
    <3>2. op_type[o] \in l[1] /\ target_id[o] = g
      BY <2>2, <3>1 DEF Lock
    <3>3. SameFamily(op_type[o], t)
      BY <2>2, <3>2 DEF SameFamily
    <3>4. o \in ops
      BY <3>1 DEF OpsInv, RunningIsRegistered
    <3>5. o \in RunningConflict(t, g)
      BY <3>1, <3>2, <3>3, <3>4 DEF RunningConflict
    <3>6. QED
      BY <3>5 DEF NewOp
  <2>4. \A m \in TheFamilies : m \in Lock(i)' <=> m = l
    BY <1>2, <2>1, <2>2, FamilyUnique
  <2>5. Spent' = Spent \union {i} /\ i \notin Spent
    BY <1>1, <1>2, <1>4 DEF Spent
  <2>6. \A m \in TheFamilies : Holder'[m] = IF m = l THEN {i} ELSE Holder[m]
    <3>1. TAKE m \in TheFamilies
    <3>2. /\ Holder'[m] = {o \in OpIds : status'[o] = "running" /\ m \in Lock(o)'}
          /\ Holder[m] = {o \in OpIds : status[o] = "running" /\ m \in Lock(o)}
      BY DEF Holder
    <3>3. CASE m = l
      BY <1>2, <2>1, <2>3, <3>2, <3>3
    <3>4. CASE m # l
      BY <1>1, <1>2, <2>4, <3>2, <3>4
    <3>5. QED
      BY <3>3, <3>4
  <2>7. Holder' = [Holder EXCEPT ![l] = {i}]
    BY <2>6 DEF Holder
  <2>8. TheLocks!Acquire(i, l)
    BY <2>3, <2>5, <2>7 DEF TheLocks!Acquire
  <2>9. QED
    BY <2>8 DEF TheLocks!LockNext
<1>5. QED
  BY <1>3, <1>4

\* Marking an op done releases the lock it holds, or none.
LEMMA DoneReleases ==
  ASSUME NEW i \in OpIds, OpsInv, Succeed(i) \/ Fail(i)
  PROVE  TheLocks!LockNext \/ UNCHANGED <<Holder, Spent>>
<1> USE DEF TheFamilies
<1>1. /\ status[i] = "running"
      /\ status'[i] # "running"
      /\ \A o \in OpIds \ {i} : status'[o] = status[o]
      /\ UNCHANGED <<op_type, target_id>>
  BY DEF Succeed, Fail, OpsInv, HandlerShape, OpsTypeOK
<1>2. \A o \in OpIds : Lock(o)' = Lock(o)
  BY <1>1 DEF Lock
<1>3. Spent' = Spent
  BY <1>2 DEF Spent
<1>4. CASE Lock(i) = {}
  <2>1. \A l \in TheFamilies :
          {o \in OpIds : status'[o] = "running" /\ l \in Lock(o)'}
            = {o \in OpIds : status[o] = "running" /\ l \in Lock(o)}
    BY <1>1, <1>2, <1>4
  <2>2. Holder' = Holder
    BY <2>1 DEF Holder
  <2>3. QED
    BY <1>3, <2>2
<1>5. CASE Lock(i) # {}
  <2>1. PICK l \in TheFamilies : l \in Lock(i)
    BY <1>5 DEF Lock
  <2>2. Holder[l] = {i}
    <3>1. SUFFICES ASSUME NEW o \in OpIds, o # i, status[o] = "running", l \in Lock(o)
                   PROVE  FALSE
      BY <1>1, <2>1 DEF Holder
    <3>2. /\ op_type[o] \in l[1] /\ op_type[i] \in l[1]
          /\ target_id[o] = target_id[i]
      BY <2>1, <3>1 DEF Lock
    <3>3. SameFamily(op_type[o], op_type[i])
      BY <3>2 DEF SameFamily
    <3>4. QED
      BY <1>1, <3>1, <3>2, <3>3 DEF OpsInv, NoConflictingOps
  <2>3. \A m \in TheFamilies : Holder'[m] = IF m = l THEN {} ELSE Holder[m]
    <3>1. TAKE m \in TheFamilies
    <3>2. /\ Holder'[m] = {o \in OpIds : status'[o] = "running" /\ m \in Lock(o)'}
          /\ Holder[m] = {o \in OpIds : status[o] = "running" /\ m \in Lock(o)}
      BY DEF Holder
    <3>3. CASE m = l
      BY <1>1, <1>2, <2>2, <3>2, <3>3
    <3>4. CASE m # l
      <4>1. m \notin Lock(i)
        BY <2>1, <3>4, LockUnique
      <4>2. QED
        BY <1>1, <1>2, <3>2, <3>4, <4>1
    <3>5. QED
      BY <3>3, <3>4
  <2>4. Holder' = [Holder EXCEPT ![l] = {}]
    BY <2>3 DEF Holder
  <2>5. TheLocks!Release(l)
    BY <1>3, <2>2, <2>4 DEF TheLocks!Release
  <2>6. QED
    BY <2>5 DEF TheLocks!LockNext
<1>6. QED
  BY <1>4, <1>5

\* Initially nobody holds a lock or has held one.
LEMMA LocksInit == OpsInit => TheLocks!LockInit
<1> SUFFICES ASSUME OpsInit PROVE TheLocks!LockInit
  OBVIOUS
<1>1. \A i \in OpIds : Lock(i) = {}
  BY FamilyUnique DEF OpsInit, Lock
<1>2. Holder = [l \in TheFamilies |-> {}]
  BY <1>1 DEF Holder, TheFamilies
<1>3. Spent = {}
  BY <1>1 DEF Spent
<1>4. QED
  BY <1>2, <1>3 DEF TheLocks!LockInit, TheFamilies

\* Every step of the registry is a step of the locks or leaves them alone.
LEMMA LocksStep ==
  OpsInv /\ [OpsNext]_opsVars => [TheLocks!LockNext]_(TheLocks!lockVars)
<1> SUFFICES ASSUME OpsInv, [OpsNext]_opsVars
             PROVE  TheLocks!LockNext \/ UNCHANGED <<Holder, Spent>>
  BY DEF TheLocks!lockVars
<1>1. ASSUME NEW i \in OpIds, NEW t \in Requested, NEW g \in Targets, Start(i, t, g)
      PROVE  TheLocks!LockNext \/ UNCHANGED <<Holder, Spent>>
  BY <1>1, NewOpAcquires, OpsAssumption DEF Start
<1>2. ASSUME NEW i \in OpIds, HandlerStep(i)
      PROVE  TheLocks!LockNext \/ UNCHANGED <<Holder, Spent>>
  <2>1. CASE Succeed(i) \/ Fail(i)
    BY <2>1, DoneReleases
  <2>2. CASE Finish(i)
    BY <2>2 DEF Finish, Holder, Spent, Lock
  <2>3. ASSUME NEW j \in OpIds, FinishAndPrefetch(i, j)
        PROVE  TheLocks!LockNext \/ UNCHANGED <<Holder, Spent>>
    <3>1. target_id[i] \in Targets /\ "prefetch_image" \in OpType
      BY <2>3 DEF FinishAndPrefetch, OpsInv, HandlerShape, OpType
    <3>2. NewOp(j, "prefetch_image", target_id[i])
      BY <2>3 DEF FinishAndPrefetch
    <3>3. QED
      BY <3>1, <3>2, NewOpAcquires
  <2>4. QED
    BY <1>2, <2>1, <2>2, <2>3 DEF HandlerStep
<1>3. CASE Restart
  <2>1. \A i \in OpIds : status'[i] # "running" /\ Lock(i)' = Lock(i)
    BY <1>3 DEF Restart, OpsInv, HandlerShape, Lock, OpsTypeOK
  <2>2. Holder' = [l \in TheFamilies |-> {}]
    BY <2>1 DEF Holder, TheFamilies
  <2>3. Spent' = Spent
    BY <2>1 DEF Spent
  <2>4. TheLocks!ReleaseAll
    BY <2>2, <2>3 DEF TheLocks!ReleaseAll, TheFamilies
  <2>5. QED
    BY <2>4 DEF TheLocks!LockNext
<1>4. CASE UNCHANGED opsVars
  BY <1>4 DEF opsVars, Holder, Spent, Lock
<1>5. QED
  BY <1>1, <1>2, <1>3, <1>4 DEF OpsNext

\* The registry implements the lock service, for any number of operations,
\* targets and restarts and any list length.
THEOREM OpsImplementsLocks == OpsSpec => ImplementsLocks
<1>1. QED
  BY LocksInit, LocksStep, OpsInvariance, PTL
     DEF OpsSpec, ImplementsLocks, TheLocks!LockSpec
===============================================================================
