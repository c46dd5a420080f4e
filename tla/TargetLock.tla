------------------------------ MODULE TargetLock ------------------------------
(***************************************************************************)
(* What the operation registry promises to everything that starts work on  *)
(* a stack, a container or a service: each (conflict family, target) pair  *)
(* is a lock.  A new operation takes the lock or is refused, keeps it for  *)
(* as long as it runs, gives it back once and never takes it again.  A     *)
(* restart of the process gives back every lock.                           *)
(***************************************************************************)
CONSTANTS
  Locks,  \* one per conflict family and target
  Ops     \* identities of operations

VARIABLES
  holder, \* holder[l]: the operations that hold lock l
  spent   \* the operations that have taken a lock

lockVars == <<holder, spent>>

LockTypeOK ==
  /\ holder \in [Locks -> SUBSET Ops]
  /\ spent \in SUBSET Ops

LockInit ==
  /\ holder = [l \in Locks |-> {}]
  /\ spent = {}

Acquire(o, l) ==
  /\ o \notin spent
  /\ holder[l] = {}
  /\ holder' = [holder EXCEPT ![l] = {o}]
  /\ spent' = spent \union {o}

Release(l) ==
  /\ holder[l] # {}
  /\ holder' = [holder EXCEPT ![l] = {}]
  /\ UNCHANGED spent

ReleaseAll ==
  /\ holder' = [l \in Locks |-> {}]
  /\ UNCHANGED spent

LockNext ==
  \/ \E o \in Ops, l \in Locks : Acquire(o, l)
  \/ \E l \in Locks : Release(l)
  \/ ReleaseAll

LockSpec == LockInit /\ [][LockNext]_lockVars
===============================================================================
