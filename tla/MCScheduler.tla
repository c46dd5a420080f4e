----------------------------- MODULE MCScheduler ------------------------------
(* Instances of the scheduler: what is told apart is how many fires and      *)
(* operations there are, so one schedule and one or two nodes are enough.    *)
EXTENDS Scheduler, TLC

\* Operations started by hand beside the scheduled ones.
NoRequests == {}
PrunesByHand == {"prune_node"}
NodeSymmetry == Permutations(Nodes)
===============================================================================
