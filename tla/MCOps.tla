-------------------------------- MODULE MCOps ---------------------------------
(* Four operations, one target and a list of two: the third registration   *)
(* pushes the first off the list whether or not it still runs.             *)
EXTENDS OpsRegistry

AskedTypes == {"restart_service", "rollback_service"}
===============================================================================
