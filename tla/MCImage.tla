------------------------------- MODULE MCImage --------------------------------
(* Two ops at a time on one target, the list too short for both, and a         *)
(* background fetch that a rollback starts.                                    *)
EXTENDS ImageFetch

AskedTypes == {"update_stack", "rollback_service"}
===============================================================================
