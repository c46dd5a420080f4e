------------------------------- MODULE MCGather -------------------------------
(* A fleet that changes once, the background gather and the scheduler's.      *)
EXTENDS GatherCache
===============================================================================
