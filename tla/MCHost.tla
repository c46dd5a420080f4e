-------------------------------- MODULE MCHost --------------------------------
(* One host with both providers: the rows of two hosts never meet, and a leg   *)
(* holds its successes back with one host as with many.                        *)
EXTENDS HostFailures

Thresholds == {0, 2}
===============================================================================
