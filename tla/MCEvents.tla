------------------------------- MODULE MCEvents -------------------------------
(* Queues of two and a socket of one, four events and two connections: both *)
(* queues overflow, the tab reconnects once and one reload fails.           *)
EXTENDS EventStream
===============================================================================
