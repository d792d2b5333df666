---------------------------- MODULE MCStdScheduler ----------------------------
(* The main thread and two workers, iteration after iteration. *)
EXTENDS StdScheduler
===============================================================================
