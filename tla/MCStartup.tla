----------------------------- MODULE MCStartup ------------------------------
(***************************************************************************)
(* Startup for TLC: there is one caller, one bootstrap and one runner, and  *)
(* the runs differ in who may lose patience or be killed.                   *)
(***************************************************************************)
EXTENDS Startup

Everybody == Procs
Nobody == {}
=============================================================================
