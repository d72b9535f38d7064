---------------------------- MODULE MCSupervisor ----------------------------
(***************************************************************************)
(* Supervisor for TLC: a shell and one more process, with more output than  *)
(* the job may have.                                                        *)
(***************************************************************************)
EXTENDS Supervisor
=============================================================================
