-------------------------- MODULE MCSessionRegistry --------------------------
(***************************************************************************)
(* SessionRegistry for TLC: a run and a start of one session, a start of    *)
(* another.                                                                 *)
(***************************************************************************)
EXTENDS SessionRegistry, TLC

CONSTANTS s1, s2, run, start, other

Owners == run :> s1 @@ start :> s1 @@ other :> s2
=============================================================================
