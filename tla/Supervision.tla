------------------------------ MODULE Supervision ------------------------------
(***************************************************************************)
(* What a runner decides about its command, with no processes, signals,     *)
(* files or locks: what it stores, why it stops, and whether it reports.    *)
(* Supervisor (processes and signals) and JobStore (files and locks) each   *)
(* model one side of superviseShell; both implement this.                   *)
(***************************************************************************)
EXTENDS Integers

CONSTANT Limit      \* how much output a job may have

VARIABLES
    phase,      \* "supervising", "reported" or "gone"
    cause,      \* why the command is stopped; "normal" when it ends by itself
    captured,   \* output stored
    requested   \* a cancellation is stored in the job record

vars == <<phase, cause, captured, requested>>

Init ==
    /\ phase = "supervising" /\ cause = "normal"
    /\ captured = 0 /\ requested = FALSE

-----------------------------------------------------------------------------
\* More output is stored, within the limit; reaching it is a cause, if there is
\* none yet, and after that cause nothing more is stored.
Store(n) ==
    /\ phase = "supervising" /\ cause # "output_limit"
    /\ captured' = n
    /\ cause' = IF n = Limit /\ cause = "normal" THEN "output_limit" ELSE cause
    /\ UNCHANGED <<phase, requested>>

\* The first of output limit and hard timeout counts; a cancellation that was
\* asked for overrides either.
TimeOut ==
    /\ phase = "supervising" /\ cause = "normal" /\ cause' = "hard_timeout"
    /\ UNCHANGED <<phase, captured, requested>>

Notice ==
    /\ phase = "supervising" /\ requested /\ cause # "cancelled" /\ cause' = "cancelled"
    /\ UNCHANGED <<phase, captured, requested>>

Request ==
    /\ requested' = TRUE
    /\ UNCHANGED <<phase, cause, captured>>

\* Supervision ends once: with an outcome, or in an error or the runner's death.
Report ==
    /\ phase = "supervising" /\ phase' = "reported"
    /\ UNCHANGED <<cause, captured, requested>>

Die ==
    /\ phase \in {"supervising", "reported"} /\ phase' = "gone"
    /\ UNCHANGED <<cause, captured, requested>>

Next ==
    \/ \E n \in captured + 1 .. Limit : Store(n)
    \/ TimeOut \/ Notice \/ Request \/ Report \/ Die

Spec == Init /\ [][Next]_vars

===============================================================================
