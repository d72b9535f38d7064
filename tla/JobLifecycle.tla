---------------------------- MODULE JobLifecycle ----------------------------
(***************************************************************************)
(* What a managed job promises, with no files, locks or processes but one   *)
(* fact: whether the runner still holds its lease.  JobStore implements it. *)
(***************************************************************************)
EXTENDS JobPolicy

CONSTANTS Sessions, Limit

VARIABLES
    phase,      \* the status, or "removed"
    leased,     \* the runner holds its lease
    captured,   \* bytes of output kept
    cancelled,  \* a cancellation was requested
    cursor      \* per session, the bytes it acknowledged

vars == <<phase, leased, captured, cancelled, cursor>>

Init ==
    /\ phase = Running /\ leased = TRUE /\ captured = 0 /\ cancelled = FALSE
    /\ cursor = [s \in Sessions |-> NoEntry]

\* Output is only gained, within the limit, and only by a leased runner.
Capture(n) ==
    /\ phase = Running /\ leased
    /\ captured' = n
    /\ UNCHANGED <<phase, leased, cancelled, cursor>>

RequestCancel ==
    /\ phase = Running
    /\ cancelled' = TRUE
    /\ UNCHANGED <<phase, leased, captured, cursor>>

\* The runner reports the end; it reports a cancellation exactly when one was requested.
Finish(status) ==
    /\ phase = Running /\ leased
    /\ (status = "cancelled") <=> cancelled
    /\ phase' = status
    /\ UNCHANGED <<leased, captured, cancelled, cursor>>

EndLease ==
    /\ leased /\ leased' = FALSE
    /\ UNCHANGED <<phase, captured, cancelled, cursor>>

\* Only a job whose runner is gone is declared lost.
Lose ==
    /\ phase = Running /\ ~leased
    /\ phase' = "runner_lost"
    /\ UNCHANGED <<leased, captured, cancelled, cursor>>

\* A session acknowledges more output, never less and never what is not there.
Acknowledge(s, n) ==
    /\ phase # "removed"
    /\ cursor' = [cursor EXCEPT ![s] = n]
    /\ UNCHANGED <<phase, leased, captured, cancelled>>

Remove ==
    /\ IsTerminal(phase) /\ ~leased
    /\ phase' = "removed"
    /\ UNCHANGED <<leased, captured, cancelled, cursor>>

Next ==
    \/ \E n \in captured + 1 .. Limit : Capture(n)
    \/ RequestCancel \/ EndLease \/ Lose \/ Remove
    \/ \E status \in TerminalStatuses \ {"runner_lost"} : Finish(status)
    \/ \E s \in Sessions : \E n \in cursor[s] + 1 .. captured : Acknowledge(s, n)

Spec == Init /\ [][Next]_vars

=============================================================================
