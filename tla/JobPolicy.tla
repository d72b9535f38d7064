------------------------------ MODULE JobPolicy ------------------------------
(***************************************************************************)
(* The pure decisions of internal/state: which statuses a job may have,    *)
(* how much output it may capture, who may change it, and what a           *)
(* cancellation or a wait does to its stored record.  The state machines   *)
(* of this project apply these operators to what they read from disk.      *)
(***************************************************************************)
EXTENDS Integers

Running == "running"

\* What a command that ran to its own end may report.
ExitStatuses == {"succeeded", "nonzero_exit", "signal_exit"}

TerminalStatuses ==
    ExitStatuses \cup {"cancelled", "hard_timeout", "output_limit", "runner_lost"}

Statuses == {Running} \cup TerminalStatuses

IsTerminal(status) == status \in TerminalStatuses

TransitionAllowed(from, to) == from = Running /\ IsTerminal(to)

-----------------------------------------------------------------------------
\* Why the runner stops supervising, and the status it then publishes.
Causes == {"normal", "output_limit", "hard_timeout", "cancelled"}

ProcessStatus(cause, exit) == IF cause = "normal" THEN exit ELSE cause

\* How much of an incoming chunk is kept.
AcceptedBytes_Unbounded(captured, incoming, limit) == incoming
AcceptedBytes(captured, incoming, limit) ==
    IF incoming < limit - captured THEN incoming ELSE limit - captured

-----------------------------------------------------------------------------
\* A session without an observer entry reads from the default cursor, zero.
NoEntry == -1

ResolveWaitCursor(stored) == IF stored = NoEntry THEN 0 ELSE stored

MayMutate(actor, owner) == actor = owner

\* A cancellation is stored once, and never on a job that already ended.
PersistRequest(status, requested) == ~requested /\ ~IsTerminal(status)

=============================================================================
