------------------------------- MODULE JobStart -------------------------------
(***************************************************************************)
(* What starting a job promises, with no frames, pipes or bootstrap: one    *)
(* runner, one command, one commit point, and one answer to whoever asked.  *)
(* Startup implements it.                                                   *)
(***************************************************************************)

VARIABLES
    caller,     \* "waiting", what it was answered, or "dead"
    asked,      \* the caller let go of its commit
    runner,     \* "none", "alive", "done", "slain" or "dead"
    command,    \* "none", "alive" or "stopped"
    job         \* "none", "staged" or "visible"

vars == <<caller, asked, runner, command, job>>

Init ==
    /\ caller = "waiting" /\ asked = FALSE
    /\ runner = "none" /\ command = "none" /\ job = "none"

-----------------------------------------------------------------------------
\* The caller asks once, while it waits, and is answered once.
Ask ==
    /\ caller = "waiting" /\ ~asked
    /\ asked' = TRUE
    /\ UNCHANGED <<caller, runner, command, job>>

\* A plain success says that the runner is out of the startup's reach.
Answer ==
    /\ caller = "waiting"
    /\ \/ caller' = "certain" /\ job = "visible" /\ runner # "slain"
       \/ caller' = "uncertain" /\ job = "visible"
       \/ caller' = "unknown"
       \/ caller' = "refused" /\ ~asked
    /\ UNCHANGED <<asked, runner, command, job>>

CallerDies ==
    /\ caller = "waiting" /\ caller' = "dead"
    /\ UNCHANGED <<asked, runner, command, job>>

-----------------------------------------------------------------------------
\* The runner launches the command and stages the job, each once.
Spawn ==
    /\ runner = "none" /\ runner' = "alive"
    /\ UNCHANGED <<caller, asked, command, job>>

Launch ==
    /\ runner = "alive" /\ command = "none" /\ command' = "alive"
    /\ UNCHANGED <<caller, asked, runner, job>>

Stage ==
    /\ runner = "alive" /\ command = "alive" /\ job = "none" /\ job' = "staged"
    /\ UNCHANGED <<caller, asked, runner, command>>

\* The commit point: a job that was asked for appears, with its command alive.
Appear ==
    /\ asked /\ runner = "alive" /\ command = "alive" /\ job = "staged"
    /\ job' = "visible"
    /\ UNCHANGED <<caller, asked, runner, command>>

\* A command is stopped before its job is visible, or after its runner is gone.
StopCommand ==
    /\ command = "alive" /\ command' = "stopped"
    /\ (runner = "alive" /\ job # "visible") \/ runner \in {"done", "slain", "dead"}
    /\ UNCHANGED <<caller, asked, runner, job>>

\* A runner gives up only without a command, and takes its staging away.
GiveUp ==
    /\ runner = "alive" /\ command # "alive" /\ job # "visible"
    /\ runner' = "done" /\ job' = "none"
    /\ UNCHANGED <<caller, asked, command>>

\* The startup kills its runner, unless its caller was promised it would not.
Slay ==
    /\ runner = "alive" /\ caller # "certain" /\ runner' = "slain"
    /\ UNCHANGED <<caller, asked, command, job>>

RunnerDies ==
    /\ runner = "alive" /\ runner' = "dead"
    /\ UNCHANGED <<caller, asked, command, job>>

Next ==
    \/ Ask \/ Answer \/ CallerDies
    \/ Spawn \/ Launch \/ Stage \/ Appear \/ StopCommand \/ GiveUp \/ Slay \/ RunnerDies

Spec == Init /\ [][Next]_vars

===============================================================================
