------------------------------ MODULE Supervisor ------------------------------
(***************************************************************************)
(* A runner, the guardian it starts as leader of a new process group, and   *)
(* the command in that group: a shell and what the shell starts.            *)
(*                                                                         *)
(* The runner watches the merged output, the guardian's report of the       *)
(* shell's exit, a hard timer and the job record; on the first reason to    *)
(* stop it sends SIGTERM to the group, and after a grace period SIGKILL.    *)
(* The guardian outlives the shell, so that the group's number stays taken, *)
(* and it stops the group itself when the runner dies.  The command may do  *)
(* what it likes: ignore SIGTERM, leave the group, signal the group, kill   *)
(* the guardian.                                                            *)
(***************************************************************************)
EXTENDS Integers, FiniteSets

CONSTANTS
    Children,     \* processes the command may start besides its shell
    Limit,        \* chunks of output a job may have
    MaxChunks     \* bound: chunks of output the command writes

ASSUME SupervisorAssumption ==
    /\ "shell" \notin Children
    /\ Limit \in Nat \ {0} /\ MaxChunks \in Nat

Command == {"shell"} \cup Children

VARIABLES
    pc,         \* where the runner is
    cause,      \* superviseShell's locals: why it stops,
    cleanup,    \*   whether it signalled: "no", "term", "kill" (now reaping), "done",
    waited,     \*   whether the shell's exit was reported, or given up,
    drained,    \*   captureDone,
    timer,      \*   whether the hard timer may fire,
    failed,     \*   operationErr
    guardian,   \* where the guardian is
    termed,     \* whether the guardian was sent SIGTERM
    frames,     \* what the guardian has written to its events pipe
    reaped,     \* whether the runner has reaped the guardian
    proc,       \* the command's processes; "escaped" ones left the group
    holds,      \* those that hold the output pipe
    written,    \* chunks written, those the runner has not read yet, and
    unread,     \*   those it stored
    captured,
    cancel,     \* whether a cancellation is stored in the job record
    pgid,       \* whose group the guardian's number names: "own" or "other"
    shellEnd,   \* how the shell ended: "itself" or "stopped" by our signal
    rogue,      \* whether the command killed the guardian
    hit         \* whether a signal went to somebody else's group

locals == <<cause, cleanup, waited, drained, timer, failed>>
group == <<guardian, termed, proc, shellEnd, hit>>
output == <<holds, written, unread, captured>>
kernel == <<frames, reaped, cancel, pgid, rogue>>
vars == <<pc, locals, group, output, kernel>>

Members == {p \in Command : proc[p] = "running"}
Holders == {p \in holds : proc[p] \in {"running", "escaped"}}
Lifetime == pc \notin {"ended", "dead"}        \* the lifetime pipe is open

Init ==
    /\ pc = "starting" /\ cause = "normal" /\ cleanup = "no"
    /\ waited = FALSE /\ drained = FALSE /\ timer = FALSE /\ failed = FALSE
    /\ guardian = "boot" /\ termed = FALSE /\ frames = {} /\ reaped = FALSE
    /\ proc = [p \in Command |-> "unborn"] /\ holds = {} /\ shellEnd = "none"
    /\ written = 0 /\ unread = 0 /\ captured = 0
    /\ cancel = FALSE /\ pgid = "own" /\ rogue = FALSE /\ hit = FALSE

-----------------------------------------------------------------------------
\* Signals to the group.

\* Whoever does not ignore SIGTERM dies of it; the guardian takes note.
SomeDie(by) ==
    \E dying \in SUBSET Members :
        /\ proc' = [p \in Command |-> IF p \in dying THEN "dead" ELSE proc[p]]
        /\ shellEnd' = IF "shell" \in dying THEN by ELSE shellEnd

Terminated(by) ==
    SomeDie(by) /\ termed' = (termed \/ guardian # "dead") /\ UNCHANGED <<guardian, hit>>

Killed ==
    /\ proc' = [p \in Command |-> IF p \in Members THEN "dead" ELSE proc[p]]
    /\ shellEnd' = IF "shell" \in Members THEN "stopped" ELSE shellEnd
    /\ guardian' = "dead" /\ UNCHANGED <<termed, hit>>

\* signalProcessGroup: the number may have come to name another group.
Strikes(signal) ==
    \/ pgid = "own" /\ signal = "TERM" /\ Terminated("stopped")
    \/ pgid = "own" /\ signal = "KILL" /\ Killed
    \/ pgid = "other" /\ hit' = TRUE /\ UNCHANGED <<guardian, termed, proc, shellEnd>>

\* signalGroup: nothing is sent once the guardian has been reaped.
SignalGroup(signal) == IF reaped THEN UNCHANGED group ELSE Strikes(signal)

-----------------------------------------------------------------------------
\* Slips the properties must notice.

\* The guardian is reaped first and the group killed afterwards.
GraceExpired_ReapsFirst ==
    /\ pc \in {"supervise", "stop"} /\ cleanup = "term"
    /\ \/ /\ ~reaped /\ guardian = "dead" /\ reaped' = TRUE
          /\ UNCHANGED <<group, cleanup>>
       \/ reaped /\ Strikes("KILL") /\ cleanup' = "done" /\ UNCHANGED reaped
    /\ UNCHANGED <<pc, cause, waited, drained, timer, failed, output, frames, cancel, pgid, rogue>>

\* When the command has ended by itself nothing more is killed.
GraceExpired_SparesNormal ==
    /\ pc \in {"supervise", "stop"} /\ cleanup = "term" /\ cleanup' = "kill"
    /\ IF cause = "normal" THEN UNCHANGED group ELSE SignalGroup("KILL")
    /\ UNCHANGED <<pc, cause, waited, drained, timer, failed, output, kernel>>

\* The guardian does not notice that the runner died once the shell is gone.
Linger_ForSignalOnly ==
    /\ guardian = "linger" /\ termed /\ guardian' = "cleanup"
    /\ UNCHANGED <<pc, locals, termed, proc, shellEnd, hit, output, kernel>>

\* The supervision ends with the shell's exit, before all output was read.
Finished_BeforeDrained == waited /\ cleanup = "done"

\* An interrupt is not an error: supervision ends with an ordinary outcome.
Interrupted_Forgiven ==
    /\ pc = "supervise" /\ cleanup = "no" /\ SignalGroup("TERM") /\ cleanup' = "term"
    /\ UNCHANGED <<pc, cause, waited, drained, timer, failed, output, kernel>>

\* The hard timer is not started with the command.
AwaitReady_Untimed ==
    /\ pc = "starting" /\ "ready" \in frames /\ pc' = "ready"
    /\ UNCHANGED <<locals, group, output, kernel>>

-----------------------------------------------------------------------------
\* The runner starts the guardian: startShell.

\* The guardian's ready frame; or nothing more will come, or a check fails, and
\* the group is killed and the guardian reaped.
AwaitReady ==
    /\ pc = "starting" /\ "ready" \in frames
    /\ pc' = "ready" /\ timer' = TRUE
    /\ UNCHANGED <<cause, cleanup, waited, drained, failed, group, output, kernel>>

StopGuardianStartup ==
    /\ pc = "starting"
    /\ Strikes("KILL") /\ pc' = "abandon" /\ cleanup' = "kill"
    /\ UNCHANGED <<cause, waited, drained, timer, failed, output, kernel>>

\* The job is committed, or the startup is given up.
Publish ==
    /\ pc = "ready" /\ pc' = "supervise"
    /\ UNCHANGED <<locals, group, output, kernel>>

StopUnpublishedShell ==
    /\ pc = "ready" /\ pc' = "stop"
    /\ timer' = FALSE /\ SignalGroup("TERM") /\ cleanup' = "term"
    /\ UNCHANGED <<cause, waited, drained, failed, output, kernel>>

-----------------------------------------------------------------------------
\* The loops of superviseShell and stopUnpublishedShell.

Finished == waited /\ drained /\ cleanup = "done"
Loops(loop) == pc \in loop /\ cleanup # "kill" /\ ~Finished
Supervises == Loops({"supervise"})
Both == {"supervise", "stop"}

\* startCleanup: SIGTERM, once.
StartCleanup ==
    IF cleanup = "no" THEN SignalGroup("TERM") /\ cleanup' = "term"
                      ELSE UNCHANGED <<group, cleanup>>

\* A chunk of output: stored, or dropped after the limit or an error.
Stored == IF captured < Limit THEN captured + 1 ELSE captured
LimitReached_Overrides == Stored = Limit
LimitReached == Stored = Limit /\ cause = "normal"

Capture ==
    /\ Loops(Both) /\ unread > 0 /\ unread' = unread - 1
    /\ \/ /\ pc = "stop" \/ cause = "output_limit" \/ failed
          /\ UNCHANGED <<captured, locals, group>>
       \/ /\ pc = "supervise" /\ cause # "output_limit" /\ ~failed
          /\ \/ /\ captured' = Stored
                /\ IF LimitReached
                      THEN cause' = "output_limit" /\ timer' = FALSE /\ StartCleanup
                      ELSE UNCHANGED <<cause, timer, cleanup, group>>
                /\ UNCHANGED failed
             \/ /\ failed' = TRUE /\ StartCleanup
                /\ UNCHANGED <<captured, cause, timer>>
          /\ UNCHANGED <<waited, drained>>
    /\ UNCHANGED <<pc, holds, written, kernel>>

\* The end of the output: nobody, the guardian included, holds the pipe.
CaptureDone ==
    /\ Loops(Both) /\ ~drained
    /\ \/ unread = 0 /\ Holders = {} /\ guardian = "dead" /\ UNCHANGED failed
       \/ failed' = TRUE
    /\ drained' = TRUE
    /\ UNCHANGED <<pc, cause, cleanup, waited, timer, group, output, kernel>>

\* The shell's exit, or the end of the events pipe without it.
Waited ==
    /\ Loops(Both) /\ ~waited
    /\ "exit" \in frames \/ guardian = "dead"
    /\ waited' = TRUE /\ timer' = FALSE
    /\ failed' = (failed \/ (pc = "supervise" /\ "exit" \notin frames /\ cause = "normal"))
    /\ IF pc = "supervise" THEN StartCleanup ELSE UNCHANGED <<group, cleanup>>
    /\ UNCHANGED <<pc, cause, drained, output, kernel>>

HardTimeout ==
    /\ Supervises /\ timer /\ timer' = FALSE
    /\ IF cause = "normal" THEN cause' = "hard_timeout" /\ StartCleanup
                           ELSE UNCHANGED <<cause, cleanup, group>>
    /\ UNCHANGED <<pc, waited, drained, failed, output, kernel>>

GraceExpired ==
    /\ Loops(Both) /\ cleanup = "term"
    /\ SignalGroup("KILL") /\ cleanup' = "kill"
    /\ UNCHANGED <<pc, cause, waited, drained, timer, failed, output, kernel>>

\* reapGuardian: the wait that follows SIGKILL.
Reap ==
    /\ cleanup = "kill" /\ pc \in Both \cup {"abandon"} /\ guardian = "dead"
    /\ reaped' = TRUE /\ cleanup' = "done"
    /\ pc' = IF pc = "abandon" THEN "ended" ELSE pc
    /\ UNCHANGED <<cause, waited, drained, timer, failed, group, output, frames, cancel, pgid, rogue>>

\* The runner is asked to stop, or cannot load the record it polls.
Interrupted ==
    /\ Supervises
    /\ failed' = TRUE /\ StartCleanup
    /\ UNCHANGED <<pc, cause, waited, drained, timer, output, kernel>>

\* The poll finds a cancellation; it overrides any other cause.
Poll ==
    /\ Supervises /\ cancel /\ cause # "cancelled"
    /\ cause' = "cancelled" /\ timer' = FALSE /\ StartCleanup
    /\ UNCHANGED <<pc, waited, drained, failed, output, kernel>>

Return ==
    /\ pc \in Both /\ Finished
    /\ pc' = "ended" /\ failed' = (failed \/ pc = "stop")
    /\ UNCHANGED <<cause, cleanup, waited, drained, timer, group, output, kernel>>

-----------------------------------------------------------------------------
\* The guardian: runGuardian and guardianCleanup.

GuardianGoes(to) == guardian' = to /\ UNCHANGED <<termed, hit>>
\* A frame for the runner is lost when nobody reads any more.
Reports(frame) == frames' = (IF Lifetime THEN frames \cup {frame} ELSE frames)

StartShell ==
    /\ guardian = "boot"
    /\ \/ /\ GuardianGoes("report") /\ proc' = [proc EXCEPT !["shell"] = "running"]
          /\ holds' = {"shell"}
       \/ GuardianGoes("dead") /\ UNCHANGED <<proc, holds>>
    /\ UNCHANGED <<pc, locals, shellEnd, written, unread, captured, kernel>>

\* The command is handed to the shell and the runner is told; when one of them
\* cannot be, only the shell is killed.
TellReady ==
    /\ guardian = "report"
    /\ \/ Lifetime /\ Reports("ready") /\ GuardianGoes("watch") /\ UNCHANGED <<proc, shellEnd>>
       \/ /\ GuardianGoes("dead")
          /\ IF proc["shell"] \in {"running", "escaped"}
                THEN proc' = [proc EXCEPT !["shell"] = "dead"] /\ shellEnd' = "stopped"
                ELSE UNCHANGED <<proc, shellEnd>>
          /\ UNCHANGED frames
    /\ UNCHANGED <<pc, locals, output, reaped, cancel, pgid, rogue>>

ShellExited(from, to) ==
    /\ guardian = from /\ proc["shell"] = "dead"
    /\ \/ Reports("exit") /\ GuardianGoes(IF Lifetime THEN to ELSE "cleanup")
       \/ GuardianGoes("cleanup") /\ UNCHANGED frames
    /\ UNCHANGED <<pc, locals, proc, shellEnd, output, reaped, cancel, pgid, rogue>>

Watch ==
    \/ ShellExited("watch", "linger")
    \/ /\ guardian = "watch"
       /\ \/ ~Lifetime /\ GuardianGoes("cleanup")
          \/ termed /\ GuardianGoes("grace")
       /\ UNCHANGED <<pc, locals, proc, shellEnd, output, kernel>>

\* After the shell's exit the guardian stays, so that the group does.
Linger ==
    /\ guardian = "linger" /\ (~Lifetime \/ termed) /\ GuardianGoes("cleanup")
    /\ UNCHANGED <<pc, locals, proc, shellEnd, output, kernel>>

\* After a SIGTERM the shell has a grace period to exit in.
AwaitExit ==
    \/ ShellExited("grace", "cleanup")
    \/ /\ guardian = "grace" /\ GuardianGoes("cleanup")
       /\ UNCHANGED <<pc, locals, proc, shellEnd, output, kernel>>

GuardianCleanup ==
    /\ \/ guardian = "cleanup" /\ SomeDie("stopped") /\ GuardianGoes("last")
       \/ guardian = "last" /\ Killed
    /\ UNCHANGED <<pc, locals, output, kernel>>

-----------------------------------------------------------------------------
\* The command and the world.

Fork(child) ==
    /\ proc[child] = "unborn" /\ proc' = [proc EXCEPT ![child] = "running"]
    /\ \E parent \in Members :
          holds' = holds \/ (parent \in holds /\ holds' = holds \cup {child})
    /\ UNCHANGED <<pc, locals, guardian, termed, shellEnd, hit, written, unread, captured, kernel>>

Write ==
    /\ Holders # {} /\ written < MaxChunks
    /\ written' = written + 1 /\ unread' = unread + 1
    /\ UNCHANGED <<pc, locals, group, holds, captured, kernel>>

Exit(p) ==
    /\ proc[p] \in {"running", "escaped"} /\ proc' = [proc EXCEPT ![p] = "dead"]
    /\ shellEnd' = IF p = "shell" THEN "itself" ELSE shellEnd
    /\ UNCHANGED <<pc, locals, guardian, termed, hit, output, kernel>>

Escape(p) ==
    /\ proc[p] = "running" /\ proc' = [proc EXCEPT ![p] = "escaped"]
    /\ UNCHANGED <<pc, locals, guardian, termed, shellEnd, hit, output, kernel>>

\* kill 0, and a SIGKILL for the guardian.
TermOwnGroup ==
    /\ Members # {} /\ Terminated("itself")
    /\ UNCHANGED <<pc, locals, output, kernel>>

KillGuardian ==
    /\ Members # {} /\ guardian # "dead" /\ guardian' = "dead" /\ rogue' = TRUE
    /\ UNCHANGED <<pc, locals, termed, proc, shellEnd, hit, output, frames, reaped, cancel, pgid>>

StoreCancellation ==
    /\ pc = "supervise" /\ cancel' = TRUE
    /\ UNCHANGED <<pc, locals, group, output, frames, reaped, pgid, rogue>>

\* The number of the group is free once its leader is reaped and nobody is left.
Recycle ==
    /\ guardian = "dead" /\ (reaped \/ pc = "dead") /\ Members = {} /\ pgid' = "other"
    /\ UNCHANGED <<pc, locals, group, output, frames, reaped, cancel, rogue>>

RunnerDies ==
    /\ pc \notin {"ended", "dead"} /\ pc' = "dead"
    /\ UNCHANGED <<locals, group, output, kernel>>

\* What happens by itself: timers fire, calls return.  A failed check, an
\* interrupt and whatever the command does need never happen.
RunnerStep ==
    \/ AwaitReady \/ (guardian = "dead" /\ "ready" \notin frames /\ StopGuardianStartup)
    \/ Publish \/ StopUnpublishedShell \/ Capture
    \/ (Holders = {} /\ CaptureDone) \/ Waited \/ HardTimeout \/ GraceExpired \/ Reap
    \/ Poll \/ Return
GuardianStep == StartShell \/ TellReady \/ Watch \/ Linger \/ AwaitExit \/ GuardianCleanup

CommandStep ==
    \/ \E child \in Children : Fork(child)
    \/ \E p \in Command : Exit(p) \/ Escape(p)
    \/ Write \/ TermOwnGroup \/ KillGuardian

Next ==
    \/ AwaitReady \/ StopGuardianStartup \/ Publish \/ StopUnpublishedShell
    \/ Capture \/ CaptureDone \/ Waited \/ HardTimeout \/ GraceExpired \/ Reap
    \/ Interrupted \/ Poll \/ Return \/ RunnerDies
    \/ GuardianStep \/ CommandStep \/ StoreCancellation \/ Recycle

Spec == Init /\ [][Next]_vars
FairSpec == Spec /\ WF_vars(RunnerStep) /\ WF_vars(GuardianStep)

-----------------------------------------------------------------------------
\* Properties.

TypeOK ==
    /\ pc \in {"starting", "abandon", "ready", "supervise", "stop", "ended", "dead"}
    /\ cause \in {"normal", "output_limit", "hard_timeout", "cancelled"}
    /\ cleanup \in {"no", "term", "kill", "done"}
    /\ {waited, drained, timer, failed, termed, reaped, cancel, rogue, hit} \subseteq BOOLEAN
    /\ guardian \in {"boot", "report", "watch", "linger", "grace", "cleanup", "last", "dead"}
    /\ frames \subseteq {"ready", "exit"}
    /\ proc \in [Command -> {"unborn", "running", "escaped", "dead"}]
    /\ holds \subseteq Command
    /\ written \in Nat /\ unread \in Nat /\ captured \in Nat
    /\ pgid \in {"own", "other"}
    /\ shellEnd \in {"none", "itself", "stopped"}

\* No signal of the runner's reaches a group that came to have the guardian's
\* number: a guardian that has died keeps the number taken until it is reaped,
\* and nothing is sent after that (signalGroup, and the order of SIGKILL and
\* reapGuardian).
OwnGroupOnly == ~hit

\* When the runner is through with a command, after whatever failures, no
\* process of its group is left, not even one that ignores SIGTERM or that
\* lives on after the guardian was killed.
NothingOutlives == pc = "ended" => Members = {} /\ guardian = "dead"

\* The runner publishes an end only for these; without an outcome the job is
\* found lost.
HasOutcome == pc = "ended" /\ cleanup = "done" /\ waited /\ ~failed

\* An ordinary end is the shell's own: the shell exited, or was killed by its
\* own command, before the runner or the guardian sent any signal.
OrdinaryEndIsShells == HasOutcome /\ cause = "normal" => shellEnd = "itself" /\ "exit" \in frames

\* An outcome comes with all the output, up to the limit, and the limit is
\* the outcome only when it was reached (superviseShell's loop condition).
OutcomeHasOutput ==
    HasOutcome =>
        /\ captured = IF written < Limit THEN written ELSE Limit
        /\ cause = "output_limit" => captured = Limit
        /\ cause = "normal" => captured < Limit

\* Every supervision ends, unless a process that left the group keeps the
\* output pipe open: the hard timer, the grace period and SIGKILL see to it.
SupervisionEnds == pc = "starting" ~> pc \in {"ended", "dead"} \/ \E p \in holds : proc[p] = "escaped"

\* When the runner dies its guardian stops the whole group, if it had come as
\* far as watching it and the command did not kill it first.
RunnerDeathStopsGroup ==
    pc = "dead" /\ guardian \notin {"boot", "report", "dead"} ~> Members = {} \/ rogue

-----------------------------------------------------------------------------
\* What the runner decides.

SupervisionPhase ==
    IF Lifetime THEN "supervising" ELSE IF HasOutcome THEN "reported" ELSE "gone"

Watched == INSTANCE Supervision WITH phase <- SupervisionPhase, requested <- cancel

\* Whatever the command, its guardian and the signals do, each step is a step
\* of the supervision that JobStore relies on, or none (superviseShell).
ImplementsSupervision == Watched!Spec

-----------------------------------------------------------------------------
\* Why the properties hold: the invariant that every step preserves.

\* A group that was killed stays empty, and the number stays the group's own
\* until the runner has reaped the guardian or died.
GroupKept ==
    /\ ~hit
    /\ reaped => guardian = "dead" /\ cleanup = "done"
    /\ pgid = "other" => Members = {} /\ guardian = "dead" /\ (reaped \/ pc = "dead")
    /\ cleanup \in {"kill", "done"} => guardian = "dead" /\ Members = {}
    /\ pc \in {"starting", "ready"} => cleanup = "no"
    /\ pc = "abandon" => cleanup = "kill"
    /\ pc = "ended" => cleanup = "done"

\* The shell's exit is reported once it is dead, and until the runner signals,
\* only a guardian that will not report it any more stops the shell.
ExitIsReal ==
    /\ pc \in {"starting", "ready", "abandon"} => ~waited
    /\ guardian = "boot" => proc["shell"] = "unborn"
    /\ "exit" \in frames => proc["shell"] = "dead"
    /\ proc["shell"] = "dead" => shellEnd # "none"
    /\ shellEnd = "stopped" /\ cleanup = "no" =>
          "exit" \notin frames /\ guardian \in {"cleanup", "last", "dead"}
    /\ pc = "supervise" /\ ~waited /\ ~failed /\ cause = "normal" => cleanup = "no"
    /\ pc \in {"supervise", "ended"} /\ waited /\ ~failed /\ cause = "normal" =>
          "exit" \in frames /\ shellEnd = "itself"

\* What was read is stored, up to the limit, while no error is noted.
OutputKept ==
    /\ unread <= written
    /\ \A p \in holds : proc[p] # "unborn"
    /\ drained /\ ~failed => unread = 0 /\ Holders = {} /\ guardian = "dead"
    /\ pc \in {"starting", "abandon", "ready", "supervise", "ended"} /\ ~failed =>
          /\ captured = IF written - unread < Limit THEN written - unread ELSE Limit
          /\ cause = "output_limit" => captured = Limit
          /\ cause = "normal" => captured < Limit
    /\ pc \in {"starting", "abandon", "ready"} =>
          ~drained /\ ~waited /\ cause = "normal"
    /\ pc = "ended" /\ waited => drained

IInv == TypeOK /\ GroupKept /\ ExitIsReal /\ OutputKept

===============================================================================
