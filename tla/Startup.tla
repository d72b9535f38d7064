------------------------------- MODULE Startup --------------------------------
(***************************************************************************)
(* How a job comes into being.  The caller (a CLI process) spawns a         *)
(* bootstrap, the bootstrap spawns the detached runner, and the three talk  *)
(* over four one-way pipes.  The runner starts the shell, prepares the job  *)
(* in a staging directory, and makes it visible by one rename once a commit *)
(* frame has travelled from the caller through the bootstrap.               *)
(*                                                                         *)
(* Each process may be killed at any step; every bounded wait may run out,  *)
(* or be interrupted by a signal, at any step.  A reader sees the frames    *)
(* already written before it sees the end of its pipe; a writer fails once  *)
(* the reader closed its end.  JobStore begins where the rename ends.       *)
(***************************************************************************)
EXTENDS Integers, Sequences

Caller == "caller"
Bootstrap == "bootstrap"
Runner == "runner"
Procs == {Caller, Bootstrap, Runner}

CONSTANTS
    Impatient,   \* processes whose bounded waits may run out or be interrupted
    MayCrash     \* processes that may be killed from outside

ASSUME ProcsAssumption == Impatient \subseteq Procs /\ MayCrash \subseteq Procs

Frames == {"start", "prepared", "commit", "committed", "failure"}

\* Pipes are named by who writes and who reads.
Pipes == {"caller-bootstrap", "bootstrap-caller", "bootstrap-runner", "runner-bootstrap"}
ToBootstrap == "caller-bootstrap"
ToCaller == "bootstrap-caller"
ToRunner == "bootstrap-runner"
FromRunner == "runner-bootstrap"

\* The child's ends are closed in the parent as soon as the child runs.
Written_KeptByParent(p) == CASE p = Caller -> {ToBootstrap}
                             [] p = Bootstrap -> {ToRunner}
                             [] p = Runner -> {FromRunner}
Written(p) == CASE p = Caller -> {ToBootstrap}
                [] p = Bootstrap -> {ToCaller, ToRunner}
                [] p = Runner -> {FromRunner}
Read(p) == CASE p = Caller -> {ToCaller}
             [] p = Bootstrap -> {ToBootstrap, FromRunner}
             [] p = Runner -> {ToRunner}

VARIABLES
    pc,         \* where each process is
    wire,       \* frames in each pipe
    writable,   \* pipes whose write end is open
    readable,   \* pipes whose read end is open
    job,        \* the job's directory: "none", "staged" or "visible"
    shell,      \* the shell's process group: "none", "alive" or "stopped"
    answer,     \* what Start returned to the caller
    sent        \* whether a commit frame was ever handed to the first pipe

pipes == <<wire, writable, readable>>
world == <<job, shell>>
vars == <<pc, pipes, world, answer, sent>>

CallerPCs == {"send_start", "await_prepared", "check", "send_commit", "await_committed",
              "recover", "closing", "kill", "returned", "crashed"}
BootstrapPCs == {"read_start", "spawn", "send_start", "await_prepared", "tell", "await_commit", "forward",
                 "await_committed", "report", "stop", "stopping", "fail",
                 "exited", "crashed"}
RunnerPCs == {"none", "read_start", "start_shell", "prepare", "tell", "await_commit",
              "commit", "ack", "supervise", "stop_shell", "abort",
              "exited", "slain", "crashed"}

Over == {"returned", "exited", "slain", "crashed"}
Gone(p) == pc[p] \in Over

-----------------------------------------------------------------------------
\* Pipes.

Goto(p, to) == pc' = [pc EXCEPT ![p] = to]
First(pipe) == Head(wire[pipe])
HasFrame(pipe) == wire[pipe] # <<>>
AtEnd(pipe) == wire[pipe] = <<>> /\ pipe \notin writable
GivesUp(p) == p \in Impatient

Sends(pipe, frame) == wire' = [wire EXCEPT ![pipe] = Append(@, frame)]
Takes(pipe) == wire' = [wire EXCEPT ![pipe] = Tail(@)]

\* Process p closes its descriptors; when it is over, the kernel does.
Closed(p) == writable' = writable \ Written(p) /\ readable' = readable \ Read(p)
Ends(p, how) == Goto(p, how) /\ Closed(p)

\* A write reaches the pipe, or fails because nobody can read it any more.
Writes(p, pipe, frame, to, otherwise) ==
    /\ \/ pipe \in readable /\ Sends(pipe, frame) /\ Goto(p, to)
       \/ pipe \notin readable /\ Goto(p, otherwise) /\ UNCHANGED wire
    /\ UNCHANGED <<writable, readable>>

\* A bounded read yields a frame, or nothing: end of file, deadline, signal.
Expects(p, pipe, frame, to, otherwise) ==
    /\ \/ /\ HasFrame(pipe)
          /\ Takes(pipe)
          /\ Goto(p, IF First(pipe) = frame THEN to ELSE otherwise)
       \/ /\ AtEnd(pipe) \/ GivesUp(p)
          /\ Goto(p, otherwise) /\ UNCHANGED wire
    /\ UNCHANGED <<writable, readable>>

-----------------------------------------------------------------------------
\* The caller: Manager.Start and startupHandshake.complete.

Returns(what) == Ends(Caller, "returned") /\ answer' = what

\* The start frame is written under a timer.  When that fails the frame may
\* still have gone out, but both pipes are closed and the bootstrap is killed.
SendStart ==
    /\ pc[Caller] = "send_start"
    /\ \/ /\ ToBootstrap \in readable
          /\ Sends(ToBootstrap, "start") /\ Goto(Caller, "await_prepared")
          /\ UNCHANGED <<writable, readable>>
       \/ /\ ToBootstrap \notin readable \/ GivesUp(Caller)
          /\ \/ ToBootstrap \in readable /\ Sends(ToBootstrap, "start")
             \/ UNCHANGED wire
          /\ Goto(Caller, "kill") /\ Closed(Caller)
    /\ UNCHANGED <<world, answer, sent>>

AwaitPrepared ==
    /\ pc[Caller] = "await_prepared"
    /\ Expects(Caller, ToCaller, "prepared", "check", "closing")
    /\ UNCHANGED <<world, answer, sent>>

\* The last chance to change its mind.
Check ==
    /\ pc[Caller] = "check"
    /\ Goto(Caller, "send_commit") \/ (GivesUp(Caller) /\ Goto(Caller, "closing"))
    /\ UNCHANGED <<pipes, world, answer, sent>>

\* A commit frame that was not written in time may have been written all the
\* same: from here on the caller no longer knows, and must look.
SendCommit ==
    /\ pc[Caller] = "send_commit"
    /\ \/ /\ ToBootstrap \in readable
          /\ Sends(ToBootstrap, "commit") /\ sent' = TRUE
          /\ Goto(Caller, "await_committed") \/ (GivesUp(Caller) /\ Goto(Caller, "recover"))
       \/ /\ ToBootstrap \notin readable \/ GivesUp(Caller)
          /\ Goto(Caller, "recover")
          /\ UNCHANGED <<wire, sent>>
    /\ writable' = writable \ {ToBootstrap}
    /\ UNCHANGED <<readable, world, answer>>

\* The acknowledgement says whether the directory could also be synced.
AwaitCommitted ==
    /\ pc[Caller] = "await_committed"
    /\ \/ /\ HasFrame(ToCaller) /\ First(ToCaller) = "committed"
          /\ Takes(ToCaller)
          /\ Returns("certain") \/ Returns("uncertain")
       \/ /\ \/ HasFrame(ToCaller) /\ First(ToCaller) # "committed" /\ Takes(ToCaller)
             \/ (AtEnd(ToCaller) \/ GivesUp(Caller)) /\ UNCHANGED wire
          /\ Goto(Caller, "recover")
          /\ UNCHANGED <<writable, readable, answer>>
    /\ UNCHANGED <<world, sent>>

\* recoverCommitted looks for the job until its own deadline; it may also
\* fail to read one that is there.
Recover ==
    /\ pc[Caller] = "recover"
    /\ \/ job = "visible" /\ Returns("uncertain")
       \/ Returns("unknown")
    /\ UNCHANGED <<wire, world, sent>>

\* abortBeforeCommit: end the bootstrap's input and wait for it, then kill it.
CloseInput ==
    /\ pc[Caller] = "closing"
    /\ \/ /\ ToBootstrap \in writable
          /\ writable' = writable \ {ToBootstrap}
          /\ UNCHANGED <<pc, readable, answer>>
       \/ /\ ToBootstrap \notin writable
          /\ \/ Gone(Bootstrap) /\ Returns("refused")
             \/ /\ GivesUp(Caller)
                /\ Goto(Caller, "kill") /\ UNCHANGED <<writable, readable, answer>>
    /\ UNCHANGED <<wire, world, sent>>

\* stopBootstrapWithWait.
KillBootstrap ==
    /\ pc[Caller] = "kill"
    /\ pc' = [pc EXCEPT ![Caller] = "returned",
                        ![Bootstrap] = IF Gone(Bootstrap) THEN @ ELSE "crashed"]
    /\ writable' = writable \ (Written(Caller) \cup Written(Bootstrap))
    /\ readable' = readable \ (Read(Caller) \cup Read(Bootstrap))
    /\ answer' = "refused"
    /\ UNCHANGED <<wire, world, sent>>

CallerStep ==
    \/ SendStart \/ AwaitPrepared \/ Check \/ SendCommit \/ AwaitCommitted \/ Recover
    \/ CloseInput \/ KillBootstrap

-----------------------------------------------------------------------------
\* The bootstrap: runBootstrap.

\* The first frame is awaited without a deadline.
BootstrapReads ==
    /\ pc[Bootstrap] = "read_start"
    /\ \/ HasFrame(ToBootstrap) /\ Takes(ToBootstrap) /\ Goto(Bootstrap, "spawn")
       \/ AtEnd(ToBootstrap) /\ Goto(Bootstrap, "fail") /\ UNCHANGED wire
    /\ UNCHANGED <<writable, readable, world, answer, sent>>

SpawnRunner ==
    /\ pc[Bootstrap] = "spawn"
    /\ \/ pc' = [pc EXCEPT ![Bootstrap] = "send_start", ![Runner] = "read_start"]
       \/ Goto(Bootstrap, "fail")
    /\ UNCHANGED <<pipes, world, answer, sent>>

\* The frames it passes on, in order.
Relay ==
    /\ \/ /\ pc[Bootstrap] = "send_start"
          /\ Writes(Bootstrap, ToRunner, "start", "await_prepared", "stop")
       \/ /\ pc[Bootstrap] = "await_prepared"
          /\ Expects(Bootstrap, FromRunner, "prepared", "tell", "stop")
       \/ /\ pc[Bootstrap] = "tell"
          /\ Writes(Bootstrap, ToCaller, "prepared", "await_commit", "stop")
       \/ /\ pc[Bootstrap] = "await_commit"
          /\ Expects(Bootstrap, ToBootstrap, "commit", "forward", "stop")
       \/ /\ pc[Bootstrap] = "forward"
          /\ Writes(Bootstrap, ToRunner, "commit", "await_committed", "stop")
    /\ UNCHANGED <<world, answer, sent>>

AwaitAcknowledgement_EndIsGood ==
    /\ pc[Bootstrap] = "await_committed"
    /\ \/ HasFrame(FromRunner) /\ Takes(FromRunner)
       \/ AtEnd(FromRunner) /\ UNCHANGED wire
    /\ Goto(Bootstrap, "report")
    /\ UNCHANGED <<writable, readable, world, answer, sent>>
AwaitAcknowledgement ==
    /\ pc[Bootstrap] = "await_committed"
    /\ Expects(Bootstrap, FromRunner, "committed", "report", "stop")
    /\ UNCHANGED <<world, answer, sent>>

\* A frame to the caller before the bootstrap exits, whether or not it is read.
LastFrame(frame) == IF ToCaller \in readable THEN Sends(ToCaller, frame) ELSE UNCHANGED wire

Report_ThenStops ==
    /\ pc[Bootstrap] = "report"
    /\ LastFrame("committed")
    /\ Goto(Bootstrap, "stop")
    /\ UNCHANGED <<writable, readable, world, answer, sent>>
Report ==
    /\ pc[Bootstrap] = "report"
    /\ LastFrame("committed")
    /\ Ends(Bootstrap, "exited")
    /\ UNCHANGED <<world, answer, sent>>

\* stopRunner: end the runner's input, wait for it, and kill it when that
\* takes longer than the termination grace - committed or not.
StopRunner ==
    /\ pc[Bootstrap] = "stop"
    /\ writable' = writable \ {ToRunner}
    /\ Goto(Bootstrap, "stopping")
    /\ UNCHANGED <<wire, readable, world, answer, sent>>

AwaitRunnerGone ==
    /\ pc[Bootstrap] = "stopping"
    /\ \/ Gone(Runner) /\ Goto(Bootstrap, "fail") /\ UNCHANGED <<writable, readable>>
       \/ /\ GivesUp(Bootstrap) /\ ~Gone(Runner)
          /\ pc' = [pc EXCEPT ![Bootstrap] = "fail", ![Runner] = "slain"]
          /\ Closed(Runner)
    /\ UNCHANGED <<wire, world, answer, sent>>

Fail ==
    /\ pc[Bootstrap] = "fail"
    /\ LastFrame("failure")
    /\ Ends(Bootstrap, "exited")
    /\ UNCHANGED <<world, answer, sent>>

BootstrapStep ==
    \/ BootstrapReads \/ SpawnRunner \/ Relay \/ AwaitAcknowledgement \/ Report
    \/ StopRunner \/ AwaitRunnerGone \/ Fail

-----------------------------------------------------------------------------
\* The runner up to supervision: runDetachedRunner.

RunnerReads ==
    /\ pc[Runner] = "read_start"
    /\ \/ /\ HasFrame(ToRunner)
          /\ Takes(ToRunner) /\ Goto(Runner, "start_shell")
          /\ UNCHANGED <<writable, readable>>
       \/ AtEnd(ToRunner) /\ Ends(Runner, "exited") /\ UNCHANGED wire
    /\ UNCHANGED <<world, answer, sent>>

\* The command runs from here on, before the job is committed.
StartShell ==
    /\ pc[Runner] = "start_shell"
    /\ \/ shell' = "alive" /\ Goto(Runner, "prepare") /\ UNCHANGED <<writable, readable>>
       \/ Ends(Runner, "exited") /\ UNCHANGED shell
    /\ UNCHANGED <<wire, job, answer, sent>>

\* The staging directory is filled and the lease taken; a failure cleans up.
Prepare_LeavesShell ==
    /\ pc[Runner] = "prepare"
    /\ \/ job' = "staged" /\ Goto(Runner, "tell") /\ UNCHANGED <<writable, readable>>
       \/ Ends(Runner, "exited") /\ UNCHANGED job
    /\ UNCHANGED <<wire, shell, answer, sent>>
Prepare ==
    /\ pc[Runner] = "prepare"
    /\ \/ job' = "staged" /\ Goto(Runner, "tell")
       \/ Goto(Runner, "stop_shell") /\ UNCHANGED job
    /\ UNCHANGED <<pipes, shell, answer, sent>>

TellPrepared ==
    /\ pc[Runner] = "tell"
    /\ Writes(Runner, FromRunner, "prepared", "await_commit", "stop_shell")
    /\ UNCHANGED <<world, answer, sent>>

\* Without a deadline: only the end of its input tells the runner to give up.
CommitRefused_Never == FALSE
CommitRefused == AtEnd(ToRunner)
AwaitCommit_EndIsGo ==
    /\ pc[Runner] = "await_commit"
    /\ \/ HasFrame(ToRunner) /\ Takes(ToRunner)
       \/ CommitRefused /\ UNCHANGED wire
    /\ Goto(Runner, "commit")
    /\ UNCHANGED <<writable, readable, world, answer, sent>>
AwaitCommit ==
    /\ pc[Runner] = "await_commit"
    /\ \/ /\ HasFrame(ToRunner) /\ Takes(ToRunner)
          /\ Goto(Runner, IF First(ToRunner) = "commit" THEN "commit" ELSE "stop_shell")
       \/ CommitRefused /\ Goto(Runner, "stop_shell") /\ UNCHANGED wire
    /\ UNCHANGED <<writable, readable, world, answer, sent>>

\* The rename is the commit point.
Commit ==
    /\ pc[Runner] = "commit"
    /\ \/ job' = "visible" /\ Goto(Runner, "ack")
       \/ Goto(Runner, "stop_shell") /\ UNCHANGED job
    /\ UNCHANGED <<pipes, shell, answer, sent>>

\* Whether or not anybody hears of it, the runner goes on to supervise.
Acknowledge_OrStops ==
    /\ pc[Runner] = "ack"
    /\ Writes(Runner, FromRunner, "committed", "supervise", "stop_shell")
    /\ UNCHANGED <<world, answer, sent>>
Acknowledge ==
    /\ pc[Runner] = "ack"
    /\ IF FromRunner \in readable THEN Sends(FromRunner, "committed") ELSE UNCHANGED wire
    /\ Goto(Runner, "supervise")
    /\ writable' = writable \ {FromRunner}
    /\ UNCHANGED <<readable, world, answer, sent>>

StopUnpublishedShell ==
    /\ pc[Runner] = "stop_shell"
    /\ shell' = "stopped"
    /\ Goto(Runner, "abort")
    /\ UNCHANGED <<pipes, job, answer, sent>>

Unstaged_Forgotten == job
Unstaged == IF job = "staged" THEN "none" ELSE job
Abort ==
    /\ pc[Runner] = "abort"
    /\ job' = Unstaged
    /\ Ends(Runner, "exited")
    /\ UNCHANGED <<wire, shell, answer, sent>>

RunnerStep ==
    \/ RunnerReads \/ StartShell \/ Prepare \/ TellPrepared \/ AwaitCommit \/ Commit
    \/ Acknowledge \/ StopUnpublishedShell \/ Abort

\* The guardian of the shell notices that its runner is no more, and stops
\* the shell's process group.
GuardianCleans ==
    /\ Gone(Runner) /\ shell = "alive"
    /\ shell' = "stopped"
    /\ UNCHANGED <<pc, pipes, job, answer, sent>>

Crash(p) ==
    /\ p \in MayCrash
    /\ ~Gone(p) /\ pc[p] # "none"
    /\ Ends(p, "crashed")
    /\ UNCHANGED <<wire, world, answer, sent>>

-----------------------------------------------------------------------------
Init ==
    /\ pc = [p \in Procs |-> CASE p = Caller -> "send_start"
                                [] p = Bootstrap -> "read_start"
                                [] p = Runner -> "none"]
    /\ wire = [pipe \in Pipes |-> <<>>]
    /\ writable = Pipes /\ readable = Pipes
    /\ job = "none" /\ shell = "none"
    /\ answer = "none" /\ sent = FALSE

Next ==
    \/ CallerStep \/ BootstrapStep \/ RunnerStep \/ GuardianCleans
    \/ \E p \in Procs : Crash(p)

Spec == Init /\ [][Next]_vars

\* Whoever is not killed runs on, and its timers fire.
Fairness ==
    /\ WF_vars(CallerStep) /\ WF_vars(BootstrapStep) /\ WF_vars(RunnerStep)
    /\ WF_vars(GuardianCleans)
FairSpec == Spec /\ Fairness

-----------------------------------------------------------------------------
Answers == {"none", "certain", "uncertain", "unknown", "refused"}

TypeOK ==
    /\ pc \in [Procs -> CallerPCs \cup BootstrapPCs \cup RunnerPCs]
    /\ pc[Caller] \in CallerPCs /\ pc[Bootstrap] \in BootstrapPCs /\ pc[Runner] \in RunnerPCs
    /\ wire \in [Pipes -> Seq(Frames)]
    /\ writable \subseteq Pipes /\ readable \subseteq Pipes
    /\ job \in {"none", "staged", "visible"} /\ shell \in {"none", "alive", "stopped"}
    /\ answer \in Answers /\ sent \in BOOLEAN

\* What the frames on their way, and the steps that wait for them, already
\* imply about the other processes.
Holds(pipe, frame) == \E i \in 1..Len(wire[pipe]) : wire[pipe][i] = frame

CommitWasSent ==
    /\ \/ Holds(ToBootstrap, "commit") \/ Holds(ToRunner, "commit")
       \/ pc[Bootstrap] \in {"forward", "await_committed", "report"}
       \/ pc[Runner] = "commit" \/ job = "visible"
       => sent
    /\ pc[Caller] \in {"send_start", "await_prepared", "check", "send_commit", "closing", "kill"}
         => ~sent /\ answer = "none"
    /\ answer = "refused" => ~sent

CommitWasMade ==
    /\ \/ Holds(FromRunner, "committed") \/ Holds(ToCaller, "committed")
       \/ pc[Bootstrap] = "report" \/ pc[Runner] \in {"ack", "supervise"}
       \/ answer \in {"certain", "uncertain"}
       => job = "visible"
    /\ job = "visible" => pc[Runner] \in {"ack", "supervise"} \/ Gone(Runner)

\* The bootstrap spawns the runner, once.
RunnerUnborn == pc[Bootstrap] \in {"read_start", "spawn"} => pc[Runner] = "none"

BootstrapLetGo ==
    /\ pc[Runner] = "slain" => pc[Bootstrap] \in {"fail", "exited", "crashed"}
    /\ Holds(ToCaller, "committed") \/ answer = "certain"
         => pc[Bootstrap] = "exited" /\ pc[Runner] # "slain"

ShellAwaits ==
    pc[Runner] \in {"prepare", "tell", "await_commit", "commit", "ack", "supervise"}
      => shell = "alive"

\* A job appears only if its caller asked for the commit, and never after
\* Start refused it, whatever was in the pipes (abortBeforeCommit).
NoUnwantedJob == job = "visible" => sent /\ answer # "refused"

\* A caller told that its job exists, with or without doubts about its
\* durability, is told the truth (committedResult, recoverCommitted).
AnswerIsTrue == answer \in {"certain", "uncertain"} => job = "visible"

\* A runner whose commit was acknowledged to the caller is never killed by
\* the bootstrap; one whose acknowledgement was late may be (stopRunner).
CertainIsSafe == answer = "certain" => pc[Runner] # "slain"

\* Once the job is visible no failure of the startup makes its runner stop
\* the command: only a runner that is itself gone loses it (runDetachedRunner).
CommittedKeepsShell == job = "visible" /\ shell = "stopped" => Gone(Runner)

\* The inductive invariant behind the four properties above: a frame is only
\* on its way when what it announces is true (writeFrame, readFrame).
IInv ==
    /\ TypeOK /\ RunnerUnborn
    /\ CommitWasSent /\ CommitWasMade /\ BootstrapLetGo /\ ShellAwaits

\* Start gives an answer even if no timer fires but the recovery's own, as the
\* end of each pipe passes on the end of another (complete, stopRunner).
StartReturns == <>Gone(Caller)

\* A caller that gives up or dies before the commit leaves no command
\* running, whoever else dies (runDetachedRunner, runGuardian).
Abandoned == Gone(Caller) /\ ~sent
AbandonedShellStops == Abandoned ~> shell # "alive"

\* Nor does it leave a staging directory, unless the runner itself was killed.
StagingRemoved == Abandoned ~> job # "staged" \/ pc[Runner] \in {"slain", "crashed"}

-----------------------------------------------------------------------------
\* The startup as its users see it.

\* How far the runner is, the answer's and the runner's first and last steps.
StepsMatch ==
    /\ pc[Runner] \in {"none", "read_start", "start_shell"} => shell = "none"
    /\ pc[Runner] \in {"none", "read_start", "start_shell", "prepare"} => job = "none"
    /\ pc[Runner] \in {"tell", "await_commit", "commit"} => job = "staged"
    /\ pc[Runner] = "stop_shell" => shell = "alive"
    /\ pc[Runner] = "abort" => shell = "stopped"
    /\ pc[Runner] = "none" => pc[Bootstrap] \in {"read_start", "spawn", "fail", "exited", "crashed"}
    /\ answer = "none" <=> pc[Caller] # "returned"

CallerSeen == IF pc[Caller] = "crashed" THEN "dead" ELSE IF answer = "none" THEN "waiting" ELSE answer
RunnerSeen == CASE pc[Runner] = "none" -> "none" [] pc[Runner] = "exited" -> "done"
                [] pc[Runner] = "slain" -> "slain" [] pc[Runner] = "crashed" -> "dead"
                [] OTHER -> "alive"

Contract == INSTANCE JobStart
    WITH caller <- CallerSeen, asked <- sent, runner <- RunnerSeen, command <- shell

\* Every step of the three processes is a step of the abstract start of a job,
\* or none, whatever frame is lost and whoever is killed (Manager.Start).
ImplementsJobStart == Contract!Spec

=============================================================================
