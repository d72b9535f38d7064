---------------------------- MODULE StartupProofs -----------------------------
(***************************************************************************)
(* Proofs about Startup, for any choice of who may be killed and who may    *)
(* lose patience.  One inductive invariant, IInv, carries the four safety   *)
(* properties.  Most steps move a frame along or close a pipe; the lemmas   *)
(* about Sends and Takes say which frames a pipe can hold afterwards.       *)
(***************************************************************************)
EXTENDS Startup, TLAPS

\* Taking a frame leaves only frames that were there.
LEMMA TailHolds ==
    ASSUME NEW s \in Seq(Frames), s # <<>>, NEW frame
    PROVE  /\ Head(s) \in Frames
           /\ Tail(s) \in Seq(Frames)
           /\ (\E i \in 1..Len(Tail(s)) : Tail(s)[i] = frame)
                => \E i \in 1..Len(s) : s[i] = frame
           /\ Head(s) = frame => \E i \in 1..Len(s) : s[i] = frame
<1>1. Head(s) \in Frames /\ Tail(s) \in Seq(Frames) /\ Len(s) \in Nat \ {0}
  OBVIOUS
<1>2. Len(Tail(s)) = Len(s) - 1 /\ \A i \in 1..Len(Tail(s)) : Tail(s)[i] = s[i + 1]
  OBVIOUS
<1>3. (\E i \in 1..Len(Tail(s)) : Tail(s)[i] = frame) => \E i \in 1..Len(s) : s[i] = frame
  <2>1. SUFFICES ASSUME NEW i \in 1..Len(Tail(s)), Tail(s)[i] = frame
                 PROVE  \E k \in 1..Len(s) : s[k] = frame
    OBVIOUS
  <2>2. i + 1 \in 1..Len(s) /\ s[i + 1] = frame
    BY <1>1, <1>2, <2>1
  <2> QED BY <2>2
<1>4. Head(s) = frame => \E i \in 1..Len(s) : s[i] = frame
  <2>1. 1 \in 1..Len(s) /\ s[1] = Head(s)
    BY <1>1
  <2> QED BY <2>1
<1> QED BY <1>1, <1>3, <1>4

\* Sending a frame adds that frame and no other.
LEMMA AppendHolds ==
    ASSUME NEW s \in Seq(Frames), NEW new \in Frames, NEW frame
    PROVE  /\ Append(s, new) \in Seq(Frames)
           /\ (\E i \in 1..Len(Append(s, new)) : Append(s, new)[i] = frame)
                => new = frame \/ \E i \in 1..Len(s) : s[i] = frame
<1>1. /\ Append(s, new) \in Seq(Frames)
      /\ Len(Append(s, new)) = Len(s) + 1 /\ Len(s) \in Nat
      /\ \A i \in 1..Len(s) : Append(s, new)[i] = s[i]
      /\ Append(s, new)[Len(s) + 1] = new
  OBVIOUS
<1>2. \A i \in 1..(Len(s) + 1) : i \in 1..Len(s) \/ i = Len(s) + 1
  BY <1>1
<1> QED BY <1>1, <1>2

\* The same two facts about the pipes of the model.
LEMMA TakesHolds ==
    ASSUME TypeOK, NEW pipe \in Pipes, HasFrame(pipe), Takes(pipe)
    PROVE  /\ wire' \in [Pipes -> Seq(Frames)]
           /\ First(pipe) \in Frames
           /\ \A other \in Pipes, frame \in Frames :
                Holds(other, frame)' => Holds(other, frame)
           /\ Holds(pipe, First(pipe))
<1>1. wire[pipe] \in Seq(Frames) /\ wire[pipe] # <<>>
  BY DEF TypeOK, HasFrame
<1>2. wire' \in [Pipes -> Seq(Frames)] /\ First(pipe) \in Frames
  BY <1>1, TailHolds DEF TypeOK, Takes, First
<1>3. ASSUME NEW other \in Pipes, NEW frame \in Frames
      PROVE  Holds(other, frame)' => Holds(other, frame)
  <2>1. CASE other = pipe
    <3>1. wire'[other] = Tail(wire[pipe])
      BY <2>1 DEF TypeOK, Takes
    <3> QED BY <1>1, <2>1, <3>1, TailHolds DEF Holds
  <2>2. CASE other # pipe
    <3>1. wire'[other] = wire[other]
      BY <2>2 DEF TypeOK, Takes
    <3> QED BY <3>1 DEF Holds
  <2> QED BY <2>1, <2>2
<1>4. Holds(pipe, First(pipe))
  BY <1>1, <1>2, TailHolds DEF Holds, First
<1> QED BY <1>2, <1>3, <1>4

LEMMA SendsHolds ==
    ASSUME TypeOK, NEW pipe \in Pipes, NEW new \in Frames, Sends(pipe, new)
    PROVE  /\ wire' \in [Pipes -> Seq(Frames)]
           /\ \A other \in Pipes, frame \in Frames :
                Holds(other, frame)' => Holds(other, frame) \/ (other = pipe /\ frame = new)
<1>1. wire[pipe] \in Seq(Frames)
  BY DEF TypeOK
<1>2. wire' \in [Pipes -> Seq(Frames)]
  BY <1>1, AppendHolds DEF TypeOK, Sends
<1>3. ASSUME NEW other \in Pipes, NEW frame \in Frames
      PROVE  Holds(other, frame)' => Holds(other, frame) \/ (other = pipe /\ frame = new)
  <2>1. CASE other = pipe
    <3>1. wire'[other] = Append(wire[pipe], new)
      BY <2>1 DEF TypeOK, Sends
    <3> QED BY <1>1, <2>1, <3>1, AppendHolds DEF Holds
  <2>2. CASE other # pipe
    <3>1. wire'[other] = wire[other]
      BY <2>2 DEF TypeOK, Sends
    <3> QED BY <3>1 DEF Holds
  <2> QED BY <2>1, <2>2
<1> QED BY <1>2, <1>3

\* No frame that matters appears, or just this one does.
Quiet ==
    /\ wire' \in [Pipes -> Seq(Frames)]
    /\ Holds(ToBootstrap, "commit")' => Holds(ToBootstrap, "commit")
    /\ Holds(ToRunner, "commit")' => Holds(ToRunner, "commit")
    /\ Holds(FromRunner, "committed")' => Holds(FromRunner, "committed")
    /\ Holds(ToCaller, "committed")' => Holds(ToCaller, "committed")
Adds(pipe, frame) ==
    /\ wire' \in [Pipes -> Seq(Frames)]
    /\ Holds(ToBootstrap, "commit")' =>
         Holds(ToBootstrap, "commit") \/ (pipe = ToBootstrap /\ frame = "commit")
    /\ Holds(ToRunner, "commit")' =>
         Holds(ToRunner, "commit") \/ (pipe = ToRunner /\ frame = "commit")
    /\ Holds(FromRunner, "committed")' =>
         Holds(FromRunner, "committed") \/ (pipe = FromRunner /\ frame = "committed")
    /\ Holds(ToCaller, "committed")' =>
         Holds(ToCaller, "committed") \/ (pipe = ToCaller /\ frame = "committed")

LEMMA Named == /\ {ToBootstrap, ToCaller, ToRunner, FromRunner} \subseteq Pipes
               /\ {"start", "prepared", "commit", "committed", "failure"} \subseteq Frames
BY DEF ToBootstrap, ToCaller, ToRunner, FromRunner, Pipes, Frames

LEMMA SendsAdds ==
    ASSUME TypeOK, NEW pipe \in Pipes, NEW new \in Frames, Sends(pipe, new)
    PROVE  Adds(pipe, new)
BY SendsHolds, Named DEF Adds

LEMMA TakesQuiet ==
    ASSUME TypeOK, NEW pipe \in Pipes, HasFrame(pipe), Takes(pipe)
    PROVE  Quiet /\ First(pipe) \in Frames /\ Holds(pipe, First(pipe))
BY TakesHolds, Named DEF Quiet

LEMMA SameQuiet ==
    ASSUME TypeOK, UNCHANGED wire
    PROVE  Quiet
BY DEF TypeOK, Quiet, Holds

\* A helper either leaves the pipes quiet or adds the frame it names.
LEMMA ExpectsQuiet ==
    ASSUME TypeOK, NEW p, NEW pipe \in Pipes, NEW frame, NEW to, NEW otherwise,
           Expects(p, pipe, frame, to, otherwise)
    PROVE  /\ Quiet
           /\ UNCHANGED <<writable, readable>>
           /\ \/ Holds(pipe, frame) /\ Goto(p, to)
              \/ Goto(p, otherwise)
<1>1. CASE HasFrame(pipe) /\ Takes(pipe) /\ Goto(p, IF First(pipe) = frame THEN to ELSE otherwise)
  BY <1>1, TakesQuiet DEF Expects
<1>2. CASE UNCHANGED wire /\ Goto(p, otherwise)
  BY <1>2, SameQuiet DEF Expects
<1> QED BY <1>1, <1>2 DEF Expects

LEMMA WritesAdds ==
    ASSUME TypeOK, NEW p, NEW pipe \in Pipes, NEW frame \in Frames, NEW to, NEW otherwise,
           Writes(p, pipe, frame, to, otherwise)
    PROVE  /\ UNCHANGED <<writable, readable>>
           /\ \/ Adds(pipe, frame) /\ Goto(p, to)
              \/ Quiet /\ Goto(p, otherwise)
BY SendsAdds, SameQuiet DEF Writes

LEMMA LastFrameAdds ==
    ASSUME TypeOK, NEW frame \in Frames, LastFrame(frame)
    PROVE  Adds(ToCaller, frame)
BY SendsAdds, SameQuiet, Named DEF LastFrame, Adds, Quiet

-----------------------------------------------------------------------------
\* What each step does to the frames that matter.

LEMMA CallerFrames ==
    ASSUME TypeOK
    PROVE  /\ SendStart => Adds(ToBootstrap, "start")
           /\ AwaitPrepared => /\ Quiet /\ UNCHANGED <<writable, readable>>
                               /\ Goto(Caller, "check") \/ Goto(Caller, "closing")
           /\ AwaitCommitted => /\ Quiet
                                /\ \/ Holds(ToCaller, "committed")
                                   \/ Goto(Caller, "recover") /\ UNCHANGED <<writable, readable, answer>>
           /\ Check \/ Recover \/ CloseInput \/ KillBootstrap => Quiet
<1>1. SendStart => Adds(ToBootstrap, "start")
  BY SendsAdds, SameQuiet, Named DEF SendStart, Quiet, Adds
<1>2. AwaitPrepared => /\ Quiet /\ UNCHANGED <<writable, readable>>
                       /\ Goto(Caller, "check") \/ Goto(Caller, "closing")
  BY ExpectsQuiet, Named DEF AwaitPrepared
<1>3. AwaitCommitted => /\ Quiet
                        /\ \/ Holds(ToCaller, "committed")
                           \/ Goto(Caller, "recover") /\ UNCHANGED <<writable, readable, answer>>
  BY TakesQuiet, SameQuiet, Named DEF AwaitCommitted
<1>4. Check \/ Recover \/ CloseInput \/ KillBootstrap => Quiet
  BY SameQuiet DEF Check, Recover, CloseInput, KillBootstrap, pipes
<1> QED BY <1>1, <1>2, <1>3, <1>4

LEMMA BootstrapFrames ==
    ASSUME TypeOK
    PROVE  /\ Relay => /\ UNCHANGED <<writable, readable>>
                       /\ \/ pc[Bootstrap] = "send_start" /\ Adds(ToRunner, "start")
                             /\ Goto(Bootstrap, "await_prepared")
                          \/ pc[Bootstrap] = "await_prepared" /\ Quiet /\ Goto(Bootstrap, "tell")
                          \/ pc[Bootstrap] = "tell" /\ Adds(ToCaller, "prepared")
                             /\ Goto(Bootstrap, "await_commit")
                          \/ pc[Bootstrap] = "await_commit" /\ Quiet /\ Goto(Bootstrap, "forward")
                             /\ Holds(ToBootstrap, "commit")
                          \/ pc[Bootstrap] = "forward" /\ Adds(ToRunner, "commit")
                             /\ Goto(Bootstrap, "await_committed")
                          \/ Quiet /\ Goto(Bootstrap, "stop")
           /\ AwaitAcknowledgement => /\ Quiet /\ UNCHANGED <<writable, readable>>
                                      /\ \/ Holds(FromRunner, "committed") /\ Goto(Bootstrap, "report")
                                         \/ Goto(Bootstrap, "stop")
           /\ Report => Adds(ToCaller, "committed")
           /\ Fail => Adds(ToCaller, "failure")
           /\ BootstrapReads \/ SpawnRunner \/ StopRunner \/ AwaitRunnerGone => Quiet
<1>1. ASSUME Relay
      PROVE  /\ UNCHANGED <<writable, readable>>
             /\ \/ pc[Bootstrap] = "send_start" /\ Adds(ToRunner, "start")
                   /\ Goto(Bootstrap, "await_prepared")
                \/ pc[Bootstrap] = "await_prepared" /\ Quiet /\ Goto(Bootstrap, "tell")
                \/ pc[Bootstrap] = "tell" /\ Adds(ToCaller, "prepared")
                   /\ Goto(Bootstrap, "await_commit")
                \/ pc[Bootstrap] = "await_commit" /\ Quiet /\ Goto(Bootstrap, "forward")
                   /\ Holds(ToBootstrap, "commit")
                \/ pc[Bootstrap] = "forward" /\ Adds(ToRunner, "commit")
                   /\ Goto(Bootstrap, "await_committed")
                \/ Quiet /\ Goto(Bootstrap, "stop")
  <2>1. CASE /\ pc[Bootstrap] = "send_start"
             /\ Writes(Bootstrap, ToRunner, "start", "await_prepared", "stop")
    BY <2>1, WritesAdds, Named
  <2>2. CASE /\ pc[Bootstrap] = "await_prepared"
             /\ Expects(Bootstrap, FromRunner, "prepared", "tell", "stop")
    BY <2>2, ExpectsQuiet, Named
  <2>3. CASE /\ pc[Bootstrap] = "tell"
             /\ Writes(Bootstrap, ToCaller, "prepared", "await_commit", "stop")
    BY <2>3, WritesAdds, Named
  <2>4. CASE /\ pc[Bootstrap] = "await_commit"
             /\ Expects(Bootstrap, ToBootstrap, "commit", "forward", "stop")
    BY <2>4, ExpectsQuiet, Named
  <2>5. CASE /\ pc[Bootstrap] = "forward"
             /\ Writes(Bootstrap, ToRunner, "commit", "await_committed", "stop")
    BY <2>5, WritesAdds, Named
  <2> QED BY <1>1, <2>1, <2>2, <2>3, <2>4, <2>5 DEF Relay
<1>2. AwaitAcknowledgement => /\ Quiet /\ UNCHANGED <<writable, readable>>
                              /\ \/ Holds(FromRunner, "committed") /\ Goto(Bootstrap, "report")
                                 \/ Goto(Bootstrap, "stop")
  BY ExpectsQuiet, Named DEF AwaitAcknowledgement
<1>3. (Report => Adds(ToCaller, "committed")) /\ (Fail => Adds(ToCaller, "failure"))
  BY LastFrameAdds, Named DEF Report, Fail
<1>4. BootstrapReads \/ SpawnRunner \/ StopRunner \/ AwaitRunnerGone => Quiet
  BY TakesQuiet, SameQuiet, Named DEF BootstrapReads, SpawnRunner, StopRunner, AwaitRunnerGone, pipes
<1> QED BY <1>1, <1>2, <1>3, <1>4

LEMMA RunnerFrames ==
    ASSUME TypeOK
    PROVE  /\ TellPrepared => /\ Adds(FromRunner, "prepared") /\ UNCHANGED <<writable, readable>>
                              /\ Goto(Runner, "await_commit") \/ Goto(Runner, "stop_shell")
           /\ AwaitCommit => /\ Quiet
                             /\ \/ Holds(ToRunner, "commit") /\ Goto(Runner, "commit")
                                \/ Goto(Runner, "stop_shell")
           /\ Acknowledge => Adds(FromRunner, "committed")
           /\ RunnerReads \/ StartShell \/ Prepare \/ Commit \/ StopUnpublishedShell \/ Abort
                => Quiet
<1>1. TellPrepared => /\ Adds(FromRunner, "prepared") /\ UNCHANGED <<writable, readable>>
                      /\ Goto(Runner, "await_commit") \/ Goto(Runner, "stop_shell")
  BY WritesAdds, Named DEF TellPrepared, Quiet, Adds
<1>2. AwaitCommit => /\ Quiet
                     /\ \/ Holds(ToRunner, "commit") /\ Goto(Runner, "commit")
                        \/ Goto(Runner, "stop_shell")
  BY TakesQuiet, SameQuiet, Named DEF AwaitCommit
<1>3. Acknowledge => Adds(FromRunner, "committed")
  BY SendsAdds, SameQuiet, Named DEF Acknowledge, Quiet, Adds
<1>4. RunnerReads \/ StartShell \/ Prepare \/ Commit \/ StopUnpublishedShell \/ Abort => Quiet
  BY TakesQuiet, SameQuiet, Named
     DEF RunnerReads, StartShell, Prepare, Commit, StopUnpublishedShell, Abort, pipes
<1> QED BY <1>1, <1>2, <1>3, <1>4

-----------------------------------------------------------------------------
\* The invariant survives the steps.  What every one of them needs expanded:
USE DEF Caller, Bootstrap, Runner, Procs, CallerPCs, BootstrapPCs, RunnerPCs, Over, Gone,
        Answers, ToBootstrap, ToCaller, ToRunner, FromRunner, Goto, Closed, world, pipes,
        IInv, TypeOK, CommitWasSent, CommitWasMade, BootstrapLetGo, ShellAwaits,
        RunnerUnborn

LEMMA CallerKeeps ==
    ASSUME IInv, CallerStep
    PROVE  IInv'
<1>1. CASE SendStart
  BY <1>1, CallerFrames DEF SendStart, Adds
<1>2. CASE AwaitPrepared
  BY <1>2, CallerFrames DEF AwaitPrepared, Quiet
<1>3. CASE Check
  BY <1>3, CallerFrames DEF Check, Quiet
\* The one step that hands out a commit frame also records it.
<1>4. CASE SendCommit
  <2>1. CASE Sends(ToBootstrap, "commit") /\ sent' = TRUE
    <3>1. Adds(ToBootstrap, "commit") /\ sent' /\ sent' \in BOOLEAN
      BY <2>1, SendsAdds, Named
    <3>2. /\ Goto(Caller, "await_committed") \/ Goto(Caller, "recover")
          /\ pc[Caller] = "send_commit" /\ writable' = writable \ {ToBootstrap}
          /\ UNCHANGED <<readable, world, answer>>
      BY <1>4 DEF SendCommit
    <3> QED BY <3>1, <3>2 DEF Adds
  <2>2. CASE UNCHANGED <<wire, sent>>
    <3>1. Quiet
      BY <2>2, SameQuiet
    <3> QED BY <1>4, <2>2, <3>1 DEF SendCommit, Quiet
  <2> QED BY <1>4, <2>1, <2>2 DEF SendCommit
\* An acknowledgement can only be taken if one was on its way.
<1>5. CASE AwaitCommitted
  <2>1. CASE Quiet /\ Goto(Caller, "recover") /\ UNCHANGED <<writable, readable, answer>>
    BY <1>5, <2>1 DEF AwaitCommitted, Quiet
  <2>2. CASE Quiet /\ Holds(ToCaller, "committed")
    BY <1>5, <2>2 DEF AwaitCommitted, Returns, Ends, Quiet
  <2> QED BY <1>5, <2>1, <2>2, CallerFrames
<1>6. CASE Recover
  BY <1>6, CallerFrames DEF Recover, Returns, Ends, Quiet
<1>7. CASE CloseInput
  BY <1>7, CallerFrames DEF CloseInput, Returns, Ends, Quiet
<1>8. CASE KillBootstrap
  BY <1>8, CallerFrames DEF KillBootstrap, Quiet
<1> QED BY <1>1, <1>2, <1>3, <1>4, <1>5, <1>6, <1>7, <1>8 DEF CallerStep

LEMMA BootstrapKeeps ==
    ASSUME IInv, BootstrapStep
    PROVE  IInv'
<1>1. CASE BootstrapReads
  BY <1>1, BootstrapFrames DEF BootstrapReads, Quiet
<1>2. CASE SpawnRunner
  <2>1. pc[Runner] = "none" /\ job # "visible"
    BY <1>2 DEF SpawnRunner
  <2>2. CASE pc' = [pc EXCEPT ![Bootstrap] = "send_start", ![Runner] = "read_start"]
    BY <1>2, <2>1, <2>2, BootstrapFrames DEF SpawnRunner, Quiet
  <2>3. CASE Goto(Bootstrap, "fail")
    BY <1>2, <2>3, BootstrapFrames DEF SpawnRunner, Quiet
  <2> QED BY <1>2, <2>2, <2>3 DEF SpawnRunner
\* A commit frame in its input means that the caller sent one.
<1>3. CASE Relay
  BY <1>3, BootstrapFrames DEF Relay, Quiet, Adds
\* An acknowledgement in its input means that the job is visible.
<1>4. CASE AwaitAcknowledgement
  BY <1>4, BootstrapFrames DEF AwaitAcknowledgement, Quiet
<1>5. CASE Report
  BY <1>5, BootstrapFrames DEF Report, Ends, Adds
<1>6. CASE StopRunner
  BY <1>6, BootstrapFrames DEF StopRunner, Quiet
<1>7. CASE AwaitRunnerGone
  BY <1>7, BootstrapFrames DEF AwaitRunnerGone, Quiet
<1>8. CASE Fail
  BY <1>8, BootstrapFrames DEF Fail, Ends, Adds
<1> QED BY <1>1, <1>2, <1>3, <1>4, <1>5, <1>6, <1>7, <1>8 DEF BootstrapStep

LEMMA RunnerKeeps ==
    ASSUME IInv, RunnerStep
    PROVE  IInv'
<1>1. CASE RunnerReads
  BY <1>1, RunnerFrames DEF RunnerReads, Ends, Quiet
<1>2. CASE StartShell
  BY <1>2, RunnerFrames DEF StartShell, Ends, Quiet
<1>3. CASE Prepare
  BY <1>3, RunnerFrames DEF Prepare, Quiet
<1>4. CASE TellPrepared
  BY <1>4, RunnerFrames DEF TellPrepared, Adds
\* A commit frame in its input means that the caller sent one.
<1>5. CASE AwaitCommit
  BY <1>5, RunnerFrames DEF AwaitCommit, Quiet
<1>6. CASE Commit
  BY <1>6, RunnerFrames DEF Commit, Quiet
<1>7. CASE Acknowledge
  BY <1>7, RunnerFrames DEF Acknowledge, Adds
<1>8. CASE StopUnpublishedShell
  BY <1>8, RunnerFrames DEF StopUnpublishedShell, Quiet
<1>9. CASE Abort
  BY <1>9, RunnerFrames DEF Abort, Ends, Unstaged, Quiet
<1> QED BY <1>1, <1>2, <1>3, <1>4, <1>5, <1>6, <1>7, <1>8, <1>9 DEF RunnerStep

LEMMA DeathKeeps ==
    ASSUME IInv, GuardianCleans \/ \E p \in Procs : Crash(p)
    PROVE  IInv'
<1>1. UNCHANGED wire /\ Quiet
  BY SameQuiet DEF GuardianCleans, Crash
<1>2. CASE GuardianCleans
  BY <1>1, <1>2 DEF GuardianCleans, Quiet
<1>3. ASSUME NEW p \in Procs, Crash(p)
      PROVE  IInv'
  BY <1>1, <1>3 DEF Crash, Ends, Quiet
<1> QED BY <1>2, <1>3

-----------------------------------------------------------------------------
\* The invariant holds initially.
LEMMA InvInit == Init => IInv
<1> SUFFICES ASSUME Init PROVE IInv
  OBVIOUS
<1>1. /\ pc[Caller] = "send_start" /\ pc[Bootstrap] = "read_start" /\ pc[Runner] = "none"
      /\ pc \in [Procs -> CallerPCs \cup BootstrapPCs \cup RunnerPCs]
  BY DEF Init
<1>2. wire \in [Pipes -> Seq(Frames)]
  BY DEF Init
<1>3. \A pipe \in Pipes, frame \in Frames : ~Holds(pipe, frame)
  BY DEF Init, Holds
<1> QED BY <1>1, <1>2, <1>3, Named DEF Init

\* A stutter changes nothing of it.
LEMMA InvStutter == IInv /\ UNCHANGED vars => IInv'
<1> SUFFICES ASSUME IInv, UNCHANGED vars PROVE IInv'
  OBVIOUS
<1>1. \A pipe, frame : Holds(pipe, frame)' <=> Holds(pipe, frame)
  BY DEF vars, Holds
<1>2. TypeOK' /\ RunnerUnborn'
  BY DEF vars, IInv, TypeOK, RunnerUnborn
<1>3. CommitWasSent' /\ CommitWasMade'
  BY <1>1 DEF vars, IInv, CommitWasSent, CommitWasMade, Gone
<1>4. BootstrapLetGo' /\ ShellAwaits'
  BY <1>1 DEF vars, IInv, BootstrapLetGo, ShellAwaits
<1> QED BY <1>2, <1>3, <1>4 DEF IInv

-----------------------------------------------------------------------------
\* The abstract start of a job.

\* Steps that show nothing.
LEMMA Unseen ==
    ASSUME UNCHANGED <<world, answer, sent>>, pc'[Runner] = pc[Runner],
           pc'[Caller] = "crashed" <=> pc[Caller] = "crashed"
    PROVE  UNCHANGED Contract!vars
BY DEF Contract!vars, CallerSeen, RunnerSeen

\* The answer, which is the caller's last step.
LEMMA AnswerSeen ==
    ASSUME IInv, StepsMatch, NEW what \in Answers \ {"none"}, Returns(what),
           UNCHANGED <<world, sent>>, pc[Caller] # "returned", pc[Caller] # "crashed",
           what \in {"certain", "uncertain"} => job = "visible",
           what = "certain" => pc[Runner] # "slain",
           what = "refused" => ~sent
    PROVE  Contract!Next /\ StepsMatch'
<1>1. pc' = [pc EXCEPT ![Caller] = "returned"] /\ answer' = what /\ answer = "none"
  BY DEF Returns, Ends, StepsMatch
<1>2. CallerSeen = "waiting" /\ CallerSeen' = what /\ RunnerSeen' = RunnerSeen
  BY <1>1 DEF CallerSeen, RunnerSeen
<1>3. what = "certain" => RunnerSeen # "slain"
  BY DEF RunnerSeen
<1>4. Contract!Answer
  BY <1>2, <1>3 DEF Contract!Answer
<1>5. StepsMatch'
  BY <1>1 DEF StepsMatch
<1> QED BY <1>4, <1>5 DEF Contract!Next

\* The caller asks, is answered, or shows nothing.
LEMMA CallerSeenSteps ==
    ASSUME IInv, StepsMatch, CallerStep
    PROVE  [Contract!Next]_(Contract!vars) /\ StepsMatch'
<1>1. ASSUME NEW to \in CallerPCs \ {"returned", "crashed"}, Goto(Caller, to),
             pc[Caller] # "returned", pc[Caller] # "crashed", UNCHANGED <<world, answer, sent>>
      PROVE  UNCHANGED Contract!vars /\ StepsMatch'
  BY <1>1, Unseen DEF StepsMatch
<1>2. CASE SendStart
  BY <1>1, <1>2 DEF SendStart
<1>3. CASE AwaitPrepared
  BY <1>1, <1>3 DEF AwaitPrepared, Expects
<1>4. CASE Check
  BY <1>1, <1>4 DEF Check
<1>5. CASE SendCommit
  <2>1. CASE sent' = TRUE
    <3>1. pc[Caller] = "send_commit" /\ (Goto(Caller, "await_committed") \/ Goto(Caller, "recover"))
          /\ UNCHANGED <<world, answer>> /\ ~sent /\ answer = "none"
      BY <1>5 DEF SendCommit
    <3>2. CallerSeen = "waiting" /\ CallerSeen' = "waiting" /\ RunnerSeen' = RunnerSeen
      BY <3>1 DEF CallerSeen, RunnerSeen
    <3>3. Contract!Ask
      BY <2>1, <3>1, <3>2 DEF Contract!Ask
    <3>4. StepsMatch'
      BY <3>1 DEF StepsMatch
    <3> QED BY <3>3, <3>4 DEF Contract!Next
  <2>2. CASE Goto(Caller, "recover") /\ UNCHANGED <<world, answer, sent>>
    BY <1>1, <1>5, <2>2 DEF SendCommit
  <2> QED BY <1>5, <2>1, <2>2 DEF SendCommit
<1>6. CASE AwaitCommitted
  <2>1. CASE Goto(Caller, "recover") /\ UNCHANGED <<world, answer, sent>>
    BY <1>1, <1>6, <2>1 DEF AwaitCommitted
  <2>2. CASE Holds(ToCaller, "committed") /\ (Returns("certain") \/ Returns("uncertain"))
    BY <1>6, <2>2, AnswerSeen DEF AwaitCommitted
  <2> QED BY <1>6, <2>1, <2>2, CallerFrames DEF AwaitCommitted
<1>7. CASE Recover
  BY <1>7, AnswerSeen DEF Recover
<1>8. CASE CloseInput
  <2>1. CASE UNCHANGED <<pc, answer>>
    BY <1>8, <2>1, Unseen DEF CloseInput, StepsMatch
  <2>2. CASE Returns("refused")
    BY <1>8, <2>2, AnswerSeen DEF CloseInput
  <2>3. CASE Goto(Caller, "kill") /\ UNCHANGED answer
    BY <1>1, <1>8, <2>3 DEF CloseInput
  <2> QED BY <1>8, <2>1, <2>2, <2>3 DEF CloseInput
<1>9. CASE KillBootstrap
  <2>1. /\ pc[Caller] = "kill" /\ pc'[Caller] = "returned" /\ pc'[Runner] = pc[Runner]
        /\ answer' = "refused" /\ ~sent /\ answer = "none" /\ UNCHANGED <<world, sent>>
        /\ pc'[Bootstrap] \in {pc[Bootstrap], "crashed"}
    BY <1>9 DEF KillBootstrap
  <2>2. CallerSeen = "waiting" /\ CallerSeen' = "refused" /\ RunnerSeen' = RunnerSeen
    BY <2>1 DEF CallerSeen, RunnerSeen
  <2>3. Contract!Answer
    BY <2>1, <2>2 DEF Contract!Answer
  <2>4. StepsMatch'
    BY <2>1 DEF StepsMatch
  <2> QED BY <2>3, <2>4 DEF Contract!Next
<1> QED BY <1>2, <1>3, <1>4, <1>5, <1>6, <1>7, <1>8, <1>9 DEF CallerStep

\* Of the bootstrap only the spawn and the kill are seen.
LEMMA BootstrapSeenSteps ==
    ASSUME IInv, StepsMatch, BootstrapStep
    PROVE  [Contract!Next]_(Contract!vars) /\ StepsMatch'
<1>1. ASSUME NEW to \in BootstrapPCs, Goto(Bootstrap, to), UNCHANGED <<world, answer, sent>>,
             pc[Runner] = "none" => to \in {"spawn", "fail", "exited"}
      PROVE  UNCHANGED Contract!vars /\ StepsMatch'
  BY <1>1, Unseen DEF StepsMatch
<1>2. CASE BootstrapReads
  BY <1>1, <1>2 DEF BootstrapReads
<1>3. CASE SpawnRunner
  <2>1. CASE Goto(Bootstrap, "fail")
    BY <1>1, <1>3, <2>1 DEF SpawnRunner
  <2>2. CASE pc' = [pc EXCEPT ![Bootstrap] = "send_start", ![Runner] = "read_start"]
    <3>1. /\ pc[Runner] = "none" /\ pc'[Runner] = "read_start" /\ pc'[Caller] = pc[Caller]
          /\ UNCHANGED <<world, answer, sent>>
      BY <1>3, <2>2 DEF SpawnRunner
    <3>2. RunnerSeen = "none" /\ RunnerSeen' = "alive" /\ CallerSeen' = CallerSeen
      BY <3>1 DEF RunnerSeen, CallerSeen
    <3>3. Contract!Spawn
      BY <3>1, <3>2 DEF Contract!Spawn
    <3>4. StepsMatch'
      BY <3>1 DEF StepsMatch
    <3> QED BY <3>3, <3>4 DEF Contract!Next
  <2> QED BY <1>3, <2>1, <2>2 DEF SpawnRunner
<1>4. CASE Relay
  BY <1>1, <1>4 DEF Relay, Writes, Expects, StepsMatch
<1>5. CASE AwaitAcknowledgement
  BY <1>1, <1>5 DEF AwaitAcknowledgement, Expects, StepsMatch
<1>6. CASE Report
  BY <1>1, <1>6 DEF Report, Ends
<1>7. CASE StopRunner
  BY <1>1, <1>7 DEF StopRunner, StepsMatch
<1>8. CASE AwaitRunnerGone
  <2>1. CASE Goto(Bootstrap, "fail")
    BY <1>1, <1>8, <2>1 DEF AwaitRunnerGone
  <2>2. CASE pc' = [pc EXCEPT ![Bootstrap] = "fail", ![Runner] = "slain"] /\ ~Gone(Runner)
    <3>1. /\ pc[Bootstrap] = "stopping" /\ pc'[Runner] = "slain" /\ pc'[Caller] = pc[Caller]
          /\ pc[Runner] \notin {"none", "exited", "slain", "crashed"}
          /\ UNCHANGED <<world, answer, sent>>
      BY <1>8, <2>2 DEF AwaitRunnerGone, StepsMatch
    <3>2. RunnerSeen = "alive" /\ RunnerSeen' = "slain" /\ CallerSeen' = CallerSeen
      BY <3>1 DEF RunnerSeen, CallerSeen
    <3>3. CallerSeen # "certain"
      BY <3>1 DEF CallerSeen
    <3>4. Contract!Slay
      BY <3>1, <3>2, <3>3 DEF Contract!Slay
    <3>5. StepsMatch'
      BY <3>1, <2>2 DEF StepsMatch
    <3> QED BY <3>4, <3>5 DEF Contract!Next
  <2> QED BY <1>8, <2>1, <2>2 DEF AwaitRunnerGone
<1>9. CASE Fail
  BY <1>1, <1>9 DEF Fail, Ends
<1> QED BY <1>2, <1>3, <1>4, <1>5, <1>6, <1>7, <1>8, <1>9 DEF BootstrapStep

\* The runner's way to the commit point, or back.
LEMMA RunnerSeenSteps ==
    ASSUME IInv, StepsMatch, RunnerStep
    PROVE  [Contract!Next]_(Contract!vars) /\ StepsMatch'
<1>0. /\ pc[Runner] \notin {"none", "exited", "slain", "crashed"} /\ RunnerSeen = "alive"
      /\ \A to : Goto(Runner, to) =>
            /\ CallerSeen' = CallerSeen \/ answer' # answer
            /\ to \in RunnerPCs \ {"none", "exited", "slain", "crashed"} => RunnerSeen' = "alive"
            /\ to = "exited" => RunnerSeen' = "done"
  BY DEF RunnerStep, RunnerReads, StartShell, Prepare, TellPrepared, AwaitCommit, Commit,
         Acknowledge, StopUnpublishedShell, Abort, RunnerSeen, CallerSeen
<1>a. ASSUME NEW to \in RunnerPCs \ {"none", "exited", "slain", "crashed"},
             Goto(Runner, to), UNCHANGED answer
      PROVE  RunnerSeen = "alive" /\ UNCHANGED <<CallerSeen, RunnerSeen>>
  BY <1>0, <1>a
<1>1. ASSUME NEW to \in {"start_shell", "await_commit", "commit", "supervise", "stop_shell"},
             Goto(Runner, to), UNCHANGED <<world, answer, sent>>
      PROVE  UNCHANGED Contract!vars
  BY <1>a, <1>1 DEF Contract!vars
<1>2. ASSUME Goto(Runner, "exited"), shell # "alive", job' = "none", job # "visible",
             UNCHANGED <<shell, answer, sent>>
      PROVE  Contract!Next
  BY <1>0, <1>2 DEF Contract!Next, Contract!GiveUp
<1>3. CASE RunnerReads
  <2>1. CASE Goto(Runner, "start_shell")
    BY <1>1, <1>3, <2>1 DEF RunnerReads, StepsMatch
  <2>2. CASE Goto(Runner, "exited")
    BY <1>2, <1>3, <2>2 DEF RunnerReads, StepsMatch
  <2> QED BY <1>3, <2>1, <2>2 DEF RunnerReads, Ends
<1>4. CASE StartShell
  <2>1. CASE Goto(Runner, "prepare") /\ shell' = "alive"
    <3>0. RunnerSeen = "alive" /\ UNCHANGED <<CallerSeen, RunnerSeen>>
      BY <1>a, <1>4, <2>1 DEF StartShell
    <3>1. Contract!Launch
      BY <3>0, <1>4, <2>1 DEF StartShell, StepsMatch, Contract!Launch
    <3>2. StepsMatch'
      BY <1>4, <2>1 DEF StartShell, StepsMatch
    <3> QED BY <3>1, <3>2 DEF Contract!Next
  <2>2. CASE Goto(Runner, "exited") /\ UNCHANGED shell
    BY <1>2, <1>4, <2>2 DEF StartShell, StepsMatch
  <2> QED BY <1>4, <2>1, <2>2 DEF StartShell, Ends
<1>5. CASE Prepare
  <2>1. CASE Goto(Runner, "tell") /\ job' = "staged"
    <3>0. RunnerSeen = "alive" /\ UNCHANGED <<CallerSeen, RunnerSeen>>
      BY <1>a, <1>5, <2>1 DEF Prepare
    <3>1. Contract!Stage
      BY <3>0, <1>5, <2>1 DEF Prepare, StepsMatch, Contract!Stage
    <3>2. StepsMatch'
      BY <1>5, <2>1 DEF Prepare, StepsMatch
    <3> QED BY <3>1, <3>2 DEF Contract!Next
  <2>2. CASE Goto(Runner, "stop_shell") /\ UNCHANGED job
    BY <1>1, <1>5, <2>2 DEF Prepare, StepsMatch
  <2> QED BY <1>5, <2>1, <2>2 DEF Prepare
<1>6. CASE TellPrepared
  BY <1>1, <1>6 DEF TellPrepared, Writes, StepsMatch
<1>7. CASE AwaitCommit
  BY <1>1, <1>7 DEF AwaitCommit, StepsMatch
<1>8. CASE Commit
  <2>1. CASE Goto(Runner, "ack") /\ job' = "visible"
    <3>0. RunnerSeen = "alive" /\ UNCHANGED <<CallerSeen, RunnerSeen>>
      BY <1>a, <1>8, <2>1 DEF Commit
    <3>1. Contract!Appear
      BY <3>0, <1>8, <2>1 DEF Commit, StepsMatch, Contract!Appear
    <3>2. StepsMatch'
      BY <1>8, <2>1 DEF Commit, StepsMatch
    <3> QED BY <3>1, <3>2 DEF Contract!Next
  <2>2. CASE Goto(Runner, "stop_shell") /\ UNCHANGED job
    BY <1>1, <1>8, <2>2 DEF Commit, StepsMatch
  <2> QED BY <1>8, <2>1, <2>2 DEF Commit
<1>9. CASE Acknowledge
  BY <1>1, <1>9 DEF Acknowledge, StepsMatch
<1>10. CASE StopUnpublishedShell
  <2>0. RunnerSeen = "alive" /\ UNCHANGED <<CallerSeen, RunnerSeen>>
    BY <1>a, <1>10 DEF StopUnpublishedShell
  <2>1. Contract!StopCommand
    BY <2>0, <1>10 DEF StopUnpublishedShell, StepsMatch, Contract!StopCommand
  <2>2. StepsMatch'
    BY <1>10 DEF StopUnpublishedShell, StepsMatch
  <2> QED BY <2>1, <2>2 DEF Contract!Next
<1>11. CASE Abort
  BY <1>2, <1>11 DEF Abort, Unstaged, Ends, StepsMatch
<1> QED BY <1>3, <1>4, <1>5, <1>6, <1>7, <1>8, <1>9, <1>10, <1>11 DEF RunnerStep

\* Deaths, and the guardian's work after its runner's.
LEMMA DeathSeenSteps ==
    ASSUME IInv, StepsMatch, GuardianCleans \/ \E p \in Procs : Crash(p)
    PROVE  [Contract!Next]_(Contract!vars) /\ StepsMatch'
<1>1. CASE GuardianCleans
  <2>1. RunnerSeen \in {"done", "slain", "dead"} /\ UNCHANGED <<CallerSeen, RunnerSeen>>
    BY <1>1 DEF GuardianCleans, RunnerSeen, CallerSeen
  <2>2. Contract!StopCommand
    BY <1>1, <2>1 DEF GuardianCleans, Contract!StopCommand
  <2> QED BY <1>1, <2>2 DEF GuardianCleans, Contract!Next, StepsMatch
<1>2. CASE Crash(Caller)
  <2>1. CallerSeen = "waiting" /\ CallerSeen' = "dead" /\ RunnerSeen' = RunnerSeen
    BY <1>2 DEF Crash, Ends, StepsMatch, CallerSeen, RunnerSeen
  <2>2. Contract!CallerDies
    BY <1>2, <2>1 DEF Crash, Contract!CallerDies
  <2> QED BY <1>2, <2>2 DEF Crash, Ends, Contract!Next, StepsMatch
<1>3. CASE Crash(Bootstrap)
  BY <1>3, Unseen DEF Crash, Ends, StepsMatch
<1>4. CASE Crash(Runner)
  <2>1. RunnerSeen = "alive" /\ RunnerSeen' = "dead" /\ CallerSeen' = CallerSeen
    BY <1>4 DEF Crash, Ends, RunnerSeen, CallerSeen
  <2>2. Contract!RunnerDies
    BY <1>4, <2>1 DEF Crash, Contract!RunnerDies
  <2> QED BY <1>4, <2>2 DEF Crash, Ends, Contract!Next, StepsMatch
<1> QED BY <1>1, <1>2, <1>3, <1>4

\* The abstract start begins where the startup does.
LEMMA ContractInit == Init => Contract!Init /\ StepsMatch
<1> SUFFICES ASSUME Init PROVE Contract!Init /\ StepsMatch
  OBVIOUS
<1>1. pc[Caller] = "send_start" /\ pc[Bootstrap] = "read_start" /\ pc[Runner] = "none"
  BY DEF Init
<1>2. CallerSeen = "waiting" /\ RunnerSeen = "none"
  BY <1>1 DEF Init, CallerSeen, RunnerSeen
<1> QED BY <1>1, <1>2 DEF Init, Contract!Init, StepsMatch

\* A stutter shows nothing.
LEMMA ContractStutter ==
    ASSUME UNCHANGED vars, StepsMatch
    PROVE  UNCHANGED Contract!vars /\ StepsMatch'
BY Unseen DEF vars, StepsMatch

-----------------------------------------------------------------------------
\* From here on the invariant is taken as a whole.
HIDE DEF Caller, Bootstrap, Runner, Procs, CallerPCs, BootstrapPCs, RunnerPCs, Over, Gone,
         Answers, ToBootstrap, ToCaller, ToRunner, FromRunner, Goto, Closed, world, pipes,
         IInv, TypeOK, CommitWasSent, CommitWasMade, BootstrapLetGo, ShellAwaits,
         RunnerUnborn

\* The invariant holds in every reachable state.
THEOREM Inductive == Spec => []IInv
<1>1. IInv /\ [Next]_vars => IInv'
  BY InvStutter, CallerKeeps, BootstrapKeeps, RunnerKeeps, DeathKeeps DEF Next, Procs
<1> QED BY InvInit, <1>1, PTL DEF Spec

\* A job appears only if its caller asked for the commit, and never after
\* Start refused it (abortBeforeCommit).
THEOREM NoJobUnasked == Spec => []NoUnwantedJob
<1>1. IInv => NoUnwantedJob
  BY DEF IInv, CommitWasSent, NoUnwantedJob
<1> QED BY <1>1, Inductive, PTL

\* What Start tells its caller about an existing job is true (committedResult,
\* recoverCommitted).
THEOREM AnswersAreTrue == Spec => []AnswerIsTrue
<1>1. IInv => AnswerIsTrue
  BY DEF IInv, CommitWasMade, AnswerIsTrue
<1> QED BY <1>1, Inductive, PTL

\* A runner whose commit was acknowledged is never killed by the startup
\* (stopRunner).
THEOREM AcknowledgedIsSafe == Spec => []CertainIsSafe
<1>1. IInv => CertainIsSafe
  BY DEF IInv, BootstrapLetGo, CertainIsSafe
<1> QED BY <1>1, Inductive, PTL

\* No failure of the startup makes a committed job's runner stop its command
\* (runDetachedRunner).
THEOREM CommittedRuns == Spec => []CommittedKeepsShell
<1>1. IInv => CommittedKeepsShell
  BY DEF IInv, CommitWasMade, ShellAwaits, CommittedKeepsShell, Gone
<1> QED BY <1>1, Inductive, PTL

\* The startup implements JobStart: whatever the abstract start of a job cannot
\* do - answer twice, let a refused job appear, stop the command of a job whose
\* runner lives, kill a runner its caller was promised - no startup does.
THEOREM Refines == Spec => ImplementsJobStart
<1>1. Init => Contract!Init /\ StepsMatch
  BY ContractInit
<1>2. IInv /\ StepsMatch /\ [Next]_vars => StepsMatch' /\ [Contract!Next]_(Contract!vars)
  BY ContractStutter, CallerSeenSteps, BootstrapSeenSteps, RunnerSeenSteps, DeathSeenSteps DEF Next
<1> QED BY <1>1, <1>2, Inductive, PTL DEF Spec, ImplementsJobStart, Contract!Spec

=============================================================================
