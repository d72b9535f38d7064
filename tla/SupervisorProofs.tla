--------------------------- MODULE SupervisorProofs ---------------------------
(***************************************************************************)
(* Proofs about Supervisor, for any number of processes, any limit and any  *)
(* amount of output.  The invariant has three parts besides the types, each *)
(* preserved for reasons of its own: the group and its number (GroupKept),  *)
(* the shell's exit (ExitIsReal) and the output (OutputKept).               *)
(***************************************************************************)
EXTENDS Supervisor, TLAPS

-----------------------------------------------------------------------------
\* Types.

\* The types hold initially.
LEMMA TypeInit == Init => TypeOK
<1>1. Init => proc \in [Command -> {"unborn", "running", "escaped", "dead"}]
  BY DEF Init
<1>2. Init => {written, unread, captured} \subseteq Nat /\ holds \subseteq Command
  BY DEF Init
<1>3. Init => {waited, drained, timer, failed, termed, reaped, cancel, rogue, hit} \subseteq BOOLEAN
  BY DEF Init
<1> QED BY <1>1, <1>2, <1>3 DEF Init, TypeOK

\* What a signal leaves of the types it touches.
SignalOK ==
    /\ guardian' \in {"boot", "report", "watch", "linger", "grace", "cleanup", "last", "dead"}
    /\ termed' \in BOOLEAN /\ hit' \in BOOLEAN
    /\ proc' \in [Command -> {"unborn", "running", "escaped", "dead"}]
    /\ shellEnd' \in {"none", "itself", "stopped"}

\* A signal, or none, keeps the types.
LEMMA SignalTypes ==
  ASSUME TypeOK, NEW s, SignalGroup(s) \/ Strikes(s) \/ UNCHANGED group
  PROVE SignalOK
<1>1. CASE Killed
  BY <1>1 DEF TypeOK, Killed, SignalOK
<1>2. CASE Terminated("stopped")
  BY <1>2 DEF TypeOK, Terminated, SomeDie, SignalOK
<1>3. CASE UNCHANGED group
  BY <1>3 DEF TypeOK, group, SignalOK
<1>4. CASE hit' = TRUE /\ UNCHANGED <<guardian, termed, proc, shellEnd>>
  BY <1>4 DEF TypeOK, SignalOK
<1> QED BY <1>1, <1>2, <1>3, <1>4 DEF SignalGroup, Strikes

\* startCleanup keeps the types.
LEMMA CleanupTypes ==
  ASSUME TypeOK, StartCleanup
  PROVE  SignalOK /\ cleanup' \in {"no", "term", "kill", "done"}
<1>1. SignalOK
  BY SignalTypes DEF StartCleanup
<1>2. cleanup' \in {"no", "term", "kill", "done"}
  BY DEF TypeOK, StartCleanup
<1> QED BY <1>1, <1>2

\* The types of the runner's locals.
LocalsOK ==
    /\ cause' \in {"normal", "output_limit", "hard_timeout", "cancelled"}
    /\ cleanup' \in {"no", "term", "kill", "done"}
    /\ waited' \in BOOLEAN /\ drained' \in BOOLEAN /\ timer' \in BOOLEAN /\ failed' \in BOOLEAN

\* A step of the runner's loops keeps the types when it keeps those of its
\* locals, of the group and of the counts.
LEMMA LoopTypes ==
  ASSUME TypeOK, LocalsOK, SignalOK, {written', unread', captured'} \subseteq Nat,
         UNCHANGED <<pc, holds, kernel>>
  PROVE  TypeOK'
<1>1. {waited', drained', timer', failed', termed', hit', reaped', cancel', rogue'} \subseteq BOOLEAN
  BY DEF TypeOK, LocalsOK, SignalOK, kernel
<1>2. /\ pc' \in {"starting", "abandon", "ready", "supervise", "stop", "ended", "dead"}
      /\ frames' \subseteq {"ready", "exit"} /\ holds' \subseteq Command
      /\ pgid' \in {"own", "other"}
  BY DEF TypeOK, kernel
<1> QED BY <1>1, <1>2 DEF TypeOK, LocalsOK, SignalOK

\* A step of the guardian keeps the types when it keeps those of the group, of
\* the frames and of who holds the output.
LEMMA GuardianTypes ==
  ASSUME TypeOK, SignalOK, frames' \subseteq {"ready", "exit"}, holds' \subseteq Command,
         UNCHANGED <<pc, locals, written, unread, captured, reaped, cancel, pgid, rogue>>
  PROVE  TypeOK'
<1>1. {waited', drained', timer', failed', termed', hit', reaped', cancel', rogue'} \subseteq BOOLEAN
  BY DEF TypeOK, SignalOK, locals
<1> QED BY <1>1 DEF TypeOK, SignalOK, locals

\* A report keeps the types.
LEMMA ReportTypes ==
  ASSUME TypeOK, NEW to, NEW from, ShellExited(from, to),
         to \in {"boot", "report", "watch", "linger", "grace", "cleanup", "last", "dead"}
  PROVE  TypeOK'
<1>1. SignalOK
  BY DEF TypeOK, ShellExited, GuardianGoes, SignalOK
<1>2. frames' \subseteq {"ready", "exit"} /\ holds' \subseteq Command
  BY DEF TypeOK, ShellExited, Reports, output
<1>3. UNCHANGED <<pc, locals, written, unread, captured, reaped, cancel, pgid, rogue>>
  BY DEF ShellExited, output
<1> QED BY <1>1, <1>2, <1>3, GuardianTypes

\* Every step keeps the types.
LEMMA TypeNext ==
  ASSUME TypeOK, Next PROVE TypeOK'
<1> USE DEF locals, group, output, kernel
<1>1. CASE AwaitReady
  BY <1>1 DEF TypeOK, AwaitReady
<1>2. CASE StopGuardianStartup
  <2>1. SignalOK
    BY <1>2, SignalTypes DEF StopGuardianStartup
  <2> QED BY <1>2, <2>1 DEF TypeOK, StopGuardianStartup, SignalOK
<1>3. CASE Publish
  BY <1>3 DEF TypeOK, Publish
<1>4. CASE StopUnpublishedShell
  <2>1. SignalOK
    BY <1>4, SignalTypes DEF StopUnpublishedShell
  <2> QED BY <1>4, <2>1 DEF TypeOK, StopUnpublishedShell, SignalOK
<1>5. CASE Capture
  <2>1. {written', unread', captured'} \subseteq Nat
    BY <1>5 DEF TypeOK, Capture, LimitReached, Stored
  <2>2. UNCHANGED <<group, cleanup>> \/ StartCleanup
    BY <1>5 DEF Capture
  <2>3. SignalOK /\ cleanup' \in {"no", "term", "kill", "done"}
    <3>1. CASE UNCHANGED <<group, cleanup>>
      BY <3>1, SignalTypes DEF TypeOK
    <3>2. CASE StartCleanup
      BY <3>2, CleanupTypes
    <3> QED BY <2>2, <3>1, <3>2
  <2>4. cause' \in {"normal", "output_limit", "hard_timeout", "cancelled"}
    BY <1>5 DEF TypeOK, Capture
  <2>5. waited' \in BOOLEAN /\ drained' \in BOOLEAN /\ timer' \in BOOLEAN /\ failed' \in BOOLEAN
    BY <1>5 DEF TypeOK, Capture
  <2>6. UNCHANGED <<pc, holds, kernel>>
    BY <1>5 DEF Capture
  <2> QED BY <2>1, <2>3, <2>4, <2>5, <2>6, LoopTypes DEF LocalsOK
<1>6. CASE CaptureDone
  <2>1. SignalOK
    BY <1>6, SignalTypes DEF CaptureDone
  <2>2. LocalsOK
    BY <1>6 DEF TypeOK, CaptureDone, LocalsOK
  <2>3. UNCHANGED <<pc, output, kernel>> /\ {written', unread', captured'} \subseteq Nat
    BY <1>6 DEF TypeOK, CaptureDone
  <2> QED BY <2>1, <2>2, <2>3, LoopTypes
<1>7. CASE Waited
  <2>1. SignalOK /\ cleanup' \in {"no", "term", "kill", "done"}
    <3>1. CASE UNCHANGED <<group, cleanup>>
      BY <3>1, SignalTypes DEF TypeOK
    <3>2. CASE StartCleanup
      BY <3>2, CleanupTypes
    <3> QED BY <1>7, <3>1, <3>2 DEF Waited
  <2>2. LocalsOK
    BY <1>7, <2>1 DEF TypeOK, Waited, LocalsOK
  <2>3. UNCHANGED <<pc, output, kernel>> /\ {written', unread', captured'} \subseteq Nat
    BY <1>7 DEF TypeOK, Waited
  <2> QED BY <2>1, <2>2, <2>3, LoopTypes
<1>8. CASE HardTimeout
  <2>1. SignalOK /\ cleanup' \in {"no", "term", "kill", "done"}
    <3>1. CASE UNCHANGED <<group, cleanup>>
      BY <3>1, SignalTypes DEF TypeOK
    <3>2. CASE StartCleanup
      BY <3>2, CleanupTypes
    <3> QED BY <1>8, <3>1, <3>2 DEF HardTimeout
  <2>2. LocalsOK
    BY <1>8, <2>1 DEF TypeOK, HardTimeout, LocalsOK
  <2>3. UNCHANGED <<pc, output, kernel>> /\ {written', unread', captured'} \subseteq Nat
    BY <1>8 DEF TypeOK, HardTimeout
  <2> QED BY <2>1, <2>2, <2>3, LoopTypes
<1>9. CASE GraceExpired
  <2>1. SignalOK
    BY <1>9, SignalTypes DEF GraceExpired
  <2>2. LocalsOK
    BY <1>9 DEF TypeOK, GraceExpired, LocalsOK
  <2>3. UNCHANGED <<pc, output, kernel>> /\ {written', unread', captured'} \subseteq Nat
    BY <1>9 DEF TypeOK, GraceExpired
  <2> QED BY <2>1, <2>2, <2>3, LoopTypes
<1>10. CASE Reap
  BY <1>10 DEF TypeOK, Reap
<1>11. CASE Interrupted
  <2>1. SignalOK /\ cleanup' \in {"no", "term", "kill", "done"}
    BY <1>11, CleanupTypes DEF Interrupted
  <2>2. LocalsOK
    BY <1>11, <2>1 DEF TypeOK, Interrupted, LocalsOK
  <2>3. UNCHANGED <<pc, output, kernel>> /\ {written', unread', captured'} \subseteq Nat
    BY <1>11 DEF TypeOK, Interrupted
  <2> QED BY <2>1, <2>2, <2>3, LoopTypes
<1>12. CASE Poll
  <2>1. SignalOK /\ cleanup' \in {"no", "term", "kill", "done"}
    BY <1>12, CleanupTypes DEF Poll
  <2>2. LocalsOK
    BY <1>12, <2>1 DEF TypeOK, Poll, LocalsOK
  <2>3. UNCHANGED <<pc, output, kernel>> /\ {written', unread', captured'} \subseteq Nat
    BY <1>12 DEF TypeOK, Poll
  <2> QED BY <2>1, <2>2, <2>3, LoopTypes
<1>13. CASE Return
  BY <1>13 DEF TypeOK, Return
<1>14. CASE RunnerDies
  BY <1>14 DEF TypeOK, RunnerDies
<1>15. CASE StartShell
  <2>1. SignalOK
    BY <1>15 DEF TypeOK, StartShell, GuardianGoes, SignalOK, Command
  <2>2. frames' \subseteq {"ready", "exit"} /\ holds' \subseteq Command
    BY <1>15 DEF TypeOK, StartShell, Command
  <2> QED BY <1>15, <2>1, <2>2, GuardianTypes DEF StartShell
<1>16. CASE TellReady
  <2>1. SignalOK
    BY <1>16 DEF TypeOK, TellReady, GuardianGoes, SignalOK
  <2>2. frames' \subseteq {"ready", "exit"} /\ holds' \subseteq Command
    BY <1>16 DEF TypeOK, TellReady, Reports
  <2> QED BY <1>16, <2>1, <2>2, GuardianTypes DEF TellReady
<1>17. CASE Watch
  <2>1. CASE ShellExited("watch", "linger")
    BY <2>1, ReportTypes
  <2>2. CASE /\ GuardianGoes("cleanup") \/ GuardianGoes("grace")
             /\ UNCHANGED <<pc, locals, proc, shellEnd, output, kernel>>
    BY <2>2 DEF TypeOK, GuardianGoes
  <2> QED BY <1>17, <2>1, <2>2 DEF Watch
<1>18. CASE Linger
  BY <1>18 DEF TypeOK, Linger, GuardianGoes
<1>19. CASE AwaitExit
  <2>1. CASE ShellExited("grace", "cleanup")
    BY <2>1, ReportTypes
  <2>2. CASE /\ GuardianGoes("cleanup")
             /\ UNCHANGED <<pc, locals, proc, shellEnd, output, kernel>>
    BY <2>2 DEF TypeOK, GuardianGoes
  <2> QED BY <1>19, <2>1, <2>2 DEF AwaitExit
<1>20. CASE GuardianCleanup
  <2>1. SignalOK
    BY <1>20 DEF TypeOK, GuardianCleanup, GuardianGoes, SomeDie, Killed, SignalOK
  <2>2. frames' \subseteq {"ready", "exit"} /\ holds' \subseteq Command
    BY <1>20 DEF TypeOK, GuardianCleanup
  <2> QED BY <1>20, <2>1, <2>2, GuardianTypes DEF GuardianCleanup
<1>21. ASSUME NEW child \in Children, Fork(child) PROVE TypeOK'
  <2>1. holds' \subseteq Command
    BY <1>21 DEF TypeOK, Fork, Command
  <2>2. proc' \in [Command -> {"unborn", "running", "escaped", "dead"}]
    BY <1>21 DEF TypeOK, Fork
  <2> QED BY <1>21, <2>1, <2>2 DEF TypeOK, Fork
<1>22. ASSUME NEW p \in Command, Exit(p) PROVE TypeOK'
  BY <1>22 DEF TypeOK, Exit
<1>23. ASSUME NEW p \in Command, Escape(p) PROVE TypeOK'
  BY <1>23 DEF TypeOK, Escape
<1>24. CASE Write
  BY <1>24 DEF TypeOK, Write
<1>25. CASE TermOwnGroup
  BY <1>25 DEF TypeOK, TermOwnGroup, Terminated, SomeDie
<1>26. CASE KillGuardian
  BY <1>26 DEF TypeOK, KillGuardian
<1>27. CASE StoreCancellation
  BY <1>27 DEF TypeOK, StoreCancellation
<1>28. CASE Recycle
  BY <1>28 DEF TypeOK, Recycle
<1> QED BY <1>1, <1>2, <1>3, <1>4, <1>5, <1>6, <1>7, <1>8, <1>9, <1>10, <1>11, <1>12, <1>13, <1>14,
    <1>15, <1>16, <1>17, <1>18, <1>19, <1>20, <1>21, <1>22, <1>23, <1>24, <1>25, <1>26, <1>27, <1>28
   DEF Next, GuardianStep, CommandStep

-----------------------------------------------------------------------------
\* The group.

\* SIGTERM kills nobody for certain, but it brings nobody back either.
LEMMA TermSpares ==
  ASSUME TypeOK, GroupKept, pc # "dead", SignalGroup("TERM") \/ UNCHANGED group
  PROVE  ~hit' /\ guardian' = guardian /\ (Members = {} => Members' = {})
<1>1. CASE UNCHANGED group
  BY <1>1 DEF group, Members, GroupKept
<1>2. CASE ~reaped /\ Strikes("TERM")
  <2>1. Terminated("stopped")
    BY <1>2 DEF GroupKept, Strikes
  <2>2. ~hit' /\ guardian' = guardian
    BY <2>1 DEF Terminated, GroupKept
  <2>3. ASSUME NEW p \in Command, proc'[p] = "running" PROVE proc[p] = "running"
    BY <2>1, <2>3 DEF Terminated, SomeDie
  <2> QED BY <2>2, <2>3 DEF Members
<1> QED BY <1>1, <1>2 DEF SignalGroup

\* SIGKILL empties the group.
LEMMA KillEmpties ==
  ASSUME TypeOK, GroupKept, pc # "dead", cleanup \in {"no", "term"},
         SignalGroup("KILL") \/ Strikes("KILL")
  PROVE  ~hit' /\ guardian' = "dead" /\ Members' = {}
<1>1. Killed
  BY DEF GroupKept, SignalGroup, Strikes
<1>2. ASSUME NEW p \in Command PROVE proc'[p] # "running"
  BY <1>1 DEF Killed, Members
<1> QED BY <1>1, <1>2 DEF Killed, Members, GroupKept

\* Every step keeps the group and its number.
LEMMA GroupNext ==
  ASSUME TypeOK, GroupKept, Next PROVE GroupKept'
<1> USE DEF locals, group, output, kernel
<1>1. CASE AwaitReady
  BY <1>1 DEF AwaitReady, GroupKept, Members
<1>2. CASE StopGuardianStartup
  BY <1>2, KillEmpties DEF StopGuardianStartup, GroupKept
<1>3. CASE Publish
  BY <1>3 DEF Publish, GroupKept, Members
<1>4. CASE StopUnpublishedShell
  BY <1>4, TermSpares DEF StopUnpublishedShell, GroupKept
<1>5. CASE Capture
  BY <1>5, TermSpares DEF Capture, LimitReached, Loops, Both, StartCleanup, GroupKept
<1>6. CASE CaptureDone
  BY <1>6 DEF CaptureDone, Loops, Both, GroupKept, Members
<1>7. CASE Waited
  BY <1>7, TermSpares DEF Waited, Loops, Both, StartCleanup, GroupKept
<1>8. CASE HardTimeout
  BY <1>8, TermSpares DEF HardTimeout, Supervises, Loops, StartCleanup, GroupKept
<1>9. CASE GraceExpired
  BY <1>9, KillEmpties DEF GraceExpired, Loops, Both, GroupKept
<1>10. CASE Reap
  BY <1>10 DEF Reap, Both, GroupKept, Members
<1>11. CASE Interrupted
  BY <1>11, TermSpares DEF Interrupted, Supervises, Loops, StartCleanup, GroupKept
<1>12. CASE Poll
  BY <1>12, TermSpares DEF Poll, Supervises, Loops, StartCleanup, GroupKept
<1>13. CASE Return
  BY <1>13 DEF Return, Finished, Both, GroupKept, Members
<1>14. CASE RunnerDies
  BY <1>14 DEF RunnerDies, GroupKept, Members
<1>15. CASE StartShell
  BY <1>15 DEF GroupKept, Members, StartShell, GuardianGoes
<1>16. CASE TellReady
  BY <1>16 DEF GroupKept, Members, TellReady, GuardianGoes, Reports, Lifetime
<1>17. CASE Watch
  BY <1>17 DEF GroupKept, Members, Watch, ShellExited, GuardianGoes, Reports, Lifetime
<1>18. CASE Linger
  BY <1>18 DEF GroupKept, Members, Linger, GuardianGoes, Lifetime
<1>19. CASE AwaitExit
  BY <1>19 DEF GroupKept, Members, AwaitExit, ShellExited, GuardianGoes, Reports, Lifetime
<1>20. CASE GuardianCleanup
  BY <1>20 DEF GroupKept, Members, GuardianCleanup, GuardianGoes, SomeDie, Killed
<1>21. ASSUME NEW child \in Children, Fork(child) PROVE GroupKept'
  BY <1>21 DEF GroupKept, Members, Fork, Command
<1>22. ASSUME NEW p \in Command, Exit(p) PROVE GroupKept'
  BY <1>22 DEF GroupKept, Members, Exit
<1>23. ASSUME NEW p \in Command, Escape(p) PROVE GroupKept'
  BY <1>23 DEF GroupKept, Members, Escape
<1>24. CASE Write
  BY <1>24 DEF GroupKept, Members, Write, Holders
<1>25. CASE TermOwnGroup
  BY <1>25 DEF GroupKept, Members, TermOwnGroup, Terminated, SomeDie
<1>26. CASE KillGuardian
  BY <1>26 DEF GroupKept, Members, KillGuardian
<1>27. CASE StoreCancellation
  BY <1>27 DEF GroupKept, Members, StoreCancellation
<1>28. CASE Recycle
  BY <1>28 DEF GroupKept, Members, Recycle
<1> QED BY <1>1, <1>2, <1>3, <1>4, <1>5, <1>6, <1>7, <1>8, <1>9, <1>10, <1>11, <1>12, <1>13, <1>14,
    <1>15, <1>16, <1>17, <1>18, <1>19, <1>20, <1>21, <1>22, <1>23, <1>24, <1>25, <1>26, <1>27, <1>28
   DEF Next, GuardianStep, CommandStep

-----------------------------------------------------------------------------
\* The shell's exit.

\* A signal does not change how a dead shell ended.
LEMMA DeadShellStays ==
  ASSUME TypeOK, ExitIsReal, NEW s \in {"TERM", "KILL"},
         SignalGroup(s) \/ Strikes(s) \/ UNCHANGED group
  PROVE  /\ guardian' \in {guardian, "dead"}
         /\ proc["shell"] = "dead" => proc'["shell"] = "dead" /\ shellEnd' = shellEnd
         /\ proc'["shell"] = "dead" => shellEnd' # "none"
         /\ proc["shell"] = "unborn" => proc'["shell"] = "unborn"
<1>1. CASE UNCHANGED <<guardian, proc, shellEnd>>
  BY <1>1 DEF ExitIsReal
<1>2. CASE Killed
  BY <1>2 DEF Killed, Members, ExitIsReal, TypeOK, Command
<1>3. CASE Terminated("stopped")
  BY <1>3 DEF Terminated, SomeDie, Members, ExitIsReal, TypeOK, Command
<1> QED BY <1>1, <1>2, <1>3 DEF SignalGroup, Strikes, group

\* Every step keeps what is known of the shell's exit.
LEMMA ExitNext ==
  ASSUME TypeOK, ExitIsReal, GroupKept, Next PROVE ExitIsReal'
<1> USE DEF locals, group, output, kernel
<1>1. CASE AwaitReady
  BY <1>1 DEF ExitIsReal, AwaitReady
<1>2. CASE StopGuardianStartup
  BY <1>2, DeadShellStays DEF StopGuardianStartup, ExitIsReal
<1>3. CASE Publish
  BY <1>3 DEF Publish, ExitIsReal, GroupKept
<1>4. CASE StopUnpublishedShell
  BY <1>4, DeadShellStays DEF StopUnpublishedShell, ExitIsReal
<1>5. CASE Capture
  BY <1>5, DeadShellStays DEF Capture, LimitReached, Loops, Both, StartCleanup, ExitIsReal
<1>6. CASE CaptureDone
  BY <1>6 DEF ExitIsReal, CaptureDone, Loops, Both, Finished
<1>7. CASE Waited
  BY <1>7, DeadShellStays DEF Waited, Loops, Both, StartCleanup, ExitIsReal, TypeOK
<1>8. CASE HardTimeout
  BY <1>8, DeadShellStays DEF HardTimeout, Supervises, Loops, StartCleanup, ExitIsReal
<1>9. CASE GraceExpired
  BY <1>9, DeadShellStays DEF GraceExpired, Loops, Both, ExitIsReal
<1>10. CASE Reap
  BY <1>10 DEF ExitIsReal, Reap, Both
<1>11. CASE Interrupted
  BY <1>11, DeadShellStays DEF Interrupted, Supervises, Loops, StartCleanup, ExitIsReal
<1>12. CASE Poll
  BY <1>12, DeadShellStays DEF Poll, Supervises, Loops, StartCleanup, ExitIsReal
<1>13. CASE Return
  BY <1>13 DEF Return, Finished, Both, ExitIsReal
<1>14. CASE RunnerDies
  BY <1>14 DEF RunnerDies, ExitIsReal
<1>15. CASE StartShell
  BY <1>15 DEF ExitIsReal, StartShell, GuardianGoes, TypeOK, Command
<1>16. CASE TellReady
  BY <1>16 DEF ExitIsReal, TellReady, GuardianGoes, Reports, Lifetime, TypeOK, Command
<1>17. CASE Watch
  BY <1>17 DEF ExitIsReal, Watch, ShellExited, GuardianGoes, Reports, Lifetime
<1>18. CASE Linger
  BY <1>18 DEF ExitIsReal, Linger, GuardianGoes, Lifetime
<1>19. CASE AwaitExit
  BY <1>19 DEF ExitIsReal, AwaitExit, ShellExited, GuardianGoes, Reports, Lifetime
<1>20. CASE GuardianCleanup
  BY <1>20 DEF ExitIsReal, GuardianCleanup, GuardianGoes, SomeDie, Killed, Members, TypeOK, Command
<1>21. ASSUME NEW child \in Children, Fork(child) PROVE ExitIsReal'
  BY <1>21, SupervisorAssumption DEF Fork, ExitIsReal, TypeOK, Command
<1>22. ASSUME NEW p \in Command, Exit(p) PROVE ExitIsReal'
  BY <1>22 DEF ExitIsReal, Exit, TypeOK, Command
<1>23. ASSUME NEW p \in Command, Escape(p) PROVE ExitIsReal'
  BY <1>23 DEF ExitIsReal, Escape, Members, TypeOK, Command
<1>24. CASE Write
  BY <1>24 DEF ExitIsReal, Write, Holders
<1>25. CASE TermOwnGroup
  BY <1>25 DEF ExitIsReal, TermOwnGroup, Terminated, SomeDie, Members, TypeOK, Command
<1>26. CASE KillGuardian
  BY <1>26 DEF ExitIsReal, KillGuardian, Members
<1>27. CASE StoreCancellation
  BY <1>27 DEF ExitIsReal, StoreCancellation
<1>28. CASE Recycle
  BY <1>28 DEF ExitIsReal, Recycle, Members
<1> QED BY <1>1, <1>2, <1>3, <1>4, <1>5, <1>6, <1>7, <1>8, <1>9, <1>10, <1>11, <1>12, <1>13, <1>14,
    <1>15, <1>16, <1>17, <1>18, <1>19, <1>20, <1>21, <1>22, <1>23, <1>24, <1>25, <1>26, <1>27, <1>28
   DEF Next, GuardianStep, CommandStep

-----------------------------------------------------------------------------
\* The output.

\* A signal gives the output pipe to nobody.
LEMMA NoNewHolders ==
  ASSUME TypeOK, holds' = holds, NEW s \in {"TERM", "KILL"},
         SignalGroup(s) \/ Strikes(s) \/ UNCHANGED group
  PROVE  /\ \A p \in Command : proc[p] # "unborn" => proc'[p] # "unborn"
         /\ Holders = {} => Holders' = {}
         /\ guardian = "dead" => guardian' = "dead"
<1>1. CASE UNCHANGED <<guardian, proc>>
  BY <1>1 DEF Holders
<1>2. CASE Killed
  BY <1>2 DEF Killed, Members, Holders, TypeOK
<1>3. CASE Terminated("stopped")
  BY <1>3 DEF Terminated, SomeDie, Members, Holders, TypeOK
<1> QED BY <1>1, <1>2, <1>3 DEF SignalGroup, Strikes, group

\* Every step keeps the account of the output.
LEMMA OutputNext ==
  ASSUME TypeOK, OutputKept, GroupKept, Next PROVE OutputKept'
<1> USE SupervisorAssumption DEF locals, group, output, kernel
<1>1. CASE AwaitReady
  BY <1>1 DEF OutputKept, Holders, AwaitReady
<1>2. CASE StopGuardianStartup
  BY <1>2, NoNewHolders DEF TypeOK, StopGuardianStartup, OutputKept
<1>3. CASE Publish
  BY <1>3 DEF OutputKept, Holders, Publish
<1>4. CASE StopUnpublishedShell
  BY <1>4, NoNewHolders DEF TypeOK, StopUnpublishedShell, OutputKept
<1>5. CASE Capture
  BY <1>5, NoNewHolders DEF TypeOK, Capture, LimitReached, Loops, Both, StartCleanup, OutputKept, Stored
<1>6. CASE CaptureDone
  BY <1>6 DEF CaptureDone, Loops, Both, OutputKept, Holders
<1>7. CASE Waited
  BY <1>7, NoNewHolders DEF TypeOK, Waited, Loops, Both, StartCleanup, OutputKept
<1>8. CASE HardTimeout
  BY <1>8, NoNewHolders DEF TypeOK, HardTimeout, Supervises, Loops, StartCleanup, OutputKept
<1>9. CASE GraceExpired
  BY <1>9, NoNewHolders DEF TypeOK, GraceExpired, Loops, Both, OutputKept
<1>10. CASE Reap
  BY <1>10 DEF Reap, OutputKept, Holders, Both
<1>11. CASE Interrupted
  BY <1>11, NoNewHolders DEF TypeOK, Interrupted, Supervises, Loops, StartCleanup, OutputKept
<1>12. CASE Poll
  BY <1>12, NoNewHolders DEF TypeOK, Poll, Supervises, Loops, StartCleanup, OutputKept
<1>13. CASE Return
  BY <1>13 DEF Return, Finished, Both, OutputKept, Holders
<1>14. CASE RunnerDies
  BY <1>14 DEF RunnerDies, OutputKept, Holders
<1>15. CASE StartShell
  BY <1>15 DEF OutputKept, Holders, StartShell, GuardianGoes, TypeOK, Command
<1>16. CASE TellReady
  BY <1>16 DEF OutputKept, Holders, TellReady, GuardianGoes, Reports, Lifetime, TypeOK, Command
<1>17. CASE Watch
  BY <1>17 DEF OutputKept, Holders, Watch, ShellExited, GuardianGoes, Reports, Lifetime
<1>18. CASE Linger
  BY <1>18 DEF OutputKept, Holders, Linger, GuardianGoes, Lifetime
<1>19. CASE AwaitExit
  BY <1>19 DEF OutputKept, Holders, AwaitExit, ShellExited, GuardianGoes, Reports, Lifetime
<1>20. CASE GuardianCleanup
  BY <1>20
     DEF OutputKept, Holders, GuardianCleanup, GuardianGoes, SomeDie, Killed, Members, TypeOK,
         Command
<1>21. ASSUME NEW child \in Children, Fork(child) PROVE OutputKept'
  BY <1>21 DEF OutputKept, Holders, Fork, Members, Command, TypeOK
<1>22. ASSUME NEW p \in Command, Exit(p) PROVE OutputKept'
  BY <1>22 DEF OutputKept, Holders, Exit, TypeOK, Command
<1>23. ASSUME NEW p \in Command, Escape(p) PROVE OutputKept'
  BY <1>23 DEF OutputKept, Holders, Escape, Members, TypeOK, Command
<1>24. CASE Write
  BY <1>24 DEF OutputKept, Holders, Write, TypeOK, Command
<1>25. CASE TermOwnGroup
  BY <1>25 DEF OutputKept, Holders, TermOwnGroup, Terminated, SomeDie, Members, TypeOK, Command
<1>26. CASE KillGuardian
  BY <1>26 DEF OutputKept, Holders, KillGuardian, Members
<1>27. CASE StoreCancellation
  BY <1>27 DEF OutputKept, Holders, StoreCancellation
<1>28. CASE Recycle
  BY <1>28 DEF OutputKept, Holders, Recycle, Members
<1> QED BY <1>1, <1>2, <1>3, <1>4, <1>5, <1>6, <1>7, <1>8, <1>9, <1>10, <1>11, <1>12, <1>13, <1>14,
    <1>15, <1>16, <1>17, <1>18, <1>19, <1>20, <1>21, <1>22, <1>23, <1>24, <1>25, <1>26, <1>27, <1>28
   DEF Next, GuardianStep, CommandStep

-----------------------------------------------------------------------------
\* What the runner decides.

\* Nothing the supervision sees has changed.
Aside == UNCHANGED <<cause, captured, cancel>> /\ UNCHANGED SupervisionPhase

\* The command, the guardian and the kernel decide nothing.
LEMMA OthersAside ==
  ASSUME UNCHANGED <<pc, locals, captured, cancel>> PROVE Aside
  BY DEF Aside, SupervisionPhase, HasOutcome, Lifetime, locals

\* Nor does the runner by going on.
LEMMA GoingOn ==
  ASSUME pc \notin {"ended", "dead"}, pc' \notin {"ended", "dead"},
         UNCHANGED <<cause, captured, cancel>>
  PROVE  Aside
  BY DEF Aside, SupervisionPhase, Lifetime

\* A chunk that is read is stored, dropped, or lost to an error.
LEMMA CaptureDecides ==
  ASSUME TypeOK, OutputKept, Capture
  PROVE  Aside \/ \E n \in captured + 1 .. Limit : Watched!Store(n)
<1>1. /\ SupervisionPhase = "supervising" /\ SupervisionPhase' = "supervising"
      /\ UNCHANGED <<pc, cancel>> /\ pc \notin {"ended", "dead"}
  BY DEF Capture, LimitReached, Loops, Both, SupervisionPhase, Lifetime, kernel
<1>2. CASE UNCHANGED <<captured, cause>>
  BY <1>1, <1>2 DEF Aside
<1>3. CASE ~UNCHANGED <<captured, cause>>
  <2>1. /\ pc = "supervise" /\ cause # "output_limit" /\ ~failed /\ captured' = Stored
        /\ cause' = IF Stored = Limit /\ cause = "normal" THEN "output_limit" ELSE cause
    BY <1>3 DEF Capture, LimitReached, locals
  <2>2. /\ captured \in Nat /\ Limit \in Nat /\ captured <= Limit
        /\ cause = "normal" => captured < Limit
    <3>1. /\ written \in Nat /\ unread \in Nat /\ captured \in Nat /\ Limit \in Nat
          /\ captured = IF written - unread < Limit THEN written - unread ELSE Limit
          /\ cause = "normal" => captured < Limit
      BY <2>1, SupervisorAssumption DEF OutputKept, TypeOK
    <3> QED BY <3>1
  <2>3. CASE captured < Limit
    <3>1. Stored = captured + 1 /\ captured + 1 \in captured + 1 .. Limit
      BY <2>2, <2>3 DEF Stored
    <3>2. Watched!Store(captured + 1)
      BY <1>1, <2>1, <3>1 DEF Watched!Store
    <3> QED BY <3>1, <3>2
  <2>4. CASE ~(captured < Limit)
    BY <1>3, <2>1, <2>2, <2>4 DEF Stored
  <2> QED BY <2>3, <2>4
<1> QED BY <1>2, <1>3

\* Every step is one of the supervision's, or none of its business.
LEMMA SupervisionStep ==
  ASSUME IInv, [Next]_vars PROVE [Watched!Next]_(Watched!vars)
<1> USE DEF IInv
<1>1. SUFFICES Aside \/ Watched!Next
  BY DEF Aside, Watched!vars
<1>2. CASE Capture
  BY <1>2, CaptureDecides DEF Watched!Next
<1>3. CASE AwaitReady \/ StopGuardianStartup \/ Publish \/ StopUnpublishedShell
  BY <1>3, GoingOn DEF AwaitReady, StopGuardianStartup, Publish, StopUnpublishedShell, locals, output, kernel
<1>4. CASE CaptureDone \/ Waited \/ GraceExpired \/ Interrupted
  BY <1>4, GoingOn DEF CaptureDone, Waited, GraceExpired, Interrupted, Supervises, Loops, Both,
                       locals, output, kernel
<1>5. CASE HardTimeout
  <2>1. /\ SupervisionPhase = "supervising" /\ SupervisionPhase' = "supervising"
        /\ UNCHANGED <<captured, cancel>>
        /\ UNCHANGED cause \/ (cause = "normal" /\ cause' = "hard_timeout")
    BY <1>5 DEF HardTimeout, Supervises, Loops, SupervisionPhase, Lifetime, output, kernel
  <2> QED BY <2>1 DEF Aside, Watched!TimeOut, Watched!Next
<1>6. CASE Reap
  <2>1. CASE pc = "abandon"
    <3>1. SupervisionPhase = "supervising" /\ SupervisionPhase' = "gone"
      BY <1>6, <2>1 DEF Reap, OutputKept, SupervisionPhase, HasOutcome, Lifetime
    <3> QED BY <1>6, <3>1 DEF Reap, output, Watched!Die, Watched!Next
  <2>2. CASE pc # "abandon"
    BY <1>6, <2>2, GoingOn DEF Reap, Both, output
  <2> QED BY <2>1, <2>2
<1>7. CASE Poll
  <2>1. SupervisionPhase = "supervising" /\ SupervisionPhase' = "supervising"
    BY <1>7 DEF Poll, Supervises, Loops, SupervisionPhase, Lifetime
  <2> QED BY <1>7, <2>1 DEF Poll, output, kernel, Watched!Notice, Watched!Next
<1>8. CASE Return
  <2>1. SupervisionPhase = "supervising" /\ SupervisionPhase' \in {"reported", "gone"}
    BY <1>8 DEF Return, Both, SupervisionPhase, Lifetime
  <2> QED BY <1>8, <2>1 DEF Return, output, kernel, Watched!Report, Watched!Die, Watched!Next
<1>9. CASE RunnerDies
  <2>1. SupervisionPhase = "supervising" /\ SupervisionPhase' = "gone"
    BY <1>9 DEF RunnerDies, SupervisionPhase, HasOutcome, Lifetime
  <2> QED BY <1>9, <2>1 DEF RunnerDies, locals, output, kernel, Watched!Die, Watched!Next
<1>10. CASE StoreCancellation
  <2>1. UNCHANGED <<cause, captured, SupervisionPhase>>
    BY <1>10 DEF StoreCancellation, locals, output, SupervisionPhase, HasOutcome, Lifetime
  <2> QED BY <1>10, <2>1 DEF StoreCancellation, Watched!Request, Watched!Next
<1>11. CASE GuardianStep
  BY <1>11, OthersAside
     DEF GuardianStep, StartShell, TellReady, Watch, Linger, AwaitExit, ShellExited, GuardianCleanup,
         output, kernel
<1>12. CASE CommandStep
  BY <1>12, OthersAside
     DEF CommandStep, Fork, Exit, Escape, Write, TermOwnGroup, KillGuardian, output, kernel
<1>13. CASE Recycle \/ UNCHANGED vars
  BY <1>13, OthersAside DEF Recycle, vars, output, kernel
<1> QED BY <1>2, <1>3, <1>4, <1>5, <1>6, <1>7, <1>8, <1>9, <1>10, <1>11, <1>12, <1>13 DEF Next

-----------------------------------------------------------------------------
\* The theorems.

\* The invariant holds initially.
LEMMA InvInit == Init => IInv
<1> SUFFICES ASSUME Init PROVE IInv
  OBVIOUS
<1>1. TypeOK
  BY TypeInit
<1>2. GroupKept
  BY DEF Init, GroupKept
<1>3. ExitIsReal
  BY DEF Init, ExitIsReal, Command
<1>4. OutputKept
  BY SupervisorAssumption DEF Init, OutputKept
<1> QED BY <1>1, <1>2, <1>3, <1>4 DEF IInv

\* A stutter changes nothing of it.
LEMMA InvStutter == IInv /\ UNCHANGED vars => IInv'
<1> SUFFICES ASSUME IInv, UNCHANGED vars PROVE IInv'
  OBVIOUS
<1> USE DEF vars, locals, group, output, kernel, IInv
<1>1. TypeOK'
  BY DEF TypeOK
<1>2. GroupKept'
  BY DEF GroupKept, Members
<1>3. ExitIsReal'
  BY DEF ExitIsReal
<1>4. OutputKept'
  BY DEF OutputKept, Holders
<1> QED BY <1>1, <1>2, <1>3, <1>4

\* IInv holds in every reachable state.
THEOREM Inductive == Spec => []IInv
<1>1. IInv /\ [Next]_vars => IInv'
  BY InvStutter, TypeNext, GroupNext, ExitNext, OutputNext DEF IInv
<1> QED BY InvInit, <1>1, PTL DEF Spec

\* The runner never signals a group that took over the guardian's number.
THEOREM SignalsOwnGroup == Spec => []OwnGroupOnly
<1>1. IInv => OwnGroupOnly
  BY DEF IInv, GroupKept, OwnGroupOnly
<1> QED BY Inductive, <1>1, PTL

\* No process of the group outlives the runner's work on it.
THEOREM GroupIsGone == Spec => []NothingOutlives
<1>1. IInv => NothingOutlives
  BY DEF IInv, GroupKept, NothingOutlives
<1> QED BY Inductive, <1>1, PTL

\* An ordinary outcome is the shell's own exit, and it was reported.
THEOREM OrdinaryEndIsReal == Spec => []OrdinaryEndIsShells
<1>1. IInv => OrdinaryEndIsShells
  BY DEF IInv, ExitIsReal, OrdinaryEndIsShells, HasOutcome
<1> QED BY Inductive, <1>1, PTL

\* Whatever ended the command, an outcome comes with the output up to the limit.
THEOREM OutputIsComplete == Spec => []OutcomeHasOutput
<1>1. IInv => OutcomeHasOutput
  <2> SUFFICES ASSUME IInv, HasOutcome PROVE OutcomeHasOutput
    BY DEF OutcomeHasOutput
  <2>1. drained /\ ~failed
    BY DEF IInv, OutputKept, HasOutcome
  <2>2. unread = 0 /\ written \in Nat
    BY <2>1 DEF IInv, OutputKept, TypeOK
  <2> QED BY <2>1, <2>2 DEF IInv, OutputKept, HasOutcome, OutcomeHasOutput
<1> QED BY Inductive, <1>1, PTL

\* With its processes, pipes, timers and signals the runner stores, stops and
\* reports as the supervision does that JobStore implements with files and
\* locks: the two models of superviseShell agree.
THEOREM KeepsSupervision == Spec => ImplementsSupervision
<1>1. Init => Watched!Init
  BY DEF Init, Watched!Init, SupervisionPhase, Lifetime
<1>2. IInv /\ [Next]_vars => [Watched!Next]_(Watched!vars)
  BY SupervisionStep
<1> QED BY Inductive, <1>1, <1>2, PTL DEF Spec, ImplementsSupervision, Watched!Spec

===============================================================================
