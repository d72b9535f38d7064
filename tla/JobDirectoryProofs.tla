-------------------------- MODULE JobDirectoryProofs --------------------------
(***************************************************************************)
(* Proofs about the files of a JobStore: what the lease protects, how the   *)
(* intent keeps mutations out, and that the store implements JobLifecycle.  *)
(***************************************************************************)
EXTENDS JobStoreProofs

USE DEF Procs

Writing == HoldsState \ {"rm_unlink"}
AtRecovery == HoldsRecovery \cup {"rc_lock"}
Plain == ClientPCs \ (AtRecovery \cup HoldsState)
OwnIntent == {"pub_slock", "pub_write", "pub_clear"}

-----------------------------------------------------------------------------
\* Where a step of a client takes it, and what that says of the files.

\* It takes, keeps or drops recovery.lock.
RecoveryMove(p) ==
    \/ pc'[p] \notin AtRecovery /\ (recLock' = recLock \/ DropRecovery(p))
    \/ /\ pc[p] \in HoldsRecovery /\ pc'[p] \in HoldsRecovery
       /\ loc'[p].fd = loc[p].fd /\ recLock' = recLock
    \/ pc'[p] = "rc_lock" /\ recLock' = recLock /\ OpensRecoveryLock(loc'[p].fd)
    \/ /\ pc[p] = "rc_lock" /\ pc'[p] = "rc_intent" /\ loc'[p].fd = loc[p].fd
       /\ recLock[loc[p].fd] = NoOne /\ recLock' = [recLock EXCEPT ![loc[p].fd] = p]

ControlMove(p) ==
    /\ \A q \in Clients \ {p} : pc'[q] = pc[q] /\ loc'[q] = loc[q]
    /\ UNCHANGED <<rpc, rfd>>
    /\ RecoveryMove(p)
    /\ FoundNoIntent(p)' => FoundNoIntent(p) \/ ~Pending
    /\ pc'[p] = "m_write" => ~Pending
    /\ pc'[p] = "rm_unlink" => IsTerminal(st.status)
    /\ pc'[p] \in Writing => pc[p] \in Writing \/ Present("state.json")

\* Moves to a place that asks for nothing.
LEMMA PlainMove ==
  ASSUME TypeOK, NEW p \in Clients, NEW to \in Plain, Goto(p, to),
         \A q \in Clients \ {p} : loc'[q] = loc[q], UNCHANGED <<rpc, rfd>>,
         recLock' = recLock \/ DropRecovery(p)
  PROVE  ControlMove(p)
<1>1. pc'[p] = to /\ \A q \in Clients \ {p} : pc'[q] = pc[q]
  BY DEF Goto, TypeOK
<1>2. to \notin AtRecovery /\ to \notin Writing /\ to \notin {"m_write", "rm_unlink"}
      /\ to \notin {"ca_open", "ca_lock", "ca_write", "rc_ropen", "rc_try", "rc_mark"}
  BY DEF Plain, AtRecovery, HoldsRecovery, HoldsState, Writing
<1>. QED
  BY <1>1, <1>2 DEF ControlMove, RecoveryMove, FoundNoIntent

\* Moves from and to a place where recovery.lock is held, or state.lock only.
LEMMA KeptMove ==
  ASSUME TypeOK, NEW p \in Clients, NEW to \in ClientPCs, Goto(p, to),
         \A q \in Clients \ {p} : loc'[q] = loc[q],
         loc'[p].fd = loc[p].fd, UNCHANGED <<rpc, rfd, recLock>>,
         to \in AtRecovery => pc[p] \in HoldsRecovery /\ to \in HoldsRecovery,
         FoundNoIntent(p)' => FoundNoIntent(p) \/ ~Pending,
         to = "m_write" => ~Pending,
         to = "rm_unlink" => IsTerminal(st.status),
         to \in Writing => pc[p] \in Writing \/ Present("state.json")
  PROVE  ControlMove(p)
<1>1. pc'[p] = to /\ \A q \in Clients \ {p} : pc'[q] = pc[q]
  BY DEF Goto, TypeOK
<1>. QED
  BY <1>1 DEF ControlMove, RecoveryMove

LEMMA BecomesLocal ==
  ASSUME TypeOK, NEW p \in Clients, NEW to, NEW l, Become(p, to, l)
  PROVE  Goto(p, to) /\ loc'[p] = l /\ \A q \in Clients \ {p} : loc'[q] = loc[q]
  BY DEF Become, TypeOK

LEMMA EndsPlainly ==
  ASSUME TypeOK, NEW p \in Clients, Ends(p), UNCHANGED <<rpc, rfd>>
  PROVE  ControlMove(p)
<1>1. "idle" \in Plain
  BY DEF Plain, ClientPCs, AtRecovery, HoldsRecovery, HoldsState
<1>. QED
  BY <1>1, BecomesLocal, PlainMove DEF Ends, DropAll

LEMMA FailsPlainly ==
  ASSUME TypeOK, NEW p \in Clients, Fails(p)
  PROVE  ControlMove(p)
  BY EndsPlainly DEF Fails, runner

LEMMA ObservedPlainly ==
  ASSUME TypeOK, NEW p \in Clients, NEW view, Observed(p, view)
  PROVE  (\E to \in Plain : Goto(p, to)) /\ \A q \in Clients \ {p} : loc'[q] = loc[q]
<1>1. {"idle", "snap", "out"} \subseteq Plain
  BY DEF Plain, ClientPCs, AtRecovery, HoldsRecovery, HoldsState
<1>2. \E to \in Plain : \E l : Become(p, to, l)
  BY <1>1 DEF Observed
<1>. QED
  BY <1>2, BecomesLocal

LEMMA ReconciledPlainly ==
  ASSUME TypeOK, NEW p \in Clients, NEW active \in BOOLEAN, Reconciled(p, active)
  PROVE  (\E to \in Plain : Goto(p, to)) /\ \A q \in Clients \ {p} : loc'[q] = loc[q]
<1>1. {"wti", "final", "idle", "rm_open"} \subseteq Plain
  BY DEF Plain, ClientPCs, AtRecovery, HoldsRecovery, HoldsState
<1>2. CASE \E view : Observed(p, view)
  BY <1>2, ObservedPlainly
<1>3. CASE \E to \in Plain : \E l : Become(p, to, l)
  BY <1>3, BecomesLocal
<1>. QED
  BY <1>1, <1>2, <1>3 DEF Reconciled

LEMMA ObservingControl ==
  ASSUME TypeOK, NEW p \in Clients,
         \/ \E o \in Commands : Start(p, o)
         \/ Snapshot(p) \/ AwaitIntent(p) \/ Resnapshot(p) \/ ReadLog(p) \/ Respond(p)
         \/ DeadlineSnapshot(p)
  PROVE  ControlMove(p)
<1>1. {"idle", "snap", "wti", "resnap", "final", "out", "respond", "deadline", "rc_open",
       "rm_popen", "rm_open", "m_open"} \subseteq Plain
  BY DEF Plain, ClientPCs, AtRecovery, HoldsRecovery, HoldsState
<1>2. CASE Fails(p)
  BY <1>2, FailsPlainly
<1>3. CASE /\ UNCHANGED <<locks, runner>> /\ \A q \in Clients \ {p} : loc'[q] = loc[q]
           /\ \E to \in Plain : Goto(p, to)
  BY <1>3, PlainMove DEF locks, runner
<1>4. CASE /\ UNCHANGED <<locks, runner>> /\ \E to \in Plain : \E l : Become(p, to, l)
  BY <1>3, <1>4, BecomesLocal
<1>5. CASE /\ UNCHANGED <<locks, runner, loc>> /\ \E to \in Plain : Goto(p, to)
  BY <1>3, <1>5
<1>6. CASE \E o \in Commands : Start(p, o)
  BY <1>1, <1>4, <1>6 DEF Start
<1>7. CASE Snapshot(p)
  <2>1. CASE ~Fails(p)
    <3>1. UNCHANGED <<locks, runner>>
      BY <1>7, <2>1 DEF Snapshot
    <3>2. CASE Observed(p, ViewFor(p))
      BY <1>3, <3>1, <3>2, ObservedPlainly
    <3>3. CASE ~Observed(p, ViewFor(p))
      <4>1. \/ UNCHANGED loc /\ \E to \in Plain : Goto(p, to)
            \/ \E to \in Plain : \E l : Become(p, to, l)
        BY <1>1, <1>7, <2>1, <3>3 DEF Snapshot
      <4>. QED
        BY <1>4, <1>5, <3>1, <4>1
    <3>. QED
      BY <3>2, <3>3
  <2>. QED
    BY <1>2, <2>1
<1>8. CASE AwaitIntent(p)
  BY <1>1, <1>2, <1>4, <1>5, <1>8 DEF AwaitIntent
<1>9. CASE Resnapshot(p)
  <2>1. CASE ~Fails(p)
    <3>1. UNCHANGED <<locks, runner>>
      BY <1>9, <2>1 DEF Resnapshot
    <3>2. CASE Observed(p, ViewFor(p))
      BY <1>3, <3>1, <3>2, ObservedPlainly
    <3>. QED
      BY <1>1, <1>4, <1>9, <2>1, <3>1, <3>2 DEF Resnapshot
  <2>. QED
    BY <1>2, <2>1
<1>10. CASE ReadLog(p)
  BY <1>1, <1>2, <1>4, <1>5, <1>10 DEF ReadLog
<1>11. CASE Respond(p)
  BY <1>1, <1>2, <1>4, <1>11 DEF Respond, Committing
<1>12. CASE DeadlineSnapshot(p)
  BY <1>1, <1>2, <1>4, <1>12 DEF DeadlineSnapshot
<1>. QED
  BY <1>6, <1>7, <1>8, <1>9, <1>10, <1>11, <1>12

LEMMA ReconcilingControl ==
  ASSUME TypeOK, NEW p \in Clients,
         \/ OpenRecovery(p) \/ LockRecovery(p) \/ InspectIntent(p) \/ OpenLockFile(p)
         \/ LeaseBusy(p) \/ TakeLease(p) \/ DropStaleIntent(p) \/ MarkIntent(p)
         \/ ReleaseLease(p)
  PROVE  ControlMove(p)
<1> USE DEF FoundNoIntent
<1>1. loc[p] \in Locals /\ \A l \in Locals : l.fd \in Inodes
  BY DEF TypeOK, Locals
<1>2. CASE Fails(p)
  BY <1>2, FailsPlainly
<1>3. CASE OpenRecovery(p) /\ ~Fails(p)
  <2>1. PICK i \in Inodes : OpensRecoveryLock(i) /\ Become(p, "rc_lock", [loc[p] EXCEPT !.fd = i])
    BY <1>3 DEF OpenRecovery
  <2>2. /\ pc'[p] = "rc_lock" /\ loc'[p].fd = i
        /\ \A q \in Clients \ {p} : pc'[q] = pc[q] /\ loc'[q] = loc[q]
    BY <1>1, <2>1 DEF Become, Goto, TypeOK, Locals
  <2>3. "rc_lock" \notin Writing
    BY DEF Writing, HoldsState
  <2>. QED
    BY <1>3, <2>1, <2>2, <2>3 DEF OpenRecovery, ControlMove, RecoveryMove, locks, runner
<1>4. CASE LockRecovery(p) /\ ~Fails(p)
  <2>1. /\ pc[p] = "rc_lock" /\ pc'[p] = "rc_intent" /\ loc'[p].fd = loc[p].fd
        /\ \A q \in Clients \ {p} : pc'[q] = pc[q] /\ loc'[q] = loc[q]
    BY <1>1, <1>4 DEF LockRecovery, Become, Goto, TypeOK, Locals
  <2>2. "rc_intent" \notin Writing
    BY DEF Writing, HoldsState
  <2>. QED
    BY <1>4, <2>1, <2>2 DEF LockRecovery, ControlMove, RecoveryMove, runner
<1>5. CASE InspectIntent(p)
  <2>1. CASE Reconciled(p, FALSE) /\ DropRecovery(p)
    BY <1>5, <2>1, ReconciledPlainly, PlainMove DEF InspectIntent, runner
  <2>2. CASE Become(p, "rc_ropen", [loc[p] EXCEPT !.marked = Pending]) /\ UNCHANGED recLock
    <3>1. Goto(p, "rc_ropen") /\ loc'[p] = [loc[p] EXCEPT !.marked = Pending]
          /\ \A q \in Clients \ {p} : loc'[q] = loc[q]
      BY <2>2, BecomesLocal
    <3>2. loc'[p].fd = loc[p].fd /\ loc'[p].marked = Pending
      BY <1>1, <3>1 DEF Locals
    <3>3. pc[p] = "rc_intent" /\ UNCHANGED <<rpc, rfd, recLock>> /\ pc'[p] = "rc_ropen"
      BY <1>5, <2>2, <3>1 DEF InspectIntent, runner, Goto, TypeOK
    <3>4. {"rc_intent", "rc_ropen"} \subseteq HoldsRecovery /\ "rc_ropen" \in ClientPCs
          /\ "rc_ropen" \notin Writing
      BY DEF HoldsRecovery, ClientPCs, Writing, HoldsState
    <3>. QED
      BY <3>1, <3>2, <3>3, <3>4, KeptMove
  <2>. QED
    BY <1>5, <2>1, <2>2 DEF InspectIntent
<1>6. CASE OpenLockFile(p) /\ ~Fails(p)
  <2>1. /\ pc[p] \in Opens /\ Goto(p, AfterOpen(pc[p])) /\ UNCHANGED <<rpc, rfd, recLock, loc>>
    BY <1>6 DEF OpenLockFile, runner, locks
  <2>2. CASE pc[p] \in {"rc_ropen", "rc_sopen", "ca_open"}
    <3>1. /\ AfterOpen(pc[p]) \in HoldsRecovery /\ pc[p] \in HoldsRecovery
          /\ AfterOpen(pc[p]) \in ClientPCs /\ AfterOpen(pc[p]) \notin HoldsState
      BY <2>2 DEF AfterOpen, HoldsRecovery, ClientPCs, HoldsState
    <3>2. pc'[p] = AfterOpen(pc[p])
      BY <2>1 DEF Goto, TypeOK
    <3>3. FoundNoIntent(p)' => FoundNoIntent(p)
      BY <2>1, <2>2, <3>2 DEF AfterOpen
    <3>4. "m_write" \in HoldsState /\ "rm_unlink" \in HoldsState
      BY DEF HoldsState
    <3>. QED
      BY <2>1, <3>1, <3>3, <3>4, KeptMove DEF Writing
  <2>3. CASE pc[p] \notin {"rc_ropen", "rc_sopen", "ca_open"}
    <3>1. AfterOpen(pc[p]) \in Plain
      BY <2>1, <2>3 DEF Opens, AfterOpen, Plain, ClientPCs, AtRecovery, HoldsRecovery, HoldsState
    <3>. QED
      BY <2>1, <3>1, PlainMove
  <2>. QED
    BY <2>2, <2>3
<1>7. CASE LeaseBusy(p)
  <2>1. CASE Reconciled(p, TRUE) /\ DropRecovery(p)
    BY <1>7, <2>1, ReconciledPlainly, PlainMove DEF LeaseBusy, runner
  <2>2. CASE ~loc[p].marked /\ Goto(p, "ca_open") /\ UNCHANGED <<loc, recLock>>
    <3>1. pc[p] = "rc_try" /\ UNCHANGED <<rpc, rfd, recLock, loc>>
      BY <1>7, <2>2 DEF LeaseBusy, runner
    <3>2. {"rc_try", "ca_open"} \subseteq HoldsRecovery /\ "ca_open" \in ClientPCs
          /\ "ca_open" \notin Writing
      BY DEF HoldsRecovery, ClientPCs, Writing, HoldsState
    <3>. QED
      BY <2>2, <3>1, <3>2, KeptMove
  <2>. QED
    BY <1>7, <2>1, <2>2 DEF LeaseBusy
<1>8. CASE TakeLease(p)
  <2>1. PICK to \in {"rc_drop", "rc_sopen", "rc_mark"} :
           Goto(p, to) /\ (to = "rc_mark" => ~loc[p].marked)
    BY <1>8 DEF TakeLease
  <2>2. pc[p] = "rc_try" /\ UNCHANGED <<rpc, rfd, recLock, loc>> /\ pc'[p] = to
    BY <1>8, <2>1 DEF TakeLease, runner, Goto, TypeOK
  <2>3. {"rc_try", "rc_drop", "rc_sopen", "rc_mark"} \subseteq HoldsRecovery
        /\ {"rc_drop", "rc_sopen", "rc_mark"} \subseteq ClientPCs \ Writing
    BY DEF HoldsRecovery, ClientPCs, Writing, HoldsState
  <2>. QED
    BY <2>1, <2>2, <2>3, KeptMove
<1>9. CASE DropStaleIntent(p) \/ (MarkIntent(p) /\ ~Fails(p))
  <2>1. PICK to \in {"rc_release", "rc_sopen"} : Goto(p, to)
    BY <1>9, Zenon DEF DropStaleIntent, MarkIntent
  <2>2. pc[p] \in {"rc_drop", "rc_mark"} /\ UNCHANGED <<locks, runner, loc>>
    BY <1>9, Zenon DEF DropStaleIntent, MarkIntent
  <2>3. pc'[p] = to /\ UNCHANGED <<rpc, rfd, recLock, loc>>
    BY <2>1, <2>2 DEF Goto, TypeOK, locks, runner
  <2>4. {"rc_drop", "rc_mark", "rc_release", "rc_sopen"} \subseteq HoldsRecovery
        /\ {"rc_release", "rc_sopen"} \subseteq ClientPCs \ Writing
    BY DEF HoldsRecovery, ClientPCs, Writing, HoldsState
  <2>. QED
    BY <2>1, <2>2, <2>3, <2>4, KeptMove
<1>10. CASE ReleaseLease(p)
  BY <1>10, ReconciledPlainly, PlainMove DEF ReleaseLease, runner
<1>. QED
  BY <1>2, <1>3, <1>4, <1>5, <1>6, <1>7, <1>8, <1>9, <1>10

LEMMA MutatingControl ==
  ASSUME IInv, NEW p \in Clients,
         \/ LockState(p) \/ PublishLost(p) \/ ClearIntent(p) \/ RecheckIntent(p)
         \/ MutateState(p) \/ TimeOut(p) \/ WaitDeadline(p)
  PROVE  ControlMove(p)
<1> USE DEF FoundNoIntent
<1>1. TypeOK /\ CopiesAreCurrent
  BY DEF IInv
<1>2. CASE Fails(p)
  BY <1>1, <1>2, FailsPlainly
<1>3. CASE LockState(p) /\ ~Fails(p)
  <2>1. /\ pc[p] \in LockWaits /\ Goto(p, AfterLock(pc[p])) /\ Present("state.json")
        /\ UNCHANGED <<rpc, rfd, recLock, loc>>
    BY <1>3 DEF LockState, runner
  <2>2. pc'[p] = AfterLock(pc[p])
    BY <1>1, <2>1 DEF Goto, TypeOK
  <2>3. AfterLock(pc[p]) \in ClientPCs \ {"m_write", "rm_unlink", "rc_lock"}
    BY <2>1 DEF LockWaits, AfterLock, ClientPCs
  <2>4. AfterLock(pc[p]) \in HoldsRecovery => pc[p] \in HoldsRecovery
    BY <2>1 DEF LockWaits, AfterLock, HoldsRecovery
  <2>5. FoundNoIntent(p)' => FoundNoIntent(p)
    BY <2>1, <2>2 DEF LockWaits, AfterLock
  <2>. QED
    BY <1>1, <2>1, <2>3, <2>4, <2>5, KeptMove DEF AtRecovery
<1>4. CASE PublishLost(p) \/ ClearIntent(p)
  <2>1. PICK to \in {"rc_clear", "rc_release"} :
           Goto(p, to) /\ (to = "rc_clear" => pc[p] = "rc_write")
    BY <1>4, Zenon DEF PublishLost, ClearIntent
  <2>2. pc[p] \in {"rc_write", "rc_clear"} /\ UNCHANGED <<rpc, rfd, recLock, loc>>
    BY <1>4 DEF PublishLost, ClearIntent, runner, locks
  <2>3. {"rc_write", "rc_clear", "rc_release"} \subseteq HoldsRecovery
        /\ {"rc_clear", "rc_release"} \subseteq ClientPCs
        /\ "rc_write" \in Writing /\ "rc_release" \notin Writing
    BY DEF HoldsRecovery, ClientPCs, Writing, HoldsState
  <2>4. pc'[p] = to
    BY <1>1, <2>1 DEF Goto, TypeOK
  <2>. QED
    BY <1>1, <2>1, <2>2, <2>3, <2>4, KeptMove
<1>5. CASE RecheckIntent(p)
  <2>1. pc[p] = "m_check" /\ UNCHANGED <<rpc, rfd, recLock, loc>>
    BY <1>5 DEF RecheckIntent, runner
  <2>2. CASE Pending
    <3>1. Goto(p, "wti") /\ "wti" \in Plain
      BY <1>5, <2>2 DEF RecheckIntent, FencedOut, Plain, ClientPCs, AtRecovery,
                        HoldsRecovery, HoldsState
    <3>. QED
      BY <1>1, <2>1, <3>1, PlainMove
  <2>3. CASE ~Pending
    <3>1. Goto(p, "m_write")
      BY <1>5, <2>3 DEF RecheckIntent, FencedOut
    <3>2. "m_write" \notin AtRecovery /\ "m_write" \in ClientPCs
          /\ {"m_check", "m_write"} \subseteq Writing
      BY DEF AtRecovery, HoldsRecovery, ClientPCs, Writing, HoldsState
    <3>. QED
      BY <1>1, <2>1, <2>3, <3>1, <3>2, KeptMove
  <2>. QED
    BY <2>2, <2>3
<1>6. CASE MutateState(p)
  BY <1>1, <1>6, EndsPlainly DEF MutateState, runner
<1>7. CASE WaitDeadline(p)
  <2>1. "deadline" \in Plain
    BY DEF Plain, ClientPCs, AtRecovery, HoldsRecovery, HoldsState
  <2>. QED
    BY <1>1, <1>7, <2>1, BecomesLocal, PlainMove DEF WaitDeadline, DropAll, runner
<1>. QED
  BY <1>2, <1>3, <1>4, <1>5, <1>6, <1>7 DEF TimeOut

LEMMA RemovingControl ==
  ASSUME IInv, RunningKept, NEW p \in Clients,
         \/ ProbeLease(p) \/ Unprobe(p) \/ LeaseForRemoval(p) \/ ListDirectory(p)
         \/ Unlink(p) \/ RemoveDirectory(p) \/ Crash(p)
  PROVE  ControlMove(p)
<1>1. TypeOK /\ CopiesAreCurrent
  BY DEF IInv
<1>2. {"rm_unprobe", "rc_open", "rm_sopen", "rm_rmdir"} \subseteq Plain
  BY DEF Plain, ClientPCs, AtRecovery, HoldsRecovery, HoldsState
<1>3. CASE Fails(p)
  BY <1>1, <1>3, FailsPlainly
<1>4. CASE (ProbeLease(p) \/ LeaseForRemoval(p)) /\ ~Fails(p)
  BY <1>1, <1>2, <1>4, PlainMove DEF ProbeLease, LeaseForRemoval, runner
<1>5. CASE Unprobe(p)
  BY <1>1, <1>2, <1>5, BecomesLocal, PlainMove DEF Unprobe, runner
<1>6. ASSUME NEW todo, IsTerminal(st.status), UNCHANGED <<rpc, rfd, recLock>>,
             Become(p, "rm_unlink", [loc[p] EXCEPT !.todo = todo])
      PROVE  ControlMove(p)
  <2>1. /\ Goto(p, "rm_unlink") /\ loc'[p] = [loc[p] EXCEPT !.todo = todo]
        /\ \A q \in Clients \ {p} : loc'[q] = loc[q]
    BY <1>1, <1>6, BecomesLocal
  <2>2. loc'[p].fd = loc[p].fd /\ pc'[p] = "rm_unlink"
    BY <1>1, <2>1 DEF TypeOK, Locals, Goto
  <2>3. "rm_unlink" \in ClientPCs /\ "rm_unlink" \notin AtRecovery /\ "rm_unlink" \notin Writing
    BY DEF ClientPCs, AtRecovery, HoldsRecovery, Writing
  <2>. QED
    BY <1>1, <1>6, <2>1, <2>2, <2>3, KeptMove DEF FoundNoIntent
<1>7. CASE ListDirectory(p) /\ ~Fails(p)
  <2>1. job[p] = st
    BY <1>1, <1>7 DEF ListDirectory, CopiesAreCurrent, HoldsState
  <2>. QED
    BY <1>6, <1>7, <2>1 DEF ListDirectory, MayRemove, runner, locks
<1>8. CASE Unlink(p) /\ ~Fails(p)
  <2>1. IsTerminal(st.status)
    BY <1>8 DEF Unlink, RunningKept
  <2>2. CASE Become(p, "rm_rmdir", [loc[p] EXCEPT !.view = BlankView]) /\ DropAll(p)
             /\ UNCHANGED runner
    BY <1>1, <1>2, <2>2, BecomesLocal, PlainMove DEF DropAll, runner
  <2>3. CASE \E todo : /\ Become(p, "rm_unlink", [loc[p] EXCEPT !.todo = todo])
                       /\ UNCHANGED <<locks, runner>>
    BY <1>6, <2>1, <2>3 DEF locks, runner
  <2>. QED
    BY <1>8, <2>2, <2>3 DEF Unlink
<1>9. CASE RemoveDirectory(p)
  BY <1>1, <1>9, EndsPlainly DEF RemoveDirectory, runner
<1>. QED
  BY <1>3, <1>4, <1>5, <1>7, <1>8, <1>9 DEF Crash

-----------------------------------------------------------------------------
\* What a step does to the files.

Opened(i) == OpensRecoveryLock(i) /\ UNCHANGED bypass
Unmarked ==
    /\ files' = files \ {"terminal.pending"} /\ bypass' = 0
    /\ UNCHANGED <<dirExists, st, recInode>>
Marked ==
    /\ ~Pending /\ files' = files \cup {"terminal.pending"} /\ bypass' = 0
    /\ UNCHANGED <<dirExists, st, recInode>>
Replaced ==
    /\ files' = files \cup {"state.json"}
    /\ bypass' = IF Pending /\ st'.status = Running THEN bypass + 1 ELSE bypass
    /\ UNCHANGED <<dirExists, recInode>>

DirectoryMove(p) ==
    \/ UNCHANGED <<disk, bypass>>
    \/ pc[p] = "rc_open" /\ Opened(loc'[p].fd)
    \/ pc[p] \in {"rc_drop", "rc_clear"} /\ Unmarked
    \/ pc[p] = "rc_mark" /\ pc'[p] = "rc_sopen" /\ Marked
    \/ pc[p] = "rc_write" /\ Replaced /\ st.status = Running /\ st'.status = "runner_lost"
    \/ /\ pc[p] \in {"m_write", "ca_write"} /\ pc'[p] = "idle"
       /\ Replaced /\ st'.status = st.status
    \/ /\ pc[p] = "rm_unlink" /\ pc'[p] = "rm_unlink"
       /\ UNCHANGED <<dirExists, st, recInode>>
       /\ \E f \in files : /\ files' = files \ {f}
                           /\ bypass' = IF f = "terminal.pending" THEN 0 ELSE bypass
    \/ /\ pc[p] = "rm_rmdir" /\ dirExists' = (dirExists /\ files # {})
       /\ UNCHANGED <<files, st, recInode, bypass>>

LEMMA ClientDirectory ==
  ASSUME IInv, NEW p \in Clients,
         \/ \E o \in Commands : Start(p, o)
         \/ ClientStep(p) \/ TimeOut(p) \/ WaitDeadline(p) \/ Crash(p)
  PROVE  DirectoryMove(p)
<1>1. TypeOK /\ CopiesAreCurrent
  BY DEF IInv
<1>2. CASE Fails(p)
  BY <1>2 DEF Fails, history, DirectoryMove
<1>3. CASE UNCHANGED <<disk, bypass>>
  BY <1>3 DEF DirectoryMove
<1>4. CASE OpenRecovery(p) /\ ~Fails(p)
  <2>1. PICK i \in Inodes : /\ OpensRecoveryLock(i)
                            /\ Become(p, "rc_lock", [loc[p] EXCEPT !.fd = i])
    BY <1>4 DEF OpenRecovery
  <2>2. loc'[p].fd = i
    BY <1>1, <2>1 DEF Become, TypeOK, Locals
  <2>. QED
    BY <1>4, <2>1, <2>2 DEF OpenRecovery, DirectoryMove, Opened, history
<1>5. CASE DropStaleIntent(p) \/ ClearIntent(p)
  BY <1>5 DEF DropStaleIntent, ClearIntent, DirectoryMove, Unmarked
<1>6. CASE MarkIntent(p) /\ ~Fails(p)
  BY <1>1, <1>6 DEF MarkIntent, DirectoryMove, Marked, Goto, TypeOK
<1>7. CASE PublishLost(p)
  <2>1. job[p] = st
    BY <1>1, <1>7 DEF PublishLost, CopiesAreCurrent, HoldsState
  <2>2. CASE WriteState(Lost(job[p])) /\ job[p].status = Running
    <3>1. Lost(st).status = "runner_lost" /\ st.status = Running
      BY <1>1, <2>1, <2>2 DEF Lost, TypeOK, JobStates
    <3>. QED
      BY <1>7, <2>1, <2>2, <3>1 DEF PublishLost, WriteState, DirectoryMove, Replaced
  <2>. QED
    BY <1>3, <1>7, <2>2 DEF PublishLost, history
<1>8. CASE MutateState(p)
  <2>1. job[p] = st /\ pc[p] \in {"m_write", "ca_write"}
    BY <1>1, <1>8 DEF MutateState, CopiesAreCurrent, HoldsState
  <2>2. pc'[p] = "idle"
    BY <1>1, <1>8 DEF MutateState, Ends, Become, Goto, TypeOK
  <2>3. CASE \/ WriteState(CommitWait(st, Me(p), loc[p].view.captured))
             \/ WriteState(CancelLocked(st))
    <3>1. /\ CommitWait(st, Me(p), loc[p].view.captured).status = st.status
          /\ CancelLocked(st).status = st.status
      BY <1>1 DEF CommitWait, CancelLocked, TypeOK, JobStates
    <3>. QED
      BY <2>1, <2>2, <2>3, <3>1 DEF WriteState, DirectoryMove, Replaced
  <2>. QED
    BY <1>3, <1>8, <2>1, <2>3 DEF MutateState, history
<1>9. CASE Unlink(p) /\ ~Fails(p)
  <2>1. CASE UNCHANGED <<disk, history>>
    BY <1>3, <2>1 DEF history
  <2>2. ASSUME NEW f \in loc[p].todo, f \in files, files' = files \ {f},
               bypass' = IF f = "terminal.pending" THEN 0 ELSE bypass,
               Become(p, "rm_unlink", [loc[p] EXCEPT !.todo = @ \ {f}]),
               UNCHANGED <<dirExists, st, recInode>>
        PROVE  DirectoryMove(p)
    BY <1>1, <1>9, <2>2 DEF Unlink, DirectoryMove, Become, Goto, TypeOK
  <2>. QED
    BY <1>9, <2>1, <2>2 DEF Unlink
<1>10. CASE RemoveDirectory(p)
  BY <1>10 DEF RemoveDirectory, DirectoryMove, history
<1>11. CASE \/ \E o \in Commands : Start(p, o)
            \/ (Snapshot(p) \/ AwaitIntent(p) \/ Resnapshot(p) \/ ReadLog(p) \/ Respond(p)
                \/ DeadlineSnapshot(p) \/ WaitDeadline(p)) /\ ~Fails(p)
  BY <1>3, <1>11 DEF Start, Snapshot, AwaitIntent, Resnapshot, ReadLog, Respond, Committing,
                     DeadlineSnapshot, WaitDeadline, history
<1>12. CASE (LockRecovery(p) \/ InspectIntent(p) \/ OpenLockFile(p) \/ LeaseBusy(p)
             \/ TakeLease(p) \/ ReleaseLease(p) \/ LockState(p) \/ RecheckIntent(p)) /\ ~Fails(p)
  BY <1>3, <1>12 DEF LockRecovery, InspectIntent, OpenLockFile, LeaseBusy, TakeLease,
                     ReleaseLease, LockState, RecheckIntent, history
<1>13. CASE (ProbeLease(p) \/ Unprobe(p) \/ LeaseForRemoval(p) \/ ListDirectory(p)) /\ ~Fails(p)
  BY <1>3, <1>13 DEF ProbeLease, Unprobe, LeaseForRemoval, ListDirectory, history
<1>. QED
  BY <1>2, <1>4, <1>5, <1>6, <1>7, <1>8, <1>9, <1>10, <1>11, <1>12, <1>13
     DEF ClientStep, TimeOut, Crash

\* The same of a step of the runner.
RunnerRecoveryMove ==
    \/ rpc' \notin RunnerHoldsRecovery /\ (recLock' = recLock \/ DropRecovery(Runner))
    \/ /\ rpc \in RunnerHoldsRecovery /\ rpc' \in RunnerHoldsRecovery
       /\ rfd' = rfd /\ recLock' = recLock
    \/ /\ rpc' \in RunnerHoldsRecovery /\ rfd' = rfd
       /\ recLock[rfd] = NoOne /\ recLock' = [recLock EXCEPT ![rfd] = Runner]

RunnerControlMove ==
    /\ UNCHANGED <<pc, loc>>
    /\ RunnerRecoveryMove
    /\ rpc' # "dead" => rpc # "dead"

RunnerQuietly ==
    /\ UNCHANGED <<files, dirExists, st, recInode, bypass>>
    /\ rpc' = "dead" \/ (rpc \in OwnIntent <=> rpc' \in OwnIntent)
    /\ rfd' = rfd \/ rfd' = 0

RunnerDirectoryMove ==
    \/ RunnerQuietly
    \/ rpc = "pub_open" /\ rpc' = "pub_rec" /\ Opened(rfd')
    \/ rpc = "pub_mark" /\ rpc' = "pub_slock" /\ Marked /\ rfd' = rfd
    \/ rpc = "pub_clear" /\ rpc' = "pub_release" /\ Unmarked /\ rfd' = rfd
    \/ /\ rpc = "ap_write" /\ rpc' = "run"
       /\ Replaced /\ rfd' = rfd /\ st'.status = st.status
    \/ /\ rpc = "pub_write" /\ rpc' = "pub_clear" /\ Replaced /\ rfd' = rfd
       /\ st.status = Running /\ IsTerminal(st'.status)

LEMMA RunnerControl ==
  ASSUME RunnerStep \/ AppendTimeOut \/ RunnerCrash
  PROVE  RunnerControlMove
<1> USE DEF RunnerControlMove, RunnerRecoveryMove, RunnerHoldsRecovery, RunnerGoto, client
<1>1. CASE RunnerEnds /\ UNCHANGED client
  BY <1>1 DEF RunnerEnds, DropAll
<1>2. CASE \/ AppendBegin \/ AppendAwaitIntent \/ AppendLock \/ AppendCommit
           \/ Poll \/ HardTimeout \/ Supervised
  BY <1>2, Zenon DEF AppendBegin, AppendAwaitIntent, AppendLock, AppendCommit, Poll, HardTimeout,
                 Supervised, locks
<1>3. CASE AppendOutput /\ ~RunnerEnds
  BY <1>3, Zenon DEF AppendOutput, locks
<1>4. CASE PublishOpen \/ PublishLockRecovery \/ PublishLockState \/ PublishTerminal
  BY <1>4 DEF PublishOpen, PublishLockRecovery, PublishLockState, PublishTerminal, locks
<1>5. CASE PublishClear \/ (PublishMark /\ ~RunnerEnds)
  BY <1>5 DEF PublishClear, PublishMark, locks
<1>. QED
  BY <1>1, <1>2, <1>3, <1>4, <1>5 DEF RunnerStep, RunnerPublishes, AppendOutput, PublishMark,
     PublishRelease, AppendTimeOut, RunnerCrash

LEMMA RunnerDirectory ==
  ASSUME IInv, RunnerStep \/ AppendTimeOut \/ RunnerCrash
  PROVE  RunnerDirectoryMove
<1> USE DEF RunnerGoto
<1>1. TypeOK /\ CopiesAreCurrent /\ RunnerOwnsStatus
  BY DEF IInv
<1>2. CASE RunnerEnds /\ UNCHANGED <<disk, history>>
  BY <1>2 DEF RunnerEnds, disk, history, RunnerDirectoryMove, RunnerQuietly
<1>3. CASE \/ AppendBegin \/ AppendAwaitIntent \/ AppendLock \/ Poll \/ HardTimeout
           \/ Supervised \/ PublishLockRecovery \/ PublishLockState
  BY <1>3 DEF AppendBegin, AppendAwaitIntent, AppendLock, Poll, HardTimeout, Supervised,
              PublishLockRecovery, PublishLockState, disk, history, RunnerDirectoryMove,
              RunnerQuietly, OwnIntent
<1>4. CASE AppendOutput
  <2>1. /\ rpc' \in {"ap_wait", "dead", "ap_write"} /\ rpc = "ap_check"
        /\ UNCHANGED <<files, dirExists, st, recInode, bypass>>
        /\ rfd' = rfd \/ rfd' = 0
    BY <1>4 DEF AppendOutput, RunnerEnds, history
  <2>. QED
    BY <2>1 DEF RunnerDirectoryMove, RunnerQuietly, OwnIntent
<1>5. CASE AppendCommit
  <2>1. rpc = "ap_write" /\ rpc' = "run" /\ rfd' = rfd
    BY <1>5 DEF AppendCommit
  <2>2. CASE WriteState(rjob)
    <3>1. rjob.status = st.status
      BY <1>1, <2>1 DEF CopiesAreCurrent, TypeOK, JobStates
    <3>. QED
      BY <2>1, <2>2, <3>1 DEF WriteState, RunnerDirectoryMove, Replaced
  <2>3. CASE UNCHANGED <<disk, history>>
    BY <2>1, <2>3 DEF disk, history, RunnerDirectoryMove, RunnerQuietly, OwnIntent
  <2>. QED
    BY <1>5, <2>2, <2>3 DEF AppendCommit
<1>6. CASE PublishOpen
  BY <1>6 DEF PublishOpen, RunnerDirectoryMove, Opened, history
<1>7. CASE PublishMark
  BY <1>2, <1>7 DEF PublishMark, RunnerDirectoryMove, Marked
<1>8. CASE PublishTerminal
  <2>1. /\ rpc = "pub_write" /\ rpc' = "pub_clear" /\ rfd' = rfd
        /\ rjob = st /\ st.status = Running
    BY <1>1, <1>8 DEF PublishTerminal, runner, CopiesAreCurrent, RunnerOwnsStatus, Published
  <2>2. CASE UNCHANGED <<disk, history>>
    BY <2>1, <2>2 DEF disk, history, RunnerDirectoryMove, RunnerQuietly, OwnIntent
  <2>3. ASSUME NEW exit \in Exits,
               TransitionAllowed(rjob.status, [rjob EXCEPT !.status = PublishedStatus(rjob, exit)].status),
               WriteState([rjob EXCEPT !.status = PublishedStatus(rjob, exit)])
        PROVE  RunnerDirectoryMove
    BY <2>1, <2>3 DEF TransitionAllowed, WriteState, RunnerDirectoryMove, Replaced
  <2>. QED
    BY <1>8, <2>2, <2>3 DEF PublishTerminal
<1>9. CASE PublishClear
  BY <1>9 DEF PublishClear, RunnerDirectoryMove, Unmarked
<1>. QED
  BY <1>2, <1>3, <1>4, <1>5, <1>6, <1>7, <1>8, <1>9 DEF RunnerStep, RunnerPublishes,
     PublishRelease, AppendTimeOut, RunnerCrash

-----------------------------------------------------------------------------
\* Each part of the invariant through a step of a client.

ClientMove(p) == ControlMove(p) /\ DirectoryMove(p)

\* A finished job does not run again, and a finished record stays finished.
LEMMA NeverRunsAgain ==
  ASSUME TypeOK, TypeOK',
         (\E p \in Clients : DirectoryMove(p)) \/ RunnerDirectoryMove
  PROVE  /\ st'.status = Running => st.status = Running
         /\ IsTerminal(st.status) => IsTerminal(st'.status)
<1>1. ~IsTerminal(Running)
  BY DEF IsTerminal, TerminalStatuses, ExitStatuses, Running
<1>2. IsTerminal("runner_lost")
  BY DEF IsTerminal, TerminalStatuses
<1>. QED
  BY <1>1, <1>2 DEF DirectoryMove, Unmarked, Marked, Opened, OpensRecoveryLock, disk,
                    RunnerDirectoryMove, RunnerQuietly

LEMMA RecoveryStaysHeld ==
  ASSUME TypeOK, RecoveryHeld, NEW p \in Clients, ControlMove(p)
  PROVE  RecoveryHeld'
<1>1. recLock \in [Inodes -> Procs \cup {NoOne}] /\ loc \in [Clients -> Locals] /\ rfd \in Inodes
  BY DEF TypeOK
<1>2. \A q \in Clients : loc[q].fd \in Inodes
  BY <1>1 DEF Locals
<1>3. Runner \notin Clients /\ NoOne \notin Procs
  BY ProcsAssumption
<1>4. ASSUME NEW q \in Procs \ {p}, NEW i \in Inodes, recLock[i] = q
      PROVE  recLock'[i] = q
  BY <1>1, <1>2, <1>3, <1>4 DEF ControlMove, RecoveryMove, DropRecovery, Dropped
<1>5. pc'[p] \in HoldsRecovery => recLock'[loc'[p].fd] = p
  BY <1>1, <1>2 DEF ControlMove, RecoveryMove, RecoveryHeld, AtRecovery, HoldsRecovery
<1>. QED
  BY <1>2, <1>1, <1>3, <1>4, <1>5 DEF ControlMove, RecoveryHeld

\* Who unlinks holds the lease and state.lock.
LEMMA Unlinking ==
  ASSUME LocksMatchControl, NEW p \in Clients, pc[p] = "rm_unlink"
  PROVE  rpc = "dead" /\ \A q \in Clients \ {p} : pc[q] \notin HoldsState
<1>1. "rm_unlink" \in HoldsState /\ "rm_unlink" \in HoldsLease /\ p # Runner
  BY ProcsAssumption DEF HoldsState, HoldsLease
<1>. QED
  BY <1>1 DEF LocksMatchControl

LEMMA FilesStayKept ==
  ASSUME IInv, TypeOK', RunningKept, NEW p \in Clients, ClientMove(p)
  PROVE  RunningKept'
<1>1. /\ st'.status = Running => st.status = Running
      /\ IsTerminal(st.status) => IsTerminal(st'.status)
  BY NeverRunsAgain DEF IInv, ClientMove
<1>2. TypeOK /\ LocksMatchControl
  BY DEF IInv
<1>3. ~IsTerminal(Running)
  BY DEF IsTerminal, TerminalStatuses, ExitStatuses, Running
<1>4. \A q \in Clients : pc'[q] = "rm_unlink" => IsTerminal(st'.status)
  BY <1>1 DEF RunningKept, ClientMove, ControlMove
<1>5. CASE pc[p] = "rm_unlink"
  BY <1>1, <1>2, <1>3, <1>4, <1>5, Unlinking DEF RunningKept, ClientMove, ControlMove
<1>6. CASE pc[p] # "rm_unlink"
  <2>1. ASSUME st'.status = Running \/ rpc' # "dead"
        PROVE  dirExists' /\ FileNames \ {"terminal.pending"} \subseteq files'
    <3>1. dirExists /\ FileNames \ {"terminal.pending"} \subseteq files
      BY <1>1, <2>1 DEF RunningKept, ClientMove, ControlMove
    <3>2. "recovery.lock" \in files
      BY <3>1 DEF FileNames
    <3>3. CASE UNCHANGED <<files, dirExists>> \/ (pc[p] = "rc_open" /\ Opened(loc'[p].fd))
      BY <3>1, <3>3 DEF Opened, OpensRecoveryLock, disk
    <3>4. CASE Unmarked \/ Marked \/ Replaced
      BY <3>1, <3>4 DEF Unmarked, Marked, Replaced
    <3>5. CASE pc[p] = "rm_rmdir" /\ dirExists' = (dirExists /\ files # {}) /\ UNCHANGED files
      BY <3>1, <3>2, <3>5
    <3>. QED
      BY <1>6, <3>3, <3>4, <3>5 DEF ClientMove, DirectoryMove, disk
  <2>2. ASSUME st'.status = Running
        PROVE  /\ recInode' = 0 /\ rfd' = 0
               /\ \A q \in Clients : pc'[q] \in HoldsRecovery \cup {"rc_lock"} => loc'[q].fd = 0
    <3>1. /\ recInode = 0 /\ rfd = 0 /\ Present("recovery.lock")
          /\ \A q \in Clients : pc[q] \in HoldsRecovery \cup {"rc_lock"} => loc[q].fd = 0
      BY <1>1, <2>2 DEF RunningKept, FileNames, Present
    <3>2. ASSUME NEW i, OpensRecoveryLock(i)
          PROVE  i = 0
      BY <3>1, <3>2 DEF OpensRecoveryLock
    <3>3. recInode' = 0
      BY <1>6, <3>1 DEF ClientMove, DirectoryMove, Unmarked, Marked, Replaced, Opened,
                        OpensRecoveryLock, disk
    <3>4. pc'[p] \in HoldsRecovery \cup {"rc_lock"} => loc'[p].fd = 0
      BY <3>1, <3>2 DEF ClientMove, ControlMove, RecoveryMove, AtRecovery
    <3>. QED
      BY <3>1, <3>3, <3>4 DEF ClientMove, ControlMove
  <2>. QED
    BY <1>4, <2>1, <2>2 DEF RunningKept
<1>. QED
  BY <1>5, <1>6

LEMMA RecordStaysPresent ==
  ASSUME IInv, RecordPresent, NEW p \in Clients, ClientMove(p)
  PROVE  RecordPresent'
<1>1. LocksMatchControl
  BY DEF IInv
<1>2. CASE pc[p] = "rm_unlink"
  <2>1. \A q \in Clients \ {p} : pc'[q] \notin HoldsState
    BY <1>1, <1>2, Unlinking DEF ClientMove, ControlMove
  <2>2. CASE pc'[p] = "rm_unlink"
    BY <2>1, <2>2 DEF RecordPresent
  <2>3. CASE pc'[p] # "rm_unlink"
    <3>1. UNCHANGED files
      BY <1>2, <2>3 DEF ClientMove, DirectoryMove, disk
    <3>2. pc'[p] \in Writing => Present("state.json")
      BY <1>2 DEF ClientMove, ControlMove, Writing
    <3>. QED
      BY <2>1, <3>1, <3>2 DEF RecordPresent, Writing, Present
  <2>. QED
    BY <2>2, <2>3
<1>3. CASE pc[p] # "rm_unlink"
  <2>1. Present("state.json") => Present("state.json")'
    BY <1>3 DEF ClientMove, DirectoryMove, Unmarked, Marked, Replaced, Opened,
                OpensRecoveryLock, disk, Present
  <2>. QED
    BY <2>1 DEF ClientMove, ControlMove, RecordPresent, Writing
<1>. QED
  BY <1>2, <1>3

\* Everybody at recovery.lock of a running job is at the same file.
LEMMA OneRecovery ==
  ASSUME RecoveryHeld, RunningKept, st.status = Running
  PROVE  /\ \A p, q \in Clients : pc[p] \in HoldsRecovery /\ pc[q] \in HoldsRecovery => p = q
         /\ rpc \in RunnerHoldsRecovery => \A p \in Clients : pc[p] \notin HoldsRecovery
  BY ProcsAssumption DEF RecoveryHeld, RunningKept

LEMMA FoundHolds ==
  ASSUME NEW p \in Clients, FoundNoIntent(p)
  PROVE  pc[p] \in HoldsRecovery
  BY DEF FoundNoIntent, HoldsRecovery

\* While the runner lives nobody but the runner makes or removes the intent.
LEMMA IntentStaysKnown ==
  ASSUME IInv, TypeOK', RecoveryHeld, RunningKept, IntentKnown,
         NEW p \in Clients, ClientMove(p)
  PROVE  IntentKnown'
<1>1. TypeOK /\ LocksMatchControl
  BY DEF IInv
<1>2. st'.status = Running => st.status = Running
  BY <1>1, NeverRunsAgain DEF ClientMove
<1>3. ASSUME rpc' # "dead"
      PROVE  Pending' <=> rpc' \in {"pub_slock", "pub_write", "pub_clear"}
  <2>1. rpc # "dead" /\ rpc' = rpc
    BY <1>3 DEF ClientMove, ControlMove
  <2>2. pc[p] \notin HoldsLease
    BY <1>1, <2>1, ProcsAssumption DEF LocksMatchControl
  <2>3. pc[p] \notin {"rc_drop", "rc_clear", "rc_mark", "rc_write", "rm_unlink"}
    BY <2>2 DEF HoldsLease
  <2>4. Pending' <=> Pending
    BY <2>3 DEF ClientMove, DirectoryMove, Replaced, Opened, OpensRecoveryLock, disk,
                Pending, Present
  <2>. QED
    BY <2>1, <2>4 DEF IntentKnown
<1>4. ASSUME st'.status = Running, Pending', NEW q \in Clients
      PROVE  ~FoundNoIntent(q)'
  <2>1. st.status = Running
    BY <1>2, <1>4
  <2>2. CASE Pending
    <3>1. ~FoundNoIntent(q) /\ ~FoundNoIntent(p)
      BY <2>1, <2>2 DEF IntentKnown
    <3>. QED
      BY <2>2, <3>1 DEF ClientMove, ControlMove, FoundNoIntent
  <2>3. CASE ~Pending
    <3>1. pc[p] = "rc_mark" /\ pc'[p] = "rc_sopen"
      BY <1>4, <2>1, <2>3 DEF ClientMove, DirectoryMove, Unmarked, Replaced, Opened,
                              OpensRecoveryLock, disk, Pending, Present
    <3>2. pc[p] \in HoldsRecovery
      BY <3>1 DEF HoldsRecovery
    <3>3. CASE q = p
      BY <3>1, <3>3 DEF FoundNoIntent
    <3>4. CASE q # p
      <4>1. ~FoundNoIntent(q)
        BY <2>1, <3>2, <3>4, OneRecovery, FoundHolds
      <4>. QED
        BY <3>4, <4>1 DEF ClientMove, ControlMove, FoundNoIntent
    <3>. QED
      BY <3>3, <3>4
  <2>. QED
    BY <2>2, <2>3
<1>. QED
  BY <1>3, <1>4 DEF IntentKnown

\* The one who passed the second look holds state.lock until it has written.
LEMMA FenceStaysKept ==
  ASSUME IInv, TypeOK', RunningKept, IntentKnown, FenceKept, NEW p \in Clients, ClientMove(p)
  PROVE  FenceKept'
<1>1. TypeOK /\ LocksMatchControl
  BY DEF IInv
<1>2. bypass \in {0, 1} /\ (bypass = 1 => Pending /\ \A q \in Clients : pc[q] # "m_write")
  BY DEF FenceKept
<1>3. /\ \A q \in Clients \ {p} : pc'[q] = pc[q]
      /\ pc'[p] = "m_write" => ~Pending
  BY DEF ClientMove, ControlMove
<1>4. CASE bypass' = 0
  BY <1>4 DEF FenceKept
<1>5. CASE bypass' = bypass /\ (Pending => Pending')
  BY <1>2, <1>3, <1>5 DEF FenceKept
<1>6. CASE pc[p] \in {"m_write", "ca_write"} /\ Pending /\ Replaced /\ st'.status = Running
           /\ pc'[p] = "idle"
  <2>1. st.status = Running
    BY <1>1, <1>6, NeverRunsAgain DEF ClientMove
  <2>2. pc[p] = "m_write"
    <3>1. ~FoundNoIntent(p)
      BY <1>6, <2>1 DEF IntentKnown
    <3>. QED
      BY <1>6, <3>1 DEF FoundNoIntent
  <2>3. bypass = 0
    BY <1>2, <2>2
  <2>4. bypass' = 1 /\ Pending'
    BY <1>6, <2>3 DEF Replaced, Pending, Present
  <2>5. \A q \in Clients \ {p} : pc[q] # "m_write"
    <3>1. "m_write" \in HoldsState
      BY DEF HoldsState
    <3>. QED
      BY <1>1, <2>2, <3>1 DEF LocksMatchControl
  <2>. QED
    BY <1>3, <1>6, <2>4, <2>5 DEF FenceKept
<1>7. Replaced /\ ~(Pending /\ st'.status = Running) => bypass' = bypass /\ (Pending => Pending')
  BY DEF Replaced, Pending, Present
<1>8. "runner_lost" # Running
  BY DEF Running
<1>9. CASE UNCHANGED <<disk, bypass>> \/ Opened(loc'[p].fd)
  BY <1>5, <1>9 DEF disk, Opened, OpensRecoveryLock, Pending, Present
<1>10. ASSUME NEW f \in files, files' = files \ {f},
              bypass' = IF f = "terminal.pending" THEN 0 ELSE bypass
       PROVE  FenceKept'
  BY <1>4, <1>5, <1>10 DEF Pending, Present
<1>11. CASE UNCHANGED <<files, bypass>>
  BY <1>5, <1>11 DEF Pending, Present
<1>. QED
  BY <1>4, <1>5, <1>6, <1>7, <1>8, <1>9, <1>10, <1>11 DEF ClientMove, DirectoryMove, Unmarked, Marked

-----------------------------------------------------------------------------
\* The same through a step of the runner, and the theorems.

RunnerMove == RunnerControlMove /\ RunnerDirectoryMove

LEMMA RunnerKeepsRecovery ==
  ASSUME TypeOK, RecoveryHeld, RunnerControlMove
  PROVE  RecoveryHeld'
<1>1. recLock \in [Inodes -> Procs \cup {NoOne}] /\ rfd \in Inodes
      /\ \A q \in Clients : loc[q].fd \in Inodes
  BY DEF TypeOK, Locals
<1>2. ASSUME NEW q \in Clients, NEW i \in Inodes, recLock[i] = q
      PROVE  recLock'[i] = q
  BY <1>1, <1>2, ProcsAssumption DEF RunnerControlMove, RunnerRecoveryMove, DropRecovery, Dropped
<1>3. rpc' \in RunnerHoldsRecovery => recLock'[rfd'] = Runner
  BY <1>1 DEF RunnerControlMove, RunnerRecoveryMove, RecoveryHeld
<1>. QED
  BY <1>1, <1>2, <1>3 DEF RunnerControlMove, RecoveryHeld

LEMMA RunnerKeepsFiles ==
  ASSUME IInv, TypeOK', RunningKept, RunnerMove
  PROVE  RunningKept'
<1>1. TypeOK /\ RunnerOwnsStatus
  BY DEF IInv
<1>2. /\ st'.status = Running => st.status = Running
      /\ IsTerminal(st.status) => IsTerminal(st'.status)
  BY <1>1, NeverRunsAgain DEF RunnerMove
<1>3. rpc' # "dead" => rpc # "dead"
  BY DEF RunnerMove, RunnerControlMove
<1>4. ASSUME st'.status = Running \/ rpc' # "dead"
      PROVE  dirExists' /\ FileNames \ {"terminal.pending"} \subseteq files'
  <2>1. dirExists /\ FileNames \ {"terminal.pending"} \subseteq files
    BY <1>2, <1>3, <1>4 DEF RunningKept
  <2>. QED
    BY <2>1 DEF RunnerMove, RunnerDirectoryMove, RunnerQuietly, Unmarked, Marked, Replaced,
                Opened, OpensRecoveryLock, disk
<1>5. ASSUME st'.status = Running
      PROVE  recInode' = 0 /\ rfd' = 0
  <2>1. recInode = 0 /\ rfd = 0 /\ Present("recovery.lock")
    BY <1>2, <1>5 DEF RunningKept, FileNames, Present
  <2>. QED
    BY <2>1 DEF RunnerMove, RunnerDirectoryMove, RunnerQuietly, Unmarked, Marked, Replaced,
                Opened, OpensRecoveryLock, disk
<1>. QED
  BY <1>2, <1>4, <1>5 DEF RunningKept, RunnerMove, RunnerControlMove

LEMMA RunnerKeepsRecord ==
  ASSUME RecordPresent, RunnerMove
  PROVE  RecordPresent'
  BY DEF RecordPresent, Present, RunnerMove, RunnerControlMove, RunnerDirectoryMove,
         RunnerQuietly, Unmarked, Marked, Replaced, Opened, OpensRecoveryLock, disk

LEMMA RunnerKnowsIntent ==
  ASSUME IInv, TypeOK', RecoveryHeld, RunningKept, IntentKnown, RunnerMove
  PROVE  IntentKnown'
<1>1. TypeOK
  BY DEF IInv
<1>2. st'.status = Running => st.status = Running
  BY <1>1, NeverRunsAgain DEF RunnerMove
<1>3. rpc' # "dead" => rpc # "dead"
  BY DEF RunnerMove, RunnerControlMove
<1>4. ASSUME rpc' # "dead"
      PROVE  Pending' <=> rpc' \in OwnIntent
  BY <1>3, <1>4 DEF IntentKnown, OwnIntent, RunnerMove, RunnerDirectoryMove, RunnerQuietly,
     Unmarked, Marked, Replaced, Opened, OpensRecoveryLock, disk, Pending, Present
<1>5. ASSUME st'.status = Running, Pending', NEW q \in Clients
      PROVE  ~FoundNoIntent(q)'
  <2>1. FoundNoIntent(q)' => FoundNoIntent(q)
    BY DEF RunnerMove, RunnerControlMove, FoundNoIntent
  <2>2. CASE Pending
    BY <1>2, <1>5, <2>1, <2>2 DEF IntentKnown
  <2>3. CASE ~Pending
    <3>1. rpc = "pub_mark"
      BY <1>5, <2>3 DEF RunnerMove, RunnerDirectoryMove, RunnerQuietly, Unmarked, Replaced,
                        Opened, OpensRecoveryLock, disk, Pending, Present
    <3>. QED
      BY <1>2, <1>5, <2>1, <3>1, OneRecovery, FoundHolds DEF RunnerHoldsRecovery
  <2>. QED
    BY <2>2, <2>3
<1>. QED
  BY <1>4, <1>5 DEF IntentKnown, OwnIntent

LEMMA RunnerKeepsFence ==
  ASSUME IntentKnown, FenceKept, RunnerMove
  PROVE  FenceKept'
<1>1. CASE bypass' = 0
  BY <1>1 DEF FenceKept
<1>2. CASE bypass' = bypass /\ (Pending => Pending')
  BY <1>2 DEF FenceKept, RunnerMove, RunnerControlMove
<1>3. CASE Replaced /\ rpc = "ap_write"
  <2>1. ~Pending
    BY <1>3 DEF IntentKnown
  <2>. QED
    BY <1>2, <1>3, <2>1 DEF Replaced
<1>4. CASE Replaced /\ IsTerminal(st'.status)
  <2>1. st'.status # Running
    BY <1>4 DEF IsTerminal, TerminalStatuses, ExitStatuses, Running
  <2>. QED
    BY <1>2, <1>4, <2>1 DEF Replaced, Pending, Present
<1>5. CASE RunnerQuietly \/ Opened(rfd')
  BY <1>2, <1>5 DEF RunnerQuietly, Opened, OpensRecoveryLock, disk, Pending, Present
<1>. QED
  BY <1>1, <1>3, <1>4, <1>5 DEF RunnerMove, RunnerDirectoryMove, Unmarked, Marked

LEMMA InitDirectory == Init => DirectoryInv
<1>1. Init => IInv
  BY InitInductive
<1>2. ASSUME Init
      PROVE  RecoveryHeld /\ RunningKept /\ RecordPresent /\ IntentKnown /\ FenceKept
  BY <1>2 DEF Init, RecoveryHeld, RunningKept, RecordPresent, IntentKnown, FenceKept,
     FoundNoIntent, HoldsRecovery, RunnerHoldsRecovery, HoldsState, Pending, Present,
     InitialJobState, Blank, FileNames
<1>. QED
  BY <1>1, <1>2 DEF DirectoryInv

LEMMA NextDirectory == DirectoryInv /\ [Next]_vars => DirectoryInv'
<1> SUFFICES ASSUME DirectoryInv, [Next]_vars PROVE DirectoryInv'
  OBVIOUS
<1> USE DEF DirectoryInv
<1>1. IInv' /\ TypeOK /\ TypeOK'
  BY NextInductive DEF IInv
<1>2. ASSUME NEW p \in Clients,
             \/ \E o \in Commands : Start(p, o)
             \/ ClientStep(p) \/ TimeOut(p) \/ WaitDeadline(p) \/ Crash(p)
      PROVE  DirectoryInv'
  <2>1. ControlMove(p)
    BY <1>1, <1>2, ObservingControl, ReconcilingControl, MutatingControl, RemovingControl
       DEF ClientStep
  <2>2. DirectoryMove(p)
    BY <1>2, ClientDirectory
  <2>. QED
    BY <1>1, <2>1, <2>2, RecoveryStaysHeld, FilesStayKept, RecordStaysPresent,
       IntentStaysKnown, FenceStaysKept DEF ClientMove
<1>3. CASE RunnerStep \/ AppendTimeOut \/ RunnerCrash
  BY <1>1, <1>3, RunnerControl, RunnerDirectory, RunnerKeepsRecovery, RunnerKeepsFiles,
     RunnerKeepsRecord, RunnerKnowsIntent, RunnerKeepsFence DEF RunnerMove
<1>4. CASE UNCHANGED vars
  BY <1>1, <1>4 DEF vars, disk, locks, runner, client, history, RecoveryHeld, RunningKept,
     RecordPresent, IntentKnown, FenceKept, FoundNoIntent, Pending, Present
<1>. QED
  BY <1>2, <1>3, <1>4 DEF Next

\* In every reachable state the flock of recovery.lock, the intent and the
\* files match what each process is doing: the directory of a running job is
\* whole, everybody at its recovery.lock is at the same file, and a found or
\* missing intent stays so for as long as the finder relies on it.
THEOREM DirectoryInductive == Spec => []DirectoryInv
<1>. QED
  BY InitDirectory, NextDirectory, PTL DEF Spec

\* A living runner never loses a file it needs to a removal or a recovery, and
\* never finds somebody else's intent (removeTerminal, runnerLease).
THEOREM LeaseProtects == Spec => []LeaseProtectsDirectory
<1>1. DirectoryInv => LeaseProtectsDirectory
  BY DEF DirectoryInv, RunningKept, IntentKnown, LeaseProtectsDirectory
<1>. QED
  BY <1>1, DirectoryInductive, PTL

\* However many processes mutate the job at once, at most one write of theirs
\* still lands after the intent appeared (openLockedJobContext).
THEOREM IntentFences == Spec => []IntentFencesMutations
<1>1. DirectoryInv => IntentFencesMutations
  BY DEF DirectoryInv, FenceKept, IntentFencesMutations
<1>. QED
  BY <1>1, DirectoryInductive, PTL

-----------------------------------------------------------------------------
\* What a step may do to the record's file, and to the abstract job.

LEMMA NextMoves ==
  ASSUME DirectoryInv, Next
  PROVE  (\E p \in Clients : ClientMove(p)) \/ RunnerMove
<1> USE DEF DirectoryInv
<1>1. ASSUME NEW p \in Clients,
             \/ \E o \in Commands : Start(p, o)
             \/ ClientStep(p) \/ TimeOut(p) \/ WaitDeadline(p) \/ Crash(p)
      PROVE  ClientMove(p)
  <2>1. ControlMove(p)
    BY <1>1, ObservingControl, ReconcilingControl, MutatingControl, RemovingControl
       DEF ClientStep, IInv
  <2>. QED
    BY <1>1, <2>1, ClientDirectory DEF ClientMove
<1>2. CASE RunnerStep \/ AppendTimeOut \/ RunnerCrash
  BY <1>2, RunnerControl, RunnerDirectory DEF RunnerMove
<1>. QED
  BY <1>1, <1>2 DEF Next

LEMMA RemovalStep ==
  ASSUME DirectoryInv, Next
  PROVE  /\ Present("state.json") \/ "state.json" \notin files'
         /\ Present("state.json") /\ "state.json" \notin files'
              => IsTerminal(st.status) /\ rpc = "dead"
<1> USE DEF DirectoryInv
<1>1. ASSUME NEW p \in Clients, ClientMove(p), ~Present("state.json")
      PROVE  "state.json" \notin files'
  <2>1. pc[p] \notin {"rc_write", "m_write", "ca_write"}
    BY <1>1 DEF RecordPresent, HoldsState
  <2>. QED
    BY <1>1, <2>1 DEF ClientMove, DirectoryMove, Unmarked, Marked, Opened, OpensRecoveryLock,
                      disk, Present
<1>2. ASSUME NEW p \in Clients, ClientMove(p), Present("state.json"), "state.json" \notin files'
      PROVE  IsTerminal(st.status) /\ rpc = "dead"
  <2>1. pc[p] = "rm_unlink"
    BY <1>2 DEF ClientMove, DirectoryMove, Unmarked, Marked, Replaced, Opened,
                OpensRecoveryLock, disk, Present
  <2>. QED
    BY <2>1, Unlinking DEF RunningKept, IInv
<1>3. CASE RunnerMove
  <2>1. rpc # "dead" => Present("state.json")
    BY DEF RunningKept, FileNames, Present
  <2>. QED
    BY <1>3, <2>1 DEF RunnerMove, RunnerDirectoryMove, RunnerQuietly, Unmarked, Marked,
                      Replaced, Opened, OpensRecoveryLock, disk, Present
<1>. QED
  BY <1>1, <1>2, <1>3, NextMoves

\* state.json goes once, from a job that ended and whose runner let go, and no
\* writer that was already under way brings it back (removeTerminal).
THEOREM RemovedForGood == Spec => RemovalIsFinal
<1>1. DirectoryInv /\ [Next]_vars =>
        [/\ Present("state.json") \/ "state.json" \notin files'
         /\ Present("state.json") /\ "state.json" \notin files'
              => IsTerminal(st.status) /\ rpc = "dead"]_files
  BY RemovalStep DEF vars, disk
<1>. QED
  BY <1>1, DirectoryInductive, PTL DEF Spec, RemovalIsFinal

Phase == IF Present("state.json") THEN st.status ELSE "removed"
Leased == runnerLock = Runner

LEMMA AbstractInit == Init => Lifecycle!Init
  BY DEF Init, Lifecycle!Init, Lifecycle!Running, Lifecycle!NoEntry, Running, NoEntry,
         InitialJobState, Present, FileNames

LEMMA LeaseSteps ==
  ASSUME DirectoryInv, DirectoryInv', Next
  PROVE  /\ Leased <=> rpc # "dead"
         /\ Leased' <=> rpc' # "dead"
         /\ Leased' => Leased
<1>1. rpc' # "dead" => rpc # "dead"
  BY NextMoves DEF ClientMove, ControlMove, RunnerMove, RunnerControlMove
<1>. QED
  BY <1>1 DEF DirectoryInv, IInv, LocksMatchControl, Leased

\* A step that leaves the record alone ends the lease, removes the job, or
\* does neither.
LEMMA QuietRefines ==
  ASSUME DirectoryInv, DirectoryInv', Next, UNCHANGED st
  PROVE  [Lifecycle!Next]_(Lifecycle!vars)
<1>1. Leased \in BOOLEAN /\ Leased' \in BOOLEAN /\ (Leased' => Leased)
  BY LeaseSteps DEF Leased
<1>2. CASE Phase' = Phase
  <2>1. CASE Leased' = Leased
    BY <1>2, <2>1 DEF Lifecycle!vars, Phase, Leased
  <2>2. CASE Leased' # Leased
    <3>1. Lifecycle!EndLease
      BY <1>1, <1>2, <2>2 DEF Lifecycle!EndLease, Phase, Leased
    <3>. QED
      BY <3>1 DEF Lifecycle!Next
  <2>. QED
    BY <2>1, <2>2
<1>3. CASE Phase' # Phase
  <2>1. /\ Present("state.json") /\ Present("state.json")' = FALSE
        /\ IsTerminal(st.status) /\ rpc = "dead"
    BY <1>3, RemovalStep DEF Phase, Present
  <2>2. Leased = FALSE /\ Leased' = FALSE
    BY <1>1, <2>1, LeaseSteps
  <2>3. Lifecycle!Remove
    BY <2>1, <2>2 DEF Lifecycle!Remove, Lifecycle!IsTerminal, Lifecycle!TerminalStatuses,
       Lifecycle!ExitStatuses, IsTerminal, TerminalStatuses, ExitStatuses, Leased
  <2>. QED
    BY <2>3 DEF Lifecycle!Next
<1>. QED
  BY <1>2, <1>3

\* Who replaces the record finds it in place and leaves it in place.
LEMMA WriterPhase ==
  ASSUME DirectoryInv, Next, st' # st
  PROVE  Phase = st.status /\ Phase' = st'.status
<1>1. ASSUME NEW p \in Clients, ClientMove(p)
      PROVE  pc[p] \in {"rc_write", "m_write", "ca_write"} /\ Replaced
  BY <1>1 DEF ClientMove, DirectoryMove, Unmarked, Marked, Opened, OpensRecoveryLock, disk
<1>2. CASE RunnerMove
  <2>1. rpc # "dead" /\ Replaced
    BY <1>2 DEF RunnerMove, RunnerDirectoryMove, RunnerQuietly, Unmarked, Marked, Opened,
                OpensRecoveryLock, disk
  <2>. QED
    BY <2>1 DEF DirectoryInv, RunningKept, FileNames, Replaced, Present, Phase
<1>3. ASSUME NEW p \in Clients, ClientMove(p)
      PROVE  Present("state.json") /\ Replaced
  BY <1>1, <1>3 DEF DirectoryInv, RecordPresent, HoldsState
<1>. QED
  BY <1>2, <1>3, NextMoves DEF Replaced, Present, Phase

LEMMA LoseRefines ==
  ASSUME DirectoryInv, DirectoryInv', Next, st' # st, NEW p \in Clients, PublishLost(p)
  PROVE  Lifecycle!Lose
<1>1. st \in JobStates
  BY DEF DirectoryInv, IInv, TypeOK
<1>2. job[p] = st /\ runnerLock = p /\ runnerLock' = runnerLock
  BY DEF PublishLost, DirectoryInv, IInv, CopiesAreCurrent, LocksMatchControl, HoldsState,
         HoldsLease, locks
<1>3. st' = Lost(st) /\ st.status = Running
  BY <1>2 DEF PublishLost, WriteState, disk
<1>4. /\ st'.status = "runner_lost" /\ st'.captured = st.captured
      /\ st'.cancelled = st.cancelled /\ st'.cursor = st.cursor
  BY <1>1, <1>3 DEF Lost, JobStates
<1>. QED
  BY <1>2, <1>3, <1>4, WriterPhase, ProcsAssumption
     DEF Lifecycle!Lose, Lifecycle!Running, Running, Phase

LEMMA AcknowledgeRefines ==
  ASSUME DirectoryInv, DirectoryInv', Next, NEW s \in Sessions, NEW n \in 0..Limit,
         st' = CommitWait(st, s, n), st' # st, Publishable(st'), Leased' = Leased
  PROVE  \E m \in st.cursor[s] + 1 .. st.captured : Lifecycle!Acknowledge(s, m)
<1>1. st \in JobStates
  BY DEF DirectoryInv, IInv, TypeOK
<1>2. ~(st.cursor[s] >= n) /\ st' = [st EXCEPT !.cursor[s] = n]
  BY DEF CommitWait
<1>3. /\ st'.status = st.status /\ st'.captured = st.captured
      /\ st'.cancelled = st.cancelled /\ st'.cursor = [st.cursor EXCEPT ![s] = n]
      /\ st'.cursor[s] = n /\ st.captured \in Int /\ st.cursor[s] \in Int
  BY <1>1, <1>2, LimitTyped DEF JobStates
<1>4. n \in st.cursor[s] + 1 .. st.captured
  BY <1>2, <1>3, LimitTyped DEF Publishable
<1>5. st.status # "removed"
  BY <1>1 DEF JobStates, Statuses, Running, TerminalStatuses, ExitStatuses
<1>6. Lifecycle!Acknowledge(s, n)
  BY <1>3, <1>5, WriterPhase DEF Lifecycle!Acknowledge, Phase, Leased
<1>. QED
  BY <1>4, <1>6

LEMMA CancelRefines ==
  ASSUME DirectoryInv, Next, st' = CancelLocked(st), st' # st, Leased' = Leased
  PROVE  Lifecycle!RequestCancel
<1>1. st \in JobStates
  BY DEF DirectoryInv, IInv, TypeOK
<1>2. st' = [st EXCEPT !.cancelled = TRUE] /\ ~IsTerminal(st.status)
  BY DEF CancelLocked, PersistRequest
<1>3. /\ st'.status = st.status /\ st'.captured = st.captured
      /\ st'.cancelled = TRUE /\ st'.cursor = st.cursor /\ st.status = Running
  BY <1>1, <1>2 DEF JobStates, Statuses, IsTerminal
<1>. QED
  BY <1>3, WriterPhase DEF Lifecycle!RequestCancel, Lifecycle!Running, Running, Phase, Leased

LEMMA CaptureRefines ==
  ASSUME DirectoryInv, DirectoryInv', Next, st' # st, AppendCommit
  PROVE  \E n \in st.captured + 1 .. Limit : Lifecycle!Capture(n)
<1>1. st \in JobStates /\ st' \in JobStates /\ rpc = "ap_write"
  BY DEF DirectoryInv, IInv, TypeOK, AppendCommit
<1>2. st' = rjob /\ rjob.captured > st.captured /\ rpc' = "run"
  BY DEF AppendCommit, WriteState, RunnerGoto, disk
<1>3. rjob = [st EXCEPT !.captured = rjob.captured] /\ st.status = Running
  BY <1>1 DEF DirectoryInv, IInv, CopiesAreCurrent, RunnerOwnsStatus, Published
<1>4. st'.status = st.status /\ st'.cancelled = st.cancelled /\ st'.cursor = st.cursor
  BY <1>1, <1>2, <1>3 DEF JobStates
<1>5. st'.captured \in st.captured + 1 .. Limit
  <2>1. st.captured \in 0..Limit /\ st'.captured \in 0..Limit
    BY <1>1 DEF JobStates
  <2>. QED
    BY <1>2, <2>1, LimitTyped
<1>6. (runnerLock = Runner) = TRUE /\ (runnerLock' = Runner) = TRUE
  BY <1>1, <1>2, LeaseSteps DEF Leased
<1>7. Lifecycle!Capture(st'.captured)
  BY <1>3, <1>4, <1>6, WriterPhase DEF Lifecycle!Capture, Lifecycle!Running, Running, Phase
<1>. QED
  BY <1>5, <1>7

LEMMA FinishRefines ==
  ASSUME DirectoryInv, DirectoryInv', Next, st' # st, PublishTerminal
  PROVE  \E status \in TerminalStatuses \ {"runner_lost"} : Lifecycle!Finish(status)
<1>1. st \in JobStates /\ rpc = "pub_write" /\ rpc' = "pub_clear"
  BY DEF DirectoryInv, IInv, TypeOK, PublishTerminal, RunnerGoto
<1>2. rjob = st /\ st.status = Running
  BY <1>1 DEF DirectoryInv, IInv, CopiesAreCurrent, RunnerOwnsStatus, Published
<1>3. PICK exit \in Exits :
         /\ st' = [st EXCEPT !.status = PublishedStatus(st, exit)]
         /\ IsTerminal([st EXCEPT !.status = PublishedStatus(st, exit)].status)
  BY <1>2 DEF PublishTerminal, WriteState, TransitionAllowed, disk
<1>4. /\ st'.status = PublishedStatus(st, exit) /\ IsTerminal(st'.status)
      /\ st'.captured = st.captured /\ st'.cancelled = st.cancelled
      /\ st'.cursor = st.cursor
  BY <1>1, <1>3 DEF JobStates
<1>5. st'.status # "runner_lost" /\ (st'.status = "cancelled" <=> st.cancelled)
  BY <1>1, <1>2, <1>4, PublishedOutcome DEF DirectoryInv
<1>6. (runnerLock = Runner) = TRUE /\ (runnerLock' = Runner) = TRUE
  BY <1>1, LeaseSteps DEF Leased
<1>7. Lifecycle!Finish(st'.status)
  BY <1>2, <1>4, <1>5, <1>6, WriterPhase
     DEF Lifecycle!Finish, Lifecycle!Running, Running, Phase
<1>. QED
  BY <1>4, <1>5, <1>7 DEF IsTerminal

LEMMA MutationRefines ==
  ASSUME DirectoryInv, DirectoryInv', Next, st' # st, NEW p \in Clients, MutateState(p)
  PROVE  [Lifecycle!Next]_(Lifecycle!vars)
<1>1. Me(p) \in Sessions /\ loc[p].view.captured \in 0..Limit
  BY SessionAssumption DEF DirectoryInv, IInv, TypeOK, Locals, Me
<1>2. job[p] = st
  BY DEF MutateState, DirectoryInv, IInv, CopiesAreCurrent, HoldsState
<1>3. Leased' = Leased
  BY LeaseSteps DEF MutateState, runner, Leased
<1>4. \/ st' = CommitWait(st, Me(p), loc[p].view.captured) /\ Publishable(st')
      \/ st' = CancelLocked(st)
  BY <1>2 DEF MutateState, WriteState, disk
<1>. QED
  BY <1>1, <1>3, <1>4, AcknowledgeRefines, CancelRefines DEF Lifecycle!Next

\* Under every interleaving and every crash the files, locks and processes
\* behave as the abstract job does: what a user was promised of a status, its
\* output, a cancellation, a cursor and a removal follows from JobLifecycle.
THEOREM Refines == Spec => ImplementsLifecycle
<1>1. Init => Lifecycle!Init
  BY AbstractInit
<1>2. DirectoryInv /\ DirectoryInv' /\ [Next]_vars => [Lifecycle!Next]_(Lifecycle!vars)
  <2> SUFFICES ASSUME DirectoryInv, DirectoryInv', [Next]_vars
               PROVE  [Lifecycle!Next]_(Lifecycle!vars)
    OBVIOUS
  <2>1. CASE UNCHANGED vars
    BY <2>1 DEF vars, disk, locks, Lifecycle!vars, Present
  <2>2. CASE Next /\ st' # st
    <3>1. CASE \E p \in Clients : PublishLost(p)
      BY <2>2, <3>1, LoseRefines DEF Lifecycle!Next
    <3>2. CASE \E p \in Clients : MutateState(p)
      BY <2>2, <3>2, MutationRefines
    <3>3. CASE AppendCommit
      BY <2>2, <3>3, CaptureRefines DEF Lifecycle!Next
    <3>4. CASE PublishTerminal
      <4>1. TerminalStatuses = Lifecycle!TerminalStatuses
        BY DEF Lifecycle!TerminalStatuses, Lifecycle!ExitStatuses, TerminalStatuses, ExitStatuses
      <4>. QED
        BY <2>2, <3>4, <4>1, FinishRefines DEF Lifecycle!Next
    <3>. QED
      BY <2>2, <3>1, <3>2, <3>3, <3>4, RecordWriters DEF DirectoryInv
  <2>. QED
    BY <2>1, <2>2, QuietRefines
<1>. QED
  BY <1>1, <1>2, DirectoryInductive, PTL DEF Spec, ImplementsLifecycle, Lifecycle!Spec
=============================================================================
