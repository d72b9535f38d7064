--------------------------- MODULE JobStoreProofs ---------------------------
(***************************************************************************)
(* Proofs about JobStore for every number of clients and sessions, every    *)
(* output limit and every mix of commands, timeouts and crashes.            *)
(***************************************************************************)
EXTENDS JobStore, TLAPS

USE DEF Procs

Views == [status : Statuses, captured : 0..Limit, cursor : NoEntry..Limit]

-----------------------------------------------------------------------------
\* Typed building blocks.

LEMMA LimitTyped == Limit \in Nat /\ Limit > 0 /\ NoEntry \in Int /\ NoEntry < 0
  BY OutputAssumption DEF NoEntry

LEMMA BlankTyped == Blank \in Locals /\ BlankView \in Views
  BY LimitTyped, InodesAssumption
     DEF Blank, BlankView, Locals, Views, Commands, Statuses, Running, NoEntry

LEMMA InitialTyped == InitialJobState \in JobStates
  BY LimitTyped DEF InitialJobState, JobStates, Statuses, Running, NoEntry

\* A client that moves on with well-typed locals keeps both functions typed.
LEMMA BecomeTyped ==
  ASSUME TypeOK, NEW p \in Clients, NEW to \in ClientPCs, NEW l \in Locals, Become(p, to, l)
  PROVE  pc' \in [Clients -> ClientPCs] /\ loc' \in [Clients -> Locals]
  BY DEF TypeOK, Become, Goto

LEMMA GotoTyped ==
  ASSUME TypeOK, NEW p \in Clients, NEW to \in ClientPCs, Goto(p, to)
  PROVE  pc' \in [Clients -> ClientPCs]
  BY DEF TypeOK, Goto

LEMMA DropTyped ==
  ASSUME TypeOK, NEW p, DropAll(p)
  PROVE  /\ stateLock' \in Procs \cup {NoOne} /\ runnerLock' \in Procs \cup {NoOne}
         /\ recLock' \in [Inodes -> Procs \cup {NoOne}]
  BY DEF TypeOK, DropAll, DropRecovery, Dropped

\* A command that returns, fails or is killed.
LEMMA EndsTyped ==
  ASSUME TypeOK, NEW p \in Clients, Ends(p)
  PROVE  /\ pc' \in [Clients -> ClientPCs] /\ loc' \in [Clients -> Locals]
         /\ job' \in [Clients -> JobStates]
         /\ stateLock' \in Procs \cup {NoOne} /\ runnerLock' \in Procs \cup {NoOne}
         /\ recLock' \in [Inodes -> Procs \cup {NoOne}]
<1>1. "idle" \in ClientPCs
  BY DEF ClientPCs
<1>2. Become(p, "idle", Blank) /\ DropAll(p) /\ job' = [job EXCEPT ![p] = InitialJobState]
  BY DEF Ends
<1>. QED
  BY <1>1, <1>2, BlankTyped, InitialTyped, BecomeTyped, DropTyped DEF TypeOK

LEMMA FailsTyped ==
  ASSUME TypeOK, NEW p \in Clients, Fails(p)
  PROVE  TypeOK'
<1>1. Ends(p) /\ UNCHANGED <<disk, runner, history>>
  BY DEF Fails
<1>. QED
  BY <1>1, EndsTyped DEF TypeOK, disk, runner, history

LEMMA ObservedTyped ==
  ASSUME TypeOK, NEW p \in Clients, NEW view \in Views, Observed(p, view)
  PROVE  pc' \in [Clients -> ClientPCs] /\ loc' \in [Clients -> Locals]
<1>1. PICK to \in {"idle", "snap", "out"}, l \in Locals : Become(p, to, l)
  <2>1. loc[p] \in Locals
    BY DEF TypeOK
  <2>2. CASE loc[p].op = "status" /\ Become(p, "idle", Blank)
    BY <2>2, BlankTyped
  <2>3. CASE \E c \in Int : view.captured < c /\ Become(p, "idle", Blank)
    BY <2>3, BlankTyped
  <2>4. CASE \E c \in Int, s \in {"look", "read"} :
               Become(p, "snap", [Blank EXCEPT !.op = "wait", !.stage = s, !.start = c])
    <3>1. PICK c \in Int, s \in {"look", "read"} :
               Become(p, "snap", [Blank EXCEPT !.op = "wait", !.stage = s, !.start = c])
      BY <2>4
    <3>2. [Blank EXCEPT !.op = "wait", !.stage = s, !.start = c] \in Locals
      BY BlankTyped DEF Locals, Commands
    <3>. QED BY <3>1, <3>2
  <2>5. CASE Become(p, "out", [loc[p] EXCEPT !.view = view, !.caller = "none", !.marked = FALSE])
    <3>1. [loc[p] EXCEPT !.view = view, !.caller = "none", !.marked = FALSE] \in Locals
      BY <2>1 DEF Locals, Views
    <3>. QED BY <2>5, <3>1
  <2>. QED
    <3>1. view.cursor \in Int /\ view.captured \in Int
      BY LimitTyped DEF Views
    <3>2. loc[p].start \in Int /\ Explicit \subseteq Int /\ ResolveWaitCursor(view.cursor) \in Int
      BY <2>1, <3>1, OutputAssumption DEF Locals, ResolveWaitCursor
    <3>. QED
      BY <2>2, <2>3, <2>4, <2>5, <3>1, <3>2 DEF Observed
<1>2. to \in ClientPCs
  BY DEF ClientPCs
<1>. QED
  BY <1>1, <1>2, BecomeTyped

LEMMA ViewTyped ==
  ASSUME TypeOK, NEW p \in Clients
  PROVE  ViewFor(p) \in Views
  BY LimitTyped, SessionAssumption DEF ViewFor, Views, TypeOK, JobStates, Me

LEMMA ReconciledTyped ==
  ASSUME TypeOK, NEW p \in Clients, NEW active \in BOOLEAN, Reconciled(p, active)
  PROVE  pc' \in [Clients -> ClientPCs] /\ loc' \in [Clients -> Locals]
<1> DEFINE me == [loc[p] EXCEPT !.caller = "none", !.seen = Running, !.marked = FALSE]
<1>1. loc[p] \in Locals
  BY DEF TypeOK
<1>2. me \in Locals /\ [me EXCEPT !.stage = "mutate"] \in Locals /\ me.view \in Views
  BY <1>1 DEF Locals, Views, Statuses
<1>3. {"wti", "final", "idle", "rm_open"} \subseteq ClientPCs
  BY DEF ClientPCs
<1>4. CASE Observed(p, me.view)
  BY <1>2, <1>4, ObservedTyped
<1>5. CASE \E to \in {"wti", "final", "rm_open"} : Become(p, to, me)
  BY <1>2, <1>3, <1>5, BecomeTyped
<1>6. CASE Become(p, "wti", [me EXCEPT !.stage = "mutate"])
  BY <1>2, <1>3, <1>6, BecomeTyped
<1>7. CASE Become(p, "idle", Blank)
  BY <1>3, <1>7, BlankTyped, BecomeTyped
<1>. QED
  BY <1>4, <1>5, <1>6, <1>7 DEF Reconciled

LEMMA DropRecoveryTyped ==
  ASSUME TypeOK, NEW p, DropRecovery(p)
  PROVE  recLock' \in [Inodes -> Procs \cup {NoOne}]
  BY DEF TypeOK, DropRecovery, Dropped

LEMMA OpensRecoveryTyped ==
  ASSUME TypeOK, NEW i \in Inodes, OpensRecoveryLock(i)
  PROVE  /\ files' \subseteq FileNames /\ recInode' \in Inodes
         /\ UNCHANGED <<dirExists, st, logSize>>
  BY DEF TypeOK, OpensRecoveryLock, disk, FileNames

\* The record is replaced: by a typed record, the directory and the history
\* of the properties stay typed.
LEMMA WriteStateTyped ==
  ASSUME TypeOK, NEW new \in JobStates, WriteState(new)
  PROVE  /\ files' \subseteq FileNames /\ st' \in JobStates /\ bypass' \in Nat
         /\ UNCHANGED <<dirExists, logSize, recInode, covered>>
  BY DEF TypeOK, WriteState, FileNames

LEMMA StatusesTyped ==
  /\ Running \in Statuses /\ "runner_lost" \in Statuses
  /\ \A cause_ \in Causes, exit \in Exits : ProcessStatus(cause_, exit) \in Statuses
  BY ExitsAssumption
     DEF Statuses, TerminalStatuses, ExitStatuses, Causes, ProcessStatus

LEMMA CommitWaitTyped ==
  ASSUME NEW j \in JobStates, NEW s \in Sessions, NEW next \in 0..Limit
  PROVE  CommitWait(j, s, next) \in JobStates
  BY LimitTyped DEF CommitWait, JobStates

LEMMA CancelLockedTyped ==
  ASSUME NEW j \in JobStates
  PROVE  CancelLocked(j) \in JobStates
  BY DEF CancelLocked, JobStates

-----------------------------------------------------------------------------
\* Types.

\* Steps of a client that only move it: its program counter and its locals.
LEMMA MovesTyped ==
  ASSUME TypeOK, UNCHANGED <<disk, locks, runner, history, job>>,
         pc' \in [Clients -> ClientPCs], loc' \in [Clients -> Locals]
  PROVE  TypeOK'
  BY DEF TypeOK, disk, locks, runner, history

LEMMA ObservingTyped ==
  ASSUME TypeOK, NEW p \in Clients,
         \/ \E o \in Commands : Start(p, o)
         \/ Snapshot(p) \/ AwaitIntent(p) \/ Resnapshot(p) \/ ReadLog(p) \/ Respond(p)
         \/ DeadlineSnapshot(p)
  PROVE  TypeOK'
<1>1. loc[p] \in Locals /\ ViewFor(p) \in Views
  BY ViewTyped DEF TypeOK
<1>2. {"snap", "wti", "rc_open", "rm_popen", "rm_open", "m_open", "resnap", "respond",
       "out"} \subseteq ClientPCs
  BY DEF ClientPCs
<1>3. ASSUME NEW o \in Commands, Start(p, o) PROVE TypeOK'
  <2>1. [Blank EXCEPT !.op = o] \in Locals
    BY BlankTyped DEF Locals
  <2>. QED
    BY <1>2, <1>3, <2>1, BecomeTyped, MovesTyped DEF Start
<1>4. CASE Snapshot(p)
  <2>1. [loc[p] EXCEPT !.caller = "cancel"] \in Locals
        /\ [loc[p] EXCEPT !.stage = "mutate"] \in Locals
    BY <1>1 DEF Locals
  <2>2. CASE Fails(p)
    BY <2>2, FailsTyped
  <2>3. CASE UNCHANGED <<disk, locks, runner, history, job>>
    <3>1. CASE Goto(p, "wti") /\ UNCHANGED loc
      BY <1>2, <2>3, <3>1, GotoTyped, MovesTyped DEF TypeOK
    <3>2. CASE Observed(p, ViewFor(p))
      BY <1>1, <2>3, <3>2, ObservedTyped, MovesTyped
    <3>3. CASE \/ Become(p, "rc_open", [loc[p] EXCEPT !.caller = "cancel"])
               \/ Become(p, "wti", [loc[p] EXCEPT !.stage = "mutate"])
      BY <1>2, <2>1, <2>3, <3>3, BecomeTyped, MovesTyped
    <3>4. CASE (Goto(p, "rm_popen") \/ Goto(p, "rm_open")) /\ UNCHANGED loc
      BY <1>2, <2>3, <3>4, GotoTyped, MovesTyped DEF TypeOK
    <3>. QED
      BY <1>4, <2>3, <3>1, <3>2, <3>3, <3>4, FailsTyped DEF Snapshot
  <2>. QED
    BY <1>4, <2>2, <2>3 DEF Snapshot
<1>5. CASE AwaitIntent(p)
  <2>1. [loc[p] EXCEPT !.caller = "wti"] \in Locals
    BY <1>1 DEF Locals
  <2>2. CASE Fails(p)
    BY <2>2, FailsTyped
  <2>3. CASE UNCHANGED <<disk, locks, runner, history, job>>
             /\ Become(p, "rc_open", [loc[p] EXCEPT !.caller = "wti"])
    BY <1>2, <2>1, <2>3, BecomeTyped, MovesTyped
  <2>4. CASE /\ UNCHANGED <<disk, locks, runner, history, job>> /\ UNCHANGED loc
             /\ \E to \in {"m_open", "resnap"} : Goto(p, to)
    BY <1>2, <2>4, GotoTyped, MovesTyped DEF TypeOK
  <2>. QED
    BY <1>5, <2>2, <2>3, <2>4 DEF AwaitIntent
<1>6. CASE Resnapshot(p)
  <2>1. [loc[p] EXCEPT !.view = ViewFor(p), !.caller = "observe"] \in Locals
    BY <1>1 DEF Locals, Views
  <2>2. CASE Fails(p)
    BY <2>2, FailsTyped
  <2>3. CASE UNCHANGED <<disk, locks, runner, history, job>> /\ Observed(p, ViewFor(p))
    BY <1>1, <2>3, ObservedTyped, MovesTyped
  <2>4. CASE /\ UNCHANGED <<disk, locks, runner, history, job>>
             /\ Become(p, "rc_open", [loc[p] EXCEPT !.view = ViewFor(p), !.caller = "observe"])
    BY <1>2, <2>1, <2>4, BecomeTyped, MovesTyped
  <2>. QED
    BY <1>6, <2>2, <2>3, <2>4 DEF Resnapshot
<1>7. CASE ReadLog(p)
  <2>1. [Blank EXCEPT !.op = "wait", !.start = loc[p].start] \in Locals
    BY <1>1, BlankTyped DEF Locals, Commands
  <2>2. CASE Fails(p)
    BY <2>2, FailsTyped
  <2>3. CASE UNCHANGED <<disk, locks, runner, history, job>> /\ Goto(p, "respond") /\ UNCHANGED loc
    BY <1>2, <2>3, GotoTyped, MovesTyped DEF TypeOK
  <2>4. CASE /\ UNCHANGED <<disk, locks, runner, history, job>>
             /\ Become(p, "snap", [Blank EXCEPT !.op = "wait", !.start = loc[p].start])
    BY <1>2, <2>1, <2>4, BecomeTyped, MovesTyped
  <2>. QED
    BY <1>7, <2>2, <2>3, <2>4 DEF ReadLog
<1>8. CASE Respond(p)
  <2>1. CASE Fails(p)
    BY <2>1, FailsTyped
  <2>2. CASE Committing(p) /\ Delivered(p)
    <3>1. [loc[p] EXCEPT !.stage = "mutate"] \in Locals /\ loc[p].view.captured \in 0..Limit
      BY <1>1 DEF Locals
    <3>2. pc' \in [Clients -> ClientPCs] /\ loc' \in [Clients -> Locals]
      BY <1>2, <2>2, <3>1, BecomeTyped DEF Committing
    <3>3. covered' \in [Sessions -> 0..Limit]
      BY <2>2, <3>1, SessionAssumption DEF Delivered, TypeOK, Me
    <3>. QED
      BY <2>2, <3>2, <3>3 DEF Committing, TypeOK, disk, locks, runner
  <2>. QED
    BY <1>8, <2>1, <2>2 DEF Respond
<1>9. CASE DeadlineSnapshot(p)
  <2>1. CASE Fails(p)
    BY <2>1, FailsTyped
  <2>2. CASE /\ UNCHANGED <<disk, locks, runner, history, job>>
             /\ \E c \in Int : Become(p, "out", [loc[p] EXCEPT !.view = ViewFor(p), !.start = c])
    <3>1. PICK c \in Int : Become(p, "out", [loc[p] EXCEPT !.view = ViewFor(p), !.start = c])
      BY <2>2
    <3>2. [loc[p] EXCEPT !.view = ViewFor(p), !.start = c] \in Locals
      BY <1>1 DEF Locals, Views
    <3>. QED
      BY <1>2, <2>2, <3>1, <3>2, BecomeTyped, MovesTyped
  <2>. QED
    <3>1. st.cursor[Me(p)] \in Int
      BY LimitTyped, SessionAssumption DEF TypeOK, JobStates, Me
    <3>2. loc[p].start \in Int /\ Explicit \subseteq Int /\ ResolveWaitCursor(st.cursor[Me(p)]) \in Int
      BY <1>1, <3>1, OutputAssumption DEF Locals, ResolveWaitCursor
    <3>. QED
      BY <1>9, <2>1, <2>2, <3>2 DEF DeadlineSnapshot
<1>. QED
  BY <1>3, <1>4, <1>5, <1>6, <1>7, <1>8, <1>9

LEMMA ReconcilingTyped ==
  ASSUME TypeOK, NEW p \in Clients,
         \/ OpenRecovery(p) \/ LockRecovery(p) \/ InspectIntent(p) \/ OpenLockFile(p)
         \/ LeaseBusy(p) \/ TakeLease(p) \/ DropStaleIntent(p) \/ MarkIntent(p)
         \/ ReleaseLease(p)
  PROVE  TypeOK'
<1>1. loc[p] \in Locals
  BY DEF TypeOK
<1>2. {"rc_lock", "rc_intent", "rc_ropen", "ca_open", "rc_drop", "rc_sopen", "rc_mark",
       "rc_release"} \subseteq ClientPCs
  BY DEF ClientPCs
<1>3. CASE OpenRecovery(p)
  <2>1. CASE Fails(p)
    BY <2>1, FailsTyped
  <2>2. CASE /\ \E i \in Inodes : /\ OpensRecoveryLock(i)
                                  /\ Become(p, "rc_lock", [loc[p] EXCEPT !.fd = i])
             /\ UNCHANGED <<locks, runner, history, job>>
    <3>1. PICK i \in Inodes : /\ OpensRecoveryLock(i)
                              /\ Become(p, "rc_lock", [loc[p] EXCEPT !.fd = i])
      BY <2>2
    <3>2. [loc[p] EXCEPT !.fd = i] \in Locals
      BY <1>1 DEF Locals
    <3>. QED
      BY <1>2, <2>2, <3>1, <3>2, BecomeTyped, OpensRecoveryTyped
         DEF TypeOK, locks, runner, history
  <2>. QED
    BY <1>3, <2>1, <2>2 DEF OpenRecovery
<1>4. CASE LockRecovery(p)
  <2>1. CASE Fails(p)
    BY <2>1, FailsTyped
  <2>2. CASE ~Fails(p)
    <3>1. [loc[p] EXCEPT !.seen = st.status] \in Locals
      BY <1>1 DEF Locals, TypeOK, JobStates
    <3>2. pc' \in [Clients -> ClientPCs] /\ loc' \in [Clients -> Locals]
      BY <1>2, <1>4, <2>2, <3>1, BecomeTyped DEF LockRecovery
    <3>. QED
      BY <1>4, <2>2, <3>2 DEF LockRecovery, TypeOK, disk, runner, history
  <2>. QED
    BY <2>1, <2>2
<1>5. CASE InspectIntent(p)
  <2>1. CASE Reconciled(p, FALSE) /\ DropRecovery(p)
    BY <1>5, <2>1, ReconciledTyped, DropRecoveryTyped
       DEF InspectIntent, TypeOK, disk, runner, history
  <2>2. CASE Become(p, "rc_ropen", [loc[p] EXCEPT !.marked = Pending]) /\ UNCHANGED recLock
    <3> DEFINE marked(b) == [loc[p] EXCEPT !.marked = b]
    <3>0. \A b \in BOOLEAN : marked(b) \in Locals
      BY <1>1 DEF Locals
    <3>1. marked(Pending) \in Locals
      <4>1. Pending \in BOOLEAN
        BY SMT DEF Pending, Present
      <4>. HIDE DEF marked
      <4>. QED
        BY <3>0, <4>1, Zenon
    <3>. QED
      BY <1>2, <1>5, <2>2, <3>1, BecomeTyped DEF InspectIntent, TypeOK, disk, runner, history
  <2>. QED
    BY <1>5, <2>1, <2>2 DEF InspectIntent
<1>6. CASE OpenLockFile(p)
  <2>1. AfterOpen(pc[p]) \in ClientPCs
    BY <1>6 DEF OpenLockFile, Opens, AfterOpen, ClientPCs
  <2>. QED
    BY <1>6, <2>1, FailsTyped, GotoTyped, MovesTyped DEF OpenLockFile, TypeOK
<1>7. CASE LeaseBusy(p)
  <2>1. CASE Goto(p, "ca_open") /\ UNCHANGED <<loc, recLock>>
    BY <1>2, <1>7, <2>1, GotoTyped DEF LeaseBusy, TypeOK, disk, runner, history
  <2>2. CASE Reconciled(p, TRUE) /\ DropRecovery(p)
    BY <1>7, <2>2, ReconciledTyped, DropRecoveryTyped
       DEF LeaseBusy, TypeOK, disk, runner, history
  <2>. QED
    BY <1>7, <2>1, <2>2 DEF LeaseBusy
<1>8. CASE TakeLease(p)
  <2>1. \E to \in {"rc_drop", "rc_sopen", "rc_mark"} : Goto(p, to)
    BY <1>8 DEF TakeLease
  <2>2. pc' \in [Clients -> ClientPCs]
    BY <1>2, <2>1, GotoTyped
  <2>. QED
    BY <1>8, <2>2 DEF TakeLease, TypeOK, disk, runner, history
<1>9. CASE DropStaleIntent(p)
  BY <1>2, <1>9, GotoTyped DEF DropStaleIntent, TypeOK, locks, runner
<1>10. CASE MarkIntent(p)
  <2>1. CASE Fails(p)
    BY <2>1, FailsTyped
  <2>2. CASE ~Fails(p)
    <3>1. pc' \in [Clients -> ClientPCs]
      BY <1>2, <1>10, <2>2, GotoTyped DEF MarkIntent
    <3>2. /\ files' = files \cup {"terminal.pending"} /\ bypass' = 0
          /\ UNCHANGED <<dirExists, st, logSize, recInode, locks, runner, covered, job, loc>>
      BY <1>10, <2>2, Zenon DEF MarkIntent
    <3>. QED
      BY <3>1, <3>2 DEF TypeOK, locks, runner, FileNames
  <2>. QED
    BY <2>1, <2>2
<1>11. CASE ReleaseLease(p)
  BY <1>11, ReconciledTyped, DropRecoveryTyped DEF ReleaseLease, TypeOK, disk, runner, history
<1>. QED
  BY <1>3, <1>4, <1>5, <1>6, <1>7, <1>8, <1>9, <1>10, <1>11

LEMMA MutatingTyped ==
  ASSUME TypeOK, NEW p \in Clients,
         \/ LockState(p) \/ PublishLost(p) \/ ClearIntent(p) \/ TimeOut(p)
         \/ WaitDeadline(p) \/ RecheckIntent(p) \/ MutateState(p)
  PROVE  TypeOK'
<1>1. loc[p] \in Locals /\ job[p] \in JobStates
  BY DEF TypeOK
<1>2. {"rc_clear", "rc_release", "deadline", "wti", "m_write"} \subseteq ClientPCs
  BY DEF ClientPCs
<1>3. CASE LockState(p)
  <2>1. AfterLock(pc[p]) \in ClientPCs
    BY <1>3 DEF LockState, LockWaits, AfterLock, ClientPCs
  <2>2. CASE Fails(p)
    BY <2>2, FailsTyped
  <2>3. CASE ~Fails(p)
    <3>1. pc' \in [Clients -> ClientPCs]
      BY <1>3, <2>1, <2>3, GotoTyped DEF LockState
    <3>. QED
      BY <1>3, <2>3, <3>1 DEF LockState, TypeOK, disk, runner, history
  <2>. QED
    BY <2>2, <2>3
<1>4. CASE PublishLost(p)
  <2>1. Lost(job[p]) \in JobStates
    BY <1>1, StatusesTyped DEF Lost, JobStates
  <2>2. pc' \in [Clients -> ClientPCs]
    BY <1>2, <1>4, GotoTyped DEF PublishLost
  <2>3. job' \in [Clients -> JobStates]
    BY <1>4, <2>1 DEF PublishLost, TypeOK
  <2>4. CASE WriteState(Lost(job[p]))
    BY <1>4, <2>1, <2>2, <2>3, <2>4, WriteStateTyped DEF PublishLost, TypeOK, locks, runner
  <2>5. CASE UNCHANGED <<disk, history>>
    BY <1>4, <2>2, <2>3, <2>5 DEF PublishLost, TypeOK, locks, runner, disk, history
  <2>. QED
    BY <1>4, <2>4, <2>5 DEF PublishLost
<1>5. CASE ClearIntent(p)
  <2>1. pc' \in [Clients -> ClientPCs]
    BY <1>2, <1>5, GotoTyped DEF ClearIntent
  <2>. QED
    BY <1>5, <2>1, InitialTyped DEF ClearIntent, TypeOK, runner
<1>6. CASE TimeOut(p)
  BY <1>6, FailsTyped DEF TimeOut
<1>7. CASE WaitDeadline(p)
  <2>1. [Blank EXCEPT !.op = "wait", !.stage = "last", !.start = loc[p].start] \in Locals
    BY <1>1, BlankTyped DEF Locals, Commands
  <2>2. pc' \in [Clients -> ClientPCs] /\ loc' \in [Clients -> Locals]
    BY <1>2, <1>7, <2>1, BecomeTyped DEF WaitDeadline
  <2>. QED
    BY <1>7, <2>2, DropTyped DEF WaitDeadline, TypeOK, disk, runner, history
<1>8. CASE RecheckIntent(p)
  <2>1. \E to \in {"wti", "m_write"} : Goto(p, to)
    BY <1>8 DEF RecheckIntent
  <2>2. pc' \in [Clients -> ClientPCs]
    BY <1>2, <2>1, GotoTyped
  <2>. QED
    BY <1>8, <2>2, InitialTyped DEF RecheckIntent, TypeOK, disk, runner, history
<1>9. CASE MutateState(p)
  <2> DEFINE new == IF loc[p].op = "wait"
                    THEN CommitWait(job[p], Me(p), loc[p].view.captured)
                    ELSE CancelLocked(job[p])
  <2>1. new \in JobStates
    BY <1>1, CommitWaitTyped, CancelLockedTyped, SessionAssumption DEF Locals, Me
  <2>2. Ends(p) /\ UNCHANGED runner
    BY <1>9 DEF MutateState
  <2>3. CASE WriteState(new)
    BY <2>1, <2>2, <2>3, EndsTyped, WriteStateTyped DEF TypeOK, runner
  <2>4. CASE UNCHANGED <<disk, history>>
    BY <2>2, <2>4, EndsTyped DEF TypeOK, runner, disk, history
  <2>. QED
    BY <1>9, <2>3, <2>4 DEF MutateState
<1>. QED
  BY <1>3, <1>4, <1>5, <1>6, <1>7, <1>8, <1>9

LEMMA RemovingTyped ==
  ASSUME TypeOK, NEW p \in Clients,
         \/ ProbeLease(p) \/ Unprobe(p) \/ LeaseForRemoval(p) \/ ListDirectory(p)
         \/ Unlink(p) \/ RemoveDirectory(p) \/ Crash(p)
  PROVE  TypeOK'
<1>1. loc[p] \in Locals
  BY DEF TypeOK
<1>2. {"rm_unprobe", "rc_open", "rm_sopen", "rm_unlink", "rm_rmdir"} \subseteq ClientPCs
  BY DEF ClientPCs
<1>3. CASE ProbeLease(p)
  BY <1>2, <1>3, FailsTyped, GotoTyped DEF ProbeLease, TypeOK, disk, runner, history
<1>4. CASE Unprobe(p)
  <2>1. [loc[p] EXCEPT !.caller = "remove"] \in Locals
    BY <1>1 DEF Locals
  <2>. QED
    BY <1>2, <1>4, <2>1, BecomeTyped DEF Unprobe, TypeOK, disk, runner, history
<1>5. CASE LeaseForRemoval(p)
  BY <1>2, <1>5, FailsTyped, GotoTyped DEF LeaseForRemoval, TypeOK, disk, runner, history
<1>6. CASE ListDirectory(p)
  <2>1. [loc[p] EXCEPT !.todo = files] \in Locals
    BY <1>1 DEF Locals, TypeOK
  <2>. QED
    BY <1>2, <1>6, <2>1, FailsTyped, BecomeTyped, MovesTyped DEF ListDirectory
<1>7. CASE Unlink(p)
  <2>1. CASE /\ Become(p, "rm_rmdir", [loc[p] EXCEPT !.view = BlankView])
             /\ job' = [job EXCEPT ![p] = InitialJobState]
             /\ DropAll(p)
             /\ UNCHANGED <<disk, runner, history>>
    <3>1. [loc[p] EXCEPT !.view = BlankView] \in Locals
      BY <1>1, BlankTyped DEF Locals, Views
    <3>. QED
      BY <1>2, <2>1, <3>1, BecomeTyped, DropTyped, InitialTyped
         DEF TypeOK, disk, runner, history
  <2>2. CASE Fails(p)
    BY <2>2, FailsTyped
  <2>3. ASSUME NEW f \in loc[p].todo,
               files' = files \ {f},
               bypass' = (IF f = "terminal.pending" THEN 0 ELSE bypass),
               Become(p, "rm_unlink", [loc[p] EXCEPT !.todo = @ \ {f}]),
               UNCHANGED <<dirExists, st, logSize, recInode, locks, runner, covered, job>>
        PROVE  TypeOK'
    <3>1. [loc[p] EXCEPT !.todo = @ \ {f}] \in Locals
      BY <1>1 DEF Locals
    <3>2. pc' \in [Clients -> ClientPCs] /\ loc' \in [Clients -> Locals]
      BY <1>2, <2>3, <3>1, BecomeTyped
    <3>. QED
      BY <2>3, <3>2 DEF TypeOK, locks, runner
  <2>. QED
    BY <1>7, <2>1, <2>2, <2>3 DEF Unlink
<1>8. CASE RemoveDirectory(p)
  BY <1>8, EndsTyped DEF RemoveDirectory, TypeOK, runner, history
<1>9. CASE Crash(p)
  BY <1>9, FailsTyped DEF Crash
<1>. QED
  BY <1>3, <1>4, <1>5, <1>6, <1>7, <1>8, <1>9

LEMMA RunnerEndsTyped ==
  ASSUME TypeOK, RunnerEnds
  PROVE  /\ rpc' \in RunnerPCs /\ rjob' \in JobStates /\ rfd' \in Inodes
         /\ stateLock' \in Procs \cup {NoOne} /\ runnerLock' \in Procs \cup {NoOne}
         /\ recLock' \in [Inodes -> Procs \cup {NoOne}]
  BY DropTyped, InitialTyped, InodesAssumption DEF RunnerEnds, RunnerGoto, RunnerPCs

\* An accepted chunk never takes the record past the limit.
LEMMA AcceptedTyped ==
  ASSUME NEW captured \in 0..Limit, NEW n \in Chunks
  PROVE  /\ captured + AcceptedBytes(captured, n, Limit) \in 0..Limit
         /\ captured <= captured + AcceptedBytes(captured, n, Limit)
  BY LimitTyped, OutputAssumption DEF AcceptedBytes

LEMMA RunnerTyped ==
  ASSUME TypeOK, RunnerStep \/ AppendTimeOut \/ RunnerCrash
  PROVE  TypeOK'
<1>1. {"ap_wait", "ap_lock", "ap_check", "ap_write", "run", "pub_open", "pub_rec", "pub_mark",
       "pub_slock", "pub_write", "pub_clear", "pub_release", "dead"} \subseteq RunnerPCs
      /\ {"cancelled", "hard_timeout", "output_limit"} \subseteq Causes
  BY DEF RunnerPCs, Causes
<1>2. CASE AppendBegin \/ AppendAwaitIntent \/ Supervised
  BY <1>1, <1>2
     DEF AppendBegin, AppendAwaitIntent, Supervised, RunnerGoto, TypeOK, disk, locks, client, history
<1>3. CASE AppendLock
  BY <1>1, <1>3 DEF AppendLock, RunnerGoto, TypeOK, disk, client, history
<1>4. CASE AppendOutput
  <2>1. CASE RunnerEnds /\ UNCHANGED <<files, dirExists, st, logSize, recInode, cause, client, history>>
    BY <2>1, RunnerEndsTyped DEF TypeOK, client, history
  <2>2. CASE /\ stateLock' = NoOne /\ rjob' = InitialJobState /\ rpc' = "ap_wait"
             /\ UNCHANGED <<files, dirExists, st, logSize, recInode, runnerLock, recLock, rfd,
                            cause, client, history>>
    BY <1>1, <2>2, InitialTyped DEF TypeOK, client, history
  <2>3. ASSUME NEW n \in Chunks,
               LET end == rjob.captured + AcceptedBytes(rjob.captured, n, Limit)
               IN  /\ logSize' = GrownLog(logSize, end)
                   /\ rjob' = [rjob EXCEPT !.captured = end],
               rpc' = "ap_write",
               UNCHANGED <<files, dirExists, st, recInode, locks, rfd, cause, client, history>>
        PROVE  TypeOK'
    <3>1. rjob.captured + AcceptedBytes(rjob.captured, n, Limit) \in 0..Limit
      BY AcceptedTyped DEF TypeOK, JobStates
    <3>2. logSize' \in 0..Limit
      BY <2>3, <3>1 DEF GrownLog, TypeOK
    <3>3. rjob' \in JobStates
      BY <2>3, <3>1 DEF TypeOK, JobStates
    <3>. QED
      BY <1>1, <2>3, <3>2, <3>3 DEF TypeOK, locks, client, history
  <2>. QED
    BY <1>4, <2>1, <2>2, <2>3 DEF AppendOutput, RunnerGoto
<1>5. CASE AppendCommit
  <2>1. /\ stateLock' = NoOne /\ rjob' = InitialJobState /\ rpc' = "run"
        /\ UNCHANGED <<runnerLock, recLock, rfd, client>> /\ cause' \in Causes
    BY <1>1, <1>5 DEF AppendCommit, RunnerGoto, TypeOK
  <2>2. CASE WriteState(rjob)
    BY <1>1, <2>1, <2>2, WriteStateTyped, InitialTyped DEF TypeOK, client
  <2>3. CASE UNCHANGED <<disk, history>>
    BY <1>1, <2>1, <2>3, InitialTyped DEF TypeOK, client, disk, history
  <2>. QED
    BY <1>5, <2>2, <2>3 DEF AppendCommit
<1>6. CASE Poll \/ HardTimeout
  BY <1>1, <1>6 DEF Poll, HardTimeout, TypeOK, disk, locks, client, history
<1>7. CASE PublishOpen
  <2>1. PICK i \in Inodes : OpensRecoveryLock(i) /\ rfd' = i
    BY <1>7 DEF PublishOpen
  <2>. QED
    BY <1>1, <1>7, <2>1, OpensRecoveryTyped
       DEF PublishOpen, RunnerGoto, TypeOK, locks, client, history
<1>8. CASE PublishLockRecovery
  BY <1>1, <1>8 DEF PublishLockRecovery, RunnerGoto, TypeOK, disk, client, history
<1>9. CASE PublishMark
  <2>1. CASE RunnerEnds /\ UNCHANGED <<disk, history, cause, client>>
    BY <2>1, RunnerEndsTyped DEF TypeOK, disk, client, history
  <2>2. CASE /\ files' = files \cup {"terminal.pending"} /\ bypass' = 0 /\ rpc' = "pub_slock"
             /\ UNCHANGED <<dirExists, st, logSize, recInode, locks, rjob, rfd, covered, cause, client>>
    BY <1>1, <2>2 DEF TypeOK, FileNames, locks, client
  <2>. QED
    BY <1>9, <2>1, <2>2 DEF PublishMark, RunnerGoto
<1>10. CASE PublishLockState
  BY <1>1, <1>10 DEF PublishLockState, RunnerGoto, TypeOK, disk, client, history
<1>11. CASE PublishTerminal
  <2>1. rpc' = "pub_clear" /\ UNCHANGED <<locks, cause, rfd, client>>
    BY <1>11 DEF PublishTerminal, RunnerGoto
  <2>2. CASE UNCHANGED <<disk, history, rjob>>
    BY <1>1, <2>1, <2>2 DEF TypeOK, disk, locks, client, history
  <2>3. ASSUME NEW exit \in Exits,
               WriteState([rjob EXCEPT !.status = PublishedStatus(rjob, exit)]),
               rjob' = [rjob EXCEPT !.status = PublishedStatus(rjob, exit)]
        PROVE  TypeOK'
    <3>1. PublishedStatus(rjob, exit) \in Statuses
      BY <1>1, StatusesTyped DEF PublishedStatus, TypeOK
    <3>2. [rjob EXCEPT !.status = PublishedStatus(rjob, exit)] \in JobStates
      BY <3>1 DEF TypeOK, JobStates
    <3>. QED
      BY <1>1, <2>1, <2>3, <3>2, WriteStateTyped DEF TypeOK, locks, client
  <2>. QED
    BY <1>11, <2>2, <2>3 DEF PublishTerminal
<1>12. CASE PublishClear
  BY <1>1, <1>12, DropRecoveryTyped, InitialTyped
     DEF PublishClear, RunnerGoto, TypeOK, client
<1>13. CASE PublishRelease \/ AppendTimeOut \/ RunnerCrash
  BY <1>13, RunnerEndsTyped
     DEF PublishRelease, AppendTimeOut, RunnerCrash, TypeOK, disk, client, history
<1>. QED
  BY <1>2, <1>3, <1>4, <1>5, <1>6, <1>7, <1>8, <1>9, <1>10, <1>11, <1>12, <1>13
     DEF RunnerStep, RunnerPublishes

LEMMA InitTyped == Init => TypeOK
  BY LimitTyped, BlankTyped, InitialTyped, InodesAssumption
     DEF Init, TypeOK, FileNames, RunnerPCs, ClientPCs, Causes

LEMMA NextTyped == TypeOK /\ [Next]_vars => TypeOK'
<1> SUFFICES ASSUME TypeOK, [Next]_vars PROVE TypeOK'
  OBVIOUS
<1>1. ASSUME NEW p \in Clients,
             \/ \E o \in Commands : Start(p, o)
             \/ ClientStep(p) \/ TimeOut(p) \/ WaitDeadline(p) \/ Crash(p)
      PROVE  TypeOK'
  BY <1>1, ObservingTyped, ReconcilingTyped, MutatingTyped, RemovingTyped DEF ClientStep
<1>2. CASE RunnerStep \/ AppendTimeOut \/ RunnerCrash
  BY <1>2, RunnerTyped
<1>3. CASE UNCHANGED vars
  BY <1>3 DEF vars, disk, locks, runner, client, history, TypeOK
<1>. QED
  BY <1>1, <1>2, <1>3 DEF Next

\* Every variable keeps its type in every reachable state, whatever the
\* clients ask for and whoever is killed.
THEOREM TypeCorrect == Spec => []TypeOK
  BY InitTyped, NextTyped, PTL DEF Spec

-----------------------------------------------------------------------------
\* Locks and copies.  Most steps of a client only move it and take or drop
\* flocks: those keep the inductive invariant for one and the same reason.

Copied == HoldsState \ {"rc_clear"}
Free == ClientPCs \ (HoldsState \cup HoldsLease)

\* What p does to a flock when it goes from where it was to where it is now.
LockMove(lock, new, p, was, is) ==
    \/ new = lock /\ (is <=> was)
    \/ is /\ lock = NoOne /\ new = p
    \/ ~is /\ new = Dropped(lock, p)

QuietMove(p, to) ==
    /\ Goto(p, to)
    /\ UNCHANGED <<st, logSize, runner>>
    /\ LockMove(stateLock, stateLock', p, pc[p] \in HoldsState, to \in HoldsState)
    /\ LockMove(runnerLock, runnerLock', p, pc[p] \in HoldsLease, to \in HoldsLease)
    /\ \A q \in Clients \ {p} : job'[q] = job[q]
    /\ to \in Copied => job'[p] = st

LEMMA LocksAfterMove ==
  ASSUME TypeOK, LocksMatchControl, NEW p \in Clients, NEW to \in ClientPCs,
         Goto(p, to), UNCHANGED rpc,
         LockMove(stateLock, stateLock', p, pc[p] \in HoldsState, to \in HoldsState),
         LockMove(runnerLock, runnerLock', p, pc[p] \in HoldsLease, to \in HoldsLease)
  PROVE  LocksMatchControl'
<1>1. pc'[p] = to /\ \A q \in Clients \ {p} : pc'[q] = pc[q]
  BY DEF Goto, TypeOK
<1>2. p # Runner /\ p # NoOne /\ Runner # NoOne /\ \A q \in Clients : q # Runner /\ q # NoOne
  BY ProcsAssumption
<1>3. /\ \A q \in Clients : stateLock' = q <=> pc'[q] \in HoldsState
      /\ stateLock' = Runner <=> rpc' \in RunnerHoldsState
  BY <1>1, <1>2 DEF LockMove, Dropped, LocksMatchControl
<1>4. /\ \A q \in Clients : runnerLock' = q <=> pc'[q] \in HoldsLease
      /\ runnerLock' = Runner <=> rpc' # "dead"
  BY <1>1, <1>2 DEF LockMove, Dropped, LocksMatchControl
<1>. QED
  BY <1>3, <1>4 DEF LocksMatchControl

LEMMA QuietMoveKeeps ==
  ASSUME IInv, TypeOK', NEW p \in Clients, NEW to \in ClientPCs, QuietMove(p, to)
  PROVE  IInv'
<1>1. pc'[p] = to /\ \A q \in Clients \ {p} : pc'[q] = pc[q]
  BY DEF QuietMove, Goto, IInv, TypeOK
<1>2. UNCHANGED <<st, logSize, rpc, rjob, cause>>
  BY DEF QuietMove, runner
<1>3. LocksMatchControl'
  BY <1>2, LocksAfterMove DEF QuietMove, IInv
<1>4. \A q \in Clients : pc'[q] \in Copied => job'[q] = st'
  BY <1>1, <1>2 DEF QuietMove, IInv, CopiesAreCurrent, Copied
<1>5. CopiesAreCurrent'
  BY <1>2, <1>4 DEF IInv, CopiesAreCurrent, Copied
<1>6. RunnerOwnsStatus' /\ CancelHonoured' /\ RunnerLostOnlyIfDead' /\ CountedBytesExist'
  BY <1>2 DEF IInv, RunnerOwnsStatus, CancelHonoured, RunnerLostOnlyIfDead, CountedBytesExist
<1>. QED
  BY <1>3, <1>5, <1>6 DEF IInv

\* A process that holds nothing, afterwards or at all, moves quietly.
LEMMA DropMove ==
  ASSUME IInv, NEW p \in Clients, NEW to \in Free, Goto(p, to), DropAll(p),
         UNCHANGED <<st, logSize, runner>>, \A q \in Clients \ {p} : job'[q] = job[q]
  PROVE  QuietMove(p, to)
  BY DEF QuietMove, LockMove, DropAll, Free, Copied

LEMMA FreeMove ==
  ASSUME IInv, NEW p \in Clients, NEW to \in Free, Goto(p, to), pc[p] \in Free,
         UNCHANGED <<st, logSize, runner, stateLock, runnerLock, job>>
  PROVE  QuietMove(p, to)
  BY DEF QuietMove, LockMove, Free, Copied

LEMMA EndsMove ==
  ASSUME IInv, NEW p \in Clients, Ends(p), UNCHANGED <<st, logSize, runner>>
  PROVE  QuietMove(p, "idle")
<1>1. "idle" \in Free
  BY DEF Free, ClientPCs, HoldsState, HoldsLease
<1>2. Goto(p, "idle") /\ DropAll(p) /\ \A q \in Clients \ {p} : job'[q] = job[q]
  BY DEF Ends, Become, IInv, TypeOK
<1>. QED
  BY <1>1, <1>2, DropMove

LEMMA FailsMove ==
  ASSUME IInv, NEW p \in Clients, Fails(p)
  PROVE  QuietMove(p, "idle")
  BY EndsMove DEF Fails, disk

LEMMA ObservedMove ==
  ASSUME NEW p \in Clients, NEW view, Observed(p, view)
  PROVE  \E to \in Free : Goto(p, to)
<1>1. {"idle", "snap", "out"} \subseteq Free
  BY DEF Free, ClientPCs, HoldsState, HoldsLease
<1>. QED
  BY <1>1 DEF Observed, Become

LEMMA ReconciledMove ==
  ASSUME NEW p \in Clients, NEW active \in BOOLEAN, Reconciled(p, active)
  PROVE  \E to \in Free : Goto(p, to)
<1>1. {"wti", "final", "idle", "rm_open"} \subseteq Free
  BY DEF Free, ClientPCs, HoldsState, HoldsLease
<1>. QED
  BY <1>1, ObservedMove DEF Reconciled, Become

\* A step of a client that leaves the record and the runner alone is a quiet move.
LEMMA ObservingMove ==
  ASSUME IInv, NEW p \in Clients,
         \/ \E o \in Commands : Start(p, o)
         \/ Snapshot(p) \/ AwaitIntent(p) \/ Resnapshot(p) \/ ReadLog(p) \/ Respond(p)
         \/ DeadlineSnapshot(p)
  PROVE  \E to \in ClientPCs : QuietMove(p, to)
<1>1. Free \subseteq ClientPCs /\ "idle" \in ClientPCs
  BY DEF Free, ClientPCs
<1>2. {"idle", "snap", "wti", "resnap", "final", "out", "respond", "deadline", "rc_open",
       "rm_popen", "rm_open", "m_open"} \subseteq Free
  BY DEF Free, ClientPCs, HoldsState, HoldsLease
<1>3. CASE Fails(p)
  BY <1>1, <1>3, FailsMove
<1>4. CASE /\ UNCHANGED <<disk, runner, stateLock, runnerLock, job>> /\ pc[p] \in Free
           /\ \E to \in Free : Goto(p, to)
  BY <1>1, <1>4, FreeMove DEF disk
<1>5. CASE \E o \in Commands : Start(p, o)
  BY <1>2, <1>4, <1>5 DEF Start, Become, locks
<1>6. CASE Snapshot(p)
  <2>1. CASE Fails(p)
    BY <1>3, <2>1
  <2>2. CASE ~Fails(p)
    <3>1. \E to \in Free : Goto(p, to)
      BY <1>2, <1>6, <2>2, ObservedMove DEF Snapshot, Become
    <3>. QED
      BY <1>2, <1>4, <1>6, <2>2, <3>1 DEF Snapshot, locks
  <2>. QED
    BY <2>1, <2>2
<1>7. CASE AwaitIntent(p)
  BY <1>2, <1>3, <1>4, <1>7 DEF AwaitIntent, Become, locks
<1>8. CASE Resnapshot(p)
  <2>1. CASE Fails(p)
    BY <1>3, <2>1
  <2>2. CASE ~Fails(p)
    <3>1. \E to \in Free : Goto(p, to)
      BY <1>2, <1>8, <2>2, ObservedMove DEF Resnapshot, Become
    <3>. QED
      BY <1>2, <1>4, <1>8, <2>2, <3>1 DEF Resnapshot, locks
  <2>. QED
    BY <2>1, <2>2
<1>9. CASE ReadLog(p)
  BY <1>2, <1>3, <1>4, <1>9 DEF ReadLog, Become, locks
<1>10. CASE Respond(p)
  BY <1>2, <1>3, <1>4, <1>10 DEF Respond, Committing, Become, locks
<1>11. CASE DeadlineSnapshot(p)
  BY <1>2, <1>3, <1>4, <1>11 DEF DeadlineSnapshot, Become, locks
<1>. QED
  BY <1>5, <1>6, <1>7, <1>8, <1>9, <1>10, <1>11

LEMMA ReconcilingMove ==
  ASSUME IInv, NEW p \in Clients,
         \/ OpenRecovery(p) \/ LockRecovery(p) \/ InspectIntent(p) \/ OpenLockFile(p)
         \/ LeaseBusy(p) \/ TakeLease(p) \/ DropStaleIntent(p) \/ MarkIntent(p)
         \/ ReleaseLease(p)
  PROVE  \E to \in ClientPCs : QuietMove(p, to)
<1>1. Free \subseteq ClientPCs /\ "idle" \in ClientPCs
  BY DEF Free, ClientPCs
<1>2. {"rc_open", "rc_lock", "rc_intent", "rc_ropen", "rc_try", "ca_open"} \subseteq Free
  BY DEF Free, ClientPCs, HoldsState, HoldsLease
<1>3. CASE Fails(p)
  BY <1>1, <1>3, FailsMove
<1>4. CASE /\ UNCHANGED <<st, logSize, runner, stateLock, runnerLock, job>> /\ pc[p] \in Free
           /\ \E to \in Free : Goto(p, to)
  BY <1>1, <1>4, FreeMove
<1>5. CASE OpenRecovery(p)
  BY <1>2, <1>3, <1>4, <1>5 DEF OpenRecovery, OpensRecoveryLock, Become, locks, disk
<1>6. CASE LockRecovery(p)
  BY <1>2, <1>3, <1>4, <1>6 DEF LockRecovery, Become, disk
<1>7. CASE InspectIntent(p)
  BY <1>2, <1>4, <1>7, ReconciledMove DEF InspectIntent, Become, disk
<1>8. CASE OpenLockFile(p)
  <2>1. CASE Fails(p)
    BY <1>3, <2>1
  <2>2. CASE ~Fails(p)
    <3>1. /\ pc[p] \in Opens /\ Goto(p, AfterOpen(pc[p]))
          /\ UNCHANGED <<disk, locks, runner, history, job, loc>>
      BY <1>8, <2>2 DEF OpenLockFile
    <3>2. AfterOpen(pc[p]) \in ClientPCs
          /\ (AfterOpen(pc[p]) \in HoldsState <=> pc[p] \in HoldsState)
          /\ (AfterOpen(pc[p]) \in HoldsLease <=> pc[p] \in HoldsLease)
          /\ AfterOpen(pc[p]) \notin Copied
      BY <3>1 DEF Opens, AfterOpen, ClientPCs, HoldsState, HoldsLease, Copied
    <3>. QED
      BY <3>1, <3>2 DEF QuietMove, LockMove, disk, locks
  <2>. QED
    BY <2>1, <2>2
<1>9. CASE LeaseBusy(p)
  BY <1>2, <1>4, <1>9, ReconciledMove DEF LeaseBusy, Become, disk
<1>10. CASE TakeLease(p)
  <2>1. PICK to \in {"rc_drop", "rc_sopen", "rc_mark"} : Goto(p, to)
    BY <1>10 DEF TakeLease
  <2>2. to \in ClientPCs /\ to \in HoldsLease /\ to \notin HoldsState /\ to \notin Copied
        /\ pc[p] \notin HoldsState
    BY <1>10, <2>1 DEF TakeLease, ClientPCs, HoldsState, HoldsLease, Copied
  <2>. QED
    BY <1>10, <2>1, <2>2 DEF TakeLease, LeaseFree, QuietMove, LockMove, disk
<1>11. CASE DropStaleIntent(p) \/ (MarkIntent(p) /\ ~Fails(p))
  <2>1. PICK to \in {"rc_release", "rc_sopen"} : Goto(p, to)
    BY <1>11, Zenon DEF DropStaleIntent, MarkIntent
  <2>2. pc[p] \in {"rc_drop", "rc_mark"} /\ UNCHANGED <<st, logSize, locks, runner, job>>
    BY <1>11, Zenon DEF DropStaleIntent, MarkIntent
  <2>3. /\ to \in ClientPCs /\ to \in HoldsLease /\ to \notin HoldsState /\ to \notin Copied
        /\ pc[p] \in HoldsLease /\ pc[p] \notin HoldsState
    BY <2>1, <2>2 DEF ClientPCs, HoldsState, HoldsLease, Copied
  <2>. QED
    BY <2>1, <2>2, <2>3 DEF QuietMove, LockMove, locks
<1>12. CASE ReleaseLease(p)
  <2>1. PICK to \in Free : Goto(p, to)
    BY <1>12, ReconciledMove DEF ReleaseLease
  <2>2. pc[p] \in HoldsLease /\ pc[p] \notin HoldsState
    BY <1>12 DEF ReleaseLease, HoldsState, HoldsLease
  <2>3. runnerLock' = Dropped(runnerLock, p)
    BY <1>12, <2>2 DEF ReleaseLease, IInv, LocksMatchControl, Dropped
  <2>. QED
    BY <1>1, <1>12, <2>1, <2>2, <2>3 DEF ReleaseLease, QuietMove, LockMove, Free, Copied, disk
<1>. QED
  BY <1>3, <1>5, <1>6, <1>7, <1>8, <1>9, <1>10, <1>11, <1>12

LEMMA MutatingMove ==
  ASSUME IInv, NEW p \in Clients,
         \/ LockState(p) \/ ClearIntent(p) \/ TimeOut(p) \/ WaitDeadline(p) \/ RecheckIntent(p)
  PROVE  \E to \in ClientPCs : QuietMove(p, to)
<1>1. Free \subseteq ClientPCs /\ "idle" \in ClientPCs /\ "wti" \in Free /\ "deadline" \in Free
  BY DEF Free, ClientPCs, HoldsState, HoldsLease
<1>2. CASE Fails(p)
  BY <1>1, <1>2, FailsMove
<1>3. CASE LockState(p) /\ ~Fails(p)
  <2>1. /\ pc[p] \in LockWaits /\ stateLock = NoOne /\ stateLock' = p
        /\ job' = [job EXCEPT ![p] = st] /\ Goto(p, AfterLock(pc[p]))
        /\ UNCHANGED <<disk, runnerLock, runner>>
    BY <1>3 DEF LockState
  <2>2. /\ AfterLock(pc[p]) \in ClientPCs /\ AfterLock(pc[p]) \in HoldsState
        /\ AfterLock(pc[p]) \in HoldsLease <=> pc[p] \in HoldsLease
    BY <2>1 DEF LockWaits, AfterLock, ClientPCs, HoldsState, HoldsLease
  <2>3. job'[p] = st /\ \A q \in Clients \ {p} : job'[q] = job[q]
    BY <2>1 DEF IInv, TypeOK
  <2>. QED
    BY <2>1, <2>2, <2>3 DEF QuietMove, LockMove, disk
<1>4. CASE ClearIntent(p)
  <2>1. "rc_release" \in ClientPCs /\ "rc_release" \in HoldsLease /\ "rc_clear" \in HoldsLease
        /\ "rc_release" \notin HoldsState /\ "rc_clear" \in HoldsState
        /\ "rc_release" \notin Copied
    BY DEF ClientPCs, HoldsState, HoldsLease, Copied
  <2>2. stateLock' = Dropped(stateLock, p)
    BY <1>4, <2>1 DEF ClearIntent, IInv, LocksMatchControl, Dropped
  <2>3. \A q \in Clients \ {p} : job'[q] = job[q]
    BY <1>4 DEF ClearIntent, IInv, TypeOK
  <2>. QED
    BY <1>4, <2>1, <2>2, <2>3 DEF ClearIntent, QuietMove, LockMove
<1>5. CASE WaitDeadline(p)
  BY <1>1, <1>5, DropMove DEF WaitDeadline, Become, disk
<1>6. CASE RecheckIntent(p)
  <2>1. /\ "m_check" \in HoldsState /\ "m_check" \notin HoldsLease /\ "m_check" \in Copied
        /\ "m_write" \in HoldsState /\ "m_write" \notin HoldsLease /\ "m_write" \in ClientPCs
        /\ "wti" \notin HoldsState /\ "wti" \notin HoldsLease /\ "wti" \notin Copied
    BY DEF ClientPCs, HoldsState, HoldsLease, Copied
  <2>2. pc[p] = "m_check" /\ UNCHANGED <<st, logSize, runnerLock, runner>>
    BY <1>6 DEF RecheckIntent, disk
  <2>3. CASE /\ stateLock' = NoOne /\ job' = [job EXCEPT ![p] = InitialJobState]
             /\ Goto(p, "wti")
    <3>1. stateLock' = Dropped(stateLock, p)
      BY <2>1, <2>2, <2>3 DEF IInv, LocksMatchControl, Dropped
    <3>2. \A q \in Clients \ {p} : job'[q] = job[q]
      BY <2>3 DEF IInv, TypeOK
    <3>. QED
      BY <1>1, <2>1, <2>2, <2>3, <3>1, <3>2 DEF QuietMove, LockMove
  <2>4. CASE Goto(p, "m_write") /\ UNCHANGED <<stateLock, job>>
    <3>1. job[p] = st
      BY <2>1, <2>2 DEF IInv, CopiesAreCurrent, Copied
    <3>. QED
      BY <2>1, <2>2, <2>4, <3>1 DEF QuietMove, LockMove
  <2>. QED
    BY <1>6, <2>3, <2>4 DEF RecheckIntent
<1>. QED
  BY <1>2, <1>3, <1>4, <1>5, <1>6 DEF TimeOut

LEMMA RemovingMove ==
  ASSUME IInv, NEW p \in Clients,
         \/ ProbeLease(p) \/ Unprobe(p) \/ LeaseForRemoval(p) \/ ListDirectory(p)
         \/ Unlink(p) \/ RemoveDirectory(p) \/ Crash(p)
  PROVE  \E to \in ClientPCs : QuietMove(p, to)
<1>1. Free \subseteq ClientPCs /\ "idle" \in ClientPCs /\ {"rc_open", "rm_rmdir"} \subseteq Free
  BY DEF Free, ClientPCs, HoldsState, HoldsLease
<1>2. CASE Fails(p)
  BY <1>1, <1>2, FailsMove
<1>3. CASE (ProbeLease(p) \/ LeaseForRemoval(p)) /\ ~Fails(p)
  <2>1. PICK to \in {"rm_unprobe", "rm_sopen"} : Goto(p, to)
    BY <1>3 DEF ProbeLease, LeaseForRemoval
  <2>2. /\ pc[p] \in {"rm_probe", "rm_try"} /\ runnerLock = NoOne /\ runnerLock' = p
        /\ UNCHANGED <<st, logSize, stateLock, runner, job>>
    BY <1>3 DEF ProbeLease, LeaseForRemoval, LeaseFree, disk
  <2>3. /\ to \in ClientPCs /\ to \in HoldsLease /\ to \notin HoldsState /\ to \notin Copied
        /\ pc[p] \notin HoldsState
    BY <2>1, <2>2 DEF ClientPCs, HoldsState, HoldsLease, Copied
  <2>. QED
    BY <2>1, <2>2, <2>3 DEF QuietMove, LockMove
<1>4. CASE Unprobe(p)
  <2>1. pc[p] \in HoldsLease /\ pc[p] \notin HoldsState
    BY <1>4 DEF Unprobe, HoldsState, HoldsLease
  <2>2. runnerLock' = Dropped(runnerLock, p)
    BY <1>4, <2>1 DEF Unprobe, IInv, LocksMatchControl, Dropped
  <2>3. "rc_open" \notin HoldsState /\ "rc_open" \notin HoldsLease /\ "rc_open" \notin Copied
    BY DEF HoldsState, HoldsLease, Copied
  <2>. QED
    BY <1>1, <1>4, <2>1, <2>2, <2>3 DEF Unprobe, Become, QuietMove, LockMove, disk
<1>5. CASE ListDirectory(p) /\ ~Fails(p)
  <2>1. /\ pc[p] = "rm_list" /\ Goto(p, "rm_unlink")
        /\ UNCHANGED <<st, logSize, locks, runner, job>>
    BY <1>5 DEF ListDirectory, Become, disk
  <2>2. /\ {"rm_list", "rm_unlink"} \subseteq HoldsState \cap HoldsLease
        /\ "rm_unlink" \in ClientPCs /\ "rm_list" \in Copied
    BY DEF HoldsState, HoldsLease, ClientPCs, Copied
  <2>3. job[p] = st
    BY <2>1, <2>2 DEF IInv, CopiesAreCurrent, Copied
  <2>. QED
    BY <2>1, <2>2, <2>3 DEF QuietMove, LockMove, locks
<1>6. CASE Unlink(p) /\ ~Fails(p)
  <2>1. pc[p] = "rm_unlink"
    BY <1>6 DEF Unlink
  <2>2. CASE Goto(p, "rm_rmdir") /\ job' = [job EXCEPT ![p] = InitialJobState] /\ DropAll(p)
             /\ UNCHANGED <<disk, runner>>
    <3>1. \A q \in Clients \ {p} : job'[q] = job[q]
      BY <2>2 DEF IInv, TypeOK
    <3>. QED
      BY <1>1, <2>2, <3>1, DropMove DEF disk
  <2>3. CASE Goto(p, "rm_unlink") /\ UNCHANGED <<st, logSize, locks, runner, job>>
    <3>1. /\ "rm_unlink" \in HoldsState \cap HoldsLease
          /\ "rm_unlink" \in ClientPCs /\ "rm_unlink" \in Copied
      BY DEF HoldsState, HoldsLease, ClientPCs, Copied
    <3>2. job[p] = st
      BY <2>1, <3>1 DEF IInv, CopiesAreCurrent, Copied
    <3>. QED
      BY <2>1, <2>3, <3>1, <3>2 DEF QuietMove, LockMove, locks
  <2>. QED
    BY <1>6, <2>2, <2>3 DEF Unlink, Become
<1>7. CASE RemoveDirectory(p)
  BY <1>1, <1>7, EndsMove DEF RemoveDirectory
<1>8. CASE Crash(p)
  BY <1>2, <1>8 DEF Crash
<1>. QED
  BY <1>2, <1>3, <1>4, <1>5, <1>6, <1>7, <1>8

-----------------------------------------------------------------------------
\* The steps that replace the record, and the steps of the runner.

\* Whoever replaces the record holds state.lock, so nobody's copy goes stale.
LEMMA WritingKeeps ==
  ASSUME IInv, TypeOK', NEW p \in Clients, NEW to \in ClientPCs, to \notin Copied,
         pc[p] \in HoldsState, Goto(p, to), UNCHANGED <<logSize, runner>>,
         LockMove(stateLock, stateLock', p, pc[p] \in HoldsState, to \in HoldsState),
         LockMove(runnerLock, runnerLock', p, pc[p] \in HoldsLease, to \in HoldsLease),
         RunnerOwnsStatus', CancelHonoured', RunnerLostOnlyIfDead', CountedBytesExist'
  PROVE  IInv'
<1>1. pc'[p] = to /\ \A q \in Clients \ {p} : pc'[q] = pc[q]
  BY DEF Goto, IInv, TypeOK
<1>2. LocksMatchControl'
  BY LocksAfterMove DEF IInv, runner
<1>3. \A q \in Clients : pc'[q] \notin Copied
  BY <1>1 DEF IInv, LocksMatchControl, Copied
<1>4. rpc' \notin RunnerHoldsState
  BY ProcsAssumption DEF IInv, LocksMatchControl, runner
<1>5. CopiesAreCurrent'
  BY <1>3, <1>4 DEF CopiesAreCurrent, Copied, RunnerHoldsState
<1>. QED
  BY <1>2, <1>5 DEF IInv

LEMMA PublishLostKeeps ==
  ASSUME IInv, TypeOK', NEW p \in Clients, PublishLost(p)
  PROVE  IInv'
<1>1. /\ {"rc_write", "rc_clear"} \subseteq HoldsState \cap HoldsLease
      /\ "rc_clear" \in ClientPCs /\ "rc_clear" \notin Copied /\ "rc_write" \in Copied
      /\ "dead" \in Published
  BY DEF HoldsState, HoldsLease, ClientPCs, Copied, Published
<1>2. /\ pc[p] = "rc_write" /\ Goto(p, "rc_clear") /\ UNCHANGED <<locks, runner, logSize>>
      /\ UNCHANGED st \/ st' = Lost(job[p])
  BY DEF PublishLost, WriteState, disk
<1>3. job[p] = st
  BY <1>1, <1>2 DEF IInv, CopiesAreCurrent, Copied
<1>4. rpc = "dead"
  BY <1>1, <1>2, ProcsAssumption DEF IInv, LocksMatchControl
<1>5. st \in JobStates
  BY DEF IInv, TypeOK
<1>6. RunnerOwnsStatus' /\ CancelHonoured' /\ RunnerLostOnlyIfDead' /\ CountedBytesExist'
  BY <1>1, <1>2, <1>3, <1>4, <1>5
     DEF IInv, RunnerOwnsStatus, CancelHonoured, RunnerLostOnlyIfDead, CountedBytesExist,
         Lost, JobStates, runner
<1>. QED
  BY <1>1, <1>2, <1>6, WritingKeeps DEF LockMove, locks

\* What a wait or a cancellation does to the record.
LEMMA MutatedRecord ==
  ASSUME NEW j \in JobStates, NEW s, NEW next, NEW new,
         new = CommitWait(j, s, next) \/ new = CancelLocked(j)
  PROVE  /\ new.status = j.status /\ new.captured = j.captured
         /\ j.cancelled => new.cancelled
         /\ IsTerminal(j.status) => new.cancelled = j.cancelled
  BY DEF CommitWait, CancelLocked, PersistRequest, JobStates

LEMMA MutateStateKeeps ==
  ASSUME IInv, TypeOK', NEW p \in Clients, MutateState(p)
  PROVE  IInv'
<1> DEFINE new == IF loc[p].op = "wait" THEN CommitWait(job[p], Me(p), loc[p].view.captured)
                                        ELSE CancelLocked(job[p])
<1>1. /\ {"m_write", "ca_write"} \subseteq HoldsState \cap Copied
      /\ "idle" \in ClientPCs /\ "idle" \notin Copied
      /\ "idle" \notin HoldsState /\ "idle" \notin HoldsLease
  BY DEF HoldsState, HoldsLease, ClientPCs, Copied
<1>2. /\ pc[p] \in {"m_write", "ca_write"} /\ Goto(p, "idle") /\ DropAll(p) /\ UNCHANGED runner
      /\ \/ UNCHANGED <<st, logSize>>
         \/ Publishable(new) /\ st' = new /\ UNCHANGED logSize
  BY DEF MutateState, Ends, Become, WriteState, disk
<1>3. job[p] = st /\ st \in JobStates
  BY <1>1, <1>2 DEF IInv, TypeOK, CopiesAreCurrent, Copied
<1>4. \/ UNCHANGED <<st, logSize>>
      \/ /\ UNCHANGED logSize
         /\ st'.status = st.status /\ st'.captured = st.captured
         /\ st.cancelled => st'.cancelled
         /\ IsTerminal(st.status) => st'.cancelled = st.cancelled
         /\ \A s \in Sessions : st'.cursor[s] <= st'.captured
  <2> HIDE DEF new
  <2>1. CASE st' = new
    <3>1. new = CommitWait(job[p], Me(p), loc[p].view.captured) \/ new = CancelLocked(job[p])
      BY DEF new
    <3>. QED
      BY <1>2, <1>3, <2>1, <3>1, MutatedRecord DEF Publishable
  <2>. QED
    BY <1>2, <2>1
<1>5. "cancelled" \in TerminalStatuses /\ IsTerminal("cancelled")
  BY DEF IsTerminal, TerminalStatuses
<1>6. RunnerOwnsStatus' /\ CancelHonoured' /\ RunnerLostOnlyIfDead' /\ CountedBytesExist'
  <2>1. st'.status = st.status /\ UNCHANGED <<logSize, rpc, cause>>
    BY <1>2, <1>4 DEF runner
  <2>2. RunnerOwnsStatus' /\ RunnerLostOnlyIfDead'
    BY <1>4, <2>1 DEF IInv, RunnerOwnsStatus, RunnerLostOnlyIfDead
  <2>3. CancelHonoured'
    BY <1>4, <1>5, <2>1 DEF IInv, CancelHonoured
  <2>4. CountedBytesExist'
    BY <1>4, <2>1 DEF IInv, CountedBytesExist
  <2>. QED
    BY <2>2, <2>3, <2>4
<1>. QED
  <2>1. UNCHANGED logSize
    BY <1>4
  <2>. QED
    BY <1>1, <1>2, <1>6, <2>1, WritingKeeps DEF LockMove, DropAll

LEMMA RunnerMoveKeeps ==
  ASSUME IInv, TypeOK', UNCHANGED <<pc, job>>, UNCHANGED st \/ rpc \in RunnerHoldsState,
         LockMove(stateLock, stateLock', Runner, rpc \in RunnerHoldsState,
                  rpc' \in RunnerHoldsState),
         LockMove(runnerLock, runnerLock', Runner, rpc # "dead", rpc' # "dead"),
         rpc' \in {"ap_check", "pub_write"} => rjob' = st',
         rpc' = "ap_write" => /\ rjob' = [st' EXCEPT !.captured = rjob'.captured]
                              /\ st'.captured <= rjob'.captured /\ rjob'.captured <= logSize',
         RunnerOwnsStatus', CancelHonoured', RunnerLostOnlyIfDead', CountedBytesExist'
  PROVE  IInv'
<1>1. Runner # NoOne /\ \A q \in Clients : q # Runner /\ q # NoOne
  BY ProcsAssumption
<1>2. LocksMatchControl'
  <2>1. /\ \A q \in Clients : stateLock' = q <=> pc'[q] \in HoldsState
        /\ stateLock' = Runner <=> rpc' \in RunnerHoldsState
    BY <1>1 DEF LockMove, Dropped, IInv, LocksMatchControl
  <2>2. /\ \A q \in Clients : runnerLock' = q <=> pc'[q] \in HoldsLease
        /\ runnerLock' = Runner <=> rpc' # "dead"
    BY <1>1 DEF LockMove, Dropped, IInv, LocksMatchControl
  <2>. QED
    BY <2>1, <2>2 DEF LocksMatchControl
<1>3. \A q \in Clients : pc'[q] \in Copied => job'[q] = st'
  BY <1>1 DEF IInv, CopiesAreCurrent, LocksMatchControl, Copied
<1>4. CopiesAreCurrent'
  BY <1>3 DEF CopiesAreCurrent, Copied
<1>. QED
  BY <1>2, <1>4 DEF IInv

\* The runner is gone: its flocks are free and the record stays as it is.
LEMMA RunnerEndsKeeps ==
  ASSUME IInv, TypeOK', RunnerEnds, UNCHANGED <<st, logSize, cause, client>>
  PROVE  IInv'
<1>1. rpc' = "dead" /\ DropAll(Runner)
  BY DEF RunnerEnds, RunnerGoto
<1>2. "dead" \notin RunnerHoldsState /\ "dead" \in Published
  BY DEF RunnerHoldsState, Published
<1>3. RunnerOwnsStatus' /\ CancelHonoured' /\ RunnerLostOnlyIfDead' /\ CountedBytesExist'
  BY <1>1, <1>2
     DEF IInv, RunnerOwnsStatus, CancelHonoured, RunnerLostOnlyIfDead, CountedBytesExist
<1>4. LockMove(stateLock, stateLock', Runner, rpc \in RunnerHoldsState, rpc' \in RunnerHoldsState)
      /\ LockMove(runnerLock, runnerLock', Runner, rpc # "dead", rpc' # "dead")
  BY <1>1, <1>2 DEF DropAll, LockMove
<1>. QED
  BY <1>1, <1>3, <1>4, RunnerMoveKeeps DEF client

\* Steps of a living runner that leave the record alone.
LEMMA RunnerQuietKeeps ==
  ASSUME IInv, TypeOK', rpc # "dead", rpc' # "dead", rpc \notin Published \/ rpc' \in Published,
         UNCHANGED <<st, pc, job, runnerLock>>, logSize <= logSize', logSize' <= Limit,
         LockMove(stateLock, stateLock', Runner, rpc \in RunnerHoldsState,
                  rpc' \in RunnerHoldsState),
         rpc' \in {"ap_check", "pub_write"} => rjob' = st,
         rpc' = "ap_write" => /\ rjob' = [st EXCEPT !.captured = rjob'.captured]
                              /\ st.captured <= rjob'.captured /\ rjob'.captured <= logSize',
         cause' = "cancelled" => st.cancelled
  PROVE  IInv'
<1>1. RunnerOwnsStatus' /\ CancelHonoured' /\ RunnerLostOnlyIfDead'
  BY DEF IInv, RunnerOwnsStatus, CancelHonoured, RunnerLostOnlyIfDead
<1>2. CountedBytesExist'
  BY LimitTyped DEF IInv, CountedBytesExist, TypeOK, JobStates
<1>3. LockMove(runnerLock, runnerLock', Runner, rpc # "dead", rpc' # "dead")
  BY DEF LockMove
<1>. QED
  BY <1>1, <1>2, <1>3, RunnerMoveKeeps

LEMMA AppendingKeeps ==
  ASSUME IInv, TypeOK',
         \/ AppendBegin \/ AppendAwaitIntent \/ AppendLock \/ AppendOutput \/ AppendCommit
         \/ Poll \/ HardTimeout \/ Supervised
  PROVE  IInv'
<1>1. /\ {"run", "ap_wait", "ap_lock", "ap_check", "ap_write", "pub_open"} \cap Published = {}
      /\ {"run", "ap_wait", "ap_lock", "pub_open"} \cap RunnerHoldsState = {}
      /\ {"ap_check", "ap_write"} \subseteq RunnerHoldsState
  BY DEF Published, RunnerHoldsState
<1>2. logSize <= Limit /\ logSize <= logSize /\ (cause = "cancelled" => st.cancelled)
  BY LimitTyped DEF IInv, TypeOK, RunnerOwnsStatus
<1>3. CASE AppendBegin \/ AppendAwaitIntent \/ Supervised \/ Poll \/ HardTimeout
  <2>1. /\ rpc \in {"run", "ap_wait"} /\ rpc' \in {"run", "ap_wait", "ap_lock", "pub_open"}
        /\ UNCHANGED <<st, pc, job, runnerLock, stateLock, logSize>>
        /\ cause' = "cancelled" => st.cancelled
    BY <1>2, <1>3 DEF AppendBegin, AppendAwaitIntent, Supervised, Poll, HardTimeout, RunnerGoto,
                      disk, locks, client
  <2>. QED
    BY <1>1, <1>2, <2>1, RunnerQuietKeeps DEF LockMove
<1>4. CASE AppendLock
  BY <1>1, <1>2, <1>4, RunnerQuietKeeps DEF AppendLock, RunnerGoto, LockMove, disk, client
<1>5. CASE AppendOutput
  <2>1. rpc = "ap_check" /\ rjob = st /\ stateLock = Runner
        /\ UNCHANGED <<files, dirExists, st, recInode, cause, client, history>>
    BY <1>1, <1>5 DEF AppendOutput, IInv, CopiesAreCurrent, LocksMatchControl
  <2>2. CASE RunnerEnds /\ UNCHANGED logSize
    BY <2>1, <2>2, RunnerEndsKeeps
  <2>3. CASE stateLock' = NoOne /\ rpc' = "ap_wait" /\ UNCHANGED <<logSize, runnerLock>>
    BY <1>1, <1>2, <2>1, <2>3, RunnerQuietKeeps DEF LockMove, Dropped, client
  <2>4. ASSUME NEW n \in Chunks,
               LET end == rjob.captured + AcceptedBytes(rjob.captured, n, Limit)
               IN  /\ logSize' = GrownLog(logSize, end)
                   /\ rjob' = [rjob EXCEPT !.captured = end],
               rpc' = "ap_write", UNCHANGED locks
        PROVE  IInv'
    <3> DEFINE end == rjob.captured + AcceptedBytes(rjob.captured, n, Limit)
    <3>1. end \in 0..Limit /\ rjob.captured <= end
      BY AcceptedTyped DEF IInv, TypeOK, JobStates
    <3> HIDE DEF end
    <3>2. logSize' = GrownLog(logSize, end) /\ rjob' = [rjob EXCEPT !.captured = end]
      BY <2>4 DEF end
    <3>3. logSize <= logSize' /\ logSize' <= Limit /\ end <= logSize'
      BY <3>1, <3>2, LimitTyped DEF GrownLog, IInv, TypeOK
    <3>4. /\ rjob'.captured = end
          /\ rjob' = [st EXCEPT !.captured = rjob'.captured] /\ st.captured <= end
      BY <2>1, <3>1, <3>2 DEF IInv, TypeOK, JobStates
    <3>. QED
      BY <1>1, <1>2, <2>1, <2>4, <3>3, <3>4, RunnerQuietKeeps DEF LockMove, locks, client
  <2>. QED
    BY <1>5, <2>2, <2>3, <2>4 DEF AppendOutput, RunnerGoto
<1>6. CASE AppendCommit
  <2>1. /\ rpc = "ap_write" /\ rpc' = "run" /\ stateLock' = NoOne
        /\ UNCHANGED <<pc, job, runnerLock, logSize>>
        /\ cause' = "cancelled" => cause = "cancelled"
    BY <1>6 DEF AppendCommit, RunnerGoto, WriteState, client, disk
  <2>2. /\ rjob = [st EXCEPT !.captured = rjob.captured] /\ st \in JobStates
        /\ st.captured <= rjob.captured /\ rjob.captured <= logSize /\ stateLock = Runner
        /\ rjob \in JobStates /\ logSize \in 0..Limit
    BY <1>1, <2>1 DEF IInv, TypeOK, CopiesAreCurrent, LocksMatchControl
  <2>3. st' = st \/ st' = rjob
    BY <1>6 DEF AppendCommit, WriteState, disk
  <2>4. /\ st'.status = st.status /\ st'.cancelled = st.cancelled /\ st'.cursor = st.cursor
        /\ st.captured <= st'.captured /\ st'.captured <= logSize
    BY <2>2, <2>3, LimitTyped DEF IInv, CountedBytesExist, JobStates
  <2>5. RunnerOwnsStatus' /\ CancelHonoured' /\ RunnerLostOnlyIfDead'
    BY <1>1, <2>1, <2>4 DEF IInv, RunnerOwnsStatus, CancelHonoured, RunnerLostOnlyIfDead
  <2>6. CountedBytesExist'
    <3>1. \A s \in Sessions : st.cursor[s] \in Int
      BY <2>2, LimitTyped DEF JobStates
    <3>2. st.captured \in Int /\ st'.captured \in Int
      BY <2>2, <2>3, LimitTyped DEF JobStates
    <3>. QED
      BY <2>1, <2>4, <3>1, <3>2 DEF IInv, CountedBytesExist
  <2>. QED
    BY <1>1, <2>1, <2>2, <2>5, <2>6, RunnerMoveKeeps DEF LockMove, Dropped
<1>. QED
  BY <1>3, <1>4, <1>5, <1>6

\* The status a runner publishes is never runner_lost, and is cancelled
\* exactly when a cancellation is stored in the record it locked.
LEMMA PublishedOutcome ==
  ASSUME IInv, rpc = "pub_write", NEW exit \in Exits
  PROVE  /\ PublishedStatus(rjob, exit) # "runner_lost"
         /\ PublishedStatus(rjob, exit) = "cancelled" <=> rjob.cancelled
<1>1. rjob = st /\ cause \in Causes /\ (cause = "cancelled" => rjob.cancelled)
  BY DEF IInv, CopiesAreCurrent, RunnerOwnsStatus, TypeOK
<1>2. exit \notin {"cancelled", "runner_lost"}
  BY ExitsAssumption DEF ExitStatuses
<1>. QED
  BY <1>1, <1>2 DEF PublishedStatus, ProcessStatus, Causes

LEMMA PublishingKeeps ==
  ASSUME IInv, TypeOK', RunnerPublishes
  PROVE  IInv'
<1>1. /\ {"pub_open", "pub_rec", "pub_mark", "pub_slock", "pub_write"} \cap Published = {}
      /\ {"pub_open", "pub_rec", "pub_mark", "pub_slock", "pub_release"} \cap RunnerHoldsState = {}
      /\ {"pub_write", "pub_clear"} \subseteq RunnerHoldsState
      /\ {"pub_clear", "pub_release"} \subseteq Published
  BY DEF Published, RunnerHoldsState
<1>2. logSize <= Limit /\ logSize <= logSize /\ (cause = "cancelled" => st.cancelled)
  BY LimitTyped DEF IInv, TypeOK, RunnerOwnsStatus
<1>3. CASE PublishOpen \/ PublishLockRecovery
  <2>1. /\ rpc \in {"pub_open", "pub_rec"} /\ rpc' \in {"pub_rec", "pub_mark"}
        /\ UNCHANGED <<st, pc, job, runnerLock, stateLock, logSize, cause>>
    BY <1>3 DEF PublishOpen, PublishLockRecovery, OpensRecoveryLock, RunnerGoto, disk, locks, client
  <2>. QED
    BY <1>1, <1>2, <2>1, RunnerQuietKeeps DEF LockMove
<1>4. CASE PublishMark
  <2>1. CASE RunnerEnds /\ UNCHANGED <<disk, history, cause, client>>
    BY <2>1, RunnerEndsKeeps DEF disk
  <2>2. CASE /\ rpc' = "pub_slock"
             /\ UNCHANGED <<st, logSize, locks, cause, client>>
    BY <1>1, <1>2, <1>4, <2>2, RunnerQuietKeeps DEF PublishMark, LockMove, locks, client
  <2>. QED
    BY <1>4, <2>1, <2>2 DEF PublishMark, RunnerGoto
<1>5. CASE PublishLockState
  BY <1>1, <1>2, <1>5, RunnerQuietKeeps DEF PublishLockState, RunnerGoto, LockMove, disk, client
<1>6. CASE PublishTerminal
  <2>1. /\ rpc = "pub_write" /\ rpc' = "pub_clear"
        /\ UNCHANGED <<pc, job, stateLock, runnerLock, logSize, cause>>
    BY <1>6 DEF PublishTerminal, RunnerGoto, WriteState, locks, client, disk
  <2>2. rjob = st /\ st \in JobStates /\ "pub_write" # "dead" /\ "pub_clear" # "dead"
    BY <2>1 DEF IInv, TypeOK, CopiesAreCurrent
  <2>3. CASE UNCHANGED st
    <3>1. RunnerOwnsStatus' /\ CancelHonoured' /\ RunnerLostOnlyIfDead' /\ CountedBytesExist'
      BY <1>1, <2>1, <2>3
         DEF IInv, RunnerOwnsStatus, CancelHonoured, RunnerLostOnlyIfDead, CountedBytesExist
    <3>. QED
      BY <1>1, <2>1, <2>3, <3>1, RunnerMoveKeeps DEF LockMove
  <2>4. ASSUME NEW exit \in Exits, st' = [rjob EXCEPT !.status = PublishedStatus(rjob, exit)]
        PROVE  IInv'
    <3>1. /\ st'.status = PublishedStatus(rjob, exit) /\ st'.captured = st.captured
          /\ st'.cancelled = st.cancelled /\ st'.cursor = st.cursor
      BY <2>2, <2>4 DEF JobStates
    <3>2. st'.status # "runner_lost" /\ (st'.status = "cancelled" <=> st.cancelled)
      BY <2>1, <2>2, <3>1, PublishedOutcome
    <3>3. RunnerOwnsStatus' /\ RunnerLostOnlyIfDead' /\ CancelHonoured'
      BY <1>1, <2>1, <3>1, <3>2 DEF IInv, RunnerOwnsStatus, RunnerLostOnlyIfDead, CancelHonoured
    <3>4. CountedBytesExist'
      BY <2>1, <3>1 DEF IInv, CountedBytesExist
    <3>. QED
      BY <1>1, <2>1, <3>3, <3>4, RunnerMoveKeeps DEF LockMove
  <2>. QED
    BY <1>6, <2>3, <2>4 DEF PublishTerminal, WriteState, disk
<1>7. CASE PublishClear
  <2>1. /\ rpc = "pub_clear" /\ rpc' = "pub_release" /\ stateLock' = NoOne
        /\ UNCHANGED <<st, pc, job, runnerLock, logSize, cause>>
    BY <1>7 DEF PublishClear, RunnerGoto, client
  <2>2. stateLock = Runner
    BY <1>1, <2>1 DEF IInv, LocksMatchControl
  <2>. QED
    BY <1>1, <1>2, <2>1, <2>2, RunnerQuietKeeps DEF LockMove, Dropped
<1>8. CASE PublishRelease
  BY <1>8, RunnerEndsKeeps DEF PublishRelease, disk
<1>. QED
  BY <1>3, <1>4, <1>5, <1>6, <1>7, <1>8 DEF RunnerPublishes

-----------------------------------------------------------------------------
\* The inductive invariant.

LEMMA InitInductive == Init => IInv
<1> SUFFICES ASSUME Init PROVE IInv
  OBVIOUS
<1>1. TypeOK
  BY InitTyped
<1>2. /\ "idle" \notin HoldsState /\ "idle" \notin HoldsLease /\ "run" \notin RunnerHoldsState
      /\ InitialJobState.status = Running /\ InitialJobState.cancelled = FALSE
      /\ InitialJobState.captured = 0 /\ \A s \in Sessions : InitialJobState.cursor[s] = NoEntry
      /\ ~IsTerminal(Running) /\ Running # "cancelled" /\ Running # "runner_lost"
  BY DEF HoldsState, HoldsLease, RunnerHoldsState, InitialJobState, IsTerminal, TerminalStatuses,
         ExitStatuses, Running
<1>3. LocksMatchControl
  BY <1>2, ProcsAssumption DEF Init, LocksMatchControl
<1>4. CopiesAreCurrent /\ RunnerOwnsStatus /\ CancelHonoured /\ RunnerLostOnlyIfDead
  BY <1>2 DEF Init, CopiesAreCurrent, RunnerOwnsStatus, CancelHonoured, RunnerLostOnlyIfDead
<1>5. CountedBytesExist
  BY <1>2, LimitTyped DEF Init, CountedBytesExist
<1>. QED
  BY <1>1, <1>3, <1>4, <1>5 DEF IInv

LEMMA NextInductive == IInv /\ [Next]_vars => IInv'
<1> SUFFICES ASSUME IInv, [Next]_vars PROVE IInv'
  OBVIOUS
<1>1. TypeOK'
  BY NextTyped DEF IInv
<1>2. ASSUME NEW p \in Clients,
             \/ \E o \in Commands : Start(p, o)
             \/ ClientStep(p) \/ TimeOut(p) \/ WaitDeadline(p) \/ Crash(p)
      PROVE  IInv'
  <2>1. CASE PublishLost(p)
    BY <1>1, <2>1, PublishLostKeeps
  <2>2. CASE MutateState(p)
    BY <1>1, <2>2, MutateStateKeeps
  <2>3. CASE \E to \in ClientPCs : QuietMove(p, to)
    BY <1>1, <2>3, QuietMoveKeeps
  <2>. QED
    BY <1>2, <2>1, <2>2, <2>3, ObservingMove, ReconcilingMove, MutatingMove, RemovingMove
       DEF ClientStep
<1>3. CASE RunnerStep
  BY <1>1, <1>3, AppendingKeeps, PublishingKeeps DEF RunnerStep
<1>4. CASE AppendTimeOut \/ RunnerCrash
  BY <1>1, <1>4, RunnerEndsKeeps DEF AppendTimeOut, RunnerCrash, disk
<1>5. CASE UNCHANGED vars
  BY <1>5 DEF vars, disk, locks, runner, client, history, IInv, TypeOK, LocksMatchControl,
              CopiesAreCurrent, RunnerOwnsStatus, CancelHonoured, RunnerLostOnlyIfDead,
              CountedBytesExist
<1>. QED
  BY <1>2, <1>3, <1>4, <1>5 DEF Next

\* In every reachable state the flocks match what each process is doing, the
\* copy of the record a process is about to write back is the record itself,
\* and the status is the runner's until it published or died (lockStateFile,
\* runnerLease).
THEOREM Inductive == Spec => []IInv
  BY InitInductive, NextInductive, PTL DEF Spec

\* A stored cancellation decides how the job ends unless its runner died, and
\* a job is never reported cancelled unasked (publishExecutionTerminal).
THEOREM CancellationHonoured == Spec => []CancelHonoured
<1>1. IInv => CancelHonoured
  BY DEF IInv
<1>. QED
  BY <1>1, Inductive, PTL

\* No probe, slow publication or timeout makes a living runner's job
\* runner_lost (reconcileRunnerState).
THEOREM LostOnlyWhenDead == Spec => []RunnerLostOnlyIfDead
<1>1. IInv => RunnerLostOnlyIfDead
  BY DEF IInv
<1>. QED
  BY <1>1, Inductive, PTL

\* The record never counts bytes output.log does not have, nor does a cursor
\* pass the bytes counted, whatever crashed in between (appendOutput).
THEOREM CountsOnlyWhatExists == Spec => []CountedBytesExist
<1>1. IInv => CountedBytesExist
  BY DEF IInv
<1>. QED
  BY <1>1, Inductive, PTL

-----------------------------------------------------------------------------
\* What a step may do to the record.

\* Only four steps replace the record, and each replaces what it just read.
LEMMA RecordWriters ==
  ASSUME IInv, Next
  PROVE  \/ UNCHANGED st
         \/ \E p \in Clients : PublishLost(p) \/ MutateState(p)
         \/ AppendCommit \/ PublishTerminal
<1>1. ASSUME NEW p \in Clients,
             \/ \E o \in Commands : Start(p, o)
             \/ ClientStep(p) \/ TimeOut(p) \/ WaitDeadline(p) \/ Crash(p)
      PROVE  UNCHANGED st \/ PublishLost(p) \/ MutateState(p)
  <2>1. CASE \E to \in ClientPCs : QuietMove(p, to)
    BY <2>1 DEF QuietMove
  <2>. QED
    BY <1>1, <2>1, ObservingMove, ReconcilingMove, MutatingMove, RemovingMove DEF ClientStep
<1>2. CASE RunnerStep \/ AppendTimeOut \/ RunnerCrash
  BY <1>2 DEF RunnerStep, RunnerPublishes, AppendBegin, AppendAwaitIntent, AppendLock,
              AppendOutput, Poll, HardTimeout, Supervised, PublishOpen, PublishLockRecovery,
              PublishMark, PublishLockState, PublishClear, PublishRelease, AppendTimeOut,
              RunnerCrash, OpensRecoveryLock, disk
<1>. QED
  BY <1>1, <1>2 DEF Next

Gained(old, new) ==
    /\ new.captured >= old.captured
    /\ old.cancelled => new.cancelled
    /\ \A s \in Sessions : new.cursor[s] >= old.cursor[s]

Frozen(old, new) ==
    IsTerminal(old.status) =>
        /\ new.status = old.status /\ new.captured = old.captured
        /\ new.cancelled = old.cancelled

LEMMA RecordTyped ==
  ASSUME NEW j \in JobStates
  PROVE  j.captured \in Int /\ \A s \in Sessions : j.cursor[s] \in Int
  BY LimitTyped DEF JobStates

\* A change of the record's other fields only.
LEMMA SameGains ==
  ASSUME NEW old \in JobStates, NEW new, new.captured = old.captured,
         new.cancelled = old.cancelled, new.cursor = old.cursor
  PROVE  Gained(old, new)
  BY RecordTyped DEF Gained

LEMMA CommitWaitGains ==
  ASSUME NEW j \in JobStates, NEW s \in Sessions, NEW next \in 0..Limit
  PROVE  Gained(j, CommitWait(j, s, next))
<1>1. CASE j.cursor[s] >= next
  BY <1>1, RecordTyped DEF CommitWait, Gained
<1>2. CASE ~(j.cursor[s] >= next)
  <2>1. CommitWait(j, s, next) = [j EXCEPT !.cursor[s] = next]
    BY <1>2 DEF CommitWait
  <2>2. /\ CommitWait(j, s, next).captured = j.captured
        /\ CommitWait(j, s, next).cancelled = j.cancelled
        /\ \A r \in Sessions : CommitWait(j, s, next).cursor[r] =
                                   IF r = s THEN next ELSE j.cursor[r]
    BY <2>1 DEF JobStates
  <2>3. next >= j.cursor[s]
    BY <1>2, RecordTyped, LimitTyped
  <2>. QED
    BY <2>2, <2>3, RecordTyped DEF Gained
<1>. QED
  BY <1>1, <1>2

LEMMA CancelLockedGains ==
  ASSUME NEW j \in JobStates
  PROVE  Gained(j, CancelLocked(j))
<1>1. /\ CancelLocked(j).captured = j.captured /\ CancelLocked(j).cursor = j.cursor
      /\ j.cancelled => CancelLocked(j).cancelled
  BY DEF CancelLocked, PersistRequest, JobStates
<1>. QED
  BY <1>1, RecordTyped DEF Gained

LEMMA RecordSteps ==
  ASSUME IInv, Next, st' # st
  PROVE  Gained(st, st') /\ Frozen(st, st')
<1>1. st \in JobStates /\ ~IsTerminal(Running)
  BY DEF IInv, TypeOK, IsTerminal, TerminalStatuses, ExitStatuses, Running
<1>2. ASSUME NEW p \in Clients, PublishLost(p)
      PROVE  Gained(st, st') /\ Frozen(st, st')
  <2>1. pc[p] = "rc_write" /\ job[p].status = Running /\ st' = Lost(job[p])
    BY <1>2 DEF PublishLost, WriteState, disk
  <2>2. job[p] = st
    BY <2>1 DEF IInv, CopiesAreCurrent, HoldsState
  <2>3. /\ st'.captured = st.captured /\ st'.cancelled = st.cancelled
        /\ st'.cursor = st.cursor
    BY <1>1, <2>1, <2>2 DEF Lost, JobStates
  <2>. QED
    BY <1>1, <2>1, <2>2, <2>3, SameGains DEF Frozen
<1>3. ASSUME NEW p \in Clients, MutateState(p)
      PROVE  Gained(st, st') /\ Frozen(st, st')
  <2> DEFINE next == loc[p].view.captured
  <2>1. next \in 0..Limit /\ Me(p) \in Sessions
    BY SessionAssumption DEF IInv, TypeOK, Locals, Me
  <2>2. job[p] = st
    BY <1>3 DEF MutateState, IInv, CopiesAreCurrent, HoldsState
  <2>3. st' = CommitWait(st, Me(p), next) \/ st' = CancelLocked(st)
    BY <1>3, <2>2 DEF MutateState, WriteState, disk
  <2> HIDE DEF next
  <2>. QED
    BY <1>1, <2>1, <2>3, CommitWaitGains, CancelLockedGains, MutatedRecord DEF Frozen
<1>4. CASE AppendCommit
  <2>1. rpc = "ap_write" /\ st' = rjob
    BY <1>4 DEF AppendCommit, WriteState, disk
  <2>2. /\ rjob = [st EXCEPT !.captured = rjob.captured] /\ st.captured <= rjob.captured
        /\ rjob \in JobStates /\ st.status = Running
    BY <2>1 DEF IInv, TypeOK, CopiesAreCurrent, RunnerOwnsStatus, Published
  <2>3. st'.cursor = st.cursor /\ st'.cancelled = st.cancelled
    BY <1>1, <2>1, <2>2 DEF JobStates
  <2>. QED
    BY <1>1, <2>1, <2>2, <2>3, RecordTyped DEF Gained, Frozen
<1>5. CASE PublishTerminal
  <2>1. PICK exit \in Exits : st' = [rjob EXCEPT !.status = PublishedStatus(rjob, exit)]
    BY <1>5 DEF PublishTerminal, WriteState, disk
  <2>2. rjob = st /\ st.status = Running
    BY <1>5 DEF PublishTerminal, IInv, CopiesAreCurrent, RunnerOwnsStatus, Published
  <2>3. /\ st'.captured = st.captured /\ st'.cancelled = st.cancelled
        /\ st'.cursor = st.cursor
    BY <1>1, <2>1, <2>2 DEF JobStates
  <2>. QED
    BY <1>1, <2>2, <2>3, SameGains DEF Frozen
<1>. QED
  BY <1>2, <1>3, <1>4, <1>5, RecordWriters

\* No write of the whole record, by whichever process, undoes another's:
\* captured bytes, cancellations and cursors are only gained (publishState).
THEOREM NothingLost == Spec => NoLostUpdate
<1>1. IInv /\ [Next]_vars =>
        [/\ st'.captured >= st.captured
         /\ st.cancelled => st'.cancelled
         /\ \A s \in Sessions : st'.cursor[s] >= st.cursor[s]]_st
  BY RecordSteps DEF Gained, vars, disk
<1>. QED
  BY <1>1, Inductive, PTL DEF Spec, NoLostUpdate

\* What a client was told of a finished job stays true: after the terminal
\* publication a write changes cursors and nothing else (transitionAllowed).
THEOREM EndIsFinal == Spec => TerminalFrozen
<1>1. IInv /\ [Next]_vars =>
        [IsTerminal(st.status) =>
           /\ st'.status = st.status /\ st'.captured = st.captured
           /\ st'.cancelled = st.cancelled]_st
  BY RecordSteps DEF Frozen, vars, disk
<1>. QED
  BY <1>1, Inductive, PTL DEF Spec, TerminalFrozen

-----------------------------------------------------------------------------
\* The runner as a supervisor.

\* Clients change neither the runner nor what it stored, and take no request back.
LEMMA ClientsAside ==
  ASSUME IInv, NEW p \in Clients,
         \/ \E o \in Commands : Start(p, o)
         \/ ClientStep(p) \/ TimeOut(p) \/ WaitDeadline(p) \/ Crash(p)
  PROVE  /\ UNCHANGED <<rpc, cause>> /\ st'.captured = st.captured
         /\ st'.cancelled = st.cancelled \/ st'.cancelled = TRUE
<1>1. st \in JobStates
  BY DEF IInv, TypeOK
<1>2. CASE \E to \in ClientPCs : QuietMove(p, to)
  BY <1>2 DEF QuietMove, runner
<1>3. CASE PublishLost(p)
  <2>1. job[p] = st
    BY <1>3 DEF PublishLost, IInv, CopiesAreCurrent, HoldsState
  <2>2. UNCHANGED <<rpc, cause>> /\ (st' = st \/ st' = Lost(st))
    BY <1>3, <2>1 DEF PublishLost, WriteState, disk, runner
  <2>. QED
    BY <1>1, <2>2 DEF Lost, JobStates
<1>4. CASE MutateState(p)
  <2>1. job[p] = st
    BY <1>4 DEF MutateState, IInv, CopiesAreCurrent, HoldsState
  <2>2. /\ UNCHANGED <<rpc, cause>>
        /\ \/ st' = st \/ st' = CancelLocked(st)
           \/ st' = CommitWait(st, Me(p), loc[p].view.captured)
    BY <1>4, <2>1 DEF MutateState, WriteState, disk, runner
  <2>3. CASE st' = CancelLocked(st)
    BY <1>1, <2>2, <2>3 DEF CancelLocked, JobStates
  <2>4. CASE st' = CommitWait(st, Me(p), loc[p].view.captured)
    BY <1>1, <2>2, <2>4 DEF CommitWait, JobStates
  <2>. QED
    BY <2>2, <2>3, <2>4
<1>. QED
  BY <1>2, <1>3, <1>4, ObservingMove, ReconcilingMove, MutatingMove, RemovingMove DEF ClientStep

\* A step of the runner that stores nothing moves it on, ends it, or both.
RunnerDecides ==
    /\ st'.captured = st.captured /\ st'.cancelled = st.cancelled
    /\ \/ UNCHANGED <<SupervisionPhase, cause>>
       \/ Watched!TimeOut \/ Watched!Notice \/ Watched!Report \/ Watched!Die
    /\ cause' # cause => rpc' = "run" /\ cause' # "normal"
    /\ rpc' \in {"ap_wait", "ap_lock", "ap_check", "ap_write"} =>
          \/ rpc \in {"ap_wait", "ap_lock", "ap_check", "ap_write"}
          \/ cause # "output_limit"

LEMMA RunnerDeciding ==
  ASSUME IInv,
         \/ RunnerStep /\ ~AppendCommit
         \/ AppendTimeOut \/ RunnerCrash
  PROVE  RunnerDecides
<1>1. st \in JobStates /\ cause \in Causes
  BY DEF IInv, TypeOK
<1>2. CASE RunnerEnds /\ UNCHANGED <<st, cause>> /\ rpc # "dead"
  <2>1. SupervisionPhase \in {"supervising", "reported"} /\ SupervisionPhase' = "gone"
    BY <1>2 DEF RunnerEnds, RunnerGoto, SupervisionPhase
  <2>2. Watched!Die
    BY <1>2, <2>1 DEF Watched!Die
  <2>. QED
    BY <1>2, <2>2 DEF RunnerDecides, RunnerEnds, RunnerGoto
<1>3. CASE AppendBegin \/ AppendAwaitIntent \/ AppendLock
  <2>1. /\ SupervisionPhase' = SupervisionPhase /\ UNCHANGED <<st, cause>>
        /\ rpc = "run" => cause # "output_limit"
        /\ rpc \in {"run", "ap_wait", "ap_lock"}
    BY <1>3 DEF AppendBegin, AppendAwaitIntent, AppendLock, RunnerGoto, SupervisionPhase, disk
  <2>. QED
    BY <2>1 DEF RunnerDecides
<1>4. CASE AppendOutput /\ ~RunnerEnds
  <2>1. SupervisionPhase' = SupervisionPhase /\ UNCHANGED <<st, cause>> /\ rpc = "ap_check"
    BY <1>4 DEF AppendOutput, RunnerGoto, SupervisionPhase
  <2>. QED
    BY <2>1 DEF RunnerDecides
<1>5. CASE Poll
  <2>1. SupervisionPhase = "supervising" /\ SupervisionPhase' = "supervising" /\ UNCHANGED st
    BY <1>5 DEF Poll, SupervisionPhase, disk
  <2>2. Watched!Notice
    BY <1>5, <2>1 DEF Poll, Watched!Notice
  <2>. QED
    BY <1>5, <2>1, <2>2 DEF Poll, RunnerDecides
<1>6. CASE HardTimeout
  <2>1. SupervisionPhase = "supervising" /\ SupervisionPhase' = "supervising" /\ UNCHANGED st
    BY <1>6 DEF HardTimeout, SupervisionPhase, disk
  <2>2. Watched!TimeOut
    BY <1>6, <2>1 DEF HardTimeout, Watched!TimeOut
  <2>. QED
    BY <1>6, <2>1, <2>2 DEF HardTimeout, RunnerDecides
<1>7. CASE Supervised
  <2>1. SupervisionPhase = "supervising" /\ SupervisionPhase' = "reported" /\ UNCHANGED <<st, cause>>
    BY <1>7 DEF Supervised, RunnerGoto, SupervisionPhase, disk
  <2>2. Watched!Report
    BY <2>1 DEF Watched!Report
  <2>. QED
    BY <1>7, <2>1, <2>2 DEF Supervised, RunnerGoto, RunnerDecides
<1>8. CASE PublishOpen \/ PublishLockRecovery \/ (PublishMark /\ ~RunnerEnds)
           \/ PublishLockState \/ PublishClear
  <2>1. /\ SupervisionPhase' = SupervisionPhase /\ UNCHANGED <<st, cause>>
        /\ rpc' \notin {"ap_wait", "ap_lock", "ap_check", "ap_write"}
    BY <1>8 DEF PublishOpen, OpensRecoveryLock, PublishLockRecovery, PublishMark,
                PublishLockState, PublishClear, RunnerGoto, SupervisionPhase, disk
  <2>. QED
    BY <2>1 DEF RunnerDecides
<1>9. CASE PublishTerminal
  <2>1. /\ SupervisionPhase' = SupervisionPhase /\ UNCHANGED cause /\ rpc' = "pub_clear"
        /\ rpc = "pub_write"
    BY <1>9 DEF PublishTerminal, RunnerGoto, SupervisionPhase
  <2>2. rjob = st
    BY <2>1 DEF IInv, CopiesAreCurrent
  <2>3. \/ UNCHANGED st
        \/ \E exit \in Exits : st' = [st EXCEPT !.status = PublishedStatus(st, exit)]
    BY <1>9, <2>2 DEF PublishTerminal, WriteState, disk
  <2>4. st'.captured = st.captured /\ st'.cancelled = st.cancelled
    BY <1>1, <2>3 DEF JobStates
  <2>. QED
    BY <2>1, <2>4 DEF RunnerDecides
<1>10. CASE (AppendOutput \/ PublishMark) /\ RunnerEnds
  BY <1>2, <1>10 DEF AppendOutput, PublishMark, disk
<1>11. CASE PublishRelease \/ AppendTimeOut \/ RunnerCrash
  BY <1>2, <1>11 DEF PublishRelease, AppendTimeOut, RunnerCrash, disk
<1>. QED
  BY <1>3, <1>4, <1>5, <1>6, <1>7, <1>8, <1>9, <1>10, <1>11 DEF RunnerStep, RunnerPublishes

\* What one append stores, and whether it reaches the limit.
LEMMA AppendCommitStores ==
  ASSUME IInv, LimitNoticed, AppendCommit
  PROVE  [Watched!Next]_(Watched!vars) /\ LimitNoticed'
<1>1. /\ st \in JobStates /\ rjob \in JobStates /\ cause \in Causes /\ rpc = "ap_write" /\ rpc' = "run"
      /\ cause # "output_limit"
      /\ cause' = IF rjob.captured = Limit /\ cause = "normal" THEN "output_limit" ELSE cause
  BY DEF IInv, TypeOK, AppendCommit, RunnerGoto, LimitNoticed
<1>2. rjob = [st EXCEPT !.captured = rjob.captured] /\ st.captured <= rjob.captured
  BY <1>1 DEF IInv, CopiesAreCurrent
<1>3. /\ st.captured \in 0..Limit /\ rjob.captured \in 0..Limit /\ Limit \in Nat
      /\ rjob.cancelled = st.cancelled
  BY <1>1, <1>2, LimitTyped DEF JobStates
<1>4. SupervisionPhase = "supervising" /\ SupervisionPhase' = "supervising"
  BY <1>1 DEF SupervisionPhase
<1>5. CASE rjob.captured > st.captured
  <2>1. st' = rjob
    BY <1>5 DEF AppendCommit, WriteState
  <2>2. rjob.captured \in st.captured + 1 .. Limit
    BY <1>3, <1>5
  <2>3. Watched!Store(rjob.captured)
    BY <1>1, <1>3, <1>4, <2>1 DEF Watched!Store
  <2>4. Watched!Next
    BY <2>2, <2>3 DEF Watched!Next
  <2>5. LimitNoticed'
    BY <1>1, <1>3, <2>1 DEF LimitNoticed
  <2>. QED
    BY <2>4, <2>5
<1>6. CASE ~(rjob.captured > st.captured)
  <2>1. UNCHANGED st /\ rjob.captured = st.captured
    BY <1>2, <1>3, <1>6 DEF AppendCommit, disk
  <2>2. UNCHANGED cause
    BY <1>1, <1>3, <2>1 DEF LimitNoticed
  <2>3. UNCHANGED Watched!vars
    BY <1>4, <2>1, <2>2 DEF Watched!vars
  <2>4. LimitNoticed'
    BY <1>1, <2>1, <2>2 DEF LimitNoticed
  <2>. QED
    BY <2>3, <2>4
<1>. QED
  BY <1>5, <1>6

\* Every step is one of the supervision's, or none of its business.
LEMMA SupervisionStep ==
  ASSUME IInv, LimitNoticed, [Next]_vars
  PROVE  [Watched!Next]_(Watched!vars) /\ LimitNoticed'
<1>1. ASSUME NEW p \in Clients,
             \/ \E o \in Commands : Start(p, o)
             \/ ClientStep(p) \/ TimeOut(p) \/ WaitDeadline(p) \/ Crash(p)
      PROVE  [Watched!Next]_(Watched!vars) /\ LimitNoticed'
  <2>1. /\ UNCHANGED <<rpc, cause>> /\ st'.captured = st.captured
        /\ st'.cancelled = st.cancelled \/ st'.cancelled = TRUE
    BY <1>1, ClientsAside
  <2>2. SupervisionPhase' = SupervisionPhase
    BY <2>1 DEF SupervisionPhase
  <2>3. UNCHANGED Watched!vars \/ Watched!Request
    BY <2>1, <2>2 DEF Watched!vars, Watched!Request
  <2>4. LimitNoticed'
    BY <2>1 DEF LimitNoticed
  <2>. QED
    BY <2>3, <2>4 DEF Watched!Next
<1>2. CASE (RunnerStep /\ ~AppendCommit) \/ AppendTimeOut \/ RunnerCrash
  <2>1. RunnerDecides
    BY <1>2, RunnerDeciding
  <2>2. [Watched!Next]_(Watched!vars)
    BY <2>1 DEF RunnerDecides, Watched!vars, Watched!Next
  <2>3. LimitNoticed'
    BY <2>1 DEF RunnerDecides, LimitNoticed
  <2>. QED
    BY <2>2, <2>3
<1>3. CASE UNCHANGED vars
  BY <1>3 DEF vars, disk, runner, Watched!vars, LimitNoticed, SupervisionPhase
<1>. QED
  BY <1>1, <1>2, <1>3, AppendCommitStores DEF Next

\* However clients and the runner interleave, and whoever dies, the runner
\* stores, stops and reports as the supervision does that Supervisor implements
\* with processes and signals (superviseShell).
THEOREM KeepsSupervision == Spec => ImplementsSupervision
<1>1. Init => Watched!Init /\ LimitNoticed
  BY OutputAssumption DEF Init, Watched!Init, LimitNoticed, InitialJobState, SupervisionPhase
<1>2. IInv /\ LimitNoticed /\ [Next]_vars => [Watched!Next]_(Watched!vars) /\ LimitNoticed'
  BY SupervisionStep
<1>. QED
  BY <1>1, <1>2, Inductive, PTL DEF Spec, ImplementsSupervision, Watched!Spec
=============================================================================
