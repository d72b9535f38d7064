-------------------------- MODULE JobDeliveryProofs ---------------------------
(***************************************************************************)
(* Proof that a session's stored cursor covers only output that was         *)
(* delivered to it, for sessions that let the stored cursor decide where a  *)
(* wait starts.                                                             *)
(***************************************************************************)
EXTENDS JobStoreProofs

\* Nobody else moves, and the client is sound where it gets to.
SoundMove(p) ==
    /\ \A q \in Clients \ {p} : pc'[q] = pc[q] /\ loc'[q] = loc[q]
    /\ Sound(loc'[p], pc'[p], covered'[Me(p)])

LEMMA CoveredTyped ==
  ASSUME TypeOK, NEW p \in Clients
  PROVE  Me(p) \in Sessions /\ covered[Me(p)] \in 0..Limit /\ covered[Me(p)] >= 0
         /\ covered[Me(p)] \in Int
  BY SessionAssumption, LimitTyped DEF TypeOK, Me

LEMMA SoundBecome ==
  ASSUME TypeOK, NEW p \in Clients, NEW to, NEW l, Become(p, to, l), UNCHANGED covered,
         Sound(l, to, covered[Me(p)])
  PROVE  SoundMove(p)
  BY DEF Become, Goto, TypeOK, SoundMove, Me

LEMMA SoundGoto ==
  ASSUME TypeOK, NEW p \in Clients, NEW to, Goto(p, to), UNCHANGED <<loc, covered>>,
         Sound(loc[p], to, covered[Me(p)])
  PROVE  SoundMove(p)
  BY DEF Goto, TypeOK, SoundMove, Me

\* Nothing is promised of a command that just started or ended.
LEMMA BlankSound ==
  ASSUME NEW m \in Nat
  PROVE  /\ Sound(Blank, "idle", m)
         /\ \A o : Sound([Blank EXCEPT !.op = o], "snap", m)
  BY DEF Sound, Blank, BlankView, NoEntry

LEMMA EndsSound ==
  ASSUME TypeOK, NEW p \in Clients, Ends(p), UNCHANGED covered
  PROVE  SoundMove(p)
<1>1. covered[Me(p)] \in Nat
  BY CoveredTyped
<1>. QED
  BY <1>1, BlankSound, SoundBecome DEF Ends

LEMMA FailsSound ==
  ASSUME TypeOK, NEW p \in Clients, Fails(p)
  PROVE  SoundMove(p)
  BY EndsSound DEF Fails, history

LEMMA ViewSound ==
  ASSUME TypeOK, DeliveryInv, NEW p \in Clients
  PROVE  ViewFor(p).cursor <= covered[Me(p)] /\ ViewFor(p) \in Views
<1>1. st.cursor[Me(p)] <= covered[Me(p)]
  BY CoveredTyped DEF DeliveryInv, CursorWithinDelivered
<1>2. NoEntry <= covered[Me(p)]
  BY CoveredTyped DEF NoEntry
<1>. QED
  BY <1>1, <1>2, ViewTyped DEF ViewFor

LEMMA ObservedSound ==
  ASSUME Explicit = {}, TypeOK, NEW p \in Clients, NEW view \in Views, Observed(p, view),
         UNCHANGED covered, Sound(loc[p], pc[p], covered[Me(p)]),
         view.cursor <= covered[Me(p)]
  PROVE  SoundMove(p)
<1> DEFINE m == covered[Me(p)]
<1>1. m \in Nat /\ loc[p] \in Locals /\ loc[p].start <= m
  BY CoveredTyped DEF TypeOK, Sound
<1>2. \A c \in {loc[p].start, ResolveWaitCursor(view.cursor)} : c <= m
  BY <1>1 DEF ResolveWaitCursor
<1>3. CASE Become(p, "idle", Blank)
  BY <1>1, <1>3, BlankSound, SoundBecome
<1>4. ASSUME NEW s \in {"look", "read"}, NEW c, c <= m,
             Become(p, "snap", [Blank EXCEPT !.op = "wait", !.stage = s, !.start = c])
      PROVE  SoundMove(p)
  <2>1. Sound([Blank EXCEPT !.op = "wait", !.stage = s, !.start = c], "snap", m)
    BY <1>1, <1>4 DEF Sound, Blank, BlankView, NoEntry
  <2>. QED
    BY <1>4, <2>1, SoundBecome
<1>5. CASE /\ loc[p].op = "wait" /\ loc[p].stage = "read"
           /\ Become(p, "out", [loc[p] EXCEPT !.view = view, !.caller = "none", !.marked = FALSE])
  <2>1. Sound([loc[p] EXCEPT !.view = view, !.caller = "none", !.marked = FALSE], "out", m)
    BY <1>1, <1>5 DEF Sound, Locals
  <2>. QED
    BY <1>5, <2>1, SoundBecome
<1> HIDE DEF m
<1>. QED
  BY <1>2, <1>3, <1>4, <1>5 DEF Observed

LEMMA ReconciledSound ==
  ASSUME Explicit = {}, TypeOK, NEW p \in Clients, NEW active \in BOOLEAN,
         Reconciled(p, active), UNCHANGED covered, Sound(loc[p], pc[p], covered[Me(p)])
  PROVE  SoundMove(p)
<1> DEFINE m == covered[Me(p)]
           me == [loc[p] EXCEPT !.caller = "none", !.seen = Running, !.marked = FALSE]
<1>1. m \in Nat /\ loc[p] \in Locals
  BY CoveredTyped DEF TypeOK
<1>2. \A to \in {"wti", "final", "rm_open"} : Sound(me, to, m)
  BY <1>1 DEF Sound, Locals
<1>3. CASE \E to \in {"wti", "final", "rm_open"} : Become(p, to, me)
  BY <1>2, <1>3, SoundBecome
<1>4. CASE Become(p, "idle", Blank)
  BY <1>1, <1>4, BlankSound, SoundBecome
<1>5. CASE Observed(p, me.view)
  <2>1. me.view \in Views /\ me.view.cursor <= m
    BY <1>1 DEF Locals, Views, Sound
  <2>. QED
    BY <1>5, <2>1, ObservedSound
<1>6. CASE loc[p].caller = "cancel" /\ Become(p, "wti", [me EXCEPT !.stage = "mutate"])
  <2>1. Sound([me EXCEPT !.stage = "mutate"], "wti", m)
    BY <1>1, <1>6 DEF Sound, Locals
  <2>. QED
    BY <1>6, <2>1, SoundBecome
<1>. QED
  BY <1>3, <1>4, <1>5, <1>6 DEF Reconciled

\* The response carries what it delivered into the commit.
LEMMA RespondSound ==
  ASSUME TypeOK, DeliveryInv, NEW p \in Clients, Respond(p)
  PROVE  SoundMove(p)
<1>1. CASE Fails(p)
  BY <1>1, FailsSound
<1>2. CASE Committing(p) /\ Delivered(p)
  <2> DEFINE m == covered[Me(p)]
             next == loc[p].view.captured
  <2>1. m \in Int /\ loc[p] \in Locals /\ next \in Int /\ Me(p) \in Sessions
    BY CoveredTyped, LimitTyped DEF TypeOK, Locals
  <2>2. loc[p].start <= m /\ loc[p].view.cursor <= m /\ Sound(loc[p], pc[p], m)
    BY DEF DeliveryInv, Sound
  <2>3. covered'[Me(p)] = IF next > m THEN next ELSE m
    BY <1>2, <2>1, <2>2 DEF Delivered, TypeOK, Me
  <2>4. m <= covered'[Me(p)] /\ next <= covered'[Me(p)] /\ covered'[Me(p)] \in Int
    BY <2>1, <2>3
  <2>5. Sound([loc[p] EXCEPT !.stage = "mutate"], "wti", covered'[Me(p)])
    <3>1. loc[p].start \in Int /\ loc[p].view.cursor \in Int
      BY <2>1, LimitTyped DEF Locals
    <3>. QED
      BY <2>1, <2>2, <2>4, <3>1 DEF Sound, Locals
  <2>. QED
    BY <1>2, <2>5 DEF Committing, Become, Goto, TypeOK, SoundMove, Me
<1>. QED
  BY <1>1, <1>2 DEF Respond

LEMMA ObservingSound ==
  ASSUME Explicit = {}, TypeOK, DeliveryInv, NEW p \in Clients,
         \/ \E o \in Commands : Start(p, o)
         \/ Snapshot(p) \/ AwaitIntent(p) \/ Resnapshot(p) \/ ReadLog(p)
         \/ DeadlineSnapshot(p) \/ WaitDeadline(p)
  PROVE  SoundMove(p)
<1> DEFINE m == covered[Me(p)]
<1>1. m \in Nat /\ m \in Int /\ loc[p] \in Locals /\ Sound(loc[p], pc[p], m) /\ loc[p].start <= m
  BY CoveredTyped DEF TypeOK, DeliveryInv, Sound
<1>2. ViewFor(p) \in Views /\ ViewFor(p).cursor <= m
  BY ViewSound
<1>3. CASE Fails(p)
  BY <1>3, FailsSound
<1>4. CASE Observed(p, ViewFor(p)) /\ UNCHANGED covered
  BY <1>1, <1>2, <1>4, ObservedSound
<1>5. CASE \E o \in Commands : Start(p, o)
  BY <1>1, <1>5, BlankSound, SoundBecome DEF Start, history
<1>6. CASE Snapshot(p)
  <2>1. CASE /\ loc[p].op = "cancel" /\ UNCHANGED covered
             /\ Become(p, "rc_open", [loc[p] EXCEPT !.caller = "cancel"])
    <3>1. Sound([loc[p] EXCEPT !.caller = "cancel"], "rc_open", m)
      BY <1>1, <2>1 DEF Sound, Locals
    <3>. QED
      BY <2>1, <3>1, SoundBecome
  <2>2. CASE /\ loc[p].op = "cancel" /\ UNCHANGED covered
             /\ Become(p, "wti", [loc[p] EXCEPT !.stage = "mutate"])
    <3>1. Sound([loc[p] EXCEPT !.stage = "mutate"], "wti", m)
      BY <1>1, <2>2 DEF Sound, Locals
    <3>. QED
      BY <2>2, <3>1, SoundBecome
  <2>3. CASE \E to \in {"wti", "rm_popen", "rm_open"} :
               Goto(p, to) /\ UNCHANGED <<loc, covered>>
    <3>1. \A to \in {"wti", "rm_popen", "rm_open"} : Sound(loc[p], to, m)
      BY <1>1 DEF Sound
    <3>. QED
      BY <2>3, <3>1, SoundGoto
  <2>. QED
    BY <1>3, <1>4, <1>6, <2>1, <2>2, <2>3, Zenon DEF Snapshot, history
<1>7. CASE AwaitIntent(p)
  <2>1. CASE Become(p, "rc_open", [loc[p] EXCEPT !.caller = "wti"]) /\ UNCHANGED covered
    <3>1. Sound([loc[p] EXCEPT !.caller = "wti"], "rc_open", m)
      BY <1>1 DEF Sound, Locals
    <3>. QED
      BY <2>1, <3>1, SoundBecome
  <2>2. CASE /\ Goto(p, IF loc[p].stage = "mutate" THEN "m_open" ELSE "resnap")
             /\ UNCHANGED <<loc, covered>>
    <3>1. Sound(loc[p], IF loc[p].stage = "mutate" THEN "m_open" ELSE "resnap", m)
      BY <1>1 DEF Sound
    <3>. QED
      BY <2>2, <3>1, SoundGoto
  <2>. QED
    BY <1>3, <1>7, <2>1, <2>2 DEF AwaitIntent, history
<1>8. CASE Resnapshot(p)
  <2>1. CASE /\ pc[p] = "resnap" /\ UNCHANGED covered
             /\ Become(p, "rc_open", [loc[p] EXCEPT !.view = ViewFor(p), !.caller = "observe"])
    <3>1. Sound([loc[p] EXCEPT !.view = ViewFor(p), !.caller = "observe"], "rc_open", m)
      BY <1>1, <1>2, <2>1 DEF Sound, Locals
    <3>. QED
      BY <2>1, <3>1, SoundBecome
  <2>. QED
    BY <1>3, <1>4, <1>8, <2>1 DEF Resnapshot, history
<1>9. CASE ReadLog(p)
  <2>1. CASE Goto(p, "respond") /\ UNCHANGED <<loc, covered>>
    <3>1. Sound(loc[p], "respond", m)
      BY <1>1 DEF Sound
    <3>. QED
      BY <2>1, <3>1, SoundGoto
  <2>2. CASE /\ Become(p, "snap", [Blank EXCEPT !.op = "wait", !.start = loc[p].start])
             /\ UNCHANGED covered
    <3>1. Sound([Blank EXCEPT !.op = "wait", !.start = loc[p].start], "snap", m)
      BY <1>1 DEF Sound, Blank, BlankView, NoEntry
    <3>. QED
      BY <2>2, <3>1, SoundBecome
  <2>. QED
    BY <1>3, <1>9, <2>1, <2>2 DEF ReadLog, history
<1>10. CASE DeadlineSnapshot(p)
  <2>1. ASSUME NEW c \in {loc[p].start, ResolveWaitCursor(st.cursor[Me(p)])},
               pc[p] = "deadline", UNCHANGED covered,
               Become(p, "out", [loc[p] EXCEPT !.view = ViewFor(p), !.start = c])
        PROVE  SoundMove(p)
    <3>1. c <= m
      BY <1>1, <2>1, CoveredTyped DEF ResolveWaitCursor, DeliveryInv, CursorWithinDelivered
    <3>2. Sound([loc[p] EXCEPT !.view = ViewFor(p), !.start = c], "out", m)
      BY <1>1, <1>2, <2>1, <3>1 DEF Sound, Locals
    <3>. QED
      BY <2>1, <3>2, SoundBecome
  <2>. QED
    BY <1>3, <1>10, <2>1 DEF DeadlineSnapshot, history
<1>11. CASE WaitDeadline(p)
  <2> DEFINE l == [Blank EXCEPT !.op = "wait", !.stage = "last", !.start = loc[p].start]
  <2>1. Sound(l, "deadline", m)
    BY <1>1 DEF Sound, Blank, BlankView, NoEntry
  <2>. QED
    BY <1>11, <2>1, SoundBecome DEF WaitDeadline, history
<1>. QED
  BY <1>5, <1>6, <1>7, <1>8, <1>9, <1>10, <1>11

LEMMA ReconcilingSound ==
  ASSUME Explicit = {}, TypeOK, DeliveryInv, NEW p \in Clients,
         \/ OpenRecovery(p) \/ LockRecovery(p) \/ InspectIntent(p) \/ OpenLockFile(p)
         \/ LeaseBusy(p) \/ TakeLease(p) \/ DropStaleIntent(p) \/ MarkIntent(p)
         \/ ReleaseLease(p)
  PROVE  SoundMove(p)
<1> DEFINE m == covered[Me(p)]
<1>1. m \in Nat /\ m \in Int /\ loc[p] \in Locals /\ Sound(loc[p], pc[p], m)
  BY CoveredTyped DEF TypeOK, DeliveryInv
<1>2. CASE Fails(p)
  BY <1>2, FailsSound
<1>3. CASE \E active \in BOOLEAN : Reconciled(p, active) /\ UNCHANGED covered
  BY <1>1, <1>3, ReconciledSound
<1>4. CASE OpenRecovery(p) /\ ~Fails(p)
  <2>1. PICK i \in Inodes : Become(p, "rc_lock", [loc[p] EXCEPT !.fd = i])
    BY <1>4 DEF OpenRecovery
  <2>2. Sound([loc[p] EXCEPT !.fd = i], "rc_lock", m)
    BY <1>1 DEF Sound, Locals
  <2>. QED
    BY <1>4, <2>1, <2>2, SoundBecome DEF OpenRecovery, history
<1>5. CASE LockRecovery(p) /\ ~Fails(p)
  <2>1. Sound([loc[p] EXCEPT !.seen = st.status], "rc_intent", m)
    BY <1>1 DEF Sound, Locals
  <2>. QED
    BY <1>5, <2>1, SoundBecome DEF LockRecovery, history
<1>6. CASE InspectIntent(p)
  <2>1. Sound([loc[p] EXCEPT !.marked = Pending], "rc_ropen", m)
    BY <1>1 DEF Sound, Locals
  <2>. QED
    BY <1>3, <1>6, <2>1, SoundBecome DEF InspectIntent, history
<1>7. CASE OpenLockFile(p) /\ ~Fails(p)
  <2>1. /\ pc[p] \in Opens /\ Goto(p, AfterOpen(pc[p])) /\ UNCHANGED <<loc, covered>>
    BY <1>7 DEF OpenLockFile, history
  <2>2. Sound(loc[p], AfterOpen(pc[p]), m)
    BY <1>1, <2>1 DEF Sound, Opens, AfterOpen
  <2>. QED
    BY <2>1, <2>2, SoundGoto
<1>8. CASE LeaseBusy(p)
  <2>1. CASE loc[p].caller = "cancel" /\ Goto(p, "ca_open") /\ UNCHANGED <<loc, covered>>
    <3>1. Sound(loc[p], "ca_open", m)
      BY <1>1, <2>1 DEF Sound
    <3>. QED
      BY <2>1, <3>1, SoundGoto
  <2>. QED
    BY <1>3, <1>8, <2>1 DEF LeaseBusy, history
<1>9. CASE TakeLease(p) \/ DropStaleIntent(p) \/ (MarkIntent(p) /\ ~Fails(p))
  <2>1. PICK to \in {"rc_drop", "rc_sopen", "rc_mark", "rc_release"} :
           Goto(p, to) /\ UNCHANGED <<loc, covered>>
    BY <1>9 DEF TakeLease, DropStaleIntent, MarkIntent, history
  <2>2. Sound(loc[p], to, m)
    BY <1>1, <2>1 DEF Sound
  <2>. QED
    BY <2>1, <2>2, SoundGoto
<1>10. CASE ReleaseLease(p)
  BY <1>3, <1>10 DEF ReleaseLease, history
<1>. QED
  BY <1>2, <1>4, <1>5, <1>6, <1>7, <1>8, <1>9, <1>10

LEMMA MutatingSound ==
  ASSUME TypeOK, DeliveryInv, NEW p \in Clients,
         \/ LockState(p) \/ PublishLost(p) \/ ClearIntent(p) \/ RecheckIntent(p)
         \/ MutateState(p) \/ TimeOut(p) \/ Crash(p)
  PROVE  SoundMove(p)
<1> DEFINE m == covered[Me(p)]
<1>1. m \in Int /\ loc[p] \in Locals /\ Sound(loc[p], pc[p], m)
  BY CoveredTyped DEF TypeOK, DeliveryInv
<1>2. CASE Fails(p)
  BY <1>2, FailsSound
<1>3. CASE LockState(p) /\ ~Fails(p)
  <2>1. pc[p] \in LockWaits /\ Goto(p, AfterLock(pc[p])) /\ UNCHANGED <<loc, covered>>
    BY <1>3 DEF LockState, history
  <2>2. Sound(loc[p], AfterLock(pc[p]), m)
    BY <1>1, <2>1 DEF Sound, LockWaits, AfterLock
  <2>. QED
    BY <2>1, <2>2, SoundGoto
<1>4. CASE PublishLost(p) \/ ClearIntent(p)
  <2>1. PICK to \in {"rc_clear", "rc_release"} : Goto(p, to) /\ UNCHANGED <<loc, covered>>
    BY <1>4, Zenon DEF PublishLost, ClearIntent, WriteState, history
  <2>2. Sound(loc[p], to, m)
    BY <1>1, <2>1 DEF Sound
  <2>. QED
    BY <2>1, <2>2, SoundGoto
<1>5. CASE RecheckIntent(p)
  <2>1. PICK to \in {"wti", "m_write"} : Goto(p, to) /\ UNCHANGED <<loc, covered>>
    BY <1>5, Zenon DEF RecheckIntent, history
  <2>2. Sound(loc[p], to, m)
    BY <1>1, <1>5, <2>1 DEF RecheckIntent, Sound
  <2>. QED
    BY <2>1, <2>2, SoundGoto
<1>6. CASE MutateState(p)
  BY <1>6, EndsSound DEF MutateState, WriteState, history
<1>. QED
  BY <1>2, <1>3, <1>4, <1>5, <1>6 DEF TimeOut, Crash

LEMMA RemovingSound ==
  ASSUME TypeOK, DeliveryInv, NEW p \in Clients,
         \/ ProbeLease(p) \/ Unprobe(p) \/ LeaseForRemoval(p) \/ ListDirectory(p)
         \/ Unlink(p) \/ RemoveDirectory(p)
  PROVE  SoundMove(p)
<1> DEFINE m == covered[Me(p)]
<1>1. m \in Nat /\ m \in Int /\ loc[p] \in Locals /\ Sound(loc[p], pc[p], m)
  BY CoveredTyped DEF TypeOK, DeliveryInv
<1>2. CASE Fails(p)
  BY <1>2, FailsSound
<1>3. CASE (ProbeLease(p) \/ LeaseForRemoval(p)) /\ ~Fails(p)
  <2>1. PICK to \in {"rm_unprobe", "rm_sopen"} : Goto(p, to) /\ UNCHANGED <<loc, covered>>
    BY <1>3, Zenon DEF ProbeLease, LeaseForRemoval, history
  <2>2. Sound(loc[p], to, m)
    BY <1>1, <2>1 DEF Sound
  <2>. QED
    BY <2>1, <2>2, SoundGoto
<1>4. CASE Unprobe(p)
  <2>1. Sound([loc[p] EXCEPT !.caller = "remove"], "rc_open", m)
    BY <1>1 DEF Sound, Locals
  <2>. QED
    BY <1>4, <2>1, SoundBecome DEF Unprobe, history
<1>5. ASSUME NEW todo, Become(p, "rm_unlink", [loc[p] EXCEPT !.todo = todo]), UNCHANGED covered
      PROVE  SoundMove(p)
  <2>1. Sound([loc[p] EXCEPT !.todo = todo], "rm_unlink", m)
    BY <1>1 DEF Sound, Locals
  <2>. QED
    BY <1>5, <2>1, SoundBecome
<1>6. CASE ListDirectory(p)
  BY <1>2, <1>5, <1>6 DEF ListDirectory, history
<1>7. CASE Unlink(p)
  <2>1. CASE Become(p, "rm_rmdir", [loc[p] EXCEPT !.view = BlankView]) /\ UNCHANGED covered
    <3>1. Sound([loc[p] EXCEPT !.view = BlankView], "rm_rmdir", m)
      BY <1>1 DEF Sound, Locals, BlankView, NoEntry
    <3>. QED
      BY <2>1, <3>1, SoundBecome
  <2>. QED
    BY <1>2, <1>5, <1>7, <2>1 DEF Unlink, history
<1>8. CASE RemoveDirectory(p)
  BY <1>8, EndsSound DEF RemoveDirectory, history
<1>. QED
  BY <1>2, <1>3, <1>4, <1>6, <1>7, <1>8

-----------------------------------------------------------------------------
\* What the sessions were delivered is only gained, and stays ahead of what
\* the record says they acknowledged.

LEMMA CoveredGrows ==
  ASSUME TypeOK, Next
  PROVE  \A s \in Sessions : covered'[s] >= covered[s]
<1>1. \A s \in Sessions : covered[s] \in Int
  BY LimitTyped DEF TypeOK
<1>2. CASE UNCHANGED covered
  BY <1>1, <1>2
<1>3. ASSUME NEW p \in Clients, Fails(p)
      PROVE  UNCHANGED covered
  BY <1>3 DEF Fails, history
<1>4. ASSUME NEW p \in Clients, Respond(p)
      PROVE  \A s \in Sessions : covered'[s] >= covered[s]
  <2>1. CASE Delivered(p)
    <3>1. loc[p].view.captured \in Int /\ Me(p) \in Sessions
      BY LimitTyped, SessionAssumption DEF TypeOK, Locals, Me
    <3>. QED
      BY <1>1, <2>1, <3>1 DEF Delivered, TypeOK
  <2>. QED
    BY <1>2, <1>3, <1>4, <2>1 DEF Respond
<1>5. ASSUME NEW p \in Clients,
             \/ \E o \in Commands : Start(p, o)
             \/ Snapshot(p) \/ AwaitIntent(p) \/ Resnapshot(p) \/ ReadLog(p)
             \/ DeadlineSnapshot(p) \/ WaitDeadline(p)
      PROVE  UNCHANGED covered
  BY <1>3, <1>5 DEF Start, Snapshot, AwaitIntent, Resnapshot, ReadLog, DeadlineSnapshot,
                    WaitDeadline, history
<1>6. ASSUME NEW p \in Clients,
             \/ OpenRecovery(p) \/ LockRecovery(p) \/ InspectIntent(p) \/ OpenLockFile(p)
             \/ LeaseBusy(p) \/ TakeLease(p) \/ DropStaleIntent(p) \/ MarkIntent(p)
             \/ ReleaseLease(p)
      PROVE  UNCHANGED covered
  BY <1>3, <1>6 DEF OpenRecovery, LockRecovery, InspectIntent, OpenLockFile, LeaseBusy,
                    TakeLease, DropStaleIntent, MarkIntent, ReleaseLease, history
<1>7. ASSUME NEW p \in Clients,
             \/ LockState(p) \/ PublishLost(p) \/ ClearIntent(p) \/ RecheckIntent(p)
             \/ MutateState(p) \/ TimeOut(p) \/ Crash(p)
      PROVE  UNCHANGED covered
  BY <1>3, <1>7 DEF LockState, PublishLost, ClearIntent, RecheckIntent, MutateState,
                    WriteState, TimeOut, Crash, history
<1>8. ASSUME NEW p \in Clients,
             \/ ProbeLease(p) \/ Unprobe(p) \/ LeaseForRemoval(p) \/ ListDirectory(p)
             \/ Unlink(p) \/ RemoveDirectory(p)
      PROVE  UNCHANGED covered
  BY <1>3, <1>8 DEF ProbeLease, Unprobe, LeaseForRemoval, ListDirectory, Unlink,
                    RemoveDirectory, history
<1>9. CASE RunnerStep \/ AppendTimeOut \/ RunnerCrash
  <2>1. UNCHANGED covered
    BY <1>9 DEF RunnerStep, RunnerPublishes, AppendBegin, AppendAwaitIntent, AppendLock,
       AppendOutput, AppendCommit, Poll, HardTimeout, Supervised, PublishOpen,
       PublishLockRecovery, PublishMark, PublishLockState, PublishTerminal, PublishClear,
       PublishRelease, AppendTimeOut, RunnerCrash, WriteState, history
  <2>. QED
    BY <1>2, <2>1
<1>. QED
  BY <1>2, <1>4, <1>5, <1>6, <1>7, <1>8, <1>9 DEF Next, ClientStep

LEMMA CursorsStayDelivered ==
  ASSUME IInv, DeliveryInv, Next, NEW s \in Sessions
  PROVE  st'.cursor[s] <= covered[s]
<1>1. st \in JobStates /\ covered[s] \in Int /\ st.cursor[s] <= covered[s]
  BY LimitTyped DEF IInv, TypeOK, DeliveryInv, CursorWithinDelivered
<1>2. CASE st'.cursor = st.cursor
  BY <1>1, <1>2
<1>3. ASSUME NEW p \in Clients, PublishLost(p), st' # st
      PROVE  st'.cursor = st.cursor
  <2>1. st' = Lost(st)
    BY <1>3 DEF PublishLost, WriteState, disk, IInv, CopiesAreCurrent, HoldsState
  <2>. QED
    BY <1>1, <2>1 DEF Lost, JobStates
<1>4. ASSUME NEW p \in Clients, MutateState(p), st' # st
      PROVE  st'.cursor[s] <= covered[s]
  <2> DEFINE next == loc[p].view.captured
  <2>1. job[p] = st /\ Sound(loc[p], pc[p], covered[Me(p)]) /\ pc[p] \in {"m_write", "ca_write"}
    BY <1>4 DEF MutateState, IInv, CopiesAreCurrent, HoldsState, DeliveryInv
  <2>2. CASE loc[p].op = "wait"
    <3>1. next <= covered[Me(p)]
      BY <2>1, <2>2 DEF Sound
    <3>2. st' = CommitWait(st, Me(p), next)
      BY <1>4, <2>1, <2>2 DEF MutateState, WriteState, disk
    <3>3. st'.cursor = st.cursor \/ st'.cursor = [st.cursor EXCEPT ![Me(p)] = next]
      BY <1>1, <3>2 DEF CommitWait, JobStates
    <3>. QED
      BY <1>1, <3>1, <3>3 DEF JobStates
  <2>3. CASE loc[p].op # "wait"
    <3>1. st' = CancelLocked(st)
      BY <1>4, <2>1, <2>3 DEF MutateState, WriteState, disk
    <3>2. st'.cursor = st.cursor
      BY <1>1, <3>1 DEF CancelLocked, JobStates
    <3>. QED
      BY <1>2, <3>2
  <2>. QED
    BY <2>2, <2>3
<1>5. CASE AppendCommit /\ st' # st
  <2>1. rpc = "ap_write" /\ st' = rjob
    BY <1>5 DEF AppendCommit, WriteState, disk
  <2>2. rjob = [st EXCEPT !.captured = rjob.captured]
    BY <2>1 DEF IInv, CopiesAreCurrent
  <2>. QED
    BY <1>1, <1>2, <2>1, <2>2 DEF JobStates
<1>6. CASE PublishTerminal /\ st' # st
  <2>1. PICK exit \in Exits : st' = [st EXCEPT !.status = PublishedStatus(st, exit)]
    BY <1>6 DEF PublishTerminal, WriteState, disk, IInv, CopiesAreCurrent
  <2>. QED
    BY <1>1, <1>2, <2>1 DEF JobStates
<1>. QED
  BY <1>2, <1>3, <1>4, <1>5, <1>6, RecordWriters

LEMMA NextDelivery ==
  ASSUME Explicit = {}
  PROVE  IInv /\ DeliveryInv /\ [Next]_vars => DeliveryInv'
<1> SUFFICES ASSUME IInv, DeliveryInv, [Next]_vars PROVE DeliveryInv'
  OBVIOUS
<1>1. TypeOK /\ TypeOK'
  BY NextInductive DEF IInv
<1>2. CASE UNCHANGED vars
  BY <1>2 DEF vars, disk, client, history, DeliveryInv, CursorWithinDelivered, Me
<1>3. CASE Next
  <2>1. \A s \in Sessions : /\ covered[s] \in Int /\ covered'[s] \in Int
                            /\ covered'[s] >= covered[s]
    BY <1>1, <1>3, CoveredGrows, LimitTyped DEF TypeOK
  <2>2. CursorWithinDelivered'
    <3>1. \A s \in Sessions : st'.cursor[s] \in Int
      BY <1>1, LimitTyped DEF TypeOK, JobStates
    <3>. QED
      BY <1>3, <2>1, <3>1, CursorsStayDelivered DEF CursorWithinDelivered
  <2>3. ASSUME NEW q \in Clients, pc'[q] = pc[q], loc'[q] = loc[q]
        PROVE  Sound(loc'[q], pc'[q], covered'[Me(q)])
    <3>1. loc[q] \in Locals /\ Sound(loc[q], pc[q], covered[Me(q)]) /\ Me(q) \in Sessions
      BY <1>1, CoveredTyped DEF TypeOK, DeliveryInv
    <3>2. loc[q].start \in Int /\ loc[q].view.cursor \in Int /\ loc[q].view.captured \in Int
      BY <3>1, LimitTyped DEF Locals
    <3>. QED
      BY <2>1, <2>3, <3>1, <3>2 DEF Sound
  <2>4. ASSUME NEW p \in Clients, SoundMove(p), NEW q \in Clients
        PROVE  Sound(loc'[q], pc'[q], covered'[Me(q)])
    BY <2>3, <2>4 DEF SoundMove
  <2>5. ASSUME NEW p \in Clients,
               \/ \E o \in Commands : Start(p, o)
               \/ ClientStep(p) \/ TimeOut(p) \/ WaitDeadline(p) \/ Crash(p)
        PROVE  SoundMove(p)
    BY <1>1, <2>5, ObservingSound, RespondSound, ReconcilingSound, MutatingSound, RemovingSound
       DEF ClientStep
  <2>6. CASE RunnerStep \/ AppendTimeOut \/ RunnerCrash
    <3>1. UNCHANGED <<pc, loc>>
      BY <2>6 DEF RunnerStep, RunnerPublishes, AppendBegin, AppendAwaitIntent, AppendLock,
         AppendOutput, AppendCommit, Poll, HardTimeout, Supervised, PublishOpen,
         PublishLockRecovery, PublishMark, PublishLockState, PublishTerminal, PublishClear,
         PublishRelease, AppendTimeOut, RunnerCrash, client
    <3>. QED
      BY <2>2, <2>3, <3>1 DEF DeliveryInv, Me
  <2>. QED
    BY <1>3, <2>2, <2>4, <2>5, <2>6 DEF Next, DeliveryInv, Me
<1>. QED
  BY <1>2, <1>3

\* As long as no request names a cursor itself, a session's stored cursor
\* covers only output that some response delivered to it, whatever crashes or
\* times out between the response and the commit (app.go: afterWrite).
THEOREM NothingSkipped ==
  ASSUME Explicit = {}
  PROVE  Spec => []CursorWithinDelivered
<1>1. Init => DeliveryInv
  <2>1. \A m \in Nat : Sound(Blank, "idle", m)
    BY BlankSound
  <2>2. ASSUME Init
        PROVE  DeliveryInv
    <3>1. \A p \in Clients : Me(p) \in Sessions
      BY SessionAssumption DEF Me
    <3>. QED
      BY <2>1, <2>2, <3>1 DEF Init, InitialJobState, NoEntry, DeliveryInv, CursorWithinDelivered
  <2>. QED
    BY <2>2
<1>2. IInv /\ DeliveryInv /\ [Next]_vars => DeliveryInv'
  BY NextDelivery
<1>3. DeliveryInv => CursorWithinDelivered
  BY DEF DeliveryInv
<1>. QED
  BY <1>1, <1>2, <1>3, Inductive, PTL DEF Spec
=============================================================================
