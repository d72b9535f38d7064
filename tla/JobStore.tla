------------------------------ MODULE JobStore -------------------------------
(***************************************************************************)
(* One committed job of internal/runner: the files of its directory        *)
(* .managed_bash/jobs/<id>, the three flock files that guard them, the      *)
(* detached runner that owns the job, and the short-lived processes that    *)
(* observe, wait for, cancel and remove it.                                 *)
(*                                                                         *)
(* Granularity.  Processes interleave at file-system calls: an action does  *)
(* at most one access to something another process may be changing, after   *)
(* the locks it acquires and before the locks it releases.  A process may   *)
(* crash between any two actions; the kernel then drops its flocks and the  *)
(* directory stays as it is.                                                *)
(*                                                                         *)
(* Left out: runtime.json (written before the job is visible, never         *)
(* changed), the temporary file of an atomic write, and I/O errors other    *)
(* than missing files.                                                      *)
(***************************************************************************)
EXTENDS JobPolicy, FiniteSets

CONSTANTS
    Clients,      \* processes running one CLI command at a time
    Runner,       \* the detached runner process
    NoOne,        \* the holder of a free lock
    Sessions,     \* session identities
    Owner,        \* the session that started the job
    SessionOf,    \* the session each client acts for
    Ops,          \* the commands each client may issue
    Limit,        \* output_limit_bytes
    Chunks,       \* sizes of the chunks the shell may write
    Exits,        \* how the shell may end when left alone
    Explicit,     \* cursors a wait request may name explicitly
    Inodes,       \* identities of recovery.lock files
    MayTimeOut,   \* processes whose bounded lock waits may expire
    MayCrash      \* processes that may be killed

Procs == Clients \cup {Runner}

Commands == {"status", "wait", "cancel", "remove"}

ASSUME ProcsAssumption == Runner \notin Clients /\ NoOne \notin Procs
ASSUME SessionAssumption ==
    Owner \in Sessions /\ SessionOf \in [Clients -> Sessions]
ASSUME OpsAssumption == Ops \in [Clients -> SUBSET Commands]
ASSUME OutputAssumption ==
    Limit \in Nat \ {0} /\ Chunks \subseteq Nat \ {0} /\ Explicit \subseteq Nat
ASSUME ExitsAssumption == Exits \subseteq ExitStatuses
ASSUME InodesAssumption == Inodes \subseteq Nat /\ 0 \in Inodes

VARIABLES
    \* the job directory
    files,        \* names present in it
    dirExists,    \* whether the directory itself is still there
    st,           \* contents of state.json
    logSize,      \* bytes in output.log
    recInode,     \* which file the name recovery.lock denotes
    \* flock holders
    stateLock, runnerLock, recLock,
    \* the runner
    rpc, rjob, cause, rfd,
    \* the clients
    pc, job, loc,
    \* history, for the properties only
    covered,      \* per session, the prefix of output its responses delivered
    bypass        \* running-state writes since terminal.pending appeared

disk == <<files, dirExists, st, logSize, recInode>>
locks == <<stateLock, runnerLock, recLock>>
runner == <<rpc, rjob, cause, rfd>>
client == <<pc, job, loc>>
history == <<covered, bypass>>
vars == <<disk, locks, runner, client, history>>

-----------------------------------------------------------------------------
\* Data.

FileNames == {"state.lock", "runner.lock", "recovery.lock", "output.log",
              "state.json", "terminal.pending"}

JobStates == [status : Statuses, captured : 0..Limit, cancelled : BOOLEAN,
              cursor : [Sessions -> NoEntry..Limit]]

InitialJobState == [status |-> Running, captured |-> 0, cancelled |-> FALSE,
                    cursor |-> [s \in Sessions |-> NoEntry]]

\* What a client keeps between its steps besides the record it locked.
BlankView == [status |-> Running, captured |-> 0, cursor |-> NoEntry]
Blank == [op |-> "none", stage |-> "look", caller |-> "none", view |-> BlankView,
          seen |-> Running, marked |-> FALSE, start |-> NoEntry, fd |-> 0,
          todo |-> {}]

Me(p) == SessionOf[p]
Present(name) == name \in files
Pending == Present("terminal.pending")

\* The snapshot a reader of state.json takes; the stored cursor matters to a
\* wait that has not settled where it starts.
ViewFor(p) == [status |-> st.status, captured |-> st.captured,
               cursor |-> IF loc[p].op = "wait" /\ loc[p].start = NoEntry
                          THEN st.cursor[Me(p)] ELSE NoEntry]

-----------------------------------------------------------------------------
\* Steps of a client.

Goto(p, to) == pc' = [pc EXCEPT ![p] = to]
Become(p, to, local) == Goto(p, to) /\ loc' = [loc EXCEPT ![p] = local]

Dropped(holder, p) == IF holder = p THEN NoOne ELSE holder
DropRecovery(p) == recLock' = [i \in Inodes |-> Dropped(recLock[i], p)]

\* The process is gone, or its command returned: every lock it had is free.
DropAll(p) ==
    /\ stateLock' = Dropped(stateLock, p)
    /\ runnerLock' = Dropped(runnerLock, p)
    /\ DropRecovery(p)
Ends(p) ==
    /\ Become(p, "idle", Blank)
    /\ job' = [job EXCEPT ![p] = InitialJobState]
    /\ DropAll(p)
Fails(p) == Ends(p) /\ UNCHANGED <<disk, runner, history>>

Start(p, o) ==
    /\ pc[p] = "idle"
    /\ o \in Ops[p]
    /\ Become(p, "snap", [Blank EXCEPT !.op = o])
    /\ UNCHANGED <<disk, locks, runner, history, job>>

\* An observation is complete.  status returns it.  wait first settles its
\* cursor and polls until it decides to return, then observes once more for
\* the output it returns.
Observed(p, view) ==
    LET me == loc[p]
        cursors == IF me.start # NoEntry THEN {me.start}
                   ELSE {ResolveWaitCursor(view.cursor)} \cup Explicit
        stages == IF view.status = Running THEN {"look", "read"} ELSE {"read"}
    IN  \/ me.op = "status" /\ Become(p, "idle", Blank)
        \/ /\ me.op = "wait" /\ me.stage = "look"
           /\ \E c \in cursors :
                IF c > view.captured
                THEN Become(p, "idle", Blank)
                ELSE \E s \in stages :
                       Become(p, "snap", [Blank EXCEPT !.op = "wait", !.stage = s, !.start = c])
        \/ /\ me.op = "wait" /\ me.stage = "read"
           /\ Become(p, "out", [me EXCEPT !.view = view, !.caller = "none", !.marked = FALSE])

\* The snapshot every command starts from, and the authorization it applies.
Snapshot(p) ==
    LET me == loc[p]
        denied == me.op \in {"cancel", "remove"} /\ ~MayMutate(Me(p), Owner)
        running == st.status = Running
    IN  /\ pc[p] = "snap"
        /\ IF ~Present("state.json") \/ denied
           THEN Fails(p)
           ELSE /\ \/ /\ me.op \in {"status", "wait"} /\ running
                      /\ Goto(p, "wti") /\ UNCHANGED loc
                   \/ /\ me.op \in {"status", "wait"} /\ ~running
                      /\ Observed(p, ViewFor(p))
                   \/ /\ me.op = "cancel" /\ running
                      /\ Become(p, "rc_open", [me EXCEPT !.caller = "cancel"])
                   \/ /\ me.op = "cancel" /\ ~running
                      /\ Become(p, "wti", [me EXCEPT !.stage = "mutate"])
                   \/ /\ me.op = "remove"
                      /\ Goto(p, IF running THEN "rm_popen" ELSE "rm_open")
                      /\ UNCHANGED loc
                /\ UNCHANGED <<disk, locks, runner, history, job>>

\* One round of waitForTerminalIntent: a pending publication is reconciled
\* before the caller goes on.
IntentBlocks_Ignored == FALSE
IntentBlocks == Pending

AwaitIntent(p) ==
    /\ pc[p] = "wti"
    /\ \/ ~dirExists /\ Fails(p)
       \/ /\ dirExists
          /\ IF IntentBlocks
             THEN Become(p, "rc_open", [loc[p] EXCEPT !.caller = "wti"])
             ELSE /\ Goto(p, IF loc[p].stage = "mutate" THEN "m_open" ELSE "resnap")
                  /\ UNCHANGED loc
          /\ UNCHANGED <<disk, locks, runner, history, job>>

\* The second snapshot of an observer, and the third after a reconciliation.
Resnapshot(p) ==
    /\ pc[p] \in {"resnap", "final"}
    /\ \/ ~Present("state.json") /\ Fails(p)
       \/ /\ Present("state.json")
          /\ IF st.status = Running /\ pc[p] = "resnap"
             THEN Become(p, "rc_open",
                         [loc[p] EXCEPT !.view = ViewFor(p), !.caller = "observe"])
             ELSE Observed(p, ViewFor(p))
          /\ UNCHANGED <<disk, locks, runner, history, job>>

\* The bytes an observation promised are read from output.log; a wait whose
\* job is still running may find more output and keep waiting.
ReadLog(p) ==
    LET me == loc[p]
        readable == /\ Present("output.log")
                    /\ logSize >= me.view.captured
                    /\ me.start <= me.view.captured
    IN  /\ pc[p] = "out"
        /\ \/ ~readable /\ Fails(p)
           \/ /\ readable
              /\ \/ Goto(p, "respond") /\ UNCHANGED loc
                 \/ /\ me.view.status = Running /\ me.stage = "read"
                    /\ Become(p, "snap", [Blank EXCEPT !.op = "wait", !.start = me.start])
              /\ UNCHANGED <<disk, locks, runner, history, job>>

\* The response is written to standard output; only a delivered response is
\* followed by the commit of the cursor it carries.
Delivered(p) ==
    LET me == loc[p]
        reached == IF me.start <= covered[Me(p)] /\ me.view.captured > covered[Me(p)]
                   THEN me.view.captured ELSE covered[Me(p)]
    IN  covered' = [covered EXCEPT ![Me(p)] = reached]
Committing(p) ==
    /\ Become(p, "wti", [loc[p] EXCEPT !.stage = "mutate"])
    /\ UNCHANGED <<disk, locks, runner, job, bypass>>
Respond_CommitsAnyway(p) ==
    /\ pc[p] = "respond"
    /\ Committing(p) /\ (Delivered(p) \/ UNCHANGED covered)
Respond(p) ==
    /\ pc[p] = "respond"
    /\ \/ Committing(p) /\ Delivered(p)
       \/ Fails(p)

-----------------------------------------------------------------------------
\* Reconciliation with the runner: reconcileRunnerStateWithActiveMutation.

\* An identity that no open descriptor refers to: a new file may have it.
Unused(i) ==
    /\ i # rfd
    /\ \A q \in Clients : pc[q] = "idle" \/ loc[q].fd # i

\* The name recovery.lock is opened as file i, created when it is missing.
OpensRecoveryLock(i) ==
    \/ /\ Present("recovery.lock") /\ i = recInode
       /\ UNCHANGED disk
    \/ /\ ~Present("recovery.lock") /\ dirExists
       /\ Unused(i) /\ \A k \in Inodes : Unused(k) => i <= k
       /\ recInode' = i
       /\ files' = files \cup {"recovery.lock"}
       /\ UNCHANGED <<dirExists, st, logSize>>

OpenRecovery(p) ==
    /\ pc[p] = "rc_open"
    /\ \/ ~dirExists /\ Fails(p)
       \/ /\ dirExists
          /\ \E i \in Inodes : /\ OpensRecoveryLock(i)
                              /\ Become(p, "rc_lock", [loc[p] EXCEPT !.fd = i])
          /\ UNCHANGED <<locks, runner, history, job>>

LockRecovery(p) ==
    /\ pc[p] = "rc_lock"
    /\ recLock[loc[p].fd] = NoOne
    /\ \/ ~Present("state.json") /\ Fails(p)
       \/ /\ Present("state.json")
          /\ recLock' = [recLock EXCEPT ![loc[p].fd] = p]
          /\ Become(p, "rc_intent", [loc[p] EXCEPT !.seen = st.status])
          /\ UNCHANGED <<disk, stateLock, runnerLock, runner, history, job>>

\* What the caller of a reconciliation does with its answer.
Reconciled(p, active) ==
    LET me == [loc[p] EXCEPT !.caller = "none", !.seen = Running, !.marked = FALSE]
    IN  \/ loc[p].caller = "wti" /\ Become(p, "wti", me)
        \/ /\ loc[p].caller = "observe"
           /\ IF active THEN Observed(p, me.view) ELSE Become(p, "final", me)
        \/ loc[p].caller = "cancel" /\ Become(p, "wti", [me EXCEPT !.stage = "mutate"])
        \/ /\ loc[p].caller = "remove"
           /\ IF active THEN Become(p, "idle", Blank) ELSE Become(p, "rm_open", me)

\* There is nothing to finish: the job ended and left no intent behind.
Settled_ByStatus(seen) == IsTerminal(seen)
Settled_ByIntent(seen) == ~Pending
Settled(seen) == IsTerminal(seen) /\ ~Pending

InspectIntent(p) ==
    /\ pc[p] = "rc_intent"
    /\ IF Settled(loc[p].seen)
       THEN Reconciled(p, FALSE) /\ DropRecovery(p)
       ELSE /\ Become(p, "rc_ropen", [loc[p] EXCEPT !.marked = Pending])
            /\ UNCHANGED recLock
    /\ UNCHANGED <<disk, stateLock, runnerLock, runner, history, job>>

\* Opening a lock file by name, before waiting for its flock.
Opens == {"rc_ropen", "rc_sopen", "ca_open", "m_open", "rm_popen", "rm_open", "rm_sopen"}
OpenedName(at) == IF at \in {"rc_ropen", "rm_popen", "rm_open"}
                  THEN "runner.lock" ELSE "state.lock"
AfterOpen(at) ==
    CASE at = "rc_ropen" -> "rc_try" [] at = "rm_popen" -> "rm_probe"
      [] at = "rm_open" -> "rm_try"  [] at = "rc_sopen" -> "rc_slock"
      [] at = "ca_open" -> "ca_lock" [] at = "m_open" -> "m_lock"
      [] at = "rm_sopen" -> "rm_slock"

OpenLockFile(p) ==
    /\ pc[p] \in Opens
    /\ IF Present(OpenedName(pc[p]))
       THEN Goto(p, AfterOpen(pc[p])) /\ UNCHANGED <<disk, locks, runner, history, job, loc>>
       ELSE Fails(p)

\* The runner's lease is an flock that only its death or exit releases.
LeaseFree_Unchecked == TRUE
LeaseFree == runnerLock = NoOne

\* The lease is held: the runner counts as alive.  A cancellation is then
\* recorded without letting the runner publish in between.
LeaseBusy(p) ==
    /\ pc[p] = "rc_try"
    /\ ~LeaseFree
    /\ IF loc[p].caller = "cancel" /\ ~loc[p].marked
       THEN Goto(p, "ca_open") /\ UNCHANGED <<loc, recLock>>
       ELSE Reconciled(p, TRUE) /\ DropRecovery(p)
    /\ UNCHANGED <<disk, stateLock, runnerLock, runner, history, job>>

\* The lease is free: the runner is gone, and this process finishes its work.
TakeLease(p) ==
    /\ pc[p] = "rc_try"
    /\ LeaseFree
    /\ runnerLock' = p
    /\ Goto(p, IF IsTerminal(loc[p].seen) THEN "rc_drop"
               ELSE IF loc[p].marked THEN "rc_sopen" ELSE "rc_mark")
    /\ UNCHANGED <<disk, stateLock, recLock, runner, history, job, loc>>

DropStaleIntent(p) ==
    /\ pc[p] = "rc_drop"
    /\ files' = files \ {"terminal.pending"}
    /\ bypass' = 0
    /\ Goto(p, "rc_release")
    /\ UNCHANGED <<dirExists, st, logSize, recInode, locks, runner, covered, job, loc>>

MarkIntent(p) ==
    /\ pc[p] = "rc_mark"
    /\ \/ (Pending \/ ~dirExists) /\ Fails(p)
       \/ /\ ~Pending /\ dirExists
          /\ files' = files \cup {"terminal.pending"}
          /\ bypass' = 0
          /\ Goto(p, "rc_sopen")
          /\ UNCHANGED <<dirExists, st, logSize, recInode, locks, runner, covered, job, loc>>

-----------------------------------------------------------------------------
\* The record is read and replaced under the flock of state.lock.

LockWaits == {"rc_slock", "ca_lock", "m_lock", "rm_slock"}
AfterLock(at) ==
    CASE at = "rc_slock" -> "rc_write" [] at = "ca_lock" -> "ca_write"
      [] at = "m_lock" -> "m_check"    [] at = "rm_slock" -> "rm_list"

LockState(p) ==
    /\ pc[p] \in LockWaits
    /\ stateLock = NoOne
    /\ \/ ~Present("state.json") /\ Fails(p)
       \/ /\ Present("state.json")
          /\ stateLock' = p
          /\ job' = [job EXCEPT ![p] = st]
          /\ Goto(p, AfterLock(pc[p]))
          /\ UNCHANGED <<disk, runnerLock, recLock, runner, history, loc>>

\* The rename that replaces state.json; it would also bring the name back.
WriteState(new) ==
    /\ st' = new
    /\ files' = files \cup {"state.json"}
    /\ bypass' = IF Pending /\ new.status = Running THEN bypass + 1 ELSE bypass
    /\ UNCHANGED <<dirExists, logSize, recInode, covered>>

Publishable(new) ==
    /\ Present("output.log")
    /\ logSize >= new.captured
    /\ \A s \in Sessions : new.cursor[s] <= new.captured

Lost(j) == [j EXCEPT !.status = "runner_lost"]

PublishLost(p) ==
    /\ pc[p] = "rc_write"
    /\ IF job[p].status = Running /\ Publishable(job[p])
       THEN /\ WriteState(Lost(job[p]))
            /\ job' = [job EXCEPT ![p] = Lost(@)]
       ELSE UNCHANGED <<disk, history, job>>
    /\ Goto(p, "rc_clear")
    /\ UNCHANGED <<locks, runner, loc>>

ClearIntent(p) ==
    /\ pc[p] = "rc_clear"
    /\ files' = files \ {"terminal.pending"}
    /\ bypass' = 0
    /\ stateLock' = NoOne
    /\ job' = [job EXCEPT ![p] = InitialJobState]
    /\ Goto(p, "rc_release")
    /\ UNCHANGED <<dirExists, st, logSize, recInode, runnerLock, recLock, runner,
                   covered, loc>>

ReleaseLease(p) ==
    /\ pc[p] = "rc_release"
    /\ runnerLock' = NoOne
    /\ DropRecovery(p)
    /\ Reconciled(p, FALSE)
    /\ UNCHANGED <<disk, stateLock, runner, history, job>>

\* A bounded wait for an flock, or for a pending publication, runs out.
TimeOut(p) ==
    /\ p \in MayTimeOut
    /\ pc[p] \in LockWaits \cup {"rc_lock"} \/ (pc[p] = "wti" /\ Pending)
    /\ Fails(p)

\* A wait command whose own deadline passed stops observing and answers from
\* one last snapshot.
WaitDeadline(p) ==
    /\ p \in MayTimeOut
    /\ loc[p].op = "wait" /\ loc[p].stage # "mutate"
    /\ pc[p] \in {"snap", "wti", "rc_open", "rc_lock", "rc_slock"}
    /\ Become(p, "deadline", [Blank EXCEPT !.op = "wait", !.stage = "last",
                                           !.start = loc[p].start])
    /\ DropAll(p)
    /\ UNCHANGED <<disk, runner, history, job>>

DeadlineSnapshot(p) ==
    /\ pc[p] = "deadline"
    /\ \/ ~Present("state.json") /\ Fails(p)
       \/ /\ Present("state.json")
          /\ \E c \in IF loc[p].start # NoEntry THEN {loc[p].start}
                      ELSE {ResolveWaitCursor(st.cursor[Me(p)])} \cup Explicit :
               Become(p, "out", [loc[p] EXCEPT !.view = ViewFor(p), !.start = c])
          /\ UNCHANGED <<disk, locks, runner, history, job>>

-----------------------------------------------------------------------------
\* Mutations by clients.

\* The intent is looked at again once state.lock is held.
FencedOut_Unchecked == FALSE
FencedOut == Pending

RecheckIntent(p) ==
    /\ pc[p] = "m_check"
    /\ IF FencedOut
       THEN /\ stateLock' = NoOne
            /\ job' = [job EXCEPT ![p] = InitialJobState]
            /\ Goto(p, "wti")
       ELSE Goto(p, "m_write") /\ UNCHANGED <<stateLock, job>>
    /\ UNCHANGED <<disk, runnerLock, recLock, runner, history, loc>>

\* commitWait: the session's cursor moves to the end of what was delivered.
CommitWait_Overwrites(j, s, next) == [j EXCEPT !.cursor[s] = next]
CommitWait(j, s, next) == IF j.cursor[s] >= next THEN j ELSE [j EXCEPT !.cursor[s] = next]

CancelLocked_AfterEnd(j) == [j EXCEPT !.cancelled = TRUE]
CancelLocked(j) == IF PersistRequest(j.status, j.cancelled)
                   THEN [j EXCEPT !.cancelled = TRUE] ELSE j

\* The new record is published, state.lock released, and the command ends.
MutateState(p) ==
    LET me == loc[p]
        new == IF me.op = "wait" THEN CommitWait(job[p], Me(p), me.view.captured)
                                 ELSE CancelLocked(job[p])
    IN  /\ pc[p] \in {"m_write", "ca_write"}
        /\ IF new # job[p] /\ Publishable(new)
           THEN WriteState(new)
           ELSE UNCHANGED <<disk, history>>
        /\ Ends(p)
        /\ UNCHANGED runner

-----------------------------------------------------------------------------
\* Removal: removeTerminal.

ProbeLease(p) ==
    /\ pc[p] = "rm_probe"
    /\ IF LeaseFree
       THEN /\ runnerLock' = p
            /\ Goto(p, "rm_unprobe")
            /\ UNCHANGED <<disk, stateLock, recLock, runner, history, job, loc>>
       ELSE Fails(p)

Unprobe(p) ==
    /\ pc[p] = "rm_unprobe"
    /\ runnerLock' = NoOne
    /\ Become(p, "rc_open", [loc[p] EXCEPT !.caller = "remove"])
    /\ UNCHANGED <<disk, stateLock, recLock, runner, history, job>>

LeaseForRemoval(p) ==
    /\ pc[p] = "rm_try"
    /\ IF LeaseFree
       THEN /\ runnerLock' = p
            /\ Goto(p, "rm_sopen")
            /\ UNCHANGED <<disk, stateLock, recLock, runner, history, job, loc>>
       ELSE Fails(p)

MayRemove(status) == IsTerminal(status)

ListDirectory(p) ==
    /\ pc[p] = "rm_list"
    /\ IF MayRemove(job[p].status)
       THEN /\ Become(p, "rm_unlink", [loc[p] EXCEPT !.todo = files])
            /\ UNCHANGED <<disk, locks, runner, history, job>>
       ELSE Fails(p)

Unlink(p) ==
    /\ pc[p] = "rm_unlink"
    /\ \/ /\ loc[p].todo = {}
          /\ Become(p, "rm_rmdir", [loc[p] EXCEPT !.view = BlankView])
          /\ job' = [job EXCEPT ![p] = InitialJobState]
          /\ DropAll(p)
          /\ UNCHANGED <<disk, runner, history>>
       \/ \E f \in loc[p].todo :
            \/ f \notin files /\ Fails(p)
            \/ /\ f \in files
               /\ files' = files \ {f}
               /\ bypass' = IF f = "terminal.pending" THEN 0 ELSE bypass
               /\ Become(p, "rm_unlink", [loc[p] EXCEPT !.todo = @ \ {f}])
               /\ UNCHANGED <<dirExists, st, logSize, recInode, locks, runner, covered, job>>

RemoveDirectory(p) ==
    /\ pc[p] = "rm_rmdir"
    /\ dirExists' = (dirExists /\ files # {})
    /\ Ends(p)
    /\ UNCHANGED <<files, st, logSize, recInode, runner, history>>

\* A client is killed; what it held and knew is gone.
Crash(p) == p \in MayCrash /\ pc[p] # "idle" /\ Fails(p)

ClientStep(p) ==
    \/ Snapshot(p) \/ AwaitIntent(p) \/ Resnapshot(p) \/ ReadLog(p) \/ Respond(p)
    \/ OpenRecovery(p) \/ LockRecovery(p) \/ InspectIntent(p) \/ OpenLockFile(p)
    \/ LeaseBusy(p) \/ TakeLease(p) \/ DropStaleIntent(p) \/ MarkIntent(p)
    \/ LockState(p) \/ PublishLost(p) \/ ClearIntent(p) \/ ReleaseLease(p)
    \/ DeadlineSnapshot(p) \/ RecheckIntent(p) \/ MutateState(p)
    \/ ProbeLease(p) \/ Unprobe(p) \/ LeaseForRemoval(p) \/ ListDirectory(p)
    \/ Unlink(p) \/ RemoveDirectory(p)

-----------------------------------------------------------------------------
\* The detached runner: it appends output and looks for a cancellation while
\* the shell runs, then publishes how the job ended.

RunnerGoto(to) == rpc' = to

\* The runner process is gone: an error, a signal, or its own exit.
RunnerEnds ==
    /\ RunnerGoto("dead")
    /\ rjob' = InitialJobState /\ rfd' = 0
    /\ DropAll(Runner)
RunnerCrash ==
    /\ Runner \in MayCrash /\ rpc # "dead"
    /\ RunnerEnds
    /\ UNCHANGED <<disk, cause, client, history>>

\* A chunk arrived; output past the limit is discarded unread.
AppendBegin ==
    /\ rpc = "run"
    /\ cause # "output_limit"
    /\ RunnerGoto("ap_wait")
    /\ UNCHANGED <<disk, locks, rjob, cause, rfd, client, history>>

\* The runner's own lease keeps recoverers out, so a pending intent is waited for.
AppendAwaitIntent ==
    /\ rpc = "ap_wait"
    /\ ~Pending
    /\ RunnerGoto("ap_lock")
    /\ UNCHANGED <<disk, locks, rjob, cause, rfd, client, history>>

AppendLock ==
    /\ rpc = "ap_lock"
    /\ stateLock = NoOne
    /\ stateLock' = Runner /\ rjob' = st
    /\ RunnerGoto("ap_check")
    /\ UNCHANGED <<disk, runnerLock, recLock, cause, rfd, client, history>>

\* The append gives up: state.lock stayed busy too long.
AppendTimeOut ==
    /\ Runner \in MayTimeOut
    /\ rpc \in {"ap_wait", "ap_lock"}
    /\ RunnerEnds
    /\ UNCHANGED <<disk, cause, client, history>>

GrownLog_Unsynced(size, end) == size
GrownLog(size, end) == IF end > size THEN end ELSE size

\* What appendOutput demands of the record and the log it is about to extend.
Appendable == rjob.status = Running /\ Present("output.log") /\ logSize >= rjob.captured

\* The bytes go to output.log before the record that counts them.
AppendOutput ==
    /\ rpc = "ap_check"
    /\ \/ /\ FencedOut
          /\ stateLock' = NoOne /\ rjob' = InitialJobState
          /\ RunnerGoto("ap_wait")
          /\ UNCHANGED <<logSize, runnerLock, recLock, rfd>>
       \/ /\ ~FencedOut /\ ~Appendable
          /\ RunnerEnds
          /\ UNCHANGED logSize
       \/ /\ ~FencedOut /\ Appendable
          /\ \E n \in Chunks :
               LET end == rjob.captured + AcceptedBytes(rjob.captured, n, Limit)
               IN  /\ logSize' = GrownLog(logSize, end)
                   /\ rjob' = [rjob EXCEPT !.captured = end]
          /\ RunnerGoto("ap_write")
          /\ UNCHANGED <<locks, rfd>>
    /\ UNCHANGED <<files, dirExists, st, recInode, cause, client, history>>

AppendCommit ==
    /\ rpc = "ap_write"
    /\ IF rjob.captured > st.captured THEN WriteState(rjob) ELSE UNCHANGED <<disk, history>>
    /\ cause' = IF rjob.captured = Limit /\ cause = "normal" THEN "output_limit" ELSE cause
    /\ stateLock' = NoOne /\ rjob' = InitialJobState
    /\ RunnerGoto("run")
    /\ UNCHANGED <<runnerLock, recLock, rfd, client>>

Poll ==
    /\ rpc = "run"
    /\ st.cancelled /\ cause # "cancelled"
    /\ cause' = "cancelled"
    /\ UNCHANGED <<disk, locks, rpc, rjob, rfd, client, history>>

HardTimeout ==
    /\ rpc = "run"
    /\ cause = "normal"
    /\ cause' = "hard_timeout"
    /\ UNCHANGED <<disk, locks, rpc, rjob, rfd, client, history>>

\* Supervision is over: the shell is gone and its output drained.
Supervised ==
    /\ rpc = "run"
    /\ RunnerGoto("pub_open")
    /\ UNCHANGED <<disk, locks, rjob, cause, rfd, client, history>>

PublishOpen ==
    /\ rpc = "pub_open"
    /\ \E i \in Inodes : OpensRecoveryLock(i) /\ rfd' = i
    /\ RunnerGoto("pub_rec")
    /\ UNCHANGED <<locks, rjob, cause, client, history>>

PublishLockRecovery ==
    /\ rpc = "pub_rec"
    /\ recLock[rfd] = NoOne
    /\ recLock' = [recLock EXCEPT ![rfd] = Runner]
    /\ RunnerGoto("pub_mark")
    /\ UNCHANGED <<disk, stateLock, runnerLock, rjob, cause, rfd, client, history>>

PublishMark ==
    /\ rpc = "pub_mark"
    /\ \/ Pending /\ RunnerEnds /\ UNCHANGED <<disk, history>>
       \/ /\ ~Pending
          /\ files' = files \cup {"terminal.pending"} /\ bypass' = 0
          /\ RunnerGoto("pub_slock")
          /\ UNCHANGED <<dirExists, st, logSize, recInode, locks, rjob, rfd, covered>>
    /\ UNCHANGED <<cause, client>>

PublishLockState ==
    /\ rpc = "pub_slock"
    /\ stateLock = NoOne
    /\ stateLock' = Runner /\ rjob' = st
    /\ RunnerGoto("pub_write")
    /\ UNCHANGED <<disk, runnerLock, recLock, cause, rfd, client, history>>

\* A cancellation stored before the final lock decides the result, whatever
\* the supervisor had seen.
PublishedStatus_Stale(j, exit) == ProcessStatus(cause, exit)
PublishedStatus(j, exit) == ProcessStatus(IF j.cancelled THEN "cancelled" ELSE cause, exit)

PublishTerminal ==
    /\ rpc = "pub_write"
    /\ \E exit \in Exits :
         LET new == [rjob EXCEPT !.status = PublishedStatus(rjob, exit)]
         IN  IF TransitionAllowed(rjob.status, new.status) /\ Publishable(new)
             THEN WriteState(new) /\ rjob' = new
             ELSE UNCHANGED <<disk, history, rjob>>
    /\ RunnerGoto("pub_clear")
    /\ UNCHANGED <<locks, cause, rfd, client>>

PublishClear ==
    /\ rpc = "pub_clear"
    /\ files' = files \ {"terminal.pending"} /\ bypass' = 0
    /\ stateLock' = NoOne /\ DropRecovery(Runner)
    /\ rjob' = InitialJobState
    /\ RunnerGoto("pub_release")
    /\ UNCHANGED <<dirExists, st, logSize, recInode, runnerLock, cause, rfd, client, covered>>

PublishRelease ==
    /\ rpc = "pub_release"
    /\ RunnerEnds
    /\ UNCHANGED <<disk, cause, client, history>>

RunnerPublishes ==
    \/ PublishOpen \/ PublishLockRecovery \/ PublishMark \/ PublishLockState
    \/ PublishTerminal \/ PublishClear \/ PublishRelease
RunnerStep ==
    \/ AppendBegin \/ AppendAwaitIntent \/ AppendLock \/ AppendOutput \/ AppendCommit
    \/ Poll \/ HardTimeout \/ Supervised \/ RunnerPublishes

-----------------------------------------------------------------------------
Init ==
    /\ files = FileNames \ {"terminal.pending"}
    /\ dirExists = TRUE
    /\ st = InitialJobState
    /\ logSize = 0
    /\ recInode = 0
    /\ stateLock = NoOne
    /\ runnerLock = Runner
    /\ recLock = [i \in Inodes |-> NoOne]
    /\ rpc = "run" /\ rjob = InitialJobState /\ cause = "normal" /\ rfd = 0
    /\ pc = [p \in Clients |-> "idle"]
    /\ job = [p \in Clients |-> InitialJobState]
    /\ loc = [p \in Clients |-> Blank]
    /\ covered = [s \in Sessions |-> 0]
    /\ bypass = 0

Next ==
    \/ \E p \in Clients :
         \/ \E o \in Commands : Start(p, o)
         \/ ClientStep(p)
         \/ TimeOut(p)
         \/ WaitDeadline(p)
         \/ Crash(p)
    \/ RunnerStep
    \/ AppendTimeOut
    \/ RunnerCrash

Spec == Init /\ [][Next]_vars

\* Every process that is not killed keeps running, and its timers fire.  The
\* runner blocks in flock on recovery.lock until it has it, however often
\* others take it; state.lock it needs no such promise for.
Fairness ==
    /\ WF_vars(RunnerStep)
    /\ SF_vars(PublishLockRecovery)
    /\ \A p \in Clients : WF_vars(ClientStep(p)) /\ WF_vars(TimeOut(p))
FairSpec == Spec /\ Fairness

\* The agent keeps asking, and its commands outlast the locks they wait for.
Persistence ==
    \A p \in Clients :
        /\ WF_vars(\E o \in Ops[p] : Start(p, o))
        /\ SF_vars(LockRecovery(p)) /\ SF_vars(LockState(p))
PersistentSpec == FairSpec /\ Persistence

-----------------------------------------------------------------------------
\* Where a process holds which flock.

ClientPCs == {"idle", "snap", "wti", "resnap", "final", "out", "respond", "deadline",
              "rc_open", "rc_lock", "rc_intent", "rc_ropen", "rc_try", "rc_drop",
              "rc_mark", "rc_sopen", "rc_slock", "rc_write", "rc_clear", "rc_release",
              "ca_open", "ca_lock", "ca_write", "m_open", "m_lock", "m_check", "m_write",
              "rm_popen", "rm_probe", "rm_unprobe", "rm_open", "rm_try", "rm_sopen",
              "rm_slock", "rm_list", "rm_unlink", "rm_rmdir"}
RunnerPCs == {"run", "ap_wait", "ap_lock", "ap_check", "ap_write", "pub_open", "pub_rec",
              "pub_mark", "pub_slock", "pub_write", "pub_clear", "pub_release", "dead"}

Locals == [op : Commands \cup {"none"}, stage : {"look", "read", "last", "mutate"},
           caller : {"none", "wti", "observe", "cancel", "remove"},
           view : [status : Statuses, captured : 0..Limit, cursor : NoEntry..Limit],
           seen : Statuses, marked : BOOLEAN, start : Int, fd : Inodes,
           todo : SUBSET FileNames]

HoldsState == {"rc_write", "rc_clear", "ca_write", "m_check", "m_write", "rm_list",
               "rm_unlink"}
HoldsLease == {"rc_drop", "rc_mark", "rc_sopen", "rc_slock", "rc_write", "rc_clear",
               "rc_release", "rm_unprobe", "rm_sopen", "rm_slock", "rm_list", "rm_unlink"}
RunnerHoldsState == {"ap_check", "ap_write", "pub_write", "pub_clear"}
Published == {"pub_clear", "pub_release", "dead"}

\* Every variable has its type.
TypeOK ==
    /\ files \subseteq FileNames /\ dirExists \in BOOLEAN
    /\ st \in JobStates /\ logSize \in 0..Limit /\ recInode \in Inodes
    /\ stateLock \in Procs \cup {NoOne} /\ runnerLock \in Procs \cup {NoOne}
    /\ recLock \in [Inodes -> Procs \cup {NoOne}]
    /\ rpc \in RunnerPCs /\ rjob \in JobStates /\ cause \in Causes /\ rfd \in Inodes
    /\ pc \in [Clients -> ClientPCs] /\ job \in [Clients -> JobStates]
    /\ loc \in [Clients -> Locals]
    /\ covered \in [Sessions -> 0..Limit] /\ bypass \in Nat

-----------------------------------------------------------------------------
\* Safety.

\* A cancellation stored while the job ran is never lost to another outcome:
\* the job ends as cancelled, or as runner_lost when its runner died first,
\* and it is reported as cancelled only if someone asked (publishExecutionTerminal).
CancelHonoured ==
    /\ st.cancelled /\ IsTerminal(st.status) => st.status \in {"cancelled", "runner_lost"}
    /\ st.status = "cancelled" => st.cancelled

\* A job is declared lost only when its runner can no longer publish: a probe
\* or a slow publication is never mistaken for a dead runner (runner.lock).
RunnerLostOnlyIfDead == st.status = "runner_lost" => rpc = "dead"

\* What state.json counts is in output.log and within the limit, and no
\* session's cursor passes it, whatever crashed in between (appendOutput).
CountedBytesExist ==
    /\ st.captured <= logSize /\ logSize <= Limit
    /\ \A s \in Sessions : st.cursor[s] <= st.captured

\* At-least-once delivery: a session's stored cursor covers only output that
\* some response delivered to it, so a crash between the response and the
\* commit repeats output and never skips it (app.go: afterWrite).  It is a
\* promise to sessions that let the stored cursor decide where a wait starts:
\* one that names a later cursor itself skips what lies before it.
CursorWithinDelivered == \A s \in Sessions : st.cursor[s] <= covered[s]

\* Once terminal.pending exists, at most the one mutation that had already
\* passed its second look at the intent still lands before the terminal
\* publication (openLockedJobContext).
IntentFencesMutations == bypass <= 1

\* While the runner lives, nothing it needs is unlinked, and the intent it
\* finds is its own (removeTerminal, reconcileRunnerStateWithActiveMutation).
LeaseProtectsDirectory ==
    rpc # "dead" =>
        /\ dirExists
        /\ FileNames \ {"terminal.pending"} \subseteq files
        /\ Pending <=> rpc \in {"pub_slock", "pub_write", "pub_clear"}

\* Concurrent read-modify-write of the whole record loses nothing: captured
\* bytes, a cancellation and every session's cursor are only ever gained.
NoLostUpdate ==
    [][/\ st'.captured >= st.captured
       /\ st.cancelled => st'.cancelled
       /\ \A s \in Sessions : st'.cursor[s] >= st.cursor[s]]_st

\* After the terminal publication only wait cursors change: the status, the
\* captured bytes and the cancellation a client was told stay what they were.
TerminalFrozen ==
    [][IsTerminal(st.status) =>
         /\ st'.status = st.status /\ st'.captured = st.captured
         /\ st'.cancelled = st.cancelled]_st

\* state.json disappears only from a job that ended and whose runner let go,
\* and no writer that was already under way brings it back.
RemovalIsFinal ==
    [][/\ Present("state.json") \/ "state.json" \notin files'
       /\ Present("state.json") /\ "state.json" \notin files'
            => IsTerminal(st.status) /\ rpc = "dead"]_files

-----------------------------------------------------------------------------
\* Why the safety properties hold: the locks make each process's picture of
\* the record current when it writes.

LocksMatchControl ==
    /\ \A p \in Clients : /\ stateLock = p <=> pc[p] \in HoldsState
                          /\ runnerLock = p <=> pc[p] \in HoldsLease
    /\ stateLock = Runner <=> rpc \in RunnerHoldsState
    /\ runnerLock = Runner <=> rpc # "dead"

CopiesAreCurrent ==
    /\ \A p \in Clients : pc[p] \in HoldsState \ {"rc_clear"} => job[p] = st
    /\ rpc \in {"ap_check", "pub_write"} => rjob = st
    /\ rpc = "ap_write" =>
         /\ rjob = [st EXCEPT !.captured = rjob.captured]
         /\ st.captured <= rjob.captured /\ rjob.captured <= logSize

RunnerOwnsStatus ==
    /\ rpc \notin Published => st.status = Running
    /\ cause = "cancelled" => st.cancelled

\* The locks, the copies and the runner's monopoly on the end of its job,
\* taken together, are kept by every step (lockStateFile, runnerLease).
IInv ==
    /\ TypeOK /\ LocksMatchControl /\ CopiesAreCurrent /\ RunnerOwnsStatus
    /\ CancelHonoured /\ RunnerLostOnlyIfDead /\ CountedBytesExist

\* Where a process holds recovery.lock, through the descriptor it opened.
HoldsRecovery == {"rc_intent", "rc_ropen", "rc_try", "rc_drop", "rc_mark", "rc_sopen",
                  "rc_slock", "rc_write", "rc_clear", "rc_release",
                  "ca_open", "ca_lock", "ca_write"}
RunnerHoldsRecovery == {"pub_mark", "pub_slock", "pub_write", "pub_clear"}

RecoveryHeld ==
    /\ \A p \in Clients : pc[p] \in HoldsRecovery => recLock[loc[p].fd] = p
    /\ rpc \in RunnerHoldsRecovery => recLock[rfd] = Runner

\* As long as the job runs nothing but the intent is unlinked, and everybody
\* who opened recovery.lock has the same file.
RunningKept ==
    /\ st.status = Running \/ rpc # "dead" =>
          dirExists /\ FileNames \ {"terminal.pending"} \subseteq files
    /\ st.status = Running =>
          /\ recInode = 0 /\ rfd = 0
          /\ \A p \in Clients : pc[p] \in HoldsRecovery \cup {"rc_lock"} => loc[p].fd = 0
    /\ \A p \in Clients : pc[p] = "rm_unlink" => IsTerminal(st.status)

\* A record that somebody is about to replace is there.
RecordPresent ==
    \A p \in Clients : pc[p] \in HoldsState \ {"rm_unlink"} => Present("state.json")

\* The runner knows its own intent, and whoever found no intent under
\* recovery.lock is right until it lets go of that lock.
FoundNoIntent(p) ==
    \/ pc[p] \in {"ca_open", "ca_lock", "ca_write"}
    \/ pc[p] \in {"rc_ropen", "rc_try", "rc_mark"} /\ ~loc[p].marked

IntentKnown ==
    /\ rpc # "dead" => (Pending <=> rpc \in {"pub_slock", "pub_write", "pub_clear"})
    /\ st.status = Running /\ Pending => \A p \in Clients : ~FoundNoIntent(p)

\* Once somebody wrote past the intent, nobody is about to do it again.
FenceKept ==
    /\ bypass \in {0, 1}
    /\ bypass = 1 => Pending /\ \A p \in Clients : pc[p] # "m_write"

\* The directory's part of the invariant.
DirectoryInv ==
    /\ IInv /\ RecoveryHeld /\ RunningKept /\ RecordPresent /\ IntentKnown /\ FenceKept

\* Of a client with local state l at the step at, whose session was delivered
\* the prefix m: what its wait starts from, and what it commits, was delivered.
Sound(l, at, m) ==
    /\ l.start <= m /\ l.view.cursor <= m
    /\ l.op = "wait" /\ l.stage = "mutate" => l.view.captured <= m
    /\ at \in {"resnap", "deadline"} => l.stage # "mutate"
    /\ at \in {"m_open", "m_lock", "m_check", "m_write"} => l.stage = "mutate"
    /\ l.caller = "cancel" \/ at \in {"ca_open", "ca_lock", "ca_write"} => l.op # "wait"

\* The cursors' part of the invariant, where no request names a cursor itself.
DeliveryInv ==
    /\ CursorWithinDelivered
    /\ \A p \in Clients : Sound(loc[p], pc[p], covered[Me(p)])

-----------------------------------------------------------------------------
\* Liveness.

\* terminal.pending exists so that a stream of mutations cannot starve the
\* runner of state.lock: a runner that is not killed always gets to publish,
\* without any fairness of that flock (publishTerminalState).
PublicationCompletes == rpc = "pub_open" ~> IsTerminal(st.status)

\* A runner that died without publishing is found out, at whatever step it
\* died, and so is a recovery that died half way (reconcileRunnerState).
LostRunnerReported == (rpc = "dead" /\ st.status = Running) ~> IsTerminal(st.status)

\* An intent left behind by a crash never blocks mutations for good
\* (waitForTerminalIntent).
StaleIntentCleared == Pending ~> ~Pending

-----------------------------------------------------------------------------
\* The job as its users see it.

Lifecycle == INSTANCE JobLifecycle WITH
    phase <- IF Present("state.json") THEN st.status ELSE "removed",
    leased <- runnerLock = Runner,
    captured <- st.captured, cancelled <- st.cancelled, cursor <- st.cursor

\* Every step of the store is a step of the abstract life of a job, or none.
ImplementsLifecycle == Lifecycle!Spec

\* The runner as the supervision of its command sees it.
SupervisionPhase == CASE rpc \in {"run", "ap_wait", "ap_lock", "ap_check", "ap_write"} -> "supervising"
                      [] rpc = "dead" -> "gone"
                      [] OTHER -> "reported"

Watched == INSTANCE Supervision WITH
    phase <- SupervisionPhase, captured <- st.captured, requested <- st.cancelled

\* What the runner reads and writes of the job is what a supervisor of processes
\* decides, whoever else writes the record (superviseShell).
ImplementsSupervision == Watched!Spec

\* Nothing is stored after the limit was the cause, and reaching it is a cause.
LimitNoticed ==
    /\ rpc \in {"ap_wait", "ap_lock", "ap_check", "ap_write"} => cause # "output_limit"
    /\ cause = "normal" => st.captured < Limit

=============================================================================
