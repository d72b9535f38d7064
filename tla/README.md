# managed-bash in TLA+

managed-bash starts a shell command under a detached *runner* process, keeps its record and its
merged output in `.managed_bash/jobs/<id>/`, and lets any number of later, independent CLI
processes observe the job, wait for it, cancel it and remove it.  There is no server: every
process reads and replaces the same few files, and `flock` is all that coordinates them.  That
is where the system is hard to test, and where this project starts; from there it goes on to the
processes around the shell, to the editor plugin that launches jobs for its sessions, and to the
installer.

## 1. The system

| Component | State it keeps | Operations | Talks to |
|---|---|---|---|
| job record and locks (`internal/runner/state_io_unix.go`, `snapshot_unix.go`, `files_unix.go`) | `state.json`, `output.log`, flocks on `state.lock`, `runner.lock`, `recovery.lock` | load, lock-and-load, publish by rename | everything below |
| terminal publication (`terminal_publish_unix.go`, `terminal_intent_unix.go`) | `terminal.pending` | create the intent, publish the end, drop the intent; wait for an intent | record, liveness |
| liveness and recovery (`liveness_unix.go`) | none of its own | probe the runner's lease; declare a dead runner's job `runner_lost` | publication, record |
| cancellation (`cancel_unix.go`) | the request in `state.json` | store a request once, while the job runs | liveness, supervisor (polls) |
| observation (`observe_unix.go`, `wait_unix.go`, `control_unix.go`) | per-session cursors in `state.json` | status, wait, cursor commit after the response | record, liveness, `cli/app.go` |
| removal (`remove_unix.go`) | none | unlink a finished job file by file | lease, recovery, record |
| output capture (`output_unix.go`, `capture_unix.go`) | `output.log`, captured byte count | append up to the limit | supervisor, record |
| supervisor (`supervise_unix.go`, `execute_unix.go`) | termination cause | append chunks, poll for a cancellation, time out, publish | capture, guardian, publication |
| startup handshake (`startup_handshake_unix.go`, `internal_mode_unix.go`, `execute_unix.go`, `store_unix.go`) | a staging directory, four pipes | start, prepare, commit, acknowledge, abort | caller, bootstrap, runner |
| guardian (`guardian_unix.go`, `process_unix.go`) | identity of the shell's process group | start the shell, signal its group, report its exit, be reaped | supervisor |
| policy (`internal/state/*.go`, `schemas/v1/policy.json`) | none: pure | statuses, transitions, limits, cursors, ownership | all of the above |
| command line (`internal/cli`) | none | parse, dispatch, write a response, then run its commit | runner API |
| editor plugin (`plugins/opencode/src`) | sessions, tracked jobs, pending launches | launch, close a session, dispose | command line |
| installer (`internal/installer`) | staged and installed trees, a lock file | install, uninstall | file system |
| protocol, contract, release, packaging, tmux skill | none at run time | validation, build, packaging | - |

What makes each part correct, and what makes it hard:

* **Record.** Every mutation replaces the whole of `state.json`, so each is a read-modify-write
  across processes.  Nothing a process stored may be undone by another; what is counted must be
  in `output.log` after any crash.
* **Publication.** The runner waits in an unfair `flock` against a stream of short mutations.
  `terminal.pending` fences them off; it can be left behind by a crash at any of four places and
  must then neither block the job for ever nor be taken for a living publication.
* **Recovery.** Whether the runner lives is read off an `flock`.  Other processes take that same
  lock briefly (to probe, to recover, to remove), so a probe may be mistaken for a runner; the
  reverse mistake would declare a living runner's job lost.
* **Cancellation.** A request may arrive after the supervisor made up its mind and before the
  record is final.  A stored request must decide the result; a finished job must not be
  rewritten.
* **Wait.** The cursor is committed after the response was written, in another critical section:
  two waits commit in either order, and either may die in between.
* **Removal.** Files go one at a time while others hold them open or wait for their locks; a
  process that obtained the `flock` of an unlinked file must not write.
* **Startup.** Three processes agree on one rename over four pipes.  Each may be killed, lose
  patience or be interrupted, and a frame whose write was given up may have arrived all the
  same; nobody may then be told something false, and no command may go on running for a job that
  does not exist.
* **Supervisor and guardian.** The command may ignore signals, leave its group, signal the group
  it is in or kill the guardian, while the runner itself may fail, be interrupted or be killed.
  No signal may reach a group that merely got the old number; nothing of the group may survive;
  an ordinary result must be the shell's own and come with all of its output.
* **Plugin.** Every `await` is a point where a session may be deleted, a call aborted or the
  plugin disposed.  A job that is reported after its session is gone must still be cancelled, a
  job of another session never, and closing may not wait for a start that never answers.
* **Installer.** An uninstall unlinks the very lock file others are waiting for.  Each call may
  fail and each process may be killed between two changes of the disk, and the user's other
  programs may touch the same names; the binary's symlink must lead to a complete release all
  the time.

`PROJECT.json` lists the hazards one by one, each at the line where it bites, with the
properties that cover it or the reason why none does.

## 2. The modules

| Module | What it is |
|---|---|
| `JobPolicy` | the pure decisions of `internal/state`: statuses, transitions, captured prefix, cursors, ownership |
| `JobStore` | one committed job: its directory, its three locks, its runner and any number of clients |
| `JobLifecycle` | the abstract life of a job, with no files, locks or processes; `JobStore` implements it |
| `MCJobStore` | two clients and the commands they repeat, for TLC; one `.cfg` per run |
| `JobStoreProofs` | theorems about `JobStore`'s record for any clients, sessions, limit and chunk sizes |
| `JobDirectoryProofs` | the same about its files, the intent and removal, and that it implements `JobLifecycle` |
| `JobDeliveryProofs` | the same about the cursors of waits |
| `Startup` | how a job comes to exist: caller, bootstrap and runner around the commit frame; ends where `JobStore`'s `Init` begins |
| `JobStart` | the abstract start of a job, with no frames, pipes or bootstrap; `Startup` implements it |
| `MCStartup` | who may be killed and who may lose patience, for TLC |
| `StartupProofs` | theorems about `Startup` for every such choice, and that it implements `JobStart` |
| `Supervisor` | the runner's supervision loop, the guardian and the command's process group |
| `Supervision` | what a runner decides about its command; `Supervisor` and `JobStore` both implement it |
| `MCSupervisor`, `SupervisorProofs` | a shell and one more process for TLC; theorems for any number of them, any limit and any amount of output |
| `SessionRegistry` | the editor plugin's launches, deletion of sessions, disposal |
| `MCSessionRegistry`, `SessionRegistryProofs` | three launches of two sessions for TLC; theorems for any sessions and launches |
| `Installer` | install with its rollbacks, uninstall, and the lock file both depend on |
| `Installation` | the abstract installation, with no lock file, staging or rollbacks; `Installer` implements it |
| `MCInstaller` | two processes and two versions for TLC |
| `InstallerProofs`, `InstallerAccountProofs` | theorems for any processes, versions and fault budget: the lock and the pointer; rollbacks, refusals and the refinement |

How they compose: `Startup` ends where `JobStore`'s `Init` begins, with a visible job, a runner
that holds its lease and a running shell.  `JobStore` sees of the supervision only what touches
the record; `Supervisor` is that supervision in detail and sees of the record only the stored
cancellation.  Two models of one function could drift apart: `Supervision` states what
`superviseShell` decides - the cause, what is stored, when it reports - and both are proved to
implement it.  `SessionRegistry` treats the command line as what it is to the plugin: a program
that ends, and may have reported a job.

### The abstract specifications

Each says in a page what a component promises, in its caller's terms; the detailed module maps
its state to theirs with `INSTANCE ... WITH`.

| Abstract | Detailed | The mapping |
|---|---|---|
| `JobLifecycle` | `JobStore` | the record while `state.json` is there, and the lease |
| `JobStart` | `Startup` | `CallerSeen` and `RunnerSeen` forget where in the code caller and runner are; the bootstrap and its pipes vanish |
| `Supervision` | `Supervisor`, `JobStore` | `SupervisionPhase`: in its loop, past it, or gone |
| `Installation` | `Installer` | `Tasks`: what the process in the critical section was asked for; the complete releases now and at its entry |

### `JobStore`: state

* `files`, `dirExists`: the names in the job's directory.  `st`: the content of `state.json` -
  status, captured bytes, whether a cancellation is stored, and the cursor of each session.
  `logSize`: bytes in `output.log`.  `recInode`: which file the *name* `recovery.lock` denotes.
  It is the one lock file opened with `O_CREATE`, so it can be unlinked by a removal and created
  again while somebody still holds, or waits for, the flock of the old one; the other names are
  only ever opened, never created, after the job is committed.
* `stateLock`, `runnerLock`, `recLock[inode]`: the holder of each flock.
* `pc`, `loc`, `job`: for each client, where it is, what it remembers (the snapshot it took, the
  caller a reconciliation returns to, the wait's cursor, the descriptor, the names still to
  unlink) and the record it loaded under the lock.
* `rpc`, `rjob`, `cause`, `rfd`: the same for the runner.
* `covered`, `bypass`: history, read by properties only.

### `JobStore`: actions

An action does at most one access to something another process may be changing, so two processes
interleave at every file-system call.  Where the code calls several functions without touching
shared state in between, the action is all of them.

| Actions | Code |
|---|---|
| `Start`, `Snapshot`, `AwaitIntent`, `Resnapshot`, `ReadLog`, `Respond` | `runner.Status`, `Wait`, `waitForTerminalIntent`, `output`, and `app.go`'s response-then-commit |
| `OpenRecovery`, `LockRecovery`, `InspectIntent`, `LeaseBusy`, `TakeLease`, `DropStaleIntent`, `MarkIntent`, `PublishLost`, `ClearIntent`, `ReleaseLease` | `reconcileRunnerStateWithActiveMutation` with each early return |
| `OpenLockFile`, `LockState`, `RecheckIntent`, `MutateState` | `openLockedJobContext`, `commitWait`, `cancelLocked` |
| `LeaseBusy` to `ca_*` | `cancelActive`: storing a request while recovery.lock keeps the runner from publishing |
| `ProbeLease`, `Unprobe`, `LeaseForRemoval`, `ListDirectory`, `Unlink`, `RemoveDirectory` | `removeTerminal` |
| `AppendBegin` ... `AppendCommit`, `AppendTimeOut` | `appendOutput` and what a failed append does to the supervisor |
| `Poll`, `HardTimeout`, `Supervised` | the supervisor's loop |
| `PublishOpen` ... `PublishRelease` | `publishExecutionTerminal`, `publishTerminalState` |
| `TimeOut`, `WaitDeadline`, `DeadlineSnapshot` | `lockTimeout` and a wait's own deadline |
| `Crash`, `RunnerCrash` | SIGKILL at any point; the kernel drops the flocks |

Two facts decide how the steps compose.  The runner holds `runner.lock` from before the job is
visible until it exits, so a free lease *is* a dead or finished runner. And whoever ends a job
takes `recovery.lock`, then creates `terminal.pending`, then takes `state.lock`: ordinary
mutations look for the intent before *and after* they lock, so at most the one that is already
past its second look lands in between.

### `Startup`: state

* `pc`: where caller, bootstrap and runner are; `returned`, `exited`, `slain` (by the bootstrap)
  and `crashed` are the ways to be over.
* `wire`, `writable`, `readable`: the frames in each of the four pipes and which ends are still
  open.  A reader meets the frames already written before it meets the end of the pipe; a writer
  fails once nobody reads.  A child's ends are closed in its parent, and every process passes
  its children only the descriptors named in the code, so each end has one holder.
* `job`: the directory is not there, staged under its `.starting-` name, or visible. `shell`:
  its process group.  `answer`: what `Start` returned: a job (`certain`), a job whose durability
  is in doubt (`uncertain`), an error after the commit frame (`unknown`) or an error before it
  (`refused`).  `sent` is history: a commit frame was handed to the first pipe.

### `Startup`: actions

| Actions | Code |
|---|---|
| `SendStart`, `AwaitPrepared`, `Check`, `SendCommit`, `AwaitCommitted` | `Manager.Start`, `writeFrameBefore`, `startupHandshake.complete` |
| `Recover` | `recoverCommitted` |
| `CloseInput`, `KillBootstrap` | `abortBeforeCommit`, `stopBootstrapWithWait` |
| `BootstrapReads`, `SpawnRunner`, `Relay`, `AwaitAcknowledgement`, `Report` | `runBootstrap`, `awaitRunnerFrame` |
| `StopRunner`, `AwaitRunnerGone`, `Fail` | `stopRunner`, `sendBootstrapFailure` |
| `RunnerReads`, `StartShell`, `Prepare`, `TellPrepared`, `AwaitCommit`, `Commit`, `Acknowledge` | `runDetachedRunner`, `startShell`, `Store.prepare`, `pendingJob.commit` |
| `StopUnpublishedShell`, `Abort` | `stopUnpublishedShell`, `pendingJob.abort` |
| `GuardianCleans` | `runGuardian` when its lifetime pipe ends |
| `Crash` | SIGKILL of any of the three; the kernel closes its descriptors |

`GivesUp(p)` stands for every timer of `p` and for the interrupts it listens to.  The bootstrap
listens too: it shares the caller's process group and session, only the runner gets its own.

### `Supervisor`

* `pc`, `cause`, `cleanup`, `waited`, `drained`, `timer`, `failed`: the runner and the locals of
  `superviseShell`.  `guardian`, `termed`, `frames`: the guardian and its events pipe.  `proc`,
  `holds`: the command's processes (`escaped` means `setsid`) and who holds the output pipe.
  `pgid`: whether the group's number still names this group.  `hit`, `shellEnd`, `rogue` are
  history.
* The commit is one step here (`Publish`); what else can happen around it is `Startup`'s
  subject.

| Actions | Code |
|---|---|
| `AwaitReady`, `StopGuardianStartup` | `startShell`, `stopGuardianStartup` |
| `Capture`, `CaptureDone`, `Waited`, `HardTimeout`, `GraceExpired`, `Poll`, `Interrupted`, `Return` | the cases of `superviseShell`'s select, and those `stopUnpublishedShell` shares |
| `Reap`, `SignalGroup` | `reapGuardian`, `signalGroup`, `signalProcessGroup` |
| `StartShell`, `TellReady`, `Watch`, `Linger`, `AwaitExit`, `GuardianCleanup` | `runGuardian`, `guardianCleanup` |
| `Fork`, `Write`, `Exit`, `Escape`, `TermOwnGroup`, `KillGuardian` | the command: anything a program may do to itself |
| `RunnerDies`, `Recycle`, `StoreCancellation` | SIGKILL; the kernel reuses the number; another process cancels |

### `SessionRegistry`

* `closed`, `disposed`, `known`, `closing`, `pending`, `jobs`: the registry's fields; a
  session's state outlives its entry in the map because closures keep it.  `handshake`: the
  promise shared by all calls.
* `stage`, `stop`: where each launch is and which abort signals it got.  `call`, `awaits`,
  `cleanup`, `asking`, `dispose`, `left`: the asynchronous functions that are under way, each
  with what it awaits.

| Actions | Code |
|---|---|
| `AskPermission`, `DropLaunch`, `BeginLaunch`, `HandshakeEnds`, `SendRequest`, `Answer`, `FinishCancelled` | `executeLaunch`, `beginLaunch`, `ensureVersion`, `finish` |
| `SessionDeleted`, `BeginClose`, `CloseCancels`, `CloseEnds`, `CleanupCancels`, `CleanupEnds`, `CancelEnds` | `close`, `cancelTrackedJobs`, `cancelTrackedJob` |
| `Dispose`, `DisposeCloses`, `DisposeEnds` | `dispose` |

JavaScript runs to the next `await`, so an action is all the code between two of them, however
long.

### `Installer`

* `named`, `flock`, `fd`: which inode the lock path names, who holds each inode's flock, what
  each process has open.  `root`, `current`, `release`, `link`, `litter`: the disk.  A release
  is `published` between the rename into place and the `chmod` that makes it immutable,
  `partial` while it is being removed.
* `pc`, `op`, `my`: where each process is and its local variables.  `entry`, `trouble` are
  history: what the process in the critical section found, and what went wrong since.

| Actions | Code |
|---|---|
| `Begin`, `OpenLock`, `InspectLock`, `LockFile`, `MatchLock`, `GiveUp`, `Leave` | `acquireInstallationLock`, `openLockFile`, the lock's release |
| `Preflight` ... `UnlinkLegacy` | `installWithHooks` in its order, with `publishRelease`, `switchCurrent`, `removeExpectedLink` |
| `RestoreCurrent`, `RestoreLegacy`, `Rollback`, `UnlinkBin` | its rollbacks, each of which may fail too |
| `Survey` ... `RemoveRoot`, `UnlinkLockName` | `uninstallLocked`, `unlinkNamed` |
| `EraseRelease` | `removeRelease`, for both |
| `Crash`, `MeddleLink`, `MeddleRelease` | SIGKILL anywhere; another program replaces a registration or puts a directory where a release should go |

## 3. What the runs check

The runs of `JobStore` use two clients that issue their commands over and over.  Every property
has a mutant, a plausible bug in a mapped definition under which TLC finds it violated in the
same run.

| Run | Question | Shows |
|---|---|---|
| `cursors` | two waits of one session, two chunks, one waiter and the runner may be killed | `CountedBytesExist`, `CursorWithinDelivered`, `NoLostUpdate`, `IntentFencesMutations` |
| `cancel` | one client cancels, the other does anything, all may die or time out | `CancelHonoured`, `RunnerLostOnlyIfDead`, `TerminalFrozen` |
| `remove` | two removals and a cancellation against a runner that may die | `LeaseProtectsDirectory`, `RemovalIsFinal`, `ImplementsLifecycle` |
| `starve` | commands without end while the runner publishes | `PublicationCompletes` |
| `recover` | runner and mutator die anywhere; somebody asks for the status | `LostRunnerReported` |
| `intent` | runner and observer die anywhere; somebody keeps mutating | `StaleIntentCleared` |
| `commit` | a startup in which anybody may die or lose patience anywhere | `NoUnwantedJob`, `AnswerIsTrue`, `CertainIsSafe`, `CommittedKeepsShell`, `ImplementsJobStart`, `AbandonedShellStops`, `StagingRemoved` |
| `hang` | processes die and no timer fires but the recovery's own | `StartReturns` |
| `group` | a command that may do anything to its group, a runner that may fail, be interrupted or die | `OwnGroupOnly`, `NothingOutlives`, `OrdinaryEndIsShells`, `OutcomeHasOutput`, `ImplementsSupervision`, `SupervisionEnds`, `RunnerDeathStopsGroup` |
| `close` | a deletion, an aborting user and a disposal at every `await` of three launches | `OnlyOwnJobs`, `DisposeIsComplete`, `DeletedSessionsJobsCancelled`, `CloseReturns` |
| `disk` | three installs or uninstalls of two processes; one call fails, one process dies, somebody meddles once | `OneAtATime`, `CurrentIsComplete`, `InstallKeepsReleases`, `FailedInstallRestores`, `RefusedForCause`, `ImplementsInstallation`, `OperationsEnd` |
| `litter` | an install is killed, then somebody uninstalls | `UninstallRemovesOwned` is **violated** |

`litter` is the one disagreement found between the repository's words and its code.
`README.md:243` says that uninstall removes installer-owned releases and registrations.  But a
killed install leaves its `.staging-*` or `.current-*` entry behind, nothing ever removes it,
and `uninstall.go:111` refuses to work in a directory with an entry it does not know: from then
on no uninstall succeeds although nothing foreign is there.

What the runs taught us, beyond "it holds":

* `cancelActive` polls `state.lock` *while it holds* `recovery.lock`.  A runner entering
  publication waits for `recovery.lock` without a bound of its own, so an endless stream of
  cancellations and waits delays it for as long as those polls last; what ends the delay is
  `lockTimeout`.  `PublicationCompletes` needs the clients' timers to fire and fails without
  them.
* `status` of a *finished* job returns from its first snapshot and never looks at the intent.
  An intent that a crash left on a finished job is cleared only by a command that mutates: hence
  a separate run `intent`, whose persistent client cancels, next to `recover`, whose persistent
  client only polls.
* `CursorWithinDelivered` is a promise about waits that let the stored cursor decide where to
  start.  A request may name a later cursor explicitly, and then its commit covers output no
  response delivered; the run keeps `Explicit = {}`.  Run `starve` is the one with explicit
  cursors, the error return for a cursor past the end included.
* Removal can leave an empty directory (an observer re-created `recovery.lock` after the
  listing) or, if killed between two unlinks, a `state.json` without its locks.  The code
  promises nothing about either, the model reaches both, and what does hold is `RemovalIsFinal`:
  the record itself never comes back.

* The commit is not the end of danger for a new job.  If the bootstrap's deadline passes, or it
  is interrupted, between passing the commit on and reading the acknowledgement, `stopRunner`
  closes the runner's input (which the runner no longer reads), waits, and kills the runner of a
  job that is already visible.  Its caller then gets `uncertain` from `recoverCommitted`, or no
  job at all.  What holds is `CertainIsSafe`: nobody who was told the plain success loses his
  runner this way.
* The command runs before the job is committed, so a refused start may have had side effects.
  What holds is that the command is stopped (`AbandonedShellStops`); and the runner waits for
  the commit without a deadline, so this rests on the end of its input reaching it.
* A runner killed between `prepare` and `commit` leaves its `.starting-` directory, which no
  command lists or removes: hence the exception in `StagingRemoved`.

* A descendant that left the group (`setsid`) and keeps the output pipe open keeps the
  supervision from ending: the loop waits for the end of the output and no signal reaches the
  holder.  This is the exception in `SupervisionEnds`.
* The guardian in its startup window (before it watches) reacts to a dead runner by killing the
  shell alone; what the shell started by then lives on.  Hence `RunnerDeathStopsGroup` begins
  with the guardian's watch.
* A command that signals its own group also reaches the guardian.  If the shell survives its own
  SIGTERM, the guardian cleans up after the grace period without reporting an exit, and the job
  has no outcome; it is found lost.  The result is never an ordinary one
  (`OrdinaryEndIsShells`).
* `dispose` awaits its own cancellations and every cleanup, not the requests an earlier deletion
  of the session still has under way: `DisposeIsComplete` promises that each job has been asked
  to stop, not that each answer has arrived.
* The installer's `openLockFile` looks at the opened file before it locks it.  An uninstall that
  unlinks the name in between leaves a file without a link, and the operation is refused
  (`ErrUnsafePath`) instead of tried again.
* Between the last check of `removeExpectedLink` and its `os.Remove` the link may have been
  replaced, and then a foreign link is removed.  No check can close this window on a path name;
  `FailedInstallRestores` and `RefusedForCause` therefore speak of operations nobody interfered
  with.

### Bounds

* Two clients and the runner.  Every property is about a pair of writers, or a writer and a
  prober, next to the runner; commands repeat without a bound, so two clients give any sequence
  of commands, only never three at once.
* `Limit` 1 or 2 bytes; chunks of 1, to fill it exactly or in two appends, or of 2 with `Limit`
  1, to cross it.  Captured, log size and cursors are bounded by it.
* `Inodes` {0..3} where files are unlinked: the name can denote a new file while two clients and
  the runner each keep an old one open.  An identity is reused only when nobody has it open.
  Elsewhere nothing is unlinked and one identity is enough.
* `Exits`: the ends an undisturbed shell may have; they behave alike, so one is enough except
  where the outcome is what the property reads.
* `MayCrash`, `MayTimeOut` name who may die or give up.  Where one of the two clients is left
  out, it is by symmetry of the roles, or because the property (liveness) needs a survivor.
* `Startup` is finite as it is: one caller, one bootstrap, one runner, at most two frames in a
  pipe.  `commit` lets all three die and lose patience; `hang` takes all patience to be endless,
  so that only the pipes can bring `Start` to an end.  A startup comes to an end, so these runs
  do not check deadlock.
* `Supervisor`: one process besides the shell, since a process matters only by whether it is in
  the group, whether it holds the pipe and whether it dies of SIGTERM, and the shell is the one
  that is reported; `Limit` 2 and three chunks: below the limit, at it and past it.
* `SessionRegistry`: a run and a start of one session, because they are closed differently, and
  a start of another session to be spared.  Only the first session is deleted by an event, both
  by a disposal; only a start is aborted by its user.
* `Installer`: two processes, as a lock is between two; two versions, so that an update replaces
  something; three operations, e.g. an install, its removal and a third that waits for the
  unlinked lock; two inodes, as each process has one file open.  One failure, one kill and one
  change by others per behaviour, in any place each; `litter` needs the kill only.
* `bypass` and the wait loops are bounded by the fence itself, not by a constraint: no run uses
  a state constraint.  Clients return to `idle`, so the runs of `JobStore` check deadlock too;
  startups, supervisions, sessions and the bounded operations of the installer come to an end,
  and their runs do not.

### Fairness

* `Spec` has none: safety only.
* `FairSpec`: every process that is not killed keeps taking steps and its timers fire (`WF`), as
  the operating system's scheduler gives.  `SF` on `PublishLockRecovery`: a process *blocked* in
  `flock` is in the kernel's queue and gets the lock, however often others take it.  No such
  promise is made for `state.lock`, which is the point of `terminal.pending`.
* `PersistentSpec` adds an agent that keeps asking (`WF` on some command per client) and
  commands that outlast the locks they wait for (`SF` on `LockRecovery` and `LockState`):
  without them nobody needs to discover a dead runner.

* `Startup`'s `FairSpec`: each of the three processes, unless killed, keeps taking steps and,
  where it may lose patience, its timers fire; the guardian reacts to the end of its lifetime
  pipe. The guardian is not killed, and stopping the shell comes to an end:
  `stopUnpublishedShell` waits for the shell's output pipe to be drained, so nothing that left
  its process group may hold that pipe open.
* `Supervisor`'s `FairSpec`: runner and guardian keep taking steps until they are killed, timers
  included.  The command owes nothing to anybody: it may hang, write or ignore SIGTERM for ever.
  Checks that fail, interrupts and cancellations need never happen.
* `SessionRegistry`'s `FairSpec`: the event loop goes on; a version query and a request to
  cancel end, the latter because the command line waits for a job's lock no longer than
  `lockTimeout`; a run ends with its observation, or is killed by its abort.  A start need never
  answer, a permission need never be given.
* `Installer`'s `FairSpec`: a process that is not killed takes its next step, in its turn for
  each process; nothing is promised about giving up or about failures.  `LockFile` is under weak
  fairness only: no operation holds the lock again without a new `Begin`, and those are bounded.

## 4. What is proved

`JobStoreProofs`, `JobDirectoryProofs` and `JobDeliveryProofs` hold for *every* set of clients
and sessions, limit, chunk sizes, explicit cursors, inodes, and choice of who may crash or time
out. The assumptions are those `JobStore` names: the runner is no client, `NoOne` is no process,
the owner is a session, sizes are positive naturals, inode 0 exists.

| Theorem | States |
|---|---|
| `TypeCorrect` | `Spec => []TypeOK` |
| `Inductive` | `Spec => []IInv` |
| `CancellationHonoured` | `Spec => []CancelHonoured` |
| `LostOnlyWhenDead` | `Spec => []RunnerLostOnlyIfDead` |
| `CountsOnlyWhatExists` | `Spec => []CountedBytesExist` |
| `NothingLost` | `Spec => NoLostUpdate` |
| `EndIsFinal` | `Spec => TerminalFrozen` |
| `DirectoryInductive` | `Spec => []DirectoryInv` |
| `LeaseProtects` | `Spec => []LeaseProtectsDirectory` |
| `IntentFences` | `Spec => []IntentFencesMutations` |
| `RemovedForGood` | `Spec => RemovalIsFinal` |
| `Refines` | `Spec => ImplementsLifecycle` |
| `KeepsSupervision` | `Spec => ImplementsSupervision` |
| `NothingSkipped` | `Spec => []CursorWithinDelivered`, assuming `Explicit = {}` |

The safety properties are not inductive by themselves: that a cancellation is honoured depends
on the runner's copy being the record on disk, which depends on who may write while it holds
`state.lock`, which depends on every process holding exactly the locks its place in the code
says.  `IInv` adds those three:

* `LocksMatchControl`: a process holds `state.lock` and the lease exactly at the steps where the
  code does, and the runner holds its lease until it is gone;
* `CopiesAreCurrent`: whoever is about to write holds a copy of the record as it is on disk (or,
  for an append, the same record with more bytes, all of them in the log);
* `RunnerOwnsStatus`: until the runner has published, the record says `running`, and a
  supervisor that settled on "cancelled" did read a stored request.

Most of the steps only move one client and take or drop locks; `QuietMove` says what such a step
may do, and one lemma carries the invariant over all of them. What remains are the few steps
that write the record - `PublishLost`, `MutateState`, `AppendCommit`, `PublishTerminal` - and
the runner's moves, each with a lemma of its own.  The two action properties follow from the
invariant and the same writers.

About the files `IInv` says nothing.  `DirectoryInv` adds what the directory and the third lock
owe each other:

* `RecoveryHeld`: who is past `recovery.lock` has the flock of the file *it opened*;
* `RunningKept`: while the job runs or its runner lives every file but the intent is in place.
  Hence `recovery.lock` was never created anew, all of its users are at the same file, and
  together with `RecoveryHeld` they exclude each other;
* `RecordPresent`: whoever is about to replace the record holds `state.lock` and saw the record
  under it, so no replacement brings a removed one back;
* `IntentKnown`: the runner knows whether the intent is its own; and whoever found no intent
  under `recovery.lock` of a running job is right until it lets go of that lock, which is why a
  request stored by `cancelActive` cannot slip past the intent;
* `FenceKept`: the one write that got past the intent was by the holder of `state.lock`, and
  nobody else has passed its second look.

`ControlMove` and `DirectoryMove` sum up what any step of a client does to the places, to
`recovery.lock` and to the files, the corresponding pair does so for the runner, and each part
of the invariant is carried over those four.  The refinement then needs no second walk through
the actions: a step that leaves the record alone ends the lease, removes the job or maps to no
step at all (`QuietRefines`), and each of the four writers maps to one action of `JobLifecycle`:
`PublishLost` to `Lose`, `MutateState` to `RequestCancel` or `Acknowledge`, `AppendCommit` to
`Capture`, `PublishTerminal` to `Finish`.

The same record also serves a supervisor.  `KeepsSupervision` shows that the runner's part of
`JobStore`, whatever clients write in between, is a `Supervision`: `AppendCommit` is its `Store`,
`Poll` its `Notice`, `HardTimeout` its `TimeOut`, and a client's `MutateState` its `Request`.
Besides `IInv` that takes `LimitNoticed`: as long as no cause was noted the limit is not reached,
and once it was the cause no append is under way, so that nothing is stored afterwards.

For cursors the invariant is `DeliveryInv`: where a wait starts from, the cursor it read and
what it is about to commit are all within what was delivered to its session.  `Explicit = {}` is
an assumption of that theorem alone, for the reason given in section 3.

`StartupProofs` holds for every choice of who may be killed (`MayCrash`) and who may lose
patience (`Impatient`).

| Theorem | States |
|---|---|
| `Inductive` | `Spec => []IInv` |
| `NoJobUnasked` | `Spec => []NoUnwantedJob` |
| `AnswersAreTrue` | `Spec => []AnswerIsTrue` |
| `AcknowledgedIsSafe` | `Spec => []CertainIsSafe` |
| `CommittedRuns` | `Spec => []CommittedKeepsShell` |
| `Refines` | `Spec => ImplementsJobStart` |

Here the invariant is about frames: one that is on its way announces only what is true. A commit
frame in either pipe, or a process between taking and passing it on, implies that the caller
sent one (`CommitWasSent`); an acknowledgement implies a visible job (`CommitWasMade`); one on
its way to the caller implies that the bootstrap has exited and let the runner live
(`BootstrapLetGo`); the shell waits with its runner (`ShellAwaits`); and there is only one
runner (`RunnerUnborn`).  The lemmas about `Takes` and `Sends` say which frames a pipe can hold
after a step, and from there each step is a case of `CallerKeeps`, `BootstrapKeeps`,
`RunnerKeeps` or `DeathKeeps`.

`Refines` puts them together: one commit point, at which the command lives; one answer, which
says `certain` only of a visible job whose runner was let go, and `refused` only if nothing was
asked; and a runner that ends by itself only once its command was stopped, if it ever was
started, or its job is visible.  The bootstrap's steps are none of `JobStart`'s, but for the kill
of a runner that would not go.  `IInv` does not say how far a runner is; `StepsMatch` does: which
of command, staging and visible job each of its places comes with.  It is proved inductive along
with the steps (`CallerSeenSteps` and its counterparts for bootstrap, runner and deaths).

`InstallerProofs` holds for any number of processes, versions and inodes and any budget of
operations, failures, kills and changes by others.

| Theorem | States |
|---|---|
| `Inductive` | `Spec => []IInv` |
| `OnlyOneWorks` | `Spec => []OneAtATime` |
| `PointerIsSound` | `Spec => []CurrentIsComplete` |
| `ReleasesSurvive` | `Spec => []InstallKeepsReleases` |

`OneAtATime` alone is not inductive: that the lock excludes others depends on the file being the
one the path names, for as long as anybody works, and only the holder unlinks the name.
`LocksFit` says so: who works has the flock of the named inode. On top of it `Progress` says
what each place of the code knows of the disk: where the pointer is, that the release is
complete by the time the pointer is about to lead to it, and that whatever is about to be erased
is not the current release and was not complete when an install found it.  `WorkProgress` proves
it for the process that moves; nobody else is inside, so `Elsewhere` and `Undisturbed` cover the
rest.

`InstallerAccountProofs` builds on it and compares the disk with what the operation found.

| Theorem | States |
|---|---|
| `Accounted` | `Spec => []AccountInv` |
| `FailureIsUndone` | `Spec => []FailedInstallRestores` |
| `RefusalsHaveCauses` | `Spec => []RefusedForCause` |
| `Refines` | `Spec => ImplementsInstallation` |

`Account` is the invariant: for each place of an operation that nobody interfered with, which
registrations and releases differ from what it found, and what its locals tell of that.  An
install goes forward as long as nothing has failed and only backward afterwards, so at each
place of a rollback one failure is behind it; `LinksBut` names the registrations still to be
taken back there.  A second failure ends what the account promises, which is why
`FailedInstallRestores` allows one.  In an uninstall the account holds while nothing has failed.
`InstallStep` and `UninstallStep` have one case for each action.

`Refines` makes no exception for a second failure or for interference: whatever happens, an
install puts only its own version or the one it found in use, gives up only its own and only if
it was not there, and an uninstall withdraws the pointer before it removes a release.  Most of
that is in `Progress`; `Remembers` adds what no fault can take from an install, that its locals
name the pointer it found and that it erases its own version only.  `Affects` sums up what a step
of the work does to pointer and releases, `Quiet` disposes of the steps that touch neither, and
`StepAffects` treats the six that do.

`SupervisorProofs` holds for any children, output limit and amount of output.

| Theorem | States |
|---|---|
| `Inductive` | `Spec => []IInv` |
| `SignalsOwnGroup` | `Spec => []OwnGroupOnly` |
| `GroupIsGone` | `Spec => []NothingOutlives` |
| `OrdinaryEndIsReal` | `Spec => []OrdinaryEndIsShells` |
| `OutputIsComplete` | `Spec => []OutcomeHasOutput` |
| `KeepsSupervision` | `Spec => ImplementsSupervision` |

Three parts, one per question.  `GroupKept`: a group that was killed stays empty, and its number
stays taken until the runner has reaped the guardian or is dead, after which nobody signals.
`ExitIsReal`: an exit frame is only ever written for a dead shell, and as long as the runner has
not signalled, a shell stopped by somebody else's signal means a guardian that will not report
it. `OutputKept`: what was read is stored, up to the limit, while no error was noted, and the
end of the output is the end of all who could write.  `KeepsSupervision` has one
case for each step; `Aside` is what a step may do that is none of a supervision's, and
`OutputKept` says that a supervision cut short has no outcome.

`SessionRegistryProofs` holds for any sessions and launches, any division into runs and starts,
and any choice of what may be aborted or deleted; the constants' one assumption beyond their
types is that a launch, a call of `close` and a cleanup are not mistaken for each other.

| Theorem | States |
|---|---|
| `Inductive` | `Spec => []IInv` |
| `OthersAreSpared` | `Spec => []OnlyOwnJobs` |
| `DisposeForgetsNothing` | `Spec => []DisposeIsComplete` |

The argument is that every obligation has a holder.  `Booked`: what is pending is on its way,
and a job nobody asked to stop is recorded.  `Covered`: when a session is closing or gone from
the map, each of its runs is awaited, and each start or recorded job has a cleanup that will
still come for it.  `Disposing`: disposal waits for all of those.

## 5. What is only model-checked

* `PublicationCompletes`, `LostRunnerReported`, `StaleIntentCleared`, `StartReturns`,
  `AbandonedShellStops`, `StagingRemoved`, `SupervisionEnds`, `RunnerDeathStopsGroup`,
  `DeletedSessionsJobsCancelled`, `CloseReturns`, `OperationsEnd`: liveness under fairness,
  which the proof system cannot treat here.

The inductive invariants themselves (`IInv`, `DirectoryInv`, `AccountInv`, `PromiseInv` and their
like) are proved and in no run: TLC checks the properties they are there for.  Nothing that a run
checks and that is not in this list is without a proof, `UninstallRemovesOwned` excepted, which
is false.

## 6. What is not modelled

* `runtime.json`, the temporary file of an atomic write, and I/O errors other than a missing
  file.  A rename is atomic; a power failure (lost page cache) is not modelled, a killed process
  is.
* Authorization by workspace and the parsing of identifiers; `MayMutate` keeps the ownership
  rule.
* Wall-clock time: a deadline is a choice to stop (`WaitDeadline`, `TimeOut`), and a wait's
  quiet and total limits are not computed.  The order of time stamps that `state_validation.go`
  demands is not modelled either: a clock set back far enough makes a publication fail, which is
  a failure like any other.
* In a startup: the guardian's own start and the failures inside `startShell` (one step that
  succeeds or fails), frames that do not decode, and a job removed by another command before its
  caller looked for it.
* In a supervision: the numbers of exit codes and signals, how errors are worded and joined,
  Darwin's reading of `EPERM`, and the birth identity of the shell, which is recorded for others
  to compare.
* In the plugin: calls that launch nothing; they share the version handshake and otherwise only
  pass a request on.
* In the installer: the content of a bundle and its verification (a check that may fail),
  permissions of directories that exist, and the temporary link of the binary's registration,
  which lies in the user's directory.
* `list`, `output`: they read what `status` and `wait` read and change nothing of their own.
* Protocol validation, generated code, path policy, release and packaging, the tmux skill: pure
  functions or build-time tooling.

## 7. Plan

Done, in the order of importance: `JobStore` with `JobPolicy` and `JobLifecycle`; `Startup`;
`Supervisor` with the guardian; `SessionRegistry`; `Installer`; and the proofs listed above.
Left:

1. `Timestamps`: wall-clock steps against the ordering `state_validation.go` demands;
   `WaitDeadlines`: the quiet and total limits of a wait against a reference definition.
2. The publication transaction of a release (`scripts/release-candidate-transaction.ts`).
