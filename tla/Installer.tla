------------------------------ MODULE Installer -------------------------------
(***************************************************************************)
(* Install and Uninstall.  Both work under one flock of a lock file, which  *)
(* an uninstall unlinks when it is done, so that the name may come to stand *)
(* for another file between a process's open and its flock.                 *)
(*                                                                         *)
(* Under the lock an install stages a release, publishes it under its       *)
(* version, registers the binary and switches the "current" symlink; when   *)
(* anything fails it takes its own steps back.  Any call may fail, the      *)
(* process may be killed anywhere, and the user's other programs may change *)
(* the registrations or put something where a release should go.            *)
(***************************************************************************)
EXTENDS Integers, FiniteSets

CONSTANTS
    Procs,        \* processes that install or uninstall
    Versions,     \* release versions
    Inodes,       \* inode numbers the lock file may get
    Offers,       \* what each may be asked for: a version to install, Uninstall
    Uninstall,
    None,
    MaxOps,       \* bounds: operations begun, calls failed, processes killed,
    MaxFaults,    \*         changes made by others
    MaxCrashes,
    MaxMeddles

ASSUME InstallerAssumption ==
    /\ None \notin Procs \cup Versions \cup Inodes \cup {Uninstall}
    /\ Uninstall \notin Versions
    /\ Offers \in [Procs -> SUBSET (Versions \cup {Uninstall})]
    /\ {MaxOps, MaxFaults, MaxCrashes, MaxMeddles} \subseteq Nat

Links == {"bin", "legacy"}

\* A release directory: published is complete but still writable at its root
\* (0700), complete is immutable (0555), partial is half removed.
ReleaseStates == {"absent", "published", "complete", "partial", "foreign"}

VARIABLES
    named,     \* the inode the lock path names
    flock,     \* the process holding each inode's lock
    root,      \* whether the data root exists
    current,   \* the version the "current" symlink points at
    release,   \* the state of each release directory
    link,      \* the registrations: "absent", "owned" or "foreign"
    litter,    \* temporary entries nobody will remove: "staging", "pointer"
    pc,        \* where each process is
    op,        \* what each process was asked for
    fd,        \* the lock file each process has open
    my,        \* each process's local variables
    used,      \* how much of each bound is used
    entry,     \* the disk as the last process to get in found it
    trouble    \* what went wrong since then

lock == <<named, flock, fd>>
disk == <<root, current, release, link, litter>>
history == <<used, entry, trouble>>
vars == <<lock, disk, pc, op, my, history>>

\* The local variables of installWithHooks and uninstallLocked.
Locals == [bin : BOOLEAN, legacy : BOOLEAN,        \* binExists, legacyPluginExists
           old : Versions \cup {None},             \* oldPointer, or current
           created : BOOLEAN,                      \* releaseCreated
           createdBin : BOOLEAN, switched : BOOLEAN, legacyRemoved : BOOLEAN,
           doomed : SUBSET Versions]               \* releases to be removed
Unset == [bin |-> FALSE, legacy |-> FALSE, old |-> None, created |-> FALSE,
          createdBin |-> FALSE, switched |-> FALSE, legacyRemoved |-> FALSE,
          doomed |-> {}]

NoEntry == [current |-> None, release |-> [v \in Versions |-> "absent"],
            link |-> [l \in Links |-> "absent"], litter |-> {}]
NoTrouble == [faults |-> 0, meddled |-> FALSE]

InstallPCs == {"preflight", "prepare", "publish", "unstage", "harden", "verify", "register",
               "switch", "rename", "confirm", "unregister", "unlink", "restore", "relink",
               "rollback", "unlink_bin"}
UninstallPCs == {"survey", "recheck", "drop_legacy", "check_bin", "drop_bin", "drop_current",
                 "rmdir", "unname"}
\* A process in one of these relies on having the installation to itself.
Within == InstallPCs \cup UninstallPCs \cup {"erase", "failed"}
Holding == Within \cup {"match", "done"}
Outside == {"idle", "open", "inspect", "flock"}

Installing(p) == op[p] \in Versions

Init ==
    /\ named = None /\ flock = [i \in Inodes |-> None] /\ fd = [p \in Procs |-> None]
    /\ root = FALSE /\ current = None /\ litter = {}
    /\ release = [v \in Versions |-> "absent"]
    \* An older product may have left its registration.
    /\ \E state \in {"absent", "owned"} : link = [bin |-> "absent", legacy |-> state]
    /\ pc = [p \in Procs |-> "idle"] /\ op = [p \in Procs |-> None]
    /\ my = [p \in Procs |-> Unset]
    /\ used = [ops |-> 0, faults |-> 0, crashes |-> 0, meddles |-> 0]
    /\ entry = NoEntry /\ trouble = NoTrouble

-----------------------------------------------------------------------------
\* Steps: a call succeeds, or refuses what it finds, and the process goes on;
\* or it fails for a reason of its own (I/O, a bad bundle, a cancelled context).

Goto(p, to) == pc' = [pc EXCEPT ![p] = to]

Calm(p, to) == Goto(p, to) /\ UNCHANGED history
Fault(p, to) ==
    /\ used.faults < MaxFaults
    /\ used' = [used EXCEPT !.faults = @ + 1]
    /\ trouble' = [trouble EXCEPT !.faults = @ + 1]
    /\ Goto(p, to) /\ UNCHANGED entry

\* Under the lock nothing but the disk and the local variables changes.
At(p, here) == pc[p] = here /\ UNCHANGED <<lock, op>>

Becomes(v, state) == release' = [release EXCEPT ![v] = state]
Points(l, state) == link' = [link EXCEPT ![l] = state]

-----------------------------------------------------------------------------
\* Slips the properties must notice.

\* The locked file is not compared with what the path names.
AnyLockMatches(p) == TRUE

\* Closing the file leaves the lock behind.
ClosesKeepingLock(p) == fd' = [fd EXCEPT ![p] = None] /\ UNCHANGED <<named, flock>>

\* A release that was found is reported as created.
PrepareClaimingRelease(p) ==
    /\ At(p, "prepare")
    /\ \/ /\ release[op[p]] = "complete"
          /\ my' = [my EXCEPT ![p].created = TRUE] /\ Calm(p, "verify")
       \/ release[op[p]] = "published" /\ Calm(p, "harden") /\ UNCHANGED my
       \/ release[op[p]] = "absent" /\ Calm(p, "publish") /\ UNCHANGED my
    /\ UNCHANGED disk

\* An interrupted publication is not taken over.
PrepareWithoutTakeover(p) ==
    /\ At(p, "prepare")
    /\ \/ release[op[p]] = "complete" /\ Calm(p, "verify")
       \/ release[op[p]] = "absent" /\ Calm(p, "publish")
       \/ release[op[p]] \notin {"complete", "absent"} /\ Calm(p, "failed")
    /\ UNCHANGED <<disk, my>>

\* A failed verification rolls back without restoring the pointer.
ConfirmWithoutRestore(p) ==
    /\ At(p, "confirm")
    /\ Calm(p, "unregister") \/ Fault(p, "rollback")
    /\ UNCHANGED <<disk, my>>

\* A failed install points current at nothing instead of at what it found.
RestoreNothing(p) ==
    /\ At(p, "restore")
    /\ \/ current = op[p] /\ current' = None
          /\ Calm(p, IF my[p].legacyRemoved THEN "relink" ELSE "rollback")
       \/ Fault(p, "failed") /\ UNCHANGED current
    /\ UNCHANGED <<root, release, link, litter, my>>

\* A sync failure after the unlink is reported as if nothing was unlinked.
UnlinkForgettingLegacy(p) ==
    /\ At(p, "unlink")
    /\ link["legacy"] # "absent" /\ Points("legacy", "absent")
    /\ Calm(p, "done") \/ Fault(p, IF my[p].switched THEN "restore" ELSE "rollback")
    /\ UNCHANGED <<root, current, release, litter, my>>

-----------------------------------------------------------------------------
\* The lock file: acquireInstallationLock.

Begin(p) ==
    /\ pc[p] = "idle" /\ used.ops < MaxOps
    /\ \E o \in Offers[p] : op' = [op EXCEPT ![p] = o]
    /\ used' = [used EXCEPT !.ops = @ + 1]
    /\ Goto(p, "open")
    /\ UNCHANGED <<lock, disk, my, entry, trouble>>

\* open(O_CREAT): the file the path names, or a new one.  An inode number is
\* free once nothing names or holds it open.
OpenLock(p) ==
    /\ pc[p] = "open"
    /\ \/ named # None /\ fd' = [fd EXCEPT ![p] = named] /\ UNCHANGED named
       \/ named = None /\ \E i \in Inodes :
             /\ \A q \in Procs : fd[q] # i
             /\ named' = i /\ fd' = [fd EXCEPT ![p] = i]
    /\ Goto(p, "inspect")
    /\ UNCHANGED <<flock, disk, op, my, history>>

Closes(p) ==
    /\ fd' = [fd EXCEPT ![p] = None]
    /\ flock' = [i \in Inodes |-> IF flock[i] = p THEN None ELSE flock[i]]
    /\ UNCHANGED named

Ends(p) ==
    /\ op' = [op EXCEPT ![p] = None] /\ my' = [my EXCEPT ![p] = Unset]
    /\ Goto(p, "idle") /\ Closes(p)

\* The fstat after the open: a file unlinked in between has no link left, and
\* the operation is refused.
InspectLock(p) ==
    /\ pc[p] = "inspect"
    /\ \/ named = fd[p] /\ Goto(p, "flock") /\ UNCHANGED <<lock, op, my>>
       \/ named # fd[p] /\ Ends(p)
    /\ UNCHANGED <<disk, history>>

\* flock(LOCK_NB), tried every 25 ms until it is free ...
LockFile(p) ==
    /\ pc[p] = "flock" /\ flock[fd[p]] = None
    /\ flock' = [flock EXCEPT ![fd[p]] = p]
    /\ Goto(p, "match")
    /\ UNCHANGED <<named, fd, disk, op, my, history>>

\* ... or the context is cancelled.
GiveUp(p) ==
    /\ pc[p] = "flock" /\ Ends(p)
    /\ UNCHANGED <<disk, history>>

\* The locked file is still the one the path names, or it starts over.
LockMatches(p) == named = fd[p]

MatchLock(p) ==
    /\ pc[p] = "match"
    /\ \/ /\ LockMatches(p)
          /\ Goto(p, IF Installing(p) THEN "preflight" ELSE "survey")
          /\ entry' = [current |-> current, release |-> release, link |-> link, litter |-> litter]
          /\ trouble' = NoTrouble
          /\ UNCHANGED lock
       \/ /\ ~LockMatches(p)
          /\ Goto(p, "open") /\ Closes(p) /\ UNCHANGED <<entry, trouble>>
    /\ UNCHANGED <<disk, op, my, used>>

Leave(p) ==
    /\ pc[p] \in {"done", "failed"} /\ Ends(p)
    /\ UNCHANGED <<disk, history>>

-----------------------------------------------------------------------------
\* What the operations look for.

CurrentValid == current # None => release[current] = "complete"
NoForeignLink == \A l \in Links : link[l] # "foreign"
LinkIs(l, expected) == link[l] = IF expected THEN "owned" ELSE "absent"

-----------------------------------------------------------------------------
\* Install.

\* Directories, bundle, both registrations, the current release.
Preflight(p) ==
    /\ At(p, "preflight")
    /\ \/ /\ NoForeignLink /\ CurrentValid /\ root' = TRUE
          /\ my' = [my EXCEPT ![p] = [Unset EXCEPT !.bin = LinkIs("bin", TRUE),
                                                   !.legacy = LinkIs("legacy", TRUE),
                                                   !.old = current]]
          /\ Calm(p, "prepare")
       \/ /\ ~(NoForeignLink /\ CurrentValid) /\ root' = TRUE
          /\ Calm(p, "failed") /\ UNCHANGED my
       \/ root' \in {root, TRUE} /\ Fault(p, "failed") /\ UNCHANGED my
    /\ UNCHANGED <<current, release, link, litter>>

\* A release that is there is checked, one whose publication was interrupted is
\* taken over, and one that is not there is staged.
PrepareRelease(p) ==
    /\ At(p, "prepare")
    /\ \/ release[op[p]] = "complete" /\ Calm(p, "verify")
       \/ release[op[p]] = "published" /\ Calm(p, "harden")
       \/ release[op[p]] = "absent" /\ (Calm(p, "publish") \/ Fault(p, "unstage"))
       \/ release[op[p]] \in {"partial", "foreign"} /\ Calm(p, "failed")
    /\ UNCHANGED <<disk, my>>

PublishRelease(p) ==
    /\ At(p, "publish")
    /\ \/ /\ release[op[p]] = "absent" /\ Becomes(op[p], "published")
          /\ my' = [my EXCEPT ![p].created = TRUE] /\ Calm(p, "harden")
       \/ /\ release[op[p]] # "absent" /\ Calm(p, "unstage")
          /\ UNCHANGED <<release, my>>
       \/ Fault(p, "unstage") /\ UNCHANGED <<release, my>>
    /\ UNCHANGED <<root, current, link, litter>>

RemoveStage(p) ==
    /\ At(p, "unstage")
    /\ \/ Calm(p, "failed") /\ UNCHANGED litter
       \/ Fault(p, "failed") /\ litter' = litter \cup {"staging"}
    /\ UNCHANGED <<root, current, release, link, my>>

\* chmod 0555 and two syncs; cleanupPublishedRelease when one of them fails.
HardenRelease(p) ==
    /\ At(p, "harden")
    /\ \/ /\ Becomes(op[p], "complete") /\ Calm(p, "verify") /\ UNCHANGED my
       \/ /\ \E state \in {"published", "complete"} : Becomes(op[p], state)
          /\ my' = [my EXCEPT ![p].doomed = {op[p]}] /\ Fault(p, "erase")
    /\ UNCHANGED <<root, current, link, litter>>

\* removeCreatedRelease, and the operation has failed.
Discard(p) == IF my[p].created THEN "erase" ELSE "failed"
Dooms(p) == my' = [my EXCEPT ![p].doomed = IF my[p].created THEN {op[p]} ELSE {}]

AlreadyInstalled(p) == my[p].old = op[p] /\ my[p].bin /\ ~my[p].legacy

VerifyRelease(p) ==
    /\ At(p, "verify")
    /\ \/ Calm(p, IF AlreadyInstalled(p) THEN "done" ELSE "register") /\ UNCHANGED my
       \/ Dooms(p) /\ Fault(p, Discard(p))
    /\ UNCHANGED disk

\* publishLink: a symlink renamed into place unless something is there.
PublishBin(p) ==
    /\ At(p, "register")
    /\ \/ my[p].bin /\ Calm(p, "switch") /\ UNCHANGED <<link, my>>
       \/ /\ ~my[p].bin /\ link["bin"] = "absent" /\ Points("bin", "owned")
          /\ my' = [my EXCEPT ![p].createdBin = TRUE]
          /\ Calm(p, "switch") \/ Fault(p, "rollback")
       \/ /\ ~my[p].bin /\ link["bin"] # "absent"
          /\ Calm(p, "rollback") /\ UNCHANGED <<link, my>>
       \/ ~my[p].bin /\ Fault(p, "rollback") /\ UNCHANGED <<link, my>>
    /\ UNCHANGED <<root, current, release, litter>>

\* switchCurrent: the pointer must be what it was, a temporary symlink ...
PrepareSwitch(p) ==
    /\ At(p, "switch")
    /\ \/ my[p].old = op[p] /\ Calm(p, "confirm")
       \/ /\ my[p].old # op[p]
          /\ \/ current = my[p].old /\ CurrentValid /\ Calm(p, "rename")
             \/ ~(current = my[p].old /\ CurrentValid) /\ Calm(p, "rollback")
             \/ Fault(p, "rollback")
    /\ UNCHANGED <<disk, my>>

\* ... is renamed over it.
RenameCurrent(p) ==
    /\ At(p, "rename")
    /\ \/ /\ current' = op[p] /\ my' = [my EXCEPT ![p].switched = TRUE]
          /\ Calm(p, "confirm") \/ Fault(p, "restore")
       \/ Fault(p, "rollback") /\ UNCHANGED <<current, my>>
    /\ UNCHANGED <<root, release, link, litter>>

ConfirmInstalled(p) ==
    /\ At(p, "confirm")
    /\ Calm(p, "unregister") \/ Fault(p, "restore")
    /\ UNCHANGED <<disk, my>>

Undo(p) == IF my[p].switched THEN "restore" ELSE "rollback"

\* removeExpectedLink: the legacy registration is as it was found ...
CheckLegacy(p) ==
    /\ At(p, "unregister")
    /\ \/ /\ LinkIs("legacy", my[p].legacy)
          /\ Calm(p, IF my[p].legacy THEN "unlink" ELSE "done")
       \/ ~LinkIs("legacy", my[p].legacy) /\ Calm(p, Undo(p))
       \/ Fault(p, Undo(p))
    /\ UNCHANGED <<disk, my>>

\* ... and is removed, whatever the name stands for by now.
UnlinkLegacy(p) ==
    /\ At(p, "unlink")
    /\ \/ /\ link["legacy"] # "absent" /\ Points("legacy", "absent")
          /\ my' = [my EXCEPT ![p].legacyRemoved = TRUE]
          /\ Calm(p, "done") \/ Fault(p, IF my[p].switched THEN "restore" ELSE "relink")
       \/ /\ link["legacy"] = "absent" /\ Calm(p, Undo(p)) /\ UNCHANGED <<link, my>>
       \/ Fault(p, Undo(p)) /\ UNCHANGED <<link, my>>
    /\ UNCHANGED <<root, current, release, litter>>

\* restoreCurrent: when it fails nothing else is taken back.
RestoreCurrent(p) ==
    /\ At(p, "restore")
    /\ \/ /\ current = op[p] /\ CurrentValid /\ current' = my[p].old
          /\ \/ Calm(p, IF my[p].legacyRemoved THEN "relink" ELSE "rollback")
             \/ Fault(p, "failed")
       \/ ~(current = op[p] /\ CurrentValid) /\ Calm(p, "failed") /\ UNCHANGED current
       \/ Fault(p, "failed") /\ UNCHANGED current
    /\ UNCHANGED <<root, release, link, litter, my>>

RestoreLegacy(p) ==
    /\ At(p, "relink")
    /\ \/ /\ link["legacy"] = "absent" /\ Points("legacy", "owned")
          /\ Calm(p, "rollback") \/ Fault(p, "rollback")
       \/ link["legacy"] # "absent" /\ Calm(p, "rollback") /\ UNCHANGED link
       \/ Fault(p, "rollback") /\ UNCHANGED link
    /\ UNCHANGED <<root, current, release, litter, my>>

\* rollbackInitial: the binary's registration, if this install made it and it
\* is still its own, then the release, if this install made it.
Rollback(p) ==
    /\ At(p, "rollback")
    /\ \/ ~my[p].createdBin /\ Dooms(p) /\ Calm(p, Discard(p))
       \/ /\ my[p].createdBin /\ UNCHANGED my
          /\ \/ LinkIs("bin", TRUE) /\ Calm(p, "unlink_bin")
             \/ ~LinkIs("bin", TRUE) /\ Calm(p, "failed")
             \/ Fault(p, "failed")
    /\ UNCHANGED disk

UnlinkBin(p) ==
    /\ At(p, "unlink_bin")
    /\ \/ /\ link["bin"] # "absent" /\ Points("bin", "absent")
          /\ \/ Dooms(p) /\ Calm(p, Discard(p))
             \/ Fault(p, "failed") /\ UNCHANGED my
       \/ link["bin"] = "absent" /\ Calm(p, "failed") /\ UNCHANGED <<link, my>>
       \/ Fault(p, "failed") /\ UNCHANGED <<link, my>>
    /\ UNCHANGED <<root, current, release, litter>>

\* removeRelease: the directories are made writable, then the tree is removed.
EraseRelease(p) ==
    /\ At(p, "erase")
    /\ \/ /\ my[p].doomed = {} /\ Calm(p, IF Installing(p) THEN "failed" ELSE "rmdir")
          /\ UNCHANGED <<release, my>>
       \/ \E v \in my[p].doomed :
             /\ release[v] # "partial" /\ \A w \in my[p].doomed : release[w] # "partial"
             /\ Becomes(v, "partial") /\ UNCHANGED my
             /\ Calm(p, "erase") \/ Fault(p, "failed")
       \/ \E v \in my[p].doomed :
             /\ release[v] = "partial" /\ Becomes(v, "absent")
             /\ my' = [my EXCEPT ![p].doomed = my[p].doomed \ {v}] /\ Calm(p, "erase")
       \/ Fault(p, "failed") /\ UNCHANGED <<release, my>>
    /\ UNCHANGED <<root, current, link, litter>>

-----------------------------------------------------------------------------
\* Uninstall.

\* Everything below the data root must be the installer's own.
OnlyOwned ==
    /\ litter = {}
    /\ \A v \in Versions : release[v] \in {"absent", "published", "complete"}

Survey(p) ==
    /\ At(p, "survey")
    /\ \/ /\ NoForeignLink /\ CurrentValid /\ OnlyOwned
          /\ my' = [my EXCEPT ![p] =
                [Unset EXCEPT !.bin = LinkIs("bin", TRUE), !.legacy = LinkIs("legacy", TRUE),
                              !.old = current,
                              !.doomed = {v \in Versions : release[v] # "absent"}]]
          /\ Calm(p, "recheck")
       \/ ~(NoForeignLink /\ CurrentValid /\ OnlyOwned) /\ Calm(p, "failed") /\ UNCHANGED my
       \/ Fault(p, "failed") /\ UNCHANGED my
    /\ UNCHANGED disk

Recheck(p) ==
    /\ At(p, "recheck")
    /\ \/ /\ LinkIs("legacy", my[p].legacy) /\ LinkIs("bin", my[p].bin)
          /\ Calm(p, IF my[p].legacy THEN "drop_legacy"
                     ELSE IF my[p].bin THEN "drop_bin" ELSE "drop_current")
       \/ /\ ~(LinkIs("legacy", my[p].legacy) /\ LinkIs("bin", my[p].bin))
          /\ Calm(p, "failed")
       \/ Fault(p, "failed")
    /\ UNCHANGED <<disk, my>>

\* The unlink in removeExpectedLink, when the checks are behind it.
Drops(p, l, to) ==
    /\ \/ /\ link[l] # "absent" /\ Points(l, "absent")
          /\ Calm(p, to) \/ Fault(p, "failed")
       \/ link[l] = "absent" /\ Calm(p, "failed") /\ UNCHANGED link
       \/ Fault(p, "failed") /\ UNCHANGED link
    /\ UNCHANGED <<root, current, release, litter, my>>

DropLegacy(p) ==
    At(p, "drop_legacy") /\ Drops(p, "legacy", IF my[p].bin THEN "check_bin" ELSE "drop_current")

CheckBin(p) ==
    /\ At(p, "check_bin")
    /\ \/ LinkIs("bin", TRUE) /\ Calm(p, "drop_bin")
       \/ ~LinkIs("bin", TRUE) /\ Calm(p, "failed")
       \/ Fault(p, "failed")
    /\ UNCHANGED <<disk, my>>

DropBin(p) == At(p, "drop_bin") /\ Drops(p, "bin", "drop_current")

DropCurrent(p) ==
    /\ At(p, "drop_current")
    /\ \/ current' = None /\ Calm(p, "erase")
       \/ my[p].old # None /\ Fault(p, "failed") /\ UNCHANGED current
    /\ UNCHANGED <<root, release, link, litter, my>>

\* releases/ and the data root must be empty by now.
Empty == litter = {} /\ \A v \in Versions : release[v] = "absent"

RemoveRoot(p) ==
    /\ At(p, "rmdir")
    /\ \/ Empty /\ root' = FALSE /\ (Calm(p, "unname") \/ (root /\ Fault(p, "failed")))
       \/ ~Empty /\ Calm(p, "failed") /\ UNCHANGED root
       \/ root /\ Fault(p, "failed") /\ UNCHANGED root
    /\ UNCHANGED <<current, release, link, litter, my>>

\* unlinkNamed: from here on others may get in.  Its error would be returned,
\* but there is nothing left to do or to take back.
UnlinkLockName(p) ==
    /\ pc[p] = "unname"
    /\ \/ LockMatches(p) /\ named' = None /\ Calm(p, "done")
       \/ ~LockMatches(p) /\ Calm(p, "done") /\ UNCHANGED named
       \/ Fault(p, "done") /\ named' \in {named, IF LockMatches(p) THEN None ELSE named}
    /\ UNCHANGED <<flock, fd, disk, op, my>>

-----------------------------------------------------------------------------
\* The world.

\* A killed process leaves its temporary entries; the kernel drops its lock.
Leavings(p) == CASE pc[p] \in {"publish", "unstage"} -> {{"staging"}}
                 [] pc[p] = "rename" -> {{"pointer"}}
                 [] pc[p] = "restore" -> {{}, {"pointer"}}
                 [] OTHER -> {{}}

Crash(p) ==
    /\ pc[p] # "idle" /\ used.crashes < MaxCrashes
    /\ used' = [used EXCEPT !.crashes = @ + 1]
    /\ \E left \in Leavings(p) : litter' = litter \cup left
    /\ Ends(p)
    /\ UNCHANGED <<root, current, release, link, entry, trouble>>

Meddle ==
    /\ used.meddles < MaxMeddles
    /\ used' = [used EXCEPT !.meddles = @ + 1]
    /\ trouble' = [trouble EXCEPT !.meddled = TRUE]
    /\ UNCHANGED <<lock, root, current, litter, pc, op, my, entry>>

\* Somebody replaces, removes or creates a registration.
MeddleLink ==
    /\ Meddle
    /\ \E l \in Links, state \in {"absent", "foreign"} : link[l] # state /\ Points(l, state)
    /\ UNCHANGED release

\* Somebody puts a directory where a release should go.
MeddleRelease ==
    /\ Meddle
    /\ root /\ \E v \in Versions : release[v] = "absent" /\ Becomes(v, "foreign")
    /\ UNCHANGED link

Acquire(p) == OpenLock(p) \/ InspectLock(p) \/ LockFile(p) \/ MatchLock(p)
Install(p) ==
    \/ Preflight(p) \/ PrepareRelease(p) \/ PublishRelease(p) \/ RemoveStage(p)
    \/ HardenRelease(p) \/ VerifyRelease(p) \/ PublishBin(p) \/ PrepareSwitch(p)
    \/ RenameCurrent(p) \/ ConfirmInstalled(p) \/ CheckLegacy(p) \/ UnlinkLegacy(p)
    \/ RestoreCurrent(p) \/ RestoreLegacy(p) \/ Rollback(p) \/ UnlinkBin(p)
Remove(p) ==
    \/ Survey(p) \/ Recheck(p) \/ DropLegacy(p) \/ CheckBin(p) \/ DropBin(p)
    \/ DropCurrent(p) \/ RemoveRoot(p) \/ UnlinkLockName(p)
Work(p) == Acquire(p) \/ Install(p) \/ Remove(p) \/ EraseRelease(p) \/ Leave(p)

Next ==
    \/ \E p \in Procs : Begin(p) \/ Work(p) \/ GiveUp(p) \/ Crash(p)
    \/ MeddleLink \/ MeddleRelease

Spec == Init /\ [][Next]_vars

\* A process that is neither killed nor done takes its next step.
FairSpec == Spec /\ \A p \in Procs : WF_vars(Work(p))

-----------------------------------------------------------------------------
\* Properties.

TypeOK ==
    /\ named \in Inodes \cup {None}
    /\ flock \in [Inodes -> Procs \cup {None}]
    /\ fd \in [Procs -> Inodes \cup {None}]
    /\ root \in BOOLEAN /\ current \in Versions \cup {None}
    /\ release \in [Versions -> ReleaseStates]
    /\ link \in [Links -> {"absent", "owned", "foreign"}]
    /\ litter \subseteq {"staging", "pointer"}
    /\ pc \in [Procs -> Outside \cup Holding]
    /\ op \in [Procs -> Versions \cup {Uninstall, None}]
    /\ my \in [Procs -> Locals]
    /\ used \in [ops : Nat, faults : Nat, crashes : Nat, meddles : Nat]
    /\ entry \in [current : Versions \cup {None}, release : [Versions -> ReleaseStates],
                  link : [Links -> {"absent", "owned", "foreign"}],
                  litter : SUBSET {"staging", "pointer"}]
    /\ trouble \in [faults : Nat, meddled : BOOLEAN]

\* No two processes work on the installation at a time, although an uninstall
\* unlinks the lock file others may be waiting for (lock.go, the comparison
\* after flock).
OneAtATime == \A p, q \in Procs : pc[p] \in Within /\ pc[q] \in Within => p = q

\* At every instant, whatever failed or was killed, the symlink that the
\* registered binary goes through points at a complete, immutable release
\* (switchCurrent, restoreCurrent and removeRelease in their orders).
CurrentIsComplete == CurrentValid

\* An install, successful or not, killed or not, never damages a release that
\* was complete when it began (the README's "keeps previous complete releases
\* until uninstall").
InstallKeepsReleases ==
    \A p \in Procs : Installing(p) /\ pc[p] \in Within =>
        \A v \in Versions : entry.release[v] = "complete" => release[v] = "complete"

\* An install in which one call failed, and nobody else interfered, ends with
\* the pointer and the registrations it found, and leaves no release behind
\* that was not there (installWithHooks and its rollbacks).
FailedInstallRestores ==
    \A p \in Procs :
        pc[p] = "failed" /\ Installing(p) /\ trouble.faults <= 1 /\ ~trouble.meddled =>
            /\ current = entry.current /\ link = entry.link
            /\ \A v \in Versions :
                  release[v] # entry.release[v] => entry.release[v] = "published"

\* An operation in which no call failed is refused only for what it found: a
\* foreign registration or directory, a release half removed by an earlier
\* one, and for an uninstall also temporary entries.  Above all, a release
\* whose publication was interrupted stops nobody.
RefusedForCause ==
    \A p \in Procs :
        pc[p] = "failed" /\ trouble.faults = 0 /\ ~trouble.meddled =>
            \/ \E l \in Links : entry.link[l] = "foreign"
            \/ Installing(p) /\ entry.release[op[p]] \in {"partial", "foreign"}
            \/ /\ op[p] = Uninstall
               /\ \/ entry.litter # {}
                  \/ \E v \in Versions : entry.release[v] \in {"partial", "foreign"}

\* An uninstall in which no call failed, and that met nothing foreign, removes
\* everything (README.md: "Uninstall removes installer-owned releases, ...").
UninstallRemovesOwned ==
    \A p \in Procs :
        pc[p] = "failed" /\ op[p] = Uninstall /\ trouble.faults = 0 /\ ~trouble.meddled =>
            \/ \E l \in Links : entry.link[l] = "foreign"
            \/ \E v \in Versions : entry.release[v] = "foreign"

\* Every operation ends, also one that waits for a lock whose file is unlinked
\* or whose holder is killed.
OperationsEnd == \A p \in Procs : pc[p] # "idle" ~> pc[p] = "idle"

-----------------------------------------------------------------------------
\* Why the properties hold: the invariant that every step preserves.

\* Who has a lock has the file open, and who works has the named file's lock.
LocksFit ==
    /\ \A i \in Inodes : flock[i] # None => fd[flock[i]] = i /\ pc[flock[i]] \in Holding
    /\ \A p \in Procs : pc[p] \in Holding => fd[p] \in Inodes /\ flock[fd[p]] = p
    /\ \A p \in Procs : pc[p] \in {"inspect", "flock"} => fd[p] \in Inodes
    /\ \A p \in Procs : pc[p] \in Within => fd[p] = named

\* How far an install has come with the release and with the pointer.
Unswitched == {"prepare", "publish", "unstage", "harden", "verify", "register", "switch", "rename"}
Switched == {"confirm", "unregister", "unlink", "restore"}
TakingBack == {"relink", "rollback", "unlink_bin"}
HasRelease == {"verify", "register", "switch", "rename"} \cup Switched

Progress(p) ==
    /\ pc[p] \in InstallPCs => Installing(p)
    /\ pc[p] \in UninstallPCs => ~Installing(p)
    /\ pc[p] \in Unswitched => current = my[p].old
    /\ pc[p] \in Switched => current = op[p] /\ (my[p].switched \/ my[p].old = op[p])
    /\ pc[p] \in TakingBack /\ my[p].created => current # op[p]
    /\ pc[p] \in HasRelease => release[op[p]] = "complete"
    /\ pc[p] = "harden" => release[op[p]] = "published"
    /\ pc[p] \in InstallPCs \ {"preflight"} =>
          /\ my[p].old # None => release[my[p].old] = "complete"
          /\ my[p].created => my[p].old # op[p] /\ entry.release[op[p]] # "complete"
    /\ pc[p] = "erase" => \A v \in my[p].doomed :
          current # v /\ (Installing(p) => entry.release[v] # "complete")
    /\ pc[p] = "erase" /\ ~Installing(p) => current = None
    /\ Installing(p) /\ pc[p] \in Within =>
          \A v \in Versions : entry.release[v] = "complete" => release[v] = "complete"

IInv ==
    /\ TypeOK
    /\ LocksFit
    /\ CurrentIsComplete
    /\ \A p \in Procs : Progress(p)

-----------------------------------------------------------------------------
\* What the installation promises, with this as its implementation.

Tasks == [p \in Procs |-> IF pc[p] \in Within THEN op[p] ELSE None]
Complete(releases) == {v \in Versions : releases[v] = "complete"}

Promise == INSTANCE Installation WITH
    work <- Tasks, complete <- Complete(release),
    found <- [current |-> entry.current, complete |-> Complete(entry.release)]

\* Whatever fails, is killed or is meddled with, the installation goes through
\* the states of an abstract one that a single process changes at a time
\* (Install, Uninstall, acquireInstallationLock).
ImplementsInstallation == Promise!Spec

=============================================================================
