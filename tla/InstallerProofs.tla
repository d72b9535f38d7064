--------------------------- MODULE InstallerProofs ----------------------------
(***************************************************************************)
(* Proofs about Installer, for any processes, versions and bounds.  IInv is *)
(* inductive: LocksFit gives one process at a time, so that only the steps  *)
(* of the process at work can disturb its Progress, and Progress says what  *)
(* it may rely on at each of its steps.                                     *)
(***************************************************************************)
EXTENDS Installer, TLAPS

-----------------------------------------------------------------------------
\* Types, in the parts that steps disturb one at a time.

DiskOK ==
    /\ root \in BOOLEAN /\ current \in Versions \cup {None}
    /\ release \in [Versions -> ReleaseStates]
    /\ link \in [Links -> {"absent", "owned", "foreign"}]
    /\ litter \subseteq {"staging", "pointer"}
LocalsOK == my \in [Procs -> Locals]
ControlOK ==
    /\ pc \in [Procs -> Outside \cup Holding]
    /\ used \in [ops : Nat, faults : Nat, crashes : Nat, meddles : Nat]
    /\ trouble \in [faults : Nat, meddled : BOOLEAN]

LockOK ==
    /\ named \in Inodes \cup {None}
    /\ flock \in [Inodes -> Procs \cup {None}]
    /\ fd \in [Procs -> Inodes \cup {None}]
OpsOK == op \in [Procs -> Versions \cup {Uninstall, None}]
EntryOK ==
    entry \in [current : Versions \cup {None}, release : [Versions -> ReleaseStates],
               link : [Links -> {"absent", "owned", "foreign"}],
               litter : SUBSET {"staging", "pointer"}]

\* The parts are the whole.
LEMMA TypeParts ==
  /\ TypeOK <=> LockOK /\ DiskOK /\ LocalsOK /\ ControlOK /\ OpsOK /\ EntryOK
  /\ TypeOK' <=> LockOK' /\ DiskOK' /\ LocalsOK' /\ ControlOK' /\ OpsOK' /\ EntryOK'
BY DEF TypeOK, LockOK, DiskOK, LocalsOK, ControlOK, OpsOK, EntryOK

\* Going on keeps the types of control ...
LEMMA CalmTypes ==
  ASSUME ControlOK, NEW p \in Procs, NEW to \in Outside \cup Holding, Calm(p, to)
  PROVE  ControlOK' /\ entry' = entry
BY DEF ControlOK, Calm, Goto, history

\* ... and so does failing.
LEMMA FaultTypes ==
  ASSUME ControlOK, NEW p \in Procs, NEW to \in Outside \cup Holding, Fault(p, to)
  PROVE  ControlOK' /\ entry' = entry
BY DEF ControlOK, Fault, Goto

\* The places of the work are places.
LEMMA PCs ==
  InstallPCs \cup UninstallPCs \cup {"erase", "failed", "done"} \subseteq Outside \cup Holding
BY DEF Outside, Holding, Within

\* What an operation sets its locals to.
LEMMA FreshLocals ==
  ASSUME NEW b \in BOOLEAN, NEW l \in BOOLEAN, NEW old \in Versions \cup {None},
         NEW doomed \in SUBSET Versions
  PROVE  /\ [Unset EXCEPT !.bin = b, !.legacy = l, !.old = old, !.doomed = doomed] \in Locals
         /\ [Unset EXCEPT !.bin = b, !.legacy = l, !.old = old] \in Locals
BY DEF Unset, Locals

\* Only versions are doomed.
LEMMA DoomTypes ==
  ASSUME LocalsOK, NEW p \in Procs, op[p] \in Versions, Dooms(p)
  PROVE  LocalsOK'
<1>1. my[p] \in Locals
  BY DEF LocalsOK
<1>2. ASSUME NEW d \in SUBSET Versions PROVE [my EXCEPT ![p].doomed = d] \in [Procs -> Locals]
  BY <1>2, <1>1 DEF LocalsOK, Locals
<1>3. (IF my[p].created THEN {op[p]} ELSE {}) \in SUBSET Versions
  OBVIOUS
<1> QED BY <1>2, <1>3 DEF Dooms, LocalsOK

\* What an install notes of itself keeps the types.
LEMMA NoteTypes ==
  ASSUME LocalsOK, NEW p \in Procs
  PROVE  /\ [my EXCEPT ![p].created = TRUE] \in [Procs -> Locals]
         /\ [my EXCEPT ![p].createdBin = TRUE] \in [Procs -> Locals]
         /\ [my EXCEPT ![p].switched = TRUE] \in [Procs -> Locals]
         /\ [my EXCEPT ![p].legacyRemoved = TRUE] \in [Procs -> Locals]
<1>1. my[p] \in Locals
  BY DEF LocalsOK
<1>2. [my EXCEPT ![p].created = TRUE] \in [Procs -> Locals]
  <2>1. [my[p] EXCEPT !.created = TRUE] \in Locals
    BY <1>1 DEF Locals
  <2> QED BY <2>1 DEF LocalsOK
<1>3. [my EXCEPT ![p].createdBin = TRUE] \in [Procs -> Locals]
  <2>1. [my[p] EXCEPT !.createdBin = TRUE] \in Locals
    BY <1>1 DEF Locals
  <2> QED BY <2>1 DEF LocalsOK
<1>4. [my EXCEPT ![p].switched = TRUE] \in [Procs -> Locals]
  <2>1. [my[p] EXCEPT !.switched = TRUE] \in Locals
    BY <1>1 DEF Locals
  <2> QED BY <2>1 DEF LocalsOK
<1>5. [my EXCEPT ![p].legacyRemoved = TRUE] \in [Procs -> Locals]
  <2>1. [my[p] EXCEPT !.legacyRemoved = TRUE] \in Locals
    BY <1>1 DEF Locals
  <2> QED BY <2>1 DEF LocalsOK
<1> QED BY <1>2, <1>3, <1>4, <1>5

\* The steps under the lock keep the types.
LEMMA WorkTypes ==
  ASSUME DiskOK, LocalsOK, ControlOK, NEW p \in Procs, pc[p] \in InstallPCs => op[p] \in Versions,
         Install(p) \/ Remove(p) \/ EraseRelease(p), ~UnlinkLockName(p)
  PROVE  DiskOK' /\ LocalsOK' /\ ControlOK' /\ entry' = entry
<1> USE DEF disk
<1>1. CASE Preflight(p)
  <2>1. ControlOK' /\ entry' = entry
    BY <1>1, CalmTypes, FaultTypes, PCs DEF Preflight, InstallPCs, UninstallPCs
  <2>2. DiskOK'
    BY <1>1 DEF DiskOK, Preflight, ReleaseStates, Links
  <2>3. LocalsOK'
    <3>1. LinkIs("bin", TRUE) \in BOOLEAN /\ LinkIs("legacy", TRUE) \in BOOLEAN
      BY DEF LinkIs
    <3>2. current \in Versions \cup {None}
      BY DEF DiskOK
    <3> DEFINE fresh == [Unset EXCEPT !.bin = LinkIs("bin", TRUE),
                                      !.legacy = LinkIs("legacy", TRUE), !.old = current]
    <3>3. fresh \in Locals
      BY <3>1, <3>2, FreshLocals, Zenon
    <3>4. my' = my \/ my' = [my EXCEPT ![p] = fresh]
      BY <1>1 DEF Preflight
    <3> HIDE DEF fresh
    <3> QED BY <3>3, <3>4 DEF LocalsOK
  <2> QED BY <2>1, <2>2, <2>3
<1>2. CASE PrepareRelease(p)
  <2>1. ControlOK' /\ entry' = entry
    BY <1>2, CalmTypes, FaultTypes, PCs DEF PrepareRelease, InstallPCs, UninstallPCs
  <2>2. DiskOK'
    BY <1>2 DEF DiskOK, PrepareRelease, ReleaseStates, Links
  <2>3. LocalsOK'
    BY <1>2 DEF LocalsOK, PrepareRelease, Locals
  <2> QED BY <2>1, <2>2, <2>3
<1>3. CASE PublishRelease(p)
  <2>1. ControlOK' /\ entry' = entry
    BY <1>3, CalmTypes, FaultTypes, PCs DEF PublishRelease, InstallPCs, UninstallPCs
  <2>2. DiskOK'
    BY <1>3 DEF DiskOK, PublishRelease, ReleaseStates, Links, Becomes
  <2>3. LocalsOK'
    <3>1. my' = my \/ my' = [my EXCEPT ![p].created = TRUE]
      BY <1>3, Zenon DEF PublishRelease
    <3> QED BY <3>1, NoteTypes DEF LocalsOK
  <2> QED BY <2>1, <2>2, <2>3
<1>4. CASE RemoveStage(p)
  <2>1. ControlOK' /\ entry' = entry
    BY <1>4, CalmTypes, FaultTypes, PCs DEF RemoveStage, InstallPCs, UninstallPCs
  <2>2. DiskOK'
    BY <1>4 DEF DiskOK, RemoveStage, ReleaseStates, Links
  <2>3. LocalsOK'
    BY <1>4 DEF LocalsOK, RemoveStage, Locals
  <2> QED BY <2>1, <2>2, <2>3
<1>5. CASE HardenRelease(p)
  <2>1. ControlOK' /\ entry' = entry
    BY <1>5, CalmTypes, FaultTypes, PCs DEF HardenRelease, InstallPCs, UninstallPCs
  <2>2. DiskOK'
    BY <1>5 DEF DiskOK, HardenRelease, ReleaseStates, Links, Becomes
  <2>3. LocalsOK'
    BY <1>5 DEF LocalsOK, HardenRelease, At, Locals, InstallPCs
  <2> QED BY <2>1, <2>2, <2>3
<1>6. CASE VerifyRelease(p)
  <2>1. ControlOK' /\ entry' = entry
    BY <1>6, CalmTypes, FaultTypes, PCs DEF VerifyRelease, InstallPCs, UninstallPCs, Discard
  <2>2. DiskOK'
    BY <1>6 DEF DiskOK, VerifyRelease, ReleaseStates, Links
  <2>3. LocalsOK'
    BY <1>6, DoomTypes DEF VerifyRelease, At, InstallPCs, LocalsOK
  <2> QED BY <2>1, <2>2, <2>3
<1>7. CASE PublishBin(p)
  <2>1. ControlOK' /\ entry' = entry
    BY <1>7, CalmTypes, FaultTypes, PCs DEF PublishBin, InstallPCs, UninstallPCs
  <2>2. DiskOK'
    BY <1>7 DEF DiskOK, PublishBin, ReleaseStates, Links, Points
  <2>3. LocalsOK'
    BY <1>7, NoteTypes DEF LocalsOK, PublishBin
  <2> QED BY <2>1, <2>2, <2>3
<1>8. CASE PrepareSwitch(p)
  <2>1. ControlOK' /\ entry' = entry
    BY <1>8, CalmTypes, FaultTypes, PCs DEF PrepareSwitch, InstallPCs, UninstallPCs
  <2>2. DiskOK'
    BY <1>8 DEF DiskOK, PrepareSwitch, ReleaseStates, Links
  <2>3. LocalsOK'
    BY <1>8 DEF LocalsOK, PrepareSwitch, Locals
  <2> QED BY <2>1, <2>2, <2>3
<1>9. CASE RenameCurrent(p)
  <2>1. ControlOK' /\ entry' = entry
    BY <1>9, CalmTypes, FaultTypes, PCs DEF RenameCurrent, InstallPCs, UninstallPCs
  <2>2. DiskOK'
    BY <1>9 DEF DiskOK, RenameCurrent, ReleaseStates, Links, At, InstallPCs
  <2>3. LocalsOK'
    BY <1>9, NoteTypes DEF LocalsOK, RenameCurrent
  <2> QED BY <2>1, <2>2, <2>3
<1>10. CASE ConfirmInstalled(p)
  <2>1. ControlOK' /\ entry' = entry
    BY <1>10, CalmTypes, FaultTypes, PCs DEF ConfirmInstalled, InstallPCs, UninstallPCs
  <2>2. DiskOK'
    BY <1>10 DEF DiskOK, ConfirmInstalled, ReleaseStates, Links
  <2>3. LocalsOK'
    BY <1>10 DEF LocalsOK, ConfirmInstalled, Locals
  <2> QED BY <2>1, <2>2, <2>3
<1>11. CASE CheckLegacy(p)
  <2>1. ControlOK' /\ entry' = entry
    BY <1>11, CalmTypes, FaultTypes, PCs DEF CheckLegacy, InstallPCs, UninstallPCs, Undo
  <2>2. DiskOK'
    BY <1>11 DEF DiskOK, CheckLegacy, ReleaseStates, Links
  <2>3. LocalsOK'
    BY <1>11 DEF LocalsOK, CheckLegacy, Locals
  <2> QED BY <2>1, <2>2, <2>3
<1>12. CASE UnlinkLegacy(p)
  <2>1. ControlOK' /\ entry' = entry
    BY <1>12, CalmTypes, FaultTypes, PCs DEF UnlinkLegacy, InstallPCs, UninstallPCs, Undo
  <2>2. DiskOK'
    BY <1>12 DEF DiskOK, UnlinkLegacy, ReleaseStates, Links, Points
  <2>3. LocalsOK'
    BY <1>12, NoteTypes DEF LocalsOK, UnlinkLegacy
  <2> QED BY <2>1, <2>2, <2>3
<1>13. CASE RestoreCurrent(p)
  <2>1. ControlOK' /\ entry' = entry
    BY <1>13, CalmTypes, FaultTypes, PCs DEF RestoreCurrent, InstallPCs, UninstallPCs
  <2>2. DiskOK'
    BY <1>13 DEF DiskOK, RestoreCurrent, ReleaseStates, Links, LocalsOK, Locals
  <2>3. LocalsOK'
    BY <1>13 DEF LocalsOK, RestoreCurrent, Locals
  <2> QED BY <2>1, <2>2, <2>3
<1>14. CASE RestoreLegacy(p)
  <2>1. ControlOK' /\ entry' = entry
    BY <1>14, CalmTypes, FaultTypes, PCs DEF RestoreLegacy, InstallPCs, UninstallPCs
  <2>2. DiskOK'
    BY <1>14 DEF DiskOK, RestoreLegacy, ReleaseStates, Links, Points
  <2>3. LocalsOK'
    BY <1>14 DEF LocalsOK, RestoreLegacy, Locals
  <2> QED BY <2>1, <2>2, <2>3
<1>15. CASE Rollback(p)
  <2>1. ControlOK' /\ entry' = entry
    BY <1>15, CalmTypes, FaultTypes, PCs DEF Rollback, InstallPCs, UninstallPCs, Discard
  <2>2. DiskOK'
    BY <1>15 DEF DiskOK, Rollback, ReleaseStates, Links
  <2>3. LocalsOK'
    BY <1>15, DoomTypes DEF Rollback, At, InstallPCs, LocalsOK
  <2> QED BY <2>1, <2>2, <2>3
<1>16. CASE UnlinkBin(p)
  <2>1. ControlOK' /\ entry' = entry
    BY <1>16, CalmTypes, FaultTypes, PCs DEF UnlinkBin, InstallPCs, UninstallPCs, Discard
  <2>2. DiskOK'
    BY <1>16 DEF DiskOK, UnlinkBin, ReleaseStates, Links, Points
  <2>3. LocalsOK'
    BY <1>16, DoomTypes DEF UnlinkBin, At, InstallPCs, LocalsOK
  <2> QED BY <2>1, <2>2, <2>3
<1>17. CASE Survey(p)
  <2>1. ControlOK' /\ entry' = entry
    BY <1>17, CalmTypes, FaultTypes, PCs DEF Survey, InstallPCs, UninstallPCs
  <2>2. DiskOK'
    BY <1>17 DEF DiskOK, Survey, ReleaseStates, Links
  <2>3. LocalsOK'
    <3>1. LinkIs("bin", TRUE) \in BOOLEAN /\ LinkIs("legacy", TRUE) \in BOOLEAN
      BY DEF LinkIs
    <3>2. /\ current \in Versions \cup {None}
          /\ {v \in Versions : release[v] # "absent"} \in SUBSET Versions
      BY DEF DiskOK
    <3> DEFINE fresh == [Unset EXCEPT !.bin = LinkIs("bin", TRUE),
                                      !.legacy = LinkIs("legacy", TRUE), !.old = current,
                                      !.doomed = {v \in Versions : release[v] # "absent"}]
    <3>3. fresh \in Locals
      BY <3>1, <3>2, FreshLocals, Zenon
    <3>4. my' = my \/ my' = [my EXCEPT ![p] = fresh]
      BY <1>17 DEF Survey
    <3> HIDE DEF fresh
    <3> QED BY <3>3, <3>4 DEF LocalsOK
  <2> QED BY <2>1, <2>2, <2>3
<1>18. CASE Recheck(p)
  <2>1. ControlOK' /\ entry' = entry
    BY <1>18, CalmTypes, FaultTypes, PCs DEF Recheck, InstallPCs, UninstallPCs
  <2>2. DiskOK'
    BY <1>18 DEF DiskOK, Recheck, ReleaseStates, Links
  <2>3. LocalsOK'
    BY <1>18 DEF LocalsOK, Recheck, Locals
  <2> QED BY <2>1, <2>2, <2>3
<1>19. CASE DropLegacy(p)
  <2>1. ControlOK' /\ entry' = entry
    BY <1>19, CalmTypes, FaultTypes, PCs DEF DropLegacy, InstallPCs, UninstallPCs, Drops
  <2>2. DiskOK'
    BY <1>19 DEF DiskOK, DropLegacy, ReleaseStates, Links, Drops, Points
  <2>3. LocalsOK'
    BY <1>19 DEF LocalsOK, DropLegacy, Locals, Drops
  <2> QED BY <2>1, <2>2, <2>3
<1>20. CASE CheckBin(p)
  <2>1. ControlOK' /\ entry' = entry
    BY <1>20, CalmTypes, FaultTypes, PCs DEF CheckBin, InstallPCs, UninstallPCs
  <2>2. DiskOK'
    BY <1>20 DEF DiskOK, CheckBin, ReleaseStates, Links
  <2>3. LocalsOK'
    BY <1>20 DEF LocalsOK, CheckBin, Locals
  <2> QED BY <2>1, <2>2, <2>3
<1>21. CASE DropBin(p)
  <2>1. ControlOK' /\ entry' = entry
    BY <1>21, CalmTypes, FaultTypes, PCs DEF DropBin, InstallPCs, UninstallPCs, Drops
  <2>2. DiskOK'
    BY <1>21 DEF DiskOK, DropBin, ReleaseStates, Links, Drops, Points
  <2>3. LocalsOK'
    BY <1>21 DEF LocalsOK, DropBin, Locals, Drops
  <2> QED BY <2>1, <2>2, <2>3
<1>22. CASE DropCurrent(p)
  <2>1. ControlOK' /\ entry' = entry
    BY <1>22, CalmTypes, FaultTypes, PCs DEF DropCurrent, InstallPCs, UninstallPCs
  <2>2. DiskOK'
    BY <1>22 DEF DiskOK, DropCurrent, ReleaseStates, Links
  <2>3. LocalsOK'
    BY <1>22 DEF LocalsOK, DropCurrent, Locals
  <2> QED BY <2>1, <2>2, <2>3
<1>23. CASE RemoveRoot(p)
  <2>1. ControlOK' /\ entry' = entry
    BY <1>23, CalmTypes, FaultTypes, PCs DEF RemoveRoot, InstallPCs, UninstallPCs
  <2>2. DiskOK'
    BY <1>23 DEF DiskOK, RemoveRoot, ReleaseStates, Links
  <2>3. LocalsOK'
    BY <1>23 DEF LocalsOK, RemoveRoot, Locals
  <2> QED BY <2>1, <2>2, <2>3
<1>24. CASE EraseRelease(p)
  <2>1. ControlOK' /\ entry' = entry
    BY <1>24, CalmTypes, FaultTypes, PCs DEF EraseRelease, InstallPCs, UninstallPCs
  <2>2. DiskOK'
    BY <1>24 DEF DiskOK, EraseRelease, ReleaseStates, Links, Becomes
  <2>3. LocalsOK'
    BY <1>24 DEF LocalsOK, EraseRelease, Locals
  <2> QED BY <2>1, <2>2, <2>3
<1> QED BY <1>1, <1>2, <1>3, <1>4, <1>5, <1>6, <1>7, <1>8, <1>9, <1>10, <1>11, <1>12, <1>13, <1>14,
    <1>15, <1>16, <1>17, <1>18, <1>19, <1>20, <1>21, <1>22, <1>23, <1>24
  DEF Install, Remove

\* The types hold initially.
LEMMA TypeInit == Init => TypeOK
<1> SUFFICES ASSUME Init PROVE TypeOK
  OBVIOUS
<1>1. LockOK
  BY DEF Init, LockOK
<1>2. DiskOK
  <2>1. link \in [Links -> {"absent", "owned", "foreign"}]
    BY DEF Init, Links
  <2>2. root \in BOOLEAN
    BY DEF Init
  <2> QED BY <2>1, <2>2 DEF Init, DiskOK, ReleaseStates
<1>3. LocalsOK
  BY DEF Init, LocalsOK, Unset, Locals
<1>4. ControlOK
  BY DEF Init, ControlOK, NoTrouble, Outside
<1>5. OpsOK
  BY DEF Init, OpsOK
<1>6. EntryOK
  BY DEF Init, EntryOK, NoEntry, ReleaseStates, Links
<1> QED BY <1>1, <1>2, <1>3, <1>4, <1>5, <1>6, TypeParts

\* An operation that ends.
LEMMA EndTypes ==
  ASSUME LockOK, LocalsOK, OpsOK, ControlOK, NEW p \in Procs, Ends(p)
  PROVE  LockOK' /\ LocalsOK' /\ OpsOK' /\ pc' \in [Procs -> Outside \cup Holding]
<1>1. LockOK'
  BY DEF LockOK, Ends, Closes
<1>2. LocalsOK'
  BY DEF LocalsOK, Ends, Unset, Locals
<1> QED BY <1>1, <1>2 DEF OpsOK, ControlOK, Ends, Goto, Outside

\* The steps around the lock keep the types.
LEMMA LockTypes ==
  ASSUME TypeOK, NEW p \in Procs,
         Begin(p) \/ Acquire(p) \/ GiveUp(p) \/ Leave(p) \/ Crash(p) \/ UnlinkLockName(p)
  PROVE  TypeOK'
<1>p. LockOK /\ DiskOK /\ LocalsOK /\ ControlOK /\ OpsOK /\ EntryOK
  BY TypeParts
<1> USE <1>p DEF lock, disk, history
<1>1. CASE Begin(p)
  <2>1. OpsOK'
    BY <1>1, InstallerAssumption DEF Begin, OpsOK
  <2>2. ControlOK'
    BY <1>1 DEF Begin, ControlOK, Goto, Outside
  <2> QED BY <1>1, <2>1, <2>2, TypeParts DEF Begin, LockOK, DiskOK, LocalsOK, EntryOK
<1>2. CASE OpenLock(p)
  <2>1. LockOK'
    BY <1>2 DEF OpenLock, LockOK
  <2>2. ControlOK'
    BY <1>2 DEF OpenLock, ControlOK, Goto, Outside
  <2> QED BY <1>2, <2>1, <2>2, TypeParts DEF OpenLock, OpsOK, DiskOK, LocalsOK, EntryOK
<1>3. CASE InspectLock(p)
  <2>1. CASE Goto(p, "flock") /\ UNCHANGED <<lock, op, my>>
    BY <1>3, <2>1, TypeParts
       DEF InspectLock, Goto, LockOK, OpsOK, DiskOK, LocalsOK, EntryOK, ControlOK, Outside
  <2>2. CASE Ends(p)
    BY <1>3, <2>2, EndTypes, TypeParts DEF InspectLock, DiskOK, EntryOK, ControlOK
  <2> QED BY <1>3, <2>1, <2>2 DEF InspectLock
<1>4. CASE LockFile(p)
  <2>1. LockOK'
    BY <1>4 DEF LockFile, LockOK
  <2>2. ControlOK'
    BY <1>4 DEF LockFile, ControlOK, Goto, Holding
  <2> QED BY <1>4, <2>1, <2>2, TypeParts DEF LockFile, OpsOK, DiskOK, LocalsOK, EntryOK
<1>5. CASE MatchLock(p)
  <2>1. LockOK'
    BY <1>5 DEF MatchLock, LockOK, Closes
  <2>2. pc' \in [Procs -> Outside \cup Holding]
    <3>1. {"preflight", "survey", "open"} \subseteq Outside \cup Holding
      BY DEF Outside, Holding, Within, InstallPCs, UninstallPCs
    <3> QED BY <1>5, <3>1 DEF MatchLock, ControlOK, Goto
  <2>3. EntryOK'
    <3>1. [current |-> current, release |-> release, link |-> link, litter |-> litter]
             \in [current : Versions \cup {None}, release : [Versions -> ReleaseStates],
                  link : [Links -> {"absent", "owned", "foreign"}],
                  litter : SUBSET {"staging", "pointer"}]
      BY DEF DiskOK
    <3> QED BY <1>5, <3>1 DEF MatchLock, EntryOK
  <2>4. trouble' \in [faults : Nat, meddled : BOOLEAN]
    <3>1. NoTrouble \in [faults : Nat, meddled : BOOLEAN]
      BY DEF NoTrouble
    <3> QED BY <1>5, <3>1 DEF MatchLock, ControlOK
  <2> QED BY <1>5, <2>1, <2>2, <2>3, <2>4, TypeParts
     DEF MatchLock, OpsOK, DiskOK, LocalsOK, ControlOK
<1>6. CASE GiveUp(p)
  BY <1>6, EndTypes, TypeParts DEF GiveUp, DiskOK, EntryOK, ControlOK
<1>7. CASE Leave(p)
  BY <1>7, EndTypes, TypeParts DEF Leave, DiskOK, EntryOK, ControlOK
<1>8. CASE Crash(p)
  <2>1. DiskOK'
    <3>1. \A left \in Leavings(p) : left \subseteq {"staging", "pointer"}
      BY DEF Leavings
    <3> QED BY <1>8, <3>1 DEF Crash, DiskOK
  <2>2. used' \in [ops : Nat, faults : Nat, crashes : Nat, meddles : Nat]
    BY <1>8 DEF Crash, ControlOK
  <2> QED BY <1>8, <2>1, <2>2, EndTypes, TypeParts DEF Crash, EntryOK, ControlOK
<1>9. CASE UnlinkLockName(p)
  <2>1. LockOK'
    BY <1>9 DEF UnlinkLockName, LockOK
  <2>2. ControlOK' /\ entry' = entry
    BY <1>9, CalmTypes, FaultTypes, PCs DEF UnlinkLockName
  <2> QED BY <1>9, <2>1, <2>2, TypeParts DEF UnlinkLockName, OpsOK, DiskOK, LocalsOK, EntryOK
<1> QED BY <1>1, <1>2, <1>3, <1>4, <1>5, <1>6, <1>7, <1>8, <1>9 DEF Acquire

\* Others keep the types.
LEMMA MeddleTypes ==
  ASSUME TypeOK, MeddleLink \/ MeddleRelease
  PROVE  TypeOK'
<1>p. LockOK /\ DiskOK /\ LocalsOK /\ ControlOK /\ OpsOK /\ EntryOK
  BY TypeParts
<1>1. DiskOK'
  BY <1>p DEF MeddleLink, MeddleRelease, Meddle, DiskOK, Points, Becomes, ReleaseStates
<1>2. ControlOK'
  <2>1. trouble' \in [faults : Nat, meddled : BOOLEAN]
    BY <1>p DEF MeddleLink, MeddleRelease, Meddle, ControlOK
  <2>2. used' \in [ops : Nat, faults : Nat, crashes : Nat, meddles : Nat]
    BY <1>p DEF MeddleLink, MeddleRelease, Meddle, ControlOK
  <2> QED BY <1>p, <2>1, <2>2 DEF MeddleLink, MeddleRelease, Meddle, ControlOK
<1> QED BY <1>p, <1>1, <1>2, TypeParts
        DEF MeddleLink, MeddleRelease, Meddle, lock, LockOK, OpsOK, LocalsOK, EntryOK

\* Every step keeps the types.
LEMMA TypeNext ==
  ASSUME TypeOK, \A p \in Procs : pc[p] \in InstallPCs => Installing(p), Next
  PROVE  TypeOK'
<1>1. ASSUME NEW p \in Procs, Install(p) \/ Remove(p) \/ EraseRelease(p), ~UnlinkLockName(p)
      PROVE  TypeOK'
  <2>1. DiskOK' /\ LocalsOK' /\ ControlOK' /\ entry' = entry
    BY <1>1, WorkTypes, TypeParts DEF Installing
  <2>2. UNCHANGED <<lock, op>>
    BY <1>1
       DEF Install, Remove, At, Preflight, PrepareRelease, PublishRelease, RemoveStage,
           HardenRelease, VerifyRelease, PublishBin, PrepareSwitch, RenameCurrent,
               ConfirmInstalled, CheckLegacy, UnlinkLegacy, RestoreCurrent, RestoreLegacy,
                   Rollback, UnlinkBin, Survey, Recheck, DropLegacy, CheckBin, DropBin,
                       DropCurrent, RemoveRoot, EraseRelease
  <2> QED BY <2>1, <2>2, TypeParts DEF lock, LockOK, OpsOK, EntryOK
<1> QED BY <1>1, LockTypes, MeddleTypes DEF Next, Work

-----------------------------------------------------------------------------
\* The lock.

\* A step of the work under the lock: the process goes on, and the lock, what
\* it was asked for, and everybody else's locals stay.
Working(p) ==
    /\ pc[p] \in Within /\ UNCHANGED <<named, flock, fd, op, entry>>
    /\ \E to \in Within \cup {"done"} : Goto(p, to)

\* What going on and failing have in common.
LEMMA GoesOn ==
  ASSUME NEW p, NEW to, Calm(p, to) \/ Fault(p, to)
  PROVE  Goto(p, to) /\ entry' = entry
BY DEF Calm, Fault, history

\* The places under the lock.
LEMMA WithinPCs == InstallPCs \cup UninstallPCs \cup {"erase", "failed"} \subseteq Within
BY DEF Within

\* Each step of the work is one of those.
LEMMA WorkIsWorking ==
  ASSUME NEW p \in Procs, Install(p) \/ Remove(p) \/ EraseRelease(p), ~UnlinkLockName(p)
  PROVE  Working(p)
<1> USE GoesOn, WithinPCs DEF At, lock, Working, InstallPCs, UninstallPCs
<1>1. CASE Preflight(p)
  BY <1>1 DEF Preflight
<1>2. CASE PrepareRelease(p)
  BY <1>2 DEF PrepareRelease
<1>3. CASE PublishRelease(p)
  BY <1>3 DEF PublishRelease
<1>4. CASE RemoveStage(p)
  BY <1>4 DEF RemoveStage
<1>5. CASE HardenRelease(p)
  BY <1>5 DEF HardenRelease
<1>6. CASE VerifyRelease(p)
  BY <1>6 DEF VerifyRelease, Discard
<1>7. CASE PublishBin(p)
  BY <1>7 DEF PublishBin
<1>8. CASE PrepareSwitch(p)
  BY <1>8 DEF PrepareSwitch
<1>9. CASE RenameCurrent(p)
  BY <1>9 DEF RenameCurrent
<1>10. CASE ConfirmInstalled(p)
  BY <1>10 DEF ConfirmInstalled
<1>11. CASE CheckLegacy(p)
  BY <1>11 DEF CheckLegacy, Undo
<1>12. CASE UnlinkLegacy(p)
  BY <1>12 DEF UnlinkLegacy, Undo
<1>13. CASE RestoreCurrent(p)
  BY <1>13 DEF RestoreCurrent
<1>14. CASE RestoreLegacy(p)
  BY <1>14 DEF RestoreLegacy
<1>15. CASE Rollback(p)
  BY <1>15 DEF Rollback, Discard
<1>16. CASE UnlinkBin(p)
  BY <1>16 DEF UnlinkBin, Discard
<1>17. CASE Survey(p)
  BY <1>17 DEF Survey
<1>18. CASE Recheck(p)
  BY <1>18 DEF Recheck
<1>19. CASE DropLegacy(p)
  BY <1>19 DEF DropLegacy, Drops
<1>20. CASE CheckBin(p)
  BY <1>20 DEF CheckBin
<1>21. CASE DropBin(p)
  BY <1>21 DEF DropBin, Drops
<1>22. CASE DropCurrent(p)
  BY <1>22 DEF DropCurrent
<1>23. CASE RemoveRoot(p)
  BY <1>23 DEF RemoveRoot
<1>24. CASE EraseRelease(p)
  BY <1>24 DEF EraseRelease
<1> QED BY <1>1, <1>2, <1>3, <1>4, <1>5, <1>6, <1>7, <1>8, <1>9, <1>10, <1>11, <1>12, <1>13, <1>14,
    <1>15, <1>16, <1>17, <1>18, <1>19, <1>20, <1>21, <1>22, <1>23, <1>24
  DEF Install, Remove

\* None is a name for nothing.
LEMMA NoneIsNoInode == None \notin Inodes
BY InstallerAssumption

\* Nobody is at work and outside.
LEMMA NamesApart ==
  /\ Within \cap (Outside \cup {"match", "done"}) = {}
  /\ Holding = Within \cup {"match", "done"}
  /\ Outside \cap Holding = {}
BY DEF Within, Outside, Holding, InstallPCs, UninstallPCs

\* Two processes at work hold one lock.
LEMMA OneWorks == LocksFit => OneAtATime
BY NamesApart DEF LocksFit, OneAtATime

\* Work keeps the locks.
LEMMA LocksAtWork ==
  ASSUME TypeOK, LocksFit, NEW p \in Procs, Working(p)
  PROVE  LocksFit'
BY NamesApart DEF TypeOK, LocksFit, Working, Goto, Outside

\* Who ends gives up his lock, and only his.
LEMMA LocksAtEnd ==
  ASSUME TypeOK, LocksFit, NEW p \in Procs, Ends(p)
  PROVE  LocksFit'
<1>1. ASSUME NEW i \in Inodes, flock'[i] # None PROVE flock'[i] = flock[i] /\ flock[i] # p
  BY <1>1, InstallerAssumption DEF Ends, Closes, TypeOK
<1>2. /\ pc' = [pc EXCEPT ![p] = "idle"] /\ fd' = [fd EXCEPT ![p] = None] /\ named' = named
  BY DEF Ends, Closes, Goto
<1>3. /\ \A i \in Inodes : flock'[i] # None => fd'[flock'[i]] = i /\ pc'[flock'[i]] \in Holding
  BY <1>1, <1>2 DEF LocksFit, TypeOK
<1>4. ASSUME NEW q \in Procs, pc'[q] \in Holding PROVE fd'[q] \in Inodes /\ flock'[fd'[q]] = q
  BY <1>2, <1>4, NamesApart DEF LocksFit, TypeOK, Ends, Closes, Outside
<1>5. ASSUME NEW q \in Procs PROVE /\ pc'[q] \in {"inspect", "flock"} => fd'[q] \in Inodes
                                   /\ pc'[q] \in Within => fd'[q] = named'
  BY <1>2, NamesApart DEF LocksFit, TypeOK, Outside
<1> QED BY <1>3, <1>4, <1>5 DEF LocksFit

\* Every step keeps the locks.
LEMMA LocksNext ==
  ASSUME TypeOK, LocksFit, Next
  PROVE  LocksFit'
<1>1. ASSUME NEW p \in Procs, Begin(p) PROVE LocksFit'
  BY <1>1, NamesApart DEF Begin, lock, Goto, LocksFit, TypeOK, Outside
<1>2. ASSUME NEW p \in Procs, OpenLock(p) PROVE LocksFit'
  <2>1. /\ pc' = [pc EXCEPT ![p] = "inspect"] /\ flock' = flock /\ pc[p] = "open"
    BY <1>2 DEF OpenLock, Goto
  <2>2. CASE named # None /\ fd' = [fd EXCEPT ![p] = named] /\ UNCHANGED named
    BY <2>1, <2>2, NamesApart DEF LocksFit, TypeOK, Outside
  <2>3. ASSUME NEW i \in Inodes, named = None, \A q \in Procs : fd[q] # i,
               named' = i, fd' = [fd EXCEPT ![p] = i]
        PROVE  LocksFit'
    <3>1. \A q \in Procs : pc[q] \notin Within
      BY <2>3, NamesApart, NoneIsNoInode DEF LocksFit, TypeOK
    <3> QED BY <2>1, <2>3, <3>1, NamesApart DEF LocksFit, TypeOK, Outside
  <2> QED BY <1>2, <2>2, <2>3 DEF OpenLock
<1>3. ASSUME NEW p \in Procs, InspectLock(p) PROVE LocksFit'
  <2>1. CASE pc[p] = "inspect" /\ Goto(p, "flock") /\ UNCHANGED <<lock, op, my>>
    BY <2>1, NamesApart DEF Goto, lock, LocksFit, TypeOK, Outside
  <2>2. CASE Ends(p)
    BY <2>2, LocksAtEnd
  <2> QED BY <1>3, <2>1, <2>2 DEF InspectLock
<1>4. ASSUME NEW p \in Procs, LockFile(p) PROVE LocksFit'
  BY <1>4, NamesApart, InstallerAssumption DEF LockFile, Goto, LocksFit, TypeOK, Outside
<1>5. ASSUME NEW p \in Procs, MatchLock(p) PROVE LocksFit'
  <2>1. CASE pc[p] = "match" /\ named = fd[p] /\ UNCHANGED lock
             /\ pc' \in {[pc EXCEPT ![p] = "preflight"], [pc EXCEPT ![p] = "survey"]}
    <3>1. {"preflight", "survey"} \subseteq Within
      BY DEF Within, InstallPCs, UninstallPCs
    <3> QED BY <2>1, <3>1, NamesApart DEF lock, LocksFit, TypeOK, Outside
  <2>2. CASE Goto(p, "open") /\ Closes(p)
    <3>1. ASSUME NEW i \in Inodes, flock'[i] # None PROVE flock'[i] = flock[i] /\ flock[i] # p
      BY <2>2, <3>1, InstallerAssumption DEF Closes, TypeOK
    <3>2. /\ pc' = [pc EXCEPT ![p] = "open"] /\ fd' = [fd EXCEPT ![p] = None] /\ named' = named
      BY <2>2 DEF Closes, Goto
    <3>3. \A i \in Inodes : flock'[i] # None => fd'[flock'[i]] = i /\ pc'[flock'[i]] \in Holding
      BY <3>1, <3>2 DEF LocksFit, TypeOK
    <3>4. ASSUME NEW q \in Procs, pc'[q] \in Holding PROVE fd'[q] \in Inodes /\ flock'[fd'[q]] = q
      BY <2>2, <3>2, <3>4, NamesApart DEF LocksFit, TypeOK, Closes, Outside
    <3>5. ASSUME NEW q \in Procs PROVE /\ pc'[q] \in {"inspect", "flock"} => fd'[q] \in Inodes
                                       /\ pc'[q] \in Within => fd'[q] = named'
      BY <3>2, NamesApart DEF LocksFit, TypeOK, Outside
    <3> QED BY <3>3, <3>4, <3>5 DEF LocksFit
  <2> QED BY <1>5, <2>1, <2>2 DEF MatchLock, LockMatches, Goto
<1>6. ASSUME NEW p \in Procs, GiveUp(p) \/ Leave(p) \/ Crash(p) PROVE LocksFit'
  BY <1>6, LocksAtEnd DEF GiveUp, Leave, Crash
<1>7. ASSUME NEW p \in Procs, UnlinkLockName(p) PROVE LocksFit'
  <2>1. /\ pc[p] = "unname" /\ pc' = [pc EXCEPT ![p] = "done"] /\ UNCHANGED <<flock, fd>>
        /\ named' \in {named, None}
    BY <1>7, GoesOn DEF UnlinkLockName, Goto
  <2>2. pc[p] \in Within
    BY <2>1 DEF Within, UninstallPCs
  <2>3. \A q \in Procs : q # p => pc[q] \notin Within
    BY <2>2, OneWorks DEF OneAtATime
  <2> QED BY <2>1, <2>2, <2>3, NamesApart DEF LocksFit, TypeOK, Outside
<1>8. ASSUME NEW p \in Procs, Install(p) \/ Remove(p) \/ EraseRelease(p), ~UnlinkLockName(p)
      PROVE  LocksFit'
  BY <1>8, WorkIsWorking, LocksAtWork
<1>9. CASE MeddleLink \/ MeddleRelease
  BY <1>9 DEF MeddleLink, MeddleRelease, Meddle, lock, LocksFit
<1> QED BY <1>1, <1>2, <1>3, <1>4, <1>5, <1>6, <1>7, <1>8, <1>9 DEF Next, Work, Acquire

-----------------------------------------------------------------------------
\* Progress.

\* Progress speaks only of who is at work ...
LEMMA Elsewhere ==
  ASSUME NEW q, pc'[q] \notin Within
  PROVE  Progress(q)'
BY
   DEF Progress, Installing, Within, InstallPCs, UninstallPCs, Unswitched, Switched, TakingBack,
       HasRelease

\* ... and stays while what it speaks of stays.
LEMMA Undisturbed ==
  ASSUME NEW q, Progress(q), pc'[q] = pc[q], op'[q] = op[q], my'[q] = my[q],
         UNCHANGED <<entry, current, release>>
  PROVE  Progress(q)'
BY DEF Progress, Installing

\* Each step leaves its process where the next may rely on it.
LEMMA WorkProgress ==
  ASSUME TypeOK, NEW p \in Procs, Progress(p), CurrentIsComplete, 
         Install(p) \/ Remove(p) \/ EraseRelease(p), ~UnlinkLockName(p)
  PROVE  Progress(p)' /\ CurrentIsComplete'
<1> USE GoesOn
   DEF At, Goto, disk, lock, CurrentIsComplete, CurrentValid, Installing, Progress, Within,
       InstallPCs, UninstallPCs, Unswitched, Switched, TakingBack, HasRelease
<1>t. /\ pc \in [Procs -> Outside \cup Holding] /\ my \in [Procs -> Locals]
      /\ release \in [Versions -> ReleaseStates]
      /\ current \in Versions \cup {None} /\ None \notin Versions
  BY InstallerAssumption DEF TypeOK
<1> USE <1>t
<1>1. CASE Preflight(p)
  <2>1. pc[p] = "preflight" /\ UNCHANGED <<current, release, op>>
    BY <1>1 DEF Preflight
  <2>2. \/ /\ Goto(p, "prepare") /\ entry' = entry /\ my'[p].old = current
           /\ my'[p].created = FALSE
        \/ Goto(p, "failed") /\ entry' = entry
    <3>1. ASSUME Calm(p, "prepare"), my' = [my EXCEPT ![p] =
                    [Unset EXCEPT !.bin = LinkIs("bin", TRUE), !.legacy = LinkIs("legacy", TRUE),
                                  !.old = current]]
          PROVE  my'[p].old = current /\ my'[p].created = FALSE
      <4> DEFINE bin == LinkIs("bin", TRUE)
                 legacy == LinkIs("legacy", TRUE)
                 fresh == [Unset EXCEPT !.bin = bin, !.legacy = legacy, !.old = current]
      <4>2. my' = [my EXCEPT ![p] = fresh]
        BY <3>1
      <4> HIDE DEF bin, legacy
      <4>1. fresh.old = current /\ fresh.created = FALSE
        BY DEF Unset
      <4> HIDE DEF fresh
      <4> QED BY <4>1, <4>2
    <3>2. \/ Calm(p, "prepare") /\ my' = [my EXCEPT ![p] =
                    [Unset EXCEPT !.bin = LinkIs("bin", TRUE), !.legacy = LinkIs("legacy", TRUE),
                                  !.old = current]]
          \/ Calm(p, "failed") \/ Fault(p, "failed")
      BY <1>1, Zenon DEF Preflight
    <3>3. CASE Calm(p, "prepare") /\ my' = [my EXCEPT ![p] =
                    [Unset EXCEPT !.bin = LinkIs("bin", TRUE), !.legacy = LinkIs("legacy", TRUE),
                                  !.old = current]]
      BY <3>1, <3>3, GoesOn, Zenon
    <3>4. CASE Calm(p, "failed") \/ Fault(p, "failed")
      BY <3>4, GoesOn, Zenon
    <3> QED BY <3>2, <3>3, <3>4, Zenon
  <2> QED BY <2>1, <2>2
<1>2. CASE PrepareRelease(p)
  BY <1>2 DEF PrepareRelease, Locals
<1>3. CASE PublishRelease(p)
  <2>1. CASE Goto(p, "harden") /\ my' = [my EXCEPT ![p].created = TRUE] /\ release[op[p]] = "absent"
             /\ Becomes(op[p], "published") 
    <3>1. op[p] \in Versions /\ my[p].old # op[p] /\ my'[p].old = my[p].old
      BY <1>3, <2>1 DEF PublishRelease
    <3>2. /\ current = my[p].old /\ current' = current /\ pc'[p] = "harden"
          /\ entry' = entry /\ op' = op
      BY <1>3, <2>1 DEF PublishRelease
    <3>3. \A v \in Versions : release'[v] = IF v = op[p] THEN "published" ELSE release[v]
      BY <2>1, <3>1 DEF Becomes
    <3>4. entry.release[op[p]] # "complete" /\ pc[p] \in Within
      BY <1>3, <2>1, <3>1 DEF PublishRelease
    <3> QED BY <3>1, <3>2, <3>3, <3>4, <1>3 DEF PublishRelease
  <2>2. CASE Goto(p, "unstage") /\ UNCHANGED <<release, my>>
    BY <1>3, <2>2 DEF PublishRelease
  <2> QED BY <1>3, <2>1, <2>2 DEF PublishRelease
<1>4. CASE RemoveStage(p)
  BY <1>4 DEF RemoveStage, Locals
<1>5. CASE HardenRelease(p)
  <2>1. /\ pc[p] = "harden" /\ release[op[p]] = "published" /\ op[p] \in Versions
        /\ current = my[p].old /\ UNCHANGED <<current, op>> /\ current # op[p]
        /\ entry.release[op[p]] # "complete"
    BY <1>5 DEF HardenRelease
  <2>2. \E state \in {"published", "complete"} :
           \A v \in Versions : release'[v] = IF v = op[p] THEN state ELSE release[v]
    BY <1>5, <2>1 DEF HardenRelease, Becomes
  <2>3. \A v \in Versions : release[v] = "complete" => release'[v] = "complete"
    BY <2>1, <2>2
  <2>4. CASE Goto(p, "verify") /\ entry' = entry /\ UNCHANGED my /\ Becomes(op[p], "complete")
    <3>1. release'[op[p]] = "complete"
      BY <2>1, <2>4 DEF Becomes
    <3> QED BY <2>1, <2>3, <2>4, <3>1
  <2>5. CASE Goto(p, "erase") /\ entry' = entry /\ my' = [my EXCEPT ![p].doomed = {op[p]}]
    <3>1. my'[p].doomed = {op[p]} /\ pc'[p] = "erase"
      BY <2>5 DEF Locals
    <3> QED BY <2>1, <2>3, <2>5, <3>1
  <2> QED BY <1>5, <2>4, <2>5 DEF HardenRelease
<1>6. CASE VerifyRelease(p)
  BY <1>6 DEF VerifyRelease, Discard, Dooms, Locals
<1>7. CASE PublishBin(p)
  BY <1>7 DEF PublishBin, Locals
<1>8. CASE PrepareSwitch(p)
  BY <1>8 DEF PrepareSwitch, Locals
<1>9. CASE RenameCurrent(p)
  BY <1>9 DEF RenameCurrent, Locals
<1>10. CASE ConfirmInstalled(p)
  BY <1>10 DEF ConfirmInstalled, Locals
<1>11. CASE CheckLegacy(p)
  BY <1>11 DEF CheckLegacy, Undo, Locals
<1>12. CASE UnlinkLegacy(p)
  BY <1>12 DEF UnlinkLegacy, Undo, Locals
<1>13. CASE RestoreCurrent(p)
  BY <1>13 DEF RestoreCurrent, Locals
<1>14. CASE RestoreLegacy(p)
  BY <1>14 DEF RestoreLegacy, Locals
<1>15. CASE Rollback(p)
  <2>1. pc[p] = "rollback" /\ UNCHANGED <<current, release, op>>
    BY <1>15, Zenon DEF Rollback
  <2>2. \/ Dooms(p) /\ Goto(p, Discard(p)) /\ entry' = entry
        \/ UNCHANGED my /\ \E to \in {"unlink_bin", "failed"} : Goto(p, to) /\ entry' = entry
    <3>1. \/ Dooms(p) /\ Calm(p, Discard(p))
          \/ /\ UNCHANGED my
             /\ Calm(p, "unlink_bin") \/ Calm(p, "failed") \/ Fault(p, "failed")
      BY <1>15, Zenon DEF Rollback
    <3> QED BY <3>1, GoesOn
  <2> QED BY <2>1, <2>2 DEF Dooms, Discard, Locals
<1>16. CASE UnlinkBin(p)
  BY <1>16 DEF UnlinkBin, Dooms, Discard, Locals
<1>17. CASE Survey(p)
  BY <1>17 DEF Survey, Locals, Unset
<1>18. CASE Recheck(p)
  BY <1>18 DEF Recheck, Locals
<1>19. CASE DropLegacy(p)
  BY <1>19 DEF DropLegacy, Drops, Locals
<1>20. CASE CheckBin(p)
  <2>1. pc[p] = "check_bin" /\ UNCHANGED <<current, release, my, op>>
    BY <1>20 DEF CheckBin
  <2>2. \E to \in {"drop_bin", "failed"} : Goto(p, to) /\ entry' = entry
    BY <1>20 DEF CheckBin
  <2> QED BY <2>1, <2>2
<1>21. CASE DropBin(p)
  BY <1>21 DEF DropBin, Drops, Locals
<1>22. CASE DropCurrent(p)
  BY <1>22 DEF DropCurrent, Locals
<1>23. CASE RemoveRoot(p)
  BY <1>23 DEF RemoveRoot, Locals
<1>24. CASE EraseRelease(p)
  BY <1>24 DEF EraseRelease, Becomes, Locals
<1> QED BY <1>1, <1>2, <1>3, <1>4, <1>5, <1>6, <1>7, <1>8, <1>9, <1>10, <1>11, <1>12, <1>13, <1>14,
    <1>15, <1>16, <1>17, <1>18, <1>19, <1>20, <1>21, <1>22, <1>23, <1>24
  DEF Install, Remove

\* The invariant holds initially.
LEMMA InvInit == Init => IInv
<1> SUFFICES ASSUME Init PROVE IInv
  OBVIOUS
<1>1. TypeOK
  BY TypeInit
<1>2. LocksFit
  BY InstallerAssumption, NamesApart DEF Init, LocksFit, Outside
<1>3. CurrentIsComplete
  BY DEF Init, CurrentIsComplete, CurrentValid
<1>4. ASSUME NEW p \in Procs PROVE Progress(p)
  <2>1. pc[p] = "idle" /\ op[p] = None
    BY DEF Init
  <2> QED BY <2>1, InstallerAssumption
          DEF Progress, Installing, Within, InstallPCs, UninstallPCs, Unswitched, Switched,
              TakingBack, HasRelease
<1> QED BY <1>1, <1>2, <1>3, <1>4 DEF IInv

\* Who is outside the lock, or leaves it, moves nobody else's progress.
LEMMA OutsideProgress ==
  ASSUME TypeOK, \A q \in Procs : Progress(q), CurrentIsComplete, NEW p \in Procs,
         \/ Begin(p) \/ OpenLock(p) \/ InspectLock(p) \/ LockFile(p)
         \/ GiveUp(p) \/ Leave(p) \/ Crash(p)
  PROVE  CurrentIsComplete' /\ \A q \in Procs : Progress(q)'
<1>1. UNCHANGED <<entry, current, release>>
  BY DEF Begin, OpenLock, InspectLock, LockFile, GiveUp, Leave, Crash, disk, history
<1>2. \E to \in {"idle", "open", "inspect", "flock", "match"} : pc' = [pc EXCEPT ![p] = to]
  BY DEF Begin, OpenLock, InspectLock, LockFile, GiveUp, Leave, Crash, Ends, Goto
<1>3. pc'[p] \notin Within
  BY <1>2, NamesApart DEF TypeOK, Outside
<1>4. ASSUME NEW q \in Procs, q # p PROVE pc'[q] = pc[q] /\ op'[q] = op[q] /\ my'[q] = my[q]
  <2>1. op' = op \/ \E o \in Versions \cup {Uninstall, None} : op' = [op EXCEPT ![p] = o]
    BY InstallerAssumption DEF Begin, OpenLock, InspectLock, LockFile, GiveUp, Leave, Crash, Ends
  <2>2. my' = my \/ my' = [my EXCEPT ![p] = Unset]
    BY DEF Begin, OpenLock, InspectLock, LockFile, GiveUp, Leave, Crash, Ends
  <2> QED BY <1>2, <1>4, <2>1, <2>2 DEF TypeOK
<1>5. CurrentIsComplete'
  BY <1>1 DEF CurrentIsComplete, CurrentValid
<1> QED BY <1>1, <1>3, <1>4, <1>5, Elsewhere, Undisturbed

\* Who gets in finds the disk as it notes it.
LEMMA EntryProgress ==
  ASSUME TypeOK, LocksFit, \A q \in Procs : Progress(q), CurrentIsComplete, NEW p \in Procs,
         MatchLock(p)
  PROVE  CurrentIsComplete' /\ \A q \in Procs : Progress(q)'
<1>1. UNCHANGED <<current, release, op, my>> /\ pc[p] = "match"
  BY DEF MatchLock, disk
<1>2. CASE Goto(p, "open") /\ UNCHANGED entry
  <2>1. pc'[p] \notin Within /\ \A q \in Procs : q # p => pc'[q] = pc[q]
    BY <1>2, NamesApart DEF TypeOK, Goto, Outside
  <2> QED BY <1>1, <1>2, <2>1, Elsewhere, Undisturbed DEF CurrentIsComplete, CurrentValid
<1>3. CASE /\ named = fd[p] /\ entry'.release = release
           /\ Goto(p, IF Installing(p) THEN "preflight" ELSE "survey")
  <2>1. ASSUME NEW q \in Procs, q # p PROVE pc'[q] \notin Within
    BY <1>1, <1>3, <2>1, NamesApart DEF LocksFit, TypeOK, Goto
  <2>2. pc'[p] = IF Installing(p) THEN "preflight" ELSE "survey"
    BY <1>3 DEF TypeOK, Goto
  <2>3. Progress(p)'
    BY <1>1, <1>3, <2>2
       DEF Progress, Installing, Within, InstallPCs, UninstallPCs, Unswitched, Switched, TakingBack,
           HasRelease
  <2> QED BY <1>1, <2>1, <2>3, Elsewhere DEF CurrentIsComplete, CurrentValid
<1> QED BY <1>2, <1>3 DEF MatchLock, LockMatches

\* Every step preserves the invariant.
LEMMA InvNext == IInv /\ [Next]_vars => IInv'
<1> SUFFICES ASSUME IInv, [Next]_vars PROVE IInv'
  OBVIOUS
<1> USE DEF IInv
<1>1. CASE UNCHANGED vars
  <2>1. TypeOK' /\ LocksFit'
    BY <1>1 DEF TypeOK, LocksFit, vars, lock, disk, history
  <2>2. CurrentIsComplete' /\ \A q \in Procs : Progress(q)'
    BY <1>1, Undisturbed DEF vars, disk, history, CurrentIsComplete, CurrentValid
  <2> QED BY <2>1, <2>2
<1>2. CASE Next
  <2>1. TypeOK' /\ LocksFit'
    BY <1>2, TypeNext, LocksNext DEF Progress
  <2>2. ASSUME NEW p \in Procs, Install(p) \/ Remove(p) \/ EraseRelease(p), ~UnlinkLockName(p)
        PROVE  CurrentIsComplete' /\ \A q \in Procs : Progress(q)'
    <3>1. Working(p) /\ Progress(p)' /\ CurrentIsComplete'
      BY <2>2, WorkIsWorking, WorkProgress
    <3>2. ASSUME NEW q \in Procs, q # p PROVE pc'[q] \notin Within
      BY <3>1, <3>2, OneWorks DEF OneAtATime, Working, Goto, TypeOK
    <3> QED BY <3>1, <3>2, Elsewhere
  <2>3. ASSUME NEW p \in Procs, UnlinkLockName(p)
        PROVE  CurrentIsComplete' /\ \A q \in Procs : Progress(q)'
    <3>1. /\ pc[p] = "unname" /\ pc' = [pc EXCEPT ![p] = "done"]
          /\ UNCHANGED <<current, release>>
      BY <2>3, GoesOn DEF UnlinkLockName, Goto, disk
    <3>2. pc[p] \in Within
      BY <3>1 DEF Within, UninstallPCs
    <3>3. \A q \in Procs : pc'[q] \notin Within
      BY <3>1, <3>2, OneWorks, NamesApart DEF OneAtATime, TypeOK
    <3> QED BY <3>1, <3>3, Elsewhere DEF CurrentIsComplete, CurrentValid
  <2>4. ASSUME MeddleLink \/ MeddleRelease
        PROVE  CurrentIsComplete' /\ \A q \in Procs : Progress(q)'
    <3>1. UNCHANGED <<current, pc, op, my, entry>>
      BY <2>4 DEF MeddleLink, MeddleRelease, Meddle
    <3>2. \A v \in Versions : release[v] # "absent" => release'[v] = release[v]
      BY <2>4 DEF MeddleLink, MeddleRelease, Becomes, TypeOK
    <3>3. ASSUME NEW q \in Procs PROVE Progress(q)'
      BY <3>1, <3>2 DEF Progress, Installing, TypeOK, Locals, InstallPCs, HasRelease, Switched
    <3>4. CurrentIsComplete'
      BY <3>1, <3>2 DEF CurrentIsComplete, CurrentValid, TypeOK
    <3> QED BY <3>3, <3>4
  <2>5. CurrentIsComplete' /\ \A q \in Procs : Progress(q)'
    BY <1>2, <2>2, <2>3, <2>4, OutsideProgress, EntryProgress DEF Next, Work, Acquire
  <2> QED BY <2>1, <2>5
<1> QED BY <1>1, <1>2

-----------------------------------------------------------------------------
\* The theorems.

\* IInv, types included, holds in every reachable state.
THEOREM Inductive == Spec => []IInv
BY InvInit, InvNext, PTL DEF Spec

\* The lock keeps installs and uninstalls apart, however often an uninstall
\* unlinks the file it is taken on.
THEOREM OnlyOneWorks == Spec => []OneAtATime
<1>1. IInv => OneAtATime
  BY OneWorks DEF IInv
<1> QED BY Inductive, <1>1, PTL

\* The pointer never leads to a release that is not complete.
THEOREM PointerIsSound == Spec => []CurrentIsComplete
<1>1. IInv => CurrentIsComplete
  BY DEF IInv
<1> QED BY Inductive, <1>1, PTL

\* An install damages no release that was complete when it began.
THEOREM ReleasesSurvive == Spec => []InstallKeepsReleases
<1>1. IInv => InstallKeepsReleases
  BY DEF IInv, Progress, InstallKeepsReleases
<1> QED BY Inductive, <1>1, PTL

===============================================================================
