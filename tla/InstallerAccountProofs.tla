---------------------- MODULE InstallerAccountProofs -----------------------
(***************************************************************************)
(* Why a failed install has taken its steps back, and why nobody is refused *)
(* without a cause.  Account says, for each step of an operation that       *)
(* nobody interfered with, what is on the disk compared with what was there *)
(* when the operation got the lock, and what its local variables tell of    *)
(* it.  Only the process at work can disturb its own account, so that the   *)
(* proof is one case for each of its steps.                                 *)
(***************************************************************************)
EXTENDS InstallerProofs

-----------------------------------------------------------------------------
\* What an operation nobody interfered with knows of the disk it found, and
\* has changed of it.  Once a call failed it only takes steps back.

Early == {"preflight", "prepare", "publish", "unstage"}
Backward == {"unstage", "restore", "relink", "rollback", "unlink_bin"}
Forward == InstallPCs \ Backward

\* The registrations are what was found ...
LinksKept == link["bin"] = entry.link["bin"] /\ link["legacy"] = entry.link["legacy"]

\* ... but for what this install did.
LinksBut(p, removed) ==
    /\ link["bin"] = IF my[p].createdBin THEN "owned" ELSE entry.link["bin"]
    /\ link["legacy"] = IF removed THEN "absent" ELSE entry.link["legacy"]

\* What the local variables of an install say of the disk it found.
LocalsTell(p) ==
    /\ my[p].old = entry.current
    /\ \A l \in Links : entry.link[l] # "foreign"
    /\ my[p].bin <=> entry.link["bin"] = "owned"
    /\ my[p].legacy <=> entry.link["legacy"] = "owned"
    /\ my[p].createdBin => ~my[p].bin
    /\ my[p].legacyRemoved => my[p].legacy
    /\ pc[p] \notin Early =>
          entry.release[op[p]] \in IF my[p].created THEN {"absent"} ELSE {"published", "complete"}

InstallAccount(p) ==
    /\ pc[p] \in Forward => trouble.faults = 0
    /\ pc[p] \in Backward \cup {"erase"} => trouble.faults > 0
    /\ pc[p] \in Early => release[op[p]] = entry.release[op[p]]
    /\ \A v \in Versions \ {op[p]} : release[v] = entry.release[v]
    /\ pc[p] \in InstallPCs \ {"preflight"} => LocalsTell(p)
    /\ pc[p] \in {"prepare", "publish", "unstage", "harden", "verify", "register"} =>
          ~my[p].createdBin
    /\ pc[p] \in {"prepare", "publish"} => ~my[p].created
    /\ pc[p] = "publish" => release[op[p]] = "absent"
    /\ pc[p] \in Forward \cup {"unstage"} => ~my[p].legacyRemoved \/ pc[p] = "preflight"
    /\ pc[p] = "unlink" => my[p].legacy
    /\ pc[p] = "relink" => my[p].legacyRemoved
    /\ pc[p] = "unlink_bin" => my[p].createdBin
    /\ pc[p] = "erase" => /\ my[p].doomed \subseteq {op[p]}
                          /\ entry.release[op[p]] \in {"absent", "published"}
    /\ trouble.faults <= 1 =>
          /\ pc[p] \in {"preflight", "erase", "failed"} \cup TakingBack =>
                current = entry.current
          /\ pc[p] \in {"preflight", "erase", "failed"} => LinksKept
          /\ pc[p] \in InstallPCs \ {"preflight"} =>
                LinksBut(p, pc[p] \in {"restore", "relink"} /\ my[p].legacyRemoved)
          /\ pc[p] = "erase" /\ my[p].doomed = {} => release[op[p]] = "absent"
          /\ pc[p] = "failed" =>
                release[op[p]] = entry.release[op[p]] \/ entry.release[op[p]] = "published"
    /\ pc[p] = "failed" /\ trouble.faults = 0 =>
          \/ \E l \in Links : entry.link[l] = "foreign"
          \/ entry.release[op[p]] \in {"partial", "foreign"}

UninstallAccount(p) ==
    trouble.faults = 0 =>
        /\ pc[p] = "survey" =>
              /\ litter = entry.litter /\ LinksKept
              /\ \A v \in Versions : release[v] = entry.release[v]
        /\ pc[p] \in (UninstallPCs \ {"survey"}) \cup {"erase"} => litter = {}
        /\ pc[p] \in {"recheck", "drop_legacy"} => (my[p].bin <=> LinkIs("bin", TRUE))
        /\ pc[p] = "recheck" => (my[p].legacy <=> LinkIs("legacy", TRUE)) /\ NoForeignLink
        /\ pc[p] = "drop_legacy" => LinkIs("legacy", TRUE)
        /\ pc[p] \in {"check_bin", "drop_bin"} => LinkIs("bin", TRUE)
        /\ pc[p] \in {"recheck", "drop_legacy", "check_bin", "drop_bin", "drop_current",
                     "erase"} => \A v \in Versions \ my[p].doomed : release[v] = "absent"
        /\ pc[p] = "rmdir" => Empty
        /\ pc[p] = "failed" =>
              \/ \E l \in Links : entry.link[l] = "foreign"
              \/ entry.litter # {}
              \/ \E v \in Versions : entry.release[v] \in {"partial", "foreign"}

Account(p) ==
    ~trouble.meddled /\ pc[p] \in Within =>
        IF Installing(p) THEN InstallAccount(p) ELSE UninstallAccount(p)

\* Who is not idle has been asked for something.
Asked(p) == pc[p] # "idle" => op[p] # None

\* The invariant with the account of whoever is at work.
AccountInv == IInv /\ \A p \in Procs : Asked(p) /\ Account(p)

-----------------------------------------------------------------------------
\* The steps.

\* What going on and failing do to the control and the history.
LEMMA Goes ==
  ASSUME TypeOK, NEW p \in Procs, NEW to
  PROVE  /\ Calm(p, to) => pc'[p] = to /\ trouble' = trouble /\ entry' = entry
         /\ Fault(p, to) => /\ pc'[p] = to /\ entry' = entry
                            /\ trouble'.faults = trouble.faults + 1
                            /\ trouble'.meddled = trouble.meddled
BY DEF TypeOK, Calm, Fault, Goto, history

\* There are two registrations.
LEMMA SameLinks ==
  ASSUME NEW S, NEW f \in [Links -> S], NEW g \in [Links -> S],
         f["bin"] = g["bin"], f["legacy"] = g["legacy"]
  PROVE  f = g
BY DEF Links

\* What an install that gives up removes.
LEMMA Doomed ==
  ASSUME TypeOK, NEW p \in Procs, Dooms(p)
  PROVE  my'[p].doomed = IF my[p].created THEN {op[p]} ELSE {}
BY DEF TypeOK, Dooms, Locals

\* What an install's locals are once its preflight is done.
LEMMA Fresh ==
  ASSUME TypeOK, NEW p \in Procs, NEW bin \in BOOLEAN, NEW legacy \in BOOLEAN, NEW old,
         my' = [my EXCEPT ![p] = [Unset EXCEPT !.bin = bin, !.legacy = legacy, !.old = old]]
  PROVE  /\ (my'[p].bin <=> bin) /\ (my'[p].legacy <=> legacy) /\ my'[p].old = old
         /\ ~my'[p].created /\ ~my'[p].createdBin /\ ~my'[p].legacyRemoved
<1> DEFINE fresh == [Unset EXCEPT !.bin = bin, !.legacy = legacy, !.old = old]
<1>1. /\ fresh.bin = bin /\ fresh.legacy = legacy /\ fresh.old = old
      /\ ~fresh.created /\ ~fresh.createdBin /\ ~fresh.legacyRemoved
  BY DEF Unset
<1>2. my' = [my EXCEPT ![p] = fresh]
  OBVIOUS
<1> HIDE DEF fresh
<1> QED BY <1>1, <1>2 DEF TypeOK

\* Each step of an install keeps its account: the steps forward record what they
\* do, and those backward undo it.
LEMMA InstallStep ==
  ASSUME NEW p \in Procs
  PROVE  (/\ TypeOK /\ TypeOK' /\ Progress(p) /\ CurrentIsComplete /\ Installing(p)
          /\ InstallAccount(p) /\ pc[p] \in Within /\ pc'[p] \in Within
          /\ (Install(p) \/ EraseRelease(p)))
         => InstallAccount(p)'
<1>0. SUFFICES ASSUME TypeOK, TypeOK', Progress(p), CurrentIsComplete, Installing(p),
                      InstallAccount(p), pc[p] \in Within, pc'[p] \in Within,
                      Install(p) \/ EraseRelease(p)
               PROVE  InstallAccount(p)'
  OBVIOUS
<1> DEFINE goes(to) == pc'[p] = to
           calm == trouble' = trouble
           failed == trouble'.faults = trouble.faults + 1
<1> USE
   DEF At, disk, lock, InstallPCs, UninstallPCs, Early, Backward, Forward, TakingBack
<1>t. /\ my \in [Procs -> Locals] /\ my[p] \in Locals /\ op[p] \in Versions
      /\ release \in [Versions -> ReleaseStates]
      /\ link \in [Links -> {"absent", "owned", "foreign"}]
      /\ entry.link \in [Links -> {"absent", "owned", "foreign"}]
      /\ current \in Versions \cup {None} /\ None \notin Versions
      /\ trouble.faults \in Nat
  BY <1>0, InstallerAssumption DEF TypeOK, Installing
<1>1. CASE Preflight(p)
  <2>1. /\ pc[p] = "preflight"
        /\ UNCHANGED <<current, link, release, op, entry>>
        /\ \/ /\ goes("prepare") /\ calm
              /\ NoForeignLink
              /\ my'[p].old = current
              /\ my'[p].bin <=> link["bin"] = "owned"
              /\ my'[p].legacy <=> link["legacy"] = "owned"
              /\ ~my'[p].created /\ ~my'[p].createdBin /\ ~my'[p].legacyRemoved
           \/ /\ goes("failed") /\ calm
              /\ ~(NoForeignLink /\ CurrentValid)
           \/ /\ goes("failed") /\ failed
    <3> DEFINE fresh == [Unset EXCEPT !.bin = LinkIs("bin", TRUE),
                                      !.legacy = LinkIs("legacy", TRUE), !.old = current]
    <3>1. my' = [my EXCEPT ![p] = fresh] =>
             /\ my'[p].old = current
             /\ my'[p].bin <=> link["bin"] = "owned"
             /\ my'[p].legacy <=> link["legacy"] = "owned"
             /\ ~my'[p].created /\ ~my'[p].createdBin /\ ~my'[p].legacyRemoved
      <4>1. LinkIs("bin", TRUE) \in BOOLEAN /\ LinkIs("legacy", TRUE) \in BOOLEAN
        BY DEF LinkIs
      <4>2. my' = [my EXCEPT ![p] = fresh] =>
             /\ my'[p].old = current
             /\ my'[p].bin <=> LinkIs("bin", TRUE)
             /\ my'[p].legacy <=> LinkIs("legacy", TRUE)
             /\ ~my'[p].created /\ ~my'[p].createdBin /\ ~my'[p].legacyRemoved
        BY <1>0, <4>1, Fresh, Zenon
      <4> HIDE DEF fresh
      <4> QED BY <4>2 DEF LinkIs
    <3>2. /\ pc[p] = "preflight" /\ UNCHANGED <<current, release, link, op>>
          /\ \/ NoForeignLink /\ my' = [my EXCEPT ![p] = fresh] /\ Calm(p, "prepare")
             \/ ~(NoForeignLink /\ CurrentValid) /\ Calm(p, "failed")
             \/ Fault(p, "failed")
      BY <1>1, Zenon DEF Preflight, At, lock
    <3> HIDE DEF fresh
    <3> QED BY <1>0, <3>1, <3>2, Goes
  <2> QED BY <1>0, <1>t, <2>1
     DEF LinksKept, LinksBut, LocalsTell, InstallAccount, CurrentIsComplete, NoForeignLink,
         Links
<1>2. CASE PrepareRelease(p)
  <2>1. /\ pc[p] = "prepare"
        /\ UNCHANGED <<current, link, release, my, op, entry>>
        /\ \/ /\ release[op[p]] = "complete"
              /\ goes("verify") /\ calm
           \/ /\ release[op[p]] = "published"
              /\ goes("harden") /\ calm
           \/ /\ release[op[p]] = "absent"
              /\ (goes("publish") /\ calm) \/ (goes("unstage") /\ failed)
           \/ /\ release[op[p]] \in {"partial", "foreign"}
              /\ goes("failed") /\ calm
    BY <1>0, <1>t, <1>2, Goes DEF PrepareRelease, Locals
  <2> QED BY <1>0, <1>t, <2>1
     DEF Progress, LinksKept, LinksBut, LocalsTell, InstallAccount, Unswitched
<1>3. CASE PublishRelease(p)
  <2>1. /\ pc[p] = "publish"
        /\ UNCHANGED <<current, link, op, entry>>
        /\ \/ /\ release[op[p]] = "absent" /\ Becomes(op[p], "published")
              /\ my'[p].created
              /\ my'[p].old = my[p].old /\ my'[p].bin = my[p].bin
              /\ my'[p].legacy = my[p].legacy
              /\ my'[p].createdBin = my[p].createdBin
              /\ my'[p].legacyRemoved = my[p].legacyRemoved
              /\ goes("harden") /\ calm
           \/ /\ UNCHANGED <<release, my>>
              /\ goes("unstage")
              /\ (release[op[p]] # "absent" /\ calm) \/ failed
    BY <1>0, <1>t, <1>3, Goes DEF PublishRelease, Locals
  <2> QED BY <1>0, <1>t, <2>1
     DEF LinksBut, LocalsTell, InstallAccount, Becomes
<1>4. CASE RemoveStage(p)
  <2>1. /\ pc[p] = "unstage"
        /\ UNCHANGED <<current, link, release, my, op, entry>>
        /\ goes("failed")
        /\ calm \/ failed
    BY <1>0, <1>t, <1>4, Goes DEF RemoveStage, Locals
  <2> QED BY <1>0, <1>t, <2>1
     DEF Progress, LinksKept, LinksBut, LocalsTell, InstallAccount, Unswitched
<1>5. CASE HardenRelease(p)
  <2>1. /\ pc[p] = "harden"
        /\ UNCHANGED <<current, link, op, entry>>
        /\ \/ /\ \A v \in Versions : release'[v] = IF v = op[p] THEN "complete" ELSE release[v]
              /\ my' = my
              /\ goes("verify") /\ calm
           \/ /\ \A v \in Versions : v # op[p] => release'[v] = release[v]
              /\ my'[p].doomed = {op[p]}
              /\ goes("erase") /\ failed
    BY <1>0, <1>t, <1>5, Goes DEF HardenRelease, Locals, Becomes
  <2>2. CASE goes("verify")
    BY <1>0, <1>t, <2>1, <2>2
       DEF LinksBut, LocalsTell, InstallAccount
  <2>3. CASE goes("erase")
    <3>1. /\ entry.release[op[p]] # "complete"
          /\ entry.release[op[p]] \in {"absent", "published", "complete"}
      BY <1>0, <1>t, <2>1 DEF Progress, InstallAccount, LocalsTell
    <3>2. /\ trouble.faults = 0 /\ current = entry.current /\ LinksKept
      BY <1>0, <1>t, <2>1 DEF Progress, InstallAccount, LocalsTell, LinksBut, LinksKept,
                              Unswitched
    <3> QED BY <1>0, <1>t, <2>1, <2>3, <3>1, <3>2 DEF InstallAccount, LinksKept
  <2> QED BY <2>1, <2>2, <2>3
<1>6. CASE VerifyRelease(p)
  <2>1. /\ pc[p] = "verify"
        /\ UNCHANGED <<current, link, release, op, entry>>
        /\ \/ /\ my' = my
              /\ pc'[p] \in {"done", "register"}
              /\ calm
           \/ /\ my'[p].doomed = IF my[p].created THEN {op[p]} ELSE {}
              /\ goes(IF my[p].created THEN "erase" ELSE "failed") /\ failed
    BY <1>0, <1>t, <1>6, Goes, Doomed DEF VerifyRelease, Discard, AlreadyInstalled
  <2>2. CASE goes("register")
    BY <1>0, <1>t, <2>1, <2>2
       DEF LinksBut, LocalsTell, InstallAccount
  <2>3. CASE pc'[p] \in {"failed", "erase"}
    <3>1. /\ trouble.faults = 0 /\ current = entry.current /\ LinksKept
      BY <1>0, <1>t, <2>1 DEF Progress, InstallAccount, LocalsTell, LinksBut, LinksKept,
                              Unswitched
    <3>2. entry.release[op[p]] \in IF my[p].created THEN {"absent"} ELSE {"published", "complete"}
      BY <1>0, <1>t, <2>1 DEF InstallAccount, LocalsTell
    <3>3. release[op[p]] = "complete"
      BY <1>0, <1>t, <2>1 DEF Progress, HasRelease
    <3> QED BY <1>0, <1>t, <2>1, <2>3, <3>1, <3>2, <3>3 DEF InstallAccount, LinksKept
  <2> QED BY <1>0, <2>1, <2>2, <2>3 DEF Within
<1>7. CASE PublishBin(p)
  <2>1. /\ pc[p] = "register"
        /\ UNCHANGED <<current, release, op, entry>>
        /\ \/ /\ my[p].bin /\ UNCHANGED <<link, my>>
              /\ goes("switch") /\ calm
           \/ /\ ~my[p].bin /\ link["bin"] = "absent" /\ Points("bin", "owned")
              /\ my'[p].createdBin
              /\ my'[p].old = my[p].old /\ my'[p].bin = my[p].bin
              /\ my'[p].legacy = my[p].legacy /\ my'[p].created = my[p].created
              /\ my'[p].legacyRemoved = my[p].legacyRemoved
              /\ (goes("switch") /\ calm) \/ (goes("rollback") /\ failed)
           \/ /\ ~my[p].bin /\ UNCHANGED <<link, my>>
              /\ goes("rollback")
              /\ (link["bin"] # "absent" /\ calm) \/ failed
    BY <1>0, <1>t, <1>7, Goes DEF PublishBin, Locals
  <2> QED BY <1>0, <1>t, <2>1
     DEF Progress, LinksBut, LocalsTell, InstallAccount, Points, Links, Unswitched
<1>8. CASE PrepareSwitch(p)
  <2>1. /\ pc[p] = "switch"
        /\ UNCHANGED <<current, link, release, my, op, entry>>
        /\ \/ /\ pc'[p] \in {"confirm", "rename"}
              /\ calm
           \/ /\ ~(current = my[p].old /\ CurrentValid)
              /\ goes("rollback") /\ calm
           \/ /\ goes("rollback") /\ failed
    BY <1>0, <1>t, <1>8, Goes DEF PrepareSwitch, Locals
  <2> QED BY <1>0, <1>t, <2>1
     DEF Progress, LinksBut, LocalsTell, InstallAccount, CurrentValid, Unswitched
<1>9. CASE RenameCurrent(p)
  <2>1. /\ pc[p] = "rename"
        /\ UNCHANGED <<link, release, op, entry>>
        /\ \/ /\ current' = op[p]
              /\ my'[p].switched
              /\ my'[p].old = my[p].old /\ my'[p].bin = my[p].bin
              /\ my'[p].legacy = my[p].legacy /\ my'[p].created = my[p].created
              /\ my'[p].createdBin = my[p].createdBin
              /\ my'[p].legacyRemoved = my[p].legacyRemoved
              /\ (goes("confirm") /\ calm) \/ (goes("restore") /\ failed)
           \/ /\ UNCHANGED <<current, my>>
              /\ goes("rollback") /\ failed
    BY <1>0, <1>t, <1>9, Goes DEF RenameCurrent, Locals
  <2> QED BY <1>0, <1>t, <2>1
     DEF Progress, LinksBut, LocalsTell, InstallAccount, Unswitched
<1>10. CASE ConfirmInstalled(p)
  <2>1. /\ pc[p] = "confirm"
        /\ UNCHANGED <<current, link, release, my, op, entry>>
        /\ (goes("unregister") /\ calm) \/ (goes("restore") /\ failed)
    BY <1>0, <1>t, <1>10, Goes DEF ConfirmInstalled, Locals
  <2> QED BY <1>0, <1>t, <2>1
     DEF LinksBut, LocalsTell, InstallAccount
<1>11. CASE CheckLegacy(p)
  <2>1. /\ pc[p] = "unregister"
        /\ UNCHANGED <<current, link, release, my, op, entry>>
        /\ \/ /\ LinkIs("legacy", my[p].legacy)
              /\ goes(IF my[p].legacy THEN "unlink" ELSE "done") /\ calm
           \/ /\ goes(IF my[p].switched THEN "restore" ELSE "rollback")
              /\ (~LinkIs("legacy", my[p].legacy) /\ calm) \/ failed
    BY <1>0, <1>t, <1>11, Goes DEF CheckLegacy, Locals, Undo
  <2> QED BY <1>0, <1>t, <2>1
     DEF Progress, LinksBut, LocalsTell, InstallAccount, LinkIs, Links, Switched
<1>12. CASE UnlinkLegacy(p)
  <2>1. /\ pc[p] = "unlink"
        /\ UNCHANGED <<current, release, op, entry>>
        /\ \/ /\ link'["legacy"] = "absent" /\ link'["bin"] = link["bin"]
              /\ my'[p].legacyRemoved
              /\ my'[p].old = my[p].old /\ my'[p].bin = my[p].bin
              /\ my'[p].legacy = my[p].legacy /\ my'[p].created = my[p].created
              /\ my'[p].createdBin = my[p].createdBin
              /\ goes("done") \/ (goes(IF my[p].switched THEN "restore" ELSE "relink") /\ failed)
           \/ /\ UNCHANGED <<link, my>>
              /\ goes(IF my[p].switched THEN "restore" ELSE "rollback")
              /\ (link["legacy"] = "absent" /\ calm) \/ failed
    BY <1>0, <1>t, <1>12, Goes DEF UnlinkLegacy, Locals, Undo, Points, Links
  <2>2. trouble.faults = 0 /\ my[p].legacy /\ ~my[p].legacyRemoved /\ LocalsTell(p)
    BY <1>0, <1>t, <2>1 DEF InstallAccount
  <2>3. LinksBut(p, FALSE) /\ link["legacy"] = "owned"
    BY <1>0, <1>t, <2>1, <2>2 DEF InstallAccount, LinksBut, LocalsTell
  <2>4. current = op[p] /\ (my[p].switched \/ my[p].old = op[p])
    BY <1>0, <2>1 DEF Progress, Switched
  <2>5. /\ \A v \in Versions \ {op'[p]} : release'[v] = entry'.release[v]
        /\ my[p].old = entry.current /\ trouble'.faults > 0
    <3>1. trouble'.faults > 0
      BY <1>0, <1>t, <2>1, <2>3 DEF Within
    <3> QED BY <1>0, <1>t, <2>1, <2>2, <3>1 DEF InstallAccount, LocalsTell
  <2>6. CASE pc'[p] \in {"relink", "restore"} /\ my'[p].legacyRemoved
    <3>1. LocalsTell(p)'
      BY <1>0, <1>t, <2>1, <2>2, <2>3, <2>6 DEF LocalsTell
    <3>2. LinksBut(p, TRUE)'
      BY <1>0, <1>t, <2>1, <2>2, <2>3, <2>6 DEF LinksBut
    <3>3. pc'[p] = "relink" => current' = entry'.current
      BY <1>0, <1>t, <2>1, <2>2, <2>4, <2>5, <2>6
    <3> QED BY <1>0, <2>5, <2>6, <3>1, <3>2, <3>3 DEF InstallAccount, LinksBut
  <2>7. CASE pc'[p] \in {"restore", "rollback"} /\ my' = my /\ link' = link
    <3>1. LocalsTell(p)'
      BY <1>0, <1>t, <2>1, <2>2, <2>7 DEF LocalsTell
    <3>2. LinksBut(p, FALSE)' /\ ~my'[p].legacyRemoved
      BY <1>0, <2>1, <2>2, <2>3, <2>7 DEF LinksBut
    <3>3. pc'[p] = "rollback" => current' = entry'.current
      BY <1>0, <1>t, <2>1, <2>3, <2>4, <2>5, <2>7
    <3> QED BY <1>0, <2>5, <2>7, <3>1, <3>2, <3>3 DEF InstallAccount, LinksBut
  <2> QED BY <1>0, <1>t, <2>1, <2>6, <2>7 DEF Within
<1>13. CASE RestoreCurrent(p)
  <2>1. /\ pc[p] = "restore"
        /\ UNCHANGED <<link, release, my, op, entry>>
        /\ \/ /\ current' = my[p].old
              /\ goes(IF my[p].legacyRemoved THEN "relink" ELSE "rollback") /\ calm
           \/ /\ ~(current = op[p] /\ CurrentValid)
              /\ goes("failed") /\ calm
           \/ /\ goes("failed") /\ failed
    BY <1>0, <1>t, <1>13, Goes DEF RestoreCurrent, Locals
  <2> QED BY <1>0, <1>t, <2>1
     DEF Progress, LinksBut, LocalsTell, InstallAccount, CurrentValid, HasRelease, Switched
<1>14. CASE RestoreLegacy(p)
  <2>1. /\ pc[p] = "relink"
        /\ UNCHANGED <<current, release, my, op, entry>>
        /\ goes("rollback")
        /\ \/ /\ Points("legacy", "owned")
              /\ calm
           \/ /\ link["legacy"] # "absent"
              /\ calm
              /\ link' = link
           \/ /\ failed
    BY <1>0, <1>t, <1>14, Goes DEF RestoreLegacy, Locals
  <2> QED BY <1>0, <1>t, <2>1
     DEF LinksBut, LocalsTell, InstallAccount, Points, Links
<1>15. CASE Rollback(p)
  <2>1. /\ pc[p] = "rollback"
        /\ UNCHANGED <<current, link, release, op, entry>>
        /\ \/ /\ ~my[p].createdBin
              /\ my'[p].doomed = IF my[p].created THEN {op[p]} ELSE {}
              /\ goes(IF my[p].created THEN "erase" ELSE "failed") /\ calm
           \/ /\ my[p].createdBin /\ my' = my
              /\ goes("unlink_bin") /\ calm
           \/ /\ my[p].createdBin /\ my' = my
              /\ goes("failed")
              /\ (~LinkIs("bin", TRUE) /\ calm) \/ failed
    BY <1>0, <1>t, <1>15, Goes, Doomed DEF Rollback, Discard
  <2> QED BY <1>0, <1>t, <2>1
     DEF Progress, LinksKept, LinksBut, LocalsTell, InstallAccount, LinkIs
<1>16. CASE UnlinkBin(p)
  <2>1. /\ pc[p] = "unlink_bin"
        /\ UNCHANGED <<current, release, op, entry>>
        /\ \/ /\ Points("bin", "absent")
              /\ my'[p].doomed = IF my[p].created THEN {op[p]} ELSE {}
              /\ goes(IF my[p].created THEN "erase" ELSE "failed") /\ calm
           \/ /\ link["bin"] = "absent" /\ link' = link
              /\ goes("failed") /\ calm
           \/ /\ goes("failed") /\ failed
    BY <1>0, <1>t, <1>16, Goes, Doomed DEF UnlinkBin, Discard
  <2> QED BY <1>0, <1>t, <2>1
     DEF Progress, LinksKept, LinksBut, LocalsTell, InstallAccount, Points, Links
<1>17. CASE EraseRelease(p)
  <2>1. /\ pc[p] = "erase" /\ UNCHANGED <<current, link, op, entry>>
        /\ trouble.faults > 0 /\ my[p].doomed \subseteq {op[p]}
        /\ entry.release[op[p]] \in {"absent", "published"}
        /\ trouble.faults <= 1 => current = entry.current /\ LinksKept
    BY <1>0, <1>t, <1>17, Goes DEF EraseRelease, InstallAccount
  <2>2. CASE my[p].doomed = {} /\ Calm(p, "failed") /\ UNCHANGED <<release, my>>
    <3>1. goes("failed") /\ calm
      BY <1>0, <2>2, Goes
    <3> QED BY <1>0, <1>t, <2>1, <2>2, <3>1 DEF InstallAccount, LinksKept
  <2>3. ASSUME NEW v \in my[p].doomed, NEW state, Becomes(v, state), UNCHANGED my,
               Calm(p, "erase")
        PROVE  InstallAccount(p)'
    <3>1. goes("erase") /\ calm /\ v = op[p]
      BY <1>0, <2>1, <2>3, Goes
    <3> QED BY <1>0, <1>t, <2>1, <2>3, <3>1 DEF InstallAccount, LinksKept, Becomes
  <2>4. ASSUME NEW v \in my[p].doomed, Becomes(v, "absent"), 
               my' = [my EXCEPT ![p].doomed = my[p].doomed \ {v}], Calm(p, "erase")
        PROVE  InstallAccount(p)'
    <3>1. goes("erase") /\ calm /\ v = op[p]
      BY <1>0, <2>1, <2>4, Goes
    <3>2. my'[p].doomed = my[p].doomed \ {v} /\ release'[v] = "absent"
      BY <1>t, <2>4, <3>1 DEF Locals, Becomes
    <3> QED BY <1>0, <1>t, <2>1, <2>4, <3>1, <3>2 DEF InstallAccount, LinksKept, Becomes
  <2>5. ASSUME Fault(p, "failed"), \A v \in Versions \ {op[p]} : release'[v] = release[v]
        PROVE  InstallAccount(p)'
    <3>1. goes("failed") /\ failed
      BY <1>0, <2>5, Goes
    <3> QED BY <1>0, <1>t, <2>1, <2>5, <3>1 DEF InstallAccount
  <2> QED BY <1>0, <1>t, <1>17, <2>1, <2>2, <2>3, <2>4, <2>5 DEF EraseRelease, Becomes,
      Installing
<1> QED BY <1>0, <1>1, <1>2, <1>3, <1>4, <1>5, <1>6, <1>7, <1>8, <1>9, <1>10, <1>11, <1>12,
    <1>13, <1>14, <1>15, <1>16, <1>17 DEF Install

\* Each step of an uninstall in which nothing failed keeps its account.
LEMMA UninstallStep ==
  ASSUME NEW p \in Procs
  PROVE  (/\ TypeOK /\ TypeOK' /\ Progress(p) /\ CurrentIsComplete /\ ~Installing(p)
          /\ UninstallAccount(p) /\ pc[p] \in Within /\ pc'[p] \in Within
          /\ (Remove(p) \/ EraseRelease(p)) /\ ~UnlinkLockName(p))
         => UninstallAccount(p)'
<1>0. SUFFICES ASSUME TypeOK, TypeOK', Progress(p), CurrentIsComplete, ~Installing(p),
                      UninstallAccount(p), pc[p] \in Within, pc'[p] \in Within,
                      Remove(p) \/ EraseRelease(p), ~UnlinkLockName(p), trouble'.faults = 0
               PROVE  UninstallAccount(p)'
  BY DEF UninstallAccount
<1>t. /\ my \in [Procs -> Locals] /\ my[p] \in Locals
      /\ release \in [Versions -> ReleaseStates]
      /\ link \in [Links -> {"absent", "owned", "foreign"}]
      /\ trouble.faults \in Nat
  BY <1>0 DEF TypeOK
<1>f. \A to : /\ ~Fault(p, to)
              /\ Calm(p, to) => trouble' = trouble /\ pc'[p] = to /\ entry' = entry
  BY <1>0, <1>t, Goes
<1> USE DEF At, disk, lock, UninstallPCs
<1>1. CASE Survey(p)
  <2>1. /\ pc[p] = "survey"
        /\ entry' = entry /\ trouble' = trouble
        /\ UNCHANGED disk
        /\ \/ /\ NoForeignLink /\ OnlyOwned
              /\ my'[p].bin <=> LinkIs("bin", TRUE)
              /\ my'[p].legacy <=> LinkIs("legacy", TRUE)
              /\ my'[p].doomed = {v \in Versions : release[v] # "absent"}
              /\ pc'[p] = "recheck"
           \/ /\ ~(NoForeignLink /\ CurrentValid /\ OnlyOwned)
              /\ pc'[p] = "failed"
    <3> DEFINE bin == LinkIs("bin", TRUE)
               legacy == LinkIs("legacy", TRUE)
               found == {v \in Versions : release[v] # "absent"}
               fresh == [Unset EXCEPT !.bin = bin, !.legacy = legacy, !.old = current,
                                      !.doomed = found]
    <3>1. bin \in BOOLEAN /\ legacy \in BOOLEAN
      BY DEF LinkIs
    <3>2. my' = [my EXCEPT ![p] = fresh] =>
             (my'[p].bin <=> bin) /\ (my'[p].legacy <=> legacy) /\ my'[p].doomed = found
      <4> HIDE DEF bin, legacy, found
      <4>1. fresh.bin = bin /\ fresh.legacy = legacy /\ fresh.doomed = found
        BY DEF Unset
      <4> HIDE DEF fresh
      <4> QED BY <1>t, <4>1
    <3>3. /\ pc[p] = "survey" /\ UNCHANGED disk
          /\ \/ /\ NoForeignLink /\ OnlyOwned /\ my' = [my EXCEPT ![p] = fresh]
                /\ Calm(p, "recheck")
             \/ ~(NoForeignLink /\ CurrentValid /\ OnlyOwned) /\ Calm(p, "failed")
             \/ Fault(p, "failed")
      BY <1>1, Zenon DEF Survey
    <3> HIDE DEF found
    <3>4. \/ /\ pc'[p] = "recheck" /\ NoForeignLink /\ OnlyOwned
             /\ (my'[p].bin <=> bin) /\ (my'[p].legacy <=> legacy) /\ my'[p].doomed = found
          \/ pc'[p] = "failed" /\ ~(NoForeignLink /\ CurrentValid /\ OnlyOwned)
      BY <1>f, <3>2, <3>3
    <3>5. entry' = entry /\ trouble' = trouble
      BY <1>f, <3>3
    <3> QED BY <3>3, <3>4, <3>5 DEF bin, legacy, found
  <2> QED BY <1>0, <1>t, <2>1
     DEF UninstallAccount, LinksKept, LinkIs, NoForeignLink, OnlyOwned, Links, ReleaseStates,
         CurrentIsComplete
<1>2. CASE Recheck(p)
  <2>1. /\ pc[p] = "recheck"
        /\ entry' = entry /\ trouble' = trouble
        /\ UNCHANGED disk /\ my' = my
        /\ \/ /\ pc'[p] = IF my[p].legacy THEN "drop_legacy"
                         ELSE IF my[p].bin THEN "drop_bin" ELSE "drop_current"
           \/ /\ ~(LinkIs("legacy", my[p].legacy) /\ LinkIs("bin", my[p].bin))
    BY <1>0, <1>t, <1>f, <1>2 DEF Recheck, Locals, Becomes
  <2> QED BY <1>0, <1>t, <2>1
     DEF UninstallAccount, LinkIs, NoForeignLink, Links
<1>3. CASE DropLegacy(p)
  <2>1. /\ pc[p] = "drop_legacy"
        /\ entry' = entry /\ trouble' = trouble
        /\ UNCHANGED <<release, litter, my>>
        /\ \/ /\ Points("legacy", "absent")
              /\ pc'[p] = IF my[p].bin THEN "check_bin" ELSE "drop_current"
           \/ /\ link["legacy"] = "absent"
    BY <1>0, <1>t, <1>f, <1>3 DEF DropLegacy, Drops
  <2> QED BY <1>0, <1>t, <2>1
     DEF UninstallAccount, LinkIs, Points, Links
<1>4. CASE CheckBin(p)
  <2>1. /\ pc[p] = "check_bin"
        /\ entry' = entry /\ trouble' = trouble
        /\ UNCHANGED disk /\ my' = my
        /\ \/ /\ pc'[p] = "drop_bin"
           \/ /\ ~LinkIs("bin", TRUE)
    BY <1>0, <1>t, <1>f, <1>4 DEF CheckBin, Locals, Becomes
  <2> QED BY <1>0, <1>t, <2>1
     DEF UninstallAccount, LinkIs
<1>5. CASE DropBin(p)
  <2>1. /\ pc[p] = "drop_bin"
        /\ entry' = entry /\ trouble' = trouble
        /\ UNCHANGED <<release, litter, my>>
        /\ \/ /\ pc'[p] = "drop_current"
           \/ /\ link["bin"] = "absent"
    BY <1>0, <1>t, <1>f, <1>5 DEF DropBin, Drops
  <2> QED BY <1>0, <1>t, <2>1
     DEF UninstallAccount, LinkIs
<1>6. CASE DropCurrent(p)
  <2>1. /\ pc[p] = "drop_current"
        /\ entry' = entry /\ trouble' = trouble
        /\ UNCHANGED <<release, litter, my>>
        /\ pc'[p] = "erase"
    BY <1>0, <1>t, <1>f, <1>6 DEF DropCurrent, Locals, Becomes
  <2> QED BY <1>0, <1>t, <2>1
     DEF UninstallAccount
<1>7. CASE RemoveRoot(p)
  <2>1. /\ pc[p] = "rmdir"
        /\ entry' = entry /\ trouble' = trouble
        /\ UNCHANGED <<release, litter, my>>
        /\ \/ /\ pc'[p] = "unname"
           \/ /\ ~Empty
    BY <1>0, <1>t, <1>f, <1>7 DEF RemoveRoot, Locals, Becomes
  <2> QED BY <1>0, <1>t, <2>1
     DEF UninstallAccount
<1>8. CASE EraseRelease(p)
  <2>1. /\ pc[p] = "erase"
        /\ entry' = entry /\ trouble' = trouble
        /\ UNCHANGED litter
        /\ \/ /\ my[p].doomed = {} /\ release' = release
              /\ pc'[p] = "rmdir"
           \/ /\ \A v \in Versions \ my'[p].doomed : release'[v] = "absent"
              /\ pc'[p] = "erase"
    <3>1. /\ pc[p] = "erase" /\ litter' = litter
          /\ trouble' = trouble => \A v \in Versions \ my[p].doomed : release[v] = "absent"
      BY <1>0, <1>8 DEF EraseRelease, UninstallAccount
    <3>2. \/ my[p].doomed = {} /\ Calm(p, "rmdir") /\ UNCHANGED <<release, my>>
          \/ \E v \in my[p].doomed : Becomes(v, "partial") /\ UNCHANGED my /\ Calm(p, "erase")
          \/ \E v \in my[p].doomed :
                /\ Becomes(v, "absent") /\ my' = [my EXCEPT ![p].doomed = my[p].doomed \ {v}]
                /\ Calm(p, "erase")
      BY <1>0, <1>f, <1>8 DEF EraseRelease, Installing
    <3>3. entry' = entry /\ trouble' = trouble
      BY <1>f, <3>2
    <3>4. ASSUME NEW v \in my[p].doomed, Becomes(v, "absent"),
                 my' = [my EXCEPT ![p].doomed = my[p].doomed \ {v}]
          PROVE  \A w \in Versions \ my'[p].doomed : release'[w] = "absent"
      <4>1. my'[p].doomed = my[p].doomed \ {v}
        BY <1>t, <3>4 DEF Locals
      <4> QED BY <1>t, <3>1, <3>3, <3>4, <4>1 DEF Becomes
    <3>5. ASSUME NEW v \in my[p].doomed, Becomes(v, "partial"), UNCHANGED my
          PROVE  \A w \in Versions \ my'[p].doomed : release'[w] = "absent"
      BY <1>t, <3>1, <3>3, <3>5 DEF Becomes
    <3> QED BY <1>f, <3>1, <3>2, <3>3, <3>4, <3>5
  <2> QED BY <1>0, <1>t, <2>1
     DEF UninstallAccount, Empty
<1> QED BY <1>0, <1>1, <1>2, <1>3, <1>4, <1>5, <1>6, <1>7, <1>8 DEF Remove

-----------------------------------------------------------------------------
\* Installs take the steps of installs, uninstalls those of uninstalls, and no
\* step of theirs counts as interference.
LEMMA Kind ==
  ASSUME TypeOK, NEW p \in Procs, Progress(p),
         Install(p) \/ Remove(p) \/ EraseRelease(p), ~UnlinkLockName(p)
  PROVE  /\ Installing(p) => Install(p) \/ EraseRelease(p)
         /\ ~Installing(p) => Remove(p) \/ EraseRelease(p)
         /\ trouble'.meddled = trouble.meddled
<1>1. CASE Install(p)
  <2>1. pc[p] \in InstallPCs
    BY <1>1 DEF Install, At, Preflight, PrepareRelease, PublishRelease, RemoveStage,
           HardenRelease, VerifyRelease, PublishBin, PrepareSwitch, RenameCurrent,
           ConfirmInstalled, CheckLegacy, UnlinkLegacy, RestoreCurrent, RestoreLegacy,
           Rollback, UnlinkBin, InstallPCs
  <2>2. Installing(p)
    BY <2>1 DEF Progress
  <2>3. trouble'.meddled = trouble.meddled
    BY <1>1, Goes DEF Install, Preflight, PrepareRelease, PublishRelease, RemoveStage,
           HardenRelease, VerifyRelease, PublishBin, PrepareSwitch, RenameCurrent,
           ConfirmInstalled, CheckLegacy, UnlinkLegacy, RestoreCurrent, RestoreLegacy,
           Rollback, UnlinkBin
  <2> QED BY <1>1, <2>2, <2>3
<1>2. CASE Remove(p)
  <2>1. pc[p] \in UninstallPCs
    BY <1>2 DEF Remove, At, Survey, Recheck, DropLegacy, CheckBin, DropBin, DropCurrent,
                RemoveRoot, UnlinkLockName, UninstallPCs
  <2>2. ~Installing(p)
    BY <2>1 DEF Progress
  <2>3. trouble'.meddled = trouble.meddled
    BY <1>2, Goes DEF Remove, Survey, Recheck, DropLegacy, CheckBin, DropBin, DropCurrent,
                      RemoveRoot, Drops
  <2> QED BY <1>2, <2>2, <2>3
<1>3. CASE EraseRelease(p)
  BY <1>3, Goes DEF EraseRelease
<1> QED BY <1>1, <1>2, <1>3

\* Every step keeps it that who is not idle was asked for something.
LEMMA AskedNext ==
  ASSUME IInv, \A p \in Procs : Asked(p), [Next]_vars
  PROVE  \A p \in Procs : Asked(p)'
<1>t. TypeOK
  BY DEF IInv
<1>1. CASE UNCHANGED vars
  BY <1>1 DEF vars, Asked
<1>2. ASSUME NEW p \in Procs, Begin(p) PROVE \A q \in Procs : Asked(q)'
  BY <1>2, <1>t, InstallerAssumption DEF Begin, Goto, TypeOK, Asked
<1>3. ASSUME NEW p \in Procs, op' = op, pc[p] # "idle",
             \A q \in Procs : q # p => pc'[q] = pc[q]
      PROVE  \A q \in Procs : Asked(q)'
  BY <1>3 DEF Asked
<1>4. ASSUME NEW p \in Procs, Ends(p) PROVE \A q \in Procs : Asked(q)'
  BY <1>4, <1>t DEF Ends, Goto, TypeOK, Asked
<1>5. ASSUME NEW p \in Procs, OpenLock(p) \/ InspectLock(p) \/ LockFile(p) \/ MatchLock(p)
      PROVE  \A q \in Procs : Asked(q)'
  BY <1>t, <1>3, <1>4, <1>5
     DEF OpenLock, InspectLock, LockFile, MatchLock, Goto, TypeOK
<1>6. ASSUME NEW p \in Procs, Install(p) \/ Remove(p) \/ EraseRelease(p), ~UnlinkLockName(p)
      PROVE  \A q \in Procs : Asked(q)'
  <2>1. Working(p) /\ "idle" \notin Within
    BY <1>6, WorkIsWorking, NamesApart DEF Outside
  <2> QED BY <1>t, <1>3, <2>1 DEF Working, Goto, TypeOK
<1>7. ASSUME NEW p \in Procs, UnlinkLockName(p)
      PROVE  \A q \in Procs : Asked(q)'
  BY <1>t, <1>3, <1>7, GoesOn DEF UnlinkLockName, Goto, TypeOK
<1>8. CASE MeddleLink \/ MeddleRelease
  BY <1>8 DEF MeddleLink, MeddleRelease, Meddle, Asked
<1> QED BY <1>1, <1>2, <1>4, <1>5, <1>6, <1>7, <1>8
        DEF Next, Work, Acquire, GiveUp, Leave, Crash

\* An account is of an operation at work ...
LEMMA AccountElsewhere ==
  ASSUME NEW q, pc'[q] \notin Within
  PROVE  Account(q)'
BY DEF Account

\* ... and stays true while nothing it speaks of changes.
LEMMA AccountUndisturbed ==
  ASSUME NEW q, Account(q), pc'[q] = pc[q], op'[q] = op[q], my'[q] = my[q],
         UNCHANGED <<disk, entry, trouble>>
  PROVE  Account(q)'
BY DEF Account, Installing, InstallAccount, UninstallAccount, disk, LinksKept, LinksBut,
    LocalsTell, LinkIs,
       NoForeignLink, Empty

\* Who is outside the lock, or leaves it, disturbs nobody's account: a killed
\* process leaves its temporary entries when nobody else is at work.
LEMMA OutsideAccount ==
  ASSUME IInv, \A q \in Procs : Account(q), NEW p \in Procs,
         \/ Begin(p) \/ OpenLock(p) \/ InspectLock(p) \/ LockFile(p)
         \/ GiveUp(p) \/ Leave(p) \/ Crash(p)
  PROVE  \A q \in Procs : Account(q)'
<1>t. TypeOK /\ LocksFit
  BY DEF IInv
<1>1. \E to \in {"idle", "open", "inspect", "flock", "match"} : pc' = [pc EXCEPT ![p] = to]
  BY DEF Begin, OpenLock, InspectLock, LockFile, GiveUp, Leave, Crash, Ends, Goto
<1>2. pc'[p] \notin Within
  BY <1>t, <1>1, NamesApart DEF TypeOK, Outside
<1>3. UNCHANGED <<entry, trouble>> /\ (UNCHANGED disk \/ pc[p] \in Within)
  <2>1. CASE Crash(p)
    BY <2>1 DEF Crash, Leavings, disk, Within, InstallPCs
  <2> QED BY <2>1 DEF Begin, OpenLock, InspectLock, LockFile, GiveUp, Leave, history
<1>4. ASSUME NEW q \in Procs, q # p PROVE Account(q)'
  <2>1. op' = op \/ \E o \in Versions \cup {Uninstall, None} : op' = [op EXCEPT ![p] = o]
    BY InstallerAssumption DEF Begin, OpenLock, InspectLock, LockFile, GiveUp, Leave, Crash,
        Ends
  <2>2. my' = my \/ my' = [my EXCEPT ![p] = Unset]
    BY DEF Begin, OpenLock, InspectLock, LockFile, GiveUp, Leave, Crash, Ends
  <2>3. pc'[q] = pc[q] /\ op'[q] = op[q] /\ my'[q] = my[q]
    BY <1>t, <1>1, <1>4, <2>1, <2>2 DEF TypeOK
  <2>4. CASE UNCHANGED disk
    BY <1>3, <2>3, <2>4, AccountUndisturbed
  <2>5. CASE pc[p] \in Within
    <3>1. pc'[q] \notin Within
      BY <1>t, <1>4, <2>3, <2>5, OneWorks DEF OneAtATime
    <3> QED BY <3>1, AccountElsewhere
  <2> QED BY <1>3, <2>4, <2>5
<1> QED BY <1>2, <1>4, AccountElsewhere

\* Who gets in starts with nothing to account for.
LEMMA EntryAccount ==
  ASSUME IInv, IInv', \A q \in Procs : Account(q), NEW p \in Procs, MatchLock(p)
  PROVE  \A q \in Procs : Account(q)'
<1>t. TypeOK /\ LocksFit /\ LocksFit'
  BY DEF IInv
<1>1. CASE Goto(p, "open") /\ UNCHANGED <<entry, trouble>>
  <2>1. pc'[p] \notin Within /\ \A q \in Procs : q # p => pc'[q] = pc[q]
    BY <1>t, <1>1, NamesApart DEF TypeOK, Goto, Outside
  <2> QED BY <1>1, <2>1, AccountElsewhere, AccountUndisturbed DEF MatchLock
<1>2. CASE /\ entry' = [current |-> current, release |-> release, link |-> link,
                        litter |-> litter]
           /\ trouble' = NoTrouble
           /\ Goto(p, IF Installing(p) THEN "preflight" ELSE "survey")
  <2>1. pc'[p] = (IF Installing(p) THEN "preflight" ELSE "survey") /\ UNCHANGED <<disk, op>>
    BY <1>t, <1>2 DEF TypeOK, Goto, MatchLock
  <2>2. pc'[p] \in Within
    BY <2>1 DEF Within, InstallPCs, UninstallPCs
  <2>3. \A q \in Procs : q # p => pc'[q] \notin Within
    BY <1>t, <2>2, NamesApart DEF LocksFit
  <2>4. trouble'.faults = 0 /\ trouble'.meddled = FALSE
    BY <1>2 DEF NoTrouble
  <2>5. Account(p)'
    BY <1>2, <2>1, <2>4
       DEF Account, InstallAccount, UninstallAccount, Installing, LinksKept, disk, InstallPCs,
           UninstallPCs, Forward, Backward, Early, TakingBack
  <2> QED BY <2>3, <2>5, AccountElsewhere
<1> QED BY <1>1, <1>2 DEF MatchLock

\* Every step preserves the invariant.
LEMMA AccountNext == AccountInv /\ [Next]_vars => AccountInv'
<1> SUFFICES ASSUME IInv, \A p \in Procs : Asked(p) /\ Account(p), [Next]_vars
             PROVE  \A p \in Procs : Account(p)'
  BY InvNext, AskedNext DEF AccountInv
<1>t. /\ IInv' /\ TypeOK /\ TypeOK' /\ LocksFit /\ CurrentIsComplete
      /\ \A p \in Procs : Progress(p)
  BY InvNext DEF IInv
<1>1. CASE UNCHANGED vars
  BY <1>1, AccountUndisturbed DEF vars, history
<1>2. ASSUME NEW p \in Procs, Install(p) \/ Remove(p) \/ EraseRelease(p), ~UnlinkLockName(p)
      PROVE  \A q \in Procs : Account(q)'
  <2>1. Working(p)
    BY <1>2, WorkIsWorking
  <2>2. ASSUME NEW q \in Procs, q # p PROVE Account(q)'
    <3>1. pc'[q] \notin Within
      BY <1>t, <2>1, <2>2, OneWorks DEF OneAtATime, Working, Goto, TypeOK
    <3> QED BY <3>1, AccountElsewhere
  <2>3. ASSUME ~trouble'.meddled, pc'[p] \in Within PROVE Account(p)'
    <3>1. ~trouble.meddled /\ pc[p] \in Within /\ (Installing(p)' <=> Installing(p))
      BY <1>t, <1>2, <2>1, <2>3, Kind DEF Working, Installing
    <3>2. CASE Installing(p)
      <4>1. Install(p) \/ EraseRelease(p)
        BY <1>t, <1>2, <3>2, Kind
      <4> QED BY <1>t, <2>3, <3>1, <3>2, <4>1, InstallStep DEF Account
    <3>3. CASE ~Installing(p)
      <4>1. Remove(p) \/ EraseRelease(p)
        BY <1>t, <1>2, <3>3, Kind
      <4> QED BY <1>t, <1>2, <2>3, <3>1, <3>3, <4>1, UninstallStep DEF Account
    <3> QED BY <3>2, <3>3
  <2> QED BY <2>2, <2>3 DEF Account
<1>3. ASSUME NEW p \in Procs, UnlinkLockName(p)
      PROVE  \A q \in Procs : Account(q)'
  <2>1. pc[p] = "unname" /\ pc' = [pc EXCEPT ![p] = "done"]
    BY <1>3, GoesOn DEF UnlinkLockName, Goto
  <2>2. pc[p] \in Within
    BY <2>1 DEF Within, UninstallPCs
  <2>3. \A q \in Procs : pc'[q] \notin Within
    BY <1>t, <2>1, <2>2, OneWorks, NamesApart DEF OneAtATime, TypeOK
  <2> QED BY <2>3, AccountElsewhere
<1>4. CASE MeddleLink \/ MeddleRelease
  <2>1. trouble'.meddled
    BY <1>t, <1>4 DEF MeddleLink, MeddleRelease, Meddle, TypeOK
  <2> QED BY <2>1 DEF Account
<1> QED BY <1>t, <1>1, <1>2, <1>3, <1>4, OutsideAccount, EntryAccount DEF Next, Work, Acquire

\* The invariant holds initially.
LEMMA AccountInit == Init => AccountInv
<1>1. Init => \A p \in Procs : Asked(p) /\ Account(p)
  BY NamesApart DEF Init, Asked, Account, Outside
<1> QED BY <1>1, InvInit DEF AccountInv

-----------------------------------------------------------------------------
\* The theorems.

\* The account of whoever is at work is true in every reachable state.
THEOREM Accounted == Spec => []AccountInv
BY AccountInit, AccountNext, PTL DEF Spec

\* An install in which one call failed, at whatever step, ends with the pointer
\* and the registrations it found (the rollbacks of installWithHooks).
THEOREM FailureIsUndone == Spec => []FailedInstallRestores
<1>1. AccountInv => FailedInstallRestores
  <2> SUFFICES ASSUME AccountInv, NEW p \in Procs, pc[p] = "failed", Installing(p),
                      trouble.faults <= 1, ~trouble.meddled
               PROVE  /\ current = entry.current /\ link = entry.link
                      /\ \A v \in Versions :
                            release[v] # entry.release[v] => entry.release[v] = "published"
    BY DEF FailedInstallRestores
  <2>1. InstallAccount(p) /\ TypeOK
    BY DEF AccountInv, IInv, Account, Within
  <2>2. current = entry.current /\ LinksKept
    BY <2>1 DEF InstallAccount
  <2>3. link = entry.link
    BY <2>1, <2>2, SameLinks DEF TypeOK, LinksKept
  <2>4. \A v \in Versions : release[v] # entry.release[v] => entry.release[v] = "published"
    BY <2>1 DEF InstallAccount
  <2> QED BY <2>2, <2>3, <2>4
<1> QED BY Accounted, <1>1, PTL

\* An operation in which nothing failed is refused only for something foreign or
\* half removed that it found.
THEOREM RefusalsHaveCauses == Spec => []RefusedForCause
<1>1. AccountInv => RefusedForCause
  <2> SUFFICES ASSUME AccountInv, NEW p \in Procs, pc[p] = "failed", trouble.faults = 0,
                      ~trouble.meddled
               PROVE  \/ \E l \in Links : entry.link[l] = "foreign"
                      \/ Installing(p) /\ entry.release[op[p]] \in {"partial", "foreign"}
                      \/ /\ op[p] = Uninstall
                         /\ \/ entry.litter # {}
                            \/ \E v \in Versions : entry.release[v] \in {"partial", "foreign"}
    BY DEF RefusedForCause
  <2>1. Account(p) /\ Asked(p) /\ TypeOK /\ pc[p] \in Within
    BY DEF AccountInv, IInv, Within
  <2>2. CASE Installing(p)
    BY <2>1, <2>2 DEF Account, InstallAccount
  <2>3. CASE ~Installing(p)
    <3>1. op[p] = Uninstall
      BY <2>1, <2>3 DEF Asked, TypeOK, Installing
    <3> QED BY <2>1, <2>3, <3>1 DEF Account, UninstallAccount
  <2> QED BY <2>2, <2>3
<1> QED BY Accounted, <1>1, PTL

-----------------------------------------------------------------------------
\* The installer implements the abstract installation.

\* What an install's locals say of the installation it found, and that it gives
\* up only its own version, whatever failed and whoever interfered.
Remembers(p) ==
    /\ pc[p] = "preflight" => current = entry.current
    /\ pc[p] \in InstallPCs \ {"preflight"} => my[p].old = entry.current
    /\ pc[p] = "erase" /\ Installing(p) => my[p].doomed \subseteq {op[p]}

PromiseInv == IInv /\ \A p \in Procs : Asked(p) /\ Remembers(p)

\* What a step of the work does to the installation: nothing, or what an abstract
\* worker may do, and then it works on.
Changes(p) ==
    \/ /\ Installing(p) /\ op[p] \notin Complete(release)
       /\ current' = current /\ Complete(release)' = Complete(release) \cup {op[p]}
    \/ /\ Installing(p) /\ current' \in {op[p], entry.current}
       /\ current' \in Complete(release) \cup {None} /\ release' = release
    \/ ~Installing(p) /\ current' = None /\ release' = release
    \/ /\ current' = current
       /\ \E v \in Complete(release) \ {current} :
             /\ Complete(release)' = Complete(release) \ {v}
             /\ \/ op[p] = v /\ v \notin Complete(entry.release)
                \/ ~Installing(p) /\ current = None

Affects(p) ==
    \/ current' = current /\ Complete(release)' = Complete(release)
    \/ Changes(p) /\ pc'[p] \in Within

\* Most steps leave the versions and the pointer alone ...
LEMMA Quiet ==
  ASSUME NEW p \in Procs, Install(p) \/ Remove(p),
         ~PublishRelease(p), ~HardenRelease(p), ~RenameCurrent(p), ~RestoreCurrent(p),
         ~DropCurrent(p)
  PROVE  UNCHANGED <<current, release>>
BY DEF Install, Remove, disk, Preflight, PrepareRelease, RemoveStage, VerifyRelease, PublishBin,
       PrepareSwitch, ConfirmInstalled, CheckLegacy, UnlinkLegacy, RestoreLegacy, Rollback,
       UnlinkBin, Survey, Recheck, DropLegacy, CheckBin, DropBin, Drops, RemoveRoot,
       UnlinkLockName

\* ... and each of the others does to them what the promise allows.
LEMMA StepAffects ==
  ASSUME TypeOK, CurrentIsComplete, NEW p \in Procs, Progress(p), Remembers(p),
         Install(p) \/ Remove(p) \/ EraseRelease(p)
  PROVE  Affects(p)
<1>t. /\ release \in [Versions -> ReleaseStates] /\ pc \in [Procs -> Outside \cup Holding]
      /\ current \in Versions \cup {None} /\ None \notin Versions
      /\ my[p].doomed \subseteq Versions
  BY InstallerAssumption DEF TypeOK, Locals
<1>w. {"harden", "unstage", "erase", "failed", "confirm", "restore", "rollback", "relink", "rmdir"}
         \subseteq Within
  BY DEF Within, InstallPCs, UninstallPCs
<1>g. ASSUME NEW to, Calm(p, to) \/ Fault(p, to) PROVE pc'[p] = to
  BY <1>t, <1>g, GoesOn DEF Goto
<1>1. CASE PublishRelease(p)
  <2>1. current' = current /\ (release' = release \/ (release[op[p]] # "complete"
                                 /\ Becomes(op[p], "published")))
    BY <1>1 DEF PublishRelease
  <2>2. Complete(release)' = Complete(release)
    BY <1>t, <2>1 DEF Becomes, Complete
  <2> QED BY <2>1, <2>2 DEF Affects
<1>2. CASE HardenRelease(p)
  <2>1. /\ Installing(p) /\ release[op[p]] = "published" /\ current' = current
        /\ \E state \in {"published", "complete"} : Becomes(op[p], state)
        /\ pc'[p] \in Within
    <3>1. pc[p] = "harden"
      BY <1>2 DEF HardenRelease, At
    <3>2. Calm(p, "verify") \/ Fault(p, "erase")
      BY <1>2 DEF HardenRelease
    <3>3. "verify" \in Within
      BY DEF Within, InstallPCs
    <3>4. /\ current' = current
          /\ \E state \in {"published", "complete"} : Becomes(op[p], state)
      BY <1>2 DEF HardenRelease
    <3> QED BY <1>w, <1>g, <3>1, <3>2, <3>3, <3>4 DEF Progress, InstallPCs
  <2>2. op[p] \in Versions \ Complete(release)
    BY <2>1 DEF Installing, Complete
  <2>3. CASE Becomes(op[p], "published")
    BY <1>t, <2>1, <2>3 DEF Becomes, Complete, Affects
  <2>4. CASE Becomes(op[p], "complete")
    <3>1. Complete(release)' = Complete(release) \cup {op[p]}
      BY <1>t, <2>2, <2>4 DEF Becomes, Complete
    <3> QED BY <2>1, <2>2, <3>1 DEF Affects, Changes
  <2> QED BY <2>1, <2>3, <2>4
<1>3. CASE RenameCurrent(p)
  <2>1. /\ Installing(p) /\ release[op[p]] = "complete" /\ release' = release
        /\ current' \in {current, op[p]} /\ pc'[p] \in Within
    BY <1>w, <1>g, <1>3 DEF RenameCurrent, At, Progress, HasRelease, InstallPCs
  <2> QED BY <2>1 DEF Affects, Changes, Complete, Installing
<1>4. CASE RestoreCurrent(p)
  <2>1. /\ Installing(p) /\ my[p].old = entry.current /\ release' = release
        /\ my[p].old # None => release[my[p].old] = "complete"
        /\ current' \in {current, my[p].old} /\ pc[p] = "restore"
    BY <1>4 DEF RestoreCurrent, At, Progress, Remembers, InstallPCs
  <2>2. pc'[p] \in Within
    BY <1>w, <1>g, <1>4 DEF RestoreCurrent
  <2>3. my[p].old \in Versions \cup {None}
    BY DEF TypeOK, Locals
  <2> QED BY <2>1, <2>2, <2>3 DEF Affects, Changes, Complete
<1>5. CASE DropCurrent(p)
  <2>1. pc[p] = "drop_current" /\ release' = release /\ current' \in {current, None}
    BY <1>5 DEF DropCurrent, At
  <2>2. ~Installing(p)
    BY <2>1 DEF Progress, UninstallPCs
  <2>3. pc'[p] \in Within
    BY <1>w, <1>g, <1>5 DEF DropCurrent
  <2> QED BY <2>1, <2>2, <2>3 DEF Affects, Changes, Complete
<1>6. CASE EraseRelease(p)
  <2>1. /\ pc[p] = "erase" /\ current' = current
        /\ \/ release' = release
           \/ \E v \in my[p].doomed, state \in {"partial", "absent"} :
                 Becomes(v, state)
    BY <1>6 DEF EraseRelease, At
  <2>2. pc'[p] \in Within
    <3>1. \E to \in {"erase", "failed", "rmdir"} : Calm(p, to) \/ Fault(p, to)
      BY <1>6 DEF EraseRelease
    <3> QED BY <1>w, <1>g, <3>1
  <2>3. ASSUME NEW v \in my[p].doomed, NEW state \in {"partial", "absent"}, Becomes(v, state),
               release[v] = "complete"
        PROVE  Affects(p)
    <3>1. v \in Complete(release) \ {current}
      BY <1>t, <2>1, <2>3 DEF Complete, Progress
    <3>2. Complete(release)' = Complete(release) \ {v}
      BY <1>t, <2>3 DEF Becomes, Complete
    <3>3. CASE Installing(p)
      <4>1. op[p] = v /\ v \notin Complete(entry.release)
        BY <2>1, <2>3, <3>3 DEF Complete, Progress, Remembers
      <4> QED BY <2>1, <2>2, <3>1, <3>2, <4>1 DEF Affects, Changes
    <3>4. CASE ~Installing(p)
      <4>1. current = None
        BY <2>1, <3>4 DEF Progress
      <4> QED BY <2>1, <2>2, <3>1, <3>2, <3>4, <4>1 DEF Affects, Changes
    <3> QED BY <3>3, <3>4
  <2>4. ASSUME NEW v \in my[p].doomed, NEW state \in {"partial", "absent"}, Becomes(v, state),
               release[v] # "complete"
        PROVE  Affects(p)
    <3>1. Complete(release)' = Complete(release)
      BY <1>t, <2>4 DEF Becomes, Complete
    <3> QED BY <2>1, <3>1 DEF Affects
  <2>5. CASE release' = release
    BY <2>1, <2>5 DEF Affects, Complete
  <2> QED BY <2>1, <2>3, <2>4, <2>5
<1>7. CASE UNCHANGED <<current, release>>
  BY <1>7 DEF Affects, Complete
<1> QED BY <1>1, <1>2, <1>3, <1>4, <1>5, <1>6, <1>7, Quiet

\* A step of the work keeps what an install remembers.
LEMMA RemembersWork ==
  ASSUME TypeOK, NEW p \in Procs, Progress(p), Progress(p)', Remembers(p),
         Install(p) \/ Remove(p) \/ EraseRelease(p), ~UnlinkLockName(p)
  PROVE  Remembers(p)'
<1>w. Working(p) /\ op' = op /\ entry' = entry /\ (Installing(p)' <=> Installing(p))
  BY WorkIsWorking DEF Working, Installing
<1>g. ASSUME NEW to, Calm(p, to) \/ Fault(p, to) PROVE pc'[p] = to
  BY <1>g, GoesOn DEF Goto, TypeOK
<1>t. my \in [Procs -> Locals] /\ my[p] \in Locals
  BY DEF TypeOK
<1>1. CASE ~Installing(p)
  BY <1>w, <1>1 DEF Progress, Remembers, InstallPCs
<1>2. CASE Installing(p) /\ EraseRelease(p)
  <2>1. pc[p] = "erase" /\ pc'[p] \in {"erase", "failed"}
    BY <1>g, <1>2 DEF EraseRelease, At
  <2>2. my' = my \/ \E v \in my[p].doomed : my' = [my EXCEPT ![p].doomed = my[p].doomed \ {v}]
    BY <1>2 DEF EraseRelease
  <2>3. my'[p].doomed \subseteq my[p].doomed
    BY <1>t, <2>2 DEF Locals
  <2> QED BY <1>w, <1>2, <2>1, <2>3 DEF Remembers, InstallPCs
<1>3. CASE Preflight(p)
  <2> DEFINE bin == LinkIs("bin", TRUE)
             legacy == LinkIs("legacy", TRUE)
             fresh == [Unset EXCEPT !.bin = bin, !.legacy = legacy, !.old = current]
  <2>1. /\ pc[p] = "preflight"
        /\ \/ my' = [my EXCEPT ![p] = fresh] /\ Calm(p, "prepare")
           \/ Calm(p, "failed") \/ Fault(p, "failed")
    BY <1>3, Zenon DEF Preflight, At
  <2> HIDE DEF bin, legacy
  <2>2. fresh.old = current
    BY DEF Unset
  <2> HIDE DEF fresh
  <2>3. my' = [my EXCEPT ![p] = fresh] => my'[p].old = current
    BY <1>t, <2>2
  <2>4. current = entry.current
    BY <2>1 DEF Remembers
  <2>5. pc'[p] = "failed" \/ (pc'[p] = "prepare" /\ my'[p].old = current)
    BY <1>g, <2>1, <2>3
  <2> QED BY <1>w, <2>4, <2>5 DEF Remembers, InstallPCs
<1>4. CASE Install(p) /\ ~Preflight(p)
  <2>1. pc[p] \in InstallPCs \ {"preflight"}
    BY <1>4 DEF Install, At, PrepareRelease, PublishRelease, RemoveStage, HardenRelease,
           VerifyRelease, PublishBin, PrepareSwitch, RenameCurrent, ConfirmInstalled, CheckLegacy,
           UnlinkLegacy, RestoreCurrent, RestoreLegacy, Rollback, UnlinkBin, InstallPCs
  <2>2. my'[p].old = my[p].old
    <3>1. \/ my' = my \/ Dooms(p) \/ my' = [my EXCEPT ![p].doomed = {op[p]}]
          \/ my' = [my EXCEPT ![p].created = TRUE] \/ my' = [my EXCEPT ![p].createdBin = TRUE]
          \/ my' = [my EXCEPT ![p].switched = TRUE] \/ my' = [my EXCEPT ![p].legacyRemoved = TRUE]
      BY <1>4, Zenon DEF Install, PrepareRelease, PublishRelease, RemoveStage, HardenRelease,
             VerifyRelease, PublishBin, PrepareSwitch, RenameCurrent, ConfirmInstalled,
             CheckLegacy, UnlinkLegacy, RestoreCurrent, RestoreLegacy, Rollback, UnlinkBin
    <3> QED BY <1>t, <3>1 DEF Dooms, Locals
  <2>3. pc'[p] # "preflight"
    BY <1>g, <1>4 DEF Install, PrepareRelease, PublishRelease, RemoveStage, HardenRelease,
           VerifyRelease, PublishBin, PrepareSwitch, RenameCurrent, ConfirmInstalled, CheckLegacy,
           UnlinkLegacy, RestoreCurrent, RestoreLegacy, Rollback, UnlinkBin, Discard, Undo
  <2>4. pc'[p] = "erase" => my'[p].doomed \subseteq {op[p]}
    <3>1. pc'[p] = "erase" => Dooms(p) \/ my' = [my EXCEPT ![p].doomed = {op[p]}]
      BY <1>g, <1>4 DEF Install, PrepareRelease, PublishRelease, RemoveStage, HardenRelease,
             VerifyRelease, PublishBin, PrepareSwitch, RenameCurrent, ConfirmInstalled,
             CheckLegacy, UnlinkLegacy, RestoreCurrent, RestoreLegacy, Rollback, UnlinkBin, Undo
    <3> QED BY <1>t, <3>1, Doomed DEF Locals
  <2> QED BY <1>w, <2>1, <2>2, <2>3, <2>4 DEF Remembers
<1> QED BY <1>1, <1>2, <1>3, <1>4, Kind

\* What is remembered concerns who is at work ...
LEMMA RemembersElsewhere ==
  ASSUME NEW q, pc'[q] \notin Within
  PROVE  Remembers(q)'
BY DEF Remembers, Within, InstallPCs

\* ... and stays while the pointer and its own variables stay.
LEMMA RemembersUndisturbed ==
  ASSUME NEW q, Remembers(q), pc'[q] = pc[q], op'[q] = op[q], my'[q] = my[q],
         UNCHANGED <<entry, current>>
  PROVE  Remembers(q)'
BY DEF Remembers, Installing

\* No step outside the work changes the pointer or a complete version, nor what
\* anybody at work remembers; it only may end somebody's work.
LEMMA OutsideSteps ==
  ASSUME PromiseInv, NEW p \in Procs,
         \/ Begin(p) \/ OpenLock(p) \/ InspectLock(p) \/ LockFile(p)
         \/ GiveUp(p) \/ Leave(p) \/ Crash(p) \/ UnlinkLockName(p)
  PROVE  /\ UNCHANGED <<entry, current, release>>
         /\ pc'[p] \notin Within
         /\ \A q \in Procs : q # p => pc'[q] = pc[q] /\ op'[q] = op[q] /\ my'[q] = my[q]
         /\ \A q \in Procs : Remembers(q)'
<1>t. TypeOK
  BY DEF PromiseInv, IInv
<1>1. UNCHANGED <<entry, current, release>>
  BY GoesOn DEF Begin, OpenLock, InspectLock, LockFile, GiveUp, Leave, Crash, UnlinkLockName, disk,
                history
<1>2. \E to \in {"idle", "open", "inspect", "flock", "match", "done"} : pc' = [pc EXCEPT ![p] = to]
  BY GoesOn DEF Begin, OpenLock, InspectLock, LockFile, GiveUp, Leave, Crash, UnlinkLockName, Ends,
                Goto
<1>3. pc'[p] \notin Within
  BY <1>t, <1>2, NamesApart DEF TypeOK, Outside
<1>4. ASSUME NEW q \in Procs, q # p PROVE pc'[q] = pc[q] /\ op'[q] = op[q] /\ my'[q] = my[q]
  <2>1. op' = op \/ \E o \in Versions \cup {Uninstall, None} : op' = [op EXCEPT ![p] = o]
    BY InstallerAssumption
       DEF Begin, OpenLock, InspectLock, LockFile, GiveUp, Leave, Crash, UnlinkLockName, Ends
  <2>2. my' = my \/ my' = [my EXCEPT ![p] = Unset]
    BY DEF Begin, OpenLock, InspectLock, LockFile, GiveUp, Leave, Crash, UnlinkLockName, Ends
  <2> QED BY <1>t, <1>2, <1>4, <2>1, <2>2 DEF TypeOK
<1>5. ASSUME NEW q \in Procs PROVE Remembers(q)'
  BY <1>1, <1>3, <1>4, RemembersElsewhere, RemembersUndisturbed DEF PromiseInv
<1> QED BY <1>1, <1>3, <1>4, <1>5

\* Work that begins finds nobody else at work, and the installation as it is.
LEMMA EntrySteps ==
  ASSUME PromiseInv, NEW p \in Procs, MatchLock(p)
  PROVE  /\ UNCHANGED <<current, release, op, my>>
         /\ \/ /\ pc'[p] = (IF Installing(p) THEN "preflight" ELSE "survey")
               /\ entry'.current = current /\ entry'.release = release
               /\ \A q \in Procs : pc[q] \notin Within
            \/ pc'[p] \notin Within /\ entry' = entry
         /\ pc[p] = "match" /\ \A q \in Procs : q # p => pc'[q] = pc[q]
<1>t. TypeOK /\ LocksFit
  BY DEF PromiseInv, IInv
<1>1. UNCHANGED <<current, release, op, my>> /\ pc[p] = "match"
  BY DEF MatchLock, disk
<1>2. \A q \in Procs : q # p => pc'[q] = pc[q]
  BY <1>t DEF MatchLock, Goto, TypeOK
<1>3. CASE /\ named = fd[p] /\ Goto(p, IF Installing(p) THEN "preflight" ELSE "survey")
           /\ entry' = [current |-> current, release |-> release, link |-> link,
                        litter |-> litter]
  <2>1. \A q \in Procs : pc[q] \notin Within
    BY <1>t, <1>1, <1>3, NamesApart DEF LocksFit, TypeOK
  <2>2. pc'[p] = IF Installing(p) THEN "preflight" ELSE "survey"
    BY <1>t, <1>3 DEF TypeOK, Goto
  <2> QED BY <1>1, <1>2, <1>3, <2>1, <2>2
<1>4. CASE Goto(p, "open") /\ UNCHANGED entry
  <2>1. pc'[p] \notin Within
    BY <1>t, <1>4, NamesApart DEF TypeOK, Goto, Outside
  <2> QED BY <1>1, <1>2, <1>4, <2>1
<1> QED BY <1>3, <1>4 DEF MatchLock, LockMatches

\* The world leaves the pointer and the complete versions alone.
LEMMA MeddleSteps ==
  ASSUME TypeOK, MeddleLink \/ MeddleRelease
  PROVE  UNCHANGED <<current, pc, op, my, entry>> /\ Complete(release)' = Complete(release)
<1>1. UNCHANGED <<current, pc, op, my, entry>>
  BY DEF MeddleLink, MeddleRelease, Meddle
<1>2. \A v \in Versions : release[v] = "complete" <=> release'[v] = "complete"
  BY DEF MeddleLink, MeddleRelease, Becomes, TypeOK
<1> QED BY <1>1, <1>2 DEF Complete

\* Every step keeps what is remembered.
LEMMA PromiseNext == PromiseInv /\ [Next]_vars => PromiseInv'
<1> SUFFICES ASSUME PromiseInv, [Next]_vars PROVE \A q \in Procs : Remembers(q)'
  BY InvNext, AskedNext DEF PromiseInv
<1>t. /\ TypeOK /\ LocksFit /\ \A p \in Procs : Progress(p) /\ Progress(p)' /\ Remembers(p)
  BY InvNext DEF PromiseInv, IInv
<1>1. CASE UNCHANGED vars
  BY <1>t, <1>1, RemembersUndisturbed DEF vars, history, disk
<1>2. ASSUME NEW p \in Procs, Install(p) \/ Remove(p) \/ EraseRelease(p), ~UnlinkLockName(p)
      PROVE  \A q \in Procs : Remembers(q)'
  <2>1. ASSUME NEW q \in Procs, q # p PROVE pc'[q] \notin Within
    BY <1>t, <1>2, <2>1, WorkIsWorking, OneWorks DEF OneAtATime, Working, Goto, TypeOK
  <2> QED BY <1>t, <1>2, <2>1, RemembersWork, RemembersElsewhere
<1>3. ASSUME NEW p \in Procs, MatchLock(p) PROVE \A q \in Procs : Remembers(q)'
  <2>1. CASE /\ pc'[p] = (IF Installing(p) THEN "preflight" ELSE "survey")
             /\ entry'.current = current /\ \A q \in Procs : pc[q] \notin Within
    <3>1. \A q \in Procs : q # p => pc'[q] \notin Within
      BY <1>3, <2>1, EntrySteps
    <3>2. Remembers(p)'
      BY <1>3, <2>1, EntrySteps DEF Remembers, InstallPCs
    <3> QED BY <3>1, <3>2, RemembersElsewhere
  <2>2. CASE pc'[p] \notin Within /\ entry' = entry
    BY <1>t, <1>3, <2>2, EntrySteps, RemembersElsewhere, RemembersUndisturbed
  <2> QED BY <1>3, <2>1, <2>2, EntrySteps
<1>4. CASE MeddleLink \/ MeddleRelease
  BY <1>t, <1>4, MeddleSteps, RemembersUndisturbed
<1> QED BY <1>1, <1>2, <1>3, <1>4, OutsideSteps DEF Next, Work, Acquire

-----------------------------------------------------------------------------
\* The mapping.

\* What somebody is at when he works, and when he does not.
LEMMA TaskOf ==
  ASSUME NEW p \in Procs
  PROVE  /\ Tasks[p] = IF pc[p] \in Within THEN op[p] ELSE None
         /\ Tasks'[p] = IF pc'[p] \in Within THEN op'[p] ELSE None
BY DEF Tasks

\* When one process's task changes, the others' stay.
LEMMA TaskChanges ==
  ASSUME NEW p \in Procs, NEW o, Tasks'[p] = o,
         \A q \in Procs : q # p => pc'[q] = pc[q] /\ op'[q] = op[q]
  PROVE  Tasks' = [Tasks EXCEPT ![p] = o]
<1>1. ASSUME NEW q \in Procs, q # p PROVE Tasks'[q] = Tasks[q]
  BY <1>1, TaskOf
<1>2. /\ Tasks = [q \in Procs |-> Tasks[q]] /\ Tasks' = [q \in Procs |-> Tasks'[q]]
  BY DEF Tasks
<1> QED BY <1>1, <1>2

\* Who works was asked to install a version or to uninstall.
LEMMA WorksAtSomething ==
  ASSUME PromiseInv, NEW p \in Procs, pc[p] # "idle"
  PROVE  op[p] \in Versions \cup {Uninstall} /\ (~Installing(p) => op[p] = Uninstall)
         /\ op[p] # None
BY InstallerAssumption DEF PromiseInv, IInv, TypeOK, Asked, Installing

\* A step of the work is what the abstract worker does, or the end of its work.
LEMMA WorkKeepsPromise ==
  ASSUME PromiseInv, NEW p \in Procs, Install(p) \/ Remove(p) \/ EraseRelease(p),
         ~UnlinkLockName(p)
  PROVE  [Promise!Next]_(Promise!vars)
<1>t. /\ TypeOK /\ CurrentIsComplete /\ Progress(p) /\ Remembers(p)
  BY DEF PromiseInv, IInv
<1>1. Working(p) /\ Affects(p)
  BY <1>t, WorkIsWorking, StepAffects
<1>2. /\ pc[p] \in Within /\ op' = op /\ entry' = entry
      /\ \A q \in Procs : q # p => pc'[q] = pc[q] /\ op'[q] = op[q]
  BY <1>t, <1>1 DEF Working, Goto, TypeOK
<1>3. /\ Tasks[p] = op[p] /\ op[p] \in Versions \cup {Uninstall}
      /\ (~Installing(p) => op[p] = Uninstall) /\ op[p] # None /\ Uninstall \notin Versions
  BY <1>2, TaskOf, WorksAtSomething, NamesApart, InstallerAssumption DEF Outside
<1>4. CASE pc'[p] \in Within
  <2>1. Tasks' = Tasks
    BY <1>2, <1>4 DEF Tasks
  <2>2. CASE current' = current /\ Complete(release)' = Complete(release)
    BY <1>2, <2>1, <2>2 DEF Promise!vars
  <2>3. CASE Changes(p)
    <3>1. CASE /\ Installing(p) /\ op[p] \notin Complete(release)
               /\ current' = current /\ Complete(release)' = Complete(release) \cup {op[p]}
      <4>1. Promise!Publish(p)
        BY <1>2, <1>3, <2>1, <3>1 DEF Promise!Publish, Installing
      <4> QED BY <4>1 DEF Promise!Next
    <3>2. CASE /\ Installing(p) /\ current' \in {op[p], entry.current}
               /\ current' \in Complete(release) \cup {None} /\ release' = release
      <4>1. Promise!Switch(p)
        BY <1>2, <1>3, <2>1, <3>2 DEF Promise!Switch, Installing, Complete
      <4> QED BY <4>1 DEF Promise!Next
    <3>3. CASE ~Installing(p) /\ current' = None /\ release' = release
      <4>1. Promise!Withdraw(p)
        BY <1>2, <1>3, <2>1, <3>3 DEF Promise!Withdraw, Complete
      <4> QED BY <4>1 DEF Promise!Next
    <3>4. ASSUME current' = current, NEW v \in Complete(release) \ {current},
                 Complete(release)' = Complete(release) \ {v},
                 \/ op[p] = v /\ v \notin Complete(entry.release)
                 \/ ~Installing(p) /\ current = None
          PROVE  [Promise!Next]_(Promise!vars)
      <4>1. Promise!Discard(p, v)
        BY <1>2, <1>3, <2>1, <3>4 DEF Promise!Discard
      <4>2. v \in Versions
        BY DEF Complete
      <4> QED BY <4>1, <4>2 DEF Promise!Next
    <3> QED BY <2>3, <3>1, <3>2, <3>3, <3>4 DEF Changes
  <2> QED BY <1>1, <2>2, <2>3 DEF Affects
<1>5. CASE pc'[p] \notin Within
  <2>1. current' = current /\ Complete(release)' = Complete(release)
    BY <1>1, <1>5 DEF Affects
  <2>2. Tasks' = [Tasks EXCEPT ![p] = None]
    BY <1>2, <1>5, TaskOf, TaskChanges
  <2>3. Promise!Leave(p)
    BY <1>2, <1>3, <2>1, <2>2 DEF Promise!Leave
  <2> QED BY <2>3 DEF Promise!Next
<1> QED BY <1>4, <1>5

\* Every step is a step of the abstract installation, or none.
LEMMA KeepsPromise ==
  ASSUME PromiseInv, [Next]_vars
  PROVE  [Promise!Next]_(Promise!vars)
<1>t. TypeOK /\ LocksFit
  BY DEF PromiseInv, IInv
<1>1. CASE UNCHANGED vars
  BY <1>1 DEF vars, history, disk, Promise!vars, Tasks, Complete
<1>2. ASSUME NEW p \in Procs,
             \/ Begin(p) \/ OpenLock(p) \/ InspectLock(p) \/ LockFile(p)
             \/ GiveUp(p) \/ Leave(p) \/ Crash(p) \/ UnlinkLockName(p)
      PROVE  [Promise!Next]_(Promise!vars)
  <2>1. /\ UNCHANGED <<entry, current>> /\ Complete(release)' = Complete(release)
        /\ Tasks'[p] = None
        /\ \A q \in Procs : q # p => pc'[q] = pc[q] /\ op'[q] = op[q]
    BY <1>2, OutsideSteps, TaskOf DEF Complete
  <2>2. Tasks' = [Tasks EXCEPT ![p] = None]
    BY <2>1, TaskChanges
  <2>3. CASE Tasks[p] # None
    BY <2>1, <2>2, <2>3 DEF Promise!Leave, Promise!Next
  <2>4. CASE Tasks[p] = None
    <3>1. Tasks' = Tasks
      BY <2>2, <2>4 DEF Tasks
    <3> QED BY <2>1, <3>1 DEF Promise!vars
  <2> QED BY <2>3, <2>4
<1>3. ASSUME NEW p \in Procs, MatchLock(p) PROVE [Promise!Next]_(Promise!vars)
  <2>1. /\ UNCHANGED <<current, release, op>> /\ pc[p] = "match"
        /\ \A q \in Procs : q # p => pc'[q] = pc[q] /\ op'[q] = op[q]
        /\ Complete(release)' = Complete(release)
    BY <1>3, EntrySteps DEF Complete
  <2>2. CASE /\ pc'[p] = (IF Installing(p) THEN "preflight" ELSE "survey")
             /\ entry'.current = current /\ entry'.release = release
             /\ \A q \in Procs : pc[q] \notin Within
    <3>1. pc'[p] \in Within
      BY <2>2 DEF Within, InstallPCs, UninstallPCs
    <3>2. Tasks' = [Tasks EXCEPT ![p] = op[p]]
      BY <2>1, <3>1, TaskOf, TaskChanges
    <3>3. op[p] \in Versions \cup {Uninstall}
      BY <2>1, WorksAtSomething
    <3>4. \A q \in Procs : Tasks[q] = None
      BY <2>2, TaskOf
    <3>5. Complete(entry.release)' = Complete(release)
      BY <2>2 DEF Complete
    <3>6. Promise!Enter(p)
      BY <2>1, <2>2, <3>2, <3>3, <3>4, <3>5 DEF Promise!Enter
    <3> QED BY <3>6 DEF Promise!Next
  <2>3. CASE pc'[p] \notin Within /\ entry' = entry
    <3>1. Tasks'[p] = Tasks[p]
      BY <2>1, <2>3, TaskOf, NamesApart
    <3>2. Tasks' = Tasks
      BY <2>1, <2>3, NamesApart DEF Tasks
    <3> QED BY <2>1, <2>3, <3>2 DEF Promise!vars, Complete
  <2> QED BY <1>3, <2>2, <2>3, EntrySteps
<1>4. CASE MeddleLink \/ MeddleRelease
  <2>1. UNCHANGED <<current, entry>> /\ Complete(release)' = Complete(release) /\ Tasks' = Tasks
    BY <1>t, <1>4, MeddleSteps DEF Tasks
  <2> QED BY <2>1 DEF Promise!vars, Complete
<1> QED BY <1>1, <1>2, <1>3, <1>4, WorkKeepsPromise DEF Next, Work, Acquire

\* The lock file that comes and goes, staging, rollbacks, failed calls, kills and
\* other programs implement the abstract installation, for any processes,
\* versions and bounds.
THEOREM Refines == Spec => ImplementsInstallation
<1>1. Init => PromiseInv
  <2>1. Init => \A p \in Procs : Asked(p) /\ Remembers(p)
    BY DEF Init, Asked, Remembers, InstallPCs
  <2> QED BY <2>1, InvInit DEF PromiseInv
<1>2. Init => Promise!Init
  <2> SUFFICES ASSUME Init PROVE Promise!Init
    OBVIOUS
  <2>1. Tasks = [p \in Procs |-> None]
    BY NamesApart DEF Init, Tasks, Outside
  <2>2. Complete(release) = {} /\ Complete(entry.release) = {} /\ entry.current = None
    BY DEF Init, Complete, NoEntry
  <2> QED BY <2>1, <2>2 DEF Promise!Init, Init
<1>3. PromiseInv /\ [Next]_vars => PromiseInv'
  BY PromiseNext
<1>4. PromiseInv /\ [Next]_vars => [Promise!Next]_(Promise!vars)
  BY KeepsPromise
<1> HIDE DEF PromiseInv
<1> QED BY <1>1, <1>2, <1>3, <1>4, PTL DEF Spec, ImplementsInstallation, Promise!Spec

=============================================================================
