----------------------------- MODULE Installation -----------------------------
(***************************************************************************)
(* What installing and uninstalling promise, with no lock file, staging,    *)
(* registrations or rollbacks: one at a time works on the installation, the *)
(* version in use is always a complete one, and an install takes away only  *)
(* what it brought itself.  Installer implements it.                        *)
(***************************************************************************)
CONSTANTS Procs, Versions, Uninstall, None

VARIABLES
    work,       \* what each process is at: a version to install, Uninstall or None
    current,    \* the version in use, or None
    complete,   \* the versions that are there
    found       \* what the last to begin work found of these two

vars == <<work, current, complete, found>>

Init ==
    /\ work = [p \in Procs |-> None]
    /\ current = None /\ complete = {} /\ found = [current |-> None, complete |-> {}]

-----------------------------------------------------------------------------
\* Work begins when nobody else is at work; it ends, done, refused or killed,
\* anywhere.
Enter(p) ==
    /\ \A q \in Procs : work[q] = None
    /\ \E o \in Versions \cup {Uninstall} : work' = [work EXCEPT ![p] = o]
    /\ found' = [current |-> current, complete |-> complete]
    /\ UNCHANGED <<current, complete>>

Leave(p) ==
    /\ work[p] # None /\ work' = [work EXCEPT ![p] = None]
    /\ UNCHANGED <<current, complete, found>>

\* An install brings its own version, and puts it, or what it found, in use.
Publish(p) ==
    /\ work[p] \in Versions \ complete /\ complete' = complete \cup {work[p]}
    /\ UNCHANGED <<work, current, found>>

Switch(p) ==
    /\ work[p] \in Versions
    /\ current' \in {work[p], found.current} \cap (complete \cup {None})
    /\ UNCHANGED <<work, complete, found>>

\* An uninstall first puts nothing in use.
Withdraw(p) ==
    /\ work[p] = Uninstall /\ current' = None
    /\ UNCHANGED <<work, complete, found>>

\* A version not in use goes: an install's own that was not there before, or,
\* when nothing is in use, whatever an uninstall finds.
Discard(p, v) ==
    /\ v \in complete \ {current} /\ complete' = complete \ {v}
    /\ \/ work[p] = v /\ v \notin found.complete
       \/ work[p] = Uninstall /\ current = None
    /\ UNCHANGED <<work, current, found>>

Next == \E p \in Procs :
    \/ Enter(p) \/ Leave(p) \/ Publish(p) \/ Switch(p) \/ Withdraw(p)
    \/ \E v \in Versions : Discard(p, v)

Spec == Init /\ [][Next]_vars

===============================================================================
