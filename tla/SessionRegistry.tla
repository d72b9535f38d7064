---------------------------- MODULE SessionRegistry ----------------------------
(***************************************************************************)
(* The editor plugin's registry of the jobs its sessions have launched.     *)
(*                                                                         *)
(* A launch asks for permission, registers itself, waits for the version    *)
(* handshake all launches share, runs the command-line program and records  *)
(* the job that is reported.  When its session is deleted, or the plugin    *)
(* disposed, a pending "run" is aborted and awaited, a pending "start" is   *)
(* left to finish and cleaned up after, and recorded jobs are cancelled.    *)
(* JavaScript runs to the next await: each action is one such stretch.      *)
(***************************************************************************)
EXTENDS FiniteSets

CONSTANTS
    Sessions,
    Launches,      \* the start and run calls that may be made
    Runs,          \* those that are runs, which may be aborted
    Owner,         \* the session of each launch
    Impatient,     \* bounds: the launches the user may abort, and the sessions
    Deletable      \*         that may be deleted

ASSUME RegistryAssumption ==
    /\ Runs \cup Impatient \subseteq Launches
    /\ Owner \in [Launches -> Sessions] /\ Deletable \subseteq Sessions

\* The calls of close: for a deleted session, or on behalf of dispose.  Each
\* leaves one cleanup behind for every start it found pending.
Closers == Sessions \X {"event", "dispose"}
Cleanups == Closers \X (Launches \ Runs)
SessionOf(k) == k[1]
Tasks == Closers \cup Cleanups \cup Launches   \* whoever sends cancel requests

\* No task is taken for another.
ASSUME TasksAssumption == Launches \cap (Closers \cup Cleanups) = {} /\ Closers \cap Cleanups = {}

VARIABLES
    closed,      \* closedSessionIDs
    disposed,
    known,       \* the sessions in the registry's map
    closing,     \* the states of sessions, which outlive their entry in the map:
    pending,     \*   pendingLaunches
    jobs,        \*   the recorded jobs; a job goes by its launch
    handshake,   \* versionHandshake: "none", "pending" or "ok"
    stage,       \* where each launch is
    stop,        \* which abort signals each launch has got
    call,        \* where each call of close is
    awaits,      \*   and the runs whose completion it awaits
    cleanup,     \* where each cleanup is
    asking,      \* the cancel requests each of them is waiting for
    dispose,     \* where dispose is
    left,        \*   and the cleanups it waits for
    reported,    \* jobs the command-line program has reported, and
    requested    \*   those whose cancellation was requested

registry == <<closed, disposed, known, closing, pending, jobs>>
launches == <<handshake, stage, stop>>
closes == <<call, awaits, cleanup, asking, dispose, left>>
history == <<reported, requested>>
vars == <<registry, launches, closes, history>>

Init ==
    /\ closed = {} /\ disposed = FALSE /\ known = {}
    /\ closing = {} /\ pending = {} /\ jobs = {}
    /\ handshake = "none"
    /\ stage = [l \in Launches |-> "idle"] /\ stop = [l \in Launches |-> {}]
    /\ call = [k \in Closers |-> "idle"] /\ awaits = [k \in Closers |-> {}]
    /\ cleanup = [c \in Cleanups |-> "none"]
    /\ asking = [t \in Tasks |-> {}]
    /\ dispose = "idle" /\ left = {}
    /\ reported = {} /\ requested = {}

Of(s, set) == {l \in set : Owner[l] = s}

\* finish: the launch is no longer pending and its completion is resolved.
Finish(set) ==
    /\ stage' = [l \in Launches |-> IF l \in set THEN "done" ELSE stage[l]]
    /\ pending' = pending \ set

-----------------------------------------------------------------------------
\* Slips the properties must notice.

\* A start is expected to be covered by the cancellation of recorded jobs.
Deferred_Never(k) == {}

\* Whatever is pending is awaited.
Awaited_Everything(k) == Of(SessionOf(k), pending)

\* dispose does not wait for the cleanups.
DisposeCloses_Hastily ==
    /\ dispose = "closing" /\ \A s \in Sessions : call[s, "dispose"] \in {"idle", "done"}
    /\ dispose' = "done"
    /\ UNCHANGED <<registry, launches, call, awaits, cleanup, asking, left, history>>

\* One map of jobs for all sessions.
CancelTracked_OfAll(t, s) ==
    /\ asking' = [asking EXCEPT ![t] = jobs]
    /\ requested' = requested \cup jobs /\ jobs' = {}

-----------------------------------------------------------------------------
\* Launches: executeLaunch, ensureVersion.

\* The permission dialogue opens ...
AskPermission(l) ==
    /\ stage[l] = "idle" /\ stage' = [stage EXCEPT ![l] = "asked"]
    /\ UNCHANGED <<registry, handshake, stop, closes, history>>

\* ... and is answered: refused, or too late, or the launch is registered and
\* joins the handshake or starts one.
Refused(l) == "user" \in stop[l] \/ disposed \/ Owner[l] \in closed \/ Owner[l] \in closing

DropLaunch(l) ==
    /\ stage[l] = "asked" /\ stage' = [stage EXCEPT ![l] = "done"]
    /\ UNCHANGED <<registry, handshake, stop, closes, history>>

BeginLaunch(l) ==
    /\ stage[l] = "asked" /\ ~Refused(l)
    /\ known' = known \cup {Owner[l]} /\ pending' = pending \cup {l}
    /\ handshake' = IF handshake = "none" THEN "pending" ELSE handshake
    /\ stage' = [stage EXCEPT ![l] = "version"]
    /\ UNCHANGED <<closed, disposed, closing, jobs, stop, closes, history>>

\* A failed handshake fails all who waited for it and is forgotten.
HandshakeEnds ==
    /\ handshake = "pending"
    /\ \/ handshake' = "ok" /\ UNCHANGED <<stage, pending>>
       \/ handshake' = "none" /\ Finish({l \in Launches : stage[l] = "version"})
    /\ UNCHANGED <<closed, disposed, known, closing, jobs, stop, closes, history>>

\* The request goes out unless it was aborted meanwhile.
SendRequest(l) ==
    /\ stage[l] = "version" /\ handshake = "ok"
    /\ \/ /\ stop[l] = {} /\ stage' = [stage EXCEPT ![l] = "running"]
          /\ UNCHANGED pending
       \/ stop[l] # {} /\ Finish({l})
    /\ UNCHANGED <<closed, disposed, known, closing, jobs, handshake, stop, closes, history>>

\* The program ends, killed by the abort or not, and may have reported a job;
\* a call the user aborted cancels its job before it finishes.
Answer(l) ==
    /\ stage[l] = "running"
    /\ \/ Finish({l}) /\ UNCHANGED <<jobs, asking, history>>
       \/ /\ jobs' = jobs \cup {l} /\ reported' = reported \cup {l}
          /\ \/ /\ "user" \notin stop[l] /\ Finish({l})
                /\ UNCHANGED <<asking, requested>>
             \/ /\ "user" \in stop[l]
                /\ stage' = [stage EXCEPT ![l] = "cancelling"]
                /\ asking' = [asking EXCEPT ![l] = {l}] /\ requested' = requested \cup {l}
                /\ UNCHANGED pending
    /\ UNCHANGED <<closed, disposed, known, closing, handshake, stop, call, awaits, cleanup,
                   dispose, left>>

FinishCancelled(l) ==
    /\ stage[l] = "cancelling" /\ asking[l] = {} /\ Finish({l})
    /\ UNCHANGED <<closed, disposed, known, closing, jobs, handshake, stop, closes, history>>

UserAborts(l) ==
    /\ l \in Impatient /\ stage[l] \notin {"idle", "done"}
    /\ stop' = [stop EXCEPT ![l] = @ \cup {"user"}]
    /\ UNCHANGED <<registry, handshake, stage, closes, history>>

\* cancelTrackedJob is done, whether the request succeeded or not.
CancelEnds(t, l) ==
    /\ l \in asking[t] /\ asking' = [asking EXCEPT ![t] = @ \ {l}]
    /\ UNCHANGED <<registry, launches, call, awaits, cleanup, dispose, left, history>>

-----------------------------------------------------------------------------
\* Closing a session: close.

\* cancelTrackedJobs: what is recorded is taken out and cancelled.
CancelTracked(t, s) ==
    /\ asking' = [asking EXCEPT ![t] = Of(s, jobs)]
    /\ requested' = requested \cup Of(s, jobs)
    /\ jobs' = jobs \ Of(s, jobs)

\* The runs that are aborted and awaited, the starts left to a cleanup.
Awaited(k) == Of(SessionOf(k), pending) \cap Runs
Deferred(k) == Of(SessionOf(k), pending) \ Runs

\* Up to the first await, for all the given calls.
BeginClose(calls) ==
    LET found == {k \in calls : SessionOf(k) \in known} IN
    /\ closed' = closed \cup {SessionOf(k) : k \in calls}
    /\ closing' = closing \cup {SessionOf(k) : k \in found}
    /\ stop' = [l \in Launches |->
                  IF \E k \in found : l \in Awaited(k) THEN stop[l] \cup {"session"} ELSE stop[l]]
    /\ awaits' = [k \in Closers |-> IF k \in found THEN Awaited(k) ELSE awaits[k]]
    /\ cleanup' = [c \in Cleanups |->
                  IF c[1] \in found /\ c[2] \in Deferred(c[1]) THEN "waiting" ELSE cleanup[c]]
    /\ call' = [k \in Closers |->
                  IF k \in found THEN "aborting" ELSE IF k \in calls THEN "done" ELSE call[k]]

SessionDeleted(s) ==
    /\ s \in Deletable /\ call[s, "event"] = "idle" /\ BeginClose({<<s, "event">>})
    /\ UNCHANGED <<disposed, known, pending, jobs, handshake, stage, asking, dispose, left, history>>

CloseCancels(k) ==
    /\ call[k] = "aborting" /\ \A l \in awaits[k] : stage[l] = "done"
    /\ CancelTracked(k, SessionOf(k)) /\ call' = [call EXCEPT ![k] = "cancelling"]
    /\ awaits' = [awaits EXCEPT ![k] = {}]
    /\ UNCHANGED <<closed, disposed, known, closing, pending, launches, cleanup, dispose, left,
                   reported>>

CloseEnds(k) ==
    /\ call[k] = "cancelling" /\ asking[k] = {}
    /\ known' = known \ {SessionOf(k)} /\ call' = [call EXCEPT ![k] = "done"]
    /\ UNCHANGED <<closed, disposed, closing, pending, jobs, launches, awaits, cleanup, asking,
                   dispose, left, history>>

\* The cleanup of a start that was pending, once it has completed.
CleanupCancels(c) ==
    /\ cleanup[c] = "waiting" /\ stage[c[2]] = "done"
    /\ CancelTracked(c, SessionOf(c[1])) /\ cleanup' = [cleanup EXCEPT ![c] = "cancelling"]
    /\ UNCHANGED <<closed, disposed, known, closing, pending, launches, call, awaits, dispose, left,
                   reported>>

CleanupEnds(c) ==
    /\ cleanup[c] = "cancelling" /\ asking[c] = {}
    /\ cleanup' = [cleanup EXCEPT ![c] = "done"]
    /\ UNCHANGED <<registry, launches, call, awaits, asking, dispose, left, history>>

-----------------------------------------------------------------------------
\* Disposing of the plugin: all sessions are closed, then all cleanups awaited.

Dispose ==
    /\ dispose = "idle" /\ dispose' = "closing" /\ disposed' = TRUE
    /\ BeginClose(known \X {"dispose"})
    /\ UNCHANGED <<known, pending, jobs, handshake, stage, asking, left, history>>

DisposeCloses ==
    /\ dispose = "closing" /\ \A s \in Sessions : call[s, "dispose"] \in {"idle", "done"}
    /\ dispose' = "cleaning" /\ left' = {c \in Cleanups : cleanup[c] \in {"waiting", "cancelling"}}
    /\ UNCHANGED <<registry, launches, call, awaits, cleanup, asking, history>>

DisposeEnds ==
    /\ dispose = "cleaning" /\ \A c \in left : cleanup[c] = "done"
    /\ dispose' = "done"
    /\ UNCHANGED <<registry, launches, call, awaits, cleanup, asking, left, history>>

\* What goes on by itself; a run ends, at the latest when its observation does,
\* while a start may never answer.
Proceed ==
    \/ HandshakeEnds \/ DisposeCloses \/ DisposeEnds
    \/ \E l \in Launches : SendRequest(l) \/ FinishCancelled(l) \/ (l \in Runs /\ Answer(l))
    \/ \E t \in Tasks, l \in Launches : CancelEnds(t, l)
    \/ \E k \in Closers : CloseCancels(k) \/ CloseEnds(k)
    \/ \E c \in Cleanups : CleanupCancels(c) \/ CleanupEnds(c)

Next ==
    \/ Proceed \/ Dispose
    \/ \E s \in Sessions : SessionDeleted(s)
    \/ \E l \in Launches :
          AskPermission(l) \/ DropLaunch(l) \/ BeginLaunch(l) \/ Answer(l) \/ UserAborts(l)

Spec == Init /\ [][Next]_vars
FairSpec == Spec /\ WF_vars(Proceed)

-----------------------------------------------------------------------------
\* Properties.

TypeOK ==
    /\ closed \subseteq Sessions /\ disposed \in BOOLEAN
    /\ known \subseteq Sessions /\ closing \subseteq Sessions
    /\ pending \subseteq Launches /\ jobs \subseteq Launches
    /\ handshake \in {"none", "pending", "ok"}
    /\ stage \in [Launches -> {"idle", "asked", "version", "running", "cancelling", "done"}]
    /\ stop \in [Launches -> SUBSET {"user", "session"}]
    /\ call \in [Closers -> {"idle", "aborting", "cancelling", "done"}]
    /\ awaits \in [Closers -> SUBSET Launches]
    /\ cleanup \in [Cleanups -> {"none", "waiting", "cancelling", "done"}]
    /\ asking \in [Tasks -> SUBSET Launches]
    /\ dispose \in {"idle", "closing", "cleaning", "done"} /\ left \subseteq Cleanups
    /\ reported \subseteq Launches /\ requested \subseteq Launches

\* Deleting a session cancels only that session's jobs; a job of a living
\* session is cancelled only if the user aborted the call that launched it
\* (the test "session.deleted cancels only jobs tracked for that session").
OnlyOwnJobs == \A l \in requested : Owner[l] \in closed \/ "user" \in stop[l]

\* When dispose has returned no launch is in flight, and every job that was
\* reported has been asked to stop; only a request that an earlier deletion
\* of its session, or an aborting user, sent may still be under way (the test
\* "dispose waits for an in-flight start job to be cancelled").
DisposeIsComplete ==
    dispose = "done" =>
        /\ pending = {} /\ reported \subseteq requested
        /\ \A s \in Sessions : asking[s, "dispose"] = {}
        /\ \A c \in Cleanups : asking[c] = {}

\* Every job reported by a launch of a deleted session is asked to stop, also
\* when it is reported long after the deletion.
Neglected == {l \in reported \ requested : Owner[l] \in closed}
DeletedSessionsJobsCancelled == Neglected # {} ~> Neglected = {}

\* Closing returns although a start that was pending never answers (the test
\* "session.deleted returns before an in-flight start ...").
Underway == {k \in Closers : call[k] \in {"aborting", "cancelling"}}
CloseReturns == Underway # {} ~> Underway = {}

-----------------------------------------------------------------------------
\* Why the properties hold: the invariant that every step preserves.

\* Who is pending is on its way, who cancels is closing, and a job that was
\* not asked to stop is recorded.
Booked ==
    /\ \A l \in Launches : l \in pending <=> stage[l] \in {"version", "running", "cancelling"}
    /\ \A k \in Closers : call[k] # "idle" => SessionOf(k) \in closed
    /\ \A c \in Cleanups : cleanup[c] # "none" => call[c[1]] # "idle"
    /\ \A k \in Closers : asking[k] # {} => call[k] = "cancelling"
    /\ \A c \in Cleanups : asking[c] # {} => cleanup[c] = "cancelling"
    /\ reported \ requested \subseteq jobs
    /\ disposed <=> dispose # "idle"
    /\ ~disposed => \A s \in Sessions : call[<<s, "dispose">>] = "idle"

\* A session that is closing, or gone from the map, leaves no run behind that
\* is not awaited, and no start or job that no cleanup will come for.
RunsCovered ==
    /\ \A l \in pending \cap Runs : Owner[l] \in known
    /\ \A k \in Closers, l \in pending \cap Runs : Owner[l] = SessionOf(k) =>
          call[k] = "idle" \/ (call[k] = "aborting" /\ l \in awaits[k])

StartsCovered ==
    /\ \A l \in pending \ Runs : Owner[l] \in known \/ \E k \in Closers :
          SessionOf(k) = Owner[l] /\ cleanup[<<k, l>>] = "waiting"
    /\ \A k \in Closers, l \in pending \ Runs :
          Owner[l] = SessionOf(k) /\ call[k] \in {"aborting", "cancelling"} =>
             cleanup[<<k, l>>] = "waiting"

Expects(s) == \E c \in Cleanups : SessionOf(c[1]) = s /\ cleanup[c] = "waiting"
JobsCovered ==
    /\ \A l \in jobs : Owner[l] \in known \/ Expects(Owner[l])
    /\ \A k \in Closers, l \in jobs :
          Owner[l] = SessionOf(k) /\ call[k] = "cancelling" => Expects(Owner[l])

Covered == RunsCovered /\ StartsCovered /\ JobsCovered

\* Once disposed, every session still in the map is being closed, and what is
\* still to come is waited for.
Disposing ==
    /\ disposed => \A s \in known : call[<<s, "dispose">>] \in {"aborting", "cancelling"}
    /\ dispose \in {"cleaning", "done"} =>
          /\ \A s \in Sessions : call[<<s, "dispose">>] \in {"idle", "done"}
          /\ \A c \in Cleanups : cleanup[c] \in {"waiting", "cancelling"} => c \in left
    /\ dispose = "done" => \A c \in left : cleanup[c] = "done"

IInv == TypeOK /\ OnlyOwnJobs /\ Booked /\ Covered /\ Disposing

=============================================================================
