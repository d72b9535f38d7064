------------------------ MODULE SessionRegistryProofs ------------------------
(***************************************************************************)
(* Proofs about SessionRegistry, for any sessions and launches.  The parts  *)
(* of the invariant build on each other: who is at which await (Booked),    *)
(* that every pending launch and recorded job has somebody who will see to  *)
(* it (Covered), and that dispose waits for all of those (Disposing).       *)
(***************************************************************************)
EXTENDS SessionRegistry, TLAPS

\* What calls of close and cleanups are made of.
LEMMA Pairs ==
  /\ \A k \in Closers : k = <<k[1], k[2]>> /\ k[1] \in Sessions /\ k[2] \in {"event", "dispose"}
  /\ \A c \in Cleanups : c = <<c[1], c[2]>> /\ c[1] \in Closers /\ c[2] \in Launches \ Runs
  /\ \A s \in Sessions : <<s, "event">> \in Closers /\ <<s, "dispose">> \in Closers
  /\ \A k \in Closers, l \in Launches \ Runs : <<k, l>> \in Cleanups
BY DEF Closers, Cleanups

-----------------------------------------------------------------------------
\* Types.

\* Beginning to close keeps the types.
LEMMA CloseTypes ==
  ASSUME TypeOK, NEW calls \in SUBSET Closers, BeginClose(calls)
  PROVE  /\ closed' \subseteq Sessions /\ closing' \subseteq Sessions
         /\ stop' \in [Launches -> SUBSET {"user", "session"}]
         /\ awaits' \in [Closers -> SUBSET Launches]
         /\ cleanup' \in [Cleanups -> {"none", "waiting", "cancelling", "done"}]
         /\ call' \in [Closers -> {"idle", "aborting", "cancelling", "done"}]
<1> DEFINE found == {k \in calls : SessionOf(k) \in known}
<1>1. closed' \subseteq Sessions /\ closing' \subseteq Sessions
  BY Pairs DEF BeginClose, TypeOK, SessionOf
<1>2. stop' \in [Launches -> SUBSET {"user", "session"}]
  BY DEF BeginClose, TypeOK
<1>3. awaits' \in [Closers -> SUBSET Launches]
  BY DEF BeginClose, TypeOK, Awaited, Of
<1>4. cleanup' \in [Cleanups -> {"none", "waiting", "cancelling", "done"}]
  BY DEF BeginClose, TypeOK
<1>5. call' \in [Closers -> {"idle", "aborting", "cancelling", "done"}]
  BY DEF BeginClose, TypeOK
<1> QED BY <1>1, <1>2, <1>3, <1>4, <1>5

\* Every step keeps the types.
LEMMA TypeNext ==
  ASSUME TypeOK, Next
  PROVE  TypeOK'
<1> USE RegistryAssumption DEF registry, launches, closes, history
<1>1. CASE HandshakeEnds
  BY <1>1 DEF TypeOK, HandshakeEnds, Finish
<1>2. CASE DisposeCloses
  BY <1>2 DEF TypeOK, DisposeCloses
<1>3. CASE DisposeEnds
  BY <1>3 DEF TypeOK, DisposeEnds
<1>4. CASE Dispose
  <2>1. known \X {"dispose"} \in SUBSET Closers
    BY DEF TypeOK, Closers
  <2> QED BY <1>4, <2>1, CloseTypes DEF TypeOK, Dispose
<1>5. ASSUME NEW l \in Launches, SendRequest(l) PROVE TypeOK'
  BY <1>5 DEF TypeOK, SendRequest, Finish
<1>6. ASSUME NEW l \in Launches, FinishCancelled(l) PROVE TypeOK'
  BY <1>6 DEF TypeOK, FinishCancelled, Finish
<1>7. ASSUME NEW l \in Launches, Answer(l) PROVE TypeOK'
  BY <1>7 DEF TypeOK, Answer, Finish, Tasks
<1>8. ASSUME NEW t \in Tasks, NEW l \in Launches, CancelEnds(t, l) PROVE TypeOK'
  BY <1>8 DEF TypeOK, CancelEnds
<1>9. ASSUME NEW k \in Closers, CloseCancels(k) PROVE TypeOK'
  BY <1>9 DEF TypeOK, CloseCancels, CancelTracked, Of
<1>10. ASSUME NEW k \in Closers, CloseEnds(k) PROVE TypeOK'
  BY <1>10 DEF TypeOK, CloseEnds
<1>11. ASSUME NEW c \in Cleanups, CleanupCancels(c) PROVE TypeOK'
  BY <1>11 DEF TypeOK, CleanupCancels, CancelTracked, Of
<1>12. ASSUME NEW c \in Cleanups, CleanupEnds(c) PROVE TypeOK'
  BY <1>12 DEF TypeOK, CleanupEnds
<1>13. ASSUME NEW s \in Sessions, SessionDeleted(s) PROVE TypeOK'
  <2>1. {<<s, "event">>} \in SUBSET Closers
    BY DEF Closers
  <2> QED BY <1>13, <2>1, CloseTypes DEF TypeOK, SessionDeleted
<1>14. ASSUME NEW l \in Launches, AskPermission(l) PROVE TypeOK'
  BY <1>14 DEF TypeOK, AskPermission
<1>15. ASSUME NEW l \in Launches, DropLaunch(l) PROVE TypeOK'
  BY <1>15 DEF TypeOK, DropLaunch
<1>16. ASSUME NEW l \in Launches, BeginLaunch(l) PROVE TypeOK'
  BY <1>16 DEF TypeOK, BeginLaunch, Refused
<1>17. ASSUME NEW l \in Launches, UserAborts(l) PROVE TypeOK'
  BY <1>17 DEF TypeOK, UserAborts
<1> QED BY <1>1, <1>2, <1>3, <1>4, <1>5, <1>6, <1>7, <1>8, <1>9, <1>10, <1>11, <1>12, <1>13, <1>14,
    <1>15, <1>16, <1>17
   DEF Next, Proceed
-----------------------------------------------------------------------------
\* Whose jobs are asked to stop.

\* Every step asks only the jobs it may.
LEMMA OwnNext ==
  ASSUME TypeOK, Booked, OnlyOwnJobs, Next
  PROVE  OnlyOwnJobs'
<1> USE DEF registry, launches, closes, history
<1>1. CASE HandshakeEnds
  BY <1>1 DEF OnlyOwnJobs, TypeOK, HandshakeEnds, Finish
<1>2. CASE DisposeCloses
  BY <1>2 DEF OnlyOwnJobs, TypeOK, DisposeCloses
<1>3. CASE DisposeEnds
  BY <1>3 DEF OnlyOwnJobs, TypeOK, DisposeEnds
<1>4. CASE Dispose
  BY <1>4 DEF OnlyOwnJobs, TypeOK, Dispose, BeginClose
<1>5. ASSUME NEW l \in Launches, SendRequest(l) PROVE OnlyOwnJobs'
  BY <1>5 DEF OnlyOwnJobs, TypeOK, SendRequest, Finish
<1>6. ASSUME NEW l \in Launches, FinishCancelled(l) PROVE OnlyOwnJobs'
  BY <1>6 DEF OnlyOwnJobs, TypeOK, FinishCancelled, Finish
<1>7. ASSUME NEW l \in Launches, Answer(l) PROVE OnlyOwnJobs'
  BY <1>7 DEF OnlyOwnJobs, TypeOK, Answer, Finish
<1>8. ASSUME NEW t \in Tasks, NEW l \in Launches, CancelEnds(t, l) PROVE OnlyOwnJobs'
  BY <1>8 DEF OnlyOwnJobs, TypeOK, CancelEnds
<1>9. ASSUME NEW k \in Closers, CloseCancels(k) PROVE OnlyOwnJobs'
  BY <1>9, Pairs DEF OnlyOwnJobs, TypeOK, CloseCancels, CancelTracked, Of, Booked
<1>10. ASSUME NEW k \in Closers, CloseEnds(k) PROVE OnlyOwnJobs'
  BY <1>10 DEF OnlyOwnJobs, TypeOK, CloseEnds
<1>11. ASSUME NEW c \in Cleanups, CleanupCancels(c) PROVE OnlyOwnJobs'
  BY <1>11, Pairs DEF OnlyOwnJobs, TypeOK, CleanupCancels, CancelTracked, Of, Booked
<1>12. ASSUME NEW c \in Cleanups, CleanupEnds(c) PROVE OnlyOwnJobs'
  BY <1>12 DEF OnlyOwnJobs, TypeOK, CleanupEnds
<1>13. ASSUME NEW s \in Sessions, SessionDeleted(s) PROVE OnlyOwnJobs'
  BY <1>13 DEF OnlyOwnJobs, TypeOK, SessionDeleted, BeginClose
<1>14. ASSUME NEW l \in Launches, AskPermission(l) PROVE OnlyOwnJobs'
  BY <1>14 DEF OnlyOwnJobs, TypeOK, AskPermission
<1>15. ASSUME NEW l \in Launches, DropLaunch(l) PROVE OnlyOwnJobs'
  BY <1>15 DEF OnlyOwnJobs, TypeOK, DropLaunch
<1>16. ASSUME NEW l \in Launches, BeginLaunch(l) PROVE OnlyOwnJobs'
  BY <1>16 DEF OnlyOwnJobs, TypeOK, BeginLaunch, Refused
<1>17. ASSUME NEW l \in Launches, UserAborts(l) PROVE OnlyOwnJobs'
  BY <1>17 DEF OnlyOwnJobs, TypeOK, UserAborts
<1> QED BY <1>1, <1>2, <1>3, <1>4, <1>5, <1>6, <1>7, <1>8, <1>9, <1>10, <1>11, <1>12, <1>13, <1>14,
    <1>15, <1>16, <1>17
   DEF Next, Proceed
-----------------------------------------------------------------------------
\* Who is where.

\* Every step keeps the books.
LEMMA BookedNext ==
  ASSUME TypeOK, Booked, Disposing, Next
  PROVE  Booked'
<1> USE DEF registry, launches, closes, history
<1>1. CASE HandshakeEnds
  BY <1>1 DEF Booked, TypeOK, HandshakeEnds, Finish
<1>2. CASE DisposeCloses
  BY <1>2 DEF Booked, TypeOK, DisposeCloses
<1>3. CASE DisposeEnds
  BY <1>3 DEF Booked, TypeOK, DisposeEnds
<1>4. CASE Dispose
  BY <1>4, Pairs, TasksAssumption DEF Booked, TypeOK, Dispose, BeginClose, Awaited, Deferred, Of
<1>5. ASSUME NEW l \in Launches, SendRequest(l) PROVE Booked'
  BY <1>5 DEF Booked, TypeOK, SendRequest, Finish
<1>6. ASSUME NEW l \in Launches, FinishCancelled(l) PROVE Booked'
  BY <1>6 DEF Booked, TypeOK, FinishCancelled, Finish
<1>7. ASSUME NEW l \in Launches, Answer(l) PROVE Booked'
  BY <1>7, Pairs, TasksAssumption DEF Booked, TypeOK, Answer, Finish, Tasks
<1>8. ASSUME NEW t \in Tasks, NEW l \in Launches, CancelEnds(t, l) PROVE Booked'
  BY <1>8, Pairs, TasksAssumption DEF Booked, TypeOK, CancelEnds, Tasks
<1>9. ASSUME NEW k \in Closers, CloseCancels(k) PROVE Booked'
  BY <1>9, Pairs, TasksAssumption DEF Booked, TypeOK, CloseCancels, CancelTracked, Of, Tasks
<1>10. ASSUME NEW k \in Closers, CloseEnds(k) PROVE Booked'
  BY <1>10 DEF Booked, TypeOK, CloseEnds
<1>11. ASSUME NEW c \in Cleanups, CleanupCancels(c) PROVE Booked'
  BY <1>11, Pairs, TasksAssumption DEF Booked, TypeOK, CleanupCancels, CancelTracked, Of, Tasks
<1>12. ASSUME NEW c \in Cleanups, CleanupEnds(c) PROVE Booked'
  BY <1>12 DEF Booked, TypeOK, CleanupEnds
<1>13. ASSUME NEW s \in Sessions, SessionDeleted(s) PROVE Booked'
  <2>1. /\ UNCHANGED <<pending, stage, asking, reported, requested, jobs, disposed, dispose>>
        /\ closed' = closed \cup {SessionOf(k) : k \in {<<s, "event">>}}
    BY <1>13 DEF SessionDeleted, BeginClose
  <2>2. \A k \in Closers : call'[k] # "idle" => SessionOf(k) \in closed'
    BY <1>13, Pairs DEF Booked, TypeOK, SessionDeleted, BeginClose
  <2>3. \A c \in Cleanups : cleanup'[c] # "none" => call'[c[1]] # "idle"
    BY <1>13, Pairs, TasksAssumption DEF Booked, TypeOK, SessionDeleted, BeginClose
  <2>4. \A k \in Closers : call[k] = "cancelling" => call'[k] = "cancelling"
    BY <1>13, Pairs DEF TypeOK, SessionDeleted, BeginClose
  <2>5. ASSUME NEW c \in Cleanups, cleanup[c] = "cancelling" PROVE cleanup'[c] = "cancelling"
    <3>1. call[c[1]] # "idle"
      BY <2>5 DEF Booked
    <3>2. c[1] # <<s, "event">>
      BY <1>13, <3>1 DEF SessionDeleted
    <3> QED BY <1>13, <2>5, <3>2 DEF SessionDeleted, BeginClose
  <2>6. ~disposed => \A r \in Sessions : call'[<<r, "dispose">>] = "idle"
    BY <1>13, Pairs DEF Booked, TypeOK, SessionDeleted, BeginClose
  <2> QED BY <2>1, <2>2, <2>3, <2>4, <2>5, <2>6 DEF Booked
<1>14. ASSUME NEW l \in Launches, AskPermission(l) PROVE Booked'
  BY <1>14 DEF Booked, TypeOK, AskPermission
<1>15. ASSUME NEW l \in Launches, DropLaunch(l) PROVE Booked'
  BY <1>15 DEF Booked, TypeOK, DropLaunch
<1>16. ASSUME NEW l \in Launches, BeginLaunch(l) PROVE Booked'
  BY <1>16 DEF Booked, TypeOK, BeginLaunch, Refused
<1>17. ASSUME NEW l \in Launches, UserAborts(l) PROVE Booked'
  BY <1>17 DEF Booked, TypeOK, UserAborts
<1> QED BY <1>1, <1>2, <1>3, <1>4, <1>5, <1>6, <1>7, <1>8, <1>9, <1>10, <1>11, <1>12, <1>13, <1>14,
    <1>15, <1>16, <1>17
   DEF Next, Proceed
-----------------------------------------------------------------------------
\* What is covered.

\* Nothing new to cover, and nobody who covers goes.
Quiet ==
    /\ pending' \subseteq pending /\ jobs' \subseteq jobs /\ known \subseteq known'
    /\ call' = call /\ awaits' = awaits
    /\ \A c \in Cleanups : cleanup[c] = "waiting" => cleanup'[c] = "waiting"

\* A cleanup that waits goes on waiting.
LEMMA StillExpects ==
  ASSUME NEW s, Expects(s), \A c \in Cleanups : cleanup[c] = "waiting" => cleanup'[c] = "waiting"
  PROVE  Expects(s)'
BY DEF Expects

\* A start that a cleanup waits for.
LEMMA StartIsExpected ==
  ASSUME NEW k \in Closers, NEW l \in Launches \ Runs, cleanup[<<k, l>>] = "waiting"
  PROVE  Expects(SessionOf(k))
<1>1. <<k, l>> \in Cleanups /\ <<k, l>>[1] = k
  BY Pairs
<1> QED BY <1>1 DEF Expects

\* A quiet step leaves all covered.
LEMMA QuietCovered ==
  ASSUME TypeOK, Covered, Quiet
  PROVE  Covered'
<1>1. RunsCovered'
  BY DEF Covered, RunsCovered, Quiet
<1>2. StartsCovered'
  BY Pairs DEF Covered, StartsCovered, Quiet, TypeOK
<1>3. JobsCovered'
  BY StillExpects DEF Covered, JobsCovered, Quiet
<1> QED BY <1>1, <1>2, <1>3 DEF Covered

\* A session that begins to close has its launches awaited or deferred.
LEMMA CloseCovered ==
  ASSUME TypeOK, Booked, Covered, NEW calls \in SUBSET Closers, BeginClose(calls),
         \A k \in calls : call[k] = "idle", UNCHANGED <<pending, jobs, known>>
  PROVE  Covered'
<1>c. ASSUME NEW k \in Closers
      PROVE /\ k \in calls /\ SessionOf(k) \in known =>
                  call'[k] = "aborting" /\ awaits'[k] = Awaited(k)
            /\ k \in calls /\ SessionOf(k) \notin known =>
                  call'[k] = "done" /\ awaits'[k] = awaits[k]
            /\ k \notin calls => call'[k] = call[k] /\ awaits'[k] = awaits[k]
  BY DEF BeginClose
<1>w. ASSUME NEW c \in Cleanups PROVE cleanup[c] = "waiting" => cleanup'[c] = "waiting"
  BY DEF BeginClose, TypeOK
<1>1. RunsCovered'
  BY <1>c DEF Covered, RunsCovered, Awaited, Of, TypeOK
<1>2. StartsCovered'
  <2>1. \A l \in pending \ Runs : Owner[l] \in known \/ \E k \in Closers :
          SessionOf(k) = Owner[l] /\ cleanup'[<<k, l>>] = "waiting"
    BY <1>w, Pairs DEF Covered, StartsCovered, TypeOK
  <2>2. ASSUME NEW k \in Closers, NEW l \in pending \ Runs, Owner[l] = SessionOf(k),
               call'[k] \in {"aborting", "cancelling"}
        PROVE  cleanup'[<<k, l>>] = "waiting"
    <3>1. <<k, l>> \in Cleanups /\ <<k, l>>[1] = k /\ <<k, l>>[2] = l
      BY Pairs DEF TypeOK
    <3>2. CASE k \notin calls
      BY <2>2, <3>1, <3>2, <1>c, <1>w DEF Covered, StartsCovered
    <3>3. CASE k \in calls /\ SessionOf(k) \in known
      <4>1. l \in Deferred(k)
        BY <2>2 DEF Deferred, Of, TypeOK
      <4> QED BY <3>1, <3>3, <4>1 DEF BeginClose
    <3> QED BY <2>2, <3>2, <3>3, <1>c
  <2> QED BY <2>1, <2>2 DEF StartsCovered
<1>3. JobsCovered'
  <2>1. \A s : Expects(s) => Expects(s)'
    BY <1>w, StillExpects
  <2> QED BY <2>1, <1>c DEF Covered, JobsCovered
<1> QED BY <1>1, <1>2, <1>3 DEF Covered

\* Every step leaves all covered.
LEMMA CoveredNext ==
  ASSUME TypeOK, Booked, Covered, Next
  PROVE  Covered'
<1> USE DEF registry, launches, closes, history
<1>1. CASE HandshakeEnds
  BY <1>1, QuietCovered DEF HandshakeEnds, Finish, Quiet
<1>2. CASE DisposeCloses
  BY <1>2, QuietCovered DEF DisposeCloses, Quiet
<1>3. CASE DisposeEnds
  BY <1>3, QuietCovered DEF DisposeEnds, Quiet
<1>4. CASE Dispose
  <2>1. known \X {"dispose"} \in SUBSET Closers /\ \A k \in known \X {"dispose"} : call[k] = "idle"
    BY <1>4 DEF Dispose, TypeOK, Closers, Booked
  <2> QED BY <1>4, <2>1, CloseCovered DEF Dispose
<1>5. ASSUME NEW l \in Launches, SendRequest(l) PROVE Covered'
  BY <1>5, QuietCovered DEF SendRequest, Finish, Quiet
<1>6. ASSUME NEW l \in Launches, FinishCancelled(l) PROVE Covered'
  BY <1>6, QuietCovered DEF FinishCancelled, Finish, Quiet
<1>7. ASSUME NEW l \in Launches, Answer(l) PROVE Covered'
  <2>1. /\ pending' \subseteq pending /\ jobs' \subseteq jobs \cup {l} /\ l \in pending
        /\ UNCHANGED <<known, call, awaits, cleanup>>
    BY <1>7 DEF Answer, Finish, Booked
  <2>2. RunsCovered' /\ StartsCovered'
    BY <2>1 DEF Covered, RunsCovered, StartsCovered
  <2>3. ASSUME NEW s, Expects(s) PROVE Expects(s)'
    BY <2>1, <2>3, StillExpects
  <2>4. Owner[l] \in known \/ Expects(Owner[l])
    BY <2>1, StartIsExpected DEF Covered, RunsCovered, StartsCovered
  <2>5. ASSUME NEW k \in Closers, Owner[l] = SessionOf(k), call[k] = "cancelling"
        PROVE  Expects(Owner[l])
    BY <2>1, <2>5, StartIsExpected DEF Covered, RunsCovered, StartsCovered
  <2>6. JobsCovered'
    BY <2>1, <2>3, <2>4, <2>5 DEF Covered, JobsCovered
  <2> QED BY <2>2, <2>6 DEF Covered
<1>8. ASSUME NEW t \in Tasks, NEW l \in Launches, CancelEnds(t, l) PROVE Covered'
  BY <1>8, QuietCovered DEF CancelEnds, Quiet
<1>9. ASSUME NEW k \in Closers, CloseCancels(k) PROVE Covered'
  <2>1. /\ UNCHANGED <<pending, known, cleanup>> /\ jobs' = jobs \ Of(SessionOf(k), jobs)
        /\ call[k] = "aborting" /\ \A l \in awaits[k] : stage[l] = "done"
        /\ call'[k] = "cancelling"
        /\ \A j \in Closers \ {k} : call'[j] = call[j] /\ awaits'[j] = awaits[j]
    BY <1>9 DEF CloseCancels, CancelTracked, TypeOK
  <2>2. \A l \in pending \cap Runs : Owner[l] # SessionOf(k)
    BY <2>1 DEF Covered, RunsCovered, Booked, TypeOK
  <2>3. RunsCovered'
    BY <2>1, <2>2 DEF Covered, RunsCovered
  <2>4. StartsCovered'
    BY <2>1 DEF Covered, StartsCovered
  <2>5. \A s : Expects(s) => Expects(s)'
    BY <2>1, StillExpects
  <2>6. JobsCovered'
    BY <2>1, <2>5 DEF Covered, JobsCovered, Of
  <2> QED BY <2>3, <2>4, <2>6 DEF Covered
<1>10. ASSUME NEW k \in Closers, CloseEnds(k) PROVE Covered'
  <2>1. /\ UNCHANGED <<pending, jobs, cleanup, awaits>> /\ known' = known \ {SessionOf(k)}
        /\ call[k] = "cancelling" /\ call'[k] = "done"
        /\ \A j \in Closers \ {k} : call'[j] = call[j]
    BY <1>10 DEF CloseEnds, TypeOK
  <2>2. \A l \in pending \cap Runs : Owner[l] # SessionOf(k)
    BY <2>1 DEF Covered, RunsCovered
  <2>3. RunsCovered'
    BY <2>1, <2>2 DEF Covered, RunsCovered
  <2>4. StartsCovered'
    BY <2>1 DEF Covered, StartsCovered
  <2>5. \A s : Expects(s) => Expects(s)'
    BY <2>1, StillExpects
  <2>6. JobsCovered'
    BY <2>1, <2>5 DEF Covered, JobsCovered
  <2> QED BY <2>3, <2>4, <2>6 DEF Covered
<1>11. ASSUME NEW c \in Cleanups, CleanupCancels(c) PROVE Covered'
  <2>1. /\ UNCHANGED <<pending, known, call, awaits>>
        /\ jobs' = jobs \ Of(SessionOf(c[1]), jobs)
        /\ cleanup[c] = "waiting" /\ stage[c[2]] = "done"
        /\ \A d \in Cleanups \ {c} : cleanup'[d] = cleanup[d]
    BY <1>11 DEF CleanupCancels, CancelTracked, TypeOK
  <2>2. ASSUME NEW k \in Closers, NEW l \in pending \ Runs
        PROVE  cleanup'[<<k, l>>] = cleanup[<<k, l>>]
    <3>1. <<k, l>> \in Cleanups /\ <<k, l>>[2] = l /\ stage[l] # "done"
      BY Pairs DEF TypeOK, Booked
    <3> QED BY <2>1, <3>1
  <2>3. RunsCovered'
    BY <2>1 DEF Covered, RunsCovered
  <2>4. StartsCovered'
    BY <2>1, <2>2 DEF Covered, StartsCovered
  <2>5. \A s : s # SessionOf(c[1]) /\ Expects(s) => Expects(s)'
    BY <2>1 DEF Expects
  <2>6. JobsCovered'
    BY <2>1, <2>5 DEF Covered, JobsCovered, Of
  <2> QED BY <2>3, <2>4, <2>6 DEF Covered
<1>12. ASSUME NEW c \in Cleanups, CleanupEnds(c) PROVE Covered'
  BY <1>12, QuietCovered DEF CleanupEnds, Quiet, TypeOK
<1>13. ASSUME NEW s \in Sessions, SessionDeleted(s) PROVE Covered'
  <2>1. {<<s, "event">>} \in SUBSET Closers
    BY DEF Closers
  <2> QED BY <1>13, <2>1, CloseCovered DEF SessionDeleted
<1>14. ASSUME NEW l \in Launches, AskPermission(l) PROVE Covered'
  BY <1>14, QuietCovered DEF AskPermission, Quiet
<1>15. ASSUME NEW l \in Launches, DropLaunch(l) PROVE Covered'
  BY <1>15, QuietCovered DEF DropLaunch, Quiet
<1>16. ASSUME NEW l \in Launches, BeginLaunch(l) PROVE Covered'
  <2>1. /\ UNCHANGED <<jobs, call, awaits, cleanup>>
        /\ pending' = pending \cup {l} /\ known' = known \cup {Owner[l]} /\ Owner[l] \notin closed
    BY <1>16 DEF BeginLaunch, Refused
  <2>2. \A k \in Closers : Owner[l] = SessionOf(k) => call[k] = "idle"
    BY <2>1 DEF Booked
  <2>3. RunsCovered'
    BY <2>1, <2>2 DEF Covered, RunsCovered
  <2>4. StartsCovered'
    BY <2>1, <2>2 DEF Covered, StartsCovered
  <2>5. \A s : Expects(s) => Expects(s)'
    BY <2>1, StillExpects
  <2>6. JobsCovered'
    BY <2>1, <2>5 DEF Covered, JobsCovered
  <2> QED BY <2>3, <2>4, <2>6 DEF Covered
<1>17. ASSUME NEW l \in Launches, UserAborts(l) PROVE Covered'
  BY <1>17, QuietCovered DEF UserAborts, Quiet
<1> QED BY <1>1, <1>2, <1>3, <1>4, <1>5, <1>6, <1>7, <1>8, <1>9, <1>10, <1>11, <1>12, <1>13,
           <1>14, <1>15, <1>16, <1>17 DEF Next, Proceed
-----------------------------------------------------------------------------
\* What dispose waits for.

\* Every step leaves dispose its account of what is to come.
LEMMA DisposingNext ==
  ASSUME TypeOK, Booked, Disposing, Next
  PROVE  Disposing'
<1> USE DEF registry, launches, closes, history
<1>1. CASE HandshakeEnds
  BY <1>1, Pairs, RegistryAssumption, TasksAssumption
     DEF Disposing, Booked, TypeOK, SessionOf, HandshakeEnds, Finish
<1>2. CASE DisposeCloses
  BY <1>2, Pairs, RegistryAssumption, TasksAssumption
     DEF Disposing, Booked, TypeOK, SessionOf, DisposeCloses
<1>3. CASE DisposeEnds
  BY <1>3, Pairs, RegistryAssumption, TasksAssumption
     DEF Disposing, Booked, TypeOK, SessionOf, DisposeEnds
<1>4. CASE Dispose
  BY <1>4, Pairs, RegistryAssumption, TasksAssumption
     DEF Disposing, Booked, TypeOK, SessionOf, Dispose, BeginClose, Awaited, Deferred, Of
<1>5. ASSUME NEW l \in Launches, SendRequest(l) PROVE Disposing'
  BY <1>5, Pairs, RegistryAssumption, TasksAssumption
     DEF Disposing, Booked, TypeOK, SessionOf, SendRequest, Finish
<1>6. ASSUME NEW l \in Launches, FinishCancelled(l) PROVE Disposing'
  BY <1>6, Pairs, RegistryAssumption, TasksAssumption
     DEF Disposing, Booked, TypeOK, SessionOf, FinishCancelled, Finish
<1>7. ASSUME NEW l \in Launches, Answer(l) PROVE Disposing'
  BY <1>7, Pairs, RegistryAssumption, TasksAssumption
     DEF Disposing, Booked, TypeOK, SessionOf, Answer, Finish, Tasks
<1>8. ASSUME NEW t \in Tasks, NEW l \in Launches, CancelEnds(t, l) PROVE Disposing'
  BY <1>8, Pairs, RegistryAssumption, TasksAssumption
     DEF Disposing, Booked, TypeOK, SessionOf, CancelEnds, Tasks
<1>9. ASSUME NEW k \in Closers, CloseCancels(k) PROVE Disposing'
  BY <1>9, Pairs, RegistryAssumption, TasksAssumption
     DEF Disposing, Booked, TypeOK, SessionOf, CloseCancels, CancelTracked, Of, Tasks
<1>10. ASSUME NEW k \in Closers, CloseEnds(k) PROVE Disposing'
  BY <1>10, Pairs, RegistryAssumption, TasksAssumption
     DEF Disposing, Booked, TypeOK, SessionOf, CloseEnds
<1>11. ASSUME NEW c \in Cleanups, CleanupCancels(c) PROVE Disposing'
  BY <1>11, Pairs, RegistryAssumption, TasksAssumption
     DEF Disposing, Booked, TypeOK, SessionOf, CleanupCancels, CancelTracked, Of, Tasks
<1>12. ASSUME NEW c \in Cleanups, CleanupEnds(c) PROVE Disposing'
  BY <1>12, Pairs, RegistryAssumption, TasksAssumption
     DEF Disposing, Booked, TypeOK, SessionOf, CleanupEnds
<1>13. ASSUME NEW s \in Sessions, SessionDeleted(s) PROVE Disposing'
  <2>1. /\ BeginClose({<<s, "event">>}) /\ UNCHANGED <<disposed, known, dispose, left>>
    BY <1>13 DEF SessionDeleted
  <2>2. \A r \in Sessions : call'[<<r, "dispose">>] = call[<<r, "dispose">>]
    <3>1. ASSUME NEW r \in Sessions
          PROVE  <<r, "dispose">> \in Closers /\ <<r, "dispose">> \notin {<<s, "event">>}
      BY Pairs
    <3> QED BY <2>1, <3>1 DEF BeginClose
  <2>3. ASSUME dispose \in {"cleaning", "done"} PROVE cleanup' = cleanup
    <3>1. known = {}
      BY <2>3 DEF Disposing, Booked, TypeOK
    <3>2. \A k \in Closers : SessionOf(k) \notin known
      BY <3>1
    <3>3. ASSUME NEW c \in Cleanups PROVE cleanup'[c] = cleanup[c]
      BY <2>1, <3>1 DEF BeginClose
    <3>4. cleanup' = [c \in Cleanups |-> cleanup'[c]]
      BY <2>1 DEF BeginClose
    <3> QED BY <3>3, <3>4 DEF TypeOK
  <2>4. known \subseteq Sessions
    BY DEF TypeOK
  <2>5. disposed => \A r \in known' : call'[<<r, "dispose">>] \in {"aborting", "cancelling"}
    BY <2>1, <2>2, <2>4 DEF Disposing
  <2>6. dispose \in {"cleaning", "done"} =>
           /\ \A r \in Sessions : call'[<<r, "dispose">>] \in {"idle", "done"}
           /\ \A c \in Cleanups : cleanup'[c] \in {"waiting", "cancelling"} => c \in left
    BY <2>2, <2>3 DEF Disposing
  <2>7. dispose = "done" => \A c \in left : cleanup'[c] = "done"
    BY <2>3 DEF Disposing
  <2> QED BY <2>1, <2>5, <2>6, <2>7 DEF Disposing
<1>14. ASSUME NEW l \in Launches, AskPermission(l) PROVE Disposing'
  BY <1>14, Pairs, RegistryAssumption, TasksAssumption
     DEF Disposing, Booked, TypeOK, SessionOf, AskPermission
<1>15. ASSUME NEW l \in Launches, DropLaunch(l) PROVE Disposing'
  BY <1>15, Pairs, RegistryAssumption, TasksAssumption
     DEF Disposing, Booked, TypeOK, SessionOf, DropLaunch
<1>16. ASSUME NEW l \in Launches, BeginLaunch(l) PROVE Disposing'
  BY <1>16, Pairs, RegistryAssumption, TasksAssumption
     DEF Disposing, Booked, TypeOK, SessionOf, BeginLaunch, Refused
<1>17. ASSUME NEW l \in Launches, UserAborts(l) PROVE Disposing'
  BY <1>17, Pairs, RegistryAssumption, TasksAssumption
     DEF Disposing, Booked, TypeOK, SessionOf, UserAborts
<1> QED BY <1>1, <1>2, <1>3, <1>4, <1>5, <1>6, <1>7, <1>8, <1>9, <1>10, <1>11, <1>12, <1>13, <1>14,
    <1>15, <1>16, <1>17
   DEF Next, Proceed

\* The invariant holds initially.
LEMMA InvInit == Init => IInv
<1> SUFFICES ASSUME Init PROVE IInv
  OBVIOUS
<1>1. TypeOK
  BY DEF Init, TypeOK
<1>2. OnlyOwnJobs
  BY DEF Init, OnlyOwnJobs
<1>3. Booked
  BY Pairs DEF Init, Booked, Tasks
<1>4. Covered
  BY DEF Init, Covered, RunsCovered, StartsCovered, JobsCovered
<1>5. Disposing
  BY DEF Init, Disposing
<1> QED BY <1>1, <1>2, <1>3, <1>4, <1>5 DEF IInv

\* A stutter changes nothing of it.
LEMMA InvStutter == IInv /\ UNCHANGED vars => IInv'
<1> SUFFICES ASSUME IInv, UNCHANGED vars PROVE IInv'
  OBVIOUS
<1> USE DEF vars, registry, launches, closes, history, IInv
<1>1. TypeOK'
  BY DEF TypeOK
<1>2. OnlyOwnJobs'
  BY DEF OnlyOwnJobs
<1>3. Booked'
  BY DEF Booked
<1>4. Covered'
  BY QuietCovered DEF Quiet
<1>5. Disposing'
  BY DEF Disposing
<1> QED BY <1>1, <1>2, <1>3, <1>4, <1>5

-----------------------------------------------------------------------------
\* The theorems.

\* IInv, types included, holds in every reachable state.
THEOREM Inductive == Spec => []IInv
<1>1. IInv /\ [Next]_vars => IInv'
  BY InvStutter, TypeNext, OwnNext, BookedNext, CoveredNext, DisposingNext DEF IInv
<1> QED BY InvInit, <1>1, PTL DEF Spec

\* Closing a session asks no job of a living session to stop.
THEOREM OthersAreSpared == Spec => []OnlyOwnJobs
<1>1. IInv => OnlyOwnJobs
  BY DEF IInv
<1> QED BY Inductive, <1>1, PTL

\* When dispose has returned, no launch is in flight and no job forgotten.
THEOREM DisposeForgetsNothing == Spec => []DisposeIsComplete
<1>1. IInv => DisposeIsComplete
  <2> SUFFICES ASSUME IInv, dispose = "done" PROVE DisposeIsComplete
    BY DEF DisposeIsComplete
  <2>1. known = {} /\ \A c \in Cleanups : cleanup[c] \notin {"waiting", "cancelling"}
    BY DEF IInv, TypeOK, Booked, Disposing
  <2>2. pending = {}
    <3>1. ASSUME NEW l \in pending \cap Runs PROVE FALSE
      BY <2>1 DEF IInv, Covered, RunsCovered
    <3>2. ASSUME NEW l \in pending \ Runs PROVE FALSE
      <4>1. PICK k \in Closers : cleanup[<<k, l>>] = "waiting"
        BY <2>1 DEF IInv, Covered, StartsCovered
      <4>2. <<k, l>> \in Cleanups
        BY Pairs DEF IInv, TypeOK
      <4> QED BY <2>1, <4>1, <4>2
    <3> QED BY <3>1, <3>2
  <2>3. reported \subseteq requested
    BY <2>1 DEF IInv, Booked, Covered, JobsCovered, Expects
  <2>4. \A s \in Sessions : asking[<<s, "dispose">>] = {}
    BY Pairs DEF IInv, Booked, Disposing
  <2>5. \A c \in Cleanups : asking[c] = {}
    BY <2>1 DEF IInv, Booked
  <2> QED BY <2>2, <2>3, <2>4, <2>5 DEF DisposeIsComplete
<1> QED BY Inductive, <1>1, PTL

===============================================================================
