----------------------------- MODULE MCJobStore -----------------------------
(***************************************************************************)
(* Instances of JobStore for TLC: two clients of one workspace, acting for  *)
(* the session that owns the job or for an observer, and the commands each  *)
(* may issue, over and over, in each run.                                   *)
(***************************************************************************)
EXTENDS JobStore, TLC

CONSTANTS c1, c2, owner, observer

SameSession == c1 :> owner @@ c2 :> owner
TwoSessions == c1 :> owner @@ c2 :> observer

TwoWaiters == c1 :> {"wait"} @@ c2 :> {"wait"}
CancelAndAny == c1 :> {"cancel"} @@ c2 :> {"cancel", "status", "wait"}
CancelAndPoll == c1 :> {"cancel"} @@ c2 :> {"status"}
PollAndCancel == c1 :> {"status"} @@ c2 :> {"cancel"}
RemoveAndCancel == c1 :> {"remove"} @@ c2 :> {"remove", "cancel"}
CancelAndWait == c1 :> {"cancel"} @@ c2 :> {"wait"}
=============================================================================
