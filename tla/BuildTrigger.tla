---------------------------- MODULE BuildTrigger ----------------------------
(***************************************************************************)
(* What a build server that builds on notifications promises, without      *)
(* threads, coroutines, connections or files: a notification is owed a     *)
(* build that starts later, notifications that arrive before that start    *)
(* share it, builds do not overlap, every build ends with a result, and a  *)
(* success is about a revision that was pushed, but not before the newest  *)
(* one that was there when the build started.                              *)
(***************************************************************************)
EXTENDS Naturals

VARIABLES
    head,         \* the newest revision of the repository
    owed,         \* a notification was accepted and no build started since
    building,     \* a build is under way
    attempted,    \* the newest revision when the last build started
    result,       \* how the last build ended
    verified,     \* the revision of the last build that succeeded
    up            \* the server has not stopped

triggerVars == <<head, owed, building, attempted, result, verified, up>>

TriggerInit ==
    /\ head = 1
    /\ owed = FALSE
    /\ building = FALSE
    /\ attempted = 0
    /\ result = "not built"
    /\ verified = 0
    /\ up = TRUE

(* The repository is somebody else's.                                       *)
Commit ==
    /\ head' = head + 1
    /\ UNCHANGED <<owed, building, attempted, result, verified, up>>

Notify ==
    /\ up
    /\ owed' = TRUE
    /\ UNCHANGED <<head, building, attempted, result, verified, up>>

Start ==
    /\ up
    /\ owed
    /\ ~building
    /\ owed' = FALSE
    /\ building' = TRUE
    /\ attempted' = head
    /\ UNCHANGED <<head, result, verified, up>>

Succeed ==
    /\ up
    /\ building
    /\ building' = FALSE
    /\ result' = "success"
    /\ verified' \in attempted .. head
    /\ UNCHANGED <<head, owed, attempted, up>>

Fail ==
    /\ up
    /\ building
    /\ building' = FALSE
    /\ result' = "failure"
    /\ UNCHANGED <<head, owed, attempted, verified, up>>

Stop ==
    /\ up
    /\ up' = FALSE
    /\ UNCHANGED <<head, owed, building, attempted, result, verified>>

Finish == Succeed \/ Fail

TriggerNext == Commit \/ Notify \/ Start \/ Finish \/ Stop

TriggerSafety == TriggerInit /\ [][TriggerNext]_triggerVars

(* An owed build starts and a started build ends, unless the server stops.  *)
TriggerSpec ==
    /\ TriggerSafety
    /\ WF_triggerVars(Start)
    /\ WF_triggerVars(Finish)

===========================================================================
