---------------------------- MODULE BuildServer ----------------------------
(***************************************************************************)
(* The build server: run_server of tyroxx-ci/tyroxx-ci.cpp and main of     *)
(* examples/build_on_push.cpp and examples/graph.cpp, which differ in the  *)
(* stages of a build and in whether a step waits for more than one         *)
(* notification.                                                           *)
(*                                                                         *)
(* Everything but the build threads runs on one thread, in coroutines.     *)
(* running says which code has that thread: main before io.run, the io     *)
(* loop, the coroutine of a client, or the coroutine of a step.  A step is *)
(* resumed by a plain function call (got_element) from main, from the io   *)
(* loop or from inside a client's handler, and gives the thread back to    *)
(* that caller when it suspends.                                           *)
(***************************************************************************)
EXTENDS SaturatingNotifier, Nanoweb, BuildPipeline

VARIABLES
    running,      \* the code that has the io thread
    caller,       \* who resumed the running step
    builder,      \* where the coroutine of each step is
    is_building,  \* is_building of each step's step_history
    last_result,  \* last_result of each step's step_history
    alive,        \* io.run() has not thrown
    promised,     \* ghost: newest revision when a client's notify was accepted
    attempted,    \* ghost: newest revision when the last build was started
    verified      \* ghost: revision of the last build that succeeded

historyVars == <<is_building, last_result>>
ioVars    == <<running, caller, builder, historyVars, alive>>
ghostVars == <<promised, attempted, verified>>
vars      == <<slot, webVars, buildVars, ioVars, ghostVars>>

Main   == "main"
IoLoop == "io_loop"

(* Clients are told apart from everything else that has the io thread.      *)
ASSUME ClientsAssumption ==
    Clients \cap ({Main, IoLoop, NoObserver, Notification} \cup Steps) = {}

(* The coroutine of graph.cpp runs in a loop.  In the other two programs it *)
(* ends after one build.                                                    *)
Repeats == Program = "graph"

BuilderStates == {"unspawned", "get_one", "waiting", "notified", "building",
                  "result", "recorded", "finished"}

(* The points at which a step's coroutine has the io thread.                *)
RunningStates == {"get_one", "notified", "result", "recorded"}

LastResults == {"not built", "success", "failure"}

Init ==
    /\ NotifierInit
    /\ WebInit
    /\ BuildInit
    /\ running = Main
    /\ caller = Main
    /\ builder = [s \in Steps |-> "unspawned"]
    /\ is_building = [s \in Steps |-> FALSE]
    /\ last_result = [s \in Steps |-> "not built"]
    /\ alive = TRUE
    /\ promised = [c \in Clients |-> 0]
    /\ attempted = 0
    /\ verified = 0

----------------------------------------------------------------------------
(* Control of the io thread.                                                *)

Goto(s, place) == builder' = [builder EXCEPT ![s] = place]

Resume(s, place) ==
    /\ running' = s
    /\ caller' = running
    /\ Goto(s, place)

(* Seeded fault: a suspended step gives the thread to the io loop, whoever  *)
(* resumed it.                                                              *)
Suspend_ToIoLoop(s, place) ==
    /\ running' = IoLoop
    /\ UNCHANGED caller
    /\ Goto(s, place)

Suspend(s, place) ==
    /\ running' = caller
    /\ UNCHANGED caller
    /\ Goto(s, place)

At(s, place) ==
    /\ running = s
    /\ builder[s] = place

----------------------------------------------------------------------------
(* main                                                                     *)

(* spawn_coroutine runs the step's coroutine up to its first suspension.    *)
SpawnStep(s) ==
    /\ running = Main
    /\ builder[s] = "unspawned"
    /\ Resume(s, "get_one")
    /\ UNCHANGED <<slot, webVars, buildVars, historyVars, alive, ghostVars>>

RunIo ==
    /\ running = Main
    /\ \A s \in Steps : builder[s] # "unspawned"
    /\ running' = IoLoop
    /\ UNCHANGED <<slot, webVars, buildVars, caller, builder, historyVars, alive, ghostVars>>

----------------------------------------------------------------------------
(* The coroutine of a step                                                  *)

(* yield.get_one(notifier) suspends until somebody notifies.                *)
GetOneWaits(s) ==
    /\ At(s, "get_one")
    /\ Register(s)
    /\ Suspend(s, "waiting")
    /\ UNCHANGED <<webVars, buildVars, historyVars, alive, ghostVars>>

(* Seeded fault: the pending notification is replaced by the observer.      *)
GetOneTakesPending_Waits(s) ==
    /\ At(s, "get_one")
    /\ slot = Notification
    /\ slot' = s
    /\ Suspend(s, "waiting")
    /\ UNCHANGED <<webVars, buildVars, historyVars, alive, ghostVars>>

(* yield.get_one(notifier) returns at once.                                 *)
GetOneTakesPending(s) ==
    /\ At(s, "get_one")
    /\ TakePending
    /\ Goto(s, "notified")
    /\ UNCHANGED <<webVars, buildVars, running, caller, historyVars, alive, ghostVars>>

(* Seeded fault: the step keeps the io thread while it builds.              *)
StartBuild_OnIoThread(s) ==
    /\ At(s, "notified")
    /\ is_building' = [is_building EXCEPT ![s] = TRUE]
    /\ StartThread(s)
    /\ attempted' = head
    /\ Goto(s, "building")
    /\ UNCHANGED <<slot, webVars, running, caller, last_result, alive, promised, verified>>

(* The step is marked as building, its thread is launched, and the          *)
(* coroutine suspends until the result is posted.                           *)
StartBuild(s) ==
    /\ At(s, "notified")
    /\ is_building' = [is_building EXCEPT ![s] = TRUE]
    /\ StartThread(s)
    /\ attempted' = head
    /\ Suspend(s, "building")
    /\ UNCHANGED <<slot, webVars, last_result, alive, promised, verified>>

(* Seeded fault: the build thread resumes the coroutine itself.             *)
DeliverResult_FromBuildThread(s) ==
    /\ builder[s] = "building"
    /\ outcome[s] # "none"
    /\ running' = s
    /\ caller' = IoLoop
    /\ Goto(s, "result")
    /\ UNCHANGED <<slot, webVars, buildVars, historyVars, alive, ghostVars>>

(* The io loop runs the handler posted by make_posting_observable.          *)
DeliverResult(s) ==
    /\ running = IoLoop
    /\ builder[s] = "building"
    /\ outcome[s] # "none"
    /\ Resume(s, "result")
    /\ UNCHANGED <<slot, webVars, buildVars, historyVars, alive, ghostVars>>

(* Seeded fault: what is in the future is recorded as it is.                *)
ResultOf_Raw(o) == o

(* Seeded fault: the two results are exchanged.                             *)
ResultOf_Exchanged(o) == IF o = "success" THEN "failure" ELSE "success"

(* What get() on the future makes of last_result: the catch clause turns an *)
(* exception into a failure.                                                *)
ResultOf(o) == IF o = "success" THEN "success" ELSE "failure"

(* Seeded fault: the catch clause logs the exception and no more.           *)
TakeResult_IgnoresException(s) ==
    /\ At(s, "result")
    /\ last_result' = IF outcome[s] = "exception" THEN last_result
                       ELSE [last_result EXCEPT ![s] = ResultOf(outcome[s])]
    /\ outcome' = [outcome EXCEPT ![s] = "none"]
    /\ verified' = IF outcome[s] = "success" THEN binary ELSE verified
    /\ Goto(s, "recorded")
    /\ UNCHANGED <<slot, webVars, head, tree, checkout, binary, stage,
                   running, caller, is_building, alive, promised, attempted>>

(* maybe_result->get() and the assignment to last_result, here or in the    *)
(* catch clause.  The future is gone afterwards.                            *)
TakeResult(s) ==
    /\ At(s, "result")
    /\ last_result' = [last_result EXCEPT ![s] = ResultOf(outcome[s])]
    /\ outcome' = [outcome EXCEPT ![s] = "none"]
    /\ verified' = IF outcome[s] = "success" THEN binary ELSE verified
    /\ Goto(s, "recorded")
    /\ UNCHANGED <<slot, webVars, head, tree, checkout, binary, stage,
                   running, caller, is_building, alive, promised, attempted>>

(* Seeded fault: is_building is reset inside the try block only.            *)
FinishBuild_FlagInTry(s) ==
    /\ At(s, "recorded")
    /\ is_building' = [is_building EXCEPT ![s] = last_result[s] # "success"]
    /\ IF Repeats
       THEN /\ Goto(s, "get_one")
            /\ UNCHANGED <<running, caller>>
       ELSE Suspend(s, "finished")
    /\ UNCHANGED <<slot, webVars, buildVars, last_result, alive, ghostVars>>

(* The step is not building any more, and its coroutine goes on to the next *)
(* notification or ends.                                                    *)
FinishBuild(s) ==
    /\ At(s, "recorded")
    /\ is_building' = [is_building EXCEPT ![s] = FALSE]
    /\ IF Repeats
       THEN /\ Goto(s, "get_one")
            /\ UNCHANGED <<running, caller>>
       ELSE Suspend(s, "finished")
    /\ UNCHANGED <<slot, webVars, buildVars, last_result, alive, ghostVars>>

----------------------------------------------------------------------------
(* Connections and the request handlers                                     *)

Accept(c) ==
    /\ running = IoLoop
    /\ OpenConnection(c)
    /\ UNCHANGED <<slot, buildVars, ioVars, ghostVars>>

(* The acceptor reports an error: maybe_client.get() throws it out of       *)
(* io.run().                                                                *)
AcceptFails ==
    /\ running = IoLoop
    /\ alive' = FALSE
    /\ UNCHANGED <<slot, webVars, buildVars, running, caller, builder, historyVars, ghostVars>>

(* serve_client has no request to serve.  After a receive error the         *)
(* coroutine asks the socket for its remote endpoint to log it, which       *)
(* throws when the peer is gone.                                            *)
ReceiveFails(c) ==
    /\ running = IoLoop
    /\ CloseUnanswered(c)
    /\ alive' \in BOOLEAN
    /\ UNCHANGED <<slot, buildVars, running, caller, builder, historyVars, ghostVars>>

(* render_overview_page, a row of the table for each step.                  *)
OverviewPage ==
    {[step |-> s, is_building |-> is_building[s], last_result |-> last_result[s]] :
        s \in Steps}

(* A handler that answers at once.                                          *)
Answer(c, status, content) ==
    /\ running = IoLoop
    /\ conn[c] = "connected"
    /\ QuickFinalResponse(c, status, content)
    /\ UNCHANGED <<slot, buildVars, ioVars, ghostVars>>

ServeOverview(c, request) ==
    /\ CurrentElement(request) = ""
    /\ Answer(c, 200, OverviewPage)

ServeNotFound(c, request) ==
    /\ CurrentElement(request) \notin RootEntries
    /\ Answer(c, 404, NoContent)

RefuseNotify(c, request) ==
    /\ CurrentElement(request) = "notify"
    /\ ~request.has_secret
    /\ Answer(c, 403, NoContent)

(* handle_notify_request is about to call notify().                         *)
AcceptNotify(c, request) ==
    /\ running = IoLoop
    /\ EnterHandler(c)
    /\ CurrentElement(request) = "notify"
    /\ request.has_secret
    /\ running' = c
    /\ UNCHANGED <<slot, buildVars, caller, builder, historyVars, alive, ghostVars>>

(* The call of notify() wakes the step, which runs on the client's stack.   *)
NotifyWakes(c, s) ==
    /\ running = c
    /\ LeaveCall(c)
    /\ Wake(s)
    /\ Resume(s, "notified")
    /\ promised' = [promised EXCEPT ![c] = head]
    /\ UNCHANGED <<buildVars, historyVars, alive, attempted, verified>>

(* The call of notify() finds no observer.                                  *)
NotifyLeavesMark(c) ==
    /\ running = c
    /\ LeaveCall(c)
    /\ Store \/ Saturate
    /\ promised' = [promised EXCEPT ![c] = head]
    /\ UNCHANGED <<buildVars, ioVars, attempted, verified>>

(* notify() has returned and the client gets its 200.                       *)
ConfirmNotify(c) ==
    /\ running = c
    /\ conn[c] = "responding"
    /\ QuickFinalResponse(c, 200, NoContent)
    /\ running' = IoLoop
    /\ UNCHANGED <<slot, buildVars, caller, builder, historyVars, alive, ghostVars>>

ResponseEnds(c) ==
    /\ running = IoLoop
    /\ FinishResponse(c)
    /\ UNCHANGED <<slot, buildVars, ioVars, ghostVars>>

----------------------------------------------------------------------------
(* Other threads and the repository                                         *)

BuildThread(s) ==
    /\ StageDone(s) \/ StageThrows(s)
    /\ UNCHANGED <<slot, webVars, ioVars, ghostVars>>

PushRevision ==
    /\ Push
    /\ UNCHANGED <<slot, webVars, ioVars, ghostVars>>

----------------------------------------------------------------------------

StepCoroutine(s) ==
    \/ GetOneWaits(s)
    \/ GetOneTakesPending(s)
    \/ StartBuild(s)
    \/ TakeResult(s)
    \/ FinishBuild(s)

Request(c) ==
    \E request \in Requests :
        \/ ServeOverview(c, request)
        \/ ServeNotFound(c, request)
        \/ RefuseNotify(c, request)
        \/ AcceptNotify(c, request)

Handler(c) ==
    \/ \E s \in Steps : NotifyWakes(c, s)
    \/ NotifyLeavesMark(c)
    \/ ConfirmNotify(c)

Startup == RunIo \/ \E s \in Steps : SpawnStep(s)

Live ==
    \/ Startup
    \/ \E s \in Steps : StepCoroutine(s) \/ DeliverResult(s) \/ BuildThread(s)
    \/ \E c \in Clients :
          \/ Accept(c)
          \/ ReceiveFails(c)
          \/ Request(c)
          \/ Handler(c)
          \/ ResponseEnds(c)
    \/ AcceptFails
    \/ PushRevision

(* An exception out of io.run() leaves main and ends the process with all   *)
(* its threads.                                                             *)
Terminated ==
    /\ ~alive
    /\ UNCHANGED vars

Next == (alive /\ Live) \/ Terminated

Spec == Init /\ [][Next]_vars

(* The io thread goes on when it can, and the io loop takes posted handlers *)
(* in order, so a posted result has its turn.  Nothing is assumed of        *)
(* clients, of the network or of pushes.                                    *)
IoFairness ==
    /\ WF_vars(alive /\ Startup)
    /\ \A s \in Steps :
          /\ WF_vars(alive /\ StepCoroutine(s))
          /\ SF_vars(alive /\ DeliverResult(s))
    /\ \A c \in Clients : WF_vars(alive /\ Handler(c))

(* A build stage ends, because the commands it runs end.                    *)
BuildFairness == \A s \in Steps : WF_vars(alive /\ BuildThread(s))

FairSpec == Spec /\ IoFairness /\ BuildFairness

(* A command that a build runs may hang.                                    *)
HangingSpec == Spec /\ IoFairness

----------------------------------------------------------------------------
(* Safety                                                                   *)

Rows  == [step : Steps, is_building : BOOLEAN, last_result : LastResults]
Pages == {NoContent} \cup {{row} : row \in Rows}

WebTypeOK ==
    /\ conn \in [Clients -> ConnStates]
    /\ reply \in [Clients -> [status : {0, 200, 403, 404}, content : Pages]]

IoTypeOK ==
    /\ running \in {Main, IoLoop} \cup Steps \cup Clients
    /\ caller \in {Main, IoLoop} \cup Clients
    /\ builder \in [Steps -> BuilderStates]
    /\ is_building \in [Steps -> BOOLEAN]
    /\ last_result \in [Steps -> LastResults]
    /\ alive \in BOOLEAN

GhostTypeOK ==
    /\ promised \in [Clients -> Revisions]
    /\ attempted \in Revisions
    /\ verified \in Revisions

(* Every variable keeps to its type; in particular the result that is       *)
(* recorded is always one the overview page can show (tyroxx-ci.cpp:155-169)*)
(* and a page has one row per step.                                         *)
TypeOK ==
    /\ slot \in {NoObserver, Notification} \cup Steps
    /\ WebTypeOK
    /\ BuildTypeOK
    /\ IoTypeOK
    /\ GhostTypeOK

(* The assertion in async_get_one (tyroxx-ci.cpp:50): a step that asks for  *)
(* the next notification never finds an observer already in the notifier,   *)
(* in particular not the one it left there for its previous build.          *)
ObserverSlotFree == \A s \in Steps : At(s, "get_one") => ~Observed

(* Control of the io thread is never duplicated or dropped: a step's        *)
(* coroutine is between two suspensions exactly while it has the thread,    *)
(* and a client's handler is inside notify() or just behind it exactly      *)
(* while it has the thread or lies below the step on the stack              *)
(* (tyroxx-ci.cpp:95, 400, 406-408: results are posted, not called back     *)
(* from the build thread).                                                  *)
IoThreadExclusive ==
    /\ \A s \in Steps : builder[s] \in RunningStates <=> running = s
    /\ \A c \in Clients :
          conn[c] \in {"notifying", "responding"} <=>
              \/ running = c
              \/ running \in Steps /\ caller = c

(* Whatever an earlier process or build left in the workspace, each stage   *)
(* starts with what it needs in place and git clone never meets a leftover  *)
(* source.git (tyroxx-ci.cpp:411-413, graph.cpp:498-529).                   *)
StagesFindTheirInputs ==
    \A s \in Steps : stage[s] # 0 => Ready(Stages[stage[s]])

(* A notification that was accepted is not lost: a build at least as new as *)
(* the revision it was about has been started, or the notification is still *)
(* in the notifier or in the hands of the step (tyroxx-ci.cpp:60-77).       *)
NoLostNotification ==
    \A c \in Clients :
        \/ promised[c] <= attempted
        \/ slot = Notification
        \/ \E s \in Steps : builder[s] = "notified"

(* Whenever an overview page can be rendered, "building.." is shown exactly *)
(* while a build thread runs or its result waits to be delivered, also      *)
(* after builds that threw (tyroxx-ci.cpp:405, 435, 151).                   *)
FlagTruthful ==
    \A s \in Steps :
        running # s => (is_building[s] <=> stage[s] # 0 \/ outcome[s] # "none")

(* "last build succeeded" on an idle step is about the build that was       *)
(* started last, never about an older one whose successor threw             *)
(* (tyroxx-ci.cpp:417-434).                                                 *)
ResultBelongsToLastBuild ==
    \A s \in Steps :
        /\ ~is_building[s]
        /\ last_result[s] = "success"
        => verified >= attempted

Reassuring(page) ==
    /\ page # NoContent
    /\ \A row \in page :
          /\ ~row.is_building
          /\ row.last_result = "success"

(* A client whose notification was accepted and who is then shown an idle   *)
(* server whose last build succeeded knows that a revision at least as new  *)
(* as its own has been built.  It takes the loop of graph.cpp:484 and a     *)
(* get_one that returns a pending notification without going through the    *)
(* io loop.                                                                 *)
SessionSeesOwnBuild ==
    \A c \in Clients : Reassuring(reply[c].content) => verified >= promised[c]

----------------------------------------------------------------------------
(* Liveness                                                                 *)

(* Every accepted notification is followed by a build of a revision at      *)
(* least as new, unless the server dies.                                    *)
NotifyLeadsToBuild ==
    \A r \in 1 .. MaxRev :
        (\E c \in Clients : promised[c] >= r) ~> (attempted >= r \/ ~alive)

(* The notification a server gets first is followed by a build, in each of  *)
(* the programs.                                                            *)
FirstNotifyLeadsToBuild ==
    (\E c \in Clients : promised[c] >= 1) ~> (attempted >= 1 \/ ~alive)

(* "building.." does not stay forever if the commands of a build end.       *)
BuildEnds ==
    \A s \in Steps :
        is_building[s] ~> (~is_building[s] \/ ~alive)

(* A handler that called notify() gets the io thread back from the step it  *)
(* woke and answers its client, even if the build it has just set off never *)
(* ends (tyroxx-ci.cpp:400-408).                                            *)
NotifyIsAnswered ==
    \A c \in Clients :
        conn[c] = "notifying" ~> (conn[c] = "writing" \/ ~alive)

----------------------------------------------------------------------------
(* The looping program implements BuildTrigger.  A notification is owed     *)
(* while it is in the notifier or in the hands of the step; a build is      *)
(* under way from the launch of its thread until its result is recorded.    *)
(* The revisions head, attempted and verified are the same in both.         *)

Trigger == INSTANCE BuildTrigger WITH
    owed     <- slot = Notification \/ \E s \in Steps : builder[s] = "notified",
    building <- \E s \in Steps : builder[s] \in {"building", "result"},
    result   <- last_result["silicium"],
    up       <- alive

(* Each behaviour is one the abstract server allows: no build without a     *)
(* notification, no two builds at once, no notification swallowed by the    *)
(* build that was already running.                                          *)
ImplementsTrigger == Trigger!TriggerSpec

===========================================================================
