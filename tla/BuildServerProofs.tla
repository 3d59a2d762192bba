------------------------- MODULE BuildServerProofs -------------------------
(***************************************************************************)
(* Theorems about BuildServer, for any number of clients and revisions and *)
(* for each of the three programs.                                         *)
(***************************************************************************)
EXTENDS BuildServer, TLAPS

USE DEF Main, IoLoop, NoObserver, Notification

----------------------------------------------------------------------------
(* The pipelines                                                            *)

(* A pipeline has stages, and the numbers of its stages are naturals.       *)
LEMMA PipelineLength == Len(Stages) \in Nat /\ Len(Stages) > 1
  <1>1. CASE Program = "tyroxx-ci"
    BY <1>1 DEF Stages, TyroxxCiStages
  <1>2. CASE Program = "build_on_push"
    BY <1>2 DEF Stages, BuildOnPushStages
  <1>3. CASE Program = "graph"
    BY <1>3 DEF Stages, GraphStages
  <1>4. QED
    BY <1>1, <1>2, <1>3, ProgramAssumption DEF Programs

(* A stage that succeeds leaves no entry without its parent directory.      *)
LEMMA TreeAfterWellFormed ==
    ASSUME NEW name, tree \in Trees, Ready(name)
    PROVE  TreeAfter(name) \in Trees
  BY DEF Trees, Entries, Ready, TreeAfter

----------------------------------------------------------------------------
(* Types                                                                    *)

LEMMA TypeOKInit == Init => TypeOK
  <1> SUFFICES ASSUME Init PROVE TypeOK
    OBVIOUS
  <1>1. slot \in {NoObserver, Notification} \cup Steps
    BY DEF Init, NotifierInit
  <1>2. WebTypeOK
    BY DEF Init, WebInit, WebTypeOK, ConnStates, NoReply, Pages
  <1>3. BuildTypeOK
    <2>1. 0 \in Revisions /\ 1 \in 1 .. MaxRev
      BY MaxRevAssumption DEF Revisions
    <2>2. 0 \in 0 .. Len(Stages)
      BY PipelineLength
    <2>3. QED
      BY <2>1, <2>2 DEF Init, BuildInit, BuildTypeOK
  <1>4. IoTypeOK
    BY DEF Init, IoTypeOK, BuilderStates, LastResults
  <1>5. GhostTypeOK
    <2>1. 0 \in Revisions
      BY MaxRevAssumption DEF Revisions
    <2>2. QED
      BY <2>1 DEF Init, GhostTypeOK
  <1>6. QED
    BY <1>1, <1>2, <1>3, <1>4, <1>5 DEF TypeOK

(* A step leaves the types of the variables it does not change alone.       *)
LEMMA TypesUnchanged ==
    /\ WebTypeOK /\ UNCHANGED webVars => WebTypeOK'
    /\ BuildTypeOK /\ UNCHANGED buildVars => BuildTypeOK'
    /\ IoTypeOK /\ UNCHANGED ioVars => IoTypeOK'
    /\ GhostTypeOK /\ UNCHANGED ghostVars => GhostTypeOK'
  <1>1. WebTypeOK /\ UNCHANGED webVars => WebTypeOK'
    BY DEF WebTypeOK, webVars
  <1>2. BuildTypeOK /\ UNCHANGED buildVars => BuildTypeOK'
    BY DEF BuildTypeOK, buildVars
  <1>3. IoTypeOK /\ UNCHANGED ioVars => IoTypeOK'
    BY DEF IoTypeOK, ioVars, historyVars
  <1>4. GhostTypeOK /\ UNCHANGED ghostVars => GhostTypeOK'
    BY DEF GhostTypeOK, ghostVars
  <1>5. QED
    BY <1>1, <1>2, <1>3, <1>4

LEMMA BuildThreadTypes ==
    ASSUME BuildTypeOK, NEW s \in Steps, StageDone(s) \/ StageThrows(s)
    PROVE  BuildTypeOK'
  <1> USE DEF BuildTypeOK
  <1>1. CASE StageDone(s)
    <2> DEFINE name == Stages[stage[s]]
    <2>1. tree' \in Trees
      BY <1>1, TreeAfterWellFormed DEF StageDone
    <2>2. checkout' \in Revisions /\ binary' \in Revisions
      BY <1>1, MaxRevAssumption DEF StageDone, CheckoutAfter, BinaryAfter, Revisions
    <2>3. stage' \in [Steps -> 0 .. Len(Stages)]
      BY <1>1, PipelineLength DEF StageDone
    <2>4. outcome' \in [Steps -> {"none", "success", "failure", "exception"}]
      BY <1>1 DEF StageDone, Verdicts
    <2>5. QED
      BY <1>1, <2>1, <2>2, <2>3, <2>4 DEF StageDone
  <1>2. CASE StageThrows(s)
    <2>1. checkout' \in Revisions /\ binary' \in Revisions
      BY <1>2, MaxRevAssumption DEF StageThrows, CheckoutAfter, BinaryAfter, Revisions
    <2>2. stage' \in [Steps -> 0 .. Len(Stages)]
      BY <1>2, PipelineLength DEF StageThrows
    <2>3. QED
      BY <1>2, <2>1, <2>2 DEF StageThrows
  <1>3. QED
    BY <1>1, <1>2

LEMMA StepTypes ==
    ASSUME TypeOK, NEW s \in Steps,
           SpawnStep(s) \/ StepCoroutine(s) \/ DeliverResult(s) \/ BuildThread(s)
    PROVE  TypeOK'
  <1> USE DEF TypeOK, Goto, Resume, Suspend, At
  <1>1. CASE SpawnStep(s)
    <2>1. IoTypeOK'
      BY <1>1 DEF SpawnStep, IoTypeOK, BuilderStates, historyVars
    <2>2. QED
      BY <1>1, <2>1, TypesUnchanged DEF SpawnStep
  <1>2. CASE GetOneWaits(s)
    <2>1. IoTypeOK'
      BY <1>2 DEF GetOneWaits, IoTypeOK, BuilderStates, historyVars
    <2>2. QED
      BY <1>2, <2>1, TypesUnchanged DEF GetOneWaits, Register
  <1>3. CASE GetOneTakesPending(s)
    <2>1. IoTypeOK'
      BY <1>3 DEF GetOneTakesPending, IoTypeOK, BuilderStates, historyVars
    <2>2. QED
      BY <1>3, <2>1, TypesUnchanged DEF GetOneTakesPending, TakePending
  <1>4. CASE StartBuild(s)
    <2>1. IoTypeOK'
      BY <1>4 DEF StartBuild, IoTypeOK, BuilderStates
    <2>2. BuildTypeOK'
      BY <1>4, PipelineLength DEF StartBuild, StartThread, BuildTypeOK
    <2>3. GhostTypeOK'
      BY <1>4, MaxRevAssumption DEF StartBuild, GhostTypeOK, BuildTypeOK, Revisions
    <2>4. QED
      BY <1>4, <2>1, <2>2, <2>3, TypesUnchanged DEF StartBuild
  <1>5. CASE TakeResult(s)
    <2>1. IoTypeOK'
      BY <1>5 DEF TakeResult, ResultOf, IoTypeOK, BuilderStates, LastResults
    <2>2. BuildTypeOK'
      BY <1>5 DEF TakeResult, BuildTypeOK
    <2>3. GhostTypeOK'
      BY <1>5 DEF TakeResult, GhostTypeOK, BuildTypeOK
    <2>4. QED
      BY <1>5, <2>1, <2>2, <2>3, TypesUnchanged DEF TakeResult
  <1>6. CASE FinishBuild(s)
    <2>1. IoTypeOK'
      BY <1>6 DEF FinishBuild, IoTypeOK, BuilderStates
    <2>2. QED
      BY <1>6, <2>1, TypesUnchanged DEF FinishBuild
  <1>7. CASE DeliverResult(s)
    <2>1. IoTypeOK'
      BY <1>7 DEF DeliverResult, IoTypeOK, BuilderStates, historyVars
    <2>2. QED
      BY <1>7, <2>1, TypesUnchanged DEF DeliverResult
  <1>8. CASE BuildThread(s)
    <2>1. BuildTypeOK'
      BY <1>8, BuildThreadTypes DEF BuildThread
    <2>2. QED
      BY <1>8, <2>1, TypesUnchanged DEF BuildThread
  <1>9. QED
    BY <1>1, <1>2, <1>3, <1>4, <1>5, <1>6, <1>7, <1>8 DEF StepCoroutine

(* A request is answered at once, or its handler calls notify().            *)
LEMMA RequestCases ==
    ASSUME NEW c \in Clients, Request(c)
    PROVE  \/ \E status \in {200, 403, 404}, content \in {OverviewPage, NoContent} :
                 Answer(c, status, content)
           \/ \E request \in Requests : AcceptNotify(c, request)
  <1> PICK request \in Requests :
        \/ ServeOverview(c, request)
        \/ ServeNotFound(c, request)
        \/ RefuseNotify(c, request)
        \/ AcceptNotify(c, request)
    BY DEF Request
  <1>1. CASE ServeOverview(c, request)
    BY <1>1 DEF ServeOverview
  <1>2. CASE ServeNotFound(c, request)
    BY <1>2 DEF ServeNotFound
  <1>3. CASE RefuseNotify(c, request)
    BY <1>3 DEF RefuseNotify
  <1>4. QED
    BY <1>1, <1>2, <1>3

LEMMA RequestTypes ==
    ASSUME TypeOK, NEW c \in Clients, Request(c)
    PROVE  TypeOK'
  <1> USE DEF TypeOK
  <1>1. OverviewPage \in Pages
    <2> DEFINE row == [step |-> "silicium",
                       is_building |-> is_building["silicium"],
                       last_result |-> last_result["silicium"]]
    <2>1. row \in Rows
      BY DEF Rows, Steps, IoTypeOK
    <2>2. OverviewPage = {row}
      BY DEF OverviewPage, Steps
    <2>3. QED
      BY <2>1, <2>2 DEF Pages
  <1>2. ASSUME NEW status \in {200, 403, 404}, NEW content \in Pages,
               Answer(c, status, content)
        PROVE  TypeOK'
    <2>1. WebTypeOK'
      BY <1>2 DEF Answer, QuickFinalResponse, WebTypeOK, ConnStates
    <2>2. QED
      BY <1>2, <2>1, TypesUnchanged DEF Answer
  <1>3. NoContent \in Pages
    BY DEF Pages
  <1>4. ASSUME NEW request \in Requests, AcceptNotify(c, request) PROVE TypeOK'
    <2>1. WebTypeOK'
      BY <1>4 DEF AcceptNotify, EnterHandler, WebTypeOK, ConnStates
    <2>2. IoTypeOK'
      BY <1>4 DEF AcceptNotify, IoTypeOK, historyVars
    <2>3. QED
      BY <1>4, <2>1, <2>2, TypesUnchanged DEF AcceptNotify
  <1>5. QED
    BY <1>1, <1>2, <1>3, <1>4, RequestCases

LEMMA ClientTypes ==
    ASSUME TypeOK, NEW c \in Clients,
           Accept(c) \/ ReceiveFails(c) \/ Handler(c) \/ ResponseEnds(c)
    PROVE  TypeOK'
  <1> USE DEF TypeOK
  <1>1. CASE Accept(c)
    <2>1. WebTypeOK'
      BY <1>1 DEF Accept, OpenConnection, WebTypeOK, ConnStates
    <2>2. QED
      BY <1>1, <2>1, TypesUnchanged DEF Accept
  <1>2. CASE ReceiveFails(c)
    <2>1. WebTypeOK'
      BY <1>2 DEF ReceiveFails, CloseUnanswered, WebTypeOK, ConnStates
    <2>2. IoTypeOK'
      BY <1>2 DEF ReceiveFails, IoTypeOK, historyVars
    <2>3. QED
      BY <1>2, <2>1, <2>2, TypesUnchanged DEF ReceiveFails
  <1>3. ASSUME NEW s \in Steps, NotifyWakes(c, s) PROVE TypeOK'
    <2>1. WebTypeOK'
      BY <1>3 DEF NotifyWakes, LeaveCall, WebTypeOK, ConnStates
    <2>2. IoTypeOK'
      BY <1>3 DEF NotifyWakes, IoTypeOK, Resume, Goto, BuilderStates, historyVars
    <2>3. GhostTypeOK'
      BY <1>3, MaxRevAssumption DEF NotifyWakes, GhostTypeOK, BuildTypeOK, Revisions
    <2>4. QED
      BY <1>3, <2>1, <2>2, <2>3, TypesUnchanged DEF NotifyWakes, Wake
  <1>4. CASE NotifyLeavesMark(c)
    <2>1. WebTypeOK'
      BY <1>4 DEF NotifyLeavesMark, LeaveCall, WebTypeOK, ConnStates
    <2>2. GhostTypeOK'
      BY <1>4, MaxRevAssumption DEF NotifyLeavesMark, GhostTypeOK, BuildTypeOK, Revisions
    <2>3. QED
      BY <1>4, <2>1, <2>2, TypesUnchanged DEF NotifyLeavesMark, Store, Saturate
  <1>5. CASE ConfirmNotify(c)
    <2>1. WebTypeOK'
      BY <1>5 DEF ConfirmNotify, QuickFinalResponse, WebTypeOK, ConnStates, Pages
    <2>2. IoTypeOK'
      BY <1>5 DEF ConfirmNotify, IoTypeOK, historyVars
    <2>3. QED
      BY <1>5, <2>1, <2>2, TypesUnchanged DEF ConfirmNotify
  <1>6. CASE ResponseEnds(c)
    <2>1. WebTypeOK'
      BY <1>6 DEF ResponseEnds, FinishResponse, WebTypeOK, ConnStates, NoReply, Pages
    <2>2. QED
      BY <1>6, <2>1, TypesUnchanged DEF ResponseEnds
  <1>7. QED
    BY <1>1, <1>2, <1>3, <1>4, <1>5, <1>6 DEF Handler

LEMMA TypeOKStep == TypeOK /\ [Next]_vars => TypeOK'
  <1> SUFFICES ASSUME TypeOK, [Next]_vars PROVE TypeOK'
    OBVIOUS
  <1>1. CASE RunIo
    <2>1. IoTypeOK'
      BY <1>1 DEF RunIo, TypeOK, IoTypeOK, historyVars
    <2>2. QED
      BY <1>1, <2>1, TypesUnchanged DEF RunIo, TypeOK
  <1>2. CASE AcceptFails
    <2>1. IoTypeOK'
      BY <1>2 DEF AcceptFails, TypeOK, IoTypeOK, historyVars
    <2>2. QED
      BY <1>2, <2>1, TypesUnchanged DEF AcceptFails, TypeOK
  <1>3. CASE PushRevision
    <2>1. BuildTypeOK'
      BY <1>3, MaxRevAssumption DEF PushRevision, Push, TypeOK, BuildTypeOK
    <2>2. QED
      BY <1>3, <2>1, TypesUnchanged DEF PushRevision, TypeOK
  <1>4. CASE UNCHANGED vars
    BY <1>4, TypesUnchanged DEF vars, TypeOK
  <1>5. QED
    BY <1>1, <1>2, <1>3, <1>4, StepTypes, RequestTypes, ClientTypes
    DEF Next, Live, Startup, Terminated

(* Every variable of the server keeps to its type, for every set of clients *)
(* and every number of revisions, in each of the three programs.            *)
THEOREM TypeCorrect == Spec => []TypeOK
  BY TypeOKInit, TypeOKStep, PTL DEF Spec

----------------------------------------------------------------------------
(* The inductive invariant                                                  *)

(* The notifier holds a step's observer exactly while the step waits, and   *)
(* is empty while a step has the notification.                              *)
ObserverAgrees ==
    \A s \in Steps :
        /\ slot = s <=> builder[s] = "waiting"
        /\ builder[s] = "notified" => slot = NoObserver

(* A build thread, its result, and the place of the coroutine agree, and so *)
(* does the flag on the overview page.                                      *)
BuildAgrees ==
    \A s \in Steps :
        /\ stage[s] # 0 => builder[s] = "building" /\ outcome[s] = "none"
        /\ outcome[s] # "none" => builder[s] \in {"building", "result"}
        /\ builder[s] = "building" => stage[s] # 0 \/ outcome[s] # "none"
        /\ builder[s] = "result" => outcome[s] # "none"
        /\ is_building[s] <=> builder[s] \in {"building", "result", "recorded"}

(* No revision is known before it was pushed.                               *)
RevisionsPushed ==
    /\ checkout <= head
    /\ binary <= head
    /\ attempted <= head
    /\ verified <= head
    /\ \A c \in Clients : promised[c] <= head

ControlInv ==
    /\ TypeOK
    /\ ObserverAgrees
    /\ IoThreadExclusive
    /\ BuildAgrees

(* A stage has been passed by a build thread at position i.                 *)
Passed(name, i) == \E j \in 1 .. Len(Stages) : j < i /\ Stages[j] = name

(* What a build thread has in the workspace at each position.               *)
WorkspaceAgrees ==
    \A s \in Steps :
        /\ Passed("recreate", stage[s]) \/ Passed("create", stage[s])
              => "workspace" \in tree
        /\ Passed("recreate", stage[s]) \/ Passed("remove", stage[s])
              => "source.git" \notin tree \/ Passed("clone", stage[s])
        /\ Passed("clone", stage[s]) => "source.git" \in tree /\ checkout >= attempted
        /\ Passed("mkdir", stage[s]) => "build" \in tree
        /\ Passed("generate", stage[s]) => "cache" \in tree
        /\ Passed("build", stage[s]) => "binary" \in tree /\ binary >= attempted

(* A build that ended well was one of a revision new enough, and a newer    *)
(* one is never replaced by an older one.                                   *)
ResultsAgree ==
    \A s \in Steps :
        /\ outcome[s] = "success" => binary >= attempted
        /\ builder[s] \in {"building", "result"} => verified <= attempted
        /\ builder[s] \notin {"building", "result"} /\ last_result[s] = "success"
              => verified >= attempted
        /\ builder[s] = "unspawned" => last_result[s] = "not built"
        /\ builder[s] = "finished" => ~Repeats

(* Only a connection that is being written to has an answer.                *)
RepliesAgree == \A c \in Clients : conn[c] # "writing" => reply[c] = NoReply

----------------------------------------------------------------------------
(* Control: who waits, who runs, who builds                                 *)

(* Only a step that begins to wait registers, only Wake removes it.         *)
LEMMA ObserverAgreesStep == ControlInv /\ [Next]_vars => ObserverAgrees'
  <1> SUFFICES ASSUME ControlInv, [Next]_vars PROVE ObserverAgrees'
    OBVIOUS
  <1> USE ClientsAssumption DEF ObserverAgrees, IoThreadExclusive,
      RunningStates, ControlInv, TypeOK, WebTypeOK, IoTypeOK, Steps,
      Goto, Resume, Suspend, At, webVars, ioVars, historyVars,
      buildVars, ghostVars
  <1>1. ASSUME NEW s \in Steps, SpawnStep(s) PROVE ObserverAgrees'
    BY <1>1 DEF SpawnStep
  <1>2. ASSUME NEW s \in Steps, GetOneWaits(s) PROVE ObserverAgrees'
    BY <1>2 DEF GetOneWaits, Register
  <1>3. ASSUME NEW s \in Steps, GetOneTakesPending(s) PROVE ObserverAgrees'
    BY <1>3 DEF GetOneTakesPending, TakePending
  <1>4. ASSUME NEW s \in Steps, StartBuild(s) PROVE ObserverAgrees'
    BY <1>4 DEF StartBuild, StartThread
  <1>5. ASSUME NEW s \in Steps, TakeResult(s) PROVE ObserverAgrees'
    BY <1>5 DEF TakeResult
  <1>6. ASSUME NEW s \in Steps, FinishBuild(s) PROVE ObserverAgrees'
    BY <1>6 DEF FinishBuild
  <1>7. ASSUME NEW s \in Steps, DeliverResult(s) PROVE ObserverAgrees'
    BY <1>7 DEF DeliverResult
  <1>8. ASSUME NEW s \in Steps, BuildThread(s) PROVE ObserverAgrees'
    BY <1>8 DEF BuildThread, StageDone, StageThrows, Verdicts
  <1>9. CASE RunIo
    BY <1>9 DEF RunIo
  <1>10. ASSUME NEW c \in Clients, Accept(c) PROVE ObserverAgrees'
    BY <1>10 DEF Accept, OpenConnection
  <1>11. ASSUME NEW c \in Clients, ReceiveFails(c) PROVE ObserverAgrees'
    BY <1>11 DEF ReceiveFails, CloseUnanswered
  <1>12. ASSUME NEW c \in Clients, NEW status \in {200, 403, 404},
                NEW content \in {OverviewPage, NoContent}, Answer(c, status, content)
         PROVE  ObserverAgrees'
    BY <1>12 DEF Answer, QuickFinalResponse
  <1>13. ASSUME NEW c \in Clients, NEW request \in Requests, AcceptNotify(c, request)
         PROVE  ObserverAgrees'
    BY <1>13 DEF AcceptNotify, EnterHandler
  <1>14. ASSUME NEW c \in Clients, NEW s \in Steps, NotifyWakes(c, s)
         PROVE  ObserverAgrees'
    BY <1>14 DEF NotifyWakes, LeaveCall, Wake
  <1>15. ASSUME NEW c \in Clients, NotifyLeavesMark(c) PROVE ObserverAgrees'
    BY <1>15 DEF NotifyLeavesMark, LeaveCall, Store, Saturate
  <1>16. ASSUME NEW c \in Clients, ConfirmNotify(c) PROVE ObserverAgrees'
    BY <1>16 DEF ConfirmNotify, QuickFinalResponse
  <1>17. ASSUME NEW c \in Clients, ResponseEnds(c) PROVE ObserverAgrees'
    BY <1>17 DEF ResponseEnds, FinishResponse
  <1>18. CASE AcceptFails
    BY <1>18 DEF AcceptFails
  <1>19. CASE PushRevision
    BY <1>19 DEF PushRevision, Push
  <1>20. CASE UNCHANGED vars
    BY <1>20 DEF vars
  <1>21. QED
    BY <1>1, <1>2, <1>3, <1>4, <1>5, <1>6, <1>7, <1>8, <1>9, <1>10,
       <1>11, <1>12, <1>13, <1>14, <1>15, <1>16, <1>17, <1>18, <1>19,
       <1>20, RequestCases
    DEF Next, Live, Startup, StepCoroutine, Handler, Terminated

(* The io thread passes from one owner to the next.                         *)
LEMMA IoThreadExclusiveStep == ControlInv /\ [Next]_vars => IoThreadExclusive'
  <1> SUFFICES ASSUME ControlInv, [Next]_vars PROVE IoThreadExclusive'
    OBVIOUS
  <1> USE ClientsAssumption DEF ObserverAgrees, IoThreadExclusive,
      RunningStates, ControlInv, TypeOK, WebTypeOK, IoTypeOK, Steps,
      Goto, Resume, Suspend, At, webVars, ioVars, historyVars,
      buildVars, ghostVars
  <1>1. ASSUME NEW s \in Steps, SpawnStep(s) PROVE IoThreadExclusive'
    BY <1>1 DEF SpawnStep
  <1>2. ASSUME NEW s \in Steps, GetOneWaits(s) PROVE IoThreadExclusive'
    BY <1>2 DEF GetOneWaits, Register
  <1>3. ASSUME NEW s \in Steps, GetOneTakesPending(s) PROVE IoThreadExclusive'
    BY <1>3 DEF GetOneTakesPending, TakePending
  <1>4. ASSUME NEW s \in Steps, StartBuild(s) PROVE IoThreadExclusive'
    BY <1>4 DEF StartBuild, StartThread
  <1>5. ASSUME NEW s \in Steps, TakeResult(s) PROVE IoThreadExclusive'
    BY <1>5 DEF TakeResult
  <1>6. ASSUME NEW s \in Steps, FinishBuild(s) PROVE IoThreadExclusive'
    BY <1>6 DEF FinishBuild
  <1>7. ASSUME NEW s \in Steps, DeliverResult(s) PROVE IoThreadExclusive'
    BY <1>7 DEF DeliverResult
  <1>8. ASSUME NEW s \in Steps, BuildThread(s) PROVE IoThreadExclusive'
    BY <1>8 DEF BuildThread, StageDone, StageThrows, Verdicts
  <1>9. CASE RunIo
    BY <1>9 DEF RunIo
  <1>10. ASSUME NEW c \in Clients, Accept(c) PROVE IoThreadExclusive'
    BY <1>10 DEF Accept, OpenConnection
  <1>11. ASSUME NEW c \in Clients, ReceiveFails(c) PROVE IoThreadExclusive'
    BY <1>11 DEF ReceiveFails, CloseUnanswered
  <1>12. ASSUME NEW c \in Clients, NEW status \in {200, 403, 404},
                NEW content \in {OverviewPage, NoContent}, Answer(c, status, content)
         PROVE  IoThreadExclusive'
    BY <1>12 DEF Answer, QuickFinalResponse
  <1>13. ASSUME NEW c \in Clients, NEW request \in Requests, AcceptNotify(c, request)
         PROVE  IoThreadExclusive'
    BY <1>13 DEF AcceptNotify, EnterHandler
  <1>14. ASSUME NEW c \in Clients, NEW s \in Steps, NotifyWakes(c, s)
         PROVE  IoThreadExclusive'
    BY <1>14 DEF NotifyWakes, LeaveCall, Wake
  <1>15. ASSUME NEW c \in Clients, NotifyLeavesMark(c) PROVE IoThreadExclusive'
    BY <1>15 DEF NotifyLeavesMark, LeaveCall, Store, Saturate
  <1>16. ASSUME NEW c \in Clients, ConfirmNotify(c) PROVE IoThreadExclusive'
    BY <1>16 DEF ConfirmNotify, QuickFinalResponse
  <1>17. ASSUME NEW c \in Clients, ResponseEnds(c) PROVE IoThreadExclusive'
    BY <1>17 DEF ResponseEnds, FinishResponse
  <1>18. CASE AcceptFails
    BY <1>18 DEF AcceptFails
  <1>19. CASE PushRevision
    BY <1>19 DEF PushRevision, Push
  <1>20. CASE UNCHANGED vars
    BY <1>20 DEF vars
  <1>21. QED
    BY <1>1, <1>2, <1>3, <1>4, <1>5, <1>6, <1>7, <1>8, <1>9, <1>10,
       <1>11, <1>12, <1>13, <1>14, <1>15, <1>16, <1>17, <1>18, <1>19,
       <1>20, RequestCases
    DEF Next, Live, Startup, StepCoroutine, Handler, Terminated

(* A build thread lives between StartBuild and its result.                  *)
LEMMA BuildAgreesStep == ControlInv /\ [Next]_vars => BuildAgrees'
  <1> SUFFICES ASSUME ControlInv, [Next]_vars PROVE BuildAgrees'
    OBVIOUS
  <1> USE DEF BuildAgrees, BuildTypeOK, ControlInv, TypeOK, WebTypeOK,
      IoTypeOK, Steps, Goto, Resume, Suspend, At, webVars, ioVars,
      historyVars, buildVars, ghostVars
  <1>1. ASSUME NEW s \in Steps, SpawnStep(s) PROVE BuildAgrees'
    BY <1>1 DEF SpawnStep
  <1>2. ASSUME NEW s \in Steps, GetOneWaits(s) PROVE BuildAgrees'
    BY <1>2 DEF GetOneWaits, Register
  <1>3. ASSUME NEW s \in Steps, GetOneTakesPending(s) PROVE BuildAgrees'
    BY <1>3 DEF GetOneTakesPending, TakePending
  <1>4. ASSUME NEW s \in Steps, StartBuild(s) PROVE BuildAgrees'
    BY <1>4 DEF StartBuild, StartThread
  <1>5. ASSUME NEW s \in Steps, TakeResult(s) PROVE BuildAgrees'
    BY <1>5 DEF TakeResult
  <1>6. ASSUME NEW s \in Steps, FinishBuild(s) PROVE BuildAgrees'
    BY <1>6 DEF FinishBuild
  <1>7. ASSUME NEW s \in Steps, DeliverResult(s) PROVE BuildAgrees'
    BY <1>7 DEF DeliverResult
  <1>8. ASSUME NEW s \in Steps, BuildThread(s) PROVE BuildAgrees'
    BY <1>8 DEF BuildThread, StageDone, StageThrows, Verdicts
  <1>9. CASE RunIo
    BY <1>9 DEF RunIo
  <1>10. ASSUME NEW c \in Clients, Accept(c) PROVE BuildAgrees'
    BY <1>10 DEF Accept, OpenConnection
  <1>11. ASSUME NEW c \in Clients, ReceiveFails(c) PROVE BuildAgrees'
    BY <1>11 DEF ReceiveFails, CloseUnanswered
  <1>12. ASSUME NEW c \in Clients, NEW status \in {200, 403, 404},
                NEW content \in {OverviewPage, NoContent}, Answer(c, status, content)
         PROVE  BuildAgrees'
    BY <1>12 DEF Answer, QuickFinalResponse
  <1>13. ASSUME NEW c \in Clients, NEW request \in Requests, AcceptNotify(c, request)
         PROVE  BuildAgrees'
    BY <1>13 DEF AcceptNotify, EnterHandler
  <1>14. ASSUME NEW c \in Clients, NEW s \in Steps, NotifyWakes(c, s)
         PROVE  BuildAgrees'
    BY <1>14 DEF NotifyWakes, LeaveCall, Wake, ObserverAgrees
  <1>15. ASSUME NEW c \in Clients, NotifyLeavesMark(c) PROVE BuildAgrees'
    BY <1>15 DEF NotifyLeavesMark, LeaveCall, Store, Saturate
  <1>16. ASSUME NEW c \in Clients, ConfirmNotify(c) PROVE BuildAgrees'
    BY <1>16 DEF ConfirmNotify, QuickFinalResponse
  <1>17. ASSUME NEW c \in Clients, ResponseEnds(c) PROVE BuildAgrees'
    BY <1>17 DEF ResponseEnds, FinishResponse
  <1>18. CASE AcceptFails
    BY <1>18 DEF AcceptFails
  <1>19. CASE PushRevision
    BY <1>19 DEF PushRevision, Push
  <1>20. CASE UNCHANGED vars
    BY <1>20 DEF vars
  <1>21. QED
    BY <1>1, <1>2, <1>3, <1>4, <1>5, <1>6, <1>7, <1>8, <1>9, <1>10,
       <1>11, <1>12, <1>13, <1>14, <1>15, <1>16, <1>17, <1>18, <1>19,
       <1>20, RequestCases
    DEF Next, Live, Startup, StepCoroutine, Handler, Terminated

(* The control invariant is inductive.                                      *)
LEMMA ControlInvStep == ControlInv /\ [Next]_vars => ControlInv'
  BY TypeOKStep, ObserverAgreesStep, IoThreadExclusiveStep, BuildAgreesStep
  DEF ControlInv

LEMMA ControlInvInit == Init => ControlInv
  <1> SUFFICES ASSUME Init PROVE ControlInv
    OBVIOUS
  <1>1. ObserverAgrees
    BY DEF Init, NotifierInit, ObserverAgrees, Steps
  <1>2. IoThreadExclusive
    BY ClientsAssumption
    DEF Init, WebInit, IoThreadExclusive, RunningStates, Steps
  <1>3. BuildAgrees
    BY DEF Init, BuildInit, BuildAgrees
  <1>4. QED
    BY <1>1, <1>2, <1>3, TypeOKInit DEF ControlInv

LEMMA ControlInvariant == Spec => []ControlInv
  BY ControlInvInit, ControlInvStep, PTL DEF Spec

(* The assertion of async_get_one holds in every execution: get_one never   *)
(* meets an observer that is already in the notifier.                       *)
THEOREM AssertionHolds == Spec => []ObserverSlotFree
  <1>1. ControlInv => ObserverSlotFree
    BY DEF ControlInv, TypeOK, ObserverAgrees, ObserverSlotFree, Observed, At, Steps
  <1>2. QED
    BY <1>1, ControlInvariant, PTL

(* The io thread has one owner, and a client's handler that woke a step is  *)
(* below that step on its stack and nowhere else.                           *)
THEOREM OneOwnerOfTheIoThread == Spec => []IoThreadExclusive
  <1>1. ControlInv => IoThreadExclusive
    BY DEF ControlInv
  <1>2. QED
    BY <1>1, ControlInvariant, PTL

(* "building.." is on the overview page exactly while a build thread or its *)
(* undelivered result exists.                                               *)
THEOREM FlagIsTruthful == Spec => []FlagTruthful
  <1>1. ControlInv => FlagTruthful
    BY DEF ControlInv, BuildAgrees, IoThreadExclusive, RunningStates, FlagTruthful
  <1>2. QED
    BY <1>1, ControlInvariant, PTL

----------------------------------------------------------------------------
(* Notifications                                                            *)

(* Revisions are taken from head, which only grows.                         *)
LEMMA RevisionsPushedStep == ControlInv /\ RevisionsPushed /\ [Next]_vars => RevisionsPushed'
  <1> SUFFICES ASSUME ControlInv /\ RevisionsPushed, [Next]_vars PROVE RevisionsPushed'
    OBVIOUS
  <1> USE MaxRevAssumption DEF RevisionsPushed, ControlInv, TypeOK,
      BuildTypeOK, GhostTypeOK, Revisions, Steps, Goto, Resume, Suspend,
      At, webVars, ioVars, historyVars, buildVars, ghostVars
  <1>1. ASSUME NEW s \in Steps, SpawnStep(s) PROVE RevisionsPushed'
    BY <1>1 DEF SpawnStep
  <1>2. ASSUME NEW s \in Steps, GetOneWaits(s) PROVE RevisionsPushed'
    BY <1>2 DEF GetOneWaits, Register
  <1>3. ASSUME NEW s \in Steps, GetOneTakesPending(s) PROVE RevisionsPushed'
    BY <1>3 DEF GetOneTakesPending, TakePending
  <1>4. ASSUME NEW s \in Steps, StartBuild(s) PROVE RevisionsPushed'
    BY <1>4 DEF StartBuild, StartThread
  <1>5. ASSUME NEW s \in Steps, TakeResult(s) PROVE RevisionsPushed'
    BY <1>5 DEF TakeResult
  <1>6. ASSUME NEW s \in Steps, FinishBuild(s) PROVE RevisionsPushed'
    BY <1>6 DEF FinishBuild
  <1>7. ASSUME NEW s \in Steps, DeliverResult(s) PROVE RevisionsPushed'
    BY <1>7 DEF DeliverResult
  <1>8. ASSUME NEW s \in Steps, BuildThread(s) PROVE RevisionsPushed'
    BY <1>8 DEF BuildThread, StageDone, StageThrows, Verdicts,
       CheckoutAfter, BinaryAfter
  <1>9. CASE RunIo
    BY <1>9 DEF RunIo
  <1>10. ASSUME NEW c \in Clients, Accept(c) PROVE RevisionsPushed'
    BY <1>10 DEF Accept, OpenConnection
  <1>11. ASSUME NEW c \in Clients, ReceiveFails(c) PROVE RevisionsPushed'
    BY <1>11 DEF ReceiveFails, CloseUnanswered
  <1>12. ASSUME NEW c \in Clients, NEW status \in {200, 403, 404},
                NEW content \in {OverviewPage, NoContent}, Answer(c, status, content)
         PROVE  RevisionsPushed'
    BY <1>12 DEF Answer, QuickFinalResponse
  <1>13. ASSUME NEW c \in Clients, NEW request \in Requests, AcceptNotify(c, request)
         PROVE  RevisionsPushed'
    BY <1>13 DEF AcceptNotify, EnterHandler
  <1>14. ASSUME NEW c \in Clients, NEW s \in Steps, NotifyWakes(c, s)
         PROVE  RevisionsPushed'
    BY <1>14 DEF NotifyWakes, LeaveCall, Wake
  <1>15. ASSUME NEW c \in Clients, NotifyLeavesMark(c) PROVE RevisionsPushed'
    BY <1>15 DEF NotifyLeavesMark, LeaveCall, Store, Saturate
  <1>16. ASSUME NEW c \in Clients, ConfirmNotify(c) PROVE RevisionsPushed'
    BY <1>16 DEF ConfirmNotify, QuickFinalResponse
  <1>17. ASSUME NEW c \in Clients, ResponseEnds(c) PROVE RevisionsPushed'
    BY <1>17 DEF ResponseEnds, FinishResponse
  <1>18. CASE AcceptFails
    BY <1>18 DEF AcceptFails
  <1>19. CASE PushRevision
    BY <1>19 DEF PushRevision, Push
  <1>20. CASE UNCHANGED vars
    BY <1>20 DEF vars
  <1>21. QED
    BY <1>1, <1>2, <1>3, <1>4, <1>5, <1>6, <1>7, <1>8, <1>9, <1>10,
       <1>11, <1>12, <1>13, <1>14, <1>15, <1>16, <1>17, <1>18, <1>19,
       <1>20, RequestCases
    DEF Next, Live, Startup, StepCoroutine, Handler, Terminated

(* A mark leaves the notifier only for a step that starts a build next.     *)
LEMMA NoLostNotificationStep == ControlInv /\ RevisionsPushed /\ NoLostNotification /\ [Next]_vars => NoLostNotification'
  <1> SUFFICES ASSUME ControlInv /\ RevisionsPushed /\ NoLostNotification, [Next]_vars PROVE NoLostNotification'
    OBVIOUS
  <1> USE MaxRevAssumption DEF NoLostNotification, RevisionsPushed,
      ControlInv, ObserverAgrees, IoThreadExclusive, RunningStates,
      TypeOK, IoTypeOK, BuildTypeOK, GhostTypeOK, Revisions, Steps,
      Goto, Resume, Suspend, At, webVars, ioVars, historyVars,
      buildVars, ghostVars
  <1>1. ASSUME NEW s \in Steps, SpawnStep(s) PROVE NoLostNotification'
    BY <1>1 DEF SpawnStep
  <1>2. ASSUME NEW s \in Steps, GetOneWaits(s) PROVE NoLostNotification'
    BY <1>2 DEF GetOneWaits, Register
  <1>3. ASSUME NEW s \in Steps, GetOneTakesPending(s) PROVE NoLostNotification'
    BY <1>3 DEF GetOneTakesPending, TakePending
  <1>4. ASSUME NEW s \in Steps, StartBuild(s) PROVE NoLostNotification'
    BY <1>4 DEF StartBuild, StartThread
  <1>5. ASSUME NEW s \in Steps, TakeResult(s) PROVE NoLostNotification'
    BY <1>5 DEF TakeResult
  <1>6. ASSUME NEW s \in Steps, FinishBuild(s) PROVE NoLostNotification'
    BY <1>6 DEF FinishBuild
  <1>7. ASSUME NEW s \in Steps, DeliverResult(s) PROVE NoLostNotification'
    BY <1>7 DEF DeliverResult
  <1>8. ASSUME NEW s \in Steps, BuildThread(s) PROVE NoLostNotification'
    BY <1>8 DEF BuildThread, StageDone, StageThrows, Verdicts
  <1>9. CASE RunIo
    BY <1>9 DEF RunIo
  <1>10. ASSUME NEW c \in Clients, Accept(c) PROVE NoLostNotification'
    BY <1>10 DEF Accept, OpenConnection
  <1>11. ASSUME NEW c \in Clients, ReceiveFails(c) PROVE NoLostNotification'
    BY <1>11 DEF ReceiveFails, CloseUnanswered
  <1>12. ASSUME NEW c \in Clients, NEW status \in {200, 403, 404},
                NEW content \in {OverviewPage, NoContent}, Answer(c, status, content)
         PROVE  NoLostNotification'
    BY <1>12 DEF Answer, QuickFinalResponse
  <1>13. ASSUME NEW c \in Clients, NEW request \in Requests, AcceptNotify(c, request)
         PROVE  NoLostNotification'
    BY <1>13 DEF AcceptNotify, EnterHandler
  <1>14. ASSUME NEW c \in Clients, NEW s \in Steps, NotifyWakes(c, s)
         PROVE  NoLostNotification'
    BY <1>14 DEF NotifyWakes, LeaveCall, Wake
  <1>15. ASSUME NEW c \in Clients, NotifyLeavesMark(c) PROVE NoLostNotification'
    BY <1>15 DEF NotifyLeavesMark, LeaveCall, Store, Saturate
  <1>16. ASSUME NEW c \in Clients, ConfirmNotify(c) PROVE NoLostNotification'
    BY <1>16 DEF ConfirmNotify, QuickFinalResponse
  <1>17. ASSUME NEW c \in Clients, ResponseEnds(c) PROVE NoLostNotification'
    BY <1>17 DEF ResponseEnds, FinishResponse
  <1>18. CASE AcceptFails
    BY <1>18 DEF AcceptFails
  <1>19. CASE PushRevision
    BY <1>19 DEF PushRevision, Push
  <1>20. CASE UNCHANGED vars
    BY <1>20 DEF vars
  <1>21. QED
    BY <1>1, <1>2, <1>3, <1>4, <1>5, <1>6, <1>7, <1>8, <1>9, <1>10,
       <1>11, <1>12, <1>13, <1>14, <1>15, <1>16, <1>17, <1>18, <1>19,
       <1>20, RequestCases
    DEF Next, Live, Startup, StepCoroutine, Handler, Terminated

LEMMA NotificationsInit == Init => RevisionsPushed /\ NoLostNotification
  <1> SUFFICES ASSUME Init PROVE RevisionsPushed /\ NoLostNotification
    OBVIOUS
  <1>1. \A c \in Clients : promised[c] = 0
    BY DEF Init
  <1>2. head = 1 /\ checkout = 0 /\ binary = 0 /\ attempted = 0 /\ verified = 0
    BY DEF Init, BuildInit
  <1>3. QED
    BY <1>1, <1>2 DEF RevisionsPushed, NoLostNotification

(* No accepted notification is lost, however requests, results and builds   *)
(* interleave.                                                              *)
THEOREM NotificationsAreKept == Spec => []NoLostNotification
  <1> DEFINE Inv == ControlInv /\ RevisionsPushed /\ NoLostNotification
  <1>1. Init => Inv
    BY ControlInvInit, NotificationsInit
  <1>2. Inv /\ [Next]_vars => Inv'
    BY ControlInvStep, RevisionsPushedStep, NoLostNotificationStep
  <1>3. QED
    BY <1>1, <1>2, PTL DEF Spec

----------------------------------------------------------------------------
(* The workspace                                                            *)

(* A position has passed what the one before it had passed, and the stage   *)
(* in between.                                                              *)
LEMMA PassedNext ==
    ASSUME NEW i \in 1 .. Len(Stages), NEW name
    PROVE  Passed(name, i + 1) <=> Passed(name, i) \/ Stages[i] = name
  BY PipelineLength DEF Passed

LEMMA PassedNothing ==
    ASSUME NEW name
    PROVE  ~Passed(name, 0) /\ ~Passed(name, 1)
  BY PipelineLength DEF Passed

(* What the order of the stages in each program amounts to.                 *)
OrderAt(i) ==
    /\ Stages[i] \in {"remove", "recreate"} => i = 1
    /\ Stages[i] = "clone" =>
          /\ ~Passed("clone", i)
          /\ Passed("recreate", i) \/ Passed("create", i)
          /\ Passed("recreate", i) \/ Passed("remove", i)
    /\ Stages[i] = "generate" => Passed("clone", i) /\ Passed("mkdir", i)
    /\ Stages[i] = "build" => Passed("clone", i) /\ Passed("generate", i)
    /\ Stages[i] = "test" => Passed("build", i)
    /\ i = Len(Stages) => Stages[i] \in {"build", "test"}

LEMMA PipelineOrder == \A i \in 1 .. Len(Stages) : OrderAt(i)
  <1>1. CASE Program = "tyroxx-ci"
    <2>1. Stages = TyroxxCiStages /\ Len(Stages) = 6
      BY <1>1 DEF Stages, TyroxxCiStages
    <2>2. QED
      BY <2>1 DEF OrderAt, Passed, TyroxxCiStages
  <1>2. CASE Program = "build_on_push"
    <2>1. Stages = BuildOnPushStages /\ Len(Stages) = 7
      BY <1>2 DEF Stages, BuildOnPushStages
    <2>2. QED
      BY <2>1 DEF OrderAt, Passed, BuildOnPushStages
  <1>3. CASE Program = "graph"
    <2>1. Stages = GraphStages /\ Len(Stages) = 6
      BY <1>3 DEF Stages, GraphStages
    <2>2. QED
      BY <2>1 DEF OrderAt, Passed, GraphStages
  <1>4. QED
    BY <1>1, <1>2, <1>3, ProgramAssumption DEF Programs

(* The workspace changes in a build thread only.                            *)
LEMMA WorkspaceSteps ==
    ASSUME [Next]_vars
    PROVE  \/ \E s \in Steps : StartBuild(s) \/ BuildThread(s)
           \/ UNCHANGED <<tree, checkout, binary, stage, attempted>>
  <1> USE DEF buildVars, ghostVars
  <1>1. ASSUME NEW s \in Steps,
               SpawnStep(s) \/ GetOneWaits(s) \/ GetOneTakesPending(s) \/ TakeResult(s)
                   \/ FinishBuild(s) \/ DeliverResult(s)
        PROVE  UNCHANGED <<tree, checkout, binary, stage, attempted>>
    BY <1>1 DEF SpawnStep, GetOneWaits, GetOneTakesPending, TakeResult,
                FinishBuild, DeliverResult
  <1>2. CASE RunIo \/ AcceptFails \/ PushRevision \/ UNCHANGED vars
    BY <1>2 DEF RunIo, AcceptFails, PushRevision, Push, vars
  <1>3. ASSUME NEW c \in Clients,
               Accept(c) \/ ReceiveFails(c) \/ Request(c) \/ Handler(c) \/ ResponseEnds(c)
        PROVE  UNCHANGED <<tree, checkout, binary, stage, attempted>>
    BY <1>3, RequestCases
    DEF Accept, ReceiveFails, Answer, AcceptNotify, Handler, NotifyWakes,
        NotifyLeavesMark, ConfirmNotify, ResponseEnds
  <1>4. QED
    BY <1>1, <1>2, <1>3 DEF Next, Live, Startup, StepCoroutine, Terminated

LEMMA WorkspaceAgreesStep ==
    ControlInv /\ RevisionsPushed /\ WorkspaceAgrees /\ [Next]_vars => WorkspaceAgrees'
  <1> SUFFICES ASSUME ControlInv, RevisionsPushed, WorkspaceAgrees, [Next]_vars
               PROVE  WorkspaceAgrees'
    OBVIOUS
  <1> USE DEF ControlInv, TypeOK, BuildTypeOK, GhostTypeOK, Steps
  <1>1. ASSUME NEW s \in Steps, StartBuild(s) PROVE WorkspaceAgrees'
    <2>1. stage'[s] = 1
      BY <1>1 DEF StartBuild, StartThread
    <2>2. QED
      BY <2>1, PassedNothing DEF WorkspaceAgrees, Passed
  <1>2. ASSUME NEW s \in Steps, stage'[s] = 0 PROVE WorkspaceAgrees'
    BY <1>2, PassedNothing DEF WorkspaceAgrees
  <1>3. ASSUME NEW s \in Steps, StageDone(s), stage'[s] # 0, attempted' = attempted
        PROVE  WorkspaceAgrees'
    <2> DEFINE i == stage[s]
               name == Stages[i]
    <2>1. i \in 1 .. Len(Stages) /\ stage'[s] = i + 1
      BY <1>3, PipelineLength DEF StageDone
    <2>2. /\ tree' = TreeAfter(name)
          /\ checkout' = CheckoutAfter(name)
          /\ binary' = BinaryAfter(name)
      BY <1>3 DEF StageDone
    <2>3. OrderAt(i)
      BY <2>1, PipelineOrder
    <2>4. \A n : Passed(n, i + 1) <=> Passed(n, i) \/ name = n
      BY <2>1, PassedNext
    <2>5. QED
      BY <1>3, <2>1, <2>2, <2>3, <2>4, PassedNothing
      DEF WorkspaceAgrees, OrderAt, TreeAfter, CheckoutAfter, BinaryAfter,
          RevisionsPushed, Revisions
  <1>4. ASSUME NEW s \in Steps, BuildThread(s) PROVE WorkspaceAgrees'
    <2>1. attempted' = attempted
      BY <1>4 DEF BuildThread, ghostVars
    <2>2. StageThrows(s) => stage'[s] = 0
      BY DEF StageThrows
    <2>3. QED
      BY <1>2, <1>3, <1>4, <2>1, <2>2 DEF BuildThread
  <1>5. CASE UNCHANGED <<tree, checkout, binary, stage, attempted>>
    BY <1>5 DEF WorkspaceAgrees, Passed
  <1>6. QED
    BY <1>1, <1>4, <1>5, WorkspaceSteps

LEMMA WorkspaceAgreesInit == Init => WorkspaceAgrees
  <1> SUFFICES ASSUME Init, NEW s \in Steps
               PROVE  \A name : ~Passed(name, stage[s])
    BY DEF WorkspaceAgrees
  <1>1. stage[s] = 0
    BY DEF Init, BuildInit
  <1>2. QED
    BY <1>1, PassedNothing

LEMMA WorkspaceInvariant ==
    Spec => [](ControlInv /\ RevisionsPushed /\ WorkspaceAgrees)
  <1> DEFINE Inv == ControlInv /\ RevisionsPushed /\ WorkspaceAgrees
  <1>1. Init => Inv
    BY ControlInvInit, NotificationsInit, WorkspaceAgreesInit
  <1>2. Inv /\ [Next]_vars => Inv'
    BY ControlInvStep, RevisionsPushedStep, WorkspaceAgreesStep
  <1>3. QED
    BY <1>1, <1>2, PTL DEF Spec

(* Whatever is in the workspace when a build starts, each of its stages     *)
(* finds what it needs; git clone never meets an old clone.                 *)
THEOREM InputsAreInPlace == Spec => []StagesFindTheirInputs
  <1>1. ControlInv /\ WorkspaceAgrees => StagesFindTheirInputs
    <2> SUFFICES ASSUME ControlInv, WorkspaceAgrees,
                        NEW s \in Steps, stage[s] # 0
                 PROVE  Ready(Stages[stage[s]])
      BY DEF StagesFindTheirInputs
    <2>1. stage[s] \in 1 .. Len(Stages)
      BY PipelineLength DEF ControlInv, TypeOK, BuildTypeOK
    <2>2. OrderAt(stage[s])
      BY <2>1, PipelineOrder
    <2>3. QED
      BY <2>2 DEF WorkspaceAgrees, OrderAt, Ready
  <1>2. QED
    BY <1>1, WorkspaceInvariant, PTL

----------------------------------------------------------------------------
(* Results and what clients are shown                                     *)

(* A build that succeeds has compiled a revision as new as the one it was   *)
(* started for.                                                             *)
LEMMA SuccessIsNewEnough ==
    ASSUME ControlInv, RevisionsPushed, WorkspaceAgrees,
           NEW s \in Steps, StageDone(s), outcome'[s] = "success"
    PROVE  binary' >= attempted
  <1> DEFINE i == stage[s]
             name == Stages[i]
  <1> USE DEF ControlInv, TypeOK, BuildTypeOK, GhostTypeOK, Revisions
  <1>1. i \in 1 .. Len(Stages)
    BY PipelineLength DEF StageDone
  <1>2. i = Len(Stages)
    <2>1. SUFFICES ASSUME i < Len(Stages) PROVE FALSE
      BY <1>1, PipelineLength
    <2>2. outcome'[s] = outcome[s]
      BY <2>1 DEF StageDone
    <2>3. outcome[s] = "none"
      BY <1>1, PipelineLength DEF BuildAgrees
    <2>4. QED
      BY <2>2, <2>3
  <1>3. OrderAt(i)
    BY <1>1, PipelineOrder
  <1>4. binary' = BinaryAfter(name)
    BY DEF StageDone
  <1>5. QED
    BY <1>2, <1>3, <1>4 DEF OrderAt, BinaryAfter, WorkspaceAgrees

(* A result is recorded for the revision it is about.                       *)
LEMMA ResultsAgreeStep ==
    ControlInv /\ RevisionsPushed /\ WorkspaceAgrees /\ ResultsAgree /\ [Next]_vars
        => ResultsAgree'
  <1> SUFFICES ASSUME ControlInv, RevisionsPushed, WorkspaceAgrees, ResultsAgree, [Next]_vars
               PROVE  ResultsAgree'
    OBVIOUS
  <1> USE DEF ResultsAgree, BuildAgrees, RevisionsPushed, ControlInv,
      TypeOK, IoTypeOK, BuildTypeOK, GhostTypeOK, Revisions, Steps,
      Goto, Resume, Suspend, At, webVars, ioVars, historyVars,
      buildVars, ghostVars
  <1>1. ASSUME NEW s \in Steps, SpawnStep(s) PROVE ResultsAgree'
    BY <1>1 DEF SpawnStep
  <1>2. ASSUME NEW s \in Steps, GetOneWaits(s) PROVE ResultsAgree'
    BY <1>2 DEF GetOneWaits, Register
  <1>3. ASSUME NEW s \in Steps, GetOneTakesPending(s) PROVE ResultsAgree'
    BY <1>3 DEF GetOneTakesPending, TakePending
  <1>4. ASSUME NEW s \in Steps, StartBuild(s) PROVE ResultsAgree'
    BY <1>4 DEF StartBuild, StartThread
  <1>5. ASSUME NEW s \in Steps, TakeResult(s) PROVE ResultsAgree'
    BY <1>5 DEF TakeResult, ResultOf
  <1>6. ASSUME NEW s \in Steps, FinishBuild(s) PROVE ResultsAgree'
    BY <1>6 DEF FinishBuild
  <1>7. ASSUME NEW s \in Steps, DeliverResult(s) PROVE ResultsAgree'
    BY <1>7 DEF DeliverResult
  <1>8. ASSUME NEW s \in Steps, BuildThread(s) PROVE ResultsAgree'
    <2>1. UNCHANGED <<builder, last_result, attempted, verified>>
      BY <1>8 DEF BuildThread
    <2>2. outcome'[s] = "success" => binary' >= attempted
      BY <1>8, SuccessIsNewEnough DEF BuildThread, StageThrows
    <2>3. QED
      BY <2>1, <2>2
  <1>9. CASE RunIo
    BY <1>9 DEF RunIo
  <1>10. ASSUME NEW c \in Clients, Accept(c) PROVE ResultsAgree'
    BY <1>10 DEF Accept, OpenConnection
  <1>11. ASSUME NEW c \in Clients, ReceiveFails(c) PROVE ResultsAgree'
    BY <1>11 DEF ReceiveFails, CloseUnanswered
  <1>12. ASSUME NEW c \in Clients, NEW status \in {200, 403, 404},
                NEW content \in {OverviewPage, NoContent}, Answer(c, status, content)
         PROVE  ResultsAgree'
    BY <1>12 DEF Answer, QuickFinalResponse
  <1>13. ASSUME NEW c \in Clients, NEW request \in Requests, AcceptNotify(c, request)
         PROVE  ResultsAgree'
    BY <1>13 DEF AcceptNotify, EnterHandler
  <1>14. ASSUME NEW c \in Clients, NEW s \in Steps, NotifyWakes(c, s)
         PROVE  ResultsAgree'
    BY <1>14 DEF NotifyWakes, LeaveCall, Wake, ObserverAgrees
  <1>15. ASSUME NEW c \in Clients, NotifyLeavesMark(c) PROVE ResultsAgree'
    BY <1>15 DEF NotifyLeavesMark, LeaveCall, Store, Saturate
  <1>16. ASSUME NEW c \in Clients, ConfirmNotify(c) PROVE ResultsAgree'
    BY <1>16 DEF ConfirmNotify, QuickFinalResponse
  <1>17. ASSUME NEW c \in Clients, ResponseEnds(c) PROVE ResultsAgree'
    BY <1>17 DEF ResponseEnds, FinishResponse
  <1>18. CASE AcceptFails
    BY <1>18 DEF AcceptFails
  <1>19. CASE PushRevision
    BY <1>19 DEF PushRevision, Push
  <1>20. CASE UNCHANGED vars
    BY <1>20 DEF vars
  <1> HIDE DEF ResultsAgree, BuildAgrees, RevisionsPushed, ControlInv, TypeOK
  <1>21. QED
    BY <1>1, <1>2, <1>3, <1>4, <1>5, <1>6, <1>7, <1>8, <1>9, <1>10,
       <1>11, <1>12, <1>13, <1>14, <1>15, <1>16, <1>17, <1>18, <1>19,
       <1>20, RequestCases
    DEF Next, Live, Startup, StepCoroutine, Handler, Terminated

LEMMA ResultsAgreeInit == Init => ResultsAgree
  <1> SUFFICES ASSUME Init, NEW s \in Steps
               PROVE  /\ outcome[s] = "none"
                      /\ builder[s] = "unspawned"
                      /\ last_result[s] = "not built"
    BY DEF ResultsAgree
  <1>1. QED
    BY DEF Init, BuildInit

ResultInv == ControlInv /\ RevisionsPushed /\ WorkspaceAgrees /\ ResultsAgree

LEMMA ResultInvInit == Init => ResultInv
  BY ControlInvInit, NotificationsInit, WorkspaceAgreesInit, ResultsAgreeInit DEF ResultInv

LEMMA ResultInvStep == ResultInv /\ [Next]_vars => ResultInv'
  BY ControlInvStep, RevisionsPushedStep, WorkspaceAgreesStep, ResultsAgreeStep DEF ResultInv

(* What an idle step reports as its last build is the build that was        *)
(* started last.                                                            *)
THEOREM ResultIsOfLastBuild == Spec => []ResultBelongsToLastBuild
  <1>1. ResultInv => ResultBelongsToLastBuild
    BY DEF ResultInv, ResultsAgree, ControlInv, BuildAgrees, ResultBelongsToLastBuild
  <1>2. QED
    BY <1>1, ResultInvInit, ResultInvStep, PTL DEF Spec

(* An answer is given with the start of a write and goes with its end.      *)
LEMMA RepliesAgreeStep == ControlInv /\ RepliesAgree /\ [Next]_vars => RepliesAgree'
  <1> SUFFICES ASSUME ControlInv /\ RepliesAgree, [Next]_vars PROVE RepliesAgree'
    OBVIOUS
  <1> USE DEF RepliesAgree, ControlInv, TypeOK, WebTypeOK, Steps, Goto,
      Resume, Suspend, At, webVars, ioVars, historyVars, buildVars,
      ghostVars
  <1>1. ASSUME NEW s \in Steps, SpawnStep(s) PROVE RepliesAgree'
    BY <1>1 DEF SpawnStep
  <1>2. ASSUME NEW s \in Steps, GetOneWaits(s) PROVE RepliesAgree'
    BY <1>2 DEF GetOneWaits, Register
  <1>3. ASSUME NEW s \in Steps, GetOneTakesPending(s) PROVE RepliesAgree'
    BY <1>3 DEF GetOneTakesPending, TakePending
  <1>4. ASSUME NEW s \in Steps, StartBuild(s) PROVE RepliesAgree'
    BY <1>4 DEF StartBuild, StartThread
  <1>5. ASSUME NEW s \in Steps, TakeResult(s) PROVE RepliesAgree'
    BY <1>5 DEF TakeResult
  <1>6. ASSUME NEW s \in Steps, FinishBuild(s) PROVE RepliesAgree'
    BY <1>6 DEF FinishBuild
  <1>7. ASSUME NEW s \in Steps, DeliverResult(s) PROVE RepliesAgree'
    BY <1>7 DEF DeliverResult
  <1>8. ASSUME NEW s \in Steps, BuildThread(s) PROVE RepliesAgree'
    BY <1>8 DEF BuildThread, StageDone, StageThrows, Verdicts
  <1>9. CASE RunIo
    BY <1>9 DEF RunIo
  <1>10. ASSUME NEW c \in Clients, Accept(c) PROVE RepliesAgree'
    BY <1>10 DEF Accept, OpenConnection
  <1>11. ASSUME NEW c \in Clients, ReceiveFails(c) PROVE RepliesAgree'
    BY <1>11 DEF ReceiveFails, CloseUnanswered
  <1>12. ASSUME NEW c \in Clients, NEW status \in {200, 403, 404},
                NEW content \in {OverviewPage, NoContent}, Answer(c, status, content)
         PROVE  RepliesAgree'
    BY <1>12 DEF Answer, QuickFinalResponse
  <1>13. ASSUME NEW c \in Clients, NEW request \in Requests, AcceptNotify(c, request)
         PROVE  RepliesAgree'
    BY <1>13 DEF AcceptNotify, EnterHandler
  <1>14. ASSUME NEW c \in Clients, NEW s \in Steps, NotifyWakes(c, s)
         PROVE  RepliesAgree'
    BY <1>14 DEF NotifyWakes, LeaveCall, Wake
  <1>15. ASSUME NEW c \in Clients, NotifyLeavesMark(c) PROVE RepliesAgree'
    BY <1>15 DEF NotifyLeavesMark, LeaveCall, Store, Saturate
  <1>16. ASSUME NEW c \in Clients, ConfirmNotify(c) PROVE RepliesAgree'
    BY <1>16 DEF ConfirmNotify, QuickFinalResponse
  <1>17. ASSUME NEW c \in Clients, ResponseEnds(c) PROVE RepliesAgree'
    BY <1>17 DEF ResponseEnds, FinishResponse
  <1>18. CASE AcceptFails
    BY <1>18 DEF AcceptFails
  <1>19. CASE PushRevision
    BY <1>19 DEF PushRevision, Push
  <1>20. CASE UNCHANGED vars
    BY <1>20 DEF vars
  <1>21. QED
    BY <1>1, <1>2, <1>3, <1>4, <1>5, <1>6, <1>7, <1>8, <1>9, <1>10,
       <1>11, <1>12, <1>13, <1>14, <1>15, <1>16, <1>17, <1>18, <1>19,
       <1>20, RequestCases
    DEF Next, Live, Startup, StepCoroutine, Handler, Terminated

(* In graph.cpp an idle step has no notification to catch up with.          *)
LEMMA IdleHasCaughtUp ==
    ASSUME ResultInv, NoLostNotification, Repeats, running = IoLoop, Reassuring(OverviewPage),
           NEW c \in Clients
    PROVE  verified >= promised[c]
  <1> DEFINE s == "silicium"
             row == [step |-> s, is_building |-> is_building[s],
                     last_result |-> last_result[s]]
  <1> USE DEF ResultInv, ControlInv, TypeOK, Steps
  <1>1. row \in OverviewPage
    BY DEF OverviewPage
  <1>2. ~is_building[s] /\ last_result[s] = "success"
    BY <1>1 DEF Reassuring
  <1>3. builder[s] = "waiting"
    <2>1. builder[s] \notin RunningStates
      BY ClientsAssumption DEF IoThreadExclusive
    <2>2. builder[s] \in BuilderStates
      BY DEF IoTypeOK
    <2>3. builder[s] \notin {"unspawned", "finished", "building"}
      BY <1>2 DEF ResultsAgree, BuildAgrees
    <2>4. QED
      BY <2>1, <2>2, <2>3 DEF RunningStates, BuilderStates
  <1>4. promised[c] <= attempted
    BY <1>3 DEF ObserverAgrees, NoLostNotification
  <1>5. verified >= attempted
    BY <1>2, <1>3 DEF ResultsAgree
  <1>6. QED
    BY <1>4, <1>5 DEF GhostTypeOK, Revisions

(* A build that replaces another as the last success is not of an older     *)
(* revision.                                                                *)
LEMMA VerifiedGrows == ResultInv /\ [Next]_vars => verified' >= verified
  <1> SUFFICES ASSUME ResultInv, [Next]_vars PROVE verified' >= verified
    OBVIOUS
  <1> USE DEF ghostVars
  <1>1. verified \in Nat /\ attempted \in Nat /\ binary \in Nat
    BY MaxRevAssumption
    DEF ResultInv, ControlInv, TypeOK, BuildTypeOK, GhostTypeOK, Revisions
  <1>2. ASSUME NEW s \in Steps, TakeResult(s) PROVE verified' >= verified
    <2>1. CASE outcome[s] = "success"
      <3>1. binary >= attempted /\ verified <= attempted
        BY <1>2, <2>1 DEF TakeResult, At, ResultInv, ResultsAgree
      <3>2. QED
        BY <1>2, <1>1, <2>1, <3>1 DEF TakeResult
    <2>2. CASE outcome[s] # "success"
      BY <1>2, <1>1, <2>2 DEF TakeResult
    <2>3. QED
      BY <2>1, <2>2
  <1>3. ASSUME NEW s \in Steps,
               \/ SpawnStep(s) \/ GetOneWaits(s) \/ GetOneTakesPending(s) \/ StartBuild(s)
               \/ FinishBuild(s) \/ DeliverResult(s) \/ BuildThread(s)
        PROVE  verified' = verified
    <2>1. SpawnStep(s) \/ GetOneWaits(s) \/ GetOneTakesPending(s) => verified' = verified
      BY DEF SpawnStep, GetOneWaits, GetOneTakesPending
    <2>2. StartBuild(s) => verified' = verified
      BY DEF StartBuild
    <2>3. FinishBuild(s) \/ DeliverResult(s) \/ BuildThread(s) => verified' = verified
      BY DEF FinishBuild, DeliverResult, BuildThread
    <2>4. QED
      BY <1>3, <2>1, <2>2, <2>3
  <1>4. CASE RunIo \/ AcceptFails \/ PushRevision \/ UNCHANGED vars
    BY <1>1, <1>4 DEF RunIo, AcceptFails, PushRevision, vars
  <1>5. ASSUME NEW c \in Clients,
               Accept(c) \/ ReceiveFails(c) \/ Request(c) \/ Handler(c) \/ ResponseEnds(c)
        PROVE  verified' = verified
    BY <1>5, RequestCases
    DEF Accept, ReceiveFails, Answer, AcceptNotify, Handler, NotifyWakes,
        NotifyLeavesMark, ConfirmNotify, ResponseEnds
  <1>6. QED
    BY <1>1, <1>2, <1>3, <1>4, <1>5
    DEF Next, Live, Startup, StepCoroutine, Terminated

SessionInv ==
    /\ ResultInv
    /\ NoLostNotification
    /\ RepliesAgree
    /\ SessionSeesOwnBuild

(* What changes the answer or the promise of a client c.                    *)
LEMMA SessionSteps ==
    ASSUME ControlInv, RepliesAgree, [Next]_vars, NEW c \in Clients
    PROVE  \/ reply'[c].content = NoContent
           \/ reply'[c] = reply[c] /\ promised'[c] = promised[c]
           \/ /\ running = IoLoop
              /\ reply'[c].content = OverviewPage
              /\ promised'[c] = promised[c]
  <1> DEFINE Goal == \/ reply'[c].content = NoContent
                     \/ reply'[c] = reply[c] /\ promised'[c] = promised[c]
                     \/ /\ running = IoLoop
                        /\ reply'[c].content = OverviewPage
                        /\ promised'[c] = promised[c]
  <1> USE DEF ControlInv, TypeOK, WebTypeOK, GhostTypeOK, webVars, ghostVars
  <1>1. ASSUME NEW s \in Steps,
               StepCoroutine(s) \/ SpawnStep(s) \/ DeliverResult(s) \/ BuildThread(s)
        PROVE  Goal
    BY <1>1 DEF StepCoroutine, SpawnStep, GetOneWaits, GetOneTakesPending, StartBuild,
                TakeResult, FinishBuild, DeliverResult, BuildThread
  <1>2. ASSUME RunIo \/ AcceptFails \/ PushRevision \/ UNCHANGED vars PROVE Goal
    BY <1>2 DEF RunIo, AcceptFails, PushRevision, vars
  <1>3. ASSUME NEW d \in Clients,
               Accept(d) \/ ReceiveFails(d) \/ \E request \in Requests : AcceptNotify(d, request)
        PROVE  Goal
    BY <1>3 DEF Accept, ReceiveFails, AcceptNotify, OpenConnection, CloseUnanswered,
                EnterHandler
  <1>4. ASSUME NEW d \in Clients,
               NotifyLeavesMark(d) \/ \E s \in Steps : NotifyWakes(d, s)
        PROVE  Goal
    <2>1. reply' = reply /\ reply[d].content = NoContent
      BY <1>4 DEF NotifyLeavesMark, NotifyWakes, LeaveCall, RepliesAgree, NoReply
    <2>2. c # d => promised'[c] = promised[c]
      BY <1>4 DEF NotifyLeavesMark, NotifyWakes
    <2>3. QED
      BY <2>1, <2>2
  <1>5. ASSUME NEW d \in Clients, ConfirmNotify(d) \/ ResponseEnds(d) PROVE Goal
    BY <1>5 DEF ConfirmNotify, QuickFinalResponse, ResponseEnds, FinishResponse, NoReply
  <1>6. ASSUME NEW d \in Clients, NEW status \in {200, 403, 404},
               NEW content \in {OverviewPage, NoContent}, Answer(d, status, content)
        PROVE  Goal
    BY <1>6 DEF Answer, QuickFinalResponse
  <1> HIDE DEF Goal, ControlInv, TypeOK
  <1>7. ASSUME NEW d \in Clients, Request(d) PROVE Goal
    BY <1>3, <1>6, <1>7, RequestCases
  <1>8. ASSUME NEW d \in Clients, Handler(d) PROVE Goal
    BY <1>4, <1>5, <1>8 DEF Handler
  <1>9. ASSUME NEW d \in Clients,
               Accept(d) \/ ReceiveFails(d) \/ Request(d) \/ Handler(d) \/ ResponseEnds(d)
        PROVE  Goal
    BY <1>3, <1>5, <1>7, <1>8, <1>9
  <1>10. ASSUME Live PROVE Goal
    BY <1>1, <1>2, <1>9, <1>10 DEF Live, Startup
  <1>11. Goal
    BY <1>2, <1>10 DEF Next, Terminated
  <1>12. QED
    BY <1>11 DEF Goal

LEMMA SessionInvStep == Repeats /\ SessionInv /\ [Next]_vars => SessionInv'
  <1> SUFFICES ASSUME Repeats, SessionInv, [Next]_vars PROVE SessionInv'
    OBVIOUS
  <1>1. ResultInv' /\ NoLostNotification' /\ RepliesAgree'
    BY ResultInvStep, NoLostNotificationStep, RepliesAgreeStep DEF SessionInv, ResultInv
  <1>2. ASSUME NEW c \in Clients, Reassuring(reply'[c].content)
        PROVE  verified' >= promised'[c]
    <2>1. /\ verified' >= verified
          /\ verified \in Nat /\ verified' \in Nat /\ promised[c] \in Nat
      BY <1>1, VerifiedGrows, MaxRevAssumption
      DEF SessionInv, ResultInv, ControlInv, TypeOK, GhostTypeOK, Revisions
    <2>2. reply'[c].content # NoContent
      BY <1>2 DEF Reassuring
    <2>3. CASE reply'[c] = reply[c] /\ promised'[c] = promised[c]
      BY <1>2, <2>1, <2>3 DEF SessionInv, SessionSeesOwnBuild
    <2>4. CASE /\ running = IoLoop
               /\ reply'[c].content = OverviewPage
               /\ promised'[c] = promised[c]
      <3>1. verified >= promised[c]
        BY <1>2, <2>4, IdleHasCaughtUp DEF SessionInv
      <3>2. QED
        BY <2>1, <2>4, <3>1
    <2>5. QED
      BY <2>2, <2>3, <2>4, SessionSteps DEF SessionInv, ResultInv
  <1>3. QED
    BY <1>1, <1>2 DEF SessionInv, SessionSeesOwnBuild

LEMMA SessionInvInit == Init => SessionInv
  <1> SUFFICES ASSUME Init PROVE SessionInv
    OBVIOUS
  <1>1. \A c \in Clients : reply[c] = NoReply
    BY DEF Init, WebInit
  <1>2. RepliesAgree /\ SessionSeesOwnBuild
    BY <1>1 DEF RepliesAgree, SessionSeesOwnBuild, Reassuring, NoReply
  <1>3. QED
    BY <1>2, ResultInvInit, NotificationsInit DEF SessionInv

(* graph.cpp: who is told 200 and later sees an idle server whose last      *)
(* build succeeded knows that the revision it notified about was built.     *)
THEOREM SessionGuarantee ==
    ASSUME Program = "graph"
    PROVE  Spec => []SessionSeesOwnBuild
  <1>1. Repeats
    BY DEF Repeats
  <1>2. SessionInv /\ [Next]_vars => SessionInv'
    BY <1>1, SessionInvStep
  <1>3. SessionInv => SessionSeesOwnBuild
    BY DEF SessionInv
  <1>4. QED
    BY <1>2, <1>3, SessionInvInit, PTL DEF Spec

----------------------------------------------------------------------------
(* Implementation of BuildTrigger                                           *)

(* What a step does to the abstract server.                                 *)
TriggerStep ==
    \/ Trigger!Commit
    \/ Trigger!Notify
    \/ Trigger!Start
    \/ Trigger!Succeed
    \/ Trigger!Fail
    \/ Trigger!Stop
    \/ UNCHANGED Trigger!triggerVars

LEMMA TriggerInitial == Init => Trigger!TriggerInit
  BY DEF Init, NotifierInit, BuildInit, Trigger!TriggerInit, Steps

(* Each step is one of the abstract server or leaves it alone.              *)
LEMMA TriggerSteps == ResultInv /\ [Next]_vars => TriggerStep
  <1> SUFFICES ASSUME ResultInv, [Next]_vars PROVE TriggerStep
    OBVIOUS
  <1>0. ControlInv
    BY DEF ResultInv
  <1> USE <1>0 DEF TriggerStep, Trigger!Commit, Trigger!Notify, Trigger!Start,
      Trigger!Succeed, Trigger!Fail, Trigger!Stop, Trigger!triggerVars,
      ObserverAgrees, IoThreadExclusive, RunningStates,
      ControlInv, TypeOK, IoTypeOK, Steps, Goto, Resume, Suspend, At,
      webVars, ioVars, historyVars, buildVars, ghostVars
  <1>1. ASSUME NEW s \in Steps, SpawnStep(s) PROVE TriggerStep
    BY <1>1 DEF SpawnStep
  <1>2. ASSUME NEW s \in Steps, GetOneWaits(s) PROVE TriggerStep
    BY <1>2 DEF GetOneWaits, Register
  <1>3. ASSUME NEW s \in Steps, GetOneTakesPending(s) PROVE TriggerStep
    BY <1>3 DEF GetOneTakesPending, TakePending
  <1>4. ASSUME NEW s \in Steps, alive, StartBuild(s) PROVE TriggerStep
    BY <1>4 DEF StartBuild, StartThread
  <1>5. ASSUME NEW s \in Steps, alive, TakeResult(s) PROVE TriggerStep
    <2>1. CASE outcome[s] = "success"
      <3>1. binary >= attempted /\ binary <= head
        BY <1>5, <2>1 DEF TakeResult, ResultInv, ResultsAgree, RevisionsPushed
      <3>2. verified' \in attempted .. head
        BY <1>5, <2>1, <3>1, MaxRevAssumption
        DEF TakeResult, BuildTypeOK, GhostTypeOK, Revisions
      <3>3. QED
        BY <1>5, <2>1, <3>2 DEF TakeResult, ResultOf
    <2>2. CASE outcome[s] # "success"
      BY <1>5, <2>2 DEF TakeResult, ResultOf
    <2>3. QED
      BY <2>1, <2>2
  <1>6. ASSUME NEW s \in Steps, FinishBuild(s) PROVE TriggerStep
    BY <1>6 DEF FinishBuild
  <1>7. ASSUME NEW s \in Steps, DeliverResult(s) PROVE TriggerStep
    BY <1>7 DEF DeliverResult
  <1>8. ASSUME NEW s \in Steps, BuildThread(s) PROVE TriggerStep
    BY <1>8 DEF BuildThread, StageDone, StageThrows, Verdicts
  <1>9. CASE RunIo
    BY <1>9 DEF RunIo
  <1>10. ASSUME NEW c \in Clients, Accept(c) PROVE TriggerStep
    BY <1>10 DEF Accept, OpenConnection
  <1>11. ASSUME NEW c \in Clients, alive, ReceiveFails(c) PROVE TriggerStep
    BY <1>11 DEF ReceiveFails, CloseUnanswered
  <1>12. ASSUME NEW c \in Clients, NEW status \in {200, 403, 404},
                NEW content \in {OverviewPage, NoContent}, Answer(c, status, content)
         PROVE  TriggerStep
    BY <1>12 DEF Answer, QuickFinalResponse
  <1>13. ASSUME NEW c \in Clients, NEW request \in Requests, AcceptNotify(c, request)
         PROVE  TriggerStep
    BY <1>13 DEF AcceptNotify, EnterHandler
  <1>14. ASSUME NEW c \in Clients, NEW s \in Steps, alive, NotifyWakes(c, s)
         PROVE  TriggerStep
    BY <1>14 DEF NotifyWakes, LeaveCall, Wake
  <1>15. ASSUME NEW c \in Clients, alive, NotifyLeavesMark(c) PROVE TriggerStep
    BY <1>15 DEF NotifyLeavesMark, LeaveCall, Store, Saturate
  <1>16. ASSUME NEW c \in Clients, ConfirmNotify(c) PROVE TriggerStep
    BY <1>16 DEF ConfirmNotify, QuickFinalResponse
  <1>17. ASSUME NEW c \in Clients, ResponseEnds(c) PROVE TriggerStep
    BY <1>17 DEF ResponseEnds, FinishResponse
  <1>18. CASE AcceptFails
    BY <1>18 DEF AcceptFails
  <1>19. CASE PushRevision
    BY <1>19 DEF PushRevision, Push
  <1>20. CASE UNCHANGED vars
    BY <1>20 DEF vars
  <1> HIDE DEF TriggerStep, ControlInv
  <1>21. QED
    BY <1>1, <1>2, <1>3, <1>4, <1>5, <1>6, <1>7, <1>8, <1>9, <1>10,
       <1>11, <1>12, <1>13, <1>14, <1>15, <1>16, <1>17, <1>18, <1>19,
       <1>20, RequestCases
    DEF Next, Live, Startup, StepCoroutine, Handler, Terminated

(* Each of the programs does only what the abstract server may do: builds   *)
(* start for a notification that came since the last start, never overlap,  *)
(* and end with a result, and a success is about a revision at least as new *)
(* as the newest one that was there at the start.                           *)
THEOREM ImplementsTriggerSafety == Spec => Trigger!TriggerSafety
  <1>1. ResultInv /\ [Next]_vars => [Trigger!TriggerNext]_(Trigger!triggerVars)
    BY TriggerSteps DEF TriggerStep, Trigger!TriggerNext, Trigger!Finish
  <1>2. QED
    BY <1>1, TriggerInitial, ResultInvInit, ResultInvStep, PTL DEF Spec, Trigger!TriggerSafety

----------------------------------------------------------------------------
(* Programs whose steps build once                                          *)

(* A step that has ended stays so, starts no build and shows what it shows, *)
(* and a notification nobody waited for is kept and never taken.            *)
EndedForGood(s) ==
    builder[s] = "finished" =>
        /\ builder'[s] = "finished"
        /\ UNCHANGED <<attempted, historyVars>>
        /\ slot = Notification => slot' = Notification

(* The step of graph.cpp never ends (graph.cpp:484).  When that of          *)
(* tyroxx-ci.cpp or build_on_push.cpp has ended, no notification, however   *)
(* many are accepted, makes it build again (tyroxx-ci.cpp:397-436,          *)
(* build_on_push.cpp:418-459).                                              *)
THEOREM EndedStepsNeverBuild ==
    Spec => /\ [](Repeats => \A s \in Steps : builder[s] # "finished")
            /\ [][\A s \in Steps : EndedForGood(s)]_vars
  <1>1. ResultInv => (Repeats => \A s \in Steps : builder[s] # "finished")
    BY DEF ResultInv, ResultsAgree
  <1>2. ResultInv /\ [Next]_vars => [\A s \in Steps : EndedForGood(s)]_vars
    <2> SUFFICES ASSUME ResultInv, Next, NEW s \in Steps, builder[s] = "finished"
                 PROVE  /\ builder'[s] = "finished"
                        /\ UNCHANGED <<attempted, historyVars>>
                        /\ slot = Notification => slot' = Notification
      BY DEF EndedForGood
    <2> DEFINE Kept == /\ UNCHANGED <<builder, attempted, historyVars>>
                       /\ slot = Notification => slot' = Notification
    <2>1. \A t \in Steps : ~At(t, "get_one") /\ ~At(t, "notified") /\ ~At(t, "result")
                           /\ ~At(t, "recorded") /\ builder[t] \notin {"unspawned", "building"}
      BY DEF At, Steps
    <2>2. \A t \in Steps : slot # t
      BY DEF ResultInv, ControlInv, ObserverAgrees, Steps
    <2>3. ASSUME NEW t \in Steps
          PROVE  ~SpawnStep(t) /\ ~StepCoroutine(t) /\ ~DeliverResult(t)
      BY <2>1 DEF SpawnStep, StepCoroutine, GetOneWaits, GetOneTakesPending, StartBuild,
                  TakeResult, FinishBuild, DeliverResult
    <2>4. ASSUME NEW t \in Steps, BuildThread(t) PROVE Kept
      BY <2>4 DEF BuildThread, ioVars, ghostVars
    <2>5. ASSUME RunIo \/ AcceptFails \/ PushRevision \/ UNCHANGED vars PROVE Kept
      BY <2>5 DEF RunIo, AcceptFails, PushRevision, vars, ioVars, ghostVars
    <2>6. ASSUME NEW c \in Clients, Accept(c) \/ ReceiveFails(c) \/ Request(c) \/ ResponseEnds(c)
          PROVE  Kept
      BY <2>6, RequestCases
      DEF Accept, ReceiveFails, Answer, AcceptNotify, ResponseEnds, ioVars, ghostVars
    <2>7. ASSUME NEW c \in Clients, Handler(c) PROVE Kept
      BY <2>2, <2>7
      DEF Handler, NotifyWakes, Wake, NotifyLeavesMark, Store, Saturate, ConfirmNotify,
          ioVars, ghostVars
    <2>8. Kept
      BY <2>3, <2>4, <2>5, <2>6, <2>7 DEF Next, Live, Startup, Terminated
    <2>9. QED
      BY <2>8
  <1>3. QED
    BY <1>1, <1>2, ResultInvInit, ResultInvStep, PTL DEF Spec

===========================================================================
