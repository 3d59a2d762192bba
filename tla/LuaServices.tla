---------------------------- MODULE LuaServices ----------------------------
(***************************************************************************)
(* The steps of examples/lua_services.cpp: a tree of dag_nodes, each with  *)
(* a step that turns an input into a process, and handle_input, which      *)
(* starts the process of a node and hands its result to the nodes below.   *)
(*                                                                         *)
(* Every handler runs on the one thread that is in io.run(), in the order  *)
(* in which the handlers became ready.  A node is a number; the root is 1  *)
(* and the edges of a node are in the order of their numbers.              *)
(***************************************************************************)
EXTENDS Naturals, Sequences

CONSTANT N                         \* bound: the number of dag_nodes

ASSUME NAssumption == N \in Nat \ {0}

VARIABLES
    parent,       \* the tree: the node above each node, 0 above the root
    kind,         \* what each node's step makes of its input
    place,        \* where main is
    status,       \* how far each node is
    input,        \* the input each node was given
    result,       \* what each node's process passed to its result_handler
    posted,       \* handlers that are ready to run, by their nodes
    timers,       \* nodes whose timer is running
    handling,     \* the node whose result_handler runs, 0 for none
    edge          \* the last node that handler has handed its result to

treeVars == <<parent, kind>>
nodeVars == <<status, input, result>>
queueVars == <<posted, timers>>
vars == <<treeVars, place, nodeVars, queueVars, handling, edge>>

Nodes == 1 .. N
Root  == 1
None  == 0

(* What handle_input can meet.  A step that returns a null pointer ignores  *)
(* its input; the tree built by main has none, but is one of those that     *)
(* Init allows.                                                             *)
Kinds == {"step_a", "delay", "ignoring"}

(* process_result; handle_input(root, {}) passes the first alternative of   *)
(* the variant, an empty failure_description.                               *)
Results == {"empty_failure", "timer_failure", "memory_blob"}

Init ==
    /\ parent \in {p \in [Nodes -> 0 .. N] : \A n \in Nodes : p[n] < n /\ (p[n] = None <=> n = Root)}
    /\ kind \in [Nodes -> Kinds]
    /\ place = "construct"
    /\ status = [n \in Nodes |-> "unreached"]
    /\ input = [n \in Nodes |-> "empty_failure"]
    /\ result = [n \in Nodes |-> "empty_failure"]
    /\ posted = <<>>
    /\ timers = {}
    /\ handling = None
    /\ edge = None

(* Seeded fault: the last handler posted is the first to run.               *)
HandleInput_Prepends(n, value) ==
    /\ status' = [status EXCEPT ![n] = IF kind[n] = "ignoring" THEN "ignored" ELSE "started"]
    /\ input' = [input EXCEPT ![n] = value]
    /\ posted' = IF kind[n] = "step_a" THEN <<n>> \o posted ELSE posted
    /\ timers' = IF kind[n] = "delay" THEN timers \cup {n} ELSE timers

(* handle_input: start the node's process, unless the step ignores the      *)
(* input, and ask it for its result.  step_a posts its handler, delay       *)
(* starts its timer; neither calls the handler before it returns.           *)
HandleInput(n, value) ==
    /\ status' = [status EXCEPT ![n] = IF kind[n] = "ignoring" THEN "ignored" ELSE "started"]
    /\ input' = [input EXCEPT ![n] = value]
    /\ posted' = IF kind[n] = "step_a" THEN Append(posted, n) ELSE posted
    /\ timers' = IF kind[n] = "delay" THEN timers \cup {n} ELSE timers

(* main: handle_input(root, {}).                                            *)
Begin ==
    /\ place = "construct"
    /\ place' = "run"
    /\ HandleInput(Root, "empty_failure")
    /\ UNCHANGED <<treeVars, result, handling, edge>>

(* Seeded fault: the timer goes on running.                                 *)
TimerElapses_Rearms(n) ==
    /\ place = "run"
    /\ handling = None
    /\ n \in timers
    /\ posted' = Append(posted, n)
    /\ UNCHANGED <<treeVars, place, nodeVars, timers, handling, edge>>

(* The timer of a delay has elapsed, and io.run(), which looks for elapsed  *)
(* timers between two handlers, puts its handler behind those that are      *)
(* ready.  The error code is a success: nobody cancels the timer, and the   *)
(* process it belongs to is kept until its result was handled.              *)
TimerElapses(n) ==
    /\ place = "run"
    /\ handling = None
    /\ n \in timers
    /\ timers' = timers \ {n}
    /\ posted' = Append(posted, n)
    /\ UNCHANGED <<treeVars, place, nodeVars, handling, edge>>

(* Seeded fault: a result_handler is given the error code of the timer.     *)
OutputOf_ErrorCode(n) == IF kind[n] = "delay" THEN "error_code" ELSE "memory_blob"

(* What a process passes to its result_handler.  delay takes the success of *)
(* its timer for a failure.                                                 *)
OutputOf(n) == IF kind[n] = "delay" THEN "timer_failure" ELSE "memory_blob"

(* io.run() calls the handler that has been ready for longest.              *)
BeginHandler ==
    /\ place = "run"
    /\ handling = None
    /\ posted # <<>>
    /\ handling' = Head(posted)
    /\ posted' = Tail(posted)
    /\ edge' = None
    /\ status' = [status EXCEPT ![Head(posted)] = "done"]
    /\ result' = [result EXCEPT ![Head(posted)] = OutputOf(Head(posted))]
    /\ UNCHANGED <<treeVars, place, input, timers>>

(* The edges the running handler has not followed yet.                      *)
EdgesLeft == {m \in Nodes : parent[m] = handling /\ m > edge}

(* Seeded fault: the nodes below get the input of the node again.           *)
FollowEdge_PassesInput(m) ==
    /\ handling # None
    /\ m \in EdgesLeft
    /\ \A k \in EdgesLeft : m <= k
    /\ HandleInput(m, input[handling])
    /\ edge' = m
    /\ UNCHANGED <<treeVars, place, result, handling>>

(* One turn of the loop over start.edges.                                   *)
FollowEdge(m) ==
    /\ handling # None
    /\ m \in EdgesLeft
    /\ \A k \in EdgesLeft : m <= k
    /\ HandleInput(m, result[handling])
    /\ edge' = m
    /\ UNCHANGED <<treeVars, place, result, handling>>

HandlerReturns ==
    /\ handling # None
    /\ EdgesLeft = {}
    /\ handling' = None
    /\ UNCHANGED <<treeVars, place, nodeVars, queueVars, edge>>

(* Seeded fault: io.run() returns although timers are running.              *)
RunReturns_DespiteTimers ==
    /\ place = "run"
    /\ handling = None
    /\ posted = <<>>
    /\ place' = "returned"
    /\ UNCHANGED <<treeVars, nodeVars, queueVars, handling, edge>>

(* Seeded fault: main waits for a result of every node.                     *)
RunReturns_AllDone ==
    /\ place = "run"
    /\ handling = None
    /\ \A n \in Nodes : status[n] = "done"
    /\ place' = "returned"
    /\ UNCHANGED <<treeVars, nodeVars, queueVars, handling, edge>>

(* io.run() returns when nothing is left to wait for.                       *)
RunReturns ==
    /\ place = "run"
    /\ handling = None
    /\ posted = <<>>
    /\ timers = {}
    /\ place' = "returned"
    /\ UNCHANGED <<treeVars, nodeVars, queueVars, handling, edge>>

MainThread ==
    \/ Begin
    \/ BeginHandler
    \/ \E m \in Nodes : FollowEdge(m)
    \/ HandlerReturns
    \/ RunReturns

Next ==
    \/ MainThread
    \/ \E n \in Nodes : TimerElapses(n)

Spec == Init /\ [][Next]_vars

(* main goes on while it can, and a timer that runs elapses: io.run() looks *)
(* at the timers whenever it has no handler to run.                         *)
FairSpec ==
    /\ Spec
    /\ WF_vars(MainThread)
    /\ \A n \in Nodes : WF_vars(TimerElapses(n))

----------------------------------------------------------------------------

(* Every variable keeps to its type; in particular a step is only ever      *)
(* given one of the alternatives of process_result (lua_services.cpp:41).   *)
TypeOK ==
    /\ parent \in [Nodes -> 0 .. N]
    /\ kind \in [Nodes -> Kinds]
    /\ place \in {"construct", "run", "returned"}
    /\ status \in [Nodes -> {"unreached", "ignored", "started", "done"}]
    /\ input \in [Nodes -> Results]
    /\ result \in [Nodes -> Results]
    /\ posted \in Seq(Nodes)
    /\ timers \subseteq Nodes
    /\ handling \in 0 .. N
    /\ edge \in 0 .. N

(* A process that was started has exactly one way to its result_handler, a  *)
(* queued handler or a running timer, and one that was not has none: a      *)
(* result is neither lost nor delivered twice (lua_services.cpp:178).       *)
OneResultEach ==
    \A n \in Nodes :
        LET ready == {i \in DOMAIN posted : posted[i] = n} IN
        /\ status[n] = "started" <=> (ready # {} \/ n \in timers)
        /\ n \in timers => ready = {}
        /\ \A i, j \in ready : i = j

(* A step runs after the step above it and on that step's result, although  *)
(* other handlers run in between (lua_services.cpp:181-184).                *)
InputIsResultOfParent ==
    \A n \in Nodes \ {Root} :
        status[n] # "unreached" =>
            /\ status[parent[n]] = "done"
            /\ input[n] = result[parent[n]]

(* When io.run() returns, every step has had its result handled, except for *)
(* those below a step that ignored its input (lua_services.cpp:205).        *)
NothingLeftBehind ==
    place = "returned" =>
        \A n \in Nodes :
            \/ status[n] \in {"done", "ignored"}
            \/ n # Root /\ status[parent[n]] \in {"ignored", "unreached"}

(* Steps that post their results and are started by the same result finish  *)
(* in the order of the edges, whatever else is queued (lua_services.cpp:181)*)
SiblingsInOrder ==
    \A m, n \in Nodes :
        /\ m < n
        /\ parent[m] = parent[n]
        /\ kind[m] = "step_a"
        /\ kind[n] = "step_a"
        /\ status[n] = "done"
        => status[m] = "done"

(* io.run() returns, because a tree of steps comes to an end                *)
(* (lua_services.cpp:205).                                                  *)
Returns == <>(place = "returned")

(* A delay whose timer elapsed without an error on the system level passes  *)
(* on what it was given as its output (lua_services.cpp:71, 90-97).         *)
DelayPassesOutputOn ==
    \A n \in Nodes :
        kind[n] = "delay" /\ status[n] = "done" => result[n] = input[n]

============================================================================
