---------------------------- MODULE RunProcess ----------------------------
(***************************************************************************)
(* run_process, by which a build thread runs git and the tests             *)
(* (tyroxx-ci/tyroxx-ci.cpp:279-301 and the same function in the two       *)
(* examples): a child process writes to an anonymous pipe, an io_service   *)
(* of its own reads the pipe until its end, and only then is the child     *)
(* waited for.                                                             *)
(*                                                                         *)
(* A pipe ends when nobody can write to it any more.  The write end is     *)
(* held by the caller until it closes its handle, by the child, and by a   *)
(* descendant the child may leave behind.  Output is counted in units, and *)
(* the pipe holds at most Capacity of them.                                *)
(***************************************************************************)
EXTENDS Naturals

CONSTANTS
    Capacity,     \* units of output the pipe holds
    MaxOutput     \* bound: units of output one process writes

ASSUME CapacityAssumption == Capacity \in Nat \ {0}
ASSUME MaxOutputAssumption == MaxOutput \in Nat

VARIABLES
    place,        \* where the caller is in run_process
    writers,      \* who holds a handle of the pipe's write end
    child,        \* the child process
    forked,       \* the child has started its descendant (bound: one)
    todo,         \* units each process still has to write
    pipe,         \* units in the pipe
    written,      \* units ever written
    received      \* units passed on to the output sink

processVars == <<place, writers, child, forked, todo, pipe, written, received>>

Processes == {"child", "descendant"}

Places == {"launch", "read", "close", "run", "wait", "returned", "threw"}

Init ==
    /\ place = "launch"
    /\ writers = {"caller"}
    /\ child = "none"
    /\ forked = FALSE
    /\ todo = [p \in Processes |-> 0]
    /\ pipe = 0
    /\ written = 0
    /\ received = 0

(* launch_process: the child inherits the write end as its output.          *)
Launch ==
    /\ place = "launch"
    /\ place' = "read"
    /\ child' = "running"
    /\ writers' = writers \cup {"child"}
    /\ \E n \in 0 .. MaxOutput : todo' = [todo EXCEPT !["child"] = n]
    /\ UNCHANGED <<forked, pipe, written, received>>

(* make_pipe, open_reading or launch_process fails: move_value throws and   *)
(* the destructors close the caller's handles.                              *)
LaunchFails ==
    /\ place = "launch"
    /\ place' = "threw"
    /\ writers' = writers \ {"caller"}
    /\ UNCHANGED <<child, forked, todo, pipe, written, received>>

(* read_from_anonymous_pipe takes the read end over.                        *)
StartReading ==
    /\ place = "read"
    /\ place' = "close"
    /\ UNCHANGED <<writers, child, forked, todo, pipe, written, received>>

(* Seeded fault: the caller keeps its handle of the write end.              *)
CloseWriteEnd_Forgotten ==
    /\ place = "close"
    /\ place' = "run"
    /\ UNCHANGED <<writers, child, forked, todo, pipe, written, received>>

(* standard_output_and_error.write.close()                                  *)
CloseWriteEnd ==
    /\ place = "close"
    /\ place' = "run"
    /\ writers' = writers \ {"caller"}
    /\ UNCHANGED <<child, forked, todo, pipe, written, received>>

(* Seeded fault: the sink gets the whole buffer, however much was read.     *)
Receive_WholeBuffer ==
    /\ place = "run"
    /\ pipe > 0
    /\ pipe' = pipe - Capacity
    /\ received' = received + Capacity
    /\ UNCHANGED <<place, writers, child, forked, todo, written>>

(* io.run() moves output from the pipe to the sink.                         *)
Receive ==
    /\ place = "run"
    /\ pipe > 0
    /\ \E n \in 1 .. pipe :
          /\ pipe' = pipe - n
          /\ received' = received + n
    /\ UNCHANGED <<place, writers, child, forked, todo, written>>

(* Seeded fault: reading stops as soon as the pipe is empty.                *)
EndOfPipe_WhenEmpty ==
    /\ place = "run"
    /\ pipe = 0
    /\ place' = "wait"
    /\ UNCHANGED <<writers, child, forked, todo, pipe, written, received>>

(* Seeded fault: the caller goes on to wait_for_exit without reading.       *)
EndOfPipe_NotAwaited ==
    /\ place = "run"
    /\ place' = "wait"
    /\ UNCHANGED <<writers, child, forked, todo, pipe, written, received>>

(* io.run() returns at the end of the pipe.                                 *)
EndOfPipe ==
    /\ place = "run"
    /\ pipe = 0
    /\ writers = {}
    /\ place' = "wait"
    /\ UNCHANGED <<writers, child, forked, todo, pipe, written, received>>

(* wait_for_exit() returns the exit code of a child that has ended.         *)
WaitForExit ==
    /\ place = "wait"
    /\ child = "exited"
    /\ place' = "returned"
    /\ UNCHANGED <<writers, child, forked, todo, pipe, written, received>>

(* wait_for_exit() reports an error instead, whatever the child does: get() *)
(* throws.                                                                  *)
WaitForExitFails ==
    /\ place = "wait"
    /\ place' = "threw"
    /\ UNCHANGED <<writers, child, forked, todo, pipe, written, received>>

(* A process writes, or blocks while the pipe is full.                      *)
Write(p) ==
    /\ p \in writers
    /\ todo[p] > 0
    /\ pipe < Capacity
    /\ todo' = [todo EXCEPT ![p] = @ - 1]
    /\ pipe' = pipe + 1
    /\ written' = written + 1
    /\ UNCHANGED <<place, writers, child, forked, received>>

(* The child starts a process that inherits its output and may outlive it.  *)
Fork ==
    /\ child = "running"
    /\ "child" \in writers
    /\ ~forked
    /\ forked' = TRUE
    /\ writers' = writers \cup {"descendant"}
    /\ \E n \in 0 .. MaxOutput : todo' = [todo EXCEPT !["descendant"] = n]
    /\ UNCHANGED <<place, child, pipe, written, received>>

(* A process that has written everything closes its output.  The child may  *)
(* do so long before it exits.                                              *)
CloseOutput(p) ==
    /\ p \in writers
    /\ todo[p] = 0
    /\ writers' = writers \ {p}
    /\ UNCHANGED <<place, child, forked, todo, pipe, written, received>>

Exit ==
    /\ child = "running"
    /\ todo["child"] = 0
    /\ child' = "exited"
    /\ writers' = writers \ {"child"}
    /\ UNCHANGED <<place, forked, todo, pipe, written, received>>

Caller ==
    \/ Launch \/ LaunchFails \/ StartReading \/ CloseWriteEnd
    \/ Receive \/ EndOfPipe \/ WaitForExit

Next ==
    \/ Caller
    \/ WaitForExitFails
    \/ \E p \in Processes : Write(p) \/ CloseOutput(p)
    \/ Fork
    \/ Exit

Spec == Init /\ [][Next]_processVars

(* The caller goes on when it can, and the commands are assumed to end: a   *)
(* process that can write does so, the child exits, and no descendant keeps *)
(* its output open forever.  That the wait fails is never assumed.          *)
FairSpec ==
    /\ Spec
    /\ WF_processVars(Caller)
    /\ \A p \in Processes : WF_processVars(Write(p)) /\ WF_processVars(CloseOutput(p))
    /\ WF_processVars(Exit)

----------------------------------------------------------------------------

(* Every variable keeps to its type: the pipe never holds more than its     *)
(* capacity, and the sink never gets more from it than it holds             *)
(* (tyroxx-ci.cpp:295-298).                                                 *)
TypeOK ==
    /\ place \in Places
    /\ writers \subseteq {"caller"} \cup Processes
    /\ forked \in BOOLEAN
    /\ child \in {"none", "running", "exited"}
    /\ todo \in [Processes -> 0 .. MaxOutput]
    /\ pipe \in 0 .. Capacity
    /\ written \in Nat
    /\ received \in Nat

(* When run_process returns, every unit that any process wrote or is going  *)
(* to write has reached the output sink: the log of a failed build is whole *)
(* (tyroxx-ci.cpp:295-299).                                                 *)
WholeOutput ==
    place = "returned" =>
        /\ received = written
        /\ writers = {}
        /\ \A p \in Processes : todo[p] = 0

CallerCanGoOn ==
    \/ place \in {"launch", "read", "close"}
    \/ place = "run" /\ (pipe > 0 \/ writers = {})
    \/ place = "wait" /\ child = "exited"

CanGoOn(p) ==
    \/ p \in writers /\ (todo[p] = 0 \/ pipe < Capacity)
    \/ p = "child" /\ child = "running" /\ todo[p] = 0

(* The caller and its processes never wait for each other: as long as       *)
(* run_process has not come back, the caller can go on, or else a process   *)
(* it started can, and it is that process the build hangs on                *)
(* (tyroxx-ci.cpp:296-299).                                                 *)
NoDeadlock ==
    place \notin {"returned", "threw"} =>
        CallerCanGoOn \/ \E p \in Processes : CanGoOn(p)

(* run_process comes back however much the child writes and whether or not  *)
(* it leaves a descendant behind, because the caller gave up its own write  *)
(* end before it waits for the end of the pipe (tyroxx-ci.cpp:297-298).     *)
Terminates == <>(place \in {"returned", "threw"})

(* The child is never left blocked on a full pipe by a caller that waits    *)
(* for its exit (tyroxx-ci.cpp:298-299).                                    *)
ChildExits == child = "running" ~> child = "exited"

===========================================================================
