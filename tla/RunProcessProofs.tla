-------------------------- MODULE RunProcessProofs --------------------------
(***************************************************************************)
(* Theorems about RunProcess, for every capacity of the pipe and every     *)
(* amount of output.                                                       *)
(***************************************************************************)
EXTENDS RunProcess, TLAPS

(* Nothing is lost between the pipe and the sink; whoever still has         *)
(* something to write holds the write end, and only who was started holds   *)
(* it; once the caller has seen the end of the pipe nobody can write any    *)
(* more; and a caller that waits for that end has started a child and is no *)
(* writer itself.                                                           *)
OutputInv ==
    /\ TypeOK
    /\ written = received + pipe
    /\ \A p \in Processes : todo[p] # 0 => p \in writers
    /\ "child" \in writers => child = "running"
    /\ "descendant" \in writers => forked
    /\ place = "launch" => child = "none"
    /\ place \in {"read", "close", "run", "wait"} => child # "none"
    /\ place \in {"run", "wait"} => "caller" \notin writers
    /\ place \in {"wait", "returned"} => writers = {} /\ pipe = 0

LEMMA OutputInvInit == Init => OutputInv
  <1> SUFFICES ASSUME Init PROVE OutputInv
    OBVIOUS
  <1> USE CapacityAssumption, MaxOutputAssumption DEF Init
  <1>1. todo \in [Processes -> 0 .. MaxOutput]
    <2>1. 0 \in 0 .. MaxOutput
      OBVIOUS
    <2>2. QED
      BY <2>1
  <1>2. TypeOK
    <2>1. place \in Places /\ forked \in BOOLEAN
      BY DEF Places
    <2>2. pipe \in 0 .. Capacity /\ written \in Nat /\ received \in Nat
      OBVIOUS
    <2>3. QED
      BY <1>1, <2>1, <2>2 DEF TypeOK
  <1>3. QED
    BY <1>2 DEF OutputInv, Processes

LEMMA OutputInvStep == OutputInv /\ [Next]_processVars => OutputInv'
  <1> SUFFICES ASSUME OutputInv, [Next]_processVars PROVE OutputInv'
    OBVIOUS
  <1> USE CapacityAssumption, MaxOutputAssumption
      DEF OutputInv, TypeOK, Places, Processes
  <1>1. CASE Launch
    BY <1>1 DEF Launch
  <1>2. CASE LaunchFails
    BY <1>2 DEF LaunchFails
  <1>3. CASE StartReading
    BY <1>3 DEF StartReading
  <1>4. CASE CloseWriteEnd
    BY <1>4 DEF CloseWriteEnd
  <1>5. CASE Receive
    BY <1>5 DEF Receive
  <1>6. CASE EndOfPipe
    BY <1>6 DEF EndOfPipe
  <1>7. CASE WaitForExit
    BY <1>7 DEF WaitForExit
  <1>8. ASSUME NEW p \in Processes, Write(p) PROVE OutputInv'
    BY <1>8 DEF Write
  <1>9. ASSUME NEW p \in Processes, CloseOutput(p) PROVE OutputInv'
    BY <1>9 DEF CloseOutput
  <1>10. CASE Fork
    BY <1>10 DEF Fork
  <1>11. CASE Exit
    BY <1>11 DEF Exit
  <1>12. CASE UNCHANGED processVars
    BY <1>12 DEF processVars
  <1>13. CASE WaitForExitFails
    BY <1>13 DEF WaitForExitFails
  <1> HIDE DEF OutputInv, TypeOK, Places, Processes
  <1>14. QED
    BY <1>1, <1>2, <1>3, <1>4, <1>5, <1>6, <1>7, <1>8, <1>9, <1>10, <1>11, <1>12, <1>13
    DEF Next, Caller

(* run_process returns with the whole output of the child and of everything *)
(* the child left behind, however small the pipe is.                        *)
THEOREM OutputIsWhole == Spec => []WholeOutput
  <1>1. OutputInv => WholeOutput
    <2> SUFFICES ASSUME OutputInv, place = "returned"
                 PROVE  /\ received = written
                        /\ writers = {}
                        /\ \A p \in Processes : todo[p] = 0
      BY DEF WholeOutput
    <2>1. received \in Nat /\ written = received + pipe /\ pipe = 0
      BY DEF OutputInv, TypeOK
    <2>2. writers = {}
      BY DEF OutputInv
    <2>3. QED
      BY <2>1, <2>2 DEF OutputInv
  <1>2. QED
    BY <1>1, OutputInvInit, OutputInvStep, PTL DEF Spec

(* run_process is never in a deadlock with the processes it started,        *)
(* whatever they write and however small the pipe is.                       *)
THEOREM NobodyWaitsForEachOther == Spec => []NoDeadlock
  <1>1. OutputInv => NoDeadlock
    <2> SUFFICES ASSUME OutputInv, place \in {"run", "wait"}, ~CallerCanGoOn
                 PROVE  \E p \in Processes : CanGoOn(p)
      BY DEF OutputInv, TypeOK, Places, NoDeadlock, CallerCanGoOn
    <2>1. CASE place = "run"
      <3>1. pipe = 0 /\ pipe < Capacity
        BY <2>1, CapacityAssumption DEF CallerCanGoOn, OutputInv, TypeOK
      <3>2. PICK p \in Processes : p \in writers
        BY <2>1 DEF CallerCanGoOn, OutputInv, TypeOK
      <3>3. QED
        BY <3>1, <3>2 DEF CanGoOn
    <2>2. CASE place = "wait"
      <3>1. child = "running"
        BY <2>2 DEF CallerCanGoOn, OutputInv, TypeOK
      <3>2. todo["child"] = 0
        BY <2>2 DEF OutputInv, Processes
      <3>3. QED
        BY <3>1, <3>2 DEF CanGoOn, Processes
    <2>3. QED
      BY <2>1, <2>2
  <1>2. QED
    BY <1>1, OutputInvInit, OutputInvStep, PTL DEF Spec

(* The pipe never holds more than its capacity, and the other variables     *)
(* keep to their types.                                                     *)
THEOREM ProcessTypeCorrect == Spec => []TypeOK
  <1>1. OutputInv => TypeOK
    BY DEF OutputInv
  <1>2. QED
    BY <1>1, OutputInvInit, OutputInvStep, PTL DEF Spec


----------------------------------------------------------------------------
(* run_process ends                                                         *)

PlacesAhead ==
    CASE place = "launch" -> 5
      [] place = "read"   -> 4
      [] place = "close"  -> 3
      [] place = "run"    -> 2
      [] place = "wait"   -> 1
      [] OTHER            -> 0

HandlesOpen ==
    (IF "caller" \in writers THEN 1 ELSE 0)
    + (IF "child" \in writers THEN 1 ELSE 0)
    + (IF "descendant" \in writers THEN 1 ELSE 0)

(* A process that is not there yet will write and close.                    *)
ToBeStarted ==
    (CASE child = "none" -> 2 * MaxOutput + 3 [] child = "running" -> 1 [] OTHER -> 0)
    + (IF forked THEN 0 ELSE 2 * MaxOutput + 2)

UnitsToDo == todo["child"] + todo["descendant"]

(* A unit that is still to be written is written and received.              *)
StepsLeft ==
    PlacesAhead + HandlesOpen + ToBeStarted
    + 2 * UnitsToDo + pipe

(* Each step of the caller and of its processes brings all of them nearer   *)
(* to their end: no execution of run_process goes on for ever, with         *)
(* whatever timing and however the output is split into reads.  By          *)
(* NobodyWaitsForEachOther it can only stop where run_process has come back *)
(* or a process it started does not go on by itself (tyroxx-ci.cpp:279-301).*)
THEOREM ExecutionsEnd == Spec => [](StepsLeft \in Nat) /\ [][StepsLeft' < StepsLeft]_processVars
  <1> USE MaxOutputAssumption
  <1>1. OutputInv => StepsLeft \in Nat
    <2> SUFFICES ASSUME OutputInv PROVE StepsLeft \in Nat
      OBVIOUS
    <2>1. PlacesAhead \in Nat /\ HandlesOpen \in Nat
      BY DEF PlacesAhead, HandlesOpen
    <2>2. ToBeStarted \in Nat
      BY DEF ToBeStarted
    <2>3. todo["child"] \in Nat /\ todo["descendant"] \in Nat /\ pipe \in Nat
      BY DEF OutputInv, TypeOK, Processes
    <2>4. QED
      BY <2>1, <2>2, <2>3 DEF StepsLeft, UnitsToDo
  <1>2. OutputInv /\ OutputInv' /\ [Next]_processVars => [StepsLeft' < StepsLeft]_processVars
    <2> SUFFICES ASSUME OutputInv, OutputInv', Next PROVE StepsLeft' < StepsLeft
      OBVIOUS
    <2>1. /\ PlacesAhead \in Nat /\ HandlesOpen \in Nat /\ ToBeStarted \in Nat
          /\ PlacesAhead' \in Nat /\ HandlesOpen' \in Nat /\ ToBeStarted' \in Nat
      BY DEF PlacesAhead, HandlesOpen, ToBeStarted
    <2>2. /\ todo["child"] \in 0 .. MaxOutput /\ todo["descendant"] \in 0 .. MaxOutput
          /\ todo'["child"] \in 0 .. MaxOutput /\ todo'["descendant"] \in 0 .. MaxOutput
          /\ pipe \in Nat /\ pipe' \in Nat
      BY DEF OutputInv, TypeOK, Processes
    <2>3. UnitsToDo \in Nat /\ UnitsToDo' \in Nat
      BY <2>2 DEF UnitsToDo
    <2>4. PICK p0 \in Nat, h0 \in Nat, s0 \in Nat, u0 \in Nat, q0 \in Nat, max \in Nat :
              /\ p0 = PlacesAhead /\ h0 = HandlesOpen /\ s0 = ToBeStarted
              /\ u0 = UnitsToDo /\ q0 = pipe /\ max = MaxOutput
              /\ StepsLeft = p0 + h0 + s0 + 2 * u0 + q0
      BY <2>1, <2>2, <2>3 DEF StepsLeft
    <2>5. PICK p1 \in Nat, h1 \in Nat, s1 \in Nat, u1 \in Nat, q1 \in Nat :
              /\ p1 = PlacesAhead' /\ h1 = HandlesOpen' /\ s1 = ToBeStarted'
              /\ u1 = UnitsToDo' /\ q1 = pipe'
              /\ StepsLeft' = p1 + h1 + s1 + 2 * u1 + q1
      BY <2>1, <2>2, <2>3 DEF StepsLeft
    <2>6. p1 + h1 + s1 + 2 * u1 + q1 < p0 + h0 + s0 + 2 * u0 + q0 => StepsLeft' < StepsLeft
      BY <2>4, <2>5
    <2>7. writers' \subseteq writers => HandlesOpen' <= HandlesOpen
      BY DEF HandlesOpen
    <2>8. ASSUME NEW p \in Processes, writers' = writers \cup {p}
          PROVE  HandlesOpen' <= HandlesOpen + 1
      BY <2>8 DEF HandlesOpen, Processes
    <2>9. ASSUME NEW p \in Processes, p \in writers, writers' = writers \ {p}
          PROVE  HandlesOpen' < HandlesOpen
      BY <2>9 DEF HandlesOpen, Processes
    <2>10. place' = place => PlacesAhead' = PlacesAhead
      BY DEF PlacesAhead
    <2>11. child' = child /\ forked' = forked => ToBeStarted' = ToBeStarted
      BY DEF ToBeStarted
    <2>12. todo' = todo => UnitsToDo' = UnitsToDo
      BY DEF UnitsToDo
    <2>13. CASE Launch
      <3>1. PlacesAhead' < PlacesAhead /\ HandlesOpen' <= HandlesOpen + 1 /\ pipe' = pipe
        BY <2>8, <2>13 DEF Launch, PlacesAhead, Processes
      <3>2. ToBeStarted' = ToBeStarted - (2 * MaxOutput + 2)
        <4>1. child = "none" /\ child' = "running" /\ forked' = forked
          BY <2>13 DEF Launch, OutputInv
        <4>2. QED
          BY <4>1 DEF ToBeStarted
      <3>3. UnitsToDo' <= UnitsToDo + MaxOutput
        <4>1. todo'["descendant"] = todo["descendant"]
          BY <2>13 DEF Launch, OutputInv, TypeOK, Processes
        <4>2. QED
          BY <2>2, <4>1 DEF UnitsToDo
      <3>4. p1 < p0 /\ h1 <= h0 + 1 /\ s1 = s0 - (2 * max + 2) /\ u1 <= u0 + max /\ q1 = q0
        BY <2>4, <2>5, <3>1, <3>2, <3>3
      <3>5. p1 + h1 + s1 + 2 * u1 + q1 < p0 + h0 + s0 + 2 * u0 + q0
        BY <3>4
      <3>6. QED
        BY <2>6, <3>5
    <2>14. CASE LaunchFails
      <3>1. PlacesAhead' < PlacesAhead
        BY <2>14 DEF LaunchFails, PlacesAhead
      <3>2. writers' \subseteq writers /\ UNCHANGED <<child, forked, todo, pipe>>
        BY <2>14 DEF LaunchFails
      <3>3. p1 < p0 /\ h1 <= h0 /\ s1 = s0 /\ u1 = u0 /\ q1 = q0
        BY <2>4, <2>5, <2>7, <2>11, <2>12, <3>1, <3>2
      <3>4. p1 + h1 + s1 + 2 * u1 + q1 < p0 + h0 + s0 + 2 * u0 + q0
        BY <3>3
      <3>5. QED
        BY <2>6, <3>4
    <2>15. CASE StartReading \/ CloseWriteEnd \/ EndOfPipe \/ WaitForExit \/ WaitForExitFails
      <3>1. PlacesAhead' < PlacesAhead
        BY <2>15 DEF StartReading, CloseWriteEnd, EndOfPipe, WaitForExit,
                     WaitForExitFails, PlacesAhead
      <3>2. writers' \subseteq writers /\ UNCHANGED <<child, forked, todo, pipe>>
        BY <2>15 DEF StartReading, CloseWriteEnd, EndOfPipe, WaitForExit,
                     WaitForExitFails
      <3>3. p1 < p0 /\ h1 <= h0 /\ s1 = s0 /\ u1 = u0 /\ q1 = q0
        BY <2>4, <2>5, <2>7, <2>11, <2>12, <3>1, <3>2
      <3>4. p1 + h1 + s1 + 2 * u1 + q1 < p0 + h0 + s0 + 2 * u0 + q0
        BY <3>3
      <3>5. QED
        BY <2>6, <3>4
    <2>16. CASE Receive
      <3>1. pipe' < pipe
        BY <2>2, <2>16 DEF Receive
      <3>2. UNCHANGED <<place, writers, child, forked, todo>>
        BY <2>16 DEF Receive
      <3>3. p1 = p0 /\ h1 <= h0 /\ s1 = s0 /\ u1 = u0 /\ q1 < q0
        BY <2>4, <2>5, <2>7, <2>10, <2>11, <2>12, <3>1, <3>2
      <3>4. p1 + h1 + s1 + 2 * u1 + q1 < p0 + h0 + s0 + 2 * u0 + q0
        BY <3>3
      <3>5. QED
        BY <2>6, <3>4
    <2>17. ASSUME NEW p \in Processes, Write(p) PROVE StepsLeft' < StepsLeft
      <3>1. pipe' = pipe + 1 /\ UNCHANGED <<place, writers, child, forked>>
        BY <2>17 DEF Write
      <3>2. UnitsToDo' = UnitsToDo - 1
        <4>1. todo' = [todo EXCEPT ![p] = @ - 1] /\ todo \in [Processes -> 0 .. MaxOutput]
          BY <2>17 DEF Write, OutputInv, TypeOK
        <4>2. QED
          BY <2>2, <4>1 DEF UnitsToDo, Processes
      <3>3. p1 = p0 /\ h1 <= h0 /\ s1 = s0 /\ u1 = u0 - 1 /\ q1 = q0 + 1
        BY <2>4, <2>5, <2>7, <2>10, <2>11, <3>1, <3>2
      <3>4. p1 + h1 + s1 + 2 * u1 + q1 < p0 + h0 + s0 + 2 * u0 + q0
        BY <3>3
      <3>5. QED
        BY <2>6, <3>4
    <2>18. ASSUME NEW p \in Processes, CloseOutput(p) PROVE StepsLeft' < StepsLeft
      <3>1. HandlesOpen' < HandlesOpen /\ UNCHANGED <<place, child, forked, todo, pipe>>
        BY <2>9, <2>18 DEF CloseOutput
      <3>2. p1 = p0 /\ h1 < h0 /\ s1 = s0 /\ u1 = u0 /\ q1 = q0
        BY <2>4, <2>5, <2>10, <2>11, <2>12, <3>1
      <3>3. p1 + h1 + s1 + 2 * u1 + q1 < p0 + h0 + s0 + 2 * u0 + q0
        BY <3>2
      <3>4. QED
        BY <2>6, <3>3
    <2>19. CASE Fork
      <3>1. HandlesOpen' <= HandlesOpen + 1 /\ UNCHANGED <<place, pipe>>
        BY <2>8, <2>19 DEF Fork, Processes
      <3>2. ToBeStarted' = ToBeStarted - (2 * MaxOutput + 2)
        <4>1. child' = child /\ ~forked /\ forked'
          BY <2>19 DEF Fork
        <4>2. QED
          BY <4>1 DEF ToBeStarted
      <3>3. UnitsToDo' <= UnitsToDo + MaxOutput
        <4>1. todo'["child"] = todo["child"]
          BY <2>19 DEF Fork, OutputInv, TypeOK, Processes
        <4>2. QED
          BY <2>2, <4>1 DEF UnitsToDo
      <3>4. p1 = p0 /\ h1 <= h0 + 1 /\ s1 = s0 - (2 * max + 2) /\ u1 <= u0 + max /\ q1 = q0
        BY <2>4, <2>5, <2>10, <3>1, <3>2, <3>3
      <3>5. p1 + h1 + s1 + 2 * u1 + q1 < p0 + h0 + s0 + 2 * u0 + q0
        BY <3>4
      <3>6. QED
        BY <2>6, <3>5
    <2>20. CASE Exit
      <3>1. writers' \subseteq writers /\ UNCHANGED <<place, todo, pipe>>
        BY <2>20 DEF Exit
      <3>2. ToBeStarted' < ToBeStarted
        <4>1. child = "running" /\ child' = "exited" /\ forked' = forked
          BY <2>20 DEF Exit
        <4>2. QED
          BY <4>1 DEF ToBeStarted
      <3>3. p1 = p0 /\ h1 <= h0 /\ s1 < s0 /\ u1 = u0 /\ q1 = q0
        BY <2>4, <2>5, <2>7, <2>10, <2>12, <3>1, <3>2
      <3>4. p1 + h1 + s1 + 2 * u1 + q1 < p0 + h0 + s0 + 2 * u0 + q0
        BY <3>3
      <3>5. QED
        BY <2>6, <3>4
    <2>21. QED
      BY <2>13, <2>14, <2>15, <2>16, <2>17, <2>18, <2>19, <2>20 DEF Next, Caller
  <1>3. QED
    BY <1>1, <1>2, OutputInvInit, OutputInvStep, PTL DEF Spec

=============================================================================
