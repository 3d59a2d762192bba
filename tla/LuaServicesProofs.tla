-------------------------- MODULE LuaServicesProofs --------------------------
(***************************************************************************)
(* Theorems about LuaServices, for every tree of steps.                    *)
(***************************************************************************)
EXTENDS LuaServices, FiniteSets, FiniteSetTheorems, TLAPS

TreeInv ==
    \A n \in Nodes : parent[n] < n /\ (parent[n] = None <=> n = Root)

(* What is known of main's place and of the handler that runs.              *)
PlaceInv ==
    /\ handling # None => place = "run" /\ status[handling] = "done"
    /\ place = "construct" =>
          posted = <<>> /\ timers = {} /\ \A n \in Nodes : status[n] = "unreached"
    /\ place # "construct" => status[Root] # "unreached"
    /\ place = "returned" => posted = <<>> /\ timers = {}

(* The started nodes are those with a timer or a handler, and with one.     *)
QueueInv ==
    /\ \A i \in 1 .. Len(posted) : status[posted[i]] = "started" /\ posted[i] \notin timers
    /\ \A i, j \in 1 .. Len(posted) : posted[i] = posted[j] => i = j
    /\ \A n \in timers : status[n] = "started" /\ kind[n] = "delay"
    /\ \A n \in Nodes : status[n] = "started" =>
          n \in timers \/ \E i \in 1 .. Len(posted) : posted[i] = n
    /\ \A n \in Nodes : status[n] = "ignored" => kind[n] = "ignoring"

(* The nodes that were given an input are those below a node whose handler  *)
(* has come as far as their edge.                                           *)
ReachedInv ==
    \A n \in Nodes \ {Root} :
        /\ status[n] # "unreached" <=>
              status[parent[n]] = "done" /\ ~(handling = parent[n] /\ n > edge)
        /\ status[n] # "unreached" => input[n] = result[parent[n]]

(* Siblings that post their results are queued in the order of their edges. *)
OrderInv ==
    \A i, j \in 1 .. Len(posted) :
        /\ kind[posted[i]] = "step_a"
        /\ kind[posted[j]] = "step_a"
        /\ parent[posted[i]] = parent[posted[j]]
        /\ posted[i] < posted[j]
        => i < j

LuaInv ==
    /\ TypeOK
    /\ TreeInv
    /\ PlaceInv
    /\ QueueInv
    /\ ReachedInv
    /\ OrderInv
    /\ SiblingsInOrder

LEMMA LuaInvInit == Init => LuaInv
  <1> SUFFICES ASSUME Init PROVE LuaInv
    OBVIOUS
  <1> USE NAssumption DEF Init, Nodes, Root, None
  <1>1. TypeOK
    BY DEF TypeOK, Results
  <1>2. TreeInv
    BY DEF TreeInv
  <1>3. PlaceInv /\ QueueInv /\ OrderInv /\ SiblingsInOrder
    BY DEF PlaceInv, QueueInv, OrderInv, SiblingsInOrder
  <1>4. ReachedInv
    BY <1>2 DEF ReachedInv, TreeInv
  <1>5. QED
    BY <1>1, <1>2, <1>3, <1>4 DEF LuaInv

(* What starting a node that was not reached does to the queue, wherever    *)
(* handle_input is called from.                                             *)
LEMMA HandleInputQueues ==
  ASSUME LuaInv, NEW n \in Nodes, NEW value \in Results,
         status[n] = "unreached", HandleInput(n, value)
  PROVE  /\ status' \in [Nodes -> {"unreached", "ignored", "started", "done"}]
         /\ input' \in [Nodes -> Results]
         /\ posted' \in Seq(Nodes)
         /\ timers' \subseteq Nodes
         /\ status' = [status EXCEPT ![n] = status'[n]]
         /\ status'[n] \in {"started", "ignored"}
         /\ input' = [input EXCEPT ![n] = value]
         /\ kind' = kind => QueueInv'
  <1> USE DEF LuaInv, TypeOK, HandleInput
  <1>1. /\ status' \in [Nodes -> {"unreached", "ignored", "started", "done"}]
        /\ input' \in [Nodes -> Results]
        /\ timers' \subseteq Nodes
        /\ status' = [status EXCEPT ![n] = status'[n]]
        /\ status'[n] \in {"started", "ignored"}
        /\ input' = [input EXCEPT ![n] = value]
    OBVIOUS
  <1>2. posted' \in Seq(Nodes)
    OBVIOUS
  <1>3. /\ n \notin timers
        /\ \A i \in 1 .. Len(posted) : posted[i] # n /\ posted[i] \in Nodes
    BY DEF QueueInv
  <1>4. ASSUME kind' = kind PROVE QueueInv'
    <2>1. CASE kind[n] = "step_a"
      <3>1. posted' = Append(posted, n) /\ timers' = timers /\ status'[n] = "started"
        BY <2>1
      <3>2. /\ Len(posted') = Len(posted) + 1
            /\ \A i \in 1 .. Len(posted) : posted'[i] = posted[i]
            /\ posted'[Len(posted) + 1] = n
            /\ Len(posted) \in Nat
        BY <3>1
      <3>3. QED
        BY <1>1, <1>3, <1>4, <2>1, <3>1, <3>2 DEF QueueInv
    <2>2. CASE kind[n] = "delay"
      <3>1. posted' = posted /\ timers' = timers \cup {n} /\ status'[n] = "started"
        BY <2>2
      <3>2. QED
        BY <1>1, <1>3, <1>4, <2>2, <3>1 DEF QueueInv
    <2>3. CASE kind[n] = "ignoring"
      <3>1. posted' = posted /\ timers' = timers /\ status'[n] = "ignored"
        BY <2>3
      <3>2. QED
        BY <1>1, <1>3, <1>4, <2>3, <3>1 DEF QueueInv
    <2>4. QED
      BY <2>1, <2>2, <2>3 DEF Kinds
  <1>5. QED
    BY <1>1, <1>2, <1>4

LEMMA BeginStep == LuaInv /\ Begin => LuaInv'
  <1> SUFFICES ASSUME LuaInv, Begin PROVE LuaInv'
    OBVIOUS
  <1> USE NAssumption DEF LuaInv, TypeOK, Begin, Nodes, Root, None, treeVars
  <1>1. /\ Root \in Nodes /\ "empty_failure" \in Results
        /\ HandleInput(Root, "empty_failure")
        /\ status[Root] = "unreached"
        /\ handling = None
    BY DEF PlaceInv, Results
  <1>2. /\ status' \in [Nodes -> {"unreached", "ignored", "started", "done"}]
        /\ input' \in [Nodes -> Results]
        /\ posted' \in Seq(Nodes)
        /\ timers' \subseteq Nodes
        /\ status' = [status EXCEPT ![Root] = status'[Root]]
        /\ status'[Root] \in {"started", "ignored"}
        /\ QueueInv'
    BY <1>1, HandleInputQueues
  <1>3. TypeOK'
    BY <1>2
  <1>4. TreeInv'
    BY DEF TreeInv
  <1>5. PlaceInv'
    BY <1>1, <1>2 DEF PlaceInv
  <1>6. ReachedInv'
    <2>1. \A n \in Nodes \ {Root} : status'[n] = "unreached" /\ parent[n] \in Nodes
      BY <1>2 DEF PlaceInv, TreeInv
    <2>2. \A n \in Nodes : status'[n] # "done"
      BY <1>2 DEF PlaceInv
    <2>3. QED
      BY <2>1, <2>2 DEF ReachedInv
  <1>7. OrderInv'
    BY DEF OrderInv, PlaceInv, HandleInput
  <1>8. SiblingsInOrder'
    BY <1>2 DEF PlaceInv, SiblingsInOrder
  <1>9. QED
    BY <1>2, <1>3, <1>4, <1>5, <1>6, <1>7, <1>8

LEMMA TimerElapsesStep ==
  ASSUME NEW n \in Nodes, LuaInv, TimerElapses(n)
  PROVE  LuaInv'
  <1> USE DEF LuaInv, TypeOK, TimerElapses, treeVars, nodeVars
  <1>1. /\ Len(posted') = Len(posted) + 1
        /\ \A i \in 1 .. Len(posted) : posted'[i] = posted[i]
        /\ posted'[Len(posted) + 1] = n
        /\ Len(posted) \in Nat
    OBVIOUS
  <1>2. status[n] = "started" /\ kind[n] = "delay"
    BY DEF QueueInv
  <1>3. \A i \in 1 .. Len(posted) : posted[i] # n
    BY DEF QueueInv
  <1>4. TypeOK'
    OBVIOUS
  <1>5. QueueInv'
    <2>1. \A i \in 1 .. Len(posted)' : status[posted'[i]] = "started" /\ posted'[i] \notin timers'
      BY <1>1, <1>2, <1>3 DEF QueueInv
    <2>2. \A i, j \in 1 .. Len(posted)' : posted'[i] = posted'[j] => i = j
      BY <1>1, <1>3 DEF QueueInv
    <2>3. \A m \in Nodes : status[m] = "started" =>
             m \in timers' \/ \E i \in 1 .. Len(posted)' : posted'[i] = m
      BY <1>1 DEF QueueInv
    <2>4. QED
      BY <2>1, <2>2, <2>3 DEF QueueInv
  <1>6. OrderInv'
    BY <1>1, <1>2 DEF OrderInv
  <1>7. TreeInv' /\ ReachedInv' /\ SiblingsInOrder'
    BY DEF TreeInv, ReachedInv, SiblingsInOrder
  <1>8. PlaceInv'
    BY DEF PlaceInv
  <1>9. QED
    BY <1>4, <1>5, <1>6, <1>7, <1>8

LEMMA BeginHandlerStep == LuaInv /\ BeginHandler => LuaInv'
  <1> SUFFICES ASSUME LuaInv, BeginHandler PROVE LuaInv'
    OBVIOUS
  <1> DEFINE h == Head(posted)
  <1> USE DEF LuaInv, TypeOK, BeginHandler, treeVars
  <1>1. /\ Len(posted) \in Nat /\ Len(posted) > 0
        /\ Len(posted') = Len(posted) - 1
        /\ \A i \in 1 .. Len(posted') : posted'[i] = posted[i + 1]
        /\ posted[1] = h
        /\ h \in Nodes
    OBVIOUS
  <1>2. /\ status[h] = "started" /\ h \notin timers
        /\ \A i \in 1 .. Len(posted) : posted[i] = h => i = 1
    BY <1>1 DEF QueueInv
  <1>3. /\ status' = [status EXCEPT ![h] = "done"]
        /\ result' = [result EXCEPT ![h] = OutputOf(h)]
        /\ handling' = h /\ edge' = None
    OBVIOUS
  <1> HIDE DEF h
  <1>4. TypeOK'
    <2>1. OutputOf(h) \in Results
      BY DEF OutputOf, Results
    <2>2. posted' \in Seq(Nodes)
      BY <1>1
    <2>3. h \in 0 .. N /\ None \in 0 .. N
      BY <1>1, NAssumption DEF Nodes, None
    <2>4. QED
      BY <1>1, <1>3, <2>1, <2>2, <2>3
  <1>5. TreeInv'
    BY DEF TreeInv
  <1>6. PlaceInv'
    BY <1>1, <1>3 DEF PlaceInv, Root, Nodes
  <1>7. QueueInv'
    <2>1. \A i \in 1 .. Len(posted)' : posted'[i] # h /\ posted'[i] \in Nodes
      BY <1>1, <1>2
    <2>2. \A m \in Nodes : status'[m] = "started" =>
             m \in timers \/ \E i \in 1 .. Len(posted)' : posted'[i] = m
      <3> SUFFICES ASSUME NEW m \in Nodes, status'[m] = "started", m \notin timers
                   PROVE  \E i \in 1 .. Len(posted)' : posted'[i] = m
        OBVIOUS
      <3>1. m # h /\ status[m] = "started"
        BY <1>1, <1>3
      <3>2. PICK i \in 1 .. Len(posted) : posted[i] = m
        BY <3>1 DEF QueueInv
      <3>3. i - 1 \in 1 .. Len(posted)' /\ posted'[i - 1] = m
        BY <1>1, <3>1, <3>2
      <3>4. QED
        BY <3>3
    <2>3. \A i, j \in 1 .. Len(posted)' : posted'[i] = posted'[j] => i = j
      BY <1>1 DEF QueueInv
    <2>4. \A i \in 1 .. Len(posted)' : status'[posted'[i]] = "started" /\ posted'[i] \notin timers
      BY <1>1, <1>3, <2>1 DEF QueueInv
    <2>5. \A m \in timers : status'[m] = "started" /\ kind[m] = "delay"
      BY <1>2, <1>3 DEF QueueInv
    <2>6. \A m \in Nodes : status'[m] = "ignored" => kind[m] = "ignoring"
      BY <1>1, <1>3 DEF QueueInv
    <2>7. QED
      BY <2>2, <2>3, <2>4, <2>5, <2>6 DEF QueueInv
  <1>8. ReachedInv'
    <2> SUFFICES ASSUME NEW n \in Nodes \ {Root}
                 PROVE  /\ status'[n] # "unreached" <=>
                              status'[parent[n]] = "done" /\ ~(handling' = parent[n] /\ n > edge')
                        /\ status'[n] # "unreached" => input[n] = result'[parent[n]]
      BY DEF ReachedInv
    <2>1. parent[n] \in Nodes /\ parent[n] < n /\ n > None
      BY DEF TreeInv, Nodes, None
    <2>2. CASE parent[n] = h
      <3>1. status[n] = "unreached"
        BY <1>2, <2>2 DEF ReachedInv
      <3>2. n # h
        BY <2>1, <2>2 DEF Nodes
      <3>3. QED
        BY <1>3, <2>1, <2>2, <3>1, <3>2
    <2>3. CASE parent[n] # h
      <3>1. status'[parent[n]] = status[parent[n]] /\ result'[parent[n]] = result[parent[n]]
        BY <1>3, <2>1, <2>3
      <3>2. status'[n] # "unreached" <=> status[n] # "unreached"
        BY <1>2, <1>3
      <3>3. handling = None /\ None # parent[n]
        BY <2>1 DEF Nodes, None
      <3>4. QED
        BY <1>3, <2>3, <3>1, <3>2, <3>3 DEF ReachedInv
    <2>4. QED
      BY <2>2, <2>3
  <1>9. OrderInv'
    BY <1>1 DEF OrderInv
  <1>10. SiblingsInOrder'
    <2> SUFFICES ASSUME NEW m \in Nodes, NEW n \in Nodes, m < n, parent[m] = parent[n],
                        kind[m] = "step_a", kind[n] = "step_a", status'[n] = "done"
                 PROVE  status'[m] = "done"
      BY DEF SiblingsInOrder
    <2>1. CASE n # h
      <3>1. status[n] = "done"
        BY <1>3, <2>1
      <3>2. status[m] = "done"
        BY <3>1 DEF SiblingsInOrder
      <3>3. QED
        BY <1>3, <3>2
    <2>2. CASE n = h
      <3>1. n # Root /\ m # Root
        BY DEF TreeInv, Nodes, Root
      <3>2. status[parent[n]] = "done"
        BY <1>2, <2>2, <3>1 DEF ReachedInv
      <3>3. handling # parent[m]
        BY <3>1 DEF TreeInv
      <3>4. status[m] # "unreached"
        BY <3>1, <3>2, <3>3 DEF ReachedInv
      <3>5. status[m] # "ignored"
        BY DEF QueueInv
      <3>6. status[m] # "started"
        <4> SUFFICES ASSUME status[m] = "started" PROVE FALSE
          OBVIOUS
        <4>1. PICK i \in 1 .. Len(posted) : posted[i] = m
          BY DEF QueueInv
        <4>2. i < 1
          BY <1>1, <2>2, <4>1 DEF OrderInv
        <4>3. QED
          BY <4>2
      <3>7. QED
        BY <1>3, <3>4, <3>5, <3>6
    <2>3. QED
      BY <2>1, <2>2
  <1>11. QED
    BY <1>4, <1>5, <1>6, <1>7, <1>8, <1>9, <1>10
LEMMA FollowEdgeStep ==
  ASSUME NEW m \in Nodes, LuaInv, FollowEdge(m)
  PROVE  LuaInv'
  <1> USE DEF LuaInv, TypeOK, FollowEdge, treeVars
  <1>1. /\ parent[m] = handling /\ m > edge /\ handling # None /\ handling \in Nodes
        /\ status[handling] = "done" /\ place = "run"
        /\ m # Root
        /\ \A k \in Nodes : parent[k] = handling /\ k > edge => m <= k
    BY DEF EdgesLeft, PlaceInv, TreeInv, Nodes, None
  <1>2. status[m] = "unreached"
    BY <1>1 DEF ReachedInv
  <1>3. result[handling] \in Results
    BY <1>1
  <1>4. /\ status' \in [Nodes -> {"unreached", "ignored", "started", "done"}]
        /\ input' \in [Nodes -> Results]
        /\ posted' \in Seq(Nodes)
        /\ timers' \subseteq Nodes
        /\ status' = [status EXCEPT ![m] = status'[m]]
        /\ status'[m] \in {"started", "ignored"}
        /\ input' = [input EXCEPT ![m] = result[handling]]
        /\ QueueInv'
    BY <1>2, <1>3, HandleInputQueues
  <1>5. TypeOK'
    BY <1>4 DEF Nodes
  <1>6. TreeInv'
    BY DEF TreeInv
  <1>7. PlaceInv'
    <2>1. handling # m
      BY <1>1, <1>2
    <2>2. QED
      BY <1>1, <1>4, <2>1, NAssumption DEF PlaceInv, Nodes, Root
  <1>8. ReachedInv'
    <2> SUFFICES ASSUME NEW n \in Nodes \ {Root}
                 PROVE  /\ status'[n] # "unreached" <=>
                              status'[parent[n]] = "done" /\ ~(handling = parent[n] /\ n > m)
                        /\ status'[n] # "unreached" => input'[n] = result[parent[n]]
      BY DEF ReachedInv
    <2>1. parent[n] \in Nodes
      BY DEF TreeInv, Nodes, None
    <2>2. status'[parent[n]] = "done" <=> status[parent[n]] = "done"
      BY <1>2, <1>4, <2>1
    <2>3. CASE n = m
      <3>1. ~(n > m)
        BY <2>3 DEF Nodes
      <3>2. QED
        BY <1>1, <1>2, <1>4, <2>2, <2>3, <3>1
    <2>4. CASE n # m
      <3>1. status'[n] = status[n] /\ input'[n] = input[n]
        BY <1>4, <2>4
      <3>2. handling = parent[n] => (n > m <=> n > edge)
        BY <1>1, <2>4 DEF Nodes
      <3>3. QED
        BY <2>2, <3>1, <3>2 DEF ReachedInv
    <2>5. QED
      BY <2>3, <2>4
  <1>9. OrderInv'
    <2>1. CASE kind[m] # "step_a"
      BY <2>1 DEF OrderInv, HandleInput
    <2>2. CASE kind[m] = "step_a"
      <3>1. /\ Len(posted') = Len(posted) + 1
            /\ \A i \in 1 .. Len(posted) : posted'[i] = posted[i] /\ posted[i] \in Nodes
            /\ posted'[Len(posted) + 1] = m
            /\ Len(posted) \in Nat
        BY <2>2 DEF HandleInput
      <3>2. ASSUME NEW i \in 1 .. Len(posted), parent[posted[i]] = handling
            PROVE  ~(m < posted[i])
        <4>1. status[posted[i]] # "unreached" /\ posted[i] # Root
          BY <1>1, <3>1, <3>2 DEF QueueInv, TreeInv
        <4>2. ~(posted[i] > edge)
          BY <3>1, <3>2, <4>1 DEF ReachedInv
        <4>3. QED
          BY <1>1, <3>1, <4>2 DEF Nodes
      <3>3. ASSUME NEW i \in 1 .. Len(posted)', NEW j \in 1 .. Len(posted)',
                   kind[posted'[i]] = "step_a", kind[posted'[j]] = "step_a",
                   parent[posted'[i]] = parent[posted'[j]], posted'[i] < posted'[j]
            PROVE  i < j
        <4>1. CASE i = Len(posted) + 1
          BY <1>1, <3>1, <3>2, <3>3, <4>1 DEF Nodes
        <4>2. CASE i # Len(posted) + 1 /\ j = Len(posted) + 1
          BY <3>1, <4>2
        <4>3. CASE i # Len(posted) + 1 /\ j # Len(posted) + 1
          <5>1. i \in 1 .. Len(posted) /\ j \in 1 .. Len(posted)
            BY <3>1, <4>3
          <5>2. posted'[i] = posted[i] /\ posted'[j] = posted[j]
            BY <3>1, <5>1
          <5>3. QED
            BY <3>3, <5>1, <5>2 DEF OrderInv
        <4>4. QED
          BY <4>1, <4>2, <4>3
      <3>4. QED
        BY <3>3 DEF OrderInv
    <2>3. QED
      BY <2>1, <2>2
  <1>10. SiblingsInOrder'
    BY <1>2, <1>4 DEF SiblingsInOrder
  <1>11. QED
    BY <1>4, <1>5, <1>6, <1>7, <1>8, <1>9, <1>10

LEMMA HandlerReturnsStep == LuaInv /\ HandlerReturns => LuaInv'
  <1> SUFFICES ASSUME LuaInv, HandlerReturns PROVE LuaInv'
    OBVIOUS
  <1> USE DEF LuaInv, HandlerReturns, treeVars, nodeVars, queueVars
  <1>1. TypeOK' /\ PlaceInv'
    BY NAssumption DEF TypeOK, PlaceInv, None
  <1>2. TreeInv' /\ QueueInv' /\ OrderInv' /\ SiblingsInOrder'
    BY DEF TreeInv, QueueInv, OrderInv, SiblingsInOrder
  <1>3. ReachedInv'
    <2>1. \A n \in Nodes : ~(handling = parent[n] /\ n > edge)
      BY DEF EdgesLeft
    <2>2. \A n \in Nodes \ {Root} : parent[n] # None
      BY DEF TreeInv
    <2>3. QED
      BY <2>1, <2>2 DEF ReachedInv
  <1>4. QED
    BY <1>1, <1>2, <1>3

LEMMA RunReturnsStep == LuaInv /\ RunReturns => LuaInv'
  BY DEF LuaInv, RunReturns, treeVars, nodeVars, queueVars, TypeOK, TreeInv, PlaceInv,
         QueueInv, ReachedInv, OrderInv, SiblingsInOrder

LEMMA LuaInvStep == LuaInv /\ [Next]_vars => LuaInv'
  <1> SUFFICES ASSUME LuaInv, [Next]_vars PROVE LuaInv'
    OBVIOUS
  <1>1. CASE UNCHANGED vars
    BY <1>1 DEF vars, treeVars, nodeVars, queueVars, LuaInv, TypeOK, TreeInv, PlaceInv,
                QueueInv, ReachedInv, OrderInv, SiblingsInOrder
  <1>2. CASE MainThread
    BY <1>2, BeginStep, BeginHandlerStep, FollowEdgeStep, HandlerReturnsStep, RunReturnsStep
    DEF MainThread
  <1>3. ASSUME NEW n \in Nodes, TimerElapses(n) PROVE LuaInv'
    BY <1>3, TimerElapsesStep
  <1>4. QED
    BY <1>1, <1>2, <1>3 DEF Next

LEMMA LuaInvAlways == Spec => []LuaInv
  BY LuaInvInit, LuaInvStep, PTL DEF Spec

(* Every variable keeps to its type, whatever the tree.                     *)
THEOREM LuaTypeCorrect == Spec => []TypeOK
  <1>1. LuaInv => TypeOK
    BY DEF LuaInv
  <1>2. QED
    BY <1>1, LuaInvAlways, PTL

(* No result is lost and none is delivered twice, in any tree.              *)
THEOREM ResultsAreNeitherLostNorDoubled == Spec => []OneResultEach
  <1>1. LuaInv => OneResultEach
    <2> SUFFICES ASSUME LuaInv, NEW n \in Nodes
                 PROVE  LET ready == {i \in DOMAIN posted : posted[i] = n} IN
                        /\ status[n] = "started" <=> (ready # {} \/ n \in timers)
                        /\ n \in timers => ready = {}
                        /\ \A i, j \in ready : i = j
      BY DEF OneResultEach
    <2>1. DOMAIN posted = 1 .. Len(posted)
      BY DEF LuaInv, TypeOK
    <2>2. QED
      BY <2>1 DEF LuaInv, QueueInv
  <1>2. QED
    BY <1>1, LuaInvAlways, PTL

(* A step only ever works on the result of the step above it.               *)
THEOREM InputsComeFromAbove == Spec => []InputIsResultOfParent
  <1>1. LuaInv => InputIsResultOfParent
    BY DEF LuaInv, ReachedInv, InputIsResultOfParent
  <1>2. QED
    BY <1>1, LuaInvAlways, PTL

(* io.run() does not return while a result is still to come.                *)
THEOREM AllResultsAreHandled == Spec => []NothingLeftBehind
  <1>1. LuaInv => NothingLeftBehind
    <2> SUFFICES ASSUME LuaInv, place = "returned", NEW n \in Nodes
                 PROVE  \/ status[n] \in {"done", "ignored"}
                        \/ n # Root /\ status[parent[n]] \in {"ignored", "unreached"}
      BY DEF NothingLeftBehind
    <2>1. handling = None /\ timers = {} /\ Len(posted) = 0
      BY DEF LuaInv, PlaceInv
    <2>2. \A k \in Nodes : status[k] # "started"
      BY <2>1 DEF LuaInv, QueueInv
    <2>3. status[Root] # "unreached"
      BY DEF LuaInv, PlaceInv
    <2>4. n # Root => parent[n] \in Nodes /\ parent[n] # None
      BY DEF LuaInv, TypeOK, TreeInv, Nodes, None
    <2>5. n # Root /\ status[n] = "unreached" => status[parent[n]] # "done"
      BY <2>1, <2>4 DEF LuaInv, ReachedInv
    <2>6. QED
      BY <2>2, <2>3, <2>4, <2>5 DEF LuaInv, TypeOK
  <1>2. QED
    BY <1>1, LuaInvAlways, PTL

(* Siblings that post their results finish in the order of their edges.     *)
THEOREM SiblingsFinishInOrder == Spec => []SiblingsInOrder
  <1>1. LuaInv => SiblingsInOrder
    BY DEF LuaInv
  <1>2. QED
    BY <1>1, LuaInvAlways, PTL


----------------------------------------------------------------------------
(* A tree of steps comes to an end                                          *)

Unreached == {n \in Nodes : status[n] = "unreached"}

PlacesAhead == CASE place = "construct" -> 2 [] place = "run" -> 1 [] OTHER -> 0

(* A node is reached, its timer elapses, its handler begins and returns.    *)
StepsLeft ==
    4 * Cardinality(Unreached) + 3 * Cardinality(timers) + 2 * Len(posted)
    + (IF handling = None THEN 0 ELSE 1) + PlacesAhead

(* What counts a node in one place and no longer in another.                *)
LEMMA NodesAreFinite == \A S \in SUBSET Nodes : IsFiniteSet(S) /\ Cardinality(S) \in Nat
  <1>1. IsFiniteSet(Nodes)
    BY FS_Interval, NAssumption DEF Nodes
  <1>2. QED
    BY <1>1, FS_Subset, FS_CardinalityType

LEMMA NodesAreCounted ==
  ASSUME NEW S \in SUBSET Nodes, NEW n
  PROVE  /\ n \in S => Cardinality(S \ {n}) = Cardinality(S) - 1
         /\ n \notin S => Cardinality(S \cup {n}) = Cardinality(S) + 1
  BY NodesAreFinite, FS_AddElement, FS_RemoveElement

(* handle_input takes one node off those that are not reached and leaves it *)
(* at most one of a timer and a ready handler.                              *)
LEMMA HandleInputCounts ==
  ASSUME LuaInv, NEW n \in Nodes, NEW value, status[n] = "unreached", HandleInput(n, value)
  PROVE  /\ Cardinality(Unreached') = Cardinality(Unreached) - 1
         /\ \/ UNCHANGED <<timers, posted>>
            \/ timers' = timers /\ Len(posted') = Len(posted) + 1
            \/ posted' = posted /\ Cardinality(timers') = Cardinality(timers) + 1
  <1>1. n \in Unreached /\ Unreached' = Unreached \ {n} /\ Unreached \in SUBSET Nodes
    BY DEF Unreached, HandleInput, LuaInv, TypeOK
  <1>2. n \notin timers /\ timers \in SUBSET Nodes /\ posted \in Seq(Nodes)
    BY DEF LuaInv, TypeOK, QueueInv
  <1>3. Cardinality(Unreached') = Cardinality(Unreached) - 1
    BY <1>1, NodesAreCounted
  <1>4. Cardinality(timers \cup {n}) = Cardinality(timers) + 1
    BY <1>2, NodesAreCounted
  <1>5. Len(Append(posted, n)) = Len(posted) + 1
    BY <1>2
  <1>6. CASE kind[n] = "step_a"
    BY <1>3, <1>5, <1>6 DEF HandleInput
  <1>7. CASE kind[n] = "delay"
    BY <1>3, <1>4, <1>7 DEF HandleInput
  <1>8. CASE kind[n] \notin {"step_a", "delay"}
    BY <1>3, <1>8 DEF HandleInput
  <1>9. QED
    BY <1>6, <1>7, <1>8

(* handle_input and its handlers bring every tree nearer to its end, step   *)
(* by step: io.run() works through a tree of N nodes in at most 4 * N + 2   *)
(* steps, whenever the timers elapse (lua_services.cpp:168-205).            *)
THEOREM TreesComeToAnEnd ==
    Spec => /\ StepsLeft = 4 * N + 2
            /\ [](StepsLeft \in Nat)
            /\ [][StepsLeft' < StepsLeft]_vars
  <1>1. Init => StepsLeft = 4 * N + 2
    <2> SUFFICES ASSUME Init PROVE StepsLeft = 4 * N + 2
      OBVIOUS
    <2>1. Unreached = 1 .. N /\ timers = {} /\ posted = <<>> /\ handling = None
          /\ place = "construct"
      BY DEF Init, Unreached, Nodes
    <2>2. Cardinality(1 .. N) = N /\ Cardinality({}) = 0
      BY FS_Interval, FS_EmptySet, NAssumption
    <2>3. Len(posted) = 0 /\ PlacesAhead = 2
      BY <2>1 DEF PlacesAhead
    <2>4. QED
      BY <2>1, <2>2, <2>3, NAssumption DEF StepsLeft
  <1>2. LuaInv => /\ Cardinality(Unreached) \in Nat /\ Cardinality(timers) \in Nat
                  /\ Len(posted) \in Nat /\ PlacesAhead \in Nat
    BY NodesAreFinite DEF LuaInv, TypeOK, Unreached, PlacesAhead
  <1>3. LuaInv => StepsLeft \in Nat
    BY <1>2 DEF StepsLeft
  <1>4. LuaInv /\ LuaInv' /\ [Next]_vars => [StepsLeft' < StepsLeft]_vars
    <2> SUFFICES ASSUME LuaInv, LuaInv', Next PROVE StepsLeft' < StepsLeft
      OBVIOUS
    <2>1. PICK u0 \in Nat, t0 \in Nat, q0 \in Nat, h0 \in Nat, p0 \in Nat :
              /\ u0 = Cardinality(Unreached) /\ t0 = Cardinality(timers) /\ q0 = Len(posted)
              /\ h0 = (IF handling = None THEN 0 ELSE 1) /\ p0 = PlacesAhead
              /\ StepsLeft = 4 * u0 + 3 * t0 + 2 * q0 + h0 + p0
      BY <1>2 DEF StepsLeft
    <2>2. /\ Cardinality(Unreached') \in Nat /\ Cardinality(timers') \in Nat
          /\ Len(posted') \in Nat /\ PlacesAhead' \in Nat
      BY NodesAreFinite DEF LuaInv, TypeOK, Unreached, PlacesAhead, Nodes
    <2>3. PICK u1 \in Nat, t1 \in Nat, q1 \in Nat, h1 \in Nat, p1 \in Nat :
              /\ u1 = Cardinality(Unreached') /\ t1 = Cardinality(timers') /\ q1 = Len(posted')
              /\ h1 = (IF handling' = None THEN 0 ELSE 1) /\ p1 = PlacesAhead'
              /\ StepsLeft' = 4 * u1 + 3 * t1 + 2 * q1 + h1 + p1
      BY <2>2 DEF StepsLeft
    <2>4. 4 * u1 + 3 * t1 + 2 * q1 + h1 + p1 < 4 * u0 + 3 * t0 + 2 * q0 + h0 + p0
          => StepsLeft' < StepsLeft
      BY <2>1, <2>3
    <2>5. place' = place => p1 = p0
      BY <2>1, <2>3 DEF PlacesAhead
    <2>6. status' = status => u1 = u0
      BY <2>1, <2>3 DEF Unreached
    <2>7. ASSUME NEW n \in Nodes, NEW value, status[n] = "unreached", HandleInput(n, value)
          PROVE  /\ u1 = u0 - 1
                 /\ \/ t1 = t0 /\ q1 = q0
                    \/ t1 = t0 /\ q1 = q0 + 1
                    \/ t1 = t0 + 1 /\ q1 = q0
      BY <2>1, <2>3, <2>7, HandleInputCounts
    <2>8. CASE Begin
      <3>1. status[Root] = "unreached" /\ Root \in Nodes
        BY <2>8, NAssumption DEF Begin, LuaInv, PlaceInv, Root, Nodes
      <3>2. /\ u1 = u0 - 1
            /\ \/ t1 = t0 /\ q1 = q0
               \/ t1 = t0 /\ q1 = q0 + 1
               \/ t1 = t0 + 1 /\ q1 = q0
        BY <2>7, <2>8, <3>1 DEF Begin
      <3>3. p1 < p0 /\ h1 = h0
        BY <2>1, <2>3, <2>8 DEF Begin, PlacesAhead
      <3>4. QED
        BY <2>4, <3>2, <3>3
    <2>9. ASSUME NEW n \in Nodes, TimerElapses(n) PROVE StepsLeft' < StepsLeft
      <3>1. t1 = t0 - 1
        BY <2>1, <2>3, <2>9, NodesAreCounted DEF TimerElapses, LuaInv, TypeOK
      <3>2. q1 = q0 + 1
        BY <2>1, <2>3, <2>9 DEF TimerElapses, LuaInv, TypeOK
      <3>3. u1 = u0 /\ h1 = h0 /\ p1 = p0
        BY <2>1, <2>3, <2>5, <2>6, <2>9 DEF TimerElapses, nodeVars
      <3>4. QED
        BY <2>4, <3>1, <3>2, <3>3
    <2>10. CASE BeginHandler
      <3>1. q1 = q0 - 1 /\ Head(posted) \in Nodes
        BY <2>1, <2>3, <2>10 DEF BeginHandler, LuaInv, TypeOK
      <3>2. status[Head(posted)] = "started"
        BY <2>10 DEF BeginHandler, LuaInv, TypeOK, QueueInv
      <3>3. Unreached' = Unreached
        BY <2>10, <3>1, <3>2 DEF BeginHandler, LuaInv, TypeOK, Unreached
      <3>4. u1 = u0 /\ t1 = t0 /\ p1 = p0
        BY <2>1, <2>3, <2>5, <2>10, <3>3 DEF BeginHandler
      <3>5. handling = None /\ handling' = Head(posted)
        BY <2>10 DEF BeginHandler
      <3>6. Head(posted) # None
        BY <3>1 DEF Nodes, None
      <3>7. h0 = 0 /\ h1 = 1
        BY <2>1, <2>3, <3>5, <3>6, Zenon
      <3>8. QED
        BY <2>4, <3>1, <3>4, <3>7
    <2>11. ASSUME NEW m \in Nodes, FollowEdge(m) PROVE StepsLeft' < StepsLeft
      <3>1. m # Root /\ parent[m] = handling /\ handling # None /\ m > edge
        BY <2>11 DEF FollowEdge, EdgesLeft, LuaInv, TreeInv
      <3>2. status[m] = "unreached"
        BY <3>1 DEF LuaInv, ReachedInv
      <3>3. /\ u1 = u0 - 1
            /\ \/ t1 = t0 /\ q1 = q0
               \/ t1 = t0 /\ q1 = q0 + 1
               \/ t1 = t0 + 1 /\ q1 = q0
        BY <2>7, <2>11, <3>2 DEF FollowEdge
      <3>4. p1 = p0 /\ h1 = h0
        BY <2>1, <2>3, <2>5, <2>11 DEF FollowEdge
      <3>5. QED
        BY <2>4, <3>3, <3>4
    <2>12. CASE HandlerReturns
      <3>1. h1 < h0
        BY <2>1, <2>3, <2>12 DEF HandlerReturns
      <3>2. u1 = u0 /\ t1 = t0 /\ q1 = q0 /\ p1 = p0
        BY <2>1, <2>3, <2>5, <2>6, <2>12 DEF HandlerReturns, nodeVars, queueVars
      <3>3. QED
        BY <2>4, <3>1, <3>2
    <2>13. CASE RunReturns
      <3>1. p1 < p0
        BY <2>1, <2>3, <2>13 DEF RunReturns, PlacesAhead
      <3>2. u1 = u0 /\ t1 = t0 /\ q1 = q0 /\ h1 = h0
        BY <2>1, <2>3, <2>6, <2>13 DEF RunReturns, nodeVars, queueVars
      <3>3. QED
        BY <2>4, <3>1, <3>2
    <2>14. QED
      BY <2>8, <2>9, <2>10, <2>11, <2>12, <2>13 DEF Next, MainThread
  <1>5. QED
    BY <1>1, <1>3, <1>4, LuaInvAlways, PTL DEF Spec

=============================================================================
