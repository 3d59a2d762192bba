--------------------------- MODULE StartupProofs ---------------------------
(***************************************************************************)
(* Theorems about Startup, for any number of directories.                  *)
(***************************************************************************)
EXTENDS Startup, TLAPS

----------------------------------------------------------------------------
(* The inductive invariant.  During a search, what the directories hold     *)
(* lies between the two histories, and no directory the search has been in  *)
(* held the tool all the time.                                              *)

Searching(t) ==
    /\ found[t] = 0
    /\ always[t] \subseteq present[t]
    /\ present[t] \subseteq ever[t]
    /\ \A d \in 1 .. next - 1 : d \notin always[t]

(* What main has to have got through to be where it is.                     *)
Sequence ==
    /\ place \notin {"options", "exited"} => Usable(line)
    /\ place = "options" => found["git"] = 0
    /\ place \in {"options", "git"} => found["cmake"] = 0
    /\ place \in {"cmake", "bind", "serving"} => found["git"] # 0
    /\ place \in {"bind", "serving"} => found["cmake"] # 0

SearchInv ==
    /\ TypeOK
    /\ Sequence
    /\ \A t \in Tools : place = t => Searching(t)
    /\ FirstStableIsFound
    /\ MissedOnlyIfAbsent

LEMMA StartupInit == Init => SearchInv
  BY DirectoryCountAssumption
  DEF Init, SearchInv, TypeOK, Places, Tools, Directories, Sequence, FirstStableIsFound,
      MissedOnlyIfAbsent

(* A search that begins has excluded no directory yet.                      *)
LEMMA SearchBegins ==
  ASSUME SearchInv, NEW t \in Tools, Search(t), place # t,
         found' \in [Tools -> 0 .. DirectoryCount], found'[t] = 0,
         \A u \in Tools \ {t} : found'[u] = found[u] \/ u = place,
         UNCHANGED <<line, present>>
  PROVE  TypeOK' /\ (\A u \in Tools : place' = u => Searching(u)')
  <1>1. /\ place' = t /\ next' = 1
        /\ ever'[t] = present[t] /\ always'[t] = present[t]
    BY DEF Search, SearchInv, TypeOK
  <1>2. TypeOK'
    <2>1. next' \in 1 .. DirectoryCount + 1 /\ place' \in Places
      BY <1>1, DirectoryCountAssumption DEF Places
    <2>2. /\ ever' \in [Tools -> SUBSET Directories]
          /\ always' \in [Tools -> SUBSET Directories]
      BY DEF SearchInv, TypeOK, Search
    <2>3. QED
      BY <2>1, <2>2 DEF SearchInv, TypeOK
  <1>3. Searching(t)'
    BY <1>1 DEF Searching
  <1>4. QED
    BY <1>1, <1>2, <1>3

LEMMA OptionsKeep ==
  ASSUME SearchInv, OptionsAccepted
  PROVE  SearchInv'
  <1>1. /\ place = "options" /\ Usable(line) /\ Search("git")
        /\ line' = line /\ present' = present /\ found' = found /\ place' = "git"
    BY DEF OptionsAccepted, Search
  <1>2. found["git"] = 0 /\ found["cmake"] = 0
    BY <1>1 DEF SearchInv, Sequence
  <1>3. TypeOK' /\ (\A u \in Tools : place' = u => Searching(u)')
    BY <1>1, <1>2, SearchBegins DEF Tools, SearchInv, TypeOK
  <1>4. Sequence'
    BY <1>1, <1>2 DEF Sequence, Usable
  <1>5. FirstStableIsFound' /\ MissedOnlyIfAbsent'
    BY <1>1, <1>2 DEF FirstStableIsFound, MissedOnlyIfAbsent, Tools
  <1>6. QED
    BY <1>3, <1>4, <1>5 DEF SearchInv

(* The tool was there when the search looked, so it has been there during   *)
(* the search; the directories before are those already excluded.           *)
LEMMA FoundIsFirst ==
  ASSUME SearchInv, NEW t \in Tools, FileExists(t)
  PROVE  /\ next \in 1 .. DirectoryCount /\ found' = [found EXCEPT ![t] = next]
         /\ next \in ever[t] /\ \A d \in 1 .. next - 1 : d \notin always[t]
  BY DirectoryCountAssumption
  DEF FileExists, SearchInv, TypeOK, Candidate, DirectoriesLeft, Searching

LEMMA FileExistsKeeps ==
  ASSUME SearchInv, NEW t \in Tools, FileExists(t)
  PROVE  SearchInv'
  <1>1. /\ next \in 1 .. DirectoryCount /\ found' = [found EXCEPT ![t] = next]
        /\ next \in ever[t] /\ \A d \in 1 .. next - 1 : d \notin always[t]
    BY FoundIsFirst
  <1>2. /\ place = t /\ line' = line /\ present' = present
        /\ found \in [Tools -> 0 .. DirectoryCount]
    BY DEF FileExists, SearchInv, TypeOK
  <1>3. found' \in [Tools -> 0 .. DirectoryCount] /\ next # 0
    BY <1>1, <1>2, DirectoryCountAssumption
  <1>4. CASE t = "git"
    <2>1. Search("cmake") /\ place' = "cmake"
      BY <1>4 DEF FileExists, GoOn, Search
    <2>2. found["cmake"] = 0 /\ found'["cmake"] = 0 /\ found'["git"] = next
      BY <1>1, <1>2, <1>4 DEF SearchInv, Sequence, Tools
    <2>3. TypeOK' /\ (\A u \in Tools : place' = u => Searching(u)')
      BY <1>2, <1>3, <1>4, <2>1, <2>2, SearchBegins DEF Tools
    <2>4. ever'["git"] = ever["git"] /\ always'["git"] = always["git"]
      BY <2>1 DEF Search, SearchInv, TypeOK, Tools
    <2>5. Sequence' /\ MissedOnlyIfAbsent'
      BY <1>2, <1>3, <1>4, <2>1, <2>2 DEF Sequence, SearchInv, Usable, MissedOnlyIfAbsent
    <2>6. FirstStableIsFound'
      BY <1>1, <1>4, <2>2, <2>4 DEF FirstStableIsFound, Tools
    <2>7. QED
      BY <2>3, <2>5, <2>6 DEF SearchInv
  <1>5. CASE t = "cmake"
    <2>1. place' = "bind" /\ UNCHANGED <<next, ever, always>>
      BY <1>5 DEF FileExists, GoOn, historyVars
    <2>2. found'["git"] = found["git"] /\ found'["cmake"] = next
      BY <1>1, <1>2, <1>5 DEF Tools
    <2>3. TypeOK'
      BY <1>2, <1>3, <2>1 DEF SearchInv, TypeOK, Places
    <2>4. Sequence' /\ MissedOnlyIfAbsent'
      BY <1>2, <1>3, <1>5, <2>1, <2>2 DEF Sequence, SearchInv, Usable, MissedOnlyIfAbsent
    <2>5. FirstStableIsFound'
      BY <1>1, <1>5, <2>1, <2>2 DEF FirstStableIsFound, SearchInv, Tools
    <2>6. QED
      BY <2>1, <2>3, <2>4, <2>5 DEF SearchInv, Tools
  <1>6. QED
    BY <1>4, <1>5 DEF Tools

(* A directory that is left without the tool did not hold it all the time.  *)
LEMMA FileIsMissingKeeps ==
  ASSUME SearchInv, NEW t \in Tools, FileIsMissing(t)
  PROVE  SearchInv'
  <1>1. /\ place = t /\ place' = t /\ next' = next + 1 /\ next \in 1 .. DirectoryCount
        /\ next \notin present[t] /\ UNCHANGED <<line, present, found, ever, always>>
    BY DirectoryCountAssumption
    DEF FileIsMissing, historyVars, Candidate, DirectoriesLeft, SearchInv, TypeOK
  <1>2. Searching(t)'
    <2>1. Searching(t)
      BY <1>1 DEF SearchInv
    <2>2. next \notin always[t]
      BY <1>1, <2>1 DEF Searching
    <2>3. \A d \in 1 .. (next + 1) - 1 : d \notin always[t]
      BY <1>1, <2>1, <2>2, DirectoryCountAssumption DEF Searching
    <2>4. QED
      BY <1>1, <2>1, <2>3 DEF Searching
  <1>3. TypeOK'
    BY <1>1, DirectoryCountAssumption DEF SearchInv, TypeOK
  <1>4. QED
    BY <1>1, <1>2, <1>3
    DEF SearchInv, Sequence, Usable, FirstStableIsFound, MissedOnlyIfAbsent

LEMMA NotFoundKeeps ==
  ASSUME SearchInv, NEW t \in Tools, NotFound(t)
  PROVE  SearchInv'
  <1>1. /\ place = t /\ place' = "exited" /\ ~(next <= DirectoryCount)
        /\ UNCHANGED <<line, next, found, present, ever, always>>
    BY DEF NotFound, Stop, searchVars, historyVars, DirectoriesLeft
  <1>2. found[t] = 0 /\ always[t] = {}
    <2>1. Searching(t) /\ always[t] \subseteq 1 .. DirectoryCount
      BY <1>1 DEF SearchInv, TypeOK, Directories
    <2>2. 1 .. DirectoryCount \subseteq 1 .. next - 1
      BY <1>1, DirectoryCountAssumption DEF SearchInv, TypeOK
    <2>3. QED
      BY <2>1, <2>2 DEF Searching
  <1>3. QED
    BY <1>1, <1>2
    DEF SearchInv, TypeOK, Places, Stopped, Sequence, Tools, FirstStableIsFound, MissedOnlyIfAbsent

LEMMA EnvironmentKeeps ==
  ASSUME SearchInv, NEW t \in Tools, NEW d \in Directories, Install(t, d) \/ Remove(t, d)
  PROVE  SearchInv'
  <1>1. place \in Tools /\ UNCHANGED <<line, place, next, found>>
    BY DEF Install, Remove, searchVars
  <1>2. TypeOK'
    BY <1>1 DEF Install, Remove, SearchInv, TypeOK
  <1>3. ASSUME NEW u \in Tools, place' = u
        PROVE  Searching(u)'
    <2>1. Searching(u) /\ place = u
      BY <1>1, <1>3 DEF SearchInv
    <2>2. /\ present'[u] = IF u # t THEN present[u]
                           ELSE IF Install(t, d) THEN present[u] \cup {d} ELSE present[u] \ {d}
          /\ ever'[u] = IF u = t /\ Install(t, d) THEN ever[u] \cup {d} ELSE ever[u]
          /\ always'[u] = IF u = t /\ ~Install(t, d) THEN always[u] \ {d} ELSE always[u]
      BY <2>1 DEF Install, Remove, SearchInv, TypeOK
    <2>3. QED
      BY <1>1, <2>1, <2>2 DEF Searching
  <1>4. FirstStableIsFound'
    <2>1. ASSUME NEW u \in Tools, found[u] # 0
          PROVE  ever'[u] = ever[u] /\ always'[u] = always[u]
      <3>1. place # u
        BY <2>1 DEF SearchInv, Searching
      <3>2. QED
        BY <3>1 DEF Install, Remove, SearchInv, TypeOK
    <2>2. QED
      BY <1>1, <2>1 DEF FirstStableIsFound, SearchInv
  <1>5. Sequence' /\ MissedOnlyIfAbsent'
    BY <1>1 DEF SearchInv, Sequence, Usable, MissedOnlyIfAbsent, Tools
  <1>6. QED
    BY <1>2, <1>3, <1>4, <1>5 DEF SearchInv

(* The remaining steps only move main.                                      *)
LEMMA MoveKeeps ==
  ASSUME SearchInv,
         \/ OptionsRefused \/ Bind \/ BindFails \/ Decided \/ UNCHANGED vars
         \/ \E t \in Tools : SearchFails(t)
  PROVE  SearchInv'
  <1>1. UNCHANGED <<line, next, found, present, ever, always>>
    BY DEF OptionsRefused, Bind, BindFails, Decided, SearchFails, Stop, vars, searchVars, historyVars
  <1>2. CASE place' = place
    BY <1>1, <1>2
    DEF SearchInv, TypeOK, Sequence, Usable, Searching, FirstStableIsFound, MissedOnlyIfAbsent
  <1>3. CASE place' # place
    <2>1. \/ place = "options" /\ ~Usable(line) /\ place' = "exited"
          \/ place = "bind" /\ place' \in {"serving", "terminated"}
          \/ place \in Tools /\ place' = "terminated"
      BY <1>3 DEF OptionsRefused, Bind, BindFails, Decided, SearchFails, Stop, vars
    <2>2. QED
      BY <1>1, <2>1
      DEF SearchInv, TypeOK, Places, Stopped, Tools, Sequence, Usable, FirstStableIsFound,
          MissedOnlyIfAbsent
  <1>4. QED
    BY <1>2, <1>3

LEMMA StartupStep == SearchInv /\ [Next]_vars => SearchInv'
  BY OptionsKeep, FileExistsKeeps, FileIsMissingKeeps, NotFoundKeeps, EnvironmentKeeps, MoveKeeps
  DEF Next, MainStep, Failure

LEMMA StartupKeepsInv == Spec => []SearchInv
  BY StartupInit, StartupStep, PTL DEF Spec

(* Startup keeps its variables in their types.                              *)
THEOREM StartupTypeCorrect == Spec => []TypeOK
  <1>1. SearchInv => TypeOK
    BY DEF SearchInv
  <1>2. QED
    BY StartupKeepsInv, <1>1, PTL

(* However many directories there are and whatever other processes do, the  *)
(* search never passes a program by that stays where it is.                 *)
THEOREM StableProgramIsFound == Spec => []FirstStableIsFound
  <1>1. SearchInv => FirstStableIsFound
    BY DEF SearchInv
  <1>2. QED
    BY StartupKeepsInv, <1>1, PTL

(* main never gives up on a program that stays where it is.                 *)
THEOREM StableProgramIsNotMissed == Spec => []MissedOnlyIfAbsent
  <1>1. SearchInv => MissedOnlyIfAbsent
    BY DEF SearchInv
  <1>2. QED
    BY StartupKeepsInv, <1>1, PTL

(* The server has everything that a build asks for when it starts.          *)
THEOREM ServerIsEquipped == Spec => []ServesFullyEquipped
  <1>1. SearchInv => ServesFullyEquipped
    BY DEF SearchInv, Sequence, FirstStableIsFound, ServesFullyEquipped, Usable, TypeOK,
           CommandLines, Tools
  <1>2. QED
    BY StartupKeepsInv, <1>1, PTL

----------------------------------------------------------------------------
(* main decides                                                             *)

(* The steps main may still take before it serves or is gone.               *)
StepsLeft ==
    CASE place = "options" -> 2 * DirectoryCount + 5
      [] place = "git"     -> 2 * DirectoryCount + 5 - next
      [] place = "cmake"   -> DirectoryCount + 3 - next
      [] place = "bind"    -> 1
      [] OTHER             -> 0

(* main takes at most 2 * DirectoryCount + 5 steps until it serves or is    *)
(* gone.  Other processes may install and remove programs as often as they  *)
(* like: they do not make it look twice (find_executable.cpp:8-24).         *)
THEOREM MainDecides ==
    Spec => /\ [](StepsLeft \in 0 .. 2 * DirectoryCount + 5)
            /\ [](StepsLeft = 0 <=> place \in {"serving"} \cup Stopped)
            /\ [][IF UNCHANGED <<place, searchVars>> THEN StepsLeft' = StepsLeft
                                                     ELSE StepsLeft' < StepsLeft]_vars
  <1> USE DirectoryCountAssumption
  <1>1. SearchInv => /\ StepsLeft \in 0 .. 2 * DirectoryCount + 5
                     /\ StepsLeft = 0 <=> place \in {"serving"} \cup Stopped
    BY DEF SearchInv, TypeOK, StepsLeft, Places, Tools, Stopped
  <1>2. SearchInv /\ SearchInv' /\ [Next]_vars =>
            [IF UNCHANGED <<place, searchVars>> THEN StepsLeft' = StepsLeft
                                                ELSE StepsLeft' < StepsLeft]_vars
    <2> SUFFICES ASSUME SearchInv, SearchInv', Next
                 PROVE  IF UNCHANGED <<place, searchVars>> THEN StepsLeft' = StepsLeft
                                                           ELSE StepsLeft' < StepsLeft
      OBVIOUS
    <2>1. CASE UNCHANGED <<place, searchVars>>
      BY <2>1 DEF StepsLeft, searchVars
    <2>2. CASE ~UNCHANGED <<place, searchVars>>
      <3>1. next \in 1 .. DirectoryCount + 1 /\ next' \in 1 .. DirectoryCount + 1
        BY DEF SearchInv, TypeOK
      <3>2. StepsLeft' < StepsLeft
        <4>1. CASE OptionsAccepted
          BY <3>1, <4>1 DEF OptionsAccepted, Search, StepsLeft
        <4>2. CASE OptionsRefused
          BY <3>1, <4>2 DEF OptionsRefused, Stop, StepsLeft
        <4>3. ASSUME NEW t \in Tools, FileExists(t) PROVE StepsLeft' < StepsLeft
          BY <3>1, <4>3 DEF FileExists, GoOn, Search, StepsLeft, Tools
        <4>4. ASSUME NEW t \in Tools, FileIsMissing(t) PROVE StepsLeft' < StepsLeft
          BY <3>1, <4>4 DEF FileIsMissing, StepsLeft, Tools
        <4>5. ASSUME NEW t \in Tools, NotFound(t) \/ SearchFails(t)
              PROVE  StepsLeft' < StepsLeft
          BY <3>1, <4>5 DEF NotFound, SearchFails, Stop, StepsLeft, Tools
        <4>6. CASE Bind \/ BindFails
          BY <4>6 DEF Bind, BindFails, Stop, StepsLeft
        <4>7. QED
          BY <2>2, <4>1, <4>2, <4>3, <4>4, <4>5, <4>6
          DEF Next, MainStep, Failure, Install, Remove, Decided, vars
      <3>3. QED
        BY <2>2, <3>2
    <2>3. QED
      BY <2>1, <2>2
  <1>3. QED
    BY <1>1, <1>2, StartupKeepsInv, PTL DEF Spec

============================================================================
