------------------------------ MODULE Startup ------------------------------
(***************************************************************************)
(* main of tyroxx-ci/tyroxx-ci.cpp up to io.run(), which is the same in    *)
(* the examples: the command line, the search for git and for cmake        *)
(* (server/find_executable.cpp) and the socket that is bound.              *)
(*                                                                         *)
(* The search looks into one directory after the other while other         *)
(* processes install and remove programs.  Directories are numbered in the *)
(* order in which they are searched; each of them may hold each tool.      *)
(***************************************************************************)
EXTENDS Naturals

CONSTANT DirectoryCount     \* /bin, /usr/bin and /usr/local/bin: 3

ASSUME DirectoryCountAssumption == DirectoryCount \in Nat

Directories == 1 .. DirectoryCount

Tools == {"git", "cmake"}

(* What parse_options can tell of a command line.                           *)
CommandLines == [well_formed : BOOLEAN, help : BOOLEAN,
                 repository : BOOLEAN, workspace : BOOLEAN]

VARIABLES
    line,         \* the command line
    place,        \* what main is doing: the tool it looks for, for example
    next,         \* the directory the search looks into next
    present,      \* the directories that hold each tool
    found,        \* the directory each tool was found in, 0 for none
    ever,         \* ghost: the directories that held a tool during its search
    always        \* ghost: those that held it throughout its search

searchVars  == <<next, found>>
historyVars == <<ever, always>>
vars        == <<line, place, searchVars, present, historyVars>>

Stopped == {"exited", "terminated"}
Places  == {"options", "bind", "serving"} \cup Tools \cup Stopped

Init ==
    /\ line \in CommandLines
    /\ place = "options"
    /\ next = 1
    /\ present \in [Tools -> SUBSET Directories]
    /\ found = [t \in Tools |-> 0]
    /\ ever = [t \in Tools |-> {}]
    /\ always = [t \in Tools |-> {}]

(* The history of tool t begins with its search.                            *)
Search(t) ==
    /\ place' = t
    /\ next' = 1
    /\ ever' = [ever EXCEPT ![t] = present[t]]
    /\ always' = [always EXCEPT ![t] = present[t]]

Stop(how) ==
    /\ place' = how
    /\ UNCHANGED <<line, searchVars, present, historyVars>>

----------------------------------------------------------------------------
(* parse_options                                                            *)

(* Seeded fault: nobody looks whether there is a workspace.                 *)
Usable_NoWorkspace(l) == l.well_formed /\ ~l.help /\ l.repository

Usable(l) == l.well_formed /\ ~l.help /\ l.repository /\ l.workspace

OptionsAccepted ==
    /\ place = "options"
    /\ Usable(line)
    /\ Search("git")
    /\ UNCHANGED <<line, present, found>>

OptionsRefused ==
    /\ place = "options"
    /\ ~Usable(line)
    /\ Stop("exited")

----------------------------------------------------------------------------
(* find_git, find_cmake: find_file_in_directories                           *)

(* Seeded fault: the directory that was added last is searched first.       *)
Candidate_LastFirst(i) == DirectoryCount + 1 - i

Candidate(i) == i

(* Seeded fault: the search goes past the last directory.                   *)
DirectoriesLeft_OneMore == next <= DirectoryCount + 1

(* Seeded fault: the last directory is left out.                            *)
DirectoriesLeft_OneShort == next < DirectoryCount

DirectoriesLeft == next <= DirectoryCount

(* What main does with a tool it has.                                       *)
GoOn(t) ==
    IF t = "git" THEN Search("cmake")
    ELSE /\ place' = "bind"
         /\ UNCHANGED <<next, historyVars>>

(* Seeded fault: the test for the file is the wrong way round.              *)
FileExists_Negated(t) ==
    /\ place = t
    /\ DirectoriesLeft
    /\ Candidate(next) \notin present[t]
    /\ found' = [found EXCEPT ![t] = Candidate(next)]
    /\ GoOn(t)
    /\ UNCHANGED <<line, present>>

FileExists(t) ==
    /\ place = t
    /\ DirectoriesLeft
    /\ Candidate(next) \in present[t]
    /\ found' = [found EXCEPT ![t] = Candidate(next)]
    /\ GoOn(t)
    /\ UNCHANGED <<line, present>>

(* Seeded fault: the loop looks into the same directory again.              *)
FileIsMissing_Again(t) ==
    /\ place = t
    /\ DirectoriesLeft
    /\ Candidate(next) \notin present[t]
    /\ UNCHANGED vars

FileIsMissing(t) ==
    /\ place = t
    /\ DirectoriesLeft
    /\ Candidate(next) \notin present[t]
    /\ next' = next + 1
    /\ UNCHANGED <<line, place, present, found, historyVars>>

(* file_exists returns an error; get() in main throws it and nobody catches *)
(* it.                                                                      *)
SearchFails(t) ==
    /\ place = t
    /\ DirectoriesLeft
    /\ Stop("terminated")

(* "Could not find Git", "Could not find CMake": main returns 1.            *)
NotFound(t) ==
    /\ place = t
    /\ ~DirectoriesLeft
    /\ Stop("exited")

----------------------------------------------------------------------------
(* The acceptor of run_server                                               *)

Bind ==
    /\ place = "bind"
    /\ place' = "serving"
    /\ UNCHANGED <<line, searchVars, present, historyVars>>

(* The port is taken; the constructor throws and nobody catches it.         *)
BindFails ==
    /\ place = "bind"
    /\ Stop("terminated")

----------------------------------------------------------------------------
(* Other processes, while somebody searches                                 *)

Install(t, d) ==
    /\ place \in Tools
    /\ d \notin present[t]
    /\ present' = [present EXCEPT ![t] = @ \cup {d}]
    /\ ever' = [ever EXCEPT ![t] = IF place = t THEN @ \cup {d} ELSE @]
    /\ UNCHANGED <<line, place, searchVars, always>>

Remove(t, d) ==
    /\ place \in Tools
    /\ d \in present[t]
    /\ present' = [present EXCEPT ![t] = @ \ {d}]
    /\ always' = [always EXCEPT ![t] = IF place = t THEN @ \ {d} ELSE @]
    /\ UNCHANGED <<line, place, searchVars, ever>>

----------------------------------------------------------------------------

MainStep ==
    \/ OptionsAccepted
    \/ OptionsRefused
    \/ \E t \in Tools : FileExists(t) \/ FileIsMissing(t) \/ NotFound(t)
    \/ Bind

Failure == BindFails \/ \E t \in Tools : SearchFails(t)

(* The server runs, or the process is gone.                                 *)
Decided ==
    /\ place \in {"serving"} \cup Stopped
    /\ UNCHANGED vars

Next ==
    \/ MainStep
    \/ Failure
    \/ \E t \in Tools, d \in Directories : Install(t, d) \/ Remove(t, d)
    \/ Decided

Spec == Init /\ [][Next]_vars

(* main goes on; nothing is assumed of other processes, and no failure has  *)
(* to happen.                                                               *)
FairSpec == Spec /\ WF_vars(MainStep)

----------------------------------------------------------------------------

(* Every variable keeps to its type.                                        *)
TypeOK ==
    /\ line \in CommandLines
    /\ place \in Places
    /\ next \in 1 .. DirectoryCount + 1
    /\ present \in [Tools -> SUBSET Directories]
    /\ found \in [Tools -> 0 .. DirectoryCount]
    /\ ever \in [Tools -> SUBSET Directories]
    /\ always \in [Tools -> SUBSET Directories]

(* A tool is found where it was at some time of the search, and no          *)
(* directory before that one held it all the time: what others install and  *)
(* remove meanwhile never makes the search pass a stable program by         *)
(* (find_executable.cpp:11-22).                                             *)
FirstStableIsFound ==
    \A t \in Tools : found[t] # 0 =>
        /\ found[t] \in ever[t]
        /\ \A d \in 1 .. found[t] - 1 : d \notin always[t]

(* main gives up on a tool only if no directory held it throughout, so a    *)
(* tool that is just being moved is the only one it can miss                *)
(* (tyroxx-ci.cpp:452, 459).                                                *)
MissedOnlyIfAbsent ==
    place = "exited" /\ Usable(line) =>
        \E t \in Tools : found[t] = 0 /\ always[t] = {}

(* The server never runs without a repository, a workspace, git and cmake   *)
(* (tyroxx-ci.cpp:446, 452, 459).                                           *)
ServesFullyEquipped ==
    place = "serving" =>
        /\ line = [well_formed |-> TRUE, help |-> FALSE, repository |-> TRUE, workspace |-> TRUE]
        /\ \A t \in Tools : found[t] \in ever[t]

(* The search ends however often programs come and go (find_executable.cpp: *)
(* 11-22).                                                                  *)
StartupEnds == <>(place \in {"serving"} \cup Stopped)

============================================================================
