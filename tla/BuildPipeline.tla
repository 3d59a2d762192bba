--------------------------- MODULE BuildPipeline ---------------------------
(***************************************************************************)
(* What the build thread of a step does: the callable given to             *)
(* make_thread_observable in each of the three programs, stage by stage,   *)
(* with the workspace directory it works in and the repository it clones.  *)
(*                                                                         *)
(* The repository is reduced to the number of its newest revision, head.   *)
(* Revision 0 is whatever an earlier process left in the workspace.  A     *)
(* stage is a call that can throw; every stage may throw at any time (no   *)
(* network, disk full, non-zero exit code) after part of its effect.       *)
(***************************************************************************)
EXTENDS Naturals, Sequences

CONSTANTS
    Program,      \* which of the three programs runs
    MaxRev        \* bound: revisions ever pushed to the repository

Programs == {"tyroxx-ci", "build_on_push", "graph"}

ASSUME ProgramAssumption == Program \in Programs
ASSUME MaxRevAssumption == MaxRev \in Nat \ {0}

VARIABLES
    head,         \* newest revision of options.repository
    tree,         \* the files and directories of options.workspace
    checkout,     \* the revision in source.git
    binary,       \* the revision the executables in build were made from
    stage,        \* position of each step's build thread, 0 when it has none
    outcome       \* result or exception in the future posted to the io thread

buildVars == <<head, tree, checkout, binary, stage, outcome>>

(* The keys of registry.name_to_step.                                       *)
Steps == {"silicium"}

Revisions == 0 .. MaxRev

(* Seeded fault: create_directories instead of recreate_directories.        *)
TyroxxCiStages_OnlyCreates ==
    <<"create", "clone", "mkdir", "generate", "build", "test">>

TyroxxCiStages ==
    <<"recreate", "clone", "mkdir", "generate", "build", "test">>

(* Seeded fault: the workspace is removed and not created again.            *)
BuildOnPushStages_OnlyRemoves ==
    <<"remove", "clone", "mkdir", "generate", "build", "test">>

BuildOnPushStages ==
    <<"remove", "create", "clone", "mkdir", "generate", "build", "test">>

(* Seeded fault: the workspace of the last build is used again.             *)
GraphStages_NeverRemoves ==
    <<"create", "clone", "mkdir", "generate", "build">>

GraphStages ==
    <<"remove", "create", "clone", "mkdir", "generate", "build">>

(* The callable that a step gives to make_thread_observable.                *)
Stages == CASE Program = "tyroxx-ci"     -> TyroxxCiStages
            [] Program = "build_on_push" -> BuildOnPushStages
            [] Program = "graph"         -> GraphStages

Entries == {"workspace", "source.git", "build", "cache", "binary"}

(* Entries a directory tree can hold together: none without its parent.     *)
Trees == {T \in SUBSET Entries :
             /\ T # {} => "workspace" \in T
             /\ T \cap {"cache", "binary"} # {} => "build" \in T}

(* What a stage must find to succeed.  git refuses to clone into a          *)
(* directory that is already there; graph.cpp does not start it in the      *)
(* workspace, the other two do.                                             *)
Ready(name) ==
    CASE name = "clone"    -> /\ "source.git" \notin tree
                              /\ Program = "graph" \/ "workspace" \in tree
      [] name = "generate" -> {"source.git", "build"} \subseteq tree
      [] name = "build"    -> "cache" \in tree
      [] name = "test"     -> "binary" \in tree
      [] OTHER             -> TRUE

(* The workspace after a stage.                                             *)
TreeAfter(name) ==
    CASE name = "remove"   -> {}
      [] name = "recreate" -> {"workspace"}
      [] name = "create"   -> tree \cup {"workspace"}
      [] name = "clone"    -> tree \cup {"workspace", "source.git"}
      [] name = "mkdir"    -> tree \cup {"workspace", "build"}
      [] name = "generate" -> tree \cup {"cache"}
      [] name = "build"    -> tree \cup {"binary"}
      [] OTHER             -> tree

CheckoutAfter(name) == IF name = "clone" THEN head ELSE checkout
BinaryAfter(name)   == IF name = "build" THEN checkout ELSE binary

(* run_test returns failure for a non-zero exit code of the tests.  A       *)
(* program whose last stage is not a test reports success.                  *)
Verdicts(name) == IF name = "test" THEN {"success", "failure"} ELSE {"success"}

BuildInit ==
    /\ head = 1
    /\ tree \in Trees
    /\ checkout = 0
    /\ binary = 0
    /\ stage = [s \in Steps |-> 0]
    /\ outcome = [s \in Steps |-> "none"]

(* Somebody pushes to the repository.                                       *)
Push ==
    /\ head < MaxRev
    /\ head' = head + 1
    /\ UNCHANGED <<tree, checkout, binary, stage, outcome>>

(* std_threading runs the callable in a thread of its own.                  *)
StartThread(s) ==
    /\ stage' = [stage EXCEPT ![s] = 1]
    /\ UNCHANGED <<head, tree, checkout, binary, outcome>>

(* The stage succeeds.  After the last one the result is put in the future  *)
(* and the observer is posted to the io thread.                             *)
StageDone(s) ==
    /\ stage[s] # 0
    /\ LET name == Stages[stage[s]] IN
       /\ Ready(name)
       /\ tree' = TreeAfter(name)
       /\ checkout' = CheckoutAfter(name)
       /\ binary' = BinaryAfter(name)
       /\ IF stage[s] < Len(Stages)
          THEN /\ stage' = [stage EXCEPT ![s] = @ + 1]
               /\ UNCHANGED outcome
          ELSE /\ stage' = [stage EXCEPT ![s] = 0]
               /\ \E v \in Verdicts(name) : outcome' = [outcome EXCEPT ![s] = v]
    /\ UNCHANGED head

(* The stage throws after any part of its effect.  The exception ends up in *)
(* the future.                                                              *)
StageThrows(s) ==
    /\ stage[s] # 0
    /\ LET name == Stages[stage[s]] IN
       /\ \E T \in Trees :
             /\ tree \cap TreeAfter(name) \subseteq T
             /\ T \subseteq tree \cup TreeAfter(name)
             /\ tree' = T
       /\ checkout' \in {checkout, CheckoutAfter(name)}
       /\ binary' \in {binary, BinaryAfter(name)}
    /\ stage' = [stage EXCEPT ![s] = 0]
    /\ outcome' = [outcome EXCEPT ![s] = "exception"]
    /\ UNCHANGED head

(* The types of the repository, the workspace and the build threads.        *)
BuildTypeOK ==
    /\ head \in 1 .. MaxRev
    /\ tree \in Trees
    /\ checkout \in Revisions
    /\ binary \in Revisions
    /\ stage \in [Steps -> 0 .. Len(Stages)]
    /\ outcome \in [Steps -> {"none", "success", "failure", "exception"}]

===========================================================================
