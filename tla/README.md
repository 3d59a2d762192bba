# TLA+ models of the buildserver

Models, model-checking runs and machine-checked proofs of the programs in this
repository: a continuous integration server that is told over HTTP that somebody
pushed to a repository, clones the newest revision, builds and tests it, and shows
the result on a web page. `src/` below is the repository root; `tyroxx-ci.cpp` is
`src/tyroxx-ci/tyroxx-ci.cpp`, the examples are in `src/examples/`.

* [Inventory](#inventory)
* [Modules](#modules) and how they correspond to the code
* [Properties](#properties)
* [Runs](#runs), [bounds](#bounds) and [fairness](#fairness)
* [What disagrees with the code](#what-disagrees-with-the-code)
* [Proofs](#proofs)
* [What is not modelled](#what-is-not-modelled)
* [Plan](#plan)
* [Working with the project](#working-with-the-project)

## Inventory

### The build server

Three programs have the same shape and mostly the same text: `tyroxx-ci.cpp`,
`build_on_push.cpp` and `graph.cpp`. They differ in the pipeline of a build and in
whether a step waits for one notification or for all of them.

| part | state | operations | interacts with |
|---|---|---|---|
| saturating notifier (`tyroxx-ci.cpp:39-81`) | one variant: an observer, which may be null, or a pending notification | `async_get_one`, `notify` | called by the step's coroutine and by the request handler; resumes the coroutine from inside `notify` |
| step coroutine (`tyroxx-ci.cpp:394-437`, `graph.cpp:480-552`) | its position; `step_history`: `is_building`, `last_result` | wait for a notification, launch the build thread, take its result, record it | the notifier, the build thread, the overview page (shared `step_history`) |
| request handlers (`tyroxx-ci.cpp:83-229`) | none of their own | `/` overview, `/notify` with a secret, anything else is 404 | `notify()` |
| nanoweb (`nanoweb.hpp`) | one coroutine per connection | receive a request, dispatch on a path element, answer, close | acceptor, request handlers |
| io thread | whose code it runs | everything above | one thread runs all coroutines; a resumed coroutine runs on the stack of whoever resumed it |
| build pipeline (`tyroxx-ci.cpp:303-358, 408-415`, `build_on_push.cpp`, `graph.cpp:242-420, 494-530`) | the workspace directory: clone, build directory, cmake cache, executables | clear, clone, generate, build, test | runs in a thread of its own; its result or exception is posted to the io thread |
| `run_process` (`tyroxx-ci.cpp:279-301`) | a pipe, a child process | launch, read until the end of the pipe, wait for the child | called by the pipeline for git and the tests |
| `cmake_exe` (`server/cmake.cpp`) | none | generate, build | called by the pipeline |
| finding executables (`server/find_*.cpp`) | the directory looked into, the tools found | search `/bin`, `/usr/bin`, `/usr/local/bin` for git, then for cmake | once, before the server starts; with whoever installs or removes programs meanwhile |
| command line (`parse_options`) and `main` | the options | parse, search, bind the port, or give up | once, before the server starts |

**How a build happens.** A POST to `/notify` runs `handle_notify_request` in the
coroutine of the connection. `notify()` either leaves a mark in the notifier or calls
`got_element` on the waiting coroutine, which then runs *inside* the call: it sets
`is_building`, starts a `std::thread`, and suspends, and only then does `notify()` return
and the client get its 200. The thread works through its stages; its result or its
exception goes into a `std::future` that `make_posting_observable` posts to the io loop.
The io loop resumes the coroutine, which takes the result out of the future, records it,
and clears `is_building`. In `graph.cpp` it then asks for the next notification; in the
other two programs it ends.

**What is hard.** Three kinds of actors interleave (io thread, build thread, the world
outside: clients and pushes). The notifier must hold a notification exactly when nobody
can take it. Control of the io thread passes through nested calls. A build may throw at
any point, after part of its effect on a directory that later builds use. The page shows
state written by a coroutine that may have been interrupted by an exception, about a
revision that may be stale. A child process may block on a pipe.

**What makes it correct.** No accepted notification is lost; builds do not overlap; a
build starts from a workspace it can work in; the page tells the truth about the build
started last; each notification is eventually followed by a build of something at least
as new; a build and the processes in it end, with their output complete; a request is
answered even if a build hangs; the server does not start without what a build needs.

### The other parts

| part | state and operations | what makes it correct |
|---|---|---|
| graph values (`server/graph.hpp`, `test/graph.cpp`, `graph.cpp`) | typed listings; `find_entry_of_type`; transformations applied to a listing | a value has the type its history promises; a chain whose types fit never mismatches; a sum is encoded exactly in spite of overflow and signed chars |
| expression language (`test/language.cpp`) | expressions, symbol tables with caches and a marker against recursion; `type_of`, `evaluate` | the type agrees with the value; a cycle of symbols is reported; a cached entry is what a fresh evaluation gives |
| Lua services host (`lua_services.cpp`) | a tree of steps, each run on the result of the step above it; a delay timer | each step once, after the step above it and on its result; the loop ends when all is done |
| Lua services library (`lua_services.lua`) | signals, `timeout`, `pipe`, `critical_section` | nothing: the file does not parse (the parenthesis in line 22), so none of it ever runs |
| Lua ideas (`lua-ideas/`) | design sketches | nothing loads them |

The hazards of this code, each at the line where it bites and with the properties that
cover it, are in `PROJECT.json`.

## Modules

```
 SaturatingNotifier   Nanoweb   BuildPipeline      RunProcess         LuaServices
          \              |           /                  |                  |
           +-------- BuildServer ---+            RunProcessProofs   LuaServicesProofs
                    /     |      \
         MCBuildServer    |   BuildTrigger         Startup     GraphValues        Language
                   BuildServerProofs                  |             |             /      \
                                               StartupProofs GraphValuesProofs  MCLanguage  LanguageProofs
                                                                                                 |
                                                                                       LanguageCacheProofs
                                                                                                 |
                                                                                     LanguageRecursionProofs
```

An edge is EXTENDS, from the upper module to the lower; `BuildServer` takes `BuildTrigger` by
INSTANCE with a refinement mapping. `Startup` ends where `BuildServer` begins: its place
"serving" is the program before `SpawnStep`.

### Startup

`main` up to `run_server`'s acceptor, which is the same in the three programs. `place` is
what main is doing. Each iteration of the loop in `find_file_in_directories` is an action
(`FileExists`, `FileIsMissing`, `SearchFails`), because other processes install and remove
programs between two iterations (`Install`, `Remove`). `line` is a command line reduced to
what the early returns of `parse_options` tell apart. `ever` and `always` are ghosts: the
directories that held a tool at some time of its search and those that held it throughout.
`SearchFails` and `BindFails` are errors that are thrown out of main.

### SaturatingNotifier

`slot` is `m_observer_or_notification`. Each branch of the two `Si::visit` calls is an
action: `Register` and `TakePending` are `async_get_one`; `Wake`, `Store` and `Saturate` are
`notify`. `Register` has the code's assertion (`:50`) as its guard; `ObserverSlotFree` says
the guard never blocks. `got_element` is not in this module: `Wake` and `TakePending` are
composed with the resumption of the coroutine by `BuildServer`.

### Nanoweb

`conn[c]` is where the coroutine of a connection is, `reply[c]` what it is sending. A client
is one connection at a time. A request is reduced to the elements of its path, the first of
which selects the handler (`make_directory`; no element counts as the empty one), and to
whether the path contains the secret.
The write of an answer may take any time and may fail; its error is ignored by the code
and the connection is closed in either case.

### BuildPipeline

The three pipelines are the sequences `TyroxxCiStages`, `BuildOnPushStages` and
`GraphStages`; `Stages`, what the callable given to `make_thread_observable` runs through, is
that of the constant `Program`. `tree` is the set of things in the
workspace (a set without its parent directory is excluded by `Trees`), `checkout` and
`binary` are the revisions in the clone and in the executables, `head` is the newest
revision of the remote repository. `StageDone` has a stage's full effect and needs what the
stage needs (`Ready`); `StageThrows` has any part of its effect, including none and all, and
may happen at any time. The last stage, or an exception, fills the future (`outcome`).

`Ready` contains a difference between the programs: `git clone` is started *in* the
workspace by `tyroxx-ci.cpp` and `build_on_push.cpp`, which therefore must exist, while
`graph.cpp` names the destination and lets git create it.

### BuildServer

Composes the three, and adds the io thread.

| state | code |
|---|---|
| `running` | which coroutine (or `main`, or `io.run()`) executes on the io thread |
| `caller` | the frame below a step's coroutine: main, the io loop, or the client whose `notify()` resumed it |
| `builder[s]` | where the step's coroutine is |
| `is_building[s]`, `last_result[s]` | `step_history` |
| `alive` | no exception has left `io.run()` |
| `promised`, `attempted`, `verified` | ghosts: the newest revision when a client's notification was accepted, when the last build started, and the revision of the last successful build |

| action | code (`tyroxx-ci.cpp`) |
|---|---|
| `SpawnStep`, `RunIo` | 392-440 |
| `GetOneWaits`, `GetOneTakesPending` | 400: `yield.get_one(notifier)` |
| `StartBuild` | 402-415: flag, thread, suspend |
| `BuildThread` | 408-415 and 303-358: a stage of the pipeline |
| `DeliverResult` | 406: the posted handler resumes the coroutine |
| `TakeResult` | 417-434: `get()`, the switch, the catch clause |
| `FinishBuild` | 435-436: flag; loop (`graph.cpp`) or end |
| `Accept`, `AcceptFails`, `ReceiveFails` | 375-390 and `nanoweb.hpp:60-80` |
| `ServeOverview`, `ServeNotFound`, `RefuseNotify` | 114-229, 84-93 |
| `AcceptNotify`, `NotifyWakes`/`NotifyLeavesMark`, `ConfirmNotify` | 83-101, before, in and after `notify()` |
| `ResponseEnds` | `nanoweb.hpp`: the write completes, the socket is shut down |
| `PushRevision` | outside: somebody pushes |

A stretch of code between two points at which the io thread can be given away is one
action or a chain of actions that nobody on the io thread can interrupt. It is cut where
another *thread* could observe or be observed. Between `TakeResult` and `FinishBuild`, for
example, the step still has the io thread, so no page can be rendered there.

### BuildTrigger

What such a server promises: a notification is owed a build (`owed`), a build is under way
(`building`), how the last one ended (`result`), whether the server is up, the newest
revision (`head`), the newest one when the last build was started (`attempted`), and the
last that was built successfully (`verified`). A build that succeeds has verified a revision
between `attempted` and `head`. `BuildServer!Trigger` is the refinement mapping: a
notification is owed while it is in the notifier or in the hands of the step, a build is
under way from the launch of its thread until its result is recorded.

### RunProcess

The caller's way through `run_process` (`place`), who holds a handle of the pipe's write end
(`writers`), the child and one descendant the child may start and leave behind, and the
output as a count of units. A process blocks while the pipe is full; the caller's read ends
when the pipe is empty and nobody can write to it. `LaunchFails` and `WaitForExitFails` are
the calls whose `get()` throws an error out of `run_process`.

### LuaServices

The tree of steps in `lua_services.cpp` and the `handle_input` that is written for all trees.
`Begin` is main's `handle_input(root, {})`; `BeginHandler` takes the next of the queue of
ready handlers (`posted`), `FollowEdge` is one turn of its loop over the edges below, with
the call of `handle_input` in it, and `HandlerReturns` its end; `handling` and `edge` say
how far it is. `TimerElapses` is the timer of a `delay`, `RunReturns` the end of `io.run()`.
The tree and the kind of each step are chosen in `Init`: every tree of up to `N` steps that
post, delay or ignore their input. main builds one of them (a root that posts, with a
posting, a delaying and a posting step below it).

### GraphValues

A client with one value at hand (`current`), who builds a listing entry by entry (`Insert`)
and calls transformations on what it has (`Returns`, `CommandFails`, `Mismatches`). The
transformations are those of `test/graph.cpp` and the three of `graph.cpp` that run git and
cmake. In the code types are known to the caller only: a transformation looks at the value.
`type` is what the caller concludes from what it inserted and from the declared output
types; the properties compare the two. `Uint32ToLe` is a conversion to four signed chars, in
base `Radix`.

### Language

`type_of` and `evaluate` call each other and the symbol table, which calls them. `TypeOf` and
`Evaluate` (with a `SymbolTypeOf`, `TypeOfLambda`, ... for each function or branch of them)
give what comes out (a type or value, none, or an exception) together with the table as the
call leaves it, so the marks and remembered types left behind by nested calls and by
exceptions are there. They take the answers of the calls that they make from a function on
`Questions`; `Answers[n]` holds the answers when `n` calls fit on the stack, and a call
that needs more gives `StackOverflow`. `Questions` has the expressions up to a height of
`MaxHeight`, which makes it a set; a call on a larger one gives `OutOfMemory`. Both are the
ends of a real program that a C++ function has no way to report: nothing goes on after them
(`PrintAgain`).

The state machine is `pretty_print` of a module: it asks for the type of each export in turn
and prints it with the expression (`PrintExport`). An exception from either ends it; printing
an expression throws at a literal that holds a closure (`IsPrintable`). The table belongs to
the caller of `pretty_print` and outlives the call. The tests print once with each table;
`PrintAgain` is an action of the environment, a caller that prints again with the table as
the last printing left it. The kinds of expression that both functions refuse with "not
implemented" are represented by one outcome of that name.

### Seeded faults

Definitions named like `Suspend_ToIoLoop` are a definition of the model with one plausible
bug in it: a mark that is not cleared, an observer dropped, a stage list without the
removal of the old workspace. No specification uses them. Each property of each run has
one (`"mutants"` in `PROJECT.json`) that makes TLC refute it when it takes the place of the
original; it shows that the property depends on what the code does there.

## Properties

Each property is stated in a comment above it; in short:

| property | says |
|---|---|
| `TypeOK` | types |
| `ObserverSlotFree` | the assertion in `async_get_one` holds |
| `IoThreadExclusive` | the io thread has exactly one owner; each frame on its stack is accounted for |
| `StagesFindTheirInputs` | each stage starts with what it needs, whatever earlier builds or processes left behind |
| `NoLostNotification` | an accepted notification is still pending or a build as new as it has been started |
| `FlagTruthful` | "building.." exactly while a build thread or its undelivered result exists |
| `ResultBelongsToLastBuild` | an idle step's success is of the build started last |
| `FirstStableIsFound`, `MissedOnlyIfAbsent` | the search finds a tool in a directory that held it, with none before it that held it throughout; main gives up only on a tool that no directory held throughout |
| `ServesFullyEquipped`, `StartupEnds` | the server starts with all it needs; the search ends |
| `TypesAreTrue` | a value has the type that its history promises |
| `MismatchIsCallersFault` | "input type mismatch" only after a call that the types did not allow |
| `SumIsEncodedExactly` | `uint32_add`, then `uint32_to_le`: the digits of the sum modulo 2^32 |
| `SessionSeesOwnBuild` | a client that was told 200 and then sees an idle, successful server knows its own revision was built |
| `NotifyLeadsToBuild`, `FirstNotifyLeadsToBuild`, `BuildEnds`, `NotifyIsAnswered` | progress |
| `ImplementsTrigger` | the program implements `BuildTrigger`, with its fairness |
| `OneResultEach`, `InputIsResultOfParent`, `SiblingsInOrder`, `NothingLeftBehind`, `Returns` | of the steps in `lua_services.cpp`: each result is delivered once, to the steps below, in order; `io.run()` returns when all is done and not before |
| `MarksAreReleased`, `KnownTypesAreKept`, `TypeFitsValue` | of the expression language: no mark outlives its call; a remembered type is never replaced; types fit values |
| `CacheIsTransparent` | in a module of closed exports a table that was used before gives the type that a new one gives, or a type where a new one throws |
| `WholeOutput`, `Terminates`, `ChildExits` | `run_process` returns, with all the output, and the child is not left blocked |
| `NoDeadlock` | caller, child and descendant never all wait for each other: `run_process` waits for ever only for a process that does not end by itself |

## Runs

| run | module, configuration | question | distinct states |
|---|---|---|---|
| `graph_safety` | MCBuildServer, `GraphSafety.cfg` | Does any interleaving in the looping server break a safety property? | 1,432,000 |
| `graph_liveness` | MCBuildServer, `GraphLiveness.cfg` | Is each notification built, each build ended? Is `BuildTrigger` implemented? | 71,900 |
| `tyroxx_ci` | MCBuildServer, `TyroxxCi.cfg` | Is the result that `tyroxx-ci.cpp` shows that of its one build, its first notification built although its coroutine ends, and each notification answered even if a build hangs? | 9,800 |
| `build_on_push` | MCBuildServer, `BuildOnPush.cfg` | Is that of `build_on_push.cpp`, which removes and creates the workspace in two steps? | 112,700 |
| `run_process` | RunProcess, `RunProcess.cfg` | Does `run_process` return with all of the output, and can it deadlock? | 1,000 |
| `lua_services` | LuaServices, `LuaServices.cfg` | Is every tree of up to five steps run to its end, each step once and on the right input? | 86,700 |
| `startup` | Startup, `Startup.cfg` | Does main find what stays where it is, and start only then? | 178,700 |
| `graph_values` | GraphValues, `GraphValues.cfg` | Are types kept and sums encoded along any chain of transformations? | 260,900 |
| `language` | MCLanguage, `Language.cfg` | Do the marks and the remembered types of the symbol table stay invisible, and do types fit values? | 401,800 |
| `tyroxx_ci_one_shot` | MCBuildServer, `TyroxxCiOneShot.cfg` | Is *every* notification built by `tyroxx-ci.cpp`? No: see below. | - |
| `lua_services_delay` | LuaServices, `LuaServicesDelay.cfg` | Does a delay pass its output on? No. | - |
| `language_recursion` | MCLanguage, `LanguageRecursion.cfg` | Is a symbol that depends on itself always reported? No. | - |

Deadlock is checked in the runs of `BuildServer`, `Startup` and `GraphValues`, which stutter
when an exception has ended them or, in `Startup`, when it is decided. The other modules
model something that comes to an end (one call, one tree of steps, the printing of a
module); `NoDeadlock` of `RunProcess` tells that end from a deadlock.

### Bounds

* `MaxRev = 2`: the repository has a revision 1 and gets a revision 2 at any time. Every
  property relates one notification to one build, "older" or "at least as new"; two
  revisions are enough for a build of the old one to be under way, finished or failed when
  the notification of the new one comes. The number of builds and notifications is *not*
  bounded: the state has no counter but revisions.
* `Clients = {c1, c2}` in the safety runs: one can be inside `notify()` while another is
  connected, refused or shown a page; a third meets the notifier in a state that the second
  already met (`Saturate`). One client in the liveness runs, because symmetry is unsound
  there; it reconnects any number of times. Clients are interchangeable, so the safety runs
  use `ClientSymmetry`.
* The registry of steps has the one key that the code puts into it (`Steps`).
* The workspace starts in any state a dead process could have left (`tree \in Trees`).
* `Capacity = 2`, `MaxOutput = 4`: both processes can fill the pipe, alone and together, and
  still have output to write. One descendant is enough for "somebody else holds the pipe".

* `N = 5` in `lua_services`: every tree of five steps of every mixture of kinds, so also
  chains, two branches that race, and siblings of each kind. main's tree has four.
* `DirectoryCount = 3` in `startup` is the code's number. Initially each directory holds any
  of the tools; how often programs come and go is not bounded.
* `Radix = 4`, `Numbers = {1, 130, 255}`, `MaxEntries = 3` in `graph_values`: a uint32 has four
  digits of two bits, so that sums with and without a carry out of it occur (130 + 255 and
  1 + 130) and digits on both sides of the sign. Three entries are what the largest input
  asks for; with them there are listings with one entry too few, of a wrong type, or more
  than are asked for.
* `Paths` has every path of up to two elements; the handlers ignore all but the first.
* `SmallModules` in `language` has three families of modules under the names x, y and z: every
  pair of 257 exports (references to each other, to themselves and to nothing, calls, calls
  of the result of calls, functions whose parameter and bound value depend on the caller,
  generic functions) next to a closed one; each of them after a function that has a type but
  no text; each of them next to two functions that use it with arguments of their own; and
  every three of ten closed functions that use each other's types and values. Three are needed for what the last family is about: an export that is
  asked for by a second one while a third is marked.
  `MaxPrints = 2` because the second printing meets the table the first one filled.
  With `MaxDepth = 20` and `MaxHeight = 10` no call in these modules gives `OutOfMemory`, and
  every `StackOverflow` is still one with 15 more calls on the stack.
* `language_recursion` has pairs of closed functions only, and `MaxDepth = 30`; the call it
  finds needs more whatever the depth.

The theorems below have none of these bounds.

### Fairness

`FairSpec` of `BuildServer` is `Spec /\ IoFairness /\ BuildFairness`; `HangingSpec`, without
`BuildFairness`, lets a command of a build hang for ever. `IoFairness` assumes

* weak fairness of the code that has the io thread (`Startup`, `StepCoroutine`, `Handler`): a
  thread that is able to run runs;
* strong fairness of `DeliverResult`. It needs the io loop, which is taken and given back
  by clients without end. The posted handler is in the io service's queue, which is served
  in order, so it has its turn however many connections there are; weak fairness would not
  say so because the loop is busy again and again.

and `BuildFairness`

* weak fairness of the build thread: it runs, and the commands it runs end. The code does
  not enforce this (there is no timeout for git, cmake or the tests), and a command that
  hangs does leave its step building for ever. `NotifyIsAnswered` and
  `FirstNotifyLeadsToBuild` are therefore checked under `HangingSpec`: the rest of the server
  must not be affected.

Nothing is assumed of clients, of the network (a connection may stall for ever) or of
pushes. Liveness properties all have "unless the server has died" (`~alive`), because an
accept error or `remote_endpoint()` of a vanished peer throws out of `io.run()`.

`FairSpec` of `RunProcess` assumes that the caller goes on, that the child and its descendant
write what they have to write and then close the pipe, and that the child exits; `NoDeadlock`
needs none of this. The caller that waits for an exit may get an error, but is not assumed
to: `WaitForExitFails` is not part of `Caller`. `FairSpec` of `LuaServices` assumes that main goes on and that a timer
elapses, that of `Startup` that main goes on: no failure is assumed to happen, and nothing
is assumed of other processes.

## What disagrees with the code

**A step of `tyroxx-ci` and of `build_on_push` builds once.** The coroutine in
`tyroxx-ci.cpp:397-436` (and `build_on_push.cpp:418-459`) waits for one notification, builds,
and ends. There is no loop around it. From then on nobody reads the notifier: later
notifications are accepted, kept (`NoLostNotification` holds: the mark stays) and answered
with "the server has been successfully notified" (`tyroxx-ci.cpp:98`), but nothing is built.
`tyroxx_ci_one_shot` shows it as a counterexample to `NotifyLeadsToBuild`. `graph.cpp:484` has
the loop, and `graph_liveness` shows the same property to hold there. What the one-shot
programs do guarantee is `FirstNotifyLeadsToBuild`. That the counterexample is the rule, for
any number of clients, revisions and notifications, is theorem `EndedStepsNeverBuild`.

**A delay fails when its timer succeeds.** The handler in `lua_services.cpp:88-98` tests the
error code the wrong way round: `if (!ec)` passes on "A timer failed on the system level".
`lua_services_delay` refutes `DelayPassesOutputOn`. main does not notice, because nothing is
below its delay.

**A generic function can depend on itself unreported.** The table marks a symbol while it
works on it and reports a symbol that it meets again. The result of a generic call is typed
from the body of the closure (`language.cpp:749`) after the marks were released.
`language_recursion` finds a module in which the body calls the same function with the same
argument: the second nested call has the arguments and the table of the first, so the
recursion has no end. The run shows it for one `MaxDepth`, theorem `RecursionGoesUnreported`
for every one, and for every export and caller of this kind in every module of closed exports.

One more observation, which contradicts no doc: what a module prints can depend on what its
table was asked for before. Let `x` be a function with the body `z`, `y` one with the body
`x`, and `z` one whose body is a lambda with the bound value `x`. A new table throws "Value of
symbol x depends on itself" for `y` (`language.cpp:419-422`, `455-458`): the mark on `x` is that
of `type_of`, and `evaluate` takes it for its own. When `x` is printed first, nothing marks
it: the type of `z` is found and remembered, and `y` gets a type. Hence the exception for what
a new table throws in `CacheIsTransparent`; where a new table gives a type, or none, a used
one gives the same.

## Proofs

`BuildServerProofs`, `RunProcessProofs`, `LuaServicesProofs`, `StartupProofs`,
`GraphValuesProofs`, `LanguageProofs`, `LanguageCacheProofs` and `LanguageRecursionProofs`.
They hold for every set of clients, every `MaxRev`, each of the three programs, every pipe
capacity, every bound on output, trees of any size, any number of directories, listings of
any size and all 32-bit numbers, modules of any number of any expressions, printed any
number of times on any depth of stack, from these assumptions, all evaluated by TLC in the
runs:

* `ProgramAssumption`, `MaxRevAssumption`: what the constants are;
* `ClientsAssumption`: no client is called like something else that can have the io thread;
* `CapacityAssumption`, `MaxOutputAssumption`, `NAssumption`, `DirectoryCountAssumption`,
  `MaxEntriesAssumption`, `NumbersAssumption`: numbers are natural, a pipe holds something, a
  tree has a root, and a client inserts uint32 values;
* `RadixAssumption`: a char has 256 values, or 4 where TLC enumerates;
* `BoundsAreNatural`, `KeysAreNames`: bounds are natural, and a module lists its exports by name.

| theorem | proves |
|---|---|
| `TypeCorrect` | `Spec => []TypeOK` |
| `AssertionHolds`, `OneOwnerOfTheIoThread`, `FlagIsTruthful` | `ObserverSlotFree`, `IoThreadExclusive`, `FlagTruthful` |
| `NotificationsAreKept` | `NoLostNotification` |
| `InputsAreInPlace` | `StagesFindTheirInputs` |
| `ResultIsOfLastBuild` | `ResultBelongsToLastBuild` |
| `SessionGuarantee` | `SessionSeesOwnBuild`, for `graph.cpp` only: its loop is a hypothesis |
| `ImplementsTriggerSafety` | `Spec => Trigger!TriggerSafety`: initial states and steps of all three programs map to those of `BuildTrigger` |
| `OutputIsWhole`, `NobodyWaitsForEachOther`, `ProcessTypeCorrect` | `WholeOutput`, `NoDeadlock` and `TypeOK` of `RunProcess` |
| `ResultsAreNeitherLostNorDoubled`, `InputsComeFromAbove`, `AllResultsAreHandled`, `SiblingsFinishInOrder`, `LuaTypeCorrect` | `OneResultEach`, `InputIsResultOfParent`, `NothingLeftBehind`, `SiblingsInOrder` and `TypeOK` of `LuaServices` |
| `StableProgramIsFound`, `StableProgramIsNotMissed`, `ServerIsEquipped`, `StartupTypeCorrect` | `FirstStableIsFound`, `MissedOnlyIfAbsent`, `ServesFullyEquipped` and `TypeOK` of `Startup` |
| `TypesAreAlwaysTrue`, `WellTypedCallsSucceed`, `SumIsAlwaysEncodedExactly`, `GraphTypeCorrect` | `TypesAreTrue`, `MismatchIsCallersFault`, `SumIsEncodedExactly` and `TypeOK` of `GraphValues` |
| `MarksReleased`, `TypesStayKnown`, `TypesFitValues` | `MarksAreReleased`, `KnownTypesAreKept`, `TypeFitsValue` of `Language` |
| `TypesAreTransparent` | `CacheIsTransparent` of `Language` |
| `RecursionGoesUnreported` | a closed function that calls an export whose type is found by calling it is never given a type, and never reported |
| `EndedStepsNeverBuild` | a step that has ended starts no build and leaves a pending notification pending; that of `graph.cpp` never ends |
| `ExecutionsEnd` | each step of `RunProcess` lowers the natural number `StepsLeft` |
| `TreesComeToAnEnd` | so does each step of `LuaServices`, from `4 * N + 2` on |
| `MainDecides` | so does each step of main in `Startup`, from `2 * DirectoryCount + 5` on; it is 0 exactly when main serves or is gone, and other processes do not change it |

**The inductive invariant.** None of the properties but `TypeOK` is inductive; each needs to
know what the others exclude. The invariant grows in layers, and each is preserved given
the ones before it.

1. `ControlInv` is `TypeOK` with `IoThreadExclusive` and two facts about a step's position:
   `ObserverAgrees` (the step's observer is in the notifier exactly while the step waits)
   and `BuildAgrees` (a thread or a result exists exactly while the step is building or
   about to take the result, and the flag is set from the launch until `FinishBuild`). The
   three need each other: that `notify` wakes a waiting step and no other needs
   `ObserverAgrees`, which needs that the step does not lose the io thread elsewhere.
   `ObserverSlotFree` and `FlagTruthful` follow.
2. `RevisionsPushed` bounds the ghosts by `head`. With it `NoLostNotification` is
   inductive: `StartBuild` sets `attempted` to `head`, which is at least what was promised.
3. `WorkspaceAgrees` says what the stages passed so far have put into the workspace. It
   holds for any initial workspace because each pipeline begins by clearing it; lemma
   `PipelineOrder` collects what is used of the three pipelines.
4. `ResultsAgree` relates `last_result`, `attempted` and the revisions in the workspace: what
   was cloned since the launch is at least as new as `attempted`. `ResultInv` is the
   conjunction of 1 to 4 (without the notification part) and implies
   `ResultBelongsToLastBuild`.
5. `SessionInv` adds the pages on their way to clients. Its heart is lemma
   `IdleHasCaughtUp`: when the io loop runs and a looping step is idle, it waits in the
   notifier, so no notification is pending, so `attempted` has reached every promise. The
   page that is rendered then is true; it stays true because `verified` only grows
   (`VerifiedGrows`). The lemma is false for the one-shot programs, where a finished step
   is idle for ever next to a pending notification.

`OutputInv` of `RunProcessProofs` says that what was written is what was received plus what
is in the pipe, that a process that is not a writer has nothing left to write, and that a
descendant that writes was forked.
`NoDeadlock` follows: a caller that cannot go on either reads from an empty pipe that somebody
can still write to, or waits for a child that has nothing left to write.

`LuaInv` of `LuaServicesProofs` has a part per structure. `QueueInv`: a started step is in the
queue or on a timer, and nowhere twice. `ReachedInv`: the steps that were given an input are
those below a step whose handler has come as far as their edge, and the input is that
step's result. `OrderInv`: siblings that post are queued in the order of their edges.
`NothingLeftBehind` is the case of an empty queue, no timers and no running handler: nothing
is started then, and by `ReachedInv` no step below a finished one is unreached.

`SearchInv` of `StartupProofs` says of the search that runs that `present` lies between
`always` and `ever`, and that no directory before `next` is in `always`: it was there when the
search looked, or it was found. `Sequence` says what main got through to be where it is.

`ValueInv` of `GraphValuesProofs` strengthens `TypesAreTrue`: a listing has *exactly* the
entries its type names. Without it `Insert` of a key that the type does not name could meet
an entry of another type and keep that. The arithmetic is in lemmas of its own: a number
below Radix^4 is the sum of its four digits (`Digits`), decoding a char undoes encoding a
digit (`CharsAreDigits`), and a sum of two such numbers wraps at most once (`SumWrapsOnce`).

`LanguageProofs` reasons about `Answers[n]`, a recursive function: lemma `AnswersUnfold` says
that it exists and satisfies its equation, and `SetInduction` is induction over Nat for a
*set* of numbers, from the well-foundedness of `<` (the library's induction theorems are
about predicates, which the provers here cannot instantiate). Lemma `AnswersAreHonest` is that
induction. A call is `Honest` if it leaves the marks as they were, forgets no type, and
returns and remembers only types that `Agree` with the expression: whatever value the
expression has outside of a function, on any depth of stack and with any table, the type
fits it. The strengthening matters in both directions. `TypeFitsValue` speaks of the table as
it is, but the type was found with an earlier one; and it speaks of what is shown, but what is
shown may be what was remembered for another caller, with a bound value and an argument of
its own. `LanguageInv` says that the table is one a row of honest calls left behind.

`LanguageCacheProofs` proves that remembering does not show. `Meaning[n]` is `Answers[n]` with
calls that remember and mark nothing. More stack does not change a meaning
(`MeaningStays`), so an expression has one type (`TrueType`) or none. In a module of closed
exports, what any table answers and remembers is that type (`AnswersAreMeant`): its types are
`Just`. This is not enough: what is remembered may have been found while other symbols were
marked, and a table that knows it skips calls that could throw. So a table must be `Complete`
also: a known type comes with the types of all symbols that finding it again would remember.
The proof runs two evaluations side by side, on `Related` tables. An expression that is
asked for again remembers nothing that its first run did not (`AnswersRetrace`); hence calls
keep a table just and complete, which is `Solid` (`AnswersStaySolid`); and a used table that is
solid follows a new one (`AnswersFollow`). `CacheInv` is
`LanguageInv` with a solid table and answers that a new table gives too.

`LanguageRecursionProofs` generalizes the counterexample of `language_recursion`. A call of
such an export asks for the type of a body that makes the same call, with two calls less of
stack (`CallCrashes`). That the call gets so far needs the type the table knows of the
export to be a generic function's: what finds it, gives it (`TypeOfSelf`), and what is
remembered is the truth by `CacheInv` (`TrueTypeOfSelf`).

**Measures.** Three theorems are the safety half of termination: a natural number that every
step lowers. In `RunProcess` it counts the places ahead of the caller, the handles that are
open, the units of output still to be written (twice: they are also received) and in the
pipe, and what processes that are not there yet may still do. In `LuaServices` a step counts 4
while it has no input, 3 on a timer, 2 in the queue and 1 while it is handled. In `Startup` it
counts iterations of the two searches. Where the steps stop is for `NoDeadlock`,
`NothingLeftBehind` and the second part of `MainDecides` to say. That somebody takes the
steps is fairness.

**Only model-checked.** Liveness (`NotifyLeadsToBuild`, `FirstNotifyLeadsToBuild`,
`BuildEnds`, `NotifyIsAnswered`, `Terminates`, `ChildExits`, `Returns`, `StartupEnds`) and the
fairness part of `ImplementsTrigger` are checked by TLC and not proved: TLAPS does not handle
`ENABLED`, on which fairness rests.

## What is not modelled

* silicium, ventura and boost.asio are not in this repository. They are modelled from how
  the code uses them: coroutines that run on the stack of whoever resumes them, a future
  that carries a result or an exception, handlers run in the order they were posted, a pipe
  that ends when its last writer is gone.
* The start of a thread is assumed to succeed. Were it to throw, it would do so inside the
  `try` block and look like a build whose first stage throws.
* A process that died is represented by the workspace it leaves behind and by nothing else:
  a git or cmake that outlives it and goes on to write into the workspace is not. Nothing in
  the code could tell such a process from one of its own.
* The Windows branches: other directories for git and cmake and the same search.
* What a program found at startup becomes later: a build that cannot start git is a stage
  that throws. The code does not look for it again, so no property says that it is found.
* Text: log messages, HTML, HTTP syntax, command lines, paths, what `pretty_print` writes.
* `lua_services.lua` does not parse (the parenthesis in line 22), so none of it ever runs;
  `lua-ideas/` and `lua_services2.lua` are sketches that nothing loads. `server-cli` prints its
  options and does nothing else.
* `run_experiment` (`lua_services.cpp:133-166`) loads `lua_services.lua` and throws, and
  `scoped_temporary_directory` (`lua_services.cpp:9-29`) is never constructed.
* In `language.cpp`, what exports that do depend on their caller (a bare `argument`, say)
  make of the remembered types: the first caller's type is kept (`KnownTypesAreKept`), and
  nothing in the source says whether that is meant, so no property calls such a type stale.

## Plan

Done: the server with its three programs, from the command line to the build thread, with the
abstract server it implements; `run_process`; the steps of `lua_services.cpp`; the expression
language; graph values. Every safety property of the runs that pass is proved.

What could follow:

1. Should the registry ever get a second entry: its steps would share a notifier with room
   for one observer. A specification of a notifier per step would say what such a change
   has to achieve.
2. Children that outlive a server, once the code does something about them.
3. `Language` with the kinds of expression that throw "not implemented" today.

## Working with the project

```
tlasany BuildServer.tla                          # parse
tlc -config GraphSafety.cfg MCBuildServer.tla    # model-check
tlapm BuildServerProofs.tla                      # prove
```

`PROJECT.json` lists the components, the runs, the seeded fault of each property, the
source lines each definition stands for, the findings, the hazards and the theorems.
