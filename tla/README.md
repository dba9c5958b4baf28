# A TLA+ model of xmake's build engine

xmake installs the packages a project needs, turns the targets of the project
into a graph of jobs, and runs the jobs in parallel on coroutines, each of which
mostly waits for a child process.  This directory holds TLA+ models of that
engine, TLC configurations that check them on small instances, and TLAPS proofs
that hold for every instance.

Run a check with `tlc -config <cfg> <module>` and a proof with
`tlapm <module>.tla`; `PROJECT.json` lists the runs, what is expected of each,
which source lines every definition stands for, and the seeded faults (the
definitions marked "Fault:") that show that each property can fail.

## 1. The system

| part | state | operations | interacts with |
| --- | --- | --- | --- |
| job graph of a build (`actions/build/build.lua`, `kinds/*.lua`) | three tables target -> job, the graph in the pool | walk over the targets, three patches (non-object targets, object targets, fences) | fills the job pool |
| job pool (`private/async/jobpool.lua`, `base/list.lua`) | `_parents`, `_deps`, `_leaf`, `status` of each node, list `_leafjobs`, cursor `_nextfree`, open group, size | `addjob`, `add`, `group_enter`, `group_leave`, `getfree`, `remove` | called by the build, then by the runner |
| batch runner (`async/runbatchjobs.lua`) | `index`, `count`, `stop`, the coroutine group | loop of start / wait, end of a job, final wait | job pool, scheduler |
| older runner (`async/runjobs.lua`) | `index`, `total_max`, `stop`, `abort`, a coroutine group | as the batch runner, with a function and a number of jobs | scheduler; used by the installation of packages |
| scheduler (`base/scheduler.lua`) | coroutines, groups, poller data of objects, locks, `_STARTED` | start, suspend, resume, sleep, lock, wait for an object, run loop, stop | timer, poller |
| timer (`base/timer.lua`, `base/heap.lua`) | heap of tasks with a time and a cancel flag | post, delay, next, kill | calls back into the scheduler |
| process poller (`xutil/platform/posix/poller_process.c`, `poller.c`, `linux/poller_epoll.c`) | map of processes, list of collected exits under a spinlock, semaphore, stop flag, pair socket | insert, remove, prepare, poll, signal handler, thread, exit | one thread and one signal handler next to the Lua thread |
| socket waits (`base/scheduler.lua`, `base/socket.lua`, `base/pipe.lua`, `linux/poller_epoll.c`) | for each socket or pipe who waits for recv and send, cached events; in the kernel the registered events and the edge | insert, modify, wait, callback, timeout, cancel | used by remote build, cache and distcc |
| process module (`base/process.lua`, `os.execv`) | the open process | open, wait, kill, wait again, close | scheduler |
| package installation (`private/action/require/impl/install_packages.lua`, `actions/install.lua`, `core/package/package.lua`) | pending and installed packages, group states, three counters and a gate, file locks, install directories and manifests | fetch, choose, gate, lock, download, install, test, finally | older runner, scheduler; other xmake processes through locks and directories |
| incremental build (`core/project/depend.lua`, `private/action/build/object.lua`, `kinds/static.lua`, `kinds/binary.lua`) | dependency files, modify times, cached modify times | `is_changed`, compile, link, `save` | compile and link jobs of the graph; the next build |
| services (remote build, cache, distcc), caches, interpreter, sandbox, toolchains, rules, plugins, UI | mostly tables and files | | |
| vendored code (Lua, LuaJIT, lz4, cjson, sv, xxhash) | | | |

What is hard here:

- **Order.** The list of leaf jobs is kept by hand, with a flag against double
  insertion, groups that are removed while a job is looked for, and a cursor
  that is used without another look.  The job graph is made by one walk and
  three patches that must not close a cycle.
- **Failure.** A failed job is removed from the pool like any other, so that
  its dependents come out; only a flag keeps them from running.  A failed
  package has to give back a lock, two counters and a gate.
- **Interleaving.** Coroutines run until they suspend; a new one runs before
  its starter goes on, and may be dead before it is in the group that waits for
  it.  A callback resumes a coroutine in the middle of its own work.  Below
  them run a real thread and a signal handler.
- **Timeouts.** The timeout of a wait races the exit of the process or the
  event of the socket.  The timer still has the task when the event comes first.
- **Crashes.** A build or an installation may be killed between any two of the
  files it writes, and the next one judges by what is left.
- **Several processes.** Two xmake processes install packages into the same
  directories, with file locks that block all coroutines of a process.
- **Something must happen in the end.** The runners, the run loop, the timer,
  the installation and the shutdown of the poller must not wait for ever.

The hazards, each at its line and with the properties that would catch it, are
in `PROJECT.json`.

## 2. The modules

### JobPool

One action for each call (`Add`, `GroupEnter`, `GroupLeave`, `GetFree`,
`Finish`); the recursion of `_genleafjobs` is a stack with one action for each
kind of step (`GenVisit`, `GenLeaf`, `GenReturn`), and the removal of groups in
`getfree` is a sequence of steps (`SweepStart`, `SweepStep`), because each of
them is a call of `remove` with all its effects.  These steps are internal to a
call: no other call comes in between (`phase`).

`parents`, `deps`, `leaf`, `status`, `leafjobs`, `nextfree`, `group` and `size`
are the fields of the code.  `deps0` is a history variable: the dependencies as
they were added, while `deps` loses those that are removed.  `_deps` is a hash
set in the code, so the order in which parents are listed can be any
(`Listings`).  Priorities are the constant `HighPriority`.

### RunBatchJobs and OrderedRun

`RunBatchJobs` extends `JobPool` with the loop of the runner; `pc` is where it
is.  `Start` is the start of a coroutine: it runs its body at once until it
ends or suspends, and only then enters `cogroup`.  `EndJob` is the rest of a
body that was suspended.  A coroutine that dies stays in the group until
`co_group_wait` takes it out.

`OrderedRun` says what the runner promises, with one variable for the state
of each task: a task starts only when everything it depends on has succeeded,
at most `Limit` tasks are under way, nothing starts after a failure.
`ImplementsOrderedRun` maps the runner to it.

### BuildGraph

The graph that `get_batchjobs` builds, for every dependency graph of `N`
targets and every choice of kinds and policies of a profile (all chosen in
`Init`).  The jobs of a target are `after_build`, `link`, one group of sources,
one source and `before_build`.  Targets are numbered in the order of
`project.ordertargets()`.  The walk is a stack of pending visits (`Walk`), the
three patches one step for each target.

### Scheduler

Coroutines that make up to `MaxCalls` calls: wait for a process with or
without a timeout, sleep, lock, unlock, start another coroutine, return, raise
an error, stop the scheduler.  `stack` holds the coroutines that run (a starter
below what it has started).  The run loop is `LoopTop`, `Wait` (`poller:wait`
returns some exits in some order), `Event` for each of them, `TimerNext` for
the tasks that are due, and, when the loop is left, `TimerKill`.  Time is not
modelled here: any task may be due (`Timer` has the times).  Like `os.execv`, a
coroutine has one process open at a time.  Groups are in `RunBatchJobs` and
`InstallPackages`.

### PollerWait

Waits for sockets and pipes, which share one poller data: `recv` and `send` are
the coroutines that wait, `wait` the events epoll was asked for, `save` what
came when nobody waited.  `kernel` is the other side: what is registered, what
is ready, whether the connection was closed, and `edge`, whether epoll has
something to report.  A callback is `Event`, which resumes the receiver, and
`EventRest`, which runs when that coroutine has suspended again and goes on with
the sender; in between the coroutine may wait for the same socket or close it.

A coroutine is any program that waits for one direction of a socket at a time
(`Wait`), sends or receives without waiting (`Transfer`), waits for something else
with its sockets open (`Sleep`), closes a socket nobody waits for (`Close`) or ends
and leaves its sockets to others (`Finish`).  When a wait is over, for whatever
reason, it may do any of these: retry, as `base/socket.lua` does, close the socket,
or go on with it after a timeout, as the distcc client does
(`distcc_build/client.lua:268`).  A session of the distcc server that waits for its
compiler, the two coroutines of a remote build session on one socket, and the pool
of sockets of the remote cache client are such programs.  `usage` says who may wait for
what, and which objects are pipes.  `late` is a history variable: the waits
of a socket that have timed out since it was opened.  The model stops when the
loop has ended (`"broken"`) or has resumed a coroutine in the middle of a wait for
something else (`"astray"`).  Names that begin with `W` (`WInit`, `WSpec`) are
so because the proofs use `ProcessPoller` and `PollerWait` together.

### Timer and Heap

`Heap` has `moveup`, `movedown`, `push` and `pop` of `heap.lua`: each loop is a
recursive function of the sequence and of the position it has come to
(`MoveUpLoop`, `MoveDownLoop`).  `Timer` keeps the tasks in such a heap: `Post`,
`Cancel`, the run loop that asks for the first delay, sleeps until then or until
an event comes, and calls `timer:next`, in which the function of a task may post
and cancel tasks, return or raise; then `timer:kill`.  `now` is the clock.

### InstallPackages

One or two xmake processes, each with the main coroutine (`main`) and a
coroutine for each package (`pc`), started by the loop of `runjobs`.  A job is
not tied to a package: `Choose` takes the first of `packages_pending` that is
ready, `Gate` holds back a package that must be alone, or whoever finds such a
one inside; `Lock` is flock, which blocks the process; then `Download`,
`Install`, `Test` and, for a precompiled package that fails, a second try from
its sources.  `Finally` is the finally block.  `disk` is the install directory of
each package: empty, partial, with a manifest that was saved, or tested.  `Kill`
takes a process away at any step; its locks are free then and it starts again.

### IncrementalBuild

Source files, headers, flags, objects, targets and their depend files, with
modify times in seconds.  `made` of an object is what it was made from, so that
"current" does not depend on times.  A job goes from `before` over the check of
`is_changed` (`wait`) to the tool, which reads its inputs when it starts, to the
depend file, which is written in two steps.  Compile jobs run in any order, a
link job after the compile jobs of its target and the links of its libraries,
as the job graph has them.  A tool may fail, a build may be killed at any
step, and the user edits, removes, changes flags and sources, and builds again.

### ProcessPoller

Children, the signal `SIGCHLD` (pending signals are merged), the thread of
`xu_poller_process_loop`, and the main thread with `epoll_wait`.  Every access
to what is shared (semaphore, list under the spinlock, pair socket, stop flag)
is a step.  The counters of the semaphore and of the pair socket stop at
`MaxCount`: only zero or not matters to who waits on them.

The `MC` modules give the constants their values.  The modules whose names end in
`Proofs` hold the theorems about the module they are named after (`PollerProofs`
those about `ProcessPoller` and `PollerWait`), and
`SequenceFacts` lemmas on sequences that they share (section 4).

## 3. What TLC checks

The numbers are distinct states.

| run | instance | what it shows |
| --- | --- | --- |
| `runbatchjobs` | three jobs, one group, up to four calls of `add`, one job of high priority, `comax = 2`, symmetric (430 000) | the list and its cursor are exact (`LeafjobsExact`), jobs come after what they depend on (`LeafDepsFinished`, `DepsBuilt`), once (`HandedOutOnce`), the pool never runs dry (`NeverStuck`), the bound and the end of the runner (`ParallelBound`, `Outcome`), refinement of `OrderedRun` |
| `runbatchjobs_live` | smaller graphs (74 000) | `Terminates` |
| `buildgraph` | all graphs of three targets; one profile with all kinds and both policies, one with targets that are disabled, not inherited or not asked for (910 000) | every job gets its turn (`EveryJobRuns`: no cycle, nothing outside the root), `LinkWaitsForDeps`, `FenceHolds`, `SerialDepFirst`, and `CompilesInParallel` |
| `processpoller` | two children, one of which may be stopped | `NoLostExit`, `NoSleepWithWork`, `ReportedOnce`, `ExitReported`, `ThreadJoins` |
| `scheduler` | two coroutines, two processes, one lock, three calls each, failures and stop (1 250 000) | `RightWakeup`, `WaiterHasWaker`, `ExitNotLost` |
| `scheduler_live` | two coroutines, one process, one lock, no failures (21 000) | `Terminates` |
| `socket_waits` | two coroutines and two sockets or pipes, in four usages (287 000) | a wait that an event ends returns its event (`RightResult`); no event ends the loop or goes to the wrong wait, unless a wait had timed out or the socket was closed with the event on its way (`LoopSurvives`); who waits for a socket that is ready has the event coming (`NoMissedEvent`) and gets it (`Served`) |
| `timer` | four tasks, delays 0 and 2, a clock up to 3, one cancellation (660 000) | tasks are neither lost nor called twice (`HeapExact`), in order and in time (`OnTime`), and all in the end (`AllCalled`) |
| `install_packages` | three packages in 122 setups: one process with packages that must be alone, failures and second tries, groups; two processes on the same packages; one kill (380 000) | `SerialAlone`, `CountsExact`, `DepsOnDisk`, `OneWriter`, `Outcome`, `Terminates` |
| `incremental_build` | a program with a library, or a program of two files, and a header; four sets of things that may happen; three seconds (1 500 000) | a build that succeeds leaves what a build from nothing would (`Fresh`), the linker reads no stale or torn object (`LinkReadsCurrent`), a second build does nothing (`NothingRedone`) |

`install_packages` is the one run without a check for deadlock: its processes
end, and there is no step after that; `Terminates` says that they do.

Two runs show a disagreement between the code and what the repository says of
it.

- `install_hang` (`FailureEnds`).  When a package fails and two or more
  packages depend on it, the check for packages that can never be installed
  asks for exactly one pending package (`install_packages.lua:507`).  The
  coroutines that look for a package sleep and look again for ever, and the error
  is never shown.  With one package left behind the check works, which
  `Terminates` covers.
- `incremental_torn` (`InterruptedNotLinked`).  A rebuild does not load the
  depend file but leaves it where it is; killed in the compiler, it leaves a torn
  object beside a depend file that is newer than the sources, and the next build
  links it (`object.lua:55` says how corruption by interruptions is avoided).

Bounds.  Three jobs and a group with four edges are enough for a shared
dependency, a diamond, a group inside a chain, and a list with a finished node
beside the cursor; the seeded faults, among them the one of issue 2740, are all
found there.  Three targets are enough for an indirect dependency and for a
second path to the same target.  Two children are the least for merged signals
and for an exit that arrives while another one is reported.  Two coroutines
with three calls are the least for a timeout, a second wait and a lock that is
held meanwhile.  Two coroutines and two sockets are the least for a socket that two share, for one
that is handed on, and for events of two sockets in one batch, the first of which
makes a coroutine close the other one; the usages are a socket on which one
coroutine may wait for both directions and the other for one, in both variants, a
coroutine with a pipe and a socket beside one with the socket only, and a pipe that
two read.  The safety properties also hold on 4 900 000 states of two coroutines
that may wait for all of two sockets.  Four tasks make a heap of three levels, in which a wrong child
or a missing swap shows; delays of 0 and 2 make equal times and tasks that come
before others.  Three packages are the least for two that must be alone and one
that need not be, for a chain, and for a failure while another one is under
way; `comax = 2` leaves one of three packages waiting for a place.  Three
seconds are a first build, a change and a build, a second change and a build.

Fairness.  The runners and the run loops are sequential code, so weak fairness of
their steps is what a program that runs does.  That jobs, programs and children
come to an end is an assumption on them and is stated as such.  Strong fairness
is used twice in `Scheduler`: a task of the timer is due some time and
`timer:next` runs every task that is due in the next round, and `poller:wait`
reports an exit some time; the second is what `ProcessPoller` shows
(`ExitReported`), there with weak fairness of the threads, of `waitpid` for each
child and of signal delivery only, and without the help of timeouts or of other
events.  The first is what `Timer` shows (`OnTime`, `AllCalled`), there with
weak fairness of the loop and of the clock.  `PollerWait` has one weak
fairness, of the steps of the run loop and of those with which a coroutine that
runs comes to suspend: the program is one thread.  That a coroutine suspends some
time is an assumption on it: it must not retry for ever when a wait returns at once
without its event (section 5).  Nothing is assumed of timers or of the other end.
`InstallPackages` has weak fairness of the main coroutine and of each job, and
strong fairness of flock for each process: the kernel serves who waits for a
lock, although another process may take it in between.

## 4. What is proved

The theorems hold for every value of the constants that the named assumptions
allow.  Each of them comes from an inductive invariant: it holds at first, every
step keeps it, and it implies what the theorem says.  TLC checked each invariant
on the instance of section 3 before it was proved.

**The pool** (`RunBatchJobsProofs`, first half; `JobPoolAssumption`: the constants are disjoint
sets, the root is none of them).

- `TypeCorrect`, by induction over the actions; `RemoveJob` and `Hand` have
  lemmas of their own because several actions use them.
- `LeafDepsFinishedHolds`.  `LeafDepsFinished` is about dependencies of any
  distance and says nothing of `deps`, on which the code decides, so it is not
  inductive.  `LeafInv` is: a dependency leaves `deps` only when it is
  finished, and a leaf has none left.  The step to all distances needs no
  induction over paths: `AllDeps(n)` is the least set closed under `deps0`, and
  the finished nodes are such a set.
- `HandedOutOnceHolds`, from `LeafInv`: what is in the list is not finished
  before it was pending, and the cursor is free.
- `LeafjobsExactHolds`.  `ListInv` adds that the walk of `_genleafjobs` has no
  node twice on its stack and has left every leaf it made, and that the nodes
  a sweep drops are groups of the list, each once.
- `NeverStuckHolds`.  `StuckInv` says of the graph that every set of nodes has a
  bottom, a node that depends on none of the set, and a top, on which none of
  the set depends.  This is what the guards of `add` keep up (a new edge goes from
  a node to one that does not reach it), and it takes the place of an induction
  over paths: the walk misses no node, because the top one of those it missed
  would have a parent that it has left; and the bottom one of the unfinished
  nodes has no dependency left and is a leaf.

**The runner** (`RunBatchJobsProofs`, second half; in addition `ComaxAssumption`, `comax` is
a positive number).  `RInv` joins the invariants of the pool with `RunnerInv`,
which links the pool's `status` with what became of the job's body (`runs`).

- `DepsBuiltHolds`: no body starts before those of its dependencies succeeded,
  for every graph and every pattern of failures; `ParallelBoundHolds`;
  `RTypeCorrect`.
- `RunnerImplementsOrderedRun`: every step of the runner is a step of
  `OrderedRun` or leaves its state alone.  Its case `pc = "start"` is the one
  that needs the invariant: that the job about to start has all its
  dependencies done and that there is room for it.
- `OutcomeHolds`, with `CountInv`: `size` is the number of jobs that were added,
  `index` of those handed out, who are among them, so that the main loop ends
  only when they are the same.

**The job graph** (`BuildGraphProofs`; `BuildGraphAssumption`: there is a
target, the profiles are well formed, the root is not a job).  For any number of
targets, every dependency graph among them and every choice of kinds and policies:
`EveryJobRunsHolds`, `LinkWaitsForDepsHolds`, `FenceHoldsAlways`,
`SerialDepFirstHolds`, `CompilesInParallelHolds`.  The invariant `Inv` (theorem
`InvHolds`) says which edges each part of `get_batchjobs` has made so far
(`TodoOK`, `SerialOK`, `PhaseOK`, `NonObjectOK`, `ObjectOK`, `FenceOK`,
`InnerOK`) and, in `GraphOK`, that every job has a way to the root and that edges go down
in the order of `project.ordertargets()`, which is why the patches close no
cycle.  `WaitsFor`, `Reached` and `InOrder` are recursive functions on the
numbers.  The prover has no induction rule for them that it can use, but it
needs none: a set of numbers that holds 0 and the successor of each of its members
is all of them, because otherwise its beginning would be a finite set mapped
one to one into a smaller one (`SetInduction`, by the pigeonhole theorem of the
library), and from this follows that the recursive functions exist and what
they return (`Recursion`).

**The process poller** (`PollerProofs`, first half; `ProcessPollerAssumption`).
`NoLostExitHolds` (`ClaimInv`: the exit of a child that Lua has not inserted yet
is kept too, and there is at most one such child), `ReportedOnceHolds`
(`OnceInv`), `NoSleepWithWorkHolds` (`WakeInv`: whatever is still to be done, the
signal, post or wake-up for it is on its way).

**The socket waits** (`PollerProofs`, second half; `UsageAssumption`,
`NoneAssumption`, `FiniteAssumption`: `NONE` is no value of another kind, finitely
many sockets, and nobody waits to send on a pipe that is read).
`RightResultHolds`, `LoopSurvivesHolds` and `NoMissedEventHolds`, for any number of
coroutines and sockets and whatever the coroutines do with them.  `WInv` joins
the three; while the loop goes on, `LoopInv` says what they rest on.

- Whoever the poller data names waits for that event, or had a wait for it that
  timed out and left the socket open (`WaiterInv`).  So an event that does not find
  its coroutine is a late one, which is `LoopSurvives`.
- Who waits is the one the poller data names, epoll has been asked for the event,
  and if the socket is ready the event is coming: epoll is to report it,
  `poller:wait` has returned it, or a callback keeps the coroutine for its second
  half (`WaitingInv`).  Every step that changes what epoll is asked for has to
  keep the event of the other direction coming; `WaitEvents` does.
- A socket that was closed is not in epoll and nothing is left of it in the batch or
  in a callback (`SockInv`).  What a callback has read before it resumes the receiver
  is a coroutine that still waits, or had timed out, when it goes on with the
  sender (`CallbackInv`).

The steps of a callback have one lemma (`AliveStep`) and hand over what the second
half will do (`KeepsComing`), what the resumed coroutine gets (`Runs`), and that the
poller data forgets nobody else (`Forgets`).

**The scheduler** (`SchedulerProofs`; `SchedulerAssumption`: `NONE` is no value of
another kind, finitely many processes).  `RightWakeupHolds`,
`WaiterHasWakerHolds`, `ExitNotLostHolds`.  Its invariant
says who can be on the stack while an event is handled (`LoopInv`), which
tasks of the timer are of which call (`TaskInv`), and that a process is in the
poller and has its data there as long as it is open, by one coroutine that
cannot be at another call while an event for it is under way (`ProcInv`).

**The installation** (`InstallPackagesProofs`; `SetupAssumption`,
`BoundAssumption`, `NoneAssumption`: what each process is asked for is without
duplicates and closed under dependencies, as `install_packages.lua:798` makes it,
and there are finitely many packages).  `SerialAloneHolds`, `CountsExactHolds`,
`OneWriterHolds`, `DepsOnDiskHolds`, `OutcomeHolds`.  The counters are the
cardinalities of the jobs at their places (`Counts`); a lock file belongs to the
one job, of any process, that is between its lock and its finally (`Locks`);
a package that was seen as installed is on the disk and nobody is at a
point from where it could be removed (`Stable`).

**The incremental build** (`IncrementalBuildProofs`; `ProjectAssumption`,
`BoundAssumption`, `NameAssumption`: finitely many source files and targets, with
names of their own; a library is a target of the project).  `TypeOKHolds`,
`FreshHolds`, `LinkReadsCurrentHolds`, `NothingRedoneHolds`, all from `InvHolds`, for
any number of source files, headers, targets, libraries of libraries and builds.
None of the three properties is inductive: they speak of what files are made
from, while the code decides on modify times.  The invariant says what the times
tell.  A depend file that no source is newer than names the flags the object was
made with, and nothing else about it has changed (`UnitOK`); objects and libraries
that are not newer than a target are the ones it was linked from (`OnDisk`).  The
second is the harder one, since times are in seconds and a build that follows on
one that failed may compile an object in the second in which its target was
linked.  Then nothing was edited in between, so that the target belongs to a set
`D` of targets that are made from the sources as they are, with their libraries
(`Coherent`): `D` and their contents `K` are a witness that the proof carries from
state to state, enlarges when a target is linked or found current, and empties when
the user acts.  `Control` has that files_mtime is right: a modify time is
remembered only when no job will change it any more.

Two conditions are hypotheses of these theorems, because without them the
properties fail (section 5): `NoListExtended`, no list of flags is the beginning of
another one, and `Recoverable`, a build that may be killed is followed by edits
only, and no linker is killed.  All projects and flags of `incremental_build` meet
them; the project of `incremental_torn` is one that does not.

**The heap and the timer** (`TimerProofs`; `TimerAssumption`: the bounds are numbers,
the delays are at most `MaxTime`, `NONE` is not a number).

- `PushProperties`, `PopProperties`, `RootIsLeast`: what push, pop and peek do, for
  heaps of every length and every key.  That the loops compute anything at all is
  `LoopExists` of `SequenceFacts` (the position falls in `moveup` and rises to the
  length in `movedown`), and what they compute follows by `LoopInduction`.  The
  invariants of the loops are `AlmostUp`, the order of the heap except between one
  element and its parent, and `AlmostDown`, except between one element and its
  children; each also says that the other relatives of that element are in order,
  which the exchange needs.
- `HeapExactHolds`.  `HeapExact` is inductive together with `Bounded`: a continuous
  task that waits was called less often than the time at which it is due, because a
  period is not 0, so that the number of its calls has a bound; and a number that no
  task has yet was not called.
- `OnTimeHolds`, from the same invariant and `RootIsLeast`: the first task of the
  heap is due before all others.

`SequenceFacts` has the lemmas on sequences, finite sets and loops that several of
these use.

Only model-checked: what holds under fairness (`Terminates`, `ExitReported`,
`ThreadJoins`, `Served`, `AllCalled`), because liveness is out of the prover's reach.
Every other property of the runs that pass is a theorem.

## 5. What the models follow although a text says otherwise

The models do what the code does.  These differences were met on the way and
are not among the runs above:

- `build.lua`: `across_targets_in_parallel = false` orders a target before its
  direct dependents only, while `docs/design/build_batchjobs_graph.md:13` speaks
  of the whole graph below it; it is the link job, not `before_build`
  (`build.lua:275`), that waits for the dependencies of a target; and an object
  target does not wait for the link of a library with
  `across_targets_in_parallel = false` (`build.lua:385` and `:397`; hence the
  condition in `LinkWaitsForDeps`).
- `jobpool.lua:187` says that what is inserted last is executed first; a
  high-priority job at the end of the list waits for the run of free jobs the
  cursor is in.
- `poller_process.c:115` asks waitpid for stopped children as well, and a child
  that is stopped by a signal is reported as ended.
- `scheduler.lua:567`: the callback of `co_lock` posts itself again without
  looking at `cancel`, so `timer:kill` does not end when a lock is held and
  waited for.  `Timer` bounds the number of posts and so does not show it.
- `scheduler.lua:156` calls `data.co_recv` and `data.co_send` the suspended coroutines
  that wait.  A timeout does not clear them (`scheduler.lua:848`).  If the coroutine
  keeps the socket, as `distcc_build/client.lua:268` does, a late event
  resumes it out of another wait, such as that for the compiler of the fallback, or
  finds it dead, and then the run loop ends.  `LoopSurvives` says that this is the
  only way but the next one, and `late` keeps track of it.
- Events of one `poller:wait` are handled one after the other, and the coroutine
  that is resumed for one may close an object whose event comes later in the same
  batch.  `_poller_events_cb` then finds no poller data and the run loop ends with
  an error (`scheduler.lua:199`).  A remote build session closes its pipe after
  the socket it sends to (`remote_build/server_session.lua:368`).
- `scheduler.lua:802` asks whether one of the awaited events was asked for before,
  and the awaited events always have the edge-trigger bit.  So a wait returns 0 at
  once, without a timeout, when any other event is cached.  A sender that
  meets a cached recv event raises "send timeout" (`socket.lua:328`), and a program that
  only retried would not come to suspend.  A cached event may also be one that is no longer
  true.  `RightResult` speaks of waits that an event ends.
- `install_packages.lua:524` says that only the first package of a group is
  installed; the state of the group is read at `:534`, before the coroutine
  sleeps at the gate, so that two can be.  A package that was left out for its
  group is never counted as installed, and what depends on it is never ready.
- `install_packages.lua:557` says (translated) that download and install are
  under one lock "to avoid deadlocks".  Two processes that install the same packages in opposite orders, each in
  several coroutines, can each hold one lock and block on the other's for ever.
- `depend.lua:130` compares values as far as the recorded list goes: a flag
  that is appended is not noticed (`FlagLists` of the run have one length).
- `object.lua:55` uses the modify time of the depend file "to avoid objectfile
  corruption due to compilation interruptions".  That works when a source is
  newer than the depend file.  When the object is compiled for another reason (other
  flags, an object that was removed, `--rebuild`), the old depend file stays while
  the compiler runs, and after a kill the next build takes a torn object for
  current (`incremental_torn`; TLC finds the same with `flags` or `remove` instead
  of `rebuild`).  In the same way a target that was linked for other `sources` by a
  build that is killed before it saves is taken for current when the list of
  sources is set back.
- A linker or archiver that is killed leaves a target file that is newer than
  its inputs beside the depend file of the link before (`kinds/static.lua:57`),
  and the next build takes it for current.  The happening `killlink` is the
  switch for it and is off in the run.
- A manifest is saved before the package is tested (`actions/install.lua:420`):
  after a kill in between, the package counts as installed.  `Outcome` accepts it.
  A manifest that was torn by a kill makes `manifest_load` raise
  (`package.lua:932`); the model writes manifests in one step.
- `heap:pop` of an inner element does not move the element that takes its place
  up; nothing in the program pops an inner element.  `poller:remove`
  (`poller.lua:107`) clears its table under a key that is never set.

## 6. Assumptions

- `comax` is positive; every job has a `run` function; no pid is reused between
  an exit and its report.
- A coroutine waits for one direction of a socket or pipe at a time, as all of
  `base/socket.lua`, `base/pipe.lua`, `private/service/stream.lua` and
  `remote_build/server_session.lua` do.  No two coroutines wait for the same direction
  of one socket at once (the second would replace the first in the poller data),
  and nobody closes a socket for which another coroutine waits.
- Continuous tasks, of which the program posts none, have a period above 0;
  with 0 `timer:next` would not return.
- A package with a manifest can be fetched.  Two processes that share packages
  install them in the same order, and groups do not meet a closed gate
  (section 5).
- The user acts in a later second than the build before, which is what modify
  times in seconds and the comparison with `>` need; a linker that fails leaves
  no file.

## 7. What is not modelled

- File watchers, groups that are nested, the current directory and environment
  of coroutines, and errors that epoll reports.
- In `PollerWait`: what happens after the loop has ended or has gone astray, and the
  other end of a pipe that is written to.  Waits for processes are `Scheduler`'s;
  here `Sleep` stands for them, since the events of processes come after those of all
  sockets in one `poller:wait`.
- `_fetch_packages`, a `runjobs` of its own, is one step (`FetchNext`), and
  `force_reinstall` (`actions/install.lua:355`) is left out: it removes a package that
  others may have been built with, and `DepsOnDisk` is claimed without it only.
- `rebuilt` of a single target: `IncrementalBuild` has one flag for a build, while
  the code sets it for the targets that are asked for and their dependencies
  (`build.lua:306`), or for all (`build.lua:340`).
- `prune_redundant_edges` of the job pool: its call is commented out.
- Rule groups and scripts inside a target: a group and a source stand for them.
- Running out of memory, failing system calls of the poller.
- The distcc mode, the progress timer and `wait = false` of `runjobs`.
- Package environments of a build (`build.lua:161`): before_build and after_build
  of several targets edit one table and set the environment of the process.
- Errors that leave `_CO_COUNT` or a lock behind (`scheduler.lua:410`): the run
  for `Terminates` of the scheduler has no failing coroutines.
- Resolution of package versions, downloads and their contents; services, caches,
  toolchains, rules, plugins and the user interface: sequential table, string
  and file work, or protocols whose waits `PollerWait` models; `PROJECT.json`
  gives a reason for each.
- Vendored code: Lua, LuaJIT, lua-cjson, lz4, sv and xxhash, which are most of
  the lines of C in the repository.

## 8. Plan

Next modules: the shared environment of packages over the jobs of several
targets and isolated coroutines; nested groups; `ProcessPoller` as an
implementation of the process events of `Scheduler`, and `Timer` as one of its
tasks.

Next theorems: that the exits `ProcessPoller` reports are the ones `Scheduler` may
get, as a refinement; and the stock of `Scheduler`'s timer tasks as that of `Timer`.
