---------------------------- MODULE InstallPackages ----------------------------
(***************************************************************************)
(* The parallel installation of packages                                   *)
(* (modules/private/action/require/impl/install_packages.lua) on the older *)
(* runner (modules/async/runjobs.lua), by one or more xmake processes that *)
(* share the package directories and their file locks.                     *)
(*                                                                         *)
(* runjobs starts one coroutine per package, at most comax at once.  A   *)
(* coroutine is not tied to a package: it looks through packages_pending   *)
(* for one that is ready and sleeps when there is none.  It then passes a  *)
(* gate (packages that are not parallel are installed alone), takes the    *)
(* lock of the package, and downloads and installs.  Coroutines only give  *)
(* way where they sleep or wait for a child process, and flock blocks the  *)
(* process with all its coroutines.                                        *)
(*                                                                         *)
(* The fetch before the installation looks at the manifest under the lock  *)
(* of the package; it does not suspend and is one step here.               *)
(***************************************************************************)
EXTENDS Naturals, Sequences, FiniteSets, SequencesExt

CONSTANTS
    Procs,      \* xmake processes
    Pkgs,       \* packages
    Groups,     \* package groups, of which one member is installed
    Files,      \* lock files, one for each name and version
    Setups,     \* the projects: see SetupOK
    MaxKills,   \* how often a process may be killed
    NONE

Jobs == 1..Cardinality(Pkgs)

(* What the processes are asked for: order[p] is packages_install of p,    *)
(* sorted for dependencies, without duplicates and with all that is        *)
(* depended on (_sort_packages_for_installdeps, table.unique); serial are  *)
(* the packages for which is_parallelize is false, optional those that may *)
(* be missing,                                                             *)
(* precompiled those with a fallback to sources, and faulty those whose    *)
(* download or installation can fail; comax is the number of parallel jobs *)
SetupOK(s) ==
    /\ s.order \in [Procs -> Seq(Pkgs)]
    /\ s.deps \in [Pkgs -> SUBSET Pkgs]
    /\ \A p \in Procs :
          /\ IsInjective(s.order[p])
          /\ \A x \in ToSet(s.order[p]) : s.deps[x] \subseteq ToSet(s.order[p])
    /\ s.group \in [Pkgs -> Groups \cup {NONE}]
    /\ s.file \in [Pkgs -> Files]
    /\ s.serial \subseteq Pkgs
    /\ s.optional \subseteq Pkgs
    /\ s.precompiled \subseteq Pkgs
    /\ s.faulty \subseteq Pkgs
    /\ s.comax \in Nat \ {0}

ASSUME SetupAssumption == \A s \in Setups : SetupOK(s)
ASSUME BoundAssumption == MaxKills \in Nat /\ IsFiniteSet(Pkgs)
ASSUME NoneAssumption ==
    /\ NONE \notin Pkgs \cup Groups \cup Jobs
    /\ NONE \notin Procs \X Pkgs

VARIABLES
    setup,      \* the project, never changed
    proc,       \* the local state of each process
    holder,     \* who holds each lock file: a process and its package
    disk,       \* the install directory of each package
    kills       \* number of processes killed so far

vars == <<setup, proc, holder, disk, kills>>

-----------------------------------------------------------------------------

(* A process at its start.  cur is the coroutine that runs, NONE when all  *)
(* are suspended or main runs.                                             *)
Fresh ==
    [main |-> "fetch", pos |-> 1, total |-> 0,
     pending |-> <<>>,                              \* packages_pending
     installed |-> [x \in Pkgs |-> "nil"],          \* packages_installed
     ingroup |-> [g \in Groups |-> "nil"],          \* packages_in_group
     working |-> 0,                                 \* working_count
     installing |-> 0,                              \* installing_count
     serials |-> 0,                 \* installing_nonparallel_count
     parallelize |-> TRUE,
     index |-> 0, top |-> 0,                        \* index and total_max
     cogroup |-> {}, started |-> {},                \* the group, and what is
                                                    \* to be joined to it
     stop |-> FALSE,                                \* stop and abort
     cur |-> NONE,
     pc |-> [j \in Jobs |-> "none"],
     inst |-> [j \in Jobs |-> NONE]]

Init ==
    /\ setup \in Setups
    /\ proc = [p \in Procs |-> Fresh]
    /\ holder = [f \in Files |-> NONE]
    /\ disk = [x \in Pkgs |-> "empty"]
    /\ kills = 0

File(x) == setup.file[x]
Group(x) == setup.group[x]

(* there is a manifest, of a package that was tested or of one that was    *)
(* about to be                                                             *)
Present(x) == disk[x] \in {"saved", "done"}
Update(p, s) == proc' = [proc EXCEPT ![p] = s]

(* a coroutine that passed the gate: the flag installing                   *)
Inside == {"lock", "download", "install", "test", "redo", "retest"}
(* a coroutine that holds the lock of its package: package_locked          *)
Locked == Inside \ {"lock"}

(* j goes on when it runs, or wakes up while main is suspended too         *)
Runs(p, j) ==
    \/ proc[p].cur = j
    \/ proc[p].cur = NONE /\ proc[p].main \in {"wait", "final"}

-----------------------------------------------------------------------------
(* main: fetch, then runjobs                                               *)

(* _fetch_packages and the filter of main: what has no manifest is to be   *)
(* installed; a package that is locked blocks the process                  *)
FetchNext(p) ==
    LET s == proc[p]
        todo == setup.order[p]
        x == todo[s.pos]
    IN  /\ s.main = "fetch"
        /\ \/ /\ s.pos <= Len(todo)
              /\ holder[File(x)] = NONE
              /\ Update(p, IF Present(x)
                           THEN [s EXCEPT !.pos = @ + 1]
                           ELSE [s EXCEPT !.pos = @ + 1,
                                          !.total = @ + 1,
                                          !.pending = Append(@, x),
                                          !.installed[x] = "no"])
           \/ /\ s.pos > Len(todo)
              /\ Update(p, [s EXCEPT !.main = "loop"])
        /\ UNCHANGED <<setup, holder, disk, kills>>

(* total_max: the places that are free, but no more than are needed        *)
TotalMax(s) ==
    LET freemax == setup.comax - Cardinality(s.cogroup)
    IN  IF s.index + freemax < s.total THEN s.index + freemax ELSE s.total

(* while index < total do co_group_begin(..)                               *)
Loop(p) ==
    LET s == proc[p]
    IN  /\ s.main = "loop"
        /\ Update(p, IF s.index < s.total
                     THEN [s EXCEPT !.main = "start", !.top = TotalMax(s)]
                     ELSE [s EXCEPT !.main = "final"])
        /\ UNCHANGED <<setup, holder, disk, kills>>

DeadJobs(s) == {j \in s.cogroup : s.pc[j] = "dead"}

(* co_group_wait(group_name, {limit = 1}) does not suspend when there is   *)
(* nothing to wait for or one has died; it takes out all that are dead     *)
Waits(s) ==
    IF s.cogroup = {} \/ DeadJobs(s) # {}
    THEN [s EXCEPT !.cogroup = @ \ DeadJobs(s), !.main = "loop"]
    ELSE [s EXCEPT !.main = "wait"]

(* co_start_withopt: the new coroutine runs at once                        *)
Starts(s, j) ==
    [s EXCEPT !.index = j, !.started = @ \cup {j},
              !.pc[j] = IF s.stop THEN "dead" ELSE "pick",
              !.cur = IF s.stop THEN NONE ELSE j]

(* the scope of co_group_begin; when no more can be started, the new       *)
(* coroutines are joined to the group and main waits                       *)
Start(p) ==
    LET s == proc[p]
    IN  /\ s.main = "start" /\ s.cur = NONE
        /\ \/ /\ s.index < s.top
              /\ Update(p, Starts(s, s.index + 1))
           \/ /\ s.index = s.top
              /\ Update(p, Waits([s EXCEPT !.cogroup = @ \cup s.started,
                                           !.started = {}]))
        /\ UNCHANGED <<setup, holder, disk, kills>>

(* the run loop resumes main when a coroutine of the group has died        *)
WaitOne(p) ==
    LET s == proc[p]
    IN  /\ s.main = "wait" /\ s.cur = NONE
        /\ DeadJobs(s) # {}
        /\ Update(p, Waits(s))
        /\ UNCHANGED <<setup, holder, disk, kills>>

(* co_group_wait(group_name), then raise(abort_errors) if abort            *)
WaitAll(p) ==
    LET s == proc[p]
    IN  /\ s.main = "final" /\ s.cur = NONE
        /\ s.cogroup = DeadJobs(s)
        /\ Update(p, [s EXCEPT !.cogroup = {},
                               !.main = IF s.stop THEN "failed" ELSE "done"])
        /\ UNCHANGED <<setup, holder, disk, kills>>

-----------------------------------------------------------------------------
(* the function of the jobs                                                *)

(* Fault: a dependency that is not yet installed does not count.           *)
DepsReadyLoose(s, x) == \A d \in setup.deps[x] : s.installed[d] # "failed"

(* all dependencies are installed or were there before                     *)
DepsReady(s, x) == \A d \in setup.deps[x] : s.installed[d] # "no"

GroupStatus(s, x) == IF Group(x) = NONE THEN "nil" ELSE s.ingroup[Group(x)]

(* what the loop over packages_pending stops at: a package to take, or one *)
(* that is dropped because its group is installed                          *)
Stops(s, k) ==
    LET x == s.pending[k]
    IN  DepsReady(s, x) /\ GroupStatus(s, x) # "installing"

Dies(s, j) == [s EXCEPT !.pc[j] = "dead", !.cur = NONE]
Sleeps(s) == [s EXCEPT !.cur = NONE]

(* raise in a job: the catch of runjobs                                    *)
Raises(s, j) == [Dies(s, j) EXCEPT !.stop = TRUE]

(* j takes x: from here finally will see that working_count comes down.    *)
(* The first condition is `not packages_in_group[group]`: a group that     *)
(* failed is skipped as well.                                              *)
Takes(s, j, x) ==
    IF GroupStatus(s, x) # "nil" THEN Dies(s, j)
    ELSE LET t == [s EXCEPT !.working = @ + 1, !.inst[j] = x,
                            !.pc[j] = "gate", !.cur = j]
         IN  IF x \in setup.serial
             THEN [t EXCEPT !.serials = @ + 1, !.parallelize = FALSE]
             ELSE t

(* one pass over packages_pending                                          *)
Pick(p, j) ==
    LET s == proc[p]
        n == Len(s.pending)
        stops == {k \in 1..n : Stops(s, k)}
        k == CHOOSE i \in stops : \A h \in stops : i <= h
        x == s.pending[k]
        t == [s EXCEPT !.pending = RemoveAt(@, k)]
    IN  /\ s.pc[j] = "pick" /\ Runs(p, j)
        /\ \/ /\ n = 0
              /\ Update(p, Dies(s, j))
           \/ /\ stops # {} /\ GroupStatus(s, x) = "installed"
              /\ Update(p, IF n = 1 THEN Dies(t, j) ELSE Sleeps(t))
           \/ /\ stops # {} /\ GroupStatus(s, x) # "installed"
              /\ Update(p, Takes(t, j, x))
           \/ /\ stops = {} /\ n = 1 /\ s.working = 0
              /\ Update(p, Raises(s, j))
           \/ /\ stops = {} /\ (n > 1 \/ (n = 1 /\ s.working > 0))
              /\ s.cur = j
              /\ Update(p, Sleeps(s))
        /\ UNCHANGED <<setup, holder, disk, kills>>

(* Fault: a package that must be alone does not wait for the others.       *)
GateOpenEarly(s, x) == x \in setup.serial \/ s.parallelize

(* the loops that sleep until installing_count is 0 or parallelize is set  *)
GateOpen(s, x) == IF x \in setup.serial THEN s.installing = 0 ELSE s.parallelize

Gate(p, j) ==
    LET s == proc[p]
        x == s.inst[j]
        g == Group(x)
        t == [s EXCEPT !.installing = @ + 1, !.pc[j] = "lock", !.cur = j]
    IN  /\ s.pc[j] = "gate" /\ Runs(p, j)
        /\ \/ /\ GateOpen(s, x)
              /\ Update(p, IF g = NONE THEN t
                           ELSE [t EXCEPT !.ingroup[g] = "installing"])
           \/ /\ ~GateOpen(s, x) /\ s.cur = j
              /\ Update(p, Sleeps(s))
        /\ UNCHANGED <<setup, holder, disk, kills>>

(* Fault: the result of flock is not looked at.                            *)
LockAnyway(p, j) ==
    LET s == proc[p]
        x == s.inst[j]
    IN  /\ s.pc[j] = "lock" /\ s.cur = j
        /\ holder' = [holder EXCEPT ![File(x)] = <<p, x>>]
        /\ Update(p, [s EXCEPT !.pc[j] = "download", !.cur = NONE])
        /\ UNCHANGED <<setup, disk, kills>>

(* instance:lock(): flock blocks the process until the file is free        *)
Lock(p, j) ==
    LET s == proc[p]
        x == s.inst[j]
    IN  /\ s.pc[j] = "lock" /\ s.cur = j
        /\ holder[File(x)] = NONE
        /\ holder' = [holder EXCEPT ![File(x)] = <<p, x>>]
        /\ Update(p, [s EXCEPT !.pc[j] = "download", !.cur = NONE])
        /\ UNCHANGED <<setup, disk, kills>>

(* Fault: a raise skips what is needed to let the others go on.            *)
FinallyForgets(s, j, ok) ==
    LET x == s.inst[j]
        t == [s EXCEPT !.installing = @ - (IF s.pc[j] \in Inside THEN 1 ELSE 0),
                       !.working = @ - 1]
    IN  IF ok THEN Dies(t, j) ELSE Raises(t, j)

(* Fault: the first package that leaves opens the gate again, although     *)
(* another one has asked to be alone.                                      *)
FinallyOpens(s, j, ok) ==
    LET x == s.inst[j]
        t == [s EXCEPT !.installing = @ - (IF s.pc[j] \in Inside THEN 1 ELSE 0),
                       !.serials = @ - (IF x \in setup.serial THEN 1 ELSE 0),
                       !.parallelize = TRUE,
                       !.working = @ - 1]
    IN  IF ok THEN Dies(t, j) ELSE Raises(t, j)

(* the finally block of a job that has taken a package                     *)
Finally(s, j, ok) ==
    LET x == s.inst[j]
        g == Group(x)
        t == [s EXCEPT
                !.ingroup = IF /\ g # NONE /\ s.pc[j] \in Inside
                               /\ s.ingroup[g] = "installing"
                            THEN [@ EXCEPT ![g] = "failed"] ELSE @,
                !.installing = @ - (IF s.pc[j] \in Inside THEN 1 ELSE 0),
                !.serials = @ - (IF x \in setup.serial THEN 1 ELSE 0),
                !.parallelize = IF x \in setup.serial THEN s.serials = 1 ELSE @,
                !.working = @ - 1]
    IN  IF ok THEN Dies(t, j) ELSE Raises(t, j)

Unlock(x) == holder' = [holder EXCEPT ![File(x)] = NONE]

(* the end of the try block: the package is unlocked, its group is         *)
(* installed or failed, and it counts as installed even when it is not     *)
(* there, which only an optional package may be                            *)
Completes(p, j, there) ==
    LET s == proc[p]
        x == s.inst[j]
        g == Group(x)
        t == [s EXCEPT !.installed[x] = "yes",
                       !.ingroup = IF g = NONE THEN @
                                   ELSE [@ EXCEPT ![g] = IF there THEN "installed"
                                                         ELSE "failed"]]
    IN  Unlock(x) /\ Update(p, Finally(t, j, TRUE))

(* Fault: an installation that failed is completed like another one.       *)
FailsQuietly(p, j) == Completes(p, j, FALSE)

(* download or installation of x failed for good                           *)
Fails(p, j) ==
    LET x == proc[p].inst[j]
    IN  IF x \in setup.optional
        THEN Completes(p, j, FALSE)
        ELSE Unlock(x) /\ Update(p, Finally(proc[p], j, FALSE))

(* action_download, then the begin of action_install, which empties the    *)
(* install directory unless another process has left a manifest there      *)
Download(p, j) ==
    LET s == proc[p]
        x == s.inst[j]
    IN  /\ s.pc[j] = "download" /\ Runs(p, j)
        /\ \/ /\ Update(p, [s EXCEPT !.pc[j] = "install", !.cur = NONE])
              /\ disk' = [disk EXCEPT ![x] = IF Present(x) THEN @ ELSE "partial"]
              /\ UNCHANGED holder
           \/ /\ x \in setup.faulty
              /\ Fails(p, j)
              /\ UNCHANGED disk
        /\ UNCHANGED <<setup, kills>>

(* the catch of action_install: the install directory is removed; a        *)
(* precompiled package gets a second try from its sources                  *)
InstallFails(p, j) ==
    LET x == proc[p].inst[j]
    IN  /\ x \in setup.faulty
        /\ disk' = [disk EXCEPT ![x] = "empty"]
        /\ IF x \in setup.precompiled /\ proc[p].pc[j] # "retest"
           THEN /\ Update(p, [proc[p] EXCEPT !.pc[j] = "redo", !.cur = NONE])
                /\ UNCHANGED holder
           ELSE Fails(p, j)

(* action_install: the package is built, then its manifest is saved;       *)
(* nothing is done when another process has left a manifest                *)
Install(p, j) ==
    LET s == proc[p]
        x == s.inst[j]
    IN  /\ s.pc[j] = "install" /\ Runs(p, j)
        /\ \/ /\ Present(x)
              /\ Completes(p, j, TRUE)
              /\ UNCHANGED disk
           \/ /\ ~Present(x)
              /\ disk' = [disk EXCEPT ![x] = "saved"]
              /\ Update(p, [s EXCEPT !.pc[j] = "test", !.cur = NONE])
              /\ UNCHANGED holder
           \/ ~Present(x) /\ InstallFails(p, j)
        /\ UNCHANGED <<setup, kills>>

(* the paths of the package are fixed and it is tested                     *)
Test(p, j) ==
    LET s == proc[p]
        x == s.inst[j]
    IN  /\ s.pc[j] \in {"test", "retest"} /\ Runs(p, j)
        /\ \/ /\ disk' = [disk EXCEPT ![x] = "done"]
              /\ Completes(p, j, TRUE)
           \/ InstallFails(p, j)
        /\ UNCHANGED <<setup, kills>>

(* fallback_build, then download and install again                         *)
Redo(p, j) ==
    LET s == proc[p]
        x == s.inst[j]
    IN  /\ s.pc[j] = "redo" /\ Runs(p, j)
        /\ \/ /\ disk' = [disk EXCEPT ![x] = "saved"]
              /\ Update(p, [s EXCEPT !.pc[j] = "retest", !.cur = NONE])
              /\ UNCHANGED holder
           \/ /\ disk' = [disk EXCEPT ![x] = "empty"]
              /\ Fails(p, j)
        /\ UNCHANGED <<setup, kills>>

-----------------------------------------------------------------------------
(* A process is killed at any point: the kernel drops its locks, what it   *)
(* was writing stays as it is.  Then the user starts xmake again.          *)
Kill(p) ==
    /\ proc[p].main \notin {"done", "failed"}
    /\ kills < MaxKills
    /\ kills' = kills + 1
    /\ Update(p, Fresh)
    /\ holder' = [f \in Files |-> IF holder[f] # NONE /\ holder[f][1] = p
                                  THEN NONE ELSE holder[f]]
    /\ UNCHANGED <<setup, disk>>

Ended(p) == proc[p].main \in {"done", "failed"}

Main(p) == FetchNext(p) \/ Loop(p) \/ Start(p) \/ WaitOne(p) \/ WaitAll(p)

Job(p, j) ==
    \/ Pick(p, j) \/ Gate(p, j) \/ Lock(p, j)
    \/ Download(p, j) \/ Install(p, j) \/ Test(p, j) \/ Redo(p, j)

Next ==
    \/ \E p \in Procs : Main(p) \/ Kill(p)
    \/ \E p \in Procs, j \in Jobs : Job(p, j)

Spec == Init /\ [][Next]_vars

(* Coroutines that sleep wake up again, downloads and installations end,   *)
(* and a lock that is free is given to one that waits for it.              *)
FairSpec ==
    /\ Spec
    /\ \A p \in Procs :
          /\ WF_vars(Main(p))
          /\ SF_vars(\E j \in Jobs : Lock(p, j))
          /\ \A j \in Jobs : WF_vars(Job(p, j))

-----------------------------------------------------------------------------
(* Properties                                                              *)

Mains == {"fetch", "loop", "start", "wait", "final", "done", "failed"}
Places == {"none", "pick", "gate", "dead"} \cup Inside

ProcState ==
    [main : Mains, pos : Nat, total : Nat, pending : Seq(Pkgs),
     installed : [Pkgs -> {"nil", "no", "yes"}],
     ingroup : [Groups -> {"nil", "installing", "installed", "failed"}],
     working : Nat, installing : Nat, serials : Nat, parallelize : BOOLEAN,
     index : Nat, top : Nat, cogroup : SUBSET Jobs, started : SUBSET Jobs,
     stop : BOOLEAN, cur : Jobs \cup {NONE},
     pc : [Jobs -> Places], inst : [Jobs -> Pkgs \cup {NONE}]]

(* Every variable has its type; the counts never go below zero.            *)
TypeOK ==
    /\ setup \in Setups
    /\ proc \in [Procs -> ProcState]
    /\ \A p \in Procs : proc[p].index <= proc[p].total /\ proc[p].top <= proc[p].total
    /\ holder \in [Files -> (Procs \X Pkgs) \cup {NONE}]
    /\ disk \in [Pkgs -> {"empty", "partial", "saved", "done"}]
    /\ kills \in 0..MaxKills

Writing == {"install", "test", "redo", "retest"}
At(p, places) == {j \in Jobs : proc[p].pc[j] \in places}

(* A package with set_parallelize(false), or whose cache directory is      *)
(* shared with another one, is never installed while another package of    *)
(* the process is: neither order of arrival at the gate lets two through.  *)
SerialAlone ==
    \A p \in Procs : \A i, j \in At(p, Inside) :
        proc[p].inst[i] \in setup.serial => i = j

(* However the jobs end, by success, failure or a package that is missing, *)
(* the counts say how many are under way, parallelize whether one has to   *)
(* be alone, and the locks are those of the packages under way.            *)
CountsExact ==
    /\ TypeOK
    /\ \A p \in Procs :
          LET s == proc[p]
          IN  /\ s.working = Cardinality(At(p, Inside \cup {"gate"}))
              /\ s.installing = Cardinality(At(p, Inside))
              /\ s.parallelize <=> \A j \in At(p, Inside \cup {"gate"}) :
                                       s.inst[j] \notin setup.serial
              /\ \A f \in Files : (holder[f] # NONE /\ holder[f][1] = p) <=>
                     \E j \in At(p, Locked) : holder[f] = <<p, s.inst[j]>>

(* A package is built when all it depends on is on the disk, whichever     *)
(* process has installed that, and also after one was killed half way.     *)
DepsOnDisk ==
    \A p \in Procs : \A j \in At(p, Writing) :
        \A d \in setup.deps[proc[p].inst[j]] \ setup.optional :
            Present(d)

(* The install directory of a package is written by one coroutine of one   *)
(* process at a time.                                                      *)
OneWriter ==
    \A p, q \in Procs : \A i \in At(p, Writing) :
        \A j \in At(q, Writing) :
            proc[p].inst[i] = proc[q].inst[j] => <<p, i>> = <<q, j>>

(* main reports success only if every package that was asked for is there, *)
(* is optional, or was left out for another one of its group.              *)
Outcome ==
    \A p \in Procs : proc[p].main = "done" =>
        \A x \in Range(setup.order[p]) :
            \/ Present(x)
            \/ x \in setup.optional
            \/ Group(x) # NONE /\ proc[p].ingroup[Group(x)] # "nil"

(* Every process comes to its end, with success or with an error, also     *)
(* after a failure that leaves one package that cannot be installed: none  *)
(* blocks in flock on a file that one of its own coroutines has locked, as *)
(* that coroutine could not run to unlock it.                              *)
Terminates == <>[](\A p \in Procs : Ended(p))

(* What the raise at install_packages.lua:508 is for, "cannot be           *)
(* installed, there are dependencies(%s) that cannot be installed!": a     *)
(* failure ends the process with an error, it does not wait for packages   *)
(* that will never be there.                                               *)
FailureEnds == \A p \in Procs : proc[p].stop ~> Ended(p)
=============================================================================
