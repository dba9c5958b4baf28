----------------------------- MODULE RunBatchJobs -----------------------------
(***************************************************************************)
(* The runner of the build (xmake/modules/async/runbatchjobs.lua) on a job *)
(* pool.                                                                   *)
(*                                                                         *)
(* One coroutine, the runner, takes free jobs from the pool and starts a   *)
(* coroutine for each as long as fewer than comax are in its group; then   *)
(* it waits for one of the group to die.  Coroutines do not preempt each   *)
(* other: a new one runs at once, up to its first suspension or its end,   *)
(* and the runner goes on only then.  The other steps of a job happen      *)
(* while the runner is suspended in co_group_wait.                         *)
(***************************************************************************)
EXTENDS JobPool

CONSTANT comax      \* opt.comax, the number of parallel jobs

ASSUME ComaxAssumption == comax \in Nat \ {0}

VARIABLES
    pc,         \* where the runner is
    index,      \* the number of jobs that were started
    current,    \* job, the job the runner got from getfree and is starting
    stop,       \* stop and abort: a job has failed
    cogroup,    \* the coroutines in the runner's group, named by their job
    dead,       \* the coroutines that have come to their end
    runs        \* how far the body of each job is

runnerVars == <<pc, index, current, stop, cogroup, dead, runs>>
vars == <<poolVars, runnerVars>>

RInit ==
    /\ Init
    /\ pc = "idle"
    /\ index = 0
    /\ current = NONE
    /\ stop = FALSE
    /\ cogroup = {}
    /\ dead = {}
    /\ runs = [j \in Jobs |-> "idle"]

(* the caller builds the graph, then calls the runner with total = size    *)
BuildGraph == pc = "idle" /\ Build /\ UNCHANGED runnerVars

Enter ==
    /\ pc = "idle"
    /\ phase = "build" /\ group = NONE /\ size > 0
    /\ pc' = "outer"
    /\ UNCHANGED <<poolVars, index, current, stop, cogroup, dead, runs>>

(* while index < total do                                                  *)
Outer ==
    /\ pc = "outer"
    /\ pc' = IF index < size THEN "inner" ELSE "waitall"
    /\ UNCHANGED <<poolVars, index, current, stop, cogroup, dead, runs>>

(* Fault: one coroutine too many.                                          *)
InnerOneMore ==
    /\ pc = "inner"
    /\ pc' = IF Cardinality(cogroup) <= comax THEN "getfree" ELSE "waitone"
    /\ UNCHANGED <<poolVars, index, current, stop, cogroup, dead, runs>>

(* while #co_group < comax do                                              *)
Inner ==
    /\ pc = "inner"
    /\ pc' = IF Cardinality(cogroup) < comax THEN "getfree" ELSE "waitone"
    /\ UNCHANGED <<poolVars, index, current, stop, cogroup, dead, runs>>

InGetFree ==
    /\ pc = "getfree"
    /\ Internal
    /\ UNCHANGED runnerVars

(* getfree returns a job or, at the end of what can be started now, nil    *)
Got ==
    /\ pc = "getfree"
    /\ \E j \in Jobs \cup {NONE} :
          /\ GetFree(j)
          /\ current' = j
          /\ pc' = IF j = NONE THEN "waitone" ELSE "start"
          /\ index' = IF j = NONE THEN index ELSE index + 1
    /\ UNCHANGED <<stop, cogroup, dead, runs>>

(* Fault: the error of a job is caught and does not stop the others.       *)
CloseWithoutStop(j, result) ==
    /\ runs' = [runs EXCEPT ![j] = result]
    /\ dead' = dead \cup {j}
    /\ Finish(j)
    /\ UNCHANGED stop

(* the body of j comes to its end: catch, then finally, then the coroutine *)
(* dies                                                                    *)
Close(j, result) ==
    /\ runs' = [runs EXCEPT ![j] = result]
    /\ stop' = (stop \/ result = "failed")
    /\ dead' = dead \cup {j}
    /\ Finish(j)

(* Fault: a job that was handed out runs although another one has failed.  *)
StartAlways ==
    /\ pc = "start"
    /\ \E result \in {"done", "failed"} : Close(current, result)
    /\ cogroup' = cogroup \cup {current}
    /\ current' = NONE
    /\ pc' = "inner"
    /\ UNCHANGED index

(* co_start_withopt runs the new coroutine at once, and add_to_co_group    *)
(* comes after it: the coroutine may be dead when it enters the group      *)
Start ==
    /\ pc = "start"
    /\ \/ stop /\ Close(current, "skipped")
       \/ ~stop /\ \E result \in {"done", "failed"} : Close(current, result)
       \/ /\ ~stop
          /\ runs' = [runs EXCEPT ![current] = "running"]
          /\ UNCHANGED <<poolVars, stop, dead>>
    /\ cogroup' = cogroup \cup {current}
    /\ current' = NONE
    /\ pc' = "inner"
    /\ UNCHANGED index

(* co_group_wait(group_name, {limit = 1}): an empty group or one with a    *)
(* dead coroutine does not suspend the runner.  On the way out all dead    *)
(* coroutines leave the group.                                             *)
WaitOne ==
    /\ pc = "waitone"
    /\ IF cogroup = {} \/ cogroup \cap dead # {}
       THEN pc' = "outer" /\ cogroup' = cogroup \ dead
       ELSE pc' = "suspended1" /\ UNCHANGED cogroup
    /\ UNCHANGED <<poolVars, index, current, stop, dead, runs>>

ResumeOne ==
    /\ pc = "suspended1"
    /\ cogroup \cap dead # {}
    /\ pc' = "outer"
    /\ cogroup' = cogroup \ dead
    /\ UNCHANGED <<poolVars, index, current, stop, dead, runs>>

(* Fault: the runner does not wait for the jobs that still run at the end. *)
WaitAllDropped ==
    /\ pc = "waitall"
    /\ pc' = "leave"
    /\ UNCHANGED <<poolVars, index, current, stop, cogroup, dead, runs>>

(* co_group_wait(group_name): all of them, the limit is the group's size   *)
WaitAll ==
    /\ pc = "waitall"
    /\ IF cogroup \subseteq dead
       THEN pc' = "leave" /\ cogroup' = cogroup \ dead
       ELSE pc' = "suspendedall" /\ UNCHANGED cogroup
    /\ UNCHANGED <<poolVars, index, current, stop, dead, runs>>

ResumeAll ==
    /\ pc = "suspendedall"
    /\ cogroup \subseteq dead
    /\ pc' = "leave"
    /\ cogroup' = cogroup \ dead
    /\ UNCHANGED <<poolVars, index, current, stop, dead, runs>>

(* leave_co_group asserts that the group is empty; then the runner returns *)
(* or, after a failure, raises abort_errors                                *)
Leave ==
    /\ pc = "leave"
    /\ pc' = IF stop THEN "raised" ELSE "returned"
    /\ UNCHANGED <<poolVars, index, current, stop, cogroup, dead, runs>>

(* the process a job waits for ends, and with it, in time, the job's body  *)
EndJob(j) ==
    /\ pc \in {"suspended1", "suspendedall"}
    /\ runs[j] = "running"
    /\ \E result \in {"done", "failed"} : Close(j, result)
    /\ UNCHANGED <<pc, index, current, cogroup>>

Returned == pc \in {"returned", "raised"} /\ UNCHANGED vars

Runner ==
    \/ Outer \/ Inner \/ InGetFree \/ Got \/ Start
    \/ WaitOne \/ ResumeOne \/ WaitAll \/ ResumeAll \/ Leave

RNext ==
    \/ BuildGraph
    \/ Enter
    \/ Runner
    \/ \E j \in Jobs : EndJob(j)
    \/ Returned

RSpec == RInit /\ [][RNext]_vars

(***************************************************************************)
(* Fairness.  The run loop resumes the runner as soon as a coroutine of    *)
(* its group is dead, and between its suspensions the runner is ordinary   *)
(* sequential code.  That every job ends is an assumption on the compilers *)
(* and scripts it runs; the scheduler then resumes it.                     *)
(***************************************************************************)
Fairness == WF_vars(Runner) /\ \A j \in Jobs : WF_vars(EndJob(j))

FairSpec == RSpec /\ Fairness

-----------------------------------------------------------------------------
(* Type invariant of the runner's part of the state.                        *)
RTypeOK ==
    /\ TypeOK
    /\ pc \in {"idle", "outer", "inner", "getfree", "start", "waitone", "waitall",
               "suspended1", "suspendedall", "leave", "returned", "raised"}
    /\ index \in Nat
    /\ current \in Jobs \cup {NONE}
    /\ stop \in BOOLEAN
    /\ cogroup \subseteq Jobs
    /\ dead \subseteq Jobs
    /\ runs \in [Jobs -> {"idle", "running", "done", "failed", "skipped"}]

(* The body of a job starts only when the body of every job it depends on,  *)
(* directly, through other jobs or through groups, has succeeded, also when *)
(* one of them has failed and the pool hands out what is left.              *)
DepsBuilt ==
    \A j \in Jobs : runs[j] \in {"running", "done", "failed"} =>
        \A d \in AllDeps(j) \cap Jobs : runs[d] = "done"

(* What makes DepsBuilt inductive, and the runner an ordered run: without a *)
(* failure a job that is out of the pool has succeeded, a job that is still *)
(* free has not started, and there is room for the job about to start.      *)
RunnerInv ==
    /\ stop <=> \E j \in Jobs : runs[j] = "failed"
    /\ ~stop => \A j \in Jobs : status[j] = "FINISHED" => runs[j] = "done"
    /\ \A j \in Jobs : status[j] = "FREE" => runs[j] = "idle"
    /\ \A j \in Jobs : runs[j] = "running" => j \in cogroup
    /\ \A j \in dead : runs[j] \notin {"idle", "running"}
    /\ pc = "idle" => phase = "build" /\ \A j \in Jobs : runs[j] = "idle"
    /\ pc = "start" => /\ current \in Jobs
                       /\ status[current] = "PENDING"
                       /\ runs[current] = "idle"
    /\ pc \in {"getfree", "start"} => Cardinality(cogroup) < comax
    /\ Cardinality(cogroup) <= comax

(* No more than comax coroutines are alive, and the group the runner waits  *)
(* for knows all of them.                                                   *)
ParallelBound ==
    LET alive == {j \in Jobs : runs[j] = "running"}
    IN  Cardinality(alive) <= comax /\ alive \subseteq cogroup

(* When the runner returns, its group is empty (the assertion of            *)
(* leave_co_group), every job that was added has run to its end and, unless *)
(* the runner raises, has succeeded.                                        *)
Outcome ==
    /\ pc \in {"leave", "returned", "raised"} =>
          /\ cogroup = {}
          /\ \A j \in Jobs : Attached(j) =>
                status[j] = "FINISHED" /\ runs[j] \in {"done", "failed", "skipped"}
    /\ pc = "returned" => \A j \in Jobs : Attached(j) => runs[j] = "done"
    /\ pc = "raised" => \E j \in Jobs : runs[j] = "failed"

(* Once started, the runner returns or raises: it never waits for an empty  *)
(* set of jobs and never spins.                                             *)
Terminates == (pc = "outer") ~> (pc \in {"returned", "raised"})

(* The runner and its pool implement an ordered run of the jobs.            *)
Ordered == INSTANCE OrderedRun WITH
    Tasks <- Jobs, Limit <- comax, state <- runs,
    before <- [j \in Jobs |-> AllDeps(j) \cap Jobs]
ImplementsOrderedRun == Ordered!Spec
=============================================================================
