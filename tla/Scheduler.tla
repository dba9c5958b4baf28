------------------------------ MODULE Scheduler ------------------------------
(***************************************************************************)
(* The scheduler of coroutines (xmake/core/base/scheduler.lua) with its    *)
(* timer (core/base/timer.lua): the run loop, the waits for a process, for *)
(* a time and for a lock, and what happens when the loop ends.             *)
(*                                                                         *)
(* One coroutine runs at a time.  It keeps the processor until it          *)
(* suspends, ends or raises; then whoever resumed it goes on: the          *)
(* coroutine that started it, or the run loop, which resumes suspended     *)
(* coroutines from the events of the poller and from the tasks of the      *)
(* timer.  A coroutine here is any program that makes at most MaxCalls     *)
(* calls; like os.execv it has one process open at a time.  Groups of      *)
(* coroutines are part of RunBatchJobs, sockets and pipes of PollerWait.   *)
(***************************************************************************)
EXTENDS Naturals, FiniteSets, Sequences, SequencesExt

CONSTANTS
    Cos,        \* the coroutines
    Main,       \* the one that main.lua starts
    Procs,      \* the processes
    Locks,      \* the names of locks
    Timeouts,   \* whether waits for a process have a timeout: a set of Booleans
    MayFail,    \* whether coroutines can raise errors and stop the scheduler
    MaxCalls,   \* bound on the waits and locks of a coroutine
    NONE        \* Lua's nil

ASSUME SchedulerAssumption ==
    /\ Main \in Cos /\ IsFiniteSet(Procs)
    /\ NONE \notin Cos \cup Procs \cup Locks \cup {"error"}
    /\ NONE \notin 0..MaxCalls
    /\ NONE \notin [pending : BOOLEAN, co_waiting : Cos \cup {NONE}]
    /\ Timeouts \subseteq BOOLEAN /\ MayFail \in BOOLEAN
    /\ MaxCalls \in Nat

VARIABLES
    started,    \* self._STARTED
    loop,       \* where the run loop is
    why,        \* history: why the run loop was left
    batch,      \* the events of poller:wait that are still to be handled
    stack,      \* the coroutines that run, the last one on the processor
    co,         \* what each coroutine does: [at, on, n], n its number of calls
    tasks,      \* the tasks of the timer
    timer_task, \* co._TIMER_TASK: the number of the wait it belongs to
    pollerdata, \* self._POLLERDATA of the processes
    poller,     \* the processes in the poller
    exited,     \* the processes that have ended
    fired,      \* the processes whose exit was reported by poller:wait
    opened,     \* opened[p]: the coroutine that has p open
    got,        \* the processes whose exit has reached their coroutine
    locked      \* self._CO_LOCKED_TASKS

loopVars == <<started, loop, why, batch>>
procVars == <<pollerdata, poller, exited, fired, opened, got>>
vars == <<loopVars, procVars, stack, co, tasks, timer_task, locked>>

-----------------------------------------------------------------------------
Suspended(c) == co[c].at \in {"proc", "sleep", "lock"}
Alive == {c \in Cos : co[c].at \notin {"none", "returned"}}    \* what _CO_COUNT counts
Runs(c) == stack # <<>> /\ Last(stack) = c
Acts(c) == Runs(c) /\ co[c].at = "running"

(* resume c; when it was in co_lock it goes on in the loop of co_lock      *)
Resumed(c) == [co EXCEPT ![c].at = IF @ = "lock" THEN "retry" ELSE "running"]

Suspend(c, at, on) ==
    /\ co' = [co EXCEPT ![c] = [at |-> at, on |-> on, n |-> @.n + 1]]
    /\ stack' = Front(stack)

(* timer:post, for the wait that c is about to begin                       *)
Task(c, kind, on) == [co |-> c, n |-> co[c].n + 1, kind |-> kind, on |-> on, cancel |-> FALSE]

Init ==
    /\ started = TRUE
    /\ loop = "start"
    /\ why = NONE
    /\ batch = <<>>
    /\ stack = <<Main>>
    /\ co = [c \in Cos |-> [at |-> IF c = Main THEN "running" ELSE "none", on |-> NONE, n |-> 0]]
    /\ tasks = {}
    /\ timer_task = [c \in Cos |-> NONE]
    /\ pollerdata = [p \in Procs |-> NONE]
    /\ poller = {}
    /\ exited = {}
    /\ fired = {}
    /\ opened = [p \in Procs |-> NONE]
    /\ got = {}
    /\ locked = [l \in Locks |-> NONE]

-----------------------------------------------------------------------------
(* What a coroutine does.                                                  *)

(* co_start_withopt: the new coroutine runs at once; once the scheduler is *)
(* stopped it only becomes one of _CO_READY_TASKS, for the next run loop   *)
CoStart(c, d) ==
    /\ Acts(c)
    /\ co[d].at = "none"
    /\ co' = [co EXCEPT ![d].at = IF started THEN "running" ELSE "ready"]
    /\ stack' = IF started THEN Append(stack, d) ELSE stack
    /\ UNCHANGED <<loopVars, procVars, tasks, timer_task, locked>>

(* os.execv opens a process and waits for it, then waits again if the      *)
(* first wait has run into its timeout                                     *)
CanWait(c, p) ==
    /\ p \notin got
    /\ \/ opened[p] = c
       \/ p \notin exited /\ opened[p] = NONE /\ \A q \in Procs : opened[q] # c

Pending(p) == pollerdata[p] # NONE /\ pollerdata[p].pending      \* object_pending

(* poller_waitproc: the exit was reported while nobody waited              *)
WaitProcPending(c, p) ==
    /\ Acts(c) /\ started
    /\ CanWait(c, p)
    /\ Pending(p)
    /\ pollerdata' = [pollerdata EXCEPT ![p].pending = FALSE]
    /\ got' = got \cup {p}
    /\ UNCHANGED <<loopVars, stack, co, tasks, timer_task, poller, exited, fired, opened, locked>>

(* poller_waitproc                                                         *)
WaitProc(c, p, timeout) ==
    /\ Acts(c) /\ started /\ co[c].n < MaxCalls
    /\ CanWait(c, p)
    /\ ~Pending(p)
    /\ opened' = [opened EXCEPT ![p] = c]
    /\ poller' = poller \cup {p}
    /\ tasks' = IF timeout THEN tasks \cup {Task(c, "proc", p)} ELSE tasks
    /\ timer_task' = [timer_task EXCEPT ![c] = IF timeout THEN co[c].n + 1 ELSE NONE]
    /\ pollerdata' = [pollerdata EXCEPT ![p] = [pending |-> FALSE, co_waiting |-> c]]
    /\ Suspend(c, "proc", p)
    /\ UNCHANGED <<loopVars, exited, fired, got, locked>>

(* process:close(), with poller_cancel                                     *)
CloseProc(c, p) ==
    /\ Acts(c)
    /\ opened[p] = c
    /\ opened' = [opened EXCEPT ![p] = NONE]
    /\ got' = got \cup {p}              \* it is never waited for again
    /\ poller' = poller \ {p}
    /\ pollerdata' = [pollerdata EXCEPT ![p] = NONE]
    /\ UNCHANGED <<loopVars, stack, co, tasks, timer_task, exited, fired, locked>>

(* co_sleep, co_yield                                                      *)
Sleep(c) ==
    /\ Acts(c) /\ started /\ co[c].n < MaxCalls
    /\ tasks' = tasks \cup {Task(c, "sleep", NONE)}
    /\ Suspend(c, "sleep", NONE)
    /\ UNCHANGED <<loopVars, procVars, timer_task, locked>>

(* co_lock, from its beginning or from the top of its loop                 *)
Lock(c, l) ==
    /\ \/ Acts(c) /\ started /\ co[c].n < MaxCalls
       \/ Runs(c) /\ co[c].at = "retry" /\ co[c].on = l
    /\ \/ /\ locked[l] \in {NONE, c}
          /\ locked' = [locked EXCEPT ![l] = c]
          /\ co' = [co EXCEPT ![c] = [at |-> "running", on |-> NONE, n |-> @.n + 1]]
          /\ UNCHANGED <<tasks, stack>>
       \/ /\ locked[l] \notin {NONE, c}
          /\ tasks' = tasks \cup {Task(c, "lock", l)}
          /\ Suspend(c, "lock", l)
          /\ UNCHANGED locked
    /\ UNCHANGED <<loopVars, procVars, timer_task>>

(* co_unlock; it fails once the scheduler is stopped                       *)
Unlock(c, l) ==
    /\ Acts(c) /\ started
    /\ locked[l] = c
    /\ locked' = [locked EXCEPT ![l] = NONE]
    /\ UNCHANGED <<loopVars, procVars, stack, co, tasks, timer_task>>

(* scheduler:stop                                                          *)
Stop(c) ==
    /\ MayFail
    /\ Acts(c) /\ started
    /\ started' = FALSE
    /\ UNCHANGED <<loop, why, batch, procVars, stack, co, tasks, timer_task, locked>>

(* a coroutine comes to its end, with its locks released                   *)
Return(c) ==
    /\ Acts(c)
    /\ started => \A l \in Locks : locked[l] # c
    /\ co' = [co EXCEPT ![c].at = "returned"]
    /\ stack' = Front(stack)
    /\ UNCHANGED <<loopVars, procVars, tasks, timer_task, locked>>

(* A coroutine raises an error.  If another coroutine has started it, that *)
(* one gets the error and goes on; else the run loop is left, at once when *)
(* it has not begun to loop.                                               *)
Raise(c) ==
    /\ MayFail
    /\ Acts(c)
    /\ co' = [co EXCEPT ![c].at = "raised"]
    /\ stack' = Front(stack)
    /\ IF Len(stack) = 1 /\ loop \in {"start", "events", "timer"}
       THEN /\ loop' = IF loop = "start" THEN "ended" ELSE "kill"
            /\ started' = (loop = "start" /\ started)
            /\ why' = "raised"
            /\ batch' = <<>>
       ELSE UNCHANGED loopVars
    /\ UNCHANGED <<procVars, tasks, timer_task, locked>>

Coroutine(c) ==
    \/ \E d \in Cos : CoStart(c, d)
    \/ \E p \in Procs : WaitProcPending(c, p) \/ CloseProc(c, p)
    \/ \E p \in Procs, timeout \in Timeouts : WaitProc(c, p, timeout)
    \/ \E l \in Locks : Lock(c, l) \/ Unlock(c, l)
    \/ Sleep(c) \/ Stop(c) \/ Return(c) \/ Raise(c)

-----------------------------------------------------------------------------
(* The run loop.                                                           *)
Idle == stack = <<>>

(* break out of the loop: mark it as stopped, then kill the timer          *)
BreakLoop(reason) ==
    /\ loop' = "kill"
    /\ started' = FALSE
    /\ why' = reason
    /\ batch' = <<>>

(* while self._STARTED and self:co_count() > 0 do                          *)
LoopTop ==
    /\ Idle
    /\ loop \in {"start", "top"}
    /\ IF started /\ Alive # {}
       THEN loop' = "wait" /\ UNCHANGED <<started, why, batch>>
       ELSE BreakLoop(IF Alive = {} THEN "done" ELSE "stopped")
    /\ UNCHANGED <<procVars, stack, co, tasks, timer_task, locked>>

(* poller:wait returns some of the events there are, in some order         *)
Wait(events) ==
    /\ loop = "wait"
    /\ IsInjective(events)
    /\ ToSet(events) \subseteq (poller \cap exited) \ fired
    /\ batch' = events
    /\ fired' = fired \cup ToSet(events)
    /\ loop' = "events"
    /\ UNCHANGED <<started, why, pollerdata, poller, exited, opened, got, stack, co, tasks, timer_task, locked>>

(* _poller_resume_co cancels the task of a timeout                         *)
CancelTask(c) == {IF t.co = c /\ t.n = timer_task[c] THEN [t EXCEPT !.cancel = TRUE] ELSE t : t \in tasks}

(* Fault: the exit of a process nobody waits for is dropped.               *)
EventDropped(p) ==
    /\ loop = "events" /\ Idle
    /\ batch # <<>> /\ Head(batch) = p
    /\ pollerdata[p] # NONE
    /\ LET c == pollerdata[p].co_waiting IN
          IF c = NONE THEN UNCHANGED <<stack, co, tasks, got, pollerdata>>
          ELSE /\ pollerdata' = [pollerdata EXCEPT ![p].co_waiting = NONE]
               /\ tasks' = CancelTask(c)
               /\ co' = Resumed(c) /\ stack' = <<c>>
               /\ got' = IF started THEN got \cup {p} ELSE got
    /\ batch' = Tail(batch)
    /\ UNCHANGED <<started, loop, why, poller, exited, fired, opened, timer_task, locked>>

(* Fault: the timeout of the wait that ends is not cancelled.              *)
EventWithoutCancel(p) ==
    /\ loop = "events" /\ Idle
    /\ batch # <<>> /\ Head(batch) = p
    /\ pollerdata[p] # NONE
    /\ LET c == pollerdata[p].co_waiting IN
          IF c = NONE THEN pollerdata' = [pollerdata EXCEPT ![p].pending = TRUE]
                           /\ UNCHANGED <<stack, co, got>>
          ELSE /\ pollerdata' = [pollerdata EXCEPT ![p].co_waiting = NONE]
               /\ co' = Resumed(c) /\ stack' = <<c>>
               /\ got' = IF started THEN got \cup {p} ELSE got
    /\ batch' = Tail(batch)
    /\ UNCHANGED <<started, loop, why, poller, exited, fired, opened, tasks, timer_task, locked>>

(* _poller_events_cb for a process.  Without data, or for a coroutine that *)
(* is not suspended, the loop is left with an error.                       *)
Event(p) ==
    /\ loop = "events" /\ Idle
    /\ batch # <<>> /\ Head(batch) = p
    /\ \/ /\ pollerdata[p] = NONE
          /\ BreakLoop("error")
          /\ UNCHANGED <<pollerdata, stack, co, tasks, got>>
       \/ /\ pollerdata[p] # NONE
          /\ pollerdata[p].co_waiting = NONE
          /\ pollerdata' = [pollerdata EXCEPT ![p].pending = TRUE]
          /\ batch' = Tail(batch)
          /\ UNCHANGED <<started, loop, why, stack, co, tasks, got>>
       \/ /\ pollerdata[p] # NONE
          /\ pollerdata[p].co_waiting # NONE
          /\ LET c == pollerdata[p].co_waiting IN
                /\ pollerdata' = [pollerdata EXCEPT ![p].co_waiting = NONE]
                /\ tasks' = CancelTask(c)
                /\ IF Suspended(c)
                   THEN /\ co' = Resumed(c) /\ stack' = <<c>>
                        /\ got' = IF started THEN got \cup {p} ELSE got
                        /\ batch' = Tail(batch)
                        /\ UNCHANGED <<started, loop, why>>
                   ELSE BreakLoop("error") /\ UNCHANGED <<stack, co, got>>
    /\ UNCHANGED <<poller, exited, fired, opened, timer_task, locked>>

EventsDone ==
    /\ loop = "events" /\ Idle
    /\ batch = <<>>
    /\ loop' = "timer"
    /\ UNCHANGED <<started, why, batch, procVars, stack, co, tasks, timer_task, locked>>

-----------------------------------------------------------------------------
(* The timer.  Time is not modelled: any task may be the one that is due.  *)

Wake(c) == IF Suspended(c) THEN co' = Resumed(c) /\ stack' = <<c>>
                           ELSE UNCHANGED <<co, stack>>

(* Fault: a coroutine that waits for a lock looks for it only once.        *)
CallbackOnce(t, cancel) ==
    /\ tasks' = tasks \ {t}
    /\ IF t.kind = "proc" /\ ~cancel /\ Suspended(t.co)
       THEN pollerdata' = [pollerdata EXCEPT ![t.on].co_waiting = NONE]
       ELSE UNCHANGED pollerdata
    /\ IF \/ t.kind = "proc" /\ cancel
          \/ t.kind = "lock" /\ locked[t.on] # NONE
       THEN UNCHANGED <<co, stack>> ELSE Wake(t.co)

(* the functions that are posted to the timer                              *)
Callback(t, cancel) ==
    \/ /\ t.kind = "proc"
       /\ tasks' = tasks \ {t}
       /\ IF cancel \/ ~Suspended(t.co)
          THEN UNCHANGED <<co, stack, pollerdata>>
          ELSE /\ Wake(t.co)
               /\ pollerdata' = IF pollerdata[t.on] = NONE THEN pollerdata
                                ELSE [pollerdata EXCEPT ![t.on].co_waiting = NONE]
    \/ /\ t.kind = "sleep"
       /\ tasks' = tasks \ {t}
       /\ Wake(t.co)
       /\ UNCHANGED pollerdata
    \/ /\ t.kind = "lock"
       /\ IF locked[t.on] = NONE
          THEN tasks' = tasks \ {t} /\ Wake(t.co)
          ELSE UNCHANGED <<tasks, co, stack>>           \* posted again
       /\ UNCHANGED pollerdata

(* timer:next                                                              *)
TimerNext(t) ==
    /\ loop = "timer" /\ Idle
    /\ t \in tasks
    /\ Callback(t, t.cancel)
    /\ UNCHANGED <<loopVars, poller, exited, fired, opened, got, timer_task, locked>>

TimerDone ==
    /\ loop = "timer" /\ Idle
    /\ loop' = "top"
    /\ UNCHANGED <<started, why, batch, procVars, stack, co, tasks, timer_task, locked>>

(* timer:kill                                                              *)
TimerKill(t) ==
    /\ loop = "kill" /\ Idle
    /\ t \in tasks
    /\ Callback(t, TRUE)
    /\ UNCHANGED <<loopVars, poller, exited, fired, opened, got, timer_task, locked>>

KillDone ==
    /\ loop = "kill" /\ Idle
    /\ tasks = {}
    /\ loop' = "ended"
    /\ UNCHANGED <<started, why, batch, procVars, stack, co, tasks, timer_task, locked>>

(* the operating system: a process that was opened ends                    *)
Exit(p) ==
    /\ p \in poller \ exited
    /\ exited' = exited \cup {p}
    /\ UNCHANGED <<loopVars, pollerdata, poller, fired, opened, got, stack, co, tasks, timer_task, locked>>

Ended == loop = "ended" /\ UNCHANGED vars

-----------------------------------------------------------------------------
RunLoop ==
    \/ LoopTop
    \/ \E n \in 0..Cardinality(Procs) : \E events \in [1..n -> Procs] : Wait(events)
    \/ \E p \in Procs : Event(p)
    \/ EventsDone
    \/ \E t \in tasks : TimerNext(t) \/ TimerKill(t)
    \/ TimerDone
    \/ KillDone

Next ==
    \/ \E c \in Cos : Coroutine(c)
    \/ RunLoop
    \/ \E p \in Procs : Exit(p)
    \/ Ended

Spec == Init /\ [][Next]_vars

(* Programs and processes come to an end and the loop keeps running.  The  *)
(* poller reports an exit some time (see ExitReported of ProcessPoller)    *)
(* and a task of the timer is due some time, and timer:next runs it in the *)
(* next round of the loop.                                                 *)
Reports(p) == \E n \in 1..Cardinality(Procs) : \E events \in [1..n -> Procs] :
                 p \in ToSet(events) /\ Wait(events)
Due(c, n) == \E t \in tasks : t.co = c /\ t.n = n /\ TimerNext(t)

Fairness ==
    /\ \A c \in Cos : WF_vars(Coroutine(c))
    /\ WF_vars(RunLoop)
    /\ \A p \in Procs : WF_vars(Exit(p)) /\ SF_vars(Reports(p))
    /\ \A c \in Cos, n \in 1..(MaxCalls + 1) : SF_vars(Due(c, n))

FairSpec == Spec /\ Fairness

-----------------------------------------------------------------------------
(* The values of the variables.                                            *)
TypeOK ==
    /\ started \in BOOLEAN
    /\ loop \in {"start", "top", "wait", "events", "timer", "kill", "ended"}
    /\ why \in {NONE, "done", "stopped", "raised", "error"}
    /\ batch \in Seq(Procs)
    /\ stack \in Seq(Cos)
    /\ co \in [Cos -> [at : {"none", "ready", "running", "proc", "sleep", "lock", "retry",
                             "returned", "raised"},
                       on : Procs \cup Locks \cup {NONE}, n : 0..(MaxCalls + 1)]]
    /\ tasks \subseteq [co : Cos, n : 1..(MaxCalls + 1), kind : {"proc", "sleep", "lock"},
                        on : Procs \cup Locks \cup {NONE}, cancel : BOOLEAN]
    /\ timer_task \in [Cos -> 1..MaxCalls \cup {NONE}]
    /\ pollerdata \in [Procs -> [pending : BOOLEAN, co_waiting : Cos \cup {NONE}] \cup {NONE}]
    /\ poller \subseteq Procs /\ exited \subseteq Procs
    /\ fired \subseteq exited /\ got \subseteq Procs
    /\ opened \in [Procs -> Cos \cup {NONE}]
    /\ locked \in [Locks -> Cos \cup {NONE}]

(* Nothing wakes a coroutine up from a wait it was not meant for.  Whoever *)
(* is registered with a process is suspended in the wait for it, and a     *)
(* task of the timer that can still resume a coroutine belongs to the wait *)
(* that coroutine is in: the timeout of an earlier wait is cancelled       *)
(* (_poller_resume_co) before the coroutine can begin another one.  And    *)
(* the loop is never left because an event has no data or finds its        *)
(* coroutine not suspended: only a program that raises or stops the        *)
(* scheduler ends it early.                                                *)
RightWakeup ==
    /\ TypeOK
    /\ why # "error"
    /\ \A p \in Procs : pollerdata[p] # NONE =>
          LET c == pollerdata[p].co_waiting IN
          c # NONE => co[c].at = "proc" /\ co[c].on = p
    /\ \A t \in tasks : ~t.cancel => co[t.co] = [at |-> t.kind, on |-> t.on, n |-> t.n]

(* Until the loop is left, whatever a suspended coroutine waits for can    *)
(* still resume it: the timer has the task of a co_sleep or a co_lock, and *)
(* the poller has the process, whose exit is not reported yet or is in the *)
(* batch that is being handled, of a poller_waitproc.                      *)
WaiterHasWaker ==
    loop \notin {"kill", "ended"} => \A c \in Cos :
       /\ co[c].at \in {"sleep", "lock"} =>
             \E t \in tasks : t.co = c /\ t.n = co[c].n /\ t.on = co[c].on /\ ~t.cancel
       /\ co[c].at = "proc" => LET p == co[c].on IN
             /\ pollerdata[p] # NONE /\ pollerdata[p].co_waiting = c
             /\ p \in poller
             /\ p \in fired => p \in ToSet(batch)

(* The exit of a process that is reported after the wait for it has run    *)
(* into its timeout is kept (object_pending) for the next poller_waitproc. *)
ExitNotLost ==
    \A p \in fired : started /\ opened[p] # NONE /\ p \notin got =>
       p \in ToSet(batch) \/ Pending(p)

(* When no coroutine fails the run loop ends, with every coroutine ended:  *)
(* no wait for a process, for a lock or for a time goes on for ever.       *)
Terminates == <>(loop = "ended" /\ why = "done")
=============================================================================
