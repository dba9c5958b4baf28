--------------------------------- MODULE Timer ---------------------------------
(***************************************************************************)
(* The timer of the scheduler (core/base/timer.lua) on its binary heap,    *)
(* and the part of scheduler:runloop that drives it: ask the timer for the *)
(* delay of its first task, wait for events at most that long, run the     *)
(* tasks that are due, and in the end cancel what is left.                 *)
(*                                                                         *)
(* The functions of the tasks resume coroutines, which post new tasks and  *)
(* cancel others while the loop over the heap is under way.  The clock may *)
(* go on between any two steps.  Every task has a function, as all of the  *)
(* posts in the scheduler have.                                            *)
(***************************************************************************)
EXTENDS Naturals, Sequences, FiniteSets, Heap, SequencesExt

CONSTANTS
    MaxPosts,   \* bound: number of tasks posted
    Delays,     \* the delays and periods
    MaxTime,    \* bound of the clock
    MaxCancels, \* bound: number of tasks cancelled
    NONE

ASSUME TimerAssumption ==
    /\ MaxPosts \in Nat /\ MaxTime \in Nat /\ MaxCancels \in Nat
    /\ Delays \subseteq 0..MaxTime
    /\ NONE \notin Nat

Ids == 1..MaxPosts

VARIABLES
    now,        \* os.mclock()
    tasks,      \* self._TASKS, a heap of the numbers of tasks
    task,       \* the tasks, numbered in the order they are posted
    at,         \* where the run loop and the timer are
    cur,        \* the task whose function is called
    until,      \* when poller:wait has to return
    calls       \* history: how often each task was called

vars == <<now, tasks, task, at, cur, until, calls>>

When(tk) == [i \in DOMAIN tk |-> tk[i].when]

Init ==
    /\ now = 0
    /\ tasks = <<>> /\ task = <<>>
    /\ at = "run" /\ cur = NONE /\ until = NONE
    /\ calls = [i \in Ids |-> 0]

(* coroutines run: resumed for their group, for an event, or by a task     *)
Running == at \in {"run", "events", "func", "killfunc"}

(* timer:post, with the option continuous; a continuous task without a     *)
(* period would keep timer:next busy for ever                              *)
Post(d, continuous) ==
    LET i == Len(task) + 1
        tk == Append(task, [when |-> now + d, period |-> d,
                            continuous |-> continuous, cancel |-> FALSE])
    IN  /\ Running
        /\ i \in Ids /\ now + d <= MaxTime
        /\ continuous => d > 0
        /\ task' = tk
        /\ tasks' = Push(When(tk), tasks, i)
        /\ UNCHANGED <<now, at, cur, until, calls>>

Cancelled == {i \in DOMAIN task : task[i].cancel}

(* task.cancel = true: the coroutine that waits for i has been resumed     *)
Cancel(i) ==
    /\ Running
    /\ i \notin Cancelled /\ Cardinality(Cancelled) < MaxCancels
    /\ task' = [task EXCEPT ![i].cancel = TRUE]
    /\ UNCHANGED <<now, tasks, at, cur, until, calls>>

(* Fault: it is the last place of the heap that is looked at.              *)
FirstLast == tasks[Len(tasks)]

(* tasks:peek()                                                            *)
First == tasks[1]

(* poller:wait(self:_timer():delay() or 1000); NONE stands for 1000        *)
Delay ==
    /\ at = "run"
    /\ at' = "wait"
    /\ until' = IF tasks = <<>> THEN NONE
                ELSE IF task[First].when > now THEN task[First].when ELSE now
    /\ UNCHANGED <<now, tasks, task, cur, calls>>

(* poller:wait returns, for an event or when its time is over              *)
Wake ==
    /\ at = "wait"
    /\ at' = "events" /\ until' = NONE
    /\ UNCHANGED <<now, tasks, task, cur, calls>>

(* the events are handled, or coroutines were resumed for their groups     *)
(* and there was no wait: now timer:next()                                 *)
Spank ==
    /\ at \in {"run", "events"}
    /\ at' = "next"
    /\ UNCHANGED <<now, tasks, task, cur, until, calls>>

Call(i, where) ==
    /\ cur' = i /\ at' = where
    /\ calls' = [calls EXCEPT ![i] = @ + 1]

(* timeout or canceled?                                                    *)
IsDue(i) == task[i].cancel \/ task[i].when <= now

(* the first task is popped; a continuous one is due again in a period     *)
PopNext ==
    LET rest == Pop(When(task), tasks)
        tk == [task EXCEPT ![First].when = now + task[First].period]
    IN  IF task[First].continuous /\ ~task[First].cancel
        THEN /\ task' = tk
             /\ tasks' = Push(When(tk), rest, First)
        ELSE /\ UNCHANGED task
             /\ tasks' = rest

(* one round of the loop of timer:next                                     *)
NextTask ==
    /\ at = "next" /\ tasks # <<>> /\ IsDue(First)
    /\ PopNext
    /\ Call(First, "func")
    /\ UNCHANGED <<now, until>>

(* the function of a task returns, ok or not                               *)
FuncReturn(ok) ==
    /\ at = "func"
    /\ at' = IF ok THEN "next" ELSE "kill"
    /\ cur' = NONE
    /\ UNCHANGED <<now, tasks, task, until, calls>>

(* timer:next returns true                                                 *)
NextReturn ==
    /\ at = "next"
    /\ tasks # <<>> => ~IsDue(First)
    /\ at' = "run"
    /\ UNCHANGED <<now, tasks, task, cur, until, calls>>

(* the run loop is left: all coroutines have ended, stop, or an error      *)
Leave ==
    /\ at \in {"run", "events"}
    /\ at' = "kill"
    /\ UNCHANGED <<now, tasks, task, cur, until, calls>>

(* Fault: the tasks that are left are thrown away.                         *)
KillTaskUncalled ==
    /\ at = "kill" /\ tasks # <<>>
    /\ tasks' = <<>>
    /\ UNCHANGED <<now, task, at, cur, until, calls>>

(* one round of the loop of timer:kill                                     *)
KillTask ==
    /\ at = "kill" /\ tasks # <<>>
    /\ tasks' = Pop(When(task), tasks)
    /\ Call(First, "killfunc")
    /\ UNCHANGED <<now, task, until>>

(* the result of the function is not looked at                             *)
KillFuncReturn ==
    /\ at = "killfunc"
    /\ at' = "kill" /\ cur' = NONE
    /\ UNCHANGED <<now, tasks, task, until, calls>>

KillReturn ==
    /\ at = "kill" /\ tasks = <<>>
    /\ at' = "ended"
    /\ UNCHANGED <<now, tasks, task, cur, until, calls>>

Tick ==
    /\ now < MaxTime /\ at # "ended"
    /\ now' = now + 1
    /\ UNCHANGED <<tasks, task, at, cur, until, calls>>

Ended == at = "ended" /\ UNCHANGED vars

Loop ==
    \/ Wake \/ Spank \/ NextTask \/ NextReturn \/ FuncReturn(TRUE)
    \/ KillTask \/ KillFuncReturn \/ KillReturn

Next ==
    \/ \E d \in Delays, c \in BOOLEAN : Post(d, c)
    \/ \E i \in DOMAIN task : Cancel(i)
    \/ Delay \/ Leave \/ FuncReturn(FALSE)
    \/ Loop \/ Tick \/ Ended

Spec == Init /\ [][Next]_vars

(* Functions return, the poller comes back and the clock goes on.          *)
FairSpec == Spec /\ WF_vars(Loop) /\ WF_vars(Tick)
-----------------------------------------------------------------------------
(* Properties                                                              *)

Latest == MaxTime + Max(Delays \cup {0})

(* Every variable has its type; a task is current exactly while its        *)
(* function runs.                                                          *)
TypeOK ==
    /\ now \in 0..MaxTime
    /\ tasks \in Seq(DOMAIN task)
    /\ task \in Seq([when : 0..Latest, period : Delays,
                     continuous : BOOLEAN, cancel : BOOLEAN])
    /\ at \in {"run", "wait", "events", "next", "func", "kill", "killfunc", "ended"}
    /\ cur \in IF at \in {"func", "killfunc"} THEN DOMAIN task ELSE {NONE}
    /\ until \in 0..Latest \cup {NONE}
    /\ calls \in [Ids -> 0..(MaxTime + 2)]

(* No task is lost and none is called twice, through all that the          *)
(* functions of tasks post and cancel in the middle of timer:next and      *)
(* timer:kill: the tasks stay a heap, and a task waits in it, once, until  *)
(* it is called, a continuous one until it is cancelled or the timer is    *)
(* killed.                                                                 *)
HeapExact ==
    /\ TypeOK
    /\ IsHeap(When(task), tasks)
    /\ IsInjective(tasks)
    /\ \A i \in DOMAIN task :
          LET waits == i \in Range(tasks)
          IN  IF task[i].continuous
              THEN \/ waits
                   \/ calls[i] > 0 /\ (task[i].cancel \/ at \in {"kill", "killfunc", "ended"})
              ELSE waits <=> calls[i] = 0

(* Tasks are called in the order of their times, timer:next does not come  *)
(* back while a task is due, and the run loop does not sleep longer than   *)
(* until the first task is due.                                            *)
OnTime ==
    [][ /\ \A i \in DOMAIN task : calls'[i] > calls[i] =>
              \A j \in Range(tasks) : task[i].when <= task[j].when
        /\ at = "next" /\ at' = "run" =>
              \A i \in Range(tasks) : task[i].when > now
        /\ at = "run" /\ at' = "wait" =>
              \A i \in Range(tasks) :
                  until' # NONE /\ (until' <= task[i].when \/ until' = now) ]_vars

(* Every task that is posted is called in the end, in its time, because it *)
(* was cancelled, or because the timer is killed.                          *)
AllCalled == <>[](\A i \in DOMAIN task : calls[i] > 0)
=============================================================================
