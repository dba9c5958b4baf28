---------------------------- MODULE SchedulerProofs ----------------------------
(***************************************************************************)
(* Theorems about the scheduler, for any number of coroutines, processes,  *)
(* locks and calls.                                                        *)
(***************************************************************************)
EXTENDS Scheduler, SequenceFacts, FiniteSetTheorems

(* The run loop: between the rounds nobody runs, and events are handled in *)
(* the round in which poller:wait has returned them, each once.  Whoever   *)
(* runs is on the stack.                                                   *)
LoopInv ==
    /\ why # "error"
    /\ IsInjective(stack)
    /\ \A c \in Cos : c \in ToSet(stack) <=> co[c].at \in {"running", "retry"}
    /\ loop \in {"top", "wait", "ended"} => stack = <<>>
    /\ loop # "events" => batch = <<>>
    /\ IsInjective(batch)

(* The calls of a coroutine: who is woken up in co_lock is alone on the    *)
(* processor and finds the lock free.                                      *)
CallInv ==
    \A c \in Cos :
        /\ co[c].at \in {"proc", "sleep", "lock"} => co[c].n <= MaxCalls
        /\ co[c].at = "retry" =>
              stack = <<c>> /\ locked[co[c].on] = NONE /\ co[c].n <= MaxCalls
        /\ timer_task[c] # NONE => timer_task[c] <= co[c].n

(* The tasks of the timer are of calls that were made, only timeouts are   *)
(* ever cancelled, and one that is not is the one in co._TIMER_TASK.       *)
TaskInv ==
    \A t \in tasks :
        /\ t.n <= co[t.co].n
        /\ t.cancel => t.kind = "proc"
        /\ t.n = timer_task[t.co] => t.kind = "proc"
        /\ t.kind = "proc" /\ ~t.cancel => t.n = timer_task[t.co]

(* A process is in the poller, and has its data there, as long as it is    *)
(* open.  A coroutine has one of them, and while an event for it is still  *)
(* to be handled it is not running, so it cannot close it.                 *)
ProcInv ==
    /\ \A p \in Procs : /\ pollerdata[p] = NONE <=> opened[p] = NONE
                        /\ p \in poller <=> opened[p] # NONE
                        /\ opened[p] # NONE => co[opened[p]].at \notin {"none", "ready"}
    /\ \A p, q \in Procs : opened[p] # NONE /\ opened[p] = opened[q] => p = q
    /\ \A c \in Cos : co[c].at = "proc" => co[c].on \in Procs /\ opened[co[c].on] = c
    /\ \A p \in ToSet(batch) : /\ opened[p] # NONE
                               /\ co[opened[p]].at \notin {"running", "retry"}

(* RightWakeup, field by field.                                            *)
WakeInv ==
    /\ \A p \in Procs : pollerdata[p] # NONE /\ pollerdata[p].co_waiting # NONE =>
          /\ co[pollerdata[p].co_waiting].at = "proc"
          /\ co[pollerdata[p].co_waiting].on = p
    /\ \A t \in tasks : ~t.cancel =>
          co[t.co].at = t.kind /\ co[t.co].on = t.on /\ co[t.co].n = t.n

Inv ==
    /\ TypeOK
    /\ LoopInv
    /\ CallInv
    /\ TaskInv
    /\ ProcInv
    /\ WakeInv
    /\ WaiterHasWaker
    /\ ExitNotLost

-----------------------------------------------------------------------------
LEMMA BatchOfProcs == TypeOK => ToSet(batch) \subseteq Procs
BY LenProperties DEF TypeOK, ToSet

(* the types of what the variables are made of                             *)
LEMMA Typing ==
    ASSUME TypeOK
    PROVE  /\ \A t \in tasks : t.co \in Cos /\ t.n \in Nat /\ t.kind \in {"proc", "sleep", "lock"}
           /\ \A p \in Procs : opened[p] \in Cos \cup {NONE}
           /\ \A p \in Procs : pollerdata[p] # NONE => pollerdata[p].co_waiting \in Cos \cup {NONE}
           /\ \A c \in Cos : co[c].n \in Nat
           /\ ToSet(batch) \subseteq Procs
           /\ NONE \notin Cos /\ NONE \notin Procs
BY BatchOfProcs, SchedulerAssumption DEF TypeOK

LEMMA InitInv == Init => Inv
<1> SUFFICES ASSUME Init PROVE Inv
  OBVIOUS
<1>1. TypeOK
  BY EmptySequence, SchedulerAssumption DEF Init, TypeOK
<1>2. LoopInv
  BY EmptySequence, SchedulerAssumption DEF Init, LoopInv, ToSet, IsInjective
<1>3. CallInv /\ TaskInv
  BY SchedulerAssumption DEF Init, CallInv, TaskInv
<1>4. ProcInv
  BY EmptySequence, SchedulerAssumption DEF Init, ProcInv
<1>5. WakeInv /\ WaiterHasWaker /\ ExitNotLost
  BY SchedulerAssumption DEF Init, WakeInv, WaiterHasWaker, ExitNotLost
<1> QED BY <1>1, <1>2, <1>3, <1>4, <1>5 DEF Inv

(* what a coroutine can be doing                                           *)
CoState == [at : {"none", "ready", "running", "proc", "sleep", "lock", "retry",
                  "returned", "raised"},
            on : Procs \cup Locks \cup {NONE}, n : 0..(MaxCalls + 1)]

LEMMA StateEqual ==
    ASSUME NEW r \in CoState, NEW a, NEW o, NEW k
    PROVE  r = [at |-> a, on |-> o, n |-> k] <=> r.at = a /\ r.on = o /\ r.n = k
BY DEF CoState

LEMMA StateChanges ==
    ASSUME TypeOK, NEW c \in Cos, NEW a, co' = [co EXCEPT ![c].at = a],
           a \in {"none", "ready", "running", "proc", "sleep", "lock", "retry",
                  "returned", "raised"}
    PROVE  /\ co' \in [Cos -> CoState]
           /\ co'[c].at = a /\ co'[c].on = co[c].on /\ co'[c].n = co[c].n
           /\ \A d \in Cos : d # c => co'[d] = co[d]
BY DEF TypeOK, CoState

(* A coroutine that was not suspended changes and is not suspended after   *)
(* the step: what the others wait for stays as it is.                      *)
LEMMA SoloStep ==
    ASSUME Inv, NEW d \in Cos,
           co' \in [Cos -> CoState],
           \A e \in Cos : e # d => co'[e] = co[e],
           ~Suspended(d), ~Suspended(d)', co'[d].n >= co[d].n,
           co[d].at \notin {"none", "ready"} => co'[d].at \notin {"none", "ready"},
           co'[d].at \in {"running", "retry"} => co[d].at \in {"running", "retry", "none"},
           UNCHANGED <<tasks, timer_task, procVars>>,
           batch' = batch \/ (~started' /\ batch' = <<>>),
           started' => started,
           loop' # loop => loop' \in {"kill", "ended"}, batch' # batch => loop' \in {"kill", "ended"},
           loop \in {"kill", "ended"} => loop' \in {"kill", "ended"}
    PROVE  TaskInv' /\ ProcInv' /\ WakeInv' /\ WaiterHasWaker' /\ ExitNotLost'
<1> USE DEF procVars, Suspended
<1>1. TaskInv'
  <2> SUFFICES ASSUME NEW t \in tasks PROVE t.n <= co'[t.co].n
    BY DEF Inv, TaskInv
  <2>1. t.n \in Nat /\ t.co \in Cos /\ co[t.co].n \in Nat /\ co'[t.co].n \in Nat
    BY SchedulerAssumption DEF Inv, TypeOK, CoState
  <2>2. t.n <= co[t.co].n
    BY DEF Inv, TaskInv
  <2> QED BY <2>1, <2>2
<1>2. ProcInv'
  <2>1. ToSet(batch') \subseteq ToSet(batch)
    BY EmptySequence
  <2>2. \A p \in Procs : opened[p] # NONE =>
           /\ co'[opened[p]].at \notin {"none", "ready"}
           /\ p \in ToSet(batch') => co'[opened[p]].at \notin {"running", "retry"}
    BY <2>1, Typing DEF Inv, ProcInv
  <2>3. \A e \in Cos : co'[e].at = "proc" => co[e].at = "proc" /\ co'[e].on = co[e].on
    OBVIOUS
  <2> QED BY <2>1, <2>2, <2>3, Typing DEF Inv, ProcInv
<1>3. WakeInv'
  BY Typing DEF Inv, WakeInv
<1>4. WaiterHasWaker'
  <2> SUFFICES ASSUME loop' \notin {"kill", "ended"}, NEW e \in Cos, Suspended(e)'
               PROVE  e # d /\ loop' = loop /\ batch' = batch
    BY DEF Inv, WaiterHasWaker
  <2> QED OBVIOUS
<1>5. ExitNotLost'
  BY DEF Inv, ExitNotLost, Pending
<1> QED BY <1>1, <1>2, <1>3, <1>4, <1>5

LEMMA CoStartInv ==
    ASSUME Inv, NEW c \in Cos, NEW d \in Cos, CoStart(c, d)
    PROVE  Inv'
<1> USE DEF CoStart, Acts, Runs, loopVars, procVars
<1>0. /\ co' \in [Cos -> CoState]
      /\ co'[d].at \in {"running", "ready"} /\ co'[d].on = co[d].on /\ co'[d].n = co[d].n
      /\ \A e \in Cos : e # d => co'[e] = co[e]
  BY StateChanges DEF Inv
<1>1. TypeOK'
  BY <1>0, AppendProperties DEF Inv, TypeOK, CoState
<1>2. LoopInv'
  <2>1. started => stack' = Append(stack, d) /\ d \notin ToSet(stack)
    BY DEF Inv, LoopInv
  <2>2. started => ToSet(stack') = ToSet(stack) \cup {d} /\ IsInjective(stack')
    BY <2>1, ToSetAppend, InjectiveAppend DEF Inv, TypeOK, LoopInv
  <2>3. ~started => stack' = stack /\ co'[d].at = "ready"
    BY StateChanges DEF Inv
  <2>4. started => co'[d].at = "running"
    BY StateChanges DEF Inv
  <2>5. stack # <<>>
    OBVIOUS
  <2> QED BY <1>0, <2>1, <2>2, <2>3, <2>4, <2>5 DEF Inv, LoopInv
<1>3. CallInv'
  BY <1>0 DEF Inv, CallInv, Last
<1>4. TaskInv' /\ ProcInv' /\ WakeInv' /\ WaiterHasWaker' /\ ExitNotLost'
  <2>1. co'[d].n >= co[d].n
    BY <1>0, SchedulerAssumption DEF CoState
  <2>2. ~Suspended(d) /\ ~Suspended(d)'
    BY <1>0 DEF Suspended
  <2> QED BY <1>0, <2>1, <2>2, SoloStep
<1> QED BY <1>1, <1>2, <1>3, <1>4 DEF Inv
(* a coroutine leaves the processor                                        *)
LEMMA LeaveStack ==
    ASSUME Inv, NEW c \in Cos, Runs(c), stack' = Front(stack),
           co'[c].at \notin {"running", "retry"}, \A d \in Cos : d # c => co'[d] = co[d]
    PROVE  /\ stack' \in Seq(Cos) /\ IsInjective(stack')
           /\ \A d \in Cos : d \in ToSet(stack') <=> co'[d].at \in {"running", "retry"}
           /\ Len(stack) = 1 => stack' = <<>>
           /\ \A d \in Cos : co'[d].at # "retry"
<1>1. stack \in Seq(Cos) /\ stack # <<>> /\ IsInjective(stack) /\ Last(stack) = c
  BY DEF Inv, TypeOK, LoopInv, Runs
<1>2. /\ stack' \in Seq(Cos) /\ IsInjective(stack')
      /\ ToSet(stack') = ToSet(stack) \ {c}
      /\ Len(stack) = 1 => stack' = <<>>
  BY <1>1, FrontProperties
<1>3. \A d \in Cos : d # c => co[d].at # "retry"
  BY <1>1 DEF Inv, CallInv, Last
<1> QED BY <1>2, <1>3 DEF Inv, LoopInv

LEMMA ReturnInv ==
    ASSUME Inv, NEW c \in Cos, Return(c)
    PROVE  Inv'
<1> USE DEF Return, Acts, loopVars, procVars
<1>0. /\ co' \in [Cos -> CoState]
      /\ co'[c].at = "returned" /\ co'[c].on = co[c].on /\ co'[c].n = co[c].n
      /\ \A e \in Cos : e # c => co'[e] = co[e]
  BY StateChanges DEF Inv
<1>1. /\ stack' \in Seq(Cos) /\ IsInjective(stack')
      /\ \A d \in Cos : d \in ToSet(stack') <=> co'[d].at \in {"running", "retry"}
      /\ \A d \in Cos : co'[d].at # "retry"
  BY <1>0, LeaveStack
<1>2. TypeOK'
  BY <1>0, <1>1 DEF Inv, TypeOK, CoState
<1>3. LoopInv'
  BY <1>1 DEF Inv, LoopInv, Runs
<1>4. CallInv'
  BY <1>0, <1>1 DEF Inv, CallInv
<1>5. TaskInv' /\ ProcInv' /\ WakeInv' /\ WaiterHasWaker' /\ ExitNotLost'
  <2>1. co'[c].n >= co[c].n
    BY <1>0, SchedulerAssumption DEF CoState
  <2>2. ~Suspended(c) /\ ~Suspended(c)'
    BY <1>0 DEF Suspended
  <2> QED BY <1>0, <2>1, <2>2, SoloStep
<1> QED BY <1>2, <1>3, <1>4, <1>5 DEF Inv

LEMMA RaiseInv ==
    ASSUME Inv, NEW c \in Cos, Raise(c)
    PROVE  Inv'
<1> USE DEF Raise, Acts, loopVars, procVars
<1>0. /\ co' \in [Cos -> CoState]
      /\ co'[c].at = "raised" /\ co'[c].on = co[c].on /\ co'[c].n = co[c].n
      /\ \A e \in Cos : e # c => co'[e] = co[e]
  BY StateChanges DEF Inv
<1>1. /\ stack' \in Seq(Cos) /\ IsInjective(stack')
      /\ \A d \in Cos : d \in ToSet(stack') <=> co'[d].at \in {"running", "retry"}
      /\ Len(stack) = 1 => stack' = <<>>
      /\ \A d \in Cos : co'[d].at # "retry"
  BY <1>0, LeaveStack
<1>6. /\ started' \in BOOLEAN
      /\ started' => started
      /\ batch' = batch \/ (~started' /\ batch' = <<>>)
      /\ loop' = loop \/ loop' \in {"kill", "ended"}
      /\ batch' = batch \/ loop' \in {"kill", "ended"}
      /\ why' \in {why, "raised"}
      /\ loop \in {"kill", "ended"} => loop' = loop
  <2>1. CASE Len(stack) = 1 /\ loop = "start"
    <3>1. batch = <<>>
      BY <2>1 DEF Inv, LoopInv
    <3>2. started' = started
      BY <2>1 DEF Inv, TypeOK
    <3> QED BY <2>1, <3>1, <3>2 DEF Inv, TypeOK
  <2>2. CASE Len(stack) = 1 /\ loop \in {"events", "timer"}
    BY <2>2
  <2>3. CASE ~(Len(stack) = 1 /\ loop \in {"start", "events", "timer"})
    BY <2>3 DEF Inv, TypeOK
  <2> QED BY <2>1, <2>2, <2>3
<1>2. TypeOK'
  <2>1. UNCHANGED <<procVars, tasks, timer_task, locked>>
    OBVIOUS
  <2> HIDE DEF Raise
  <2> QED BY <1>0, <1>1, <1>6, <2>1, EmptySequence DEF Inv, TypeOK, CoState
<1>3. LoopInv'
  BY <1>1, EmptySequence DEF Inv, LoopInv, Runs
<1>4. CallInv'
  BY <1>0, <1>1 DEF Inv, CallInv
<1>5. TaskInv' /\ ProcInv' /\ WakeInv' /\ WaiterHasWaker' /\ ExitNotLost'
  <2>1. co'[c].n >= co[c].n
    BY <1>0, SchedulerAssumption DEF CoState
  <2>2. ~Suspended(c) /\ ~Suspended(c)'
    BY <1>0 DEF Suspended
  <2>3. UNCHANGED <<tasks, timer_task, procVars>>
    OBVIOUS
  <2> QED BY <1>0, <1>6, <2>1, <2>2, <2>3, SoloStep
<1> QED BY <1>2, <1>3, <1>4, <1>5 DEF Inv
(* a coroutine begins to wait, or goes on from its call                    *)
LEMMA CallChanges ==
    ASSUME TypeOK, NEW c \in Cos, NEW a, NEW o, co[c].n <= MaxCalls,
           a \in {"running", "proc", "sleep", "lock"}, o \in Procs \cup Locks \cup {NONE},
           co' = [co EXCEPT ![c] = [at |-> a, on |-> o, n |-> @.n + 1]]
    PROVE  /\ co' \in [Cos -> CoState]
           /\ co'[c].at = a /\ co'[c].on = o /\ co'[c].n = co[c].n + 1
           /\ \A d \in Cos : d # c => co'[d] = co[d]
<1>1. co[c].n + 1 \in 0..(MaxCalls + 1)
  BY SchedulerAssumption DEF TypeOK
<1> QED BY <1>1 DEF TypeOK, CoState

(* co_sleep, and co_lock when the lock is taken                            *)
LEMMA PostAndSuspend ==
    ASSUME Inv, NEW c \in Cos, NEW kind \in {"sleep", "lock"},
           NEW on \in Procs \cup Locks \cup {NONE},
           Acts(c), co[c].n < MaxCalls,
           tasks' = tasks \cup {Task(c, kind, on)},
           Suspend(c, kind, on),
           UNCHANGED <<loopVars, procVars, timer_task, locked>>
    PROVE  Inv'
<1> USE DEF loopVars, procVars
<1> DEFINE t0 == Task(c, kind, on)
<1>a. co[c].n \in Nat /\ MaxCalls \in Nat
  BY Typing, SchedulerAssumption DEF Inv
<1>0. /\ co' \in [Cos -> CoState]
      /\ co'[c].at = kind /\ co'[c].on = on /\ co'[c].n = co[c].n + 1
      /\ \A e \in Cos : e # c => co'[e] = co[e]
  <2>1. co[c].n <= MaxCalls
    BY <1>a
  <2> QED BY <2>1, CallChanges DEF Inv, Suspend
<1>1. /\ stack' \in Seq(Cos) /\ IsInjective(stack')
      /\ \A d \in Cos : d \in ToSet(stack') <=> co'[d].at \in {"running", "retry"}
      /\ \A d \in Cos : co'[d].at # "retry"
  BY <1>0, LeaveStack DEF Acts, Suspend
<1>2. /\ t0.co = c /\ t0.n = co[c].n + 1 /\ t0.kind = kind /\ t0.on = on /\ ~t0.cancel
      /\ t0 \in [co : Cos, n : 1..(MaxCalls + 1), kind : {"proc", "sleep", "lock"},
                 on : Procs \cup Locks \cup {NONE}, cancel : BOOLEAN]
  BY <1>a DEF Task
<1> HIDE DEF t0
<1>b. tasks' = tasks \cup {t0}
  BY DEF t0
<1>3. TypeOK'
  BY <1>0, <1>1, <1>2, <1>b DEF Inv, TypeOK, CoState
<1>4. LoopInv'
  BY <1>1 DEF Inv, LoopInv, Acts, Runs
<1>5. CallInv'
  <2>1. co'[c].n <= MaxCalls
    BY <1>a, <1>0
  <2>2. timer_task[c] # NONE => timer_task[c] \in Nat /\ timer_task[c] <= co'[c].n
    BY <1>a, <1>0 DEF Inv, CallInv, TypeOK
  <2> QED BY <1>0, <1>1, <2>1, <2>2 DEF Inv, CallInv
<1>6. TaskInv'
  <2>1. ASSUME NEW t \in tasks PROVE t.n <= co'[t.co].n
    <3>1. t.n \in Nat /\ t.co \in Cos /\ t.n <= co[t.co].n
      BY Typing DEF Inv, TaskInv
    <3> QED BY <1>0, <1>a, <3>1
  <2>2. t0.n # timer_task[c]
    <3>1. timer_task[c] # NONE => timer_task[c] \in Nat /\ timer_task[c] <= co[c].n
      BY <1>a DEF Inv, CallInv, TypeOK
    <3>2. t0.n \in 0..MaxCalls
      BY <1>a, <1>2
    <3> QED BY <1>2, <1>a, <3>1, <3>2, SchedulerAssumption
  <2>3. t0.n <= co'[t0.co].n
    BY <1>0, <1>2, <1>a
  <2> QED BY <1>2, <1>b, <2>1, <2>2, <2>3 DEF Inv, TaskInv
<1>7. ProcInv'
  BY <1>0, Typing DEF Inv, ProcInv, Acts
<1>8. WakeInv'
  BY <1>0, <1>2, <1>b, Typing DEF Inv, WakeInv, Acts
<1>9. WaiterHasWaker'
  <2> SUFFICES ASSUME loop \notin {"kill", "ended"}, NEW d \in Cos
               PROVE  /\ co'[d].at \in {"sleep", "lock"} =>
                            \E t \in tasks' : /\ t.co = d /\ t.n = co'[d].n
                                              /\ t.on = co'[d].on /\ ~t.cancel
                      /\ co'[d].at = "proc" => LET p == co'[d].on IN
                            /\ pollerdata[p] # NONE /\ pollerdata[p].co_waiting = d
                            /\ p \in poller
                            /\ p \in fired => p \in ToSet(batch)
    BY DEF WaiterHasWaker
  <2>1. CASE d = c
    BY <1>0, <1>2, <1>b, <2>1
  <2>2. CASE d # c
    BY <1>0, <1>b, <2>2 DEF Inv, WaiterHasWaker
  <2> QED BY <2>1, <2>2
<1>10. ExitNotLost'
  BY DEF Inv, ExitNotLost, Pending
<1> QED BY <1>3, <1>4, <1>5, <1>6, <1>7, <1>8, <1>9, <1>10 DEF Inv
LEMMA LockInv ==
    ASSUME Inv, NEW c \in Cos, NEW l \in Locks, Lock(c, l)
    PROVE  Inv'
<1> USE DEF loopVars, procVars
<1>a. co[c].n \in Nat /\ MaxCalls \in Nat
  BY Typing, SchedulerAssumption DEF Inv
<1>b. Runs(c) /\ co[c].at \in {"running", "retry"} /\ co[c].n <= MaxCalls
  BY <1>a DEF Lock, Acts, Inv, CallInv
<1>1. CASE locked[l] \in {NONE, c}
  <2>1. /\ locked' = [locked EXCEPT ![l] = c]
        /\ co' = [co EXCEPT ![c] = [at |-> "running", on |-> NONE, n |-> @.n + 1]]
        /\ UNCHANGED <<loopVars, procVars, timer_task, tasks, stack>>
    BY <1>1 DEF Lock
  <2>2. /\ co' \in [Cos -> CoState]
        /\ co'[c].at = "running" /\ co'[c].on = NONE /\ co'[c].n = co[c].n + 1
        /\ \A e \in Cos : e # c => co'[e] = co[e]
    BY <2>1, <1>b, CallChanges DEF Inv
  <2>3. TypeOK'
    BY <2>1, <2>2 DEF Inv, TypeOK, CoState
  <2>4. LoopInv'
    BY <2>1, <2>2, <1>b DEF Inv, LoopInv
  <2>5. CallInv'
    <3>1. \A d \in Cos : co'[d].at # "retry"
      BY <1>b, <2>2 DEF Inv, CallInv, Runs, Last
    <3>2. timer_task[c] # NONE => timer_task[c] \in Nat /\ timer_task[c] <= co'[c].n
      BY <1>a, <2>2 DEF Inv, CallInv, TypeOK
    <3> QED BY <2>1, <2>2, <3>1, <3>2 DEF Inv, CallInv
  <2>6. TaskInv' /\ ProcInv' /\ WakeInv' /\ WaiterHasWaker' /\ ExitNotLost'
    <3>1. co'[c].n >= co[c].n
      BY <2>2, <1>a
    <3>2. ~Suspended(c) /\ ~Suspended(c)'
      BY <2>2, <1>b DEF Suspended
    <3> QED BY <1>b, <2>1, <2>2, <3>1, <3>2, SoloStep
  <2> QED BY <2>3, <2>4, <2>5, <2>6 DEF Inv
<1>2. CASE locked[l] \notin {NONE, c}
  <2>1. Acts(c) /\ co[c].n < MaxCalls
    BY <1>2 DEF Lock, Inv, CallInv
  <2> QED BY <1>2, <2>1, PostAndSuspend DEF Lock
<1> QED BY <1>1, <1>2

LEMMA UnlockStopInv ==
    ASSUME Inv, NEW c \in Cos, (\E l \in Locks : Unlock(c, l)) \/ Stop(c)
    PROVE  Inv'
<1> USE DEF loopVars, procVars
<1>0. Acts(c) /\ UNCHANGED <<loop, why, batch, procVars, stack, co, tasks, timer_task>>
  BY DEF Unlock, Stop
<1>1. started' \in BOOLEAN /\ (started' => started)
  BY DEF Unlock, Stop, Inv, TypeOK
<1>2. locked' \in [Locks -> Cos \cup {NONE}]
  BY DEF Unlock, Stop, Inv, TypeOK
<1>3. TypeOK'
  BY <1>0, <1>1, <1>2 DEF Inv, TypeOK
<1>4. LoopInv' /\ TaskInv' /\ ProcInv' /\ WakeInv'
  BY <1>0 DEF Inv, LoopInv, TaskInv, ProcInv, WakeInv
<1>5. CallInv'
  <2>1. \A d \in Cos : co[d].at # "retry"
    BY <1>0 DEF Inv, CallInv, Acts, Runs, Last
  <2> QED BY <1>0, <2>1 DEF Inv, CallInv
<1>6. WaiterHasWaker'
  BY <1>0 DEF Inv, WaiterHasWaker
<1>7. ExitNotLost'
  BY <1>0, <1>1 DEF Inv, ExitNotLost, Pending
<1> QED BY <1>3, <1>4, <1>5, <1>6, <1>7 DEF Inv

(* a field of a process's data changes                                     *)
ProcData == [pending : BOOLEAN, co_waiting : Cos \cup {NONE}]

LEMMA DataChanges ==
    ASSUME TypeOK, NEW p \in Procs, pollerdata[p] # NONE,
           \/ \E b \in BOOLEAN : pollerdata' = [pollerdata EXCEPT ![p].pending = b]
           \/ pollerdata' = [pollerdata EXCEPT ![p].co_waiting = NONE]
    PROVE  /\ pollerdata' \in [Procs -> ProcData \cup {NONE}]
           /\ pollerdata'[p] # NONE
           /\ pollerdata'[p].co_waiting \in {pollerdata[p].co_waiting, NONE}
           /\ \A q \in Procs : q # p => pollerdata'[q] = pollerdata[q]
<1>1. pollerdata \in [Procs -> ProcData \cup {NONE}] /\ pollerdata[p] \in ProcData
  BY DEF TypeOK, ProcData
<1>2. NONE \notin ProcData
  BY SchedulerAssumption DEF ProcData
<1>3. ASSUME NEW b \in BOOLEAN, pollerdata' = [pollerdata EXCEPT ![p].pending = b]
      PROVE  /\ pollerdata'[p] \in ProcData
             /\ pollerdata'[p].co_waiting = pollerdata[p].co_waiting
             /\ pollerdata' = [pollerdata EXCEPT ![p] = pollerdata'[p]]
  BY <1>1, <1>3 DEF ProcData
<1>4. ASSUME pollerdata' = [pollerdata EXCEPT ![p].co_waiting = NONE]
      PROVE  /\ pollerdata'[p] \in ProcData
             /\ pollerdata'[p].co_waiting = NONE
             /\ pollerdata' = [pollerdata EXCEPT ![p] = pollerdata'[p]]
  BY <1>1, <1>4 DEF ProcData
<1> QED BY <1>1, <1>2, <1>3, <1>4

(* object_pending is taken, the process is closed: nobody waits for it     *)
LEMMA WaitProcPendingInv ==
    ASSUME Inv, NEW c \in Cos, NEW p \in Procs, WaitProcPending(c, p)
    PROVE  Inv'
<1> USE DEF loopVars, procVars
<1>0. UNCHANGED <<loopVars, stack, co, tasks, timer_task, poller, exited, fired, opened, locked>>
  BY DEF WaitProcPending
<1>1. /\ pollerdata' \in [Procs -> [pending : BOOLEAN, co_waiting : Cos \cup {NONE}] \cup {NONE}]
      /\ got' = got \cup {p}
      /\ pollerdata'[p] # NONE /\ pollerdata[p] # NONE
      /\ pollerdata'[p].co_waiting = pollerdata[p].co_waiting
      /\ \A q \in Procs : q # p => pollerdata'[q] = pollerdata[q]
  <2>1. pollerdata[p] # NONE /\ pollerdata' = [pollerdata EXCEPT ![p].pending = FALSE]
    BY DEF WaitProcPending, Pending
  <2>2. pollerdata'[p].co_waiting = pollerdata[p].co_waiting
    BY <2>1, SchedulerAssumption DEF Inv, TypeOK
  <2> QED BY <2>1, <2>2, DataChanges DEF Inv, WaitProcPending, ProcData
<1>2. TypeOK'
  BY <1>0, <1>1 DEF Inv, TypeOK
<1>3. LoopInv' /\ TaskInv' /\ CallInv'
  BY <1>0 DEF Inv, LoopInv, TaskInv, CallInv
<1>4. ProcInv'
  BY <1>0, <1>1 DEF Inv, ProcInv
<1>5. WakeInv'
  BY <1>0, <1>1 DEF Inv, WakeInv
<1>6. WaiterHasWaker'
  <2>1. \A d \in Cos : co[d].at = "proc" => co[d].on \in Procs
    BY DEF Inv, ProcInv
  <2> QED BY <1>0, <1>1, <2>1 DEF Inv, WaiterHasWaker
<1>7. ExitNotLost'
  BY <1>0, <1>1 DEF Inv, ExitNotLost, Pending, TypeOK
<1> QED BY <1>2, <1>3, <1>4, <1>5, <1>6, <1>7 DEF Inv

LEMMA CloseProcInv ==
    ASSUME Inv, NEW c \in Cos, NEW p \in Procs, CloseProc(c, p)
    PROVE  Inv'
<1> USE DEF loopVars, procVars
<1>0. /\ UNCHANGED <<loopVars, stack, co, tasks, timer_task, exited, fired, locked>>
      /\ Acts(c) /\ opened[p] = c
      /\ poller' = poller \ {p} /\ got' = got \cup {p}
  BY DEF CloseProc
<1>1. /\ pollerdata' \in [Procs -> [pending : BOOLEAN, co_waiting : Cos \cup {NONE}] \cup {NONE}]
      /\ opened' \in [Procs -> Cos \cup {NONE}]
      /\ pollerdata'[p] = NONE /\ opened'[p] = NONE
      /\ \A q \in Procs : q # p => pollerdata'[q] = pollerdata[q] /\ opened'[q] = opened[q]
  BY DEF CloseProc, Inv, TypeOK
<1>2. TypeOK'
  BY <1>0, <1>1 DEF Inv, TypeOK
<1>3. LoopInv' /\ TaskInv' /\ CallInv'
  BY <1>0 DEF Inv, LoopInv, TaskInv, CallInv
<1>4. \A d \in Cos : co[d].at = "proc" => co[d].on \in Procs \ {p}
  BY <1>0 DEF Inv, ProcInv, Acts
<1>5. p \notin ToSet(batch)
  BY <1>0 DEF Inv, ProcInv, Acts
<1>6. ProcInv'
  BY <1>0, <1>1, <1>4, <1>5, Typing DEF Inv, ProcInv
<1>7. WakeInv'
  BY <1>0, <1>1 DEF Inv, WakeInv
<1>8. WaiterHasWaker'
  BY <1>0, <1>1, <1>4 DEF Inv, WaiterHasWaker
<1>9. ExitNotLost'
  BY <1>0, <1>1 DEF Inv, ExitNotLost, Pending, TypeOK
<1> QED BY <1>2, <1>3, <1>6, <1>7, <1>8, <1>9 DEF Inv
(* poller_waitproc: the exit was not reported yet, or it is still in the   *)
(* batch, so the new waiter will hear of it                                *)
LEMMA WaitProcInv ==
    ASSUME Inv, NEW c \in Cos, NEW p \in Procs, NEW timeout \in Timeouts, WaitProc(c, p, timeout)
    PROVE  Inv'
<1> USE DEF loopVars, procVars
<1> DEFINE t0 == Task(c, "proc", p)
<1>a. co[c].n \in Nat /\ MaxCalls \in Nat /\ co[c].n < MaxCalls /\ timeout \in BOOLEAN
  BY Typing, SchedulerAssumption DEF Inv, WaitProc
<1>b. /\ UNCHANGED <<loopVars, exited, fired, got, locked>>
      /\ Acts(c) /\ started /\ p \notin got /\ ~Pending(p)
      /\ poller' = poller \cup {p}
      /\ opened[p] = c \/ (p \notin exited /\ opened[p] = NONE /\ \A q \in Procs : opened[q] # c)
      /\ tasks' = IF timeout THEN tasks \cup {t0} ELSE tasks
  BY DEF WaitProc, CanWait
<1>0. /\ co' \in [Cos -> CoState]
      /\ co'[c].at = "proc" /\ co'[c].on = p /\ co'[c].n = co[c].n + 1
      /\ \A e \in Cos : e # c => co'[e] = co[e]
  <2>1. co[c].n <= MaxCalls
    BY <1>a
  <2> QED BY <2>1, CallChanges DEF Inv, Suspend, WaitProc
<1>1. /\ stack' \in Seq(Cos) /\ IsInjective(stack')
      /\ \A d \in Cos : d \in ToSet(stack') <=> co'[d].at \in {"running", "retry"}
      /\ \A d \in Cos : co'[d].at # "retry"
  BY <1>0, LeaveStack DEF Acts, Suspend, WaitProc
<1>2. /\ t0.co = c /\ t0.n = co[c].n + 1 /\ t0.kind = "proc" /\ t0.on = p /\ ~t0.cancel
      /\ t0 \in [co : Cos, n : 1..(MaxCalls + 1), kind : {"proc", "sleep", "lock"},
                 on : Procs \cup Locks \cup {NONE}, cancel : BOOLEAN]
  BY <1>a DEF Task
<1> HIDE DEF t0
<1>3. /\ pollerdata' \in [Procs -> [pending : BOOLEAN, co_waiting : Cos \cup {NONE}] \cup {NONE}]
      /\ opened' \in [Procs -> Cos \cup {NONE}]
      /\ pollerdata'[p] = [pending |-> FALSE, co_waiting |-> c] /\ opened'[p] = c
      /\ pollerdata'[p] # NONE /\ pollerdata'[p].co_waiting = c
      /\ \A q \in Procs : q # p => pollerdata'[q] = pollerdata[q] /\ opened'[q] = opened[q]
  <2>1. [pending |-> FALSE, co_waiting |-> c] \in [pending : BOOLEAN, co_waiting : Cos \cup {NONE}]
    OBVIOUS
  <2> QED BY <2>1, SchedulerAssumption DEF WaitProc, Inv, TypeOK
<1>4. /\ timer_task' \in [Cos -> 1..MaxCalls \cup {NONE}]
      /\ timer_task'[c] = IF timeout THEN co[c].n + 1 ELSE NONE
      /\ \A d \in Cos : d # c => timer_task'[d] = timer_task[d]
  <2>1. co[c].n + 1 \in 1..MaxCalls
    BY <1>a
  <2> QED BY <2>1 DEF WaitProc, Inv, TypeOK
<1>5. TypeOK'
  BY <1>0, <1>1, <1>2, <1>3, <1>4, <1>b, <1>a DEF Inv, TypeOK, CoState
<1>6. LoopInv'
  BY <1>1, <1>b DEF Inv, LoopInv, Acts, Runs
<1>7. CallInv'
  <2>1. co'[c].n <= MaxCalls /\ (timer_task'[c] # NONE => timer_task'[c] <= co'[c].n)
    BY <1>a, <1>0, <1>4
  <2> QED BY <1>0, <1>1, <1>4, <2>1 DEF Inv, CallInv
<1>8. TaskInv'
  <2>1. ASSUME NEW t \in tasks
        PROVE  /\ t.n <= co'[t.co].n
               /\ t.n = timer_task'[t.co] => t.kind = "proc"
               /\ t.kind = "proc" /\ ~t.cancel => t.n = timer_task'[t.co]
    <3>1. t.n \in Nat /\ t.co \in Cos /\ t.n <= co[t.co].n
      BY Typing DEF Inv, TaskInv
    <3>2. CASE t.co = c
      <4>1. t.n \in 0..MaxCalls /\ t.n # co[c].n + 1 /\ t.n <= co[c].n + 1
        BY <1>a, <3>1, <3>2
      <4>2. t.n # timer_task'[c]
        BY <4>1, <1>4, <1>a, SchedulerAssumption
      <4>3. t.kind = "proc" => t.cancel
        BY <3>2, <1>b DEF Inv, WakeInv, Acts
      <4> QED BY <1>0, <3>2, <4>1, <4>2, <4>3
    <3>3. CASE t.co # c
      BY <1>0, <1>4, <3>1, <3>3 DEF Inv, TaskInv
    <3> QED BY <3>2, <3>3
  <2>2. t0.n <= co'[t0.co].n /\ (timeout => t0.n = timer_task'[t0.co])
    BY <1>0, <1>2, <1>4, <1>a
  <2>3. \A t \in tasks : t.cancel => t.kind = "proc"
    BY DEF Inv, TaskInv
  <2> QED BY <1>2, <1>b, <1>a, <2>1, <2>2, <2>3 DEF TaskInv
<1>9. \A d \in Cos : d # c /\ co[d].at = "proc" => co[d].on \in Procs \ {p}
  BY <1>b, Typing DEF Inv, ProcInv
<1>10. ProcInv'
  <2>1. \A q, r \in Procs : opened'[q] # NONE /\ opened'[q] = opened'[r] => q = r
    BY <1>3, <1>b, Typing DEF Inv, ProcInv
  <2>2. \A q \in Procs : opened'[q] # NONE =>
           /\ co'[opened'[q]].at \notin {"none", "ready"}
           /\ q \in ToSet(batch) => co'[opened'[q]].at \notin {"running", "retry"}
    BY <1>0, <1>3, Typing DEF Inv, ProcInv
  <2>3. \A d \in Cos : co'[d].at = "proc" => co'[d].on \in Procs /\ opened'[co'[d].on] = d
    BY <1>0, <1>3, <1>9 DEF Inv, ProcInv
  <2>4. \A q \in Procs : /\ pollerdata'[q] = NONE <=> opened'[q] = NONE
                         /\ q \in poller' <=> opened'[q] # NONE
    BY <1>3, <1>b, Typing DEF Inv, ProcInv
  <2>5. \A q \in ToSet(batch) : opened'[q] # NONE
    BY <1>3, Typing DEF Inv, ProcInv
  <2>6. batch' = batch /\ ToSet(batch) \subseteq Procs
    BY <1>b, Typing DEF Inv
  <2> QED BY <2>1, <2>2, <2>3, <2>4, <2>5, <2>6 DEF ProcInv
<1>11. WakeInv'
  <2>1. \A q \in Procs : pollerdata'[q] # NONE /\ pollerdata'[q].co_waiting # NONE =>
           /\ co'[pollerdata'[q].co_waiting].at = "proc"
           /\ co'[pollerdata'[q].co_waiting].on = q
    BY <1>0, <1>3, <1>b, Typing DEF Inv, WakeInv, Acts
  <2>2. \A t \in tasks' : ~t.cancel =>
           co'[t.co].at = t.kind /\ co'[t.co].on = t.on /\ co'[t.co].n = t.n
    BY <1>0, <1>2, <1>b, Typing DEF Inv, WakeInv, Acts
  <2> QED BY <2>1, <2>2 DEF WakeInv
<1>12. p \in fired => p \in ToSet(batch)
  BY <1>b, Typing DEF Inv, ExitNotLost, TypeOK
<1>13. WaiterHasWaker'
  <2> SUFFICES ASSUME loop \notin {"kill", "ended"}, NEW d \in Cos
               PROVE  /\ co'[d].at \in {"sleep", "lock"} =>
                            \E t \in tasks' : /\ t.co = d /\ t.n = co'[d].n
                                              /\ t.on = co'[d].on /\ ~t.cancel
                      /\ co'[d].at = "proc" => LET q == co'[d].on IN
                            /\ pollerdata'[q] # NONE /\ pollerdata'[q].co_waiting = d
                            /\ q \in poller'
                            /\ q \in fired => q \in ToSet(batch)
    BY <1>b DEF WaiterHasWaker
  <2>1. CASE d = c
    BY <1>0, <1>3, <1>b, <1>12, <2>1
  <2>2. CASE d # c
    <3>1. co'[d] = co[d] /\ \A t \in tasks : t \in tasks'
      BY <1>0, <1>b, <2>2
    <3>2. co[d].at = "proc" => co[d].on \in Procs \ {p} /\ co[d].on \in poller'
      BY <1>9, <1>b, <2>2 DEF Inv, WaiterHasWaker
    <3>3. co[d].at = "proc" => pollerdata'[co[d].on] = pollerdata[co[d].on]
      BY <1>3, <3>2
    <3>4. co[d].at \in {"sleep", "lock"} =>
             \E t \in tasks : t.co = d /\ t.n = co[d].n /\ t.on = co[d].on /\ ~t.cancel
      BY DEF Inv, WaiterHasWaker
    <3>5. co[d].at = "proc" => /\ pollerdata[co[d].on] # NONE
                               /\ pollerdata[co[d].on].co_waiting = d
                               /\ co[d].on \in fired => co[d].on \in ToSet(batch)
      BY DEF Inv, WaiterHasWaker
    <3> QED BY <3>1, <3>2, <3>3, <3>4, <3>5
  <2> QED BY <2>1, <2>2
<1>14. ExitNotLost'
  BY <1>3, <1>b, <1>12 DEF Inv, ExitNotLost, Pending, TypeOK
<1> QED BY <1>5, <1>6, <1>7, <1>8, <1>10, <1>11, <1>13, <1>14 DEF Inv
-----------------------------------------------------------------------------
(* The run loop.                                                           *)

(* the loop goes on to its next part, or is left, with no event in hand    *)
LEMMA LoopMovesInv ==
    ASSUME Inv, LoopTop \/ EventsDone \/ TimerDone \/ KillDone
    PROVE  Inv'
<1> USE DEF loopVars, procVars, Idle
<1>1. /\ UNCHANGED <<procVars, stack, co, tasks, timer_task, locked>>
      /\ stack = <<>> /\ batch = <<>>
  BY DEF LoopTop, EventsDone, TimerDone, KillDone, Inv, LoopInv
<1>2. /\ started' \in BOOLEAN
      /\ started' => started
      /\ loop' \in {"start", "top", "wait", "events", "timer", "kill", "ended"}
      /\ loop \in {"kill", "ended"} => loop' \in {"kill", "ended"}
      /\ why' \in {why, "done", "stopped"}
      /\ batch' = <<>>
  <2>1. CASE LoopTop /\ started /\ Alive # {}
    BY <1>1, <2>1 DEF LoopTop, Inv, TypeOK
  <2>2. CASE LoopTop /\ ~(started /\ Alive # {})
    BY <1>1, <2>2 DEF LoopTop, BreakLoop
  <2>3. CASE EventsDone \/ TimerDone \/ KillDone
    BY <1>1, <2>3 DEF EventsDone, TimerDone, KillDone, Inv, TypeOK
  <2> QED BY <2>1, <2>2, <2>3
<1>3. TypeOK'
  BY <1>1, <1>2, EmptySequence DEF Inv, TypeOK
<1>4. LoopInv'
  BY <1>1, <1>2 DEF Inv, LoopInv
<1>5. CallInv' /\ TaskInv' /\ WakeInv' /\ ProcInv'
  BY <1>1, <1>2 DEF Inv, CallInv, TaskInv, WakeInv, ProcInv
<1>6. WaiterHasWaker'
  BY <1>1, <1>2 DEF Inv, WaiterHasWaker
<1>7. ExitNotLost'
  BY <1>1, <1>2 DEF Inv, ExitNotLost, Pending
<1> QED BY <1>3, <1>4, <1>5, <1>6, <1>7 DEF Inv

LEMMA WaitInv ==
    ASSUME Inv, NEW n \in Nat, NEW events \in [1..n -> Procs], Wait(events)
    PROVE  Inv'
<1> USE DEF procVars
<1>1. /\ UNCHANGED <<started, why, pollerdata, poller, exited, opened, got, stack, co, tasks,
                     timer_task, locked>>
      /\ ToSet(events) \subseteq (poller \cap exited) \ fired
      /\ batch' = events /\ fired' = fired \cup ToSet(events) /\ loop' = "events" /\ loop = "wait"
      /\ IsInjective(events)
  BY DEF Wait
<1>2. stack = <<>> /\ batch = <<>> /\ ToSet(stack) = {} /\ ToSet(batch) = {}
  BY <1>1, EmptySequence DEF Inv, LoopInv
<1>3. TypeOK'
  <2>1. events \in Seq(Procs)
    OBVIOUS
  <2> QED BY <1>1, <2>1 DEF Inv, TypeOK
<1>4. LoopInv'
  BY <1>1 DEF Inv, LoopInv
<1>5. CallInv' /\ TaskInv' /\ WakeInv'
  BY <1>1 DEF Inv, CallInv, TaskInv, WakeInv
<1>6. ProcInv'
  <2>1. \A d \in Cos : co[d].at \notin {"running", "retry"}
    BY <1>2 DEF Inv, LoopInv
  <2>2. \A p \in ToSet(events) : p \in Procs /\ opened[p] # NONE /\ opened[p] \in Cos
    BY <1>1, Typing DEF Inv, ProcInv, TypeOK
  <2> QED BY <1>1, <2>1, <2>2 DEF Inv, ProcInv
<1>7. WaiterHasWaker'
  BY <1>1, <1>2 DEF Inv, WaiterHasWaker
<1>8. ExitNotLost'
  BY <1>1, <1>2 DEF Inv, ExitNotLost, Pending
<1> QED BY <1>3, <1>4, <1>5, <1>6, <1>7, <1>8 DEF Inv

LEMMA ExitInv ==
    ASSUME Inv, NEW p \in Procs, Exit(p)
    PROVE  Inv'
<1> USE DEF Exit, loopVars
<1>1. TypeOK'
  BY DEF Inv, TypeOK
<1>2. LoopInv' /\ CallInv' /\ TaskInv' /\ WakeInv' /\ ProcInv'
  BY DEF Inv, LoopInv, CallInv, TaskInv, WakeInv, ProcInv
<1>3. WaiterHasWaker' /\ ExitNotLost'
  BY DEF Inv, WaiterHasWaker, ExitNotLost, Pending
<1> QED BY <1>1, <1>2, <1>3 DEF Inv
(* a suspended coroutine is resumed by the loop                            *)
LEMMA ResumeChanges ==
    ASSUME Inv, NEW c \in Cos, Suspended(c), stack = <<>>, co' = Resumed(c), stack' = <<c>>
    PROVE  /\ co' \in [Cos -> CoState]
           /\ co'[c].at = (IF co[c].at = "lock" THEN "retry" ELSE "running")
           /\ co'[c].on = co[c].on /\ co'[c].n = co[c].n
           /\ \A d \in Cos : d # c => co'[d] = co[d]
           /\ \A d \in Cos : co[d].at \notin {"running", "retry"}
           /\ stack' \in Seq(Cos) /\ IsInjective(stack')
           /\ \A d \in Cos : d \in ToSet(stack') <=> co'[d].at \in {"running", "retry"}
<1>1. co' = [co EXCEPT ![c].at = IF co[c].at = "lock" THEN "retry" ELSE "running"]
  BY DEF Resumed, Inv, TypeOK
<1>2. /\ co' \in [Cos -> CoState]
      /\ co'[c].at = (IF co[c].at = "lock" THEN "retry" ELSE "running")
      /\ co'[c].on = co[c].on /\ co'[c].n = co[c].n
      /\ \A d \in Cos : d # c => co'[d] = co[d]
  BY <1>1, StateChanges DEF Inv
<1>3. \A d \in Cos : co[d].at \notin {"running", "retry"}
  BY EmptySequence DEF Inv, LoopInv
<1>4. stack' \in Seq(Cos) /\ IsInjective(stack') /\ ToSet(stack') = {c}
  BY DEF IsInjective, ToSet
<1> QED BY <1>2, <1>3, <1>4

(* _poller_events_cb                                                       *)
LEMMA EventInv ==
    ASSUME Inv, NEW p \in Procs, Event(p)
    PROVE  Inv'
<1> USE DEF loopVars, procVars
<1>a. /\ UNCHANGED <<poller, exited, fired, opened, timer_task, locked>>
      /\ loop = "events" /\ stack = <<>> /\ batch # <<>> /\ Head(batch) = p
  BY DEF Event, Idle
<1>b. /\ Tail(batch) \in Seq(Procs) /\ IsInjective(Tail(batch)) /\ p \in ToSet(batch)
      /\ ToSet(Tail(batch)) = ToSet(batch) \ {p}
  BY <1>a, TailProperties DEF Inv, TypeOK, LoopInv
<1>c. pollerdata[p] # NONE /\ opened[p] # NONE
  BY <1>b DEF Inv, ProcInv
<1>1. CASE pollerdata[p].co_waiting = NONE
  <2>1. /\ pollerdata' = [pollerdata EXCEPT ![p].pending = TRUE]
        /\ batch' = Tail(batch)
        /\ UNCHANGED <<started, loop, why, stack, co, tasks, got>>
    BY <1>1, <1>c DEF Event
  <2>2. /\ pollerdata' \in [Procs -> ProcData \cup {NONE}]
        /\ pollerdata'[p] # NONE
        /\ pollerdata'[p].co_waiting = NONE
        /\ \A q \in Procs : q # p => pollerdata'[q] = pollerdata[q]
    BY <2>1, <1>1, <1>c, DataChanges DEF Inv
  <2>3. pollerdata'[p].pending
    BY <2>1, <1>c DEF Inv, TypeOK
  <2>4. TypeOK'
    BY <2>1, <2>2, <1>a, <1>b DEF Inv, TypeOK, ProcData
  <2>5. LoopInv' /\ CallInv' /\ TaskInv'
    BY <2>1, <1>a, <1>b DEF Inv, LoopInv, CallInv, TaskInv
  <2>6. ProcInv'
    BY <2>1, <2>2, <1>a, <1>b, <1>c DEF Inv, ProcInv
  <2>7. WakeInv'
    BY <2>1, <2>2 DEF Inv, WakeInv
  <2>8. WaiterHasWaker'
    <3>1. \A d \in Cos : co[d].at = "proc" => co[d].on \in Procs \ {p}
      BY <1>1, <1>a DEF Inv, ProcInv, WaiterHasWaker
    <3> QED BY <2>1, <2>2, <3>1, <1>a, <1>b DEF Inv, WaiterHasWaker
  <2>9. ExitNotLost'
    BY <2>1, <2>2, <2>3, <1>a, <1>b DEF Inv, ExitNotLost, Pending, TypeOK
  <2> QED BY <2>4, <2>5, <2>6, <2>7, <2>8, <2>9 DEF Inv
<1>2. CASE pollerdata[p].co_waiting # NONE
  <2> DEFINE c == pollerdata[p].co_waiting
  <2>1. c \in Cos /\ co[c].at = "proc" /\ co[c].on = p /\ Suspended(c) /\ opened[p] = c
    BY <1>2, <1>c, Typing DEF Inv, WakeInv, ProcInv, Suspended
  <2>2. /\ pollerdata' = [pollerdata EXCEPT ![p].co_waiting = NONE]
        /\ tasks' = CancelTask(c)
        /\ co' = Resumed(c) /\ stack' = <<c>>
        /\ got' = IF started THEN got \cup {p} ELSE got
        /\ batch' = Tail(batch)
        /\ UNCHANGED <<started, loop, why>>
    BY <1>2, <1>c, <2>1 DEF Event
  <2>3. /\ pollerdata' \in [Procs -> ProcData \cup {NONE}]
        /\ pollerdata'[p] # NONE
        /\ pollerdata'[p].co_waiting = NONE
        /\ \A q \in Procs : q # p => pollerdata'[q] = pollerdata[q]
    <3>1. pollerdata'[p].co_waiting = NONE
      BY <2>2, <1>c DEF Inv, TypeOK
    <3> QED BY <2>2, <3>1, <1>c, DataChanges DEF Inv
  <2> HIDE DEF c
  <2>4. /\ co' \in [Cos -> CoState]
        /\ co'[c].at = "running" /\ co'[c].on = co[c].on /\ co'[c].n = co[c].n
        /\ \A d \in Cos : d # c => co'[d] = co[d]
        /\ \A d \in Cos : co[d].at \notin {"running", "retry"}
        /\ stack' \in Seq(Cos) /\ IsInjective(stack')
        /\ \A d \in Cos : d \in ToSet(stack') <=> co'[d].at \in {"running", "retry"}
    BY <2>1, <2>2, <1>a, ResumeChanges
  <2>5. \A d \in Cos : d # c /\ co[d].at = "proc" => co[d].on \in Procs \ {p}
    BY <2>1 DEF Inv, ProcInv
  <2>6. /\ \A t \in tasks : t.co # c => t \in tasks'
        /\ \A t \in tasks' : ~t.cancel => t \in tasks /\ (t.co = c => t.n # timer_task[c])
        /\ \A t \in tasks' : \E u \in tasks :
              /\ t.co = u.co /\ t.n = u.n /\ t.kind = u.kind /\ t.on = u.on
              /\ t.cancel = u.cancel \/ (t.cancel = TRUE /\ u.co = c /\ u.n = timer_task[c])
        /\ tasks' \subseteq [co : Cos, n : 1..(MaxCalls + 1), kind : {"proc", "sleep", "lock"},
                            on : Procs \cup Locks \cup {NONE}, cancel : BOOLEAN]
    <3> DEFINE TT == [co : Cos, n : 1..(MaxCalls + 1), kind : {"proc", "sleep", "lock"},
                      on : Procs \cup Locks \cup {NONE}, cancel : BOOLEAN]
               K(u) == IF u.co = c /\ u.n = timer_task[c] THEN [u EXCEPT !.cancel = TRUE] ELSE u
    <3>1. tasks' = {K(u) : u \in tasks} /\ tasks \subseteq TT
      BY <2>2 DEF CancelTask, Inv, TypeOK
    <3>2. ASSUME NEW u \in TT
          PROVE  /\ K(u) \in TT
                 /\ K(u).co = u.co /\ K(u).n = u.n /\ K(u).kind = u.kind /\ K(u).on = u.on
                 /\ u.co = c /\ u.n = timer_task[c] => K(u).cancel = TRUE
                 /\ ~(u.co = c /\ u.n = timer_task[c]) => K(u) = u
      OBVIOUS
    <3> HIDE DEF K, TT
    <3>3. \A t \in tasks' : \E u \in tasks : t = K(u) /\ u \in TT
      BY <3>1
    <3>4. \A u \in tasks : K(u) \in tasks' /\ u \in TT
      BY <3>1
    <3>5. tasks' \subseteq TT
      BY <3>2, <3>3
    <3>6. \A t \in tasks : t.co # c => t \in tasks'
      BY <3>2, <3>4
    <3>7. \A t \in tasks' : ~t.cancel => t \in tasks /\ (t.co = c => t.n # timer_task[c])
      BY <3>2, <3>3
    <3>8. ASSUME NEW t \in tasks'
          PROVE  \E u \in tasks :
                    /\ t.co = u.co /\ t.n = u.n /\ t.kind = u.kind /\ t.on = u.on
                    /\ t.cancel = u.cancel \/ (t.cancel = TRUE /\ u.co = c /\ u.n = timer_task[c])
      <4>1. PICK u \in tasks : t = K(u) /\ u \in TT
        BY <3>3
      <4>2. t.co = u.co /\ t.n = u.n /\ t.kind = u.kind /\ t.on = u.on
        BY <3>2, <4>1
      <4>3. CASE u.co = c /\ u.n = timer_task[c]
        BY <3>2, <4>1, <4>2, <4>3
      <4>4. CASE ~(u.co = c /\ u.n = timer_task[c])
        <5>1. t = u
          BY <3>2, <4>1, <4>4
        <5> QED BY <5>1
      <4> QED BY <4>3, <4>4
    <3> QED BY <3>5, <3>6, <3>7, <3>8 DEF TT
  <2>7. TypeOK'
    BY <2>2, <2>3, <2>4, <2>6, <1>a, <1>b DEF Inv, TypeOK, ProcData, CoState
  <2>8. LoopInv'
    BY <2>2, <2>4, <1>a, <1>b DEF Inv, LoopInv
  <2>9. CallInv'
    BY <2>2, <2>4, <1>a DEF Inv, CallInv
  <2>10. TaskInv'
    BY <2>1, <2>4, <2>6, <1>a, Typing DEF Inv, TaskInv
  <2>11. ProcInv'
    BY <2>1, <2>2, <2>3, <2>4, <2>5, <1>a, <1>b, <1>c, Typing DEF Inv, ProcInv
  <2>12. WakeInv'
    BY <2>1, <2>3, <2>4, <2>6, Typing DEF Inv, WakeInv, TaskInv
  <2>13. WaiterHasWaker'
    BY <2>1, <2>2, <2>3, <2>4, <2>5, <2>6, <1>a, <1>b DEF Inv, WaiterHasWaker
  <2>14. ExitNotLost'
    BY <2>2, <2>3, <1>a, <1>b DEF Inv, ExitNotLost, Pending, TypeOK
  <2> QED BY <2>7, <2>8, <2>9, <2>10, <2>11, <2>12, <2>13, <2>14 DEF Inv
<1> QED BY <1>1, <1>2
-----------------------------------------------------------------------------
(* The timer.                                                              *)

(* a task resumes its coroutine: it is the only one that could             *)
LEMMA WakeStep ==
    ASSUME Inv, NEW t \in tasks, stack = <<>>, loop \in {"timer", "kill"}, ~t.cancel,
           tasks' = tasks \ {t}, co' = Resumed(t.co), stack' = <<t.co>>,
           t.kind = "lock" => locked[t.on] = NONE,
           t.kind # "proc" => pollerdata' = pollerdata,
           t.kind = "proc" => pollerdata' = IF pollerdata[t.on] = NONE THEN pollerdata
                                            ELSE [pollerdata EXCEPT ![t.on].co_waiting = NONE],
           UNCHANGED <<loopVars, poller, exited, fired, opened, got, timer_task, locked>>
    PROVE  Inv'
<1> USE DEF loopVars
<1> DEFINE c == t.co
<1>1. c \in Cos /\ co[c].at = t.kind /\ co[c].on = t.on /\ co[c].n = t.n /\ Suspended(c)
  BY Typing DEF Inv, WakeInv, Suspended
<1>2. batch = <<>> /\ ToSet(batch) = {}
  BY EmptySequence DEF Inv, LoopInv
<1>3. t.kind = "proc" => t.on \in Procs /\ opened[t.on] = c /\ pollerdata[t.on] # NONE
  BY <1>1, Typing DEF Inv, ProcInv
<1>4. /\ pollerdata' \in [Procs -> ProcData \cup {NONE}]
      /\ \A q \in Procs : /\ pollerdata'[q] = NONE <=> pollerdata[q] = NONE
                          /\ Pending(q)' <=> Pending(q)
                          /\ ~(t.kind = "proc" /\ q = t.on) => pollerdata'[q] = pollerdata[q]
                          /\ t.kind = "proc" /\ q = t.on => pollerdata'[q].co_waiting = NONE
  <2>1. CASE t.kind # "proc"
    BY <2>1 DEF Inv, TypeOK, ProcData, Pending
  <2>2. CASE t.kind = "proc"
    <3>1. pollerdata' = [pollerdata EXCEPT ![t.on].co_waiting = NONE]
      BY <2>2, <1>3
    <3>2. /\ pollerdata' \in [Procs -> ProcData \cup {NONE}]
          /\ pollerdata'[t.on] # NONE
          /\ \A q \in Procs : q # t.on => pollerdata'[q] = pollerdata[q]
      BY <2>2, <3>1, <1>3, DataChanges DEF Inv
    <3>3. /\ pollerdata'[t.on].co_waiting = NONE
          /\ pollerdata'[t.on].pending = pollerdata[t.on].pending
      BY <2>2, <3>1, <1>3 DEF Inv, TypeOK
    <3> QED BY <2>2, <3>2, <3>3, <1>3 DEF Pending
  <2> QED BY <2>1, <2>2
<1>5. /\ co' \in [Cos -> CoState]
      /\ co'[c].at = (IF co[c].at = "lock" THEN "retry" ELSE "running")
      /\ co'[c].on = co[c].on /\ co'[c].n = co[c].n
      /\ \A d \in Cos : d # c => co'[d] = co[d]
      /\ \A d \in Cos : co[d].at \notin {"running", "retry"}
      /\ stack' \in Seq(Cos) /\ IsInjective(stack')
      /\ \A d \in Cos : d \in ToSet(stack') <=> co'[d].at \in {"running", "retry"}
  BY <1>1, ResumeChanges
<1>6. \A u \in tasks' : u \in tasks /\ (~u.cancel => u.co # c)
  <2> SUFFICES ASSUME NEW u \in tasks, ~u.cancel, u.co = c PROVE u = t
    OBVIOUS
  <2>1. u.kind = t.kind /\ u.on = t.on /\ u.n = t.n
    BY <1>1 DEF Inv, WakeInv
  <2>2. u.cancel = FALSE /\ t.cancel = FALSE
    BY DEF Inv, TypeOK
  <2>3. /\ u = [co |-> u.co, n |-> u.n, kind |-> u.kind, on |-> u.on, cancel |-> u.cancel]
        /\ t = [co |-> t.co, n |-> t.n, kind |-> t.kind, on |-> t.on, cancel |-> t.cancel]
    BY DEF Inv, TypeOK
  <2> QED BY <2>1, <2>2, <2>3
<1> HIDE DEF c
<1>c. stack' = <<c>> /\ t.co = c
  BY DEF c
<1>7. TypeOK'
  BY <1>4, <1>5 DEF Inv, TypeOK, CoState, ProcData
<1>8. LoopInv'
  BY <1>5 DEF Inv, LoopInv
<1>9. CallInv'
  BY <1>1, <1>5, <1>c DEF Inv, CallInv
<1>10. TaskInv'
  BY <1>1, <1>5, <1>6, Typing DEF Inv, TaskInv
<1>11. \A d \in Cos : d # c /\ co[d].at = "proc" =>
         co[d].on \in Procs /\ ~(t.kind = "proc" /\ co[d].on = t.on)
  BY <1>3 DEF Inv, ProcInv
<1>12. ProcInv'
  BY <1>1, <1>2, <1>4, <1>5, Typing DEF Inv, ProcInv
<1>13. WakeInv'
  <2>1. ASSUME NEW q \in Procs, pollerdata'[q] # NONE, pollerdata'[q].co_waiting # NONE
        PROVE  /\ co'[pollerdata'[q].co_waiting].at = "proc"
               /\ co'[pollerdata'[q].co_waiting].on = q
    <3>1. ~(t.kind = "proc" /\ q = t.on) /\ pollerdata'[q] = pollerdata[q]
      BY <1>4, <2>1
    <3>2. pollerdata[q].co_waiting # c
      BY <1>1, <2>1, <3>1 DEF Inv, WakeInv
    <3> QED BY <1>5, <2>1, <3>1, <3>2, Typing DEF Inv, WakeInv
  <2>2. \A u \in tasks' : ~u.cancel =>
           co'[u.co].at = u.kind /\ co'[u.co].on = u.on /\ co'[u.co].n = u.n
    BY <1>5, <1>6, Typing DEF Inv, WakeInv
  <2> QED BY <2>1, <2>2 DEF WakeInv
<1>14. WaiterHasWaker'
  <2>1. \A d \in Cos : Suspended(d)' => d # c
    BY <1>1, <1>5 DEF Suspended
  <2>2. \A u \in tasks : u.co # c => u \in tasks'
    BY <1>c
  <2>3. \A d \in Cos : d # c /\ co[d].at = "proc" => pollerdata'[co[d].on] = pollerdata[co[d].on]
    BY <1>4, <1>11
  <2> QED BY <2>1, <2>2, <2>3, <1>5 DEF Inv, WaiterHasWaker, Suspended
<1>15. ExitNotLost'
  BY <1>4 DEF Inv, ExitNotLost, TypeOK
<1> QED BY <1>7, <1>8, <1>9, <1>10, <1>12, <1>13, <1>14, <1>15 DEF Inv

(* a task is dropped, or posted again                                      *)
LEMMA DropStep ==
    ASSUME Inv, NEW t \in tasks, t.cancel \/ loop = "kill",
           tasks' = tasks \ {t}, UNCHANGED <<loopVars, procVars, co, stack, timer_task, locked>>
    PROVE  Inv'
<1> USE DEF loopVars, procVars
<1>1. TypeOK' /\ LoopInv' /\ CallInv' /\ ProcInv'
  BY DEF Inv, TypeOK, LoopInv, CallInv, ProcInv
<1>2. TaskInv' /\ WakeInv'
  BY DEF Inv, TaskInv, WakeInv
<1>3. WaiterHasWaker'
  BY DEF Inv, WaiterHasWaker
<1>4. ExitNotLost'
  BY DEF Inv, ExitNotLost, Pending
<1> QED BY <1>1, <1>2, <1>3, <1>4 DEF Inv

LEMMA TimerInv ==
    ASSUME Inv, NEW t \in tasks, TimerNext(t) \/ TimerKill(t)
    PROVE  Inv'
<1>1. PICK cancel \in BOOLEAN :
         /\ Callback(t, cancel)
         /\ cancel => t.cancel \/ loop = "kill"
         /\ t.cancel => cancel
  <2>1. t.cancel \in BOOLEAN
    BY DEF Inv, TypeOK
  <2>2. CASE TimerNext(t)
    BY <2>1, <2>2 DEF TimerNext
  <2>3. CASE TimerKill(t)
    BY <2>3 DEF TimerKill
  <2> QED BY <2>2, <2>3
<1>2. /\ stack = <<>> /\ loop \in {"timer", "kill"}
      /\ UNCHANGED <<loopVars, poller, exited, fired, opened, got, timer_task, locked>>
  BY DEF TimerNext, TimerKill, Idle
<1>3. ~t.cancel => Suspended(t.co)
  BY Typing DEF Inv, WakeInv, Suspended
<1>4. t.kind # "proc" => ~t.cancel
  BY DEF Inv, TaskInv
<1>5. CASE t.kind = "proc" /\ cancel
  BY <1>1, <1>2, <1>5, DropStep DEF Callback, procVars
<1>6. CASE t.kind = "proc" /\ ~cancel
  BY <1>1, <1>2, <1>3, <1>6, WakeStep DEF Callback, Wake
<1>7. CASE t.kind = "sleep"
  BY <1>1, <1>2, <1>3, <1>4, <1>7, WakeStep DEF Callback, Wake
<1>8. CASE t.kind = "lock" /\ locked[t.on] = NONE
  BY <1>1, <1>2, <1>3, <1>4, <1>8, WakeStep DEF Callback, Wake
<1>9. CASE t.kind = "lock" /\ locked[t.on] # NONE
  <2>1. UNCHANGED vars
    BY <1>1, <1>2, <1>9 DEF Callback, vars, loopVars, procVars
  <2> QED BY <2>1 DEF vars, loopVars, procVars, Inv, TypeOK, LoopInv, CallInv, TaskInv, ProcInv,
                      WakeInv, WaiterHasWaker, ExitNotLost, Pending
<1> QED BY <1>5, <1>6, <1>7, <1>8, <1>9, Typing DEF Inv
-----------------------------------------------------------------------------
LEMMA InvNext == Inv /\ [Next]_vars => Inv'
<1> SUFFICES ASSUME Inv, [Next]_vars PROVE Inv'
  OBVIOUS
<1>1. ASSUME NEW c \in Cos, Coroutine(c) PROVE Inv'
  <2>1. ASSUME NEW d \in Cos, CoStart(c, d) PROVE Inv'
    BY <2>1, CoStartInv
  <2>2. ASSUME NEW p \in Procs, WaitProcPending(c, p) \/ CloseProc(c, p) PROVE Inv'
    BY <2>2, WaitProcPendingInv, CloseProcInv
  <2>3. ASSUME NEW p \in Procs, NEW timeout \in Timeouts, WaitProc(c, p, timeout) PROVE Inv'
    BY <2>3, WaitProcInv
  <2>4. ASSUME NEW l \in Locks, Lock(c, l) \/ Unlock(c, l) PROVE Inv'
    BY <2>4, LockInv, UnlockStopInv
  <2>5. CASE Sleep(c)
    <3>1. "sleep" \in {"sleep", "lock"} /\ NONE \in Procs \cup Locks \cup {NONE}
      OBVIOUS
    <3> QED BY <2>5, <3>1, PostAndSuspend DEF Sleep
  <2>6. CASE Stop(c)
    BY <2>6, UnlockStopInv
  <2>7. CASE Return(c) \/ Raise(c)
    BY <2>7, ReturnInv, RaiseInv
  <2> QED BY <1>1, <2>1, <2>2, <2>3, <2>4, <2>5, <2>6, <2>7 DEF Coroutine
<1>2. CASE RunLoop
  <2>1. CASE LoopTop \/ EventsDone \/ TimerDone \/ KillDone
    BY <2>1, LoopMovesInv
  <2>2. ASSUME NEW n \in 0..Cardinality(Procs), NEW events \in [1..n -> Procs], Wait(events)
        PROVE  Inv'
    <3>1. n \in Nat
      BY FS_CardinalityType, SchedulerAssumption
    <3> QED BY <2>2, <3>1, WaitInv
  <2>3. ASSUME NEW p \in Procs, Event(p) PROVE Inv'
    BY <2>3, EventInv
  <2>4. ASSUME NEW t \in tasks, TimerNext(t) \/ TimerKill(t) PROVE Inv'
    BY <2>4, TimerInv
  <2> QED BY <1>2, <2>1, <2>2, <2>3, <2>4 DEF RunLoop
<1>3. ASSUME NEW p \in Procs, Exit(p) PROVE Inv'
  BY <1>3, ExitInv
<1>4. CASE UNCHANGED vars
  BY <1>4 DEF vars, loopVars, procVars, Inv, TypeOK, LoopInv, CallInv, TaskInv, ProcInv,
              WakeInv, WaiterHasWaker, ExitNotLost, Pending
<1> QED BY <1>1, <1>2, <1>3, <1>4 DEF Next, Ended

LEMMA InvHolds == Spec => []Inv
BY InitInv, InvNext, PTL DEF Spec

(* No event and no timeout resumes a coroutine from a wait it does not     *)
(* belong to, and _poller_events_cb never fails for lack of data or for a  *)
(* coroutine that is not suspended.                                        *)
THEOREM RightWakeupHolds == Spec => []RightWakeup
<1>1. Inv => RightWakeup
  <2> SUFFICES ASSUME Inv PROVE RightWakeup
    OBVIOUS
  <2>1. ASSUME NEW t \in tasks, ~t.cancel
        PROVE  co[t.co] = [at |-> t.kind, on |-> t.on, n |-> t.n]
    <3>1. co[t.co] \in CoState
      BY Typing DEF Inv, TypeOK, CoState
    <3>2. co[t.co].at = t.kind /\ co[t.co].on = t.on /\ co[t.co].n = t.n
      BY <2>1 DEF Inv, WakeInv
    <3> QED BY <3>1, <3>2, StateEqual
  <2> QED BY <2>1 DEF Inv, LoopInv, WakeInv, RightWakeup
<1> QED BY <1>1, InvHolds, PTL

(* Whoever is suspended in poller_waitproc, co_sleep or co_lock can still  *)
(* be resumed by the poller or by the timer, until the loop is left.       *)
THEOREM WaiterHasWakerHolds == Spec => []WaiterHasWaker
<1>1. Inv => WaiterHasWaker
  BY DEF Inv
<1> QED BY <1>1, InvHolds, PTL

(* The exit that comes after the timeout of its wait is kept for the next  *)
(* poller_waitproc (object_pending).                                       *)
THEOREM ExitNotLostHolds == Spec => []ExitNotLost
<1>1. Inv => ExitNotLost
  BY DEF Inv
<1> QED BY <1>1, InvHolds, PTL
=============================================================================
