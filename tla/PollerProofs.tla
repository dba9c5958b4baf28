----------------------------- MODULE PollerProofs -----------------------------
(***************************************************************************)
(* Theorems about the two halves of the poller: the way of an exit to the  *)
(* run loop, for any number of child processes and any bound of the        *)
(* counters, and the waits for sockets, for any number of sockets and      *)
(* coroutines.                                                             *)
(***************************************************************************)
EXTENDS ProcessPoller, PollerWait, SequenceFacts

-----------------------------------------------------------------------------
(***************************************************************************)
(* Child processes                                                         *)
(***************************************************************************)

(* what the thread has collected and not yet handed over, and what was     *)
(* handed over to Lua                                                      *)
Collected == ToSet(status) \cup reported

(* What makes NoLostExit inductive.  waitpid(-1) also takes children that  *)
(* Lua has not yet inserted, so the exit has to be kept for every child    *)
(* that is not closed.  It is, because one child at a time is unclaimed,   *)
(* while Lua is between open and insert, and wait_poll does not run then.  *)
ClaimInv ==
    /\ \A p \in Procs : Unclaimed(p) => main = "opened"
    /\ \A p, q \in Procs : Unclaimed(p) /\ Unclaimed(q) => p = q
    /\ data \cap detached = {}
    /\ \A p \in Procs \ detached : proc[p] = "reaped" => <<p, "exited">> \in Collected

(* What makes ReportedOnce inductive: what was collected has left the      *)
(* state in which waitpid returns it.                                      *)
OnceInv ==
    /\ IsInjective(status)
    /\ ToSet(status) \cap reported = {}
    /\ \A p \in Procs : /\ <<p, "exited">> \in Collected => proc[p] = "reaped"
                        /\ <<p, "stopped">> \in Collected => proc[p] # "stopped"

(* What makes NoSleepWithWork inductive: whatever is still to be done, the *)
(* signal, post or wake-up for it is on its way, or the thread is at it.   *)
WakeInv ==
    /\ data # {} => inited \/ main = "end"
    /\ ~inited => thread = "none" \/ main = "end"
    /\ main = "epoll" =>
          \A p \in data : proc[p] = "zombie" =>
              sigchld \/ semaphore > 0 \/ thread = "waitpid"
    /\ main # "poll" /\ status # <<>> =>
          spak > 0 \/ (thread \in {"waitpid", "collected"} /\ has_exited)

Inv == TypeOK /\ ClaimInv /\ OnceInv /\ WakeInv

-----------------------------------------------------------------------------
(* A counter that is raised.                                               *)

LEMMA BumpProperties ==
    ASSUME NEW n \in 0..MaxCount
    PROVE  Bump(n) \in 0..MaxCount /\ Bump(n) > 0
BY ProcessPollerAssumption DEF Bump

-----------------------------------------------------------------------------
(* Type correctness                                                        *)
LEMMA TypeOKInit == Init => TypeOK
<1> SUFFICES ASSUME Init PROVE TypeOK
  OBVIOUS
<1>1. 0 \in 0..MaxCount /\ <<>> \in Seq(Procs \X {"exited", "stopped"})
  BY ProcessPollerAssumption
<1> QED BY <1>1 DEF Init, TypeOK

LEMMA TypeOKNext == TypeOK /\ [Next]_vars => TypeOK'
<1> SUFFICES ASSUME TypeOK, [Next]_vars PROVE TypeOK'
  OBVIOUS
<1> USE DEF TypeOK, osVars, threadVars, luaVars
<1>1. ASSUME NEW p \in Procs, Exit(p) \/ Stop(p) \/ Open(p) \/ ProcessRemove(p)
      PROVE  TypeOK'
  <2>1. CASE Exit(p)
    BY <2>1 DEF Exit
  <2>2. CASE Stop(p)
    BY <2>2 DEF Stop
  <2>3. CASE Open(p)
    BY <2>3 DEF Open
  <2>4. CASE ProcessRemove(p)
    BY <2>4 DEF ProcessRemove
  <2> QED BY <1>1, <2>1, <2>2, <2>3, <2>4
<1>2. CASE SignalHandler
  BY <1>2, BumpProperties DEF SignalHandler
<1>3. ASSUME NEW p \in Procs, ProcessInsert(p) \/ Detach(p) PROVE TypeOK'
  BY <1>3 DEF ProcessInsert, Detach
<1>4. CASE WaitPrepare \/ Kill
  BY <1>4, BumpProperties DEF WaitPrepare, Kill
<1>5. CASE Spanked \/ OtherEvent \/ Joined
  <2>1. spak' \in 0..MaxCount
    BY <1>5, ProcessPollerAssumption DEF Spanked, OtherEvent, Joined
  <2> QED BY <1>5, <2>1 DEF Spanked, OtherEvent, Joined
<1>6. CASE WaitPoll
  <2>1. ToSet(status) \subseteq Procs \X {"exited", "stopped"}
    BY DEF ToSet
  <2> QED BY <1>6, <2>1 DEF WaitPoll
<1>7. CASE LoopTop \/ SemaphoreWait \/ WaitpidNone
  <2>1. semaphore' \in 0..MaxCount
    BY <1>7, ProcessPollerAssumption DEF LoopTop, SemaphoreWait, WaitpidNone
  <2> QED BY <1>7, <2>1 DEF LoopTop, SemaphoreWait, WaitpidNone
<1>8. ASSUME NEW p \in Procs, Waitpid(p) PROVE TypeOK'
  <2>1. status' \in Seq(Procs \X {"exited", "stopped"})
    <3>1. PICK what \in {"exited", "stopped"} : status' = Append(status, <<p, what>>)
      BY <1>8 DEF Waitpid
    <3>2. <<p, what>> \in Procs \X {"exited", "stopped"}
      OBVIOUS
    <3> QED BY <3>1, <3>2, AppendProperties
  <2> QED BY <1>8, <2>1 DEF Waitpid
<1>9. CASE Notify
  BY <1>9, BumpProperties DEF Notify
<1>10. CASE UNCHANGED vars
  BY <1>10 DEF vars
<1> QED
  BY <1>1, <1>2, <1>3, <1>4, <1>5, <1>6, <1>7, <1>8, <1>9, <1>10
  DEF Next, Claim, Thread, Done

-----------------------------------------------------------------------------
(* Nothing is lost: the steps that matter are waitpid, which takes a child *)
(* away from the operating system, and wait_poll, which empties the list.  *)
LEMMA ClaimInvNext == TypeOK /\ ClaimInv /\ [Next]_vars => ClaimInv'
<1> SUFFICES ASSUME TypeOK, ClaimInv, [Next]_vars PROVE ClaimInv'
  OBVIOUS
<1> USE DEF osVars, threadVars, luaVars, ClaimInv, Unclaimed, Collected
<1>1. ASSUME NEW p \in Procs, Exit(p) \/ Stop(p) \/ Open(p) \/ ProcessRemove(p)
      PROVE  ClaimInv'
  BY <1>1 DEF Exit, Stop, Open, ProcessRemove, TypeOK
<1>2. CASE SignalHandler
  BY <1>2 DEF SignalHandler
<1>3. ASSUME NEW p \in Procs, ProcessInsert(p) \/ Detach(p) PROVE ClaimInv'
  BY <1>3 DEF ProcessInsert, Detach
<1>4. CASE WaitPrepare \/ Kill \/ Spanked \/ OtherEvent \/ Joined
  BY <1>4 DEF WaitPrepare, Kill, Spanked, OtherEvent, Joined
<1>5. CASE WaitPoll
  BY <1>5 DEF WaitPoll
<1>6. CASE LoopTop \/ SemaphoreWait \/ WaitpidNone \/ Notify
  BY <1>6 DEF LoopTop, SemaphoreWait, WaitpidNone, Notify
<1>7. ASSUME NEW p \in Procs, Waitpid(p) PROVE ClaimInv'
  <2>1. PICK what \in {"exited", "stopped"} :
           /\ status' = Append(status, <<p, what>>)
           /\ what = "exited" => proc' = [proc EXCEPT ![p] = "reaped"]
           /\ what = "stopped" => proc' = [proc EXCEPT ![p] = "running"]
           /\ proc[p] # "none"
    BY <1>7 DEF Waitpid
  <2>2. ToSet(status') = ToSet(status) \cup {<<p, what>>}
    BY <2>1, ToSetAppend DEF TypeOK
  <2> QED BY <1>7, <2>1, <2>2 DEF Waitpid, TypeOK
<1>8. CASE UNCHANGED vars
  BY <1>8 DEF vars
<1> QED
  BY <1>1, <1>2, <1>3, <1>4, <1>5, <1>6, <1>7, <1>8 DEF Next, Claim, Thread, Done

(* Nothing is collected twice.                                             *)
LEMMA OnceInvNext == TypeOK /\ OnceInv /\ [Next]_vars => OnceInv'
<1> SUFFICES ASSUME TypeOK, OnceInv, [Next]_vars PROVE OnceInv'
  OBVIOUS
<1> USE DEF osVars, threadVars, luaVars, OnceInv, Collected
<1>1. ASSUME NEW p \in Procs, Exit(p) \/ Stop(p) \/ Open(p) \/ ProcessRemove(p)
      PROVE  OnceInv'
  BY <1>1 DEF Exit, Stop, Open, ProcessRemove, TypeOK
<1>2. CASE SignalHandler
  BY <1>2 DEF SignalHandler
<1>3. ASSUME NEW p \in Procs, ProcessInsert(p) \/ Detach(p) PROVE OnceInv'
  BY <1>3 DEF ProcessInsert, Detach
<1>4. CASE WaitPrepare \/ Kill \/ Spanked \/ OtherEvent \/ Joined
  BY <1>4 DEF WaitPrepare, Kill, Spanked, OtherEvent, Joined
<1>5. CASE WaitPoll
  BY <1>5, EmptySequence DEF WaitPoll
<1>6. CASE LoopTop \/ SemaphoreWait \/ WaitpidNone \/ Notify
  BY <1>6 DEF LoopTop, SemaphoreWait, WaitpidNone, Notify
<1>7. ASSUME NEW p \in Procs, Waitpid(p) PROVE OnceInv'
  <2>1. PICK what \in {"exited", "stopped"} :
           /\ status' = Append(status, <<p, what>>)
           /\ what = "exited" => proc[p] = "zombie" /\ proc' = [proc EXCEPT ![p] = "reaped"]
           /\ what = "stopped" => proc[p] = "stopped" /\ proc' = [proc EXCEPT ![p] = "running"]
    BY <1>7 DEF Waitpid
  <2> DEFINE e == <<p, what>>
  <2>2. e \in Procs \X {"exited", "stopped"} /\ status \in Seq(Procs \X {"exited", "stopped"})
    BY DEF TypeOK
  <2>3. e \notin Collected
    BY <2>1
  <2>4. ToSet(status') = ToSet(status) \cup {e} /\ reported' = reported
    <3>1. ToSet(Append(status, e)) = ToSet(status) \cup {e}
      BY <2>2, ToSetAppend
    <3> QED BY <1>7, <2>1, <3>1 DEF Waitpid
  <2>5. IsInjective(status')
    BY <2>1, <2>2, <2>3, InjectiveAppend
  <2>6. ASSUME NEW q \in Procs
        PROVE  /\ <<q, "exited">> \in Collected' => proc'[q] = "reaped"
               /\ <<q, "stopped">> \in Collected' => proc'[q] # "stopped"
    BY <2>1, <2>4 DEF TypeOK
  <2> QED BY <2>3, <2>4, <2>5, <2>6
<1>8. CASE UNCHANGED vars
  BY <1>8 DEF vars
<1> QED
  BY <1>1, <1>2, <1>3, <1>4, <1>5, <1>6, <1>7, <1>8 DEF Next, Claim, Thread, Done

(* No wake-up is lost.                                                     *)
LEMMA WakeInvNext == TypeOK /\ WakeInv /\ [Next]_vars => WakeInv'
<1> SUFFICES ASSUME TypeOK, WakeInv, [Next]_vars PROVE WakeInv'
  OBVIOUS
<1> USE DEF osVars, threadVars, luaVars, WakeInv
<1>1. ASSUME NEW p \in Procs, Exit(p) \/ Stop(p) \/ Open(p) \/ ProcessRemove(p)
      PROVE  WakeInv'
  BY <1>1 DEF Exit, Stop, Open, ProcessRemove, TypeOK
<1>2. CASE SignalHandler
  BY <1>2, BumpProperties DEF SignalHandler, TypeOK
<1>3. ASSUME NEW p \in Procs, ProcessInsert(p) \/ Detach(p) PROVE WakeInv'
  BY <1>3 DEF ProcessInsert, Detach, TypeOK
<1>4. CASE WaitPrepare \/ Kill
  BY <1>4, BumpProperties DEF WaitPrepare, Kill, TypeOK
<1>5. CASE Spanked \/ OtherEvent \/ Joined
  BY <1>5 DEF Spanked, OtherEvent, Joined, TypeOK
<1>6. CASE WaitPoll
  BY <1>6 DEF WaitPoll
<1>7. CASE LoopTop \/ SemaphoreWait \/ WaitpidNone
  BY <1>7 DEF LoopTop, SemaphoreWait, WaitpidNone, TypeOK
<1>8. ASSUME NEW p \in Procs, Waitpid(p) PROVE WakeInv'
  BY <1>8 DEF Waitpid, TypeOK
<1>9. CASE Notify
  BY <1>9, BumpProperties DEF Notify, TypeOK
<1>10. CASE UNCHANGED vars
  BY <1>10 DEF vars
<1> QED
  BY <1>1, <1>2, <1>3, <1>4, <1>5, <1>6, <1>7, <1>8, <1>9, <1>10
  DEF Next, Claim, Thread, Done

LEMMA InvHolds == Spec => []Inv
<1>1. Init => Inv
  <2> SUFFICES ASSUME Init PROVE Inv
    OBVIOUS
  <2>1. ToSet(status) = {} /\ IsInjective(status)
    BY EmptySequence DEF Init
  <2> QED BY <2>1, TypeOKInit
          DEF Init, Inv, ClaimInv, OnceInv, WakeInv, Unclaimed, Collected
<1>2. Inv /\ [Next]_vars => Inv'
  BY TypeOKNext, ClaimInvNext, OnceInvNext, WakeInvNext DEF Inv
<1> QED BY <1>1, <1>2, PTL DEF Spec

-----------------------------------------------------------------------------
(* The exit of a child that Lua waits for is in the list of                *)
(* poller_process.c or was reported, although the thread collects with     *)
(* waitpid(-1) and may collect a child before it is inserted.              *)
THEOREM NoLostExitHolds == Spec => []NoLostExit
<1>1. Inv => NoLostExit
  BY DEF Inv, TypeOK, ClaimInv, NoLostExit, Collected
<1> QED BY <1>1, InvHolds, PTL

(* xu_poller_process_wait_poll reports an exit once.                       *)
THEOREM ReportedOnceHolds == Spec => []ReportedOnce
<1>1. Inv => ReportedOnce
  BY DEF Inv, OnceInv, ReportedOnce
<1> QED BY <1>1, InvHolds, PTL

(* The two threads never sleep, on the semaphore and in epoll_wait, while  *)
(* there is an exit to collect or to report and no signal for it pending.  *)
THEOREM NoSleepWithWorkHolds == Spec => []NoSleepWithWork
<1>1. Inv => NoSleepWithWork
  <2> SUFFICES ASSUME Inv, main = "epoll", spak = 0, thread = "wait", semaphore = 0, ~sigchld
               PROVE  \A p \in data : proc[p] # "zombie" /\ <<p, "exited">> \notin ToSet(status)
    BY DEF NoSleepWithWork
  <2>1. status = <<>>
    BY DEF Inv, WakeInv
  <2>2. ToSet(status) = {}
    BY <2>1, EmptySequence
  <2> QED BY <2>2 DEF Inv, WakeInv
<1> QED BY <1>1, InvHolds, PTL

-----------------------------------------------------------------------------
(***************************************************************************)
(* Waits for sockets                                                       *)
(***************************************************************************)

(* c waits for the socket, or its wait timed out and left the socket open  *)
Known(c, s, e) == Waiting(c, s, e) \/ <<c, e>> \in late[s]

(* What a coroutine waits for is what it may wait for.                     *)
CoInv(c) == IF co[c].on = NONE THEN co[c].want = NONE
            ELSE co[c].want \in usage.waits[c][co[c].on]

(* A closed socket is not in epoll, and nothing is left of it; nobody asks *)
(* for send of a pipe that is read.                                        *)
SockInv(s) ==
    /\ pollerdata[s] = NONE =>
          /\ kernel[s].reg = {} /\ ~kernel[s].edge
          /\ \A i \in DOMAIN batch : batch[i].sock # s
          /\ cb # NONE => cb.sock # s
    /\ s \in usage.pipes => SEND \notin kernel[s].reg

(* Whom the poller data names is known.                                    *)
WaiterInv(s, e) ==
    pollerdata[s] # NONE /\ Waiter(s, e) # NONE => Known(Waiter(s, e), s, e)

(* Who waits is named in the poller data, epoll has been asked for the     *)
(* event, and it is coming.                                                *)
WaitingInv(c, s, e) ==
    Waiting(c, s, e) =>
       /\ pollerdata[s] # NONE
       /\ c = Waiter(s, e)
       /\ e \in pollerdata[s].wait
       /\ Ready(s, e) => Coming(c, s, e)

(* Whom a callback is still to resume for send was not the one it resumed  *)
(* for recv, and is known.                                                 *)
CallbackInv ==
    /\ phase # "events" => batch = <<>> /\ cb = NONE
    /\ cb # NONE /\ cb.send # NONE =>
          /\ cur # cb.send /\ SEND \in cb.events
          /\ cb.sock # NONE => Known(cb.send, cb.sock, SEND)

LoopInv ==
    /\ \A c \in Cos : CoInv(c)
    /\ \A s \in Socks : SockInv(s)
    /\ \A s \in Socks, e \in IO : WaiterInv(s, e)
    /\ \A c \in Cos, s \in Socks, e \in IO : WaitingInv(c, s, e)
    /\ CallbackInv

(* What makes the three properties inductive.                              *)
WInv ==
    /\ RightResult /\ LoopSurvives
    /\ IF Alive THEN LoopInv ELSE cur = NONE

-----------------------------------------------------------------------------
(* What a waiting coroutine has asked for, epoll has been asked for.       *)
LEMMA WaitingAsked ==
    ASSUME WInv, Alive, NEW c \in Cos, NEW s \in Socks, NEW e \in IO, Waiting(c, s, e)
    PROVE  /\ e \in kernel[s].reg
           /\ e \in usage.waits[c][s]
           /\ s \in usage.pipes => e = RECV /\ SEND \notin kernel[s].reg
<1>1. /\ WaitingInv(c, s, e) /\ CoInv(c) /\ SockInv(s) /\ WTypeOK
  BY DEF WInv, LoopInv, RightResult
<1>2. e \in kernel[s].reg
  BY <1>1 DEF WTypeOK, WaitingInv
<1>3. e \in usage.waits[c][s]
  BY <1>1, NoneAssumption DEF CoInv, Waiting
<1>4. s \in usage.pipes => e = RECV
  BY <1>1, <1>3, UsageAssumption DEF WTypeOK, UsageOK
<1> QED BY <1>1, <1>2, <1>3, <1>4 DEF SockInv

(* Nothing but what epoll and the kernel know has changed, and what waits  *)
(* still has its event coming.                                             *)
LEMMA KernelStep ==
    ASSUME WInv, UNCHANGED <<usage, pollerdata, co, cur, loop, cb, late>>,
           kernel' \in [Socks -> KernelData],
           \A s \in Socks : /\ kernel'[s].reg = kernel[s].reg
                            /\ kernel[s].reg = {} /\ kernel'[s].edge => kernel[s].edge,
           Alive => \A c \in Cos, s \in Socks, e \in IO :
              Waiting(c, s, e) /\ Ready(s, e)' => Coming(c, s, e)'
    PROVE  WInv'
<1>1. UNCHANGED <<usage, pollerdata, co, cur, phase, batch, cb, late>>
  BY DEF loop
<1>2. RightResult'
  <2>1. WTypeOK'
    BY <1>1 DEF WInv, RightResult, WTypeOK
  <2> QED BY <2>1, <1>1 DEF WInv, RightResult
<1>3. LoopSurvives' /\ Alive' = Alive
  BY <1>1 DEF WInv, LoopSurvives, Alive
<1>4. ASSUME Alive PROVE LoopInv'
  <2>1. LoopInv
    BY <1>4 DEF WInv
  <2>2. ASSUME NEW c \in Cos PROVE CoInv(c)'
    BY <2>1, <1>1 DEF LoopInv, CoInv
  <2>3. ASSUME NEW s \in Socks PROVE SockInv(s)'
    BY <2>1, <1>1 DEF LoopInv, SockInv
  <2>4. ASSUME NEW s \in Socks, NEW e \in IO PROVE WaiterInv(s, e)'
    BY <2>1, <1>1 DEF LoopInv, WaiterInv, Waiter, Known, Waiting
  <2>5. ASSUME NEW c \in Cos, NEW s \in Socks, NEW e \in IO PROVE WaitingInv(c, s, e)'
    <3>1. Waiting(c, s, e)' = Waiting(c, s, e) /\ Waiter(s, e)' = Waiter(s, e)
      BY <1>1 DEF Waiting, Waiter
    <3> QED BY <2>1, <3>1, <1>1, <1>4 DEF LoopInv, WaitingInv
  <2>6. CallbackInv'
    BY <2>1, <1>1 DEF LoopInv, CallbackInv, Known, Waiting
  <2> QED BY <2>2, <2>3, <2>4, <2>5, <2>6 DEF LoopInv
<1> QED BY <1>1, <1>2, <1>3, <1>4 DEF WInv

LEMMA ArriveStep ==
    ASSUME WInv, NEW s \in Socks, NEW e \in IO, Arrive(s, e)
    PROVE  WInv'
<1>1. kernel \in [Socks -> KernelData]
  BY DEF WInv, RightResult, WTypeOK
<1> DEFINE k == [kernel[s] EXCEPT !.ready = @ \cup {e}, !.edge = @ \/ e \in kernel[s].reg]
<1>2. /\ k \in KernelData /\ k.reg = kernel[s].reg /\ k.eof = kernel[s].eof
      /\ k.ready = kernel[s].ready \cup {e}
      /\ k.edge <=> kernel[s].edge \/ e \in kernel[s].reg
  BY <1>1 DEF KernelData
<1>3. kernel' = [kernel EXCEPT ![s] = k]
  BY DEF Arrive
<1> HIDE DEF k
<1>4. /\ kernel' \in [Socks -> KernelData] /\ kernel'[s] = k
      /\ \A t \in Socks \ {s} : kernel'[t] = kernel[t]
  BY <1>1, <1>2, <1>3
<1>5. UNCHANGED <<usage, pollerdata, co, cur, loop, cb, late>> /\ UNCHANGED batch
  BY DEF Arrive, loop
<1>6. ASSUME Alive, NEW c \in Cos, NEW t \in Socks, NEW f \in IO,
             Waiting(c, t, f), Ready(t, f)'
      PROVE  Coming(c, t, f)'
  <2>1. WaitingInv(c, t, f)
    BY <1>6 DEF WInv, LoopInv
  <2>2. CASE t # s
    BY <1>4, <1>5, <1>6, <2>1, <2>2 DEF WaitingInv, Ready, Blocks, Coming, Reported
  <2>3. CASE t = s
    <3>1. /\ f \in kernel[s].reg
          /\ s \in usage.pipes => f = RECV /\ SEND \notin kernel[s].reg
      BY <1>6, <2>3, WaitingAsked
    <3>2. CASE f = e
      BY <1>2, <1>4, <1>5, <2>3, <3>1, <3>2 DEF Coming, Reported
    <3>3. CASE f # e
      <4>1. Ready(s, f)
        BY <1>2, <1>4, <1>6, <2>3, <3>3 DEF Ready, Blocks
      <4>2. Coming(c, s, f)
        BY <2>1, <2>3, <1>6, <4>1 DEF WaitingInv
      <4>3. f \in Reported(s) => f \in Reported(s)'
        BY <1>2, <1>4, <1>5, <3>1, <3>3 DEF Reported, IO
      <4> QED BY <1>2, <1>4, <1>5, <2>3, <4>2, <4>3 DEF Coming
    <3> QED BY <3>2, <3>3
  <2> QED BY <2>2, <2>3
<1>7. \A t \in Socks : /\ kernel'[t].reg = kernel[t].reg
                       /\ kernel[t].reg = {} /\ kernel'[t].edge => kernel[t].edge
  BY <1>2, <1>4
<1> QED BY <1>4, <1>5, <1>6, <1>7, KernelStep DEF Arrive

LEMMA PeerCloseStep ==
    ASSUME WInv, NEW s \in Socks, PeerClose(s)
    PROVE  WInv'
<1>1. kernel \in [Socks -> KernelData]
  BY DEF WInv, RightResult, WTypeOK
<1> DEFINE ready == IF s \in usage.pipes THEN kernel[s].ready ELSE kernel[s].ready \cup {RECV}
           k == [kernel[s] EXCEPT !.ready = ready, !.eof = TRUE,
                                  !.edge = @ \/ kernel[s].reg # {}]
<1>2. /\ k \in KernelData /\ k.reg = kernel[s].reg /\ k.eof /\ k.ready = ready
      /\ k.edge <=> kernel[s].edge \/ kernel[s].reg # {}
  BY <1>1 DEF KernelData, IO
<1>3. kernel' = [kernel EXCEPT ![s] = k]
  BY <1>1 DEF PeerClose, KernelData
<1>4. ready \subseteq kernel[s].ready \cup {RECV} /\ kernel[s].ready \subseteq ready
      /\ (s \notin usage.pipes => RECV \in ready) /\ ready \subseteq IO
  BY <1>1 DEF KernelData, IO
<1> HIDE DEF k, ready
<1>5. /\ kernel' \in [Socks -> KernelData] /\ kernel'[s] = k
      /\ \A t \in Socks \ {s} : kernel'[t] = kernel[t]
  BY <1>1, <1>2, <1>3
<1>6. UNCHANGED <<usage, pollerdata, co, cur, loop, cb, late>> /\ UNCHANGED batch
  BY DEF PeerClose, loop
<1>7. ASSUME Alive, NEW c \in Cos, NEW t \in Socks, NEW f \in IO,
             Waiting(c, t, f), Ready(t, f)'
      PROVE  Coming(c, t, f)'
  <2>1. WaitingInv(c, t, f)
    BY <1>7 DEF WInv, LoopInv
  <2>2. CASE t # s
    BY <1>5, <1>6, <1>7, <2>1, <2>2 DEF WaitingInv, Ready, Blocks, Coming, Reported
  <2>3. CASE t = s
    <3>1. /\ f \in kernel[s].reg
          /\ s \in usage.pipes => f = RECV /\ SEND \notin kernel[s].reg
      BY <1>7, <2>3, WaitingAsked
    <3>2. f \in ready \/ f = RECV
      BY <1>2, <1>5, <1>7, <2>3 DEF Ready, Blocks
    <3>3. f \in Reported(s)'
      <4>1. CASE s \in usage.pipes
        <5>1. ready \cap kernel[s].reg \in {{}, {RECV}}
          BY <1>4, <3>1, <4>1 DEF IO
        <5> QED BY <1>2, <1>5, <1>6, <3>1, <4>1, <5>1 DEF Reported, IO
      <4>2. CASE s \notin usage.pipes
        BY <1>2, <1>4, <1>5, <1>6, <3>1, <3>2, <4>2 DEF Reported
      <4> QED BY <4>1, <4>2
    <3> QED BY <1>2, <1>5, <2>3, <3>1, <3>3 DEF Coming
  <2> QED BY <2>2, <2>3
<1>8. \A t \in Socks : /\ kernel'[t].reg = kernel[t].reg
                       /\ kernel[t].reg = {} /\ kernel'[t].edge => kernel[t].edge
  BY <1>2, <1>5
<1> QED BY <1>5, <1>6, <1>7, <1>8, KernelStep DEF PeerClose

(* A coroutine tries a direction of s that nobody waits for any more.      *)
LEMMA LessReady ==
    ASSUME WInv, Alive, NEW s \in Socks, NEW e \in IO, NEW c \in Cos, NEW f \in IO,
           e = RECV => ~kernel[s].eof, s \in usage.pipes => e = RECV,
           kernel'[s].ready = kernel[s].ready \ {e}, kernel'[s].eof = kernel[s].eof,
           kernel[s].edge => kernel'[s].edge, kernel[s].reg \subseteq kernel'[s].reg,
           UNCHANGED <<usage, batch, cb>>,
           Waiting(c, s, f), Ready(s, f)'
    PROVE  Coming(c, s, f)'
<1>1. f # e /\ Ready(s, f)
  BY DEF Ready, Blocks
<1>2. Coming(c, s, f)
  BY <1>1 DEF WInv, LoopInv, WaitingInv
<1>3. f \in Reported(s) => f \in Reported(s)'
  BY <1>1 DEF Reported, IO
<1> QED BY <1>2, <1>3 DEF Coming

LEMMA TransferStep ==
    ASSUME WInv, NEW c \in Cos, NEW s \in Socks, NEW e \in IO, Transfer(c, s, e)
    PROVE  WInv'
<1>1. kernel \in [Socks -> KernelData] /\ usage \in Usages
  BY DEF WInv, RightResult, WTypeOK
<1> DEFINE k == [kernel[s] EXCEPT !.ready = @ \ {e}]
<1>2. /\ k \in KernelData /\ k.reg = kernel[s].reg /\ k.eof = kernel[s].eof
      /\ k.ready = kernel[s].ready \ {e} /\ k.edge = kernel[s].edge
  BY <1>1 DEF KernelData
<1>3. kernel' = [kernel EXCEPT ![s] = k]
  BY DEF Transfer
<1> HIDE DEF k
<1>4. /\ kernel' \in [Socks -> KernelData] /\ kernel'[s] = k
      /\ \A t \in Socks \ {s} : kernel'[t] = kernel[t]
  BY <1>1, <1>2, <1>3
<1>5. UNCHANGED <<usage, pollerdata, co, cur, loop, cb, late>> /\ UNCHANGED batch
  BY DEF Transfer, loop
<1>6. ASSUME Alive, NEW x \in Cos, NEW t \in Socks, NEW f \in IO,
             Waiting(x, t, f), Ready(t, f)'
      PROVE  Coming(x, t, f)'
  <2>1. CASE t # s
    <3>1. WaitingInv(x, t, f)
      BY <1>6 DEF WInv, LoopInv
    <3> QED BY <1>4, <1>5, <1>6, <2>1, <3>1
        DEF WaitingInv, Ready, Blocks, Coming, Reported
  <2>2. CASE t = s
    <3>1. s \in usage.pipes => e = RECV
      BY <1>1, UsageAssumption DEF UsageOK, Transfer
    <3> QED BY <1>2, <1>4, <1>5, <1>6, <2>2, <3>1, LessReady DEF Transfer
  <2> QED BY <2>1, <2>2
<1>7. \A t \in Socks : /\ kernel'[t].reg = kernel[t].reg
                       /\ kernel[t].reg = {} /\ kernel'[t].edge => kernel[t].edge
  BY <1>2, <1>4
<1> QED BY <1>4, <1>5, <1>6, <1>7, KernelStep DEF Transfer

-----------------------------------------------------------------------------
(* Coroutines are resumed or suspend, and the poller is not touched: who   *)
(* waits has waited before, and who was known is known.                    *)
LEMMA CoStep ==
    ASSUME WInv, Alive, UNCHANGED <<usage, pollerdata, kernel, batch, cb>>,
           phase' \in {"poll", "events", "timer"},
           phase' # "events" => batch = <<>> /\ cb = NONE,
           co' \in [Cos -> CoData], cur' \in Cos \cup {NONE},
           late' \in [Socks -> SUBSET (Cos \X IO)],
           cb # NONE => cur' = NONE,
           \A c \in Cos : /\ co'[c].state = "running" <=> cur' = c
                          /\ co'[c].state = "running" => co'[c].how # "event"
                          /\ CoInv(c)',
           \A c \in Cos, s \in Socks, e \in IO :
              /\ Waiting(c, s, e)' => Waiting(c, s, e)
              /\ Known(c, s, e) => Known(c, s, e)'
    PROVE  WInv'
<1>1. LoopInv /\ WTypeOK
  BY DEF WInv, RightResult
<1>2. RightResult'
  <2>1. WTypeOK'
    BY <1>1 DEF WTypeOK
  <2> QED BY <2>1 DEF RightResult
<1>3. Alive' /\ LoopSurvives'
  BY DEF Alive, LoopSurvives
<1>4. LoopInv'
  <2>1. ASSUME NEW s \in Socks PROVE SockInv(s)'
    BY <1>1 DEF LoopInv, SockInv
  <2>2. ASSUME NEW s \in Socks, NEW e \in IO PROVE WaiterInv(s, e)'
    <3>1. Waiter(s, e)' = Waiter(s, e)
      BY DEF Waiter
    <3>2. pollerdata[s] # NONE => Waiter(s, e) \in Cos \cup {NONE}
      BY <1>1 DEF WTypeOK, PollerData, Waiter
    <3> QED BY <1>1, <3>1, <3>2 DEF LoopInv, WaiterInv
  <2>3. ASSUME NEW c \in Cos, NEW s \in Socks, NEW e \in IO PROVE WaitingInv(c, s, e)'
    <3>1. Waiter(s, e)' = Waiter(s, e)
      BY DEF Waiter
    <3>2. Ready(s, e)' = Ready(s, e) /\ Coming(c, s, e)' = Coming(c, s, e)
      BY DEF Ready, Blocks, Coming, Reported
    <3> QED BY <1>1, <3>1, <3>2 DEF LoopInv, WaitingInv
  <2>4. CallbackInv'
    <3>1. ASSUME cb # NONE, cb.send # NONE
          PROVE  /\ cb.send \in Cos /\ cb.sock \in Socks \cup {NONE} /\ SEND \in cb.events
                 /\ cb.sock # NONE => Known(cb.send, cb.sock, SEND)
      BY <1>1, <3>1 DEF LoopInv, WTypeOK, CallbackData, CallbackInv
    <3> QED BY <3>1, NoneAssumption DEF CallbackInv, IO
  <2> QED BY <2>1, <2>2, <2>3, <2>4 DEF LoopInv
<1> QED BY <1>2, <1>3, <1>4 DEF WInv

LEMMA NewCoProperties ==
    ASSUME NEW on \in Socks \cup {NONE}, NEW want \in IO \cup {NONE},
           NEW timer \in {"none", "new", "due"}
    PROVE  [NewCo EXCEPT !.on = on, !.want = want, !.timer = timer] \in CoData
BY DEF NewCo, CoData

(* A coroutine that runs suspends, and waits for no socket, or ends.       *)
LEMMA StopStep ==
    ASSUME WInv, Alive, NEW c \in Cos, cur = c, cur' = NONE, NEW x \in CoData,
           x.state # "running", x.on = NONE, x.want = NONE, co' = [co EXCEPT ![c] = x],
           UNCHANGED <<usage, pollerdata, kernel, phase, batch, cb, late>>
    PROVE  WInv'
<1>1. LoopInv /\ WTypeOK
  BY DEF WInv, RightResult
<1>2. /\ co' \in [Cos -> CoData] /\ co'[c] = x
      /\ \A y \in Cos \ {c} : co'[y] = co[y]
  BY <1>1 DEF WTypeOK
<1>3. co[c].state = "running"
  BY <1>1 DEF WTypeOK
<1>4. \A y \in Cos : /\ co'[y].state # "running"
                     /\ CoInv(y)'
  BY <1>1, <1>2 DEF LoopInv, CoInv, WTypeOK
<1>5. \A y \in Cos, s \in Socks, e \in IO :
         /\ Waiting(y, s, e)' => Waiting(y, s, e)
         /\ Known(y, s, e) => Known(y, s, e)'
  BY <1>2, <1>3, NoneAssumption DEF Waiting, Known
<1>6. phase \in {"poll", "events", "timer"} /\ (phase # "events" => batch = <<>> /\ cb = NONE)
  BY <1>1 DEF LoopInv, CallbackInv, WTypeOK, Alive
<1>7. late \in [Socks -> SUBSET (Cos \X IO)]
  BY <1>1 DEF WTypeOK
<1>8. \A y \in Cos : NONE # y
  BY NoneAssumption
<1> QED BY <1>2, <1>4, <1>5, <1>6, <1>7, <1>8, CoStep

LEMMA SleepStep ==
    ASSUME WInv, Alive, NEW c \in Cos, Sleep(c)
    PROVE  WInv'
<1> DEFINE x == [NewCo EXCEPT !.on = NONE, !.want = NONE,
                              !.timer = IF phase = "timer" THEN "new" ELSE "due"]
<1>1. x \in CoData /\ x.state = "suspended" /\ x.on = NONE /\ x.want = NONE
  BY NewCoProperties DEF NewCo
<1>2. co' = [co EXCEPT ![c] = x] /\ cur' = NONE /\ cur = c
  BY DEF Sleep, Suspend
<1> HIDE DEF x
<1> QED BY <1>1, <1>2, StopStep DEF Sleep, loop

LEMMA FinishStep ==
    ASSUME WInv, Alive, NEW c \in Cos, Finish(c)
    PROVE  WInv'
<1> DEFINE x == [NewCo EXCEPT !.state = "dead"]
<1>1. x \in CoData /\ x.state = "dead" /\ x.on = NONE /\ x.want = NONE
  BY DEF NewCo, CoData
<1>2. co' = [co EXCEPT ![c] = x] /\ cur' = NONE /\ cur = c
  BY DEF Finish
<1> HIDE DEF x
<1> QED BY <1>1, <1>2, StopStep DEF Finish, loop

(* A coroutine is started or its timer resumes it.                         *)
LEMMA ResumeStep ==
    ASSUME WInv, Alive, NEW c \in Cos, cur = NONE, cb = NONE, cur' = c,
           NEW x \in CoData, x.state = "running", x.how # "event",
           x.on = co[c].on, x.want = co[c].want,
           co' = [co EXCEPT ![c] = x], late' \in [Socks -> SUBSET (Cos \X IO)],
           \A s \in Socks : late[s] \subseteq late'[s],
           \A s \in Socks, e \in IO : Waiting(c, s, e) => <<c, e>> \in late'[s],
           UNCHANGED <<usage, pollerdata, kernel, phase, batch, cb>>
    PROVE  WInv'
<1>1. LoopInv /\ WTypeOK
  BY DEF WInv, RightResult
<1>2. /\ co' \in [Cos -> CoData] /\ co'[c] = x
      /\ \A y \in Cos \ {c} : co'[y] = co[y]
  BY <1>1 DEF WTypeOK
<1>3. \A y \in Cos : /\ co'[y].state = "running" <=> cur' = y
                     /\ co'[y].state = "running" => co'[y].how # "event"
                     /\ CoInv(y)'
  BY <1>1, <1>2, NoneAssumption DEF LoopInv, CoInv, WTypeOK
<1>4. \A y \in Cos, s \in Socks, e \in IO :
         /\ Waiting(y, s, e)' => Waiting(y, s, e)
         /\ Known(y, s, e) => Known(y, s, e)'
  BY <1>2 DEF Waiting, Known
<1>5. phase \in {"poll", "events", "timer"} /\ (phase # "events" => batch = <<>> /\ cb = NONE)
  BY <1>1 DEF LoopInv, CallbackInv, WTypeOK, Alive
<1> QED BY <1>2, <1>3, <1>4, <1>5, CoStep

LEMMA StartCoStep ==
    ASSUME WInv, Alive, NEW c \in Cos, StartCo(c)
    PROVE  WInv'
<1>1. WTypeOK
  BY DEF WInv, RightResult
<1> DEFINE x == [co[c] EXCEPT !.state = "running"]
<1>2. /\ x \in CoData /\ x.state = "running" /\ x.how = "none"
      /\ x.on = co[c].on /\ x.want = co[c].want /\ co[c].on = NONE
  BY <1>1 DEF StartCo, NewCo, CoData, WTypeOK
<1>3. /\ co' = [co EXCEPT ![c] = x] /\ cur' = c /\ cur = NONE /\ cb = NONE
      /\ UNCHANGED <<usage, pollerdata, kernel, phase, batch, cb, late>>
  BY DEF StartCo, loop
<1>4. \A s \in Socks, e \in IO : ~Waiting(c, s, e)
  BY <1>2, NoneAssumption DEF Waiting
<1>5. late \in [Socks -> SUBSET (Cos \X IO)]
  BY <1>1 DEF WTypeOK
<1> HIDE DEF x
<1> QED BY <1>2, <1>3, <1>4, <1>5, ResumeStep

LEMMA TimeoutStep ==
    ASSUME WInv, Alive, NEW c \in Cos, Timeout(c)
    PROVE  WInv'
<1>1. LoopInv /\ WTypeOK /\ usage \in Usages
  BY DEF WInv, RightResult, WTypeOK
<1> DEFINE x == [co[c] EXCEPT !.state = "running", !.timer = "none",
                   !.how = IF co[c].on = NONE THEN "none" ELSE "timeout"]
<1>2. /\ x \in CoData /\ x.state = "running" /\ x.how # "event"
      /\ x.on = co[c].on /\ x.want = co[c].want
  BY <1>1 DEF CoData, WTypeOK
<1>3. /\ co' = [co EXCEPT ![c] = x] /\ cur' = c /\ cur = NONE /\ phase = "timer"
      /\ UNCHANGED <<usage, pollerdata, kernel, phase, batch, cb>>
  BY DEF Timeout, loop
<1>4. cb = NONE
  BY <1>1, <1>3 DEF LoopInv, CallbackInv
<1>5. \A s \in Socks : co[c].on = s => co[c].want \in IO
  BY <1>1, NoneAssumption, UsageAssumption DEF LoopInv, CoInv, UsageOK
<1>6. /\ late' \in [Socks -> SUBSET (Cos \X IO)]
      /\ \A s \in Socks : late[s] \subseteq late'[s]
      /\ \A s \in Socks, e \in IO : Waiting(c, s, e) => <<c, e>> \in late'[s]
  BY <1>1, <1>5 DEF Timeout, WTypeOK, Waiting
<1> HIDE DEF x
<1> QED BY <1>2, <1>3, <1>4, <1>6, ResumeStep

LEMMA EventsDoneStep ==
    ASSUME WInv, Alive, EventsDone
    PROVE  WInv'
<1>1. LoopInv /\ WTypeOK
  BY DEF WInv, RightResult
<1>2. \A c \in Cos : /\ co'[c].state = "running" <=> cur' = c
                     /\ co'[c].state = "running" => co'[c].how # "event"
                     /\ CoInv(c)'
  BY <1>1, NoneAssumption DEF LoopInv, CoInv, WTypeOK, EventsDone
<1>3. \A c \in Cos, s \in Socks, e \in IO :
         /\ Waiting(c, s, e)' => Waiting(c, s, e)
         /\ Known(c, s, e) => Known(c, s, e)'
  BY DEF Waiting, Known, EventsDone
<1>4. /\ co' \in [Cos -> CoData] /\ cur' \in Cos \cup {NONE}
      /\ late' \in [Socks -> SUBSET (Cos \X IO)]
  BY <1>1 DEF WTypeOK, EventsDone
<1>5. /\ UNCHANGED <<usage, pollerdata, kernel, batch, cb>>
      /\ phase' = "timer" /\ batch = <<>> /\ cb = NONE
  BY DEF EventsDone
<1> QED BY <1>2, <1>3, <1>4, <1>5, CoStep

LEMMA TimersDoneStep ==
    ASSUME WInv, Alive, TimersDone
    PROVE  WInv'
<1>1. LoopInv /\ WTypeOK
  BY DEF WInv, RightResult
<1>2. co' \in [Cos -> CoData]
      /\ \A c \in Cos : /\ co'[c].state = co[c].state /\ co'[c].on = co[c].on
                        /\ co'[c].want = co[c].want
  <2>1. ASSUME NEW c \in Cos
        PROVE  LET x == IF co[c].timer = "new" THEN [co[c] EXCEPT !.timer = "due"] ELSE co[c]
               IN  /\ x \in CoData /\ x.state = co[c].state
                   /\ x.on = co[c].on /\ x.want = co[c].want
    BY <1>1 DEF WTypeOK, CoData
  <2> QED BY <2>1 DEF TimersDone
<1>3. \A c \in Cos : /\ co'[c].state = "running" <=> cur' = c
                     /\ co'[c].state = "running" => co'[c].how # "event"
                     /\ CoInv(c)'
  BY <1>1, <1>2, NoneAssumption DEF LoopInv, CoInv, WTypeOK, TimersDone
<1>4. \A c \in Cos, s \in Socks, e \in IO :
         /\ Waiting(c, s, e)' => Waiting(c, s, e)
         /\ Known(c, s, e) => Known(c, s, e)'
  BY <1>2 DEF Waiting, Known, TimersDone
<1>5. cur' \in Cos \cup {NONE} /\ late' \in [Socks -> SUBSET (Cos \X IO)]
  BY <1>1 DEF WTypeOK, TimersDone
<1>6. /\ UNCHANGED <<usage, pollerdata, kernel, batch, cb>>
      /\ phase' = "poll" /\ batch = <<>> /\ cb = NONE
  BY <1>1 DEF TimersDone, LoopInv, CallbackInv
<1> QED BY <1>2, <1>3, <1>4, <1>5, <1>6, CoStep

-----------------------------------------------------------------------------
(* A socket is closed: nobody waits for it.                                *)
LEMMA CloseStep ==
    ASSUME WInv, Alive, NEW c \in Cos, NEW s \in Socks, Close(c, s)
    PROVE  WInv'
<1>1. LoopInv /\ WTypeOK /\ s # NONE /\ c # NONE
  BY NoneAssumption DEF WInv, RightResult
<1> DEFINE x == [co[c] EXCEPT !.how = "none"]
<1>2. /\ x \in CoData /\ x.how = "none" /\ x.state = co[c].state
      /\ x.on = co[c].on /\ x.want = co[c].want
  BY <1>1 DEF WTypeOK, CoData
<1>3. co' = [co EXCEPT ![c] = x]
  BY DEF Close
<1> HIDE DEF x
<1>4. /\ co' \in [Cos -> CoData]
      /\ \A y \in Cos : /\ co'[y].state = co[y].state /\ co'[y].on = co[y].on
                        /\ co'[y].want = co[y].want
                        /\ y # c => co'[y] = co[y]
      /\ co'[c].how = "none"
  BY <1>1, <1>2, <1>3 DEF WTypeOK
<1>5. /\ cur = c /\ UNCHANGED <<usage, cur, phase>>
      /\ \A y \in Cos, e \in IO : ~Waiting(y, s, e)
  BY DEF Close, Waiting
<1>6. /\ pollerdata' \in [Socks -> {NONE} \cup PollerData] /\ pollerdata'[s] = NONE
      /\ kernel' \in [Socks -> KernelData] /\ kernel'[s] = NewSocket
      /\ late' \in [Socks -> SUBSET (Cos \X IO)]
      /\ \A t \in Socks \ {s} : /\ pollerdata'[t] = pollerdata[t] /\ kernel'[t] = kernel[t]
                                /\ late'[t] = late[t]
  <2>1. NewSocket \in KernelData
    BY DEF NewSocket, KernelData
  <2> QED BY <1>1, <2>1 DEF Close, WTypeOK
<1>7. /\ batch' \in Seq(EventData) /\ DOMAIN batch' = DOMAIN batch
      /\ batch = <<>> => batch' = <<>>
      /\ \A i \in DOMAIN batch :
            /\ batch'[i].sock = IF batch[i].sock = s THEN NONE ELSE batch[i].sock
            /\ batch'[i].events = batch[i].events
  <2>1. batch' = [i \in DOMAIN batch |->
                    IF batch[i].sock = s THEN [batch[i] EXCEPT !.sock = NONE] ELSE batch[i]]
    BY DEF Close, CloseBatch
  <2>2. /\ DOMAIN batch = 1..Len(batch) /\ Len(batch) \in Nat
        /\ \A i \in DOMAIN batch : batch[i] \in EventData
    BY <1>1, LenProperties, ElementOfSeq DEF WTypeOK
  <2>3. \A i \in DOMAIN batch : batch'[i] \in EventData
    BY <2>1, <2>2 DEF EventData
  <2>4. batch' \in Seq(EventData)
    BY <2>1, <2>2, <2>3, SeqDef
  <2>5. batch = <<>> => batch' = <<>>
    BY <2>1, <2>2, <2>4, EmptySeq, LenProperties
  <2> QED BY <2>1, <2>2, <2>4, <2>5 DEF EventData
<1>8. /\ cb' \in {NONE} \cup CallbackData
      /\ cb = NONE => cb' = NONE
      /\ cb # NONE => /\ cb' # NONE /\ cb'.send = cb.send /\ cb'.events = cb.events
                      /\ cb'.sock = IF cb.sock = s THEN NONE ELSE cb.sock
  <2>1. cb' = IF cb # NONE /\ cb.sock = s THEN [cb EXCEPT !.sock = NONE] ELSE cb
    BY DEF Close, CloseCallback
  <2>2. cb \in CallbackData => [cb EXCEPT !.sock = NONE] \in CallbackData
    BY DEF CallbackData
  <2> QED BY <1>1, <2>1, <2>2, NoneAssumption DEF WTypeOK, CallbackData
<1>9. RightResult'
  <2>1. WTypeOK'
    BY <1>1, <1>4, <1>5, <1>6, <1>7, <1>8 DEF WTypeOK
  <2>2. \A y \in Cos : co'[y].state = "running" => y = c
    BY <1>1, <1>4, <1>5 DEF WTypeOK
  <2> QED BY <2>1, <2>2, <1>4 DEF RightResult
<1>10. Alive' /\ LoopSurvives'
  BY <1>5 DEF Alive, LoopSurvives
<1>11. \A y \in Cos, t \in Socks, e \in IO :
          /\ Waiting(y, t, e)' = Waiting(y, t, e)
          /\ t # s => Known(y, t, e)' = Known(y, t, e)
  BY <1>4, <1>6 DEF Waiting, Known
<1>12. LoopInv'
  <2>1. ASSUME NEW y \in Cos PROVE CoInv(y)'
    BY <1>1, <1>4, <1>5 DEF LoopInv, CoInv
  <2>2. ASSUME NEW t \in Socks PROVE SockInv(t)'
    <3>1. SockInv(t)
      BY <1>1 DEF LoopInv
    <3>2. CASE t = s
      BY <1>1, <1>5, <1>6, <1>7, <1>8, <3>2 DEF SockInv, NewSocket
    <3>3. CASE t # s
      BY <1>1, <1>5, <1>6, <1>7, <1>8, <3>1, <3>3, NoneAssumption DEF SockInv
    <3> QED BY <3>2, <3>3
  <2>3. ASSUME NEW t \in Socks, NEW e \in IO PROVE WaiterInv(t, e)'
    <3>1. CASE t = s
      BY <1>6, <3>1 DEF WaiterInv
    <3>2. CASE t # s
      <4>1. WaiterInv(t, e) /\ Waiter(t, e)' = Waiter(t, e)
        BY <1>1, <1>6, <3>2 DEF LoopInv, Waiter
      <4>2. pollerdata[t] # NONE => Waiter(t, e) \in Cos \cup {NONE}
        BY <1>1 DEF WTypeOK, PollerData, Waiter
      <4> QED BY <1>6, <1>11, <3>2, <4>1, <4>2 DEF WaiterInv
    <3> QED BY <3>1, <3>2
  <2>4. ASSUME NEW y \in Cos, NEW t \in Socks, NEW e \in IO PROVE WaitingInv(y, t, e)'
    <3>1. CASE t = s
      BY <1>5, <1>11, <3>1 DEF WaitingInv
    <3>2. CASE t # s
      <4>1. WaitingInv(y, t, e) /\ Waiter(t, e)' = Waiter(t, e)
        BY <1>1, <1>6, <3>2 DEF LoopInv, Waiter
      <4>2. Ready(t, e)' = Ready(t, e) /\ Reported(t)' = Reported(t)
        BY <1>5, <1>6, <3>2 DEF Ready, Blocks, Reported
      <4>3. Coming(y, t, e) => Coming(y, t, e)'
        BY <1>6, <1>7, <1>8, <3>2, <4>2 DEF Coming
      <4> QED BY <1>6, <1>11, <3>2, <4>1, <4>2, <4>3 DEF WaitingInv
    <3> QED BY <3>1, <3>2
  <2>5. CallbackInv'
    <3>1. ASSUME cb # NONE, cb.send # NONE
          PROVE  /\ cb.send \in Cos /\ cb.sock \in Socks \cup {NONE} /\ SEND \in cb.events
                 /\ cur # cb.send /\ (cb.sock # NONE => Known(cb.send, cb.sock, SEND))
      BY <1>1, <3>1 DEF LoopInv, WTypeOK, CallbackData, CallbackInv
    <3>2. phase # "events" => batch = <<>> /\ cb = NONE
      BY <1>1 DEF LoopInv, CallbackInv
    <3> QED BY <1>5, <1>7, <1>8, <1>11, <3>1, <3>2 DEF CallbackInv, IO
  <2> QED BY <2>1, <2>2, <2>3, <2>4, <2>5 DEF LoopInv
<1> QED BY <1>9, <1>10, <1>12 DEF WInv

-----------------------------------------------------------------------------
(* poller_wait.  The coroutine that runs tries one direction of s, which   *)
(* nobody waits for: k is what the kernel knows then, nd the poller data,  *)
(* and x the coroutine, answered or suspended.                             *)
Waits(c, s, e, k, nd, x) ==
    /\ k \in KernelData /\ nd \in PollerData /\ x \in CoData
    /\ cur = c /\ e \in usage.waits[c][s] /\ Blocks(s, e)
    /\ \A o \in Cos : ~Waiting(o, s, e)
    /\ k.ready = kernel[s].ready \ {e} /\ k.eof = kernel[s].eof
    /\ kernel[s].edge => k.edge
    /\ x.on = s /\ x.want = e
    /\ co' = [co EXCEPT ![c] = x]
    /\ kernel' = [kernel EXCEPT ![s] = k]
    /\ pollerdata' = [pollerdata EXCEPT ![s] = nd]
    /\ UNCHANGED <<usage, phase, batch, cb>>

LEMMA WaitsFacts ==
    ASSUME WInv, Alive, NEW c \in Cos, NEW s \in Socks, NEW e \in IO,
           NEW k, NEW nd, NEW x, Waits(c, s, e, k, nd, x)
    PROVE  /\ nd # NONE /\ (s \in usage.pipes => e = RECV)
           /\ co' \in [Cos -> CoData] /\ co'[c] = x
           /\ \A y \in Cos \ {c} : co'[y] = co[y]
           /\ kernel' \in [Socks -> KernelData] /\ kernel'[s] = k
           /\ pollerdata' \in [Socks -> {NONE} \cup PollerData] /\ pollerdata'[s] = nd
           /\ \A t \in Socks \ {s} : kernel'[t] = kernel[t] /\ pollerdata'[t] = pollerdata[t]
           /\ \A t \in Socks, f \in IO : ~Waiting(c, t, f)
           /\ cb # NONE /\ cb.send # NONE => cb.send # c
           /\ \A y \in Cos : CoInv(y)'
<1>1. LoopInv /\ WTypeOK /\ usage \in Usages
  BY DEF WInv, RightResult, WTypeOK
<1>2. nd # NONE /\ (s \in usage.pipes => e = RECV)
  BY <1>1, UsageAssumption, NoneAssumption DEF Waits, UsageOK
<1>3. /\ co' \in [Cos -> CoData] /\ co'[c] = x
      /\ \A y \in Cos \ {c} : co'[y] = co[y]
  BY <1>1 DEF Waits, WTypeOK
<1>4. /\ kernel' \in [Socks -> KernelData] /\ kernel'[s] = k
      /\ \A t \in Socks \ {s} : kernel'[t] = kernel[t]
  BY <1>1 DEF Waits, WTypeOK
<1>5. /\ pollerdata' \in [Socks -> {NONE} \cup PollerData] /\ pollerdata'[s] = nd
      /\ \A t \in Socks \ {s} : pollerdata'[t] = pollerdata[t]
  BY <1>1 DEF Waits, WTypeOK
<1>6. \A t \in Socks, f \in IO : ~Waiting(c, t, f)
  BY <1>1 DEF Waits, WTypeOK, Waiting
<1>7. cb # NONE /\ cb.send # NONE => cb.send # c
  BY <1>1 DEF Waits, LoopInv, CallbackInv
<1>8. \A y \in Cos : CoInv(y)'
  BY <1>1, <1>3, NoneAssumption DEF Waits, LoopInv, CoInv
<1> QED BY <1>2, <1>3, <1>4, <1>5, <1>6, <1>7, <1>8

(* What waits for something else has its event coming as before.           *)
LEMMA WaitsComing ==
    ASSUME WInv, Alive, NEW c \in Cos, NEW s \in Socks, NEW e \in IO,
           NEW k, NEW nd, NEW x, Waits(c, s, e, k, nd, x),
           NEW y \in Cos, NEW t \in Socks, NEW f \in IO, Waiting(y, t, f), Ready(t, f)',
           t = s /\ f # e => kernel[s].reg \subseteq k.reg
                             \/ (f \in kernel[s].reg /\ f \in k.reg /\ s \notin usage.pipes)
    PROVE  Coming(y, t, f)'
<1>1. WaitingInv(y, t, f)
  BY DEF WInv, LoopInv
<1>2. /\ kernel'[s] = k /\ \A u \in Socks \ {s} : kernel'[u] = kernel[u]
      /\ s \in usage.pipes => e = RECV
      /\ UNCHANGED <<usage, batch, cb>>
  <2>1. /\ kernel'[s] = k /\ (s \in usage.pipes => e = RECV)
        /\ \A u \in Socks \ {s} : kernel'[u] = kernel[u] /\ pollerdata'[u] = pollerdata[u]
    BY WaitsFacts
  <2> QED BY <2>1 DEF Waits
<1>3. CASE t # s
  BY <1>1, <1>2, <1>3 DEF WaitingInv, Ready, Blocks, Coming, Reported
<1>4. CASE t = s
  <2>1. f # e /\ Ready(s, f)
    BY <1>2, <1>4 DEF Waits, Ready, Blocks
  <2>2. Coming(y, s, f)
    BY <1>1, <1>4, <2>1 DEF WaitingInv
  <2>3. f \in Reported(s) => f \in Reported(s)'
    <3>1. s \in usage.pipes => ~kernel[s].eof
      BY <1>2 DEF Waits, Blocks
    <3> QED BY <1>2, <1>4, <2>1, <3>1 DEF Waits, Reported, IO
  <2> QED BY <1>2, <1>4, <2>2, <2>3 DEF Waits, Coming
<1> QED BY <1>3, <1>4

LEMMA WaitCachedStep ==
    ASSUME WInv, Alive, NEW c \in Cos, NEW s \in Socks, NEW e \in IO,
           NEW k, NEW nd, NEW x, Waits(c, s, e, k, nd, x),
           pollerdata[s] # NONE, k.reg = kernel[s].reg, x.state = "running", x.how = "cache",
           nd.wait = pollerdata[s].wait, nd.recv = pollerdata[s].recv,
           nd.send = pollerdata[s].send, UNCHANGED <<cur, late>>
    PROVE  WInv'
<1>1. LoopInv /\ WTypeOK
  BY DEF WInv, RightResult
<1>2. /\ nd # NONE
      /\ co' \in [Cos -> CoData] /\ co'[c] = x
      /\ \A y \in Cos \ {c} : co'[y] = co[y]
      /\ kernel' \in [Socks -> KernelData] /\ kernel'[s] = k
      /\ pollerdata' \in [Socks -> {NONE} \cup PollerData] /\ pollerdata'[s] = nd
      /\ \A t \in Socks \ {s} : kernel'[t] = kernel[t] /\ pollerdata'[t] = pollerdata[t]
      /\ \A t \in Socks, f \in IO : ~Waiting(c, t, f)
      /\ \A y \in Cos : CoInv(y)'
  BY WaitsFacts
<1>3. cur = c /\ UNCHANGED <<usage, phase, batch, cb, cur, late>>
  BY DEF Waits
<1>4. RightResult'
  <2>1. WTypeOK'
    BY <1>1, <1>2, <1>3 DEF WTypeOK
  <2>2. \A y \in Cos : co'[y].state = "running" => y = c
    BY <1>1, <1>2, <1>3 DEF WTypeOK
  <2> QED BY <2>1, <2>2, <1>2 DEF RightResult
<1>5. Alive' /\ LoopSurvives'
  BY <1>3 DEF Alive, LoopSurvives
<1>6. \A y \in Cos, t \in Socks, f \in IO :
         /\ Waiting(y, t, f)' = Waiting(y, t, f)
         /\ Known(y, t, f)' = Known(y, t, f)
  BY <1>2, <1>3 DEF Waiting, Known
<1>7. \A t \in Socks, f \in IO :
         /\ Waiter(t, f)' = Waiter(t, f)
         /\ pollerdata[t] # NONE => Waiter(t, f) \in Cos \cup {NONE}
  BY <1>1, <1>2 DEF Waiter, WTypeOK, PollerData
<1>8. \A t \in Socks : pollerdata[t] = NONE =>
         /\ pollerdata'[t] = NONE /\ kernel'[t] = kernel[t]
  BY <1>2
<1>9. LoopInv'
  <2>1. ASSUME NEW t \in Socks PROVE SockInv(t)'
    BY <1>1, <1>2, <1>3 DEF LoopInv, SockInv
  <2>2. ASSUME NEW t \in Socks, NEW f \in IO PROVE WaiterInv(t, f)'
    BY <1>1, <1>2, <1>6, <1>7 DEF LoopInv, WaiterInv
  <2>3. ASSUME NEW y \in Cos, NEW t \in Socks, NEW f \in IO PROVE WaitingInv(y, t, f)'
    <3> SUFFICES ASSUME Waiting(y, t, f)' PROVE WaitingInv(y, t, f)'
      BY DEF WaitingInv
    <3>1. Waiting(y, t, f) /\ WaitingInv(y, t, f)
      BY <1>1, <1>6 DEF LoopInv
    <3>2. Ready(t, f)' => Coming(y, t, f)'
      BY <3>1, WaitsComing
    <3>3. pollerdata'[t] # NONE /\ f \in pollerdata'[t].wait
      BY <1>2, <3>1 DEF WaitingInv
    <3> QED BY <1>7, <3>1, <3>2, <3>3 DEF WaitingInv
  <2>4. CallbackInv'
    <3>1. ASSUME cb # NONE, cb.send # NONE
          PROVE  cb.send \in Cos /\ cb.sock \in Socks \cup {NONE}
      BY <1>1, <3>1 DEF WTypeOK, CallbackData
    <3> QED BY <1>1, <1>3, <1>6, <3>1 DEF LoopInv, CallbackInv, IO
  <2> QED BY <1>2, <2>1, <2>2, <2>3, <2>4 DEF LoopInv
<1> QED BY <1>4, <1>5, <1>9 DEF WInv

(* It suspends until its event comes: d was the poller data, and ask is    *)
(* what it asks epoll for.                                                 *)
Suspends(c, s, e, d, ask, k, nd, x) ==
    /\ d \in PollerData /\ ask \in SUBSET Flags
    /\ d = IF pollerdata[s] = NONE THEN NewData ELSE pollerdata[s]
    /\ ask = IF d.wait = {} THEN {e, CLEAR} ELSE WaitEvents(d, {e, CLEAR})
    /\ k.reg = IF Asks(d, ask) THEN ask ELSE kernel[s].reg
    /\ nd.wait = ask
    /\ nd.recv = IF e = RECV THEN c ELSE d.recv
    /\ nd.send = IF e = SEND THEN c ELSE d.send
    /\ x.state = "suspended" /\ cur' = NONE
    /\ late' = [late EXCEPT ![s] = @ \ {<<c, e>>}]

LEMMA WaitSuspendStep ==
    ASSUME WInv, Alive, NEW c \in Cos, NEW s \in Socks, NEW e \in IO,
           NEW d, NEW ask, NEW k, NEW nd, NEW x,
           Waits(c, s, e, k, nd, x), Suspends(c, s, e, d, ask, k, nd, x)
    PROVE  WInv'
<1> USE DEF Suspends
<1>1. LoopInv /\ WTypeOK /\ c # NONE
  BY NoneAssumption DEF WInv, RightResult
<1>2. /\ nd # NONE /\ (s \in usage.pipes => e = RECV)
      /\ co' \in [Cos -> CoData] /\ co'[c] = x
      /\ \A y \in Cos \ {c} : co'[y] = co[y]
      /\ kernel' \in [Socks -> KernelData] /\ kernel'[s] = k
      /\ pollerdata' \in [Socks -> {NONE} \cup PollerData] /\ pollerdata'[s] = nd
      /\ \A t \in Socks \ {s} : kernel'[t] = kernel[t] /\ pollerdata'[t] = pollerdata[t]
      /\ \A t \in Socks, f \in IO : ~Waiting(c, t, f)
      /\ cb # NONE /\ cb.send # NONE => cb.send # c
      /\ \A y \in Cos : CoInv(y)'
  BY WaitsFacts
<1>3. cur = c /\ UNCHANGED <<usage, phase, batch, cb>> /\ x.on = s /\ x.want = e
  BY DEF Waits
<1>4. /\ late' \in [Socks -> SUBSET (Cos \X IO)]
      /\ \A t \in Socks, y \in Cos, f \in IO :
            <<y, f>> \in late[t] => <<y, f>> \in late'[t] \/ (t = s /\ y = c /\ f = e)
  BY <1>1 DEF WTypeOK
<1>5. /\ ask \subseteq k.reg /\ CLEAR \in ask /\ e \in ask
      /\ \A f \in IO : f \in ask => f = e \/ (pollerdata[s] # NONE /\ f \in pollerdata[s].wait)
      /\ \A f \in IO : pollerdata[s] # NONE /\ f \in pollerdata[s].wait
                          /\ Waiter(s, f) # NONE => f \in ask
  BY <1>1 DEF WTypeOK, WaitEvents, Asks, Waiter, NewData, IO, RECV, SEND, CLEAR
<1>6. RightResult'
  <2>1. \A y \in Cos : co'[y].state # "running"
    BY <1>1, <1>2, <1>3 DEF WTypeOK
  <2>2. \A y \in Cos : y # NONE
    BY NoneAssumption
  <2>3. WTypeOK'
    BY <1>1, <1>2, <1>3, <1>4, <1>5, <2>1, <2>2 DEF WTypeOK
  <2> QED BY <2>1, <2>3 DEF RightResult
<1>7. Alive' /\ LoopSurvives'
  BY <1>3 DEF Alive, LoopSurvives
<1>8. /\ Waiting(c, s, e)'
      /\ \A t \in Socks, f \in IO : Waiting(c, t, f)' => t = s /\ f = e
      /\ \A y \in Cos, t \in Socks, f \in IO : y # c => Waiting(y, t, f)' = Waiting(y, t, f)
      /\ \A y \in Cos, t \in Socks, f \in IO : Known(y, t, f) => Known(y, t, f)'
  BY <1>2, <1>3, <1>4 DEF Waiting, Known
<1>9. /\ Waiter(s, e)' = c
      /\ \A f \in IO : f # e => Waiter(s, f)' = IF pollerdata[s] = NONE THEN NONE
                                                ELSE Waiter(s, f)
      /\ \A t \in Socks \ {s}, f \in IO : Waiter(t, f)' = Waiter(t, f)
      /\ \A t \in Socks, f \in IO : pollerdata[t] # NONE => Waiter(t, f) \in Cos \cup {NONE}
  BY <1>1, <1>2 DEF Waiter, WTypeOK, PollerData, NewData, IO, RECV, SEND
<1>10. LoopInv'
  <2>1. ASSUME NEW t \in Socks PROVE SockInv(t)'
    <3>1. SockInv(t)
      BY <1>1 DEF LoopInv
    <3>2. CASE t # s
      BY <1>2, <1>3, <3>1, <3>2 DEF SockInv
    <3>3. CASE t = s
      <4>1. s \in usage.pipes => SEND \notin k.reg
        <5>1. SEND \in ask /\ s \in usage.pipes => SEND \in kernel[s].reg
          BY <1>1, <1>2, <1>5 DEF WTypeOK, IO, RECV, SEND
        <5> QED BY <3>1, <3>3, <5>1 DEF SockInv
      <4> QED BY <1>2, <1>3, <3>3, <4>1 DEF SockInv
    <3> QED BY <3>2, <3>3
  <2>2. ASSUME NEW t \in Socks, NEW f \in IO PROVE WaiterInv(t, f)'
    BY <1>1, <1>2, <1>8, <1>9 DEF LoopInv, WaiterInv, Known
  <2>3. ASSUME NEW y \in Cos, NEW t \in Socks, NEW f \in IO PROVE WaitingInv(y, t, f)'
    <3> SUFFICES ASSUME Waiting(y, t, f)' PROVE WaitingInv(y, t, f)'
      BY DEF WaitingInv
    <3>1. CASE y = c
      <4>1. t = s /\ f = e
        BY <1>8, <3>1
      <4>2. ~Ready(s, e)'
        BY <1>2 DEF Waits, Ready, Blocks
      <4> QED BY <1>2, <1>5, <1>9, <3>1, <4>1, <4>2 DEF WaitingInv
    <3>2. CASE y # c
      <4>1. Waiting(y, t, f) /\ WaitingInv(y, t, f) /\ y # NONE
        BY <1>1, <1>8, <3>2, NoneAssumption DEF LoopInv
      <4>2. CASE t # s
        <5>1. Ready(t, f)' => Coming(y, t, f)'
          BY <4>1, <4>2, WaitsComing
        <5> QED BY <1>2, <1>9, <4>1, <4>2, <5>1 DEF WaitingInv
      <4>3. CASE t = s
        <5>1. f # e /\ pollerdata[s] # NONE /\ y = Waiter(s, f) /\ f \in pollerdata[s].wait
          BY <4>1, <4>3 DEF Waits, WaitingInv
        <5>2. f \in kernel[s].reg /\ f \in k.reg /\ f \in ask /\ (s \in usage.pipes => f = e)
          <6>1. /\ f \in kernel[s].reg
                /\ s \in usage.pipes => f = RECV /\ SEND \notin kernel[s].reg
            BY <4>1, <4>3, WaitingAsked
          <6> QED BY <1>2, <1>5, <4>1, <5>1, <6>1
        <5>3. Ready(s, f)' => Coming(y, s, f)'
          BY <4>1, <4>3, <5>1, <5>2, WaitsComing
        <5> QED BY <1>2, <1>9, <4>3, <5>1, <5>2, <5>3 DEF WaitingInv
      <4> QED BY <4>2, <4>3
    <3> QED BY <3>1, <3>2
  <2>4. CallbackInv'
    <3>1. ASSUME cb # NONE, cb.send # NONE
          PROVE  cb.send \in Cos /\ cb.sock \in Socks \cup {NONE} /\ cb.send # NONE
      BY <1>1, <3>1 DEF WTypeOK, CallbackData
    <3> QED BY <1>1, <1>3, <1>8, <3>1 DEF LoopInv, CallbackInv, IO
  <2> QED BY <1>2, <2>1, <2>2, <2>3, <2>4 DEF LoopInv
<1> QED BY <1>6, <1>7, <1>10 DEF WInv

LEMMA WaitStep ==
    ASSUME WInv, Alive, NEW c \in Cos, NEW s \in Socks, NEW e \in IO, NEW timed \in BOOLEAN,
           Wait(c, s, e, timed)
    PROVE  WInv'
<1> DEFINE events == {e, CLEAR}
           d == IF pollerdata[s] = NONE THEN NewData ELSE pollerdata[s]
           k == [kernel[s] EXCEPT !.ready = @ \ {e}]
           ask == IF d.wait = {} THEN events ELSE WaitEvents(d, events)
           cached == d.wait # {} /\ d.save # {} /\ d.wait \cap events # {}
           k2 == IF Asks(d, ask) THEN Register(k, ask) ELSE k
           nd == [wait |-> ask, save |-> {},
                  recv |-> IF e = RECV THEN c ELSE d.recv,
                  send |-> IF e = SEND THEN c ELSE d.send]
           saved == pollerdata[s].save
           nd2 == [pollerdata[s] EXCEPT !.save = @ \ events]
           x == [NewCo EXCEPT !.on = s, !.want = e,
                     !.timer = IF ~timed THEN "none" ELSE IF phase = "timer" THEN "new" ELSE "due"]
           x2 == [co[c] EXCEPT !.on = s, !.want = e, !.how = "cache", !.got = saved \cap events]
<1>1. /\ kernel[s] \in KernelData /\ pollerdata[s] \in {NONE} \cup PollerData
      /\ co[c] \in CoData /\ co[c].state = "running"
      /\ cur = c /\ e \in usage.waits[c][s] /\ Blocks(s, e)
      /\ \A o \in Cos : ~Waiting(o, s, e)
      /\ UNCHANGED <<usage, phase, batch, cb>>
  BY DEF WInv, RightResult, WTypeOK, Wait, loop
<1>2. NewData \in PollerData /\ NewData.wait = {}
  BY DEF NewData, PollerData
<1>3. d \in PollerData /\ events \in SUBSET Flags
  BY <1>1, <1>2 DEF Flags
<1>4. k \in KernelData /\ k.ready = kernel[s].ready \ {e} /\ k.eof = kernel[s].eof
      /\ k.reg = kernel[s].reg /\ (kernel[s].edge => k.edge)
  BY <1>1 DEF KernelData
<1>5. CASE cached
  <2>1. pollerdata[s] # NONE /\ pollerdata[s] \in PollerData
    BY <1>1, <1>2, <1>5
  <2>2. kernel' = [kernel EXCEPT ![s] = k] /\ ReturnCached(c, s, e)
    BY <1>5 DEF Wait
  <2>3. /\ nd2 \in PollerData /\ nd2.wait = pollerdata[s].wait
        /\ nd2.recv = pollerdata[s].recv /\ nd2.send = pollerdata[s].send
    BY <2>1 DEF PollerData
  <2>4. /\ x2 \in CoData /\ x2.state = "running" /\ x2.how = "cache"
        /\ x2.on = s /\ x2.want = e
    BY <1>1, <1>3 DEF CoData
  <2>5. /\ co' = [co EXCEPT ![c] = x2] /\ pollerdata' = [pollerdata EXCEPT ![s] = nd2]
        /\ UNCHANGED <<cur, late>>
    BY <2>2 DEF ReturnCached
  <2> HIDE DEF k, nd2, x2
  <2>6. Waits(c, s, e, k, nd2, x2)
    BY <1>1, <1>4, <2>2, <2>3, <2>4, <2>5 DEF Waits
  <2> QED BY <1>4, <2>1, <2>3, <2>4, <2>5, <2>6, WaitCachedStep
<1>6. CASE ~cached
  <2>1. /\ kernel' = [kernel EXCEPT ![s] = k2] /\ pollerdata' = [pollerdata EXCEPT ![s] = nd]
        /\ late' = [late EXCEPT ![s] = @ \ {<<c, e>>}]
    BY <1>6 DEF Wait
  <2>2. co' = [co EXCEPT ![c] = x] /\ cur' = NONE
    BY <1>6 DEF Wait, Suspend
  <2>3. x \in CoData /\ x.state = "suspended" /\ x.on = s /\ x.want = e
    BY NewCoProperties DEF NewCo
  <2>4. ask \in SUBSET Flags
    <3>1. d.wait \in SUBSET Flags
      BY <1>3 DEF PollerData
    <3> HIDE DEF d
    <3> QED BY <1>3, <3>1 DEF WaitEvents
  <2>5. /\ nd \in PollerData /\ nd.wait = ask
        /\ nd.recv = (IF e = RECV THEN c ELSE d.recv)
        /\ nd.send = (IF e = SEND THEN c ELSE d.send)
    <3>1. d.recv \in Cos \cup {NONE} /\ d.send \in Cos \cup {NONE}
      BY <1>3 DEF PollerData
    <3> HIDE DEF d, ask
    <3> QED BY <2>4, <3>1 DEF PollerData
  <2>6. /\ k2 \in KernelData /\ k2.ready = kernel[s].ready \ {e} /\ k2.eof = kernel[s].eof
        /\ k2.reg = IF Asks(d, ask) THEN ask ELSE kernel[s].reg
        /\ kernel[s].edge => k2.edge
    <3>1. k.edge \in BOOLEAN
      BY <1>4 DEF KernelData
    <3> HIDE DEF k, d, ask
    <3>2. /\ Register(k, ask) \in KernelData /\ Register(k, ask).ready = k.ready
          /\ Register(k, ask).eof = k.eof /\ Register(k, ask).reg = ask
          /\ k.edge => Register(k, ask).edge
      BY <1>4, <2>4, <3>1 DEF Register, KernelData
    <3> QED BY <1>4, <3>2
  <2>7. /\ d = (IF pollerdata[s] = NONE THEN NewData ELSE pollerdata[s])
        /\ ask = (IF d.wait = {} THEN {e, CLEAR} ELSE WaitEvents(d, {e, CLEAR}))
    OBVIOUS
  <2> HIDE DEF nd, k2, k, ask, d, x
  <2>8. Waits(c, s, e, k2, nd, x)
    BY <1>1, <2>1, <2>2, <2>3, <2>5, <2>6 DEF Waits
  <2>9. Suspends(c, s, e, d, ask, k2, nd, x)
    BY <1>3, <2>1, <2>2, <2>3, <2>4, <2>5, <2>6, <2>7 DEF Suspends
  <2> QED BY <2>8, <2>9, WaitSuspendStep
<1> QED BY <1>5, <1>6

-----------------------------------------------------------------------------
(* The run loop asks epoll for the events.                                 *)
LEMMA PollStep ==
    ASSUME WInv, Alive, Poll
    PROVE  WInv'
<1> DEFINE news == {s \in Socks : kernel[s].edge /\ Reported(s) # {}}
<1>1. LoopInv /\ WTypeOK
  BY DEF WInv, RightResult
<1>2. /\ phase = "poll" /\ cur = NONE /\ cb = NONE /\ batch = <<>>
      /\ UNCHANGED <<usage, pollerdata, co, cur, cb, late>> /\ phase' = "events"
      /\ kernel' = [s \in Socks |-> [kernel[s] EXCEPT !.edge = FALSE]]
  BY <1>1 DEF Poll, LoopInv, CallbackInv
<1>3. PICK order \in SetToSeqs(news) :
         batch' = [i \in DOMAIN order |-> [sock |-> order[i], events |-> Reported(order[i])]]
  BY DEF Poll
<1>4. /\ kernel' \in [Socks -> KernelData]
      /\ \A s \in Socks : /\ ~kernel'[s].edge /\ kernel'[s].reg = kernel[s].reg
                          /\ kernel'[s].ready = kernel[s].ready /\ kernel'[s].eof = kernel[s].eof
  <2>1. ASSUME NEW s \in Socks
        PROVE  /\ kernel'[s] \in KernelData /\ ~kernel'[s].edge
               /\ kernel'[s].reg = kernel[s].reg /\ kernel'[s].ready = kernel[s].ready
               /\ kernel'[s].eof = kernel[s].eof
    BY <1>1, <1>2 DEF WTypeOK, KernelData
  <2> QED BY <1>2, <2>1
<1>5. \A s \in Socks : Reported(s) \in SUBSET (IO \cup {EOF})
  BY <1>1 DEF WTypeOK, KernelData, Reported
<1>6. \A s \in news : s \in Socks /\ pollerdata[s] # NONE
  BY <1>1 DEF LoopInv, SockInv
<1>7. /\ Cardinality(news) \in Nat /\ DOMAIN order = 1..Cardinality(news)
      /\ \A i \in DOMAIN order : order[i] \in news
      /\ \A s \in news : \E i \in DOMAIN order : order[i] = s
  <2>1. IsFiniteSet(news)
    BY FiniteAssumption, FS_Subset
  <2>2. Cardinality(news) \in Nat
    BY <2>1, FS_CardinalityType
  <2> HIDE DEF news
  <2> DEFINE D == 1..Cardinality(news)
  <2>3. /\ order \in [D -> news]
        /\ \A i, j \in D : order[i] = order[j] => i = j
    BY DEF SetToSeqs
  <2>4. \A s \in news : \E i \in D : order[i] = s
    <3>1. IsFiniteSet(D) /\ Cardinality(D) = Cardinality(news)
      BY <2>2, FS_Interval
    <3>2. order \in Injection(D, news)
      BY <2>3 DEF Injection, IsInjective
    <3>3. order \in Surjection(D, news)
      BY <2>1, <3>1, <3>2, FS_SurjSameCardinalityImpliesInj, FS_Injection, FS_Surjection
    <3> QED BY <3>3 DEF Surjection
  <2> QED BY <2>2, <2>3, <2>4
<1>8. ASSUME NEW s \in Socks, kernel[s].edge, NEW e \in Reported(s)
      PROVE  \E i \in DOMAIN batch' : batch'[i].sock = s /\ e \in batch'[i].events
  <2>1. s \in news
    BY <1>8
  <2>2. PICK i \in DOMAIN order : order[i] = s
    BY <1>7, <2>1
  <2> QED BY <1>3, <1>8, <2>2
<1> HIDE DEF news
<1>9. /\ batch' \in Seq(EventData)
      /\ \A i \in DOMAIN batch' : batch'[i].sock \in news
  <2>1. ASSUME NEW i \in DOMAIN order
        PROVE  /\ [sock |-> order[i], events |-> Reported(order[i])] \in EventData
               /\ order[i] \in news
    <3>1. order[i] \in Socks /\ order[i] \in news
      BY <1>6, <1>7
    <3> QED BY <1>5, <3>1 DEF EventData
  <2>2. batch' \in [1..Cardinality(news) -> EventData]
    BY <1>3, <1>7, <2>1
  <2> QED BY <1>3, <1>7, <2>1, <2>2
<1>10. RightResult'
  <2>1. WTypeOK'
    BY <1>1, <1>2, <1>4, <1>9 DEF WTypeOK
  <2>2. \A c \in Cos : co'[c].state # "running"
    BY <1>1, <1>2, NoneAssumption DEF WTypeOK
  <2> QED BY <2>1, <2>2 DEF RightResult
<1>11. Alive' /\ LoopSurvives'
  BY <1>2 DEF Alive, LoopSurvives
<1>12. LoopInv'
  <2>1. ASSUME NEW c \in Cos PROVE CoInv(c)'
    BY <1>1, <1>2 DEF LoopInv, CoInv
  <2>2. ASSUME NEW s \in Socks PROVE SockInv(s)'
    BY <1>1, <1>2, <1>4, <1>6, <1>9 DEF LoopInv, SockInv
  <2>3. ASSUME NEW s \in Socks, NEW e \in IO PROVE WaiterInv(s, e)'
    BY <1>1, <1>2 DEF LoopInv, WaiterInv, Waiter, Known, Waiting
  <2>4. ASSUME NEW c \in Cos, NEW s \in Socks, NEW e \in IO PROVE WaitingInv(c, s, e)'
    <3>1. /\ Waiting(c, s, e)' = Waiting(c, s, e) /\ Waiter(s, e)' = Waiter(s, e)
          /\ Ready(s, e)' = Ready(s, e)
      BY <1>2, <1>4 DEF Waiting, Waiter, Ready, Blocks
    <3>2. Coming(c, s, e) => Coming(c, s, e)'
      BY <1>2, <1>8 DEF Coming
    <3> QED BY <1>1, <1>2, <3>1, <3>2 DEF LoopInv, WaitingInv
  <2>5. CallbackInv'
    BY <1>2 DEF CallbackInv
  <2> QED BY <2>1, <2>2, <2>3, <2>4, <2>5 DEF LoopInv
<1> QED BY <1>10, <1>11, <1>12 DEF WInv

-----------------------------------------------------------------------------
(* The callback of an event.                                               *)

(* What a step of a callback leaves alone: objects stay open and asked for *)
(* as they were, and no event is added to those to be handled.             *)
InCallback ==
    /\ cur = NONE /\ phase = "events"
    /\ UNCHANGED <<usage, kernel, late>>
    /\ pollerdata' \in [Socks -> {NONE} \cup PollerData]
    /\ \A s \in Socks : /\ pollerdata'[s] = NONE <=> pollerdata[s] = NONE
                        /\ pollerdata[s] # NONE => pollerdata'[s].wait = pollerdata[s].wait
    /\ batch' \in Seq(EventData)
    /\ \A i \in DOMAIN batch' : \E j \in DOMAIN batch : batch'[i] = batch[j]

(* The coroutine it resumes does not wait for this event.                  *)
LEMMA LostStep ==
    ASSUME WInv, Alive, InCallback, phase' \in {"broken", "astray"}, UNCHANGED <<co, cur>>,
           cb' \in CallbackData, cb'.sock = NONE \/ late[cb'.sock] # {}
    PROVE  WInv'
<1> USE DEF InCallback
<1>1. WTypeOK
  BY DEF WInv, RightResult
<1>2. RightResult'
  <2>1. WTypeOK'
    BY <1>1 DEF WTypeOK
  <2>2. \A c \in Cos : co'[c].state # "running"
    BY <1>1, NoneAssumption DEF WTypeOK
  <2> QED BY <2>1, <2>2 DEF RightResult
<1> QED BY <1>2 DEF WInv, LoopSurvives, Alive

(* What a callback keeps for later, and the events still to be handled,    *)
(* give the coroutines that still wait, all but r, their events.           *)
KeepsComing(r) ==
    /\ cb' \in {NONE} \cup CallbackData
    /\ cb' # NONE => cb'.sock = NONE \/ pollerdata[cb'.sock] # NONE
    /\ cb' # NONE /\ cb'.send # NONE =>
          /\ cb'.send # r /\ SEND \in cb'.events
          /\ cb'.sock # NONE => Known(cb'.send, cb'.sock, SEND)
    /\ \A y \in Cos, t \in Socks, f \in IO :
          y # r /\ Waiting(y, t, f) /\ Coming(y, t, f) => Coming(y, t, f)'

(* r, if it is not NONE, runs then.                                        *)
Runs(r) ==
    /\ cur' = r /\ phase' = phase
    /\ co' \in [Cos -> CoData]
    /\ \A c \in Cos : c # r => co'[c] = co[c]
    /\ r # NONE =>
          /\ co[r].state = "suspended" /\ co'[r].state = "running"
          /\ co'[r].on = co[r].on /\ co'[r].want = co[r].want
          /\ co[r].want \in co'[r].got
          /\ \A e \in co'[r].got \cap IO : e # co[r].want => <<r, e>> \in late[co[r].on]

(* The poller data name whom they named, or r no more.                     *)
Forgets(r) ==
    \A t \in Socks, f \in IO : pollerdata[t] # NONE =>
       \/ Waiter(t, f)' = Waiter(t, f) /\ (r # NONE => ~Waiting(r, t, f))
       \/ Waiter(t, f)' = NONE /\ Waiter(t, f) = r

LEMMA AliveStep ==
    ASSUME WInv, Alive, InCallback, NEW r \in Cos \cup {NONE},
           KeepsComing(r), Runs(r), Forgets(r)
    PROVE  WInv'
<1> USE DEF InCallback
<1>1. LoopInv /\ WTypeOK
  BY DEF WInv, RightResult
<1>2. /\ co' \in [Cos -> CoData] /\ cur' = r /\ phase' = "events" /\ cb' \in {NONE} \cup CallbackData
      /\ \A c \in Cos : c # r => co'[c] = co[c]
      /\ r # NONE => /\ co[r].state = "suspended" /\ co'[r].state = "running"
                     /\ co'[r].on = co[r].on /\ co'[r].want = co[r].want
  BY DEF Runs, KeepsComing
<1>3. \A c \in Cos : co'[c].state = "running" <=> cur' = c
  BY <1>1, <1>2, NoneAssumption DEF WTypeOK
<1>4. RightResult'
  <2>1. WTypeOK'
    BY <1>1, <1>2, <1>3 DEF WTypeOK
  <2>2. ASSUME NEW c \in Cos, co'[c].state = "running"
        PROVE  /\ co'[c].want \in co'[c].got
               /\ \A e \in co'[c].got \cap IO : e # co'[c].want => <<c, e>> \in late'[co'[c].on]
    <3>1. c = r /\ r # NONE
      BY <1>2, <1>3, <2>2, NoneAssumption
    <3> QED BY <1>2, <3>1 DEF Runs
  <2> QED BY <2>1, <2>2 DEF RightResult
<1>5. Alive' /\ LoopSurvives'
  BY <1>2 DEF Alive, LoopSurvives
<1>6. \A y \in Cos, t \in Socks, f \in IO :
         /\ Waiting(y, t, f)' <=> y # r /\ Waiting(y, t, f)
         /\ Known(y, t, f)' <=> (y # r /\ Waiting(y, t, f)) \/ <<y, f>> \in late[t]
  BY <1>2, NoneAssumption DEF Waiting, Known
<1>7. \A t \in Socks, f \in IO : pollerdata[t] # NONE => Waiter(t, f) \in Cos \cup {NONE}
  BY <1>1 DEF Waiter, WTypeOK, PollerData
<1>8. LoopInv'
  <2>1. ASSUME NEW y \in Cos PROVE CoInv(y)'
    BY <1>1, <1>2, NoneAssumption DEF LoopInv, CoInv
  <2>2. ASSUME NEW t \in Socks PROVE SockInv(t)'
    <3>1. SockInv(t)
      BY <1>1 DEF LoopInv
    <3>2. pollerdata[t] = NONE /\ cb' # NONE => cb'.sock # t
      BY NoneAssumption DEF KeepsComing
    <3> QED BY <3>1, <3>2 DEF SockInv
  <2>3. ASSUME NEW t \in Socks, NEW f \in IO PROVE WaiterInv(t, f)'
    <3> SUFFICES ASSUME pollerdata'[t] # NONE, Waiter(t, f)' # NONE
                 PROVE  Known(Waiter(t, f), t, f)'
      BY DEF WaiterInv
    <3>1. /\ Waiter(t, f)' = Waiter(t, f) /\ Waiter(t, f) \in Cos
          /\ r # NONE => ~Waiting(r, t, f)
      BY <1>7 DEF Forgets
    <3>2. Known(Waiter(t, f), t, f)
      BY <1>1, <3>1 DEF LoopInv, WaiterInv
    <3>3. \A y \in Cos : y = Waiter(t, f) => Known(y, t, f)'
      <4> SUFFICES ASSUME NEW y \in Cos, y = Waiter(t, f) PROVE Known(y, t, f)'
        OBVIOUS
      <4>1. Known(y, t, f) /\ (y = r => ~Waiting(y, t, f))
        BY <3>1, <3>2, NoneAssumption
      <4> QED BY <1>6, <4>1 DEF Known
    <3>4. \A y \in Cos : y = Waiter(t, f)' /\ Known(y, t, f)' => Known(Waiter(t, f), t, f)'
      BY DEF Known, Waiting
    <3> QED BY <3>1, <3>3, <3>4
  <2>4. ASSUME NEW y \in Cos, NEW t \in Socks, NEW f \in IO PROVE WaitingInv(y, t, f)'
    <3> SUFFICES ASSUME Waiting(y, t, f)' PROVE WaitingInv(y, t, f)'
      BY DEF WaitingInv
    <3>1. y # r /\ Waiting(y, t, f) /\ WaitingInv(y, t, f)
      BY <1>1, <1>6 DEF LoopInv
    <3>2. pollerdata[t] # NONE /\ y = Waiter(t, f) /\ f \in pollerdata[t].wait
          /\ (Ready(t, f) => Coming(y, t, f))
      BY <3>1 DEF WaitingInv
    <3>3. y = Waiter(t, f)'
      BY <3>1, <3>2 DEF Forgets
    <3>4. Ready(t, f)' = Ready(t, f)
      BY DEF Ready, Blocks
    <3>5. Ready(t, f)' => Coming(y, t, f)'
      BY <3>1, <3>2, <3>4 DEF KeepsComing
    <3> QED BY <3>2, <3>3, <3>5 DEF WaitingInv
  <2>5. CallbackInv'
    <3>1. ASSUME cb' # NONE, cb'.send # NONE
          PROVE  /\ cb'.send # r /\ SEND \in cb'.events /\ cb'.send \in Cos
                 /\ cb'.sock # NONE => cb'.sock \in Socks /\ Known(cb'.send, cb'.sock, SEND)
      BY <1>2, <3>1 DEF KeepsComing, CallbackData
    <3>2. ASSUME cb' # NONE, cb'.send # NONE, cb'.sock # NONE
          PROVE  Known(cb.send, cb.sock, SEND)'
      <4>1. \A y \in Cos, t \in Socks : y # r /\ Known(y, t, SEND) => Known(y, t, SEND)'
        BY <1>6 DEF Known, IO
      <4>2. \A y \in Cos, t \in Socks : y = cb'.send /\ t = cb'.sock => Known(y, t, SEND)'
        BY <3>1, <3>2, <4>1
      <4>3. \A y \in Cos, t \in Socks :
               y = cb'.send /\ t = cb'.sock /\ Known(y, t, SEND)' => Known(cb.send, cb.sock, SEND)'
        BY DEF Known, Waiting
      <4> QED BY <3>1, <3>2, <4>2, <4>3
    <3> QED BY <1>2, <3>1, <3>2 DEF CallbackInv
  <2> QED BY <2>1, <2>2, <2>3, <2>4, <2>5 DEF LoopInv
<1> QED BY <1>4, <1>5, <1>8 DEF WInv

(* A coroutine gets the events got of s if it waits for one of them; then  *)
(* nd no longer names it for these, and names whom it named for others.    *)
Named(d, e) == IF e = RECV THEN d.recv ELSE d.send
Delivers(c, s, got, nd) ==
    /\ got \in SUBSET Flags /\ got \cap IO # {} /\ nd \in PollerData
    /\ pollerdata[s] # NONE /\ pollerdata' = [pollerdata EXCEPT ![s] = nd]
    /\ Resume(c, s, got)
    /\ cb' # NONE /\ cb'.sock = s
    /\ \A e \in got \cap IO : Known(c, s, e)
    /\ \A e \in got \cap IO : Waiting(c, s, e) =>
          \A f \in IO : IF f \in got THEN Named(pollerdata[s], f) = c /\ Named(nd, f) = NONE
                                     ELSE Named(nd, f) = Named(pollerdata[s], f)

LEMMA DeliverStep ==
    ASSUME WInv, Alive, InCallback, NEW c \in Cos, NEW s \in Socks, NEW got, NEW nd,
           Delivers(c, s, got, nd), KeepsComing(c)
    PROVE  WInv'
<1>3. got \in SUBSET Flags /\ co[c] \in CoData
  BY DEF Delivers, WInv, RightResult, WTypeOK
<1> USE DEF Delivers
<1>1. LoopInv /\ WTypeOK /\ c # NONE /\ s # NONE
  BY NoneAssumption DEF WInv, RightResult
<1>2. UNCHANGED <<usage, kernel, late>>
  BY DEF InCallback
<1>4. \A f \in IO : /\ Waiter(s, f) = Named(pollerdata[s], f)
                     /\ Waiter(s, f)' = Named(nd, f)
  BY <1>1 DEF Waiter, Named, WTypeOK
<1>5. CASE \E e \in got \cap IO : Waiting(c, s, e)
  <2>1. PICK e \in got \cap IO : Waiting(c, s, e)
    BY <1>5
  <2> DEFINE x == [co[c] EXCEPT !.state = "running", !.timer = "none",
                                !.how = "event", !.got = got]
  <2>2. /\ x \in CoData /\ x.state = "running" /\ x.got = got
        /\ x.on = co[c].on /\ x.want = co[c].want
    <3> HIDE DEF Delivers
    <3> QED BY <1>3 DEF CoData
  <2>3. co' = [co EXCEPT ![c] = x] /\ cur' = c /\ phase' = phase
    BY <1>5 DEF Resume
  <2> HIDE DEF x
  <2>4. /\ co' \in [Cos -> CoData] /\ co'[c] = x
        /\ \A y \in Cos : y # c => co'[y] = co[y]
    BY <1>1, <2>2, <2>3 DEF WTypeOK
  <2>5. /\ co[c].state = "suspended" /\ co[c].on = s /\ co[c].want = e
        /\ \A f \in got \cap IO : f # e => <<c, f>> \in late[s]
    BY <2>1 DEF Waiting, Known
  <2>6. Runs(c)
    BY <2>1, <2>2, <2>3, <2>4, <2>5 DEF Runs
  <2>7. Forgets(c)
    <3>1. \A t \in Socks \ {s}, f \in IO : Waiter(t, f)' = Waiter(t, f) /\ ~Waiting(c, t, f)
      BY <1>1, <2>5 DEF Waiter, Waiting, WTypeOK
    <3>2. \A f \in IO : IF f \in got THEN Waiter(s, f) = c /\ Waiter(s, f)' = NONE
                                     ELSE Waiter(s, f)' = Waiter(s, f) /\ ~Waiting(c, s, f)
      BY <1>4, <2>1, <2>5 DEF Waiting
    <3> QED BY <3>1, <3>2 DEF Forgets
  <2> QED BY <2>6, <2>7, AliveStep
<1>6. CASE ~\E e \in got \cap IO : Waiting(c, s, e)
  <2>1. phase' \in {"broken", "astray"} /\ UNCHANGED <<co, cur>>
    BY <1>6 DEF Resume
  <2>2. late[s] # {}
    BY <1>6 DEF Known
  <2>3. cb' \in CallbackData
    BY DEF KeepsComing
  <2> QED BY <2>1, <2>2, <2>3, LostStep
<1> QED BY <1>5, <1>6

(* No coroutine is resumed.                                                *)
LEMMA SaveStep ==
    ASSUME WInv, Alive, InCallback, KeepsComing(NONE), UNCHANGED <<phase, co, cur>>,
           \A t \in Socks, f \in IO : pollerdata[t] # NONE => Waiter(t, f)' = Waiter(t, f)
    PROVE  WInv'
<1>1. co \in [Cos -> CoData] /\ cur = NONE
  BY DEF WInv, RightResult, WTypeOK, InCallback
<1>2. Runs(NONE) /\ Forgets(NONE)
  BY <1>1 DEF Runs, Forgets
<1> QED BY <1>2, AliveStep

LEMMA EventRestStep ==
    ASSUME WInv, Alive, EventRest
    PROVE  WInv'
<1>1. LoopInv /\ WTypeOK
  BY DEF WInv, RightResult
<1>2. /\ cb \in CallbackData /\ cb # NONE /\ cur = NONE /\ phase = "events"
      /\ pollerdata \in [Socks -> {NONE} \cup PollerData]
      /\ batch \in Seq(EventData)
      /\ UNCHANGED <<usage, kernel, batch, late>>
      /\ cb.sock \in Socks => pollerdata[cb.sock] # NONE
  BY <1>1 DEF WTypeOK, EventRest, LoopInv, SockInv
<1>3. RECV # SEND /\ RECV \in IO /\ SEND \in IO /\ IO = {RECV, SEND}
  BY DEF RECV, SEND, IO
<1>4. CASE cb.send # NONE
  <2> DEFINE c == cb.send
             s == cb.sock
             got == Mine(cb.events, SEND)
             cb2 == [cb EXCEPT !.events = @ \ {SEND}, !.send = NONE]
  <2>1. /\ c \in Cos /\ s \in Socks \cup {NONE} /\ SEND \in cb.events /\ got = {SEND}
        /\ s # NONE => Known(c, s, SEND)
    BY <1>1, <1>2, <1>3, <1>4 DEF LoopInv, CallbackInv, CallbackData, Mine
  <2>2. cb2 \in CallbackData /\ cb2.sock = s /\ cb2.send = NONE /\ cb2 # NONE
    <3>1. cb2 \in CallbackData /\ cb2.sock = s /\ cb2.send = NONE
      BY <1>2 DEF CallbackData
    <3> QED BY <3>1, NoneAssumption
  <2>3. cb' = cb2 /\ Resume(c, s, got)
    BY <1>4 DEF EventRest
  <2>4. ASSUME s = NONE PROVE WInv'
    <3>1. pollerdata' = pollerdata
      BY <1>4, <2>4 DEF EventRest
    <3>2. ~\E e \in got \cap IO : Waiting(c, s, e)
      BY <1>1, <1>3, <2>1, <2>4, NoneAssumption DEF LoopInv, CoInv, Waiting
    <3>3. phase' \in {"broken", "astray"} /\ UNCHANGED <<co, cur>>
      BY <2>3, <3>2 DEF Resume
    <3>4. InCallback
      BY <1>2, <3>1 DEF InCallback
    <3> QED BY <2>2, <2>3, <2>4, <3>3, <3>4, LostStep
  <2>5. ASSUME s # NONE PROVE WInv'
    <3> DEFINE nd == [pollerdata[s] EXCEPT !.send = NONE]
    <3>1. s \in Socks /\ pollerdata[s] # NONE /\ pollerdata[s] \in PollerData
      BY <1>2, <2>1, <2>5
    <3>2. /\ nd \in PollerData /\ nd.wait = pollerdata[s].wait
          /\ nd.recv = pollerdata[s].recv /\ nd.send = NONE
      BY <3>1 DEF PollerData
    <3>3. pollerdata' = [pollerdata EXCEPT ![s] = nd]
      BY <1>4, <2>5 DEF EventRest
    <3> HIDE DEF nd, c, s, got, cb2
    <3>4. nd # NONE
      BY <3>2, NoneAssumption
    <3>5. InCallback
      BY <1>2, <3>1, <3>2, <3>3, <3>4 DEF InCallback
    <3>6. KeepsComing(c)
      <4>1. \A y \in Cos, t \in Socks, f \in IO :
               y # c /\ Coming(y, t, f) => Coming(y, t, f)'
        BY <1>2 DEF Coming, Reported, c
      <4> QED BY <2>2, <2>3, <3>1, <4>1 DEF KeepsComing
    <3>7. Waiting(c, s, SEND) => Named(pollerdata[s], SEND) = c
      BY <1>1, <1>3, <2>1, <3>1 DEF LoopInv, WaitingInv, Waiter, Named
    <3>8. Named(nd, SEND) = NONE /\ Named(nd, RECV) = Named(pollerdata[s], RECV)
      BY <1>3, <3>2 DEF Named
    <3>9. Delivers(c, s, got, nd)
      BY <1>3, <2>1, <2>2, <2>3, <2>5, <3>1, <3>2, <3>3, <3>7, <3>8 DEF Delivers, Flags
    <3> QED BY <2>1, <3>1, <3>5, <3>6, <3>9, DeliverStep
  <2> QED BY <2>4, <2>5
<1>5. CASE cb.send = NONE
  <2> DEFINE s == cb.sock
             nd == [pollerdata[s] EXCEPT !.save = Saved(cb.save, cb.events)]
  <2>1. cb' = NONE /\ UNCHANGED <<phase, co, cur>>
    BY <1>5 DEF EventRest
  <2>2. KeepsComing(NONE)
    <3>1. \A y \in Cos, t \in Socks, f \in IO : Coming(y, t, f) => Coming(y, t, f)'
      BY <1>2, <1>5, NoneAssumption DEF Coming, Reported
    <3> QED BY <2>1, <3>1 DEF KeepsComing
  <2>3. CASE s = NONE \/ cb.events = {}
    <3>1. pollerdata' = pollerdata
      BY <1>5, <2>3 DEF EventRest
    <3>2. InCallback
      BY <1>2, <3>1 DEF InCallback
    <3> QED BY <2>1, <2>2, <3>1, <3>2, SaveStep DEF Waiter
  <2>4. CASE ~(s = NONE \/ cb.events = {})
    <3>1. s \in Socks /\ pollerdata[s] \in PollerData /\ pollerdata[s] # NONE
      BY <1>2, <2>4 DEF CallbackData
    <3>2. Saved(cb.save, cb.events) \in SUBSET Flags
      BY <1>2 DEF Saved, CallbackData, Flags
    <3>3. /\ nd \in PollerData /\ nd.wait = pollerdata[s].wait
          /\ nd.recv = pollerdata[s].recv /\ nd.send = pollerdata[s].send
      BY <3>1, <3>2 DEF PollerData
    <3>4. pollerdata' = [pollerdata EXCEPT ![s] = nd]
      BY <1>5, <2>4 DEF EventRest
    <3>5. nd # NONE
      BY <3>3, NoneAssumption
    <3> HIDE DEF nd, s
    <3>6. InCallback
      BY <1>2, <3>1, <3>3, <3>4, <3>5 DEF InCallback
    <3>7. \A t \in Socks, f \in IO : Waiter(t, f)' = Waiter(t, f)
      BY <1>2, <3>1, <3>3, <3>4 DEF Waiter
    <3> QED BY <2>1, <2>2, <3>6, <3>7, SaveStep
  <2> QED BY <2>3, <2>4
<1> QED BY <1>4, <1>5

(* The first event is taken out of the batch.                              *)
LEMMA Popped ==
    ASSUME batch \in Seq(EventData), batch # <<>>, batch' = Tail(batch)
    PROVE  /\ Head(batch) \in EventData /\ batch' \in Seq(EventData)
           /\ \E i \in DOMAIN batch : batch[i] = Head(batch)
           /\ \A i \in DOMAIN batch' : \E j \in DOMAIN batch : batch'[i] = batch[j]
           /\ \A j \in DOMAIN batch : \/ batch[j] = Head(batch)
                                    \/ \E i \in DOMAIN batch' : batch'[i] = batch[j]
<1>1. /\ batch' \in Seq(EventData) /\ Len(batch') = Len(batch) - 1 /\ Len(batch) \in Nat \ {0}
      /\ DOMAIN batch' = 1..Len(batch') /\ DOMAIN batch = 1..Len(batch)
  BY HeadTailProperties, EmptySeq, LenProperties
<1>2. \A i \in 1..Len(batch') : batch'[i] = batch[i + 1]
  BY HeadTailProperties
<1>3. Head(batch) = batch[1] /\ Head(batch) \in EventData
  BY HeadTailProperties
<1>4. \A i \in DOMAIN batch' : \E j \in DOMAIN batch : batch'[i] = batch[j]
  <2> SUFFICES ASSUME NEW i \in 1..Len(batch') PROVE \E j \in DOMAIN batch : batch'[i] = batch[j]
    BY <1>1
  <2>1. i + 1 \in DOMAIN batch
    BY <1>1
  <2> QED BY <1>2, <2>1
<1>5. ASSUME NEW j \in DOMAIN batch, j # 1
      PROVE  \E i \in DOMAIN batch' : batch'[i] = batch[j]
  <2>1. j - 1 \in 1..Len(batch') /\ (j - 1) + 1 = j
    BY <1>1, <1>5
  <2> QED BY <1>1, <1>2, <2>1
<1>6. 1 \in DOMAIN batch
  BY <1>1
<1> QED BY <1>1, <1>3, <1>4, <1>5, <1>6

LEMMA EventStep ==
    ASSUME WInv, Alive, Event
    PROVE  WInv'
<1> DEFINE ev == Head(batch)
           s == ev.sock
           d == IF s = NONE THEN NONE ELSE pollerdata[s]
           events == ev.events \ {EOF}
           save == IF EOF \in ev.events THEN d.save \cup d.wait ELSE d.save
           recv == IF RECV \in events THEN d.recv ELSE NONE
           send == IF SEND \in events THEN d.send ELSE NONE
           Callback(left, sender) == [sock |-> s, events |-> left, save |-> save,
                                      send |-> sender]
<1>1. LoopInv /\ WTypeOK
  BY DEF WInv, RightResult
<1>2. /\ pollerdata \in [Socks -> {NONE} \cup PollerData] /\ batch \in Seq(EventData)
      /\ cur = NONE /\ phase = "events" /\ batch # <<>> /\ batch' = Tail(batch) /\ cb = NONE
      /\ UNCHANGED <<usage, kernel, late>>
  BY <1>1 DEF WTypeOK, Event
<1>3. /\ ev \in EventData /\ batch' \in Seq(EventData)
      /\ \E i \in DOMAIN batch : batch[i] = ev
      /\ \A i \in DOMAIN batch' : \E j \in DOMAIN batch : batch'[i] = batch[j]
      /\ \A j \in DOMAIN batch : batch[j] = ev \/ \E i \in DOMAIN batch' : batch'[i] = batch[j]
  BY <1>2, Popped
<1>4. RECV # SEND /\ RECV \in IO /\ SEND \in IO /\ IO = {RECV, SEND} /\ EOF \notin IO
  BY DEF RECV, SEND, EOF, IO
<1>5. s \in Socks \cup {NONE} /\ events \in SUBSET IO
  BY <1>3, <1>4 DEF EventData
<1>6. CASE d = NONE
  <2>1. s = NONE
    <3>1. \A t \in Socks : t = s => pollerdata[t] # NONE
      BY <1>1, <1>3 DEF LoopInv, SockInv
    <3> QED BY <1>5, <1>6, <3>1
  <2>2. /\ phase' = "broken" /\ UNCHANGED <<pollerdata, co, cur>>
        /\ cb' = [sock |-> s, events |-> {}, save |-> {}, send |-> NONE]
    BY <1>6 DEF Event
  <2>3. cb' \in CallbackData /\ cb'.sock = NONE
    BY <2>1, <2>2 DEF CallbackData
  <2>4. InCallback
    BY <1>2, <1>3, <2>2 DEF InCallback
  <2> QED BY <2>2, <2>3, <2>4, LostStep
<1>7. CASE d # NONE
  <2>1. s \in Socks /\ d = pollerdata[s] /\ pollerdata[s] # NONE /\ d \in PollerData /\ s # NONE
    BY <1>2, <1>5, <1>7
  <2>2. /\ d.recv \in Cos \cup {NONE} /\ d.send \in Cos \cup {NONE}
        /\ d.wait \in SUBSET Flags /\ save \in SUBSET Flags
        /\ recv \in Cos \cup {NONE} /\ send \in Cos \cup {NONE}
    <3>1. /\ d.recv \in Cos \cup {NONE} /\ d.send \in Cos \cup {NONE}
          /\ d.wait \in SUBSET Flags /\ d.save \in SUBSET Flags
      BY <2>1 DEF PollerData
    <3> HIDE DEF d
    <3> QED BY <3>1
  <2>3. /\ Waiter(s, RECV) = d.recv /\ Waiter(s, SEND) = d.send
        /\ Named(d, RECV) = d.recv /\ Named(d, SEND) = d.send
    BY <1>4, <2>1 DEF Waiter, Named
  <2>4. /\ recv # NONE => RECV \in events /\ recv = d.recv /\ Known(recv, s, RECV)
        /\ send # NONE => SEND \in events /\ send = d.send /\ Known(send, s, SEND)
    <3>1. WaiterInv(s, RECV) /\ WaiterInv(s, SEND)
      BY <1>1, <1>4, <2>1 DEF LoopInv
    <3>2. /\ d.recv # NONE => Known(d.recv, s, RECV)
          /\ d.send # NONE => Known(d.send, s, SEND)
      BY <2>1, <2>3, <3>1 DEF WaiterInv
    <3> HIDE DEF d, s, events
    <3> QED BY <3>2
  <2>5. ASSUME NEW y \in Cos, NEW t \in Socks, NEW f \in IO,
               Waiting(y, t, f), Coming(y, t, f)
        PROVE  \/ Coming(y, t, f)'
               \/ t = s /\ f = RECV /\ y = recv
               \/ t = s /\ f = SEND /\ y = send
    <3>1. CASE kernel[t].edge /\ f \in Reported(t)
      BY <1>2, <3>1 DEF Coming, Reported
    <3>2. ASSUME NEW j \in DOMAIN batch, batch[j].sock = t, f \in batch[j].events
          PROVE  \/ Coming(y, t, f)'
                 \/ t = s /\ f = RECV /\ y = recv
                 \/ t = s /\ f = SEND /\ y = send
      <4>1. CASE batch[j] = ev
        <5>1. t = s /\ f \in events
          BY <1>4, <3>2, <4>1
        <5>2. y = Waiter(s, f)
          BY <1>1, <2>5, <5>1 DEF LoopInv, WaitingInv
        <5> HIDE DEF d, s, events
        <5> QED BY <1>4, <2>3, <5>1, <5>2
      <4>2. CASE batch[j] # ev
        BY <1>3, <3>2, <4>2 DEF Coming
      <4> QED BY <4>1, <4>2
    <3> QED BY <1>2, <2>5, <3>1, <3>2 DEF Coming
  <2>6. ASSUME NEW nd \in PollerData, nd.wait = d.wait, pollerdata' = [pollerdata EXCEPT ![s] = nd]
        PROVE  InCallback
    <3>1. nd # NONE
      BY NoneAssumption
    <3> QED BY <1>2, <1>3, <2>1, <2>6, <3>1 DEF InCallback
  <2>7. ASSUME NEW kinds \in SUBSET IO
        PROVE  /\ Without(d, save, kinds) \in PollerData
               /\ Without(d, save, kinds).wait = d.wait
               /\ \A f \in IO : Named(Without(d, save, kinds), f) =
                                 IF f \in kinds THEN NONE ELSE Named(d, f)
    <3> HIDE DEF d, save
    <3> QED BY <1>4, <2>1, <2>2 DEF Without, PollerData, Named
  <2>9. ASSUME NEW left \in SUBSET IO, NEW sender \in Cos \cup {NONE},
               cb' = Callback(left, sender)
        PROVE  /\ cb' \in CallbackData /\ cb' # NONE /\ cb'.sock = s /\ cb'.events = left
               /\ cb'.send = sender
    <3>1. cb' \in CallbackData /\ cb'.sock = s /\ cb'.events = left /\ cb'.send = sender
      <4> HIDE DEF save, s
      <4> QED BY <1>5, <2>2, <2>9 DEF CallbackData
    <3> QED BY <3>1, NoneAssumption
  <2>10. CASE recv # NONE /\ recv = send
    <3>1. /\ pollerdata' = [pollerdata EXCEPT ![s] = Without(d, save, IO)]
          /\ Resume(recv, s, events) /\ cb' = Callback({}, NONE)
      BY <1>7, <2>1, <2>10 DEF Event
    <3>2. /\ cb' \in CallbackData /\ cb' # NONE /\ cb'.sock = s /\ cb'.send = NONE
      BY <2>9, <3>1
    <3> DEFINE nd == Without(d, save, IO)
    <3>3. nd \in PollerData /\ nd.wait = d.wait /\ \A f \in IO : Named(nd, f) = NONE
      BY <1>4, <2>7
    <3>4. pollerdata' = [pollerdata EXCEPT ![s] = nd]
      BY <3>1
    <3>5. events = {RECV, SEND} /\ recv \in Cos /\ events \in SUBSET Flags
      BY <1>4, <1>5, <2>2, <2>4, <2>10 DEF Flags
    <3> HIDE DEF nd, d, save, events, recv, send, s
    <3>6. InCallback
      BY <2>6, <3>3, <3>4
    <3>8. KeepsComing(recv)
      BY <2>1, <2>5, <2>10, <3>2 DEF KeepsComing
    <3>9. Delivers(recv, s, events, nd)
      BY <1>4, <2>1, <2>3, <2>4, <2>10, <3>1, <3>2, <3>3, <3>4, <3>5 DEF Delivers
    <3> QED BY <2>1, <3>5, <3>6, <3>8, <3>9, DeliverStep
  <2>11. CASE recv # NONE /\ recv # send
    <3>1. /\ pollerdata' = [pollerdata EXCEPT ![s] = Without(d, save, {RECV})]
          /\ Resume(recv, s, Mine(events, RECV)) /\ cb' = Callback(events \ {RECV}, send)
      BY <1>7, <2>1, <2>11 DEF Event
    <3> DEFINE nd == Without(d, save, {RECV})
               got == Mine(events, RECV)
               left == events \ {RECV}
    <3>2. /\ cb' \in CallbackData /\ cb' # NONE /\ cb'.sock = s /\ cb'.send = send
          /\ cb'.events = left
      <4>1. left \in SUBSET IO
        BY <1>5
      <4> HIDE DEF left
      <4> QED BY <2>2, <2>9, <3>1, <4>1 DEF left
    <3>3. /\ nd \in PollerData /\ nd.wait = d.wait
          /\ Named(nd, RECV) = NONE /\ Named(nd, SEND) = Named(d, SEND)
      BY <1>4, <2>7
    <3>4. pollerdata' = [pollerdata EXCEPT ![s] = nd] /\ Resume(recv, s, got)
      BY <3>1
    <3>5. /\ got = {RECV} /\ recv \in Cos /\ got \in SUBSET Flags
          /\ send # NONE => SEND \in left
      <4> HIDE DEF d, recv, send, events, s
      <4> QED BY <1>4, <1>5, <2>2, <2>4, <2>11 DEF Flags, Mine
    <3> HIDE DEF nd, d, save, events, recv, send, s, got, left
    <3>6. InCallback
      BY <2>6, <3>3, <3>4
    <3>8. KeepsComing(recv)
      <4>1. \A y \in Cos, t \in Socks, f \in IO :
               y # recv /\ Waiting(y, t, f) /\ Coming(y, t, f) => Coming(y, t, f)'
        BY <2>5, <3>2, <1>4 DEF Coming
      <4> QED BY <2>1, <2>4, <2>11, <3>2, <3>5, <4>1 DEF KeepsComing
    <3>9. Delivers(recv, s, got, nd)
      BY <1>4, <2>1, <2>3, <2>4, <2>11, <3>2, <3>3, <3>4, <3>5 DEF Delivers
    <3> QED BY <2>1, <3>5, <3>6, <3>8, <3>9, DeliverStep
  <2>12. CASE recv = NONE /\ send # NONE
    <3>1. /\ pollerdata' = [pollerdata EXCEPT ![s] = Without(d, save, {SEND})]
          /\ Resume(send, s, Mine(events, SEND)) /\ cb' = Callback(events \ {SEND}, NONE)
      BY <1>7, <2>1, <2>12 DEF Event
    <3> DEFINE nd == Without(d, save, {SEND})
               got == Mine(events, SEND)
               left == events \ {SEND}
    <3>2. cb' \in CallbackData /\ cb' # NONE /\ cb'.sock = s /\ cb'.send = NONE
      <4>1. left \in SUBSET IO
        BY <1>5
      <4> HIDE DEF left
      <4> QED BY <2>9, <3>1, <4>1 DEF left
    <3>3. /\ nd \in PollerData /\ nd.wait = d.wait
          /\ Named(nd, SEND) = NONE /\ Named(nd, RECV) = Named(d, RECV)
      BY <1>4, <2>7
    <3>4. pollerdata' = [pollerdata EXCEPT ![s] = nd] /\ Resume(send, s, got)
      BY <3>1
    <3>5. got = {SEND} /\ send \in Cos /\ got \in SUBSET Flags
      <4> HIDE DEF d, recv, send, events, s
      <4> QED BY <1>4, <1>5, <2>2, <2>4, <2>12 DEF Flags, Mine
    <3> HIDE DEF nd, d, save, events, recv, send, s, got, left
    <3>6. InCallback
      BY <2>6, <3>3, <3>4
    <3>8. KeepsComing(send)
      <4>1. \A y \in Cos : y # NONE
        BY NoneAssumption
      <4> QED BY <2>1, <2>5, <2>12, <3>2, <4>1 DEF KeepsComing
    <3>9. Delivers(send, s, got, nd)
      BY <1>4, <2>1, <2>3, <2>4, <2>12, <3>2, <3>3, <3>4, <3>5 DEF Delivers
    <3> QED BY <2>1, <3>5, <3>6, <3>8, <3>9, DeliverStep
  <2>13. CASE recv = NONE /\ send = NONE
    <3> DEFINE nd == [d EXCEPT !.save = Saved(save, events)]
    <3>1. /\ pollerdata' = [pollerdata EXCEPT ![s] = nd]
          /\ UNCHANGED <<phase, co, cur, cb>>
      BY <1>7, <2>1, <2>13 DEF Event
    <3>2. Saved(save, events) \in SUBSET Flags
      <4> HIDE DEF save, events
      <4> QED BY <1>5, <2>2 DEF Saved, Flags
    <3>3. nd \in PollerData /\ nd.wait = d.wait /\ nd.recv = d.recv /\ nd.send = d.send
      <4> HIDE DEF d, save, events
      <4> QED BY <2>1, <3>2 DEF PollerData
    <3> HIDE DEF nd, d, save, events, recv, send, s
    <3>4. InCallback
      BY <2>6, <3>1, <3>3
    <3>5. \A t \in Socks, f \in IO : pollerdata[t] # NONE => Waiter(t, f)' = Waiter(t, f)
      BY <1>2, <2>1, <3>1, <3>3 DEF Waiter
    <3>6. KeepsComing(NONE)
      <4>1. \A y \in Cos : y # NONE
        BY NoneAssumption
      <4> QED BY <1>2, <2>5, <2>13, <3>1, <4>1 DEF KeepsComing
    <3> QED BY <3>1, <3>4, <3>5, <3>6, SaveStep
  <2> QED BY <2>10, <2>11, <2>12, <2>13
<1> QED BY <1>6, <1>7

-----------------------------------------------------------------------------
LEMMA WInvInit == WInit => WInv
<1> SUFFICES ASSUME WInit PROVE WInv
  OBVIOUS
<1>1. NewSocket \in KernelData /\ NewSocket.reg = {} /\ ~NewSocket.edge
  BY DEF NewSocket, KernelData
<1>2. NewCo \in CoData /\ NewCo.state = "suspended" /\ NewCo.on = NONE /\ NewCo.want = NONE
  BY DEF NewCo, CoData
<1>3. WTypeOK
  BY <1>1, <1>2, NoneAssumption DEF WInit, WTypeOK
<1>4. RightResult /\ LoopSurvives /\ Alive
  BY <1>2, <1>3 DEF WInit, RightResult, LoopSurvives, Alive
<1>5. ASSUME NEW s \in Socks PROVE SockInv(s)
  BY <1>1 DEF WInit, SockInv
<1>6. \A c \in Cos, s \in Socks, e \in IO : ~Waiting(c, s, e)
  BY <1>2, NoneAssumption DEF WInit, Waiting
<1>7. LoopInv
  BY <1>2, <1>5, <1>6 DEF WInit, LoopInv, CoInv, WaiterInv, WaitingInv, CallbackInv
<1> QED BY <1>4, <1>7 DEF WInv

LEMMA WInvNext == WInv /\ [WNext]_wvars => WInv'
<1> SUFFICES ASSUME WInv, [WNext]_wvars PROVE WInv'
  OBVIOUS
<1>1. ASSUME NEW s \in Socks, NEW e \in IO, Arrive(s, e) PROVE WInv'
  BY <1>1, ArriveStep
<1>2. ASSUME NEW s \in Socks, PeerClose(s) PROVE WInv'
  BY <1>2, PeerCloseStep
<1>3. ASSUME NEW c \in Cos, NEW s \in Socks, NEW e \in IO, Transfer(c, s, e) PROVE WInv'
  BY <1>3, TransferStep
<1>4. cur # NONE \/ phase \in {"poll", "events", "timer"} => Alive
  BY DEF WInv, Alive
<1>5. \A c \in Cos : c # NONE
  BY NoneAssumption
<1>6. ASSUME NEW c \in Cos, Acts(c) PROVE WInv'
  <2>1. cur = c
    <3>1. ASSUME NEW s \in Socks, NEW e \in IO, NEW timed \in BOOLEAN, Wait(c, s, e, timed)
          PROVE  cur = c
      BY <3>1 DEF Wait
    <3> QED BY <1>6, <3>1 DEF Acts, Close, Sleep, Finish
  <2>2. Alive
    BY <1>4, <1>5, <2>1
  <2> QED BY <1>6, <2>2, WaitStep, CloseStep, SleepStep, FinishStep DEF Acts
<1>7. ASSUME NEW c \in Cos, StartCo(c) \/ Timeout(c) PROVE WInv'
  <2>1. Alive
    BY <1>4, <1>7 DEF StartCo, Timeout
  <2> QED BY <1>7, <2>1, StartCoStep, TimeoutStep
<1>8. CASE Poll \/ Event \/ EventRest \/ EventsDone \/ TimersDone
  <2>1. Alive
    BY <1>4, <1>8 DEF Poll, Event, EventRest, EventsDone, TimersDone
  <2> QED BY <1>8, <2>1, PollStep, EventStep, EventRestStep, EventsDoneStep, TimersDoneStep
<1>9. CASE UNCHANGED wvars
  <2>1. UNCHANGED <<usage, pollerdata, kernel, co, cur, loop, cb, late>> /\ UNCHANGED batch
    BY <1>9 DEF wvars, loop
  <2>2. kernel \in [Socks -> KernelData]
    BY DEF WInv, RightResult, WTypeOK
  <2>3. ASSUME Alive, NEW c \in Cos, NEW s \in Socks, NEW e \in IO,
               Waiting(c, s, e), Ready(s, e)'
        PROVE  Coming(c, s, e)'
    <3>1. Ready(s, e)
      BY <2>1, <2>3 DEF Ready, Blocks
    <3>2. Coming(c, s, e)
      BY <2>3, <3>1 DEF WInv, LoopInv, WaitingInv
    <3> QED BY <2>1, <3>2 DEF Coming, Reported
  <2> QED BY <2>1, <2>2, <2>3, KernelStep
<1> QED
  BY <1>1, <1>2, <1>3, <1>6, <1>7, <1>8, <1>9 DEF WNext

LEMMA WInvHolds == WSpec => []WInv
BY WInvInit, WInvNext, PTL DEF WSpec

-----------------------------------------------------------------------------
(* For any number of sockets and coroutines, whatever these do: a wait of  *)
(* poller_wait that an event ends returns the event it was for, and the    *)
(* state has its shape.                                                    *)
THEOREM RightResultHolds == WSpec => []RightResult
<1>1. WInv => RightResult
  BY DEF WInv
<1> QED BY <1>1, WInvHolds, PTL

(* For any number of sockets and coroutines, whatever these do:            *)
(* _poller_events_cb finds no poller data for an event, or resumes a       *)
(* coroutine that does not wait for it, only when the socket was closed    *)
(* after poller:wait had returned the event, or a wait for it timed out.   *)
THEOREM LoopSurvivesHolds == WSpec => []LoopSurvives
<1>1. WInv => LoopSurvives
  BY DEF WInv
<1> QED BY <1>1, WInvHolds, PTL

(* For any number of sockets and coroutines, whatever these do: as long as *)
(* the loop goes on, a coroutine in poller_wait whose socket is ready is   *)
(* in the poller data and has its event coming.                            *)
THEOREM NoMissedEventHolds == WSpec => []NoMissedEvent
<1>1. WInv => NoMissedEvent
  <2> SUFFICES ASSUME WInv, Alive PROVE NoMissedEvent
    BY DEF NoMissedEvent
  <2>1. LoopInv
    BY DEF WInv
  <2> QED BY <2>1 DEF NoMissedEvent, LoopInv, WaitingInv
<1> QED BY <1>1, WInvHolds, PTL
=============================================================================
