------------------------------ MODULE PollerWait ------------------------------
(***************************************************************************)
(* Waiting for sockets and pipes in the scheduler                          *)
(* (core/base/scheduler.lua: poller_wait, _poller_events_cb, poller_cancel *)
(* and the run loop) on edge-triggered epoll                               *)
(* (core/src/xutil/platform/linux/poller_epoll.c).                         *)
(*                                                                         *)
(* The scheduler keeps for each object which coroutine waits for recv and  *)
(* which for send, the events it asked epoll for, and events that came     *)
(* when nobody waited.  A callback resumes a coroutine in the middle of    *)
(* its work: the coroutine runs until it suspends again, and may wait for  *)
(* the same object or close it, before the callback goes on with what it   *)
(* had read before.  An event set is a set of the flags below.             *)
(*                                                                         *)
(* A coroutine here is any program that waits for one direction of an      *)
(* object at a time.  It may leave objects open while it does something    *)
(* else, as a server does while it compiles, go on after a timeout without *)
(* closing the object, as the distcc client does, share an object with     *)
(* another coroutine, as remote_build does, or take it over from one, as   *)
(* the remote cache does with the sockets of its pool.                     *)
(***************************************************************************)
EXTENDS Naturals, Sequences, FiniteSets, SequencesExt

CONSTANTS
    Socks,      \* sockets and pipes
    Cos,        \* coroutines
    Usages,     \* how coroutines use them: see UsageOK
    NONE

RECV == "recv"
SEND == "send"
CLEAR == "clear"    \* edge trigger
EOF == "eof"
IO == {RECV, SEND}

(* What each coroutine waits for on each object, and which objects are     *)
(* pipes to read from.                                                     *)
UsageOK(u) ==
    /\ u.waits \in [Cos -> [Socks -> SUBSET IO]]
    /\ u.pipes \subseteq Socks
    /\ \A c \in Cos, s \in u.pipes : u.waits[c][s] \subseteq {RECV}

ASSUME UsageAssumption == \A u \in Usages : UsageOK(u)

(* The poller data of a socket, what epoll has of it, a coroutine, an      *)
(* event, and what a callback keeps while it resumes a coroutine           *)
Flags == IO \cup {CLEAR}
PollerData == [wait : SUBSET Flags, save : SUBSET Flags,
               recv : Cos \cup {NONE}, send : Cos \cup {NONE}]
KernelData == [reg : SUBSET Flags, ready : SUBSET IO, eof : BOOLEAN, edge : BOOLEAN]
CoData == [state : {"suspended", "running", "dead"}, on : Socks \cup {NONE},
           want : IO \cup {NONE}, timer : {"none", "new", "due"},
           how : {"none", "event", "cache", "timeout"}, got : SUBSET Flags]
EventData == [sock : Socks \cup {NONE}, events : SUBSET (IO \cup {EOF})]
CallbackData == [sock : Socks \cup {NONE}, events : SUBSET IO, save : SUBSET Flags,
                 send : Cos \cup {NONE}]

ASSUME NoneAssumption ==
    /\ NONE \notin Cos \cup Socks \cup IO
    /\ \A x \in PollerData \cup CallbackData : x # NONE

ASSUME FiniteAssumption == IsFiniteSet(Socks)

VARIABLES
    usage,      \* never changed
    pollerdata, \* _POLLERDATA: the poller data of each socket
    kernel,     \* what epoll and the kernel know of each socket
    co,         \* the coroutines
    cur,        \* the coroutine that runs, NONE when the run loop runs
    phase,      \* where the run loop is
    batch,      \* the events poller:wait returned that are still to be handled
    cb,         \* the callback that has resumed a coroutine and is not over
    late        \* history: the waits that timed out and left the socket open

loop == <<phase, batch>>
wvars == <<usage, pollerdata, kernel, co, cur, loop, cb, late>>

NewData == [wait |-> {}, save |-> {}, recv |-> NONE, send |-> NONE]
NewSocket == [reg |-> {}, ready |-> {}, eof |-> FALSE, edge |-> FALSE]

(* on and want are what the coroutine waits or waited for; timer tells     *)
(* whether its timer task is pending; how it was resumed or answered, and  *)
(* with what                                                               *)
NewCo == [state |-> "suspended", on |-> NONE, want |-> NONE, timer |-> "none",
          how |-> "none", got |-> {}]

WInit ==
    /\ usage \in Usages
    /\ pollerdata = [s \in Socks |-> NONE]
    /\ kernel = [s \in Socks |-> NewSocket]
    /\ co = [c \in Cos |-> NewCo]
    /\ cur = NONE
    /\ phase = "poll"
    /\ batch = <<>>
    /\ cb = NONE
    /\ late = [s \in Socks |-> {}]

Uses(c, s) == usage.waits[c][s] # {}

-----------------------------------------------------------------------------
(* epoll and the other end of a connection                                 *)

(* insert and modify of poller:insert and poller:modify: what is ready is  *)
(* reported again                                                          *)
Register(k, events) ==
    [k EXCEPT !.reg = events,
              !.edge = @ \/ k.ready \cap events # {} \/ k.eof]

(* data or room in the buffer                                              *)
Arrive(s, e) ==
    /\ \E c \in Cos : Uses(c, s)
    /\ kernel' = [kernel EXCEPT ![s].ready = @ \cup {e},
                                ![s].edge = @ \/ e \in kernel[s].reg]
    /\ UNCHANGED <<usage, pollerdata, co, cur, loop, cb, late>>

(* the other end closes the connection (EPOLLIN and EPOLLRDHUP) or the     *)
(* pipe (EPOLLHUP)                                                         *)
PeerClose(s) ==
    /\ ~kernel[s].eof
    /\ \E c \in Cos : Uses(c, s)
    /\ kernel' = [kernel EXCEPT
          ![s].ready = IF s \in usage.pipes THEN @ ELSE @ \cup {RECV},
          ![s].eof = TRUE,
          ![s].edge = @ \/ kernel[s].reg # {}]
    /\ UNCHANGED <<usage, pollerdata, co, cur, loop, cb, late>>

(* Fault: the end of the connection takes the place of the other events.   *)
ReportedEnd(s) ==
    IF kernel[s].eof THEN {EOF} ELSE kernel[s].ready \cap kernel[s].reg

(* All that is ready and asked for comes with an event.  A pipe whose      *)
(* other end is closed and that has no data left is reported for both      *)
(* directions.                                                             *)
Reported(s) ==
    LET now == kernel[s].ready \cap kernel[s].reg
    IN  IF ~kernel[s].eof THEN now
        ELSE IF s \notin usage.pipes THEN now \cup {EOF}
        ELSE IF now = {} THEN IO ELSE now

-----------------------------------------------------------------------------
(* a coroutine                                                             *)

(* the coroutine has tried to use the socket, and it would block; recv does *)
(* not block when the other end has closed the connection                  *)
Blocks(s, e) == e = RECV => ~kernel[s].eof

Waiting(c, s, e) == co[c].state = "suspended" /\ co[c].on = s /\ co[c].want = e

Suspend(c, s, e, timed) ==
    /\ co' = [co EXCEPT ![c] = [NewCo EXCEPT !.on = s, !.want = e,
                  !.timer = IF ~timed THEN "none"
                            ELSE IF phase = "timer" THEN "new" ELSE "due"]]
    /\ cur' = NONE

(* the coroutine receives all there is, or sends until the buffer is full  *)
Transfer(c, s, e) ==
    /\ cur = c /\ e \in usage.waits[c][s]
    /\ e \in kernel[s].ready
    /\ e = RECV => ~kernel[s].eof
    /\ kernel' = [kernel EXCEPT ![s].ready = @ \ {e}]
    /\ UNCHANGED <<usage, pollerdata, co, cur, loop, cb, late>>

(* poller_wait with a cache: return what is cached of the events, which is *)
(* nothing when other events are cached                                    *)
ReturnCached(c, s, e) ==
    LET events == {e, CLEAR}
    IN  /\ co' = [co EXCEPT ![c] = [@ EXCEPT !.on = s, !.want = e, !.how = "cache",
                      !.got = pollerdata[s].save \cap events]]
        /\ pollerdata' = [pollerdata EXCEPT ![s].save = @ \ events]
        /\ UNCHANGED <<cur, late>>

(* Fault: what another coroutine waits for is not asked for any more.      *)
WaitEventsAlone(d, events) == events

(* the events another coroutine still waits for stay                       *)
WaitEvents(d, events) ==
    {e \in d.wait : /\ e = RECV => d.recv # NONE
                    /\ e = SEND => d.send # NONE} \cup events

(* poller:insert, or poller:modify when there are new events               *)
Asks(d, ask) == ~(ask \subseteq d.wait)

(* poller_wait(s, e, timeout), when no other coroutine waits for the same   *)
Wait(c, s, e, timed) ==
    LET events == {e, CLEAR}
        d == IF pollerdata[s] = NONE THEN NewData ELSE pollerdata[s]
        cached == d.wait # {} /\ d.save # {} /\ d.wait \cap events # {}
        k == [kernel[s] EXCEPT !.ready = @ \ {e}]
        ask == IF d.wait = {} THEN events ELSE WaitEvents(d, events)
    IN  /\ cur = c
        /\ e \in usage.waits[c][s]
        /\ Blocks(s, e)
        /\ \A o \in Cos : ~Waiting(o, s, e)
        /\ \/ /\ cached
              /\ kernel' = [kernel EXCEPT ![s] = k]
              /\ ReturnCached(c, s, e)
           \/ /\ ~cached
              /\ kernel' = [kernel EXCEPT ![s] =
                    IF Asks(d, ask) THEN Register(k, ask) ELSE k]
              /\ pollerdata' = [pollerdata EXCEPT ![s] =
                    [wait |-> ask, save |-> {},
                     recv |-> IF e = RECV THEN c ELSE d.recv,
                     send |-> IF e = SEND THEN c ELSE d.send]]
              /\ late' = [late EXCEPT ![s] = @ \ {<<c, e>>}]
              /\ Suspend(c, s, e, timed)
        /\ UNCHANGED <<usage, loop, cb>>

(* the coroutine waits for something else, with a timer: co_sleep, or a    *)
(* process, whose exit is handled after the events of all sockets          *)
Sleep(c) ==
    /\ cur = c
    /\ Suspend(c, NONE, NONE, TRUE)
    /\ UNCHANGED <<usage, pollerdata, kernel, loop, cb, late>>

(* the events and the callback of a socket that was closed                 *)
CloseBatch(s) == [i \in DOMAIN batch |->
                    IF batch[i].sock = s THEN [batch[i] EXCEPT !.sock = NONE] ELSE batch[i]]
CloseCallback(s) == IF cb # NONE /\ cb.sock = s THEN [cb EXCEPT !.sock = NONE] ELSE cb

(* A socket that is closed is taken out of the poller (poller_cancel); its *)
(* poller data is no longer that of the callback, and events of it that    *)
(* poller:wait has returned before find none.  s then stands for the next  *)
(* socket, and what was returned for this one is forgotten.  Nobody waits  *)
(* for it.                                                                 *)
Close(c, s) ==
    /\ cur = c
    /\ Uses(c, s)
    /\ pollerdata[s] # NONE
    /\ \A o \in Cos : co[o].state = "suspended" => co[o].on # s
    /\ pollerdata' = [pollerdata EXCEPT ![s] = NONE]
    /\ kernel' = [kernel EXCEPT ![s] = NewSocket]
    /\ co' = [co EXCEPT ![c].how = "none"]
    /\ batch' = CloseBatch(s)
    /\ cb' = CloseCallback(s)
    /\ late' = [late EXCEPT ![s] = {}]
    /\ UNCHANGED <<usage, cur, phase>>

(* it ends; it may leave sockets open, for others or in a session          *)
Finish(c) ==
    /\ cur = c
    /\ co' = [co EXCEPT ![c] = [NewCo EXCEPT !.state = "dead"]]
    /\ cur' = NONE
    /\ UNCHANGED <<usage, pollerdata, kernel, loop, cb, late>>

-----------------------------------------------------------------------------
(* the run loop                                                            *)

(* _poller_resume_co and co_resume, for a callback of s and these events.  *)
(* The loop ends with an error ("broken") when the coroutine is dead.  One *)
(* that waits for something else is resumed in the middle of that wait     *)
(* ("astray"); the model does not follow a program beyond this point.      *)
Resume(c, s, events) ==
    IF \E e \in events \cap IO : Waiting(c, s, e)
    THEN /\ co' = [co EXCEPT ![c] = [@ EXCEPT !.state = "running", !.timer = "none",
                                              !.how = "event", !.got = events]]
         /\ cur' = c
         /\ UNCHANGED phase
    ELSE /\ phase' = IF co[c].state = "suspended" THEN "astray" ELSE "broken"
         /\ UNCHANGED <<co, cur>>

(* a coroutine that uses sockets is started                                *)
StartCo(c) ==
    /\ cur = NONE /\ cb = NONE
    /\ phase = "timer"
    /\ co[c] = NewCo
    /\ \E s \in Socks : Uses(c, s)
    /\ co' = [co EXCEPT ![c].state = "running"]
    /\ cur' = c
    /\ UNCHANGED <<usage, pollerdata, kernel, loop, cb, late>>

(* poller:wait                                                             *)
Poll ==
    /\ cur = NONE /\ phase = "poll"
    /\ \E c \in Cos : co[c].state # "dead"
    /\ LET news == {s \in Socks : kernel[s].edge /\ Reported(s) # {}}
       IN  /\ \E order \in SetToSeqs(news) :
                 batch' = [i \in DOMAIN order |->
                              [sock |-> order[i], events |-> Reported(order[i])]]
           /\ kernel' = [s \in Socks |-> [kernel[s] EXCEPT !.edge = FALSE]]
    /\ phase' = "events"
    /\ UNCHANGED <<usage, pollerdata, co, cur, cb, late>>

(* Fault: who is resumed stays in the poller data.                         *)
WithoutNone(d, save, kinds) == [d EXCEPT !.save = save]

(* the poller data without the coroutines that wait for these kinds        *)
Without(d, save, kinds) ==
    [d EXCEPT !.save = save,
              !.recv = IF RECV \in kinds THEN NONE ELSE @,
              !.send = IF SEND \in kinds THEN NONE ELSE @]

(* Fault: a coroutine gets the event of the other direction as well.       *)
MineAll(events, e) == events

(* what a coroutine that waits for e gets of the events                    *)
Mine(events, e) == events \ (IO \ {e})

(* no coroutines are waiting: cache the events                             *)
Saved(save, events) == IF events # {} THEN save \cup events ELSE save

(* _poller_events_cb up to the first coroutine it resumes: cb keeps what   *)
(* is left to do after that                                                *)
Event ==
    /\ cur = NONE /\ cb = NONE
    /\ phase = "events" /\ batch # <<>>
    /\ batch' = Tail(batch)
    /\ LET s == Head(batch).sock
           d == IF s = NONE THEN NONE ELSE pollerdata[s]
           events == Head(batch).events \ {EOF}
           save == IF EOF \in Head(batch).events THEN d.save \cup d.wait ELSE d.save
           recv == IF RECV \in events THEN d.recv ELSE NONE
           send == IF SEND \in events THEN d.send ELSE NONE
           Callback(left, sender) == [sock |-> s, events |-> left, save |-> save,
                                      send |-> sender]
       IN  \/ /\ d = NONE
              /\ phase' = "broken"
              /\ cb' = [sock |-> s, events |-> {}, save |-> {}, send |-> NONE]
              /\ UNCHANGED <<pollerdata, co, cur>>
           \/ /\ d # NONE
              /\ recv # NONE /\ recv = send
              /\ pollerdata' = [pollerdata EXCEPT ![s] = Without(@, save, IO)]
              /\ Resume(recv, s, events)
              /\ cb' = Callback({}, NONE)
           \/ /\ d # NONE
              /\ recv # NONE /\ recv # send
              /\ pollerdata' = [pollerdata EXCEPT ![s] = Without(@, save, {RECV})]
              /\ Resume(recv, s, Mine(events, RECV))
              /\ cb' = Callback(events \ {RECV}, send)
           \/ /\ d # NONE
              /\ recv = NONE /\ send # NONE
              /\ pollerdata' = [pollerdata EXCEPT ![s] = Without(@, save, {SEND})]
              /\ Resume(send, s, Mine(events, SEND))
              /\ cb' = Callback(events \ {SEND}, NONE)
           \/ /\ d # NONE
              /\ recv = NONE /\ send = NONE
              /\ pollerdata' = [pollerdata EXCEPT ![s].save = Saved(save, events)]
              /\ UNCHANGED <<phase, co, cur, cb>>
    /\ UNCHANGED <<usage, kernel, late>>

(* the rest of _poller_events_cb, when the coroutine it resumed suspends   *)
EventRest ==
    /\ cur = NONE /\ cb # NONE
    /\ phase = "events"
    /\ \/ /\ cb.send # NONE
          /\ pollerdata' = IF cb.sock = NONE THEN pollerdata
                 ELSE [pollerdata EXCEPT ![cb.sock].send = NONE]
          /\ Resume(cb.send, cb.sock, Mine(cb.events, SEND))
          /\ cb' = [cb EXCEPT !.events = @ \ {SEND}, !.send = NONE]
       \/ /\ cb.send = NONE
          /\ pollerdata' = IF cb.sock = NONE \/ cb.events = {} THEN pollerdata
                 ELSE [pollerdata EXCEPT ![cb.sock].save = Saved(cb.save, cb.events)]
          /\ cb' = NONE
          /\ UNCHANGED <<phase, co, cur>>
    /\ UNCHANGED <<usage, kernel, batch, late>>

EventsDone ==
    /\ cur = NONE /\ cb = NONE
    /\ phase = "events" /\ batch = <<>>
    /\ phase' = "timer"
    /\ UNCHANGED <<usage, pollerdata, kernel, co, cur, batch, cb, late>>

(* a timer task of poller_wait or co_sleep; the coroutine stays in the     *)
(* poller data of its socket                                               *)
Timeout(c) ==
    /\ cur = NONE /\ phase = "timer"
    /\ co[c].timer = "due" /\ co[c].state = "suspended"
    /\ co' = [co EXCEPT ![c] = [@ EXCEPT !.state = "running", !.timer = "none",
                  !.how = IF co[c].on = NONE THEN "none" ELSE "timeout"]]
    /\ cur' = c
    /\ late' = [s \in Socks |-> IF co[c].on = s THEN late[s] \cup {<<c, co[c].want>>}
                                                 ELSE late[s]]
    /\ UNCHANGED <<usage, pollerdata, kernel, loop, cb>>

(* what was posted by these tasks is not due before the next round         *)
TimersDone ==
    /\ cur = NONE /\ phase = "timer"
    /\ phase' = "poll"
    /\ co' = [c \in Cos |-> IF co[c].timer = "new"
                            THEN [co[c] EXCEPT !.timer = "due"] ELSE co[c]]
    /\ UNCHANGED <<usage, pollerdata, kernel, cur, batch, cb, late>>

Acts(c) ==
    \/ \E s \in Socks : \/ \E e \in IO, timed \in BOOLEAN : Wait(c, s, e, timed)
                         \/ Close(c, s)
    \/ Sleep(c) \/ Finish(c)

WNext ==
    \/ \E s \in Socks : \/ \E e \in IO : Arrive(s, e)
                        \/ PeerClose(s)
    \/ \E c \in Cos : \/ Acts(c) \/ StartCo(c) \/ Timeout(c)
                      \/ \E s \in Socks, e \in IO : Transfer(c, s, e)
    \/ Poll \/ Event \/ EventRest \/ EventsDone \/ TimersDone

WSpec == WInit /\ [][WNext]_wvars

(* The run loop goes on, and a coroutine that runs comes to a point where  *)
(* it suspends: it does not try again for ever when a wait comes back at   *)
(* once without its event.  Neither new data nor a timeout is promised.    *)
WFairSpec ==
    /\ WSpec
    /\ WF_wvars(\/ Poll \/ Event \/ EventRest \/ EventsDone \/ TimersDone
                \/ \E c \in Cos : cur = c /\ cur' = NONE /\ Acts(c))

-----------------------------------------------------------------------------

(* the loop has not ended, nor resumed a coroutine in the wrong place      *)
Alive == phase \notin {"broken", "astray"}

(* who waits in the poller data, whether recv or send would succeed, and   *)
(* whether c will hear of it                                               *)
Waiter(s, e) == IF e = RECV THEN pollerdata[s].recv ELSE pollerdata[s].send
Ready(s, e) == e \in kernel[s].ready \/ ~Blocks(s, e)
Coming(c, s, e) ==
    \/ kernel[s].edge /\ e \in Reported(s)
    \/ \E i \in DOMAIN batch : batch[i].sock = s /\ e \in batch[i].events
    \/ cb # NONE /\ cb.sock = s /\ e = SEND /\ cb.send = c

(* The state has its shape; what a coroutine asked of the poller, epoll    *)
(* was asked for; and the coroutine that runs is the one that is running.  *)
WTypeOK ==
    /\ usage \in Usages
    /\ pollerdata \in [Socks -> {NONE} \cup PollerData]
    /\ kernel \in [Socks -> KernelData]
    /\ co \in [Cos -> CoData]
    /\ cur \in Cos \cup {NONE}
    /\ phase \in {"poll", "events", "timer", "broken", "astray"}
    /\ batch \in Seq(EventData)
    /\ cb \in {NONE} \cup CallbackData
    /\ late \in [Socks -> SUBSET (Cos \X IO)]
    /\ \A s \in Socks : pollerdata[s] # NONE =>
          pollerdata[s].wait \subseteq kernel[s].reg /\ CLEAR \in pollerdata[s].wait
    /\ \A c \in Cos : co[c].state = "running" <=> cur = c

(* A wait that an event ends returns the event it was for, and the other   *)
(* direction with it only if the coroutine had waited for that one before, *)
(* and timed out and left the socket open.  So a wait that returns without *)
(* its event has timed out or was answered from the cache.                 *)
RightResult ==
    /\ WTypeOK
    /\ \A c \in Cos : co[c].state = "running" /\ co[c].how = "event" =>
          /\ co[c].want \in co[c].got
          /\ \A e \in co[c].got \cap IO : e # co[c].want => <<c, e>> \in late[co[c].on]

(* An event ends the run loop, or resumes a coroutine that does not wait   *)
(* for it, only if its socket was closed after poller:wait had returned    *)
(* the event, or a wait for the socket timed out and left it open.         *)
LoopSurvives == ~Alive => cb.sock = NONE \/ late[cb.sock] # {}

(* A coroutine that waits for a socket that is ready has its event coming: *)
(* epoll is to report it, poller:wait has returned it, or a callback is    *)
(* about to resume the coroutine.  And when it comes it finds the          *)
(* coroutine, which is the one in the poller data: edge-triggered epoll    *)
(* would not report it again.                                              *)
NoMissedEvent ==
    Alive => \A c \in Cos, s \in Socks, e \in IO :
       Waiting(c, s, e) => /\ pollerdata[s] # NONE
                           /\ c = Waiter(s, e)
                           /\ Ready(s, e) => Coming(c, s, e)

(* A coroutine whose socket is ready does not stay so: it is resumed, if   *)
(* no other coroutine takes the data before, and the loop does not end or  *)
(* resume one in the wrong place.                                          *)
Served ==
    \A c \in Cos :
        LET ready == \E s \in Socks, e \in IO : Waiting(c, s, e) /\ e \in kernel[s].ready
        IN  ready ~> ~ready \/ ~Alive
=============================================================================
