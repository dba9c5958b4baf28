---------------------------- MODULE ProcessPoller ----------------------------
(***************************************************************************)
(* How the exit of a child process reaches the run loop                    *)
(* (core/src/xutil/platform/posix/poller_process.c, with xu_poller_wait of *)
(* platform/poller.c and the epoll poller of platform/linux).              *)
(*                                                                         *)
(* Three parties work concurrently: the operating system, where children   *)
(* end and SIGCHLD is raised; the poller thread, which waits for a         *)
(* semaphore and then collects every child with waitpid(-1); and the main  *)
(* thread, which runs Lua code, goes to sleep in epoll_wait and, when it   *)
(* wakes up, reports the collected children it has been told to wait for.  *)
(***************************************************************************)
EXTENDS Naturals, Sequences, SequencesExt

CONSTANTS
    Procs,      \* the child processes
    MayStop,    \* the children that can be stopped (SIGSTOP, SIGTSTP)
    MaxCount    \* bound of the semaphore and of the bytes in the pair socket

ASSUME ProcessPollerAssumption == MayStop \subseteq Procs /\ MaxCount \in Nat \ {0}

VARIABLES
    proc,       \* the state of each child in the operating system
    sigchld,    \* SIGCHLD is pending
    main,       \* where the main thread is
    data,       \* processes_data: the children that are waited for
    detached,   \* the children that Lua code has closed
    inited,     \* the poller thread runs and the signal handler is installed
    is_stopped, \* the flag that tells the poller thread to end
    thread,     \* where the poller thread is
    has_exited, \* has_exited of xu_poller_process_loop
    semaphore,  \* the poller thread waits for it
    status,     \* processes_status: what the thread has collected
    spak,       \* the bytes in the pair socket, which wake up epoll_wait
    reported    \* what has been reported to Lua

osVars == <<proc, sigchld>>
threadVars == <<thread, has_exited>>
luaVars == <<data, detached>>
vars == <<osVars, threadVars, luaVars, main, inited, is_stopped, semaphore,
          status, spak, reported>>

(* Counters that only ever matter as zero or not; they stop at MaxCount.   *)
Bump(n) == IF n < MaxCount THEN n + 1 ELSE n

Init ==
    /\ proc = [p \in Procs |-> "none"]
    /\ sigchld = FALSE
    /\ main = "lua"
    /\ data = {}
    /\ detached = {}
    /\ inited = FALSE
    /\ is_stopped = FALSE
    /\ thread = "none"
    /\ has_exited = FALSE
    /\ semaphore = 0
    /\ status = <<>>
    /\ spak = 0
    /\ reported = {}

-----------------------------------------------------------------------------
(* The operating system.  Pending signals of one kind are merged.          *)
Exit(p) ==
    /\ proc[p] \in {"running", "stopped"}
    /\ proc' = [proc EXCEPT ![p] = "zombie"]
    /\ sigchld' = TRUE
    /\ UNCHANGED <<threadVars, luaVars, main, inited, is_stopped, semaphore, status, spak, reported>>

Stop(p) ==
    /\ p \in MayStop
    /\ proc[p] = "running"
    /\ <<p, "stopped">> \notin reported \cup ToSet(status)    \* once for each child
    /\ proc' = [proc EXCEPT ![p] = "stopped"]
    /\ sigchld' = TRUE
    /\ UNCHANGED <<threadVars, luaVars, main, inited, is_stopped, semaphore, status, spak, reported>>

(* xu_poller_process_signal_handler, or the default action                 *)
SignalHandler ==
    /\ sigchld
    /\ sigchld' = FALSE
    /\ semaphore' = IF inited THEN Bump(semaphore) ELSE semaphore
    /\ UNCHANGED <<proc, threadVars, luaVars, main, inited, is_stopped, status, spak, reported>>

-----------------------------------------------------------------------------
(* The main thread in Lua.  os.execv opens a child and waits for it, or    *)
(* closes it when it is detached, before the next suspension: `main` is    *)
(* "opened" in between.                                                    *)
Open(p) ==
    /\ main = "lua"
    /\ proc[p] = "none"
    /\ proc' = [proc EXCEPT ![p] = "running"]
    /\ main' = "opened"
    /\ UNCHANGED <<sigchld, threadVars, luaVars, inited, is_stopped, semaphore, status, spak, reported>>

Unclaimed(p) == proc[p] # "none" /\ p \notin data \cup detached

(* xu_poller_insert: the first one starts the thread                       *)
ProcessInsert(p) ==
    /\ main = "opened"
    /\ Unclaimed(p)
    /\ data' = data \cup {p}
    /\ inited' = TRUE
    /\ thread' = IF inited THEN thread ELSE "loop"
    /\ main' = "lua"
    /\ UNCHANGED <<osVars, has_exited, detached, is_stopped, semaphore, status, spak, reported>>

(* process:close() of a child that is detached                             *)
Detach(p) ==
    /\ main = "opened"
    /\ Unclaimed(p)
    /\ detached' = detached \cup {p}
    /\ main' = "lua"
    /\ UNCHANGED <<osVars, threadVars, data, inited, is_stopped, semaphore, status, spak, reported>>

(* process:close() of a child that was waited for                          *)
ProcessRemove(p) ==
    /\ main = "lua"
    /\ p \in data
    /\ data' = data \ {p}
    /\ detached' = detached \cup {p}
    /\ UNCHANGED <<osVars, threadVars, main, inited, is_stopped, semaphore, status, spak, reported>>

(* Fault: the children that have ended before the thread started are not   *)
(* looked for.                                                             *)
WaitPrepareWithoutPost ==
    /\ main = "lua"
    /\ ~is_stopped
    /\ main' = "epoll"
    /\ UNCHANGED <<osVars, threadVars, luaVars, inited, is_stopped, semaphore, status, spak, reported>>

(* xu_poller_process_wait_prepare                                          *)
WaitPrepare ==
    /\ main = "lua"
    /\ ~is_stopped
    /\ semaphore' = IF inited /\ data # {} THEN Bump(semaphore) ELSE semaphore
    /\ main' = "epoll"
    /\ UNCHANGED <<osVars, threadVars, luaVars, inited, is_stopped, status, spak, reported>>

(* epoll_wait returns because of the pair socket, or because of a timeout  *)
(* or of other events                                                      *)
Spanked ==
    /\ main = "epoll"
    /\ spak > 0
    /\ spak' = spak - 1
    /\ main' = "poll"
    /\ UNCHANGED <<osVars, threadVars, luaVars, inited, is_stopped, semaphore, status, reported>>

OtherEvent ==
    /\ main = "epoll"
    /\ main' = "poll"
    /\ UNCHANGED <<osVars, threadVars, luaVars, inited, is_stopped, semaphore, status, spak, reported>>

(* Fault: the list is cleared after the lock was released, when the thread *)
(* has added to it.                                                        *)
WaitPollUnlocked ==
    /\ main = "poll"
    /\ reported' = reported \cup {status[i] : i \in {j \in 1..(Len(status) - 1) : status[j][1] \in data}}
    /\ status' = <<>>
    /\ main' = "lua"
    /\ UNCHANGED <<osVars, threadVars, luaVars, inited, is_stopped, semaphore, spak>>

(* Fault: the list keeps the children that are waited for.                 *)
WaitPollWithoutClear ==
    /\ main = "poll"
    /\ reported' = reported \cup {s \in ToSet(status) : s[1] \in data}
    /\ status' = SelectSeq(status, LAMBDA s : s[1] \in data)
    /\ main' = "lua"
    /\ UNCHANGED <<osVars, threadVars, luaVars, inited, is_stopped, semaphore, spak>>

(* xu_poller_process_wait_poll: take everything, report what is waited for *)
WaitPoll ==
    /\ main = "poll"
    /\ reported' = reported \cup {s \in ToSet(status) : s[1] \in data}
    /\ status' = <<>>
    /\ main' = "lua"
    /\ UNCHANGED <<osVars, threadVars, luaVars, inited, is_stopped, semaphore, spak>>

(* xu_poller_process_exit: tell the thread to end, then wait for it        *)
Kill ==
    /\ main = "lua"
    /\ inited
    /\ is_stopped' = TRUE
    /\ semaphore' = Bump(semaphore)
    /\ main' = "join"
    /\ UNCHANGED <<osVars, threadVars, luaVars, inited, status, spak, reported>>

Joined ==
    /\ main = "join"
    /\ thread = "end"
    /\ inited' = FALSE
    /\ main' = "end"
    /\ UNCHANGED <<osVars, threadVars, luaVars, is_stopped, semaphore, status, spak, reported>>

-----------------------------------------------------------------------------
(* The poller thread: xu_poller_process_loop.                              *)
LoopTop ==
    /\ thread = "loop"
    /\ thread' = IF is_stopped THEN "end" ELSE "wait"
    /\ UNCHANGED <<osVars, has_exited, luaVars, main, inited, is_stopped, semaphore, status, spak, reported>>

SemaphoreWait ==
    /\ thread = "wait"
    /\ semaphore > 0
    /\ semaphore' = semaphore - 1
    /\ has_exited' = FALSE
    /\ thread' = "waitpid"
    /\ UNCHANGED <<osVars, luaVars, main, inited, is_stopped, status, spak, reported>>

(* waitpid(-1, &status, WNOHANG | WUNTRACED) returns a child that has      *)
(* ended or, once for each time, one that was stopped                      *)
Waitpid(p) ==
    /\ thread = "waitpid"
    /\ \/ /\ proc[p] = "zombie"
          /\ proc' = [proc EXCEPT ![p] = "reaped"]
          /\ status' = Append(status, <<p, "exited">>)
       \/ /\ proc[p] = "stopped"
          /\ proc' = [proc EXCEPT ![p] = "running"]
          /\ status' = Append(status, <<p, "stopped">>)
    /\ has_exited' = TRUE
    /\ UNCHANGED <<sigchld, thread, luaVars, main, inited, is_stopped, semaphore, spak, reported>>

(* Fault: only 0 ends the loop, not the -1 that waitpid returns when no    *)
(* child is left at all.                                                   *)
WaitpidNoneSpins ==
    /\ thread = "waitpid"
    /\ \A p \in Procs : proc[p] \notin {"zombie", "stopped"}
    /\ thread' = IF \E p \in Procs : proc[p] = "running" THEN "collected" ELSE "waitpid"
    /\ UNCHANGED <<osVars, has_exited, luaVars, main, inited, is_stopped, semaphore, status, spak, reported>>

(* it returns 0 or -1: no child is left to collect                         *)
WaitpidNone ==
    /\ thread = "waitpid"
    /\ \A p \in Procs : proc[p] \notin {"zombie", "stopped"}
    /\ thread' = "collected"
    /\ UNCHANGED <<osVars, has_exited, luaVars, main, inited, is_stopped, semaphore, status, spak, reported>>

(* wake up the main thread if there is news for it                         *)
Notify ==
    /\ thread = "collected"
    /\ spak' = IF has_exited THEN Bump(spak) ELSE spak
    /\ thread' = "loop"
    /\ UNCHANGED <<osVars, has_exited, luaVars, main, inited, is_stopped, semaphore, status, reported>>

-----------------------------------------------------------------------------
Done == main = "end" /\ UNCHANGED vars

Thread ==
    LoopTop \/ SemaphoreWait \/ (\E p \in Procs : Waitpid(p)) \/ WaitpidNone \/ Notify

Claim == \E p \in Procs : ProcessInsert(p) \/ Detach(p)

Next ==
    \/ \E p \in Procs : Exit(p) \/ Stop(p) \/ Open(p) \/ ProcessRemove(p)
    \/ SignalHandler
    \/ Claim
    \/ WaitPrepare \/ Spanked \/ OtherEvent \/ WaitPoll
    \/ Kill \/ Joined
    \/ Thread
    \/ Done

Spec == Init /\ [][Next]_vars

(***************************************************************************)
(* Fairness: signals are delivered, the thread and the main thread are     *)
(* scheduled, waitpid overlooks no child for ever, Lua code suspends in    *)
(* the end, and a readable pair socket ends epoll_wait.  Timeouts and      *)
(* other events are not assumed: an exit is reported because of the exit,  *)
(* not because the loop looks around every second.                         *)
(***************************************************************************)
Fairness ==
    /\ WF_vars(SignalHandler) /\ WF_vars(Thread) /\ WF_vars(Claim)
    /\ \A p \in Procs : WF_vars(Waitpid(p))
    /\ WF_vars(WaitPrepare) /\ WF_vars(Spanked) /\ WF_vars(WaitPoll) /\ WF_vars(Joined)

FairSpec == Spec /\ Fairness

-----------------------------------------------------------------------------
(* Type invariant of the three parties' state.                              *)
TypeOK ==
    /\ proc \in [Procs -> {"none", "running", "stopped", "zombie", "reaped"}]
    /\ main \in {"lua", "opened", "epoll", "poll", "join", "end"}
    /\ thread \in {"none", "loop", "wait", "waitpid", "collected", "end"}
    /\ sigchld \in BOOLEAN /\ inited \in BOOLEAN
    /\ is_stopped \in BOOLEAN /\ has_exited \in BOOLEAN
    /\ data \subseteq Procs /\ detached \subseteq Procs
    /\ semaphore \in 0..MaxCount /\ spak \in 0..MaxCount
    /\ status \in Seq(Procs \X {"exited", "stopped"})
    /\ reported \subseteq Procs \X {"exited", "stopped"}

(* waitpid(-1) takes the exit of a child away from everybody else: while    *)
(* Lua waits for the child, the exit is in the list or has been reported,   *)
(* also when it was collected before the child was inserted.                *)
NoLostExit ==
    /\ TypeOK
    /\ \A p \in data : proc[p] = "reaped" =>
          <<p, "exited">> \in ToSet(status) \cup reported

(* No lost wake-up: when both threads sleep and nothing is on its way to    *)
(* wake one of them, there is nothing to collect and nothing to report.     *)
NoSleepWithWork ==
    main = "epoll" /\ spak = 0 /\ thread = "wait" /\ semaphore = 0 /\ ~sigchld =>
        \A p \in data : /\ proc[p] # "zombie"
                        /\ <<p, "exited">> \notin ToSet(status)

(* An exit is reported once: what is in the list is there once and has not  *)
(* been reported before.                                                    *)
ReportedOnce ==
    IsInjective(status) /\ ToSet(status) \cap reported = {}

(* Every exit of a child that Lua waits for is reported, unless the child   *)
(* is closed or the poller is shut down before.                             *)
ExitReported ==
    \A p \in Procs :
        (p \in data /\ proc[p] \in {"zombie", "reaped"})
            ~> (<<p, "exited">> \in reported \/ p \notin data \/ main \in {"join", "end"})

(* xu_poller_process_exit gets its thread: it does not run into the timeout *)
(* of xu_thread_wait.                                                       *)
ThreadJoins == (main = "join") ~> (main = "end")
=============================================================================
