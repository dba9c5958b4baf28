----------------------------- MODULE MCPollerWait -----------------------------
(* Ways to use sockets, for PollerWait.                                    *)
EXTENDS PollerWait, TLC

CONSTANTS co1, co2, so1, so2

Usage(cs, ct, ds, dt, pipes) ==
    [waits |-> (co1 :> (so1 :> cs @@ so2 :> ct) @@ co2 :> (so1 :> ds @@ so2 :> dt)),
     pipes |-> pipes]

(* Two coroutines that share a socket, hand it on, or use it without the   *)
(* other; a coroutine that reads from a pipe and sends to a socket, as     *)
(* remote_build does; two that share a pipe.  None has to do all it may.   *)
OwnUsages == {Usage(IO, {}, {SEND}, {}, {}),
              Usage(IO, {}, {RECV}, {}, {}),
              Usage({}, {}, {SEND}, {RECV}, {so2}),
              Usage({RECV}, {}, {RECV}, {}, {so1})}
=============================================================================
