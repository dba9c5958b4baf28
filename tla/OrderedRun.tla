------------------------------ MODULE OrderedRun ------------------------------
(***************************************************************************)
(* What running a batch of jobs promises, with no pool, no list and no     *)
(* coroutines: a task starts only after every task it comes after has      *)
(* succeeded, at most Limit tasks are under way, and once a task has       *)
(* failed no further task is started; the ones that are left are skipped.  *)
(***************************************************************************)
EXTENDS Naturals, FiniteSets

CONSTANTS
    Tasks,      \* what there is to run
    Limit       \* how many tasks may be under way

VARIABLES
    before,     \* before[t]: the tasks that t comes after
    state       \* state[t]: how far t is

Init ==
    /\ before = [t \in Tasks |-> {}]
    /\ state = [t \in Tasks |-> "idle"]

Failed == \E t \in Tasks : state[t] = "failed"
Running == {t \in Tasks : state[t] = "running"}

(* the order is fixed before the first task starts                         *)
Plan ==
    /\ UNCHANGED state
    /\ \A t \in Tasks : state[t] = "idle"
    /\ before' \in [Tasks -> SUBSET Tasks]

Start(t) ==
    /\ state[t] = "idle"
    /\ \E s \in {"running", "done", "failed"} : state' = [state EXCEPT ![t] = s]
    /\ ~Failed
    /\ Cardinality(Running) < Limit
    /\ \A b \in before[t] : state[b] = "done"
    /\ UNCHANGED before

End(t) ==
    /\ state[t] = "running"
    /\ \E s \in {"done", "failed"} : state' = [state EXCEPT ![t] = s]
    /\ UNCHANGED before

Skip(t) ==
    /\ state[t] = "idle"
    /\ state' = [state EXCEPT ![t] = "skipped"]
    /\ Failed
    /\ UNCHANGED before

Next == Plan \/ \E t \in Tasks : Start(t) \/ End(t) \/ Skip(t)

Spec == Init /\ [][Next]_<<before, state>>
=============================================================================
