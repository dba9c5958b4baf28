------------------------------- MODULE JobPool -------------------------------
(***************************************************************************)
(* The job pool of the build (xmake/modules/private/async/jobpool.lua).    *)
(*                                                                         *)
(* A pool is a graph of jobs.  Adding a job under a root job makes the     *)
(* root job depend on it; a group node, opened by group_enter, becomes a   *)
(* dependency of every job added before group_leave.  The first getfree    *)
(* collects the jobs without dependencies, the leaf jobs, in a list; from  *)
(* then on getfree hands out the free jobs of that list from its end, and  *)
(* remove takes a finished job out of the list and moves into it the       *)
(* parents whose last dependency it was.                                   *)
(*                                                                         *)
(* getfree and remove never yield, so each call runs to its end before     *)
(* any other coroutine touches the pool.  Their loops are modelled as      *)
(* steps of their own; `phase` says which loop the pool is in, and only    *)
(* that loop can take the next step.                                       *)
(***************************************************************************)
EXTENDS Naturals, FiniteSets, Sequences, SequencesExt

CONSTANTS
    Jobs,           \* the jobs, made by newjob and addjob
    Groups,         \* the group nodes, made by group_enter
    Root,           \* the node that new() creates
    HighPriority,   \* the jobs added with high_priority
    NONE,           \* Lua's nil
    MaxAdds         \* bound on the number of calls of add

ASSUME JobPoolAssumption ==
    /\ Jobs \cap Groups = {}
    /\ Root \notin Jobs \cup Groups
    /\ NONE \notin Jobs \cup Groups \cup {Root}
    /\ HighPriority \subseteq Jobs
    /\ MaxAdds \in Nat

VARIABLES
    parents,    \* job._parents: a list, in the order of the calls of add
    deps,       \* job._deps: a set, what is left of the dependencies
    deps0,      \* history: the dependencies as they were added
    group,      \* self._group: the open group
    size,       \* self._size: the number of jobs that were added
    adds,       \* how often add was called, for the bound
    status,     \* job.status
    leaf,       \* the nodes with job._leaf
    leafjobs,   \* self._leafjobs: a list whose last job is taken first
    nextfree,   \* self._nextfree: the job the next getfree returns
    phase,      \* the loop the pool is in
    genstack,   \* the active calls of _genleafjobs, the innermost last
    refs,       \* refs of _genleafjobs: the nodes it has entered
    removed     \* removed_jobs of getfree: what it still has to remove

graphVars == <<parents, deps, deps0, group, size, adds>>
listVars == <<status, leaf, leafjobs, nextfree>>
loopVars == <<phase, genstack, refs, removed>>
poolVars == <<graphVars, listVars, loopVars>>

Nodes == Jobs \cup Groups \cup {Root}

-----------------------------------------------------------------------------
(* Everything that n depends on: the least set that holds the direct       *)
(* dependencies of n and is closed under dependencies.                     *)
AllDeps(n) ==
    LET closed == {S \in SUBSET (Nodes \ {Root}) :
                      deps0[n] \subseteq S /\ \A m \in S : deps0[m] \subseteq S}
    IN  {d \in Nodes : \A S \in closed : d \in S}

Attached(n) == n = Root \/ parents[n] # <<>>

(* Fault: a parent that was added twice enters the list twice (no _leaf).   *)
ListingsWithRepeats(S, s) == {SelectSeq(s, LAMBDA n : n \in S)}

(* The lists of the members of S, each once, in the order in which they    *)
(* first appear in the list s.                                             *)
Listings(S, s) ==
    {f \in SeqOf(S, Len(s)) :
        /\ Range(f) = S
        /\ \A i, j \in DOMAIN f : i < j =>
              \E k \in DOMAIN s : /\ s[k] = f[i]
                                  /\ \A l \in 1..k : s[l] # f[j]}

-----------------------------------------------------------------------------
Init ==
    /\ parents = [n \in Nodes |-> <<>>]
    /\ deps = [n \in Nodes |-> {}]
    /\ deps0 = deps
    /\ group = NONE
    /\ size = 0
    /\ adds = 0
    /\ status = [n \in Nodes |-> IF n \in Jobs THEN "FREE" ELSE "nil"]
    /\ leaf = {}
    /\ leafjobs = <<>>
    /\ nextfree = NONE
    /\ phase = "build"
    /\ genstack = <<>>
    /\ refs = {}
    /\ removed = <<>>

(***************************************************************************)
(* Building the graph.  The callers (actions/build, buildjobs) add a job   *)
(* under a job that is in the graph already, add group nodes only once     *)
(* they have members, and never make a job depend on itself: target        *)
(* dependencies are acyclic.                                               *)
(***************************************************************************)
Add(job, rootjob) ==
    /\ phase = "build"
    /\ adds < MaxAdds
    /\ job \in Jobs \/ parents[job] # <<>>
    /\ Attached(rootjob) /\ rootjob # group
    /\ job # rootjob /\ rootjob \notin AllDeps(job)
    /\ group # NONE => job # group /\ job \notin AllDeps(group)
    /\ deps' = [n \in Nodes |->
                   deps[n] \cup (IF n = rootjob THEN {job} ELSE {})
                           \cup (IF n = job /\ group # NONE THEN {group} ELSE {})]
    /\ deps0' = deps'
    /\ parents' = [n \in Nodes |->
                      IF n = job THEN Append(parents[n], rootjob)
                      ELSE IF n = group THEN Append(parents[n], job)
                      ELSE parents[n]]
    /\ size' = IF parents[job] = <<>> THEN size + 1 ELSE size
    /\ adds' = adds + 1
    /\ UNCHANGED <<group, listVars, loopVars>>

(* group_enter creates a new node.  A group that was left without a member *)
(* is gone, so its name stands for a new one.                              *)
GroupEnter(g) ==
    /\ phase = "build"
    /\ group = NONE
    /\ parents[g] = <<>>
    /\ group' = g
    /\ UNCHANGED <<parents, deps, deps0, size, adds, listVars, loopVars>>

GroupLeave ==
    /\ phase = "build"
    /\ group # NONE
    /\ group' = NONE
    /\ UNCHANGED <<parents, deps, deps0, size, adds, listVars, loopVars>>

-----------------------------------------------------------------------------
(* The first _getleafjobs walks the graph from the root, depth first.  It  *)
(* meets the dependencies of a node in the order of a hash table.          *)
GenStart ==
    /\ phase = "build"
    /\ group = NONE
    /\ size > 0
    /\ phase' = "gen"
    /\ genstack' = <<Root>>
    /\ UNCHANGED <<graphVars, listVars, refs, removed>>

GenVisit ==
    /\ phase = "gen"
    /\ genstack # <<>>
    /\ \E dep \in deps[genstack[Len(genstack)]] \ refs :
          /\ refs' = refs \cup {dep}
          /\ genstack' = Append(genstack, dep)
    /\ UNCHANGED <<graphVars, listVars, phase, removed>>

GenLeaf ==
    /\ phase = "gen"
    /\ genstack # <<>>
    /\ LET job == genstack[Len(genstack)] IN
          /\ deps[job] = {}
          /\ leaf' = leaf \cup {job}
          /\ leafjobs' = IF job \in HighPriority
                         THEN Append(leafjobs, job)
                         ELSE <<job>> \o leafjobs
    /\ genstack' = SubSeq(genstack, 1, Len(genstack) - 1)
    /\ UNCHANGED <<graphVars, status, nextfree, phase, refs, removed>>

GenReturn ==
    /\ phase = "gen"
    /\ genstack # <<>>
    /\ LET job == genstack[Len(genstack)] IN
          deps[job] # {} /\ deps[job] \subseteq refs
    /\ genstack' = SubSeq(genstack, 1, Len(genstack) - 1)
    /\ UNCHANGED <<graphVars, listVars, phase, refs, removed>>

GenDone ==
    /\ phase = "gen"
    /\ genstack = <<>>
    /\ phase' = "ready"
    /\ UNCHANGED <<graphVars, listVars, genstack, refs, removed>>

Gen == GenStart \/ GenVisit \/ GenLeaf \/ GenReturn \/ GenDone

-----------------------------------------------------------------------------
IsFree(job) == job \in Jobs /\ status[job] = "FREE"

(* Fault: _nextfree takes the node before without a look at it.             *)
HandUnchecked(i) ==
    /\ status' = [status EXCEPT ![leafjobs[i]] = "PENDING"]
    /\ nextfree' = IF i > 1 THEN leafjobs[i - 1] ELSE NONE
    /\ UNCHANGED <<graphVars, leaf, leafjobs, genstack, refs, removed>>

(* hand out the job at index i, and let _nextfree point to the job before  *)
Hand(i) ==
    /\ status' = [status EXCEPT ![leafjobs[i]] = "PENDING"]
    /\ nextfree' = IF i > 1 /\ leafjobs[i - 1] # leafjobs[i] /\ IsFree(leafjobs[i - 1])
                   THEN leafjobs[i - 1] ELSE NONE
    /\ UNCHANGED <<graphVars, leaf, leafjobs, genstack, refs, removed>>

IsLastFree(i) ==
    /\ IsFree(leafjobs[i])
    /\ \A k \in DOMAIN leafjobs : k > i => ~IsFree(leafjobs[k])

NoneFree == \A i \in DOMAIN leafjobs : ~IsFree(leafjobs[i])

(* Fault: getfree forgets the group nodes when it cleans up.                *)
StaleWithoutGroups == {n \in Range(leafjobs) : status[n] = "FINISHED"}

(* the nodes getfree drops when no job is free: groups and finished jobs   *)
Stale == {n \in Range(leafjobs) : n \in Groups \/ status[n] = "FINISHED"}

(* the fast path of getfree, which takes _nextfree without another look    *)
GetNextFree(job) ==
    /\ phase = "ready"
    /\ nextfree # NONE
    /\ job = nextfree
    /\ \E i \in DOMAIN leafjobs : leafjobs[i] = job /\ Hand(i)
    /\ UNCHANGED phase

(* the search from the end of the list, before and after the sweep         *)
FindFree(job) ==
    /\ \/ phase = "ready" /\ nextfree = NONE
       \/ phase = "sweep" /\ removed = <<>>
    /\ \E i \in DOMAIN leafjobs : /\ leafjobs[i] = job
                                  /\ IsLastFree(i)
                                  /\ Hand(i)
    /\ phase' = "ready"

(* no job is free: getfree returns nil                                     *)
GetNone ==
    /\ NoneFree
    /\ \/ phase = "ready" /\ nextfree = NONE /\ Stale = {}
       \/ phase = "sweep" /\ removed = <<>>
    /\ phase' = "ready"
    /\ UNCHANGED <<graphVars, listVars, genstack, refs, removed>>

GetFree(job) == IF job = NONE THEN GetNone ELSE GetNextFree(job) \/ FindFree(job)

(* no job is free, but some nodes can be dropped: remove them, last first  *)
SweepStart ==
    /\ phase = "ready"
    /\ nextfree = NONE
    /\ NoneFree
    /\ Stale # {}
    /\ removed' \in Listings(Stale, Reverse(leafjobs))
    /\ phase' = "sweep"
    /\ UNCHANGED <<graphVars, listVars, genstack, refs>>

-----------------------------------------------------------------------------
(* Faults: a parent becomes a leaf with its first dependency, or only when *)
(* it had none left before.                                                *)
NewLeavesEarly(job) == Range(parents[job]) \ leaf
NewLeavesLate(job) == {p \in Range(parents[job]) \ leaf : deps[p] = {}}

(* what the list and the graph look like once job is removed               *)
NewLeaves(job) ==
    {p \in Range(parents[job]) \ leaf : deps[p] \subseteq {job}}

LeafjobsWithout(job) == {RemoveAt(leafjobs, i) : i \in {k \in DOMAIN leafjobs : leafjobs[k] = job}}

RemoveJob(job) ==
    /\ status' = [status EXCEPT ![job] = "FINISHED"]
    /\ deps' = [n \in Nodes |-> IF n \in Range(parents[job]) \ leaf
                                THEN deps[n] \ {job} ELSE deps[n]]
    /\ leaf' = leaf \cup NewLeaves(job)
    /\ \E rest \in LeafjobsWithout(job),
          low \in Listings(NewLeaves(job) \ HighPriority, parents[job]),
          high \in Listings(NewLeaves(job) \cap HighPriority, parents[job]) :
             leafjobs' = Reverse(low) \o rest \o high
    /\ UNCHANGED <<parents, deps0, group, size, adds, nextfree, genstack, refs>>

SweepStep ==
    /\ phase = "sweep"
    /\ removed # <<>>
    /\ RemoveJob(Head(removed))
    /\ removed' = Tail(removed)
    /\ UNCHANGED phase

(* remove is called once for a job that getfree returned, when the job has *)
(* run                                                                     *)
Finish(job) ==
    /\ phase = "ready"
    /\ status[job] = "PENDING"
    /\ RemoveJob(job)
    /\ UNCHANGED <<phase, removed>>

-----------------------------------------------------------------------------
(* a step inside getfree, which the caller does not see                    *)
Internal == Gen \/ SweepStart \/ SweepStep

Build ==
    \/ \E job \in Jobs \cup Groups, rootjob \in Nodes : Add(job, rootjob)
    \/ \E g \in Groups : GroupEnter(g)
    \/ GroupLeave

Next ==
    \/ Build
    \/ Internal
    \/ \E job \in Jobs \cup {NONE} : GetFree(job)
    \/ \E job \in Jobs : Finish(job)

Spec == Init /\ [][Next]_poolVars

-----------------------------------------------------------------------------
Statuses == {"nil", "FREE", "PENDING", "FINISHED"}

(* Type invariant: every field of the pool and of its nodes holds a value   *)
(* of its kind.                                                             *)
TypeOK ==
    /\ parents \in [Nodes -> Seq(Nodes)]
    /\ deps \in [Nodes -> SUBSET Nodes]
    /\ deps0 \in [Nodes -> SUBSET Nodes]
    /\ group \in Groups \cup {NONE}
    /\ size \in Nat
    /\ adds \in Nat
    /\ status \in [Nodes -> Statuses]
    /\ leaf \subseteq Nodes
    /\ leafjobs \in Seq(Nodes)
    /\ nextfree \in Jobs \cup {NONE}
    /\ phase \in {"build", "gen", "ready", "sweep"}
    /\ genstack \in Seq(Nodes)
    /\ refs \subseteq Nodes
    /\ removed \in Seq(Nodes)

(* The list of leaf jobs holds every leaf that is not finished, once.  The  *)
(* _leaf flag is there for this (issue 2740: a node that entered the list   *)
(* twice made getfree loop for ever).  The cursor _nextfree, which getfree  *)
(* returns without another look, is a free job of the list, whatever was    *)
(* inserted and removed since it was set (remove asserts part of it,        *)
(* assert(job ~= self._nextfree)).                                          *)
LeafjobsExact ==
    /\ IsInjective(leafjobs)
    /\ Range(leafjobs) = {n \in leaf : status[n] # "FINISHED"}
    /\ nextfree # NONE => IsFree(nextfree) /\ nextfree \in Range(leafjobs)

(* A node becomes a leaf, and so can be handed out, only when everything it *)
(* depends on, directly, through other jobs or through groups, has been     *)
(* removed.                                                                 *)
LeafDepsFinished ==
    \A n \in leaf : \A d \in AllDeps(n) : status[d] = "FINISHED"

(* What makes LeafDepsFinished inductive: a dependency leaves deps only when *)
(* it is finished, a leaf has none left, and what is in the list, handed     *)
(* out or finished is a leaf.  The root is never handed out.                 *)
Finished == {n \in Nodes : status[n] = "FINISHED"}
LeafInv ==
    /\ \A n \in Nodes : deps0[n] \subseteq deps[n] \cup Finished
    /\ \A n \in leaf : deps[n] = {}
    /\ Range(leafjobs) \subseteq leaf
    /\ \A n \in Range(removed) : n \in leaf /\ (n \in Groups \/ n \in Finished)
    /\ \A n \in Nodes : status[n] \in {"PENDING", "FINISHED"} => n \in leaf
    /\ status[Root] = "nil"
    /\ phase = "build" => leaf = {}
    /\ nextfree # NONE => IsFree(nextfree)

(* The pool never runs dry: while a job that was added is not finished, the *)
(* list holds a job that runs, a job to hand out or a group to drop.        *)
NeverStuck ==
    phase = "ready" /\ (\E j \in Jobs : Attached(j) /\ status[j] # "FINISHED")
        => \E n \in Range(leafjobs) : n # Root

(* A job is handed out at most once, by the cursor or by the search: getfree *)
(* returns a job that was never returned before, and the status of a job     *)
(* only moves from free to pending to finished.                              *)
HandedOutOnce ==
    [][\A j \in Jobs :
          /\ GetFree(j) => status[j] = "FREE"
          /\ status'[j] # status[j] =>
                <<status[j], status'[j]>> \in {<<"FREE", "PENDING">>,
                                              <<"PENDING", "FINISHED">>}]_poolVars
=============================================================================
