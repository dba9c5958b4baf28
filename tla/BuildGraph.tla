------------------------------ MODULE BuildGraph ------------------------------
(***************************************************************************)
(* The graph of jobs that `xmake build` hands to the runner                *)
(* (get_batchjobs in xmake/actions/build/build.lua, with the kinds of      *)
(* actions/build/kinds).                                                   *)
(*                                                                         *)
(* Every target contributes a chain of jobs, from the last to the first:   *)
(* after_build, link, then for each group of rules the source files and    *)
(* the group node that they wait for, and before_build.  A first walk      *)
(* over the targets and their direct dependencies lays out these chains    *)
(* and hangs them, for as much parallelism as possible, under the root;    *)
(* three passes over all targets then add the edges that order the jobs    *)
(* of different targets.                                                   *)
(***************************************************************************)
EXTENDS Naturals, FiniteSets, Sequences

CONSTANTS
    N,          \* the targets are 1..N; a target depends on smaller ones
    Profiles,   \* the projects to consider: see ProfileOK
    Root        \* the root job of the pool

(* The values the targets of a project may have: their kinds, their        *)
(* numbers of source file groups, build.across_targets_in_parallel,        *)
(* build.fence and is_enabled; whether there is add_deps with              *)
(* inherit = false; and the sets of targets that are built.                *)
ProfileOK(p) ==
    /\ p.kinds \subseteq {"object", "static", "shared", "binary", "phony"}
    /\ p.layers \subseteq Nat
    /\ p.parallel \subseteq BOOLEAN /\ p.fences \subseteq BOOLEAN
    /\ p.enabled \subseteq BOOLEAN /\ p.private \in BOOLEAN
    /\ p.choices \subseteq SUBSET (1..N)

ASSUME BuildGraphAssumption ==
    /\ N \in Nat \ {0}
    /\ \A p \in Profiles : ProfileOK(p)
    /\ Root \notin (1..N) \X {"after_build", "link", "file", "group", "before_build"} \X Nat

Targets == 1..N

VARIABLES
    conf,           \* what the project's xmake.lua files say of the targets
    deps,           \* job._deps: the graph
    after_build,    \* the targets in all_target_jobs
    todo,           \* the calls of the first walk still to be made, next first
    phase,          \* the pass get_batchjobs is in
    pos             \* how far that pass is in project.ordertargets()

vars == <<conf, deps, after_build, todo, phase, pos>>

-----------------------------------------------------------------------------
After(t)  == <<t, "after_build", 0>>
Link(t)   == <<t, "link", 0>>
File(t, i)  == <<t, "file", i>>
Group(t, i) == <<t, "group", i>>
Before(t) == <<t, "before_build", 0>>

NonObject(t) == conf.kind[t] \in {"static", "shared", "binary"}

(* target:get("deps") and the targets named on the command line are lists, *)
(* in the order the user wrote them                                        *)
InOrder(order, S) ==
    LET list[i \in 0..N] ==
        IF i = 0 THEN <<>>
        ELSE IF order[i] \in S THEN Append(list[i - 1], order[i]) ELSE list[i - 1]
    IN  list[N]
DepList(t) == InOrder(conf.order, conf.deps[t])

(* what is reached from each target, if direct[u] is from u                *)
Reached(direct) ==
    LET all[u \in 0..N] ==
        IF u = 0 THEN {} ELSE direct[u] \cup UNION {all[d] : d \in direct[u]}
    IN  all

(* target:orderdeps(): all direct and indirect dependencies (load_deps     *)
(* walks them whether they are enabled or not), and the ones that are      *)
(* reached through inherited dependencies only                             *)
OrderDeps(t) == Reached(conf.deps)[t]
InheritDeps(t) ==
    Reached([u \in Targets |-> {d \in conf.deps[u] : <<u, d>> \notin conf.private}])[t]

(* add_batchjobs_for_object: the last group that was opened, the link job  *)
(* when there are no source files                                          *)
ObjectsJob(t) == IF conf.layers[t] = 0 THEN Link(t) ELSE Group(t, conf.layers[t])

(* Fault: other targets' jobs always hang below the compilation.           *)
BuildRootObjects(t) == IF conf.kind[t] = "phony" THEN After(t) ELSE ObjectsJob(t)

(* job_build: what _add_batchjobs returns to hang other targets' jobs from *)
BuildRoot(t) ==
    IF conf.kind[t] = "phony" THEN After(t)
    ELSE IF conf.parallel[t] THEN Link(t) ELSE ObjectsJob(t)

(* Fault: the link job is not hung under after_build.                      *)
ChainUnlinked(t) ==
    IF conf.kind[t] = "phony" THEN {<<After(t), Before(t)>>}
    ELSE {<<ObjectsJob(t), Before(t)>>}
         \cup {<<IF i = 1 THEN Link(t) ELSE Group(t, i - 1), File(t, i)>> : i \in 1..conf.layers[t]}
         \cup {<<File(t, i), Group(t, i)>> : i \in 1..conf.layers[t]}

(* the edges of one target's chain: what each of its jobs waits for        *)
Chain(t) ==
    IF conf.kind[t] = "phony" THEN {<<After(t), Before(t)>>}
    ELSE {<<After(t), Link(t)>>, <<ObjectsJob(t), Before(t)>>}
         \cup {<<IF i = 1 THEN Link(t) ELSE Group(t, i - 1), File(t, i)>> : i \in 1..conf.layers[t]}
         \cup {<<File(t, i), Group(t, i)>> : i \in 1..conf.layers[t]}

(* batchjobs:add(edge[2], edge[1]) for every edge                          *)
AddEdges(edges) ==
    deps' = [n \in DOMAIN deps \cup UNION {{e[1], e[2]} : e \in edges} |->
                (IF n \in DOMAIN deps THEN deps[n] ELSE {})
                    \cup {e[2] : e \in {x \in edges : x[1] = n}}]

-----------------------------------------------------------------------------
DepGraphs == {f \in [Targets -> SUBSET Targets] : \A t \in Targets : f[t] \subseteq 1..(t - 1)}
Edges(f) == {e \in Targets \X Targets : e[2] \in f[e[1]]}
Ascending == [i \in Targets |-> i]
Orders == {Ascending, [i \in Targets |-> N + 1 - i]}

(* the root targets among the chosen ones, without a name on the command   *)
(* line: enabled, and no other chosen target depends on them               *)
DefaultRoots(chosen) ==
    LET targets == {t \in chosen : conf.enabled[t]}
    IN  {t \in targets : \A u \in targets : t \notin conf.deps[u]}

Init ==
    /\ \E p \in Profiles :
          /\ \E f \in DepGraphs, order \in Orders :
                \E private \in IF p.private THEN SUBSET Edges(f) ELSE {{}} :
                   conf \in [deps : {f}, order : {order}, private : {private},
                             kind : [Targets -> p.kinds],
                             layers : [Targets -> p.layers],
                             parallel : [Targets -> p.parallel],
                             fence : [Targets -> p.fences],
                             enabled : [Targets -> p.enabled]]
          /\ \E chosen \in p.choices :
                \E roots \in {InOrder(conf.order, chosen),
                              InOrder(Ascending, DefaultRoots(chosen))} :
                   todo = [i \in 1..Len(roots) |-> <<roots[i], Root>>]
    /\ deps = [n \in {Root} |-> {}]
    /\ after_build = {}
    /\ phase = "walk"
    /\ pos = 1

(* Fault: a target that has been added is not linked to a second root job. *)
WalkOnce ==
    /\ phase = "walk"
    /\ todo # <<>>
    /\ LET t == Head(todo)[1]
           rootjob == Head(todo)[2]
           new == t \notin after_build /\ conf.enabled[t]
       IN  /\ AddEdges(IF new THEN {<<rootjob, After(t)>>} \cup Chain(t) ELSE {})
           /\ todo' = (IF new THEN [i \in 1..Len(DepList(t)) |->
                          LET dep == DepList(t)[i]
                          IN  <<dep, IF conf.parallel[dep] THEN rootjob ELSE Before(t)>>]
                       ELSE <<>>) \o Tail(todo)
           /\ after_build' = IF new THEN after_build \cup {t} ELSE after_build
    /\ UNCHANGED <<conf, phase, pos>>

(* _add_batchjobs_for_target_and_deps(batchjobs, rootjob, target): a       *)
(* target that has been added is only linked to the root job, a disabled   *)
(* one contributes nothing, and a new one is followed by its dependencies  *)
Walk ==
    /\ phase = "walk"
    /\ todo # <<>>
    /\ LET t == Head(todo)[1]
           rootjob == Head(todo)[2]
           calls == [i \in 1..Len(DepList(t)) |->
                        LET dep == DepList(t)[i]
                        IN  <<dep, IF conf.parallel[dep] THEN rootjob ELSE Before(t)>>]
       IN  \/ /\ t \in after_build
              /\ AddEdges({<<rootjob, After(t)>>})
              /\ todo' = Tail(todo)
              /\ UNCHANGED after_build
           \/ /\ t \notin after_build
              /\ ~conf.enabled[t]
              /\ todo' = Tail(todo)
              /\ UNCHANGED <<deps, after_build>>
           \/ /\ t \notin after_build
              /\ conf.enabled[t]
              /\ AddEdges({<<rootjob, After(t)>>} \cup Chain(t))
              /\ todo' = calls \o Tail(todo)
              /\ after_build' = after_build \cup {t}
    /\ UNCHANGED <<conf, phase, pos>>

WalkDone ==
    /\ phase = "walk"
    /\ todo = <<>>
    /\ phase' = "nonobject"
    /\ UNCHANGED <<conf, deps, after_build, todo, pos>>

(* a pass over project.ordertargets() that adds edges for each target      *)
Pass(this, next, edges) ==
    /\ phase = this
    /\ AddEdges(edges)
    /\ IF pos < N THEN pos' = pos + 1 /\ UNCHANGED phase
                  ELSE pos' = 1 /\ phase' = next
    /\ UNCHANGED <<conf, after_build, todo>>

(* Fault: the patch stops at the direct dependencies.                      *)
NonObjectPatchDirect ==
    Pass("nonobject", "object",
         IF NonObject(pos) /\ pos \in after_build
         THEN {<<BuildRoot(pos), After(d)>> : d \in conf.deps[pos] \cap after_build}
         ELSE {})

(* the build_root of a static, shared or binary target waits for the       *)
(* after_build of all its dependencies                                     *)
NonObjectPatch ==
    Pass("nonobject", "object",
         IF NonObject(pos) /\ pos \in after_build
         THEN {<<BuildRoot(pos), After(d)>> : d \in OrderDeps(pos) \cap after_build}
         ELSE {})

(* the build_root of an object target waits for the build_root of its      *)
(* static, shared and binary dependencies; when the object target is not   *)
(* built the jobs go under the root                                        *)
ObjectPatch ==
    Pass("object", "fence",
         IF conf.kind[pos] = "object"
         THEN {<<IF pos \in after_build THEN BuildRoot(pos) ELSE Root, BuildRoot(d)>> :
                  d \in {x \in InheritDeps(pos) \cap after_build : NonObject(x)}}
         ELSE {})

(* Fault: only direct dependencies can be a fence.                         *)
FencePatchDirect ==
    Pass("fence", "done",
         IF pos \in after_build
         THEN {<<Before(pos), After(d)>> :
                  d \in {x \in conf.deps[pos] \cap after_build : conf.fence[x]}}
         ELSE {})

(* before_build waits for the after_build of every dependency with a fence *)
FencePatch ==
    Pass("fence", "done",
         IF pos \in after_build
         THEN {<<Before(pos), After(d)>> :
                  d \in {x \in OrderDeps(pos) \cap after_build : conf.fence[x]}}
         ELSE {})

(* get_batchjobs has returned                                              *)
Done == phase = "done" /\ UNCHANGED vars

Next == Walk \/ WalkDone \/ NonObjectPatch \/ ObjectPatch \/ FencePatch \/ Done

Spec == Init /\ [][Next]_vars

-----------------------------------------------------------------------------
(* the jobs that n waits for, directly or not                              *)
WaitsFor(n) ==
    LET reach[k \in Nat] ==
            IF k = 0 THEN deps[n]
            ELSE LET near == reach[k - 1] IN near \cup UNION {deps[m] : m \in near}
    IN  reach[Cardinality(DOMAIN deps)]

(* Type invariant: the graph connects jobs of targets that were added.     *)
TypeOK ==
    /\ after_build \subseteq Targets
    /\ \A n \in DOMAIN deps : deps[n] \subseteq DOMAIN deps \ {Root}
    /\ phase \in {"walk", "nonobject", "object", "fence", "done"}
    /\ pos \in Targets

(* Every job gets its turn: no job waits for itself, and each hangs, in    *)
(* the end, under the root.  The pool finds its jobs from the root but     *)
(* counts all of them, so a job elsewhere, like one on a cycle, would keep *)
(* the runner of the build waiting for ever.                               *)
EveryJobRuns ==
    /\ TypeOK
    /\ phase = "done" =>
          /\ \A n \in DOMAIN deps : n \notin WaitsFor(n)
          /\ DOMAIN deps = {Root} \cup WaitsFor(Root)

(* A static, shared or binary target is linked after all its dependencies, *)
(* direct or not, are complete.  "libB.so must wait until libC.a is built" *)
(* (actions/build/build.lua:385, translated): the job that links an object *)
(* target waits for the link jobs of its libraries, direct or not, unless  *)
(* build.across_targets_in_parallel is false for the library: what waits   *)
(* is hung under its source files then, and not under its link job.        *)
LinkWaitsForDeps ==
    phase = "done" => \A t \in after_build :
        /\ NonObject(t) =>
              \A d \in OrderDeps(t) \cap after_build : After(d) \in WaitsFor(Link(t))
        /\ conf.kind[t] = "object" =>
              \A d \in InheritDeps(t) \cap after_build :
                  (NonObject(d) /\ conf.parallel[d]) => Link(d) \in WaitsFor(Link(t))

(* build.fence (docs/design/build_batchjobs_graph.md): whatever generates  *)
(* headers is complete before the first job of a target that depends on    *)
(* it, directly or not, starts.                                            *)
FenceHolds ==
    phase = "done" =>
        \A t \in after_build : \A d \in OrderDeps(t) \cap after_build :
            conf.fence[d] => After(d) \in WaitsFor(Before(t))

(* A dependency that is not built across targets in parallel is complete   *)
(* before a target that depends on it starts.                              *)
SerialDepFirst ==
    phase = "done" =>
        \A t \in after_build : \A d \in conf.deps[t] \cap after_build :
            ~conf.parallel[d] => After(d) \in WaitsFor(Before(t))

(* Without these policies the source files of a target wait for no other   *)
(* target ("so we can compile the source files for each target in          *)
(* parallel", kinds/binary.lua:142).                                       *)
CompilesInParallel ==
    phase = "done" /\ (\A t \in Targets : conf.parallel[t] /\ ~conf.fence[t]) =>
        \A t \in after_build, i \in 1..N :
            File(t, i) \in DOMAIN deps =>
                \A n \in WaitsFor(File(t, i)) : n[1] = t
=============================================================================
