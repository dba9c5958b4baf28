---------------------------- MODULE IncrementalBuild ----------------------------
(***************************************************************************)
(* The incremental build: which objects are compiled and which targets are *)
(* linked again.                                                           *)
(*                                                                         *)
(* modules/core/project/depend.lua decides it from a depend file that      *)
(* records the files and values of the last time, and from modify times in *)
(* seconds.  modules/private/action/build/object.lua compiles a source     *)
(* file and saves its depend file afterwards,                              *)
(* actions/build/kinds/static.lua and binary.lua link a target.  The jobs  *)
(* are run as the job graph of a build orders them; a build may fail or be *)
(* killed at any step, and between builds the user edits files, changes    *)
(* flags, removes outputs and changes the list of source files.  Two user  *)
(* actions are never in the same second.                                   *)
(***************************************************************************)
EXTENDS Naturals, Sequences, FiniteSets, SequencesExt

CONSTANTS
    Units,      \* source files; a unit also names its object file
    Headers,
    Targets,
    Includes,   \* what each source file includes, a sequence of headers
    FlagLists,  \* the flags the user may set, each a sequence
    FirstFlags, \* the ones that are set at first
    Projects,   \* see ProjectOK
    MaxTime,    \* seconds that pass
    NONE

Happenings == {"edit", "flags", "remove", "sources", "rebuild", "fail",
               "kill", "killlink"}

(* The source files of each target, the static libraries among its         *)
(* dependencies, which are targets of the project too, and what may happen. *)
ProjectOK(p) ==
    /\ p.units \in [Targets -> SUBSET Units]
    /\ p.libs \in [Targets -> SUBSET {t \in Targets : p.units[t] # {}}]
    /\ p.may \subseteq Happenings

ASSUME ProjectAssumption ==
    /\ \A p \in Projects : ProjectOK(p)
    /\ Includes \in [Units -> Seq(Headers)]
ASSUME BoundAssumption ==
    /\ MaxTime \in Nat \ {0} /\ IsFiniteSet(Units) /\ IsFiniteSet(Targets)
    /\ FlagLists \subseteq Seq(STRING) /\ FirstFlags \in FlagLists

VARIABLES
    project,    \* never changed
    now,        \* the second
    src,        \* modify time of each source file and header, which also
                \* stands for its contents
    live,       \* the source files that are in the project
    flags,      \* the flags of the project
    obj, dep,   \* object file and depend file of each unit
    bin, bdep,  \* target file and depend file of each target
    job,        \* where each compile and link job is; NONE between builds
    reads,      \* what a compiler or linker that runs has read
    rebuilt,    \* whether the build was started with --rebuild
    failed,     \* whether a job of the build has failed
    cache,      \* files_mtime
    settled     \* a build succeeded and the user did nothing since

disk == <<src, live, flags, obj, dep, bin, bdep>>
build == <<job, reads, rebuilt, failed, cache>>
vars == <<project, now, disk, build, settled>>

Sources == Units \cup Headers
Outputs == (Units \X {"o"}) \cup (Targets \X {"bin"})
O(u) == <<u, "o">>
B(t) == <<t, "bin">>

(* what an object can be made from                                         *)
Mades == [src : UNION {[files -> Nat] : files \in SUBSET Sources}, flags : FlagLists]

(* Files and jobs have names of their own, and none of them is NONE.       *)
ASSUME NameAssumption ==
    /\ Units \cap Targets = {} /\ Sources \cap Outputs = {}
    /\ NONE \notin {"before", "wait", "tool", "save", "saving", "done"}
    /\ NONE \notin Nat /\ NONE \notin FlagLists
    /\ NONE \notin Seq(Outputs) /\ NONE \notin Mades

NoFile == [mtime |-> 0, made |-> NONE]
Torn == [mtime |-> now, made |-> NONE]
NoDepend == [mtime |-> 0, files |-> <<>>, values |-> NONE]
TornDepend == [NoDepend EXCEPT !.mtime = now]
Idle == [x \in Units \cup Targets |-> NONE]
Empty == [x \in Sources \cup Outputs |-> NONE]

Init ==
    /\ project \in Projects
    /\ now = 1
    /\ src = [f \in Sources |-> 1]
    /\ live = UNION {project.units[t] : t \in Targets}
    /\ flags = FirstFlags
    /\ obj = [u \in Units |-> NoFile]
    /\ dep = [u \in Units |-> NoDepend]
    /\ bin = [t \in Targets |-> NoFile]
    /\ bdep = [t \in Targets |-> NoDepend]
    /\ job = Idle /\ reads = Idle
    /\ rebuilt = FALSE /\ failed = FALSE
    /\ cache = Empty
    /\ settled = FALSE

(* the targets of the project                                              *)
Members == {t \in Targets : project.units[t] # {}}

Building == \E x \in Units \cup Targets : job[x] # NONE

-----------------------------------------------------------------------------
(* depend.lua                                                              *)

(* os.mtime: 0 if there is no such file                                    *)
Mtime(f) ==
    IF f \in Sources THEN src[f]
    ELSE IF f[2] = "o" THEN obj[f[1]].mtime ELSE bin[f[1]].mtime

(* files_mtime[file] or os.mtime(file)                                     *)
CachedMtime(f) == IF cache[f] = NONE THEN Mtime(f) ELSE cache[f]

(* Fault: a file as old as the last time counts as changed.                *)
NewerOrSame(f, last) == CachedMtime(f) = 0 \/ CachedMtime(f) >= last

(* a file that is missing or newer than the last time                      *)
Newer(f, last) == CachedMtime(f) = 0 \/ CachedMtime(f) > last

(* the scan of the recorded files ends at the first one that is newer; 0   *)
(* if there is none                                                        *)
Stop(d, last) == SelectInSeq(d.files, LAMBDA f : Newer(f, last))
Scanned(d, last) ==
    LET n == IF Stop(d, last) = 0 THEN Len(d.files) ELSE Stop(d, last)
    IN  {d.files[i] : i \in 1..n}

(* the values are compared for as long as the recorded list is             *)
ValuesDiffer(old, new) == ~IsPrefix(old, new)

(* a depend file that is missing or was cut off gives no information, nor  *)
(* does one that is not loaded because all is built again                  *)
Loaded(d) == ~rebuilt /\ d.values # NONE

(* is_changed: files is the current list of files, if that is to be        *)
(* compared too                                                            *)
IsChanged(d, last, files) ==
    Loaded(d) =>
    \/ Stop(d, last) # 0
    \/ ValuesDiffer(d.values, flags)
    \/ files \notin {NONE, d.files}

(* Fault: the modify times of all files are read when the first is asked   *)
(* for.                                                                    *)
RememberAll(d, last) ==
    cache' = [f \in DOMAIN cache |-> CachedMtime(f)]

(* what is_changed leaves in files_mtime                                   *)
Remember(d, last) ==
    cache' = [f \in DOMAIN cache |->
                 IF Loaded(d) /\ f \in Scanned(d, last) THEN CachedMtime(f)
                                                       ELSE cache[f]]

-----------------------------------------------------------------------------
(* object.lua                                                              *)

UnitFiles(u) == <<u>> \o Includes[u]

(* what an object of u is to be made from                                  *)
Inputs(u) == [src |-> [f \in ToSet(UnitFiles(u)) |-> src[f]], flags |-> flags]

(* Fault: the modify time of the object file is the last time.             *)
LastMtimeObject(u) == obj[u].mtime

(* os.isfile(objectfile) and os.mtime(dependfile) or 0                     *)
LastMtime(u) == IF obj[u].mtime = 0 THEN 0 ELSE dep[u].mtime

UnitChanged(u) == IsChanged(dep[u], LastMtime(u), NONE)

(* the compile jobs of a target wait for its before job, see Before        *)
MayCompile(u) ==
    /\ job[u] = "wait"
    /\ \A t \in Targets : u \in project.units[t] => job[t] # "before"
    /\ ~failed

(* _do_build_file returns early                                            *)
UpToDate(u) ==
    /\ MayCompile(u)
    /\ ~UnitChanged(u)
    /\ Remember(dep[u], LastMtime(u))
    /\ job' = [job EXCEPT ![u] = "done"]
    /\ UNCHANGED <<project, now, disk, reads, rebuilt, failed, settled>>

(* the compiler starts; it may have begun to write the object file         *)
CompileBegin(u) ==
    /\ MayCompile(u)
    /\ UnitChanged(u)
    /\ Remember(dep[u], LastMtime(u))
    /\ job' = [job EXCEPT ![u] = "tool"]
    /\ reads' = [reads EXCEPT ![u] = Inputs(u)]
    /\ obj' \in {obj, [obj EXCEPT ![u] = Torn]}
    /\ UNCHANGED <<project, now, src, live, flags, dep, bin, bdep, rebuilt,
                   failed, settled>>

(* the compiler ends                                                       *)
CompileEnd(u) ==
    /\ job[u] = "tool"
    /\ obj' = [obj EXCEPT ![u] = [mtime |-> now, made |-> reads[u]]]
    /\ job' = [job EXCEPT ![u] = "save"]
    /\ UNCHANGED <<project, now, src, live, flags, dep, bin, bdep, reads, rebuilt,
                   failed, cache, settled>>

(* the compiler fails: gcc.lua removes the object file and raises          *)
CompileFail(u) ==
    /\ "fail" \in project.may
    /\ job[u] = "tool"
    /\ obj' = [obj EXCEPT ![u] = NoFile]
    /\ job' = [job EXCEPT ![u] = "done"]
    /\ reads' = [reads EXCEPT ![u] = NONE]
    /\ failed' = TRUE
    /\ UNCHANGED <<project, now, src, live, flags, dep, bin, bdep, rebuilt, cache,
                   settled>>

(* io.save opens the depend file for writing ...                           *)
SaveBegin(u) ==
    /\ job[u] = "save"
    /\ dep' = [dep EXCEPT ![u] = TornDepend]
    /\ job' = [job EXCEPT ![u] = "saving"]
    /\ UNCHANGED <<project, now, src, live, flags, obj, bin, bdep, reads, rebuilt,
                   failed, cache, settled>>

(* ... and writes it                                                       *)
SaveEnd(u) ==
    /\ job[u] = "saving"
    /\ dep' = [dep EXCEPT ![u] = [mtime |-> now, files |-> UnitFiles(u),
                                  values |-> reads[u].flags]]
    /\ job' = [job EXCEPT ![u] = "done"]
    /\ reads' = [reads EXCEPT ![u] = NONE]
    /\ UNCHANGED <<project, now, src, live, flags, obj, bin, bdep, rebuilt,
                   failed, cache, settled>>

-----------------------------------------------------------------------------
(* linking: kinds/static.lua, kinds/binary.lua and kinds/linkdepfiles.lua  *)

LinkUnits(t) == project.units[t] \cap live

(* get_linkdepfiles: the objects, then the static libraries                *)
LinkFiles(t) ==
    SetToSeq({O(u) : u \in LinkUnits(t)}) \o SetToSeq({B(l) : l \in project.libs[t]})

(* what a target is to be made from                                        *)
LinkInputs(t) ==
    [objs |-> [u \in LinkUnits(t) |-> obj[u].made],
     libs |-> [l \in project.libs[t] |-> bin[l].made],
     flags |-> flags]

(* the before job of a target that is built again removes the target file  *)
Before(t) ==
    /\ job[t] = "before"
    /\ ~failed
    /\ bin' = IF rebuilt THEN [bin EXCEPT ![t] = NoFile] ELSE bin
    /\ job' = [job EXCEPT ![t] = "wait"]
    /\ UNCHANGED <<project, now, src, live, flags, obj, dep, bdep, reads, rebuilt,
                   failed, cache, settled>>

(* the link job waits for the compile jobs and for the libraries           *)
MayLink(t) ==
    /\ job[t] = "wait"
    /\ \A u \in LinkUnits(t) : job[u] = "done"
    /\ \A l \in project.libs[t] : job[l] = "done"
    /\ ~failed

(* on_changed with lastmtime = os.mtime(target:targetfile())               *)
TargetChanged(t) == IsChanged(bdep[t], bin[t].mtime, LinkFiles(t))

LinkUpToDate(t) ==
    /\ MayLink(t)
    /\ ~TargetChanged(t)
    /\ Remember(bdep[t], bin[t].mtime)
    /\ job' = [job EXCEPT ![t] = "done"]
    /\ UNCHANGED <<project, now, disk, reads, rebuilt, failed, settled>>

(* the linker starts: ar.lua removes the target file first, ld writes over *)
(* it                                                                      *)
LinkBegin(t) ==
    /\ MayLink(t)
    /\ TargetChanged(t)
    /\ Remember(bdep[t], bin[t].mtime)
    /\ job' = [job EXCEPT ![t] = "tool"]
    /\ reads' = [reads EXCEPT ![t] = LinkInputs(t)]
    /\ \E f \in {bin[t], NoFile, Torn} : bin' = [bin EXCEPT ![t] = f]
    /\ UNCHANGED <<project, now, src, live, flags, obj, dep, bdep, rebuilt,
                   failed, settled>>

LinkEnd(t) ==
    /\ job[t] = "tool"
    /\ bin' = [bin EXCEPT ![t] = [mtime |-> now, made |-> reads[t]]]
    /\ job' = [job EXCEPT ![t] = "save"]
    /\ UNCHANGED <<project, now, src, live, flags, obj, dep, bdep, reads, rebuilt,
                   failed, cache, settled>>

(* the linker fails and leaves no target file                              *)
LinkFail(t) ==
    /\ "fail" \in project.may
    /\ job[t] = "tool"
    /\ bin' = [bin EXCEPT ![t] = NoFile]
    /\ job' = [job EXCEPT ![t] = "done"]
    /\ reads' = [reads EXCEPT ![t] = NONE]
    /\ failed' = TRUE
    /\ UNCHANGED <<project, now, src, live, flags, obj, dep, bdep, rebuilt, cache,
                   settled>>

LinkSaveBegin(t) ==
    /\ job[t] = "save"
    /\ bdep' = [bdep EXCEPT ![t] = TornDepend]
    /\ job' = [job EXCEPT ![t] = "saving"]
    /\ UNCHANGED <<project, now, src, live, flags, obj, dep, bin, reads, rebuilt,
                   failed, cache, settled>>

LinkSaveEnd(t) ==
    /\ job[t] = "saving"
    /\ bdep' = [bdep EXCEPT ![t] = [mtime |-> now, files |-> LinkFiles(t),
                                    values |-> flags]]
    /\ job' = [job EXCEPT ![t] = "done"]
    /\ reads' = [reads EXCEPT ![t] = NONE]
    /\ UNCHANGED <<project, now, src, live, flags, obj, dep, bin, rebuilt, failed,
                   cache, settled>>

-----------------------------------------------------------------------------
(* the build as a whole                                                    *)

(* a new process; files_mtime is empty                                     *)
Start(again) ==
    /\ ~Building
    /\ again => "rebuild" \in project.may
    /\ job' = [x \in Units \cup Targets |->
                  IF x \in Members THEN "before"
                  ELSE IF x \in live THEN "wait" ELSE "done"]
    /\ rebuilt' = again
    /\ settled' = (settled /\ ~again)
    /\ UNCHANGED <<project, now, disk, reads, failed, cache>>

Reset ==
    /\ job' = Idle /\ reads' = Idle
    /\ rebuilt' = FALSE /\ failed' = FALSE
    /\ cache' = Empty

(* the jobs that run when another one fails come to their end, the others  *)
(* are not started                                                         *)
Finish ==
    /\ Building
    /\ \A x \in Units \cup Targets :
          job[x] = "done" \/ (failed /\ job[x] \in {"before", "wait"})
    /\ Reset
    /\ settled' = ~failed
    /\ UNCHANGED <<project, now, disk>>

(* the process is killed with the tools it runs                            *)
Kill ==
    /\ "kill" \in project.may
    /\ Building
    /\ "killlink" \in project.may \/ \A t \in Targets : job[t] # "tool"
    /\ Reset
    /\ UNCHANGED <<project, now, disk, settled>>

Tick ==
    /\ Building
    /\ now < MaxTime
    /\ now' = now + 1
    /\ UNCHANGED <<project, disk, build, settled>>

(* what the user does between builds, each time in a new second            *)
UserActs(what) ==
    /\ what \in project.may
    /\ ~Building
    /\ now < MaxTime
    /\ now' = now + 1
    /\ settled' = FALSE
    /\ UNCHANGED <<project, build>>

Edit(f) ==
    /\ UserActs("edit")
    /\ src' = [src EXCEPT ![f] = now']
    /\ UNCHANGED <<live, flags, obj, dep, bin, bdep>>

SetFlags(l) ==
    /\ UserActs("flags")
    /\ l # flags
    /\ flags' = l
    /\ UNCHANGED <<src, live, obj, dep, bin, bdep>>

(* a target keeps at least one source file                                 *)
SetSources(set) ==
    /\ UserActs("sources")
    /\ set # live
    /\ \A t \in Members : project.units[t] \cap set # {}
    /\ live' = set
    /\ UNCHANGED <<src, flags, obj, dep, bin, bdep>>

RemoveObject(u) ==
    /\ UserActs("remove")
    /\ obj[u].mtime # 0
    /\ obj' = [obj EXCEPT ![u] = NoFile]
    /\ UNCHANGED <<src, live, flags, dep, bin, bdep>>

RemoveTarget(t) ==
    /\ UserActs("remove")
    /\ bin[t].mtime # 0
    /\ bin' = [bin EXCEPT ![t] = NoFile]
    /\ UNCHANGED <<src, live, flags, obj, dep, bdep>>

Next ==
    \/ \E again \in BOOLEAN : Start(again)
    \/ \E u \in Units :
          \/ UpToDate(u) \/ CompileBegin(u) \/ CompileEnd(u) \/ CompileFail(u)
          \/ SaveBegin(u) \/ SaveEnd(u) \/ RemoveObject(u)
    \/ \E t \in Targets :
          \/ Before(t) \/ LinkUpToDate(t) \/ LinkBegin(t) \/ LinkEnd(t)
          \/ LinkFail(t) \/ LinkSaveBegin(t) \/ LinkSaveEnd(t)
          \/ RemoveTarget(t)
    \/ Finish \/ Kill \/ Tick
    \/ \E f \in Sources : Edit(f)
    \/ \E l \in FlagLists : SetFlags(l)
    \/ \E set \in SUBSET Units : SetSources(set)

Spec == Init /\ [][Next]_vars

-----------------------------------------------------------------------------

(* a tool runs or its depend file is to be saved                           *)
Working == {"tool", "save", "saving"}

(* The state has its shape; what a compiler or linker has read stays as it *)
(* is on the disk until the depend file is saved.                          *)
TypeOK ==
    /\ project \in Projects
    /\ now \in 1..MaxTime
    /\ src \in [Sources -> 1..MaxTime]
    /\ live \subseteq Units
    /\ flags \in FlagLists
    /\ \A u \in Units : obj[u].mtime \in 0..now /\ dep[u].mtime \in 0..now
    /\ \A t \in Targets : bin[t].mtime \in 0..now /\ bdep[t].mtime \in 0..now
    /\ job \in [Units \cup Targets ->
                  {NONE, "before", "wait", "tool", "save", "saving", "done"}]
    /\ \A x \in Units \cup Targets : job[x] \notin Working => reads[x] = NONE
    /\ \A u \in Units : job[u] \in Working => reads[u] = Inputs(u)
    /\ \A t \in Targets : job[t] \in Working => reads[t] = LinkInputs(t)
    /\ rebuilt \in BOOLEAN /\ failed \in BOOLEAN /\ settled \in BOOLEAN

(* A build that succeeds leaves what a build from nothing would make, as   *)
(* long as nothing is changed, whatever was edited, removed or failed      *)
(* before: objects are complete and made from the sources, headers and     *)
(* flags as they are, targets from these objects and from the libraries as *)
(* they are.  The link job looks at modify times that the compile jobs of  *)
(* the same build have just changed.  Builds may be killed in projects     *)
(* that are only edited, and no list of flags is the beginning of another: *)
(* the code promises no more (see InterruptedNotLinked, and depend.lua:130 *)
(* for flags that are appended).                                           *)
Fresh ==
    /\ TypeOK
    /\ settled => /\ \A u \in live : obj[u].made = Inputs(u)
                  /\ \A t \in Members : bin[t].made = LinkInputs(t)

(* The linker only reads objects that are complete and current, also in a  *)
(* build that fails later: an object that a killed compiler left behind is *)
(* compiled again first (object.lua, issue 748), under the same conditions *)
(* as Fresh.                                                               *)
LinkReadsCurrent ==
    \A t \in Targets : job[t] = "tool" =>
        \A u \in LinkUnits(t) : obj[u].made = Inputs(u)

(* Nothing is compiled or linked again when a build has succeeded and      *)
(* nothing was changed since.                                              *)
NothingRedone ==
    settled => \A x \in Units \cup Targets :
        job[x] \in {NONE, "before", "wait", "done"}

(* What object.lua:55 says of the modify time of the depend file: it is    *)
(* used "to avoid objectfile corruption due to compilation interruptions". *)
(* An object that an interrupted compiler left behind is never linked.     *)
InterruptedNotLinked ==
    \A t \in Targets : job[t] = "tool" =>
        \A u \in LinkUnits(t) : obj[u].made # NONE
=============================================================================
