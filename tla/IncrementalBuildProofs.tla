------------------------- MODULE IncrementalBuildProofs -------------------------
(***************************************************************************)
(* Theorems about IncrementalBuild: with any number of source files,       *)
(* targets and builds, modify times and depend files are enough to tell    *)
(* what has to be made again, as long as nothing is in the way that        *)
(* Recoverable and NoListExtended name.                                    *)
(*                                                                         *)
(* The invariant says of each object that its depend file tells what it    *)
(* is made from (UnitOK), and of each target that its modify time does     *)
(* (OnDisk, TargetOK): objects and libraries that are not newer are those  *)
(* that were linked.  Modify times are in seconds, though, and a build that *)
(* follows on one that failed may compile an object in the second in which *)
(* its target was linked.  Nothing was edited in between: the target is    *)
(* among those that are known to be made from the sources as they are      *)
(* (Coherent), and so is the object.                                       *)
(***************************************************************************)
EXTENDS IncrementalBuild, SequenceFacts, FiniteSetTheorems, TLAPS

-----------------------------------------------------------------------------
(* What may happen to a build that can be killed, for the next one to be   *)
(* able to tell from the files it finds what has been done. depend.lua     *)
(* leaves the depend file of the time before where it is while the tool    *)
(* runs, so that a build that compiles for another reason than a newer     *)
(* source (other flags, an output that was removed, --rebuild, other       *)
(* sources of a target) and is killed leaves it beside an output that is   *)
(* torn or other than it says. A build that is killed in a linker leaves a *)
(* target file that is newer than all it is made from.                     *)
Recoverable(p) ==
    "kill" \in p.may =>
        p.may \cap {"flags", "remove", "sources", "rebuild", "killlink"} = {}

(* No list of flags is the beginning of another one: depend.lua compares   *)
(* values as far as the recorded list goes.                                *)
NoListExtended == \A a, b \in FlagLists : IsPrefix(a, b) => a = b

(* The state has its shape; a file is never newer than the second.         *)
Shape ==
    /\ project \in Projects
    /\ now \in 1..MaxTime
    /\ src \in [Sources -> Nat \ {0}] /\ \A f \in Sources : src[f] <= now
    /\ live \subseteq Units
    /\ flags \in FlagLists
    /\ obj \in [Units -> [mtime : Nat, made : Mades \cup {NONE}]]
    /\ dep \in [Units -> [mtime : Nat, files : Seq(Sources), values : FlagLists \cup {NONE}]]
    /\ \A u \in Units : obj[u].mtime <= now /\ dep[u].mtime <= now
    /\ DOMAIN bin = Targets
    /\ bdep \in [Targets -> [mtime : Nat, files : Seq(Outputs), values : FlagLists \cup {NONE}]]
    /\ \A t \in Targets : /\ bin[t].mtime \in Nat /\ bin[t].mtime <= now
                          /\ bdep[t].mtime <= now
    /\ job \in [Units \cup Targets ->
                  {NONE, "before", "wait", "tool", "save", "saving", "done"}]
    /\ DOMAIN reads = Units \cup Targets
    /\ \A x \in Units \cup Targets : job[x] \notin Working => reads[x] = NONE
    /\ rebuilt \in BOOLEAN /\ failed \in BOOLEAN /\ settled \in BOOLEAN
    /\ cache \in [Sources \cup Outputs -> Nat \cup {NONE}]

(* The outputs the linker of t may ever read.                              *)
Linkable(t) == {O(u) : u \in project.units[t]} \cup {B(l) : l \in project.libs[t]}

(* The control of a build: what is set while no build runs, which jobs     *)
(* there are, that a target is linked after what it is made from, and that *)
(* what files_mtime holds is still true: a modify time is only remembered  *)
(* when no job will change it any more.                                    *)
Control ==
    /\ ~Building => ~failed /\ cache = Empty
    /\ Building => /\ \A x \in Units \cup Targets : job[x] # NONE
                   /\ \A u \in Units \ live : job[u] = "done"
                   /\ \A t \in Targets \ Members : job[t] = "done"
    /\ \A u \in Units : job[u] # "before"
    /\ \A t \in Members : project.units[t] \cap live # {}
    /\ \A t \in Targets : ToSet(bdep[t].files) \subseteq Linkable(t)
    /\ rebuilt => "rebuild" \in project.may
    /\ settled => ~rebuilt /\ ~failed /\ \A x \in Units \cup Targets : job[x] \notin Working
    /\ \A t \in Members : job[t] \in Working \cup {"done"} =>
          /\ \A u \in LinkUnits(t) : job[u] = "done"
          /\ \A l \in project.libs[t] : job[l] = "done"
    /\ \A f \in Sources \cup Outputs : cache[f] # NONE =>
          /\ cache[f] = Mtime(f)
          /\ f \in Outputs => job[f[1]] = "done"

(* The object of u is there and no source is newer than its depend file.   *)
Known(u) ==
    /\ dep[u].values # NONE /\ obj[u].mtime # 0
    /\ \A f \in ToSet(UnitFiles(u)) : src[f] <= dep[u].mtime

(* The next build compiles u again, whatever its flags are.                *)
Stale(u) ==
    dep[u].values = NONE \/ \E f \in ToSet(UnitFiles(u)) : src[f] > dep[u].mtime

(* The object and the depend file of u are those of the sources and flags  *)
(* as they are.                                                            *)
UnitCurrent(u) ==
    Known(u) /\ obj[u].made = Inputs(u) /\ dep[u].values = flags

(* A source file, its object, its depend file and its job.  A depend file  *)
(* that no source is newer than says what the object is made from, unless  *)
(* the job is just making it.  When the build may be killed, the depend    *)
(* file is not to be trusted only if it shows that itself (Stale).         *)
UnitOK(u) ==
    /\ dep[u].values # NONE => dep[u].files = UnitFiles(u)
    /\ job[u] \notin Working /\ Known(u) =>
          obj[u].made = [Inputs(u) EXCEPT !.flags = dep[u].values]
    /\ job[u] \in Working => reads[u] = Inputs(u)
    /\ job[u] \in {"save", "saving"} => obj[u].made = Inputs(u) /\ obj[u].mtime # 0
    /\ job[u] = "saving" => dep[u].values = NONE
    /\ "kill" \in project.may =>
          /\ dep[u].values \in {NONE, flags}
          /\ job[u] \in {"tool", "save"} \/ obj[u].mtime = 0 => Stale(u)
    /\ u \in live /\ (settled \/ (job[u] = "done" /\ ~failed)) => UnitCurrent(u)

(* What t is to be made from when K is what the libraries are made from:   *)
(* the sources, not the objects on the disk.                               *)
Content(t, K) ==
    [objs |-> [u \in LinkUnits(t) |-> Inputs(u)],
     libs |-> [l \in project.libs[t] |-> K[l]],
     flags |-> flags]

(* D is a set of targets with the libraries they link, K what they are     *)
(* made from when all of it is made from the sources and flags as they     *)
(* are.                                                                    *)
Coherent(D, K) ==
    /\ D \subseteq Targets
    /\ \A t \in D : project.libs[t] \subseteq D /\ K[t] = Content(t, K)

(* m says what a target t can have been made from.                         *)
IsMade(t, m) ==
    /\ m = [objs |-> m.objs, libs |-> m.libs, flags |-> m.flags]
    /\ m.objs = [u \in DOMAIN m.objs |-> m.objs[u]]
    /\ DOMAIN m.objs \subseteq project.units[t]
    /\ m.libs = [l \in project.libs[t] |-> m.libs[l]]

(* A target file is as old as what it was made from says: an object or a   *)
(* library that is not newer is the one the linker has read.  This is what *)
(* the comparison of modify times relies on.  A target of this second is   *)
(* in D, since user and build do not act in the same second.               *)
OnDisk(D, K, t) ==
    LET m == bin[t].made IN
    /\ IsMade(t, m)
    /\ \A u \in DOMAIN m.objs :
          obj[u].mtime \in 1..bin[t].mtime /\ obj[u].made # NONE => m.objs[u] = obj[u].made
    /\ \A l \in project.libs[t] :
          job[l] # "tool" /\ bin[l].mtime \in 1..bin[t].mtime => m.libs[l] = bin[l].made
    /\ bin[t].mtime = now => t \in D /\ m = K[t]
    /\ job[t] \notin Working /\ bdep[t].values # NONE =>
          /\ m.flags = bdep[t].values
          /\ ToSet(bdep[t].files) = {O(u) : u \in DOMAIN m.objs} \cup {B(l) : l \in project.libs[t]}

(* Target file, objects and libraries are there, and none is newer than    *)
(* the target file.                                                        *)
NoNewer(t) ==
    /\ bin[t].mtime # 0
    /\ \A u \in LinkUnits(t) : obj[u].mtime \in 1..bin[t].mtime
    /\ \A l \in project.libs[t] : bin[l].mtime \in 1..bin[t].mtime

(* The target file and the depend file of t are those of the sources and   *)
(* flags as they are.                                                      *)
TargetCurrent(D, K, t) ==
    /\ t \in D /\ bin[t].made = K[t]
    /\ NoNewer(t)
    /\ bdep[t].values = flags /\ bdep[t].files = LinkFiles(t)

(* What the linker of t reads or has read is current.                      *)
Ready(D, K, t) ==
    /\ t \in D /\ reads[t] = K[t]
    /\ \A u \in LinkUnits(t) : UnitCurrent(u)
    /\ \A l \in project.libs[t] : bin[l].made = K[l] /\ bin[l].mtime # 0

(* A target, its file, its depend file and its job.                        *)
TargetOK(D, K, t) ==
    /\ job[t] # "tool" /\ bin[t].mtime # 0 => OnDisk(D, K, t)
    /\ job[t] \in Working => Ready(D, K, t)
    /\ job[t] \in {"save", "saving"} => bin[t].made = K[t] /\ NoNewer(t)
    /\ job[t] = "saving" => bdep[t].values = NONE
    /\ "kill" \in project.may =>
          bdep[t].values = NONE \/ (bdep[t].values = flags /\ bdep[t].files = LinkFiles(t))
    /\ t \in Members /\ (settled \/ (job[t] = "done" /\ ~failed)) => TargetCurrent(D, K, t)

(* All targets.  Which of them are known to be made from the sources as    *)
(* they are, and from what, is not in the state: D and K are there.        *)
LinkInv == \E D \in SUBSET Targets : \E K :
               Coherent(D, K) /\ \A t \in Targets : TargetOK(D, K, t)
-----------------------------------------------------------------------------
(* Files have names of their own.                                          *)
LEMMA Names ==
    /\ \A u \in Units : /\ O(u) \in Outputs /\ O(u) \notin Sources
                        /\ O(u)[1] = u /\ O(u)[2] = "o" /\ u \in Sources
    /\ \A t \in Targets : /\ B(t) \in Outputs /\ B(t) \notin Sources
                          /\ B(t)[1] = t /\ B(t)[2] = "bin"
    /\ \A f \in Outputs : \/ \E u \in Units : f = O(u)
                          \/ \E t \in Targets : f = B(t)
BY NameAssumption DEF O, B, Outputs, Sources

(* os.mtime of each kind of file.                                          *)
LEMMA Mtimes ==
    /\ \A f \in Sources : Mtime(f) = src[f]
    /\ \A u \in Units : Mtime(O(u)) = obj[u].mtime
    /\ \A t \in Targets : Mtime(B(t)) = bin[t].mtime
BY Names DEF Mtime

(* files_mtime only holds modify times that are still true.                *)
LEMMA Cached ==
    ASSUME Control, NEW f \in Sources \cup Outputs
    PROVE  CachedMtime(f) = Mtime(f)
BY DEF Control, CachedMtime

(* The scan of is_changed ends at a file that is newer if there is one.    *)
LEMMA StopProperties ==
    ASSUME NEW S, NEW d, NEW last, d.files \in Seq(S)
    PROVE  /\ Stop(d, last) = 0 => \A f \in ToSet(d.files) : ~Newer(f, last)
           /\ Stop(d, last) # 0 => \E f \in ToSet(d.files) : Newer(f, last)
           /\ Scanned(d, last) \subseteq ToSet(d.files)
<1> DEFINE I == {i \in 1..Len(d.files) : Newer(d.files[i], last)}
<1>1. Len(d.files) \in Nat /\ DOMAIN d.files = 1..Len(d.files)
  BY LenProperties
<1>2. Stop(d, last) = IF I # {} THEN Min(I) ELSE 0
  BY DEF Stop, SelectInSeq
<1>3. I \in SUBSET Nat /\ 0 \notin I
  BY <1>1
<1>4. ToSet(d.files) = {d.files[i] : i \in 1..Len(d.files)}
  BY <1>1 DEF ToSet
<1>5. CASE I = {}
  <2>1. Stop(d, last) = 0
    BY <1>2, <1>5
  <2>2. \A i \in 1..Len(d.files) : ~Newer(d.files[i], last)
    BY <1>5
  <2>3. Scanned(d, last) = ToSet(d.files)
    BY <1>4, <2>1 DEF Scanned
  <2> QED BY <1>4, <2>1, <2>2, <2>3
<1>6. CASE I # {}
  <2>1. Stop(d, last) \in I
    <3> HIDE DEF I
    <3> QED BY <1>2, <1>3, <1>6, Minimum
  <2>2. /\ Stop(d, last) \in 1..Len(d.files) /\ Stop(d, last) # 0
        /\ Newer(d.files[Stop(d, last)], last)
    BY <2>1
  <2>3. \A i \in 1..Stop(d, last) : i \in 1..Len(d.files)
    BY <1>1, <2>2
  <2>4. Scanned(d, last) \subseteq ToSet(d.files)
    BY <1>4, <2>2, <2>3 DEF Scanned
  <2> QED BY <1>4, <2>2, <2>4
<1> QED BY <1>5, <1>6

(* A source file is among the files its object is made from.               *)
LEMMA UnitFilesFacts ==
    ASSUME NEW u \in Units
    PROVE  UnitFiles(u) \in Seq(Sources) /\ u \in ToSet(UnitFiles(u))
<1> DEFINE s == <<u>>
<1>1. s \in Seq(Sources) /\ Includes[u] \in Seq(Sources)
  BY ProjectAssumption DEF Sources
<1>2. ToSet(s) = {u}
  BY DEF ToSet
<1>3. UnitFiles(u) = s \o Includes[u]
  BY DEF UnitFiles
<1> HIDE DEF s
<1> QED BY <1>1, <1>2, <1>3, ToSetConcat

(* The files a target is linked from are the objects and the libraries.    *)
LEMMA LinkFilesFacts ==
    ASSUME Shape, NEW t \in Targets
    PROVE  /\ LinkUnits(t) \subseteq Units /\ LinkUnits(t) = project.units[t] \cap live
           /\ project.units[t] \subseteq Units
           /\ project.libs[t] \subseteq Members /\ Members \subseteq Targets
           /\ LinkFiles(t) \in Seq(Outputs) /\ LinkFiles(t) # NONE
           /\ ToSet(LinkFiles(t)) = {O(u) : u \in LinkUnits(t)} \cup {B(l) : l \in project.libs[t]}
<1> DEFINE objs == {O(u) : u \in LinkUnits(t)}
           libs == {B(l) : l \in project.libs[t]}
<1>1. /\ project.units[t] \subseteq Units
      /\ project.libs[t] \subseteq Members /\ Members \subseteq Targets
  BY ProjectAssumption DEF Shape, ProjectOK, Members
<1>2. LinkUnits(t) \subseteq Units /\ LinkUnits(t) = project.units[t] \cap live
  BY <1>1 DEF LinkUnits
<1>3. IsFiniteSet(LinkUnits(t)) /\ IsFiniteSet(project.libs[t])
  BY <1>1, <1>2, BoundAssumption, FS_Subset
<1>4. IsFiniteSet(objs) /\ IsFiniteSet(libs)
  <2>1. [u \in LinkUnits(t) |-> O(u)] \in Surjection(LinkUnits(t), objs)
    BY DEF Surjection
  <2>2. [l \in project.libs[t] |-> B(l)] \in Surjection(project.libs[t], libs)
    BY DEF Surjection
  <2> HIDE DEF objs, libs
  <2> QED BY <1>3, <2>1, <2>2, FS_Surjection
<1>5. objs \subseteq Outputs /\ libs \subseteq Outputs
  BY <1>1, <1>2, Names
<1> HIDE DEF objs, libs
<1>6. /\ SetToSeq(objs) \in Seq(objs) /\ ToSet(SetToSeq(objs)) = objs
      /\ SetToSeq(libs) \in Seq(libs) /\ ToSet(SetToSeq(libs)) = libs
  BY <1>4, SetToSeqProperties
<1>7. SetToSeq(objs) \in Seq(Outputs) /\ SetToSeq(libs) \in Seq(Outputs)
  BY <1>5, <1>6
<1>8. LinkFiles(t) = SetToSeq(objs) \o SetToSeq(libs)
  BY DEF LinkFiles, objs, libs
<1>9. LinkFiles(t) \in Seq(Outputs) /\ ToSet(LinkFiles(t)) = objs \cup libs
  BY <1>6, <1>7, <1>8, ToSetConcat
<1>10. LinkFiles(t) # NONE
  BY <1>9, NameAssumption
<1> QED BY <1>1, <1>2, <1>9, <1>10 DEF objs, libs

(* Equal flags are found equal, and with NoListExtended only these.        *)
LEMMA PrefixFacts ==
    /\ \A l \in FlagLists : IsPrefix(l, l)
    /\ NoListExtended => \A a, b \in FlagLists : IsPrefix(a, b) <=> a = b
<1>1. ASSUME NEW l \in FlagLists PROVE IsPrefix(l, l)
  <2>1. l \in Seq(STRING) /\ Len(l) \in Nat
    BY BoundAssumption, LenProperties
  <2> QED BY <2>1 DEF IsPrefix
<1> QED BY <1>1 DEF NoListExtended

(* A source file that object.lua does not compile again is known, and has  *)
(* been compiled with these flags.                                         *)
LEMMA UnitUnchanged ==
    ASSUME Shape, Control, NoListExtended, NEW u \in Units, UnitOK(u), ~UnitChanged(u)
    PROVE  Known(u) /\ dep[u].values = flags /\ ~rebuilt
<1> DEFINE d == dep[u]
           last == LastMtime(u)
<1>1. /\ ~rebuilt /\ d.values # NONE /\ d.values \in FlagLists /\ flags \in FlagLists
      /\ Stop(d, last) = 0 /\ IsPrefix(d.values, flags)
  BY DEF UnitChanged, IsChanged, Loaded, ValuesDiffer, Shape
<1>2. d.values = flags
  BY <1>1, PrefixFacts
<1>3. d.files = UnitFiles(u) /\ d.files \in Seq(Sources) /\ u \in ToSet(d.files)
  BY <1>1, UnitFilesFacts DEF UnitOK
<1>4. \A f \in ToSet(d.files) : ~Newer(f, last)
  BY <1>1, <1>3, StopProperties
<1>5. ASSUME NEW f \in ToSet(d.files) PROVE src[f] <= last /\ src[f] \in Nat \ {0} /\ f \in Sources
  <2>1. f \in Sources
    BY <1>3, LenProperties DEF ToSet
  <2>2. CachedMtime(f) = src[f] /\ src[f] \in Nat \ {0}
    BY <2>1, Cached, Mtimes, BoundAssumption DEF Shape
  <2>3. ~Newer(f, last)
    BY <1>4
  <2>4. last \in Nat
    BY DEF LastMtime, Shape
  <2> QED BY <2>1, <2>2, <2>3, <2>4 DEF Newer
<1>6. obj[u].mtime # 0 /\ last = d.mtime
  BY <1>3, <1>5 DEF LastMtime
<1> QED BY <1>1, <1>2, <1>3, <1>5, <1>6 DEF Known

(* When a build can be killed, a source file is compiled again only for a  *)
(* reason that the next build will find as well.                           *)
LEMMA UnitChangedStale ==
    ASSUME Shape, Control, NEW u \in Units, UnitOK(u), UnitChanged(u),
           "kill" \in project.may, Recoverable(project)
    PROVE  Stale(u)
<1> DEFINE d == dep[u]
           last == LastMtime(u)
<1> SUFFICES ASSUME d.values # NONE, obj[u].mtime # 0 PROVE Stale(u)
  BY DEF Stale, UnitOK
<1>1. d.values = flags /\ flags \in FlagLists /\ last = d.mtime /\ ~rebuilt
  BY DEF UnitOK, Recoverable, Control, LastMtime, Shape
<1>2. Stop(d, last) # 0
  BY <1>1, PrefixFacts DEF UnitChanged, IsChanged, Loaded, ValuesDiffer
<1>3. d.files = UnitFiles(u) /\ d.files \in Seq(Sources)
  BY <1>1, UnitFilesFacts DEF UnitOK
<1>4. PICK f \in ToSet(d.files) : Newer(f, last)
  BY <1>2, <1>3, StopProperties
<1>5. f \in Sources
  BY <1>3, LenProperties DEF ToSet
<1>6. CachedMtime(f) = src[f] /\ src[f] \in Nat \ {0}
  BY <1>5, Cached, Mtimes, BoundAssumption DEF Shape
<1> QED BY <1>1, <1>3, <1>4, <1>6 DEF Stale, Newer

(* A current object is not compiled again.                                 *)
LEMMA CurrentUnchanged ==
    ASSUME Shape, Control, ~rebuilt, NEW u \in Units, UnitOK(u), UnitCurrent(u)
    PROVE  ~UnitChanged(u)
<1> DEFINE d == dep[u]
           last == LastMtime(u)
<1>1. d.values = flags /\ flags \in FlagLists /\ d.values # NONE /\ last = d.mtime
  BY DEF UnitCurrent, Known, LastMtime, Shape
<1>2. d.files = UnitFiles(u) /\ d.files \in Seq(Sources)
  BY <1>1, UnitFilesFacts DEF UnitOK
<1>3. ASSUME NEW f \in ToSet(d.files) PROVE ~Newer(f, last)
  <2>1. f \in Sources
    BY <1>2, LenProperties DEF ToSet
  <2>2. CachedMtime(f) = src[f] /\ src[f] \in Nat \ {0} /\ src[f] <= last
    BY <1>1, <1>2, <2>1, Cached, Mtimes, BoundAssumption DEF Shape, UnitCurrent, Known
  <2>3. last \in Nat
    BY <1>1 DEF Shape
  <2> QED BY <2>2, <2>3 DEF Newer
<1>4. Stop(d, last) = 0
  BY <1>2, <1>3, StopProperties
<1> QED BY <1>1, <1>4, PrefixFacts DEF UnitChanged, IsChanged, Loaded, ValuesDiffer

(* A target that is not linked again has no input that is newer, and has   *)
(* been linked from these files with these flags.                          *)
LEMMA TargetUnchanged ==
    ASSUME Shape, Control, NoListExtended, NEW t \in Members, ~TargetChanged(t)
    PROVE  /\ ~rebuilt /\ NoNewer(t)
           /\ bdep[t].values = flags /\ bdep[t].files = LinkFiles(t) /\ bdep[t].values # NONE
<1> DEFINE d == bdep[t]
           last == bin[t].mtime
<1>1. t \in Targets
  BY DEF Members
<1>2. /\ LinkFiles(t) \in Seq(Outputs) /\ LinkFiles(t) # NONE
      /\ ToSet(LinkFiles(t)) = {O(u) : u \in LinkUnits(t)} \cup {B(l) : l \in project.libs[t]}
      /\ LinkUnits(t) \subseteq Units /\ project.libs[t] \subseteq Targets
  BY <1>1, LinkFilesFacts
<1>3. /\ ~rebuilt /\ d.values # NONE /\ d.values \in FlagLists /\ flags \in FlagLists
      /\ Stop(d, last) = 0 /\ IsPrefix(d.values, flags) /\ d.files = LinkFiles(t)
  BY <1>1, <1>2 DEF TargetChanged, IsChanged, Loaded, ValuesDiffer, Shape
<1>4. d.values = flags
  BY <1>3, PrefixFacts
<1>5. \A f \in ToSet(d.files) : ~Newer(f, last)
  BY <1>2, <1>3, StopProperties
<1>6. last \in Nat
  BY <1>1 DEF Shape
<1>7. ASSUME NEW u \in LinkUnits(t) PROVE obj[u].mtime \in 1..last
  <2>1. CachedMtime(O(u)) = obj[u].mtime /\ obj[u].mtime \in Nat
    BY <1>2, Cached, Mtimes, Names DEF Shape
  <2>2. ~Newer(O(u), last)
    BY <1>2, <1>3, <1>5
  <2> QED BY <1>6, <2>1, <2>2 DEF Newer
<1>8. ASSUME NEW l \in project.libs[t] PROVE bin[l].mtime \in 1..last
  <2>1. CachedMtime(B(l)) = bin[l].mtime /\ bin[l].mtime \in Nat
    BY <1>2, Cached, Mtimes, Names DEF Shape
  <2>2. ~Newer(B(l), last)
    BY <1>2, <1>3, <1>5
  <2> QED BY <1>6, <2>1, <2>2 DEF Newer
<1>9. LinkUnits(t) # {}
  BY DEF Control, LinkUnits
<1>10. last # 0
  BY <1>6, <1>7, <1>9
<1> QED BY <1>3, <1>4, <1>7, <1>8, <1>10 DEF NoNewer

(* A current target is not linked again.                                   *)
LEMMA CurrentNotLinked ==
    ASSUME Shape, Control, ~rebuilt, NEW t \in Targets, NoNewer(t),
           bdep[t].values = flags, bdep[t].files = LinkFiles(t)
    PROVE  ~TargetChanged(t)
<1> DEFINE d == bdep[t]
           last == bin[t].mtime
<1>1. /\ LinkFiles(t) \in Seq(Outputs)
      /\ ToSet(LinkFiles(t)) = {O(u) : u \in LinkUnits(t)} \cup {B(l) : l \in project.libs[t]}
      /\ LinkUnits(t) \subseteq Units /\ project.libs[t] \subseteq Targets
  BY LinkFilesFacts
<1>2. flags \in FlagLists /\ d.values # NONE
  BY NameAssumption DEF Shape
<1>3. ASSUME NEW u \in LinkUnits(t) PROVE ~Newer(O(u), last)
  <2>1. CachedMtime(O(u)) = obj[u].mtime /\ obj[u].mtime \in 1..last /\ last \in Nat
    BY <1>1, Cached, Mtimes, Names DEF Shape, NoNewer
  <2> QED BY <2>1 DEF Newer
<1>4. ASSUME NEW l \in project.libs[t] PROVE ~Newer(B(l), last)
  <2>1. CachedMtime(B(l)) = bin[l].mtime /\ bin[l].mtime \in 1..last /\ last \in Nat
    BY <1>1, Cached, Mtimes, Names DEF Shape, NoNewer
  <2> QED BY <2>1 DEF Newer
<1>5. \A f \in ToSet(d.files) : ~Newer(f, last)
  BY <1>1, <1>3, <1>4
<1>6. Stop(d, last) = 0
  BY <1>1, <1>5, StopProperties
<1> QED BY <1>2, <1>6, PrefixFacts DEF TargetChanged, IsChanged, Loaded, ValuesDiffer

-----------------------------------------------------------------------------
(* Where a job can be.                                                     *)
Places == {NONE, "before", "wait", "tool", "save", "saving", "done"}

(* The inductive invariant.                                                *)
Inv ==
    /\ Shape
    /\ Control
    /\ \A u \in Units : UnitOK(u)
    /\ LinkInv

(* NONE is no place of a job in a build, and a job that waits or is done   *)
(* does not work.                                                          *)
LEMMA PlaceFacts ==
    /\ Working \subseteq Places /\ NONE \notin Working /\ "done" \notin Working
    /\ "wait" \notin Working /\ "before" \notin Working
    /\ NONE \notin {"before", "wait", "tool", "save", "saving", "done"}
BY NameAssumption DEF Working, Places

(* A step of the job of one source file: its object becomes o, its depend  *)
(* file d, its place j and what its compiler has read r.  An object is     *)
(* new, torn, gone, or made in this second from the sources as they are.   *)
UnitMoves(u, o, d, j, r) ==
    /\ UNCHANGED <<project, now, src, live, flags, bin, bdep, rebuilt, settled>>
    /\ o \in [mtime : Nat, made : Mades \cup {NONE}] /\ o.mtime <= now
    /\ d \in [mtime : Nat, files : Seq(Sources), values : FlagLists \cup {NONE}]
    /\ d.mtime <= now
    /\ obj' = [obj EXCEPT ![u] = o]
    /\ dep' = [dep EXCEPT ![u] = d]
    /\ j \in Places \ {NONE, "before"}
    /\ job' = [job EXCEPT ![u] = j]
    /\ DOMAIN reads' = Units \cup Targets /\ reads'[u] = r
    /\ \A x \in Units \cup Targets : x # u => reads'[x] = reads[x]
    /\ j \notin Working => r = NONE
    /\ failed' \in BOOLEAN /\ (failed => failed')
    /\ cache' \in [Sources \cup Outputs -> Nat \cup {NONE}]
    /\ \A f \in Sources \cup Outputs :
          cache'[f] = cache[f] \/ (f \in Sources /\ cache'[f] = Mtime(f))
    /\ settled => o = obj[u] /\ d = dep[u] /\ j \notin Working /\ ~failed'
    /\ \/ o = obj[u] \/ o.mtime = 0 \/ o.made = NONE
       \/ o.mtime = now /\ o.made = Inputs(u)

(* Such a step keeps the shape of the state.                               *)
LEMMA UnitStepShape ==
    ASSUME Shape, NEW u \in Units, NEW o, NEW d, NEW j, NEW r, UnitMoves(u, o, d, j, r)
    PROVE  Shape'
<1>1. /\ obj' \in [Units -> [mtime : Nat, made : Mades \cup {NONE}]]
      /\ dep' \in [Units -> [mtime : Nat, files : Seq(Sources), values : FlagLists \cup {NONE}]]
  BY DEF UnitMoves, Shape
<1>2. \A v \in Units : obj'[v].mtime <= now /\ dep'[v].mtime <= now
  BY DEF UnitMoves, Shape
<1>3. /\ job' \in [Units \cup Targets -> Places]
      /\ DOMAIN reads' = Units \cup Targets
      /\ \A x \in Units \cup Targets : job'[x] \notin Working => reads'[x] = NONE
  BY DEF UnitMoves, Shape, Places
<1> QED BY <1>1, <1>2, <1>3 DEF UnitMoves, Shape, Places

(* Such a step keeps the control: it changes no output that files_mtime    *)
(* holds.                                                                  *)
LEMMA UnitStepControl ==
    ASSUME Shape, Control, NEW u \in Units, NEW o, NEW d, NEW j, NEW r,
           UnitMoves(u, o, d, j, r), job[u] \notin {NONE, "done"}
    PROVE  Control'
<1>1. /\ \A x \in Units \cup Targets : x # u => job'[x] = job[x]
      /\ job'[u] = j /\ j # NONE /\ j # "before" /\ j \in Places
      /\ u \notin Targets
  BY NameAssumption DEF UnitMoves, Shape
<1>2. Building /\ Building'
  BY <1>1 DEF Building
<1>3. /\ \A x \in Units \cup Targets : job'[x] # NONE
      /\ \A v \in Units \ live : job'[v] = "done"
      /\ \A t \in Targets \ Members : job'[t] = "done"
      /\ \A v \in Units : job'[v] # "before"
      /\ u \in live
  BY <1>1, <1>2 DEF Control, Members
<1>4. settled => ~rebuilt /\ ~failed' /\ \A x \in Units \cup Targets : job'[x] \notin Working
  BY <1>1 DEF Control, UnitMoves
<1>5. ASSUME NEW t \in Members, job[t] \in Working \cup {"done"}
      PROVE  /\ \A v \in LinkUnits(t) : job'[v] = "done"
             /\ \A l \in project.libs[t] : job'[l] = "done"
  <2>1. /\ \A v \in LinkUnits(t) : job[v] = "done"
        /\ \A l \in project.libs[t] : job[l] = "done"
    BY <1>5 DEF Control
  <2>2. LinkUnits(t) \subseteq Units /\ project.libs[t] \subseteq Targets
    BY LinkFilesFacts DEF Members
  <2> QED BY <1>1, <2>1, <2>2
<1>6. \A f \in Sources \cup Outputs : f # O(u) => Mtime(f)' = Mtime(f)
  <2>1. \A f \in Sources : Mtime(f)' = Mtime(f)
    BY DEF Mtime, UnitMoves
  <2>2. \A v \in Units : v # u => Mtime(O(v))' = Mtime(O(v))
    BY Names DEF Mtime, UnitMoves, Shape
  <2>3. \A t \in Targets : Mtime(B(t))' = Mtime(B(t))
    BY Names DEF Mtime, UnitMoves
  <2> QED BY <2>1, <2>2, <2>3, Names
<1>7. ASSUME NEW f \in Sources \cup Outputs, cache'[f] # NONE
      PROVE  cache'[f] = Mtime(f)' /\ (f \in Outputs => job'[f[1]] = "done")
  <2>1. CASE cache'[f] = cache[f]
    <3>1. cache[f] = Mtime(f) /\ (f \in Outputs => job[f[1]] = "done")
      BY <1>7, <2>1 DEF Control
    <3>2. f # O(u)
      BY <3>1, Names
    <3>3. f \in Outputs => f[1] \in Units \cup Targets /\ f[1] # u
      BY <3>1, Names
    <3> QED BY <1>1, <1>6, <2>1, <3>1, <3>2, <3>3
  <2>2. CASE f \in Sources /\ cache'[f] = Mtime(f)
    <3>1. f \notin Outputs /\ f # O(u)
      BY <2>2, NameAssumption, Names
    <3> QED BY <1>6, <2>2, <3>1
  <2> QED BY <2>1, <2>2 DEF UnitMoves
<1>8. /\ project' = project /\ live' = live /\ bdep' = bdep /\ rebuilt' = rebuilt
      /\ settled' = settled /\ Members' = Members
      /\ \A t \in Targets : /\ LinkUnits(t)' = LinkUnits(t)
                            /\ Linkable(t)' = Linkable(t)
  BY DEF UnitMoves, Members, LinkUnits, Linkable
<1>9. \A t \in Members : job'[t] = job[t]
  BY <1>1 DEF Members
<1>10. ASSUME NEW t \in Members, job'[t] \in Working \cup {"done"}
       PROVE  /\ \A v \in LinkUnits(t)' : job'[v] = "done"
              /\ \A l \in project'.libs[t] : job'[l] = "done"
  BY <1>5, <1>8, <1>9, <1>10 DEF Members
<1>11. /\ \A t \in Members' : project'.units[t] \cap live' # {}
       /\ \A t \in Targets : ToSet(bdep'[t].files) \subseteq Linkable(t)'
       /\ rebuilt' => "rebuild" \in project'.may
  BY <1>8 DEF Control
<1>12. /\ \A v \in Units \ live' : job'[v] = "done"
       /\ \A t \in Targets \ Members' : job'[t] = "done"
       /\ \A t \in Members' : job'[t] \in Working \cup {"done"} =>
             /\ \A v \in LinkUnits(t)' : job'[v] = "done"
             /\ \A l \in project'.libs[t] : job'[l] = "done"
       /\ settled' => ~rebuilt' /\ ~failed' /\ \A x \in Units \cup Targets : job'[x] \notin Working
  BY <1>3, <1>4, <1>8, <1>10
<1> HIDE DEF UnitMoves
<1> QED BY <1>2, <1>3, <1>7, <1>11, <1>12 DEF Control

(* The other source files are as they were.                                *)
LEMMA UnitFrame ==
    ASSUME Shape, NEW v \in Units, UnitOK(v),
           project' = project, src' = src, flags' = flags, live' = live,
           obj'[v] = obj[v], dep'[v] = dep[v], job'[v] = job[v], reads'[v] = reads[v],
           failed => failed', settled' => settled
    PROVE  UnitOK(v)'
<1>1. Inputs(v)' = Inputs(v) /\ (Known(v)' <=> Known(v)) /\ (Stale(v)' <=> Stale(v))
  BY DEF Inputs, Known, Stale, UnitFiles
<1>2. UnitFiles(v)' = UnitFiles(v) /\ (UnitCurrent(v)' <=> UnitCurrent(v))
  BY <1>1 DEF UnitCurrent, UnitFiles
<1>3. failed' \/ ~failed
  OBVIOUS
<1> HIDE DEF Known, Stale, UnitCurrent, Inputs, UnitFiles
<1> QED BY <1>1, <1>2 DEF UnitOK

(* So are the targets.  An object that is compiled now has the contents    *)
(* that each target that was linked now has been made from.                *)
LEMMA UnitStepTarget ==
    ASSUME Shape, Control, NEW u \in Units, NEW o, NEW d, NEW j, NEW r,
           UnitMoves(u, o, d, j, r), job[u] \notin {NONE, "done"},
           NEW D, NEW K, Coherent(D, K), NEW t \in Targets, TargetOK(D, K, t)
    PROVE  TargetOK(D, K, t)'
<1>1. /\ \A x \in Units \cup Targets : x # u => job'[x] = job[x] /\ reads'[x] = reads[x]
      /\ \A v \in Units : v # u => obj'[v] = obj[v] /\ dep'[v] = dep[v]
      /\ obj'[u] = o /\ u \notin Targets
      /\ \A s \in Targets : job'[s] = job[s] /\ reads'[s] = reads[s]
  BY NameAssumption DEF UnitMoves, Shape
<1>2. /\ LinkUnits(t) \subseteq Units /\ project.libs[t] \subseteq Targets
      /\ LinkUnits(t)' = LinkUnits(t) /\ LinkFiles(t)' = LinkFiles(t)
      /\ Members' = Members
      /\ \A v \in Units : Inputs(v)' = Inputs(v)
  BY LinkFilesFacts DEF Members, UnitMoves, LinkUnits, LinkFiles, Inputs
<1>3. /\ project' = project /\ now' = now /\ src' = src /\ flags' = flags /\ live' = live
      /\ bin' = bin /\ bdep' = bdep /\ settled' = settled /\ (failed => failed')
      /\ settled => o = obj[u] /\ d = dep[u]
  BY DEF UnitMoves
<1>4. ASSUME t \in Members, job[t] \in Working \cup {"done"}
      PROVE  u \notin LinkUnits(t)
  BY <1>4 DEF Control
<1>5. ASSUME NEW v \in Units, v # u, UnitCurrent(v)
      PROVE  UnitCurrent(v)'
  BY <1>1, <1>3, <1>5 DEF UnitCurrent, Known, Inputs, UnitFiles
<1>6. ASSUME job[t] \in Working
      PROVE  Ready(D, K, t)'
  <2>1. Ready(D, K, t) /\ u \notin LinkUnits(t)
    <3>1. t \in Members
      BY <1>6, PlaceFacts DEF Control, Building
    <3> QED BY <1>4, <1>6, <3>1 DEF TargetOK
  <2> QED BY <1>1, <1>2, <1>3, <1>5, <2>1 DEF Ready
<1>7. ASSUME NoNewer(t), u \notin LinkUnits(t) \/ settled
      PROVE  NoNewer(t)'
  <2>1. \A v \in LinkUnits(t) : obj'[v] = obj[v]
    BY <1>1, <1>2, <1>3, <1>7
  <2> QED BY <1>2, <1>3, <1>7, <2>1 DEF NoNewer
<1>8. ASSUME job[t] # "tool", bin[t].mtime # 0
      PROVE  OnDisk(D, K, t)'
  <2> DEFINE m == bin[t].made
  <2>1. OnDisk(D, K, t)
    BY <1>8 DEF TargetOK
  <2>2. IsMade(t, m)'
    BY <1>3, <2>1 DEF OnDisk, IsMade
  <2>3. ASSUME NEW v \in DOMAIN m.objs, obj'[v].mtime \in 1..bin[t].mtime, obj'[v].made # NONE
        PROVE  m.objs[v] = obj'[v].made
    <3>1. v \in Units
      BY <2>1, LinkFilesFacts DEF OnDisk, IsMade
    <3>2. CASE obj'[v] = obj[v]
      BY <2>1, <2>3, <3>2 DEF OnDisk
    <3>3. CASE obj'[v] # obj[v]
      <4>1. v = u /\ o.mtime = now /\ o.made = Inputs(u)
        BY <1>1, <2>3, <3>1, <3>3 DEF UnitMoves
      <4>2. bin[t].mtime = now
        BY <1>1, <2>3, <4>1 DEF Shape
      <4>3. m = K[t] /\ K[t] = Content(t, K)
        BY <2>1, <4>2 DEF OnDisk, Coherent
      <4>4. m.objs = [w \in LinkUnits(t) |-> Inputs(w)]
        BY <4>3 DEF Content
      <4> QED BY <1>1, <2>3, <4>1, <4>4
    <3> QED BY <3>2, <3>3
  <2>4. \A l \in project.libs[t] :
           job'[l] # "tool" /\ bin[l].mtime \in 1..bin[t].mtime => m.libs[l] = bin[l].made
    BY <1>1, <1>2, <2>1 DEF OnDisk
  <2>5. bin[t].mtime = now => t \in D /\ m = K[t]
    BY <2>1 DEF OnDisk
  <2>6. job'[t] \notin Working /\ bdep[t].values # NONE =>
          /\ m.flags = bdep[t].values
          /\ ToSet(bdep[t].files) = {O(v) : v \in DOMAIN m.objs} \cup {B(l) : l \in project.libs[t]}
    BY <1>1, <2>1 DEF OnDisk
  <2> QED BY <1>3, <2>2, <2>3, <2>4, <2>5, <2>6 DEF OnDisk
<1>9. job'[t] # "tool" /\ bin'[t].mtime # 0 => OnDisk(D, K, t)'
  BY <1>1, <1>3, <1>8
<1>10. job'[t] \in Working => Ready(D, K, t)'
  BY <1>1, <1>6
<1>11. ASSUME job'[t] \in {"save", "saving"}
       PROVE  bin'[t].made = K[t] /\ NoNewer(t)'
  <2>1. t \in Members /\ job[t] \in Working
    BY <1>1, <1>11, PlaceFacts DEF Control, Building, Working
  <2> QED BY <1>1, <1>3, <1>4, <1>7, <1>11, <2>1 DEF TargetOK
<1>12. /\ job'[t] = "saving" => bdep'[t].values = NONE
       /\ "kill" \in project'.may =>
             bdep'[t].values = NONE \/ (bdep'[t].values = flags' /\ bdep'[t].files = LinkFiles(t)')
  BY <1>1, <1>2, <1>3 DEF TargetOK
<1>13. ASSUME t \in Members', settled' \/ (job'[t] = "done" /\ ~failed')
       PROVE  TargetCurrent(D, K, t)'
  <2>1. TargetCurrent(D, K, t) /\ (u \notin LinkUnits(t) \/ settled)
    BY <1>1, <1>2, <1>3, <1>4, <1>13 DEF TargetOK
  <2> QED BY <1>2, <1>3, <1>7, <2>1 DEF TargetCurrent
<1> HIDE DEF UnitMoves
<1> QED BY <1>9, <1>10, <1>11, <1>12, <1>13 DEF TargetOK

(* Such a step keeps the invariant if it does for its own source file.     *)
LEMMA UnitStep ==
    ASSUME Inv, NEW u \in Units, NEW o, NEW d, NEW j, NEW r,
           UnitMoves(u, o, d, j, r), job[u] \notin {NONE, "done"}, UnitOK(u)'
    PROVE  Inv'
<1>1. Shape' /\ Control'
  BY UnitStepShape, UnitStepControl DEF Inv
<1>2. ASSUME NEW v \in Units PROVE UnitOK(v)'
  <2>1. CASE v = u
    BY <2>1
  <2>2. CASE v # u
    <3>1. /\ project' = project /\ src' = src /\ flags' = flags /\ live' = live
          /\ obj'[v] = obj[v] /\ dep'[v] = dep[v] /\ job'[v] = job[v] /\ reads'[v] = reads[v]
          /\ (failed => failed') /\ settled' = settled
      BY <2>2 DEF UnitMoves, Inv, Shape
    <3> QED BY <3>1, UnitFrame DEF Inv
  <2> QED BY <2>1, <2>2
<1>3. LinkInv'
  <2>1. PICK D \in SUBSET Targets : \E K : Coherent(D, K) /\ \A t \in Targets : TargetOK(D, K, t)
    BY DEF Inv, LinkInv
  <2>2. PICK K : Coherent(D, K) /\ \A t \in Targets : TargetOK(D, K, t)
    BY <2>1
  <2>3. \A t \in Targets : TargetOK(D, K, t)'
    BY <2>2, UnitStepTarget DEF Inv
  <2>4. Coherent(D, K)'
    <3>1. \A t \in Targets : Content(t, K)' = Content(t, K)
      BY DEF UnitMoves, Content, LinkUnits, Inputs
    <3>2. project' = project
      BY DEF UnitMoves
    <3> HIDE DEF Content, UnitMoves
    <3> QED BY <2>2, <3>1, <3>2 DEF Coherent
  <2> QED BY <2>3, <2>4 DEF LinkInv
<1> QED BY <1>1, <1>2, <1>3 DEF Inv

-----------------------------------------------------------------------------
(* A modify time is a number.                                              *)
LEMMA MtimeType ==
    ASSUME Shape, NEW f \in Sources \cup Outputs
    PROVE  Mtime(f) \in Nat
<1>1. \A g \in Sources : Mtime(g) \in Nat
  BY Mtimes DEF Shape
<1>2. \A u \in Units : Mtime(O(u)) \in Nat
  BY Mtimes DEF Shape
<1>3. \A t \in Targets : Mtime(B(t)) \in Nat
  BY Mtimes DEF Shape
<1> QED BY <1>1, <1>2, <1>3, Names

(* What is_changed leaves in files_mtime is true.                          *)
LEMMA Remembered ==
    ASSUME Shape, Control, NEW S \in SUBSET (Sources \cup Outputs), NEW d, NEW last,
           d.files \in Seq(S), Remember(d, last)
    PROVE  /\ cache' \in [Sources \cup Outputs -> Nat \cup {NONE}]
           /\ \A f \in Sources \cup Outputs :
                 cache'[f] = cache[f] \/ (f \in ToSet(d.files) /\ cache'[f] = Mtime(f))
<1>1. DOMAIN cache = Sources \cup Outputs
  BY DEF Shape
<1>2. \A f \in Sources \cup Outputs : CachedMtime(f) = Mtime(f) /\ Mtime(f) \in Nat
  BY Cached, MtimeType
<1>3. Scanned(d, last) \subseteq ToSet(d.files)
  BY StopProperties
<1>4. \A f \in Sources \cup Outputs :
         \/ cache'[f] = cache[f]
         \/ f \in ToSet(d.files) /\ cache'[f] = Mtime(f)
  BY <1>1, <1>2, <1>3 DEF Remember
<1>5. cache' \in [Sources \cup Outputs -> Nat \cup {NONE}]
  BY <1>1, <1>2 DEF Remember, Shape
<1> QED BY <1>4, <1>5

(* The check of a source file only remembers sources and headers.          *)
LEMMA SourcesRemembered ==
    ASSUME Shape, Control, NEW u \in Units, Remember(dep[u], LastMtime(u))
    PROVE  /\ cache' \in [Sources \cup Outputs -> Nat \cup {NONE}]
           /\ \A f \in Sources \cup Outputs :
                 cache'[f] = cache[f] \/ (f \in Sources /\ cache'[f] = Mtime(f))
<1>1. dep[u].files \in Seq(Sources) /\ Sources \in SUBSET (Sources \cup Outputs)
  BY DEF Shape
<1>2. ToSet(dep[u].files) \subseteq Sources
  BY <1>1, LenProperties DEF ToSet
<1> QED BY <1>1, <1>2, Remembered

(* object.lua returns early: the object is current.                        *)
LEMMA UpToDateStep ==
    ASSUME Inv, NoListExtended, NEW u \in Units, UpToDate(u)
    PROVE  Inv'
<1>1. /\ Shape /\ Control /\ UnitOK(u) /\ job[u] = "wait" /\ ~failed
      /\ ~UnitChanged(u) /\ Remember(dep[u], LastMtime(u))
      /\ job' = [job EXCEPT ![u] = "done"]
      /\ UNCHANGED <<project, now, disk, reads, rebuilt, failed, settled>>
  BY DEF Inv, UpToDate, MayCompile
<1>2. Known(u) /\ dep[u].values = flags
  BY <1>1, UnitUnchanged
<1>3. obj[u].made = Inputs(u)
  BY <1>1, <1>2, PlaceFacts DEF UnitOK, Inputs
<1>4. UnitMoves(u, obj[u], dep[u], "done", NONE)
  <2>1. /\ obj' = [obj EXCEPT ![u] = obj[u]] /\ dep' = [dep EXCEPT ![u] = dep[u]]
        /\ obj[u] \in [mtime : Nat, made : Mades \cup {NONE}] /\ obj[u].mtime <= now
        /\ dep[u] \in [mtime : Nat, files : Seq(Sources), values : FlagLists \cup {NONE}]
        /\ dep[u].mtime <= now
    BY <1>1 DEF disk, Shape
  <2>2. /\ DOMAIN reads' = Units \cup Targets /\ reads'[u] = NONE
        /\ \A x \in Units \cup Targets : x # u => reads'[x] = reads[x]
    BY <1>1, PlaceFacts DEF Shape
  <2>3. "done" \in Places \ {NONE, "before"} /\ "done" \notin Working
    BY PlaceFacts DEF Places
  <2>4. failed' \in BOOLEAN /\ failed' = failed
    BY <1>1 DEF Shape
  <2>5. /\ cache' \in [Sources \cup Outputs -> Nat \cup {NONE}]
        /\ \A f \in Sources \cup Outputs :
              cache'[f] = cache[f] \/ (f \in Sources /\ cache'[f] = Mtime(f))
    BY <1>1, SourcesRemembered
  <2>6. /\ UNCHANGED <<project, now, src, live, flags, bin, bdep, rebuilt, settled>>
        /\ ~failed' /\ ~failed /\ job' = [job EXCEPT ![u] = "done"]
    BY <1>1 DEF disk
  <2> HIDE DEF Places
  <2> QED BY <2>1, <2>2, <2>3, <2>4, <2>5, <2>6 DEF UnitMoves
<1>5. UnitOK(u)'
  <2>1. job'[u] = "done" /\ project' = project /\ dep' = dep /\ obj' = obj /\ flags' = flags
    BY <1>1 DEF Shape, disk
  <2>2. UnitFiles(u)' = UnitFiles(u) /\ Inputs(u)' = Inputs(u)
    BY <1>1 DEF UnitFiles, Inputs, disk
  <2>7. Known(u)' /\ (Stale(u)' <=> Stale(u))
    BY <1>1, <1>2, <2>1, <2>2 DEF Known, Stale, disk
  <2>8. [Inputs(u) EXCEPT !.flags = flags] = Inputs(u)
    BY DEF Inputs
  <2>3. UnitCurrent(u)'
    BY <1>2, <1>3, <2>1, <2>2, <2>7 DEF UnitCurrent
  <2> HIDE DEF Known, Stale, UnitCurrent
  <2>4. dep[u].values # NONE => dep[u].files = UnitFiles(u)
    BY <1>1 DEF UnitOK
  <2>5. obj'[u].made = [Inputs(u)' EXCEPT !.flags = dep'[u].values]
    BY <1>2, <1>3, <2>1, <2>2, <2>8
  <2>6. "kill" \in project.may /\ obj[u].mtime = 0 => Stale(u)
    BY <1>1 DEF UnitOK
  <2> QED BY <1>2, <2>1, <2>2, <2>3, <2>4, <2>5, <2>6, <2>7, PlaceFacts DEF UnitOK, Working
<1> QED BY <1>1, <1>4, <1>5, PlaceFacts, UnitStep

(* The compiler starts.  If it may be killed the depend file already shows *)
(* that the source file is to be compiled again.                           *)
LEMMA CompileBeginStep ==
    ASSUME Inv, Recoverable(project), NEW u \in Units, CompileBegin(u)
    PROVE  Inv'
<1>1. /\ Shape /\ Control /\ UnitOK(u) /\ job[u] = "wait" /\ ~failed
      /\ UnitChanged(u) /\ Remember(dep[u], LastMtime(u))
      /\ job' = [job EXCEPT ![u] = "tool"]
      /\ reads' = [reads EXCEPT ![u] = Inputs(u)]
      /\ obj' \in {obj, [obj EXCEPT ![u] = Torn]}
      /\ UNCHANGED <<project, now, src, live, flags, dep, bin, bdep, rebuilt, failed, settled>>
  BY DEF Inv, CompileBegin, MayCompile
<1>2. u \in live
  BY <1>1, PlaceFacts DEF Control, Building
<1>3. ~settled
  <2>1. ASSUME settled PROVE FALSE
    <3>1. UnitCurrent(u) /\ ~rebuilt
      BY <1>1, <1>2, <2>1 DEF UnitOK, Control
    <3> QED BY <1>1, <3>1, CurrentUnchanged
  <2> QED BY <2>1
<1>4. PICK o \in {obj[u], Torn} : obj' = [obj EXCEPT ![u] = o]
  BY <1>1 DEF Shape
<1>5. UnitMoves(u, o, dep[u], "tool", Inputs(u))
  <2>1. /\ dep' = [dep EXCEPT ![u] = dep[u]]
        /\ o \in [mtime : Nat, made : Mades \cup {NONE}] /\ o.mtime <= now
        /\ o = obj[u] \/ o.made = NONE
        /\ dep[u] \in [mtime : Nat, files : Seq(Sources), values : FlagLists \cup {NONE}]
        /\ dep[u].mtime <= now
    BY <1>1, <1>4 DEF Shape, Torn
  <2>2. "tool" \in Places \ {NONE, "before"} /\ "tool" \in Working
    BY PlaceFacts DEF Places, Working
  <2>3. failed' \in BOOLEAN /\ failed' = failed
    BY <1>1 DEF Shape
  <2>4. /\ DOMAIN reads' = Units \cup Targets /\ reads'[u] = Inputs(u)
        /\ \A x \in Units \cup Targets : x # u => reads'[x] = reads[x]
    BY <1>1 DEF Shape
  <2>5. /\ cache' \in [Sources \cup Outputs -> Nat \cup {NONE}]
        /\ \A f \in Sources \cup Outputs :
              cache'[f] = cache[f] \/ (f \in Sources /\ cache'[f] = Mtime(f))
    BY <1>1, SourcesRemembered
  <2> QED BY <1>1, <1>3, <1>4, <2>1, <2>2, <2>3, <2>4, <2>5 DEF UnitMoves
<1>6. UnitOK(u)'
  <2>1. /\ job'[u] = "tool" /\ reads'[u] = Inputs(u) /\ project' = project /\ dep' = dep
        /\ flags' = flags /\ settled' = settled
    BY <1>1 DEF Shape
  <2>2. Inputs(u)' = Inputs(u) /\ (Stale(u)' <=> Stale(u)) /\ UnitFiles(u)' = UnitFiles(u)
    BY <1>1 DEF Inputs, Stale, UnitFiles
  <2>3. "kill" \in project.may => Stale(u) /\ dep[u].values \in {NONE, flags}
    BY <1>1, UnitChangedStale DEF UnitOK
  <2>4. dep[u].values # NONE => dep[u].files = UnitFiles(u)
    BY <1>1 DEF UnitOK
  <2> HIDE DEF Stale, Inputs
  <2> QED BY <1>3, <2>1, <2>2, <2>3, <2>4 DEF UnitOK, Working
<1> QED BY <1>1, <1>5, <1>6, PlaceFacts, UnitStep

(* What an object is made from has its type.                               *)
LEMMA InputsType ==
    ASSUME Shape, NEW u \in Units
    PROVE  Inputs(u) \in Mades /\ Inputs(u) # NONE
<1> DEFINE files == ToSet(UnitFiles(u))
           times == [f \in files |-> src[f]]
<1>1. files \in SUBSET Sources
  BY UnitFilesFacts, LenProperties DEF ToSet
<1>2. times \in [files -> Nat]
  BY <1>1 DEF Shape
<1>3. Inputs(u) = [src |-> times, flags |-> flags]
  BY DEF Inputs
<1> HIDE DEF times, files
<1>4. times \in UNION {[fs -> Nat] : fs \in SUBSET Sources}
  BY <1>1, <1>2
<1>5. flags \in FlagLists
  BY DEF Shape
<1>6. Inputs(u) \in Mades
  BY <1>3, <1>4, <1>5 DEF Mades
<1> QED BY <1>6, NameAssumption

(* What all steps of a compiler that runs have in common.                  *)
LEMMA CompilerRuns ==
    ASSUME Shape, Control, NEW u \in Units, job[u] \in Working, UnitOK(u)
    PROVE  /\ ~settled /\ reads[u] = Inputs(u) /\ job[u] \notin {NONE, "done"}
           /\ obj[u] \in [mtime : Nat, made : Mades \cup {NONE}] /\ obj[u].mtime <= now
           /\ dep[u] \in [mtime : Nat, files : Seq(Sources), values : FlagLists \cup {NONE}]
           /\ dep[u].mtime <= now
           /\ obj = [obj EXCEPT ![u] = obj[u]] /\ dep = [dep EXCEPT ![u] = dep[u]]
           /\ dep[u].values # NONE => dep[u].files = UnitFiles(u)
<1>1. ~settled /\ reads[u] = Inputs(u) /\ job[u] \notin {NONE, "done"}
  BY PlaceFacts DEF Control, UnitOK
<1>2. dep[u].values # NONE => dep[u].files = UnitFiles(u)
  BY DEF UnitOK
<1> QED BY <1>1, <1>2 DEF Shape

(* What the other tools have read stays.                                   *)
LEMMA ReadsSame ==
    ASSUME Shape, NEW u \in Units, NEW r, reads' = [reads EXCEPT ![u] = r]
    PROVE  /\ DOMAIN reads' = Units \cup Targets /\ reads'[u] = r
           /\ \A x \in Units \cup Targets : x # u => reads'[x] = reads[x]
BY DEF Shape

(* A step that asks for no modify time.                                    *)
LEMMA CacheSame ==
    ASSUME Shape, cache' = cache
    PROVE  /\ cache' \in [Sources \cup Outputs -> Nat \cup {NONE}]
           /\ \A f \in Sources \cup Outputs :
                 cache'[f] = cache[f] \/ (f \in Sources /\ cache'[f] = Mtime(f))
BY DEF Shape

(* The compiler ends.                                                      *)
LEMMA CompileEndStep ==
    ASSUME Inv, NEW u \in Units, CompileEnd(u)
    PROVE  Inv'
<1> DEFINE o == [mtime |-> now, made |-> reads[u]]
<1>1. /\ Shape /\ Control /\ UnitOK(u) /\ job[u] = "tool" /\ job[u] \in Working
      /\ obj' = [obj EXCEPT ![u] = o]
      /\ job' = [job EXCEPT ![u] = "save"]
      /\ UNCHANGED <<project, now, src, live, flags, dep, bin, bdep, reads, rebuilt,
                     failed, cache, settled>>
  BY DEF Inv, CompileEnd, Working
<1>2. /\ ~settled /\ reads[u] = Inputs(u) /\ job[u] \notin {NONE, "done"}
      /\ dep[u] \in [mtime : Nat, files : Seq(Sources), values : FlagLists \cup {NONE}]
      /\ dep[u].mtime <= now /\ dep = [dep EXCEPT ![u] = dep[u]]
      /\ dep[u].values # NONE => dep[u].files = UnitFiles(u)
  BY <1>1, CompilerRuns
<1>3. /\ o \in [mtime : Nat, made : Mades \cup {NONE}] /\ o.mtime = now /\ o.made = Inputs(u)
      /\ now \in Nat \ {0}
  BY <1>1, <1>2, InputsType, BoundAssumption DEF Shape
<1> HIDE DEF o
<1>4. UnitMoves(u, o, dep[u], "save", Inputs(u))
  <2>1. /\ DOMAIN reads' = Units \cup Targets /\ reads'[u] = Inputs(u)
        /\ \A x \in Units \cup Targets : x # u => reads'[x] = reads[x]
        /\ failed' \in BOOLEAN /\ failed' = failed
    BY <1>1, <1>2 DEF Shape
  <2>2. "save" \in Places \ {NONE, "before"} /\ "save" \in Working
    BY PlaceFacts DEF Places, Working
  <2>3. dep' = [dep EXCEPT ![u] = dep[u]]
    BY <1>1, <1>2
  <2>4. now <= now
    BY <1>3
  <2> QED BY <1>1, <1>2, <1>3, <2>1, <2>2, <2>3, <2>4, CacheSame DEF UnitMoves
<1>5. UnitOK(u)'
  <2>1. /\ job'[u] = "save" /\ reads'[u] = Inputs(u) /\ dep' = dep /\ flags' = flags
        /\ obj'[u] = o /\ project' = project /\ settled' = settled
    BY <1>1, <1>2 DEF Shape
  <2>2. Inputs(u)' = Inputs(u) /\ (Stale(u)' <=> Stale(u)) /\ UnitFiles(u)' = UnitFiles(u)
    BY <1>1 DEF Inputs, Stale, UnitFiles
  <2>3. "kill" \in project.may => Stale(u) /\ dep[u].values \in {NONE, flags}
    BY <1>1 DEF UnitOK
  <2> HIDE DEF Stale, Inputs
  <2> QED BY <1>2, <1>3, <2>1, <2>2, <2>3 DEF UnitOK, Working
<1> QED BY <1>2, <1>4, <1>5, UnitStep

(* The compiler fails and leaves no object.                                *)
LEMMA CompileFailStep ==
    ASSUME Inv, NEW u \in Units, CompileFail(u)
    PROVE  Inv'
<1>1. /\ Shape /\ Control /\ UnitOK(u) /\ job[u] = "tool" /\ job[u] \in Working
      /\ obj' = [obj EXCEPT ![u] = NoFile]
      /\ job' = [job EXCEPT ![u] = "done"]
      /\ reads' = [reads EXCEPT ![u] = NONE]
      /\ failed' = TRUE
      /\ UNCHANGED <<project, now, src, live, flags, dep, bin, bdep, rebuilt,
                     cache, settled>>
  BY DEF Inv, CompileFail, Working
<1>2. /\ ~settled /\ job[u] \notin {NONE, "done"}
      /\ dep[u] \in [mtime : Nat, files : Seq(Sources), values : FlagLists \cup {NONE}]
      /\ dep[u].mtime <= now /\ dep = [dep EXCEPT ![u] = dep[u]]
      /\ dep[u].values # NONE => dep[u].files = UnitFiles(u)
  BY <1>1, CompilerRuns
<1>3. /\ NoFile \in [mtime : Nat, made : Mades \cup {NONE}] /\ NoFile.mtime = 0
      /\ NoFile.mtime <= now
  BY <1>1 DEF NoFile, Shape
<1>4. UnitMoves(u, NoFile, dep[u], "done", NONE)
  <2>1. "done" \in Places \ {NONE, "before"} /\ "done" \notin Working
    BY PlaceFacts DEF Places, Working
  <2>2. dep' = [dep EXCEPT ![u] = dep[u]]
    BY <1>1, <1>2
  <2> QED BY <1>1, <1>2, <1>3, <2>1, <2>2, ReadsSame, CacheSame DEF UnitMoves
<1>5. UnitOK(u)'
  <2>1. /\ job'[u] = "done" /\ dep' = dep /\ flags' = flags
        /\ obj'[u] = NoFile /\ project' = project /\ settled' = settled
    BY <1>1, <1>2 DEF Shape
  <2>2. (Stale(u)' <=> Stale(u)) /\ UnitFiles(u)' = UnitFiles(u) /\ ~Known(u)'
    BY <1>1, <1>3, <2>1 DEF Stale, Known, UnitFiles
  <2>3. "kill" \in project.may => Stale(u) /\ dep[u].values \in {NONE, flags}
    BY <1>1 DEF UnitOK
  <2> HIDE DEF Stale, Known
  <2> QED BY <1>1, <1>2, <2>1, <2>2, <2>3 DEF UnitOK, Working
<1> QED BY <1>2, <1>4, <1>5, UnitStep

(* io.save opens the depend file: it is torn, and gives no information.    *)
LEMMA SaveBeginStep ==
    ASSUME Inv, NEW u \in Units, SaveBegin(u)
    PROVE  Inv'
<1>1. /\ Shape /\ Control /\ UnitOK(u) /\ job[u] = "save" /\ job[u] \in Working
      /\ dep' = [dep EXCEPT ![u] = TornDepend]
      /\ job' = [job EXCEPT ![u] = "saving"]
      /\ UNCHANGED <<project, now, src, live, flags, obj, bin, bdep, reads, rebuilt,
                     failed, cache, settled>>
  BY DEF Inv, SaveBegin, Working
<1>2. /\ ~settled /\ reads[u] = Inputs(u) /\ job[u] \notin {NONE, "done"}
      /\ obj[u] \in [mtime : Nat, made : Mades \cup {NONE}] /\ obj[u].mtime <= now
      /\ obj = [obj EXCEPT ![u] = obj[u]]
  BY <1>1, CompilerRuns
<1>3. /\ TornDepend \in [mtime : Nat, files : Seq(Sources), values : FlagLists \cup {NONE}]
      /\ TornDepend.mtime <= now /\ TornDepend.values = NONE
  <2>1. now \in Nat /\ now <= now /\ <<>> \in Seq(Sources)
    BY <1>1, EmptySequence DEF Shape
  <2>2. TornDepend = [mtime |-> now, files |-> <<>>, values |-> NONE]
    BY DEF TornDepend, NoDepend
  <2> QED BY <2>1, <2>2
<1>4. UnitMoves(u, obj[u], TornDepend, "saving", Inputs(u))
  <2>1. /\ DOMAIN reads' = Units \cup Targets /\ reads'[u] = Inputs(u)
        /\ \A x \in Units \cup Targets : x # u => reads'[x] = reads[x]
        /\ failed' \in BOOLEAN /\ failed' = failed
    BY <1>1, <1>2 DEF Shape
  <2>2. "saving" \in Places \ {NONE, "before"} /\ "saving" \in Working
    BY PlaceFacts DEF Places, Working
  <2>3. obj' = [obj EXCEPT ![u] = obj[u]]
    BY <1>1, <1>2
  <2> HIDE DEF Places
  <2> QED BY <1>1, <1>2, <1>3, <2>1, <2>2, <2>3, CacheSame DEF UnitMoves
<1>5. UnitOK(u)'
  <2>1. /\ job'[u] = "saving" /\ reads'[u] = Inputs(u) /\ obj' = obj
        /\ dep'[u] = TornDepend /\ settled' = settled
    BY <1>1, <1>2 DEF Shape
  <2>2. Inputs(u)' = Inputs(u) /\ Stale(u)'
    BY <1>1, <1>3, <2>1 DEF Inputs, Stale
  <2>3. obj[u].made = Inputs(u) /\ obj[u].mtime # 0
    BY <1>1 DEF UnitOK
  <2> HIDE DEF Stale, Inputs
  <2> QED BY <1>2, <1>3, <2>1, <2>2, <2>3 DEF UnitOK, Working
<1> QED BY <1>2, <1>4, <1>5, UnitStep

(* The depend file is written: the object is current.                      *)
LEMMA SaveEndStep ==
    ASSUME Inv, NEW u \in Units, SaveEnd(u)
    PROVE  Inv'
<1> DEFINE d == [mtime |-> now, files |-> UnitFiles(u), values |-> reads[u].flags]
<1>1. /\ Shape /\ Control /\ UnitOK(u) /\ job[u] = "saving" /\ job[u] \in Working
      /\ dep' = [dep EXCEPT ![u] = d]
      /\ job' = [job EXCEPT ![u] = "done"]
      /\ reads' = [reads EXCEPT ![u] = NONE]
      /\ UNCHANGED <<project, now, src, live, flags, obj, bin, bdep, rebuilt,
                     failed, cache, settled>>
  BY DEF Inv, SaveEnd, Working
<1>2. /\ ~settled /\ reads[u] = Inputs(u) /\ job[u] \notin {NONE, "done"}
      /\ obj[u] \in [mtime : Nat, made : Mades \cup {NONE}] /\ obj[u].mtime <= now
      /\ obj = [obj EXCEPT ![u] = obj[u]]
  BY <1>1, CompilerRuns
<1>3. /\ d \in [mtime : Nat, files : Seq(Sources), values : FlagLists \cup {NONE}]
      /\ d.mtime = now /\ now <= now /\ d.values = flags /\ d.files = UnitFiles(u)
      /\ flags # NONE
  <2>1. reads[u].flags = flags /\ flags \in FlagLists /\ now \in Nat /\ now <= now
    BY <1>1, <1>2 DEF Inputs, Shape
  <2> QED BY <2>1, UnitFilesFacts, NameAssumption
<1> HIDE DEF d
<1>4. UnitMoves(u, obj[u], d, "done", NONE)
  <2>1. "done" \in Places \ {NONE, "before"} /\ "done" \notin Working
    BY PlaceFacts DEF Places, Working
  <2>2. obj' = [obj EXCEPT ![u] = obj[u]] /\ failed' \in BOOLEAN /\ failed' = failed
    BY <1>1, <1>2 DEF Shape
  <2>3. /\ DOMAIN reads' = Units \cup Targets /\ reads'[u] = NONE
        /\ \A x \in Units \cup Targets : x # u => reads'[x] = reads[x]
    BY <1>1 DEF Shape
  <2> HIDE DEF Places
  <2> QED BY <1>1, <1>2, <1>3, <2>1, <2>2, <2>3, CacheSame DEF UnitMoves
<1>5. UnitOK(u)'
  <2>1. /\ job'[u] = "done" /\ obj' = obj /\ dep'[u] = d /\ flags' = flags
        /\ settled' = settled
    BY <1>1, <1>2 DEF Shape
  <2>2. obj[u].made = Inputs(u) /\ obj[u].mtime # 0
    BY <1>1 DEF UnitOK
  <2>3. Inputs(u)' = Inputs(u) /\ UnitFiles(u)' = UnitFiles(u)
    BY <1>1 DEF Inputs, UnitFiles
  <2>4. ToSet(UnitFiles(u)) \subseteq Sources
    BY UnitFilesFacts, LenProperties DEF ToSet
  <2>5. Known(u)'
    BY <1>1, <1>3, <2>1, <2>2, <2>3, <2>4 DEF Known, Shape
  <2>6. UnitCurrent(u)'
    BY <1>3, <2>1, <2>2, <2>3, <2>5 DEF UnitCurrent
  <2>7. [Inputs(u) EXCEPT !.flags = flags] = Inputs(u)
    BY DEF Inputs
  <2> HIDE DEF Known, UnitCurrent, Inputs, UnitFiles
  <2> QED BY <1>3, <2>1, <2>2, <2>3, <2>5, <2>6, <2>7 DEF UnitOK, Working
<1> QED BY <1>2, <1>4, <1>5, UnitStep

-----------------------------------------------------------------------------
(* More is known to be up to date.                                         *)
Extends(D, K, D2, K2) == D \subseteq D2 /\ \A x \in D : K2[x] = K[x]

(* A step of the job of one target.  D holds the targets that were found   *)
(* up to date or linked since the user did something, K what they are made *)
(* from; the step may add the target.                                      *)
TargetMoves(t, b, d, j, r, D, K) ==
    /\ UNCHANGED <<project, now, src, live, flags, obj, dep, rebuilt, settled>>
    /\ DOMAIN bin' = Targets /\ bin'[t] = b /\ b.mtime \in Nat /\ b.mtime <= now
    /\ \A s \in Targets : s # t => bin'[s] = bin[s]
    /\ d \in [mtime : Nat, files : Seq(Outputs), values : FlagLists \cup {NONE}]
    /\ d.mtime <= now /\ ToSet(d.files) \subseteq Linkable(t)
    /\ bdep' = [bdep EXCEPT ![t] = d]
    /\ j \in Places \ {NONE}
    /\ job' = [job EXCEPT ![t] = j]
    /\ DOMAIN reads' = Units \cup Targets /\ reads'[t] = r
    /\ \A x \in Units \cup Targets : x # t => reads'[x] = reads[x]
    /\ j \notin Working => r = NONE
    /\ j \in Working \cup {"done"} =>
          /\ \A u \in LinkUnits(t) : job[u] = "done"
          /\ \A l \in project.libs[t] : job[l] = "done"
    /\ failed' \in BOOLEAN /\ (failed => failed')
    /\ cache' \in [Sources \cup Outputs -> Nat \cup {NONE}]
    /\ \A f \in Sources \cup Outputs :
          \/ cache'[f] = cache[f]
          \/ f \in Outputs /\ job[f[1]] = "done" /\ cache'[f] = Mtime(f)
    /\ settled => b = bin[t] /\ d = bdep[t] /\ j \notin Working /\ ~failed'
    /\ \/ j = "tool" \/ b.mtime = 0
       \/ b = bin[t] /\ job[t] # "tool"
       \/ b.mtime = now /\ t \in D /\ b.made = K[t]

(* Such a step keeps the shape of the state.                               *)
LEMMA TargetStepShape ==
    ASSUME Shape, NEW t \in Targets, NEW b, NEW d, NEW j, NEW r, NEW D, NEW K,
           TargetMoves(t, b, d, j, r, D, K)
    PROVE  Shape'
<1>1. bdep' \in [Targets -> [mtime : Nat, files : Seq(Outputs), values : FlagLists \cup {NONE}]]
  BY DEF TargetMoves, Shape
<1>2. \A s \in Targets : bin'[s].mtime \in Nat /\ bin'[s].mtime <= now /\ bdep'[s].mtime <= now
  BY DEF TargetMoves, Shape
<1>3. /\ job' \in [Units \cup Targets -> Places]
      /\ DOMAIN reads' = Units \cup Targets
      /\ \A x \in Units \cup Targets : job'[x] \notin Working => reads'[x] = NONE
  BY DEF TargetMoves, Shape, Places
<1> QED BY <1>1, <1>2, <1>3 DEF TargetMoves, Shape, Places

(* Such a step keeps the control.                                          *)
LEMMA TargetStepControl ==
    ASSUME Shape, Control, NEW t \in Targets, NEW b, NEW d, NEW j, NEW r, NEW D, NEW K,
           TargetMoves(t, b, d, j, r, D, K), job[t] \notin {NONE, "done"}
    PROVE  Control'
<1>1. /\ \A x \in Units \cup Targets : x # t => job'[x] = job[x]
      /\ job'[t] = j /\ j # NONE /\ j \in Places
      /\ t \notin Units
  BY NameAssumption DEF TargetMoves, Shape
<1>2. Building /\ Building'
  BY <1>1 DEF Building
<1>3. /\ \A x \in Units \cup Targets : job'[x] # NONE
      /\ \A u \in Units \ live : job'[u] = "done"
      /\ \A s \in Targets \ Members : job'[s] = "done"
      /\ \A u \in Units : job'[u] # "before"
      /\ t \in Members
  BY <1>1, <1>2 DEF Control
<1>4. settled => ~rebuilt /\ ~failed' /\ \A x \in Units \cup Targets : job'[x] \notin Working
  BY <1>1 DEF Control, TargetMoves
<1>5. ASSUME NEW s \in Members, job'[s] \in Working \cup {"done"}
      PROVE  /\ \A u \in LinkUnits(s) : job'[u] = "done"
             /\ \A l \in project.libs[s] : job'[l] = "done"
  <2>1. s \in Targets /\ LinkUnits(s) \subseteq Units /\ project.libs[s] \subseteq Targets
    BY LinkFilesFacts DEF Members
  <2>2. /\ \A u \in LinkUnits(s) : job[u] = "done"
        /\ \A l \in project.libs[s] : job[l] = "done"
    BY <1>1, <1>5, <2>1 DEF Control, TargetMoves
  <2> QED BY <1>1, <2>1, <2>2
<1>6. \A f \in Sources \cup Outputs : f # B(t) => Mtime(f)' = Mtime(f)
  <2>1. \A f \in Sources : Mtime(f)' = Mtime(f)
    BY DEF Mtime, TargetMoves
  <2>2. \A u \in Units : Mtime(O(u))' = Mtime(O(u))
    BY Names DEF Mtime, TargetMoves
  <2>3. \A s \in Targets : s # t => Mtime(B(s))' = Mtime(B(s))
    BY Names DEF Mtime, TargetMoves
  <2> QED BY <2>1, <2>2, <2>3, Names
<1>7. ASSUME NEW f \in Sources \cup Outputs, cache'[f] # NONE
      PROVE  cache'[f] = Mtime(f)' /\ (f \in Outputs => job'[f[1]] = "done")
  <2>1. cache'[f] = Mtime(f) /\ (f \in Outputs => job[f[1]] = "done")
    BY <1>7 DEF Control, TargetMoves
  <2>2. f # B(t)
    BY <2>1, Names
  <2>3. f \in Outputs => f[1] \in Units \cup Targets /\ f[1] # t
    BY <2>1, Names
  <2> QED BY <1>1, <1>6, <2>1, <2>2, <2>3
<1>8. /\ project' = project /\ live' = live /\ rebuilt' = rebuilt
      /\ settled' = settled /\ Members' = Members
      /\ \A s \in Targets : /\ LinkUnits(s)' = LinkUnits(s)
                            /\ Linkable(s)' = Linkable(s)
  BY DEF TargetMoves, Members, LinkUnits, Linkable
<1>9. \A s \in Targets : ToSet(bdep'[s].files) \subseteq Linkable(s)
  BY DEF Control, TargetMoves, Shape
<1>10. /\ \A s \in Members' : project'.units[s] \cap live' # {}
       /\ \A s \in Targets : ToSet(bdep'[s].files) \subseteq Linkable(s)'
       /\ rebuilt' => "rebuild" \in project'.may
  BY <1>8, <1>9 DEF Control
<1>11. /\ \A u \in Units \ live' : job'[u] = "done"
       /\ \A s \in Targets \ Members' : job'[s] = "done"
       /\ \A s \in Members' : job'[s] \in Working \cup {"done"} =>
             /\ \A u \in LinkUnits(s)' : job'[u] = "done"
             /\ \A l \in project'.libs[s] : job'[l] = "done"
       /\ settled' => ~rebuilt' /\ ~failed' /\ \A x \in Units \cup Targets : job'[x] \notin Working
  <2>1. \A s \in Members : LinkUnits(s)' = LinkUnits(s)
    BY <1>8 DEF Members
  <2> QED BY <1>3, <1>4, <1>5, <1>8, <2>1
<1> HIDE DEF TargetMoves
<1> QED BY <1>2, <1>3, <1>7, <1>10, <1>11 DEF Control

(* Nothing is lost when more is known to be up to date.                    *)
LEMMA Monotone ==
    ASSUME NEW D, NEW K, NEW D2, NEW K2, Coherent(D, K), Extends(D, K, D2, K2),
           NEW s \in Targets, TargetOK(D, K, s)
    PROVE  TargetOK(D2, K2, s)
<1>1. s \in D => s \in D2 /\ K2[s] = K[s] /\ \A l \in project.libs[s] : K2[l] = K[l]
  BY DEF Extends, Coherent
<1>2. OnDisk(D, K, s) => OnDisk(D2, K2, s)
  BY <1>1 DEF OnDisk
<1>3. Ready(D, K, s) => Ready(D2, K2, s) /\ s \in D
  BY <1>1 DEF Ready
<1>4. TargetCurrent(D, K, s) => TargetCurrent(D2, K2, s)
  BY <1>1 DEF TargetCurrent
<1>5. job[s] \in {"save", "saving"} => job[s] \in Working
  BY DEF Working
<1> QED BY <1>1, <1>2, <1>3, <1>4, <1>5 DEF TargetOK

(* The other targets are as they were.  A library that is linked now has   *)
(* the contents that each target that was linked now has been made from.   *)
LEMMA OtherTarget ==
    ASSUME Shape, Control, NEW t \in Targets, NEW b, NEW d, NEW j, NEW r, NEW D, NEW K,
           TargetMoves(t, b, d, j, r, D, K), job[t] \notin {NONE, "done"},
           Coherent(D, K), NEW s \in Targets, s # t, TargetOK(D, K, s)
    PROVE  TargetOK(D, K, s)'
<1>1. /\ \A x \in Units \cup Targets : x # t => job'[x] = job[x] /\ reads'[x] = reads[x]
      /\ job'[t] = j /\ \A u \in Units : job'[u] = job[u]
      /\ job'[s] = job[s] /\ reads'[s] = reads[s] /\ bin'[s] = bin[s] /\ bdep'[s] = bdep[s]
      /\ bin'[t] = b /\ \A x \in Targets : x # t => bin'[x] = bin[x]
  BY NameAssumption DEF TargetMoves, Shape
<1>2. /\ LinkUnits(s) \subseteq Units /\ project.libs[s] \subseteq Targets
      /\ LinkUnits(s)' = LinkUnits(s) /\ LinkFiles(s)' = LinkFiles(s)
      /\ Members' = Members
      /\ \A u \in Units : (UnitCurrent(u)' <=> UnitCurrent(u))
  <2>1. LinkUnits(s) \subseteq Units /\ project.libs[s] \subseteq Targets
    BY LinkFilesFacts DEF Members
  <2>2. LinkUnits(s)' = LinkUnits(s) /\ LinkFiles(s)' = LinkFiles(s) /\ Members' = Members
    BY DEF Members, TargetMoves, LinkUnits, LinkFiles
  <2>3. \A u \in Units : (UnitCurrent(u)' <=> UnitCurrent(u))
    BY DEF TargetMoves, UnitCurrent, Known, Inputs, UnitFiles
  <2> QED BY <2>1, <2>2, <2>3
<1>3. /\ project' = project /\ now' = now /\ flags' = flags
      /\ obj' = obj /\ settled' = settled /\ (failed => failed')
      /\ settled => bin'[t] = bin[t]
  BY <1>1 DEF TargetMoves
<1>4. ASSUME s \in Members, job[s] \in Working \cup {"done"}
      PROVE  t \notin project.libs[s]
  BY <1>4 DEF Control
<1>5. job[s] \in Working => s \in Members
  BY PlaceFacts DEF Control, Building
<1>6. ASSUME job[s] \in Working
      PROVE  Ready(D, K, s)'
  <2>1. Ready(D, K, s) /\ t \notin project.libs[s]
    BY <1>4, <1>5, <1>6 DEF TargetOK
  <2> QED BY <1>1, <1>2, <1>3, <2>1 DEF Ready
<1>7. ASSUME NoNewer(s), t \notin project.libs[s] \/ settled
      PROVE  NoNewer(s)'
  <2>1. \A l \in project.libs[s] : bin'[l] = bin[l]
    BY <1>1, <1>2, <1>3, <1>7
  <2> QED BY <1>1, <1>2, <1>3, <1>7, <2>1 DEF NoNewer
<1>8. ASSUME job[s] # "tool", bin[s].mtime # 0
      PROVE  OnDisk(D, K, s)'
  <2> DEFINE m == bin[s].made
  <2>1. OnDisk(D, K, s)
    BY <1>8 DEF TargetOK
  <2>2. IsMade(s, m)'
    BY <1>1, <1>3, <2>1 DEF OnDisk, IsMade
  <2>3. \A u \in DOMAIN m.objs :
           obj[u].mtime \in 1..bin[s].mtime /\ obj[u].made # NONE => m.objs[u] = obj[u].made
    BY <2>1 DEF OnDisk
  <2>4. ASSUME NEW l \in project.libs[s], job'[l] # "tool", bin'[l].mtime \in 1..bin[s].mtime
        PROVE  m.libs[l] = bin'[l].made
    <3>1. CASE l # t
      BY <1>1, <1>2, <2>1, <2>4, <3>1 DEF OnDisk
    <3>2. CASE l = t
      <4>1. CASE b = bin[t] /\ job[t] # "tool"
        BY <1>1, <2>1, <2>4, <3>2, <4>1 DEF OnDisk
      <4>2. CASE b.mtime = now /\ t \in D /\ b.made = K[t]
        <5>1. bin[s].mtime = now
          BY <1>1, <2>4, <3>2, <4>2 DEF Shape
        <5>2. m = K[s] /\ K[s] = Content(s, K)
          BY <2>1, <5>1 DEF OnDisk, Coherent
        <5>3. m.libs = [x \in project.libs[s] |-> K[x]]
          BY <5>2 DEF Content
        <5> QED BY <1>1, <2>4, <3>2, <4>2, <5>3
      <4> QED BY <1>1, <2>4, <3>2, <4>1, <4>2 DEF TargetMoves
    <3> QED BY <3>1, <3>2
  <2>5. bin[s].mtime = now => s \in D /\ m = K[s]
    BY <2>1 DEF OnDisk
  <2>6. job'[s] \notin Working /\ bdep[s].values # NONE =>
          /\ m.flags = bdep[s].values
          /\ ToSet(bdep[s].files) = {O(u) : u \in DOMAIN m.objs} \cup {B(l) : l \in project.libs[s]}
    BY <1>1, <2>1 DEF OnDisk
  <2> QED BY <1>1, <1>3, <2>2, <2>3, <2>4, <2>5, <2>6 DEF OnDisk
<1>9. job'[s] # "tool" /\ bin'[s].mtime # 0 => OnDisk(D, K, s)'
  BY <1>1, <1>8
<1>10. job'[s] \in Working => Ready(D, K, s)'
  BY <1>1, <1>6
<1>11. ASSUME job'[s] \in {"save", "saving"}
       PROVE  bin'[s].made = K[s] /\ NoNewer(s)'
  <2>1. s \in Members /\ job[s] \in Working
    BY <1>1, <1>5, <1>11 DEF Working
  <2> QED BY <1>1, <1>4, <1>7, <1>11, <2>1 DEF TargetOK
<1>12. /\ job'[s] = "saving" => bdep'[s].values = NONE
       /\ "kill" \in project'.may =>
             bdep'[s].values = NONE \/ (bdep'[s].values = flags' /\ bdep'[s].files = LinkFiles(s)')
  BY <1>1, <1>2, <1>3 DEF TargetOK
<1>13. ASSUME s \in Members', settled' \/ (job'[s] = "done" /\ ~failed')
       PROVE  TargetCurrent(D, K, s)'
  <2>1. TargetCurrent(D, K, s) /\ (t \notin project.libs[s] \/ settled)
    BY <1>1, <1>2, <1>3, <1>4, <1>13 DEF TargetOK
  <2> QED BY <1>1, <1>2, <1>3, <1>7, <2>1 DEF TargetCurrent
<1> HIDE DEF TargetMoves
<1> QED BY <1>9, <1>10, <1>11, <1>12, <1>13 DEF TargetOK

(* Such a step keeps the invariant if it does for its own target.          *)
LEMMA TargetStep ==
    ASSUME Shape, Control, \A u \in Units : UnitOK(u),
           NEW t \in Targets, NEW b, NEW d, NEW j, NEW r,
           NEW D, NEW K, Coherent(D, K), \A s \in Targets : TargetOK(D, K, s),
           TargetMoves(t, b, d, j, r, D, K), job[t] \notin {NONE, "done"}, TargetOK(D, K, t)'
    PROVE  Inv'
<1>1. Shape' /\ Control'
  BY TargetStepShape, TargetStepControl
<1>2. ASSUME NEW u \in Units PROVE UnitOK(u)'
  <2>1. /\ project' = project /\ src' = src /\ flags' = flags /\ live' = live
        /\ obj'[u] = obj[u] /\ dep'[u] = dep[u] /\ job'[u] = job[u] /\ reads'[u] = reads[u]
        /\ (failed => failed') /\ settled' = settled
    BY NameAssumption DEF TargetMoves, Shape
  <2> QED BY <2>1, UnitFrame
<1>3. \A s \in Targets : TargetOK(D, K, s)'
  BY OtherTarget
<1>4. Coherent(D, K)'
  <2>1. \A s \in Targets : Content(s, K)' = Content(s, K)
    BY DEF TargetMoves, Content, LinkUnits, Inputs
  <2>2. project' = project
    BY DEF TargetMoves
  <2> HIDE DEF Content, TargetMoves
  <2> QED BY <2>1, <2>2 DEF Coherent
<1>5. LinkInv'
  BY <1>3, <1>4 DEF LinkInv, Coherent
<1> QED BY <1>1, <1>2, <1>5 DEF Inv

(* The state, with what is known to be up to date.                         *)
Knows(D, K) ==
    /\ Shape /\ Control
    /\ \A u \in Units : UnitOK(u)
    /\ D \subseteq Targets
    /\ Coherent(D, K)
    /\ \A t \in Targets : TargetOK(D, K, t)

(* It is the invariant.                                                    *)
LEMMA InvKnows ==
    Inv <=> \E D : \E K : Knows(D, K)
BY DEF Inv, LinkInv, Knows, Coherent

(* A step of a target that asks for no modify time.                        *)
LEMMA OutputCacheSame ==
    ASSUME Shape, cache' = cache
    PROVE  /\ cache' \in [Sources \cup Outputs -> Nat \cup {NONE}]
           /\ \A f \in Sources \cup Outputs :
                 \/ cache'[f] = cache[f]
                 \/ f \in Outputs /\ job[f[1]] = "done" /\ cache'[f] = Mtime(f)
BY DEF Shape

(* The check of a target remembers objects and libraries whose jobs are    *)
(* done, as the order of the job graph has it.                             *)
LEMMA OutputsRemembered ==
    ASSUME Shape, Control, NEW t \in Targets, MayLink(t), Remember(bdep[t], bin[t].mtime)
    PROVE  /\ cache' \in [Sources \cup Outputs -> Nat \cup {NONE}]
           /\ \A f \in Sources \cup Outputs :
                 \/ cache'[f] = cache[f]
                 \/ f \in Outputs /\ job[f[1]] = "done" /\ cache'[f] = Mtime(f)
<1>1. bdep[t].files \in Seq(Outputs) /\ Outputs \in SUBSET (Sources \cup Outputs)
  BY DEF Shape
<1>2. /\ cache' \in [Sources \cup Outputs -> Nat \cup {NONE}]
      /\ \A f \in Sources \cup Outputs :
            cache'[f] = cache[f] \/ (f \in ToSet(bdep[t].files) /\ cache'[f] = Mtime(f))
  BY <1>1, Remembered
<1>3. ASSUME NEW f \in ToSet(bdep[t].files)
      PROVE  f \in Outputs /\ job[f[1]] = "done"
  <2>1. f \in Linkable(t)
    BY DEF Control
  <2>2. project.units[t] \subseteq Units /\ project.libs[t] \subseteq Targets
    BY LinkFilesFacts DEF Members
  <2>3. ASSUME NEW u \in project.units[t], f = O(u) PROVE f \in Outputs /\ job[f[1]] = "done"
    <3>1. Building
      BY PlaceFacts DEF MayLink, Building
    <3>2. job[u] = "done"
      BY <2>2, <3>1 DEF MayLink, LinkUnits, Control
    <3> QED BY <2>2, <2>3, <3>2, Names
  <2>4. ASSUME NEW l \in project.libs[t], f = B(l) PROVE f \in Outputs /\ job[f[1]] = "done"
    BY <2>2, <2>4, Names DEF MayLink
  <2> QED BY <2>1, <2>3, <2>4 DEF Linkable
<1> QED BY <1>2, <1>3

(* The before job: a target that is built again is removed.                *)
LEMMA BeforeStep ==
    ASSUME Inv, NEW t \in Targets, Before(t)
    PROVE  Inv'
<1> DEFINE b == IF rebuilt THEN NoFile ELSE bin[t]
<1>1. PICK D, K : Knows(D, K)
  BY InvKnows
<1>2. /\ Shape /\ Control /\ (\A u \in Units : UnitOK(u)) /\ TargetOK(D, K, t)
      /\ Coherent(D, K) /\ \A s \in Targets : TargetOK(D, K, s)
  BY <1>1 DEF Knows
<1>3. /\ job[t] = "before" /\ ~failed
      /\ bin' = IF rebuilt THEN [bin EXCEPT ![t] = NoFile] ELSE bin
      /\ job' = [job EXCEPT ![t] = "wait"]
      /\ UNCHANGED <<project, now, src, live, flags, obj, dep, bdep, reads, rebuilt,
                     failed, cache, settled>>
  BY DEF Before
<1>4. /\ DOMAIN bin' = Targets /\ bin'[t] = b
      /\ \A s \in Targets : s # t => bin'[s] = bin[s]
      /\ b.mtime \in Nat /\ b.mtime <= now
      /\ b = NoFile \/ b = bin[t]
      /\ settled => b = bin[t]
  BY <1>2, <1>3 DEF Shape, NoFile, Control
<1> HIDE DEF b
<1>5. TargetMoves(t, b, bdep[t], "wait", NONE, D, K)
  <2>1. /\ bdep[t] \in [mtime : Nat, files : Seq(Outputs), values : FlagLists \cup {NONE}]
        /\ bdep[t].mtime <= now /\ ToSet(bdep[t].files) \subseteq Linkable(t)
        /\ bdep' = [bdep EXCEPT ![t] = bdep[t]]
    BY <1>2, <1>3 DEF Shape, Control
  <2>2. "wait" \in Places \ {NONE} /\ "wait" \notin Working \cup {"done"}
    BY PlaceFacts DEF Places
  <2>3. /\ DOMAIN reads' = Units \cup Targets /\ reads'[t] = NONE
        /\ \A x \in Units \cup Targets : x # t => reads'[x] = reads[x]
    BY <1>2, <1>3, PlaceFacts DEF Shape
  <2>4. b.mtime = 0 \/ (b = bin[t] /\ job[t] # "tool")
    BY <1>3, <1>4 DEF NoFile
  <2>5. failed' \in BOOLEAN /\ failed' = failed
    BY <1>2, <1>3 DEF Shape
  <2>6. /\ cache' \in [Sources \cup Outputs -> Nat \cup {NONE}]
        /\ \A f \in Sources \cup Outputs :
              \/ cache'[f] = cache[f]
              \/ f \in Outputs /\ job[f[1]] = "done" /\ cache'[f] = Mtime(f)
    BY <1>2, <1>3, OutputCacheSame
  <2>7. settled => "wait" \notin Working /\ ~failed'
    BY <1>3, <2>2
  <2> HIDE DEF Places
  <2> QED BY <1>2, <1>3, <1>4, <2>1, <2>2, <2>3, <2>4, <2>5, <2>6, <2>7 DEF TargetMoves
<1>6. TargetOK(D, K, t)'
  <2>1. /\ job'[t] = "wait" /\ project' = project /\ bdep' = bdep /\ flags' = flags
        /\ settled' = settled /\ now' = now /\ obj' = obj /\ Members' = Members
        /\ LinkFiles(t)' = LinkFiles(t)
    BY <1>2, <1>3 DEF Shape, Members, LinkFiles, LinkUnits
  <2>2. "wait" \notin Working
    BY PlaceFacts
  <2>3. \A s \in Targets : s # t => bin'[s] = bin[s]
    BY <1>4
  <2>4. \A l \in project.libs[t] : job'[l] # "tool" => job[l] # "tool"
    BY <1>2, <1>3, LinkFilesFacts DEF Shape, Members
  <2>5. ASSUME bin'[t].mtime # 0 PROVE OnDisk(D, K, t)'
    <3>1. bin'[t] = bin[t] /\ \A s \in Targets : bin'[s] = bin[s]
      BY <1>4, <2>5 DEF NoFile
    <3>2. OnDisk(D, K, t)
      BY <1>2, <1>3, <2>5, <3>1 DEF TargetOK
    <3>3. IsMade(t, bin[t].made)'
      BY <2>1, <3>1, <3>2 DEF OnDisk, IsMade
    <3>4. \A l \in project.libs[t] : bin'[l] = bin[l]
      BY <1>2, <3>1, LinkFilesFacts DEF Members
    <3>5. job[t] \notin Working
      BY <1>3, PlaceFacts
    <3> QED BY <2>1, <2>2, <2>4, <3>1, <3>2, <3>3, <3>4, <3>5 DEF OnDisk
  <2>6. ASSUME settled, t \in Members PROVE TargetCurrent(D, K, t)'
    <3>1. bin'[t] = bin[t] /\ \A s \in Targets : bin'[s] = bin[s]
      BY <1>4, <2>6
    <3>2. TargetCurrent(D, K, t)
      BY <1>2, <2>6 DEF TargetOK
    <3>3. LinkUnits(t)' = LinkUnits(t) /\ \A l \in project.libs[t] : bin'[l] = bin[l]
      BY <1>2, <1>3, <3>1, LinkFilesFacts DEF Members, LinkUnits
    <3> QED BY <2>1, <3>1, <3>2, <3>3 DEF TargetCurrent, NoNewer
  <2>7. "kill" \in project.may =>
          bdep[t].values = NONE \/ (bdep[t].values = flags /\ bdep[t].files = LinkFiles(t))
    BY <1>2 DEF TargetOK
  <2> QED BY <2>1, <2>2, <2>5, <2>6, <2>7 DEF TargetOK
<1> QED BY <1>2, <1>3, <1>5, <1>6, PlaceFacts, TargetStep

(* What the link job of a target can count on: what it is to be made from  *)
(* is known, and objects and libraries are made so.                        *)
LinkKnows(D, K, t) ==
    /\ Knows(D, K)
    /\ t \in D /\ t \in Members
    /\ \A u \in LinkUnits(t) : UnitCurrent(u)
    /\ \A l \in project.libs[t] : bin[l].made = K[l] /\ bin[l].mtime # 0

(* It can count on it when it may run: it comes after what it links.       *)
LEMMA MayLinkKnows ==
    ASSUME Inv, NEW t \in Targets, MayLink(t)
    PROVE  \E D : \E K : LinkKnows(D, K, t)
<1>1. PICK D, K : Knows(D, K)
  BY InvKnows
<1>2. /\ Shape /\ Control /\ (\A u \in Units : UnitOK(u)) /\ D \subseteq Targets
      /\ Coherent(D, K) /\ \A s \in Targets : TargetOK(D, K, s)
  BY <1>1 DEF Knows
<1>3. /\ job[t] = "wait" /\ ~failed
      /\ \A u \in LinkUnits(t) : job[u] = "done"
      /\ \A l \in project.libs[t] : job[l] = "done"
      /\ t \notin project.libs[t]
  BY DEF MayLink
<1>4. t \in Members
  BY <1>2, <1>3, PlaceFacts DEF Control, Building
<1>5. /\ LinkUnits(t) \subseteq Units /\ LinkUnits(t) \subseteq live
      /\ project.libs[t] \subseteq Members /\ Members \subseteq Targets
  BY <1>2, LinkFilesFacts
<1>6. \A u \in LinkUnits(t) : UnitCurrent(u)
  BY <1>2, <1>3, <1>5 DEF UnitOK
<1>7. \A l \in project.libs[t] : TargetCurrent(D, K, l)
  BY <1>2, <1>3, <1>5 DEF TargetOK
<1>8. \A l \in project.libs[t] : l \in D /\ bin[l].made = K[l] /\ bin[l].mtime # 0
  BY <1>7 DEF TargetCurrent, NoNewer
<1>9. CASE t \in D
  BY <1>1, <1>4, <1>6, <1>8, <1>9 DEF LinkKnows
<1>10. CASE t \notin D
  <2>1. PICK K2 : K2 = [s \in Targets |-> IF s = t THEN Content(t, K) ELSE K[s]]
    OBVIOUS
  <2>2. PICK D2 : D2 = D \cup {t}
    OBVIOUS
  <2>3. K2[t] = Content(t, K) /\ \A s \in D : K2[s] = K[s]
    BY <1>2, <1>10, <2>1
  <2>4. Extends(D, K, D2, K2) /\ D2 \subseteq Targets
    BY <1>2, <2>2, <2>3 DEF Extends
  <2>5. Content(t, K2) = Content(t, K)
    BY <1>8, <2>3 DEF Content
  <2>6. ASSUME NEW s \in D
        PROVE  project.libs[s] \subseteq D /\ K2[s] = Content(s, K2)
    <3>1. project.libs[s] \subseteq D /\ K[s] = Content(s, K)
      BY <1>2 DEF Coherent
    <3>2. Content(s, K2) = Content(s, K)
      BY <2>3, <3>1 DEF Content
    <3> HIDE DEF Content
    <3> QED BY <2>3, <3>1, <3>2
  <2>7. Coherent(D2, K2)
    <3> HIDE DEF Content
    <3> QED BY <1>8, <2>2, <2>3, <2>4, <2>5, <2>6 DEF Coherent
  <2>8. \A s \in Targets : TargetOK(D2, K2, s)
    BY <1>2, <2>4, Monotone
  <2>9. \A l \in project.libs[t] : bin[l].made = K2[l] /\ bin[l].mtime # 0
    BY <1>8, <2>3
  <2>10. LinkKnows(D2, K2, t)
    BY <1>2, <1>4, <1>6, <2>2, <2>4, <2>7, <2>8, <2>9 DEF LinkKnows, Knows
  <2> QED BY <2>10
<1> QED BY <1>9, <1>10

(* What has been linked from it is what it is to be made from.             *)
LEMMA ContentLinked ==
    ASSUME Shape, NEW D, NEW K, Coherent(D, K), NEW t \in Targets, t \in D,
           \A u \in LinkUnits(t) : UnitCurrent(u),
           \A l \in project.libs[t] : bin[l].made = K[l]
    PROVE  LinkInputs(t) = K[t]
<1>1. K[t] = Content(t, K)
  BY DEF Coherent
<1>2. \A u \in LinkUnits(t) : obj[u].made = Inputs(u)
  BY DEF UnitCurrent
<1> HIDE DEF Inputs
<1> QED BY <1>1, <1>2 DEF LinkInputs, Content

(* The target is not linked again: it has no input that is newer, so it    *)
(* was made from the objects and libraries that are there, and these are   *)
(* current.                                                                *)
LEMMA LinkUpToDateStep ==
    ASSUME Inv, NoListExtended, NEW t \in Targets, LinkUpToDate(t)
    PROVE  Inv'
<1>1. MayLink(t)
  BY DEF LinkUpToDate
<1>2. PICK D, K : LinkKnows(D, K, t)
  BY <1>1, MayLinkKnows
<1>3. /\ Shape /\ Control /\ (\A u \in Units : UnitOK(u)) /\ D \subseteq Targets
      /\ Coherent(D, K) /\ \A s \in Targets : TargetOK(D, K, s)
      /\ t \in D /\ t \in Members
      /\ \A u \in LinkUnits(t) : UnitCurrent(u)
      /\ \A l \in project.libs[t] : bin[l].made = K[l] /\ bin[l].mtime # 0
  BY <1>2 DEF LinkKnows, Knows
<1>4. /\ job[t] = "wait" /\ ~failed
      /\ \A u \in LinkUnits(t) : job[u] = "done"
      /\ \A l \in project.libs[t] : job[l] = "done"
      /\ ~TargetChanged(t) /\ Remember(bdep[t], bin[t].mtime)
      /\ job' = [job EXCEPT ![t] = "done"]
      /\ UNCHANGED <<project, now, disk, reads, rebuilt, failed, settled>>
  BY DEF LinkUpToDate, MayLink
<1>5. /\ NoNewer(t) /\ bdep[t].values = flags /\ bdep[t].files = LinkFiles(t)
      /\ bdep[t].values # NONE
  BY <1>3, <1>4, TargetUnchanged
<1>6. job[t] # "tool" /\ job[t] \notin Working /\ bin[t].mtime # 0
  BY <1>4, <1>5, PlaceFacts DEF NoNewer
<1>7. OnDisk(D, K, t)
  BY <1>3, <1>6 DEF TargetOK
<1>8. bin[t].made = K[t]
  <2> DEFINE m == bin[t].made
  <2>1. m = [objs |-> m.objs, libs |-> m.libs, flags |-> m.flags] /\ m.flags = flags
    BY <1>5, <1>6, <1>7 DEF OnDisk, IsMade
  <2>2. {O(u) : u \in DOMAIN m.objs} \cup {B(l) : l \in project.libs[t]}
          = {O(u) : u \in LinkUnits(t)} \cup {B(l) : l \in project.libs[t]}
    BY <1>3, <1>5, <1>6, <1>7, LinkFilesFacts DEF OnDisk
  <2>3. /\ DOMAIN m.objs \subseteq Units /\ LinkUnits(t) \subseteq Units
        /\ project.libs[t] \subseteq Targets
    BY <1>3, <1>7, LinkFilesFacts DEF OnDisk, IsMade, Members
  <2>4. DOMAIN m.objs = LinkUnits(t)
    <3>1. ASSUME NEW u \in DOMAIN m.objs PROVE u \in LinkUnits(t)
      <4>1. O(u) \in {O(w) : w \in LinkUnits(t)} \cup {B(l) : l \in project.libs[t]}
        BY <2>2
      <4> QED BY <2>3, <4>1, Names
    <3>2. ASSUME NEW u \in LinkUnits(t) PROVE u \in DOMAIN m.objs
      <4>1. O(u) \in {O(w) : w \in DOMAIN m.objs} \cup {B(l) : l \in project.libs[t]}
        BY <2>2
      <4> QED BY <2>3, <4>1, Names
    <3> QED BY <3>1, <3>2
  <2>5. ASSUME NEW u \in LinkUnits(t) PROVE m.objs[u] = Inputs(u)
    <3>1. obj[u].mtime \in 1..bin[t].mtime /\ obj[u].made = Inputs(u) /\ Inputs(u) # NONE
      BY <1>3, <1>5, <2>3, InputsType DEF NoNewer, UnitCurrent
    <3> QED BY <1>7, <2>4, <3>1 DEF OnDisk
  <2>6. ASSUME NEW l \in project.libs[t] PROVE m.libs[l] = K[l]
    <3>1. bin[l].mtime \in 1..bin[t].mtime /\ bin[l].made = K[l] /\ job[l] # "tool"
      BY <1>3, <1>4, <1>5 DEF NoNewer
    <3> QED BY <1>7, <3>1 DEF OnDisk
  <2>7. m.objs = [u \in LinkUnits(t) |-> Inputs(u)]
    <3>1. m.objs = [u \in DOMAIN m.objs |-> m.objs[u]]
      BY <1>7 DEF OnDisk, IsMade
    <3> HIDE DEF m
    <3> QED BY <2>4, <2>5, <3>1
  <2>8. m.libs = [l \in project.libs[t] |-> K[l]]
    <3>1. m.libs = [l \in project.libs[t] |-> m.libs[l]]
      BY <1>7 DEF OnDisk, IsMade
    <3> HIDE DEF m
    <3> QED BY <2>6, <3>1
  <2> HIDE DEF m
  <2>9. K[t] = Content(t, K)
    BY <1>3 DEF Coherent
  <2>10. m = K[t]
    BY <2>1, <2>7, <2>8, <2>9 DEF Content
  <2> QED BY <2>10 DEF m
<1>9. TargetMoves(t, bin[t], bdep[t], "done", NONE, D, K)
  <2>1. /\ bdep[t] \in [mtime : Nat, files : Seq(Outputs), values : FlagLists \cup {NONE}]
        /\ bdep[t].mtime <= now /\ ToSet(bdep[t].files) \subseteq Linkable(t)
        /\ bdep' = [bdep EXCEPT ![t] = bdep[t]]
    BY <1>3, <1>4 DEF Shape, Control, disk
  <2>2. "done" \in Places \ {NONE} /\ "done" \notin Working
    BY PlaceFacts DEF Places
  <2>3. /\ DOMAIN reads' = Units \cup Targets /\ reads'[t] = NONE
        /\ \A x \in Units \cup Targets : x # t => reads'[x] = reads[x]
    BY <1>3, <1>4, <1>6 DEF Shape
  <2>4. /\ DOMAIN bin' = Targets /\ bin' = bin
        /\ bin[t].mtime \in Nat /\ bin[t].mtime <= now
    BY <1>3, <1>4 DEF Shape, disk
  <2>5. failed' \in BOOLEAN /\ failed' = failed
    BY <1>3, <1>4 DEF Shape
  <2>6. /\ cache' \in [Sources \cup Outputs -> Nat \cup {NONE}]
        /\ \A f \in Sources \cup Outputs :
              \/ cache'[f] = cache[f]
              \/ f \in Outputs /\ job[f[1]] = "done" /\ cache'[f] = Mtime(f)
    BY <1>1, <1>3, <1>4, OutputsRemembered
  <2>7. UNCHANGED <<project, now, src, live, flags, obj, dep, rebuilt, settled>>
    BY <1>4 DEF disk
  <2> HIDE DEF Places
  <2> QED BY <1>4, <1>6, <2>1, <2>2, <2>3, <2>4, <2>5, <2>6, <2>7 DEF TargetMoves
<1>10. TargetOK(D, K, t)'
  <2>1. /\ job'[t] = "done" /\ project' = project /\ bdep' = bdep /\ flags' = flags
        /\ settled' = settled /\ now' = now /\ obj' = obj /\ bin' = bin
        /\ LinkFiles(t)' = LinkFiles(t) /\ LinkUnits(t)' = LinkUnits(t)
    BY <1>3, <1>4 DEF Shape, LinkFiles, LinkUnits, disk
  <2>2. \A l \in project.libs[t] : job[l] # "tool"
    BY <1>4
  <2>3. NoNewer(t)'
    BY <1>5, <2>1 DEF NoNewer
  <2>4. TargetCurrent(D, K, t)'
    BY <1>3, <1>5, <1>8, <2>1, <2>3 DEF TargetCurrent
  <2>5. IsMade(t, bin[t].made)'
    BY <1>7, <2>1 DEF OnDisk, IsMade
  <2>6. OnDisk(D, K, t)'
    BY <1>6, <1>7, <2>1, <2>2, <2>5 DEF OnDisk
  <2>7. "done" \notin Working
    BY PlaceFacts
  <2> QED BY <1>5, <2>1, <2>4, <2>6, <2>7 DEF TargetOK
<1> QED BY <1>3, <1>4, <1>9, <1>10, PlaceFacts, TargetStep

(* The linker starts.                                                      *)
LEMMA LinkBeginStep ==
    ASSUME Inv, NEW t \in Targets, LinkBegin(t)
    PROVE  Inv'
<1>1. MayLink(t)
  BY DEF LinkBegin
<1>2. PICK D, K : LinkKnows(D, K, t)
  BY <1>1, MayLinkKnows
<1>3. /\ Shape /\ Control /\ (\A u \in Units : UnitOK(u)) /\ D \subseteq Targets
      /\ Coherent(D, K) /\ \A s \in Targets : TargetOK(D, K, s)
      /\ t \in D /\ t \in Members
      /\ \A u \in LinkUnits(t) : UnitCurrent(u)
      /\ \A l \in project.libs[t] : bin[l].made = K[l] /\ bin[l].mtime # 0
  BY <1>2 DEF LinkKnows, Knows
<1>4. /\ job[t] = "wait" /\ ~failed
      /\ \A u \in LinkUnits(t) : job[u] = "done"
      /\ \A l \in project.libs[t] : job[l] = "done"
      /\ TargetChanged(t) /\ Remember(bdep[t], bin[t].mtime)
      /\ job' = [job EXCEPT ![t] = "tool"]
      /\ reads' = [reads EXCEPT ![t] = LinkInputs(t)]
      /\ UNCHANGED <<project, now, src, live, flags, obj, dep, bdep, rebuilt, failed, settled>>
  BY DEF LinkBegin, MayLink
<1>5. PICK b \in {bin[t], NoFile, Torn} : bin' = [bin EXCEPT ![t] = b]
  BY DEF LinkBegin
<1>6. ~settled
  <2>1. ASSUME settled PROVE FALSE
    <3>1. TargetCurrent(D, K, t) /\ ~rebuilt
      BY <1>3, <2>1 DEF TargetOK, Control
    <3> QED BY <1>3, <1>4, <3>1, CurrentNotLinked DEF TargetCurrent
  <2> QED BY <2>1
<1>7. LinkInputs(t) = K[t]
  BY <1>3, ContentLinked
<1>8. TargetMoves(t, b, bdep[t], "tool", K[t], D, K)
  <2>1. /\ bdep[t] \in [mtime : Nat, files : Seq(Outputs), values : FlagLists \cup {NONE}]
        /\ bdep[t].mtime <= now /\ ToSet(bdep[t].files) \subseteq Linkable(t)
        /\ bdep' = [bdep EXCEPT ![t] = bdep[t]]
    BY <1>3, <1>4 DEF Shape, Control
  <2>2. "tool" \in Places \ {NONE} /\ "tool" \in Working
    BY PlaceFacts DEF Places, Working
  <2>3. /\ DOMAIN reads' = Units \cup Targets /\ reads'[t] = K[t]
        /\ \A x \in Units \cup Targets : x # t => reads'[x] = reads[x]
    BY <1>3, <1>4, <1>7 DEF Shape
  <2>4. b.mtime \in Nat /\ b.mtime <= now
    BY <1>3, <1>5 DEF Shape, NoFile, Torn
  <2>5. failed' \in BOOLEAN /\ failed' = failed
    BY <1>3, <1>4 DEF Shape
  <2>6. /\ cache' \in [Sources \cup Outputs -> Nat \cup {NONE}]
        /\ \A f \in Sources \cup Outputs :
              \/ cache'[f] = cache[f]
              \/ f \in Outputs /\ job[f[1]] = "done" /\ cache'[f] = Mtime(f)
    BY <1>1, <1>3, <1>4, OutputsRemembered
  <2>7. /\ DOMAIN bin' = Targets /\ bin'[t] = b
        /\ \A s \in Targets : s # t => bin'[s] = bin[s]
    BY <1>3, <1>5 DEF Shape
  <2> HIDE DEF Places
  <2> QED BY <1>4, <1>6, <2>1, <2>2, <2>3, <2>4, <2>5, <2>6, <2>7 DEF TargetMoves
<1>9. TargetOK(D, K, t)'
  <2>1. /\ job'[t] = "tool" /\ project' = project /\ bdep' = bdep /\ flags' = flags
        /\ settled' = settled /\ reads'[t] = K[t]
        /\ LinkFiles(t)' = LinkFiles(t) /\ LinkUnits(t)' = LinkUnits(t)
    BY <1>3, <1>4, <1>7 DEF Shape, LinkFiles, LinkUnits
  <2>2. \A u \in Units : UnitCurrent(u)' <=> UnitCurrent(u)
    BY <1>4 DEF UnitCurrent, Known, Inputs, UnitFiles
  <2>3. \A l \in project.libs[t] : bin'[l] = bin[l]
    BY <1>3, <1>4, <1>5, LinkFilesFacts DEF Shape, Members
  <2>4. LinkUnits(t) \subseteq Units
    BY <1>3, LinkFilesFacts
  <2>5. Ready(D, K, t)'
    BY <1>3, <2>1, <2>2, <2>3, <2>4 DEF Ready
  <2>6. "kill" \in project.may =>
          bdep[t].values = NONE \/ (bdep[t].values = flags /\ bdep[t].files = LinkFiles(t))
    BY <1>3 DEF TargetOK
  <2> QED BY <1>6, <2>1, <2>5, <2>6 DEF TargetOK
<1> QED BY <1>3, <1>4, <1>8, <1>9, PlaceFacts, TargetStep

(* What all steps of a linker that runs have in common.                    *)
Linking(D, K, t) ==
    /\ LinkKnows(D, K, t) /\ Ready(D, K, t) /\ ~settled
    /\ \A u \in LinkUnits(t) : job[u] = "done"
    /\ \A l \in project.libs[t] : job[l] = "done"
    /\ t \notin project.libs[t] /\ job[t] \notin {NONE, "done"}
    /\ bdep[t] \in [mtime : Nat, files : Seq(Outputs), values : FlagLists \cup {NONE}]
    /\ bdep[t].mtime <= now /\ ToSet(bdep[t].files) \subseteq Linkable(t)
    /\ bdep = [bdep EXCEPT ![t] = bdep[t]]
    /\ bin[t].mtime \in Nat /\ bin[t].mtime <= now /\ DOMAIN bin = Targets
    /\ now \in Nat \ {0}

(* What all steps of a linker that runs have in common.                    *)
LEMMA LinkerRuns ==
    ASSUME Inv, NEW t \in Targets, job[t] \in Working
    PROVE  \E D, K : Linking(D, K, t)
<1>1. PICK D, K : Knows(D, K)
  BY InvKnows
<1>2. /\ Shape /\ Control /\ TargetOK(D, K, t)
  BY <1>1 DEF Knows
<1>3. Ready(D, K, t)
  BY <1>2 DEF TargetOK
<1>4. job[t] \notin {NONE, "done"}
  BY PlaceFacts
<1>5. t \in Members /\ ~settled
  BY <1>2, <1>4 DEF Control, Building
<1>6. /\ \A u \in LinkUnits(t) : job[u] = "done"
      /\ \A l \in project.libs[t] : job[l] = "done"
  BY <1>2, <1>5 DEF Control
<1>7. LinkKnows(D, K, t)
  BY <1>1, <1>3, <1>5 DEF LinkKnows, Ready
<1>8. /\ bdep[t] \in [mtime : Nat, files : Seq(Outputs), values : FlagLists \cup {NONE}]
      /\ bdep[t].mtime <= now /\ ToSet(bdep[t].files) \subseteq Linkable(t)
      /\ bdep = [bdep EXCEPT ![t] = bdep[t]]
      /\ bin[t].mtime \in Nat /\ bin[t].mtime <= now /\ DOMAIN bin = Targets
      /\ now \in Nat \ {0}
  BY <1>2, BoundAssumption DEF Shape, Control
<1> QED BY <1>3, <1>4, <1>5, <1>6, <1>7, <1>8 DEF Linking

(* What does not change for a target while it is linked.                   *)
LEMMA LinkerFrame ==
    ASSUME NEW t \in Targets, Shape, t \notin project.libs[t],
           UNCHANGED <<project, now, src, live, flags, obj, dep, settled>>,
           \A s \in Targets : s # t => bin'[s] = bin[s]
    PROVE  /\ LinkUnits(t)' = LinkUnits(t) /\ LinkFiles(t)' = LinkFiles(t)
           /\ Members' = Members
           /\ \A u \in LinkUnits(t) : UnitCurrent(u)' <=> UnitCurrent(u)
           /\ \A l \in project.libs[t] : bin'[l] = bin[l]
<1>1. \A u \in Units : UnitCurrent(u)' <=> UnitCurrent(u)
  BY DEF UnitCurrent, Known, Inputs, UnitFiles
<1>2. \A l \in project.libs[t] : bin'[l] = bin[l]
  BY LinkFilesFacts DEF Members
<1>3. LinkUnits(t)' = LinkUnits(t) /\ LinkFiles(t)' = LinkFiles(t) /\ Members' = Members
  BY DEF LinkFiles, LinkUnits, Members
<1> QED BY <1>1, <1>2, <1>3, LinkFilesFacts

(* The linker ends.                                                        *)
LEMMA LinkEndStep ==
    ASSUME Inv, NEW t \in Targets, LinkEnd(t)
    PROVE  Inv'
<1>1. /\ job[t] = "tool" /\ job[t] \in Working
      /\ bin' = [bin EXCEPT ![t] = [mtime |-> now, made |-> reads[t]]]
      /\ job' = [job EXCEPT ![t] = "save"]
      /\ UNCHANGED <<project, now, src, live, flags, obj, dep, bdep, reads, rebuilt,
                     failed, cache, settled>>
  BY DEF LinkEnd, Working
<1>2. PICK D, K : Linking(D, K, t)
  BY <1>1, LinkerRuns
<1>3. /\ Shape /\ Control /\ (\A u \in Units : UnitOK(u)) /\ D \subseteq Targets
      /\ Coherent(D, K) /\ \A s \in Targets : TargetOK(D, K, s)
      /\ t \in D /\ t \in Members
      /\ \A u \in LinkUnits(t) : UnitCurrent(u)
      /\ \A l \in project.libs[t] : bin[l].made = K[l] /\ bin[l].mtime # 0
  BY <1>2 DEF Linking, LinkKnows, Knows
<1>4. PICK b : b = [mtime |-> now, made |-> K[t]]
  OBVIOUS
<1>5. /\ bin'[t] = b /\ DOMAIN bin' = Targets
      /\ \A s \in Targets : s # t => bin'[s] = bin[s]
      /\ b.mtime = now /\ b.made = K[t] /\ reads[t] = K[t]
  BY <1>1, <1>2, <1>4 DEF Ready, Linking
<1>6. TargetMoves(t, b, bdep[t], "save", K[t], D, K)
  <2>1. "save" \in Places \ {NONE} /\ "save" \in Working
    BY PlaceFacts DEF Places, Working
  <2>2. /\ DOMAIN reads' = Units \cup Targets /\ reads'[t] = K[t]
        /\ \A x \in Units \cup Targets : x # t => reads'[x] = reads[x]
    BY <1>1, <1>3, <1>5 DEF Shape
  <2>3. b.mtime \in Nat /\ b.mtime <= now
    BY <1>2, <1>5 DEF Linking
  <2>4. failed' \in BOOLEAN /\ failed' = failed
    BY <1>1, <1>3 DEF Shape
  <2>5. bdep' = [bdep EXCEPT ![t] = bdep[t]]
    BY <1>1, <1>2 DEF Linking
  <2> HIDE DEF Places
  <2> QED BY <1>1, <1>2, <1>3, <1>5, <2>1, <2>2, <2>3, <2>4, <2>5, OutputCacheSame DEF TargetMoves, Linking
<1>7. TargetOK(D, K, t)'
  <2>1. /\ job'[t] = "save" /\ project' = project /\ bdep' = bdep /\ flags' = flags
        /\ settled' = settled /\ reads'[t] = K[t] /\ obj' = obj /\ now' = now
        /\ "save" \in Working
    BY <1>1, <1>3, <1>5 DEF Shape, Working
  <2>2. /\ LinkUnits(t)' = LinkUnits(t) /\ LinkFiles(t)' = LinkFiles(t)
        /\ \A u \in LinkUnits(t) : UnitCurrent(u)' <=> UnitCurrent(u)
        /\ \A l \in project.libs[t] : bin'[l] = bin[l]
    BY <1>1, <1>2, <1>3, <1>5, LinkerFrame DEF Linking
  <2>3. Ready(D, K, t)'
    BY <1>3, <2>1, <2>2 DEF Ready
  <2>4. LinkUnits(t) \subseteq Units /\ project.libs[t] \subseteq Targets
    BY <1>3, LinkFilesFacts DEF Members
  <2>5. NoNewer(t)'
    <3>1. \A u \in LinkUnits(t) : obj[u].mtime \in 1..now
      BY <1>2, <1>3, <2>4 DEF UnitCurrent, Known, Shape, Linking
    <3>2. \A l \in project.libs[t] : bin[l].mtime \in 1..now
      BY <1>2, <1>3, <2>4 DEF Shape, Linking
    <3> QED BY <1>2, <1>5, <2>1, <2>2, <3>1, <3>2 DEF NoNewer, Linking
  <2>6. K[t] = Content(t, K)
    BY <1>3 DEF Coherent
  <2>7. OnDisk(D, K, t)'
    <3>1. /\ K[t].objs = [u \in LinkUnits(t) |-> Inputs(u)]
          /\ K[t].libs = [l \in project.libs[t] |-> K[l]]
          /\ K[t] = [objs |-> K[t].objs, libs |-> K[t].libs, flags |-> K[t].flags]
      BY <2>6 DEF Content
    <3>2. IsMade(t, K[t])'
      <4>1. DOMAIN K[t].objs = LinkUnits(t) /\ LinkUnits(t) \subseteq project.units[t]
        BY <3>1 DEF LinkUnits
      <4> QED BY <2>1, <3>1, <4>1 DEF IsMade
    <3>3. \A u \in LinkUnits(t) : K[t].objs[u] = obj[u].made
      BY <1>3, <3>1 DEF UnitCurrent
    <3>4. \A l \in project.libs[t] : K[t].libs[l] = bin[l].made
      BY <1>3, <3>1
    <3> QED BY <1>3, <1>5, <2>1, <2>2, <3>1, <3>2, <3>3, <3>4 DEF OnDisk
  <2>8. "kill" \in project.may =>
          bdep[t].values = NONE \/ (bdep[t].values = flags /\ bdep[t].files = LinkFiles(t))
    BY <1>3 DEF TargetOK
  <2> QED BY <1>2, <1>5, <2>1, <2>2, <2>3, <2>5, <2>7, <2>8 DEF TargetOK, Linking
<1> QED BY <1>2, <1>3, <1>6, <1>7, TargetStep DEF Linking

(* The linker fails and leaves no target file.                             *)
LEMMA LinkFailStep ==
    ASSUME Inv, NEW t \in Targets, LinkFail(t)
    PROVE  Inv'
<1>1. /\ job[t] = "tool" /\ job[t] \in Working
      /\ bin' = [bin EXCEPT ![t] = NoFile]
      /\ job' = [job EXCEPT ![t] = "done"]
      /\ reads' = [reads EXCEPT ![t] = NONE]
      /\ failed' = TRUE
      /\ UNCHANGED <<project, now, src, live, flags, obj, dep, bdep, rebuilt, cache, settled>>
  BY DEF LinkFail, Working
<1>2. PICK D, K : Linking(D, K, t)
  BY <1>1, LinkerRuns
<1>3. /\ Shape /\ Control /\ (\A u \in Units : UnitOK(u)) /\ D \subseteq Targets
      /\ Coherent(D, K) /\ \A s \in Targets : TargetOK(D, K, s)
  BY <1>2 DEF Linking, LinkKnows, Knows
<1>4. /\ DOMAIN bin' = Targets /\ bin'[t] = NoFile /\ NoFile.mtime = 0
      /\ \A s \in Targets : s # t => bin'[s] = bin[s]
      /\ NoFile.mtime \in Nat /\ NoFile.mtime <= now
  BY <1>1, <1>2 DEF NoFile, Linking
<1>5. TargetMoves(t, NoFile, bdep[t], "done", NONE, D, K)
  <2>1. "done" \in Places \ {NONE} /\ "done" \notin Working
    BY PlaceFacts DEF Places
  <2>2. /\ DOMAIN reads' = Units \cup Targets /\ reads'[t] = NONE
        /\ \A x \in Units \cup Targets : x # t => reads'[x] = reads[x]
    BY <1>1, <1>3 DEF Shape
  <2>3. bdep' = [bdep EXCEPT ![t] = bdep[t]]
    BY <1>1, <1>2 DEF Linking
  <2> HIDE DEF Places
  <2> QED BY <1>1, <1>2, <1>3, <1>4, <2>1, <2>2, <2>3, OutputCacheSame DEF TargetMoves, Linking
<1>6. TargetOK(D, K, t)'
  <2>1. /\ job'[t] = "done" /\ project' = project /\ bdep' = bdep /\ flags' = flags
        /\ settled' = settled /\ "done" \notin Working
    BY <1>1, <1>3, PlaceFacts DEF Shape
  <2>2. LinkFiles(t)' = LinkFiles(t)
    BY <1>1 DEF LinkFiles, LinkUnits
  <2>3. "kill" \in project.may =>
          bdep[t].values = NONE \/ (bdep[t].values = flags /\ bdep[t].files = LinkFiles(t))
    BY <1>3 DEF TargetOK
  <2> QED BY <1>1, <1>2, <1>4, <2>1, <2>2, <2>3 DEF TargetOK, Linking
<1> QED BY <1>2, <1>3, <1>5, <1>6, TargetStep DEF Linking

(* The depend file of a target is opened.                                  *)
LEMMA LinkSaveBeginStep ==
    ASSUME Inv, NEW t \in Targets, LinkSaveBegin(t)
    PROVE  Inv'
<1>1. /\ job[t] = "save" /\ job[t] \in Working
      /\ bdep' = [bdep EXCEPT ![t] = TornDepend]
      /\ job' = [job EXCEPT ![t] = "saving"]
      /\ UNCHANGED <<project, now, src, live, flags, obj, dep, bin, reads, rebuilt,
                     failed, cache, settled>>
  BY DEF LinkSaveBegin, Working
<1>2. PICK D, K : Linking(D, K, t)
  BY <1>1, LinkerRuns
<1>3. /\ Shape /\ Control /\ (\A u \in Units : UnitOK(u)) /\ D \subseteq Targets
      /\ Coherent(D, K) /\ \A s \in Targets : TargetOK(D, K, s)
      /\ reads[t] = K[t] /\ job[t] # "tool"
  BY <1>1, <1>2 DEF Linking, LinkKnows, Knows, Ready
<1>4. /\ TornDepend \in [mtime : Nat, files : Seq(Outputs), values : FlagLists \cup {NONE}]
      /\ TornDepend.mtime <= now /\ TornDepend.values = NONE
      /\ ToSet(TornDepend.files) \subseteq Linkable(t)
  <2>1. now \in Nat /\ now <= now /\ <<>> \in Seq(Outputs) /\ ToSet(<<>>) = {}
    BY <1>2, EmptySequence DEF Linking
  <2>2. TornDepend = [mtime |-> now, files |-> <<>>, values |-> NONE]
    BY DEF TornDepend, NoDepend
  <2> QED BY <2>1, <2>2
<1>5. TargetMoves(t, bin[t], TornDepend, "saving", K[t], D, K)
  <2>1. "saving" \in Places \ {NONE} /\ "saving" \in Working
    BY PlaceFacts DEF Places, Working
  <2>2. /\ DOMAIN reads' = Units \cup Targets /\ reads'[t] = K[t]
        /\ \A x \in Units \cup Targets : x # t => reads'[x] = reads[x]
        /\ failed' \in BOOLEAN /\ failed' = failed
    BY <1>1, <1>3 DEF Shape
  <2> HIDE DEF Places
  <2> QED BY <1>1, <1>2, <1>3, <1>4, <2>1, <2>2, OutputCacheSame DEF TargetMoves, Linking
<1>6. TargetOK(D, K, t)'
  <2>1. /\ job'[t] = "saving" /\ project' = project /\ bdep'[t] = TornDepend /\ flags' = flags
        /\ settled' = settled /\ reads'[t] = K[t] /\ obj' = obj /\ now' = now /\ bin' = bin
        /\ "saving" \in Working
    BY <1>1, <1>3 DEF Shape, Working
  <2>2. /\ LinkUnits(t)' = LinkUnits(t) /\ LinkFiles(t)' = LinkFiles(t)
        /\ \A u \in LinkUnits(t) : UnitCurrent(u)' <=> UnitCurrent(u)
    BY <1>1, <1>2, <1>3, LinkerFrame DEF Linking
  <2>3. Ready(D, K, t)'
    BY <1>2, <1>3, <2>1, <2>2 DEF Ready, Linking
  <2>4. bin[t].made = K[t] /\ NoNewer(t)
    BY <1>1, <1>3 DEF TargetOK
  <2>5. NoNewer(t)'
    BY <2>1, <2>2, <2>4 DEF NoNewer
  <2>6. OnDisk(D, K, t)'
    <3>1. OnDisk(D, K, t) /\ \A l \in project.libs[t] : job[l] = "done"
      BY <1>2, <1>3, <2>4 DEF TargetOK, NoNewer, Linking
    <3>2. IsMade(t, bin[t].made)'
      BY <2>1, <3>1 DEF OnDisk, IsMade
    <3> QED BY <1>4, <2>1, <3>1, <3>2 DEF OnDisk
  <2> QED BY <1>2, <1>4, <2>1, <2>2, <2>3, <2>4, <2>5, <2>6 DEF TargetOK, Linking
<1> QED BY <1>2, <1>3, <1>5, <1>6, TargetStep DEF Linking

(* The depend file of a target is written: the target is current.          *)
LEMMA LinkSaveEndStep ==
    ASSUME Inv, NEW t \in Targets, LinkSaveEnd(t)
    PROVE  Inv'
<1>1. /\ job[t] = "saving" /\ job[t] \in Working
      /\ bdep' = [bdep EXCEPT ![t] = [mtime |-> now, files |-> LinkFiles(t), values |-> flags]]
      /\ job' = [job EXCEPT ![t] = "done"]
      /\ reads' = [reads EXCEPT ![t] = NONE]
      /\ UNCHANGED <<project, now, src, live, flags, obj, dep, bin, rebuilt, failed,
                     cache, settled>>
  BY DEF LinkSaveEnd, Working
<1>2. PICK D, K : Linking(D, K, t)
  BY <1>1, LinkerRuns
<1>3. /\ Shape /\ Control /\ (\A u \in Units : UnitOK(u)) /\ D \subseteq Targets
      /\ Coherent(D, K) /\ \A s \in Targets : TargetOK(D, K, s)
      /\ t \in D /\ job[t] # "tool"
  BY <1>1, <1>2 DEF Linking, LinkKnows, Knows, Ready
<1>4. PICK d : d = [mtime |-> now, files |-> LinkFiles(t), values |-> flags]
  OBVIOUS
<1>5. /\ d \in [mtime : Nat, files : Seq(Outputs), values : FlagLists \cup {NONE}]
      /\ d.mtime <= now /\ d.values = flags /\ d.files = LinkFiles(t)
      /\ ToSet(d.files) \subseteq Linkable(t)
  <2>1. now \in Nat /\ now <= now /\ flags \in FlagLists
    BY <1>2, <1>3 DEF Linking, Shape
  <2>2. LinkFiles(t) \in Seq(Outputs)
    BY <1>3, LinkFilesFacts
  <2>3. ToSet(LinkFiles(t)) \subseteq Linkable(t)
    BY <1>3, LinkFilesFacts DEF Linkable
  <2> QED BY <1>4, <2>1, <2>2, <2>3
<1>6. TargetMoves(t, bin[t], d, "done", NONE, D, K)
  <2>1. "done" \in Places \ {NONE} /\ "done" \notin Working
    BY PlaceFacts DEF Places
  <2>2. /\ DOMAIN reads' = Units \cup Targets /\ reads'[t] = NONE
        /\ \A x \in Units \cup Targets : x # t => reads'[x] = reads[x]
        /\ failed' \in BOOLEAN /\ failed' = failed
    BY <1>1, <1>3 DEF Shape
  <2>3. bdep' = [bdep EXCEPT ![t] = d]
    BY <1>1, <1>4
  <2>4. UNCHANGED <<project, now, src, live, flags, obj, dep, bin, rebuilt, settled>> /\ failed' = failed
    BY <1>1
  <2>5. /\ cache' \in [Sources \cup Outputs -> Nat \cup {NONE}]
        /\ \A f \in Sources \cup Outputs :
              \/ cache'[f] = cache[f]
              \/ f \in Outputs /\ job[f[1]] = "done" /\ cache'[f] = Mtime(f)
    BY <1>1, <1>3, OutputCacheSame
  <2>6. /\ DOMAIN bin' = Targets /\ bin' = bin /\ bin[t].mtime \in Nat /\ bin[t].mtime <= now
        /\ \A u \in LinkUnits(t) : job[u] = "done"
        /\ \A l \in project.libs[t] : job[l] = "done"
        /\ ~settled /\ job[t] # "tool" /\ job' = [job EXCEPT ![t] = "done"]
    BY <1>1, <1>2 DEF Linking
  <2> HIDE DEF Places
  <2> QED BY <1>5, <2>1, <2>2, <2>3, <2>4, <2>5, <2>6 DEF TargetMoves
<1>7. TargetOK(D, K, t)'
  <2>1. /\ job'[t] = "done" /\ project' = project /\ bdep'[t] = d /\ flags' = flags
        /\ settled' = settled /\ obj' = obj /\ now' = now /\ bin' = bin
        /\ "done" \notin Working
    BY <1>1, <1>3, <1>4, PlaceFacts DEF Shape
  <2>2. /\ LinkUnits(t)' = LinkUnits(t) /\ LinkFiles(t)' = LinkFiles(t)
    BY <1>1 DEF LinkUnits, LinkFiles
  <2>3. bin[t].made = K[t] /\ NoNewer(t)
    BY <1>1, <1>3 DEF TargetOK
  <2>4. NoNewer(t)'
    BY <2>1, <2>2, <2>3 DEF NoNewer
  <2>5. TargetCurrent(D, K, t)'
    BY <1>3, <1>5, <2>1, <2>2, <2>3, <2>4 DEF TargetCurrent
  <2>6. OnDisk(D, K, t)'
    <3>1. OnDisk(D, K, t) /\ \A l \in project.libs[t] : job[l] = "done"
      BY <1>2, <1>3, <2>3 DEF TargetOK, NoNewer, Linking
    <3>2. IsMade(t, bin[t].made)'
      BY <2>1, <3>1 DEF OnDisk, IsMade
    <3>3. bin[t].made.flags = flags /\ DOMAIN bin[t].made.objs = LinkUnits(t)
      <4>1. bin[t].made = Content(t, K)
        BY <1>3, <2>3 DEF Coherent
      <4> QED BY <4>1 DEF Content
    <3>4. ToSet(LinkFiles(t)) = {O(u) : u \in LinkUnits(t)} \cup {B(l) : l \in project.libs[t]}
      BY <1>3, LinkFilesFacts
    <3> QED BY <1>5, <2>1, <3>1, <3>2, <3>3, <3>4 DEF OnDisk
  <2> QED BY <1>2, <1>5, <2>1, <2>2, <2>5, <2>6 DEF TargetOK, Linking
<1> QED BY <1>2, <1>3, <1>6, <1>7, TargetStep DEF Linking

-----------------------------------------------------------------------------
(* A build starts.                                                         *)
LEMMA StartStep ==
    ASSUME Inv, NEW again \in BOOLEAN, Start(again)
    PROVE  Inv'
<1>1. PICK D, K : Knows(D, K)
  BY InvKnows
<1>2. /\ Shape /\ Control /\ (\A u \in Units : UnitOK(u)) /\ D \subseteq Targets
      /\ Coherent(D, K) /\ \A t \in Targets : TargetOK(D, K, t)
  BY <1>1 DEF Knows
<1>3. /\ \A x \in Units \cup Targets : job[x] = NONE
      /\ again => "rebuild" \in project.may
      /\ rebuilt' = again /\ settled' = (settled /\ ~again)
      /\ UNCHANGED <<project, now, src, live, flags, obj, dep, bin, bdep, reads, failed, cache>>
      /\ ~failed /\ cache = Empty
  BY <1>2 DEF Start, Building, disk, Control
<1>4. /\ \A x \in Members : job'[x] = "before"
      /\ \A x \in Targets \ Members : job'[x] = "done"
      /\ \A x \in Units : job'[x] = IF x \in live THEN "wait" ELSE "done"
      /\ job' \in [Units \cup Targets -> {"before", "wait", "done"}]
  <2>1. job' = [x \in Units \cup Targets |->
                   IF x \in Members THEN "before"
                   ELSE IF x \in live THEN "wait" ELSE "done"]
    BY DEF Start
  <2>2. Members \subseteq Targets /\ live \subseteq Units /\ Units \cap Targets = {}
    BY <1>2, NameAssumption DEF Members, Shape
  <2> QED BY <2>1, <2>2
<1>5. /\ \A x \in Units \cup Targets : job'[x] \notin Working /\ job'[x] # NONE /\ job'[x] # "tool"
      /\ \A x \in Units \cup Targets : job[x] \notin Working /\ job[x] # "tool" /\ job[x] # "done"
  BY <1>3, <1>4, PlaceFacts DEF Working
<1>6. Members' = Members /\ Building' => \A x \in Units \cup Targets : job'[x] # NONE
  BY <1>5
<1>7. Members' = Members
  BY <1>3 DEF Members
<1>8. Shape'
  BY <1>2, <1>3, <1>4, <1>5 DEF Shape
<1>9. Control'
  <2>1. /\ ~Building' => ~failed' /\ cache' = Empty
        /\ Building' => /\ \A x \in Units \cup Targets : job'[x] # NONE
                        /\ \A u \in Units \ live' : job'[u] = "done"
                        /\ \A t \in Targets \ Members' : job'[t] = "done"
        /\ \A u \in Units : job'[u] # "before"
    BY <1>3, <1>4, <1>5, <1>7
  <2>2. /\ \A t \in Members' : project'.units[t] \cap live' # {}
        /\ \A t \in Targets : ToSet(bdep'[t].files) \subseteq Linkable(t)'
        /\ rebuilt' => "rebuild" \in project'.may
    BY <1>2, <1>3, <1>7 DEF Control, Linkable
  <2>3. settled' => ~rebuilt' /\ ~failed' /\ \A x \in Units \cup Targets : job'[x] \notin Working
    BY <1>2, <1>3, <1>5
  <2>4. \A t \in Members' : job'[t] \notin Working \cup {"done"}
    BY <1>4, <1>7, PlaceFacts
  <2>5. \A f \in Sources \cup Outputs : cache'[f] = NONE
    BY <1>3 DEF Empty
  <2> QED BY <2>1, <2>2, <2>3, <2>4, <2>5 DEF Control, Empty
<1>10. ASSUME NEW u \in Units PROVE UnitOK(u)'
  <2>1. UnitOK(u) /\ (settled' => settled)
    BY <1>2, <1>3
  <2>2. /\ UnitFiles(u)' = UnitFiles(u) /\ Inputs(u)' = Inputs(u)
        /\ (Known(u)' <=> Known(u)) /\ (Stale(u)' <=> Stale(u))
        /\ (UnitCurrent(u)' <=> UnitCurrent(u))
    BY <1>3 DEF UnitFiles, Inputs, Known, Stale, UnitCurrent
  <2>3. /\ job[u] \notin Working /\ job'[u] \notin Working
        /\ u \in live => job'[u] # "done"
    BY <1>4, <1>5
  <2> HIDE DEF Known, Stale, UnitCurrent, Inputs, UnitFiles
  <2> QED BY <1>3, <2>1, <2>2, <2>3 DEF UnitOK, Working
<1>11. ASSUME NEW t \in Targets PROVE TargetOK(D, K, t)'
  <2>1. TargetOK(D, K, t) /\ (settled' => settled)
    BY <1>2, <1>3
  <2>2. /\ LinkFiles(t)' = LinkFiles(t) /\ (NoNewer(t)' <=> NoNewer(t))
        /\ (IsMade(t, bin[t].made)' <=> IsMade(t, bin[t].made))
    BY <1>3 DEF LinkFiles, LinkUnits, NoNewer, IsMade
  <2>3. /\ job[t] \notin Working /\ job'[t] \notin Working
        /\ job[t] # "tool" /\ job'[t] # "tool"
        /\ \A l \in project.libs[t] : job[l] # "tool" /\ job'[l] # "tool"
        /\ t \in Members => job'[t] # "done"
    BY <1>2, <1>4, <1>5, LinkFilesFacts DEF Members
  <2>4. OnDisk(D, K, t) => OnDisk(D, K, t)'
    BY <1>3, <2>2, <2>3 DEF OnDisk
  <2>5. TargetCurrent(D, K, t) => TargetCurrent(D, K, t)'
    BY <1>3, <2>2 DEF TargetCurrent
  <2> HIDE DEF LinkFiles
  <2> QED BY <1>3, <1>7, <2>1, <2>2, <2>3, <2>4, <2>5 DEF TargetOK, Working
<1>12. Coherent(D, K)'
  <2>1. \A s \in Targets : Content(s, K)' = Content(s, K)
    BY <1>3 DEF Content, LinkUnits, Inputs
  <2> HIDE DEF Content
  <2> QED BY <1>2, <1>3, <2>1 DEF Coherent
<1> QED BY <1>2, <1>8, <1>9, <1>10, <1>11, <1>12 DEF Inv, LinkInv

(* The process ends or is killed.  What a compiler that is killed leaves   *)
(* behind is compiled again (Stale).                                       *)
LEMMA ResetStep ==
    ASSUME Inv, Reset, UNCHANGED <<project, now, disk>>, settled' \in BOOLEAN,
           Recoverable(project), Building,
           \A t \in Targets : job[t] # "tool",
           \A x \in Units \cup Targets : job[x] \in Working => "kill" \in project.may,
           settled' => settled \/ (~failed /\ \A x \in Units \cup Targets : job[x] = "done")
    PROVE  Inv'
<1>1. PICK D, K : Knows(D, K)
  BY InvKnows
<1>2. /\ Shape /\ Control /\ (\A u \in Units : UnitOK(u)) /\ D \subseteq Targets
      /\ Coherent(D, K) /\ \A t \in Targets : TargetOK(D, K, t)
  BY <1>1 DEF Knows
<1>3. /\ job' = [x \in Units \cup Targets |-> NONE]
      /\ reads' = [x \in Units \cup Targets |-> NONE]
      /\ rebuilt' = FALSE /\ failed' = FALSE /\ cache' = Empty
      /\ UNCHANGED <<project, now, src, live, flags, obj, dep, bin, bdep>>
  BY DEF Reset, Idle, disk
<1>4. \A x \in Units \cup Targets : job'[x] = NONE /\ job'[x] \notin Working /\ reads'[x] = NONE
  BY <1>3, PlaceFacts
<1>5. Members' = Members /\ ~Building'
  BY <1>3, <1>4 DEF Members, Building
<1>6. cache' \in [Sources \cup Outputs -> Nat \cup {NONE}]
  BY <1>3 DEF Empty
<1>7. Shape'
  <2>1. job' \in [Units \cup Targets -> {NONE, "before", "wait", "tool", "save", "saving", "done"}]
    BY <1>3
  <2> QED BY <1>2, <1>3, <1>4, <1>6, <2>1 DEF Shape
<1>8. Control'
  <2>1. /\ \A t \in Members' : project'.units[t] \cap live' # {}
        /\ \A t \in Targets : ToSet(bdep'[t].files) \subseteq Linkable(t)'
    BY <1>2, <1>3, <1>5 DEF Control, Linkable
  <2>2. \A t \in Members' : job'[t] \notin Working \cup {"done"}
    BY <1>4, <1>5, PlaceFacts DEF Members
  <2>3. \A f \in Sources \cup Outputs : cache'[f] = NONE
    BY <1>3 DEF Empty
  <2>4. \A u \in Units : job'[u] # "before"
    BY <1>4, PlaceFacts
  <2>5. Empty' = Empty
    BY DEF Empty
  <2> HIDE DEF Empty
  <2> QED BY <1>3, <1>4, <1>5, <2>1, <2>2, <2>3, <2>4, <2>5 DEF Control
<1>9. ASSUME NEW u \in Units PROVE UnitOK(u)'
  <2>1. UnitOK(u)
    BY <1>2
  <2>2. /\ UnitFiles(u)' = UnitFiles(u) /\ Inputs(u)' = Inputs(u)
        /\ (Known(u)' <=> Known(u)) /\ (Stale(u)' <=> Stale(u))
        /\ (UnitCurrent(u)' <=> UnitCurrent(u))
    BY <1>3 DEF UnitFiles, Inputs, Known, Stale, UnitCurrent
  <2>3. job[u] \in Working => ~Known(u)
    <3>1. ASSUME job[u] \in Working PROVE Stale(u)
      <4>1. "kill" \in project.may
        BY <3>1
      <4>2. job[u] = "saving" => dep[u].values = NONE
        BY <2>1 DEF UnitOK
      <4>3. job[u] \in {"tool", "save"} => Stale(u)
        BY <2>1, <4>1 DEF UnitOK
      <4> QED BY <3>1, <4>2, <4>3 DEF Stale, Working
    <3>2. Stale(u) => ~Known(u)
      <4>1. ToSet(UnitFiles(u)) \subseteq Sources
        BY UnitFilesFacts, LenProperties DEF ToSet
      <4> QED BY <1>2, <4>1 DEF Stale, Known, Shape
    <3> QED BY <3>1, <3>2
  <2>4. job'[u] \notin Working /\ job'[u] # "done" /\ job'[u] \notin {"tool", "save", "saving"}
    BY <1>4, PlaceFacts
  <2>5. u \in live /\ settled' => UnitCurrent(u)
    BY <2>1 DEF UnitOK
  <2> HIDE DEF Known, Stale, UnitCurrent, Inputs, UnitFiles
  <2> QED BY <1>3, <2>1, <2>2, <2>3, <2>4, <2>5 DEF UnitOK
<1>10. ASSUME NEW t \in Targets PROVE TargetOK(D, K, t)'
  <2>1. TargetOK(D, K, t)
    BY <1>2
  <2>2. /\ LinkFiles(t)' = LinkFiles(t) /\ (NoNewer(t)' <=> NoNewer(t))
        /\ (IsMade(t, bin[t].made)' <=> IsMade(t, bin[t].made))
    BY <1>3 DEF LinkFiles, LinkUnits, NoNewer, IsMade
  <2>3. /\ job[t] # "tool" /\ \A l \in project.libs[t] : job[l] # "tool"
        /\ project.libs[t] \subseteq Targets
    BY <1>2, LinkFilesFacts DEF Members
  <2>4. /\ job'[t] \notin Working /\ job'[t] # "done" /\ job'[t] \notin {"tool", "save", "saving"}
    BY <1>4, PlaceFacts
  <2>5. ASSUME job[t] \in Working, bdep[t].values # NONE
        PROVE  /\ bin[t].made.flags = bdep[t].values
               /\ ToSet(bdep[t].files) =
                     {O(u) : u \in DOMAIN bin[t].made.objs} \cup {B(l) : l \in project.libs[t]}
    <3>1. bdep[t].values = flags /\ bdep[t].files = LinkFiles(t)
      BY <2>1, <2>5 DEF TargetOK
    <3>2. bin[t].made = K[t] /\ t \in D
      BY <2>1, <2>3, <2>5 DEF TargetOK, Ready, Working
    <3>3. bin[t].made = Content(t, K)
      BY <1>2, <3>2 DEF Coherent
    <3>4. bin[t].made.flags = flags /\ DOMAIN bin[t].made.objs = LinkUnits(t)
      BY <3>3 DEF Content
    <3> QED BY <1>2, <3>1, <3>4, LinkFilesFacts
  <2>6. OnDisk(D, K, t) => OnDisk(D, K, t)'
    BY <1>3, <2>2, <2>3, <2>5 DEF OnDisk
  <2>7. ASSUME t \in Members', settled' PROVE TargetCurrent(D, K, t)'
    <3>1. TargetCurrent(D, K, t)
      BY <1>5, <2>1, <2>7 DEF TargetOK
    <3> QED BY <1>3, <2>2, <3>1 DEF TargetCurrent
  <2> HIDE DEF LinkFiles
  <2> QED BY <1>3, <2>1, <2>2, <2>3, <2>4, <2>6, <2>7 DEF TargetOK
<1>11. Coherent(D, K)'
  <2>1. \A s \in Targets : Content(s, K)' = Content(s, K)
    BY <1>3 DEF Content, LinkUnits, Inputs
  <2> HIDE DEF Content
  <2> QED BY <1>2, <1>3, <2>1 DEF Coherent
<1> QED BY <1>2, <1>7, <1>8, <1>9, <1>10, <1>11 DEF Inv, LinkInv

(* A build ends: every job is done, or one has failed and the others have  *)
(* not started.                                                            *)
LEMMA FinishStep ==
    ASSUME Inv, Recoverable(project), Finish
    PROVE  Inv'
<1>1. /\ Building /\ Reset /\ settled' = ~failed /\ UNCHANGED <<project, now, disk>>
      /\ \A x \in Units \cup Targets :
            job[x] = "done" \/ (failed /\ job[x] \in {"before", "wait"})
  BY DEF Finish
<1>2. \A x \in Units \cup Targets : job[x] \notin Working /\ job[x] # "tool"
  BY <1>1, PlaceFacts
<1>3. settled' \in BOOLEAN
  BY <1>1
<1>4. settled' => ~failed /\ \A x \in Units \cup Targets : job[x] = "done"
  BY <1>1
<1>5. /\ \A t \in Targets : job[t] # "tool"
      /\ \A x \in Units \cup Targets : job[x] \in Working => "kill" \in project.may
  BY <1>2
<1> QED BY <1>1, <1>3, <1>4, <1>5, ResetStep

(* A build is killed.                                                      *)
LEMMA KillStep ==
    ASSUME Inv, Recoverable(project), Kill
    PROVE  Inv'
<1>1. /\ Building /\ Reset /\ settled' = settled /\ UNCHANGED <<project, now, disk>>
      /\ "kill" \in project.may
      /\ "killlink" \in project.may \/ \A t \in Targets : job[t] # "tool"
  BY DEF Kill
<1>2. "killlink" \notin project.may
  BY <1>1 DEF Recoverable
<1>3. settled' \in BOOLEAN
  BY <1>1 DEF Inv, Shape
<1> QED BY <1>1, <1>2, <1>3, ResetStep

(* Time passes: no target has been linked in the new second.               *)
LEMMA TickStep ==
    ASSUME Inv, Tick
    PROVE  Inv'
<1>1. PICK D, K : Knows(D, K)
  BY InvKnows
<1>2. /\ Shape /\ Control /\ (\A u \in Units : UnitOK(u)) /\ D \subseteq Targets
      /\ Coherent(D, K) /\ \A t \in Targets : TargetOK(D, K, t)
  BY <1>1 DEF Knows
<1>3. /\ now < MaxTime /\ now' = now + 1 /\ now \in Nat /\ MaxTime \in Nat
      /\ UNCHANGED <<project, src, live, flags, obj, dep, bin, bdep, job, reads,
                     rebuilt, failed, cache, settled>>
  BY <1>2, BoundAssumption DEF Tick, disk, build, Shape
<1>4. Shape'
  <2>1. now' \in 1..MaxTime
    BY <1>3
  <2>2. \A f \in Sources : src'[f] <= now'
    BY <1>2, <1>3 DEF Shape
  <2>3. \A u \in Units : obj'[u].mtime <= now' /\ dep'[u].mtime <= now'
    BY <1>2, <1>3 DEF Shape
  <2>4. \A t \in Targets : bin'[t].mtime <= now' /\ bdep'[t].mtime <= now'
    BY <1>2, <1>3 DEF Shape
  <2> QED BY <1>2, <1>3, <2>1, <2>2, <2>3, <2>4 DEF Shape
<1>5. Control'
  <2>1. /\ Building' <=> Building
        /\ Members' = Members
        /\ \A t \in Targets : LinkUnits(t)' = LinkUnits(t) /\ Linkable(t)' = Linkable(t)
        /\ \A f \in Sources \cup Outputs : Mtime(f)' = Mtime(f)
    BY <1>3 DEF Building, Members, LinkUnits, Linkable, Mtime
  <2> HIDE DEF Building, LinkUnits, Linkable, Mtime
  <2>2. \A t \in Members : LinkUnits(t)' = LinkUnits(t)
    BY <2>1 DEF Members
  <2> HIDE DEF Members
  <2> QED BY <1>2, <1>3, <2>1, <2>2 DEF Control
<1>6. ASSUME NEW u \in Units PROVE UnitOK(u)'
  BY <1>2, <1>3, UnitFrame
<1>7. ASSUME NEW t \in Targets PROVE TargetOK(D, K, t)'
  <2>1. /\ LinkFiles(t)' = LinkFiles(t) /\ (NoNewer(t)' <=> NoNewer(t))
        /\ (IsMade(t, bin[t].made)' <=> IsMade(t, bin[t].made))
        /\ Members' = Members
        /\ (Ready(D, K, t)' <=> Ready(D, K, t))
    BY <1>3 DEF LinkFiles, LinkUnits, NoNewer, IsMade, Members, Ready, UnitCurrent,
                Known, Inputs, UnitFiles
  <2>2. bin[t].mtime # now'
    BY <1>2, <1>3 DEF Shape
  <2>3. OnDisk(D, K, t) => OnDisk(D, K, t)'
    BY <1>3, <2>1, <2>2 DEF OnDisk
  <2>4. TargetCurrent(D, K, t) => TargetCurrent(D, K, t)'
    BY <1>3, <2>1 DEF TargetCurrent
  <2> HIDE DEF LinkFiles
  <2> QED BY <1>2, <1>3, <2>1, <2>3, <2>4 DEF TargetOK
<1>8. Coherent(D, K)'
  <2>1. \A s \in Targets : Content(s, K)' = Content(s, K)
    BY <1>3 DEF Content, LinkUnits, Inputs
  <2> HIDE DEF Content
  <2> QED BY <1>2, <1>3, <2>1 DEF Coherent
<1> QED BY <1>2, <1>4, <1>5, <1>6, <1>7, <1>8 DEF Inv, LinkInv

-----------------------------------------------------------------------------
(* What the user does in a new second.  A file is edited or removed, never *)
(* made older.                                                             *)
UserMoves ==
    /\ \E what : UserActs(what)
    /\ dep' = dep /\ bdep' = bdep
    /\ src' \in [Sources -> Nat \ {0}]
    /\ \A f \in Sources : src'[f] = src[f] \/ src'[f] = now'
    /\ live' \subseteq Units
    /\ \A t \in Members : project.units[t] \cap live' # {}
    /\ flags' \in FlagLists
    /\ obj' \in [Units -> [mtime : Nat, made : Mades \cup {NONE}]]
    /\ \A u \in Units : obj'[u] = obj[u] \/ obj'[u].mtime = 0
    /\ DOMAIN bin' = Targets
    /\ \A t \in Targets : bin'[t] = bin[t] \/ bin'[t].mtime = 0
    /\ "kill" \in project.may =>
          obj' = obj /\ bin' = bin /\ flags' = flags /\ live' = live

(* It keeps the invariant.  No target is known to be up to date any more;  *)
(* a source that was edited is newer than every depend file.               *)
LEMMA UserStep ==
    ASSUME Inv, UserMoves
    PROVE  Inv'
<1>1. PICK D, K : Knows(D, K)
  BY InvKnows
<1>2. /\ Shape /\ Control /\ (\A u \in Units : UnitOK(u)) /\ D \subseteq Targets
      /\ Coherent(D, K) /\ \A t \in Targets : TargetOK(D, K, t)
  BY <1>1 DEF Knows
<1>3. /\ ~Building /\ now < MaxTime /\ now' = now + 1 /\ now \in Nat /\ MaxTime \in Nat
      /\ settled' = FALSE
      /\ UNCHANGED <<project, job, reads, rebuilt, failed, cache>>
  BY <1>2, BoundAssumption DEF UserMoves, UserActs, build, Shape
<1>4. \A x \in Units \cup Targets :
         job[x] = NONE /\ job[x] \notin Working /\ job[x] # "done" /\ job[x] # "tool"
         /\ job[x] # "saving"
  BY <1>3, PlaceFacts DEF Building
<1>5. /\ dep' = dep /\ bdep' = bdep
      /\ src' \in [Sources -> Nat \ {0}]
      /\ \A f \in Sources : src'[f] = src[f] \/ src'[f] = now'
      /\ live' \subseteq Units /\ flags' \in FlagLists
      /\ \A t \in Members : project.units[t] \cap live' # {}
      /\ obj' \in [Units -> [mtime : Nat, made : Mades \cup {NONE}]]
      /\ \A u \in Units : obj'[u] = obj[u] \/ obj'[u].mtime = 0
      /\ DOMAIN bin' = Targets
      /\ \A t \in Targets : bin'[t] = bin[t] \/ bin'[t].mtime = 0
      /\ "kill" \in project.may =>
            obj' = obj /\ bin' = bin /\ flags' = flags /\ live' = live
  BY DEF UserMoves
<1>6. Shape'
  <2>1. now' \in 1..MaxTime
    BY <1>3
  <2>2. \A f \in Sources : src'[f] <= now'
    <3>1. \A f \in Sources : src[f] \in Nat /\ src[f] <= now
      BY <1>2 DEF Shape
    <3> QED BY <1>3, <1>5, <3>1
  <2>3. ASSUME NEW u \in Units
        PROVE  obj'[u].mtime <= now' /\ dep'[u].mtime <= now'
    <3>1. obj[u].mtime \in Nat /\ obj[u].mtime <= now /\ dep[u].mtime \in Nat /\ dep[u].mtime <= now
      BY <1>2 DEF Shape
    <3>2. obj'[u].mtime <= now'
      BY <1>3, <1>5, <3>1
    <3> QED BY <1>3, <1>5, <3>1, <3>2
  <2>4. ASSUME NEW t \in Targets
        PROVE  bin'[t].mtime \in Nat /\ bin'[t].mtime <= now' /\ bdep'[t].mtime <= now'
    <3>1. /\ bin[t].mtime \in Nat /\ bin[t].mtime <= now
          /\ bdep[t].mtime \in Nat /\ bdep[t].mtime <= now
      BY <1>2 DEF Shape
    <3>2. bin'[t].mtime \in Nat /\ bin'[t].mtime <= now'
      BY <1>3, <1>5, <3>1
    <3> QED BY <1>3, <1>5, <3>1, <3>2
  <2> QED BY <1>2, <1>3, <1>5, <2>1, <2>2, <2>3, <2>4 DEF Shape
<1>7. Members' = Members /\ ~Building'
  BY <1>3 DEF Members, Building
<1>8. Control'
  <2>1. /\ \A t \in Members' : project'.units[t] \cap live' # {}
        /\ \A t \in Targets : ToSet(bdep'[t].files) \subseteq Linkable(t)'
        /\ ~failed' /\ cache' = Empty'
        /\ rebuilt' => "rebuild" \in project'.may
    BY <1>2, <1>3, <1>5, <1>7 DEF Control, Linkable, Empty
  <2>2. \A t \in Members' : job'[t] \notin Working \cup {"done"}
    BY <1>3, <1>4, <1>7 DEF Members
  <2>3. \A f \in Sources \cup Outputs : cache'[f] = NONE
    BY <2>1 DEF Empty
  <2>4. \A u \in Units : job'[u] # "before"
    BY <1>3, <1>4, PlaceFacts
  <2> HIDE DEF Empty
  <2> QED BY <1>3, <1>7, <2>1, <2>2, <2>3, <2>4 DEF Control
<1>9. ASSUME NEW u \in Units PROVE UnitOK(u)'
  <2>1. UnitOK(u)
    BY <1>2
  <2>2. UnitFiles(u)' = UnitFiles(u) /\ ToSet(UnitFiles(u)) \subseteq Sources
    BY UnitFilesFacts, LenProperties DEF UnitFiles, ToSet
  <2>3. dep[u].mtime \in Nat /\ dep[u].mtime < now'
    BY <1>2, <1>3 DEF Shape
  <2>4. ASSUME Known(u)'
        PROVE  obj'[u].made = [Inputs(u)' EXCEPT !.flags = dep'[u].values]
    <3>1. obj'[u] = obj[u] /\ obj[u].mtime # 0
      BY <1>5, <2>4 DEF Known, NoFile
    <3>2. \A f \in ToSet(UnitFiles(u)) : src'[f] = src[f] /\ src[f] <= dep[u].mtime
      <4>1. \A f \in ToSet(UnitFiles(u)) : src'[f] <= dep[u].mtime
        BY <1>5, <2>2, <2>4 DEF Known
      <4>2. \A f \in ToSet(UnitFiles(u)) : src'[f] = src[f] \/ src'[f] = now'
        BY <1>5, <2>2
      <4>3. ~(now' <= dep[u].mtime)
        BY <1>3, <2>3
      <4> QED BY <4>1, <4>2, <4>3
    <3>3. Known(u)
      BY <1>5, <2>2, <2>4, <3>1, <3>2 DEF Known
    <3>4. obj[u].made = [Inputs(u) EXCEPT !.flags = dep[u].values]
      BY <1>4, <2>1, <3>3 DEF UnitOK
    <3>5. [Inputs(u)' EXCEPT !.flags = dep[u].values] =
          [Inputs(u) EXCEPT !.flags = dep[u].values]
      <4>1. [f \in ToSet(UnitFiles(u)) |-> src'[f]] = [f \in ToSet(UnitFiles(u)) |-> src[f]]
        BY <3>2
      <4>2. /\ Inputs(u) = [src |-> [f \in ToSet(UnitFiles(u)) |-> src[f]], flags |-> flags]
            /\ Inputs(u)' = [src |-> [f \in ToSet(UnitFiles(u)) |-> src'[f]], flags |-> flags']
        BY <2>2 DEF Inputs
      <4> HIDE DEF Inputs, UnitFiles
      <4> QED BY <4>1, <4>2
    <3> QED BY <1>5, <3>1, <3>4, <3>5
  <2>5. ASSUME Stale(u) PROVE Stale(u)'
    <3>1. CASE dep[u].values = NONE
      BY <1>5, <3>1 DEF Stale
    <3>2. CASE \E f \in ToSet(UnitFiles(u)) : src[f] > dep[u].mtime
      <4>1. PICK f \in ToSet(UnitFiles(u)) : src[f] > dep[u].mtime
        BY <3>2
      <4>2. src'[f] > dep[u].mtime
        BY <1>3, <1>5, <2>2, <2>3, <4>1
      <4> QED BY <1>5, <2>2, <4>1, <4>2 DEF Stale
    <3> QED BY <2>5, <3>1, <3>2 DEF Stale
  <2>6. job'[u] \notin Working /\ job'[u] # "done" /\ job'[u] \notin {"tool", "save", "saving"}
    BY <1>3, <1>4, PlaceFacts
  <2> HIDE DEF Known, Stale, UnitCurrent, Inputs, UnitFiles
  <2>7. "kill" \in project'.may =>
          /\ dep'[u].values \in {NONE, flags'}
          /\ job'[u] \in {"tool", "save"} \/ obj'[u].mtime = 0 => Stale(u)'
    BY <1>3, <1>5, <2>1, <2>5, <2>6 DEF UnitOK
  <2> QED BY <1>3, <1>5, <2>1, <2>2, <2>4, <2>6, <2>7 DEF UnitOK
<1>10. ASSUME NEW t \in Targets PROVE TargetOK({}, K, t)'
  <2>1. TargetOK(D, K, t)
    BY <1>2
  <2>2. /\ job'[t] \notin Working /\ job'[t] # "done" /\ job'[t] \notin {"tool", "save", "saving"}
    BY <1>3, <1>4, PlaceFacts
  <2>3. ASSUME bin'[t].mtime # 0 PROVE OnDisk({}, K, t)'
    <3>1. bin'[t] = bin[t] /\ bin[t].mtime # 0
      BY <1>5, <2>3 DEF NoFile
    <3>2. OnDisk(D, K, t)
      BY <1>4, <2>1, <3>1 DEF TargetOK
    <3>3. bin'[t].mtime # now'
      BY <1>2, <1>3, <3>1 DEF Shape
    <3>4. /\ project.libs[t] \subseteq Targets /\ DOMAIN bin[t].made.objs \subseteq Units
      BY <1>2, <3>2, LinkFilesFacts DEF Members, OnDisk, IsMade
    <3>5. ASSUME NEW v \in DOMAIN bin[t].made.objs,
                 obj'[v].mtime \in 1..bin[t].mtime, obj'[v].made # NONE
          PROVE  bin[t].made.objs[v] = obj'[v].made
      <4>1. obj'[v] = obj[v]
        BY <1>5, <3>4, <3>5 DEF NoFile
      <4> QED BY <3>2, <3>5, <4>1 DEF OnDisk
    <3>6. ASSUME NEW l \in project.libs[t], bin'[l].mtime \in 1..bin[t].mtime
          PROVE  bin[t].made.libs[l] = bin'[l].made
      <4>1. bin'[l] = bin[l]
        BY <1>5, <3>4, <3>6 DEF NoFile
      <4> QED BY <1>4, <3>2, <3>4, <3>6, <4>1 DEF OnDisk
    <3>7. IsMade(t, bin[t].made)'
      BY <1>3, <3>1, <3>2 DEF OnDisk, IsMade
    <3>8. bdep[t].values # NONE =>
          /\ bin[t].made.flags = bdep[t].values
          /\ ToSet(bdep[t].files) = {O(u) : u \in DOMAIN bin[t].made.objs} \cup {B(l) : l \in project.libs[t]}
      BY <1>4, <3>2 DEF OnDisk
    <3> QED BY <1>3, <1>5, <3>1, <3>3, <3>5, <3>6, <3>7, <3>8 DEF OnDisk
  <2>4. "kill" \in project.may =>
          bdep'[t].values = NONE \/ (bdep'[t].values = flags' /\ bdep'[t].files = LinkFiles(t)')
    BY <1>3, <1>5, <2>1 DEF TargetOK, LinkFiles, LinkUnits
  <2> QED BY <1>3, <2>2, <2>3, <2>4 DEF TargetOK, Working
<1>11. Coherent({}, K)'
  BY DEF Coherent
<1> QED BY <1>6, <1>8, <1>9, <1>10, <1>11 DEF Inv, LinkInv

(* The user edits a source file or a header.                               *)
LEMMA EditStep ==
    ASSUME Inv, NEW f \in Sources, Edit(f)
    PROVE  Inv'
<1>1. Shape /\ Control
  BY DEF Inv
<1>2. /\ UserActs("edit") /\ now' = now + 1 /\ now \in Nat
      /\ src' = [src EXCEPT ![f] = now']
      /\ UNCHANGED <<project, live, flags, obj, dep, bin, bdep>>
  BY <1>1 DEF Edit, UserActs, Shape
<1>3. now' \in Nat \ {0}
  BY <1>2
<1>4. /\ src' \in [Sources -> Nat \ {0}]
      /\ \A g \in Sources : src'[g] = src[g] \/ src'[g] = now'
  <2>1. src \in [Sources -> Nat \ {0}]
    BY <1>1 DEF Shape
  <2> QED BY <1>2, <1>3, <2>1
<1>5. UserMoves
  BY <1>1, <1>2, <1>4 DEF UserMoves, Shape, Control
<1> QED BY <1>5, UserStep

(* When a build can be killed the user does nothing but edit.              *)
LEMMA OtherStep ==
    ASSUME Inv, Recoverable(project), NEW what \in {"flags", "sources", "remove"},
           UserActs(what), dep' = dep, bdep' = bdep, src' = src,
           live' \subseteq Units, flags' \in FlagLists,
           \A t \in Members : project.units[t] \cap live' # {},
           obj' \in [Units -> [mtime : Nat, made : Mades \cup {NONE}]],
           \A u \in Units : obj'[u] = obj[u] \/ obj'[u].mtime = 0,
           DOMAIN bin' = Targets,
           \A t \in Targets : bin'[t] = bin[t] \/ bin'[t].mtime = 0
    PROVE  Inv'
<1>1. "kill" \notin project.may
  BY DEF UserActs, Recoverable
<1>2. src' \in [Sources -> Nat \ {0}]
  BY DEF Inv, Shape
<1>3. UserMoves
  BY <1>1, <1>2 DEF UserMoves
<1> QED BY <1>3, UserStep

(* The user changes the flags.                                             *)
LEMMA SetFlagsStep ==
    ASSUME Inv, Recoverable(project), NEW l \in FlagLists, SetFlags(l)
    PROVE  Inv'
<1>1. /\ UserActs("flags") /\ flags' = l /\ project' = project
      /\ UNCHANGED <<src, live, obj, dep, bin, bdep>>
  BY DEF SetFlags, UserActs
<1> QED BY <1>1, OtherStep DEF Inv, Shape, Control

(* The user adds or removes source files of targets.                       *)
LEMMA SetSourcesStep ==
    ASSUME Inv, Recoverable(project), NEW set \in SUBSET Units, SetSources(set)
    PROVE  Inv'
<1>1. /\ UserActs("sources") /\ live' = set
      /\ \A t \in Members : project.units[t] \cap set # {}
      /\ UNCHANGED <<src, flags, obj, dep, bin, bdep>>
  BY DEF SetSources
<1> QED BY <1>1, OtherStep DEF Inv, Shape

(* The user removes an object.                                             *)
LEMMA RemoveObjectStep ==
    ASSUME Inv, Recoverable(project), NEW u \in Units, RemoveObject(u)
    PROVE  Inv'
<1>1. /\ UserActs("remove") /\ obj' = [obj EXCEPT ![u] = NoFile]
      /\ UNCHANGED <<src, live, flags, dep, bin, bdep>>
  BY DEF RemoveObject
<1>2. /\ obj' \in [Units -> [mtime : Nat, made : Mades \cup {NONE}]]
      /\ \A v \in Units : obj'[v] = obj[v] \/ obj'[v].mtime = 0
  BY <1>1 DEF Inv, Shape, NoFile
<1> QED BY <1>1, <1>2, OtherStep DEF Inv, Shape, Control

(* The user removes a target file.                                         *)
LEMMA RemoveTargetStep ==
    ASSUME Inv, Recoverable(project), NEW t \in Targets, RemoveTarget(t)
    PROVE  Inv'
<1>1. /\ UserActs("remove") /\ bin' = [bin EXCEPT ![t] = NoFile]
      /\ UNCHANGED <<src, live, flags, obj, dep, bdep>>
  BY DEF RemoveTarget
<1>2. /\ DOMAIN bin' = Targets
      /\ \A s \in Targets : bin'[s] = bin[s] \/ bin'[s].mtime = 0
  BY <1>1 DEF Inv, Shape, NoFile
<1> QED BY <1>1, <1>2, OtherStep DEF Inv, Shape, Control

-----------------------------------------------------------------------------
(* Nothing has been built yet.                                             *)
LEMMA InitInv ==
    ASSUME Init
    PROVE  Inv
<1>1. /\ project \in Projects /\ ProjectOK(project)
      /\ project.units \in [Targets -> SUBSET Units]
      /\ now = 1 /\ MaxTime \in Nat \ {0}
      /\ src = [f \in Sources |-> 1]
      /\ live = UNION {project.units[t] : t \in Targets}
      /\ flags \in FlagLists
      /\ obj = [u \in Units |-> NoFile] /\ dep = [u \in Units |-> NoDepend]
      /\ bin = [t \in Targets |-> NoFile] /\ bdep = [t \in Targets |-> NoDepend]
      /\ job = [x \in Units \cup Targets |-> NONE]
      /\ reads = [x \in Units \cup Targets |-> NONE]
      /\ rebuilt = FALSE /\ failed = FALSE /\ settled = FALSE /\ cache = Empty
  BY ProjectAssumption, BoundAssumption DEF Init, ProjectOK, Idle
<1>2. \A x \in Units \cup Targets :
         /\ job[x] = NONE /\ job[x] \notin Working /\ job[x] # "before" /\ job[x] # "done"
         /\ job[x] # "tool" /\ job[x] # "saving" /\ reads[x] = NONE
  BY <1>1, PlaceFacts
<1>3. ~Building
  BY <1>2 DEF Building
<1>4. Shape
  <2>1. /\ obj \in [Units -> [mtime : Nat, made : Mades \cup {NONE}]]
        /\ dep \in [Units -> [mtime : Nat, files : Seq(Sources), values : FlagLists \cup {NONE}]]
        /\ bdep \in [Targets -> [mtime : Nat, files : Seq(Outputs), values : FlagLists \cup {NONE}]]
    BY <1>1 DEF NoFile, NoDepend
  <2>2. /\ \A u \in Units : obj[u].mtime <= now /\ dep[u].mtime <= now
        /\ \A t \in Targets : /\ bin[t].mtime \in Nat /\ bin[t].mtime <= now
                              /\ bdep[t].mtime <= now
    BY <1>1 DEF NoFile, NoDepend
  <2>3. live \subseteq Units
    BY <1>1
  <2>4. /\ job \in [Units \cup Targets ->
                      {NONE, "before", "wait", "tool", "save", "saving", "done"}]
        /\ cache \in [Sources \cup Outputs -> Nat \cup {NONE}]
    BY <1>1 DEF Empty
  <2>5. now \in 1..MaxTime /\ src \in [Sources -> Nat \ {0}] /\ \A f \in Sources : src[f] <= now
    BY <1>1
  <2> QED BY <1>1, <1>2, <2>1, <2>2, <2>3, <2>4, <2>5 DEF Shape
<1>5. Control
  <2>1. \A t \in Members : project.units[t] \cap live # {}
    BY <1>1 DEF Members
  <2>2. ASSUME NEW t \in Targets PROVE ToSet(bdep[t].files) \subseteq Linkable(t)
    <3>1. bdep[t].files = << >>
      BY <1>1 DEF NoDepend
    <3> QED BY <3>1 DEF ToSet
  <2>3. \A t \in Members : job[t] \notin Working \cup {"done"}
    BY <1>2 DEF Members
  <2>4. \A f \in Sources \cup Outputs : cache[f] = NONE
    BY <1>1 DEF Empty
  <2> QED BY <1>1, <1>2, <1>3, <2>1, <2>2, <2>3, <2>4 DEF Control
<1>6. ASSUME NEW u \in Units PROVE UnitOK(u)
  <2>1. dep[u].values = NONE /\ obj[u].mtime = 0
    BY <1>1 DEF NoDepend, NoFile
  <2>2. job[u] \notin {"save", "saving"}
    BY <1>2 DEF Working
  <2> QED BY <1>1, <1>2, <2>1, <2>2 DEF UnitOK, Known, Stale
<1>7. ASSUME NEW t \in Targets PROVE TargetOK({}, project, t)
  <2>1. bdep[t].values = NONE /\ bin[t].mtime = 0
    BY <1>1 DEF NoDepend, NoFile
  <2>2. job[t] \notin {"save", "saving"}
    BY <1>2 DEF Working
  <2> QED BY <1>1, <1>2, <2>1, <2>2 DEF TargetOK
<1>8. Coherent({}, project)
  BY DEF Coherent
<1> QED BY <1>4, <1>5, <1>6, <1>7, <1>8 DEF Inv, LinkInv

(* Every step keeps the invariant.                                         *)
LEMMA NextInv ==
    ASSUME NoListExtended, \A p \in Projects : Recoverable(p), Inv, [Next]_vars
    PROVE  Inv'
<1>1. Recoverable(project)
  BY DEF Inv, Shape
<1>2. ASSUME NEW again \in BOOLEAN, Start(again) PROVE Inv'
  BY <1>2, StartStep
<1>3. ASSUME NEW u \in Units,
             \/ UpToDate(u) \/ CompileBegin(u) \/ CompileEnd(u) \/ CompileFail(u)
             \/ SaveBegin(u) \/ SaveEnd(u) \/ RemoveObject(u)
      PROVE  Inv'
  BY <1>1, <1>3, UpToDateStep, CompileBeginStep, CompileEndStep, CompileFailStep,
     SaveBeginStep, SaveEndStep, RemoveObjectStep
<1>4. ASSUME NEW t \in Targets,
             \/ Before(t) \/ LinkUpToDate(t) \/ LinkBegin(t) \/ LinkEnd(t)
             \/ LinkFail(t) \/ LinkSaveBegin(t) \/ LinkSaveEnd(t)
             \/ RemoveTarget(t)
      PROVE  Inv'
  BY <1>1, <1>4, BeforeStep, LinkUpToDateStep, LinkBeginStep, LinkEndStep,
     LinkFailStep, LinkSaveBeginStep, LinkSaveEndStep, RemoveTargetStep
<1>5. CASE Finish \/ Kill \/ Tick
  BY <1>1, <1>5, FinishStep, KillStep, TickStep
<1>6. ASSUME NEW f \in Sources, Edit(f) PROVE Inv'
  BY <1>6, EditStep
<1>7. ASSUME NEW l \in FlagLists, SetFlags(l) PROVE Inv'
  BY <1>1, <1>7, SetFlagsStep
<1>8. ASSUME NEW set \in SUBSET Units, SetSources(set) PROVE Inv'
  BY <1>1, <1>8, SetSourcesStep
<1>9. CASE UNCHANGED vars
  <2> USE <1>9 DEF vars, disk, build
  <2>1. /\ Shape' /\ Control'
    <3>1. Shape'
      BY DEF Inv, Shape
    <3>2. Control'
      BY DEF Inv, Control, Building, Members, LinkUnits, Linkable, Mtime, Empty
    <3> QED BY <3>1, <3>2
  <2>2. \A u \in Units : UnitOK(u)'
    BY UnitFrame DEF Inv
  <2>3. LinkInv'
    <3>1. PICK D, K : Coherent(D, K) /\ \A t \in Targets : TargetOK(D, K, t)
      BY InvKnows DEF Knows
    <3>2. ASSUME NEW t \in Targets PROVE TargetOK(D, K, t)'
      <4>1. /\ LinkFiles(t)' = LinkFiles(t) /\ Members' = Members
            /\ OnDisk(D, K, t)' = OnDisk(D, K, t)
            /\ NoNewer(t)' = NoNewer(t)
        BY DEF LinkFiles, LinkUnits, Members, OnDisk, IsMade, NoNewer
      <4>2. Ready(D, K, t)' = Ready(D, K, t)
        BY DEF Ready, LinkUnits, UnitCurrent, Known, Inputs, UnitFiles
      <4>3. TargetCurrent(D, K, t)' = TargetCurrent(D, K, t)
        BY <4>1 DEF TargetCurrent
      <4>4. TargetOK(D, K, t)
        BY <3>1
      <4> HIDE DEF LinkFiles, Members, OnDisk, NoNewer, Ready, TargetCurrent
      <4> QED BY <4>1, <4>2, <4>3, <4>4 DEF TargetOK
    <3>3. Coherent(D, K)'
      <4>1. \A t \in Targets : Content(t, K)' = Content(t, K)
        BY DEF Content, LinkUnits, Inputs
      <4> HIDE DEF Content
      <4> QED BY <3>1, <4>1 DEF Coherent
    <3> QED BY <3>1, <3>2, <3>3 DEF LinkInv, Coherent
  <2> QED BY <2>1, <2>2, <2>3 DEF Inv
<1> QED BY <1>2, <1>3, <1>4, <1>5, <1>6, <1>7, <1>8, <1>9 DEF Next

(* The invariant says what the properties say.                             *)
LEMMA InvImplies ==
    ASSUME Inv
    PROVE  TypeOK /\ Fresh /\ LinkReadsCurrent /\ NothingRedone
<1>1. PICK D, K : Knows(D, K)
  BY InvKnows
<1>2. /\ Shape /\ Control /\ (\A u \in Units : UnitOK(u))
      /\ Coherent(D, K) /\ \A t \in Targets : TargetOK(D, K, t)
  BY <1>1 DEF Knows
<1>3. TypeOK
  <2>1. src \in [Sources -> 1..MaxTime]
    BY <1>2, BoundAssumption DEF Shape
  <2>2. \A u \in Units : obj[u].mtime \in 0..now /\ dep[u].mtime \in 0..now
    BY <1>2 DEF Shape
  <2>3. \A t \in Targets : bin[t].mtime \in 0..now /\ bdep[t].mtime \in 0..now
    BY <1>2 DEF Shape
  <2>4. \A u \in Units : job[u] \in Working => reads[u] = Inputs(u)
    BY <1>2 DEF UnitOK
  <2>5. ASSUME NEW t \in Targets, job[t] \in Working
        PROVE  reads[t] = LinkInputs(t)
    <3>1. Ready(D, K, t)
      BY <1>2, <2>5 DEF TargetOK
    <3> QED BY <1>2, <3>1, ContentLinked DEF Ready
  <2> QED BY <1>2, <2>1, <2>2, <2>3, <2>4, <2>5 DEF TypeOK, Shape
<1>4. ASSUME settled, NEW u \in live PROVE obj[u].made = Inputs(u)
  BY <1>2, <1>4 DEF UnitOK, UnitCurrent, Shape
<1>5. ASSUME settled, NEW t \in Members PROVE bin[t].made = LinkInputs(t)
  <2>1. \A s \in Members : s \in Targets /\ TargetCurrent(D, K, s)
    BY <1>2, <1>5 DEF TargetOK, Members
  <2>2. /\ LinkUnits(t) \subseteq live /\ live \subseteq Units
        /\ project.libs[t] \subseteq Members
    BY <1>2, <2>1, LinkFilesFacts DEF Shape
  <2>3. /\ \A u \in LinkUnits(t) : UnitCurrent(u)
        /\ \A l \in project.libs[t] : bin[l].made = K[l]
    BY <1>2, <1>5, <2>1, <2>2 DEF UnitOK, TargetCurrent
  <2>4. t \in D /\ bin[t].made = K[t]
    BY <2>1 DEF TargetCurrent
  <2> QED BY <1>2, <2>1, <2>3, <2>4, ContentLinked
<1>6. LinkReadsCurrent
  BY <1>2 DEF LinkReadsCurrent, TargetOK, Ready, UnitCurrent, Working
<1>7. NothingRedone
  BY <1>2 DEF NothingRedone, Shape, Control, Working
<1> QED BY <1>3, <1>4, <1>5, <1>6, <1>7 DEF Fresh

-----------------------------------------------------------------------------
(* The depend files, the modify times and what files_mtime remembers tell  *)
(* the truth about what objects and targets are made from, in every build  *)
(* (depend.lua, object.lua, kinds/static.lua, kinds/binary.lua).           *)
THEOREM InvHolds ==
    ASSUME NoListExtended, \A p \in Projects : Recoverable(p)
    PROVE  Spec => []Inv
<1>1. Init => Inv
  BY InitInv
<1>2. Inv /\ [Next]_vars => Inv'
  BY NextInv
<1> QED BY <1>1, <1>2, PTL DEF Spec

(* The state has its shape, and what a compiler or linker has read stays   *)
(* as it is on the disk until the depend file is saved.                    *)
THEOREM TypeOKHolds ==
    ASSUME NoListExtended, \A p \in Projects : Recoverable(p)
    PROVE  Spec => []TypeOK
BY InvHolds, InvImplies, PTL

(* A build that succeeds leaves what a build from nothing would make,      *)
(* whatever was edited, removed or failed before, and whichever compile    *)
(* jobs were killed when nothing but edits happens between the builds:     *)
(* is_changed of depend.lua misses nothing, although it only looks at      *)
(* modify times and at the recorded files and values.                      *)
THEOREM FreshHolds ==
    ASSUME NoListExtended, \A p \in Projects : Recoverable(p)
    PROVE  Spec => []Fresh
BY InvHolds, InvImplies, PTL

(* The linker only reads objects that are complete and made from the       *)
(* sources and flags as they are, also in a build that fails later         *)
(* (object.lua, issue 748).                                                *)
THEOREM LinkReadsCurrentHolds ==
    ASSUME NoListExtended, \A p \in Projects : Recoverable(p)
    PROVE  Spec => []LinkReadsCurrent
BY InvHolds, InvImplies, PTL

(* When a build has succeeded and nothing was changed since, the next one  *)
(* compiles and links nothing.                                             *)
THEOREM NothingRedoneHolds ==
    ASSUME NoListExtended, \A p \in Projects : Recoverable(p)
    PROVE  Spec => []NothingRedone
BY InvHolds, InvImplies, PTL

=============================================================================
