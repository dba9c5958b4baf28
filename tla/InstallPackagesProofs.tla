------------------------- MODULE InstallPackagesProofs -------------------------
(***************************************************************************)
(* Theorems about the parallel installation of packages, for any number of *)
(* processes and any projects.                                             *)
(***************************************************************************)
EXTENDS InstallPackages, SequenceFacts, FiniteSetTheorems

(* a job that has taken a package                                          *)
Under == Inside \cup {"gate"}

(* The counts of a process, and what the gate keeps: a package that must   *)
(* be alone is.                                                            *)
Counts(serial, s) ==
    /\ s.working = Cardinality({j \in Jobs : s.pc[j] \in Under})
    /\ s.installing = Cardinality({j \in Jobs : s.pc[j] \in Inside})
    /\ s.serials = Cardinality({j \in Jobs : s.pc[j] \in Under /\ s.inst[j] \in serial})
    /\ s.parallelize <=> s.serials = 0
    /\ \A j \in Jobs : s.pc[j] \in Under => s.inst[j] \in Pkgs
    /\ \A i, j \in Jobs :
          s.pc[i] \in Inside /\ s.pc[j] \in Inside /\ s.inst[i] \in serial => i = j

(* runjobs: never more than comax coroutines in its group, each one started *)
(* once and either dead or in the group.                                   *)
Runner(todo, comax, s) ==
    /\ s.index <= s.total /\ s.top <= s.total
    /\ s.total < s.pos /\ s.pos <= Len(todo) + 1
    /\ IF s.main = "fetch" THEN s.index = 0 ELSE s.pos = Len(todo) + 1
    /\ IF s.main = "start"
       THEN s.index <= s.top /\ Cardinality(s.cogroup) + Cardinality(s.started) + s.top
                                   <= comax + s.index
       ELSE s.started = {} /\ Cardinality(s.cogroup) <= comax
    /\ s.main \in {"final", "done", "failed"} => s.index = s.total
    /\ s.main \in {"done", "failed"} => s.cogroup = {}
    /\ s.main = "done" => ~s.stop
    /\ \A j \in Jobs :
          /\ s.pc[j] = "none" <=> j > s.index
          /\ j <= s.index => j \in s.cogroup \cup s.started \/ s.pc[j] = "dead"
          /\ j \in s.cogroup \cup s.started => j <= s.index

(* what a lock file shows: a process and the package it is locked for      *)
Owner(p, x) == <<p, x>>

(* The file locks are those of the packages under way, no two of which     *)
(* have the same file.                                                     *)
Locks(file, own, st) ==
    /\ \A p, q \in Procs : \A i, j \in Jobs :
          /\ st[p].pc[i] \in Locked /\ st[q].pc[j] \in Locked
          /\ file[st[p].inst[i]] = file[st[q].inst[j]]
          => p = q /\ i = j
    /\ \A p \in Procs : \A j \in Jobs :
          st[p].pc[j] \in Locked => own[file[st[p].inst[j]]] = Owner(p, st[p].inst[j])
    /\ \A f \in Files : own[f] # NONE =>
          \E p \in Procs : \E j \in Jobs :
             st[p].pc[j] \in Locked /\ file[st[p].inst[j]] = f

(* the places from where the installation of a package can be taken back   *)
Danger == {"test", "redo", "retest"}

(* x is there, and nobody is at a point from where it could be removed.    *)
Stable(dir, st, x) ==
    /\ dir[x] \in {"saved", "done"}
    /\ \A p \in Procs : \A j \in Jobs : st[p].pc[j] \in Danger => st[p].inst[j] # x

(* What is not to be installed, or was, is there to stay.                  *)
Settled(u, dir, st) ==
    \A p \in Procs :
       /\ \A k \in DOMAIN u.order[p] :
             LET x == u.order[p][k]
             IN  k < st[p].pos => \/ x \in u.optional
                                  \/ st[p].installed[x] = "no"
                                  \/ Stable(dir, st, x)
       /\ ToSet(st[p].pending) \subseteq ToSet(u.order[p])
       /\ \A j \in Jobs : st[p].pc[j] \in Under =>
             \A d \in u.deps[st[p].inst[j]] \ u.optional : Stable(dir, st, d)

(* Nothing is forgotten: a package that is to be installed is pending, or  *)
(* a job has taken it, or its group is dealt with, and there is a job for  *)
(* each that is pending.                                                   *)
Remaining(group, s) ==
    /\ \A x \in Pkgs : s.installed[x] = "no" =>
          \/ s.stop
          \/ x \in ToSet(s.pending)
          \/ \E j \in Jobs : s.pc[j] \in Under /\ s.inst[j] = x
          \/ group[x] # NONE /\ s.ingroup[group[x]] # "nil"
    /\ ~s.stop => Len(s.pending) <=
          Cardinality({j \in Jobs : j <= s.total /\ s.pc[j] \in {"none", "pick"}})

Inv ==
    /\ TypeOK
    /\ \A p \in Procs :
          /\ Counts(setup.serial, proc[p])
          /\ Runner(setup.order[p], setup.comax, proc[p])
          /\ Remaining(setup.group, proc[p])
    /\ Locks(setup.file, holder, proc)
    /\ Settled(setup, disk, proc)
-----------------------------------------------------------------------------
(* Facts about numbers and counting.                                       *)
LEMMA JobsFinite == IsFiniteSet(Jobs) /\ Jobs \subseteq Nat /\ Cardinality(Pkgs) \in Nat
<1>1. Cardinality(Pkgs) \in Nat
  BY FS_CardinalityType, BoundAssumption
<1> QED BY <1>1, FS_Interval DEF Jobs

(* ipairs stops at the first package that will do                          *)
LEMMA LeastElement ==
    ASSUME NEW n \in Nat, NEW S \in SUBSET (1..n), S # {}
    PROVE  (CHOOSE i \in S : \A h \in S : i <= h) \in S
<1>1. S \subseteq Nat
  OBVIOUS
<1>2. \E i \in S : \A h \in S : <<h, i>> \notin OpToRel(<, Nat)
  BY <1>1, NatLessThanWellFounded, WFMin
<1>3. PICK i \in S : \A h \in S : <<h, i>> \notin OpToRel(<, Nat)
  BY <1>2
<1>4. \A h \in S : ~(h < i)
  BY <1>1, <1>3 DEF OpToRel
<1>5. \A h \in S : i <= h
  BY <1>1, <1>4
<1> QED BY <1>5

(* one job joins a set of jobs or leaves it                                *)
LEMMA CardChange ==
    ASSUME NEW A \in SUBSET Jobs, NEW B \in SUBSET Jobs, NEW j \in Jobs, A \ {j} = B \ {j}
    PROVE  /\ Cardinality(A) \in Nat /\ Cardinality(B) \in Nat
           /\ (j \in A <=> j \in B) => Cardinality(B) = Cardinality(A)
           /\ j \notin A /\ j \in B => Cardinality(B) = Cardinality(A) + 1
           /\ j \in A /\ j \notin B => Cardinality(B) = Cardinality(A) - 1
           /\ Cardinality(A) = 0 <=> A = {}
           /\ j \in A => Cardinality(A) > 0
<1>1. IsFiniteSet(A) /\ IsFiniteSet(B)
  BY JobsFinite, FS_Subset
<1>2. Cardinality(A) \in Nat /\ Cardinality(B) \in Nat /\ (Cardinality(A) = 0 <=> A = {})
  BY <1>1, FS_CardinalityType, FS_EmptySet
<1>3. CASE j \in A <=> j \in B
  <2>1. A = B
    BY <1>3
  <2> QED BY <1>2, <1>3, <2>1
<1>4. CASE j \notin A /\ j \in B
  <2>1. B = A \cup {j}
    BY <1>4
  <2> QED BY <1>1, <1>2, <1>4, <2>1, FS_AddElement
<1>5. CASE j \in A /\ j \notin B
  <2>1. B = A \ {j}
    BY <1>5
  <2> QED BY <1>1, <1>2, <1>5, <2>1, FS_RemoveElement
<1> QED BY <1>3, <1>4, <1>5

(* there are no more packages to install than packages                     *)
LEMMA OrderBound ==
    ASSUME NEW u \in Setups, NEW p \in Procs
    PROVE  /\ u.order[p] \in Seq(Pkgs) /\ Len(u.order[p]) \in Nat
           /\ Len(u.order[p]) <= Cardinality(Pkgs)
<1> DEFINE o == u.order[p]
<1>1. o \in Seq(Pkgs) /\ IsInjective(o)
  BY SetupAssumption DEF SetupOK
<1>2. Len(o) \in Nat /\ o \in [1..Len(o) -> Pkgs] /\ DOMAIN o = 1..Len(o)
  BY <1>1, LenProperties
<1>3. o \in Injection(1..Len(o), Pkgs)
  BY <1>1, <1>2 DEF IsInjective, Injection
<1>4. Cardinality(1..Len(o)) <= Cardinality(Pkgs)
  BY <1>3, FS_Injection, BoundAssumption
<1>5. Cardinality(1..Len(o)) = Len(o)
  BY <1>2, FS_Interval
<1> QED BY <1>1, <1>2, <1>4, <1>5
-----------------------------------------------------------------------------
(* One job of a process moves.  By is how a count changes with it.         *)
By(before, after) == (IF after THEN 1 ELSE 0) - (IF before THEN 1 ELSE 0)

LEMMA CountStep ==
    ASSUME NEW A \in SUBSET Jobs, NEW B \in SUBSET Jobs, NEW j \in Jobs, A \ {j} = B \ {j},
           NEW m, NEW n, m = Cardinality(A), n = m + By(j \in A, j \in B)
    PROVE  n = Cardinality(B) /\ n \in Nat
BY CardChange DEF By

LEMMA CountsStep ==
    ASSUME NEW serial, NEW s \in ProcState, NEW t, NEW j \in Jobs, Counts(serial, s),
           \A i \in Jobs : i # j => t.pc[i] = s.pc[i] /\ t.inst[i] = s.inst[i],
           t.pc[j] \in Under => t.inst[j] \in Pkgs,
           t.working = s.working + By(s.pc[j] \in Under, t.pc[j] \in Under),
           t.installing = s.installing + By(s.pc[j] \in Inside, t.pc[j] \in Inside),
           t.serials = s.serials + By(s.pc[j] \in Under /\ s.inst[j] \in serial,
                                      t.pc[j] \in Under /\ t.inst[j] \in serial),
           t.parallelize <=> t.serials = 0,
           t.pc[j] \in Inside /\ s.pc[j] \notin Inside =>
              IF t.inst[j] \in serial THEN s.installing = 0 ELSE s.parallelize,
           t.pc[j] \in Inside /\ s.pc[j] \in Inside => t.inst[j] = s.inst[j]
    PROVE  Counts(serial, t) /\ t.working \in Nat /\ t.installing \in Nat /\ t.serials \in Nat
<1> DEFINE U(r) == {i \in Jobs : r.pc[i] \in Under}
           I(r) == {i \in Jobs : r.pc[i] \in Inside}
           S(r) == {i \in Jobs : r.pc[i] \in Under /\ r.inst[i] \in serial}
<1>1. t.working = Cardinality(U(t)) /\ t.working \in Nat
  <2>1. U(s) \ {j} = U(t) \ {j} /\ U(s) \subseteq Jobs /\ U(t) \subseteq Jobs
    OBVIOUS
  <2>2. (j \in U(s) <=> s.pc[j] \in Under) /\ (j \in U(t) <=> t.pc[j] \in Under)
    OBVIOUS
  <2>3. s.working = Cardinality(U(s))
    BY DEF Counts
  <2>4. t.working = s.working + By(j \in U(s), j \in U(t))
    BY <2>2 DEF By
  <2> HIDE DEF U
  <2> QED BY <2>1, <2>3, <2>4, CountStep
<1>2. t.installing = Cardinality(I(t)) /\ t.installing \in Nat
  <2>1. I(s) \ {j} = I(t) \ {j} /\ I(s) \subseteq Jobs /\ I(t) \subseteq Jobs
    OBVIOUS
  <2>2. (j \in I(s) <=> s.pc[j] \in Inside) /\ (j \in I(t) <=> t.pc[j] \in Inside)
    OBVIOUS
  <2>3. s.installing = Cardinality(I(s))
    BY DEF Counts
  <2>4. t.installing = s.installing + By(j \in I(s), j \in I(t))
    BY <2>2 DEF By
  <2> HIDE DEF I
  <2> QED BY <2>1, <2>3, <2>4, CountStep
<1>3. t.serials = Cardinality(S(t)) /\ t.serials \in Nat
  <2>1. S(s) \ {j} = S(t) \ {j} /\ S(s) \subseteq Jobs /\ S(t) \subseteq Jobs
    OBVIOUS
  <2>2. /\ j \in S(s) <=> s.pc[j] \in Under /\ s.inst[j] \in serial
        /\ j \in S(t) <=> t.pc[j] \in Under /\ t.inst[j] \in serial
    OBVIOUS
  <2>3. s.serials = Cardinality(S(s))
    BY DEF Counts
  <2>4. t.serials = s.serials + By(j \in S(s), j \in S(t))
    BY <2>2 DEF By
  <2> HIDE DEF S
  <2> QED BY <2>1, <2>3, <2>4, CountStep
<1>4. \A i \in Jobs : t.pc[i] \in Under => t.inst[i] \in Pkgs
  BY DEF Counts
<1>5. ASSUME NEW i \in Jobs, NEW h \in Jobs, i # h,
             t.pc[i] \in Inside, t.pc[h] \in Inside, t.inst[i] \in serial
      PROVE  FALSE
  <2>1. CASE i # j /\ h # j
    BY <1>5, <2>1 DEF Counts
  <2>2. CASE s.pc[j] \in Inside
    BY <1>5, <2>2 DEF Counts
  <2>3. CASE s.pc[j] \notin Inside /\ t.pc[j] \in Inside
    <3>1. s.installing = 0 => I(s) = {}
      BY CardChange DEF Counts
    <3>2. s.parallelize => S(s) = {}
      BY CardChange DEF Counts
    <3>3. CASE i = j
      <4>1. h \in I(s)
        BY <1>5, <3>3
      <4> QED BY <1>5, <2>3, <3>1, <3>3, <4>1
    <3>4. CASE h = j
      <4>1. i \in I(s) /\ i \in S(s)
        BY <1>5, <3>4 DEF Under
      <4> QED BY <1>5, <2>3, <3>1, <3>2, <3>4, <4>1
    <3> QED BY <2>1, <3>3, <3>4
  <2> QED BY <1>5, <2>1, <2>2, <2>3
<1> QED BY <1>1, <1>2, <1>3, <1>4, <1>5 DEF Counts
(* what runjobs knows of a job does not change while it runs               *)
SameRunner(s, t) ==
    /\ t.main = s.main /\ t.pos = s.pos /\ t.total = s.total
    /\ t.index = s.index /\ t.top = s.top
    /\ t.cogroup = s.cogroup /\ t.started = s.started

LEMMA RunnerJob ==
    ASSUME NEW todo, NEW comax, NEW s \in ProcState, NEW t, NEW j \in Jobs,
           Runner(todo, comax, s), SameRunner(s, t),
           s.pc[j] \notin {"none", "dead"}, t.pc[j] # "none",
           \A i \in Jobs : i # j => t.pc[i] = s.pc[i]
    PROVE  Runner(todo, comax, t)
<1>1. j <= s.index /\ j \in s.cogroup \cup s.started
  BY JobsFinite DEF Runner, ProcState
<1>2. s.main # "done"
  BY <1>1 DEF Runner
<1> QED BY <1>1, <1>2 DEF Runner, SameRunner

(* a job that has taken a package goes on or ends                          *)
LEMMA RemainingJob ==
    ASSUME NEW group \in [Pkgs -> Groups \cup {NONE}],
           NEW s \in ProcState, NEW t, NEW j \in Jobs,
           Remaining(group, s), SameRunner(s, t), t.pending = s.pending,
           s.pc[j] \in Under, t.pc[j] \in Under \cup {"dead"}, t.inst = s.inst,
           \A i \in Jobs : i # j => t.pc[i] = s.pc[i],
           \A x \in Pkgs : t.installed[x] = "no" => s.installed[x] = "no",
           s.stop => t.stop,
           \A g \in Groups : s.ingroup[g] # "nil" => t.ingroup[g] # "nil",
           t.pc[j] = "dead" => t.stop \/ t.installed[s.inst[j]] = "yes"
    PROVE  Remaining(group, t)
<1>1. ASSUME NEW x \in Pkgs, t.installed[x] = "no", ~t.stop
      PROVE  \/ x \in ToSet(t.pending)
             \/ \E i \in Jobs : t.pc[i] \in Under /\ t.inst[i] = x
             \/ group[x] # NONE /\ t.ingroup[group[x]] # "nil"
  <2>2. \/ x \in ToSet(s.pending)
        \/ \E i \in Jobs : s.pc[i] \in Under /\ s.inst[i] = x
        \/ group[x] # NONE /\ s.ingroup[group[x]] # "nil"
    BY <1>1 DEF Remaining
  <2>3. ASSUME NEW i \in Jobs, s.pc[i] \in Under, s.inst[i] = x
        PROVE  t.pc[i] \in Under /\ t.inst[i] = x
    BY <1>1, <2>3
  <2> QED BY <2>2, <2>3
<1>2. ~t.stop => Len(t.pending) <=
         Cardinality({i \in Jobs : i <= t.total /\ t.pc[i] \in {"none", "pick"}})
  <2>1. {i \in Jobs : i <= t.total /\ t.pc[i] \in {"none", "pick"}} =
        {i \in Jobs : i <= s.total /\ s.pc[i] \in {"none", "pick"}}
    BY DEF SameRunner, Under, Inside
  <2> QED BY <2>1 DEF Remaining
<1> QED BY <1>1, <1>2 DEF Remaining

-----------------------------------------------------------------------------
(* the finally block, after the last statement and after a raise           *)
Done(s, j) == Finally(s, j, TRUE)
Raised(s, j) == Finally(s, j, FALSE)

LEMMA FinallyEffect ==
    ASSUME setup \in Setups, NEW s \in ProcState, NEW j \in Jobs,
           Counts(setup.serial, s), s.pc[j] \in Inside,
           NEW t, t \in {Done(s, j), Raised(s, j)}
    PROVE  /\ t \in ProcState /\ Counts(setup.serial, t)
           /\ SameRunner(s, t) /\ t.pending = s.pending
           /\ t.inst = s.inst /\ t.installed = s.installed
           /\ t.pc[j] = "dead" /\ \A i \in Jobs : i # j => t.pc[i] = s.pc[i]
           /\ s.stop => t.stop
           /\ t = Raised(s, j) => t.stop
           /\ \A g \in Groups : s.ingroup[g] # "nil" => t.ingroup[g] # "nil"
<1> DEFINE x == s.inst[j]
           g == Group(x)
           u == [s EXCEPT
                  !.ingroup = IF /\ g # NONE /\ s.pc[j] \in Inside
                                 /\ s.ingroup[g] = "installing"
                              THEN [@ EXCEPT ![g] = "failed"] ELSE @,
                  !.installing = @ - (IF s.pc[j] \in Inside THEN 1 ELSE 0),
                  !.serials = @ - (IF x \in setup.serial THEN 1 ELSE 0),
                  !.parallelize = IF x \in setup.serial THEN s.serials = 1 ELSE @,
                  !.working = @ - 1]
           v == Dies(u, j)
<1>1. Done(s, j) = v /\ Raised(s, j) = [v EXCEPT !.stop = TRUE]
  BY DEF Done, Raised, Finally, Raises
<1>2. /\ v.installing = s.installing - 1
      /\ v.serials = s.serials - (IF x \in setup.serial THEN 1 ELSE 0)
      /\ v.working = s.working - 1
      /\ x \in setup.serial => (v.parallelize <=> s.serials = 1) /\ v.parallelize \in BOOLEAN
      /\ x \notin setup.serial => v.parallelize = s.parallelize
      /\ v.pc = [s.pc EXCEPT ![j] = "dead"] /\ v.inst = s.inst
      /\ v.installed = s.installed /\ v.pending = s.pending /\ v.stop = s.stop
      /\ SameRunner(s, v)
      /\ v.ingroup = IF g # NONE /\ s.ingroup[g] = "installing"
                     THEN [s.ingroup EXCEPT ![g] = "failed"] ELSE s.ingroup
  BY DEF ProcState, SameRunner, Dies
<1> DEFINE W(a, b, c, d, e, pc) ==
               [s EXCEPT !.ingroup = a, !.installing = b, !.serials = c,
                         !.parallelize = d, !.working = e, !.pc = pc, !.cur = NONE]
<1>a. v = W(v.ingroup, v.installing, v.serials, v.parallelize, v.working, v.pc)
  BY <1>2 DEF Dies, ProcState
<1>b. ASSUME NEW a \in [Groups -> {"nil", "installing", "installed", "failed"}],
             NEW b \in Nat, NEW c \in Nat, NEW d \in BOOLEAN, NEW e \in Nat,
             NEW pc \in [Jobs -> Places]
      PROVE  W(a, b, c, d, e, pc) \in ProcState
  BY DEF ProcState
<1> HIDE DEF W
<1> HIDE DEF v, u
<1>3. s.pc[j] \in Under /\ v.pc[j] = "dead" /\ \A i \in Jobs : i # j => v.pc[i] = s.pc[i]
  BY <1>2 DEF Under, ProcState
<1>4. /\ "dead" \notin Under /\ "dead" \notin Inside
      /\ s.working \in Nat /\ s.installing \in Nat /\ s.serials \in Nat
  BY DEF Under, Inside, ProcState
<1>5. (v.parallelize <=> v.serials = 0) /\ v.parallelize \in BOOLEAN
  <2>1. (s.parallelize <=> s.serials = 0) /\ s.parallelize \in BOOLEAN
    BY DEF Counts, ProcState
  <2>2. CASE x \in setup.serial
    BY <1>2, <1>4, <2>2
  <2>3. CASE x \notin setup.serial
    BY <1>2, <1>4, <2>1, <2>3
  <2> QED BY <2>2, <2>3
<1>6. Counts(setup.serial, v) /\ v.working \in Nat /\ v.installing \in Nat /\ v.serials \in Nat
  <2>1. /\ v.working = s.working + By(s.pc[j] \in Under, v.pc[j] \in Under)
        /\ v.installing = s.installing + By(s.pc[j] \in Inside, v.pc[j] \in Inside)
        /\ v.serials = s.serials + By(s.pc[j] \in Under /\ s.inst[j] \in setup.serial,
                                      v.pc[j] \in Under /\ v.inst[j] \in setup.serial)
    BY <1>2, <1>3, <1>4 DEF By
  <2>2. /\ \A i \in Jobs : i # j => v.pc[i] = s.pc[i] /\ v.inst[i] = s.inst[i]
        /\ v.pc[j] \notin Under /\ v.pc[j] \notin Inside
    BY <1>2, <1>3, <1>4
  <2> QED BY <1>5, <2>1, <2>2, CountsStep
<1>7. /\ v.ingroup \in [Groups -> {"nil", "installing", "installed", "failed"}]
      /\ \A h \in Groups : s.ingroup[h] # "nil" => v.ingroup[h] # "nil"
  <2>1. x \in Pkgs
    BY <1>3 DEF Counts
  <2>2. g # NONE => g \in Groups
    BY <2>1, SetupAssumption DEF SetupOK, Group
  <2> HIDE DEF g
  <2> QED BY <1>2, <2>2 DEF ProcState
<1>8. v \in ProcState
  <2>1. v.pc \in [Jobs -> Places]
    BY <1>2 DEF ProcState, Places
  <2>2. v.installing \in Nat /\ v.serials \in Nat /\ v.working \in Nat /\ v.parallelize \in BOOLEAN
    BY <1>5, <1>6
  <2> QED BY <1>7, <1>a, <1>b, <2>1, <2>2
<1>9. CASE t # Raised(s, j)
  <2>1. t = v
    BY <1>1, <1>9
  <2> QED BY <1>2, <1>3, <1>6, <1>7, <1>8, <1>9, <2>1
<1>10. CASE t = Raised(s, j)
  <2>1. t = [v EXCEPT !.stop = TRUE]
    BY <1>1, <1>10
  <2>2. /\ t \in ProcState /\ t.stop = TRUE
        /\ t.pc = v.pc /\ t.inst = v.inst /\ t.working = v.working
        /\ t.installing = v.installing /\ t.serials = v.serials /\ t.parallelize = v.parallelize
        /\ t.pending = v.pending /\ t.installed = v.installed /\ t.ingroup = v.ingroup
        /\ SameRunner(v, t)
    BY <1>8, <2>1 DEF ProcState, SameRunner
  <2>3. Counts(setup.serial, t)
    BY <1>6, <2>2 DEF Counts
  <2>4. SameRunner(s, t)
    BY <1>2, <2>2 DEF SameRunner
  <2> QED BY <1>2, <1>3, <1>7, <2>2, <2>3, <2>4
<1> QED BY <1>9, <1>10
-----------------------------------------------------------------------------
(* p takes a step, to t                                                    *)
Only(p, t) ==
    /\ proc' \in [Procs -> ProcState] /\ proc'[p] = t
    /\ \A q \in Procs : q # p => proc'[q] = proc[q]

LEMMA Updated ==
    ASSUME Inv, NEW p \in Procs, NEW t \in ProcState, proc' = [proc EXCEPT ![p] = t]
    PROVE  Only(p, t)
BY DEF Only, Inv, TypeOK

(* A step of one process keeps the invariant if it keeps its parts.        *)
LEMMA LocalStep ==
    ASSUME Inv, NEW p \in Procs, NEW t \in ProcState,
           setup' = setup, Only(p, t),
           holder' \in [Files -> (Procs \X Pkgs) \cup {NONE}],
           disk' \in [Pkgs -> {"empty", "partial", "saved", "done"}],
           kills' \in 0..MaxKills,
           Counts(setup.serial, t),
           Runner(setup.order[p], setup.comax, t),
           Remaining(setup.group, t),
           Locks(setup.file, holder', proc'),
           Settled(setup, disk', proc')
    PROVE  Inv'
<1>2. proc' \in [Procs -> ProcState]
  BY DEF Only
<1>3. ASSUME NEW q \in Procs
      PROVE  /\ Counts(setup.serial, proc'[q])
             /\ Runner(setup.order[q], setup.comax, proc'[q])
             /\ Remaining(setup.group, proc'[q])
  <2>1. CASE q = p
    BY <2>1 DEF Only
  <2>2. CASE q # p
    BY <2>2 DEF Inv, Only
  <2> QED BY <2>1, <2>2
<1>4. \A q \in Procs : proc'[q].index <= proc'[q].total /\ proc'[q].top <= proc'[q].total
  BY <1>3 DEF Runner
<1>5. TypeOK'
  BY <1>2, <1>4 DEF Inv, TypeOK
<1> QED BY <1>3, <1>5 DEF Inv

LEMMA PlaceFacts ==
    /\ Danger \subseteq Locked /\ Locked \subseteq Inside /\ Inside \subseteq Under
    /\ Under \subseteq Places /\ Inside \subseteq Places
    /\ {"none", "pick", "dead"} \cap Under = {} /\ {"none", "pick", "dead"} \subseteq Places
    /\ {"gate", "lock", "download", "install"} \cap Danger = {}
    /\ {"gate", "lock"} \cap Locked = {} /\ "gate" \notin Inside
    /\ {"gate", "lock"} \subseteq Under
BY DEF Danger, Locked, Inside, Under, Places

LEMMA Facts ==
    ASSUME Inv
    PROVE  /\ setup \in Setups /\ SetupOK(setup) /\ proc \in [Procs -> ProcState]
           /\ setup.file \in [Pkgs -> Files] /\ setup.group \in [Pkgs -> Groups \cup {NONE}]
           /\ \A q \in Procs : \A k \in DOMAIN setup.order[q] : setup.order[q][k] \in Pkgs
           /\ \A y \in Pkgs : setup.deps[y] \subseteq Pkgs
           /\ holder \in [Files -> (Procs \X Pkgs) \cup {NONE}] /\ DOMAIN holder = Files
           /\ disk \in [Pkgs -> {"empty", "partial", "saved", "done"}]
           /\ kills \in 0..MaxKills
           /\ Locks(setup.file, holder, proc) /\ Settled(setup, disk, proc)
           /\ \A q \in Procs : \A i \in Jobs : proc[q].pc[i] \in Under => proc[q].inst[i] \in Pkgs
           /\ \A q \in Procs : \A y \in Pkgs : Owner(q, y) # NONE /\ Owner(q, y) \in Procs \X Pkgs
<1>1. setup \in Setups /\ SetupOK(setup) /\ proc \in [Procs -> ProcState]
  BY SetupAssumption DEF Inv, TypeOK
<1>2. \A q \in Procs : \A k \in DOMAIN setup.order[q] : setup.order[q][k] \in Pkgs
  BY <1>1, LenProperties DEF SetupOK
<1>3. \A q \in Procs : \A y \in Pkgs : Owner(q, y) # NONE /\ Owner(q, y) \in Procs \X Pkgs
  BY NoneAssumption DEF Owner
<1>4. \A q \in Procs : \A i \in Jobs : proc[q].pc[i] \in Under => proc[q].inst[i] \in Pkgs
  BY DEF Inv, Counts
<1>5. /\ Locks(setup.file, holder, proc) /\ Settled(setup, disk, proc)
      /\ holder \in [Files -> (Procs \X Pkgs) \cup {NONE}]
      /\ disk \in [Pkgs -> {"empty", "partial", "saved", "done"}]
      /\ kills \in 0..MaxKills
  BY DEF Inv, TypeOK
<1>6. DOMAIN holder = Files
  BY <1>5
<1>7. /\ setup.file \in [Pkgs -> Files] /\ setup.group \in [Pkgs -> Groups \cup {NONE}]
      /\ \A y \in Pkgs : setup.deps[y] \subseteq Pkgs
  BY <1>1 DEF SetupOK
<1> QED BY <1>1, <1>2, <1>3, <1>4, <1>5, <1>6, <1>7

-----------------------------------------------------------------------------
(* The locks, as they are before a step of p and after it.                 *)

(* nobody takes or gives back a lock                                       *)
LEMMA LockSame ==
    ASSUME Inv, NEW p \in Procs,
           NEW t \in ProcState, Only(p, t),
           \A i \in Jobs : /\ t.pc[i] \in Locked <=> proc[p].pc[i] \in Locked
                           /\ t.pc[i] \in Locked => t.inst[i] = proc[p].inst[i]
    PROVE  Locks(setup.file, holder, proc')
<1>0. Locks(setup.file, holder, proc)
  BY Facts
<1>1. ASSUME NEW q \in Procs, NEW i \in Jobs
      PROVE  /\ proc'[q].pc[i] \in Locked <=> proc[q].pc[i] \in Locked
             /\ proc'[q].pc[i] \in Locked => proc'[q].inst[i] = proc[q].inst[i]
  BY DEF Only
<1> QED BY <1>0, <1>1 DEF Locks

(* j locks the file of its package                                         *)
LEMMA LockTaken ==
    ASSUME Inv, NEW p \in Procs,
           NEW t \in ProcState, Only(p, t),
           NEW j \in Jobs, NEW x \in Pkgs, holder[setup.file[x]] = NONE,
           t.inst[j] = x, t.pc[j] \in Locked, proc[p].pc[j] \notin Locked,
           \A i \in Jobs : i # j => t.pc[i] = proc[p].pc[i] /\ t.inst[i] = proc[p].inst[i],
           holder' = [holder EXCEPT ![setup.file[x]] = Owner(p, x)]
    PROVE  Locks(setup.file, holder', proc')
<1>0. Locks(setup.file, holder, proc)
  BY Facts
<1>1. ASSUME NEW q \in Procs, NEW i \in Jobs, q # p \/ i # j
      PROVE  proc'[q].pc[i] = proc[q].pc[i] /\ proc'[q].inst[i] = proc[q].inst[i]
  BY <1>1 DEF Only
<1>2. proc'[p].pc[j] \in Locked /\ proc'[p].inst[j] = x
  BY DEF Only
<1>3. holder'[setup.file[x]] = Owner(p, x) /\ \A f \in Files : f # setup.file[x] => holder'[f] = holder[f]
  BY Facts
<1>4. ASSUME NEW q \in Procs, NEW i \in Jobs, proc[q].pc[i] \in Locked
      PROVE  setup.file[proc[q].inst[i]] # setup.file[x] /\ setup.file[proc[q].inst[i]] \in Files
  BY <1>0, <1>4, Facts, PlaceFacts DEF Locks
<1>5. ASSUME NEW q \in Procs, NEW r \in Procs, NEW i \in Jobs, NEW h \in Jobs,
             proc'[q].pc[i] \in Locked, proc'[r].pc[h] \in Locked,
             setup.file[proc'[q].inst[i]] = setup.file[proc'[r].inst[h]]
      PROVE  q = r /\ i = h
  <2>1. ASSUME NEW v \in Procs, NEW k \in Jobs, proc'[v].pc[k] \in Locked
        PROVE  \/ v = p /\ k = j
               \/ proc[v].pc[k] \in Locked /\ proc[v].inst[k] = proc'[v].inst[k]
    BY <1>1, <2>1
  <2>2. ASSUME NEW v \in Procs, NEW k \in Jobs, proc[v].pc[k] \in Locked,
               proc[v].inst[k] = proc'[v].inst[k]
        PROVE  setup.file[proc'[v].inst[k]] # setup.file[proc'[p].inst[j]]
    BY <1>2, <1>4, <2>2
  <2>3. CASE (q = p /\ i = j) \/ (r = p /\ h = j)
    BY <1>5, <2>1, <2>2, <2>3
  <2>4. CASE ~(q = p /\ i = j) /\ ~(r = p /\ h = j)
    <3>1. /\ proc[q].pc[i] \in Locked /\ proc[q].inst[i] = proc'[q].inst[i]
          /\ proc[r].pc[h] \in Locked /\ proc[r].inst[h] = proc'[r].inst[h]
      BY <1>5, <2>1, <2>4
    <3>2. setup.file[proc[q].inst[i]] = setup.file[proc[r].inst[h]]
      BY <1>5, <3>1
    <3> QED BY <1>0, <3>1, <3>2 DEF Locks
  <2> QED BY <2>3, <2>4
<1>6. ASSUME NEW q \in Procs, NEW i \in Jobs, proc'[q].pc[i] \in Locked
      PROVE  holder'[setup.file[proc'[q].inst[i]]] = Owner(q, proc'[q].inst[i])
  <2>1. CASE q = p /\ i = j
    BY <1>2, <1>3, <2>1
  <2>2. CASE q # p \/ i # j
    <3>1. proc[q].pc[i] \in Locked /\ proc'[q].inst[i] = proc[q].inst[i]
      BY <1>1, <1>6, <2>2
    <3>2. holder'[setup.file[proc[q].inst[i]]] = holder[setup.file[proc[q].inst[i]]]
      BY <1>3, <1>4, <3>1
    <3> QED BY <1>0, <3>1, <3>2 DEF Locks
  <2> QED BY <2>1, <2>2
<1>7. ASSUME NEW f \in Files, holder'[f] # NONE
      PROVE  \E q \in Procs : \E i \in Jobs : proc'[q].pc[i] \in Locked /\ setup.file[proc'[q].inst[i]] = f
  <2>1. CASE f = setup.file[x]
    BY <1>2, <2>1
  <2>2. CASE f # setup.file[x]
    <3>1. PICK q \in Procs, i \in Jobs : proc[q].pc[i] \in Locked /\ setup.file[proc[q].inst[i]] = f
      BY <1>0, <1>3, <1>7, <2>2 DEF Locks
    <3>2. q # p \/ i # j
      BY <3>1
    <3> QED BY <1>1, <3>1, <3>2
  <2> QED BY <2>1, <2>2
<1> QED BY <1>5, <1>6, <1>7 DEF Locks

(* j gives back its lock                                                   *)
LEMMA LockReleased ==
    ASSUME Inv, NEW p \in Procs,
           NEW t \in ProcState, Only(p, t),
           NEW j \in Jobs, proc[p].pc[j] \in Locked,
           t.pc[j] \notin Locked,
           \A i \in Jobs : i # j => t.pc[i] = proc[p].pc[i] /\ t.inst[i] = proc[p].inst[i],
           holder' = [holder EXCEPT ![setup.file[proc[p].inst[j]]] = NONE]
    PROVE  Locks(setup.file, holder', proc')
<1> DEFINE x == proc[p].inst[j]
<1>x. x \in Pkgs /\ setup.file[x] \in Files
  BY Facts, PlaceFacts
<1>0. Locks(setup.file, holder, proc)
  BY Facts
<1>1. ASSUME NEW q \in Procs, NEW i \in Jobs, q # p \/ i # j
      PROVE  proc'[q].pc[i] = proc[q].pc[i] /\ proc'[q].inst[i] = proc[q].inst[i]
  BY <1>1 DEF Only
<1>2. proc'[p].pc[j] \notin Locked
  BY DEF Only
<1>3. holder'[setup.file[x]] = NONE /\ \A f \in Files : f # setup.file[x] => holder'[f] = holder[f]
  BY <1>x, Facts
<1>4. ASSUME NEW q \in Procs, NEW i \in Jobs, proc[q].pc[i] \in Locked, q # p \/ i # j
      PROVE  setup.file[proc[q].inst[i]] # setup.file[x] /\ setup.file[proc[q].inst[i]] \in Files
  BY <1>0, <1>4, Facts, PlaceFacts DEF Locks
<1>5. \A q, r \in Procs : \A i, h \in Jobs :
         /\ proc'[q].pc[i] \in Locked /\ proc'[r].pc[h] \in Locked
         /\ setup.file[proc'[q].inst[i]] = setup.file[proc'[r].inst[h]]
         => q = r /\ i = h
  BY <1>0, <1>1, <1>2 DEF Locks
<1>6. \A q \in Procs : \A i \in Jobs : proc'[q].pc[i] \in Locked =>
         holder'[setup.file[proc'[q].inst[i]]] = Owner(q, proc'[q].inst[i])
  BY <1>0, <1>1, <1>2, <1>3, <1>4 DEF Locks
<1>7. ASSUME NEW f \in Files, holder'[f] # NONE
      PROVE  \E q \in Procs : \E i \in Jobs : proc'[q].pc[i] \in Locked /\ setup.file[proc'[q].inst[i]] = f
  <2>1. f # setup.file[x] /\ holder[f] # NONE
    BY <1>3, <1>7
  <2>2. PICK q \in Procs, i \in Jobs : proc[q].pc[i] \in Locked /\ setup.file[proc[q].inst[i]] = f
    BY <1>0, <2>1 DEF Locks
  <2>3. q # p \/ i # j
    BY <2>1, <2>2
  <2> QED BY <1>1, <2>2, <2>3
<1> QED BY <1>5, <1>6, <1>7 DEF Locks
-----------------------------------------------------------------------------
(* What is on the disk, before a step of p and after it.                   *)

(* a package stays if the step neither removes it nor gets to a place from *)
(* where it could be                                                       *)
LEMMA StableStep ==
    ASSUME Inv, NEW p \in Procs,
           NEW t \in ProcState, Only(p, t),
           NEW x, Stable(disk, proc, x),
           disk'[x] \in {"saved", "done"},
           \A i \in Jobs : t.pc[i] \in Danger /\ t.inst[i] = x =>
              proc[p].pc[i] \in Danger /\ proc[p].inst[i] = x
    PROVE  Stable(disk', proc', x)
<1>1. proc'[p] = t /\ \A q \in Procs : q # p => proc'[q] = proc[q]
  BY DEF Only
<1> QED BY <1>1 DEF Stable

(* job j of p moves, and only the directory of its package is written      *)
LEMMA StableJob ==
    ASSUME Inv, NEW p \in Procs,
           NEW t \in ProcState, Only(p, t),
           NEW j \in Jobs, NEW y, y = proc[p].inst[j],
           t.inst = proc[p].inst, \A i \in Jobs : i # j => t.pc[i] = proc[p].pc[i],
           \A z \in Pkgs : z # y => disk'[z] = disk[z],
           \/ proc[p].pc[j] \in Danger
           \/ disk[y] \in {"saved", "done"} => disk'[y] \in {"saved", "done"} /\ t.pc[j] \notin Danger,
           NEW x \in Pkgs, Stable(disk, proc, x)
    PROVE  Stable(disk', proc', x)
<1>1. CASE x = y
  <2>1. proc[p].pc[j] \notin Danger /\ disk[x] \in {"saved", "done"}
    BY <1>1 DEF Stable
  <2> QED BY <1>1, <2>1, StableStep
<1>2. CASE x # y
  BY <1>2, StableStep DEF Stable
<1> QED BY <1>1, <1>2

(* a package that was installed under its lock is there to stay            *)
LEMMA StableNew ==
    ASSUME Inv, NEW p \in Procs,
           NEW t \in ProcState, Only(p, t),
           NEW j \in Jobs, proc[p].pc[j] \in Locked,
           t.inst = proc[p].inst, t.pc[j] = "dead", \A i \in Jobs : i # j => t.pc[i] = proc[p].pc[i],
           disk'[proc[p].inst[j]] \in {"saved", "done"}
    PROVE  Stable(disk', proc', proc[p].inst[j])
<1>0. Locks(setup.file, holder, proc)
  BY Facts
<1> DEFINE y == proc[p].inst[j]
<1>1. ASSUME NEW q \in Procs, NEW i \in Jobs, proc'[q].pc[i] \in Danger, proc'[q].inst[i] = y
      PROVE  FALSE
  <2>1. proc'[q].pc[i] # "dead" /\ proc'[q].pc[i] \in Locked
    BY <1>1, PlaceFacts DEF Danger
  <2>2. q # p \/ i # j
    BY <2>1 DEF Only
  <2>3. proc'[q].pc[i] = proc[q].pc[i] /\ proc'[q].inst[i] = proc[q].inst[i]
    BY <2>2 DEF Only
  <2>4. proc[q].pc[i] \in Locked /\ setup.file[proc[q].inst[i]] = setup.file[proc[p].inst[j]]
    BY <1>1, <2>1, <2>3
  <2> QED BY <1>0, <2>2, <2>4 DEF Locks
<1> QED BY <1>1 DEF Stable

(* the part of p that a step changes                                       *)
LEMMA SettledStep ==
    ASSUME Inv, NEW p \in Procs,
           NEW t \in ProcState, Only(p, t),
           \A x \in Pkgs : Stable(disk, proc, x) => Stable(disk', proc', x),
           \A k \in DOMAIN setup.order[p] : k < t.pos =>
              \/ setup.order[p][k] \in setup.optional
              \/ t.installed[setup.order[p][k]] = "no"
              \/ Stable(disk', proc', setup.order[p][k]),
           ToSet(t.pending) \subseteq ToSet(setup.order[p]),
           \A j \in Jobs : t.pc[j] \in Under =>
              \A d \in setup.deps[t.inst[j]] \ setup.optional : Stable(disk', proc', d)
    PROVE  Settled(setup, disk', proc')
<1>1. proc'[p] = t /\ \A q \in Procs : q # p => proc'[q] = proc[q]
  BY DEF Only
<1>2. /\ \A q \in Procs : \A k \in DOMAIN setup.order[q] : setup.order[q][k] \in Pkgs
      /\ \A y \in Pkgs : setup.deps[y] \subseteq Pkgs
  BY Facts
<1>3. ASSUME NEW q \in Procs, q # p
      PROVE  /\ \A k \in DOMAIN setup.order[q] :
                   LET x == setup.order[q][k]
                   IN  k < proc[q].pos => \/ x \in setup.optional
                                       \/ proc[q].installed[x] = "no"
                                       \/ Stable(disk', proc', x)
             /\ ToSet(proc[q].pending) \subseteq ToSet(setup.order[q])
             /\ \A j \in Jobs : proc[q].pc[j] \in Under =>
                   \A d \in setup.deps[proc[q].inst[j]] \ setup.optional : Stable(disk', proc', d)
  BY <1>2, Facts DEF Settled
<1> QED BY <1>1, <1>3 DEF Settled
-----------------------------------------------------------------------------
(* A job that has taken a package goes on, or ends: what this does to the  *)
(* process, and to the disk and the locks.                                 *)
Progress(p, j, t) ==
    LET s == proc[p]
    IN  /\ SameRunner(s, t) /\ t.pending = s.pending /\ t.inst = s.inst
        /\ s.stop => t.stop
        /\ s.pc[j] \in Under /\ t.pc[j] \in Under \cup {"dead"}
        /\ \A i \in Jobs : i # j => t.pc[i] = s.pc[i]
        /\ \A g \in Groups : s.ingroup[g] # "nil" => t.ingroup[g] # "nil"
        /\ t.pc[j] = "dead" => t.stop \/ t.installed[s.inst[j]] = "yes"
        /\ \A x \in Pkgs : \/ t.installed[x] = s.installed[x]
                           \/ /\ t.installed[x] # "no"
                              /\ x \in setup.optional \/ Stable(disk', proc', x)
        /\ Counts(setup.serial, t)

OnDisk(p, j, t) ==
    LET s == proc[p]
    IN  /\ holder' \in [Files -> (Procs \X Pkgs) \cup {NONE}]
        /\ Locks(setup.file, holder', proc')
        /\ disk' \in [Pkgs -> {"empty", "partial", "saved", "done"}]
        /\ \A z \in Pkgs : z # s.inst[j] => disk'[z] = disk[z]
        /\ \/ s.pc[j] \in Danger
           \/ disk[s.inst[j]] \in {"saved", "done"} =>
                 disk'[s.inst[j]] \in {"saved", "done"} /\ t.pc[j] \notin Danger

LEMMA Goes ==
    ASSUME Inv, NEW p \in Procs, NEW j \in Jobs, NEW t \in ProcState, Only(p, t),
           setup' = setup, kills' = kills, Progress(p, j, t), OnDisk(p, j, t)
    PROVE  Inv'
<1> DEFINE s == proc[p]
<1>a. /\ SameRunner(s, t) /\ t.pending = s.pending /\ t.inst = s.inst
      /\ s.stop => t.stop
      /\ s.pc[j] \in Under /\ t.pc[j] \in Under \cup {"dead"}
      /\ \A i \in Jobs : i # j => t.pc[i] = s.pc[i]
      /\ \A g \in Groups : s.ingroup[g] # "nil" => t.ingroup[g] # "nil"
      /\ t.pc[j] = "dead" => t.stop \/ t.installed[s.inst[j]] = "yes"
      /\ \A x \in Pkgs : \/ t.installed[x] = s.installed[x]
                         \/ /\ t.installed[x] # "no"
                            /\ x \in setup.optional \/ Stable(disk', proc', x)
      /\ Counts(setup.serial, t)
  BY DEF Progress
<1>b. /\ holder' \in [Files -> (Procs \X Pkgs) \cup {NONE}]
      /\ Locks(setup.file, holder', proc')
      /\ disk' \in [Pkgs -> {"empty", "partial", "saved", "done"}]
      /\ \A z \in Pkgs : z # s.inst[j] => disk'[z] = disk[z]
      /\ \/ s.pc[j] \in Danger
         \/ disk[s.inst[j]] \in {"saved", "done"} =>
               disk'[s.inst[j]] \in {"saved", "done"} /\ t.pc[j] \notin Danger
  BY DEF OnDisk
<1> USE <1>a, <1>b
<1>1. /\ setup \in Setups /\ SetupOK(setup) /\ proc \in [Procs -> ProcState] /\ s \in ProcState
      /\ \A q \in Procs : \A i \in Jobs : proc[q].pc[i] \in Under => proc[q].inst[i] \in Pkgs
  BY Facts
<1>2. kills' \in 0..MaxKills
  BY DEF Inv, TypeOK
<1>3. Runner(setup.order[p], setup.comax, t)
  <2>1. Runner(setup.order[p], setup.comax, s)
    BY DEF Inv
  <2>2. s.pc[j] \notin {"none", "dead"} /\ t.pc[j] # "none"
    BY PlaceFacts
  <2> QED BY <1>1, <2>1, <2>2, RunnerJob
<1>4. Remaining(setup.group, t)
  <2>1. Remaining(setup.group, s) /\ setup.group \in [Pkgs -> Groups \cup {NONE}]
    BY <1>1 DEF Inv, SetupOK
  <2>2. \A x \in Pkgs : t.installed[x] = "no" => s.installed[x] = "no"
    OBVIOUS
  <2> QED BY <1>1, <2>1, <2>2, RemainingJob
<1>5. Settled(setup, disk', proc')
  <2>1. Settled(setup, disk, proc)
    BY DEF Inv
  <2>2. ASSUME NEW x \in Pkgs, Stable(disk, proc, x)
        PROVE  Stable(disk', proc', x)
    <3> QED BY <1>1, <2>2, StableJob
  <2>3. ASSUME NEW k \in DOMAIN setup.order[p], k < t.pos
        PROVE  \/ setup.order[p][k] \in setup.optional
               \/ t.installed[setup.order[p][k]] = "no"
               \/ Stable(disk', proc', setup.order[p][k])
    <3>1. setup.order[p][k] \in Pkgs
      BY <1>1, LenProperties DEF SetupOK
    <3>2. \/ setup.order[p][k] \in setup.optional
          \/ s.installed[setup.order[p][k]] = "no"
          \/ Stable(disk, proc, setup.order[p][k])
      BY <2>1, <2>3 DEF Settled, SameRunner
    <3> QED BY <2>2, <3>1, <3>2
  <2>4. ToSet(t.pending) \subseteq ToSet(setup.order[p])
    BY <2>1 DEF Settled
  <2>5. ASSUME NEW i \in Jobs, t.pc[i] \in Under, NEW d \in setup.deps[t.inst[i]] \ setup.optional
        PROVE  Stable(disk', proc', d)
    <3>1. s.pc[i] \in Under /\ t.inst[i] = s.inst[i] /\ s.inst[i] \in Pkgs
      BY <1>1, <2>5
    <3>2. d \in Pkgs
      BY <1>1, <2>5, <3>1 DEF SetupOK
    <3>3. Stable(disk, proc, d)
      BY <2>1, <2>5, <3>1 DEF Settled
    <3> QED BY <2>2, <3>2, <3>3
  <2> QED BY <1>1, <2>1, <2>2, <2>3, <2>4, <2>5, SettledStep
<1> QED BY <1>2, <1>3, <1>4, <1>5, LocalStep

(* a job that holds its lock goes on                                       *)
LEMMA Moves ==
    ASSUME Inv, NEW p \in Procs, NEW j \in Jobs, NEW w \in Locked,
           proc[p].pc[j] \in Locked, UNCHANGED <<setup, holder, kills>>,
           proc' = [proc EXCEPT ![p] = [proc[p] EXCEPT !.pc[j] = w, !.cur = NONE]],
           NEW v \in {"empty", "partial", "saved", "done"},
           disk' = [disk EXCEPT ![proc[p].inst[j]] = v],
           \/ proc[p].pc[j] \in Danger
           \/ Present(proc[p].inst[j]) => v \in {"saved", "done"} /\ w \notin Danger
    PROVE  Inv'
<1> DEFINE s == proc[p]
           t == [s EXCEPT !.pc[j] = w, !.cur = NONE]
<1>1. setup \in Setups /\ proc \in [Procs -> ProcState] /\ s \in ProcState /\ s.inst[j] \in Pkgs
  BY Facts, PlaceFacts
<1>2. w \in Places /\ w \in Under /\ w \in Inside /\ s.pc[j] \in Under /\ s.pc[j] \in Inside
  BY PlaceFacts
<1>3. /\ t \in ProcState /\ SameRunner(s, t) /\ t.pending = s.pending /\ t.inst = s.inst
      /\ t.stop = s.stop /\ t.ingroup = s.ingroup /\ t.installed = s.installed
      /\ t.working = s.working /\ t.installing = s.installing /\ t.serials = s.serials
      /\ t.parallelize = s.parallelize
      /\ t.pc[j] = w /\ \A i \in Jobs : i # j => t.pc[i] = s.pc[i]
  BY <1>1, <1>2 DEF ProcState, SameRunner
<1> HIDE DEF t
<1>4. Counts(setup.serial, t)
  <2>1. Counts(setup.serial, s)
    BY DEF Inv
  <2>2. \A i \in Jobs : /\ t.pc[i] \in Under <=> s.pc[i] \in Under
                        /\ t.pc[i] \in Inside <=> s.pc[i] \in Inside
    BY <1>2, <1>3
  <2> QED BY <1>3, <2>1, <2>2 DEF Counts
<1>7. Only(p, t) /\ setup' = setup /\ kills' = kills
  BY <1>3, Updated DEF t
<1>5. Locks(setup.file, holder', proc')
  <2>1. Locks(setup.file, holder, proc)
    BY DEF Inv
  <2>2. \A i \in Jobs : /\ t.pc[i] \in Locked <=> s.pc[i] \in Locked
                        /\ t.pc[i] \in Locked => t.inst[i] = s.inst[i]
    BY <1>3
  <2> QED BY <1>3, <1>7, <2>1, <2>2, LockSame
<1>6. /\ holder' \in [Files -> (Procs \X Pkgs) \cup {NONE}]
      /\ disk' \in [Pkgs -> {"empty", "partial", "saved", "done"}]
      /\ disk'[s.inst[j]] = v
      /\ \A z \in Pkgs : z # s.inst[j] => disk'[z] = disk[z]
  BY <1>1 DEF Inv, TypeOK
<1>8. w # "dead"
  BY <1>2, PlaceFacts
<1>9. Progress(p, j, t)
  BY <1>2, <1>3, <1>4, <1>8 DEF Progress
<1>10. OnDisk(p, j, t)
  BY <1>3, <1>5, <1>6 DEF OnDisk, Present
<1> QED BY <1>3, <1>7, <1>9, <1>10, Goes

(* a job ends and its package is unlocked                                  *)
LEMMA Ends ==
    ASSUME Inv, NEW p \in Procs, NEW j \in Jobs, NEW t \in ProcState, Only(p, t),
           setup' = setup, kills' = kills, Progress(p, j, t),
           proc[p].pc[j] \in Locked, t.pc[j] = "dead", Unlock(proc[p].inst[j]),
           NEW v \in {"empty", "partial", "saved", "done"},
           disk' = [disk EXCEPT ![proc[p].inst[j]] = v],
           \/ proc[p].pc[j] \in Danger
           \/ Present(proc[p].inst[j]) => v \in {"saved", "done"}
    PROVE  Inv'
<1> DEFINE s == proc[p]
           x == proc[p].inst[j]
<1>1. x \in Pkgs /\ setup.file[x] \in Files
  BY Facts, PlaceFacts
<1>2. holder' = [holder EXCEPT ![setup.file[x]] = NONE]
  BY DEF Unlock, File
<1>3. /\ "dead" \notin Locked /\ "dead" \notin Danger
      /\ \A i \in Jobs : i # j => t.pc[i] = proc[p].pc[i] /\ t.inst[i] = proc[p].inst[i]
  BY PlaceFacts DEF Progress
<1>4. Locks(setup.file, holder', proc')
  <2>1. t.pc[j] \notin Locked
    BY <1>3
  <2> QED BY <1>2, <1>3, <2>1, LockReleased
<1>5. /\ holder' \in [Files -> (Procs \X Pkgs) \cup {NONE}]
      /\ disk' \in [Pkgs -> {"empty", "partial", "saved", "done"}]
      /\ disk'[x] = v
      /\ \A z \in Pkgs : z # x => disk'[z] = disk[z]
  BY <1>1, <1>2, Facts
<1>6. OnDisk(p, j, t)
  BY <1>3, <1>4, <1>5 DEF OnDisk, Present
<1> QED BY <1>6, Goes

(* the end of the try block, for a package that is there or need not be    *)
LEMMA CompletesStep ==
    ASSUME Inv, NEW p \in Procs, NEW j \in Jobs, NEW there \in BOOLEAN, Completes(p, j, there),
           setup' = setup, kills' = kills, proc[p].pc[j] \in Locked,
           NEW v \in {"empty", "partial", "saved", "done"},
           disk' = [disk EXCEPT ![proc[p].inst[j]] = v],
           IF there THEN v \in {"saved", "done"} ELSE proc[p].inst[j] \in setup.optional,
           \/ proc[p].pc[j] \in Danger
           \/ Present(proc[p].inst[j]) => v \in {"saved", "done"}
    PROVE  Inv'
<1> DEFINE s == proc[p]
           x == s.inst[j]
           g == Group(x)
           r == [s EXCEPT !.installed[x] = "yes",
                          !.ingroup = IF g = NONE THEN @
                                      ELSE [@ EXCEPT ![g] = IF there THEN "installed"
                                                            ELSE "failed"]]
           t == Done(r, j)
<1>1. s \in ProcState /\ x \in Pkgs /\ s.pc[j] \in Inside /\ s.pc[j] \in Under /\ setup \in Setups
  BY Facts, PlaceFacts
<1>2. g # NONE => g \in Groups
  BY <1>1, Facts DEF Group
<1>3. Unlock(x) /\ proc' = [proc EXCEPT ![p] = t]
  BY DEF Completes, Update, Done
<1> HIDE DEF g, t
<1>4. /\ r \in ProcState /\ r.pc = s.pc /\ r.inst = s.inst /\ r.pending = s.pending
      /\ r.working = s.working /\ r.installing = s.installing /\ r.serials = s.serials
      /\ r.parallelize = s.parallelize /\ r.stop = s.stop /\ SameRunner(s, r)
      /\ r.installed = [s.installed EXCEPT ![x] = "yes"]
      /\ \A h \in Groups : s.ingroup[h] # "nil" => r.ingroup[h] # "nil"
  BY <1>1, <1>2 DEF ProcState, SameRunner
<1>5. t = Done(r, j)
  BY DEF t
<1> HIDE DEF r
<1>6. Counts(setup.serial, r)
  <2>1. Counts(setup.serial, s)
    BY DEF Inv
  <2> QED BY <1>4, <2>1 DEF Counts
<1>7. /\ t \in ProcState /\ Counts(setup.serial, t)
      /\ SameRunner(r, t) /\ t.pending = r.pending
      /\ t.inst = r.inst /\ t.installed = r.installed
      /\ t.pc[j] = "dead" /\ \A i \in Jobs : i # j => t.pc[i] = r.pc[i]
      /\ r.stop => t.stop
      /\ \A h \in Groups : r.ingroup[h] # "nil" => t.ingroup[h] # "nil"
  <2>1. r \in ProcState /\ r.pc[j] \in Inside /\ setup \in Setups
    BY <1>1, <1>4
  <2> HIDE DEF x, s
  <2> QED BY <1>5, <1>6, <2>1, FinallyEffect
<1>8. Only(p, t)
  BY <1>3, <1>7, Updated
<1>9. ASSUME NEW y \in Pkgs
      PROVE  \/ t.installed[y] = s.installed[y]
             \/ /\ t.installed[y] # "no"
                /\ y \in setup.optional \/ Stable(disk', proc', y)
  <2>1. CASE y # x
    BY <1>4, <1>7, <1>1, <2>1 DEF ProcState
  <2>2. CASE y = x
    <3>1. t.installed[x] = "yes"
      BY <1>1, <1>4, <1>7 DEF ProcState
    <3>2. there => disk'[x] \in {"saved", "done"}
      BY <1>1, Facts
    <3>3. there => Stable(disk', proc', x)
      <4>1. t.inst = s.inst /\ \A i \in Jobs : i # j => t.pc[i] = s.pc[i]
        BY <1>4, <1>7
      <4> QED BY <1>7, <1>8, <3>2, <4>1, StableNew
    <3> QED BY <2>2, <3>1, <3>3
  <2> QED BY <2>1, <2>2
<1>10. t.installed[x] = "yes"
  BY <1>1, <1>4, <1>7 DEF ProcState
<1>11. SameRunner(s, t)
  BY <1>4, <1>7 DEF SameRunner
<1>12. Progress(p, j, t)
  BY <1>1, <1>4, <1>7, <1>9, <1>10, <1>11 DEF Progress
<1> QED BY <1>3, <1>7, <1>8, <1>12, Ends

(* download or installation failed for good                                *)
LEMMA FailsStep ==
    ASSUME Inv, NEW p \in Procs, NEW j \in Jobs, Fails(p, j),
           setup' = setup, kills' = kills, proc[p].pc[j] \in Locked,
           NEW v \in {"empty", "partial", "saved", "done"},
           disk' = [disk EXCEPT ![proc[p].inst[j]] = v],
           \/ proc[p].pc[j] \in Danger
           \/ Present(proc[p].inst[j]) => v \in {"saved", "done"}
    PROVE  Inv'
<1> DEFINE s == proc[p]
           t == Raised(s, j)
<1>1. s \in ProcState /\ s.pc[j] \in Inside /\ s.pc[j] \in Under /\ setup \in Setups
  BY Facts, PlaceFacts
<1>2. CASE s.inst[j] \in setup.optional
  <2>1. Completes(p, j, FALSE)
    BY <1>2 DEF Fails
  <2> QED BY <1>2, <2>1, CompletesStep
<1>3. CASE s.inst[j] \notin setup.optional
  <2>1. Unlock(s.inst[j]) /\ proc' = [proc EXCEPT ![p] = t]
    BY <1>3 DEF Fails, Update, Raised
  <2>2. t = Raised(s, j)
    OBVIOUS
  <2> HIDE DEF t
  <2>3. Counts(setup.serial, s)
    BY DEF Inv
  <2>4. /\ t \in ProcState /\ Counts(setup.serial, t)
        /\ SameRunner(s, t) /\ t.pending = s.pending
        /\ t.inst = s.inst /\ t.installed = s.installed
        /\ t.pc[j] = "dead" /\ \A i \in Jobs : i # j => t.pc[i] = s.pc[i]
        /\ t.stop
        /\ \A h \in Groups : s.ingroup[h] # "nil" => t.ingroup[h] # "nil"
    BY <1>1, <2>2, <2>3, FinallyEffect
  <2>5. Only(p, t)
    BY <2>1, <2>4, Updated
  <2>6. Progress(p, j, t)
    BY <1>1, <2>4 DEF Progress
  <2> QED BY <2>1, <2>4, <2>5, <2>6, Ends
<1> QED BY <1>2, <1>3
-----------------------------------------------------------------------------
(* The actions of a job that holds its lock.                               *)

(* what stays as it is could have been written again                       *)
LEMMA Rewritten ==
    ASSUME Inv, NEW x \in Pkgs
    PROVE  /\ disk[x] \in {"empty", "partial", "saved", "done"}
           /\ disk = [disk EXCEPT ![x] = disk[x]]
           /\ Present(x) <=> disk[x] \in {"saved", "done"}
BY Facts DEF Present

LEMMA DownloadStep ==
    ASSUME Inv, NEW p \in Procs, NEW j \in Jobs, Download(p, j)
    PROVE  Inv'
<1> DEFINE s == proc[p]
           x == s.inst[j]
<1>1. s.pc[j] = "download" /\ s.pc[j] \in Locked /\ setup' = setup /\ kills' = kills
  BY DEF Download, Locked, Inside
<1>2. x \in Pkgs
  BY <1>1, Facts, PlaceFacts
<1>3. CASE /\ Update(p, [s EXCEPT !.pc[j] = "install", !.cur = NONE])
           /\ disk' = [disk EXCEPT ![x] = IF Present(x) THEN @ ELSE "partial"]
           /\ UNCHANGED holder
  <2> DEFINE v == IF Present(x) THEN disk[x] ELSE "partial"
  <2>1. v \in {"empty", "partial", "saved", "done"} /\ (Present(x) => v \in {"saved", "done"})
    BY <1>2, Rewritten
  <2>2. disk' = [disk EXCEPT ![x] = v]
    BY <1>2, <1>3, Facts
  <2>3. "install" \in Locked /\ "install" \notin Danger
    BY DEF Locked, Inside, Danger
  <2>4. proc' = [proc EXCEPT ![p] = [proc[p] EXCEPT !.pc[j] = "install", !.cur = NONE]]
    BY <1>3 DEF Update
  <2> HIDE DEF v
  <2> QED BY <1>1, <1>3, <2>1, <2>2, <2>3, <2>4, Moves
<1>4. CASE Fails(p, j) /\ UNCHANGED disk
  BY <1>1, <1>2, <1>4, Rewritten, FailsStep
<1> QED BY <1>3, <1>4 DEF Download

LEMMA InstallFailsStep ==
    ASSUME Inv, NEW p \in Procs, NEW j \in Jobs, InstallFails(p, j),
           setup' = setup, kills' = kills, proc[p].pc[j] \in Locked,
           proc[p].pc[j] \in Danger \/ ~Present(proc[p].inst[j])
    PROVE  Inv'
<1> DEFINE s == proc[p]
           x == s.inst[j]
<1>1. disk' = [disk EXCEPT ![x] = "empty"]
  BY DEF InstallFails
<1>2. CASE Fails(p, j)
  BY <1>1, <1>2, FailsStep
<1>3. CASE Update(p, [proc[p] EXCEPT !.pc[j] = "redo", !.cur = NONE]) /\ UNCHANGED holder
  <2>1. "redo" \in Locked
    BY DEF Locked, Inside
  <2>2. proc' = [proc EXCEPT ![p] = [proc[p] EXCEPT !.pc[j] = "redo", !.cur = NONE]]
    BY <1>3 DEF Update
  <2> QED BY <1>1, <1>3, <2>1, <2>2, Moves
<1> QED BY <1>2, <1>3 DEF InstallFails

LEMMA InstallStep ==
    ASSUME Inv, NEW p \in Procs, NEW j \in Jobs, Install(p, j)
    PROVE  Inv'
<1> DEFINE s == proc[p]
           x == s.inst[j]
<1>1. s.pc[j] = "install" /\ s.pc[j] \in Locked /\ setup' = setup /\ kills' = kills
  BY DEF Install, Locked, Inside
<1>2. x \in Pkgs
  BY <1>1, Facts, PlaceFacts
<1>3. CASE Present(x) /\ Completes(p, j, TRUE) /\ UNCHANGED disk
  <2>1. PICK v \in {"empty", "partial", "saved", "done"} :
           disk' = [disk EXCEPT ![x] = v] /\ v \in {"saved", "done"}
    BY <1>2, <1>3, Rewritten
  <2> QED BY <1>1, <1>3, <2>1, CompletesStep
<1>4. CASE /\ ~Present(x) /\ disk' = [disk EXCEPT ![x] = "saved"]
           /\ Update(p, [s EXCEPT !.pc[j] = "test", !.cur = NONE])
           /\ UNCHANGED holder
  <2>1. "test" \in Locked
    BY DEF Locked, Inside
  <2>2. proc' = [proc EXCEPT ![p] = [proc[p] EXCEPT !.pc[j] = "test", !.cur = NONE]]
    BY <1>4 DEF Update
  <2> QED BY <1>1, <1>4, <2>1, <2>2, Moves
<1>5. CASE ~Present(x) /\ InstallFails(p, j)
  BY <1>1, <1>5, InstallFailsStep
<1> QED BY <1>3, <1>4, <1>5 DEF Install

LEMMA TestStep ==
    ASSUME Inv, NEW p \in Procs, NEW j \in Jobs, Test(p, j)
    PROVE  Inv'
<1> DEFINE s == proc[p]
           x == s.inst[j]
<1>1. s.pc[j] \in Danger /\ s.pc[j] \in Locked /\ setup' = setup /\ kills' = kills
  BY DEF Test, Locked, Inside, Danger
<1>2. CASE disk' = [disk EXCEPT ![x] = "done"] /\ Completes(p, j, TRUE)
  BY <1>1, <1>2, CompletesStep
<1>3. CASE InstallFails(p, j)
  BY <1>1, <1>3, InstallFailsStep
<1> QED BY <1>2, <1>3 DEF Test

LEMMA RedoStep ==
    ASSUME Inv, NEW p \in Procs, NEW j \in Jobs, Redo(p, j)
    PROVE  Inv'
<1> DEFINE s == proc[p]
           x == s.inst[j]
<1>1. s.pc[j] \in Danger /\ s.pc[j] \in Locked /\ setup' = setup /\ kills' = kills
  BY DEF Redo, Locked, Inside, Danger
<1>2. CASE /\ disk' = [disk EXCEPT ![x] = "saved"]
           /\ Update(p, [s EXCEPT !.pc[j] = "retest", !.cur = NONE])
           /\ UNCHANGED holder
  <2>1. "retest" \in Locked
    BY DEF Locked, Inside
  <2>2. proc' = [proc EXCEPT ![p] = [proc[p] EXCEPT !.pc[j] = "retest", !.cur = NONE]]
    BY <1>2 DEF Update
  <2> QED BY <1>1, <1>2, <2>1, <2>2, Moves
<1>3. CASE disk' = [disk EXCEPT ![x] = "empty"] /\ Fails(p, j)
  BY <1>1, <1>3, FailsStep
<1> QED BY <1>2, <1>3 DEF Redo
-----------------------------------------------------------------------------
(* The gate and the lock.                                                  *)

(* what is on the disk stays when the disk does and nobody gets to a place *)
(* from where a package can be taken back                                  *)
LEMMA StillStable ==
    ASSUME Inv, NEW p \in Procs, NEW t \in ProcState, Only(p, t), disk' = disk,
           \A i \in Jobs : t.pc[i] \in Danger =>
              proc[p].pc[i] \in Danger /\ t.inst[i] = proc[p].inst[i],
           NEW x, Stable(disk, proc, x)
    PROVE  Stable(disk', proc', x)
<1>1. disk'[x] \in {"saved", "done"}
  BY DEF Stable
<1>2. \A i \in Jobs : t.pc[i] \in Danger /\ t.inst[i] = x =>
         proc[p].pc[i] \in Danger /\ proc[p].inst[i] = x
  OBVIOUS
<1> QED BY <1>1, <1>2, StableStep

(* a step of the process that leaves what its jobs have taken              *)
LEMMA Beside ==
    ASSUME Inv, NEW p \in Procs, NEW t \in ProcState, Only(p, t),
           UNCHANGED <<setup, holder, disk>>, kills' = kills,
           \A i \in Jobs : /\ t.pc[i] \in Under <=> proc[p].pc[i] \in Under
                           /\ t.pc[i] \in Under => /\ t.pc[i] = proc[p].pc[i]
                                                   /\ t.inst[i] = proc[p].inst[i],
           t.working = proc[p].working, t.installing = proc[p].installing,
           t.serials = proc[p].serials, t.parallelize = proc[p].parallelize,
           Settled(setup, disk', proc'),
           Runner(setup.order[p], setup.comax, t),
           Remaining(setup.group, t)
    PROVE  Inv'
<1> DEFINE s == proc[p]
<1>1. /\ \A i \in Jobs : t.pc[i] \in Inside <=> s.pc[i] \in Inside
      /\ \A i \in Jobs : /\ t.pc[i] \in Locked <=> s.pc[i] \in Locked
                         /\ t.pc[i] \in Locked => t.inst[i] = s.inst[i]
      /\ \A i \in Jobs : t.pc[i] \in Danger => s.pc[i] \in Danger /\ t.inst[i] = s.inst[i]
  BY PlaceFacts
<1>2. Counts(setup.serial, t)
  <2>1. Counts(setup.serial, s)
    BY DEF Inv
  <2>2. /\ {i \in Jobs : t.pc[i] \in Under} = {i \in Jobs : s.pc[i] \in Under}
        /\ {i \in Jobs : t.pc[i] \in Inside} = {i \in Jobs : s.pc[i] \in Inside}
        /\ {i \in Jobs : t.pc[i] \in Under /\ t.inst[i] \in setup.serial} =
           {i \in Jobs : s.pc[i] \in Under /\ s.inst[i] \in setup.serial}
    BY <1>1
  <2>3. \A i \in Jobs : t.pc[i] \in Under => t.inst[i] \in Pkgs
    BY <2>1 DEF Counts
  <2>4. \A i, j \in Jobs :
           t.pc[i] \in Inside /\ t.pc[j] \in Inside /\ t.inst[i] \in setup.serial => i = j
    BY <1>1, <2>1, PlaceFacts DEF Counts
  <2> QED BY <2>1, <2>2, <2>3, <2>4 DEF Counts
<1>3. Locks(setup.file, holder', proc')
  BY <1>1, LockSame
<1>5. /\ holder' \in [Files -> (Procs \X Pkgs) \cup {NONE}] /\ kills' \in 0..MaxKills
      /\ disk' \in [Pkgs -> {"empty", "partial", "saved", "done"}]
  BY Facts
<1> QED BY <1>2, <1>3, <1>5, LocalStep

(* the same, for a step that finds out nothing of the packages             *)
LEMMA Apart ==
    ASSUME Inv, NEW p \in Procs, NEW t \in ProcState, Only(p, t),
           UNCHANGED <<setup, holder, disk>>, kills' = kills,
           \A i \in Jobs : /\ t.pc[i] \in Under <=> proc[p].pc[i] \in Under
                           /\ t.pc[i] \in Under => /\ t.pc[i] = proc[p].pc[i]
                                                   /\ t.inst[i] = proc[p].inst[i],
           t.working = proc[p].working, t.installing = proc[p].installing,
           t.serials = proc[p].serials, t.parallelize = proc[p].parallelize,
           t.pos = proc[p].pos, t.installed = proc[p].installed,
           ToSet(t.pending) \subseteq ToSet(proc[p].pending),
           Runner(setup.order[p], setup.comax, t),
           Remaining(setup.group, t)
    PROVE  Inv'
<1> DEFINE s == proc[p]
<1>1. /\ \A i \in Jobs : t.pc[i] \in Inside <=> s.pc[i] \in Inside
      /\ \A i \in Jobs : /\ t.pc[i] \in Locked <=> s.pc[i] \in Locked
                         /\ t.pc[i] \in Locked => t.inst[i] = s.inst[i]
      /\ \A i \in Jobs : t.pc[i] \in Danger => s.pc[i] \in Danger /\ t.inst[i] = s.inst[i]
  BY PlaceFacts
<1>4. Settled(setup, disk', proc')
  <2>1. ASSUME NEW x \in Pkgs, Stable(disk, proc, x)
        PROVE  Stable(disk', proc', x)
    BY <1>1, <2>1, StillStable
  <2>2. ASSUME NEW k \in DOMAIN setup.order[p], k < t.pos
        PROVE  \/ setup.order[p][k] \in setup.optional
               \/ t.installed[setup.order[p][k]] = "no"
               \/ Stable(disk', proc', setup.order[p][k])
    BY <2>1, <2>2, Facts DEF Settled
  <2>3. ToSet(t.pending) \subseteq ToSet(setup.order[p])
    BY Facts DEF Settled
  <2>4. ASSUME NEW i \in Jobs, t.pc[i] \in Under, NEW d \in setup.deps[t.inst[i]] \ setup.optional
        PROVE  Stable(disk', proc', d)
    <3>1. s.pc[i] \in Under /\ t.inst[i] = s.inst[i] /\ s.inst[i] \in Pkgs
      BY <2>4, Facts
    <3>2. d \in Pkgs
      BY <2>4, <3>1, Facts
    <3>3. Stable(disk, proc, d)
      BY <2>4, <3>1, Facts DEF Settled
    <3> QED BY <2>1, <3>2, <3>3
  <2> QED BY <2>1, <2>2, <2>3, <2>4, SettledStep
<1> QED BY <1>4, Beside

(* a coroutine goes to sleep                                               *)
LEMMA SleepsStep ==
    ASSUME Inv, NEW p \in Procs, Update(p, Sleeps(proc[p])),
           UNCHANGED <<setup, holder, disk, kills>>
    PROVE  Inv'
<1> DEFINE s == proc[p]
           t == Sleeps(s)
<1>1. s \in ProcState
  BY Facts
<1>2. /\ t \in ProcState /\ SameRunner(s, t) /\ t.pending = s.pending /\ t.inst = s.inst
      /\ t.stop = s.stop /\ t.installed = s.installed /\ t.ingroup = s.ingroup
      /\ t.working = s.working /\ t.installing = s.installing /\ t.serials = s.serials
      /\ t.parallelize = s.parallelize /\ t.pc = s.pc
  BY <1>1 DEF ProcState, SameRunner, Sleeps
<1>3. proc' = [proc EXCEPT ![p] = t]
  BY DEF Update
<1> HIDE DEF t
<1>4. Only(p, t)
  BY <1>2, <1>3, Updated
<1>5. Runner(setup.order[p], setup.comax, s) /\ Remaining(setup.group, s)
  BY DEF Inv
<1>6. Runner(setup.order[p], setup.comax, t)
  BY <1>2, <1>5 DEF Runner, SameRunner
<1>7. Remaining(setup.group, t)
  BY <1>2, <1>5 DEF Remaining, SameRunner
<1>8. t.pos = s.pos
  BY <1>2 DEF SameRunner
<1> QED BY <1>2, <1>4, <1>6, <1>7, <1>8, Apart

LEMMA GateStep ==
    ASSUME Inv, NEW p \in Procs, NEW j \in Jobs, Gate(p, j)
    PROVE  Inv'
<1>a. CASE Update(p, Sleeps(proc[p]))
  BY <1>a, SleepsStep DEF Gate
<1>b. SUFFICES ASSUME ~Update(p, Sleeps(proc[p]))
               PROVE  Inv'
  BY <1>a
<1> DEFINE s == proc[p]
           x == s.inst[j]
           g == Group(x)
           r == [s EXCEPT !.installing = @ + 1, !.pc[j] = "lock", !.cur = j]
           t == IF g = NONE THEN r ELSE [r EXCEPT !.ingroup[g] = "installing"]
<1>1. /\ s.pc[j] = "gate" /\ GateOpen(s, x) /\ proc' = [proc EXCEPT ![p] = t]
      /\ UNCHANGED <<setup, holder, disk, kills>>
  BY <1>b DEF Gate, Update
<1>2. /\ s \in ProcState /\ x \in Pkgs /\ s.pc[j] \in Under /\ s.pc[j] \notin Inside
      /\ s.pc[j] \notin Danger /\ s.pc[j] \notin Locked
      /\ "lock" \in Under /\ "lock" \in Inside /\ "lock" \notin Danger /\ "lock" \notin Locked
      /\ "lock" \in Places
  BY <1>1, Facts, PlaceFacts DEF Inside
<1>3. g # NONE => g \in Groups
  BY <1>2, Facts DEF Group
<1> HIDE DEF g
<1>4. /\ r \in ProcState /\ SameRunner(s, r) /\ r.pending = s.pending /\ r.inst = s.inst
      /\ r.stop = s.stop /\ r.installed = s.installed /\ r.ingroup = s.ingroup
      /\ r.working = s.working /\ r.installing = s.installing + 1 /\ r.serials = s.serials
      /\ r.parallelize = s.parallelize
      /\ r.pc[j] = "lock" /\ \A i \in Jobs : i # j => r.pc[i] = s.pc[i]
  <2>1. \A n \in Nat : [s EXCEPT !.installing = n, !.pc[j] = "lock", !.cur = j] \in ProcState
    BY <1>2 DEF ProcState
  <2>2. s.installing + 1 \in Nat
    BY <1>2 DEF ProcState
  <2>3. r \in ProcState
    BY <2>1, <2>2
  <2>4. /\ r.pending = s.pending /\ r.inst = s.inst /\ r.stop = s.stop
        /\ r.installed = s.installed /\ r.ingroup = s.ingroup
        /\ r.working = s.working /\ r.serials = s.serials /\ r.parallelize = s.parallelize
    BY <1>2 DEF ProcState
  <2>5. SameRunner(s, r)
    BY <1>2 DEF ProcState, SameRunner
  <2>6. r.installing = s.installing + 1 /\ r.pc = [s.pc EXCEPT ![j] = "lock"]
    BY <1>2 DEF ProcState
  <2>7. r.pc[j] = "lock" /\ \A i \in Jobs : i # j => r.pc[i] = s.pc[i]
    BY <1>2, <2>6 DEF ProcState
  <2> QED BY <2>3, <2>4, <2>5, <2>6, <2>7
<1> HIDE DEF r
<1>5. /\ t \in ProcState /\ SameRunner(r, t) /\ t.pending = r.pending /\ t.inst = r.inst
      /\ t.stop = r.stop /\ t.installed = r.installed
      /\ \A h \in Groups : r.ingroup[h] # "nil" => t.ingroup[h] # "nil"
      /\ t.working = r.working /\ t.installing = r.installing /\ t.serials = r.serials
      /\ t.parallelize = r.parallelize /\ t.pc = r.pc
  <2>1. CASE g = NONE
    BY <1>4, <2>1 DEF SameRunner
  <2>2. CASE g # NONE
    BY <1>3, <1>4, <2>2 DEF ProcState, SameRunner
  <2> QED BY <2>1, <2>2
<1> HIDE DEF t
<1>6. /\ SameRunner(s, t) /\ t.pending = s.pending /\ t.inst = s.inst
      /\ t.stop = s.stop /\ t.installed = s.installed
      /\ t.working = s.working /\ t.installing = s.installing + 1 /\ t.serials = s.serials
      /\ t.parallelize = s.parallelize
      /\ t.pc[j] = "lock" /\ \A i \in Jobs : i # j => t.pc[i] = s.pc[i]
  BY <1>4, <1>5 DEF SameRunner
<1>7. Counts(setup.serial, t)
  <2>1. /\ Counts(setup.serial, s) /\ (s.parallelize <=> s.serials = 0)
        /\ s.working \in Nat /\ s.installing \in Nat /\ s.serials \in Nat
    BY <1>2 DEF Inv, Counts, ProcState
  <2>2. /\ t.working = s.working + By(s.pc[j] \in Under, t.pc[j] \in Under)
        /\ t.installing = s.installing + By(s.pc[j] \in Inside, t.pc[j] \in Inside)
        /\ t.serials = s.serials + By(s.pc[j] \in Under /\ s.inst[j] \in setup.serial,
                                      t.pc[j] \in Under /\ t.inst[j] \in setup.serial)
    BY <1>2, <1>6, <2>1 DEF By
  <2>3. IF t.inst[j] \in setup.serial THEN s.installing = 0 ELSE s.parallelize
    BY <1>1, <1>6 DEF GateOpen
  <2>4. /\ \A i \in Jobs : i # j => t.pc[i] = s.pc[i] /\ t.inst[i] = s.inst[i]
        /\ t.parallelize <=> t.serials = 0
        /\ t.inst[j] \in Pkgs
    BY <1>2, <1>6, <2>1
  <2> QED BY <1>2, <2>1, <2>2, <2>3, <2>4, CountsStep
<1>8. Only(p, t)
  BY <1>1, <1>5, Updated
<1>9. Locks(setup.file, holder', proc')
  <2>1. \A i \in Jobs : /\ t.pc[i] \in Locked <=> proc[p].pc[i] \in Locked
                        /\ t.pc[i] \in Locked => t.inst[i] = proc[p].inst[i]
    BY <1>2, <1>6
  <2>2. holder' = holder
    BY <1>1
  <2> QED BY <1>5, <1>8, <2>1, <2>2, LockSame
<1>10. Progress(p, j, t)
  BY <1>2, <1>4, <1>5, <1>6, <1>7 DEF Progress
<1>11. OnDisk(p, j, t)
  BY <1>1, <1>2, <1>6, <1>9, Facts DEF OnDisk
<1> QED BY <1>1, <1>5, <1>8, <1>10, <1>11, Goes

LEMMA LockStep ==
    ASSUME Inv, NEW p \in Procs, NEW j \in Jobs, Lock(p, j)
    PROVE  Inv'
<1> DEFINE s == proc[p]
           x == s.inst[j]
           t == [s EXCEPT !.pc[j] = "download", !.cur = NONE]
<1>1. /\ s.pc[j] = "lock" /\ holder[setup.file[x]] = NONE
      /\ holder' = [holder EXCEPT ![setup.file[x]] = Owner(p, x)]
      /\ proc' = [proc EXCEPT ![p] = t]
      /\ UNCHANGED <<setup, disk, kills>>
  BY DEF Lock, Update, File, Owner
<1>2. /\ s \in ProcState /\ x \in Pkgs /\ s.pc[j] \in Under /\ s.pc[j] \in Inside
      /\ s.pc[j] \notin Danger /\ s.pc[j] \notin Locked
      /\ "download" \in Under /\ "download" \in Inside /\ "download" \in Locked
      /\ "download" \notin Danger
  BY <1>1, Facts, PlaceFacts DEF Locked, Inside
<1>3. /\ t \in ProcState /\ SameRunner(s, t) /\ t.pending = s.pending /\ t.inst = s.inst
      /\ t.stop = s.stop /\ t.installed = s.installed /\ t.ingroup = s.ingroup
      /\ t.working = s.working /\ t.installing = s.installing /\ t.serials = s.serials
      /\ t.parallelize = s.parallelize
      /\ t.pc[j] = "download" /\ \A i \in Jobs : i # j => t.pc[i] = s.pc[i]
  BY <1>2, PlaceFacts DEF ProcState, SameRunner
<1> HIDE DEF t
<1>4. Counts(setup.serial, t)
  <2>1. Counts(setup.serial, s)
    BY DEF Inv
  <2>2. \A i \in Jobs : /\ t.pc[i] \in Under <=> s.pc[i] \in Under
                        /\ t.pc[i] \in Inside <=> s.pc[i] \in Inside
    BY <1>2, <1>3
  <2> QED BY <1>3, <2>1, <2>2 DEF Counts
<1>5. Only(p, t)
  BY <1>1, <1>3, Updated
<1>6. Locks(setup.file, holder', proc')
  <2>1. /\ t.inst[j] = x /\ t.pc[j] \in Locked
        /\ \A i \in Jobs : i # j => t.pc[i] = proc[p].pc[i] /\ t.inst[i] = proc[p].inst[i]
    BY <1>2, <1>3
  <2> QED BY <1>1, <1>2, <1>3, <1>5, <2>1, LockTaken
<1>7. Progress(p, j, t)
  BY <1>2, <1>3, <1>4 DEF Progress
<1>8. holder' \in [Files -> (Procs \X Pkgs) \cup {NONE}]
  BY <1>1, <1>2, Facts
<1>9. OnDisk(p, j, t)
  BY <1>1, <1>2, <1>3, <1>6, <1>8, Facts DEF OnDisk
<1> QED BY <1>1, <1>3, <1>5, <1>7, <1>9, Goes
-----------------------------------------------------------------------------
(* The loop over packages_pending.                                         *)

(* the jobs that are still to look for a package                           *)
Idle(s) == {i \in Jobs : i <= s.total /\ s.pc[i] \in {"none", "pick"}}

LEMMA IdleFacts ==
    ASSUME Inv, NEW p \in Procs, NEW j \in Jobs, proc[p].pc[j] = "pick"
    PROVE  /\ j \in Idle(proc[p])
           /\ proc[p].pos = Len(setup.order[p]) + 1 /\ Len(setup.order[p]) \in Nat
           /\ proc[p].main # "done"
<1> DEFINE s == proc[p]
<1>1. Runner(setup.order[p], setup.comax, s) /\ s \in ProcState
  BY Facts DEF Inv
<1>2. s.index \in Nat /\ s.total \in Nat /\ j \in Nat /\ j <= s.index /\ j > 0
  BY <1>1, JobsFinite DEF Runner, ProcState, Jobs
<1>3. s.index <= s.total
  BY <1>1 DEF Runner
<1>4. s.main # "fetch" /\ s.pos = Len(setup.order[p]) + 1
  BY <1>1, <1>2 DEF Runner
<1>5. s.main # "done"
  BY <1>1, <1>2 DEF Runner
<1>6. Len(setup.order[p]) \in Nat
  BY Facts, OrderBound
<1> QED BY <1>2, <1>3, <1>4, <1>5, <1>6 DEF Idle

(* a job drops a package or ends without one, or raises                    *)
Dropped(p, j, t) ==
    LET s == proc[p]
    IN  /\ SameRunner(s, t) /\ t.inst = s.inst /\ t.installed = s.installed
        /\ t.ingroup = s.ingroup
        /\ t.working = s.working /\ t.installing = s.installing /\ t.serials = s.serials
        /\ t.parallelize = s.parallelize
        /\ t.pc[j] \in {"pick", "dead"} /\ \A i \in Jobs : i # j => t.pc[i] = s.pc[i]
        /\ s.stop => t.stop
        /\ ToSet(t.pending) \subseteq ToSet(s.pending)
        /\ \A x \in ToSet(s.pending) :
              x \in ToSet(t.pending) \/ (Group(x) # NONE /\ s.ingroup[Group(x)] # "nil")
        /\ Len(t.pending) <= Len(s.pending)
        /\ ~t.stop /\ t.pc[j] = "dead" =>
              Len(t.pending) = 0 \/ Len(t.pending) <= Len(s.pending) - 1

LEMMA DropsStep ==
    ASSUME Inv, NEW p \in Procs, NEW j \in Jobs, NEW t \in ProcState, Only(p, t),
           UNCHANGED <<setup, holder, disk, kills>>, proc[p].pc[j] = "pick", Dropped(p, j, t)
    PROVE  Inv'
<1> DEFINE s == proc[p]
<1>1. /\ SameRunner(s, t) /\ t.inst = s.inst /\ t.installed = s.installed
      /\ t.ingroup = s.ingroup
      /\ t.working = s.working /\ t.installing = s.installing /\ t.serials = s.serials
      /\ t.parallelize = s.parallelize
      /\ t.pc[j] \in {"pick", "dead"} /\ \A i \in Jobs : i # j => t.pc[i] = s.pc[i]
      /\ s.stop => t.stop
      /\ ToSet(t.pending) \subseteq ToSet(s.pending)
      /\ \A x \in ToSet(s.pending) :
            x \in ToSet(t.pending) \/ (Group(x) # NONE /\ s.ingroup[Group(x)] # "nil")
      /\ Len(t.pending) <= Len(s.pending)
      /\ ~t.stop /\ t.pc[j] = "dead" =>
            Len(t.pending) = 0 \/ Len(t.pending) <= Len(s.pending) - 1
  BY DEF Dropped
<1>2. /\ s \in ProcState /\ Runner(setup.order[p], setup.comax, s) /\ Remaining(setup.group, s)
      /\ Len(s.pending) \in Nat /\ Len(t.pending) \in Nat
  BY Facts, LenProperties DEF Inv, ProcState
<1>3. Runner(setup.order[p], setup.comax, t)
  <2>1. s.pc[j] \notin {"none", "dead"} /\ t.pc[j] # "none"
    BY <1>1
  <2> QED BY <1>1, <1>2, <2>1, RunnerJob
<1>4. \A i \in Jobs : /\ t.pc[i] \in Under <=> s.pc[i] \in Under
                      /\ t.pc[i] \in Under => t.pc[i] = s.pc[i] /\ t.inst[i] = s.inst[i]
  <2>1. t.pc[j] \notin Under /\ s.pc[j] \notin Under
    BY <1>1, PlaceFacts
  <2> QED BY <1>1, <2>1
<1>5. ASSUME NEW x \in Pkgs, t.installed[x] = "no"
      PROVE  \/ t.stop
             \/ x \in ToSet(t.pending)
             \/ \E i \in Jobs : t.pc[i] \in Under /\ t.inst[i] = x
             \/ setup.group[x] # NONE /\ t.ingroup[setup.group[x]] # "nil"
  <2>1. \/ s.stop
        \/ x \in ToSet(s.pending)
        \/ \E i \in Jobs : s.pc[i] \in Under /\ s.inst[i] = x
        \/ setup.group[x] # NONE /\ s.ingroup[setup.group[x]] # "nil"
    BY <1>1, <1>2, <1>5 DEF Remaining
  <2>2. CASE x \in ToSet(s.pending)
    BY <1>1, <2>2 DEF Group
  <2> QED BY <1>1, <1>4, <2>1, <2>2
<1>6. ASSUME ~t.stop
      PROVE  Len(t.pending) <= Cardinality(Idle(t))
  <2>1. j \in Idle(s) /\ Idle(s) \subseteq Jobs /\ Idle(t) \subseteq Jobs
    BY IdleFacts DEF Idle
  <2>2. Idle(s) \ {j} = Idle(t) \ {j}
    BY <1>1 DEF Idle, SameRunner
  <2>3. j \in Idle(t) <=> t.pc[j] = "pick"
    BY <1>1, <2>1 DEF Idle, SameRunner
  <2>4. Len(s.pending) <= Cardinality(Idle(s))
    BY <1>1, <1>2, <1>6 DEF Remaining, Idle
  <2>5. /\ Cardinality(Idle(s)) \in Nat /\ Cardinality(Idle(t)) \in Nat
        /\ j \in Idle(t) => Cardinality(Idle(t)) = Cardinality(Idle(s))
        /\ j \notin Idle(t) => Cardinality(Idle(t)) = Cardinality(Idle(s)) - 1
    BY <2>1, <2>2, CardChange
  <2> QED BY <1>1, <1>2, <1>6, <2>3, <2>4, <2>5
<1>7. Remaining(setup.group, t)
  BY <1>5, <1>6 DEF Remaining, Idle
<1>8. t.pos = s.pos /\ holder' = holder /\ UNCHANGED <<setup, holder, disk>> /\ kills' = kills
  BY <1>1 DEF SameRunner
<1> QED BY <1>1, <1>3, <1>4, <1>7, <1>8, Apart

(* a job takes a package: all that it depends on is there to stay, as main *)
(* has looked at every package before it starts a job                      *)
Taken(p, j, x, t) ==
    LET s == proc[p]
    IN  /\ SameRunner(s, t) /\ t.installed = s.installed
        /\ t.ingroup = s.ingroup /\ t.stop = s.stop
        /\ t.working = s.working + 1 /\ t.installing = s.installing
        /\ t.serials = s.serials + (IF x \in setup.serial THEN 1 ELSE 0)
        /\ t.parallelize <=> s.parallelize /\ x \notin setup.serial
        /\ t.pc[j] = "gate" /\ t.inst[j] = x
        /\ \A i \in Jobs : i # j => t.pc[i] = s.pc[i] /\ t.inst[i] = s.inst[i]
        /\ x \in ToSet(s.pending) /\ DepsReady(s, x)
        /\ ToSet(t.pending) \subseteq ToSet(s.pending)
        /\ ToSet(s.pending) \subseteq ToSet(t.pending) \cup {x}
        /\ Len(t.pending) = Len(s.pending) - 1

LEMMA TakesStep ==
    ASSUME Inv, NEW p \in Procs, NEW j \in Jobs, NEW x, NEW t \in ProcState, Only(p, t),
           UNCHANGED <<setup, holder, disk, kills>>, proc[p].pc[j] = "pick", Taken(p, j, x, t)
    PROVE  Inv'
<1> DEFINE s == proc[p]
<1>1. /\ SameRunner(s, t) /\ t.installed = s.installed
      /\ t.ingroup = s.ingroup /\ t.stop = s.stop
      /\ t.working = s.working + 1 /\ t.installing = s.installing
      /\ t.serials = s.serials + (IF x \in setup.serial THEN 1 ELSE 0)
      /\ t.parallelize <=> s.parallelize /\ x \notin setup.serial
      /\ t.pc[j] = "gate" /\ t.inst[j] = x
      /\ \A i \in Jobs : i # j => t.pc[i] = s.pc[i] /\ t.inst[i] = s.inst[i]
      /\ x \in ToSet(s.pending) /\ DepsReady(s, x)
      /\ ToSet(t.pending) \subseteq ToSet(s.pending)
      /\ ToSet(s.pending) \subseteq ToSet(t.pending) \cup {x}
      /\ Len(t.pending) = Len(s.pending) - 1
  BY DEF Taken
<1>2. /\ s \in ProcState /\ Runner(setup.order[p], setup.comax, s) /\ Remaining(setup.group, s)
      /\ Counts(setup.serial, s) /\ Len(s.pending) \in Nat
  BY Facts, LenProperties DEF Inv, ProcState
<1>3. /\ s.pc[j] \notin Under /\ s.pc[j] \notin Inside
      /\ t.pc[j] \in Under /\ t.pc[j] \notin Inside /\ t.pc[j] \notin Danger
      /\ t.pc[j] \notin Locked /\ s.pc[j] \notin Locked
  BY <1>1, PlaceFacts
<1>4. x \in Pkgs /\ x \in ToSet(setup.order[p])
  <2>1. x \in ToSet(setup.order[p])
    BY <1>1, Facts DEF Settled
  <2> QED BY <2>1, Facts DEF ToSet
<1>5. Counts(setup.serial, t)
  <2>1. /\ s.parallelize <=> s.serials = 0
        /\ s.working \in Nat /\ s.installing \in Nat /\ s.serials \in Nat
    BY <1>2 DEF Counts, ProcState
  <2>2. /\ t.working = s.working + By(s.pc[j] \in Under, t.pc[j] \in Under)
        /\ t.installing = s.installing + By(s.pc[j] \in Inside, t.pc[j] \in Inside)
        /\ t.serials = s.serials + By(s.pc[j] \in Under /\ s.inst[j] \in setup.serial,
                                      t.pc[j] \in Under /\ t.inst[j] \in setup.serial)
    BY <1>1, <1>3, <2>1 DEF By
  <2>3. t.parallelize <=> t.serials = 0
    BY <1>1, <2>1
  <2>4. t.inst[j] \in Pkgs
    BY <1>1, <1>4
  <2> QED BY <1>1, <1>2, <1>3, <2>2, <2>3, <2>4, CountsStep
<1>6. Runner(setup.order[p], setup.comax, t)
  <2>1. s.pc[j] \notin {"none", "dead"} /\ t.pc[j] # "none"
    BY <1>1
  <2> QED BY <1>1, <1>2, <2>1, RunnerJob
<1>7. ASSUME NEW y \in Pkgs, t.installed[y] = "no"
      PROVE  \/ t.stop
             \/ y \in ToSet(t.pending)
             \/ \E i \in Jobs : t.pc[i] \in Under /\ t.inst[i] = y
             \/ setup.group[y] # NONE /\ t.ingroup[setup.group[y]] # "nil"
  <2>1. \/ s.stop
        \/ y \in ToSet(s.pending)
        \/ \E i \in Jobs : s.pc[i] \in Under /\ s.inst[i] = y
        \/ setup.group[y] # NONE /\ s.ingroup[setup.group[y]] # "nil"
    BY <1>1, <1>2, <1>7 DEF Remaining
  <2>2. CASE y \in ToSet(s.pending)
    BY <1>1, <1>3, <2>2
  <2>3. CASE \E i \in Jobs : s.pc[i] \in Under /\ s.inst[i] = y
    BY <1>1, <1>3, <2>3
  <2> QED BY <1>1, <2>1, <2>2, <2>3
<1>8. ASSUME ~t.stop
      PROVE  Len(t.pending) <= Cardinality(Idle(t))
  <2>1. j \in Idle(s) /\ Idle(s) \subseteq Jobs /\ Idle(t) \subseteq Jobs
    BY IdleFacts DEF Idle
  <2>2. Idle(s) \ {j} = Idle(t) \ {j} /\ j \notin Idle(t)
    BY <1>1 DEF Idle, SameRunner
  <2>3. Len(s.pending) <= Cardinality(Idle(s))
    BY <1>1, <1>2, <1>8 DEF Remaining, Idle
  <2>4. /\ Cardinality(Idle(s)) \in Nat /\ Cardinality(Idle(t)) \in Nat
        /\ Cardinality(Idle(t)) = Cardinality(Idle(s)) - 1
    BY <2>1, <2>2, CardChange
  <2> QED BY <1>1, <1>2, <2>3, <2>4
<1>9. Remaining(setup.group, t)
  BY <1>7, <1>8 DEF Remaining, Idle
<1>10. Locks(setup.file, holder', proc')
  <2>1. \A i \in Jobs : /\ t.pc[i] \in Locked <=> s.pc[i] \in Locked
                        /\ t.pc[i] \in Locked => t.inst[i] = s.inst[i]
    BY <1>1, <1>3
  <2> QED BY <2>1, LockSame
<1>11. ASSUME NEW y \in Pkgs, Stable(disk, proc, y)
       PROVE  Stable(disk', proc', y)
  <2>1. \A i \in Jobs : t.pc[i] \in Danger => s.pc[i] \in Danger /\ t.inst[i] = s.inst[i]
    BY <1>1, <1>3
  <2> QED BY <1>11, <2>1, StillStable
<1>12. ASSUME NEW d \in setup.deps[x] \ setup.optional
       PROVE  Stable(disk, proc, d)
  <2>1. s.installed[d] # "no" /\ d \in ToSet(setup.order[p])
    <3>1. SetupOK(setup)
      BY Facts
    <3> QED BY <1>1, <1>4, <3>1 DEF DepsReady, SetupOK
  <2>2. PICK k \in DOMAIN setup.order[p] : d = setup.order[p][k]
    BY <2>1 DEF ToSet
  <2>3. k < s.pos
    <3>1. setup.order[p] \in Seq(Pkgs)
      BY Facts, OrderBound
    <3> QED BY <3>1, IdleFacts, LenProperties
  <2> QED BY <2>1, <2>2, <2>3, Facts DEF Settled
<1>13. Settled(setup, disk', proc')
  <2>1. ASSUME NEW k \in DOMAIN setup.order[p], k < t.pos
        PROVE  \/ setup.order[p][k] \in setup.optional
               \/ t.installed[setup.order[p][k]] = "no"
               \/ Stable(disk', proc', setup.order[p][k])
    <3>1. \/ setup.order[p][k] \in setup.optional
          \/ s.installed[setup.order[p][k]] = "no"
          \/ Stable(disk, proc, setup.order[p][k])
      BY <1>1, <2>1, Facts DEF Settled, SameRunner
    <3> QED BY <1>1, <1>11, <3>1, Facts
  <2>2. ToSet(t.pending) \subseteq ToSet(setup.order[p])
    BY <1>1, Facts DEF Settled
  <2>3. ASSUME NEW i \in Jobs, t.pc[i] \in Under, NEW d \in setup.deps[t.inst[i]] \ setup.optional
        PROVE  Stable(disk', proc', d)
    <3>1. CASE i = j
      BY <1>1, <1>4, <1>11, <1>12, <2>3, <3>1, Facts
    <3>2. CASE i # j
      <4>1. s.pc[i] \in Under /\ t.inst[i] = s.inst[i] /\ s.inst[i] \in Pkgs
        BY <1>1, <2>3, <3>2, Facts
      <4>2. d \in Pkgs
        BY <2>3, <4>1, Facts
      <4>3. Stable(disk, proc, d)
        BY <2>3, <4>1, Facts DEF Settled
      <4> QED BY <1>11, <4>2, <4>3
    <3> QED BY <3>1, <3>2
  <2> QED BY <1>11, <2>1, <2>2, <2>3, SettledStep
<1>14. /\ holder' \in [Files -> (Procs \X Pkgs) \cup {NONE}] /\ kills' \in 0..MaxKills
       /\ disk' \in [Pkgs -> {"empty", "partial", "saved", "done"}]
  BY Facts
<1> QED BY <1>5, <1>6, <1>9, <1>10, <1>13, <1>14, LocalStep

(* a job ends, or sleeps again, with what is left of packages_pending      *)
LEMMA Leaves ==
    ASSUME NEW s \in ProcState, NEW j \in Jobs, s.pc[j] = "pick", NEW q \in Seq(Pkgs),
           NEW r, r = [s EXCEPT !.pending = q],
           NEW t, t \in {Dies(r, j), Sleeps(r), Raises(r, j)}
    PROVE  /\ t \in ProcState /\ SameRunner(s, t) /\ t.inst = s.inst /\ t.installed = s.installed
           /\ t.ingroup = s.ingroup
           /\ t.working = s.working /\ t.installing = s.installing /\ t.serials = s.serials
           /\ t.parallelize = s.parallelize
           /\ t.pc[j] \in {"pick", "dead"} /\ \A i \in Jobs : i # j => t.pc[i] = s.pc[i]
           /\ s.stop => t.stop
           /\ t.pending = q
           /\ t = Sleeps(r) => t.pc[j] = "pick"
           /\ t = Raises(r, j) => t.stop
<1>1. /\ r \in ProcState /\ SameRunner(s, r) /\ r.inst = s.inst /\ r.installed = s.installed
      /\ r.ingroup = s.ingroup
      /\ r.working = s.working /\ r.installing = s.installing /\ r.serials = s.serials
      /\ r.parallelize = s.parallelize /\ r.pc = s.pc /\ r.stop = s.stop /\ r.pending = q
  BY DEF ProcState, SameRunner
<1> DEFINE d == Dies(r, j)
<1>2. /\ d \in ProcState /\ SameRunner(r, d) /\ d.inst = r.inst /\ d.installed = r.installed
      /\ d.ingroup = r.ingroup
      /\ d.working = r.working /\ d.installing = r.installing /\ d.serials = r.serials
      /\ d.parallelize = r.parallelize /\ d.stop = r.stop /\ d.pending = r.pending
      /\ d.pc = [r.pc EXCEPT ![j] = "dead"]
  BY <1>1, PlaceFacts DEF ProcState, SameRunner, Dies
<1>a. Raises(r, j) = [d EXCEPT !.stop = TRUE]
  BY DEF Raises
<1> HIDE DEF d
<1>b. Raises(r, j).stop = TRUE
  BY <1>2, <1>a DEF ProcState
<1>3. CASE t = Sleeps(r)
  <2>1. /\ t \in ProcState /\ SameRunner(r, t) /\ t.inst = r.inst /\ t.installed = r.installed
        /\ t.ingroup = r.ingroup
        /\ t.working = r.working /\ t.installing = r.installing /\ t.serials = r.serials
        /\ t.parallelize = r.parallelize /\ t.pc = r.pc /\ t.stop = r.stop
        /\ t.pending = r.pending
    BY <1>1, <1>3 DEF ProcState, SameRunner, Sleeps
  <2>2. t = Raises(r, j) => t.stop
    BY <1>b
  <2> QED BY <1>1, <2>1, <2>2 DEF SameRunner
<1>4. CASE t = Raises(r, j) /\ t # Sleeps(r)
  <2>1. t = [d EXCEPT !.stop = TRUE]
    BY <1>4, <1>a
  <2>2. /\ t \in ProcState /\ SameRunner(d, t) /\ t.inst = d.inst /\ t.installed = d.installed
        /\ t.ingroup = d.ingroup
        /\ t.working = d.working /\ t.installing = d.installing /\ t.serials = d.serials
        /\ t.parallelize = d.parallelize /\ t.pc = d.pc /\ t.stop = TRUE
        /\ t.pending = d.pending
    BY <1>2, <2>1 DEF ProcState, SameRunner
  <2>3. t.pc[j] = "dead" /\ \A i \in Jobs : i # j => t.pc[i] = s.pc[i]
    BY <1>1, <1>2, <2>2 DEF ProcState
  <2>4. SameRunner(s, t)
    BY <1>1, <1>2, <2>2 DEF SameRunner
  <2> QED BY <1>1, <1>2, <1>4, <2>2, <2>3, <2>4
<1>5. CASE t = d /\ t # Raises(r, j) /\ t # Sleeps(r)
  <2>1. t.pc[j] = "dead" /\ \A i \in Jobs : i # j => t.pc[i] = s.pc[i]
    BY <1>1, <1>2, <1>5 DEF ProcState
  <2>2. SameRunner(s, t)
    BY <1>1, <1>2, <1>5 DEF SameRunner
  <2> QED BY <1>1, <1>2, <1>5, <2>1, <2>2
<1> QED BY <1>3, <1>4, <1>5 DEF d

LEMMA PickStep ==
    ASSUME Inv, NEW p \in Procs, NEW j \in Jobs, Pick(p, j)
    PROVE  Inv'
<1> DEFINE s == proc[p]
           n == Len(s.pending)
           stops == {i \in 1..n : Stops(s, i)}
           k == CHOOSE i \in stops : \A h \in stops : i <= h
           x == s.pending[k]
           q == RemoveAt(s.pending, k)
           r == [s EXCEPT !.pending = RemoveAt(@, k)]
<1>1. s.pc[j] = "pick" /\ UNCHANGED <<setup, holder, disk, kills>>
  BY DEF Pick
<1>2. s \in ProcState /\ s.pending \in Seq(Pkgs) /\ n \in Nat
  BY Facts, LenProperties DEF ProcState
<1>3. stops # {} => k \in 1..n /\ Stops(s, k)
  <2>1. stops \subseteq 1..n
    OBVIOUS
  <2>2. stops # {} => k \in stops
    BY <1>2, <2>1, LeastElement
  <2> QED BY <2>2
<1>4. stops # {} => /\ q \in Seq(Pkgs) /\ Len(q) = n - 1 /\ x \in ToSet(s.pending)
                    /\ ToSet(q) \subseteq ToSet(s.pending)
                    /\ ToSet(s.pending) \subseteq ToSet(q) \cup {x}
  BY <1>2, <1>3, RemoveAtProperties
<1>5. r = [s EXCEPT !.pending = q] /\ s = [s EXCEPT !.pending = s.pending]
  BY <1>2 DEF ProcState
<1>6. \/ n = 0 /\ Update(p, Dies(s, j))
      \/ /\ stops # {} /\ GroupStatus(s, x) = "installed"
         /\ Update(p, IF n = 1 THEN Dies(r, j) ELSE Sleeps(r))
      \/ stops # {} /\ GroupStatus(s, x) # "installed" /\ Update(p, Takes(r, j, x))
      \/ Update(p, Raises(s, j))
      \/ Update(p, Sleeps(s))
  BY DEF Pick
<1> HIDE DEF k, stops
<1>7. CASE \/ n = 0 /\ Update(p, Dies(s, j))
           \/ Update(p, Raises(s, j))
  <2> DEFINE t == IF Update(p, Raises(s, j)) THEN Raises(s, j) ELSE Dies(s, j)
  <2>1. t \in {Dies(s, j), Sleeps(s), Raises(s, j)} /\ proc' = [proc EXCEPT ![p] = t]
    BY <1>7 DEF Update
  <2>2. t = Raises(s, j) \/ n = 0
    BY <1>7
  <2> HIDE DEF t
  <2>3. /\ t \in ProcState /\ SameRunner(s, t) /\ t.inst = s.inst /\ t.installed = s.installed
        /\ t.ingroup = s.ingroup
        /\ t.working = s.working /\ t.installing = s.installing /\ t.serials = s.serials
        /\ t.parallelize = s.parallelize
        /\ t.pc[j] \in {"pick", "dead"} /\ \A i \in Jobs : i # j => t.pc[i] = s.pc[i]
        /\ s.stop => t.stop
        /\ t.pending = s.pending
        /\ t = Raises(s, j) => t.stop
    BY <1>1, <1>2, <1>5, <2>1, Leaves
  <2>4. Dropped(p, j, t)
    BY <1>2, <2>2, <2>3 DEF Dropped
  <2> QED BY <1>1, <2>1, <2>3, <2>4, Updated, DropsStep
<1>8. CASE Update(p, Sleeps(s))
  BY <1>1, <1>8, SleepsStep
<1>9. CASE /\ stops # {} /\ GroupStatus(s, x) # "nil" /\ GroupStatus(s, x) # "installing"
           /\ \/ Update(p, Dies(r, j))
              \/ n # 1 /\ Update(p, Sleeps(r))
  <2> DEFINE t == IF Update(p, Dies(r, j)) THEN Dies(r, j) ELSE Sleeps(r)
  <2>1. t \in {Dies(r, j), Sleeps(r), Raises(r, j)} /\ proc' = [proc EXCEPT ![p] = t]
    BY <1>9 DEF Update
  <2> HIDE DEF t
  <2>2. /\ t \in ProcState /\ SameRunner(s, t) /\ t.inst = s.inst /\ t.installed = s.installed
        /\ t.ingroup = s.ingroup
        /\ t.working = s.working /\ t.installing = s.installing /\ t.serials = s.serials
        /\ t.parallelize = s.parallelize
        /\ t.pc[j] \in {"pick", "dead"} /\ \A i \in Jobs : i # j => t.pc[i] = s.pc[i]
        /\ s.stop => t.stop
        /\ t.pending = q
    <3>1. q \in Seq(Pkgs)
      BY <1>4, <1>9
    <3> HIDE DEF q, r
    <3> QED BY <1>1, <1>2, <1>5, <2>1, <3>1, Leaves
  <2>3. Group(x) # NONE /\ s.ingroup[Group(x)] # "nil"
    BY <1>9 DEF GroupStatus
  <2>4. Dropped(p, j, t)
    BY <1>2, <1>4, <1>9, <2>2, <2>3 DEF Dropped
  <2> QED BY <1>1, <2>1, <2>2, <2>4, Updated, DropsStep
<1>10. CASE /\ stops # {} /\ GroupStatus(s, x) = "nil" /\ Update(p, Takes(r, j, x))
  <2> DEFINE t == Takes(r, j, x)
  <2>1. x \in Pkgs /\ DepsReady(s, x) /\ q \in Seq(Pkgs)
    BY <1>2, <1>3, <1>4, <1>10 DEF Stops, ToSet
  <2> HIDE DEF x, q
  <2>2. /\ r \in ProcState /\ SameRunner(s, r) /\ r.inst = s.inst /\ r.installed = s.installed
        /\ r.ingroup = s.ingroup
        /\ r.working = s.working /\ r.installing = s.installing /\ r.serials = s.serials
        /\ r.parallelize = s.parallelize /\ r.pc = s.pc /\ r.stop = s.stop /\ r.pending = q
    BY <1>2, <1>5, <2>1 DEF ProcState, SameRunner
  <2> HIDE DEF r
  <2> DEFINE v == [r EXCEPT !.working = @ + 1, !.inst[j] = x, !.pc[j] = "gate", !.cur = j]
  <2>3. t = IF x \in setup.serial THEN [v EXCEPT !.serials = @ + 1, !.parallelize = FALSE] ELSE v
    BY <1>10, <2>2 DEF Takes, GroupStatus
  <2>4. /\ v \in ProcState /\ SameRunner(r, v) /\ v.installed = r.installed
        /\ v.ingroup = r.ingroup /\ v.stop = r.stop /\ v.pending = r.pending
        /\ v.working = r.working + 1 /\ v.installing = r.installing /\ v.serials = r.serials
        /\ v.parallelize = r.parallelize
        /\ v.pc[j] = "gate" /\ v.inst[j] = x
        /\ \A i \in Jobs : i # j => v.pc[i] = r.pc[i] /\ v.inst[i] = r.inst[i]
    <3>1. "gate" \in Places
      BY DEF Places
    <3>2. \A m \in Nat : [r EXCEPT !.working = m, !.inst[j] = x, !.pc[j] = "gate", !.cur = j]
                            \in ProcState
      BY <2>1, <2>2, <3>1 DEF ProcState
    <3>3. r.working + 1 \in Nat
      BY <2>2 DEF ProcState
    <3>4. v \in ProcState
      BY <3>2, <3>3
    <3>5. /\ v.installed = r.installed /\ v.ingroup = r.ingroup /\ v.stop = r.stop
          /\ v.pending = r.pending /\ v.installing = r.installing /\ v.serials = r.serials
          /\ v.parallelize = r.parallelize
      BY <2>2 DEF ProcState
    <3>6. SameRunner(r, v)
      BY <2>2 DEF ProcState, SameRunner
    <3>7. /\ v.working = r.working + 1 /\ v.pc = [r.pc EXCEPT ![j] = "gate"]
          /\ v.inst = [r.inst EXCEPT ![j] = x]
      BY <2>2 DEF ProcState
    <3>8. /\ v.pc[j] = "gate" /\ v.inst[j] = x
          /\ \A i \in Jobs : i # j => v.pc[i] = r.pc[i] /\ v.inst[i] = r.inst[i]
      BY <2>2, <3>7 DEF ProcState
    <3> QED BY <3>4, <3>5, <3>6, <3>7, <3>8
  <2> HIDE DEF v, t
  <2>5. /\ t \in ProcState /\ SameRunner(v, t) /\ t.installed = v.installed
        /\ t.ingroup = v.ingroup /\ t.stop = v.stop /\ t.pending = v.pending
        /\ t.working = v.working /\ t.installing = v.installing
        /\ t.serials = v.serials + (IF x \in setup.serial THEN 1 ELSE 0)
        /\ t.parallelize <=> v.parallelize /\ x \notin setup.serial
        /\ t.pc = v.pc /\ t.inst = v.inst
    <3>1. v.serials \in Nat /\ v.parallelize \in BOOLEAN
      BY <2>4 DEF ProcState
    <3>2. CASE x \in setup.serial
      <4>1. t = [v EXCEPT !.serials = @ + 1, !.parallelize = FALSE]
        BY <2>3, <3>2
      <4>2. \A m \in Nat : [v EXCEPT !.serials = m, !.parallelize = FALSE] \in ProcState
        BY <2>4 DEF ProcState
      <4>a. PICK m \in Nat : m = v.serials + 1
        BY <3>1
      <4>b. t = [v EXCEPT !.serials = m, !.parallelize = FALSE]
        BY <4>1, <4>a
      <4>3. t \in ProcState
        BY <4>2, <4>b
      <4>4. /\ t.installed = v.installed /\ t.ingroup = v.ingroup /\ t.stop = v.stop
            /\ t.pending = v.pending /\ t.working = v.working /\ t.installing = v.installing
            /\ t.pc = v.pc /\ t.inst = v.inst /\ SameRunner(v, t)
        BY <2>4, <4>1 DEF ProcState, SameRunner
      <4>5. t.serials = v.serials + 1 /\ t.parallelize = FALSE
        BY <2>4, <4>a, <4>b DEF ProcState
      <4> QED BY <3>2, <4>3, <4>4, <4>5
    <3>3. CASE x \notin setup.serial
      <4>1. t = v
        BY <2>3, <3>3
      <4> QED BY <2>4, <3>1, <3>3, <4>1 DEF SameRunner
    <3> QED BY <3>2, <3>3
  <2>6. /\ t.pc[j] = "gate" /\ t.inst[j] = x
        /\ \A i \in Jobs : i # j => t.pc[i] = s.pc[i] /\ t.inst[i] = s.inst[i]
    BY <2>2, <2>4, <2>5
  <2>7. SameRunner(s, t)
    BY <2>2, <2>4, <2>5 DEF SameRunner
  <2>8. /\ t.installed = s.installed /\ t.ingroup = s.ingroup /\ t.stop = s.stop
        /\ t.working = s.working + 1 /\ t.installing = s.installing
        /\ t.serials = s.serials + (IF x \in setup.serial THEN 1 ELSE 0)
        /\ t.parallelize <=> s.parallelize /\ x \notin setup.serial
        /\ t.pending = q
    BY <2>2, <2>4, <2>5
  <2>9. Taken(p, j, x, t)
    BY <1>4, <1>10, <2>1, <2>6, <2>7, <2>8 DEF Taken
  <2>10. proc' = [proc EXCEPT ![p] = t]
    BY <1>10 DEF Update, t
  <2>11. Only(p, t) /\ t \in ProcState
    BY <2>5, <2>10, Updated
  <2> QED BY <1>1, <2>9, <2>11, TakesStep
<1>11. CASE /\ stops # {} /\ GroupStatus(s, x) # "installed" /\ GroupStatus(s, x) # "nil"
            /\ Update(p, Takes(r, j, x))
  <2>1. GroupStatus(s, x) # "installing"
    BY <1>3, <1>11 DEF Stops
  <2>2. GroupStatus(r, x) = GroupStatus(s, x)
    BY <1>2 DEF GroupStatus, ProcState
  <2>3. Takes(r, j, x) = Dies(r, j)
    BY <1>11, <2>2 DEF Takes
  <2> QED BY <1>9, <1>11, <2>1, <2>3
<1> QED BY <1>6, <1>7, <1>8, <1>9, <1>10, <1>11
-----------------------------------------------------------------------------
(* main                                                                    *)

(* main looks at a package, that is there or is to be installed            *)
LEMMA FetchesStep ==
    ASSUME Inv, NEW p \in Procs, FetchNext(p), proc[p].pos <= Len(setup.order[p])
    PROVE  Inv'
<1> DEFINE s == proc[p]
           todo == setup.order[p]
           x == todo[s.pos]
           a == [s EXCEPT !.pos = s.pos + 1]
           b == [s EXCEPT !.pos = s.pos + 1, !.total = s.total + 1,
                          !.pending = Append(s.pending, x), !.installed[x] = "no"]
           t == IF Present(x) THEN a ELSE b
<1>1. /\ s.main = "fetch" /\ holder[setup.file[x]] = NONE
      /\ UNCHANGED <<setup, holder, disk, kills>>
      /\ s.pos \in Nat /\ Len(todo) \in Nat /\ s \in ProcState /\ todo \in Seq(Pkgs)
  BY Facts, OrderBound DEF FetchNext, ProcState, File
<1>2. proc' = [proc EXCEPT ![p] = t]
  BY <1>1 DEF FetchNext, Update
<1>3. /\ Runner(todo, setup.comax, s) /\ Remaining(setup.group, s)
      /\ s.total \in Nat /\ s.index \in Nat /\ s.top \in Nat
      /\ s.pending \in Seq(Pkgs) /\ Len(s.pending) \in Nat
  BY <1>1, LenProperties DEF Inv, ProcState
<1>4. s.index = 0 /\ \A i \in Jobs : s.pc[i] = "none"
  <2>1. \A i \in Jobs : i > 0
    BY DEF Jobs
  <2> QED BY <1>1, <1>3, <2>1 DEF Runner
<1>5. s.pos > 0 /\ s.total < s.pos
  BY <1>1, <1>3 DEF Runner
<1>6. s.pos \in DOMAIN todo /\ x \in Pkgs /\ x \in ToSet(todo)
  <2>1. s.pos \in DOMAIN todo
    BY <1>1, <1>5, LenProperties
  <2> QED BY <2>1, Facts DEF ToSet
<1> HIDE DEF x, todo
<1>7. /\ a \in ProcState /\ a.pos = s.pos + 1 /\ a.total = s.total /\ a.pending = s.pending
      /\ a.installed = s.installed
      /\ a.main = s.main /\ a.index = s.index /\ a.top = s.top
      /\ a.cogroup = s.cogroup /\ a.started = s.started
      /\ a.pc = s.pc /\ a.inst = s.inst /\ a.ingroup = s.ingroup /\ a.stop = s.stop
      /\ a.working = s.working /\ a.installing = s.installing /\ a.serials = s.serials
      /\ a.parallelize = s.parallelize
  <2>1. \A n \in Nat : [s EXCEPT !.pos = n] \in ProcState
    BY <1>1 DEF ProcState
  <2>2. s.pos + 1 \in Nat
    BY <1>1
  <2>3. a \in ProcState
    BY <2>1, <2>2
  <2> QED BY <1>1, <2>3 DEF ProcState
<1>8. /\ b \in ProcState /\ b.pos = s.pos + 1 /\ b.total = s.total + 1
      /\ b.pending = Append(s.pending, x) /\ b.installed = [s.installed EXCEPT ![x] = "no"]
      /\ b.main = s.main /\ b.index = s.index /\ b.top = s.top
      /\ b.cogroup = s.cogroup /\ b.started = s.started
      /\ b.pc = s.pc /\ b.inst = s.inst /\ b.ingroup = s.ingroup /\ b.stop = s.stop
      /\ b.working = s.working /\ b.installing = s.installing /\ b.serials = s.serials
      /\ b.parallelize = s.parallelize
  <2>1. \A n, m \in Nat : \A q \in Seq(Pkgs) :
           [s EXCEPT !.pos = n, !.total = m, !.pending = q, !.installed[x] = "no"] \in ProcState
    BY <1>1, <1>6 DEF ProcState
  <2>2. s.pos + 1 \in Nat /\ s.total + 1 \in Nat /\ Append(s.pending, x) \in Seq(Pkgs)
    BY <1>1, <1>3, <1>6, AppendProperties
  <2>3. b \in ProcState
    BY <2>1, <2>2
  <2>4. /\ b.main = s.main /\ b.index = s.index /\ b.top = s.top
        /\ b.cogroup = s.cogroup /\ b.started = s.started
        /\ b.pc = s.pc /\ b.inst = s.inst /\ b.ingroup = s.ingroup /\ b.stop = s.stop
        /\ b.working = s.working /\ b.installing = s.installing /\ b.serials = s.serials
        /\ b.parallelize = s.parallelize
    BY <1>1 DEF ProcState
  <2>5. /\ b.pos = s.pos + 1 /\ b.total = s.total + 1
        /\ b.pending = Append(s.pending, x) /\ b.installed = [s.installed EXCEPT ![x] = "no"]
    BY <1>1 DEF ProcState
  <2> QED BY <2>3, <2>4, <2>5
<1> HIDE DEF a, b
<1>9. /\ t \in ProcState /\ t.pos = s.pos + 1
      /\ t.main = s.main /\ t.index = s.index /\ t.top = s.top
      /\ t.cogroup = s.cogroup /\ t.started = s.started
      /\ t.pc = s.pc /\ t.inst = s.inst /\ t.ingroup = s.ingroup /\ t.stop = s.stop
      /\ t.working = s.working /\ t.installing = s.installing /\ t.serials = s.serials
      /\ t.parallelize = s.parallelize
  BY <1>7, <1>8
<1>10. \/ t.total = s.total /\ t.pending = s.pending /\ t.installed = s.installed /\ Present(x)
       \/ /\ t.total = s.total + 1 /\ t.pending = Append(s.pending, x)
          /\ t.installed = [s.installed EXCEPT ![x] = "no"]
  BY <1>7, <1>8
<1> HIDE DEF t
<1>11. Only(p, t)
  BY <1>2, <1>9, Updated
<1>12. Runner(todo, setup.comax, t)
  <2>1. t.total \in Nat /\ (t.total = s.total \/ t.total = s.total + 1)
    BY <1>3, <1>10
  <2>2. t.pos <= Len(todo) + 1 /\ t.total < t.pos /\ t.index <= t.total /\ t.top <= t.total
    BY <1>1, <1>3, <1>4, <1>5, <1>9, <2>1 DEF Runner, todo
  <2> QED BY <1>1, <1>3, <1>4, <1>9, <2>2 DEF Runner
<1>13. /\ ToSet(t.pending) \subseteq ToSet(s.pending) \cup {x}
       /\ ToSet(s.pending) \subseteq ToSet(t.pending)
       /\ \A y \in Pkgs : t.installed[y] = s.installed[y] \/ t.installed[y] = "no"
       /\ \A y \in Pkgs : t.installed[y] = "no" => s.installed[y] = "no" \/ y \in ToSet(t.pending)
       /\ Present(x) \/ t.installed[x] = "no"
  <2>1. ToSet(Append(s.pending, x)) = ToSet(s.pending) \cup {x}
    BY <1>3, <1>6, ToSetAppend
  <2>2. s.installed \in [Pkgs -> {"nil", "no", "yes"}]
    BY <1>1 DEF ProcState
  <2> QED BY <1>6, <1>10, <2>1, <2>2
<1>14. Len(t.pending) <= Cardinality(Idle(t)) \/ s.stop
  <2>1. Len(s.pending) <= Cardinality(Idle(s)) \/ s.stop
    BY <1>3 DEF Remaining, Idle
  <2>2. CASE t.total = s.total /\ t.pending = s.pending
    <3>1. Idle(t) = Idle(s)
      BY <1>9, <2>2 DEF Idle
    <3> QED BY <2>1, <2>2, <3>1
  <2>3. CASE t.total = s.total + 1 /\ t.pending = Append(s.pending, x)
    <3>1. t.total \in Jobs
      <4>1. Len(todo) <= Cardinality(Pkgs)
        BY Facts, OrderBound DEF todo
      <4> QED BY <1>1, <1>3, <1>5, <2>3, <4>1, JobsFinite DEF Jobs, todo
    <3>2. Idle(s) \ {t.total} = Idle(t) \ {t.total} /\ t.total \in Idle(t) /\ t.total \notin Idle(s)
      <4>1. Idle(s) = {i \in Jobs : i <= s.total} /\ Idle(t) = {i \in Jobs : i <= s.total + 1}
        BY <1>4, <1>9, <2>3 DEF Idle
      <4>2. \A i \in Jobs : /\ i # s.total + 1 => (i <= s.total <=> i <= s.total + 1)
                            /\ i <= s.total => i # s.total + 1
        <5>1. s.total \in Nat /\ \A i \in Jobs : i \in Nat
          BY <1>3, JobsFinite
        <5>2. \A m, i \in Nat : /\ i # m + 1 => (i <= m <=> i <= m + 1)
                                /\ i <= m => i # m + 1
          OBVIOUS
        <5> QED BY <5>1, <5>2
      <4>3. s.total + 1 <= s.total + 1
        BY <1>3
      <4> QED BY <2>3, <3>1, <4>1, <4>2, <4>3
    <3>3. Cardinality(Idle(t)) = Cardinality(Idle(s)) + 1 /\ Cardinality(Idle(s)) \in Nat
      <4>1. Idle(s) \subseteq Jobs /\ Idle(t) \subseteq Jobs
        BY DEF Idle
      <4> QED BY <3>1, <3>2, <4>1, CardChange
    <3>4. Len(t.pending) = Len(s.pending) + 1
      BY <1>3, <1>6, <2>3, AppendProperties
    <3> QED BY <1>3, <2>1, <3>3, <3>4
  <2> QED BY <1>10, <2>2, <2>3
<1>15. Remaining(setup.group, t)
  <2>1. ASSUME NEW y \in Pkgs, t.installed[y] = "no"
        PROVE  \/ t.stop
               \/ y \in ToSet(t.pending)
               \/ \E i \in Jobs : t.pc[i] \in Under /\ t.inst[i] = y
               \/ setup.group[y] # NONE /\ t.ingroup[setup.group[y]] # "nil"
    BY <1>3, <1>9, <1>13, <2>1 DEF Remaining
  <2> QED BY <1>9, <1>14, <2>1 DEF Remaining, Idle
<1>16. Settled(setup, disk', proc')
  <2>1. ASSUME NEW y \in Pkgs, Stable(disk, proc, y)
        PROVE  Stable(disk', proc', y)
    BY <1>1, <1>9, <1>11, <2>1, StillStable
  <2>2. ASSUME NEW k \in DOMAIN setup.order[p], k < t.pos
        PROVE  \/ setup.order[p][k] \in setup.optional
               \/ t.installed[setup.order[p][k]] = "no"
               \/ Stable(disk', proc', setup.order[p][k])
    <3>1. CASE k < s.pos
      <4>1. \/ todo[k] \in setup.optional
            \/ s.installed[todo[k]] = "no"
            \/ Stable(disk, proc, todo[k])
        BY <3>1, Facts DEF Settled, todo
      <4>2. todo[k] \in Pkgs
        BY Facts DEF todo
      <4>3. s.installed[todo[k]] = "no" => t.installed[todo[k]] = "no"
        BY <1>13, <4>2
      <4> QED BY <2>1, <4>1, <4>2, <4>3 DEF todo
    <3>2. CASE k = s.pos
      <4>1. Present(x) => Stable(disk, proc, x)
        <5>1. ASSUME NEW q \in Procs, NEW i \in Jobs, proc[q].pc[i] \in Danger, proc[q].inst[i] = x
              PROVE  FALSE
          <6>1. proc[q].pc[i] \in Locked
            BY <5>1, PlaceFacts
          <6>2. holder[setup.file[x]] = Owner(q, x)
            BY <5>1, <6>1, Facts DEF Locks
          <6> QED BY <1>1, <1>6, <6>2, Facts
        <5> QED BY <5>1 DEF Stable, Present
      <4> QED BY <1>6, <1>13, <2>1, <3>2, <4>1 DEF x, todo
    <3>3. k \in Nat
      BY <1>1, LenProperties DEF todo
    <3> QED BY <1>1, <1>9, <2>2, <3>1, <3>2, <3>3
  <2>3. ToSet(t.pending) \subseteq ToSet(setup.order[p])
    BY <1>6, <1>13, Facts DEF Settled, todo
  <2>4. \A i \in Jobs : t.pc[i] \notin Under
    BY <1>4, <1>9, PlaceFacts
  <2> QED BY <1>9, <1>11, <2>1, <2>2, <2>3, <2>4, SettledStep
<1> QED BY <1>1, <1>9, <1>11, <1>12, <1>15, <1>16, Beside DEF todo

(* main goes on, and may start a job                                       *)
Onward(s, t) ==
    /\ t.pos = s.pos /\ t.total = s.total /\ t.pending = s.pending
    /\ t.installed = s.installed /\ t.ingroup = s.ingroup /\ t.inst = s.inst
    /\ t.working = s.working /\ t.installing = s.installing /\ t.serials = s.serials
    /\ t.parallelize = s.parallelize /\ t.stop = s.stop
    /\ \A i \in Jobs : \/ t.pc[i] = s.pc[i]
                       \/ /\ s.pc[i] = "none" /\ t.pc[i] \in {"pick", "dead"}
                          /\ t.pc[i] = "dead" => s.stop

LEMMA MainStep ==
    ASSUME Inv, NEW p \in Procs, NEW t \in ProcState, proc' = [proc EXCEPT ![p] = t],
           UNCHANGED <<setup, holder, disk, kills>>, Onward(proc[p], t),
           Runner(setup.order[p], setup.comax, t)
    PROVE  Inv'
<1> DEFINE s == proc[p]
<1>1. Only(p, t)
  BY Updated
<1>2. s \in ProcState /\ Remaining(setup.group, s)
  BY Facts DEF Inv
<1>3. \A i \in Jobs : /\ t.pc[i] \in Under <=> s.pc[i] \in Under
                      /\ t.pc[i] \in Under => t.pc[i] = s.pc[i] /\ t.inst[i] = s.inst[i]
  BY PlaceFacts DEF Onward
<1>4. ~t.stop => Idle(t) = Idle(s)
  BY DEF Onward, Idle
<1>5. ~t.stop => Len(t.pending) <= Cardinality(Idle(t))
  BY <1>2, <1>4 DEF Onward, Remaining, Idle
<1>6. ASSUME NEW x \in Pkgs, t.installed[x] = "no"
      PROVE  \/ t.stop
             \/ x \in ToSet(t.pending)
             \/ \E i \in Jobs : t.pc[i] \in Under /\ t.inst[i] = x
             \/ setup.group[x] # NONE /\ t.ingroup[setup.group[x]] # "nil"
  BY <1>2, <1>3, <1>6 DEF Onward, Remaining
<1>7. Remaining(setup.group, t)
  BY <1>5, <1>6 DEF Remaining, Idle
<1>8. /\ t.working = s.working /\ t.installing = s.installing /\ t.serials = s.serials
      /\ t.parallelize = s.parallelize /\ t.pos = s.pos /\ t.installed = s.installed
      /\ ToSet(t.pending) \subseteq ToSet(s.pending)
      /\ UNCHANGED <<setup, holder, disk>> /\ kills' = kills
  BY DEF Onward
<1> QED BY <1>1, <1>3, <1>7, <1>8, Apart

(* what runjobs knows of the numbers                                       *)
LEMMA RunnerFacts ==
    ASSUME Inv, NEW p \in Procs
    PROVE  LET s == proc[p]
           IN  /\ Runner(setup.order[p], setup.comax, s) /\ s \in ProcState
               /\ setup.comax \in Nat \ {0}
               /\ s.index \in Nat /\ s.top \in Nat /\ s.total \in Nat /\ s.pos \in Nat
               /\ s.total <= Cardinality(Pkgs)
               /\ IsFiniteSet(s.cogroup) /\ Cardinality(s.cogroup) \in Nat
               /\ IsFiniteSet(s.started) /\ Cardinality(s.started) \in Nat
               /\ s.cogroup \subseteq Jobs /\ s.started \subseteq Jobs
               /\ Len(setup.order[p]) \in Nat
<1> DEFINE s == proc[p]
<1>1. Runner(setup.order[p], setup.comax, s) /\ s \in ProcState /\ setup.comax \in Nat \ {0}
  BY Facts DEF Inv, SetupOK
<1>2. /\ s.index \in Nat /\ s.top \in Nat /\ s.total \in Nat /\ s.pos \in Nat
      /\ s.cogroup \subseteq Jobs /\ s.started \subseteq Jobs
  BY <1>1 DEF ProcState
<1>3. /\ IsFiniteSet(s.cogroup) /\ Cardinality(s.cogroup) \in Nat
      /\ IsFiniteSet(s.started) /\ Cardinality(s.started) \in Nat
  BY <1>2, JobsFinite, FS_Subset, FS_CardinalityType
<1>4. Len(setup.order[p]) \in Nat /\ Len(setup.order[p]) <= Cardinality(Pkgs)
  BY Facts, OrderBound
<1>5. s.total <= Cardinality(Pkgs)
  BY <1>1, <1>2, <1>4, JobsFinite DEF Runner
<1> QED BY <1>1, <1>2, <1>3, <1>4, <1>5

LEMMA FetchStep ==
    ASSUME Inv, NEW p \in Procs, FetchNext(p)
    PROVE  Inv'
<1> DEFINE s == proc[p]
           t == [s EXCEPT !.main = "loop"]
<1>1. CASE s.pos <= Len(setup.order[p])
  BY <1>1, FetchesStep
<1>2. CASE ~(s.pos <= Len(setup.order[p]))
  <2>1. /\ s.main = "fetch" /\ proc' = [proc EXCEPT ![p] = t]
        /\ UNCHANGED <<setup, holder, disk, kills>>
    BY <1>2 DEF FetchNext, Update
  <2>2. /\ t \in ProcState /\ Onward(s, t) /\ t.main = "loop" /\ t.pc = s.pc
        /\ t.pos = s.pos /\ t.total = s.total /\ t.index = s.index /\ t.top = s.top
        /\ t.cogroup = s.cogroup /\ t.started = s.started /\ t.stop = s.stop
    <3>1. s \in ProcState
      BY Facts
    <3> QED BY <3>1 DEF ProcState, Mains, Onward
  <2> HIDE DEF t
  <2>3. s.pos = Len(setup.order[p]) + 1
    BY <1>2, RunnerFacts DEF Runner
  <2>4. Runner(setup.order[p], setup.comax, s)
    BY RunnerFacts
  <2>5. Runner(setup.order[p], setup.comax, t)
    BY <2>1, <2>2, <2>3, <2>4 DEF Runner
  <2> QED BY <2>1, <2>2, <2>5, MainStep
<1> QED BY <1>1, <1>2

LEMMA LoopStep ==
    ASSUME Inv, NEW p \in Procs, Loop(p)
    PROVE  Inv'
<1> DEFINE s == proc[p]
           a == [s EXCEPT !.main = "start", !.top = TotalMax(s)]
           b == [s EXCEPT !.main = "final"]
           t == IF s.index < s.total THEN a ELSE b
<1>1. /\ s.main = "loop" /\ proc' = [proc EXCEPT ![p] = t]
      /\ UNCHANGED <<setup, holder, disk, kills>>
  BY DEF Loop, Update
<1> DEFINE c == Cardinality(s.cogroup)
<1>2. /\ Runner(setup.order[p], setup.comax, s) /\ s \in ProcState
      /\ setup.comax \in Nat \ {0} /\ s.index \in Nat /\ s.top \in Nat /\ s.total \in Nat
      /\ c \in Nat
  BY RunnerFacts
<1>3. s.index <= s.total /\ c <= setup.comax /\ s.started = {} /\ s.pos = Len(setup.order[p]) + 1
  BY <1>1, <1>2 DEF Runner
<1>4. Cardinality(s.started) = 0
  BY <1>3, FS_EmptySet
<1>5. CASE s.index < s.total
  <2>1. /\ TotalMax(s) \in Nat /\ s.index <= TotalMax(s) /\ TotalMax(s) <= s.total
        /\ c + 0 + TotalMax(s) <= setup.comax + s.index
    BY <1>2, <1>3, <1>5 DEF TotalMax
  <2>2. PICK m \in Nat : m = TotalMax(s)
    BY <2>1
  <2>3. t = [s EXCEPT !.main = "start", !.top = m]
    BY <1>5, <2>2
  <2> HIDE DEF t
  <2>4. /\ t \in ProcState /\ Onward(s, t) /\ t.main = "start" /\ t.pc = s.pc
        /\ t.pos = s.pos /\ t.total = s.total /\ t.index = s.index /\ t.top = m
        /\ t.cogroup = s.cogroup /\ t.started = s.started /\ t.stop = s.stop
    BY <1>2, <2>3 DEF ProcState, Mains, Onward
  <2>5. /\ s.index <= m /\ m <= s.total
        /\ Cardinality(t.cogroup) + Cardinality(t.started) + t.top <= setup.comax + t.index
    BY <1>4, <2>1, <2>2, <2>4
  <2>6. Runner(setup.order[p], setup.comax, t)
    BY <1>1, <1>2, <1>3, <2>4, <2>5 DEF Runner
  <2> QED BY <1>1, <2>4, <2>6, MainStep
<1>6. CASE ~(s.index < s.total)
  <2>1. t = [s EXCEPT !.main = "final"]
    BY <1>6
  <2> HIDE DEF t
  <2>2. /\ t \in ProcState /\ Onward(s, t) /\ t.main = "final" /\ t.pc = s.pc
        /\ t.pos = s.pos /\ t.total = s.total /\ t.index = s.index /\ t.top = s.top
        /\ t.cogroup = s.cogroup /\ t.started = s.started /\ t.stop = s.stop
    BY <1>2, <2>1 DEF ProcState, Mains, Onward
  <2>3. s.index = s.total
    BY <1>2, <1>3, <1>6
  <2>4. Runner(setup.order[p], setup.comax, t)
    BY <1>1, <1>2, <1>3, <2>2, <2>3 DEF Runner
  <2> QED BY <1>1, <2>2, <2>4, MainStep
<1> QED BY <1>5, <1>6

(* co_group_wait: the dead leave the group                                 *)
LEMMA WaitsStep ==
    ASSUME Inv, NEW p \in Procs, NEW r \in ProcState, proc' = [proc EXCEPT ![p] = Waits(r)],
           UNCHANGED <<setup, holder, disk, kills>>, Onward(proc[p], r),
           proc[p].main \in {"start", "wait"},
           r.index = proc[p].index, r.top = proc[p].top, r.started = {},
           Cardinality(r.cogroup) <= setup.comax,
           \A j \in Jobs : /\ r.pc[j] = "none" <=> j > r.index
                           /\ j <= r.index => j \in r.cogroup \/ r.pc[j] = "dead"
                           /\ j \in r.cogroup => j <= r.index
    PROVE  Inv'
<1> DEFINE t == Waits(r)
           d == DeadJobs(r)
<1>1. /\ t \in ProcState /\ Onward(r, t) /\ t.main \in {"loop", "wait"} /\ t.pc = r.pc
      /\ t.index = r.index /\ t.top = r.top /\ t.started = r.started
      /\ t.cogroup = r.cogroup \/ t.cogroup = r.cogroup \ d
  <2>1. CASE r.cogroup = {} \/ d # {}
    <3>1. t = [r EXCEPT !.cogroup = @ \ d, !.main = "loop"]
      BY <2>1 DEF Waits
    <3> HIDE DEF d, t
    <3> QED BY <3>1 DEF ProcState, Mains, Onward
  <2>2. CASE ~(r.cogroup = {} \/ d # {})
    <3>1. t = [r EXCEPT !.main = "wait"]
      BY <2>2 DEF Waits
    <3> HIDE DEF d, t
    <3> QED BY <3>1 DEF ProcState, Mains, Onward
  <2> QED BY <2>1, <2>2
<1>2. \A j \in d : r.pc[j] = "dead"
  BY DEF DeadJobs
<1> HIDE DEF t, d
<1>3. Cardinality(t.cogroup) <= setup.comax
  <2>1. IsFiniteSet(r.cogroup) /\ Cardinality(r.cogroup) \in Nat
    <3>1. r.cogroup \subseteq Jobs
      BY DEF ProcState
    <3> QED BY <3>1, JobsFinite, FS_Subset, FS_CardinalityType
  <2>2. t.cogroup \subseteq r.cogroup
    BY <1>1
  <2>3. Cardinality(t.cogroup) <= Cardinality(r.cogroup) /\ Cardinality(t.cogroup) \in Nat
    BY <2>1, <2>2, FS_Subset, FS_CardinalityType
  <2>4. setup.comax \in Nat
    BY RunnerFacts
  <2> QED BY <2>1, <2>3, <2>4
<1>4. Onward(proc[p], t)
  BY <1>1 DEF Onward
<1>5. Runner(setup.order[p], setup.comax, t)
  <2>1. Runner(setup.order[p], setup.comax, proc[p])
    BY RunnerFacts
  <2>2. /\ t.index <= t.total /\ t.top <= t.total /\ t.total < t.pos
        /\ t.pos = Len(setup.order[p]) + 1 /\ t.pos <= Len(setup.order[p]) + 1
    BY <1>1, <1>4, <2>1 DEF Runner, Onward
  <2>3. \A j \in Jobs :
           /\ t.pc[j] = "none" <=> j > t.index
           /\ j <= t.index => j \in t.cogroup \cup t.started \/ t.pc[j] = "dead"
           /\ j \in t.cogroup \cup t.started => j <= t.index
    BY <1>1, <1>2
  <2> QED BY <1>1, <1>3, <2>2, <2>3 DEF Runner
<1>6. proc' = [proc EXCEPT ![p] = t]
  BY DEF t
<1> QED BY <1>1, <1>4, <1>5, <1>6, MainStep

LEMMA StartStep ==
    ASSUME Inv, NEW p \in Procs, Start(p)
    PROVE  Inv'
<1> DEFINE s == proc[p]
           c == Cardinality(s.cogroup)
           d == Cardinality(s.started)
<1>1. /\ s.main = "start" /\ UNCHANGED <<setup, holder, disk, kills>>
  BY DEF Start
<1>2. /\ Runner(setup.order[p], setup.comax, s) /\ s \in ProcState
      /\ setup.comax \in Nat \ {0} /\ s.index \in Nat /\ s.top \in Nat /\ s.total \in Nat
      /\ c \in Nat /\ d \in Nat /\ s.total <= Cardinality(Pkgs)
      /\ IsFiniteSet(s.cogroup) /\ IsFiniteSet(s.started) /\ s.stop \in BOOLEAN
      /\ s.cogroup \subseteq Jobs /\ s.started \subseteq Jobs
  BY RunnerFacts DEF ProcState
<1>3. /\ s.index <= s.top /\ s.top <= s.total /\ c + d + s.top <= setup.comax + s.index
      /\ s.pos = Len(setup.order[p]) + 1 /\ s.total < s.pos
      /\ \A j \in Jobs :
            /\ s.pc[j] = "none" <=> j > s.index
            /\ j <= s.index => j \in s.cogroup \cup s.started \/ s.pc[j] = "dead"
            /\ j \in s.cogroup \cup s.started => j <= s.index
  BY <1>1, <1>2 DEF Runner
<1>4. CASE s.index < s.top /\ Update(p, Starts(s, s.index + 1))
  <2>1. PICK n \in Jobs : n = s.index + 1
    BY <1>2, <1>3, <1>4, JobsFinite DEF Jobs
  <2> DEFINE t == Starts(s, n)
             w == IF s.stop THEN "dead" ELSE "pick"
             cu == IF s.stop THEN NONE ELSE n
  <2>2. proc' = [proc EXCEPT ![p] = t]
    BY <1>4, <2>1 DEF Update
  <2>3. t = [s EXCEPT !.index = n, !.started = @ \cup {n}, !.pc[n] = w, !.cur = cu]
    BY DEF Starts
  <2>4. /\ w \in {"pick", "dead"} /\ w \in Places /\ (w = "dead" => s.stop)
        /\ cu \in Jobs \cup {NONE} /\ n \in Nat /\ n > s.index /\ n <= s.top
    BY <1>2, <1>4, <2>1, PlaceFacts, JobsFinite
  <2> HIDE DEF t, w, cu
  <2>5. /\ t \in ProcState /\ t.main = s.main /\ t.pos = s.pos /\ t.total = s.total
        /\ t.index = n /\ t.top = s.top /\ t.stop = s.stop
        /\ t.cogroup = s.cogroup /\ t.started = s.started \cup {n}
        /\ t.pc = [s.pc EXCEPT ![n] = w]
        /\ t.pending = s.pending
        /\ t.installed = s.installed /\ t.ingroup = s.ingroup /\ t.inst = s.inst
        /\ t.working = s.working /\ t.installing = s.installing /\ t.serials = s.serials
        /\ t.parallelize = s.parallelize
    BY <1>2, <2>3, <2>4 DEF ProcState
  <2>6. t.pc[n] = w /\ \A i \in Jobs : i # n => t.pc[i] = s.pc[i]
    BY <1>2, <2>5 DEF ProcState
  <2>7. s.pc[n] = "none" /\ n \notin s.started
    BY <1>2, <1>3, <2>4
  <2>8. Onward(s, t)
    BY <2>4, <2>5, <2>6, <2>7 DEF Onward
  <2>9. Cardinality(t.started) = d + 1
    BY <1>2, <2>5, <2>7, FS_AddElement
  <2>10. Cardinality(t.cogroup) + Cardinality(t.started) + t.top <= setup.comax + t.index
    <3>1. Cardinality(t.cogroup) = c /\ t.top = s.top /\ t.index = s.index + 1
      BY <2>1, <2>5
    <3>2. c \in Nat /\ d \in Nat /\ s.top \in Nat /\ s.index \in Nat /\ setup.comax \in Nat
      BY <1>2
    <3>3. c + d + s.top <= setup.comax + s.index
      BY <1>3
    <3> HIDE DEF c, d
    <3> QED BY <2>9, <3>1, <3>2, <3>3
  <2>11. \A j \in Jobs :
            /\ t.pc[j] = "none" <=> j > t.index
            /\ j <= t.index => j \in t.cogroup \cup t.started \/ t.pc[j] = "dead"
            /\ j \in t.cogroup \cup t.started => j <= t.index
    <3>1. \A j \in Jobs : j \in Nat
      BY JobsFinite
    <3>2. \A j \in Jobs : j # n => (j > n <=> j > s.index) /\ (j <= n <=> j <= s.index)
      BY <1>2, <2>1, <3>1
    <3>3. ~(n > n) /\ n <= n
      BY <2>4
    <3> QED BY <1>3, <2>4, <2>5, <2>6, <3>2, <3>3
  <2>12. t.index <= t.top /\ t.index <= t.total /\ t.top <= t.total /\ t.total < t.pos
    BY <1>2, <1>3, <2>4, <2>5
  <2>13. Runner(setup.order[p], setup.comax, t)
    BY <1>1, <1>2, <1>3, <2>5, <2>10, <2>11, <2>12 DEF Runner
  <2> QED BY <1>1, <2>2, <2>5, <2>8, <2>13, MainStep
<1>5. CASE /\ s.index = s.top
           /\ Update(p, Waits([s EXCEPT !.cogroup = @ \cup s.started, !.started = {}]))
  <2> DEFINE r == [s EXCEPT !.cogroup = @ \cup s.started, !.started = {}]
  <2>1. /\ r \in ProcState /\ Onward(s, r) /\ r.index = s.index /\ r.top = s.top
        /\ r.started = {} /\ r.cogroup = s.cogroup \cup s.started /\ r.pc = s.pc
    BY <1>2 DEF ProcState, Onward
  <2>2. proc' = [proc EXCEPT ![p] = Waits(r)]
    BY <1>5 DEF Update
  <2> HIDE DEF r
  <2>3. Cardinality(r.cogroup) <= setup.comax
    <3>1. Cardinality(r.cogroup) = c + d - Cardinality(s.cogroup \cap s.started)
      BY <1>2, <2>1, FS_Union
    <3>2. Cardinality(s.cogroup \cap s.started) \in Nat
      BY <1>2, FS_Intersection, FS_CardinalityType
    <3> QED BY <1>2, <1>3, <1>5, <3>1, <3>2
  <2>4. \A j \in Jobs : /\ r.pc[j] = "none" <=> j > r.index
                        /\ j <= r.index => j \in r.cogroup \/ r.pc[j] = "dead"
                        /\ j \in r.cogroup => j <= r.index
    BY <1>3, <2>1
  <2>5. proc[p].main \in {"start", "wait"}
    BY <1>1
  <2> QED BY <1>1, <2>1, <2>2, <2>3, <2>4, <2>5, WaitsStep
<1> QED BY <1>4, <1>5 DEF Start

LEMMA WaitOneStep ==
    ASSUME Inv, NEW p \in Procs, WaitOne(p)
    PROVE  Inv'
<1> DEFINE s == proc[p]
<1>1. /\ s.main = "wait" /\ proc' = [proc EXCEPT ![p] = Waits(s)]
      /\ UNCHANGED <<setup, holder, disk, kills>>
  BY DEF WaitOne, Update
<1>2. Runner(setup.order[p], setup.comax, s) /\ s \in ProcState
  BY RunnerFacts
<1>3. Onward(s, s)
  BY DEF Onward
<1>4. /\ s.started = {} /\ Cardinality(s.cogroup) <= setup.comax
      /\ \A j \in Jobs : /\ s.pc[j] = "none" <=> j > s.index
                         /\ j <= s.index => j \in s.cogroup \/ s.pc[j] = "dead"
                         /\ j \in s.cogroup => j <= s.index
  BY <1>1, <1>2 DEF Runner
<1>5. s.main \in {"start", "wait"}
  BY <1>1
<1> QED BY <1>1, <1>2, <1>3, <1>4, <1>5, WaitsStep

LEMMA WaitAllStep ==
    ASSUME Inv, NEW p \in Procs, WaitAll(p)
    PROVE  Inv'
<1> DEFINE s == proc[p]
           w == IF s.stop THEN "failed" ELSE "done"
           t == [s EXCEPT !.cogroup = {}, !.main = w]
<1>1. /\ s.main = "final" /\ proc' = [proc EXCEPT ![p] = t]
      /\ s.cogroup = DeadJobs(s)
      /\ UNCHANGED <<setup, holder, disk, kills>>
  BY DEF WaitAll, Update
<1>2. /\ Runner(setup.order[p], setup.comax, s) /\ s \in ProcState /\ setup.comax \in Nat \ {0}
      /\ \A j \in s.cogroup : s.pc[j] = "dead"
  BY <1>1, RunnerFacts DEF DeadJobs
<1>3. w \in {"failed", "done"} /\ (w = "done" => ~s.stop)
  OBVIOUS
<1> HIDE DEF w
<1>4. /\ t \in ProcState /\ Onward(s, t) /\ t.main = w /\ t.pc = s.pc
      /\ t.pos = s.pos /\ t.total = s.total /\ t.index = s.index /\ t.top = s.top
      /\ t.cogroup = {} /\ t.started = s.started /\ t.stop = s.stop
  BY <1>2, <1>3 DEF ProcState, Mains, Onward
<1> HIDE DEF t
<1>5. Cardinality(t.cogroup) <= setup.comax
  BY <1>2, <1>4, FS_EmptySet
<1>6. Runner(setup.order[p], setup.comax, t)
  BY <1>1, <1>2, <1>3, <1>4, <1>5 DEF Runner
<1> QED BY <1>1, <1>4, <1>6, MainStep
-----------------------------------------------------------------------------
(* A process starts, at first or after it was killed.                      *)
LEMMA FreshFacts ==
    /\ Fresh \in ProcState
    /\ \A i \in Jobs : Fresh.pc[i] = "none"
    /\ \A serial : Counts(serial, Fresh)
    /\ \A group : Remaining(group, Fresh)
    /\ \A u \in Setups : \A p \in Procs : Runner(u.order[p], u.comax, Fresh)
    /\ Fresh.pos = 1 /\ Fresh.pending = <<>>
<1>1. /\ Fresh \in ProcState /\ Fresh.main = "fetch" /\ Fresh.pos = 1 /\ Fresh.total = 0
      /\ Fresh.pending = <<>> /\ Fresh.installed = [x \in Pkgs |-> "nil"]
      /\ Fresh.working = 0 /\ Fresh.installing = 0 /\ Fresh.serials = 0 /\ Fresh.parallelize = TRUE
      /\ Fresh.index = 0 /\ Fresh.top = 0 /\ Fresh.cogroup = {} /\ Fresh.started = {}
      /\ Fresh.stop = FALSE
      /\ Fresh.pc = [j \in Jobs |-> "none"]
  <2>1. "none" \in Places /\ "fetch" \in Mains /\ <<>> \in Seq(Pkgs)
    BY DEF Places, Mains
  <2> QED BY <2>1 DEF Fresh, ProcState
<1>2. \A i \in Jobs : Fresh.pc[i] = "none"
  BY <1>1
<1>3. \A i \in Jobs : Fresh.pc[i] \notin Under /\ Fresh.pc[i] \notin Inside
  BY <1>2, PlaceFacts
<1>4. Cardinality({}) = 0 /\ Cardinality({}) \in Nat
  BY FS_EmptySet
<1>5. ASSUME NEW serial
      PROVE  Counts(serial, Fresh)
  <2>1. /\ {j \in Jobs : Fresh.pc[j] \in Under} = {}
        /\ {j \in Jobs : Fresh.pc[j] \in Inside} = {}
        /\ {j \in Jobs : Fresh.pc[j] \in Under /\ Fresh.inst[j] \in serial} = {}
    BY <1>3
  <2> QED BY <1>1, <1>3, <1>4, <2>1 DEF Counts
<1>6. ASSUME NEW group
      PROVE  Remaining(group, Fresh)
  <2>1. {j \in Jobs : j <= Fresh.total /\ Fresh.pc[j] \in {"none", "pick"}} = {}
    BY <1>1, JobsFinite DEF Jobs
  <2>2. Len(Fresh.pending) = 0
    BY <1>1
  <2>3. \A x \in Pkgs : Fresh.installed[x] # "no"
    BY <1>1
  <2>4. 0 <= Cardinality({j \in Jobs : j <= Fresh.total /\ Fresh.pc[j] \in {"none", "pick"}})
    BY <1>4, <2>1
  <2>5. Len(Fresh.pending) <=
          Cardinality({j \in Jobs : j <= Fresh.total /\ Fresh.pc[j] \in {"none", "pick"}})
    BY <2>2, <2>4
  <2> QED BY <2>3, <2>5 DEF Remaining
<1>7. ASSUME NEW u \in Setups, NEW p \in Procs
      PROVE  Runner(u.order[p], u.comax, Fresh)
  <2>1. Len(u.order[p]) \in Nat /\ u.comax \in Nat \ {0}
    BY OrderBound, SetupAssumption DEF SetupOK
  <2>2. Cardinality(Fresh.cogroup) <= u.comax
    BY <1>1, <1>4, <2>1
  <2>3. \A j \in Jobs : j > 0 /\ ~(j <= 0)
    BY DEF Jobs
  <2> QED BY <1>1, <1>2, <2>1, <2>2, <2>3 DEF Runner
<1> QED BY <1>1, <1>2, <1>5, <1>6, <1>7

LEMMA KillStep ==
    ASSUME Inv, NEW p \in Procs, Kill(p)
    PROVE  Inv'
<1>1. /\ proc' = [proc EXCEPT ![p] = Fresh] /\ kills < MaxKills /\ kills' = kills + 1
      /\ holder' = [f \in Files |-> IF holder[f] # NONE /\ holder[f][1] = p
                                    THEN NONE ELSE holder[f]]
      /\ setup' = setup /\ disk' = disk
  BY DEF Kill, Update
<1>2. Fresh \in ProcState /\ \A i \in Jobs : Fresh.pc[i] \notin Under
  BY FreshFacts, PlaceFacts
<1>3. Only(p, Fresh)
  BY <1>1, <1>2, Updated
<1>4. kills' \in 0..MaxKills
  BY <1>1, Facts, BoundAssumption
<1>5. holder' \in [Files -> (Procs \X Pkgs) \cup {NONE}]
  BY <1>1, Facts
<1>6. Locks(setup.file, holder', proc')
  <2>1. \A q \in Procs : \A i \in Jobs : proc'[q].pc[i] \in Locked => q # p /\ proc'[q] = proc[q]
    BY <1>2, <1>3, PlaceFacts DEF Only
  <2>2. \A q \in Procs : \A x \in Pkgs : Owner(q, x)[1] = q
    BY DEF Owner
  <2>3. ASSUME NEW q \in Procs, NEW i \in Jobs, proc'[q].pc[i] \in Locked
        PROVE  holder'[setup.file[proc'[q].inst[i]]] = Owner(q, proc'[q].inst[i])
    <3>1. /\ q # p /\ proc'[q] = proc[q] /\ proc[q].pc[i] \in Locked /\ proc[q].inst[i] \in Pkgs
          /\ setup.file[proc[q].inst[i]] \in Files
      BY <2>1, <2>3, Facts, PlaceFacts
    <3>2. holder[setup.file[proc[q].inst[i]]] = Owner(q, proc[q].inst[i])
      BY <3>1, Facts DEF Locks
    <3> QED BY <1>1, <2>2, <3>1, <3>2
  <2>4. ASSUME NEW f \in Files, holder'[f] # NONE
        PROVE  \E q \in Procs : \E i \in Jobs :
                  proc'[q].pc[i] \in Locked /\ setup.file[proc'[q].inst[i]] = f
    <3>1. holder[f] # NONE /\ holder[f][1] # p
      BY <1>1, <2>4
    <3>2. PICK q \in Procs, i \in Jobs :
             proc[q].pc[i] \in Locked /\ setup.file[proc[q].inst[i]] = f
      BY <3>1, Facts DEF Locks
    <3>3. holder[f] = Owner(q, proc[q].inst[i]) /\ proc[q].inst[i] \in Pkgs
      BY <3>2, Facts, PlaceFacts DEF Locks
    <3>4. q # p
      BY <2>2, <3>1, <3>3
    <3> QED BY <1>3, <3>2, <3>4 DEF Only
  <2>5. Locks(setup.file, holder, proc)
    BY Facts
  <2> QED BY <2>1, <2>3, <2>4, <2>5 DEF Locks
<1>7. Settled(setup, disk', proc')
  <2>1. ASSUME NEW x \in Pkgs, Stable(disk, proc, x)
        PROVE  Stable(disk', proc', x)
    <3>1. \A i \in Jobs : Fresh.pc[i] \notin Danger
      BY <1>2, PlaceFacts
    <3> QED BY <1>1, <1>2, <1>3, <2>1, <3>1, StillStable
  <2>2. \A k \in DOMAIN setup.order[p] : ~(k < Fresh.pos)
    <3>1. setup.order[p] \in Seq(Pkgs)
      BY Facts, OrderBound
    <3> QED BY <3>1, FreshFacts, LenProperties
  <2>3. ToSet(Fresh.pending) \subseteq ToSet(setup.order[p])
    BY FreshFacts, EmptySequence
  <2> QED BY <1>2, <1>3, <2>1, <2>2, <2>3, SettledStep
<1>8. disk' \in [Pkgs -> {"empty", "partial", "saved", "done"}]
  BY <1>1, Facts
<1>9. /\ Counts(setup.serial, Fresh) /\ Runner(setup.order[p], setup.comax, Fresh)
      /\ Remaining(setup.group, Fresh)
  BY Facts, FreshFacts
<1> QED BY <1>1, <1>2, <1>3, <1>4, <1>5, <1>6, <1>7, <1>8, <1>9, LocalStep
-----------------------------------------------------------------------------
(* The invariant is inductive.                                             *)
LEMMA InvInit == Init => Inv
<1> SUFFICES ASSUME Init PROVE Inv
  OBVIOUS
<1>1. /\ setup \in Setups /\ proc = [p \in Procs |-> Fresh] /\ holder = [f \in Files |-> NONE]
      /\ disk = [x \in Pkgs |-> "empty"] /\ kills = 0
  BY DEF Init
<1>2. \A p \in Procs : proc[p] = Fresh /\ \A i \in Jobs : proc[p].pc[i] \notin Under
  BY <1>1, FreshFacts, PlaceFacts
<1>3. TypeOK
  <2>1. \A p \in Procs : proc[p].index <= proc[p].total /\ proc[p].top <= proc[p].total
    BY <1>1, <1>2, FreshFacts DEF Runner
  <2> QED BY <1>1, <2>1, FreshFacts, BoundAssumption DEF TypeOK
<1>4. \A p \in Procs : /\ Counts(setup.serial, proc[p])
                       /\ Runner(setup.order[p], setup.comax, proc[p])
                       /\ Remaining(setup.group, proc[p])
  BY <1>1, <1>2, FreshFacts
<1>5. Locks(setup.file, holder, proc)
  <2>1. \A p \in Procs : \A i \in Jobs : proc[p].pc[i] \notin Locked
    BY <1>2, PlaceFacts
  <2> QED BY <1>1, <2>1 DEF Locks
<1>6. Settled(setup, disk, proc)
  <2>1. \A p \in Procs : \A k \in DOMAIN setup.order[p] : ~(k < proc[p].pos)
    <3>1. \A p \in Procs : setup.order[p] \in Seq(Pkgs)
      BY <1>1, OrderBound
    <3> QED BY <1>2, <3>1, FreshFacts, LenProperties
  <2>2. \A p \in Procs : ToSet(proc[p].pending) = {}
    BY <1>2, FreshFacts, EmptySequence
  <2> QED BY <1>2, <2>1, <2>2 DEF Settled
<1> QED BY <1>3, <1>4, <1>5, <1>6 DEF Inv

LEMMA InvNext == Inv /\ [Next]_vars => Inv'
<1> SUFFICES ASSUME Inv, [Next]_vars PROVE Inv'
  OBVIOUS
<1>1. ASSUME NEW p \in Procs, Main(p) PROVE Inv'
  BY <1>1, FetchStep, LoopStep, StartStep, WaitOneStep, WaitAllStep DEF Main
<1>2. ASSUME NEW p \in Procs, Kill(p) PROVE Inv'
  BY <1>2, KillStep
<1>3. ASSUME NEW p \in Procs, NEW j \in Jobs, Job(p, j) PROVE Inv'
  BY <1>3, PickStep, GateStep, LockStep, DownloadStep, InstallStep, TestStep, RedoStep DEF Job
<1>4. CASE UNCHANGED vars
  BY <1>4 DEF vars, Inv, TypeOK
<1> QED BY <1>1, <1>2, <1>3, <1>4 DEF Next

LEMMA InvHolds == Spec => []Inv
<1>1. Init => Inv
  BY InvInit
<1>2. Inv /\ [Next]_vars => Inv'
  BY InvNext
<1> QED BY <1>1, <1>2, PTL DEF Spec
-----------------------------------------------------------------------------
(* A package that must be alone is: whichever order the jobs of a process  *)
(* reach the gate in, and however those before them end.                   *)
THEOREM SerialAloneHolds == Spec => []SerialAlone
<1>1. Inv => SerialAlone
  BY DEF Inv, Counts, SerialAlone, At
<1> QED BY <1>1, InvHolds, PTL

(* The counts of the gate are those of the jobs, and the file locks those  *)
(* of the packages, after every success, failure and kill.                 *)
THEOREM CountsExactHolds == Spec => []CountsExact
<1>1. ASSUME Inv PROVE CountsExact
  <2>1. TypeOK
    BY <1>1 DEF Inv
  <2>2. ASSUME NEW p \in Procs
        PROVE  LET s == proc[p]
               IN  /\ s.working = Cardinality(At(p, Inside \cup {"gate"}))
                   /\ s.installing = Cardinality(At(p, Inside))
                   /\ s.parallelize <=> \A j \in At(p, Inside \cup {"gate"}) :
                                            s.inst[j] \notin setup.serial
    <3> DEFINE s == proc[p]
               S == {j \in Jobs : s.pc[j] \in Under /\ s.inst[j] \in setup.serial}
    <3>1. Counts(setup.serial, s)
      BY <1>1 DEF Inv
    <3>2. s.parallelize <=> Cardinality(S) = 0
      BY <3>1 DEF Counts
    <3>3. Cardinality(S) = 0 <=> S = {}
      <4>1. S \subseteq Jobs
        OBVIOUS
      <4>2. IsFiniteSet(S)
        BY <4>1, JobsFinite, FS_Subset
      <4> QED BY <4>2, FS_EmptySet
    <3>4. S = {} <=> \A j \in At(p, Under) : s.inst[j] \notin setup.serial
      BY DEF At
    <3>5. s.parallelize <=> \A j \in At(p, Under) : s.inst[j] \notin setup.serial
      BY <3>2, <3>3, <3>4
    <3>6. s.working = Cardinality(At(p, Under)) /\ s.installing = Cardinality(At(p, Inside))
      BY <3>1 DEF Counts, At
    <3> HIDE DEF S
    <3> QED BY <3>5, <3>6 DEF Under
  <2>3. ASSUME NEW p \in Procs, NEW f \in Files
        PROVE  (holder[f] # NONE /\ holder[f][1] = p) <=>
                  \E j \in At(p, Locked) : holder[f] = <<p, proc[p].inst[j]>>
    <3>1. ASSUME holder[f] # NONE, holder[f][1] = p
          PROVE  \E j \in At(p, Locked) : holder[f] = <<p, proc[p].inst[j]>>
      <4>1. PICK q \in Procs, j \in Jobs :
               proc[q].pc[j] \in Locked /\ setup.file[proc[q].inst[j]] = f
        BY <1>1, <3>1, Facts DEF Locks
      <4>2. holder[f] = Owner(q, proc[q].inst[j])
        BY <1>1, <4>1, Facts DEF Locks
      <4>3. q = p
        BY <3>1, <4>2 DEF Owner
      <4> QED BY <4>1, <4>2, <4>3 DEF Owner, At
    <3>2. ASSUME NEW j \in At(p, Locked), holder[f] = <<p, proc[p].inst[j]>>
          PROVE  holder[f] # NONE /\ holder[f][1] = p
      <4>1. proc[p].inst[j] \in Pkgs
        BY <1>1, <3>2, Facts, PlaceFacts DEF At
      <4>2. Owner(p, proc[p].inst[j]) # NONE
        BY <1>1, <4>1, Facts
      <4> QED BY <3>2, <4>2 DEF Owner
    <3> QED BY <3>1, <3>2
  <2> QED BY <2>1, <2>2, <2>3 DEF CountsExact
<1>2. Inv => CountsExact
  BY <1>1
<1> QED BY <1>2, InvHolds, PTL

(* Two coroutines, of one process or of two, never write the same install  *)
(* directory.                                                              *)
THEOREM OneWriterHolds == Spec => []OneWriter
<1>1. Inv => Locks(setup.file, holder, proc)
  BY DEF Inv
<1>2. Writing \subseteq Locked
  BY DEF Writing, Locked, Inside
<1>3. Inv => OneWriter
  <2> SUFFICES ASSUME Inv, NEW p \in Procs, NEW q \in Procs, NEW i \in At(p, Writing),
                      NEW j \in At(q, Writing), proc[p].inst[i] = proc[q].inst[j]
               PROVE  p = q /\ i = j
    BY DEF OneWriter
  <2> QED BY <1>1, <1>2 DEF Locks, At
<1> QED BY <1>3, InvHolds, PTL

(* What a package depends on is there when it is built: it was there when  *)
(* main looked, or has been installed by this process, and no process is   *)
(* at a point from where it would be removed.                              *)
THEOREM DepsOnDiskHolds == Spec => []DepsOnDisk
<1>1. Inv => DepsOnDisk
  <2> SUFFICES ASSUME Inv, NEW p \in Procs, NEW j \in At(p, Writing),
                      NEW d \in setup.deps[proc[p].inst[j]] \ setup.optional
               PROVE  Present(d)
    BY DEF DepsOnDisk
  <2>1. j \in Jobs /\ proc[p].pc[j] \in Under
    BY DEF At, Writing, Under, Inside
  <2>2. Stable(disk, proc, d)
    BY <2>1, Facts DEF Settled
  <2> QED BY <2>2 DEF Stable, Present
<1> QED BY <1>1, InvHolds, PTL

(* A process that ends with success has forgotten no package.              *)
THEOREM OutcomeHolds == Spec => []Outcome
<1>1. Inv => Outcome
  <2> SUFFICES ASSUME Inv, NEW p \in Procs, proc[p].main = "done", NEW x \in Range(setup.order[p])
               PROVE  \/ Present(x)
                      \/ x \in setup.optional
                      \/ Group(x) # NONE /\ proc[p].ingroup[Group(x)] # "nil"
    BY DEF Outcome
  <2> DEFINE s == proc[p]
             todo == setup.order[p]
  <2>1. /\ Runner(todo, setup.comax, s) /\ s \in ProcState /\ s.index \in Nat
        /\ Len(todo) \in Nat /\ Remaining(setup.group, s)
    BY RunnerFacts DEF Inv
  <2>2. /\ s.index = s.total /\ s.cogroup = {} /\ s.started = {} /\ ~s.stop
        /\ s.pos = Len(todo) + 1
    BY <2>1 DEF Runner
  <2>3. \A j \in Jobs : s.pc[j] = "dead" \/ (s.pc[j] = "none" /\ ~(j <= s.total))
    <3>1. \A j \in Jobs : j <= s.index \/ j > s.index
      BY <2>1, JobsFinite
    <3>2. \A j \in Jobs : j > s.index => ~(j <= s.index)
      BY <2>1, JobsFinite
    <3> QED BY <2>1, <2>2, <3>1, <3>2 DEF Runner
  <2>4. Idle(s) = {} /\ \A j \in Jobs : s.pc[j] \notin Under
    BY <2>3, PlaceFacts DEF Idle
  <2>5. s.pending = <<>>
    <3>1. Len(s.pending) <= 0
      BY <2>1, <2>2, <2>4, FS_EmptySet DEF Remaining, Idle
    <3>2. s.pending \in Seq(Pkgs) /\ Len(s.pending) \in Nat
      BY <2>1, LenProperties DEF ProcState
    <3>3. Len(s.pending) = 0
      BY <3>1, <3>2
    <3> QED BY <3>2, <3>3, EmptySeq
  <2>6. PICK k \in DOMAIN todo : x = todo[k]
    BY DEF Range
  <2>7. k < s.pos /\ x \in Pkgs
    <3>1. todo \in Seq(Pkgs)
      BY Facts, OrderBound
    <3> QED BY <2>1, <2>2, <2>6, <3>1, LenProperties
  <2>8. x \in setup.optional \/ s.installed[x] = "no" \/ Stable(disk, proc, x)
    BY <2>6, <2>7, Facts DEF Settled
  <2>9. ASSUME s.installed[x] = "no"
        PROVE  Group(x) # NONE /\ s.ingroup[Group(x)] # "nil"
    <3>1. x \notin ToSet(s.pending)
      BY <2>5, EmptySequence
    <3> QED BY <2>1, <2>2, <2>4, <2>7, <2>9, <3>1 DEF Remaining, Group
  <2> QED BY <2>8, <2>9 DEF Stable, Present
<1> QED BY <1>1, InvHolds, PTL
=============================================================================
