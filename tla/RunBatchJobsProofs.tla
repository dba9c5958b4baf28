-------------------------- MODULE RunBatchJobsProofs --------------------------
(* Theorems about the job pool, for any number of jobs, groups and calls, and *)
(* then about the runner on its pool, for any number of coroutines too.       *)
EXTENDS RunBatchJobs, SequenceFacts, FiniteSetTheorems

-----------------------------------------------------------------------------
(* Lemmas on the lists the pool is built from.                               *)

(* A list of the members of S is a sequence over S.                          *)
LEMMA ListingIsSeq ==
    ASSUME NEW S, NEW T, NEW s \in Seq(T), NEW f \in Listings(S, s)
    PROVE  f \in Seq(S) /\ Range(f) = S
BY DEF Listings, SeqOf

(* Reversing a sequence keeps its members.                                   *)
LEMMA ReverseIsSeq ==
    ASSUME NEW S, NEW s \in Seq(S)
    PROVE  /\ Reverse(s) \in Seq(S)
           /\ Range(Reverse(s)) = Range(s)
<1>1. Reverse(s) \in Seq(S)
  BY DEF Reverse
<1>2. ASSUME NEW x \in Range(s) PROVE x \in Range(Reverse(s))
  <2>1. PICK i \in 1..Len(s) : s[i] = x
    BY <1>2 DEF Range
  <2>2. Len(s) - i + 1 \in DOMAIN Reverse(s) /\ Reverse(s)[Len(s) - i + 1] = x
    BY <2>1 DEF Reverse
  <2> QED BY <2>2 DEF Range
<1>3. ASSUME NEW x \in Range(Reverse(s)) PROVE x \in Range(s)
  <2>1. PICK i \in 1..Len(s) : Reverse(s)[i] = x
    BY <1>3 DEF Range, Reverse
  <2>2. Len(s) - i + 1 \in DOMAIN s /\ s[Len(s) - i + 1] = x
    BY <2>1 DEF Reverse
  <2> QED BY <2>2 DEF Range
<1> QED BY <1>1, <1>2, <1>3

(* Removing a position keeps only members.                                   *)
LEMMA RemoveAtIsSeq ==
    ASSUME NEW S, NEW s \in Seq(S), NEW i \in 1..Len(s)
    PROVE  /\ RemoveAt(s, i) \in Seq(S)
           /\ Range(RemoveAt(s, i)) \subseteq Range(s)
<1>1. SubSeq(s, 1, i - 1) \in Seq(S) /\ SubSeq(s, i + 1, Len(s)) \in Seq(S)
  BY SubSeqProperties
<1>2. RemoveAt(s, i) \in Seq(S)
  BY <1>1, ConcatProperties DEF RemoveAt
<1>3. Range(SubSeq(s, 1, i - 1)) \subseteq Range(s)
  BY SubSeqProperties DEF Range
<1>4. Range(SubSeq(s, i + 1, Len(s))) \subseteq Range(s)
  BY SubSeqProperties DEF Range
<1>5. Range(RemoveAt(s, i)) = Range(SubSeq(s, 1, i - 1)) \cup Range(SubSeq(s, i + 1, Len(s)))
  BY <1>1, RangeConcatenation DEF RemoveAt
<1> QED BY <1>2, <1>3, <1>4, <1>5

(* What removing a job puts into the list: the new leaves and nothing that   *)
(* was not there.                                                            *)
LEMMA RemoveJobList ==
    ASSUME TypeOK, NEW job \in Nodes, RemoveJob(job)
    PROVE  /\ leafjobs' \in Seq(Nodes)
           /\ Range(leafjobs') \subseteq Range(leafjobs) \cup NewLeaves(job)
<1>1. PICK rest \in LeafjobsWithout(job),
           low \in Listings(NewLeaves(job) \ HighPriority, parents[job]),
           high \in Listings(NewLeaves(job) \cap HighPriority, parents[job]) :
              leafjobs' = Reverse(low) \o rest \o high
  BY DEF RemoveJob
<1>2. rest \in Seq(Nodes) /\ Range(rest) \subseteq Range(leafjobs)
  <2>1. PICK i \in DOMAIN leafjobs : rest = RemoveAt(leafjobs, i)
    BY DEF LeafjobsWithout
  <2>2. leafjobs \in Seq(Nodes) /\ i \in 1..Len(leafjobs)
    BY <2>1 DEF TypeOK
  <2> QED BY <2>1, <2>2, RemoveAtIsSeq
<1>3. parents[job] \in Seq(Nodes)
  BY DEF TypeOK
<1>4. NewLeaves(job) \subseteq Nodes
  BY <1>3 DEF NewLeaves, Range
<1>5. low \in Seq(NewLeaves(job) \ HighPriority) /\ Range(low) = NewLeaves(job) \ HighPriority
  BY <1>3, ListingIsSeq
<1>6. high \in Seq(NewLeaves(job) \cap HighPriority) /\ Range(high) = NewLeaves(job) \cap HighPriority
  BY <1>3, ListingIsSeq
<1>7. low \in Seq(Nodes) /\ high \in Seq(Nodes)
  BY <1>4, <1>5, <1>6
<1>8. Reverse(low) \in Seq(Nodes) /\ Range(Reverse(low)) = Range(low)
  BY <1>7, ReverseIsSeq
<1> DEFINE front == Reverse(low) \o rest
<1>9. front \in Seq(Nodes) /\ Range(front) = Range(Reverse(low)) \cup Range(rest)
  BY <1>2, <1>8, ConcatProperties, RangeConcatenation
<1> HIDE DEF front
<1>10. front \o high \in Seq(Nodes) /\ Range(front \o high) = Range(front) \cup Range(high)
  BY <1>7, <1>9, ConcatProperties, RangeConcatenation
<1>11. leafjobs' = front \o high
  BY <1>1 DEF front
<1> QED BY <1>2, <1>5, <1>6, <1>8, <1>9, <1>10, <1>11

-----------------------------------------------------------------------------
(* Type correctness.                                                         *)
LEMMA TypeOKInit == Init => TypeOK
BY JobPoolAssumption, EmptySeq DEF Init, TypeOK, Nodes, Statuses

LEMMA TypeOKRemove ==
    ASSUME TypeOK, NEW job \in Nodes, RemoveJob(job),
           phase' = phase, removed' \in Seq(Nodes)
    PROVE  TypeOK'
<1>1. leafjobs' \in Seq(Nodes)
  BY RemoveJobList
<1>2. NewLeaves(job) \subseteq Nodes
  BY DEF NewLeaves, Range, TypeOK
<1>3. deps' \in [Nodes -> SUBSET Nodes]
  <2>1. \A n \in Nodes : deps[n] \subseteq Nodes
    BY DEF TypeOK
  <2> QED BY <2>1 DEF RemoveJob
<1>4. status' \in [Nodes -> Statuses]
  BY DEF RemoveJob, TypeOK, Statuses
<1> QED BY <1>1, <1>2, <1>3, <1>4 DEF RemoveJob, TypeOK

LEMMA TypeOKHand ==
    ASSUME TypeOK, NEW i \in DOMAIN leafjobs, Hand(i), phase' \in {phase, "ready"}
    PROVE  TypeOK'
<1>1. leafjobs[i] \in Nodes
  BY DEF TypeOK
<1>2. status' \in [Nodes -> Statuses]
  BY <1>1 DEF Hand, TypeOK, Statuses
<1>3. nextfree' \in Jobs \cup {NONE}
  BY DEF Hand, IsFree, TypeOK
<1> QED BY <1>2, <1>3 DEF Hand, TypeOK, graphVars

LEMMA TypeOKNext == TypeOK /\ [Next]_poolVars => TypeOK'
<1> SUFFICES ASSUME TypeOK, [Next]_poolVars PROVE TypeOK'
  OBVIOUS
<1> USE DEF graphVars, listVars, loopVars, poolVars
<1>1. ASSUME NEW job \in Jobs \cup Groups, NEW rootjob \in Nodes, Add(job, rootjob)
      PROVE  TypeOK'
  <2>1. deps' \in [Nodes -> SUBSET Nodes] /\ deps0' \in [Nodes -> SUBSET Nodes]
    BY <1>1 DEF Add, TypeOK, Nodes
  <2>2. ASSUME NEW n \in Nodes PROVE parents'[n] \in Seq(Nodes)
    BY <1>1, <2>2, AppendProperties DEF Add, TypeOK, Nodes
  <2>3. parents' \in [Nodes -> Seq(Nodes)]
    BY <1>1, <2>2 DEF Add
  <2>4. size' \in Nat /\ adds' \in Nat
    BY <1>1 DEF Add, TypeOK
  <2> QED BY <1>1, <2>1, <2>3, <2>4 DEF Add, TypeOK
<1>2. ASSUME NEW g \in Groups, GroupEnter(g) PROVE TypeOK'
  BY <1>2 DEF GroupEnter, TypeOK
<1>3. CASE GroupLeave
  BY <1>3 DEF GroupLeave, TypeOK
<1>4. CASE GenStart
  BY <1>4 DEF GenStart, TypeOK, Nodes
<1>5. CASE GenVisit
  <2>1. genstack # <<>> => genstack[Len(genstack)] \in Nodes
    BY LenProperties, EmptySeq, ElementOfSeq DEF TypeOK
  <2>2. PICK dep \in Nodes : refs' = refs \cup {dep} /\ genstack' = Append(genstack, dep)
    BY <1>5, <2>1 DEF GenVisit, TypeOK
  <2> QED BY <1>5, <2>2, AppendProperties DEF GenVisit, TypeOK
<1>6. CASE GenLeaf
  <2>1. genstack # <<>> => genstack[Len(genstack)] \in Nodes
    BY LenProperties, EmptySeq, ElementOfSeq DEF TypeOK
  <2>2. PICK job \in Nodes : /\ leaf' = leaf \cup {job}
                             /\ leafjobs' \in {Append(leafjobs, job), <<job>> \o leafjobs}
    BY <1>6, <2>1 DEF GenLeaf
  <2>3. leafjobs' \in Seq(Nodes)
    <3>1. leafjobs \in Seq(Nodes) /\ <<job>> \in Seq(Nodes)
      BY DEF TypeOK
    <3>2. Append(leafjobs, job) \in Seq(Nodes) /\ <<job>> \o leafjobs \in Seq(Nodes)
      BY <3>1, AppendProperties, ConcatProperties
    <3> QED BY <2>2, <3>2
  <2>4. genstack' \in Seq(Nodes)
    BY <1>6, SubSeqProperties, LenProperties DEF GenLeaf, TypeOK
  <2> QED BY <1>6, <2>2, <2>3, <2>4 DEF GenLeaf, TypeOK
<1>7. CASE GenReturn
  <2>1. genstack' \in Seq(Nodes)
    BY <1>7, SubSeqProperties, LenProperties DEF GenReturn, TypeOK
  <2> QED BY <1>7, <2>1 DEF GenReturn, TypeOK
<1>8. CASE GenDone
  BY <1>8 DEF GenDone, TypeOK
<1>9. CASE SweepStart
  <2>1. Reverse(leafjobs) \in Seq(Nodes)
    BY ReverseIsSeq DEF TypeOK
  <2>2. removed' \in Seq(Stale)
    BY <1>9, <2>1, ListingIsSeq DEF SweepStart
  <2>3. Stale \subseteq Nodes
    BY DEF Stale, Range, TypeOK
  <2>4. removed' \in Seq(Nodes)
    BY <2>2, <2>3
  <2> QED BY <1>9, <2>4 DEF SweepStart, TypeOK
<1>10. CASE SweepStep
  <2>1. Head(removed) \in Nodes /\ removed' \in Seq(Nodes)
    BY <1>10, HeadTailProperties DEF SweepStep, TypeOK
  <2> QED BY <1>10, <2>1, TypeOKRemove DEF SweepStep
<1>11. ASSUME NEW job \in Jobs \cup {NONE}, GetFree(job) PROVE TypeOK'
  <2>1. CASE GetNone
    BY <2>1 DEF GetNone, TypeOK
  <2>2. CASE GetNextFree(job)
    BY <2>2, TypeOKHand DEF GetNextFree
  <2>3. CASE FindFree(job)
    BY <2>3, TypeOKHand DEF FindFree
  <2> QED BY <1>11, <2>1, <2>2, <2>3 DEF GetFree
<1>12. ASSUME NEW job \in Jobs, Finish(job) PROVE TypeOK'
  <2>1. job \in Nodes /\ removed' \in Seq(Nodes)
    BY <1>12 DEF Finish, TypeOK, Nodes
  <2> QED BY <1>12, <2>1, TypeOKRemove DEF Finish
<1>13. CASE UNCHANGED poolVars
  BY <1>13 DEF TypeOK
<1> QED
  BY <1>1, <1>2, <1>3, <1>4, <1>5, <1>6, <1>7, <1>8, <1>9, <1>10, <1>11, <1>12, <1>13
  DEF Next, Build, Internal, Gen

(* The fields of the pool and of its nodes keep their types in every state   *)
(* the pool reaches.                                                         *)
THEOREM TypeCorrect == Spec => []TypeOK
BY TypeOKInit, TypeOKNext, PTL DEF Spec

-----------------------------------------------------------------------------
(* The inductive invariant of the leaf list.                                 *)
LEMMA LeafInvInit == Init => LeafInv
<1> SUFFICES ASSUME Init PROVE LeafInv
  OBVIOUS
<1>1. Range(leafjobs) = {} /\ Range(removed) = {}
  BY DEF Init, Range
<1>2. \A n \in Nodes : deps0[n] = {} /\ status[n] \in {"FREE", "nil"}
  BY DEF Init
<1>3. status[Root] = "nil"
  BY JobPoolAssumption DEF Init, Nodes
<1> QED BY <1>1, <1>2, <1>3 DEF Init, LeafInv

(* Handing out a job of the list keeps the invariant.                        *)
LEMMA LeafInvHand ==
    ASSUME TypeOK, LeafInv, NEW i \in DOMAIN leafjobs, IsFree(leafjobs[i]), Hand(i),
           phase' = "ready"
    PROVE  LeafInv'
<1> DEFINE job == leafjobs[i]
<1>1. job \in leaf /\ job \in Jobs /\ job \in Nodes /\ job # Root
  BY JobPoolAssumption DEF LeafInv, Range, IsFree, Nodes
<1>2. /\ status' = [status EXCEPT ![job] = "PENDING"]
      /\ nextfree' # NONE => nextfree' # job /\ IsFree(nextfree')
      /\ UNCHANGED <<deps, deps0, leaf, leafjobs, removed>>
  BY DEF Hand, graphVars
<1> HIDE DEF job
<1>3. Finished \subseteq Finished'
  BY <1>1, <1>2 DEF Finished, TypeOK, IsFree, job
<1>4. \A n \in Nodes : status'[n] \in {"PENDING", "FINISHED"} => n \in leaf'
  BY <1>1, <1>2 DEF LeafInv, TypeOK
<1>5. status'[Root] = "nil"
  BY <1>1, <1>2 DEF LeafInv, TypeOK, Nodes
<1>6. nextfree' # NONE => IsFree(nextfree)'
  BY <1>2 DEF IsFree, TypeOK, Nodes
<1>7. \A n \in Range(removed') : n \in leaf' /\ (n \in Groups \/ n \in Finished')
  BY <1>2, <1>3 DEF LeafInv
<1> QED BY <1>2, <1>3, <1>4, <1>5, <1>6, <1>7 DEF LeafInv

(* Removing a leaf keeps it, except that removed may shrink.                 *)
LEMMA LeafInvRemove ==
    ASSUME TypeOK, LeafInv, NEW job \in leaf, job # Root, job # nextfree,
           RemoveJob(job), phase' = phase, Range(removed') \subseteq Range(removed)
    PROVE  LeafInv'
<1>1. job \in Nodes
  BY DEF TypeOK
<1>2. /\ status' = [status EXCEPT ![job] = "FINISHED"]
      /\ leaf' = leaf \cup NewLeaves(job)
      /\ UNCHANGED <<deps0, nextfree>>
  BY DEF RemoveJob
<1>3. \A n \in Nodes : deps'[n] = IF n \in Range(parents[job]) \ leaf
                                 THEN deps[n] \ {job} ELSE deps[n]
  BY DEF RemoveJob
<1>4. Finished' = Finished \cup {job}
  BY <1>1, <1>2 DEF Finished, TypeOK
<1>5. \A n \in Nodes : deps0'[n] \subseteq deps'[n] \cup Finished'
  BY <1>2, <1>3, <1>4 DEF LeafInv
<1>6. \A n \in leaf' : deps'[n] = {}
  <2>1. ASSUME NEW n \in leaf PROVE deps'[n] = {}
    BY <1>3, <2>1 DEF LeafInv, TypeOK
  <2>2. ASSUME NEW n \in NewLeaves(job) PROVE deps'[n] = {}
    <3>1. n \in Nodes
      BY <1>1 DEF NewLeaves, Range, TypeOK
    <3> QED BY <1>3, <3>1 DEF NewLeaves
  <2> QED BY <1>2, <2>1, <2>2
<1>7. Range(leafjobs') \subseteq leaf'
  BY <1>1, <1>2, RemoveJobList DEF LeafInv
<1>8. \A n \in Range(removed') : n \in leaf' /\ (n \in Groups \/ n \in Finished')
  BY <1>2, <1>4 DEF LeafInv
<1>9. \A n \in Nodes : status'[n] \in {"PENDING", "FINISHED"} => n \in leaf'
  BY <1>1, <1>2 DEF LeafInv, TypeOK
<1>10. status'[Root] = "nil"
  BY <1>1, <1>2 DEF LeafInv, TypeOK, Nodes
<1>11. phase' # "build"
  BY DEF LeafInv
<1>12. nextfree' # NONE => IsFree(nextfree)'
  BY <1>2 DEF LeafInv, IsFree, TypeOK, Nodes
<1> QED BY <1>5, <1>6, <1>7, <1>8, <1>9, <1>10, <1>11, <1>12 DEF LeafInv

LEMMA LeafInvNext == TypeOK /\ LeafInv /\ [Next]_poolVars => LeafInv'
<1> SUFFICES ASSUME TypeOK, LeafInv, [Next]_poolVars PROVE LeafInv'
  OBVIOUS
<1> USE DEF graphVars, listVars, loopVars, poolVars
<1>1. ASSUME NEW job \in Jobs \cup Groups, NEW rootjob \in Nodes, Add(job, rootjob)
      PROVE  LeafInv'
  <2>1. leaf = {} /\ deps0' = deps' /\ UNCHANGED <<status, leaf, leafjobs, nextfree, phase, removed>>
    BY <1>1 DEF Add, LeafInv
  <2>2. Finished' = Finished
    BY <2>1 DEF Finished
  <2>3. \A n \in Nodes : deps0'[n] \subseteq deps'[n] \cup Finished'
    BY <2>1
  <2> QED BY <2>1, <2>2, <2>3 DEF LeafInv, IsFree
<1>2. ASSUME NEW g \in Groups, GroupEnter(g) PROVE LeafInv'
  BY <1>2 DEF GroupEnter, LeafInv, Finished, IsFree
<1>3. CASE GroupLeave
  BY <1>3 DEF GroupLeave, LeafInv, Finished, IsFree
<1>4. CASE GenStart
  BY <1>4 DEF GenStart, LeafInv, Finished, IsFree
<1>5. CASE GenVisit
  BY <1>5 DEF GenVisit, LeafInv, Finished, IsFree
<1>6. CASE GenLeaf
  <2>1. PICK job \in Nodes : /\ deps[job] = {}
                             /\ leaf' = leaf \cup {job}
                             /\ leafjobs' \in {Append(leafjobs, job), <<job>> \o leafjobs}
    <3>1. genstack[Len(genstack)] \in Nodes
      BY <1>6, LenProperties, EmptySeq, ElementOfSeq DEF GenLeaf, TypeOK
    <3> QED BY <1>6, <3>1 DEF GenLeaf
  <2>2. Range(leafjobs') \subseteq Range(leafjobs) \cup {job}
    <3> DEFINE one == <<job>>
    <3>1. leafjobs \in Seq(Nodes) /\ one \in Seq(Nodes) /\ Range(one) = {job}
      BY DEF TypeOK, Range
    <3>2. leafjobs' = one \o leafjobs \/ leafjobs' = leafjobs \o one
      BY <2>1, <3>1, AppendIsConcat
    <3> HIDE DEF one
    <3>3. Range(one \o leafjobs) = {job} \cup Range(leafjobs)
      BY <3>1, RangeConcatenation
    <3>4. Range(leafjobs \o one) = Range(leafjobs) \cup {job}
      BY <3>1, RangeConcatenation
    <3> QED BY <3>2, <3>3, <3>4
  <2>3. Finished' = Finished /\ UNCHANGED <<status, deps, deps0, nextfree, phase, removed>>
    BY <1>6 DEF GenLeaf, Finished
  <2> QED BY <1>6, <2>1, <2>2, <2>3 DEF GenLeaf, LeafInv, IsFree
<1>7. CASE GenReturn
  BY <1>7 DEF GenReturn, LeafInv, Finished, IsFree
<1>8. CASE GenDone
  BY <1>8 DEF GenDone, LeafInv, Finished, IsFree
<1>9. CASE SweepStart
  <2>1. Reverse(leafjobs) \in Seq(Nodes)
    BY ReverseIsSeq DEF TypeOK
  <2>2. Range(removed') = Stale
    BY <1>9, <2>1, ListingIsSeq DEF SweepStart
  <2>3. \A n \in Stale : n \in leaf /\ (n \in Groups \/ n \in Finished)
    BY DEF Stale, LeafInv, Finished, TypeOK
  <2> QED BY <1>9, <2>2, <2>3 DEF SweepStart, LeafInv, Finished, IsFree
<1>10. CASE SweepStep
  <2>1. Head(removed) \in Range(removed) /\ Range(Tail(removed)) \subseteq Range(removed)
    BY <1>10, HeadTailProperties DEF SweepStep, TypeOK, Range
  <2>2. Head(removed) # nextfree /\ Head(removed) # Root
    BY <2>1, JobPoolAssumption DEF LeafInv, Nodes, TypeOK, Finished, IsFree
  <2> QED BY <1>10, <2>1, <2>2, LeafInvRemove DEF SweepStep, LeafInv
<1>11. ASSUME NEW job \in Jobs \cup {NONE}, GetFree(job) PROVE LeafInv'
  <2>1. CASE GetNone
    BY <2>1 DEF GetNone, LeafInv, Finished, IsFree
  <2>2. CASE GetNextFree(job)
    BY <2>2, LeafInvHand DEF GetNextFree, LeafInv
  <2>3. CASE FindFree(job)
    BY <2>3, LeafInvHand DEF FindFree, IsLastFree
  <2> QED BY <1>11, <2>1, <2>2, <2>3 DEF GetFree
<1>12. ASSUME NEW job \in Jobs, Finish(job) PROVE LeafInv'
  <2>1. job \in leaf /\ job # Root /\ job # nextfree
    BY <1>12, JobPoolAssumption DEF Finish, LeafInv, Nodes, IsFree
  <2> QED BY <1>12, <2>1, LeafInvRemove DEF Finish
<1>13. CASE UNCHANGED poolVars
  BY <1>13 DEF LeafInv, Finished, IsFree
<1> QED
  BY <1>1, <1>2, <1>3, <1>4, <1>5, <1>6, <1>7, <1>8, <1>9, <1>10, <1>11, <1>12, <1>13
  DEF Next, Build, Internal, Gen

(* A leaf's dependencies, however far away, are finished.                    *)
LEMMA LeafInvImplies == TypeOK /\ LeafInv => LeafDepsFinished
<1> SUFFICES ASSUME TypeOK, LeafInv, NEW n \in leaf, NEW d \in AllDeps(n)
             PROVE  status[d] = "FINISHED"
  BY DEF LeafDepsFinished
<1>1. Finished \in SUBSET (Nodes \ {Root})
  BY DEF Finished, LeafInv
<1>2. ASSUME NEW m \in leaf PROVE deps0[m] \subseteq Finished
  BY <1>2 DEF LeafInv, TypeOK
<1>3. Finished \subseteq leaf
  BY DEF Finished, LeafInv
<1>4. d \in Finished
  BY <1>1, <1>2, <1>3 DEF AllDeps
<1> QED BY <1>4 DEF Finished

(* jobpool.lua hands out a job only when everything it depends on, directly, *)
(* through other jobs or through group nodes, has been removed from the      *)
(* pool, for every graph and every order of getfree and remove.              *)
THEOREM LeafDepsFinishedHolds == Spec => []LeafDepsFinished
<1>1. Init => TypeOK /\ LeafInv
  BY TypeOKInit, LeafInvInit
<1>2. TypeOK /\ LeafInv /\ [Next]_poolVars => (TypeOK /\ LeafInv)'
  BY TypeOKNext, LeafInvNext
<1> QED BY <1>1, <1>2, LeafInvImplies, PTL DEF Spec

-----------------------------------------------------------------------------
(* What a step does to the status of a job.                                  *)
LEMMA StatusStep ==
    ASSUME TypeOK, LeafInv, Next, NEW j \in Jobs, status'[j] # status[j]
    PROVE  \/ status[j] = "FREE" /\ status'[j] = "PENDING"
           \/ status[j] = "PENDING" /\ status'[j] = "FINISHED"
<1> USE DEF graphVars, listVars, loopVars
<1>1. CASE Build \/ Gen \/ SweepStart
  BY <1>1 DEF Build, Gen, Add, GroupEnter, GroupLeave, GenStart, GenVisit, GenLeaf,
              GenReturn, GenDone, SweepStart
<1>2. CASE SweepStep
  <2>1. Head(removed) \in Range(removed)
    BY <1>2, HeadTailProperties DEF SweepStep, TypeOK, Range
  <2>2. Head(removed) \in Groups \/ status[Head(removed)] = "FINISHED"
    BY <2>1 DEF LeafInv, Finished
  <2>3. status' = [status EXCEPT ![Head(removed)] = "FINISHED"]
    BY <1>2 DEF SweepStep, RemoveJob
  <2> QED BY <2>2, <2>3, JobPoolAssumption DEF TypeOK, Nodes
<1>3. ASSUME NEW k \in Jobs \cup {NONE}, GetFree(k)
      PROVE  status[j] = "FREE" /\ status'[j] = "PENDING"
  <2>1. CASE GetNone
    BY <2>1 DEF GetNone
  <2>2. CASE GetNextFree(k) \/ FindFree(k)
    <3>1. PICK i \in DOMAIN leafjobs : IsFree(leafjobs[i]) /\ Hand(i)
      BY <2>2 DEF GetNextFree, FindFree, IsLastFree, LeafInv
    <3> QED BY <3>1 DEF Hand, IsFree, TypeOK, Nodes
  <2> QED BY <1>3, <2>1, <2>2 DEF GetFree
<1>4. ASSUME NEW k \in Jobs, Finish(k)
      PROVE  status[j] = "PENDING" /\ status'[j] = "FINISHED"
  BY <1>4 DEF Finish, RemoveJob, TypeOK, Nodes
<1> QED BY <1>1, <1>2, <1>3, <1>4 DEF Next, Internal

(* getfree never hands out a job a second time, and a job is finished only   *)
(* after it was handed out.                                                  *)
THEOREM HandedOutOnceHolds == Spec => HandedOutOnce
<1>1. ASSUME TypeOK, LeafInv, NEW j \in Jobs, GetFree(j)
      PROVE  status[j] = "FREE"
  <2>1. GetNextFree(j) \/ FindFree(j)
    BY <1>1, JobPoolAssumption DEF GetFree
  <2> QED BY <1>1, <2>1 DEF GetNextFree, FindFree, IsLastFree, LeafInv, IsFree
<1>2. TypeOK /\ LeafInv /\ [Next]_poolVars =>
        [\A j \in Jobs :
            /\ GetFree(j) => status[j] = "FREE"
            /\ status'[j] # status[j] =>
                  <<status[j], status'[j]>> \in {<<"FREE", "PENDING">>,
                                                <<"PENDING", "FINISHED">>}]_poolVars
  BY <1>1, StatusStep
<1>3. Init => TypeOK /\ LeafInv
  BY TypeOKInit, LeafInvInit
<1>4. TypeOK /\ LeafInv /\ [Next]_poolVars => (TypeOK /\ LeafInv)'
  BY TypeOKNext, LeafInvNext
<1> QED BY <1>2, <1>3, <1>4, PTL DEF Spec, HandedOutOnce
-----------------------------------------------------------------------------
(* The list of leaf jobs.  Lemmas on lists without repetitions.              *)
LEMMA RangeIsToSet == \A s : Range(s) = ToSet(s)
BY DEF Range, ToSet

LEMMA Joined ==
    ASSUME NEW S, NEW s \in Seq(S), NEW t \in Seq(S), IsInjective(s), IsInjective(t),
           Range(s) \cap Range(t) = {}
    PROVE  /\ s \o t \in Seq(S) /\ IsInjective(s \o t)
           /\ Range(s \o t) = Range(s) \cup Range(t)
BY ConcatProperties, RangeConcatenation, InjectiveConcat, RangeIsToSet

LEMMA ReverseInjective ==
    ASSUME NEW S, NEW s \in Seq(S), IsInjective(s)
    PROVE  IsInjective(Reverse(s))
BY LenProperties DEF Reverse, IsInjective

LEMMA ListingInjective ==
    ASSUME NEW S, NEW T, NEW s \in Seq(T), NEW f \in Listings(S, s)
    PROVE  IsInjective(f)
<1>1. f \in Seq(S)
  BY ListingIsSeq
<1>2. ASSUME NEW i \in DOMAIN f, NEW j \in DOMAIN f, i < j PROVE f[i] # f[j]
  <2>1. PICK k \in DOMAIN s : s[k] = f[i] /\ \A l \in 1..k : s[l] # f[j]
    BY <1>2 DEF Listings
  <2>2. k \in 1..k
    BY LenProperties
  <2> QED BY <2>1, <2>2
<1>3. DOMAIN f = 1..Len(f) /\ Len(f) \in Nat
  BY <1>1, LenProperties
<1> QED BY <1>2, <1>3 DEF IsInjective

(* The invariant: the walk of _genleafjobs enters a node once, getfree drops *)
(* a node once, and both only touch the list as LeafjobsExact says.          *)
Walked ==
    /\ IsInjective(genstack)
    /\ Range(genstack) \subseteq (refs \cup {Root}) \ leaf
    /\ leaf \subseteq refs \cup {Root}

ListInv ==
    /\ LeafjobsExact
    /\ \A n \in Nodes : Root \notin deps[n]
    /\ phase = "build" => refs = {}
    /\ phase = "gen" => Walked
    /\ phase # "ready" => nextfree = NONE
    /\ phase = "sweep" => /\ IsInjective(removed)
                          /\ Range(removed) \subseteq Range(leafjobs) \cap Groups

(* Dropping a job of the list: it goes, the new leaves come.                 *)
LEMMA ExactRemove ==
    ASSUME TypeOK, LeafInv, LeafjobsExact, NEW job \in Range(leafjobs), job # nextfree,
           RemoveJob(job)
    PROVE  /\ LeafjobsExact'
           /\ Range(leafjobs) \ {job} \subseteq Range(leafjobs')
<1>0. /\ leafjobs \in Seq(Nodes) /\ IsInjective(leafjobs)
      /\ job \in Nodes /\ job \in leaf
      /\ parents[job] \in Seq(Nodes)
  BY DEF TypeOK, LeafInv, LeafjobsExact, Range
<1>1. PICK rest \in LeafjobsWithout(job),
           low \in Listings(NewLeaves(job) \ HighPriority, parents[job]),
           high \in Listings(NewLeaves(job) \cap HighPriority, parents[job]) :
              leafjobs' = Reverse(low) \o rest \o high
  BY DEF RemoveJob
<1>2. rest \in Seq(Nodes) /\ IsInjective(rest) /\ Range(rest) = Range(leafjobs) \ {job}
  <2>1. PICK i \in DOMAIN leafjobs : leafjobs[i] = job /\ rest = RemoveAt(leafjobs, i)
    BY DEF LeafjobsWithout
  <2>2. i \in 1..Len(leafjobs)
    BY <1>0, <2>1, LenProperties
  <2> QED BY <1>0, <2>1, <2>2, RemoveAtProperties, RangeIsToSet
<1>3. NewLeaves(job) \subseteq Nodes \ leaf
  BY <1>0 DEF NewLeaves, Range
<1>4. /\ low \in Seq(NewLeaves(job) \ HighPriority) /\ Range(low) = NewLeaves(job) \ HighPriority
      /\ IsInjective(low)
  BY <1>0, ListingIsSeq, ListingInjective
<1>5. /\ high \in Seq(NewLeaves(job) \cap HighPriority) /\ Range(high) = NewLeaves(job) \cap HighPriority
      /\ IsInjective(high)
  BY <1>0, ListingIsSeq, ListingInjective
<1>6. low \in Seq(Nodes) /\ high \in Seq(Nodes)
  BY <1>3, <1>4, <1>5
<1>7. Reverse(low) \in Seq(Nodes) /\ Range(Reverse(low)) = Range(low) /\ IsInjective(Reverse(low))
  BY <1>4, <1>6, ReverseIsSeq, ReverseInjective
<1>8. Range(leafjobs) \subseteq leaf
  BY DEF LeafInv
<1> DEFINE front == Reverse(low) \o rest
<1>9. /\ front \in Seq(Nodes) /\ Range(front) = Range(low) \cup Range(rest)
      /\ IsInjective(front)
  <2>1. Range(Reverse(low)) \cap Range(rest) = {}
    BY <1>2, <1>3, <1>4, <1>7, <1>8
  <2> QED BY <1>2, <1>7, <2>1, Joined
<1> HIDE DEF front
<1>10. /\ Range(front \o high) = Range(front) \cup Range(high)
       /\ IsInjective(front \o high)
  <2>1. Range(front) \cap Range(high) = {}
    BY <1>2, <1>3, <1>4, <1>5, <1>8, <1>9
  <2> QED BY <1>5, <1>6, <1>9, <2>1, Joined
<1>11. leafjobs' = front \o high
  BY <1>1 DEF front
<1>12. Range(leafjobs') = (Range(leafjobs) \ {job}) \cup NewLeaves(job)
  BY <1>2, <1>4, <1>5, <1>9, <1>10, <1>11
<1>13. \A n \in Nodes : status'[n] = IF n = job THEN "FINISHED" ELSE status[n]
  BY <1>0 DEF RemoveJob, TypeOK
<1>14. leaf' = leaf \cup NewLeaves(job) /\ leaf \subseteq Nodes
  BY DEF RemoveJob, TypeOK
<1>15. \A n \in NewLeaves(job) : status[n] # "FINISHED" /\ n # job
  BY <1>0, <1>3 DEF LeafInv
<1>16. Range(leafjobs') = {n \in leaf' : status'[n] # "FINISHED"}
  <2>1. Range(leafjobs) = {n \in leaf : status[n] # "FINISHED"}
    BY DEF LeafjobsExact
  <2> QED BY <1>3, <1>12, <1>13, <1>14, <1>15, <2>1
<1>17. nextfree' = nextfree
  BY DEF RemoveJob
<1>18. nextfree # NONE => IsFree(nextfree)' /\ nextfree \in Range(leafjobs')
  BY <1>12, <1>13, <1>17 DEF LeafjobsExact, IsFree, Nodes
<1> QED BY <1>10, <1>11, <1>12, <1>16, <1>17, <1>18 DEF LeafjobsExact

(* Handing out a job of the list.                                            *)
LEMMA ExactHand ==
    ASSUME TypeOK, LeafInv, LeafjobsExact, NEW i \in DOMAIN leafjobs, IsFree(leafjobs[i]),
           Hand(i)
    PROVE  LeafjobsExact'
<1> DEFINE job == leafjobs[i]
<1>1. /\ leafjobs' = leafjobs /\ leaf' = leaf /\ leaf \subseteq Nodes
      /\ job \in Jobs /\ status[job] = "FREE"
      /\ status' = [status EXCEPT ![job] = "PENDING"]
  BY DEF Hand, TypeOK, IsFree
<1>2. nextfree' # NONE => /\ i - 1 \in DOMAIN leafjobs /\ nextfree' = leafjobs[i - 1]
                          /\ leafjobs[i - 1] # job /\ IsFree(leafjobs[i - 1])
  <2>1. i \in 1..Len(leafjobs) /\ Len(leafjobs) \in Nat /\ DOMAIN leafjobs = 1..Len(leafjobs)
    BY LenProperties DEF TypeOK
  <2> QED BY <2>1 DEF Hand
<1> HIDE DEF job
<1>3. \A n \in Nodes : status'[n] = IF n = job THEN "PENDING" ELSE status[n]
  BY <1>1 DEF TypeOK
<1>4. {n \in leaf' : status'[n] # "FINISHED"} = {n \in leaf : status[n] # "FINISHED"}
  BY <1>1, <1>3
<1>5. nextfree' # NONE => IsFree(nextfree)' /\ nextfree' \in Range(leafjobs')
  BY <1>1, <1>2, <1>3 DEF IsFree, Range, Nodes
<1> QED BY <1>1, <1>4, <1>5 DEF LeafjobsExact

LEMMA ListInvInit == Init => ListInv
<1> SUFFICES ASSUME Init PROVE ListInv
  OBVIOUS
<1>1. Range(leafjobs) = {} /\ IsInjective(leafjobs)
  BY DEF Init, Range, IsInjective
<1> QED BY <1>1 DEF Init, ListInv, LeafjobsExact

LEMMA ListInvNext == TypeOK /\ LeafInv /\ ListInv /\ [Next]_poolVars => ListInv'
<1> SUFFICES ASSUME TypeOK, LeafInv, ListInv, [Next]_poolVars PROVE ListInv'
  OBVIOUS
<1> USE DEF graphVars, listVars, loopVars, poolVars
<1>1. ASSUME NEW job \in Jobs \cup Groups, NEW rootjob \in Nodes, Add(job, rootjob)
      PROVE  ListInv'
  <2>1. \A n \in Nodes : Root \notin deps'[n]
    BY <1>1, JobPoolAssumption DEF Add, ListInv, TypeOK
  <2> QED BY <1>1, <2>1 DEF Add, ListInv, LeafjobsExact, IsFree
<1>2. ASSUME NEW g \in Groups, GroupEnter(g) PROVE ListInv'
  BY <1>2 DEF GroupEnter, ListInv, LeafjobsExact, IsFree
<1>3. CASE GroupLeave
  BY <1>3 DEF GroupLeave, ListInv, LeafjobsExact, IsFree
<1>4. CASE GenStart
  <2>1. leaf = {} /\ refs = {} /\ genstack' = <<Root>>
    BY <1>4 DEF GenStart, LeafInv, ListInv
  <2>2. IsInjective(<<Root>>) /\ Range(<<Root>>) = {Root}
    BY DEF IsInjective, Range
  <2> QED BY <1>4, <2>1, <2>2 DEF GenStart, ListInv, LeafjobsExact, IsFree, Walked
<1>5. CASE GenVisit
  <2>1. genstack[Len(genstack)] \in Nodes
    BY <1>5, LenProperties, EmptySeq, ElementOfSeq DEF GenVisit, TypeOK
  <2>2. PICK dep \in deps[genstack[Len(genstack)]] \ refs :
             refs' = refs \cup {dep} /\ genstack' = Append(genstack, dep)
    BY <1>5 DEF GenVisit
  <2>3. dep \in Nodes /\ dep \notin refs \cup {Root} /\ genstack \in Seq(Nodes)
    BY <2>1, <2>2 DEF ListInv, TypeOK
  <2>4. Walked
    BY <1>5 DEF GenVisit, ListInv
  <2>5. IsInjective(genstack') /\ Range(genstack') = Range(genstack) \cup {dep}
    BY <2>2, <2>3, <2>4, AppendProperties DEF Walked, IsInjective, Range
  <2>6. Walked'
    BY <1>5, <2>2, <2>3, <2>4, <2>5 DEF GenVisit, Walked
  <2> QED BY <1>5, <2>6 DEF GenVisit, ListInv, LeafjobsExact, IsFree
<1>6. CASE GenLeaf
  <2> DEFINE job == genstack[Len(genstack)]
             one == <<job>>
  <2>1. /\ job \in Nodes /\ job \in Range(genstack)
        /\ leaf' = leaf \cup {job}
        /\ leafjobs' \in {Append(leafjobs, job), <<job>> \o leafjobs}
        /\ genstack \in Seq(Nodes) /\ leafjobs \in Seq(Nodes)
        /\ Len(genstack) \in Nat \ {0} /\ DOMAIN genstack = 1..Len(genstack)
    BY <1>6, LenProperties, EmptySeq, ElementOfSeq DEF GenLeaf, TypeOK, Range
  <2>2. Walked
    BY <1>6 DEF GenLeaf, ListInv
  <2>3. job \notin leaf /\ job \notin Range(leafjobs) /\ job \in refs \cup {Root}
    BY <2>1, <2>2 DEF Walked, LeafInv
  <2>4. genstack' = SubSeq(genstack, 1, Len(genstack) - 1)
    BY <1>6 DEF GenLeaf
  <2>5. genstack # <<>> /\ genstack' = Front(genstack) /\ job = Last(genstack)
    BY <1>6, <2>4 DEF GenLeaf, Front, Last
  <2>6. IsInjective(genstack') /\ Range(genstack') \subseteq Range(genstack) \ {job}
    <3>1. IsInjective(genstack)
      BY <2>2 DEF Walked
    <3> QED BY <2>1, <2>5, <3>1, FrontProperties, RangeIsToSet
  <2>7. one \in Seq(Nodes) /\ IsInjective(one) /\ Range(one) = {job}
    BY <2>1 DEF IsInjective, Range
  <2> HIDE DEF job
  <2>8. leafjobs' = one \o leafjobs \/ leafjobs' = leafjobs \o one
    BY <2>1, AppendIsConcat
  <2> HIDE DEF one
  <2>9. IsInjective(leafjobs)
    BY DEF ListInv, LeafjobsExact
  <2>10. IsInjective(leafjobs') /\ Range(leafjobs') = Range(leafjobs) \cup {job}
    <3>1. Range(one) \cap Range(leafjobs) = {} /\ Range(leafjobs) \cap Range(one) = {}
      BY <2>3, <2>7
    <3>2. CASE leafjobs' = one \o leafjobs
      BY <2>1, <2>7, <2>9, <3>1, <3>2, Joined
    <3>3. CASE leafjobs' = leafjobs \o one
      BY <2>1, <2>7, <2>9, <3>1, <3>3, Joined
    <3> QED BY <2>8, <3>2, <3>3
  <2>11. status[job] # "FINISHED" /\ status' = status /\ nextfree' = nextfree /\ phase = "gen"
    BY <1>6, <2>1, <2>3 DEF GenLeaf, LeafInv
  <2>12. LeafjobsExact'
    BY <2>1, <2>10, <2>11 DEF ListInv, LeafjobsExact, IsFree
  <2>13. Walked'
    BY <1>6, <2>1, <2>2, <2>3, <2>6 DEF GenLeaf, Walked
  <2> QED BY <1>6, <2>12, <2>13 DEF GenLeaf, ListInv
<1>7. CASE GenReturn
  <2>1. genstack # <<>> /\ genstack' = Front(genstack) /\ genstack \in Seq(Nodes)
    BY <1>7 DEF GenReturn, TypeOK, Front
  <2>3. Walked
    BY <1>7 DEF GenReturn, ListInv
  <2>4. IsInjective(genstack') /\ Range(genstack') \subseteq Range(genstack)
    BY <2>1, <2>3, FrontProperties, RangeIsToSet DEF Walked
  <2>5. Walked'
    BY <1>7, <2>3, <2>4 DEF GenReturn, Walked
  <2> QED BY <1>7, <2>5 DEF GenReturn, ListInv, LeafjobsExact, IsFree
<1>8. CASE GenDone
  BY <1>8 DEF GenDone, ListInv, LeafjobsExact, IsFree
<1>9. CASE SweepStart
  <2>1. Reverse(leafjobs) \in Seq(Nodes)
    BY ReverseIsSeq DEF TypeOK
  <2>2. Range(removed') = Stale /\ IsInjective(removed')
    BY <1>9, <2>1, ListingIsSeq, ListingInjective DEF SweepStart
  <2>3. Stale \subseteq Range(leafjobs) \cap Groups
    BY DEF Stale, ListInv, LeafjobsExact
  <2> QED BY <1>9, <2>2, <2>3 DEF SweepStart, ListInv, LeafjobsExact, IsFree
<1>10. CASE SweepStep
  <2>1. removed \in Seq(Nodes) /\ removed # <<>> /\ removed' = Tail(removed)
    BY <1>10 DEF SweepStep, TypeOK
  <2>2. /\ Head(removed) \in Range(removed) /\ IsInjective(Tail(removed))
        /\ Range(Tail(removed)) \subseteq Range(removed) \ {Head(removed)}
    <3>1. IsInjective(removed)
      BY <1>10 DEF SweepStep, ListInv
    <3> QED BY <2>1, <3>1, TailProperties, RangeIsToSet
  <2>3. Head(removed) \in Range(leafjobs) /\ Head(removed) # nextfree
    <3>1. nextfree = NONE /\ Head(removed) \in Range(leafjobs) /\ Head(removed) \in Nodes
      BY <1>10, <2>1, <2>2, HeadTailProperties DEF SweepStep, ListInv
    <3> QED BY <3>1, JobPoolAssumption DEF Nodes
  <2>4. LeafjobsExact' /\ Range(leafjobs) \ {Head(removed)} \subseteq Range(leafjobs')
    BY <1>10, <2>3, ExactRemove DEF SweepStep, ListInv
  <2>5. \A n \in Nodes : Root \notin deps'[n]
    BY <1>10 DEF SweepStep, RemoveJob, ListInv
  <2> QED BY <1>10, <2>1, <2>2, <2>4, <2>5 DEF SweepStep, RemoveJob, ListInv
<1>11. ASSUME NEW job \in Jobs \cup {NONE}, GetFree(job) PROVE ListInv'
  <2>1. CASE GetNone
    BY <2>1 DEF GetNone, ListInv, LeafjobsExact, IsFree
  <2>2. CASE GetNextFree(job) \/ FindFree(job)
    <3>1. PICK i \in DOMAIN leafjobs : IsFree(leafjobs[i]) /\ Hand(i) /\ phase' = "ready"
      BY <2>2 DEF GetNextFree, FindFree, IsLastFree, LeafInv
    <3>2. LeafjobsExact'
      BY <3>1, ExactHand DEF ListInv
    <3> QED BY <3>1, <3>2 DEF Hand, ListInv
  <2> QED BY <1>11, <2>1, <2>2 DEF GetFree
<1>12. ASSUME NEW job \in Jobs, Finish(job) PROVE ListInv'
  <2>1. job \in Range(leafjobs) /\ job # nextfree /\ phase = "ready" /\ phase' = "ready"
    <3>1. status[job] = "PENDING" /\ phase = "ready" /\ phase' = "ready"
      BY <1>12 DEF Finish
    <3>2. job \in leaf
      BY <3>1 DEF LeafInv, Nodes
    <3>3. job \in {n \in leaf : status[n] # "FINISHED"}
      BY <3>1, <3>2
    <3>4. nextfree # job
      BY <3>1, JobPoolAssumption DEF LeafInv, IsFree, Nodes
    <3> QED BY <3>1, <3>3, <3>4 DEF ListInv, LeafjobsExact
  <2>2. LeafjobsExact'
    BY <1>12, <2>1, ExactRemove DEF Finish, ListInv
  <2>3. \A n \in Nodes : Root \notin deps'[n]
    BY <1>12 DEF Finish, RemoveJob, ListInv
  <2> QED BY <2>1, <2>2, <2>3 DEF ListInv
<1>13. CASE UNCHANGED poolVars
  BY <1>13 DEF ListInv, LeafjobsExact, IsFree, Walked
<1> QED
  BY <1>1, <1>2, <1>3, <1>4, <1>5, <1>6, <1>7, <1>8, <1>9, <1>10, <1>11, <1>12, <1>13
  DEF Next, Build, Internal, Gen

(* The list of leaf jobs of jobpool.lua holds every leaf that is not         *)
(* finished exactly once (issue 2740), and _nextfree points to a free job of *)
(* it, for every graph and every order of getfree and remove.                *)
THEOREM LeafjobsExactHolds == Spec => []LeafjobsExact
<1>1. Init => TypeOK /\ LeafInv /\ ListInv
  BY TypeOKInit, LeafInvInit, ListInvInit
<1>2. TypeOK /\ LeafInv /\ ListInv /\ [Next]_poolVars => (TypeOK /\ LeafInv /\ ListInv)'
  BY TypeOKNext, LeafInvNext, ListInvNext
<1>3. ListInv => LeafjobsExact
  BY DEF ListInv
<1> QED BY <1>1, <1>2, <1>3, PTL DEF Spec

-----------------------------------------------------------------------------
(* The pool never runs dry.  The graph has no cycle and hangs together:       *)
(* every set of nodes has one that depends on none of the set and one that    *)
(* none of the set depends on; the list of parents is the inverse of the      *)
(* dependencies; who is a parent has been added; the open group has no        *)
(* dependencies.                                                              *)
Bottom(S) == \E m \in S : deps0[m] \cap S = {}
Top(S) == \E m \in S : \A p \in S : m \notin deps0[p]
Acyclic == \A S \in SUBSET Nodes : S # {} => Bottom(S) /\ Top(S)

GraphOK ==
    /\ \A n \in Nodes : Range(parents[n]) = {p \in Nodes : n \in deps0[p]}
    /\ \A n \in Nodes : \A p \in Range(parents[n]) : Attached(p)
    /\ \A n \in Nodes : deps[n] \subseteq deps0[n]
    /\ \A n \in Nodes : ~Attached(n) => deps0[n] = {}
    /\ group # NONE => deps0[group] = {}

(* Until the first getfree has walked the graph nothing is removed from it,   *)
(* and a node that the walk has left is a leaf or has all its dependencies    *)
(* entered.                                                                   *)
Uncut == phase \in {"build", "gen"} => deps = deps0 /\ Finished = {}

Visited(n) == IF deps[n] = {} THEN n \in leaf ELSE deps[n] \subseteq refs
WalkOK == phase = "gen" => \A n \in refs \cup {Root} : n \in Range(genstack) \/ Visited(n)

(* A finished node is out of the dependencies of every other, and a node that *)
(* has none left is a leaf.                                                   *)
LeavesOK ==
    /\ \A n \in refs \cup leaf : Attached(n)
    /\ \A n \in Nodes : deps[n] \cap Finished = {}
    /\ phase \in {"ready", "sweep"} => \A n \in Nodes : Attached(n) /\ deps[n] = {} => n \in leaf

StuckInv == Acyclic /\ GraphOK /\ Uncut /\ WalkOK /\ LeavesOK

(* A node that comes after another does not depend on it.                     *)
LEMMA AllDepsClosed ==
    ASSUME TypeOK, NEW n \in Nodes
    PROVE  /\ deps0[n] \subseteq AllDeps(n)
           /\ \A m \in AllDeps(n) : deps0[m] \subseteq AllDeps(n)
           /\ AllDeps(n) \subseteq Nodes
BY DEF AllDeps, TypeOK

(* Adding a job closes no cycle.                                              *)
LEMMA AcyclicAdd ==
    ASSUME TypeOK, Acyclic, GraphOK, NEW job \in Jobs \cup Groups, NEW rootjob \in Nodes,
           Add(job, rootjob)
    PROVE  Acyclic'
<1>0. /\ job \in Nodes /\ job # rootjob /\ rootjob \notin AllDeps(job)
      /\ group # NONE => job # group /\ group # rootjob /\ deps0[group] = {} /\ group \in Nodes
      /\ NONE \notin Nodes
  BY JobPoolAssumption DEF Add, GraphOK, Nodes, TypeOK
<1>1. \A n \in Nodes : deps0'[n] = deps[n] \cup (IF n = rootjob THEN {job} ELSE {})
                                           \cup (IF n = job /\ group # NONE THEN {group} ELSE {})
  BY DEF Add
<1>2. \A n \in Nodes : deps[n] \subseteq deps0[n]
  BY DEF GraphOK
<1>3. \A n \in Nodes : /\ n # rootjob /\ n # job => deps0'[n] \subseteq deps0[n]
                       /\ n = rootjob => deps0'[n] \subseteq deps0[n] \cup {job}
                       /\ n = job => deps0'[n] \subseteq deps0[n] \cup ({group} \ {NONE})
  BY <1>0, <1>1, <1>2
<1>4. /\ deps0[job] \subseteq AllDeps(job)
      /\ \A m \in AllDeps(job) : deps0[m] \subseteq AllDeps(job)
  BY <1>0, AllDepsClosed
<1>5. ASSUME NEW S \in SUBSET Nodes, S # {} PROVE Bottom(S)'
  <2>1. CASE group \in S
    <3>1. group # NONE /\ deps0'[group] = {}
      BY <1>0, <1>3, <2>1
    <3> QED BY <2>1, <3>1 DEF Bottom
  <2>2. CASE group \notin S /\ (job \notin S \/ rootjob \notin S)
    <3>1. PICK m \in S : deps0[m] \cap S = {}
      BY <1>5 DEF Acyclic, Bottom
    <3>2. deps0'[m] \cap S = {}
      BY <1>3, <2>2, <3>1
    <3> QED BY <3>2 DEF Bottom
  <2>3. CASE group \notin S /\ job \in S
    <3> DEFINE T == S \cap (AllDeps(job) \cup {job})
    <3>1. T \in SUBSET Nodes /\ T # {}
      BY <2>3
    <3>2. PICK m \in T : deps0[m] \cap T = {}
      BY <3>1 DEF Acyclic, Bottom
    <3>3. m \in S /\ m # rootjob /\ deps0[m] \cap S = {}
      BY <1>0, <1>4, <3>2
    <3>4. deps0'[m] \cap S = {}
      BY <1>3, <2>3, <3>3
    <3> QED BY <3>3, <3>4 DEF Bottom
  <2> QED BY <2>1, <2>2, <2>3
<1>6. ASSUME NEW S \in SUBSET Nodes, S # {} PROVE Top(S)'
  <2>1. CASE rootjob \in S
    <3> DEFINE T == S \ (AllDeps(job) \cup {job, group})
    <3>1. T \in SUBSET Nodes /\ rootjob \in T
      BY <1>0, <2>1
    <3>2. PICK m \in T : \A p \in T : m \notin deps0[p]
      BY <3>1 DEF Acyclic, Top
    <3>3. m \in S /\ m # job /\ m # group /\ m \notin AllDeps(job)
      BY <3>2
    <3>4. ASSUME NEW p \in S PROVE m \notin deps0'[p]
      <4>1. m \notin deps0[p]
        <5>1. CASE p \in AllDeps(job) \/ p = job
          BY <1>4, <3>3, <5>1
        <5>2. CASE p = group
          BY <1>0, <5>2
        <5> QED BY <3>2, <5>1, <5>2
      <4> QED BY <1>3, <3>3, <4>1
    <3> QED BY <3>3, <3>4 DEF Top
  <2>2. CASE rootjob \notin S /\ job \notin S
    <3>1. PICK m \in S : \A p \in S : m \notin deps0[p]
      BY <1>6 DEF Acyclic, Top
    <3>2. \A p \in S : m \notin deps0'[p]
      BY <1>3, <2>2, <3>1
    <3> QED BY <3>2 DEF Top
  <2>3. CASE rootjob \notin S /\ job \in S
    <3> DEFINE T == S \ {group}
    <3>1. T \in SUBSET Nodes /\ T # {}
      BY <1>0, <2>3
    <3>2. PICK m \in T : \A p \in T : m \notin deps0[p]
      BY <3>1 DEF Acyclic, Top
    <3>3. ASSUME NEW p \in S PROVE m \notin deps0'[p]
      <4>1. m \notin deps0[p]
        BY <1>0, <3>2
      <4> QED BY <1>3, <2>3, <3>2, <4>1
    <3> QED BY <3>2, <3>3 DEF Top
  <2> QED BY <2>1, <2>2, <2>3
<1>7. Nodes' = Nodes
  BY DEF Nodes
<1> QED BY <1>5, <1>6 DEF Acyclic

(* The members of a list that is empty, and of one that is not.               *)
LEMMA RangeEmpty ==
    ASSUME NEW S, NEW s \in Seq(S)
    PROVE  s = <<>> <=> Range(s) = {}
<1>1. s = <<>> => Range(s) = {}
  BY DEF Range
<1>2. ASSUME s # <<>> PROVE Range(s) # {}
  <2>1. Len(s) \in Nat \ {0} /\ DOMAIN s = 1..Len(s)
    BY <1>2, EmptySeq, LenProperties
  <2>2. s[1] \in Range(s)
    BY <2>1 DEF Range
  <2> QED BY <2>2
<1> QED BY <1>1, <1>2

LEMMA GraphOKAdd ==
    ASSUME TypeOK, GraphOK, NEW job \in Jobs \cup Groups, NEW rootjob \in Nodes,
           deps = deps0, Add(job, rootjob)
    PROVE  GraphOK'
<1>0. /\ job \in Nodes /\ job # rootjob /\ job # Root /\ Attached(rootjob)
      /\ group # NONE => job # group /\ group # rootjob /\ group \in Nodes /\ group # Root
      /\ NONE \notin Nodes
      /\ Nodes' = Nodes
  BY JobPoolAssumption DEF Add, Nodes, TypeOK
<1>1. \A n \in Nodes : deps0'[n] = deps0[n] \cup (IF n = rootjob THEN {job} ELSE {})
                                            \cup (IF n = job /\ group # NONE THEN {group} ELSE {})
  BY DEF Add
<1>2. \A n \in Nodes : Range(parents'[n]) =
          IF n = job THEN Range(parents[n]) \cup {rootjob}
          ELSE IF n = group THEN Range(parents[n]) \cup {job}
          ELSE Range(parents[n])
  <2>1. \A n \in Nodes : parents[n] \in Seq(Nodes)
    BY DEF TypeOK
  <2>2. \A n \in Nodes : parents'[n] = IF n = job THEN Append(parents[n], rootjob)
                                      ELSE IF n = group THEN Append(parents[n], job)
                                      ELSE parents[n]
    BY DEF Add
  <2>3. ASSUME NEW n \in Nodes, NEW p \in Nodes
        PROVE  Range(Append(parents[n], p)) = Range(parents[n]) \cup {p}
    BY <2>1, ToSetAppend, RangeIsToSet
  <2> QED BY <1>0, <2>2, <2>3
<1>3. \A n \in Nodes : Attached(n)' <=> Attached(n) \/ n = job \/ (n = group /\ group # NONE)
  <2>1. ASSUME NEW n \in Nodes PROVE Attached(n) <=> n = Root \/ Range(parents[n]) # {}
    <3>1. parents[n] \in Seq(Nodes)
      BY DEF TypeOK
    <3>2. parents[n] = <<>> <=> Range(parents[n]) = {}
      BY <3>1, RangeEmpty
    <3> QED BY <3>2 DEF Attached
  <2>2. ASSUME NEW n \in Nodes PROVE Attached(n)' <=> n = Root \/ Range(parents'[n]) # {}
    <3>1. parents'[n] \in Seq(Nodes)
      <4>1. parents[n] \in Seq(Nodes)
        BY DEF TypeOK
      <4> QED BY <1>0, <4>1, AppendProperties DEF Add
    <3>2. parents'[n] = <<>> <=> Range(parents'[n]) = {}
      BY <3>1, RangeEmpty
    <3> QED BY <3>2 DEF Attached
  <2> QED BY <1>0, <1>2, <2>1, <2>2
<1>4. \A n \in Nodes : Range(parents'[n]) = {p \in Nodes : n \in deps0'[p]}
  <2>1. \A n \in Nodes : Range(parents[n]) = {p \in Nodes : n \in deps0[p]}
    BY DEF GraphOK
  <2>2. ASSUME NEW n \in Nodes PROVE Range(parents'[n]) = {p \in Nodes : n \in deps0'[p]}
    <3>1. CASE n = job
      <4>1. \A p \in Nodes : n \in deps0'[p] <=> n \in deps0[p] \/ p = rootjob
        BY <1>0, <1>1, <3>1
      <4> QED BY <1>2, <2>1, <3>1, <4>1
    <3>2. CASE n = group
      <4>1. group # NONE
        BY <1>0, <3>2
      <4>2. \A p \in Nodes : n \in deps0'[p] <=> n \in deps0[p] \/ p = job
        BY <1>0, <1>1, <3>2, <4>1
      <4> QED BY <1>0, <1>2, <2>1, <3>2, <4>1, <4>2
    <3>3. CASE n # job /\ n # group
      <4>1. \A p \in Nodes : n \in deps0'[p] <=> n \in deps0[p]
        BY <1>1, <3>3
      <4> QED BY <1>2, <2>1, <3>3, <4>1
    <3> QED BY <3>1, <3>2, <3>3
  <2> QED BY <2>2
<1>5. \A n \in Nodes : \A p \in Range(parents'[n]) : Attached(p)'
  <2>1. \A n \in Nodes : Range(parents[n]) \subseteq Nodes
    BY DEF TypeOK, Range
  <2>2. \A n \in Nodes : \A p \in Range(parents[n]) : Attached(p)'
    BY <1>3, <2>1 DEF GraphOK
  <2> QED BY <1>0, <1>2, <1>3, <2>2
<1>6. \A n \in Nodes : ~Attached(n)' => deps0'[n] = {}
  BY <1>0, <1>1, <1>3 DEF GraphOK
<1>7. group' # NONE => deps0'[group'] = {}
  BY <1>0, <1>1 DEF Add, GraphOK
<1>8. deps' = deps0'
  BY DEF Add
<1> QED BY <1>0, <1>4, <1>5, <1>6, <1>7, <1>8 DEF GraphOK

(* When the walk is done, it has entered every node that was added: the       *)
(* topmost node it missed would have a parent that it has left.               *)
LEMMA WalkComplete ==
    ASSUME TypeOK, ListInv, StuckInv, phase = "gen", genstack = <<>>, NEW n \in Nodes, Attached(n)
    PROVE  Visited(n)
<1> DEFINE missed == {m \in Nodes : Attached(m) /\ m \notin refs \cup {Root}}
<1>1. Range(genstack) = {} /\ deps = deps0
  BY DEF Range, StuckInv, Uncut
<1>2. \A m \in refs \cup {Root} : Visited(m)
  BY <1>1 DEF StuckInv, WalkOK
<1>3. missed = {}
  <2>1. SUFFICES ASSUME missed # {} PROVE FALSE
    OBVIOUS
  <2>2. PICK m \in missed : \A p \in missed : m \notin deps0[p]
    <3>1. missed \in SUBSET Nodes
      OBVIOUS
    <3> HIDE DEF missed
    <3> QED BY <2>1, <3>1 DEF StuckInv, Acyclic, Top
  <2>3. parents[m] # <<>> /\ parents[m] \in Seq(Nodes)
    BY <2>2 DEF Attached, TypeOK
  <2>4. PICK p \in Range(parents[m]) : TRUE
    BY <2>3, RangeEmpty
  <2>5. p \in Nodes /\ m \in deps0[p] /\ Attached(p)
    BY <2>2, <2>4 DEF StuckInv, GraphOK
  <2>6. p \in refs \cup {Root}
    BY <2>2, <2>5
  <2>7. m \in refs
    BY <1>1, <1>2, <2>5, <2>6 DEF Visited
  <2> QED BY <2>2, <2>7
<1> QED BY <1>2, <1>3

(* Removing a finished job or a group keeps the leaves complete.              *)
LEMMA LeavesRemove ==
    ASSUME TypeOK, LeafInv, GraphOK, LeavesOK, NEW job \in leaf, RemoveJob(job), job # Root,
           phase \in {"ready", "sweep"}, phase' = phase
    PROVE  LeavesOK'
<1>0. /\ job \in Nodes /\ leaf \subseteq Nodes /\ Nodes' = Nodes
      /\ UNCHANGED <<parents, deps0, refs>>
      /\ leaf' = leaf \cup NewLeaves(job)
  BY DEF RemoveJob, TypeOK, Nodes
<1>1. \A n \in Nodes : deps'[n] = IF n \in Range(parents[job]) \ leaf
                                 THEN deps[n] \ {job} ELSE deps[n]
  BY DEF RemoveJob
<1>2. Finished' = Finished \cup {job}
  BY <1>0 DEF RemoveJob, Finished, TypeOK
<1>3. \A n \in Nodes : Attached(n)' <=> Attached(n)
  BY <1>0 DEF Attached
<1>4. Range(parents[job]) = {p \in Nodes : job \in deps0[p]}
  BY <1>0 DEF GraphOK
<1>5. \A n \in NewLeaves(job) : Attached(n) /\ n \in Nodes
  BY <1>0, <1>4 DEF NewLeaves, GraphOK
<1>6. \A n \in refs' \cup leaf' : Attached(n)'
  BY <1>0, <1>3, <1>5 DEF LeavesOK, TypeOK
<1>7. ASSUME NEW n \in Nodes PROVE deps'[n] \cap Finished' = {}
  <2>1. deps[n] \cap Finished = {}
    BY DEF LeavesOK
  <2>2. job \notin deps'[n]
    <3>1. n \in leaf => deps[n] = {}
      BY DEF LeafInv
    <3>2. job \in deps[n] => n \in Range(parents[job])
      BY <1>4 DEF GraphOK
    <3> QED BY <1>1, <3>1, <3>2
  <2> QED BY <1>1, <1>2, <2>1, <2>2
<1>8. ASSUME NEW n \in Nodes, Attached(n), deps'[n] = {} PROVE n \in leaf'
  <2>1. CASE n \in leaf \/ deps[n] = {}
    BY <1>0, <1>8, <2>1 DEF LeavesOK
  <2>2. CASE n \notin leaf /\ deps[n] # {}
    BY <1>0, <1>1, <1>8, <2>2 DEF NewLeaves
  <2> QED BY <2>1, <2>2
<1> QED BY <1>0, <1>3, <1>6, <1>7, <1>8 DEF LeavesOK

LEMMA StuckInvInit == Init => StuckInv
<1> SUFFICES ASSUME Init PROVE StuckInv
  OBVIOUS
<1>1. /\ \A n \in Nodes : deps0[n] = {} /\ deps[n] = {} /\ parents[n] = <<>>
      /\ status \in [Nodes -> {"FREE", "nil"}]
      /\ deps = deps0 /\ group = NONE /\ refs = {} /\ leaf = {} /\ phase = "build"
  BY DEF Init
<1>2. Acyclic
  BY <1>1 DEF Acyclic, Bottom, Top
<1>3. GraphOK
  BY <1>1, RangeEmpty, EmptySeq DEF GraphOK
<1>4. Finished = {}
  BY <1>1 DEF Finished
<1> QED BY <1>1, <1>2, <1>3, <1>4 DEF StuckInv, Uncut, WalkOK, LeavesOK

(* Steps that leave the graph alone.                                          *)
LEMMA GraphSame ==
    ASSUME StuckInv, UNCHANGED <<parents, deps, deps0>>, group' \in {group, NONE}
    PROVE  Acyclic' /\ GraphOK' /\ \A n \in Nodes : Attached(n)' <=> Attached(n)
<1>1. Acyclic'
  BY DEF StuckInv, Acyclic, Bottom, Top, Nodes
<1>2. \A n \in Nodes : Attached(n)' <=> Attached(n)
  BY DEF Attached
<1>3. \A n \in Nodes : \A p \in Range(parents[n]) : Attached(p)'
  BY DEF StuckInv, GraphOK, Attached
<1>4. GraphOK'
  BY <1>2, <1>3 DEF StuckInv, GraphOK, Nodes
<1> QED BY <1>1, <1>2, <1>4

LEMMA StuckInvNext == TypeOK /\ LeafInv /\ ListInv /\ StuckInv /\ [Next]_poolVars => StuckInv'
<1> SUFFICES ASSUME TypeOK, LeafInv, ListInv, StuckInv, [Next]_poolVars PROVE StuckInv'
  OBVIOUS
<1> USE DEF graphVars, listVars, loopVars, poolVars
<1>0. Nodes' = Nodes /\ Root \in Nodes /\ refs \subseteq Nodes /\ leaf \subseteq Nodes
  BY DEF Nodes, TypeOK
<1>1. ASSUME NEW job \in Jobs \cup Groups, NEW rootjob \in Nodes, Add(job, rootjob)
      PROVE  StuckInv'
  <2>1. phase = "build" /\ phase' = "build" /\ deps = deps0 /\ deps' = deps0' /\ Finished = {}
        /\ UNCHANGED <<status, leaf, refs>> /\ leaf = {} /\ refs = {}
    BY <1>1 DEF Add, StuckInv, Uncut, LeafInv, ListInv
  <2>2. Acyclic' /\ GraphOK'
    BY <1>1, <2>1, AcyclicAdd, GraphOKAdd DEF StuckInv
  <2>3. Finished' = {}
    BY <2>1 DEF Finished, Nodes
  <2> QED BY <2>1, <2>2, <2>3 DEF StuckInv, Uncut, WalkOK, LeavesOK
<1>2. ASSUME NEW g \in Groups, GroupEnter(g) PROVE StuckInv'
  <2>1. /\ UNCHANGED <<parents, deps, deps0, status, leaf, refs, phase>>
        /\ phase = "build" /\ leaf = {} /\ refs = {} /\ group' = g /\ parents[g] = <<>>
        /\ g \in Nodes /\ g # Root
    BY <1>2, JobPoolAssumption DEF GroupEnter, LeafInv, ListInv, Nodes
  <2>2. deps0[g] = {}
    BY <2>1 DEF StuckInv, GraphOK, Attached
  <2>3. Acyclic'
    BY <2>1 DEF StuckInv, Acyclic, Bottom, Top, Nodes
  <2>4. \A n \in Nodes : \A p \in Range(parents[n]) : Attached(p)'
    BY <2>1 DEF StuckInv, GraphOK, Attached
  <2>5. \A n \in Nodes : ~Attached(n)' => deps0'[n] = {}
    BY <2>1 DEF StuckInv, GraphOK, Attached
  <2>6. GraphOK'
    BY <2>1, <2>2, <2>4, <2>5 DEF StuckInv, GraphOK, Nodes
  <2>7. Finished' = Finished
    BY <2>1 DEF Finished, Nodes
  <2> QED BY <2>1, <2>3, <2>6, <2>7 DEF StuckInv, Uncut, WalkOK, LeavesOK, Nodes
<1>3. CASE GroupLeave
  <2>1. Acyclic' /\ GraphOK' /\ \A n \in Nodes : Attached(n)' <=> Attached(n)
    BY <1>3, GraphSame DEF GroupLeave
  <2> QED BY <1>0, <1>3, <2>1 DEF GroupLeave, StuckInv, Uncut, WalkOK, LeavesOK, Visited, Finished
<1>4. CASE GenStart
  <2>1. Acyclic' /\ GraphOK' /\ \A n \in Nodes : Attached(n)' <=> Attached(n)
    BY <1>4, GraphSame DEF GenStart
  <2>2. Uncut' /\ LeavesOK'
    BY <1>0, <1>4, <2>1 DEF GenStart, StuckInv, Uncut, LeavesOK, Finished
  <2>3. refs' = {} /\ Root \in Range(genstack')
    BY <1>4 DEF GenStart, ListInv, Range
  <2> QED BY <2>1, <2>2, <2>3 DEF StuckInv, WalkOK
<1>5. CASE GenVisit
  <2>1. Acyclic' /\ GraphOK' /\ \A n \in Nodes : Attached(n)' <=> Attached(n)
    BY <1>5, GraphSame DEF GenVisit
  <2>2. genstack[Len(genstack)] \in Nodes /\ genstack \in Seq(Nodes)
    BY <1>5, LenProperties, EmptySeq, ElementOfSeq DEF GenVisit, TypeOK
  <2>3. PICK dep \in deps[genstack[Len(genstack)]] \ refs :
             refs' = refs \cup {dep} /\ genstack' = Append(genstack, dep)
    BY <1>5 DEF GenVisit
  <2>4. dep \in Nodes /\ dep \in deps0[genstack[Len(genstack)]]
    BY <2>2, <2>3 DEF TypeOK, StuckInv, GraphOK
  <2>5. Range(genstack') = Range(genstack) \cup {dep}
    BY <2>2, <2>3, <2>4, ToSetAppend, RangeIsToSet
  <2>6. Attached(dep)
    <3>1. parents[dep] \in Seq(Nodes) /\ Range(parents[dep]) # {}
      BY <2>2, <2>4 DEF StuckInv, GraphOK, TypeOK
    <3> QED BY <3>1, RangeEmpty DEF Attached
  <2>7. Uncut' /\ LeavesOK'
    BY <1>0, <1>5, <2>1, <2>3, <2>4, <2>6 DEF GenVisit, StuckInv, Uncut, LeavesOK, Finished
  <2>8. WalkOK'
    BY <1>0, <1>5, <2>3, <2>5 DEF GenVisit, StuckInv, WalkOK, Visited
  <2> QED BY <2>1, <2>7, <2>8 DEF StuckInv
<1>6. ASSUME GenLeaf \/ GenReturn PROVE StuckInv'
  <2> DEFINE job == genstack[Len(genstack)]
  <2>1. Acyclic' /\ GraphOK' /\ \A n \in Nodes : Attached(n)' <=> Attached(n)
    BY <1>6, GraphSame DEF GenLeaf, GenReturn
  <2>2. /\ job \in Nodes /\ job \in Range(genstack) /\ genstack \in Seq(Nodes) /\ genstack # <<>>
        /\ genstack' = SubSeq(genstack, 1, Len(genstack) - 1)
    BY <1>6, LenProperties, EmptySeq, ElementOfSeq DEF GenLeaf, GenReturn, TypeOK, Range
  <2>3. phase = "gen" /\ Walked
    BY <1>6 DEF GenLeaf, GenReturn, ListInv
  <2>4. /\ genstack' = Front(genstack) /\ job = Last(genstack)
    BY <2>2 DEF Front, Last
  <2>5. Range(genstack) \subseteq Range(genstack') \cup {job}
    BY <2>2, <2>3, <2>4, FrontProperties, RangeIsToSet DEF Walked
  <2>6. /\ phase' = phase /\ UNCHANGED <<status, deps, deps0, refs>>
        /\ leaf \subseteq leaf' /\ leaf' \subseteq leaf \cup {job}
        /\ IF deps[job] = {} THEN job \in leaf' ELSE deps[job] \subseteq refs
    BY <1>6 DEF GenLeaf, GenReturn
  <2>7. job \in refs \cup {Root}
    BY <2>2, <2>3 DEF Walked
  <2> HIDE DEF job
  <2>8. Attached(job)
    BY <2>7 DEF StuckInv, LeavesOK, Attached
  <2>9. Uncut' /\ LeavesOK'
    BY <1>0, <2>1, <2>2, <2>3, <2>6, <2>8 DEF StuckInv, Uncut, LeavesOK, Finished
  <2>10. WalkOK'
    <3>1. ASSUME NEW n \in refs \cup {Root} PROVE n \in Range(genstack') \/ Visited(n)'
      <4>1. n \in Range(genstack) \/ Visited(n)
        BY <2>3, <3>1 DEF StuckInv, WalkOK
      <4>2. n = job => Visited(n)'
        BY <2>6 DEF Visited
      <4>3. Visited(n) => Visited(n)'
        BY <2>6 DEF Visited
      <4> QED BY <2>5, <4>1, <4>2, <4>3
    <3> QED BY <2>6, <3>1 DEF WalkOK
  <2> QED BY <2>1, <2>9, <2>10 DEF StuckInv
<1>8. CASE GenDone
  <2>1. Acyclic' /\ GraphOK' /\ \A n \in Nodes : Attached(n)' <=> Attached(n)
    BY <1>8, GraphSame DEF GenDone
  <2>2. \A n \in Nodes : Attached(n) /\ deps[n] = {} => n \in leaf
    BY <1>8, WalkComplete DEF GenDone, Visited
  <2> QED BY <1>0, <1>8, <2>1, <2>2 DEF GenDone, StuckInv, Uncut, WalkOK, LeavesOK, Finished
<1>9. CASE SweepStart
  <2>1. Acyclic' /\ GraphOK' /\ \A n \in Nodes : Attached(n)' <=> Attached(n)
    BY <1>9, GraphSame DEF SweepStart
  <2> QED BY <1>0, <1>9, <2>1 DEF SweepStart, StuckInv, Uncut, WalkOK, LeavesOK, Finished
<1>10. ASSUME NEW job \in leaf, job # Root, RemoveJob(job), phase \in {"ready", "sweep"}, phase' = phase
       PROVE  StuckInv'
  <2>1. UNCHANGED <<parents, deps0, group>> /\ \A n \in Nodes : deps'[n] \subseteq deps[n]
    BY <1>10 DEF RemoveJob
  <2>2. Acyclic'
    BY <1>0, <2>1 DEF StuckInv, Acyclic, Bottom, Top
  <2>3. \A n \in Nodes : Attached(n)' <=> Attached(n)
    BY <2>1 DEF Attached
  <2>4. \A n \in Nodes : \A p \in Range(parents[n]) : Attached(p)'
    BY <2>1 DEF StuckInv, GraphOK, Attached
  <2>5. GraphOK'
    BY <1>0, <2>1, <2>3, <2>4 DEF StuckInv, GraphOK
  <2>6. LeavesOK'
    BY <1>10, LeavesRemove DEF StuckInv
  <2> QED BY <1>10, <2>2, <2>5, <2>6 DEF StuckInv, Uncut, WalkOK
<1>11. CASE SweepStep
  <2>1. Head(removed) \in Range(removed)
    BY <1>11, HeadTailProperties DEF SweepStep, TypeOK, Range
  <2>2. Head(removed) \in leaf /\ Head(removed) # Root
    BY <1>11, <2>1, JobPoolAssumption DEF SweepStep, ListInv, LeafInv
  <2> QED BY <1>10, <1>11, <2>2 DEF SweepStep
<1>12. ASSUME NEW job \in Jobs \cup {NONE}, GetFree(job) PROVE StuckInv'
  <2>1. /\ UNCHANGED <<parents, deps, deps0, group, leaf, refs>>
        /\ phase \in {"ready", "sweep"} /\ phase' = "ready"
        /\ Finished' \subseteq Finished
    <3>1. CASE GetNone
      BY <3>1 DEF GetNone, Finished, Nodes
    <3>2. CASE GetNextFree(job) \/ FindFree(job)
      <4>1. PICK i \in DOMAIN leafjobs : Hand(i)
        BY <3>2 DEF GetNextFree, FindFree
      <4>2. Finished' \subseteq Finished
        BY <1>0, <4>1 DEF Hand, Finished, TypeOK
      <4> QED BY <3>2, <4>1, <4>2 DEF Hand, GetNextFree, FindFree
    <3> QED BY <1>12, <3>1, <3>2 DEF GetFree
  <2>2. Acyclic' /\ GraphOK' /\ \A n \in Nodes : Attached(n)' <=> Attached(n)
    BY <2>1, GraphSame
  <2> QED BY <1>0, <2>1, <2>2 DEF StuckInv, Uncut, WalkOK, LeavesOK
<1>13. ASSUME NEW job \in Jobs, Finish(job) PROVE StuckInv'
  <2>1. job \in leaf /\ job # Root
    BY <1>13, JobPoolAssumption DEF Finish, LeafInv, Nodes
  <2> QED BY <1>10, <1>13, <2>1 DEF Finish
<1>14. CASE UNCHANGED poolVars
  <2>1. Acyclic' /\ GraphOK' /\ \A n \in Nodes : Attached(n)' <=> Attached(n)
    BY <1>14, GraphSame
  <2> QED BY <1>0, <1>14, <2>1 DEF StuckInv, Uncut, WalkOK, LeavesOK, Visited, Finished
<1> QED
  BY <1>1, <1>2, <1>3, <1>4, <1>5, <1>6, <1>8, <1>9, <1>11, <1>12, <1>13, <1>14
  DEF Next, Build, Internal, Gen

(* With an unfinished node, the bottom one of the unfinished is in the list.  *)
LEMMA StuckInvImplies ==
    TypeOK /\ LeafInv /\ ListInv /\ StuckInv => NeverStuck
<1> SUFFICES ASSUME TypeOK, LeafInv, ListInv, StuckInv, phase = "ready",
                    NEW j \in Jobs, Attached(j), status[j] # "FINISHED"
             PROVE  \E n \in Range(leafjobs) : n # Root
  BY DEF NeverStuck
<1> DEFINE open == {n \in Nodes \ {Root} : Attached(n) /\ n \notin Finished}
<1>1. open \in SUBSET Nodes /\ j \in open
  BY JobPoolAssumption DEF Nodes, Finished
<1> HIDE DEF open
<1>2. PICK m \in open : deps0[m] \cap open = {}
  BY <1>1 DEF StuckInv, Acyclic, Bottom
<1>3. m \in Nodes /\ m # Root /\ Attached(m) /\ m \notin Finished
  BY <1>2 DEF open
<1>4. deps[m] = {}
  <2>1. SUFFICES ASSUME NEW d \in deps[m] PROVE FALSE
    OBVIOUS
  <2>2. d \in deps0[m] /\ d \in Nodes /\ d # Root /\ d \notin Finished
    BY <1>3 DEF StuckInv, GraphOK, LeavesOK, ListInv, TypeOK
  <2>3. m \in Range(parents[d]) /\ parents[d] \in Seq(Nodes)
    BY <1>3, <2>2 DEF StuckInv, GraphOK, TypeOK
  <2>4. Attached(d)
    BY <2>3, RangeEmpty DEF Attached
  <2>5. d \in open
    BY <2>2, <2>4 DEF open
  <2> QED BY <1>2, <2>2, <2>5
<1>5. m \in leaf
  BY <1>3, <1>4 DEF StuckInv, LeavesOK
<1>6. m \in Range(leafjobs)
  BY <1>3, <1>5 DEF ListInv, LeafjobsExact, Finished
<1> QED BY <1>3, <1>6

(* The pool of jobpool.lua never runs dry: as long as a job that was added is *)
(* not finished, the list of leaf jobs holds a job that runs, a job to hand   *)
(* out or a group to drop, for every graph add and group_enter can make.      *)
THEOREM NeverStuckHolds == Spec => []NeverStuck
<1> DEFINE IInv == TypeOK /\ LeafInv /\ ListInv /\ StuckInv
<1>1. Init => IInv
  BY TypeOKInit, LeafInvInit, ListInvInit, StuckInvInit
<1>2. IInv /\ [Next]_poolVars => IInv'
  BY TypeOKNext, LeafInvNext, ListInvNext, StuckInvNext
<1>3. IInv => NeverStuck
  BY StuckInvImplies
<1> HIDE DEF IInv
<1> QED BY <1>1, <1>2, <1>3, PTL DEF Spec

-----------------------------------------------------------------------------
(* The runner on its pool                                                    *)

(* What the runner's invariants add up to.                                    *)
RInv == RTypeOK /\ LeafInv /\ RunnerInv /\ DepsBuilt /\ IsFiniteSet(cogroup)

-----------------------------------------------------------------------------
(* Every step of the runner is a step of the pool or leaves the pool alone.   *)
LEMMA RunnerUsesPool == RTypeOK /\ RunnerInv /\ [RNext]_vars => [Next]_poolVars
<1> SUFFICES ASSUME RTypeOK, RunnerInv, [RNext]_vars PROVE [Next]_poolVars
  OBVIOUS
<1>1. CASE BuildGraph
  BY <1>1 DEF BuildGraph, Next
<1>2. CASE Enter \/ Outer \/ Inner \/ WaitOne \/ ResumeOne \/ WaitAll \/ ResumeAll \/ Leave
  BY <1>2 DEF Enter, Outer, Inner, WaitOne, ResumeOne, WaitAll, ResumeAll, Leave
<1>3. CASE InGetFree
  BY <1>3 DEF InGetFree, Next
<1>4. CASE Got
  BY <1>4 DEF Got, Next
<1>5. CASE Start
  BY <1>5 DEF Start, Close, Next, RunnerInv
<1>6. ASSUME NEW j \in Jobs, EndJob(j) PROVE Next
  BY <1>6 DEF EndJob, Close, Next
<1>7. CASE Returned \/ UNCHANGED vars
  BY <1>7 DEF Returned, vars
<1> QED BY <1>1, <1>2, <1>3, <1>4, <1>5, <1>6, <1>7 DEF RNext, Runner

(* The end of a job's body.                                                   *)
LEMMA CloseStep ==
    ASSUME RTypeOK, NEW j \in Jobs, NEW result, Close(j, result)
    PROVE  /\ runs' = [runs EXCEPT ![j] = result]
           /\ stop' = (stop \/ result = "failed")
           /\ dead' = dead \cup {j}
           /\ status[j] = "PENDING"
           /\ status' = [status EXCEPT ![j] = "FINISHED"]
           /\ UNCHANGED <<deps0, phase>>
BY DEF Close, Finish, RemoveJob

LEMMA RTypeOKNext == RTypeOK /\ RunnerInv /\ [RNext]_vars => RTypeOK'
<1> SUFFICES ASSUME RTypeOK, RunnerInv, [RNext]_vars PROVE RTypeOK'
  OBVIOUS
<1>0. TypeOK'
  BY RunnerUsesPool, TypeOKNext DEF RTypeOK
<1> USE DEF runnerVars
<1>1. CASE BuildGraph \/ Enter \/ Outer \/ Inner \/ InGetFree
  BY <1>0, <1>1 DEF BuildGraph, Enter, Outer, Inner, InGetFree, RTypeOK
<1>2. CASE WaitOne \/ ResumeOne \/ WaitAll \/ ResumeAll \/ Leave
  BY <1>0, <1>2 DEF WaitOne, ResumeOne, WaitAll, ResumeAll, Leave, RTypeOK
<1>3. CASE Got
  BY <1>0, <1>3 DEF Got, RTypeOK
<1>4. CASE Start
  <2>1. current \in Jobs
    BY <1>4 DEF Start, RunnerInv
  <2>2. /\ runs' \in [Jobs -> {"idle", "running", "done", "failed", "skipped"}]
        /\ stop' \in BOOLEAN
        /\ dead' \subseteq Jobs
    BY <1>4, <2>1 DEF Start, Close, RTypeOK
  <2> QED BY <1>0, <1>4, <2>1, <2>2 DEF Start, RTypeOK
<1>5. ASSUME NEW j \in Jobs, EndJob(j) PROVE RTypeOK'
  <2>1. /\ runs' \in [Jobs -> {"idle", "running", "done", "failed", "skipped"}]
        /\ stop' \in BOOLEAN
        /\ dead' \subseteq Jobs
    BY <1>5 DEF EndJob, Close, RTypeOK
  <2> QED BY <1>0, <1>5, <2>1 DEF EndJob, RTypeOK
<1>6. CASE Returned \/ UNCHANGED vars
  BY <1>0, <1>6 DEF Returned, vars, RTypeOK
<1> QED BY <1>1, <1>2, <1>3, <1>4, <1>5, <1>6 DEF RNext, Runner

-----------------------------------------------------------------------------
(* The initial state.                                                         *)
LEMMA RInvInit == RInit => RInv
<1> SUFFICES ASSUME RInit PROVE RInv
  OBVIOUS
<1>1. TypeOK /\ LeafInv
  BY TypeOKInit, LeafInvInit DEF RInit
<1>2. RTypeOK
  BY <1>1 DEF RInit, RTypeOK
<1>3. IsFiniteSet(cogroup) /\ Cardinality(cogroup) = 0
  BY FS_EmptySet DEF RInit
<1>4. \A j \in Jobs : status[j] = "FREE" /\ runs[j] = "idle"
  BY DEF RInit, Init, Nodes
<1>5. phase = "build"
  BY DEF RInit, Init
<1>6. RunnerInv
  BY <1>3, <1>4, <1>5, ComaxAssumption DEF RInit, RunnerInv
<1>7. DepsBuilt
  BY <1>4 DEF DepsBuilt
<1> QED BY <1>1, <1>2, <1>3, <1>6, <1>7 DEF RInv

-----------------------------------------------------------------------------
(* The size of the group.                                                     *)
LEMMA GroupNext ==
    ASSUME RInv, [RNext]_vars
    PROVE  /\ IsFiniteSet(cogroup')
           /\ Cardinality(cogroup') <= comax
           /\ pc' \in {"getfree", "start"} => Cardinality(cogroup') < comax
<1>0. /\ IsFiniteSet(cogroup)
      /\ Cardinality(cogroup) \in Nat
      /\ Cardinality(cogroup) <= comax
      /\ comax \in Nat
  BY FS_CardinalityType, ComaxAssumption DEF RInv, RunnerInv
<1> USE DEF runnerVars
<1>1. CASE BuildGraph \/ Enter \/ Outer \/ Inner \/ InGetFree \/ Leave
  BY <1>0, <1>1 DEF BuildGraph, Enter, Outer, Inner, InGetFree, Leave, RInv, RunnerInv
<1>2. CASE Got
  BY <1>0, <1>2 DEF Got, RInv, RunnerInv
<1>3. CASE Start
  <2>1. cogroup' = cogroup \cup {current} /\ pc' = "inner" /\ Cardinality(cogroup) < comax
    BY <1>3 DEF Start, RInv, RunnerInv
  <2>2. /\ IsFiniteSet(cogroup \cup {current})
        /\ \/ Cardinality(cogroup \cup {current}) = Cardinality(cogroup)
           \/ Cardinality(cogroup \cup {current}) = Cardinality(cogroup) + 1
    BY <1>0, FS_AddElement
  <2> QED BY <1>0, <2>1, <2>2
<1>4. CASE WaitOne \/ ResumeOne \/ WaitAll \/ ResumeAll
  <2>1. /\ cogroup' = cogroup \/ cogroup' = cogroup \ dead
        /\ pc' \notin {"getfree", "start"}
    BY <1>4 DEF WaitOne, ResumeOne, WaitAll, ResumeAll
  <2>2. /\ IsFiniteSet(cogroup \ dead)
        /\ Cardinality(cogroup \ dead) <= Cardinality(cogroup)
        /\ Cardinality(cogroup \ dead) \in Nat
    BY <1>0, FS_Subset, FS_CardinalityType
  <2> QED BY <1>0, <2>1, <2>2
<1>5. ASSUME NEW j \in Jobs, EndJob(j)
      PROVE  cogroup' = cogroup /\ pc' \notin {"getfree", "start"}
  BY <1>5 DEF EndJob
<1>6. CASE Returned \/ UNCHANGED vars
  BY <1>0, <1>6 DEF Returned, vars, RInv, RunnerInv
<1> QED BY <1>0, <1>1, <1>2, <1>3, <1>4, <1>5, <1>6 DEF RNext, Runner

(* Steps that leave the bodies of the jobs alone change the status of a job   *)
(* only from free to pending.                                                 *)
LEMMA QuietStatus ==
    ASSUME RTypeOK, LeafInv, RunnerInv, BuildGraph \/ InGetFree, NEW j \in Jobs
    PROVE  status'[j] = status[j]
<1> USE DEF graphVars, listVars, loopVars
<1>1. CASE BuildGraph
  BY <1>1 DEF BuildGraph, Build, Add, GroupEnter, GroupLeave
<1>2. CASE InGetFree
  <2>1. CASE Gen \/ SweepStart
    BY <2>1 DEF Gen, GenStart, GenVisit, GenLeaf, GenReturn, GenDone, SweepStart
  <2>2. CASE SweepStep
    <3>1. Head(removed) \in Range(removed)
      BY <2>2, HeadTailProperties DEF SweepStep, RTypeOK, TypeOK, Range
    <3>2. Head(removed) \in Groups \/ status[Head(removed)] = "FINISHED"
      BY <3>1 DEF LeafInv, Finished
    <3>3. status' = [status EXCEPT ![Head(removed)] = "FINISHED"]
      BY <2>2 DEF SweepStep, RemoveJob
    <3> QED BY <3>2, <3>3, JobPoolAssumption DEF RTypeOK, TypeOK, Nodes
  <2> QED BY <1>2, <2>1, <2>2 DEF InGetFree, Internal
<1> QED BY <1>1, <1>2

(* getfree hands out a job that was free.                                     *)
LEMMA GotStatus ==
    ASSUME RTypeOK, LeafInv, Got
    PROVE  \/ /\ current' = NONE /\ pc' = "waitone"
              /\ \A j \in Jobs : status'[j] = status[j]
           \/ /\ current' \in Jobs /\ pc' = "start"
              /\ status[current'] = "FREE" /\ status'[current'] = "PENDING"
              /\ \A j \in Jobs \ {current'} : status'[j] = status[j]
<1>1. PICK k \in Jobs \cup {NONE} : /\ GetFree(k) /\ current' = k
                                    /\ pc' = IF k = NONE THEN "waitone" ELSE "start"
  BY DEF Got
<1>2. CASE k = NONE
  BY <1>1, <1>2 DEF GetFree, GetNone, listVars
<1>3. CASE k # NONE
  <2>1. PICK i \in DOMAIN leafjobs : leafjobs[i] = k /\ IsFree(k) /\ Hand(i)
    BY <1>1, <1>3 DEF GetFree, GetNextFree, FindFree, IsLastFree, LeafInv
  <2>2. status' = [status EXCEPT ![k] = "PENDING"] /\ k \in Jobs /\ status[k] = "FREE"
    BY <1>1, <1>3, <2>1 DEF Hand, IsFree
  <2> QED BY <1>1, <1>3, <2>2 DEF RTypeOK, TypeOK, Nodes
<1> QED BY <1>2, <1>3

(* The end of a body keeps what RunnerInv says of the jobs.                   *)
LEMMA CloseInv ==
    ASSUME RTypeOK, RunnerInv, NEW j \in Jobs, runs[j] \in {"idle", "running"},
           NEW result \in {"done", "failed", "skipped"},
           stop <=> result = "skipped" \/ (stop /\ runs[j] = "running"),
           Close(j, result), cogroup \subseteq cogroup'
    PROVE  /\ stop' <=> \E k \in Jobs : runs'[k] = "failed"
           /\ ~stop' => \A k \in Jobs : status'[k] = "FINISHED" => runs'[k] = "done"
           /\ \A k \in Jobs : status'[k] = "FREE" => runs'[k] = "idle"
           /\ \A k \in Jobs : runs'[k] = "running" => k \in cogroup'
           /\ \A k \in dead' : runs'[k] \notin {"idle", "running"}
<1>1. /\ runs' = [runs EXCEPT ![j] = result]
      /\ stop' = (stop \/ result = "failed")
      /\ dead' = dead \cup {j}
      /\ status' = [status EXCEPT ![j] = "FINISHED"]
  BY CloseStep
<1>2. \A k \in Jobs : runs'[k] = IF k = j THEN result ELSE runs[k]
  BY <1>1 DEF RTypeOK
<1>3. \A k \in Jobs : status'[k] = IF k = j THEN "FINISHED" ELSE status[k]
  BY <1>1 DEF RTypeOK, TypeOK, Nodes
<1>4. ASSUME stop' PROVE \E k \in Jobs : runs'[k] = "failed"
  <2>1. CASE result = "failed"
    BY <1>2, <2>1
  <2>2. CASE stop
    <3>1. PICK k \in Jobs : runs[k] = "failed"
      BY <2>2 DEF RunnerInv
    <3> QED BY <1>2, <3>1
  <2> QED BY <1>1, <1>4, <2>1, <2>2
<1>5. ASSUME NEW k \in Jobs, runs'[k] = "failed" PROVE stop'
  <2>1. stop \/ result = "failed"
    BY <1>2, <1>5 DEF RunnerInv
  <2> QED BY <1>1, <2>1
<1>6. ASSUME ~stop', NEW k \in Jobs, status'[k] = "FINISHED" PROVE runs'[k] = "done"
  <2>1. ~stop /\ result # "failed"
    BY <1>1, <1>6
  <2>2. result = "done"
    BY <2>1
  <2> QED BY <1>2, <1>3, <1>6, <2>1, <2>2 DEF RunnerInv
<1>7. \A k \in Jobs : status'[k] = "FREE" => runs'[k] = "idle"
  BY <1>2, <1>3 DEF RunnerInv
<1>8. \A k \in Jobs : runs'[k] = "running" => k \in cogroup'
  BY <1>2 DEF RunnerInv
<1>9. \A k \in dead' : runs'[k] \notin {"idle", "running"}
  BY <1>1, <1>2 DEF RunnerInv, RTypeOK
<1> QED BY <1>4, <1>5, <1>6, <1>7, <1>8, <1>9

(* The part of RunnerInv that GroupNext does not cover.                       *)
LEMMA RunnerInvNext == RInv /\ [RNext]_vars => RunnerInv'
<1> SUFFICES ASSUME RInv, [RNext]_vars PROVE RunnerInv'
  OBVIOUS
<1>0. /\ RTypeOK /\ LeafInv /\ RunnerInv
      /\ Cardinality(cogroup') <= comax
      /\ pc' \in {"getfree", "start"} => Cardinality(cogroup') < comax
  BY GroupNext DEF RInv
<1> USE DEF runnerVars, poolVars, graphVars, listVars, loopVars
<1>1. CASE BuildGraph
  <2>1. \A j \in Jobs : status'[j] = status[j]
    BY <1>0, <1>1, QuietStatus
  <2>2. phase' = phase
    BY <1>1 DEF BuildGraph, Build, Add, GroupEnter, GroupLeave
  <2> QED BY <1>0, <1>1, <2>1, <2>2 DEF BuildGraph, RunnerInv
<1>2. CASE InGetFree
  <2>1. \A j \in Jobs : status'[j] = status[j]
    BY <1>0, <1>2, QuietStatus
  <2> QED BY <1>0, <1>2, <2>1 DEF InGetFree, RunnerInv
<1>3. CASE Enter \/ Outer \/ Inner \/ Leave
  BY <1>0, <1>3 DEF Enter, Outer, Inner, Leave, RunnerInv
<1>4. CASE Got
  <2>1. UNCHANGED <<stop, cogroup, dead, runs>>
    BY <1>4 DEF Got
  <2> QED BY <1>0, <1>4, <2>1, GotStatus DEF RunnerInv
<1>5. CASE Start
  <2>1. /\ current \in Jobs /\ status[current] = "PENDING" /\ runs[current] = "idle"
        /\ cogroup' = cogroup \cup {current} /\ pc' = "inner"
    BY <1>0, <1>5 DEF Start, RunnerInv
  <2>2. CASE stop /\ Close(current, "skipped")
    <3>1. stop <=> "skipped" = "skipped" \/ (stop /\ runs[current] = "running")
      BY <2>2
    <3> QED BY <1>0, <2>1, <2>2, <3>1, CloseInv DEF RunnerInv
  <2>3. ASSUME NEW result \in {"done", "failed"}, ~stop, Close(current, result)
        PROVE  RunnerInv'
    <3>1. stop <=> result = "skipped" \/ (stop /\ runs[current] = "running")
      BY <2>3
    <3> QED BY <1>0, <2>1, <2>3, <3>1, CloseInv DEF RunnerInv
  <2>4. CASE ~stop /\ runs' = [runs EXCEPT ![current] = "running"] /\ UNCHANGED <<poolVars, stop, dead>>
    BY <1>0, <2>1, <2>4 DEF RunnerInv, RTypeOK, TypeOK, Nodes
  <2> QED BY <1>5, <2>2, <2>3, <2>4 DEF Start
<1>6. CASE WaitOne \/ ResumeOne \/ WaitAll \/ ResumeAll
  <2>1. /\ \A j \in Jobs : runs[j] = "running" => j \in cogroup \ dead
        /\ UNCHANGED <<status, runs, stop, dead>>
        /\ pc' \notin {"idle", "start", "getfree"}
        /\ cogroup' = cogroup \/ cogroup' = cogroup \ dead
    BY <1>0, <1>6 DEF WaitOne, ResumeOne, WaitAll, ResumeAll, RunnerInv
  <2> QED BY <1>0, <2>1 DEF RunnerInv
<1>7. ASSUME NEW j \in Jobs, EndJob(j) PROVE RunnerInv'
  <2>1. PICK result \in {"done", "failed"} : Close(j, result)
    BY <1>7 DEF EndJob
  <2>2. runs[j] = "running" /\ pc' = pc /\ pc \in {"suspended1", "suspendedall"} /\ cogroup' = cogroup
    BY <1>7 DEF EndJob
  <2>3. stop <=> result = "skipped" \/ (stop /\ runs[j] = "running")
    BY <2>1, <2>2
  <2> QED BY <1>0, <2>1, <2>2, <2>3, CloseInv DEF RunnerInv
<1>8. CASE Returned \/ UNCHANGED vars
  BY <1>0, <1>8 DEF Returned, vars, RunnerInv
<1> QED BY <1>1, <1>2, <1>3, <1>4, <1>5, <1>6, <1>7, <1>8 DEF RNext, Runner

-----------------------------------------------------------------------------
(* The order of the jobs is fixed once the runner has started.                *)
LEMMA OrderFixed ==
    ASSUME RTypeOK, RunnerInv, [RNext]_vars, ~BuildGraph
    PROVE  \A j \in Jobs : AllDeps(j)' = AllDeps(j)
<1> USE DEF runnerVars, poolVars, graphVars, listVars, loopVars
<1>1. deps0' = deps0
  <2>1. CASE Enter \/ Outer \/ Inner \/ WaitOne \/ ResumeOne \/ WaitAll \/ ResumeAll \/ Leave
    BY <2>1 DEF Enter, Outer, Inner, WaitOne, ResumeOne, WaitAll, ResumeAll, Leave
  <2>2. CASE InGetFree
    BY <2>2 DEF InGetFree, Internal, Gen, GenStart, GenVisit, GenLeaf, GenReturn, GenDone,
                SweepStart, SweepStep, RemoveJob
  <2>3. CASE Got
    BY <2>3 DEF Got, GetFree, GetNone, GetNextFree, FindFree, Hand
  <2>4. CASE Start
    BY <2>4 DEF Start, Close, Finish, RemoveJob
  <2>5. ASSUME NEW j \in Jobs, EndJob(j) PROVE deps0' = deps0
    BY <2>5 DEF EndJob, Close, Finish, RemoveJob
  <2>6. CASE Returned \/ UNCHANGED vars
    BY <2>6 DEF Returned, vars
  <2> QED BY <2>1, <2>2, <2>3, <2>4, <2>5, <2>6 DEF RNext, Runner
<1> QED BY <1>1 DEF AllDeps

(* How a step changes the bodies of the jobs: not at all, or by starting,     *)
(* skipping or ending one of them.                                            *)
LEMMA BodyStep ==
    ASSUME RInv, [RNext]_vars
    PROVE  \/ runs' = runs
           \/ /\ pc = "start" /\ ~stop /\ runs[current] = "idle" /\ current \in Jobs
              /\ \E s \in {"running", "done", "failed"} : runs' = [runs EXCEPT ![current] = s]
           \/ /\ pc = "start" /\ stop /\ runs[current] = "idle" /\ current \in Jobs
              /\ runs' = [runs EXCEPT ![current] = "skipped"]
           \/ \E j \in Jobs : /\ runs[j] = "running"
                              /\ \E s \in {"done", "failed"} : runs' = [runs EXCEPT ![j] = s]
<1> USE DEF runnerVars
<1>1. CASE BuildGraph \/ Enter \/ Outer \/ Inner \/ InGetFree \/ Got \/ Leave
  BY <1>1 DEF BuildGraph, Enter, Outer, Inner, InGetFree, Got, Leave
<1>2. CASE WaitOne \/ ResumeOne \/ WaitAll \/ ResumeAll \/ Returned \/ UNCHANGED vars
  BY <1>2 DEF WaitOne, ResumeOne, WaitAll, ResumeAll, Returned, vars
<1>3. CASE Start
  BY <1>3 DEF Start, Close, RInv, RunnerInv
<1>4. ASSUME NEW j \in Jobs, EndJob(j)
      PROVE  runs[j] = "running" /\ \E s \in {"done", "failed"} : runs' = [runs EXCEPT ![j] = s]
  BY <1>4 DEF EndJob, Close
<1> QED BY <1>1, <1>2, <1>3, <1>4 DEF RNext, Runner

(* What the job about to start depends on has been built.                     *)
LEMMA StartDepsBuilt ==
    ASSUME RInv, pc = "start", ~stop
    PROVE  \A d \in AllDeps(current) \cap Jobs : runs[d] = "done"
<1>1. current \in leaf
  BY DEF RInv, RunnerInv, LeafInv, Nodes
<1>2. \A d \in AllDeps(current) : status[d] = "FINISHED"
  BY <1>1, LeafInvImplies DEF RInv, RTypeOK, LeafDepsFinished
<1> QED BY <1>2 DEF RInv, RunnerInv

LEMMA DepsBuiltNext == RInv /\ [RNext]_vars => DepsBuilt'
<1> SUFFICES ASSUME RInv, [RNext]_vars PROVE DepsBuilt'
  OBVIOUS
<1>1. CASE BuildGraph
  BY <1>1 DEF BuildGraph, runnerVars, RInv, RunnerInv, DepsBuilt
<1>2. CASE ~BuildGraph
  <2>1. SUFFICES ASSUME NEW j \in Jobs, runs'[j] \in {"running", "done", "failed"},
                        NEW d \in AllDeps(j) \cap Jobs
                 PROVE  runs'[d] = "done"
    BY <1>2, OrderFixed DEF DepsBuilt, RInv
  <2>2. runs \in [Jobs -> {"idle", "running", "done", "failed", "skipped"}]
    BY DEF RInv, RTypeOK
  <2>3. CASE runs' = runs
    BY <2>1, <2>3 DEF RInv, DepsBuilt
  <2>4. CASE /\ pc = "start" /\ ~stop /\ runs[current] = "idle" /\ current \in Jobs
             /\ \E s \in {"running", "done", "failed"} : runs' = [runs EXCEPT ![current] = s]
    <3>1. runs[d] = "done"
      BY <2>1, <2>2, <2>4, StartDepsBuilt DEF RInv, DepsBuilt
    <3> QED BY <2>2, <2>4, <3>1
  <2>5. CASE /\ pc = "start" /\ stop /\ runs[current] = "idle" /\ current \in Jobs
             /\ runs' = [runs EXCEPT ![current] = "skipped"]
    <3>1. runs[d] = "done"
      BY <2>1, <2>2, <2>5 DEF RInv, DepsBuilt
    <3> QED BY <2>2, <2>5, <3>1
  <2>6. ASSUME NEW k \in Jobs, runs[k] = "running",
               NEW s \in {"done", "failed"}, runs' = [runs EXCEPT ![k] = s]
        PROVE  runs'[d] = "done"
    <3>1. runs[d] = "done"
      BY <2>1, <2>2, <2>6 DEF RInv, DepsBuilt
    <3> QED BY <2>2, <2>6, <3>1
  <2> QED BY <2>3, <2>4, <2>5, <2>6, BodyStep
<1> QED BY <1>1, <1>2

LEMMA RInvNext == RInv /\ [RNext]_vars => RInv'
<1> SUFFICES ASSUME RInv, [RNext]_vars PROVE RInv'
  OBVIOUS
<1>1. RTypeOK'
  BY RTypeOKNext DEF RInv
<1>2. LeafInv'
  BY RunnerUsesPool, LeafInvNext DEF RInv, RTypeOK
<1>3. RunnerInv'
  BY RunnerInvNext
<1>4. DepsBuilt'
  BY DepsBuiltNext
<1>5. IsFiniteSet(cogroup')
  BY GroupNext
<1> QED BY <1>1, <1>2, <1>3, <1>4, <1>5 DEF RInv

(* runbatchjobs.lua starts the body of a job only when the bodies of all the  *)
(* jobs it depends on have succeeded: for every graph, every number of        *)
(* coroutines, every order in which jobs end and every failure.               *)
THEOREM DepsBuiltHolds == RSpec => []DepsBuilt
<1>1. RInv => DepsBuilt
  BY DEF RInv
<1> QED BY <1>1, RInvInit, RInvNext, PTL DEF RSpec

(* The runner's state keeps its types.                                        *)
THEOREM RTypeCorrect == RSpec => []RTypeOK
<1>1. RInv => RTypeOK
  BY DEF RInv
<1> QED BY <1>1, RInvInit, RInvNext, PTL DEF RSpec

(* runbatchjobs.lua never has more than comax jobs under way, and each of     *)
(* them is in the group that it waits for before it returns.                  *)
THEOREM ParallelBoundHolds == RSpec => []ParallelBound
<1>1. RInv => ParallelBound
  <2> SUFFICES ASSUME RInv PROVE ParallelBound
    OBVIOUS
  <2> DEFINE alive == {j \in Jobs : runs[j] = "running"}
  <2>1. alive \subseteq cogroup
    BY DEF RInv, RunnerInv
  <2> HIDE DEF alive
  <2>2. /\ Cardinality(alive) <= Cardinality(cogroup)
        /\ Cardinality(alive) \in Nat
        /\ Cardinality(cogroup) \in Nat
    BY <2>1, FS_Subset, FS_CardinalityType DEF RInv
  <2>3. Cardinality(cogroup) <= comax /\ comax \in Nat
    BY ComaxAssumption DEF RInv, RunnerInv
  <2>4. Cardinality(alive) <= comax
    BY <2>2, <2>3
  <2> QED BY <2>1, <2>4 DEF ParallelBound, alive
<1> QED BY <1>1, RInvInit, RInvNext, PTL DEF RSpec

-----------------------------------------------------------------------------
(* The refinement: in the initial state no job comes after another one.       *)
LEMMA OrderedInit == RInit => Ordered!Init
<1> SUFFICES ASSUME RInit PROVE Ordered!Init
  OBVIOUS
<1>1. \A n \in Nodes : deps0[n] = {}
  BY DEF RInit, Init
<1>2. \A j \in Jobs : AllDeps(j) = {}
  BY <1>1 DEF AllDeps, Nodes
<1>3. [j \in Jobs |-> AllDeps(j) \cap Jobs] = [j \in Jobs |-> {}]
  BY <1>2
<1> QED BY <1>3 DEF RInit, Ordered!Init

(* OrderedRun counts with the same Cardinality.                               *)
LEMMA SameCardinality == ASSUME NEW S PROVE Ordered!Cardinality(S) = Cardinality(S)
BY DEF Ordered!Cardinality, Cardinality

(* Every step of the runner plans, starts, ends or skips a job, or stutters.  *)
LEMMA OrderedNext ==
    RInv /\ [RNext]_vars =>
        [Ordered!Next]_<<[j \in Jobs |-> AllDeps(j) \cap Jobs], runs>>
<1> DEFINE before == [j \in Jobs |-> AllDeps(j) \cap Jobs]
<1> SUFFICES ASSUME RInv, [RNext]_vars PROVE [Ordered!Next]_<<before, runs>>
  OBVIOUS
<1>0. runs \in [Jobs -> {"idle", "running", "done", "failed", "skipped"}]
  BY DEF RInv, RTypeOK
<1>1. CASE BuildGraph
  <2>1. runs' = runs /\ \A j \in Jobs : runs[j] = "idle"
    BY <1>1 DEF BuildGraph, runnerVars, RInv, RunnerInv
  <2>2. before' \in [Jobs -> SUBSET Jobs]
    OBVIOUS
  <2>3. Ordered!Plan
    BY <2>1, <2>2 DEF Ordered!Plan
  <2> QED BY <2>3 DEF Ordered!Next
<1>2. CASE ~BuildGraph
  <2>1. before' = before
    <3>1. \A j \in Jobs : AllDeps(j)' = AllDeps(j)
      BY <1>2, OrderFixed DEF RInv
    <3> QED BY <3>1
  <2>2. stop <=> Ordered!Failed
    BY DEF RInv, RunnerInv, Ordered!Failed
  <2>3. CASE runs' = runs
    BY <2>1, <2>3
  <2>4. ASSUME pc = "start", ~stop, runs[current] = "idle", current \in Jobs,
               NEW s \in {"running", "done", "failed"}, runs' = [runs EXCEPT ![current] = s]
        PROVE  Ordered!Start(current)
    <3>1. \A b \in before[current] : runs[b] = "done"
      BY <2>4, StartDepsBuilt
    <3>2. Cardinality(Ordered!Running) < comax
      <4>1. Ordered!Running \subseteq cogroup
        BY DEF Ordered!Running, RInv, RunnerInv
      <4>2. /\ Cardinality(Ordered!Running) <= Cardinality(cogroup)
            /\ Cardinality(Ordered!Running) \in Nat
            /\ Cardinality(cogroup) \in Nat
        BY <4>1, FS_Subset, FS_CardinalityType DEF RInv
      <4>3. Cardinality(cogroup) < comax /\ comax \in Nat
        BY <2>4, ComaxAssumption DEF RInv, RunnerInv
      <4> QED BY <4>2, <4>3
    <3>3. ~Ordered!Failed
      BY <2>2, <2>4
    <3>4. \E r \in {"running", "done", "failed"} : runs' = [runs EXCEPT ![current] = r]
      BY <2>4
    <3>5. Ordered!Cardinality(Ordered!Running) < comax
      BY <3>2, SameCardinality
    <3> QED BY <2>1, <2>4, <3>1, <3>3, <3>4, <3>5 DEF Ordered!Start
  <2>5. ASSUME stop, runs[current] = "idle", current \in Jobs,
               runs' = [runs EXCEPT ![current] = "skipped"]
        PROVE  Ordered!Skip(current)
    BY <2>1, <2>2, <2>5 DEF Ordered!Skip
  <2>6. ASSUME NEW k \in Jobs, runs[k] = "running",
               NEW s \in {"done", "failed"}, runs' = [runs EXCEPT ![k] = s]
        PROVE  Ordered!End(k)
    BY <2>1, <2>6 DEF Ordered!End
  <2> QED BY <2>3, <2>4, <2>5, <2>6, BodyStep DEF Ordered!Next
<1> QED BY <1>1, <1>2

(* runbatchjobs.lua on jobpool.lua implements the ordered run: every          *)
(* behaviour of the runner, its pool and its coroutines is, seen through the  *)
(* bodies of the jobs, a behaviour of OrderedRun.                             *)
THEOREM RunnerImplementsOrderedRun == RSpec => ImplementsOrderedRun
BY OrderedInit, OrderedNext, RInvInit, RInvNext, PTL DEF RSpec, ImplementsOrderedRun, Ordered!Spec

-----------------------------------------------------------------------------
(* The outcome.  `size` counts the jobs that were added and `index` those     *)
(* that were handed out, so that the main loop ends when no job is left;      *)
(* what was handed out is about to start, under way or finished; the last     *)
(* wait leaves nothing that is under way.                                     *)
Added == {j \in Jobs : parents[j] # <<>>}
HandedOut == {j \in Jobs : status[j] \in {"PENDING", "FINISHED"}}

CountInv ==
    /\ IsFiniteSet(Added)
    /\ size = Cardinality(Added)
    /\ index = Cardinality(HandedOut)
    /\ pc \in {"waitall", "suspendedall", "leave", "returned", "raised"} => Added \subseteq HandedOut
    /\ \A j \in Jobs : status[j] = "PENDING" =>
          runs[j] = "running" \/ (pc = "start" /\ j = current)
    /\ \A j \in Jobs : status[j] = "FINISHED" => runs[j] \in {"done", "failed", "skipped"}
    /\ pc \in {"leave", "returned", "raised"} =>
          cogroup = {} /\ \A j \in Jobs : status[j] # "PENDING"
    /\ pc = "returned" => ~stop
    /\ pc = "raised" => stop

OutcomeInv == RInv /\ ListInv /\ StuckInv /\ CountInv

(* A job that was handed out had been added.                                  *)
LEMMA HandedOutAdded == RInv /\ StuckInv => HandedOut \subseteq Added
<1> SUFFICES ASSUME RInv, StuckInv, NEW j \in HandedOut PROVE j \in Added
  OBVIOUS
<1>1. j \in leaf /\ j # Root
  BY JobPoolAssumption DEF HandedOut, RInv, LeafInv, Nodes
<1>2. Attached(j)
  BY <1>1 DEF StuckInv, LeavesOK
<1> QED BY <1>1, <1>2 DEF Attached, Added, HandedOut

LEMMA CountInvInit == RInit => CountInv
<1> SUFFICES ASSUME RInit PROVE CountInv
  OBVIOUS
<1>1. \A j \in Jobs : parents[j] = <<>> /\ status[j] = "FREE" /\ runs[j] = "idle"
  BY DEF RInit, Init, Nodes
<1>2. Added = {} /\ HandedOut = {}
  BY <1>1 DEF Added, HandedOut
<1> QED BY <1>1, <1>2, FS_EmptySet DEF RInit, Init, CountInv

(* Once the runner has started, no job is added.                              *)
LEMMA SizeFixed ==
    ASSUME RInv, [RNext]_vars, ~BuildGraph
    PROVE  parents' = parents /\ size' = size
<1> USE DEF runnerVars, poolVars, graphVars, listVars, loopVars
<1>1. CASE Enter \/ Outer \/ Inner \/ WaitOne \/ ResumeOne \/ WaitAll \/ ResumeAll \/ Leave
  BY <1>1 DEF Enter, Outer, Inner, WaitOne, ResumeOne, WaitAll, ResumeAll, Leave
<1>2. CASE InGetFree
  BY <1>2 DEF InGetFree, Internal, Gen, GenStart, GenVisit, GenLeaf, GenReturn, GenDone,
              SweepStart, SweepStep, RemoveJob
<1>3. CASE Got
  BY <1>3 DEF Got, GetFree, GetNone, GetNextFree, FindFree, Hand
<1>4. CASE Start
  BY <1>4 DEF Start, Close, Finish, RemoveJob
<1>5. ASSUME NEW j \in Jobs, EndJob(j) PROVE parents' = parents /\ size' = size
  BY <1>5 DEF EndJob, Close, Finish, RemoveJob
<1>6. CASE Returned \/ UNCHANGED vars
  BY <1>6 DEF Returned, vars
<1> QED BY <1>1, <1>2, <1>3, <1>4, <1>5, <1>6 DEF RNext, Runner

(* Adding a job counts it when it is new.                                     *)
LEMMA AddCounts ==
    ASSUME RTypeOK, CountInv, BuildGraph
    PROVE  IsFiniteSet(Added') /\ size' = Cardinality(Added')
<1>1. ASSUME NEW job \in Jobs \cup Groups, NEW rootjob \in Nodes, Add(job, rootjob)
      PROVE  IsFiniteSet(Added') /\ size' = Cardinality(Added')
  <2>1. /\ job \in Nodes
        /\ \A n \in Jobs : parents'[n] = IF n = job THEN Append(parents[n], rootjob) ELSE parents[n]
        /\ size' = IF parents[job] = <<>> THEN size + 1 ELSE size
        /\ job \in Jobs \/ parents[job] # <<>>
    BY <1>1, JobPoolAssumption DEF Add, Nodes, RTypeOK, TypeOK
  <2>2. parents[job] \in Seq(Nodes) /\ Append(parents[job], rootjob) # <<>>
    <3>1. parents[job] \in Seq(Nodes)
      BY <2>1 DEF RTypeOK, TypeOK
    <3> QED BY <3>1, AppendProperties
  <2>3. CASE job \in Jobs /\ parents[job] = <<>>
    <3>1. Added' = Added \cup {job} /\ job \notin Added
      BY <2>1, <2>2, <2>3 DEF Added
    <3>2. IsFiniteSet(Added \cup {job}) /\ Cardinality(Added \cup {job}) = Cardinality(Added) + 1
      BY <3>1, FS_AddElement DEF CountInv
    <3> QED BY <2>1, <2>3, <3>1, <3>2 DEF CountInv
  <2>4. CASE parents[job] # <<>>
    <3>1. Added' = Added
      BY <2>1, <2>2, <2>4 DEF Added
    <3> QED BY <2>1, <2>4, <3>1 DEF CountInv
  <2> QED BY <2>1, <2>3, <2>4
<1>2. ASSUME (\E g \in Groups : GroupEnter(g)) \/ GroupLeave
      PROVE  IsFiniteSet(Added') /\ size' = Cardinality(Added')
  <2>1. Added' = Added /\ size' = size
    BY <1>2 DEF GroupEnter, GroupLeave, Added
  <2> QED BY <2>1 DEF CountInv
<1> QED BY <1>1, <1>2 DEF BuildGraph, Build

(* The end of a body: the job stays handed out, and is finished.              *)
LEMMA CloseCounts ==
    ASSUME RTypeOK, CountInv, NEW j \in Jobs, NEW result \in {"done", "failed", "skipped"},
           Close(j, result), pc = "start" => j = current
    PROVE  /\ HandedOut' = HandedOut
           /\ \A k \in Jobs : status'[k] = "PENDING" => runs'[k] = "running"
           /\ \A k \in Jobs : status'[k] = "FINISHED" => runs'[k] \in {"done", "failed", "skipped"}
<1>1. /\ runs' = [runs EXCEPT ![j] = result]
      /\ status[j] = "PENDING"
      /\ status' = [status EXCEPT ![j] = "FINISHED"]
  BY CloseStep
<1>2. \A k \in Jobs : runs'[k] = IF k = j THEN result ELSE runs[k]
  BY <1>1 DEF RTypeOK
<1>3. \A k \in Jobs : status'[k] = IF k = j THEN "FINISHED" ELSE status[k]
  BY <1>1 DEF RTypeOK, TypeOK, Nodes
<1>4. HandedOut' = HandedOut
  BY <1>1, <1>3 DEF HandedOut
<1> QED BY <1>2, <1>3, <1>4 DEF CountInv

LEMMA CountInvNext == OutcomeInv /\ [RNext]_vars => CountInv'
<1> SUFFICES ASSUME OutcomeInv, [RNext]_vars PROVE CountInv'
  OBVIOUS
<1>0. RInv /\ RTypeOK /\ LeafInv /\ RunnerInv /\ StuckInv /\ CountInv
  BY DEF OutcomeInv, RInv
<1> USE DEF runnerVars
<1>1. CASE BuildGraph
  <2>1. \A j \in Jobs : status'[j] = status[j]
    BY <1>0, <1>1, QuietStatus
  <2>2. IsFiniteSet(Added') /\ size' = Cardinality(Added')
    BY <1>0, <1>1, AddCounts
  <2>3. HandedOut' = HandedOut
    BY <2>1 DEF HandedOut
  <2>4. pc = "idle" /\ UNCHANGED <<pc, index, current, stop, cogroup, dead, runs>>
    BY <1>1 DEF BuildGraph
  <2> QED BY <1>0, <2>1, <2>2, <2>3, <2>4 DEF CountInv
<1>2. CASE ~BuildGraph
  <2>0. Added' = Added /\ size' = size
    BY <1>0, <1>2, SizeFixed DEF Added
  <2>1. CASE InGetFree
    <3>1. \A j \in Jobs : status'[j] = status[j]
      BY <1>0, <2>1, QuietStatus
    <3>2. HandedOut' = HandedOut
      BY <3>1 DEF HandedOut
    <3> QED BY <1>0, <2>0, <2>1, <3>1, <3>2 DEF InGetFree, CountInv
  <2>2. CASE Enter \/ Inner \/ WaitOne \/ ResumeOne
    <3>1. HandedOut' = HandedOut /\ UNCHANGED <<status, runs, index, stop>>
      BY <2>2 DEF Enter, Inner, WaitOne, ResumeOne, HandedOut, poolVars, listVars
    <3>2. pc # "start" /\ pc' \in {"outer", "getfree", "waitone", "suspended1"}
      BY <2>2 DEF Enter, Inner, WaitOne, ResumeOne
    <3> QED BY <1>0, <2>0, <3>1, <3>2 DEF CountInv
  <2>3. CASE Outer
    <3>1. HandedOut' = HandedOut /\ UNCHANGED <<status, runs, index, stop, cogroup>>
      BY <2>3 DEF Outer, HandedOut, poolVars, listVars
    <3>2. pc = "outer" /\ pc' = IF index < size THEN "inner" ELSE "waitall"
      BY <2>3 DEF Outer
    <3>3. ASSUME ~(index < size) PROVE Added \subseteq HandedOut
      <4>1. HandedOut \subseteq Added
        BY <1>0, HandedOutAdded
      <4>2. /\ Cardinality(HandedOut) <= Cardinality(Added)
            /\ Cardinality(HandedOut) \in Nat /\ Cardinality(Added) \in Nat
            /\ Cardinality(HandedOut) = Cardinality(Added) => HandedOut = Added
        BY <1>0, <4>1, FS_Subset, FS_CardinalityType DEF CountInv
      <4>3. index = Cardinality(HandedOut) /\ size = Cardinality(Added)
        BY <1>0 DEF CountInv
      <4> QED BY <3>3, <4>2, <4>3
    <3> QED BY <1>0, <2>0, <3>1, <3>2, <3>3 DEF CountInv
  <2>4. CASE Got
    <3>1. UNCHANGED <<stop, cogroup, dead, runs>> /\ pc = "getfree"
      BY <2>4 DEF Got
    <3>2. index' = IF current' = NONE THEN index ELSE index + 1
      BY <2>4 DEF Got
    <3>3. CASE current' = NONE /\ pc' = "waitone" /\ \A j \in Jobs : status'[j] = status[j]
      <4>1. HandedOut' = HandedOut
        BY <3>3 DEF HandedOut
      <4> QED BY <1>0, <2>0, <3>1, <3>2, <3>3, <4>1 DEF CountInv
    <3>4. ASSUME NEW k \in Jobs, current' = k, pc' = "start",
                 status[k] = "FREE", status'[k] = "PENDING",
                 \A j \in Jobs \ {k} : status'[j] = status[j]
          PROVE  CountInv'
      <4>1. HandedOut' = HandedOut \cup {k} /\ k \notin HandedOut
        BY <3>4 DEF HandedOut
      <4>2. HandedOut \subseteq Added /\ IsFiniteSet(Added)
        BY <1>0, HandedOutAdded DEF CountInv
      <4>3. IsFiniteSet(HandedOut)
        BY <4>2, FS_Subset
      <4>4. Cardinality(HandedOut \cup {k}) = Cardinality(HandedOut) + 1
        BY <4>1, <4>3, FS_AddElement
      <4>5. index' = Cardinality(HandedOut')
        BY <1>0, <3>2, <3>4, <4>1, <4>4, JobPoolAssumption DEF CountInv, Nodes
      <4> QED BY <1>0, <2>0, <3>1, <3>4, <4>5 DEF CountInv
    <3> QED BY <1>0, <2>4, <3>3, <3>4, GotStatus
  <2>5. CASE Start
    <3>1. current \in Jobs /\ pc = "start" /\ pc' = "inner" /\ index' = index
      BY <1>0, <2>5 DEF Start, RunnerInv
    <3>2. ASSUME NEW result \in {"done", "failed", "skipped"}, Close(current, result)
          PROVE  CountInv'
      BY <1>0, <2>0, <3>1, <3>2, CloseCounts DEF CountInv
    <3>3. CASE runs' = [runs EXCEPT ![current] = "running"] /\ UNCHANGED <<poolVars, stop, dead>>
      <4>1. HandedOut' = HandedOut /\ status' = status
        BY <3>3 DEF HandedOut, poolVars, listVars
      <4>2. \A k \in Jobs : runs'[k] = IF k = current THEN "running" ELSE runs[k]
        BY <1>0, <3>3 DEF RTypeOK
      <4>3. status[current] = "PENDING"
        BY <1>0, <3>1 DEF RunnerInv
      <4> QED BY <1>0, <2>0, <3>1, <4>1, <4>2, <4>3 DEF CountInv
    <3> QED BY <2>5, <3>2, <3>3 DEF Start
  <2>6. CASE WaitAll \/ ResumeAll
    <3>1. HandedOut' = HandedOut /\ UNCHANGED <<status, runs, index, stop>>
      BY <2>6 DEF WaitAll, ResumeAll, HandedOut, poolVars, listVars
    <3>2. /\ pc \in {"waitall", "suspendedall"}
          /\ \/ pc' = "suspendedall"
             \/ pc' = "leave" /\ cogroup \subseteq dead /\ cogroup' = cogroup \ dead
      BY <2>6 DEF WaitAll, ResumeAll
    <3>3. ASSUME cogroup \subseteq dead PROVE \A j \in Jobs : status[j] # "PENDING"
      BY <1>0, <3>2, <3>3 DEF CountInv, RunnerInv
    <3> QED BY <1>0, <2>0, <3>1, <3>2, <3>3 DEF CountInv
  <2>7. CASE Leave
    <3>1. /\ HandedOut' = HandedOut /\ UNCHANGED <<status, runs, index, stop, cogroup>>
          /\ pc = "leave" /\ pc' = IF stop THEN "raised" ELSE "returned"
      BY <2>7 DEF Leave, HandedOut, poolVars, listVars
    <3> QED BY <1>0, <2>0, <3>1 DEF CountInv
  <2>8. ASSUME NEW j \in Jobs, EndJob(j) PROVE CountInv'
    <3>1. PICK result \in {"done", "failed"} : Close(j, result)
      BY <2>8 DEF EndJob
    <3>2. pc' = pc /\ index' = index /\ pc \in {"suspended1", "suspendedall"}
      BY <2>8 DEF EndJob
    <3> QED BY <1>0, <2>0, <3>1, <3>2, CloseCounts DEF CountInv
  <2>9. CASE Returned \/ UNCHANGED vars
    <3>1. HandedOut' = HandedOut /\ UNCHANGED <<status, pc, index, current, stop, cogroup, runs>>
      BY <2>9 DEF Returned, vars, HandedOut, poolVars, listVars
    <3> QED BY <1>0, <2>0, <3>1 DEF CountInv
  <2> QED BY <1>2, <2>1, <2>2, <2>3, <2>4, <2>5, <2>6, <2>7, <2>8, <2>9 DEF RNext, Runner
<1> QED BY <1>1, <1>2

LEMMA OutcomeInvInit == RInit => OutcomeInv
BY RInvInit, ListInvInit, StuckInvInit, CountInvInit DEF RInit, OutcomeInv

LEMMA OutcomeInvNext == OutcomeInv /\ [RNext]_vars => OutcomeInv'
<1> SUFFICES ASSUME OutcomeInv, [RNext]_vars PROVE OutcomeInv'
  OBVIOUS
<1>1. [Next]_poolVars /\ TypeOK /\ LeafInv
  BY RunnerUsesPool DEF OutcomeInv, RInv, RTypeOK
<1>2. ListInv' /\ StuckInv'
  BY <1>1, ListInvNext, StuckInvNext DEF OutcomeInv
<1> QED BY <1>2, RInvNext, CountInvNext DEF OutcomeInv

(* When runbatchjobs.lua returns or raises, every job that was added to the   *)
(* pool has been handed out and has come to its end, in success unless the    *)
(* runner raises, and the group that leave_co_group asserts to be empty is    *)
(* empty.                                                                     *)
THEOREM OutcomeHolds == RSpec => []Outcome
<1>1. OutcomeInv => Outcome
  <2> SUFFICES ASSUME OutcomeInv PROVE Outcome
    OBVIOUS
  <2>1. ASSUME pc \in {"leave", "returned", "raised"}, NEW j \in Jobs, Attached(j)
        PROVE  status[j] = "FINISHED" /\ runs[j] \in {"done", "failed", "skipped"}
    <3>1. j \in Added
      BY <2>1, JobPoolAssumption DEF Attached, Added
    <3>2. j \in HandedOut /\ status[j] # "PENDING"
      BY <2>1, <3>1 DEF OutcomeInv, CountInv
    <3> QED BY <3>2 DEF HandedOut, OutcomeInv, CountInv
  <2>2. ASSUME pc = "returned", NEW j \in Jobs, Attached(j) PROVE runs[j] = "done"
    BY <2>1, <2>2 DEF OutcomeInv, CountInv, RInv, RunnerInv
  <2>3. pc = "raised" => \E j \in Jobs : runs[j] = "failed"
    BY DEF OutcomeInv, CountInv, RInv, RunnerInv
  <2>4. pc \in {"leave", "returned", "raised"} => cogroup = {}
    BY DEF OutcomeInv, CountInv
  <2> QED BY <2>1, <2>2, <2>3, <2>4 DEF Outcome
<1> QED BY <1>1, OutcomeInvInit, OutcomeInvNext, PTL DEF RSpec
=============================================================================
