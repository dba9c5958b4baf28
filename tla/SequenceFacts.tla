---------------------------- MODULE SequenceFacts ----------------------------
(***************************************************************************)
(* What the lists of the models keep when an element is put at their end   *)
(* or taken from them, what the lists made from sets and from two lists    *)
(* hold, induction, and loops.  ToSet, IsInjective, Front, Last and the    *)
(* others are those of the community modules.                              *)
(***************************************************************************)
EXTENDS Integers, Sequences, SequencesExt, SequenceTheorems, FiniteSetTheorems, TLAPS

LEMMA EmptySequence == \A S : <<>> \in Seq(S) /\ ToSet(<<>>) = {} /\ IsInjective(<<>>)
BY DEF ToSet, IsInjective

(* An element is added.                                                    *)
LEMMA ToSetAppend ==
    ASSUME NEW S, NEW s \in Seq(S), NEW e \in S
    PROVE  ToSet(Append(s, e)) = ToSet(s) \cup {e}
BY AppendProperties DEF ToSet

LEMMA InjectiveAppend ==
    ASSUME NEW S, NEW s \in Seq(S), NEW e \in S, IsInjective(s), e \notin ToSet(s)
    PROVE  IsInjective(Append(s, e))
BY AppendProperties DEF ToSet, IsInjective

(* The first element is taken.                                             *)
LEMMA TailProperties ==
    ASSUME NEW S, NEW s \in Seq(S), s # <<>>, IsInjective(s)
    PROVE  /\ Tail(s) \in Seq(S) /\ IsInjective(Tail(s))
           /\ Head(s) \in ToSet(s)
           /\ ToSet(Tail(s)) = ToSet(s) \ {Head(s)}
<1>1. Tail(s) \in Seq(S) /\ Len(Tail(s)) = Len(s) - 1 /\ Len(s) \in Nat \ {0}
  BY HeadTailProperties, EmptySeq, LenProperties
<1>2. \A i \in 1..Len(Tail(s)) : Tail(s)[i] = s[i+1]
  BY HeadTailProperties
<1>3. DOMAIN s = 1..Len(s) /\ DOMAIN Tail(s) = 1..Len(Tail(s)) /\ Head(s) = s[1]
  BY <1>1, LenProperties, HeadTailProperties
<1>4. IsInjective(Tail(s))
  <2> SUFFICES ASSUME NEW i \in DOMAIN Tail(s), NEW j \in DOMAIN Tail(s), Tail(s)[i] = Tail(s)[j]
               PROVE  i = j
    BY DEF IsInjective
  <2>1. s[i+1] = s[j+1] /\ i+1 \in DOMAIN s /\ j+1 \in DOMAIN s
    BY <1>1, <1>2, <1>3
  <2>2. i+1 = j+1
    BY <2>1 DEF IsInjective
  <2> QED BY <2>2, <1>1, <1>3
<1>5. ToSet(Tail(s)) = ToSet(s) \ {Head(s)}
  <2>1. ASSUME NEW x \in ToSet(Tail(s)) PROVE x \in ToSet(s) \ {Head(s)}
    <3>1. PICK i \in DOMAIN Tail(s) : x = Tail(s)[i]
      BY DEF ToSet
    <3>2. i+1 \in DOMAIN s /\ x = s[i+1] /\ i+1 # 1 /\ 1 \in DOMAIN s
      BY <3>1, <1>1, <1>2, <1>3
    <3>3. x # s[1]
      BY <3>2 DEF IsInjective
    <3> QED BY <3>2, <3>3, <1>3 DEF ToSet
  <2>2. ASSUME NEW x \in ToSet(s) \ {Head(s)} PROVE x \in ToSet(Tail(s))
    <3>1. PICK i \in DOMAIN s : x = s[i]
      BY DEF ToSet
    <3>2. i # 1
      BY <3>1, <1>3
    <3>3. i-1 \in DOMAIN Tail(s) /\ Tail(s)[i-1] = s[i]
      BY <3>2, <1>1, <1>2, <1>3
    <3> QED BY <3>1, <3>3 DEF ToSet
  <2> QED BY <2>1, <2>2
<1>6. Head(s) \in ToSet(s)
  BY <1>1, <1>3 DEF ToSet
<1> QED BY <1>1, <1>4, <1>5, <1>6

(* The last element is taken.                                              *)
LEMMA FrontProperties ==
    ASSUME NEW S, NEW s \in Seq(S), s # <<>>, IsInjective(s)
    PROVE  /\ Front(s) \in Seq(S) /\ IsInjective(Front(s))
           /\ Last(s) \in ToSet(s)
           /\ ToSet(Front(s)) = ToSet(s) \ {Last(s)}
           /\ Len(s) = 1 => Front(s) = <<>>
<1> DEFINE f == Front(s)
<1>1. Len(s) \in Nat \ {0} /\ DOMAIN s = 1..Len(s)
  BY EmptySeq, LenProperties
<1>2. f \in Seq(S) /\ Len(f) = Len(s) - 1 /\ \A i \in 1..(Len(s) - 1) : f[i] = s[i]
  <2>1. \A i \in 1..(Len(s) - 1) : s[i] \in S
    BY <1>1, LenProperties
  <2>2. 1 \in Int /\ Len(s) - 1 \in Int
    BY <1>1
  <2>3. /\ SubSeq(s, 1, Len(s) - 1) \in Seq(S)
        /\ Len(SubSeq(s, 1, Len(s) - 1)) = IF 1 <= Len(s) - 1 THEN Len(s) - 1 - 1 + 1 ELSE 0
        /\ \A i \in 1..(Len(s) - 1 - 1 + 1) : SubSeq(s, 1, Len(s) - 1)[i] = s[1 + i - 1]
    BY <2>1, <2>2, SubSeqProperties
  <2>4. \A k \in Nat \ {0} : /\ (IF 1 <= k - 1 THEN k - 1 - 1 + 1 ELSE 0) = k - 1
                            /\ k - 1 - 1 + 1 = k - 1
                            /\ 1 + k - 1 = k
    OBVIOUS
  <2> QED BY <2>3, <2>4, <1>1 DEF Front
<1>3. DOMAIN f = 1..(Len(s) - 1)
  BY <1>2, LenProperties
<1>4. IsInjective(f)
  BY <1>1, <1>2, <1>3 DEF IsInjective
<1>5. Last(s) \in ToSet(s)
  BY <1>1 DEF Last, ToSet
<1>6. ASSUME NEW x \in ToSet(f) PROVE x \in ToSet(s) \ {Last(s)}
  <2>1. PICK i \in 1..(Len(s) - 1) : x = f[i]
    BY <1>3 DEF ToSet
  <2>2. \A k \in Nat \ {0} : i \in 1..(k - 1) => i \in 1..k /\ k \in 1..k /\ i # k
    OBVIOUS
  <2>3. x = s[i]
    BY <1>2, <2>1
  <2>4. i \in DOMAIN s /\ Len(s) \in DOMAIN s /\ i # Len(s)
    BY <1>1, <2>2
  <2> QED BY <2>3, <2>4 DEF IsInjective, ToSet, Last
<1>7. ASSUME NEW x \in ToSet(s) \ {Last(s)} PROVE x \in ToSet(f)
  <2>1. PICK i \in DOMAIN s : x = s[i]
    BY DEF ToSet
  <2>2. i # Len(s)
    BY <2>1 DEF Last
  <2>3. i \in 1..(Len(s) - 1)
    BY <1>1, <2>2
  <2>4. i \in DOMAIN f /\ x = f[i]
    BY <1>2, <1>3, <2>1, <2>3
  <2> QED BY <2>4 DEF ToSet
<1>8. ASSUME Len(s) = 1 PROVE f = <<>>
  <2>1. Len(f) = 0
    BY <1>2, <1>8
  <2> QED BY <1>2, <2>1, EmptySeq
<1> QED BY <1>2, <1>4, <1>5, <1>6, <1>7, <1>8

(* Two sequences that have no element in common.                           *)
LEMMA InjectiveConcat ==
    ASSUME NEW S, NEW s \in Seq(S), NEW t \in Seq(S), IsInjective(s), IsInjective(t),
           ToSet(s) \cap ToSet(t) = {}
    PROVE  IsInjective(s \o t)
<1>1. /\ DOMAIN (s \o t) = 1..(Len(s) + Len(t))
      /\ \A i \in 1..(Len(s) + Len(t)) :
            (s \o t)[i] = IF i <= Len(s) THEN s[i] ELSE t[i - Len(s)]
      /\ Len(s) \in Nat /\ Len(t) \in Nat
      /\ DOMAIN s = 1..Len(s) /\ DOMAIN t = 1..Len(t)
  BY ConcatProperties, LenProperties
<1>2. ASSUME NEW i \in 1..Len(s), NEW j \in 1..Len(t) PROVE s[i] # t[j]
  BY <1>1, <1>2 DEF ToSet
<1>3. ASSUME NEW i \in 1..(Len(s) + Len(t)), NEW j \in 1..(Len(s) + Len(t)),
             (s \o t)[i] = (s \o t)[j]
      PROVE  i = j
  <2>1. CASE i <= Len(s) /\ j <= Len(s)
    <3>1. i \in DOMAIN s /\ j \in DOMAIN s /\ s[i] = s[j]
      BY <1>1, <1>3, <2>1
    <3> QED BY <3>1 DEF IsInjective
  <2>2. CASE i > Len(s) /\ j > Len(s)
    <3>1. i - Len(s) \in DOMAIN t /\ j - Len(s) \in DOMAIN t /\ t[i - Len(s)] = t[j - Len(s)]
      BY <1>1, <1>3, <2>2
    <3>2. i - Len(s) = j - Len(s)
      BY <3>1 DEF IsInjective
    <3> QED BY <1>1, <3>2
  <2>3. CASE i <= Len(s) /\ j > Len(s)
    <3>1. i \in 1..Len(s) /\ j - Len(s) \in 1..Len(t) /\ s[i] = t[j - Len(s)]
      BY <1>1, <1>3, <2>3
    <3> QED BY <1>2, <3>1
  <2>4. CASE i > Len(s) /\ j <= Len(s)
    <3>1. j \in 1..Len(s) /\ i - Len(s) \in 1..Len(t) /\ s[j] = t[i - Len(s)]
      BY <1>1, <1>3, <2>4
    <3> QED BY <1>2, <3>1
  <2> QED BY <1>1, <2>1, <2>2, <2>3, <2>4
<1> QED BY <1>1, <1>3 DEF IsInjective

(* The element at position k is taken.                                     *)
LEMMA RemoveAtProperties ==
    ASSUME NEW S, NEW s \in Seq(S), NEW k \in 1..Len(s)
    PROVE  /\ RemoveAt(s, k) \in Seq(S) /\ Len(RemoveAt(s, k)) = Len(s) - 1
           /\ s[k] \in ToSet(s)
           /\ ToSet(RemoveAt(s, k)) \subseteq ToSet(s)
           /\ ToSet(s) \subseteq ToSet(RemoveAt(s, k)) \cup {s[k]}
           /\ IsInjective(s) => /\ IsInjective(RemoveAt(s, k))
                                /\ ToSet(RemoveAt(s, k)) = ToSet(s) \ {s[k]}
<1> DEFINE n == Len(s)
           a == SubSeq(s, 1, k - 1)
           b == SubSeq(s, k + 1, n)
           r == RemoveAt(s, k)
<1>1. n \in Nat /\ DOMAIN s = 1..n /\ \A i \in 1..n : s[i] \in S
  BY LenProperties
<1> HIDE DEF n
<1>2. k \in Nat \ {0} /\ k <= n
  BY <1>1 DEF n
<1>3. a \in Seq(S) /\ Len(a) = k - 1 /\ \A i \in 1..(k - 1) : a[i] = s[i]
  <2>1. 1 \in Int /\ k - 1 \in Int /\ \A i \in 1..(k - 1) : s[i] \in S
    BY <1>1, <1>2
  <2>2. /\ a \in Seq(S) /\ Len(a) = IF 1 <= k - 1 THEN k - 1 - 1 + 1 ELSE 0
        /\ \A i \in 1..(k - 1 - 1 + 1) : a[i] = s[1 + i - 1]
    BY <2>1, SubSeqProperties
  <2> QED BY <1>2, <2>2
<1>4. b \in Seq(S) /\ Len(b) = n - k /\ \A i \in 1..(n - k) : b[i] = s[k + i]
  <2>1. k + 1 \in Int /\ n \in Int /\ \A i \in (k + 1)..n : s[i] \in S
    BY <1>1, <1>2
  <2>2. /\ b \in Seq(S) /\ Len(b) = IF k + 1 <= n THEN n - (k + 1) + 1 ELSE 0
        /\ \A i \in 1..(n - (k + 1) + 1) : b[i] = s[k + 1 + i - 1]
    BY <2>1, SubSeqProperties
  <2> QED BY <1>1, <1>2, <2>2
<1>5. r = a \o b
  BY DEF RemoveAt, n
<1> HIDE DEF a, b, r
<1>6. /\ r \in Seq(S) /\ Len(r) = n - 1
      /\ \A i \in 1..(n - 1) : r[i] = IF i <= k - 1 THEN s[i] ELSE s[i + 1]
  <2>1. /\ r \in Seq(S) /\ Len(r) = Len(a) + Len(b)
        /\ \A i \in 1..(Len(a) + Len(b)) : r[i] = IF i <= Len(a) THEN a[i] ELSE b[i - Len(a)]
    BY <1>3, <1>4, <1>5, ConcatProperties
  <2>2. Len(a) + Len(b) = n - 1
    BY <1>1, <1>2, <1>3, <1>4
  <2>3. ASSUME NEW i \in 1..(n - 1)
        PROVE  r[i] = IF i <= k - 1 THEN s[i] ELSE s[i + 1]
    <3>1. r[i] = IF i <= k - 1 THEN a[i] ELSE b[i - (k - 1)]
      BY <1>3, <2>1, <2>2
    <3>2. CASE i <= k - 1
      BY <1>3, <3>1, <3>2
    <3>3. CASE ~(i <= k - 1)
      <4>1. i - (k - 1) \in 1..(n - k) /\ k + (i - (k - 1)) = i + 1
        BY <1>1, <1>2, <3>3
      <4> QED BY <1>4, <3>1, <3>3, <4>1
    <3> QED BY <3>2, <3>3
  <2> QED BY <2>1, <2>2, <2>3
<1>7. DOMAIN r = 1..(n - 1)
  BY <1>6, LenProperties
<1>8. s[k] \in ToSet(s)
  BY <1>1, <1>2 DEF ToSet
<1>9. ASSUME NEW x \in ToSet(r) PROVE x \in ToSet(s)
  <2>1. PICK i \in 1..(n - 1) : x = r[i]
    BY <1>7 DEF ToSet
  <2>2. i \in 1..n /\ i + 1 \in 1..n
    BY <1>1
  <2> QED BY <1>1, <1>6, <2>1, <2>2 DEF ToSet
<1>10. ASSUME NEW x \in ToSet(s), x # s[k] PROVE x \in ToSet(r)
  <2>1. PICK i \in 1..n : x = s[i]
    BY <1>1 DEF ToSet
  <2>2. i # k
    BY <1>10, <2>1
  <2>3. CASE i < k
    <3>1. i \in 1..(n - 1) /\ i <= k - 1
      BY <1>1, <1>2, <2>3
    <3> QED BY <1>6, <1>7, <2>1, <3>1 DEF ToSet
  <2>4. CASE i > k
    <3>1. i - 1 \in 1..(n - 1) /\ ~(i - 1 <= k - 1) /\ (i - 1) + 1 = i
      BY <1>1, <1>2, <2>4
    <3>2. r[i - 1] = s[i]
      BY <1>6, <3>1
    <3> QED BY <1>7, <2>1, <3>1, <3>2 DEF ToSet
  <2> QED BY <1>2, <2>2, <2>3, <2>4
<1>11. ASSUME IsInjective(s) PROVE IsInjective(r) /\ s[k] \notin ToSet(r)
  <2>1. \A i, j \in 1..n : s[i] = s[j] => i = j
    BY <1>1, <1>11 DEF IsInjective
  <2>2. \A i \in 1..(n - 1) : i \in 1..n /\ i + 1 \in 1..n /\ k \in 1..n
    BY <1>1, <1>2
  <2>3. ASSUME NEW i \in 1..(n - 1), NEW j \in 1..(n - 1), r[i] = r[j] PROVE i = j
    BY <1>1, <1>2, <1>6, <2>1, <2>2, <2>3
  <2>4. ASSUME NEW i \in 1..(n - 1) PROVE r[i] # s[k]
    BY <1>1, <1>2, <1>6, <2>1, <2>2, <2>4
  <2> QED BY <1>7, <2>3, <2>4 DEF IsInjective, ToSet
<1> QED BY <1>6, <1>8, <1>9, <1>10, <1>11 DEF r, n

(* The elements of two sequences.                                          *)
LEMMA ToSetConcat ==
    ASSUME NEW S, NEW s \in Seq(S), NEW t \in Seq(S)
    PROVE  s \o t \in Seq(S) /\ ToSet(s \o t) = ToSet(s) \cup ToSet(t)
<1>1. /\ s \o t \in Seq(S) /\ DOMAIN (s \o t) = 1..(Len(s) + Len(t))
      /\ \A i \in 1..(Len(s) + Len(t)) :
            (s \o t)[i] = IF i <= Len(s) THEN s[i] ELSE t[i - Len(s)]
      /\ Len(s) \in Nat /\ Len(t) \in Nat
      /\ DOMAIN s = 1..Len(s) /\ DOMAIN t = 1..Len(t)
  BY ConcatProperties, LenProperties
<1>2. ASSUME NEW x \in ToSet(s \o t) PROVE x \in ToSet(s) \cup ToSet(t)
  <2>1. PICK i \in 1..(Len(s) + Len(t)) : x = (s \o t)[i]
    BY <1>1 DEF ToSet
  <2>2. CASE i <= Len(s)
    BY <1>1, <2>1, <2>2 DEF ToSet
  <2>3. CASE ~(i <= Len(s))
    <3>1. i - Len(s) \in DOMAIN t /\ x = t[i - Len(s)]
      BY <1>1, <2>1, <2>3
    <3> QED BY <3>1 DEF ToSet
  <2> QED BY <2>2, <2>3
<1>3. ASSUME NEW x \in ToSet(s) PROVE x \in ToSet(s \o t)
  <2>1. PICK i \in 1..Len(s) : x = s[i]
    BY <1>1 DEF ToSet
  <2>2. i \in DOMAIN (s \o t) /\ x = (s \o t)[i]
    BY <1>1, <2>1
  <2> QED BY <2>2 DEF ToSet
<1>4. ASSUME NEW x \in ToSet(t) PROVE x \in ToSet(s \o t)
  <2>1. PICK i \in 1..Len(t) : x = t[i]
    BY <1>1 DEF ToSet
  <2>2. /\ i + Len(s) \in DOMAIN (s \o t) /\ ~(i + Len(s) <= Len(s))
        /\ (i + Len(s)) - Len(s) = i
    BY <1>1
  <2>3. (s \o t)[i + Len(s)] = x
    BY <1>1, <2>1, <2>2
  <2> QED BY <2>2, <2>3 DEF ToSet
<1> QED BY <1>1, <1>2, <1>3, <1>4

(* The list of the elements of a finite set.                               *)
LEMMA SetToSeqProperties ==
    ASSUME NEW S, IsFiniteSet(S)
    PROVE  SetToSeq(S) \in Seq(S) /\ ToSet(SetToSeq(S)) = S
<1> DEFINE n == Cardinality(S)
           s == SetToSeq(S)
<1>1. n \in Nat /\ ExistsBijection(1..n, S)
  BY FS_CardinalityType
<1>2. PICK f : f \in Bijection(1..n, S)
  BY <1>1 DEF ExistsBijection
<1>3. f \in [1..n -> S] /\ IsInjective(f)
  BY <1>2 DEF Bijection, Injection
<1>4. s \in [1..n -> S] /\ IsInjective(s)
  BY <1>3 DEF SetToSeq
<1> HIDE DEF s
<1>5. s \in Injection(1..n, S)
  BY <1>4 DEF Injection
<1>6. IsFiniteSet(1..n) /\ Cardinality(1..n) = n
  BY <1>1, FS_Interval
<1>7. s \in Surjection(1..n, S)
  BY <1>5, <1>6, FS_Injection
<1>8. \A x \in S : \E i \in 1..n : s[i] = x
  BY <1>7 DEF Surjection
<1> HIDE DEF n
<1>9. s \in Seq(S)
  BY <1>1, <1>4
<1>10. ToSet(s) = S
  BY <1>4, <1>8 DEF ToSet
<1> QED BY <1>9, <1>10 DEF s

(* Induction, for a set of numbers: what holds of 0 and passes from each   *)
(* number to the next holds of all of them.  Otherwise the numbers up to   *)
(* which it holds would be a finite set that is mapped into itself without *)
(* 0, one to one.                                                          *)
LEMMA SetInduction ==
    ASSUME NEW L \in SUBSET Nat, 0 \in L, \A n \in L : n + 1 \in L
    PROVE  L = Nat
<1> SUFFICES ASSUME NEW m \in Nat, m \notin L PROVE FALSE
  OBVIOUS
<1> DEFINE D == {n \in 0..m : 0..n \subseteq L}
           E == D \ {0}
           f == [n \in D |-> n + 1]
<1>1. IsFiniteSet(D)
  <2>1. IsFiniteSet(0..m)
    BY FS_Interval
  <2> QED BY <2>1, FS_Subset
<1>2. 0 \in D
  <2>1. 0..0 = {0}
    OBVIOUS
  <2> QED BY <2>1
<1>3. ASSUME NEW n \in D PROVE n + 1 \in E
  <2>1. n \in L /\ n + 1 \in L /\ n # m
    BY <1>3
  <2>2. 0..(n + 1) \subseteq 0..n \cup {n + 1}
    BY <1>3
  <2> QED BY <1>3, <2>1, <2>2
<1>4. f \in [D -> E]
  BY <1>3
<1>5. IsFiniteSet(E) /\ Cardinality(E) < Cardinality(D)
  <2>1. IsFiniteSet(E) /\ Cardinality(E) = Cardinality(D) - 1
    BY <1>1, <1>2, FS_RemoveElement
  <2>2. Cardinality(D) \in Nat
    BY <1>1, FS_CardinalityType
  <2> QED BY <2>1, <2>2
<1>6. D \subseteq Nat
  OBVIOUS
<1>7. \A x, y \in D : x # y => f[x] # f[y]
  BY <1>6
<1> HIDE DEF f, E, D
<1>8. \E x, y \in D : x # y /\ f[x] = f[y]
  BY <1>1, <1>4, <1>5, FS_PigeonHole
<1> QED BY <1>7, <1>8

(* Induction over a loop: next[x] is the state after the round in x of Go, *)
(* and m decreases.                                                        *)
Decreases(m, Go, next) == \A x \in Go : m[next[x]] < m[x]

Inherited(P, D, Go, next) == \A x \in D : (x \in Go => next[x] \in P) => x \in P

LEMMA LoopInduction ==
    ASSUME NEW D, NEW m \in [D -> Nat], NEW Go \in SUBSET D, NEW next \in [Go -> D],
           Decreases(m, Go, next), NEW P \in SUBSET D, Inherited(P, D, Go, next)
    PROVE  P = D
<1> USE DEF Decreases, Inherited
<1> DEFINE L == {n \in Nat : \A x \in D : m[x] < n => x \in P}
<1>1. 0 \in L
  OBVIOUS
<1>2. ASSUME NEW n \in L PROVE n + 1 \in L
  <2> SUFFICES ASSUME NEW x \in D, m[x] < n + 1 PROVE x \in P
    OBVIOUS
  <2>1. x \in Go => m[next[x]] < n /\ next[x] \in D
    <3> SUFFICES ASSUME x \in Go PROVE m[next[x]] < n /\ next[x] \in D
      OBVIOUS
    <3>1. next[x] \in D /\ m[next[x]] < m[x] /\ m[x] \in Nat /\ m[next[x]] \in Nat
      OBVIOUS
    <3> QED BY <3>1
  <2> QED BY <2>1
<1>3. L = Nat
  <2>1. L \in SUBSET Nat
    OBVIOUS
  <2> HIDE DEF L
  <2> QED BY <1>1, <1>2, <2>1, SetInduction
<1>4. ASSUME NEW x \in D PROVE x \in P
  <2>1. m[x] + 1 \in L /\ m[x] < m[x] + 1
    BY <1>3
  <2> QED BY <2>1
<1> QED BY <1>4

(* What such a loop computes exists: val[x] is its result in a state x     *)
(* that is not in Go.  F(n) is a function that is right for the states     *)
(* whose m is less than n.                                                 *)
Computes(f, D, Go, next, val) ==
    \A x \in D : f[x] = IF x \in Go THEN f[next[x]] ELSE val[x]

LEMMA LoopExists ==
    ASSUME NEW D, NEW V, NEW m \in [D -> Nat], NEW Go \in SUBSET D, NEW next \in [Go -> D],
           Decreases(m, Go, next), NEW val \in [D -> V]
    PROVE  \E f \in [D -> V] : Computes(f, D, Go, next, val)
<1> USE DEF Decreases, Computes
<1> DEFINE Good(f, n) ==
              /\ f \in [D -> V]
              /\ \A x \in D : m[x] < n => f[x] = IF x \in Go THEN f[next[x]] ELSE val[x]
           F(n) == CHOOSE f : Good(f, n)
<1>1. ASSUME NEW n \in Nat PROVE Good(F(n), n)
  <2> DEFINE L == {k \in Nat : \E f : Good(f, k)}
  <2>1. 0 \in L
    <3>1. Good(val, 0)
      OBVIOUS
    <3> QED BY <3>1
  <2>2. ASSUME NEW k \in L PROVE k + 1 \in L
    <3>1. PICK f : Good(f, k)
      OBVIOUS
    <3> DEFINE g == [x \in D |-> IF m[x] < k THEN f[x]
                                 ELSE IF x \in Go THEN f[next[x]] ELSE val[x]]
    <3>2. g \in [D -> V]
      BY <3>1
    <3>3. ASSUME NEW x \in D, m[x] < k + 1
          PROVE  g[x] = IF x \in Go THEN g[next[x]] ELSE val[x]
      <4>1. g[x] = IF x \in Go THEN f[next[x]] ELSE val[x]
        BY <3>1
      <4>2. ASSUME x \in Go PROVE g[next[x]] = f[next[x]]
        <5>1. next[x] \in D /\ m[next[x]] < m[x] /\ m[x] \in Nat /\ m[next[x]] \in Nat
          BY <4>2
        <5>2. m[next[x]] < k
          BY <5>1, <3>3
        <5> QED BY <5>1, <5>2
      <4> QED BY <4>1, <4>2
    <3> HIDE DEF g
    <3>4. Good(g, k + 1)
      BY <3>2, <3>3
    <3> QED BY <3>4
  <2> HIDE DEF Good
  <2>3. L = Nat
    <3>1. L \in SUBSET Nat
      OBVIOUS
    <3> HIDE DEF L
    <3> QED BY <2>1, <2>2, <3>1, SetInduction
  <2> QED BY <2>3
<1>2. ASSUME NEW x \in D, NEW k \in Nat, NEW l \in Nat, m[x] < k, m[x] < l
      PROVE  F(k)[x] = F(l)[x]
  <2>1. Good(F(k), k) /\ Good(F(l), l)
    BY <1>1
  <2> HIDE DEF F
  <2> DEFINE P == {y \in D : m[y] < k /\ m[y] < l => F(k)[y] = F(l)[y]}
  <2>2. ASSUME NEW y \in D, y \in Go => next[y] \in P, m[y] < k, m[y] < l
        PROVE  F(k)[y] = F(l)[y]
    <3>1. F(k)[y] = IF y \in Go THEN F(k)[next[y]] ELSE val[y]
      BY <2>1, <2>2
    <3>2. F(l)[y] = IF y \in Go THEN F(l)[next[y]] ELSE val[y]
      BY <2>1, <2>2
    <3>3. ASSUME y \in Go PROVE F(k)[next[y]] = F(l)[next[y]]
      <4>1. next[y] \in P /\ m[next[y]] < m[y] /\ m[y] \in Nat /\ m[next[y]] \in Nat
        BY <3>3, <2>2
      <4>2. m[next[y]] < k /\ m[next[y]] < l
        BY <4>1, <2>2
      <4> QED BY <4>1, <4>2
    <3> QED BY <3>1, <3>2, <3>3
  <2>3. Inherited(P, D, Go, next)
    BY <2>2 DEF Inherited
  <2>4. P \in SUBSET D
    OBVIOUS
  <2>5. P = D
    <3> HIDE DEF P
    <3> QED BY <2>3, <2>4, LoopInduction
  <2>6. x \in P
    <3> HIDE DEF P
    <3> QED BY <2>5
  <2> QED BY <2>6, <1>2
<1> DEFINE g == [x \in D |-> F(m[x] + 1)[x]]
<1>3. ASSUME NEW x \in D
      PROVE  g[x] \in V /\ g[x] = IF x \in Go THEN g[next[x]] ELSE val[x]
  <2>1. m[x] \in Nat /\ m[x] + 1 \in Nat /\ m[x] < m[x] + 1
    OBVIOUS
  <2>2. Good(F(m[x] + 1), m[x] + 1)
    BY <1>1, <2>1
  <2> HIDE DEF F
  <2>3. g[x] = F(m[x] + 1)[x] /\ F(m[x] + 1) \in [D -> V]
    BY <2>2
  <2>4. g[x] = IF x \in Go THEN F(m[x] + 1)[next[x]] ELSE val[x]
    BY <2>1, <2>2, <2>3
  <2>5. ASSUME x \in Go PROVE g[next[x]] = F(m[x] + 1)[next[x]]
    <3>1. next[x] \in D /\ m[next[x]] < m[x] /\ m[next[x]] \in Nat
      BY <2>5
    <3>2. m[next[x]] < m[x] + 1 /\ m[next[x]] < m[next[x]] + 1 /\ m[next[x]] + 1 \in Nat
      BY <3>1, <2>1
    <3>3. F(m[next[x]] + 1)[next[x]] = F(m[x] + 1)[next[x]]
      BY <1>2, <3>1, <3>2, <2>1
    <3> QED BY <3>1, <3>3
  <2> QED BY <2>3, <2>4, <2>5
<1> HIDE DEF g
<1>4. g \in [D -> V]
  BY <1>3 DEF g
<1> QED BY <1>3, <1>4

(* A set of numbers has a least one.                                       *)
LEMMA Minimum ==
    ASSUME NEW I \in SUBSET Nat, I # {}
    PROVE  Min(I) \in I /\ \A n \in I : Min(I) <= n
<1>1. \E m \in I : \A n \in I : m <= n
  <2> SUFFICES ASSUME \A m \in I : \E n \in I : n < m PROVE FALSE
    OBVIOUS
  <2> DEFINE L == {n \in Nat : \A m \in I : ~(m <= n)}
  <2>1. 0 \in L
    <3>1. ASSUME 0 \in I PROVE FALSE
      BY <3>1
    <3> QED BY <3>1
  <2>2. ASSUME NEW n \in L PROVE n + 1 \in L
    <3>1. ASSUME n + 1 \in I PROVE FALSE
      <4>1. PICK m \in I : m < n + 1
        BY <3>1
      <4>2. m <= n
        BY <4>1
      <4> QED BY <4>1, <4>2
    <3>2. \A m \in I : m <= n + 1 => m <= n \/ m = n + 1
      OBVIOUS
    <3> QED BY <3>1, <3>2
  <2>3. L = Nat
    <3>1. L \in SUBSET Nat
      OBVIOUS
    <3> HIDE DEF L
    <3> QED BY <2>1, <2>2, <3>1, SetInduction
  <2>4. PICK m \in I : TRUE
    OBVIOUS
  <2>5. m \in L
    BY <2>3
  <2> QED BY <2>5
<1> QED BY <1>1 DEF Min
=============================================================================
