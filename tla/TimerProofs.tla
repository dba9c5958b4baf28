------------------------------ MODULE TimerProofs ------------------------------
(***************************************************************************)
(* What is proved about the timer: first of the heap, for every key and    *)
(* every length, then of the timer.                                        *)
(***************************************************************************)
EXTENDS Timer, SequenceFacts

(* An exchange of two elements, and the loops of the heap, rearrange it.   *)
Rearranged(S, h, t) ==
    /\ t \in Seq(S) /\ Len(t) = Len(h)
    /\ ToSet(t) = ToSet(h)
    /\ IsInjective(h) => IsInjective(t)

(* Rearranging twice is rearranging.                                        *)
LEMMA RearrangedTwice ==
    ASSUME NEW S, NEW h, NEW t, NEW u, Rearranged(S, h, t), Rearranged(S, t, u)
    PROVE  Rearranged(S, h, u)
BY DEF Rearranged

(* The exchange of two elements.                                            *)
LEMMA SwapProperties ==
    ASSUME NEW S, NEW h \in Seq(S), NEW i \in 1..Len(h), NEW j \in 1..Len(h)
    PROVE  LET t == Swap(h, i, j)
           IN  /\ Rearranged(S, h, t)
               /\ t[j] = h[i] /\ t[i] = h[j]
               /\ \A k \in 1..Len(h) : k # i /\ k # j => t[k] = h[k]
<1> DEFINE t == Swap(h, i, j)
<1>1. DOMAIN h = 1..Len(h) /\ Len(h) \in Nat /\ \A k \in 1..Len(h) : h[k] \in S
  BY LenProperties
<1>2. t = [k \in 1..Len(h) |-> IF k = j THEN h[i] ELSE IF k = i THEN h[j] ELSE h[k]]
  BY <1>1 DEF Swap
<1> HIDE DEF t
<1>3. t \in Seq(S) /\ Len(t) = Len(h) /\ DOMAIN t = 1..Len(h)
  BY <1>1, <1>2
<1>4. t[j] = h[i] /\ t[i] = h[j] /\ \A k \in 1..Len(h) : k # i /\ k # j => t[k] = h[k]
  BY <1>2
<1>5. ToSet(t) = ToSet(h)
  <2>1. ASSUME NEW x \in ToSet(t) PROVE x \in ToSet(h)
    BY <1>1, <1>3, <1>4, <2>1 DEF ToSet
  <2>2. ASSUME NEW x \in ToSet(h) PROVE x \in ToSet(t)
    <3>1. PICK k \in 1..Len(h) : x = h[k]
      BY <1>1 DEF ToSet
    <3>2. \E l \in 1..Len(h) : x = t[l]
      BY <1>4, <3>1
    <3> QED BY <1>3, <3>2 DEF ToSet
  <2> QED BY <2>1, <2>2
<1>6. IsInjective(h) => IsInjective(t)
  BY <1>1, <1>3, <1>4 DEF IsInjective
<1> QED BY <1>3, <1>4, <1>5, <1>6 DEF Rearranged, t

(* The element at c may be before its parent, but its children are not     *)
(* before its parent.                                                      *)
AlmostUp(key, h, c) ==
    \A i \in 2..Len(h) :
        /\ i # c => key[h[i \div 2]] <= key[h[i]]
        /\ i \div 2 = c /\ c > 1 => key[h[c \div 2]] <= key[h[i]]

(* The children of p may be before p, but not before the parent of p.      *)
AlmostDown(key, h, p) ==
    \A i \in 2..Len(h) :
        /\ i \div 2 # p => key[h[i \div 2]] <= key[h[i]]
        /\ i \div 2 = p /\ p > 1 => key[h[p \div 2]] <= key[h[i]]

(* The parent of a position.                                                *)
LEMMA Halves ==
    /\ \A i \in Nat : i \div 2 \in Nat /\ i \div 2 <= i /\ (i > 0 => i \div 2 < i)
    /\ \A n \in Nat : \A i \in 2..n : i \div 2 \in 1..n
    /\ \A i, p \in Nat : i \div 2 = p <=> (i = 2 * p \/ i = 2 * p + 1)
OBVIOUS

(* A round of moveup, in terms of the keys along the heap.                 *)
LEMMA MoveUpRound ==
    ASSUME NEW n \in Nat, NEW k \in [1..n -> Nat], NEW l \in [1..n -> Nat],
           NEW c \in 2..n, NEW p \in 1..n, p = c \div 2, k[c] < k[p],
           \A i \in 2..n : i # c => k[i \div 2] <= k[i],
           \A i \in 2..n : i \div 2 = c => k[p] <= k[i],
           l[c] = k[p], l[p] = k[c],
           \A i \in 1..n : i # c /\ i # p => l[i] = k[i]
    PROVE  /\ \A i \in 2..n : i # p => l[i \div 2] <= l[i]
           /\ p > 1 => \A i \in 2..n : i \div 2 = p => l[p \div 2] <= l[i]
<1>1. \A i \in 2..n : i \div 2 \in 1..n /\ i \div 2 # i
  BY Halves
<1>2. ASSUME NEW i \in 2..n, i # p PROVE l[i \div 2] <= l[i]
  <2>1. CASE i = c
    <3>1. i \div 2 = p
      BY <2>1
    <3>2. k[c] \in Nat /\ k[p] \in Nat /\ k[c] <= k[p]
      OBVIOUS
    <3> QED BY <2>1, <3>1, <3>2
  <2>2. CASE i # c /\ i \div 2 = c
    <3>1. i \in 1..n /\ l[i] = k[i] /\ l[i \div 2] = k[p]
      BY <1>2, <2>2
    <3> QED BY <2>2, <3>1
  <2>3. CASE i # c /\ i \div 2 = p
    <3>1. k[p] <= k[i] /\ l[i] = k[i] /\ l[p] = k[c] /\ k[c] < k[p]
      BY <1>2, <2>3
    <3>2. k[p] \in Nat /\ k[i] \in Nat /\ k[c] \in Nat
      BY <1>2
    <3> QED BY <3>1, <3>2, <2>3
  <2>4. CASE i # c /\ i \div 2 # c /\ i \div 2 # p
    <3>1. i \in 1..n /\ i \div 2 \in 1..n
      BY <1>1
    <3>2. l[i] = k[i] /\ l[i \div 2] = k[i \div 2]
      BY <1>2, <2>4, <3>1
    <3> QED BY <2>4, <3>2
  <2> QED BY <2>1, <2>2, <2>3, <2>4
<1>3. ASSUME p > 1, NEW i \in 2..n, i \div 2 = p PROVE l[p \div 2] <= l[i]
  <2>1. p \div 2 \in 1..n /\ p \div 2 # p /\ p # c /\ i # p
    BY <1>1, <1>3
  <2>2. p \div 2 # c
    BY <1>3, Halves
  <2>3. l[p \div 2] = k[p \div 2] /\ k[p \div 2] <= k[p]
    BY <1>3, <2>1, <2>2
  <2>4. CASE i = c
    BY <2>3, <2>4
  <2>5. CASE i # c
    <3>1. k[p] <= k[i] /\ l[i] = k[i]
      BY <1>3, <2>1, <2>5
    <3>2. k[p] \in Nat /\ k[i] \in Nat /\ k[p \div 2] \in Nat
      BY <1>3, <2>1
    <3> QED BY <3>1, <3>2, <2>3
  <2> QED BY <2>4, <2>5
<1> QED BY <1>2, <1>3

(* A round of movedown: c is the lesser child of p.                        *)
RoundDown(n, k, l, c, p) ==
    /\ p = c \div 2 /\ k[c] < k[p]
    /\ \A i \in 2..n : i \div 2 = p => k[c] <= k[i]
    /\ \A i \in 2..n : i \div 2 # p => k[i \div 2] <= k[i]
    /\ p > 1 => \A i \in 2..n : i \div 2 = p => k[p \div 2] <= k[i]
    /\ l[c] = k[p] /\ l[p] = k[c]
    /\ \A i \in 1..n : i # c /\ i # p => l[i] = k[i]

LEMMA MoveDownRound ==
    ASSUME NEW n \in Nat, NEW k \in [1..n -> Nat], NEW l \in [1..n -> Nat],
           NEW p \in 1..n, NEW c \in 2..n, RoundDown(n, k, l, c, p)
    PROVE  /\ \A i \in 2..n : i \div 2 # c => l[i \div 2] <= l[i]
           /\ \A i \in 2..n : i \div 2 = c => l[p] <= l[i]
<1> USE DEF RoundDown
<1>1. \A i \in 2..n : i \div 2 \in 1..n /\ i \div 2 # i
  BY Halves
<1>2. ASSUME NEW i \in 2..n, i \div 2 # c PROVE l[i \div 2] <= l[i]
  <2>1. CASE i = c
    <3>1. i \div 2 = p
      BY <2>1
    <3>2. k[c] \in Nat /\ k[p] \in Nat /\ k[c] <= k[p]
      OBVIOUS
    <3> QED BY <2>1, <3>1, <3>2
  <2>2. CASE i # c /\ i \div 2 = p
    BY <1>1, <1>2, <2>2
  <2>3. CASE i = p
    <3>1. p \div 2 \in 1..n /\ p \div 2 # p /\ p > 1
      BY <1>1, <2>3, <1>2
    <3>2. k[p \div 2] <= k[c] /\ l[p \div 2] = k[p \div 2]
      BY <3>1, <1>2, <2>3
    <3> QED BY <2>3, <3>2
  <2>4. CASE i # c /\ i # p /\ i \div 2 # p
    <3>1. i \in 1..n /\ i \div 2 \in 1..n
      BY <1>1
    <3>2. l[i] = k[i] /\ l[i \div 2] = k[i \div 2]
      BY <1>2, <2>4, <3>1
    <3> QED BY <2>4, <3>2
  <2> QED BY <2>1, <2>2, <2>3, <2>4
<1>3. ASSUME NEW i \in 2..n, i \div 2 = c PROVE l[p] <= l[i]
  <2>1. p # c /\ i # c
    BY <1>1, <1>3
  <2>2. i # p
    BY <1>3, Halves
  <2>3. i \in 1..n /\ l[i] = k[i]
    BY <2>1, <2>2
  <2>4. k[i \div 2] <= k[i]
    BY <1>3, <2>1
  <2> QED BY <1>3, <2>3, <2>4
<1> QED BY <1>2, <1>3

(* A round of moveup in x = <<h, child>>.                                  *)
UpGoes(key, x) == x[2] > 1 /\ key[x[1][x[2]]] < key[x[1][x[2] \div 2]]
UpNext(x) == <<Swap(x[1], x[2], x[2] \div 2), x[2] \div 2>>

(* The loop of moveup computes something: the position gets less.          *)
LEMMA MoveUpEquation ==
    ASSUME NEW S, NEW key \in [S -> Nat]
    PROVE  \A x \in Places(key) :
              /\ MoveUpLoop(key)[x] = IF UpGoes(key, x) THEN MoveUpLoop(key)[UpNext(x)] ELSE x[1]
              /\ UpGoes(key, x) => UpNext(x) \in Places(key) /\ UpNext(x)[2] < x[2]
<1> DEFINE D == Places(key)
           Go == {x \in D : UpGoes(key, x)}
           m == [x \in D |-> x[2]]
           next == [x \in Go |-> UpNext(x)]
           val == [x \in D |-> x[1]]
           V == Seq(S)
<1>1. ASSUME NEW x \in D
      PROVE  x = <<x[1], x[2]>> /\ x[1] \in Seq(S) /\ x[2] \in Nat /\ x[2] \in 1..Len(x[1])
  BY DEF Places
<1>2. ASSUME NEW x \in Go PROVE UpNext(x) \in D /\ UpNext(x)[2] < x[2]
  <2>1. x[2] \in Nat /\ x[2] > 1 /\ x[2] \in 1..Len(x[1]) /\ x[1] \in Seq(S)
    BY <1>1 DEF UpGoes
  <2>2. x[2] \div 2 \in Nat /\ x[2] \div 2 < x[2] /\ x[2] \div 2 \in 1..Len(x[1])
    BY <2>1
  <2> DEFINE h == x[1]
             c == x[2]
             p == x[2] \div 2
  <2>3. h \in Seq(S) /\ c \in 1..Len(h) /\ p \in 1..Len(h)
    BY <2>1, <2>2
  <2>4. Swap(h, c, p) \in Seq(S) /\ Len(Swap(h, c, p)) = Len(h)
    <3> HIDE DEF h, c, p
    <3> QED BY <2>3, SwapProperties DEF Rearranged
  <2> QED BY <2>2, <2>4 DEF UpNext, Places
<1>3. m \in [D -> Nat] /\ val \in [D -> V]
  BY <1>1
<1>4. Go \in SUBSET D /\ next \in [Go -> D]
  BY <1>2
<1>5. Decreases(m, Go, next)
  BY <1>2 DEF Decreases
<1> HIDE DEF m, val, next, Go, D, V
<1>6. PICK f \in [D -> V] : Computes(f, D, Go, next, val)
  BY <1>3, <1>4, <1>5, LoopExists
<1> DEFINE Is(g) == g = [x \in D |-> IF UpGoes(key, x) THEN g[UpNext(x)] ELSE x[1]]
<1>7. \A x \in D : f[x] = IF UpGoes(key, x) THEN f[UpNext(x)] ELSE x[1]
  BY <1>6 DEF Go, next, val, Computes
<1>8. Is(f)
  <2> HIDE DEF UpGoes, UpNext
  <2> QED BY <1>7
<1>9. Is(CHOOSE g : Is(g))
  BY <1>8
<1>10. MoveUpLoop(key) = CHOOSE g : Is(g)
  BY DEF MoveUpLoop, UpGoes, UpNext, D
<1>11. Is(MoveUpLoop(key))
  BY <1>9, <1>10
<1>12. ASSUME NEW x \in D
       PROVE  MoveUpLoop(key)[x] = IF UpGoes(key, x) THEN MoveUpLoop(key)[UpNext(x)] ELSE x[1]
  <2> DEFINE g == MoveUpLoop(key)
  <2>1. g = [y \in D |-> IF UpGoes(key, y) THEN g[UpNext(y)] ELSE y[1]]
    BY <1>11
  <2> HIDE DEF g
  <2> QED BY <2>1 DEF g
<1> QED BY <1>2, <1>12 DEF D, Go


(* moveup makes a heap of what is almost one.                              *)
LEMMA MoveUpProperties ==
    ASSUME NEW S, NEW key \in [S -> Nat], NEW h0 \in Seq(S), NEW c0 \in 1..Len(h0),
           AlmostUp(key, h0, c0)
    PROVE  Rearranged(S, h0, MoveUp(key, h0, c0)) /\ IsHeap(key, MoveUp(key, h0, c0))
<1> DEFINE D == Places(key)
           F == MoveUpLoop(key)
           Go == {x \in D : UpGoes(key, x)}
           m == [x \in D |-> x[2]]
           next == [x \in Go |-> UpNext(x)]
           Done(x) == AlmostUp(key, x[1], x[2])
                         => Rearranged(S, x[1], F[x]) /\ IsHeap(key, F[x])
           P == {x \in D : Done(x)}
<1>1. ASSUME NEW x \in D
      PROVE  x = <<x[1], x[2]>> /\ x[1] \in Seq(S) /\ x[2] \in Nat /\ x[2] \in 1..Len(x[1])
  BY DEF Places
<1>2. ASSUME NEW h \in Seq(S), NEW c \in 1..Len(h), UpGoes(key, <<h, c>>), AlmostUp(key, h, c)
      PROVE  LET p == c \div 2
                 t == Swap(h, c, p)
             IN  Rearranged(S, h, t) /\ AlmostUp(key, t, p)
  <2> DEFINE n == Len(h)
             p == c \div 2
             t == Swap(h, c, p)
             k == [i \in 1..n |-> key[h[i]]]
             l == [i \in 1..n |-> key[t[i]]]
  <2>1. n \in Nat /\ \A i \in 1..n : h[i] \in S
    BY LenProperties
  <2>2. c \in 2..n /\ p \in 1..n /\ key[h[c]] < key[h[p]]
    BY <1>2, <2>1 DEF UpGoes
  <2>3. /\ Rearranged(S, h, t) /\ t[p] = h[c] /\ t[c] = h[p]
        /\ \A i \in 1..n : i # c /\ i # p => t[i] = h[i]
    BY <2>2, SwapProperties
  <2>4. Len(t) = n /\ \A i \in 1..n : t[i] \in S
    BY <2>3, LenProperties DEF Rearranged
  <2>5. k \in [1..n -> Nat] /\ l \in [1..n -> Nat]
    BY <2>1, <2>4
  <2>6. l[c] = k[p] /\ l[p] = k[c] /\ \A i \in 1..n : i # c /\ i # p => l[i] = k[i]
    BY <2>2, <2>3
  <2>7. \A i \in 2..n : /\ i # c => k[i \div 2] <= k[i]
                        /\ i \div 2 = c => k[p] <= k[i]
    <3>1. \A i \in 2..n : i \in 1..n /\ i \div 2 \in 1..n
      BY <2>1, Halves
    <3>2. \A i \in 2..n : k[i] = key[h[i]] /\ k[i \div 2] = key[h[i \div 2]]
      BY <3>1
    <3>3. k[p] = key[h[p]] /\ c > 1
      BY <2>2
    <3> HIDE DEF k
    <3> QED BY <1>2, <3>2, <3>3 DEF AlmostUp
  <2>8. k[c] < k[p]
    BY <2>2
  <2> HIDE DEF k, l, t
  <2>9. /\ \A i \in 2..n : i # p => l[i \div 2] <= l[i]
        /\ p > 1 => \A i \in 2..n : i \div 2 = p => l[p \div 2] <= l[i]
    <3> DEFINE q == p
    <3>1. q \in 1..n /\ q = c \div 2
      BY <2>2
    <3> HIDE DEF q, n
    <3>2. /\ \A i \in 2..n : i # q => l[i \div 2] <= l[i]
          /\ q > 1 => \A i \in 2..n : i \div 2 = q => l[q \div 2] <= l[i]
      BY <2>1, <2>2, <2>5, <2>6, <2>7, <2>8, <3>1, MoveUpRound DEF q
    <3> QED BY <3>2 DEF q
  <2>10. AlmostUp(key, t, p)
    <3>1. \A i \in 2..n : i \in 1..n /\ i \div 2 \in 1..n
      BY <2>1, Halves
    <3>2. \A i \in 2..n : l[i] = key[t[i]] /\ l[i \div 2] = key[t[i \div 2]]
      BY <3>1 DEF l
    <3>3. p > 1 => l[p \div 2] = key[t[p \div 2]]
      BY <2>2, <3>2
    <3> QED BY <2>4, <2>9, <3>2, <3>3 DEF AlmostUp
  <2> QED BY <2>3, <2>10 DEF t
<1>3. ASSUME NEW x \in D, x \in Go => next[x] \in P PROVE x \in P
  <2> DEFINE h == x[1]
             c == x[2]
  <2>1. h \in Seq(S) /\ c \in 1..Len(h) /\ x = <<h, c>> /\ Len(h) \in Nat
    BY <1>1, LenProperties
  <2> SUFFICES ASSUME AlmostUp(key, h, c) PROVE Rearranged(S, h, F[x]) /\ IsHeap(key, F[x])
    OBVIOUS
  <2>2. CASE x \in Go
    <3> DEFINE y == UpNext(x)
    <3>1. y[1] = Swap(h, c, c \div 2) /\ y[2] = c \div 2 /\ next[x] = y
      BY <2>2 DEF UpNext
    <3>2. Rearranged(S, h, y[1]) /\ AlmostUp(key, y[1], y[2])
      <4> HIDE DEF h, c, y
      <4>1. UpGoes(key, <<h, c>>)
        BY <2>1, <2>2
      <4> QED BY <1>2, <2>1, <3>1, <4>1
    <3>3. Rearranged(S, y[1], F[y]) /\ IsHeap(key, F[y])
      BY <1>3, <2>2, <3>1, <3>2
    <3>4. F[x] = F[y]
      BY <2>2, MoveUpEquation
    <3> QED BY <3>2, <3>3, <3>4, RearrangedTwice
  <2>3. CASE x \notin Go
    <3>1. F[x] = h /\ ~UpGoes(key, x)
      BY <2>3, MoveUpEquation
    <3>2. Rearranged(S, h, h)
      BY <2>1 DEF Rearranged
    <3>3. ASSUME NEW i \in 2..Len(h) PROVE key[h[i \div 2]] <= key[h[i]]
      <4>1. i \in 1..Len(h) /\ i \div 2 \in 1..Len(h)
        <5> DEFINE n == Len(h)
        <5>1. n \in Nat /\ i \in 2..n
          BY <2>1
        <5> HIDE DEF n
        <5>2. i \in 1..n /\ i \div 2 \in 1..n
          BY <5>1, Halves
        <5> QED BY <5>2 DEF n
      <4>2. key[h[i]] \in Nat /\ key[h[i \div 2]] \in Nat
        BY <2>1, <4>1, LenProperties
      <4>3. i # c => key[h[i \div 2]] <= key[h[i]]
        BY DEF AlmostUp
      <4>4. i = c => ~(key[h[i]] < key[h[i \div 2]])
        BY <3>1 DEF UpGoes
      <4> QED BY <4>2, <4>3, <4>4
    <3> QED BY <3>1, <3>2, <3>3 DEF IsHeap
  <2> QED BY <2>2, <2>3
<1>4. m \in [D -> Nat] /\ Go \in SUBSET D /\ P \in SUBSET D
  BY <1>1
<1>5. next \in [Go -> D] /\ Decreases(m, Go, next)
  BY MoveUpEquation DEF Decreases
<1>6. P = D
  <2>1. Inherited(P, D, Go, next)
    BY <1>3 DEF Inherited
  <2> HIDE DEF D, m, Go, next, P
  <2> QED BY <2>1, <1>4, <1>5, LoopInduction
<1>7. <<h0, c0>> \in D
  BY DEF Places
<1>8. Done(<<h0, c0>>)
  BY <1>6, <1>7
<1> QED BY <1>8 DEF MoveUp


(* The child that comes first is one of the two, and not behind the other. *)
LEMMA LesserChildProperties ==
    ASSUME NEW S, NEW key \in [S -> Nat], NEW h \in Seq(S), NEW p \in Nat \ {0}
    PROVE  LET c == LesserChild(key, h, p)
           IN  /\ c \in Nat /\ c > p /\ c \div 2 = p
               /\ c > Len(h) => \A i \in 2..Len(h) : i \div 2 # p
               /\ c <= Len(h) => \A i \in 2..Len(h) : i \div 2 = p => key[h[c]] <= key[h[i]]
<1> DEFINE c == LesserChild(key, h, p)
           n == Len(h)
<1>1. n \in Nat /\ \A i \in 1..n : key[h[i]] \in Nat
  BY LenProperties
<1> HIDE DEF n
<1>2. c = IF 2 * p + 1 <= n /\ key[h[2 * p + 1]] < key[h[2 * p]] THEN 2 * p + 1 ELSE 2 * p
  BY DEF LesserChild, n
<1> HIDE DEF c
<1>3. c \in Nat /\ c > p /\ c \div 2 = p /\ c \in {2 * p, 2 * p + 1}
  <2>1. c = 2 * p \/ c = 2 * p + 1
    BY <1>2
  <2> QED BY <2>1, Halves
<1>4. ASSUME c > n, NEW i \in 2..n PROVE i \div 2 # p
  <2>1. 2 * p > n \/ (2 * p + 1 > n /\ c = 2 * p + 1 /\ 2 * p + 1 <= n)
    BY <1>1, <1>2, <1>4
  <2>2. i # 2 * p /\ i # 2 * p + 1 /\ i \in Nat
    BY <1>1, <2>1
  <2> QED BY <2>2, Halves
<1>5. ASSUME c <= n, NEW i \in 2..n, i \div 2 = p PROVE key[h[c]] <= key[h[i]]
  <2>1. i = 2 * p \/ i = 2 * p + 1
    BY <1>1, <1>5, Halves
  <2>2. c \in 1..n /\ i \in 1..n /\ 2 * p \in 1..n
    BY <1>1, <1>3, <1>5, <2>1
  <2>3. key[h[c]] \in Nat /\ key[h[i]] \in Nat /\ key[h[2 * p]] \in Nat
    BY <1>1, <2>2
  <2>4. CASE 2 * p + 1 <= n /\ key[h[2 * p + 1]] < key[h[2 * p]]
    <3>1. c = 2 * p + 1
      BY <1>2, <2>4
    <3> QED BY <2>1, <2>3, <2>4, <3>1
  <2>5. CASE ~(2 * p + 1 <= n /\ key[h[2 * p + 1]] < key[h[2 * p]])
    <3>1. c = 2 * p
      BY <1>2, <2>5
    <3>2. i = 2 * p + 1 => ~(key[h[i]] < key[h[c]])
      BY <1>1, <2>2, <2>5, <3>1
    <3> QED BY <2>1, <2>3, <3>1, <3>2
  <2> QED BY <2>4, <2>5
<1> QED BY <1>3, <1>4, <1>5 DEF c, n

(* A round of movedown in x = <<h, parent>>.                               *)
DownPlaces(key) == Seq(DOMAIN key) \X (Nat \ {0})
DownGoes(key, x) ==
    LET c == LesserChild(key, x[1], x[2])
    IN  c <= Len(x[1]) /\ key[x[1][c]] < key[x[1][x[2]]]
DownNext(key, x) ==
    LET c == LesserChild(key, x[1], x[2])
    IN  <<Swap(x[1], x[2], c), c>>

(* The loop of movedown computes something: the position gets greater, up  *)
(* to the length.                                                          *)
LEMMA MoveDownEquation ==
    ASSUME NEW S, NEW key \in [S -> Nat]
    PROVE  \A x \in DownPlaces(key) :
              /\ MoveDownLoop(key)[x] =
                    IF DownGoes(key, x) THEN MoveDownLoop(key)[DownNext(key, x)] ELSE x[1]
              /\ DownGoes(key, x) => /\ DownNext(key, x) \in DownPlaces(key)
                                     /\ Len(DownNext(key, x)[1]) = Len(x[1])
                                     /\ x[2] < DownNext(key, x)[2]
                                     /\ DownNext(key, x)[2] <= Len(x[1])
<1> DEFINE D == DownPlaces(key)
           Go == {x \in D : DownGoes(key, x)}
           m == [x \in D |-> IF x[2] <= Len(x[1]) THEN Len(x[1]) - x[2] ELSE 0]
           next == [x \in Go |-> DownNext(key, x)]
           val == [x \in D |-> x[1]]
           V == Seq(S)
<1>1. ASSUME NEW x \in D
      PROVE  x = <<x[1], x[2]>> /\ x[1] \in Seq(S) /\ x[2] \in Nat \ {0} /\ Len(x[1]) \in Nat
  <2>1. x[1] \in Seq(S) /\ x = <<x[1], x[2]>> /\ x[2] \in Nat \ {0}
    BY DEF DownPlaces
  <2> QED BY <2>1, LenProperties
<1>2. ASSUME NEW x \in Go
      PROVE  LET y == DownNext(key, x)
             IN  y \in D /\ Len(y[1]) = Len(x[1]) /\ x[2] < y[2] /\ y[2] <= Len(x[1])
  <2> DEFINE h == x[1]
             p == x[2]
             c == LesserChild(key, h, p)
  <2>1. h \in Seq(S) /\ p \in Nat \ {0} /\ Len(h) \in Nat
    BY <1>1
  <2>2. c \in Nat /\ c > p /\ c <= Len(h)
    <3>1. c <= Len(h)
      BY DEF DownGoes
    <3> HIDE DEF h, p
    <3> QED BY <2>1, <3>1, LesserChildProperties
  <2>3. DownNext(key, x) = <<Swap(h, p, c), c>>
    BY DEF DownNext
  <2>4. Swap(h, p, c) \in Seq(S) /\ Len(Swap(h, p, c)) = Len(h)
    <3> HIDE DEF h, c, p
    <3>1. c \in 1..Len(h) /\ p \in 1..Len(h)
      BY <2>1, <2>2
    <3> QED BY <2>1, <3>1, SwapProperties DEF Rearranged
  <2>5. DownNext(key, x) \in D
    <3> HIDE DEF h, c, p
    <3> QED BY <2>1, <2>2, <2>3, <2>4 DEF DownPlaces
  <2> QED BY <2>2, <2>3, <2>4, <2>5
<1>3. m \in [D -> Nat] /\ val \in [D -> V]
  BY <1>1
<1>4. Go \in SUBSET D /\ next \in [Go -> D]
  BY <1>2
<1>5. Decreases(m, Go, next)
  <2> SUFFICES ASSUME NEW x \in Go PROVE m[next[x]] < m[x]
    BY DEF Decreases
  <2> DEFINE y == DownNext(key, x)
             n == Len(x[1])
  <2>1. y \in D /\ Len(y[1]) = n /\ x[2] < y[2] /\ y[2] <= n /\ next[x] = y
    BY <1>2
  <2>2. n \in Nat /\ x[2] \in Nat /\ y[2] \in Nat
    BY <1>1, <2>1
  <2>3. m[x] = n - x[2] /\ m[y] = n - y[2]
    BY <2>1, <2>2
  <2> HIDE DEF m, y, n
  <2> QED BY <2>1, <2>2, <2>3
<1> HIDE DEF m, val, next, Go, D, V
<1>6. PICK f \in [D -> V] : Computes(f, D, Go, next, val)
  BY <1>3, <1>4, <1>5, LoopExists
<1> DEFINE Is(g) == g = [x \in D |-> IF DownGoes(key, x) THEN g[DownNext(key, x)] ELSE x[1]]
<1>7. \A x \in D : f[x] = IF DownGoes(key, x) THEN f[DownNext(key, x)] ELSE x[1]
  BY <1>6 DEF Go, next, val, Computes
<1>8. Is(f)
  <2> HIDE DEF DownGoes, DownNext
  <2> QED BY <1>7
<1>9. Is(CHOOSE g : Is(g))
  BY <1>8
<1>10. MoveDownLoop(key) = CHOOSE g : Is(g)
  BY DEF MoveDownLoop, DownGoes, DownNext, D, DownPlaces
<1>11. Is(MoveDownLoop(key))
  BY <1>9, <1>10
<1>12. ASSUME NEW x \in D
       PROVE  MoveDownLoop(key)[x] = IF DownGoes(key, x) THEN MoveDownLoop(key)[DownNext(key, x)] ELSE x[1]
  <2> DEFINE g == MoveDownLoop(key)
  <2>1. g = [y \in D |-> IF DownGoes(key, y) THEN g[DownNext(key, y)] ELSE y[1]]
    BY <1>11
  <2> HIDE DEF g
  <2> QED BY <2>1 DEF g
<1> QED BY <1>2, <1>12 DEF D, Go


(* movedown makes a heap of what is almost one.                            *)
LEMMA MoveDownProperties ==
    ASSUME NEW S, NEW key \in [S -> Nat], NEW h0 \in Seq(S), NEW p0 \in Nat \ {0},
           AlmostDown(key, h0, p0)
    PROVE  Rearranged(S, h0, MoveDown(key, h0, p0)) /\ IsHeap(key, MoveDown(key, h0, p0))
<1> DEFINE D == DownPlaces(key)
           F == MoveDownLoop(key)
           Go == {x \in D : DownGoes(key, x)}
           m == [x \in D |-> IF x[2] <= Len(x[1]) THEN Len(x[1]) - x[2] ELSE 0]
           next == [x \in Go |-> DownNext(key, x)]
           Done(x) == AlmostDown(key, x[1], x[2])
                         => Rearranged(S, x[1], F[x]) /\ IsHeap(key, F[x])
           P == {x \in D : Done(x)}
<1>1. ASSUME NEW x \in D
      PROVE  x = <<x[1], x[2]>> /\ x[1] \in Seq(S) /\ x[2] \in Nat \ {0} /\ Len(x[1]) \in Nat
  <2>1. x[1] \in Seq(S) /\ x = <<x[1], x[2]>> /\ x[2] \in Nat \ {0}
    BY DEF DownPlaces
  <2> QED BY <2>1, LenProperties
<1>2. ASSUME NEW h \in Seq(S), NEW p \in Nat \ {0}, DownGoes(key, <<h, p>>), AlmostDown(key, h, p)
      PROVE  LET c == LesserChild(key, h, p)
                 t == Swap(h, p, c)
             IN  Rearranged(S, h, t) /\ AlmostDown(key, t, c)
  <2> DEFINE n == Len(h)
             c == LesserChild(key, h, p)
             t == Swap(h, p, c)
             k == [i \in 1..n |-> key[h[i]]]
             l == [i \in 1..n |-> key[t[i]]]
  <2>1. n \in Nat /\ \A i \in 1..n : h[i] \in S
    BY LenProperties
  <2>2. c <= n /\ key[h[c]] < key[h[p]]
    BY <1>2 DEF DownGoes
  <2>3. /\ c \in 2..n /\ p \in 1..n /\ p = c \div 2
        /\ \A i \in 2..n : i \div 2 = p => key[h[c]] <= key[h[i]]
    <3>1. /\ c \in Nat /\ c > p /\ c \div 2 = p
          /\ c > n => \A i \in 2..n : i \div 2 # p
          /\ c <= n => \A i \in 2..n : i \div 2 = p => key[h[c]] <= key[h[i]]
      BY LesserChildProperties
    <3> HIDE DEF c, n
    <3> QED BY <2>1, <2>2, <3>1
  <2> HIDE DEF c
  <2>4. /\ Rearranged(S, h, t) /\ t[c] = h[p] /\ t[p] = h[c]
        /\ \A i \in 1..n : i # c /\ i # p => t[i] = h[i]
    <3>1. c \in 1..Len(h) /\ p \in 1..Len(h)
      BY <2>3
    <3> QED BY <3>1, SwapProperties
  <2>5. Len(t) = n /\ \A i \in 1..n : t[i] \in S
    BY <2>4, LenProperties DEF Rearranged
  <2>6. k \in [1..n -> Nat] /\ l \in [1..n -> Nat]
    BY <2>1, <2>5
  <2>7. l[c] = k[p] /\ l[p] = k[c] /\ \A i \in 1..n : i # c /\ i # p => l[i] = k[i]
    BY <2>3, <2>4
  <2>8. \A i \in 2..n : /\ i \in 1..n /\ i \div 2 \in 1..n
                        /\ k[i] = key[h[i]] /\ k[i \div 2] = key[h[i \div 2]]
                        /\ l[i] = key[t[i]] /\ l[i \div 2] = key[t[i \div 2]]
    <3>1. \A i \in 2..n : i \in 1..n /\ i \div 2 \in 1..n
      BY <2>1, Halves
    <3> QED BY <3>1
  <2>9. k[c] = key[h[c]] /\ k[p] = key[h[p]] /\ l[p] = key[t[p]]
        /\ (p > 1 => k[p \div 2] = key[h[p \div 2]])
    BY <2>3, <2>8
  <2> HIDE DEF k, l, t
  <2>10. /\ \A i \in 2..n : i \div 2 # p => k[i \div 2] <= k[i]
         /\ \A i \in 2..n : i \div 2 = p => k[c] <= k[i]
         /\ p > 1 => \A i \in 2..n : i \div 2 = p => k[p \div 2] <= k[i]
    BY <1>2, <2>3, <2>8, <2>9 DEF AlmostDown
  <2>11. /\ \A i \in 2..n : i \div 2 # c => l[i \div 2] <= l[i]
         /\ \A i \in 2..n : i \div 2 = c => l[p] <= l[i]
    <3> HIDE DEF n
    <3>1. k[c] < k[p]
      BY <2>2, <2>9
    <3>2. c \in 2..n /\ p \in 1..n /\ p = c \div 2 /\ n \in Nat
      BY <2>1, <2>3
    <3>3. RoundDown(n, k, l, c, p)
      BY <2>7, <2>10, <3>1, <3>2 DEF RoundDown
    <3> QED BY <2>6, <3>2, <3>3, MoveDownRound
  <2>12. AlmostDown(key, t, c)
    BY <2>3, <2>5, <2>8, <2>9, <2>11 DEF AlmostDown
  <2> QED BY <2>4, <2>12 DEF t, c
<1>3. ASSUME NEW x \in D, x \in Go => next[x] \in P PROVE x \in P
  <2> DEFINE h == x[1]
             p == x[2]
  <2>1. h \in Seq(S) /\ p \in Nat \ {0} /\ x = <<h, p>> /\ Len(h) \in Nat
    BY <1>1
  <2> SUFFICES ASSUME AlmostDown(key, h, p) PROVE Rearranged(S, h, F[x]) /\ IsHeap(key, F[x])
    OBVIOUS
  <2>2. CASE x \in Go
    <3> DEFINE y == DownNext(key, x)
    <3>1. /\ y[1] = Swap(h, p, LesserChild(key, h, p)) /\ y[2] = LesserChild(key, h, p)
          /\ next[x] = y
      BY <2>2 DEF DownNext
    <3>2. Rearranged(S, h, y[1]) /\ AlmostDown(key, y[1], y[2])
      <4> HIDE DEF h, p, y
      <4>1. DownGoes(key, <<h, p>>)
        BY <2>1, <2>2
      <4> QED BY <1>2, <2>1, <3>1, <4>1
    <3>3. Rearranged(S, y[1], F[y]) /\ IsHeap(key, F[y])
      BY <1>3, <2>2, <3>1, <3>2
    <3>4. F[x] = F[y]
      BY <2>2, MoveDownEquation
    <3> QED BY <3>2, <3>3, <3>4, RearrangedTwice
  <2>3. CASE x \notin Go
    <3> DEFINE n == Len(h)
               c == LesserChild(key, h, p)
    <3>1. F[x] = h /\ ~DownGoes(key, x)
      BY <2>3, MoveDownEquation
    <3>2. Rearranged(S, h, h)
      BY <2>1 DEF Rearranged
    <3>3. ASSUME NEW i \in 2..n PROVE key[h[i \div 2]] <= key[h[i]]
      <4>1. n \in Nat /\ \A j \in 1..n : key[h[j]] \in Nat
        BY <2>1, LenProperties
      <4>2. ~(c <= n /\ key[h[c]] < key[h[p]])
        BY <3>1 DEF DownGoes
      <4>3. i \div 2 # p => key[h[i \div 2]] <= key[h[i]]
        BY DEF AlmostDown
      <4>4. /\ c \in Nat /\ c > p /\ c \div 2 = p
            /\ c > n => i \div 2 # p
            /\ c <= n => (i \div 2 = p => key[h[c]] <= key[h[i]])
        <5> HIDE DEF h, p
        <5>1. /\ c \in Nat /\ c > p /\ c \div 2 = p
              /\ c > n => \A j \in 2..n : j \div 2 # p
              /\ c <= n => \A j \in 2..n : j \div 2 = p => key[h[c]] <= key[h[j]]
          BY <2>1, LesserChildProperties
        <5> HIDE DEF c, n
        <5> QED BY <5>1
      <4> HIDE DEF h, p, n, c
      <4>5. i \in 1..n /\ i \div 2 \in 1..n
        BY <4>1, Halves
      <4>6. CASE i \div 2 = p
        <5>1. c <= n
          BY <4>1, <4>4, <4>6
        <5>2. c \in 1..n /\ p \in 1..n
          BY <4>1, <4>4, <4>5, <4>6, <5>1, <2>1
        <5>3. key[h[c]] \in Nat /\ key[h[p]] \in Nat /\ key[h[i]] \in Nat
          BY <4>1, <4>5, <5>2
        <5> QED BY <4>2, <4>4, <4>6, <5>1, <5>3
      <4> QED BY <4>3, <4>6
    <3> QED BY <3>1, <3>2, <3>3 DEF IsHeap
  <2> QED BY <2>2, <2>3
<1>4. m \in [D -> Nat] /\ Go \in SUBSET D /\ P \in SUBSET D
  BY <1>1
<1>5. next \in [Go -> D] /\ Decreases(m, Go, next)
  <2>1. ASSUME NEW x \in Go PROVE next[x] \in D /\ m[next[x]] < m[x]
    <3> DEFINE y == DownNext(key, x)
               n == Len(x[1])
    <3>1. y \in D /\ Len(y[1]) = n /\ x[2] < y[2] /\ y[2] <= n /\ next[x] = y
      BY MoveDownEquation
    <3>2. n \in Nat /\ x[2] \in Nat /\ y[2] \in Nat
      BY <1>1, <3>1
    <3>3. m[x] = n - x[2] /\ m[y] = n - y[2]
      BY <3>1, <3>2
    <3> HIDE DEF m, y, n
    <3> QED BY <3>1, <3>2, <3>3
  <2> QED BY <2>1 DEF Decreases
<1>6. P = D
  <2>1. Inherited(P, D, Go, next)
    BY <1>3 DEF Inherited
  <2> HIDE DEF D, m, Go, next, P
  <2> QED BY <2>1, <1>4, <1>5, LoopInduction
<1>7. <<h0, p0>> \in D
  BY DEF DownPlaces
<1>8. Done(<<h0, p0>>)
  BY <1>6, <1>7
<1> QED BY <1>8 DEF MoveDown

(* The first element of a heap, the one that peek returns, comes first.    *)
THEOREM RootIsLeast ==
    ASSUME NEW S, NEW key \in [S -> Nat], NEW h \in Seq(S), IsHeap(key, h)
    PROVE  \A i \in 1..Len(h) : key[h[1]] <= key[h[i]]
<1> DEFINE n == Len(h)
           k == [i \in 1..n |-> key[h[i]]]
           L == {j \in Nat : \A i \in 1..n : i <= j => k[1] <= k[i]}
<1>1. n \in Nat /\ \A i \in 1..n : k[i] \in Nat
  BY LenProperties
<1>2. \A i \in 2..n : k[i \div 2] <= k[i]
  <2>1. \A i \in 2..n : i \in 1..n /\ i \div 2 \in 1..n
    BY <1>1, Halves
  <2>2. \A i \in 2..n : k[i] = key[h[i]] /\ k[i \div 2] = key[h[i \div 2]]
    BY <2>1
  <2> HIDE DEF k
  <2> QED BY <2>2 DEF IsHeap
<1> HIDE DEF n, k
<1>3. 0 \in L
  BY <1>1
<1>4. ASSUME NEW j \in L PROVE j + 1 \in L
  <2> SUFFICES ASSUME NEW i \in 1..n, i = j + 1 PROVE k[1] <= k[i]
    <3>1. j \in Nat /\ \A i \in 1..n : i <= j => k[1] <= k[i]
      BY <1>4
    <3>2. \A i \in 1..n : i <= j + 1 => i <= j \/ i = j + 1
      BY <1>1, <3>1
    <3> QED BY <3>1, <3>2
  <2>1. CASE i = 1
    BY <1>1, <2>1
  <2>2. CASE i # 1
    <3>1. i \in 2..n
      BY <1>1, <2>2
    <3>2. i \div 2 \in 1..n /\ i \div 2 <= j
      BY <1>1, <3>1, Halves
    <3>3. k[1] <= k[i \div 2] /\ k[i \div 2] <= k[i]
      BY <1>2, <3>1, <3>2
    <3>4. k[1] \in Nat /\ k[i] \in Nat /\ k[i \div 2] \in Nat
      BY <1>1, <3>1, <3>2
    <3> QED BY <3>3, <3>4
  <2> QED BY <2>1, <2>2
<1>5. L = Nat
  <2>1. L \in SUBSET Nat
    OBVIOUS
  <2> HIDE DEF L
  <2> QED BY <1>3, <1>4, <2>1, SetInduction
<1>6. ASSUME NEW i \in 1..n PROVE k[1] <= k[i]
  <2>1. i \in L
    <3> HIDE DEF L
    <3> QED BY <1>1, <1>5
  <2> QED BY <2>1, <1>1
<1>7. ASSUME NEW i \in 1..n PROVE key[h[1]] <= key[h[i]]
  <2>1. 1 \in 1..n
    BY <1>1
  <2>2. k[1] = key[h[1]] /\ k[i] = key[h[i]]
    BY <2>1 DEF k
  <2> QED BY <1>6, <2>2
<1> QED BY <1>7 DEF n

(* push adds the element, and keeps the heap: for every key and length.    *)
THEOREM PushProperties ==
    ASSUME NEW S, NEW key \in [S -> Nat], NEW h \in Seq(S), IsHeap(key, h), NEW e \in S
    PROVE  LET r == Push(key, h, e)
           IN  /\ r \in Seq(S) /\ IsHeap(key, r)
               /\ ToSet(r) = ToSet(h) \cup {e}
               /\ IsInjective(h) /\ e \notin ToSet(h) => IsInjective(r)
<1> DEFINE n == Len(h)
           a == Append(h, e)
           r == Push(key, h, e)
<1>1. n \in Nat /\ a \in Seq(S) /\ Len(a) = n + 1 /\ \A i \in 1..n : a[i] = h[i]
  BY LenProperties, AppendProperties
<1>2. AlmostUp(key, a, n + 1)
  <2> SUFFICES ASSUME NEW i \in 2..(n + 1)
               PROVE  /\ i # n + 1 => key[a[i \div 2]] <= key[a[i]]
                      /\ i \div 2 # n + 1
    BY <1>1 DEF AlmostUp
  <2> HIDE DEF n, a
  <2>1. i \in Nat /\ i \div 2 \in 1..(n + 1) /\ i \div 2 # n + 1
    BY <1>1, Halves
  <2>2. ASSUME i # n + 1 PROVE key[a[i \div 2]] <= key[a[i]]
    <3>1. i \in 2..n /\ i \in 1..n /\ i \div 2 \in 1..n
      BY <1>1, <2>2, Halves
    <3>2. a[i] = h[i] /\ a[i \div 2] = h[i \div 2]
      BY <1>1, <3>1
    <3> QED BY <3>1, <3>2 DEF IsHeap, n
  <2> QED BY <2>1, <2>2
<1>3. r = MoveUp(key, a, n + 1) /\ n + 1 \in 1..Len(a)
  BY <1>1 DEF Push
<1>4. Rearranged(S, a, r) /\ IsHeap(key, r)
  <2> HIDE DEF r, a, n
  <2> QED BY <1>1, <1>2, <1>3, MoveUpProperties
<1>5. ToSet(a) = ToSet(h) \cup {e}
  BY ToSetAppend
<1>6. IsInjective(h) /\ e \notin ToSet(h) => IsInjective(a)
  BY InjectiveAppend
<1> QED BY <1>4, <1>5, <1>6 DEF Rearranged

(* pop takes the first element, and keeps the heap: for every key and      *)
(* length.                                                                 *)
THEOREM PopProperties ==
    ASSUME NEW S, NEW key \in [S -> Nat], NEW h \in Seq(S), IsHeap(key, h),
           h # <<>>, IsInjective(h)
    PROVE  LET r == Pop(key, h)
           IN  /\ r \in Seq(S) /\ IsHeap(key, r) /\ IsInjective(r)
               /\ ToSet(r) = ToSet(h) \ {h[1]}
               /\ h[1] \in ToSet(h)
<1> DEFINE n == Len(h)
           t == Swap(h, 1, n)
           u == SubSeq(t, 1, Len(t) - 1)
           r == Pop(key, h)
<1>1. n \in Nat \ {0} /\ DOMAIN h = 1..n
  BY EmptySeq, LenProperties
<1>2. /\ Rearranged(S, h, t) /\ t[n] = h[1]
      /\ \A i \in 1..n : i # 1 /\ i # n => t[i] = h[i]
  <2>1. 1 \in 1..n /\ n \in 1..n
    BY <1>1
  <2> QED BY <2>1, SwapProperties
<1>3. t \in Seq(S) /\ Len(t) = n /\ t # <<>> /\ IsInjective(t) /\ ToSet(t) = ToSet(h)
  BY <1>1, <1>2 DEF Rearranged
<1>4. u = Front(t) /\ Last(t) = h[1]
  BY <1>2, <1>3 DEF Front, Last
<1> HIDE DEF t, u
<1>5. u \in Seq(S) /\ IsInjective(u) /\ ToSet(u) = ToSet(h) \ {h[1]} /\ h[1] \in ToSet(h)
  BY <1>3, <1>4, FrontProperties
<1>6. Len(u) = n - 1 /\ \A i \in 1..(n - 1) : u[i] = t[i]
  <2>1. Len(Front(t)) = Len(t) - 1 /\ \A i \in 1..(Len(t) - 1) : Front(t)[i] = t[i]
    BY <1>1, <1>3 DEF Front
  <2> QED BY <1>3, <1>4, <2>1
<1>7. AlmostDown(key, u, 1)
  <2> SUFFICES ASSUME NEW i \in 2..(n - 1), i \div 2 # 1 PROVE key[u[i \div 2]] <= key[u[i]]
    BY <1>6 DEF AlmostDown
  <2> HIDE DEF n
  <2>1. i \in 1..n /\ i # 1 /\ i # n /\ i \in 1..(n - 1) /\ i \in 2..n
    BY <1>1
  <2>2. i \div 2 \in 1..(n - 1) /\ i \div 2 \in 1..n /\ i \div 2 # n
    BY <1>1, Halves
  <2>3. u[i] = h[i] /\ u[i \div 2] = h[i \div 2]
    BY <1>2, <1>6, <2>1, <2>2
  <2> QED BY <2>1, <2>3 DEF IsHeap, n
<1>8. r = MoveDown(key, u, 1)
  BY DEF Pop, t, u
<1>9. Rearranged(S, u, r) /\ IsHeap(key, r)
  <2> HIDE DEF r
  <2> QED BY <1>5, <1>7, <1>8, MoveDownProperties
<1> QED BY <1>5, <1>9 DEF Rearranged


-----------------------------------------------------------------------------
(* The timer                                                               *)

(* A continuous task is due again after more than no time, so that it was  *)
(* called less often than the time that is over; the numbers that are not  *)
(* given to a task are not called.                                         *)
Bounded ==
    /\ Len(task) <= MaxPosts
    /\ \A i \in DOMAIN task : task[i].continuous =>
          /\ task[i].period > 0
          /\ i \in Range(tasks) => (calls[i] < task[i].when /\ calls[i] <= now)
    /\ \A i \in Ids : i \notin DOMAIN task => calls[i] = 0

(* the inductive invariant                                                 *)
IInv == HeapExact /\ Bounded

Task == [when : 0..Latest, period : Delays, continuous : BOOLEAN, cancel : BOOLEAN]

(* A set of numbers that is bounded has a greatest one.                     *)
LEMMA Maximum ==
    ASSUME NEW b \in Nat, NEW I \in SUBSET (0..b), I # {}
    PROVE  Max(I) \in I /\ \A n \in I : n <= Max(I)
<1> DEFINE J == {b - n : n \in I}
           m == Min(J)
<1>1. J \in SUBSET Nat /\ J # {}
  <2>1. \A n \in I : b - n \in Nat
    OBVIOUS
  <2>2. PICK n \in I : TRUE
    OBVIOUS
  <2>3. b - n \in J
    OBVIOUS
  <2> QED BY <2>1, <2>3
<1>2. m \in J /\ \A j \in J : m <= j
  <2> HIDE DEF J
  <2> QED BY <1>1, Minimum
<1>3. PICK n \in I : m = b - n
  BY <1>2
<1>4. \A k \in I : b - n <= b - k
  BY <1>2, <1>3
<1>5. \A k \in I : n >= k
  <2> SUFFICES ASSUME NEW k \in I PROVE n >= k
    OBVIOUS
  <2>1. n \in Nat /\ k \in Nat /\ b - n <= b - k
    BY <1>4
  <2> QED BY <2>1
<1>6. \E k \in I : \A j \in I : k >= j
  BY <1>5
<1> HIDE DEF J, m
<1>7. Max(I) \in I /\ \A j \in I : Max(I) >= j
  BY <1>6 DEF Max
<1>8. \A j \in I : j \in Nat
  OBVIOUS
<1> QED BY <1>7, <1>8

(* The times at which tasks are due are bounded.                            *)
LEMMA LatestFacts ==
    /\ Latest \in Nat /\ MaxTime <= Latest
    /\ \A d \in Delays : d \in Nat /\ \A t \in 0..MaxTime : t + d \in 0..Latest
<1> DEFINE D == Delays \cup {0}
<1>1. D \in SUBSET (0..MaxTime) /\ D # {} /\ MaxTime \in Nat
  BY TimerAssumption
<1> HIDE DEF D
<1>2. Max(D) \in D /\ \A n \in D : n <= Max(D)
  BY <1>1, Maximum
<1>3. Latest = MaxTime + Max(D)
  BY DEF Latest, D
<1>4. Max(D) \in Nat
  <2> DEFINE x == Max(D)
  <2>1. x \in 0..MaxTime
    BY <1>1, <1>2
  <2> HIDE DEF x
  <2>2. x \in Nat
    BY <2>1
  <2> QED BY <2>2 DEF x
<1>5. Latest \in Nat /\ MaxTime <= Latest
  BY <1>1, <1>3, <1>4
<1>6. ASSUME NEW d \in Delays PROVE d \in Nat /\ \A t \in 0..MaxTime : t + d \in 0..Latest
  <2>1. d \in Nat /\ d <= Max(D)
    BY <1>1, <1>2 DEF D
  <2> QED BY <1>1, <1>3, <1>4, <2>1
<1> QED BY <1>5, <1>6

(* An element of a sequence is replaced.                                    *)
LEMMA Replaced ==
    ASSUME NEW S, NEW s \in Seq(S), NEW i \in 1..Len(s), NEW e \in S
    PROVE  LET t == [s EXCEPT ![i] = e]
           IN  /\ t \in Seq(S) /\ Len(t) = Len(s) /\ t[i] = e
               /\ \A j \in 1..Len(s) : j # i => t[j] = s[j]
BY LenProperties

(* What the type invariant says of the tasks.                              *)
LEMMA TaskFacts ==
    ASSUME TypeOK
    PROVE  /\ Len(task) \in Nat /\ DOMAIN task = 1..Len(task)
           /\ \A i \in DOMAIN task :
                 /\ task[i] \in Task /\ task[i].when \in Nat
                 /\ task[i].period \in Nat /\ task[i].period \in Delays
           /\ When(task) \in [DOMAIN task -> Nat]
           /\ tasks \in Seq(DOMAIN task)
           /\ \A i \in DOMAIN task : When(task)[i] = task[i].when
<1>1. task \in Seq(Task)
  BY DEF TypeOK, Task
<1>2. Len(task) \in Nat /\ DOMAIN task = 1..Len(task) /\ \A i \in DOMAIN task : task[i] \in Task
  BY <1>1, LenProperties
<1>3. \A i \in DOMAIN task : /\ task[i] \in Task /\ task[i].when \in Nat
                             /\ task[i].period \in Nat /\ task[i].period \in Delays
  BY <1>2, LatestFacts DEF Task
<1> QED BY <1>2, <1>3 DEF When, TypeOK

(* Only the keys of the elements of a heap matter.                         *)
LEMMA HeapOfEqualKeys ==
    ASSUME NEW S, NEW h \in Seq(S), NEW key, NEW other,
           \A e \in ToSet(h) : other[e] = key[e], IsHeap(key, h)
    PROVE  IsHeap(other, h)
<1>1. Len(h) \in Nat /\ DOMAIN h = 1..Len(h)
  BY LenProperties
<1>2. ASSUME NEW i \in 2..Len(h) PROVE other[h[i \div 2]] <= other[h[i]]
  <2> DEFINE n == Len(h)
  <2>1. i \in 1..n /\ i \div 2 \in 1..n
    <3>1. n \in Nat /\ i \in 2..n
      BY <1>1
    <3> HIDE DEF n
    <3> QED BY <3>1, Halves
  <2>2. h[i] \in ToSet(h) /\ h[i \div 2] \in ToSet(h)
    BY <1>1, <2>1 DEF ToSet
  <2>3. key[h[i \div 2]] <= key[h[i]]
    BY DEF IsHeap
  <2> QED BY <2>2, <2>3
<1> QED BY <1>2 DEF IsHeap

(* Two names of the set of the elements.                                    *)
LEMMA RangeIsToSet == \A s : Range(s) = ToSet(s)
BY DEF Range, ToSet

(* The first task of the heap, and what is left when it is popped.         *)
LEMMA FirstFacts ==
    ASSUME IInv, tasks # <<>>
    PROVE  LET rest == Pop(When(task), tasks)
           IN  /\ First \in DOMAIN task /\ First \in Range(tasks)
               /\ \A j \in Range(tasks) : task[First].when <= task[j].when
               /\ rest \in Seq(DOMAIN task) /\ IsHeap(When(task), rest) /\ IsInjective(rest)
               /\ Range(rest) = Range(tasks) \ {First}
<1> DEFINE key == When(task)
           S == DOMAIN task
<1>1. TypeOK /\ IsHeap(key, tasks) /\ IsInjective(tasks)
  BY DEF IInv, HeapExact
<1>2. key \in [S -> Nat] /\ tasks \in Seq(S) /\ \A i \in S : key[i] = task[i].when
  BY <1>1, TaskFacts
<1> HIDE DEF key, S
<1>3. DOMAIN tasks = 1..Len(tasks) /\ \A i \in 1..Len(tasks) : tasks[i] \in S
  BY <1>2, LenProperties
<1>4. \A i \in 1..Len(tasks) : key[tasks[1]] <= key[tasks[i]]
  BY <1>1, <1>2, RootIsLeast
<1>5. LET rest == Pop(key, tasks)
      IN  /\ rest \in Seq(S) /\ IsHeap(key, rest) /\ IsInjective(rest)
          /\ ToSet(rest) = ToSet(tasks) \ {tasks[1]} /\ tasks[1] \in ToSet(tasks)
  BY <1>1, <1>2, PopProperties
<1>6. tasks[1] \in S
  BY <1>3, <1>5 DEF ToSet
<1>7. \A j \in ToSet(tasks) : task[tasks[1]].when <= task[j].when
  BY <1>2, <1>3, <1>4, <1>6 DEF ToSet
<1> QED BY <1>5, <1>6, <1>7, RangeIsToSet DEF First, key, S


(* The timer starts with no tasks.                                          *)
LEMMA InitInv == Init => IInv
<1> SUFFICES ASSUME Init PROVE IInv
  OBVIOUS
<1>1. Len(task) = 0 /\ DOMAIN task = {} /\ Len(tasks) = 0 /\ DOMAIN tasks = {}
  BY DEF Init
<1>2. TypeOK
  <2>1. now \in 0..MaxTime /\ \A i \in Ids : calls[i] \in 0..(MaxTime + 2)
    BY TimerAssumption DEF Init
  <2>2. tasks \in Seq(DOMAIN task) /\ task \in Seq(Task)
    BY EmptySequence DEF Init
  <2> QED BY <2>1, <2>2 DEF Init, TypeOK, Task
<1>3. IsHeap(When(task), tasks)
  BY <1>1 DEF IsHeap
<1>4. IsInjective(tasks)
  BY <1>1 DEF IsInjective
<1>5. HeapExact
  BY <1>1, <1>2, <1>3, <1>4 DEF HeapExact
<1>6. Bounded
  BY <1>1, TimerAssumption DEF Bounded, Init
<1> QED BY <1>5, <1>6 DEF IInv

Killing == at \in {"kill", "killfunc", "ended"}

(* The steps that leave the tasks and the heap alone: what they may change *)
(* keeps its type, and the timer that is killed stays so.                  *)
LEMMA TasksUnchanged ==
    ASSUME IInv, UNCHANGED <<tasks, task, calls>>,
           now' \in 0..MaxTime, now <= now',
           at' \in {"run", "wait", "events", "next", "func", "kill", "killfunc", "ended"},
           cur' \in IF at' \in {"func", "killfunc"} THEN DOMAIN task ELSE {NONE},
           until' \in 0..Latest \cup {NONE},
           Killing => Killing'
    PROVE  IInv'
<1>1. TypeOK'
  BY DEF IInv, HeapExact, TypeOK
<1>2. IsHeap(When(task), tasks)' /\ IsInjective(tasks)'
  BY DEF IInv, HeapExact, IsHeap, When
<1>3. HeapExact'
  <2>1. \A i \in DOMAIN task :
           IF task[i].continuous
           THEN \/ i \in Range(tasks)
                \/ calls[i] > 0 /\ (task[i].cancel \/ Killing)
           ELSE i \in Range(tasks) <=> calls[i] = 0
    BY DEF IInv, HeapExact, Killing
  <2>2. \A i \in DOMAIN task :
           IF task[i].continuous
           THEN \/ i \in Range(tasks)
                \/ calls[i] > 0 /\ (task[i].cancel \/ Killing')
           ELSE i \in Range(tasks) <=> calls[i] = 0
    BY <2>1
  <2> QED BY <1>1, <1>2, <2>2 DEF HeapExact, Killing
<1>4. Bounded'
  <2>1. ASSUME NEW i \in DOMAIN task, task[i].continuous, i \in Range(tasks)
        PROVE  calls[i] < task[i].when /\ calls[i] <= now'
    <3>1. DOMAIN task \subseteq Ids
      BY TaskFacts, TimerAssumption DEF IInv, HeapExact, Bounded, Ids
    <3>2. calls[i] < task[i].when /\ calls[i] <= now /\ calls[i] \in Nat /\ now \in Nat
      BY <2>1, <3>1, TimerAssumption DEF IInv, HeapExact, TypeOK, Bounded
    <3> QED BY <3>2
  <2> QED BY <2>1 DEF IInv, Bounded
<1> QED BY <1>3, <1>4 DEF IInv

(* A task is cancelled: its time does not change, so the heap is one still. *)
LEMMA CancelInv == ASSUME IInv, NEW i \in DOMAIN task, Cancel(i) PROVE IInv'
<1>1. TypeOK /\ IsHeap(When(task), tasks) /\ IsInjective(tasks) /\ Bounded
  BY DEF IInv, HeapExact
<1>2. /\ Len(task) \in Nat /\ DOMAIN task = 1..Len(task) /\ task \in Seq(Task)
      /\ \A j \in DOMAIN task : task[j] \in Task
      /\ tasks \in Seq(DOMAIN task)
  BY <1>1, TaskFacts DEF TypeOK, Task
<1>3. /\ task' = [task EXCEPT ![i] = [task[i] EXCEPT !.cancel = TRUE]]
      /\ UNCHANGED <<now, tasks, at, cur, until, calls>>
  BY DEF Cancel
<1>4. [task[i] EXCEPT !.cancel = TRUE] \in Task
  BY <1>2 DEF Task
<1>5. /\ task' \in Seq(Task) /\ Len(task') = Len(task)
      /\ task'[i] = [task[i] EXCEPT !.cancel = TRUE]
      /\ \A j \in 1..Len(task) : j # i => task'[j] = task[j]
  BY <1>2, <1>3, <1>4, Replaced
<1>6. DOMAIN task' = DOMAIN task
  BY <1>2, <1>5, LenProperties
<1>7. \A j \in DOMAIN task : /\ task'[j].when = task[j].when
                             /\ task'[j].period = task[j].period
                             /\ task'[j].continuous = task[j].continuous
                             /\ task[j].cancel => task'[j].cancel
  <2> SUFFICES ASSUME NEW j \in DOMAIN task
               PROVE  /\ task'[j].when = task[j].when
                      /\ task'[j].period = task[j].period
                      /\ task'[j].continuous = task[j].continuous
                      /\ task[j].cancel => task'[j].cancel
    OBVIOUS
  <2>1. CASE j = i
    BY <1>2, <1>5, <2>1 DEF Task
  <2>2. CASE j # i
    BY <1>2, <1>5, <2>2
  <2> QED BY <2>1, <2>2
<1>8. TypeOK'
  BY <1>1, <1>3, <1>5, <1>6 DEF TypeOK, Task
<1>9. IsHeap(When(task'), tasks)
  <2>1. \A j \in DOMAIN task : When(task')[j] = When(task)[j]
    BY <1>6, <1>7 DEF When
  <2>2. ToSet(tasks) \subseteq DOMAIN task
    BY <1>2, LenProperties DEF ToSet
  <2> QED BY <1>1, <1>2, <2>1, <2>2, HeapOfEqualKeys
<1>10. HeapExact'
  <2>1. \A j \in DOMAIN task :
           IF task'[j].continuous
           THEN \/ j \in Range(tasks)
                \/ calls[j] > 0 /\ (task'[j].cancel \/ Killing)
           ELSE j \in Range(tasks) <=> calls[j] = 0
    BY <1>7 DEF IInv, HeapExact, Killing
  <2> QED BY <1>1, <1>3, <1>6, <1>8, <1>9, <2>1 DEF HeapExact, Killing
<1>11. Bounded'
  BY <1>1, <1>3, <1>5, <1>6, <1>7 DEF Bounded
<1> QED BY <1>10, <1>11 DEF IInv


(* A task is posted: it has not been called, and waits.                     *)
LEMMA PostInv ==
    ASSUME IInv, NEW d \in Delays, NEW continuous \in BOOLEAN, Post(d, continuous)
    PROVE  IInv'
<1> DEFINE i == Len(task) + 1
           new == [when |-> now + d, period |-> d, continuous |-> continuous, cancel |-> FALSE]
           tk == Append(task, new)
<1>1. TypeOK /\ IsHeap(When(task), tasks) /\ IsInjective(tasks) /\ Bounded
  BY DEF IInv, HeapExact
<1>2. /\ Len(task) \in Nat /\ DOMAIN task = 1..Len(task) /\ task \in Seq(Task)
      /\ tasks \in Seq(DOMAIN task)
      /\ \A j \in DOMAIN task : task[j].when \in Nat
  BY <1>1, TaskFacts DEF TypeOK, Task
<1>3. /\ i \in Ids /\ now + d <= MaxTime /\ (continuous => d > 0)
      /\ task' = tk /\ tasks' = Push(When(tk), tasks, i)
      /\ UNCHANGED <<now, at, cur, until, calls>> /\ Running
  BY DEF Post
<1>4. new \in Task /\ d \in Nat /\ now \in 0..MaxTime /\ now + d \in Nat
  <2>1. now \in 0..MaxTime /\ d \in Nat
    BY <1>1, LatestFacts DEF TypeOK
  <2>2. now + d \in 0..Latest
    BY <2>1, LatestFacts
  <2>3. now + d \in Nat
    BY <2>1, TimerAssumption
  <2> QED BY <2>1, <2>2, <2>3 DEF Task
<1>5. /\ tk \in Seq(Task) /\ Len(tk) = i /\ tk[i] = new
      /\ \A j \in 1..Len(task) : tk[j] = task[j]
  <2> HIDE DEF new
  <2> QED BY <1>2, <1>4, AppendProperties
<1>6. /\ DOMAIN tk = 1..i /\ DOMAIN tk = DOMAIN task \cup {i} /\ i \notin DOMAIN task
      /\ DOMAIN task \subseteq DOMAIN tk /\ i \in DOMAIN tk
  <2>1. DOMAIN tk = 1..i
    BY <1>5, LenProperties
  <2> QED BY <1>2, <2>1
<1>7. /\ When(tk) \in [DOMAIN tk -> Nat]
      /\ \A j \in DOMAIN task : When(tk)[j] = When(task)[j]
  <2>1. \A j \in DOMAIN tk : tk[j].when \in Nat
    <3>1. tk[i].when \in Nat
      BY <1>4, <1>5
    <3>2. \A j \in DOMAIN task : tk[j].when \in Nat
      BY <1>2, <1>5
    <3> HIDE DEF tk, i
    <3> QED BY <1>6, <3>1, <3>2
  <2>2. \A j \in DOMAIN task : tk[j].when = task[j].when
    BY <1>2, <1>5
  <2> HIDE DEF tk, i
  <2> QED BY <1>6, <2>1, <2>2 DEF When
<1>8. ToSet(tasks) \subseteq DOMAIN task /\ i \notin ToSet(tasks)
  BY <1>2, <1>6, LenProperties DEF ToSet
<1>9. tasks \in Seq(DOMAIN tk)
  <2> HIDE DEF tk
  <2> QED BY <1>2, <1>6, LenProperties
<1> HIDE DEF tk, i
<1>10. IsHeap(When(tk), tasks)
  <2>1. \A j \in ToSet(tasks) : When(tk)[j] = When(task)[j]
    BY <1>7, <1>8
  <2> QED BY <1>1, <1>9, <2>1, HeapOfEqualKeys
<1>11. /\ tasks' \in Seq(DOMAIN tk) /\ IsHeap(When(tk), tasks')
       /\ Range(tasks') = Range(tasks) \cup {i} /\ IsInjective(tasks')
  <2> DEFINE S == DOMAIN tk
             key == When(tk)
  <2>1. /\ key \in [S -> Nat] /\ tasks \in Seq(S) /\ IsHeap(key, tasks) /\ i \in S
        /\ tasks' = Push(key, tasks, i) /\ IsInjective(tasks) /\ i \notin ToSet(tasks)
    BY <1>1, <1>3, <1>6, <1>7, <1>8, <1>9, <1>10
  <2> HIDE DEF S, key
  <2>2. /\ tasks' \in Seq(S) /\ IsHeap(key, tasks')
        /\ ToSet(tasks') = ToSet(tasks) \cup {i} /\ IsInjective(tasks')
    BY <2>1, PushProperties
  <2> QED BY <2>2, RangeIsToSet DEF S, key
<1>12. TypeOK'
  <2>1. cur' \in IF at' \in {"func", "killfunc"} THEN DOMAIN task' ELSE {NONE}
    BY <1>1, <1>3, <1>6 DEF TypeOK
  <2> QED BY <1>1, <1>3, <1>5, <1>11, <2>1 DEF TypeOK, Task
<1>13. calls[i] = 0 /\ i \in Ids
  BY <1>1, <1>3, <1>6 DEF Bounded
<1>14. HeapExact'
  <2>1. ASSUME NEW j \in DOMAIN tk
        PROVE  IF tk[j].continuous
               THEN \/ j \in Range(tasks')
                    \/ calls[j] > 0 /\ (tk[j].cancel \/ Killing)
               ELSE j \in Range(tasks') <=> calls[j] = 0
    <3>1. CASE j = i
      BY <1>11, <1>13, <3>1
    <3>2. CASE j # i
      <4>1. j \in DOMAIN task /\ tk[j] = task[j] /\ (j \in Range(tasks') <=> j \in Range(tasks))
        BY <1>2, <1>5, <1>6, <1>11, <3>2
      <4> QED BY <4>1 DEF IInv, HeapExact, Killing
    <3> QED BY <3>1, <3>2
  <2> QED BY <1>3, <1>11, <1>12, <2>1 DEF HeapExact, Killing
<1>15. Bounded'
  <2>1. Len(tk) <= MaxPosts
    BY <1>3, <1>5, TimerAssumption DEF Ids
  <2>2. ASSUME NEW j \in DOMAIN tk, tk[j].continuous
        PROVE  /\ tk[j].period > 0
               /\ j \in Range(tasks') => (calls[j] < tk[j].when /\ calls[j] <= now)
    <3>1. CASE j = i
      <4>1. tk[i].continuous = continuous /\ tk[i].period = d /\ tk[i].when = now + d
        BY <1>5
      <4> QED BY <1>3, <1>4, <1>13, <2>2, <3>1, <4>1
    <3>2. CASE j # i
      <4>1. j \in DOMAIN task /\ tk[j] = task[j] /\ (j \in Range(tasks') <=> j \in Range(tasks))
        BY <1>2, <1>5, <1>6, <1>11, <3>2
      <4> QED BY <1>1, <2>2, <4>1 DEF Bounded
    <3> QED BY <3>1, <3>2
  <2>3. \A j \in Ids : j \notin DOMAIN tk => calls[j] = 0
    BY <1>1, <1>6 DEF Bounded
  <2> QED BY <1>3, <2>1, <2>2, <2>3 DEF Bounded
<1> QED BY <1>14, <1>15 DEF IInv

(* A task of the heap is called: what is counted keeps its bound.          *)
LEMMA CallFacts ==
    ASSUME IInv, tasks # <<>>, NEW where, Call(First, where)
    PROVE  /\ cur' = First /\ at' = where
           /\ First \in Ids /\ calls[First] \in Nat
           /\ calls' \in [Ids -> 0..(MaxTime + 2)]
           /\ calls'[First] = calls[First] + 1
           /\ \A i \in Ids : i # First => calls'[i] = calls[i]
           /\ DOMAIN task \subseteq Ids
<1>1. First \in DOMAIN task /\ First \in Range(tasks)
  BY FirstFacts
<1>2. TypeOK /\ Bounded
  BY DEF IInv, HeapExact
<1>3. DOMAIN task \subseteq Ids
  BY <1>2, TaskFacts, TimerAssumption DEF Bounded, Ids
<1>4. First \in Ids /\ calls \in [Ids -> 0..(MaxTime + 2)] /\ calls[First] \in Nat
  BY <1>1, <1>2, <1>3, TimerAssumption DEF TypeOK
<1>5. calls[First] <= MaxTime
  <2>1. CASE task[First].continuous
    <3>1. calls[First] <= now /\ now \in 0..MaxTime
      BY <1>1, <1>2, <2>1 DEF Bounded, TypeOK
    <3> QED BY <1>4, <3>1, TimerAssumption
  <2>2. CASE ~task[First].continuous
    <3>1. calls[First] = 0
      BY <1>1, <2>2 DEF IInv, HeapExact
    <3> QED BY <3>1, TimerAssumption
  <2> QED BY <2>1, <2>2
<1> HIDE DEF First
<1>6. calls[First] + 1 \in 0..(MaxTime + 2)
  BY <1>4, <1>5, TimerAssumption
<1>7. cur' = First /\ at' = where /\ calls' = [calls EXCEPT ![First] = @ + 1]
  BY DEF Call
<1> QED BY <1>3, <1>4, <1>6, <1>7


(* A task that does not wait again is popped and called.                   *)
LEMMA PopInv ==
    ASSUME IInv, tasks # <<>>, NEW where \in {"func", "killfunc"}, Call(First, where),
           tasks' = Pop(When(task), tasks), UNCHANGED <<task, now, until>>,
           task[First].continuous => task[First].cancel \/ where = "killfunc",
           Killing => where = "killfunc"
    PROVE  IInv'
<1> DEFINE f == First
<1>1. TypeOK /\ Bounded
  BY DEF IInv, HeapExact
<1>2. /\ f \in DOMAIN task /\ f \in Range(tasks)
      /\ tasks' \in Seq(DOMAIN task) /\ IsHeap(When(task), tasks') /\ IsInjective(tasks')
      /\ Range(tasks') = Range(tasks) \ {f}
  BY FirstFacts
<1>3. /\ cur' = f /\ at' = where /\ calls[f] \in Nat
      /\ calls' \in [Ids -> 0..(MaxTime + 2)] /\ calls'[f] = calls[f] + 1
      /\ \A i \in Ids : i # f => calls'[i] = calls[i]
      /\ DOMAIN task \subseteq Ids
  BY CallFacts
<1> HIDE DEF f
<1>4. TypeOK'
  BY <1>1, <1>2, <1>3 DEF TypeOK
<1>5. HeapExact'
  <2>1. ASSUME NEW j \in DOMAIN task
        PROVE  IF task[j].continuous
               THEN \/ j \in Range(tasks')
                    \/ calls'[j] > 0 /\ (task[j].cancel \/ Killing')
               ELSE j \in Range(tasks') <=> calls'[j] = 0
    <3>1. CASE j = f
      <4>1. calls'[j] > 0 /\ j \notin Range(tasks')
        BY <1>2, <1>3, <3>1
      <4>2. task[j].continuous => task[j].cancel \/ Killing'
        BY <1>3, <3>1 DEF f, Killing
      <4> QED BY <4>1, <4>2
    <3>2. CASE j # f
      <4>1. calls'[j] = calls[j] /\ (j \in Range(tasks') <=> j \in Range(tasks))
        BY <1>2, <1>3, <3>2
      <4>2. Killing => Killing'
        BY <1>3 DEF Killing
      <4>3. IF task[j].continuous
            THEN \/ j \in Range(tasks)
                 \/ calls[j] > 0 /\ (task[j].cancel \/ Killing)
            ELSE j \in Range(tasks) <=> calls[j] = 0
        BY DEF IInv, HeapExact, Killing
      <4> QED BY <4>1, <4>2, <4>3
    <3> QED BY <3>1, <3>2
  <2> QED BY <1>2, <1>4, <2>1 DEF HeapExact, Killing
<1>6. Bounded'
  <2>1. ASSUME NEW j \in DOMAIN task, task[j].continuous, j \in Range(tasks')
        PROVE  calls'[j] < task[j].when /\ calls'[j] <= now
    <3>1. j # f /\ j \in Range(tasks) /\ calls'[j] = calls[j]
      BY <1>2, <1>3, <2>1
    <3> QED BY <1>1, <2>1, <3>1 DEF Bounded
  <2>2. \A j \in Ids : j \notin DOMAIN task => calls'[j] = 0
    BY <1>1, <1>2, <1>3 DEF Bounded
  <2> QED BY <1>1, <2>1, <2>2 DEF Bounded
<1> QED BY <1>5, <1>6 DEF IInv

(* A continuous task is popped, called, and waits again.                   *)
LEMMA PopAgainInv ==
    ASSUME IInv, NextTask, task[First].continuous, ~task[First].cancel
    PROVE  IInv'
<1> DEFINE f == First
           t == now + task[f].period
           tk == [task EXCEPT ![f] = [task[f] EXCEPT !.when = t]]
           rest == Pop(When(task), tasks)
<1>1. TypeOK /\ Bounded
  BY DEF IInv, HeapExact
<1>2. /\ tasks # <<>> /\ IsDue(f) /\ Call(f, "func") /\ at = "next" /\ UNCHANGED <<now, until>>
      /\ task' = tk /\ tasks' = Push(When(tk), rest, f)
  BY DEF NextTask, PopNext
<1>3. /\ f \in DOMAIN task /\ f \in Range(tasks)
      /\ rest \in Seq(DOMAIN task) /\ IsHeap(When(task), rest) /\ IsInjective(rest)
      /\ Range(rest) = Range(tasks) \ {f}
  BY <1>2, FirstFacts
<1>4. /\ cur' = f /\ at' = "func" /\ calls[f] \in Nat
      /\ calls' \in [Ids -> 0..(MaxTime + 2)] /\ calls'[f] = calls[f] + 1
      /\ \A i \in Ids : i # f => calls'[i] = calls[i]
      /\ DOMAIN task \subseteq Ids
  BY <1>2, CallFacts
<1>5. /\ Len(task) \in Nat /\ DOMAIN task = 1..Len(task) /\ task \in Seq(Task)
      /\ \A j \in DOMAIN task : /\ task[j] \in Task /\ task[j].when \in Nat
                                /\ task[j].period \in Nat /\ task[j].period \in Delays
  BY <1>1, TaskFacts DEF TypeOK, Task
<1>6. task[f].continuous /\ ~task[f].cancel
  OBVIOUS
<1> HIDE DEF f, rest
<1>7. /\ now \in 0..MaxTime /\ now \in Nat /\ t \in 0..Latest /\ t \in Nat
      /\ task[f].period > 0 /\ task[f].when \in Nat /\ task[f].when <= now
  <2>1. now \in 0..MaxTime /\ now \in Nat
    BY <1>1, TimerAssumption DEF TypeOK
  <2>2. t \in 0..Latest
    BY <1>3, <1>5, <2>1, LatestFacts
  <2>3. t \in Nat
    BY <1>3, <1>5, <2>1
  <2>4. task[f].when <= now
    BY <1>2, <1>6 DEF IsDue
  <2>5. task[f].period > 0
    BY <1>1, <1>3, <1>6 DEF Bounded
  <2> QED BY <1>3, <1>5, <2>1, <2>2, <2>3, <2>4, <2>5
<1> HIDE DEF t
<1>8. [task[f] EXCEPT !.when = t] \in Task
  BY <1>3, <1>5, <1>7 DEF Task
<1>9. /\ tk \in Seq(Task) /\ Len(tk) = Len(task)
      /\ tk[f] = [task[f] EXCEPT !.when = t]
      /\ \A j \in 1..Len(task) : j # f => tk[j] = task[j]
  BY <1>3, <1>5, <1>8, Replaced
<1> HIDE DEF tk
<1>10. DOMAIN tk = DOMAIN task /\ \A j \in DOMAIN task : j # f => tk[j] = task[j]
  BY <1>5, <1>9, LenProperties
<1>11. /\ tk[f].when = t /\ tk[f].continuous /\ tk[f].period = task[f].period
       /\ tk[f].cancel = task[f].cancel
  BY <1>3, <1>5, <1>6, <1>9 DEF Task
<1>12. When(tk) \in [DOMAIN task -> Nat]
  <2>1. \A j \in DOMAIN task : tk[j].when \in Nat
    BY <1>5, <1>7, <1>10, <1>11
  <2> QED BY <1>10, <2>1 DEF When
<1>13. IsHeap(When(tk), rest)
  <2>1. \A j \in ToSet(rest) : j \in DOMAIN task /\ j # f
    BY <1>3, RangeIsToSet, LenProperties DEF ToSet
  <2>2. \A j \in ToSet(rest) : When(tk)[j] = When(task)[j]
    BY <1>10, <2>1 DEF When
  <2> QED BY <1>3, <2>2, HeapOfEqualKeys
<1>14. /\ tasks' \in Seq(DOMAIN task) /\ IsHeap(When(tk), tasks')
       /\ Range(tasks') = Range(tasks) /\ IsInjective(tasks')
  <2> DEFINE S == DOMAIN task
             key == When(tk)
  <2>1. /\ key \in [S -> Nat] /\ rest \in Seq(S) /\ IsHeap(key, rest) /\ f \in S
        /\ tasks' = Push(key, rest, f) /\ IsInjective(rest) /\ f \notin ToSet(rest)
    BY <1>2, <1>3, <1>12, <1>13, RangeIsToSet
  <2> HIDE DEF S, key
  <2>2. /\ tasks' \in Seq(S) /\ IsHeap(key, tasks')
        /\ ToSet(tasks') = ToSet(rest) \cup {f} /\ IsInjective(tasks')
    BY <2>1, PushProperties
  <2>3. Range(tasks') = Range(tasks)
    BY <1>3, <2>2, RangeIsToSet
  <2> QED BY <2>2, <2>3 DEF S, key
<1>15. TypeOK'
  BY <1>1, <1>2, <1>3, <1>4, <1>9, <1>10, <1>14 DEF TypeOK, Task
<1>16. HeapExact'
  <2>1. ASSUME NEW j \in DOMAIN task
        PROVE  IF tk[j].continuous
               THEN \/ j \in Range(tasks')
                    \/ calls'[j] > 0 /\ (tk[j].cancel \/ Killing')
               ELSE j \in Range(tasks') <=> calls'[j] = 0
    <3>1. CASE j = f
      BY <1>3, <1>11, <1>14, <3>1
    <3>2. CASE j # f
      <4>1. calls'[j] = calls[j] /\ tk[j] = task[j] /\ ~Killing
        BY <1>2, <1>4, <1>10, <3>2 DEF Killing
      <4>2. IF task[j].continuous
            THEN \/ j \in Range(tasks)
                 \/ calls[j] > 0 /\ (task[j].cancel \/ Killing)
            ELSE j \in Range(tasks) <=> calls[j] = 0
        BY DEF IInv, HeapExact, Killing
      <4> QED BY <1>14, <4>1, <4>2
    <3> QED BY <3>1, <3>2
  <2> QED BY <1>2, <1>10, <1>14, <1>15, <2>1 DEF HeapExact, Killing
<1>17. Bounded'
  <2>1. ASSUME NEW j \in DOMAIN task, tk[j].continuous
        PROVE  /\ tk[j].period > 0
               /\ j \in Range(tasks') => (calls'[j] < tk[j].when /\ calls'[j] <= now)
    <3>1. CASE j = f
      <4>1. calls[f] < task[f].when
        BY <1>1, <1>3, <1>6 DEF Bounded
      <4>2. calls[f] + 1 <= now /\ calls[f] + 1 < t
        BY <1>3, <1>4, <1>5, <1>7, <4>1 DEF t
      <4> QED BY <1>4, <1>7, <1>11, <3>1, <4>2
    <3>2. CASE j # f
      <4>1. calls'[j] = calls[j] /\ tk[j] = task[j]
        BY <1>4, <1>10, <3>2
      <4> QED BY <1>1, <1>14, <2>1, <4>1 DEF Bounded
    <3> QED BY <3>1, <3>2
  <2>2. \A j \in Ids : j \notin DOMAIN task => calls'[j] = 0
    BY <1>1, <1>3, <1>4 DEF Bounded
  <2> QED BY <1>1, <1>2, <1>9, <1>10, <2>1, <2>2 DEF Bounded
<1> QED BY <1>16, <1>17 DEF IInv

(* Every step of the timer keeps the invariant.                             *)
LEMMA NextInv == IInv /\ [Next]_vars => IInv'
<1> SUFFICES ASSUME IInv, [Next]_vars PROVE IInv'
  OBVIOUS
<1>1. TypeOK
  BY DEF IInv, HeapExact
<1>2. now \in Nat /\ now \in 0..MaxTime /\ MaxTime \in Nat
  BY <1>1, TimerAssumption DEF TypeOK
<1>3. ASSUME NEW d \in Delays, NEW c \in BOOLEAN, Post(d, c) PROVE IInv'
  BY <1>3, PostInv
<1>4. ASSUME NEW i \in DOMAIN task, Cancel(i) PROVE IInv'
  BY <1>4, CancelInv
<1>5. CASE Delay
  <2>1. until' \in 0..Latest \cup {NONE}
    <3>1. now \in 0..Latest
      BY <1>2, LatestFacts
    <3>2. tasks # <<>> => task[First].when \in 0..Latest
      BY <1>1, FirstFacts, TaskFacts DEF Task
    <3> QED BY <1>5, <3>1, <3>2 DEF Delay
  <2> QED BY <1>1, <1>2, <1>5, <2>1, TasksUnchanged DEF Delay, TypeOK, Killing
<1>6. CASE Leave
  BY <1>1, <1>2, <1>6, TasksUnchanged DEF Leave, TypeOK, Killing
<1>7. ASSUME NEW ok \in BOOLEAN, FuncReturn(ok) PROVE IInv'
  BY <1>1, <1>2, <1>7, TasksUnchanged DEF FuncReturn, TypeOK, Killing
<1>8. CASE Wake
  BY <1>1, <1>2, <1>8, TasksUnchanged DEF Wake, TypeOK, Killing
<1>9. CASE Spank
  BY <1>1, <1>2, <1>9, TasksUnchanged DEF Spank, TypeOK, Killing
<1>10. CASE NextTask
  <2>1. CASE task[First].continuous /\ ~task[First].cancel
    BY <1>10, <2>1, PopAgainInv
  <2>2. CASE ~(task[First].continuous /\ ~task[First].cancel)
    <3>1. /\ tasks # <<>> /\ Call(First, "func") /\ tasks' = Pop(When(task), tasks)
          /\ UNCHANGED <<task, now, until>> /\ ~Killing
      BY <1>10, <2>2 DEF NextTask, PopNext, Killing
    <3>2. task[First].continuous => task[First].cancel
      BY <2>2
    <3> QED BY <3>1, <3>2, PopInv
  <2> QED BY <2>1, <2>2
<1>11. CASE NextReturn
  BY <1>1, <1>2, <1>11, TasksUnchanged DEF NextReturn, TypeOK, Killing
<1>12. CASE KillTask
  BY <1>12, PopInv DEF KillTask
<1>13. CASE KillFuncReturn
  BY <1>1, <1>2, <1>13, TasksUnchanged DEF KillFuncReturn, TypeOK, Killing
<1>14. CASE KillReturn
  BY <1>1, <1>2, <1>14, TasksUnchanged DEF KillReturn, TypeOK, Killing
<1>15. CASE Tick
  BY <1>1, <1>2, <1>15, TasksUnchanged DEF Tick, TypeOK, Killing
<1>16. CASE Ended \/ UNCHANGED vars
  BY <1>1, <1>2, <1>16, TasksUnchanged DEF Ended, vars, TypeOK, Killing
<1> QED BY <1>3, <1>4, <1>5, <1>6, <1>7, <1>8, <1>9, <1>10, <1>11, <1>12, <1>13, <1>14,
          <1>15, <1>16 DEF Next, Loop

(* No task is lost and none is called twice: timer:post, timer:next and     *)
(* timer:kill keep the tasks a heap in which every task waits, once, until it*)
(* is called.                                                               *)
THEOREM HeapExactHolds == Spec => []HeapExact
<1>1. IInv => HeapExact
  BY DEF IInv
<1> QED BY InitInv, NextInv, <1>1, PTL DEF Spec

(* The body of OnTime                                                      *)
OnTimeStep ==
    /\ \A i \in DOMAIN task : calls'[i] > calls[i] =>
          \A j \in Range(tasks) : task[i].when <= task[j].when
    /\ at = "next" /\ at' = "run" =>
          \A i \in Range(tasks) : task[i].when > now
    /\ at = "run" /\ at' = "wait" =>
          \A i \in Range(tasks) :
              until' # NONE /\ (until' <= task[i].when \/ until' = now)

(* Every step is on time.                                                   *)
LEMMA StepOnTime == IInv /\ [Next]_vars => [OnTimeStep]_vars
<1> SUFFICES ASSUME IInv, Next PROVE OnTimeStep
  BY DEF vars
<1>1. TypeOK
  BY DEF IInv, HeapExact
<1>2. /\ now \in Nat /\ NONE \notin Nat /\ DOMAIN task \subseteq Ids
      /\ \A i \in Ids : calls[i] \in Nat
  <2>1. DOMAIN task \subseteq Ids
    BY <1>1, TaskFacts, TimerAssumption DEF IInv, Bounded, Ids
  <2> QED BY <1>1, <2>1, TimerAssumption DEF TypeOK
<1>3. \A i \in Range(tasks) : i \in DOMAIN task /\ task[i].when \in Nat
  <2>1. \A i \in ToSet(tasks) : i \in DOMAIN task
    BY <1>1, TaskFacts, LenProperties DEF ToSet
  <2> QED BY <1>1, <2>1, TaskFacts, RangeIsToSet
<1>4. tasks = <<>> => Range(tasks) = {}
  BY EmptySequence, RangeIsToSet
<1>5. tasks # <<>> => /\ First \in Range(tasks)
                      /\ \A j \in Range(tasks) : task[First].when <= task[j].when
  BY FirstFacts
<1>6. ASSUME UNCHANGED calls, ~(at = "next" /\ at' = "run"), ~(at = "run" /\ at' = "wait")
      PROVE  OnTimeStep
  BY <1>2, <1>6 DEF OnTimeStep
<1>7. ASSUME tasks # <<>>, NEW where \in {"func", "killfunc"}, Call(First, where)
      PROVE  OnTimeStep
  <2>1. at' = where /\ \A i \in Ids : i # First => calls'[i] = calls[i]
    BY <1>7, CallFacts
  <2>2. ASSUME NEW i \in DOMAIN task, calls'[i] > calls[i] PROVE i = First
    BY <1>2, <2>1, <2>2
  <2> QED BY <1>5, <1>7, <2>1, <2>2 DEF OnTimeStep
<1>8. CASE Delay
  <2>1. UNCHANGED calls /\ at' = "wait"
    BY <1>8 DEF Delay
  <2>2. ASSUME NEW i \in Range(tasks)
        PROVE  until' # NONE /\ (until' <= task[i].when \/ until' = now)
    <3>1. tasks # <<>> /\ task[First].when <= task[i].when /\ task[First].when \in Nat
      BY <1>3, <1>4, <1>5
    <3>2. until' = IF task[First].when > now THEN task[First].when ELSE now
      BY <1>8, <3>1 DEF Delay
    <3> QED BY <1>2, <3>1, <3>2
  <2> QED BY <1>2, <2>1, <2>2 DEF OnTimeStep
<1>9. CASE NextReturn
  <2>1. UNCHANGED calls /\ at' = "run"
    BY <1>9 DEF NextReturn
  <2>2. ASSUME NEW i \in Range(tasks) PROVE task[i].when > now
    <3>1. tasks # <<>> /\ task[First].when <= task[i].when /\ task[First].when \in Nat
      BY <1>3, <1>4, <1>5
    <3>2. ~(task[First].when <= now)
      BY <1>9, <3>1 DEF NextReturn, IsDue
    <3> QED BY <1>2, <1>3, <3>1, <3>2
  <2>3. at = "next"
    BY <1>9 DEF NextReturn
  <2> QED BY <1>2, <2>1, <2>2, <2>3 DEF OnTimeStep
<1>10. CASE NextTask
  BY <1>7, <1>10 DEF NextTask
<1>11. CASE KillTask
  BY <1>7, <1>11 DEF KillTask
<1>12. ASSUME NEW d \in Delays, NEW c \in BOOLEAN, Post(d, c) PROVE OnTimeStep
  BY <1>6, <1>12 DEF Post
<1>13. ASSUME NEW i \in DOMAIN task, Cancel(i) PROVE OnTimeStep
  BY <1>6, <1>13 DEF Cancel
<1>14. ASSUME NEW ok \in BOOLEAN, FuncReturn(ok) PROVE OnTimeStep
  BY <1>6, <1>14 DEF FuncReturn
<1>15. CASE Leave \/ Wake \/ Spank \/ KillFuncReturn \/ KillReturn \/ Tick \/ Ended
  BY <1>6, <1>15 DEF Leave, Wake, Spank, KillFuncReturn, KillReturn, Tick, Ended, vars
<1> QED BY <1>8, <1>9, <1>10, <1>11, <1>12, <1>13, <1>14, <1>15 DEF Next, Loop

(* timer:next and timer:kill call the task that is due first, timer:next does*)
(* not come back while a task is due, and the run loop does not sleep longer*)
(* than until the first task is due.                                        *)
THEOREM OnTimeHolds == Spec => OnTime
<1>1. OnTime <=> [][OnTimeStep]_vars
  BY DEF OnTime, OnTimeStep
<1> QED BY InitInv, NextInv, StepOnTime, <1>1, PTL DEF Spec
================================================================================
