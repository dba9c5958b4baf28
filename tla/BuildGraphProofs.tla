--------------------------- MODULE BuildGraphProofs ---------------------------
(***************************************************************************)
(* Proofs about the graph of jobs of a build, for any number of targets.   *)
(***************************************************************************)
EXTENDS BuildGraph, SequenceFacts, FiniteSetTheorems, TLAPS

-----------------------------------------------------------------------------
(* step says how f[n + 1] depends on n and on f[n].                        *)
IsStep(step, S) == step \in [Nat -> [S -> S]]
IsRecursion(f, x, step, S) ==
    /\ f \in [Nat -> S]
    /\ f[0] = x
    /\ \A n \in Nat : f[n + 1] = step[n][f[n]]

(* A function on Nat that is defined by recursion exists: the functions on *)
(* 0..n that obey the recursion agree, and there is one for each n.        *)
LEMMA Recursion ==
    ASSUME NEW S, NEW x \in S, NEW step, IsStep(step, S)
    PROVE  \E f : IsRecursion(f, x, step, S)
<1> step \in [Nat -> [S -> S]]
  BY DEF IsStep
<1> DEFINE Obeys(g, n) == /\ g \in [0..n -> S]
                          /\ g[0] = x
                          /\ \A k \in 1..n : g[k] = step[k - 1][g[k - 1]]
           G(n) == CHOOSE g : Obeys(g, n)
           f == [n \in Nat |-> G(n)[n]]
<1>1. ASSUME NEW n \in Nat PROVE \E g : Obeys(g, n)
  <2> DEFINE L == {m \in Nat : \E g : Obeys(g, m)}
  <2>1. 0 \in L
    <3>1. Obeys([i \in 0..0 |-> x], 0)
      OBVIOUS
    <3> QED BY <3>1
  <2>2. ASSUME NEW m \in L PROVE m + 1 \in L
    <3>1. PICK g : Obeys(g, m)
      OBVIOUS
    <3> DEFINE h == [i \in 0..(m + 1) |-> IF i = m + 1 THEN step[m][g[m]] ELSE g[i]]
    <3>2. m \in Nat /\ m + 1 \in Nat /\ g[m] \in S
      BY <3>1
    <3>3. \A i \in 0..(m + 1) : i # m + 1 => i \in 0..m
      BY <3>2
    <3>4. h \in [0..(m + 1) -> S]
      BY <3>1, <3>2, <3>3
    <3>5. h[0] = x
      BY <3>1, <3>2
    <3>6. ASSUME NEW k \in 1..(m + 1) PROVE h[k] = step[k - 1][h[k - 1]]
      <4>1. k - 1 \in 0..m /\ k - 1 # m + 1 /\ h[k - 1] = g[k - 1]
        BY <3>2
      <4>2. CASE k = m + 1
        <5>1. k - 1 = m /\ h[m] = g[m] /\ h[k] = step[m][g[m]]
          BY <3>2, <4>1, <4>2
        <5> QED BY <5>1
      <4>3. CASE k # m + 1
        <5>1. k \in 1..m /\ h[k] = g[k]
          BY <3>2, <4>3
        <5> QED BY <3>1, <4>1, <5>1
      <4> QED BY <4>2, <4>3
    <3>7. Obeys(h, m + 1)
      BY <3>4, <3>5, <3>6
    <3> QED BY <3>2, <3>7
  <2>3. L = Nat
    <3>1. L \in SUBSET Nat
      OBVIOUS
    <3> HIDE DEF L
    <3> QED BY <2>1, <2>2, <3>1, SetInduction
  <2> QED BY <2>3
<1>2. ASSUME NEW n \in Nat PROVE Obeys(G(n), n)
  BY <1>1
<1>3. ASSUME NEW n \in Nat PROVE G(n + 1)[n] = G(n)[n]
  <2> DEFINE L == {k \in Nat : k <= n => G(n + 1)[k] = G(n)[k]}
  <2>1. Obeys(G(n), n) /\ Obeys(G(n + 1), n + 1)
    <3>1. n + 1 \in Nat
      OBVIOUS
    <3> HIDE DEF Obeys, G
    <3> QED BY <1>2, <3>1
  <2> HIDE DEF G
  <2>2. 0 \in L
    BY <2>1
  <2>3. ASSUME NEW k \in L PROVE k + 1 \in L
    <3> SUFFICES ASSUME k + 1 <= n PROVE G(n + 1)[k + 1] = G(n)[k + 1]
      OBVIOUS
    <3>1. k + 1 \in 1..n /\ k + 1 \in 1..(n + 1) /\ (k + 1) - 1 = k /\ k <= n
      OBVIOUS
    <3>2. G(n + 1)[k] = G(n)[k]
      BY <3>1
    <3> QED BY <2>1, <3>1, <3>2
  <2>4. L = Nat
    <3>1. L \in SUBSET Nat
      OBVIOUS
    <3> HIDE DEF L
    <3> QED BY <2>2, <2>3, <3>1, SetInduction
  <2> QED BY <2>4
<1>4. ASSUME NEW n \in Nat PROVE f[n] \in S
  <2>1. Obeys(G(n), n)
    <3> HIDE DEF Obeys, G
    <3> QED BY <1>2
  <2> HIDE DEF G
  <2> QED BY <2>1
<1>5. f[0] = x
  <2>1. Obeys(G(0), 0)
    <3> HIDE DEF Obeys, G
    <3> QED BY <1>2
  <2> HIDE DEF G
  <2> QED BY <2>1
<1>6. ASSUME NEW n \in Nat PROVE f[n + 1] = step[n][f[n]]
  <2>1. n + 1 \in Nat /\ n + 1 \in 1..(n + 1) /\ (n + 1) - 1 = n
    OBVIOUS
  <2>2. Obeys(G(n + 1), n + 1)
    <3> HIDE DEF Obeys, G
    <3> QED BY <1>2, <2>1
  <2> HIDE DEF G
  <2>3. G(n + 1)[n + 1] = step[n][G(n + 1)[n]]
    BY <2>1, <2>2
  <2> QED BY <1>3, <2>1, <2>3
<1> HIDE DEF G
<1>7. IsRecursion(f, x, step, S)
  BY <1>4, <1>5, <1>6 DEF IsRecursion
<1> QED BY <1>7

-----------------------------------------------------------------------------
(* What the three recursive functions of the model compute.                *)

(* The elements of a set in an order of all targets.                       *)
LEMMA InOrderProperties ==
    ASSUME NEW order \in [1..N -> Targets], NEW S \in SUBSET Targets,
           \A t \in Targets : \E i \in 1..N : order[i] = t
    PROVE  /\ InOrder(order, S) \in Seq(S)
           /\ \A t \in S : \E i \in 1..Len(InOrder(order, S)) : InOrder(order, S)[i] = t
<1>0. N \in Nat
  BY BuildGraphAssumption
<1> USE <1>0
<1> DEFINE add(l, e) == IF e \in S THEN Append(l, e) ELSE l
           step == [k \in Nat |-> [l \in Seq(S) |-> add(l, order[k + 1])]]
<1>1. <<>> \in Seq(S) /\ step \in [Nat -> [Seq(S) -> Seq(S)]]
  OBVIOUS
<1>2. \A k \in Nat, l \in Seq(S) : step[k][l] = add(l, order[k + 1])
  OBVIOUS
<1> HIDE DEF step
<1>3. PICK f \in [Nat -> Seq(S)] :
         f[0] = <<>> /\ \A n \in Nat : f[n + 1] = step[n][f[n]]
  <2> DEFINE T == Seq(S)
             empty == <<>>
  <2>1. empty \in T /\ IsStep(step, T)
    BY <1>1 DEF IsStep
  <2>2. \E f : IsRecursion(f, empty, step, T)
    <3> HIDE DEF T, empty
    <3> QED BY <2>1, Recursion
  <2> QED BY <2>2 DEF IsRecursion
<1>4. f[0] = <<>> /\ \A n \in Nat : f[n] \in Seq(S)
  BY <1>3
<1>5. ASSUME NEW n \in 1..N PROVE f[n] = add(f[n - 1], order[n])
  <2>1. n - 1 \in Nat /\ (n - 1) + 1 = n
    OBVIOUS
  <2>2. f[(n - 1) + 1] = step[n - 1][f[n - 1]]
    BY <1>3, <2>1
  <2>3. step[n - 1][f[n - 1]] = add(f[n - 1], order[(n - 1) + 1])
    <3> HIDE DEF add
    <3> QED BY <1>2, <1>4, <2>1
  <2> QED BY <2>1, <2>2, <2>3
<1> DEFINE list == CHOOSE l : l = [i \in 0..N |->
                       IF i = 0 THEN <<>>
                       ELSE IF order[i] \in S THEN Append(l[i - 1], order[i]) ELSE l[i - 1]]
           g == [i \in 0..N |-> f[i]]
<1>6. g = [i \in 0..N |->
             IF i = 0 THEN <<>>
             ELSE IF order[i] \in S THEN Append(g[i - 1], order[i]) ELSE g[i - 1]]
  <2> SUFFICES ASSUME NEW i \in 0..N
               PROVE  g[i] = IF i = 0 THEN <<>>
                             ELSE IF order[i] \in S THEN Append(g[i - 1], order[i])
                                  ELSE g[i - 1]
    OBVIOUS
  <2>1. i # 0 => i - 1 \in 0..N /\ i \in 1..N
    OBVIOUS
  <2> QED BY <1>4, <1>5, <2>1
<1>7. list = [i \in 0..N |->
                IF i = 0 THEN <<>>
                ELSE IF order[i] \in S THEN Append(list[i - 1], order[i]) ELSE list[i - 1]]
  <2> HIDE DEF g
  <2> QED BY <1>6
<1>8. InOrder(order, S) = list[N]
  BY DEF InOrder
<1>9. list[0] = <<>>
  <2>1. 0 \in 0..N
    OBVIOUS
  <2> HIDE DEF list
  <2> QED BY <1>7, <2>1
<1>10. ASSUME NEW i \in 0..(N - 1)
       PROVE  list[i + 1] = add(list[i], order[i + 1])
  <2>1. i + 1 \in 0..N /\ i + 1 # 0 /\ (i + 1) - 1 = i
    OBVIOUS
  <2> HIDE DEF list
  <2> QED BY <1>7, <2>1
<1> HIDE DEF list
<1> DEFINE Holds(i) == /\ list[i] \in Seq(S)
                       /\ \A j \in 1..i : order[j] \in S =>
                             \E k \in 1..Len(list[i]) : list[i][k] = order[j]
           L == {i \in Nat : i <= N => Holds(i)}
<1>11. 0 \in L
  <2>1. \A j \in 1..0 : FALSE
    OBVIOUS
  <2>2. Holds(0)
    BY <1>9, <2>1
  <2> HIDE DEF Holds
  <2> QED BY <2>2
<1>12. ASSUME NEW i \in L PROVE i + 1 \in L
  <2> SUFFICES ASSUME i + 1 <= N PROVE Holds(i + 1)
    OBVIOUS
  <2>1. i \in 0..(N - 1) /\ i \in Nat /\ i + 1 \in 1..N
    OBVIOUS
  <2>9. Holds(i)
    BY <2>1
  <2> DEFINE l == list[i]
             e == order[i + 1]
             m == list[i + 1]
  <2>2. m = add(l, e)
    BY <1>10, <2>1
  <2>3. l \in Seq(S) /\ Len(l) \in Nat
    <3>1. l \in Seq(S)
      BY <2>9
    <3> HIDE DEF l
    <3> QED BY <3>1
  <2>4. \A j \in 1..i : order[j] \in S => \E k \in 1..Len(l) : l[k] = order[j]
    BY <2>9
  <2>5. e \in Targets
    BY <2>1
  <2>6. \A j \in 1..(i + 1) : j \in 1..i \/ j = i + 1
    BY <2>1
  <2> HIDE DEF l, m
  <2>7. m \in Seq(S)
    BY <2>2, <2>3
  <2>8. ASSUME NEW j \in 1..(i + 1), order[j] \in S
        PROVE  \E k \in 1..Len(m) : m[k] = order[j]
    <3>1. CASE e \notin S
      <4>1. j \in 1..i /\ m = l
        BY <2>2, <2>6, <2>8, <3>1
      <4> QED BY <2>4, <2>8, <4>1
    <3>2. CASE e \in S
      <4>1. m = Append(l, e)
        BY <2>2, <3>2
      <4>2. Len(m) = Len(l) + 1 /\ m[Len(l) + 1] = e /\ \A k \in 1..Len(l) : m[k] = l[k]
        BY <2>3, <3>2, <4>1
      <4>3. CASE j = i + 1
        <5>1. Len(l) + 1 \in 1..Len(m) /\ m[Len(l) + 1] = order[j]
          BY <2>3, <4>2, <4>3
        <5> QED BY <5>1
      <4>4. CASE j \in 1..i
        <5>1. PICK k \in 1..Len(l) : l[k] = order[j]
          BY <2>4, <2>8, <4>4
        <5>2. k \in 1..Len(m) /\ m[k] = order[j]
          BY <2>3, <4>2, <5>1
        <5> QED BY <5>2
      <4> QED BY <2>6, <4>3, <4>4
    <3> QED BY <3>1, <3>2
  <2> QED BY <2>7, <2>8 DEF m
<1>13. L = Nat
  <2>1. L \in SUBSET Nat
    OBVIOUS
  <2> HIDE DEF L
  <2> QED BY <1>11, <1>12, <2>1, SetInduction
<1>14. Holds(N)
  <2> HIDE DEF Holds
  <2>1. N \in L
    BY <1>13
  <2> QED BY <2>1
<1>15. list[N] \in Seq(S)
  BY <1>14
<1>16. ASSUME NEW t \in S PROVE \E i \in 1..Len(list[N]) : list[N][i] = t
  <2>1. PICK j \in 1..N : order[j] = t
    OBVIOUS
  <2> QED BY <1>14, <2>1
<1> QED BY <1>8, <1>15, <1>16

(* What is reached from a target, when direct goes to smaller targets, is  *)
(* smaller: a fixed point is found after N rounds.                         *)
LEMMA ReachedBelow ==
    ASSUME NEW direct \in [Targets -> SUBSET Targets],
           \A t \in Targets : direct[t] \subseteq 1..(t - 1)
    PROVE  \A t \in Targets : Reached(direct)[t] \subseteq 1..(t - 1)
<1>0. N \in Nat /\ Targets = 1..N
  BY BuildGraphAssumption DEF Targets
<1> DEFINE B == {g \in [0..N -> SUBSET Targets] : \A u \in 0..N : g[u] \subseteq 1..(u - 1)}
           round(g) == [u \in 0..N |-> IF u = 0 THEN {}
                                       ELSE direct[u] \cup UNION {g[d] : d \in direct[u]}]
           step == [k \in Nat |-> [g \in B |-> round(g)]]
           x == [u \in 0..N |-> {}]
<1>1. ASSUME NEW t \in Targets, NEW d \in direct[t]
      PROVE  t \in 0..N /\ t # 0 /\ d \in 0..N /\ d \in Targets /\ d < t
  BY <1>0
<1>2. x \in B
  BY <1>0
<1>3. ASSUME NEW g \in B PROVE round(g) \in B
  <2>1. ASSUME NEW u \in 0..N
        PROVE  round(g)[u] \subseteq Targets /\ round(g)[u] \subseteq 1..(u - 1)
    <3>1. CASE u = 0
      BY <3>1
    <3>2. CASE u # 0
      <4>1. u \in Targets
        BY <1>0, <3>2
      <4>2. ASSUME NEW d \in direct[u] PROVE g[d] \subseteq Targets /\ g[d] \subseteq 1..(u - 1)
        <5>1. d \in 0..N /\ d < u
          BY <1>1, <4>1
        <5>2. g[d] \subseteq Targets /\ g[d] \subseteq 1..(d - 1)
          BY <1>3, <5>1
        <5> QED BY <1>0, <5>1, <5>2
      <4>3. direct[u] \subseteq Targets /\ direct[u] \subseteq 1..(u - 1)
        BY <4>1
      <4>4. round(g)[u] = direct[u] \cup UNION {g[d] : d \in direct[u]}
        BY <3>2
      <4> HIDE DEF round
      <4> QED BY <4>2, <4>3, <4>4
    <3> QED BY <3>1, <3>2
  <2> QED BY <2>1
<1>4. IsStep(step, B)
  BY <1>3 DEF IsStep
<1>5. PICK f : IsRecursion(f, x, step, B)
  <2> HIDE DEF x, step, B
  <2> QED BY <1>2, <1>4, Recursion
<1>6. f[0] = x /\ \A k \in Nat : f[k] \in B /\ f[k + 1] = round(f[k])
  <2>1. f[0] = x /\ \A k \in Nat : f[k] \in B /\ f[k + 1] = step[k][f[k]]
    <3> HIDE DEF x, step, B
    <3> QED BY <1>5 DEF IsRecursion
  <2>2. \A k \in Nat, g \in B : step[k][g] = round(g)
    <3> HIDE DEF B, round
    <3> QED OBVIOUS
  <2> HIDE DEF x, step, B, round
  <2> QED BY <2>1, <2>2
<1> DEFINE Settled(k) == \A u \in 0..N : u <= k => f[k + 1][u] = f[k][u]
           L == {k \in Nat : Settled(k)}
<1>7. 0 \in L
  <2>1. f[0 + 1] = round(f[0])
    BY <1>6
  <2>2. f[0 + 1][0] = f[0][0]
    BY <1>0, <1>6, <2>1
  <2>3. \A u \in 0..N : u <= 0 => u = 0
    BY <1>0
  <2> QED BY <2>2, <2>3
<1>8. ASSUME NEW k \in L PROVE k + 1 \in L
  <2>1. k \in Nat /\ k + 1 \in Nat
    OBVIOUS
  <2> SUFFICES ASSUME NEW u \in 0..N, u <= k + 1
               PROVE  f[(k + 1) + 1][u] = f[k + 1][u]
    BY <2>1
  <2>2. f[(k + 1) + 1] = round(f[k + 1]) /\ f[k + 1] = round(f[k])
    BY <1>6, <2>1
  <2>3. CASE u = 0
    BY <2>2, <2>3
  <2>4. CASE u # 0
    <3>1. u \in Targets
      BY <1>0, <2>4
    <3>2. \A d \in direct[u] : f[k + 1][d] = f[k][d]
      BY <1>0, <1>1, <2>1, <3>1
    <3>3. {f[k + 1][d] : d \in direct[u]} = {f[k][d] : d \in direct[u]}
      BY <3>2
    <3>4. round(f[k + 1])[u] = direct[u] \cup UNION {f[k + 1][d] : d \in direct[u]}
      BY <2>4
    <3>5. round(f[k])[u] = direct[u] \cup UNION {f[k][d] : d \in direct[u]}
      BY <2>4
    <3> HIDE DEF round
    <3> QED BY <2>2, <3>3, <3>4, <3>5
  <2> QED BY <2>3, <2>4
<1>9. N \in L
  <2>1. L \in SUBSET Nat
    OBVIOUS
  <2> HIDE DEF L
  <2>2. L = Nat
    BY <1>7, <1>8, <2>1, SetInduction
  <2> QED BY <1>0, <2>2
<1>10. f[N] = round(f[N])
  <2>1. \A u \in 0..N : f[N + 1][u] = f[N][u]
    BY <1>0, <1>9
  <2>2. f[N] \in B /\ f[N + 1] \in B /\ f[N + 1] = round(f[N])
    <3>1. N + 1 \in Nat
      BY <1>0
    <3> HIDE DEF B, round
    <3> QED BY <1>0, <1>6, <3>1
  <2>3. f[N + 1] = f[N]
    <3>1. \A g \in B : g \in [0..N -> SUBSET Targets]
      OBVIOUS
    <3>2. f[N] \in [0..N -> SUBSET Targets] /\ f[N + 1] \in [0..N -> SUBSET Targets]
      <4> HIDE DEF B, round
      <4> QED BY <2>2, <3>1
    <3> DEFINE g == f[N]
               h == f[N + 1]
               D == 0..N
    <3>3. g \in [D -> SUBSET Targets] /\ h \in [D -> SUBSET Targets] /\ \A u \in D : h[u] = g[u]
      BY <2>1, <3>2
    <3>4. h = g
      <4> HIDE DEF g, h, D
      <4> QED BY <3>3
    <3> QED BY <3>4
  <2> QED BY <2>2, <2>3
<1> DEFINE all == CHOOSE a : a = [u \in 0..N |->
                      IF u = 0 THEN {} ELSE direct[u] \cup UNION {a[d] : d \in direct[u]}]
<1>11. all = round(all)
  BY <1>10
<1>12. Reached(direct) = all
  BY DEF Reached
<1> HIDE DEF all
<1>13. ASSUME NEW t \in Targets PROVE all[t] \subseteq 1..(t - 1)
  <2> DEFINE M == {k \in Nat : \A u \in 0..N : u <= k => all[u] \subseteq 1..(u - 1)}
  <2>1. 0 \in M
    <3>1. all[0] = {}
      BY <1>0, <1>11
    <3>2. \A u \in 0..N : u <= 0 => u = 0
      BY <1>0
    <3> QED BY <3>1, <3>2
  <2>2. ASSUME NEW k \in M PROVE k + 1 \in M
    <3> SUFFICES ASSUME NEW u \in 0..N, u <= k + 1 PROVE all[u] \subseteq 1..(u - 1)
      OBVIOUS
    <3>1. CASE u <= k
      BY <3>1
    <3>2. CASE ~(u <= k)
      <4>1. k \in Nat /\ u = k + 1 /\ u \in Targets /\ u # 0
        BY <1>0, <3>2
      <4>2. all[u] = direct[u] \cup UNION {all[d] : d \in direct[u]}
        BY <1>11, <4>1
      <4>3. ASSUME NEW d \in direct[u] PROVE all[d] \subseteq 1..(u - 1)
        <5>1. d \in 0..N /\ d <= k /\ d < u
          BY <1>0, <1>1, <4>1
        <5>2. all[d] \subseteq 1..(d - 1)
          BY <5>1
        <5> QED BY <1>0, <5>1, <5>2
      <4>4. direct[u] \subseteq 1..(u - 1)
        BY <4>1
      <4> QED BY <4>2, <4>3, <4>4
    <3> QED BY <3>1, <3>2
  <2>3. M = Nat
    <3>1. M \in SUBSET Nat
      OBVIOUS
    <3> HIDE DEF M
    <3> QED BY <2>1, <2>2, <3>1, SetInduction
  <2>4. N \in M
    BY <1>0, <2>3
  <2> QED BY <1>0, <2>4
<1> QED BY <1>12, <1>13

(* WaitsFor(n), in a finite graph, is the least set that holds what n      *)
(* depends on and all that its members depend on: every round that is not  *)
(* the last adds a job, so there are no more rounds than jobs.             *)
Closed(C) == \A m \in C : deps[m] \subseteq C

LEMMA WaitsForProperties ==
    ASSUME IsFiniteSet(DOMAIN deps), \A m \in DOMAIN deps : deps[m] \subseteq DOMAIN deps,
           NEW n \in DOMAIN deps
    PROVE  /\ WaitsFor(n) \subseteq DOMAIN deps
           /\ deps[n] \subseteq WaitsFor(n)
           /\ Closed(WaitsFor(n))
           /\ \A C : deps[n] \subseteq C /\ Closed(C) => WaitsFor(n) \subseteq C
<1> DEFINE D == DOMAIN deps
           more(R) == R \cup UNION {deps[m] : m \in R}
           step == [k \in Nat |-> [R \in SUBSET D |-> more(R)]]
           x == deps[n]
           T == SUBSET D
           c == Cardinality(D)
<1>1. ASSUME NEW R \in T PROVE more(R) \in T
  BY <1>1
<1>2. x \in T /\ IsStep(step, T)
  BY <1>1 DEF IsStep
<1>3. PICK f : IsRecursion(f, x, step, T)
  <2> HIDE DEF x, step, T
  <2> QED BY <1>2, Recursion
<1>4. f[0] = x /\ \A k \in Nat : f[k] \in T /\ f[k + 1] = more(f[k])
  <2>1. f[0] = x /\ \A k \in Nat : f[k] \in T /\ f[k + 1] = step[k][f[k]]
    <3> HIDE DEF x, step, T
    <3> QED BY <1>3 DEF IsRecursion
  <2>2. \A k \in Nat, R \in T : step[k][R] = more(R)
    <3> HIDE DEF more
    <3> QED OBVIOUS
  <2> HIDE DEF x, step, T, more
  <2> QED BY <2>1, <2>2
<1> DEFINE reach == CHOOSE r : r = [k \in Nat |->
                        IF k = 0 THEN deps[n]
                        ELSE r[k - 1] \cup UNION {deps[m] : m \in r[k - 1]}]
<1>5. reach = [k \in Nat |-> IF k = 0 THEN deps[n]
                             ELSE reach[k - 1] \cup UNION {deps[m] : m \in reach[k - 1]}]
  <2>1. f \in [Nat -> T]
    <3> HIDE DEF x, step, T
    <3> QED BY <1>3 DEF IsRecursion
  <2>2. ASSUME NEW k \in Nat
        PROVE  f[k] = IF k = 0 THEN deps[n]
                      ELSE f[k - 1] \cup UNION {deps[m] : m \in f[k - 1]}
    <3>1. CASE k = 0
      BY <1>4, <3>1
    <3>2. CASE k # 0
      <4>1. k - 1 \in Nat /\ (k - 1) + 1 = k
        BY <3>2
      <4>2. f[(k - 1) + 1] = more(f[k - 1])
        <5> HIDE DEF more
        <5> QED BY <1>4, <4>1
      <4> QED BY <3>2, <4>1, <4>2
    <3> QED BY <3>1, <3>2
  <2>3. f = [k \in Nat |-> IF k = 0 THEN deps[n]
                           ELSE f[k - 1] \cup UNION {deps[m] : m \in f[k - 1]}]
    BY <2>1, <2>2
  <2> QED BY <2>3
<1>6. WaitsFor(n) = reach[c]
  BY DEF WaitsFor
<1> HIDE DEF reach
<1>7. reach[0] = x
  BY <1>5
<1>8. ASSUME NEW k \in Nat PROVE reach[k + 1] = more(reach[k])
  <2>1. k + 1 \in Nat /\ k + 1 # 0 /\ (k + 1) - 1 = k
    OBVIOUS
  <2> QED BY <1>5, <2>1
<1>9. c \in Nat
  BY FS_CardinalityType
<1> HIDE DEF more, c
<1>10. ASSUME NEW k \in Nat PROVE reach[k] \in T /\ x \subseteq reach[k]
  <2> DEFINE L == {j \in Nat : reach[j] \in T /\ x \subseteq reach[j]}
  <2>1. 0 \in L
    BY <1>2, <1>7
  <2>2. ASSUME NEW j \in L PROVE j + 1 \in L
    <3>1. reach[j + 1] = more(reach[j]) /\ j + 1 \in Nat /\ reach[j] \in T /\ x \subseteq reach[j]
      BY <1>8
    <3>2. more(reach[j]) \in T
      BY <1>1, <3>1
    <3>3. reach[j] \subseteq more(reach[j])
      BY DEF more
    <3> QED BY <3>1, <3>2, <3>3
  <2>3. L = Nat
    <3>1. L \in SUBSET Nat
      OBVIOUS
    <3> HIDE DEF L
    <3> QED BY <2>1, <2>2, <3>1, SetInduction
  <2> QED BY <2>3
<1>11. ASSUME NEW C, x \subseteq C, Closed(C), NEW k \in Nat PROVE reach[k] \subseteq C
  <2> DEFINE L == {j \in Nat : reach[j] \subseteq C}
  <2>1. 0 \in L
    BY <1>7, <1>11
  <2>2. ASSUME NEW j \in L PROVE j + 1 \in L
    <3>1. reach[j + 1] = more(reach[j]) /\ j + 1 \in Nat /\ reach[j] \subseteq C
      BY <1>8
    <3>2. more(reach[j]) \subseteq C
      BY <1>11, <3>1 DEF more, Closed
    <3> QED BY <3>1, <3>2
  <2>3. L = Nat
    <3>1. L \in SUBSET Nat
      OBVIOUS
    <3> HIDE DEF L
    <3> QED BY <2>1, <2>2, <3>1, SetInduction
  <2> QED BY <2>3
<1>12. \A R \in T : IsFiniteSet(R) /\ Cardinality(R) \in Nat /\ Cardinality(R) <= c
                    /\ (Cardinality(R) = c => R = D)
  BY FS_Subset, FS_CardinalityType DEF c
<1>13. \A R, Q \in T : R \subseteq Q /\ R # Q => Cardinality(R) < Cardinality(Q)
  BY <1>12, FS_Subset
<1> DEFINE Full(k) == more(reach[k]) = reach[k] \/ Cardinality(reach[k]) >= k
           L == {k \in Nat : Full(k)}
<1>14. 0 \in L
  BY <1>2, <1>7, <1>12
<1>15. ASSUME NEW k \in L PROVE k + 1 \in L
  <2>1. k \in Nat /\ k + 1 \in Nat /\ reach[k + 1] = more(reach[k])
    BY <1>8
  <2>2. CASE more(reach[k]) = reach[k]
    BY <2>1, <2>2
  <2>3. CASE more(reach[k]) # reach[k]
    <3>1. Cardinality(reach[k]) >= k
      BY <2>3
    <3>2. reach[k] \in T /\ more(reach[k]) \in T /\ reach[k] \subseteq more(reach[k])
      BY <1>1, <1>10, <2>1 DEF more
    <3>3. Cardinality(reach[k]) < Cardinality(more(reach[k]))
      BY <1>13, <2>3, <3>2
    <3>4. Cardinality(reach[k]) \in Nat /\ Cardinality(more(reach[k])) \in Nat
      BY <1>12, <3>2
    <3>5. Cardinality(more(reach[k])) >= k + 1
      BY <2>1, <3>1, <3>3, <3>4
    <3> QED BY <2>1, <3>5
  <2> QED BY <2>2, <2>3
<1>16. Full(c)
  <2>1. L \in SUBSET Nat
    OBVIOUS
  <2> HIDE DEF L
  <2>2. L = Nat
    BY <1>14, <1>15, <2>1, SetInduction
  <2>3. c \in L
    BY <1>9, <2>2
  <2> QED BY <2>3 DEF L
<1>17. Closed(reach[c])
  <2>1. CASE more(reach[c]) = reach[c]
    BY <2>1 DEF more, Closed
  <2>2. CASE Cardinality(reach[c]) >= c
    <3>1. reach[c] \in T
      BY <1>9, <1>10
    <3>2. reach[c] = D
      BY <1>9, <1>12, <2>2, <3>1
    <3> QED BY <3>2 DEF Closed
  <2> QED BY <1>16, <2>1, <2>2
<1>18. reach[c] \subseteq D /\ x \subseteq reach[c]
  BY <1>9, <1>10
<1> QED BY <1>6, <1>9, <1>11, <1>17, <1>18

-----------------------------------------------------------------------------
(* The inductive invariant.                                                *)

(* the jobs of a target                                                    *)
Inner(t) == {Before(t)} \cup
            (IF conf.kind[t] = "phony" THEN {}
             ELSE {File(t, i) : i \in 1..conf.layers[t]}
                  \cup {Group(t, i) : i \in 1..conf.layers[t]})
Jobs(t) == Inner(t) \cup {After(t)} \cup (IF conf.kind[t] = "phony" THEN {} ELSE {Link(t)})

(* the order of the jobs, which all edges descend: by the target first,    *)
(* then along the chain of the target                                      *)
Level(n) ==
    IF n[2] = "after_build" THEN 0
    ELSE IF n[2] = "link" THEN 1
    ELSE IF n[2] = "file" THEN 2 * n[3]
    ELSE IF n[2] = "group" THEN 2 * n[3] + 1
    ELSE 2 * conf.layers[n[1]] + 2
Below(n, m) == m[1] < n[1] \/ (m[1] = n[1] /\ Level(n) < Level(m))

(* what is known of the project: it does not change                        *)
ConfOK ==
    /\ conf.deps \in [Targets -> SUBSET Targets]
    /\ \A t \in Targets : conf.deps[t] \subseteq 1..(t - 1)
    /\ conf.order \in [1..N -> Targets]
    /\ \A t \in Targets : \E i \in 1..N : conf.order[i] = t
    /\ conf.layers \in [Targets -> Nat]

(* The jobs are those of the targets that were added, every edge descends, *)
(* the chains are there and each hangs under the root or under the first   *)
(* job of a target that depends on it.                                     *)
GraphOK ==
    /\ after_build \subseteq {t \in Targets : conf.enabled[t]}
    /\ DOMAIN deps = {Root} \cup UNION {Jobs(t) : t \in after_build}
    /\ \A n \in DOMAIN deps : \A m \in deps[n] :
          m \in DOMAIN deps \ {Root} /\ (n # Root => Below(n, m))
    /\ \A t \in after_build : \A e \in Chain(t) : e[2] \in deps[e[1]]
    /\ \A t \in after_build :
          After(t) \in deps[Root] \/ \E u \in after_build : t < u /\ After(t) \in deps[Before(u)]

(* Where the walk will hang what it has still to visit.                    *)
TodoOK ==
    /\ todo \in Seq(Targets \X ({Root} \cup {Before(u) : u \in Targets}))
    /\ \A i \in 1..Len(todo) :
          todo[i][2] = Root \/ \E u \in after_build : todo[i][1] < u /\ todo[i][2] = Before(u)
    /\ phase # "walk" => todo = <<>>

(* A dependency that is not built in parallel hangs under the first job of *)
(* the target, or will: it is still to be visited from there.              *)
SerialOK ==
    \A t \in after_build : \A d \in conf.deps[t] :
        ~conf.parallel[d] /\ conf.enabled[d] =>
            \/ After(d) \in deps[Before(t)]
            \/ \E i \in 1..Len(todo) : todo[i] = <<d, Before(t)>>

(* What the passes have added so far.                                      *)
PhaseOK ==
    /\ phase \in {"walk", "nonobject", "object", "fence", "done"}
    /\ pos \in Targets
    /\ phase = "walk" => pos = 1
NonObjectOK ==
    \A t \in after_build :
        (phase \in {"object", "fence", "done"} \/ (phase = "nonobject" /\ t < pos)) /\ NonObject(t) =>
            \A d \in OrderDeps(t) \cap after_build : After(d) \in deps[BuildRoot(t)]
ObjectOK ==
    \A t \in after_build :
        (phase \in {"fence", "done"} \/ (phase = "object" /\ t < pos)) /\ conf.kind[t] = "object" =>
            \A d \in InheritDeps(t) \cap after_build :
                NonObject(d) => BuildRoot(d) \in deps[BuildRoot(t)]
FenceOK ==
    \A t \in after_build :
        (phase = "done" \/ (phase = "fence" /\ t < pos)) =>
            \A d \in OrderDeps(t) \cap after_build :
                conf.fence[d] => After(d) \in deps[Before(t)]

(* Without the policies everything hangs under the root, and below the     *)
(* link job of a target there are only jobs of its own.                    *)
InnerOK ==
    (\A t \in Targets : conf.parallel[t] /\ ~conf.fence[t]) =>
        /\ \A i \in 1..Len(todo) : todo[i][2] = Root
        /\ \A t \in after_build : \A n \in Inner(t) : deps[n] \subseteq Inner(t)

Inv ==
    /\ ConfOK
    /\ GraphOK
    /\ TodoOK
    /\ SerialOK
    /\ PhaseOK
    /\ NonObjectOK
    /\ ObjectOK
    /\ FenceOK
    /\ InnerOK

-----------------------------------------------------------------------------
(* The jobs and the chain of a target.                                     *)
LEMMA TargetsAreNumbers == N \in Nat /\ Targets = 1..N /\ \A t \in Targets : t \in Nat
BY BuildGraphAssumption DEF Targets

LEMMA JobShape ==
    ASSUME ConfOK, NEW t \in Targets, NEW n \in Jobs(t)
    PROVE  n[1] = t /\ n # Root /\ Level(n) \in Nat
<1>1. conf.layers[t] \in Nat /\ t \in 1..N
  BY TargetsAreNumbers DEF ConfOK
<1> DEFINE Kinds == {"after_build", "link", "file", "group", "before_build"}
<1>2. n \in (1..N) \X Kinds \X Nat /\ n[1] = t
  <2>1. CASE n = Before(t)
    BY <1>1, <2>1 DEF Before
  <2>2. CASE n = After(t)
    BY <1>1, <2>2 DEF After
  <2>3. CASE n = Link(t)
    BY <1>1, <2>3 DEF Link
  <2>4. ASSUME NEW i \in 1..conf.layers[t], n = File(t, i) \/ n = Group(t, i)
        PROVE  n \in (1..N) \X Kinds \X Nat /\ n[1] = t
    BY <1>1, <2>4 DEF File, Group
  <2>5. \/ n = Before(t) \/ n = After(t) \/ n = Link(t)
        \/ \E i \in 1..conf.layers[t] : n = File(t, i) \/ n = Group(t, i)
    BY DEF Jobs, Inner
  <2> QED BY <2>1, <2>2, <2>3, <2>4, <2>5
<1>3. n # Root
  BY <1>2, BuildGraphAssumption
<1>4. n[3] \in Nat
  BY <1>2
<1>5. Level(n) \in Nat
  BY <1>1, <1>2, <1>4 DEF Level
<1> QED BY <1>2, <1>3, <1>5

LEMMA ChainShape ==
    ASSUME ConfOK, NEW t \in Targets, NEW e \in Chain(t)
    PROVE  /\ e = <<e[1], e[2]>>
           /\ e[1] \in Jobs(t) /\ e[2] \in Jobs(t)
           /\ Below(e[1], e[2])
           /\ e[1] \in Inner(t) => e[2] \in Inner(t)
<1>1. conf.layers[t] \in Nat
  BY DEF ConfOK
<1> DEFINE L == conf.layers[t]
<1>2. CASE conf.kind[t] = "phony"
  <2>1. e = <<After(t), Before(t)>>
    BY <1>2 DEF Chain
  <2> QED BY <1>1, <2>1 DEF Jobs, Inner, Below, Level, After, Before
<1>3. CASE conf.kind[t] # "phony"
  <2>1. CASE e = <<After(t), Link(t)>>
    BY <1>1, <1>3, <2>1 DEF Jobs, Inner, Below, Level, After, Link, Before, File, Group
  <2>2. CASE e = <<ObjectsJob(t), Before(t)>>
    <3>1. CASE L = 0
      BY <1>1, <1>3, <2>2, <3>1
         DEF ObjectsJob, Jobs, Inner, Below, Level, After, Link, Before, File, Group
    <3>2. CASE L # 0
      <4>1. L \in 1..L /\ e = <<Group(t, L), Before(t)>>
        BY <1>1, <2>2, <3>2 DEF ObjectsJob
      <4>2. Group(t, L) \in Inner(t) /\ Before(t) \in Inner(t)
        BY <1>3, <4>1 DEF Inner
      <4>3. Below(Group(t, L), Before(t))
        BY <1>1 DEF Below, Level, Group, Before
      <4> QED BY <4>1, <4>2, <4>3 DEF Jobs
    <3> QED BY <3>1, <3>2
  <2>3. ASSUME NEW i \in 1..L,
               e = <<IF i = 1 THEN Link(t) ELSE Group(t, i - 1), File(t, i)>>
        PROVE  /\ e = <<e[1], e[2]>>
               /\ e[1] \in Jobs(t) /\ e[2] \in Jobs(t)
               /\ Below(e[1], e[2])
               /\ e[1] \in Inner(t) => e[2] \in Inner(t)
    <3>1. File(t, i) \in Inner(t)
      BY <1>3, <2>3 DEF Inner
    <3>2. CASE i = 1
      <4>1. e = <<Link(t), File(t, i)>> /\ Link(t) \in Jobs(t)
        BY <1>3, <2>3, <3>2 DEF Jobs
      <4>2. Below(Link(t), File(t, i))
        BY <1>1, <2>3 DEF Below, Level, Link, File
      <4> QED BY <3>1, <4>1, <4>2 DEF Jobs
    <3>3. CASE i # 1
      <4>1. i - 1 \in 1..L /\ e = <<Group(t, i - 1), File(t, i)>>
        BY <1>1, <2>3, <3>3
      <4>2. Group(t, i - 1) \in Inner(t)
        BY <1>3, <4>1 DEF Inner
      <4>3. Below(Group(t, i - 1), File(t, i))
        BY <1>1, <2>3 DEF Below, Level, Group, File
      <4> QED BY <3>1, <4>1, <4>2, <4>3 DEF Jobs
    <3> QED BY <3>2, <3>3
  <2>4. ASSUME NEW i \in 1..L, e = <<File(t, i), Group(t, i)>>
        PROVE  /\ e = <<e[1], e[2]>>
               /\ e[1] \in Jobs(t) /\ e[2] \in Jobs(t)
               /\ Below(e[1], e[2])
               /\ e[1] \in Inner(t) => e[2] \in Inner(t)
    <3>1. File(t, i) \in Inner(t) /\ Group(t, i) \in Inner(t)
      BY <1>3, <2>4 DEF Inner
    <3>2. Below(File(t, i), Group(t, i))
      BY <1>1, <2>4 DEF Below, Level, Group, File
    <3> QED BY <2>4, <3>1, <3>2 DEF Jobs
  <2>5. \/ e = <<After(t), Link(t)>> \/ e = <<ObjectsJob(t), Before(t)>>
        \/ \E i \in 1..L : \/ e = <<IF i = 1 THEN Link(t) ELSE Group(t, i - 1), File(t, i)>>
                           \/ e = <<File(t, i), Group(t, i)>>
    BY <1>3 DEF Chain
  <2> QED BY <2>1, <2>2, <2>3, <2>4, <2>5
<1> QED BY <1>2, <1>3

(* every job of a target is in its chain                                   *)
LEMMA ChainNodes ==
    ASSUME ConfOK, NEW t \in Targets
    PROVE  UNION {{e[1], e[2]} : e \in Chain(t)} = Jobs(t)
<1> DEFINE nodes == UNION {{e[1], e[2]} : e \in Chain(t)}
<1>1. nodes \subseteq Jobs(t)
  BY ChainShape
<1>2. CASE conf.kind[t] = "phony"
  <2>1. <<After(t), Before(t)>> \in Chain(t)
    BY <1>2 DEF Chain
  <2>2. After(t) \in nodes /\ Before(t) \in nodes
    BY <2>1
  <2> QED BY <1>1, <1>2, <2>2 DEF Jobs, Inner
<1>3. CASE conf.kind[t] # "phony"
  <2>1. <<After(t), Link(t)>> \in Chain(t) /\ <<ObjectsJob(t), Before(t)>> \in Chain(t)
    BY <1>3 DEF Chain
  <2>2. \A i \in 1..conf.layers[t] : <<File(t, i), Group(t, i)>> \in Chain(t)
    BY <1>3 DEF Chain
  <2>3. \A a, b : <<a, b>> \in Chain(t) => a \in nodes /\ b \in nodes
    OBVIOUS
  <2> HIDE DEF nodes
  <2>4. After(t) \in nodes /\ Link(t) \in nodes /\ Before(t) \in nodes
    BY <2>1, <2>3
  <2>5. \A i \in 1..conf.layers[t] : File(t, i) \in nodes /\ Group(t, i) \in nodes
    BY <2>2, <2>3
  <2>6. ASSUME NEW n \in Jobs(t) PROVE n \in nodes
    <3>1. \/ n = Before(t) \/ n = After(t) \/ n = Link(t)
          \/ \E i \in 1..conf.layers[t] : n = File(t, i) \/ n = Group(t, i)
      BY DEF Jobs, Inner
    <3> QED BY <2>4, <2>5, <3>1
  <2>7. nodes \subseteq Jobs(t)
    BY <1>1 DEF nodes
  <2>8. nodes = Jobs(t)
    BY <2>6, <2>7
  <2> QED BY <2>8 DEF nodes
<1> QED BY <1>2, <1>3

LEMMA BuildRootInJobs ==
    ASSUME ConfOK, NEW t \in Targets
    PROVE  /\ BuildRoot(t) \in Jobs(t)
           /\ conf.parallel[t] => BuildRoot(t) \notin Inner(t)
<1>1. conf.layers[t] \in Nat
  BY DEF ConfOK
<1>2. CASE conf.kind[t] = "phony"
  BY <1>2 DEF BuildRoot, Jobs, Inner, After, Before
<1>3. CASE conf.kind[t] # "phony" /\ conf.parallel[t]
  BY <1>3 DEF BuildRoot, Jobs, Inner, Link, Before, File, Group
<1>4. CASE conf.kind[t] # "phony" /\ ~conf.parallel[t]
  <2>1. conf.layers[t] # 0 => conf.layers[t] \in 1..conf.layers[t]
    BY <1>1
  <2> QED BY <1>4, <2>1 DEF BuildRoot, ObjectsJob, Jobs, Inner
<1> QED BY <1>2, <1>3, <1>4

(* jobs of different targets are different, and Below orders them          *)
LEMMA BelowTransitive ==
    ASSUME ConfOK, NEW t \in Targets, NEW u \in Targets, NEW v \in Targets,
           NEW n \in Jobs(t), NEW m \in Jobs(u), NEW l \in Jobs(v),
           Below(n, m), Below(m, l)
    PROVE  Below(n, l)
<1>1. /\ n[1] = t /\ m[1] = u /\ l[1] = v
      /\ Level(n) \in Nat /\ Level(m) \in Nat /\ Level(l) \in Nat
  BY JobShape
<1>2. t \in Nat /\ u \in Nat /\ v \in Nat
  BY TargetsAreNumbers
<1> QED BY <1>1, <1>2 DEF Below

(* there are finitely many jobs                                            *)
LEMMA FiniteImage ==
    ASSUME NEW S, IsFiniteSet(S), NEW f, DOMAIN f = S
    PROVE  IsFiniteSet({f[x] : x \in S})
<1> DEFINE T == {f[x] : x \in S}
           g == [x \in S |-> f[x]]
<1>1. g \in Surjection(S, T)
  BY DEF Surjection
<1> QED BY <1>1, FS_Surjection DEF ExistsSurjection

LEMMA FiniteJobs ==
    ASSUME ConfOK, NEW t \in Targets
    PROVE  IsFiniteSet(Jobs(t))
<1> DEFINE I == 1..conf.layers[t]
           files == [i \in I |-> File(t, i)]
           groups == [i \in I |-> Group(t, i)]
           F == {files[i] : i \in I}
           G == {groups[i] : i \in I}
           A == {After(t), Before(t), Link(t)}
<1>1. IsFiniteSet(I)
  BY FS_Interval DEF ConfOK
<1>2. IsFiniteSet(F)
  <2>1. DOMAIN files = I
    OBVIOUS
  <2> HIDE DEF files
  <2> QED BY <1>1, <2>1, FiniteImage
<1>3. IsFiniteSet(G)
  <2>1. DOMAIN groups = I
    OBVIOUS
  <2> HIDE DEF groups
  <2> QED BY <1>1, <2>1, FiniteImage
<1>4. IsFiniteSet(A)
  <2>1. IsFiniteSet({After(t)} \cup {Before(t)})
    BY FS_Singleton, FS_Union
  <2>2. IsFiniteSet(({After(t)} \cup {Before(t)}) \cup {Link(t)})
    BY <2>1, FS_Singleton, FS_Union
  <2>3. A = ({After(t)} \cup {Before(t)}) \cup {Link(t)}
    OBVIOUS
  <2> QED BY <2>2, <2>3
<1>5. IsFiniteSet(A \cup (F \cup G))
  BY <1>2, <1>3, <1>4, FS_Union
<1>6. Jobs(t) \subseteq A \cup (F \cup G)
  <2> SUFFICES ASSUME NEW n \in Jobs(t) PROVE n \in A \cup (F \cup G)
    OBVIOUS
  <2>1. \/ n = Before(t) \/ n = After(t) \/ n = Link(t)
        \/ \E i \in 1..conf.layers[t] : n = File(t, i) \/ n = Group(t, i)
    BY DEF Jobs, Inner
  <2> QED BY <2>1
<1> QED BY <1>5, <1>6, FS_Subset

LEMMA FiniteGraph ==
    ASSUME ConfOK, GraphOK
    PROVE  IsFiniteSet(DOMAIN deps)
<1> DEFINE f == [t \in after_build |-> Jobs(t)]
           S == {f[t] : t \in after_build}
<1>1. after_build \subseteq Targets /\ IsFiniteSet(Targets)
  BY TargetsAreNumbers, FS_Interval DEF GraphOK
<1>2. IsFiniteSet(after_build)
  BY <1>1, FS_Subset
<1>3. IsFiniteSet(S)
  <2>1. DOMAIN f = after_build
    OBVIOUS
  <2> HIDE DEF f
  <2> QED BY <1>2, <2>1, FiniteImage
<1>4. \A T \in S : IsFiniteSet(T)
  BY <1>1, FiniteJobs
<1>5. IsFiniteSet(UNION S)
  <2> HIDE DEF S
  <2> QED BY <1>3, <1>4, FS_UNION
<1>6. DOMAIN deps = {Root} \cup UNION S
  BY DEF GraphOK
<1> HIDE DEF S
<1>7. IsFiniteSet({Root} \cup UNION S)
  BY <1>5, FS_Singleton, FS_Union
<1> QED BY <1>6, <1>7

LEMMA GraphWaits ==
    ASSUME ConfOK, GraphOK, NEW n \in DOMAIN deps
    PROVE  /\ WaitsFor(n) \subseteq DOMAIN deps
           /\ deps[n] \subseteq WaitsFor(n)
           /\ Closed(WaitsFor(n))
           /\ \A C : deps[n] \subseteq C /\ Closed(C) => WaitsFor(n) \subseteq C
           /\ \A m \in WaitsFor(n) : WaitsFor(m) \subseteq WaitsFor(n)
<1>1. \A m \in DOMAIN deps : deps[m] \subseteq DOMAIN deps
  BY DEF GraphOK
<1>2. IsFiniteSet(DOMAIN deps)
  BY FiniteGraph
<1>3. \A m \in DOMAIN deps :
         /\ WaitsFor(m) \subseteq DOMAIN deps
         /\ deps[m] \subseteq WaitsFor(m)
         /\ Closed(WaitsFor(m))
         /\ \A C : deps[m] \subseteq C /\ Closed(C) => WaitsFor(m) \subseteq C
  BY <1>1, <1>2, WaitsForProperties
<1>4. ASSUME NEW m \in WaitsFor(n) PROVE WaitsFor(m) \subseteq WaitsFor(n)
  <2>1. m \in DOMAIN deps /\ deps[m] \subseteq WaitsFor(n)
    BY <1>3 DEF Closed
  <2> QED BY <1>3, <2>1
<1> QED BY <1>3, <1>4

(* The jobs of a target that was added wait for its first job, and the     *)
(* link job for the job that the edges of other targets start from.        *)
LEMMA ChainWaits ==
    ASSUME ConfOK, GraphOK, NEW t \in after_build
    PROVE  /\ \A n \in Jobs(t) : n = After(t) \/ n \in WaitsFor(After(t))
           /\ conf.kind[t] # "phony" =>
                 BuildRoot(t) = Link(t) \/ BuildRoot(t) \in WaitsFor(Link(t))
<1>1. t \in Targets /\ conf.layers[t] \in Nat /\ Jobs(t) \subseteq DOMAIN deps
  BY DEF GraphOK, ConfOK
<1>2. After(t) \in Jobs(t) /\ (conf.kind[t] # "phony" => Link(t) \in Jobs(t))
  BY DEF Jobs
<1>3. \A a, b : <<a, b>> \in Chain(t) => b \in deps[a]
  BY DEF GraphOK
<1>4. CASE conf.kind[t] = "phony"
  <2>1. <<After(t), Before(t)>> \in Chain(t)
    BY <1>4 DEF Chain
  <2>2. Before(t) \in WaitsFor(After(t))
    BY <1>1, <1>2, <1>3, <2>1, GraphWaits
  <2> QED BY <1>4, <2>2 DEF Jobs, Inner
<1>5. CASE conf.kind[t] # "phony"
  <2> DEFINE L == conf.layers[t]
             W == WaitsFor(Link(t))
  <2>1. <<After(t), Link(t)>> \in Chain(t) /\ <<ObjectsJob(t), Before(t)>> \in Chain(t)
    BY <1>5 DEF Chain
  <2>2. \A i \in 1..L : <<IF i = 1 THEN Link(t) ELSE Group(t, i - 1), File(t, i)>> \in Chain(t)
    BY <1>5 DEF Chain
  <2>3. \A i \in 1..L : <<File(t, i), Group(t, i)>> \in Chain(t)
    BY <1>5 DEF Chain
  <2>4. deps[Link(t)] \subseteq W /\ \A a, b : a \in W /\ <<a, b>> \in Chain(t) => b \in W
    BY <1>1, <1>2, <1>3, <1>5, GraphWaits DEF Closed
  <2>5. \A b : <<Link(t), b>> \in Chain(t) => b \in W
    BY <1>3, <2>4
  <2> HIDE DEF W
  <2> DEFINE M == {k \in Nat : \A i \in 1..L : i <= k => File(t, i) \in W /\ Group(t, i) \in W}
  <2>6. 0 \in M
    BY <1>1
  <2>7. ASSUME NEW k \in M PROVE k + 1 \in M
    <3> SUFFICES ASSUME NEW i \in 1..L, i <= k + 1
                 PROVE  File(t, i) \in W /\ Group(t, i) \in W
      OBVIOUS
    <3>1. File(t, i) \in W
      <4>1. CASE i = 1
        <5>1. <<Link(t), File(t, i)>> \in Chain(t)
          BY <2>2, <4>1
        <5> QED BY <2>5, <5>1
      <4>2. CASE i # 1
        <5>1. i - 1 \in 1..L /\ i - 1 <= k
          BY <1>1, <4>2
        <5>2. Group(t, i - 1) \in W
          BY <5>1
        <5>3. <<Group(t, i - 1), File(t, i)>> \in Chain(t)
          BY <2>2, <4>2
        <5> QED BY <2>4, <5>2, <5>3
      <4> QED BY <4>1, <4>2
    <3> QED BY <2>3, <2>4, <3>1
  <2>8. M = Nat
    <3>1. M \in SUBSET Nat
      OBVIOUS
    <3> HIDE DEF M
    <3> QED BY <2>6, <2>7, <3>1, SetInduction
  <2>9. \A i \in 1..L : File(t, i) \in W /\ Group(t, i) \in W
    <3>1. L \in M
      BY <1>1, <2>8
    <3> QED BY <3>1
  <2>10. ObjectsJob(t) = Link(t) \/ ObjectsJob(t) \in W
    <3>1. L # 0 => L \in 1..L
      BY <1>1
    <3> QED BY <2>9, <3>1 DEF ObjectsJob
  <2>11. Before(t) \in W
    BY <2>1, <2>4, <2>5, <2>10
  <2>12. Link(t) \in WaitsFor(After(t))
    BY <1>1, <1>2, <1>3, <2>1, GraphWaits
  <2>13. W \subseteq WaitsFor(After(t))
    BY <1>1, <1>2, <2>12, GraphWaits DEF W
  <2>14. ASSUME NEW n \in Jobs(t) PROVE n = After(t) \/ n \in WaitsFor(After(t))
    <3>1. \/ n = Before(t) \/ n = After(t) \/ n = Link(t)
          \/ \E i \in 1..conf.layers[t] : n = File(t, i) \/ n = Group(t, i)
      BY DEF Jobs, Inner
    <3> QED BY <2>9, <2>11, <2>12, <2>13, <3>1
  <2> QED BY <2>10, <2>14 DEF BuildRoot, W
<1> QED BY <1>4, <1>5

-----------------------------------------------------------------------------
(* What adding edges does.                                                 *)
LEMMA AddEdgesProperties ==
    ASSUME NEW edges, AddEdges(edges)
    PROVE  /\ DOMAIN deps' = DOMAIN deps \cup UNION {{e[1], e[2]} : e \in edges}
           /\ \A n \in DOMAIN deps : deps[n] \subseteq deps'[n]
           /\ \A e \in edges : e[2] \in deps'[e[1]]
           /\ \A n \in DOMAIN deps' : \A m \in deps'[n] :
                 \/ n \in DOMAIN deps /\ m \in deps[n]
                 \/ \E e \in edges : e[1] = n /\ e[2] = m
<1> DEFINE D == DOMAIN deps \cup UNION {{e[1], e[2]} : e \in edges}
           new(n) == (IF n \in DOMAIN deps THEN deps[n] ELSE {})
                        \cup {e[2] : e \in {x \in edges : x[1] = n}}
<1>1. deps' = [n \in D |-> new(n)]
  BY DEF AddEdges
<1>2. \A n \in DOMAIN deps : n \in D /\ deps[n] \subseteq new(n)
  OBVIOUS
<1>3. \A e \in edges : e[1] \in D /\ e[2] \in new(e[1])
  OBVIOUS
<1>4. \A n \in D : \A m \in new(n) :
         \/ n \in DOMAIN deps /\ m \in deps[n]
         \/ \E e \in edges : e[1] = n /\ e[2] = m
  OBVIOUS
<1>5. DOMAIN deps' = D /\ \A n \in D : deps'[n] = new(n)
  <2> HIDE DEF D, new
  <2> QED BY <1>1
<1>6. /\ \A n \in DOMAIN deps : deps[n] \subseteq deps'[n]
      /\ \A e \in edges : e[2] \in deps'[e[1]]
      /\ \A n \in DOMAIN deps' : \A m \in deps'[n] :
            \/ n \in DOMAIN deps /\ m \in deps[n]
            \/ \E e \in edges : e[1] = n /\ e[2] = m
  <2> HIDE DEF D, new
  <2> QED BY <1>2, <1>3, <1>4, <1>5
<1> QED BY <1>5, <1>6

(* what the definitions say of the project stays                           *)
LEMMA SameProject ==
    ASSUME conf' = conf
    PROVE  /\ ConfOK => ConfOK'
           /\ \A t : /\ Jobs(t)' = Jobs(t) /\ Inner(t)' = Inner(t) /\ Chain(t)' = Chain(t)
                     /\ BuildRoot(t)' = BuildRoot(t) /\ OrderDeps(t)' = OrderDeps(t)
                     /\ InheritDeps(t)' = InheritDeps(t)
           /\ \A t : NonObject(t)' <=> NonObject(t)
           /\ \A n, m : Below(n, m)' <=> Below(n, m)
           /\ After(1)' = After(1)
BY DEF ConfOK, Jobs, Inner, Chain, BuildRoot, OrderDeps, InheritDeps, NonObject, Below, Level,
       After, Before, Link, File, Group, ObjectsJob

(* Edges between jobs that are there, descending, keep the graph in order. *)
DownEdges(edges) ==
    \A e \in edges : /\ e[1] \in DOMAIN deps
                     /\ e[2] \in DOMAIN deps \ {Root}
                     /\ e[1] # Root => Below(e[1], e[2])

LEMMA AddInside ==
    ASSUME ConfOK, GraphOK, conf' = conf, after_build' = after_build,
           NEW edges, DownEdges(edges), AddEdges(edges)
    PROVE  /\ GraphOK'
           /\ DOMAIN deps' = DOMAIN deps
           /\ \A n \in DOMAIN deps : deps[n] \subseteq deps'[n]
           /\ \A e \in edges : e[2] \in deps'[e[1]]
<1>1. /\ DOMAIN deps' = DOMAIN deps \cup UNION {{e[1], e[2]} : e \in edges}
      /\ \A n \in DOMAIN deps : deps[n] \subseteq deps'[n]
      /\ \A e \in edges : e[2] \in deps'[e[1]]
      /\ \A n \in DOMAIN deps' : \A m \in deps'[n] :
            \/ n \in DOMAIN deps /\ m \in deps[n]
            \/ \E e \in edges : e[1] = n /\ e[2] = m
  BY AddEdgesProperties
<1>2. DOMAIN deps' = DOMAIN deps
  BY <1>1 DEF DownEdges
<1>3. after_build' \subseteq {t \in Targets : conf'.enabled[t]}
  BY DEF GraphOK
<1>4. DOMAIN deps' = {Root} \cup UNION {Jobs(t)' : t \in after_build'}
  BY <1>2, SameProject DEF GraphOK
<1>5. ASSUME NEW n \in DOMAIN deps', NEW m \in deps'[n]
      PROVE  m \in DOMAIN deps' \ {Root} /\ (n # Root => Below(n, m)')
  <2>1. CASE m \in deps[n]
    BY <1>2, <1>5, <2>1, SameProject DEF GraphOK
  <2>2. CASE \E e \in edges : e[1] = n /\ e[2] = m
    BY <1>2, <2>2, SameProject DEF DownEdges
  <2> QED BY <1>1, <2>1, <2>2
<1>6. ASSUME NEW t \in after_build, NEW e \in Chain(t) PROVE e[2] \in deps'[e[1]]
  <2>1. e[1] \in DOMAIN deps
    <3>1. e[1] \in Jobs(t)
      BY ChainShape DEF GraphOK
    <3> QED BY <3>1 DEF GraphOK
  <2> QED BY <1>1, <2>1 DEF GraphOK
<1>7. ASSUME NEW t \in after_build
      PROVE  \/ After(t) \in deps'[Root]
             \/ \E u \in after_build : t < u /\ After(t) \in deps'[Before(u)]
  <2>1. Root \in DOMAIN deps /\ \A u \in after_build : Before(u) \in DOMAIN deps
    BY DEF GraphOK, Jobs, Inner
  <2> QED BY <1>1, <2>1 DEF GraphOK
<1>8. GraphOK'
  <2>1. \A t : After(t)' = After(t) /\ Before(t)' = Before(t)
    BY DEF After, Before
  <2>2. \A t \in after_build' : \A e \in Chain(t)' : e[2] \in deps'[e[1]]
    BY <1>6, SameProject
  <2>3. \A t \in after_build' :
           \/ After(t)' \in deps'[Root]
           \/ \E u \in after_build' : t < u /\ After(t)' \in deps'[Before(u)']
    BY <1>7, <2>1
  <2> QED BY <1>3, <1>4, <1>5, <2>2, <2>3 DEF GraphOK
<1> QED BY <1>1, <1>2, <1>8

-----------------------------------------------------------------------------
(* The invariant holds in the beginning.                                   *)
LEMMA ListedRoots ==
    ASSUME NEW r \in Seq(Targets), NEW l, l = [i \in 1..Len(r) |-> <<r[i], Root>>]
    PROVE  /\ l \in Seq(Targets \X {Root})
           /\ \A i \in 1..Len(l) : l[i][2] = Root
<1>1. Len(r) \in Nat /\ \A i \in 1..Len(r) : r[i] \in Targets
  OBVIOUS
<1>2. \A i \in 1..Len(r) : <<r[i], Root>> \in Targets \X {Root}
  BY <1>1
<1>3. l \in Seq(Targets \X {Root}) /\ Len(l) = Len(r)
  BY <1>1, <1>2
<1> QED BY <1>3

LEMMA InitInv == Init => Inv
<1> SUFFICES ASSUME Init PROVE Inv
  OBVIOUS
<1>1. N \in Nat \ {0} /\ Targets = 1..N
  BY BuildGraphAssumption DEF Targets
<1>2. PICK p \in Profiles :
         /\ \E f \in DepGraphs, order \in Orders :
               \E private \in IF p.private THEN SUBSET Edges(f) ELSE {{}} :
                  conf \in [deps : {f}, order : {order}, private : {private},
                            kind : [Targets -> p.kinds],
                            layers : [Targets -> p.layers],
                            parallel : [Targets -> p.parallel],
                            fence : [Targets -> p.fences],
                            enabled : [Targets -> p.enabled]]
         /\ \E chosen \in p.choices :
               \E roots \in {InOrder(conf.order, chosen),
                             InOrder(Ascending, DefaultRoots(chosen))} :
                  todo = [i \in 1..Len(roots) |-> <<roots[i], Root>>]
  BY DEF Init
<1>3. p.layers \subseteq Nat /\ p.choices \subseteq SUBSET Targets
  BY <1>1, BuildGraphAssumption DEF ProfileOK
<1>4. conf.deps \in DepGraphs /\ conf.order \in Orders /\ conf.layers \in [Targets -> p.layers]
  BY <1>2
<1>5. \A order \in Orders :
         order \in [1..N -> Targets] /\ \A t \in Targets : \E i \in 1..N : order[i] = t
  <2>1. Ascending \in [1..N -> Targets] /\ \A t \in Targets : Ascending[t] = t
    BY <1>1 DEF Ascending
  <2> DEFINE descending == [i \in Targets |-> N + 1 - i]
  <2>2. \A t \in Targets : N + 1 - t \in 1..N /\ N + 1 - (N + 1 - t) = t
    BY <1>1
  <2>3. descending \in [1..N -> Targets] /\ \A t \in Targets : descending[N + 1 - t] = t
    BY <1>1, <2>2
  <2>4. \A t \in Targets : (\E i \in 1..N : descending[i] = t) /\ \E i \in 1..N : Ascending[i] = t
    <3> HIDE DEF descending
    <3> QED BY <1>1, <2>1, <2>2, <2>3
  <2> QED BY <2>1, <2>3, <2>4 DEF Orders
<1>6. ConfOK
  <2>1. conf.deps \in [Targets -> SUBSET Targets]
        /\ \A t \in Targets : conf.deps[t] \subseteq 1..(t - 1)
    BY <1>4 DEF DepGraphs
  <2>2. conf.layers \in [Targets -> Nat]
    BY <1>3, <1>4
  <2> QED BY <1>4, <1>5, <2>1, <2>2 DEF ConfOK
<1>7. todo \in Seq(Targets \X {Root}) /\ \A i \in 1..Len(todo) : todo[i][2] = Root
  <2>1. PICK chosen \in p.choices :
           \E roots \in {InOrder(conf.order, chosen),
                         InOrder(Ascending, DefaultRoots(chosen))} :
              todo = [i \in 1..Len(roots) |-> <<roots[i], Root>>]
    BY <1>2
  <2>2. chosen \in SUBSET Targets /\ DefaultRoots(chosen) \in SUBSET Targets
    BY <1>3 DEF DefaultRoots
  <2>3. InOrder(conf.order, chosen) \in Seq(chosen)
    BY <1>4, <1>5, <2>2, InOrderProperties
  <2>4. InOrder(Ascending, DefaultRoots(chosen)) \in Seq(DefaultRoots(chosen))
    <3>1. Ascending \in Orders
      BY DEF Orders
    <3> QED BY <1>5, <2>2, <3>1, InOrderProperties
  <2>5. PICK roots \in {InOrder(conf.order, chosen), InOrder(Ascending, DefaultRoots(chosen))} :
           todo = [i \in 1..Len(roots) |-> <<roots[i], Root>>]
    BY <2>1
  <2>6. roots \in Seq(Targets)
    <3>1. \A S \in SUBSET Targets : \A r \in Seq(S) : r \in Seq(Targets)
      OBVIOUS
    <3> QED BY <2>2, <2>3, <2>4, <2>5, <3>1
  <2> QED BY <2>5, <2>6, ListedRoots
<1>8. deps = [n \in {Root} |-> {}] /\ after_build = {} /\ phase = "walk" /\ pos = 1
  BY DEF Init
<1>9. GraphOK
  BY <1>8 DEF GraphOK
<1>10. TodoOK
  <2>1. \A e : e \in Targets \X {Root} =>
                  e \in Targets \X ({Root} \cup {Before(u) : u \in Targets})
    OBVIOUS
  <2>2. todo \in Seq(Targets \X ({Root} \cup {Before(u) : u \in Targets}))
    BY <1>7, <2>1
  <2> QED BY <1>7, <1>8, <2>2 DEF TodoOK
<1>11. PhaseOK
  BY <1>1, <1>8 DEF PhaseOK
<1>12. SerialOK /\ NonObjectOK /\ ObjectOK /\ FenceOK
  BY <1>8 DEF SerialOK, NonObjectOK, ObjectOK, FenceOK
<1>13. InnerOK
  BY <1>7, <1>8 DEF InnerOK
<1> QED BY <1>6, <1>9, <1>10, <1>11, <1>12, <1>13 DEF Inv

-----------------------------------------------------------------------------
(* The passes keep the invariant.                                          *)
LEMMA DepsBelow ==
    ASSUME ConfOK, NEW t \in Targets
    PROVE  OrderDeps(t) \subseteq 1..(t - 1) /\ InheritDeps(t) \subseteq 1..(t - 1)
<1>1. OrderDeps(t) \subseteq 1..(t - 1)
  BY ReachedBelow DEF OrderDeps, ConfOK
<1> DEFINE inherited == [u \in Targets |-> {d \in conf.deps[u] : <<u, d>> \notin conf.private}]
<1>2. inherited \in [Targets -> SUBSET Targets] /\ \A u \in Targets : inherited[u] \subseteq 1..(u - 1)
  BY DEF ConfOK
<1>3. InheritDeps(t) = Reached(inherited)[t]
  BY DEF InheritDeps
<1> HIDE DEF inherited
<1>4. InheritDeps(t) \subseteq 1..(t - 1)
  BY <1>2, <1>3, ReachedBelow
<1> QED BY <1>1, <1>4

(* an edge from a job of a target to a job of a dependency                 *)
LEMMA AcrossTargets ==
    ASSUME ConfOK, GraphOK, NEW t \in after_build, NEW d \in after_build, d < t,
           NEW n \in Jobs(t), NEW m \in Jobs(d)
    PROVE  /\ n \in DOMAIN deps /\ m \in DOMAIN deps \ {Root}
           /\ Below(n, m)
<1>1. t \in Targets /\ d \in Targets
  BY DEF GraphOK
<1>2. n[1] = t /\ m[1] = d /\ m # Root
  BY <1>1, JobShape
<1> QED BY <1>2 DEF GraphOK, Below

(* where the edges between targets start is not below a link job           *)
LEMMA OutsideInner ==
    ASSUME ConfOK, NEW t \in Targets, NEW u \in Targets
    PROVE  /\ conf.parallel[t] => BuildRoot(t) \notin Inner(u)
           /\ Root \notin Inner(u)
<1>1. BuildRoot(t) \in Jobs(t) /\ (conf.parallel[t] => BuildRoot(t) \notin Inner(t))
  BY BuildRootInJobs
<1>2. \A n \in Inner(u) : n \in Jobs(u) /\ n[1] = u /\ n # Root
  BY JobShape DEF Jobs
<1>3. BuildRoot(t)[1] = t
  BY <1>1, JobShape
<1> QED BY <1>1, <1>2, <1>3

SomePolicy == ~\A t \in Targets : conf.parallel[t] /\ ~conf.fence[t]

LEMMA PassStep ==
    ASSUME Inv, NEW this, NEW next, NEW edges, Pass(this, next, edges),
           \/ this = "nonobject" /\ next = "object"
           \/ this = "object" /\ next = "fence"
           \/ this = "fence" /\ next = "done",
           DownEdges(edges),
           ~SomePolicy => \A e \in edges, t \in after_build : e[1] \notin Inner(t)
    PROVE  /\ ConfOK' /\ GraphOK' /\ TodoOK' /\ SerialOK' /\ PhaseOK' /\ InnerOK'
           /\ conf' = conf /\ after_build' = after_build /\ DOMAIN deps' = DOMAIN deps
           /\ \A n \in DOMAIN deps : deps[n] \subseteq deps'[n]
           /\ \A e \in edges : e[2] \in deps'[e[1]]
<1>1. /\ phase = this /\ AddEdges(edges)
      /\ \/ pos < N /\ pos' = pos + 1 /\ phase' = phase
         \/ ~(pos < N) /\ pos' = 1 /\ phase' = next
      /\ conf' = conf /\ after_build' = after_build /\ todo' = todo
  BY DEF Pass
<1>2. ConfOK /\ GraphOK /\ TodoOK /\ SerialOK /\ PhaseOK /\ InnerOK
  BY DEF Inv
<1>3. /\ GraphOK' /\ DOMAIN deps' = DOMAIN deps
      /\ \A n \in DOMAIN deps : deps[n] \subseteq deps'[n]
      /\ \A e \in edges : e[2] \in deps'[e[1]]
  BY <1>1, <1>2, AddInside
<1>4. ConfOK'
  BY <1>1, <1>2, SameProject
<1>5. todo = <<>> /\ phase' # "walk"
  BY <1>1, <1>2 DEF TodoOK
<1>6. TodoOK'
  BY <1>1, <1>5 DEF TodoOK
<1>7. PhaseOK'
  <2>1. N \in Nat \ {0} /\ Targets = 1..N
    BY BuildGraphAssumption DEF Targets
  <2>2. pos' \in Targets
    BY <1>1, <1>2, <2>1 DEF PhaseOK
  <2>3. phase' \in {"walk", "nonobject", "object", "fence", "done"}
    BY <1>1
  <2> QED BY <1>5, <2>2, <2>3 DEF PhaseOK
<1>8. \A t \in after_build : Before(t) \in DOMAIN deps /\ Inner(t) \subseteq DOMAIN deps
  BY <1>2 DEF GraphOK, Jobs, Inner
<1>9. SerialOK'
  <2>1. ASSUME NEW t \in after_build, NEW d \in conf.deps[t], ~conf.parallel[d], conf.enabled[d]
        PROVE  After(d) \in deps'[Before(t)]
    <3>1. After(d) \in deps[Before(t)]
      BY <1>2, <1>5, <2>1 DEF SerialOK
    <3> QED BY <1>3, <1>8, <3>1
  <2>2. \A t : After(t)' = After(t) /\ Before(t)' = Before(t)
    BY DEF After, Before
  <2> QED BY <1>1, <2>1, <2>2 DEF SerialOK
<1>10. InnerOK'
  <2>1. ASSUME ~SomePolicy, NEW t \in after_build, NEW n \in Inner(t)
        PROVE  deps'[n] \subseteq Inner(t)
    <3>1. \A m \in deps'[n] : m \in deps[n]
      <4>1. \A m \in deps'[n] : m \in deps[n] \/ \E e \in edges : e[1] = n
        <5>1. \A k \in DOMAIN deps' : \A m \in deps'[k] :
                 (k \in DOMAIN deps /\ m \in deps[k]) \/ \E e \in edges : e[1] = k /\ e[2] = m
          BY <1>1, AddEdgesProperties
        <5> QED BY <1>3, <1>8, <5>1
      <4> QED BY <2>1, <4>1
    <3>2. deps[n] \subseteq Inner(t)
      BY <1>2, <2>1 DEF InnerOK, SomePolicy
    <3> QED BY <3>1, <3>2
  <2>2. \A t : Inner(t)' = Inner(t)
    BY <1>1, SameProject
  <2> QED BY <1>1, <1>5, <2>1, <2>2 DEF InnerOK, SomePolicy
<1> QED BY <1>1, <1>3, <1>4, <1>6, <1>7, <1>9, <1>10

(* the edges of the three passes                                           *)
LEMMA NonObjectPatchInv == Inv /\ NonObjectPatch => Inv'
<1> SUFFICES ASSUME Inv, NonObjectPatch PROVE Inv'
  OBVIOUS
<1> DEFINE edges == IF NonObject(pos) /\ pos \in after_build
                    THEN {<<BuildRoot(pos), After(d)>> : d \in OrderDeps(pos) \cap after_build}
                    ELSE {}
<1>1. Pass("nonobject", "object", edges)
  BY DEF NonObjectPatch
<1>2. ConfOK /\ GraphOK /\ PhaseOK /\ NonObjectOK /\ ObjectOK /\ FenceOK
  BY DEF Inv
<1>3. N \in Nat \ {0} /\ Targets = 1..N /\ pos \in Targets /\ after_build \subseteq Targets
  BY <1>2, BuildGraphAssumption DEF Targets, PhaseOK, GraphOK
<1>4. ASSUME NEW e \in edges
      PROVE  /\ pos \in after_build
             /\ \E d \in after_build : d < pos /\ e[1] = BuildRoot(pos) /\ e[2] = After(d)
  <2>1. pos \in after_build
    BY <1>4
  <2>2. PICK d \in OrderDeps(pos) \cap after_build : e = <<BuildRoot(pos), After(d)>>
    BY <1>4
  <2>3. d < pos
    BY <1>2, <1>3, DepsBelow
  <2> QED BY <2>1, <2>2, <2>3
<1>5. \A d \in after_build : After(d) \in Jobs(d)
  BY DEF Jobs
<1>6. BuildRoot(pos) \in Jobs(pos)
  BY <1>2, <1>3, BuildRootInJobs
<1> HIDE DEF edges
<1>7. DownEdges(edges)
  BY <1>2, <1>4, <1>5, <1>6, AcrossTargets DEF DownEdges
<1>8. ~SomePolicy => \A e \in edges, t \in after_build : e[1] \notin Inner(t)
  BY <1>2, <1>3, <1>4, OutsideInner DEF SomePolicy
<1>9. /\ ConfOK' /\ GraphOK' /\ TodoOK' /\ SerialOK' /\ PhaseOK' /\ InnerOK'
      /\ conf' = conf /\ after_build' = after_build /\ DOMAIN deps' = DOMAIN deps
      /\ \A n \in DOMAIN deps : deps[n] \subseteq deps'[n]
      /\ \A e \in edges : e[2] \in deps'[e[1]]
  BY <1>1, <1>7, <1>8, PassStep
<1>10. /\ phase = "nonobject" /\ phase' \in {"nonobject", "object"}
       /\ \A t \in Targets : (phase' = "object" \/ t < pos') => t < pos \/ t = pos
       /\ phase' = "object" => pos' = 1
  BY <1>3, <1>1 DEF Pass
<1>11. NonObjectOK'
  <2>1. ASSUME NEW t \in after_build, phase' = "object" \/ t < pos', NonObject(t),
               NEW d \in OrderDeps(t) \cap after_build
        PROVE  After(d) \in deps'[BuildRoot(t)]
    <3>1. CASE t < pos
      <4>1. After(d) \in deps[BuildRoot(t)]
        BY <1>2, <1>10, <2>1, <3>1 DEF NonObjectOK
      <4>2. BuildRoot(t) \in DOMAIN deps
        BY <1>2, <1>3, BuildRootInJobs DEF GraphOK
      <4> QED BY <1>9, <4>1, <4>2
    <3>2. CASE t = pos
      <4>1. <<BuildRoot(t), After(d)>> \in edges
        BY <2>1, <3>2 DEF edges
      <4> QED BY <1>9, <4>1
    <3> QED BY <1>3, <1>10, <2>1, <3>1, <3>2
  <2>2. \A t : OrderDeps(t)' = OrderDeps(t) /\ BuildRoot(t)' = BuildRoot(t)
               /\ (NonObject(t)' <=> NonObject(t)) /\ After(t)' = After(t)
    BY <1>9, SameProject DEF After
  <2> QED BY <1>9, <1>10, <2>1, <2>2 DEF NonObjectOK
<1>12. ObjectOK' /\ FenceOK'
  <2>1. \A t \in Targets : ~(phase' = "object" /\ t < pos')
    BY <1>3, <1>10
  <2> QED BY <1>3, <1>9, <1>10, <2>1 DEF ObjectOK, FenceOK
<1> QED BY <1>9, <1>11, <1>12 DEF Inv

LEMMA ObjectPatchInv == Inv /\ ObjectPatch => Inv'
<1> SUFFICES ASSUME Inv, ObjectPatch PROVE Inv'
  OBVIOUS
<1> DEFINE source == IF pos \in after_build THEN BuildRoot(pos) ELSE Root
           libs == {x \in InheritDeps(pos) \cap after_build : NonObject(x)}
           edges == IF conf.kind[pos] = "object"
                    THEN {<<source, BuildRoot(d)>> : d \in libs}
                    ELSE {}
<1>1. Pass("object", "fence", edges)
  BY DEF ObjectPatch
<1>2. ConfOK /\ GraphOK /\ PhaseOK /\ NonObjectOK /\ ObjectOK /\ FenceOK
  BY DEF Inv
<1>3. N \in Nat \ {0} /\ Targets = 1..N /\ pos \in Targets /\ after_build \subseteq Targets
  BY <1>2, BuildGraphAssumption DEF Targets, PhaseOK, GraphOK
<1>4. ASSUME NEW e \in edges
      PROVE  e[1] = source /\ \E d \in after_build : d < pos /\ e[2] = BuildRoot(d)
  <2>1. PICK d \in libs : e = <<source, BuildRoot(d)>>
    BY <1>4
  <2>2. d < pos /\ d \in after_build
    BY <1>2, <1>3, DepsBelow
  <2> HIDE DEF source
  <2> QED BY <2>1, <2>2
<1>5. \A d \in Targets : BuildRoot(d) \in Jobs(d) /\ BuildRoot(d) # Root
  BY <1>2, BuildRootInJobs, JobShape
<1>6. source = Root \/ (pos \in after_build /\ source = BuildRoot(pos))
  OBVIOUS
<1> HIDE DEF edges, source
<1>7. DownEdges(edges)
  <2> SUFFICES ASSUME NEW e \in edges
               PROVE  /\ e[1] \in DOMAIN deps
                      /\ e[2] \in DOMAIN deps \ {Root}
                      /\ e[1] # Root => Below(e[1], e[2])
    BY DEF DownEdges
  <2>1. PICK d \in after_build : d < pos /\ e[2] = BuildRoot(d)
    BY <1>4
  <2>2. e[1] = source
    BY <1>4
  <2>3. CASE e[1] = Root
    BY <1>2, <1>3, <1>5, <2>1, <2>3 DEF GraphOK
  <2>4. CASE pos \in after_build /\ source = BuildRoot(pos)
    BY <1>2, <1>3, <1>5, <2>1, <2>2, <2>4, AcrossTargets
  <2> QED BY <1>6, <2>2, <2>3, <2>4
<1>8. ~SomePolicy => \A e \in edges, t \in after_build : e[1] \notin Inner(t)
  BY <1>2, <1>3, <1>4, <1>6, OutsideInner DEF SomePolicy
<1>9. /\ ConfOK' /\ GraphOK' /\ TodoOK' /\ SerialOK' /\ PhaseOK' /\ InnerOK'
      /\ conf' = conf /\ after_build' = after_build /\ DOMAIN deps' = DOMAIN deps
      /\ \A n \in DOMAIN deps : deps[n] \subseteq deps'[n]
      /\ \A e \in edges : e[2] \in deps'[e[1]]
  BY <1>1, <1>7, <1>8, PassStep
<1>10. /\ phase = "object" /\ phase' \in {"object", "fence"}
       /\ \A t \in Targets : (phase' = "fence" \/ t < pos') => t < pos \/ t = pos
       /\ phase' = "fence" => pos' = 1
  BY <1>3, <1>1 DEF Pass
<1>11. \A t \in after_build : BuildRoot(t) \in DOMAIN deps
  BY <1>2, <1>3, <1>5 DEF GraphOK
<1>12. \A t : OrderDeps(t)' = OrderDeps(t) /\ BuildRoot(t)' = BuildRoot(t)
              /\ InheritDeps(t)' = InheritDeps(t)
              /\ (NonObject(t)' <=> NonObject(t)) /\ After(t)' = After(t)
  BY <1>9, SameProject DEF After
<1>13. ObjectOK'
  <2>1. ASSUME NEW t \in after_build, phase' = "fence" \/ t < pos', conf.kind[t] = "object",
               NEW d \in InheritDeps(t) \cap after_build, NonObject(d)
        PROVE  BuildRoot(d) \in deps'[BuildRoot(t)]
    <3>1. CASE t < pos
      <4>1. BuildRoot(d) \in deps[BuildRoot(t)]
        BY <1>2, <1>10, <2>1, <3>1 DEF ObjectOK
      <4> QED BY <1>9, <1>11, <4>1
    <3>2. CASE t = pos
      <4>1. <<BuildRoot(t), BuildRoot(d)>> \in edges
        BY <2>1, <3>2 DEF edges, source
      <4> QED BY <1>9, <4>1
    <3> QED BY <1>3, <1>10, <2>1, <3>1, <3>2
  <2> QED BY <1>9, <1>10, <1>12, <2>1 DEF ObjectOK
<1>14. NonObjectOK'
  <2>1. ASSUME NEW t \in after_build, NonObject(t), NEW d \in OrderDeps(t) \cap after_build
        PROVE  After(d) \in deps'[BuildRoot(t)]
    <3>1. After(d) \in deps[BuildRoot(t)]
      BY <1>2, <1>10, <2>1 DEF NonObjectOK
    <3> QED BY <1>9, <1>11, <3>1
  <2> QED BY <1>9, <1>12, <2>1 DEF NonObjectOK
<1>15. FenceOK'
  <2>1. \A t \in Targets : ~(phase' = "fence" /\ t < pos')
    BY <1>3, <1>10
  <2> QED BY <1>3, <1>9, <1>10, <2>1 DEF FenceOK
<1> QED BY <1>9, <1>13, <1>14, <1>15 DEF Inv

LEMMA FencePatchInv == Inv /\ FencePatch => Inv'
<1> SUFFICES ASSUME Inv, FencePatch PROVE Inv'
  OBVIOUS
<1> DEFINE fences == {x \in OrderDeps(pos) \cap after_build : conf.fence[x]}
           edges == IF pos \in after_build
                    THEN {<<Before(pos), After(d)>> : d \in fences}
                    ELSE {}
<1>1. Pass("fence", "done", edges)
  BY DEF FencePatch
<1>2. ConfOK /\ GraphOK /\ PhaseOK /\ NonObjectOK /\ ObjectOK /\ FenceOK
  BY DEF Inv
<1>3. N \in Nat \ {0} /\ Targets = 1..N /\ pos \in Targets /\ after_build \subseteq Targets
  BY <1>2, BuildGraphAssumption DEF Targets, PhaseOK, GraphOK
<1>4. ASSUME NEW e \in edges
      PROVE  /\ pos \in after_build
             /\ \E d \in after_build : d < pos /\ conf.fence[d]
                                       /\ e[1] = Before(pos) /\ e[2] = After(d)
  <2>1. pos \in after_build
    BY <1>4
  <2>2. PICK d \in fences : e = <<Before(pos), After(d)>>
    BY <1>4
  <2>3. d < pos /\ d \in after_build /\ conf.fence[d]
    BY <1>2, <1>3, DepsBelow
  <2> QED BY <2>1, <2>2, <2>3
<1>5. \A d \in after_build : After(d) \in Jobs(d) /\ Before(d) \in Jobs(d)
  BY DEF Jobs, Inner
<1> HIDE DEF edges
<1>6. DownEdges(edges)
  BY <1>2, <1>4, <1>5, AcrossTargets DEF DownEdges
<1>7. ~SomePolicy => \A e \in edges, t \in after_build : e[1] \notin Inner(t)
  BY <1>3, <1>4 DEF SomePolicy
<1>8. /\ ConfOK' /\ GraphOK' /\ TodoOK' /\ SerialOK' /\ PhaseOK' /\ InnerOK'
      /\ conf' = conf /\ after_build' = after_build /\ DOMAIN deps' = DOMAIN deps
      /\ \A n \in DOMAIN deps : deps[n] \subseteq deps'[n]
      /\ \A e \in edges : e[2] \in deps'[e[1]]
  BY <1>1, <1>6, <1>7, PassStep
<1>9. phase = "fence" /\ phase' \in {"fence", "done"}
      /\ \A t \in Targets : phase' = "done" \/ t < pos' => t < pos \/ t = pos
  BY <1>3, <1>1 DEF Pass
<1>10. \A t \in after_build : BuildRoot(t) \in DOMAIN deps /\ Before(t) \in DOMAIN deps
  BY <1>2, <1>3, <1>5, BuildRootInJobs DEF GraphOK
<1>11. \A t : OrderDeps(t)' = OrderDeps(t) /\ BuildRoot(t)' = BuildRoot(t)
              /\ InheritDeps(t)' = InheritDeps(t) /\ Before(t)' = Before(t)
              /\ (NonObject(t)' <=> NonObject(t)) /\ After(t)' = After(t)
  BY <1>8, SameProject DEF After, Before
<1>12. FenceOK'
  <2>1. ASSUME NEW t \in after_build, phase' = "done" \/ t < pos',
               NEW d \in OrderDeps(t) \cap after_build, conf.fence[d]
        PROVE  After(d) \in deps'[Before(t)]
    <3>1. CASE t < pos
      <4>1. After(d) \in deps[Before(t)]
        BY <1>2, <1>9, <2>1, <3>1 DEF FenceOK
      <4> QED BY <1>8, <1>10, <4>1
    <3>2. CASE t = pos
      <4>1. <<Before(t), After(d)>> \in edges
        BY <2>1, <3>2 DEF edges
      <4> QED BY <1>8, <4>1
    <3> QED BY <1>3, <1>9, <2>1, <3>1, <3>2
  <2> QED BY <1>8, <1>9, <1>11, <2>1 DEF FenceOK
<1>13. NonObjectOK'
  <2>1. ASSUME NEW t \in after_build, NonObject(t), NEW d \in OrderDeps(t) \cap after_build
        PROVE  After(d) \in deps'[BuildRoot(t)]
    <3>1. After(d) \in deps[BuildRoot(t)]
      BY <1>2, <1>9, <2>1 DEF NonObjectOK
    <3> QED BY <1>8, <1>10, <3>1
  <2> QED BY <1>8, <1>11, <2>1 DEF NonObjectOK
<1>14. ObjectOK'
  <2>1. ASSUME NEW t \in after_build, conf.kind[t] = "object",
               NEW d \in InheritDeps(t) \cap after_build, NonObject(d)
        PROVE  BuildRoot(d) \in deps'[BuildRoot(t)]
    <3>1. BuildRoot(d) \in deps[BuildRoot(t)]
      BY <1>2, <1>9, <2>1 DEF ObjectOK
    <3> QED BY <1>8, <1>10, <3>1
  <2> QED BY <1>8, <1>11, <2>1 DEF ObjectOK
<1> QED BY <1>8, <1>12, <1>13, <1>14 DEF Inv

-----------------------------------------------------------------------------
(* The walk keeps the invariant.                                           *)
Calls == Targets \X ({Root} \cup {Before(u) : u \in Targets})
Entries(s) == {s[i] : i \in 1..Len(s)}

LEMMA TailEntries ==
    ASSUME NEW S, NEW s \in Seq(S), s # <<>>
    PROVE  /\ Tail(s) \in Seq(S) /\ Head(s) \in S
           /\ Entries(s) = {Head(s)} \cup Entries(Tail(s))
<1>1. /\ Tail(s) \in Seq(S) /\ Head(s) \in S /\ Head(s) = s[1]
      /\ Len(s) \in Nat \ {0} /\ Len(Tail(s)) = Len(s) - 1
      /\ \A i \in 1..(Len(s) - 1) : Tail(s)[i] = s[i + 1]
  OBVIOUS
<1>2. ASSUME NEW i \in 1..Len(s) PROVE s[i] \in {Head(s)} \cup Entries(Tail(s))
  <2>1. CASE i = 1
    BY <1>1, <2>1
  <2>2. CASE i # 1
    <3>1. i - 1 \in 1..(Len(s) - 1) /\ (i - 1) + 1 = i
      BY <1>1, <2>2
    <3>2. Tail(s)[i - 1] = s[i]
      BY <1>1, <3>1
    <3> QED BY <1>1, <3>1, <3>2 DEF Entries
  <2> QED BY <2>1, <2>2
<1>3. ASSUME NEW i \in 1..(Len(s) - 1) PROVE Tail(s)[i] \in Entries(s)
  <2>1. i + 1 \in 1..Len(s) /\ Tail(s)[i] = s[i + 1]
    BY <1>1
  <2> QED BY <2>1 DEF Entries
<1>4. Head(s) \in Entries(s)
  <2>1. 1 \in 1..Len(s)
    BY <1>1
  <2> QED BY <1>1, <2>1 DEF Entries
<1> QED BY <1>1, <1>2, <1>3, <1>4 DEF Entries

LEMMA ConcatEntries ==
    ASSUME NEW S, NEW s \in Seq(S), NEW r \in Seq(S)
    PROVE  /\ s \o r \in Seq(S)
           /\ Entries(s \o r) = Entries(s) \cup Entries(r)
<1>1. /\ s \o r \in Seq(S) /\ Len(s) \in Nat /\ Len(r) \in Nat
      /\ Len(s \o r) = Len(s) + Len(r)
  OBVIOUS
<1>2. \A i \in 1..(Len(s) + Len(r)) : (s \o r)[i] = IF i <= Len(s) THEN s[i] ELSE r[i - Len(s)]
  OBVIOUS
<1>3. ASSUME NEW i \in 1..(Len(s) + Len(r)) PROVE (s \o r)[i] \in Entries(s) \cup Entries(r)
  <2>1. CASE i <= Len(s)
    <3>1. i \in 1..Len(s) /\ (s \o r)[i] = s[i]
      BY <1>1, <1>2, <2>1
    <3> QED BY <3>1 DEF Entries
  <2>2. CASE ~(i <= Len(s))
    <3>1. i - Len(s) \in 1..Len(r) /\ (s \o r)[i] = r[i - Len(s)]
      BY <1>1, <1>2, <2>2
    <3> QED BY <3>1 DEF Entries
  <2> QED BY <2>1, <2>2
<1>4. ASSUME NEW i \in 1..Len(s) PROVE s[i] \in Entries(s \o r)
  <2>1. i \in 1..(Len(s) + Len(r)) /\ (s \o r)[i] = s[i]
    BY <1>1, <1>2
  <2> QED BY <1>1, <2>1 DEF Entries
<1>5. ASSUME NEW i \in 1..Len(r) PROVE r[i] \in Entries(s \o r)
  <2>1. i + Len(s) \in 1..(Len(s) + Len(r)) /\ ~(i + Len(s) <= Len(s)) /\ (i + Len(s)) - Len(s) = i
    BY <1>1
  <2>2. (s \o r)[i + Len(s)] = r[i]
    BY <1>2, <2>1
  <2> QED BY <1>1, <2>1, <2>2 DEF Entries
<1>6. Entries(s \o r) = {(s \o r)[i] : i \in 1..(Len(s) + Len(r))}
  BY <1>1 DEF Entries
<1>7. Entries(s \o r) \subseteq Entries(s) \cup Entries(r)
  BY <1>3, <1>6
<1>8. Entries(s) \subseteq Entries(s \o r) /\ Entries(r) \subseteq Entries(s \o r)
  BY <1>4, <1>5 DEF Entries
<1> QED BY <1>1, <1>7, <1>8

(* the parts of the invariant that speak of the calls, by their set        *)
Hooked(E) == \A e \in E : e[2] = Root \/ \E u \in after_build : e[1] < u /\ e[2] = Before(u)
Waits(E) ==
    \A t \in after_build : \A d \in conf.deps[t] :
        ~conf.parallel[d] /\ conf.enabled[d] =>
            After(d) \in deps[Before(t)] \/ <<d, Before(t)>> \in E
AtRoot(E) == \A e \in E : e[2] = Root
InnerClosed == \A t \in after_build : \A n \in Inner(t) : deps[n] \subseteq Inner(t)

LEMMA ByEntries ==
    /\ TodoOK <=> todo \in Seq(Calls) /\ Hooked(Entries(todo)) /\ (phase # "walk" => todo = <<>>)
    /\ SerialOK <=> Waits(Entries(todo))
    /\ InnerOK <=> (~SomePolicy => AtRoot(Entries(todo)) /\ InnerClosed)
<1>1. TodoOK <=> todo \in Seq(Calls) /\ Hooked(Entries(todo)) /\ (phase # "walk" => todo = <<>>)
  BY DEF TodoOK, Calls, Hooked, Entries
<1>2. SerialOK <=> Waits(Entries(todo))
  BY DEF SerialOK, Waits, Entries
<1>3. InnerOK <=> (~SomePolicy => AtRoot(Entries(todo)) /\ InnerClosed)
  BY DEF InnerOK, SomePolicy, AtRoot, InnerClosed, Entries
<1> QED BY <1>1, <1>2, <1>3

LEMMA WalkHead ==
    ASSUME Inv, todo # <<>>, NEW t, NEW r, t = Head(todo)[1], r = Head(todo)[2]
    PROVE  /\ t \in Targets /\ Head(todo) = <<t, r>>
           /\ r = Root \/ \E u \in after_build : t < u /\ r = Before(u)
           /\ r \in DOMAIN deps
           /\ ~SomePolicy => r = Root
<1>1. TodoOK /\ GraphOK /\ InnerOK
  BY DEF Inv
<1>2. todo \in Seq(Calls) /\ Hooked(Entries(todo))
      /\ (~SomePolicy => AtRoot(Entries(todo)))
  BY <1>1, ByEntries
<1>3. Head(todo) \in Calls /\ Head(todo) \in Entries(todo)
  BY <1>2, TailEntries
<1>4. t \in Targets /\ Head(todo) = <<t, r>>
  BY <1>3 DEF Calls
<1>5. r = Root \/ \E u \in after_build : t < u /\ r = Before(u)
  BY <1>2, <1>3 DEF Hooked
<1>6. Root \in DOMAIN deps /\ \A u \in after_build : Before(u) \in DOMAIN deps
  BY <1>1 DEF GraphOK, Jobs, Inner
<1>7. ~SomePolicy => r = Root
  BY <1>2, <1>3 DEF AtRoot
<1> QED BY <1>4, <1>5, <1>6, <1>7

(* the walk adds nothing that the passes promise                           *)
LEMMA WalkQuiet ==
    ASSUME PhaseOK, phase = "walk", phase' = phase, pos' = pos
    PROVE  PhaseOK' /\ NonObjectOK' /\ ObjectOK' /\ FenceOK'
BY DEF PhaseOK, NonObjectOK, ObjectOK, FenceOK

(* a target that is there is linked to one more job                        *)
LEMMA WalkLinked ==
    ASSUME Inv, phase = "walk", todo # <<>>, NEW t, NEW r,
           t = Head(todo)[1], r = Head(todo)[2], t \in after_build,
           AddEdges({<<r, After(t)>>}), todo' = Tail(todo),
           UNCHANGED <<conf, after_build, phase, pos>>
    PROVE  Inv'
<1> DEFINE edges == {<<r, After(t)>>}
<1>1. ConfOK /\ GraphOK /\ TodoOK /\ SerialOK /\ PhaseOK /\ InnerOK
  BY DEF Inv
<1>2. /\ t \in Targets /\ Head(todo) = <<t, r>>
      /\ r = Root \/ \E u \in after_build : t < u /\ r = Before(u)
      /\ r \in DOMAIN deps
      /\ ~SomePolicy => r = Root
  BY WalkHead
<1>3. \A u \in after_build : After(u) \in Jobs(u) /\ Before(u) \in Jobs(u)
  BY DEF Jobs, Inner
<1>4. DownEdges(edges)
  <2>1. After(t) \in DOMAIN deps \ {Root}
    BY <1>1, <1>2, <1>3, JobShape DEF GraphOK
  <2>2. r # Root => Below(r, After(t))
    BY <1>1, <1>2, <1>3, AcrossTargets
  <2> QED BY <1>2, <2>1, <2>2 DEF DownEdges
<1>5. /\ GraphOK' /\ DOMAIN deps' = DOMAIN deps
      /\ \A n \in DOMAIN deps : deps[n] \subseteq deps'[n]
      /\ After(t) \in deps'[r]
  <2>1. AddEdges(edges) /\ <<r, After(t)>> \in edges
    OBVIOUS
  <2> HIDE DEF edges
  <2>2. /\ GraphOK' /\ DOMAIN deps' = DOMAIN deps
        /\ \A n \in DOMAIN deps : deps[n] \subseteq deps'[n]
        /\ \A e \in edges : e[2] \in deps'[e[1]]
    BY <1>1, <1>4, <2>1, AddInside
  <2>3. <<r, After(t)>>[2] \in deps'[<<r, After(t)>>[1]]
    BY <2>1, <2>2
  <2> QED BY <2>2, <2>3
<1>6. ConfOK'
  BY <1>1, SameProject
<1>7. todo \in Seq(Calls) /\ Hooked(Entries(todo)) /\ Waits(Entries(todo))
      /\ (~SomePolicy => AtRoot(Entries(todo)) /\ InnerClosed)
  BY <1>1, ByEntries
<1>8. todo' \in Seq(Calls) /\ Entries(todo) = {<<t, r>>} \cup Entries(todo')
  <2>1. Tail(todo) \in Seq(Calls) /\ Entries(todo) = {Head(todo)} \cup Entries(Tail(todo))
    BY <1>7, TailEntries
  <2> QED BY <1>2, <2>1
<1>9. \A u : After(u)' = After(u) /\ Before(u)' = Before(u) /\ Inner(u)' = Inner(u)
  BY SameProject DEF After, Before
<1> DEFINE E == Entries(todo)
<1>10. E' = Entries(todo')
  BY DEF Entries
<1> HIDE DEF E
<1>11. Hooked(E)'
  BY <1>7, <1>8, <1>9, <1>10 DEF Hooked, E
<1>12. Waits(E)'
  <2>1. ASSUME NEW v \in after_build, NEW d \in conf.deps[v], ~conf.parallel[d], conf.enabled[d]
        PROVE  After(d) \in deps'[Before(v)] \/ <<d, Before(v)>> \in Entries(todo')
    <3>1. CASE After(d) \in deps[Before(v)]
      <4>1. Before(v) \in DOMAIN deps
        BY <1>1, <1>3 DEF GraphOK
      <4> QED BY <1>5, <3>1, <4>1
    <3>2. CASE <<d, Before(v)>> \in Entries(todo)
      BY <1>5, <1>8, <3>2
    <3> QED BY <1>7, <2>1, <3>1, <3>2 DEF Waits
  <2> QED BY <1>9, <1>10, <2>1 DEF Waits
<1>13. ~SomePolicy => AtRoot(Entries(todo')) /\ InnerClosed'
  <2> SUFFICES ASSUME ~SomePolicy PROVE AtRoot(Entries(todo')) /\ InnerClosed'
    OBVIOUS
  <2>1. AtRoot(Entries(todo'))
    BY <1>7, <1>8 DEF AtRoot
  <2>2. ASSUME NEW v \in after_build, NEW n \in Inner(v) PROVE deps'[n] \subseteq Inner(v)
    <3>1. n \in DOMAIN deps /\ n # Root
      BY <1>1, OutsideInner DEF GraphOK, Jobs
    <3>2. \A k \in DOMAIN deps' : \A m \in deps'[k] :
             (k \in DOMAIN deps /\ m \in deps[k]) \/ \E e \in edges : e[1] = k /\ e[2] = m
      <4>1. AddEdges(edges)
        OBVIOUS
      <4> HIDE DEF edges
      <4> QED BY <4>1, AddEdgesProperties
    <3>3. deps'[n] \subseteq deps[n]
      BY <1>2, <1>5, <3>1, <3>2
    <3> QED BY <1>7, <2>2, <3>3 DEF InnerClosed
  <2> QED BY <1>9, <2>1, <2>2 DEF InnerClosed
<1>14. TodoOK' /\ SerialOK' /\ InnerOK'
  <2>1. SomePolicy' <=> SomePolicy
    BY DEF SomePolicy
  <2>2. /\ TodoOK' <=> (todo \in Seq(Calls) /\ Hooked(Entries(todo)) /\ (phase # "walk" => todo = <<>>))'
        /\ SerialOK' <=> Waits(Entries(todo))'
        /\ InnerOK' <=> (~SomePolicy' => AtRoot(Entries(todo))' /\ InnerClosed')
    BY ByEntries, PTL
  <2>3. (todo \in Seq(Calls))'
    <3>1. Calls' = Calls
      BY DEF Calls, Before
    <3> QED BY <1>8, <3>1
  <2>4. Hooked(Entries(todo))' /\ Waits(Entries(todo))' /\ (~SomePolicy => AtRoot(Entries(todo))')
    BY <1>11, <1>12, <1>13, <1>10 DEF E, AtRoot
  <2> QED BY <1>13, <2>1, <2>2, <2>3, <2>4
<1> QED BY <1>1, <1>5, <1>6, <1>14, WalkQuiet DEF Inv

(* a disabled target contributes nothing                                   *)
LEMMA WalkDisabled ==
    ASSUME Inv, phase = "walk", todo # <<>>, NEW t, t = Head(todo)[1],
           ~conf.enabled[t], todo' = Tail(todo),
           UNCHANGED <<conf, deps, after_build, phase, pos>>
    PROVE  Inv'
<1>1. ConfOK /\ GraphOK /\ TodoOK /\ SerialOK /\ PhaseOK /\ InnerOK
  BY DEF Inv
<1>2. todo \in Seq(Calls) /\ Hooked(Entries(todo)) /\ Waits(Entries(todo))
      /\ (~SomePolicy => AtRoot(Entries(todo)) /\ InnerClosed)
  BY <1>1, ByEntries
<1>3. /\ Tail(todo) \in Seq(Calls) /\ Entries(todo) = {Head(todo)} \cup Entries(Tail(todo))
  BY <1>2, TailEntries
<1> DEFINE E == Entries(todo)
<1>4. E' = Entries(Tail(todo))
  BY DEF Entries
<1> HIDE DEF E
<1>5. Hooked(E)' /\ AtRoot(E)' = AtRoot(Entries(Tail(todo))) /\ (AtRoot(E) => AtRoot(E)')
  BY <1>2, <1>3, <1>4 DEF Hooked, AtRoot, Before, E
<1>6. Waits(E)'
  <2>1. ASSUME NEW v \in after_build, NEW d \in conf.deps[v], ~conf.parallel[d], conf.enabled[d]
        PROVE  After(d) \in deps[Before(v)] \/ <<d, Before(v)>> \in E'
    <3>1. <<d, Before(v)>> # Head(todo)
      BY <2>1
    <3> QED BY <1>2, <1>3, <1>4, <2>1, <3>1 DEF Waits
  <2> QED BY <2>1 DEF Waits, After, Before
<1>7. InnerClosed' <=> InnerClosed
  BY DEF InnerClosed, Inner, Before, File, Group
<1>8. TodoOK' /\ SerialOK' /\ InnerOK'
  <2>1. SomePolicy' <=> SomePolicy
    BY DEF SomePolicy
  <2>2. /\ TodoOK' <=> (todo \in Seq(Calls) /\ Hooked(Entries(todo)) /\ (phase # "walk" => todo = <<>>))'
        /\ SerialOK' <=> Waits(Entries(todo))'
        /\ InnerOK' <=> (~SomePolicy' => AtRoot(Entries(todo))' /\ InnerClosed')
    BY ByEntries, PTL
  <2>3. (todo \in Seq(Calls))'
    <3>1. Calls' = Calls
      BY DEF Calls, Before
    <3> QED BY <1>3, <3>1
  <2> QED BY <1>2, <1>5, <1>6, <1>7, <2>1, <2>2, <2>3 DEF E
<1>9. GraphOK'
  <2>1. \A u : After(u)' = After(u) /\ Before(u)' = Before(u) /\ Jobs(u)' = Jobs(u)
               /\ Chain(u)' = Chain(u)
    BY SameProject DEF After, Before
  <2>2. \A n, m : Below(n, m)' <=> Below(n, m)
    BY SameProject
  <2> QED BY <1>1, <2>1, <2>2 DEF GraphOK
<1>10. ConfOK'
  BY <1>1, SameProject
<1> QED BY <1>1, <1>8, <1>9, <1>10, WalkQuiet DEF Inv

(* A new target is added with its chain, and its dependencies are put      *)
(* before the calls that remain.                                           *)
DepCalls(t, r) ==
    [i \in 1..Len(DepList(t)) |->
        <<DepList(t)[i], IF conf.parallel[DepList(t)[i]] THEN r ELSE Before(t)>>]

LEMMA DepCallsProperties ==
    ASSUME ConfOK, NEW t \in Targets, NEW r, r = Root \/ r \in {Before(u) : u \in Targets}
    PROVE  /\ DepCalls(t, r) \in Seq(Calls)
           /\ Entries(DepCalls(t, r)) =
                 {<<d, IF conf.parallel[d] THEN r ELSE Before(t)>> : d \in conf.deps[t]}
<1> DEFINE l == DepList(t)
           S == conf.deps[t]
           call(d) == <<d, IF conf.parallel[d] THEN r ELSE Before(t)>>
           c == DepCalls(t, r)
<1>1. S \in SUBSET Targets
  BY DEF ConfOK
<1>2. l \in Seq(S) /\ \A d \in S : \E i \in 1..Len(l) : l[i] = d
  BY <1>1, InOrderProperties DEF DepList, ConfOK
<1>3. c = [i \in 1..Len(l) |-> call(l[i])]
  BY DEF DepCalls
<1> HIDE DEF l, c
<1>4. Len(l) \in Nat /\ \A i \in 1..Len(l) : l[i] \in S
  BY <1>2
<1>5. \A d \in S : call(d) \in Calls
  BY <1>1 DEF Calls
<1> HIDE DEF call, S
<1>6. c \in Seq(Calls) /\ Len(c) = Len(l) /\ \A i \in 1..Len(l) : c[i] = call(l[i])
  BY <1>3, <1>4, <1>5
<1>7. Entries(c) = {call(d) : d \in S}
  BY <1>2, <1>4, <1>6 DEF Entries
<1> QED BY <1>6, <1>7 DEF c, call, S

LEMMA WalkNew ==
    ASSUME Inv, phase = "walk", todo # <<>>, NEW t, NEW r,
           t = Head(todo)[1], r = Head(todo)[2], t \notin after_build, conf.enabled[t],
           AddEdges({<<r, After(t)>>} \cup Chain(t)), todo' = DepCalls(t, r) \o Tail(todo),
           after_build' = after_build \cup {t}, UNCHANGED <<conf, phase, pos>>
    PROVE  Inv'
<1> DEFINE edges == {<<r, After(t)>>} \cup Chain(t)
<1>1. ConfOK /\ GraphOK /\ TodoOK /\ SerialOK /\ PhaseOK /\ InnerOK
  BY DEF Inv
<1>2. /\ t \in Targets /\ Head(todo) = <<t, r>>
      /\ r = Root \/ \E u \in after_build : t < u /\ r = Before(u)
      /\ r \in DOMAIN deps
      /\ ~SomePolicy => r = Root
  BY WalkHead
<1>3. after_build \subseteq Targets
  BY <1>1 DEF GraphOK
<1>4. \A u \in Targets : \A n \in Jobs(u) : n[1] = u /\ n # Root
  BY <1>1, JobShape
<1>5. \A u : After(u) \in Jobs(u) /\ Before(u) \in Jobs(u) /\ Inner(u) \subseteq Jobs(u)
  BY DEF Jobs, Inner
<1>6. \A n \in Jobs(t) : n \notin DOMAIN deps
  <2>1. \A n \in DOMAIN deps : n = Root \/ \E u \in after_build : n \in Jobs(u)
    BY <1>1 DEF GraphOK
  <2> QED BY <1>2, <1>3, <1>4, <2>1
<1>7. \A e \in Chain(t) : e[1] \in Jobs(t) /\ e[2] \in Jobs(t) /\ Below(e[1], e[2])
                          /\ (e[1] \in Inner(t) => e[2] \in Inner(t))
  BY <1>1, <1>2, ChainShape
<1>8. /\ DOMAIN deps' = DOMAIN deps \cup Jobs(t)
      /\ \A n \in DOMAIN deps : deps[n] \subseteq deps'[n]
      /\ After(t) \in deps'[r]
      /\ \A e \in Chain(t) : e[2] \in deps'[e[1]]
      /\ \A n \in DOMAIN deps' : \A m \in deps'[n] :
            \/ n \in DOMAIN deps /\ m \in deps[n]
            \/ n = r /\ m = After(t)
            \/ \E e \in Chain(t) : e[1] = n /\ e[2] = m
  <2>1. AddEdges(edges)
    OBVIOUS
  <2> DEFINE nodes == UNION {{e[1], e[2]} : e \in edges}
             chain == UNION {{e[1], e[2]} : e \in Chain(t)}
  <2>2. nodes = {r, After(t)} \cup chain
    <3>1. <<r, After(t)>>[1] = r /\ <<r, After(t)>>[2] = After(t)
      OBVIOUS
    <3>2. \A x : x \in nodes <=> x \in {r, After(t)} \/ x \in chain
      BY <3>1
    <3> HIDE DEF nodes, chain
    <3> QED BY <3>2
  <2>3. chain = Jobs(t)
    BY <1>1, <1>2, ChainNodes
  <2>4. \A e \in edges : e = <<r, After(t)>> \/ e \in Chain(t)
    OBVIOUS
  <2>5. <<r, After(t)>> \in edges /\ \A e \in Chain(t) : e \in edges
    OBVIOUS
  <2> HIDE DEF edges
  <2>6. /\ DOMAIN deps' = DOMAIN deps \cup nodes
        /\ \A n \in DOMAIN deps : deps[n] \subseteq deps'[n]
        /\ \A e \in edges : e[2] \in deps'[e[1]]
        /\ \A n \in DOMAIN deps' : \A m \in deps'[n] :
              \/ n \in DOMAIN deps /\ m \in deps[n]
              \/ \E e \in edges : e[1] = n /\ e[2] = m
    BY <2>1, AddEdgesProperties
  <2> HIDE DEF nodes, chain
  <2>7. DOMAIN deps' = DOMAIN deps \cup Jobs(t)
    BY <1>2, <1>5, <2>2, <2>3, <2>6
  <2>8. <<r, After(t)>>[2] \in deps'[<<r, After(t)>>[1]]
    BY <2>5, <2>6
  <2>9. After(t) \in deps'[r]
    BY <2>8
  <2>10. ASSUME NEW n \in DOMAIN deps', NEW m \in deps'[n]
         PROVE  \/ n \in DOMAIN deps /\ m \in deps[n]
                \/ n = r /\ m = After(t)
                \/ \E e \in Chain(t) : e[1] = n /\ e[2] = m
    <3>1. CASE \E e \in edges : e[1] = n /\ e[2] = m
      <4>1. PICK e \in edges : e[1] = n /\ e[2] = m
        BY <3>1
      <4>2. CASE e = <<r, After(t)>>
        BY <4>1, <4>2
      <4>3. CASE e \in Chain(t)
        BY <4>1, <4>3
      <4> QED BY <2>4, <4>2, <4>3
    <3> QED BY <2>6, <3>1
  <2> QED BY <2>5, <2>6, <2>7, <2>9, <2>10
<1>9. ASSUME NEW n \in DOMAIN deps, NEW m \in deps'[n]
      PROVE  m \in deps[n] \/ (n = r /\ m = After(t))
  BY <1>6, <1>7, <1>8, <1>9
<1>10. ASSUME NEW n \in Jobs(t), NEW m \in deps'[n]
       PROVE  \E e \in Chain(t) : e[1] = n /\ e[2] = m
  BY <1>2, <1>6, <1>8, <1>10
<1>11. \A u : /\ After(u)' = After(u) /\ Before(u)' = Before(u) /\ Jobs(u)' = Jobs(u)
              /\ Inner(u)' = Inner(u) /\ Chain(u)' = Chain(u)
  BY SameProject DEF After, Before
<1>12. GraphOK'
  <2>1. after_build' \subseteq {u \in Targets : conf'.enabled[u]}
    BY <1>1, <1>2 DEF GraphOK
  <2>2. DOMAIN deps' = {Root} \cup UNION {Jobs(u)' : u \in after_build'}
    <3>1. DOMAIN deps = {Root} \cup UNION {Jobs(u) : u \in after_build}
      BY <1>1 DEF GraphOK
    <3>2. {Jobs(u)' : u \in after_build'} = {Jobs(u) : u \in after_build} \cup {Jobs(t)}
      BY <1>11
    <3>3. UNION ({Jobs(u) : u \in after_build} \cup {Jobs(t)})
             = (UNION {Jobs(u) : u \in after_build}) \cup Jobs(t)
      OBVIOUS
    <3> QED BY <1>8, <3>1, <3>2, <3>3
  <2>3. ASSUME NEW n \in DOMAIN deps', NEW m \in deps'[n]
        PROVE  m \in DOMAIN deps' \ {Root} /\ (n # Root => Below(n, m))
    <3>1. CASE n \in DOMAIN deps
      <4>1. CASE m \in deps[n]
        BY <1>1, <1>8, <3>1, <4>1 DEF GraphOK
      <4>2. CASE n = r /\ m = After(t)
        <5>1. m \in DOMAIN deps' \ {Root} /\ m[1] = t
          BY <1>2, <1>4, <1>5, <1>8, <4>2
        <5>2. ASSUME NEW u \in after_build, t < u, r = Before(u) PROVE Below(n, m)
          <6>1. n[1] = u
            BY <1>3, <1>4, <1>5, <4>2, <5>2
          <6> QED BY <5>1, <5>2, <6>1 DEF Below
        <5> QED BY <1>2, <4>2, <5>1, <5>2
      <4> QED BY <1>9, <2>3, <3>1, <4>1, <4>2
    <3>2. CASE n \in Jobs(t)
      BY <1>2, <1>4, <1>7, <1>8, <1>10, <2>3, <3>2
    <3> QED BY <1>8, <3>1, <3>2
  <2>4. ASSUME NEW u \in after_build', NEW e \in Chain(u) PROVE e[2] \in deps'[e[1]]
    <3>1. CASE u = t
      BY <1>8, <2>4, <3>1
    <3>2. CASE u \in after_build
      <4>1. e[1] \in DOMAIN deps /\ e[2] \in deps[e[1]]
        BY <1>1, <1>3, <2>4, <3>2, ChainShape DEF GraphOK
      <4> QED BY <1>8, <4>1
    <3> QED BY <3>1, <3>2
  <2>5. ASSUME NEW u \in after_build'
        PROVE  \/ After(u) \in deps'[Root]
               \/ \E v \in after_build' : u < v /\ After(u) \in deps'[Before(v)]
    <3>1. CASE u = t
      BY <1>2, <1>8, <3>1
    <3>2. CASE u \in after_build
      <4>1. Root \in DOMAIN deps /\ \A v \in after_build : Before(v) \in DOMAIN deps
        BY <1>1, <1>5 DEF GraphOK
      <4> QED BY <1>1, <1>8, <3>2, <4>1 DEF GraphOK
    <3> QED BY <3>1, <3>2
  <2>6. \A n, m : Below(n, m)' <=> Below(n, m)
    BY SameProject
  <2> QED BY <1>11, <2>1, <2>2, <2>3, <2>4, <2>5, <2>6 DEF GraphOK
<1> DEFINE c == DepCalls(t, r)
           E == Entries(todo)
<1>13. /\ c \in Seq(Calls)
       /\ Entries(c) = {<<d, IF conf.parallel[d] THEN r ELSE Before(t)>> : d \in conf.deps[t]}
  <2>1. r = Root \/ r \in {Before(u) : u \in Targets}
    BY <1>2, <1>3
  <2> QED BY <1>1, <1>2, <2>1, DepCallsProperties
<1>14. todo \in Seq(Calls) /\ Hooked(E) /\ Waits(E) /\ (~SomePolicy => AtRoot(E) /\ InnerClosed)
  BY <1>1, ByEntries
<1>15. /\ todo' \in Seq(Calls)
       /\ E = {<<t, r>>} \cup Entries(Tail(todo))
       /\ E' = Entries(c) \cup Entries(Tail(todo))
  <2>1. Tail(todo) \in Seq(Calls) /\ Entries(todo) = {Head(todo)} \cup Entries(Tail(todo))
    BY <1>14, TailEntries
  <2> HIDE DEF c
  <2>2. todo' = c \o Tail(todo)
    BY DEF c
  <2>3. c \o Tail(todo) \in Seq(Calls)
        /\ Entries(c \o Tail(todo)) = Entries(c) \cup Entries(Tail(todo))
    <3> DEFINE rest == Tail(todo)
    <3>1. c \in Seq(Calls) /\ rest \in Seq(Calls)
      BY <1>13, <2>1
    <3> HIDE DEF rest
    <3>2. c \o rest \in Seq(Calls) /\ Entries(c \o rest) = Entries(c) \cup Entries(rest)
      BY <3>1, ConcatEntries
    <3> QED BY <3>2 DEF rest
  <2>4. E' = Entries(todo')
    BY DEF Entries
  <2> QED BY <1>2, <2>1, <2>2, <2>3, <2>4
<1>16. \A d \in conf.deps[t] : d \in Targets /\ d < t
  BY <1>1, <1>2, TargetsAreNumbers DEF ConfOK
<1>17. t \in Nat /\ \A u \in Targets : u \in Nat
  BY <1>2, TargetsAreNumbers
<1> HIDE DEF c, E
<1>18. Hooked(E)'
  <2>1. ASSUME NEW e \in Entries(c)
        PROVE  e[2] = Root \/ \E u \in after_build' : e[1] < u /\ e[2] = Before(u)
    <3>1. PICK d \in conf.deps[t] : e = <<d, IF conf.parallel[d] THEN r ELSE Before(t)>>
      BY <1>13, <2>1
    <3>2. CASE conf.parallel[d]
      <4>1. e[1] = d /\ e[2] = r
        BY <3>1, <3>2
      <4>2. ASSUME NEW u \in after_build, t < u, r = Before(u)
            PROVE  u \in after_build' /\ e[1] < u /\ e[2] = Before(u)
        <5>1. d \in Nat /\ t \in Nat /\ u \in Nat /\ d < t
          BY <1>3, <1>16, <1>17, <4>2
        <5> QED BY <4>1, <4>2, <5>1
      <4> QED BY <1>2, <4>1, <4>2
    <3>3. CASE ~conf.parallel[d]
      <4>1. e[1] = d /\ e[2] = Before(t) /\ d < t /\ t \in after_build'
        BY <1>16, <3>1, <3>3
      <4> QED BY <4>1
    <3> QED BY <3>2, <3>3
  <2>2. ASSUME NEW e \in Entries(Tail(todo))
        PROVE  e[2] = Root \/ \E u \in after_build' : e[1] < u /\ e[2] = Before(u)
    BY <1>14, <1>15, <2>2 DEF Hooked
  <2>3. \A e \in E' : e[2] = Root \/ \E u \in after_build' : e[1] < u /\ e[2] = Before(u)
    BY <1>15, <2>1, <2>2
  <2> QED BY <1>11, <2>3 DEF Hooked
<1>19. Waits(E)'
  <2>1. ASSUME NEW v \in after_build', NEW d \in conf.deps[v], ~conf.parallel[d], conf.enabled[d]
        PROVE  After(d) \in deps'[Before(v)] \/ <<d, Before(v)>> \in E'
    <3>1. CASE v = t
      <4>1. <<d, IF conf.parallel[d] THEN r ELSE Before(t)>> \in Entries(c)
        BY <1>13, <2>1, <3>1
      <4>2. <<d, Before(t)>> \in Entries(c)
        BY <2>1, <4>1
      <4> QED BY <1>15, <3>1, <4>2
    <3>2. CASE v \in after_build
      <4>1. CASE After(d) \in deps[Before(v)]
        <5>1. Before(v) \in DOMAIN deps
          BY <1>1, <1>5, <3>2 DEF GraphOK
        <5> QED BY <1>8, <4>1, <5>1
      <4>2. CASE <<d, Before(v)>> \in E
        <5>1. CASE <<d, Before(v)>> = <<t, r>>
          BY <1>8, <5>1
        <5>2. CASE <<d, Before(v)>> \in Entries(Tail(todo))
          BY <1>15, <5>2
        <5> QED BY <1>15, <4>2, <5>1, <5>2
      <4> QED BY <1>14, <2>1, <3>2, <4>1, <4>2 DEF Waits
    <3> QED BY <2>1, <3>1, <3>2
  <2> QED BY <1>11, <2>1 DEF Waits
<1>20. ~SomePolicy => AtRoot(E)' /\ InnerClosed'
  <2> SUFFICES ASSUME ~SomePolicy PROVE AtRoot(E)' /\ InnerClosed'
    OBVIOUS
  <2>1. r = Root /\ \A d \in Targets : conf.parallel[d]
    BY <1>2 DEF SomePolicy
  <2>2. \A e \in Entries(c) : e[2] = Root
    <3>1. \A d \in conf.deps[t] : <<d, IF conf.parallel[d] THEN r ELSE Before(t)>>[2] = Root
      BY <1>16, <2>1
    <3> QED BY <1>13, <3>1
  <2>3. AtRoot(E)'
    BY <1>14, <1>15, <2>2 DEF AtRoot
  <2>4. ASSUME NEW v \in after_build', NEW n \in Inner(v) PROVE deps'[n] \subseteq Inner(v)
    <3>1. CASE v = t
      <4>1. n \in Jobs(t)
        BY <1>5, <2>4, <3>1
      <4> QED BY <1>7, <1>10, <2>4, <3>1, <4>1
    <3>2. CASE v \in after_build
      <4>1. n \in DOMAIN deps /\ n # r
        BY <1>1, <1>3, <1>4, <1>5, <2>1, <2>4, <3>2 DEF GraphOK
      <4>2. deps'[n] \subseteq deps[n]
        BY <1>9, <4>1
      <4> QED BY <1>14, <2>4, <3>2, <4>2 DEF InnerClosed
    <3> QED BY <2>4, <3>1, <3>2
  <2> QED BY <1>11, <2>3, <2>4 DEF InnerClosed
<1>21. TodoOK' /\ SerialOK' /\ InnerOK'
  <2>1. SomePolicy' <=> SomePolicy
    BY DEF SomePolicy
  <2>2. /\ TodoOK' <=> (todo \in Seq(Calls) /\ Hooked(Entries(todo)) /\ (phase # "walk" => todo = <<>>))'
        /\ SerialOK' <=> Waits(Entries(todo))'
        /\ InnerOK' <=> (~SomePolicy' => AtRoot(Entries(todo))' /\ InnerClosed')
    BY ByEntries, PTL
  <2>3. (todo \in Seq(Calls))'
    <3>1. Calls' = Calls
      BY DEF Calls, Before
    <3> QED BY <1>15, <3>1
  <2> QED BY <1>18, <1>19, <1>20, <2>1, <2>2, <2>3 DEF E
<1>22. ConfOK'
  BY <1>1, SameProject
<1> QED BY <1>1, <1>12, <1>21, <1>22, WalkQuiet DEF Inv

LEMMA WalkInv == Inv /\ Walk => Inv'
<1> SUFFICES ASSUME Inv, Walk PROVE Inv'
  OBVIOUS
<1> DEFINE t == Head(todo)[1]
           r == Head(todo)[2]
<1>1. phase = "walk" /\ todo # <<>> /\ UNCHANGED <<conf, phase, pos>>
  BY DEF Walk
<1>2. \/ /\ t \in after_build
         /\ AddEdges({<<r, After(t)>>})
         /\ todo' = Tail(todo)
         /\ UNCHANGED after_build
      \/ /\ ~conf.enabled[t]
         /\ todo' = Tail(todo)
         /\ UNCHANGED <<deps, after_build>>
      \/ /\ t \notin after_build
         /\ conf.enabled[t]
         /\ AddEdges({<<r, After(t)>>} \cup Chain(t))
         /\ todo' = DepCalls(t, r) \o Tail(todo)
         /\ after_build' = after_build \cup {t}
  BY DEF Walk, DepCalls
<1>3. CASE /\ t \in after_build
           /\ AddEdges({<<r, After(t)>>})
           /\ todo' = Tail(todo)
           /\ UNCHANGED after_build
  BY <1>1, <1>3, WalkLinked
<1>4. CASE /\ ~conf.enabled[t]
           /\ todo' = Tail(todo)
           /\ UNCHANGED <<deps, after_build>>
  BY <1>1, <1>4, WalkDisabled
<1>5. CASE /\ t \notin after_build
           /\ conf.enabled[t]
           /\ AddEdges({<<r, After(t)>>} \cup Chain(t))
           /\ todo' = DepCalls(t, r) \o Tail(todo)
           /\ after_build' = after_build \cup {t}
  BY <1>1, <1>5, WalkNew
<1> QED BY <1>2, <1>3, <1>4, <1>5

(* a step that changes no variable but, at the end of the walk, the phase  *)
LEMMA SameGraph ==
    ASSUME Inv, UNCHANGED <<conf, deps, after_build, todo, pos>>,
           UNCHANGED phase \/ WalkDone
    PROVE  Inv'
<1>1. ConfOK /\ GraphOK /\ TodoOK /\ SerialOK /\ PhaseOK /\ InnerOK
      /\ NonObjectOK /\ ObjectOK /\ FenceOK
  BY DEF Inv
<1>2. \A u : /\ After(u)' = After(u) /\ Before(u)' = Before(u) /\ Jobs(u)' = Jobs(u)
             /\ Inner(u)' = Inner(u) /\ Chain(u)' = Chain(u)
             /\ OrderDeps(u)' = OrderDeps(u) /\ InheritDeps(u)' = InheritDeps(u)
             /\ BuildRoot(u)' = BuildRoot(u) /\ (NonObject(u)' <=> NonObject(u))
  BY SameProject DEF After, Before
<1>3. \A n, m : Below(n, m)' <=> Below(n, m)
  BY SameProject
<1>4. ConfOK' /\ GraphOK'
  BY <1>1, <1>2, <1>3, SameProject DEF GraphOK
<1>5. SerialOK' /\ InnerOK'
  BY <1>1, <1>2 DEF SerialOK, InnerOK
<1>6. TodoOK' /\ PhaseOK'
  BY <1>1, <1>2 DEF TodoOK, PhaseOK, WalkDone
<1>7. NonObjectOK' /\ ObjectOK' /\ FenceOK'
  <2>1. CASE UNCHANGED phase
    BY <1>1, <1>2, <2>1 DEF NonObjectOK, ObjectOK, FenceOK
  <2>2. CASE WalkDone
    <3>1. pos = 1 /\ phase' = "nonobject" /\ \A t \in after_build : ~(t < pos')
      BY <1>1, <2>2, TargetsAreNumbers DEF WalkDone, PhaseOK, GraphOK
    <3> QED BY <3>1 DEF NonObjectOK, ObjectOK, FenceOK
  <2> QED BY <2>1, <2>2
<1> QED BY <1>4, <1>5, <1>6, <1>7 DEF Inv

(* Inv is an invariant of the construction of the graph.                   *)
THEOREM InvHolds == Spec => []Inv
<1>1. Inv /\ [Next]_vars => Inv'
  <2> SUFFICES ASSUME Inv, [Next]_vars PROVE Inv'
    OBVIOUS
  <2>1. CASE Walk
    BY <2>1, WalkInv
  <2>2. CASE WalkDone
    BY <2>2, SameGraph DEF WalkDone
  <2>3. CASE NonObjectPatch
    BY <2>3, NonObjectPatchInv
  <2>4. CASE ObjectPatch
    BY <2>4, ObjectPatchInv
  <2>5. CASE FencePatch
    BY <2>5, FencePatchInv
  <2>6. CASE UNCHANGED vars
    BY <2>6, SameGraph DEF vars
  <2> QED BY <2>1, <2>2, <2>3, <2>4, <2>5, <2>6 DEF Next, Done
<1> QED BY <1>1, InitInv, PTL DEF Spec

-----------------------------------------------------------------------------
(* What the finished graph promises.                                       *)

(* every job of a target that was added hangs under the root               *)
LEMMA AllUnderRoot ==
    ASSUME ConfOK, GraphOK, NEW t \in after_build, NEW n \in Jobs(t)
    PROVE  n \in WaitsFor(Root)
<1> DEFINE W == WaitsFor(Root)
<1>1. N \in Nat /\ after_build \subseteq 1..N
  BY TargetsAreNumbers DEF GraphOK
<1>2. Root \in DOMAIN deps /\ \A u \in after_build : Jobs(u) \subseteq DOMAIN deps
  BY DEF GraphOK
<1>3. \A u : After(u) \in Jobs(u) /\ Before(u) \in Jobs(u)
  BY DEF Jobs, Inner
<1>4. deps[Root] \subseteq W /\ Closed(W) /\ \A m \in W : WaitsFor(m) \subseteq W
  BY <1>2, GraphWaits
<1>5. \A u \in after_build : \A m \in Jobs(u) : m = After(u) \/ m \in WaitsFor(After(u))
  BY ChainWaits
<1> HIDE DEF W
<1> DEFINE M == {k \in Nat : \A u \in after_build : N <= u + k => After(u) \in W}
<1>6. ASSUME NEW u \in after_build,
             \A v \in after_build : u < v => After(v) \in W
      PROVE  After(u) \in W
  <2>1. CASE After(u) \in deps[Root]
    BY <1>4, <2>1
  <2>2. ASSUME NEW v \in after_build, u < v, After(u) \in deps[Before(v)]
        PROVE  After(u) \in W
    <3>1. Before(v) = After(v) \/ Before(v) \in WaitsFor(After(v))
      BY <1>3, <1>5
    <3>2. Before(v) \in W
      BY <1>4, <1>6, <2>2, <3>1
    <3> QED BY <1>4, <2>2, <3>2 DEF Closed
  <2> QED BY <2>1, <2>2 DEF GraphOK
<1>7. 0 \in M
  <2>1. ASSUME NEW u \in after_build, N <= u + 0 PROVE After(u) \in W
    <3>1. \A v \in after_build : ~(u < v)
      BY <1>1, <2>1
    <3> QED BY <1>6, <3>1
  <2> QED BY <2>1
<1>8. ASSUME NEW k \in M PROVE k + 1 \in M
  <2>1. ASSUME NEW u \in after_build, N <= u + (k + 1) PROVE After(u) \in W
    <3>1. \A v \in after_build : u < v => N <= v + k
      BY <1>1, <2>1
    <3> QED BY <1>6, <3>1
  <2> QED BY <2>1
<1>9. M = Nat
  <2>1. M \in SUBSET Nat
    OBVIOUS
  <2> HIDE DEF M
  <2> QED BY <1>7, <1>8, <2>1, SetInduction
<1>10. After(t) \in W
  <2>1. N \in M
    BY <1>1, <1>9
  <2>2. N <= t + N
    BY <1>1
  <2> QED BY <2>1, <2>2
<1> QED BY <1>4, <1>5, <1>10 DEF W

(* no job waits for itself                                                 *)
LEMMA NoCycle ==
    ASSUME ConfOK, GraphOK, NEW n \in DOMAIN deps
    PROVE  n \notin WaitsFor(n)
<1>1. \A m \in DOMAIN deps : m = Root \/ \E t \in Targets : m \in Jobs(t)
  BY DEF GraphOK
<1>2. \A m \in DOMAIN deps : \A l \in deps[m] :
         l \in DOMAIN deps /\ l # Root /\ (m # Root => Below(m, l))
  BY DEF GraphOK
<1>3. CASE n = Root
  <2> DEFINE C == DOMAIN deps \ {Root}
  <2>1. deps[n] \subseteq C /\ Closed(C)
    BY <1>2 DEF Closed
  <2>2. WaitsFor(n) \subseteq C
    BY <2>1, GraphWaits
  <2> QED BY <1>3, <2>2
<1>4. CASE n # Root
  <2> DEFINE C == {m \in DOMAIN deps \ {Root} : Below(n, m)}
  <2>1. deps[n] \subseteq C
    BY <1>2, <1>4
  <2>2. ASSUME NEW m \in C, NEW l \in deps[m] PROVE l \in C
    <3>1. m \in DOMAIN deps /\ m # Root /\ Below(n, m)
      BY <2>2
    <3>2. l \in DOMAIN deps /\ l # Root /\ Below(m, l)
      BY <1>2, <2>2, <3>1
    <3>3. Below(n, l)
      BY <1>1, <1>4, <3>1, <3>2, BelowTransitive
    <3> QED BY <3>2, <3>3
  <2>3. Closed(C)
    BY <2>2 DEF Closed
  <2>4. WaitsFor(n) \subseteq C
    <3> HIDE DEF C
    <3> QED BY <2>1, <2>3, GraphWaits
  <2>5. ~Below(n, n)
    <3>1. PICK t \in Targets : n \in Jobs(t)
      BY <1>1, <1>4
    <3>2. n[1] = t /\ Level(n) \in Nat /\ t \in Nat
      BY <3>1, JobShape, TargetsAreNumbers
    <3> QED BY <3>2 DEF Below
  <2> QED BY <2>4, <2>5
<1> QED BY <1>3, <1>4

(* The graph of every project has no cycle and hangs under the root: the   *)
(* runner of the build is never left with jobs it cannot start.            *)
THEOREM EveryJobRunsHolds == Spec => []EveryJobRuns
<1>1. Inv => EveryJobRuns
  <2> SUFFICES ASSUME Inv PROVE EveryJobRuns
    OBVIOUS
  <2>1. ConfOK /\ GraphOK /\ PhaseOK
    BY DEF Inv
  <2>2. TypeOK
    BY <2>1 DEF TypeOK, GraphOK, PhaseOK
  <2>3. \A n \in DOMAIN deps : n \notin WaitsFor(n)
    BY <2>1, NoCycle
  <2>4. WaitsFor(Root) \subseteq DOMAIN deps /\ Root \in DOMAIN deps
    BY <2>1, GraphWaits DEF GraphOK
  <2>5. ASSUME NEW n \in DOMAIN deps PROVE n \in {Root} \cup WaitsFor(Root)
    <3>1. n = Root \/ \E t \in after_build : n \in Jobs(t)
      BY <2>1 DEF GraphOK
    <3> QED BY <2>1, <3>1, AllUnderRoot
  <2>6. DOMAIN deps = {Root} \cup WaitsFor(Root)
    BY <2>4, <2>5
  <2> QED BY <2>2, <2>3, <2>6 DEF EveryJobRuns
<1> QED BY <1>1, InvHolds, PTL

(* The link job of every target waits for the targets it depends on.       *)
THEOREM LinkWaitsForDepsHolds == Spec => []LinkWaitsForDeps
<1>1. Inv => LinkWaitsForDeps
  <2> SUFFICES ASSUME Inv, phase = "done", NEW t \in after_build
               PROVE  /\ NonObject(t) =>
                            \A d \in OrderDeps(t) \cap after_build :
                                After(d) \in WaitsFor(Link(t))
                      /\ conf.kind[t] = "object" =>
                            \A d \in InheritDeps(t) \cap after_build :
                                (NonObject(d) /\ conf.parallel[d]) => Link(d) \in WaitsFor(Link(t))
    BY DEF LinkWaitsForDeps
  <2>1. ConfOK /\ GraphOK /\ NonObjectOK /\ ObjectOK
    BY DEF Inv
  <2>2. ASSUME NEW n \in deps[BuildRoot(t)], conf.kind[t] # "phony"
        PROVE  n \in WaitsFor(Link(t))
    <3>1. Link(t) \in DOMAIN deps
      BY <2>1, <2>2 DEF GraphOK, Jobs
    <3>2. BuildRoot(t) = Link(t) \/ BuildRoot(t) \in WaitsFor(Link(t))
      BY <2>1, <2>2, ChainWaits
    <3> QED BY <2>1, <2>2, <3>1, <3>2, GraphWaits DEF Closed
  <2>3. ASSUME NonObject(t), NEW d \in OrderDeps(t) \cap after_build
        PROVE  After(d) \in WaitsFor(Link(t))
    <3>1. After(d) \in deps[BuildRoot(t)]
      BY <2>1, <2>3 DEF NonObjectOK
    <3>2. conf.kind[t] # "phony"
      BY <2>3 DEF NonObject
    <3> QED BY <2>2, <3>1, <3>2
  <2>4. ASSUME conf.kind[t] = "object", NEW d \in InheritDeps(t) \cap after_build,
               NonObject(d), conf.parallel[d]
        PROVE  Link(d) \in WaitsFor(Link(t))
    <3>1. BuildRoot(d) \in deps[BuildRoot(t)]
      BY <2>1, <2>4 DEF ObjectOK
    <3>2. BuildRoot(d) = Link(d)
      BY <2>4 DEF BuildRoot, NonObject
    <3> QED BY <2>2, <2>4, <3>1, <3>2
  <2> QED BY <2>3, <2>4
<1> QED BY <1>1, InvHolds, PTL

(* build.fence: the targets that a target depends on and that have the     *)
(* policy are complete before its first job.                               *)
THEOREM FenceHoldsAlways == Spec => []FenceHolds
<1>1. Inv => FenceHolds
  <2> SUFFICES ASSUME Inv, phase = "done", NEW t \in after_build,
                      NEW d \in OrderDeps(t) \cap after_build, conf.fence[d]
               PROVE  After(d) \in WaitsFor(Before(t))
    BY DEF FenceHolds
  <2>1. ConfOK /\ GraphOK /\ FenceOK
    BY DEF Inv
  <2>2. After(d) \in deps[Before(t)]
    BY <2>1 DEF FenceOK
  <2>3. Before(t) \in DOMAIN deps
    BY <2>1 DEF GraphOK, Jobs, Inner
  <2> QED BY <2>1, <2>2, <2>3, GraphWaits
<1> QED BY <1>1, InvHolds, PTL

(* A direct dependency that is not built across targets in parallel is     *)
(* complete before the first job of the target.                            *)
THEOREM SerialDepFirstHolds == Spec => []SerialDepFirst
<1>1. Inv => SerialDepFirst
  <2> SUFFICES ASSUME Inv, phase = "done", NEW t \in after_build,
                      NEW d \in conf.deps[t] \cap after_build, ~conf.parallel[d]
               PROVE  After(d) \in WaitsFor(Before(t))
    BY DEF SerialDepFirst
  <2>1. ConfOK /\ GraphOK /\ SerialOK /\ TodoOK
    BY DEF Inv
  <2>2. conf.enabled[d] /\ todo = <<>>
    BY <2>1 DEF GraphOK, TodoOK
  <2>3. ~\E i \in 1..Len(todo) : todo[i] = <<d, Before(t)>>
    BY <2>2
  <2>4. After(d) \in deps[Before(t)]
    BY <2>1, <2>2, <2>3 DEF SerialOK
  <2>5. Before(t) \in DOMAIN deps
    BY <2>1 DEF GraphOK, Jobs, Inner
  <2> QED BY <2>1, <2>4, <2>5, GraphWaits
<1> QED BY <1>1, InvHolds, PTL

(* Without the policies a source file waits for jobs of its own target     *)
(* only.                                                                   *)
THEOREM CompilesInParallelHolds == Spec => []CompilesInParallel
<1>1. Inv => CompilesInParallel
  <2> SUFFICES ASSUME Inv, \A t \in Targets : conf.parallel[t] /\ ~conf.fence[t],
                      NEW t \in after_build, NEW i \in 1..N, File(t, i) \in DOMAIN deps,
                      NEW n \in WaitsFor(File(t, i))
               PROVE  n[1] = t
    BY DEF CompilesInParallel
  <2>1. ConfOK /\ GraphOK /\ InnerOK /\ t \in Targets
    BY DEF Inv, GraphOK
  <2>2. \A k \in Inner(t) : deps[k] \subseteq Inner(t)
    BY <2>1 DEF InnerOK
  <2>3. File(t, i) \in Inner(t)
    <3>1. PICK u \in after_build : File(t, i) \in Jobs(u)
      <4>1. File(t, i) # Root
        BY <2>1, BuildGraphAssumption, TargetsAreNumbers DEF File
      <4> QED BY <2>1, <4>1 DEF GraphOK
    <3>2. File(t, i)[1] = u /\ File(t, i)[1] = t
      BY <2>1, <3>1, JobShape DEF GraphOK, File
    <3>3. File(t, i) # After(t) /\ File(t, i) # Link(t)
      BY DEF File, After, Link
    <3> QED BY <3>1, <3>2, <3>3 DEF Jobs
  <2>4. WaitsFor(File(t, i)) \subseteq Inner(t)
    BY <2>1, <2>2, <2>3, GraphWaits DEF Closed
  <2>5. \A k \in Inner(t) : k[1] = t
    BY <2>1, JobShape DEF Jobs
  <2> QED BY <2>4, <2>5
<1> QED BY <1>1, InvHolds, PTL
=============================================================================
