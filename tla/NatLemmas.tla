----------------------------- MODULE NatLemmas -----------------------------
(* Facts about naturals that the proofs rest on: least and greatest          *)
(* elements, induction up to a bound and the run of a loop, the winner among *)
(* ranked candidates, and sums in the arithmetic of machine words.           *)
EXTENDS Integers, WellFoundedInduction, TLAPS

(* Any nonempty set of naturals has a least element. *)
LEMMA LeastNatural ==
  ASSUME NEW T \in SUBSET Nat, T # {}
  PROVE  \E x \in T : \A y \in T : x <= y
<1>1. IsWellFoundedOn(OpToRel(<, Nat), Nat)
  BY NatLessThanWellFounded
<1>2. PICK x \in T : \A y \in T : ~ (<<y, x>> \in OpToRel(<, Nat))
  BY <1>1, WFMin
<1>3. \A y \in T : ~ (y < x)
  BY <1>2 DEF OpToRel
<1> QED
  BY <1>3

(* Any nonempty set of naturals that has a bound has a greatest element. *)
LEMMA GreatestNatural ==
  ASSUME NEW T \in SUBSET Nat, T # {}, NEW b \in Nat, \A x \in T : x <= b
  PROVE  \E x \in T : \A y \in T : y <= x
<1> DEFINE Gap == {b - x : x \in T}
<1>1. Gap \in SUBSET Nat /\ Gap # {}
  <2>1. \A x \in T : b - x \in Nat
    OBVIOUS
  <2> QED
    BY <2>1
<1>2. PICK g \in Gap : \A h \in Gap : g <= h
  <2> HIDE DEF Gap
  <2> QED
    BY <1>1, LeastNatural
<1>3. PICK x \in T : g = b - x
  OBVIOUS
<1>4. ASSUME NEW y \in T PROVE y <= x
  <2>1. b - y \in Gap
    OBVIOUS
  <2>2. b - x <= b - y
    BY <1>2, <1>3, <2>1
  <2> QED
    BY <2>2
<1> QED
  BY <1>4

(* Induction up to a bound, over the set of the numbers that have a property. *)
LEMMA IntervalInduction ==
  ASSUME NEW N \in Nat, NEW P, 0 \in P,
         \A n \in 0..N : n \in P /\ n < N => n + 1 \in P
  PROVE  \A n \in 0..N : n \in P
<1> DEFINE Bad == (0..N) \ P
<1> SUFFICES ASSUME Bad # {} PROVE FALSE
  OBVIOUS
<1>1. PICK x \in Bad : \A y \in Bad : x <= y
  <2>1. Bad \in SUBSET Nat
    OBVIOUS
  <2> HIDE DEF Bad
  <2> QED
    BY <2>1, LeastNatural
<1>2. x - 1 \in 0..N /\ x - 1 < N /\ x - 1 \notin Bad
  BY <1>1
<1>3. (x - 1) + 1 \in P
  BY <1>2
<1> QED
  BY <1>1, <1>3

(* A loop that takes acc to step[<<acc, n>>] in its n-th iteration has a run, and *)
(* all its values stay where the steps lead.                                  *)
LEMMA LoopHasRun ==
  ASSUME NEW N \in Nat, NEW A, NEW start \in A, NEW step \in [A \X (1..N) -> A]
  PROVE  \E f \in [0..N -> A] :
            f[0] = start /\ \A n \in 1..N : f[n] = step[<<f[n - 1], n>>]
<1> DEFINE Run(f, n) == /\ f \in [0..n -> A] /\ f[0] = start
                        /\ \A i \in 1..n : f[i] = step[<<f[i - 1], i>>]
           P == {n \in 0..N : \E f : Run(f, n)}
<1>1. 0 \in P
  <2>1. Run([i \in 0..0 |-> start], 0)
    OBVIOUS
  <2>2. \E f : Run(f, 0)
    <3> HIDE DEF Run
    <3> QED
      BY <2>1
  <2> QED
    BY <2>2
<1>2. ASSUME NEW n \in 0..N, n \in P, n < N PROVE n + 1 \in P
  <2>1. PICK f : Run(f, n)
    BY <1>2
  <2> DEFINE g == [k \in 0..(n + 1) |-> IF k = n + 1 THEN step[<<f[n], n + 1>>] ELSE f[k]]
  <2>2. f[n] \in A /\ n + 1 \in 1..N
    BY <2>1, <1>2
  <2>3. step[<<f[n], n + 1>>] \in A
    BY <2>2
  <2>4. g \in [0..(n + 1) -> A] /\ g[0] = start
    BY <2>1, <2>3
  <2>5. ASSUME NEW i \in 1..(n + 1) PROVE g[i] = step[<<g[i - 1], i>>]
    <3>1. \A k \in 0..n : g[k] = f[k]
      OBVIOUS
    <3>2. g[i - 1] = f[i - 1]
      <4>1. i - 1 \in 0..n
        OBVIOUS
      <4> HIDE DEF g
      <4> QED
        BY <3>1, <4>1
    <3>3. CASE i = n + 1
      <4>1. g[n + 1] = step[<<f[n], n + 1>>] /\ i - 1 = n
        BY <3>3
      <4> HIDE DEF g
      <4> QED
        BY <3>2, <3>3, <4>1
    <3>4. CASE i # n + 1
      <4>1. i \in 1..n
        BY <3>4
      <4>2. g[i] = f[i]
        BY <4>1
      <4> QED
        BY <2>1, <3>2, <4>1, <4>2
    <3> QED
      BY <3>3, <3>4
  <2>6. Run(g, n + 1)
    <3> HIDE DEF g
    <3> QED
      BY <2>4, <2>5
  <2>7. \E h : Run(h, n + 1)
    <3> HIDE DEF Run, g
    <3> QED
      BY <2>6
  <2> QED
    BY <2>2, <2>7
<1>3. N \in P
  <2> HIDE DEF P
  <2> QED
    BY <1>1, <1>2, IntervalInduction
<1>4. PICK f : Run(f, N)
  BY <1>3
<1> QED
  BY <1>4

(* The words of a packet can be summed up one after the other. *)
LEMMA SumHasRun ==
  ASSUME NEW N \in Nat, NEW w
  PROVE  \E f : f = [n \in 0..N |-> IF n = 0 THEN 0 ELSE f[n - 1] + w[n]]
<1> DEFINE Run(f, n) == f = [i \in 0..n |-> IF i = 0 THEN 0 ELSE f[i - 1] + w[i]]
           P == {n \in 0..N : \E f : Run(f, n)}
<1>1. 0 \in P
  <2>1. Run([i \in 0..0 |-> 0], 0)
    OBVIOUS
  <2>2. \E f : Run(f, 0)
    <3> HIDE DEF Run
    <3> QED
      BY <2>1
  <2> QED
    BY <2>2
<1>2. ASSUME NEW n \in 0..N, n \in P, n < N PROVE n + 1 \in P
  <2>1. PICK f : Run(f, n)
    BY <1>2
  <2> DEFINE last == f[n] + w[n + 1]
             g == [i \in 0..(n + 1) |-> IF i = n + 1 THEN last ELSE f[i]]
  <2>2. \A i \in 0..n : g[i] = f[i]
    OBVIOUS
  <2>3. g[n + 1] = last /\ (n + 1) - 1 = n /\ n + 1 # 0
    OBVIOUS
  <2>4. \A i \in 0..n : f[i] = IF i = 0 THEN 0 ELSE f[i - 1] + w[i]
    BY <2>1
  <2>5. ASSUME NEW i \in 0..(n + 1)
        PROVE  g[i] = IF i = 0 THEN 0 ELSE g[i - 1] + w[i]
    <3>1. i # 0 => g[i - 1] = f[i - 1]
      <4>1. i # 0 => i - 1 \in 0..n
        OBVIOUS
      <4> HIDE DEF g
      <4> QED
        BY <2>2, <4>1
    <3>2. CASE i = n + 1
      <4> HIDE DEF g
      <4> QED
        BY <2>3, <3>1, <3>2
    <3>3. CASE i # n + 1
      <4>1. i \in 0..n
        BY <3>3
      <4> HIDE DEF g
      <4> QED
        BY <2>2, <2>4, <3>1, <4>1
    <3> QED
      BY <3>2, <3>3
  <2>6. Run(g, n + 1)
    <3>1. g = [i \in 0..(n + 1) |-> g[i]]
      OBVIOUS
    <3> HIDE DEF g
    <3> QED
      BY <2>5, <3>1
  <2>7. \E h : Run(h, n + 1)
    <3> HIDE DEF Run, g
    <3> QED
      BY <2>6
  <2> QED
    BY <1>2, <2>7
<1>3. N \in P
  <2> HIDE DEF P
  <2> QED
    BY <1>1, <1>2, IntervalInduction
<1> QED
  BY <1>3

(* f[n] is where next, applied to n again and again, meets Stop. *)
Descends(f, N, Stop, next) ==
  f = [n \in 0..N |-> IF n \in Stop THEN n ELSE f[next[n]]]

(* A rule that takes every number it does not stop at to a smaller one comes *)
(* to an end: the numbers it ends with are those of a function.              *)
LEMMA DescentHasRun ==
  ASSUME NEW N \in Nat, NEW Stop, NEW next,
         \A n \in (0..N) \ Stop : next[n] \in 0..(n - 1)
  PROVE  \E f : Descends(f, N, Stop, next)
<1> DEFINE Run(f, n) == f = [i \in 0..n |-> IF i \in Stop THEN i ELSE f[next[i]]]
           P == {n \in 0..N : \E f : Run(f, n)}
<1>1. 0 \in P
  <2>1. 0 \in Stop
    OBVIOUS
  <2>2. Run([i \in 0..0 |-> 0], 0)
    BY <2>1
  <2>3. \E f : Run(f, 0)
    <3> HIDE DEF Run
    <3> QED
      BY <2>2
  <2> QED
    BY <2>3
<1>2. ASSUME NEW n \in 0..N, n \in P, n < N PROVE n + 1 \in P
  <2>1. PICK f : Run(f, n)
    BY <1>2
  <2> DEFINE last == IF n + 1 \in Stop THEN n + 1 ELSE f[next[n + 1]]
             g == [i \in 0..(n + 1) |-> IF i = n + 1 THEN last ELSE f[i]]
  <2>2. \A i \in 0..n : g[i] = f[i]
    OBVIOUS
  <2>3. g[n + 1] = last
    OBVIOUS
  <2>4. \A i \in 0..n : f[i] = IF i \in Stop THEN i ELSE f[next[i]]
    BY <2>1
  <2>5. ASSUME NEW i \in 0..(n + 1)
        PROVE  g[i] = IF i \in Stop THEN i ELSE g[next[i]]
    <3>1. i \notin Stop => next[i] \in 0..n /\ next[i] \in 0..(i - 1)
      <4>1. i \in 0..N
        BY <1>2
      <4>2. i \notin Stop => next[i] \in 0..(i - 1)
        BY <4>1
      <4> QED
        BY <4>2
    <3>2. i \notin Stop => g[next[i]] = f[next[i]]
      <4> HIDE DEF g
      <4> QED
        BY <2>2, <3>1
    <3>3. CASE i = n + 1
      <4> HIDE DEF g
      <4> QED
        BY <2>3, <3>2, <3>3
    <3>4. CASE i # n + 1
      <4>1. i \in 0..n
        BY <3>4
      <4> HIDE DEF g
      <4> QED
        BY <2>2, <2>4, <3>2, <4>1
    <3> QED
      BY <3>3, <3>4
  <2>6. Run(g, n + 1)
    <3> DEFINE G == 0..(n + 1)
               body == [i \in G |-> IF i \in Stop THEN i ELSE g[next[i]]]
    <3>1. g = [i \in G |-> g[i]]
      OBVIOUS
    <3>2. \A i \in G : g[i] = IF i \in Stop THEN i ELSE g[next[i]]
      BY <2>5
    <3> HIDE DEF g
    <3>3. g = body
      BY <3>1, <3>2
    <3> QED
      BY <3>3
  <2>7. \E h : Run(h, n + 1)
    <3> HIDE DEF Run, g
    <3> QED
      BY <2>6
  <2> QED
    BY <1>2, <2>7
<1>3. N \in P
  <2> HIDE DEF P
  <2> QED
    BY <1>1, <1>2, IntervalInduction
<1> QED
  BY <1>3 DEF Descends

(* Among finitely ranked naturals some element of the highest rank is least *)
(* among its equals: the winner of a scan by priority.                      *)
LEMMA RankedWinner ==
  ASSUME NEW top \in Nat, NEW T \in SUBSET Nat, T # {},
         NEW rank, \A x \in T : rank[x] \in 0..top
  PROVE  \E x \in T : \A y \in T : \/ rank[x] > rank[y]
                                   \/ rank[x] = rank[y] /\ x <= y
<1> DEFINE Gap == {top - rank[x] : x \in T}
<1>1. PICK g \in Gap : \A h \in Gap : g <= h
  <2>1. \A x \in T : top - rank[x] \in Nat
    OBVIOUS
  <2>2. Gap \in SUBSET Nat /\ Gap # {}
    BY <2>1
  <2> HIDE DEF Gap
  <2> QED
    BY <2>2, LeastNatural
<1> DEFINE Best == {x \in T : top - rank[x] = g}
<1>2. PICK x \in Best : \A y \in Best : x <= y
  <2>1. Best \in SUBSET Nat /\ Best # {}
    BY <1>1
  <2> HIDE DEF Best
  <2> QED
    BY <2>1, LeastNatural
<1>3. ASSUME NEW y \in T
      PROVE  rank[x] > rank[y] \/ (rank[x] = rank[y] /\ x <= y)
  <2>1. g <= top - rank[y] /\ top - rank[x] = g
    BY <1>1, <1>2
  <2>2. rank[x] \in 0..top /\ rank[y] \in 0..top
    BY <1>2
  <2>3. rank[x] = rank[y] => x <= y
    BY <1>2, <2>1
  <2> QED
    BY <2>1, <2>2, <2>3
<1> QED
  BY <1>2, <1>3

(* Bounded and finitely ranked, some element of the highest rank is the      *)
(* greatest among its equals: the winner of a scan that lets the last win.   *)
LEMMA RankedLast ==
  ASSUME NEW top \in Nat, NEW b \in Nat, NEW T \in SUBSET (0..b), T # {},
         NEW rank, \A x \in T : rank[x] \in 0..top
  PROVE  \E x \in T : \A y \in T : rank[y] < rank[x] \/ (rank[x] = rank[y] /\ y <= x)
<1> DEFINE Ranks == {rank[x] : x \in T}
<1>1. PICK r \in Ranks : \A q \in Ranks : q <= r
  <2>1. Ranks \subseteq 0..top /\ Ranks # {}
    OBVIOUS
  <2> HIDE DEF Ranks
  <2>2. \A y \in Ranks : y \in 0..top
    BY <2>1
  <2>3. Ranks \in SUBSET Nat /\ \A y \in Ranks : y <= top
    BY <2>2
  <2> QED
    BY <2>1, <2>3, GreatestNatural
<1> DEFINE Best == {x \in T : rank[x] = r}
<1>2. PICK x \in Best : \A y \in Best : y <= x
  <2>1. Best \subseteq 0..b /\ Best # {}
    BY <1>1
  <2> HIDE DEF Best
  <2>2. \A y \in Best : y \in 0..b
    BY <2>1
  <2>3. Best \in SUBSET Nat /\ \A y \in Best : y <= b
    BY <2>2
  <2> QED
    BY <2>1, <2>3, GreatestNatural
<1>3. ASSUME NEW y \in T
      PROVE  rank[y] < rank[x] \/ (rank[x] = rank[y] /\ y <= x)
  <2>1. rank[y] <= r /\ rank[x] = r
    BY <1>1, <1>2
  <2>2. rank[x] \in 0..top /\ rank[y] \in 0..top
    BY <1>2
  <2>3. rank[x] = rank[y] => y <= x
    BY <1>2, <2>1
  <2> QED
    BY <2>1, <2>2, <2>3
<1> QED
  BY <1>2, <1>3

-----------------------------------------------------------------------------
(* Quotient and remainder of an integer. *)
LEMMA ModSplit ==
  ASSUME NEW m \in Nat \ {0}, NEW x \in Int
  PROVE  /\ x % m \in 0..(m - 1)
         /\ x \div m \in Int
         /\ x = m * (x \div m) + (x % m)
OBVIOUS

LEMMA ModUnique ==
  ASSUME NEW m \in Nat \ {0}, NEW q \in Int, NEW r \in 0..(m - 1)
  PROVE  (m * q + r) % m = r
OBVIOUS

(* A natural below the modulus is its own remainder. *)
LEMMA SmallModulo ==
  ASSUME NEW x \in Nat, NEW M \in Nat, x < M
  PROVE  (x + 1) % (M + 1) = x + 1
<1>1. x + 1 \in 0..M
  OBVIOUS
<1>2. ((M + 1) * 0 + (x + 1)) % (M + 1) = x + 1
  BY <1>1, ModUnique
<1> QED
  BY <1>2

LEMMA Distributes ==
  ASSUME NEW m \in Int, NEW a \in Int, NEW b \in Int
  PROVE  m * (a + b) = m * a + m * b
OBVIOUS

(* Reducing before an addition does not change the reduced sum. *)
LEMMA ModAdd ==
  ASSUME NEW m \in Nat \ {0}, NEW x \in Int, NEW y \in Int
  PROVE  ((x % m) + y) % m = (x + y) % m
<1> DEFINE z == (x % m) + y
           a == x \div m
           b == z \div m
           r == z % m
<1>1. x % m \in Int /\ a \in Int /\ x = m * a + (x % m)
  BY ModSplit
<1>2. z \in Int
  BY <1>1
<1>3. r \in 0..(m - 1) /\ b \in Int /\ z = m * b + r
  <2> HIDE DEF z
  <2> QED
    BY <1>2, ModSplit
<1>4. x + y = m * a + z
  BY <1>1
<1> HIDE DEF z, a, b, r
<1>5. m * (a + b) = m * a + m * b
  BY <1>1, <1>3, Distributes
<1>6. m * a \in Int /\ m * b \in Int
  BY <1>1, <1>3
<1>7. x + y = m * (a + b) + r
  BY <1>2, <1>3, <1>4, <1>5, <1>6
<1>8. (m * (a + b) + r) % m = r
  BY <1>1, <1>3, ModUnique
<1> QED
  BY <1>7, <1>8 DEF r, z

=============================================================================
