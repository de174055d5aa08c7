----------------------------- MODULE Recursion -----------------------------
(***************************************************************************)
(* Induction and recursion for theorems about recursive functions. The     *)
(* principles speak of sets and functions in the place of predicates and   *)
(* operators, so that they are cited like any other lemma.                 *)
(***************************************************************************)
EXTENDS Integers, SequencesExt, WellFoundedInduction, TLAPS

(* A set of natural numbers has a least element.                           *)
LEMMA LeastElement ==
    ASSUME NEW S \in SUBSET Nat, S # {}
    PROVE  \E n \in S : \A m \in S : n <= m
<1> DEFINE R == OpToRel(<, Nat)
<1>1. IsWellFoundedOn(R, Nat)
  BY NatLessThanWellFounded
<1>2. \A x, y \in Nat : y < x => <<y, x>> \in R
  BY DEF OpToRel
<1> HIDE DEF R
<1>3. PICK x \in S : \A y \in S : ~ (<<y, x>> \in R)
  BY <1>1, WFMin
<1>4. \A y \in S : ~ (y < x)
  BY <1>2, <1>3
<1>5. x \in S /\ \A y \in S : x <= y
  BY <1>4
<1> QED
  BY <1>5

LEMMA Induction ==
    ASSUME NEW P, 0 \in P, \A n \in Nat : n \in P => n + 1 \in P
    PROVE  \A n \in Nat : n \in P
<1> SUFFICES ASSUME NEW k \in Nat, k \notin P PROVE FALSE
  OBVIOUS
<1>1. PICK n \in Nat \ P : \A m \in Nat \ P : n <= m
  <2>1. Nat \ P \in SUBSET Nat /\ Nat \ P # {}
    OBVIOUS
  <2> QED
    BY <2>1, LeastElement
<1>2. n # 0 /\ n - 1 \in Nat /\ ~(n <= n - 1)
  OBVIOUS
<1>3. n - 1 \in P
  BY <1>1, <1>2
<1> QED
  BY <1>2, <1>3

(* Induction between two bounds.                                           *)
LEMMA Upward ==
    ASSUME NEW n \in Nat, NEW S, 0 \in S, \A i \in 1 .. n : i - 1 \in S => i \in S
    PROVE  \A i \in 0 .. n : i \in S
<1> DEFINE P == {k \in Nat : k <= n => k \in S}
<1>1. 0 \in P
  OBVIOUS
<1>2. ASSUME NEW k \in Nat, k \in P PROVE k + 1 \in P
  <2> SUFFICES ASSUME k + 1 <= n PROVE k + 1 \in S
    OBVIOUS
  <2>1. k + 1 \in 1 .. n /\ (k + 1) - 1 = k /\ k <= n
    OBVIOUS
  <2> QED
    BY <1>2, <2>1
<1>3. \A k \in Nat : k \in P
  <2> HIDE DEF P
  <2> QED
    BY <1>1, <1>2, Induction
<1> QED
  BY <1>3

LEMMA Downward ==
    ASSUME NEW n \in Nat, NEW S, n \in S, \A i \in 1 .. n : i \in S => i - 1 \in S
    PROVE  \A i \in 0 .. n : i \in S
<1> DEFINE P == {k \in Nat : k <= n => n - k \in S}
<1>1. 0 \in P
  BY n - 0 = n
<1>2. ASSUME NEW k \in Nat, k \in P PROVE k + 1 \in P
  <2> SUFFICES ASSUME k + 1 <= n PROVE n - (k + 1) \in S
    OBVIOUS
  <2>1. n - k \in 1 .. n /\ (n - k) - 1 = n - (k + 1) /\ k <= n
    OBVIOUS
  <2> QED
    BY <1>2, <2>1
<1>3. \A k \in Nat : k \in P
  <2> HIDE DEF P
  <2> QED
    BY <1>1, <1>2, Induction
<1> QED
  <2> TAKE i \in 0 .. n
  <2>1. n - i \in Nat /\ n - i <= n /\ n - (n - i) = i
    OBVIOUS
  <2> QED
    BY <1>3, <2>1

(* Induction on a measure of the elements of a set.                        *)
LEMMA MeasureInduction ==
    ASSUME NEW A, NEW size \in [A -> Nat], NEW P,
           \A x \in A : (\A y \in A : size[y] < size[x] => y \in P) => x \in P
    PROVE  \A x \in A : x \in P
<1> DEFINE Bad == {size[x] : x \in A \ P}
<1> SUFFICES ASSUME Bad # {} PROVE FALSE
  OBVIOUS
<1>1. PICK n \in Bad : \A m \in Bad : n <= m
  <2>1. Bad \in SUBSET Nat
    OBVIOUS
  <2> HIDE DEF Bad
  <2> QED
    BY <2>1, LeastElement
<1>2. PICK x \in A \ P : n = size[x]
  BY <1>1
<1>3. ASSUME NEW y \in A, size[y] < size[x] PROVE y \in P
  <2>1. size[y] \in Nat /\ n \in Nat /\ ~(n <= size[y])
    BY <1>2, <1>3
  <2>2. size[y] \notin Bad
    BY <1>1, <2>1
  <2> QED
    BY <2>2
<1>4. x \in P
  BY <1>3
<1> QED
  BY <1>4

(***************************************************************************)
(* A function from A to S is defined by recursion when the value D[f][x]   *)
(* at x depends on f only where the measure is less than at x.             *)
(***************************************************************************)
IsRecursion(A, S, size, D) ==
    /\ S # {}
    /\ size \in [A -> Nat]
    /\ D \in [[A -> S] -> [A -> S]]
    /\ \A g, h \in [A -> S] : \A x \in A :
            (\A y \in A : size[y] < size[x] => g[y] = h[y]) => D[g][x] = D[h][x]

IsDefined(f, A, S, D) == f \in [A -> S] /\ f = D[f]

LEMMA RecursiveFunction ==
    ASSUME NEW A, NEW S, NEW size, NEW D, IsRecursion(A, S, size, D)
    PROVE  \E f : IsDefined(f, A, S, D)
<1>0. PICK s \in S : TRUE
  BY DEF IsRecursion
<1>  size \in [A -> Nat] /\ D \in [[A -> S] -> [A -> S]]
  BY DEF IsRecursion
<1>  \A g, h \in [A -> S] : \A x \in A :
        (\A y \in A : size[y] < size[x] => g[y] = h[y]) => D[g][x] = D[h][x]
  BY DEF IsRecursion
<1> DEFINE Good(n) == {g \in [A -> S] : \A x \in A : size[x] < n => g[x] = D[g][x]}
           P == {n \in Nat : Good(n) # {}}
           G(n) == CHOOSE g \in Good(n) : TRUE
           f == [x \in A |-> G(size[x] + 1)[x]]
<1>1. \A n \in Nat : Good(n) # {}
  <2>1. 0 \in P
    <3>1. [x \in A |-> s] \in Good(0)
      OBVIOUS
    <3> QED
      BY <3>1
  <2>2. ASSUME NEW n \in P PROVE n + 1 \in P
    <3>1. PICK g \in Good(n) : TRUE
      OBVIOUS
    <3> DEFINE h == [x \in A |-> D[g][x]]
    <3>2. h \in [A -> S]
      OBVIOUS
    <3>3. ASSUME NEW x \in A, size[x] < n + 1 PROVE h[x] = D[h][x]
      <4>1. ASSUME NEW y \in A, size[y] < size[x] PROVE g[y] = h[y]
        <5>1. size[x] \in Nat /\ size[y] \in Nat /\ n \in Nat
          BY <2>2
        <5>2. size[y] < n
          BY <3>3, <4>1, <5>1
        <5> QED
          BY <3>1, <5>2
      <4>2. D[g][x] = D[h][x]
        BY <3>1, <3>2, <4>1
      <4> QED
        BY <4>2
    <3>4. h \in Good(n + 1)
      BY <3>2, <3>3
    <3>5. n + 1 \in Nat
      BY <2>2
    <3> HIDE DEF h, Good
    <3> QED
      BY <3>4, <3>5
  <2> HIDE DEF P
  <2>3. \A n \in Nat : n \in P
    BY <2>1, <2>2, Induction DEF P
  <2> QED
    BY <2>3 DEF P
<1>2. ASSUME NEW m \in Nat, NEW n \in Nat, NEW g \in Good(m), NEW h \in Good(n)
      PROVE  \A x \in A : size[x] < m /\ size[x] < n => g[x] = h[x]
  <2> DEFINE Q == {x \in A : size[x] < m /\ size[x] < n => g[x] = h[x]}
  <2>1. ASSUME NEW x \in A, \A y \in A : size[y] < size[x] => y \in Q
        PROVE  x \in Q
    <3> SUFFICES ASSUME size[x] < m, size[x] < n PROVE g[x] = h[x]
      OBVIOUS
    <3>1. \A y \in A : size[y] < size[x] => g[y] = h[y]
      BY <2>1
    <3>2. D[g][x] = D[h][x]
      BY <3>1
    <3> QED
      BY <3>2
  <2> HIDE DEF Q
  <2>2. \A x \in A : x \in Q
    BY <2>1, MeasureInduction
  <2> QED
    BY <2>2 DEF Q
<1>3. \A n \in Nat : G(n) \in Good(n)
  BY <1>1
<1> HIDE DEF G
<1>4. f \in [A -> S]
  BY <1>3
<1>5. ASSUME NEW x \in A PROVE f[x] = D[f][x]
  <2> DEFINE n == size[x] + 1
  <2>1. n \in Nat /\ size[x] \in Nat /\ size[x] < n
    OBVIOUS
  <2>2. G(n) \in Good(n)
    BY <1>3, <2>1
  <2>3. G(n) \in [A -> S] /\ G(n)[x] = D[G(n)][x]
    BY <2>1, <2>2
  <2>4. ASSUME NEW y \in A, size[y] < size[x] PROVE G(n)[y] = f[y]
    <3>1. size[y] \in Nat /\ size[y] + 1 \in Nat /\ size[y] < size[y] + 1
      OBVIOUS
    <3>2. size[y] < n
      BY <2>1, <2>4, <3>1
    <3>3. G(size[y] + 1) \in Good(size[y] + 1)
      BY <1>3, <3>1
    <3> HIDE DEF Good, n
    <3>4. G(n)[y] = G(size[y] + 1)[y]
      BY <1>2, <2>1, <2>2, <3>1, <3>2, <3>3
    <3> QED
      BY <3>4
  <2>5. D[G(n)][x] = D[f][x]
    <3> DEFINE g == G(n)
    <3>1. g \in [A -> S] /\ \A y \in A : size[y] < size[x] => g[y] = f[y]
      BY <2>3, <2>4
    <3> HIDE DEF f, g
    <3> QED
      BY <1>4, <3>1 DEF g
  <2>6. f[x] = G(n)[x]
    OBVIOUS
  <2> QED
    BY <2>3, <2>5, <2>6
<1>6. f = D[f]
  <2>1. D[f] \in [A -> S]
    BY <1>4
  <2> HIDE DEF f
  <2> QED
    BY <1>4, <1>5, <2>1
<1> QED
  BY <1>4, <1>6 DEF IsDefined
-----------------------------------------------------------------------------
(***************************************************************************)
(* FoldLeft of a list of n elements: FoldLeft of the community modules is  *)
(* the function of the set 1 .. n that takes the greatest index off a set  *)
(* of indices. The i-th element takes a to step[<<a, i>>].                 *)
(***************************************************************************)
IsStep(n, S, base, step) ==
    n \in Nat /\ base \in S /\ step \in [S \X (1 .. n) -> S]

IsFold(iter, n, S, base, step) ==
    /\ iter \in [SUBSET (1 .. n) -> S]
    /\ \A s \in SUBSET (1 .. n) :
        iter[s] = IF s = {} THEN base ELSE step[<<iter[s \ {Max(s)}], Max(s)>>]

LEMMA GreatestIndex ==
    ASSUME NEW n \in Nat, NEW s \in SUBSET (1 .. n), s # {}
    PROVE  Max(s) \in s /\ \A i \in s : i <= Max(s)
<1> DEFINE T == {n - i : i \in s}
<1>1. T \in SUBSET Nat /\ T # {}
  <2>1. \A i \in s : n - i \in Nat
    OBVIOUS
  <2> QED
    BY <2>1
<1>2. PICK m \in T : \A k \in T : m <= k
  <2> HIDE DEF T
  <2> QED
    BY <1>1, LeastElement
<1>3. PICK i \in s : m = n - i
  BY <1>2
<1>4. \A j \in s : i >= j
  <2>1. ASSUME NEW j \in s PROVE i >= j
    <3>1. n - i <= n - j
      BY <1>2, <1>3
    <3> QED
      BY <3>1
  <2> QED
    BY <2>1
<1>5. Max(s) \in s /\ \A j \in s : Max(s) >= j
  BY <1>4 DEF Max
<1> QED
  BY <1>5

LEMMA FoldIsDefined ==
    ASSUME NEW n, NEW S, NEW base, NEW step, IsStep(n, S, base, step)
    PROVE  \E iter : IsFold(iter, n, S, base, step)
<1> n \in Nat /\ base \in S /\ step \in [S \X (1 .. n) -> S]
  BY DEF IsStep
<1> DEFINE A == SUBSET (1 .. n)
           size == [s \in A |-> IF s = {} THEN 0 ELSE Max(s)]
           D == [f \in [A -> S] |-> [s \in A |->
                    IF s = {} THEN base ELSE step[<<f[s \ {Max(s)}], Max(s)>>]]]
<1>1. ASSUME NEW s \in A, s # {}
      PROVE  /\ Max(s) \in s /\ Max(s) \in 1 .. n /\ Max(s) > 0
             /\ s \ {Max(s)} \in A
             /\ s \ {Max(s)} # {} => Max(s \ {Max(s)}) < Max(s)
  <2>1. Max(s) \in s /\ (\A i \in s : i <= Max(s)) /\ s \in SUBSET (1 .. n)
    BY <1>1, GreatestIndex
  <2>2. Max(s) \in 1 .. n /\ Max(s) > 0 /\ s \ {Max(s)} \in SUBSET (1 .. n)
    <3>1. Max(s) \in 1 .. n
      BY <2>1
    <3>2. \A i \in 1 .. n : i > 0
      OBVIOUS
    <3> QED
      BY <2>1, <3>1, <3>2
  <2>3. ASSUME s \ {Max(s)} # {} PROVE Max(s \ {Max(s)}) < Max(s)
    <3> DEFINE m == Max(s \ {Max(s)})
    <3>1. m \in s \ {Max(s)}
      BY <2>2, <2>3, GreatestIndex
    <3> HIDE DEF m
    <3>2. m <= Max(s) /\ m # Max(s) /\ m \in 1 .. n
      BY <2>1, <3>1
    <3> QED
      BY <2>2, <3>2 DEF m
  <2> QED
    BY <2>1, <2>2, <2>3
<1>2. \A s \in A : size[s] = IF s = {} THEN 0 ELSE Max(s)
  OBVIOUS
<1>3. size \in [A -> Nat]
  <2>1. \A s \in A : (IF s = {} THEN 0 ELSE Max(s)) \in Nat
    <3> SUFFICES ASSUME NEW s \in A, s # {} PROVE Max(s) \in Nat
      OBVIOUS
    <3>1. Max(s) \in 1 .. n
      BY <1>1
    <3> QED
      BY <3>1
  <2> QED
    BY <2>1
<1>4. D \in [[A -> S] -> [A -> S]]
  <2>1. ASSUME NEW f \in [A -> S], NEW s \in A
        PROVE  (IF s = {} THEN base ELSE step[<<f[s \ {Max(s)}], Max(s)>>]) \in S
    <3>1. CASE s # {}
      <4>1. f[s \ {Max(s)}] \in S /\ Max(s) \in 1 .. n
        BY <1>1, <3>1
      <4> QED
        BY <3>1, <4>1
    <3> QED
      BY <3>1
  <2> QED
    BY <2>1
<1>5. ASSUME NEW g \in [A -> S], NEW h \in [A -> S], NEW s \in A,
             \A y \in A : size[y] < size[s] => g[y] = h[y]
      PROVE  D[g][s] = D[h][s]
  <2>1. CASE s # {}
    <3>1. s \ {Max(s)} \in A /\ size[s \ {Max(s)}] < size[s]
      BY <1>1, <1>2, <2>1
    <3>2. g[s \ {Max(s)}] = h[s \ {Max(s)}]
      BY <1>5, <3>1
    <3> QED
      BY <3>2
  <2> QED
    BY <2>1
<1>6. IsRecursion(A, S, size, D)
  <2> HIDE DEF A, D, size
  <2> QED
    BY <1>4, <1>5, <1>3 DEF IsRecursion
<1>7. PICK f : IsDefined(f, A, S, D)
  BY <1>6, RecursiveFunction
<1>8. f \in [A -> S] /\ f = D[f]
  BY <1>7 DEF IsDefined
<1>9. \A s \in A : f[s] = IF s = {} THEN base ELSE step[<<f[s \ {Max(s)}], Max(s)>>]
  BY <1>8
<1> QED
  BY <1>8, <1>9 DEF IsFold

(* After the elements up to the i-th.                                      *)
LEMMA FoldSteps ==
    ASSUME NEW n \in Nat
    PROVE  /\ 1 .. 0 = {}
           /\ \A i \in 1 .. n : /\ 1 .. i \in SUBSET (1 .. n) /\ 1 .. i # {}
                                /\ Max(1 .. i) = i
                                /\ (1 .. i) \ {Max(1 .. i)} = 1 .. i - 1
                                /\ i - 1 \in 0 .. n
<1>1. ASSUME NEW i \in 1 .. n PROVE Max(1 .. i) = i
  <2>1. 1 .. i \in SUBSET (1 .. n) /\ i \in 1 .. i
    OBVIOUS
  <2>2. Max(1 .. i) \in 1 .. i /\ i <= Max(1 .. i)
    BY <2>1, GreatestIndex
  <2> QED
    BY <2>2
<1>2. ASSUME NEW i \in 1 .. n
      PROVE  /\ 1 .. i \in SUBSET (1 .. n) /\ 1 .. i # {}
             /\ (1 .. i) \ {i} = 1 .. i - 1
             /\ i - 1 \in 0 .. n
  OBVIOUS
<1> QED
  BY <1>1, <1>2
-----------------------------------------------------------------------------
(* Lists that are put together.                                            *)
LEMMA Concatenation ==
    ASSUME NEW L, NEW s \in Seq(L), NEW t \in Seq(L)
    PROVE  /\ s \o t \in Seq(L) /\ Len(s) \in Nat /\ Len(t) \in Nat
           /\ Len(s \o t) = Len(s) + Len(t)
           /\ \A p \in 1 .. Len(s) : (s \o t)[p] = s[p]
           /\ \A j \in 1 .. Len(t) : (s \o t)[Len(s) + j] = t[j]
<1>1. /\ s \o t \in Seq(L) /\ Len(s) \in Nat /\ Len(t) \in Nat
      /\ Len(s \o t) = Len(s) + Len(t)
  OBVIOUS
<1>2. ASSUME NEW p \in 1 .. Len(s) PROVE (s \o t)[p] = s[p]
  OBVIOUS
<1>3. ASSUME NEW j \in 1 .. Len(t) PROVE (s \o t)[Len(s) + j] = t[j]
  <2>1. /\ Len(s) + j \in 1 .. Len(s) + Len(t) /\ ~(Len(s) + j <= Len(s))
        /\ (Len(s) + j) - Len(s) = j
    BY <1>1
  <2> QED
    BY <1>1, <2>1
<1> QED
  BY <1>1, <1>2, <1>3

LEMMA ToSetAppend ==
    ASSUME NEW E, NEW s \in Seq(E), NEW e \in E
    PROVE  Append(s, e) \in Seq(E) /\ ToSet(Append(s, e)) = ToSet(s) \cup {e}
<1>1. /\ Append(s, e) \in Seq(E) /\ Len(s) \in Nat
      /\ DOMAIN s = 1 .. Len(s) /\ DOMAIN Append(s, e) = 1 .. Len(s) + 1
      /\ Append(s, e)[Len(s) + 1] = e
      /\ \A i \in 1 .. Len(s) : Append(s, e)[i] = s[i]
  OBVIOUS
<1>2. 1 .. Len(s) + 1 = (1 .. Len(s)) \cup {Len(s) + 1}
  BY <1>1
<1>3. ToSet(Append(s, e)) = {Append(s, e)[i] : i \in (1 .. Len(s)) \cup {Len(s) + 1}}
  BY <1>1, <1>2 DEF ToSet
<1>4. ToSet(s) = {s[i] : i \in 1 .. Len(s)}
  BY <1>1 DEF ToSet
<1> QED
  BY <1>1, <1>3, <1>4

(* The parts of a flattened list: pre[i] has the first i of them.          *)
LEMMA FlattenSteps ==
    ASSUME NEW L, NEW parts \in Seq(Seq(L))
    PROVE  \E pre : /\ \A i \in 0 .. Len(parts) : pre[i] \in Seq(L)
                    /\ pre[0] = <<>>
                    /\ \A i \in 1 .. Len(parts) : pre[i] = pre[i - 1] \o parts[i]
                    /\ FlattenSeq(parts) = pre[Len(parts)]
<1> DEFINE n == Len(parts)
           A == 1 .. n
           S == Seq(L)
           size == [i \in A |-> i]
           D == [f \in [A -> S] |-> [i \in A |->
                    IF i = 1 THEN parts[i] ELSE f[i - 1] \o parts[i]]]
           flatten == CHOOSE f : f = [i \in A |-> IF i = 1 THEN parts[i] ELSE f[i - 1] \o parts[i]]
           pre == [i \in 0 .. n |-> IF i = 0 THEN <<>> ELSE flatten[i]]
<1>1. n \in Nat /\ DOMAIN parts = A /\ \A i \in A : parts[i] \in S
  OBVIOUS
<1>2. FlattenSeq(parts) = IF n = 0 THEN parts ELSE flatten[n]
  BY DEF FlattenSeq
<1>3. n = 0 => parts = <<>>
  OBVIOUS
<1> HIDE DEF n, flatten
<1>4. \A i \in A : i # 1 => i - 1 \in A /\ i - 1 < i
  BY <1>1
<1>5. D \in [[A -> S] -> [A -> S]]
  <2>1. ASSUME NEW f \in [A -> S], NEW i \in A
        PROVE  (IF i = 1 THEN parts[i] ELSE f[i - 1] \o parts[i]) \in S
    <3>1. CASE i = 1
      BY <1>1, <3>1
    <3>2. CASE i # 1
      <4>1. f[i - 1] \in S /\ parts[i] \in S
        BY <1>1, <1>4, <3>2
      <4>2. f[i - 1] \o parts[i] \in S
        BY <4>1
      <4> QED
        BY <3>2, <4>2
    <3> QED
      BY <3>1, <3>2
  <2> HIDE DEF A, S
  <2> QED
    BY <2>1
<1>6. ASSUME NEW g \in [A -> S], NEW h \in [A -> S], NEW i \in A,
             \A y \in A : size[y] < size[i] => g[y] = h[y]
      PROVE  D[g][i] = D[h][i]
  <2>1. i # 1 => g[i - 1] = h[i - 1]
    BY <1>4, <1>6
  <2> HIDE DEF S
  <2> QED
    BY <2>1
<1>7. flatten = [i \in A |-> IF i = 1 THEN parts[i] ELSE flatten[i - 1] \o parts[i]]
  <2>1. IsRecursion(A, S, size, D)
    <3>1. <<>> \in S /\ size \in [A -> Nat]
      BY <1>1
    <3> HIDE DEF A, D, S, size
    <3> QED
      BY <1>5, <1>6, <3>1 DEF IsRecursion
  <2>2. PICK f : IsDefined(f, A, S, D)
    BY <2>1, RecursiveFunction
  <2>3. f \in [A -> S] /\ f = D[f]
    BY <2>2 DEF IsDefined
  <2>4. f = [i \in A |-> IF i = 1 THEN parts[i] ELSE f[i - 1] \o parts[i]]
    BY <2>3
  <2> QED
    BY <2>4 DEF flatten
<1>8. \A i \in A : flatten[i] \in S
  <2> DEFINE P == {i \in A : flatten[i] \in S}
  <2>1. ASSUME NEW i \in A, \A j \in A : size[j] < size[i] => j \in P PROVE i \in P
    <3>1. CASE i = 1
      BY <1>1, <1>7, <3>1
    <3>2. CASE i # 1
      <4>1. i - 1 \in P
        BY <1>4, <2>1, <3>2
      <4>2. flatten[i] = flatten[i - 1] \o parts[i] /\ flatten[i - 1] \in S /\ parts[i] \in S
        BY <1>1, <1>7, <3>2, <4>1
      <4>3. flatten[i - 1] \o parts[i] \in S
        BY <4>2
      <4> QED
        BY <4>2, <4>3
    <3> QED
      BY <3>1, <3>2
  <2>2. size \in [A -> Nat]
    BY <1>1
  <2> HIDE DEF A, P, size
  <2>3. \A i \in A : i \in P
    BY <2>1, <2>2, MeasureInduction
  <2> QED
    BY <2>3 DEF P
<1>9. ASSUME NEW i \in 1 .. n PROVE pre[i] = pre[i - 1] \o parts[i]
  <2>1. i - 1 \in 0 .. n /\ i \in 0 .. n /\ i # 0
    BY <1>1
  <2>2. CASE i = 1
    <3>1. pre[0] = <<>> /\ pre[1] = parts[1] /\ parts[1] \in Seq(L)
      BY <1>1, <1>7, <2>1, <2>2
    <3>2. <<>> \o parts[1] = parts[1]
      BY <3>1
    <3>3. i - 1 = 0
      BY <2>2
    <3> HIDE DEF pre
    <3> QED
      BY <2>2, <3>1, <3>2, <3>3
  <2>3. CASE i # 1
    <3>1. i \in A /\ i - 1 # 0
      BY <1>1, <2>3
    <3>2. pre[i] = flatten[i] /\ pre[i - 1] = flatten[i - 1]
      BY <2>1, <3>1
    <3> HIDE DEF pre
    <3> QED
      BY <1>7, <2>3, <3>1, <3>2
  <2> QED
    BY <2>2, <2>3
<1>10. /\ \A i \in 0 .. n : pre[i] \in Seq(L)
       /\ pre[0] = <<>>
       /\ FlattenSeq(parts) = pre[n]
  <2>1. 0 \in 0 .. n /\ n \in 0 .. n /\ \A i \in 0 .. n : i # 0 => i \in A
    BY <1>1
  <2>2. <<>> \in Seq(L)
    OBVIOUS
  <2>3. \A i \in 0 .. n : i # 0 => flatten[i] \in Seq(L)
    BY <1>8, <2>1
  <2> QED
    BY <1>2, <1>3, <2>1, <2>2, <2>3
<1> HIDE DEF pre
<1> QED
  BY <1>9, <1>10 DEF n

(* Where each part is in the flattened list.                               *)
AreAt(at, parts, rest, all) ==
    /\ at[0] = 0
    /\ \A i \in 0 .. Len(parts) : at[i] \in Nat
    /\ \A i \in 1 .. Len(parts) :
          /\ at[i] = at[i - 1] + Len(parts[i])
          /\ \A j \in 1 .. Len(parts[i]) : all[at[i - 1] + j] = parts[i][j]
          /\ at[i] <= Len(all)
    /\ Len(all) = at[Len(parts)] + Len(rest)
    /\ \A j \in 1 .. Len(rest) : all[at[Len(parts)] + j] = rest[j]

LEMMA FlattenParts ==
    ASSUME NEW L, NEW parts \in Seq(Seq(L)), NEW rest \in Seq(L)
    PROVE  /\ FlattenSeq(parts) \o rest \in Seq(L)
           /\ \E at : AreAt(at, parts, rest, FlattenSeq(parts) \o rest)
<1> DEFINE n == Len(parts)
           all == FlattenSeq(parts) \o rest
<1>1. n \in Nat /\ DOMAIN parts = 1 .. n /\ \A i \in 1 .. n : parts[i] \in Seq(L)
  OBVIOUS
<1>2. PICK pre : /\ \A i \in 0 .. n : pre[i] \in Seq(L)
                 /\ pre[0] = <<>>
                 /\ \A i \in 1 .. n : pre[i] = pre[i - 1] \o parts[i]
                 /\ FlattenSeq(parts) = pre[n]
  BY FlattenSteps
<1> HIDE DEF n, all
<1>3. all = pre[n] \o rest /\ pre[n] \in Seq(L) /\ n \in 0 .. n
  BY <1>1, <1>2 DEF all
<1>4. /\ all \in Seq(L) /\ Len(rest) \in Nat /\ Len(pre[n]) \in Nat
      /\ Len(all) = Len(pre[n]) + Len(rest)
      /\ \A p \in 1 .. Len(pre[n]) : all[p] = pre[n][p]
      /\ \A j \in 1 .. Len(rest) : all[Len(pre[n]) + j] = rest[j]
  BY <1>3, Concatenation
<1> DEFINE Prefix1(i) == /\ Len(pre[i]) <= Len(all)
                         /\ \A p \in 1 .. Len(pre[i]) : all[p] = pre[i][p]
           Good == {i \in 0 .. n : Prefix1(i)}
<1>5. ASSUME NEW i \in 1 .. n
      PROVE  /\ Len(pre[i - 1]) \in Nat /\ Len(parts[i]) \in Nat
             /\ Len(pre[i]) = Len(pre[i - 1]) + Len(parts[i])
             /\ \A p \in 1 .. Len(pre[i - 1]) : pre[i][p] = pre[i - 1][p]
             /\ \A j \in 1 .. Len(parts[i]) : pre[i][Len(pre[i - 1]) + j] = parts[i][j]
  <2> DEFINE s == pre[i - 1]
             t == parts[i]
             u == pre[i]
  <2>1. s \in Seq(L) /\ t \in Seq(L) /\ u = s \o t
    <3>1. i - 1 \in 0 .. n /\ i \in 1 .. n
      BY <1>1
    <3> QED
      BY <1>1, <1>2, <3>1
  <2> HIDE DEF s, t, u
  <2>2. /\ Len(s) \in Nat /\ Len(t) \in Nat /\ Len(u) = Len(s) + Len(t)
        /\ \A p \in 1 .. Len(s) : u[p] = s[p]
        /\ \A j \in 1 .. Len(t) : u[Len(s) + j] = t[j]
    BY <2>1, Concatenation
  <2> QED
    BY <2>2, Zenon DEF s, t, u
<1>6. n \in Good
  <2>1. Len(pre[n]) <= Len(all)
    BY <1>4
  <2> QED
    BY <1>3, <1>4, <2>1
<1>7. ASSUME NEW i \in 1 .. n, i \in Good PROVE i - 1 \in Good
  <2>1. i - 1 \in 0 .. n
    BY <1>1
  <2>2. Len(pre[i]) <= Len(all) /\ \A p \in 1 .. Len(pre[i]) : all[p] = pre[i][p]
    BY <1>7
  <2>3. /\ Len(pre[i - 1]) \in Nat /\ Len(parts[i]) \in Nat
        /\ Len(pre[i]) = Len(pre[i - 1]) + Len(parts[i])
    BY <1>5
  <2>4. Len(pre[i - 1]) <= Len(all) /\ \A p \in 1 .. Len(pre[i - 1]) : p \in 1 .. Len(pre[i])
    <3> DEFINE x == Len(pre[i - 1])
               y == Len(parts[i])
               z == Len(pre[i])
               m == Len(all)
    <3>1. m \in Nat
      BY <1>4
    <3>2. x \in Nat /\ y \in Nat /\ z = x + y
      BY <2>3
    <3>3. z <= m
      BY <2>2
    <3> HIDE DEF x, y, z, m
    <3>4. x <= m /\ \A p \in 1 .. x : p \in 1 .. z
      BY <3>1, <3>2, <3>3
    <3> QED
      BY <3>4 DEF x, z, m
  <2>5. ASSUME NEW p \in 1 .. Len(pre[i - 1]) PROVE all[p] = pre[i - 1][p]
    <3>1. p \in 1 .. Len(pre[i])
      BY <2>4
    <3>2. all[p] = pre[i][p]
      BY <2>2, <3>1
    <3>3. pre[i][p] = pre[i - 1][p]
      BY <1>5
    <3> QED
      BY <3>2, <3>3
  <2> QED
    BY <2>1, <2>4, <2>5
<1>8. ASSUME NEW i \in 0 .. n PROVE Prefix1(i)
  <2>1. \A k \in 0 .. n : k \in Good
    <3> HIDE DEF Good
    <3> QED
      BY <1>1, <1>6, <1>7, Downward
  <2> QED
    BY <2>1
<1> DEFINE at == [i \in 0 .. n |-> Len(pre[i])]
<1>9. ASSUME NEW i \in 1 .. n
      PROVE  /\ at[i] = at[i - 1] + Len(parts[i])
             /\ \A j \in 1 .. Len(parts[i]) : all[at[i - 1] + j] = parts[i][j]
             /\ at[i] <= Len(all)
  <2>1. i \in 0 .. n /\ i - 1 \in 0 .. n
    BY <1>1
  <2>2. at[i] = Len(pre[i]) /\ at[i - 1] = Len(pre[i - 1])
    BY <2>1
  <2>3. Prefix1(i)
    BY <1>8, <2>1
  <2> HIDE DEF at
  <2>4. \A j \in 1 .. Len(parts[i]) : Len(pre[i - 1]) + j \in 1 .. Len(pre[i])
    <3> DEFINE x == Len(pre[i - 1])
               y == Len(parts[i])
               z == Len(pre[i])
    <3>1. x \in Nat /\ y \in Nat /\ z = x + y
      BY <1>5
    <3> HIDE DEF x, y, z
    <3>2. \A j \in 1 .. y : x + j \in 1 .. z
      BY <3>1
    <3> QED
      BY <3>2 DEF x, y, z
  <2>5. ASSUME NEW j \in 1 .. Len(parts[i]) PROVE all[at[i - 1] + j] = parts[i][j]
    <3>1. Len(pre[i - 1]) + j \in 1 .. Len(pre[i])
      BY <2>4
    <3>2. all[Len(pre[i - 1]) + j] = pre[i][Len(pre[i - 1]) + j]
      BY <2>3, <3>1
    <3>3. pre[i][Len(pre[i - 1]) + j] = parts[i][j]
      BY <1>5
    <3> QED
      BY <2>2, <3>2, <3>3
  <2> QED
    BY <1>5, <2>2, <2>3, <2>5
<1>10. /\ at[0] = 0
       /\ \A i \in 0 .. n : at[i] \in Nat
       /\ at[n] = Len(pre[n])
  BY <1>1, <1>2, <1>3
<1>11. \A j \in 1 .. Len(rest) : all[at[n] + j] = rest[j]
  BY <1>4, <1>10
<1> HIDE DEF at, Good
<1>12. AreAt(at, parts, rest, all)
  BY <1>4, <1>9, <1>10, <1>11 DEF n, AreAt
<1> QED
  BY <1>4, <1>12 DEF all

(* A fold that takes every step its steps allow keeps what each of them    *)
(* keeps.                                                                  *)
FoldsBy(iter, n, S, base, step) ==
    /\ iter[{}] = base
    /\ \A i \in 1 .. n :
            iter[1 .. i - 1] \in S => iter[1 .. i] = step[<<iter[1 .. i - 1], i>>]

LEMMA FoldInvariant ==
    ASSUME NEW n, NEW S, NEW base, NEW step, IsStep(n, S, base, step),
           NEW iter, FoldsBy(iter, n, S, base, step),
           NEW Inv, <<0, base>> \in Inv,
           \A i \in 1 .. n : \A x \in S : <<i - 1, x>> \in Inv => <<i, step[<<x, i>>]>> \in Inv
    PROVE  iter[1 .. n] \in S /\ <<n, iter[1 .. n]>> \in Inv
<1> DEFINE P == {i \in Nat : i <= n => iter[1 .. i] \in S /\ <<i, iter[1 .. i]>> \in Inv}
<1>1. n \in Nat /\ base \in S
  BY DEF IsStep
<1>2. 0 \in P
  <2>1. iter[1 .. 0] = base
    BY <1>1, FoldSteps DEF FoldsBy
  <2> QED
    BY <1>1, <2>1
<1>3. ASSUME NEW i \in Nat, i \in P PROVE i + 1 \in P
  <2> SUFFICES ASSUME i + 1 <= n
               PROVE  iter[1 .. i + 1] \in S /\ <<i + 1, iter[1 .. i + 1]>> \in Inv
    OBVIOUS
  <2>1. i + 1 \in 1 .. n /\ (i + 1) - 1 = i
    BY <1>1
  <2>2. iter[1 .. i] \in S /\ <<i, iter[1 .. i]>> \in Inv
    BY <1>1, <1>3, <2>1
  <2>3. iter[1 .. i + 1] = step[<<iter[1 .. i], i + 1>>]
    BY <2>1, <2>2 DEF FoldsBy
  <2>4. step[<<iter[1 .. i], i + 1>>] \in S
    BY <2>1, <2>2 DEF IsStep
  <2> QED
    BY <2>1, <2>2, <2>3, <2>4
<1>4. \A i \in Nat : i \in P
  <2> HIDE DEF P
  <2> QED
    BY <1>2, <1>3, Induction
<1> QED
  BY <1>1, <1>4

(* The same of a named invariant.                                          *)
KeptBy(Inv, n, S, base, step) ==
    /\ <<0, base>> \in Inv
    /\ \A i \in 1 .. n : \A x \in S : <<i - 1, x>> \in Inv => <<i, step[<<x, i>>]>> \in Inv
LeadsTo(iter, n, S, Inv) == iter[1 .. n] \in S /\ <<n, iter[1 .. n]>> \in Inv

LEMMA FoldKeeps ==
    ASSUME NEW n, NEW S, NEW base, NEW step, IsStep(n, S, base, step),
           NEW iter, FoldsBy(iter, n, S, base, step),
           NEW Inv, KeptBy(Inv, n, S, base, step)
    PROVE  LeadsTo(iter, n, S, Inv)
BY FoldInvariant DEF KeptBy, LeadsTo

(* The elements of two sequences, and of a sequence of sequences.          *)
LEMMA ToSetConcat ==
    ASSUME NEW E, NEW s \in Seq(E), NEW t \in Seq(E)
    PROVE  s \o t \in Seq(E) /\ ToSet(s \o t) = ToSet(s) \cup ToSet(t)
<1>1. /\ s \o t \in Seq(E) /\ Len(s) \in Nat /\ Len(t) \in Nat
      /\ Len(s \o t) = Len(s) + Len(t)
      /\ \A p \in 1 .. Len(s) : (s \o t)[p] = s[p]
      /\ \A j \in 1 .. Len(t) : (s \o t)[Len(s) + j] = t[j]
  BY Concatenation
<1>2. DOMAIN s = 1 .. Len(s) /\ DOMAIN t = 1 .. Len(t) /\ DOMAIN (s \o t) = 1 .. Len(s \o t)
  BY <1>1
<1> DEFINE m == Len(s)
           k == Len(t)
           all == s \o t
<1>3. /\ m \in Nat /\ k \in Nat /\ all \in Seq(E) /\ DOMAIN s = 1 .. m /\ DOMAIN t = 1 .. k
      /\ DOMAIN all = 1 .. m + k
      /\ \A p \in 1 .. m : all[p] = s[p]
      /\ \A j \in 1 .. k : all[m + j] = t[j]
  BY <1>1, <1>2
<1> HIDE DEF m, k, all
<1>4. ASSUME NEW i \in 1 .. m + k PROVE all[i] \in ToSet(s) \cup ToSet(t)
  <2>1. CASE i <= m
    <3>1. i \in 1 .. m
      BY <1>3, <2>1
    <3> QED
      BY <1>3, <3>1 DEF ToSet
  <2>2. CASE ~(i <= m)
    <3>1. i - m \in 1 .. k /\ m + (i - m) = i
      BY <1>3, <2>2
    <3> QED
      BY <1>3, <3>1 DEF ToSet
  <2> QED
    BY <2>1, <2>2
<1>5. ASSUME NEW i \in 1 .. m PROVE s[i] \in ToSet(all)
  BY <1>3 DEF ToSet
<1>6. ASSUME NEW j \in 1 .. k PROVE t[j] \in ToSet(all)
  <2>1. m + j \in 1 .. m + k
    BY <1>3
  <2> QED
    BY <1>3, <2>1 DEF ToSet
<1>7. ToSet(all) = ToSet(s) \cup ToSet(t)
  BY <1>3, <1>4, <1>5, <1>6 DEF ToSet
<1> QED
  BY <1>3, <1>7 DEF all

LEMMA ToSetFlatten ==
    ASSUME NEW L, NEW parts \in Seq(Seq(L))
    PROVE  /\ FlattenSeq(parts) \in Seq(L)
           /\ ToSet(FlattenSeq(parts)) = UNION {ToSet(parts[i]) : i \in DOMAIN parts}
<1> DEFINE n == Len(parts)
           P(pre) == {i \in Nat : i <= n => ToSet(pre[i]) = UNION {ToSet(parts[j]) : j \in 1 .. i}}
<1>1. n \in Nat /\ DOMAIN parts = 1 .. n /\ \A i \in 1 .. n : parts[i] \in Seq(L)
  OBVIOUS
<1>2. PICK pre : /\ \A i \in 0 .. n : pre[i] \in Seq(L)
                 /\ pre[0] = <<>>
                 /\ \A i \in 1 .. n : pre[i] = pre[i - 1] \o parts[i]
                 /\ FlattenSeq(parts) = pre[n]
  BY FlattenSteps
<1> HIDE DEF n
<1>3. 0 \in P(pre)
  BY <1>2 DEF ToSet
<1>4. ASSUME NEW i \in Nat, i \in P(pre) PROVE i + 1 \in P(pre)
  <2> SUFFICES ASSUME i + 1 <= n
               PROVE  ToSet(pre[i + 1]) = UNION {ToSet(parts[j]) : j \in 1 .. i + 1}
    OBVIOUS
  <2>1. i + 1 \in 1 .. n /\ (i + 1) - 1 = i /\ i \in 0 .. n
    BY <1>1
  <2>2. pre[i + 1] = pre[i] \o parts[i + 1] /\ pre[i] \in Seq(L) /\ parts[i + 1] \in Seq(L)
    BY <1>1, <1>2, <2>1
  <2>3. ToSet(pre[i + 1]) = ToSet(pre[i]) \cup ToSet(parts[i + 1])
    BY <2>2, ToSetConcat
  <2>4. ToSet(pre[i]) = UNION {ToSet(parts[j]) : j \in 1 .. i}
    BY <1>1, <1>4, <2>1
  <2>5. 1 .. i + 1 = (1 .. i) \cup {i + 1}
    OBVIOUS
  <2> DEFINE A == 1 .. i
  <2>6. UNION {ToSet(parts[j]) : j \in A \cup {i + 1}}
            = (UNION {ToSet(parts[j]) : j \in A}) \cup ToSet(parts[i + 1])
    <3> HIDE DEF A
    <3> QED
      OBVIOUS
  <2> QED
    BY <2>3, <2>4, <2>5, <2>6
<1>5. \A i \in Nat : i \in P(pre)
  <2> HIDE DEF P
  <2> QED
    BY <1>3, <1>4, Induction
<1>6. ToSet(pre[n]) = UNION {ToSet(parts[j]) : j \in 1 .. n}
  <2>1. n \in P(pre)
    <3> HIDE DEF P
    <3> QED
      BY <1>1, <1>5
  <2>2. n <= n
    BY <1>1
  <2> QED
    BY <2>1, <2>2
<1>7. n \in 0 .. n
  BY <1>1
<1> QED
  BY <1>1, <1>2, <1>6, <1>7

LEMMA LeastIndex ==
    ASSUME NEW S \in SUBSET Nat, S # {}
    PROVE  Min(S) \in S /\ \A i \in S : Min(S) <= i
BY LeastElement DEF Min
=============================================================================
