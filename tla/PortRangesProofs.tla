-------------------------- MODULE PortRangesProofs --------------------------
(***************************************************************************)
(* Theorems about port ranges and their masks, for every width of ports.   *)
(***************************************************************************)
EXTENDS PortRanges, Recursion

(* Powers of two.                                                          *)
LEMMA Pow2Step ==
    /\ Pow2 \in [Nat -> Nat \ {0}]
    /\ Pow2[0] = 1
    /\ \A k \in Nat : Pow2[k + 1] = 2 * Pow2[k]
<1> DEFINE S == Nat \ {0}
           size == [k \in Nat |-> k]
           D == [f \in [Nat -> S] |-> [k \in Nat |-> IF k = 0 THEN 1 ELSE 2 * f[k - 1]]]
<1>1. \A f \in [Nat -> S], k \in Nat : k # 0 => k - 1 \in Nat /\ f[k - 1] \in S
  OBVIOUS
<1>2. D \in [[Nat -> S] -> [Nat -> S]]
  BY <1>1
<1>3. ASSUME NEW g \in [Nat -> S], NEW h \in [Nat -> S], NEW k \in Nat,
             \A y \in Nat : size[y] < size[k] => g[y] = h[y]
      PROVE  D[g][k] = D[h][k]
  <2>1. k # 0 => k - 1 \in Nat /\ g[k - 1] = h[k - 1]
    BY <1>3
  <2> QED
    BY <2>1
<1>4. IsRecursion(Nat, S, size, D)
  <2>1. S # {} /\ size \in [Nat -> Nat]
    OBVIOUS
  <2> HIDE DEF D, S, size
  <2> QED
    BY <1>2, <1>3, <2>1 DEF IsRecursion
<1>5. PICK f \in [Nat -> S] : f = [k \in Nat |-> IF k = 0 THEN 1 ELSE 2 * f[k - 1]]
  <2>1. PICK f : IsDefined(f, Nat, S, D)
    BY <1>4, RecursiveFunction
  <2>2. f \in [Nat -> S] /\ f = D[f]
    BY <2>1 DEF IsDefined
  <2>3. D[f] = [k \in Nat |-> IF k = 0 THEN 1 ELSE 2 * f[k - 1]]
    BY <2>2
  <2> QED
    BY <2>2, <2>3
<1>6. Pow2 = [k \in Nat |-> IF k = 0 THEN 1 ELSE 2 * Pow2[k - 1]]
  BY <1>5 DEF Pow2
<1>7. Pow2[0] = 1 /\ \A k \in Nat : Pow2[k + 1] = 2 * Pow2[k]
  <2>1. \A k \in Nat : Pow2[k] = IF k = 0 THEN 1 ELSE 2 * Pow2[k - 1]
    BY <1>6
  <2>2. \A k \in Nat : k + 1 \in Nat /\ k + 1 # 0 /\ (k + 1) - 1 = k
    OBVIOUS
  <2> QED
    BY <2>1, <2>2
<1>8. \A k \in Nat : Pow2[k] \in S
  <2> DEFINE P == {k \in Nat : Pow2[k] \in S}
  <2>1. 0 \in P /\ \A k \in Nat : k \in P => k + 1 \in P
    BY <1>7
  <2>2. \A k \in Nat : k \in P
    <3> HIDE DEF P
    <3> QED
      BY <2>1, Induction
  <2> QED
    BY <2>2
<1> QED
  <2>1. Pow2 = [k \in Nat |-> Pow2[k]]
    BY <1>6
  <2> QED
    BY <1>7, <1>8, <2>1

LEMMA LimitIsNat == PortBits \in Nat /\ PortLimit \in Nat \ {0}
BY PortAssumption, Pow2Step DEF PortLimit
-----------------------------------------------------------------------------
(* Multiples.                                                              *)

LEMMA Multiples ==
    ASSUME NEW b \in Nat \ {0}, NEW p \in Nat
    PROVE  p % b = 0 <=> \E q \in Nat : p = b * q
<1>1. p % b = 0 => p = b * (p \div b) /\ p \div b \in Nat
  OBVIOUS
<1>2. ASSUME NEW q \in Nat, p = b * q PROVE p % b = 0
  <2>1. p = b * q + 0 /\ 0 <= 0 /\ 0 < b
    BY <1>2
  <2> QED
    BY <2>1
<1> QED
  BY <1>1, <1>2

LEMMA NextMultiple ==
    ASSUME NEW b \in Nat \ {0}, NEW p \in Nat, p % b = 0
    PROVE  /\ (p + b) % b = 0
           /\ p % (2 * b) # 0 => (p + b) % (2 * b) = 0
<1>1. PICK q \in Nat : p = b * q
  BY Multiples
<1>2. p + b = b * (q + 1)
  BY <1>1
<1>3. (p + b) % b = 0
  <2>1. p + b \in Nat /\ q + 1 \in Nat
    OBVIOUS
  <2> QED
    BY <1>2, <2>1, Multiples
<1>4. ASSUME p % (2 * b) # 0 PROVE (p + b) % (2 * b) = 0
  <2>0. 2 * b \in Nat \ {0} /\ p + b \in Nat
    OBVIOUS
  <2>1. ASSUME NEW m \in Nat, q = 2 * m PROVE FALSE
    <3>1. p = (2 * b) * m
      BY <1>1, <2>1
    <3> QED
      BY <1>4, <2>0, <3>1, Multiples
  <2>2. PICK m \in Nat : q = 2 * m + 1
    <3>1. q \div 2 \in Nat /\ (q = 2 * (q \div 2) \/ q = 2 * (q \div 2) + 1)
      OBVIOUS
    <3> QED
      BY <2>1, <3>1
  <2>3. p + b = (2 * b) * (m + 1)
    BY <1>2, <2>2
  <2>4. m + 1 \in Nat
    OBVIOUS
  <2> QED
    BY <2>0, <2>3, <2>4, Multiples
<1> QED
  BY <1>3, <1>4

LEMMA HalfMultiple ==
    ASSUME NEW b \in Nat \ {0}, NEW p \in Nat, p % (2 * b) = 0
    PROVE  p % b = 0
<1>1. PICK q \in Nat : p = (2 * b) * q
  BY Multiples
<1>2. p = b * (2 * q)
  BY <1>1
<1> QED
  BY <1>2, Multiples

(* What is masked in a block of ports.                                     *)
LEMMA BlockOfMultiple ==
    ASSUME NEW b \in Nat \ {0}, NEW v \in Nat, v % b = 0, NEW p \in Nat
    PROVE  p - (p % b) = v <=> v <= p /\ p < v + b
<1>1. PICK q \in Nat : v = b * q
  BY Multiples
<1> DEFINE d == p \div b
           m == p % b
<1>2. d \in Nat /\ m \in Nat /\ m < b /\ p = b * d + m
  OBVIOUS
<1> HIDE DEF d, m
<1>3. p - m = b * d
  BY <1>2
<1>4. ASSUME v <= p, p < v + b PROVE d = q
  <2>1. CASE d < q
    <3>1. b * (d + 1) <= b * q
      BY <1>2, <2>1
    <3> QED
      BY <1>1, <1>2, <1>4, <3>1
  <2>2. CASE q < d
    <3>1. b * (q + 1) <= b * d
      BY <1>2, <2>2
    <3> QED
      BY <1>1, <1>2, <1>4, <3>1
  <2> QED
    BY <1>2, <2>1, <2>2
<1>5. p - m = v => v <= p /\ p < v + b
  BY <1>2
<1> QED
  BY <1>1, <1>3, <1>4, <1>5 DEF m

(* A multiple of a power of two is one of every lower power.               *)
LEMMA LowerPower ==
    ASSUME NEW p \in Nat, NEW k \in Nat, p % Pow2[k] = 0
    PROVE  \A j \in 0 .. k : p % Pow2[j] = 0
<1> DEFINE P == {i \in Nat : i <= k => p % Pow2[k - i] = 0}
<1>1. 0 \in P
  OBVIOUS
<1>2. ASSUME NEW i \in Nat, i \in P PROVE i + 1 \in P
  <2> SUFFICES ASSUME i + 1 <= k PROVE p % Pow2[k - (i + 1)] = 0
    OBVIOUS
  <2>1. k - (i + 1) \in Nat /\ (k - (i + 1)) + 1 = k - i
    OBVIOUS
  <2>2. Pow2[k - (i + 1)] \in Nat \ {0} /\ Pow2[k - i] = 2 * Pow2[k - (i + 1)]
    BY <2>1, Pow2Step
  <2>3. p % Pow2[k - i] = 0
    BY <1>2
  <2> QED
    BY <2>2, <2>3, HalfMultiple
<1>3. \A i \in Nat : i \in P
  <2> HIDE DEF P
  <2> QED
    BY <1>1, <1>2, Induction
<1>4. ASSUME NEW j \in 0 .. k PROVE p % Pow2[j] = 0
  <2>1. k - j \in Nat /\ k - j <= k /\ k - (k - j) = j
    OBVIOUS
  <2> QED
    BY <1>3, <2>1
<1> QED
  BY <1>4
LEMMA PowersGrow ==
    \A j, k \in Nat : j <= k => Pow2[j] <= Pow2[k]
<1> SUFFICES ASSUME NEW j \in Nat PROVE \A k \in Nat : j <= k => Pow2[j] <= Pow2[k]
  OBVIOUS
<1> DEFINE P == {i \in Nat : Pow2[j] <= Pow2[j + i]}
<1>1. 0 \in P
  BY Pow2Step
<1>2. ASSUME NEW i \in Nat, i \in P PROVE i + 1 \in P
  <2>1. j + i \in Nat /\ (j + i) + 1 = j + (i + 1)
    OBVIOUS
  <2>2. Pow2[j + (i + 1)] = 2 * Pow2[j + i] /\ Pow2[j + i] \in Nat /\ Pow2[j] \in Nat
    BY <2>1, Pow2Step
  <2> QED
    BY <1>2, <2>2
<1>3. \A i \in Nat : i \in P
  <2> HIDE DEF P
  <2> QED
    BY <1>1, <1>2, Induction
<1>4. ASSUME NEW k \in Nat, j <= k PROVE Pow2[j] <= Pow2[k]
  <2>1. k - j \in Nat /\ j + (k - j) = k
    BY <1>4
  <2> QED
    BY <1>3, <2>1
<1> QED
  BY <1>4
-----------------------------------------------------------------------------
(* The block of a port.                                                    *)

(* Twice the block of 2^k is not aligned to port or reaches beyond to.     *)
Largest(port, to, k) ==
    k = PortBits \/ port % Pow2[k + 1] # 0 \/ port + Pow2[k + 1] - 1 > to

(* 2^k is the size of the largest block.                                   *)
IsBlock(port, to, k) ==
    /\ k \in 0 .. PortBits
    /\ port % Pow2[k] = 0
    /\ port + Pow2[k] - 1 <= to
    /\ Largest(port, to, k)

Grow(port, to, f) == [k \in 0 .. PortBits |-> IF Largest(port, to, k) THEN Pow2[k] ELSE f[k + 1]]

LEMMA GrowIsDefined ==
    ASSUME NEW port, NEW to
    PROVE  \E grow : grow = Grow(port, to, grow)
<1> DEFINE A == 0 .. PortBits
           S == Nat \ {0}
           size == [k \in A |-> PortBits - k]
           D == [f \in [A -> S] |-> Grow(port, to, f)]
<1>1. \A k \in A : k \in Nat /\ Pow2[k] \in S /\ (k = PortBits \/ k + 1 \in A)
  BY LimitIsNat, Pow2Step
<1>2. D \in [[A -> S] -> [A -> S]]
  <2>1. ASSUME NEW f \in [A -> S], NEW k \in A
        PROVE  (IF Largest(port, to, k) THEN Pow2[k] ELSE f[k + 1]) \in S
    BY <1>1 DEF Largest
  <2> QED
    BY <2>1 DEF Grow
<1>3. ASSUME NEW g \in [A -> S], NEW h \in [A -> S], NEW k \in A,
             \A y \in A : size[y] < size[k] => g[y] = h[y]
      PROVE  D[g][k] = D[h][k]
  <2>1. CASE Largest(port, to, k)
    BY <2>1 DEF Grow
  <2>2. CASE ~Largest(port, to, k)
    <3>1. k + 1 \in A /\ size[k + 1] < size[k]
      BY <1>1, <2>2, LimitIsNat DEF Largest
    <3>2. g[k + 1] = h[k + 1]
      BY <1>3, <3>1
    <3> QED
      BY <2>2, <3>2 DEF Grow
  <2> QED
    BY <2>1, <2>2
<1>4. IsRecursion(A, S, size, D)
  <2>1. 1 \in S /\ size \in [A -> Nat]
    BY LimitIsNat
  <2> HIDE DEF A, D, S, size
  <2> QED
    BY <1>2, <1>3, <2>1 DEF IsRecursion
<1>5. PICK f : IsDefined(f, A, S, D)
  BY <1>4, RecursiveFunction
<1>6. f \in [A -> S] /\ f = D[f] /\ D[f] = Grow(port, to, f)
  BY <1>5 DEF IsDefined
<1> QED
  BY <1>6

(* A port other than 0 gets the largest block that is aligned to it and    *)
(* ends at or before to.                                                   *)
LEMMA PortMaskIsLargest ==
    ASSUME NEW port \in Nat \ {0}, NEW to \in Nat, port <= to
    PROVE  \E k \in 0 .. PortBits : portMask(port, to) = Pow2[k] /\ IsBlock(port, to, k)
<1> DEFINE grow == CHOOSE g : g = [k \in 0 .. PortBits |->
                        IF k = PortBits \/ (port % Pow2[k + 1]) # 0 \/ port + Pow2[k + 1] - 1 > to
                        THEN Pow2[k] ELSE g[k + 1]]
<1>1. portMask(port, to) = grow[0]
  BY DEF portMask
<1>2. grow = Grow(port, to, grow)
  BY GrowIsDefined DEF Grow, Largest
<1> HIDE DEF grow
<1> DEFINE A == 0 .. PortBits
           size == [k \in A |-> PortBits - k]
           P == {k \in A : port % Pow2[k] = 0 /\ port + Pow2[k] - 1 <= to =>
                    \E j \in A : grow[k] = Pow2[j] /\ IsBlock(port, to, j)}
<1>3. ASSUME NEW k \in A, \A y \in A : size[y] < size[k] => y \in P
      PROVE  k \in P
  <2> SUFFICES ASSUME port % Pow2[k] = 0, port + Pow2[k] - 1 <= to
               PROVE  \E j \in A : grow[k] = Pow2[j] /\ IsBlock(port, to, j)
    OBVIOUS
  <2>1. CASE Largest(port, to, k)
    <3>1. grow[k] = Pow2[k]
      BY <1>2, <2>1 DEF Grow
    <3> QED
      BY <2>1, <3>1 DEF IsBlock
  <2>2. CASE ~Largest(port, to, k)
    <3>1. k + 1 \in A /\ size[k + 1] < size[k]
      BY <2>2, LimitIsNat DEF Largest
    <3>2. grow[k] = grow[k + 1]
      BY <1>2, <2>2 DEF Grow
    <3>3. port % Pow2[k + 1] = 0 /\ port + Pow2[k + 1] - 1 <= to
      <4>1. Pow2[k + 1] \in Nat
        BY <3>1, Pow2Step
      <4> QED
        BY <2>2, <4>1 DEF Largest
    <3>4. k + 1 \in P
      BY <1>3, <3>1
    <3> QED
      BY <3>2, <3>3, <3>4
  <2> QED
    BY <2>1, <2>2
<1>4. \A k \in A : k \in P
  <2>1. size \in [A -> Nat]
    BY LimitIsNat
  <2> HIDE DEF A, P, size
  <2> QED
    BY <1>3, <2>1, MeasureInduction
<1>5. 0 \in A /\ port % Pow2[0] = 0 /\ port + Pow2[0] - 1 <= to
  <2>1. port % 1 = 0
    OBVIOUS
  <2> QED
    BY <2>1, LimitIsNat, Pow2Step
<1>6. 0 \in P
  BY <1>4, <1>5
<1> QED
  BY <1>1, <1>5, <1>6

LEMMA BlockFits ==
    ASSUME NEW to \in Ports, NEW port \in 0 .. to
    PROVE  /\ portMask(port, to) \in Nat \ {0}
           /\ port % portMask(port, to) = 0
           /\ port + portMask(port, to) <= to + 1
<1>1. to \in Nat /\ port \in Nat
  BY LimitIsNat DEF Ports
<1>2. CASE port = 0
  <2>1. portMask(port, to) = 1 /\ 0 % 1 = 0
    BY <1>2 DEF portMask
  <2> QED
    BY <1>1, <1>2, <2>1
<1>3. CASE port # 0
  <2>1. PICK k \in 0 .. PortBits : portMask(port, to) = Pow2[k] /\ IsBlock(port, to, k)
    BY <1>1, <1>3, PortMaskIsLargest
  <2>2. Pow2[k] \in Nat \ {0}
    BY LimitIsNat, Pow2Step
  <2> QED
    BY <1>1, <2>1, <2>2 DEF IsBlock
<1> QED
  BY <1>2, <1>3
-----------------------------------------------------------------------------
(* The masks of a range.                                                   *)

Masks == [value : Nat, block : Nat \ {0}]
Mask(port, to) == [value |-> port, block |-> portMask(port, to)]

From(to, f) ==
    [port \in 0 .. PortLimit |->
        IF port > to THEN <<>> ELSE <<Mask(port, to)>> \o f[port + portMask(port, to)]]

LEMMA NextPort ==
    ASSUME NEW to \in Ports, NEW port \in 0 .. PortLimit, ~(port > to)
    PROVE  /\ Mask(port, to) \in Masks
           /\ port + portMask(port, to) \in 0 .. PortLimit
           /\ PortLimit - (port + portMask(port, to)) < PortLimit - port
<1>1. to \in Nat /\ to + 1 <= PortLimit /\ port \in 0 .. to /\ PortLimit \in Nat
  BY LimitIsNat DEF Ports
<1>2. /\ portMask(port, to) \in Nat \ {0}
      /\ port + portMask(port, to) <= to + 1
  BY <1>1, BlockFits
<1> QED
  BY <1>1, <1>2 DEF Mask, Masks

LEMMA FromIsDefined ==
    ASSUME NEW to \in Ports
    PROVE  \E from : from = From(to, from)
<1> DEFINE A == 0 .. PortLimit
           S == Seq(Masks)
           size == [port \in A |-> PortLimit - port]
           D == [f \in [A -> S] |-> From(to, f)]
<1>1. D \in [[A -> S] -> [A -> S]]
  <2>1. ASSUME NEW f \in [A -> S], NEW port \in A
        PROVE  (IF port > to THEN <<>>
                ELSE <<Mask(port, to)>> \o f[port + portMask(port, to)]) \in S
    <3>1. CASE port > to
      BY <3>1
    <3>2. CASE ~(port > to)
      <4>1. Mask(port, to) \in Masks /\ f[port + portMask(port, to)] \in S
        BY <3>2, NextPort
      <4> QED
        BY <3>2, <4>1
    <3> QED
      BY <3>1, <3>2
  <2> QED
    BY <2>1 DEF From
<1>2. ASSUME NEW g \in [A -> S], NEW h \in [A -> S], NEW port \in A,
             \A y \in A : size[y] < size[port] => g[y] = h[y]
      PROVE  D[g][port] = D[h][port]
  <2>1. CASE port > to
    BY <2>1 DEF From
  <2>2. CASE ~(port > to)
    <3>1. g[port + portMask(port, to)] = h[port + portMask(port, to)]
      BY <1>2, <2>2, NextPort
    <3> QED
      BY <3>1 DEF From
  <2> QED
    BY <2>1, <2>2
<1>3. IsRecursion(A, S, size, D)
  <2>1. <<>> \in S /\ size \in [A -> Nat]
    BY LimitIsNat
  <2> HIDE DEF A, D, S, size
  <2> QED
    BY <1>1, <1>2, <2>1 DEF IsRecursion
<1>4. PICK f : IsDefined(f, A, S, D)
  BY <1>3, RecursiveFunction
<1>5. f \in [A -> S] /\ f = D[f] /\ D[f] = From(to, f)
  BY <1>4 DEF IsDefined
<1> QED
  BY <1>5

(* The masks are aligned, they cover the ports from port to to, and they   *)
(* come one after the other.                                               *)
Cover(masks, port, to) ==
    /\ masks \in Seq(Masks)
    /\ \A i \in DOMAIN masks :
        /\ masks[i].value % masks[i].block = 0
        /\ port <= masks[i].value
        /\ masks[i].value + masks[i].block <= to + 1
    /\ \A q \in port .. to : \E i \in DOMAIN masks :
        masks[i].value <= q /\ q < masks[i].value + masks[i].block
    /\ \A i, j \in DOMAIN masks :
        i < j => masks[i].value + masks[i].block <= masks[j].value

LEMMA CoverMore ==
    ASSUME NEW to \in Nat, NEW port \in 0 .. to, NEW mask \in Masks,
           mask.value = port, port % mask.block = 0, port + mask.block <= to + 1,
           NEW rest, Cover(rest, port + mask.block, to)
    PROVE  Cover(<<mask>> \o rest, port, to)
<1> DEFINE b == mask.block
           all == <<mask>> \o rest
<1>1. b \in Nat \ {0} /\ port \in Nat
  BY DEF Masks
<1>2. rest \in Seq(Masks)
  BY DEF Cover
<1>3. /\ all \in Seq(Masks)
      /\ Len(all) = Len(rest) + 1
      /\ DOMAIN all = 1 .. Len(rest) + 1 /\ DOMAIN rest = 1 .. Len(rest)
      /\ Len(rest) \in Nat
      /\ all[1] = mask
  BY <1>2
<1>4. \A i \in DOMAIN all : i # 1 => i - 1 \in DOMAIN rest /\ all[i] = rest[i - 1]
  BY <1>2, <1>3
<1>5. \A i \in DOMAIN rest : i + 1 \in DOMAIN all /\ all[i + 1] = rest[i]
  BY <1>2, <1>3
<1>6. \A i \in DOMAIN rest : rest[i].value \in Nat /\ rest[i].block \in Nat \ {0}
  <2>1. \A i \in DOMAIN rest : rest[i] \in Masks
    BY <1>2
  <2> QED
    BY <2>1 DEF Masks
<1> HIDE DEF all, b
<1>7. /\ \A i \in DOMAIN rest : /\ rest[i].value % rest[i].block = 0
                                /\ port + b <= rest[i].value
                                /\ rest[i].value + rest[i].block <= to + 1
      /\ \A q \in port + b .. to : \E i \in DOMAIN rest :
            rest[i].value <= q /\ q < rest[i].value + rest[i].block
      /\ \A i, j \in DOMAIN rest : i < j => rest[i].value + rest[i].block <= rest[j].value
  BY DEF Cover, b
<1>8. ASSUME NEW i \in DOMAIN all
      PROVE  /\ all[i].value % all[i].block = 0
             /\ port <= all[i].value
             /\ all[i].value + all[i].block <= to + 1
  <2>1. CASE i = 1
    BY <1>1, <1>3, <2>1 DEF b
  <2>2. CASE i # 1
    <3>1. i - 1 \in DOMAIN rest /\ all[i] = rest[i - 1]
      BY <1>4, <2>2
    <3> QED
      BY <1>1, <1>6, <1>7, <3>1
  <2> QED
    BY <2>1, <2>2
<1>9. ASSUME NEW q \in port .. to
      PROVE  \E i \in DOMAIN all : all[i].value <= q /\ q < all[i].value + all[i].block
  <2>1. CASE q < port + b
    <3>1. 1 \in DOMAIN all /\ all[1].value <= q /\ q < all[1].value + all[1].block
      BY <1>1, <1>3, <2>1 DEF b
    <3> QED
      BY <3>1
  <2>2. CASE ~(q < port + b)
    <3>1. q \in port + b .. to
      BY <1>1, <2>2
    <3>2. PICK i \in DOMAIN rest : rest[i].value <= q /\ q < rest[i].value + rest[i].block
      BY <1>7, <3>1
    <3>3. i + 1 \in DOMAIN all /\ all[i + 1] = rest[i]
      BY <1>5
    <3> QED
      BY <3>2, <3>3
  <2> QED
    BY <2>1, <2>2
<1>10. ASSUME NEW i \in DOMAIN all, NEW j \in DOMAIN all, i < j
       PROVE  all[i].value + all[i].block <= all[j].value
  <2>1. i \in Nat /\ j \in Nat /\ i >= 1 /\ j # 1
    BY <1>3, <1>10
  <2>2. j - 1 \in DOMAIN rest /\ all[j] = rest[j - 1]
    BY <1>4, <2>1
  <2>3. CASE i = 1
    BY <1>1, <1>3, <1>7, <2>2, <2>3 DEF b
  <2>4. CASE i # 1
    <3>1. i - 1 \in DOMAIN rest /\ all[i] = rest[i - 1] /\ i - 1 < j - 1
      BY <1>4, <1>10, <2>1, <2>4
    <3> QED
      BY <1>7, <2>2, <3>1
  <2> QED
    BY <2>3, <2>4
<1> QED
  BY <1>3, <1>8, <1>9, <1>10 DEF Cover, all

LEMMA FromCovers ==
    ASSUME NEW to \in Ports, NEW from, from = From(to, from)
    PROVE  \A port \in 0 .. PortLimit : Cover(from[port], port, to)
<1> DEFINE A == 0 .. PortLimit
           size == [port \in A |-> PortLimit - port]
           P == {port \in A : Cover(from[port], port, to)}
<1>1. ASSUME NEW port \in A, \A y \in A : size[y] < size[port] => y \in P
      PROVE  port \in P
  <2>1. CASE port > to
    <3>1. from[port] = <<>>
      BY <2>1 DEF From
    <3>2. port .. to = {} /\ DOMAIN <<>> = {} /\ <<>> \in Seq(Masks)
      BY <2>1, LimitIsNat DEF Ports
    <3>3. Cover(<<>>, port, to)
      BY <3>2 DEF Cover
    <3> QED
      BY <3>1, <3>3
  <2>2. CASE ~(port > to)
    <3> DEFINE next == port + portMask(port, to)
    <3>1. from[port] = <<Mask(port, to)>> \o from[next]
      BY <2>2 DEF From
    <3>2. Mask(port, to) \in Masks /\ next \in A /\ size[next] < size[port]
      BY <2>2, NextPort
    <3>3. Cover(from[next], next, to)
      BY <1>1, <3>2
    <3>4. to \in Nat /\ port \in 0 .. to
      BY <2>2, LimitIsNat DEF Ports
    <3>5. /\ Mask(port, to).value = port /\ Mask(port, to).block = portMask(port, to)
          /\ port % portMask(port, to) = 0 /\ next <= to + 1
      BY <3>4, BlockFits DEF Mask
    <3>6. Cover(<<Mask(port, to)>> \o from[next], port, to)
      BY <3>2, <3>3, <3>4, <3>5, CoverMore
    <3> QED
      BY <3>1, <3>6
  <2> QED
    BY <2>1, <2>2
<1>2. size \in [A -> Nat]
  BY LimitIsNat
<1>3. \A port \in A : port \in P
  <2> HIDE DEF A, P, size
  <2> QED
    BY <1>1, <1>2, MeasureInduction
<1> QED
  BY <1>3

(* The number of masks from port on.                                       *)
LEMMA MasksFrom ==
    ASSUME NEW to \in Ports, NEW from, from = From(to, from), NEW port \in 0 .. PortLimit
    PROVE  /\ Len(from[port]) \in Nat
           /\ port > to => Len(from[port]) = 0
           /\ ~(port > to) => Len(from[port]) = 1 + Len(from[port + portMask(port, to)])
<1>1. \A q \in 0 .. PortLimit : from[q] \in Seq(Masks)
  BY FromCovers DEF Cover
<1>2. CASE port > to
  BY <1>1, <1>2 DEF From
<1>3. CASE ~(port > to)
  <2> DEFINE next == port + portMask(port, to)
  <2>1. from[port] = <<Mask(port, to)>> \o from[next]
    BY <1>3 DEF From
  <2>2. from[next] \in Seq(Masks) /\ from[port] \in Seq(Masks)
    BY <1>1, <1>3, NextPort
  <2>3. Len(<<Mask(port, to)>> \o from[next]) = 1 + Len(from[next])
    BY <2>2
  <2> QED
    BY <1>3, <2>1, <2>2, <2>3
<1> QED
  BY <1>2, <1>3

(* A block of 2^k ports that starts at port, but does not fit in.          *)
LEMMA BlocksShrink ==
    ASSUME NEW to \in Ports, NEW from, from = From(to, from)
    PROVE  \A port \in 0 .. PortLimit : port # 0 =>
            \A k \in 0 .. PortBits :
                port % Pow2[k] = 0 /\ to + 1 - port < Pow2[k] => Len(from[port]) <= k
<1> DEFINE A == 0 .. PortLimit
           size == [port \in A |-> PortLimit - port]
           P == {port \in A : port # 0 => \A k \in 0 .. PortBits :
                    port % Pow2[k] = 0 /\ to + 1 - port < Pow2[k] => Len(from[port]) <= k}
<1>1. ASSUME NEW port \in A, \A y \in A : size[y] < size[port] => y \in P
      PROVE  port \in P
  <2> SUFFICES ASSUME port # 0, NEW k \in 0 .. PortBits,
                      port % Pow2[k] = 0, to + 1 - port < Pow2[k]
               PROVE  Len(from[port]) <= k
    OBVIOUS
  <2>0. to \in Nat /\ to < PortLimit /\ port \in Nat \ {0} /\ k \in Nat /\ PortLimit \in Nat
    BY LimitIsNat DEF Ports
  <2>1. CASE port > to
    BY <2>0, <2>1, MasksFrom
  <2>2. CASE ~(port > to)
    <3>1. PICK j \in 0 .. PortBits : portMask(port, to) = Pow2[j] /\ IsBlock(port, to, j)
      BY <2>0, <2>2, PortMaskIsLargest
    <3>2. /\ j \in Nat /\ Pow2[j] \in Nat \ {0} /\ Pow2[k] \in Nat \ {0}
          /\ Pow2[j + 1] = 2 * Pow2[j]
      BY <2>0, LimitIsNat, Pow2Step
    <3>3. port % Pow2[j] = 0 /\ port + Pow2[j] - 1 <= to
      BY <3>1 DEF IsBlock
    <3>4. j < k
      BY <2>0, <3>2, <3>3, PowersGrow
    <3>5. to + 1 - port < Pow2[j + 1]
      <4>1. port % Pow2[j + 1] = 0
        BY <2>0, <3>2, <3>4, LowerPower
      <4>2. j # PortBits
        BY <2>0, <3>2, <3>4, LimitIsNat
      <4>3. port + Pow2[j + 1] - 1 > to
        BY <3>1, <4>1, <4>2 DEF IsBlock, Largest
      <4> QED
        BY <2>0, <3>2, <4>3
    <3> DEFINE next == port + Pow2[j]
    <3>6. next \in A /\ size[next] < size[port]
      BY <2>2, <3>1, NextPort
    <3>7. next # 0 /\ next % Pow2[j] = 0 /\ to + 1 - next < Pow2[j]
      BY <2>0, <3>2, <3>3, <3>5, NextMultiple
    <3>8. Len(from[next]) <= j
      BY <1>1, <3>6, <3>7
    <3>9. Len(from[port]) = 1 + Len(from[next]) /\ Len(from[next]) \in Nat
      BY <2>2, <3>1, <3>6, MasksFrom
    <3> QED
      BY <2>0, <3>2, <3>4, <3>8, <3>9
  <2> QED
    BY <2>1, <2>2
<1>2. size \in [A -> Nat]
  BY LimitIsNat
<1>3. \A port \in A : port \in P
  <2> HIDE DEF A, P, size
  <2> QED
    BY <1>1, <1>2, MeasureInduction
<1> QED
  BY <1>3

(* Blocks first grow, then shrink.                                         *)
LEMMA BlocksGrow ==
    ASSUME NEW to \in Ports, NEW from, from = From(to, from)
    PROVE  \A port \in 0 .. PortLimit : port # 0 =>
            \A k \in 0 .. PortBits - 1 :
                port % Pow2[k] = 0 => Len(from[port]) <= 2 * PortBits - 1 - k
<1> DEFINE A == 0 .. PortLimit
           size == [port \in A |-> PortLimit - port]
           P == {port \in A : port # 0 => \A k \in 0 .. PortBits - 1 :
                    port % Pow2[k] = 0 => Len(from[port]) <= 2 * PortBits - 1 - k}
<1>1. ASSUME NEW port \in A, \A y \in A : size[y] < size[port] => y \in P
      PROVE  port \in P
  <2> SUFFICES ASSUME port # 0, NEW k \in 0 .. PortBits - 1, port % Pow2[k] = 0
               PROVE  Len(from[port]) <= 2 * PortBits - 1 - k
    OBVIOUS
  <2>0. /\ to \in Nat /\ to < PortLimit /\ port \in Nat \ {0} /\ PortLimit \in Nat
        /\ k \in Nat /\ PortBits \in Nat /\ k < PortBits
    BY LimitIsNat DEF Ports
  <2>1. CASE port > to
    BY <2>0, <2>1, MasksFrom
  <2>2. CASE ~(port > to)
    <3>1. PICK j \in 0 .. PortBits : portMask(port, to) = Pow2[j] /\ IsBlock(port, to, j)
      BY <2>0, <2>2, PortMaskIsLargest
    <3>2. j \in Nat /\ Pow2[j] \in Nat \ {0} /\ Pow2[j + 1] = 2 * Pow2[j]
      BY LimitIsNat, Pow2Step
    <3>3. port % Pow2[j] = 0 /\ port + Pow2[j] - 1 <= to
      BY <3>1 DEF IsBlock
    <3>4. j # PortBits
      BY <2>0, <3>2, <3>3 DEF PortLimit
    <3> DEFINE next == port + Pow2[j]
    <3>5. next \in A /\ size[next] < size[port] /\ next \in Nat \ {0}
      <4>1. next \in A /\ size[next] < size[port]
        BY <2>2, <3>1, NextPort
      <4>2. next \in Nat \ {0}
        BY <2>0, <3>2
      <4> QED
        BY <4>1, <4>2
    <3>6. Len(from[port]) = 1 + Len(from[next]) /\ Len(from[next]) \in Nat
      BY <2>2, <3>1, <3>5, MasksFrom
    <3>7. CASE port % Pow2[j + 1] # 0
      <4>1. k <= j
        <5> SUFFICES ASSUME j + 1 <= k PROVE FALSE
          BY <2>0, <3>2
        <5>1. j + 1 \in 0 .. k
          BY <2>0, <3>2
        <5> QED
          BY <2>0, <3>7, <5>1, LowerPower
      <4>2. next % Pow2[j + 1] = 0
        BY <2>0, <3>2, <3>3, <3>7, NextMultiple
      <4>3. CASE j + 1 = PortBits
        <5>1. next > to
          <6>1. PICK q \in Nat : next = PortLimit * q
            BY <3>5, <4>2, <4>3, LimitIsNat, Multiples DEF PortLimit
          <6>2. q # 0
            BY <2>0, <3>5, <6>1
          <6>3. next >= PortLimit
            BY <2>0, <6>1, <6>2
          <6> QED
            BY <2>0, <3>5, <6>3
        <5>2. Len(from[next]) = 0
          BY <3>5, <5>1, MasksFrom
        <5> QED
          BY <2>0, <3>6, <5>2
      <4>4. CASE j + 1 # PortBits
        <5>1. j + 1 \in 0 .. PortBits - 1
          BY <2>0, <3>2, <3>4, <4>4
        <5>2. Len(from[next]) <= 2 * PortBits - 1 - (j + 1)
          BY <1>1, <3>5, <4>2, <5>1
        <5> QED
          BY <2>0, <3>2, <3>6, <4>1, <5>2
      <4> QED
        BY <4>3, <4>4
    <3>8. CASE port % Pow2[j + 1] = 0
      <4>1. port + Pow2[j + 1] - 1 > to
        BY <3>1, <3>4, <3>8 DEF IsBlock, Largest
      <4>2. next % Pow2[j] = 0 /\ to + 1 - next < Pow2[j]
        BY <2>0, <3>2, <3>3, <4>1, NextMultiple
      <4>3. Len(from[next]) <= j
        BY <3>5, <4>2, BlocksShrink
      <4> QED
        BY <2>0, <3>2, <3>4, <3>6, <4>3
    <3> QED
      BY <3>7, <3>8
  <2> QED
    BY <2>1, <2>2
<1>2. size \in [A -> Nat]
  BY LimitIsNat
<1>3. \A port \in A : port \in P
  <2> HIDE DEF A, P, size
  <2> QED
    BY <1>1, <1>2, MeasureInduction
<1> QED
  BY <1>3

(* The masks of a range match its ports and no other, every port once,     *)
(* and are not more than twice the width of ports: the tables of u32       *)
(* filters stay short whatever the range (getMask).                        *)
THEOREM MaskTheorem ==
    ASSUME NEW r \in PortRange, r.From <= r.To
    PROVE  LET masks == getMask(r)
               wanted == IF IsAny(r) THEN Ports ELSE r.From .. r.To
           IN  /\ masks \in Seq(Masks)
               /\ \A port \in Ports :
                    port \in wanted <=> \E i \in DOMAIN masks : port \in MaskedPorts(masks[i])
               /\ \A i, j \in DOMAIN masks :
                    i # j => MaskedPorts(masks[i]) \cap MaskedPorts(masks[j]) = {}
               /\ Len(masks) <= 2 * PortBits
<1> DEFINE masks == getMask(r)
<1>1. /\ r.From \in Nat /\ r.To \in Ports /\ r.To \in Nat
      /\ r.From \in 0 .. PortLimit /\ r.To + 1 <= PortLimit
  BY LimitIsNat DEF PortRange, Ports
<1>2. CASE IsAny(r)
  <2>1. masks = <<[value |-> 0, block |-> PortLimit]>>
    BY <1>1, <1>2 DEF getMask
  <2>2. \A port \in Ports : port % PortLimit = port
    BY LimitIsNat DEF Ports
  <2>3. MaskedPorts([value |-> 0, block |-> PortLimit]) = Ports
    BY <2>2, LimitIsNat DEF MaskedPorts, Ports
  <2>4. [value |-> 0, block |-> PortLimit] \in Masks
    BY LimitIsNat DEF Masks
  <2>5. DOMAIN masks = {1} /\ Len(masks) = 1 /\ masks[1] = [value |-> 0, block |-> PortLimit]
    BY <2>1
  <2>6. Len(masks) <= 2 * PortBits
    BY <2>5, PortAssumption
  <2> HIDE DEF masks
  <2> QED
    BY <1>2, <2>1, <2>3, <2>4, <2>5, <2>6 DEF masks
<1>3. CASE ~IsAny(r)
  <2> DEFINE from == CHOOSE f : f = [port \in 0 .. PortLimit |->
                        IF port > r.To THEN <<>>
                        ELSE <<[value |-> port, block |-> portMask(port, r.To)]>>
                                \o f[port + portMask(port, r.To)]]
  <2>1. masks = from[r.From]
    BY <1>1, <1>3 DEF getMask
  <2>2. from = From(r.To, from)
    BY <1>1, FromIsDefined DEF From, Mask
  <2> HIDE DEF from, masks
  <2>3. Cover(masks, r.From, r.To)
    BY <1>1, <2>1, <2>2, FromCovers
  <2>4. Len(masks) <= 2 * PortBits
    <3>1. \A port \in 0 .. PortLimit : port # 0 => Len(from[port]) <= 2 * PortBits - 1
      <4>1. 0 \in 0 .. PortBits - 1 /\ \A port \in Nat : port % Pow2[0] = 0
        BY PortAssumption, Pow2Step
      <4>2. \A port \in 0 .. PortLimit : port # 0 => Len(from[port]) <= 2 * PortBits - 1 - 0
        BY <1>1, <2>2, <4>1, BlocksGrow
      <4> QED
        BY <4>2, PortAssumption
    <3>2. CASE r.From # 0
      BY <1>1, <2>1, <2>2, <3>1, <3>2, MasksFrom, PortAssumption
    <3>3. CASE r.From = 0
      <4>1. portMask(0, r.To) = 1 /\ 0 + 1 = 1 /\ 1 \in 0 .. PortLimit /\ 0 \in 0 .. PortLimit
        BY LimitIsNat DEF portMask
      <4>2. ~(0 > r.To)
        BY <1>1
      <4>3. Len(from[0]) = 1 + Len(from[1]) /\ Len(from[1]) \in Nat
        BY <1>1, <2>2, <4>1, <4>2, MasksFrom
      <4>4. Len(from[1]) <= 2 * PortBits - 1
        BY <3>1, <4>1
      <4> QED
        BY <2>1, <3>3, <4>3, <4>4, PortAssumption
    <3> QED
      BY <3>2, <3>3
  <2>5. masks \in Seq(Masks)
    BY <2>3 DEF Cover
  <2>6. ASSUME NEW i \in DOMAIN masks
        PROVE  /\ masks[i].value \in Nat /\ masks[i].block \in Nat \ {0}
               /\ \A port \in Ports : port \in MaskedPorts(masks[i]) <=>
                    masks[i].value <= port /\ port < masks[i].value + masks[i].block
    <3>1. masks[i] \in Masks
      BY <2>5
    <3>2. masks[i].value \in Nat /\ masks[i].block \in Nat \ {0}
      BY <3>1 DEF Masks
    <3>3. masks[i].value % masks[i].block = 0
      BY <2>3 DEF Cover
    <3>4. \A port \in Ports : port \in Nat
      BY LimitIsNat DEF Ports
    <3> QED
      BY <3>2, <3>3, <3>4, BlockOfMultiple DEF MaskedPorts
  <2>7. ASSUME NEW port \in Ports
        PROVE  port \in r.From .. r.To <=> \E i \in DOMAIN masks : port \in MaskedPorts(masks[i])
    <3>1. port \in Nat
      BY LimitIsNat DEF Ports
    <3>2. ASSUME NEW i \in DOMAIN masks, port \in MaskedPorts(masks[i])
          PROVE  port \in r.From .. r.To
      <4>1. r.From <= masks[i].value /\ masks[i].value + masks[i].block <= r.To + 1
        BY <2>3 DEF Cover
      <4> QED
        BY <1>1, <2>6, <3>1, <3>2, <4>1
    <3>3. ASSUME port \in r.From .. r.To
          PROVE  \E i \in DOMAIN masks : port \in MaskedPorts(masks[i])
      <4>1. PICK i \in DOMAIN masks :
                masks[i].value <= port /\ port < masks[i].value + masks[i].block
        BY <2>3, <3>3 DEF Cover
      <4> QED
        BY <2>6, <4>1
    <3> QED
      BY <3>2, <3>3
  <2>8. ASSUME NEW i \in DOMAIN masks, NEW j \in DOMAIN masks, i < j
        PROVE  MaskedPorts(masks[i]) \cap MaskedPorts(masks[j]) = {}
    <3>1. masks[i].value + masks[i].block <= masks[j].value
      BY <2>3, <2>8 DEF Cover
    <3>2. ASSUME NEW port \in MaskedPorts(masks[i]) \cap MaskedPorts(masks[j]) PROVE FALSE
      <4>1. port \in Ports /\ port \in Nat
        BY LimitIsNat DEF MaskedPorts, Ports
      <4>2. /\ port < masks[i].value + masks[i].block /\ masks[j].value <= port
            /\ masks[i].value \in Nat /\ masks[i].block \in Nat /\ masks[j].value \in Nat
        BY <2>6, <4>1
      <4> QED
        BY <3>1, <4>1, <4>2
    <3> QED
      BY <3>2
  <2>9. ASSUME NEW i \in DOMAIN masks, NEW j \in DOMAIN masks, i # j
        PROVE  MaskedPorts(masks[i]) \cap MaskedPorts(masks[j]) = {}
    <3>1. i \in Nat /\ j \in Nat
      BY <2>5
    <3>2. CASE i < j
      BY <2>8, <3>2
    <3>3. CASE j < i
      BY <2>8, <3>3
    <3> QED
      BY <2>9, <3>1, <3>2, <3>3
  <2> QED
    BY <1>3, <2>4, <2>5, <2>7, <2>9 DEF masks
<1> QED
  BY <1>2, <1>3
-----------------------------------------------------------------------------
(* A range that was parsed ends before the last port, so the neighbour     *)
(* test does not wrap around.                                              *)
LEMMA NeighborExact ==
    ASSUME NEW r \in ParsedRanges, NEW s \in ParsedRanges
    PROVE  IsNeighbor(r, s) <=> r.To + 1 = s.From \/ s.To + 1 = r.From
<1> DEFINE L == PortLimit
<1>1. L \in Int
  BY LimitIsNat
<1>2. /\ r.To \in Int /\ 1 <= r.To /\ r.To + 1 < L
      /\ s.To \in Int /\ 1 <= s.To /\ s.To + 1 < L
  BY <1>1 DEF ParsedRanges
<1> HIDE DEF L
<1>3. (r.To + 1) % L = r.To + 1 /\ (s.To + 1) % L = s.To + 1
  BY <1>1, <1>2
<1> QED
  BY <1>3 DEF IsNeighbor, L

(* Two ranges overlap if and only if some port is in both.                 *)
THEOREM OverlapTheorem ==
    ASSUME NEW r \in ParsedRanges, NEW s \in ParsedRanges
    PROVE  OverlapRanges(r, s) <=> \E port \in Int : ContainsPort(r, port) /\ ContainsPort(s, port)
<1>1. /\ r.From \in Int /\ r.To \in Int /\ r.From <= r.To
      /\ s.From \in Int /\ s.To \in Int /\ s.From <= s.To
  BY LimitIsNat DEF ParsedRanges
<1>2. ASSUME OverlapRanges(r, s)
      PROVE  \E port \in Int : ContainsPort(r, port) /\ ContainsPort(s, port)
  <2>1. CASE r.From <= s.From
    <3>1. ContainsPort(r, s.From) /\ ContainsPort(s, s.From)
      BY <1>1, <1>2, <2>1 DEF OverlapRanges, ContainsPort
    <3> QED
      BY <1>1, <3>1
  <2>2. CASE s.From <= r.From
    <3>1. ContainsPort(r, r.From) /\ ContainsPort(s, r.From)
      BY <1>1, <1>2, <2>2 DEF OverlapRanges, ContainsPort
    <3> QED
      BY <1>1, <3>1
  <2> QED
    BY <1>1, <2>1, <2>2
<1>3. ASSUME NEW port \in Int, ContainsPort(r, port), ContainsPort(s, port)
      PROVE  OverlapRanges(r, s)
  BY <1>1, <1>3 DEF OverlapRanges, ContainsPort
<1> QED
  BY <1>2, <1>3

(* Overlapping or neighbouring ranges are merged into one that has their   *)
(* ports and no other (MergeRanges in ComputeExcludesForOwnIpAndPorts).    *)
THEOREM MergeTheorem ==
    ASSUME NEW r \in ParsedRanges, NEW s \in ParsedRanges, NEW port \in Int,
           OverlapRanges(r, s) \/ IsNeighbor(r, s)
    PROVE  ContainsPort(MergeRanges(r, s), port) <=> ContainsPort(r, port) \/ ContainsPort(s, port)
<1>1. /\ r.From \in Int /\ r.To \in Int /\ r.From <= r.To
      /\ s.From \in Int /\ s.To \in Int /\ s.From <= s.To
  BY LimitIsNat DEF ParsedRanges
<1>2. (r.From <= s.To /\ r.To >= s.From) \/ r.To + 1 = s.From \/ s.To + 1 = r.From
  BY NeighborExact DEF OverlapRanges
<1> QED
  BY <1>1, <1>2 DEF MergeRanges, ContainsPort
=============================================================================
