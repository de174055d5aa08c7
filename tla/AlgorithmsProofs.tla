-------------------------- MODULE AlgorithmsProofs --------------------------
(***************************************************************************)
(* Theorems about the algorithms, for every width of ports, all sizes of   *)
(* disks, amounts and blocks, any answer of dig and any output of a batch, *)
(* and what they say of the model of MCAlgorithms.                         *)
(***************************************************************************)
EXTENDS MCAlgorithms, PortRangesProofs, SequenceTheorems, FiniteSetTheorems

(* The extension's own ports, and no other, are excluded: two neighbours   *)
(* as one range, and none twice (ComputeExcludesForOwnIpAndPorts).         *)
LEMMA OwnPorts ==
    ASSUME NEW nets, nets # {}, NEW port \in Ports \ {0}, NEW health \in Ports
    PROVE  UNION {x.ports.From .. x.ports.To : x \in ComputeExcludes(nets, port, health)}
                = {port, health} \ {0}
<1> DEFINE own(n) == [From |-> n, To |-> n]
           ranges == IF health = 0 \/ health = port THEN {own(port)}
                     ELSE IF IsNeighbor(own(port), own(health))
                     THEN {MergeRanges(own(port), own(health))}
                     ELSE {own(port), own(health)}
           L == PortLimit
<1>1. L \in Int
  BY LimitIsNat
<1>2. port \in 1 .. L - 1 /\ health \in 0 .. L - 1
  BY <1>1 DEF Ports
<1>3. ComputeExcludes(nets, port, health) = {[net |-> n, ports |-> r] : n \in nets, r \in ranges}
  BY DEF ComputeExcludes
<1>4. UNION {x.ports.From .. x.ports.To : x \in ComputeExcludes(nets, port, health)}
        = UNION {r.From .. r.To : r \in ranges}
  <2> HIDE DEF ranges
  <2>1. PICK n \in nets : TRUE
    OBVIOUS
  <2>2. \A r \in ranges : [net |-> n, ports |-> r] \in ComputeExcludes(nets, port, health)
    BY <1>3
  <2>3. \A x \in ComputeExcludes(nets, port, health) : x.ports \in ranges
    BY <1>3
  <2>4. \A r \in ranges : [net |-> n, ports |-> r].ports = r
    OBVIOUS
  <2>5. {x.ports.From .. x.ports.To : x \in ComputeExcludes(nets, port, health)}
            = {r.From .. r.To : r \in ranges}
    BY <2>2, <2>3, <2>4
  <2> QED
    BY <2>5
<1>5. own(port).From .. own(port).To = {port} /\ own(health).From .. own(health).To = {health}
  BY <1>1, <1>2
<1>6. \A m : UNION {r.From .. r.To : r \in {m}} = m.From .. m.To
  OBVIOUS
<1>7. CASE health = 0 \/ health = port
  <2>1. ranges = {own(port)}
    BY <1>7
  <2>2. {port, health} \ {0} = {port}
    BY <1>1, <1>2, <1>7
  <2>3. UNION {r.From .. r.To : r \in ranges} = own(port).From .. own(port).To
    BY <1>6, <2>1
  <2> QED
    BY <1>4, <1>5, <2>2, <2>3
<1>8. CASE health # 0 /\ health # port /\ IsNeighbor(own(port), own(health))
  <2> HIDE DEF L
  <2>1. (port + 1) % L = health \/ (health + 1) % L = port
    BY <1>8 DEF IsNeighbor, L
  <2>2. \A n \in 1 .. L - 1 : (n + 1) % L = IF n = L - 1 THEN 0 ELSE n + 1
    BY <1>1
  <2>3. port + 1 = health \/ health + 1 = port
    BY <1>1, <1>2, <1>8, <2>1, <2>2
  <2>4. ranges = {MergeRanges(own(port), own(health))}
    BY <1>8
  <2>5. MergeRanges(own(port), own(health)).From .. MergeRanges(own(port), own(health)).To
            = {port, health}
    BY <1>1, <1>2, <2>3 DEF MergeRanges
  <2>6. UNION {r.From .. r.To : r \in ranges} = {port, health}
    BY <1>6, <2>4, <2>5
  <2> HIDE DEF ranges
  <2> QED
    BY <1>2, <1>4, <1>8, <2>6
<1>9. CASE health # 0 /\ health # port /\ ~IsNeighbor(own(port), own(health))
  <2>1. ranges = {own(port), own(health)}
    BY <1>9
  <2> QED
    BY <1>2, <1>4, <1>5, <1>9, <2>1
<1> QED
  BY <1>7, <1>8, <1>9
-----------------------------------------------------------------------------
(* Diskfill. Whole blocks that are not larger than the amount cover more   *)
(* than half of it.                                                        *)
LEMMA WholeBlocks ==
    ASSUME NEW k \in Nat, NEW block \in Nat \ {0}, block <= k
    PROVE  /\ (k \div block) * block \in Nat
           /\ (k \div block) * block <= k
           /\ k - (k \div block) * block < block
           /\ 2 * ((k \div block) * block) > k
<1> DEFINE q == k \div block
<1>1. q \in Int /\ block * q <= k /\ k < block * (q + 1)
  OBVIOUS
<1>2. q >= 1
  BY <1>1
<1> HIDE DEF q
<1>3. block * q \in Int /\ q * block = block * q /\ block * (q + 1) = block * q + block
  BY <1>1
<1>4. block * q >= block
  BY <1>1, <1>2
<1> QED
  BY <1>1, <1>3, <1>4 DEF q

LEMMA BlockBounds ==
    ASSUME NEW opts, opts.BlockSize \in Int, NEW k \in Nat \ {0}
    PROVE  /\ calculateBlockSizeKBytes(opts, k) \in Nat \ {0}
           /\ calculateBlockSizeKBytes(opts, k) <= k
           /\ calculateBlockSizeKBytes(opts, k) <= maxBlockSize * Kilo
<1> DEFINE wanted == IF opts.BlockSize < 1 THEN defaultBlockSize * Kilo ELSE opts.BlockSize * Kilo
           bounded == IF wanted > maxBlockSize * Kilo THEN maxBlockSize * Kilo ELSE wanted
<1>1. \A m, n \in Nat \ {0} : m * n \in Nat \ {0}
  OBVIOUS
<1>2. /\ defaultBlockSize * Kilo \in Nat \ {0} /\ maxBlockSize * Kilo \in Nat \ {0}
      /\ Kilo * Kilo \in Nat \ {0}
  BY <1>1, SizeAssumption
<1>3. wanted \in Nat \ {0}
  <2>1. CASE opts.BlockSize < 1
    BY <1>2, <2>1
  <2>2. CASE ~(opts.BlockSize < 1)
    BY <1>1, <2>2, SizeAssumption
  <2> QED
    BY <2>1, <2>2
<1>4. calculateBlockSizeKBytes(opts, k) =
        IF bounded <= k THEN bounded ELSE IF k > Kilo * Kilo THEN Kilo * Kilo ELSE k
  BY DEF calculateBlockSizeKBytes
<1> HIDE DEF wanted
<1> QED
  BY <1>2, <1>3, <1>4

(* What was asked of a diskfill: FillMeetsTarget of one pair of options    *)
(* and disk, and that no block is larger than the code allows.             *)
MeetsTarget(opts, disk, result) ==
    LET target == calculateKBytesToWrite(opts, disk)
    IN  IF target <= 0 THEN result.written = 0
        ELSE /\ result.written <= target
             /\ target - result.written < result.block
             /\ 2 * result.written > target
             /\ result.block <= maxBlockSize * Kilo

(* A diskfill writes something, never more than asked for, and at least    *)
(* half of it, short by less than a block, for all sizes of disks, amounts *)
(* and blocks (Args).                                                      *)
THEOREM FillTheorem ==
    ASSUME NEW opts, NEW disk,
           opts.Size \in Nat, opts.BlockSize \in Int,
           disk.Capacity \in Nat, disk.Used \in Nat, disk.Available \in Nat
    PROVE  MeetsTarget(opts, disk, Args(opts, disk))
<1> DEFINE k == calculateKBytesToWrite(opts, disk)
           block == calculateBlockSizeKBytes(opts, k)
<1>1. k \in Int
  <2>1. \A m, n \in Nat : m * n \in Nat
    OBVIOUS
  <2>2. opts.Size * Kilo \in Nat /\ disk.Capacity * opts.Size \in Nat
    BY <2>1, SizeAssumption
  <2>3. (disk.Capacity * opts.Size) \div Hundred \in Int
    BY <2>2, SizeAssumption
  <2> QED
    BY <2>2, <2>3 DEF calculateKBytesToWrite
<1>2. maxBlockSize * Kilo >= 1
  <2>1. \A m, n \in Nat \ {0} : m * n >= 1
    OBVIOUS
  <2> QED
    BY <2>1, SizeAssumption
<1> HIDE DEF k
<1>3. CASE k <= 0
  <2>1. Args(opts, disk) \in {Invalid, Noop}
    BY <1>3 DEF Args, k
  <2> QED
    BY <1>3, <2>1 DEF MeetsTarget, Invalid, Noop, k
<1>4. CASE k > 0 /\ opts.Method = "AT_ONCE"
  <2>1. Args(opts, disk) = [cmd |-> "fallocate", written |-> k, block |-> 1]
    BY <1>1, <1>4 DEF Args, fallocateArgs, k
  <2>2. Args(opts, disk).written = k /\ Args(opts, disk).block = 1
    BY <2>1
  <2> HIDE DEF block
  <2>3. 2 * k > k /\ k <= k /\ k - k < 1 /\ ~(k <= 0)
    BY <1>1, <1>4
  <2>4. maxBlockSize * Kilo \in Int
    BY SizeAssumption
  <2> QED
    BY <1>2, <2>2, <2>3, <2>4 DEF MeetsTarget, k
<1>5. CASE k > 0 /\ opts.Method # "AT_ONCE"
  <2>1. /\ block \in Nat \ {0} /\ block <= k /\ block <= maxBlockSize * Kilo
    BY <1>1, <1>5, BlockBounds
  <2>2. Args(opts, disk) = [cmd |-> "dd", written |-> (k \div block) * block, block |-> block]
    BY <1>1, <1>5 DEF Args, ddArgs, k
  <2> HIDE DEF block
  <2>3. Args(opts, disk).written = (k \div block) * block /\ Args(opts, disk).block = block
    BY <2>2
  <2>4. /\ (k \div block) * block <= k
        /\ k - (k \div block) * block < block
        /\ 2 * ((k \div block) * block) > k
    BY <1>1, <1>5, <2>1, WholeBlocks
  <2>5. ~(k <= 0)
    BY <1>1, <1>5
  <2> QED
    BY <2>1, <2>3, <2>4, <2>5 DEF MeetsTarget, k
<1> QED
  BY <1>1, <1>3, <1>4, <1>5
-----------------------------------------------------------------------------
(* What the lines leave to resolve.                                        *)
LEMMA AnswersFold ==
    ASSUME NEW names, NEW lines, NEW n \in Nat, DOMAIN lines = 1 .. n
    PROVE  FoldLeft(Answer, names, lines)
            = names \ {lines[i].name : i \in {j \in DOMAIN lines : lines[j].kind = "address"}}
<1> DEFINE S == SUBSET names
           step == [p \in S \X (1 .. n) |-> Answer(p[1], lines[p[2]])]
           left(i) == names \ {lines[j].name : j \in {k \in 1 .. i : lines[k].kind = "address"}}
           iter == CHOOSE f : f = [s \in SUBSET (1 .. n) |->
                        IF s = {} THEN names ELSE Answer(f[s \ {Max(s)}], lines[Max(s)])]
           P == {i \in Nat : i <= n => iter[1 .. i] = left(i)}
<1>1. FoldLeft(Answer, names, lines) = iter[1 .. n]
  BY DEF FoldLeft, MapThenFoldSet
<1>2. iter = [s \in SUBSET (1 .. n) |->
                IF s = {} THEN names ELSE Answer(iter[s \ {Max(s)}], lines[Max(s)])]
  <2> HIDE DEF iter
  <2>1. IsStep(n, S, names, step)
    <3>1. step \in [S \X (1 .. n) -> S]
      BY DEF Answer
    <3> QED
      BY <3>1 DEF IsStep
  <2>2. PICK f : IsFold(f, n, S, names, step)
    <3> HIDE DEF S, step
    <3> QED
      BY <2>1, FoldIsDefined
  <2>3. ASSUME NEW s \in SUBSET (1 .. n), s # {}
        PROVE  f[s] = Answer(f[s \ {Max(s)}], lines[Max(s)])
    <3>1. Max(s) \in 1 .. n /\ f[s \ {Max(s)}] \in S
      <4>1. Max(s) \in s
        BY <2>3, GreatestIndex
      <4> QED
        BY <2>2, <4>1 DEF IsFold
    <3>2. f[s] = step[<<f[s \ {Max(s)}], Max(s)>>]
      BY <2>2, <2>3 DEF IsFold
    <3> QED
      BY <3>1, <3>2
  <2>4. f = [s \in SUBSET (1 .. n) |->
                IF s = {} THEN names ELSE Answer(f[s \ {Max(s)}], lines[Max(s)])]
    BY <2>2, <2>3 DEF IsFold
  <2> QED
    BY <2>4 DEF iter
<1> HIDE DEF iter
<1>3. 0 \in P
  <2>1. iter[1 .. 0] = names
    BY <1>2, FoldSteps
  <2> QED
    BY <2>1, FoldSteps
<1>4. ASSUME NEW i \in Nat, i \in P PROVE i + 1 \in P
  <2> SUFFICES ASSUME i + 1 <= n PROVE iter[1 .. i + 1] = left(i + 1)
    OBVIOUS
  <2>1. i + 1 \in 1 .. n /\ (i + 1) - 1 = i
    OBVIOUS
  <2>2. iter[1 .. i + 1] = Answer(iter[1 .. i], lines[i + 1])
    <3>1. /\ 1 .. i + 1 \in SUBSET (1 .. n) /\ 1 .. i + 1 # {}
          /\ Max(1 .. i + 1) = i + 1 /\ (1 .. i + 1) \ {Max(1 .. i + 1)} = 1 .. i
      BY <2>1, FoldSteps
    <3> QED
      BY <1>2, <3>1
  <2>3. iter[1 .. i] = left(i)
    BY <1>4
  <2>4. 1 .. i + 1 = (1 .. i) \cup {i + 1}
    OBVIOUS
  <2>5. left(i + 1) = Answer(left(i), lines[i + 1])
    BY <2>4 DEF Answer
  <2> QED
    BY <2>2, <2>3, <2>5
<1>5. \A i \in Nat : i \in P
  <2> HIDE DEF P
  <2> QED
    BY <1>3, <1>4, Induction
<1> QED
  BY <1>1, <1>5

(* AllNamesResolved of one list of host names and one answer of dig.       *)
NamesResolved(hostnames, lines, digFails, result) ==
    LET wanted == ToSet(hostnames)
        answered == {lines[i].name : i \in {j \in DOMAIN lines : lines[j].kind = "address"}}
    IN  /\ ~result.err <=> wanted = {} \/ (~digFails /\ wanted \subseteq answered \ InvalidNames)
        /\ ~result.err => \A h \in wanted : \E i \in result.resolved : lines[i].name = h

(* Host names are resolved if and only if dig succeeded and each of them   *)
(* is valid and has an address of its own, whatever dig answers and in     *)
(* whatever order; then each has an address among those returned.          *)
THEOREM ResolveTheorem ==
    ASSUME NEW H, NEW hostnames \in Seq(H), NEW L, NEW lines \in Seq(L), NEW digFails \in BOOLEAN
    PROVE  NamesResolved(hostnames, lines, digFails, resolve(hostnames, lines, digFails))
<1> DEFINE result == resolve(hostnames, lines, digFails)
           wanted == ToSet(hostnames)
           addresses == {j \in DOMAIN lines : lines[j].kind = "address"}
           answered == {lines[i].name : i \in addresses}
<1> SUFFICES
        /\ ~result.err <=> wanted = {} \/ (~digFails /\ wanted \subseteq answered \ InvalidNames)
        /\ ~result.err => \A h \in wanted : \E i \in result.resolved : lines[i].name = h
  BY DEF NamesResolved
<1>1. FoldLeft(Answer, wanted, lines) = wanted \ answered
  <2>1. Len(lines) \in Nat /\ DOMAIN lines = 1 .. Len(lines)
    OBVIOUS
  <2> HIDE DEF wanted
  <2> QED
    BY <2>1, AnswersFold
<1>2. wanted = {} <=> hostnames = <<>>
  <2>1. hostnames = <<>> => wanted = {}
    BY DEF ToSet
  <2>2. hostnames # <<>> => hostnames[1] \in wanted
    BY DEF ToSet
  <2> QED
    BY <2>1, <2>2
<1>3. result = IF wanted = {} THEN Resolved({})
               ELSE IF wanted \cap InvalidNames # {} \/ digFails \/ wanted \ answered # {}
               THEN Error ELSE Resolved(addresses)
  <2> HIDE DEF answered, wanted
  <2> QED
    BY <1>1, <1>2 DEF resolve, wanted
<1>4. Error.err /\ \A x : ~Resolved(x).err /\ Resolved(x).resolved = x
  BY DEF Resolved, Error
<1>5. \A h \in answered : \E i \in addresses : lines[i].name = h
  OBVIOUS
<1> HIDE DEF result, wanted, answered, addresses
<1>6. CASE wanted = {}
  <2>1. ~result.err
    BY <1>3, <1>4, <1>6
  <2> QED
    BY <1>6, <2>1
<1>7. CASE wanted # {} /\ (wanted \cap InvalidNames # {} \/ digFails \/ wanted \ answered # {})
  <2>1. result.err
    <3>1. result = Error
      BY <1>3, <1>7
    <3> QED
      BY <1>4, <3>1
  <2> QED
    BY <1>7, <2>1
<1>8. CASE wanted # {} /\ wanted \cap InvalidNames = {} /\ ~digFails /\ wanted \ answered = {}
  <2>1. ~result.err /\ result.resolved = addresses
    <3>1. result = Resolved(addresses)
      BY <1>3, <1>8
    <3> QED
      BY <1>4, <3>1
  <2>2. \A h \in wanted : \E i \in addresses : lines[i].name = h
    BY <1>5, <1>8
  <2> QED
    BY <1>8, <2>1, <2>2
<1> QED
  BY <1>6, <1>7, <1>8
-----------------------------------------------------------------------------
(* Reports of any length with any messages. A report is the messages of a  *)
(* command that failed, then its number.                                   *)
TextLines(M) == [msg : M]
CommandLines == [lineno : Nat \ {0}]
Lines(M) == TextLines(M) \cup CommandLines
ReportsOf(M) ==
    {r \in Seq(Lines(M)) : /\ r # <<>> /\ r[Len(r)] \in CommandLines
                           /\ \A j \in 1 .. Len(r) - 1 : r[j] \in TextLines(M)}
Messages(r, k) == {r[j].msg : j \in 1 .. k}
ErrorOf(r) == [Lineno |-> r[Len(r)].lineno, Msg |-> Messages(r, Len(r) - 1)]
Errors(M) == [Lineno : Nat, Msg : SUBSET M]

(* parseBatchError line by line.                                           *)
ScanStates(M) == [errs : Seq(Errors(M)), msg : SUBSET M]
NothingScanned == [errs |-> <<>>, msg |-> {}]
Scan(acc, line) ==
    IF IsCommand(line)
    THEN [errs |-> Append(acc.errs, [Lineno |-> line.lineno, Msg |-> acc.msg]), msg |-> {}]
    ELSE [acc EXCEPT !.msg = @ \cup {line.msg}]
Scanned(lines) ==
    LET iter[s \in SUBSET DOMAIN lines] ==
            IF s = {} THEN NothingScanned ELSE Scan(iter[s \ {Max(s)}], lines[Max(s)])
    IN  iter[DOMAIN lines]

LEMMA ParsedIsScanned ==
    ASSUME NEW lines
    PROVE  parseBatchError(lines) = Scanned(lines).errs
BY DEF parseBatchError, FoldLeft, MapThenFoldSet, Scanned, Scan, NothingScanned

LEMMA ScanCommand ==
    ASSUME NEW M, NEW acc \in ScanStates(M), NEW line \in CommandLines
    PROVE  /\ Scan(acc, line) \in ScanStates(M)
           /\ Scan(acc, line).errs = Append(acc.errs, [Lineno |-> line.lineno, Msg |-> acc.msg])
           /\ Scan(acc, line).msg = {}
<1>1. IsCommand(line)
  BY DEF CommandLines, IsCommand
<1>2. Scan(acc, line) =
        [errs |-> Append(acc.errs, [Lineno |-> line.lineno, Msg |-> acc.msg]), msg |-> {}]
  BY <1>1 DEF Scan
<1>3. [Lineno |-> line.lineno, Msg |-> acc.msg] \in Errors(M) /\ acc.errs \in Seq(Errors(M))
  BY DEF ScanStates, CommandLines, Errors
<1>4. Append(acc.errs, [Lineno |-> line.lineno, Msg |-> acc.msg]) \in Seq(Errors(M))
  BY <1>3
<1> QED
  BY <1>2, <1>4 DEF ScanStates

LEMMA ScanText ==
    ASSUME NEW M, NEW acc \in ScanStates(M), NEW line \in TextLines(M)
    PROVE  /\ Scan(acc, line) \in ScanStates(M)
           /\ Scan(acc, line).errs = acc.errs
           /\ Scan(acc, line).msg = acc.msg \cup {line.msg}
<1>1. ~IsCommand(line)
  BY DEF TextLines, IsCommand
<1>2. Scan(acc, line) = [acc EXCEPT !.msg = @ \cup {line.msg}]
  BY <1>1 DEF Scan
<1> QED
  BY <1>2 DEF ScanStates, TextLines

LEMMA ScanSteps ==
    ASSUME NEW M, NEW lines \in Seq(Lines(M))
    PROVE  \E acc : /\ \A i \in 0 .. Len(lines) : acc[i] \in ScanStates(M)
                    /\ acc[0] = NothingScanned
                    /\ \A i \in 1 .. Len(lines) : acc[i] = Scan(acc[i - 1], lines[i])
                    /\ Scanned(lines) = acc[Len(lines)]
<1> DEFINE n == Len(lines)
           S == ScanStates(M)
           step == [p \in S \X (1 .. n) |-> Scan(p[1], lines[p[2]])]
           iter == CHOOSE f : f = [s \in SUBSET (1 .. n) |->
                        IF s = {} THEN NothingScanned ELSE Scan(f[s \ {Max(s)}], lines[Max(s)])]
           acc == [i \in 0 .. n |-> iter[1 .. i]]
           P == {i \in Nat : i <= n => iter[1 .. i] \in S}
<1>1. n \in Nat /\ DOMAIN lines = 1 .. n /\ \A i \in 1 .. n : lines[i] \in Lines(M)
  OBVIOUS
<1>2. Scanned(lines) = iter[1 .. n]
  BY <1>1 DEF Scanned
<1> HIDE DEF n, iter
<1>3. ASSUME NEW st \in S, NEW i \in 1 .. n PROVE Scan(st, lines[i]) \in S
  BY <1>1, ScanCommand, ScanText DEF Lines
<1>4. NothingScanned \in S
  BY DEF NothingScanned, ScanStates
<1>5. iter = [s \in SUBSET (1 .. n) |->
                IF s = {} THEN NothingScanned ELSE Scan(iter[s \ {Max(s)}], lines[Max(s)])]
  <2> HIDE DEF S
  <2>1. IsStep(n, S, NothingScanned, step)
    BY <1>1, <1>3, <1>4 DEF IsStep
  <2>2. PICK f : IsFold(f, n, S, NothingScanned, step)
    <3> HIDE DEF step
    <3> QED
      BY <2>1, FoldIsDefined
  <2>3. ASSUME NEW s \in SUBSET (1 .. n), s # {}
        PROVE  f[s] = Scan(f[s \ {Max(s)}], lines[Max(s)])
    <3>1. Max(s) \in 1 .. n /\ f[s \ {Max(s)}] \in S
      <4>1. Max(s) \in s
        BY <1>1, <2>3, GreatestIndex
      <4> QED
        BY <2>2, <4>1 DEF IsFold
    <3>2. f[s] = step[<<f[s \ {Max(s)}], Max(s)>>]
      BY <2>2, <2>3 DEF IsFold
    <3> QED
      BY <3>1, <3>2
  <2>4. f = [s \in SUBSET (1 .. n) |->
                IF s = {} THEN NothingScanned ELSE Scan(f[s \ {Max(s)}], lines[Max(s)])]
    BY <2>2, <2>3 DEF IsFold
  <2> QED
    BY <2>4 DEF iter
<1>6. iter[1 .. 0] = NothingScanned
  BY <1>1, <1>5, FoldSteps
<1>7. ASSUME NEW i \in 1 .. n
      PROVE  iter[1 .. i] = Scan(iter[1 .. i - 1], lines[i])
  <2>1. /\ 1 .. i \in SUBSET (1 .. n) /\ 1 .. i # {}
        /\ Max(1 .. i) = i /\ (1 .. i) \ {Max(1 .. i)} = 1 .. i - 1
    BY <1>1, FoldSteps
  <2> QED
    BY <1>5, <2>1
<1>8. \A i \in Nat : i \in P
  <2> HIDE DEF S
  <2>1. 0 \in P
    BY <1>4, <1>6
  <2>2. ASSUME NEW i \in Nat, i \in P PROVE i + 1 \in P
    <3> SUFFICES ASSUME i + 1 <= n PROVE iter[1 .. i + 1] \in S
      OBVIOUS
    <3>1. i + 1 \in 1 .. n /\ (i + 1) - 1 = i /\ i <= n
      BY <1>1
    <3>2. iter[1 .. i + 1] = Scan(iter[1 .. i], lines[i + 1])
      BY <1>7, <3>1
    <3>3. iter[1 .. i] \in S
      BY <2>2, <3>1
    <3> QED
      BY <1>3, <3>1, <3>2, <3>3
  <2> HIDE DEF P
  <2> QED
    BY <2>1, <2>2, Induction
<1>9. /\ \A i \in 0 .. n : acc[i] \in S
      /\ acc[0] = NothingScanned
      /\ \A i \in 1 .. n : acc[i] = Scan(acc[i - 1], lines[i])
      /\ Scanned(lines) = acc[n]
  <2> HIDE DEF S
  <2>1. \A i \in 0 .. n : i \in Nat /\ acc[i] = iter[1 .. i]
    BY <1>1
  <2>2. 0 \in 0 .. n /\ n \in 0 .. n /\ \A i \in 1 .. n : i \in 0 .. n /\ i - 1 \in 0 .. n
    BY <1>1
  <2>3. \A i \in 0 .. n : iter[1 .. i] \in S
    BY <1>1, <1>8
  <2> HIDE DEF acc, P
  <2> QED
    BY <1>2, <1>6, <1>7, <2>1, <2>2, <2>3
<1> HIDE DEF acc, S
<1> QED
  BY <1>9 DEF n, S

(* st is the scan of the first k of the lines, each in the set W.          *)
IsScan(M, W, st, lines, k) ==
    /\ \A j \in 0 .. k : st[j] \in ScanStates(M)
    /\ \A j \in 1 .. k : lines[j] \in W /\ st[j] = Scan(st[j - 1], lines[j])
Gathered(st, lines, k) ==
    st[k].errs = st[0].errs /\ st[k].msg = st[0].msg \cup Messages(lines, k)

LEMMA TextScanned ==
    ASSUME NEW M, NEW k \in Nat, NEW lines, NEW st, IsScan(M, TextLines(M), st, lines, k)
    PROVE  Gathered(st, lines, k)
<1> DEFINE So(j) == st[j].errs = st[0].errs /\ st[j].msg = st[0].msg \cup Messages(lines, j)
           S == {j \in 0 .. k : So(j)}
<1>1. 0 \in S
  <2>1. Messages(lines, 0) = {}
    BY DEF Messages
  <2> QED
    BY <2>1
<1>2. ASSUME NEW j \in 1 .. k, j - 1 \in S PROVE j \in S
  <2>1. j - 1 \in 0 .. k /\ j \in 0 .. k /\ 1 .. j = (1 .. j - 1) \cup {j}
    OBVIOUS
  <2>2. st[j].errs = st[j - 1].errs /\ st[j].msg = st[j - 1].msg \cup {lines[j].msg}
    <3>1. /\ st[j - 1] \in ScanStates(M) /\ lines[j] \in TextLines(M)
          /\ st[j] = Scan(st[j - 1], lines[j])
      BY <2>1 DEF IsScan
    <3> QED
      BY <3>1, ScanText
  <2>3. Messages(lines, j) = Messages(lines, j - 1) \cup {lines[j].msg}
    BY <2>1 DEF Messages
  <2>4. st[j - 1].errs = st[0].errs /\ st[j - 1].msg = st[0].msg \cup Messages(lines, j - 1)
    BY <1>2
  <2> QED
    BY <2>1, <2>2, <2>3, <2>4
<1>3. \A j \in 0 .. k : j \in S
  <2> HIDE DEF S
  <2> QED
    BY <1>1, <1>2, Upward
<1>4. k \in 0 .. k
  OBVIOUS
<1> QED
  BY <1>3, <1>4 DEF Gathered

LEMMA ReportScanned ==
    ASSUME NEW M, NEW r \in ReportsOf(M), NEW st, \A j \in 0 .. Len(r) : st[j] \in ScanStates(M),
           \A j \in 1 .. Len(r) : st[j] = Scan(st[j - 1], r[j]), st[0].msg = {}
    PROVE  st[Len(r)].errs = Append(st[0].errs, ErrorOf(r)) /\ st[Len(r)].msg = {}
<1>1. /\ Len(r) \in Nat /\ Len(r) >= 1 /\ r[Len(r)] \in CommandLines
      /\ \A j \in 1 .. Len(r) - 1 : r[j] \in TextLines(M)
  BY DEF ReportsOf
<1> DEFINE k == Len(r) - 1
<1>2. k \in Nat /\ Len(r) = k + 1
  BY <1>1
<1>3. st[k].errs = st[0].errs /\ st[k].msg = Messages(r, k)
  <2>1. /\ \A j \in 1 .. k : r[j] \in TextLines(M) /\ st[j] = Scan(st[j - 1], r[j])
        /\ \A j \in 0 .. k : st[j] \in ScanStates(M)
    BY <1>1, <1>2
  <2>2. Gathered(st, r, k)
    <3>1. IsScan(M, TextLines(M), st, r, k)
      BY <2>1 DEF IsScan
    <3>2. k \in Nat
      BY <1>2
    <3> HIDE DEF k
    <3> QED
      BY <3>1, <3>2, TextScanned
  <2> QED
    BY <2>2 DEF Gathered
<1>4. st[k] \in ScanStates(M) /\ st[Len(r)] = Scan(st[k], r[Len(r)])
  BY <1>1, <1>2
<1>5. /\ st[Len(r)].errs = Append(st[k].errs, [Lineno |-> r[Len(r)].lineno, Msg |-> st[k].msg])
      /\ st[Len(r)].msg = {}
  BY <1>1, <1>4, ScanCommand
<1> QED
  BY <1>3, <1>5 DEF ErrorOf

(* One error for each report, with its messages and the number of its      *)
(* command; the lines after the last report make none.                     *)
LEMMA ReportsScanned ==
    ASSUME NEW M, NEW reports \in Seq(ReportsOf(M)), NEW rest \in Seq(TextLines(M))
    PROVE  LET errs == parseBatchError(FlattenSeq(reports) \o rest)
           IN  /\ errs \in Seq(Errors(M)) /\ Len(errs) = Len(reports)
               /\ \A k \in 1 .. Len(reports) : errs[k] = ErrorOf(reports[k])
<1> DEFINE n == Len(reports)
           L == Lines(M)
           all == FlattenSeq(reports) \o rest
<1>1. /\ n \in Nat /\ \A i \in 1 .. n : reports[i] \in ReportsOf(M)
      /\ Len(rest) \in Nat /\ \A j \in 1 .. Len(rest) : rest[j] \in TextLines(M)
  OBVIOUS
<1>2. reports \in Seq(Seq(L)) /\ rest \in Seq(L)
  <2>1. ReportsOf(M) \subseteq Seq(L) /\ TextLines(M) \subseteq L
    BY DEF ReportsOf, Lines
  <2> HIDE DEF L
  <2> QED
    BY <2>1
<1>3. ASSUME NEW i \in 1 .. n PROVE Len(reports[i]) \in Nat
  BY <1>1 DEF ReportsOf
<1>4. all \in Seq(L)
  <2> HIDE DEF L
  <2> QED
    BY <1>2, FlattenParts
<1>5. PICK at : AreAt(at, reports, rest, all)
  <2> HIDE DEF L
  <2> QED
    BY <1>2, FlattenParts
<1>6. /\ at[0] = 0
      /\ \A i \in 0 .. n : at[i] \in Nat
      /\ \A i \in 1 .. n :
            /\ at[i] = at[i - 1] + Len(reports[i])
            /\ \A j \in 1 .. Len(reports[i]) : all[at[i - 1] + j] = reports[i][j]
            /\ at[i] <= Len(all)
      /\ Len(all) = at[n] + Len(rest)
      /\ \A j \in 1 .. Len(rest) : all[at[n] + j] = rest[j]
  <2> HIDE DEF all
  <2> QED
    BY <1>5 DEF AreAt
<1> HIDE DEF n, all
<1>7. Len(all) \in Nat
  BY <1>4
<1>8. PICK acc : /\ \A p \in 0 .. Len(all) : acc[p] \in ScanStates(M)
                 /\ acc[0] = NothingScanned
                 /\ \A p \in 1 .. Len(all) : acc[p] = Scan(acc[p - 1], all[p])
                 /\ Scanned(all) = acc[Len(all)]
  BY <1>4, ScanSteps
<1> DEFINE So(errs, k) == Len(errs) = k /\ \A j \in 1 .. k : errs[j] = ErrorOf(reports[j])
           S == {i \in 0 .. n : acc[at[i]].msg = {} /\ So(acc[at[i]].errs, i)}
<1>9. 0 \in S
  BY <1>1, <1>6, <1>8 DEF NothingScanned
<1>10. ASSUME NEW i \in 1 .. n, i - 1 \in S PROVE i \in S
  <2> DEFINE r == reports[i]
             st == [j \in 0 .. Len(r) |-> acc[at[i - 1] + j]]
             errs == acc[at[i - 1]].errs
  <2>1. /\ i - 1 \in 0 .. n /\ i \in 0 .. n /\ r \in ReportsOf(M) /\ Len(r) \in Nat
        /\ at[i - 1] \in Nat /\ at[i] = at[i - 1] + Len(r) /\ at[i] <= Len(all)
    BY <1>1, <1>3, <1>6
  <2>2. /\ \A j \in 1 .. Len(r) : all[at[i - 1] + j] = r[j]
        /\ acc[at[i - 1]].msg = {} /\ So(errs, i - 1)
    BY <1>6, <1>10
  <2> HIDE DEF r, errs
  <2>3. ASSUME NEW j \in 0 .. Len(r)
        PROVE  /\ st[j] = acc[at[i - 1] + j] /\ st[j] \in ScanStates(M)
               /\ j # 0 => st[j] = Scan(st[j - 1], r[j])
    <3>1. /\ at[i - 1] + j \in 0 .. Len(all)
          /\ j # 0 => /\ at[i - 1] + j \in 1 .. Len(all)
                      /\ j - 1 \in 0 .. Len(r) /\ j \in 1 .. Len(r)
                      /\ (at[i - 1] + j) - 1 = at[i - 1] + (j - 1)
      BY <1>7, <2>1
    <3>2. st[j] = acc[at[i - 1] + j] /\ st[j] \in ScanStates(M)
      BY <1>8, <3>1
    <3>3. ASSUME j # 0 PROVE st[j] = Scan(st[j - 1], r[j])
      <4>1. acc[at[i - 1] + j] = Scan(acc[at[i - 1] + (j - 1)], all[at[i - 1] + j])
        BY <1>8, <3>1, <3>3
      <4>2. all[at[i - 1] + j] = r[j]
        BY <2>2, <3>1, <3>3
      <4>3. st[j - 1] = acc[at[i - 1] + (j - 1)]
        BY <3>1, <3>3
      <4> QED
        BY <3>2, <4>1, <4>2, <4>3
    <3> QED
      BY <3>2, <3>3
  <2>4. st[0] = acc[at[i - 1]] /\ st[Len(r)] = acc[at[i]]
    BY <2>1
  <2> HIDE DEF st
  <2>5. st[Len(r)].errs = Append(st[0].errs, ErrorOf(r)) /\ st[Len(r)].msg = {}
    <3>1. /\ \A j \in 0 .. Len(r) : st[j] \in ScanStates(M)
          /\ \A j \in 1 .. Len(r) : st[j] = Scan(st[j - 1], r[j])
          /\ st[0].msg = {}
      BY <2>1, <2>2, <2>3, <2>4
    <3> QED
      BY <2>1, <3>1, ReportScanned
  <2>6. errs \in Seq(Errors(M))
    <3>1. 0 \in 0 .. Len(r)
      BY <2>1
    <3>2. acc[at[i - 1]] \in ScanStates(M)
      BY <2>3, <2>4, <3>1
    <3> QED
      BY <3>2 DEF ScanStates, errs
  <2>7. So(Append(errs, ErrorOf(r)), i)
    <3>1. /\ Len(errs) = i - 1 /\ Len(Append(errs, ErrorOf(r))) = (i - 1) + 1
          /\ Append(errs, ErrorOf(r))[(i - 1) + 1] = ErrorOf(r)
          /\ \A j \in 1 .. i - 1 : Append(errs, ErrorOf(r))[j] = errs[j]
      BY <2>2, <2>6
    <3>2. (i - 1) + 1 = i /\ \A j \in 1 .. i : j = i \/ j \in 1 .. i - 1
      OBVIOUS
    <3> QED
      BY <2>2, <3>1, <3>2 DEF r
  <2>8. acc[at[i]].errs = Append(errs, ErrorOf(r)) /\ acc[at[i]].msg = {}
    BY <2>4, <2>5 DEF errs
  <2> HIDE DEF So
  <2> QED
    BY <2>1, <2>7, <2>8
<1>11. So(acc[at[n]].errs, n)
  <2>1. \A i \in 0 .. n : i \in S
    <3> HIDE DEF S
    <3> QED
      BY <1>1, <1>9, <1>10, Upward
  <2> HIDE DEF So
  <2>2. n \in 0 .. n
    BY <1>1
  <2> QED
    BY <2>1, <2>2
<1>12. acc[Len(all)].errs = acc[at[n]].errs
  <2> DEFINE k == Len(rest)
             st == [j \in 0 .. k |-> acc[at[n] + j]]
  <2>1. k \in Nat /\ at[n] \in Nat /\ Len(all) = at[n] + k
    <3>1. n \in 0 .. n
      BY <1>1
    <3> QED
      BY <1>1, <1>6, <3>1
  <2> HIDE DEF k
  <2>2. ASSUME NEW j \in 0 .. k
        PROVE  /\ st[j] = acc[at[n] + j] /\ st[j] \in ScanStates(M)
               /\ j # 0 => st[j] = Scan(st[j - 1], rest[j])
    <3>1. /\ at[n] + j \in 0 .. Len(all)
          /\ j # 0 => /\ at[n] + j \in 1 .. Len(all) /\ j - 1 \in 0 .. k /\ j \in 1 .. k
                      /\ (at[n] + j) - 1 = at[n] + (j - 1)
      BY <2>1
    <3>2. st[j] = acc[at[n] + j] /\ st[j] \in ScanStates(M)
      BY <1>8, <3>1
    <3>3. ASSUME j # 0 PROVE st[j] = Scan(st[j - 1], rest[j])
      <4>1. acc[at[n] + j] = Scan(acc[at[n] + (j - 1)], all[at[n] + j])
        BY <1>8, <3>1, <3>3
      <4>2. all[at[n] + j] = rest[j]
        BY <1>6, <3>1, <3>3 DEF k
      <4>3. st[j - 1] = acc[at[n] + (j - 1)]
        BY <3>1, <3>3
      <4> QED
        BY <3>2, <4>1, <4>2, <4>3
    <3> QED
      BY <3>2, <3>3
  <2>3. st[0] = acc[at[n]] /\ st[k] = acc[Len(all)]
    BY <2>1
  <2> HIDE DEF st
  <2>4. /\ \A j \in 0 .. k : st[j] \in ScanStates(M)
        /\ \A j \in 1 .. k : st[j] = Scan(st[j - 1], rest[j]) /\ rest[j] \in TextLines(M)
    BY <1>1, <2>1, <2>2 DEF k
  <2>5. Gathered(st, rest, k)
    <3>1. IsScan(M, TextLines(M), st, rest, k)
      BY <2>4 DEF IsScan
    <3> QED
      BY <2>1, <3>1, TextScanned
  <2> QED
    BY <2>3, <2>5 DEF Gathered
<1>13. acc[Len(all)].errs \in Seq(Errors(M))
  <2>1. Len(all) \in 0 .. Len(all)
    BY <1>7
  <2> QED
    BY <1>8, <2>1 DEF ScanStates
<1>14. parseBatchError(all) = acc[Len(all)].errs
  BY <1>8, ParsedIsScanned
<1> QED
  BY <1>11, <1>12, <1>13, <1>14 DEF all, n

(* The errors that are kept (filterBatchErrors).                           *)
KeepError(ignore, kept, e) == IF e.Msg \cap ignore = {} THEN Append(kept, e) ELSE kept

Kept(ignore, errs) ==
    LET iter[s \in SUBSET DOMAIN errs] ==
            IF s = {} THEN <<>> ELSE KeepError(ignore, iter[s \ {Max(s)}], errs[Max(s)])
    IN  iter[DOMAIN errs]

LEMMA FilteredErrors ==
    ASSUME NEW err, NEW mode
    PROVE  filterBatchErrors(err, mode) =
            LET ignore == IF mode = "add" THEN ignoreErrorsBatchAdd ELSE ignoreErrorsBatchDelete
                errs == Kept(ignore, err.Errors)
            IN  IF err.kind # "batch" THEN err
                ELSE IF errs = <<>> THEN Ok ELSE batchErrors(errs)
BY DEF filterBatchErrors, FoldLeft, MapThenFoldSet, Kept, KeepError

LEMMA ErrorsKept ==
    ASSUME NEW E, NEW errs \in Seq(E), NEW ignore
    PROVE  /\ Kept(ignore, errs) \in Seq(E)
           /\ ToSet(Kept(ignore, errs)) = {e \in ToSet(errs) : e.Msg \cap ignore = {}}
<1> DEFINE n == Len(errs)
           S == Seq(E)
           step == [p \in S \X (1 .. n) |-> KeepError(ignore, p[1], errs[p[2]])]
           iter == CHOOSE f : f = [s \in SUBSET (1 .. n) |->
                        IF s = {} THEN <<>> ELSE KeepError(ignore, f[s \ {Max(s)}], errs[Max(s)])]
           wanted(i) == {e \in {errs[j] : j \in 1 .. i} : e.Msg \cap ignore = {}}
           P == {i \in Nat : i <= n => iter[1 .. i] \in S /\ ToSet(iter[1 .. i]) = wanted(i)}
<1>1. n \in Nat /\ DOMAIN errs = 1 .. n /\ \A i \in 1 .. n : errs[i] \in E
  OBVIOUS
<1> HIDE DEF n
<1>2. iter = [s \in SUBSET (1 .. n) |->
                IF s = {} THEN <<>> ELSE KeepError(ignore, iter[s \ {Max(s)}], errs[Max(s)])]
  <2> HIDE DEF iter
  <2>1. IsStep(n, S, <<>>, step)
    <3>1. ASSUME NEW p \in S \X (1 .. n) PROVE KeepError(ignore, p[1], errs[p[2]]) \in S
      BY <1>1 DEF KeepError
    <3> QED
      BY <1>1, <3>1 DEF IsStep
  <2>2. PICK f : IsFold(f, n, S, <<>>, step)
    <3> HIDE DEF S, step
    <3> QED
      BY <2>1, FoldIsDefined
  <2>3. ASSUME NEW s \in SUBSET (1 .. n), s # {}
        PROVE  f[s] = KeepError(ignore, f[s \ {Max(s)}], errs[Max(s)])
    <3>1. Max(s) \in 1 .. n /\ f[s \ {Max(s)}] \in S
      <4>1. Max(s) \in s
        BY <1>1, <2>3, GreatestIndex
      <4> QED
        BY <2>2, <4>1 DEF IsFold
    <3>2. f[s] = step[<<f[s \ {Max(s)}], Max(s)>>]
      BY <2>2, <2>3 DEF IsFold
    <3> QED
      BY <3>1, <3>2
  <2>4. f = [s \in SUBSET (1 .. n) |->
                IF s = {} THEN <<>> ELSE KeepError(ignore, f[s \ {Max(s)}], errs[Max(s)])]
    BY <2>2, <2>3 DEF IsFold
  <2> QED
    BY <2>4 DEF iter
<1> HIDE DEF iter
<1>3. 0 \in P
  <2>1. iter[1 .. 0] = <<>>
    BY <1>1, <1>2, FoldSteps
  <2>2. ToSet(<<>>) = {}
    BY DEF ToSet
  <2>3. wanted(0) = {}
    BY FoldSteps
  <2>4. <<>> \in S
    OBVIOUS
  <2> HIDE DEF S, wanted
  <2> QED
    BY <2>1, <2>2, <2>3, <2>4
<1>4. ASSUME NEW i \in Nat, i \in P PROVE i + 1 \in P
  <2> SUFFICES ASSUME i + 1 <= n
               PROVE  iter[1 .. i + 1] \in S /\ ToSet(iter[1 .. i + 1]) = wanted(i + 1)
    OBVIOUS
  <2>1. i + 1 \in 1 .. n /\ (i + 1) - 1 = i
    BY <1>1
  <2>2. iter[1 .. i + 1] = KeepError(ignore, iter[1 .. i], errs[i + 1])
    <3>1. /\ 1 .. i + 1 \in SUBSET (1 .. n) /\ 1 .. i + 1 # {}
          /\ Max(1 .. i + 1) = i + 1 /\ (1 .. i + 1) \ {Max(1 .. i + 1)} = 1 .. i
      BY <1>1, <2>1, FoldSteps
    <3> QED
      BY <1>2, <3>1
  <2>3. iter[1 .. i] \in S /\ ToSet(iter[1 .. i]) = wanted(i)
    BY <1>1, <1>4
  <2>4. 1 .. i + 1 = (1 .. i) \cup {i + 1}
    OBVIOUS
  <2>5. wanted(i + 1) = wanted(i) \cup {e \in {errs[i + 1]} : e.Msg \cap ignore = {}}
    BY <2>4
  <2> HIDE DEF wanted
  <2>6. CASE errs[i + 1].Msg \cap ignore = {}
    <3>1. iter[1 .. i + 1] = Append(iter[1 .. i], errs[i + 1])
      BY <2>2, <2>6 DEF KeepError
    <3>2. errs[i + 1] \in E
      BY <1>1, <2>1
    <3>3. wanted(i + 1) = wanted(i) \cup {errs[i + 1]}
      BY <2>5, <2>6
    <3>4. /\ Append(iter[1 .. i], errs[i + 1]) \in S
          /\ ToSet(Append(iter[1 .. i], errs[i + 1])) = ToSet(iter[1 .. i]) \cup {errs[i + 1]}
      BY <2>3, <3>2, ToSetAppend
    <3> QED
      BY <2>3, <3>1, <3>3, <3>4
  <2>7. CASE errs[i + 1].Msg \cap ignore # {}
    <3>1. iter[1 .. i + 1] = iter[1 .. i]
      BY <2>2, <2>7 DEF KeepError
    <3>2. wanted(i + 1) = wanted(i)
      BY <2>5, <2>7
    <3> QED
      BY <2>3, <3>1, <3>2
  <2> QED
    BY <2>6, <2>7
<1>5. \A i \in Nat : i \in P
  <2> HIDE DEF P
  <2> QED
    BY <1>3, <1>4, Induction
<1>6. iter[1 .. n] \in S /\ ToSet(iter[1 .. n]) = wanted(n)
  <2>1. n \in Nat /\ n <= n
    BY <1>1
  <2> HIDE DEF S, wanted
  <2> QED
    BY <1>5, <2>1
<1>7. wanted(n) = {e \in ToSet(errs) : e.Msg \cap ignore = {}}
  BY <1>1 DEF ToSet
<1>8. Kept(ignore, errs) = iter[1 .. n]
  BY <1>1 DEF iter, Kept
<1> HIDE DEF wanted
<1> QED
  BY <1>6, <1>7, <1>8

(* What the hints add to the errors of a batch.                            *)
LEMMA HintsAdded ==
    ASSUME NEW E, Hint \in E, NEW errs \in Seq(E)
    PROVE  /\ addTcErrorHints(errs) \in Seq(E)
           /\ ToSet(addTcErrorHints(errs)) = ToSet(errs) \cup
                {h \in {Hint} : \E e \in ToSet(errs) : e.Msg \cap tcErrorKernelConfig # {}}
           /\ errs # <<>> => addTcErrorHints(errs) # <<>>
<1> DEFINE hints == {h \in {Hint} : \E e \in ToSet(errs) : e.Msg \cap tcErrorKernelConfig # {}}
           all == <<Hint, Hint>> \o errs
<1>1. /\ Len(errs) \in Nat /\ DOMAIN errs = 1 .. Len(errs) /\ <<Hint, Hint>> \in Seq(E)
      /\ ToSet(errs) = {errs[i] : i \in 1 .. Len(errs)}
  BY DEF ToSet
<1>2. CASE \E i \in DOMAIN errs : errs[i].Msg \cap tcErrorKernelConfig # {}
  <2>1. addTcErrorHints(errs) = all
    BY <1>2 DEF addTcErrorHints
  <2>2. hints = {Hint}
    BY <1>1, <1>2
  <2>3. /\ all \in Seq(E) /\ Len(<<Hint, Hint>>) = 2 /\ Len(all) = 2 + Len(errs)
        /\ \A p \in 1 .. 2 : all[p] = <<Hint, Hint>>[p]
        /\ \A j \in 1 .. Len(errs) : all[2 + j] = errs[j]
    <3>1. Len(<<Hint, Hint>>) = 2
      OBVIOUS
    <3>2. all \in Seq(E) /\ Len(all) = Len(<<Hint, Hint>>) + Len(errs)
      BY <1>1, Concatenation
    <3>3. \A p \in 1 .. Len(<<Hint, Hint>>) : all[p] = <<Hint, Hint>>[p]
      BY <1>1, Concatenation
    <3>4. \A j \in 1 .. Len(errs) : all[Len(<<Hint, Hint>>) + j] = errs[j]
      BY <1>1, Concatenation
    <3> HIDE DEF all
    <3> QED
      BY <3>1, <3>2, <3>3, <3>4
  <2>4. \A p \in 1 .. 2 : <<Hint, Hint>>[p] = Hint
    OBVIOUS
  <2> HIDE DEF all
  <2>5. DOMAIN all = 1 .. 2 + Len(errs)
    BY <2>3
  <2>6. ToSet(all) = {all[p] : p \in 1 .. 2 + Len(errs)}
    BY <2>5 DEF ToSet
  <2>7. \A p \in 1 .. 2 + Len(errs) : p \in 1 .. 2 \/ (p - 2 \in 1 .. Len(errs) /\ p = 2 + (p - 2))
    BY <1>1
  <2>8. /\ 1 \in 1 .. 2 /\ 1 .. 2 \subseteq 1 .. 2 + Len(errs)
        /\ \A j \in 1 .. Len(errs) : 2 + j \in 1 .. 2 + Len(errs)
    BY <1>1
  <2>9. ToSet(all) \subseteq ToSet(errs) \cup {Hint}
    <3>1. ASSUME NEW p \in 1 .. 2 + Len(errs) PROVE all[p] \in ToSet(errs) \cup {Hint}
      <4>1. CASE p \in 1 .. 2
        BY <2>3, <2>4, <4>1
      <4>2. CASE p - 2 \in 1 .. Len(errs) /\ p = 2 + (p - 2)
        <5>1. all[p] = errs[p - 2]
          BY <2>3, <4>2
        <5> QED
          BY <1>1, <4>2, <5>1
      <4> QED
        BY <2>7, <4>1, <4>2
    <3> QED
      BY <2>6, <3>1
  <2>10. ToSet(errs) \subseteq ToSet(all)
    BY <1>1, <2>3, <2>6, <2>8
  <2>11. Hint \in ToSet(all)
    BY <2>3, <2>4, <2>6, <2>8
  <2>12. all # <<>>
    BY <1>1, <2>3
  <2> QED
    BY <2>1, <2>2, <2>3, <2>9, <2>10, <2>11, <2>12
<1>3. CASE ~\E i \in DOMAIN errs : errs[i].Msg \cap tcErrorKernelConfig # {}
  <2>1. addTcErrorHints(errs) = errs
    BY <1>3 DEF addTcErrorHints
  <2>2. hints = {}
    BY <1>1, <1>3
  <2> QED
    BY <2>1, <2>2
<1> QED
  BY <1>2, <1>3

(* NoErrorHidden of one batch.                                             *)
ErrorsTold(reports, mode, result) ==
    LET ignored == IF mode = "add" THEN ignoreErrorsBatchAdd ELSE ignoreErrorsBatchDelete
        messages(r) == {r[j].msg : j \in 1 .. Len(r) - 1}
        real == {i \in DOMAIN reports : messages(reports[i]) \cap ignored = {}}
        hinted == {i \in DOMAIN reports : messages(reports[i]) \cap tcErrorKernelConfig # {}}
        lineno(r) == r[Len(r)].lineno
    IN  IF reports = <<>> THEN result.kind = "failed"
        ELSE /\ result.kind = "ok" <=> real = {} /\ hinted = {}
             /\ {result.Errors[k].Lineno : k \in DOMAIN result.Errors} \ {0}
                    = {lineno(reports[i]) : i \in real}

(* A batch counts as done only if every command that failed said so with   *)
(* an error that is ignored in this mode and none hints at a missing       *)
(* module of the kernel; every other command that failed is reported, for  *)
(* any number of reports with any messages, whatever the output ends with. *)
THEOREM BatchTheorem ==
    ASSUME NEW M, NEW reports \in Seq(ReportsOf(M)), NEW rest \in Seq(TextLines(M)), NEW mode
    PROVE  ErrorsTold(reports, mode,
                filterBatchErrors(run(TRUE, FlattenSeq(reports) \o rest), mode))
<1> DEFINE n == Len(reports)
           ignored == IF mode = "add" THEN ignoreErrorsBatchAdd ELSE ignoreErrorsBatchDelete
           errs == parseBatchError(FlattenSeq(reports) \o rest)
           E == Errors(M \cup {"hint"})
           kept == Kept(ignored, addTcErrorHints(errs))
           result == filterBatchErrors(run(TRUE, FlattenSeq(reports) \o rest), mode)
           hints == {h \in {Hint} : \E e \in ToSet(errs) : e.Msg \cap tcErrorKernelConfig # {}}
           real == {i \in 1 .. n : ErrorOf(reports[i]).Msg \cap ignored = {}}
           hinted == {i \in 1 .. n : ErrorOf(reports[i]).Msg \cap tcErrorKernelConfig # {}}
<1>1. n \in Nat /\ DOMAIN reports = 1 .. n /\ (reports = <<>> <=> n = 0)
  OBVIOUS
<1>2. /\ errs \in Seq(Errors(M)) /\ Len(errs) = n
      /\ \A k \in 1 .. n : errs[k] = ErrorOf(reports[k])
  BY ReportsScanned
<1>3. result = IF errs = <<>> THEN Failed ELSE IF kept = <<>> THEN Ok ELSE batchErrors(kept)
  <2>1. \A x : batchErrors(x).kind = "batch" /\ batchErrors(x).Errors = x /\ Failed.kind # "batch"
    BY DEF batchErrors, Failed
  <2>2. run(TRUE, FlattenSeq(reports) \o rest) =
            IF errs = <<>> THEN Failed ELSE batchErrors(addTcErrorHints(errs))
    BY DEF run
  <2> HIDE DEF errs
  <2>3. CASE errs = <<>>
    BY <2>1, <2>2, <2>3, FilteredErrors
  <2>4. CASE errs # <<>>
    BY <2>1, <2>2, <2>4, FilteredErrors
  <2> QED
    BY <2>3, <2>4
<1> HIDE DEF n, errs, result
<1>4. CASE reports = <<>>
  <2>1. errs = <<>>
    BY <1>1, <1>2, <1>4
  <2>2. result.kind = "failed"
    BY <1>3, <2>1 DEF Failed
  <2> QED
    BY <1>4, <2>2 DEF ErrorsTold, result
<1>5. CASE reports # <<>>
  <2>1. errs # <<>> /\ ToSet(errs) = {ErrorOf(reports[i]) : i \in 1 .. n}
    <3>1. errs # <<>> /\ DOMAIN errs = 1 .. n
      BY <1>1, <1>2, <1>5
    <3> QED
      BY <1>2, <3>1 DEF ToSet
  <2>2. errs \in Seq(E) /\ Hint \in E
    <3>1. Errors(M) \subseteq E /\ Hint \in E
      BY DEF Errors, Hint
    <3> HIDE DEF E
    <3> QED
      BY <1>2, <3>1
  <2>3. /\ addTcErrorHints(errs) \in Seq(E)
        /\ ToSet(addTcErrorHints(errs)) = ToSet(errs) \cup hints
    <3> HIDE DEF E
    <3> QED
      BY <2>2, HintsAdded
  <2>4. kept \in Seq(E) /\ ToSet(kept) = {e \in ToSet(errs) \cup hints : e.Msg \cap ignored = {}}
    <3> HIDE DEF E, ignored, hints
    <3> QED
      BY <2>3, ErrorsKept
  <2>5. Hint.Msg \cap ignored = {} /\ Hint.Lineno = 0
    BY HintAssumption DEF Hint
  <2>6. ToSet(kept) = {ErrorOf(reports[i]) : i \in real} \cup hints
    <3> HIDE DEF kept, ignored
    <3> QED
      BY <2>1, <2>4, <2>5
  <2>7. hints = {} <=> hinted = {}
    BY <2>1
  <2>8. kept = <<>> <=> real = {} /\ hinted = {}
    <3>1. kept = <<>> <=> ToSet(kept) = {}
      <4>1. kept = <<>> => ToSet(kept) = {}
        BY DEF ToSet
      <4>2. kept # <<>> => 1 \in DOMAIN kept
        <5> HIDE DEF kept, E
        <5> QED
          BY <2>4
      <4>3. kept # <<>> => kept[1] \in ToSet(kept)
        BY <4>2 DEF ToSet
      <4> QED
        BY <4>1, <4>3
    <3> HIDE DEF kept, hints, hinted
    <3> QED
      BY <2>6, <2>7, <3>1
  <2>9. \A r \in {reports[i] : i \in 1 .. n} :
            ErrorOf(r).Lineno = r[Len(r)].lineno /\ ErrorOf(r).Lineno # 0
    <3>1. \A i \in 1 .. n : reports[i] \in ReportsOf(M)
      BY <1>1
    <3> QED
      BY <3>1 DEF ErrorOf, ReportsOf, CommandLines
  <2> HIDE DEF kept, E
  <2>10. result.kind = "ok" <=> kept = <<>>
    BY <1>3, <2>1 DEF Ok, batchErrors
  <2>11. result.Errors = kept
    <3>1. kept = <<>> => result.Errors = kept
      BY <1>3, <2>1 DEF Ok
    <3>2. kept # <<>> => result.Errors = kept
      BY <1>3, <2>1 DEF batchErrors
    <3> QED
      BY <3>1, <3>2
  <2>12. {result.Errors[k].Lineno : k \in DOMAIN result.Errors} = {e.Lineno : e \in ToSet(kept)}
    BY <2>11 DEF ToSet
  <2>13. {e.Lineno : e \in ToSet(kept)} \ {0} = {reports[i][Len(reports[i])].lineno : i \in real}
    <3>1. \A h \in hints : h.Lineno = 0
      BY <2>5
    <3>2. \A i \in real : /\ ErrorOf(reports[i]).Lineno = reports[i][Len(reports[i])].lineno
                          /\ ErrorOf(reports[i]).Lineno # 0
      BY <2>9
    <3> HIDE DEF hints, real
    <3> QED
      BY <2>6, <3>1, <3>2
  <2>14. \A r : ErrorOf(r).Msg = {r[j].msg : j \in 1 .. Len(r) - 1}
    BY DEF ErrorOf, Messages
  <2>15. /\ real = {i \in DOMAIN reports :
                {reports[i][j].msg : j \in 1 .. Len(reports[i]) - 1} \cap ignored = {}}
         /\ hinted = {i \in DOMAIN reports :
                {reports[i][j].msg : j \in 1 .. Len(reports[i]) - 1} \cap tcErrorKernelConfig # {}}
    <3> HIDE DEF ignored
    <3> QED
      BY <1>1, <2>14
  <2> HIDE DEF real, hinted
  <2>16. /\ result.kind = "ok" <=> real = {} /\ hinted = {}
         /\ {result.Errors[k].Lineno : k \in DOMAIN result.Errors} \ {0}
                = {reports[i][Len(reports[i])].lineno : i \in real}
    BY <2>8, <2>10, <2>12, <2>13
  <2>17. ErrorsTold(reports, mode, result)
    BY <1>5, <2>15, <2>16, Zenon DEF ErrorsTold
  <2> QED
    BY <2>17 DEF result
<1> QED
  BY <1>4, <1>5
-----------------------------------------------------------------------------
(* Networks.                                                               *)

BlockOf(net) == Pow2[AddrBits - net.ones]

(* A network is a block of addresses that starts at a multiple of its      *)
(* size.                                                                   *)
LEMMA NetBounds ==
    ASSUME NEW net \in Nets
    PROVE  /\ net.ones \in 0 .. AddrBits /\ AddrBits - net.ones \in Nat
           /\ BlockOf(net) \in Nat \ {0}
           /\ net.ip \in Nat /\ net.ip % BlockOf(net) = 0
           /\ \A p \in Nat : NetContains(net, p) <=> net.ip <= p /\ p < net.ip + BlockOf(net)
<1>1. PICK ip \in Addresses, ones \in 0 .. AddrBits : net = Prefix(ip, ones)
  BY DEF Nets
<1>2. net.ip = ip - (ip % Pow2[AddrBits - ones]) /\ net.ones = ones /\ BlockOf(net) = Pow2[AddrBits - ones]
  BY <1>1 DEF Prefix, BlockOf
<1> DEFINE size == BlockOf(net)
           v == net.ip
<1>3. AddrBits - ones \in Nat /\ size \in Nat \ {0} /\ ip \in Nat
  <2>1. AddrBits - ones \in Nat /\ AddrBits \in Nat
    BY AddrAssumption
  <2>2. Pow2[AddrBits] \in Nat
    BY <2>1, Pow2Step
  <2> QED
    BY <1>2, <2>1, <2>2, Pow2Step DEF Addresses
<1> HIDE DEF size
<1>4. v = ip - (ip % size)
  BY <1>2 DEF size
<1>5. v \in Nat /\ v % size = 0
  <2>1. ip = size * (ip \div size) + (ip % size) /\ ip \div size \in Nat /\ ip % size \in Nat
    BY <1>3
  <2>2. v = size * (ip \div size) /\ v \in Nat
    BY <1>3, <1>4, <2>1
  <2> QED
    BY <1>3, <2>1, <2>2, Multiples
<1>6. ASSUME NEW p \in Nat
      PROVE  NetContains(net, p) <=> v <= p /\ p < v + size
  <2>1. NetContains(net, p) <=> p - (p % size) = v
    <3>1. Prefix(p, net.ones) = [ip |-> p - (p % size), ones |-> net.ones]
      BY <1>2 DEF Prefix, size
    <3>2. net = [ip |-> v, ones |-> net.ones]
      BY <1>1 DEF Prefix
    <3> QED
      BY <3>1, <3>2 DEF NetContains
  <2> QED
    BY <1>3, <1>5, <2>1, BlockOfMultiple
<1> QED
  BY <1>2, <1>3, <1>5, <1>6 DEF size

(* Of two multiples of a block the smaller is smaller by at least a block. *)
LEMMA MultiplesApart ==
    ASSUME NEW size \in Nat \ {0}, NEW x \in Nat, x % size = 0, NEW y \in Nat, y % size = 0, x < y
    PROVE  x + size <= y
<1>1. PICK q \in Nat : x = size * q
  BY Multiples
<1>2. PICK r \in Nat : y = size * r
  BY Multiples
<1>3. q < r
  <2> SUFFICES ASSUME r <= q PROVE FALSE
    BY <1>1, <1>2
  <2> DEFINE d == q - r
  <2>1. d \in Nat /\ q = r + d
    OBVIOUS
  <2> HIDE DEF d
  <2>2. size * q = size * r + size * d /\ size * d \in Nat /\ size * r \in Nat
    BY <2>1
  <2> QED
    BY <1>1, <1>2, <2>2
<1>4. size * (q + 1) <= size * r
  <2> DEFINE d == r - (q + 1)
  <2>1. d \in Nat /\ r = (q + 1) + d
    BY <1>3
  <2> HIDE DEF d
  <2>2. size * r = size * (q + 1) + size * d /\ size * d \in Nat /\ size * (q + 1) \in Nat
    BY <2>1
  <2> QED
    BY <2>2
<1>5. size * (q + 1) = size * q + size
  OBVIOUS
<1> QED
  BY <1>1, <1>2, <1>4, <1>5

(* A network that is not smaller has its ends at multiples of the other's  *)
(* block.                                                                  *)
LEMMA LargerNet ==
    ASSUME NEW m \in Nets, NEW n \in Nets, n.ones <= m.ones
    PROVE  /\ n.ip % BlockOf(m) = 0 /\ (n.ip + BlockOf(n)) % BlockOf(m) = 0
           /\ BlockOf(m) <= BlockOf(n)
<1> DEFINE k == AddrBits - n.ones
           j == AddrBits - m.ones
<1>1. k \in Nat /\ j \in 0 .. k
  <2>1. m.ones \in 0 .. AddrBits /\ n.ones \in 0 .. AddrBits
    BY NetBounds
  <2> QED
    BY <2>1, AddrAssumption
<1>2. n.ip \in Nat /\ Pow2[k] \in Nat \ {0} /\ n.ip % Pow2[k] = 0
  BY NetBounds DEF BlockOf
<1> HIDE DEF k, j
<1>3. (n.ip + Pow2[k]) % Pow2[k] = 0 /\ n.ip + Pow2[k] \in Nat
  BY <1>2, NextMultiple
<1>4. n.ip % Pow2[j] = 0 /\ (n.ip + Pow2[k]) % Pow2[j] = 0
  BY <1>1, <1>2, <1>3, LowerPower
<1>5. Pow2[j] <= Pow2[k]
  BY <1>1, PowersGrow
<1> QED
  BY <1>4, <1>5 DEF BlockOf, k, j

(* Networks do not overlap in part: one that contains another's lowest     *)
(* address contains all of it, unless that is its own lowest address.      *)
LEMMA NestedNets ==
    ASSUME NEW m \in Nets, NEW n \in Nets, NetContains(m, n.ip), m.ip = n.ip => m = n,
           NEW p \in Nat, NetContains(n, p)
    PROVE  NetContains(m, p)
<1> DEFINE sm == BlockOf(m)
           sn == BlockOf(n)
           v == m.ip
           w == n.ip
<1>1. sm \in Nat \ {0} /\ sn \in Nat \ {0} /\ v \in Nat /\ w \in Nat /\ m.ones \in Nat /\ n.ones \in Nat
  BY NetBounds
<1>2. v <= w /\ w < v + sm /\ w <= p /\ p < w + sn
  BY NetBounds
<1>3. NetContains(m, p) <=> v <= p /\ p < v + sm
  BY NetBounds
<1>4. CASE v = w
  BY <1>4
<1>5. CASE v < w /\ m.ones <= n.ones
  <2>1. v % sn = 0 /\ (v + sm) % sn = 0 /\ w % sn = 0
    BY <1>5, LargerNet, NetBounds
  <2> HIDE DEF sm, sn, v, w
  <2>2. w + sn <= v + sm
    BY <1>1, <1>2, <2>1, MultiplesApart
  <2> QED
    BY <1>1, <1>2, <1>3, <2>2
<1>6. CASE v < w /\ n.ones <= m.ones
  <2>1. w % sm = 0 /\ v % sm = 0
    BY <1>6, LargerNet, NetBounds
  <2> HIDE DEF sm, sn, v, w
  <2>2. v + sm <= w
    BY <1>1, <1>6, <2>1, MultiplesApart
  <2> QED
    BY <1>1, <1>2, <2>2
<1> QED
  BY <1>1, <1>2, <1>4, <1>5, <1>6

(* Of two networks with a common address one contains the other's lowest.  *)
LEMMA CommonAddress ==
    ASSUME NEW m \in Nets, NEW n \in Nets, NEW p \in Nat, NetContains(m, p), NetContains(n, p)
    PROVE  NetContains(m, n.ip) \/ NetContains(n, m.ip)
<1>1. ASSUME NEW x \in Nets, NEW y \in Nets, NetContains(x, p), NetContains(y, p), x.ones <= y.ones
      PROVE  NetContains(x, y.ip)
  <2> DEFINE sx == BlockOf(x)
             sy == BlockOf(y)
             v == x.ip
             w == y.ip
  <2>1. sx \in Nat \ {0} /\ sy \in Nat \ {0} /\ v \in Nat /\ w \in Nat
    BY NetBounds
  <2>2. v <= p /\ p < v + sx /\ w <= p /\ p < w + sy
    BY <1>1, NetBounds
  <2>3. NetContains(x, w) <=> v <= w /\ w < v + sx
    BY NetBounds
  <2>4. v % sy = 0 /\ w % sy = 0
    BY <1>1, LargerNet, NetBounds
  <2> HIDE DEF sx, sy, v, w
  <2>5. ~(w < v)
    <3> SUFFICES ASSUME w < v PROVE FALSE
      OBVIOUS
    <3>1. w + sy <= v
      BY <2>1, <2>4, MultiplesApart
    <3> QED
      BY <2>1, <2>2, <3>1
  <2>6. v <= w /\ w < v + sx
    BY <2>1, <2>2, <2>5
  <2> QED
    BY <2>3, <2>6 DEF w
<1>2. m.ones \in Nat /\ n.ones \in Nat
  BY NetBounds
<1>3. m.ones <= n.ones \/ n.ones <= m.ones
  BY <1>2
<1> QED
  BY <1>1, <1>3
-----------------------------------------------------------------------------
(* A list as sx set of entries.                                             *)

Entries == [net : Nets, ports : ParsedRanges]
Matches(x, ip, port) == NetContains(x.net, ip) /\ ContainsPort(x.ports, port)
Covers(T, ip, port) == \E x \in T : Matches(x, ip, port)
(* Networks that are taken for each other (ContainsNet) are the same.      *)
SamePrefix(T) ==
    \A x, y \in T : x.net.ip = y.net.ip /\ ContainsNet(x, y) => x.net = y.net

(* Sorting a list keeps its entries.                                       *)
LEMMA SortIntoAdds ==
    ASSUME NEW E, NEW s \in Seq(E), NEW x \in E
    PROVE  SortInto(s, x) \in Seq(E) /\ ToSet(SortInto(s, x)) = ToSet(s) \cup {x}
<1> DEFINE after == {i \in DOMAIN s : Before(x, s[i])}
           i == Min(after)
<1>1. CASE after = {}
  <2>1. SortInto(s, x) = Append(s, x)
    BY <1>1 DEF SortInto
  <2> QED
    BY <2>1, ToSetAppend
<1>2. CASE after # {}
  <2>1. i \in DOMAIN s
    <3>1. after \in SUBSET Nat /\ after \subseteq DOMAIN s
      OBVIOUS
    <3> HIDE DEF after
    <3> QED
      BY <1>2, <3>1, LeastIndex
  <2>2. SortInto(s, x) = SubSeq(s, 1, i - 1) \o <<x>> \o SubSeq(s, i, Len(s))
    BY <1>2 DEF SortInto, InsertAt
  <2> DEFINE n == Len(s)
             t == SubSeq(s, 1, i - 1)
             u == SubSeq(s, i, n)
  <2>3. n \in Nat /\ i \in 1 .. n /\ DOMAIN s = 1 .. n
    BY <2>1
  <2> HIDE DEF i, after
  <2>4. /\ t \in Seq(E) /\ Len(t) = i - 1
        /\ \A j \in 1 .. i - 1 : t[j] = s[j]
    <3>1. \A j \in 1 .. (i - 1) + 1 : s[j] \in E
      BY <2>3
    <3>2. /\ t \in Seq(E) /\ Len(t) = IF 1 <= i - 1 THEN (i - 1) - 1 + 1 ELSE 0
          /\ \A j \in 1 .. (i - 1) - 1 + 1 : t[j] = s[1 + j - 1]
      <4>1. 1 \in 1 .. n + 1 /\ i - 1 \in 1 - 1 .. n
        BY <2>3
      <4> QED
        BY <2>3, <4>1, SubSeqProperties
    <3> QED
      BY <2>3, <3>2
  <2>5. /\ u \in Seq(E) /\ Len(u) = n - i + 1
        /\ \A j \in 1 .. n - i + 1 : u[j] = s[i + j - 1]
    <3>1. i \in 1 .. n + 1 /\ n \in i - 1 .. n
      BY <2>3
    <3> QED
      BY <2>3, <3>1, SubSeqProperties
  <2> HIDE DEF t, u, n
  <2>6. ToSet(t) = {s[j] : j \in 1 .. i - 1}
    <3>1. DOMAIN t = 1 .. i - 1
      BY <2>4
    <3> QED
      BY <2>4, <3>1 DEF ToSet
  <2>7. ToSet(u) = {s[j] : j \in i .. n}
    <3>1. DOMAIN u = 1 .. n - i + 1
      BY <2>5
    <3>2. \A j \in 1 .. n - i + 1 : i + j - 1 \in i .. n
      BY <2>3
    <3>3. \A j \in i .. n : j - i + 1 \in 1 .. n - i + 1 /\ i + (j - i + 1) - 1 = j
      BY <2>3
    <3>4. \A j \in 1 .. n - i + 1 : u[j] \in {s[k] : k \in i .. n}
      BY <2>5, <3>2
    <3>5. \A j \in i .. n : s[j] = u[j - i + 1]
      BY <2>5, <3>3
    <3>6. \A j \in i .. n : s[j] \in {u[k] : k \in 1 .. n - i + 1}
      BY <3>3, <3>5
    <3> QED
      BY <3>1, <3>4, <3>6 DEF ToSet
  <2>8. ToSet(s) = ToSet(t) \cup ToSet(u)
    <3>1. 1 .. n = (1 .. i - 1) \cup (i .. n)
      BY <2>3
    <3> QED
      BY <2>3, <2>6, <2>7, <3>1 DEF ToSet
  <2> DEFINE one == <<x>>
             v == t \o one
  <2>9. one \in Seq(E) /\ ToSet(one) = {x}
    BY DEF ToSet
  <2> HIDE DEF one
  <2>10. v \in Seq(E) /\ ToSet(v) = ToSet(t) \cup {x}
    BY <2>4, <2>9, ToSetConcat
  <2> HIDE DEF v
  <2>11. v \o u \in Seq(E) /\ ToSet(v \o u) = ToSet(v) \cup ToSet(u)
    BY <2>5, <2>10, ToSetConcat
  <2>12. SortInto(s, x) = v \o u
    BY <2>2 DEF t, u, n, one, v
  <2> QED
    BY <2>8, <2>10, <2>11, <2>12
<1> QED
  BY <1>1, <1>2

LEMMA SortKeepsEntries ==
    ASSUME NEW E, NEW nwps \in Seq(E)
    PROVE  /\ FoldLeft(SortInto, <<>>, nwps) \in Seq(E)
           /\ ToSet(FoldLeft(SortInto, <<>>, nwps)) = ToSet(nwps)
<1> DEFINE sorted == FoldLeft(SortInto, <<>>, nwps)
           n == Len(nwps)
           S == Seq(E)
           step == [p \in S \X (1 .. n) |-> SortInto(p[1], nwps[p[2]])]
           iter == CHOOSE f : f = [s \in SUBSET (1 .. n) |->
                        IF s = {} THEN <<>> ELSE SortInto(f[s \ {Max(s)}], nwps[Max(s)])]
           Inv == {p \in Nat \X S : ToSet(p[2]) = {nwps[j] : j \in 1 .. p[1]}}
<1>1. n \in Nat /\ DOMAIN nwps = 1 .. n /\ \A i \in 1 .. n : nwps[i] \in E
  OBVIOUS
<1>2. sorted = iter[1 .. n]
  BY <1>1 DEF FoldLeft, MapThenFoldSet
<1> SUFFICES sorted \in Seq(E) /\ ToSet(sorted) = ToSet(nwps)
  OBVIOUS
<1> HIDE DEF n, sorted
<1>3. IsStep(n, S, <<>>, step)
  <2>1. \A s \in S, i \in 1 .. n : SortInto(s, nwps[i]) \in S
    BY <1>1, SortIntoAdds
  <2>2. <<>> \in S
    OBVIOUS
  <2> HIDE DEF S
  <2>3. step \in [S \X (1 .. n) -> S]
    BY <2>1
  <2> HIDE DEF step
  <2> QED
    BY <1>1, <2>2, <2>3 DEF IsStep
<1>4. FoldsBy(iter, n, S, <<>>, step)
  <2>1. PICK f : IsFold(f, n, S, <<>>, step)
    <3> HIDE DEF S, step
    <3> QED
      BY <1>3, FoldIsDefined
  <2>2. ASSUME NEW g \in S, NEW i \in 1 .. n PROVE step[<<g, i>>] = SortInto(g, nwps[i])
    OBVIOUS
  <2>3. ASSUME NEW s \in SUBSET (1 .. n), s # {}
        PROVE  step[<<f[s \ {Max(s)}], Max(s)>>] = SortInto(f[s \ {Max(s)}], nwps[Max(s)])
    <3>1. Max(s) \in 1 .. n
      BY <1>1, <2>3, GreatestIndex
    <3>2. f[s \ {Max(s)}] \in S
      BY <2>1 DEF IsFold
    <3> HIDE DEF S, step
    <3> QED
      BY <2>2, <3>1, <3>2
  <2>4. f = [s \in SUBSET (1 .. n) |->
                IF s = {} THEN <<>> ELSE SortInto(f[s \ {Max(s)}], nwps[Max(s)])]
    <3> HIDE DEF S, step
    <3> QED
      BY <2>1, <2>3 DEF IsFold
  <2>5. iter = [s \in SUBSET (1 .. n) |->
                IF s = {} THEN <<>> ELSE SortInto(iter[s \ {Max(s)}], nwps[Max(s)])]
    BY <2>4
  <2> HIDE DEF iter, step, S
  <2>6. iter[{}] = <<>>
    BY <2>5
  <2>7. ASSUME NEW i \in 1 .. n PROVE iter[1 .. i] = SortInto(iter[1 .. i - 1], nwps[i])
    <3>1. /\ 1 .. i \in SUBSET (1 .. n) /\ 1 .. i # {}
          /\ Max(1 .. i) = i /\ (1 .. i) \ {Max(1 .. i)} = 1 .. i - 1
      BY <1>1, FoldSteps
    <3> QED
      BY <2>5, <3>1
  <2> QED
    BY <2>2, <2>6, <2>7 DEF FoldsBy
<1> HIDE DEF iter
<1>5. <<0, <<>> >> \in Inv
  <2>1. ToSet(<<>>) = {} /\ 1 .. 0 = {} /\ <<>> \in S
    BY DEF ToSet
  <2> HIDE DEF S
  <2> QED
    BY <2>1
<1>6. ASSUME NEW i \in 1 .. n, NEW s \in S, <<i - 1, s>> \in Inv
      PROVE  <<i, step[<<s, i>>]>> \in Inv
  <2>1. SortInto(s, nwps[i]) \in S /\ ToSet(SortInto(s, nwps[i])) = ToSet(s) \cup {nwps[i]}
    <3> DEFINE x == nwps[i]
    <3>1. s \in Seq(E) /\ x \in E
      BY <1>1
    <3> HIDE DEF step, Inv, x
    <3>2. SortInto(s, x) \in Seq(E) /\ ToSet(SortInto(s, x)) = ToSet(s) \cup {x}
      BY <3>1, SortIntoAdds
    <3> QED
      BY <3>2 DEF x
  <2>2. ToSet(s) = {nwps[j] : j \in 1 .. i - 1}
    BY <1>6
  <2>3. 1 .. i = (1 .. i - 1) \cup {i} /\ i \in Nat
    BY <1>1
  <2>4. step[<<s, i>>] = SortInto(s, nwps[i])
    OBVIOUS
  <2> HIDE DEF S, step
  <2> QED
    BY <2>1, <2>2, <2>3, <2>4
<1>7. iter[1 .. n] \in S /\ <<n, iter[1 .. n]>> \in Inv
  <2> HIDE DEF S, step, Inv
  <2> QED
    BY <1>3, <1>4, <1>5, <1>6, FoldInvariant
<1>8. ToSet(iter[1 .. n]) = {nwps[j] : j \in 1 .. n}
  BY <1>7
<1> QED
  BY <1>1, <1>2, <1>7, <1>8 DEF ToSet

(* An entry that contains another covers all it covers.                    *)
LEMMA ContainedIsCovered ==
    ASSUME NEW x \in Entries, NEW y \in Entries, ContainsNet(y, x), y.net.ip = x.net.ip => y.net = x.net,
           NEW ip \in Nat, NEW port \in Nat, Matches(x, ip, port)
    PROVE  Matches(y, ip, port)
<1>1. x.net \in Nets /\ y.net \in Nets /\ x.ports \in ParsedRanges /\ y.ports \in ParsedRanges
  BY DEF Entries
<1>2. NetContains(y.net, ip)
  BY <1>1, NestedNets DEF ContainsNet, Matches
<1>3. ContainsPort(y.ports, port)
  <2>1. \A r \in ParsedRanges : r.From \in Int /\ r.To \in Int
    BY DEF ParsedRanges
  <2> QED
    BY <1>1, <2>1 DEF ContainsNet, ContainsPort, Matches
<1> QED
  BY <1>2, <1>3 DEF Matches

(* Of two networks one of which contains the other the wider is kept.      *)
LEMMA KeepCovers ==
    ASSUME NEW kept \in Seq(Entries), NEW x \in Entries, SamePrefix(ToSet(kept) \cup {x})
    PROVE  /\ Keep(kept, x) \in Seq(Entries)
           /\ ToSet(Keep(kept, x)) \subseteq ToSet(kept) \cup {x}
           /\ \A ip, port \in Nat :
                Covers(ToSet(Keep(kept, x)), ip, port) <=> Covers(ToSet(kept) \cup {x}, ip, port)
<1> DEFINE related == {j \in DOMAIN kept : ContainsNet(kept[j], x) \/ ContainsNet(x, kept[j])}
           i == Min(related)
           result == Keep(kept, x)
           n == Len(kept)
<1>1. n \in Nat /\ DOMAIN kept = 1 .. n /\ \A j \in 1 .. n : kept[j] \in Entries /\ kept[j] \in ToSet(kept)
  BY DEF ToSet
<1>2. \A y \in ToSet(kept) : \E j \in 1 .. n : y = kept[j]
  BY <1>1 DEF ToSet
<1>3. related # {} => i \in 1 .. n /\ (ContainsNet(kept[i], x) \/ ContainsNet(x, kept[i]))
  <2>1. related \subseteq 1 .. n
    BY <1>1
  <2> SUFFICES ASSUME related # {} PROVE i \in related
    BY <2>1
  <2> HIDE DEF related
  <2>2. related \in SUBSET Nat
    BY <2>1
  <2> QED
    BY <2>2, LeastIndex
<1>4. result = IF related = {} THEN Append(kept, x)
               ELSE IF ContainsNet(kept[i], x) THEN kept
               ELSE [kept EXCEPT ![i] = x]
  BY DEF Keep
<1> HIDE DEF related, i, result, n
<1> SUFFICES /\ result \in Seq(Entries)
             /\ ToSet(result) \subseteq ToSet(kept) \cup {x}
             /\ \A ip, port \in Nat :
                    Covers(ToSet(result), ip, port) <=> Covers(ToSet(kept) \cup {x}, ip, port)
  BY DEF result
<1>5. CASE related = {}
  <2>1. result \in Seq(Entries) /\ ToSet(result) = ToSet(kept) \cup {x}
    BY <1>4, <1>5, ToSetAppend
  <2> QED
    BY <2>1
<1>6. CASE related # {} /\ ContainsNet(kept[i], x)
  <2>1. result = kept
    BY <1>4, <1>6
  <2>2. kept[i] \in Entries /\ kept[i] \in ToSet(kept)
    BY <1>1, <1>3, <1>6
  <2>3. kept[i].net.ip = x.net.ip => kept[i].net = x.net
    BY <1>6, <2>2 DEF SamePrefix
  <2>4. ASSUME NEW ip \in Nat, NEW port \in Nat, Matches(x, ip, port) PROVE Matches(kept[i], ip, port)
    BY <1>6, <2>2, <2>3, <2>4, ContainedIsCovered
  <2> QED
    BY <2>1, <2>2, <2>4 DEF Covers
<1>7. CASE related # {} /\ ~ContainsNet(kept[i], x)
  <2>1. result = [kept EXCEPT ![i] = x] /\ i \in 1 .. n /\ ContainsNet(x, kept[i])
    BY <1>3, <1>4, <1>7
  <2>2. result \in Seq(Entries)
    BY <1>1, <2>1
  <2>3. /\ DOMAIN result = 1 .. n /\ result[i] = x
        /\ \A j \in 1 .. n : j # i => result[j] = kept[j]
    BY <1>1, <2>1
  <2>4. /\ ToSet(result) \subseteq ToSet(kept) \cup {x}
        /\ x \in ToSet(result)
        /\ \A y \in ToSet(kept) : y # kept[i] => y \in ToSet(result)
    <3>1. \A j \in 1 .. n : result[j] \in ToSet(kept) \cup {x}
      BY <1>1, <2>3
    <3>2. ToSet(result) = {result[j] : j \in 1 .. n}
      BY <2>3 DEF ToSet
    <3>3. \A j \in 1 .. n : kept[j] # kept[i] => kept[j] \in ToSet(result)
      BY <2>3, <3>2
    <3>4. x \in ToSet(result)
      BY <2>1, <2>3, <3>2
    <3> QED
      BY <1>2, <3>1, <3>2, <3>3, <3>4
  <2>5. kept[i] \in Entries /\ kept[i] \in ToSet(kept)
    BY <1>1, <2>1
  <2>6. x.net.ip = kept[i].net.ip => x.net = kept[i].net
    BY <2>1, <2>5 DEF SamePrefix
  <2>7. ASSUME NEW ip \in Nat, NEW port \in Nat, Matches(kept[i], ip, port) PROVE Matches(x, ip, port)
    BY <2>1, <2>5, <2>6, <2>7, ContainedIsCovered
  <2> QED
    BY <2>2, <2>4, <2>7 DEF Covers
<1> QED
  BY <1>5, <1>6, <1>7

(* Dropping duplicates drops nothing that is covered.                      *)
LEMMA DeduplicateCovers ==
    ASSUME NEW nwps \in Seq(Entries), SamePrefix(ToSet(nwps))
    PROVE  /\ deduplicateNetWithPortRange(nwps) \in Seq(Entries)
           /\ ToSet(deduplicateNetWithPortRange(nwps)) \subseteq ToSet(nwps)
           /\ \A ip, port \in Nat :
                Covers(ToSet(deduplicateNetWithPortRange(nwps)), ip, port)
                    <=> Covers(ToSet(nwps), ip, port)
<1> DEFINE sorted == FoldLeft(SortInto, <<>>, nwps)
           T == ToSet(nwps)
           result == deduplicateNetWithPortRange(nwps)
           n == Len(sorted)
           S == {s \in Seq(Entries) : ToSet(s) \subseteq T}
           step == [p \in S \X (1 .. n) |-> Keep(p[1], sorted[p[2]])]
           iter == CHOOSE f : f = [s \in SUBSET (1 .. n) |->
                        IF s = {} THEN <<>> ELSE Keep(f[s \ {Max(s)}], sorted[Max(s)])]
           Inv == {p \in Nat \X S : \A ip, port \in Nat :
                        Covers(ToSet(p[2]), ip, port) <=> Covers({sorted[j] : j \in 1 .. p[1]}, ip, port)}
<1>1. sorted \in Seq(Entries) /\ ToSet(sorted) = T
  BY SortKeepsEntries
<1>2. result = FoldLeft(Keep, <<>>, sorted)
  BY DEF deduplicateNetWithPortRange
<1> HIDE DEF sorted, T, result
<1>3. /\ n \in Nat /\ DOMAIN sorted = 1 .. n
      /\ \A i \in 1 .. n : sorted[i] \in Entries /\ sorted[i] \in T
      /\ T = {sorted[j] : j \in 1 .. n}
  BY <1>1 DEF ToSet
<1>4. result = iter[1 .. n]
  BY <1>2, <1>3 DEF FoldLeft, MapThenFoldSet
<1> HIDE DEF n
<1>5. ASSUME NEW s \in S, NEW i \in 1 .. n
      PROVE  /\ Keep(s, sorted[i]) \in S
             /\ \A ip, port \in Nat :
                    Covers(ToSet(Keep(s, sorted[i])), ip, port) <=> Covers(ToSet(s) \cup {sorted[i]}, ip, port)
  <2>1. s \in Seq(Entries) /\ ToSet(s) \subseteq T /\ sorted[i] \in Entries /\ sorted[i] \in T
    BY <1>3
  <2>2. SamePrefix(ToSet(s) \cup {sorted[i]})
    BY <2>1 DEF SamePrefix, T
  <2>3. /\ Keep(s, sorted[i]) \in Seq(Entries)
        /\ ToSet(Keep(s, sorted[i])) \subseteq ToSet(s) \cup {sorted[i]}
        /\ \A ip, port \in Nat :
               Covers(ToSet(Keep(s, sorted[i])), ip, port) <=> Covers(ToSet(s) \cup {sorted[i]}, ip, port)
    BY <2>1, <2>2, KeepCovers
  <2> QED
    BY <2>1, <2>3
<1>6. <<>> \in S /\ ToSet(<<>>) = {}
  BY DEF ToSet
<1>7. IsStep(n, S, <<>>, step)
  <2> HIDE DEF S
  <2>1. step \in [S \X (1 .. n) -> S]
    BY <1>5
  <2> HIDE DEF step
  <2> QED
    BY <1>3, <1>6, <2>1 DEF IsStep
<1>8. FoldsBy(iter, n, S, <<>>, step)
  <2>1. PICK f : IsFold(f, n, S, <<>>, step)
    <3> HIDE DEF S, step
    <3> QED
      BY <1>7, FoldIsDefined
  <2>2. ASSUME NEW g \in S, NEW i \in 1 .. n PROVE step[<<g, i>>] = Keep(g, sorted[i])
    OBVIOUS
  <2>3. ASSUME NEW s \in SUBSET (1 .. n), s # {}
        PROVE  step[<<f[s \ {Max(s)}], Max(s)>>] = Keep(f[s \ {Max(s)}], sorted[Max(s)])
    <3>1. Max(s) \in 1 .. n
      BY <1>3, <2>3, GreatestIndex
    <3>2. f[s \ {Max(s)}] \in S
      BY <2>1 DEF IsFold
    <3> HIDE DEF S, step
    <3> QED
      BY <2>2, <3>1, <3>2
  <2>4. f = [s \in SUBSET (1 .. n) |->
                IF s = {} THEN <<>> ELSE Keep(f[s \ {Max(s)}], sorted[Max(s)])]
    <3> HIDE DEF S, step
    <3> QED
      BY <2>1, <2>3 DEF IsFold
  <2>5. iter = [s \in SUBSET (1 .. n) |->
                IF s = {} THEN <<>> ELSE Keep(iter[s \ {Max(s)}], sorted[Max(s)])]
    BY <2>4
  <2> HIDE DEF iter, step, S
  <2>6. iter[{}] = <<>>
    BY <2>5
  <2>7. ASSUME NEW i \in 1 .. n PROVE iter[1 .. i] = Keep(iter[1 .. i - 1], sorted[i])
    <3>1. /\ 1 .. i \in SUBSET (1 .. n) /\ 1 .. i # {}
          /\ Max(1 .. i) = i /\ (1 .. i) \ {Max(1 .. i)} = 1 .. i - 1
      BY <1>3, FoldSteps
    <3> QED
      BY <2>5, <3>1
  <2> QED
    BY <2>2, <2>6, <2>7 DEF FoldsBy
<1> HIDE DEF iter
<1>9. <<0, <<>> >> \in Inv
  <2>1. {sorted[j] : j \in 1 .. 0} = {}
    OBVIOUS
  <2> HIDE DEF S
  <2> QED
    BY <1>6, <2>1
<1>10. ASSUME NEW i \in 1 .. n, NEW s \in S, <<i - 1, s>> \in Inv
       PROVE  <<i, step[<<s, i>>]>> \in Inv
  <2>1. \A ip, port \in Nat :
            Covers(ToSet(s), ip, port) <=> Covers({sorted[j] : j \in 1 .. i - 1}, ip, port)
    BY <1>10
  <2>2. 1 .. i = (1 .. i - 1) \cup {i} /\ i \in Nat
    BY <1>3
  <2>3. {sorted[j] : j \in 1 .. i} = {sorted[j] : j \in 1 .. i - 1} \cup {sorted[i]}
    BY <2>2
  <2>4. \A U, ip, port : Covers(U \cup {sorted[i]}, ip, port)
            <=> Covers(U, ip, port) \/ Matches(sorted[i], ip, port)
    BY DEF Covers
  <2>5. step[<<s, i>>] = Keep(s, sorted[i])
    OBVIOUS
  <2>6. \A ip, port \in Nat :
            Covers(ToSet(Keep(s, sorted[i])), ip, port) <=> Covers({sorted[j] : j \in 1 .. i}, ip, port)
    <3> DEFINE U == {sorted[j] : j \in 1 .. i - 1}
    <3>1. \A ip, port : Covers(U \cup {sorted[i]}, ip, port) <=> Covers(U, ip, port) \/ Matches(sorted[i], ip, port)
      BY <2>4
    <3>2. \A ip, port : Covers(ToSet(s) \cup {sorted[i]}, ip, port) <=> Covers(ToSet(s), ip, port) \/ Matches(sorted[i], ip, port)
      BY <2>4
    <3>3. \A ip, port \in Nat : Covers(ToSet(s), ip, port) <=> Covers(U, ip, port)
      BY <2>1
    <3>4. {sorted[j] : j \in 1 .. i} = U \cup {sorted[i]}
      BY <2>3
    <3>5. \A ip, port \in Nat : Covers(ToSet(Keep(s, sorted[i])), ip, port) <=> Covers(ToSet(s) \cup {sorted[i]}, ip, port)
      BY <1>5
    <3> HIDE DEF U, S, step, Inv
    <3> QED
      BY <3>1, <3>2, <3>3, <3>4, <3>5
  <2>7. Keep(s, sorted[i]) \in S
    BY <1>5
  <2> HIDE DEF S, step
  <2> QED
    BY <2>2, <2>5, <2>6, <2>7
<1>11. iter[1 .. n] \in S /\ <<n, iter[1 .. n]>> \in Inv
  <2> HIDE DEF S, step, Inv
  <2> QED
    BY <1>7, <1>8, <1>9, <1>10, FoldInvariant
<1>12. /\ result \in Seq(Entries) /\ ToSet(result) \subseteq T
       /\ \A ip, port \in Nat :
            Covers(ToSet(result), ip, port) <=> Covers({sorted[j] : j \in 1 .. n}, ip, port)
  BY <1>4, <1>11
<1> QED
  BY <1>3, <1>12 DEF result, T

(* The excludes that are kept are those that overlap an include.           *)
LEMMA NecessaryKept ==
    ASSUME NEW E, NEW excludes \in Seq(E), NEW includes
    PROVE  /\ necessaryExcludes(excludes, includes) \in Seq(E)
           /\ ToSet(necessaryExcludes(excludes, includes))
                = {x \in ToSet(excludes) : \E i \in DOMAIN includes : Overlap(includes[i], x)}
<1> DEFINE result == necessaryExcludes(excludes, includes)
           needed(x) == \E i \in DOMAIN includes : Overlap(includes[i], x)
           n == Len(excludes)
           N == {j \in 1 .. n : needed(excludes[j])}
           next(s, i) == IF i \in N THEN Append(s, excludes[i]) ELSE s
           S == Seq(E)
           step == [p \in S \X (1 .. n) |-> next(p[1], p[2])]
           iter == CHOOSE f : f = [s \in SUBSET (1 .. n) |->
                        IF s = {} THEN <<>>
                        ELSE IF needed(excludes[Max(s)])
                             THEN Append(f[s \ {Max(s)}], excludes[Max(s)]) ELSE f[s \ {Max(s)}]]
           Inv == {p \in Nat \X S : ToSet(p[2]) = {excludes[j] : j \in (1 .. p[1]) \cap N}}
<1>1. n \in Nat /\ DOMAIN excludes = 1 .. n /\ \A i \in 1 .. n : excludes[i] \in E
  OBVIOUS
<1>2. result = iter[1 .. n]
  BY <1>1 DEF necessaryExcludes, FoldLeft, MapThenFoldSet
<1>3. \A i \in 1 .. n : i \in N <=> needed(excludes[i])
  OBVIOUS
<1>4. {x \in ToSet(excludes) : needed(x)} = {excludes[j] : j \in N}
  BY <1>1 DEF ToSet
<1> SUFFICES result \in Seq(E) /\ ToSet(result) = {x \in ToSet(excludes) : needed(x)}
  OBVIOUS
<1> HIDE DEF n, result, needed, N
<1>5. IsStep(n, S, <<>>, step)
  <2>1. \A s \in S, i \in 1 .. n : next(s, i) \in S
    BY <1>1
  <2>2. <<>> \in S
    OBVIOUS
  <2> HIDE DEF S, next
  <2>3. step \in [S \X (1 .. n) -> S]
    BY <2>1
  <2> HIDE DEF step
  <2> QED
    BY <1>1, <2>2, <2>3 DEF IsStep
<1>6. FoldsBy(iter, n, S, <<>>, step)
  <2>1. PICK f : IsFold(f, n, S, <<>>, step)
    <3> HIDE DEF S, step
    <3> QED
      BY <1>5, FoldIsDefined
  <2>2. ASSUME NEW g \in S, NEW i \in 1 .. n
        PROVE  step[<<g, i>>] = IF needed(excludes[i]) THEN Append(g, excludes[i]) ELSE g
    BY <1>3
  <2>3. ASSUME NEW s \in SUBSET (1 .. n), s # {}
        PROVE  step[<<f[s \ {Max(s)}], Max(s)>>]
                = IF needed(excludes[Max(s)])
                  THEN Append(f[s \ {Max(s)}], excludes[Max(s)]) ELSE f[s \ {Max(s)}]
    <3>1. Max(s) \in 1 .. n
      BY <1>1, <2>3, GreatestIndex
    <3>2. f[s \ {Max(s)}] \in S
      BY <2>1 DEF IsFold
    <3> HIDE DEF S, step
    <3> QED
      BY <2>2, <3>1, <3>2
  <2>4. f = [s \in SUBSET (1 .. n) |->
                IF s = {} THEN <<>>
                ELSE IF needed(excludes[Max(s)])
                     THEN Append(f[s \ {Max(s)}], excludes[Max(s)]) ELSE f[s \ {Max(s)}]]
    <3> HIDE DEF S, step
    <3> QED
      BY <2>1, <2>3 DEF IsFold
  <2>5. iter = [s \in SUBSET (1 .. n) |->
                IF s = {} THEN <<>>
                ELSE IF needed(excludes[Max(s)])
                     THEN Append(iter[s \ {Max(s)}], excludes[Max(s)]) ELSE iter[s \ {Max(s)}]]
    BY <2>4
  <2> HIDE DEF iter, step, S
  <2>6. iter[{}] = <<>>
    BY <2>5
  <2>7. ASSUME NEW i \in 1 .. n
        PROVE  iter[1 .. i] = IF needed(excludes[i])
                              THEN Append(iter[1 .. i - 1], excludes[i]) ELSE iter[1 .. i - 1]
    <3>1. /\ 1 .. i \in SUBSET (1 .. n) /\ 1 .. i # {}
          /\ Max(1 .. i) = i /\ (1 .. i) \ {Max(1 .. i)} = 1 .. i - 1
      BY <1>1, FoldSteps
    <3> QED
      BY <2>5, <3>1
  <2> QED
    BY <2>2, <2>6, <2>7 DEF FoldsBy
<1> HIDE DEF iter
<1>7. <<0, <<>> >> \in Inv
  <2>1. ToSet(<<>>) = {} /\ 1 .. 0 = {} /\ <<>> \in S
    BY DEF ToSet
  <2>2. {excludes[j] : j \in (1 .. 0) \cap N} = {}
    BY <2>1
  <2> HIDE DEF S
  <2> QED
    BY <2>1, <2>2
<1>8. ASSUME NEW i \in 1 .. n, NEW s \in S, <<i - 1, s>> \in Inv
      PROVE  <<i, step[<<s, i>>]>> \in Inv
  <2>1. next(s, i) \in S /\ ToSet(next(s, i)) = ToSet(s) \cup (IF i \in N THEN {excludes[i]} ELSE {})
    <3>1. CASE i \in N
      BY <1>1, <3>1, ToSetAppend
    <3>2. CASE i \notin N
      BY <3>2
    <3> QED
      BY <3>1, <3>2
  <2>2. ToSet(s) = {excludes[j] : j \in (1 .. i - 1) \cap N}
    BY <1>8
  <2>3. 1 .. i = (1 .. i - 1) \cup {i} /\ i \in Nat
    BY <1>1
  <2>4. step[<<s, i>>] = next(s, i)
    OBVIOUS
  <2> HIDE DEF S, step, next
  <2>5. {excludes[j] : j \in (1 .. i) \cap N}
            = {excludes[j] : j \in (1 .. i - 1) \cap N} \cup (IF i \in N THEN {excludes[i]} ELSE {})
    BY <2>3
  <2> QED
    BY <2>1, <2>2, <2>3, <2>4, <2>5
<1>9. iter[1 .. n] \in S /\ <<n, iter[1 .. n]>> \in Inv
  <2> HIDE DEF S, step, Inv
  <2> QED
    BY <1>5, <1>6, <1>7, <1>8, FoldInvariant
<1>10. ToSet(iter[1 .. n]) = {excludes[j] : j \in N}
  <2>1. (1 .. n) \cap N = N
    BY DEF N
  <2> QED
    BY <1>9, <2>1
<1> QED
  BY <1>2, <1>4, <1>9, <1>10

(* An include and an exclude with a packet in common overlap.              *)
LEMMA MatchesOverlap ==
    ASSUME NEW x \in Entries, NEW y \in Entries, NEW ip \in Nat, NEW port \in Nat,
           Matches(x, ip, port), Matches(y, ip, port)
    PROVE  Overlap(x, y)
<1>1. x.net \in Nets /\ y.net \in Nets /\ x.ports \in ParsedRanges /\ y.ports \in ParsedRanges
  BY DEF Entries
<1>2. NetContains(x.net, y.net.ip) \/ NetContains(y.net, x.net.ip)
  BY <1>1, CommonAddress DEF Matches
<1>3. OverlapRanges(x.ports, y.ports)
  <2>1. \A r \in ParsedRanges : r.From \in Int /\ r.To \in Int
    BY DEF ParsedRanges
  <2> QED
    BY <1>1, <2>1 DEF OverlapRanges, ContainsPort, Matches
<1> QED
  BY <1>2, <1>3 DEF Overlap

(* The optimized filter covers what the filter covers, as far as the       *)
(* includes cover it.                                                      *)
LEMMA OptimizedCovers ==
    ASSUME NEW f, f.Include \in Seq(Entries), f.Exclude \in Seq(Entries),
           SamePrefix(ToSet(f.Include)), SamePrefix(ToSet(f.Exclude))
    PROVE  LET o == optimizeFilter(f)
           IN  /\ o.Include \in Seq(Entries) /\ o.Exclude \in Seq(Entries)
               /\ \A ip, port \in Nat :
                    /\ Covers(ToSet(o.Include), ip, port) <=> Covers(ToSet(f.Include), ip, port)
                    /\ Covers(ToSet(o.Exclude), ip, port) => Covers(ToSet(f.Exclude), ip, port)
                    /\ Covers(ToSet(o.Include), ip, port) /\ Covers(ToSet(f.Exclude), ip, port)
                            => Covers(ToSet(o.Exclude), ip, port)
<1> DEFINE o == optimizeFilter(f)
           I == f.Include
           X == f.Exclude
           include == deduplicateNetWithPortRange(I)
           necessary == necessaryExcludes(X, include)
           exclude == deduplicateNetWithPortRange(necessary)
<1>1. o.Include = include /\ o.Exclude = exclude
  BY DEF optimizeFilter
<1>2. /\ include \in Seq(Entries)
      /\ \A ip, port \in Nat : Covers(ToSet(include), ip, port) <=> Covers(ToSet(I), ip, port)
  BY DeduplicateCovers
<1> HIDE DEF include
<1>3. /\ necessary \in Seq(Entries)
      /\ ToSet(necessary) = {x \in ToSet(X) : \E i \in DOMAIN include : Overlap(include[i], x)}
  BY NecessaryKept
<1> HIDE DEF necessary, o
<1>4. SamePrefix(ToSet(necessary))
  BY <1>3 DEF SamePrefix
<1>5. /\ exclude \in Seq(Entries)
      /\ \A ip, port \in Nat : Covers(ToSet(exclude), ip, port) <=> Covers(ToSet(necessary), ip, port)
  BY <1>3, <1>4, DeduplicateCovers
<1> HIDE DEF exclude
<1>6. ASSUME NEW ip \in Nat, NEW port \in Nat, Covers(ToSet(include), ip, port), Covers(ToSet(X), ip, port)
      PROVE  Covers(ToSet(necessary), ip, port)
  <2>1. PICK i \in DOMAIN include : Matches(include[i], ip, port)
    BY <1>6 DEF Covers, ToSet
  <2>2. PICK x \in ToSet(X) : Matches(x, ip, port)
    BY <1>6 DEF Covers
  <2>3. include[i] \in Entries /\ x \in Entries
    BY <1>2 DEF ToSet
  <2>4. Overlap(include[i], x)
    BY <2>1, <2>2, <2>3, MatchesOverlap
  <2> QED
    BY <1>3, <2>2, <2>4 DEF Covers
<1>7. ASSUME NEW ip \in Nat, NEW port \in Nat, Covers(ToSet(necessary), ip, port)
      PROVE  Covers(ToSet(X), ip, port)
  BY <1>3, <1>7 DEF Covers
<1> SUFFICES /\ o.Include \in Seq(Entries) /\ o.Exclude \in Seq(Entries)
             /\ \A ip, port \in Nat :
                    /\ Covers(ToSet(o.Include), ip, port) <=> Covers(ToSet(I), ip, port)
                    /\ Covers(ToSet(o.Exclude), ip, port) => Covers(ToSet(X), ip, port)
                    /\ Covers(ToSet(o.Include), ip, port) /\ Covers(ToSet(X), ip, port)
                            => Covers(ToSet(o.Exclude), ip, port)
  BY DEF o
<1> QED
  BY <1>1, <1>2, <1>5, <1>6, <1>7
-----------------------------------------------------------------------------
(* The rules made of a filter.                                             *)

RuleSet == [end : {"src", "dst"}, net : Nets, ports : SUBSET Ports, attack : BOOLEAN]
Hits(rule, end, ip, port) == rule.end = end /\ NetContains(rule.net, ip) /\ port \in rule.ports
SomeHits(rules, end, ip, port) == \E rule \in ToSet(rules) : Hits(rule, end, ip, port)
AllAre(rules, attack) == \A rule \in ToSet(rules) : rule.attack = attack

(* Rules that attack or spare what a list of entries covers.               *)
Makes(rules, nwps, attack, end, ip, port) ==
    /\ rules \in Seq(RuleSet)
    /\ AllAre(rules, attack)
    /\ SomeHits(rules, end, ip, port) <=> Covers(ToSet(nwps), ip, port)
Spares(rules, nwps, end, ip, port) == Makes(rules, nwps, FALSE, end, ip, port)
Attacks(rules, nwps, end, ip, port) == Makes(rules, nwps, TRUE, end, ip, port)

(* When no rule that spares comes after one that attacks, a packet is      *)
(* attacked when some rule matches it and none that spares does.           *)
LEMMA FirstHitDecides ==
    ASSUME NEW rules \in Seq(RuleSet), NEW end, NEW ip, NEW port,
           \A i, j \in DOMAIN rules : i < j /\ rules[i].attack => rules[j].attack
    PROVE  Attacked(rules, end, ip, port)
                <=> /\ SomeHits(rules, end, ip, port)
                    /\ \A rule \in ToSet(rules) : Hits(rule, end, ip, port) => rule.attack
<1> DEFINE hits == {i \in DOMAIN rules : Hits(rules[i], end, ip, port)}
           least == Min(hits)
<1>1. Attacked(rules, end, ip, port) <=> hits # {} /\ rules[least].attack
  BY DEF Attacked, Hits
<1>2. SomeHits(rules, end, ip, port) <=> hits # {}
  BY DEF SomeHits, ToSet
<1>3. (\A rule \in ToSet(rules) : Hits(rule, end, ip, port) => rule.attack)
            <=> \A i \in hits : rules[i].attack
  BY DEF ToSet
<1>4. hits \in SUBSET Nat /\ hits \subseteq DOMAIN rules
  OBVIOUS
<1> HIDE DEF hits
<1>5. hits # {} => least \in hits /\ \A i \in hits : least <= i
  BY <1>4, LeastIndex
<1>6. hits # {} /\ rules[least].attack => \A i \in hits : rules[i].attack
  <2> SUFFICES ASSUME hits # {}, rules[least].attack, NEW i \in hits PROVE rules[i].attack
    OBVIOUS
  <2> HIDE DEF least
  <2>1. least \in Nat /\ i \in Nat /\ least <= i
    BY <1>4, <1>5
  <2>2. least = i \/ least < i
    BY <2>1
  <2> QED
    BY <1>4, <1>5, <2>2
<1> QED
  BY <1>1, <1>2, <1>3, <1>5, <1>6

(* A list in the opposite order.                                           *)
LEMMA ReverseSet ==
    ASSUME NEW L, NEW s \in Seq(L)
    PROVE  /\ Reverse(s) \in Seq(L) /\ Len(Reverse(s)) = Len(s)
           /\ \A i \in 1 .. Len(s) : Reverse(s)[i] = s[Len(s) - i + 1]
           /\ ToSet(Reverse(s)) = ToSet(s)
<1> DEFINE n == Len(s)
           t == Reverse(s)
<1>1. n \in Nat /\ DOMAIN s = 1 .. n /\ t = [i \in 1 .. n |-> s[(n - i) + 1]]
  BY DEF Reverse
<1>2. \A i \in 1 .. n : (n - i) + 1 \in 1 .. n /\ (n - ((n - i) + 1)) + 1 = i
  BY <1>1
<1>3. \A i \in 1 .. n : s[i] \in L
  BY <1>1
<1> HIDE DEF n
<1>4. t \in Seq(L) /\ DOMAIN t = 1 .. n /\ Len(t) = n
  BY <1>1, <1>2, <1>3
<1>5. \A i \in 1 .. n : t[i] = s[(n - i) + 1]
  BY <1>1
<1> HIDE DEF t
<1>6. \A i \in 1 .. n : s[i] = t[(n - i) + 1]
  BY <1>2, <1>5
<1>7. ToSet(t) = ToSet(s)
  <2>1. \A i \in 1 .. n : t[i] \in ToSet(s) /\ s[i] \in ToSet(t)
    BY <1>1, <1>2, <1>4, <1>5, <1>6 DEF ToSet
  <2>2. ToSet(t) = {t[i] : i \in 1 .. n} /\ ToSet(s) = {s[i] : i \in 1 .. n}
    BY <1>1, <1>4 DEF ToSet
  <2> QED
    BY <2>1, <2>2
<1>8. \A i \in 1 .. n : t[i] = s[n - i + 1]
  BY <1>5
<1> QED
  BY <1>4, <1>7, <1>8 DEF n, t

(* The excludes come first, by the priority of their filters or because    *)
(* every rule is put before those that are there.                          *)
LEMMA ExcludesFirst ==
    ASSUME NEW include, NEW exclude, NEW end, NEW ip, NEW port,
           NEW spare, Spares(spare, exclude, end, ip, port),
           NEW attack, Attacks(attack, include, end, ip, port)
    PROVE  /\ Attacked(spare \o attack, end, ip, port)
                <=> Covers(ToSet(include), ip, port) /\ ~Covers(ToSet(exclude), ip, port)
           /\ Attacked(Reverse(attack \o spare), end, ip, port)
                <=> Covers(ToSet(include), ip, port) /\ ~Covers(ToSet(exclude), ip, port)
<1> DEFINE m == Len(spare)
           n == Len(attack)
<1>1. /\ spare \in Seq(RuleSet) /\ attack \in Seq(RuleSet)
      /\ AllAre(spare, FALSE) /\ AllAre(attack, TRUE)
      /\ SomeHits(spare, end, ip, port) <=> Covers(ToSet(exclude), ip, port)
      /\ SomeHits(attack, end, ip, port) <=> Covers(ToSet(include), ip, port)
  BY DEF Makes, Spares, Attacks
<1>2. /\ m \in Nat /\ n \in Nat /\ DOMAIN spare = 1 .. m /\ DOMAIN attack = 1 .. n
      /\ \A i \in 1 .. m : spare[i].attack = FALSE
      /\ \A i \in 1 .. n : attack[i].attack = TRUE
  BY <1>1 DEF AllAre, ToSet
<1>3. ASSUME NEW rules \in Seq(RuleSet), ToSet(rules) = ToSet(spare) \cup ToSet(attack),
             \A i, j \in DOMAIN rules : i < j /\ rules[i].attack => rules[j].attack
      PROVE  Attacked(rules, end, ip, port)
                <=> Covers(ToSet(include), ip, port) /\ ~Covers(ToSet(exclude), ip, port)
  <2>1. Attacked(rules, end, ip, port)
            <=> /\ SomeHits(rules, end, ip, port)
                /\ \A rule \in ToSet(rules) : Hits(rule, end, ip, port) => rule.attack
    BY <1>3, FirstHitDecides
  <2>2. SomeHits(rules, end, ip, port)
            <=> SomeHits(spare, end, ip, port) \/ SomeHits(attack, end, ip, port)
    BY <1>3 DEF SomeHits
  <2>3. (\A rule \in ToSet(rules) : Hits(rule, end, ip, port) => rule.attack)
            <=> ~SomeHits(spare, end, ip, port)
    BY <1>1, <1>3 DEF SomeHits, AllAre
  <2> QED
    BY <1>1, <2>1, <2>2, <2>3
<1>4. Attacked(spare \o attack, end, ip, port)
            <=> Covers(ToSet(include), ip, port) /\ ~Covers(ToSet(exclude), ip, port)
  <2> DEFINE rules == spare \o attack
  <2>1. rules \in Seq(RuleSet) /\ ToSet(rules) = ToSet(spare) \cup ToSet(attack)
    BY <1>1, ToSetConcat
  <2>2. /\ DOMAIN rules = 1 .. m + n
        /\ \A i \in 1 .. m : rules[i] = spare[i]
        /\ \A j \in 1 .. n : rules[m + j] = attack[j]
    <3>1. /\ Len(rules) = m + n
          /\ \A i \in 1 .. m : rules[i] = spare[i]
          /\ \A j \in 1 .. n : rules[m + j] = attack[j]
      BY <1>1, Concatenation
    <3> QED
      BY <2>1, <3>1
  <2> HIDE DEF rules, m, n
  <2>3. \A i \in 1 .. m : rules[i].attack = FALSE
    BY <1>2, <2>2
  <2>4. ASSUME NEW i \in 1 .. m + n, ~(i <= m) PROVE rules[i].attack = TRUE
    <3>1. i - m \in 1 .. n /\ m + (i - m) = i
      BY <1>2, <2>4
    <3> QED
      BY <1>2, <2>2, <3>1
  <2>5. ASSUME NEW i \in DOMAIN rules, NEW j \in DOMAIN rules, i < j, rules[i].attack
        PROVE  rules[j].attack
    <3>1. i \in 1 .. m + n /\ j \in 1 .. m + n
      BY <2>2
    <3>2. ~(i <= m)
      BY <1>2, <2>3, <2>5, <3>1
    <3>3. ~(j <= m)
      BY <1>2, <2>5, <3>1, <3>2
    <3> QED
      BY <2>4, <3>1, <3>3
  <2>6. Attacked(rules, end, ip, port)
            <=> Covers(ToSet(include), ip, port) /\ ~Covers(ToSet(exclude), ip, port)
    BY <1>3, <2>1, <2>5
  <2> QED
    BY <2>6 DEF rules
<1>5. Attacked(Reverse(attack \o spare), end, ip, port)
            <=> Covers(ToSet(include), ip, port) /\ ~Covers(ToSet(exclude), ip, port)
  <2> DEFINE all == attack \o spare
             rules == Reverse(all)
  <2>1. all \in Seq(RuleSet) /\ ToSet(all) = ToSet(attack) \cup ToSet(spare)
    BY <1>1, ToSetConcat
  <2>2. /\ Len(all) = n + m
        /\ \A i \in 1 .. n : all[i] = attack[i]
        /\ \A j \in 1 .. m : all[n + j] = spare[j]
    BY <1>1, Concatenation
  <2> HIDE DEF all
  <2>3. /\ rules \in Seq(RuleSet) /\ Len(rules) = Len(all) /\ ToSet(rules) = ToSet(all)
        /\ \A i \in 1 .. Len(all) : rules[i] = all[Len(all) - i + 1]
    BY <2>1, ReverseSet
  <2> HIDE DEF rules, m, n
  <2>4. DOMAIN rules = 1 .. n + m /\ \A i \in 1 .. n + m : rules[i] = all[n + m - i + 1]
    <3>1. DOMAIN rules = 1 .. Len(rules)
      BY <2>3
    <3> DEFINE k == Len(all)
    <3>2. k = n + m /\ DOMAIN rules = 1 .. k /\ \A i \in 1 .. k : rules[i] = all[k - i + 1]
      BY <2>2, <2>3, <3>1
    <3> HIDE DEF k
    <3> QED
      BY <1>2, <3>2
  <2>5. ASSUME NEW i \in 1 .. n + m, i <= m PROVE rules[i].attack = FALSE
    <3> DEFINE j == m - i + 1
    <3>1. j \in 1 .. m /\ n + m - i + 1 = n + j
      BY <1>2, <2>5
    <3> HIDE DEF j
    <3>2. rules[i] = spare[j]
      BY <2>2, <2>4, <3>1
    <3> QED
      BY <1>2, <3>1, <3>2
  <2>6. ASSUME NEW i \in 1 .. n + m, ~(i <= m) PROVE rules[i].attack = TRUE
    <3> DEFINE j == n + m - i + 1
    <3>1. j \in 1 .. n
      BY <1>2, <2>6
    <3>2. rules[i] = all[j]
      BY <2>4
    <3> HIDE DEF j
    <3>3. rules[i] = attack[j]
      BY <2>2, <3>1, <3>2
    <3> QED
      BY <1>2, <3>1, <3>3
  <2>7. ASSUME NEW i \in DOMAIN rules, NEW j \in DOMAIN rules, i < j, rules[i].attack
        PROVE  rules[j].attack
    <3>1. i \in 1 .. n + m /\ j \in 1 .. n + m
      BY <2>4
    <3>2. ~(i <= m)
      BY <2>5, <2>7, <3>1
    <3>3. ~(j <= m)
      BY <1>2, <2>7, <3>1, <3>2
    <3> QED
      BY <2>6, <3>1, <3>3
  <2>8. ToSet(rules) = ToSet(spare) \cup ToSet(attack)
    BY <2>1, <2>3
  <2>9. Attacked(rules, end, ip, port)
            <=> Covers(ToSet(include), ip, port) /\ ~Covers(ToSet(exclude), ip, port)
    BY <1>3, <2>3, <2>7, <2>8
  <2> QED
    BY <2>9 DEF rules, all
<1> QED
  BY <1>4, <1>5

(* The two rules of an entry match it at either end.                       *)
LEMMA BothHits ==
    ASSUME NEW net \in Nets, NEW ports \in SUBSET Ports, NEW attack \in BOOLEAN,
           NEW end \in {"src", "dst"}, NEW ip, NEW port
    PROVE  /\ Both(net, ports, attack) \in Seq(RuleSet)
           /\ AllAre(Both(net, ports, attack), attack)
           /\ SomeHits(Both(net, ports, attack), end, ip, port)
                <=> NetContains(net, ip) /\ port \in ports
<1> DEFINE src == [end |-> "src", net |-> net, ports |-> ports, attack |-> attack]
           dst == [end |-> "dst", net |-> net, ports |-> ports, attack |-> attack]
           both == Both(net, ports, attack)
<1>1. both = <<src, dst>>
  BY DEF Both
<1>2. src \in RuleSet /\ dst \in RuleSet /\ src.attack = attack /\ dst.attack = attack
  BY DEF RuleSet
<1>3. /\ Hits(src, end, ip, port) <=> end = "src" /\ NetContains(net, ip) /\ port \in ports
      /\ Hits(dst, end, ip, port) <=> end = "dst" /\ NetContains(net, ip) /\ port \in ports
  BY DEF Hits
<1> HIDE DEF src, dst, both
<1>4. both \in Seq(RuleSet) /\ ToSet(both) = {src, dst}
  BY <1>1, <1>2 DEF ToSet
<1>5. AllAre(both, attack) /\ (SomeHits(both, end, ip, port) <=> NetContains(net, ip) /\ port \in ports)
  BY <1>2, <1>3, <1>4 DEF AllAre, SomeHits
<1> QED
  BY <1>4, <1>5 DEF both

(* A list of rules for each entry makes a list for all of them.            *)
LEMMA FlattenMakes ==
    ASSUME NEW nwps \in Seq(Entries), NEW parts \in Seq(Seq(RuleSet)), DOMAIN parts = DOMAIN nwps,
           NEW attack, NEW end, NEW ip, NEW port,
           \A i \in DOMAIN nwps : /\ AllAre(parts[i], attack)
                                  /\ SomeHits(parts[i], end, ip, port) <=> Matches(nwps[i], ip, port)
    PROVE  Makes(FlattenSeq(parts), nwps, attack, end, ip, port)
<1> DEFINE rules == FlattenSeq(parts)
<1>1. rules \in Seq(RuleSet) /\ ToSet(rules) = UNION {ToSet(parts[i]) : i \in DOMAIN parts}
  BY ToSetFlatten
<1> HIDE DEF rules
<1>2. \A rule : rule \in ToSet(rules) <=> \E i \in DOMAIN nwps : rule \in ToSet(parts[i])
  BY <1>1
<1>3. AllAre(rules, attack)
  BY <1>2 DEF AllAre
<1>4. SomeHits(rules, end, ip, port) <=> \E i \in DOMAIN nwps : SomeHits(parts[i], end, ip, port)
  BY <1>2 DEF SomeHits
<1>5. Covers(ToSet(nwps), ip, port) <=> \E i \in DOMAIN nwps : Matches(nwps[i], ip, port)
  BY DEF Covers, ToSet
<1> QED
  BY <1>1, <1>3, <1>4, <1>5 DEF Makes, rules

(* The ports the rules of a range name, of those a range may have.         *)
LEMMA RangeHits ==
    ASSUME NEW r \in ParsedRanges, NEW port \in 1 .. PortLimit - 2
    PROVE  /\ port \in Ports /\ r \in PortRange /\ r.From <= r.To
           /\ RangePorts(r) \in SUBSET Ports /\ SelectedPorts(r) \in SUBSET Ports
           /\ port \in RangePorts(r) <=> ContainsPort(r, port)
           /\ port \in SelectedPorts(r) <=> ContainsPort(r, port)
           /\ port \in (IF IsAny(r) THEN Ports ELSE r.From .. r.To) <=> ContainsPort(r, port)
<1>1. PortLimit \in Nat \ {0}
  BY PortAssumption, Pow2Step DEF PortLimit
<1>2. port \in Ports /\ port \in Nat
  BY <1>1 DEF Ports
<1>3. /\ r \in PortRange /\ r.From <= r.To /\ r.From \in Nat /\ r.To \in Nat
  BY <1>1 DEF ParsedRanges, PortRange, Ports
<1>4. IsAny(r) => ContainsPort(r, port)
  BY <1>1 DEF IsAny, ContainsPort, PortRangeAny
<1>5. port \in r.From .. r.To <=> ContainsPort(r, port)
  BY <1>2, <1>3 DEF ContainsPort
<1> QED
  BY <1>2, <1>3, <1>4, <1>5 DEF RangePorts, SelectedPorts

(* One rule for each end and each mask of the ports.                       *)
LEMMA TcMakes ==
    ASSUME NEW nwps \in Seq(Entries), NEW attack \in BOOLEAN, NEW end \in {"src", "dst"},
           NEW ip \in Nat, NEW port \in 1 .. PortLimit - 2
    PROVE  Makes(tcCommandsForNets(nwps, attack), nwps, attack, end, ip, port)
<1> DEFINE matchers(nwp) == FlattenSeq([i \in DOMAIN getMask(nwp.ports) |->
                                Both(nwp.net, MaskedPorts(getMask(nwp.ports)[i]), attack)])
           parts == [i \in DOMAIN nwps |-> matchers(nwps[i])]
<1>1. tcCommandsForNets(nwps, attack) = FlattenSeq(parts)
  BY DEF tcCommandsForNets
<1>2. ASSUME NEW x \in Entries
      PROVE  /\ matchers(x) \in Seq(RuleSet)
             /\ AllAre(matchers(x), attack)
             /\ SomeHits(matchers(x), end, ip, port) <=> Matches(x, ip, port)
  <2> DEFINE masks == getMask(x.ports)
             rules == [i \in DOMAIN masks |-> Both(x.net, MaskedPorts(masks[i]), attack)]
  <2>1. x.net \in Nets /\ x.ports \in ParsedRanges
    BY DEF Entries
  <2>2. port \in Ports /\ x.ports \in PortRange /\ x.ports.From <= x.ports.To
    BY <2>1, RangeHits
  <2>3. /\ masks \in Seq(Masks)
        /\ port \in (IF IsAny(x.ports) THEN Ports ELSE x.ports.From .. x.ports.To)
            <=> \E i \in DOMAIN masks : port \in MaskedPorts(masks[i])
    BY <2>2, MaskTheorem
  <2>4. ContainsPort(x.ports, port) <=> \E i \in DOMAIN masks : port \in MaskedPorts(masks[i])
    BY <2>1, <2>3, RangeHits
  <2>5. matchers(x) = FlattenSeq(rules)
    OBVIOUS
  <2>6. DOMAIN masks = 1 .. Len(masks) /\ Len(masks) \in Nat
    BY <2>3
  <2> HIDE DEF masks, matchers
  <2>7. ASSUME NEW i \in DOMAIN masks
        PROVE  /\ rules[i] \in Seq(RuleSet) /\ AllAre(rules[i], attack)
               /\ SomeHits(rules[i], end, ip, port)
                    <=> NetContains(x.net, ip) /\ port \in MaskedPorts(masks[i])
    <3> DEFINE ports == MaskedPorts(masks[i])
               both == Both(x.net, ports, attack)
    <3>1. ports \in SUBSET Ports
      BY DEF MaskedPorts
    <3>2. rules[i] = both
      OBVIOUS
    <3> HIDE DEF ports, rules
    <3>3. /\ both \in Seq(RuleSet) /\ AllAre(both, attack)
          /\ SomeHits(both, end, ip, port) <=> NetContains(x.net, ip) /\ port \in ports
      BY <2>1, <3>1, BothHits, Zenon
    <3> QED
      BY <3>2, <3>3, Zenon DEF ports
  <2>8. DOMAIN rules = DOMAIN masks
    OBVIOUS
  <2> HIDE DEF rules
  <2>9. rules \in Seq(Seq(RuleSet))
    <3>1. rules = [i \in 1 .. Len(masks) |-> rules[i]]
      BY <2>6, <2>8 DEF rules
    <3>2. \A i \in 1 .. Len(masks) : rules[i] \in Seq(RuleSet)
      BY <2>6, <2>7
    <3> QED
      BY <2>6, <3>1, <3>2, SeqDef
  <2>10. matchers(x) \in Seq(RuleSet) /\ ToSet(matchers(x)) = UNION {ToSet(rules[i]) : i \in DOMAIN rules}
    BY <2>5, <2>9, ToSetFlatten
  <2>11. \A rule : rule \in ToSet(matchers(x)) <=> \E i \in DOMAIN masks : rule \in ToSet(rules[i])
    BY <2>8, <2>10
  <2>12. AllAre(matchers(x), attack)
    BY <2>7, <2>11 DEF AllAre
  <2>13. SomeHits(matchers(x), end, ip, port) <=> \E i \in DOMAIN masks : SomeHits(rules[i], end, ip, port)
    BY <2>11 DEF SomeHits
  <2> QED
    BY <2>4, <2>7, <2>10, <2>12, <2>13 DEF Matches
<1> HIDE DEF matchers
<1>3. \A i \in DOMAIN nwps : nwps[i] \in Entries /\ parts[i] = matchers(nwps[i])
  OBVIOUS
<1>4. DOMAIN parts = DOMAIN nwps /\ parts \in Seq(Seq(RuleSet))
  <2>1. DOMAIN nwps = 1 .. Len(nwps) /\ Len(nwps) \in Nat
    OBVIOUS
  <2> QED
    BY <1>2, <1>3, <2>1, SeqDef
<1> HIDE DEF parts
<1> QED
  BY <1>1, <1>2, <1>3, <1>4, FlattenMakes

(* One rule for each end: the ports are those of the range, or all ports   *)
(* when the range is any.                                                  *)
LEMMA RulesMake ==
    ASSUME NEW nwps \in Seq(Entries), NEW attack \in BOOLEAN, NEW end \in {"src", "dst"},
           NEW ip \in Nat, NEW port \in 1 .. PortLimit - 2
    PROVE  /\ Makes(FlattenSeq([i \in DOMAIN nwps |->
                        Both(nwps[i].net, SelectedPorts(nwps[i].ports), attack)]),
                    nwps, attack, end, ip, port)
           /\ Makes(FlattenSeq([i \in DOMAIN nwps |->
                        Both(nwps[i].net, RangePorts(nwps[i].ports), attack)]),
                    nwps, attack, end, ip, port)
<1>1. ASSUME NEW x \in Entries, NEW ports \in {SelectedPorts(x.ports), RangePorts(x.ports)}
      PROVE  /\ Both(x.net, ports, attack) \in Seq(RuleSet)
             /\ AllAre(Both(x.net, ports, attack), attack)
             /\ SomeHits(Both(x.net, ports, attack), end, ip, port) <=> Matches(x, ip, port)
  <2>1. x.net \in Nets /\ x.ports \in ParsedRanges
    BY DEF Entries
  <2>2. ports \in SUBSET Ports /\ (port \in ports <=> ContainsPort(x.ports, port))
    BY <2>1, RangeHits
  <2> DEFINE both == Both(x.net, ports, attack)
  <2>3. /\ both \in Seq(RuleSet) /\ AllAre(both, attack)
        /\ SomeHits(both, end, ip, port) <=> NetContains(x.net, ip) /\ port \in ports
    BY <2>1, <2>2, BothHits, Zenon
  <2> QED
    BY <2>2, <2>3, Zenon DEF Matches
<1>2. DOMAIN nwps = 1 .. Len(nwps) /\ Len(nwps) \in Nat /\ \A i \in DOMAIN nwps : nwps[i] \in Entries
  OBVIOUS
<1> DEFINE selected == [i \in DOMAIN nwps |-> Both(nwps[i].net, SelectedPorts(nwps[i].ports), attack)]
           ranges == [i \in DOMAIN nwps |-> Both(nwps[i].net, RangePorts(nwps[i].ports), attack)]
<1>3. Makes(FlattenSeq(selected), nwps, attack, end, ip, port)
  <2>1. selected \in Seq(Seq(RuleSet)) /\ DOMAIN selected = DOMAIN nwps
    BY <1>1, <1>2, SeqDef
  <2>2. \A i \in DOMAIN nwps : /\ AllAre(selected[i], attack)
                               /\ SomeHits(selected[i], end, ip, port) <=> Matches(nwps[i], ip, port)
    BY <1>1, <1>2
  <2> HIDE DEF selected
  <2> QED
    BY <2>1, <2>2, FlattenMakes
<1>4. Makes(FlattenSeq(ranges), nwps, attack, end, ip, port)
  <2>1. ranges \in Seq(Seq(RuleSet)) /\ DOMAIN ranges = DOMAIN nwps
    BY <1>1, <1>2, SeqDef
  <2>2. \A i \in DOMAIN nwps : /\ AllAre(ranges[i], attack)
                               /\ SomeHits(ranges[i], end, ip, port) <=> Matches(nwps[i], ip, port)
    BY <1>1, <1>2
  <2> HIDE DEF ranges
  <2> QED
    BY <2>1, <2>2, FlattenMakes
<1> QED
  BY <1>3, <1>4

(* A packet is attacked when, at one of its ends, the include list covers  *)
(* it and the exclude list does not: that holds for every kind of attack   *)
(* and every filter whose lists do not hold two networks that differ in    *)
(* nothing but their prefix (optimizeFilter, tcCommandsForFilter,          *)
(* buildIptablesScript, ipCommands, the rules of a TCP reset).             *)
THEOREM FilterTheorem ==
    ASSUME NEW f, f.Include \in Seq(Entries), f.Exclude \in Seq(Entries),
           SamePrefix(ToSet(f.Include)), SamePrefix(ToSet(f.Exclude)),
           NEW kind, NEW end \in {"src", "dst"}, NEW ip \in Nat, NEW port \in 1 .. PortLimit - 2
    PROVE  Attacked(Rules(kind, f), end, ip, port)
                <=> Covers(ToSet(f.Include), ip, port) /\ ~Covers(ToSet(f.Exclude), ip, port)
<1> DEFINE o == optimizeFilter(f)
           I == o.Include
           X == o.Exclude
<1>1. /\ I \in Seq(Entries) /\ X \in Seq(Entries)
      /\ Covers(ToSet(I), ip, port) /\ ~Covers(ToSet(X), ip, port)
            <=> Covers(ToSet(f.Include), ip, port) /\ ~Covers(ToSet(f.Exclude), ip, port)
  BY OptimizedCovers
<1> HIDE DEF o
<1> DEFINE Right(rules) == Attacked(rules, end, ip, port)
                            <=> Covers(ToSet(I), ip, port) /\ ~Covers(ToSet(X), ip, port)
<1>2. Right(tcCommandsForFilter(o))
  <2> DEFINE spare == tcCommandsForNets(X, FALSE)
             attack == tcCommandsForNets(I, TRUE)
  <2>1. Spares(spare, X, end, ip, port) /\ Attacks(attack, I, end, ip, port)
    BY <1>1, TcMakes DEF Spares, Attacks
  <2>2. tcCommandsForFilter(o) = spare \o attack
    BY DEF tcCommandsForFilter
  <2> HIDE DEF spare, attack
  <2> QED
    BY <2>1, <2>2, ExcludesFirst
<1>3. Right(buildIptablesScript(o))
  <2> DEFINE spare == writeIptablesRules(X, FALSE)
             attack == writeIptablesRules(I, TRUE)
  <2>1. Spares(spare, X, end, ip, port) /\ Attacks(attack, I, end, ip, port)
    BY <1>1, RulesMake DEF writeIptablesRules, Spares, Attacks
  <2>2. buildIptablesScript(o) = spare \o attack
    BY DEF buildIptablesScript
  <2> HIDE DEF spare, attack
  <2> QED
    BY <2>1, <2>2, ExcludesFirst
<1>4. Right(ipCommands(o))
  <2> DEFINE spare == FlattenSeq([i \in DOMAIN X |-> Both(X[i].net, SelectedPorts(X[i].ports), FALSE)])
             attack == FlattenSeq([i \in DOMAIN I |-> Both(I[i].net, SelectedPorts(I[i].ports), TRUE)])
  <2>1. Spares(spare, X, end, ip, port) /\ Attacks(attack, I, end, ip, port)
    BY <1>1, RulesMake DEF Spares, Attacks
  <2>2. ipCommands(o) = Reverse(attack \o spare)
    BY DEF ipCommands
  <2> HIDE DEF spare, attack
  <2> QED
    BY <2>1, <2>2, ExcludesFirst
<1>5. Right(resetRules(o))
  <2> DEFINE spare == FlattenSeq([i \in DOMAIN X |-> Both(X[i].net, RangePorts(X[i].ports), FALSE)])
             attack == FlattenSeq([i \in DOMAIN I |-> Both(I[i].net, RangePorts(I[i].ports), TRUE)])
  <2>1. Spares(spare, X, end, ip, port) /\ Attacks(attack, I, end, ip, port)
    BY <1>1, RulesMake DEF Spares, Attacks
  <2>2. resetRules(o) = spare \o attack
    BY DEF resetRules
  <2> HIDE DEF spare, attack
  <2> QED
    BY <2>1, <2>2, ExcludesFirst
<1>6. Right(Rules(kind, f))
  BY <1>2, <1>3, <1>4, <1>5 DEF Rules, o
<1> QED
  BY <1>1, <1>6
-----------------------------------------------------------------------------
(* The replay of a listing of qdiscs.                                      *)

(* Every qdisc comes once, after all whose handle its parent names.        *)
ParentsFirst(qs, e) ==
    \A k \in DOMAIN e :
        /\ e[k] \notin {e[m] : m \in 1 .. k - 1}
        /\ isRootQdisc(qs[e[k]]) \/ Owners(qs, qs[e[k]]) \subseteq {e[m] : m \in 1 .. k - 1}

LEMMA EmitKeeps ==
    ASSUME NEW qs, NEW D, NEW e \in Seq(D), NEW i \in D
    PROVE  /\ Emit(qs, e, i) \in Seq(D)
           /\ ToSet(e) \subseteq ToSet(Emit(qs, e, i))
           /\ isRootQdisc(qs[i]) \/ Owners(qs, qs[i]) \subseteq ToSet(e) => i \in ToSet(Emit(qs, e, i))
           /\ ParentsFirst(qs, e) => ParentsFirst(qs, Emit(qs, e, i))
<1>1. CASE Emit(qs, e, i) = e
  <2>1. isRootQdisc(qs[i]) \/ Owners(qs, qs[i]) \subseteq ToSet(e) => i \in ToSet(e)
    <3> SUFFICES ASSUME isRootQdisc(qs[i]) \/ Owners(qs, qs[i]) \subseteq ToSet(e), i \notin ToSet(e)
                 PROVE  FALSE
      OBVIOUS
    <3>1. Emit(qs, e, i) = Append(e, i)
      BY DEF Emit
    <3>2. Append(e, i) # e
      <4>1. Len(Append(e, i)) = Len(e) + 1 /\ Len(e) \in Nat
        OBVIOUS
      <4> QED
        BY <4>1
    <3> QED
      BY <1>1, <3>1, <3>2
  <2> QED
    BY <1>1, <2>1
<1>2. CASE Emit(qs, e, i) # e
  <2> DEFINE all == Append(e, i)
             n == Len(e)
  <2>1. /\ i \notin ToSet(e) /\ Emit(qs, e, i) = all
        /\ isRootQdisc(qs[i]) \/ Owners(qs, qs[i]) \subseteq ToSet(e)
    BY <1>2 DEF Emit
  <2>2. all \in Seq(D) /\ ToSet(all) = ToSet(e) \cup {i}
    BY ToSetAppend
  <2>3. ASSUME ParentsFirst(qs, e) PROVE ParentsFirst(qs, all)
    <3>1. /\ n \in Nat /\ DOMAIN e = 1 .. n /\ DOMAIN all = 1 .. n + 1
          /\ \A m \in 1 .. n : all[m] = e[m]
          /\ all[n + 1] = i
      OBVIOUS
    <3>2. ToSet(e) = {e[m] : m \in 1 .. n}
      BY <3>1 DEF ToSet
    <3> HIDE DEF all, n
    <3>3. ASSUME NEW k \in 1 .. n + 1 PROVE {all[m] : m \in 1 .. k - 1} = {e[m] : m \in 1 .. k - 1}
      <4>1. \A m \in 1 .. k - 1 : all[m] = e[m]
        BY <3>1
      <4> QED
        BY <4>1
    <3>4. ASSUME NEW k \in 1 .. n + 1
          PROVE  /\ all[k] \notin {e[m] : m \in 1 .. k - 1}
                 /\ isRootQdisc(qs[all[k]]) \/ Owners(qs, qs[all[k]]) \subseteq {e[m] : m \in 1 .. k - 1}
      <4>1. CASE k \in 1 .. n
        BY <2>3, <3>1, <4>1 DEF ParentsFirst
      <4>2. CASE k = n + 1
        <5>1. k - 1 = n
          BY <3>1, <4>2
        <5> QED
          BY <2>1, <3>1, <3>2, <4>2, <5>1
      <4> QED
        BY <3>1, <4>1, <4>2
    <3> QED
      BY <3>1, <3>3, <3>4 DEF ParentsFirst
  <2> HIDE DEF all
  <2> QED
    BY <2>1, <2>2, <2>3
<1> QED
  BY <1>1, <1>2

(* One pass emits every qdisc whose owners were emitted before it, keeps   *)
(* what was emitted and puts none before its owners.                       *)
LEMMA PassEmits ==
    ASSUME NEW K, NEW qs \in Seq(K), NEW e \in Seq(DOMAIN qs)
    PROVE  LET after == emitQdiscsWithKnownParents(qs, e)
           IN  /\ after \in Seq(DOMAIN qs)
               /\ ToSet(e) \subseteq ToSet(after)
               /\ \A i \in DOMAIN qs :
                    isRootQdisc(qs[i]) \/ Owners(qs, qs[i]) \subseteq ToSet(e) => i \in ToSet(after)
               /\ ParentsFirst(qs, e) => ParentsFirst(qs, after)
<1> DEFINE after == emitQdiscsWithKnownParents(qs, e)
           n == Len(qs)
           ix == Indices(qs)
           S == Seq(1 .. n)
           next(s, i) == Emit(qs, s, ix[i])
           step == [p \in S \X (1 .. n) |-> next(p[1], p[2])]
           iter == CHOOSE f : f = [s \in SUBSET (1 .. n) |->
                        IF s = {} THEN e ELSE Emit(qs, f[s \ {Max(s)}], ix[Max(s)])]
           ready(i) == isRootQdisc(qs[i]) \/ Owners(qs, qs[i]) \subseteq ToSet(e)
           Inv == {p \in Nat \X S : /\ ToSet(e) \subseteq ToSet(p[2])
                                    /\ \A i \in 1 .. p[1] : ready(i) => i \in ToSet(p[2])
                                    /\ ParentsFirst(qs, e) => ParentsFirst(qs, p[2])}
<1>1. n \in Nat /\ DOMAIN qs = 1 .. n /\ ix = [i \in 1 .. n |-> i] /\ \A i \in 1 .. n : ix[i] = i
  BY DEF Indices
<1>2. after = iter[1 .. n]
  BY <1>1 DEF emitQdiscsWithKnownParents, FoldLeft, MapThenFoldSet
<1> SUFFICES /\ after \in S
             /\ ToSet(e) \subseteq ToSet(after)
             /\ \A i \in 1 .. n : ready(i) => i \in ToSet(after)
             /\ ParentsFirst(qs, e) => ParentsFirst(qs, after)
  BY <1>1
<1> e \in Seq(1 .. n)
  BY <1>1
<1> HIDE DEF n, ix, after, ready
<1>3. IsStep(n, S, e, step)
  <2>1. \A s \in S, i \in 1 .. n : next(s, i) \in S
    BY <1>1, EmitKeeps
  <2>2. e \in S
    OBVIOUS
  <2> HIDE DEF S, next
  <2>3. step \in [S \X (1 .. n) -> S]
    BY <2>1
  <2> HIDE DEF step
  <2> QED
    BY <1>1, <2>2, <2>3 DEF IsStep
<1>4. FoldsBy(iter, n, S, e, step)
  <2>1. PICK f : IsFold(f, n, S, e, step)
    <3> HIDE DEF S, step
    <3> QED
      BY <1>3, FoldIsDefined
  <2>2. ASSUME NEW g \in S, NEW i \in 1 .. n
        PROVE  step[<<g, i>>] = Emit(qs, g, ix[i])
    OBVIOUS
  <2>3. ASSUME NEW s \in SUBSET (1 .. n), s # {}
        PROVE  step[<<f[s \ {Max(s)}], Max(s)>>] = Emit(qs, f[s \ {Max(s)}], ix[Max(s)])
    <3>1. Max(s) \in 1 .. n
      BY <1>1, <2>3, GreatestIndex
    <3>2. f[s \ {Max(s)}] \in S
      BY <2>1 DEF IsFold
    <3> HIDE DEF S, step
    <3> QED
      BY <2>2, <3>1, <3>2
  <2>4. f = [s \in SUBSET (1 .. n) |->
                IF s = {} THEN e ELSE Emit(qs, f[s \ {Max(s)}], ix[Max(s)])]
    <3> HIDE DEF S, step
    <3> QED
      BY <2>1, <2>3 DEF IsFold
  <2>5. iter = [s \in SUBSET (1 .. n) |->
                IF s = {} THEN e ELSE Emit(qs, iter[s \ {Max(s)}], ix[Max(s)])]
    BY <2>4
  <2> HIDE DEF iter, step, S
  <2>6. iter[{}] = e
    BY <2>5
  <2>7. ASSUME NEW i \in 1 .. n
        PROVE  iter[1 .. i] = Emit(qs, iter[1 .. i - 1], ix[i])
    <3>1. /\ 1 .. i \in SUBSET (1 .. n) /\ 1 .. i # {}
          /\ Max(1 .. i) = i /\ (1 .. i) \ {Max(1 .. i)} = 1 .. i - 1
      BY <1>1, FoldSteps
    <3> QED
      BY <2>5, <3>1
  <2> QED
    BY <2>2, <2>6, <2>7 DEF FoldsBy
<1> HIDE DEF iter
<1>5. <<0, e>> \in Inv
  <2>1. 1 .. 0 = {} /\ e \in S
    OBVIOUS
  <2> HIDE DEF S
  <2> QED
    BY <2>1
<1>6. ASSUME NEW i \in 1 .. n, NEW s \in S, <<i - 1, s>> \in Inv
      PROVE  <<i, step[<<s, i>>]>> \in Inv
  <2> DEFINE t == Emit(qs, s, i)
  <2>1. /\ t \in S /\ ToSet(s) \subseteq ToSet(t)
        /\ isRootQdisc(qs[i]) \/ Owners(qs, qs[i]) \subseteq ToSet(s) => i \in ToSet(t)
        /\ ParentsFirst(qs, s) => ParentsFirst(qs, t)
    BY EmitKeeps
  <2>2. /\ ToSet(e) \subseteq ToSet(s)
        /\ \A j \in 1 .. i - 1 : ready(j) => j \in ToSet(s)
        /\ ParentsFirst(qs, e) => ParentsFirst(qs, s)
    BY <1>6
  <2>3. i \in Nat /\ \A j \in 1 .. i : j = i \/ j \in 1 .. i - 1
    BY <1>1
  <2>4. step[<<s, i>>] = t
    BY <1>1
  <2>5. ready(i) => i \in ToSet(t)
    BY <2>1, <2>2 DEF ready
  <2> HIDE DEF S, step, t
  <2> QED
    BY <2>1, <2>2, <2>3, <2>4, <2>5
<1>7. iter[1 .. n] \in S /\ <<n, iter[1 .. n]>> \in Inv
  <2> HIDE DEF S, step, Inv
  <2> QED
    BY <1>3, <1>4, <1>5, <1>6, FoldInvariant
<1> QED
  BY <1>2, <1>7

(* No set of qdiscs in which each has an owner.                            *)
Rooted(qs) ==
    \A S \in SUBSET DOMAIN qs : S # {} =>
        \E i \in S : isRootQdisc(qs[i]) \/ Owners(qs, qs[i]) \cap S = {}

(* The passes emit every qdisc, each after its owners: a pass that finds   *)
(* some missing emits one.                                                 *)
LEMMA PassesEmitAll ==
    ASSUME NEW K, NEW qs \in Seq(K), Rooted(qs)
    PROVE  /\ emitUntilFixedPoint(qs) \in Seq(DOMAIN qs)
           /\ ParentsFirst(qs, emitUntilFixedPoint(qs))
           /\ ToSet(emitUntilFixedPoint(qs)) = DOMAIN qs
<1> DEFINE emitted == emitUntilFixedPoint(qs)
           n == Len(qs)
           S == Seq(1 .. n)
           next(s, i) == emitQdiscsWithKnownParents(qs, s)
           step == [p \in S \X (1 .. n) |-> next(p[1], p[2])]
           iter == CHOOSE f : f = [s \in SUBSET (1 .. n) |->
                        IF s = {} THEN <<>> ELSE emitQdiscsWithKnownParents(qs, f[s \ {Max(s)}])]
           Inv == {p \in Nat \X S : /\ ParentsFirst(qs, p[2])
                                    /\ ToSet(p[2]) = 1 .. n \/ Cardinality(ToSet(p[2])) >= p[1]}
<1>1. n \in Nat /\ DOMAIN qs = 1 .. n /\ DOMAIN Indices(qs) = 1 .. n
  BY DEF Indices
<1>2. emitted = iter[1 .. n]
  BY <1>1 DEF emitUntilFixedPoint, FoldLeft, MapThenFoldSet
<1> SUFFICES emitted \in S /\ ParentsFirst(qs, emitted) /\ ToSet(emitted) = 1 .. n
  BY <1>1
<1> HIDE DEF n, emitted
<1>3. IsStep(n, S, <<>>, step)
  <2>1. \A s \in S, i \in 1 .. n : next(s, i) \in S
    BY <1>1, PassEmits
  <2>2. <<>> \in S
    OBVIOUS
  <2> HIDE DEF S, next
  <2>3. step \in [S \X (1 .. n) -> S]
    BY <2>1
  <2> HIDE DEF step
  <2> QED
    BY <1>1, <2>2, <2>3 DEF IsStep
<1>4. FoldsBy(iter, n, S, <<>>, step)
  <2>1. PICK f : IsFold(f, n, S, <<>>, step)
    <3> HIDE DEF S, step
    <3> QED
      BY <1>3, FoldIsDefined
  <2>2. ASSUME NEW g \in S, NEW i \in 1 .. n
        PROVE  step[<<g, i>>] = emitQdiscsWithKnownParents(qs, g)
    OBVIOUS
  <2>3. ASSUME NEW s \in SUBSET (1 .. n), s # {}
        PROVE  step[<<f[s \ {Max(s)}], Max(s)>>] = emitQdiscsWithKnownParents(qs, f[s \ {Max(s)}])
    <3>1. Max(s) \in 1 .. n
      BY <1>1, <2>3, GreatestIndex
    <3>2. f[s \ {Max(s)}] \in S
      BY <2>1 DEF IsFold
    <3> HIDE DEF S, step
    <3> QED
      BY <2>2, <3>1, <3>2
  <2>4. f = [s \in SUBSET (1 .. n) |->
                IF s = {} THEN <<>> ELSE emitQdiscsWithKnownParents(qs, f[s \ {Max(s)}])]
    <3> HIDE DEF S, step
    <3> QED
      BY <2>1, <2>3 DEF IsFold
  <2>5. iter = [s \in SUBSET (1 .. n) |->
                IF s = {} THEN <<>> ELSE emitQdiscsWithKnownParents(qs, iter[s \ {Max(s)}])]
    BY <2>4
  <2> HIDE DEF iter, step, S
  <2>6. iter[{}] = <<>>
    BY <2>5
  <2>7. ASSUME NEW i \in 1 .. n
        PROVE  iter[1 .. i] = emitQdiscsWithKnownParents(qs, iter[1 .. i - 1])
    <3>1. /\ 1 .. i \in SUBSET (1 .. n) /\ 1 .. i # {}
          /\ Max(1 .. i) = i /\ (1 .. i) \ {Max(1 .. i)} = 1 .. i - 1
      BY <1>1, FoldSteps
    <3> QED
      BY <2>5, <3>1
  <2> QED
    BY <2>2, <2>6, <2>7 DEF FoldsBy
<1> HIDE DEF iter
<1>5. ASSUME NEW s \in S
      PROVE  IsFiniteSet(ToSet(s)) /\ ToSet(s) \subseteq 1 .. n /\ Cardinality(ToSet(s)) \in Nat
  <2>1. ToSet(s) \subseteq 1 .. n
    <3>1. \A i \in DOMAIN s : s[i] \in 1 .. n
      BY <1>1
    <3> QED
      BY <3>1 DEF ToSet
  <2>2. IsFiniteSet(1 .. n)
    BY <1>1, FS_Interval
  <2> HIDE DEF S
  <2> QED
    BY <2>1, <2>2, FS_Subset, FS_CardinalityType
<1>6. <<0, <<>> >> \in Inv
  <2>1. ParentsFirst(qs, <<>>) /\ <<>> \in S
    BY DEF ParentsFirst
  <2>2. Cardinality(ToSet(<<>>)) >= 0
    <3> HIDE DEF S
    <3>1. Cardinality(ToSet(<<>>)) \in Nat
      BY <1>5, <2>1
    <3> QED
      BY <3>1
  <2> HIDE DEF S
  <2> QED
    BY <2>1, <2>2
<1>7. ASSUME NEW i \in 1 .. n, NEW s \in S, <<i - 1, s>> \in Inv
      PROVE  <<i, step[<<s, i>>]>> \in Inv
  <2> DEFINE t == emitQdiscsWithKnownParents(qs, s)
             missing == 1 .. n \ ToSet(s)
  <2>1. /\ t \in S /\ ToSet(s) \subseteq ToSet(t)
        /\ \A j \in 1 .. n :
                isRootQdisc(qs[j]) \/ Owners(qs, qs[j]) \subseteq ToSet(s) => j \in ToSet(t)
        /\ ParentsFirst(qs, s) => ParentsFirst(qs, t)
    BY <1>1, PassEmits
  <2>2. ParentsFirst(qs, s) /\ (ToSet(s) = 1 .. n \/ Cardinality(ToSet(s)) >= i - 1)
    BY <1>7
  <2>3. step[<<s, i>>] = t /\ i \in Nat
    BY <1>1
  <2> HIDE DEF t
  <2>4. ToSet(t) \subseteq 1 .. n /\ ToSet(s) \subseteq 1 .. n
    BY <1>5, <2>1
  <2>5. CASE missing = {}
    BY <2>1, <2>2, <2>3, <2>4, <2>5
  <2>6. CASE missing # {}
    <3>1. PICK j \in missing : isRootQdisc(qs[j]) \/ Owners(qs, qs[j]) \cap missing = {}
      BY <1>1, <2>6 DEF Rooted
    <3>2. Owners(qs, qs[j]) \subseteq 1 .. n
      BY <1>1 DEF Owners
    <3>3. j \in ToSet(t) /\ j \notin ToSet(s)
      BY <2>1, <3>1, <3>2
    <3>4. IsFiniteSet(ToSet(t)) /\ Cardinality(ToSet(t)) \in Nat /\ Cardinality(ToSet(s)) \in Nat
      BY <1>5, <2>1
    <3>5. Cardinality(ToSet(s)) <= Cardinality(ToSet(t)) /\ Cardinality(ToSet(s)) # Cardinality(ToSet(t))
      BY <2>1, <3>3, <3>4, FS_Subset
    <3>6. Cardinality(ToSet(s)) >= i - 1
      BY <2>2, <2>6
    <3>7. Cardinality(ToSet(t)) >= i
      BY <2>3, <3>4, <3>5, <3>6
    <3> HIDE DEF S, step
    <3> QED
      BY <2>1, <2>2, <2>3, <3>7
  <2> QED
    BY <2>5, <2>6
<1>8. iter[1 .. n] \in S /\ <<n, iter[1 .. n]>> \in Inv
  <2> HIDE DEF S, step, Inv
  <2> QED
    BY <1>3, <1>4, <1>6, <1>7, FoldInvariant
<1>9. emitted \in S /\ ParentsFirst(qs, emitted)
      /\ (ToSet(emitted) = 1 .. n \/ Cardinality(ToSet(emitted)) >= n)
  BY <1>2, <1>8
<1>10. ToSet(emitted) = 1 .. n
  <2>1. IsFiniteSet(1 .. n) /\ Cardinality(1 .. n) = n
    <3>1. 1 > n => n = 0
      BY <1>1
    <3> QED
      BY <1>1, <3>1, FS_Interval
  <2>2. ToSet(emitted) \subseteq 1 .. n /\ Cardinality(ToSet(emitted)) \in Nat
    BY <1>5, <1>9
  <2>3. Cardinality(ToSet(emitted)) <= n
    BY <2>1, <2>2, FS_Subset
  <2> QED
    BY <1>1, <1>9, <2>1, <2>2, <2>3, FS_Subset
<1> QED
  BY <1>9, <1>10

(* Nothing is left when everything was emitted.                            *)
LEMMA NothingMissing ==
    ASSUME NEW K, NEW qs \in Seq(K), NEW e \in Seq(DOMAIN qs), ToSet(e) = DOMAIN qs
    PROVE  FoldLeft(AppendMissing, e, Indices(qs)) = e
<1> DEFINE all == FoldLeft(AppendMissing, e, Indices(qs))
           n == Len(qs)
           ix == Indices(qs)
           S == {e}
           next(s, i) == AppendMissing(s, ix[i])
           step == [p \in S \X (1 .. n) |-> next(p[1], p[2])]
           iter == CHOOSE f : f = [s \in SUBSET (1 .. n) |->
                        IF s = {} THEN e ELSE AppendMissing(f[s \ {Max(s)}], ix[Max(s)])]
           Inv == Nat \X S
<1>1. n \in Nat /\ DOMAIN qs = 1 .. n /\ ix = [i \in 1 .. n |-> i] /\ \A i \in 1 .. n : ix[i] = i
  BY DEF Indices
<1>2. all = iter[1 .. n]
  BY <1>1 DEF FoldLeft, MapThenFoldSet
<1> SUFFICES all = e
  OBVIOUS
<1> HIDE DEF n, ix, all
<1>3. IsStep(n, S, e, step)
  <2>1. \A s \in S, i \in 1 .. n : next(s, i) \in S
    BY <1>1 DEF AppendMissing
  <2>2. e \in S
    OBVIOUS
  <2> HIDE DEF S, next
  <2>3. step \in [S \X (1 .. n) -> S]
    BY <2>1
  <2> HIDE DEF step
  <2> QED
    BY <1>1, <2>2, <2>3 DEF IsStep
<1>4. FoldsBy(iter, n, S, e, step)
  <2>1. PICK f : IsFold(f, n, S, e, step)
    <3> HIDE DEF S, step
    <3> QED
      BY <1>3, FoldIsDefined
  <2>2. ASSUME NEW g \in S, NEW i \in 1 .. n
        PROVE  step[<<g, i>>] = AppendMissing(g, ix[i])
    OBVIOUS
  <2>3. ASSUME NEW s \in SUBSET (1 .. n), s # {}
        PROVE  step[<<f[s \ {Max(s)}], Max(s)>>] = AppendMissing(f[s \ {Max(s)}], ix[Max(s)])
    <3>1. Max(s) \in 1 .. n
      BY <1>1, <2>3, GreatestIndex
    <3>2. f[s \ {Max(s)}] \in S
      BY <2>1 DEF IsFold
    <3> HIDE DEF S, step
    <3> QED
      BY <2>2, <3>1, <3>2
  <2>4. f = [s \in SUBSET (1 .. n) |->
                IF s = {} THEN e ELSE AppendMissing(f[s \ {Max(s)}], ix[Max(s)])]
    <3> HIDE DEF S, step
    <3> QED
      BY <2>1, <2>3 DEF IsFold
  <2>5. iter = [s \in SUBSET (1 .. n) |->
                IF s = {} THEN e ELSE AppendMissing(iter[s \ {Max(s)}], ix[Max(s)])]
    BY <2>4
  <2> HIDE DEF iter, step, S
  <2>6. iter[{}] = e
    BY <2>5
  <2>7. ASSUME NEW i \in 1 .. n
        PROVE  iter[1 .. i] = AppendMissing(iter[1 .. i - 1], ix[i])
    <3>1. /\ 1 .. i \in SUBSET (1 .. n) /\ 1 .. i # {}
          /\ Max(1 .. i) = i /\ (1 .. i) \ {Max(1 .. i)} = 1 .. i - 1
      BY <1>1, FoldSteps
    <3> QED
      BY <2>5, <3>1
  <2> QED
    BY <2>2, <2>6, <2>7 DEF FoldsBy
<1> HIDE DEF iter
<1>5. iter[1 .. n] \in S /\ <<n, iter[1 .. n]>> \in Inv
  <2>1. <<0, e>> \in Inv
    OBVIOUS
  <2>2. ASSUME NEW i \in 1 .. n, NEW s \in S, <<i - 1, s>> \in Inv
        PROVE  <<i, step[<<s, i>>]>> \in Inv
    <3>1. step[<<s, i>>] \in S /\ i \in Nat
      <4> HIDE DEF S, step
      <4> QED
        BY <1>1, <1>3 DEF IsStep
    <3> QED
      BY <3>1
  <2> HIDE DEF S, step, Inv
  <2> QED
    BY <1>3, <1>4, <2>1, <2>2, FoldInvariant
<1> QED
  BY <1>2, <1>5

(* A tree of qdiscs is restored in an order that has each of them once,    *)
(* after its parent, however it was listed.                                *)
THEOREM OrderTheorem ==
    ASSUME NEW K, NEW qs \in Seq(K), Rooted(qs)
    PROVE  \E e \in Seq(DOMAIN qs) :
              /\ ParentsFirst(qs, e) /\ ToSet(e) = DOMAIN qs
              /\ orderQdiscsForRestore(qs) = [k \in DOMAIN e |-> qs[e[k]]]
<1> DEFINE e == emitUntilFixedPoint(qs)
           all == FoldLeft(AppendMissing, e, Indices(qs))
<1>1. e \in Seq(DOMAIN qs) /\ ParentsFirst(qs, e) /\ ToSet(e) = DOMAIN qs
  BY PassesEmitAll
<1>2. orderQdiscsForRestore(qs) = [k \in DOMAIN all |-> qs[all[k]]]
  BY DEF orderQdiscsForRestore
<1> HIDE DEF e
<1>3. all = e
  BY <1>1, NothingMissing
<1> QED
  BY <1>1, <1>2, <1>3

(* A qdisc that is restored is in the place of no other and, below the     *)
(* root, has an owner that is restored or a class of the live root, which  *)
(* then stays.                                                             *)
Replayable(qs, live) ==
    /\ \A i, j \in DOMAIN qs : i # j => qs[i].parent # qs[j].parent
    /\ \A i \in DOMAIN qs :
          \/ isRootQdisc(qs[i]) \/ shouldSkipQdiscOnRestore(qs[i])
          \/ \E j \in Owners(qs, qs[i]) : ~shouldSkipQdiscOnRestore(qs[j])
          \/ /\ \E p \in live : isRootQdisc(p) /\ p.handle # 0 /\ p.handle = qs[i].parent[1]
             /\ \A j \in DOMAIN qs : isRootQdisc(qs[j]) => shouldSkipQdiscOnRestore(qs[j])

(* One step of the replay.                                                 *)
LEMMA QdiscRestored ==
    ASSUME NEW K, NEW q \in K, NEW acc \in [live : SUBSET K, failed : SUBSET K]
    PROVE  /\ restoreQdisc(acc, q) \in [live : SUBSET K, failed : SUBSET K]
           /\ shouldSkipQdiscOnRestore(q) => restoreQdisc(acc, q) = acc
           /\ ~shouldSkipQdiscOnRestore(q) /\ Attachable(acc.live, q) =>
                    /\ restoreQdisc(acc, q).live = Replace(acc.live, q)
                    /\ restoreQdisc(acc, q).failed = acc.failed
<1>1. Replace(acc.live, q) \in SUBSET K
  BY DEF Replace
<1>2. CASE shouldSkipQdiscOnRestore(q)
  BY <1>2 DEF restoreQdisc
<1>3. CASE ~shouldSkipQdiscOnRestore(q) /\ Attachable(acc.live, q)
  <2>1. restoreQdisc(acc, q) = [acc EXCEPT !.live = Replace(acc.live, q)]
    BY <1>3 DEF restoreQdisc
  <2> QED
    BY <1>1, <1>3, <2>1
<1>4. CASE ~shouldSkipQdiscOnRestore(q) /\ ~Attachable(acc.live, q)
  <2>1. restoreQdisc(acc, q) = [acc EXCEPT !.failed = acc.failed \cup {q}]
    BY <1>4 DEF restoreQdisc
  <2> QED
    BY <1>4, <2>1
<1> QED
  BY <1>2, <1>3, <1>4

(* Replaying the qdiscs parents first fails for none and leaves all of     *)
(* them in place, and the live root where none is restored.                *)
LEMMA ReplayRestores ==
    ASSUME NEW K, NEW qs \in Seq(K), NEW live \in SUBSET K, Rooted(qs), Replayable(qs, live)
    PROVE  LET after == restoreInterfaceQdiscs(live, qs)
           IN  /\ after.failed = {}
               /\ \A i \in DOMAIN qs : ~shouldSkipQdiscOnRestore(qs[i]) => qs[i] \in after.live
               /\ (\A i \in DOMAIN qs : isRootQdisc(qs[i]) => shouldSkipQdiscOnRestore(qs[i])) =>
                        \A p \in live : isRootQdisc(p) => p \in after.live
<1>1. PICK e \in Seq(DOMAIN qs) :
              /\ ParentsFirst(qs, e) /\ ToSet(e) = DOMAIN qs
              /\ orderQdiscsForRestore(qs) = [k \in DOMAIN e |-> qs[e[k]]]
  BY OrderTheorem
<1> DEFINE after == restoreInterfaceQdiscs(live, qs)
           order == [k \in DOMAIN e |-> qs[e[k]]]
           n == Len(e)
           S == [live : SUBSET K, failed : SUBSET K]
           base == [live |-> live, failed |-> {}]
           restored(i) == ~shouldSkipQdiscOnRestore(qs[i])
           rootStays == \A i \in DOMAIN qs : isRootQdisc(qs[i]) => ~restored(i)
           next(s, i) == restoreQdisc(s, order[i])
           step == [p \in S \X (1 .. n) |-> next(p[1], p[2])]
           iter == CHOOSE f : f = [s \in SUBSET (1 .. n) |->
                        IF s = {} THEN base ELSE restoreQdisc(f[s \ {Max(s)}], order[Max(s)])]
           seen(k) == {e[m] : m \in 1 .. k}
           Good(k, s) ==
                /\ s.failed = {}
                /\ \A i \in seen(k) : restored(i) => qs[i] \in s.live
                /\ rootStays => \A p \in live : isRootQdisc(p) => p \in s.live
                /\ \A i \in seen(k), r \in DOMAIN qs :
                        restored(i) /\ restored(r) /\ isRootQdisc(qs[r]) => r \in seen(k)
           Inv == {p \in Nat \X S : Good(p[1], p[2])}
<1>2. /\ n \in Nat /\ DOMAIN e = 1 .. n /\ DOMAIN order = 1 .. n
      /\ \A i \in 1 .. n : e[i] \in DOMAIN qs /\ order[i] = qs[e[i]] /\ order[i] \in K
  OBVIOUS
<1>3. after = iter[1 .. n]
  BY <1>1, <1>2 DEF restoreInterfaceQdiscs, FoldLeft, MapThenFoldSet
<1>4. DOMAIN qs = seen(n)
  BY <1>1, <1>2 DEF ToSet
<1> SUFFICES /\ after.failed = {} /\ \A i \in DOMAIN qs : restored(i) => qs[i] \in after.live
             /\ rootStays => \A p \in live : isRootQdisc(p) => p \in after.live
  OBVIOUS
<1>5. base \in S
  OBVIOUS
<1> HIDE DEF n, after, order
<1>6. IsStep(n, S, base, step)
  <2>1. \A s \in S, i \in 1 .. n : next(s, i) \in S
    BY <1>2, QdiscRestored
  <2>2. base \in S
    BY <1>5
  <2> HIDE DEF S, next
  <2>3. step \in [S \X (1 .. n) -> S]
    BY <2>1
  <2> HIDE DEF step
  <2> QED
    BY <1>2, <2>2, <2>3 DEF IsStep
<1>7. FoldsBy(iter, n, S, base, step)
  <2>1. PICK f : IsFold(f, n, S, base, step)
    <3> HIDE DEF S, step
    <3> QED
      BY <1>6, FoldIsDefined
  <2>2. ASSUME NEW g \in S, NEW i \in 1 .. n
        PROVE  step[<<g, i>>] = restoreQdisc(g, order[i])
    OBVIOUS
  <2>3. ASSUME NEW s \in SUBSET (1 .. n), s # {}
        PROVE  step[<<f[s \ {Max(s)}], Max(s)>>] = restoreQdisc(f[s \ {Max(s)}], order[Max(s)])
    <3>1. Max(s) \in 1 .. n
      BY <1>2, <2>3, GreatestIndex
    <3>2. f[s \ {Max(s)}] \in S
      BY <2>1 DEF IsFold
    <3> HIDE DEF S, step
    <3> QED
      BY <2>2, <3>1, <3>2
  <2>4. f = [s \in SUBSET (1 .. n) |->
                IF s = {} THEN base ELSE restoreQdisc(f[s \ {Max(s)}], order[Max(s)])]
    <3> HIDE DEF S, step
    <3> QED
      BY <2>1, <2>3 DEF IsFold
  <2>5. iter = [s \in SUBSET (1 .. n) |->
                IF s = {} THEN base ELSE restoreQdisc(iter[s \ {Max(s)}], order[Max(s)])]
    BY <2>4
  <2> HIDE DEF iter, step, S
  <2>6. iter[{}] = base
    BY <2>5
  <2>7. ASSUME NEW i \in 1 .. n
        PROVE  iter[1 .. i] = restoreQdisc(iter[1 .. i - 1], order[i])
    <3>1. /\ 1 .. i \in SUBSET (1 .. n) /\ 1 .. i # {}
          /\ Max(1 .. i) = i /\ (1 .. i) \ {Max(1 .. i)} = 1 .. i - 1
      BY <1>2, FoldSteps
    <3> QED
      BY <2>5, <3>1
  <2> QED
    BY <2>2, <2>6, <2>7 DEF FoldsBy
<1> HIDE DEF iter
<1>8. <<0, base>> \in Inv
  <2>1. seen(0) = {}
    OBVIOUS
  <2>2. Good(0, base)
    BY <2>1
  <2> HIDE DEF Good, S, base
  <2> QED
    BY <1>5, <2>2
<1>9. ASSUME NEW k \in 1 .. n, NEW s \in S, <<k - 1, s>> \in Inv
      PROVE  <<k, step[<<s, k>>]>> \in Inv
  <2> DEFINE i == e[k]
             q == qs[i]
             t == restoreQdisc(s, q)
  <2>1. i \in DOMAIN qs /\ q \in K /\ order[k] = q
    BY <1>2
  <2>2. /\ i \notin seen(k - 1)
        /\ isRootQdisc(q) \/ Owners(qs, q) \subseteq seen(k - 1)
    BY <1>1, <1>2 DEF ParentsFirst
  <2>3. seen(k) = seen(k - 1) \cup {i} /\ seen(k) \subseteq DOMAIN qs /\ k \in Nat
    <3>1. 1 .. k = (1 .. k - 1) \cup {k} /\ 1 .. k \subseteq 1 .. n /\ k \in Nat
      BY <1>2
    <3> QED
      BY <1>2, <3>1
  <2>4. Good(k - 1, s)
    BY <1>9
  <2>5. step[<<s, k>>] = t
    BY <2>1
  <2>6. /\ t \in S
        /\ ~restored(i) => t = s
        /\ restored(i) /\ Attachable(s.live, q) => t.live = Replace(s.live, q) /\ t.failed = s.failed
    <3>1. restored(i) <=> ~shouldSkipQdiscOnRestore(q)
      OBVIOUS
    <3>2. s \in [live : SUBSET K, failed : SUBSET K]
      OBVIOUS
    <3> HIDE DEF q, restored, Good, S, Inv, step, seen, next, base, i
    <3>3. /\ restoreQdisc(s, q) \in [live : SUBSET K, failed : SUBSET K]
          /\ shouldSkipQdiscOnRestore(q) => restoreQdisc(s, q) = s
          /\ ~shouldSkipQdiscOnRestore(q) /\ Attachable(s.live, q) =>
                /\ restoreQdisc(s, q).live = Replace(s.live, q)
                /\ restoreQdisc(s, q).failed = s.failed
      BY <2>1, <3>2, QdiscRestored
    <3> QED
      BY <3>1, <3>3 DEF S
  <2> HIDE DEF seen, t, step, S
  <2>7. CASE ~restored(i)
    <3>1. t = s
      BY <2>6, <2>7
    <3>2. Good(k, s)
      BY <2>3, <2>4, <2>7
    <3> QED
      BY <2>3, <2>5, <2>6, <3>1, <3>2
  <2>8. CASE restored(i) /\ isRootQdisc(q)
    <3>1. Attachable(s.live, q) /\ Replace(s.live, q) = {q}
      BY <2>8 DEF Attachable, Replace
    <3>2. \A j \in seen(k - 1) : ~restored(j)
      BY <2>1, <2>2, <2>4, <2>8
    <3>3. ~rootStays
      BY <2>1, <2>8
    <3>4. \A r \in DOMAIN qs : isRootQdisc(qs[r]) => r = i
      BY <2>1, <2>8 DEF Replayable, isRootQdisc
    <3>5. t.live = {q} /\ t.failed = {}
      BY <2>4, <2>6, <2>8, <3>1
    <3>6. Good(k, t)
      BY <2>3, <3>2, <3>3, <3>4, <3>5
    <3> QED
      BY <2>3, <2>5, <2>6, <3>6
  <2>9. CASE restored(i) /\ ~isRootQdisc(q)
    <3> HIDE DEF i
    <3>1. /\ Replace(s.live, q) = {p \in s.live : p.parent # q.parent} \cup {q}
          /\ \A p : isRootQdisc(p) => p.parent # q.parent
      BY <2>9 DEF Replace, isRootQdisc
    <3>2. \/ \E j \in Owners(qs, q) : restored(j)
          \/ rootStays /\ \E p \in live : isRootQdisc(p) /\ p.handle # 0 /\ p.handle = q.parent[1]
      BY <2>1, <2>9 DEF Replayable
    <3>3. \A j \in Owners(qs, q) : j \in seen(k - 1) /\ qs[j].handle # 0 /\ qs[j].handle = q.parent[1]
      BY <2>2, <2>9 DEF Owners
    <3>4. Attachable(s.live, q)
      BY <2>4, <3>2, <3>3 DEF Attachable
    <3>5. t.live = {p \in s.live : p.parent # q.parent} \cup {q} /\ t.failed = {}
      BY <2>4, <2>6, <2>9, <3>1, <3>4
    <3>6. \A j \in seen(k - 1) : qs[j].parent # q.parent
      BY <2>1, <2>2, <2>3 DEF Replayable
    <3>7. \A j \in seen(k) : restored(j) => qs[j] \in t.live
      BY <2>3, <2>4, <3>5, <3>6
    <3>8. rootStays => \A p \in live : isRootQdisc(p) => p \in t.live
      BY <2>4, <3>1, <3>5
    <3>9. \A r \in DOMAIN qs : restored(r) /\ isRootQdisc(qs[r]) => r \in seen(k)
      <4>1. ASSUME NEW r \in DOMAIN qs, restored(r), isRootQdisc(qs[r]) PROVE r \in seen(k)
        <5>1. ~rootStays
          BY <4>1
        <5>2. PICK j \in Owners(qs, q) : restored(j)
          BY <3>2, <5>1
        <5> QED
          BY <2>3, <2>4, <3>3, <4>1, <5>2
      <4> QED
        BY <4>1
    <3>10. Good(k, t)
      BY <3>5, <3>7, <3>8, <3>9
    <3> HIDE DEF Good
    <3> QED
      BY <2>3, <2>5, <2>6, <3>10
  <2> QED
    BY <2>7, <2>8, <2>9
<1>10. iter[1 .. n] \in S /\ <<n, iter[1 .. n]>> \in Inv
  <2> HIDE DEF S, step, Inv, base
  <2>1. KeptBy(Inv, n, S, base, step)
    BY <1>8, <1>9 DEF KeptBy
  <2>2. LeadsTo(iter, n, S, Inv)
    BY <1>6, <1>7, <2>1, FoldKeeps
  <2> QED
    BY <2>2 DEF LeadsTo
<1>11. Good(n, iter[1 .. n])
  BY <1>10
<1> QED
  BY <1>3, <1>4, <1>11

(* The children of the saved root move to the handle of its counterpart.   *)
Reanchored(saved, r, p) ==
    [i \in DOMAIN saved |->
        IF i # r /\ saved[i].parent[1] = saved[r].handle
        THEN [kind |-> saved[i].kind, handle |-> saved[i].handle,
              parent |-> <<p.handle, saved[i].parent[2]>>]
        ELSE saved[i]]

LEMMA ReanchorMoves ==
    ASSUME NEW K, NEW saved \in Seq(Qdiscs(K)), NEW r \in DOMAIN saved,
           \A i \in DOMAIN saved : isRootQdisc(saved[i]) <=> i = r,
           isKernelAutoManaged(saved[r].kind),
           NEW claimed, NEW p, {x \in claimed : isRootQdisc(x)} = {p}, p.kind = saved[r].kind
    PROVE  reAnchorAutoManagedParents(saved, claimed) = Reanchored(saved, r, p)
<1> DEFINE rewrite == buildAutoManagedRewriteMap(saved, claimed)
           from == saved[r].handle
           moved == <<from, p.handle>>
<1>1. rewrite = {moved}
  <2>1. {x \in ToSet(saved) \X claimed :
            /\ isRootQdisc(x[1]) /\ isKernelAutoManaged(x[1].kind)
            /\ isRootQdisc(x[2]) /\ x[2].kind = x[1].kind} = {<<saved[r], p>>}
    <3>1. \A q \in ToSet(saved) : isRootQdisc(q) <=> q = saved[r]
      BY DEF ToSet
    <3>2. saved[r] \in ToSet(saved) /\ p \in claimed /\ \A q \in claimed : isRootQdisc(q) <=> q = p
      BY DEF ToSet
    <3> QED
      BY <3>1, <3>2
  <2> DEFINE x == <<saved[r], p>>
  <2>2. {<<y[1].handle, y[2].handle>> : y \in {x}} = {<<x[1].handle, x[2].handle>>}
    OBVIOUS
  <2>3. x[1].handle = from /\ x[2].handle = p.handle
    OBVIOUS
  <2> HIDE DEF x, from
  <2> QED
    BY <2>1, <2>2, <2>3 DEF buildAutoManagedRewriteMap, x
<1>2. (CHOOSE x \in {moved} : x[1] = from) = moved /\ moved[1] = from /\ moved[2] = p.handle
  OBVIOUS
<1> HIDE DEF rewrite
<1>3. reAnchorAutoManagedParents(saved, claimed) = applyParentRewrites(saved, {moved})
  BY <1>1 DEF reAnchorAutoManagedParents, rewrite
<1>4. ASSUME NEW i \in DOMAIN saved
      PROVE  /\ saved[i] \in Qdiscs(K)
             /\ (~\E x \in {moved} : x[1] = saved[i].parent[1]) <=> saved[i].parent[1] # from
             /\ saved[i].parent[1] = from =>
                    (CHOOSE x \in {moved} : x[1] = saved[i].parent[1])[2] = p.handle
  <2>1. saved[i] \in Qdiscs(K)
    OBVIOUS
  <2> DEFINE major == saved[i].parent[1]
  <2> HIDE DEF major, moved, from
  <2>2. (~\E x \in {moved} : x[1] = major) <=> major # from
    BY <1>2
  <2>3. major = from => (CHOOSE x \in {moved} : x[1] = major)[2] = p.handle
    BY <1>2
  <2> QED
    BY <2>1, <2>2, <2>3 DEF major
<1>5. ASSUME NEW i \in DOMAIN saved, NEW to, NEW minor
      PROVE  [saved[i] EXCEPT !.parent = <<to, minor>>]
                = [kind |-> saved[i].kind, handle |-> saved[i].handle, parent |-> <<to, minor>>]
  <2>1. saved[i] \in Qdiscs(K)
    BY <1>4
  <2> DEFINE q == saved[i]
             place == <<to, minor>>
  <2>2. q \in Qdiscs(K)
    BY <2>1
  <2> HIDE DEF q, place
  <2>3. [q EXCEPT !.parent = place] = [kind |-> q.kind, handle |-> q.handle, parent |-> place]
    BY <2>2 DEF Qdiscs
  <2> QED
    BY <2>3 DEF q, place
<1> HIDE DEF moved, from
<1> DEFINE left(i) ==
               IF isRootQdisc(saved[i]) \/ ~\E x \in {moved} : x[1] = saved[i].parent[1] THEN saved[i]
               ELSE [saved[i] EXCEPT !.parent =
                        <<(CHOOSE x \in {moved} : x[1] = saved[i].parent[1])[2], saved[i].parent[2]>>]
           right(i) ==
               IF i # r /\ saved[i].parent[1] = from
               THEN [kind |-> saved[i].kind, handle |-> saved[i].handle,
                     parent |-> <<p.handle, saved[i].parent[2]>>]
               ELSE saved[i]
<1>6. \A i \in DOMAIN saved : left(i) = right(i)
  BY <1>4, <1>5
<1>7. applyParentRewrites(saved, {moved}) = [i \in DOMAIN saved |-> left(i)]
  BY DEF applyParentRewrites
<1>8. Reanchored(saved, r, p) = [i \in DOMAIN saved |-> right(i)]
  BY DEF Reanchored, from
<1> HIDE DEF left, right
<1> QED
  BY <1>3, <1>6, <1>7, <1>8

(* Below a root of another kind nothing moves.                             *)
LEMMA ReanchorKeeps ==
    ASSUME NEW K, NEW saved \in Seq(Qdiscs(K)), NEW claimed,
           \A q \in ToSet(saved) : isRootQdisc(q) => ~isKernelAutoManaged(q.kind)
    PROVE  reAnchorAutoManagedParents(saved, claimed) = saved
<1>1. buildAutoManagedRewriteMap(saved, claimed) = {}
  BY DEF buildAutoManagedRewriteMap
<1>2. reAnchorAutoManagedParents(saved, claimed) = [i \in DOMAIN saved |-> saved[i]]
  BY <1>1 DEF reAnchorAutoManagedParents, applyParentRewrites
<1>3. saved = [i \in DOMAIN saved |-> saved[i]]
  OBVIOUS
<1> QED
  BY <1>2, <1>3

(* The root the kernel attached after the deletion in the place of one     *)
(* that it manages has a hidden handle or a free one.                      *)
Freed(saved, p) ==
    \A j \in DOMAIN saved : ~isRootQdisc(saved[j]) => saved[j].handle = 0 \/ saved[j].handle # p.handle
Reattached(saved, live) ==
    \A i \in DOMAIN saved : isRootQdisc(saved[i]) /\ isKernelAutoManaged(saved[i].kind) =>
        \E p : /\ {x \in live : isRootQdisc(x)} = {p}
               /\ p.kind = saved[i].kind /\ Freed(saved, p)

(* A root whose handle was claimed has it, unless that failed.             *)
LEMMA ClaimedRoot ==
    ASSUME NEW K, NEW saved \in Seq(Qdiscs(K)), IsListing(saved),
           NEW live \in SUBSET Qdiscs(K), Reattached(saved, live),
           NEW r \in DOMAIN saved, isRootQdisc(saved[r]), isKernelAutoManaged(saved[r].kind),
           NEW fails, fails => \E q \in live : isRootQdisc(q) /\ q.handle # 0
    PROVE  \E p \in Qdiscs(K) :
              /\ {x \in claimAutoManagedRootHandles(live, saved, fails) : isRootQdisc(x)} = {p}
              /\ p.kind = saved[r].kind /\ Freed(saved, p)
              /\ saved[r].handle # 0 => p.handle # 0
<1> DEFINE claimed == claimAutoManagedRootHandles(live, saved, fails)
           roots == {q \in ToSet(saved) : shouldClaimRoot(q)}
<1>1. \A i \in DOMAIN saved : isRootQdisc(saved[i]) <=> i = r
  BY DEF IsListing, isRootQdisc
<1>2. claimed = IF roots = {} \/ fails THEN live ELSE roots
  BY DEF claimAutoManagedRootHandles
<1>3. saved[r] \in roots <=> saved[r].handle # 0
  BY DEF shouldClaimRoot, ToSet
<1>4. \A q \in roots : q = saved[r]
  BY <1>1 DEF shouldClaimRoot, ToSet
<1> HIDE DEF claimed, roots
<1>5. CASE roots = {} \/ fails
  <2>1. PICK p : /\ {x \in live : isRootQdisc(x)} = {p}
                 /\ p.kind = saved[r].kind /\ Freed(saved, p)
    BY DEF Reattached
  <2>2. p \in Qdiscs(K)
    BY <2>1
  <2>3. saved[r].handle # 0 => p.handle # 0
    BY <1>3, <1>5, <2>1
  <2> QED
    BY <1>2, <1>5, <2>1, <2>2, <2>3 DEF claimed
<1>6. CASE ~(roots = {} \/ fails)
  <2>1. claimed = {saved[r]} /\ saved[r].handle # 0
    BY <1>2, <1>3, <1>4, <1>6
  <2>2. {x \in claimed : isRootQdisc(x)} = {saved[r]}
    BY <2>1
  <2>3. Freed(saved, saved[r])
    BY <1>1 DEF Freed, IsListing
  <2>4. saved[r] \in Qdiscs(K)
    OBVIOUS
  <2> QED
    BY <2>1, <2>2, <2>3, <2>4 DEF claimed
<1> QED
  BY <1>5, <1>6

(* A listing whose root was tuned can be replayed as it is.                *)
LEMMA ListingReplayable ==
    ASSUME NEW K, NEW saved \in Seq(Qdiscs(K)), IsListing(saved), NEW live,
           \A q \in ToSet(saved) : isRootQdisc(q) => ~isKernelAutoManaged(q.kind)
    PROVE  Rooted(saved) /\ Replayable(saved, live)
<1>1. \A i \in DOMAIN saved : saved[i] \in Qdiscs(K) /\ saved[i] \in ToSet(saved)
  BY DEF ToSet
<1>2. Rooted(saved)
  BY DEF Rooted, IsListing
<1>3. \A i, j \in DOMAIN saved : i # j => saved[i].parent # saved[j].parent
  BY DEF IsListing
<1>4. ASSUME NEW i \in DOMAIN saved, ~isRootQdisc(saved[i]), ~shouldSkipQdiscOnRestore(saved[i])
      PROVE  \E j \in Owners(saved, saved[i]) : ~shouldSkipQdiscOnRestore(saved[j])
  <2>1. saved[i].parent[1] # 0
    BY <1>4 DEF shouldSkipQdiscOnRestore
  <2>2. PICK j \in DOMAIN saved :
            /\ saved[j].handle = saved[i].parent[1]
            /\ isRootQdisc(saved[j]) \/ ~isKernelAutoManaged(saved[j].kind)
    BY <1>4 DEF IsListing
  <2>3. j \in Owners(saved, saved[i]) /\ ~isKernelAutoManaged(saved[j].kind)
    BY <1>1, <2>1, <2>2 DEF Owners
  <2>4. isRootQdisc(saved[j]) \/ saved[j].parent[1] # 0
    <3> SUFFICES ASSUME ~isRootQdisc(saved[j]), saved[j].parent[1] = 0 PROVE FALSE
      OBVIOUS
    <3>1. PICK k \in DOMAIN saved :
            saved[k].handle = saved[j].parent[1] /\ (saved[k].handle = 0 => saved[j].handle = 0)
      BY DEF IsListing
    <3> QED
      BY <2>1, <2>2, <3>1
  <2> QED
    BY <2>3, <2>4 DEF shouldSkipQdiscOnRestore
<1> QED
  BY <1>2, <1>3, <1>4 DEF Replayable

(* Otherwise it can be replayed after its children were moved: they are    *)
(* in places of their own, because the live root's handle is no other's.   *)
LEMMA ReanchoredReplayable ==
    ASSUME NEW K, NEW saved \in Seq(Qdiscs(K)), IsListing(saved),
           NEW r \in DOMAIN saved, isRootQdisc(saved[r]), isKernelAutoManaged(saved[r].kind),
           NEW live, NEW p \in live, isRootQdisc(p), p \in Qdiscs(K),
           Freed(saved, p), saved[r].handle # 0 => p.handle # 0
    PROVE  /\ Reanchored(saved, r, p) \in Seq(Qdiscs(K))
           /\ Rooted(Reanchored(saved, r, p))
           /\ Replayable(Reanchored(saved, r, p), live)
<1> DEFINE qs == Reanchored(saved, r, p)
           from == saved[r].handle
           to == p.handle
           D == DOMAIN saved
           movedTo(i) == i # r /\ saved[i].parent[1] = from
<1>1. /\ \A i \in D : isRootQdisc(saved[i]) <=> i = r
      /\ \A i \in D : saved[i] \in Qdiscs(K)
      /\ \A i, j \in D : i # j => saved[i].parent # saved[j].parent
      /\ from \in Nat /\ to \in Nat
  <2>1. \A i \in D : isRootQdisc(saved[i]) <=> i = r
    BY DEF IsListing, isRootQdisc
  <2>2. from \in Nat /\ to \in Nat /\ \A i \in D : saved[i] \in Qdiscs(K)
    <3>1. \A i \in D : saved[i] \in Qdiscs(K)
      OBVIOUS
    <3> QED
      BY <3>1 DEF Qdiscs
  <2> QED
    BY <2>1, <2>2 DEF IsListing
<1>2. ASSUME NEW i \in D, i # r
      PROVE  /\ saved[i].parent \in Nat \X Nat
             /\ saved[i].parent = <<saved[i].parent[1], saved[i].parent[2]>>
  <2>1. saved[i].parent \in {Root} \cup (Nat \X Nat) /\ saved[i].parent # Root
    BY <1>1, <1>2 DEF Qdiscs, isRootQdisc
  <2> DEFINE place == saved[i].parent
  <2> HIDE DEF place
  <2>2. place \in Nat \X Nat
    BY <2>1 DEF place
  <2>3. place = <<place[1], place[2]>>
    BY <2>2
  <2> QED
    BY <2>2, <2>3 DEF place
<1>3. ASSUME NEW i \in D
      PROVE  /\ movedTo(i) => qs[i] = [kind |-> saved[i].kind, handle |-> saved[i].handle,
                                       parent |-> <<to, saved[i].parent[2]>>]
             /\ ~movedTo(i) => qs[i] = saved[i]
  BY DEF Reanchored
<1>4. DOMAIN qs = D
  BY DEF Reanchored
<1>5. ASSUME NEW i \in D
      PROVE  /\ qs[i] \in Qdiscs(K) /\ qs[i].kind = saved[i].kind /\ qs[i].handle = saved[i].handle
             /\ isRootQdisc(qs[i]) <=> i = r
             /\ movedTo(i) => qs[i].parent = <<to, saved[i].parent[2]>> /\ qs[i].parent[1] = to
             /\ ~movedTo(i) => qs[i].parent = saved[i].parent
  <2>1. CASE ~movedTo(i)
    BY <1>1, <1>3, <2>1
  <2>2. CASE movedTo(i)
    <3> DEFINE minor == saved[i].parent[2]
               place == <<to, minor>>
    <3>1. minor \in Nat /\ saved[i].kind \in K /\ saved[i].handle \in Nat
      BY <1>1, <1>2, <2>2 DEF Qdiscs
    <3>2. place \in Nat \X Nat /\ place[1] = to
      BY <1>1, <3>1
    <3>3. place # Root
      BY <1>1, <3>2 DEF Root
    <3>4. qs[i] = [kind |-> saved[i].kind, handle |-> saved[i].handle, parent |-> place]
      BY <1>3, <2>2
    <3> HIDE DEF qs, place
    <3>5. qs[i] \in Qdiscs(K) /\ qs[i].kind = saved[i].kind /\ qs[i].handle = saved[i].handle
          /\ qs[i].parent = place
      BY <3>1, <3>2, <3>4 DEF Qdiscs
    <3> QED
      BY <2>2, <3>2, <3>3, <3>5 DEF isRootQdisc, place
  <2> QED
    BY <2>1, <2>2
<1>6. qs \in Seq(Qdiscs(K))
  <2>1. PICK n \in Nat : D = 1 .. n
    OBVIOUS
  <2>2. \E f : qs = [i \in D |-> f[i]]
    <3> DEFINE f == [i \in D |-> qs[i]]
    <3>1. qs = [i \in D |-> f[i]]
      BY DEF Reanchored
    <3> QED
      BY <3>1
  <2> HIDE DEF qs, D
  <2>3. qs \in [1 .. n -> Qdiscs(K)]
    BY <1>4, <1>5, <2>1, <2>2
  <2> QED
    BY <2>1, <2>3
<1> HIDE DEF qs, D, from, to
<1>7. ASSUME NEW i \in D, i # r, ~movedTo(i) PROVE saved[i].parent[1] # to \/ to = from
  <2>1. PICK j \in D : /\ saved[j].handle = saved[i].parent[1]
                       /\ saved[j].handle = 0 => isRootQdisc(saved[j])
    BY <1>1, <1>7 DEF IsListing, D
  <2>2. j # r
    BY <1>7, <2>1 DEF from
  <2> QED
    BY <1>1, <2>1, <2>2 DEF Freed, D, to
<1>8. \A i, j \in D : i # j => qs[i].parent # qs[j].parent
  <2> SUFFICES ASSUME NEW i \in D, NEW j \in D, i # j, qs[i].parent = qs[j].parent,
                      movedTo(i) \/ ~movedTo(j)
               PROVE  FALSE
    BY <1>1
  <2>1. CASE movedTo(i) /\ movedTo(j)
    <3>1. <<to, saved[i].parent[2]>> = <<to, saved[j].parent[2]>>
      BY <1>5, <2>1
    <3>2. saved[i].parent[2] = saved[j].parent[2] /\ saved[i].parent[1] = saved[j].parent[1]
      BY <2>1, <3>1
    <3> QED
      BY <1>1, <1>2, <2>1, <3>2
  <2>2. CASE movedTo(i) /\ ~movedTo(j)
    <3>1. saved[j].parent = <<to, saved[i].parent[2]>>
      BY <1>5, <2>2
    <3>2. saved[j].parent[1] = to
      BY <3>1
    <3>3. j # r
      BY <1>5, <2>2 DEF isRootQdisc
    <3> QED
      BY <1>7, <2>2, <3>2, <3>3
  <2>3. CASE ~movedTo(i) /\ ~movedTo(j)
    BY <1>1, <1>5, <2>3
  <2> QED
    BY <2>1, <2>2, <2>3
<1>9. ASSUME NEW i \in D, i # r PROVE Owners(qs, qs[i]) \subseteq Owners(saved, saved[i])
  <2> SUFFICES ASSUME NEW j \in D, saved[j].handle # 0, saved[j].handle = qs[i].parent[1]
               PROVE  saved[j].handle = saved[i].parent[1]
    BY <1>4, <1>5 DEF Owners, D
  <2>1. CASE ~movedTo(i)
    BY <1>5, <2>1
  <2>2. CASE movedTo(i)
    <3>1. saved[j].handle = to
      BY <1>5, <2>2
    <3>2. j = r
      BY <1>1, <3>1 DEF Freed, D, to
    <3> QED
      BY <2>2, <3>2 DEF from
  <2> QED
    BY <2>1, <2>2
<1>10. Rooted(qs)
  <2> SUFFICES ASSUME NEW S \in SUBSET D, S # {}
               PROVE  \E i \in S : isRootQdisc(qs[i]) \/ Owners(qs, qs[i]) \cap S = {}
    BY <1>4 DEF Rooted
  <2>1. PICK i \in S : isRootQdisc(saved[i]) \/ Owners(saved, saved[i]) \cap S = {}
    BY DEF IsListing, D
  <2> QED
    BY <1>1, <1>5, <1>9, <2>1
<1>11. isKernelAutoManaged(qs[r].kind)
  BY <1>5 DEF D
<1>12. ASSUME NEW i \in D, i # r, ~shouldSkipQdiscOnRestore(qs[i])
       PROVE  \/ \E j \in Owners(qs, qs[i]) : ~shouldSkipQdiscOnRestore(qs[j])
              \/ p.handle # 0 /\ p.handle = qs[i].parent[1]
  <2>1. qs[i].parent[1] # 0
    BY <1>5, <1>12 DEF shouldSkipQdiscOnRestore
  <2>2. CASE movedTo(i)
    BY <1>5, <2>1, <2>2 DEF to
  <2>3. CASE ~movedTo(i)
    <3>1. PICK j \in D : /\ saved[j].handle = saved[i].parent[1]
                         /\ isRootQdisc(saved[j]) \/ ~isKernelAutoManaged(saved[j].kind)
      BY <1>1, <1>12 DEF IsListing, D
    <3>2. j # r
      BY <1>12, <2>3, <3>1 DEF from
    <3>3. j \in Owners(qs, qs[i]) /\ ~isKernelAutoManaged(qs[j].kind)
      BY <1>1, <1>4, <1>5, <2>1, <2>3, <3>1, <3>2 DEF Owners
    <3>4. saved[j].parent[1] # 0
      <4>1. PICK k \in D : saved[k].handle = saved[j].parent[1]
                           /\ (saved[k].handle = 0 => saved[j].handle = 0)
        BY <1>1, <3>2 DEF IsListing, D
      <4> QED
        BY <1>5, <2>1, <2>3, <3>1, <4>1
    <3>5. qs[j].parent[1] # 0
      <4>1. CASE movedTo(j)
        BY <1>5, <3>4, <4>1 DEF from, to
      <4>2. CASE ~movedTo(j)
        BY <1>5, <3>4, <4>2
      <4> QED
        BY <4>1, <4>2
    <3> QED
      BY <3>3, <3>5 DEF shouldSkipQdiscOnRestore
  <2> QED
    BY <2>2, <2>3
<1>13. Replayable(qs, live)
  BY <1>4, <1>5, <1>8, <1>11, <1>12 DEF Replayable, shouldSkipQdiscOnRestore
<1> QED
  BY <1>6, <1>10, <1>13 DEF qs

(* Every tuned qdisc of a listing, in whatever order that is, is in its    *)
(* class of what it was below after the replay, and none failed, unless    *)
(* the kernel refuses the saved handle of a root whose own one it hides.   *)
THEOREM TreeTheorem ==
    ASSUME NEW K, NEW saved \in Seq(Qdiscs(K)), IsListing(saved),
           NEW live \in SUBSET Qdiscs(K), Reattached(saved, live),
           NEW fails, fails => \E q \in live : isRootQdisc(q) /\ q.handle # 0
    PROVE  LET after == restoreSnapshot(live, saved, fails)
           IN  /\ after.failed = {}
               /\ \A q \in Tuned(saved) : \E p \in after.live :
                    RestoredAs(q, p, saved, after.live)
<1> DEFINE claimed == claimAutoManagedRootHandles(live, saved, fails)
           qs == reAnchorAutoManagedParents(saved, claimed)
           after == restoreInterfaceQdiscs(claimed, qs)
<1>1. restoreSnapshot(live, saved, fails) = after
  BY DEF restoreSnapshot
<1>2. claimed \in SUBSET Qdiscs(K)
  <2>1. ToSet(saved) \subseteq Qdiscs(K)
    BY DEF ToSet
  <2> QED
    BY <2>1 DEF claimAutoManagedRootHandles
<1>3. PICK r \in DOMAIN saved : isRootQdisc(saved[r])
  BY DEF IsListing
<1>4. \A i \in DOMAIN saved : saved[i] \in Qdiscs(K) /\ (isRootQdisc(saved[i]) <=> i = r)
  BY <1>3 DEF IsListing, isRootQdisc
<1> DEFINE tuned(i) == ~isKernelAutoManaged(saved[i].kind) /\ saved[i].parent[1] # 0
           stays == \A i \in DOMAIN qs : isRootQdisc(qs[i]) => shouldSkipQdiscOnRestore(qs[i])
           IsParent(i, now) ==
                now.handle = qs[i].parent[1] /\ now.handle # 0 /\
                \E above \in ToSet(saved) :
                    /\ above.handle = saved[i].parent[1] /\ now.kind = above.kind
                    /\ isRootQdisc(now) <=> isRootQdisc(above)
<1> HIDE DEF claimed, qs
(* What a tuned qdisc is below is tuned itself, or it is the root.         *)
<1>5. ASSUME NEW i \in DOMAIN saved, i # r, tuned(i)
      PROVE  \E j \in DOMAIN saved :
                saved[j].handle = saved[i].parent[1] /\ (j = r \/ tuned(j))
  <2>1. PICK j \in DOMAIN saved :
            /\ saved[j].handle = saved[i].parent[1]
            /\ isRootQdisc(saved[j]) \/ ~isKernelAutoManaged(saved[j].kind)
    BY <1>4, <1>5 DEF IsListing
  <2>2. ASSUME j # r, saved[j].parent[1] = 0 PROVE FALSE
    <3>1. PICK l \in DOMAIN saved :
              /\ saved[l].handle = saved[j].parent[1]
              /\ saved[l].handle = 0 => isRootQdisc(saved[l]) /\ saved[j].handle = 0
      BY <1>4, <2>2 DEF IsListing
    <3> QED
      BY <1>5, <2>1, <2>2, <3>1
  <2> QED
    BY <1>4, <2>1, <2>2
<1>6. /\ qs \in Seq(Qdiscs(K)) /\ Rooted(qs) /\ Replayable(qs, claimed)
      /\ DOMAIN qs = DOMAIN saved
      /\ \A i \in DOMAIN saved : tuned(i) =>
            /\ ~shouldSkipQdiscOnRestore(qs[i])
            /\ qs[i].kind = saved[i].kind /\ qs[i].handle = saved[i].handle
            /\ qs[i].parent[2] = saved[i].parent[2]
            /\ \/ i = r
               \/ \E j \in DOMAIN saved : tuned(j) /\ IsParent(i, qs[j])
               \/ stays /\ \E p \in claimed : isRootQdisc(p) /\ IsParent(i, p)
  <2>1. CASE isKernelAutoManaged(saved[r].kind)
    <3>1. PICK p \in Qdiscs(K) :
              /\ {x \in claimed : isRootQdisc(x)} = {p}
              /\ p.kind = saved[r].kind /\ Freed(saved, p)
              /\ saved[r].handle # 0 => p.handle # 0
      BY <1>3, <2>1, ClaimedRoot DEF claimed
    <3>2. qs = Reanchored(saved, r, p)
      BY <1>4, <2>1, <3>1, ReanchorMoves DEF qs
    <3>3. p \in claimed /\ isRootQdisc(p) /\ p.handle \in Nat
      BY <3>1 DEF Qdiscs
    <3>4. qs \in Seq(Qdiscs(K)) /\ Rooted(qs) /\ Replayable(qs, claimed)
      BY <1>3, <2>1, <3>1, <3>2, <3>3, ReanchoredReplayable
    <3>5. DOMAIN qs = DOMAIN saved
      BY <3>2 DEF Reanchored
    <3>6. ASSUME NEW i \in DOMAIN saved
          PROVE  /\ qs[i].kind = saved[i].kind /\ qs[i].handle = saved[i].handle
                 /\ qs[i].parent[2] = saved[i].parent[2]
                 /\ isRootQdisc(qs[i]) <=> isRootQdisc(saved[i])
                 /\ qs[i].parent[1] = IF i # r /\ saved[i].parent[1] = saved[r].handle
                                      THEN p.handle ELSE saved[i].parent[1]
      <4>1. CASE i # r /\ saved[i].parent[1] = saved[r].handle
        <5> DEFINE minor == saved[i].parent[2]
        <5>1. qs[i] = [kind |-> saved[i].kind, handle |-> saved[i].handle,
                       parent |-> <<p.handle, minor>>]
          BY <3>2, <4>1 DEF Reanchored
        <5> HIDE DEF minor
        <5>2. /\ qs[i].kind = saved[i].kind /\ qs[i].handle = saved[i].handle
              /\ qs[i].parent = <<p.handle, minor>>
          BY <5>1
        <5>3. <<p.handle, minor>> # Root
          BY <3>3 DEF Root
        <5> QED
          BY <1>4, <4>1, <5>2, <5>3 DEF isRootQdisc, minor
      <4>2. CASE ~(i # r /\ saved[i].parent[1] = saved[r].handle)
        <5>1. qs[i] = saved[i]
          BY <3>2, <4>2 DEF Reanchored
        <5> QED
          BY <4>2, <5>1
      <4> QED
        BY <4>1, <4>2
    <3>7. stays
      BY <1>4, <2>1, <3>5, <3>6 DEF shouldSkipQdiscOnRestore
    <3>8. ASSUME NEW i \in DOMAIN saved, tuned(i)
          PROVE  /\ ~shouldSkipQdiscOnRestore(qs[i])
                 /\ \/ \E j \in DOMAIN saved : tuned(j) /\ IsParent(i, qs[j])
                    \/ IsParent(i, p)
      <4>1. i # r
        BY <2>1, <3>8
      <4>2. saved[i].parent[1] = saved[r].handle => p.handle # 0
        BY <3>1, <3>8
      <4>3. ~shouldSkipQdiscOnRestore(qs[i])
        BY <3>6, <3>8, <4>2 DEF shouldSkipQdiscOnRestore
      <4>4. CASE saved[i].parent[1] = saved[r].handle
        <5>1. saved[r] \in ToSet(saved)
          BY DEF ToSet
        <5>2. IsParent(i, p)
          BY <1>3, <3>1, <3>3, <3>6, <4>1, <4>2, <4>4, <5>1
        <5> QED
          BY <4>3, <5>2
      <4>5. CASE saved[i].parent[1] # saved[r].handle
        <5>1. PICK j \in DOMAIN saved : saved[j].handle = saved[i].parent[1] /\ tuned(j)
          BY <1>5, <3>8, <4>1, <4>5
        <5>2. saved[j] \in ToSet(saved)
          BY DEF ToSet
        <5>3. IsParent(i, qs[j])
          BY <3>6, <3>8, <4>5, <5>1, <5>2
        <5> QED
          BY <4>3, <5>1, <5>3
      <4> QED
        BY <4>4, <4>5
    <3> HIDE DEF tuned, stays, IsParent
    <3> QED
      BY <3>3, <3>4, <3>5, <3>6, <3>7, <3>8
  <2>2. CASE ~isKernelAutoManaged(saved[r].kind)
    <3>1. \A q \in ToSet(saved) : isRootQdisc(q) => ~isKernelAutoManaged(q.kind)
      BY <1>4, <2>2 DEF ToSet
    <3>2. qs = saved
      BY <3>1, ReanchorKeeps DEF qs
    <3>3. Rooted(qs) /\ Replayable(qs, claimed)
      BY <3>1, <3>2, ListingReplayable
    <3>4. ASSUME NEW i \in DOMAIN saved, tuned(i), i # r
          PROVE  \E j \in DOMAIN saved : tuned(j) /\ IsParent(i, qs[j])
      <4>1. PICK j \in DOMAIN saved :
                saved[j].handle = saved[i].parent[1] /\ (j = r \/ tuned(j))
        BY <1>5, <3>4
      <4>2. tuned(r)
        BY <1>3, <2>2 DEF isRootQdisc, Root
      <4>3. saved[j] \in ToSet(saved)
        BY DEF ToSet
      <4>4. IsParent(i, qs[j])
        BY <3>2, <3>4, <4>1, <4>3
      <4> QED
        BY <4>1, <4>2, <4>4
    <3>5. ASSUME NEW i \in DOMAIN saved, tuned(i) PROVE ~shouldSkipQdiscOnRestore(qs[i])
      BY <3>2, <3>5 DEF shouldSkipQdiscOnRestore
    <3> HIDE DEF tuned, stays, IsParent
    <3> QED
      BY <3>2, <3>3, <3>4, <3>5
  <2> QED
    BY <2>1, <2>2
<1>7. /\ after.failed = {}
      /\ \A i \in DOMAIN qs : ~shouldSkipQdiscOnRestore(qs[i]) => qs[i] \in after.live
      /\ stays => \A p \in claimed : isRootQdisc(p) => p \in after.live
  BY <1>2, <1>6, ReplayRestores
<1> HIDE DEF after, stays
<1>8. ASSUME NEW q \in Tuned(saved)
      PROVE  \E p \in after.live : RestoredAs(q, p, saved, after.live)
  <2>1. PICK i \in DOMAIN saved : q = saved[i]
    BY <1>8 DEF Tuned, ToSet
  <2>2. tuned(i)
    BY <1>8, <2>1 DEF Tuned
  <2>3. /\ qs[i] \in after.live /\ qs[i].kind = q.kind /\ qs[i].handle = q.handle
        /\ qs[i].parent[2] = q.parent[2]
    BY <1>6, <1>7, <2>1, <2>2
  <2>4. i = r \/ \E now \in after.live : IsParent(i, now)
    <3> HIDE DEF tuned, IsParent
    <3> QED
      BY <1>6, <1>7, <2>2
  <2>5. RestoredAs(q, qs[i], saved, after.live)
    BY <1>3, <2>1, <2>3, <2>4 DEF RestoredAs
  <2> QED
    BY <2>3, <2>5
<1> QED
  BY <1>1, <1>7, <1>8
-----------------------------------------------------------------------------
(* The algorithms in the model: a behaviour is one input and, after its    *)
(* one step, the output of that algorithm.                                 *)
WideProofs == INSTANCE PortRangesProofs WITH PortBits <- MaxPortBits

LEMMA WidePow2 == WideProofs!Pow2 = Wide!Pow2
BY DEF Wide!Pow2, WideProofs!Pow2

LEMMA WideDefinitions ==
    /\ WideProofs!PortAssumption
    /\ Wide!PortLimit \in Nat
    /\ WideProofs!Ports = Wide!Ports /\ WideProofs!PortRange = Wide!PortRange
    /\ \A r : WideProofs!IsAny(r) <=> Wide!IsAny(r)
    /\ \A m : WideProofs!MaskedPorts(m) = Wide!MaskedPorts(m)
    /\ \A r : WideProofs!getMask(r) = Wide!getMask(r)
<1>1. WideProofs!PortAssumption
  BY WideAssumption DEF Wide!PortAssumption, WideProofs!PortAssumption
<1>2. WideProofs!PortLimit = Wide!PortLimit
  BY WidePow2 DEF Wide!PortLimit, WideProofs!PortLimit
<1>3. Wide!PortLimit \in Nat
  BY <1>1, <1>2, WideProofs!LimitIsNat
<1>4. WideProofs!Ports = Wide!Ports /\ WideProofs!PortRange = Wide!PortRange
  BY <1>2 DEF Wide!Ports, WideProofs!Ports, Wide!PortRange, WideProofs!PortRange
<1>5. ASSUME NEW r PROVE WideProofs!IsAny(r) <=> Wide!IsAny(r)
  BY <1>2 DEF Wide!IsAny, WideProofs!IsAny, Wide!PortRangeAny, WideProofs!PortRangeAny
<1>6. ASSUME NEW m PROVE WideProofs!MaskedPorts(m) = Wide!MaskedPorts(m)
  BY <1>4 DEF Wide!MaskedPorts, WideProofs!MaskedPorts
<1>7. ASSUME NEW port, NEW to PROVE WideProofs!portMask(port, to) = Wide!portMask(port, to)
  BY WidePow2 DEF Wide!portMask, WideProofs!portMask
<1>8. ASSUME NEW r PROVE WideProofs!getMask(r) = Wide!getMask(r)
  BY <1>2, <1>5, <1>7 DEF Wide!getMask, WideProofs!getMask
<1> QED
  BY <1>1, <1>3, <1>4, <1>5, <1>6, <1>8

MaskInv ==
    in.alg = "masks" =>
        /\ in.r \in Wide!PortRange /\ in.r.From <= in.r.To
        /\ out = NotRun \/ out = Wide!getMask(in.r)
OwnInv ==
    in.alg = "own" =>
        /\ in.port \in Ports \ {0} /\ in.health \in Ports
        /\ out = NotRun \/ out = ComputeExcludes({Prefix(5, 3)}, in.port, in.health)
FillInv ==
    in.alg = "fill" =>
        /\ in.opts.Size \in Nat /\ in.opts.BlockSize \in Int
        /\ in.disk.Capacity \in Nat /\ in.disk.Used \in Nat /\ in.disk.Available \in Nat
        /\ out = NotRun \/ out = Args(in.opts, in.disk)
DnsInv ==
    in.alg = "dns" =>
        /\ in.hostnames \in Seq({a, b, bad}) /\ in.digFails \in BOOLEAN
        /\ \E L : in.lines \in Seq(L)
        /\ out = NotRun \/ out = resolve(in.hostnames, in.lines, in.digFails)
BatchInv ==
    in.alg = "batch" =>
        /\ \E M : in.reports \in Seq(ReportsOf(M)) /\ in.rest \in Seq(TextLines(M))
        /\ \/ out = NotRun
           \/ out = filterBatchErrors(run(TRUE, FlattenSeq(in.reports) \o in.rest), in.mode)
FilterInv ==
    in.alg = "filter" =>
        /\ in.Include \in Seq(FilterNwps) /\ in.Exclude \in Seq(FilterNwps)
        /\ out = NotRun \/ out = AttackedEnds(in)
TreeKinds == {"fq", "fq_codel", "prio", "mq", "noqueue"}
SnapInv ==
    in.alg = "snapshot" =>
        /\ in.saved \in Seq(Qdiscs(TreeKinds)) /\ IsListing(in.saved)
        /\ in.live \in SUBSET Qdiscs(TreeKinds) /\ Reattached(in.saved, in.live)
        /\ \A q \in in.live : isRootQdisc(q)
        /\ out = NotRun \/ out = restoreSnapshot(in.live, in.saved, in.claimFails)
AlgorithmsInv == MaskInv /\ FilterInv /\ OwnInv /\ FillInv /\ DnsInv /\ BatchInv /\ SnapInv

LEMMA ListsAreSeqs ==
    ASSUME NEW S, NEW n \in Nat
    PROVE  Lists(S, n) \subseteq Seq(S)
<1> SUFFICES ASSUME NEW k \in 0 .. n, NEW s \in [1 .. k -> S] PROVE s \in Seq(S)
  BY DEF Lists
<1> QED
  OBVIOUS

LEMMA MaskInputsInit == in \in MaskInputs /\ out = NotRun => AlgorithmsInv
BY DEF MaskInputs, AlgorithmsInv, MaskInv, FilterInv, OwnInv, FillInv, DnsInv, BatchInv, SnapInv

LEMMA OwnInputsInit == in \in OwnInputs /\ out = NotRun => AlgorithmsInv
BY DEF OwnInputs, AlgorithmsInv, MaskInv, FilterInv, OwnInv, FillInv, DnsInv, BatchInv, SnapInv

LEMMA FillInputsInit == in \in FillInputs /\ out = NotRun => AlgorithmsInv
<1>1. in \in FillInputs /\ out = NotRun => in.alg = "fill" /\ FillInv
  BY DEF FillInputs, Disks, FillInv
<1> QED
  BY <1>1 DEF AlgorithmsInv, MaskInv, FilterInv, OwnInv, DnsInv, BatchInv, SnapInv

LEMMA DnsInputsInit == in \in DnsInputs /\ out = NotRun => AlgorithmsInv
<1> DEFINE L == {Message, Alias(a), Alias(b), Address(a, 1), Address(b, 2), Address(c, 3)}
           H == {a, b, bad}
<1> SUFFICES ASSUME in \in DnsInputs, out = NotRun PROVE AlgorithmsInv
  OBVIOUS
<1>1. /\ in.alg = "dns" /\ in.digFails \in BOOLEAN
      /\ in.hostnames \in Lists(H, 2) /\ in.lines \in Lists(L, 3)
  BY DEF DnsInputs
<1> HIDE DEF L, H
<1>2. in.hostnames \in Seq(H) /\ in.lines \in Seq(L)
  BY <1>1, ListsAreSeqs
<1>3. DnsInv
  BY <1>1, <1>2 DEF DnsInv, H
<1> QED
  BY <1>1, <1>3 DEF AlgorithmsInv, MaskInv, FilterInv, OwnInv, FillInv, BatchInv, SnapInv

LEMMA BatchInputsInit == in \in BatchInputs /\ out = NotRun => AlgorithmsInv
<1> DEFINE M == {"exists", "gone", "kernel", "other"}
<1> SUFFICES ASSUME in \in BatchInputs, out = NotRun PROVE AlgorithmsInv
  OBVIOUS
<1>1. in.alg = "batch" /\ in.reports \in Lists(Reports, 2) /\ in.rest \in {<<>>, <<Text("other")>>}
  BY DEF BatchInputs
<1>2. Reports \subseteq ReportsOf(M)
  <2>1. ASSUME NEW x \in M, NEW n \in {1, 2} PROVE <<Text(x), Command(n)>> \in ReportsOf(M)
    <3>1. Text(x) \in TextLines(M) /\ Command(n) \in CommandLines
      BY DEF TextLines, CommandLines, Text, Command
    <3> HIDE DEF M
    <3>2. <<Text(x), Command(n)>> \in Seq(Lines(M))
      BY <3>1 DEF Lines
    <3> DEFINE r == <<Text(x), Command(n)>>
    <3>3. Len(r) = 2 /\ r # <<>> /\ r[1] = Text(x) /\ r[2] = Command(n)
      OBVIOUS
    <3> HIDE DEF r
    <3>4. \A j \in 1 .. Len(r) - 1 : j = 1
      BY <3>3
    <3>5. r \in Seq(Lines(M))
      BY <3>2 DEF r
    <3> QED
      BY <3>1, <3>3, <3>4, <3>5 DEF ReportsOf, r
  <2>2. ASSUME NEW x \in M, NEW y \in M PROVE <<Text(x), Text(y), Command(1)>> \in ReportsOf(M)
    <3>1. Text(x) \in TextLines(M) /\ Text(y) \in TextLines(M) /\ Command(1) \in CommandLines
      BY DEF TextLines, CommandLines, Text, Command
    <3> HIDE DEF M
    <3>2. <<Text(x), Text(y), Command(1)>> \in Seq(Lines(M))
      BY <3>1 DEF Lines
    <3> DEFINE r == <<Text(x), Text(y), Command(1)>>
    <3>3. Len(r) = 3 /\ r # <<>> /\ r[1] = Text(x) /\ r[2] = Text(y) /\ r[3] = Command(1)
      OBVIOUS
    <3> HIDE DEF r
    <3>4. \A j \in 1 .. Len(r) - 1 : j = 1 \/ j = 2
      BY <3>3
    <3>5. r \in Seq(Lines(M))
      BY <3>2 DEF r
    <3> QED
      BY <3>1, <3>3, <3>4, <3>5 DEF ReportsOf, r
  <2> QED
    BY <2>1, <2>2 DEF Reports
<1>3. in.reports \in Seq(ReportsOf(M))
  <2>1. in.reports \in Seq(Reports)
    BY <1>1, ListsAreSeqs
  <2> HIDE DEF M
  <2> QED
    BY <1>2, <2>1
<1>4. in.rest \in Seq(TextLines(M))
  <2>1. Text("other") \in TextLines(M)
    BY DEF TextLines, Text
  <2> HIDE DEF M
  <2>2. <<>> \in Seq(TextLines(M)) /\ <<Text("other")>> \in Seq(TextLines(M))
    <3> DEFINE line == Text("other")
               L == TextLines(M)
    <3>1. line \in L
      BY <2>1
    <3> HIDE DEF line, L
    <3>2. <<>> \in Seq(L) /\ <<line>> \in Seq(L)
      BY <3>1
    <3> QED
      BY <3>2 DEF line, L
  <2> QED
    BY <1>1, <2>2
<1>5. BatchInv
  <2> HIDE DEF M
  <2> QED
    BY <1>3, <1>4 DEF BatchInv
<1> QED
  BY <1>1, <1>5 DEF AlgorithmsInv, MaskInv, FilterInv, OwnInv, FillInv, DnsInv, SnapInv

LEMMA FilterInputsInit == in \in FilterInputs /\ out = NotRun => AlgorithmsInv
<1> SUFFICES ASSUME in \in FilterInputs, out = NotRun PROVE AlgorithmsInv
  OBVIOUS
<1>1. in.alg = "filter" /\ in.Include \in FilterLists /\ in.Exclude \in FilterLists
  BY DEF FilterInputs
<1>2. FilterLists \subseteq Seq(FilterNwps)
  BY ListsAreSeqs DEF FilterLists
<1> QED
  BY <1>1, <1>2 DEF AlgorithmsInv, MaskInv, FilterInv, OwnInv, FillInv, DnsInv, BatchInv, SnapInv

FiniteTrees == {t \in SUBSET Qdiscs(TreeKinds) : IsFiniteSet(t)}

(* The inputs of the model are listings of finite trees of qdiscs.         *)
LEMMA FiniteTreesClosed ==
    /\ {} \in FiniteTrees
    /\ \A q \in Qdiscs(TreeKinds) : {q} \in FiniteTrees
    /\ \A x, y \in FiniteTrees : x \cup y \in FiniteTrees
BY FS_EmptySet, FS_Singleton, FS_Union DEF FiniteTrees

(* ... made of these,                                                      *)
LEMMA QdiscsOfKind ==
    \A kind \in TreeKinds, h \in Nat :
        /\ Q(kind, h, Root) \in Qdiscs(TreeKinds)
        /\ \A major \in Nat, minor \in Nat : Q(kind, h, <<major, minor>>) \in Qdiscs(TreeKinds)
BY DEF Q, Qdiscs

(* ... those in a class of the root,                                       *)
LEMMA TreesBelow ==
    ASSUME NEW h \in Nat, NEW minor \in Nat, NEW own \in Nat, NEW x \in Below(h, minor, own)
    PROVE  x \in FiniteTrees
<1> DEFINE leaf == Q("fq_codel", 0, <<h, minor>>)
           tuned == Q("fq", own, <<h, minor>>)
           prio == Q("prio", own, <<h, minor>>)
           below == Q("fq", own + 1, <<own, 1>>)
           inner == Q("prio", own + 1, <<own, 2>>)
           last == Q("fq", own + 2, <<own + 1, 1>>)
<1>1. /\ leaf \in Qdiscs(TreeKinds) /\ tuned \in Qdiscs(TreeKinds) /\ prio \in Qdiscs(TreeKinds)
      /\ below \in Qdiscs(TreeKinds) /\ inner \in Qdiscs(TreeKinds) /\ last \in Qdiscs(TreeKinds)
  <2>1. own + 1 \in Nat /\ own + 2 \in Nat
    OBVIOUS
  <2> QED
    BY <2>1, QdiscsOfKind DEF TreeKinds
<1>2. \/ x = {leaf} \/ x = {} \/ x = {tuned} \/ x = {prio, below} \/ x = {prio, inner, last}
  BY DEF Below
<1> HIDE DEF leaf, tuned, prio, below, inner, last
<1>3. \A q \in {leaf, tuned, prio, below, inner, last} : {q} \in FiniteTrees
  BY <1>1, FiniteTreesClosed
<1>4. {prio} \cup {below} \in FiniteTrees /\ ({prio} \cup {inner}) \cup {last} \in FiniteTrees
  BY <1>3, FiniteTreesClosed
<1>5. {prio, below} = {prio} \cup {below} /\ {prio, inner, last} = ({prio} \cup {inner}) \cup {last}
  OBVIOUS
<1> QED
  BY <1>2, <1>3, <1>4, <1>5, FiniteTreesClosed

(* ... and whole ones.                                                     *)
LEMMA TreesOfQdiscs == Trees \subseteq FiniteTrees
<1>1. \A kind \in {"fq", "noqueue", "mq", "prio"}, h \in {0, 1} : {Q(kind, h, Root)} \in FiniteTrees
  <2>1. \A kind \in {"fq", "noqueue", "mq", "prio"} : kind \in TreeKinds
    BY DEF TreeKinds
  <2>2. \A h \in {0, 1} : h \in Nat
    OBVIOUS
  <2> QED
    BY <2>1, <2>2, QdiscsOfKind, FiniteTreesClosed
<1>2. ASSUME NEW h \in {0, 1} PROVE Below(h, 1, 4) \subseteq FiniteTrees /\ Below(h, 2, 9) \subseteq FiniteTrees
  <2>1. h \in Nat /\ 1 \in Nat /\ 2 \in Nat /\ 4 \in Nat /\ 9 \in Nat
    OBVIOUS
  <2> QED
    BY <2>1, TreesBelow
<1>3. ASSUME NEW kind \in {"mq", "prio"}, NEW x \in Below(1, 1, 4)
      PROVE  {Q(kind, 1, Root)} \cup x \in FiniteTrees
  <2>1. {Q(kind, 1, Root)} \in FiniteTrees /\ x \in FiniteTrees
    BY <1>1, <1>2
  <2> QED
    BY <2>1, FiniteTreesClosed
<1>4. ASSUME NEW h \in {0, 1}, NEW x \in Below(h, 1, 4), NEW y \in Below(h, 2, 9)
      PROVE  {Q("mq", h, Root)} \cup x \cup y \in FiniteTrees
  <2>1. x \in FiniteTrees /\ y \in FiniteTrees /\ {Q("mq", h, Root)} \in FiniteTrees
    BY <1>1, <1>2
  <2>2. {Q("mq", h, Root)} \cup x \in FiniteTrees
    BY <2>1, FiniteTreesClosed
  <2> QED
    BY <2>1, <2>2, FiniteTreesClosed
<1> DEFINE Leaves == {{Q("fq", 1, Root)}, {Q("noqueue", 0, Root)}}
           OneClass == {{Q(kind, h, Root)} \cup x : kind \in {"mq", "prio"}, h \in {1}, x \in Below(1, 1, 4)}
           TwoClasses == UNION {{{Q("mq", h, Root)} \cup x \cup y :
                x \in Below(h, 1, 4), y \in {z \in Below(h, 2, 9) : Cardinality(z) <= 1}} : h \in {0, 1}}
<1>5. Leaves \subseteq FiniteTrees
  BY <1>1
<1>6. OneClass \subseteq FiniteTrees
  BY <1>3
<1>7. TwoClasses \subseteq FiniteTrees
  BY <1>4
<1>8. Trees = Leaves \cup OneClass \cup TwoClasses
  BY DEF Trees
<1> HIDE DEF Leaves, OneClass, TwoClasses
<1> QED
  BY <1>5, <1>6, <1>7, <1>8

(* In whatever order they are listed, that is a listing of the kernel's.   *)
LEMMA ListingsOfQdiscs == \A s \in Listings : s \in Seq(Qdiscs(TreeKinds)) /\ IsListing(s)
<1>1. ASSUME NEW t \in Trees, NEW s \in Orders(t) PROVE s \in Seq(Qdiscs(TreeKinds))
  <2>1. s \in [1 .. Cardinality(t) -> t]
    BY DEF Orders, SetToSeqs
  <2>2. Cardinality(t) \in Nat /\ t \subseteq Qdiscs(TreeKinds)
    BY TreesOfQdiscs, FS_CardinalityType DEF FiniteTrees
  <2> QED
    BY <2>1, <2>2
<1> QED
  BY <1>1 DEF Listings

(* Nothing more is needed of the inputs of a replay.                       *)
LEMMA SnapshotInputsInit == in \in SnapshotInputs /\ out = NotRun => AlgorithmsInv
<1> SUFFICES ASSUME in \in SnapshotInputs, out = NotRun PROVE AlgorithmsInv
  OBVIOUS
<1>1. PICK s \in Listings : \E q \in AfterDelete(s), f \in BOOLEAN :
        in = [alg |-> "snapshot", saved |-> s, live |-> {q}, claimFails |-> f]
  BY DEF SnapshotInputs
<1>2. PICK q \in AfterDelete(s) : in.alg = "snapshot" /\ in.saved = s /\ in.live = {q}
  BY <1>1
<1>3. s \in Seq(Qdiscs(TreeKinds)) /\ IsListing(s)
  BY ListingsOfQdiscs
<1> DEFINE root == CHOOSE x \in ToSet(s) : isRootQdisc(x)
           used == {x.handle : x \in ToSet(s) \ {root}} \ {0}
<1>4. root \in ToSet(s) /\ isRootQdisc(root)
  <2>1. \E x \in ToSet(s) : isRootQdisc(x)
    BY <1>3 DEF IsListing, ToSet
  <2> QED
    BY <2>1
<1>5. AfterDelete(s) = IF isKernelAutoManaged(root.kind) THEN {Q(root.kind, h, Root) : h \in {0, 15} \ used}
                       ELSE {Q("noqueue", 0, Root)}
  BY DEF AfterDelete
<1> HIDE DEF root
<1>6. PICK r \in DOMAIN s : root = s[r] /\ \A i \in DOMAIN s : isRootQdisc(s[i]) => i = r
  <2>1. PICK r \in DOMAIN s : root = s[r]
    BY <1>4 DEF ToSet
  <2> QED
    BY <1>3, <1>4, <2>1 DEF IsListing, isRootQdisc
<1>7. PICK kind \in TreeKinds, h \in {0, 15} :
        /\ q = Q(kind, h, Root)
        /\ isKernelAutoManaged(root.kind) => kind = root.kind /\ h \notin used
  <2>1. root.kind \in TreeKinds
    <3>1. s[r] \in Qdiscs(TreeKinds)
      BY <1>3
    <3> QED
      BY <1>6, <3>1 DEF Qdiscs
  <2>2. CASE isKernelAutoManaged(root.kind)
    <3>1. PICK h \in {0, 15} \ used : q = Q(root.kind, h, Root)
      BY <1>5, <2>2
    <3> QED
      BY <2>1, <3>1
  <2>3. CASE ~isKernelAutoManaged(root.kind)
    <3>1. q = Q("noqueue", 0, Root) /\ "noqueue" \in TreeKinds /\ 0 \in {0, 15}
      BY <1>5, <2>3 DEF TreeKinds
    <3> QED
      BY <2>3, <3>1
  <2> QED
    BY <2>2, <2>3
<1>8. q \in Qdiscs(TreeKinds) /\ isRootQdisc(q) /\ q.kind = kind /\ q.handle = h
  BY <1>7 DEF Q, Qdiscs, isRootQdisc
<1>9. isKernelAutoManaged(root.kind) => Freed(s, q)
  <2> SUFFICES ASSUME isKernelAutoManaged(root.kind),
                      NEW j \in DOMAIN s, ~isRootQdisc(s[j]), s[j].handle # 0
               PROVE  s[j].handle # h
    BY <1>8 DEF Freed
  <2>1. s[j] \in ToSet(s) \ {root}
    BY <1>4 DEF ToSet
  <2>2. s[j].handle \in used
    BY <2>1
  <2> QED
    BY <1>7, <2>2
<1>10. Reattached(s, {q})
  <2>1. {x \in {q} : isRootQdisc(x)} = {q}
    BY <1>8
  <2> QED
    BY <1>6, <1>7, <1>8, <1>9, <2>1 DEF Reattached
<1>11. SnapInv
  BY <1>2, <1>3, <1>8, <1>10 DEF SnapInv
<1> QED
  BY <1>2, <1>11 DEF AlgorithmsInv, MaskInv, FilterInv, OwnInv, FillInv, DnsInv, BatchInv

LEMMA CondenseInputsInit == in \in CondenseInputs => AlgorithmsInv
<1>1. in \in CondenseInputs => in.alg = "condense"
  BY DEF CondenseInputs
<1> QED
  BY <1>1 DEF AlgorithmsInv, MaskInv, FilterInv, OwnInv, FillInv, DnsInv, BatchInv, SnapInv

LEMMA InitAlgorithms == Init => AlgorithmsInv
BY MaskInputsInit, OwnInputsInit, FillInputsInit, DnsInputsInit, BatchInputsInit,
   FilterInputsInit, SnapshotInputsInit, CondenseInputsInit
   DEF Init

LEMMA NextAlgorithms == AlgorithmsInv /\ [Next]_vars => AlgorithmsInv'
<1> SUFFICES ASSUME AlgorithmsInv, [Next]_vars PROVE AlgorithmsInv'
  OBVIOUS
<1>1. in' = in
  BY DEF Next, Compute, vars
<1>2. in.alg = "masks" => out' = out \/ out' = Wide!getMask(in.r)
  BY DEF Next, Compute, vars
<1>3. in.alg = "own" =>
        out' = out \/ out' = ComputeExcludes({Prefix(5, 3)}, in.port, in.health)
  BY DEF Next, Compute, vars
<1>4. in.alg = "fill" => out' = out \/ out' = Args(in.opts, in.disk)
  BY DEF Next, Compute, vars
<1>5. in.alg = "dns" => out' = out \/ out' = resolve(in.hostnames, in.lines, in.digFails)
  BY DEF Next, Compute, vars
<1>6. in.alg = "batch" =>
        \/ out' = out
        \/ out' = filterBatchErrors(run(TRUE, FlattenSeq(in.reports) \o in.rest), in.mode)
  BY DEF Next, Compute, vars
<1>7. in.alg = "filter" => out' = out \/ out' = AttackedEnds(in)
  BY DEF Next, Compute, vars
<1>8. in.alg = "snapshot" =>
        out' = out \/ out' = restoreSnapshot(in.live, in.saved, in.claimFails)
  BY DEF Next, Compute, vars
<1>9. MaskInv'
  BY <1>1, <1>2 DEF AlgorithmsInv, MaskInv
<1>10. FilterInv'
  BY <1>1, <1>7 DEF AlgorithmsInv, FilterInv
<1>11. OwnInv'
  BY <1>1, <1>3 DEF AlgorithmsInv, OwnInv
<1>12. FillInv'
  BY <1>1, <1>4 DEF AlgorithmsInv, FillInv
<1>13. DnsInv'
  BY <1>1, <1>5 DEF AlgorithmsInv, DnsInv
<1>14. BatchInv'
  BY <1>1, <1>6 DEF AlgorithmsInv, BatchInv
<1>15. SnapInv'
  BY <1>1, <1>8 DEF AlgorithmsInv, SnapInv
<1> QED
  BY <1>9, <1>10, <1>11, <1>12, <1>13, <1>14, <1>15 DEF AlgorithmsInv

LEMMA AlgorithmsInvariant == Spec => []AlgorithmsInv
BY InitAlgorithms, NextAlgorithms, PTL DEF Spec

(* The masks of a range match its ports and no other, every port once, and *)
(* are not more than twice the width, for every width of ports.            *)
THEOREM MasksExactTheorem == Spec => []MasksExact
<1>1. AlgorithmsInv => MasksExact
  <2> SUFFICES ASSUME MaskInv, Done("masks") PROVE MasksExact
    BY DEF MasksExact, AlgorithmsInv
  <2> DEFINE wanted == IF Wide!IsAny(in.r) THEN Wide!Ports ELSE in.r.From .. in.r.To
             blocks == [i \in DOMAIN out |-> Wide!MaskedPorts(out[i])]
  <2>1. in.r \in Wide!PortRange /\ in.r.From <= in.r.To /\ out = Wide!getMask(in.r)
    BY DEF MaskInv, Done
  <2>2. /\ \A port \in Wide!Ports :
               port \in wanted <=> \E i \in DOMAIN out : port \in Wide!MaskedPorts(out[i])
        /\ \A i, j \in DOMAIN out :
               i # j => Wide!MaskedPorts(out[i]) \cap Wide!MaskedPorts(out[j]) = {}
        /\ Len(out) <= 2 * MaxPortBits
    <3>1. \A r \in Wide!PortRange : r.From <= r.To =>
            LET masks == Wide!getMask(r)
                ports == IF Wide!IsAny(r) THEN Wide!Ports ELSE r.From .. r.To
            IN  /\ \A port \in Wide!Ports :
                     port \in ports <=> \E i \in DOMAIN masks : port \in Wide!MaskedPorts(masks[i])
                /\ \A i, j \in DOMAIN masks :
                     i # j => Wide!MaskedPorts(masks[i]) \cap Wide!MaskedPorts(masks[j]) = {}
                /\ Len(masks) <= 2 * MaxPortBits
      BY WideDefinitions, WideProofs!MaskTheorem
    <3> QED
      BY <2>1, <3>1
  <2>3. wanted \subseteq Wide!Ports
    <3>1. in.r.From \in Wide!Ports /\ in.r.To \in Wide!Ports
      BY <2>1 DEF Wide!PortRange
    <3> QED
      BY <3>1, WideDefinitions DEF Wide!Ports
  <2>4. \A i \in DOMAIN out : blocks[i] = Wide!MaskedPorts(out[i]) /\ blocks[i] \subseteq Wide!Ports
    BY DEF Wide!MaskedPorts
  <2>5. UNION Range(blocks) = wanted
    <3>1. Range(blocks) = {blocks[i] : i \in DOMAIN out}
      BY DEF Range
    <3> HIDE DEF blocks, wanted
    <3> QED
      BY <2>2, <2>3, <2>4, <3>1
  <2>6. \A i, j \in DOMAIN out : i # j => blocks[i] \cap blocks[j] = {}
    BY <2>2, <2>4
  <2> HIDE DEF blocks, wanted
  <2>7. /\ UNION Range(blocks) = wanted
        /\ \A i, j \in DOMAIN out : i # j => blocks[i] \cap blocks[j] = {}
        /\ Len(out) <= 2 * MaxPortBits
    BY <2>2, <2>5, <2>6
  <2> QED
    BY <2>7, Zenon DEF MasksExact, blocks, wanted
<1> QED
  BY <1>1, AlgorithmsInvariant, PTL

(* The networks and ports of the filters in the model are those a filter   *)
(* may hold.                                                               *)
LEMMA FilterEntries == FilterNwps \subseteq Entries /\ SamePrefix(FilterNwps)
<1> DEFINE e == Pow2[AddrBits - 3]
           L == PortLimit
<1>1. /\ AddrBits \in Nat /\ AddrBits - 3 \in Nat /\ AddrBits - 2 \in Nat /\ AddrBits - 1 \in Nat
      /\ PortBits \in Nat
  BY FilterAssumption, AddrAssumption, PortAssumption
<1>2. /\ e \in Nat \ {0} /\ Pow2[AddrBits - 2] = 2 * e /\ Pow2[AddrBits - 1] = 4 * e
      /\ Pow2[AddrBits] = 8 * e
  <2>1. /\ (AddrBits - 2) - 1 = AddrBits - 3 /\ (AddrBits - 1) - 1 = AddrBits - 2
        /\ AddrBits - 2 # 0 /\ AddrBits - 1 # 0 /\ AddrBits # 0
    BY <1>1, FilterAssumption
  <2>2. /\ Pow2[AddrBits] = 2 * Pow2[AddrBits - 1]
        /\ Pow2[AddrBits - 1] = 2 * Pow2[AddrBits - 2] /\ Pow2[AddrBits - 2] = 2 * e
    BY <1>1, <2>1, Pow2Step
  <2>3. e \in Nat \ {0}
    BY <1>1, Pow2Step
  <2> QED
    BY <2>2, <2>3
<1> HIDE DEF e
<1>3. /\ Prefix(0, 0) = [ip |-> 0, ones |-> 0]
      /\ Prefix(Pow2[AddrBits - 1], 1) = [ip |-> 4 * e, ones |-> 1]
      /\ Prefix(3 * Pow2[AddrBits - 2], 2) = [ip |-> 6 * e, ones |-> 2]
      /\ Prefix(3 * Pow2[AddrBits - 3], 3) = [ip |-> 3 * e, ones |-> 3]
  <2>1. 0 % (8 * e) = 0 /\ (4 * e) % (4 * e) = 0 /\ (3 * e) % e = 0
    BY <1>2, Multiples
  <2>2. (6 * e) % (2 * e) = 0
    BY <1>2, Multiples
  <2> QED
    BY <1>1, <1>2, <2>1, <2>2 DEF Prefix, e
<1>4. FilterNets \subseteq Nets
  <2>1. {0, 4 * e, 6 * e, 3 * e} \subseteq Addresses
    BY <1>2 DEF Addresses
  <2>2. {0, 1, 2, 3} \subseteq 0 .. AddrBits
    BY <1>1, FilterAssumption
  <2>3. /\ Pow2[AddrBits - 1] = 4 * e /\ 3 * Pow2[AddrBits - 2] = 6 * e
        /\ 3 * Pow2[AddrBits - 3] = 3 * e
    BY <1>2 DEF e
  <2> QED
    BY <2>1, <2>2, <2>3 DEF FilterNets, Nets
<1>5. \A x, y \in FilterNets : x.ip = y.ip => x = y
  <2>1. 0 # 4 * e /\ 0 # 6 * e /\ 0 # 3 * e /\ 4 * e # 6 * e /\ 4 * e # 3 * e /\ 6 * e # 3 * e
    BY <1>2
  <2> QED
    BY <1>3, <2>1 DEF FilterNets
<1>6. L \in Nat /\ L >= 8
  <2>1. Pow2[0] = 1 /\ Pow2[1] = 2 * Pow2[0] /\ Pow2[2] = 2 * Pow2[1] /\ Pow2[3] = 2 * Pow2[2]
    <3>1. 1 - 1 = 0 /\ 2 - 1 = 1 /\ 3 - 1 = 2
      OBVIOUS
    <3> QED
      BY <3>1, Pow2Step
  <2>2. Pow2[3] <= Pow2[PortBits]
    BY <1>1, FilterAssumption, PowersGrow
  <2> QED
    BY <2>1, <2>2, LimitIsNat DEF PortLimit
<1>7. {PortRangeAny, [From |-> 2, To |-> 5], [From |-> 4, To |-> 6], [From |-> 3, To |-> 3]}
        \subseteq ParsedRanges
  BY <1>6 DEF ParsedRanges, PortRangeAny
<1> QED
  BY <1>4, <1>5, <1>7 DEF FilterNwps, Nwps, Entries, SamePrefix

(* Each kind of attack hits an end of a packet if and only if it is in a   *)
(* network and port range to include and in none to exclude, for every     *)
(* width of addresses and ports.                                           *)
THEOREM EndsTargetedTheorem == Spec => []EndsTargeted
<1>1. AlgorithmsInv => EndsTargeted
  <2> SUFFICES ASSUME FilterInv, Done("filter") PROVE EndsTargeted
    BY DEF EndsTargeted, AlgorithmsInv
  <2> DEFINE I == in.Include
             X == in.Exclude
             Target(p) == Covers(ToSet(I), p[2], p[3]) /\ ~Covers(ToSet(X), p[2], p[3])
  <2>1. I \in Seq(FilterNwps) /\ X \in Seq(FilterNwps) /\ out = AttackedEnds(in)
    BY DEF FilterInv, Done
  <2>2. I \in Seq(Entries) /\ X \in Seq(Entries) /\ ToSet(I) \subseteq FilterNwps /\ ToSet(X) \subseteq FilterNwps
    BY <2>1, FilterEntries DEF ToSet
  <2>3. SamePrefix(ToSet(I)) /\ SamePrefix(ToSet(X))
    BY <2>2, FilterEntries DEF SamePrefix
  <2>4. ASSUME NEW kind, NEW p \in Probes
        PROVE  Attacked(Rules(kind, in), p[1], p[2], p[3]) <=> Target(p)
    <3>1. p[1] \in {"src", "dst"} /\ p[2] \in Nat /\ p[3] \in 1 .. PortLimit - 2
      BY DEF Probes
    <3> QED
      BY <2>2, <2>3, <3>1, FilterTheorem
  <2>5. \A kind \in Kinds : out[kind] = {p \in Probes : Target(p)}
    BY <2>1, <2>4 DEF AttackedEnds
  <2>6. \A p \in Probes : Target(p) <=>
            /\ \E i \in DOMAIN I : NetContains(I[i].net, p[2]) /\ ContainsPort(I[i].ports, p[3])
            /\ ~\E i \in DOMAIN X : NetContains(X[i].net, p[2]) /\ ContainsPort(X[i].ports, p[3])
    BY DEF Covers, Matches, ToSet
  <2> HIDE DEF Target
  <2> QED
    BY <2>5, <2>6 DEF EndsTargeted
<1> QED
  BY <1>1, AlgorithmsInvariant, PTL

(* The extension's own ports, and no other, are excluded, for every width  *)
(* of ports and whatever the two ports are.                                *)
THEOREM OwnPortsTheorem == Spec => []OwnPortsExcluded
<1>1. AlgorithmsInv => OwnPortsExcluded
  <2> SUFFICES ASSUME OwnInv, Done("own") PROVE OwnPortsExcluded
    BY DEF OwnPortsExcluded, AlgorithmsInv
  <2>1. /\ in.port \in Ports \ {0} /\ in.health \in Ports
        /\ out = ComputeExcludes({Prefix(5, 3)}, in.port, in.health)
    BY DEF OwnInv, Done
  <2>2. {Prefix(5, 3)} # {}
    OBVIOUS
  <2>3. UNION {x.ports.From .. x.ports.To :
                    x \in ComputeExcludes({Prefix(5, 3)}, in.port, in.health)}
            = {in.port, in.health} \ {0}
    BY <2>1, <2>2, OwnPorts
  <2> QED
    BY <2>1, <2>3 DEF OwnPortsExcluded
<1> QED
  BY <1>1, AlgorithmsInvariant, PTL

(* Whatever order the kernel listed the qdiscs in, replaying them fails    *)
(* for none and leaves every tuned one in its class of what it was below,  *)
(* unless the live root hides its handle and refuses the saved one.        *)
THEOREM TreeRestoredTheorem == Spec => []TreeRestored
<1>1. AlgorithmsInv => TreeRestored
  <2> SUFFICES ASSUME SnapInv, Done("snapshot"), in.claimFails => \E q \in in.live : q.handle # 0
               PROVE  /\ out.failed = {}
                      /\ \A q \in Tuned(in.saved) : \E p \in out.live :
                              RestoredAs(q, p, in.saved, out.live)
    BY DEF TreeRestored, AlgorithmsInv
  <2>1. /\ in.saved \in Seq(Qdiscs(TreeKinds)) /\ IsListing(in.saved)
        /\ in.live \in SUBSET Qdiscs(TreeKinds) /\ Reattached(in.saved, in.live)
        /\ \A q \in in.live : isRootQdisc(q)
        /\ out = restoreSnapshot(in.live, in.saved, in.claimFails)
    BY DEF SnapInv, Done
  <2>2. in.claimFails => \E q \in in.live : isRootQdisc(q) /\ q.handle # 0
    BY <2>1
  <2> DEFINE saved == in.saved
             live == in.live
             fails == in.claimFails
  <2>3. /\ saved \in Seq(Qdiscs(TreeKinds)) /\ IsListing(saved)
        /\ live \in SUBSET Qdiscs(TreeKinds) /\ Reattached(saved, live)
        /\ (fails => \E q \in live : isRootQdisc(q) /\ q.handle # 0)
    BY <2>1, <2>2
  <2> HIDE DEF saved, live, fails
  <2>4. /\ restoreSnapshot(live, saved, fails).failed = {}
        /\ \A q \in Tuned(saved) : \E p \in restoreSnapshot(live, saved, fails).live :
                  RestoredAs(q, p, saved, restoreSnapshot(live, saved, fails).live)
    BY <2>3, TreeTheorem
  <2> QED
    BY <2>1, <2>4 DEF saved, live, fails
<1> QED
  BY <1>1, AlgorithmsInvariant, PTL

(* A diskfill meets its target for every unit and limit of block sizes.    *)
THEOREM FillMeetsTargetTheorem == Spec => []FillMeetsTarget
<1>1. AlgorithmsInv => FillMeetsTarget
  <2> SUFFICES ASSUME FillInv, Done("fill") PROVE FillMeetsTarget
    BY DEF FillMeetsTarget, AlgorithmsInv
  <2>1. MeetsTarget(in.opts, in.disk, out)
    BY FillTheorem DEF FillInv, Done
  <2> QED
    BY <2>1 DEF MeetsTarget, FillMeetsTarget, calculateKBytesToWrite
<1> QED
  BY <1>1, AlgorithmsInvariant, PTL

(* Host names are resolved if and only if dig succeeded and each of them   *)
(* is valid and has an address; then each has one among those returned.    *)
THEOREM AllNamesResolvedTheorem == Spec => []AllNamesResolved
<1>1. AlgorithmsInv => AllNamesResolved
  <2> SUFFICES ASSUME DnsInv, Done("dns") PROVE AllNamesResolved
    BY DEF AllNamesResolved, AlgorithmsInv
  <2> DEFINE H == {a, b, bad}
  <2>1. /\ in.hostnames \in Seq(H) /\ in.digFails \in BOOLEAN
        /\ out = resolve(in.hostnames, in.lines, in.digFails)
    BY DEF DnsInv, Done
  <2>2. PICK L : in.lines \in Seq(L)
    BY DEF DnsInv, Done
  <2> HIDE DEF H
  <2>3. NamesResolved(in.hostnames, in.lines, in.digFails, out)
    BY <2>1, <2>2, ResolveTheorem
  <2> QED
    BY <2>3, Zenon DEF NamesResolved, AllNamesResolved
<1> QED
  BY <1>1, AlgorithmsInvariant, PTL

(* A batch counts as done only if every command that failed said so with   *)
(* an error to ignore and none hints at a missing module of the kernel;    *)
(* every other command that failed is reported.                            *)
THEOREM NoErrorHiddenTheorem == Spec => []NoErrorHidden
<1>1. AlgorithmsInv => NoErrorHidden
  <2> SUFFICES ASSUME BatchInv, Done("batch") PROVE NoErrorHidden
    BY DEF NoErrorHidden, AlgorithmsInv
  <2>1. PICK M : in.reports \in Seq(ReportsOf(M)) /\ in.rest \in Seq(TextLines(M))
    BY DEF BatchInv, Done
  <2>2. out = filterBatchErrors(run(TRUE, FlattenSeq(in.reports) \o in.rest), in.mode)
    BY DEF BatchInv, Done
  <2>3. ErrorsTold(in.reports, in.mode, out)
    BY <2>1, <2>2, BatchTheorem
  <2> QED
    BY <2>3, Zenon DEF ErrorsTold, NoErrorHidden
<1> QED
  BY <1>1, AlgorithmsInvariant, PTL
=============================================================================
