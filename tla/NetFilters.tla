----------------------------- MODULE NetFilters -----------------------------
(***************************************************************************)
(* The filter of a network attack: which networks and ports it includes    *)
(* and excludes, how the lists are reduced, the rules each kind of attack  *)
(* makes of them and what these rules do to one end of a packet; and how   *)
(* an extension condenses a long list of networks. Networks are those of   *)
(* one address family.                                                     *)
(***************************************************************************)
EXTENDS PortRanges, SequencesExt

CONSTANT AddrBits       \* the width of an address

ASSUME AddrAssumption == AddrBits \in Nat \ {0}

Addresses == 0 .. Pow2[AddrBits] - 1
(* A network: its lowest address and the length of its prefix.             *)
Prefix(ip, ones) == [ip |-> ip - (ip % Pow2[AddrBits - ones]), ones |-> ones]
Nets == {Prefix(ip, ones) : ip \in Addresses, ones \in 0 .. AddrBits}
NetContains(n, ip) == Prefix(ip, n.ones) = n
-----------------------------------------------------------------------------
(* NetWithPortRange: [net, ports].                                         *)

Overlap(a, b) ==
    /\ OverlapRanges(a.ports, b.ports)
    /\ NetContains(a.net, b.net.ip) \/ NetContains(b.net, a.net.ip)

(* Fault: only the first port is looked at.                                *)
ContainsStart(a, b) == ContainsPort(a.ports, b.ports.From) /\ NetContains(a.net, b.net.ip)

(* The length of b's prefix is not looked at.                              *)
ContainsNet(a, b) ==
    /\ ContainsPort(a.ports, b.ports.To) /\ ContainsPort(a.ports, b.ports.From)
    /\ NetContains(a.net, b.net.ip)

Compare(a, b) ==
    LET key(n) == (n.net.ip * PortLimit + n.ports.From) * PortLimit + n.ports.To
    IN  key(a) - key(b)
Before(a, b) == Compare(a, b) < 0

mergeIPNet(a, b) ==
    LET common == {i \in 0 .. AddrBits :
            i <= a.ones /\ i <= b.ones /\ (i > 0 => Prefix(a.ip, i) = Prefix(b.ip, i))}
    IN  Prefix(a.ip, Max(common))

Merge(a, b) == [net |-> mergeIPNet(a.net, b.net), ports |-> MergeRanges(a.ports, b.ports)]

(* ComputeExcludesForOwnIpAndPorts, for the networks of the own addresses. *)
ComputeExcludes(nets, port, healthPort) ==
    LET own(n) == [From |-> n, To |-> n]
        ranges == IF healthPort = 0 \/ healthPort = port THEN {own(port)}
                  ELSE IF IsNeighbor(own(port), own(healthPort))
                  THEN {MergeRanges(own(port), own(healthPort))}
                  ELSE {own(port), own(healthPort)}
    IN  {[net |-> n, ports |-> r] : n \in nets, r \in ranges}
-----------------------------------------------------------------------------
(* optimizeFilter.                                                         *)

(* slices.SortFunc, one entry after the other.                             *)
SortInto(sorted, nwp) ==
    LET after == {i \in DOMAIN sorted : Before(nwp, sorted[i])}
    IN  IF after = {} THEN Append(sorted, nwp) ELSE InsertAt(sorted, Min(after), nwp)

(* The first of those kept that contains the next one or is contained in   *)
(* it, as far as ContainsNet can tell, decides.                            *)
Keep(kept, nwp) ==
    LET related == {i \in DOMAIN kept : ContainsNet(kept[i], nwp) \/ ContainsNet(nwp, kept[i])}
        i == Min(related)
    IN  IF related = {} THEN Append(kept, nwp)
        ELSE IF ContainsNet(kept[i], nwp) THEN kept
        ELSE [kept EXCEPT ![i] = nwp]

deduplicateNetWithPortRange(nwps) ==
    FoldLeft(Keep, <<>>, FoldLeft(SortInto, <<>>, nwps))

necessaryExcludes(excludes, includes) ==
    LET keep(kept, x) ==
            IF \E i \in DOMAIN includes : Overlap(includes[i], x) THEN Append(kept, x) ELSE kept
    IN  FoldLeft(keep, <<>>, excludes)

optimizeFilter(f) ==
    LET include == deduplicateNetWithPortRange(f.Include)
    IN  [Include |-> include,
         Exclude |-> deduplicateNetWithPortRange(necessaryExcludes(f.Exclude, include))]
-----------------------------------------------------------------------------
(* The rules, in the order the kernel looks at them; of each entry one for *)
(* packets to the network and one for packets from it.                     *)

Both(net, ports, attack) ==
    <<[end |-> "src", net |-> net, ports |-> ports, attack |-> attack],
      [end |-> "dst", net |-> net, ports |-> ports, attack |-> attack]>>
RangePorts(r) == {port \in Ports : ContainsPort(r, port)}
SelectedPorts(r) == IF IsAny(r) THEN Ports ELSE RangePorts(r)

tcCommandsForNets(nwps, attack) ==
    LET matchers(nwp) == FlattenSeq([i \in DOMAIN getMask(nwp.ports) |->
                            Both(nwp.net, MaskedPorts(getMask(nwp.ports)[i]), attack)])
    IN  FlattenSeq([i \in DOMAIN nwps |-> matchers(nwps[i])])

(* Fault: the filters of the includes come first.                          *)
IncludesFirst(f) == tcCommandsForNets(f.Include, TRUE) \o tcCommandsForNets(f.Exclude, FALSE)

(* u32 filters: every one has its own priority, excludes first.            *)
tcCommandsForFilter(f) ==
    tcCommandsForNets(f.Exclude, FALSE) \o tcCommandsForNets(f.Include, TRUE)

writeIptablesRules(nwps, attack) ==
    FlattenSeq([i \in DOMAIN nwps |-> Both(nwps[i].net, SelectedPorts(nwps[i].ports), attack)])
buildIptablesScript(f) == writeIptablesRules(f.Exclude, FALSE) \o writeIptablesRules(f.Include, TRUE)

(* The kernel puts each ip rule before the ones that are there.            *)
ipCommands(f) ==
    Reverse(FlattenSeq([i \in DOMAIN f.Include |->
                Both(f.Include[i].net, SelectedPorts(f.Include[i].ports), TRUE)])
            \o FlattenSeq([i \in DOMAIN f.Exclude |->
                Both(f.Exclude[i].net, SelectedPorts(f.Exclude[i].ports), FALSE)]))

(* excludeRules, then includeRejectRules or includeMarkRules: the any      *)
(* range is written out like every other.                                  *)
resetRules(f) ==
    FlattenSeq([i \in DOMAIN f.Exclude |-> Both(f.Exclude[i].net, RangePorts(f.Exclude[i].ports), FALSE)])
    \o FlattenSeq([i \in DOMAIN f.Include |-> Both(f.Include[i].net, RangePorts(f.Include[i].ports), TRUE)])

Rules(kind, f) ==
    CASE kind = "tc" -> tcCommandsForFilter(optimizeFilter(f))
      [] kind = "psh" -> buildIptablesScript(optimizeFilter(f))
      [] kind = "blackhole" -> ipCommands(optimizeFilter(f))
      [] OTHER -> resetRules(optimizeFilter(f))

(* What happens to a packet with this address and port at one end when no  *)
(* rule matches its other end: the first rule that matches decides.        *)
Attacked(rules, end, ip, port) ==
    LET hits == {i \in DOMAIN rules : /\ rules[i].end = end
                                      /\ NetContains(rules[i].net, ip)
                                      /\ port \in rules[i].ports}
    IN  hits # {} /\ rules[Min(hits)].attack
-----------------------------------------------------------------------------
(* CondenseNetWithPortRange.                                               *)

comparePrefixLen(a, b) == b.net.ones - a.net.ones

(* The place a binary search finds in a list, sorted or not; before says of *)
(* each entry whether it compares less than the target.                    *)
Place(before) ==
    LET search[lo \in 0 .. Len(before), hi \in 0 .. Len(before)] ==
            LET mid == (lo + hi) \div 2
            IN  IF lo >= hi THEN lo
                ELSE IF before[mid + 1] THEN search[mid + 1, hi]
                ELSE search[lo, mid]
    IN  search[0, Len(before)] + 1

insertSorted(list, target) ==
    InsertAt(list, Place([i \in DOMAIN list |-> comparePrefixLen(list[i], target) < 0]), target)

(* The merge with the next entry of the same ports, unless it is 0.0.0.0.  *)
getNextMatchingCandidate(result, i) ==
    LET same == {j \in DOMAIN result : j > i /\ result[j].ports = result[i].ports}
        merged == Merge(result[i], result[Min(same)])
    IN  IF same = {} \/ merged.net.ip = 0 THEN <<>> ELSE <<merged>>

AddCandidates(candidates, result, indices) ==
    FoldLeft(LAMBDA cs, i : FoldLeft(LAMBDA acc, c : insertSorted(acc, c),
                                     cs, getNextMatchingCandidate(result, i)),
             candidates, indices)

NetWithPortRange == [net : [ip : Nat, ones : Nat], ports : [From : Nat, To : Nat]]

(* The copy is taken before the list is sorted.                            *)
CondenseNetWithPortRange(nwps, limit) ==
    LET condense[result \in Seq(NetWithPortRange), candidates \in Seq(NetWithPortRange)] ==
            LET longest == candidates[1]
                rest == SelectSeq(result, LAMBDA nwp : ~ContainsNet(longest, nwp))
                i == Place([j \in DOMAIN rest |-> Compare(rest[j], longest) < 0])
                merged == InsertAt(rest, i, longest)
                near == IF i = 1 THEN <<1>> ELSE <<i - 1, i>>
            IN  IF Len(result) <= limit \/ candidates = <<>> THEN result
                ELSE IF Len(rest) = Len(result) THEN condense[result, Tail(candidates)]
                ELSE condense[merged, AddCandidates(Tail(candidates), merged, near)]
    IN  IF Len(nwps) <= limit THEN nwps
        ELSE condense[nwps, AddCandidates(<<>>, nwps, [i \in 1 .. Len(nwps) - 1 |-> i])]
=============================================================================
