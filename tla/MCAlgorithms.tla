---------------------------- MODULE MCAlgorithms ----------------------------
(***************************************************************************)
(* The pure algorithms under TLC: one behaviour for each input, with one   *)
(* step that computes the output. Every property compares the output with  *)
(* what a caller of the algorithm relies on.                               *)
(***************************************************************************)
EXTENDS NetFilters, QdiscSnapshot, DiskfillSize, DnsResolve, BatchErrors, FiniteSetsExt

CONSTANTS
    MaxPortBits,    \* width of the ports whose masks are checked
    a, b, c, bad,   \* host names
    NotRun

VARIABLES in, out
vars == <<in, out>>

Wide == INSTANCE PortRanges WITH PortBits <- MaxPortBits

ASSUME WideAssumption == Wide!PortAssumption
Lists(S, n) == UNION {[1 .. k -> S] : k \in 0 .. n}
Orders(S) == SetToSeqs(S)
Done(alg) == in.alg = alg /\ out # NotRun
-----------------------------------------------------------------------------
(* Inputs.                                                                 *)

MaskInputs == [alg : {"masks"}, r : {r \in Wide!PortRange : r.From <= r.To}]

Nwps(nets, ranges) == {[net |-> n, ports |-> r] : n \in nets, r \in ranges}
ASSUME FilterAssumption == AddrBits >= 3 /\ PortBits >= 3
\* No two of these networks differ in nothing but the prefix
FilterNets == {Prefix(0, 0), Prefix(Pow2[AddrBits - 1], 1), Prefix(3 * Pow2[AddrBits - 2], 2),
               Prefix(3 * Pow2[AddrBits - 3], 3)}
FilterNwps == Nwps(FilterNets, {PortRangeAny, [From |-> 2, To |-> 5], [From |-> 4, To |-> 6],
                                [From |-> 3, To |-> 3]})
\* Every set of them, in the order opposite to the one it is sorted in
FilterLists == {q \in Lists(FilterNwps, 2) : Len(q) = 2 => Before(q[2], q[1])}
FilterInputs == [alg : {"filter"}, Include : FilterLists \ {<<>>}, Exclude : FilterLists]
CondenseNwps == Nwps({Prefix(1, 3), Prefix(2, 3), Prefix(3, 3), Prefix(4, 3), Prefix(5, 3), Prefix(6, 2)},
                     {[From |-> 2, To |-> 5], [From |-> 2, To |-> 2]})
CondenseInputs ==
    {[alg |-> "condense", nwps |-> q, limit |-> l] :
        q \in UNION {Orders(S) : S \in kSubset(4, CondenseNwps)}, l \in 1 .. 3}
OwnInputs == [alg : {"own"}, port : Ports \ {0}, health : Ports]

Q(kind, handle, parent) == [kind |-> kind, handle |-> handle, parent |-> parent]
\* A class of the root: empty, the kernel's default, tuned, or a tree of three
Below(major, minor, own) ==
    IF major = 0 THEN {{Q("fq_codel", 0, <<0, minor>>)}}
    ELSE {{}, {Q("fq_codel", 0, <<major, minor>>)}, {Q("fq", own, <<major, minor>>)},
          {Q("prio", own, <<major, minor>>), Q("fq", own + 1, <<own, 1>>)},
          {Q("prio", own, <<major, minor>>), Q("prio", own + 1, <<own, 2>>), Q("fq", own + 2, <<own + 1, 1>>)}}
Trees == {{Q("fq", 1, Root)}, {Q("noqueue", 0, Root)}}
            \cup {{Q(kind, h, Root)} \cup x : kind \in {"mq", "prio"}, h \in {1}, x \in Below(1, 1, 4)}
            \cup UNION {{{Q("mq", h, Root)} \cup x \cup y :
                    x \in Below(h, 1, 4), y \in {z \in Below(h, 2, 9) : Cardinality(z) <= 1}} : h \in {0, 1}}
\* The kernel gives an auto-managed root a hidden handle or a free one
AfterDelete(saved) ==
    LET root == CHOOSE q \in ToSet(saved) : isRootQdisc(q)
        used == {q.handle : q \in ToSet(saved) \ {root}} \ {0}
    IN  IF isKernelAutoManaged(root.kind) THEN {Q(root.kind, h, Root) : h \in {0, 15} \ used}
        ELSE {Q("noqueue", 0, Root)}
Listings == {s \in UNION {Orders(t) : t \in Trees} : IsListing(s)}
SnapshotInputs ==
    UNION {{[alg |-> "snapshot", saved |-> s, live |-> {q}, claimFails |-> f] :
                q \in AfterDelete(s), f \in BOOLEAN} : s \in Listings}

Disks == {d \in [Capacity : {0, 9, 20, 40}, Used : {0, 3, 9, 25}, Available : {0, 4, 11, 40}] :
            d.Used + d.Available <= d.Capacity}
FillInputs ==
    {[alg |-> "fill", opts |-> o, disk |-> d] :
        o \in [Mode : {"MB_TO_FILL", "PERCENTAGE", "MB_LEFT"}, Method : {"AT_ONCE", "OVER_TIME"},
               Size : 0 .. 11, BlockSize : 0 .. 5], d \in Disks}

DnsInputs ==
    [alg : {"dns"}, hostnames : Lists({a, b, bad}, 2), digFails : BOOLEAN,
     lines : Lists({Message, Alias(a), Alias(b), Address(a, 1), Address(b, 2), Address(c, 3)}, 3)]

\* Every failing command prints one message or two
Reports == {<<Text(x), Command(n)>> : x \in {"exists", "gone", "kernel", "other"}, n \in {1, 2}}
            \cup {<<Text(x), Text(y), Command(1)>> : x \in {"exists", "gone"}, y \in {"kernel", "other"}}
BatchInputs ==
    {[alg |-> "batch", reports |-> rs, rest |-> t, mode |-> m] :
        rs \in Lists(Reports, 2), t \in {<<>>, <<Text("other")>>}, m \in {"add", "del"}}
-----------------------------------------------------------------------------
Init ==
    /\ out = NotRun
    /\ \/ in \in MaskInputs
       \/ in \in FilterInputs
       \/ in \in CondenseInputs
       \/ in \in OwnInputs
       \/ in \in SnapshotInputs
       \/ in \in FillInputs
       \/ in \in DnsInputs
       \/ in \in BatchInputs

Probes == {"src", "dst"} \X (3 .. 7) \X (1 .. PortLimit - 2)
Kinds == {"tc", "psh", "blackhole", "reset"}
AttackedEnds(f) ==
    [kind \in Kinds |->
        LET rules == Rules(kind, f)
        IN  {p \in Probes : Attacked(rules, p[1], p[2], p[3])}]

Compute(alg, value) == in.alg = alg /\ out = NotRun /\ out' = value /\ UNCHANGED in

Next ==
    \/ Compute("masks", Wide!getMask(in.r))
    \/ Compute("filter", AttackedEnds(in))
    \/ Compute("condense", CondenseNetWithPortRange(in.nwps, in.limit))
    \/ Compute("own", ComputeExcludes({Prefix(5, 3)}, in.port, in.health))
    \/ Compute("snapshot", restoreSnapshot(in.live, in.saved, in.claimFails))
    \/ Compute("fill", Args(in.opts, in.disk))
    \/ Compute("dns", resolve(in.hostnames, in.lines, in.digFails))
    \/ Compute("batch", filterBatchErrors(run(TRUE, FlattenSeq(in.reports) \o in.rest), in.mode))

Spec == Init /\ [][Next]_vars
-----------------------------------------------------------------------------
(* The masks of a port range (utils.go, getMask) match its ports and no    *)
(* other, every port once, and are not more than twice the width.          *)
MasksExact ==
    Done("masks") =>
        LET blocks == [i \in DOMAIN out |-> Wide!MaskedPorts(out[i])]
            wanted == IF Wide!IsAny(in.r) THEN Wide!Ports ELSE in.r.From .. in.r.To
        IN  /\ UNION Range(blocks) = wanted
            /\ \A i, j \in DOMAIN out : i # j => blocks[i] \cap blocks[j] = {}
            /\ Len(out) <= 2 * MaxPortBits

(* After duplicates and unnecessary excludes were dropped and ranges       *)
(* were split, each kind of attack hits an end of a packet if and only if  *)
(* it is in a network and port range to include and in none to exclude     *)
(* (optimizeFilter). Filters with two networks that start at the same      *)
(* address and differ in their prefix are left out (FilterNets): of them   *)
(* Contains (types.go:169) may drop the larger.                            *)
EndsTargeted ==
    Done("filter") =>
        LET In(list, p) == \E i \in DOMAIN list : NetContains(list[i].net, p[2]) /\ ContainsPort(list[i].ports, p[3])
            targeted == {p \in Probes : In(in.Include, p) /\ ~In(in.Exclude, p)}
        IN  \A kind \in Kinds : out[kind] = targeted

(* A condensed list (CondenseNetWithPortRange) covers all that the list it *)
(* was made of covers, in whatever order that was given.                   *)
CondenseCovers ==
    Done("condense") =>
        \A i \in DOMAIN in.nwps, ip \in Addresses :
            NetContains(in.nwps[i].net, ip) =>
                \E j \in DOMAIN out :
                    /\ NetContains(out[j].net, ip)
                    /\ ContainsPort(out[j].ports, in.nwps[i].ports.From)
                    /\ ContainsPort(out[j].ports, in.nwps[i].ports.To)

(* The extension's own ports, and no other, are excluded, as one range     *)
(* when they are neighbours (ComputeExcludesForOwnIpAndPorts).             *)
OwnPortsExcluded ==
    Done("own") =>
        UNION {x.ports.From .. x.ports.To : x \in out} = {in.port, in.health} \ {0}

Tuned(saved) == {q \in ToSet(saved) : ~isKernelAutoManaged(q.kind) /\ q.parent[1] # 0}

(* p is q again, in the same class of the same qdisc or, below the root, of *)
(* the root there is now, which may have another handle than the saved one. *)
RestoredAs(q, p, saved, live) ==
    /\ p.kind = q.kind /\ p.handle = q.handle /\ p.parent[2] = q.parent[2]
    /\ isRootQdisc(q) \/ \E above \in ToSet(saved), now \in live :
            /\ above.handle = q.parent[1] /\ now.handle = p.parent[1] /\ now.handle # 0
            /\ now.kind = above.kind /\ (isRootQdisc(now) <=> isRootQdisc(above))

(* Whatever order the kernel listed the qdiscs in, replaying them fails    *)
(* for none and leaves every tuned one in its class of what it was below,  *)
(* unless the live root hides its handle and refuses the saved one         *)
(* (restoreSnapshot).                                                      *)
TreeRestored ==
    Done("snapshot") /\ (in.claimFails => \E q \in in.live : q.handle # 0) =>
        /\ out.failed = {}
        /\ \A q \in Tuned(in.saved) : \E p \in out.live :
                RestoredAs(q, p, in.saved, out.live)

(* A diskfill writes something, never more than asked for, and at least    *)
(* half of it, short by less than a block (Args).                          *)
FillMeetsTarget ==
    Done("fill") =>
        LET target ==
                CASE in.opts.Mode = "MB_TO_FILL" -> in.opts.Size * Kilo
                  [] in.opts.Mode = "PERCENTAGE" ->
                        (in.disk.Capacity * in.opts.Size) \div Hundred - in.disk.Used
                  [] OTHER -> in.disk.Available - in.opts.Size * Kilo
        IN  IF target <= 0 THEN out.written = 0
            ELSE /\ out.written <= target
                 /\ target - out.written < out.block
                 /\ 2 * out.written > target

(* Host names are resolved if and only if dig succeeded and each of them   *)
(* is valid and has an address of its own, in whatever order they come;    *)
(* then each of them has an address among those returned (resolve).        *)
AllNamesResolved ==
    Done("dns") =>
        LET wanted == ToSet(in.hostnames)
            answered == {in.lines[i].name : i \in {j \in DOMAIN in.lines : in.lines[j].kind = "address"}}
        IN  /\ ~out.err <=> wanted = {} \/ (~in.digFails /\ wanted \subseteq answered \ InvalidNames)
            /\ ~out.err => \A h \in wanted : \E i \in out.resolved : in.lines[i].name = h

(* A batch counts as done only if every command that failed said so with   *)
(* an error that is ignored in this mode and none hints at a missing       *)
(* module of the kernel; every other command that failed is reported       *)
(* (runBatchCommands, filterBatchErrors).                                  *)
NoErrorHidden ==
    Done("batch") =>
        LET ignored == IF in.mode = "add" THEN ignoreErrorsBatchAdd ELSE ignoreErrorsBatchDelete
            messages(r) == {r[j].msg : j \in 1 .. Len(r) - 1}
            real == {i \in DOMAIN in.reports : messages(in.reports[i]) \cap ignored = {}}
            hinted == {i \in DOMAIN in.reports : messages(in.reports[i]) \cap tcErrorKernelConfig # {}}
            lineno(r) == r[Len(r)].lineno
        IN  IF in.reports = <<>> THEN out.kind = "failed"
            ELSE /\ out.kind = "ok" <=> real = {} /\ hinted = {}
                 /\ {out.Errors[k].Lineno : k \in DOMAIN out.Errors} \ {0}
                        = {lineno(in.reports[i]) : i \in real}
=============================================================================
