--------------------------- MODULE QdiscSnapshot ---------------------------
(***************************************************************************)
(* Replaying the captured qdisc tree of one interface (package netfault,   *)
(* snapshot.go and snapshot_linux.go) on the tree the kernel attaches      *)
(* after the attack's root was deleted, and what Replace does in the       *)
(* kernel. A qdisc is [kind, handle, parent]: its handle is a major        *)
(* number, 0 when the kernel keeps it hidden, its parent a class, <<major, *)
(* minor>>, or Root.                                                       *)
(***************************************************************************)
EXTENDS Integers, SequencesExt

Root == <<-1, -1>>

isKernelAutoManaged(kind) == kind \in {"mq", "clsact", "ingress", "noqueue", "pfifo_fast"}
isRootQdisc(q) == q.parent = Root
shouldSkipQdiscOnRestore(q) ==
    isKernelAutoManaged(q.kind) \/ (~isRootQdisc(q) /\ q.parent[1] = 0)
shouldClaimRoot(q) == isRootQdisc(q) /\ isKernelAutoManaged(q.kind) /\ q.handle # 0

(* The places in a listing of the qdiscs whose handle a parent names.      *)
Owners(qs, q) == {j \in DOMAIN qs : qs[j].handle # 0 /\ qs[j].handle = q.parent[1]}
-----------------------------------------------------------------------------
(* The kernel.                                                             *)

(* A qdisc can be attached at the root, or to a class of one whose handle  *)
(* is known; it takes the place of what is there.                          *)
Attachable(live, q) ==
    isRootQdisc(q) \/ \E p \in live : p.handle # 0 /\ p.handle = q.parent[1]
Replace(live, q) ==
    IF isRootQdisc(q) THEN {q} ELSE {p \in live : p.parent # q.parent} \cup {q}

(* What it lists of an interface, in any order: one root, no two qdiscs in *)
(* a place, each in a class of another one that the kernel did not attach  *)
(* by itself below the root; below a hidden handle all handles are hidden. *)
Qdiscs(kinds) == [kind : kinds, handle : Nat, parent : {Root} \cup (Nat \X Nat)]
IsListing(qs) ==
    /\ \E i \in DOMAIN qs : isRootQdisc(qs[i])
    /\ \A i, j \in DOMAIN qs : i # j =>
            qs[i].parent # qs[j].parent /\ (qs[i].handle = qs[j].handle => qs[i].handle = 0)
    /\ \A i \in DOMAIN qs : isRootQdisc(qs[i]) \/ \E j \in DOMAIN qs :
            /\ qs[j].handle = qs[i].parent[1]
            /\ isRootQdisc(qs[j]) \/ ~isKernelAutoManaged(qs[j].kind)
            /\ qs[j].handle = 0 => isRootQdisc(qs[j]) /\ qs[i].handle = 0
    /\ \A S \in SUBSET DOMAIN qs : S # {} =>
            \E i \in S : isRootQdisc(qs[i]) \/ Owners(qs, qs[i]) \cap S = {}

(* claimAutoManagedRootHandles: the root is attached anew under its saved  *)
(* handle; a failure is logged and passed over.                            *)
claimAutoManagedRootHandles(live, saved, fails) ==
    LET roots == {q \in ToSet(saved) : shouldClaimRoot(q)}
    IN  IF roots = {} \/ fails THEN live ELSE roots
-----------------------------------------------------------------------------
(* reAnchorAutoManagedParents: the majors the saved roots have now.        *)
buildAutoManagedRewriteMap(saved, live) ==
    LET counterparts == {x \in ToSet(saved) \X live :
            /\ isRootQdisc(x[1]) /\ isKernelAutoManaged(x[1].kind)
            /\ isRootQdisc(x[2]) /\ x[2].kind = x[1].kind}
    IN  {<<x[1].handle, x[2].handle>> : x \in counterparts}
applyParentRewrites(saved, rewrite) ==
    [i \in DOMAIN saved |->
        IF isRootQdisc(saved[i]) \/ ~\E r \in rewrite : r[1] = saved[i].parent[1] THEN saved[i]
        ELSE [saved[i] EXCEPT !.parent =
                <<(CHOOSE r \in rewrite : r[1] = saved[i].parent[1])[2], saved[i].parent[2]>>]]
reAnchorAutoManagedParents(saved, live) ==
    applyParentRewrites(saved, buildAutoManagedRewriteMap(saved, live))
-----------------------------------------------------------------------------
(* Fault: the qdiscs are replayed as they were listed.                     *)
ListingOrder(qs) == qs

(* One pass emits the qdiscs whose parent is not in the snapshot or was    *)
(* emitted before them; a qdisc that never is comes last. Every pass but   *)
(* the last emits one, so there are no more passes than qdiscs.            *)
Emit(qs, done, i) ==
    IF /\ i \notin ToSet(done)
       /\ isRootQdisc(qs[i]) \/ Owners(qs, qs[i]) \subseteq ToSet(done)
    THEN Append(done, i) ELSE done
AppendMissing(done, i) == IF i \in ToSet(done) THEN done ELSE Append(done, i)
Indices(qs) == [i \in DOMAIN qs |-> i]

emitQdiscsWithKnownParents(qs, emitted) ==
    FoldLeft(LAMBDA done, i : Emit(qs, done, i), emitted, Indices(qs))
emitUntilFixedPoint(qs) ==
    FoldLeft(LAMBDA emitted, n : emitQdiscsWithKnownParents(qs, emitted), <<>>, Indices(qs))
orderQdiscsForRestore(qs) ==
    LET all == FoldLeft(AppendMissing, emitUntilFixedPoint(qs), Indices(qs))
    IN  [k \in DOMAIN all |-> qs[all[k]]]

(* What the interface has afterwards, and the qdiscs that failed.          *)
restoreQdisc(acc, q) ==
    IF shouldSkipQdiscOnRestore(q) THEN acc
    ELSE IF Attachable(acc.live, q) THEN [acc EXCEPT !.live = Replace(@, q)]
    ELSE [acc EXCEPT !.failed = @ \cup {q}]
restoreInterfaceQdiscs(live, saved) ==
    FoldLeft(restoreQdisc, [live |-> live, failed |-> {}], orderQdiscsForRestore(saved))

restoreSnapshot(live, saved, claimFails) ==
    LET claimed == claimAutoManagedRootHandles(live, saved, claimFails)
    IN  restoreInterfaceQdiscs(claimed, reAnchorAutoManagedParents(saved, claimed))
=============================================================================
