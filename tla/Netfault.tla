------------------------------ MODULE Netfault ------------------------------
(***************************************************************************)
(* Network attacks on shared network namespaces (package netfault): the    *)
(* preflight check, Apply and Revert of every attack, the hashed lock, the *)
(* registry of active attacks, the snapshot the caller keeps, and what the *)
(* commands do to the kernel's qdisc trees, ip rules and iptables chains.  *)
(* An attack stands for its caller: it is applied at most once and         *)
(* reverted until a revert succeeds. An operator whose comment begins with *)
(* "Fault:" is a plausible mistake in the definition that follows it.      *)
(***************************************************************************)
EXTENDS Naturals, FiniteSets

CONSTANTS
    Attacks,        \* executions of network attacks
    NoAttack,       \* nobody holds a lock
    opts,           \* the options of each attack
    netNs,          \* the network namespace each attack works on
    Hash,           \* the mutex of the hashed lock each namespace maps to
    Interfaces,     \* network interfaces, each of one namespace
    Original,       \* the qdisc tree each interface has before any attack
    Excessive,      \* attacks whose filter takes more tc commands than allowed
    Strict,         \* strictRootQdisc
    Faults,         \* the steps of each attack that may fail: see FaultKinds
    MaxFaults,      \* bound on what goes wrong: failing steps and restarts
    MaxRestarts     \* bound on the restarts of the extension among them

FaultKinds == {"inspect", "capture", "add", "delete", "restore"}
Types == {"delay", "loss", "corruption", "bandwidth", "blackhole", "reset"}
Namespaces == {netNs[a] : a \in Attacks}

VARIABLES
    pc,         \* what each attack's caller is doing
    err,        \* the error generateAndRunCommands has collected so far
    snapshot,   \* the snapshot the caller of each attack keeps: interface -> tree
    mutex,      \* runLock: the attack holding each mutex
    activeNetfault, \* the active attacks of each namespace
    tree,       \* kernel: the qdisc tree of each interface
    rules,      \* kernel: the ip rules of each namespace
    chains,     \* kernel: number of jumps to each iptables chain of a namespace
    faults, restarts,   \* failures and restarts so far
    lossy,      \* history: namespaces where the code gave up on restoring
    unchecked,  \* history: interfaces whose root nothing refused, though it is not safe
    inherited   \* history: interfaces where an attack captured the tree of another one

caller == <<pc, err, snapshot>>
kernel == <<tree, rules, chains>>
history == <<faults, restarts, lossy, unchecked, inherited>>
vars == <<caller, mutex, activeNetfault, kernel, history>>
-----------------------------------------------------------------------------
(* What each attack compares and installs.                                 *)

DelayCompares == {"type", "Delay", "Jitter", "TcpPshOnly", "Filter", "Interfaces"}
PackageLossCompares == {"type", "Loss", "Filter", "Interfaces"}
CorruptionCompares == {"type", "Corruption", "Filter", "Interfaces"}
BandwidthCompares == {"type", "Bandwidth", "Filter", "Interfaces"}
BlackholeCompares == {"type", "IpProto", "Filter"}
TcpResetCompares == {"type", "Filter", "Interfaces"}

Compares(o) ==
    CASE o.type = "delay" -> DelayCompares
      [] o.type = "loss" -> PackageLossCompares
      [] o.type = "corruption" -> CorruptionCompares
      [] o.type = "bandwidth" -> BandwidthCompares
      [] o.type = "blackhole" -> BlackholeCompares
      [] OTHER -> TcpResetCompares

ASSUME NetfaultAssumption ==
    /\ NoAttack \notin Attacks
    /\ \A a \in Attacks : opts[a].type \in Types /\ Compares(opts[a]) \subseteq DOMAIN opts[a]
    /\ Namespaces \subseteq DOMAIN Hash
    /\ Strict \in BOOLEAN
    /\ \A a \in Attacks : Faults[a] \subseteq FaultKinds
    /\ MaxFaults \in Nat /\ MaxRestarts \in Nat

Parts == {"netem", "u32", "fw", "class"}

doesConflictWith(o, active) ==
    \/ o.type # active.type
    \/ \E field \in Compares(o) : o[field] # active[field]

(* The qdisc tree of an attack: its root and what hangs below.             *)
DelayTree(o) ==
    [root |-> "prio", parts |-> {"netem", IF o.TcpPshOnly THEN "fw" ELSE "u32"}]
PackageLossTree == [root |-> "prio", parts |-> {"netem", "u32"}]
CorruptionTree == [root |-> "prio", parts |-> {"netem", "u32"}]
BandwidthTree == [root |-> "htb", parts |-> {"class", "u32"}]

UsesTc(o) == o.type \in {"delay", "loss", "corruption", "bandwidth"}
tcTree(o) ==
    CASE o.type = "delay" -> DelayTree(o)
      [] o.type = "loss" -> PackageLossTree
      [] o.type = "corruption" -> CorruptionTree
      [] OTHER -> BandwidthTree

tcRootQdiscInterfaces(o) == IF UsesTc(o) THEN o.Interfaces ELSE {}

(* Finitely many attacks; an interface is of one namespace; what it has    *)
(* before any attack: the kernel's default, a tree a snapshot can hold or  *)
(* one of a user.                                                          *)
ASSUME InterfacesAssumption ==
    /\ IsFiniteSet(Attacks)
    /\ \A a \in Attacks : tcRootQdiscInterfaces(opts[a]) \subseteq Interfaces
    /\ \A a, b \in Attacks :
            tcRootQdiscInterfaces(opts[a]) \cap tcRootQdiscInterfaces(opts[b]) # {}
                => netNs[a] = netNs[b]
    /\ Original \in [Interfaces -> [root : {"noqueue", "tuned", "user"}, parts : SUBSET Parts]]
    /\ \A i \in Interfaces :
            /\ Original[i].root = "noqueue" => Original[i].parts = {}
            /\ Original[i].root = "tuned" => "class" \notin Original[i].parts

(* ErrTooManyTcCommands depends on the options alone.                      *)
ASSUME ExcessiveAssumption == \A a \in Excessive : a \in Attacks /\ UsesTc(opts[a])

ipRules(o) ==
    IF o.type = "blackhole" THEN {o.IpProto} \X {o.Filter} \X {"to", "from"} ELSE {}

(* The chain of a PSH delay has one name, that of a reset its execution's; *)
(* the tables of a reset's script are taken together.                      *)
delayChain(o) ==
    IF o.type = "delay" /\ o.TcpPshOnly THEN {"STEADYBIT_DELAY"} ELSE {}
resetChain(a) == IF opts[a].type = "reset" THEN {a} ELSE {}
chainsOf(a) == delayChain(opts[a]) \cup resetChain(a)
Chains == UNION {chainsOf(a) : a \in Attacks}

Commands(a) ==
    (IF UsesTc(opts[a]) THEN {"root"} \cup tcTree(opts[a]).parts ELSE {})
        \cup ipRules(opts[a]) \cup chainsOf(a)
-----------------------------------------------------------------------------
(* The kernel: the effect of the commands in ok, the others fail.          *)

AttackRoots == {"prio", "htb"}
DefaultTree == [root |-> "noqueue", parts |-> {}]

(* `tc -force`: replace the root (a change when it is of the same kind),   *)
(* then add children; what already exists is left alone.                   *)
AfterAdd(t, own, ok) ==
    LET replaced == IF "root" \notin ok \/ t.root = own.root THEN t
                    ELSE [root |-> own.root, parts |-> {}]
    IN  IF replaced.root \in AttackRoots
        THEN [replaced EXCEPT !.parts = @ \cup (own.parts \cap ok)]
        ELSE replaced

(* Filters and children first, the root last; a root that is not 1: is not *)
(* ours and stays.                                                         *)
AfterDelete(t, own, ok) ==
    IF t.root \notin AttackRoots THEN t
    ELSE IF "root" \in ok /\ t.root = own.root THEN DefaultTree
    ELSE [t EXCEPT !.parts = @ \ (own.parts \cap ok)]

WrongKind(t, own) == t.root \in AttackRoots /\ t.root # own.root

(* What a snapshot of a tree holds: qdiscs and filters, no classes.        *)
Captured(t) == [t EXCEPT !.parts = @ \ {"class"}]

(* Replaying a tree: kernel-managed roots are skipped, others replaced.    *)
Restored(t, saved) ==
    IF saved.root = "noqueue" THEN t
    ELSE IF t.root = saved.root THEN [t EXCEPT !.parts = @ \cup saved.parts]
    ELSE saved
-----------------------------------------------------------------------------
None == [i \in {} |-> DefaultTree]
BeforeApply == {"new", "inspect", "prepared", "refused"}
InApply == {"push", "capture", "add"}
InRevert == {"delete", "pop", "restore"}
Applied == {"active", "failed", "stopFailed"}
PC == BeforeApply \cup InApply \cup InRevert \cup Applied \cup {"done"}
Holding(a) == pc[a] \in InApply \cup InRevert

Init ==
    /\ pc = [a \in Attacks |-> "new"]
    /\ err = [a \in Attacks |-> FALSE]
    /\ snapshot = [a \in Attacks |-> None]
    /\ mutex = [h \in {Hash[n] : n \in Namespaces} |-> NoAttack]
    /\ activeNetfault = [n \in Namespaces |-> {}]
    /\ tree = Original
    /\ rules = [n \in Namespaces |-> {}]
    /\ chains = [n \in Namespaces |-> [c \in Chains |-> 0]]
    /\ faults = 0 /\ restarts = 0 /\ lossy = {} /\ unchecked = {} /\ inherited = {}

Goto(a, label) == pc' = [pc EXCEPT ![a] = label]
GoesWrong == faults + restarts < MaxFaults
MayFail(a, kind) == kind \in Faults[a] /\ GoesWrong
Unlock(a) == mutex' = [mutex EXCEPT ![Hash[netNs[a]]] = NoAttack]
Lose(a) == lossy' = lossy \cup {netNs[a]}

SafeRoots == IF Strict THEN {"noqueue"} ELSE {"noqueue", "tuned"}
UnsafeInterfaces == {i \in Interfaces : Original[i].root \notin SafeRoots}
Unchecked(a) ==
    unchecked' = unchecked \cup (tcRootQdiscInterfaces(opts[a]) \cap UnsafeInterfaces)

(* Fault: every root qdisc may be replaced.                                *)
AnyRootIsSafe(kind) == TRUE

isSafeRootQdiscKind(kind) == kind \in SafeRoots

(* PreflightCheck, its look into the registry: while any attack is active  *)
(* in the namespace nothing is checked.                                    *)
Preflight(a) ==
    /\ pc[a] = "new"
    /\ \/ /\ tcRootQdiscInterfaces(opts[a]) # {} /\ activeNetfault[netNs[a]] = {}
          /\ Goto(a, "inspect")
          /\ UNCHANGED history
       \/ /\ tcRootQdiscInterfaces(opts[a]) = {} \/ activeNetfault[netNs[a]] # {}
          /\ Goto(a, "prepared")
          /\ Unchecked(a)
          /\ UNCHANGED <<faults, restarts, lossy, inherited>>
    /\ UNCHANGED <<err, snapshot, mutex, activeNetfault, kernel>>

(* PreflightCheck, `tc qdisc show`: when it fails the check is skipped.    *)
Inspect(a) ==
    /\ pc[a] = "inspect"
    /\ \/ /\ Goto(a, IF \A i \in opts[a].Interfaces : isSafeRootQdiscKind(tree[i].root)
                     THEN "prepared" ELSE "refused")
          /\ UNCHANGED history
       \/ /\ MayFail(a, "inspect")
          /\ Goto(a, "prepared")
          /\ faults' = faults + 1
          /\ Unchecked(a)
          /\ UNCHANGED <<restarts, lossy, inherited>>
    /\ UNCHANGED <<err, snapshot, mutex, activeNetfault, kernel>>

(* runLock.LockKey: namespaces with the same hash wait for each other.     *)
Lock(a, label) ==
    /\ mutex[Hash[netNs[a]]] = NoAttack
    /\ mutex' = [mutex EXCEPT ![Hash[netNs[a]]] = a]
    /\ Goto(a, label)
    /\ err' = [err EXCEPT ![a] = FALSE]
    /\ UNCHANGED <<snapshot, activeNetfault, kernel, history>>

Apply(a) == a \notin Excessive /\ pc[a] = "prepared" /\ Lock(a, "push")
Revert(a) == a \notin Excessive /\ pc[a] \in Applied /\ Lock(a, "delete")

(* generateCommands: its error ends Apply, and Revert, before the lock.    *)
generateCommandsFails(a) ==
    /\ a \in Excessive
    /\ \/ pc[a] = "prepared" /\ Goto(a, "failed")
       \/ pc[a] \in Applied /\ Goto(a, "stopFailed")
    /\ UNCHANGED <<err, snapshot, mutex, activeNetfault, kernel, history>>

(* Fault: the call that is refused keeps the lock.                         *)
PushKeepingLock(a) ==
    /\ pc[a] = "push"
    /\ IF \E b \in activeNetfault[netNs[a]] : doesConflictWith(opts[a], opts[b])
       THEN Goto(a, "failed") /\ UNCHANGED activeNetfault
       ELSE /\ Goto(a, "capture")
            /\ activeNetfault' = [activeNetfault EXCEPT ![netNs[a]] = @ \cup {a}]
    /\ UNCHANGED <<err, snapshot, mutex, kernel, history>>

(* Fault: the attack is registered without a look at the active ones.      *)
PushUnchecked(a) ==
    /\ pc[a] = "push"
    /\ Goto(a, "capture")
    /\ activeNetfault' = [activeNetfault EXCEPT ![netNs[a]] = @ \cup {a}]
    /\ UNCHANGED <<err, snapshot, mutex, kernel, history>>

(* pushActiveNetfault: a conflict ends the call.                           *)
pushActiveNetfault(a) ==
    /\ pc[a] = "push"
    /\ IF \E b \in activeNetfault[netNs[a]] : doesConflictWith(opts[a], opts[b])
       THEN /\ Goto(a, "failed")
            /\ Unlock(a)
            /\ UNCHANGED activeNetfault
       ELSE /\ Goto(a, "capture")
            /\ activeNetfault' = [activeNetfault EXCEPT ![netNs[a]] = @ \cup {a}]
            /\ UNCHANGED mutex
    /\ UNCHANGED <<err, snapshot, kernel, history>>

(* Fault: every interface is captured, not only those of the attack.       *)
CaptureAll(a) ==
    /\ pc[a] = "capture"
    /\ Goto(a, "add")
    /\ snapshot' = [snapshot EXCEPT ![a] = [i \in Interfaces |-> Captured(tree[i])]]
    /\ UNCHANGED <<err, mutex, activeNetfault, kernel, history>>

(* captureSnapshotForApply: a failure leaves an empty snapshot. Nothing    *)
(* tells a tree of another attack from one of the host.                    *)
captureSnapshotForApply(a) ==
    LET ifs == tcRootQdiscInterfaces(opts[a])
    IN  /\ pc[a] = "capture"
        /\ Goto(a, "add")
        /\ \/ /\ Strict
              /\ snapshot' = [snapshot EXCEPT ![a] = None]
              /\ UNCHANGED history
           \/ /\ ~Strict
              /\ snapshot' = [snapshot EXCEPT ![a] = [i \in ifs |-> Captured(tree[i])]]
              /\ inherited' = inherited \cup {i \in ifs : tree[i].root \in AttackRoots}
              /\ UNCHANGED <<faults, restarts, lossy, unchecked>>
           \/ /\ MayFail(a, "capture") /\ ifs # {} /\ ~Strict
              /\ faults' = faults + 1
              /\ Lose(a)
              /\ UNCHANGED <<snapshot, restarts, unchecked, inherited>>
        /\ UNCHANGED <<err, mutex, activeNetfault, kernel>>

(* runIptablesScripts and runBatchCommands of modeAdd.                     *)
AddRules(a, ok) ==
    /\ tree' = [i \in Interfaces |->
            IF i \in tcRootQdiscInterfaces(opts[a])
            THEN AfterAdd(tree[i], tcTree(opts[a]), ok) ELSE tree[i]]
    /\ rules' = [rules EXCEPT ![netNs[a]] = @ \cup (ipRules(opts[a]) \cap ok)]
    /\ chains' = [chains EXCEPT ![netNs[a]] =
            [c \in Chains |-> IF c \in chainsOf(a) \cap ok THEN @[c] + 1 ELSE @[c]]]

(* The commands that fail: any of them, or the whole run.                  *)
SomeFail(a) == (SUBSET Commands(a)) \ {{}}

(* An apply that failed drops its snapshot.                                *)
AddFails(a) ==
    /\ MayFail(a, "add")
    /\ \E failed \in SomeFail(a) : AddRules(a, Commands(a) \ failed)
    /\ Goto(a, "failed")
    /\ snapshot' = [snapshot EXCEPT ![a] = None]
    /\ faults' = faults + 1
    /\ IF UsesTc(opts[a]) THEN Lose(a) ELSE UNCHANGED lossy
    /\ UNCHANGED <<restarts, unchecked, inherited>>

AddSucceeds(a) ==
    /\ AddRules(a, Commands(a))
    /\ Goto(a, "active")
    /\ UNCHANGED <<snapshot, history>>

(* Fault: an apply that failed takes its attack out of the registry.       *)
AddForgetsFailed(a) ==
    /\ pc[a] = "add"
    /\ \/ AddSucceeds(a) /\ UNCHANGED activeNetfault
       \/ AddFails(a) /\ activeNetfault' = [activeNetfault EXCEPT ![netNs[a]] = @ \ {a}]
    /\ Unlock(a)
    /\ UNCHANGED err

(* The rest of Apply: whether or not it succeeded the attack stays active. *)
RunAdd(a) ==
    /\ pc[a] = "add"
    /\ AddSucceeds(a) \/ AddFails(a)
    /\ Unlock(a)
    /\ UNCHANGED <<err, activeNetfault>>

(* A delete script is one transaction of its table: it fails when a chain  *)
(* is missing, or still jumped to after one jump was removed.              *)
RemovableChains(a) == {c \in chainsOf(a) : chains[netNs[a]][c] = 1}

(* runIptablesScripts and runBatchCommands of modeDelete; what is absent   *)
(* is ignored by filterBatchErrors, but not for iptables.                  *)
DeleteRules(a, ok) ==
    LET ifs == tcRootQdiscInterfaces(opts[a])
    IN  /\ tree' = [i \in Interfaces |->
                IF i \in ifs THEN AfterDelete(tree[i], tcTree(opts[a]), ok) ELSE tree[i]]
        /\ rules' = [rules EXCEPT ![netNs[a]] = @ \ (ipRules(opts[a]) \cap ok)]
        /\ chains' = [chains EXCEPT ![netNs[a]] =
                [c \in Chains |-> IF c \in RemovableChains(a) \cap ok THEN 0 ELSE @[c]]]
        /\ err' = [err EXCEPT ![a] =
                \/ Commands(a) # ok
                \/ RemovableChains(a) # chainsOf(a)
                \/ \E i \in ifs : WrongKind(tree[i], tcTree(opts[a]))]

RunDelete(a) ==
    /\ pc[a] = "delete"
    /\ Goto(a, "pop")
    /\ \/ DeleteRules(a, Commands(a)) /\ UNCHANGED faults
       \/ /\ MayFail(a, "delete")
          /\ faults' = faults + 1
          /\ \E failed \in SomeFail(a) : DeleteRules(a, Commands(a) \ failed)
    /\ UNCHANGED <<snapshot, mutex, activeNetfault, restarts, lossy, unchecked, inherited>>

(* popActiveNetfault: the attack is no longer active whether or not its    *)
(* commands succeeded.                                                     *)
popActiveNetfault(a) ==
    /\ pc[a] = "pop"
    /\ Goto(a, "restore")
    /\ activeNetfault' = [activeNetfault EXCEPT ![netNs[a]] = @ \ {a}]
    /\ UNCHANGED <<err, snapshot, mutex, kernel, history>>

(* What a revert can replay.                                               *)
Incoming(a) == IF Strict THEN {} ELSE DOMAIN snapshot[a]
Replay(a, ifs) ==
    tree' = [i \in Interfaces |->
        IF i \in ifs THEN Restored(tree[i], snapshot[a][i]) ELSE tree[i]]

(* Fault: the error of a failing command is forgotten.                     *)
IgnoreError(a) ==
    /\ pc[a] = "restore"
    /\ Replay(a, Incoming(a))
    /\ Goto(a, "done")
    /\ Unlock(a)
    /\ UNCHANGED <<err, snapshot, activeNetfault, rules, chains, history>>

(* Fault: the snapshot is dropped although replaying it failed.            *)
DropSnapshot(a) ==
    /\ pc[a] = "restore"
    /\ Unlock(a)
    /\ \/ /\ Replay(a, Incoming(a))
          /\ Goto(a, "done")
          /\ UNCHANGED <<snapshot, faults>>
       \/ /\ MayFail(a, "restore")
          /\ faults' = faults + 1
          /\ Goto(a, "stopFailed")
          /\ snapshot' = [snapshot EXCEPT ![a] = None]
          /\ UNCHANGED tree
    /\ UNCHANGED <<err, activeNetfault, rules, chains, restarts, lossy, unchecked, inherited>>

(* applyRestore and the deferred unlock: the errors are joined.            *)
applyRestore(a) ==
    /\ pc[a] = "restore"
    /\ Unlock(a)
    /\ \/ /\ Replay(a, Incoming(a))
          /\ Goto(a, IF err[a] THEN "stopFailed" ELSE "done")
          /\ UNCHANGED faults
       \/ /\ MayFail(a, "restore") /\ Incoming(a) # {}
          /\ faults' = faults + 1
          /\ \E ifs \in SUBSET Incoming(a) : Replay(a, ifs)
          /\ Goto(a, "stopFailed")
    /\ UNCHANGED <<err, snapshot, activeNetfault, rules, chains, restarts, lossy, unchecked, inherited>>

(* The extension restarts: the registry and the locks are lost and calls   *)
(* break off, an apply with its snapshot; the options and the snapshots it *)
(* returned are the callers'.                                              *)
Restart ==
    /\ GoesWrong /\ restarts < MaxRestarts
    /\ restarts' = restarts + 1
    /\ pc' = [a \in Attacks |->
            CASE pc[a] = "inspect" -> "refused"
              [] pc[a] \in InApply -> "failed"
              [] pc[a] \in InRevert -> "stopFailed"
              [] OTHER -> pc[a]]
    /\ snapshot' = [a \in Attacks |-> IF pc[a] \in InApply THEN None ELSE snapshot[a]]
    /\ mutex' = [h \in DOMAIN mutex |-> NoAttack]
    /\ activeNetfault' = [n \in Namespaces |-> {}]
    /\ lossy' = lossy \cup {netNs[a] : a \in {b \in Attacks : pc[b] \in InApply}}
    /\ UNCHANGED <<err, kernel, faults, unchecked, inherited>>

Step(a) ==
    \/ Preflight(a) \/ Inspect(a)
    \/ generateCommandsFails(a)
    \/ Apply(a) \/ pushActiveNetfault(a) \/ captureSnapshotForApply(a) \/ RunAdd(a)
    \/ Revert(a) \/ RunDelete(a) \/ popActiveNetfault(a) \/ applyRestore(a)

(* Nobody wants anything any more: the only states without another step.   *)
AllEnded ==
    /\ \A a \in Attacks : pc[a] \in {"refused", "done"}
    /\ UNCHANGED vars

Next == Restart \/ AllEnded \/ \E a \in Attacks : Step(a)

Spec == Init /\ [][Next]_vars

(* A call that has the lock goes on; Go's mutexes do not starve a waiter,  *)
(* and the caller repeats a failing revert.                                *)
CallStep(a) ==
    Inspect(a) \/ pushActiveNetfault(a) \/ captureSnapshotForApply(a)
        \/ RunAdd(a) \/ RunDelete(a) \/ popActiveNetfault(a) \/ applyRestore(a)
Fairness == \A a \in Attacks : WF_vars(CallStep(a)) /\ SF_vars(Revert(a))
FairSpec == Spec /\ Fairness
-----------------------------------------------------------------------------
(* Properties.                                                             *)

IsTree(t) == t.root \in AttackRoots \cup {"noqueue", "tuned", "user"}
                /\ t.parts \subseteq Parts

(* Types of the variables.                                                 *)
TypeOK ==
    /\ pc \in [Attacks -> PC]
    /\ err \in [Attacks -> BOOLEAN]
    /\ \A a \in Attacks : \A i \in DOMAIN snapshot[a] :
            i \in tcRootQdiscInterfaces(opts[a]) /\ IsTree(snapshot[a][i])
    /\ mutex \in [{Hash[n] : n \in Namespaces} -> Attacks \cup {NoAttack}]
    /\ activeNetfault \in [Namespaces -> SUBSET Attacks]
    /\ \A i \in Interfaces : IsTree(tree[i])
    /\ \A n \in Namespaces : chains[n] \in [Chains -> 0 .. Cardinality(Attacks)]
    /\ lossy \subseteq Namespaces /\ unchecked \cup inherited \subseteq Interfaces

(* The lock belongs to the one call that works on a namespace of its hash, *)
(* from LockKey to the deferred UnlockKey, whichever way the call returns. *)
LockIsHeld ==
    \A a \in Attacks : Holding(a) <=> mutex[Hash[netNs[a]]] = a

(* No two attacks of which one conflicts with the other are ever active on *)
(* one network namespace.                                                  *)
NoConflictingActive ==
    \A n \in Namespaces : \A a, b \in activeNetfault[n] : ~doesConflictWith(opts[a], opts[b])

Idle(n) == \A a \in Attacks : netNs[a] = n => pc[a] \in BeforeApply \cup {"done"}
InterfacesOf(n) == UNION {tcRootQdiscInterfaces(opts[a]) : a \in {b \in Attacks : netNs[b] = n}}

(* What the registry is for: an attack it lets in finds no qdiscs of       *)
(* another attack on its interfaces, neither of an active one nor of one   *)
(* whose apply failed half way. There are three exceptions: an attack with *)
(* equal options, which does not conflict; one whose revert failed, which  *)
(* is forgotten with its qdiscs in place (netfault.go:193); and one that   *)
(* was in place when the extension restarted.                              *)
AdmittedAlone ==
    \A a \in Attacks : pc[a] = "capture" =>
        \A i \in tcRootQdiscInterfaces(opts[a]) \ inherited :
            tree[i].root \in AttackRoots =>
                \E b \in Attacks \ {a} :
                    /\ i \in tcRootQdiscInterfaces(opts[b]) /\ tree[i].root = tcTree(opts[b]).root
                    /\ \/ ~doesConflictWith(opts[a], opts[b])
                       \/ pc[b] = "stopFailed"
                       \/ restarts > 0

(* Once every attack on a namespace is reverted nothing of them is left,   *)
(* neither ip rules nor chains nor qdiscs, however the attacks were        *)
(* refused, failed half way, were cut off by a restart or had their revert *)
(* repeated. Qdiscs may only be left on an interface where an attack took  *)
(* those of another for the host's: see AdmittedAlone.                     *)
NoResidue ==
    \A n \in Namespaces : Idle(n) =>
        /\ rules[n] = {}
        /\ \A c \in Chains : chains[n][c] = 0
        /\ \A i \in InterfacesOf(n) \ inherited : tree[i].root \notin AttackRoots

RestoredExcept(interfaces) ==
    \A n \in Namespaces : Idle(n) /\ n \notin lossy =>
        \A i \in InterfacesOf(n) \ interfaces : tree[i] = Original[i]

(* ... and the interfaces have the qdiscs they had before the first attack,*)
(* unless the code lost a snapshot, in a failing capture or apply, an      *)
(* unsafe root was never checked, or an attack captured another's qdiscs.  *)
NamespaceRestored == RestoredExcept(unchecked \cup inherited)

(* Without the last exception, on the word of CHANGELOG.md:37-38 that the  *)
(* registry serializes the attacks of a namespace: equal attacks overlap.  *)
OverlapsRestored == RestoredExcept(unchecked)

(* A root qdisc that is not safe, of a user or the CNI or in strict mode   *)
(* a tuned one, is never replaced, unless the preflight check could not    *)
(* look at it or was skipped because of another attack in the namespace    *)
(* (ErrUserRootQdisc).                                                     *)
UserRootKept ==
    \A i \in UnsafeInterfaces \ unchecked : tree[i] = Original[i]

(* An attack that is in place is reverted in the end, by a revert that     *)
(* reports success, when its caller repeats a failing one.                 *)
RevertCompletes == \A a \in Attacks : (pc[a] = "active") ~> (pc[a] = "done")
=============================================================================
