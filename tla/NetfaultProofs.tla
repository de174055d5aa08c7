--------------------------- MODULE NetfaultProofs ---------------------------
(***************************************************************************)
(* Theorems about Netfault, for every set of attacks, assignment of        *)
(* namespaces to mutexes, and bound on faults and restarts: the lock is    *)
(* held by the call that works, no two active attacks conflict, an unsafe  *)
(* root qdisc is kept, an attack that is let in is alone, and a namespace  *)
(* whose attacks are all reverted has no rule of them left and its qdiscs  *)
(* back. No theorem assumes anything beyond the assumptions of Netfault.   *)
(***************************************************************************)
EXTENDS Netfault, FiniteSetTheorems, TLAPS

(* What the three invariants need of the types.                            *)
LockTypes ==
    /\ pc \in [Attacks -> PC]
    /\ mutex \in [{Hash[n] : n \in Namespaces} -> Attacks \cup {NoAttack}]
    /\ activeNetfault \in [Namespaces -> SUBSET Attacks]
    /\ restarts \in Nat

(* The steps of a call that neither takes nor releases the lock nor        *)
(* registers anything: it stays before, inside or after its critical part. *)
Quiet(a) ==
    /\ UNCHANGED <<mutex, activeNetfault, restarts>>
    /\ \/ pc[a] \in BeforeApply /\ \E l \in BeforeApply : Goto(a, l)
       \/ pc[a] = "prepared" /\ Goto(a, "failed")
       \/ pc[a] = "capture" /\ Goto(a, "add")
       \/ pc[a] = "delete" /\ Goto(a, "pop")
       \/ pc[a] \in Applied /\ Goto(a, "stopFailed")

(* The steps that take the lock, release it, or change the registry.       *)
Takes(a) ==
    /\ \/ pc[a] = "prepared" /\ Goto(a, "push")
       \/ pc[a] \in Applied /\ Goto(a, "delete")
    /\ mutex[Hash[netNs[a]]] = NoAttack
    /\ mutex' = [mutex EXCEPT ![Hash[netNs[a]]] = a]
    /\ UNCHANGED <<activeNetfault, restarts>>

Releases(a) ==
    /\ \/ pc[a] = "push" /\ Goto(a, "failed")
       \/ pc[a] = "add" /\ \E l \in {"active", "failed"} : Goto(a, l)
       \/ pc[a] = "restore" /\ \E l \in {"done", "stopFailed"} : Goto(a, l)
    /\ Unlock(a)
    /\ UNCHANGED <<activeNetfault, restarts>>

Registers(a) ==
    /\ pc[a] = "push" /\ Goto(a, "capture")
    /\ \A b \in activeNetfault[netNs[a]] : ~doesConflictWith(opts[a], opts[b])
    /\ activeNetfault' = [activeNetfault EXCEPT ![netNs[a]] = @ \cup {a}]
    /\ UNCHANGED <<mutex, restarts>>

Unregisters(a) ==
    /\ pc[a] = "pop" /\ Goto(a, "restore")
    /\ activeNetfault' = [activeNetfault EXCEPT ![netNs[a]] = @ \ {a}]
    /\ UNCHANGED <<mutex, restarts>>

LEMMA StepKinds ==
    ASSUME NEW a \in Attacks, Step(a)
    PROVE  Quiet(a) \/ Takes(a) \/ Releases(a) \/ Registers(a) \/ Unregisters(a)
<1>1. CASE Preflight(a)
  BY <1>1 DEF Preflight, Quiet, BeforeApply, Goto, history
<1>2. CASE Inspect(a)
  BY <1>2 DEF Inspect, Quiet, BeforeApply, Goto, history
<1>3. CASE Apply(a)
  BY <1>3 DEF Apply, Lock, Takes, history
<1>4. CASE pushActiveNetfault(a)
  BY <1>4 DEF pushActiveNetfault, Releases, Registers, history
<1>5. CASE captureSnapshotForApply(a)
  BY <1>5 DEF captureSnapshotForApply, Quiet, history
<1>6. CASE RunAdd(a)
  BY <1>6 DEF RunAdd, AddSucceeds, AddFails, Releases, history
<1>7. CASE Revert(a)
  BY <1>7 DEF Revert, Lock, Takes, history
<1>8. CASE RunDelete(a)
  BY <1>8 DEF RunDelete, Quiet, history
<1>9. CASE popActiveNetfault(a)
  BY <1>9 DEF popActiveNetfault, Unregisters, history
<1>10. CASE applyRestore(a)
  BY <1>10 DEF applyRestore, Releases, history
<1>11. CASE generateCommandsFails(a)
  BY <1>11 DEF generateCommandsFails, Quiet, history
<1> QED
  BY <1>1, <1>2, <1>3, <1>4, <1>5, <1>6, <1>7, <1>8, <1>9, <1>10, <1>11 DEF Step

(* The restart of the extension, with its effect on the lock.              *)
LEMMA RestartKind ==
    ASSUME LockTypes, Restart
    PROVE  /\ pc' \in [Attacks -> PC \ (InApply \cup InRevert)]
           /\ mutex' = [h \in DOMAIN mutex |-> NoAttack]
           /\ activeNetfault' = [n \in Namespaces |-> {}]
           /\ restarts' \in Nat \ {0}
<1>1. pc' \in [Attacks -> PC \ (InApply \cup InRevert)]
  BY DEF LockTypes, Restart, PC, InApply, InRevert, BeforeApply, Applied
<1> QED
  BY <1>1 DEF LockTypes, Restart

LEMMA InitTypes == Init => LockTypes /\ LockIsHeld
<1> SUFFICES ASSUME Init PROVE LockTypes /\ LockIsHeld
  OBVIOUS
<1>1. LockTypes
  BY DEF Init, LockTypes, PC, BeforeApply, Namespaces
<1>2. ASSUME NEW a \in Attacks PROVE Holding(a) <=> mutex[Hash[netNs[a]]] = a
  <2>1. ~Holding(a)
    BY DEF Init, Holding, InApply, InRevert
  <2>2. Hash[netNs[a]] \in {Hash[n] : n \in Namespaces}
    BY DEF Namespaces
  <2> QED
    BY <2>1, <2>2, NetfaultAssumption DEF Init
<1> QED
  BY <1>1, <1>2 DEF LockIsHeld

(* A step of one attack keeps the types.                                   *)
LEMMA StepTypes ==
    ASSUME LockTypes, NEW a \in Attacks, Step(a)
    PROVE  LockTypes'
<1>1. Hash[netNs[a]] \in {Hash[n] : n \in Namespaces} /\ netNs[a] \in Namespaces
  BY DEF Namespaces
<1>2. CASE Quiet(a)
  BY <1>2 DEF LockTypes, Quiet, Goto, PC, BeforeApply, InApply, InRevert, Applied
<1>3. CASE Takes(a)
  <2>1. pc' \in [Attacks -> PC]
    BY <1>3 DEF LockTypes, Takes, Goto, PC, InApply, InRevert
  <2> QED
    BY <1>1, <1>3, <2>1 DEF LockTypes, Takes
<1>4. CASE Releases(a)
  <2>1. pc' \in [Attacks -> PC]
    BY <1>4 DEF LockTypes, Releases, Goto, PC, Applied
  <2> QED
    BY <1>1, <1>4, <2>1 DEF LockTypes, Releases, Unlock
<1>5. CASE Registers(a)
  <2>1. pc' \in [Attacks -> PC]
    BY <1>5 DEF LockTypes, Registers, Goto, PC, InApply
  <2> QED
    BY <1>1, <1>5, <2>1 DEF LockTypes, Registers
<1>6. CASE Unregisters(a)
  <2>1. pc' \in [Attacks -> PC]
    BY <1>6 DEF LockTypes, Unregisters, Goto, PC, InRevert
  <2> QED
    BY <1>1, <1>6, <2>1 DEF LockTypes, Unregisters
<1> QED
  BY <1>2, <1>3, <1>4, <1>5, <1>6, StepKinds

(* ... and the lock with the call that holds it.                           *)
LEMMA StepLock ==
    ASSUME LockTypes, LockIsHeld, NEW a \in Attacks, Step(a)
    PROVE  LockIsHeld'
<1> USE DEF LockTypes
<1>1. SUFFICES ASSUME NEW b \in Attacks
               PROVE  Holding(b)' <=> mutex'[Hash[netNs[b]]] = b
  BY DEF LockIsHeld
<1>2. Hash[netNs[a]] \in DOMAIN mutex /\ Hash[netNs[b]] \in DOMAIN mutex
  BY DEF Namespaces
<1>3. /\ Holding(a) <=> mutex[Hash[netNs[a]]] = a
      /\ Holding(b) <=> mutex[Hash[netNs[b]]] = b
  BY DEF LockIsHeld
<1>4. CASE Quiet(a)
  <2>1. Holding(b)' <=> Holding(b)
    BY <1>4 DEF Quiet, Goto, Holding, BeforeApply, InApply, InRevert, Applied
  <2> QED
    BY <1>3, <1>4, <2>1 DEF Quiet
<1>5. CASE Takes(a)
  <2>1. Holding(a)'
    BY <1>5 DEF Takes, Goto, Holding, InApply, InRevert
  <2>2. b # a => (Holding(b)' <=> Holding(b))
    BY <1>5 DEF Takes, Goto, Holding
  <2>3. mutex'[Hash[netNs[b]]] =
            IF Hash[netNs[b]] = Hash[netNs[a]] THEN a ELSE mutex[Hash[netNs[b]]]
    BY <1>2, <1>5 DEF Takes
  <2> QED
    BY <1>3, <1>5, <2>1, <2>2, <2>3, NetfaultAssumption DEF Takes
<1>6. CASE Releases(a)
  <2>1. Holding(a) /\ ~Holding(a)'
    BY <1>6 DEF Releases, Goto, Holding, InApply, InRevert
  <2>2. b # a => (Holding(b)' <=> Holding(b))
    BY <1>6 DEF Releases, Goto, Holding
  <2>3. mutex'[Hash[netNs[b]]] =
            IF Hash[netNs[b]] = Hash[netNs[a]] THEN NoAttack ELSE mutex[Hash[netNs[b]]]
    BY <1>2, <1>6 DEF Releases, Unlock
  <2> QED
    BY <1>3, <2>1, <2>2, <2>3, NetfaultAssumption
<1>7. CASE Registers(a)
  <2>1. Holding(b)' <=> Holding(b)
    BY <1>7 DEF Registers, Goto, Holding, InApply
  <2> QED
    BY <1>3, <1>7, <2>1 DEF Registers
<1>8. CASE Unregisters(a)
  <2>1. Holding(b)' <=> Holding(b)
    BY <1>8 DEF Unregisters, Goto, Holding, InRevert
  <2> QED
    BY <1>3, <1>8, <2>1 DEF Unregisters
<1> QED
  BY <1>4, <1>5, <1>6, <1>7, <1>8, StepKinds

LEMMA RestartLock ==
    ASSUME LockTypes, Restart
    PROVE  LockTypes' /\ LockIsHeld'
<1>1. LockTypes'
  BY RestartKind DEF LockTypes
<1>2. ASSUME NEW a \in Attacks PROVE ~Holding(a)' /\ mutex'[Hash[netNs[a]]] # a
  <2>1. Hash[netNs[a]] \in DOMAIN mutex
    BY DEF LockTypes, Namespaces
  <2> QED
    BY <2>1, RestartKind, NetfaultAssumption DEF Holding
<1> QED
  BY <1>1, <1>2 DEF LockIsHeld

LEMMA TypesInductive == LockTypes /\ LockIsHeld /\ [Next]_vars => (LockTypes /\ LockIsHeld)'
<1> SUFFICES ASSUME LockTypes, LockIsHeld, [Next]_vars PROVE (LockTypes /\ LockIsHeld)'
  OBVIOUS
<1>1. CASE Restart
  BY <1>1, RestartLock
<1>2. CASE \E a \in Attacks : Step(a)
  BY <1>2, StepTypes, StepLock
<1>3. CASE UNCHANGED vars
  BY <1>3 DEF vars, caller, history, LockTypes, LockIsHeld, Holding
<1> QED
  BY <1>1, <1>2, <1>3 DEF Next, AllEnded

(* The lock of a namespace belongs to the one call that works on it, from  *)
(* LockKey to UnlockKey, for any assignment of namespaces to mutexes.      *)
THEOREM LockTheorem == Spec => []LockIsHeld
<1> QED
  BY InitTypes, TypesInductive, PTL DEF Spec
-----------------------------------------------------------------------------
(* Conflicts. The comparison is symmetric: equal types compare the same    *)
(* fields.                                                                 *)
LEMMA ConflictSymmetric ==
    ASSUME NEW o, NEW p, ~doesConflictWith(o, p)
    PROVE  ~doesConflictWith(p, o)
<1>1. o.type = p.type /\ \A field \in Compares(o) : o[field] = p[field]
  BY DEF doesConflictWith
<1>2. Compares(o) = Compares(p)
  BY <1>1 DEF Compares
<1> QED
  BY <1>1, <1>2 DEF doesConflictWith

LEMMA ConflictIrreflexive ==
    ASSUME NEW o
    PROVE  ~doesConflictWith(o, o)
BY DEF doesConflictWith

LEMMA StepConflicts ==
    ASSUME LockTypes, NoConflictingActive, NEW a \in Attacks, Step(a)
    PROVE  NoConflictingActive'
<1> SUFFICES ASSUME NEW n \in Namespaces, NEW b \in activeNetfault'[n], NEW c \in activeNetfault'[n]
             PROVE  ~doesConflictWith(opts[b], opts[c])
  BY DEF NoConflictingActive
<1>1. CASE activeNetfault' = activeNetfault
  BY <1>1 DEF NoConflictingActive
<1>2. CASE activeNetfault' = [activeNetfault EXCEPT ![netNs[a]] = @ \ {a}]
  <2>1. activeNetfault'[n] \subseteq activeNetfault[n]
    BY <1>2 DEF LockTypes
  <2> QED
    BY <2>1 DEF NoConflictingActive
<1>3. CASE Registers(a)
  <2>1. \A x, y \in activeNetfault[n] : ~doesConflictWith(opts[x], opts[y])
    BY DEF NoConflictingActive
  <2>2. CASE n = netNs[a]
    <3>1. activeNetfault'[n] = activeNetfault[n] \cup {a}
      BY <1>3, <2>2 DEF LockTypes, Registers
    <3>2. \A x \in activeNetfault[n] :
              ~doesConflictWith(opts[a], opts[x]) /\ ~doesConflictWith(opts[x], opts[a])
      BY <1>3, <2>2, ConflictSymmetric DEF Registers
    <3> QED
      BY <2>1, <3>1, <3>2, ConflictIrreflexive
  <2>3. CASE n # netNs[a]
    <3>1. activeNetfault'[n] = activeNetfault[n]
      BY <1>3, <2>3 DEF LockTypes, Registers
    <3> QED
      BY <2>1, <3>1
  <2> QED
    BY <2>2, <2>3
<1> QED
  BY <1>1, <1>2, <1>3, StepKinds DEF Quiet, Takes, Releases, Unregisters

LEMMA ConflictsInductive ==
    LockTypes /\ NoConflictingActive /\ [Next]_vars => NoConflictingActive'
<1> SUFFICES ASSUME LockTypes, NoConflictingActive, [Next]_vars PROVE NoConflictingActive'
  OBVIOUS
<1>1. CASE Restart
  BY <1>1 DEF Restart, NoConflictingActive
<1>2. CASE \E a \in Attacks : Step(a)
  BY <1>2, StepConflicts
<1>3. CASE UNCHANGED vars
  BY <1>3 DEF vars, NoConflictingActive
<1> QED
  BY <1>1, <1>2, <1>3 DEF Next, AllEnded

(* No two attacks of which one conflicts with the other are ever active on *)
(* one network namespace, whatever fails or restarts (pushActiveNetfault). *)
THEOREM ConflictTheorem == Spec => []NoConflictingActive
<1>1. Init => NoConflictingActive
  BY DEF Init, NoConflictingActive
<1> QED
  BY <1>1, InitTypes, TypesInductive, ConflictsInductive, PTL DEF Spec
-----------------------------------------------------------------------------
(* Admission. An attack that was let in is registered while its apply goes *)
(* on.                                                                     *)
Admitted == \A a \in Attacks : pc[a] \in {"capture", "add"} => a \in activeNetfault[netNs[a]]

(* A step leaves the others where they are, in the registry too.           *)
LEMMA OthersStay ==
    ASSUME LockTypes, NEW a \in Attacks, Step(a), NEW b \in Attacks, b # a
    PROVE  /\ pc'[b] = pc[b]
           /\ b \in activeNetfault'[netNs[b]] <=> b \in activeNetfault[netNs[b]]
<1>1. pc'[b] = pc[b]
  BY StepKinds DEF LockTypes, Quiet, Takes, Releases, Registers, Unregisters, Goto
<1>2. netNs[a] \in Namespaces /\ netNs[b] \in Namespaces
  BY DEF Namespaces
<1>3. \/ activeNetfault' = activeNetfault
      \/ activeNetfault' = [activeNetfault EXCEPT ![netNs[a]] = @ \ {a}]
      \/ activeNetfault' = [activeNetfault EXCEPT ![netNs[a]] = @ \cup {a}]
  BY StepKinds DEF Quiet, Takes, Releases, Registers, Unregisters
<1> QED
  BY <1>1, <1>2, <1>3 DEF LockTypes

LEMMA StepAdmitted ==
    ASSUME LockTypes, Admitted, NEW a \in Attacks, Step(a)
    PROVE  Admitted'
<1> SUFFICES ASSUME NEW b \in Attacks, pc'[b] \in {"capture", "add"}
             PROVE  b \in activeNetfault'[netNs[b]]
  BY DEF Admitted
<1>1. CASE b # a
  BY <1>1, OthersStay DEF Admitted
<1>2. CASE b = a /\ pc[a] = "push"
  <2>1. Registers(a)
    BY <1>2, StepKinds
       DEF Quiet, Takes, Releases, Unregisters, Goto, LockTypes, BeforeApply, Applied
  <2>2. netNs[a] \in Namespaces
    BY DEF Namespaces
  <2> QED
    BY <1>2, <2>1, <2>2 DEF Registers, LockTypes
<1>3. CASE b = a /\ pc[a] # "push"
  <2>1. Quiet(a) /\ pc[a] = "capture"
    BY <1>3, StepKinds
       DEF Quiet, Takes, Releases, Registers, Unregisters, Goto, LockTypes, BeforeApply, Applied
  <2> QED
    BY <1>3, <2>1 DEF Quiet, Admitted
<1> QED
  BY <1>1, <1>2, <1>3

LEMMA AdmittedInductive == LockTypes /\ Admitted /\ [Next]_vars => Admitted'
<1> SUFFICES ASSUME LockTypes, Admitted, [Next]_vars PROVE Admitted'
  OBVIOUS
<1>1. CASE Restart
  BY <1>1, RestartKind DEF Admitted, InApply
<1>2. CASE \E a \in Attacks : Step(a)
  BY <1>2, StepAdmitted
<1>3. CASE UNCHANGED vars
  BY <1>3 DEF vars, caller, Admitted
<1> QED
  BY <1>1, <1>2, <1>3 DEF Next, AllEnded
-----------------------------------------------------------------------------
(* Unsafe root qdiscs. An attack that was checked ends before it touches *)
(* one, and a snapshot is only of the attack's own interfaces.             *)
OwnSnapshots ==
    /\ DOMAIN snapshot = Attacks
    /\ \A a \in Attacks : DOMAIN snapshot[a] \subseteq tcRootQdiscInterfaces(opts[a])

UserInv ==
    /\ DOMAIN pc = Attacks
    /\ \A i \in UnsafeInterfaces \ unchecked :
        /\ tree[i] = Original[i]
        /\ \A a \in Attacks :
            i \in tcRootQdiscInterfaces(opts[a]) => pc[a] \in {"new", "inspect", "refused"}

(* Only the attack's own interfaces get another tree.                      *)
LEMMA OtherTreesKept ==
    ASSUME OwnSnapshots, NEW a \in Attacks, Step(a), NEW i \in Interfaces,
           i \notin tcRootQdiscInterfaces(opts[a]) \/ pc[a] \notin {"add", "delete", "restore"}
    PROVE  tree'[i] = tree[i]
<1>1. CASE Preflight(a) \/ Inspect(a) \/ Apply(a) \/ Revert(a)
  BY <1>1 DEF Preflight, Inspect, Apply, Revert, Lock, kernel
<1>2. CASE pushActiveNetfault(a) \/ captureSnapshotForApply(a)
  BY <1>2 DEF pushActiveNetfault, captureSnapshotForApply, kernel
<1>3. CASE RunAdd(a)
  BY <1>3 DEF RunAdd, AddSucceeds, AddFails, AddRules
<1>4. CASE RunDelete(a)
  BY <1>4 DEF RunDelete, DeleteRules
<1>5. CASE applyRestore(a)
  <2>1. i \notin Incoming(a)
    BY <1>5 DEF applyRestore, OwnSnapshots, Incoming
  <2> QED
    BY <1>5, <2>1 DEF applyRestore, Replay
<1>6. CASE popActiveNetfault(a) \/ generateCommandsFails(a)
  BY <1>6 DEF popActiveNetfault, generateCommandsFails, kernel
<1> QED
  BY <1>1, <1>2, <1>3, <1>4, <1>5, <1>6 DEF Step

LEMMA StepSnapshots ==
    ASSUME OwnSnapshots, NEW a \in Attacks, Step(a)
    PROVE  OwnSnapshots'
<1>1. CASE UNCHANGED snapshot
  BY <1>1 DEF OwnSnapshots
<1>2. ASSUME NEW s, DOMAIN s \subseteq tcRootQdiscInterfaces(opts[a]),
             snapshot' = [snapshot EXCEPT ![a] = s]
      PROVE  OwnSnapshots'
  BY <1>2 DEF OwnSnapshots
<1>3. DOMAIN None \subseteq tcRootQdiscInterfaces(opts[a])
  BY DEF None
<1>4. CASE captureSnapshotForApply(a)
  <2> DEFINE all == [i \in tcRootQdiscInterfaces(opts[a]) |-> Captured(tree[i])]
  <2>1. DOMAIN all \subseteq tcRootQdiscInterfaces(opts[a])
    OBVIOUS
  <2>2. \/ snapshot' = [snapshot EXCEPT ![a] = None]
        \/ snapshot' = [snapshot EXCEPT ![a] = all]
        \/ UNCHANGED snapshot
    BY <1>4 DEF captureSnapshotForApply
  <2> HIDE DEF all
  <2> QED
    BY <1>1, <1>2, <1>3, <2>1, <2>2
<1>5. CASE RunAdd(a)
  BY <1>1, <1>2, <1>3, <1>5 DEF RunAdd, AddSucceeds, AddFails
<1>6. CASE ~captureSnapshotForApply(a) /\ ~RunAdd(a)
  BY <1>1, <1>6 DEF Step, Preflight, Inspect, Apply, Revert, Lock, pushActiveNetfault,
                    RunDelete, popActiveNetfault, applyRestore, generateCommandsFails
<1> QED
  BY <1>4, <1>5, <1>6

LEMMA StepUserInv ==
    ASSUME OwnSnapshots, UserInv, NEW a \in Attacks, Step(a)
    PROVE  UserInv'
<1>1. DOMAIN pc' = Attacks
  BY StepKinds DEF UserInv, Quiet, Takes, Releases, Registers, Unregisters, Goto
<1>2. \A b \in Attacks : b # a => pc'[b] = pc[b]
  BY StepKinds DEF UserInv, Quiet, Takes, Releases, Registers, Unregisters, Goto
<1>3. unchecked \subseteq unchecked'
  BY DEF Step, Preflight, Inspect, Apply, Revert, Lock, pushActiveNetfault, Unchecked,
         captureSnapshotForApply, RunAdd, AddSucceeds, AddFails, RunDelete, popActiveNetfault, applyRestore, generateCommandsFails, history
<1> SUFFICES ASSUME NEW i \in UnsafeInterfaces \ unchecked'
             PROVE  /\ tree'[i] = Original[i]
                    /\ \A b \in Attacks : i \in tcRootQdiscInterfaces(opts[b])
                            => pc'[b] \in {"new", "inspect", "refused"}
  BY <1>1 DEF UserInv, UnsafeInterfaces
<1>4. /\ i \in Interfaces /\ i \in UnsafeInterfaces \ unchecked
      /\ tree[i] = Original[i] /\ Original[i].root \notin SafeRoots
  BY <1>3 DEF UserInv, UnsafeInterfaces
<1>5. \A b \in Attacks : i \in tcRootQdiscInterfaces(opts[b])
            => pc[b] \in {"new", "inspect", "refused"}
  BY <1>4 DEF UserInv
<1>6. tree'[i] = Original[i]
  BY <1>4, <1>5, OtherTreesKept
<1>7. ASSUME i \in tcRootQdiscInterfaces(opts[a])
      PROVE  pc'[a] \in {"new", "inspect", "refused"}
  <2>1. pc[a] \in {"new", "inspect", "refused"}
    BY <1>5, <1>7
  <2>2. i \in tcRootQdiscInterfaces(opts[a]) \cap UnsafeInterfaces
    BY <1>4, <1>7
  <2>3. CASE Preflight(a)
    <3>1. ~Unchecked(a)
      BY <2>2 DEF Unchecked
    <3> QED
      BY <2>3, <3>1 DEF Preflight, Goto, UserInv
  <2>4. CASE Inspect(a)
    <3>1. ~Unchecked(a)
      BY <2>2 DEF Unchecked
    <3>2. i \in opts[a].Interfaces
      BY <1>7 DEF tcRootQdiscInterfaces
    <3>3. ~isSafeRootQdiscKind(tree[i].root)
      BY <1>4 DEF isSafeRootQdiscKind
    <3> QED
      BY <2>4, <3>1, <3>2, <3>3 DEF Inspect, Goto, UserInv
  <2> QED
    BY <2>1, <2>3, <2>4 DEF Step, Apply, Revert, Applied, pushActiveNetfault,
                            captureSnapshotForApply, RunAdd, AddSucceeds, AddFails, RunDelete, popActiveNetfault, applyRestore, generateCommandsFails
<1> QED
  BY <1>2, <1>5, <1>6, <1>7

LEMMA UserInductive ==
    OwnSnapshots /\ UserInv /\ [Next]_vars => (OwnSnapshots /\ UserInv)'
<1> SUFFICES ASSUME OwnSnapshots, UserInv, [Next]_vars PROVE (OwnSnapshots /\ UserInv)'
  OBVIOUS
<1>1. CASE Restart
  <2>1. OwnSnapshots'
    BY <1>1 DEF Restart, OwnSnapshots, None
  <2>2. \A a \in Attacks : pc[a] \in {"new", "inspect", "refused"}
                => pc'[a] \in {"new", "inspect", "refused"}
    BY <1>1 DEF Restart, InApply, InRevert
  <2>3. DOMAIN pc' = Attacks /\ UNCHANGED <<tree, unchecked>>
    BY <1>1 DEF Restart, kernel
  <2> QED
    BY <2>1, <2>2, <2>3 DEF UserInv
<1>2. CASE \E a \in Attacks : Step(a)
  BY <1>2, StepSnapshots, StepUserInv
<1>3. CASE UNCHANGED vars
  BY <1>3 DEF vars, caller, kernel, history, OwnSnapshots, UserInv
<1> QED
  BY <1>1, <1>2, <1>3 DEF Next, AllEnded

(* An unsafe root qdisc is never replaced by an attack whose interfaces    *)
(* the preflight check looked at, however attacks overlap, fail or restart.*)
THEOREM UserRootTheorem == Spec => []UserRootKept
<1>1. Init => OwnSnapshots /\ UserInv
  BY DEF Init, OwnSnapshots, UserInv, UnsafeInterfaces, None
<1>2. UserInv => UserRootKept
  BY DEF UserInv, UnsafeInterfaces, UserRootKept
<1> QED
  BY <1>1, <1>2, UserInductive, PTL DEF Spec
-----------------------------------------------------------------------------
(* Types. What a step does to trees, snapshots, errors and jumps, one      *)
(* operator or variable at a time.                                         *)
tc(a) == tcRootQdiscInterfaces(opts[a])

Trees == [root : AttackRoots \cup {"noqueue", "tuned", "user"}, parts : SUBSET Parts]

LEMMA OwnTree ==
    ASSUME NEW a \in Attacks
    PROVE  tcTree(opts[a]) \in Trees /\ tcTree(opts[a]).root \in AttackRoots
BY DEF tcTree, DelayTree, PackageLossTree, CorruptionTree, BandwidthTree, Trees, AttackRoots, Parts

(* Adding leaves a tree alone or makes it an attack's.                     *)
LEMMA AddEffect ==
    ASSUME NEW t \in Trees, NEW own \in Trees, own.root \in AttackRoots, NEW ok
    PROVE  /\ AfterAdd(t, own, ok) \in Trees
           /\ AfterAdd(t, own, ok) = t \/ AfterAdd(t, own, ok).root \in AttackRoots
           /\ AfterAdd(t, own, ok).root \in {t.root, own.root}
<1> DEFINE replaced == IF "root" \notin ok \/ t.root = own.root THEN t
                       ELSE [root |-> own.root, parts |-> {}]
<1>1. /\ replaced \in Trees /\ replaced.root \in {t.root, own.root}
      /\ replaced = t \/ replaced.root \in AttackRoots
  BY DEF Trees
<1>2. AfterAdd(t, own, ok) =
        IF replaced.root \in AttackRoots
        THEN [replaced EXCEPT !.parts = @ \cup (own.parts \cap ok)] ELSE replaced
  BY DEF AfterAdd
<1> HIDE DEF replaced
<1> QED
  BY <1>1, <1>2 DEF Trees

(* Deleting leaves roots alone that are no attack's, and resets its own.   *)
LEMMA DeleteEffect ==
    ASSUME NEW t \in Trees, NEW own \in Trees, NEW ok
    PROVE  /\ AfterDelete(t, own, ok) \in Trees
           /\ t.root \notin AttackRoots => AfterDelete(t, own, ok) = t
           /\ AfterDelete(t, own, ok) = DefaultTree \/ AfterDelete(t, own, ok).root = t.root
           /\ t.root = own.root /\ "root" \in ok => AfterDelete(t, own, ok).root \notin AttackRoots
BY DEF AfterDelete, DefaultTree, Trees, AttackRoots

LEMMA RestoreEffect ==
    ASSUME NEW t \in Trees, NEW saved \in Trees
    PROVE  /\ Restored(t, saved) \in Trees
           /\ saved.root = "noqueue" => Restored(t, saved) = t
           /\ saved = t => Restored(t, saved) = t
           /\ saved.root # "noqueue" /\ saved.root # t.root => Restored(t, saved) = saved
           /\ saved.root # "noqueue" => Restored(t, saved).root = saved.root
BY DEF Restored, Trees

LEMMA CaptureEffect ==
    ASSUME NEW t \in Trees
    PROVE  /\ Captured(t) \in Trees /\ Captured(t).root = t.root
           /\ "class" \notin t.parts => Captured(t) = t
BY DEF Captured, Trees

LEMMA OriginalTrees ==
    /\ DefaultTree \in Trees /\ DefaultTree.root = "noqueue" /\ DefaultTree.parts = {}
    /\ Original \in [Interfaces -> Trees]
    /\ \A i \in Interfaces :
        /\ Original[i].root \in {"noqueue", "tuned", "user"}
        /\ Original[i].root = "noqueue" => Original[i] = DefaultTree
<1>1. ASSUME NEW i \in Interfaces
      PROVE  /\ Original[i] \in Trees
             /\ Original[i].root \in {"noqueue", "tuned", "user"}
             /\ Original[i].root = "noqueue" => Original[i] = DefaultTree
  <2>1. Original[i] \in [root : {"noqueue", "tuned", "user"}, parts : SUBSET Parts]
    BY InterfacesAssumption
  <2>2. Original[i].root = "noqueue" => Original[i].parts = {}
    BY InterfacesAssumption
  <2> QED
    BY <2>1, <2>2 DEF Trees, DefaultTree
<1> QED
  BY <1>1, InterfacesAssumption DEF DefaultTree, Trees, Parts

(* The types of what is not about the lock.                                *)
DataTypes ==
    /\ OwnSnapshots
    /\ err \in [Attacks -> BOOLEAN]
    /\ tree \in [Interfaces -> Trees]
    /\ \A a \in Attacks : \A i \in DOMAIN snapshot[a] : snapshot[a][i] \in Trees
    /\ DOMAIN rules = Namespaces
    /\ chains \in [Namespaces -> [Chains -> Nat]]
    /\ lossy \subseteq Namespaces /\ unchecked \subseteq Interfaces
    /\ inherited \subseteq Interfaces

(* The tree of an interface after a step.                                  *)
Added(a, i) ==
    /\ pc[a] = "add" /\ i \in tc(a)
    /\ \E ok \in SUBSET Commands(a) : tree'[i] = AfterAdd(tree[i], tcTree(opts[a]), ok)
Deleted(a, i) ==
    /\ pc[a] = "delete" /\ pc'[a] = "pop" /\ i \in tc(a)
    /\ \E ok \in SUBSET Commands(a) :
        /\ tree'[i] = AfterDelete(tree[i], tcTree(opts[a]), ok)
        /\ ok # Commands(a) => err'[a]
Replayed(a, i) ==
    /\ pc[a] = "restore" /\ i \in DOMAIN snapshot[a] /\ i \in tc(a)
    /\ tree'[i] = Restored(tree[i], snapshot[a][i])

LEMMA TreeCases ==
    ASSUME DataTypes, LockTypes, NEW a \in Attacks, Step(a), NEW i \in Interfaces
    PROVE  \/ tree'[i] = tree[i] /\ ~(pc[a] = "delete" /\ i \in tc(a))
           \/ Added(a, i) \/ Deleted(a, i) \/ Replayed(a, i)
<1>1. CASE RunAdd(a)
  <2>1. PICK ok \in SUBSET Commands(a) : AddRules(a, ok)
    BY <1>1 DEF RunAdd, AddSucceeds, AddFails, SomeFail
  <2> QED
    BY <1>1, <2>1 DEF RunAdd, AddRules, Added, tc
<1>2. CASE RunDelete(a)
  <2>1. PICK ok \in SUBSET Commands(a) : DeleteRules(a, ok)
    BY <1>2 DEF RunDelete, SomeFail
  <2>2. ok # Commands(a) => err'[a]
    BY <2>1 DEF DeleteRules, DataTypes
  <2>3. pc[a] = "delete" /\ pc'[a] = "pop"
    BY <1>2 DEF RunDelete, Goto, LockTypes
  <2>4. \/ i \notin tc(a) /\ tree'[i] = tree[i]
        \/ (i \in tc(a) /\ tree'[i] = AfterDelete(tree[i], tcTree(opts[a]), ok))
    BY <2>1 DEF DeleteRules, tc
  <2> QED
    BY <2>1, <2>2, <2>3, <2>4 DEF Deleted
<1>3. CASE applyRestore(a)
  <2>1. PICK ifs \in SUBSET Incoming(a) : Replay(a, ifs)
    BY <1>3 DEF applyRestore
  <2>2. Incoming(a) \subseteq DOMAIN snapshot[a] /\ DOMAIN snapshot[a] \subseteq tc(a)
    BY DEF Incoming, DataTypes, OwnSnapshots, tc
  <2>3. tree'[i] = tree[i] \/ (i \in ifs /\ tree'[i] = Restored(tree[i], snapshot[a][i]))
    BY <2>1 DEF Replay
  <2>4. pc[a] = "restore"
    BY <1>3 DEF applyRestore
  <2> QED
    BY <2>1, <2>2, <2>3, <2>4 DEF Replayed
<1>4. CASE Preflight(a) \/ Inspect(a) \/ Apply(a) \/ Revert(a) \/ pushActiveNetfault(a)
                \/ captureSnapshotForApply(a) \/ popActiveNetfault(a) \/ generateCommandsFails(a)
  BY <1>4 DEF Preflight, Inspect, Apply, Revert, Lock, pushActiveNetfault, popActiveNetfault,
              captureSnapshotForApply, generateCommandsFails, Applied, kernel
<1> QED
  BY <1>1, <1>2, <1>3, <1>4 DEF Step

(* The snapshots after a step.                                             *)
CapturedBy(a) == pc[a] = "capture" /\ pc'[a] = "add" /\ ~Strict
                    /\ snapshot' = [snapshot EXCEPT ![a] = [i \in tc(a) |-> Captured(tree[i])]]
                    /\ inherited' = inherited \cup {i \in tc(a) : tree[i].root \in AttackRoots}

LEMMA SnapshotCases ==
    ASSUME LockTypes, NEW a \in Attacks, Step(a)
    PROVE  \/ snapshot' = snapshot
           \/ pc[a] \in {"capture", "add"} /\ snapshot' = [snapshot EXCEPT ![a] = None]
           \/ CapturedBy(a)
BY DEF Step, Preflight, Inspect, Apply, Revert, Lock, pushActiveNetfault, CapturedBy,
       captureSnapshotForApply, RunAdd, AddSucceeds, AddFails, RunDelete, popActiveNetfault, applyRestore, generateCommandsFails, Goto, tc, LockTypes

LEMMA ErrCases ==
    ASSUME DataTypes, NEW a \in Attacks, Step(a)
    PROVE  err' \in [Attacks -> BOOLEAN] /\ \A b \in Attacks : b # a => err'[b] = err[b]
BY DEF Step, Preflight, Inspect, Apply, Revert, Lock, pushActiveNetfault, DeleteRules,
       captureSnapshotForApply, RunAdd, AddSucceeds, AddFails, RunDelete, popActiveNetfault, applyRestore, generateCommandsFails, DataTypes
LEMMA ChainCases ==
    ASSUME DataTypes, NEW a \in Attacks, Step(a), NEW n \in Namespaces, NEW c \in Chains
    PROVE  \/ chains'[n][c] = chains[n][c]
           \/ /\ pc[a] = "add" /\ netNs[a] = n /\ c \in chainsOf(a)
              /\ chains'[n][c] = chains[n][c] + 1
           \/ pc[a] = "delete" /\ chains'[n][c] = 0
<1>1. netNs[a] \in Namespaces
  BY DEF Namespaces
<1>2. CASE RunAdd(a)
  <2>1. PICK ok \in SUBSET Commands(a) : AddRules(a, ok)
    BY <1>2 DEF RunAdd, AddSucceeds, AddFails, SomeFail
  <2> QED
    BY <1>1, <1>2, <2>1 DEF RunAdd, AddRules, DataTypes
<1>3. CASE RunDelete(a)
  <2>1. PICK ok \in SUBSET Commands(a) : DeleteRules(a, ok)
    BY <1>3 DEF RunDelete, SomeFail
  <2> QED
    BY <1>1, <1>3, <2>1 DEF RunDelete, DeleteRules, DataTypes
<1> QED
  BY <1>2, <1>3 DEF Step, Preflight, Inspect, Apply, Revert, Lock, pushActiveNetfault,
                    captureSnapshotForApply, popActiveNetfault, applyRestore, generateCommandsFails, kernel

LEMMA ChainsShape ==
    ASSUME DataTypes, NEW a \in Attacks, Step(a)
    PROVE  /\ chains' = [n \in Namespaces |-> [c \in Chains |-> chains'[n][c]]]
           /\ DOMAIN rules' = Namespaces
<1>1. CASE RunAdd(a)
  <2>1. PICK ok \in SUBSET Commands(a) : AddRules(a, ok)
    BY <1>1 DEF RunAdd, AddSucceeds, AddFails, SomeFail
  <2> QED
    BY <1>1, <2>1 DEF AddRules, DataTypes
<1>2. CASE RunDelete(a)
  <2>1. PICK ok \in SUBSET Commands(a) : DeleteRules(a, ok)
    BY <1>2 DEF RunDelete, SomeFail
  <2> QED
    BY <2>1 DEF DeleteRules, DataTypes
<1>3. CASE UNCHANGED <<rules, chains>>
  BY <1>3 DEF DataTypes
<1> QED
  BY <1>1, <1>2, <1>3 DEF Step, Preflight, Inspect, Apply, Revert, Lock, pushActiveNetfault,
                    captureSnapshotForApply, popActiveNetfault, applyRestore, generateCommandsFails, kernel

LEMMA TreeShape ==
    ASSUME DataTypes, NEW a \in Attacks, Step(a)
    PROVE  tree' = [i \in Interfaces |-> tree'[i]]
BY DEF Step, Preflight, Inspect, Apply, Revert, Lock, pushActiveNetfault,
       captureSnapshotForApply, RunAdd, AddSucceeds, AddFails, RunDelete, popActiveNetfault, applyRestore, generateCommandsFails, kernel, AddRules,
       DeleteRules, Replay, DataTypes

LEMMA HistoryCases ==
    ASSUME DataTypes, NEW a \in Attacks, Step(a)
    PROVE  /\ lossy' \in {lossy, lossy \cup {netNs[a]}}
           /\ unchecked' \in {unchecked, unchecked \cup (tc(a) \cap UnsafeInterfaces)}
           /\ inherited \subseteq inherited' /\ inherited' \subseteq inherited \cup tc(a)
           /\ restarts' = restarts
BY DEF Step, Preflight, Inspect, Apply, Revert, Lock, pushActiveNetfault, Lose, Unchecked,
       captureSnapshotForApply, RunAdd, AddSucceeds, AddFails, RunDelete, popActiveNetfault, applyRestore, generateCommandsFails, history, tc

LEMMA InitData == Init => DataTypes
<1> SUFFICES ASSUME Init PROVE DataTypes
  OBVIOUS
<1>1. OwnSnapshots /\ \A a \in Attacks : \A i \in DOMAIN snapshot[a] : snapshot[a][i] \in Trees
  BY DEF Init, OwnSnapshots, None
<1> QED
  BY <1>1, OriginalTrees DEF Init, DataTypes

LEMMA StepData ==
    ASSUME LockTypes, DataTypes, NEW a \in Attacks, Step(a)
    PROVE  DataTypes'
<1>1. OwnSnapshots'
  BY StepSnapshots DEF DataTypes
<1>2. err' \in [Attacks -> BOOLEAN]
  BY ErrCases
<1>3. tree' \in [Interfaces -> Trees]
  <2>1. ASSUME NEW i \in Interfaces PROVE tree'[i] \in Trees
    <3>1. tree[i] \in Trees
      BY DEF DataTypes
    <3>2. i \in DOMAIN snapshot[a] => snapshot[a][i] \in Trees
      BY DEF DataTypes
    <3> QED
      BY <3>1, <3>2, TreeCases, OwnTree, AddEffect, DeleteEffect, RestoreEffect
         DEF Added, Deleted, Replayed
  <2> QED
    BY <2>1, TreeShape
<1>4. ASSUME NEW b \in Attacks, NEW i \in DOMAIN snapshot'[b]
      PROVE  snapshot'[b][i] \in Trees
  <2>1. CASE snapshot' = snapshot
    BY <1>4, <2>1 DEF DataTypes
  <2>2. CASE snapshot' = [snapshot EXCEPT ![a] = None]
    BY <1>4, <2>2 DEF DataTypes, OwnSnapshots, None
  <2>3. CASE CapturedBy(a)
    <3>1. CASE b = a
      <4>1. i \in tc(a) /\ snapshot'[b][i] = Captured(tree[i])
        BY <1>4, <2>3, <3>1 DEF CapturedBy, DataTypes, OwnSnapshots
      <4>2. i \in Interfaces
        BY <4>1, InterfacesAssumption DEF tc
      <4> QED
        BY <4>1, <4>2, CaptureEffect DEF DataTypes
    <3>2. CASE b # a
      BY <1>4, <2>3, <3>2 DEF CapturedBy, DataTypes, OwnSnapshots
    <3> QED
      BY <3>1, <3>2
  <2> QED
    BY <2>1, <2>2, <2>3, SnapshotCases
<1>5. chains' \in [Namespaces -> [Chains -> Nat]]
  <2>1. ASSUME NEW n \in Namespaces, NEW c \in Chains PROVE chains'[n][c] \in Nat
    <3>1. chains[n][c] \in Nat
      BY DEF DataTypes
    <3> QED
      BY <3>1, ChainCases
  <2> QED
    BY <2>1, ChainsShape
<1>6. /\ lossy' \subseteq Namespaces /\ unchecked' \subseteq Interfaces
      /\ inherited' \subseteq Interfaces
  BY HistoryCases, InterfacesAssumption DEF DataTypes, Namespaces, UnsafeInterfaces, tc
<1> QED
  BY <1>1, <1>2, <1>3, <1>4, <1>5, <1>6, ChainsShape DEF DataTypes

LEMMA RestartData ==
    ASSUME DataTypes, Restart
    PROVE  DataTypes'
<1>1. OwnSnapshots'
  BY DEF Restart, DataTypes, OwnSnapshots, None
<1>2. ASSUME NEW b \in Attacks, NEW i \in DOMAIN snapshot'[b]
      PROVE  snapshot'[b][i] \in Trees
  BY <1>2 DEF Restart, DataTypes, None
<1>3. lossy' \subseteq Namespaces
  BY DEF Restart, DataTypes, Namespaces
<1>4. UNCHANGED <<err, tree, rules, chains, unchecked, inherited>>
  BY DEF Restart, kernel
<1> QED
  BY <1>1, <1>2, <1>3, <1>4 DEF DataTypes

TypeInv == LockTypes /\ LockIsHeld /\ DataTypes

LEMMA TypeInductive == TypeInv /\ [Next]_vars => TypeInv'
<1> SUFFICES ASSUME TypeInv, [Next]_vars PROVE TypeInv'
  OBVIOUS
<1>1. LockTypes /\ LockIsHeld /\ DataTypes
  BY DEF TypeInv
<1>2. (LockTypes /\ LockIsHeld)'
  BY <1>1, TypesInductive
<1>3. CASE Restart
  BY <1>1, <1>2, <1>3, RestartData DEF TypeInv
<1>4. CASE \E a \in Attacks : Step(a)
  BY <1>1, <1>2, <1>4, StepData DEF TypeInv
<1>5. CASE UNCHANGED vars
  BY <1>1, <1>2, <1>5 DEF vars, caller, kernel, history, DataTypes, OwnSnapshots, TypeInv
<1> QED
  BY <1>3, <1>4, <1>5 DEF Next, AllEnded

(* Jumps. Every jump to a chain is an attack's that is past its apply.     *)
NotAppliedYet == {a \in Attacks : pc[a] \in BeforeApply \cup InApply}
JumpsBounded ==
    \A n \in Namespaces : \A c \in Chains :
        chains[n][c] + Cardinality(NotAppliedYet) =< Cardinality(Attacks)

LEMMA NotAppliedYetFinite ==
    /\ IsFiniteSet(NotAppliedYet) /\ Cardinality(NotAppliedYet) \in Nat
    /\ Cardinality(NotAppliedYet) =< Cardinality(Attacks) /\ Cardinality(Attacks) \in Nat
<1>1. NotAppliedYet \subseteq Attacks /\ IsFiniteSet(Attacks)
  BY InterfacesAssumption DEF NotAppliedYet
<1> QED
  BY <1>1, FS_Subset, FS_CardinalityType

LEMMA StepJumps ==
    ASSUME LockTypes, DataTypes, JumpsBounded, NEW a \in Attacks, Step(a)
    PROVE  JumpsBounded'
<1>1. NotAppliedYet' \subseteq NotAppliedYet
  BY StepKinds DEF Quiet, Takes, Releases, Registers, Unregisters, Goto, LockTypes, NotAppliedYet,
                   BeforeApply, InApply, Applied
<1>2. /\ IsFiniteSet(NotAppliedYet) /\ Cardinality(NotAppliedYet) \in Nat
      /\ Cardinality(NotAppliedYet)' \in Nat /\ Cardinality(Attacks) \in Nat
      /\ Cardinality(NotAppliedYet)' =< Cardinality(NotAppliedYet)
  BY <1>1, NotAppliedYetFinite, FS_Subset, FS_CardinalityType
<1>3. ASSUME pc[a] = "add"
      PROVE  Cardinality(NotAppliedYet)' + 1 =< Cardinality(NotAppliedYet)
  <2>1. a \in NotAppliedYet
    BY <1>3 DEF NotAppliedYet, InApply
  <2>2. a \notin NotAppliedYet'
    BY <1>3, StepKinds DEF Quiet, Takes, Releases, Registers, Unregisters, Goto, LockTypes, NotAppliedYet,
                           BeforeApply, InApply, Applied
  <2>3. NotAppliedYet' \subseteq NotAppliedYet \ {a}
    BY <1>1, <2>2
  <2>4. /\ IsFiniteSet(NotAppliedYet \ {a})
        /\ Cardinality(NotAppliedYet \ {a}) = Cardinality(NotAppliedYet) - 1
    BY <1>2, <2>1, FS_RemoveElement
  <2>5. Cardinality(NotAppliedYet)' =< Cardinality(NotAppliedYet \ {a})
    BY <2>3, <2>4, FS_Subset
  <2> QED
    BY <1>2, <2>4, <2>5
<1> SUFFICES ASSUME NEW n \in Namespaces, NEW c \in Chains
             PROVE  chains'[n][c] + Cardinality(NotAppliedYet)' =< Cardinality(Attacks)
  BY DEF JumpsBounded
<1>4. /\ chains[n][c] \in Nat
      /\ chains[n][c] + Cardinality(NotAppliedYet) =< Cardinality(Attacks)
  BY DEF DataTypes, JumpsBounded
<1>5. \/ chains'[n][c] = chains[n][c]
      \/ pc[a] = "add" /\ chains'[n][c] = chains[n][c] + 1
      \/ chains'[n][c] = 0
  BY ChainCases
<1> QED
  BY <1>2, <1>3, <1>4, <1>5

LEMMA JumpsInductive == TypeInv /\ JumpsBounded /\ [Next]_vars => JumpsBounded'
<1> SUFFICES ASSUME TypeInv, JumpsBounded, [Next]_vars PROVE JumpsBounded'
  OBVIOUS
<1>1. CASE Restart
  <2>1. NotAppliedYet' \subseteq NotAppliedYet /\ UNCHANGED chains
    BY <1>1 DEF Restart, NotAppliedYet, BeforeApply, InApply, InRevert, kernel
  <2>2. /\ Cardinality(NotAppliedYet) \in Nat /\ Cardinality(NotAppliedYet)' \in Nat
        /\ Cardinality(NotAppliedYet)' =< Cardinality(NotAppliedYet) /\ Cardinality(Attacks) \in Nat
    BY <2>1, NotAppliedYetFinite, FS_Subset, FS_CardinalityType
  <2>3. ASSUME NEW n \in Namespaces, NEW c \in Chains
        PROVE  chains[n][c] + Cardinality(NotAppliedYet)' =< Cardinality(Attacks)
    <3>1. chains[n][c] \in Nat /\ chains[n][c] + Cardinality(NotAppliedYet) =< Cardinality(Attacks)
      BY DEF TypeInv, DataTypes, JumpsBounded
    <3> QED
      BY <2>2, <3>1
  <2> QED
    BY <2>1, <2>3 DEF JumpsBounded
<1>2. CASE \E a \in Attacks : Step(a)
  BY <1>2, StepJumps DEF TypeInv
<1>3. CASE UNCHANGED vars
  BY <1>3 DEF vars, caller, kernel, JumpsBounded, NotAppliedYet
<1> QED
  BY <1>1, <1>2, <1>3 DEF Next, AllEnded

(* The variables keep their types: a snapshot is of the attack's own       *)
(* interfaces, and there are never more jumps to a chain than attacks.     *)
THEOREM TypeTheorem == Spec => []TypeOK
<1>1. Init => TypeInv /\ JumpsBounded
  <2> SUFFICES ASSUME Init PROVE TypeInv /\ JumpsBounded
    OBVIOUS
  <2>1. TypeInv
    BY InitTypes, InitData DEF TypeInv
  <2>2. ASSUME NEW n \in Namespaces, NEW c \in Chains PROVE chains[n][c] = 0
    BY DEF Init
  <2> QED
    BY <2>1, <2>2, NotAppliedYetFinite DEF JumpsBounded
<1>2. TypeInv /\ JumpsBounded => TypeOK
  <2> SUFFICES ASSUME TypeInv, JumpsBounded PROVE TypeOK
    OBVIOUS
  <2>1. LockTypes /\ DataTypes
    BY DEF TypeInv
  <2>2. \A t \in Trees : IsTree(t)
    BY DEF Trees, IsTree
  <2>3. ASSUME NEW n \in Namespaces
        PROVE  chains[n] \in [Chains -> 0 .. Cardinality(Attacks)]
    <3>1. ASSUME NEW c \in Chains PROVE chains[n][c] \in 0 .. Cardinality(Attacks)
      <4>1. /\ chains[n][c] \in Nat
            /\ chains[n][c] + Cardinality(NotAppliedYet) =< Cardinality(Attacks)
        BY <2>1 DEF DataTypes, JumpsBounded
      <4> QED
        BY <4>1, NotAppliedYetFinite
    <3> QED
      BY <2>1, <3>1 DEF DataTypes
  <2> QED
    BY <2>1, <2>2, <2>3 DEF TypeOK, LockTypes, DataTypes, OwnSnapshots
<1> QED
  BY <1>1, <1>2, TypeInductive, JumpsInductive, PTL DEF Spec
-----------------------------------------------------------------------------
(* Rules and jumps. Each that is in place is of an attack that was applied,*)
(* fully or in part, and not yet reverted: a revert that leaves one reports*)
(* an error.                                                               *)
Owes(a) ==
    \/ pc[a] \in {"active", "failed", "delete", "stopFailed"}
    \/ pc[a] \in {"pop", "restore"} /\ err[a]

RulesOwned ==
    \A n \in Namespaces :
        /\ \A r \in rules[n] : \E a \in Attacks : netNs[a] = n /\ r \in ipRules(opts[a]) /\ Owes(a)
        /\ \A c \in Chains : chains[n][c] # 0 =>
                \E a \in Attacks : netNs[a] = n /\ c \in chainsOf(a) /\ Owes(a)

(* A step of an attack changes nothing of what the others owe, and ends    *)
(* its own debt only by a deletion that left nothing behind.               *)
LEMMA StepOwes ==
    ASSUME LockTypes, DataTypes, NEW a \in Attacks, Step(a), NEW b \in Attacks, Owes(b)
    PROVE  Owes(b)' \/ (b = a /\ pc[a] = "delete" /\ ~err'[a])
<1>1. CASE b # a
  BY <1>1, StepKinds, ErrCases DEF Quiet, Takes, Releases, Registers, Unregisters, Goto, LockTypes, Owes
<1>2. CASE b = a
  <2>1. CASE RunDelete(a)
    BY <1>2, <2>1, ErrCases DEF RunDelete, Goto, LockTypes, Owes
  <2>2. CASE popActiveNetfault(a) \/ applyRestore(a) \/ generateCommandsFails(a)
    BY <1>2, <2>2
       DEF popActiveNetfault, applyRestore, generateCommandsFails, Goto, LockTypes, Owes
  <2>3. CASE Revert(a)
    BY <1>2, <2>3 DEF Revert, Lock, Goto, LockTypes, Owes
  <2> QED
    BY <1>2, <2>1, <2>2, <2>3
       DEF Step, Preflight, Inspect, Apply, pushActiveNetfault, captureSnapshotForApply, RunAdd,
           Owes, BeforeApply
<1> QED
  BY <1>1, <1>2

(* What a deletion leaves of its own rules and jumps is reported.          *)
LEMMA DeletionReported ==
    ASSUME LockTypes, DataTypes, NEW a \in Attacks, Step(a), pc[a] = "delete", ~err'[a]
    PROVE  /\ rules'[netNs[a]] \cap ipRules(opts[a]) = {}
           /\ \A c \in chainsOf(a) : chains'[netNs[a]][c] = 0
<1>1. RunDelete(a)
  BY DEF Step, Preflight, Inspect, Apply, Revert, pushActiveNetfault, captureSnapshotForApply,
         RunAdd, popActiveNetfault, applyRestore, generateCommandsFails, Applied
<1>2. PICK ok \in SUBSET Commands(a) : DeleteRules(a, ok)
  BY <1>1 DEF RunDelete
<1>3. ok = Commands(a) /\ RemovableChains(a) = chainsOf(a)
  BY <1>2 DEF DeleteRules, DataTypes
<1>4. ipRules(opts[a]) \subseteq ok /\ chainsOf(a) \subseteq ok
  BY <1>3 DEF Commands
<1>5. netNs[a] \in Namespaces /\ chainsOf(a) \subseteq Chains
  BY DEF Namespaces, Chains
<1> QED
  BY <1>2, <1>3, <1>4, <1>5 DEF DeleteRules, DataTypes

LEMMA RuleCases ==
    ASSUME DataTypes, NEW a \in Attacks, Step(a), NEW n \in Namespaces, NEW r \in rules'[n]
    PROVE  r \in rules[n] \/ (pc[a] = "add" /\ netNs[a] = n /\ r \in ipRules(opts[a]))
<1>1. CASE RunAdd(a)
  <2>1. PICK ok \in SUBSET Commands(a) : AddRules(a, ok)
    BY <1>1 DEF RunAdd, AddSucceeds, AddFails, SomeFail
  <2> QED
    BY <1>1, <2>1 DEF RunAdd, AddRules, DataTypes
<1>2. CASE RunDelete(a)
  <2>1. PICK ok \in SUBSET Commands(a) : DeleteRules(a, ok)
    BY <1>2 DEF RunDelete, SomeFail
  <2> QED
    BY <2>1 DEF DeleteRules, DataTypes
<1> QED
  BY <1>1, <1>2 DEF Step, Preflight, Inspect, Apply, Revert, Lock, pushActiveNetfault,
                    captureSnapshotForApply, popActiveNetfault, applyRestore, generateCommandsFails, kernel

LEMMA AddOwes ==
    ASSUME LockTypes, NEW a \in Attacks, Step(a), pc[a] = "add"
    PROVE  Owes(a)' /\ pc'[a] \in {"active", "failed"}
BY StepKinds DEF Quiet, Takes, Releases, Registers, Unregisters, Goto, LockTypes, Owes, BeforeApply, Applied

LEMMA StepRules ==
    ASSUME LockTypes, DataTypes, RulesOwned, NEW a \in Attacks, Step(a)
    PROVE  RulesOwned'
<1> SUFFICES ASSUME NEW n \in Namespaces
             PROVE  /\ \A r \in rules'[n] :
                            \E b \in Attacks : netNs[b] = n /\ r \in ipRules(opts[b]) /\ Owes(b)'
                    /\ \A c \in Chains : chains'[n][c] # 0 =>
                            \E b \in Attacks : netNs[b] = n /\ c \in chainsOf(b) /\ Owes(b)'
  BY DEF RulesOwned
<1>1. ASSUME NEW r \in rules'[n]
      PROVE  \E b \in Attacks : netNs[b] = n /\ r \in ipRules(opts[b]) /\ Owes(b)'
  <2>1. CASE pc[a] = "add" /\ netNs[a] = n /\ r \in ipRules(opts[a])
    BY <2>1, AddOwes
  <2>2. CASE r \in rules[n]
    <3>1. PICK b \in Attacks : netNs[b] = n /\ r \in ipRules(opts[b]) /\ Owes(b)
      BY <2>2 DEF RulesOwned
    <3>2. ~(b = a /\ pc[a] = "delete" /\ ~err'[a])
      BY <1>1, <3>1, DeletionReported
    <3> QED
      BY <3>1, <3>2, StepOwes
  <2> QED
    BY <1>1, <2>1, <2>2, RuleCases
<1>2. ASSUME NEW c \in Chains, chains'[n][c] # 0
      PROVE  \E b \in Attacks : netNs[b] = n /\ c \in chainsOf(b) /\ Owes(b)'
  <2>1. CASE pc[a] = "add" /\ netNs[a] = n /\ c \in chainsOf(a)
    BY <2>1, AddOwes
  <2>2. CASE chains'[n][c] = chains[n][c]
    <3>1. PICK b \in Attacks : netNs[b] = n /\ c \in chainsOf(b) /\ Owes(b)
      BY <1>2, <2>2 DEF RulesOwned
    <3>2. ~(b = a /\ pc[a] = "delete" /\ ~err'[a])
      BY <1>2, <3>1, DeletionReported
    <3> QED
      BY <3>1, <3>2, StepOwes
  <2> QED
    BY <1>2, <2>1, <2>2, ChainCases
<1> QED
  BY <1>1, <1>2

LEMMA RulesInductive == TypeInv /\ RulesOwned /\ [Next]_vars => RulesOwned'
<1> SUFFICES ASSUME TypeInv, RulesOwned, [Next]_vars PROVE RulesOwned'
  OBVIOUS
<1>1. CASE Restart
  <2>1. \A a \in Attacks : Owes(a) => Owes(a)'
    BY <1>1 DEF Restart, Owes, InApply, InRevert
  <2>2. UNCHANGED <<rules, chains>>
    BY <1>1 DEF Restart, kernel
  <2> QED
    BY <2>1, <2>2 DEF RulesOwned
<1>2. CASE \E a \in Attacks : Step(a)
  BY <1>2, StepRules DEF TypeInv
<1>3. CASE UNCHANGED vars
  BY <1>3 DEF vars, caller, kernel, RulesOwned, Owes
<1> QED
  BY <1>1, <1>2, <1>3 DEF Next, AllEnded

LEMMA InitRules == Init => RulesOwned
BY DEF Init, RulesOwned

LEMMA IdleOwesNothing ==
    ASSUME NEW n, Idle(n), NEW a \in Attacks, netNs[a] = n
    PROVE  ~Owes(a)
BY DEF Idle, Owes, BeforeApply

(* A part of NoResidue that holds of every interface: neither a failing    *)
(* command nor a restart makes the code forget an ip rule or a chain.      *)
THEOREM RulesTheorem ==
    Spec => [](\A n \in Namespaces : Idle(n) => rules[n] = {} /\ \A c \in Chains : chains[n][c] = 0)
<1>1. Init => TypeInv /\ RulesOwned
  BY InitTypes, InitData, InitRules DEF TypeInv
<1>2. RulesOwned =>
        \A n \in Namespaces : Idle(n) => rules[n] = {} /\ \A c \in Chains : chains[n][c] = 0
  BY IdleOwesNothing DEF RulesOwned
<1> QED
  BY <1>1, <1>2, TypeInductive, RulesInductive, PTL DEF Spec
-----------------------------------------------------------------------------
(* Roots, of the interfaces where no attack took another's tree for the    *)
(* host's. Whoever has a root qdisc still owes its deletion, and unless    *)
(* its revert failed or the extension restarted it is registered.          *)
HasRoot(a) ==
    /\ Owes(a)
    /\ pc[a] \in {"active", "failed"} => a \in activeNetfault[netNs[a]] \/ restarts # 0

(* An attack's root is of an attack that may have one.                     *)
RootsOwned ==
    \A a \in Attacks : \A i \in tc(a) \ inherited :
        tree[i].root \in AttackRoots =>
            \E b \in Attacks : i \in tc(b) /\ HasRoot(b) /\ tree[i].root = tcTree(opts[b]).root

(* A safe interface has an attack's tree, its own or the kernel's default. *)
SafeTrees(i) == {Original[i], DefaultTree}
TreesKnown ==
    \A a \in Attacks : \A i \in tc(a) \ (UnsafeInterfaces \cup inherited) :
        tree[i].root \in AttackRoots \/ tree[i] \in SafeTrees(i)

(* No snapshot holds an attack's tree.                                     *)
SnapshotsClean ==
    \A a \in Attacks : \A i \in DOMAIN snapshot[a] \ inherited :
        /\ snapshot[a][i].root \notin AttackRoots
        /\ i \notin UnsafeInterfaces => snapshot[a][i] \in SafeTrees(i)

RootInv == RootsOwned /\ TreesKnown /\ SnapshotsClean

LEMMA SameNamespace ==
    ASSUME NEW a \in Attacks, NEW b \in Attacks, NEW i \in tc(a), i \in tc(b)
    PROVE  /\ netNs[a] = netNs[b] /\ netNs[a] \in Namespaces
           /\ i \in Interfaces /\ UsesTc(opts[a])
<1>1. tc(a) \cap tc(b) # {}
  OBVIOUS
<1> QED
  BY <1>1, InterfacesAssumption DEF tc, tcRootQdiscInterfaces, Namespaces

(* A step leaves the others with their roots, and its own attack unless it *)
(* deleted all it had.                                                     *)
LEMMA StepHasRoot ==
    ASSUME LockTypes, DataTypes, NEW a \in Attacks, Step(a), NEW b \in Attacks, HasRoot(b),
           ~(b = a /\ pc[a] = "delete" /\ ~err'[a])
    PROVE  HasRoot(b)'
<1>1. Owes(b)'
  BY StepOwes DEF HasRoot
<1>2. CASE b # a
  BY <1>1, <1>2, OthersStay, HistoryCases DEF HasRoot
<1>3. CASE b = a
  <2>1. pc'[a] \notin {"active", "failed"}
    BY <1>3, StepKinds
       DEF Quiet, Takes, Releases, Registers, Unregisters, Goto, LockTypes, HasRoot, Owes,
           BeforeApply, Applied
  <2> QED
    BY <1>1, <1>3, <2>1 DEF HasRoot
<1> QED
  BY <1>2, <1>3

LEMMA StepRoots ==
    ASSUME TypeInv, Admitted, RootInv, NEW a \in Attacks, Step(a)
    PROVE  RootsOwned'
<1>1. LockTypes /\ DataTypes
  BY DEF TypeInv
<1> SUFFICES ASSUME NEW x \in Attacks, NEW i \in tc(x) \ inherited',
                    tree'[i].root \in AttackRoots
             PROVE  \E b \in Attacks :
                        i \in tc(b) /\ HasRoot(b)' /\ tree'[i].root = tcTree(opts[b]).root
  BY DEF RootsOwned, tc
<1>2. i \notin inherited /\ i \in Interfaces /\ tree[i] \in Trees
  BY <1>1, HistoryCases, SameNamespace DEF DataTypes
<1>3. tree[i].root \in AttackRoots =>
        \E b \in Attacks : i \in tc(b) /\ HasRoot(b) /\ tree[i].root = tcTree(opts[b]).root
  BY <1>2 DEF RootInv, RootsOwned
<1>4. CASE tree'[i].root = tree[i].root /\ ~(pc[a] = "delete" /\ i \in tc(a))
  BY <1>1, <1>3, <1>4, StepHasRoot
<1>5. CASE Added(a, i)
  <2>1. pc[a] = "add" /\ i \in tc(a) /\ a \in activeNetfault[netNs[a]]
    BY <1>5 DEF Added, Admitted
  <2>2. tree'[i].root \in {tree[i].root, tcTree(opts[a]).root}
    BY <1>2, <1>5, OwnTree, AddEffect DEF Added
  <2>3. UNCHANGED activeNetfault
    BY <2>1, StepKinds DEF Quiet, Takes, Releases, Registers, Unregisters, BeforeApply, Applied
  <2>4. HasRoot(a)'
    BY <1>1, <2>1, <2>3, AddOwes DEF HasRoot
  <2> QED
    BY <1>4, <2>1, <2>2, <2>4
<1>6. CASE Deleted(a, i)
  <2>1. PICK ok \in SUBSET Commands(a) :
            /\ tree'[i] = AfterDelete(tree[i], tcTree(opts[a]), ok)
            /\ ok # Commands(a) => err'[a]
    BY <1>6 DEF Deleted
  <2>2. tree'[i].root = tree[i].root
    <3>1. DefaultTree.root \notin AttackRoots
      BY DEF DefaultTree, AttackRoots
    <3> QED
      BY <1>2, <2>1, <3>1, OwnTree, DeleteEffect
  <2>3. PICK b \in Attacks : i \in tc(b) /\ HasRoot(b) /\ tree[i].root = tcTree(opts[b]).root
    BY <1>3, <2>2
  <2>4. ASSUME b = a PROVE err'[a]
    <3>1. "root" \notin ok
      BY <1>2, <2>1, <2>3, <2>4, OwnTree, DeleteEffect
    <3>2. "root" \in Commands(a)
      BY <2>3, <2>4, SameNamespace DEF Commands
    <3> QED
      BY <2>1, <3>1, <3>2
  <2> QED
    BY <1>1, <2>2, <2>3, <2>4, StepHasRoot
<1>7. CASE Replayed(a, i)
  <2>1. snapshot[a][i] \in Trees /\ snapshot[a][i].root \notin AttackRoots
    BY <1>1, <1>2, <1>7 DEF Replayed, DataTypes, RootInv, SnapshotsClean
  <2>2. tree'[i] = tree[i]
    BY <1>2, <1>7, <2>1, RestoreEffect DEF Replayed
  <2>3. pc[a] # "delete"
    BY <1>7 DEF Replayed
  <2> QED
    BY <1>4, <2>2, <2>3
<1> QED
  BY <1>1, <1>2, <1>4, <1>5, <1>6, <1>7, TreeCases

(* Replaying a safe tree onto a safe tree or an attack's yields one.       *)
LEMMA ReplaySafe ==
    ASSUME NEW i \in Interfaces, NEW t \in Trees, NEW saved \in SafeTrees(i),
           t.root \in AttackRoots \/ t \in SafeTrees(i)
    PROVE  /\ Restored(t, saved) = t \/ Restored(t, saved) \in SafeTrees(i)
           /\ saved = Original[i] /\ Original[i].root # "noqueue" => Restored(t, saved) = Original[i]
           /\ t = Original[i] => Restored(t, saved) = t
<1>1. /\ Original[i] \in Trees /\ DefaultTree \in Trees /\ DefaultTree.root = "noqueue"
      /\ Original[i].root \notin AttackRoots
      /\ Original[i].root = "noqueue" => Original[i] = DefaultTree
  BY OriginalTrees DEF AttackRoots
<1>2. CASE saved.root = "noqueue"
  <2>1. Restored(t, saved) = t
    BY <1>1, <1>2, RestoreEffect DEF SafeTrees
  <2> QED
    BY <1>2, <2>1
<1>3. CASE saved.root # "noqueue"
  <2>1. saved = Original[i]
    BY <1>1, <1>3 DEF SafeTrees
  <2>2. CASE t.root = saved.root
    <3>1. t = Original[i]
      BY <1>1, <1>3, <2>1, <2>2 DEF SafeTrees
    <3> QED
      BY <2>1, <3>1, RestoreEffect
  <2>3. CASE t.root # saved.root
    BY <1>1, <1>3, <2>1, <2>3, RestoreEffect DEF SafeTrees
  <2> QED
    BY <2>2, <2>3
<1> QED
  BY <1>2, <1>3

LEMMA StepTreesKnown ==
    ASSUME TypeInv, RootInv, NEW a \in Attacks, Step(a)
    PROVE  TreesKnown'
<1>1. LockTypes /\ DataTypes
  BY DEF TypeInv
<1> SUFFICES ASSUME NEW x \in Attacks, NEW i \in tc(x) \ (UnsafeInterfaces \cup inherited')
             PROVE  tree'[i].root \in AttackRoots \/ tree'[i] \in SafeTrees(i)
  BY DEF TreesKnown, tc, UnsafeInterfaces, SafeTrees
<1>2. i \notin inherited /\ i \in Interfaces /\ tree[i] \in Trees
  BY <1>1, HistoryCases, SameNamespace DEF DataTypes
<1>3. tree[i].root \in AttackRoots \/ tree[i] \in SafeTrees(i)
  BY <1>2 DEF RootInv, TreesKnown
<1>4. CASE Added(a, i)
  BY <1>2, <1>3, <1>4, OwnTree, AddEffect DEF Added
<1>5. CASE Deleted(a, i)
  BY <1>2, <1>3, <1>5, OwnTree, DeleteEffect DEF Deleted, SafeTrees
<1>6. CASE Replayed(a, i)
  <2>1. snapshot[a][i] \in SafeTrees(i)
    BY <1>2, <1>6 DEF Replayed, RootInv, SnapshotsClean
  <2> QED
    BY <1>2, <1>3, <1>6, <2>1, ReplaySafe DEF Replayed
<1> QED
  BY <1>1, <1>2, <1>3, <1>4, <1>5, <1>6, TreeCases

(* A capture of a safe tree is that tree.                                  *)
LEMMA CaptureSafe ==
    ASSUME NEW i \in Interfaces, i \notin UnsafeInterfaces, NEW t \in SafeTrees(i)
    PROVE  Captured(t) = t
<1>1. Original[i].root = "tuned" => "class" \notin Original[i].parts
  BY InterfacesAssumption
<1>2. Original[i].root \in {"noqueue", "tuned"}
  BY DEF UnsafeInterfaces, SafeRoots
<1> QED
  BY <1>1, <1>2, OriginalTrees, CaptureEffect DEF SafeTrees

LEMMA StepSnapshotsClean ==
    ASSUME TypeInv, RootInv, NEW a \in Attacks, Step(a)
    PROVE  SnapshotsClean'
<1>1. LockTypes /\ DataTypes
  BY DEF TypeInv
<1> SUFFICES ASSUME NEW x \in Attacks, NEW i \in DOMAIN snapshot'[x] \ inherited'
             PROVE  /\ snapshot'[x][i].root \notin AttackRoots
                    /\ i \notin UnsafeInterfaces => snapshot'[x][i] \in SafeTrees(i)
  BY DEF SnapshotsClean, SafeTrees, UnsafeInterfaces
<1>2. i \notin inherited
  BY <1>1, HistoryCases
<1>3. ASSUME i \in DOMAIN snapshot[x], snapshot'[x] = snapshot[x]
      PROVE  /\ snapshot'[x][i].root \notin AttackRoots
             /\ i \notin UnsafeInterfaces => snapshot'[x][i] \in SafeTrees(i)
  BY <1>2, <1>3 DEF RootInv, SnapshotsClean
<1>4. CASE snapshot' = snapshot
  BY <1>3, <1>4
<1>5. CASE snapshot' = [snapshot EXCEPT ![a] = None]
  BY <1>1, <1>3, <1>5 DEF DataTypes, OwnSnapshots, None
<1>6. CASE CapturedBy(a)
  <2>1. CASE x # a
    <3>1. snapshot'[x] = snapshot[x]
      BY <1>1, <1>6, <2>1 DEF CapturedBy, DataTypes, OwnSnapshots
    <3> QED
      BY <1>3, <3>1
  <2>2. CASE x = a
    <3>1. i \in tc(a) /\ snapshot'[a][i] = Captured(tree[i])
      BY <1>1, <1>6, <2>2 DEF CapturedBy, DataTypes, OwnSnapshots
    <3>2. i \in Interfaces /\ tree[i] \in Trees
      BY <1>1, <3>1, SameNamespace DEF DataTypes
    <3>3. tree[i].root \notin AttackRoots
      BY <1>6, <3>1 DEF CapturedBy
    <3>4. i \notin UnsafeInterfaces => tree[i] \in SafeTrees(i)
      BY <1>2, <3>1, <3>3 DEF RootInv, TreesKnown
    <3> QED
      BY <2>2, <3>1, <3>2, <3>3, <3>4, CaptureEffect, CaptureSafe
  <2> QED
    BY <2>1, <2>2
<1> QED
  BY <1>1, <1>4, <1>5, <1>6, SnapshotCases

(* A restart touches no tree, and whoever has a root has it still.         *)
LEMMA RestartRootInv ==
    ASSUME TypeInv, RootInv, Restart
    PROVE  RootInv'
<1>1. UNCHANGED <<tree, inherited>> /\ restarts' # 0
  BY DEF TypeInv, LockTypes, Restart, kernel
<1>2. \A b \in Attacks : HasRoot(b) => HasRoot(b)'
  BY <1>1 DEF Restart, HasRoot, Owes, InApply, InRevert
<1>3. RootsOwned' /\ TreesKnown'
  BY <1>1, <1>2 DEF RootInv, RootsOwned, TreesKnown, SafeTrees, UnsafeInterfaces, tc
<1>4. \A a \in Attacks : snapshot'[a] = snapshot[a] \/ DOMAIN snapshot'[a] = {}
  BY DEF Restart, None
<1>5. SnapshotsClean'
  BY <1>1, <1>4 DEF RootInv, SnapshotsClean, SafeTrees, UnsafeInterfaces
<1> QED
  BY <1>3, <1>5 DEF RootInv

LEMMA RootInductive == TypeInv /\ Admitted /\ RootInv /\ [Next]_vars => RootInv'
<1> SUFFICES ASSUME TypeInv, Admitted, RootInv, [Next]_vars PROVE RootInv'
  OBVIOUS
<1>1. CASE Restart
  BY <1>1, RestartRootInv
<1>2. CASE \E a \in Attacks : Step(a)
  BY <1>2, StepRoots, StepTreesKnown, StepSnapshotsClean DEF RootInv
<1>3. CASE UNCHANGED vars
  BY <1>3 DEF vars, caller, kernel, history, RootInv, RootsOwned, TreesKnown, SnapshotsClean,
              HasRoot, Owes
<1> QED
  BY <1>1, <1>2, <1>3 DEF Next, AllEnded

LEMMA InitRoots == Init => RootInv
<1> SUFFICES ASSUME Init PROVE RootInv
  OBVIOUS
<1>2. \A i \in Interfaces : tree[i] = Original[i] /\ tree[i].root \notin AttackRoots
  BY OriginalTrees DEF Init, AttackRoots
<1>3. RootsOwned /\ TreesKnown
  BY <1>2, SameNamespace DEF RootsOwned, TreesKnown, SafeTrees
<1>4. SnapshotsClean
  BY DEF Init, SnapshotsClean, None
<1> QED
  BY <1>3, <1>4 DEF RootInv

TheInv == TypeInv /\ NoConflictingActive /\ Admitted /\ RulesOwned /\ RootInv

LEMMA TheInvHolds == Spec => []TheInv
<1>1. Init => TheInv
  <2>1. Init => NoConflictingActive /\ Admitted
    BY DEF Init, NoConflictingActive, Admitted
  <2> QED
    BY <2>1, InitTypes, InitData, InitRules, InitRoots DEF TheInv, TypeInv
<1>2. TheInv /\ [Next]_vars => TheInv'
  BY TypeInductive, ConflictsInductive, AdmittedInductive, RulesInductive, RootInductive
     DEF TheInv, TypeInv
<1> QED
  BY <1>1, <1>2, PTL DEF Spec

(* An attack that is let in finds no qdiscs of another one, except of one  *)
(* with equal options, of one whose revert failed, and after a restart:    *)
(* for any attacks, and any number of failures and restarts.               *)
THEOREM AdmissionTheorem == Spec => []AdmittedAlone
<1>1. TheInv => AdmittedAlone
  <2> SUFFICES ASSUME TheInv, NEW a \in Attacks, pc[a] = "capture",
                      NEW i \in tc(a) \ inherited, tree[i].root \in AttackRoots
               PROVE  \E b \in Attacks \ {a} :
                        /\ i \in tc(b) /\ tree[i].root = tcTree(opts[b]).root
                        /\ ~doesConflictWith(opts[a], opts[b]) \/ pc[b] = "stopFailed" \/ restarts > 0
    BY DEF AdmittedAlone, tc
  <2>1. PICK b \in Attacks : i \in tc(b) /\ HasRoot(b) /\ tree[i].root = tcTree(opts[b]).root
    BY DEF TheInv, RootInv, RootsOwned
  <2>2. b # a
    BY <2>1 DEF HasRoot, Owes
  <2>3. netNs[b] = netNs[a] /\ netNs[a] \in Namespaces
    BY <2>1, SameNamespace
  <2>4. pc[b] \in {"active", "failed", "stopFailed"}
    <3>1. Holding(a)
      BY DEF Holding, InApply
    <3>2. ~Holding(b)
      BY <2>2, <2>3, <3>1 DEF TheInv, TypeInv, LockIsHeld
    <3> QED
      BY <2>1, <3>2 DEF HasRoot, Owes, Holding, InRevert
  <2>5. CASE b \in activeNetfault[netNs[b]]
    <3>1. a \in activeNetfault[netNs[a]]
      BY DEF TheInv, Admitted
    <3>2. ~doesConflictWith(opts[a], opts[b])
      BY <2>3, <2>5, <3>1 DEF TheInv, NoConflictingActive
    <3> QED
      BY <2>1, <2>2, <3>2
  <2>6. CASE b \notin activeNetfault[netNs[b]]
    <3>1. restarts \in Nat
      BY DEF TheInv, TypeInv, LockTypes
    <3>2. pc[b] = "stopFailed" \/ restarts > 0
      BY <2>1, <2>4, <2>6, <3>1 DEF HasRoot
    <3> QED
      BY <2>1, <2>2, <3>2
  <2> QED
    BY <2>5, <2>6
<1> QED
  BY <1>1, TheInvHolds, PTL

(* Once every attack on a namespace is reverted no ip rule, chain or root  *)
(* qdisc of them is left, however they were refused, failed half way, were *)
(* cut off by a restart, overlapped by others or had their revert repeated,*)
(* but for interfaces where one took another's qdiscs for the host's.      *)
THEOREM ResidueTheorem == Spec => []NoResidue
<1>1. TheInv => NoResidue
  <2> SUFFICES ASSUME TheInv, NEW n \in Namespaces, Idle(n)
               PROVE  /\ rules[n] = {}
                      /\ \A c \in Chains : chains[n][c] = 0
                      /\ \A i \in InterfacesOf(n) \ inherited : tree[i].root \notin AttackRoots
    BY DEF NoResidue
  <2>1. \A a \in Attacks : netNs[a] = n => ~Owes(a) /\ ~HasRoot(a)
    BY IdleOwesNothing DEF HasRoot
  <2>2. rules[n] = {} /\ \A c \in Chains : chains[n][c] = 0
    BY <2>1 DEF TheInv, RulesOwned
  <2>3. ASSUME NEW i \in InterfacesOf(n) \ inherited PROVE tree[i].root \notin AttackRoots
    <3>1. PICK a \in Attacks : netNs[a] = n /\ i \in tc(a)
      BY DEF InterfacesOf, tc
    <3>2. \A b \in Attacks : i \in tc(b) => netNs[b] = n
      BY <3>1, SameNamespace
    <3> QED
      BY <2>1, <2>3, <3>1, <3>2 DEF TheInv, RootInv, RootsOwned
  <2> QED
    BY <2>2, <2>3
<1> QED
  BY <1>1, TheInvHolds, PTL
-----------------------------------------------------------------------------
(* Restoring. What a tuned interface had before any attack is in place or  *)
(* in the snapshot of an attack whose revert will replay it.               *)
Keeps(a, i) ==
    /\ pc[a] \in {"add", "active", "delete", "pop", "restore", "stopFailed"}
    /\ i \in DOMAIN snapshot[a] /\ snapshot[a][i] = Original[i]
Untouched(i) ==
    tree[i] = Original[i] /\ \A a \in Attacks : i \in tc(a) => pc[a] # "add"
OriginalKept ==
    \A a \in Attacks : netNs[a] \notin lossy => \A i \in tc(a) \ inherited :
        Original[i].root = "tuned" /\ ~Strict =>
            Untouched(i) \/ \E b \in Attacks : Keeps(b, i)

(* The steps that touch snapshots, as far as an interface is concerned.    *)
LEMMA CaptureKeeps ==
    ASSUME NEW a \in Attacks, Step(a), pc[a] = "capture", ~Strict, NEW i \in tc(a)
    PROVE  netNs[a] \in lossy' \/ snapshot' = [snapshot EXCEPT ![a] = [j \in tc(a) |-> Captured(tree[j])]]
<1>1. captureSnapshotForApply(a)
  BY DEF Step, Preflight, Inspect, Apply, Revert, pushActiveNetfault, RunAdd, RunDelete,
         popActiveNetfault, applyRestore, generateCommandsFails, Applied
<1> QED
  BY <1>1 DEF captureSnapshotForApply, Lose, tc

LEMMA AddKeeps ==
    ASSUME LockTypes, NEW a \in Attacks, Step(a), pc[a] = "add"
    PROVE  (pc'[a] = "active" /\ snapshot' = snapshot) \/ (UsesTc(opts[a]) => netNs[a] \in lossy')
<1>1. RunAdd(a)
  BY DEF Step, Preflight, Inspect, Apply, Revert, pushActiveNetfault, RunDelete,
         captureSnapshotForApply, popActiveNetfault, applyRestore, generateCommandsFails, Applied
<1> QED
  BY <1>1 DEF RunAdd, AddSucceeds, AddFails, Goto, Lose, LockTypes

LEMMA DoneReplays ==
    ASSUME LockTypes, NEW a \in Attacks, Step(a), pc[a] = "restore", pc'[a] # "stopFailed", ~Strict,
           NEW i \in Interfaces, i \in DOMAIN snapshot[a]
    PROVE  tree'[i] = Restored(tree[i], snapshot[a][i])
<1>1. applyRestore(a)
  BY DEF Step, Preflight, Inspect, Apply, Revert, pushActiveNetfault, RunDelete, RunAdd,
         captureSnapshotForApply, popActiveNetfault, generateCommandsFails, Applied
<1> QED
  BY <1>1 DEF applyRestore, Goto, LockTypes, Replay, Incoming

(* An attack keeps what it can replay until it did.                        *)
LEMMA StepKeeps ==
    ASSUME LockTypes, DataTypes, NEW a \in Attacks, Step(a), NEW b \in Attacks, NEW i \in Interfaces,
           Keeps(b, i), netNs[b] \notin lossy'
    PROVE  Keeps(b, i)' \/ (b = a /\ pc[a] = "restore" /\ pc'[a] # "stopFailed")
<1>1. i \in tc(b) /\ UsesTc(opts[b])
  BY DEF Keeps, DataTypes, OwnSnapshots, tc, tcRootQdiscInterfaces
<1>2. CASE b # a
  <2>1. pc'[b] = pc[b]
    BY <1>2, StepKinds DEF Quiet, Takes, Releases, Registers, Unregisters, Goto, LockTypes
  <2>2. snapshot'[b] = snapshot[b]
    BY <1>2, SnapshotCases DEF CapturedBy, DataTypes, OwnSnapshots
  <2> QED
    BY <2>1, <2>2 DEF Keeps
<1>3. CASE b = a /\ pc[a] = "add"
  BY <1>1, <1>3, AddKeeps DEF Keeps
<1>4. CASE b = a /\ pc[a] # "add"
  <2>1. snapshot' = snapshot
    BY <1>4, SnapshotCases DEF CapturedBy, Keeps
  <2>2. \/ pc'[a] \in {"active", "delete", "pop", "restore", "stopFailed"}
        \/ pc[a] = "restore" /\ pc'[a] # "stopFailed"
    BY <1>4, StepKinds
       DEF Quiet, Takes, Releases, Registers, Unregisters, Goto, LockTypes, Keeps, BeforeApply, Applied
  <2> QED
    BY <1>4, <2>1, <2>2 DEF Keeps
<1> QED
  BY <1>2, <1>3, <1>4

LEMMA StepOriginalKept ==
    ASSUME TypeInv, RootInv, OriginalKept, NEW a \in Attacks, Step(a)
    PROVE  OriginalKept'
<1>1. LockTypes /\ DataTypes /\ LockIsHeld
  BY DEF TypeInv
<1> SUFFICES ASSUME NEW x \in Attacks, netNs[x] \notin lossy', NEW i \in tc(x) \ inherited',
                    Original[i].root = "tuned", ~Strict
             PROVE  Untouched(i)' \/ \E b \in Attacks : Keeps(b, i)'
  BY DEF OriginalKept, tc
<1>2. /\ i \in Interfaces /\ tree[i] \in Trees
      /\ netNs[x] \notin lossy /\ i \notin inherited
  BY <1>1, HistoryCases, SameNamespace DEF DataTypes
<1>3. i \notin UnsafeInterfaces
  BY <1>2 DEF UnsafeInterfaces, SafeRoots
<1>4. /\ Original[i].root # "noqueue" /\ Original[i].root \notin AttackRoots
      /\ tree[i].root \in AttackRoots \/ tree[i] \in SafeTrees(i)
  BY <1>2, <1>3 DEF RootInv, TreesKnown, AttackRoots
<1>5. ASSUME NEW b \in Attacks, i \in DOMAIN snapshot[b]
      PROVE  i \in tc(b) /\ netNs[b] = netNs[x] /\ snapshot[b][i] \in SafeTrees(i)
  <2>1. i \in tc(b)
    BY <1>1, <1>5 DEF DataTypes, OwnSnapshots, tc
  <2>2. netNs[b] = netNs[x]
    BY <2>1, SameNamespace
  <2> QED
    BY <1>2, <1>3, <1>5, <2>1, <2>2 DEF RootInv, SnapshotsClean
<1>6. ASSUME NEW b \in Attacks, Keeps(b, i)
      PROVE  Untouched(i)' \/ \E c \in Attacks : Keeps(c, i)'
  <2>1. i \in DOMAIN snapshot[b] /\ snapshot[b][i] = Original[i] /\ netNs[b] = netNs[x]
    BY <1>5, <1>6 DEF Keeps
  <2>2. CASE b = a /\ pc[a] = "restore" /\ pc'[a] # "stopFailed"
    <3>1. tree'[i] = Restored(tree[i], snapshot[a][i])
      BY <1>1, <1>2, <2>1, <2>2, DoneReplays
    <3>2. tree'[i] = Original[i]
      BY <1>2, <1>4, <1>5, <2>1, <2>2, <3>1, ReplaySafe
    <3>3. ASSUME NEW y \in Attacks, i \in tc(y), pc'[y] = "add" PROVE FALSE
      <4>1. y # a
        BY <1>1, <2>2, <3>3, StepKinds
           DEF Quiet, Takes, Releases, Registers, Unregisters, Goto, LockTypes, BeforeApply
      <4>2. pc[y] = "add"
        BY <1>1, <3>3, <4>1, StepKinds DEF Quiet, Takes, Releases, Registers, Unregisters, Goto, LockTypes
      <4>3. Holding(a) /\ Holding(y)
        BY <2>2, <4>2 DEF Holding, InApply, InRevert
      <4>4. netNs[y] = netNs[a]
        BY <2>1, <2>2, <3>3, SameNamespace
      <4> QED
        BY <1>1, <4>1, <4>3, <4>4 DEF LockIsHeld
    <3> QED
      BY <3>2, <3>3 DEF Untouched, tc
  <2>3. CASE ~(b = a /\ pc[a] = "restore" /\ pc'[a] # "stopFailed")
    BY <1>1, <1>2, <1>6, <2>1, <2>3, StepKeeps
  <2> QED
    BY <2>2, <2>3
<1>7. ASSUME Untouched(i)
      PROVE  Untouched(i)' \/ \E c \in Attacks : Keeps(c, i)'
  <2>1. tree'[i] = Original[i]
    <3>1. tree[i] = Original[i] /\ (i \in tc(a) => pc[a] # "add")
      BY <1>7 DEF Untouched
    <3>2. Deleted(a, i) => tree'[i] = tree[i]
      BY <1>2, <1>4, <3>1, OwnTree, DeleteEffect DEF Deleted
    <3>3. Replayed(a, i) => tree'[i] = tree[i]
      BY <1>2, <1>4, <1>5, <3>1, ReplaySafe DEF Replayed
    <3> QED
      BY <1>1, <1>2, <3>1, <3>2, <3>3, TreeCases DEF Added
  <2>2. CASE i \in tc(a) /\ pc[a] = "capture"
    <3>1. netNs[a] = netNs[x]
      BY <2>2, SameNamespace
    <3>2. snapshot' = [snapshot EXCEPT ![a] = [j \in tc(a) |-> Captured(tree[j])]]
      BY <2>2, <3>1, CaptureKeeps
    <3>3. i \in DOMAIN snapshot'[a] /\ snapshot'[a][i] = Captured(tree[i])
      BY <1>1, <2>2, <3>2 DEF DataTypes, OwnSnapshots
    <3>4. snapshot'[a][i] = Original[i]
      BY <1>2, <1>3, <1>7, <3>3, CaptureSafe DEF Untouched, SafeTrees
    <3>5. pc'[a] = "add"
      BY <1>1, <2>2, StepKinds
         DEF Quiet, Takes, Releases, Registers, Unregisters, Goto, LockTypes, BeforeApply, Applied
    <3> QED
      BY <3>3, <3>4, <3>5 DEF Keeps
  <2>3. CASE ~(i \in tc(a) /\ pc[a] = "capture")
    <3>1. ASSUME NEW y \in Attacks, i \in tc(y) PROVE pc'[y] # "add"
      <4>1. pc[y] # "add"
        BY <1>7, <3>1 DEF Untouched
      <4> QED
        BY <1>1, <2>3, <3>1, <4>1, StepKinds
           DEF Quiet, Takes, Releases, Registers, Unregisters, Goto, LockTypes, BeforeApply
    <3> QED
      BY <2>1, <3>1 DEF Untouched, tc
  <2> QED
    BY <2>2, <2>3
<1> QED
  BY <1>2, <1>6, <1>7 DEF OriginalKept

(* A restart cuts no attack off from its snapshot but those that are being *)
(* applied.                                                                *)
LEMMA RestartOriginalKept ==
    ASSUME TypeInv, OriginalKept, Restart
    PROVE  OriginalKept'
<1>1. DataTypes /\ LockTypes /\ UNCHANGED <<tree, inherited>> /\ lossy \subseteq lossy'
  BY DEF TypeInv, Restart, kernel
<1> SUFFICES ASSUME NEW x \in Attacks, netNs[x] \notin lossy', NEW i \in tc(x) \ inherited,
                    Original[i].root = "tuned", ~Strict
             PROVE  Untouched(i)' \/ \E b \in Attacks : Keeps(b, i)'
  BY <1>1 DEF OriginalKept, tc
<1>2. Untouched(i) \/ \E b \in Attacks : Keeps(b, i)
  BY <1>1 DEF OriginalKept
<1>3. CASE Untouched(i)
  <2>1. \A b \in Attacks : pc'[b] # "add" \/ pc[b] = "add"
    BY DEF Restart
  <2> QED
    BY <1>1, <1>3, <2>1 DEF Untouched, tc
<1>4. ASSUME NEW b \in Attacks, Keeps(b, i) PROVE Keeps(b, i)'
  <2>1. i \in tc(b)
    BY <1>1, <1>4 DEF Keeps, DataTypes, OwnSnapshots, tc
  <2>2. netNs[b] \notin lossy'
    BY <2>1, SameNamespace
  <2>3. pc[b] \notin InApply
    BY <2>2 DEF Restart
  <2> QED
    BY <1>4, <2>3 DEF Restart, Keeps, InApply, InRevert
<1> QED
  BY <1>2, <1>3, <1>4

LEMMA OriginalInductive ==
    TypeInv /\ RootInv /\ OriginalKept /\ [Next]_vars => OriginalKept'
<1> SUFFICES ASSUME TypeInv, RootInv, OriginalKept, [Next]_vars PROVE OriginalKept'
  OBVIOUS
<1>1. CASE Restart
  BY <1>1, RestartOriginalKept
<1>2. CASE \E a \in Attacks : Step(a)
  BY <1>2, StepOriginalKept
<1>3. CASE UNCHANGED vars
  BY <1>3 DEF vars, caller, kernel, history, OriginalKept, Untouched, Keeps
<1> QED
  BY <1>1, <1>2, <1>3 DEF Next, AllEnded

(* Once every attack on a namespace is reverted its interfaces have the    *)
(* qdiscs they had before the first one, however the attacks overlapped,   *)
(* were cut off by a restart or had their revert repeated, unless the code *)
(* lost a snapshot, replaced an unsafe root that it never checked, or took *)
(* another attack's qdiscs for the host's.                                 *)
THEOREM RestoreTheorem == Spec => []NamespaceRestored
<1>1. Init => TypeInv /\ OriginalKept /\ OwnSnapshots /\ UserInv
  <2> SUFFICES ASSUME Init
               PROVE  TypeInv /\ OriginalKept /\ OwnSnapshots /\ UserInv
    OBVIOUS
  <2>1. UserInv
    BY DEF Init, UserInv, UnsafeInterfaces
  <2>2. TypeInv /\ OwnSnapshots
    BY InitTypes, InitData DEF TypeInv, DataTypes
  <2>3. OriginalKept
    BY DEF Init, OriginalKept, Untouched
  <2> QED
    BY <2>1, <2>2, <2>3
<1>2. TheInv => TypeInv /\ RootInv
  BY DEF TheInv
<1>3. TypeInv /\ RootInv /\ OriginalKept /\ UserInv => NamespaceRestored
  <2> SUFFICES ASSUME TypeInv, RootInv, OriginalKept, UserInv,
                      NEW n \in Namespaces, Idle(n), n \notin lossy,
                      NEW i \in InterfacesOf(n) \ (unchecked \cup inherited)
               PROVE  tree[i] = Original[i]
    BY DEF NamespaceRestored, RestoredExcept
  <2>1. PICK a \in Attacks : netNs[a] = n /\ i \in tc(a)
    BY DEF InterfacesOf, tc
  <2>2. i \in Interfaces /\ DataTypes
    BY <2>1, SameNamespace DEF TypeInv
  <2>3. CASE i \in UnsafeInterfaces
    BY <2>3 DEF UserInv
  <2>4. CASE i \notin UnsafeInterfaces
    <3>1. \A b \in Attacks : i \in tc(b) => netNs[b] = n
      BY <2>1, SameNamespace
    <3>2. \A b \in Attacks : i \in tc(b) => ~HasRoot(b) /\ ~Keeps(b, i)
      BY <3>1 DEF Idle, HasRoot, Owes, Keeps, BeforeApply
    <3>3. tree[i] \in SafeTrees(i)
      BY <2>1, <2>4, <3>2 DEF RootInv, RootsOwned, TreesKnown
    <3>4. Original[i].root \in {"noqueue", "tuned"} /\ (Original[i].root = "tuned" => ~Strict)
      BY <2>2, <2>4 DEF UnsafeInterfaces, SafeRoots
    <3>5. CASE Original[i].root = "noqueue"
      BY <2>2, <3>3, <3>5, OriginalTrees DEF SafeTrees
    <3>6. CASE Original[i].root = "tuned"
      <4>1. \A b \in Attacks : ~Keeps(b, i)
        BY <2>2, <3>2 DEF Keeps, DataTypes, OwnSnapshots, tc
      <4> QED
        BY <2>1, <3>4, <3>6, <4>1 DEF OriginalKept, Untouched
    <3> QED
      BY <3>4, <3>5, <3>6
  <2> QED
    BY <2>3, <2>4
<1> QED
  BY <1>1, <1>2, <1>3, TheInvHolds, TypeInductive, RootInductive, OriginalInductive, UserInductive, PTL DEF Spec
=============================================================================
