--------------------------- MODULE SidecarProofs ---------------------------
(***************************************************************************)
(* Theorems about Processes, for every set of kinds, every assignment of   *)
(* failing steps and ignored signals, and any number of calls of Stop;     *)
(* then about an attack's process together with its target, which is an    *)
(* implementation of both: what holds of every process, and of every       *)
(* namespace on its own, holds of the two together.                        *)
(***************************************************************************)
EXTENDS Sidecar, SequenceTheorems, TLAPS

Preparing == {"new", "mounting", "editing", "created"}

(* How far the preparation is: nothing runs yet, and a container's         *)
(* directory and overlay are there before anything is added.               *)
Prepared ==
    /\ pc \in Preparing => proc = "none" /\ exited \in {"nil", "pending"}
    /\ pc \in {"mounting", "editing", "created"} /\ InBundle => {"dir", "rootfs"} \subseteq held
    /\ pc = "mounting" => InBundle /\ finalizers = <<"dir", "rootfs">>

(* What an exit that is known, or a bundle that is removed, says about the *)
(* program.                                                                *)
Ended ==
    /\ exited \in {"known", "taken"} => proc = "ended"
    /\ pc \in {"deleted", "gone"} => proc \in {"none", "ended"} \/ undeleted
    /\ InBundle /\ proc \in {"creating", "running"} => {"dir", "rootfs"} \subseteq held \/ undeleted

IInv == TypeOK /\ Prepared /\ Ended /\ intact

(* The removal of the bundle runs from the last finalizer to the first.    *)
LEMMA NothingOfTheTargetIsRemoved ==
    ASSUME TypeOK
    PROVE  ~RemovesTargetFiles
BY DEF TypeOK, RemovesTargetFiles, RunsBefore

LEMMA RemoveKeeps ==
    ASSUME TypeOK, intact, Remove
    PROVE  /\ held' \subseteq {"dir", "rootfs", "target"}
           /\ intact'
           /\ finalizers' = finalizers
BY NothingOfTheTargetIsRemoved DEF TypeOK, Remove

LEMMA AppendThird ==
    ASSUME NEW S, NEW x \in S, NEW y \in S, NEW z \in S
    PROVE  Append(<<x, y>>, z) = <<x, y, z>>
<1>1. <<x, y>> \in Seq(S) /\ Len(<<x, y>>) = 2
  OBVIOUS
<1>2. Append(<<x, y>>, z) \in Seq(S) /\ <<x, y, z>> \in Seq(S)
  BY <1>1
<1>3. Len(Append(<<x, y>>, z)) = 3 /\ Len(<<x, y, z>>) = 3
  BY <1>1
<1>4. \A i \in 1 .. 3 : Append(<<x, y>>, z)[i] = <<x, y, z>>[i]
  BY <1>1
<1> QED
  BY <1>2, <1>3, <1>4, SeqEqual

LEMMA InitInv == Init => IInv
<1> SUFFICES ASSUME Init PROVE IInv
  OBVIOUS
<1>1. exited \in {"nil", "pending"}
  BY DEF Init
<1>2. TypeOK
  <2>1. stops \in 0 .. MaxStops
    BY ProcessesAssumption DEF Init
  <2>2. {file, intact, reported, undeleted} \subseteq BOOLEAN
    BY DEF Init
  <2> QED
    BY <1>1, <2>1, <2>2 DEF Init, TypeOK
<1>3. Prepared
  BY <1>1 DEF Init, Prepared
<1>4. Ended
  BY <1>1 DEF Init, Ended
<1> QED
  BY <1>2, <1>3, <1>4 DEF IInv, Init

LEMMA PreparationInv ==
    ASSUME IInv, NewChild \/ Create \/ MountFromProcess \/ EditSpec
    PROVE  IInv'
<1> USE DEF IInv, Preparing, InBundle, process, calls
<1>1. CASE NewChild
  BY <1>1 DEF NewChild, TypeOK, Prepared, Ended
<1>2. CASE Create
  <2>1. TypeOK'
    BY <1>2 DEF Create, TypeOK
  <2>2. Prepared'
    BY <1>2 DEF Create, Prepared
  <2>3. Ended'
    BY <1>2 DEF Create, Prepared, Ended
  <2> QED
    BY <1>2, <2>1, <2>2, <2>3 DEF Create
<1>3. CASE MountFromProcess
  <2>1. \/ /\ pc' = "editing" /\ held' \in {held, held \cup {"target"}} /\ UNCHANGED intact
           /\ finalizers' \in {finalizers, addFinalizer("target")}
        \/ pc' = "gone" /\ Remove
    BY <1>3 DEF MountFromProcess
  <2>2. addFinalizer("target") = <<"dir", "rootfs", "target">>
    <3>1. finalizers = <<"dir", "rootfs">>
      BY <1>3 DEF MountFromProcess, Prepared
    <3>2. Append(<<"dir", "rootfs">>, "target") = <<"dir", "rootfs", "target">>
      <4> DEFINE S == {"dir", "rootfs", "target"}
      <4>1. "dir" \in S /\ "rootfs" \in S /\ "target" \in S
        OBVIOUS
      <4> HIDE DEF S
      <4> QED
        BY <4>1, AppendThird
    <3> QED
      BY <3>1, <3>2 DEF addFinalizer
  <2>3. held' \subseteq {"dir", "rootfs", "target"} /\ intact'
    BY <2>1, RemoveKeeps DEF TypeOK
  <2>4. finalizers' \in {<<"dir", "rootfs">>, <<"dir", "rootfs", "target">>}
    BY <1>3, <2>1, <2>2, RemoveKeeps DEF MountFromProcess, Prepared
  <2>5. pc' \in {"editing", "gone"} /\ UNCHANGED <<kind, process, calls>>
    BY <1>3, <2>1 DEF MountFromProcess
  <2>6. TypeOK'
    BY <2>3, <2>4, <2>5 DEF TypeOK
  <2>7. Prepared' /\ Ended'
    BY <1>3, <2>1, <2>5 DEF MountFromProcess, Prepared, Ended
  <2> QED
    BY <2>3, <2>6, <2>7
<1>4. CASE EditSpec
  BY <1>4, RemoveKeeps DEF EditSpec, TypeOK, Prepared, Ended
<1> QED
  BY <1>1, <1>2, <1>3, <1>4

LEMMA StartInv ==
    ASSUME IInv, Start
    PROVE  IInv'
<1>1. TypeOK'
  BY DEF IInv, Start, TypeOK
<1>2. Prepared'
  BY DEF IInv, Start, Prepared, Preparing
<1>3. Ended'
  BY DEF IInv, Start, Prepared, Preparing, Ended, TypeOK, InBundle
<1> QED
  BY <1>1, <1>2, <1>3 DEF IInv, Start

(* Learning of the exit, status calls and signals leave the bundle and the *)
(* program alone.                                                          *)
LEMMA CallInv ==
    ASSUME IInv, Waiter \/ Status \/ StatusPutsBack \/ Stop \/ TimerFires
    PROVE  IInv'
<1>1. UNCHANGED <<kind, finalizers, held, intact, proc, file, reported, undeleted>>
  BY DEF Waiter, Status, StatusPutsBack, Stop, TimerFires, calls
<1>2. Deliver("INT") \/ Deliver("TERM") \/ Deliver("KILL") => received' \subseteq {"INT", "TERM", "KILL"}
  BY DEF IInv, TypeOK, Deliver
<1>3. StopTimers \subseteq {"TERM", "KILL"}
  BY DEF StopTimers
<1>4. CASE Waiter
  BY <1>1, <1>4 DEF Waiter, IInv, TypeOK, Prepared, Preparing, Ended, InBundle, calls
<1>5. CASE Status
  BY <1>1, <1>5 DEF Status, IInv, TypeOK, Prepared, Preparing, Ended, InBundle
<1>6. CASE StatusPutsBack
  BY <1>1, <1>6 DEF StatusPutsBack, PutBack, IInv, TypeOK, Prepared, Preparing, Ended, InBundle
<1>7. CASE Stop
  <2>1. /\ pc' \in {"stopped", "panicked", "waiting"} /\ UNCHANGED <<exited, answer>>
        /\ timers' \in {timers, StopTimers}
    BY <1>7 DEF Stop
  <2>2. received' \subseteq {"INT", "TERM", "KILL"}
    BY <1>2, <1>7 DEF Stop, IInv, TypeOK
  <2>3. stops' \in 0 .. MaxStops
    BY <1>7, ProcessesAssumption DEF Stop, IInv, TypeOK
  <2> QED
    BY <1>1, <1>3, <2>1, <2>2, <2>3 DEF IInv, TypeOK, Prepared, Preparing, Ended, InBundle
<1>8. CASE TimerFires
  <2>1. received' \subseteq {"INT", "TERM", "KILL"}
    BY <1>2, <1>8 DEF TimerFires, IInv, TypeOK
  <2>2. timers' \subseteq timers /\ UNCHANGED <<pc, exited, calls>>
    BY <1>8 DEF TimerFires
  <2> QED
    BY <1>1, <2>1, <2>2 DEF IInv, TypeOK, Prepared, Preparing, Ended, InBundle, calls
<1> QED
  BY <1>4, <1>5, <1>6, <1>7, <1>8

LEMMA StopFinishesInv ==
    ASSUME IInv, StopFinishes
    PROVE  IInv'
<1>1. held' \subseteq {"dir", "rootfs", "target"} /\ intact' /\ finalizers' = finalizers
  BY RemoveKeeps DEF IInv, TypeOK, StopFinishes
<1>2. proc = "ended" /\ UNCHANGED <<kind, proc, received, answer, stops, undeleted>>
  BY DEF IInv, Ended, StopFinishes
<1>3. pc' \in {"stopped", "stopFailed"} /\ exited' \in {"known", "consumed"} /\ timers' = {}
  BY DEF StopFinishes
<1>4. file' \in BOOLEAN /\ reported' \in BOOLEAN
  BY DEF IInv, TypeOK, StopFinishes
<1> QED
  BY <1>1, <1>2, <1>3, <1>4 DEF IInv, TypeOK, Prepared, Preparing, Ended

LEMMA CommandInv ==
    ASSUME IInv, RunOnce \/ RunReturns \/ DeleteForced \/ RemoveBundle
    PROVE  IInv'
<1> USE DEF IInv, Preparing, InBundle, process, calls
<1>1. CASE RunOnce
  BY <1>1 DEF RunOnce, TypeOK, Prepared, Ended
<1>2. CASE RunReturns
  BY <1>2 DEF RunReturns, TypeOK, Prepared, Ended
<1>3. CASE DeleteForced
  BY <1>3 DEF DeleteForced, TypeOK, Prepared, Ended
<1>4. CASE RemoveBundle
  <2>1. held' \subseteq {"dir", "rootfs", "target"} /\ intact' /\ finalizers' = finalizers
    BY <1>4, RemoveKeeps DEF RemoveBundle
  <2>2. /\ proc \in {"none", "ended"} \/ undeleted
        /\ pc' = "gone" /\ UNCHANGED <<kind, process, calls>>
    BY <1>4 DEF RemoveBundle, Ended
  <2> QED
    BY <2>1, <2>2 DEF TypeOK, Prepared, Ended
<1> QED
  BY <1>1, <1>2, <1>3, <1>4

LEMMA HostInv ==
    ASSUME IInv, ContainerStarts \/ EndsBySignal \/ EndsByItself
    PROVE  IInv'
<1> USE DEF IInv, Preparing, InBundle, calls
<1>1. CASE ContainerStarts
  <2>1. /\ proc' \in {"running", "ended"} /\ proc = "creating" /\ UNCHANGED <<kind, pc, exited, held, intact>>
        /\ UNCHANGED <<finalizers, received, timers, answer, stops, reported, undeleted>>
    BY <1>1 DEF ContainerStarts
  <2>2. file' \in BOOLEAN
    BY <1>1 DEF ContainerStarts, TypeOK
  <2>3. TypeOK'
    BY <2>1, <2>2 DEF TypeOK
  <2> QED
    BY <2>1, <2>3 DEF Prepared, Ended
<1>2. CASE EndsBySignal
  BY <1>2 DEF EndsBySignal, TypeOK, Prepared, Ended
<1>3. CASE EndsByItself
  BY <1>3 DEF EndsByItself, TypeOK, Prepared, Ended
<1> QED
  BY <1>1, <1>2, <1>3

LEMMA Inductive == IInv /\ [Next]_vars => IInv'
<1> SUFFICES ASSUME IInv, [Next]_vars PROVE IInv'
  OBVIOUS
<1>1. CASE UNCHANGED vars
  BY <1>1 DEF vars, IInv, TypeOK, Prepared, Ended, Preparing, InBundle
<1> QED
  BY <1>1, PreparationInv, StartInv, CallInv, StopFinishesInv, CommandInv, HostInv DEF Next

LEMMA InvHolds == Spec => []IInv
BY InitInv, Inductive, PTL DEF Spec

(* The variables have their types, with any number of finalizers' bundles  *)
(* and calls of Stop.                                                      *)
THEOREM TypeTheorem == Spec => []TypeOK
<1>1. IInv => TypeOK
  BY DEF IInv
<1> QED
  BY <1>1, InvHolds, PTL

(* The recursive removal of a bundle never reaches the target's files:     *)
(* the mount of the target is always undone before it.                     *)
THEOREM TargetFilesTheorem == Spec => []TargetFilesKept
<1>1. IInv => TargetFilesKept
  BY DEF IInv, TargetFilesKept
<1> QED
  BY <1>1, InvHolds, PTL

(* A program in a container has its root file system as long as it runs,   *)
(* but for a single command whose forced delete failed.                    *)
THEOREM ContainerRootTheorem == Spec => []ContainerHasItsRoot
<1>1. IInv => ContainerHasItsRoot
  BY DEF IInv, Ended, ContainerHasItsRoot
<1> QED
  BY <1>1, InvHolds, PTL
-----------------------------------------------------------------------------
(* What is left behind.                                                    *)

Bundled == \A h \in held : \E i \in DOMAIN finalizers : finalizers[i] = h
Unstarted == Preparing \cup {"startFailed"}

(* Where the bundle is, and what is still to be removed.                   *)
Occupied ==
    /\ Bundled
    /\ pc = "new" \/ ~InBundle => held = {}
    /\ pc \in {"gone", "stopped", "stopFailed"} => held = {} \/ BundleForgotten

(* What the program has done.                                              *)
Progress ==
    /\ pc \in {"running", "unwinding", "deleted"} => RunsOnce
    /\ pc \in {"started", "startFailed", "waiting", "stopped", "stopFailed"} => ~RunsOnce
    /\ pc = "started" => exited # "nil" /\ proc # "none"
    /\ pc = "waiting" => exited # "nil"
    /\ pc \in Unstarted => proc = "none"
    /\ proc = "none" => exited = IF IsDns THEN "pending" ELSE "nil"
    /\ IsDns => exited # "nil"
    /\ undeleted => RunsOnce
    /\ pc = "stopFailed" => proc = "ended" /\ exited = "known" /\ FillsDisk
    /\ pc = "stopped" => proc \in {"none", "ended"}

(* Where a fill file can be, and that Stop reaches it.                     *)
FillFile ==
    /\ file => FillsDisk /\ pc \notin Unstarted \cup {"gone", "running", "unwinding", "deleted"}
    /\ kind = "fillRunc" /\ pc \in {"editing", "created", "started", "waiting"}
            => "target" \in held \/ reported \/ (proc = "ended" /\ ~file)
    /\ pc = "stopFailed" => reported
    /\ pc = "stopped" /\ file => reported

Clean == Occupied /\ Progress /\ FillFile

LEMMA RemoveEmpties ==
    ASSUME Bundled, Remove
    PROVE  held' = {}
BY DEF Bundled, Remove

LEMMA InitClean == Init => Clean
<1> SUFFICES ASSUME Init PROVE Clean
  OBVIOUS
<1>1. Occupied
  BY DEF Init, Occupied, Bundled
<1>2. Progress
  BY DEF Init, Progress, Unstarted, Preparing, IsDns
<1>3. FillFile
  BY DEF Init, FillFile
<1> QED
  BY <1>1, <1>2, <1>3 DEF Clean

LEMMA PreparationClean ==
    ASSUME IInv, Clean, NewChild \/ Create \/ MountFromProcess \/ EditSpec
    PROVE  Clean'
<1> USE DEF Clean, Unstarted, Preparing, process, calls
<1>1. Progress'
  BY DEF NewChild, Create, MountFromProcess, EditSpec, Progress, IsDns, RunsOnce, FillsDisk, MayFail
<1>2. CASE NewChild
  <2>1. Occupied'
    BY <1>2 DEF NewChild, Occupied, Bundled, InBundle
  <2>2. FillFile'
    BY <1>2 DEF NewChild, FillFile, FillsDisk, InBundle, BundleKinds
  <2> QED
    BY <1>1, <2>1, <2>2
<1>3. CASE Create
  <2>1. Occupied'
    BY <1>3 DEF Create, Occupied, Bundled, InBundle
  <2>2. FillFile'
    BY <1>3 DEF Create, FillFile, FillsDisk
  <2> QED
    BY <1>1, <2>1, <2>2
<1>4. CASE MountFromProcess
  <2>1. CASE UNCHANGED <<finalizers, held>> /\ pc' = "editing" /\ (kind = "stressRunc" \/ ~MountsTarget)
    <3>1. Occupied'
      BY <1>4, <2>1 DEF MountFromProcess, Occupied, Bundled, InBundle
    <3>2. FillFile'
      BY <1>4, <2>1 DEF MountFromProcess, FillFile, FillsDisk, MountsTarget
    <3> QED
      BY <1>1, <3>1, <3>2
  <2>2. CASE pc' = "editing" /\ finalizers' = addFinalizer("target") /\ held' = held \cup {"target"}
    <3>1. finalizers = <<"dir", "rootfs">> /\ InBundle
      BY <1>4 DEF MountFromProcess, IInv, Prepared
    <3>2. finalizers' = <<"dir", "rootfs", "target">>
      <4> DEFINE S == {"dir", "rootfs", "target"}
      <4>1. "dir" \in S /\ "rootfs" \in S /\ "target" \in S
        OBVIOUS
      <4> HIDE DEF S
      <4> QED
        BY <2>2, <3>1, <4>1, AppendThird DEF addFinalizer
    <3>3. held' \subseteq {"dir", "rootfs", "target"}
      BY <2>2 DEF IInv, TypeOK
    <3>4. Bundled'
      BY <3>2, <3>3 DEF Bundled
    <3>5. Occupied'
      BY <1>4, <2>2, <3>1, <3>4 DEF MountFromProcess, Occupied, InBundle
    <3>6. FillFile'
      BY <1>4, <2>2 DEF MountFromProcess, FillFile, FillsDisk
    <3> QED
      BY <1>1, <3>5, <3>6
  <2>3. CASE pc' = "gone" /\ Remove
    <3>1. held' = {}
      BY <2>3, RemoveEmpties DEF Occupied
    <3>2. Occupied'
      BY <1>4, <2>3, <3>1 DEF MountFromProcess, Occupied, Bundled
    <3>3. FillFile'
      BY <1>4, <2>3 DEF MountFromProcess, FillFile, FillsDisk
    <3> QED
      BY <1>1, <3>2, <3>3
  <2> QED
    BY <1>4, <2>1, <2>2, <2>3 DEF MountFromProcess
<1>5. CASE EditSpec
  <2>1. CASE UNCHANGED <<finalizers, held>> /\ pc' = "created"
    BY <1>1, <1>5, <2>1 DEF EditSpec, Occupied, Bundled, InBundle, FillFile, FillsDisk
  <2>2. CASE pc' = "gone" /\ Remove
    <3>1. held' = {}
      BY <2>2, RemoveEmpties DEF Occupied
    <3> QED
      BY <1>1, <1>5, <2>2, <3>1 DEF EditSpec, Occupied, Bundled, FillFile, FillsDisk
  <2> QED
    BY <1>5, <2>1, <2>2 DEF EditSpec
<1> QED
  BY <1>2, <1>3, <1>4, <1>5

LEMMA StartClean ==
    ASSUME IInv, Clean, Start
    PROVE  Clean'
<1> USE DEF Clean, Unstarted, Preparing
<1>1. Occupied'
  BY DEF Start, Occupied, Bundled, InBundle
<1>2. Progress'
  BY DEF Start, Progress, IsDns, RunsOnce, FillsDisk, MayFail, InBundle
<1>3. ~file
  BY DEF Start, FillFile
<1>4. file' => kind' = "fill" /\ pc' = "started"
  BY <1>3 DEF Start
<1>5. kind' = "fillRunc" /\ pc' = "started" => "target" \in held' \/ reported'
  BY DEF Start, IInv, Prepared, Preparing, FillFile
<1>6. FillFile'
  BY <1>4, <1>5 DEF Start, FillFile, FillsDisk
<1> QED
  BY <1>1, <1>2, <1>6

LEMMA ExitClean ==
    ASSUME IInv, Clean, Waiter \/ Status \/ StatusPutsBack \/ TimerFires
    PROVE  Clean'
<1> USE DEF Clean, Unstarted, Preparing, calls
<1>1. /\ UNCHANGED <<kind, finalizers, held, proc, file, reported, undeleted>>
      /\ pc' = pc \/ pc' = "panicked"
      /\ exited = "nil" => exited' = "nil"
  BY DEF Waiter, Status, StatusPutsBack, TimerFires
<1>2. Occupied' /\ FillFile'
  BY <1>1 DEF Occupied, Bundled, InBundle, BundleForgotten, FillFile, FillsDisk
<1>3. CASE Waiter
  <2>1. proc = "ended" /\ exited = "pending" /\ exited' = "known" /\ pc' = pc
    BY <1>3 DEF Waiter
  <2> QED
    BY <1>1, <1>2, <2>1 DEF Progress, IsDns, RunsOnce, FillsDisk, MayFail
<1>4. CASE Status
  <2>1. \/ exited' = exited
        \/ exited = "known" /\ IsDns /\ exited' = "taken"
    BY <1>4 DEF Status
  <2> QED
    BY <1>1, <1>2, <2>1 DEF Progress, IsDns, RunsOnce, FillsDisk, MayFail
<1>5. CASE StatusPutsBack
  BY <1>1, <1>2, <1>5 DEF StatusPutsBack, PutBack, Progress, IsDns, RunsOnce, FillsDisk, MayFail
<1>6. CASE TimerFires
  BY <1>1, <1>2, <1>6 DEF TimerFires, Progress, IsDns, RunsOnce, FillsDisk, MayFail
<1> QED
  BY <1>3, <1>4, <1>5, <1>6

LEMMA StopClean ==
    ASSUME IInv, Clean, Stop
    PROVE  Clean'
<1> USE DEF Clean, Unstarted, Preparing
<1>1. /\ UNCHANGED <<kind, finalizers, held, proc, exited, file, reported, undeleted>>
      /\ pc \in {"created", "started", "startFailed", "stopFailed", "stopped"}
      /\ pc' \in {"stopped", "panicked", "waiting"} /\ ~RunsOnce
  BY DEF Stop
<1>2. pc \in {"created", "startFailed"} => ~file
  BY DEF FillFile
<1>3. CASE pc' = "stopped"
  <2>1. NeverStarted /\ kind \notin {"stressRunc", "dnsRunc"}
    BY <1>3 DEF Stop
  <2>2. pc \notin {"started", "stopFailed"}
    BY <2>1 DEF NeverStarted, Progress, FillsDisk, IsDns
  <2>3. held = {} \/ BundleForgotten
    BY <1>1, <2>1 DEF Occupied, BundleForgotten, NeverStarted, InBundle, BundleKinds, IsDns, RunsOnce,
         IInv, TypeOK
  <2>4. Occupied'
    BY <1>1, <1>3, <2>3 DEF Occupied, Bundled, InBundle, BundleForgotten
  <2>5. proc \in {"none", "ended"} /\ (file => reported)
    BY <1>1, <1>2, <2>2 DEF Progress, FillFile
  <2>6. Progress' /\ FillFile'
    BY <1>1, <1>3, <2>5 DEF Progress, FillFile, IsDns, RunsOnce, FillsDisk
  <2> QED
    BY <2>4, <2>6
<1>4. CASE pc' = "panicked"
  BY <1>1, <1>2, <1>4 DEF Occupied, Bundled, InBundle, Progress, FillFile, IsDns, RunsOnce, FillsDisk
<1>5. CASE pc' = "waiting"
  <2>1. ~NeverStarted \/ kind = "dnsRunc"
    BY <1>5 DEF Stop
  <2>2. exited # "nil"
    BY <1>1, <2>1 DEF NeverStarted, Progress, IsDns
  <2>3. Occupied'
    BY <1>1, <1>5 DEF Occupied, Bundled, InBundle
  <2>4. Progress'
    BY <1>1, <1>5, <2>2 DEF Progress, IsDns, RunsOnce, FillsDisk
  <2>5. kind = "fillRunc" => "target" \in held \/ reported \/ (proc = "ended" /\ ~file)
    BY <1>1, <2>1, <2>2 DEF FillFile, Progress, NeverStarted, IsDns
  <2> QED
    BY <1>1, <1>2, <1>5, <2>3, <2>4, <2>5 DEF FillFile, FillsDisk
<1> QED
  BY <1>1, <1>3, <1>4, <1>5

LEMMA StopFinishesClean ==
    ASSUME IInv, Clean, StopFinishes
    PROVE  Clean'
<1> USE DEF Clean, Unstarted, Preparing
<1>1. /\ pc = "waiting" /\ exited = "known" /\ proc = "ended"
      /\ pc' \in {"stopped", "stopFailed"} /\ finalizers' = finalizers
      /\ UNCHANGED <<kind, proc>>
  BY DEF StopFinishes, IInv, Ended, Remove
<1>2. held' = {}
  BY RemoveEmpties DEF StopFinishes, Occupied
<1>3. Occupied'
  BY <1>1, <1>2 DEF Occupied, Bundled
<1>4. Progress'
  BY <1>1 DEF StopFinishes, Progress, IsDns, RunsOnce, FillsDisk, MayFail
<1>5. CASE pc' = "stopped"
  <2>1. file' = (file /\ ~ReachesFile) /\ reported' = reported
    BY <1>5 DEF StopFinishes
  <2>2. file' => reported'
    BY <1>1, <2>1 DEF FillFile, FillsDisk, ReachesFile, HeldAtRm
  <2>3. file' => file
    BY <2>1
  <2> QED
    BY <1>1, <1>3, <1>4, <1>5, <2>2, <2>3 DEF FillFile, FillsDisk
<1>6. CASE pc' = "stopFailed"
  BY <1>1, <1>3, <1>4, <1>6 DEF StopFinishes, FillFile, FillsDisk
<1> QED
  BY <1>1, <1>5, <1>6

LEMMA CommandClean ==
    ASSUME IInv, Clean, RunOnce \/ RunReturns \/ DeleteForced \/ RemoveBundle
    PROVE  Clean'
<1> USE DEF Clean, Unstarted, Preparing, process, calls
<1>1. CASE RunOnce
  BY <1>1 DEF RunOnce, Occupied, Bundled, InBundle, Progress, FillFile, IsDns, RunsOnce, FillsDisk, MayFail
<1>2. CASE RunReturns
  BY <1>2 DEF RunReturns, Occupied, Bundled, InBundle, Progress, FillFile, IsDns, RunsOnce, FillsDisk, MayFail
<1>3. CASE DeleteForced
  BY <1>3 DEF DeleteForced, Occupied, Bundled, InBundle, Progress, FillFile, IsDns, RunsOnce, FillsDisk, MayFail
<1>4. CASE RemoveBundle
  <2>1. held' = {}
    BY <1>4, RemoveEmpties DEF RemoveBundle, Occupied
  <2>2. pc' = "gone" /\ pc = "deleted" /\ UNCHANGED <<kind, process, calls>>
    BY <1>4 DEF RemoveBundle
  <2>3. Occupied'
    BY <2>1, <2>2 DEF Occupied, Bundled
  <2> QED
    BY <2>2, <2>3 DEF Progress, FillFile, IsDns, RunsOnce, FillsDisk, MayFail
<1> QED
  BY <1>1, <1>2, <1>3, <1>4

LEMMA HostClean ==
    ASSUME IInv, Clean, ContainerStarts \/ EndsBySignal \/ EndsByItself
    PROVE  Clean'
<1> USE DEF Clean, Unstarted, Preparing, calls
<1>1. /\ UNCHANGED <<kind, pc, finalizers, held, exited, reported, undeleted>>
      /\ proc \in {"creating", "running"} /\ proc' \in {"running", "ended"}
      /\ file' = file \/ (file' = (kind = "fillRunc"))
  BY DEF ContainerStarts, EndsBySignal, EndsByItself
<1>2. /\ pc \notin Unstarted \cup {"stopped", "stopFailed"}
      /\ pc \in {"gone", "deleted"} => RunsOnce
  BY <1>1 DEF IInv, Ended, Progress
<1>3. Occupied'
  BY <1>1 DEF Occupied, Bundled, InBundle, BundleForgotten
<1>4. Progress'
  BY <1>1, <1>2 DEF Progress, IsDns, RunsOnce, FillsDisk, MayFail
<1>5. file' => FillsDisk
  BY <1>1 DEF FillFile, FillsDisk
<1>6. pc \in {"running", "unwinding", "gone", "deleted"} => kind \notin {"fill", "fillRunc"}
  BY <1>2 DEF Progress, RunsOnce
<1>7. proc # "ended"
  BY <1>1
<1>8. FillFile'
  BY <1>1, <1>2, <1>5, <1>6, <1>7 DEF FillFile, FillsDisk
<1> QED
  BY <1>3, <1>4, <1>8

LEMMA CleanInductive == IInv /\ Clean /\ [Next]_vars => Clean'
<1> SUFFICES ASSUME IInv, Clean, [Next]_vars PROVE Clean'
  OBVIOUS
<1>1. CASE UNCHANGED vars
  BY <1>1 DEF vars, Clean, Occupied, Bundled, InBundle, BundleForgotten, Progress, FillFile, Unstarted, Preparing,
              IsDns, RunsOnce, FillsDisk, MayFail
<1> QED
  BY <1>1, PreparationClean, StartClean, ExitClean, StopClean, StopFinishesClean, CommandClean,
     HostClean DEF Next

(* After a failed preparation, a stop or a single command nothing runs, no *)
(* mount or bundle is left, and no fill file, whichever steps fail, in any *)
(* order of starts, stops and status calls, but for what the property      *)
(* names: the bundle of a fill container never started, the container a    *)
(* forced delete did not get rid of, and a file that a Stop reported.      *)
THEOREM NothingLeftTheorem == Spec => []NothingLeftBehind
<1>1. IInv /\ Clean => NothingLeftBehind
  BY DEF IInv, Ended, Clean, Occupied, Progress, FillFile, NothingLeftBehind
<1>2. IInv /\ Clean /\ [Next]_vars => Clean'
  BY CleanInductive
<1> QED
  BY <1>1, <1>2, InitClean, InvHolds, InitInv, Inductive, PTL DEF Spec
-----------------------------------------------------------------------------
(* Status calls. Between a start and a stop, an exit that was told is in   *)
(* the state, or in the hands of a status call that puts it back.          *)
ExitTold ==
    pc = "started" =>
        /\ exited # "nil"
        /\ answer = "exited" => exited \in {"known", "taken"}

LEMMA ExitToldInductive == ExitTold /\ [Next]_vars => ExitTold'
<1> SUFFICES ASSUME ExitTold, [Next]_vars, pc' = "started"
             PROVE  exited' # "nil" /\ (answer' = "exited" => exited' \in {"known", "taken"})
  BY DEF ExitTold
<1>1. CASE Start
  BY <1>1 DEF Start
<1>2. CASE Waiter
  BY <1>2 DEF Waiter, ExitTold, calls
<1>3. CASE Status
  BY <1>3 DEF Status, ExitTold
<1>4. CASE StatusPutsBack
  BY <1>4 DEF StatusPutsBack, PutBack
<1>5. CASE TimerFires \/ ContainerStarts \/ EndsBySignal \/ EndsByItself \/ UNCHANGED vars
  BY <1>5 DEF TimerFires, ContainerStarts, EndsBySignal, EndsByItself, vars, ExitTold, calls
<1>6. CASE \/ NewChild \/ Create \/ MountFromProcess \/ EditSpec \/ Stop \/ StopFinishes
           \/ RunOnce \/ RunReturns \/ DeleteForced \/ RemoveBundle
  BY <1>6 DEF NewChild, Create, MountFromProcess, EditSpec, Stop, StopFinishes, RunOnce,
              RunReturns, DeleteForced, RemoveBundle
<1> QED
  BY <1>1, <1>2, <1>3, <1>4, <1>5, <1>6 DEF Next

(* No step takes back what a status call said.                             *)
LEMMA NotTakenBack ==
    ASSUME ExitTold, [Next]_vars, answer = "exited", pc = "started", exited # "taken"
    PROVE  answer' = "exited"
<1>1. exited = "known"
  BY DEF ExitTold
<1>2. CASE Status
  BY <1>1, <1>2 DEF Status
<1>3. CASE StatusPutsBack \/ UNCHANGED answer
  BY <1>3 DEF StatusPutsBack
<1> QED
  BY <1>2, <1>3 DEF Next, NewChild, Create, MountFromProcess, EditSpec, Start, Waiter, Stop,
       TimerFires, StopFinishes, RunOnce, RunReturns, DeleteForced, RemoveBundle,
       ContainerStarts, EndsBySignal, EndsByItself, calls, vars

(* Once a status call has said that the process exited, no later one takes *)
(* it back until Stop is called, unless another call has the exit in its   *)
(* hands for a moment (Exited of a dns injection).                         *)
THEOREM ExitTheorem == Spec => ExitKnownForGood
<1>1. Init => ExitTold
  BY DEF Init, ExitTold
<1>2. ExitTold /\ [Next]_vars =>
        [answer = "exited" /\ pc = "started" /\ exited # "taken" => answer' = "exited"]_vars
  BY NotTakenBack
<1> QED
  BY <1>1, <1>2, ExitToldInductive, PTL DEF Spec, ExitKnownForGood
-----------------------------------------------------------------------------
TargetProofs == INSTANCE NamespacesProofs WITH pc <- nsPc

LEMMA NextProcess == [SidecarNext]_sidecarVars => [Next]_vars
<1> SUFFICES ASSUME [SidecarNext]_sidecarVars PROVE [Next]_vars
  OBVIOUS
<1>1. CASE RefreshesTarget \/ TargetStep
  BY <1>1 DEF RefreshesTarget, TargetStep
<1>2. CASE PreparesSpec \/ JoinsTarget \/ StartsElsewhere
  BY <1>2 DEF PreparesSpec, JoinsTarget, StartsElsewhere, Next
<1>3. CASE ProcessStep
  BY <1>3 DEF ProcessStep, Next
<1>4. CASE UNCHANGED sidecarVars
  BY <1>4 DEF sidecarVars
<1> QED
  BY <1>1, <1>2, <1>3, <1>4 DEF SidecarNext

LEMMA NextTarget == [SidecarNext]_sidecarVars => [Target!Next]_(Target!vars)
<1> SUFFICES ASSUME [SidecarNext]_sidecarVars PROVE [Target!Next]_(Target!vars)
  OBVIOUS
<1>1. CASE RefreshesTarget
  BY <1>1 DEF RefreshesTarget, Target!Next
<1>2. CASE TargetStep
  BY <1>2 DEF TargetStep, Target!Next
<1>3. CASE JoinsTarget
  BY <1>3 DEF JoinsTarget, Target!Next
<1>4. CASE PreparesSpec \/ StartsElsewhere \/ ProcessStep
  BY <1>4 DEF PreparesSpec, StartsElsewhere, ProcessStep, targetVars, Target!vars, Target!kernel
<1>5. CASE UNCHANGED sidecarVars
  BY <1>5 DEF sidecarVars, targetVars, Target!vars, Target!kernel
<1> QED
  BY <1>1, <1>2, <1>3, <1>4, <1>5 DEF SidecarNext

(* The composed system implements the process ...                          *)
THEOREM ImplementsProcess == SidecarSpec => Spec
BY NextProcess, PTL DEF SidecarSpec, SidecarInit, Spec

(* ... and the namespace of its target.                                    *)
THEOREM ImplementsTarget == SidecarSpec => Target!Spec
BY NextTarget, PTL DEF SidecarSpec, SidecarInit, Target!Spec

(* With a target that comes and goes, too, the removal of a bundle never   *)
(* reaches the target's files, and no container loses its root, but one    *)
(* whose forced delete failed.                                             *)
THEOREM SidecarBundleTheorem == SidecarSpec => [](TargetFilesKept /\ ContainerHasItsRoot)
BY ImplementsProcess, TargetFilesTheorem, ContainerRootTheorem, PTL

(* ... what a preparation or stop leaves behind is as of the process alone *)
THEOREM SidecarCleanTheorem == SidecarSpec => [](TypeOK /\ NothingLeftBehind)
BY ImplementsProcess, TypeTheorem, NothingLeftTheorem, PTL

(* ... and so is what status calls say.                                    *)
THEOREM SidecarExitTheorem == SidecarSpec => ExitKnownForGood
BY ImplementsProcess, ExitTheorem, PTL

(* The two instances of Namespaces, of its definitions and of its proofs,  *)
(* are one specification.                                                  *)
LEMMA SameStep == [Target!Next]_(Target!vars) => [TargetProofs!Next]_(TargetProofs!vars)
<1>1. Target!Next <=> TargetProofs!Next
  BY DEF Target!Next, TargetProofs!Next, Target!kernel, TargetProofs!kernel, Target!Look,
         TargetProofs!Look, Target!LeadsTo, TargetProofs!LeadsTo, Target!Holding,
         TargetProofs!Holding, Target!Searching, TargetProofs!Searching, Target!BeginSearch,
         TargetProofs!BeginSearch, Target!ComesNext, TargetProofs!ComesNext, Target!FirstPids,
         TargetProofs!FirstPids, Target!ListNamespaces, TargetProofs!ListNamespaces,
         Target!CannotRead, TargetProofs!CannotRead, Target!allProcessesFails,
         TargetProofs!allProcessesFails, Target!ListingNamesFails,
         TargetProofs!ListingNamesFails, Target!NamedPlaces, TargetProofs!NamedPlaces,
         Target!allProcesses, TargetProofs!allProcesses, Target!Alive, TargetProofs!Alive,
         Target!NotListed, TargetProofs!NotListed, Target!LookupNamed,
         TargetProofs!LookupNamed, Target!NotRefreshed, TargetProofs!NotRefreshed,
         Target!Refresh, TargetProofs!Refresh, Target!IsNamed, TargetProofs!IsNamed,
         Target!PathExists, TargetProofs!PathExists, Target!Use, TargetProofs!Use,
         Target!Appear, TargetProofs!Appear, Target!Disappear, TargetProofs!Disappear,
         Target!Places, TargetProofs!Places, Target!Process, TargetProofs!Process,
         Target!NoNamespace, TargetProofs!NoNamespace, Target!NoPath, TargetProofs!NoPath
<1>2. UNCHANGED Target!vars <=> UNCHANGED TargetProofs!vars
  BY DEF Target!vars, TargetProofs!vars, Target!kernel, TargetProofs!kernel
<1> QED
  BY <1>1, <1>2

LEMMA SameInit == Target!Init => TargetProofs!Init
BY DEF Target!Init, TargetProofs!Init, Target!NamedPlaces, TargetProofs!NamedPlaces, Target!Places, TargetProofs!Places, Target!Process,
         TargetProofs!Process, Target!NoNamespace, TargetProofs!NoNamespace, Target!NoPath,
         TargetProofs!NoPath, Target!Holding, TargetProofs!Holding

LEMMA SameAssumption == TargetProofs!NamespacesAssumption
BY SidecarAssumption DEF Target!NamespacesAssumption, TargetProofs!NamespacesAssumption

LEMMA ImplementsTargetOfProofs == SidecarSpec => TargetProofs!Spec
BY ImplementsTarget, SameStep, SameInit, PTL DEF Target!Spec, TargetProofs!Spec

(* A container of an attack never joins another network namespace than the *)
(* one of its target, as long as no pid or name comes back.                *)
THEOREM SidecarNamespaceTheorem ==
    ASSUME ~MayReuse
    PROVE  SidecarSpec => []RightNamespace
<1>1. TargetProofs!Spec => []TargetProofs!RightNamespace
  BY SameAssumption, TargetProofs!RightNamespaceTheorem
<1>2. TargetProofs!RightNamespace => RightNamespace
  BY DEF RightNamespace, Target!RightNamespace, TargetProofs!RightNamespace,
         Target!NoNamespace, TargetProofs!NoNamespace
<1> QED
  BY <1>1, <1>2, ImplementsTargetOfProofs, PTL

(* While a container is prepared, too, a refresh gives up only if nothing  *)
(* that could be read has led to the namespace all the time.               *)
THEOREM SidecarFoundTheorem == SidecarSpec => []FoundIfHeld
<1>1. TargetProofs!Spec => []TargetProofs!FoundIfHeld
  BY SameAssumption, TargetProofs!FoundIfHeldTheorem
<1>2. TargetProofs!FoundIfHeld => FoundIfHeld
  BY DEF FoundIfHeld, Target!FoundIfHeld, TargetProofs!FoundIfHeld
<1> QED
  BY <1>1, <1>2, ImplementsTargetOfProofs, PTL

(* A container prepared for the host's network namespace is known by the   *)
(* path of process 1, as long as the link of process 1 can be read.        *)
THEOREM SidecarHostTheorem == SidecarSpec => HostDetected
<1>1. TargetProofs!Spec => TargetProofs!HostDetected
  BY SameAssumption, TargetProofs!HostDetectedTheorem
<1> DEFINE Found == path' # path /\ inode' = Host /\ Target!Process(1) \in steady => path' = Target!Process(1)
<1>2. [path' # path /\ inode' = Host /\ TargetProofs!Process(1) \in steady
            => path' = TargetProofs!Process(1)]_(TargetProofs!vars)
        => [Found]_(Target!vars)
  BY DEF Target!Process, TargetProofs!Process, Target!vars, TargetProofs!vars, Target!kernel,
         TargetProofs!kernel
<1>3. TargetProofs!HostDetected => HostDetected
  BY <1>2, PTL DEF HostDetected, Target!HostDetected, TargetProofs!HostDetected
<1> QED
  BY <1>1, <1>3, ImplementsTargetOfProofs, PTL
=============================================================================
