------------------------------ MODULE Sidecar ------------------------------
(***************************************************************************)
(* A process or container of an attack together with the network namespace *)
(* of its target. For a container that runs in it, the namespace is        *)
(* refreshed while the container is prepared, its path is written into the *)
(* container's spec, and the runtime joins whatever is there when the      *)
(* container starts.                                                       *)
(***************************************************************************)
EXTENDS Processes

CONSTANTS Pids, Names, Inodes, Host, Candidates, MayReuse

VARIABLES at, seen, inode, path, nsPc, todo, listed, steady, used

Target == INSTANCE Namespaces WITH pc <- nsPc

ASSUME SidecarAssumption == Target!NamespacesAssumption

targetVars == <<at, seen, inode, path, nsPc, todo, listed, steady, used>>
sidecarVars == <<vars, targetVars>>

SidecarInit == Init /\ Target!Init

(* WithNamespaces of dig, tc, ip, iptables and dns injection containers;   *)
(* those of stress and disk fill join other kinds of namespaces only.      *)
JoinsNetwork == kind \in {"dnsRunc", "command"}

(* RefreshNamespaces while the bundle is prepared.                         *)
RefreshesTarget ==
    /\ JoinsNetwork /\ pc = "editing"
    /\ Target!Refresh
    /\ UNCHANGED vars

(* Reading the process information and the searches go on by themselves.   *)
TargetStep ==
    /\ JoinsNetwork
    /\ \/ \E p \in Pids : Target!ListNamespaces(p)
       \/ Target!Look \/ Target!CannotRead
       \/ Target!allProcesses \/ Target!allProcessesFails \/ Target!NotListed
       \/ Target!LookupNamed \/ Target!ListingNamesFails \/ Target!NotRefreshed
       \/ \E place \in Target!Places : Target!Appear(place) \/ Target!Disappear(place)
    /\ UNCHANGED vars

PreparesSpec ==
    /\ EditSpec
    /\ JoinsNetwork => nsPc \in {"fresh", "stale"}
    /\ UNCHANGED targetVars

(* The runtime fails when nothing is at the path.                          *)
JoinsTarget ==
    /\ JoinsNetwork /\ ContainerStarts
    /\ Target!Use
    /\ proc' = "running" => used' # Target!NoNamespace

StartsElsewhere ==
    /\ ~JoinsNetwork /\ ContainerStarts
    /\ UNCHANGED targetVars

ProcessStep ==
    /\ \/ NewChild \/ Create \/ MountFromProcess
       \/ Start \/ Waiter \/ Status \/ StatusPutsBack
       \/ Stop \/ TimerFires \/ StopFinishes
       \/ RunOnce \/ RunReturns \/ DeleteForced \/ RemoveBundle
       \/ EndsBySignal \/ EndsByItself
    /\ UNCHANGED targetVars

SidecarNext ==
    \/ RefreshesTarget \/ TargetStep
    \/ PreparesSpec \/ JoinsTarget \/ StartsElsewhere \/ ProcessStep

(* What has been begun goes on: goroutines, timers, commands, and programs *)
(* react to a signal they do not ignore. A channel hands a value to the    *)
(* receiver that waits, so status calls do not starve Stop (SF). Nobody    *)
(* has to call anything, no program has to end by itself, and nothing is   *)
(* assumed of the host's other processes.                                  *)
SidecarSpec ==
    /\ SidecarInit
    /\ [][SidecarNext]_sidecarVars
    /\ WF_sidecarVars(Waiter /\ UNCHANGED targetVars)
    /\ WF_sidecarVars(StatusPutsBack /\ UNCHANGED targetVars)
    /\ WF_sidecarVars(TimerFires /\ UNCHANGED targetVars)
    /\ SF_sidecarVars(StopFinishes /\ UNCHANGED targetVars)
    /\ WF_sidecarVars(JoinsTarget \/ StartsElsewhere)
    /\ WF_sidecarVars(EndsBySignal /\ UNCHANGED targetVars)
-----------------------------------------------------------------------------
(* A container never runs in another network namespace than the one the    *)
(* attack was prepared for, as long as pids and names do not come back     *)
(* (refreshNamespace keeps any path that exists).                          *)
RightNamespace == Target!RightNamespace

(* A refresh gives up only if every process and name that has led to the   *)
(* namespace all the time was one it failed to read: its own link or       *)
(* inode, or the rest of /proc or the names as a whole, after which        *)
(* nothing else is tried (findNamespaceInProcesses, then the named ones).  *)
FoundIfHeld == Target!FoundIfHeld

(* Whenever a path to the host's network namespace is found it is that of  *)
(* process 1, by which attacks on the host network are told apart, unless  *)
(* that search failed to read the link of process 1.                       *)
HostDetected == Target!HostDetected
=============================================================================
