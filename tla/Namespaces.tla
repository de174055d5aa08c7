----------------------------- MODULE Namespaces -----------------------------
(***************************************************************************)
(* The network namespace an attack was prepared for, known by its inode,   *)
(* and the path to it, which is looked up again before each use            *)
(* (ociruntime/utils.go), while processes and named namespaces come and    *)
(* go on the host. An operator whose comment begins with "Fault:" is a     *)
(* plausible mistake in the definition that follows it.                    *)
(***************************************************************************)
EXTENDS Naturals

CONSTANTS
    Pids,       \* process ids, 1 is the host's first process
    Names,      \* named network namespaces
    Inodes,     \* network namespaces
    Host,       \* the network namespace of process 1
    Candidates, \* WithNamespaceCandidates: pids to look at first
    MayReuse    \* a pid or a name may come back for another namespace

(* What the theorems need of the constants; the composition assumes it.    *)
NamespacesAssumption ==
    /\ Pids \subseteq Nat \ {0} /\ 1 \in Pids
    /\ Inodes \subseteq Nat \ {0} /\ Host \in Inodes
    /\ Candidates \subseteq Pids
    /\ MayReuse \in BOOLEAN

NoNamespace == 0
Process(p) == <<"proc", p>>
NamedPlaces == {<<"name", n>> : n \in Names}
Places == {Process(p) : p \in Pids} \cup NamedPlaces
NoPath == <<"none", 0>>

VARIABLES
    at,         \* host: the namespace at each place, NoNamespace if there is none
    seen,       \* host: the places that were ever taken
    inode, path,\* LinuxNamespace
    pc,         \* what the attack is doing with it
    todo,       \* places still to look at
    listed,     \* /proc has been listed
    steady,     \* history: places that have led to inode since the search began,
                \* but for those the search failed to read
    used        \* the namespace a command was run in

kernel == <<at, seen>>
vars == <<kernel, inode, path, pc, todo, listed, steady, used>>

Alive(kindOfPlace) == {pl \in Places : pl[1] = kindOfPlace /\ at[pl] # NoNamespace}
Holding(i) == {pl \in Places : at[pl] = i}

Init ==
    /\ at \in {f \in [Places -> Inodes \cup {NoNamespace}] : f[Process(1)] = Host}
    /\ seen = {pl \in Places : at[pl] # NoNamespace}
    /\ inode = NoNamespace /\ path = NoPath
    /\ pc = "new" /\ todo = {} /\ listed = FALSE /\ steady = {}
    /\ used = NoNamespace
-----------------------------------------------------------------------------
(* The search in /proc: process 1, the candidates, then all of them.       *)

FirstPids == {Process(p) : p \in {1} \cup Candidates}

(* Fault: process 1 is one of the candidates. *)
AnyComesNext(place) == TRUE

(* The order of the others is that of the caller's list or of /proc.       *)
ComesNext(place) == listed \/ place = Process(1) \/ Process(1) \notin todo

BeginSearch(i) ==
    /\ pc' = IF pc = "new" THEN "listing" ELSE "refreshing"
    /\ todo' = FirstPids
    /\ listed' = FALSE
    /\ steady' = Holding(i)

Searching == pc \in {"listing", "refreshing"}

(* Fault: any process that has a namespace of this type will do. *)
HasNamespace(place) == at[place] # NoNamespace

(* searchNamespacePathInProcess, and the inodes read for a name.           *)
LeadsTo(place) == place \in Holding(inode)

(* executeListNamespaces for a process: the inode first, then a path.      *)
ListNamespaces(p) ==
    /\ pc = "new" /\ at[Process(p)] # NoNamespace
    /\ inode' = at[Process(p)]
    /\ BeginSearch(inode')
    /\ UNCHANGED <<kernel, path, used>>

Look ==
    /\ Searching \/ pc = "names"
    /\ \E place \in todo :
        /\ ComesNext(place)
        /\ IF LeadsTo(place)
           THEN path' = place /\ todo' = {} /\ pc' = IF pc = "listing" THEN "ready" ELSE "fresh"
           ELSE todo' = todo \ {place} /\ UNCHANGED <<path, pc>>
    /\ UNCHANGED <<kernel, inode, listed, steady, used>>

(* The link or the inode of a place that leads there cannot be read: it is *)
(* passed over.                                                            *)
CannotRead ==
    /\ Searching \/ pc = "names"
    /\ \E place \in todo :
        /\ ComesNext(place) /\ LeadsTo(place)
        /\ todo' = todo \ {place}
        /\ steady' = steady \ {place}
    /\ UNCHANGED <<kernel, inode, path, pc, listed, used>>

allProcesses ==
    /\ Searching /\ todo = {} /\ ~listed
    /\ todo' = Alive("proc")
    /\ listed' = TRUE
    /\ UNCHANGED <<kernel, inode, path, pc, steady, used>>

(* /proc cannot be opened, or read to its end: not errorNsNotFound, so the *)
(* search is over and no name is looked up.                                *)
allProcessesFails ==
    /\ Searching /\ (listed \/ todo = {})
    /\ pc' = IF pc = "listing" THEN "ready" ELSE "stale"
    /\ steady' = steady \ (IF listed THEN todo \cup NamedPlaces ELSE Places \ FirstPids)
    /\ todo' = {}
    /\ UNCHANGED <<kernel, inode, path, listed, used>>

(* Not found while listing: a path that does not exist is kept.            *)
NotListed ==
    /\ pc = "listing" /\ todo = {} /\ listed
    /\ pc' = "ready"
    /\ UNCHANGED <<kernel, inode, path, todo, listed, steady, used>>

(* Fault: only processes are looked at. *)
GiveUp ==
    /\ pc = "refreshing" /\ todo = {} /\ listed
    /\ pc' = "stale"
    /\ UNCHANGED <<kernel, inode, path, todo, listed, steady, used>>

(* lookupNamedNetworkNamespace: `ip netns`, then the inode of each name.   *)
LookupNamed ==
    /\ pc = "refreshing" /\ todo = {} /\ listed
    /\ pc' = "names"
    /\ todo' = Alive("name")
    /\ UNCHANGED <<kernel, inode, path, listed, steady, used>>

(* `ip netns` fails. *)
ListingNamesFails ==
    /\ pc = "refreshing" /\ todo = {} /\ listed
    /\ pc' = "stale"
    /\ steady' = steady \ NamedPlaces
    /\ UNCHANGED <<kernel, inode, path, todo, listed, used>>

(* Failed: the old path is kept.                                           *)
NotRefreshed ==
    /\ pc = "names" /\ todo = {}
    /\ pc' = "stale"
    /\ UNCHANGED <<kernel, inode, path, todo, listed, steady, used>>
-----------------------------------------------------------------------------
(* refreshNamespace before each use.                                       *)

IsNamed == path[1] = "name"

(* Lstat succeeds whatever namespace is there.                             *)
PathExists == path # NoPath /\ at[path] # NoNamespace

Refresh ==
    /\ pc = "ready"
    /\ IF IsNamed \/ PathExists
       THEN pc' = "fresh" /\ UNCHANGED <<todo, listed, steady>>
       ELSE BeginSearch(inode)
    /\ UNCHANGED <<kernel, inode, path, used>>

(* A command in the namespace: runc joins the path, or ip netns exec.      *)
Use ==
    /\ pc \in {"fresh", "stale"}
    /\ used' = IF path = NoPath THEN NoNamespace ELSE at[path]
    /\ pc' = "ready"
    /\ UNCHANGED <<kernel, inode, path, todo, listed, steady>>
-----------------------------------------------------------------------------
(* The host. A process is forked into an existing namespace.               *)

Appear(place) ==
    /\ at[place] = NoNamespace /\ (MayReuse \/ place \notin seen)
    /\ \E i \in Inodes :
        /\ \E other \in Places : at[other] = i
        /\ at' = [at EXCEPT ![place] = i]
    /\ seen' = seen \cup {place}
    /\ UNCHANGED <<inode, path, pc, todo, listed, steady, used>>

Disappear(place) ==
    /\ at[place] # NoNamespace /\ place # Process(1)
    /\ at' = [at EXCEPT ![place] = NoNamespace]
    /\ steady' = steady \ {place}
    /\ UNCHANGED <<seen, inode, path, pc, todo, listed, used>>

Next ==
    \/ \E p \in Pids : ListNamespaces(p)
    \/ Look \/ CannotRead \/ allProcesses \/ allProcessesFails \/ NotListed
    \/ LookupNamed \/ ListingNamesFails \/ NotRefreshed
    \/ Refresh \/ Use
    \/ \E place \in Places : Appear(place) \/ Disappear(place)

Spec == Init /\ [][Next]_vars
-----------------------------------------------------------------------------
(* A command never runs in another network namespace than the one the      *)
(* attack was prepared for, as long as pids and names do not come back     *)
(* (refreshNamespace keeps any path that exists).                          *)
RightNamespace == used \in {NoNamespace, inode}

(* A refresh gives up only if every process and name that has led to the   *)
(* namespace all the time was one it failed to read: its own link or       *)
(* inode, or the rest of /proc or the names as a whole, after which        *)
(* nothing else is tried (findNamespaceInProcesses, then the named ones).  *)
FoundIfHeld == pc = "stale" => steady = {}

(* Whenever a path to the host's network namespace is found it is that of  *)
(* process 1, by which attacks on the host network are told apart, unless  *)
(* that search failed to read the link of process 1.                       *)
HostDetected ==
    [][path' # path /\ inode' = Host /\ Process(1) \in steady => path' = Process(1)]_vars
=============================================================================
