-------------------------- MODULE NamespacesProofs --------------------------
(***************************************************************************)
(* Theorems about Namespaces, for every set of processes, names and        *)
(* network namespaces and every list of candidates.                        *)
(***************************************************************************)
EXTENDS Namespaces, TLAPS

(* The host: whatever is at a place has been seen there.                   *)
HostOK ==
    /\ at \in [Places -> Inodes \cup {NoNamespace}]
    /\ \A place \in Places : at[place] # NoNamespace => place \in seen
    /\ inode \in Inodes \cup {NoNamespace}
    /\ pc # "new" => inode # NoNamespace

(* The path leads to the namespace or to nothing.                          *)
PathOK ==
    /\ pc = "new" => path = NoPath /\ used = NoNamespace
    /\ path # NoPath => path \in Places /\ path \in seen /\ at[path] \in {NoNamespace, inode}
    /\ used \in {NoNamespace, inode}

LEMMA InitOK ==
    ASSUME NamespacesAssumption
    PROVE  Init => HostOK /\ PathOK
BY DEF NamespacesAssumption, Init, HostOK, PathOK

LEMMA HostStep ==
    ASSUME NamespacesAssumption, HostOK, [Next]_vars
    PROVE  HostOK'
<1> USE DEF NamespacesAssumption, HostOK, kernel
<1>1. CASE \E p \in Pids : ListNamespaces(p)
  <2>1. PICK p \in Pids : ListNamespaces(p)
    BY <1>1
  <2>2. Process(p) \in Places
    BY DEF Places
  <2> QED
    BY <2>1, <2>2 DEF ListNamespaces
<1>2. CASE Look \/ allProcesses \/ NotListed \/ LookupNamed \/ NotRefreshed \/ Refresh \/ Use
  BY <1>2 DEF Look, allProcesses, NotListed, LookupNamed, NotRefreshed, Refresh, Use, BeginSearch, Searching
<1>6. CASE CannotRead \/ allProcessesFails \/ ListingNamesFails
  BY <1>6 DEF CannotRead, allProcessesFails, ListingNamesFails, Searching
<1>3. CASE \E place \in Places : Appear(place)
  BY <1>3 DEF Appear
<1>4. CASE \E place \in Places : Disappear(place)
  BY <1>4 DEF Disappear
<1>5. CASE UNCHANGED vars
  BY <1>5 DEF vars
<1> QED
  BY <1>1, <1>2, <1>3, <1>4, <1>5, <1>6 DEF Next

(* A path that was found keeps leading to the namespace or to nothing when *)
(* neither pids nor names come back.                                       *)
LEMMA PathStep ==
    ASSUME NamespacesAssumption, ~MayReuse, HostOK, PathOK, [Next]_vars
    PROVE  PathOK'
<1> USE DEF NamespacesAssumption, PathOK, kernel
<1>1. CASE \E p \in Pids : ListNamespaces(p)
  BY <1>1 DEF ListNamespaces, BeginSearch
<1>2. CASE Look
  <2>1. UNCHANGED <<at, seen, inode, used>>
    BY <1>2 DEF Look
  <2>2. pc # "new" /\ (pc' # pc => pc' \in {"ready", "fresh"})
    BY <1>2 DEF Look, Searching
  <2>3. path' # path => path' \in Places /\ at[path'] = inode
    BY <1>2 DEF Look, LeadsTo, Holding
  <2>4. path' # path => path' \in seen
    BY <2>2, <2>3 DEF HostOK
  <2> QED
    BY <2>1, <2>2, <2>3, <2>4
<1>3. CASE allProcesses \/ NotListed \/ LookupNamed \/ NotRefreshed \/ Refresh
  BY <1>3 DEF allProcesses, NotListed, LookupNamed, NotRefreshed, Refresh, BeginSearch, Searching
<1>4. CASE Use
  BY <1>4 DEF Use
<1>8. CASE CannotRead \/ allProcessesFails \/ ListingNamesFails
  BY <1>8 DEF CannotRead, allProcessesFails, ListingNamesFails, Searching
<1>5. ASSUME NEW place \in Places, Appear(place) PROVE PathOK'
  <2>1. place \notin seen /\ UNCHANGED <<inode, path, pc, used>> /\ seen \subseteq seen'
    BY <1>5 DEF Appear
  <2>2. path # NoPath => at'[path] = at[path]
    BY <1>5, <2>1 DEF Appear, HostOK
  <2> QED
    BY <2>1, <2>2
<1>6. ASSUME NEW place \in Places, Disappear(place) PROVE PathOK'
  <2>1. UNCHANGED <<seen, inode, path, pc, used>>
    BY <1>6 DEF Disappear
  <2>2. path # NoPath => at'[path] \in {NoNamespace, at[path]}
    BY <1>6, <2>1 DEF Disappear, HostOK
  <2> QED
    BY <2>1, <2>2
<1>7. CASE UNCHANGED vars
  BY <1>7 DEF vars
<1> QED
  BY <1>1, <1>2, <1>3, <1>4, <1>5, <1>6, <1>7, <1>8 DEF Next

(* No command runs in another network namespace than the attack's.         *)
THEOREM RightNamespaceTheorem ==
    ASSUME NamespacesAssumption, ~MayReuse
    PROVE  Spec => []RightNamespace
<1>1. HostOK /\ PathOK /\ [Next]_vars => HostOK' /\ PathOK'
  BY HostStep, PathStep
<1>2. PathOK => RightNamespace
  BY DEF PathOK, RightNamespace
<1> QED
  BY <1>1, <1>2, InitOK, PTL DEF Spec
-----------------------------------------------------------------------------
(* The host's own namespace. Process 1 is looked at first and always there.*)
FirstPlace == Process(1)

SearchOK ==
    /\ at[FirstPlace] = Host
    /\ inode = Host /\ (Searching \/ pc = "names") /\ FirstPlace \in steady
            => Searching /\ FirstPlace \in todo /\ ~listed

LEMMA FirstIsProcess1 == FirstPlace \in FirstPids
BY DEF FirstPids, FirstPlace

LEMMA InitSearch ==
    ASSUME NamespacesAssumption
    PROVE  Init => HostOK /\ SearchOK
<1>1. FirstPlace \in Places /\ Host # NoNamespace
  BY DEF NamespacesAssumption, FirstPlace, Process, Places, NoNamespace
<1>2. Init => SearchOK
  BY <1>1 DEF NamespacesAssumption, Init, SearchOK, Searching, FirstPlace, NoNamespace
<1> QED
  BY <1>2, InitOK

LEMMA SearchStep ==
    ASSUME NamespacesAssumption, HostOK, SearchOK, [Next]_vars
    PROVE  SearchOK'
<1> USE DEF SearchOK, Searching, kernel
<1>1. FirstPlace \in Places /\ Host # NoNamespace
  BY DEF NamespacesAssumption, FirstPlace, Process, Places, NoNamespace
<1>2. CASE \E p \in Pids : ListNamespaces(p)
  BY <1>2, FirstIsProcess1 DEF ListNamespaces, BeginSearch
<1>3. CASE Look
  <2>1. PICK place \in todo :
            /\ ComesNext(place)
            /\ IF LeadsTo(place)
               THEN pc' \in {"ready", "fresh"}
               ELSE todo' = todo \ {place} /\ UNCHANGED pc
    BY <1>3 DEF Look
  <2>2. UNCHANGED <<at, inode, listed, steady>>
    BY <1>3 DEF Look
  <2>3. inode = Host /\ place = FirstPlace => LeadsTo(place)
    BY <1>1 DEF LeadsTo, Holding
  <2> QED
    BY <2>1, <2>2, <2>3
<1>4. CASE CannotRead
  BY <1>4 DEF CannotRead
<1>5. CASE allProcesses \/ allProcessesFails \/ NotListed \/ LookupNamed \/ ListingNamesFails \/ NotRefreshed \/ Use
  BY <1>5 DEF allProcesses, allProcessesFails, NotListed, LookupNamed, ListingNamesFails, NotRefreshed, Use
<1>6. CASE Refresh
  BY <1>6, FirstIsProcess1 DEF Refresh, BeginSearch
<1>7. ASSUME NEW place \in Places, Appear(place) PROVE SearchOK'
  <2>1. at' = [at EXCEPT ![place] = at'[place]] /\ place # FirstPlace
    BY <1>1, <1>7 DEF Appear, HostOK
  <2> QED
    BY <1>1, <1>7, <2>1 DEF Appear, HostOK
<1>8. ASSUME NEW place \in Places, Disappear(place) PROVE SearchOK'
  <2>1. at'[FirstPlace] = at[FirstPlace]
    BY <1>1, <1>8 DEF Disappear, FirstPlace, HostOK
  <2> QED
    BY <1>8, <2>1 DEF Disappear
<1>9. CASE UNCHANGED vars
  BY <1>9 DEF vars
<1> QED
  BY <1>2, <1>3, <1>4, <1>5, <1>6, <1>7, <1>8, <1>9 DEF Next

(* The only place that a search for the host's namespace can find first.   *)
LEMMA FoundAtProcess1 ==
    ASSUME HostOK, SearchOK, [Next]_vars, path' # path, inode' = Host, Process(1) \in steady
    PROVE  path' = Process(1)
<1>1. CASE Look
  <2>1. inode = Host /\ (Searching \/ pc = "names")
    BY <1>1 DEF Look
  <2>2. FirstPlace \in todo /\ ~listed
    BY <2>1 DEF SearchOK, FirstPlace
  <2>3. PICK place \in todo : ComesNext(place) /\ path' = place
    BY <1>1 DEF Look
  <2> QED
    BY <2>2, <2>3 DEF ComesNext, FirstPlace
<1>2. CASE UNCHANGED path
  BY <1>2
<1> QED
  BY <1>1, <1>2 DEF Next, vars, ListNamespaces, CannotRead, allProcesses, allProcessesFails,
     NotListed, LookupNamed, ListingNamesFails, NotRefreshed, Refresh, Use, Appear, Disappear

(* A search for the host's network namespace finds it at process 1, unless *)
(* its link cannot be read, whatever the candidates are and whatever else  *)
(* runs in it.                                                             *)
THEOREM HostDetectedTheorem ==
    ASSUME NamespacesAssumption
    PROVE  Spec => HostDetected
<1>1. HostOK /\ SearchOK /\ [Next]_vars => HostOK' /\ SearchOK'
  BY HostStep, SearchStep
<1>2. HostOK /\ SearchOK /\ [Next]_vars =>
        [path' # path /\ inode' = Host /\ Process(1) \in steady => path' = Process(1)]_vars
  BY FoundAtProcess1
<1> QED
  BY <1>1, <1>2, InitSearch, PTL DEF Spec, HostDetected
-----------------------------------------------------------------------------
(* A place that leads to the namespace all the time, and could be read as  *)
(* far as it was, is still to be looked at.                                *)
SteadyOK ==
    /\ Searching \/ pc = "names" => steady \subseteq Holding(inode)
    /\ pc = "refreshing" /\ listed => \A place \in steady : place[1] = "proc" => place \in todo
    /\ pc = "refreshing" /\ ~listed => steady \cap FirstPids \subseteq todo
    /\ pc = "names" => steady \subseteq todo
    /\ pc = "stale" => steady = {}

LEMMA SteadyStep ==
    ASSUME NamespacesAssumption, HostOK, SteadyOK, [Next]_vars
    PROVE  SteadyOK'
<1> USE DEF SteadyOK, Searching, kernel
<1>1. CASE \E p \in Pids : ListNamespaces(p)
  BY <1>1 DEF ListNamespaces, BeginSearch, Holding
<1>2. CASE Refresh
  BY <1>2 DEF Refresh, BeginSearch, Holding
<1>3. CASE Look
  <2>1. PICK place \in todo :
            IF LeadsTo(place)
            THEN pc' \in {"ready", "fresh"}
            ELSE todo' = todo \ {place} /\ UNCHANGED <<path, pc>>
    BY <1>3 DEF Look
  <2>2. UNCHANGED <<at, inode, listed, steady>> /\ (Searching \/ pc = "names")
    BY <1>3 DEF Look
  <2>3. ~LeadsTo(place) => place \notin steady
    BY <2>2 DEF LeadsTo
  <2> QED
    BY <2>1, <2>2, <2>3 DEF Holding
<1>4. CASE allProcesses
  <2>1. \A place \in Holding(inode) : place[1] = "proc" => place \in Alive("proc")
    BY <1>4 DEF allProcesses, HostOK, Holding, Alive, NamespacesAssumption
  <2> QED
    BY <1>4, <2>1 DEF allProcesses, Holding
<1>5. CASE LookupNamed
  <2>1. \A place \in steady : place[1] # "proc" /\ place \in Holding(inode)
    BY <1>5 DEF LookupNamed
  <2>2. \A place \in Places : place[1] = "proc" \/ place[1] = "name"
    BY DEF Places, NamedPlaces, Process
  <2>3. \A place \in steady : place \in Alive("name")
    BY <1>5, <2>1, <2>2 DEF LookupNamed, Holding, Alive, HostOK
  <2> QED
    BY <1>5, <2>1, <2>3 DEF LookupNamed, Holding
<1>6. CASE NotRefreshed
  BY <1>6 DEF NotRefreshed
<1>7. CASE NotListed \/ Use
  BY <1>7 DEF NotListed, Use, Holding
<1>11. CASE CannotRead
  BY <1>11 DEF CannotRead, Holding
<1>12. CASE allProcessesFails
  <2>1. \A place \in steady : place \in Places
    BY <1>12 DEF allProcessesFails, Holding
  <2>2. \A place \in Places : place[1] = "proc" \/ place \in NamedPlaces
    BY DEF Places, Process
  <2>3. pc = "refreshing" => steady' = {}
    BY <1>12, <2>1, <2>2 DEF allProcessesFails
  <2> QED
    BY <1>12, <2>3 DEF allProcessesFails, Holding
<1>13. CASE ListingNamesFails
  <2>1. \A place \in steady : place \in NamedPlaces
    BY <1>13 DEF ListingNamesFails, Holding, Places, Process
  <2> QED
    BY <1>13, <2>1 DEF ListingNamesFails, Holding
<1>8. ASSUME NEW place \in Places, Appear(place) PROVE SteadyOK'
  <2>1. UNCHANGED <<inode, pc, todo, listed, steady>> /\ at[place] = NoNamespace
    BY <1>8 DEF Appear
  <2>2. Searching \/ pc = "names" => inode # NoNamespace
    BY DEF HostOK
  <2>3. \A other \in Places : other # place => at'[other] = at[other]
    BY <1>8 DEF Appear, HostOK
  <2> QED
    BY <2>1, <2>2, <2>3 DEF Holding
<1>9. ASSUME NEW place \in Places, Disappear(place) PROVE SteadyOK'
  <2>1. UNCHANGED <<inode, pc, todo, listed>> /\ steady' = steady \ {place}
    BY <1>9 DEF Disappear
  <2>2. \A other \in Places : other # place => at'[other] = at[other]
    BY <1>9 DEF Disappear, HostOK
  <2> QED
    BY <2>1, <2>2 DEF Holding
<1>10. CASE UNCHANGED vars
  BY <1>10 DEF vars, Holding
<1> QED
  BY <1>1, <1>2, <1>3, <1>4, <1>5, <1>6, <1>7, <1>8, <1>9, <1>10, <1>11, <1>12, <1>13 DEF Next

(* A refresh that gives up has not overlooked a process or a name that led *)
(* to the namespace from its beginning to its end and could be read.       *)
THEOREM FoundIfHeldTheorem ==
    ASSUME NamespacesAssumption
    PROVE  Spec => []FoundIfHeld
<1>1. Init => SteadyOK
  BY DEF Init, SteadyOK, Searching
<1>2. SteadyOK => FoundIfHeld
  BY DEF SteadyOK, FoundIfHeld
<1>3. HostOK /\ SteadyOK /\ [Next]_vars => HostOK' /\ SteadyOK'
  BY HostStep, SteadyStep
<1> QED
  BY <1>1, <1>2, <1>3, InitOK, PTL DEF Spec
=============================================================================
