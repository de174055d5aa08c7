--------------------------- MODULE RollbackContract ---------------------------
(****************************************************************************)
(* What the SDK promises for an action that implements Stop, without any    *)
(* handler, monitor or thread: the action's code leaves a state whenever it *)
(* runs; the state that is kept is never replaced by another one than the   *)
(* last that the code left; the system is modified only while some state to *)
(* roll it back with is kept, and that state is forgotten only when nothing *)
(* is owed any more.                                                        *)
(****************************************************************************)
CONSTANTS Execs, State, NoState

VARIABLES
  kept,  \* the state kept for each execution
  last,  \* the state the action's code left last
  owed   \* executions with a modification that has to be rolled back

contractVars == <<kept, last, owed>>

Init ==
  /\ kept = [e \in Execs |-> NoState]
  /\ last = [e \in Execs |-> NoState]
  /\ owed = {}

(* The action's code runs for e and leaves the state s.                    *)
Run(e, s) ==
  /\ last' = [last EXCEPT ![e] = s]
  /\ \/ owed' = owed
     \/ owed' = owed \cup {e} /\ kept[e] # NoState
  /\ UNCHANGED kept

Keep(e) == kept' = [kept EXCEPT ![e] = last[e]] /\ UNCHANGED <<last, owed>>

RollBack(e) == owed' = owed \ {e} /\ UNCHANGED <<kept, last>>

Forget(e) ==
  /\ e \notin owed
  /\ kept' = [kept EXCEPT ![e] = NoState]
  /\ UNCHANGED <<last, owed>>

Next ==
  \E e \in Execs :
    \/ \E s \in State : Run(e, s)
    \/ Keep(e) \/ RollBack(e) \/ Forget(e)

Spec == Init /\ [][Next]_contractVars

=============================================================================
