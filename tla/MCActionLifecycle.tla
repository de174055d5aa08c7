-------------------------- MODULE MCActionLifecycle --------------------------
(* Instances of the lifecycle for TLC. *)
EXTENDS ActionLifecycle, TLC

CONSTANTS e1, e2, h1, h2, m1, m2

(* Handlers, monitors and executions are interchangeable, the latter when  *)
(* the sets of executions that the constants name are all of Execs or      *)
(* empty. Safety runs only.                                                *)
Symmetry ==
  Permutations(Execs) \cup Permutations(Monitors) \cup Permutations(Handlers)

=============================================================================
