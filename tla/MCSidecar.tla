----------------------------- MODULE MCSidecar -----------------------------
(* Every kind of process; every step may fail; which signals the programs  *)
(* ignore. The host has two processes beside its first one and one named   *)
(* namespace; the higher pid is looked at first.                           *)
EXTENDS Sidecar

CONSTANTS blue

MCFaults == [k \in AllKinds |-> FaultKinds]

MCIgnored == [k \in AllKinds |-> IF k = "dns" THEN {"INT", "TERM"} ELSE {"INT"}]
=============================================================================
