----------------------------- MODULE MCNetfault -----------------------------
(* Instances of Netfault for TLC: delays that conflict or are equal, a     *)
(* blackhole, and an interface whose root qdisc a user installed.          *)
EXTENDS Netfault

CONSTANTS d1, d2, d3, k1, p1, p2, u1, ns1, ns2, ns3, e1, e2, e3

Delay(d, j, psh, f, i) == [type |-> "delay", Delay |-> d, Jitter |-> j, TcpPshOnly |-> psh, Filter |-> f, Interfaces |-> {i}]
Blackhole(f) == [type |-> "blackhole", IpProto |-> "any", Filter |-> f]
Loss(l, f, i) == [type |-> "loss", Loss |-> l, Filter |-> f, Interfaces |-> {i}]
Tuned == [root |-> "tuned", parts |-> {}]
User == [root |-> "user", parts |-> {"class"}]

\* d1 and d2 conflict by their jitter, d1 and d3 are equal; p1 and p2 mark packets with a chain of iptables
MCOpts == [a \in Attacks |->
    CASE a \in {d1, d3} -> Delay(100, 0, FALSE, "f", e1)
      [] a = d2 -> Delay(100, 10, FALSE, "f", e1)
      [] a = k1 -> Blackhole("g")
      [] a = p1 -> Delay(100, 0, TRUE, "f", e2)
      [] a = p2 -> Delay(100, 0, TRUE, "f", e1)
      [] a = u1 -> Loss(10, "f", e3)]
MCNetNs == [a \in Attacks |-> CASE a \in {d1, d2, d3, p2} -> ns1 [] a \in {k1, p1, u1} -> ns2 [] OTHER -> ns3]
\* ns1 and ns2 share one of the hashed mutexes
MCHash == [n \in {ns1, ns2, ns3} |-> IF n = ns3 THEN 1 ELSE 0]
MCOriginal == [i \in Interfaces |-> IF i = e3 THEN User ELSE Tuned]
MCFaults == [a \in Attacks |->
    CASE a = u1 -> {"inspect", "delete"}
      [] a = k1 -> {"add", "delete"}
      [] a = d2 -> {"add", "delete", "restore"}
      [] OTHER -> FaultKinds]
RestoreFails == [a \in Attacks |-> {"restore"}]
NoFaults == [a \in Attacks |-> {}]
=============================================================================
