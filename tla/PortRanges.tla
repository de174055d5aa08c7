----------------------------- MODULE PortRanges -----------------------------
(***************************************************************************)
(* Port ranges (package network, types.go) and the port masks the u32      *)
(* filters of tc need for them (package netfault, utils.go). Ports are     *)
(* unsigned numbers below PortLimit: arithmetic on them wraps around.      *)
(* A mask that clears the lowest bits is given by the size of its block.   *)
(***************************************************************************)
EXTENDS Integers, Sequences

CONSTANT PortBits       \* the width of a port: 16 in the code

ASSUME PortAssumption == PortBits \in Nat \ {0}

(* 1 << k *)
Pow2[k \in Nat] == IF k = 0 THEN 1 ELSE 2 * Pow2[k - 1]

PortLimit == Pow2[PortBits]
Ports == 0 .. PortLimit - 1
PortRange == [From : Ports, To : Ports]
PortRangeAny == [From |-> 1, To |-> PortLimit - 2]

(* ParsePortRange yields no other ranges.                                  *)
ParsedRanges ==
    {r \in [From : 1 .. PortLimit - 2, To : 1 .. PortLimit - 2] : r.From <= r.To}

IsAny(r) == r = PortRangeAny
MergeRanges(r, s) ==
    [From |-> IF r.From <= s.From THEN r.From ELSE s.From,
     To |-> IF r.To >= s.To THEN r.To ELSE s.To]
OverlapRanges(r, s) == r.From <= s.To /\ r.To >= s.From
ContainsPort(r, port) == r.From <= port /\ r.To >= port

(* Fault: ranges with one port between them are taken for neighbours.      *)
IsNear(r, s) == (r.To + 2) % PortLimit = s.From \/ (s.To + 2) % PortLimit = r.From

IsNeighbor(r, s) ==
    \/ (r.To + 1) % PortLimit = s.From
    \/ (s.To + 1) % PortLimit = r.From
-----------------------------------------------------------------------------
(* Fault: a block may reach one port beyond the range.                     *)
LooseBlock(port, to) ==
    LET grow[k \in 0 .. PortBits] ==
            IF k = PortBits \/ (port % Pow2[k + 1]) # 0 \/ port + Pow2[k + 1] - 1 > to + 1
            THEN Pow2[k] ELSE grow[k + 1]
    IN  IF port = 0 THEN 1 ELSE grow[0]

(* The largest aligned block that starts at port and ends at or before to. *)
portMask(port, to) ==
    LET grow[k \in 0 .. PortBits] ==
            IF k = PortBits \/ (port % Pow2[k + 1]) # 0 \/ port + Pow2[k + 1] - 1 > to
            THEN Pow2[k] ELSE grow[k + 1]
    IN  IF port = 0 THEN 1 ELSE grow[0]

getMask(r) ==
    LET from[port \in 0 .. PortLimit] ==
            IF port > r.To THEN <<>>
            ELSE LET block == portMask(port, r.To)
                 IN  <<[value |-> port, block |-> block]>> \o from[port + block]
    IN  CASE IsAny(r) -> <<[value |-> 0, block |-> PortLimit]>>
          [] r.To < r.From -> <<>>
          [] OTHER -> from[r.From]

(* u32: the ports that are equal to the value under the mask.              *)
MaskedPorts(m) == {port \in Ports : port - (port % m.block) = m.value}
=============================================================================
