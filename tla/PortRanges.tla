----------------------------- MODULE PortRanges -----------------------------
(* Port ranges, which domain rules and IP rules share.                        *)
(* (cmd/server/reverse_route.go)                                              *)
EXTENDS Integers

CONSTANT MaxPort    \* 65535

ASSUME PortAssumption == MaxPort \in Nat

PortNumbers == 0..MaxPort
AllPorts == [start |-> 0, end |-> MaxPort]

\* The ranges that parsing accepts: one port, or two that do not decrease.
ParsedPortRanges ==
    {p \in [start : PortNumbers, end : PortNumbers] : p.start <= p.end}

InRange(ports, port) == ports.start <= port /\ port <= ports.end
=============================================================================
