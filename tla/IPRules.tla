------------------------------ MODULE IPRules ------------------------------
(***************************************************************************)
(* The IP rules of a reverse route: prefixes, with or without a port range, *)
(* compiled into merged intervals and per-prefix port ranges that are found *)
(* by binary search.   (cmd/server/reverse_route.go)                        *)
(*                                                                          *)
(* IPv4 addresses are integers of Bits bits. IPv6 addresses are pairs of    *)
(* halves of Bits \div 2 bits, compared and incremented half by half. Rules  *)
(* and targets of both families name an address by its integer.             *)
(***************************************************************************)
EXTENDS PortRanges, Sequences, SequencesExt

CONSTANT Bits       \* bits of an address, an even number

ASSUME IPAssumption == Bits \in Nat \ {0} /\ Bits % 2 = 0

MaxAddr == 2 ^ Bits - 1
Half == 2 ^ (Bits \div 2)
Addresses == 0..MaxAddr

\* The first and the last address that share the first `bits` bits of addr.
IPRange(addr, bits) ==
    LET size  == 2 ^ (Bits - bits)
        start == addr - (addr % size)
    IN  [start |-> start, end |-> start + size - 1]

\* What a rule's text may say; a prefix is masked when it is read.
IPEntries ==
    LET prefixes == {[addr |-> IPRange(a, b).start, bits |-> b] :
                        a \in Addresses, b \in 0..Bits}
    IN  [prefix : prefixes, hasPort : {TRUE}, ports : ParsedPortRanges]
            \cup [prefix : prefixes, hasPort : {FALSE}, ports : {AllPorts}]

----------------------------------------------------------------------------
(* Numbers: integers for IPv4 and for ports, pairs of halves for IPv6. *)

Uint128(a) == [hi |-> a \div Half, lo |-> a % Half]

\* Mutant: the high halves are not compared.
CompareUint128LowOnly(a, b) == IF a.lo < b.lo THEN -1 ELSE IF a.lo > b.lo THEN 1 ELSE 0

CompareUint128(a, b) ==
    IF a.hi # b.hi THEN (IF a.hi < b.hi THEN -1 ELSE 1)
    ELSE IF a.lo < b.lo THEN -1 ELSE IF a.lo > b.lo THEN 1 ELSE 0

IsMaxUint128(v) == v.hi = Half - 1 /\ v.lo = Half - 1

\* The halves wrap around; the carry is noticed by the low half getting smaller.
AddUint128(v, n) ==
    LET lo == (v.lo + n) % Half
    IN  [hi |-> IF lo < v.lo THEN (v.hi + 1) % Half ELSE v.hi, lo |-> lo]

CompareInt(a, b) == IF a < b THEN -1 ELSE IF a > b THEN 1 ELSE 0

\* The three kinds of numbers that are kept in intervals.
Compare(kind, a, b) ==
    IF kind = "ipv6" THEN CompareUint128(a, b) ELSE CompareInt(a, b)

\* start comes right after `end`, which is not the largest number of its kind.
Adjacent(kind, end, start) ==
    \/ kind = "ipv4" /\ end # MaxAddr /\ start = (end + 1) % 2 ^ Bits
    \/ /\ kind = "ipv6" /\ ~IsMaxUint128(end)
       /\ CompareUint128(start, AddUint128(end, 1)) = 0
    \/ kind = "port" /\ end # MaxPort /\ start = (end + 1) % (MaxPort + 1)

----------------------------------------------------------------------------
(* Merging and searching, the same for addresses and ports. The code keeps   *)
(* lists; a rule given twice merges with itself, so sets lose nothing.        *)

SortIntervals(kind, intervals) ==
    SetToSortSeq(intervals,
                 LAMBDA a, b : IF Compare(kind, a.start, b.start) = 0
                               THEN Compare(kind, a.end, b.end) < 0
                               ELSE Compare(kind, a.start, b.start) < 0)

\* The interval that covers the last one and the item that overlaps it.
Extended(kind, last, item) ==
    IF Compare(kind, item.end, last.end) > 0 THEN [last EXCEPT !.end = item.end]
                                             ELSE last

MergeIntervals(kind, intervals) ==
    FoldLeft(LAMBDA out, item :
                IF out # <<>> /\ (Compare(kind, item.start, Last(out).end) <= 0
                                  \/ Adjacent(kind, Last(out).end, item.start))
                THEN Append(Front(out), Extended(kind, Last(out), item))
                ELSE Append(out, item),
             <<>>, SortIntervals(kind, intervals))

\* sort.Search for the first interval that does not end before x.
MatchIntervals(kind, in, x) ==
    LET idx == CHOOSE i \in 1..Len(in) + 1 :
                  /\ i <= Len(in) => Compare(kind, in[i].end, x) >= 0
                  /\ \A j \in 1..i - 1 : Compare(kind, in[j].end, x) < 0
    IN  idx <= Len(in) /\ Compare(kind, in[idx].start, x) <= 0

----------------------------------------------------------------------------
(* Compiling and matching. *)

\* The port ranges of the rules of one prefix.
PortTable(rs) ==
    LET prefixes == {r.prefix : r \in {x \in rs : x.hasPort}}
    IN  [p \in prefixes |->
            MergeIntervals("port", {r.ports : r \in {x \in rs : x.hasPort /\ x.prefix = p}})]

AnyRanges(rs) ==
    {IPRange(r.prefix.addr, r.prefix.bits) : r \in {x \in rs : ~x.hasPort}}

CompileIPv4(rs) ==
    [any |-> MergeIntervals("ipv4", AnyRanges(rs)), port |-> PortTable(rs)]

CompileIPv6(rs) ==
    LET intervals == {[start |-> Uint128(i.start), end |-> Uint128(i.end)] :
                        i \in AnyRanges(rs)}
    IN  [any |-> MergeIntervals("ipv6", intervals), port |-> PortTable(rs)]

\* The prefixes of an address are looked up from the longest to the shortest.
MatchPortTable(table, ip, port) ==
    \E b \in 0..Bits :
        LET p == [addr |-> IPRange(ip, b).start, bits |-> b]
        IN  p \in DOMAIN table /\ MatchIntervals("port", table[p], port)

MatchesIPv4(c, ip, port) ==
    MatchIntervals("ipv4", c.any, ip) \/ MatchPortTable(c.port, ip, port)

MatchesIPv6(c, ip, port) ==
    \/ MatchIntervals("ipv6", c.any, Uint128(ip))
    \/ MatchPortTable(c.port, ip, port)

----------------------------------------------------------------------------
(* The meaning of one rule, for one address and port. *)

CoversAddress(rule, ip, port) ==
    /\ InRange(IPRange(rule.prefix.addr, rule.prefix.bits), ip)
    /\ InRange(rule.ports, port)
============================================================================
