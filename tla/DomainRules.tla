---------------------------- MODULE DomainRules ----------------------------
(***************************************************************************)
(* The domain rules of a reverse route: how a list of rules is compiled and *)
(* how a host is looked up in the result.   (cmd/server/reverse_route.go)   *)
(*                                                                          *)
(* The code reverses host names and compares them as strings. A host is the *)
(* sequence of its labels here, top-level label first, and its string has   *)
(* one character per label, a number, and one per dot, which sorts first.   *)
(***************************************************************************)
EXTENDS PortRanges, Sequences, SequencesExt

CONSTANTS
    Labels,         \* labels of host names
    MaxDepth,       \* bound of the model: labels in a name
    MaxDomainPort   \* bound of the model: where the port range of a domain rule
                    \* may end; a port is only ever tested against one range here

ASSUME DomainAssumption ==
    Labels \subseteq Nat \ {0} /\ MaxDepth \in Nat /\ MaxDomainPort \in 0..MaxPort

Dot == 0
Hosts == UNION {[1..n -> Labels] : n \in 1..MaxDepth}

\* What a rule's text may say: a host, a domain with everything below it, either
\* with or without a port range, or every host.
DomainEntries ==
    [kind : {"exact", "suffix"}, name : Hosts, hasPort : {TRUE},
     ports : {p \in ParsedPortRanges : p.end <= MaxDomainPort}]
        \cup [kind : {"exact", "suffix"}, name : Hosts, hasPort : {FALSE},
              ports : {AllPorts}]
        \cup {[kind |-> "all", name |-> <<>>, hasPort |-> FALSE, ports |-> AllPorts]}

----------------------------------------------------------------------------
(* Strings. *)

\* strings.HasPrefix
HasPrefix(target, value) == IsPrefix(value, target)

\* a < b, as Go compares strings.
Before(a, b) ==
    \/ IsStrictPrefix(a, b)
    \/ \E i \in DOMAIN a \cap DOMAIN b :
          a[i] < b[i] /\ SubSeq(a, 1, i - 1) = SubSeq(b, 1, i - 1)

\* The strings of a reversed host and of a reversed suffix rule: each label but
\* the last of a host is followed by a dot.
Dotted(name) ==
    [i \in 1..2 * Len(name) |-> IF i % 2 = 0 THEN Dot ELSE name[(i + 1) \div 2]]
ReverseDomain(host) == Front(Dotted(host))

\* Mutant: the dot that ends a suffix rule is forgotten.
SuffixValueNoDot(name) == Front(Dotted(name))

SuffixValue(name) == Dotted(name)

\* sort.Search: the first index from which the strings are at or after target.
Search(sorted, target) ==
    CHOOSE i \in 1..Len(sorted) + 1 :
        /\ i <= Len(sorted) => ~Before(sorted[i], target)
        /\ \A j \in 1..i - 1 : Before(sorted[j], target)

UniqueSortedStrings(values) == SetToSortSeq(values, Before)

ContainsSorted(sorted, target) ==
    LET idx == Search(sorted, target)
    IN  idx <= Len(sorted) /\ sorted[idx] = target

\* Mutant: only the string found is compared.
PrefixInSortedAtIndex(sorted, target) ==
    LET idx == Search(sorted, target)
    IN  idx <= Len(sorted) /\ HasPrefix(target, sorted[idx])

\* Only the two neighbours of the place where target would be are compared.
PrefixInSorted(sorted, target) ==
    LET idx == Search(sorted, target)
    IN  \/ idx <= Len(sorted) /\ HasPrefix(target, sorted[idx])
        \/ idx > 1 /\ HasPrefix(target, sorted[idx - 1])

----------------------------------------------------------------------------
(* Compiling a rule set. *)

Value(rule) == IF rule.kind = "suffix" THEN SuffixValue(rule.name)
                                       ELSE ReverseDomain(rule.name)

\* The values of the rules of one kind without ports, and the rules with them.
AnyValues(rs, kind) == {Value(r) : r \in {x \in rs : x.kind = kind /\ ~x.hasPort}}
PortRules(rs, kind) == {[value |-> Value(r), ports |-> r.ports] :
                          r \in {x \in rs : x.kind = kind /\ x.hasPort}}

DomainSuffixCovered(value, suffixes) ==
    \E i \in DOMAIN suffixes : HasPrefix(value, suffixes[i])

\* Rules with ports that a rule without ports already covers are dropped. They
\* are looked up one by one, so their order does not matter.
CompileDomainPortRules(prs, exactAny, suffixAny) ==
    {r \in prs : ~ContainsSorted(exactAny, r.value)
                 /\ ~DomainSuffixCovered(r.value, suffixAny)}

CompileDomains(rs) ==
    LET exactAny  == UniqueSortedStrings(AnyValues(rs, "exact"))
        suffixAny == UniqueSortedStrings(AnyValues(rs, "suffix"))
    IN  [matchAll   |-> \E r \in rs : r.kind = "all",
         exactAny   |-> exactAny,
         suffixAny  |-> suffixAny,
         exactPort  |->
            CompileDomainPortRules(PortRules(rs, "exact"), exactAny, suffixAny),
         suffixPort |->
            CompileDomainPortRules(PortRules(rs, "suffix"), <<>>, suffixAny)]

MatchesDomain(c, revHost, port) ==
    \/ c.matchAll /\ revHost # <<>>
    \/ ContainsSorted(c.exactAny, revHost)
    \/ PrefixInSorted(c.suffixAny, revHost)
    \/ \E r \in c.exactPort : r.value = revHost /\ InRange(r.ports, port)
    \/ \E r \in c.suffixPort : HasPrefix(revHost, r.value) /\ InRange(r.ports, port)

----------------------------------------------------------------------------
(* The meaning of one rule, for one host and port. *)

CoversHost(rule, host, port) ==
    \/ rule.kind = "all"
    \/ /\ \/ rule.kind = "exact" /\ host = rule.name
          \/ rule.kind = "suffix" /\ IsStrictPrefix(rule.name, host)
       /\ InRange(rule.ports, port)
============================================================================
