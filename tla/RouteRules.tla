----------------------------- MODULE RouteRules -----------------------------
(***************************************************************************)
(* The rule set that reverse routes and ACL entries are made of: domain,    *)
(* IPv4 and IPv6 rules, compiled once and then matched against targets.     *)
(* (cmd/server/reverse_route.go)                                            *)
(***************************************************************************)
EXTENDS DomainRules, IPRules, FiniteSets

CONSTANT MaxRules       \* bound of the model: rules in a rule set

ASSUME RuleAssumption == MaxRules \in Nat

\* The lines of a configured rule list.
Entries ==
    [family : {"domain"}, rule : DomainEntries]
        \cup [family : {"ipv4", "ipv6"}, rule : IPEntries]

\* What a request may ask for: a host name, or an address of one family.
HostTargets == [family : {"domain"}, host : Hosts, port : PortNumbers]
AddressTargets == [family : {"ipv4", "ipv6"}, ip : Addresses, port : PortNumbers]
Targets == HostTargets \cup AddressTargets

VARIABLES
    rules,      \* the configured rules
    set,        \* the routeRuleSet compiled from them ...
    loaded      \* ... once it is

rulesVars == <<rules, set, loaded>>

OfFamily(rs, family) == {e.rule : e \in {x \in rs : x.family = family}}

CompileRouteRuleSet(rs) ==
    [domains |-> CompileDomains(OfFamily(rs, "domain")),
     ipv4    |-> CompileIPv4(OfFamily(rs, "ipv4")),
     ipv6    |-> CompileIPv6(OfFamily(rs, "ipv6"))]

\* An address is matched by the rules of its family only, a host name by the
\* domain rules.
Matches(target) ==
    \/ target.family = "ipv4" /\ MatchesIPv4(set.ipv4, target.ip, target.port)
    \/ target.family = "ipv6" /\ MatchesIPv6(set.ipv6, target.ip, target.port)
    \/ target.family = "domain"
       /\ MatchesDomain(set.domains, ReverseDomain(target.host), target.port)

RulesInit == rules = {} /\ set = "nil" /\ loaded = FALSE

\* One more rule of a configuration is parsed. The families are compiled and
\* matched apart from each other, so rules of one family are enough.
ParseRule(entry) ==
    /\ ~loaded /\ Cardinality(rules) < MaxRules
    /\ entry \notin rules /\ \A e \in rules : e.family = entry.family
    /\ rules' = rules \cup {entry}
    /\ UNCHANGED <<set, loaded>>

\* They are compiled, once, before anything is matched.
CompileRules ==
    /\ rules # {} /\ ~loaded
    /\ set' = CompileRouteRuleSet(rules) /\ loaded' = TRUE
    /\ UNCHANGED rules

RulesNext == CompileRules \/ \E entry \in Entries : ParseRule(entry)

RulesSpec == RulesInit /\ [][RulesNext]_rulesVars

----------------------------------------------------------------------------
(* Properties: the compiled set against the meaning of its rules. *)

Covered(target) ==
    \E e \in rules :
        /\ e.family = target.family
        /\ IF target.family = "domain"
           THEN CoversHost(e.rule, target.host, target.port)
           ELSE CoversAddress(e.rule, target.ip, target.port)

\* The targets that the rules may be about.
Concerned(targets) == {t \in targets : \E e \in rules : e.family = t.family}

\* Merged intervals and per-prefix port tables match exactly the addresses and
\* ports that some rule covers, at the ends of the address and port space and
\* across the halves of an IPv6 address too.
AddressesMatchExactly ==
    loaded => \A t \in Concerned(AddressTargets) : Matches(t) <=> Covered(t)

\* Reversed strings and prefixes never match a host that no rule covers.
NoFalseMatch == loaded => \A t \in Concerned(HostTargets) : Matches(t) => Covered(t)

\* Two suffix rules without ports, one below the other.
Nested ==
    LET suffixes == {r \in OfFamily(rules, "domain") : r.kind = "suffix" /\ ~r.hasPort}
    IN  \E r1, r2 \in suffixes : IsStrictPrefix(r1.name, r2.name)

\* As long as no suffix rule lies below another one, compiling loses nothing:
\* neither the binary search nor the dropping of covered rules with ports.
NoMissedHost ==
    loaded /\ ~Nested => \A t \in Concerned(HostTargets) : Covered(t) => Matches(t)

\* A compiled set matches what its rules say, but for the hosts that nested
\* suffix rules hide (EveryRuleWorks).
MatchesWhatRulesSay == AddressesMatchExactly /\ NoFalseMatch /\ NoMissedHost

\* Every rule matches what it says, whatever other rules the list has.
EveryRuleWorks == loaded => \A t \in Targets : Covered(t) => Matches(t)
=============================================================================
