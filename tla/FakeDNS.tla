------------------------------- MODULE FakeDNS -------------------------------
(***************************************************************************)
(* FakeDNS (cmd/server/fake_dns.go): a special name is answered with an     *)
(* address made up for it, and a later request for that address is restored *)
(* to the name.  Two caches, by name and by address, each with its own      *)
(* mutex and its own forgetting; mu guards only the making of an address.   *)
(***************************************************************************)
EXTENDS Naturals, FiniteSets

CONSTANTS
    Lookups,    \* goroutines in addrForName
    Names,
    IDSpace,    \* 2^32: nextID is taken modulo it
    MaxMade     \* bound of the model: addresses that are made

ASSUME FakeConstants == IDSpace \in Nat \ {0, 1} /\ MaxMade \in 0..(IDSpace - 1)

VARIABLES
    byName,     \* [Names -> address, 0 for none]
    byAddr,     \* [addresses -> name or "none"]
    nextID,
    fakeMu,     \* mu is held
    lookup,     \* [Lookups -> its place, name and address]
    given,      \* history: answers, as pairs of a name and an address
    made,       \* history: [Names -> addresses made for it]
    forgot      \* history: [Names -> times byName lost it]

fakeVars == <<byName, byAddr, nextID, fakeMu, lookup, given, made, forgot>>

Addrs == 1..(IDSpace - 1)
AtRest == [at |-> "rest", name |-> "none", addr |-> 0]

FakeTypeOK ==
    /\ byName \in [Names -> 0..(IDSpace - 1)] /\ byAddr \in [Addrs -> Names \cup {"none"}]
    /\ nextID \in 0..(IDSpace - 1) /\ fakeMu \in BOOLEAN
    /\ lookup \in [Lookups -> [at : {"rest", "start", "found", "locking", "inside", "making", "named"},
                               name : Names \cup {"none"}, addr : 0..(IDSpace - 1)]]

FakeInit ==
    /\ byName = [n \in Names |-> 0] /\ byAddr = [a \in Addrs |-> "none"]
    /\ nextID = 0 /\ fakeMu = FALSE /\ lookup = [l \in Lookups |-> AtRest]
    /\ given = {} /\ made = [n \in Names |-> 0] /\ forgot = [n \in Names |-> 0]

Place(l, at, addr) == lookup' = [lookup EXCEPT ![l].at = at, ![l].addr = addr]

\* ResponseForQuery for AAAA or ANY.
AskName(l) ==
    /\ lookup[l].at = "rest"
    /\ \E n \in Names : lookup' = [lookup EXCEPT ![l] = [at |-> "start", name |-> n, addr |-> 0]]
    /\ UNCHANGED <<byName, byAddr, nextID, fakeMu, given, made, forgot>>

\* The look without mu.
FastLook(l) ==
    /\ lookup[l].at = "start"
    /\ IF byName[lookup[l].name] # 0 THEN Place(l, "found", byName[lookup[l].name])
       ELSE Place(l, "locking", 0)
    /\ UNCHANGED <<byName, byAddr, nextID, fakeMu, given, made, forgot>>

\* The address answered is remembered by address as well.
PutAddr(l) == byAddr' = [byAddr EXCEPT ![lookup[l].addr] = lookup[l].name]
Give(l) ==
    /\ lookup' = [lookup EXCEPT ![l] = AtRest]
    /\ given' = given \cup {<<lookup[l].name, lookup[l].addr>>}

AnswerFound(l) ==
    /\ lookup[l].at = "found" /\ PutAddr(l) /\ Give(l)
    /\ UNCHANGED <<byName, nextID, fakeMu, made, forgot>>

LockFake(l) ==
    /\ lookup[l].at = "locking" /\ ~fakeMu /\ fakeMu' = TRUE
    /\ Place(l, "inside", 0)
    /\ UNCHANGED <<byName, byAddr, nextID, given, made, forgot>>

\* Mutant: no second look with mu.
SecondLookSkipped(l) ==
    /\ lookup[l].at = "inside" /\ Place(l, "making", 0)
    /\ UNCHANGED <<byName, byAddr, nextID, fakeMu, given, made, forgot>>

SecondLook(l) ==
    /\ lookup[l].at = "inside"
    /\ IF byName[lookup[l].name] # 0 THEN Place(l, "named", byName[lookup[l].name])
       ELSE Place(l, "making", 0)
    /\ UNCHANGED <<byName, byAddr, nextID, fakeMu, given, made, forgot>>

\* Mutant: addresses are numbered by how many are in use.
NextByCount == 1 + Cardinality({n \in Names : byName[n] # 0})

\* nextID wraps and skips 0; the name is put first.
NextID == IF (nextID + 1) % IDSpace = 0 THEN 1 ELSE nextID + 1

MakeAddr(l) ==
    /\ lookup[l].at = "making"
    /\ nextID < MaxMade
    /\ nextID' = NextID /\ Place(l, "named", NextID)
    /\ byName' = [byName EXCEPT ![lookup[l].name] = NextID]
    /\ made' = [made EXCEPT ![lookup[l].name] = @ + 1]
    /\ UNCHANGED <<byAddr, fakeMu, given, forgot>>

AnswerNamed(l) ==
    /\ lookup[l].at = "named" /\ PutAddr(l) /\ Give(l) /\ fakeMu' = FALSE
    /\ UNCHANGED <<byName, nextID, made, forgot>>

\* Either cache may lose an entry, by age or for another.  A Lookup of an
\* address renews only the one by address.
FakeForgets ==
    /\ \/ \E n \in Names :
             /\ byName[n] # 0 /\ byName' = [byName EXCEPT ![n] = 0] /\ UNCHANGED byAddr
             /\ forgot' = [forgot EXCEPT ![n] = @ + 1]
       \/ \E a \in Addrs :
             /\ byAddr[a] # "none" /\ byAddr' = [byAddr EXCEPT ![a] = "none"]
             /\ UNCHANGED <<byName, forgot>>
    /\ UNCHANGED <<nextID, fakeMu, lookup, given, made>>

FakeStep(l) ==
    \/ AskName(l) \/ FastLook(l) \/ AnswerFound(l) \/ LockFake(l) \/ SecondLook(l)
    \/ MakeAddr(l) \/ AnswerNamed(l)

FakeNext == FakeForgets \/ \E l \in Lookups : FakeStep(l)

FakeSpec == FakeInit /\ [][FakeNext]_fakeVars

-----------------------------------------------------------------------------
(* Properties, while nextID has not wrapped *)

\* An address that was answered for a name is restored to that name or to
\* nothing, never to another: "A later TCP request to that IPv6 address is
\* restored to the original domain before ACL evaluation." (README.md:232)
RestoredToOwnName == \A g \in given : byAddr[g[2]] \in {g[1], "none"}

\* A name gets another address only after its first was forgotten: lookups of
\* one name that overlap agree.
NameKeepsAddress == \A n \in Names : made[n] <= 1 + forgot[n]

\* Names and addresses correspond one to one for as long as both are
\* remembered, although the two caches forget independently.
NamesAndAddressesAgree == RestoredToOwnName /\ NameKeepsAddress
=============================================================================
