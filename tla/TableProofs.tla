------------------------------ MODULE TableProofs ------------------------------
(***************************************************************************)
(* The tables of server and client, for every size and every number of      *)
(* goroutines: the access-list cache (AclCache), the names and made-up      *)
(* addresses of FakeDNS, the timers that drop an idle mux (MuxIdle), and    *)
(* the fragments of a datagram that the SOCKS5 relay collects               *)
(* (UDPFragments).                                                          *)
(***************************************************************************)
EXTENDS AclCache, FakeDNS, MuxIdle, UDPFragments, TLAPS

-----------------------------------------------------------------------------
(* AclCache *)

\* A goroutine, or an entry, with a generation, was behind the lists of that
\* generation only before the generation was raised: every decision is taken
\* from lists that are at least as new as its key.
AclInv ==
    /\ lists \in Nat /\ generation \in Nat /\ generation <= lists
    /\ aclCache \subseteq [gen : Nat, list : Nat]
    /\ decider \in [Deciders -> [at : DeciderPlace, gen : Nat, list : Nat]]
    /\ \A e \in aclCache : e.list >= e.gen
    /\ \A d \in Deciders :
          /\ decider[d].gen <= generation
          /\ decider[d].at \in {"computed", "decided"} => decider[d].list >= decider[d].gen

\* What put leaves in the cache was there, or is the entry put.
LEMMA PutAdds ==
    ASSUME NEW cache, NEW g, NEW l, NEW next \in Put(cache, g, l)
    PROVE  next \subseteq cache \cup {[gen |-> g, list |-> l]}
  BY Zenon DEF Put

\* Every step of a refresh or a decision keeps the invariant.
LEMMA AclStepInv == AclInv /\ [AclNext]_aclVars => AclInv'
  <1> SUFFICES ASSUME AclInv, [AclNext]_aclVars PROVE AclInv'
    BY Zenon
  <1> USE DEF AclInv
  <1>1. CASE SwapLists
    BY <1>1 DEF SwapLists
  <1>2. CASE RaiseGeneration
    <2>1. generation' = lists /\ UNCHANGED <<lists, aclCache, decider>>
      BY <1>2, Zenon DEF RaiseGeneration
    <2>2. \A d \in Deciders : decider[d].gen \in Nat
      BY Zenon
    <2> QED
      BY <2>1, <2>2
  <1>3. CASE Forget
    BY <1>3, Zenon DEF Forget
  <1>4. ASSUME NEW d \in Deciders, MakeKey(d) PROVE AclInv'
    BY <1>4 DEF MakeKey, DeciderPlace
  <1>5. ASSUME NEW d \in Deciders, Again(d) PROVE AclInv'
    BY <1>5 DEF Again, DeciderPlace
  <1>6. ASSUME NEW d \in Deciders, NEW l \in Nat, l >= decider[d].gen, NEW p \in {"computed", "decided"},
               decider' = [decider EXCEPT ![d].at = p, ![d].list = l]
        PROVE  /\ decider' \in [Deciders -> [at : DeciderPlace, gen : Nat, list : Nat]]
               /\ \A x \in Deciders :
                     /\ decider'[x].gen <= generation
                     /\ decider'[x].at \in {"computed", "decided"} => decider'[x].list >= decider'[x].gen
    <2> DEFINE k == [decider EXCEPT ![d].at = p]
    <2>1. /\ k \in [Deciders -> [at : DeciderPlace, gen : Nat, list : Nat]]
          /\ \A x \in Deciders : k[x].gen = decider[x].gen /\ (x # d => k[x] = decider[x])
      BY Zenon DEF DeciderPlace
    <2>2. decider' = [k EXCEPT ![d].list = l]
      BY <1>6, Zenon
    <2> HIDE DEF k
    <2>3. /\ decider' \in [Deciders -> [at : DeciderPlace, gen : Nat, list : Nat]]
          /\ \A x \in Deciders : decider'[x].gen = decider[x].gen /\ (x # d => decider'[x] = decider[x])
          /\ decider'[d].list = l
      BY <2>1, <2>2, Zenon
    <2> QED
      BY <1>6, <2>3, Zenon
  <1>7. ASSUME NEW d \in Deciders, Hit(d) PROVE AclInv'
    <2>1. PICK e \in aclCache : /\ e.gen = decider[d].gen
                                /\ decider' = [decider EXCEPT ![d].at = "decided", ![d].list = e.list]
      BY <1>7, Zenon DEF Hit
    <2>2. e.list \in Nat /\ e.list >= decider[d].gen
      BY <2>1, Zenon
    <2> QED
      BY <1>6, <1>7, <2>1, <2>2, ZenonT(40) DEF Hit
  <1>8. ASSUME NEW d \in Deciders, Miss(d) PROVE AclInv'
    <2>1. lists >= decider[d].gen /\ decider[d].gen \in Nat
      OBVIOUS
    <2> QED
      BY <1>6, <1>8, <2>1, Zenon DEF Miss
  <1>9. ASSUME NEW d \in Deciders, Store(d) PROVE AclInv'
    <2>1. /\ decider[d].at = "computed" /\ aclCache' \in Put(aclCache, decider[d].gen, decider[d].list)
          /\ decider' = [decider EXCEPT ![d].at = "decided"] /\ UNCHANGED <<lists, generation>>
      BY <1>9, Zenon DEF Store
    <2>2. aclCache' \subseteq aclCache \cup {[gen |-> decider[d].gen, list |-> decider[d].list]}
      BY <2>1, PutAdds, Zenon
    <2>3. decider[d].list >= decider[d].gen /\ decider[d].list \in Nat /\ decider[d].gen \in Nat
      BY <2>1, Zenon
    <2>4. aclCache' \subseteq [gen : Nat, list : Nat] /\ \A e \in aclCache' : e.list >= e.gen
      BY <2>2, <2>3
    <2> QED
      BY <2>1, <2>4, Zenon DEF DeciderPlace
  <1>10. CASE UNCHANGED aclVars
    BY <1>10, Zenon DEF aclVars
  <1> QED
    BY <1>1, <1>2, <1>3, <1>4, <1>5, <1>7, <1>8, <1>9, <1>10, Zenon DEF AclNext

\* With any number of goroutines, refreshes and cache entries, a decision asked
\* for after a refresh is taken from the lists of that refresh or newer ones.
\* (decideACL and setUsers of cmd/server/main.go)
THEOREM RefreshHolds == AclSpec => []RefreshedListsDecide
  <1>1. AclInit => AclInv
    BY DEF AclInit, AclInv, DeciderPlace
  <1>2. AclInv => RefreshedListsDecide
    BY Zenon DEF AclInv, RefreshedListsDecide
  <1> QED
    BY <1>1, <1>2, AclStepInv, PTL DEF AclSpec

-----------------------------------------------------------------------------
(* FakeDNS *)

Locked == {"inside", "making", "named"}
Carrying == {"found", "named"}

\* Each address was made for one name, o[address]: whoever remembers, carries or
\* has answered an address has it with that name.
OwnedBy(o) ==
    /\ \A n \in Names : byName[n] # 0 => byName[n] <= nextID /\ o[byName[n]] = n
    /\ \A a \in Addrs : byAddr[a] # "none" => a <= nextID /\ o[a] = byAddr[a]
    /\ \A l \in Lookups : lookup[l].at \in Carrying =>
          lookup[l].addr \in 1..nextID /\ o[lookup[l].addr] = lookup[l].name
    /\ \A g \in given : g[2] \in 1..nextID /\ o[g[2]] = g[1]

\* mu lets one lookup make an address, and only for a name that has none.
MuExcludes ==
    /\ \A l \in Lookups : lookup[l].at \in Locked => fakeMu
    /\ \A l, k \in Lookups : lookup[l].at \in Locked /\ lookup[k].at \in Locked => l = k
    /\ \A l \in Lookups : lookup[l].at = "making" => byName[lookup[l].name] = 0

\* Every address made was forgotten, but for the one that is remembered.
MadeForgot ==
    /\ made \in [Names -> Nat] /\ forgot \in [Names -> Nat]
    /\ \A n \in Names : made[n] = forgot[n] + (IF byName[n] = 0 THEN 0 ELSE 1)

FakeInv ==
    /\ FakeTypeOK /\ MuExcludes /\ MadeForgot
    /\ \A l \in Lookups : lookup[l].at # "rest" => lookup[l].name \in Names
    /\ \E o \in [Addrs -> Names \cup {"none"}] : OwnedBy(o)

\* The numbers handed out so far have not come round to the first.
LEMMA FakeNumbers ==
    /\ IDSpace \in Nat /\ IDSpace > 1 /\ MaxMade \in Nat /\ MaxMade <= IDSpace - 1
    /\ \A i \in 0..(IDSpace - 1) : i < MaxMade =>
          (i + 1) % IDSpace # 0 /\ i + 1 \in Addrs
  BY FakeConstants DEF Addrs

\* What a lookup that moves on becomes.
LEMMA PlaceMoves ==
    ASSUME FakeTypeOK, NEW l \in Lookups, NEW p, NEW b, Place(l, p, b)
    PROVE  lookup' = [lookup EXCEPT ![l] = [at |-> p, name |-> lookup[l].name, addr |-> b]]
  <1>1. lookup[l] = [at |-> lookup[l].at, name |-> lookup[l].name, addr |-> lookup[l].addr]
    BY Zenon DEF FakeTypeOK
  <1> DEFINE k == [lookup EXCEPT ![l].at = p]
  <1>2. /\ k[l] = [lookup[l] EXCEPT !.at = p] /\ DOMAIN k = Lookups
        /\ \A x \in Lookups : x # l => k[x] = lookup[x]
    BY Zenon DEF FakeTypeOK
  <1>3. lookup' = [k EXCEPT ![l].addr = b]
    BY Zenon DEF Place
  <1> HIDE DEF k
  <1>4. k[l] = [at |-> p, name |-> lookup[l].name, addr |-> lookup[l].addr]
    BY <1>1, <1>2, Zenon
  <1>5. lookup'[l] = [at |-> p, name |-> lookup[l].name, addr |-> b]
        /\ \A x \in Lookups : x # l => lookup'[x] = lookup[x]
    BY <1>2, <1>3, <1>4, Zenon
  <1>6. DOMAIN lookup' = Lookups /\ lookup' = [x \in Lookups |-> lookup'[x]]
    BY <1>2, <1>3, Zenon
  <1> QED
    BY <1>5, <1>6, Zenon DEF FakeTypeOK

\* Every step of a lookup or a sweep keeps the invariant.
LEMMA FakeStepInv == FakeInv /\ [FakeNext]_fakeVars => FakeInv'
  <1> SUFFICES ASSUME FakeInv, [FakeNext]_fakeVars PROVE FakeInv'
    BY Zenon
  <1> USE FakeNumbers DEF FakeTypeOK, Locked, Carrying, Addrs
  <1>0. /\ FakeTypeOK /\ MuExcludes /\ MadeForgot
        /\ \A l \in Lookups : lookup[l].at # "rest" => lookup[l].name \in Names
    BY Zenon DEF FakeInv
  <1>o. PICK o \in [Addrs -> Names \cup {"none"}] : OwnedBy(o)
    BY Zenon DEF FakeInv
  <1>q. ASSUME NEW q \in [Addrs -> Names \cup {"none"}], OwnedBy(q)',
               FakeTypeOK' /\ MuExcludes' /\ MadeForgot',
               \A l \in Lookups : lookup'[l].at # "rest" => lookup'[l].name \in Names
        PROVE  FakeInv'
    BY <1>q, Zenon DEF FakeInv
  <1>1. ASSUME NEW l \in Lookups, AskName(l) PROVE FakeInv'
    <2>1. PICK n \in Names : lookup' = [lookup EXCEPT ![l] = [at |-> "start", name |-> n, addr |-> 0]]
      BY <1>1, Zenon DEF AskName
    <2>2. UNCHANGED <<byName, byAddr, nextID, fakeMu, given, made, forgot>>
      BY <1>1, Zenon DEF AskName
    <2>3. FakeTypeOK'
      BY <1>0, <2>1, <2>2
    <2>4. MuExcludes' /\ MadeForgot'
      BY <1>0, <2>1, <2>2, Zenon DEF MuExcludes, MadeForgot
    <2>5. OwnedBy(o)'
      BY <1>0, <1>o, <2>1, <2>2 DEF OwnedBy
    <2> QED
      BY <1>0, <1>q, <2>1, <2>3, <2>4, <2>5, Zenon
  <1>2. ASSUME NEW l \in Lookups, FastLook(l) \/ SecondLook(l) PROVE FakeInv'
    <2>1. /\ lookup[l].at \in {"start", "inside"} /\ lookup[l].name \in Names
          /\ UNCHANGED <<byName, byAddr, nextID, fakeMu, given, made, forgot>>
      BY <1>0, <1>2, Zenon DEF FastLook, SecondLook
    <2>2. PICK p \in {"found", "locking", "named", "making"}, b \in 0..(IDSpace - 1) :
            /\ lookup' = [lookup EXCEPT ![l] = [at |-> p, name |-> lookup[l].name, addr |-> b]]
            /\ p \in {"found", "locking"} <=> lookup[l].at = "start"
            /\ p \in {"found", "named"} => byName[lookup[l].name] = b /\ b # 0
            /\ p = "making" => byName[lookup[l].name] = 0
      <3>1. /\ lookup[l] = [at |-> lookup[l].at, name |-> lookup[l].name, addr |-> lookup[l].addr]
            /\ byName[lookup[l].name] \in 0..(IDSpace - 1) /\ 0 \in 0..(IDSpace - 1)
        BY <1>0, <2>1
      <3> QED
        BY <1>2, <2>1, <3>1 DEF FastLook, SecondLook, Place
    <2>3. FakeTypeOK'
      BY <1>0, <2>1, <2>2, Zenon
    <2>4. MuExcludes' /\ MadeForgot'
      BY <1>0, <2>1, <2>2, SMTT(30) DEF MuExcludes, MadeForgot
    <2>5. OwnedBy(o)'
      BY <1>0, <1>o, <2>1, <2>2 DEF OwnedBy
    <2> QED
      BY <1>0, <1>q, <2>1, <2>2, <2>3, <2>4, <2>5, ZenonT(40)
  <1>3. ASSUME NEW l \in Lookups, AnswerFound(l) \/ AnswerNamed(l) PROVE FakeInv'
    <2> DEFINE n == lookup[l].name
               a == lookup[l].addr
    <2>1. /\ lookup[l].at \in Carrying /\ n \in Names /\ a \in 1..nextID /\ a \in Addrs /\ o[a] = n
          /\ UNCHANGED <<byName, nextID, made, forgot>>
          /\ byAddr' = [byAddr EXCEPT ![a] = n] /\ lookup' = [lookup EXCEPT ![l] = AtRest]
          /\ given' = given \cup {<<n, a>>}
      BY <1>0, <1>o, <1>3 DEF AnswerFound, AnswerNamed, PutAddr, Give, OwnedBy
    <2>2. fakeMu' \in BOOLEAN /\ (\A k \in Lookups : k # l /\ lookup[k].at \in Locked => fakeMu')
      BY <1>0, <1>3, Zenon DEF AnswerFound, AnswerNamed, MuExcludes
    <2> HIDE DEF n, a
    <2>3. FakeTypeOK'
      BY <1>0, <2>1, <2>2, SMTT(30) DEF AtRest
    <2>4. MuExcludes' /\ MadeForgot'
      BY <1>0, <2>1, <2>2, SMTT(30) DEF MuExcludes, MadeForgot, AtRest
    <2>5. OwnedBy(o)'
      BY <1>0, <1>o, <2>1, <2>2 DEF OwnedBy, AtRest
    <2> QED
      BY <1>0, <1>q, <2>1, <2>2, <2>3, <2>4, <2>5, ZenonT(40) DEF AtRest
  <1>4. ASSUME NEW l \in Lookups, LockFake(l) PROVE FakeInv'
    <2>1. /\ lookup[l].at = "locking" /\ lookup[l].name \in Names /\ fakeMu = FALSE /\ fakeMu' = TRUE
          /\ UNCHANGED <<byName, byAddr, nextID, given, made, forgot>>
      BY <1>0, <1>4, Zenon DEF LockFake
    <2>2. lookup' = [lookup EXCEPT ![l] = [at |-> "inside", name |-> lookup[l].name, addr |-> 0]]
      BY <1>0, <1>4, PlaceMoves, Zenon DEF LockFake
    <2>3. FakeTypeOK'
      BY <1>0, <2>1, <2>2
    <2>4. MuExcludes' /\ MadeForgot'
      BY <1>0, <2>1, <2>2, SMTT(30) DEF MuExcludes, MadeForgot
    <2>5. OwnedBy(o)'
      BY <1>0, <1>o, <2>1, <2>2, Zenon DEF OwnedBy
    <2> QED
      BY <1>0, <1>q, <2>1, <2>2, <2>3, <2>4, <2>5, ZenonT(40)
  <1>5. ASSUME NEW l \in Lookups, MakeAddr(l) PROVE FakeInv'
    <2> DEFINE n == lookup[l].name
               i == nextID + 1
    <2>0. NextID = i /\ i \in Addrs /\ nextID < i
      <3>1. nextID \in 0..(IDSpace - 1) /\ nextID < MaxMade
        BY <1>0, <1>5, Zenon DEF MakeAddr
      <3> QED
        BY <3>1 DEF NextID
    <2>1. /\ lookup[l].at = "making" /\ n \in Names /\ byName[n] = 0 /\ i \in Addrs /\ nextID < i
          /\ nextID' = i /\ byName' = [byName EXCEPT ![n] = i]
          /\ made' = [made EXCEPT ![n] = made[n] + 1]
          /\ UNCHANGED <<byAddr, fakeMu, given, forgot>>
      BY <1>0, <1>5, <2>0, Zenon DEF MakeAddr, MuExcludes
    <2>2. lookup' = [lookup EXCEPT ![l] = [at |-> "named", name |-> n, addr |-> i]]
      <3>1. Place(l, "named", i)
        BY <1>5, <2>0, Zenon DEF MakeAddr
      <3> QED
        BY <1>0, <3>1, PlaceMoves, Zenon
    <2>3. PICK q \in [Addrs -> Names \cup {"none"}] : q[i] = n /\ \A a \in 1..nextID : q[a] = o[a]
      <3>1. /\ [o EXCEPT ![i] = n] \in [Addrs -> Names \cup {"none"}]
            /\ [o EXCEPT ![i] = n][i] = n /\ \A a \in 1..nextID : [o EXCEPT ![i] = n][a] = o[a]
        BY <1>0, <2>1
      <3> QED
        BY <3>1, Zenon
    <2> HIDE DEF n, i
    <2>4. FakeTypeOK'
      BY <1>0, <2>1, <2>2, SMTT(30)
    <2>5. MuExcludes'
      BY <1>0, <2>1, <2>2, Zenon DEF MuExcludes
    <2>6. MadeForgot'
      BY <1>0, <2>1, SMTT(30) DEF MadeForgot
    <2>7. OwnedBy(q)'
      <3>0. nextID \in Nat /\ nextID' = i /\ i \in Nat /\ nextID < i /\ 1..nextID \subseteq 1..i /\ i \in 1..i
        BY <1>0, <2>1
      <3>1. \A x \in Names : byName'[x] # 0 => byName'[x] <= nextID' /\ q[byName'[x]] = x
        BY <1>0, <1>o, <2>1, <2>3, <3>0, SMTT(30) DEF OwnedBy
      <3>2. \A a \in Addrs : byAddr'[a] # "none" => a <= nextID' /\ q[a] = byAddr'[a]
        BY <1>0, <1>o, <2>1, <2>3, <3>0, SMTT(30) DEF OwnedBy
      <3>3. \A k \in Lookups : lookup'[k].at \in Carrying =>
               lookup'[k].addr \in 1..nextID' /\ q[lookup'[k].addr] = lookup'[k].name
        BY <1>0, <1>o, <2>2, <2>3, <3>0, Zenon DEF OwnedBy
      <3>4. \A g \in given' : g[2] \in 1..nextID' /\ q[g[2]] = g[1]
        BY <1>o, <2>1, <2>3, <3>0, SMTT(30) DEF OwnedBy
      <3> QED
        BY <3>1, <3>2, <3>3, <3>4, Zenon DEF OwnedBy
    <2>8. \A k \in Lookups : lookup'[k].at # "rest" => lookup'[k].name \in Names
      BY <1>0, <2>1, <2>2, Zenon
    <2> QED
      BY <1>q, <2>3, <2>4, <2>5, <2>6, <2>7, <2>8, Zenon
  <1>6. CASE FakeForgets
    <2>1. UNCHANGED <<nextID, fakeMu, lookup, given, made>>
      BY <1>6, Zenon DEF FakeForgets
    <2>2. ASSUME NEW n \in Names, byName[n] # 0, byName' = [byName EXCEPT ![n] = 0], UNCHANGED byAddr,
                 forgot' = [forgot EXCEPT ![n] = @ + 1]
          PROVE  FakeInv'
      <3>1. FakeTypeOK' /\ MuExcludes' /\ MadeForgot'
        BY <1>0, <2>1, <2>2 DEF MuExcludes, MadeForgot
      <3>2. OwnedBy(o)'
        BY <1>0, <1>o, <2>1, <2>2, Zenon DEF OwnedBy
      <3> QED
        BY <1>0, <1>q, <2>1, <3>1, <3>2, Zenon
    <2>3. ASSUME NEW a \in Addrs, byAddr' = [byAddr EXCEPT ![a] = "none"], UNCHANGED <<byName, forgot>>
          PROVE  FakeInv'
      <3>1. FakeTypeOK' /\ MuExcludes' /\ MadeForgot'
        BY <1>0, <2>1, <2>3, Zenon DEF MuExcludes, MadeForgot
      <3>2. OwnedBy(o)'
        BY <1>0, <1>o, <2>1, <2>3, Zenon DEF OwnedBy
      <3> QED
        BY <1>0, <1>q, <2>1, <3>1, <3>2, ZenonT(40)
    <2> QED
      BY <1>6, <2>2, <2>3, Zenon DEF FakeForgets
  <1>7. CASE UNCHANGED fakeVars
    <2>1. OwnedBy(o)' /\ FakeTypeOK' /\ MuExcludes' /\ MadeForgot'
      BY <1>0, <1>o, <1>7, Zenon DEF fakeVars, OwnedBy, MuExcludes, MadeForgot
    <2> QED
      BY <1>0, <1>7, <1>q, <2>1, Zenon DEF fakeVars
  <1> QED
    BY <1>1, <1>2, <1>3, <1>4, <1>5, <1>6, <1>7, Zenon DEF FakeNext, FakeStep

\* For any lookups and names, and any size of the ID space that is not used up:
\* an address is restored to the name it was answered for or to nothing, and a
\* name has one address until it is forgotten.  (cmd/server/fake_dns.go)
THEOREM FakeNamesAgree == FakeSpec => []NamesAndAddressesAgree
  <1>1. FakeInit => FakeInv
    <2> SUFFICES ASSUME FakeInit PROVE FakeInv
      BY Zenon
    <2>1. FakeTypeOK /\ MuExcludes /\ MadeForgot
      <3>1. FakeTypeOK
        <4>1. 0 \in 0..(IDSpace - 1)
          BY FakeNumbers
        <4>2. AtRest \in [at : {"rest", "start", "found", "locking", "inside", "making", "named"},
                           name : Names \cup {"none"}, addr : 0..(IDSpace - 1)]
          BY <4>1, Zenon DEF AtRest
        <4> QED
          BY <4>1, <4>2, Zenon DEF FakeInit, FakeTypeOK
      <3>2. MuExcludes
        BY Zenon DEF FakeInit, MuExcludes, AtRest, Locked
      <3> QED
        BY <3>1, <3>2 DEF FakeInit, MadeForgot
    <2>2. [a \in Addrs |-> "none"] \in [Addrs -> Names \cup {"none"}]
      BY Zenon
    <2>3. OwnedBy([a \in Addrs |-> "none"])
      BY Zenon DEF FakeInit, OwnedBy, AtRest, Carrying
    <2> QED
      BY <2>1, <2>2, <2>3, Zenon DEF FakeInit, FakeInv, AtRest
  <1>2. FakeInv => NamesAndAddressesAgree
    <2> SUFFICES ASSUME FakeInv PROVE RestoredToOwnName /\ NameKeepsAddress
      BY Zenon DEF NamesAndAddressesAgree
    <2>1. PICK o \in [Addrs -> Names \cup {"none"}] : OwnedBy(o)
      BY Zenon DEF FakeInv
    <2>2. RestoredToOwnName
      BY <2>1, FakeNumbers DEF OwnedBy, RestoredToOwnName, FakeInv, FakeTypeOK, Addrs
    <2>3. NameKeepsAddress
      BY DEF FakeInv, MadeForgot, NameKeepsAddress
    <2> QED
      BY <2>2, <2>3, Zenon
  <1> QED
    BY <1>1, <1>2, FakeStepInv, PTL DEF FakeSpec

-----------------------------------------------------------------------------
(* MuxIdle *)

IdleInv ==
    /\ quiet \in [MuxEnd -> Nat] /\ unheard \in [MuxEnd -> Nat] /\ dataAge \in [MuxEnd -> Nat]
    /\ silent \in [MuxEnd -> Nat] /\ realAge \in Nat
    /\ gotData \in [MuxEnd -> BOOLEAN] /\ flight \in [MuxEnd -> SUBSET Beat]
    /\ cause \in [MuxEnd -> {"open", "idle", "nodata", "peer"}]
    \* time does not pass over an end whose data timer has run out
    /\ realAge <= NoData + 1
    /\ \A e \in MuxEnd :
          \* an end has not heard of data that was not sent
          /\ realAge <= dataAge[e]
          \* data and refreshes arrive before time passes
          /\ flight[e] \cap {"data", "refresh"} # {} => realAge = 0
          /\ "keep" \in flight[e] => gotData[e]
          \* before the first data nothing moves a read deadline
          /\ (\A d \in MuxEnd : ~gotData[d]) => realAge <= unheard[e]
          \* the deadline of an end counts from the last packet of its peer
          /\ IsOpen(e) => silent[Other(e)] >= unheard[e] \/ flight[Other(e)] # {}
          /\ cause[e] = "idle" => silent[Other(e)] >= SocketIdle \/ flight[Other(e)] # {}

\* A mux has two ends.
LEMMA TwoEnds ==
    /\ MuxEnd = {"dial", "accept"} /\ Other("dial") = "accept" /\ Other("accept") = "dial"
    /\ \A e \in MuxEnd : Other(e) \in MuxEnd /\ Other(e) # e /\ Other(Other(e)) = e
    /\ \A e, d \in MuxEnd : d # e => d = Other(e)
  <1>1. MuxEnd = {"dial", "accept"} /\ Other("dial") = "accept" /\ Other("accept") = "dial"
    BY Zenon DEF MuxEnd, Other
  <1> QED
    BY <1>1, Zenon

\* Every step of either end keeps the invariant.
LEMMA IdleStepInv == IdleInv /\ [IdleNext]_idleVars => IdleInv'
  <1> SUFFICES ASSUME IdleInv, [IdleNext]_idleVars PROVE IdleInv'
    BY Zenon
  <1>c. /\ SocketIdle \in Nat /\ NoData \in Nat /\ Horizon \in Nat /\ SocketIdle < NoData
        /\ NoData + 1 < Horizon
    BY TimerBounds, Zenon
  <1>1. ASSUME NEW e \in MuxEnd, NEW m \in Beat, Sends(e, m), m = "keep" => gotData[e],
               UNCHANGED <<cause, unheard, gotData>>
        PROVE  IdleInv'
    <2>1. /\ flight' = [flight EXCEPT ![e] = flight[e] \cup {m}] /\ silent' = [silent EXCEPT ![e] = 0]
          /\ quiet' = [quiet EXCEPT ![e] = 0]
          /\ dataAge' = IF m = "data" THEN [dataAge EXCEPT ![e] = 0] ELSE dataAge
          /\ realAge' = IF m = "keep" THEN realAge ELSE 0
      BY <1>1, Zenon DEF Sends, UpdatePacketTime
    <2> QED
      BY <1>1, <1>c, <2>1, TwoEnds DEF IdleInv, Beat, IsOpen
  <1>2. ASSUME NEW e \in MuxEnd, SendData(e) PROVE IdleInv'
    BY <1>1, <1>2, Zenon DEF SendData, Beat
  <1>3. ASSUME NEW e \in MuxEnd, SendKeepAlive(e) PROVE IdleInv'
    BY <1>1, <1>3, Zenon DEF SendKeepAlive, Beat
  <1>4. ASSUME NEW e \in MuxEnd, NEW m \in Beat, Receive(e, m) PROVE IdleInv'
    <2>1. /\ IsOpen(e) /\ m \in flight[Other(e)]
          /\ flight' = [flight EXCEPT ![Other(e)] = flight[Other(e)] \ {m}]
          /\ unheard' = [unheard EXCEPT ![e] = 0] /\ quiet' = [quiet EXCEPT ![e] = 0]
          /\ UNCHANGED <<cause, silent, realAge>>
          /\ m = "keep" => UNCHANGED <<dataAge, gotData>>
          /\ m # "keep" => /\ dataAge' = [dataAge EXCEPT ![e] = 0]
                           /\ gotData' = [gotData EXCEPT ![e] = TRUE]
      BY <1>4, Zenon DEF Receive, UpdatePacketTime
    <2>2. CASE m = "keep"
      BY <1>4, <1>c, <2>1, <2>2, TwoEnds, SMTT(30) DEF IdleInv, Beat, IsOpen
    <2>3. CASE m # "keep"
      <3>1. realAge = 0
        BY <1>4, <2>1, <2>3, TwoEnds, Zenon DEF IdleInv, Beat
      <3> QED
        <4>1. /\ gotData' \in [MuxEnd -> BOOLEAN] /\ dataAge' \in [MuxEnd -> Nat]
              /\ unheard' \in [MuxEnd -> Nat] /\ quiet' \in [MuxEnd -> Nat]
              /\ flight' \in [MuxEnd -> SUBSET Beat]
          <5>1. gotData' \in [MuxEnd -> BOOLEAN]
            BY <2>1, <2>3, Zenon DEF IdleInv
          <5>2. dataAge' \in [MuxEnd -> Nat] /\ unheard' \in [MuxEnd -> Nat] /\ quiet' \in [MuxEnd -> Nat]
            BY <2>1, <2>3 DEF IdleInv
          <5>3. flight[Other(e)] \ {m} \in SUBSET Beat /\ flight \in [MuxEnd -> SUBSET Beat]
            BY <1>4, TwoEnds, Zenon DEF IdleInv
          <5>4. flight' \in [MuxEnd -> SUBSET Beat]
            BY <2>1, <5>3, Zenon
          <5> QED
            BY <5>1, <5>2, <5>4, Zenon
        <4>2. \A d \in MuxEnd : gotData[d] => gotData'[d]
          BY <1>4, <2>1, <2>3, Zenon DEF IdleInv
        <4>3. ASSUME NEW d \in MuxEnd
              PROVE  /\ flight'[d] \subseteq flight[d]
                     /\ d = e => unheard'[d] = 0
                     /\ d # e => flight'[Other(d)] = flight[Other(d)] /\ unheard'[d] = unheard[d]
          BY <1>4, <2>1, TwoEnds, Zenon DEF IdleInv
        <4> QED
          BY <1>4, <1>c, <2>1, <3>1, <4>1, <4>2, <4>3, TwoEnds, SMTT(30) DEF IdleInv, IsOpen
    <2> QED
      BY <2>2, <2>3, Zenon
  <1>5. ASSUME NEW e \in MuxEnd, CloseNoData(e) \/ ClosePeer(e) PROVE IdleInv'
    BY <1>5 DEF CloseNoData, ClosePeer, CloseFor, IdleInv, IsOpen
  <1>6. ASSUME NEW e \in MuxEnd, CloseIdle(e) PROVE IdleInv'
    BY <1>6, <1>c, TwoEnds DEF CloseIdle, ReadDeadline, CloseFor, IdleInv, IsOpen
  <1>7. CASE SetRefresh
    BY <1>7, Zenon DEF SetRefresh, IdleInv, IsOpen
  <1>8. CASE Tick
    <2>1. \A e \in MuxEnd : IsOpen(e) /\ flight[e] = {} /\ ~NoDataDue(e) /\ ~ReadDeadline(e)
      BY <1>8, TwoEnds DEF Tick
    <2>2. \A a \in Nat : Aged(a) \in Nat /\ Aged(a) >= a /\ Aged(a) <= a + 1
      BY <1>c DEF Aged
    <2>3. \A a, b \in Nat : a <= b => Aged(a) <= Aged(b)
      BY <1>c DEF Aged
    <2>4. realAge <= NoData
      <3>1. PICK e \in MuxEnd : TRUE
        BY TwoEnds, Zenon
      <3>2. CASE \E d \in MuxEnd : gotData[d]
        BY <2>1, <3>2, <1>c DEF NoDataDue, IdleInv
      <3>3. CASE \A d \in MuxEnd : ~gotData[d]
        BY <2>1, <3>1, <3>3, <1>c, SMTT(20) DEF ReadDeadline, IdleInv
      <3> QED
        BY <3>2, <3>3, Zenon
    <2>5. /\ quiet' = [e \in MuxEnd |-> Aged(quiet[e])]
          /\ unheard' = [e \in MuxEnd |-> Aged(unheard[e])]
          /\ dataAge' = [e \in MuxEnd |-> Aged(dataAge[e])]
          /\ silent' = [e \in MuxEnd |-> Aged(silent[e])]
          /\ realAge' = Aged(realAge)
          /\ UNCHANGED <<cause, interval, gotData, flight, refreshOn, sentData>>
      BY <1>8, Zenon DEF Tick
    <2>6. /\ quiet' \in [MuxEnd -> Nat] /\ unheard' \in [MuxEnd -> Nat] /\ dataAge' \in [MuxEnd -> Nat]
          /\ silent' \in [MuxEnd -> Nat] /\ realAge' \in Nat
          /\ gotData' \in [MuxEnd -> BOOLEAN] /\ flight' \in [MuxEnd -> SUBSET Beat]
          /\ cause' \in [MuxEnd -> {"open", "idle", "nodata", "peer"}]
          /\ realAge' <= NoData + 1
      BY <1>c, <2>2, <2>4, <2>5, SMTT(30) DEF IdleInv
    <2>7. ASSUME NEW e \in MuxEnd
          PROVE  /\ realAge' <= dataAge'[e]
                 /\ (\A d \in MuxEnd : ~gotData[d]) => realAge' <= unheard'[e]
                 /\ silent'[Other(e)] >= unheard'[e]
      BY <2>1, <2>3, <2>5, TwoEnds, Zenon DEF IdleInv
    <2>8. \A e \in MuxEnd : flight'[e] = {} /\ cause'[e] = "open"
      BY <2>1, <2>5, Zenon DEF IsOpen
    <2> QED
      BY <2>5, <2>6, <2>7, <2>8, Zenon DEF IdleInv, IsOpen
  <1>9. CASE UNCHANGED idleVars
    BY <1>9, Zenon DEF idleVars, IdleInv, IsOpen
  <1> QED
    BY <1>2, <1>3, <1>4, <1>5, <1>6, <1>7, <1>8, <1>9, Zenon DEF IdleNext

\* For every choice of intervals in the order of the code's: keep-alives alone
\* do not hold a mux open beyond NoDataTimeout, and an end gives up only a peer
\* that was silent for SocketIdleTimeout.
\* (pkg/mux/keepalive.go, lifecycle.go, read_loop.go)
THEOREM IdleMuxDropped == IdleSpec => []DroppedWhenIdle
  <1>1. IdleInit => IdleInv
    BY TimerBounds, TwoEnds DEF IdleInit, IdleInv, IsOpen
  <1>2. IdleInv => DroppedWhenIdle
    BY TimerBounds, TwoEnds DEF IdleInv, DroppedWhenIdle, SilentMuxIsDropped, DropsOnlySilentPeer
  <1> QED
    BY <1>1, <1>2, IdleStepInv, PTL DEF IdleSpec

-----------------------------------------------------------------------------
(* UDPFragments *)

\* The pushes from the last one backwards.
Back(i) == past[Len(past) + 1 - i]

\* The last k pushes are the fragments 1..k of one sequence that fits; l says
\* whether the last of them is marked as the last.
Run(k, l) ==
    /\ k \in 1..Len(past)
    /\ \A i \in 1..k : Back(i).frag.num = k + 1 - i /\ Back(i).frag.dest = Back(1).frag.dest
    /\ Back(1).frag.last = l /\ \A i \in 2..k : Back(i).frag.last = FALSE
    /\ k * Size(Back(1).frag) <= MaxQueued

\* What is queued is an unfinished sequence, and all of it.
QueueIsRun ==
    highest # 0 => /\ Run(highest, FALSE) /\ highest < MaxFrag /\ dest = Back(1).frag.dest
                   /\ queued = highest * Size(Back(1).frag)

\* An unfinished sequence that is young enough is queued.
RunIsQueued ==
    \A j \in 1..MaxFrag : Run(j, FALSE) /\ j < MaxFrag /\ Back(j).age < Lifetime => highest = j

\* The timer is the one of the queued sequence and as old as its first fragment;
\* a callback waits for that sequence only if it is too old.
TimersMatch ==
    /\ \A g \in running : g <= fragGen
    /\ armed # NoTimer => armed.gen = fragGen /\ highest # 0 /\ fragGen \notin running
    /\ highest # 0 =>
          \/ armed # NoTimer /\ armed.age = Back(highest).age
          \/ armed = NoTimer /\ fragGen \in running /\ Back(highest).age = Lifetime

PushRecord == [frag : Fragment, age : 0..Lifetime]

FragTyped ==
    /\ highest \in 0..MaxFrag /\ queued \in Nat /\ fragGen \in Nat /\ output \in Nat
    /\ armed \in [gen : Nat, age : 0..Lifetime] /\ running \subseteq Nat
    /\ past \in Seq(PushRecord) /\ Len(past) <= MaxFrag

\* What the last Push returned is a whole sequence, and a young one was returned.
WholeRuns ==
    output # 0 =>
        \/ Len(past) > 0 /\ Back(1).frag.num = 0 /\ output = 1 * Size(Back(1).frag)
        \/ \E k \in 1..MaxFrag : Run(k, TRUE) /\ output = k * Size(Back(1).frag)
TimelyRuns ==
    \A k \in 1..MaxFrag :
        Run(k, TRUE) /\ Back(k).age < Lifetime => output = k * Size(Back(1).frag)

FragInv ==
    FragTyped /\ QueueIsRun /\ RunIsQueued /\ TimersMatch /\ WholeRuns /\ TimelyRuns

\* A fragment has one or two units of data, and what k of them have grows by that.
LEMMA Units ==
    ASSUME NEW f, NEW k \in Nat
    PROVE  /\ Size(f) \in 1..2 /\ 1 * Size(f) = Size(f) /\ k * Size(f) \in Nat
           /\ (k + 1) * Size(f) = k * Size(f) + Size(f)
  <1>1. CASE Size(f) = 1
    BY <1>1
  <1>2. CASE Size(f) = 2
    BY <1>2
  <1> QED
    BY <1>1, <1>2, Zenon DEF Size

\* A push, seen from the last one.
LEMMA PushesBack ==
    ASSUME FragTyped, NEW i \in 1..Len(past)
    PROVE  /\ Len(past) + 1 - i \in 1..Len(past) /\ Back(i) \in PushRecord
           /\ Back(i).frag \in Fragment /\ Back(i).age \in 0..Lifetime
  <1>1. past \in Seq(PushRecord) /\ Len(past) + 1 - i \in 1..Len(past)
    BY DEF FragTyped
  <1>2. Back(i) \in PushRecord
    BY <1>1 DEF Back
  <1> QED
    BY <1>1, <1>2, Zenon DEF PushRecord

\* What a run is, in the words of the property.
LEMMA EndsIsRun ==
    ASSUME FragTyped, NEW k \in 1..MaxFrag
    PROVE  EndsWithSequence(k) <=> Run(k, TRUE)
  <1>0. Len(past) \in Nat /\ MaxFrag \in Nat
    BY FragmentConstants DEF FragTyped
  <1> SUFFICES ASSUME k \in 1..Len(past)
               PROVE  EndsWithSequence(k) <=> Run(k, TRUE)
    BY Zenon DEF EndsWithSequence, Run
  <1>1. past[Len(past)] = Back(1)
    BY <1>0 DEF Back
  <1>2. \A i \in 1..k : /\ k + 1 - i \in 1..k /\ k + 1 - (k + 1 - i) = i
                        /\ past[Len(past) - k + i] = Back(k + 1 - i)
                        /\ past[Len(past) - k + (k + 1 - i)] = Back(i)
    BY <1>0 DEF Back
  <1>3. ASSUME EndsWithSequence(k) PROVE Run(k, TRUE)
    <2>1. ASSUME NEW i \in 1..k
          PROVE  /\ Back(i).frag.num = k + 1 - i /\ Back(i).frag.dest = Back(1).frag.dest
                 /\ Back(i).frag.last = (k + 1 - i = k)
      <3>1. PICK j \in 1..k : j = k + 1 - i /\ Back(i) = past[Len(past) - k + j]
        BY <1>2, Zenon
      <3>2. /\ past[Len(past) - k + j].frag.num = j
            /\ past[Len(past) - k + j].frag.dest = past[Len(past)].frag.dest
            /\ past[Len(past) - k + j].frag.last = (j = k)
        BY <1>3, Zenon DEF EndsWithSequence
      <3> QED
        BY <1>1, <3>1, <3>2, Zenon
    <2>2. Back(1).frag.last = TRUE /\ \A i \in 2..k : Back(i).frag.last = FALSE
      <3>1. 1 \in 1..k /\ k + 1 - 1 = k /\ \A i \in 2..k : i \in 1..k /\ k + 1 - i # k
        BY <1>0
      <3> QED
        BY <2>1, <3>1, Zenon
    <2> QED
      BY <1>1, <1>3, <2>1, <2>2, Zenon DEF EndsWithSequence, Run
  <1>4. ASSUME Run(k, TRUE) PROVE EndsWithSequence(k)
    <2>1. ASSUME NEW i \in 1..k
          PROVE  /\ past[Len(past) - k + i].frag.num = i
                 /\ past[Len(past) - k + i].frag.dest = past[Len(past)].frag.dest
                 /\ past[Len(past) - k + i].frag.last = (i = k)
      <3>1. /\ k + 1 - i \in 1..k /\ k + 1 - (k + 1 - i) = i
            /\ past[Len(past) - k + i] = Back(k + 1 - i)
        BY <1>2, Zenon
      <3>2. /\ past[Len(past) - k + i].frag.num = i
            /\ past[Len(past) - k + i].frag.dest = past[Len(past)].frag.dest
        BY <1>1, <1>4, <3>1, Zenon DEF Run
      <3>3. CASE i = k
        <4>1. k + 1 - i = 1
          BY <3>3
        <4> QED
          BY <1>4, <3>1, <3>2, <3>3, <4>1, Zenon DEF Run
      <3>4. CASE i # k
        <4>1. k + 1 - i \in 2..k
          BY <1>0, <3>4
        <4> QED
          BY <1>4, <3>1, <3>2, <3>4, <4>1, Zenon DEF Run
      <3> QED
        BY <3>3, <3>4, Zenon
    <2> QED
      BY <1>1, <1>4, <2>1, Zenon DEF EndsWithSequence, Run
  <1> QED
    BY <1>3, <1>4, Zenon

\* Counting backwards.
LEMMA Mirror ==
    ASSUME NEW n \in Nat, NEW i \in 2..n
    PROVE  /\ n + 1 - i \in 1..n /\ i - 1 \in 1..n
           /\ (n + 1 - i) + 1 = n + 1 - (i - 1) /\ n + 1 - (i - 1) \in 1..n
  OBVIOUS

\* What Push records: the history moves back by one.
LEMMA HistoryMoves ==
    ASSUME FragTyped, NEW f \in Fragment, Recorded(f)
    PROVE  /\ past' \in Seq(PushRecord) /\ Len(past') \in 1..MaxFrag
           /\ Len(past') <= Len(past) + 1 /\ (Len(past') = Len(past) + 1 \/ Len(past') = MaxFrag)
           /\ Back(1)' = [frag |-> f, age |-> 0]
           /\ \A i \in 2..Len(past') : i - 1 \in 1..Len(past) /\ Back(i)' = Back(i - 1)
  <1> DEFINE r == [frag |-> f, age |-> 0]
             now == Append(past, r)
  <1>1. r \in PushRecord
    BY FragmentConstants DEF PushRecord
  <1> HIDE DEF r
  <1>2. /\ past \in Seq(PushRecord) /\ Len(past) \in Nat /\ Len(past) <= MaxFrag
        /\ MaxFrag \in Nat \ {0}
    BY FragmentConstants DEF FragTyped
  <1>3. /\ now \in Seq(PushRecord) /\ Len(now) = Len(past) + 1 /\ now[Len(past) + 1] = r
        /\ \A i \in 1..Len(past) : now[i] = past[i]
    BY <1>1, <1>2
  <1>4. past' = IF Len(now) > MaxFrag THEN Tail(now) ELSE now
    BY Zenon DEF Recorded, r
  <1> HIDE DEF now
  <1>5. CASE Len(now) > MaxFrag
    <2>1. /\ past' \in Seq(PushRecord) /\ Len(past') = Len(past) /\ Len(past) = MaxFrag
          /\ \A i \in 1..Len(past') : past'[i] = now[i + 1]
      BY <1>2, <1>3, <1>4, <1>5
    <2>2. past'[Len(past')] = r /\ Len(past') + 1 - 1 = Len(past')
      BY <1>2, <1>3, <2>1
    <2>3. ASSUME NEW i \in 2..Len(past')
          PROVE  i - 1 \in 1..Len(past) /\ past'[Len(past') + 1 - i] = past[Len(past) + 1 - (i - 1)]
      <3>1. /\ Len(past') + 1 - i \in 1..Len(past') /\ i - 1 \in 1..Len(past)
            /\ (Len(past') + 1 - i) + 1 = Len(past) + 1 - (i - 1)
            /\ Len(past) + 1 - (i - 1) \in 1..Len(past)
        BY <1>2, <2>1, Mirror, Zenon
      <3> QED
        BY <1>3, <2>1, <3>1, Zenon
    <2> QED
      BY <1>2, <2>1, <2>2, <2>3 DEF Back, r
  <1>6. CASE ~(Len(now) > MaxFrag)
    <2>1. past' = now /\ Len(past') = Len(past) + 1 /\ Len(past') <= MaxFrag
      BY <1>2, <1>3, <1>4, <1>6
    <2>2. past'[Len(past')] = r /\ Len(past') + 1 - 1 = Len(past')
      BY <1>2, <1>3, <2>1
    <2>3. ASSUME NEW i \in 2..Len(past')
          PROVE  i - 1 \in 1..Len(past) /\ past'[Len(past') + 1 - i] = past[Len(past) + 1 - (i - 1)]
      <3>1. /\ i - 1 \in 1..Len(past) /\ Len(past') + 1 - i = Len(past) + 1 - (i - 1)
            /\ Len(past) + 1 - (i - 1) \in 1..Len(past)
        BY <1>2, <2>1
      <3> QED
        BY <1>3, <2>1, <3>1, Zenon
    <2> QED
      BY <1>2, <1>3, <2>1, <2>2, <2>3 DEF Back, r
  <1> QED
    BY <1>5, <1>6, Zenon

\* How a run grows, and that it only grows so.
LEMMA RunGrows ==
    ASSUME FragTyped, NEW f \in Fragment, Recorded(f), NEW l \in BOOLEAN, NEW k \in 1..MaxFrag
    PROVE  Run(k, l)' <=> /\ f.num = k /\ f.last = l /\ k * Size(f) <= MaxQueued
                          /\ k > 1 => Run(k - 1, FALSE) /\ Back(1).frag.dest = f.dest
  <1>0. /\ Len(past') \in 1..MaxFrag /\ Len(past) \in Nat /\ MaxFrag \in Nat /\ k \in Nat
        /\ Len(past') <= Len(past) + 1 /\ (Len(past') = Len(past) + 1 \/ Len(past') = MaxFrag)
        /\ Back(1)'.frag = f
        /\ \A i \in 2..Len(past') : i - 1 \in 1..Len(past) /\ Back(i)' = Back(i - 1)
    BY HistoryMoves, FragmentConstants DEF FragTyped
  <1>1. ASSUME Run(k, l)'
        PROVE  /\ f.num = k /\ f.last = l /\ k * Size(f) <= MaxQueued
               /\ k > 1 => Run(k - 1, FALSE) /\ Back(1).frag.dest = f.dest
    <2>1. /\ k \in 1..Len(past') /\ k * Size(f) <= MaxQueued /\ f.last = l
          /\ \A i \in 1..k : Back(i)'.frag.num = k + 1 - i /\ Back(i)'.frag.dest = f.dest
          /\ \A i \in 2..k : Back(i)'.frag.last = FALSE
      BY <1>0, <1>1, Zenon DEF Run
    <2>2. f.num = k
      BY <1>0, <2>1
    <2>3. ASSUME k > 1 PROVE Run(k - 1, FALSE) /\ Back(1).frag.dest = f.dest
      <3>1. ASSUME NEW i \in 1..(k - 1)
            PROVE  /\ Back(i).frag.num = (k - 1) + 1 - i /\ Back(i).frag.dest = f.dest
                   /\ Back(i).frag.last = FALSE
        <4>1. i + 1 \in 2..k /\ i + 1 \in 1..k /\ i + 1 \in 2..Len(past') /\ (i + 1) - 1 = i
              /\ k + 1 - (i + 1) = (k - 1) + 1 - i
          <5>1. k \in Nat /\ k \in 1..Len(past') /\ Len(past') \in 1..MaxFrag /\ MaxFrag \in Nat
            BY <1>0, <2>1, Zenon
          <5> QED
            BY <5>1
        <4>2. Back(i + 1)' = Back(i)
          BY <1>0, <4>1, Zenon
        <4> QED
          BY <2>1, <4>1, <4>2, Zenon
      <3>2. /\ 1 \in 1..(k - 1) /\ k - 1 \in 1..Len(past) /\ k - 1 \in Nat /\ (k - 1) + 1 = k
            /\ \A i \in 2..(k - 1) : i \in 1..(k - 1)
        <4>0. k \in Nat /\ k \in 1..Len(past') /\ Len(past') \in 1..MaxFrag /\ MaxFrag \in Nat
          BY <1>0, <2>1, Zenon
        <4>1. k \in 2..Len(past') /\ k - 1 \in Nat /\ (k - 1) + 1 = k /\ 1 \in 1..(k - 1)
          BY <2>3, <4>0
        <4>2. k - 1 \in 1..Len(past)
          BY <1>0, <4>1, Zenon
        <4>3. \A i \in 2..(k - 1) : i \in 1..(k - 1)
          BY <4>1
        <4> QED
          BY <4>1, <4>2, <4>3, Zenon
      <3>3. Size(Back(1).frag) = Size(f)
        BY <3>1, <3>2, Zenon DEF Size
      <3>4. (k - 1) * Size(f) <= MaxQueued
        <4>1. k * Size(f) = (k - 1) * Size(f) + Size(f) /\ (k - 1) * Size(f) \in Nat
          BY <3>2, Units, Zenon
        <4>2. Size(f) \in Nat /\ MaxQueued \in Nat
          BY Units, FragmentConstants, Zenon
        <4>3. ASSUME NEW a \in Nat, NEW b \in Nat, NEW c, c = a + b, c <= MaxQueued PROVE a <= MaxQueued
          BY <4>2, <4>3
        <4> QED
          BY <2>1, <4>1, <4>2, <4>3, Zenon
      <3> QED
        BY <3>1, <3>2, <3>3, <3>4, Zenon DEF Run
    <2> QED
      BY <2>1, <2>2, <2>3, Zenon
  <1>2. ASSUME f.num = k, f.last = l, k * Size(f) <= MaxQueued,
               k > 1 => Run(k - 1, FALSE) /\ Back(1).frag.dest = f.dest
        PROVE  Run(k, l)'
    <2>1. k \in 1..Len(past')
      BY <1>0, <1>2 DEF Run
    <2>2. ASSUME NEW i \in 2..k
          PROVE  /\ Back(i)'.frag.num = k + 1 - i /\ Back(i)'.frag.dest = f.dest
                 /\ Back(i)'.frag.last = FALSE
      <3>1. k > 1 /\ i - 1 \in 1..(k - 1) /\ i \in 2..Len(past') /\ (k - 1) + 1 - (i - 1) = k + 1 - i
        BY <1>0, <2>1
      <3>2. Back(i)' = Back(i - 1)
        BY <1>0, <3>1, Zenon
      <3>3. Back(i - 1).frag.last = FALSE
        <4>1. i - 1 = 1 \/ i - 1 \in 2..(k - 1)
          BY <3>1
        <4> QED
          BY <1>2, <3>1, <4>1, Zenon DEF Run
      <3> QED
        BY <1>2, <3>1, <3>2, <3>3, Zenon DEF Run
    <2>3. (\A i \in 1..k : i = 1 \/ i \in 2..k) /\ k + 1 - 1 = k
      BY <1>0
    <2>4. \A i \in 1..k : Back(i)'.frag.num = k + 1 - i /\ Back(i)'.frag.dest = f.dest
      BY <1>0, <1>2, <2>2, <2>3, Zenon
    <2>5. Back(1)'.frag.last = l /\ k * Size(Back(1)'.frag) <= MaxQueued
      BY <1>0, <1>2, Zenon
    <2> QED
      BY <1>0, <2>1, <2>2, <2>4, <2>5, Zenon DEF Run
  <1> QED
    BY <1>1, <1>2, Zenon

\* What a call of Push does with fragment f: it drops the queue, ignores f, takes it
\* into the queue, or returns what the queue and f make.
Outcome(f, size, joins) ==
    LET drops == ~joins \/ size > MaxQueued \/ (~f.last /\ f.num = MaxFrag)
    IN  \/ /\ f.num = 0 /\ Clear /\ fragGen' = fragGen + 1
           /\ output' = IF f.last THEN 0 ELSE Size(f)
        \/ /\ f.num > 1 /\ highest = 0 /\ output' = 0
           /\ UNCHANGED <<highest, dest, queued, fragGen, armed>>
        \/ /\ f.num > 0 /\ (f.num = 1 \/ highest # 0) /\ drops
           /\ Clear /\ fragGen' = fragGen + 1 /\ output' = 0
        \/ /\ f.num > 0 /\ ~drops /\ ~f.last /\ Queue(f, size) /\ output' = 0
        \/ /\ f.num > 0 /\ ~drops /\ f.last
           /\ Clear /\ fragGen' = fragGen + 1 /\ output' = size

\* What f makes with the queue is the sequence that f ends, if that is young enough.
LEMMA YoungRunJoins ==
    ASSUME FragInv, NEW f \in Fragment, Recorded(f), NEW l \in BOOLEAN, NEW k \in 1..MaxFrag,
           Run(k, l)', Back(k)'.age < Lifetime
    PROVE  /\ f.num = k /\ f.last = l /\ (f.num = 1 \/ Follows(f)) /\ k * Size(f) <= MaxQueued
           /\ (IF f.num = 1 THEN 0 ELSE queued) + Size(f) = k * Size(f)
  <1>0. FragTyped /\ QueueIsRun /\ RunIsQueued
    BY Zenon DEF FragInv
  <1>1. /\ f.num = k /\ f.last = l /\ k * Size(f) <= MaxQueued
        /\ k > 1 => Run(k - 1, FALSE) /\ Back(1).frag.dest = f.dest
    BY <1>0, RunGrows, Zenon
  <1>2. CASE k = 1
    <2>1. Size(f) \in Nat /\ 1 * Size(f) = Size(f)
      BY Units, Zenon
    <2> QED
      BY <1>1, <1>2, <2>1
  <1>3. CASE k # 1
    <2>0. MaxFrag \in Nat
      BY FragmentConstants, Zenon
    <2>1. k > 1 /\ k - 1 \in 1..MaxFrag /\ k - 1 < MaxFrag /\ k - 1 \in Nat /\ (k - 1) + 1 = k
      BY <1>3, <2>0
    <2>2. Back(k)' = Back(k - 1)
      <3>1. k \in 2..Len(past')
        BY <2>1 DEF Run
      <3> QED
        BY <1>0, <3>1, HistoryMoves, Zenon
    <2>3. highest = k - 1 /\ highest # 0
      <3>1. Run(k - 1, FALSE) /\ Back(k - 1).age < Lifetime
        BY <1>1, <2>1, <2>2, Zenon
      <3>2. highest = k - 1
        BY <1>0, <2>1, <3>1, Zenon DEF RunIsQueued
      <3> QED
        BY <2>1, <3>2
    <2>4. dest = f.dest /\ queued = (k - 1) * Size(Back(1).frag) /\ Back(1).frag.dest = f.dest
      BY <1>0, <1>1, <2>1, <2>3, Zenon DEF QueueIsRun
    <2>5. queued = (k - 1) * Size(f)
      BY <2>4, Zenon DEF Size
    <2>6. k * Size(f) = (k - 1) * Size(f) + Size(f)
      BY <2>1, Units, Zenon
    <2> QED
      BY <1>1, <1>3, <2>1, <2>3, <2>4, <2>5, <2>6, Zenon DEF Follows
  <1> QED
    BY <1>2, <1>3, Zenon

\* A fragment that joins and fits ends a sequence.
LEMMA JoiningMakesRun ==
    ASSUME FragInv, NEW f \in Fragment, Recorded(f), f.num > 0, f.num = 1 \/ Follows(f),
           NEW size, size = (IF f.num = 1 THEN 0 ELSE queued) + Size(f), size <= MaxQueued
    PROVE  Run(f.num, f.last)' /\ size = f.num * Size(f)
  <1>0. /\ FragTyped /\ QueueIsRun /\ f.num \in 1..MaxFrag /\ f.last \in BOOLEAN
        /\ MaxFrag \in Nat /\ highest \in Nat
    BY FragmentConstants DEF FragInv, FragTyped, Fragment
  <1>1. CASE f.num = 1
    <2>1. Size(f) \in Nat /\ 1 * Size(f) = Size(f)
      BY Units, Zenon
    <2>2. size = f.num * Size(f)
      BY <1>1, <2>1
    <2>3. f.num * Size(f) <= MaxQueued /\ ~(f.num > 1)
      BY <1>1, <2>2
    <2> QED
      BY <1>0, <2>2, <2>3, RunGrows, ZenonT(40)
  <1>2. CASE f.num # 1
    <2>1. highest # 0 /\ f.dest = dest /\ f.num = highest + 1 /\ f.num - 1 = highest
      BY <1>0, <1>2 DEF Follows
    <2>2. /\ Run(highest, FALSE) /\ dest = Back(1).frag.dest
          /\ queued = highest * Size(Back(1).frag)
      BY <1>0, <2>1, Zenon DEF QueueIsRun
    <2>3. queued = highest * Size(f)
      BY <2>1, <2>2, Zenon DEF Size
    <2>4. size = f.num * Size(f)
      BY <1>0, <1>2, <2>1, <2>3, Units, Zenon
    <2>5. f.num * Size(f) <= MaxQueued /\ Run(f.num - 1, FALSE) /\ Back(1).frag.dest = f.dest
      BY <2>1, <2>2, <2>4, Zenon
    <2> QED
      BY <1>0, <2>4, <2>5, RunGrows, Zenon
  <1> QED
    BY <1>1, <1>2, Zenon

\* Push keeps the invariant.
LEMMA PushKeeps ==
    ASSUME FragInv, NEW f \in Fragment, Push(f)
    PROVE  FragInv'
  <1> DEFINE size == (IF f.num = 1 THEN 0 ELSE queued) + Size(f)
             joins == f.num = 1 \/ Follows(f)
             drops == ~joins \/ size > MaxQueued \/ (~f.last /\ f.num = MaxFrag)
  <1>1. Recorded(f) /\ running' = running
    BY Zenon DEF Push
  <1>2. /\ FragTyped /\ QueueIsRun /\ TimersMatch /\ f.num \in 0..MaxFrag /\ f.last \in BOOLEAN
        /\ MaxFrag \in Nat \ {0} /\ MaxQueued \in Nat /\ Lifetime \in Nat \ {0}
        /\ highest \in 0..MaxFrag /\ queued \in Nat /\ fragGen \in Nat /\ output \in Nat
        /\ armed \in [gen : Nat, age : 0..Lifetime] /\ running \subseteq Nat
    BY FragmentConstants, Zenon DEF FragInv, FragTyped, Fragment
  <1>a. Size(f) \in 1..2 /\ size \in Nat /\ 1 * Size(f) = Size(f)
    <2>1. 1 \in Nat
      BY Zenon
    <2>2. Size(f) \in 1..2 /\ 1 * Size(f) = Size(f)
      BY <2>1, Units, Zenon
    <2> QED
      BY <1>2, <2>2
  <1>6. Outcome(f, size, joins)
    BY Zenon DEF Push, Outcome
  <1> HIDE DEF size, joins
  <1>3. /\ past' \in Seq(PushRecord) /\ Len(past') \in 1..MaxFrag
        /\ Back(1)' = [frag |-> f, age |-> 0] /\ Back(1)'.frag = f /\ Back(1)'.age = 0
        /\ \A i \in 2..Len(past') : i - 1 \in 1..Len(past) /\ Back(i)' = Back(i - 1)
    BY <1>1, <1>2, HistoryMoves
  <1>4. ASSUME NEW l \in BOOLEAN, NEW k \in 1..MaxFrag, Run(k, l)', Back(k)'.age < Lifetime
        PROVE  f.num = k /\ f.last = l /\ joins /\ size = k * Size(f) /\ ~(size > MaxQueued)
    <2>1. f.num = k /\ f.last = l /\ joins /\ k * Size(f) <= MaxQueued /\ size = k * Size(f)
      BY <1>1, <1>4, YoungRunJoins, Zenon DEF size, joins
    <2>2. ~(size > MaxQueued)
      BY <1>2, <1>a, <2>1
    <2> QED
      BY <2>1, <2>2, Zenon
  <1>5. ASSUME f.num > 0, joins, ~(size > MaxQueued)
        PROVE  /\ size = f.num * Size(f) /\ f.num \in 1..MaxFrag
               /\ f.last => Run(f.num, TRUE)'
               /\ ~f.last => Run(f.num, FALSE)'
    <2>1. size <= MaxQueued /\ f.num \in 1..MaxFrag
      BY <1>2, <1>a, <1>5
    <2>2. Run(f.num, f.last)' /\ size = f.num * Size(f)
      BY <1>1, <1>5, <2>1, JoiningMakesRun, Zenon DEF size, joins
    <2>3. f.last = TRUE \/ f.last = FALSE
      BY <1>2, Zenon
    <2>4. CASE f.last = TRUE
      BY <2>1, <2>2, <2>4, Zenon
    <2>5. CASE f.last = FALSE
      BY <2>1, <2>2, <2>5, Zenon
    <2> QED
      BY <2>3, <2>4, <2>5, Zenon
  <1>7. FragTyped'
    <2>1. highest' \in 0..MaxFrag
      BY <1>2, <1>6 DEF Outcome, Clear, Queue
    <2>2. queued' \in Nat
      BY <1>2, <1>a, <1>6 DEF Outcome, Clear, Queue
    <2>3. fragGen' \in Nat
      BY <1>2, <1>6 DEF Outcome, Clear, Queue
    <2>4. output' \in Nat
      BY <1>2, <1>a, <1>6 DEF Outcome
    <2>5. armed' \in [gen : Nat, age : 0..Lifetime]
      BY <1>2, <1>6 DEF Outcome, Clear, Queue, NoTimer
    <2> QED
      BY <1>1, <1>2, <1>3, <2>1, <2>2, <2>3, <2>4, <2>5 DEF FragTyped
  <1>8. QueueIsRun'
    <2>1. CASE highest' = 0
      BY <2>1, Zenon DEF QueueIsRun
    <2>2. CASE highest' # 0 /\ highest = 0 /\ highest' = highest
      BY <2>2, Zenon
    <2>3. CASE /\ f.num > 0 /\ ~drops /\ ~f.last /\ highest' = f.num /\ dest' = f.dest
               /\ queued' = size
      <3>1. Run(f.num, FALSE)' /\ size = f.num * Size(f)
        BY <1>5, <2>3, Zenon
      <3>2. f.num < MaxFrag
        BY <1>2, <2>3
      <3>3. Run(highest, FALSE)'
        BY <2>3, <3>1, Zenon DEF Run
      <3> QED
        BY <1>3, <2>3, <3>1, <3>2, <3>3, Zenon DEF QueueIsRun
    <2> QED
      BY <1>6, <2>1, <2>2, <2>3, Zenon DEF Outcome, Clear, Queue
  <1>9. RunIsQueued'
    <2> SUFFICES ASSUME NEW j \in 1..MaxFrag, Run(j, FALSE)', j < MaxFrag,
                        Back(j)'.age < Lifetime
                 PROVE  highest' = j
      BY Zenon DEF RunIsQueued
    <2>1. f.num = j /\ f.last = FALSE /\ joins /\ ~(size > MaxQueued)
      BY <1>4, Zenon
    <2>2. f.num # 0 /\ f.num # MaxFrag /\ ~drops /\ ~f.last
      BY <1>2, <2>1
    <2>3. f.num > 1 => highest # 0
      BY <2>1 DEF joins, Follows
    <2> QED
      BY <1>6, <2>1, <2>2, <2>3, Zenon DEF Outcome, Queue
  <1>10. TimersMatch'
    <2>0. \A g \in running : g <= fragGen /\ g \in Nat
      BY <1>2, Zenon DEF TimersMatch
    <2>1. CASE highest' = 0 /\ armed' = NoTimer /\ fragGen' \in {fragGen, fragGen + 1}
      <3>1. \A g \in running' : g <= fragGen'
        BY <1>1, <1>2, <2>0, <2>1
      <3> QED
        BY <2>1, <3>1, Zenon DEF TimersMatch
    <2>2. CASE f.num = 1 /\ Queue(f, size)
      <3>1. /\ highest' = 1 /\ fragGen' = fragGen + 1 /\ armed' = [gen |-> fragGen + 1, age |-> 0]
        BY <2>2, Zenon DEF Queue
      <3>2. armed' # NoTimer /\ armed'.gen = fragGen' /\ armed'.age = 0
        BY <1>2, <3>1 DEF NoTimer
      <3>3. (\A g \in running' : g <= fragGen') /\ fragGen' \notin running'
        BY <1>1, <1>2, <2>0, <3>1
      <3>4. Back(highest)'.age = 0
        BY <1>3, <3>1, Zenon DEF Back
      <3> QED
        BY <3>1, <3>2, <3>3, <3>4 DEF TimersMatch
    <2>3. CASE f.num # 1 /\ Follows(f) /\ Queue(f, size)
      <3>1. /\ highest' = highest + 1 /\ highest # 0 /\ fragGen' = fragGen /\ armed' = armed
        BY <2>3, Zenon DEF Queue, Follows
      <3>2. Back(highest)' = Back(highest)
        <4>1. Run(highest, FALSE)' /\ highest' \in 2..MaxFrag
          <5>1. highest' # 0 /\ highest' \in 2..MaxFrag
            BY <1>2, <1>7, <3>1 DEF FragTyped
          <5> QED
            BY <1>8, <5>1, Zenon DEF QueueIsRun
        <4>2. highest' \in 2..Len(past') /\ highest' - 1 = highest
          BY <1>2, <1>3, <3>1, <4>1 DEF Run
        <4>3. past'[Len(past') + 1 - highest'] = Back(highest' - 1)
          BY <1>3, <4>2, Zenon DEF Back
        <4> QED
          BY <4>2, <4>3, Zenon DEF Back
      <3> QED
        BY <1>1, <1>2, <3>1, <3>2 DEF TimersMatch
    <2>4. highest = 0 => armed = NoTimer
      BY <1>2, Zenon DEF TimersMatch
    <2> QED
      BY <1>6, <2>1, <2>2, <2>3, <2>4, Zenon DEF Outcome, Clear, joins
  <1>11. WholeRuns'
    <2>1. CASE output' = 0
      BY <2>1, Zenon DEF WholeRuns
    <2>2. CASE f.num = 0 /\ output' = Size(f)
      <3>1. Len(past') > 0 /\ Back(1)'.frag.num = 0 /\ output' = 1 * Size(Back(1)'.frag)
        BY <1>3, <1>a, <2>2
      <3> QED
        BY <3>1, Zenon DEF WholeRuns
    <2>3. CASE f.num > 0 /\ ~drops /\ f.last /\ output' = size
      <3>1. Run(f.num, TRUE)' /\ size = f.num * Size(f) /\ f.num \in 1..MaxFrag
        BY <1>5, <2>3, Zenon
      <3> QED
        BY <1>3, <2>3, <3>1, Zenon DEF WholeRuns
    <2> QED
      BY <1>6, <2>1, <2>2, <2>3, Zenon DEF Outcome
  <1>12. TimelyRuns'
    <2> SUFFICES ASSUME NEW k \in 1..MaxFrag, Run(k, TRUE)', Back(k)'.age < Lifetime
                 PROVE  output' = k * Size(Back(1)'.frag)
      BY Zenon DEF TimelyRuns
    <2>1. f.num = k /\ f.last = TRUE /\ joins /\ size = k * Size(f) /\ ~(size > MaxQueued)
      BY <1>4, Zenon
    <2>2. f.num # 0 /\ f.last /\ ~drops
      BY <1>2, <2>1
    <2>3. f.num > 1 => highest # 0
      BY <2>1 DEF joins, Follows
    <2>4. output' = size
      BY <1>6, <2>1, <2>2, <2>3, Zenon DEF Outcome
    <2> QED
      BY <1>3, <2>1, <2>4, Zenon
  <1> QED
    BY <1>7, <1>8, <1>9, <1>10, <1>11, <1>12, Zenon DEF FragInv

\* A step that leaves the fragments of the history alone leaves its runs alone.
LEMMA RunsStay ==
    ASSUME Len(past') = Len(past), Len(past) \in Nat,
           \A i \in 1..Len(past) : Back(i)'.frag = Back(i).frag
    PROVE  \A k \in Nat, l \in BOOLEAN : Run(k, l)' <=> Run(k, l)
  <1> SUFFICES ASSUME NEW k \in Nat, NEW l \in BOOLEAN PROVE Run(k, l)' <=> Run(k, l)
    BY Zenon
  <1>1. CASE k \notin 1..Len(past)
    BY <1>1, Zenon DEF Run
  <1>2. CASE k \in 1..Len(past)
    <2>1. 1 \in 1..Len(past) /\ (\A i \in 1..k : i \in 1..Len(past)) /\ \A i \in 2..k : i \in 1..Len(past)
      BY <1>2
    <2>2. /\ Back(1)'.frag = Back(1).frag
          /\ \A i \in 1..k : Back(i)'.frag = Back(i).frag
          /\ \A i \in 2..k : Back(i)'.frag = Back(i).frag
      BY <2>1, Zenon
    <2> QED
      BY <1>2, <2>2, Zenon DEF Run
  <1> QED
    BY <1>1, <1>2, Zenon

\* The timer runs out.
LEMMA TimerKeeps ==
    ASSUME FragInv, TimerFires
    PROVE  FragInv'
  <1>1. /\ armed # NoTimer /\ armed.age = Lifetime /\ running' = running \cup {armed.gen}
        /\ armed' = NoTimer /\ highest' = highest /\ dest' = dest /\ queued' = queued
        /\ fragGen' = fragGen /\ output' = output /\ past' = past
    BY Zenon DEF TimerFires
  <1>2. FragTyped /\ fragGen \in Nat /\ running \subseteq Nat /\ Lifetime \in Nat
    BY FragmentConstants, Zenon DEF FragInv, FragTyped
  <1>3. FragTyped'
    <2>1. NoTimer \in [gen : Nat, age : 0..Lifetime] /\ running' \subseteq Nat
      <3>1. 0 \in Nat /\ 0 \in 0..Lifetime
        BY <1>2
      <3>2. armed.gen \in Nat
        BY <1>2, Zenon DEF FragTyped
      <3> QED
        BY <1>1, <1>2, <3>1, <3>2, Zenon DEF NoTimer
    <2> QED
      BY <1>1, <1>2, <2>1, Zenon DEF FragTyped
  <1>4. QueueIsRun' /\ RunIsQueued' /\ WholeRuns' /\ TimelyRuns'
    <2>1. /\ \A k : Back(k)' = Back(k)
          /\ \A k, l : Run(k, l)' <=> Run(k, l)
      BY <1>1, Zenon DEF Run, Back
    <2>2. QueueIsRun'
      BY <1>1, <2>1, Zenon DEF FragInv, QueueIsRun
    <2>3. RunIsQueued'
      BY <1>1, <2>1, Zenon DEF FragInv, RunIsQueued
    <2>4. WholeRuns'
      BY <1>1, <2>1, Zenon DEF FragInv, WholeRuns
    <2>5. TimelyRuns'
      BY <1>1, <2>1, Zenon DEF FragInv, TimelyRuns
    <2> QED
      BY <2>2, <2>3, <2>4, <2>5, Zenon
  <1>5. TimersMatch'
    <2>1. /\ armed.gen = fragGen /\ highest # 0 /\ Back(highest).age = Lifetime
          /\ \A g \in running : g <= fragGen
      BY <1>1, <1>2, Zenon DEF FragInv, TimersMatch
    <2>2. Back(highest)' = Back(highest)
      BY <1>1, Zenon DEF Back
    <2>3. \A g \in running' : g <= fragGen'
      BY <1>1, <1>2, <2>1
    <2> QED
      BY <1>1, <2>1, <2>2, <2>3, Zenon DEF TimersMatch
  <1> QED
    BY <1>3, <1>4, <1>5, Zenon DEF FragInv

\* A callback gets mu.
LEMMA CallbackKeeps ==
    ASSUME FragInv, NEW g \in running, Callback(g)
    PROVE  FragInv'
  <1>1. /\ running' = running \ {g} /\ armed' = armed
        /\ fragGen' = fragGen /\ output' = output /\ past' = past
    BY Zenon DEF Callback
  <1>2. FragTyped /\ fragGen \in Nat /\ running \subseteq Nat /\ Lifetime \in Nat /\ MaxFrag \in Nat
    BY FragmentConstants, Zenon DEF FragInv, FragTyped
  <1>3. WholeRuns' /\ TimelyRuns'
    BY <1>1, Zenon DEF FragInv, WholeRuns, TimelyRuns, Run, Back
  <1>4. CASE g = fragGen
    <2>1. highest' = 0 /\ queued' = 0
      BY <1>4, Zenon DEF Callback
    <2>2. armed = NoTimer /\ (highest # 0 => Back(highest).age = Lifetime)
      BY <1>4, Zenon DEF FragInv, TimersMatch
    <2>3. FragTyped'
      BY <1>1, <1>2, <2>1 DEF FragTyped
    <2>4. QueueIsRun' /\ TimersMatch'
      BY <1>1, <2>1, <2>2, Zenon DEF FragInv, TimersMatch, QueueIsRun
    <2>5. RunIsQueued'
      <3> SUFFICES ASSUME NEW j \in 1..MaxFrag, Run(j, FALSE)', j < MaxFrag,
                          Back(j)'.age < Lifetime
                   PROVE  FALSE
        BY Zenon DEF RunIsQueued
      <3>1. Run(j, FALSE) /\ Back(j).age < Lifetime
        BY <1>1, Zenon DEF Run, Back
      <3>2. highest = j /\ j # 0
        <4>1. highest = j
          BY <3>1, Zenon DEF FragInv, RunIsQueued
        <4> QED
          BY <4>1
      <3> QED
        BY <1>2, <2>2, <3>1, <3>2
    <2> QED
      BY <1>3, <2>3, <2>4, <2>5, Zenon DEF FragInv
  <1>5. CASE g # fragGen
    <2>1. highest' = highest /\ dest' = dest /\ queued' = queued
      BY <1>5, Zenon DEF Callback
    <2>2. FragTyped'
      BY <1>1, <1>2, <2>1, Zenon DEF FragTyped
    <2>3. QueueIsRun' /\ RunIsQueued'
      BY <1>1, <2>1, Zenon DEF FragInv, QueueIsRun, RunIsQueued, Run, Back
    <2>4. TimersMatch'
      <3>1. Back(highest)' = Back(highest)
        BY <1>1, <2>1, Zenon DEF Back
      <3>2. fragGen' \in running' <=> fragGen \in running
        BY <1>1, <1>5, Zenon
      <3> QED
        BY <1>1, <2>1, <3>1, <3>2, Zenon DEF FragInv, TimersMatch
    <2> QED
      BY <1>3, <2>2, <2>3, <2>4, Zenon DEF FragInv
  <1> QED
    BY <1>4, <1>5, Zenon

\* Time passes.
LEMMA TickKeeps ==
    ASSUME FragInv, FragTick
    PROVE  FragInv'
  <1>1. /\ highest' = highest /\ dest' = dest /\ queued' = queued /\ fragGen' = fragGen
        /\ running' = running /\ output' = output
        /\ armed' = IF armed = NoTimer \/ armed.age = Lifetime THEN armed
                    ELSE [armed EXCEPT !.age = @ + 1]
        /\ past' = [i \in DOMAIN past |->
                       [past[i] EXCEPT !.age = IF @ < Lifetime THEN @ + 1 ELSE @]]
    BY Zenon DEF FragTick
  <1>2. /\ FragTyped /\ Lifetime \in Nat \ {0} /\ MaxFrag \in Nat /\ past \in Seq(PushRecord)
        /\ Len(past) \in Nat /\ armed \in [gen : Nat, age : 0..Lifetime]
        /\ highest \in 0..MaxFrag
    BY FragmentConstants DEF FragInv, FragTyped
  <1>3. ASSUME NEW i \in 1..Len(past)
        PROVE  /\ past'[i] \in PushRecord /\ past'[i].frag = past[i].frag
               /\ past'[i].age = IF past[i].age < Lifetime THEN past[i].age + 1 ELSE past[i].age
    <2>1. PICK r \in PushRecord : r = past[i]
      BY <1>2
    <2>2. i \in DOMAIN past
      BY <1>2
    <2>3. past'[i] = [r EXCEPT !.age = IF @ < Lifetime THEN @ + 1 ELSE @]
      BY <1>1, <2>1, <2>2, Zenon
    <2>4. PICK a \in 0..Lifetime :
             /\ a = IF r.age < Lifetime THEN r.age + 1 ELSE r.age
             /\ past'[i] = [r EXCEPT !.age = a]
      <3>1. r.age \in 0..Lifetime
        BY Zenon DEF PushRecord
      <3>2. (IF r.age < Lifetime THEN r.age + 1 ELSE r.age) \in 0..Lifetime
        BY <1>2, <3>1
      <3> QED
        BY <2>3, <3>2, Zenon
    <2>5. past'[i] \in PushRecord /\ past'[i].frag = r.frag /\ past'[i].age = a
      BY <2>4, Zenon DEF PushRecord
    <2> QED
      BY <2>1, <2>4, <2>5, Zenon
  <1>4. past' \in Seq(PushRecord) /\ Len(past') = Len(past)
    <2>1. DOMAIN past = 1..Len(past) /\ past' = [i \in 1..Len(past) |-> past'[i]]
      BY <1>1, <1>2
    <2> QED
      BY <1>2, <1>3, <2>1
  <1>5. ASSUME NEW i \in 1..Len(past)
        PROVE  /\ Back(i)'.frag = Back(i).frag
               /\ Back(i)'.age = IF Back(i).age < Lifetime THEN Back(i).age + 1 ELSE Back(i).age
               /\ Back(i).age \in 0..Lifetime
    BY <1>2, <1>3, <1>4, PushesBack, Zenon DEF Back
  <1>6. \A k \in Nat, l \in BOOLEAN : Run(k, l)' <=> Run(k, l)
    BY <1>2, <1>4, <1>5, RunsStay, Zenon
  <1>7. ASSUME NEW k \in 1..MaxFrag, NEW l \in BOOLEAN, Run(k, l)'
        PROVE  /\ Run(k, l) /\ Back(1)'.frag = Back(1).frag
               /\ Back(k)'.age < Lifetime => Back(k).age < Lifetime
    <2>1. Run(k, l) /\ k \in 1..Len(past) /\ 1 \in 1..Len(past)
      BY <1>2, <1>6, <1>7 DEF Run
    <2> QED
      BY <1>2, <1>5, <2>1, Zenon
  <1>8. FragTyped'
    <2>1. armed' \in [gen : Nat, age : 0..Lifetime]
      <3>1. CASE armed = NoTimer \/ armed.age = Lifetime
        BY <1>1, <1>2, <3>1, Zenon
      <3>2. CASE armed # NoTimer /\ armed.age # Lifetime
        <4>1. armed.age \in 0..Lifetime
          BY <1>2, Zenon
        <4>2. armed.age + 1 \in 0..Lifetime
          BY <1>2, <3>2, <4>1
        <4> QED
          BY <1>1, <1>2, <3>2, <4>2, Zenon
      <3> QED
        BY <3>1, <3>2, Zenon
    <2> QED
      BY <1>1, <1>2, <1>4, <2>1, Zenon DEF FragTyped
  <1>9. QueueIsRun'
    <2> SUFFICES ASSUME highest # 0
                 PROVE  /\ Run(highest, FALSE)' /\ highest' < MaxFrag
                        /\ dest' = Back(1)'.frag.dest
                        /\ queued' = highest' * Size(Back(1)'.frag)
      BY <1>1, Zenon DEF QueueIsRun
    <2>1. /\ Run(highest, FALSE) /\ highest < MaxFrag /\ dest = Back(1).frag.dest
          /\ queued = highest * Size(Back(1).frag)
      BY Zenon DEF FragInv, QueueIsRun
    <2>2. 1 \in 1..Len(past) /\ Back(1)'.frag = Back(1).frag
      <3>1. 1 \in 1..Len(past)
        BY <1>2, <2>1 DEF Run
      <3> QED
        BY <1>5, <3>1, Zenon
    <2>3. Run(highest, FALSE)'
      <3>1. PICK h \in Nat : h = highest /\ h = highest'
        BY <1>1, <1>2
      <3>2. Run(h, FALSE)'
        BY <1>6, <2>1, <3>1, Zenon
      <3> QED
        BY <3>1, <3>2, Zenon DEF Run
    <2> QED
      BY <1>1, <2>1, <2>2, <2>3, Zenon
  <1>10. RunIsQueued' /\ TimelyRuns'
    BY <1>1, <1>7, Zenon DEF FragInv, RunIsQueued, TimelyRuns
  <1>11. WholeRuns'
    <2>1. CASE output = 0
      BY <1>1, <2>1, Zenon DEF WholeRuns
    <2>2. CASE Len(past) > 0 /\ Back(1).frag.num = 0 /\ output = 1 * Size(Back(1).frag)
      <3>1. 1 \in 1..Len(past)
        BY <1>2, <2>2
      <3> QED
        BY <1>1, <1>4, <1>5, <2>2, <3>1, Zenon DEF WholeRuns
    <2>3. ASSUME NEW k \in 1..MaxFrag, Run(k, TRUE), output = k * Size(Back(1).frag)
          PROVE  WholeRuns'
      <3>1. Run(k, TRUE)'
        <4>1. k \in Nat /\ TRUE \in BOOLEAN
          BY <1>2
        <4> QED
          BY <1>6, <2>3, <4>1, Zenon
      <3>2. Back(1)'.frag = Back(1).frag
        BY <1>7, <3>1, Zenon
      <3> QED
        BY <1>1, <2>3, <3>1, <3>2, Zenon DEF WholeRuns
    <2> QED
      BY <2>1, <2>2, <2>3, Zenon DEF FragInv, WholeRuns
  <1>12. TimersMatch'
    <2>1. /\ \A g \in running' : g <= fragGen'
          /\ armed # NoTimer => armed.gen = fragGen /\ highest # 0 /\ fragGen \notin running
          /\ highest # 0 =>
                \/ armed # NoTimer /\ armed.age = Back(highest).age
                \/ armed = NoTimer /\ fragGen \in running /\ Back(highest).age = Lifetime
      BY <1>1, Zenon DEF FragInv, TimersMatch
    <2>2. (armed' # NoTimer <=> armed # NoTimer) /\ armed'.gen = armed.gen
      BY <1>1, <1>2 DEF NoTimer
    <2>3. ASSUME highest # 0
          PROVE  /\ Back(highest)'.age = IF Back(highest).age < Lifetime THEN Back(highest).age + 1
                                         ELSE Back(highest).age
                 /\ Back(highest).age \in 0..Lifetime
      <3>1. highest \in 1..Len(past)
        BY <2>3, Zenon DEF FragInv, QueueIsRun, Run
      <3>2. past'[Len(past') + 1 - highest] = past'[Len(past') + 1 - highest']
        BY <1>1, Zenon
      <3> QED
        BY <1>5, <3>1, <3>2, Zenon DEF Back
    <2>4. armed # NoTimer => armed'.age = IF armed.age < Lifetime THEN armed.age + 1 ELSE armed.age
      BY <1>1, <1>2 DEF NoTimer
    <2> QED
      BY <1>1, <2>1, <2>2, <2>3, <2>4 DEF TimersMatch
  <1> QED
    BY <1>8, <1>9, <1>10, <1>11, <1>12, Zenon DEF FragInv

\* The start.
LEMMA FragStarts == FragInit => FragInv
  <1> SUFFICES ASSUME FragInit PROVE FragInv
    BY Zenon
  <1>1. FragTyped
    BY FragmentConstants DEF FragInit, FragTyped, NoTimer
  <1>2. \A k, l : ~Run(k, l)
    BY DEF FragInit, Run
  <1> QED
    BY <1>1, <1>2, Zenon DEF FragInit, FragInv, QueueIsRun, RunIsQueued, TimersMatch, WholeRuns, TimelyRuns

\* Push returns nothing but whole datagrams, and every one whose fragments came in
\* time, and an unfinished sequence has its timer, for every limit on the number of
\* fragments, the data and the lifetime, however late a timer's callback gets the
\* lock.
THEOREM FragmentsExact == FragSpec => []DatagramsExact
  <1>1. FragInv /\ [FragNext]_fragVars => FragInv'
    <2>1. FragInv /\ FragNext => FragInv'
      BY PushKeeps, TimerKeeps, CallbackKeeps, TickKeeps, Zenon DEF FragNext
    <2>2. FragInv /\ UNCHANGED fragVars => FragInv'
      <3> SUFFICES ASSUME FragInv, UNCHANGED fragVars PROVE FragInv'
        BY Zenon
      <3>1. /\ highest' = highest /\ dest' = dest /\ queued' = queued /\ fragGen' = fragGen
            /\ armed' = armed /\ running' = running /\ output' = output /\ past' = past
        BY Zenon DEF fragVars
      <3>2. FragTyped' /\ QueueIsRun' /\ RunIsQueued'
        BY <3>1, Zenon DEF FragInv, FragTyped, QueueIsRun, RunIsQueued, Run, Back
      <3>3. TimersMatch' /\ WholeRuns' /\ TimelyRuns'
        BY <3>1, ZenonT(40) DEF FragInv, TimersMatch, WholeRuns, TimelyRuns, Run, Back
      <3> QED
        BY <3>2, <3>3, Zenon DEF FragInv
    <2> QED
      BY <2>1, <2>2, Zenon
  <1>2. FragInv => DatagramsExact
    <2> SUFFICES ASSUME FragInv PROVE DatagramsExact
      BY Zenon
    <2>1. FragTyped /\ past[Len(past)] = Back(1)
      BY DEF FragInv, FragTyped, Back
    <2>2. WholeDatagramsOnly
      BY <2>1, EndsIsRun, Zenon DEF FragInv, WholeRuns, WholeDatagramsOnly, Returned
    <2>3. TimelySequenceReturned
      BY <2>1, EndsIsRun, Zenon DEF FragInv, TimelyRuns, TimelySequenceReturned, Returned, Back
    <2>4. SequenceIsTimed
      BY Zenon DEF FragInv, TimersMatch, SequenceIsTimed
    <2> QED
      BY <2>2, <2>3, <2>4, Zenon DEF DatagramsExact
  <1> QED
    BY <1>1, <1>2, FragStarts, PTL DEF FragSpec
================================================================================
