----------------------------- MODULE RouteProofs -----------------------------
(***************************************************************************)
(* The reverse routes of the server, for every number of muxes, forwarders  *)
(* and channel IDs (ReverseRoutes), and the queries a DNS session waits     *)
(* for, for every set of queries and every pending limit (DNSPending).      *)
(***************************************************************************)
EXTENDS ReverseRoutes, DNSPending, DataTheorems

-----------------------------------------------------------------------------
(* The table *)

\* The muxes of a list of routes.
RouteSet(s) == {s[i] : i \in 1..Len(s)}

\* The muxes of a filtered list.
LEMMA OnlyRoutes ==
    ASSUME NEW s \in Seq(RevMuxes), NEW S
    PROVE  Only(s, S) \in Seq(RevMuxes) /\ RouteSet(Only(s, S)) = RouteSet(s) \cap S
  <1>1. Only(s, S) \in Seq(RevMuxes) /\ KeptOf(s, S, Len(s), Only(s, S))
    BY OnlyKeeps, Zenon
  <1> DEFINE r == Only(s, S)
  <1>2. /\ r \in Seq(RevMuxes)
        /\ \A i \in 1..Len(r) : r[i] \in S /\ \E j \in 1..Len(s) : s[j] = r[i]
        /\ \A j \in 1..Len(s) : s[j] \in S => \E i \in 1..Len(r) : r[i] = s[j]
    BY <1>1, Zenon DEF KeptOf
  <1> HIDE DEF r
  <1>3. RouteSet(r) = RouteSet(s) \cap S
    <2>1. ASSUME NEW x \in RouteSet(r) PROVE x \in RouteSet(s) \cap S
      BY <1>2, Zenon DEF RouteSet
    <2>2. ASSUME NEW x \in RouteSet(s) \cap S PROVE x \in RouteSet(r)
      BY <1>2 DEF RouteSet
    <2> QED
      BY <2>1, <2>2, Zenon
  <1> QED
    BY <1>2, <1>3, Zenon DEF r

\* The muxes of a list that one was removed from.
LEMMA WithoutRoutes ==
    ASSUME NEW s \in Seq(RevMuxes), NEW m \in RevMuxes
    PROVE  Without(s, m) \in Seq(RevMuxes) /\ RouteSet(Without(s, m)) = RouteSet(s) \ {m}
  <1>1. RouteSet(s) \in SUBSET RevMuxes
    BY DEF RouteSet
  <1> QED
    BY <1>1, OnlyRoutes DEF Without

\* The muxes of a list that one was registered in, at its rank.
LEMMA RegisteredRoutes ==
    ASSUME entries \in Seq(RevMuxes), NEW m \in RevMuxes
    PROVE  /\ Registered(m) \in Seq(RevMuxes)
           /\ RouteSet(Registered(m)) = RouteSet(entries) \cup {m}
  <1> DEFINE out == Without(entries, m)
             worse == {i \in 1..Len(out) : Rank(m) <= Rank(out[i])}
             at == IF worse = {} THEN Len(out) + 1 ELSE CHOOSE i \in worse : \A j \in worse : i <= j
  <1>1. out \in Seq(RevMuxes) /\ RouteSet(out) = RouteSet(entries) \ {m}
    BY WithoutRoutes, Zenon
  <1>2. Registered(m) = SubSeq(out, 1, at - 1) \o <<m>> \o SubSeq(out, at, Len(out))
    BY Zenon DEF Registered
  <1>3. at \in 1..(Len(out) + 1)
    <2>1. CASE worse = {}
      BY <1>1, <2>1
    <2>2. CASE worse # {}
      <3>1. worse \subseteq Nat /\ worse \subseteq 1..Len(out)
        OBVIOUS
      <3> HIDE DEF worse, out
      <3>2. \E i \in worse : \A j \in worse : i <= j
        BY <2>2, <3>1, SmallestNat, Zenon
      <3>3. at \in worse
        BY <2>2, <3>2, Zenon
      <3>4. Len(out) \in Nat
        BY <1>1
      <3> HIDE DEF at
      <3> QED
        BY <3>1, <3>3, <3>4
    <2> QED
      BY <2>1, <2>2, Zenon
  <1> DEFINE r == SubSeq(out, 1, at - 1) \o <<m>> \o SubSeq(out, at, Len(out))
  <1> HIDE DEF out, at
  <1>4. /\ r \in Seq(RevMuxes) /\ Len(r) = Len(out) + 1 /\ r[at] = m
        /\ \A i \in 1..Len(out) : r[IF i < at THEN i ELSE i + 1] = out[i]
        /\ \A i \in 1..Len(r) : i # at => r[i] = out[IF i < at THEN i ELSE i - 1]
    <2> DEFINE a == SubSeq(out, 1, at - 1)
               b == SubSeq(out, at, Len(out))
               am == a \o <<m>>
    <2>0. Len(out) \in Nat /\ at \in Nat /\ at >= 1 /\ at <= Len(out) + 1
      BY <1>1, <1>3
    <2>1. a \in Seq(RevMuxes) /\ Len(a) = at - 1 /\ \A i \in 1..(at - 1) : a[i] = out[i]
      BY <1>1, <2>0
    <2>2. b \in Seq(RevMuxes) /\ Len(b) = Len(out) - at + 1
          /\ \A i \in 1..(Len(out) - at + 1) : b[i] = out[at + i - 1]
      BY <1>1, <2>0
    <2>3. r = am \o b
      BY Zenon
    <2> HIDE DEF a, b, r
    <2>4. am \in Seq(RevMuxes) /\ Len(am) = at /\ am[at] = m /\ \A i \in 1..(at - 1) : am[i] = out[i]
      BY <2>0, <2>1
    <2> HIDE DEF am
    <2>5. r \in Seq(RevMuxes) /\ Len(r) = Len(out) + 1
          /\ (\A i \in 1..at : r[i] = am[i])
          /\ (\A i \in 1..(Len(out) - at + 1) : r[at + i] = b[i])
      BY <2>0, <2>2, <2>3, <2>4, SMTT(30)
    <2>6. ASSUME NEW i \in 1..Len(out) PROVE r[IF i < at THEN i ELSE i + 1] = out[i]
      <3>1. CASE i < at
        BY <2>0, <2>4, <2>5, <3>1, SMTT(30)
      <3>2. CASE i >= at
        <4>1. i - at + 1 \in 1..(Len(out) - at + 1) /\ at + (i - at + 1) = i + 1
              /\ at + (i - at + 1) - 1 = i /\ ~(i < at)
          BY <2>0, <3>2
        <4>2. r[at + (i - at + 1)] = out[at + (i - at + 1) - 1]
          BY <2>2, <2>5, <4>1, Zenon
        <4> QED
          BY <4>1, <4>2, Zenon
      <3> QED
        BY <2>0, <3>1, <3>2
    <2>7. ASSUME NEW i \in 1..Len(r), i # at PROVE r[i] = out[IF i < at THEN i ELSE i - 1]
      <3>1. CASE i < at
        BY <2>0, <2>4, <2>5, <3>1
      <3>2. CASE i > at
        <4>1. i - 1 \in 1..Len(out) /\ ~(i - 1 < at) /\ (i - 1) + 1 = i /\ ~(i < at)
          BY <2>0, <2>5, <3>2
        <4> QED
          BY <2>6, <4>1, Zenon
      <3> QED
        BY <2>0, <2>5, <2>7, <3>1, <3>2
    <2>8. r[at] = m
      BY <2>0, <2>4, <2>5
    <2> QED
      BY <2>5, <2>6, <2>7, <2>8, Zenon
  <1> HIDE DEF r
  <1>5. RouteSet(r) = RouteSet(out) \cup {m}
    <2>0. Len(out) \in Nat /\ at \in Nat
      BY <1>1, <1>3
    <2>1. ASSUME NEW x \in RouteSet(r) PROVE x \in RouteSet(out) \cup {m}
      <3>1. PICK i \in 1..Len(r) : x = r[i]
        BY Zenon DEF RouteSet
      <3>2. i # at => (IF i < at THEN i ELSE i - 1) \in 1..Len(out)
        BY <1>3, <1>4, <2>0
      <3> QED
        BY <1>4, <3>1, <3>2, Zenon DEF RouteSet
    <2>2. ASSUME NEW x \in RouteSet(out) PROVE x \in RouteSet(r)
      <3>1. PICK i \in 1..Len(out) : x = out[i]
        BY Zenon DEF RouteSet
      <3>2. (IF i < at THEN i ELSE i + 1) \in 1..Len(r)
        BY <1>4, <2>0
      <3> QED
        BY <1>4, <3>1, <3>2, Zenon DEF RouteSet
    <2>3. m \in RouteSet(r)
      BY <1>3, <1>4, <2>0, Zenon DEF RouteSet
    <2> QED
      BY <2>1, <2>2, <2>3, Zenon
  <1> QED
    BY <1>1, <1>2, <1>4, <1>5, Zenon DEF r

RevTypes ==
    /\ revState \in [RevMuxes -> {"new", "open", "invalid", "closed"}]
    /\ listed \subseteq RevMuxes /\ entries \in Seq(RevMuxes)
    /\ reader \in [RevMuxes -> {"idle", "checked", "locked", "refused", "done"}]
    /\ account \in {"allowed", "plain", "disabled"} /\ refreshing \in BOOLEAN

\* The table between registrations, refreshes and cleanups.
RoutesInv ==
    /\ RevTypes
    \* what leaves muxConns is closed
    /\ \A m \in RevMuxes : revState[m] \in {"open", "invalid"} => m \in listed
    /\ \A m \in RevMuxes : revState[m] = "new" => reader[m] = "idle"
    /\ \A m \in RouteSet(entries) :
          /\ reader[m] \in {"locked", "refused", "done"}
          /\ reader[m] = "done" => m \in listed
          \* the lock keeps a refresh away from a registration
          /\ account # "allowed" => reader[m] # "locked"
          /\ ~refreshing /\ account # "allowed" => reader[m] = "refused"

\* The forwarders that have a channel on m.
Users(k, m) == {f \in Forwarders : k[f].pc \in Holding /\ Head(k[f].list) = m}

\* The channels of the forwarders.
FwdInv ==
    /\ revState \in [RevMuxes -> {"new", "open", "invalid", "closed"}]
    /\ entries \in Seq(RevMuxes)
    /\ allocs \in [RevMuxes -> Nat] /\ active \in [RevMuxes -> Nat]
    /\ fwd \in [Forwarders -> [pc : FwdPlace, list : Seq(RevMuxes), close : BOOLEAN]]
    /\ \A f \in Forwarders : fwd[f].pc \in Holding \cup {"try", "drop"} => fwd[f].list # <<>>
    /\ \A m \in RevMuxes : revState[m] # "closed" => active[m] = Cardinality(Users(fwd, m))
    \* a mux without channel IDs that was out of use stays out of use
    /\ \A f \in Forwarders : fwd[f].pc = "drop" /\ fwd[f].close =>
          /\ allocs[Candidate(f)] >= MaxAllocs
          /\ revState[Candidate(f)] # "closed" => active[Candidate(f)] = 0
    /\ ~retiredBusy

\* A forwarder that tries a candidate has one.
LEMMA CandidateIsMux ==
    ASSUME FwdInv, NEW f \in Forwarders, fwd[f].pc \in Holding \cup {"try", "drop"}
    PROVE  /\ Candidate(f) \in RevMuxes /\ Tail(fwd[f].list) \in Seq(RevMuxes)
           /\ Candidate(f) = Head(fwd[f].list) /\ fwd[f].list \in Seq(RevMuxes)
  <1>1. fwd[f].list \in Seq(RevMuxes) /\ fwd[f].list # <<>>
    BY Zenon DEF FwdInv
  <1> QED
    BY <1>1 DEF Candidate

\* Routes that go do no harm.
LEMMA FewerRoutes ==
    ASSUME RoutesInv, entries' \in Seq(RevMuxes), RouteSet(entries') \subseteq RouteSet(entries),
           UNCHANGED <<listed, reader, account, refreshing>>,
           revState' \in [RevMuxes -> {"new", "open", "invalid", "closed"}],
           \A m \in RevMuxes : /\ revState'[m] \in {"open", "invalid"} => m \in listed
                               /\ revState'[m] = "new" => revState[m] = "new"
    PROVE  RoutesInv'
  BY DEF RoutesInv, RevTypes

\* Every step keeps the table current.
LEMMA RoutesStep ==
    ASSUME RoutesInv, FwdInv, RevNext
    PROVE  RoutesInv'
  <1>t. /\ entries \in Seq(RevMuxes) /\ RouteSet(entries) \subseteq RevMuxes
        /\ revState \in [RevMuxes -> {"new", "open", "invalid", "closed"}]
        /\ reader \in [RevMuxes -> {"idle", "checked", "locked", "refused", "done"}]
        /\ \A m \in RevMuxes : revState[m] \in {"open", "invalid"} => m \in listed
        /\ \A m \in RevMuxes : revState[m] = "new" => reader[m] = "idle"
    BY DEF RoutesInv, RevTypes, RouteSet
  <1>1. ASSUME NEW m \in RevMuxes, Accept(m) PROVE RoutesInv'
    BY <1>1, Zenon DEF Accept, RoutesInv, RevTypes
  <1>2. ASSUME NEW m \in RevMuxes, MuxEnds(m) PROVE RoutesInv'
    BY <1>2, <1>t, FewerRoutes, Zenon DEF MuxEnds
  <1>d. ASSUME NEW m \in RevMuxes, Deny(m)
        PROVE  /\ revState' \in [RevMuxes -> {"new", "open", "invalid", "closed"}]
               /\ reader' \in [RevMuxes -> {"idle", "checked", "locked", "refused", "done"}]
               /\ \A n \in RevMuxes : revState'[n] \in {"open", "invalid"} => n \in listed
               /\ revState[m] # "new" => \A n \in RevMuxes : revState'[n] = "new" => reader'[n] = "idle"
               /\ \A n \in RevMuxes : n # m => reader'[n] = reader[n]
    BY <1>d, <1>t, Zenon DEF Deny
  <1>3. ASSUME NEW m \in RevMuxes, UpdateArrives(m) PROVE RoutesInv'
    <2>1. m \notin RouteSet(entries) /\ revState[m] # "new"
      BY <1>3, Zenon DEF UpdateArrives, RoutesInv
    <2>2. CASE account = "allowed"
      BY <1>3, <1>t, <2>1, <2>2, Zenon DEF UpdateArrives, RoutesInv, RevTypes
    <2>3. CASE account # "allowed"
      <3>1. Deny(m) /\ UNCHANGED <<listed, entries, account, refreshing>>
        BY <1>3, <2>3, Zenon DEF UpdateArrives
      <3> QED
        BY <1>d, <1>t, <2>1, <3>1 DEF RoutesInv, RevTypes
    <2> QED
      BY <2>2, <2>3, Zenon
  <1>4. ASSUME NEW m \in RevMuxes, RegisterRoute(m) PROVE RoutesInv'
    <2>1. m \notin RouteSet(entries) /\ revState[m] # "new"
      BY <1>4, Zenon DEF RegisterRoute, RoutesInv
    <2>2. CASE account = "allowed"
      <3>1. /\ entries' \in Seq(RevMuxes) /\ RouteSet(entries') = RouteSet(entries) \cup {m}
            /\ reader' = [reader EXCEPT ![m] = "locked"]
            /\ UNCHANGED <<revState, listed, account, refreshing>>
        BY <1>4, <1>t, <2>2, RegisteredRoutes, Zenon DEF RegisterRoute
      <3> QED
        BY <1>t, <2>1, <2>2, <3>1, Zenon DEF RoutesInv, RevTypes
    <2>3. CASE account # "allowed"
      <3>1. Deny(m) /\ UNCHANGED <<listed, entries, account, refreshing>>
        BY <1>4, <2>3, Zenon DEF RegisterRoute
      <3> QED
        BY <1>d, <1>t, <2>1, <3>1 DEF RoutesInv, RevTypes
    <2> QED
      BY <2>2, <2>3, Zenon
  <1>5. ASSUME NEW m \in RevMuxes, SwitchPool(m) PROVE RoutesInv'
    <2>1. /\ reader[m] = "locked" /\ UNCHANGED <<revState, listed, entries, account, refreshing>>
          /\ \/ revState[m] # "closed" /\ reader' = [reader EXCEPT ![m] = "done"]
             \/ reader' = [reader EXCEPT ![m] = "refused"]
      BY <1>5, Zenon DEF SwitchPool
    <2>2. account # "allowed" => m \notin RouteSet(entries)
      BY <2>1, Zenon DEF RoutesInv
    <2>3. CASE reader' = [reader EXCEPT ![m] = "refused"]
      BY <1>t, <2>1, <2>3 DEF RoutesInv, RevTypes
    <2>4. CASE revState[m] # "closed" /\ reader' = [reader EXCEPT ![m] = "done"]
      <3>1. revState[m] # "new" => m \in listed
        BY <1>t, <2>4, Zenon
      <3>2. revState[m] # "new"
        BY <1>t, <2>1, Zenon
      <3> QED
        BY <1>t, <2>1, <2>2, <2>4, <3>1, <3>2, Zenon DEF RoutesInv, RevTypes
    <2> QED
      BY <2>1, <2>3, <2>4, Zenon
  <1>6. ASSUME NEW m \in RevMuxes, UndoRegister(m) PROVE RoutesInv'
    <2>1. /\ reader' = [reader EXCEPT ![m] = "done"] /\ revState' = [revState EXCEPT ![m] = "closed"]
          /\ entries' \in Seq(RevMuxes) /\ RouteSet(entries') = RouteSet(entries) \ {m}
          /\ UNCHANGED <<listed, account, refreshing>>
      BY <1>6, <1>t, WithoutRoutes, Zenon DEF UndoRegister
    <2> QED
      BY <1>t, <2>1, Zenon DEF RoutesInv, RevTypes
  <1>7. ASSUME NEW m \in RevMuxes, CleanupIdle(m) PROVE RoutesInv'
    <2>1. /\ listed' = listed \ {m} /\ revState' = [revState EXCEPT ![m] = "closed"]
          /\ entries' \in Seq(RevMuxes) /\ RouteSet(entries') = RouteSet(entries) \ {m}
          /\ UNCHANGED <<reader, account, refreshing>>
      BY <1>7, <1>t, WithoutRoutes, Zenon DEF CleanupIdle
    <2> QED
      BY <1>t, <2>1, Zenon DEF RoutesInv, RevTypes
  <1>8. CASE SetAccount
    BY <1>8, <1>t, Zenon DEF SetAccount, RoutesInv, RevTypes
  <1>9. CASE CloseUnavailable
    <2>1. refreshing /\ refreshing' = FALSE /\ UNCHANGED <<reader, account>>
      BY <1>9, Zenon DEF CloseUnavailable
    <2>2. /\ revState' \in [RevMuxes -> {"new", "open", "invalid", "closed"}]
          /\ listed' \in {listed, {}}
          /\ \A m \in RevMuxes : /\ revState'[m] \in {"open", "invalid"} => m \in listed'
                                 /\ revState'[m] = "new" => reader[m] = "idle"
      BY <1>9, <1>t DEF CloseUnavailable
    <2>3. CASE account = "allowed"
      <3>1. entries' = entries /\ listed' = listed
        BY <1>9, <2>3, Zenon DEF CloseUnavailable
      <3>2. RevTypes'
        BY <2>1, <2>2, <3>1, ZenonT(40) DEF RoutesInv, RevTypes
      <3>3. \A m \in RouteSet(entries') :
              /\ reader'[m] \in {"locked", "refused", "done"}
              /\ reader'[m] = "done" => m \in listed'
        BY <2>1, <3>1 DEF RoutesInv
      <3> QED
        BY <2>1, <2>2, <2>3, <3>2, <3>3, Zenon DEF RoutesInv
    <2>4. CASE account # "allowed"
      <3>1. /\ entries' \in Seq(RevMuxes)
            /\ RouteSet(entries') = RouteSet(entries) \cap (RevMuxes \ listed)
        BY <1>9, <1>t, <2>4, OnlyRoutes, SMTT(30) DEF CloseUnavailable
      <3>2. \A m \in RouteSet(entries') : reader[m] = "refused"
        BY <2>4, <3>1, Zenon DEF RoutesInv
      <3>3. RevTypes'
        BY <2>1, <2>2, <3>1, Zenon DEF RoutesInv, RevTypes
      <3>4. \A m \in RouteSet(entries') : reader'[m] = "refused"
        BY <2>1, <3>2, Zenon
      <3> QED
        BY <2>1, <2>2, <3>3, <3>4, Zenon DEF RoutesInv
    <2> QED
      BY <2>3, <2>4, Zenon
  <1>10. ASSUME NEW f \in Forwarders, ForwardStep(f) \/ RelayEnds(f) PROVE RoutesInv'
    <2>1. UNCHANGED <<listed, reader, account, refreshing>>
      BY <1>10, Zenon DEF ForwardStep, RelayEnds, Match, SkipDead, SeeExhausted, DropExhausted, Alloc,
                   SendRequest, Answer, NoAnswer
    <2>2. CASE Match(f) \/ SeeExhausted(f) \/ Alloc(f) \/ Answer(f) \/ RelayEnds(f)
      <3>1. UNCHANGED <<revState, entries>>
        BY <2>2, Zenon DEF Match, SeeExhausted, Alloc, Answer, RelayEnds
      <3> QED
        BY <1>t, <2>1, <3>1, FewerRoutes, SMTT(30)
    <2>3. CASE SkipDead(f) \/ DropExhausted(f) \/ SendRequest(f) \/ NoAnswer(f)
      <3>1. fwd[f].pc \in Holding \cup {"try", "drop"}
        BY <2>3, Zenon DEF SkipDead, DropExhausted, SendRequest, NoAnswer, Holding
      <3>2. PICK m \in RevMuxes : m = Candidate(f)
        BY <3>1, CandidateIsMux, SMTT(30)
      <3>3. entries' = entries \/ entries' = Without(entries, m)
        BY <2>3, <3>2, Zenon DEF SkipDead, DropExhausted, SendRequest, NoAnswer
      <3>4. entries' \in Seq(RevMuxes) /\ RouteSet(entries') \subseteq RouteSet(entries)
        BY <1>t, <3>3, WithoutRoutes, SMTT(30)
      <3>5. revState' = revState \/ revState' = [revState EXCEPT ![m] = "closed"]
        BY <1>t, <2>3, <3>2, Zenon DEF SkipDead, DropExhausted, SendRequest, NoAnswer
      <3>6. /\ revState' \in [RevMuxes -> {"new", "open", "invalid", "closed"}]
            /\ \A n \in RevMuxes : /\ revState'[n] \in {"open", "invalid"} => n \in listed
                                   /\ revState'[n] = "new" => revState[n] = "new"
        BY <1>t, <3>5, Zenon
      <3> HIDE DEF RoutesInv, FwdInv
      <3>7. \A n \in RevMuxes : revState'[n] \in {"open", "invalid"} => n \in listed
        BY <3>6, Zenon
      <3>8. \A n \in RevMuxes : revState'[n] = "new" => revState[n] = "new"
        BY <3>6, Zenon
      <3> QED
        BY <2>1, <3>4, <3>6, <3>7, <3>8, FewerRoutes, SMTT(30)
    <2> QED
      BY <1>10, <2>2, <2>3, Zenon DEF ForwardStep
  <1> QED
    BY <1>1, <1>2, <1>3, <1>4, <1>5, <1>6, <1>7, <1>8, <1>9, <1>10, Zenon DEF RevNext

Forwarder == [pc : FwdPlace, list : Seq(RevMuxes), close : BOOLEAN]

\* The forwarders that hold a channel of a mux are finitely many.
LEMMA UsersCounted ==
    ASSUME NEW k, NEW m
    PROVE  IsFiniteSet(Users(k, m)) /\ Cardinality(Users(k, m)) \in Nat
  <1>1. Users(k, m) \subseteq Forwarders
    BY Zenon DEF Users
  <1> QED
    BY <1>1, RouteConstants, FS_Subset, FS_CardinalityType, Zenon

\* A step in which no forwarder takes or gives back a channel.
LEMMA NoChannelMoves ==
    ASSUME FwdInv, entries' \in Seq(RevMuxes), UNCHANGED <<allocs, active, retiredBusy>>,
           revState' \in [RevMuxes -> {"new", "open", "invalid", "closed"}],
           \A m \in RevMuxes : revState'[m] # "closed" => revState[m] # "closed",
           fwd' \in [Forwarders -> Forwarder],
           \A f \in Forwarders :
              \/ fwd'[f] = fwd[f]
              \/ /\ fwd'[f].list # <<>> /\ fwd'[f].list = fwd[f].list
                 /\ fwd'[f].pc \in Holding /\ fwd[f].pc \in Holding
              \/ /\ fwd[f].pc \notin Holding /\ fwd'[f].pc \in {"try", "over"}
                 /\ fwd'[f].pc = "try" => fwd'[f].list # <<>>
              \/ /\ fwd[f].pc = "try" /\ fwd'[f].pc = "drop" /\ fwd'[f].list = fwd[f].list
                 /\ allocs[Candidate(f)] >= MaxAllocs
                 /\ fwd'[f].close => active[Candidate(f)] = 0
    PROVE  FwdInv'
  <1>1. \A m \in RevMuxes : Users(fwd', m) = Users(fwd, m)
    BY DEF Users, Holding
  <1>2. \A f \in Forwarders : fwd'[f].pc \in Holding \cup {"try", "drop"} => fwd'[f].list # <<>>
    BY ZenonT(40) DEF FwdInv, Holding
  <1>3. ASSUME NEW f \in Forwarders, fwd'[f].pc = "drop", fwd'[f].close
        PROVE  /\ Candidate(f)' = Candidate(f) /\ Candidate(f) \in RevMuxes
               /\ allocs[Candidate(f)] >= MaxAllocs
               /\ revState[Candidate(f)] # "closed" => active[Candidate(f)] = 0
    <2>1. /\ fwd[f].pc \in {"try", "drop"} /\ fwd'[f].list = fwd[f].list
          /\ allocs[Candidate(f)] >= MaxAllocs
          /\ revState[Candidate(f)] # "closed" => active[Candidate(f)] = 0
      BY <1>3, Zenon DEF FwdInv, Holding
    <2> QED
      BY <2>1, CandidateIsMux, Zenon DEF Candidate
  <1>4. /\ ~retiredBusy' /\ allocs' \in [RevMuxes -> Nat] /\ active' \in [RevMuxes -> Nat]
        /\ \A m \in RevMuxes : revState'[m] # "closed" => active'[m] = Cardinality(Users(fwd', m))
    BY <1>1 DEF FwdInv
  <1>5. \A f \in Forwarders : fwd'[f].pc = "drop" /\ fwd'[f].close =>
          /\ allocs'[Candidate(f)'] >= MaxAllocs
          /\ revState'[Candidate(f)'] # "closed" => active'[Candidate(f)'] = 0
    BY <1>3, Zenon
  <1> QED
    BY <1>2, <1>4, <1>5, Zenon DEF FwdInv, Forwarder

\* A step in which a forwarder gives its channel back.
LEMMA ChannelReleased ==
    ASSUME FwdInv, entries' \in Seq(RevMuxes), UNCHANGED <<allocs, retiredBusy>>,
           revState' \in [RevMuxes -> {"new", "open", "invalid", "closed"}],
           \A m \in RevMuxes : revState'[m] # "closed" => revState[m] # "closed",
           NEW f \in Forwarders, fwd[f].pc \in Holding, Release(Candidate(f)),
           NEW r \in Forwarder, fwd' = [fwd EXCEPT ![f] = r],
           r.pc \in {"try", "over"}, r.pc = "try" => r.list # <<>>
    PROVE  FwdInv'
  <1>1. PICK m \in RevMuxes : m = Candidate(f)
    BY CandidateIsMux, Zenon
  <1>2. active' = [active EXCEPT ![m] = IF revState[m] = "closed" THEN active[m] ELSE active[m] - 1]
    BY <1>1, Zenon DEF Release
  <1>3. fwd' \in [Forwarders -> Forwarder] /\ fwd'[f] = r /\ \A g \in Forwarders : g # f => fwd'[g] = fwd[g]
    BY Zenon DEF FwdInv, Forwarder
  <1>4. \A n \in RevMuxes : n # m => Users(fwd', n) = Users(fwd, n)
    BY <1>1, <1>3 DEF Users, Holding, Candidate
  <1>5. Users(fwd', m) = Users(fwd, m) \ {f} /\ f \in Users(fwd, m)
    BY <1>1, <1>3, Zenon DEF Users, Holding, Candidate
  <1>6. Cardinality(Users(fwd', m)) = Cardinality(Users(fwd, m)) - 1
        /\ Cardinality(Users(fwd, m)) \in Nat /\ Cardinality(Users(fwd', m)) \in Nat
    BY <1>5, UsersCounted, FS_RemoveElement, ZenonT(40)
  <1>7. active' \in [RevMuxes -> Nat] /\ \A n \in RevMuxes : active[n] = 0 => active'[n] = 0
    <2>0. active \in [RevMuxes -> Nat]
      BY Zenon DEF FwdInv
    <2>1. CASE revState[m] = "closed"
      BY <1>2, <2>0, <2>1, Zenon
    <2>2. CASE revState[m] # "closed"
      <3>1. active[m] = Cardinality(Users(fwd, m))
        BY <2>2, Zenon DEF FwdInv
      <3>2. active[m] - 1 \in Nat
        BY <1>6, <3>1, Zenon
      <3> QED
        BY <1>2, <1>6, <2>0, <2>2, <3>1, <3>2
    <2> QED
      BY <2>1, <2>2, Zenon
  <1>8. \A n \in RevMuxes : revState'[n] # "closed" => active'[n] = Cardinality(Users(fwd', n))
    <2> SUFFICES ASSUME NEW n \in RevMuxes, revState'[n] # "closed"
                 PROVE  active'[n] = Cardinality(Users(fwd', n))
      BY Zenon
    <2>1. active[n] = Cardinality(Users(fwd, n)) /\ revState[n] # "closed"
      BY Zenon DEF FwdInv
    <2>2. active \in [RevMuxes -> Nat]
      BY Zenon DEF FwdInv
    <2> QED
      BY <1>2, <1>4, <1>6, <2>1, <2>2, Zenon
  <1>9. ASSUME NEW g \in Forwarders, fwd'[g].pc = "drop", fwd'[g].close
        PROVE  /\ allocs'[Candidate(g)'] >= MaxAllocs
               /\ revState'[Candidate(g)'] # "closed" => active'[Candidate(g)'] = 0
    <2>1. fwd'[g] = fwd[g] /\ fwd[g].pc = "drop" /\ fwd[g].close
      BY <1>3, <1>9, Zenon
    <2>2. Candidate(g)' = Candidate(g) /\ Candidate(g) \in RevMuxes
      BY <2>1, CandidateIsMux, Zenon DEF Candidate
    <2> QED
      BY <1>7, <2>1, <2>2, Zenon DEF FwdInv
  <1>10. \A g \in Forwarders : fwd'[g].pc \in Holding \cup {"try", "drop"} => fwd'[g].list # <<>>
    BY <1>3, Zenon DEF FwdInv, Holding
  <1> QED
    BY <1>3, <1>7, <1>8, <1>9, <1>10, Zenon DEF FwdInv, Forwarder

\* What Tries leaves of a forwarder.
LEMMA TriesNext ==
    ASSUME FwdInv, NEW f \in Forwarders, NEW l \in Seq(RevMuxes), Tries(f, l)
    PROVE  \E r \in Forwarder : /\ fwd' = [fwd EXCEPT ![f] = r] /\ r.pc \in {"try", "over"}
                                /\ r.pc = "try" => r.list # <<>>
  <1> DEFINE r == [pc |-> IF l = <<>> THEN "over" ELSE "try", list |-> l, close |-> FALSE]
  <1>1. r \in Forwarder /\ r.pc \in {"try", "over"} /\ (r.pc = "try" => r.list # <<>>)
    BY Zenon DEF Forwarder, FwdPlace
  <1> QED
    BY <1>1, Zenon DEF Tries

\* A forwarder that leaves a candidate tries the next or is done.
LEMMA LeavesNext ==
    ASSUME FwdInv, NEW f \in Forwarders, Leaves(f)
    PROVE  \E r \in Forwarder : /\ fwd' = [fwd EXCEPT ![f] = r] /\ r.pc \in {"try", "over"}
                                /\ r.pc = "try" => r.list # <<>>
  <1> DEFINE r == [pc |-> "over", list |-> <<>>, close |-> FALSE]
  <1>1. r \in Forwarder /\ r.pc = "over"
    BY DEF Forwarder, FwdPlace
  <1> QED
    BY <1>1, Zenon DEF Leaves

\* Every step keeps the forwarders' channels accounted for.
LEMMA FwdStep ==
    ASSUME RoutesInv, FwdInv, RevNext, RoutesInv'
    PROVE  FwdInv'
  <1>t. /\ entries \in Seq(RevMuxes) /\ entries' \in Seq(RevMuxes)
        /\ revState \in [RevMuxes -> {"new", "open", "invalid", "closed"}]
        /\ revState' \in [RevMuxes -> {"new", "open", "invalid", "closed"}]
        /\ fwd \in [Forwarders -> Forwarder]
    BY Zenon DEF RoutesInv, RevTypes, FwdInv, Forwarder
  <1>1. ASSUME UNCHANGED <<allocs, active, fwd, retiredBusy>>,
               \A m \in RevMuxes : revState'[m] # "closed" => revState[m] # "closed"
        PROVE  FwdInv'
    BY <1>1, <1>t, NoChannelMoves, Zenon
  <1>2. ASSUME NEW m \in RevMuxes,
               \/ Accept(m) \/ MuxEnds(m) \/ UpdateArrives(m) \/ RegisterRoute(m)
               \/ SwitchPool(m) \/ UndoRegister(m) \/ CleanupIdle(m)
        PROVE  FwdInv'
    <2>1. UNCHANGED <<allocs, active, fwd, retiredBusy>>
      BY <1>2, Zenon DEF Accept, MuxEnds, UpdateArrives, RegisterRoute, SwitchPool, UndoRegister, CleanupIdle
    <2>2. \A n \in RevMuxes : revState'[n] # "closed" => revState[n] # "closed"
      BY <1>2, <1>t
      DEF Accept, MuxEnds, UpdateArrives, RegisterRoute, Deny, SwitchPool, UndoRegister, CleanupIdle
    <2> QED
      BY <1>1, <2>1, <2>2
  <1>3. CASE SetAccount \/ CloseUnavailable
    <2>1. /\ UNCHANGED <<allocs, active, fwd, retiredBusy>>
          /\ \A n \in RevMuxes : revState'[n] # "closed" => revState[n] # "closed"
      BY <1>3, <1>t DEF SetAccount, CloseUnavailable
    <2> QED
      BY <1>1, <2>1, Zenon
  <1>4. ASSUME NEW f \in Forwarders, Match(f) PROVE FwdInv'
    <2>1. /\ UNCHANGED <<revState, entries, allocs, active, retiredBusy>>
          /\ fwd[f].pc = "idle" /\ Tries(f, entries)
      BY <1>4 DEF Match
    <2>2. PICK r \in Forwarder : /\ fwd' = [fwd EXCEPT ![f] = r] /\ r.pc \in {"try", "over"}
                                 /\ r.pc = "try" => r.list # <<>>
      BY <1>t, <2>1, TriesNext, Zenon
    <2>3. fwd' \in [Forwarders -> Forwarder] /\ fwd'[f] = r /\ \A g \in Forwarders : g # f => fwd'[g] = fwd[g]
      BY <1>t, <2>2
    <2> QED
      BY <1>t, <2>1, <2>2, <2>3, NoChannelMoves, Zenon DEF Holding
  <1>5. ASSUME NEW f \in Forwarders, SkipDead(f) PROVE FwdInv'
    <2>1. /\ UNCHANGED <<revState, allocs, active, retiredBusy>>
          /\ fwd[f].pc = "try" /\ Tries(f, Tail(fwd[f].list))
      BY <1>5 DEF SkipDead, NextEntry
    <2>2. PICK r \in Forwarder : /\ fwd' = [fwd EXCEPT ![f] = r] /\ r.pc \in {"try", "over"}
                                 /\ r.pc = "try" => r.list # <<>>
      BY <2>1, CandidateIsMux, TriesNext, Zenon
    <2>3. fwd' \in [Forwarders -> Forwarder] /\ fwd'[f] = r /\ \A g \in Forwarders : g # f => fwd'[g] = fwd[g]
      BY <1>t, <2>2, Zenon
    <2> QED
      BY <1>t, <2>1, <2>2, <2>3, NoChannelMoves, SMTT(30) DEF Holding
  <1>6. ASSUME NEW f \in Forwarders, SeeExhausted(f) PROVE FwdInv'
    <2>1. /\ UNCHANGED <<revState, entries, allocs, active, retiredBusy>>
          /\ fwd[f].pc = "try" /\ allocs[Candidate(f)] = MaxAllocs
      BY <1>6, Zenon DEF SeeExhausted
    <2>2. PICK b \in BOOLEAN : b = (active[Candidate(f)] = 0)
      BY Zenon
    <2> DEFINE k == [fwd EXCEPT ![f].pc = "drop"]
    <2>3. k \in [Forwarders -> Forwarder] /\ k[f].pc = "drop" /\ k[f].list = fwd[f].list
          /\ \A g \in Forwarders : g # f => k[g] = fwd[g]
      BY <1>t, Zenon DEF Forwarder, FwdPlace
    <2>4. fwd' = [k EXCEPT ![f].close = b]
      BY <1>6, <2>2, Zenon DEF SeeExhausted
    <2> HIDE DEF k
    <2>5. fwd' \in [Forwarders -> Forwarder] /\ fwd'[f].pc = "drop" /\ fwd'[f].list = fwd[f].list
          /\ fwd'[f].close = b /\ \A g \in Forwarders : g # f => fwd'[g] = fwd[g]
      BY <2>3, <2>4, Zenon DEF Forwarder
    <2>6. MaxAllocs >= MaxAllocs
      BY RouteConstants
    <2> QED
      BY <1>t, <2>1, <2>2, <2>5, <2>6, NoChannelMoves, ZenonT(40)
  <1>7. ASSUME NEW f \in Forwarders, DropExhausted(f) PROVE FwdInv'
    <2>1. fwd[f].pc = "drop" /\ Tries(f, Tail(fwd[f].list)) /\ UNCHANGED <<allocs, active>>
      BY <1>7, Zenon DEF DropExhausted, NextEntry
    <2>2. PICK m \in RevMuxes : m = Candidate(f)
      BY <2>1, CandidateIsMux, Zenon
    <2>3. revState' = revState \/ revState' = [revState EXCEPT ![m] = "closed"]
      BY <1>7, <1>t, <2>2, Zenon DEF DropExhausted
    <2>4. retiredBusy' = retiredBusy
      <3>1. ~(fwd[f].close /\ revState[m] = "open" /\ active[m] > 0)
        <4>1. fwd[f].close => (revState[m] # "closed" => active[m] = 0)
          BY <2>1, <2>2, Zenon DEF FwdInv
        <4>2. active[m] = 0 => ~(active[m] > 0)
          OBVIOUS
        <4> QED
          BY <4>1, <4>2, Zenon
      <3>2. retiredBusy' = (retiredBusy \/ (fwd[f].close /\ revState[m] = "open" /\ active[m] > 0))
        BY <1>7, <2>2, Zenon DEF DropExhausted
      <3>3. retiredBusy = FALSE
        BY DEF FwdInv
      <3> QED
        BY <3>1, <3>2, <3>3, Zenon
    <2>5. PICK r \in Forwarder : /\ fwd' = [fwd EXCEPT ![f] = r] /\ r.pc \in {"try", "over"}
                                 /\ r.pc = "try" => r.list # <<>>
      BY <2>1, CandidateIsMux, TriesNext, Zenon
    <2>6. fwd' \in [Forwarders -> Forwarder] /\ fwd'[f] = r /\ \A g \in Forwarders : g # f => fwd'[g] = fwd[g]
      BY <1>t, <2>5, Zenon
    <2>7. \A n \in RevMuxes : revState'[n] # "closed" => revState[n] # "closed"
      BY <1>t, <2>3, Zenon
    <2> QED
      BY <1>t, <2>1, <2>4, <2>5, <2>6, <2>7, NoChannelMoves, SMTT(30) DEF Holding
  <1>8. ASSUME NEW f \in Forwarders, Alloc(f) PROVE FwdInv'
    <2>1. /\ fwd[f].pc = "try" /\ fwd' = [fwd EXCEPT ![f].pc = "send"]
          /\ UNCHANGED <<revState, entries, retiredBusy>>
      BY <1>8, Zenon DEF Alloc, Move
    <2>2. PICK m \in RevMuxes : m = Candidate(f)
      BY <2>1, CandidateIsMux
    <2>3. /\ allocs[m] < MaxAllocs /\ allocs' = [allocs EXCEPT ![m] = allocs[m] + 1]
          /\ active' = [active EXCEPT ![m] = active[m] + 1] /\ allocs \in [RevMuxes -> Nat]
          /\ active \in [RevMuxes -> Nat]
      BY <1>8, <2>2, Zenon DEF Alloc, FwdInv
    <2>4. fwd' \in [Forwarders -> Forwarder] /\ fwd'[f].pc = "send" /\ fwd'[f].list = fwd[f].list
          /\ \A g \in Forwarders : g # f => fwd'[g] = fwd[g]
      BY <1>t, <2>1, Zenon DEF Forwarder, FwdPlace
    <2>5. \A n \in RevMuxes : n # m => Users(fwd', n) = Users(fwd, n)
      BY <2>1, <2>2, <2>4, Zenon DEF Users, Holding, Candidate
    <2>6. Users(fwd', m) = Users(fwd, m) \cup {f} /\ f \notin Users(fwd, m)
      BY <2>1, <2>2, <2>4 DEF Users, Holding, Candidate
    <2>7. Cardinality(Users(fwd', m)) = Cardinality(Users(fwd, m)) + 1
      BY <2>6, UsersCounted, FS_AddElement, Zenon
    <2>8. \A n \in RevMuxes : revState'[n] # "closed" => active'[n] = Cardinality(Users(fwd', n))
      BY <2>1, <2>3, <2>5, <2>7, Zenon DEF FwdInv
    <2>9. ASSUME NEW g \in Forwarders, fwd'[g].pc = "drop", fwd'[g].close
          PROVE  /\ allocs'[Candidate(g)'] >= MaxAllocs
                 /\ revState'[Candidate(g)'] # "closed" => active'[Candidate(g)'] = 0
      <3>1. fwd'[g] = fwd[g] /\ fwd[g].pc = "drop" /\ fwd[g].close
        BY <2>4, <2>9
      <3>2. Candidate(g)' = Candidate(g)
        BY <3>1, Zenon DEF Candidate
      <3>3. PICK n \in RevMuxes : n = Candidate(g)
        BY <3>1, CandidateIsMux
      <3>4. allocs[n] >= MaxAllocs /\ (revState[n] # "closed" => active[n] = 0)
        BY <3>1, <3>3, Zenon DEF FwdInv
      <3>5. n # m
        BY <2>3, <3>4, RouteConstants
      <3> QED
        BY <2>1, <2>3, <3>2, <3>3, <3>4, <3>5, SMTT(30)
    <2>10. \A g \in Forwarders : fwd'[g].pc \in Holding \cup {"try", "drop"} => fwd'[g].list # <<>>
      BY <2>1, <2>4 DEF FwdInv, Holding
    <2>11. allocs' \in [RevMuxes -> Nat] /\ active' \in [RevMuxes -> Nat]
      BY <2>3
    <2> QED
      BY <1>t, <2>1, <2>4, <2>8, <2>9, <2>10, <2>11, ZenonT(40) DEF FwdInv, Forwarder
  <1>9. ASSUME NEW f \in Forwarders, NEW p \in Holding, fwd[f].pc \in Holding, Move(f, p),
               UNCHANGED <<revState, allocs, active, retiredBusy>>
        PROVE  FwdInv'
    <2>1. fwd' \in [Forwarders -> Forwarder] /\ fwd'[f].pc = p /\ fwd'[f].list = fwd[f].list
          /\ \A g \in Forwarders : g # f => fwd'[g] = fwd[g]
      BY <1>t, <1>9, Zenon DEF Move, Forwarder, FwdPlace, Holding
    <2>2. fwd[f].list # <<>>
      BY <1>9, Zenon DEF FwdInv
    <2> QED
      BY <1>t, <1>9, <2>1, <2>2, NoChannelMoves
  <1>10. ASSUME NEW f \in Forwarders, fwd[f].pc \in Holding, Release(Candidate(f)),
                NextEntry(f) \/ Leaves(f), UNCHANGED <<allocs, retiredBusy>>,
                \/ revState' = revState
                \/ revState' = [revState EXCEPT ![Candidate(f)] = "closed"]
         PROVE  FwdInv'
    <2>1. PICK r \in Forwarder : /\ fwd' = [fwd EXCEPT ![f] = r] /\ r.pc \in {"try", "over"}
                                 /\ r.pc = "try" => r.list # <<>>
      <3>1. CASE Leaves(f)
        BY <3>1, LeavesNext
      <3>2. CASE NextEntry(f)
        BY <1>10, <3>2, CandidateIsMux, TriesNext, Zenon DEF NextEntry
      <3> QED
        BY <1>10, <3>1, <3>2, Zenon
    <2>2. \A n \in RevMuxes : revState'[n] # "closed" => revState[n] # "closed"
      BY <1>t, <1>10, CandidateIsMux
    <2> QED
      BY <1>t, <1>10, <2>1, <2>2, ChannelReleased, Zenon
  <1>11. ASSUME NEW f \in Forwarders, SendRequest(f) PROVE FwdInv'
    <2>1. fwd[f].pc = "send" /\ "wait" \in Holding /\ UNCHANGED <<allocs, retiredBusy>>
      BY <1>11 DEF SendRequest, Holding
    <2>2. CASE Move(f, "wait") /\ UNCHANGED <<revState, active>>
      BY <1>9, <2>1, <2>2, Zenon DEF Holding
    <2>3. CASE /\ Release(Candidate(f)) /\ NextEntry(f)
               /\ revState' = [revState EXCEPT ![Candidate(f)] = IF @ = "invalid" THEN @ ELSE "closed"]
      <3>1. PICK m \in RevMuxes : m = Candidate(f)
        BY <2>1, CandidateIsMux, Zenon DEF Holding
      <3>2. revState' = revState \/ revState' = [revState EXCEPT ![m] = "closed"]
        BY <1>t, <2>3, <3>1, Zenon
      <3> QED
        BY <1>10, <2>1, <2>3, <3>1, <3>2, ZenonT(40) DEF Holding
    <2> QED
      BY <1>11, <2>2, <2>3, Zenon DEF SendRequest
  <1>12. ASSUME NEW f \in Forwarders, Answer(f) PROVE FwdInv'
    <2>1. fwd[f].pc = "wait" /\ UNCHANGED <<revState, allocs, retiredBusy>>
          /\ \/ Move(f, "relay") /\ UNCHANGED active
             \/ Leaves(f) /\ Release(Candidate(f))
      BY <1>12 DEF Answer
    <2> QED
      BY <1>9, <1>10, <2>1, Zenon DEF Holding
  <1>13. ASSUME NEW f \in Forwarders, NoAnswer(f) \/ RelayEnds(f) PROVE FwdInv'
    <2>1. /\ fwd[f].pc \in Holding /\ Release(Candidate(f)) /\ (NextEntry(f) \/ Leaves(f))
          /\ UNCHANGED <<allocs, retiredBusy>>
      BY <1>13, Zenon DEF NoAnswer, RelayEnds, Holding
    <2>2. revState' = revState \/ revState' = [revState EXCEPT ![Candidate(f)] = "closed"]
      BY <1>13, Zenon DEF NoAnswer, RelayEnds
    <2> QED
      BY <1>10, <2>1, <2>2, Zenon
  <1> QED
    BY <1>2, <1>3, <1>4, <1>5, <1>6, <1>7, <1>8, <1>11, <1>12, <1>13, SMTT(30) DEF RevNext, ForwardStep

RevInv == RoutesInv /\ FwdInv

\* The inductive invariant holds throughout.
LEMMA AlwaysRevInv == RevSpec => []RevInv
  <1>1. RevInit => RevInv
    <2> SUFFICES ASSUME RevInit PROVE RoutesInv /\ FwdInv
      BY Zenon DEF RevInv
    <2>0. entries = <<>> /\ entries \in Seq(RevMuxes) /\ RouteSet(entries) = {}
      BY DEF RevInit, RouteSet
    <2>1. RoutesInv
      BY <2>0, Zenon DEF RevInit, RoutesInv, RevTypes
    <2>2. \A m \in RevMuxes : Users(fwd, m) = {}
      BY Zenon DEF RevInit, Users, Holding
    <2>3. Cardinality({}) = 0
      BY FS_EmptySet, Zenon
    <2>4. fwd \in [Forwarders -> Forwarder]
      BY DEF RevInit, Forwarder, FwdPlace
    <2>5. \A f \in Forwarders : fwd[f].pc = "idle"
      BY Zenon DEF RevInit
    <2>6. \A m \in RevMuxes : active[m] = 0
      BY Zenon DEF RevInit
    <2>7. \A f \in Forwarders : fwd[f].pc \notin Holding \cup {"try", "drop"}
      BY <2>5, Zenon DEF Holding
    <2>8. /\ revState \in [RevMuxes -> {"new", "open", "invalid", "closed"}]
          /\ allocs \in [RevMuxes -> Nat] /\ active \in [RevMuxes -> Nat] /\ ~retiredBusy
      BY Zenon DEF RevInit
    <2> QED
      BY <2>0, <2>1, <2>2, <2>3, <2>4, <2>5, <2>6, <2>7, <2>8, ZenonT(40) DEF FwdInv, Forwarder
  <1>2. RevInv /\ [RevNext]_revVars => RevInv'
    <2>1. CASE RevNext
      BY <2>1, RoutesStep, FwdStep, Zenon DEF RevInv
    <2>2. CASE UNCHANGED revVars
      BY <2>2, Zenon DEF revVars, RevInv, RoutesInv, RevTypes, FwdInv, Users, Candidate
    <2> QED
      BY <2>1, <2>2
  <1> QED
    BY <1>1, <1>2, PTL DEF RevSpec

\* For any number of muxes and forwarders: a route in the table belongs to a
\* permitted user and to a mux that is still listed, whatever registers,
\* refreshes and cleans up at the same time.
\* (cmd/server/reverse_route.go, reverse_control.go)
THEOREM RoutesStayCurrent == RevSpec => []RoutesAreCurrent
  <1>1. RevInv => RoutesAreCurrent
    BY Zenon DEF RevInv, RoutesInv, RoutesAreCurrent, RevokedRoutesGone, NoStaleRoute, RouteSet
  <1> QED
    BY <1>1, AlwaysRevInv, PTL

\* For any number of muxes, forwarders and channel IDs: no failover path leaks a
\* reverse channel, and none is closed under its user.
\* (cmd/server/reverse_forward.go)
THEOREM NoReverseChannelLost == RevSpec => []ReverseChannelsKept
  <1>1. RevInv => ReverseChannelsKept
    BY Zenon DEF RevInv, FwdInv, ReverseChannelsKept, ReverseChannelsAccounted, ExhaustedMuxSpared, Users, Candidate
  <1> QED
    BY <1>1, AlwaysRevInv, PTL

-----------------------------------------------------------------------------
(* DNSPending *)

PendInv ==
    /\ awaited \subseteq Query /\ IsFiniteSet(awaited) /\ awaited \subseteq tracked
    /\ learnt \subseteq tracked
    /\ tracks \in Nat /\ stores \in Nat
    /\ stores + Cardinality(awaited) <= tracks

\* Taking queries out of the pending map does not make it larger.
LEMMA Fewer ==
    ASSUME NEW A, NEW B, IsFiniteSet(A), B \subseteq A
    PROVE  /\ IsFiniteSet(B) /\ Cardinality(B) <= Cardinality(A)
           /\ Cardinality(A) \in Nat /\ Cardinality(B) \in Nat
  BY FS_Subset, FS_CardinalityType, Zenon

\* Every step of a query, an answer or a timer keeps the invariant.
LEMMA PendStepInv == PendInv /\ [PendNext]_pendVars => PendInv'
  <1> SUFFICES ASSUME PendInv, [PendNext]_pendVars PROVE PendInv'
    BY Zenon
  <1> USE DEF PendInv
  <1>1. ASSUME NEW q \in Query, Track(q) PROVE PendInv'
    <2> DEFINE rest == awaited \ SameKey(q.remote, q.id)
    <2>1. /\ awaited' = rest \cup {q} /\ tracked' = tracked \cup {q} /\ tracks' = tracks + 1
          /\ UNCHANGED <<learnt, stores>>
      BY <1>1, Zenon DEF Track
    <2>2. rest \subseteq awaited
      BY Zenon
    <2> HIDE DEF rest
    <2>3. IsFiniteSet(rest) /\ Cardinality(rest) <= Cardinality(awaited) /\ Cardinality(rest) \in Nat
          /\ Cardinality(awaited) \in Nat
      BY <2>2, Fewer, Zenon
    <2>4. IsFiniteSet(awaited') /\ Cardinality(awaited') <= Cardinality(rest) + 1
          /\ Cardinality(awaited') \in Nat
      <3>1. IsFiniteSet(rest \cup {q})
            /\ Cardinality(rest \cup {q}) = IF q \in rest THEN Cardinality(rest) ELSE Cardinality(rest) + 1
        BY <2>3, FS_AddElement, Zenon
      <3> QED
        BY <2>1, <2>3, <3>1
    <2> QED
      BY <2>1, <2>2, <2>3, <2>4
  <1>2. CASE WriteQuery
    <2>1. awaited' \subseteq awaited /\ UNCHANGED <<learnt, tracked, tracks, stores>>
      BY <1>2, Zenon DEF WriteQuery
    <2> QED
      BY <2>1, Fewer
  <1>3. ASSUME NEW remote \in Remotes, NEW id \in IDs, MatchAndStore(remote, id) PROVE PendInv'
    <2>1. PICK q \in SameKey(remote, id) :
            /\ awaited' = awaited \ {q}
            /\ learnt' = {r \in learnt : r.scope # q.scope \/ r.flags # q.flags}
                           \cup {[q EXCEPT !.remote = remote]}
            /\ stores' = stores + 1 /\ UNCHANGED <<writing, tracked, tracks>>
      BY <1>3, Zenon DEF MatchAndStore
    <2>2. q \in awaited /\ q \in Query /\ q.remote = remote
      BY <2>1, Zenon DEF SameKey
    <2>3. [q EXCEPT !.remote = remote] = q
      BY <2>2, Zenon DEF Query
    <2>4. /\ IsFiniteSet(awaited') /\ Cardinality(awaited') = Cardinality(awaited) - 1
          /\ Cardinality(awaited) \in Nat
      BY <2>1, <2>2, FS_RemoveElement, FS_CardinalityType, Zenon
    <2> QED
      BY <2>1, <2>2, <2>3, <2>4
  <1>4. CASE PendForgets
    <2>1. /\ awaited' \subseteq awaited /\ learnt' \subseteq learnt
          /\ UNCHANGED <<tracked, tracks, stores>>
      BY <1>4, Zenon DEF PendForgets
    <2> QED
      BY <2>1, Fewer
  <1>5. CASE UNCHANGED pendVars
    BY <1>5, Zenon DEF pendVars
  <1> QED
    BY <1>1, <1>2, <1>3, <1>4, <1>5, Zenon DEF PendNext

\* For any scopes, addresses, IDs and flags, and whatever the network sends:
\* what is cached answers a query of that scope, and no query is answered twice.
\* (serverDNSPending of cmd/server/dns_cache.go)
THEOREM ResponsesSolicited == PendSpec => []ResponsesMatchQueries
  <1>1. PendInit => PendInv
    BY FS_EmptySet DEF PendInit, PendInv
  <1>2. PendInv => ResponsesMatchQueries
    BY Zenon DEF PendInv, ResponsesMatchQueries, LearntFromAsked, OneResponsePerQuery
  <1> QED
    BY <1>1, <1>2, PendStepInv, PTL DEF PendSpec
==============================================================================
