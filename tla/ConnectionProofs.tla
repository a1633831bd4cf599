--------------------------- MODULE ConnectionProofs ---------------------------
(***************************************************************************)
(* What happens between a request and its answer, for any number of         *)
(* sessions and askers: the success cache of the client (ClientConnect),    *)
(* the shared lookups of the server's DNS (DNSFlights), and the cache both  *)
(* are built on, with its refinement of a map that may forget (TTLCache).   *)
(***************************************************************************)
EXTENDS ClientConnect, DNSFlights, TTLCache, DataTheorems

-----------------------------------------------------------------------------
(* The cache of targets. *)

\* What the cache of targets needs besides: as long as the last outcome is a
\* failure that nobody contested, no session holds a success.
EntryInv ==
    /\ session \in [Sessions -> SessionPlace] /\ hit \in [Sessions -> BOOLEAN]
    /\ cached \in BOOLEAN /\ EntryIsCurrent
    /\ verdict = "good" \/ contested \/ \A r \in Sessions : session[r] # "ok"

\* A session moves on, and removes the entry if it holds something against it.
LEMMA EntryMove ==
    ASSUME EntryInv, NEW r \in Sessions, NEW p \in SessionPlace \ {"ok"},
           session' = [session EXCEPT ![r] = p], hit' \in [Sessions -> BOOLEAN],
           \A q \in Sessions \ {r} : hit'[q] = hit[q],
           UNCHANGED <<verdict, contested>>, cached' = FALSE \/ (cached' = cached /\ ~Doubts(r))
    PROVE  EntryInv'
  <1>1. session' \in [Sessions -> SessionPlace] /\ session'[r] = p
        /\ \A q \in Sessions \ {r} : session'[q] = session[q]
    BY Zenon DEF EntryInv
  <1>2. \A q \in Sessions : q # r /\ Doubts(q) => Doubts(q)'
    BY <1>1, Zenon DEF Doubts
  <1>3. EntryIsCurrent'
    BY <1>2, Zenon DEF EntryInv, EntryIsCurrent
  <1>4. (verdict = "good" \/ contested \/ \A q \in Sessions : session[q] # "ok")'
    BY <1>1, Zenon DEF EntryInv
  <1> QED
    BY <1>1, <1>3, <1>4, Zenon DEF EntryInv

\* A session reads an outcome that counts.
LEMMA EntryJudged ==
    ASSUME EntryInv, NEW r \in Sessions, NEW p \in SessionPlace, NEW v,
           session' = [session EXCEPT ![r] = p], UNCHANGED <<cached, hit>>, Judge(r, v),
           (p = "ok" /\ v = "good") \/ (p # "ok" /\ Doubts(r)')
    PROVE  EntryInv'
  <1>1. session' \in [Sessions -> SessionPlace] /\ session'[r] = p
        /\ \A q \in Sessions \ {r} : session'[q] = session[q]
    BY Zenon DEF EntryInv
  <1>2. verdict' = v /\ contested' = \E q \in Sessions \ {r} : Holds(q)
    BY Zenon DEF Judge
  <1>3. EntryIsCurrent'
    BY <1>2, Zenon DEF EntryIsCurrent
  <1>4. (verdict = "good" \/ contested \/ \A q \in Sessions : session[q] # "ok")'
    BY <1>1, <1>2, Zenon DEF Holds
  <1> QED
    BY <1>1, <1>3, <1>4, Zenon DEF EntryInv

\* The steps of a session.
LEMMA EntryServe ==
    ASSUME EntryInv, NEW r \in Sessions, Serve(r)
    PROVE  EntryInv'
  <1>t. /\ session \in [Sessions -> SessionPlace] /\ hit \in [Sessions -> BOOLEAN]
        /\ cached \in BOOLEAN
    BY Zenon DEF EntryInv
  <1>1. CASE GetChannel(r)
    <2>1. \E p \in {"request", "end"} : session' = [session EXCEPT ![r] = p]
      BY <1>1, Zenon DEF GetChannel, Go
    <2>2. PICK p \in SessionPlace \ {"ok"} : session' = [session EXCEPT ![r] = p]
      BY <2>1, Zenon DEF SessionPlace
    <2>3. session[r] = "start" /\ UNCHANGED <<cached, verdict, contested>>
          /\ (hit' = [hit EXCEPT ![r] = cached] \/ hit' = hit)
      BY <1>1, Zenon DEF GetChannel
    <2>4. ~Doubts(r)
      BY <2>3, Zenon DEF Doubts
    <2>5. hit' \in [Sessions -> BOOLEAN] /\ \A q \in Sessions \ {r} : hit'[q] = hit[q]
      BY <1>t, <2>3, Zenon
    <2> QED
      BY <2>2, <2>3, <2>4, <2>5, EntryMove, Zenon
  <1>2. CASE \/ SendRequest(r) \/ RequestRefused(r) \/ StopClosesChannel(r) \/ PumpJoined(r)
    <2>1. \E p \in {"await", "end", "draining"} : session' = [session EXCEPT ![r] = p]
      BY <1>2, Zenon DEF SendRequest, RequestRefused, StopClosesChannel, PumpJoined, Go
    <2>2. PICK p \in SessionPlace \ {"ok"} : session' = [session EXCEPT ![r] = p]
      BY <2>1, Zenon DEF SessionPlace
    <2>3. session[r] \in {"request", "stopping", "draining"}
          /\ UNCHANGED <<cached, verdict, contested, hit>>
      BY <1>2, Zenon DEF SendRequest, RequestRefused, StopClosesChannel, PumpJoined
    <2>4. ~Doubts(r)
      BY <2>3, Zenon DEF Doubts
    <2> QED
      BY <1>t, <2>2, <2>3, <2>4, EntryMove, Zenon
  <1>3. CASE ReadAccepted(r)
    BY <1>3, Zenon DEF ReadAccepted, EntryInv, EntryIsCurrent, Doubts
  <1>4. CASE ReadAnswer(r)
    <2>1. PICK p \in {"ok", "failed"} : p = Head(mail[r])
      BY <1>4, Zenon DEF ReadAnswer
    <2>2. PICK v : v = IF p = "ok" THEN "good" ELSE "bad"
      BY Zenon
    <2>3. /\ session' = [session EXCEPT ![r] = p] /\ Judge(r, v) /\ UNCHANGED <<cached, hit>>
          /\ p \in SessionPlace
      BY <1>4, <2>1, <2>2, Zenon DEF ReadAnswer, Go, SessionPlace, Outcome
    <2>4. session'[r] = p
      BY <1>t, <2>3, Zenon
    <2> QED
      BY <2>1, <2>2, <2>3, <2>4, EntryJudged, Zenon DEF Doubts
  <1>5. CASE ReadTimesOut(r) \/ ReadFails(r)
    <2>1. PICK p \in {"overdue", "cut"} : session' = [session EXCEPT ![r] = p]
      BY <1>5, Zenon DEF ReadTimesOut, ReadFails, Go
    <2>2. /\ session[r] = "await" /\ UNCHANGED <<cached, hit>> /\ p \in SessionPlace
          /\ IF hit[r] THEN Judge(r, "bad") ELSE UNCHANGED <<verdict, contested>>
      BY <1>5, Zenon DEF ReadTimesOut, ReadFails, SessionPlace, Outcome
    <2>3. session'[r] = p
      BY <1>t, <2>1, Zenon
    <2>4. CASE hit[r]
      BY <2>1, <2>2, <2>3, <2>4, EntryJudged, Zenon DEF Doubts
    <2>5. CASE ~hit[r]
      BY <1>t, <2>1, <2>2, <2>5, EntryMove, Zenon DEF Doubts
    <2> QED
      BY <2>4, <2>5, Zenon
  <1>6. CASE StoreEntry(r)
    <2>1. \E p \in {"relay", "end"} : session' = [session EXCEPT ![r] = p]
      BY <1>6, Zenon DEF StoreEntry, Go
    <2>2. session[r] = "ok" /\ UNCHANGED <<verdict, contested, hit>>
      BY <1>6, Zenon DEF StoreEntry
    <2>3. verdict = "good" \/ contested
      BY <2>2, Zenon DEF EntryInv
    <2>4. session' \in [Sessions -> SessionPlace]
      BY <1>t, <2>1, Zenon DEF SessionPlace
    <2>5. cached' \in BOOLEAN
      BY <1>6, Zenon DEF StoreEntry
    <2> QED
      BY <1>t, <2>2, <2>3, <2>4, <2>5, Zenon DEF EntryInv, EntryIsCurrent
  <1>7. CASE DropEntry(r) \/ Unanswered(r)
    <2>1. \E p \in {"stopping", "end"} : session' = [session EXCEPT ![r] = p]
      BY <1>7, Zenon DEF DropEntry, Unanswered, GiveUp, Go
    <2>2. PICK p \in SessionPlace \ {"ok"} : session' = [session EXCEPT ![r] = p]
      BY <2>1, Zenon DEF SessionPlace
    <2>3. UNCHANGED <<verdict, contested, hit>>
      BY <1>7, Zenon DEF DropEntry, Unanswered
    <2>4. cached' = FALSE \/ (cached' = cached /\ ~Doubts(r))
      <3>1. CASE DropEntry(r)
        BY <3>1, Zenon DEF DropEntry
      <3>2. CASE Unanswered(r)
        <4>1. session[r] \in {"overdue", "cut"} /\ cached' = (cached /\ ~hit[r])
          BY <3>2, Zenon DEF Unanswered
        <4> QED
          BY <1>t, <4>1, Zenon DEF Doubts
      <3> QED
        BY <1>7, <3>1, <3>2, Zenon
    <2> QED
      BY <1>t, <2>2, <2>3, <2>4, EntryMove, Zenon
  <1> QED
    BY <1>1, <1>2, <1>3, <1>4, <1>5, <1>6, <1>7, Zenon DEF Serve

\* Every step.
LEMMA EntryStep == EntryInv /\ [CcNext]_ccVars => EntryInv'
  <1> SUFFICES ASSUME EntryInv, [CcNext]_ccVars PROVE EntryInv'
    BY Zenon
  <1>1. ASSUME UNCHANGED <<verdict, contested, session, hit>>, cached' = FALSE \/ cached' = cached
        PROVE  EntryInv'
    <2>1. \A r \in Sessions : Doubts(r) => Doubts(r)'
      BY <1>1, Zenon DEF Doubts
    <2>2. cached' \in BOOLEAN /\ (cached' => cached)
      <3>1. cached \in BOOLEAN
        BY Zenon DEF EntryInv
      <3>2. CASE cached' = FALSE
        BY <3>2, Zenon
      <3>3. CASE cached' = cached
        BY <3>1, <3>3, Zenon
      <3> QED
        BY <1>1, <3>2, <3>3, Zenon
    <2>3. EntryIsCurrent'
      BY <1>1, <2>1, <2>2, Zenon DEF EntryInv, EntryIsCurrent
    <2> QED
      BY <1>1, <2>2, <2>3, Zenon DEF EntryInv
  <1>2. ASSUME NEW r \in Sessions,
               PumpCopies(r) \/ PumpEnds(r) \/ RemoteAccepts(r) \/ RemoteAnswers(r) \/ DeadlinePasses(r)
        PROVE  EntryInv'
    BY <1>1, <1>2, Zenon DEF PumpCopies, PumpEnds, RemoteAccepts, RemoteAnswers, DeadlinePasses
  <1>3. CASE LinkCloses \/ CacheForgets
    BY <1>1, <1>3, Zenon DEF LinkCloses, CacheForgets
  <1>4. CASE UNCHANGED ccVars
    BY <1>1, <1>4, Zenon DEF ccVars
  <1> QED
    BY <1>2, <1>3, <1>4, EntryServe, ZenonT(40) DEF CcNext

\* For any number of sessions, windows and timeouts: the entry of a target
\* outlives a failure only until the session that read it removes it, or if
\* another session held an outcome when the failure was read.
\* (cmd/client/connect_cache.go, handleSocks and relayCachedConnect of
\* cmd/client/main.go)
THEOREM EntryStaysCurrent == CcSpec => []EntryIsCurrent
  <1>1. CcInit => EntryInv
    <2> SUFFICES ASSUME CcInit PROVE EntryInv
      BY Zenon
    <2>1. "start" \in SessionPlace /\ "start" # "ok"
      BY Zenon DEF SessionPlace
    <2>2. /\ cached = FALSE /\ hit = [r \in Sessions |-> FALSE]
          /\ session = [r \in Sessions |-> "start"]
      BY Zenon DEF CcInit
    <2>3. /\ session \in [Sessions -> SessionPlace] /\ hit \in [Sessions -> BOOLEAN]
          /\ \A r \in Sessions : session[r] # "ok"
      BY <2>1, <2>2, Zenon
    <2> QED
      BY <2>2, <2>3, Zenon DEF EntryInv, EntryIsCurrent
  <1>2. EntryInv => EntryIsCurrent
    BY Zenon DEF EntryInv
  <1> QED
    BY <1>1, <1>2, EntryStep, PTL DEF CcSpec

-----------------------------------------------------------------------------
(* DNSFlights *)

Airborne == {"leading", "landing"}

FlightInv ==
    /\ FlightTypeOK
    \* who asks upstreams is the leader of the flight
    /\ \A a \in Askers : asker[a] \in Airborne <=> flight = a
    \* a flight that is over has a result, and so has one that lands
    /\ \A a \in Askers : asker[a] = "landing" => landed[a].kind # "none"
    \* a waiter's flight is in the air, or over with a result
    /\ \A a \in Askers : asker[a] = "waiting" =>
          /\ boards[a] \in Askers
          /\ \/ asker[boards[a]] \in Airborne
             \/ asker[boards[a]] = "done" /\ landed[boards[a]].kind # "none"
    /\ dnsEntry = Empty \/ dnsEntry.kind = "good"
    /\ OwnTransactionID

\* Every step of a lookup keeps the invariant.
LEMMA FlightStepInv == FlightInv /\ [FlightNext]_flightVars => FlightInv'
  <1> SUFFICES ASSUME FlightInv, [FlightNext]_flightVars PROVE FlightInv'
    BY Zenon
  <1>n. Nobody \notin Askers
    BY FlightConstants, Zenon
  <1> USE DEF FlightInv, FlightTypeOK, Result, Kind, Empty, Airborne, Goes, OwnTransactionID
  <1>1. ASSUME NEW a \in Askers, NEW r \in Result, r.kind # "none", Answer(a, r)
        PROVE  /\ got' \in [Askers -> Result] /\ got'[a].id = a /\ got'[a].kind # "none"
               /\ \A b \in Askers : b # a => got'[b] = got[b]
    BY <1>1, SMTT(30) DEF Answer
  <1>2. ASSUME NEW a \in Askers, LookFirst(a) PROVE FlightInv'
    <2>1. CASE dnsEntry # Empty
      <3>1. dnsEntry \in Result /\ dnsEntry.kind # "none" /\ Answer(a, dnsEntry)
        BY <1>2, <2>1, Zenon DEF LookFirst
      <3>2. /\ asker[a] = "start" /\ asker' = [asker EXCEPT ![a] = "done"]
            /\ UNCHANGED <<dnsEntry, flight, landed, boards, turn, fallback>>
        BY <1>2, <2>1, Zenon DEF LookFirst
      <3>3. /\ got' \in [Askers -> Result] /\ got'[a].id = a /\ got'[a].kind # "none"
            /\ \A b \in Askers : b # a => got'[b] = got[b]
        BY <1>1, <3>1, Zenon
      <3>4. asker' \in [Askers -> {"start", "locking", "waiting", "leading", "landing", "done"}]
        BY <3>2, Zenon
      <3>5. FlightTypeOK'
        BY <3>2, <3>3, <3>4, SMTT(30)
      <3>6. OwnTransactionID'
        BY <3>2, <3>3, SMTT(30)
      <3> QED
        BY <3>2, <3>5, <3>6
    <2>2. CASE dnsEntry = Empty
      BY <1>2, <2>2, SMTT(30) DEF LookFirst
    <2> QED
      BY <2>1, <2>2, Zenon
  <1>3. ASSUME NEW a \in Askers, Join(a) PROVE FlightInv'
    BY <1>3, <1>n, SMTT(30) DEF Join
  <1>4. ASSUME NEW a \in Askers, LookAgain(a) PROVE FlightInv'
    <2>1. dnsEntry \in Result /\ dnsEntry.kind # "none" /\ Answer(a, dnsEntry)
      BY <1>4, Zenon DEF LookAgain
    <2> QED
      BY <1>1, <1>4, <2>1, SMTT(30) DEF LookAgain
  <1>5. ASSUME NEW a \in Askers, Lead(a) PROVE FlightInv'
    BY <1>5, <1>n DEF Lead
  <1>6. ASSUME NEW a \in Askers, AskUpstream(a) PROVE FlightInv'
    <2>1. /\ asker[a] = "leading" /\ turn[a] <= Upstreams /\ turn' = [turn EXCEPT ![a] = @ + 1]
          /\ UNCHANGED <<flight, boards, got>>
      BY <1>6, Zenon DEF AskUpstream
    <2>2. turn' \in [Askers -> 1..(Upstreams + 1)]
      BY <2>1, FlightConstants, SMTT(30)
    <2>3. CASE UNCHANGED <<dnsEntry, asker, landed>> /\ fallback' \in [Askers -> BOOLEAN]
      BY <2>1, <2>2, <2>3, SMTT(30)
    <2>4. CASE /\ dnsEntry' = [kind |-> "good", id |-> a]
               /\ Goes(a, "landing") /\ landed' = [landed EXCEPT ![a] = [kind |-> "good", id |-> a]]
               /\ UNCHANGED fallback
      BY <1>n, <2>1, <2>2, <2>4
    <2>5. fallback' = [fallback EXCEPT ![a] = TRUE] => fallback' \in [Askers -> BOOLEAN]
      OBVIOUS
    <2>6. fallback' = fallback => fallback' \in [Askers -> BOOLEAN]
      OBVIOUS
    <2> HIDE DEF FlightInv, FlightTypeOK
    <2> QED
      BY <1>6, <2>3, <2>4, <2>5, <2>6, Zenon DEF AskUpstream
  <1>7. ASSUME NEW a \in Askers, UpstreamsExhausted(a) PROVE FlightInv'
    BY <1>7, <1>n, SMTT(30) DEF UpstreamsExhausted
  <1>8. ASSUME NEW a \in Askers, Land(a) PROVE FlightInv'
    <2>1. landed[a] \in Result /\ landed[a].kind # "none" /\ Answer(a, landed[a])
      BY <1>8, Zenon DEF Land
    <2> QED
      BY <1>1, <1>8, <1>n, <2>1, SMTT(30) DEF Land
  <1>9. ASSUME NEW a \in Askers, Wake(a) PROVE FlightInv'
    <2>1. /\ landed[boards[a]] \in Result /\ landed[boards[a]].kind # "none"
          /\ Answer(a, landed[boards[a]])
      BY <1>9, Zenon DEF Wake
    <2> QED
      BY <1>1, <1>9, <2>1, SMTT(30) DEF Wake
  <1>10. CASE EntryLeaves
    BY <1>10, Zenon DEF EntryLeaves
  <1>11. CASE UNCHANGED flightVars
    BY <1>11 DEF flightVars
  <1> QED
    BY <1>2, <1>3, <1>4, <1>5, <1>6, <1>7, <1>8, <1>9, <1>10, <1>11, ZenonT(40) DEF FlightNext, Ask

\* For any number of askers and upstreams: one lookup at a time, every answer
\* under the asker's own ID, nothing but successes in the cache.
\* (serverDNSCache.QueryUpstream of cmd/server/dns_cache.go)
THEOREM OneFlightForAll == FlightSpec => []LookupsShared
  <1>1. FlightInit => FlightInv
    BY FlightConstants DEF FlightInit, FlightInv, FlightTypeOK, Result, Kind, Empty, Airborne, OwnTransactionID
  <1>2. FlightInv => LookupsShared
    <2> SUFFICES ASSUME FlightInv PROVE OneLookup /\ OwnTransactionID /\ OnlySuccessCached
      BY Zenon DEF LookupsShared
    <2> DEFINE L == {a \in Askers : asker[a] \in {"leading", "landing"}}
    <2>1. L \subseteq {flight}
      BY Zenon DEF FlightInv, Airborne
    <2> HIDE DEF L
    <2>2. IsFiniteSet({flight}) /\ Cardinality({flight}) = 1
      BY FS_Singleton, Zenon
    <2>3. Cardinality(L) <= 1
      BY <2>1, <2>2, FS_Subset
    <2> QED
      BY <2>3 DEF L, OneLookup, FlightInv, OnlySuccessCached, Empty
  <1> QED
    BY <1>1, <1>2, FlightStepInv, PTL DEF FlightSpec

-----------------------------------------------------------------------------
(* TTLCache *)

\* A list of entries in the order of their last uses, of which there have been
\* n, with every key once.
InOrder(s, n) ==
    /\ s \in Seq(Entry)
    /\ \A i \in 1..Len(s) : s[i].use <= n
    /\ \A i, j \in 1..Len(s) : i < j => s[i].use > s[j].use /\ s[i].key # s[j].key

CacheInv ==
    /\ uses \in Nat /\ clock \in Nat
    /\ InOrder(lru, uses) /\ Len(lru) <= MaxSize

\* The elements of a sequence.
LEMMA RangeOfSeq ==
    ASSUME NEW X, NEW s \in Seq(X)
    PROVE  /\ Range(s) = {s[i] : i \in 1..Len(s)} /\ Range(s) \subseteq X
           /\ Len(s) \in Nat /\ DOMAIN s = 1..Len(s)
  BY DEF Range

\* What is left of a list is in order.
LEMMA OnlyInOrder ==
    ASSUME NEW n \in Nat, NEW s, InOrder(s, n), NEW S
    PROVE  /\ InOrder(Only(s, S), n) /\ Len(Only(s, S)) <= Len(s)
           /\ (\E e \in Range(s) : e \notin S) => Len(Only(s, S)) < Len(s)
           /\ Range(Only(s, S)) = Range(s) \cap S
  <1> DEFINE r == Only(s, S)
  <1>1. r \in Seq(Entry) /\ KeptOf(s, S, Len(s), r) /\ s \in Seq(Entry)
    BY OnlyKeeps, Zenon DEF InOrder
  <1> HIDE DEF r
  <1>2. ASSUME NEW i \in 1..Len(r) PROVE r[i].use <= n
    <2>1. PICK j \in 1..Len(s) : s[j] = r[i]
      BY <1>1, Zenon DEF KeptOf
    <2> QED
      BY <2>1, Zenon DEF InOrder
  <1>3. ASSUME NEW i \in 1..Len(r), NEW j \in 1..Len(r), i < j
        PROVE  r[i].use > r[j].use /\ r[i].key # r[j].key
    <2>1. PICK a \in 1..Len(s), b \in 1..Len(s) : a < b /\ s[a] = r[i] /\ s[b] = r[j]
      BY <1>1, <1>3, Zenon DEF KeptOf
    <2> QED
      BY <2>1 DEF InOrder
  <1>4. InOrder(r, n)
    BY <1>1, <1>2, <1>3, Zenon DEF InOrder
  <1>5. Range(s) = {s[i] : i \in 1..Len(s)} /\ Range(r) = {r[i] : i \in 1..Len(r)}
    BY <1>1, RangeOfSeq, Zenon
  <1>6. Range(r) = Range(s) \cap S
    <2>1. ASSUME NEW x \in Range(r) PROVE x \in Range(s) \cap S
      BY <1>1, <1>5 DEF KeptOf
    <2>2. ASSUME NEW x \in Range(s) \cap S PROVE x \in Range(r)
      BY <1>1, <1>5, SMTT(30) DEF KeptOf
    <2> QED
      BY <2>1, <2>2, Zenon
  <1>7. Len(r) <= Len(s) /\ ((\E e \in Range(s) : e \notin S) => Len(r) < Len(s))
    <2>1. (\E e \in Range(s) : e \notin S) => \E j \in 1..Len(s) : s[j] \notin S
      BY <1>5, Zenon
    <2> QED
      BY <1>1, <2>1, Zenon DEF KeptOf
  <1> QED
    BY <1>4, <1>6, <1>7, Zenon DEF r

\* An entry just used goes to the front.
LEMMA FrontInOrder ==
    ASSUME NEW n \in Nat, NEW s, InOrder(s, n), NEW e \in Entry, e.use = n + 1,
           \A d \in Range(s) : d.key # e.key
    PROVE  /\ InOrder(<<e>> \o s, n + 1) /\ Len(<<e>> \o s) = Len(s) + 1
           /\ Range(<<e>> \o s) = Range(s) \cup {e} /\ (<<e>> \o s)[1] = e
  <1> DEFINE r == <<e>> \o s
  <1>0. s \in Seq(Entry) /\ Len(s) \in Nat
    BY DEF InOrder
  <1>1. r \in Seq(Entry) /\ Len(r) = Len(s) + 1 /\ r[1] = e /\ \A i \in 1..Len(s) : r[i + 1] = s[i]
    BY <1>0
  <1> HIDE DEF r
  <1>2. ASSUME NEW i \in 2..Len(r) PROVE i - 1 \in 1..Len(s) /\ r[i] = s[i - 1]
    <2>1. i - 1 \in 1..Len(s) /\ (i - 1) + 1 = i
      BY <1>0, <1>1
    <2> QED
      BY <1>1, <2>1, Zenon
  <1>3. \A i \in 1..Len(s) : s[i].use \in Nat /\ s[i].use <= n /\ s[i] \in Entry
    <2>1. \A i \in 1..Len(s) : s[i] \in Entry
      BY <1>0
    <2>2. \A d \in Entry : d.use \in Nat
      BY Zenon DEF Entry
    <2> QED
      BY <2>1, <2>2, Zenon DEF InOrder
  <1>4. \A i \in 1..Len(r) : i = 1 \/ i \in 2..Len(r)
    BY <1>0, <1>1
  <1>5. ASSUME NEW i \in 1..Len(r) PROVE r[i].use <= n + 1
    <2>1. CASE i = 1
      BY <1>1, <2>1
    <2>2. CASE i \in 2..Len(r)
      BY <1>2, <1>3, <2>2, SMTT(30)
    <2> QED
      BY <1>4, <2>1, <2>2, Zenon
  <1>6. Range(s) = {s[i] : i \in 1..Len(s)} /\ Range(r) = {r[i] : i \in 1..Len(r)}
    BY <1>0, <1>1, RangeOfSeq
  <1>7. ASSUME NEW i \in 1..Len(r), NEW j \in 1..Len(r), i < j
        PROVE  r[i].use > r[j].use /\ r[i].key # r[j].key
    <2>1. j \in 2..Len(r)
      BY <1>0, <1>1, <1>7
    <2>2. CASE i = 1
      <3>1. r[j] \in Range(s) /\ r[j].use \in Nat /\ r[j].use <= n
        BY <1>2, <1>3, <1>6, <2>1, Zenon
      <3> QED
        BY <1>1, <2>2, <3>1
    <2>3. CASE i \in 2..Len(r)
      <3>1. i - 1 \in 1..Len(s) /\ j - 1 \in 1..Len(s) /\ i - 1 < j - 1
            /\ r[i] = s[i - 1] /\ r[j] = s[j - 1]
        BY <1>2, <1>7, <2>1, <2>3, SMTT(30)
      <3> QED
        BY <3>1 DEF InOrder
    <2> QED
      BY <1>4, <2>2, <2>3, Zenon
  <1>8. Range(r) = Range(s) \cup {e}
    <2>1. ASSUME NEW x \in Range(r) PROVE x \in Range(s) \cup {e}
      BY <1>1, <1>2, <1>4, <1>6, SMTT(30)
    <2>2. ASSUME NEW x \in Range(s) PROVE x \in Range(r)
      <3>1. PICK i \in 1..Len(s) : x = s[i]
        BY <1>6, Zenon
      <3>2. i + 1 \in 1..Len(r)
        BY <1>0, <1>1
      <3> QED
        BY <1>1, <1>6, <3>1, <3>2, Zenon
    <2>3. e \in Range(r)
      BY <1>0, <1>1, <1>6
    <2> QED
      BY <2>1, <2>2, <2>3, Zenon
  <1>9. InOrder(r, n + 1)
    BY <1>1, <1>5, <1>7, Zenon DEF InOrder
  <1> QED
    BY <1>1, <1>8, <1>9, Zenon DEF r

\* The oldest entries go.
LEMMA ShortInOrder ==
    ASSUME NEW n \in Nat, NEW s, InOrder(s, n), NEW m \in Nat
    PROVE  /\ InOrder(Shortened(s, m), n) /\ Len(Shortened(s, m)) <= m
           /\ Range(Shortened(s, m)) \subseteq Range(s)
           /\ m >= 1 /\ Len(s) >= 1 => s[1] \in Range(Shortened(s, m))
  <1> DEFINE l == IF Len(s) > m THEN m ELSE Len(s)
             r == Shortened(s, m)
  <1>0. s \in Seq(Entry) /\ Len(s) \in Nat
    BY DEF InOrder
  <1>1. l \in Nat /\ l <= m /\ l <= Len(s) /\ (m >= 1 /\ Len(s) >= 1 => l >= 1)
    BY <1>0
  <1>2. r = SubSeq(s, 1, l)
    BY Zenon DEF Shortened
  <1> HIDE DEF l, r
  <1>3. r \in Seq(Entry) /\ Len(r) = l /\ \A i \in 1..l : r[i] = s[i]
    BY <1>0, <1>1, <1>2
  <1>4. 1..l \subseteq 1..Len(s)
    BY <1>0, <1>1
  <1>5. InOrder(r, n)
    <2>1. \A i \in 1..Len(r) : r[i] = s[i] /\ i \in 1..Len(s)
      BY <1>3, <1>4
    <2>2. \A i \in 1..Len(r) : r[i].use <= n
      BY <2>1, Zenon DEF InOrder
    <2>3. ASSUME NEW i \in 1..Len(r), NEW j \in 1..Len(r), i < j
          PROVE  r[i].use > r[j].use /\ r[i].key # r[j].key
      <3>1. /\ i \in 1..Len(s) /\ j \in 1..Len(s) /\ r[i] = s[i] /\ r[j] = s[j]
        BY <2>1, Zenon
      <3> HIDE DEF r
      <3> QED
        BY <2>3, <3>1 DEF InOrder
    <2> QED
      BY <1>3, <2>2, <2>3, Zenon DEF InOrder
  <1>6. Range(s) = {s[i] : i \in 1..Len(s)} /\ Range(r) = {r[i] : i \in 1..Len(r)}
    BY <1>0, <1>3, RangeOfSeq, SMTT(30)
  <1>7. Range(r) \subseteq Range(s)
    BY <1>3, <1>4, <1>6, Zenon
  <1>8. m >= 1 /\ Len(s) >= 1 => s[1] \in Range(r)
    <2>1. SUFFICES ASSUME m >= 1, Len(s) >= 1 PROVE s[1] \in Range(r)
      BY Zenon
    <2>2. 1 \in 1..l
      BY <1>1, <2>1
    <2> QED
      BY <1>3, <1>6, <2>2, Zenon
  <1> QED
    BY <1>1, <1>3, <1>5, <1>7, <1>8, Zenon DEF r

\* The entries of a list for a key, and what they answer.
Of(s, k) == {e \in Range(s) : e.key = k}

\* The entries of a key, by either definition.
LEMMA ItemsAre == \A k : Items(k) = Of(lru, k)
  BY Zenon DEF Items, Of

\* A key has one entry at most.
LEMMA OneEntry ==
    ASSUME NEW n, NEW s, InOrder(s, n), NEW e \in Range(s)
    PROVE  Of(s, e.key) = {e} /\ AnswerOf(Of(s, e.key)) = e.value /\ e.value \in Values /\ e \in Entry
  <1>1. s \in Seq(Entry) /\ Range(s) = {s[i] : i \in 1..Len(s)} /\ Range(s) \subseteq Entry
        /\ Len(s) \in Nat
    BY RangeOfSeq DEF InOrder
  <1>2. ASSUME NEW d \in Range(s), d.key = e.key PROVE d = e
    <2>1. PICK i \in 1..Len(s), j \in 1..Len(s) : d = s[i] /\ e = s[j]
      BY <1>1, Zenon
    <2>2. ~(i < j) /\ ~(j < i)
      BY <1>2, <2>1, Zenon DEF InOrder
    <2>3. i \in Int /\ j \in Int
      BY <1>1
    <2> QED
      BY <2>1, <2>2, <2>3
  <1>3. Of(s, e.key) = {e}
    BY <1>2, Zenon DEF Of
  <1>4. (CHOOSE x \in {e} : TRUE) = e
    BY Zenon
  <1>5. e.value \in Values
    BY <1>1, Zenon DEF Entry
  <1> QED
    BY <1>1, <1>3, <1>4, <1>5, Zenon DEF AnswerOf

\* A key without entry has no answer.
LEMMA NoEntry ==
    ASSUME NEW s, NEW k, \A e \in Range(s) : e.key # k
    PROVE  Of(s, k) = {} /\ AnswerOf(Of(s, k)) = Absent
  <1>1. Of(s, k) = {}
    BY Zenon DEF Of
  <1> QED
    BY <1>1, Zenon DEF AnswerOf

\* A list whose entries for a key all say what another list says of it, says the
\* same or nothing.
LEMMA SaysTheSame ==
    ASSUME NEW n, NEW m, NEW s, NEW r, InOrder(s, n), InOrder(r, m), NEW k,
           \A e \in Range(r) : e.key = k => \E d \in Range(s) : d.key = k /\ d.value = e.value
    PROVE  /\ AnswerOf(Of(r, k)) \in {AnswerOf(Of(s, k)), Absent}
           /\ AnswerOf(Of(r, k)) \in Values \cup {Absent}
  <1>1. CASE \A e \in Range(r) : e.key # k
    BY <1>1, NoEntry, Zenon
  <1>2. CASE \E e \in Range(r) : e.key = k
    <2>1. PICK e \in Range(r) : e.key = k
      BY <1>2, Zenon
    <2>2. PICK d \in Range(s) : d.key = k /\ d.value = e.value
      BY <2>1, Zenon
    <2>3. AnswerOf(Of(r, k)) = e.value /\ e.value \in Values
      BY <2>1, OneEntry
    <2>4. AnswerOf(Of(s, k)) = d.value
      BY <2>2, OneEntry
    <2> QED
      BY <2>2, <2>3, <2>4
  <1> QED
    BY <1>1, <1>2

\* What each call leaves in the list.
LEMMA DropStep ==
    ASSUME CacheInv, NEW k \in Keys
    PROVE  /\ InOrder(Dropped(k), uses) /\ Len(Dropped(k)) <= Len(lru)
           /\ Range(Dropped(k)) = {e \in Range(lru) : e.key # k}
           /\ (\E e \in Range(lru) : e.key = k) => Len(Dropped(k)) < Len(lru)
  <1> DEFINE S == {e \in Range(lru) : e.key # k}
  <1>1. InOrder(lru, uses) /\ uses \in Nat
    BY Zenon DEF CacheInv
  <1>2. Dropped(k) = Only(lru, S)
    BY Zenon DEF Dropped
  <1>3. Range(lru) \cap S = S /\ ((\E e \in Range(lru) : e.key = k) => \E e \in Range(lru) : e \notin S)
    BY Zenon
  <1> HIDE DEF S
  <1>4. /\ InOrder(Only(lru, S), uses) /\ Len(Only(lru, S)) <= Len(lru)
        /\ (\E e \in Range(lru) : e \notin S) => Len(Only(lru, S)) < Len(lru)
        /\ Range(Only(lru, S)) = Range(lru) \cap S
    BY <1>1, OnlyInOrder, Zenon
  <1>5. Range(Dropped(k)) = S
    BY <1>2, <1>3, <1>4
  <1> QED
    BY <1>2, <1>3, <1>4, <1>5, Zenon DEF S

\* The list without its expired entries.
LEMMA PruneStep ==
    ASSUME CacheInv, NEW now
    PROVE  /\ InOrder(Prune(now), uses) /\ Len(Prune(now)) <= Len(lru)
           /\ Range(Prune(now)) \subseteq Range(lru)
  <1> DEFINE S == {e \in Range(lru) : ~Expired(e, now)}
  <1>1. InOrder(lru, uses) /\ uses \in Nat
    BY Zenon DEF CacheInv
  <1>2. Prune(now) = Only(lru, S)
    BY Zenon DEF Prune
  <1> HIDE DEF S
  <1> QED
    BY <1>1, <1>2, OnlyInOrder

\* The list after an entry was used.
LEMMA FoundStep ==
    ASSUME CacheInv, NEW d \in Range(lru), NEW e \in Entry, e.key = d.key, e.use = uses + 1
    PROVE  /\ InOrder(Found(e), uses + 1) /\ Len(Found(e)) <= Len(lru)
           /\ Range(Found(e)) = {x \in Range(lru) : x.key # e.key} \cup {e}
  <1>1. uses \in Nat /\ e.key \in Keys /\ Len(lru) \in Nat
    BY DEF CacheInv, Entry, InOrder
  <1>2. /\ InOrder(Dropped(e.key), uses) /\ Len(Dropped(e.key)) < Len(lru)
        /\ Range(Dropped(e.key)) = {x \in Range(lru) : x.key # e.key}
    BY <1>1, DropStep, Zenon
  <1>3. \A x \in Range(Dropped(e.key)) : x.key # e.key
    BY <1>2, Zenon
  <1>4. /\ InOrder(<<e>> \o Dropped(e.key), uses + 1)
        /\ Len(<<e>> \o Dropped(e.key)) = Len(Dropped(e.key)) + 1
        /\ Range(<<e>> \o Dropped(e.key)) = Range(Dropped(e.key)) \cup {e}
    BY <1>1, <1>2, <1>3, FrontInOrder, SMTT(30)
  <1>5. Len(Dropped(e.key)) \in Nat
    BY <1>2 DEF InOrder
  <1> QED
    BY <1>1, <1>2, <1>4, <1>5, SMTT(30) DEF Found

\* The list after an entry was stored.
LEMMA PutStep ==
    ASSUME CacheInv, NEW k \in Keys, NEW v \in Values, NEW now \in Nat
    PROVE  LET e == [key |-> k, value |-> v, seen |-> now, use |-> uses + 1]
               r == Shortened(WithFirst(k, v, now), MaxSize)
           IN  /\ InOrder(r, uses + 1) /\ Len(r) <= MaxSize /\ e \in Range(r)
               /\ \A x \in Range(r) : x = e \/ (x \in Range(lru) /\ x.key # k)
  <1> DEFINE e == [key |-> k, value |-> v, seen |-> now, use |-> uses + 1]
             S == {x \in Range(lru) : ~Expired(x, now) /\ x.key # k}
             kept == Only(lru, S)
             f == <<e>> \o kept
             r == Shortened(f, MaxSize)
  <1>1. InOrder(lru, uses) /\ uses \in Nat /\ MaxSize \in Nat /\ MaxSize >= 1
    BY CacheConstants DEF CacheInv
  <1>2. e \in Entry /\ e.use = uses + 1 /\ e.key = k
    BY <1>1 DEF Entry
  <1>3. WithFirst(k, v, now) = f
    BY Zenon DEF WithFirst
  <1>4. \A x \in Range(lru) \cap S : x \in Range(lru) /\ x.key # k
    OBVIOUS
  <1> HIDE DEF S, e
  <1>5. InOrder(kept, uses) /\ Range(kept) = Range(lru) \cap S
    BY <1>1, OnlyInOrder
  <1> HIDE DEF kept
  <1>6. InOrder(f, uses + 1) /\ Len(f) = Len(kept) + 1 /\ Range(f) = Range(kept) \cup {e} /\ f[1] = e
    BY <1>1, <1>2, <1>4, <1>5, FrontInOrder, SMTT(30)
  <1>7. Len(f) >= 1 /\ uses + 1 \in Nat
    BY <1>1, <1>5, <1>6 DEF InOrder
  <1> HIDE DEF f
  <1>8. InOrder(r, uses + 1) /\ Len(r) <= MaxSize /\ Range(r) \subseteq Range(f) /\ e \in Range(r)
    BY <1>1, <1>6, <1>7, ShortInOrder, Zenon
  <1>9. \A x \in Range(r) : x = e \/ (x \in Range(lru) /\ x.key # k)
    BY <1>4, <1>5, <1>6, <1>8, Zenon
  <1> QED
    BY <1>3, <1>8, <1>9, Zenon DEF e

\* What is served is the entry of the key.
LEMMA GetServes ==
    ASSUME CacheInv, NEW k \in Keys, NEW now \in Nat, NEW e \in Served(k, now)
    PROVE  e \in Range(lru) /\ e.key = k /\ e \in Entry /\ AnswerOf(Served(k, now)) = e.value
  <1>1. e \in Range(lru) /\ e.key = k /\ Served(k, now) \subseteq Of(lru, k)
    BY Zenon DEF Served, Items, Of
  <1>2. e \in Entry /\ Of(lru, k) = {e} /\ uses \in Nat
    BY <1>1, OneEntry, Zenon DEF CacheInv
  <1>3. Served(k, now) = {e} /\ (CHOOSE x \in {e} : TRUE) = e
    BY <1>1, <1>2, Zenon
  <1>4. AnswerOf(Served(k, now)) = e.value
    BY <1>3 DEF AnswerOf
  <1> QED
    BY <1>1, <1>2, <1>4

\* A hit keeps key and value.
LEMMA TouchedEntry ==
    ASSUME CacheInv, NEW e \in Entry, NEW now \in Nat, NEW op
    PROVE  /\ Touched(e, op, now) \in Entry /\ Touched(e, op, now).key = e.key
           /\ Touched(e, op, now).value = e.value /\ Touched(e, op, now).use = uses + 1
  <1> DEFINE t == IF op = "get" THEN now ELSE e.seen
             d == [e EXCEPT !.seen = t]
  <1>1. t \in Nat /\ uses + 1 \in Nat
    BY DEF Entry, CacheInv
  <1>2. Touched(e, op, now) = [d EXCEPT !.use = uses + 1]
    BY Zenon DEF Touched
  <1> HIDE DEF t
  <1>3. d \in Entry /\ d.key = e.key /\ d.value = e.value
    BY <1>1, Zenon DEF Entry
  <1> HIDE DEF d
  <1> QED
    BY <1>1, <1>2, <1>3, Zenon DEF Entry

\* A call is one of these.
LEMMA CallCases ==
    ASSUME CacheInv, CacheCall
    PROVE  \/ DoClear \/ DoLen
           \/ \E k \in Keys :
                 \/ DoDelete(k)
                 \/ \E now \in Nat :
                       \/ DoTake(k, now)
                       \/ \E v \in Values : DoPut(k, v, now)
                       \/ \E op \in {"get", "peek"} :
                             /\ last' = [op |-> op, key |-> k, now |-> now,
                                         answer |-> AnswerOf(Served(k, now))]
                             /\ \/ Served(k, now) = {} /\ lru' = Dropped(k) /\ UNCHANGED uses
                                \/ \E e \in Served(k, now) :
                                      lru' = Found(Touched(e, op, now)) /\ uses' = uses + 1
  <1>1. 0..clock \subseteq Nat
    BY DEF CacheInv
  <1> QED
    BY <1>1 DEF CacheCall, DoGet

\* Every call keeps the list in order and bounded.
LEMMA CacheStep ==
    ASSUME CacheInv, [CacheNext]_cacheVars
    PROVE  CacheInv'
  <1>0. uses \in Nat /\ clock \in Nat /\ InOrder(lru, uses) /\ Len(lru) <= MaxSize /\ Len(lru) \in Nat
        /\ MaxSize \in Nat
    BY CacheConstants DEF CacheInv, InOrder
  <1>1. CASE UNCHANGED cacheVars
    BY <1>1, Zenon DEF CacheInv, cacheVars
  <1>2. CASE ClockTicks
    BY <1>0, <1>2, SMTT(20) DEF CacheInv, ClockTicks
  <1>3. CASE CacheCall
    <2>0. clock' = clock
      BY <1>3, Zenon DEF CacheCall
    <2>1. ASSUME InOrder(lru', uses), Len(lru') <= Len(lru), uses' = uses PROVE CacheInv'
      <3>1. Len(lru') \in Nat
        BY <2>1 DEF InOrder
      <3> QED
        BY <1>0, <2>0, <2>1, <3>1, SMTT(30) DEF CacheInv
    <2>2. CASE DoClear
      <3>1. lru' = <<>> /\ uses' = uses
        BY <2>2, Zenon DEF DoClear
      <3>2. InOrder(<<>>, uses) /\ Len(<<>>) <= Len(lru)
        BY <1>0 DEF InOrder
      <3> QED
        BY <2>1, <3>1, <3>2, Zenon
    <2>3. CASE DoLen
      BY <2>1, <2>3, PruneStep DEF DoLen
    <2>4. ASSUME NEW k \in Keys, lru' = Dropped(k), uses' = uses PROVE CacheInv'
      BY <2>1, <2>4, DropStep
    <2>5. ASSUME NEW k \in Keys, NEW now \in Nat, NEW v \in Values, DoPut(k, v, now) PROVE CacheInv'
      <3>1. InOrder(lru', uses + 1) /\ Len(lru') <= MaxSize /\ uses' = uses + 1
        BY <2>5, PutStep, Zenon DEF DoPut
      <3> QED
        BY <1>0, <2>0, <3>1 DEF CacheInv
    <2>6. ASSUME NEW k \in Keys, NEW now \in Nat, NEW op, NEW e \in Served(k, now),
                 lru' = Found(Touched(e, op, now)), uses' = uses + 1
          PROVE  CacheInv'
      <3>1. e \in Range(lru) /\ e.key = k /\ e \in Entry
        BY GetServes, Zenon
      <3>2. /\ Touched(e, op, now) \in Entry /\ Touched(e, op, now).key = e.key
            /\ Touched(e, op, now).use = uses + 1
        BY <3>1, TouchedEntry
      <3>3. InOrder(lru', uses + 1) /\ Len(lru') <= Len(lru)
        BY <2>6, <3>1, <3>2, FoundStep, SMTT(30)
      <3>4. Len(lru') \in Nat
        BY <3>3 DEF InOrder
      <3> QED
        BY <1>0, <2>0, <2>6, <3>3, <3>4, SMTT(30) DEF CacheInv
    <2> QED
      BY <1>3, <2>2, <2>3, <2>4, <2>5, <2>6, CallCases, SMTT(30) DEF DoDelete, DoTake
  <1> QED
    BY <1>1, <1>2, <1>3 DEF CacheNext

\* The inductive invariant holds throughout.
LEMMA AlwaysCacheInv == CacheSpec => []CacheInv
  <1>1. CacheInit => CacheInv
    <2> SUFFICES ASSUME CacheInit PROVE CacheInv
      BY Zenon
    <2>1. InOrder(<<>>, 0) /\ Len(<<>>) = 0
      BY DEF InOrder
    <2> QED
      BY <2>1, CacheConstants DEF CacheInit, CacheInv
  <1> QED
    BY <1>1, CacheStep, PTL DEF CacheSpec

\* For every size, time to live and set of keys: the cache holds the most
\* recently used entries and no more than maxSize of them, although the times
\* that the calls carry overtake each other.
\* (pkg/lrucache/lrucache.go)
THEOREM CacheOrdered == CacheSpec => []LeastRecentGoes
  <1>1. CacheInv => LeastRecentGoes
    <2> SUFFICES ASSUME CacheInv PROVE LeastRecentGoes
      BY Zenon
    <2>1. InOrder(lru, uses) /\ DOMAIN lru = 1..Len(lru) /\ Len(lru) \in Nat
      BY RangeOfSeq, Zenon DEF CacheInv, InOrder
    <2>2. OldestUseLast
      BY <2>1 DEF OldestUseLast, InOrder
    <2>3. ASSUME NEW i \in 1..Len(lru), NEW j \in 1..Len(lru), lru[i].key = lru[j].key PROVE i = j
      <3>1. ~(i < j) /\ ~(j < i)
        BY <2>1, <2>3, Zenon DEF InOrder
      <3> QED
        BY <3>1
    <2> QED
      BY <2>1, <2>2, <2>3 DEF LeastRecentGoes, CacheWithinSize, CacheInv
  <1> QED
    BY <1>1, AlwaysCacheInv, PTL

\* No call answers with an entry whose time to live had passed when the call
\* read the clock.
\* (pkg/lrucache/lrucache.go)
THEOREM FreshAnswers == CacheSpec => NoExpiredAnswer
  <1> DEFINE Fresh == last'.answer # Absent /\ UNCHANGED clock =>
                         \E e \in Items(last'.key) :
                            e.value = last'.answer /\ (TTL = 0 \/ last'.now <= e.seen + TTL)
  <1>1. CacheInv /\ [CacheNext]_cacheVars => [Fresh]_cacheVars
    <2> SUFFICES ASSUME CacheInv, CacheNext, last'.answer # Absent, clock' = clock
                 PROVE  \E e \in Items(last'.key) :
                           e.value = last'.answer /\ (TTL = 0 \/ last'.now <= e.seen + TTL)
      BY Zenon
    <2>1. CacheCall
      BY DEF CacheNext, ClockTicks, CacheInv
    <2>2. PICK k \in Keys, now \in Nat :
             /\ last'.key = k /\ last'.now = now /\ last'.answer = AnswerOf(Served(k, now))
      <3>1. ASSUME NEW k \in Keys, NEW now \in Nat, NEW op, NEW a,
                   last' = [op |-> op, key |-> k, now |-> now, answer |-> a]
            PROVE  last'.key = k /\ last'.now = now /\ last'.answer = a
        BY <3>1, Zenon
      <3>2. ~DoClear /\ ~DoLen
        BY DEF DoClear, DoLen
      <3>3. ASSUME NEW k \in Keys PROVE ~DoDelete(k)
        BY DEF DoDelete
      <3>4. ASSUME NEW k \in Keys, NEW now \in Nat, NEW v \in Values PROVE ~DoPut(k, v, now)
        BY DEF DoPut
      <3>5. ASSUME NEW k \in Keys, NEW now \in Nat, DoTake(k, now)
            PROVE  last'.key = k /\ last'.now = now /\ last'.answer = AnswerOf(Served(k, now))
        BY <3>1, <3>5 DEF DoTake
      <3> QED
        BY <2>1, <3>1, <3>2, <3>3, <3>4, <3>5, CallCases, SMTT(30)
    <2>3. Served(k, now) # {}
      BY <2>2, Zenon DEF AnswerOf
    <2>4. PICK e \in Served(k, now) : TRUE
      BY <2>3
    <2>5. e \in Range(lru) /\ e.key = k /\ e \in Entry /\ AnswerOf(Served(k, now)) = e.value
      BY <2>4, GetServes
    <2>6. e \in Items(k) /\ ~Expired(e, now)
      BY <2>4, Zenon DEF Served
    <2>7. TTL = 0 \/ now <= e.seen + TTL
      <3>1. TTL \in Nat /\ e.seen \in Nat
        BY <2>5, CacheConstants, Zenon DEF Entry
      <3> QED
        BY <2>6, <3>1 DEF Expired
    <2> QED
      BY <2>2, <2>5, <2>6, <2>7, SMTT(30)
  <1> QED
    BY <1>1, AlwaysCacheInv, PTL DEF CacheSpec, NoExpiredAnswer

\* What a step does to what the cache says of the keys.
Says(s) == [k \in Keys |-> AnswerOf(Of(s, k))]

\* The map that the refinement speaks of is what the list says.
LEMMA SaysIs == /\ [k \in Keys |-> AnswerOf(Items(k))] = Says(lru)
                /\ [k \in Keys |-> AnswerOf(Items(k))]' = Says(lru')
  BY ItemsAre DEF Says, Items, Of

\* Entries only go, or are said with the value they had: the rest is forgotten.
LEMMA ForgetsOnly ==
    ASSUME NEW n, NEW m, NEW s, NEW r, InOrder(s, n), InOrder(r, m),
           NEW except, except \subseteq Keys,
           \A e \in Range(r) : e.key \notin except =>
               \E d \in Range(s) : d.key = e.key /\ d.value = e.value
    PROVE  /\ Says(r) \in [Keys -> Values \cup {Absent}]
           /\ \A k \in Keys \ except : Says(r)[k] \in {Says(s)[k], Absent}
  <1>1. ASSUME NEW k \in Keys PROVE AnswerOf(Of(r, k)) \in Values \cup {Absent}
    <2>1. CASE \E e \in Range(r) : e.key = k
      BY <2>1, OneEntry
    <2>2. CASE \A e \in Range(r) : e.key # k
      BY <2>2, NoEntry, Zenon
    <2> QED
      BY <2>1, <2>2
  <1>2. ASSUME NEW k \in Keys \ except PROVE AnswerOf(Of(r, k)) \in {AnswerOf(Of(s, k)), Absent}
    BY SaysTheSame
  <1> QED
    BY <1>1, <1>2, Zenon DEF Says

\* A call of the cache is a call of the forgetful map.
LEMMA CallResponds ==
    ASSUME CacheInv, CacheInv', CacheCall
    PROVE  Abstract!Respond
  <1> DEFINE map == Says(lru)
             mapN == Says(lru')
             Forgets(before) == /\ mapN \in [Keys -> Values \cup {Absent}]
                                /\ \A k \in Keys : mapN[k] \in {before[k], Absent}
  <1>0. InOrder(lru, uses) /\ InOrder(lru', uses') /\ uses \in Nat /\ map \in [Keys -> Values \cup {Absent}]
    <2>1. InOrder(lru, uses) /\ InOrder(lru', uses') /\ uses \in Nat
      BY Zenon DEF CacheInv
    <2> QED
      BY <2>1, ForgetsOnly
  <1>s. ASSUME \/ /\ last'.op = "put" /\ mapN[last'.key] = last'.value
                  /\ Forgets([map EXCEPT ![last'.key] = last'.value])
               \/ last'.op \in {"get", "peek"} /\ last'.answer = mapN[last'.key] /\ Forgets(map)
               \/ /\ last'.op = "take" /\ last'.answer \in {map[last'.key], Absent}
                  /\ Forgets([map EXCEPT ![last'.key] = Absent])
               \/ last'.op = "delete" /\ Forgets([map EXCEPT ![last'.key] = Absent])
               \/ last'.op = "clear" /\ mapN = [k \in Keys |-> Absent]
               \/ last'.op = "len" /\ Forgets(map)
        PROVE  Abstract!Respond
    BY <1>s, SaysIs, ZenonT(40) DEF Abstract!Respond, Abstract!Forgets
  <1>1. CASE DoClear
    <2>1. lru' = <<>> /\ last'.op = "clear"
      BY <1>1 DEF DoClear
    <2>2. Range(lru') = {}
      BY <2>1 DEF Range
    <2>3. \A k \in Keys : AnswerOf(Of(lru', k)) = Absent
      BY <2>2, NoEntry, Zenon
    <2> QED
      BY <1>s, <2>1, <2>3, SMTT(30) DEF Says
  <1>2. CASE DoLen
    <2>1. last'.op = "len" /\ lru' = Prune(clock)
      BY <1>2, Zenon DEF DoLen
    <2>2. Range(lru') \subseteq Range(lru)
      BY <2>1, PruneStep, SMTT(20)
    <2>3. Forgets(map)
      BY <1>0, <2>2, ForgetsOnly, ZenonT(40)
    <2> QED
      BY <1>s, <2>1, <2>3, SMTT(30)
  <1>3. ASSUME NEW k \in Keys, lru' = Dropped(k)
        PROVE  Forgets([map EXCEPT ![k] = Absent]) /\ mapN[k] = Absent
    <2>1. Range(lru') = {e \in Range(lru) : e.key # k}
      BY <1>3, DropStep, Zenon
    <2>2. mapN[k] = Absent
      BY <2>1, NoEntry DEF Says
    <2>3. mapN \in [Keys -> Values \cup {Absent}] /\ \A j \in Keys : mapN[j] \in {map[j], Absent}
      BY <1>0, <2>1, ForgetsOnly, ZenonT(40)
    <2> QED
      BY <1>0, <2>2, <2>3, SMTT(30)
  <1>4. ASSUME NEW k \in Keys, DoDelete(k) PROVE Abstract!Respond
    <2>1. lru' = Dropped(k) /\ last'.op = "delete" /\ last'.key = k
      BY <1>4, Zenon DEF DoDelete
    <2> QED
      BY <1>3, <1>s, <2>1, SMTT(30)
  <1>5. ASSUME NEW k \in Keys, NEW now \in Nat, DoTake(k, now) PROVE Abstract!Respond
    <2>1. lru' = Dropped(k) /\ last'.op = "take" /\ last'.key = k /\ last'.answer = AnswerOf(Served(k, now))
      BY <1>5, Zenon DEF DoTake
    <2>2. AnswerOf(Served(k, now)) \in {map[k], Absent}
      <3>1. CASE Served(k, now) = {}
        BY <3>1, Zenon DEF AnswerOf
      <3>2. CASE Served(k, now) # {}
        <4>1. PICK e \in Served(k, now) : TRUE
          BY <3>2, Zenon
        <4>2. e \in Range(lru) /\ e.key = k /\ AnswerOf(Served(k, now)) = e.value
          BY <4>1, GetServes
        <4>3. AnswerOf(Of(lru, k)) = e.value
          BY <1>0, <4>2, OneEntry, Zenon
        <4> QED
          BY <4>2, <4>3 DEF Says
      <3> QED
        BY <3>1, <3>2, SMTT(20)
    <2> QED
      BY <1>3, <1>s, <2>1, <2>2, ZenonT(40)
  <1>6. ASSUME NEW k \in Keys, NEW now \in Nat, NEW v \in Values, DoPut(k, v, now) PROVE Abstract!Respond
    <2>1. /\ last'.op = "put" /\ last'.key = k /\ last'.value = v
          /\ lru' = Shortened(WithFirst(k, v, now), MaxSize)
      BY <1>6, Zenon DEF DoPut
    <2>2. PICK e : e = [key |-> k, value |-> v, seen |-> now, use |-> uses + 1]
      BY Zenon
    <2>3. e \in Range(lru') /\ \A x \in Range(lru') : x = e \/ (x \in Range(lru) /\ x.key # k)
      BY <2>1, <2>2, PutStep, SMTT(30)
    <2>4. e.key = k /\ e.value = v
      BY <2>2, Zenon
    <2>5. mapN[k] = v
      BY <1>0, <2>3, <2>4, OneEntry, SMTT(30) DEF Says
    <2>6. /\ mapN \in [Keys -> Values \cup {Absent}]
          /\ \A j \in Keys \ {k} : mapN[j] \in {map[j], Absent}
      <3>1. \A x \in Range(lru') : x.key \notin {k} =>
                \E d \in Range(lru) : d.key = x.key /\ d.value = x.value
        BY <2>3, <2>4
      <3>2. {k} \subseteq Keys
        BY Zenon
      <3> HIDE DEF map, mapN
      <3> QED
        BY <1>0, <3>1, <3>2, ForgetsOnly, ZenonT(40) DEF map, mapN
    <2>7. Forgets([map EXCEPT ![k] = v])
      BY <1>0, <2>5, <2>6, SMTT(30)
    <2> QED
      BY <1>s, <2>1, <2>5, <2>7, ZenonT(40)
  <1>7. ASSUME NEW k \in Keys, NEW now \in Nat, NEW op \in {"get", "peek"},
               last' = [op |-> op, key |-> k, now |-> now, answer |-> AnswerOf(Served(k, now))],
               \/ Served(k, now) = {} /\ lru' = Dropped(k)
               \/ \E e \in Served(k, now) : lru' = Found(Touched(e, op, now))
        PROVE  Abstract!Respond
    <2>1. last'.op \in {"get", "peek"} /\ last'.key = k /\ last'.answer = AnswerOf(Served(k, now))
      BY <1>7, SMTT(20)
    <2>2. CASE Served(k, now) = {} /\ lru' = Dropped(k)
      <3>1. AnswerOf(Served(k, now)) = Absent
        BY <2>2 DEF AnswerOf
      <3>2. Forgets(map) /\ mapN[k] = Absent
        BY <1>0, <1>3, <2>2, Zenon
      <3> QED
        BY <1>s, <2>1, <3>1, <3>2, ZenonT(40)
    <2>3. ASSUME NEW e \in Served(k, now), lru' = Found(Touched(e, op, now)) PROVE Abstract!Respond
      <3>1. e \in Range(lru) /\ e.key = k /\ e \in Entry /\ AnswerOf(Served(k, now)) = e.value
        BY GetServes
      <3>2. PICK d \in Entry : d = Touched(e, op, now) /\ d.key = k /\ d.value = e.value /\ d.use = uses + 1
        BY <3>1, TouchedEntry, Zenon
      <3>3. Range(lru') = {x \in Range(lru) : x.key # k} \cup {d}
        BY <2>3, <3>1, <3>2, FoundStep, SMTT(30)
      <3>4. mapN[k] = e.value
        BY <1>0, <3>2, <3>3, OneEntry, SMTT(30) DEF Says
      <3>5. Forgets(map)
        <4>1. \A x \in Range(lru') : x.key \notin {} =>
                  \E y \in Range(lru) : y.key = x.key /\ y.value = x.value
          BY <3>1, <3>2, <3>3, Zenon
        <4>2. {} \subseteq Keys /\ Keys \ {} = Keys
          OBVIOUS
        <4>3. /\ Says(lru') \in [Keys -> Values \cup {Absent}]
              /\ \A j \in Keys \ {} : Says(lru')[j] \in {Says(lru)[j], Absent}
          BY <1>0, <4>1, <4>2, ForgetsOnly, Zenon
        <4> QED
          BY <4>2, <4>3, Zenon
      <3> QED
        BY <1>s, <2>1, <3>1, <3>4, <3>5, ZenonT(40)
    <2> QED
      BY <1>7, <2>2, <2>3, SMTT(30)
  <1> HIDE DEF map, mapN, Forgets
  <1> QED
    BY <1>1, <1>2, <1>4, <1>5, <1>6, <1>7, CallCases, SMTT(30)

\* The cache implements the forgetful map: no value outlives its replacement or
\* removal, a put is not lost in its own call, and an answer is what the map
\* holds, for every size, time to live and order of the calls' clock readings.
\* (pkg/lrucache/lrucache.go)
THEOREM CacheForgetsOnly == CacheSpec => IsForgetfulMap
  <1>1. CacheInit => Abstract!MapInit
    <2> SUFFICES ASSUME CacheInit PROVE Abstract!MapInit
      BY Zenon
    <2>1. lru = <<>> /\ last.op = "clear"
      BY DEF CacheInit
    <2>2. Range(lru) = {}
      BY <2>1 DEF Range
    <2>3. \A k \in Keys : AnswerOf(Items(k)) = Absent
      BY <2>2, ItemsAre, NoEntry
    <2> QED
      BY <2>1, <2>3, Zenon DEF Abstract!MapInit
  <1>2. CacheInv /\ CacheInv' /\ [CacheNext]_cacheVars => [Abstract!Respond]_(Abstract!mapVars)
    <2> SUFFICES ASSUME CacheInv, CacheInv', [CacheNext]_cacheVars
                 PROVE  [Abstract!Respond]_(Abstract!mapVars)
      BY Zenon
    <2>1. CASE lru' = lru /\ last' = last
      BY <2>1, SaysIs DEF Abstract!mapVars
    <2>2. CASE CacheCall
      BY <2>2, CallResponds, Zenon
    <2> QED
      BY <2>1, <2>2 DEF CacheNext, ClockTicks, cacheVars
  <1> QED
    BY <1>1, <1>2, AlwaysCacheInv, PTL DEF CacheSpec, IsForgetfulMap, Abstract!MapSpec
==============================================================================
