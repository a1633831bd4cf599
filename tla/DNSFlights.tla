------------------------------ MODULE DNSFlights ------------------------------
(***************************************************************************)
(* serverDNSCache.QueryUpstream (cmd/server/dns_cache.go): concurrent       *)
(* queries with the same key share one lookup.  The first becomes leader    *)
(* and goes through the upstreams in order; the others wait for its flight. *)
(* All queries of the model have one key and differ in their transaction    *)
(* ID, for which the asker itself stands.                                   *)
(***************************************************************************)
EXTENDS Naturals, FiniteSets

CONSTANTS
    Askers,     \* goroutines of queryDNSHijackAsync
    Upstreams,  \* how many upstreams are configured
    Nobody      \* no asker

ASSUME FlightConstants == Upstreams \in Nat /\ Nobody \notin Askers

VARIABLES
    dnsEntry,   \* the cached response: its kind and the ID it was received with
    flight,     \* the asker that leads the flight of the key, or Nobody
    landed,     \* [Askers -> the result of the flight it led]
    asker,      \* [Askers -> where it is]
    boards,     \* [Askers -> the flight it waits for]
    turn,       \* [Askers -> the upstream a leader asks next]
    fallback,   \* [Askers -> BOOLEAN]  fallbackResponse is set
    got         \* [Askers -> what it returned]

flightVars == <<dnsEntry, flight, landed, asker, boards, turn, fallback, got>>

Kind == {"none", "good", "fallback", "error"}
Result == [kind : Kind, id : Askers \cup {Nobody}]
Empty == [kind |-> "none", id |-> Nobody]

FlightTypeOK ==
    /\ dnsEntry \in Result /\ flight \in Askers \cup {Nobody}
    /\ landed \in [Askers -> Result] /\ got \in [Askers -> Result]
    /\ asker \in [Askers -> {"start", "locking", "waiting", "leading", "landing", "done"}]
    /\ boards \in [Askers -> Askers \cup {Nobody}]
    /\ turn \in [Askers -> 1..(Upstreams + 1)] /\ fallback \in [Askers -> BOOLEAN]

FlightInit ==
    /\ dnsEntry = Empty /\ flight = Nobody
    /\ landed = [a \in Askers |-> Empty] /\ got = [a \in Askers |-> Empty]
    /\ asker = [a \in Askers |-> "start"] /\ boards = [a \in Askers |-> Nobody]
    /\ turn = [a \in Askers |-> 1] /\ fallback = [a \in Askers |-> FALSE]

Goes(a, place) == asker' = [asker EXCEPT ![a] = place]

\* rewriteDNSResponseID: the caller's own ID.
Answer(a, r) == got' = [got EXCEPT ![a] = [r EXCEPT !.id = a]]

\* The look into the cache without flightMu.
LookFirst(a) ==
    /\ asker[a] = "start"
    /\ IF dnsEntry # Empty THEN Goes(a, "done") /\ Answer(a, dnsEntry)
       ELSE Goes(a, "locking") /\ UNCHANGED got
    /\ UNCHANGED <<dnsEntry, flight, landed, boards, turn, fallback>>

Join(a) ==
    /\ asker[a] = "locking" /\ flight # Nobody
    /\ Goes(a, "waiting") /\ boards' = [boards EXCEPT ![a] = flight]
    /\ UNCHANGED <<dnsEntry, flight, landed, turn, fallback, got>>

\* The second look, with flightMu.
LookAgain(a) ==
    /\ asker[a] = "locking" /\ flight = Nobody /\ dnsEntry # Empty
    /\ Goes(a, "done") /\ Answer(a, dnsEntry)
    /\ UNCHANGED <<dnsEntry, flight, landed, boards, turn, fallback>>

\* Mutant: a flight of another leader is not looked for.
LeadAnyway(a) ==
    /\ asker[a] = "locking" /\ dnsEntry = Empty
    /\ Goes(a, "leading") /\ flight' = a
    /\ UNCHANGED <<dnsEntry, landed, boards, turn, fallback, got>>

Lead(a) ==
    /\ asker[a] = "locking" /\ flight = Nobody /\ dnsEntry = Empty
    /\ Goes(a, "leading") /\ flight' = a
    /\ UNCHANGED <<dnsEntry, landed, boards, turn, fallback, got>>

\* Mutant: what will be the fallback is cached as well.
AskUpstreamCachingAll(a) ==
    /\ asker[a] = "leading" /\ turn[a] <= Upstreams
    /\ turn' = [turn EXCEPT ![a] = @ + 1]
    /\ \E kind \in {"good", "fallback"} :
          dnsEntry' = [kind |-> kind, id |-> a]
          /\ Goes(a, "landing") /\ landed' = [landed EXCEPT ![a] = [kind |-> kind, id |-> a]]
    /\ UNCHANGED <<flight, boards, fallback, got>>

\* One upstream: an error or an invalid response, an unsuccessful one, which
\* is kept if it is the first and whole, or a success, which is cached here,
\* before the flight lands.
AskUpstream(a) ==
    /\ asker[a] = "leading" /\ turn[a] <= Upstreams
    /\ turn' = [turn EXCEPT ![a] = @ + 1]
    /\ \/ UNCHANGED <<dnsEntry, asker, landed, fallback>>
       \/ /\ fallback' = [fallback EXCEPT ![a] = TRUE]
          /\ UNCHANGED <<dnsEntry, asker, landed>>
       \/ /\ dnsEntry' = [kind |-> "good", id |-> a]
          /\ Goes(a, "landing") /\ landed' = [landed EXCEPT ![a] = [kind |-> "good", id |-> a]]
          /\ UNCHANGED fallback
    /\ UNCHANGED <<flight, boards, got>>

\* None succeeded.
UpstreamsExhausted(a) ==
    /\ asker[a] = "leading" /\ turn[a] > Upstreams
    /\ Goes(a, "landing")
    /\ landed' = [landed EXCEPT ![a] =
                     [kind |-> IF fallback[a] THEN "fallback" ELSE "error", id |-> a]]
    /\ UNCHANGED <<dnsEntry, flight, boards, turn, fallback, got>>

\* The flight is deleted and done is closed under flightMu.
Land(a) ==
    /\ asker[a] = "landing" /\ flight' = Nobody
    /\ Goes(a, "done") /\ Answer(a, landed[a])
    /\ UNCHANGED <<dnsEntry, landed, boards, turn, fallback>>

\* Mutant: the leader's bytes are passed on as they are.
WakeUnwritten(a) ==
    /\ asker[a] = "waiting" /\ asker[boards[a]] = "done"
    /\ Goes(a, "done") /\ got' = [got EXCEPT ![a] = landed[boards[a]]]
    /\ UNCHANGED <<dnsEntry, flight, landed, boards, turn, fallback>>

\* Mutant: a waiter looks at the cache instead of the flight.
WakeByCache(a) ==
    /\ asker[a] = "waiting" /\ dnsEntry # Empty
    /\ Goes(a, "done") /\ Answer(a, dnsEntry)
    /\ UNCHANGED <<dnsEntry, flight, landed, boards, turn, fallback>>

Wake(a) ==
    /\ asker[a] = "waiting" /\ asker[boards[a]] = "done"
    /\ Goes(a, "done") /\ Answer(a, landed[boards[a]])
    /\ UNCHANGED <<dnsEntry, flight, landed, boards, turn, fallback>>

EntryLeaves ==
    /\ dnsEntry # Empty /\ dnsEntry' = Empty
    /\ UNCHANGED <<flight, landed, asker, boards, turn, fallback, got>>

Ask(a) ==
    \/ LookFirst(a) \/ Join(a) \/ LookAgain(a) \/ Lead(a) \/ AskUpstream(a)
    \/ UpstreamsExhausted(a) \/ Land(a) \/ Wake(a)

FlightNext == EntryLeaves \/ \E a \in Askers : Ask(a)

FlightSpec == FlightInit /\ [][FlightNext]_flightVars

\* Goroutines run; an upstream answers or its three seconds pass.
FlightFairness == \A a \in Askers : WF_flightVars(Ask(a))

-----------------------------------------------------------------------------
(* Properties *)

\* "semantically identical concurrent queries share one upstream lookup"
\* (README.md:230): two askers never ask upstreams at the same time.
OneLookup == Cardinality({a \in Askers : asker[a] \in {"leading", "landing"}}) <= 1

\* "while preserving each caller's transaction ID" (README.md:230).
OwnTransactionID == \A a \in Askers : asker[a] = "done" => got[a].id = a /\ got[a].kind # "none"

\* "truncated, and non-success responses are not cached" (README.md:230).
OnlySuccessCached == dnsEntry.kind \in {"none", "good"}

\* What README.md:230 promises of shared lookups, all of it in every order of
\* looks, flights and failing upstreams.
LookupsShared == OneLookup /\ OwnTransactionID /\ OnlySuccessCached

\* Every query is answered or fails; a waiter is not left behind by a flight
\* that failed.
AskersAnswered ==
    (\E a \in Askers : asker[a] # "start") ~> \A a \in Askers : asker[a] \in {"start", "done"}
=============================================================================
