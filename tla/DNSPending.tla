------------------------------ MODULE DNSPending ------------------------------
(***************************************************************************)
(* DNS queries that a UDP relay forwards to their own target, and what is   *)
(* learnt from the responses (serverDNSPending of cmd/server/dns_cache.go,  *)
(* used by the two goroutines of handleUDPChannel).  A response that        *)
(* matches a pending query by source address, transaction ID and question   *)
(* is cached for the scope, the requested target, and the flags of the      *)
(* query.                                                                   *)
(*                                                                          *)
(* There is one question.  The network sends anything at any time: early,   *)
(* late, repeated and unsolicited responses.                                *)
(***************************************************************************)
EXTENDS Naturals, FiniteSets

CONSTANTS
    Scopes,         \* targets as requested; several may resolve to one address
    Remotes,        \* addresses
    IDs, Flags,
    MaxTracked      \* bound of the model

ASSUME PendingConstants == MaxTracked \in Nat

VARIABLES
    awaited,    \* the pending map: queries, at most one per address and ID
    writing,    \* the query between Track and WriteToUDP, as a set
    learnt,     \* cached responses: scope and flags, and where they came from
    tracked,    \* history: queries that were tracked
    tracks,     \* history: calls of Track
    stores      \* history: calls of StoreMatchedResponse that stored

pendVars == <<awaited, writing, learnt, tracked, tracks, stores>>

Query == [remote : Remotes, id : IDs, scope : Scopes, flags : Flags]

PendTypeOK ==
    /\ awaited \subseteq Query /\ tracked \subseteq Query /\ learnt \subseteq Query
    /\ writing \subseteq Query /\ Cardinality(writing) <= 1
    /\ tracks \in 0..MaxTracked /\ stores \in Nat

PendInit ==
    /\ awaited = {} /\ writing = {} /\ learnt = {} /\ tracked = {}
    /\ tracks = 0 /\ stores = 0

\* Mutant: the address is not part of the key.
SameKeyAnywhere(remote, id) == {q \in awaited : q.id = id}

\* makeDNSPendingKey: address, ID and question.
SameKey(remote, id) == {q \in awaited : q.remote = remote /\ q.id = id}

\* Track, before the query is written; a query with the same key takes its place.
Track(q) ==
    /\ writing = {} /\ tracks < MaxTracked
    /\ awaited' = (awaited \ SameKey(q.remote, q.id)) \cup {q}
    /\ writing' = {q} /\ tracked' = tracked \cup {q} /\ tracks' = tracks + 1
    /\ UNCHANGED <<learnt, stores>>

\* WriteToUDP; after an error the key is deleted.
WriteQuery ==
    /\ writing # {} /\ writing' = {}
    /\ \/ UNCHANGED awaited
       \/ \E q \in writing : awaited' = awaited \ SameKey(q.remote, q.id)
    /\ UNCHANGED <<learnt, tracked, tracks, stores>>

\* Mutant: the pending query is looked up and left.
MatchAndKeep(remote, id) ==
    \E q \in SameKey(remote, id) :
        /\ learnt' = {r \in learnt : r.scope # q.scope \/ r.flags # q.flags}
                         \cup {[q EXCEPT !.remote = remote]}
        /\ stores' = stores + 1 /\ stores < 2 * MaxTracked
        /\ UNCHANGED <<awaited, writing, tracked, tracks>>

\* A success from remote with this ID and the question: Take, then Put.  Any
\* other response changes nothing.
MatchAndStore(remote, id) ==
    \E q \in SameKey(remote, id) :
        /\ awaited' = awaited \ {q}
        /\ learnt' = {r \in learnt : r.scope # q.scope \/ r.flags # q.flags}
                         \cup {[q EXCEPT !.remote = remote]}
        /\ stores' = stores + 1
        /\ UNCHANGED <<writing, tracked, tracks>>

\* Pending queries and cached responses leave by age and size.
PendForgets ==
    /\ \/ \E q \in awaited : awaited' = awaited \ {q} /\ UNCHANGED learnt
       \/ \E r \in learnt : learnt' = learnt \ {r} /\ UNCHANGED awaited
    /\ UNCHANGED <<writing, tracked, tracks, stores>>

PendNext ==
    \/ \E q \in Query : Track(q)
    \/ WriteQuery
    \/ \E remote \in Remotes, id \in IDs : MatchAndStore(remote, id)
    \/ PendForgets

PendSpec == PendInit /\ [][PendNext]_pendVars

-----------------------------------------------------------------------------
(* Properties *)

\* "cached only when source address, transaction ID, and question match a
\* pending query" (README.md:230): what is cached for a scope and flags came
\* from an address that a query of that scope and those flags was sent to.
LearntFromAsked == learnt \subseteq tracked

\* A tracked query lets in one response: repeats of it, or a second sender,
\* find nothing pending.
OneResponsePerQuery == stores + Cardinality(awaited) <= tracks

\* Every response that is cached answers a query that was asked for its scope,
\* and no query is answered twice.
ResponsesMatchQueries == LearntFromAsked /\ OneResponsePerQuery
=============================================================================
