---------------------------- MODULE ReverseRoutes ----------------------------
(***************************************************************************)
(* The reverse-route table of a server: the readers of the reverse muxes    *)
(* that register a route, the refresh that withdraws a user's permission,   *)
(* the idle cleanup, and the goroutines that forward a client's channel     *)
(* over the routes that match, failing over from one to the next.           *)
(* (cmd/server/reverse_route.go, reverse_control.go, reverse_forward.go,    *)
(* main.go)                                                                 *)
(*                                                                          *)
(* All muxes belong to one user and all routes match the target: rule       *)
(* matching is the subject of RouteRules.  A step is a lock region or what  *)
(* a goroutine does between two looks at state others change.               *)
(***************************************************************************)
EXTENDS SeqFilter, FiniteSets

CONSTANTS
    RevMuxes,       \* the accepted muxes
    Preferred,      \* those whose route has the better (lower) priority
    Forwarders,     \* goroutines in forwardViaReverseRoute
    MaxAllocs,      \* MaxChannelAllocations of a reverse mux, which is also
                    \* its limit of concurrent channels
    RegisterFaults  \* whether the write queue may refuse the pool switch

ASSUME RouteConstants ==
    /\ Preferred \subseteq RevMuxes /\ MaxAllocs \in Nat \ {0}
    /\ RegisterFaults \in BOOLEAN /\ IsFiniteSet(Forwarders)

VARIABLES
    revState,   \* [RevMuxes -> "new", "open", "invalid" or "closed"]
    listed,     \* muxConns
    entries,    \* reverseRouteManager.entries, best first
    reader,     \* [RevMuxes -> where handleReverseRoutePacket is]
    account,    \* the user in memory: "allowed", "plain" or "disabled"
    refreshing, \* flushTraffic is between setUsers and closeUnavailableConnections
    allocs,     \* [RevMuxes -> AllocCount]
    active,     \* [RevMuxes -> ActiveCount]
    fwd,        \* [Forwarders -> the state of forwardViaReverseRoute]
    retiredBusy \* history: a forwarder closed an exhausted mux in use

revVars == <<revState, listed, entries, reader, account, refreshing, allocs,
             active, fwd, retiredBusy>>

FwdPlace == {"idle", "try", "drop", "send", "wait", "relay", "over"}
Holding == {"send", "wait", "relay"}

RevTypeOK ==
    /\ revState \in [RevMuxes -> {"new", "open", "invalid", "closed"}]
    /\ listed \subseteq RevMuxes
    /\ entries \in Seq(RevMuxes)
    /\ \A i, j \in 1..Len(entries) : entries[i] = entries[j] => i = j
    /\ reader \in [RevMuxes -> {"idle", "checked", "locked", "refused", "done"}]
    /\ account \in {"allowed", "plain", "disabled"}
    /\ refreshing \in BOOLEAN
    /\ allocs \in [RevMuxes -> 0..MaxAllocs] /\ active \in [RevMuxes -> 0..MaxAllocs]
    /\ \A f \in Forwarders :
          /\ fwd[f].pc \in FwdPlace /\ fwd[f].list \in Seq(RevMuxes)
          /\ fwd[f].close \in BOOLEAN
          /\ fwd[f].pc \in Holding \cup {"try", "drop"} => fwd[f].list # <<>>
    /\ retiredBusy \in BOOLEAN

RevInit ==
    /\ revState = [m \in RevMuxes |-> "new"] /\ listed = {} /\ entries = <<>>
    /\ reader = [m \in RevMuxes |-> "idle"]
    /\ account = "allowed" /\ refreshing = FALSE
    /\ allocs = [m \in RevMuxes |-> 0] /\ active = [m \in RevMuxes |-> 0]
    /\ fwd = [f \in Forwarders |-> [pc |-> "idle", list |-> <<>>, close |-> FALSE]]
    /\ retiredBusy = FALSE

-----------------------------------------------------------------------------
(* Muxes come and go *)

Usable(m) == revState[m] = "open"

\* handleConnection: the mux joins muxConns and starts to read.
Accept(m) ==
    /\ revState[m] = "new"
    /\ revState' = [revState EXCEPT ![m] = "open"]
    /\ listed' = listed \cup {m}
    /\ UNCHANGED <<entries, reader, account, refreshing, allocs, active, fwd, retiredBusy>>

\* The mux closes (peer, write error, timers) or turns invalid.
MuxEnds(m) ==
    /\ revState[m] \in {"open", "invalid"}
    /\ \E s \in {"invalid", "closed"} :
          revState[m] # s /\ revState' = [revState EXCEPT ![m] = s]
    /\ UNCHANGED <<listed, entries, reader, account, refreshing, allocs, active, fwd, retiredBusy>>

-----------------------------------------------------------------------------
(* reverseRouteManager *)

Rank(m) == IF m \in Preferred THEN 1 ELSE 2

\* removeMux
Without(seq, m) == Only(seq, RevMuxes \ {m})

\* register: the old entry of the mux goes, the new one stands before the first
\* entry whose priority is not better.
Registered(m) ==
    LET out == Without(entries, m)
        worse == {i \in 1..Len(out) : Rank(m) <= Rank(out[i])}
        at == IF worse = {} THEN Len(out) + 1
              ELSE CHOOSE i \in worse : \A j \in worse : i <= j
    IN  SubSeq(out, 1, at - 1) \o <<m>> \o SubSeq(out, at, Len(out))

-----------------------------------------------------------------------------
(* handleReverseRoutePacket, on the reader of the mux *)

\* denyReverseRouteRegistration
Deny(m) ==
    /\ reader' = [reader EXCEPT ![m] = "done"]
    /\ revState' = [revState EXCEPT ![m] = IF @ = "open" THEN "invalid" ELSE @]

\* The update is complete; the permission was looked at when it arrived.
UpdateArrives(m) ==
    /\ revState[m] = "open" /\ reader[m] = "idle"
    /\ IF account = "allowed"
       THEN reader' = [reader EXCEPT ![m] = "checked"] /\ UNCHANGED revState
       ELSE Deny(m)
    /\ UNCHANGED <<listed, entries, account, refreshing, allocs, active, fwd, retiredBusy>>

\* Mutant: the permission is not looked at again.
RegisterRouteUnchecked(m) ==
    /\ reader[m] = "checked"
    /\ reader' = [reader EXCEPT ![m] = "locked"]
    /\ entries' = Registered(m)
    /\ UNCHANGED <<revState, listed, account, refreshing, allocs, active, fwd, retiredBusy>>

\* withReverseRoutePermission: with the users locked for reading the route is
\* registered if the permission is still there.
RegisterRoute(m) ==
    /\ reader[m] = "checked"
    /\ IF account = "allowed"
       THEN /\ reader' = [reader EXCEPT ![m] = "locked"]
            /\ entries' = Registered(m)
            /\ UNCHANGED revState
       ELSE Deny(m) /\ UNCHANGED entries
    /\ UNCHANGED <<listed, account, refreshing, allocs, active, fwd, retiredBusy>>

\* SwitchObfPoolFromUserPassword, then the lock is released.
SwitchPool(m) ==
    /\ reader[m] = "locked"
    /\ \/ revState[m] # "closed" /\ reader' = [reader EXCEPT ![m] = "done"]
       \/ (revState[m] = "closed" \/ RegisterFaults) /\ reader' = [reader EXCEPT ![m] = "refused"]
    /\ UNCHANGED <<revState, listed, entries, account, refreshing, allocs, active, fwd, retiredBusy>>

\* Mutant: the mux is closed and its route stays.
UndoKeepingRoute(m) ==
    /\ reader[m] = "refused"
    /\ reader' = [reader EXCEPT ![m] = "done"]
    /\ revState' = [revState EXCEPT ![m] = "closed"]
    /\ UNCHANGED <<listed, entries, account, refreshing, allocs, active, fwd, retiredBusy>>

\* The switch was refused: the route goes and the mux is closed.
UndoRegister(m) ==
    /\ reader[m] = "refused"
    /\ reader' = [reader EXCEPT ![m] = "done"]
    /\ entries' = Without(entries, m)
    /\ revState' = [revState EXCEPT ![m] = "closed"]
    /\ UNCHANGED <<listed, account, refreshing, allocs, active, fwd, retiredBusy>>

-----------------------------------------------------------------------------
(* The configuration refresh and the idle cleanup *)

\* setUsers waits for the readers of the users to let go.
SetAccount ==
    /\ ~refreshing /\ \A m \in RevMuxes : reader[m] # "locked"
    /\ account' \in {"allowed", "plain", "disabled"} \ {account}
    /\ refreshing' = TRUE
    /\ UNCHANGED <<revState, listed, entries, reader, allocs, active, fwd, retiredBusy>>

\* closeUnavailableConnections: a disabled user's muxes are closed and dropped,
\* without the permission their routes go.
CloseUnavailable ==
    /\ refreshing
    /\ refreshing' = FALSE
    /\ IF account = "disabled"
       THEN /\ revState' = [m \in RevMuxes |-> IF m \in listed THEN "closed" ELSE revState[m]]
            /\ listed' = {}
       ELSE UNCHANGED <<revState, listed>>
    /\ entries' = IF account = "allowed" THEN entries
                  ELSE Only(entries, RevMuxes \ listed)
    /\ UNCHANGED <<reader, account, allocs, active, fwd, retiredBusy>>

\* cleanupIdleConnections, for one mux that is closed or idle.
CleanupIdle(m) ==
    /\ m \in listed /\ revState[m] # "new"
    /\ listed' = listed \ {m}
    /\ revState' = [revState EXCEPT ![m] = "closed"]
    /\ entries' = Without(entries, m)
    /\ UNCHANGED <<reader, account, refreshing, allocs, active, fwd, retiredBusy>>

-----------------------------------------------------------------------------
(* forwardViaReverseRoute *)

Move(f, pc) == fwd' = [fwd EXCEPT ![f].pc = pc]
Candidate(f) == Head(fwd[f].list)

\* The entries still to be tried; with none left the channel goes the direct way.
Tries(f, list) ==
    fwd' = [fwd EXCEPT ![f] = [pc |-> IF list = <<>> THEN "over" ELSE "try",
                               list |-> list, close |-> FALSE]]
NextEntry(f) == Tries(f, Tail(fwd[f].list))

\* forwardViaReverseRoute returns.
Leaves(f) == fwd' = [fwd EXCEPT ![f] = [pc |-> "over", list |-> <<>>, close |-> FALSE]]

\* matchEntries
Match(f) ==
    /\ fwd[f].pc = "idle" /\ Tries(f, entries)
    /\ UNCHANGED <<revState, listed, entries, reader, account, refreshing, allocs, active, retiredBusy>>

\* A closed or invalid mux loses its route.
SkipDead(f) ==
    /\ fwd[f].pc = "try" /\ ~Usable(Candidate(f))
    /\ entries' = Without(entries, Candidate(f))
    /\ NextEntry(f)
    /\ UNCHANGED <<revState, listed, reader, account, refreshing, allocs, active, retiredBusy>>

\* Mutant: an exhausted mux is closed whether it is in use or not.
SeeExhaustedClosing(f) ==
    /\ fwd[f].pc = "try" /\ Usable(Candidate(f)) /\ allocs[Candidate(f)] = MaxAllocs
    /\ fwd' = [fwd EXCEPT ![f].pc = "drop", ![f].close = TRUE]
    /\ UNCHANGED <<revState, listed, entries, reader, account, refreshing, allocs, active, retiredBusy>>

\* CanAllocChannel or AllocChannel refuses: the mux has used up its channel IDs.
\* (With equal limits it is never "temporarily full".)  Whether it is in use is
\* looked at now and acted on below.
SeeExhausted(f) ==
    /\ fwd[f].pc = "try" /\ Usable(Candidate(f)) /\ allocs[Candidate(f)] = MaxAllocs
    /\ fwd' = [fwd EXCEPT ![f].pc = "drop", ![f].close = (active[Candidate(f)] = 0)]
    /\ UNCHANGED <<revState, listed, entries, reader, account, refreshing, allocs, active, retiredBusy>>

\* removeReverseRouteMux
DropExhausted(f) ==
    /\ fwd[f].pc = "drop"
    /\ LET m == Candidate(f)  closing == fwd[f].close /\ revState[m] = "open" IN
       /\ entries' = Without(entries, m)
       /\ revState' = [revState EXCEPT ![m] = IF closing THEN "closed" ELSE @]
       /\ retiredBusy' = (retiredBusy \/ (closing /\ active[m] > 0))
    /\ NextEntry(f)
    /\ UNCHANGED <<listed, reader, account, refreshing, allocs, active>>

\* AllocChannel
Alloc(f) ==
    /\ fwd[f].pc = "try" /\ Usable(Candidate(f)) /\ allocs[Candidate(f)] < MaxAllocs
    /\ allocs' = [allocs EXCEPT ![Candidate(f)] = @ + 1]
    /\ active' = [active EXCEPT ![Candidate(f)] = @ + 1]
    /\ Move(f, "send")
    /\ UNCHANGED <<revState, listed, entries, reader, account, refreshing, retiredBusy>>

\* removeFromMux: a mux that has closed has forgotten its channels already.
Release(m) ==
    active' = [active EXCEPT ![m] = IF revState[m] = "closed" THEN @ ELSE @ - 1]

\* SendChannelRequestWithProxyLevel queues the request, or fails: then channel,
\* route and mux go.
SendRequest(f) ==
    /\ fwd[f].pc = "send"
    /\ LET m == Candidate(f) IN
       \/ /\ revState[m] # "closed" /\ Move(f, "wait")
          /\ UNCHANGED <<revState, entries, active>>
       \/ /\ Release(m)
          /\ entries' = Without(entries, m)
          /\ revState' = [revState EXCEPT ![m] = IF @ = "invalid" THEN @ ELSE "closed"]
          /\ NextEntry(f)
    /\ UNCHANGED <<listed, reader, account, refreshing, allocs, retiredBusy>>

\* readReverseChannelTargetResponse got the final answer: OK starts the relay
\* unless the client is gone, anything else ends the client's channel too.
Answer(f) ==
    /\ fwd[f].pc = "wait" /\ revState[Candidate(f)] = "open"
    /\ \/ Move(f, "relay") /\ UNCHANGED active
       \/ Leaves(f) /\ Release(Candidate(f))
    /\ UNCHANGED <<revState, listed, entries, reader, account, refreshing, allocs, retiredBusy>>

\* Mutant: the channel is kept when the mux is still good.
NoAnswerLeaking(f) ==
    /\ fwd[f].pc = "wait"
    /\ LET m == Candidate(f) IN
       \/ /\ revState[m] # "open" /\ entries' = Without(entries, m)
          /\ Release(m)
       \/ revState[m] = "open" /\ UNCHANGED <<entries, active>>
    /\ NextEntry(f)
    /\ UNCHANGED <<revState, listed, reader, account, refreshing, allocs, retiredBusy>>

\* No answer in time, or the channel failed: Close or Abort the channel;
\* reverseChannelFailureDisposition says what happens to route and mux.
NoAnswer(f) ==
    /\ fwd[f].pc = "wait"
    /\ LET m == Candidate(f) IN
       /\ Release(m)
       /\ \/ /\ revState[m] # "open" /\ entries' = Without(entries, m)
             /\ UNCHANGED revState
          \/ revState[m] = "open" /\ UNCHANGED <<entries, revState>>
          \/ /\ revState[m] = "open" /\ RegisterFaults   \* the Abort is refused
             /\ entries' = Without(entries, m)
             /\ revState' = [revState EXCEPT ![m] = "closed"]
    /\ NextEntry(f)
    /\ UNCHANGED <<listed, reader, account, refreshing, allocs, retiredBusy>>

\* relayMuxChannels is over.
RelayEnds(f) ==
    /\ fwd[f].pc = "relay"
    /\ Release(Candidate(f)) /\ Leaves(f)
    /\ UNCHANGED <<revState, listed, entries, reader, account, refreshing, allocs, retiredBusy>>

ForwardStep(f) ==
    \/ Match(f) \/ SkipDead(f) \/ SeeExhausted(f) \/ DropExhausted(f) \/ Alloc(f)
    \/ SendRequest(f) \/ Answer(f) \/ NoAnswer(f)

RevNext ==
    \/ \E m \in RevMuxes :
          \/ Accept(m) \/ MuxEnds(m) \/ UpdateArrives(m) \/ RegisterRoute(m)
          \/ SwitchPool(m) \/ UndoRegister(m) \/ CleanupIdle(m)
    \/ \E f \in Forwarders : ForwardStep(f) \/ RelayEnds(f)
    \/ SetAccount \/ CloseUnavailable

RevSpec == RevInit /\ [][RevNext]_revVars

-----------------------------------------------------------------------------
(* Properties *)

\* "Removing a user's permission during runtime configuration refresh removes
\* that user's existing routes" (README.md:243), also when a registration is
\* under way at the time: after the refresh a route is left only for as long as
\* the reader that has just been refused takes to remove it.
RevokedRoutesGone ==
    ~refreshing /\ account # "allowed" =>
        \A i \in 1..Len(entries) : reader[entries[i]] = "refused"

\* No route outlives the list the refresh and the cleanup go through: once its
\* reader is done, a mux in the table is a mux of muxConns, even when it was
\* cleaned up while it registered.
NoStaleRoute ==
    \A i \in 1..Len(entries) : reader[entries[i]] = "done" => entries[i] \in listed

\* A route in the table is one of a permitted user on a mux that is still
\* listed, whatever registers, refreshes and cleans up at the same time.
RoutesAreCurrent == RevokedRoutesGone /\ NoStaleRoute

\* Every channel a forwarder took on an open mux is in use by exactly that
\* forwarder or has been given back: no failover path leaks one.
ReverseChannelsAccounted ==
    \A m \in RevMuxes : revState[m] # "closed" =>
        active[m] = Cardinality({f \in Forwarders :
                                    fwd[f].pc \in Holding /\ Candidate(f) = m})

\* A mux whose channel IDs are used up is closed by a forwarder only when no
\* channel of it is in use, although the look and the close are two steps.
ExhaustedMuxSpared == ~retiredBusy

\* No channel is lost: each one taken is in use or given back, and the mux it is
\* on is not retired under it.
ReverseChannelsKept == ReverseChannelsAccounted /\ ExhaustedMuxSpared
=============================================================================
