------------------------------ MODULE MuxPool ------------------------------
(***************************************************************************)
(* The client's pool of mux connections: how a SOCKS request gets a channel *)
(* of an existing mux or joins the creation of a new one, and how the mux   *)
(* is closed once nobody needs it.   (cmd/client/mux_pool.go)               *)
(*                                                                          *)
(* Each request is a goroutine. Two locks matter: muxConnMu, which protects *)
(* the pool, and tcpCreateMu, which protects the creations and is taken     *)
(* first. A goroutine holds the pool lock exactly while its pc is "picked"  *)
(* or "drop", and on the slow path both, so they need no variable.          *)
(*                                                                          *)
(* A mux is seen as MuxChannels describes it: a channel table whose size is *)
(* the active count, an allocation limit and an active limit.               *)
(***************************************************************************)
EXTENDS Integers, Sequences, FiniteSets

CONSTANTS
    Requests,           \* SOCKS requests, each served by a goroutine
    Servers,
    Muxes,              \* identities for the muxes that get created
    MaxAllocations,     \* channels a mux may allocate in its life
    MaxActive,          \* channels a mux may have open at a time
    BatchSize,          \* tcpMuxCreationBatchSize
    None,
    Environment         \* the events explored, a subset of EnvironmentEvents

EnvironmentEvents == {"dialFails", "muxCloses", "retires", "idle", "unacked"}

ASSUME PoolAssumption ==
    /\ MaxAllocations \in Nat \ {0} /\ MaxActive \in Nat \ {0}
    /\ BatchSize \in Nat \ {0}
    /\ None \notin Requests \cup Servers \cup Muxes
    /\ Environment \subseteq EnvironmentEvents

VARIABLES
    mux,        \* the mux connections
    pool,       \* muxConns
    creation,   \* the creation a request leads for a server
    pc,         \* where each request is
    slow,       \* the request runs getOrCreateTCPMuxChannel
    candidates, \* servers the request has not tried yet
    server,     \* the server it is trying
    picked,     \* the mux that tryExistingTCPChannel chose
    joined,     \* the creation it waits for, as <<leader, server, slot>>
    holds,      \* the channel it was given, as <<mux, channel>>
    sawIdle     \* releaseMuxChannel read an active count of 0

requestVars == <<slow, candidates, server, picked, joined, holds, sawIdle>>
vars == <<mux, pool, creation, pc, requestVars>>

NoMux == [state |-> "none", server |-> None, allocs |-> 0, channels |-> {},
          retired |-> FALSE, reason |-> "no"]

NoCreation == [state |-> "none", waiters |-> <<>>, mux |-> None, channels |-> <<>>]

Init ==
    /\ mux = [m \in Muxes |-> NoMux]
    /\ pool = {}
    /\ creation = [r \in Requests |-> [s \in Servers |-> NoCreation]]
    /\ pc = [r \in Requests |-> "choose"]
    /\ slow = [r \in Requests |-> FALSE]
    /\ candidates = [r \in Requests |-> {}]
    /\ server = [r \in Requests |-> None]
    /\ picked = [r \in Requests |-> None]
    /\ joined = [r \in Requests |-> None]
    /\ holds = [r \in Requests |-> None]
    /\ sawIdle = [r \in Requests |-> FALSE]

----------------------------------------------------------------------------
(* Muxes and locks. *)

\* A mux that is too old or became invalid is retired.
CanAllocChannel(m) ==
    /\ mux[m].state = "open" /\ ~mux[m].retired
    /\ mux[m].allocs < MaxAllocations
    /\ Cardinality(mux[m].channels) < MaxActive

\* Mutant: one channel more than was asked for.
AllocatedExtra(m, n) ==
    [mux[m] EXCEPT !.allocs = @ + n,
                   !.channels = @ \cup (mux[m].allocs .. mux[m].allocs + n)]

\* The channels a mux has after n allocations in a row, IDs in order.
Allocated(m, n) ==
    [mux[m] EXCEPT !.allocs = @ + n,
                   !.channels = @ \cup (mux[m].allocs + 1 .. mux[m].allocs + n)]

\* Closing a closed mux changes nothing.
Closed(m, why) ==
    IF mux[m].state = "open"
    THEN [mux[m] EXCEPT !.state = "closed", !.channels = {}, !.reason = why]
    ELSE mux[m]

PoolFree == \A r \in Requests : pc[r] \notin {"picked", "drop"}
CreateFree == \A r \in Requests : ~(pc[r] \in {"picked", "drop"} /\ slow[r])

----------------------------------------------------------------------------
(* Joining or leading the creation of a mux. *)

\* Mutant: a sealed creation still accepts waiters.
JoinableSealed(c) == c.state \in {"dialing", "sealed"} /\ Len(c.waiters) < BatchSize

Joinable(c) == c.state = "dialing" /\ Len(c.waiters) < BatchSize

\* Mutant: the slot of the previous waiter.
SlotShared(c) == Len(c.waiters)

\* The place of the next waiter in the batch.
Slot(c) == Len(c.waiters) + 1

\* A request takes the next slot of a creation that is still open, or starts
\* one of its own.
JoinTCPMuxCreation(r) ==
    LET s    == server[r]
        open == {l \in Requests : Joinable(creation[l][s])}
    IN  \/ \E l \in open :
              /\ creation' = [creation EXCEPT ![l][s].waiters = Append(@, r)]
              /\ joined' = [joined EXCEPT ![r] = <<l, s, Slot(creation[l][s])>>]
              /\ pc' = [pc EXCEPT ![r] = "wait"]
        \/ /\ open = {}
           /\ creation' = [creation EXCEPT ![r][s] =
                             [NoCreation EXCEPT !.state = "dialing", !.waiters = <<r>>]]
           /\ joined' = [joined EXCEPT ![r] = <<r, s, 1>>]
           /\ pc' = [pc EXCEPT ![r] = "dial"]

----------------------------------------------------------------------------
(* tryExistingTCPChannel. *)

\* The muxes a channel may be taken from. With several servers the unhealthy
\* ones are skipped; health changes at any time, so any set may be healthy.
Usable(conns, healthy) ==
    {m \in conns : CanAllocChannel(m)
                   /\ (Cardinality(Servers) = 1 \/ mux[m].server \in healthy)}

\* Choose the best mux among conns: any of the usable ones, the scores being
\* those of past traffic. When there is none, the fast path goes on to the
\* servers (those in cooldown are left out unless all are) and the slow path
\* to the creations.
ChooseMux(r, conns) ==
    \E healthy \in SUBSET Servers :
        LET usable == Usable(conns, healthy)
        IN  \/ \E m \in usable :
                  /\ picked' = [picked EXCEPT ![r] = m]
                  /\ pc' = [pc EXCEPT ![r] = "picked"]
                  /\ UNCHANGED <<creation, joined, candidates>>
            \/ /\ usable = {} /\ ~slow[r]
               /\ \E some \in SUBSET Servers \ {{}} :
                     candidates' = [candidates EXCEPT ![r] = some]
               /\ picked' = [picked EXCEPT ![r] = None]
               /\ pc' = [pc EXCEPT ![r] = "next"]
               /\ UNCHANGED <<creation, joined>>
            \/ /\ usable = {} /\ slow[r]
               /\ JoinTCPMuxCreation(r)
               /\ picked' = [picked EXCEPT ![r] = None]
               /\ UNCHANGED candidates

\* Closed muxes are pruned before one is chosen.
TryExistingTCPChannel(r) ==
    LET alive == {m \in pool : mux[m].state = "open"}
    IN  /\ pc[r] = "choose"
        /\ PoolFree
        /\ slow[r] => CreateFree
        /\ pool' = alive
        /\ ChooseMux(r, alive)
        /\ UNCHANGED <<mux, slow, server, holds, sawIdle>>

\* AllocChannel: the mux may have been closed or retired since it was chosen,
\* and then it leaves the pool.
AllocPicked(r) ==
    LET m == picked[r]
    IN  /\ pc[r] = "picked"
        /\ \/ /\ CanAllocChannel(m)
              /\ mux' = [mux EXCEPT ![m] = Allocated(m, 1)]
              /\ holds' = [holds EXCEPT ![r] = <<m, mux[m].allocs + 1>>]
              /\ pc' = [pc EXCEPT ![r] = "using"]
              /\ picked' = [picked EXCEPT ![r] = None]
              /\ UNCHANGED pool
           \/ /\ ~CanAllocChannel(m)
              /\ pool' = pool \ {m}
              /\ pc' = [pc EXCEPT ![r] = "drop"]
              /\ UNCHANGED <<mux, holds, picked>>
        /\ UNCHANGED <<creation, slow, candidates, server, joined, sawIdle>>

\* closeUnusedMux, and another mux is chosen.
CloseUnusedMux(r) ==
    LET m == picked[r]
    IN  /\ pc[r] = "drop"
        /\ mux' = [mux EXCEPT ![m] = IF mux[m].channels = {} /\ ~CanAllocChannel(m)
                                     THEN Closed(m, "unused") ELSE mux[m]]
        /\ ChooseMux(r, pool)
        /\ UNCHANGED <<pool, slow, server, holds, sawIdle>>

----------------------------------------------------------------------------
(* getChannel and completeTCPMuxCreation. *)

\* The candidates are tried one after the other, in any order of their ranks.
TryServer(r) ==
    /\ pc[r] = "next"
    /\ \/ \E s \in candidates[r] :
             /\ server' = [server EXCEPT ![r] = s]
             /\ candidates' = [candidates EXCEPT ![r] = @ \ {s}]
             /\ slow' = [slow EXCEPT ![r] = TRUE]
             /\ pc' = [pc EXCEPT ![r] = "choose"]
       \/ /\ candidates[r] = {}
          /\ pc' = [pc EXCEPT ![r] = "failed"]
          /\ UNCHANGED <<server, candidates, slow>>
    /\ UNCHANGED <<mux, pool, creation, picked, joined, holds, sawIdle>>

\* createMuxConnForServer, without a lock.
Dial(r) ==
    LET s == server[r]
    IN  /\ pc[r] = "dial"
        /\ \/ \E m \in Muxes :
                 /\ mux[m].state = "none"
                 /\ mux' = [mux EXCEPT ![m] = [NoMux EXCEPT !.state = "open",
                                                            !.server = s]]
                 /\ creation' = [creation EXCEPT ![r][s].mux = m]
           \/ /\ "dialFails" \in Environment
              /\ UNCHANGED <<mux, creation>>
        /\ pc' = [pc EXCEPT ![r] = "seal"]
        /\ UNCHANGED <<pool, requestVars>>

\* Nobody joins from here on.
Seal(r) ==
    /\ pc[r] = "seal" /\ CreateFree
    /\ creation' = [creation EXCEPT ![r][server[r]].state = "sealed"]
    /\ pc' = [pc EXCEPT ![r] = IF creation[r][server[r]].mux = None
                               THEN "publish" ELSE "alloc"]
    /\ UNCHANGED <<mux, pool, requestVars>>

\* Mutant: a batch that just fits is refused.
AllocBatchBelow(r) ==
    LET s == server[r]
        m == creation[r][s].mux
        n == Len(creation[r][s].waiters)
    IN  /\ pc[r] = "alloc"
        /\ IF CanAllocChannel(m) /\ n <= MaxAllocations /\ n < MaxActive
           THEN /\ mux' = [mux EXCEPT ![m] = Allocated(m, n)]
                /\ creation' = [creation EXCEPT ![r][s].channels = [i \in 1..n |-> i]]
           ELSE /\ mux' = [mux EXCEPT ![m] = Closed(m, "batch")]
                /\ UNCHANGED creation
        /\ pc' = [pc EXCEPT ![r] = "publish"]
        /\ UNCHANGED <<pool, requestVars>>

\* One channel per waiter; if one cannot be had the mux is closed and all of
\* them go without, also those whose channel was there. Nobody else knows the mux
\* yet, so the allocations are one step.
AllocBatch(r) ==
    LET s == server[r]
        m == creation[r][s].mux
        n == Len(creation[r][s].waiters)
    IN  /\ pc[r] = "alloc"
        /\ IF CanAllocChannel(m) /\ n <= MaxAllocations /\ n <= MaxActive
           THEN /\ mux' = [mux EXCEPT ![m] = Allocated(m, n)]
                /\ creation' = [creation EXCEPT ![r][s].channels = [i \in 1..n |-> i]]
           ELSE /\ mux' = [mux EXCEPT ![m] = Closed(m, "batch")]
                /\ UNCHANGED creation
        /\ pc' = [pc EXCEPT ![r] = "publish"]
        /\ UNCHANGED <<pool, requestVars>>

\* Mutant: a failed creation does not wake its waiters.
PublishOnlySuccess(r) ==
    LET c == creation[r][server[r]]
    IN  /\ pc[r] = "publish" /\ CreateFree /\ PoolFree
        /\ c.channels # <<>>
        /\ pool' = pool \cup {c.mux}
        /\ creation' = [creation EXCEPT ![r][server[r]].state = "done"]
        /\ pc' = [pc EXCEPT ![r] = "wait"]
        /\ UNCHANGED <<mux, requestVars>>

\* The mux enters the pool and the waiters are woken.
Publish(r) ==
    LET c == creation[r][server[r]]
    IN  /\ pc[r] = "publish" /\ CreateFree /\ PoolFree
        /\ pool' = IF c.channels = <<>> THEN pool ELSE pool \cup {c.mux}
        /\ creation' = [creation EXCEPT ![r][server[r]].state = "done"]
        /\ pc' = [pc EXCEPT ![r] = "wait"]
        /\ UNCHANGED <<mux, requestVars>>

\* A waiter takes the channel of its slot, or goes on to the next server.
TakeSlot(r) ==
    LET c    == creation[joined[r][1]][joined[r][2]]
        slot == joined[r][3]
    IN  /\ pc[r] = "wait" /\ c.state = "done"
        /\ IF slot \in DOMAIN c.channels
           THEN /\ holds' = [holds EXCEPT ![r] = <<c.mux, c.channels[slot]>>]
                /\ pc' = [pc EXCEPT ![r] = "using"]
           ELSE /\ pc' = [pc EXCEPT ![r] = "next"]
                /\ UNCHANGED holds
        /\ joined' = [joined EXCEPT ![r] = None]
        /\ UNCHANGED <<mux, pool, creation, slow, candidates, server, picked, sawIdle>>

----------------------------------------------------------------------------
(* releaseMuxChannel. *)

Abort(r) ==
    LET m == holds[r][1]
    IN  /\ pc[r] = "using"
        /\ mux' = [mux EXCEPT ![m].channels = @ \ {holds[r][2]}]
        /\ pc' = [pc EXCEPT ![r] = "aborted"]
        /\ UNCHANGED <<pool, creation, requestVars>>

ReadActiveCount(r) ==
    /\ pc[r] = "aborted"
    /\ sawIdle' = [sawIdle EXCEPT ![r] = mux[holds[r][1]].channels = {}]
    /\ pc' = [pc EXCEPT ![r] = "checked"]
    /\ UNCHANGED <<mux, pool, creation, slow, candidates, server, picked, joined, holds>>

\* Mutant: the release never closes the mux.
CloseIfUnusedNever(r) ==
    /\ pc[r] = "checked"
    /\ pc' = [pc EXCEPT ![r] = "done"]
    /\ UNCHANGED <<mux, pool, creation, requestVars>>

\* The count read before may be stale: a channel may have been allocated since.
CloseIfUnused(r) ==
    LET m == holds[r][1]
    IN  /\ pc[r] = "checked"
        /\ mux' = [mux EXCEPT ![m] = IF sawIdle[r] /\ ~CanAllocChannel(m)
                                     THEN Closed(m, "unused") ELSE mux[m]]
        /\ pc' = [pc EXCEPT ![r] = "done"]
        /\ UNCHANGED <<pool, creation, requestVars>>

\* A UDP association the server never acknowledged closes the mux in any case.
CloseUnacked(r) ==
    /\ "unacked" \in Environment
    /\ pc[r] = "checked"
    /\ mux' = [mux EXCEPT ![holds[r][1]] = Closed(holds[r][1], "unacked")]
    /\ pc' = [pc EXCEPT ![r] = "done"]
    /\ UNCHANGED <<pool, creation, requestVars>>

----------------------------------------------------------------------------
(* What happens to muxes. *)

\* The peer or an error closes the socket, or too many responses timed out.
MuxCloses(m) ==
    /\ "muxCloses" \in Environment
    /\ mux[m].state = "open"
    /\ mux' = [mux EXCEPT ![m] = Closed(m, "other")]
    /\ UNCHANGED <<pool, creation, pc, requestVars>>

\* Its allocation age expires, or it becomes invalid.
Retire(m) ==
    /\ "retires" \in Environment
    /\ mux[m].state = "open" /\ ~mux[m].retired
    /\ mux' = [mux EXCEPT ![m].retired = TRUE]
    /\ UNCHANGED <<pool, creation, pc, requestVars>>

\* The periodic cleanup drops closed muxes and closes idle ones.
CleanupIdleConnections ==
    /\ "idle" \in Environment
    /\ PoolFree
    /\ \E idle \in SUBSET {m \in pool : mux[m].state = "open"} :
          /\ pool' = {m \in pool \ idle : mux[m].state = "open"}
          /\ mux' = [m \in Muxes |-> IF m \in idle THEN Closed(m, "idle") ELSE mux[m]]
    /\ UNCHANGED <<creation, pc, requestVars>>

----------------------------------------------------------------------------
Request(r) ==
    \/ TryExistingTCPChannel(r) \/ AllocPicked(r) \/ CloseUnusedMux(r) \/ TryServer(r)
    \/ Dial(r) \/ Seal(r) \/ AllocBatch(r) \/ Publish(r) \/ TakeSlot(r)
    \/ ReadActiveCount(r) \/ CloseIfUnused(r) \/ CloseUnacked(r)

Next ==
    \/ \E r \in Requests : Request(r) \/ Abort(r)
    \/ \E m \in Muxes : MuxCloses(m) \/ Retire(m)
    \/ CleanupIdleConnections

Spec == Init /\ [][Next]_vars

\* Goroutines are scheduled, dialing has a timeout, the locks are free between
\* their uses. How long a request uses its channel is not bounded.
FairSpec == Spec /\ \A r \in Requests : WF_vars(Request(r))

----------------------------------------------------------------------------
(* Properties. *)

TypeOK ==
    /\ pool \subseteq Muxes
    /\ \A m \in Muxes :
          /\ mux[m].state \in {"none", "open", "closed"}
          /\ mux[m].allocs \in 0..MaxAllocations
          /\ mux[m].channels \subseteq 1..mux[m].allocs
          /\ Cardinality(mux[m].channels) <= MaxActive
    /\ \A r \in Requests :
          /\ pc[r] \in {"choose", "picked", "drop", "next", "dial", "seal", "alloc", "publish",
                        "wait", "using", "aborted", "checked", "done", "failed"}
          /\ candidates[r] \subseteq Servers
          /\ picked[r] \in Muxes \cup {None}
          /\ sawIdle[r] \in BOOLEAN

\* The channel that is reserved for a waiter of a finished creation.
Reserved(r) ==
    LET c == creation[joined[r][1]][joined[r][2]]
    IN  IF joined[r] # None /\ joined[r][3] \in DOMAIN c.channels
        THEN {<<c.mux, c.channels[joined[r][3]]>>} ELSE {}

\* The channels a request has or is about to get, and has not yet aborted.
Owns(r) == IF pc[r] = "using" THEN {holds[r]} ELSE Reserved(r)

\* No two requests share a channel, whether they took it from the pool or from
\* the slots of a batch.
ChannelsNotShared ==
    \A r1, r2 \in Requests : r1 # r2 => Owns(r1) \cap Owns(r2) = {}

\* Every open channel belongs to a request that will release it: sealing a
\* batch while requests join it loses no channel.
NoChannelLeaked ==
    \A m \in Muxes : \A ch \in mux[m].channels :
        \E r \in Requests : <<m, ch>> \in Owns(r)

\* Everyone who joined a creation that succeeded finds a channel in its slot.
SlotReserved ==
    \A r \in Requests :
        joined[r] # None =>
            LET c == creation[joined[r][1]][joined[r][2]]
            IN  c.channels # <<>> => joined[r][3] \in DOMAIN c.channels

\* Channels and the requests they are for match one to one: nobody shares, none
\* is left over, and none is missing, although requests join a batch while its
\* leader seals and allocates it.  (completeTCPMuxCreation)
OneChannelEach == ChannelsNotShared /\ NoChannelLeaked /\ SlotReserved

\* A mux that left the pool is not forgotten: until it is closed, some request
\* creates it, uses it, or is in the middle of the release that will close it.
NoMuxForgotten ==
    \A m \in Muxes :
        mux[m].state = "open" /\ m \notin pool =>
            \E r \in Requests :
                \/ pc[r] \in {"seal", "alloc", "publish"} /\ creation[r][server[r]].mux = m
                \/ pc[r] = "drop" /\ picked[r] = m
                \/ \E ch \in mux[m].channels : <<m, ch>> \in Owns(r)
                \/ pc[r] = "aborted" /\ holds[r][1] = m
                \/ pc[r] = "checked" /\ holds[r][1] = m /\ sawIdle[r]

\* The cleanup of an unused mux never closes one that has open channels.
UnusedHasNoChannels ==
    [][\A m \in Muxes :
          mux[m].reason = "no" /\ mux'[m].reason = "unused" => mux[m].channels = {}]_vars

\* A request is told that there is no channel only after a creation failed, and
\* a creation fails for one of three reasons: the dial failed, the mux was closed
\* or retired before the batch was allocated, or more requests had joined than
\* one mux may open (the size of a batch is fixed, the limits are configured).
\* A batch that fits never fails, whatever other requests, batches and releases
\* do meanwhile.  (completeTCPMuxCreation)
FailureHasCause ==
    (\E r \in Requests : pc[r] = "failed") =>
        \E l \in Requests, s \in Servers :
            LET c == creation[l][s]
            IN  /\ c.state = "done" /\ c.channels = <<>>
                /\ \/ c.mux = None
                   \/ mux[c.mux].retired \/ mux[c.mux].reason = "other"
                   \/ Len(c.waiters) > MaxActive \/ Len(c.waiters) > MaxAllocations

\* A request is answered: it gets a channel or is told that there is none.
RequestsAnswered ==
    (\E r \in Requests : pc[r] # "choose") ~>
        \A r \in Requests : pc[r] \in {"using", "aborted", "checked", "done", "failed"}
============================================================================
