# A TLA+ verification of blackhole

blackhole is an encrypted SOCKS proxy. A client and a server share a TCP socket
between many channels (the *mux*); each channel carries one TCP connection or
UDP association. A server may itself dial another server and offer it routes
(*reverse upstream*), over a mux whose channels are opened from the accepting
end. This directory models the concurrent parts of the system, checks them with
TLC on small instances, and proves most of the safety properties with TLAPS for
every value of the constants.

## The parts and their modules

| Part | Source | Module |
|---|---|---|
| channel: credit, adaptive window, FIN, CLOSE | `pkg/mux/channel.go`, `flow_control.go`, `netconn.go` | `CreditFlow` (abstract), `ChannelFlow` |
| receive-window budget; channel table; mux close | `pkg/mux/receive_window_budget.go`, `channel.go`, `lifecycle.go` | `ReceiveWindowBudget`, `MuxChannels` |
| mux session: handshake, read loop, writer, pool switch, invalid drain | `pkg/mux/read_loop.go`, `send_packet.go`, `invalid.go`, `auth.go` | `MuxSession` |
| keep-alive, read deadline, data timeout | `pkg/mux/keepalive.go`, `lifecycle.go` | `MuxIdle` |
| client mux pool | `cmd/client/mux_pool.go` | `MuxPool` |
| server health and selection | `cmd/client/server_state.go` | `ServerHealth` |
| CONNECT at the client, connect cache, response wait | `cmd/client/main.go`, `channel_response.go`, `connect_cache.go` | `ClientConnect` |
| channel handler and dialing at the server | `cmd/server/main.go` | `ServerChannel` |
| the two relays of a connection | `cmd/client/main.go`, `cmd/server/main.go`, `pkg/mux/netconn.go` | `RelayPair` |
| UDP association | the same | `UDPRelay` |
| SOCKS5 UDP fragments | `pkg/socks5/udp_fragments.go` | `UDPFragments` |
| reverse-route table, permissions, forwarding | `cmd/server/reverse_route.go`, `reverse_control.go`, `reverse_forward.go` | `ReverseRoutes` |
| reverse upstream loop | `cmd/server/reverse_upstream.go` | `ReverseUpstream` |
| rule compilation and matching | `cmd/server/reverse_route.go` | `RouteRules` over `DomainRules`, `IPRules`, `PortRanges` |
| ACL decisions and their cache | `cmd/server/main.go` | `AclCache` |
| users, connections, traffic, flush | `cmd/server/main.go`, `pkg/config/config.go` | `ServerAccounts` |
| DNS single flight; pending queries; FakeDNS | `cmd/server/dns_cache.go`, `fake_dns.go` | `DNSFlights`, `DNSPending`, `FakeDNS` |
| TTL LRU cache | `pkg/lrucache/lrucache.go` | `TTLCache`, implementing `ForgetfulMap` |
| theorems about these modules | | `WireProofs`, `MuxChannelsProofs`, `ConnectionProofs`, `RelayProofs`, `RouteProofs`, `TableProofs`, `ServiceProofs`, over `DataTheorems` |

`SeqFilter` has the loop that keeps the elements of a list, which two modules share.

`PROJECT.json` has the inventory by source file, the lines of code behind each
definition, and the hazards of the code with the properties that cover them.

## How the models correspond to the code

A step is one lock region, one send, one receive or one blocking call. What the
code does after it unlocks is a later step, so that other goroutines may run in
between. Each goroutine has a place (`stage`, `session`, `fwd`, ...) that stands for
the line it has reached. Timeouts may pass whenever they are running; only `MuxIdle`,
`UDPFragments`, `TTLCache` and `ServerHealth`, whose properties are about
durations, have a clock.

**CreditFlow** is the abstract account of one direction: credit at the sender,
bytes under way, queued, or popped and not yet released, credit on its way back,
the window and its debt. `lost` collects credit that a clamp, a full write queue or a
closed end removed. `surplus` counts response bytes, which enter the window unpaid.

**ChannelFlow** is the code: `Write` holds `NetConn.writeMu` until all its bytes
are queued (`remaining`), reserves credit, then queues a packet (`chunk`); `Read`
pops a payload (`held`), releases its credit in a second region and announces it
in a third (`readerCredit`); the read loop queues a payload, resizes the window
and then announces growth (`extraCredit`). Its property `KeepsAccount` is the
specification of `CreditFlow` under a refinement mapping. The write queue is
shared by all channels and the budget by all muxes, so for one channel they may
refuse at any time (`Environment`). `sent` and `delivered` are history variables.

**ReceiveWindowBudget** has the budget's operations as functions;
**MuxChannels** runs them from several muxes. Closing a channel is three regions (flag,
clear, leave the table), closing a mux is flag, lock, sweep, finish. What makes a
window move is left to `ChannelFlow`.

**MuxSession** has the two ends of a reverse mux, each with a read loop, a write
queue and a writer. A packet is its kind and the pool it was written with. The
dialling end sends the timestamp with its first packet, waits for AuthOK, sends its
routes and changes pool with the final fragment; the accepting end registers
the route, stores the receiving pool and queues the switch of the sending one. A
packet read with another pool makes the reading end invalid: on the accepting end
the deadline timer or the drain budget then closes it, on the dialling end the read
deadline. `overtook` is a history variable: one of the two races around the switch
happened. **MuxIdle** has the timers of an idle mux.

**MuxPool** has a goroutine per request: pick a mux under `muxConnMu`, allocate, or
join or lead a creation under `tcpCreateMu`; release reads the active count and
then decides. An allocation that fails leaves its mux in the pool, or closes it when
the mux can give no more and nobody uses it (`CloseUnusedMux`). Scores and server health are any choice, so a property that holds
does not depend on them. **ServerHealth** has the health itself; an error is its kind
and its reason, and only the same pair within the window is a duplicate.

**ClientConnect** follows sessions to one target over one mux: a session that finds
the target in the connect cache tells its program at once and copies early data
while it waits for the answer. Reading an answer and changing the cache for it are two
steps, since no lock is held from one to the other. `verdict` is the history variable for
the last outcome read, and `contested` says that another session still held one of
its own at that moment. **ServerChannel** follows one request at the server:
decode, register, accept, route, decide, resolve, race, proxies, answer.
**RelayPair** joins two relays by a channel with a window; each relay has a goroutine
per direction, and aborting needs `writeMu`. **UDPRelay** is the same for UDP, where
the server's reader also writes (it answers DNS queries itself).

**ReverseRoutes** has the readers of reverse muxes that register routes, the refresh
that withdraws a permission, the cleanup, and forwarders that go through the table
with failover. **ReverseUpstream** is the loop that keeps such a mux open from the
other side. **ServerAccounts** has one user: traffic is collected into `unflushed`
(`s.pending`), and a flush loads the file, updates the users, closes refused
connections one at a time and writes the traffic back. A flush whose load fails or
whose users `setUsers` refuses (none left, or rules that do not compile) ends there; a
restart with such a file fails too.

**RouteRules** holds a rule list that grows by one rule and is then compiled, so
the reachable states are all lists up to the bound. The compiled set is
compared with a direct definition of what a rule means. A label is one character,
which loses nothing for the search by neighbours: whatever string lies between a
prefix of a host and the host itself starts with that prefix.

**AclCache**, **DNSFlights**, **DNSPending** and **FakeDNS** are the caches with their
locks and generations. They may forget any entry at any time, which is what
**TTLCache** shows of the cache under them: it implements **ForgetfulMap**, whose
entries may vanish but never change by themselves.

### Composition

Several machines are checked by one run. `MCPooling`, `MCClient`, `MCConnections`,
`MCServices` and `MCTables` extend modules with disjoint variables and add a
variable `focus`, chosen once, that says which of the machines moves. The behaviours of the
module are the behaviours of its machines, one at a time, so its states are a sum,
not a product, and an invariant of a machine is checked on all of its own states. The
fairness of each machine is restated for the behaviours about it.

## Runs

`tlc -workers 2 -config <run>.cfg <module>`

| Run | Module | Shows | States |
|---|---|---|---|
| ChannelFaults | ChannelFlow | `KeepsAccount`: growing and shrinking windows, full queues and aborts keep the credit account; `EOFAfterAllData` | 235,784 |
| ChannelLiveness | ChannelFlow | `KeepsAccount` with response bytes; while the application reads, `StreamCompletes` and `AbortReleasesChannel` | 341,669 |
| MuxChannels | MuxChannels | `MemoryBounded`, `ChargesExact` (no leak, no drift), `CloseCompletes` | 276,840 |
| Pooling | MCPooling | pool: `OneChannelEach` (none shared, leaked or missing), `NoMuxForgotten`, `FailureHasCause`; cache: `LeastRecentGoes`, `NoExpiredAnswer`, `IsForgetfulMap` | 253,297 |
| Client | MCClient | `RequestsAnswered`; `UdpEndsTogether`: an association ends at both ends | 328,355 |
| Connections | MCConnections | client: `SessionsSettle`, `EntryIsCurrent`; server: `RequestAnswered`, `ConnectionsAccounted` (each one made is relayed or closed); relays: `CleanEndIsComplete`, `RelaysFinish`, `AbortIsHeard`; DNS: `LookupsShared`, `AskersAnswered` | 107,840 |
| Services | MCServices | session: `InvalidHasCause`, `InvalidAcceptorCloses`; upstream: `RetireAfterReplacement`; health: `ClassExplainsHealth`; accounts: `TrafficConserved`, `DisabledUserDropped` | 471,784 |
| Tables | MCTables | `RoutesAreCurrent`, `ReverseChannelsKept`, `MatchesWhatRulesSay`, `RefreshedListsDecide`, `ResponsesMatchQueries`, `NamesAndAddressesAgree`, `DatagramsExact`, `DroppedWhenIdle`, `NeverStarved` | 606,201 |

Where a property is a promise with several sides (channels neither shared nor leaked
nor missing; what is returned is whole and what is whole is returned), it is a
conjunction of named invariants, each with a mutant of its own in `PROJECT.json`: a
plausible slip in the code that breaks it. The type invariants are stated for the
reader and are not part of the runs; the proofs use them, as conjuncts of the inductive
invariants.

Four runs end in a violation: what a document says and the code does not do.

| Run | The document | What the code does |
|---|---|---|
| ChannelOverrun | a slow channel does not block the mux (src/README.md:12) | unpaid response bytes let an honest sender overrun a window refused growth; the mux becomes invalid |
| ChannelLostUpdate | credit is released after reading (src/protocol.md:333) | an update dropped by a full write queue is never sent again |
| MuxPoolUnused | a mux is closed when it has no active channels (src/protocol.md:540) | the count is stale when the mux is closed |
| RouteRulesNested | suffix domains match (src/README.md:214) | a suffix rule below another hides it from some hosts |

### Exceptions that the properties name

Some properties hold only with an exception, and the exception is what the code
does. They are worth a reader's attention.

- `AbortIsHeard`: an abort does not get past a write that waits for credit with
  `writeMu` in hand (`NetConn.Close` takes it), and after a half-close no goroutine
  of a relay may be looking at the channel.
- `SessionsSettle`: after a cache hit, a failure finds the copying goroutine in such a
  write; the server has dropped its channel without a word, so no credit comes. The
  mux's own end resolves it.
- `EntryIsCurrent`: a cache entry may outlive a failure when two outcomes of one target
  were read close together, because they may reach the cache in the other order.
- `RequestAnswered`: an accepted request goes without its final answer if the channel
  is gone first or the answer meets a full write queue.
- `DisabledUserDropped`: it is about a file that `setUsers` takes. When the last user is
  removed, or a rule does not compile, the refresh fails and connections stay open.
- `FailureHasCause`: up to 16 requests may join one creation, and the limits of a mux
  are configured. A batch that is larger than the limits fails as a whole.
- `UdpEndsTogether`: both ends of an association wait in such a write while each stops
  reading (`Embrace`).
- `InvalidHasCause` (`DiallerInvalidOnlyByOvertaking`): a request forwarded between `register` and the
  queued pool switch is written with the old pool, and an answer in the new pool can be
  read before the writer of the update has stored it. Either makes the dialling end
  invalid; it reconnects.
- `TrafficConserved`: bytes are lost by a crash, for a removed user, and between the
  last collection and the close of a connection; none is charged twice.

### Bounds

`ChannelFlow`: windows have two sizes instead of twelve, as the rules only relate
neighbouring sizes and the largest one. `MaxBytes` lets a stream use its
initial window, wait, and go on; `PathCap` bounds packets under way. `ChannelFaults` needs
windows of 16 and 32 because a shrink requires a queue below an eighth of the
window. `MuxChannels`: two muxes compete for one unit of growth; one opens two channels
one after the other under its active limit, on the other the peer opens two at once.
`MuxPool`: in `Pooling` three requests are a leader, a joiner and a latecomer on one
server; `Client` has two requests, two servers and two muxes, so that a closed mux is
replaced and the next server is tried. In `Pooling` a batch may be larger than what a mux
may have open (`BatchSize = 3`, `MaxActive = 2`), as with a configured limit below 16;
in `Client` it just fits. `TTLCache`: three
keys for two places, and a clock that runs past the time to live. `UDPRelay`: a window of
one packet and more packets than it takes on both ends, so that every writer can wait.
`ClientConnect`: two sessions to one target, early data beyond the first window, one
timeout allowed. `ServerChannel`: up to three addresses out of two IPv6, one direct,
one proxied and one rejected IPv4 address. `RelayPair`: the window is one chunk, two chunks go
one way and one the other; only the client's application may reset and only the
server's may stall. `DNSFlights`: three askers of one
question, two upstreams. `MuxSession`: one fragment before the final one, one forwarded request, one
keep-alive of each end, a queue of two. `ReverseUpstream`: three muxes, so a
replacement is itself replaced. `ServerHealth`: two servers, delays of three steps in
place of five, two reasons, so that errors of one kind are duplicates or not.
`ServerAccounts`: two connections, two edits (a file that `setUsers` refuses and its
repair), one fault; the file is not
edited while a flush holds a copy of it (`EditDuringFlush`), since the flush would
overwrite the edit. `ReverseRoutes`: two muxes of different priority with one channel ID each, so
that the second forwarder meets an exhausted mux. `RouteRules`: three rules, enough
for two rules to interact and a third to lie between them; addresses of two bits, so
an IPv6 half has one and every carry happens. `FakeDNS`: `FakeConstants` assumes fewer
names than numbers, so the reuse of an address after 2^32 - 1 names is outside
the module's claims. `MuxIdle`: keep-alives after one or two ticks, the read deadline after
three, the data timeout after five, and eight ticks in all, which keeps the
order of the code's durations and lets each of them pass. `UDPFragments`: four pushes that change
the queue, fragments numbered up to three, two targets, one of them with larger payloads. `AclCache`: two refreshes
around two decisions. `DNSPending`: one relay tracks two queries, with two transaction IDs, two
requested targets and two addresses, so that keys collide and do not.

Symmetry is used only by runs without liveness: requests, servers and muxes in
`Pooling`, forwarders in `Tables`. Deadlock is not checked: bounded streams end, requests finish, rule lists
are full.

### Fairness

Weak fairness of goroutines and of the mux that delivers their packets, as
the Go runtime and TCP give it; of timers that are running; of dials, lookups and
upstream queries, which have timeouts. Nothing is assumed of programs, targets,
peers or of how long a channel is used, with one exception: `ReadingSpec` of
`ChannelFlow` has an application that keeps reading, which `StreamCompletes` and
`AbortReleasesChannel` need. Both also allow a mux that became invalid, which
`ChannelOverrun` shows to be possible, and are checked without full write
queues: with one, a lost FIN, CLOSE or window update ends the stream, as
`ChannelLostUpdate` shows. `MemoryBounded` claims nothing about a mux whose close is
done: its charge is gone while a channel its owner is closing may hold its queue a
moment longer.

## Proofs

`tlapm <module>` checks a module of theorems. They hold for every value of the
constants that satisfies the named `ASSUME`s of the modules they are about: numbers are
naturals, sets of muxes, connections and forwarders are finite, durations are in
the order of the code's constants (`TimerBounds`), FakeDNS has more numbers
than names are made (`FakeConstants`). Almost none of the properties is inductive by
itself; what is added to it is the interesting part.

| Theorem | Property | The inductive invariant |
|---|---|---|
| `WireProofs!Conservation`, `Starvation`, `OverrunCause` | credit adds up; `NeverStarved`; a refused payload has one of two causes | `IInv` of `CreditFlow`: conservation, and the unsent remainder stays below window and debt (`PendingBelowWindow`), because a release leaves less than a window behind |
| `WireProofs!SessionsSound` | `InvalidHasCause` | `SessInv`: on each wire, which pool a packet was written with depends on whether the final fragment is ahead of it; nothing is sent between AuthOK and that fragment |
| `MuxChannelsProofs!BudgetExact`, `MemoryStaysBounded` | `ChargesExact`, `MemoryBounded` | `IInv` of `MuxChannels`: `used` is the sum of the charges (`BudgetOK`), each live channel is charged (`LiveCharged`), an open one is in its table (`OpenInTable`) |
| `ConnectionProofs!EntryStaysCurrent` | `EntryIsCurrent` | `EntryInv`: while the last outcome read is an uncontested failure, no session holds a success it has yet to put |
| `ConnectionProofs!OneFlightForAll` | `LookupsShared` | `FlightInv`: the asker of upstreams is the leader in the table; a waiter's flight is in the air or has a result |
| `ConnectionProofs!CacheOrdered`, `FreshAnswers` | `LeastRecentGoes`, `NoExpiredAnswer` | `CacheInv`: the list is ordered by last use, has no key twice and fits |
| `ConnectionProofs!CacheForgetsOnly` | `IsForgetfulMap` | refinement: `Says` maps the list to what it would answer, and every step changes one answer or forgets some |
| `RelayProofs!CleanEnds` | `CleanEndIsComplete` | `RelayInv`: FIN is sent last (`EndIsFinal`, `FinIsLast`); until someone gives up, what was taken is in hand, under way, queued or delivered (`Balanced`) |
| `RouteProofs!RoutesStayCurrent`, `NoReverseChannelLost` | `RoutesAreCurrent`, `ReverseChannelsKept` | `RevInv`: who may have a route at each place of its reader (`RoutesInv`); a mux counts as many channels as forwarders hold (`FwdInv`) |
| `RouteProofs!ResponsesSolicited` | `ResponsesMatchQueries` | `PendInv`: responses stored and queries awaited are no more than the queries tracked |
| `TableProofs!RefreshHolds` | `RefreshedListsDecide` | `AclInv`: lists are renewed before the generation is raised, so an entry is at least as new as its key |
| `TableProofs!FakeNamesAgree` | `NamesAndAddressesAgree` | `FakeInv`: every address in use has one owner (`OwnedBy`), the lock admits one maker (`MuExcludes`) |
| `TableProofs!IdleMuxDropped` | `DroppedWhenIdle` | `IdleInv`: how the ages two ends measure are related to what is under way |
| `TableProofs!FragmentsExact` | `DatagramsExact` | `FragInv`: the queue is the latest run of fragments (`QueueIsRun`, `RunIsQueued`), and its timer is the only one that counts (`TimersMatch`) |
| `ServiceProofs!BooksBalance` | `TrafficConserved` | `AccInv`: the flush's copy has the file's count until the file is replaced, and its snapshot is still in memory (`FlushCovered`) |
| `ServiceProofs!HealthExplained` | `ClassExplainsHealth` | `HealthInv`: the class goes with failures, penalty and delay (`Explained`) |

Each proof has the same shape: `Init` implies the invariant, a lemma per action or
group of actions shows that a step keeps it, and the last step combines them.

`DataTheorems` has the facts about data. Sums over finite sets, the elements
of a list that satisfy a condition and the weight of a list are recursive functions. What
they compute is shown without an induction rule: if the claim failed, it would fail for a
smallest set or length, and the step before it gives a contradiction (`SmallestSubset`,
`SmallestNat`).

Checked by TLC only: all liveness properties, since fairness is beyond the prover;
that `ChannelFlow` implements `CreditFlow` (`KeepsAccount`) and `EOFAfterAllData`; the
pool (`OneChannelEach`, `NoMuxForgotten`, `FailureHasCause`); the rules
(`MatchesWhatRulesSay`), whose definitions are recursive operators; and
`RetireAfterReplacement`.

## Not modelled

- Encryption, header obfuscation, padding and packet layout (`pkg/crypto`,
  `pkg/obfheader`, `pkg/mux/packet_codec.go`): computations on bytes. `MuxSession` has
  their outcome: a packet is genuine for the pool it was written with.
- SOCKS and DNS message formats, the text syntax of rules, the rewriting of addresses
  into an IPv6 prefix (`reverse_target.go`): pure conversions.
- The order user list, server list, default of an ACL decision: lookups without
  state. What is stateful about it, the cache and the refresh, is `AclCache`.
- The prefilter and plain forwarding of foreign connections, the HTTP front end
  (`cmd/httpclient`) and outbound proxy handshakes (`pkg/proxydial`): sequential I/O.
- Traffic rates and round-trip averages: they order servers and muxes, and the
  modules allow any order.
- Read and write deadlines of a mux `NetConn`: neither client nor server sets one.
- The look and the close of the invalid-deadline timer are one step in `MuxSession`.
