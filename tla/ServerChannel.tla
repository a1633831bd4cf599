---------------------------- MODULE ServerChannel ----------------------------
(***************************************************************************)
(* One channel request on the server, from the packet to the relay: it is   *)
(* decoded and registered on the reader of the mux, then a goroutine of its *)
(* own asks the access lists, resolves the name, races connections to the   *)
(* permitted addresses, falls back to the proxies and answers, while the    *)
(* peer may close the channel and the mux may close.                        *)
(* (cmd/server/main.go: handleNewChannel to classifyResolvedTargets)        *)
(*                                                                          *)
(* Reverse routes are ReverseRoutes' subject, the UDP relay is UDPRelay's:  *)
(* here a request that takes one of these ways leaves the model.            *)
(***************************************************************************)
EXTENDS Naturals, Sequences, SequencesExt, FiniteSetsExt

CONSTANTS
    Addresses,      \* addresses names may resolve to
    V6,             \* those of them that are IPv6
    Direct,         \* those the access lists let be dialled directly
    Proxied,        \* those the access lists send through a proxy
    MaxResolved     \* bound of the model: addresses of a name

ASSUME ServerChannelConstants ==
    /\ V6 \subseteq Addresses /\ Direct \subseteq Addresses
    /\ Proxied \subseteq Addresses \ Direct /\ MaxResolved \in Nat

VARIABLES
    link,       \* the mux: "open", "invalid" or "closed"
    channel,    \* the channel: "none", "open", "closed" by this end, or "gone":
                \* closed by the peer or with the mux
    stage,      \* where the request is
    answers,    \* responses queued for the peer
    dropped,    \* history: a response met a full write queue
    race,       \* the direct addresses in the order they are tried
    attempt,    \* [Addresses -> the goroutine that dials it]
    proxies,    \* proxyTargets still to try
    expired,    \* targetConnectTimeout has passed
    cancelled,  \* cancel() of attemptCtx was called
    inHand      \* the connection dialTarget returned: "none", "direct",
                \* "proxy" or "closed"

scVars == <<link, channel, stage, answers, dropped, race, attempt, proxies,
            expired, cancelled, inHand>>

Stages == {"idle", "accept", "route", "decide", "dialProxy", "resolve", "race",
           "proxies", "succeed", "fail", "relay", "taken", "left"}
AttemptStates == {"none", "waiting", "dialling", "connected", "failed",
                  "reported", "taken", "closed"}

ScTypeOK ==
    /\ link \in {"open", "invalid", "closed"} /\ channel \in {"none", "open", "closed", "gone"}
    /\ stage \in Stages /\ dropped \in BOOLEAN
    /\ answers \in {<<>>, <<"failed">>, <<"accepted">>, <<"accepted", "ok">>,
                    <<"accepted", "failed">>}
    /\ race \in Seq(Addresses) /\ proxies \in Seq(Addresses)
    /\ attempt \in [Addresses -> AttemptStates]
    /\ expired \in BOOLEAN /\ cancelled \in BOOLEAN
    /\ inHand \in {"none", "direct", "proxy", "closed"}

ScInit ==
    /\ link = "open" /\ channel = "none" /\ stage = "idle" /\ answers = <<>> /\ dropped = FALSE
    /\ race = <<>> /\ proxies = <<>> /\ attempt = [a \in Addresses |-> "none"]
    /\ expired = FALSE /\ cancelled = FALSE /\ inHand = "none"

dialVars == <<race, attempt, proxies, expired, cancelled, inHand>>
answerVars == <<answers, dropped>>

-----------------------------------------------------------------------------
(* handleNewChannel *)

\* SendResponse: refused when the channel is closed, with the mux or before it,
\* or the write queue is full.
CanAnswer == channel \in {"none", "open"} /\ link # "closed"
Respond(response) ==
    CanAnswer /\ answers' = Append(answers, response) /\ UNCHANGED dropped
NoResponse == UNCHANGED answers /\ dropped' = (dropped \/ CanAnswer)

\* channel.Close
CloseChannel == channel' = IF channel = "open" THEN "closed" ELSE channel

\* The request cannot be decoded, or its inner request cannot: by then the
\* channel is registered.
Undecodable ==
    /\ stage = "idle" /\ link = "open"
    /\ link' = "invalid" /\ stage' = "left"
    /\ channel' \in {"none", "open"}
    /\ UNCHANGED <<answerVars, dialVars>>

\* proxy_level has reached MaxProxyHopCount: one answer, if the queue takes it.
LoopDetected ==
    /\ stage = "idle" /\ link = "open"
    /\ Respond("failed") \/ NoResponse
    /\ stage' = "left"
    /\ UNCHANGED <<link, channel, dialVars>>

\* RegisterRequestedChannel: the ID was used before, or the mux is gone.
Unregistered ==
    /\ stage = "idle" /\ stage' = "left"
    /\ UNCHANGED <<link, channel, answerVars, dialVars>>

Register ==
    /\ stage = "idle" /\ link = "open"
    /\ channel' = "open" /\ stage' = "accept"
    /\ UNCHANGED <<link, answerVars, dialVars>>

\* Accepted is queued and the goroutine starts, or the channel is closed.
Accepted ==
    /\ stage = "accept"
    /\ \/ Respond("accepted") /\ stage' = "route" /\ UNCHANGED channel
       \/ NoResponse /\ CloseChannel /\ stage' = "left"
    /\ UNCHANGED <<link, dialVars>>

-----------------------------------------------------------------------------
(* handleRegisteredChannel *)

\* A reverse route or the UDP relay takes the request over.
TakenOver ==
    /\ stage = "route" /\ stage' = "taken"
    /\ UNCHANGED <<link, channel, answerVars, dialVars>>

\* decideACL on the request.
DecideRequest ==
    /\ stage = "route" /\ stage' \in {"fail", "dialProxy", "resolve"}
    /\ UNCHANGED <<link, channel, answerVars, dialVars>>

\* Mutant: the channel is closed without a word.
FailSilently ==
    /\ stage = "fail" /\ CloseChannel /\ stage' = "left"
    /\ UNCHANGED <<link, answerVars, dialVars>>

\* The final answer, and the channel is closed.
AnswerFailed ==
    /\ stage = "fail"
    /\ Respond("failed") \/ NoResponse
    /\ CloseChannel /\ stage' = "left"
    /\ UNCHANGED <<link, dialVars>>

\* OK is queued and the relay starts, or both ends are closed.
AnswerOK ==
    /\ stage = "succeed"
    /\ \/ Respond("ok") /\ stage' = "relay" /\ UNCHANGED <<channel, inHand>>
       \/ NoResponse /\ CloseChannel /\ stage' = "left" /\ inHand' = "closed"
    /\ UNCHANGED <<link, race, attempt, proxies, expired, cancelled>>

-----------------------------------------------------------------------------
(* dialTarget *)

Succeed(kind) == inHand' = kind /\ stage' = "succeed"
Fail == stage' = "fail" /\ UNCHANGED inHand

\* The lists send the name itself through a proxy.
DialProxy ==
    /\ stage = "dialProxy"
    /\ Succeed("proxy") \/ Fail
    /\ UNCHANGED <<link, channel, answerVars, race, attempt, proxies, expired, cancelled>>

\* classifyResolvedTargets asks the lists again, for each address.
Sixes(as) == SelectSeq(as, LAMBDA a : a \in V6)
Fours(as) == SelectSeq(as, LAMBDA a : a \notin V6)
DirectTargets(as) == SelectSeq(as, LAMBDA a : a \in Direct)
ProxyTargets(as) ==
    LET through == SelectSeq(as, LAMBDA a : a \in Proxied) IN Sixes(through) \o Fours(through)

\* interleaveDirectTargets: IPv6 and IPv4 in turn, IPv6 first.
InterleaveDirectTargets(as) ==
    LET six == Sixes(as)  four == Fours(as)
        both == Min({Len(six), Len(four)})
        rest == IF Len(six) > both THEN six ELSE four
    IN  [i \in 1..Len(as) |-> IF i > 2 * both THEN rest[i - both]
                              ELSE IF i % 2 = 1 THEN six[(i + 1) \div 2] ELSE four[i \div 2]]

Resolutions == UNION {[1..n -> Addresses] : n \in 0..MaxResolved}

\* The name is special, the lookup fails or the time is up ...
ResolveFails ==
    /\ stage = "resolve" /\ Fail
    /\ UNCHANGED <<link, channel, answerVars, race, attempt, proxies, expired, cancelled>>

\* ... or it yields addresses, and one goroutine per direct address starts.
Resolve ==
    /\ stage = "resolve"
    /\ \E as \in Resolutions :
          LET direct == InterleaveDirectTargets(DirectTargets(as)) IN
          /\ IsInjective(as)
          /\ race' = direct /\ proxies' = ProxyTargets(as)
          /\ attempt' = [a \in Addresses |-> IF a \in Range(direct) THEN "waiting" ELSE "none"]
          /\ stage' = IF direct # <<>> THEN "race" ELSE "proxies"
    /\ UNCHANGED <<link, channel, answerVars, expired, cancelled, inHand>>

\* The next proxy target, with what is left of the time.
TryProxy ==
    /\ stage = "proxies" /\ proxies # <<>> /\ ~expired
    /\ \/ Succeed("proxy") /\ UNCHANGED proxies
       \/ proxies' = Tail(proxies) /\ UNCHANGED <<stage, inHand>>
    /\ UNCHANGED <<link, channel, answerVars, race, attempt, expired, cancelled>>

NoProxyLeft ==
    /\ stage = "proxies" /\ (proxies = <<>> \/ expired) /\ Fail
    /\ UNCHANGED <<link, channel, answerVars, race, attempt, proxies, expired, cancelled>>

-----------------------------------------------------------------------------
(* dialDirectTargets *)

AttemptCtxDone == cancelled \/ expired
Become(a, state) == attempt' = [attempt EXCEPT ![a] = state]
onlyAttempt == <<link, channel, stage, answerVars, race, proxies, expired, cancelled, inHand>>

\* The delay of an attempt is longer than that of the ones before it.
StartAttempt(i) ==
    /\ attempt[race[i]] = "waiting" /\ ~AttemptCtxDone
    /\ \A j \in 1..(i - 1) : attempt[race[j]] # "waiting"
    /\ Become(race[i], "dialling")
    /\ UNCHANGED onlyAttempt

\* dialTargetAttempt ends, with a connection or not: its time is bounded.
AttemptEnds(a) ==
    /\ attempt[a] = "dialling"
    /\ Become(a, "connected") \/ Become(a, "failed")
    /\ UNCHANGED onlyAttempt

\* Mutant: the loser's connection is not closed.
LeaveRaceOpen(a) ==
    /\ AttemptCtxDone /\ attempt[a] \in {"waiting", "failed"}
    /\ Become(a, "reported")
    /\ UNCHANGED onlyAttempt

\* The race is over: a goroutine that waits goes, one with a result nobody
\* takes closes its connection.
LeaveRace(a) ==
    /\ AttemptCtxDone /\ attempt[a] \in {"waiting", "failed", "connected"}
    /\ Become(a, IF attempt[a] = "connected" THEN "closed" ELSE "reported")
    /\ UNCHANGED onlyAttempt

\* A result reaches the loop: the first connection wins, the last failure ends
\* the race.
TakeResult(a) ==
    /\ stage = "race"
    /\ \/ /\ attempt[a] = "connected" /\ Become(a, "taken")
          /\ Succeed("direct") /\ cancelled' = TRUE
       \/ /\ attempt[a] = "failed" /\ Become(a, "reported")
          /\ LET over == \A b \in Range(race) \ {a} : attempt[b] = "reported" IN
             cancelled' = over /\ stage' = IF over THEN "proxies" ELSE "race"
          /\ UNCHANGED inHand
    /\ UNCHANGED <<link, channel, answerVars, race, proxies, expired>>

\* The loop sees that the time is up.
RaceTimesOut ==
    /\ stage = "race" /\ expired
    /\ cancelled' = TRUE /\ stage' = "proxies"
    /\ UNCHANGED <<link, channel, answerVars, race, attempt, proxies, expired, inHand>>

-----------------------------------------------------------------------------
(* The environment *)

Expire ==
    /\ stage \in {"resolve", "race", "proxies"} /\ ~expired /\ expired' = TRUE
    /\ UNCHANGED <<link, channel, stage, answerVars, race, attempt, proxies, cancelled, inHand>>

\* The peer closes the channel, or the mux and with it the channel closes.
PeerCloses ==
    /\ channel = "open" /\ channel' = "gone"
    /\ UNCHANGED <<link, stage, answerVars, dialVars>>

MuxCloses ==
    /\ link # "closed" /\ link' = "closed"
    /\ channel' = IF channel = "open" THEN "gone" ELSE channel
    /\ UNCHANGED <<stage, answerVars, dialVars>>

Handler ==
    \/ Accepted \/ TakenOver \/ DecideRequest \/ AnswerFailed \/ AnswerOK \/ DialProxy
    \/ ResolveFails \/ Resolve \/ TryProxy \/ NoProxyLeft \/ RaceTimesOut

Dialling ==
    \/ \E i \in 1..Len(race) : StartAttempt(i)
    \/ \E a \in Addresses : AttemptEnds(a) \/ LeaveRace(a) \/ TakeResult(a)

ScNext ==
    \/ Undecodable \/ LoopDetected \/ Unregistered \/ Register
    \/ Handler \/ Dialling \/ Expire \/ PeerCloses \/ MuxCloses

ScSpec == ScInit /\ [][ScNext]_scVars

\* Goroutines run on; dials and lookups have timeouts; the clock runs.
ScFairness == WF_scVars(Handler) /\ WF_scVars(Dialling) /\ WF_scVars(Expire)

-----------------------------------------------------------------------------
(* Properties *)

\* A connection that nobody has taken, or that is in hand and not relayed.
Unaccounted ==
    \/ \E a \in Addresses : attempt[a] = "connected"
    \/ inHand \in {"direct", "proxy"} /\ stage # "relay"

\* Every connection that is made is relayed or closed in the end: the winner
\* also when the peer has gone meanwhile, the losers also when they connect
\* after the race was decided or the time was up.
ConnectionsAccounted == Unaccounted ~> ~Unaccounted

\* A request that was accepted gets its final answer, OK or failed, however
\* its dials, lookups and proxies end.  It goes without one only if the peer or
\* the mux closed the channel first, if the answer met a full write queue, or if
\* another part of the server took the request over: that this end has closed
\* the channel is no excuse.  (handleRegisteredChannel, dialTarget)
RequestAnswered ==
    stage = "route" ~> \/ Len(answers) = 2 \/ channel = "gone" \/ dropped
                       \/ stage = "taken"
=============================================================================
