----------------------------- MODULE MuxSession -----------------------------
(***************************************************************************)
(* The session layer of one mux between a reverse upstream ("up", the end   *)
(* that dialled) and the server that accepted it ("srv"): handshake and     *)
(* authentication, the two obfuscation pools of each end, the writer        *)
(* goroutine and its queue, the reverse-route update that makes both ends   *)
(* change pool, keep-alives, the invalid state with its drain and deadline, *)
(* and closing.  (pkg/mux/read_loop.go, send_packet.go, auth.go, invalid.go,*)
(* cmd/server/reverse_control.go, reverse_upstream.go)                      *)
(*                                                                          *)
(* A packet is its meaning and the pool it was written with; reading it     *)
(* with another pool fails the obfuscation header check.  What the code     *)
(* does between two lock regions or atomic stores is a step of its own only *)
(* where another goroutine can tell: the reader's register-then-switch, and *)
(* the writer's write-then-switch.                                          *)
(***************************************************************************)
EXTENDS Naturals, Sequences

CONSTANTS
    QueueCap,       \* muxWriteQueueSize
    Fragments,      \* fragments of the route update before the final one
    MaxDrain,       \* bound of the model: bytes of the authenticated drain
    MaxForwards,    \* bound of the model: channel requests the server forwards
    MaxBeats,       \* bound of the model: keep-alives each end sends
    SessEvents     \* what may go wrong outside: "damage" (bytes changed on
                    \* the way), "clock" (drift), "revoke" (permission taken)

ASSUME SessionBounds ==
    /\ QueueCap \in Nat \ {0}
    /\ {Fragments, MaxDrain, MaxForwards, MaxBeats} \subseteq Nat
    /\ SessEvents \subseteq {"damage", "clock", "revoke"}

VARIABLES
    closed,     \* [End -> BOOLEAN]  MuxConn.closed
    invalid,    \* [End -> BOOLEAN]  invalidReason # None
    sendPool,   \* [End -> Pool]     sendObfPool
    recvPool,   \* [End -> Pool]     recvObfPool
    queue,      \* [End -> Seq]      writeQueue
    wire,       \* [End -> Seq]      packets the end wrote, not yet read
    switching,  \* the upstream's writer has written the final fragment and
                \* has not stored the new pool yet
    authed,     \* hasReceivedTimestamp of the server end
    sentStamp,  \* hasSentTimestamp of the upstream end
    heard,      \* authOK: the upstream has had a keep-alive
    hasData,    \* [End -> BOOLEAN]  hasReceivedData
    phase,      \* where reverseUpstreamLoop is with this mux
    fragments,  \* fragments the upstream has queued
    allowed,    \* reverseRoutesAllowedForUser of the user of this mux
    registered, \* the server's route table has an entry for this mux
    handler,    \* the server's reader: in its loop, or between register and
                \* SwitchObfPoolFromUserPassword
    drain,      \* invalidDrainRemaining
    deadline,   \* invalidTimer: "armed", "fired" or "stopped"
    forwards,   \* channel requests forwarded so far
    beats,      \* [End -> Nat] keep-alives sent so far
    overtook,   \* history: the pools the two ends held disagreed about a
                \* packet in one of the two ways described below
    trouble     \* history: what went wrong outside the two programs

sessVars == <<closed, invalid, sendPool, recvPool, queue, wire, switching, authed,
          sentStamp, heard, hasData, phase, fragments, allowed, registered,
          handler, drain, deadline, forwards, beats, overtook, trouble>>

End == {"up", "srv"}
Pool == {"none", "epoch", "user"}
Message == {"stamp", "drifted", "keep", "refresh", "authok", "fragment",
            "route", "request", "response", "junk"}
Peer(e) == CHOOSE o \in End : o # e

WirePacket == [msg : Message, pool : Pool]

\* muxWriteRequest: a packet, with the pool to switch to after it if any, or
\* the request to switch the sending pool alone.
PacketRequest(m) == [kind |-> "packet", msg |-> m, next |-> "none"]
FinalRequest == [kind |-> "packet", msg |-> "route", next |-> "user"]
SwitchRequest == [kind |-> "switch", msg |-> "keep", next |-> "user"]
WriteRequest == [kind : {"packet", "switch"}, msg : Message, next : Pool]

SessTypeOK ==
    /\ closed \in [End -> BOOLEAN] /\ invalid \in [End -> BOOLEAN]
    /\ sendPool \in [End -> Pool] /\ recvPool \in [End -> Pool]
    /\ \A e \in End : /\ queue[e] \in Seq(WriteRequest) /\ Len(queue[e]) <= QueueCap
                      /\ wire[e] \in Seq(WirePacket)
    /\ {switching, authed, sentStamp, heard, allowed, registered, overtook}
          \subseteq BOOLEAN
    /\ hasData \in [End -> BOOLEAN]
    /\ phase \in {"probe", "waitAuth", "update", "serving", "left"}
    /\ fragments \in 0..Fragments
    /\ handler \in {"loop", "switch"}
    /\ drain \in 0..MaxDrain
    /\ deadline \in {"armed", "fired", "stopped"}
    /\ forwards \in 0..MaxForwards /\ beats \in [End -> 0..MaxBeats]
    /\ trouble \subseteq {"clock", "revoke", "up", "srv"}

\* NewMuxConnWithHandshake: the dialling end derives its pool at once, the
\* accepting end learns it from the handshake header and starts its timer.
SessInit ==
    /\ closed = [e \in End |-> FALSE] /\ invalid = [e \in End |-> FALSE]
    /\ sendPool = [up |-> "epoch", srv |-> "none"]
    /\ recvPool = [up |-> "epoch", srv |-> "none"]
    /\ queue = [e \in End |-> <<>>] /\ wire = [e \in End |-> <<>>]
    /\ switching = FALSE /\ authed = FALSE /\ sentStamp = FALSE
    /\ heard = FALSE /\ hasData = [e \in End |-> FALSE]
    /\ phase = "probe" /\ fragments = 0 /\ allowed = TRUE
    /\ registered = FALSE /\ handler = "loop"
    /\ drain = 0 /\ deadline = "armed"
    /\ forwards = 0 /\ beats = [e \in End |-> 0]
    /\ overtook = FALSE /\ trouble = {}

-----------------------------------------------------------------------------
(* Closing, and the write queue *)

\* Close: the flag, the writer stops with its queue unsent, the timer stops.
CloseEnds(ends) ==
    /\ closed' = [e \in End |-> closed[e] \/ e \in ends]
    /\ deadline' = IF "srv" \in ends THEN "stopped" ELSE deadline

\* enqueueWriteRequest: refused when the mux is closed or its queue is full.
CanEnqueue(e) == ~closed[e] /\ Len(queue[e]) < QueueCap

Enqueue(e, r) == queue' = [queue EXCEPT ![e] = Append(@, r)]

\* queuePacket also wants the pool (and with it the MAC key) of the session.
CanSend(e) == CanEnqueue(e) /\ sendPool[e] # "none"

\* A queued packet becomes bytes with the pool the writer holds at that time.
\* The server's packet disagrees with the upstream's reader from the start when
\* it is written with the old pool although the upstream wrote its final
\* fragment, because it stands before the queued switch: that is the first way
\* of overtook.
Wired(e, m) == [msg |-> m, pool |-> sendPool[e]]

WrittenLate(e) ==
    /\ e = "srv" /\ sendPool["srv"] = "epoch" /\ (switching \/ recvPool["up"] = "user")
    /\ handler = "switch" \/ \E i \in 1..Len(queue["srv"]) : queue["srv"][i].kind = "switch"

\* processWriteRequest and sendPacketNow: the first packet of the dialling end
\* goes out behind its timestamp packet in one write.  The timestamp is
\* "drifted" when the two clocks differ by more than MaxTimeDrift.
WriterSends(e) ==
    /\ ~closed[e] /\ queue[e] # <<>> /\ Head(queue[e]).kind = "packet"
    /\ ~(e = "up" /\ switching)
    /\ LET r == Head(queue[e]) IN
       /\ \E stamp \in {"stamp"} \cup (IF "clock" \in SessEvents
                                       THEN {"drifted"} ELSE {}) :
             /\ stamp = "drifted" => (e = "up" /\ ~sentStamp)
             /\ trouble' = trouble \cup (IF stamp = "drifted" THEN {"clock"} ELSE {})
             /\ wire' = [wire EXCEPT ![e] =
                   Append(IF e = "up" /\ ~sentStamp THEN Append(@, Wired(e, stamp)) ELSE @,
                          Wired(e, r.msg))]
       /\ sentStamp' = (sentStamp \/ e = "up")
       /\ switching' = (switching \/ r.next # "none")
       /\ overtook' = (overtook \/ WrittenLate(e))
       /\ queue' = [queue EXCEPT ![e] = Tail(@)]
    /\ UNCHANGED <<closed, invalid, sendPool, recvPool, authed, heard, hasData,
                   phase, fragments, allowed, registered, handler, drain,
                   deadline, forwards, beats>>

\* Mutant: only the sending pool changes.
WriterStoresSendPool ==
    /\ switching /\ ~closed["up"]
    /\ switching' = FALSE
    /\ sendPool' = [sendPool EXCEPT !["up"] = "user"]
    /\ UNCHANGED recvPool
    /\ UNCHANGED <<closed, invalid, queue, wire, authed, sentStamp, heard,
                   hasData, phase, fragments, allowed, registered, handler,
                   drain, deadline, forwards, beats, overtook, trouble>>

\* The end of sendPacketNow: both pools change once Write has returned.
WriterStoresPools ==
    /\ switching /\ ~closed["up"]
    /\ switching' = FALSE
    /\ sendPool' = [sendPool EXCEPT !["up"] = "user"]
    /\ recvPool' = [recvPool EXCEPT !["up"] = "user"]
    /\ UNCHANGED <<closed, invalid, queue, wire, authed, sentStamp, heard,
                   hasData, phase, fragments, allowed, registered, handler,
                   drain, deadline, forwards, beats, overtook, trouble>>

\* processWriteRequest of muxWriteSwitchSendPool.
WriterSwitches ==
    /\ ~closed["srv"] /\ queue["srv"] # <<>>
    /\ Head(queue["srv"]).kind = "switch"
    /\ sendPool' = [sendPool EXCEPT !["srv"] = Head(queue["srv"]).next]
    /\ queue' = [queue EXCEPT !["srv"] = Tail(@)]
    /\ UNCHANGED <<closed, invalid, recvPool, wire, switching, authed,
                   sentStamp, heard, hasData, phase, fragments, allowed,
                   registered, handler, drain, deadline, forwards, beats,
                   overtook, trouble>>

\* writeWirePackets fails, as it may once the peer has closed: handleWriteError
\* and writeLoop close the mux.
WriterFails(e) ==
    /\ ~closed[e] /\ queue[e] # <<>> /\ closed[Peer(e)]
    /\ CloseEnds({e})
    /\ UNCHANGED <<invalid, sendPool, recvPool, queue, wire, switching, authed,
                   sentStamp, heard, hasData, phase, fragments, allowed,
                   registered, handler, drain, forwards, beats, overtook, trouble>>

-----------------------------------------------------------------------------
(* The read loop *)

\* SetInvalid: nothing on the dialling end; on the accepting end before the
\* timestamp the deadline decides, after it a random number of bytes is drained.
SetInvalid(e) ==
    /\ invalid' = [invalid EXCEPT ![e] = TRUE]
    /\ IF e = "up"
       THEN UNCHANGED <<closed, drain, deadline>>
       ELSE IF authed
       THEN /\ drain' \in 0..MaxDrain
            /\ closed' = [closed EXCEPT !["srv"] = (drain' = 0)]
            /\ deadline' = "stopped"
       ELSE /\ closed' = [closed EXCEPT !["srv"] = (deadline = "fired")]
            /\ UNCHANGED <<drain, deadline>>

\* What the handlers below leave alone when the packet only makes the mux
\* invalid, and what a packet that changes nothing leaves alone.
Rejected(e) ==
    /\ SetInvalid(e)
    /\ UNCHANGED <<sendPool, recvPool, queue, authed, heard, hasData,
                   registered, handler>>

Ignored ==
    UNCHANGED <<closed, invalid, sendPool, recvPool, queue, authed, heard,
                hasData, registered, handler, drain, deadline>>

\* The checks before a packet is interpreted: the obfuscation header against
\* the pool, then MACs and boundary.  Before its first packet the accepting end
\* takes the pool the handshake header names.
ExpectedPool(e, p) == IF recvPool[e] = "none" THEN p.pool ELSE recvPool[e]
Genuine(e, p) ==
    /\ p.msg # "junk" /\ p.pool = ExpectedPool(e, p)
    /\ recvPool[e] = "none" => p.msg \in {"stamp", "drifted"}

\* The timestamp packet (server end): once, within the drift, answered AuthOK.
Timestamp(p) ==
    /\ p.msg \in {"stamp", "drifted"}
    /\ IF authed \/ p.msg = "drifted"
       THEN /\ SetInvalid("srv")
            /\ sendPool' = [sendPool EXCEPT !["srv"] = ExpectedPool("srv", p)]
            /\ recvPool' = [recvPool EXCEPT !["srv"] = ExpectedPool("srv", p)]
            /\ UNCHANGED <<queue, authed, heard, hasData, registered, handler>>
       ELSE /\ authed' = TRUE
            /\ sendPool' = [sendPool EXCEPT !["srv"] = p.pool]
            /\ recvPool' = [recvPool EXCEPT !["srv"] = p.pool]
            /\ IF CanEnqueue("srv")
               THEN Enqueue("srv", PacketRequest("authok")) /\ UNCHANGED <<closed, deadline>>
               ELSE CloseEnds({"srv"}) /\ UNCHANGED queue
            /\ UNCHANGED <<invalid, heard, hasData, registered, handler, drain>>

\* handleKeepAliveControl: RefreshIdle counts as data, the others wake the
\* upstream waiting for AuthOK; a channel response is handled here too.
KeepAliveControl(e, p) ==
    /\ p.msg \in {"keep", "refresh", "authok", "response"}
    /\ heard' = (heard \/ (e = "up" /\ p.msg \in {"keep", "authok"}))
    /\ hasData' = [hasData EXCEPT ![e] = @ \/ p.msg = "refresh"]
    /\ UNCHANGED <<closed, invalid, sendPool, recvPool, queue, authed,
                   registered, handler, drain, deadline>>

\* handleReverseRoutePacket (server end), as far as routes.register: a user
\* without the permission is refused, a fragment is kept, the final one
\* registers the mux and takes the reader to SwitchObfPoolFromUserPassword.
ReverseRoute(p) ==
    /\ p.msg \in {"fragment", "route"}
    /\ IF ~authed \/ ~allowed THEN Rejected("srv")
       ELSE IF p.msg = "fragment" THEN Ignored
       ELSE /\ registered' = TRUE /\ handler' = "switch"
            /\ UNCHANGED <<closed, invalid, sendPool, recvPool, queue, authed,
                           heard, hasData, drain, deadline>>

\* A forwarded channel request (upstream end): handleNewChannel answers it.
ChannelRequest(p) ==
    /\ p.msg = "request"
    /\ hasData' = [hasData EXCEPT !["up"] = TRUE]
    /\ IF CanSend("up") THEN Enqueue("up", PacketRequest("response"))
                        ELSE UNCHANGED queue
    /\ UNCHANGED <<closed, invalid, sendPool, recvPool, authed, heard,
                   registered, handler, drain, deadline>>

\* One iteration of readLoop on a packet.  The second way of overtook: a packet
\* already in the new pool reaches the upstream before its writer stored it.
ReadPacket(e) ==
    /\ ~closed[e] /\ ~invalid[e] /\ wire[Peer(e)] # <<>>
    /\ e = "srv" => handler = "loop"
    /\ LET p == Head(wire[Peer(e)]) IN
       /\ wire' = [wire EXCEPT ![Peer(e)] = Tail(@)]
       /\ overtook' = (overtook \/ (e = "up" /\ p.pool = "user" /\ switching))
       /\ IF ~Genuine(e, p) THEN Rejected(e)
          ELSE \/ Timestamp(p)
               \/ KeepAliveControl(e, p)
               \/ ReverseRoute(p)
               \/ ChannelRequest(p)
    /\ UNCHANGED <<switching, sentStamp, phase, fragments, allowed, forwards, beats, trouble>>

\* Mutant: the receiving pool waits for the writer too.
SwitchObfPoolLater ==
    /\ handler = "switch"
    /\ handler' = "loop"
    /\ IF CanEnqueue("srv")
       THEN Enqueue("srv", SwitchRequest) /\ UNCHANGED <<closed, registered, deadline>>
       ELSE registered' = FALSE /\ CloseEnds({"srv"}) /\ UNCHANGED queue
    /\ UNCHANGED <<invalid, sendPool, recvPool, wire, switching, authed, sentStamp, heard,
                   hasData, phase, fragments, allowed, drain, forwards, beats,
                   overtook, trouble>>

\* The rest of handleReverseRoutePacket: SwitchObfPoolFromUserPassword stores
\* the receiving pool and queues the switch of the sending one; when the queue
\* refuses it the route is removed and the mux closed.
SwitchObfPool ==
    /\ handler = "switch"
    /\ handler' = "loop"
    /\ recvPool' = [recvPool EXCEPT !["srv"] = "user"]
    /\ IF CanEnqueue("srv")
       THEN Enqueue("srv", SwitchRequest) /\ UNCHANGED <<closed, registered, deadline>>
       ELSE registered' = FALSE /\ CloseEnds({"srv"}) /\ UNCHANGED queue
    /\ UNCHANGED <<invalid, sendPool, wire, switching, authed, sentStamp, heard,
                   hasData, phase, fragments, allowed, drain, forwards, beats,
                   overtook, trouble>>

\* readLoop of an invalid mux: bytes are thrown away; after authentication the
\* accepting end closes when its budget is used up.
Drain(e) ==
    /\ ~closed[e] /\ invalid[e] /\ wire[Peer(e)] # <<>>
    /\ wire' = [wire EXCEPT ![Peer(e)] = Tail(@)]
    /\ IF e = "srv" /\ authed
       THEN \E n \in 1..drain :
              /\ drain' = drain - n
              /\ IF drain' = 0 THEN CloseEnds({e}) ELSE UNCHANGED <<closed, deadline>>
       ELSE UNCHANGED <<drain, closed, deadline>>
    /\ UNCHANGED <<invalid, sendPool, recvPool, queue, switching, authed,
                   sentStamp, heard, hasData, phase, fragments, allowed,
                   registered, handler, forwards, beats, overtook, trouble>>

\* Mutant: no read deadline while an invalid mux is drained.
ReadErrorUnlessInvalid(e) ==
    /\ ~closed[e] /\ (closed[Peer(e)] \/ (wire[Peer(e)] = <<>> /\ ~invalid[e]))
    /\ e = "srv" => handler = "loop"
    /\ CloseEnds({e})
    /\ UNCHANGED <<invalid, sendPool, recvPool, queue, wire, switching, authed,
                   sentStamp, heard, hasData, phase, fragments, allowed,
                   registered, handler, drain, forwards, beats, overtook, trouble>>

\* A read error: the peer has closed (unread bytes may be lost with it), or
\* nothing arrived for SocketIdleTimeout.
ReadError(e) ==
    /\ ~closed[e] /\ (closed[Peer(e)] \/ wire[Peer(e)] = <<>>)
    /\ e = "srv" => handler = "loop"
    /\ CloseEnds({e})
    /\ UNCHANGED <<invalid, sendPool, recvPool, queue, wire, switching, authed,
                   sentStamp, heard, hasData, phase, fragments, allowed,
                   registered, handler, drain, forwards, beats, overtook, trouble>>

\* The timer of startInvalidDeadlineTimer.
DeadlineFires ==
    /\ deadline = "armed"
    /\ deadline' = "fired"
    /\ closed' = [closed EXCEPT !["srv"] = @ \/ ~authed]
    /\ UNCHANGED <<invalid, sendPool, recvPool, queue, wire, switching, authed,
                   sentStamp, heard, hasData, phase, fragments, allowed,
                   registered, handler, drain, forwards, beats, overtook, trouble>>

-----------------------------------------------------------------------------
(* reverseUpstreamLoop with this mux, keep-alives, forwarding *)

\* A step of the loop that sends r and goes to next, or gives the mux up.
LoopSends(r, next) ==
    IF CanSend("up")
    THEN Enqueue("up", r) /\ phase' = next /\ UNCHANGED <<closed, deadline>>
    ELSE CloseEnds({"up"}) /\ phase' = "left" /\ UNCHANGED queue

\* The probe, which carries the timestamp packet.
SendProbe ==
    /\ phase = "probe"
    /\ LoopSends(PacketRequest("keep"), "waitAuth")
    /\ UNCHANGED <<invalid, sendPool, recvPool, wire, switching, authed,
                   sentStamp, heard, hasData, fragments, allowed, registered,
                   handler, drain, forwards, beats, overtook, trouble>>

\* waitReverseUpstreamAuthOK: answered, timed out, or closed meanwhile.
WaitAuthOK ==
    /\ phase = "waitAuth"
    /\ \/ heard /\ phase' = "update" /\ UNCHANGED <<closed, deadline>>
       \/ CloseEnds({"up"}) /\ phase' = "left"
    /\ UNCHANGED <<invalid, sendPool, recvPool, queue, wire, switching, authed,
                   sentStamp, heard, hasData, fragments, allowed, registered,
                   handler, drain, forwards, beats, overtook, trouble>>

\* sendReverseRouteUpdate, one fragment at a time.
SendUpdate ==
    /\ phase = "update"
    /\ IF fragments < Fragments
       THEN fragments' = fragments + 1 /\ LoopSends(PacketRequest("fragment"), "update")
       ELSE UNCHANGED fragments /\ LoopSends(FinalRequest, "serving")
    /\ UNCHANGED <<invalid, sendPool, recvPool, wire, switching, authed,
                   sentStamp, heard, hasData, allowed, registered, handler,
                   drain, forwards, beats, overtook, trouble>>

\* keepAliveLoop.  Before the update is out the upstream waits at most ten
\* seconds, less than the shortest keep-alive interval, so no beat is due; the
\* server end beats only once it counts data as received.
KeepAlive(e) ==
    /\ ~closed[e] /\ beats[e] < MaxBeats
    /\ IF e = "up" THEN phase = "serving" ELSE hasData[e] /\ ~(authed /\ invalid[e])
    /\ beats' = [beats EXCEPT ![e] = @ + 1]
    /\ IF CanSend(e)
       THEN /\ Enqueue(e, PacketRequest(IF hasData[e] THEN "keep" ELSE "refresh"))
            /\ UNCHANGED <<closed, deadline>>
       ELSE CloseEnds({e}) /\ UNCHANGED queue
    /\ UNCHANGED <<invalid, sendPool, recvPool, wire, switching, authed,
                   sentStamp, heard, hasData, phase, fragments, allowed,
                   registered, handler, drain, forwards, overtook, trouble>>

\* forwardViaReverseRoute on another goroutine picks this mux from the table
\* and sends a channel request (AllocChannel refuses an invalid mux).
Forward ==
    /\ registered /\ ~invalid["srv"] /\ CanSend("srv") /\ forwards < MaxForwards
    /\ forwards' = forwards + 1
    /\ Enqueue("srv", PacketRequest("request"))
    /\ UNCHANGED <<closed, invalid, sendPool, recvPool, wire, switching, authed,
                   sentStamp, heard, hasData, phase, fragments, allowed,
                   registered, handler, drain, deadline, beats, overtook, trouble>>

\* closeUnavailableConnections after a refresh took the permission (the route
\* goes) or disabled the user (the mux is closed too), once the handler that
\* registers has released the users lock.
Revoke ==
    /\ "revoke" \in SessEvents /\ allowed /\ handler = "loop"
    /\ allowed' = FALSE
    /\ registered' = FALSE
    /\ trouble' = trouble \cup {"revoke"}
    /\ \/ CloseEnds({"srv"})
       \/ UNCHANGED <<closed, deadline>>
    /\ UNCHANGED <<invalid, sendPool, recvPool, queue, wire, switching, authed,
                   sentStamp, heard, hasData, phase, fragments, handler, drain,
                   forwards, beats, overtook>>

\* Bytes changed on the way.
Damage(e) ==
    /\ "damage" \in SessEvents /\ wire[e] # <<>> /\ e \notin trouble
    /\ wire' = [wire EXCEPT ![e][1].msg = "junk"]
    /\ trouble' = trouble \cup {e}
    /\ UNCHANGED <<closed, invalid, sendPool, recvPool, queue, switching,
                   authed, sentStamp, heard, hasData, phase, fragments,
                   allowed, registered, handler, drain, deadline, forwards,
                   beats, overtook>>

SessNext ==
    \/ \E e \in End : WriterSends(e) \/ WriterFails(e) \/ ReadPacket(e)
                        \/ Drain(e) \/ ReadError(e) \/ KeepAlive(e) \/ Damage(e)
    \/ WriterStoresPools \/ WriterSwitches \/ SwitchObfPool \/ DeadlineFires
    \/ SendProbe \/ WaitAuthOK \/ SendUpdate \/ Forward \/ Revoke

SessSpec == SessInit /\ [][SessNext]_sessVars

\* The runtime runs every ready goroutine and timer: the accepting end's reader
\* gets bytes, an error or its read deadline, and its deadline timer fires.
SessionReader(e) == ReadPacket(e) \/ Drain(e) \/ ReadError(e)
SessFairness ==
    /\ \A e \in End : WF_sessVars(SessionReader(e))
    /\ WF_sessVars(SwitchObfPool) /\ WF_sessVars(DeadlineFires)

SessFairSpec == SessSpec /\ SessFairness

-----------------------------------------------------------------------------
(* Properties *)

\* The accepting end never takes a packet of a sound session for a damaged one:
\* it turns invalid only when bytes were changed on the way, the clocks drifted
\* apart or the permission was withdrawn.  In particular every packet after the
\* final fragment is read with the pool it was written with, and no packet is
\* ever read before the timestamp.  (readLoop, SetInvalid)
AcceptorReadsSoundSession ==
    invalid["srv"] => trouble \cap {"up", "clock", "revoke"} # {}

\* The dialling end turns invalid only through damage, or because one of the two
\* races around the pool switch happened: a request forwarded between register
\* and the queued switch was written with the old pool, or an answer in the new
\* pool was read before the writer had stored it.  AuthOK, keep-alives and the
\* later requests never cross the switch.
DiallerInvalidOnlyByOvertaking ==
    invalid["up"] => overtook \/ "srv" \in trouble

\* Neither end gives up a session that nothing has disturbed.
InvalidHasCause == AcceptorReadsSoundSession /\ DiallerInvalidOnlyByOvertaking

\* An invalid accepting end is closed in the end, before authentication by its
\* deadline timer, afterwards by its drain budget or the read deadline; it does
\* not stay open for ever.  (readLoop 54-82, startInvalidDeadlineTimer)
InvalidAcceptorCloses == invalid["srv"] ~> closed["srv"]
=============================================================================
