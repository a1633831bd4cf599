----------------------------- MODULE RelayPair -----------------------------
(***************************************************************************)
(* A TCP connection relayed over one channel: the relay of the client and   *)
(* the relay of the server, each two copying goroutines between a socket    *)
(* and the channel, with half-close, abort and release.                     *)
(* (cmd/client/main.go relay, cmd/server/main.go relay, pkg/mux/netconn.go) *)
(*                                                                          *)
(* Data is counted in chunks and the window in chunks; how the window is    *)
(* kept is ChannelFlow's subject.  At each end an application (the local    *)
(* program, the target) sends, ends, resets or stops reading its socket.    *)
(***************************************************************************)
EXTENDS Naturals, Sequences

CONSTANTS
    RelayWindow,    \* send credit of a direction, in chunks
    ClientChunks,   \* bounds of the model: chunks the local program and
    ServerChunks,   \* the target send
    Resetting,      \* the ends whose application may reset its connection
    Stalling        \* the ends whose application may stop reading for good

Relays == {"client", "server"}
Far(e) == IF e = "client" THEN "server" ELSE "client"
MaxChunks(e) == IF e = "client" THEN ClientChunks ELSE ServerChunks

ASSUME RelayConstants ==
    /\ RelayWindow \in Nat \ {0} /\ {ClientChunks, ServerChunks} \subseteq Nat
    /\ Resetting \subseteq Relays /\ Stalling \subseteq Relays

VARIABLES
    chan,       \* [Relays -> "open" or "closed"]  closedFlag of the channel
    path,       \* [Relays -> Seq]  what the end has sent, not yet received
    credit,     \* [Relays -> Nat]  sendCredit
    inbox,      \* [Relays -> Nat]  chunks in recvQueue
    eof,        \* [Relays -> BOOLEAN]  remoteWriteClosed
    sender,     \* [Relays -> where io.CopyBuffer(proxyConn, socket) is]
    receiver,   \* [Relays -> where io.CopyBuffer(socket, proxyConn) is]
    once,       \* [Relays -> state of abortOnce: who runs abortBoth, "done"]
    app,        \* [Relays -> "talks", "ended" or "reset"]
    stalled,    \* [Relays -> BOOLEAN]  the application no longer reads
    sock,       \* [Relays -> "open", "half" (after CloseWrite) or "closed"]
    sent,       \* [Relays -> Nat]  chunks the application has sent
    taken,      \* [Relays -> Nat]  of these, read by the relay
    delivered   \* [Relays -> Nat]  chunks the application has received

rpVars == <<chan, path, credit, inbox, eof, sender, receiver, once, app, stalled,
            sock, sent, taken, delivered>>

SenderPlace == {"read", "credit", "fin", "abort", "closing", "done"}
ReceiverPlace == {"read", "write", "shut", "abort", "closing", "done"}

RpTypeOK ==
    /\ chan \in [Relays -> {"open", "closed"}]
    /\ \A e \in Relays : path[e] \in Seq({"data", "fin", "close", "credit"})
    /\ credit \in [Relays -> 0..RelayWindow] /\ inbox \in [Relays -> 0..RelayWindow]
    /\ eof \in [Relays -> BOOLEAN]
    /\ sender \in [Relays -> SenderPlace] /\ receiver \in [Relays -> ReceiverPlace]
    /\ once \in [Relays -> {"free", "running", "done"}]
    /\ app \in [Relays -> {"talks", "ended", "reset"}] /\ stalled \in [Relays -> BOOLEAN]
    /\ sock \in [Relays -> {"open", "half", "closed"}]
    /\ \A e \in Relays : /\ sent[e] \in 0..MaxChunks(e) /\ taken[e] \in 0..sent[e]
                         /\ delivered[e] \in 0..taken[Far(e)]

Each(v) == [e \in Relays |-> v]

RpInit ==
    /\ chan = Each("open") /\ path = Each(<<>>) /\ credit = Each(RelayWindow)
    /\ inbox = Each(0) /\ eof = Each(FALSE)
    /\ sender = Each("read") /\ receiver = Each("read") /\ once = Each("free")
    /\ app = Each("talks") /\ stalled = Each(FALSE) /\ sock = Each("open")
    /\ sent = Each(0) /\ taken = Each(0) /\ delivered = Each(0)

appVars == <<app, stalled, sent, delivered>>
chanVars == <<chan, path, credit, inbox, eof>>

-----------------------------------------------------------------------------
(* The applications *)

AppSends(e) ==
    /\ app[e] = "talks" /\ sent[e] < MaxChunks(e)
    /\ sent' = [sent EXCEPT ![e] = @ + 1]
    /\ UNCHANGED <<chanVars, sender, receiver, once, app, stalled, sock, taken, delivered>>

AppEnds(e) ==
    /\ app[e] = "talks" /\ app' = [app EXCEPT ![e] = "ended"]
    /\ UNCHANGED <<chanVars, sender, receiver, once, stalled, sock, sent, taken, delivered>>

AppResets(e) ==
    /\ e \in Resetting /\ app[e] # "reset" /\ app' = [app EXCEPT ![e] = "reset"]
    /\ UNCHANGED <<chanVars, sender, receiver, once, stalled, sock, sent, taken, delivered>>

AppStalls(e) ==
    /\ e \in Stalling /\ ~stalled[e] /\ stalled' = [stalled EXCEPT ![e] = TRUE]
    /\ UNCHANGED <<chanVars, sender, receiver, once, app, sock, sent, taken, delivered>>

SocketBroken(e) == sock[e] = "closed" \/ app[e] = "reset"

-----------------------------------------------------------------------------
(* Socket to channel *)

Send(e, msg) == path' = [path EXCEPT ![e] = Append(@, msg)]
SenderTo(e, place) == sender' = [sender EXCEPT ![e] = place]
ReceiverTo(e, place) == receiver' = [receiver EXCEPT ![e] = place]

\* Read of the socket: data, the end of the stream, or an error.
SenderReads(e) ==
    /\ sender[e] = "read"
    /\ \/ SocketBroken(e) /\ SenderTo(e, "abort") /\ UNCHANGED taken
       \/ /\ ~SocketBroken(e) /\ taken[e] < sent[e]
          /\ taken' = [taken EXCEPT ![e] = @ + 1] /\ SenderTo(e, "credit")
       \/ /\ ~SocketBroken(e) /\ taken[e] = sent[e] /\ app[e] = "ended"
          /\ SenderTo(e, "fin") /\ UNCHANGED taken
    /\ UNCHANGED <<chanVars, receiver, once, sock, appVars>>

\* NetConn.Write holds writeMu until it has credit; a closed channel fails it.
\* As long as it does, the goroutine that aborts cannot have it (see CloseChannel).
SenderWrites(e) ==
    /\ sender[e] = "credit"
    /\ \/ /\ chan[e] = "closed" /\ SenderTo(e, "abort") /\ UNCHANGED <<path, credit>>
       \/ /\ chan[e] = "open" /\ credit[e] > 0
          /\ credit' = [credit EXCEPT ![e] = @ - 1]
          /\ Send(e, "data") /\ SenderTo(e, "read")
    /\ UNCHANGED <<chan, inbox, eof, receiver, once, sock, taken, appVars>>

\* Mutant: the end of the stream is not passed on.
SenderEndsSilently(e) ==
    /\ sender[e] = "fin" /\ SenderTo(e, "done")
    /\ UNCHANGED <<chan, path, credit, inbox, eof, receiver, once, sock, taken, appVars>>

\* NetConn.CloseWrite
SenderEnds(e) ==
    /\ sender[e] = "fin"
    /\ IF chan[e] = "closed" THEN SenderTo(e, "abort") /\ UNCHANGED path
       ELSE Send(e, "fin") /\ SenderTo(e, "done")
    /\ UNCHANGED <<chan, credit, inbox, eof, receiver, once, sock, taken, appVars>>

-----------------------------------------------------------------------------
(* Channel to socket *)

\* Read of the channel: a chunk, whose credit goes back, the end of the stream
\* once the queue is empty, or an error.
ReceiverReads(e) ==
    /\ receiver[e] = "read"
    /\ \/ /\ chan[e] = "closed" /\ ReceiverTo(e, "abort") /\ UNCHANGED <<inbox, path>>
       \/ /\ chan[e] = "open" /\ inbox[e] > 0
          /\ inbox' = [inbox EXCEPT ![e] = @ - 1]
          /\ Send(e, "credit") /\ ReceiverTo(e, "write")
       \/ /\ chan[e] = "open" /\ inbox[e] = 0 /\ eof[e]
          /\ ReceiverTo(e, "shut") /\ UNCHANGED <<inbox, path>>
    /\ UNCHANGED <<chan, credit, eof, sender, once, sock, taken, appVars>>

\* Write to the socket: it waits while the application does not read.
ReceiverWrites(e) ==
    /\ receiver[e] = "write"
    /\ \/ SocketBroken(e) /\ ReceiverTo(e, "abort") /\ UNCHANGED delivered
       \/ /\ ~SocketBroken(e) /\ ~stalled[e]
          /\ delivered' = [delivered EXCEPT ![e] = @ + 1] /\ ReceiverTo(e, "read")
    /\ UNCHANGED <<chanVars, sender, once, sock, taken, app, stalled, sent>>

\* CloseWrite of the socket.
ReceiverShuts(e) ==
    /\ receiver[e] = "shut"
    /\ IF SocketBroken(e) THEN ReceiverTo(e, "abort") /\ UNCHANGED sock
       ELSE sock' = [sock EXCEPT ![e] = "half"] /\ ReceiverTo(e, "done")
    /\ UNCHANGED <<chanVars, sender, once, taken, appVars>>

-----------------------------------------------------------------------------
(* abortBoth, run once; who comes second waits for the first *)

WriteMuFree(e) == sender[e] # "credit"

Aborter(e, goroutine) ==
    IF goroutine = "sender" THEN sender[e] ELSE receiver[e]
AborterTo(e, goroutine, place) ==
    IF goroutine = "sender" THEN SenderTo(e, place) /\ UNCHANGED receiver
    ELSE ReceiverTo(e, place) /\ UNCHANGED sender

\* The client closes its socket before it waits for the channel's writeMu.
StartAbort(e, g) ==
    /\ Aborter(e, g) = "abort" /\ once[e] = "free"
    /\ once' = [once EXCEPT ![e] = "running"] /\ AborterTo(e, g, "closing")
    /\ sock' = IF e = "client" THEN [sock EXCEPT ![e] = "closed"] ELSE sock
    /\ UNCHANGED <<chanVars, taken, appVars>>

\* Mutant: the channel is released without telling the peer.
CloseChannelSilently(e) ==
    /\ chan' = [chan EXCEPT ![e] = "closed"] /\ inbox' = [inbox EXCEPT ![e] = 0]
    /\ UNCHANGED path

\* NetConn.Close: CLOSE is sent by whoever closes the channel first.
SendClose(e) ==
    /\ chan' = [chan EXCEPT ![e] = "closed"] /\ inbox' = [inbox EXCEPT ![e] = 0]
    /\ IF chan[e] = "open" THEN Send(e, "close") ELSE UNCHANGED path

FinishAbort(e, g) ==
    /\ Aborter(e, g) = "closing" /\ WriteMuFree(e)
    /\ SendClose(e)
    /\ sock' = [sock EXCEPT ![e] = "closed"]
    /\ once' = [once EXCEPT ![e] = "done"] /\ AborterTo(e, g, "done")
    /\ UNCHANGED <<credit, eof, taken, appVars>>

JoinAbort(e, g) ==
    /\ Aborter(e, g) = "abort" /\ once[e] = "done" /\ AborterTo(e, g, "done")
    /\ UNCHANGED <<chanVars, once, sock, taken, appVars>>

\* Both goroutines are done and nobody aborted: Finalize, and the socket closes.
ReleaseRelay(e) ==
    /\ sender[e] = "done" /\ receiver[e] = "done" /\ once[e] = "free"
    /\ sock[e] # "closed"
    /\ chan' = [chan EXCEPT ![e] = "closed"] /\ inbox' = [inbox EXCEPT ![e] = 0]
    /\ sock' = [sock EXCEPT ![e] = "closed"]
    /\ UNCHANGED <<path, credit, eof, sender, receiver, once, taken, appVars>>

-----------------------------------------------------------------------------
(* The read loop of an end; a closed channel is no longer in its table *)

\* Mutant: what is queued is dropped when the FIN comes.
ReadLoopDroppingQueue(e) ==
    LET from == Far(e) IN
    /\ path[from] # <<>> /\ path' = [path EXCEPT ![from] = Tail(@)]
    /\ LET msg == Head(path[from])  open == chan[e] = "open" IN
       /\ inbox' = [inbox EXCEPT ![e] = IF ~open THEN @ ELSE IF msg = "data" THEN @ + 1
                                        ELSE IF msg \in {"fin", "close"} THEN 0 ELSE @]
       /\ credit' = IF open /\ msg = "credit" THEN [credit EXCEPT ![e] = @ + 1] ELSE credit
       /\ eof' = [eof EXCEPT ![e] = @ \/ (open /\ msg = "fin")]
       /\ chan' = IF msg = "close" THEN [chan EXCEPT ![e] = "closed"] ELSE chan
    /\ UNCHANGED <<sender, receiver, once, sock, taken, appVars>>

ReadLoop(e) ==
    LET from == Far(e) IN
    /\ path[from] # <<>> /\ path' = [path EXCEPT ![from] = Tail(@)]
    /\ LET msg == Head(path[from])  open == chan[e] = "open" IN
       /\ inbox' = [inbox EXCEPT ![e] = IF ~open THEN @ ELSE IF msg = "data" THEN @ + 1
                                        ELSE IF msg = "close" THEN 0 ELSE @]
       /\ credit' = IF open /\ msg = "credit" THEN [credit EXCEPT ![e] = @ + 1] ELSE credit
       /\ eof' = [eof EXCEPT ![e] = @ \/ (open /\ msg = "fin")]
       /\ chan' = IF msg = "close" THEN [chan EXCEPT ![e] = "closed"] ELSE chan
    /\ UNCHANGED <<sender, receiver, once, sock, taken, appVars>>

Sending(e) == SenderReads(e) \/ SenderWrites(e) \/ SenderEnds(e)
Receiving(e) == ReceiverReads(e) \/ ReceiverWrites(e) \/ ReceiverShuts(e)
Aborting(e) == \E g \in {"sender", "receiver"} : StartAbort(e, g) \/ FinishAbort(e, g)
                                                    \/ JoinAbort(e, g)
Relaying(e) == ReadLoop(e) \/ ReleaseRelay(e)

RpNext ==
    \E e \in Relays :
        \/ AppSends(e) \/ AppEnds(e) \/ AppResets(e) \/ AppStalls(e)
        \/ Sending(e) \/ Receiving(e) \/ Aborting(e) \/ Relaying(e)

RpSpec == RpInit /\ [][RpNext]_rpVars

\* Every goroutine runs on as long as it can; the mux delivers.  Nothing is
\* assumed of the applications.
RpFairness ==
    \A e \in Relays :
        /\ WF_rpVars(Sending(e)) /\ WF_rpVars(Receiving(e))
        /\ WF_rpVars(Aborting(e)) /\ WF_rpVars(ReadLoop(e))
        /\ WF_rpVars(ReleaseRelay(e))

RpFairSpec == RpSpec /\ RpFairness

-----------------------------------------------------------------------------
(* Properties *)

\* An application that sees the clean end of its stream has received all that
\* the other one sent before it ended, whatever the other direction does.
\* (half-close, protocol.md:476)
CleanEndIsComplete ==
    \A e \in Relays : receiver[e] = "done" /\ once[e] = "free"
                        => delivered[e] = sent[Far(e)] /\ app[Far(e)] # "talks"

\* When both applications have ended, both relays are released and so are both
\* channels, as long as both read what they are sent; neither waits for the other.
RelaysFinish ==
    (\A e \in Relays : app[e] = "ended") ~>
        \/ \A e \in Relays : sock[e] = "closed" /\ chan[e] = "closed"
        \/ \E e \in Relays : app[e] = "reset" \/ stalled[e]

\* The relay of e has met an error.
MetError(e) == "abort" \in {sender[e], receiver[e]}

\* No goroutine of e looks at its channel: each has finished or waits for the
\* application, to take something or to say something.
Unwatched(e) ==
    /\ receiver[e] = "done" \/ (receiver[e] = "write" /\ stalled[e])
    /\ sender[e] = "done" \/ (sender[e] = "read" /\ app[e] = "talks" /\ taken[e] = sent[e])
    /\ <<sender[e], receiver[e]>> # <<"done", "done">>

\* The abort at e waits for writeMu, which a write without credit holds.
MutexStarved(e) == sender[e] = "credit" /\ credit[e] = 0 /\ "closing" \in {sender[e], receiver[e]}

\* An error at one end closes the connection at the other, unless nobody there
\* looks at the channel, or the abort cannot get past a write that has no credit.
AbortIsHeard ==
    \A e \in Relays :
        MetError(e) ~> sock[Far(e)] = "closed" \/ Unwatched(Far(e)) \/ MutexStarved(e)
=============================================================================
