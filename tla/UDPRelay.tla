------------------------------- MODULE UDPRelay -------------------------------
(***************************************************************************)
(* A UDP association, both ends: handleUDPAssociate on the client and       *)
(* handleUDPChannel on the server, joined by one channel.  Each end has a   *)
(* socket, a goroutine that copies from it into the channel, one that reads *)
(* the channel, a watcher for idleness, and a stop that runs once and waits *)
(* for NetConn.writeMu.  The server's channel reader also answers DNS       *)
(* queries by writing into the channel it reads, and starts goroutines that *)
(* will.                                                                    *)
(*                                                                          *)
(* A packet is one frame and one unit of credit; only what the server does  *)
(* with it is told apart.  What is decided about a target is another        *)
(* module's concern (AclCache, FakeDNS, DNSPending).                        *)
(***************************************************************************)
EXTENDS Naturals, Sequences

CONSTANTS
    UdpWindow,      \* credit at the start
    AppPackets,     \* bounds of the model: packets sent by the programs ...
    TargetPackets   \* ... and by the targets

ASSUME UDPConstants ==
    UdpWindow \in Nat \ {0} /\ AppPackets \in Nat /\ TargetPackets \in Nat

VARIABLES
    setup,      \* how far the association is
    bound,      \* clientSource is set
    packets,    \* [Ends -> packets that came out of the socket]
    tunnel,     \* [Ends -> "open" or "closed"]  the channel
    wire,       \* [Ends -> Seq]  on the way to this end
    allowance,  \* [Ends -> credit]
    mutex,      \* [Ends -> who waits for credit with writeMu in hand]
    outward,    \* [Ends -> the goroutine from the socket to the channel]
    inward,     \* [Ends -> the goroutine from the channel]
    answering,  \* queryDNSHijackAsync's goroutine
    stopOnce    \* [Ends -> sync.Once of the stop]

udVars == <<setup, bound, packets, tunnel, wire, allowance, mutex, outward,
            inward, answering, stopOnce>>

Ends == {"client", "server"}
Other(e) == IF e = "client" THEN "server" ELSE "client"
Worker == {"off", "reading", "holding", "writing", "stopping", "done"}

UdTypeOK ==
    /\ setup \in {"start", "bound", "asked", "serving", "relaying", "refused"}
    /\ bound \in BOOLEAN
    /\ packets \in [Ends -> Nat] /\ tunnel \in [Ends -> {"open", "closed"}]
    /\ \A e \in Ends : wire[e] \in Seq({"plain", "query", "close"})
    /\ allowance \in [Ends -> 0..UdpWindow]
    /\ mutex \in [Ends -> {"free", "outward", "inward", "answering"}]
    /\ outward \in [Ends -> Worker] /\ inward \in [Ends -> Worker]
    /\ answering \in {"off", "asking", "holding", "writing"}
    /\ stopOnce \in [Ends -> {"no", "closing", "done"}]

UdInit ==
    /\ setup = "start" /\ bound = FALSE
    /\ packets = [e \in Ends |-> 0] /\ tunnel = [e \in Ends |-> "closed"]
    /\ wire = [e \in Ends |-> <<>>] /\ allowance = [e \in Ends |-> UdpWindow]
    /\ mutex = [e \in Ends |-> "free"]
    /\ outward = [e \in Ends |-> "off"] /\ inward = [e \in Ends |-> "off"]
    /\ answering = "off" /\ stopOnce = [e \in Ends |-> "no"]

AtPlace(f, e, v) == [f EXCEPT ![e] = v]
workVars == <<outward, inward, answering, stopOnce, mutex>>

-----------------------------------------------------------------------------
(* Setting up *)

\* getChannel, ListenUDP: either may fail.
Associate ==
    /\ setup = "start"
    /\ \/ setup' = "bound" /\ tunnel' = AtPlace(tunnel, "client", "open")
       \/ setup' = "refused" /\ UNCHANGED tunnel
    /\ UNCHANGED <<bound, packets, wire, allowance, workVars>>

\* SendChannelRequest; the server's handler starts.
RequestUDP ==
    /\ setup = "bound"
    /\ \/ setup' = "asked" /\ tunnel' = AtPlace(tunnel, "server", "open")
       \/ setup' = "refused" /\ tunnel' = [e \in Ends |-> "closed"]
    /\ UNCHANGED <<bound, packets, wire, allowance, workVars>>

\* The server has its socket and answers, or fails and closes its channel.
ServeUDP ==
    /\ setup = "asked"
    /\ \/ /\ setup' = "serving" /\ UNCHANGED tunnel
          /\ outward' = AtPlace(outward, "server", "reading")
          /\ inward' = AtPlace(inward, "server", "reading")
       \/ setup' = "refused" /\ tunnel' = [e \in Ends |-> "closed"]
          /\ UNCHANGED <<outward, inward>>
    /\ UNCHANGED <<bound, packets, wire, allowance, answering, stopOnce, mutex>>

\* The client reads OK and replies to the program; a program that has gone, or
\* an answer that came too late, releases the channel.
AnswerUDP ==
    /\ setup = "serving"
    /\ \/ /\ setup' = "relaying" /\ tunnel["client"] = "open"
          /\ outward' = AtPlace(outward, "client", "reading")
          /\ inward' = AtPlace(inward, "client", "reading") /\ UNCHANGED <<tunnel, wire>>
       \/ /\ setup' = "refused" /\ tunnel' = AtPlace(tunnel, "client", "closed")
          /\ wire' = [wire EXCEPT !["client"] = <<>>, !["server"] = Append(@, "close")]
          /\ UNCHANGED <<outward, inward>>
    /\ UNCHANGED <<bound, packets, allowance, answering, stopOnce, mutex>>

-----------------------------------------------------------------------------
(* NetConn.Write: writeMu is taken, and kept while there is no credit *)

\* One attempt of worker w, of end e, that holds frame f: what becomes of it.
Writes(e, w, f, place, goOn, fails) ==
    /\ mutex[e] = IF place = "writing" THEN w ELSE "free"
    /\ \/ /\ tunnel[e] = "closed" /\ fails
          /\ mutex' = AtPlace(mutex, e, "free") /\ UNCHANGED <<allowance, wire>>
       \/ /\ tunnel[e] = "open" /\ allowance[e] > 0 /\ goOn
          /\ allowance' = AtPlace(allowance, e, allowance[e] - 1)
          /\ wire' = AtPlace(wire, Other(e), Append(wire[Other(e)], f))
          /\ mutex' = AtPlace(mutex, e, "free")

\* It has to wait for credit.
Waits(e, w) ==
    /\ mutex[e] = "free" /\ tunnel[e] = "open" /\ allowance[e] = 0
    /\ mutex' = AtPlace(mutex, e, w) /\ UNCHANGED <<allowance, wire>>

-----------------------------------------------------------------------------
(* From the socket to the channel *)

\* ReadFromUDP returns a packet that is worth forwarding: at the client one of
\* the source that came first, which udpSourceBinding.accept keeps.  The socket
\* is open until stopUDP has run.
SocketReads(e) ==
    /\ outward[e] = "reading" /\ stopOnce[e] # "done"
    /\ packets[e] < IF e = "client" THEN AppPackets ELSE TargetPackets
    /\ packets' = AtPlace(packets, e, packets[e] + 1)
    /\ outward' = AtPlace(outward, e, "holding")
    /\ bound' = (bound \/ e = "client")
    /\ UNCHANGED <<setup, tunnel, wire, allowance, mutex, inward, answering, stopOnce>>

\* done is closed, or the socket.
SocketStops(e) ==
    /\ outward[e] = "reading" /\ stopOnce[e] # "no"
    /\ outward' = AtPlace(outward, e, "stopping")
    /\ UNCHANGED <<setup, bound, packets, tunnel, wire, allowance, mutex, inward,
                   answering, stopOnce>>

OutwardWrites(e) ==
    /\ outward[e] \in {"holding", "writing"}
    /\ \/ \E f \in IF e = "client" THEN {"plain", "query"} ELSE {"plain"} :
             Writes(e, "outward", f, outward[e],
                    outward' = AtPlace(outward, e, "reading"), outward' = AtPlace(outward, e, "stopping"))
       \/ outward[e] = "holding" /\ Waits(e, "outward") /\ outward' = AtPlace(outward, e, "writing")
    /\ UNCHANGED <<setup, bound, packets, tunnel, inward, answering, stopOnce>>

-----------------------------------------------------------------------------
(* From the channel *)

\* The reader takes a frame and gives its credit back.
Takes(e) ==
    /\ inward[e] = "reading" /\ wire[e] # <<>> /\ Head(wire[e]) # "close"
    /\ tunnel[e] = "open"
    /\ wire' = AtPlace(wire, e, Tail(wire[e]))
    /\ allowance' = AtPlace(allowance, Other(e),
                        allowance[Other(e)] + IF tunnel[Other(e)] = "open" THEN 1 ELSE 0)

\* The client writes to its source; with none yet the packet is dropped, and a
\* failed write ends the association.
ClientReads ==
    /\ Takes("client")
    /\ \/ (bound => stopOnce["client"] # "done") /\ UNCHANGED inward
       \/ bound /\ inward' = AtPlace(inward, "client", "stopping")
    /\ UNCHANGED <<setup, bound, packets, tunnel, mutex, outward, answering, stopOnce>>

\* The server forwards or rejects a packet and reads on, whatever comes of it;
\* answers a query itself; or leaves that to a goroutine.
ServerReads ==
    /\ Takes("server")
    /\ \/ Head(wire["server"]) = "plain" /\ UNCHANGED <<inward, answering>>
       \/ /\ Head(wire["server"]) = "query"
          /\ inward' = AtPlace(inward, "server", "holding") /\ UNCHANGED answering
       \/ /\ Head(wire["server"]) = "query" /\ answering = "off"
          /\ answering' = "asking" /\ UNCHANGED inward
    /\ UNCHANGED <<setup, bound, packets, tunnel, mutex, outward, stopOnce>>

InwardWrites ==
    /\ inward["server"] \in {"holding", "writing"}
    /\ \/ Writes("server", "inward", "plain", inward["server"],
                 inward' = AtPlace(inward, "server", "reading"),
                 inward' = AtPlace(inward, "server", "stopping"))
       \/ /\ inward["server"] = "holding" /\ Waits("server", "inward")
          /\ inward' = AtPlace(inward, "server", "writing")
    /\ UNCHANGED <<setup, bound, packets, tunnel, outward, answering, stopOnce>>

\* queryDNSHijackAsync: the upstream answers or not, then the write.
HijackAnswers ==
    /\ \/ answering = "asking" /\ answering' \in {"holding", "off"}
          /\ UNCHANGED <<mutex, allowance, wire>>
       \/ /\ answering \in {"holding", "writing"}
          /\ Writes("server", "answering", "plain", answering,
                    answering' = "off", answering' = "off")
       \/ answering = "holding" /\ Waits("server", "answering") /\ answering' = "writing"
    /\ UNCHANGED <<setup, bound, packets, tunnel, outward, inward, stopOnce>>

InwardEnds(e) ==
    /\ inward[e] = "reading" /\ tunnel[e] = "closed"
    /\ inward' = AtPlace(inward, e, "stopping")
    /\ UNCHANGED <<setup, bound, packets, tunnel, wire, allowance, mutex, outward,
                   answering, stopOnce>>

-----------------------------------------------------------------------------
(* Stopping *)

Running(e) == outward[e] # "off"

\* stopUDP's first caller: a goroutine that ends, the goroutine that reads the
\* program's TCP connection, or the watcher; how long an end was idle is left
\* out, so that the watcher may act at any time.
BeginStop(e) ==
    /\ Running(e) /\ stopOnce[e] = "no"
    /\ stopOnce' = AtPlace(stopOnce, e, "closing")
    /\ UNCHANGED <<setup, bound, packets, tunnel, wire, allowance, mutex, outward,
                   inward, answering>>

\* Mutant: the channel is closed without telling the other end.
CloseQuietly(e) ==
    /\ stopOnce[e] = "closing" /\ mutex[e] = "free"
    /\ stopOnce' = AtPlace(stopOnce, e, "done") /\ tunnel' = AtPlace(tunnel, e, "closed")
    /\ allowance' = AtPlace(allowance, e, 0)
    /\ wire' = AtPlace(wire, e, <<>>)
    /\ UNCHANGED <<setup, bound, packets, mutex, outward, inward, answering>>

\* proxyConn.Close takes writeMu; then the sockets are closed.
CloseAll(e) ==
    /\ stopOnce[e] = "closing" /\ mutex[e] = "free"
    /\ stopOnce' = AtPlace(stopOnce, e, "done") /\ tunnel' = AtPlace(tunnel, e, "closed")
    /\ allowance' = AtPlace(allowance, e, 0)
    /\ wire' = [wire EXCEPT ![e] = <<>>,
                   ![Other(e)] = IF tunnel[e] = "open" /\ tunnel[Other(e)] = "open"
                                 THEN Append(@, "close") ELSE @]
    /\ UNCHANGED <<setup, bound, packets, mutex, outward, inward, answering>>

\* Other callers of stopUDP return when the first has.
WorkerEnds(e) ==
    /\ stopOnce[e] = "done"
    /\ \/ outward[e] = "stopping" /\ outward' = AtPlace(outward, e, "done") /\ UNCHANGED inward
       \/ inward[e] = "stopping" /\ inward' = AtPlace(inward, e, "done") /\ UNCHANGED outward
    /\ UNCHANGED <<setup, bound, packets, tunnel, wire, allowance, mutex, answering,
                   stopOnce>>

\* The mux's read loop handles CLOSE, ahead of what is still unread.
CloseArrives(e) ==
    /\ wire[e] # <<>> /\ wire[e][Len(wire[e])] = "close"
    /\ tunnel' = AtPlace(tunnel, e, "closed") /\ wire' = AtPlace(wire, e, <<>>)
    /\ allowance' = AtPlace(allowance, e, 0)
    /\ UNCHANGED <<setup, bound, packets, workVars>>

\* What each goroutine does of its own accord; a worker that is stopping calls
\* stopUDP.
Outward(e) == SocketStops(e) \/ OutwardWrites(e)
Inward(e) == InwardEnds(e) \/ (e = "client" /\ ClientReads)
                \/ (e = "server" /\ (ServerReads \/ InwardWrites))
Stopping(e) ==
    \/ BeginStop(e) /\ "stopping" \in {outward[e], inward[e]}
    \/ CloseAll(e) \/ WorkerEnds(e)

UdNext ==
    \/ Associate \/ RequestUDP \/ ServeUDP \/ AnswerUDP \/ HijackAnswers
    \/ \E e \in Ends :
          \/ Outward(e) \/ Inward(e) \/ Stopping(e) \/ CloseArrives(e)
          \/ SocketReads(e) \/ BeginStop(e)

UdSpec == UdInit /\ [][UdNext]_udVars

\* The goroutines run and the mux delivers.  Programs and targets owe nothing.
UdFairness ==
    /\ WF_udVars(AnswerUDP) /\ WF_udVars(HijackAnswers)
    /\ \A e \in Ends :
          /\ WF_udVars(Outward(e)) /\ WF_udVars(Inward(e))
          /\ WF_udVars(Stopping(e)) /\ WF_udVars(CloseArrives(e))

UdFairSpec == UdSpec /\ UdFairness

-----------------------------------------------------------------------------
(* Properties *)

UdpEnded(e) ==
    /\ tunnel[e] = "closed"
    /\ Running(e) => outward[e] = "done" /\ inward[e] = "done" /\ stopOnce[e] = "done"

\* Each end waits for the other: the client's reader has gone and its writer
\* keeps writeMu, while the server's reader waits for the credit that the
\* client's reader would have given.
Embrace ==
    /\ inward["client"] = "stopping" /\ mutex["client"] = "outward"
    /\ mutex["server"] # "free" /\ inward["server"] \in {"holding", "writing"}
    /\ \A e \in Ends : allowance[e] = 0 /\ tunnel[e] = "open"

\* Once either end stops, or the association fails while it is set up, both
\* ends release the channel and their sockets and their goroutines come to
\* their end, unless both wait for each other's credit.
UdpEndsTogether ==
    (setup = "refused" \/ \E e \in Ends : stopOnce[e] # "no")
        ~> (\A e \in Ends : UdpEnded(e)) \/ Embrace
=============================================================================
