------------------------------ MODULE WireProofs ------------------------------
(***************************************************************************)
(* What two muxes agree on over the wire: the keys and the packets of a     *)
(* reverse session, for every queue, every drain bound and every number of  *)
(* packets (MuxSession), and the credit of a channel, for every number of   *)
(* window steps, every increasing sequence of windows and every bound       *)
(* (CreditFlow).                                                            *)
(***************************************************************************)
EXTENDS MuxSession, CreditFlow, TLAPS

-----------------------------------------------------------------------------
(* MuxSession *)

\* The two ends, one by one.
upQueue == queue["up"]
srvQueue == queue["srv"]
upWire == wire["up"]
srvWire == wire["srv"]
upSend == sendPool["up"]
srvSend == sendPool["srv"]
upRecv == recvPool["up"]
srvRecv == recvPool["srv"]
upInvalid == invalid["up"]
srvInvalid == invalid["srv"]
srvClosed == closed["srv"]
srvData == hasData["srv"]

\* The final fragment has left the upstream: its writer is about to store the
\* new pool, or has.  The server has read it.
RouteWritten == switching \/ upRecv = "user"
RouteRead == handler = "switch" \/ srvRecv = "user"

SessTyped ==
    /\ closed \in [End -> BOOLEAN] /\ invalid \in [End -> BOOLEAN]
    /\ hasData \in [End -> BOOLEAN]
    /\ sendPool \in [End -> Pool] /\ recvPool \in [End -> Pool]
    /\ queue \in [End -> Seq(WriteRequest)] /\ wire \in [End -> Seq(WirePacket)]
    /\ switching \in BOOLEAN /\ authed \in BOOLEAN /\ sentStamp \in BOOLEAN
    /\ heard \in BOOLEAN /\ allowed \in BOOLEAN /\ registered \in BOOLEAN
    /\ overtook \in BOOLEAN
    /\ handler \in {"loop", "switch"}

\* What the upstream has queued: the final fragment once, and only keep-alives
\* behind it ask for an answer.
UpQueue ==
    /\ \A i \in 1..Len(upQueue) :
          /\ upQueue[i].kind = "packet"
          /\ upQueue[i].msg \in {"keep", "refresh", "fragment", "route", "response"}
          /\ upQueue[i].next # "none" <=> upQueue[i].msg = "route"
          /\ upQueue[i].msg = "route" => ~RouteWritten /\ phase = "serving"
          /\ upQueue[i].msg = "refresh" =>
                RouteWritten \/ \E j \in 1..i - 1 : upQueue[j].msg = "route"
          /\ upQueue[i].msg = "route" => \A j \in 1..i - 1 : upQueue[j].msg # "route"
    /\ phase = "serving" =>
          RouteWritten \/ \E j \in 1..Len(upQueue) : upQueue[j].msg = "route"

\* The upstream's pools follow its writer, and its writer the loop.
UpPools ==
    /\ upSend = upRecv /\ upRecv \in {"epoch", "user"}
    /\ switching => upRecv = "epoch"
    /\ RouteWritten => phase = "serving"
    /\ phase \in {"update", "serving"} => heard
    /\ ~sentStamp => ~RouteWritten

\* What the upstream wrote: the timestamp first, and in the new pool only what
\* comes behind the final fragment.
UpWire ==
    /\ \A i \in 1..Len(upWire) :
          /\ upWire[i].msg \in {"stamp", "drifted", "keep", "refresh", "fragment", "route",
                                "response", "junk"}
          /\ upWire[i].pool \in {"epoch", "user"}
          /\ upWire[i].msg = "refresh" => upWire[i].pool = "user"
          /\ upWire[i].msg = "route" => RouteWritten /\ upWire[i].pool = "epoch"
          /\ upWire[i].pool = "user" => RouteWritten
          /\ upWire[i].msg \in {"stamp", "drifted"} => i = 1 /\ ~authed /\ srvRecv = "none"
    /\ ~sentStamp => upWire = <<>> /\ ~authed /\ srvRecv = "none"

\* The server changes its pools, registers and counts data only after the final
\* fragment, and its writer will change pool if it has not yet.
SrvPools ==
    /\ RouteRead \/ srvSend = "user" => RouteWritten
    /\ registered \/ srvData => RouteRead
    /\ srvRecv = "user" /\ ~srvClosed /\ srvSend # "user" =>
          \E i \in 1..Len(srvQueue) : srvQueue[i].kind = "switch"
    /\ authed => srvSend # "none"
    /\ ~authed => ~heard

\* Before the upstream has heard, AuthOK is all the server sends; between that
\* and the final fragment it sends nothing.
SrvSends ==
    /\ \A i \in 1..Len(srvQueue) :
          /\ srvQueue[i].msg \in {"keep", "authok", "request"}
          /\ srvQueue[i].kind = "switch" => srvQueue[i].next = "user" /\ RouteWritten
          /\ srvQueue[i].kind = "packet" => srvQueue[i].next = "none"
    /\ \A i \in 1..Len(srvWire) :
          /\ srvWire[i].msg \in {"keep", "authok", "request", "junk"}
          /\ "srv" \in trouble \/ srvWire[i].msg # "junk"
          /\ overtook \/ srvWire[i].pool = (IF RouteWritten THEN "user" ELSE "epoch")
    /\ heard \/ Len(srvQueue) + Len(srvWire) <= (IF authed THEN 1 ELSE 0)
    /\ heard /\ ~RouteRead => Len(srvQueue) = 0 /\ Len(srvWire) = 0

DiallerUndisturbed == upInvalid => overtook \/ "srv" \in trouble

\* Nothing outside has touched what the server reads.
Sound == trouble \cap {"up", "clock", "revoke"} = {}

\* A session that nothing disturbs: every packet under way has the pool that
\* the server expects when it comes to it.
UpWireSound ==
    /\ ~srvInvalid /\ allowed
    /\ sentStamp /\ ~authed => Len(upWire) > 0 /\ upWire[1].msg = "stamp"
    /\ authed <=> srvRecv # "none"
    /\ handler = "switch" => authed
    /\ RouteWritten => RouteRead \/ \E j \in 1..Len(upWire) : upWire[j].msg = "route"
    /\ \A i \in 1..Len(upWire) :
          /\ upWire[i].msg \notin {"junk", "drifted"}
          /\ upWire[i].pool = "user" <=>
                RouteRead \/ \E j \in 1..i - 1 : upWire[j].msg = "route"

SoundSession == Sound => UpWireSound

SessInv ==
    /\ SessTyped /\ UpQueue /\ UpPools /\ UpWire /\ SrvPools /\ SrvSends
    /\ DiallerUndisturbed /\ SoundSession

\* What the loop's place may become without the final fragment being queued.
PhaseMoves ==
    \/ phase' = phase
    \/ phase # "serving" /\ phase' \in {"probe", "waitAuth", "left"}
    \/ phase # "serving" /\ phase' = "update" /\ heard

\* What is left of a sequence without its head.
LEMMA Shift ==
    ASSUME NEW S, NEW s \in Seq(S), s # <<>>
    PROVE  /\ Tail(s) \in Seq(S) /\ Len(Tail(s)) = Len(s) - 1 /\ Len(s) \in Nat /\ Len(s) > 0
           /\ \A i \in 1..Len(s) - 1 : Tail(s)[i] = s[i + 1]
           /\ Head(s) = s[1] /\ s[1] \in S
  OBVIOUS

\* A sequence with one more element.
LEMMA Grow ==
    ASSUME NEW S, NEW s \in Seq(S), NEW x \in S
    PROVE  /\ Append(s, x) \in Seq(S) /\ Len(Append(s, x)) = Len(s) + 1 /\ Len(s) \in Nat
           /\ \A i \in 1..Len(s) : Append(s, x)[i] = s[i]
           /\ Append(s, x)[Len(s) + 1] = x
  OBVIOUS

\* The types of the two ends, one by one.
LEMMA Parts ==
    ASSUME SessTyped
    PROVE  /\ upQueue \in Seq(WriteRequest) /\ srvQueue \in Seq(WriteRequest)
           /\ upWire \in Seq(WirePacket) /\ srvWire \in Seq(WirePacket)
           /\ upSend \in Pool /\ srvSend \in Pool /\ upRecv \in Pool /\ srvRecv \in Pool
           /\ upInvalid \in BOOLEAN /\ srvInvalid \in BOOLEAN /\ srvClosed \in BOOLEAN
           /\ srvData \in BOOLEAN
  BY Zenon DEF SessTyped, End, upQueue, srvQueue, upWire, srvWire, upSend, srvSend, upRecv, srvRecv,
         upInvalid, srvInvalid, srvClosed, srvData

\* There are two ends.
LEMMA Peers == Peer("up") = "srv" /\ Peer("srv") = "up"
  BY Zenon DEF Peer, End

-----------------------------------------------------------------------------
(* The upstream's queue *)

\* Steps that leave the queue alone.
LEMMA UpQueueKept ==
    ASSUME UpQueue, UNCHANGED <<upQueue, switching, upRecv>>, PhaseMoves
    PROVE  UpQueue'
  BY DEF UpQueue, RouteWritten, PhaseMoves

\* A packet is queued behind the others.
LEMMA UpQueueGrows ==
    ASSUME UpQueue, upQueue \in Seq(WriteRequest), UNCHANGED <<switching, upRecv>>,
           NEW r \in WriteRequest, upQueue' = Append(upQueue, r), r.kind = "packet",
           r.msg \in {"keep", "refresh", "fragment", "route", "response"},
           r.next # "none" <=> r.msg = "route",
           IF r.msg = "route" THEN phase # "serving" /\ phase' = "serving" /\ ~RouteWritten
                              ELSE PhaseMoves,
           r.msg = "refresh" => phase = "serving"
    PROVE  UpQueue'
  <1>1. /\ Len(upQueue') = Len(upQueue) + 1 /\ Len(upQueue) \in Nat
        /\ \A i \in 1..Len(upQueue) : upQueue'[i] = upQueue[i]
        /\ upQueue'[Len(upQueue) + 1] = r
    BY Grow
  <1> QED
    BY <1>1 DEF UpQueue, RouteWritten, PhaseMoves

\* The writer takes the first packet; behind the final fragment it has pools to
\* store.
LEMMA UpQueueShrinks ==
    ASSUME UpQueue, upQueue \in Seq(WriteRequest), upQueue # <<>>, UNCHANGED <<phase, upRecv>>,
           upQueue' = Tail(upQueue),
           upQueue[1].next # "none" => switching' = TRUE,
           upQueue[1].next = "none" => switching' = switching
    PROVE  UpQueue'
  <1>1. /\ Len(upQueue') = Len(upQueue) - 1 /\ Len(upQueue) \in Nat /\ Len(upQueue) > 0
        /\ \A i \in 1..Len(upQueue) - 1 : upQueue'[i] = upQueue[i + 1]
    BY Shift, Zenon
  <1>2. CASE upQueue[1].msg = "route"
    <2>1. switching' = TRUE
      BY <1>1, <1>2 DEF UpQueue
    <2>2. \A i \in 1..Len(upQueue') : upQueue'[i].msg # "route"
      BY <1>1, <1>2 DEF UpQueue
    <2> QED
      BY <1>1, <2>1, <2>2 DEF UpQueue, RouteWritten
  <1>3. CASE upQueue[1].msg # "route"
    <2>0. upQueue[1].next = "none"
      BY <1>1, <1>3 DEF UpQueue
    <2>1. switching' = switching
      BY <2>0, Zenon
    <2>2. \A i \in 1..Len(upQueue) - 1 :
             (\E j \in 1..i : upQueue[j].msg = "route") => \E j \in 1..i - 1 : upQueue'[j].msg = "route"
      <3> SUFFICES ASSUME NEW i \in 1..Len(upQueue) - 1, NEW j \in 1..i, upQueue[j].msg = "route"
                   PROVE  \E k \in 1..i - 1 : upQueue'[k].msg = "route"
        BY Zenon
      <3>1. j - 1 \in 1..i - 1 /\ upQueue'[j - 1] = upQueue[j]
        BY <1>1, <1>3
      <3> QED
        BY <3>1, Zenon
    <2>3. ASSUME NEW i \in 1..Len(upQueue')
          PROVE  /\ upQueue'[i].msg = "refresh" =>
                       RouteWritten' \/ \E j \in 1..i - 1 : upQueue'[j].msg = "route"
                 /\ upQueue'[i].msg = "route" => \A j \in 1..i - 1 : upQueue'[j].msg # "route"
                 /\ upQueue'[i].msg = "route" => ~RouteWritten'
      <3>1. i \in 1..Len(upQueue) - 1 /\ i + 1 \in 1..Len(upQueue) /\ upQueue'[i] = upQueue[i + 1]
        BY <1>1
      <3>a. upRecv' = upRecv
        BY Zenon
      <3>2. RouteWritten' <=> RouteWritten
        BY <2>1, <3>a, Zenon DEF RouteWritten
      <3>3. upQueue[i + 1].msg = "route" => ~RouteWritten /\ \A j \in 1..i - 1 : upQueue'[j].msg # "route"
        BY <1>1, <3>1 DEF UpQueue
      <3>4. upQueue[i + 1].msg = "refresh" => RouteWritten \/ \E j \in 1..i : upQueue[j].msg = "route"
        BY <3>1 DEF UpQueue
      <3> QED
        BY <2>2, <3>1, <3>2, <3>3, <3>4, Zenon
    <2>4. phase = "serving" =>
             RouteWritten' \/ \E j \in 1..Len(upQueue') : upQueue'[j].msg = "route"
      <3> SUFFICES ASSUME NEW j \in 1..Len(upQueue), upQueue[j].msg = "route"
                   PROVE  \E k \in 1..Len(upQueue') : upQueue'[k].msg = "route"
        BY <2>1, Zenon DEF UpQueue, RouteWritten
      <3>1. j - 1 \in 1..Len(upQueue') /\ upQueue'[j - 1] = upQueue[j]
        BY <1>1, <1>3
      <3> QED
        BY <3>1, Zenon
    <2> QED
      BY <1>1, <2>3, <2>4 DEF UpQueue
  <1> QED
    BY <1>2, <1>3, Zenon

-----------------------------------------------------------------------------
(* Steps that leave the wires and the queues alone *)

\* Steps that leave the upstream's writer and its loop alone.
LEMMA UpSame ==
    ASSUME UpQueue, UpPools,
           UNCHANGED <<upQueue, phase, switching, upSend, upRecv, heard, sentStamp>>
    PROVE  UpQueue' /\ UpPools'
  <1>1. RouteWritten' <=> RouteWritten
    BY Zenon DEF RouteWritten
  <1>2. UpQueue'
    BY UpQueueKept, Zenon DEF PhaseMoves
  <1>3. UpPools'
    BY <1>1, Zenon DEF UpPools
  <1> QED
    BY <1>2, <1>3, Zenon

\* Steps that leave alone what the upstream has under way.
LEMMA UpWireSame ==
    ASSUME UpWire, UNCHANGED <<upWire, authed, srvRecv, sentStamp>>, RouteWritten => RouteWritten'
    PROVE  UpWire'
  BY Zenon DEF UpWire

\* What the invariant speaks of, without the loop's place and the closed flag.
sessParts ==
    <<upQueue, srvQueue, upWire, srvWire, upSend, srvSend, upRecv, srvRecv, upInvalid, srvInvalid,
      srvData, switching, authed, sentStamp, heard, allowed, registered, handler, overtook, trouble>>

\* Closing an end, and the steps of the loop that send nothing.
LEMMA CloseKeeps ==
    ASSUME SessInv, SessTyped', UNCHANGED sessParts, srvClosed => srvClosed', PhaseMoves
    PROVE  SessInv'
  <1> USE DEF sessParts
  <1>1. UpQueue'
    BY UpQueueKept, Zenon DEF SessInv
  <1>2. UpPools'
    BY Zenon DEF SessInv, UpPools, UpQueue, RouteWritten, PhaseMoves
  <1>3. UpWire'
    BY Zenon DEF SessInv, UpWire, RouteWritten
  <1>4. SrvPools'
    BY Zenon DEF SessInv, SrvPools, RouteWritten, RouteRead
  <1>5. SrvSends'
    BY Zenon DEF SessInv, SrvSends, RouteWritten, RouteRead
  <1>6. DiallerUndisturbed' /\ SoundSession'
    BY Zenon DEF SessInv, DiallerUndisturbed, SoundSession, Sound, UpWireSound, RouteWritten, RouteRead
  <1> QED
    BY <1>1, <1>2, <1>3, <1>4, <1>5, <1>6, Zenon DEF SessInv

\* The upstream queues a packet.
LEMMA UpEnqueues ==
    ASSUME SessInv, SessTyped',
           UNCHANGED <<srvQueue, upWire, srvWire, upSend, srvSend, upRecv, srvRecv, upInvalid,
                       srvInvalid, srvClosed, srvData, switching, authed, sentStamp, heard, allowed,
                       registered, handler, overtook, trouble>>,
           NEW r \in WriteRequest, upQueue' = Append(upQueue, r), r.kind = "packet",
           r.msg \in {"keep", "refresh", "fragment", "route"},
           r.next # "none" <=> r.msg = "route",
           IF r.msg = "route" THEN phase = "update" /\ phase' = "serving" ELSE PhaseMoves,
           r.msg = "refresh" => phase = "serving"
    PROVE  SessInv'
  <1>1. UpQueue'
    BY UpQueueGrows, Parts, Zenon DEF SessInv, UpPools
  <1>2. UpPools'
    BY Zenon DEF SessInv, UpPools, UpQueue, RouteWritten, PhaseMoves
  <1>3. UpWire'
    BY DEF SessInv, UpWire, RouteWritten
  <1>4. SrvPools'
    BY Zenon DEF SessInv, SrvPools, RouteWritten, RouteRead
  <1>5. SrvSends'
    BY Zenon DEF SessInv, SrvSends, RouteWritten, RouteRead
  <1>6. DiallerUndisturbed' /\ SoundSession'
    BY Zenon DEF SessInv, DiallerUndisturbed, SoundSession, Sound, UpWireSound, RouteWritten, RouteRead
  <1> QED
    BY <1>1, <1>2, <1>3, <1>4, <1>5, <1>6, Zenon DEF SessInv

\* The server queues a packet for the upstream, as it does only once it has read
\* the final fragment.
LEMMA SrvEnqueues ==
    ASSUME SessInv, SessTyped', RouteRead,
           UNCHANGED <<upQueue, upWire, srvWire, upSend, srvSend, upRecv, srvRecv, upInvalid, phase,
                       srvInvalid, srvClosed, srvData, switching, authed, sentStamp, heard, allowed,
                       registered, handler, overtook, trouble>>,
           NEW m \in {"keep", "request"}, srvQueue' = Append(srvQueue, PacketRequest(m))
    PROVE  SessInv'
  <1>1. UpQueue'
    BY UpQueueKept, Zenon DEF SessInv, PhaseMoves
  <1>2. UpPools'
    BY Zenon DEF SessInv, UpPools, RouteWritten
  <1>3. UpWire'
    BY Zenon DEF SessInv, UpWire, RouteWritten
  <1>q. PICK r \in WriteRequest : r = PacketRequest(m)
    BY Zenon DEF PacketRequest, WriteRequest, Message, Pool
  <1>r. r.kind = "packet" /\ r.msg = m /\ r.next = "none"
    BY <1>q, Zenon DEF PacketRequest
  <1>s. /\ Len(srvQueue') = Len(srvQueue) + 1 /\ Len(srvQueue) \in Nat
        /\ \A i \in 1..Len(srvQueue) : srvQueue'[i] = srvQueue[i]
        /\ srvQueue'[Len(srvQueue) + 1] = r
    BY <1>q, Grow, Parts DEF SessInv
  <1>4. SrvPools'
    BY <1>s DEF SessInv, SrvPools, RouteWritten, RouteRead
  <1>5. SrvSends'
    BY <1>r, <1>s DEF SessInv, SrvSends, SrvPools, UpPools, RouteWritten, RouteRead
  <1>6. DiallerUndisturbed' /\ SoundSession'
    BY Zenon DEF SessInv, DiallerUndisturbed, SoundSession, Sound, UpWireSound, RouteWritten, RouteRead
  <1> QED
    BY <1>1, <1>2, <1>3, <1>4, <1>5, <1>6, Zenon DEF SessInv

-----------------------------------------------------------------------------
(* The writers *)

\* The upstream's writer sends a packet, the first one behind the timestamp.
LEMMA UpWrites ==
    ASSUME SessInv, WriterSends("up")
    PROVE  SessInv'
  <1> DEFINE p == [msg |-> upQueue[1].msg, pool |-> upSend]
  <1>t. SessTyped /\ UpQueue /\ UpPools /\ UpWire /\ SrvPools /\ SrvSends /\ SoundSession
        /\ DiallerUndisturbed
    BY Zenon DEF SessInv
  <1>0. /\ queue["up"] # <<>> /\ queue["up"] = upQueue /\ upQueue \in Seq(WriteRequest)
        /\ wire["up"] = upWire /\ upWire \in Seq(WirePacket)
    BY <1>t, Parts, Zenon DEF WriterSends, upQueue, upWire
  <1>1. /\ Head(upQueue) = upQueue[1] /\ upQueue[1] \in WriteRequest
    BY <1>0, Shift, Zenon
  <1>2. /\ queue' = [queue EXCEPT !["up"] = Tail(@)]
        /\ switching = FALSE /\ sentStamp' = TRUE
        /\ upQueue[1].next # "none" => switching' = TRUE
        /\ upQueue[1].next = "none" => switching' = switching
        /\ UNCHANGED <<closed, invalid, sendPool, recvPool, authed, heard, hasData,
                       phase, allowed, registered, handler>>
    BY <1>t, <1>0, <1>1, Zenon DEF WriterSends, WrittenLate, SessTyped, upQueue
  <1>o. overtook' = overtook
    <2>1. overtook' = (overtook \/ WrittenLate("up"))
      BY Zenon DEF WriterSends
    <2>2. WrittenLate("up") = FALSE
      BY Zenon DEF WrittenLate
    <2>3. overtook = TRUE \/ overtook = FALSE
      BY <1>t, Zenon DEF SessTyped
    <2> QED
      BY <2>1, <2>2, <2>3, Zenon
  <1>3. PICK stamp \in {"stamp", "drifted"} :
          /\ stamp = "drifted" => ~sentStamp
          /\ trouble' = trouble \cup (IF stamp = "drifted" THEN {"clock"} ELSE {})
          /\ wire' = [wire EXCEPT !["up"] =
                Append(IF ~sentStamp THEN Append(@, [msg |-> stamp, pool |-> upSend]) ELSE @, p)]
    BY <1>0, <1>1, Zenon DEF WriterSends, Wired, upSend, upQueue
  <1>4. /\ upQueue' = Tail(upQueue)
        /\ upWire' = Append(IF ~sentStamp THEN Append(upWire, [msg |-> stamp, pool |-> upSend])
                                          ELSE upWire, p)
        /\ UNCHANGED <<srvQueue, srvWire, upSend, srvSend, upRecv, srvRecv, upInvalid, srvInvalid,
                       srvClosed, srvData>>
    BY <1>t, <1>2, <1>3, Zenon DEF SessTyped, End, upQueue, srvQueue, upWire, srvWire, upSend, srvSend,
          upRecv, srvRecv, upInvalid, srvInvalid, srvClosed, srvData
  <1>5. upSend \in {"epoch", "user"} /\ (upSend = "user" <=> RouteWritten)
    BY <1>t, <1>2, Zenon DEF UpPools, RouteWritten
  <1>6. /\ upQueue[1].msg \in {"keep", "refresh", "fragment", "route", "response"}
        /\ upQueue[1].msg = "route" => ~RouteWritten /\ RouteWritten' /\ phase = "serving"
        /\ upQueue[1].msg # "route" => (RouteWritten' <=> RouteWritten) /\ switching' = FALSE
        /\ upQueue[1].msg = "refresh" => RouteWritten
    <2>1. 1 \in 1..Len(upQueue)
      BY <1>0, Shift
    <2>2. /\ upQueue[1].msg \in {"keep", "refresh", "fragment", "route", "response"}
          /\ upQueue[1].next # "none" <=> upQueue[1].msg = "route"
          /\ upQueue[1].msg = "route" => ~RouteWritten /\ phase = "serving"
          /\ upQueue[1].msg = "refresh" => RouteWritten
      BY <2>1, <1>t DEF UpQueue
    <2> QED
      BY <2>2, <1>2, <1>4, Zenon DEF RouteWritten
  <1>7. p \in WirePacket /\ [msg |-> stamp, pool |-> upSend] \in WirePacket
    BY <1>5, <1>6, Zenon DEF WirePacket, Message, Pool
  <1>8. UpQueue'
    BY <1>t, <1>0, <1>2, <1>4, UpQueueShrinks, Zenon
  <1>9. UpPools'
    BY <1>t, <1>2, <1>4, <1>6, Zenon DEF UpPools, RouteWritten
  <1>10. SrvPools'
    BY <1>t, <1>2, <1>4, <1>6, Zenon DEF SrvPools, RouteRead
  <1>q. queue' \in [End -> Seq(WriteRequest)]
    BY <1>t, <1>0, <1>2, Shift, Zenon DEF SessTyped, End
  <1>11. SrvSends'
    <2>1. upQueue[1].msg = "route" => Len(srvQueue) = 0 /\ Len(srvWire) = 0
      BY <1>t, <1>6, Zenon DEF UpPools, SrvPools, SrvSends
    <2>2. RouteRead' <=> RouteRead
      BY <1>2, <1>4, Zenon DEF RouteRead
    <2>3. "srv" \in trouble => "srv" \in trouble'
      BY <1>3, Zenon
    <2>4. CASE upQueue[1].msg = "route"
      BY <1>t, <1>o, <1>2, <1>4, <2>1, <2>2, <2>4 DEF SrvSends
    <2>5. CASE upQueue[1].msg # "route"
      BY <1>t, <1>o, <1>2, <1>4, <1>6, <2>2, <2>3, <2>5, Zenon DEF SrvSends
    <2> QED
      BY <2>4, <2>5, Zenon
  <1>12. DiallerUndisturbed'
    BY <1>t, <1>o, <1>2, <1>3, <1>4, Zenon DEF DiallerUndisturbed
  <1>13. CASE sentStamp
    <2>1. trouble' = trouble /\ upWire' = Append(upWire, p)
      BY <1>0, <1>3, <1>4, <1>7, <1>13, Zenon
    <2>2. /\ upWire' \in Seq(WirePacket)
          /\ Len(upWire') = Len(upWire) + 1 /\ Len(upWire) \in Nat
          /\ \A i \in 1..Len(upWire) : upWire'[i] = upWire[i]
          /\ upWire'[Len(upWire) + 1] = p
      BY <1>0, <1>7, <2>1, Grow
    <2>3. p.msg = upQueue[1].msg /\ p.pool = upSend
      BY Zenon
    <2> HIDE DEF p
    <2>4. UpWire'
      <3>1. RouteWritten => RouteWritten'
        BY <1>6, Zenon
      <3>2. authed' = authed /\ sentStamp' = TRUE /\ srvRecv' = srvRecv
        BY <1>2, <1>4, Zenon
      <3>3. \A i \in 1..Len(upWire') : i \in 1..Len(upWire) \/ i = Len(upWire) + 1
        BY <2>2, SMTT(30)
      <3>4. ASSUME NEW i \in 1..Len(upWire')
            PROVE  /\ upWire'[i].msg \in {"stamp", "drifted", "keep", "refresh", "fragment", "route",
                                         "response", "junk"}
                   /\ upWire'[i].pool \in {"epoch", "user"}
                   /\ upWire'[i].msg = "refresh" => upWire'[i].pool = "user"
                   /\ upWire'[i].msg = "route" => RouteWritten' /\ upWire'[i].pool = "epoch"
                   /\ upWire'[i].pool = "user" => RouteWritten'
                   /\ upWire'[i].msg \in {"stamp", "drifted"} => i = 1 /\ ~authed' /\ srvRecv' = "none"
        <4>1. CASE i \in 1..Len(upWire)
          BY <1>t, <2>2, <3>1, <3>2, <4>1, Zenon DEF UpWire
        <4>2. CASE i = Len(upWire) + 1
          BY <1>5, <1>6, <2>2, <2>3, <3>1, <4>2, Zenon
        <4> QED
          BY <3>3, <3>4, <4>1, <4>2, Zenon
      <3> QED
        BY <3>2, <3>4, Zenon DEF UpWire
    <2>5. SoundSession'
      <3>1. SUFFICES ASSUME Sound PROVE UpWireSound'
        BY <2>1, Zenon DEF SoundSession, Sound
      <3>2. UpWireSound
        BY <1>t, <3>1, Zenon DEF SoundSession
      <3>3. RouteRead' <=> RouteRead
        BY <1>2, <1>4, Zenon DEF RouteRead
      <3>4. /\ ~srvInvalid' /\ allowed' /\ (authed' <=> srvRecv' # "none")
            /\ handler' = "switch" => authed'
        BY <1>2, <1>4, <3>2, Zenon DEF UpWireSound
      <3>5. ~authed' => Len(upWire') > 0 /\ upWire'[1].msg = "stamp"
        <4>1. ~authed => Len(upWire) > 0 /\ upWire[1].msg = "stamp"
          BY <1>13, <3>2, Zenon DEF UpWireSound
        <4>2. Len(upWire) > 0 => 1 \in 1..Len(upWire) /\ Len(upWire') > 0
          BY <2>2
        <4> QED
          BY <1>2, <2>2, <4>1, <4>2, Zenon
      <3>6. /\ \A i \in 1..Len(upWire') : i \in 1..Len(upWire) \/ i = Len(upWire) + 1
            /\ 1..Len(upWire) \subseteq 1..Len(upWire') /\ Len(upWire) + 1 \in 1..Len(upWire')
            /\ \A i \in 1..Len(upWire) : \A j \in 1..i - 1 : j \in 1..Len(upWire)
            /\ (Len(upWire) + 1) - 1 = Len(upWire)
        BY <2>2
      <3>7. RouteWritten' => RouteRead' \/ \E j \in 1..Len(upWire') : upWire'[j].msg = "route"
        <4>1. CASE upQueue[1].msg = "route"
          BY <2>2, <2>3, <3>6, <4>1, Zenon
        <4>2. CASE upQueue[1].msg # "route"
          <5>1. RouteWritten' => RouteRead' \/ \E j \in 1..Len(upWire) : upWire[j].msg = "route"
            BY <1>6, <3>2, <3>3, <4>2, Zenon DEF UpWireSound
          <5> QED
            BY <2>2, <3>6, <5>1, Zenon
        <4> QED
          BY <4>1, <4>2, Zenon
      <3>8. ASSUME NEW i \in 1..Len(upWire')
            PROVE  /\ upWire'[i].msg \notin {"junk", "drifted"}
                   /\ upWire'[i].pool = "user" <=>
                         RouteRead' \/ \E j \in 1..i - 1 : upWire'[j].msg = "route"
        <4>1. CASE i \in 1..Len(upWire)
          <5>1. /\ upWire[i].msg \notin {"junk", "drifted"}
                /\ upWire[i].pool = "user" <=>
                      RouteRead \/ \E j \in 1..i - 1 : upWire[j].msg = "route"
            BY <3>2, <4>1, Zenon DEF UpWireSound
          <5>2. upWire'[i] = upWire[i] /\ \A j \in 1..i - 1 : upWire'[j] = upWire[j]
            BY <2>2, <3>6, <4>1, Zenon
          <5> QED
            BY <3>3, <5>1, <5>2, Zenon
        <4>2. CASE i = Len(upWire) + 1
          <5>1. RouteWritten <=> RouteRead \/ \E j \in 1..Len(upWire) : upWire[j].msg = "route"
            BY <1>t, <3>2, Zenon DEF UpWireSound, UpWire, SrvPools
          <5>2. (\E j \in 1..Len(upWire) : upWire[j].msg = "route") <=>
                   \E j \in 1..i - 1 : upWire'[j].msg = "route"
            BY <2>2, <3>6, <4>2, Zenon
          <5>3. upWire'[i].msg = upQueue[1].msg /\ upWire'[i].pool = upSend
            BY <2>2, <2>3, <4>2, Zenon
          <5> QED
            BY <1>5, <1>6, <3>3, <5>1, <5>2, <5>3, Zenon
        <4> QED
          BY <3>6, <3>8, <4>1, <4>2, Zenon
      <3> QED
        BY <3>4, <3>5, <3>7, <3>8, Zenon DEF UpWireSound
    <2>6. SessTyped'
      <3>1. wire' \in [End -> Seq(WirePacket)]
        BY <1>t, <1>0, <1>3, <1>4, <2>2, Zenon DEF SessTyped, End, upWire
      <3> QED
        BY <1>t, <1>o, <1>q, <1>2, <3>1, ZenonT(40) DEF SessTyped
    <2> QED
      BY <1>8, <1>9, <1>10, <1>11, <1>12, <2>4, <2>5, <2>6, Zenon DEF SessInv
  <1>14. CASE ~sentStamp
    <2> DEFINE st == [msg |-> stamp, pool |-> upSend]
    <2>1. upWire = <<>> /\ ~authed /\ srvRecv = "none" /\ ~RouteWritten
      BY <1>t, <1>14, Zenon DEF UpWire, UpPools
    <2>2. upWire' = Append(Append(upWire, st), p) /\ Len(upWire) = 0
      BY <1>4, <1>14, <2>1, Zenon
    <2>3. /\ upWire' \in Seq(WirePacket) /\ Len(upWire') = 2 /\ upWire'[1] = st /\ upWire'[2] = p
      BY <1>0, <1>7, <2>2
    <2>4. p.msg = upQueue[1].msg /\ p.pool = upSend /\ st.msg = stamp /\ st.pool = upSend
      BY Zenon
    <2> HIDE DEF p, st
    <2>i. \A i \in 1..Len(upWire') : i = 1 \/ i = 2
      BY <2>3
    <2>5. UpWire'
      <3>1. ASSUME NEW i \in 1..Len(upWire')
            PROVE  /\ upWire'[i].msg \in {"stamp", "drifted", "keep", "refresh", "fragment", "route",
                                         "response", "junk"}
                   /\ upWire'[i].pool \in {"epoch", "user"}
                   /\ upWire'[i].msg = "refresh" => upWire'[i].pool = "user"
                   /\ upWire'[i].msg = "route" => RouteWritten' /\ upWire'[i].pool = "epoch"
                   /\ upWire'[i].pool = "user" => RouteWritten'
                   /\ upWire'[i].msg \in {"stamp", "drifted"} => i = 1 /\ ~authed' /\ srvRecv' = "none"
        <4>1. CASE i = 1
          BY <1>2, <1>4, <1>5, <2>1, <2>3, <2>4, <4>1, Zenon
        <4>2. CASE i = 2
          BY <1>5, <1>6, <2>1, <2>3, <2>4, <4>2, Zenon
        <4> QED
          BY <2>i, <3>1, <4>1, <4>2, Zenon
      <3> QED
        BY <1>2, <3>1, Zenon DEF UpWire
    <2>6. SoundSession'
      <3>1. SUFFICES ASSUME Sound' PROVE UpWireSound'
        BY Zenon DEF SoundSession
      <3>2. Sound /\ stamp = "stamp"
        BY <1>3, <3>1, Zenon DEF Sound
      <3>3. UpWireSound
        BY <1>t, <3>2, Zenon DEF SoundSession
      <3>4. (RouteRead' <=> RouteRead) /\ ~RouteRead
        BY <1>t, <1>2, <1>4, <2>1, Zenon DEF RouteRead, SrvPools
      <3> QED
        BY <1>t, <1>2, <1>4, <1>5, <1>6, <2>1, <2>3, <2>4, <3>2, <3>3, <3>4 DEF UpWireSound
    <2>7. SessTyped'
      <3>1. wire' \in [End -> Seq(WirePacket)]
        BY <1>t, <1>0, <1>3, <1>4, <2>3, Zenon DEF SessTyped, End, upWire
      <3> QED
        BY <1>t, <1>o, <1>q, <1>2, <3>1, Zenon DEF SessTyped
    <2> QED
      BY <1>8, <1>9, <1>10, <1>11, <1>12, <2>5, <2>6, <2>7, Zenon DEF SessInv
  <1> QED
    BY <1>13, <1>14, Zenon

\* The server writes with the pool the upstream will expect, or one of the two
\* races has happened.
LEMMA SrvWrites ==
    ASSUME SessInv, WriterSends("srv")
    PROVE  SessInv'
  <1> DEFINE p == [msg |-> srvQueue[1].msg, pool |-> srvSend]
  <1>t. SessTyped /\ UpQueue /\ UpPools /\ UpWire /\ SrvPools /\ SrvSends /\ SoundSession
        /\ DiallerUndisturbed
    BY Zenon DEF SessInv
  <1>0. /\ queue["srv"] # <<>> /\ queue["srv"] = srvQueue /\ srvQueue \in Seq(WriteRequest)
        /\ wire["srv"] = srvWire /\ srvWire \in Seq(WirePacket)
        /\ closed["srv"] = FALSE /\ closed["srv"] = srvClosed
    BY <1>t, Parts, Zenon DEF WriterSends, srvQueue, srvWire, srvClosed
  <1>1. /\ Head(srvQueue) = srvQueue[1] /\ srvQueue[1] \in WriteRequest /\ srvQueue[1].kind = "packet"
        /\ 1 \in 1..Len(srvQueue) /\ Len(srvQueue) \in Nat
    BY <1>0, Shift DEF WriterSends
  <1>2. srvQueue[1].next = "none" /\ srvQueue[1].msg \in {"keep", "authok", "request"}
    BY <1>1, <1>t, Zenon DEF SrvSends
  <1>3. /\ queue' = [queue EXCEPT !["srv"] = Tail(@)]
        /\ wire' = [wire EXCEPT !["srv"] = Append(@, p)]
        /\ UNCHANGED <<closed, invalid, sendPool, recvPool, authed, heard, hasData, trouble,
                       phase, allowed, registered, handler>>
    BY <1>0, <1>1, Zenon DEF WriterSends, Wired, srvSend, srvQueue
  <1>4. switching' = switching /\ sentStamp' = sentStamp
    <2>1. switching' = (switching \/ srvQueue[1].next # "none") /\ sentStamp' = (sentStamp \/ "srv" = "up")
      BY <1>0, <1>1, Zenon DEF WriterSends, srvQueue
    <2>2. (switching = TRUE \/ switching = FALSE) /\ (sentStamp = TRUE \/ sentStamp = FALSE)
      BY <1>t, Zenon DEF SessTyped
    <2> QED
      BY <1>2, <2>1, <2>2, Zenon
  <1>5. /\ srvQueue' = Tail(srvQueue) /\ srvWire' = Append(srvWire, p)
        /\ UNCHANGED <<upQueue, upWire, upSend, srvSend, upRecv, srvRecv, upInvalid, srvInvalid,
                       srvClosed, srvData>>
    BY <1>t, <1>3, Zenon DEF SessTyped, End, upQueue, srvQueue, upWire, srvWire, upSend, srvSend,
          upRecv, srvRecv, upInvalid, srvInvalid, srvClosed, srvData
  <1>6. authed /\ srvSend \in {"epoch", "user"}
    <2>1. authed
      BY <1>t, <1>0, <1>1 DEF SrvPools, SrvSends, SessTyped
    <2> QED
      BY <2>1, <1>t, Parts, Zenon DEF SrvPools, Pool
  <1>7. p \in WirePacket
    BY <1>2, <1>6, Zenon DEF WirePacket, Message, Pool
  <1>8. UNCHANGED <<switching, upRecv, handler, srvRecv>>
    BY <1>3, <1>4, <1>5, Zenon
  <1>9. (RouteWritten' <=> RouteWritten) /\ (RouteRead' <=> RouteRead)
    BY <1>8, Zenon DEF RouteWritten, RouteRead
  <1>10. overtook' \in BOOLEAN /\ (overtook => overtook')
    BY <1>t, Zenon DEF WriterSends, SessTyped
  <1>11. overtook' \/ srvSend = (IF RouteWritten THEN "user" ELSE "epoch")
    <2>1. SUFFICES ASSUME RouteWritten, srvSend = "epoch" PROVE overtook'
      BY <1>t, <1>6, Zenon DEF SrvPools
    <2>2. heard /\ RouteRead
      BY <1>t, <1>1, <2>1 DEF UpPools, SrvSends
    <2>3. handler = "switch" \/ \E i \in 1..Len(srvQueue) : srvQueue[i].kind = "switch"
      BY <1>t, <1>0, <2>1, <2>2, Zenon DEF SrvPools, RouteRead
    <2>4. WrittenLate("srv")
      BY <2>1, <2>3, Zenon DEF WrittenLate, RouteWritten, srvSend, srvQueue, upRecv
    <2> QED
      BY <2>4, Zenon DEF WriterSends
  <1>12. /\ Tail(srvQueue) \in Seq(WriteRequest) /\ Len(srvQueue') = Len(srvQueue) - 1
         /\ \A i \in 1..Len(srvQueue) - 1 : srvQueue'[i] = srvQueue[i + 1]
    BY <1>0, <1>5, Shift, Zenon
  <1>13. /\ srvWire' \in Seq(WirePacket) /\ Len(srvWire') = Len(srvWire) + 1 /\ Len(srvWire) \in Nat
         /\ \A i \in 1..Len(srvWire) : srvWire'[i] = srvWire[i]
         /\ srvWire'[Len(srvWire) + 1] = p
    BY <1>0, <1>5, <1>7, Grow
  <1>14. p.msg = srvQueue[1].msg /\ p.pool = srvSend
    BY Zenon
  <1>15. SessTyped'
    <2>1. queue' \in [End -> Seq(WriteRequest)] /\ wire' \in [End -> Seq(WirePacket)]
      BY <1>t, <1>0, <1>3, <1>5, <1>12, <1>13, Zenon DEF SessTyped, End, srvWire
    <2> QED
      BY <1>t, <1>3, <1>4, <1>10, <2>1, Zenon DEF SessTyped
  <1> HIDE DEF p
  <1>16. UpQueue' /\ UpPools' /\ UpWire'
    BY <1>t, <1>3, <1>4, <1>5, <1>9, UpSame, UpWireSame, Zenon
  <1>17. SrvPools'
    <2>1. (\E i \in 1..Len(srvQueue) : srvQueue[i].kind = "switch") =>
             \E i \in 1..Len(srvQueue') : srvQueue'[i].kind = "switch"
      <3> SUFFICES ASSUME NEW i \in 1..Len(srvQueue), srvQueue[i].kind = "switch"
                   PROVE  \E j \in 1..Len(srvQueue') : srvQueue'[j].kind = "switch"
        BY Zenon
      <3>1. i - 1 \in 1..Len(srvQueue') /\ srvQueue'[i - 1] = srvQueue[i]
        BY <1>1, <1>12
      <3> QED
        BY <3>1, Zenon
    <2> QED
      BY <1>t, <1>3, <1>5, <1>9, <2>1, Zenon DEF SrvPools
  <1>18. SrvSends'
    <2>1. \A i \in 1..Len(srvQueue') : i + 1 \in 1..Len(srvQueue) /\ srvQueue'[i] = srvQueue[i + 1]
      BY <1>1, <1>12
    <2>2. \A i \in 1..Len(srvWire') : i \in 1..Len(srvWire) \/ i = Len(srvWire) + 1
      BY <1>13
    <2>3. ASSUME NEW i \in 1..Len(srvWire')
          PROVE  /\ srvWire'[i].msg \in {"keep", "authok", "request", "junk"}
                 /\ "srv" \in trouble' \/ srvWire'[i].msg # "junk"
                 /\ overtook' \/ srvWire'[i].pool = (IF RouteWritten' THEN "user" ELSE "epoch")
      <3>1. CASE i \in 1..Len(srvWire)
        BY <1>t, <1>3, <1>9, <1>10, <1>13, <3>1, Zenon DEF SrvSends
      <3>2. CASE i = Len(srvWire) + 1
        BY <1>2, <1>3, <1>9, <1>11, <1>13, <1>14, <3>2, Zenon
      <3> QED
        BY <2>2, <2>3, <3>1, <3>2, Zenon
    <2>l. /\ heard \/ Len(srvQueue) + Len(srvWire) <= (IF authed THEN 1 ELSE 0)
          /\ heard /\ ~RouteRead => Len(srvQueue) = 0 /\ Len(srvWire) = 0
          /\ heard' = heard /\ authed' = authed
      BY <1>t, <1>3, Zenon DEF SrvSends
    <2>4. /\ heard' \/ Len(srvQueue') + Len(srvWire') <= (IF authed' THEN 1 ELSE 0)
          /\ heard' => RouteRead'
      <3>1. 1 \in 1..Len(srvQueue) /\ Len(srvQueue) \in Nat /\ Len(srvQueue') = Len(srvQueue) - 1
            /\ Len(srvWire') = Len(srvWire) + 1 /\ Len(srvWire) \in Nat
        BY <1>1, <1>12, <1>13, Zenon
      <3>2. Len(srvQueue') + Len(srvWire') = Len(srvQueue) + Len(srvWire) /\ Len(srvQueue) # 0
        BY <3>1
      <3> QED
        BY <1>9, <2>l, <3>2, Zenon
    <2>5. \A i \in 1..Len(srvQueue') :
             /\ srvQueue'[i].msg \in {"keep", "authok", "request"}
             /\ srvQueue'[i].kind = "switch" => srvQueue'[i].next = "user" /\ RouteWritten'
             /\ srvQueue'[i].kind = "packet" => srvQueue'[i].next = "none"
      BY <1>t, <1>9, <2>1, Zenon DEF SrvSends
    <2> QED
      BY <2>3, <2>4, <2>5, Zenon DEF SrvSends
  <1>19. DiallerUndisturbed' /\ SoundSession'
    BY <1>t, <1>3, <1>4, <1>5, <1>9, <1>10, Zenon DEF DiallerUndisturbed, SoundSession, Sound, UpWireSound
  <1> QED
    BY <1>15, <1>16, <1>17, <1>18, <1>19, Zenon DEF SessInv

\* The upstream's writer stores the new pools.
LEMMA UpStores ==
    ASSUME SessInv, WriterStoresPools
    PROVE  SessInv'
  <1>t. SessTyped /\ UpQueue /\ UpPools /\ UpWire /\ SrvPools /\ SrvSends /\ SoundSession
        /\ DiallerUndisturbed
    BY Zenon DEF SessInv
  <1>1. /\ UNCHANGED <<closed, invalid, queue, wire, authed, sentStamp, heard, hasData, phase, allowed,
                       registered, handler, overtook, trouble>>
        /\ switching /\ switching' = FALSE
        /\ sendPool' = [sendPool EXCEPT !["up"] = "user"]
        /\ recvPool' = [recvPool EXCEPT !["up"] = "user"]
    BY Zenon DEF WriterStoresPools
  <1>2. /\ upSend' = "user" /\ upRecv' = "user"
        /\ UNCHANGED <<upQueue, srvQueue, upWire, srvWire, srvSend, srvRecv, upInvalid, srvInvalid,
                       srvClosed, srvData>>
    BY <1>t, <1>1, Zenon DEF SessTyped, End, upQueue, srvQueue, upWire, srvWire, upSend, srvSend,
          upRecv, srvRecv, upInvalid, srvInvalid, srvClosed, srvData
  <1>3. RouteWritten /\ RouteWritten' /\ (RouteRead' <=> RouteRead)
    BY <1>1, <1>2, Zenon DEF RouteWritten, RouteRead
  <1>4. SessTyped'
    BY <1>t, <1>1, Zenon DEF SessTyped, Pool
  <1>5. UpQueue' /\ UpPools' /\ UpWire'
    <2>1. UpQueue' /\ UpPools'
      BY <1>t, <1>1, <1>2, <1>3, Zenon DEF UpQueue, UpPools
    <2>2. UpWire'
      BY <1>t, <1>1, <1>2, <1>3, UpWireSame, Zenon
    <2> QED
      BY <2>1, <2>2, Zenon
  <1>6. SrvPools' /\ SrvSends'
    BY <1>t, <1>1, <1>2, <1>3, Zenon DEF SrvPools, SrvSends
  <1>7. DiallerUndisturbed' /\ SoundSession'
    BY <1>t, <1>1, <1>2, <1>3, Zenon DEF DiallerUndisturbed, SoundSession, Sound, UpWireSound
  <1> QED
    BY <1>4, <1>5, <1>6, <1>7, Zenon DEF SessInv

\* The server's writer changes its sending pool.
LEMMA SrvSwitches ==
    ASSUME SessInv, WriterSwitches
    PROVE  SessInv'
  <1>t. SessTyped /\ UpQueue /\ UpPools /\ UpWire /\ SrvPools /\ SrvSends /\ SoundSession
        /\ DiallerUndisturbed
    BY Zenon DEF SessInv
  <1>0. /\ queue["srv"] # <<>> /\ queue["srv"] = srvQueue /\ srvQueue \in Seq(WriteRequest)
    BY <1>t, Parts, Zenon DEF WriterSwitches, srvQueue
  <1>1. /\ Head(srvQueue) = srvQueue[1] /\ srvQueue[1].kind = "switch"
        /\ 1 \in 1..Len(srvQueue) /\ Len(srvQueue) \in Nat
        /\ Tail(srvQueue) \in Seq(WriteRequest) /\ Len(Tail(srvQueue)) = Len(srvQueue) - 1
        /\ \A i \in 1..Len(srvQueue) - 1 : Tail(srvQueue)[i] = srvQueue[i + 1]
    BY <1>0, Shift DEF WriterSwitches
  <1>2. srvQueue[1].next = "user" /\ RouteWritten
    BY <1>1, <1>t, Zenon DEF SrvSends
  <1>3. /\ queue' = [queue EXCEPT !["srv"] = Tail(@)]
        /\ sendPool' = [sendPool EXCEPT !["srv"] = "user"]
        /\ UNCHANGED <<closed, invalid, recvPool, wire, switching, authed, sentStamp, heard, hasData,
                       trouble, overtook, phase, allowed, registered, handler>>
    BY <1>0, <1>1, <1>2, Zenon DEF WriterSwitches
  <1>4. /\ srvQueue' = Tail(srvQueue) /\ srvSend' = "user"
        /\ UNCHANGED <<upQueue, upWire, srvWire, upSend, upRecv, srvRecv, upInvalid, srvInvalid,
                       srvClosed, srvData>>
    BY <1>t, <1>3, Zenon DEF SessTyped, End, upQueue, srvQueue, upWire, srvWire, upSend, srvSend,
          upRecv, srvRecv, upInvalid, srvInvalid, srvClosed, srvData
  <1>5. UNCHANGED <<switching, upRecv, handler, srvRecv>>
    BY <1>3, <1>4, Zenon
  <1>6. (RouteWritten' <=> RouteWritten) /\ (RouteRead' <=> RouteRead)
    BY <1>5, Zenon DEF RouteWritten, RouteRead
  <1>7. SessTyped'
    <2>1. queue' \in [End -> Seq(WriteRequest)]
      BY <1>t, <1>0, <1>1, <1>3, Zenon DEF SessTyped, End
    <2> QED
      BY <1>t, <1>3, <2>1, Zenon DEF SessTyped, Pool
  <1>8. UpQueue' /\ UpPools' /\ UpWire'
    BY <1>t, <1>3, <1>4, <1>6, UpSame, UpWireSame, Zenon
  <1>9. SrvPools'
    BY <1>t, <1>2, <1>3, <1>4, <1>6, Zenon DEF SrvPools
  <1>10. SrvSends'
    <2>1. /\ Len(srvQueue') = Len(srvQueue) - 1
          /\ \A i \in 1..Len(srvQueue') : i + 1 \in 1..Len(srvQueue) /\ srvQueue'[i] = srvQueue[i + 1]
      BY <1>1, <1>4
    <2>2. srvWire' = srvWire /\ overtook' = overtook /\ trouble' = trouble /\ heard' = heard
          /\ authed' = authed
      BY <1>3, <1>4, Zenon
    <2>3. \A i \in 1..Len(srvQueue') :
             /\ srvQueue'[i].msg \in {"keep", "authok", "request"}
             /\ srvQueue'[i].kind = "switch" => srvQueue'[i].next = "user" /\ RouteWritten'
             /\ srvQueue'[i].kind = "packet" => srvQueue'[i].next = "none"
      BY <1>t, <1>6, <2>1, Zenon DEF SrvSends
    <2>4. \A i \in 1..Len(srvWire') :
             /\ srvWire'[i].msg \in {"keep", "authok", "request", "junk"}
             /\ "srv" \in trouble' \/ srvWire'[i].msg # "junk"
             /\ overtook' \/ srvWire'[i].pool = (IF RouteWritten' THEN "user" ELSE "epoch")
      BY <1>t, <1>6, <2>2, Zenon DEF SrvSends
    <2>l. /\ heard \/ Len(srvQueue) + Len(srvWire) <= (IF authed THEN 1 ELSE 0)
          /\ heard /\ ~RouteRead => Len(srvQueue) = 0 /\ Len(srvWire) = 0
          /\ Len(srvQueue) \in Nat /\ Len(srvQueue) > 0 /\ Len(srvWire) \in Nat
      BY <1>t, <1>1, Parts DEF SrvSends
    <2>5. /\ heard' \/ Len(srvQueue') + Len(srvWire') <= (IF authed' THEN 1 ELSE 0)
          /\ heard' /\ ~RouteRead' => Len(srvQueue') = 0 /\ Len(srvWire') = 0
      BY <1>6, <2>1, <2>2, <2>l
    <2> QED
      BY <2>3, <2>4, <2>5, Zenon DEF SrvSends
  <1>11. DiallerUndisturbed' /\ SoundSession'
    BY <1>t, <1>3, <1>4, <1>6, Zenon DEF DiallerUndisturbed, SoundSession, Sound, UpWireSound
  <1> QED
    BY <1>7, <1>8, <1>9, <1>10, <1>11, Zenon DEF SessInv

\* The server's reader changes its receiving pool and queues the other change.
LEMMA ReaderSwitches ==
    ASSUME SessInv, SwitchObfPool
    PROVE  SessInv'
  <1>t. SessTyped /\ UpQueue /\ UpPools /\ UpWire /\ SrvPools /\ SrvSends /\ SoundSession
        /\ DiallerUndisturbed
    BY Zenon DEF SessInv
  <1>1. /\ handler = "switch" /\ handler' = "loop"
        /\ recvPool' = [recvPool EXCEPT !["srv"] = "user"]
        /\ UNCHANGED <<invalid, sendPool, wire, switching, authed, sentStamp, heard,
                       hasData, phase, allowed, overtook, trouble>>
    BY Zenon DEF SwitchObfPool
  <1>2. RouteWritten /\ RouteRead /\ heard /\ authed /\ sentStamp
    BY <1>t, <1>1, Zenon DEF RouteRead, SrvPools, UpPools
  <1>3. SwitchRequest \in WriteRequest
    BY Zenon DEF SwitchRequest, WriteRequest, Message, Pool
  <1>4. \/ /\ queue' = [queue EXCEPT !["srv"] = Append(@, SwitchRequest)]
           /\ UNCHANGED <<closed, registered>>
        \/ /\ UNCHANGED queue /\ registered' = FALSE /\ closed' = [e \in End |-> closed[e] \/ e = "srv"]
    BY Zenon DEF SwitchObfPool, Enqueue, CloseEnds
  <1>5. /\ srvRecv' = "user"
        /\ UNCHANGED <<upQueue, upWire, srvWire, upSend, srvSend, upRecv, upInvalid, srvInvalid, srvData>>
        /\ \/ srvQueue' = Append(srvQueue, SwitchRequest) /\ UNCHANGED <<srvClosed, registered>>
           \/ srvQueue' = srvQueue /\ srvClosed' = TRUE /\ registered' = FALSE
    BY <1>t, <1>1, <1>4, Zenon DEF SessTyped, End, upQueue, srvQueue, upWire, srvWire, upSend, srvSend,
          upRecv, srvRecv, upInvalid, srvInvalid, srvClosed, srvData
  <1>6. RouteWritten' /\ RouteRead'
    BY <1>1, <1>2, <1>5, Zenon DEF RouteWritten, RouteRead
  <1>7. SessTyped'
    <2>0. Append(queue["srv"], SwitchRequest) \in Seq(WriteRequest)
      BY <1>t, <1>3 DEF SessTyped, End
    <2>1. queue' \in [End -> Seq(WriteRequest)]
      BY <1>t, <1>4, <2>0, Zenon DEF SessTyped, End
    <2>2. closed' \in [End -> BOOLEAN] /\ registered' \in BOOLEAN
      BY <1>t, <1>4, Zenon DEF SessTyped
    <2> QED
      BY <1>t, <1>1, <2>1, <2>2, Zenon DEF SessTyped, Pool
  <1>8. UpQueue' /\ UpPools' /\ UpWire'
    BY <1>t, <1>1, <1>2, <1>5, <1>6, Zenon DEF UpQueue, UpPools, UpWire
  <1>9. SwitchRequest.kind = "switch" /\ SwitchRequest.msg = "keep" /\ SwitchRequest.next = "user"
    BY Zenon DEF SwitchRequest
  <1>10. ASSUME srvQueue' = Append(srvQueue, SwitchRequest) /\ UNCHANGED <<srvClosed, registered>>
         PROVE  SrvPools' /\ SrvSends'
    <2>1. /\ Len(srvQueue') = Len(srvQueue) + 1 /\ Len(srvQueue) \in Nat
          /\ \A i \in 1..Len(srvQueue) : srvQueue'[i] = srvQueue[i]
          /\ srvQueue'[Len(srvQueue) + 1] = SwitchRequest
      BY <1>t, <1>3, <1>10, Grow, Parts
    <2>2. SrvPools'
      BY <1>t, <1>1, <1>2, <1>5, <1>6, <1>9, <1>10, <2>1 DEF SrvPools
    <2>3. \A i \in 1..Len(srvQueue') : i \in 1..Len(srvQueue) \/ i = Len(srvQueue) + 1
      BY <2>1
    <2>4. SrvSends'
      BY <1>t, <1>1, <1>2, <1>5, <1>6, <1>9, <2>1, <2>3, SMTT(30) DEF SrvSends
    <2> QED
      BY <2>2, <2>4, Zenon
  <1>11. ASSUME srvQueue' = srvQueue /\ srvClosed' = TRUE /\ registered' = FALSE
         PROVE  SrvPools' /\ SrvSends'
    BY <1>t, <1>1, <1>2, <1>5, <1>6, <1>11, Zenon DEF SrvPools, SrvSends
  <1>12. DiallerUndisturbed' /\ SoundSession'
    BY <1>t, <1>1, <1>2, <1>5, <1>6, Zenon DEF DiallerUndisturbed, SoundSession, Sound, UpWireSound
  <1> QED
    BY <1>5, <1>7, <1>8, <1>10, <1>11, <1>12, Zenon DEF SessInv

-----------------------------------------------------------------------------
(* What leaves a wire *)

\* The server takes a packet off the wire.
LEMMA UpWireShrinks ==
    ASSUME UpWire, upWire \in Seq(WirePacket), upWire # <<>>, upWire' = Tail(upWire),
           sentStamp' = sentStamp, RouteWritten => RouteWritten'
    PROVE  UpWire' /\ sentStamp
  <1>1. /\ Len(upWire') = Len(upWire) - 1 /\ Len(upWire) \in Nat
        /\ \A i \in 1..Len(upWire') : i + 1 \in 1..Len(upWire) /\ upWire'[i] = upWire[i + 1] /\ i + 1 # 1
    BY Shift
  <1>2. sentStamp
    BY Zenon DEF UpWire
  <1> QED
    BY <1>1, <1>2 DEF UpWire

\* The upstream takes a packet off the wire.
LEMMA SrvWireShrinks ==
    ASSUME SrvSends, srvQueue \in Seq(WriteRequest), srvWire \in Seq(WirePacket), srvWire # <<>>,
           srvWire' = Tail(srvWire), UNCHANGED <<srvQueue, trouble, authed>>,
           RouteWritten' <=> RouteWritten, RouteRead' <=> RouteRead,
           overtook => overtook', heard => heard'
    PROVE  SrvSends'
  <1>1. /\ Len(srvWire') = Len(srvWire) - 1 /\ Len(srvWire) \in Nat /\ Len(srvWire) > 0
        /\ Len(srvQueue) \in Nat
        /\ \A i \in 1..Len(srvWire') : i + 1 \in 1..Len(srvWire) /\ srvWire'[i] = srvWire[i + 1]
    BY Shift
  <1> QED
    BY <1>1 DEF SrvSends

\* An invalid upstream throws bytes away.
LEMMA UpDrains ==
    ASSUME SessInv, Drain("up")
    PROVE  SessInv'
  <1>t. SessTyped /\ UpQueue /\ UpPools /\ UpWire /\ SrvPools /\ SrvSends /\ SoundSession
        /\ DiallerUndisturbed
    BY Zenon DEF SessInv
  <1>1. /\ wire["srv"] # <<>> /\ wire' = [wire EXCEPT !["srv"] = Tail(@)]
        /\ UNCHANGED <<closed, invalid, sendPool, recvPool, queue, switching, authed, sentStamp, heard,
                       hasData, phase, allowed, registered, handler, overtook, trouble>>
    BY Peers, Zenon DEF Drain
  <1>2. /\ srvWire # <<>> /\ srvWire' = Tail(srvWire) /\ Tail(wire["srv"]) \in Seq(WirePacket)
        /\ srvWire \in Seq(WirePacket) /\ srvQueue \in Seq(WriteRequest)
        /\ UNCHANGED <<upQueue, srvQueue, upWire, upSend, srvSend, upRecv, srvRecv, upInvalid,
                       srvInvalid, srvClosed, srvData>>
    BY <1>t, <1>1, Shift, Zenon DEF SessTyped, End, upQueue, srvQueue, upWire, srvWire, upSend, srvSend,
          upRecv, srvRecv, upInvalid, srvInvalid, srvClosed, srvData
  <1>3. UNCHANGED <<switching, upRecv, handler, srvRecv>>
    BY <1>1, <1>2, Zenon
  <1>4. (RouteWritten' <=> RouteWritten) /\ (RouteRead' <=> RouteRead)
    BY <1>3, Zenon DEF RouteWritten, RouteRead
  <1>5. SessTyped'
    <2>1. wire' \in [End -> Seq(WirePacket)]
      BY <1>t, <1>1, <1>2, Zenon DEF SessTyped, End
    <2> QED
      BY <1>t, <1>1, <2>1, Zenon DEF SessTyped
  <1>6. UpQueue' /\ UpPools' /\ UpWire'
    BY <1>t, <1>1, <1>2, <1>4, UpSame, UpWireSame, Zenon
  <1>7. SrvPools'
    BY <1>t, <1>1, <1>2, <1>4, Zenon DEF SrvPools
  <1>8. SrvSends'
    BY <1>t, <1>1, <1>2, <1>4, SrvWireShrinks, Zenon
  <1>9. DiallerUndisturbed' /\ SoundSession'
    BY <1>t, <1>1, <1>2, <1>4, Zenon DEF DiallerUndisturbed, SoundSession, Sound, UpWireSound
  <1> QED
    BY <1>5, <1>6, <1>7, <1>8, <1>9, Zenon DEF SessInv

\* An invalid server throws bytes away.
LEMMA SrvDrains ==
    ASSUME SessInv, Drain("srv")
    PROVE  SessInv'
  <1>t. SessTyped /\ UpQueue /\ UpPools /\ UpWire /\ SrvPools /\ SrvSends /\ SoundSession
        /\ DiallerUndisturbed
    BY Zenon DEF SessInv
  <1>1. /\ wire["up"] # <<>> /\ wire' = [wire EXCEPT !["up"] = Tail(@)] /\ invalid["srv"]
        /\ UNCHANGED <<invalid, sendPool, recvPool, queue, switching, authed, sentStamp, heard,
                       hasData, phase, allowed, registered, handler, overtook, trouble>>
    BY Peers, Zenon DEF Drain
  <1>c. closed' = closed \/ closed' = [e \in End |-> closed[e] \/ e \in {"srv"}]
    BY Zenon DEF Drain, CloseEnds
  <1>2. /\ upWire # <<>> /\ upWire' = Tail(upWire) /\ Tail(wire["up"]) \in Seq(WirePacket)
        /\ upWire \in Seq(WirePacket) /\ srvInvalid
        /\ UNCHANGED <<upQueue, srvQueue, srvWire, upSend, srvSend, upRecv, srvRecv, upInvalid,
                       srvInvalid, srvData>>
        /\ srvClosed => srvClosed'
    BY <1>t, <1>1, <1>c, Shift, Zenon DEF SessTyped, End, upQueue, srvQueue, upWire, srvWire, upSend, srvSend,
          upRecv, srvRecv, upInvalid, srvInvalid, srvClosed, srvData
  <1>3. UNCHANGED <<switching, upRecv, handler, srvRecv>>
    BY <1>1, <1>2, Zenon
  <1>4. (RouteWritten' <=> RouteWritten) /\ (RouteRead' <=> RouteRead)
    BY <1>3, Zenon DEF RouteWritten, RouteRead
  <1>5. SessTyped'
    <2>1. wire' \in [End -> Seq(WirePacket)]
      BY <1>t, <1>1, <1>2, Zenon DEF SessTyped, End
    <2>2. closed' \in [End -> BOOLEAN]
      BY <1>t, <1>c, Zenon DEF SessTyped
    <2> QED
      BY <1>t, <1>1, <2>1, <2>2, Zenon DEF SessTyped
  <1>6. UpQueue' /\ UpPools'
    BY <1>t, <1>1, <1>2, UpSame, Zenon
  <1>7. UpWire'
    BY <1>t, <1>1, <1>2, <1>4, UpWireShrinks, Zenon
  <1>8. SrvPools' /\ SrvSends'
    BY <1>t, <1>1, <1>2, <1>4, Zenon DEF SrvPools, SrvSends
  <1>9. DiallerUndisturbed' /\ SoundSession'
    BY <1>t, <1>1, <1>2, <1>4, Zenon DEF DiallerUndisturbed, SoundSession, Sound, UpWireSound
  <1> QED
    BY <1>5, <1>6, <1>7, <1>8, <1>9, Zenon DEF SessInv

\* The permission is withdrawn.
LEMMA RevokeKeeps ==
    ASSUME SessInv, Revoke
    PROVE  SessInv'
  <1>t. SessTyped /\ UpQueue /\ UpPools /\ UpWire /\ SrvPools /\ SrvSends /\ SoundSession
        /\ DiallerUndisturbed
    BY Zenon DEF SessInv
  <1>1. /\ UNCHANGED <<invalid, sendPool, recvPool, queue, wire, switching, authed, sentStamp, heard,
                       hasData, phase, handler, overtook>>
        /\ registered' = FALSE /\ allowed' = FALSE /\ trouble' = trouble \cup {"revoke"}
    BY Zenon DEF Revoke
  <1>c. closed' = closed \/ closed' = [e \in End |-> closed[e] \/ e \in {"srv"}]
    BY Zenon DEF Revoke, CloseEnds
  <1>2. /\ UNCHANGED <<upQueue, srvQueue, upWire, srvWire, upSend, srvSend, upRecv, srvRecv, upInvalid,
                       srvInvalid, srvData>>
        /\ srvClosed => srvClosed'
    BY <1>t, <1>1, <1>c, Zenon DEF SessTyped, End, upQueue, srvQueue, upWire, srvWire, upSend, srvSend,
          upRecv, srvRecv, upInvalid, srvInvalid, srvClosed, srvData
  <1>3. UNCHANGED <<switching, upRecv, handler, srvRecv>>
    BY <1>1, <1>2, Zenon
  <1>4. (RouteWritten' <=> RouteWritten) /\ (RouteRead' <=> RouteRead)
    BY <1>3, Zenon DEF RouteWritten, RouteRead
  <1>5. SessTyped'
    <2>1. closed' \in [End -> BOOLEAN]
      BY <1>t, <1>c, Zenon DEF SessTyped
    <2> QED
      BY <1>t, <1>1, <2>1, Zenon DEF SessTyped
  <1>6. UpQueue' /\ UpPools' /\ UpWire'
    BY <1>t, <1>1, <1>2, <1>4, UpSame, UpWireSame, Zenon
  <1>7. SrvPools'
    BY <1>t, <1>1, <1>2, <1>4, Zenon DEF SrvPools
  <1>8. SrvSends'
    BY <1>t, <1>1, <1>2, <1>4, Zenon DEF SrvSends
  <1>9. DiallerUndisturbed' /\ SoundSession'
    BY <1>t, <1>1, <1>2, Zenon DEF DiallerUndisturbed, SoundSession, Sound
  <1> QED
    BY <1>5, <1>6, <1>7, <1>8, <1>9, Zenon DEF SessInv

\* A sequence of packets, the first of which has changed bytes.
Junked(s) == [s EXCEPT ![1].msg = "junk"]

\* What damage does to the packets of a wire.
LEMMA Damaged ==
    ASSUME NEW s \in Seq(WirePacket), s # <<>>, NEW t, t = Junked(s)
    PROVE  /\ t \in Seq(WirePacket) /\ Len(t) = Len(s) /\ Len(s) \in Nat
           /\ t[1].msg = "junk" /\ t[1].pool = s[1].pool
           /\ \A i \in 1..Len(s) : i # 1 => t[i] = s[i]
  <1>1. /\ Len(s) \in Nat /\ 1 \in 1..Len(s) /\ s[1] \in WirePacket /\ DOMAIN s = 1..Len(s)
        /\ s \in [1..Len(s) -> WirePacket]
    OBVIOUS
  <1>2. PICK q : q = [s[1] EXCEPT !.msg = "junk"]
    BY Zenon
  <1>3. q \in WirePacket /\ q.msg = "junk" /\ q.pool = s[1].pool
    BY <1>1, <1>2, Zenon DEF WirePacket, Message
  <1>4. t = [s EXCEPT ![1] = q]
    BY <1>2, Zenon DEF Junked
  <1>5. t \in [1..Len(s) -> WirePacket] /\ t[1] = q /\ \A i \in 1..Len(s) : i # 1 => t[i] = s[i]
    BY <1>1, <1>3, <1>4
  <1>6. t \in Seq(WirePacket) /\ Len(t) = Len(s)
    BY <1>1, <1>5
  <1> QED
    BY <1>1, <1>3, <1>5, <1>6, Zenon

\* Bytes are changed on one of the wires.
LEMMA DamageKeeps ==
    ASSUME SessInv, NEW e \in End, Damage(e)
    PROVE  SessInv'
  <1>t. SessTyped /\ UpQueue /\ UpPools /\ UpWire /\ SrvPools /\ SrvSends /\ SoundSession
        /\ DiallerUndisturbed
    BY Zenon DEF SessInv
  <1>1. /\ UNCHANGED <<closed, invalid, sendPool, recvPool, queue, switching, authed, sentStamp, heard,
                       hasData, phase, allowed, registered, handler, overtook>>
        /\ trouble' = trouble \cup {e} /\ wire[e] # <<>>
        /\ wire' = [wire EXCEPT ![e][1].msg = "junk"]
    BY Zenon DEF Damage
  <1>2. UNCHANGED <<upQueue, srvQueue, upSend, srvSend, upRecv, srvRecv, upInvalid, srvInvalid,
                    srvData, srvClosed>>
    BY <1>1, Zenon DEF upQueue, srvQueue, upWire, srvWire, upSend, srvSend,
          upRecv, srvRecv, upInvalid, srvInvalid, srvClosed, srvData
  <1>3. UNCHANGED <<switching, upRecv, handler, srvRecv>>
    BY <1>1, <1>2, Zenon
  <1>4. (RouteWritten' <=> RouteWritten) /\ (RouteRead' <=> RouteRead)
    BY <1>3, Zenon DEF RouteWritten, RouteRead
  <1>5. PICK t : t = [wire[e] EXCEPT ![1].msg = "junk"]
    BY Zenon
  <1>6. wire' = [wire EXCEPT ![e] = t]
    BY <1>1, <1>5, Zenon
  <1>7. wire[e] \in Seq(WirePacket)
    BY <1>t, Zenon DEF SessTyped
  <1>8. /\ t \in Seq(WirePacket) /\ Len(t) = Len(wire[e]) /\ Len(t) \in Nat
        /\ t[1].msg = "junk" /\ t[1].pool = wire[e][1].pool
        /\ \A i \in 1..Len(t) : i # 1 => t[i] = wire[e][i]
    <2>1. PICK s \in Seq(WirePacket) : s = wire[e]
      BY <1>7, Zenon
    <2>2. s # <<>> /\ t = Junked(s)
      BY <1>1, <1>5, <2>1, Zenon DEF Junked
    <2>3. /\ t \in Seq(WirePacket) /\ Len(t) = Len(s) /\ Len(s) \in Nat
          /\ t[1].msg = "junk" /\ t[1].pool = s[1].pool
          /\ \A i \in 1..Len(s) : i # 1 => t[i] = s[i]
      BY <2>2, Damaged, Zenon
    <2> QED
      BY <2>1, <2>3, Zenon
  <1>9. SessTyped'
    <2>1. wire' \in [End -> Seq(WirePacket)]
      BY <1>t, <1>6, <1>8, Zenon DEF SessTyped
    <2> QED
      BY <1>t, <1>1, <2>1, Zenon DEF SessTyped
  <1>10. UpQueue' /\ UpPools' /\ SrvPools'
    <2>1. UpQueue' /\ UpPools'
      BY <1>t, <1>1, <1>2, UpSame, Zenon
    <2>2. SrvPools'
      BY <1>t, <1>1, <1>2, <1>4, Zenon DEF SrvPools
    <2> QED
      BY <2>1, <2>2, Zenon
  <1>11. DiallerUndisturbed'
    BY <1>t, <1>1, <1>2, Zenon DEF DiallerUndisturbed
  <1>12. CASE e = "up"
    <2>1. upWire' = t /\ srvWire' = srvWire /\ wire[e] = upWire
      BY <1>t, <1>6, <1>12, Zenon DEF SessTyped, End, upWire, srvWire
    <2>2. UpWire'
      BY <1>t, <1>1, <1>2, <1>4, <1>8, <2>1 DEF UpWire
    <2>3. SrvSends'
      BY <1>t, <1>1, <1>2, <1>4, <2>1, Zenon DEF SrvSends
    <2>4. SoundSession'
      BY <1>1, <1>12, Zenon DEF SoundSession, Sound
    <2> QED
      BY <1>9, <1>10, <1>11, <2>2, <2>3, <2>4, Zenon DEF SessInv
  <1>13. CASE e = "srv"
    <2>1. srvWire' = t /\ upWire' = upWire /\ wire[e] = srvWire
      BY <1>t, <1>6, <1>13, Zenon DEF SessTyped, End, upWire, srvWire
    <2>2. UpWire'
      BY <1>t, <1>1, <1>2, <1>4, <2>1, Zenon DEF UpWire
    <2>3. SrvSends'
      BY <1>t, <1>1, <1>2, <1>4, <1>8, <1>13, <2>1 DEF SrvSends
    <2>4. SoundSession'
      BY <1>t, <1>1, <1>2, <1>4, <1>13, <2>1, Zenon DEF SoundSession, Sound, UpWireSound
    <2> QED
      BY <1>9, <1>10, <1>11, <2>2, <2>3, <2>4, Zenon DEF SessInv
  <1> QED
    BY <1>12, <1>13, Zenon DEF End

-----------------------------------------------------------------------------
(* The readers *)

\* The upstream reads: a packet it cannot accept was damaged, or came out of one
\* of the two races.
LEMMA UpReads ==
    ASSUME SessInv, ReadPacket("up")
    PROVE  SessInv'
  <1> DEFINE p == srvWire[1]
             r == PacketRequest("response")
  <1>t. SessTyped /\ UpQueue /\ UpPools /\ UpWire /\ SrvPools /\ SrvSends /\ SoundSession
        /\ DiallerUndisturbed
    BY Zenon DEF SessInv
  <1>0. /\ wire["srv"] # <<>> /\ wire["srv"] = srvWire /\ srvWire \in Seq(WirePacket)
        /\ wire["srv"] \in Seq(WirePacket)
        /\ upQueue \in Seq(WriteRequest) /\ srvQueue \in Seq(WriteRequest)
    BY <1>t, Peers, Parts, Zenon DEF ReadPacket, srvWire
  <1>1. /\ Head(wire["srv"]) = p /\ p \in WirePacket /\ 1 \in 1..Len(srvWire)
        /\ Tail(wire["srv"]) \in Seq(WirePacket) /\ Len(srvWire) > 0 /\ Len(srvWire) \in Nat
    BY <1>0, Shift
  <1>2. /\ p.msg \in {"keep", "authok", "request", "junk"}
        /\ "srv" \in trouble \/ p.msg # "junk"
        /\ overtook \/ p.pool = (IF RouteWritten THEN "user" ELSE "epoch")
        /\ authed
    BY <1>t, <1>0, <1>1, Shift DEF SrvSends, SrvPools, SessTyped
  <1>3. /\ wire' = [wire EXCEPT !["srv"] = Tail(@)]
        /\ UNCHANGED <<switching, sentStamp, phase, allowed, trouble>>
        /\ overtook' = (overtook \/ (p.pool = "user" /\ switching))
        /\ IF ~Genuine("up", p) THEN Rejected("up")
           ELSE Timestamp(p) \/ KeepAliveControl("up", p) \/ ReverseRoute(p) \/ ChannelRequest(p)
    BY <1>1, Peers, Zenon DEF ReadPacket
  <1> HIDE DEF p
  <1>4. overtook' \in BOOLEAN /\ (overtook => overtook') /\ (p.pool = "user" /\ switching => overtook')
    BY <1>3, Zenon
  <1>5. \/ Rejected("up") /\ ~Genuine("up", p)
        \/ KeepAliveControl("up", p) /\ Genuine("up", p)
        \/ ChannelRequest(p) /\ Genuine("up", p)
    BY <1>2, <1>3, Zenon DEF Timestamp, ReverseRoute
  <1>6. r \in WriteRequest /\ r.kind = "packet" /\ r.msg = "response" /\ r.next = "none"
    BY Zenon DEF PacketRequest, WriteRequest, Message, Pool
  <1> HIDE DEF r
  <1>7. /\ UNCHANGED <<closed, sendPool, recvPool, authed, registered, handler>>
        /\ \/ /\ ~Genuine("up", p) /\ UNCHANGED <<queue, hasData, heard>>
              /\ invalid' = [invalid EXCEPT !["up"] = TRUE]
           \/ /\ UNCHANGED <<invalid, queue>> /\ hasData' = [hasData EXCEPT !["up"] = @ \/ p.msg = "refresh"]
              /\ heard' = (heard \/ ("up" = "up" /\ p.msg \in {"keep", "authok"}))
           \/ /\ UNCHANGED <<invalid, heard>> /\ hasData' = [hasData EXCEPT !["up"] = TRUE]
              /\ queue' = [queue EXCEPT !["up"] = Append(@, r)] \/ queue' = queue
    BY <1>5, Zenon DEF Rejected, SetInvalid, KeepAliveControl, ChannelRequest, Enqueue, r
  <1>8. /\ heard' \in BOOLEAN /\ (heard => heard')
        /\ hasData' \in [End -> BOOLEAN] /\ invalid' \in [End -> BOOLEAN]
    BY <1>t, <1>7, Zenon DEF SessTyped
  <1>9. queue' \in [End -> Seq(WriteRequest)]
    <2>1. Append(queue["up"], r) \in Seq(WriteRequest)
      BY <1>t, <1>6 DEF SessTyped, End
    <2> QED
      BY <1>t, <1>7, <2>1, ZenonT(40) DEF SessTyped, End
  <1>10. /\ srvWire' = Tail(srvWire)
         /\ UNCHANGED <<srvQueue, upWire, upSend, srvSend, upRecv, srvRecv, srvInvalid, srvClosed, srvData>>
         /\ upQueue' = upQueue \/ upQueue' = Append(upQueue, r)
    BY <1>t, <1>3, <1>7, Zenon DEF SessTyped, End, upQueue, srvQueue, upWire, srvWire, upSend, srvSend,
          upRecv, srvRecv, upInvalid, srvInvalid, srvClosed, srvData
  <1>11. UNCHANGED <<switching, upRecv, handler, srvRecv>>
    BY <1>3, <1>7, <1>10, Zenon
  <1>12. (RouteWritten' <=> RouteWritten) /\ (RouteRead' <=> RouteRead)
    BY <1>11, Zenon DEF RouteWritten, RouteRead
  <1>13. SessTyped'
    <2>1. wire' \in [End -> Seq(WirePacket)]
      BY <1>t, <1>1, <1>3, Zenon DEF SessTyped, End
    <2> QED
      BY <1>t, <1>3, <1>4, <1>7, <1>8, <1>9, <2>1, Zenon DEF SessTyped
  <1>14. UpQueue'
    <2>1. CASE upQueue' = upQueue
      BY <1>t, <1>3, <1>10, <2>1, UpQueueKept, Zenon DEF PhaseMoves
    <2>2. CASE upQueue' = Append(upQueue, r)
      <3>1. PhaseMoves
        BY <1>3, Zenon DEF PhaseMoves
      <3> QED
        BY <1>t, <1>0, <1>6, <1>11, <2>2, <3>1, UpQueueGrows, Zenon
    <2> QED
      BY <1>10, <2>1, <2>2, Zenon
  <1>15. UpPools' /\ UpWire'
    BY <1>t, <1>3, <1>7, <1>8, <1>10, <1>12, Zenon DEF UpPools, UpWire
  <1>16. SrvPools'
    BY <1>t, <1>2, <1>3, <1>7, <1>10, <1>12, Zenon DEF SrvPools
  <1>17. SrvSends'
    BY <1>t, <1>0, <1>3, <1>4, <1>7, <1>8, <1>10, <1>12, SrvWireShrinks, Zenon
  <1>18. DiallerUndisturbed'
    <2>1. ~Genuine("up", p) => overtook' \/ "srv" \in trouble
      <3>1. upRecv \in {"epoch", "user"} /\ (switching \/ upRecv = "user" <=> RouteWritten)
        BY <1>t, Zenon DEF UpPools, RouteWritten
      <3>2. Genuine("up", p) <=> p.msg # "junk" /\ p.pool = upRecv
        BY <3>1, Zenon DEF Genuine, ExpectedPool, upRecv
      <3> QED
        BY <1>2, <1>4, <3>1, <3>2, Zenon
    <2>2. upInvalid' => upInvalid \/ ~Genuine("up", p)
      BY <1>t, <1>7, Zenon DEF SessTyped, End, upInvalid
    <2> QED
      BY <1>t, <1>3, <1>4, <2>1, <2>2, Zenon DEF DiallerUndisturbed
  <1>19. SoundSession'
    BY <1>t, <1>3, <1>7, <1>10, <1>12, Zenon DEF SoundSession, Sound, UpWireSound
  <1> QED
    BY <1>13, <1>14, <1>15, <1>16, <1>17, <1>18, <1>19, Zenon DEF SessInv

\* What the server's reader may do with a packet, as far as the invariant sees.
SrvRejects(p) ==
    /\ srvInvalid' = TRUE
    /\ UNCHANGED <<srvSend, srvRecv, srvQueue, authed, srvData, registered, handler>>
SrvDrifted(p) ==
    /\ p.msg = "drifted" /\ srvInvalid' = TRUE /\ srvSend' = p.pool /\ srvRecv' = p.pool
    /\ UNCHANGED <<srvQueue, authed, srvData, registered, handler>>
SrvAuthed(p) ==
    /\ p.msg = "stamp" /\ authed' = TRUE /\ srvSend' = p.pool /\ srvRecv' = p.pool
    /\ \/ srvQueue' = Append(srvQueue, PacketRequest("authok"))
       \/ srvQueue' = srvQueue
    /\ UNCHANGED <<srvInvalid, srvData, registered, handler>>
SrvTold(p) ==
    /\ p.msg \in {"keep", "refresh", "response", "fragment"}
    /\ p.pool = srvRecv
    /\ srvData' => srvData \/ p.msg = "refresh"
    /\ UNCHANGED <<srvSend, srvRecv, srvQueue, srvInvalid, authed, registered, handler>>
SrvRegisters(p) ==
    /\ p.msg = "route" /\ registered' = TRUE /\ handler' = "switch"
    /\ UNCHANGED <<srvSend, srvRecv, srvQueue, srvInvalid, authed, srvData>>

\* A damaged, unexpected or refused packet.
SrvUnsound(p) ==
    \/ ~Genuine("srv", p) \/ p.msg = "drifted"
    \/ p.msg \in {"fragment", "route"} /\ (~authed \/ ~allowed)

\* One packet in the server's read loop: it is refused, or is the timestamp, or
\* says something, or registers the route.
LEMMA SrvReadsOne ==
    ASSUME SessInv, ReadPacket("srv"), NEW p, p = upWire[1]
    PROVE  /\ p \in WirePacket /\ upWire # <<>> /\ upWire' = Tail(upWire) /\ handler = "loop"
           /\ ~srvInvalid /\ ~srvClosed
           /\ p.msg \in {"stamp", "drifted"} => ~authed /\ srvRecv = "none"
           /\ SessTyped'
           /\ UNCHANGED <<switching, sentStamp, phase, allowed, trouble, overtook, heard, upQueue,
                          srvWire, upSend, upRecv, upInvalid>>
           /\ \/ SrvUnsound(p) /\ SrvRejects(p)
              \/ SrvUnsound(p) /\ SrvDrifted(p)
              \/ SrvAuthed(p) \/ SrvTold(p) \/ SrvRegisters(p)
  <1>t. SessTyped /\ UpWire
    BY Zenon DEF SessInv
  <1>0. /\ wire["up"] # <<>> /\ wire["up"] = upWire /\ upWire \in Seq(WirePacket)
        /\ wire["up"] \in Seq(WirePacket) /\ handler = "loop"
        /\ ~invalid["srv"] /\ ~closed["srv"]
    BY <1>t, Peers, Parts, Zenon DEF ReadPacket, upWire
  <1>1. /\ Head(wire["up"]) = p /\ p \in WirePacket /\ 1 \in 1..Len(upWire)
        /\ Tail(wire["up"]) \in Seq(WirePacket)
    BY <1>0, Shift
  <1>2. /\ p.msg \in {"stamp", "drifted", "keep", "refresh", "fragment", "route", "response", "junk"}
        /\ p.msg \in {"stamp", "drifted"} => ~authed /\ srvRecv = "none"
        /\ p.pool \in {"epoch", "user"}
    BY <1>t, <1>1, Zenon DEF UpWire
  <1>3. /\ wire' = [wire EXCEPT !["up"] = Tail(@)]
        /\ UNCHANGED <<switching, sentStamp, phase, allowed, trouble>>
        /\ overtook' = (overtook \/ ("srv" = "up" /\ p.pool = "user" /\ switching))
        /\ IF ~Genuine("srv", p) THEN Rejected("srv")
           ELSE Timestamp(p) \/ KeepAliveControl("srv", p) \/ ReverseRoute(p) \/ ChannelRequest(p)
    BY <1>1, Peers, Zenon DEF ReadPacket
  <1>4. overtook' = overtook
    <2>1. overtook = TRUE \/ overtook = FALSE
      BY <1>t, Zenon DEF SessTyped
    <2> QED
      BY <1>3, <2>1, Zenon
  <1>5. recvPool["srv"] = srvRecv /\ srvRecv \in Pool
    BY <1>t, Parts, Zenon DEF srvRecv
  <1> DEFINE Typed == /\ closed' \in [End -> BOOLEAN] /\ invalid' \in [End -> BOOLEAN]
                      /\ sendPool' \in [End -> Pool] /\ recvPool' \in [End -> Pool]
                      /\ queue' \in [End -> Seq(WriteRequest)] /\ hasData' \in [End -> BOOLEAN]
                      /\ authed' \in BOOLEAN /\ registered' \in BOOLEAN
                      /\ handler' \in {"loop", "switch"}
             UpKept == heard' = heard /\ UNCHANGED <<upQueue, upSend, upRecv, upInvalid>>
             Outcome == \/ SrvUnsound(p) /\ SrvRejects(p)
                        \/ SrvUnsound(p) /\ SrvDrifted(p)
                        \/ SrvAuthed(p) \/ SrvTold(p) \/ SrvRegisters(p)
  <1>6. ASSUME SetInvalid("srv")
        PROVE  /\ invalid' = [invalid EXCEPT !["srv"] = TRUE]
               /\ closed' \in [End -> BOOLEAN]
    BY <1>t, <1>6, Zenon DEF SetInvalid, SessTyped
  <1>7. ASSUME Rejected("srv"), SrvUnsound(p) PROVE Typed /\ UpKept /\ Outcome
    <2>1. /\ invalid' = [invalid EXCEPT !["srv"] = TRUE] /\ closed' \in [End -> BOOLEAN]
          /\ UNCHANGED <<sendPool, recvPool, queue, authed, heard, hasData, registered, handler>>
      BY <1>6, <1>7, Zenon DEF Rejected
    <2>2. Typed
      BY <1>t, <2>1, Zenon DEF SessTyped
    <2> QED
      BY <1>t, <1>7, <2>1, <2>2, Zenon DEF SessTyped, End, SrvRejects, upQueue, srvQueue, upSend, srvSend, upRecv, srvRecv, upInvalid, srvInvalid,
          srvData
  <1>8. ASSUME Timestamp(p) PROVE Typed /\ UpKept /\ Outcome
    <2>1. p.msg \in {"stamp", "drifted"} /\ ~authed /\ ExpectedPool("srv", p) = p.pool
      BY <1>2, <1>5, <1>8, Zenon DEF Timestamp, ExpectedPool
    <2>2. CASE p.msg = "drifted"
      <3>1. /\ SetInvalid("srv")
            /\ sendPool' = [sendPool EXCEPT !["srv"] = p.pool]
            /\ recvPool' = [recvPool EXCEPT !["srv"] = p.pool]
            /\ UNCHANGED <<queue, authed, heard, hasData, registered, handler>>
        BY <1>8, <2>1, <2>2, Zenon DEF Timestamp
      <3>2. /\ invalid' = [invalid EXCEPT !["srv"] = TRUE] /\ closed' \in [End -> BOOLEAN]
        BY <3>1, <1>6, Zenon
      <3>3. Typed
        BY <1>t, <1>2, <3>1, <3>2, Zenon DEF SessTyped, Pool
      <3> QED
        BY <1>t, <2>2, <3>1, <3>2, <3>3, Zenon DEF SessTyped, End, SrvUnsound, SrvDrifted, upQueue, srvQueue, upSend, srvSend, upRecv, srvRecv, upInvalid, srvInvalid,
          srvData
    <2>3. CASE p.msg = "stamp"
      <3>1. /\ authed' = TRUE
            /\ sendPool' = [sendPool EXCEPT !["srv"] = p.pool]
            /\ recvPool' = [recvPool EXCEPT !["srv"] = p.pool]
            /\ UNCHANGED <<invalid, heard, hasData, registered, handler>>
            /\ \/ queue' = [queue EXCEPT !["srv"] = Append(@, PacketRequest("authok"))] /\ closed' = closed
               \/ queue' = queue /\ closed' = [e \in End |-> closed[e] \/ e \in {"srv"}]
        BY <1>8, <2>1, <2>3, Zenon DEF Timestamp, Enqueue, CloseEnds
      <3>2. PacketRequest("authok") \in WriteRequest
        BY Zenon DEF PacketRequest, WriteRequest, Message, Pool
      <3>3. Append(queue["srv"], PacketRequest("authok")) \in Seq(WriteRequest)
        BY <1>t, <3>2 DEF SessTyped, End
      <3>4. queue' \in [End -> Seq(WriteRequest)] /\ closed' \in [End -> BOOLEAN]
        BY <1>t, <3>1, <3>3, Zenon DEF SessTyped
      <3>5. Typed
        BY <1>t, <1>2, <3>1, <3>4, Zenon DEF SessTyped, Pool
      <3> QED
        BY <1>t, <2>3, <3>1, <3>5, Zenon DEF SessTyped, End, SrvAuthed, upQueue, srvQueue, upSend, srvSend, upRecv, srvRecv, upInvalid, srvInvalid,
          srvData
    <2> QED
      BY <2>1, <2>2, <2>3, Zenon
  <1>9. ASSUME Genuine("srv", p), p.msg \notin {"stamp", "drifted"} PROVE p.pool = srvRecv
    BY <1>5, <1>9, Zenon DEF Genuine, ExpectedPool
  <1>10. ASSUME KeepAliveControl("srv", p), Genuine("srv", p) PROVE Typed /\ UpKept /\ Outcome
    <2>1. /\ p.msg \in {"keep", "refresh", "response"} /\ p.pool = srvRecv
      BY <1>2, <1>9, <1>10, Zenon DEF KeepAliveControl
    <2>2. /\ heard' = (heard \/ ("srv" = "up" /\ p.msg \in {"keep", "authok"}))
          /\ hasData' = [hasData EXCEPT !["srv"] = @ \/ p.msg = "refresh"]
          /\ UNCHANGED <<closed, invalid, sendPool, recvPool, queue, authed, registered, handler>>
      BY <1>10, Zenon DEF KeepAliveControl
    <2>3. heard = TRUE \/ heard = FALSE
      BY <1>t, Zenon DEF SessTyped
    <2>4. heard' = heard
      BY <2>2, <2>3, Zenon
    <2>5. Typed
      BY <1>t, <2>2, Zenon DEF SessTyped
    <2>6. srvData' => srvData \/ p.msg = "refresh"
      BY <1>t, <2>2, Zenon DEF SessTyped, End, srvData
    <2> QED
      BY <1>t, <2>1, <2>2, <2>4, <2>5, <2>6, Zenon DEF SrvTold, upQueue, srvQueue, upSend, srvSend, upRecv,
            srvRecv, upInvalid, srvInvalid
  <1>11. ASSUME ReverseRoute(p), Genuine("srv", p) PROVE Typed /\ UpKept /\ Outcome
    <2>1. CASE ~authed \/ ~allowed
      <3>1. Rejected("srv") /\ SrvUnsound(p)
        BY <1>11, <2>1, Zenon DEF ReverseRoute, SrvUnsound
      <3> QED
        BY <1>7, <3>1, Zenon
    <2>2. CASE authed /\ allowed /\ p.msg = "fragment"
      <3>1. UNCHANGED <<closed, invalid, sendPool, recvPool, queue, authed, heard, hasData, registered,
                        handler>>
        BY <1>11, <2>2, Zenon DEF ReverseRoute, Ignored
      <3>2. Typed
        BY <1>t, <3>1, Zenon DEF SessTyped
      <3>3. p.pool = srvRecv
        BY <1>9, <1>11, <2>2, Zenon
      <3> QED
        BY <2>2, <3>1, <3>2, <3>3, Zenon DEF SrvTold, upQueue, srvQueue, upSend, srvSend, upRecv, srvRecv, upInvalid, srvInvalid,
          srvData
    <2>3. CASE authed /\ allowed /\ p.msg = "route"
      <3>1. /\ UNCHANGED <<closed, invalid, sendPool, recvPool, queue, authed, heard, hasData>>
            /\ registered' = TRUE /\ handler' = "switch"
        BY <1>11, <2>3, Zenon DEF ReverseRoute
      <3>2. Typed
        BY <1>t, <3>1, Zenon DEF SessTyped
      <3> QED
        BY <2>3, <3>1, <3>2, Zenon DEF SrvRegisters, upQueue, srvQueue, upSend, srvSend, upRecv, srvRecv, upInvalid, srvInvalid,
          srvData
    <2> QED
      BY <1>11, <2>1, <2>2, <2>3, Zenon DEF ReverseRoute
  <1>12. Typed /\ UpKept /\ Outcome
    <2>1. CASE ~Genuine("srv", p)
      BY <1>3, <1>7, <2>1, Zenon DEF SrvUnsound
    <2>2. CASE Genuine("srv", p)
      BY <1>2, <1>3, <1>8, <1>10, <1>11, <2>2, Zenon DEF ChannelRequest
    <2> QED
      BY <2>1, <2>2, Zenon
  <1>13. SessTyped'
    <2>1. wire' \in [End -> Seq(WirePacket)]
      BY <1>t, <1>1, <1>3, Zenon DEF SessTyped, End
    <2>2. heard' = heard
      BY <1>12, Zenon
    <2> QED
      BY <1>t, <1>3, <1>4, <1>12, <2>1, <2>2, Zenon DEF SessTyped
  <1>14. upWire' = Tail(upWire) /\ srvWire' = srvWire
    BY <1>t, <1>3, Zenon DEF SessTyped, End, upWire, srvWire
  <1> HIDE DEF Typed, Outcome
  <1>15. ~srvInvalid /\ ~srvClosed
    BY <1>0, Zenon DEF srvInvalid, srvClosed
  <1> QED
    BY <1>0, <1>1, <1>2, <1>3, <1>4, <1>12, <1>13, <1>14, <1>15, Zenon DEF Outcome

\* The server reads a packet: a sound session is taken for one, and no packet is
\* read with another pool than it was written with.
LEMMA SrvReads ==
    ASSUME SessInv, ReadPacket("srv")
    PROVE  SessInv'
  <1>t. SessTyped /\ UpQueue /\ UpPools /\ UpWire /\ SrvPools /\ SrvSends /\ SoundSession
        /\ DiallerUndisturbed
    BY Zenon DEF SessInv
  <1>p. PICK p : p = upWire[1]
    BY Zenon
  <1>1. /\ p \in WirePacket /\ upWire # <<>> /\ upWire' = Tail(upWire) /\ handler = "loop"
        /\ ~srvInvalid /\ ~srvClosed
        /\ p.msg \in {"stamp", "drifted"} => ~authed /\ srvRecv = "none"
        /\ SessTyped'
        /\ UNCHANGED <<switching, sentStamp, phase, allowed, trouble, overtook, heard, upQueue,
                       srvWire, upSend, upRecv, upInvalid>>
    BY <1>p, SrvReadsOne, Zenon
  <1>2. \/ SrvUnsound(p) /\ SrvRejects(p)
        \/ SrvUnsound(p) /\ SrvDrifted(p)
        \/ SrvAuthed(p) \/ SrvTold(p) \/ SrvRegisters(p)
    BY <1>p, SrvReadsOne, Zenon
  <1>3. /\ upWire \in Seq(WirePacket) /\ srvQueue \in Seq(WriteRequest) /\ srvWire \in Seq(WirePacket)
        /\ srvRecv \in Pool /\ srvSend \in Pool
    BY <1>t, Parts, Zenon
  <1>4. /\ Len(upWire') = Len(upWire) - 1 /\ Len(upWire) \in Nat /\ Len(upWire) > 0
        /\ \A i \in 1..Len(upWire') : i + 1 \in 1..Len(upWire) /\ upWire'[i] = upWire[i + 1]
    BY <1>1, <1>3, Shift
  <1>5. /\ p.pool \in {"epoch", "user"}
        /\ p.msg = "refresh" => p.pool = "user"
        /\ p.msg = "route" => RouteWritten /\ p.pool = "epoch"
        /\ p.pool = "user" => RouteWritten
    BY <1>t, <1>p, <1>4 DEF UpWire
  <1>6. RouteWritten' <=> RouteWritten
    BY <1>1, Zenon DEF RouteWritten
  <1>7. RouteRead <=> srvRecv = "user"
    BY <1>1, Zenon DEF RouteRead
  <1>8. UpQueue' /\ UpPools'
    BY <1>t, <1>1, UpSame, Zenon
  <1>9. UpWire'
    BY <1>t, <1>1, <1>3, <1>6, UpWireShrinks, Zenon
  <1>10. SrvPools'
    <2>1. CASE SrvRejects(p)
      BY <1>t, <1>1, <1>6, <2>1, Zenon DEF SrvPools, SrvRejects, RouteRead
    <2>2. CASE SrvDrifted(p)
      BY <1>t, <1>1, <1>5, <1>6, <1>7, <2>2, Zenon DEF SrvPools, SrvDrifted, RouteRead
    <2>3. CASE SrvAuthed(p)
      <3>1. /\ srvRecv = "none" /\ ~RouteRead /\ ~registered /\ ~srvData /\ authed'
            /\ srvSend' = p.pool /\ srvRecv' = p.pool /\ handler' = handler
            /\ UNCHANGED <<registered, srvData>>
        BY <1>t, <1>1, <1>7, <2>3, Zenon DEF SrvPools, SrvAuthed
      <3>2. ~registered' /\ ~srvData'
        BY <3>1, Zenon
      <3> QED
        BY <1>1, <1>5, <1>6, <3>1, <3>2, Zenon DEF SrvPools, RouteRead
    <2>4. CASE SrvTold(p)
      <3>1. /\ registered' \/ srvData' => RouteRead
            /\ RouteRead' <=> RouteRead
        BY <1>t, <1>1, <1>5, <1>7, <2>4, Zenon DEF SrvPools, SrvTold, RouteRead
      <3> QED
        BY <1>t, <1>1, <1>6, <2>4, <3>1, Zenon DEF SrvPools, SrvTold
    <2>5. CASE SrvRegisters(p)
      BY <1>t, <1>1, <1>5, <1>6, <2>5, Zenon DEF SrvPools, SrvRegisters, RouteRead
    <2> QED
      BY <1>2, <2>1, <2>2, <2>3, <2>4, <2>5, Zenon
  <1>11. SrvSends'
    <2>1. CASE SrvAuthed(p)
      <3>1. PICK r \in WriteRequest : r = PacketRequest("authok")
        BY Zenon DEF PacketRequest, WriteRequest, Message, Pool
      <3>2. r.kind = "packet" /\ r.msg = "authok" /\ r.next = "none"
        BY <3>1, Zenon DEF PacketRequest
      <3>3. ~heard /\ Len(srvQueue) + Len(srvWire) <= 0 /\ Len(srvQueue) \in Nat /\ Len(srvWire) \in Nat
        BY <1>t, <1>1, <1>3, <2>1 DEF SrvPools, SrvSends, SrvAuthed
      <3>4. CASE srvQueue' = srvQueue
        BY <1>t, <1>1, <1>6, <2>1, <3>3, <3>4 DEF SrvSends, SrvAuthed
      <3>5. CASE srvQueue' = Append(srvQueue, r)
        <4>1. Len(srvQueue) = 0 /\ Len(srvWire) = 0
          BY <3>3
        <4>2. Len(srvQueue') = 1 /\ srvQueue'[1] = r
          BY <1>3, <3>5, <4>1, Grow
        <4> QED
          BY <1>t, <1>1, <1>6, <2>1, <3>2, <3>3, <4>1, <4>2 DEF SrvSends, SrvAuthed
      <3> QED
        BY <2>1, <3>1, <3>4, <3>5, Zenon DEF SrvAuthed
    <2>2. CASE ~SrvAuthed(p)
      <3>1. /\ srvQueue' = srvQueue /\ authed' = authed
            /\ heard /\ ~RouteRead' => ~RouteRead
        BY <1>t, <1>1, <1>2, <1>7, <2>2, Zenon
           DEF SrvRejects, SrvDrifted, SrvTold, SrvRegisters, RouteRead
      <3> QED
        BY <1>t, <1>1, <1>6, <3>1, Zenon DEF SrvSends
    <2> QED
      BY <2>1, <2>2, Zenon
  <1>12. DiallerUndisturbed'
    BY <1>t, <1>1, Zenon DEF DiallerUndisturbed
  <1>13. ASSUME Sound PROVE UpWireSound'
    <2>1. UpWireSound /\ sentStamp
      BY <1>t, <1>1, <1>13, Zenon DEF SoundSession, UpWire
    <2>2. /\ p.msg \notin {"junk", "drifted"} /\ (p.pool = "user" <=> RouteRead)
          /\ ~authed => p.msg = "stamp"
          /\ authed <=> srvRecv # "none"
          /\ allowed
      BY <1>p, <1>4, <2>1 DEF UpWireSound
    <2>3. ~SrvUnsound(p)
      <3>0. srvRecv # "none" => p.pool = srvRecv
        BY <1>3, <1>5, <1>7, <2>2, Zenon DEF Pool
      <3>1. p.pool = ExpectedPool("srv", p)
        BY <3>0, Zenon DEF ExpectedPool, srvRecv
      <3> QED
        BY <2>2, <3>1, Zenon DEF SrvUnsound, Genuine, srvRecv
    <2>4. SrvAuthed(p) \/ SrvTold(p) \/ SrvRegisters(p)
      BY <1>2, <2>3, Zenon
    <2>5. RouteRead' <=> RouteRead \/ p.msg = "route"
      BY <1>1, <1>5, <1>7, <2>2, <2>4, Zenon DEF SrvAuthed, SrvTold, SrvRegisters, RouteRead
    <2>6. ~srvInvalid' /\ allowed' /\ authed' /\ srvRecv' # "none"
      <3>1. allowed' = allowed /\ srvInvalid' = srvInvalid
        BY <1>1, <2>4, Zenon DEF SrvAuthed, SrvTold, SrvRegisters
      <3>2. authed' /\ srvRecv' # "none"
        <4>1. CASE SrvAuthed(p)
          BY <1>5, <4>1, Zenon DEF SrvAuthed
        <4>2. CASE ~SrvAuthed(p)
          <5>1. p.msg # "stamp" /\ UNCHANGED <<authed, srvRecv>>
            BY <2>4, <4>2, Zenon DEF SrvTold, SrvRegisters
          <5> QED
            BY <2>2, <5>1, Zenon
        <4> QED
          BY <4>1, <4>2, Zenon
      <3> QED
        BY <1>1, <2>2, <3>1, <3>2
    <2>7. \A n \in Nat : n <= Len(upWire') =>
            ((\E j \in 1..n + 1 : upWire[j].msg = "route") <=>
                p.msg = "route" \/ \E j \in 1..n : upWire'[j].msg = "route")
      <3> SUFFICES ASSUME NEW n \in Nat, n <= Len(upWire')
                   PROVE  (\E j \in 1..n + 1 : upWire[j].msg = "route") <=>
                            p.msg = "route" \/ \E j \in 1..n : upWire'[j].msg = "route"
        BY Zenon
      <3>1. ASSUME NEW j \in 1..n + 1, upWire[j].msg = "route"
            PROVE  p.msg = "route" \/ \E k \in 1..n : upWire'[k].msg = "route"
        <4>1. CASE j = 1
          BY <1>p, <3>1, <4>1, Zenon
        <4>2. CASE j # 1
          <5>1. j - 1 \in 1..n /\ j - 1 \in 1..Len(upWire') /\ (j - 1) + 1 = j
            BY <1>4, <4>2
          <5> QED
            BY <1>4, <3>1, <5>1, Zenon
        <4> QED
          BY <4>1, <4>2, Zenon
      <3>2. ASSUME NEW k \in 1..n, upWire'[k].msg = "route"
            PROVE  \E j \in 1..n + 1 : upWire[j].msg = "route"
        <4>1. k \in 1..Len(upWire') /\ k + 1 \in 1..n + 1
          BY <1>4
        <4> QED
          BY <1>4, <3>2, <4>1, Zenon
      <3>3. ASSUME p.msg = "route" PROVE \E j \in 1..n + 1 : upWire[j].msg = "route"
        BY <1>p, <3>3
      <3> QED
        BY <3>1, <3>2, <3>3, Zenon
    <2>8. RouteWritten => RouteRead' \/ \E j \in 1..Len(upWire') : upWire'[j].msg = "route"
      <3>1. Len(upWire') \in Nat /\ Len(upWire') + 1 = Len(upWire)
        BY <1>4
      <3> QED
        BY <2>1, <2>5, <2>7, <3>1 DEF UpWireSound
    <2>9. ASSUME NEW i \in 1..Len(upWire')
          PROVE  /\ upWire'[i].msg \notin {"junk", "drifted"}
                 /\ upWire'[i].pool = "user" <=>
                       RouteRead' \/ \E j \in 1..i - 1 : upWire'[j].msg = "route"
      <3>1. i - 1 \in Nat /\ i - 1 <= Len(upWire') /\ (i - 1) + 1 = i /\ (i + 1) - 1 = i
            /\ i + 1 \in 1..Len(upWire) /\ upWire'[i] = upWire[i + 1]
        BY <1>4
      <3>2. (\E j \in 1..i : upWire[j].msg = "route") <=>
               p.msg = "route" \/ \E j \in 1..i - 1 : upWire'[j].msg = "route"
        BY <2>7, <3>1, Zenon
      <3>3. /\ upWire[i + 1].msg \notin {"junk", "drifted"}
            /\ upWire[i + 1].pool = "user" <=>
                  RouteRead \/ \E j \in 1..i : upWire[j].msg = "route"
        BY <2>1, <3>1, Zenon DEF UpWireSound
      <3> QED
        BY <2>5, <3>1, <3>2, <3>3, Zenon
    <2> QED
      BY <1>6, <2>6, <2>8, <2>9, Zenon DEF UpWireSound
  <1>14. SoundSession'
    BY <1>1, <1>13, Zenon DEF SoundSession, Sound
  <1> QED
    BY <1>1, <1>8, <1>9, <1>10, <1>11, <1>12, <1>14, Zenon DEF SessInv

-----------------------------------------------------------------------------
(* The loop, the timer and the keep-alives *)

\* A step that only closes ends or moves the loop on.
LEMMA ClosingStep ==
    ASSUME SessInv, PhaseMoves,
           UNCHANGED <<invalid, sendPool, recvPool, queue, wire, switching, authed, sentStamp, heard,
                       hasData, allowed, registered, handler, overtook, trouble>>,
           \/ closed' = closed
           \/ \E ends \in SUBSET End : closed' = [e \in End |-> closed[e] \/ e \in ends]
           \/ closed' = [closed EXCEPT !["srv"] = @ \/ ~authed]
    PROVE  SessInv'
  <1>1. SessTyped
    BY Zenon DEF SessInv
  <1>2. closed' \in [End -> BOOLEAN] /\ (srvClosed => srvClosed')
    <2>1. CASE closed' = closed
      BY <1>1, <2>1, Zenon DEF SessTyped, srvClosed
    <2>2. CASE \E ends \in SUBSET End : closed' = [e \in End |-> closed[e] \/ e \in ends]
      BY <1>1, <2>2, Zenon DEF SessTyped, srvClosed, End
    <2>3. CASE closed' = [closed EXCEPT !["srv"] = @ \/ ~authed]
      BY <1>1, <2>3, Zenon DEF SessTyped, srvClosed, End
    <2> QED
      BY <2>1, <2>2, <2>3, Zenon
  <1>3. SessTyped'
    BY <1>1, <1>2, Zenon DEF SessTyped
  <1>4. UNCHANGED sessParts
    BY Zenon DEF sessParts, upQueue, srvQueue, upWire, srvWire, upSend, srvSend, upRecv, srvRecv,
           upInvalid, srvInvalid, srvData
  <1> QED
    BY <1>2, <1>3, <1>4, CloseKeeps, Zenon

\* The upstream's loop or its keep-alives queue a packet.
LEMMA UpQueuesPacket ==
    ASSUME SessInv, NEW r \in WriteRequest, Enqueue("up", r), r.kind = "packet",
           r.msg \in {"keep", "refresh", "fragment", "route"},
           r.next # "none" <=> r.msg = "route",
           IF r.msg = "route" THEN phase = "update" /\ phase' = "serving" ELSE PhaseMoves,
           r.msg = "refresh" => phase = "serving",
           UNCHANGED <<closed, invalid, sendPool, recvPool, wire, switching, authed, sentStamp, heard,
                       hasData, allowed, registered, handler, overtook, trouble>>
    PROVE  SessInv'
  <1>1. SessTyped
    BY Zenon DEF SessInv
  <1>2. Append(queue["up"], r) \in Seq(WriteRequest)
    BY <1>1 DEF SessTyped, End
  <1>3. queue' \in [End -> Seq(WriteRequest)]
    BY <1>1, <1>2, Zenon DEF SessTyped, Enqueue
  <1>4. SessTyped'
    BY <1>1, <1>3, Zenon DEF SessTyped
  <1>5. upQueue' = Append(upQueue, r) /\ srvQueue' = srvQueue
    BY <1>1, Zenon DEF SessTyped, End, Enqueue, upQueue, srvQueue
  <1>6. UNCHANGED <<upWire, srvWire, upSend, srvSend, upRecv, srvRecv, upInvalid, srvInvalid,
                    srvClosed, srvData>>
    BY Zenon DEF upWire, srvWire, upSend, srvSend, upRecv, srvRecv, upInvalid, srvInvalid, srvClosed, srvData
  <1> QED
    BY <1>4, <1>5, <1>6, UpEnqueues, Zenon

\* The server's keep-alives and forwarders queue a packet.
LEMMA SrvQueuesPacket ==
    ASSUME SessInv, RouteRead, NEW m \in {"keep", "request"}, Enqueue("srv", PacketRequest(m)),
           UNCHANGED <<closed, invalid, sendPool, recvPool, wire, switching, authed, sentStamp, heard,
                       hasData, phase, allowed, registered, handler, overtook, trouble>>
    PROVE  SessInv'
  <1>1. SessTyped
    BY Zenon DEF SessInv
  <1>p. PacketRequest(m) \in WriteRequest
    BY Zenon DEF PacketRequest, WriteRequest, Message, Pool
  <1>2. Append(queue["srv"], PacketRequest(m)) \in Seq(WriteRequest)
    BY <1>1, <1>p DEF SessTyped, End
  <1>3. queue' \in [End -> Seq(WriteRequest)]
    BY <1>1, <1>2, Zenon DEF SessTyped, Enqueue
  <1>4. SessTyped'
    BY <1>1, <1>3, Zenon DEF SessTyped
  <1>5. srvQueue' = Append(srvQueue, PacketRequest(m)) /\ upQueue' = upQueue
    BY <1>1, Zenon DEF SessTyped, End, Enqueue, upQueue, srvQueue
  <1>6. UNCHANGED <<upWire, srvWire, upSend, srvSend, upRecv, srvRecv, upInvalid, srvInvalid,
                    srvClosed, srvData>>
    BY Zenon DEF upWire, srvWire, upSend, srvSend, upRecv, srvRecv, upInvalid, srvInvalid, srvClosed, srvData
  <1> QED
    BY <1>4, <1>5, <1>6, SrvEnqueues, Zenon

\* keepAliveLoop: the upstream beats once it serves, the server once it has data,
\* and data reaches it only behind the final fragment.
LEMMA BeatKeeps ==
    ASSUME SessInv, NEW e \in End, KeepAlive(e)
    PROVE  SessInv'
  <1>t. SessTyped /\ SrvPools
    BY Zenon DEF SessInv
  <1>0. phase' = phase /\ PhaseMoves
    BY Zenon DEF KeepAlive, PhaseMoves
  <1>1. CASE ~CanSend(e)
    <2>1. closed' = [o \in End |-> closed[o] \/ o \in {e}] /\ {e} \in SUBSET End
      BY <1>1, Zenon DEF KeepAlive, CloseEnds
    <2>2. UNCHANGED <<invalid, sendPool, recvPool, queue, wire, switching, authed, sentStamp, heard,
                      hasData, allowed, registered, handler, overtook, trouble>>
      BY <1>1, Zenon DEF KeepAlive
    <2> QED
      BY <1>0, <2>1, <2>2, ClosingStep, Zenon
  <1>2. CASE CanSend(e) /\ e = "up"
    <2>1. PICK m \in {"keep", "refresh"} : Enqueue("up", PacketRequest(m))
      BY <1>2, Zenon DEF KeepAlive
    <2>2. PICK r \in WriteRequest : r = PacketRequest(m)
      BY Zenon DEF PacketRequest, WriteRequest, Message, Pool
    <2>3. r.kind = "packet" /\ r.msg = m /\ r.next = "none"
      BY <2>2, Zenon DEF PacketRequest
    <2>4. /\ phase = "serving"
          /\ UNCHANGED <<closed, invalid, sendPool, recvPool, wire, switching, authed, sentStamp, heard,
                         hasData, allowed, registered, handler, overtook, trouble>>
      BY <1>2, Zenon DEF KeepAlive
    <2> QED
      BY <1>0, <2>1, <2>2, <2>3, <2>4, UpQueuesPacket, Zenon
  <1>3. CASE CanSend(e) /\ e = "srv"
    <2>1. /\ hasData["srv"] /\ Enqueue("srv", PacketRequest("keep"))
          /\ UNCHANGED <<closed, invalid, sendPool, recvPool, wire, switching, authed, sentStamp, heard,
                         hasData, phase, allowed, registered, handler, overtook, trouble>>
      BY <1>3, Zenon DEF KeepAlive
    <2>2. RouteRead
      BY <1>t, <2>1, Zenon DEF SrvPools, srvData
    <2> QED
      BY <2>1, <2>2, SrvQueuesPacket, Zenon
  <1> QED
    BY <1>1, <1>2, <1>3, Zenon DEF End

\* A step of the loop that sends a packet or gives the mux up.
LEMMA LoopKeeps ==
    ASSUME SessInv, NEW r \in WriteRequest, NEW next, LoopSends(r, next), r.kind = "packet",
           r.msg \in {"keep", "fragment", "route"},
           r.next # "none" <=> r.msg = "route",
           phase \in {"probe", "update"},
           IF r.msg = "route" THEN phase = "update" /\ next = "serving"
                              ELSE next \in {"waitAuth", phase},
           UNCHANGED <<invalid, sendPool, recvPool, wire, switching, authed, sentStamp, heard,
                       hasData, allowed, registered, handler, overtook, trouble>>
    PROVE  SessInv'
  <1>1. CASE CanSend("up")
    <2>1. Enqueue("up", r) /\ phase' = next /\ closed' = closed
      BY <1>1, Zenon DEF LoopSends
    <2>2. IF r.msg = "route" THEN phase = "update" /\ phase' = "serving" ELSE PhaseMoves
      BY <2>1, Zenon DEF PhaseMoves
    <2> QED
      BY <2>1, <2>2, UpQueuesPacket, Zenon
  <1>2. CASE ~CanSend("up")
    <2>1. /\ closed' = [e \in End |-> closed[e] \/ e \in {"up"}] /\ queue' = queue
          /\ {"up"} \in SUBSET End /\ PhaseMoves
      BY <1>2, Zenon DEF LoopSends, CloseEnds, PhaseMoves, End
    <2> QED
      BY <2>1, ClosingStep, Zenon
  <1> QED
    BY <1>1, <1>2, Zenon

-----------------------------------------------------------------------------
(* The session *)

\* A new session.
LEMMA SessInit_Inv == SessInit => SessInv
  <1> SUFFICES ASSUME SessInit PROVE SessInv
    BY Zenon
  <1>1. SessTyped
    <2>1. sendPool \in [End -> Pool] /\ recvPool \in [End -> Pool]
      BY DEF SessInit, End, Pool
    <2>2. queue \in [End -> Seq(WriteRequest)] /\ wire \in [End -> Seq(WirePacket)]
      <3>1. <<>> \in Seq(WriteRequest) /\ <<>> \in Seq(WirePacket)
        OBVIOUS
      <3> QED
        BY <3>1, Zenon DEF SessInit
    <2> QED
      BY <2>1, <2>2, Zenon DEF SessInit, SessTyped
  <1>2. /\ upQueue = <<>> /\ srvQueue = <<>> /\ upWire = <<>> /\ srvWire = <<>>
        /\ upSend = "epoch" /\ srvSend = "none" /\ upRecv = "epoch" /\ srvRecv = "none"
        /\ ~upInvalid /\ ~srvInvalid /\ ~srvData
    BY Zenon DEF SessInit, End, upQueue, srvQueue, upWire, srvWire, upSend, srvSend, upRecv, srvRecv,
           upInvalid, srvInvalid, srvData
  <1>3. /\ phase = "probe" /\ ~switching /\ ~sentStamp /\ ~authed /\ ~heard /\ ~registered /\ allowed
        /\ handler = "loop"
    BY Zenon DEF SessInit
  <1>4. ~RouteWritten /\ ~RouteRead
    BY <1>2, <1>3, Zenon DEF RouteWritten, RouteRead
  <1>5. UpQueue /\ UpPools /\ UpWire
    BY <1>2, <1>3, <1>4 DEF UpQueue, UpPools, UpWire
  <1>6. SrvPools /\ SrvSends
    BY <1>2, <1>3, <1>4 DEF SrvPools, SrvSends
  <1>7. DiallerUndisturbed /\ SoundSession
    BY <1>2, <1>3, <1>4 DEF DiallerUndisturbed, SoundSession, UpWireSound
  <1> QED
    BY <1>1, <1>5, <1>6, <1>7, Zenon DEF SessInv

\* One step of either end, of the wire or of the world around them.
LEMMA SessNext_Inv ==
    ASSUME SessInv, [SessNext]_sessVars
    PROVE  SessInv'
  <1>1. ASSUME NEW e \in End, WriterSends(e) PROVE SessInv'
    BY <1>1, UpWrites, SrvWrites, Zenon DEF End
  <1>2. ASSUME NEW e \in End, WriterFails(e) \/ ReadError(e) PROVE SessInv'
    <2>1. /\ closed' = [o \in End |-> closed[o] \/ o \in {e}] /\ {e} \in SUBSET End
          /\ UNCHANGED <<invalid, sendPool, recvPool, queue, wire, switching, authed, sentStamp, heard,
                         hasData, phase, allowed, registered, handler, overtook, trouble>>
      BY <1>2, Zenon DEF WriterFails, ReadError, CloseEnds
    <2> QED
      BY <2>1, ClosingStep, Zenon DEF PhaseMoves
  <1>3. ASSUME NEW e \in End, ReadPacket(e) PROVE SessInv'
    BY <1>3, UpReads, SrvReads, Zenon DEF End
  <1>4. ASSUME NEW e \in End, Drain(e) PROVE SessInv'
    BY <1>4, UpDrains, SrvDrains, Zenon DEF End
  <1>5. ASSUME NEW e \in End, KeepAlive(e) PROVE SessInv'
    BY <1>5, BeatKeeps, Zenon
  <1>6. ASSUME NEW e \in End, Damage(e) PROVE SessInv'
    BY <1>6, DamageKeeps, Zenon
  <1>7. CASE WriterStoresPools
    BY <1>7, UpStores, Zenon
  <1>8. CASE WriterSwitches
    BY <1>8, SrvSwitches, Zenon
  <1>9. CASE SwitchObfPool
    BY <1>9, ReaderSwitches, Zenon
  <1>10. CASE DeadlineFires
    BY <1>10, ClosingStep, Zenon DEF DeadlineFires, PhaseMoves
  <1>11. CASE SendProbe
    <2>1. PICK r \in WriteRequest : r = PacketRequest("keep")
      BY Zenon DEF PacketRequest, WriteRequest, Message, Pool
    <2>2. r.kind = "packet" /\ r.msg = "keep" /\ r.next = "none"
      BY <2>1, Zenon DEF PacketRequest
    <2> QED
      BY <1>11, <2>1, <2>2, LoopKeeps, Zenon DEF SendProbe
  <1>12. CASE WaitAuthOK
    <2>1. /\ PhaseMoves
          /\ \/ closed' = closed
             \/ closed' = [o \in End |-> closed[o] \/ o \in {"up"}] /\ {"up"} \in SUBSET End
          /\ UNCHANGED <<invalid, sendPool, recvPool, queue, wire, switching, authed, sentStamp, heard,
                         hasData, allowed, registered, handler, overtook, trouble>>
      BY <1>12, Zenon DEF WaitAuthOK, CloseEnds, PhaseMoves, End
    <2> QED
      BY <2>1, ClosingStep, Zenon
  <1>13. CASE SendUpdate
    <2>1. PICK r \in WriteRequest, next \in {"update", "serving"} :
             /\ LoopSends(r, next)
             /\ \/ next = "update" /\ r = PacketRequest("fragment")
                \/ next = "serving" /\ r = FinalRequest
      BY <1>13, Zenon DEF SendUpdate, PacketRequest, FinalRequest, WriteRequest, Message, Pool
    <2>2. /\ r.kind = "packet" /\ r.msg \in {"fragment", "route"}
          /\ r.next # "none" <=> r.msg = "route"
          /\ r.msg = "route" <=> next = "serving"
      BY <2>1 DEF PacketRequest, FinalRequest
    <2> QED
      BY <1>13, <2>1, <2>2, LoopKeeps, Zenon DEF SendUpdate
  <1>14. CASE Forward
    <2>1. RouteRead
      BY <1>14, Zenon DEF SessInv, SrvPools, Forward
    <2> QED
      BY <1>14, <2>1, SrvQueuesPacket, Zenon DEF Forward
  <1>15. CASE Revoke
    BY <1>15, RevokeKeeps, Zenon
  <1>16. CASE UNCHANGED sessVars
    BY <1>16, ClosingStep, Zenon DEF sessVars, PhaseMoves
  <1> QED
    BY <1>1, <1>2, <1>3, <1>4, <1>5, <1>6, <1>7, <1>8, <1>9, <1>10, <1>11, <1>12, <1>13, <1>14, <1>15,
       <1>16, Zenon DEF SessNext

\* Neither end gives up a session that nothing has disturbed: the accepting end
\* turns invalid only when bytes were changed, the clocks drifted apart or the
\* permission was withdrawn, the dialling end only through changed bytes or one
\* of the two races around the pool switch, for any number of fragments,
\* forwarded requests and keep-alives and any capacity of the write queue.
THEOREM SessionsSound == SessSpec => []InvalidHasCause
  <1>1. SessInv => InvalidHasCause
    BY Zenon DEF SessInv, InvalidHasCause, AcceptorReadsSoundSession, DiallerInvalidOnlyByOvertaking,
           SoundSession, Sound, UpWireSound, DiallerUndisturbed, srvInvalid, upInvalid
  <1> QED
    BY <1>1, SessInit_Inv, SessNext_Inv, PTL DEF SessSpec

-----------------------------------------------------------------------------
(* CreditFlow *)

\* The part of the account the receiver has not sent back stays below the
\* window and the debt: a release leaves less than one window behind, growing
\* raises the window, and shrinking moves window into debt.
PendingBelowWindow == pending < Window[index] + debt

\* The inductive invariant: the types, the conservation law, and the bound on
\* the unsent remainder that conservation alone does not give.
IInv == TypeOK /\ CreditConservation /\ PendingBelowWindow

\* Neighbouring windows are positive naturals and increase.
LEMMA WindowSteps ==
    ASSUME NEW i \in 0..MaxIndex
    PROVE  /\ Window[i] \in Nat /\ Window[i] > 0
           /\ i < MaxIndex => /\ i + 1 \in 0..MaxIndex
                              /\ Window[i + 1] \in Nat
                              /\ Window[i + 1] > Window[i]
           /\ i > 0 => /\ i - 1 \in 0..MaxIndex
                       /\ Window[i - 1] \in Nat
                       /\ Window[i - 1] > 0
                       /\ Window[i] > Window[i - 1]
  BY IndexAssumption, WindowAssumption

\* A new channel.
LEMMA InitIInv == Init => IInv
  <1>1. /\ InitialIndex \in 0..MaxIndex /\ MaxResponses \in Nat
        /\ Window[InitialIndex] \in Nat /\ Window[InitialIndex] > 0
    BY IndexAssumption, BoundAssumption, WindowSteps, Zenon
  <1> SUFFICES ASSUME Init PROVE IInv
    BY Zenon
  <1>2. TypeOK
    <2>1. surplus \in 0..MaxResponses /\ index \in 0..MaxIndex
      BY <1>1 DEF Init
    <2>2. exceeded \in BOOLEAN
      BY Zenon DEF Init
    <2> QED
      BY <1>1, <2>1, <2>2, Zenon DEF Init, TypeOK
  <1>3. CreditConservation /\ PendingBelowWindow
    BY <1>1 DEF Init, CreditConservation, PendingBelowWindow
  <1> QED
    BY <1>2, <1>3, Zenon DEF IInv

\* Adjusting the window keeps the balance between what was granted and what
\* the window and the debt allow.
LEMMA AdjustBalance ==
    ASSUME TypeOK, NEW b \in Nat, AdjustWindow(b)
    PROVE  /\ index' \in 0..MaxIndex /\ debt' \in Nat /\ granted' \in Nat
           /\ Window[index'] \in Nat
           /\ Window[index'] + debt' - granted' = Window[index] + debt - granted
           /\ Window[index'] + debt' >= Window[index] + debt
  <1>1. index \in 0..MaxIndex /\ debt \in Nat /\ granted \in Nat
    BY Zenon DEF TypeOK
  <1>2. /\ MaxIndex \in Nat
        /\ Window[index] \in Nat
        /\ index < MaxIndex => /\ index + 1 \in 0..MaxIndex
                               /\ Window[index + 1] \in Nat
                               /\ Window[index + 1] > Window[index]
        /\ index > 0 => /\ index - 1 \in 0..MaxIndex
                        /\ Window[index - 1] \in Nat
                        /\ Window[index] > Window[index - 1]
    BY <1>1, IndexAssumption, WindowSteps, Zenon
  <1>3. CASE UNCHANGED <<index, debt, granted>>
    BY <1>1, <1>2, <1>3
  <1>4. CASE /\ index < MaxIndex
             /\ index' = index + 1
             /\ granted' = granted + (Window[index + 1] - Window[index])
             /\ UNCHANGED debt
    BY <1>1, <1>2, <1>4
  <1>5. CASE /\ index > 0
             /\ Window[index - 1] >= b
             /\ index' = index - 1
             /\ debt' = debt + (Window[index] - Window[index - 1])
             /\ debt' <= MaxDebt
             /\ UNCHANGED granted
    BY <1>1, <1>2, <1>5
  <1> QED
    BY <1>3, <1>4, <1>5, Zenon DEF AdjustWindow

\* Every step keeps the account balanced.
LEMMA NextIInv == IInv /\ [Next]_vars => IInv'
  <1> SUFFICES ASSUME IInv, [Next]_vars PROVE IInv'
    BY Zenon
  <1> USE DEF IInv, TypeOK, CreditConservation, PendingBelowWindow
  <1>w. /\ Window[index] \in Nat /\ Window[index] > 0
        /\ MaxWindow \in Nat /\ MaxIndex \in Nat /\ MaxResponses \in Nat
    BY IndexAssumption, BoundAssumption, WindowSteps DEF MaxWindow
  <1>1. ASSUME NEW n \in 1..sendCredit, ReserveSendCredit(n) PROVE IInv'
    BY <1>w, <1>1 DEF ReserveSendCredit
  <1>2. ASSUME NEW n \in 1..inFlight, Refund(n) PROVE IInv'
    BY <1>w, <1>2 DEF Refund, AddSendCredit
  <1>3. ASSUME NEW n \in 1..inFlight, EnqueuePayload(n) PROVE IInv'
    <2>1. CASE recvBuffered + n > AllowedWindow
      BY <1>w, <1>3, <2>1 DEF EnqueuePayload
    <2>2. CASE ~(recvBuffered + n > AllowedWindow)
      <3>1. AdjustWindow(recvBuffered + n) /\ recvBuffered + n \in Nat
        BY <1>3, <2>2 DEF EnqueuePayload
      <3> QED
        BY <1>w, <1>3, <2>2, <3>1, AdjustBalance DEF EnqueuePayload
    <2> QED
      BY <2>1, <2>2, Zenon
  <1>4. ASSUME NEW n \in 1..inFlight, LoseInFlight(n) PROVE IInv'
    BY <1>w, <1>4 DEF LoseInFlight
  <1>5. ASSUME NEW n \in 1..granted, ReceiveUpdate(n) PROVE IInv'
    BY <1>w, <1>5 DEF ReceiveUpdate, AddSendCredit
  <1>6. ASSUME NEW n \in 1..granted, LoseGranted(n) PROVE IInv'
    BY <1>w, <1>6 DEF LoseGranted
  <1>7. CASE EnqueueResponse
    <2>1. CASE recvBuffered + 1 > AllowedWindow
      BY <1>w, <1>7, <2>1 DEF EnqueueResponse
    <2>2. CASE ~(recvBuffered + 1 > AllowedWindow)
      <3>1. AdjustWindow(recvBuffered + 1) /\ recvBuffered + 1 \in Nat
        BY <1>7, <2>2 DEF EnqueueResponse
      <3> QED
        BY <1>w, <1>7, <2>2, <3>1, AdjustBalance DEF EnqueueResponse
    <2> QED
      BY <2>1, <2>2, Zenon
  <1>8. ASSUME NEW n \in 1..recvBuffered, Read(n) PROVE IInv'
    BY <1>w, <1>8 DEF Read
  <1>9. ASSUME NEW n \in 1..held, ReleaseCredit(n) PROVE IInv'
    BY <1>w, <1>9 DEF ReleaseCredit, Withheld, BelowThreshold
  <1>10. CASE LoseBuffered
    BY <1>w, <1>10 DEF LoseBuffered
  <1>11. CASE LoseHeld
    BY <1>w, <1>11 DEF LoseHeld
  <1>12. CASE UNCHANGED vars
    BY <1>12, Zenon DEF vars
  <1> QED
    BY <1>1, <1>2, <1>3, <1>4, <1>5, <1>6, <1>7, <1>8, <1>9, <1>10, <1>11, <1>12, Zenon
    DEF Next

\* The inductive invariant holds throughout.
LEMMA AlwaysIInv == Spec => []IInv
  BY InitIInv, NextIInv, PTL DEF Spec

\* The account's variables keep their types in every behaviour.
THEOREM TypeCorrect == Spec => []TypeOK
  <1>1. IInv => TypeOK
    BY Zenon DEF IInv
  <1> QED
    BY <1>1, AlwaysIInv, PTL

\* Credit is conserved: no interleaving of writer, reader, read loop and
\* window updates creates or forgets a byte of credit.
THEOREM Conservation == Spec => []CreditConservation
  <1>1. IInv => CreditConservation
    BY Zenon DEF IInv
  <1> QED
    BY <1>1, AlwaysIInv, PTL

\* A sender is never starved by the batching of window updates or by the debt
\* of a shrunk window: only lost credit can leave it without any.
THEOREM Starvation == Spec => []NeverStarved
  <1>1. IInv => NeverStarved
    BY IndexAssumption, WindowSteps
    DEF IInv, TypeOK, CreditConservation, PendingBelowWindow, NeverStarved
  <1> QED
    BY <1>1, AlwaysIInv, PTL

\* An honest sender is refused only after response bytes inflated its credit,
\* or when the receiver advertised more than the largest window.
THEOREM OverrunCause == Spec => OverrunOnlyIfOverAdvertised
  <1>1. ASSUME IInv, [Next]_vars, ~exceeded, exceeded'
        PROVE  surplus' > 0 \/ Window[index] + debt > MaxWindow
    <2> USE DEF IInv, TypeOK, CreditConservation
    <2>w. Window[index] \in Nat /\ MaxWindow \in Nat
      BY <1>1, IndexAssumption, WindowSteps DEF MaxWindow
    <2>1. CASE EnqueueResponse
      BY <1>1, <2>1 DEF EnqueueResponse
    <2>2. ASSUME NEW n \in 1..inFlight, EnqueuePayload(n)
          PROVE  surplus' > 0 \/ Window[index] + debt > MaxWindow
      <3>1. recvBuffered + n > AllowedWindow /\ surplus' = surplus
        BY <1>1, <2>2, Zenon DEF EnqueuePayload
      <3>2. recvBuffered + n <= Window[index] + debt + surplus
        BY <1>1, <2>w, <2>2
      <3> QED
        BY <1>1, <2>w, <3>1, <3>2 DEF AllowedWindow
    <2> QED
      BY <1>1, <2>1, <2>2, Zenon
      DEF Next, vars, ReserveSendCredit, Refund, LoseInFlight, ReceiveUpdate,
          LoseGranted, Read, ReleaseCredit, LoseBuffered, LoseHeld
  <1>2. IInv /\ [Next]_vars
           => [~exceeded /\ exceeded'
                 => surplus' > 0 \/ Window[index] + debt > MaxWindow]_vars
    BY <1>1, Zenon
  <1> QED
    BY <1>2, AlwaysIInv, PTL DEF Spec, OverrunOnlyIfOverAdvertised
===============================================================================
