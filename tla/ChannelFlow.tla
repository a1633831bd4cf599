---------------------------- MODULE ChannelFlow ----------------------------
(***************************************************************************)
(* One direction of one mux channel: the writer at the sending end, the two *)
(* socket directions, the read loop and the reader at the receiving end,    *)
(* with credit flow control, the adaptive receive window, the half-close    *)
(* (FIN) and the abort (CLOSE).   (pkg/mux/channel.go, flow_control.go,     *)
(* channel_response.go, netconn.go)                                         *)
(*                                                                          *)
(* A lock region of the code is one step; what the code does after it       *)
(* unlocks (sending a window update, queueing a reserved chunk) is a later  *)
(* step, so every interleaving of writer, reader and read loop is explored. *)
(*                                                                          *)
(* The write queue of a mux is shared by all its channels, and so is the    *)
(* receive-window budget of a server: whether they are exhausted is the     *)
(* choice of the environment as far as one channel can tell.                *)
(***************************************************************************)
EXTENDS Integers, Sequences, SequencesExt

CONSTANTS
    MinWindow,      \* FlowControlMinWindowSize
    MaxIndex,       \* flowControlMaxWindowIndex
    InitialIndex,   \* flowControlInitialWindowIndex
    GrowHits,       \* flowControlGrowHits
    ShrinkHits,     \* flowControlShrinkHits
    MaxPayload,     \* MaxPacketPayloadSize
    WriteSizes,     \* the lengths a Write call is given
    Responses,      \* status bytes sent on this direction before any data:
                    \* two from the side that accepted the channel, else none
    MaxBytes,       \* bound of the model: payload bytes sent in a behaviour
    PathCap,        \* bound of the model: messages in one socket direction
    Environment     \* the events explored, a subset of EnvironmentEvents

EnvironmentEvents == {"queueFull", "budgetDenied", "abort"}

ASSUME FlowAssumption ==
    /\ MinWindow \in Nat \ {0} /\ MaxIndex \in Nat /\ InitialIndex \in 0..MaxIndex
    /\ GrowHits \in Nat \ {0} /\ ShrinkHits \in Nat \ {0}
    /\ MaxPayload \in Nat \ {0} /\ WriteSizes \subseteq Nat \ {0}
    /\ Responses \in Nat /\ MaxBytes \in Nat /\ PathCap \in Nat \ {0}
    /\ Environment \subseteq EnvironmentEvents

VARIABLES
    \* the sending end
    sendCredit,         \* credit left
    remaining,          \* bytes of the current Write call not yet queued; the
                        \* call holds NetConn.writeMu until this is 0
    chunk,              \* credit reserved for the packet about to be queued
    copying,            \* the relay's copy goroutine still writes to the channel
    localFIN,           \* FIN was queued
    sClosed,            \* closedFlag of the sending end
    aborting,           \* NetConn.Close was called and waits for writeMu
    answered,           \* status bytes queued so far
    \* the socket
    fwd, back,
    \* the receiving end
    recvQueue, recvBuffered, recvCreditPending, recvUpdateTarget,
    recvWindowIndex, recvCreditDebt,
    samples,            \* the high, low and throughput counters
    remoteWriteClosed,  \* FIN was received
    rClosed,            \* closedFlag of the receiving end
    extraCredit,        \* grown window the read loop still has to announce
    held,               \* bytes popped by the reader, credit not yet released
    readerCredit,       \* released credit the reader still has to announce
    eof,                \* the reader was told io.EOF
    invalid,            \* why the receiving mux became invalid, or "no"
    \* history
    sent, delivered,    \* payload bytes queued by the sender, popped by Read
    surplus             \* status bytes that entered the receive queue

senderVars == <<sendCredit, remaining, chunk, copying, localFIN, sClosed,
                aborting, answered, sent>>
windowVars == <<recvCreditPending, recvUpdateTarget, recvWindowIndex,
                recvCreditDebt, samples>>
queueVars  == <<recvQueue, recvBuffered, remoteWriteClosed, rClosed, surplus>>
readerVars == <<held, readerCredit, eof, delivered>>
vars == <<senderVars, fwd, back, windowVars, queueVars, readerVars, extraCredit,
          invalid>>

----------------------------------------------------------------------------
(* Sizes. *)

Least(a, b) == IF a < b THEN a ELSE b

FlowControlWindowForIndex(index) ==
    MinWindow * 2 ^ (IF index < 0 THEN 0 ELSE Least(index, MaxIndex))

MaxWindow == FlowControlWindowForIndex(MaxIndex)

\* Mutant: the window is multiplied where it should be divided.
UpdateThresholdsTooHigh(window) == {window * 4}

\* The update threshold is drawn at random from this range.
UpdateThresholds(window) == (window \div 16) .. (window \div 4)

RecvWindow == FlowControlWindowForIndex(recvWindowIndex)

RecvAllowedWindow == Least(RecvWindow + recvCreditDebt, MaxWindow)

\* Counters after a reset.
NoSamples == [high |-> 0, low |-> 0, lowBytes |-> 0, tBytes |-> 0, tCount |-> 0]

Message(kind, n) == [kind |-> kind, n |-> n]

\* Payload bytes of the messages of one kind.
Bytes(kind, messages) ==
    FoldSeq(LAMBDA m, sum : IF m.kind = kind THEN sum + m.n ELSE sum, 0, messages)

QueueMayFill == "queueFull" \in Environment

Init ==
    /\ sendCredit = FlowControlWindowForIndex(InitialIndex)
    /\ remaining = 0 /\ chunk = 0
    /\ copying = TRUE /\ localFIN = FALSE /\ sClosed = FALSE /\ aborting = FALSE
    /\ answered = 0 /\ sent = 0
    /\ fwd = <<>> /\ back = <<>>
    /\ recvQueue = <<>> /\ recvBuffered = 0
    /\ recvWindowIndex = InitialIndex /\ recvCreditDebt = 0
    /\ recvCreditPending = 0
    /\ recvUpdateTarget \in UpdateThresholds(FlowControlWindowForIndex(InitialIndex))
    /\ samples = NoSamples
    /\ remoteWriteClosed = FALSE /\ rClosed = FALSE
    /\ extraCredit = 0 /\ held = 0 /\ readerCredit = 0
    /\ eof = FALSE /\ delivered = 0 /\ surplus = 0
    /\ invalid = "no"

----------------------------------------------------------------------------
(* The sending end. *)

\* A packet goes on the socket; PathCap bounds the packets under way.
Queue(m) == Len(fwd) < PathCap /\ fwd' = Append(fwd, m)

\* Mutant: without the upper bound.
AddSendCreditUnbounded(n) ==
    sendCredit' = IF sClosed THEN sendCredit ELSE sendCredit + n

\* Credit added at a closed end is dropped, and it never exceeds the largest
\* window.
AddSendCredit(n) ==
    sendCredit' = IF sClosed THEN sendCredit ELSE Least(sendCredit + n, MaxWindow)

\* The accepting side answers the channel request before it relays data. If
\* the answer cannot be queued the channel is closed without a CLOSE.
SendResponse ==
    /\ answered < Responses /\ ~sClosed
    /\ \/ /\ Queue(Message("response", 1))
          /\ answered' = answered + 1
          /\ sent' = sent + 1
          /\ UNCHANGED sClosed
       \/ /\ QueueMayFill
          /\ sClosed' = TRUE
          /\ UNCHANGED <<fwd, answered, sent>>
    /\ UNCHANGED <<sendCredit, remaining, chunk, copying, localFIN, aborting, back,
                   windowVars, queueVars, readerVars, extraCredit, invalid>>

\* NetConn.Write takes writeMu and keeps it until every byte is queued.
Write(n) ==
    /\ copying /\ remaining = 0 /\ answered = Responses
    /\ ~sClosed /\ ~localFIN
    /\ sent + n <= MaxBytes
    /\ remaining' = n
    /\ UNCHANGED <<sendCredit, chunk, copying, localFIN, sClosed, aborting, answered,
                   sent, fwd, back, windowVars, queueVars, readerVars, extraCredit,
                   invalid>>

\* The writer waits until there is credit or the channel is closed.
ReserveSendCredit ==
    /\ remaining > 0 /\ chunk = 0
    /\ \/ /\ sClosed
          /\ remaining' = 0
          /\ copying' = FALSE
          /\ UNCHANGED <<chunk, sendCredit>>
       \/ /\ ~sClosed /\ sendCredit > 0
          /\ chunk' = Least(Least(remaining, MaxPayload), sendCredit)
          /\ sendCredit' = sendCredit - chunk'
          /\ UNCHANGED <<remaining, copying>>
    /\ UNCHANGED <<localFIN, sClosed, aborting, answered, sent, fwd, back,
                   windowVars, queueVars, readerVars, extraCredit, invalid>>

\* The reserved chunk is queued, or refunded when the write queue is full: the
\* Write call fails and the relay aborts the channel.
SendChunk ==
    /\ chunk > 0
    /\ \/ /\ Queue(Message("data", chunk))
          /\ remaining' = remaining - chunk
          /\ sent' = sent + chunk
          /\ UNCHANGED <<sendCredit, copying, aborting>>
       \/ /\ QueueMayFill
          /\ AddSendCredit(chunk)
          /\ remaining' = 0
          /\ copying' = FALSE
          /\ aborting' = TRUE
          /\ UNCHANGED <<fwd, sent>>
    /\ chunk' = 0
    /\ UNCHANGED <<localFIN, sClosed, answered, back, windowVars, queueVars,
                   readerVars, extraCredit, invalid>>

\* Mutant: CloseWrite without writeMu, in the middle of a Write call.
SendFINUnlocked ==
    /\ copying /\ answered = Responses /\ ~sClosed /\ ~localFIN
    /\ Queue(Message("fin", 0))
    /\ localFIN' = TRUE
    /\ UNCHANGED <<sendCredit, remaining, chunk, copying, aborting, sClosed, answered,
                   sent, back, windowVars, queueVars, readerVars, extraCredit, invalid>>

\* The relay's source ended: CloseWrite. localFIN is reset when the FIN cannot
\* be queued, and the relay aborts.
SendFIN ==
    /\ copying /\ remaining = 0 /\ answered = Responses
    /\ ~sClosed /\ ~localFIN
    /\ copying' = FALSE
    /\ \/ /\ Queue(Message("fin", 0))
          /\ localFIN' = TRUE
          /\ UNCHANGED aborting
       \/ /\ QueueMayFill
          /\ aborting' = TRUE
          /\ UNCHANGED <<fwd, localFIN>>
    /\ UNCHANGED <<sendCredit, remaining, chunk, sClosed, answered, sent, back,
                   windowVars, queueVars, readerVars, extraCredit, invalid>>

\* The other goroutine of the relay failed and calls NetConn.Close.
StartAbort ==
    /\ "abort" \in Environment
    /\ ~sClosed /\ ~aborting /\ answered = Responses
    /\ aborting' = TRUE
    /\ UNCHANGED <<sendCredit, remaining, chunk, copying, localFIN, sClosed, answered,
                   sent, fwd, back, windowVars, queueVars, readerVars, extraCredit,
                   invalid>>

\* Mutant: the channel is closed without telling the peer.
SendCloseSilently ==
    /\ aborting /\ remaining = 0 /\ ~sClosed
    /\ sClosed' = TRUE
    /\ UNCHANGED <<sendCredit, remaining, chunk, copying, localFIN, aborting, answered,
                   sent, fwd, back, windowVars, queueVars, readerVars, extraCredit,
                   invalid>>

\* NetConn.Close got writeMu. A CLOSE that cannot be queued is forgotten.
SendClose ==
    /\ aborting /\ remaining = 0 /\ ~sClosed
    /\ sClosed' = TRUE
    /\ \/ Queue(Message("close", 0))
       \/ QueueMayFill /\ UNCHANGED fwd
    /\ UNCHANGED <<sendCredit, remaining, chunk, copying, localFIN, aborting, answered,
                   sent, back, windowVars, queueVars, readerVars, extraCredit, invalid>>

\* Both directions ended cleanly: NetConn.Finalize releases the channel and
\* sends nothing.
FinalizeSender ==
    /\ localFIN /\ ~sClosed /\ ~aborting
    /\ sClosed' = TRUE
    /\ UNCHANGED <<sendCredit, remaining, chunk, copying, localFIN, aborting, answered,
                   sent, fwd, back, windowVars, queueVars, readerVars, extraCredit,
                   invalid>>

\* The sending mux's read loop handles a window update or a CLOSE.
ReceiveControl ==
    /\ back # <<>>
    /\ back' = Tail(back)
    /\ \/ /\ Head(back).kind = "update"
          /\ AddSendCredit(Head(back).n)
          /\ UNCHANGED sClosed
       \/ /\ Head(back).kind = "close"
          /\ sClosed' = TRUE
          /\ UNCHANGED sendCredit
    /\ UNCHANGED <<remaining, chunk, copying, localFIN, aborting, answered, sent, fwd,
                   windowVars, queueVars, readerVars, extraCredit, invalid>>

----------------------------------------------------------------------------
(* The receiving end: the adaptive window. *)

\* Counters after a payload of n bytes made the queue hold `buffered` bytes.
\* The code only compares them with their thresholds, so they stop there.
Sample(n, buffered) ==
    LET total == samples.tBytes + n
        full  == total >= RecvWindow
        high  == buffered >= RecvWindow \div 2
        low   == ~high /\ buffered < RecvWindow \div 8
    IN  [high     |-> IF high THEN Least(samples.high + 1, GrowHits) ELSE 0,
         low      |-> IF low THEN Least(samples.low + 1, ShrinkHits) ELSE 0,
         lowBytes |-> IF low THEN Least(samples.lowBytes + n, RecvWindow \div 2)
                             ELSE 0,
         tBytes   |-> IF full THEN total % RecvWindow ELSE total,
         tCount   |-> IF full THEN Least(samples.tCount + 1, GrowHits)
                              ELSE samples.tCount]

WantsToGrow(s) ==
    /\ s.high >= GrowHits \/ s.tCount >= GrowHits
    /\ recvWindowIndex < MaxIndex

WantsToShrink(s, buffered) ==
    /\ s.low >= ShrinkHits
    /\ s.lowBytes < RecvWindow \div 2
    /\ recvWindowIndex > 0
    /\ FlowControlWindowForIndex(recvWindowIndex - 1) >= buffered

\* The budget of a server may refuse the larger window; the counters restart
\* either way. The extra credit is announced after the lock is released.
GrowReceiveWindow ==
    LET larger == FlowControlWindowForIndex(recvWindowIndex + 1)
    IN  /\ \/ /\ recvWindowIndex' = recvWindowIndex + 1
              /\ recvUpdateTarget' \in UpdateThresholds(larger)
              /\ extraCredit' = larger - RecvWindow
           \/ /\ "budgetDenied" \in Environment
              /\ UNCHANGED <<recvWindowIndex, recvUpdateTarget, extraCredit>>
        /\ samples' = NoSamples
        /\ UNCHANGED recvCreditDebt

\* Mutant: the debt is not recorded.
ShrinkReceiveWindowNoDebt ==
    /\ recvWindowIndex' = recvWindowIndex - 1
    /\ recvUpdateTarget' \in
          UpdateThresholds(FlowControlWindowForIndex(recvWindowIndex - 1))
    /\ samples' = NoSamples
    /\ UNCHANGED <<recvCreditDebt, extraCredit>>

\* Advertised credit is not revoked: it becomes debt.
ShrinkReceiveWindow ==
    LET smaller == FlowControlWindowForIndex(recvWindowIndex - 1)
    IN  /\ recvWindowIndex' = recvWindowIndex - 1
        /\ recvCreditDebt' = recvCreditDebt + (RecvWindow - smaller)
        /\ recvUpdateTarget' \in UpdateThresholds(smaller)
        /\ samples' = NoSamples
        /\ UNCHANGED extraCredit

AdjustReceiveWindow(n, buffered) ==
    LET s == Sample(n, buffered)
    IN  \/ WantsToGrow(s) /\ GrowReceiveWindow
        \/ ~WantsToGrow(s) /\ WantsToShrink(s, buffered) /\ ShrinkReceiveWindow
        \/ /\ ~WantsToGrow(s) /\ ~WantsToShrink(s, buffered)
           /\ samples' = s
           /\ UNCHANGED <<recvWindowIndex, recvUpdateTarget, recvCreditDebt,
                          extraCredit>>

----------------------------------------------------------------------------
(* The receiving end: the read loop. *)

\* A payload reaches an open channel of a valid mux.
EnqueuePayload(n) ==
    /\ IF remoteWriteClosed \/ recvBuffered + n > RecvAllowedWindow
       THEN /\ invalid' = IF remoteWriteClosed THEN "dataAfterFIN" ELSE "window"
            /\ UNCHANGED <<recvQueue, recvBuffered, recvWindowIndex,
                           recvUpdateTarget, recvCreditDebt, samples, extraCredit>>
       ELSE /\ recvQueue' = Append(recvQueue, n)
            /\ recvBuffered' = recvBuffered + n
            /\ AdjustReceiveWindow(n, recvBuffered + n)
            /\ UNCHANGED invalid
    /\ UNCHANGED <<remoteWriteClosed, rClosed, recvCreditPending>>

\* markClosed drops what is queued.
MarkClosed ==
    /\ rClosed' = TRUE
    /\ recvQueue' = <<>> /\ recvBuffered' = 0
    /\ UNCHANGED <<remoteWriteClosed, surplus>>

\* One packet of the socket. A mux that became invalid discards its input, and
\* packets for a closed channel are dropped.
ReceivePacket ==
    /\ fwd # <<>> /\ extraCredit = 0
    /\ fwd' = Tail(fwd)
    /\ LET m == Head(fwd)
       IN  \/ /\ rClosed \/ invalid # "no"
              /\ UNCHANGED <<windowVars, queueVars, extraCredit, invalid>>
           \/ /\ ~rClosed /\ invalid = "no"
              /\ \/ /\ m.kind \in {"data", "response"}
                    /\ EnqueuePayload(m.n)
                    /\ surplus' = IF m.kind = "response" THEN surplus + 1 ELSE surplus
                 \/ /\ m.kind = "fin"
                    /\ remoteWriteClosed' = TRUE
                    /\ UNCHANGED <<recvQueue, recvBuffered, rClosed, surplus,
                                   windowVars, extraCredit, invalid>>
                 \/ /\ m.kind = "close"
                    /\ MarkClosed
                    /\ UNCHANGED <<windowVars, extraCredit, invalid>>
    /\ UNCHANGED <<senderVars, back, readerVars>>

\* A window update that cannot be queued is forgotten.
SendWindowUpdate(n) ==
    \/ Len(back) < PathCap /\ back' = Append(back, Message("update", n))
    \/ QueueMayFill /\ UNCHANGED back

AnnounceGrowth ==
    /\ extraCredit > 0
    /\ SendWindowUpdate(extraCredit)
    /\ extraCredit' = 0
    /\ UNCHANGED <<senderVars, fwd, windowVars, queueVars, readerVars, invalid>>

----------------------------------------------------------------------------
(* The receiving end: the reader. *)

\* Channel.Read pops one payload under the lock.
Read ==
    /\ held = 0 /\ readerCredit = 0
    /\ recvQueue # <<>>
    /\ recvQueue' = Tail(recvQueue)
    /\ recvBuffered' = recvBuffered - Head(recvQueue)
    /\ held' = Head(recvQueue)
    /\ delivered' = delivered + Head(recvQueue)
    /\ UNCHANGED <<senderVars, fwd, back, windowVars, remoteWriteClosed, rClosed,
                   surplus, readerCredit, eof, extraCredit, invalid>>

\* Its credit is released in a second lock region: it pays the debt first, and
\* is announced once the threshold is reached.
ReleaseReceiveCredit ==
    LET owed     == recvCreditPending + held
        withheld == Least(owed, recvCreditDebt)
        target   == IF recvUpdateTarget > 0 THEN {recvUpdateTarget}
                                            ELSE UpdateThresholds(RecvWindow)
    IN  /\ held > 0
        /\ held' = 0
        /\ \/ /\ rClosed
              /\ UNCHANGED <<windowVars, readerCredit>>
           \/ /\ ~rClosed
              /\ recvCreditDebt' = recvCreditDebt - withheld
              /\ \E t \in target :
                    IF owed - withheld >= t
                    THEN /\ readerCredit' = owed - withheld
                         /\ recvCreditPending' = 0
                         /\ recvUpdateTarget' \in UpdateThresholds(RecvWindow)
                    ELSE /\ recvCreditPending' = owed - withheld
                         /\ recvUpdateTarget' = t
                         /\ UNCHANGED readerCredit
              /\ UNCHANGED <<recvWindowIndex, samples>>
        /\ UNCHANGED <<senderVars, fwd, back, queueVars, eof, delivered, extraCredit,
                       invalid>>

AnnounceCredit ==
    /\ readerCredit > 0
    /\ SendWindowUpdate(readerCredit)
    /\ readerCredit' = 0
    /\ UNCHANGED <<senderVars, fwd, windowVars, queueVars, held, eof, delivered,
                   extraCredit, invalid>>

\* Mutant: the end of the stream overtakes queued payloads.
ReadEOFEarly ==
    /\ held = 0 /\ readerCredit = 0
    /\ remoteWriteClosed /\ ~rClosed /\ ~eof
    /\ eof' = TRUE
    /\ UNCHANGED <<senderVars, fwd, back, windowVars, queueVars, held, readerCredit,
                   delivered, extraCredit, invalid>>

\* Read reports the end of the stream once the queue is empty.
ReadEOF ==
    /\ held = 0 /\ readerCredit = 0
    /\ recvQueue = <<>> /\ remoteWriteClosed /\ ~rClosed /\ ~eof
    /\ eof' = TRUE
    /\ UNCHANGED <<senderVars, fwd, back, windowVars, queueVars, held, readerCredit,
                   delivered, extraCredit, invalid>>

\* The receiving side's relay fails and aborts the channel.
AbortReceiver ==
    /\ "abort" \in Environment
    /\ ~rClosed
    /\ MarkClosed
    /\ \/ Len(back) < PathCap /\ back' = Append(back, Message("close", 0))
       \/ QueueMayFill /\ UNCHANGED back
    /\ UNCHANGED <<senderVars, fwd, windowVars, readerVars, extraCredit, invalid>>

\* Both directions ended cleanly at the receiving side.
FinalizeReceiver ==
    /\ eof /\ ~rClosed
    /\ MarkClosed
    /\ UNCHANGED <<senderVars, fwd, back, windowVars, readerVars, extraCredit,
                   invalid>>

----------------------------------------------------------------------------
Reader == Read \/ ReleaseReceiveCredit \/ AnnounceCredit \/ ReadEOF

Next ==
    \/ SendResponse
    \/ \E n \in WriteSizes : Write(n)
    \/ ReserveSendCredit \/ SendChunk \/ SendFIN
    \/ StartAbort \/ SendClose \/ FinalizeSender
    \/ ReceiveControl
    \/ ReceivePacket \/ AnnounceGrowth
    \/ Reader
    \/ AbortReceiver \/ FinalizeReceiver

Spec == Init /\ [][Next]_vars

\* The goroutines of the two muxes are always scheduled: the writer, the read
\* loops with the socket below them, a pending NetConn.Close, and the rest of a
\* Read call that popped a payload.
MuxFairness ==
    /\ WF_vars(SendResponse) /\ WF_vars(ReserveSendCredit) /\ WF_vars(SendChunk)
    /\ WF_vars(SendFIN) /\ WF_vars(SendClose)
    /\ WF_vars(ReceiveControl) /\ WF_vars(ReceivePacket) /\ WF_vars(AnnounceGrowth)
    /\ WF_vars(ReleaseReceiveCredit) /\ WF_vars(AnnounceCredit)

\* The application behind the receiving end keeps reading.
ReadingSpec == Spec /\ MuxFairness /\ WF_vars(Reader)

----------------------------------------------------------------------------
(* Properties. *)

TypeOK ==
    /\ sendCredit \in 0..MaxWindow /\ remaining \in Nat /\ chunk \in 0..MaxPayload
    /\ copying \in BOOLEAN /\ localFIN \in BOOLEAN
    /\ sClosed \in BOOLEAN /\ aborting \in BOOLEAN
    /\ answered \in 0..Responses /\ surplus \in 0..Responses
    /\ \A m \in Range(fwd) :
          m.kind \in {"data", "response", "fin", "close"} /\ m.n \in Nat
    /\ \A m \in Range(back) : m.kind \in {"update", "close"} /\ m.n \in Nat
    /\ recvQueue \in Seq(1..MaxPayload) /\ recvBuffered \in 0..MaxWindow
    /\ recvWindowIndex \in 0..MaxIndex /\ recvCreditDebt \in Nat
    /\ recvCreditPending \in Nat /\ recvUpdateTarget \in Nat
    /\ DOMAIN samples = DOMAIN NoSamples
    /\ remoteWriteClosed \in BOOLEAN /\ rClosed \in BOOLEAN /\ eof \in BOOLEAN
    /\ extraCredit \in Nat /\ held \in 0..MaxPayload /\ readerCredit \in Nat
    /\ invalid \in {"no", "window", "dataAfterFIN"}
    /\ sent \in Nat /\ delivered \in Nat

BytesInFlight == chunk + Bytes("data", fwd)
CreditInFlight == extraCredit + readerCredit + Bytes("update", back)

\* The account of the channel, as CreditFlow keeps it. The credit that is in
\* none of the places is what the account has lost.
Account == INSTANCE CreditFlow WITH
    Window <- [i \in 0..MaxIndex |-> FlowControlWindowForIndex(i)],
    MaxResponses <- Responses,
    MaxDebt <- MaxWindow * MaxBytes,
    inFlight <- BytesInFlight,
    pending <- recvCreditPending,
    granted <- CreditInFlight,
    index <- recvWindowIndex,
    debt <- recvCreditDebt,
    lost <- RecvWindow + recvCreditDebt + surplus
              - (sendCredit + BytesInFlight + recvBuffered + held
                   + recvCreditPending + CreditInFlight),
    exceeded <- invalid = "window"

\* Every step of the channel is a step of its credit account: the code's lock
\* regions, its unlocked gaps and its error paths conserve credit, and lose it
\* only where the account says so.
KeepsAccount == Account!Spec

\* The reader is told the stream ended only after it was given every byte that
\* was queued before the FIN (half-close keeps the data in front of it).
EOFAfterAllData == eof => delivered = sent

\* A sender that respects its credit never makes the receiving mux invalid: a
\* slow channel only blocks itself.
NoWindowOverrun == invalid # "window"

\* Credit of bytes that left the receive queue is released: a channel whose two
\* ends are open never has all its credit parked at the receiver.
CreditIsReleased ==
    ~sClosed /\ ~rClosed /\ invalid = "no"
        => sendCredit + BytesInFlight + recvBuffered + held + CreditInFlight > 0

\* What was written is delivered and the reader sees the end of the stream,
\* however the window moves and even if the sender releases its end first, as
\* long as the application keeps reading, no end aborts and the mux stays valid.
StreamCompletes == <>(eof \/ aborting \/ rClosed \/ invalid # "no")

\* A relay that aborts the channel closes it and gets its peer to release it,
\* unless the peer's mux became invalid and is closed as a whole. The abort waits
\* for writeMu, so this depends on a reader that gives a waiting Write credit.
AbortReleasesChannel == aborting ~> (sClosed /\ rClosed) \/ invalid # "no"
============================================================================
