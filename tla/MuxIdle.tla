------------------------------- MODULE MuxIdle -------------------------------
(***************************************************************************)
(* The timers of a mux at its two ends: the keep-alive loop with its random *)
(* interval, the read deadline (SocketIdleTimeout), the no-real-data limit  *)
(* (NoDataTimeout), and the refresh-idle keep-alives of a reverse upstream. *)
(* (pkg/mux/keepalive.go, lifecycle.go, read_loop.go)                       *)
(*                                                                          *)
(* Time passes in ticks of about 40 s.  Whatever is due at an instant       *)
(* happens before the next tick: the keep-alive loop and the read deadline  *)
(* work to the second, and a packet arrives within a tick.                  *)
(***************************************************************************)
EXTENDS Naturals

CONSTANTS
    MinBeat, MaxBeat,   \* KeepAliveMinInterval, KeepAliveMaxInterval, in ticks
    SocketIdle,         \* SocketIdleTimeout
    NoData,             \* NoDataTimeout
    MaxData,            \* bound of the model: data packets in a behaviour
    Horizon             \* bound of the model: ticks counted by the histories

ASSUME TimerBounds ==
    /\ {MinBeat, MaxBeat, SocketIdle, NoData, MaxData, Horizon} \subseteq Nat
    /\ 0 < MinBeat /\ MinBeat <= MaxBeat /\ MaxBeat < SocketIdle
    /\ SocketIdle < NoData /\ NoData + 1 < Horizon

VARIABLES
    cause,      \* [MuxEnd -> cause the end closed its mux, or "open"]
    quiet,      \* [MuxEnd -> age of lastPacket and of lastKeepAlive]
    interval,   \* [MuxEnd -> keepAliveInterval]
    unheard,    \* [MuxEnd -> ticks since the read deadline was set]
    dataAge,    \* [MuxEnd -> age of lastData]
    gotData,    \* [MuxEnd -> hasReceivedData]
    flight,     \* [MuxEnd -> packets the end sent that have not arrived]
    refreshOn,  \* refreshKeepAliveBeforeData of the dialling end
    sentData,   \* data packets so far
    silent,     \* history: [MuxEnd -> ticks since the end sent a packet]
    realAge     \* history: ticks since data or a refresh was sent

idleVars == <<cause, quiet, interval, unheard, dataAge, gotData, flight, refreshOn,
              sentData, silent, realAge>>

MuxEnd == {"dial", "accept"}
Other(e) == CHOOSE o \in MuxEnd : o # e
Beat == {"keep", "refresh", "data"}
IsOpen(e) == cause[e] = "open"

IdleTypeOK ==
    /\ cause \in [MuxEnd -> {"open", "idle", "nodata", "peer"}]
    /\ quiet \in [MuxEnd -> 0..Horizon] /\ interval \in [MuxEnd -> MinBeat..MaxBeat]
    /\ unheard \in [MuxEnd -> 0..Horizon] /\ dataAge \in [MuxEnd -> 0..Horizon]
    /\ gotData \in [MuxEnd -> BOOLEAN] /\ flight \in [MuxEnd -> SUBSET Beat]
    /\ refreshOn \in BOOLEAN /\ sentData \in 0..MaxData
    /\ silent \in [MuxEnd -> 0..Horizon] /\ realAge \in 0..Horizon

\* NewMuxConn and StartReading.
IdleInit ==
    /\ cause = [e \in MuxEnd |-> "open"]
    /\ quiet = [e \in MuxEnd |-> 0] /\ interval = [e \in MuxEnd |-> MaxBeat]
    /\ unheard = [e \in MuxEnd |-> 0] /\ dataAge = [e \in MuxEnd |-> 0]
    /\ gotData = [e \in MuxEnd |-> FALSE] /\ flight = [e \in MuxEnd |-> {}]
    /\ refreshOn = FALSE /\ sentData = 0
    /\ silent = [e \in MuxEnd |-> 0] /\ realAge = 0

\* updatePacketTime: every packet sent or received restarts the keep-alive
\* timer of that end with a new random interval.
UpdatePacketTime(e) ==
    /\ quiet' = [quiet EXCEPT ![e] = 0]
    /\ \E n \in MinBeat..MaxBeat : interval' = [interval EXCEPT ![e] = n]

\* sendPacketNow, with recordDataActivity (not "received").
Sends(e, m) ==
    /\ flight' = [flight EXCEPT ![e] = @ \cup {m}]
    /\ UpdatePacketTime(e)
    /\ dataAge' = IF m = "data" THEN [dataAge EXCEPT ![e] = 0] ELSE dataAge
    /\ silent' = [silent EXCEPT ![e] = 0]
    /\ realAge' = IF m = "keep" THEN realAge ELSE 0

\* A channel request or channel data.
SendData(e) ==
    /\ IsOpen(e) /\ sentData < MaxData
    /\ sentData' = sentData + 1
    /\ Sends(e, "data")
    /\ UNCHANGED <<cause, unheard, gotData, refreshOn>>

\* Mutant: a keep-alive counts as data.
ReceiveAllAsData(e, m) ==
    /\ IsOpen(e) /\ m \in flight[Other(e)]
    /\ flight' = [flight EXCEPT ![Other(e)] = @ \ {m}]
    /\ unheard' = [unheard EXCEPT ![e] = 0]
    /\ UpdatePacketTime(e)
    /\ dataAge' = [dataAge EXCEPT ![e] = 0]
    /\ gotData' = [gotData EXCEPT ![e] = TRUE]
    /\ UNCHANGED <<cause, refreshOn, sentData, silent, realAge>>

\* Mutant: the read deadline is set once.
ReceiveByOldDeadline(e, m) ==
    /\ IsOpen(e) /\ m \in flight[Other(e)]
    /\ flight' = [flight EXCEPT ![Other(e)] = @ \ {m}]
    /\ UpdatePacketTime(e)
    /\ IF m = "keep" THEN UNCHANGED <<dataAge, gotData>>
       ELSE /\ dataAge' = [dataAge EXCEPT ![e] = 0]
            /\ gotData' = [gotData EXCEPT ![e] = TRUE]
    /\ UNCHANGED <<cause, unheard, refreshOn, sentData, silent, realAge>>

\* readLoop: the deadline is set anew for the next packet, updatePacketTime, and
\* for data and RefreshIdle the data timer starts again.
Receive(e, m) ==
    /\ IsOpen(e) /\ m \in flight[Other(e)]
    /\ flight' = [flight EXCEPT ![Other(e)] = @ \ {m}]
    /\ unheard' = [unheard EXCEPT ![e] = 0]
    /\ UpdatePacketTime(e)
    /\ IF m = "keep" THEN UNCHANGED <<dataAge, gotData>>
       ELSE /\ dataAge' = [dataAge EXCEPT ![e] = 0]
            /\ gotData' = [gotData EXCEPT ![e] = TRUE]
    /\ UNCHANGED <<cause, refreshOn, sentData, silent, realAge>>

\* keepAliveLoop acts on an end that has had data, or refreshes before it.
BeatsAt(e) == gotData[e] \/ (e = "dial" /\ refreshOn)
NoDataDue(e) == IsOpen(e) /\ gotData[e] /\ dataAge[e] > NoData
BeatDue(e) == IsOpen(e) /\ BeatsAt(e) /\ ~NoDataDue(e) /\ quiet[e] >= interval[e]

\* sendKeepAlive: RefreshIdle before the first data of a refreshing end.
SendKeepAlive(e) ==
    /\ BeatDue(e)
    /\ Sends(e, IF gotData[e] THEN "keep" ELSE "refresh")
    /\ UNCHANGED <<cause, unheard, gotData, refreshOn, sentData>>

CloseFor(e, reason) ==
    /\ cause' = [cause EXCEPT ![e] = reason]
    /\ UNCHANGED <<quiet, interval, unheard, dataAge, gotData, flight, refreshOn,
                   sentData, silent, realAge>>

\* keepAliveLoop closes after NoDataTimeout.
CloseNoData(e) == NoDataDue(e) /\ CloseFor(e, "nodata")

\* The read deadline passed: readLoop closes.  (cleanupIdleConnections asks
\* IsIdle, which is true later than this.)
ReadDeadline(e) == IsOpen(e) /\ unheard[e] >= SocketIdle
CloseIdle(e) == ReadDeadline(e) /\ CloseFor(e, "idle")

\* The peer closed the socket: the read fails.
ClosePeer(e) == IsOpen(e) /\ ~IsOpen(Other(e)) /\ CloseFor(e, "peer")

\* SetRefreshKeepAliveBeforeData: on when a reverse upstream has created the
\* mux, off when its replacement is up.
SetRefresh ==
    /\ IsOpen("dial")
    /\ \/ refreshOn' = TRUE /\ ~refreshOn /\ sentData = 0 /\ realAge = 0
          /\ \A e \in MuxEnd : silent[e] = 0 /\ ~gotData[e]
       \/ refreshOn' = FALSE /\ refreshOn
    /\ UNCHANGED <<cause, quiet, interval, unheard, dataAge, gotData, flight,
                   sentData, silent, realAge>>

\* Nothing is due, so time passes.
Aged(a) == IF a < Horizon THEN a + 1 ELSE a
Tick ==
    /\ \E e \in MuxEnd : IsOpen(e)
    /\ \A e \in MuxEnd :
          /\ ~NoDataDue(e) /\ ~BeatDue(e) /\ ~ReadDeadline(e)
          /\ IsOpen(e) => IsOpen(Other(e)) /\ flight[Other(e)] = {}
    /\ quiet' = [e \in MuxEnd |-> Aged(quiet[e])]
    /\ unheard' = [e \in MuxEnd |-> Aged(unheard[e])]
    /\ dataAge' = [e \in MuxEnd |-> Aged(dataAge[e])]
    /\ silent' = [e \in MuxEnd |-> Aged(silent[e])]
    /\ realAge' = Aged(realAge)
    /\ UNCHANGED <<cause, interval, gotData, flight, refreshOn, sentData>>

IdleNext ==
    \/ \E e \in MuxEnd : \/ SendData(e) \/ SendKeepAlive(e) \/ CloseNoData(e)
                         \/ CloseIdle(e) \/ ClosePeer(e)
                         \/ \E m \in Beat : Receive(e, m)
    \/ SetRefresh \/ Tick

IdleSpec == IdleInit /\ [][IdleNext]_idleVars

-----------------------------------------------------------------------------
(* Properties *)

\* A mux over which neither data nor a refresh has been sent for NoDataTimeout
\* is closed at both ends, whatever keep-alives the two ends exchange: they do
\* not keep each other alive for ever.  (keepAliveLoop, protocol.md:356)
SilentMuxIsDropped ==
    realAge > NoData + 1 => \A e \in MuxEnd : ~IsOpen(e)

\* An end gives its peer up as idle only when that peer has sent nothing for
\* SocketIdleTimeout, or only a packet still under way when the deadline
\* passes.  (readLoop's deadline is set anew for every packet)
DropsOnlySilentPeer ==
    \A e \in MuxEnd : cause[e] = "idle" =>
        silent[Other(e)] >= SocketIdle \/ flight[Other(e)] # {}

\* An idle mux is dropped and a live one is not.
DroppedWhenIdle == SilentMuxIsDropped /\ DropsOnlySilentPeer
=============================================================================
