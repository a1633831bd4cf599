---------------------------- MODULE CreditFlow ----------------------------
(***************************************************************************)
(* The credit account of one direction of one mux channel, as an abstract   *)
(* specification: how many bytes of credit are where, and nothing about     *)
(* packets, queues or goroutines.                                           *)
(*                                                                          *)
(* A sender may only send bytes it holds credit for; the receiver hands     *)
(* credit back after the bytes leave its queue, hands out more when it      *)
(* grows its window, and withholds some after it shrank it (the "debt").    *)
(* ChannelFlow is the detailed specification that implements this one.      *)
(***************************************************************************)
EXTENDS Integers

CONSTANTS
    MaxIndex,       \* flowControlMaxWindowIndex
    InitialIndex,   \* flowControlInitialWindowIndex
    Window,         \* Window[i] = flowControlWindowForIndex(i)
    MaxResponses,   \* response bytes one channel may carry (accepted, result)
    MaxDebt         \* bound of the model: the largest credit debt explored

ASSUME IndexAssumption ==
    /\ MaxIndex \in Nat
    /\ InitialIndex \in 0..MaxIndex

ASSUME WindowAssumption ==
    /\ Window \in [0..MaxIndex -> Nat \ {0}]
    /\ \A i \in 0..MaxIndex : \A j \in 0..MaxIndex :
          i < j => Window[i] < Window[j]

ASSUME BoundAssumption ==
    /\ MaxResponses \in Nat
    /\ MaxDebt \in Nat

VARIABLES
    sendCredit,     \* credit the sender may still spend
    inFlight,       \* bytes reserved by the sender and not yet received
    recvBuffered,   \* bytes in the receiver's queue
    held,           \* bytes popped by the reader, their credit not yet released
    pending,        \* recvCreditPending: released credit not yet sent back
    granted,        \* credit on its way back to the sender
    index,          \* recvWindowIndex
    debt,           \* recvCreditDebt
    surplus,        \* bytes received that the sender paid no credit for
    lost,           \* credit that left the account: a clamp, a full write
                    \* queue, a closed end
    exceeded        \* the receiver refused a payload: window exceeded

vars == <<sendCredit, inFlight, recvBuffered, held, pending, granted, index,
          debt, surplus, lost, exceeded>>

MaxWindow == Window[MaxIndex]

\* The window the receiver enforces: the current one and the credit that was
\* advertised before it shrank, never more than the largest window.
AllowedWindow ==
    IF Window[index] + debt > MaxWindow THEN MaxWindow ELSE Window[index] + debt

Init ==
    /\ index = InitialIndex
    /\ sendCredit = Window[InitialIndex]
    /\ inFlight = 0 /\ recvBuffered = 0 /\ held = 0
    /\ pending = 0 /\ granted = 0 /\ debt = 0
    /\ surplus = 0 /\ lost = 0
    /\ exceeded = FALSE

----------------------------------------------------------------------------
(* The sender. *)

\* The sender takes credit for a chunk before it queues the chunk.
ReserveSendCredit(n) ==
    /\ n <= sendCredit
    /\ sendCredit' = sendCredit - n
    /\ inFlight' = inFlight + n
    /\ UNCHANGED <<recvBuffered, held, pending, granted, index, debt, surplus,
                   lost, exceeded>>

\* Credit added at the sender; what exceeds the largest window is cut off.
AddSendCredit(n) ==
    LET sum == sendCredit + n
    IN  IF sum > MaxWindow
        THEN /\ sendCredit' = MaxWindow
             /\ lost' = lost + (sum - MaxWindow)
        ELSE /\ sendCredit' = sum
             /\ UNCHANGED lost

\* The packet could not be queued: its credit is refunded.
Refund(n) ==
    /\ n <= inFlight
    /\ inFlight' = inFlight - n
    /\ AddSendCredit(n)
    /\ UNCHANGED <<recvBuffered, held, pending, granted, index, debt, surplus,
                   exceeded>>

\* A window update reaches the sender.
ReceiveUpdate(n) ==
    /\ n <= granted
    /\ granted' = granted - n
    /\ AddSendCredit(n)
    /\ UNCHANGED <<inFlight, recvBuffered, held, pending, index, debt, surplus,
                   exceeded>>

----------------------------------------------------------------------------
(* The receiver. *)

\* After a payload is queued the window may grow by one step, shrink by one
\* step (never below the bytes buffered), or stay.
AdjustWindow(buffered) ==
    \/ UNCHANGED <<index, debt, granted>>
    \/ /\ index < MaxIndex
       /\ index' = index + 1
       /\ granted' = granted + (Window[index + 1] - Window[index])
       /\ UNCHANGED debt
    \/ /\ index > 0
       /\ Window[index - 1] >= buffered
       /\ index' = index - 1
       /\ debt' = debt + (Window[index] - Window[index - 1])
       /\ debt' <= MaxDebt
       /\ UNCHANGED granted

EnqueuePayload(n) ==
    /\ ~exceeded
    /\ n <= inFlight
    /\ inFlight' = inFlight - n
    /\ IF recvBuffered + n > AllowedWindow
       THEN /\ exceeded' = TRUE
            /\ lost' = lost + n
            /\ UNCHANGED <<recvBuffered, index, debt, granted>>
       ELSE /\ recvBuffered' = recvBuffered + n
            /\ AdjustWindow(recvBuffered + n)
            /\ UNCHANGED <<exceeded, lost>>
    /\ UNCHANGED <<sendCredit, held, pending, surplus>>

\* A response status occupies one byte of the window although the sender never
\* reserved credit for it.
EnqueueResponse ==
    /\ ~exceeded
    /\ surplus < MaxResponses
    /\ IF recvBuffered + 1 > AllowedWindow
       THEN /\ exceeded' = TRUE
            /\ lost' = lost + 1
            /\ UNCHANGED <<recvBuffered, index, debt, granted>>
       ELSE /\ recvBuffered' = recvBuffered + 1
            /\ AdjustWindow(recvBuffered + 1)
            /\ UNCHANGED <<exceeded, lost>>
    /\ surplus' = surplus + 1
    /\ UNCHANGED <<sendCredit, inFlight, held, pending>>

Read(n) ==
    /\ n <= recvBuffered
    /\ recvBuffered' = recvBuffered - n
    /\ held' = held + n
    /\ UNCHANGED <<sendCredit, inFlight, pending, granted, index, debt, surplus,
                   lost, exceeded>>

\* Released credit first pays the debt.
Withheld(owed) == IF owed > debt THEN debt ELSE owed

\* Mutant: any remainder may wait.
BelowThresholdAlways(left) == TRUE

\* What is left is sent back once it reaches the update threshold, which never
\* exceeds a quarter of the window.
BelowThreshold(left) == left < Window[index]

ReleaseCredit(n) ==
    LET owed     == pending + n
        withheld == Withheld(owed)
        left     == owed - withheld
    IN  /\ n <= held
        /\ held' = held - n
        /\ debt' = debt - withheld
        /\ \/ /\ pending' = 0
              /\ granted' = granted + left
           \/ /\ BelowThreshold(left)
              /\ pending' = left
              /\ UNCHANGED granted
        /\ UNCHANGED <<sendCredit, inFlight, recvBuffered, index, surplus, lost,
                       exceeded>>

----------------------------------------------------------------------------
(* Losses: a closed end discards what it holds and what reaches it, and a   *)
(* full write queue discards a window update.                               *)

LoseInFlight(n) ==
    /\ n <= inFlight
    /\ inFlight' = inFlight - n
    /\ lost' = lost + n
    /\ UNCHANGED <<sendCredit, recvBuffered, held, pending, granted, index, debt,
                   surplus, exceeded>>

LoseGranted(n) ==
    /\ n <= granted
    /\ granted' = granted - n
    /\ lost' = lost + n
    /\ UNCHANGED <<sendCredit, inFlight, recvBuffered, held, pending, index, debt,
                   surplus, exceeded>>

LoseBuffered ==
    /\ recvBuffered > 0
    /\ recvBuffered' = 0
    /\ lost' = lost + recvBuffered
    /\ UNCHANGED <<sendCredit, inFlight, held, pending, granted, index, debt,
                   surplus, exceeded>>

LoseHeld ==
    /\ held > 0
    /\ held' = 0
    /\ lost' = lost + held
    /\ UNCHANGED <<sendCredit, inFlight, recvBuffered, pending, granted, index,
                   debt, surplus, exceeded>>

----------------------------------------------------------------------------
Next ==
    \/ \E n \in 1..sendCredit : ReserveSendCredit(n)
    \/ \E n \in 1..inFlight : Refund(n) \/ EnqueuePayload(n) \/ LoseInFlight(n)
    \/ \E n \in 1..granted : ReceiveUpdate(n) \/ LoseGranted(n)
    \/ EnqueueResponse
    \/ \E n \in 1..recvBuffered : Read(n)
    \/ \E n \in 1..held : ReleaseCredit(n)
    \/ LoseBuffered
    \/ LoseHeld

Spec == Init /\ [][Next]_vars

----------------------------------------------------------------------------
(* Properties. *)

TypeOK ==
    /\ sendCredit \in Nat /\ inFlight \in Nat /\ recvBuffered \in Nat
    /\ held \in Nat /\ pending \in Nat /\ granted \in Nat
    /\ index \in 0..MaxIndex
    /\ debt \in Nat
    /\ surplus \in 0..MaxResponses
    /\ lost \in Nat
    /\ exceeded \in BOOLEAN

\* Every byte of credit is somewhere: what the sender may spend, what is on
\* the way in either direction, what is buffered or read but not released, and
\* what was lost add up to the window the receiver maintains, its debt, and
\* the response bytes nobody paid for.
CreditConservation ==
    sendCredit + inFlight + recvBuffered + held + pending + granted + lost
        = Window[index] + debt + surplus

\* A sender that only spends credit overruns the receive window only if the
\* receiver advertised more than the largest window, or if response bytes were
\* returned to it as credit it had never spent.
OverrunOnlyIfOverAdvertised ==
    [][~exceeded /\ exceeded'
          => surplus' > 0 \/ Window[index] + debt > MaxWindow]_vars

\* Flow control never starves the sender by itself: unless credit was lost,
\* the credit cannot all be parked in the receiver's unsent remainder.
NeverStarved ==
    lost = 0 => sendCredit + inFlight + recvBuffered + held + granted > 0
============================================================================
