---------------------------- MODULE MuxChannels ----------------------------
(***************************************************************************)
(* The channel tables of the muxes of one server and the receive-window     *)
(* budget they share: channels are allocated or registered, resize their    *)
(* window, and are closed by their owner or by the close of the whole mux,  *)
(* all of it concurrently.   (pkg/mux/channel.go, lifecycle.go)             *)
(*                                                                          *)
(* Closing a channel takes three lock regions in the code (the closed flag, *)
(* the receive lock, the table lock) and closing a mux several; each is a   *)
(* step here. Payloads are left out: what makes a window grow or shrink is  *)
(* ChannelFlow's subject, here it may happen at any time.                   *)
(***************************************************************************)
EXTENDS ReceiveWindowBudget, FiniteSets, Functions

CONSTANTS
    Muxes,
    Requesting,         \* the muxes on which this side opens the channels (the
                        \* reverse routes); on the others the peer does
    MaxAllocations,     \* maxAllocCount; channel IDs are 1..MaxAllocations
    MaxActive,          \* maxActiveCount
    MinWindow, MaxIndex, InitialIndex,
    MaxDebt             \* bound of the model: the largest credit debt explored

ASSUME MuxAssumption ==
    /\ IsFiniteSet(Muxes) /\ Requesting \subseteq Muxes
    /\ MaxAllocations \in Nat /\ MaxActive \in Nat /\ MaxDebt \in Nat
    /\ MinWindow \in Nat \ {0} /\ MaxIndex \in Nat /\ InitialIndex \in 0..MaxIndex

\* flowControlWindowForIndex: the smallest window, shifted left by the index.
Window[i \in 0..MaxIndex] == IF i = 0 THEN MinWindow ELSE 2 * Window[i - 1]

\* The free base of every channel is the window it starts with.
ASSUME WindowAssumption == InitialWindow = Window[InitialIndex]

IDs == 1..MaxAllocations

VARIABLES
    closed,         \* per mux: not closed, "flagged", "closing" its channels
                    \* under the table lock, or "done"
    allocCount,     \* per mux: channels ever created
    activeCount,    \* per mux: the code's counter of open channels
    channels,       \* per mux: the IDs in the channel table
    chan,           \* per mux and ID: where the channel is in its life
    index,          \* per mux and ID: recvWindowIndex
    debt,           \* per mux and ID: recvCreditDebt
    budget

vars == <<closed, allocCount, activeCount, channels, chan, index, debt, budget>>

\* "unused"   the ID was not given out yet
\* "open"
\* "flagged"  closedFlag is set by the channel's owner
\* "swept"    closedFlag is set by the close of the mux
\* "cleared"  queue dropped and budget entry removed
ChannelStates == {"unused", "open", "flagged", "swept", "cleared"}

AllowedWindow(i, d) ==
    IF Window[i] + d > Window[MaxIndex] THEN Window[MaxIndex] ELSE Window[i] + d

Init ==
    /\ closed = [m \in Muxes |-> "no"]
    /\ allocCount = [m \in Muxes |-> 0]
    /\ activeCount = [m \in Muxes |-> 0]
    /\ channels = [m \in Muxes |-> {}]
    /\ chan = [m \in Muxes |-> [c \in IDs |-> "unused"]]
    /\ index = [m \in Muxes |-> [c \in IDs |-> InitialIndex]]
    /\ debt = [m \in Muxes |-> [c \in IDs |-> 0]]
    /\ budget = NewReceiveWindowBudget

\* The table lock is free: the close of the mux does not hold it.
TableUnlocked(m) == closed[m] # "closing"

----------------------------------------------------------------------------
(* Creating channels. *)

\* The common part of opening a channel under the table lock.
OpenChannel(m, c) ==
    /\ TableUnlocked(m)
    /\ closed[m] = "no"
    /\ allocCount' = [allocCount EXCEPT ![m] = @ + 1]
    /\ activeCount' = [activeCount EXCEPT ![m] = @ + 1]
    /\ channels' = [channels EXCEPT ![m] = @ \cup {c}]
    /\ chan' = [chan EXCEPT ![m][c] = "open"]
    /\ budget' = RegisterChannel(budget, m, c)
    /\ UNCHANGED <<closed, index, debt>>

\* This side gives out the next ID, within the limits of the mux. (The age
\* limit is left out: it only adds a moment after which nothing is allocated.)
AllocChannel(m) ==
    /\ m \in Requesting
    /\ allocCount[m] < MaxAllocations
    /\ activeCount[m] < MaxActive
    /\ OpenChannel(m, allocCount[m] + 1)

\* The peer asks for an ID; any that was never used is accepted, in any order
\* and without a limit.
RegisterRequestedChannel(m, c) ==
    /\ m \notin Requesting
    /\ c \notin channels[m] /\ chan[m][c] = "unused"
    /\ OpenChannel(m, c)

----------------------------------------------------------------------------
(* Resizing windows. *)

GrowWindow(m, c) ==
    LET allocation == AllowedWindow(index[m][c] + 1, debt[m][c])
    IN  /\ chan[m][c] = "open" /\ index[m][c] < MaxIndex
        /\ budget' = TryResizeChannel(budget, m, c, allocation)
        /\ IF CanResize(budget, m, c, allocation)
           THEN index' = [index EXCEPT ![m][c] = @ + 1]
           ELSE UNCHANGED index
        /\ UNCHANGED <<closed, allocCount, activeCount, channels, chan, debt>>

\* Shrinking turns window into debt and does not touch the budget.
ShrinkWindow(m, c) ==
    LET i == index[m][c]
    IN  /\ chan[m][c] = "open" /\ i > 0
        /\ index' = [index EXCEPT ![m][c] = i - 1]
        /\ debt' = [debt EXCEPT ![m][c] = @ + Window[i] - Window[i - 1]]
        /\ debt'[m][c] <= MaxDebt
        /\ UNCHANGED <<closed, allocCount, activeCount, channels, chan, budget>>

\* Mutant: the budget is not told.
WithholdCreditUncharged(m, c, n) ==
    /\ chan[m][c] = "open"
    /\ debt' = [debt EXCEPT ![m][c] = @ - n]
    /\ UNCHANGED <<closed, allocCount, activeCount, channels, chan, index, budget>>

\* Reading n bytes withholds their credit; the outcome of the resize is ignored.
WithholdCredit(m, c, n) ==
    /\ chan[m][c] = "open"
    /\ debt' = [debt EXCEPT ![m][c] = @ - n]
    /\ budget' = TryResizeChannel(budget, m, c,
                                  AllowedWindow(index[m][c], debt[m][c] - n))
    /\ UNCHANGED <<closed, allocCount, activeCount, channels, chan, index>>

----------------------------------------------------------------------------
(* Closing channels and muxes. *)

\* Channel.Close, first region: the closed flag decides who closes.
FlagChannel(m, c) ==
    /\ chan[m][c] = "open"
    /\ chan' = [chan EXCEPT ![m][c] = "flagged"]
    /\ UNCHANGED <<closed, allocCount, activeCount, channels, index, debt, budget>>

\* Second region: drop the queue and leave the budget.
ClearChannel(m, c) ==
    /\ chan[m][c] \in {"flagged", "swept"}
    /\ chan' = [chan EXCEPT ![m][c] = "cleared"]
    /\ budget' = RemoveChannel(budget, m, c)
    /\ UNCHANGED <<closed, allocCount, activeCount, channels, index, debt>>

\* Third region: leave the table, if the channel is still in it.
RemoveFromMux(m, c) ==
    /\ chan[m][c] = "cleared" /\ c \in channels[m]
    /\ TableUnlocked(m)
    /\ channels' = [channels EXCEPT ![m] = @ \ {c}]
    /\ activeCount' = [activeCount EXCEPT ![m] = @ - 1]
    /\ UNCHANGED <<closed, allocCount, chan, index, debt, budget>>

\* MuxConn.Close sets its flag, then takes the table lock, closes every channel
\* in the table, and removes what is left of the mux from the budget.
FlagMux(m) ==
    /\ closed[m] = "no"
    /\ closed' = [closed EXCEPT ![m] = "flagged"]
    /\ UNCHANGED <<allocCount, activeCount, channels, chan, index, debt, budget>>

LockTable(m) ==
    /\ closed[m] = "flagged"
    /\ closed' = [closed EXCEPT ![m] = "closing"]
    /\ UNCHANGED <<allocCount, activeCount, channels, chan, index, debt, budget>>

SweepChannel(m, c) ==
    /\ closed[m] = "closing" /\ c \in channels[m]
    /\ chan[m][c] = "open"
    /\ chan' = [chan EXCEPT ![m][c] = "swept"]
    /\ UNCHANGED <<closed, allocCount, activeCount, channels, index, debt, budget>>

\* Mutant: wait for the channels to leave the table that this call has locked.
FinishCloseWaiting(m) ==
    /\ closed[m] = "closing" /\ channels[m] = {}
    /\ budget' = RemoveMux(budget, m)
    /\ closed' = [closed EXCEPT ![m] = "done"]
    /\ UNCHANGED <<allocCount, activeCount, channels, chan, index, debt>>

FinishClose(m) ==
    /\ closed[m] = "closing"
    /\ \A c \in channels[m] : chan[m][c] \in {"flagged", "cleared"}
    /\ channels' = [channels EXCEPT ![m] = {}]
    /\ budget' = RemoveMux(budget, m)
    /\ closed' = [closed EXCEPT ![m] = "done"]
    /\ UNCHANGED <<allocCount, activeCount, chan, index, debt>>

----------------------------------------------------------------------------
CloseMux(m) ==
    FlagMux(m) \/ LockTable(m) \/ FinishClose(m) \/ \E c \in IDs : SweepChannel(m, c)

CloseChannel(m, c) == FlagChannel(m, c) \/ ClearChannel(m, c) \/ RemoveFromMux(m, c)

ResizeChannel(m, c) ==
    \/ GrowWindow(m, c)
    \/ ShrinkWindow(m, c)
    \/ \E n \in 1..debt[m][c] : WithholdCredit(m, c, n)

Next ==
    \E m \in Muxes :
        \/ AllocChannel(m)
        \/ CloseMux(m)
        \/ \E c \in IDs : \/ RegisterRequestedChannel(m, c)
                         \/ CloseChannel(m, c)
                         \/ ResizeChannel(m, c)

Spec == Init /\ [][Next]_vars

\* Close calls run to their end once started; nobody is obliged to start one.
Fairness ==
    \A m \in Muxes :
        /\ WF_vars(LockTable(m)) /\ WF_vars(FinishClose(m))
        /\ \A c \in IDs : /\ WF_vars(SweepChannel(m, c))
                          /\ WF_vars(ClearChannel(m, c))
                          /\ WF_vars(RemoveFromMux(m, c))

FairSpec == Spec /\ Fairness

----------------------------------------------------------------------------
(* Properties. *)

TypeOK ==
    /\ closed \in [Muxes -> {"no", "flagged", "closing", "done"}]
    /\ allocCount \in [Muxes -> Nat]
    /\ activeCount \in [Muxes -> Int]
    /\ channels \in [Muxes -> SUBSET IDs]
    /\ chan \in [Muxes -> [IDs -> ChannelStates]]
    /\ index \in [Muxes -> [IDs -> 0..MaxIndex]]
    /\ debt \in [Muxes -> [IDs -> 0..MaxDebt]]
    /\ DOMAIN budget.muxes \subseteq Muxes
    /\ budget.used \in Int

\* The channels that may still hold received bytes.
Holding(m) == {c \in IDs : chan[m][c] \in {"open", "flagged", "swept"}}

Allowed(m, c) == AllowedWindow(index[m][c], debt[m][c])

\* Nothing is claimed of a mux whose close is done: its charge is gone at once,
\* while a channel flagged by its owner may keep its queue until ClearChannel.
Live(m) == IF closed[m] = "done" THEN {} ELSE Holding(m)

\* All the bytes the server's channels may buffer together fit in the free base
\* window of each channel and the budget: concurrent growth, shrinking,
\* channel closes and mux closes never let the muxes exceed the limit.
MemoryBounded ==
    SumFunction([m \in Muxes |-> SumFunction([c \in Live(m) |-> Allowed(m, c)])])
        <= Limit + InitialWindow * SumFunction([m \in Muxes |-> Cardinality(Live(m))])

\* An open channel is charged for exactly the window it enforces, although the
\* outcome of the resize that follows a read is ignored.
ChargedForWindow ==
    \A m \in Muxes : \A c \in IDs :
        chan[m][c] = "open" =>
            /\ Registered(budget, m, c)
            /\ budget.muxes[m].channels[c] = Allowed(m, c)

Excesses(charges) == [c \in DOMAIN charges |-> ReceiveWindowExcess(charges[c])]

\* The budget's totals are the sums of its entries and stay within the limit.
BudgetBalanced ==
    /\ \A m \in DOMAIN budget.muxes :
           budget.muxes[m].excess = SumFunction(Excesses(budget.muxes[m].channels))
    /\ budget.used = SumFunction([m \in DOMAIN budget.muxes |-> budget.muxes[m].excess])
    /\ budget.used <= Limit

\* Closing leaks nothing: the budget only has entries of channels whose close
\* has not reached it yet, and none of a mux whose close has finished.
NothingLeaked ==
    \A m \in DOMAIN budget.muxes :
        closed[m] # "done" /\ DOMAIN budget.muxes[m].channels \subseteq Holding(m)

\* The budget is exact: it charges the channels in use, each for its window,
\* adds them up, and keeps nothing of those that are gone, in every interleaving
\* of growing, shrinking and closing.
ChargesExact == ChargedForWindow /\ BudgetBalanced /\ NothingLeaked

\* A mux that starts to close ends with an empty table and no charge, however
\* its channels are being closed meanwhile.
CloseCompletes ==
    \A m \in Muxes :
        closed[m] = "flagged" ~> closed[m] = "done" /\ channels[m] = {}
                                 /\ m \notin DOMAIN budget.muxes
============================================================================
