------------------------ MODULE ReceiveWindowBudget ------------------------
(***************************************************************************)
(* The server-wide budget for adaptive receive windows                      *)
(* (pkg/mux/receive_window_budget.go). Each operation of the code runs      *)
(* under the budget's lock, so each is a function from budget to budget.    *)
(*                                                                          *)
(* A budget is a record: `used` bytes, and per mux the full allocation of   *)
(* each registered channel with the sum of what exceeds the free base.      *)
(***************************************************************************)
EXTENDS Integers

CONSTANTS
    InitialWindow,  \* FlowControlInitialWindowSize: free for every channel
    Limit           \* bytes of growth all channels together may use

ASSUME BudgetAssumption == InitialWindow \in Nat /\ Limit \in Nat

\* A map without entries, with one more entry, and with one entry less.
NoEntries == [x \in {} |-> 0]
With(f, x, v) == [y \in DOMAIN f \cup {x} |-> IF y = x THEN v ELSE f[y]]
Without(f, x) == [y \in DOMAIN f \ {x} |-> f[y]]

NewReceiveWindowBudget == [used |-> 0, muxes |-> NoEntries]

\* What an allocation uses of the budget.
ReceiveWindowExcess(allocation) ==
    IF allocation > InitialWindow THEN allocation - InitialWindow ELSE 0

Registered(b, m, c) == m \in DOMAIN b.muxes /\ c \in DOMAIN b.muxes[m].channels

RegisterChannel(b, m, c) ==
    LET old == IF m \in DOMAIN b.muxes THEN b.muxes[m]
                                       ELSE [channels |-> NoEntries, excess |-> 0]
        new == [old EXCEPT !.channels = With(@, c, InitialWindow)]
    IN  IF Registered(b, m, c) THEN b
                               ELSE [b EXCEPT !.muxes = With(@, m, new)]

Delta(b, m, c, allocation) ==
    ReceiveWindowExcess(allocation) - ReceiveWindowExcess(b.muxes[m].channels[c])

\* Mutant: the limit is checked before the growth is added.
CanResizeLate(b, m, c, allocation) == Registered(b, m, c) /\ b.used <= Limit

\* TryResizeChannel succeeds.
CanResize(b, m, c, allocation) ==
    /\ Registered(b, m, c)
    /\ LET delta == Delta(b, m, c, allocation)
       IN  /\ delta > 0 => b.used <= Limit /\ delta <= Limit - b.used
           /\ delta < 0 => -delta <= b.muxes[m].excess /\ -delta <= b.used

\* The budget after TryResizeChannel, which changes nothing when it fails.
TryResizeChannel(b, m, c, allocation) ==
    IF CanResize(b, m, c, allocation)
    THEN LET delta == Delta(b, m, c, allocation)
             entry == [channels |-> [b.muxes[m].channels EXCEPT ![c] = allocation],
                       excess   |-> b.muxes[m].excess + delta]
         IN  [used |-> b.used + delta, muxes |-> [b.muxes EXCEPT ![m] = entry]]
    ELSE b

\* Mutant: the entry stays.
RemoveChannelSkipped(b, m, c) == b

RemoveChannel(b, m, c) ==
    IF ~Registered(b, m, c) THEN b
    ELSE LET excess == ReceiveWindowExcess(b.muxes[m].channels[c])
             left   == [channels |-> Without(b.muxes[m].channels, c),
                        excess   |-> b.muxes[m].excess - excess]
         IN  [used  |-> b.used - excess,
              muxes |-> IF DOMAIN left.channels = {}
                        THEN Without(b.muxes, m)
                        ELSE [b.muxes EXCEPT ![m] = left]]

\* Mutant: the growth of the mux stays charged.
RemoveMuxStillCharged(b, m) == [b EXCEPT !.muxes = Without(b.muxes, m)]

RemoveMux(b, m) ==
    IF m \notin DOMAIN b.muxes THEN b
    ELSE [used |-> b.used - b.muxes[m].excess, muxes |-> Without(b.muxes, m)]
============================================================================
