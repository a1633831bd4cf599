--------------------------- MODULE ReverseUpstream ---------------------------
(***************************************************************************)
(* The loop of a server that keeps one reverse mux open to an upstream      *)
(* server and replaces it in time: create, authenticate, send the route     *)
(* update, retire the predecessor, watch.  (cmd/server/reverse_upstream.go) *)
(*                                                                          *)
(* What happens inside one mux is the subject of MuxSession and MuxIdle;    *)
(* here a mux only fails, is used up, or lives on.                          *)
(***************************************************************************)
EXTENDS Naturals

CONSTANTS MaxMuxes      \* bound of the model: muxes created in a behaviour
ASSUME MuxBound == MaxMuxes \in Nat

VARIABLES
    loopAt,      \* where reverseUpstreamLoop is
    primary,    \* mc, 0 before the first
    retiring,   \* retiring, 0 for nil
    created,    \* muxes created so far
    upMux       \* [1..MaxMuxes -> state of the mux]

upVars == <<loopAt, primary, retiring, created, upMux>>

UpState == [state : {"none", "open", "invalid", "closed"},
            refresh : BOOLEAN,      \* refreshKeepAliveBeforeData
            sent : BOOLEAN,         \* the route update was sent
            due : BOOLEAN,          \* over half of its IDs used, or a day old
            prefix : BOOLEAN,       \* in upstreamIPv6
            watched : BOOLEAN]      \* removeReverseUpstreamWhenClosed runs

UpTypeOK ==
    /\ loopAt \in {"create", "probe", "wait", "update", "retire", "prefix", "watch", "monitor"}
    /\ primary \in 0..MaxMuxes /\ retiring \in 0..MaxMuxes /\ created \in 0..MaxMuxes
    /\ upMux \in [1..MaxMuxes -> UpState]

UpInit ==
    /\ loopAt = "create" /\ primary = 0 /\ retiring = 0 /\ created = 0
    /\ upMux = [m \in 1..MaxMuxes |->
                  [state |-> "none", refresh |-> FALSE, sent |-> FALSE,
                   due |-> FALSE, prefix |-> FALSE, watched |-> FALSE]]

Alive(m) == upMux[m].state \in {"open", "invalid"}

\* createReverseUpstreamMux succeeds and the loop sets the mux up.  (When it
\* fails the loop waits and tries again.)
CreateMux ==
    /\ loopAt = "create" /\ created < MaxMuxes
    /\ created' = created + 1 /\ primary' = created + 1
    /\ upMux' = [upMux EXCEPT ![created + 1].state = "open",
                              ![created + 1].refresh = TRUE]
    /\ loopAt' = "probe"
    /\ UNCHANGED retiring

\* A step that can fail: the mux is closed and the loop starts over, with the
\* retiring mux still there.
AbandonMux ==
    /\ upMux' = [upMux EXCEPT ![primary].state = "closed"]
    /\ loopAt' = "create"
    /\ UNCHANGED <<primary, retiring, created>>

LoopGoes(next) == loopAt' = next /\ UNCHANGED <<primary, retiring, created>>

SendAuthProbe ==
    /\ loopAt = "probe"
    /\ \/ upMux[primary].state # "closed" /\ LoopGoes("wait") /\ UNCHANGED upMux
       \/ AbandonMux

\* waitReverseUpstreamAuthOK: the answer may have come before the mux failed.
WaitAuth ==
    /\ loopAt = "wait"
    /\ \/ LoopGoes("update") /\ UNCHANGED upMux
       \/ AbandonMux

SendRouteUpdate ==
    /\ loopAt = "update"
    /\ \/ /\ upMux[primary].state # "closed" /\ LoopGoes("retire")
          /\ upMux' = [upMux EXCEPT ![primary].sent = TRUE]
       \/ AbandonMux

\* The predecessor may drain its channels but is no longer refreshed.
RetireOld ==
    /\ loopAt = "retire"
    /\ upMux' = IF retiring = 0 THEN upMux
                ELSE [upMux EXCEPT ![retiring].refresh = FALSE]
    /\ retiring' = 0 /\ loopAt' = "prefix"
    /\ UNCHANGED <<primary, created>>

\* registerReverseUpstreamPrefix
RegisterPrefix ==
    /\ loopAt = "prefix" /\ LoopGoes("watch")
    /\ upMux' = [upMux EXCEPT ![primary].prefix = TRUE]

\* The goroutine that forgets the prefix when the mux is closed.
StartWatcher ==
    /\ loopAt = "watch" /\ LoopGoes("monitor")
    /\ upMux' = [upMux EXCEPT ![primary].watched = TRUE]

\* reverseUpstreamMuxReplacementReason, in its order.
ReplacementReason ==
    IF upMux[primary].state = "closed" THEN "closed"
    ELSE IF upMux[primary].due THEN "due"
    ELSE IF upMux[primary].state = "invalid" THEN "unavailable" ELSE "none"

\* Mutant: a mux that is to be replaced is given up at once.
MonitorRetiringAtOnce ==
    /\ loopAt = "monitor" /\ ReplacementReason # "none"
    /\ retiring' = IF ReplacementReason = "closed" THEN retiring ELSE primary
    /\ upMux' = [upMux EXCEPT ![primary].refresh = FALSE]
    /\ loopAt' = "create"
    /\ UNCHANGED <<primary, created>>

Monitor ==
    /\ loopAt = "monitor" /\ ReplacementReason # "none"
    /\ retiring' = IF ReplacementReason = "closed" THEN retiring ELSE primary
    /\ loopAt' = "create"
    /\ UNCHANGED <<primary, created, upMux>>

\* removeReverseUpstreamWhenClosed
ForgetPrefix(m) ==
    /\ upMux[m].watched /\ upMux[m].state = "closed"
    /\ upMux' = [upMux EXCEPT ![m].watched = FALSE, ![m].prefix = FALSE]
    /\ UNCHANGED <<loopAt, primary, retiring, created>>

\* The mux turns invalid or closes, at any time.
UpMuxFails(m) ==
    /\ Alive(m)
    /\ \E s \in {"invalid", "closed"} :
          s # upMux[m].state /\ upMux' = [upMux EXCEPT ![m].state = s]
    /\ UNCHANGED <<loopAt, primary, retiring, created>>

\* More than half of its channel IDs have been allocated, or its day is over.
BecomesDue(m) ==
    /\ Alive(m) /\ ~upMux[m].due
    /\ upMux' = [upMux EXCEPT ![m].due = TRUE]
    /\ UNCHANGED <<loopAt, primary, retiring, created>>

LoopStep ==
    \/ CreateMux \/ SendAuthProbe \/ WaitAuth \/ SendRouteUpdate \/ RetireOld
    \/ RegisterPrefix \/ StartWatcher \/ Monitor

UpNext ==
    \/ LoopStep
    \/ \E m \in 1..MaxMuxes : ForgetPrefix(m) \/ UpMuxFails(m) \/ BecomesDue(m)

UpSpec == UpInit /\ [][UpNext]_upVars
\* The loop and the goroutines that wait for a mux to close run on.
UpFairness ==
    /\ WF_upVars(LoopStep)
    /\ \A m \in 1..MaxMuxes : WF_upVars(ForgetPrefix(m))

-----------------------------------------------------------------------------
(* Properties *)

\* "It authenticates and sends the route update on the replacement before
\* retiring the older mux" (README.md:245): a mux stops being refreshed only
\* when a younger one has sent its update.
RetireAfterReplacement ==
    [][\A m \in 1..MaxMuxes : upMux[m].refresh /\ ~upMux'[m].refresh =>
          \E n \in 1..MaxMuxes : n > m /\ upMux[n].sent]_upVars
=============================================================================
