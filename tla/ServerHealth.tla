----------------------------- MODULE ServerHealth -----------------------------
(***************************************************************************)
(* What the client remembers of each server (cmd/client/server_state.go):   *)
(* a class, a penalty that fades, a cooldown after hard failures that grows *)
(* with their number, and the time of the last error of each kind and       *)
(* reason; and the choice of a server from it.                              *)
(*                                                                          *)
(* Times are ages in ticks, capped where they stop to matter.  The retry    *)
(* delays and intervals are scaled down, in the order of the code's.        *)
(* Penalties are the code's, with their sign turned.  Speed and RTT, which  *)
(* break ties, are left out: servers that differ in nothing else are tried  *)
(* in any order.                                                            *)
(***************************************************************************)
EXTENDS Integers, Sequences, FiniteSets

CONSTANTS
    HealthServers,
    Reasons,        \* the texts of errors
    DedupWindow,    \* serverErrorDedupWindow
    DecayEvery,     \* serverHealthDecayInterval
    MaxErrors       \* bound of the model

ASSUME HealthConstants ==
    DedupWindow \in Nat \ {0} /\ DecayEvery \in Nat \ {0} /\ MaxErrors \in Nat

VARIABLES
    health,     \* [HealthServers -> record]
    errors,     \* history: errors so far
    chosen      \* the candidates of the last selection, in order

healthVars == <<health, errors, chosen>>

Hard == {"dialFailed", "badResponse", "noResponse"}
Class == {"good", "degraded"} \cup Hard
ErrorKind == (Hard \cup {"degraded", "transient"}) \X Reasons
Never == DedupWindow    \* no error of the kind, or one that no longer counts

Delays == [dialFailed |-> <<1, 2, 3>>, badResponse |-> <<2, 3, 4>>, noResponse |-> <<2, 4, 5>>]
muxDropPenalty == 15
writeTimeoutPenalty == 30

HealthTypeOK ==
    /\ errors \in 0..MaxErrors /\ chosen \in Seq(HealthServers)
    /\ health \in [HealthServers -> [class : Class, failures : Nat, retryIn : 0..5, penalty : Nat,
                               connected : BOOLEAN, since : 0..DecayEvery,
                               ages : [ErrorKind -> 0..DedupWindow]]]

New == [class |-> "good", failures |-> 0, retryIn |-> 0, penalty |-> 0, connected |-> FALSE,
        since |-> 0, ages |-> [k \in ErrorKind |-> Never]]

HealthInit == health = [s \in HealthServers |-> New] /\ errors = 0 /\ chosen = <<>>

-----------------------------------------------------------------------------
(* Decay *)

\* int(float64(penalty) * 0.7): towards zero.
Faded(p) == (p * 7) \div 10

\* decayServerHealthLocked; a degraded server whose penalty is gone is good.
Decay(h) ==
    LET p == IF h.since >= DecayEvery THEN Faded(h.penalty) ELSE h.penalty
    IN  [h EXCEPT !.penalty = p,
                  !.since = IF @ >= DecayEvery THEN 0 ELSE @,
                  !.class = IF @ = "degraded" /\ p = 0 THEN "good" ELSE @]

-----------------------------------------------------------------------------
(* Errors *)

\* recordServerErrorTimeLocked: the time is noted even if the error is not
\* counted.
Noted(h, kind) == [h EXCEPT !.ages[kind] = 0]
Counts(h, kind) == h.ages[kind] >= DedupWindow

retryDelay(class, n) == Delays[class][IF n > Len(Delays[class]) THEN Len(Delays[class]) ELSE n]

\* Mutant: the cooldown of a class stays when another class takes over.
HardFailureKeepingRetry(h, class) ==
    LET n == IF h.class = class THEN h.failures + 1 ELSE 1
    IN  [h EXCEPT !.class = class, !.failures = n,
                  !.retryIn = IF @ > 0 THEN @ ELSE retryDelay(class, n)]

\* recordServerHardFailureLocked
HardFailure(h, class) ==
    LET n == IF h.class = class THEN h.failures + 1 ELSE 1
    IN  [h EXCEPT !.class = class, !.failures = n, !.retryIn = retryDelay(class, n)]

\* recordServerDegradedLocked: a hard class stays.
Degrade(h, penalty) ==
    [h EXCEPT !.class = IF @ \in Hard THEN @ ELSE "degraded", !.penalty = @ + penalty]

\* recordConnectedServerTransientFailureLocked: the cooldown is lifted.
Transient(h) ==
    [h EXCEPT !.class = "degraded", !.failures = 0, !.retryIn = 0,
              !.penalty = @ + writeTimeoutPenalty]

Record(s, h) ==
    /\ errors < MaxErrors /\ errors' = errors + 1
    /\ health' = [health EXCEPT ![s] = h] /\ UNCHANGED chosen

\* recordServerDialFailed, recordServerBadResponse, and recordMuxResponseTimeout
\* of a mux that has received nothing from a server that never connected.
HardError(s) ==
    \E class \in Hard, reason \in Reasons :
        /\ class = "noResponse" => ~health[s].connected
        /\ LET kind == <<class, reason>>
               h == Noted(health[s], kind)
           IN  Record(s, IF Counts(health[s], kind) THEN HardFailure(Decay(h), class) ELSE h)

\* recordServerDegraded decays first, whether or not the error counts.
\* recordMuxClosed, write errors, and response timeouts of a mux with traffic.
SoftError(s) ==
    \E penalty \in {muxDropPenalty, writeTimeoutPenalty}, reason \in Reasons :
        LET kind == <<"degraded", reason>>
            h == Noted(Decay(health[s]), kind)
        IN  Record(s, IF Counts(health[s], kind) THEN Degrade(h, penalty) ELSE h)

\* recordMuxResponseTimeout of a mux without traffic, from a server that has
\* connected before.
TransientError(s) ==
    /\ health[s].connected
    /\ \E reason \in Reasons :
          LET kind == <<"transient", reason>>
              h == Noted(health[s], kind)
          IN  Record(s, IF Counts(health[s], kind) THEN Transient(Decay(h)) ELSE h)

\* Mutant: the penalty outlives the success.
ConnectedKeepingPenalty(s) ==
    /\ health' = [health EXCEPT ![s] = [New EXCEPT !.connected = TRUE, !.since = health[s].since,
                                                   !.penalty = health[s].penalty]]
    /\ UNCHANGED <<errors, chosen>>

\* markServerConnected, recordServerRTT, recordServerSpeed.
Connected(s) ==
    /\ health' = [health EXCEPT ![s] = [New EXCEPT !.connected = TRUE, !.since = health[s].since]]
    /\ UNCHANGED <<errors, chosen>>

-----------------------------------------------------------------------------
(* Selection *)

RankOf(h) == CASE h.class = "noResponse" -> 0 [] h.class = "badResponse" -> 1
               [] h.class = "dialFailed" -> 2 [] h.class = "degraded" -> 3 [] OTHER -> 4

Before(g, h) ==
    RankOf(g) > RankOf(h) \/ (RankOf(g) = RankOf(h) /\ g.penalty <= h.penalty)

Orders(set) == {q \in [1..Cardinality(set) -> set] : \A i, j \in DOMAIN q : q[i] = q[j] => i = j}

\* sortedServerCandidates: the servers that may be tried, the best first; if
\* all are cooling, one of them.  (Of a single server nothing is asked.)
sortedServerCandidates ==
    LET decayed == [s \in HealthServers |-> Decay(health[s])]
        ready == {s \in HealthServers : decayed[s].retryIn = 0}
    IN  /\ health' = decayed
        /\ \/ /\ ready = {} /\ \E s \in HealthServers : chosen' = <<s>>
           \/ /\ ready # {}
              /\ chosen' \in {q \in Orders(ready) :
                    \A i, j \in DOMAIN q : i < j => Before(decayed[q[i]], decayed[q[j]])}
        /\ UNCHANGED errors

\* The clock, and cleanup's decayServerHealth, which runs more often than the
\* interval.
HealthTick ==
    /\ health' = [s \in HealthServers |->
          LET h == Decay(health[s])
          IN  [h EXCEPT !.retryIn = IF @ > 0 THEN @ - 1 ELSE 0, !.since = @ + 1,
                        !.ages = [k \in ErrorKind |-> IF h.ages[k] < DedupWindow
                                                      THEN h.ages[k] + 1 ELSE DedupWindow]]]
    /\ UNCHANGED <<errors, chosen>>

HealthNext ==
    \/ \E s \in HealthServers : HardError(s) \/ SoftError(s) \/ TransientError(s) \/ Connected(s)
    \/ sortedServerCandidates \/ HealthTick

HealthSpec == HealthInit /\ [][HealthNext]_healthVars
HealthFairness == WF_healthVars(HealthTick)

-----------------------------------------------------------------------------
(* Properties *)

\* "`Good`: the server has no active penalty" (protocol.md:380), and a degraded
\* one has: the class and the penalty agree after any sequence of errors,
\* decays and successes.
ClassAgreesWithPenalty ==
    \A s \in HealthServers :
        /\ health[s].class = "good" => health[s].penalty = 0
        /\ health[s].class = "degraded" => health[s].penalty > 0

\* Only a hard failure keeps a server waiting, and for no longer than the delay
\* of its class and its number of failures.
CooldownHasCause ==
    \A s \in HealthServers :
        health[s].retryIn > 0 =>
            /\ health[s].class \in Hard /\ health[s].failures > 0
            /\ health[s].retryIn <= retryDelay(health[s].class, health[s].failures)

\* The class of a server says why it is avoided: good ones are not, degraded
\* ones have a penalty, and only failing ones wait, after any sequence of errors,
\* decays and successes.
ClassExplainsHealth == ClassAgreesWithPenalty /\ CooldownHasCause
=============================================================================
