----------------------------- MODULE UDPFragments -----------------------------
(***************************************************************************)
(* The reassembly of SOCKS5 UDP fragments (pkg/socks5/udp_fragments.go):    *)
(* one queue per association, fragments numbered from 1, the last one       *)
(* marked, a timer that drops an unfinished sequence, and a generation that *)
(* tells a timer which sequence it was started for.                         *)
(*                                                                          *)
(* UDP loses, repeats and reorders: any fragment may arrive at any time.    *)
(* A fragment's data is its size.  Time is counted in ticks up to Lifetime; *)
(* a timer fires late if the clock says so, and its callback may be left    *)
(* waiting for mu while Push goes on.                                       *)
(***************************************************************************)
EXTENDS Naturals, Sequences

CONSTANTS
    FragTargets,    \* address type, address and port, as one value
    Heavy,          \* targets whose fragments carry two units of data
    MaxFrag,        \* 127
    MaxQueued,        \* udpFragmentDataLimit
    Lifetime,       \* udpFragmentReassemblyTimeout, in ticks
    MaxPushes       \* bound of the model: pushes that touch the queue

ASSUME FragmentConstants ==
    /\ Heavy \subseteq FragTargets
    /\ MaxFrag \in Nat \ {0} /\ MaxQueued \in Nat \ {0} /\ Lifetime \in Nat \ {0}
    /\ MaxPushes \in Nat

VARIABLES
    highest,    \* highestFrag, 0 when nothing is queued
    dest,     \* addrType, dstAddr and dstPort of the queued sequence
    queued,     \* len(data)
    fragGen,    \* generation; only ever compared for equality, so one step per Push
    armed,      \* r.timer: generation and age, or NoTimer
    running,    \* generations of the callbacks that have fired and wait for mu
    output,     \* what the last Push returned: the size of a datagram, or 0
    past        \* history: the last MaxFrag pushes, each with its age

fragVars == <<highest, dest, queued, fragGen, armed, running, output, past>>

NoTimer == [gen |-> 0, age |-> 0]
Fragment == [num : 0..MaxFrag, last : BOOLEAN, dest : FragTargets]
Size(f) == IF f.dest \in Heavy THEN 2 ELSE 1

FragTypeOK ==
    /\ highest \in 0..MaxFrag /\ dest \in FragTargets \cup {"none"}
    /\ queued \in 0..MaxQueued /\ fragGen \in Nat
    /\ armed \in [gen : Nat, age : 0..Lifetime] /\ running \subseteq Nat
    /\ output \in Nat /\ Len(past) <= MaxFrag

FragInit ==
    /\ highest = 0 /\ dest = "none" /\ queued = 0 /\ fragGen = 0
    /\ armed = NoTimer /\ running = {} /\ output = 0 /\ past = <<>>

\* clearLocked: a timer that has not fired is stopped.
Clear ==
    /\ highest' = 0 /\ dest' = "none" /\ queued' = 0
    /\ armed' = NoTimer

\* Mutant: the number of a later fragment is not compared.
FollowsLoosely(f) == highest # 0 /\ f.dest = dest

\* A later fragment continues the queued sequence.
Follows(f) == highest # 0 /\ f.dest = dest /\ f.num = highest + 1

\* Mutant: every fragment moves the generation on, only the first starts a timer.
QueueUntimed(f, size) ==
    /\ highest' = f.num /\ dest' = f.dest /\ queued' = size
    /\ fragGen' = fragGen + 1
    /\ armed' = IF f.num = 1 THEN [gen |-> fragGen + 1, age |-> 0] ELSE armed

\* The fragment is taken into a sequence that stays open.
Queue(f, size) ==
    /\ highest' = f.num /\ dest' = f.dest /\ queued' = size
    /\ IF f.num = 1
       THEN fragGen' = fragGen + 1 /\ armed' = [gen |-> fragGen + 1, age |-> 0]
       ELSE UNCHANGED <<fragGen, armed>>

Recorded(f) ==
    LET now == Append(past, [frag |-> f, age |-> 0])
    IN  past' = IF Len(now) > MaxFrag THEN Tail(now) ELSE now

\* One call of Push.  FRAG 0 is a datagram of its own, and drops the queue; a
\* number 0 with the last bit is invalid.
Push(f) ==
    LET size == (IF f.num = 1 THEN 0 ELSE queued) + Size(f)
        joins == f.num = 1 \/ Follows(f)
        drops == ~joins \/ size > MaxQueued \/ (~f.last /\ f.num = MaxFrag)
    IN  /\ fragGen < MaxPushes
        /\ Recorded(f)
        /\ \/ /\ f.num = 0 /\ Clear /\ fragGen' = fragGen + 1
              /\ output' = IF f.last THEN 0 ELSE Size(f)
           \/ /\ f.num > 1 /\ highest = 0 /\ output' = 0
              /\ UNCHANGED <<highest, dest, queued, fragGen, armed>>
           \/ /\ f.num > 0 /\ (f.num = 1 \/ highest # 0) /\ drops
              /\ Clear /\ fragGen' = fragGen + 1 /\ output' = 0
           \/ /\ f.num > 0 /\ ~drops /\ ~f.last /\ Queue(f, size) /\ output' = 0
           \/ /\ f.num > 0 /\ ~drops /\ f.last
              /\ Clear /\ fragGen' = fragGen + 1 /\ output' = size
        /\ UNCHANGED running

\* The timer runs out; nothing can stop its callback any more.
TimerFires ==
    /\ armed # NoTimer /\ armed.age = Lifetime
    /\ running' = running \cup {armed.gen} /\ armed' = NoTimer
    /\ UNCHANGED <<highest, dest, queued, fragGen, output, past>>

\* Mutant: the callback does not look at the generation.
CallbackUnchecked(g) ==
    /\ g \in running /\ running' = running \ {g}
    /\ highest' = 0 /\ dest' = "none" /\ queued' = 0
    /\ UNCHANGED <<fragGen, armed, output, past>>

\* The callback has got mu.
Callback(g) ==
    /\ g \in running /\ running' = running \ {g}
    /\ IF g = fragGen THEN highest' = 0 /\ dest' = "none" /\ queued' = 0
       ELSE UNCHANGED <<highest, dest, queued>>
    /\ UNCHANGED <<fragGen, armed, output, past>>

\* A timer does not fire early, and time does not wait for it to fire.
FragTick ==
    /\ \/ armed # NoTimer /\ armed.age < Lifetime
       \/ \E i \in DOMAIN past : past[i].age < Lifetime
    /\ armed' = IF armed = NoTimer \/ armed.age = Lifetime THEN armed
                ELSE [armed EXCEPT !.age = @ + 1]
    /\ past' = [i \in DOMAIN past |->
                   [past[i] EXCEPT !.age = IF @ < Lifetime THEN @ + 1 ELSE @]]
    /\ UNCHANGED <<highest, dest, queued, fragGen, running, output>>

FragNext ==
    \/ \E f \in Fragment : Push(f)
    \/ TimerFires
    \/ \E g \in running : Callback(g)
    \/ FragTick

FragSpec == FragInit /\ [][FragNext]_fragVars

-----------------------------------------------------------------------------
(* Properties: the state machine against the fragments that came last *)

\* The last k pushes are the fragments 1..k of one dest, the k-th the only
\* one marked last, and fit one datagram.
EndsWithSequence(k) ==
    /\ k \in 1..Len(past)
    /\ LET first == Len(past) - k
       IN  /\ \A i \in 1..k : /\ past[first + i].frag.num = i
                              /\ past[first + i].frag.dest = past[Len(past)].frag.dest
                              /\ past[first + i].frag.last = (i = k)
           /\ k * Size(past[Len(past)].frag) <= MaxQueued

\* What Push returned for the last fragment.
Returned(k) == output = k * Size(past[Len(past)].frag)

\* "Invalid, incomplete, expired, or dest-changing sequences are dropped as a
\* whole." (README.md:279): a Push that returns a datagram has just seen a
\* whole one, and returns all of it.
WholeDatagramsOnly ==
    output # 0 =>
        \/ past[Len(past)].frag.num = 0 /\ Returned(1)
        \/ \E k \in 1..MaxFrag : EndsWithSequence(k) /\ Returned(k)

\* A sequence that arrives whole within its lifetime is returned: no timer of
\* an earlier sequence drops it, however late its callback comes to run.
TimelySequenceReturned ==
    \A k \in 1..MaxFrag :
        EndsWithSequence(k) /\ past[Len(past) + 1 - k].age < Lifetime => Returned(k)

\* An unfinished sequence has a timer, running or about to.
SequenceIsTimed == highest # 0 => armed.gen = fragGen \/ fragGen \in running

\* Push returns nothing but whole sequences, all that came in time are returned,
\* and unfinished ones do not stay for ever: each has a timer.
DatagramsExact == WholeDatagramsOnly /\ TimelySequenceReturned /\ SequenceIsTimed
=============================================================================
