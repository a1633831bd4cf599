------------------------------- MODULE TTLCache -------------------------------
(***************************************************************************)
(* pkg/lrucache: a map with a time to live and a size, under one mutex.     *)
(* The connect cache, the DNS cache, the pending DNS queries, FakeDNS and   *)
(* the ACL cache are made of it.                                            *)
(*                                                                          *)
(* A call is one step, the one in which it has the mutex.  But it reads the *)
(* clock before it waits for the mutex, so that the time it carries may be  *)
(* any that has been, and calls may take effect in another order than their *)
(* times, however many callers there are.                                   *)
(***************************************************************************)
EXTENDS SeqFilter, Functions

CONSTANTS
    Keys, Values, Absent,
    TTL,        \* in ticks; 0: entries do not expire
    MaxSize,
    MaxClock, MaxUses   \* bounds of the model

ASSUME CacheConstants ==
    /\ TTL \in Nat /\ MaxSize \in Nat \ {0} /\ MaxClock \in Nat /\ MaxUses \in Nat
    /\ Absent \notin Values

VARIABLES
    lru,    \* items and the list: entries, the most recently used first
    clock,
    last,   \* history: the last call, its time and its answer
    uses    \* history: calls that have found or put an entry

cacheVars == <<lru, clock, last, uses>>

Entry == [key : Keys, value : Values, seen : Nat, use : Nat]
Answers == Values \cup {Absent}

CacheTypeOK ==
    /\ lru \in Seq(Entry) /\ clock \in 0..MaxClock /\ uses \in 0..MaxUses
    /\ last.now \in 0..clock /\ last.answer \in Answers

CacheInit ==
    /\ lru = <<>> /\ clock = 0 /\ uses = 0
    /\ last = [op |-> "clear", now |-> 0, answer |-> Absent]

\* Mutant: an entry is still served a tick after its time.
ExpiredLate(e, now) == TTL > 0 /\ now > e.seen + TTL + 1

\* now.Sub(lastSeen) > ttl; a call may carry a time before lastSeen.
Expired(e, now) == TTL > 0 /\ now > e.seen + TTL

\* The entry of a key, as a set.
Items(k) == {e \in Range(lru) : e.key = k}
Dropped(k) == Only(lru, {e \in Range(lru) : e.key # k})
Prune(now) == Only(lru, {e \in Range(lru) : ~Expired(e, now)})
Served(k, now) == {e \in Items(k) : ~Expired(e, now)}
AnswerOf(entries) == IF entries = {} THEN Absent ELSE (CHOOSE e \in entries : TRUE).value

\* Mutant: the entry found is not moved to the front.
FoundInPlace(e) == [i \in DOMAIN lru |-> IF lru[i].key = e.key THEN e ELSE lru[i]]

\* MoveToFront.
Found(e) == <<e>> \o Dropped(e.key)

\* A hit: Get renews the time, GetNoRefresh does not.
Touched(e, op, now) ==
    [e EXCEPT !.seen = IF op = "get" THEN now ELSE @, !.use = uses + 1]

\* get, for Get and GetNoRefresh.
DoGet(op, k, now) ==
    /\ last' = [op |-> op, key |-> k, now |-> now, answer |-> AnswerOf(Served(k, now))]
    /\ \/ Served(k, now) = {} /\ lru' = Dropped(k) /\ UNCHANGED uses
       \/ \E e \in Served(k, now) :
             lru' = Found(Touched(e, op, now)) /\ uses' = uses + 1

\* The list with k in front.
WithFirst(k, v, now) ==
    <<[key |-> k, value |-> v, seen |-> now, use |-> uses + 1]>>
        \o Only(lru, {e \in Range(lru) : ~Expired(e, now) /\ e.key # k})
Shortened(s, n) == SubSeq(s, 1, IF Len(s) > n THEN n ELSE Len(s))

\* Mutant: the size is looked at before the entry is added.
PutOverfull(k, v, now) ==
    /\ lru' = Shortened(WithFirst(k, v, now), MaxSize + 1) /\ uses' = uses + 1
    /\ last' = [op |-> "put", key |-> k, value |-> v, now |-> now, answer |-> Absent]

\* Expired entries go first, then the ones used least recently.
DoPut(k, v, now) ==
    /\ lru' = Shortened(WithFirst(k, v, now), MaxSize) /\ uses' = uses + 1
    /\ last' = [op |-> "put", key |-> k, value |-> v, now |-> now, answer |-> Absent]

\* Mutant: the entry taken stays.
TakeAndKeep(k, now) ==
    /\ last' = [op |-> "take", key |-> k, now |-> now, answer |-> AnswerOf(Served(k, now))]
    /\ UNCHANGED <<lru, uses>>

DoTake(k, now) ==
    /\ last' = [op |-> "take", key |-> k, now |-> now, answer |-> AnswerOf(Served(k, now))]
    /\ lru' = Dropped(k) /\ UNCHANGED uses

DoDelete(k) ==
    /\ lru' = Dropped(k) /\ UNCHANGED uses
    /\ last' = [op |-> "delete", key |-> k, now |-> 0, answer |-> Absent]

\* Clear; and Len, which reads the clock with the mutex in hand.
DoClear ==
    /\ lru' = <<>> /\ UNCHANGED uses
    /\ last' = [op |-> "clear", now |-> 0, answer |-> Absent]
DoLen ==
    /\ lru' = Prune(clock) /\ UNCHANGED uses
    /\ last' = [op |-> "len", now |-> clock, answer |-> Absent]

CacheCall ==
    /\ uses < MaxUses /\ UNCHANGED clock
    /\ \/ DoClear \/ DoLen
       \/ \E k \in Keys :
             \/ DoDelete(k)
             \/ \E now \in 0..clock :
                   \/ \E op \in {"get", "peek"} : DoGet(op, k, now)
                   \/ DoTake(k, now)
                   \/ \E v \in Values : DoPut(k, v, now)

ClockTicks == clock < MaxClock /\ clock' = clock + 1 /\ UNCHANGED <<lru, last, uses>>

CacheNext == ClockTicks \/ CacheCall

CacheSpec == CacheInit /\ [][CacheNext]_cacheVars

-----------------------------------------------------------------------------
(* Properties *)

\* Put leaves at most maxSize entries, each key once.
CacheWithinSize ==
    /\ Len(lru) <= MaxSize
    /\ \A i, j \in DOMAIN lru : lru[i].key = lru[j].key => i = j

\* What is evicted for size is what was used longest ago: the list is in the
\* order of the last uses, whatever times the calls carry.
OldestUseLast == \A i, j \in DOMAIN lru : i < j => lru[i].use > lru[j].use

\* The cache keeps the most recently used entries, no more than maxSize, although
\* the times of the calls overtake each other.
LeastRecentGoes == CacheWithinSize /\ OldestUseLast

\* An answer is never older than the time to live by the caller's own clock
\* reading: entries whose time had passed when the call began are not served.
NoExpiredAnswer ==
    [][last'.answer # Absent /\ UNCHANGED clock =>
          \E e \in Items(last'.key) :
             e.value = last'.answer /\ (TTL = 0 \/ last'.now <= e.seen + TTL)]_cacheVars

\* The cache is a forgetful map: no value outlives its replacement or removal,
\* and a put is not lost in the call that makes it.
Abstract == INSTANCE ForgetfulMap WITH
    map <- [k \in Keys |-> AnswerOf(Items(k))]

IsForgetfulMap == Abstract!MapSpec
=============================================================================
