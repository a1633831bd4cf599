------------------------------ MODULE AclCache ------------------------------
(***************************************************************************)
(* Decisions of the server's access lists and their cache, while the        *)
(* configuration is refreshed: setUsers swaps the lists and then raises the *)
(* generation that is part of every cache key.     (cmd/server/main.go)     *)
(*                                                                          *)
(* One user and one target; a decision is the number of the refresh whose   *)
(* lists it was taken from.                                                 *)
(***************************************************************************)
EXTENDS Naturals, FiniteSets

CONSTANTS
    Deciders,       \* goroutines in decideACL
    CacheSize,      \* capacity of aclCache, in keys of this user and target
    MaxRefreshes    \* bound of the model

ASSUME AclConstants == CacheSize \in Nat \ {0} /\ MaxRefreshes \in Nat

VARIABLES
    lists,          \* userACLs: the refresh they came from
    generation,     \* aclGeneration
    aclCache,       \* set of [gen, list]: the entries, by generation
    decider         \* [Deciders -> the state of decideACL]

aclVars == <<lists, generation, aclCache, decider>>

DeciderPlace == {"idle", "keyed", "computed", "decided"}

AclTypeOK ==
    /\ lists \in 0..MaxRefreshes /\ generation \in 0..MaxRefreshes
    /\ aclCache \subseteq [gen : 0..MaxRefreshes, list : 0..MaxRefreshes]
    /\ Cardinality(aclCache) <= CacheSize
    /\ decider \in [Deciders -> [at : DeciderPlace, gen : 0..MaxRefreshes,
                                 list : 0..MaxRefreshes]]

AclInit ==
    /\ lists = 0 /\ generation = 0 /\ aclCache = {}
    /\ decider = [d \in Deciders |-> [at |-> "idle", gen |-> 0, list |-> 0]]

\* setUsers, under usersMu ...
SwapLists ==
    /\ lists < MaxRefreshes /\ generation = lists
    /\ lists' = lists + 1
    /\ UNCHANGED <<generation, aclCache, decider>>

\* ... and after it.
RaiseGeneration ==
    /\ generation # lists
    /\ generation' = lists
    /\ UNCHANGED <<lists, aclCache, decider>>

Put(cache, g, l) ==
    LET kept == {e \in cache : e.gen # g} IN
    IF Cardinality(kept) < CacheSize THEN {kept \cup {[gen |-> g, list |-> l]}}
    ELSE {(kept \ {old}) \cup {[gen |-> g, list |-> l]} : old \in kept}

\* decideACL makes the key before it looks at the lists.
MakeKey(d) ==
    /\ decider[d].at = "idle"
    /\ decider' = [decider EXCEPT ![d] = [at |-> "keyed", gen |-> generation, list |-> 0]]
    /\ UNCHANGED <<lists, generation, aclCache>>

Hit(d) ==
    /\ decider[d].at = "keyed"
    /\ \E e \in aclCache :
          /\ e.gen = decider[d].gen
          /\ decider' = [decider EXCEPT ![d].at = "decided", ![d].list = e.list]
    /\ UNCHANGED <<lists, generation, aclCache>>

\* decideACLUncached; the read lock covers the lookup of the user's lists.
Miss(d) ==
    /\ decider[d].at = "keyed"
    /\ \A e \in aclCache : e.gen # decider[d].gen
    /\ decider' = [decider EXCEPT ![d].at = "computed", ![d].list = lists]
    /\ UNCHANGED <<lists, generation, aclCache>>

\* Mutant: the entry goes under the generation of the moment it is stored.
StoreUnderLatest(d) ==
    /\ decider[d].at = "computed"
    /\ aclCache' \in Put(aclCache, generation, decider[d].list)
    /\ decider' = [decider EXCEPT ![d].at = "decided"]
    /\ UNCHANGED <<lists, generation>>

Store(d) ==
    /\ decider[d].at = "computed"
    /\ aclCache' \in Put(aclCache, decider[d].gen, decider[d].list)
    /\ decider' = [decider EXCEPT ![d].at = "decided"]
    /\ UNCHANGED <<lists, generation>>

\* The next request.
Again(d) ==
    /\ decider[d].at = "decided"
    /\ decider' = [decider EXCEPT ![d] = [at |-> "idle", gen |-> 0, list |-> 0]]
    /\ UNCHANGED <<lists, generation, aclCache>>

\* Entries leave by age or for other users' entries.
Forget ==
    /\ \E e \in aclCache : aclCache' = aclCache \ {e}
    /\ UNCHANGED <<lists, generation, decider>>

AclNext ==
    \/ SwapLists \/ RaiseGeneration \/ Forget
    \/ \E d \in Deciders : MakeKey(d) \/ Hit(d) \/ Miss(d) \/ Store(d) \/ Again(d)

AclSpec == AclInit /\ [][AclNext]_aclVars

\* A decision asked for after a refresh has finished is never taken from the
\* lists before it, although a goroutine that computed its decision before the
\* refresh may store it after, and the swap and the new generation are two
\* steps.
RefreshedListsDecide ==
    \A d \in Deciders : decider[d].at = "decided" => decider[d].list >= decider[d].gen
=============================================================================
