----------------------------- MODULE MCPooling -----------------------------
(***************************************************************************)
(* The two machines many connections share at the client: the pool that     *)
(* gives each one a mux and the cache that remembers earlier answers.  A    *)
(* behaviour of this module is a behaviour of one of them.                  *)
(***************************************************************************)
EXTENDS MCMuxPool, TTLCache

VARIABLE focus      \* the machine this behaviour is about

poolingVars == <<focus, vars, cacheVars>>

PoolingInit == focus \in {"pool", "cache"} /\ Init /\ CacheInit

PoolingNext ==
    /\ UNCHANGED focus
    /\ \/ focus = "pool" /\ Next /\ UNCHANGED cacheVars
       \/ focus = "cache" /\ CacheNext /\ UNCHANGED vars

PoolingSpec == PoolingInit /\ [][PoolingNext]_poolingVars
=============================================================================
