------------------------------ MODULE MCTables ------------------------------
(***************************************************************************)
(* The tables, caches and timers that several goroutines share, the rules   *)
(* they are made of, and the credit account of a channel.  Each is a        *)
(* machine of its own; a behaviour of this module is a behaviour of one.    *)
(***************************************************************************)
EXTENDS ReverseRoutes, RouteRules, AclCache, DNSPending, FakeDNS, UDPFragments,
        MuxIdle, MCCreditFlow, TLC

VARIABLE focus      \* the machine this behaviour is about

cacheTables == <<aclVars, pendVars, fakeVars, rulesVars>>
muxTables == <<revVars, fragVars, idleVars, vars>>
tableVars == <<focus, cacheTables, muxTables>>

TablesInit ==
    /\ focus \in {"acl", "pending", "fake", "rules", "routes", "fragments", "idle", "credit"}
    /\ AclInit /\ PendInit /\ FakeInit /\ RulesInit
    /\ RevInit /\ FragInit /\ IdleInit /\ Init

CacheTablesNext ==
    \/ focus = "acl" /\ AclNext /\ UNCHANGED <<pendVars, fakeVars, rulesVars>>
    \/ focus = "pending" /\ PendNext /\ UNCHANGED <<aclVars, fakeVars, rulesVars>>
    \/ focus = "fake" /\ FakeNext /\ UNCHANGED <<aclVars, pendVars, rulesVars>>
    \/ focus = "rules" /\ RulesNext /\ UNCHANGED <<aclVars, pendVars, fakeVars>>

MuxTablesNext ==
    \/ focus = "routes" /\ RevNext /\ UNCHANGED <<fragVars, idleVars, vars>>
    \/ focus = "fragments" /\ FragNext /\ UNCHANGED <<revVars, idleVars, vars>>
    \/ focus = "idle" /\ IdleNext /\ UNCHANGED <<revVars, fragVars, vars>>
    \/ focus = "credit" /\ Next /\ UNCHANGED <<revVars, fragVars, idleVars>>

TablesNext ==
    /\ UNCHANGED focus
    /\ \/ CacheTablesNext /\ UNCHANGED muxTables
       \/ MuxTablesNext /\ UNCHANGED cacheTables

\* No definition tells one forwarder from another.
ForwarderSymmetry == Permutations(Forwarders)

TablesSpec == TablesInit /\ [][TablesNext]_tableVars
=============================================================================
