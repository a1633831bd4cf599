----------------------------- MODULE ForgetfulMap -----------------------------
(***************************************************************************)
(* What a user of pkg/lrucache may rely on: a map whose calls take effect   *)
(* at one moment each.  It may forget any key at any call, but never the    *)
(* key being put, and it never answers with a value that was replaced,      *)
(* deleted or taken.                                                        *)
(***************************************************************************)
CONSTANTS Keys, Values, Absent

VARIABLES
    map,    \* [Keys -> Values or Absent]
    last    \* the last call and its answer

mapVars == <<map, last>>

MapInit == map = [k \in Keys |-> Absent] /\ last.op = "clear"

\* Keys may be lost along the way.
Forgets(before) ==
    /\ map' \in [Keys -> Values \cup {Absent}]
    /\ \A k \in Keys : map'[k] \in {before[k], Absent}

Respond ==
    \/ /\ last'.op = "put" /\ map'[last'.key] = last'.value
       /\ Forgets([map EXCEPT ![last'.key] = last'.value])
    \/ /\ last'.op \in {"get", "peek"} /\ last'.answer = map'[last'.key]
       /\ Forgets(map)
    \/ /\ last'.op = "take" /\ last'.answer \in {map[last'.key], Absent}
       /\ Forgets([map EXCEPT ![last'.key] = Absent])
    \/ last'.op = "delete" /\ Forgets([map EXCEPT ![last'.key] = Absent])
    \/ last'.op = "clear" /\ map' = [k \in Keys |-> Absent]
    \/ last'.op = "len" /\ Forgets(map)

MapSpec == MapInit /\ [][Respond]_mapVars
=============================================================================
