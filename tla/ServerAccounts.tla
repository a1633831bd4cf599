--------------------------- MODULE ServerAccounts ---------------------------
(***************************************************************************)
(* The accounts of a server: connections of one user, the traffic they are  *)
(* charged with, the periodic flush that reloads the configuration, closes  *)
(* the connections of users who lost their access and writes the traffic    *)
(* back, the idle cleanup, edits of the file and crashes.                   *)
(* (cmd/server/main.go, pkg/config/config.go)                               *)
(*                                                                          *)
(* Upload and download are counted alike, so one counter stands for both.   *)
(***************************************************************************)
EXTENDS Integers, FiniteSets, Functions

CONSTANTS
    Conns,          \* connections
    MaxTraffic,     \* bound of the model: bytes moved in a behaviour
    MaxEdits,       \* bound of the model: edits of the file
    MaxFaults,      \* bound of the model: failed loads and saves, and crashes
    EditDuringFlush \* whether the file may be edited between load and rename

ASSUME AccountConstants ==
    /\ IsFiniteSet(Conns) /\ {MaxTraffic, MaxEdits, MaxFaults} \subseteq Nat
    /\ EditDuringFlush \in BOOLEAN

VARIABLES
    file,       \* the configuration file: its form, the user's status and count
    status,     \* the user in s.users
    conn,       \* [Conns -> connection]
    unflushed,  \* s.pending of the user
    flush,      \* flushTraffic: its place, its cfg and its snapshot
    sweep,      \* muxConnMu is held and these are collected and not yet closed
    moved,      \* history: bytes moved
    lostBytes,  \* history: bytes that will never be charged
    edits, faults

accVars == <<file, status, conn, unflushed, flush, sweep, moved, lostBytes, edits, faults>>

\* "last": removed, and no other user is left.
Statuses == {"on", "off", "removed", "last"}
\* "rules": a user's rules do not compile; "broken": the file does not parse, or
\* names a user twice.
Forms == {"good", "rules", "broken"}
NoConn == [state |-> "none", known |-> FALSE, named |-> FALSE, listed |-> FALSE,
           bytes |-> 0, last |-> 0]
Idle == [at |-> "idle", cfg |-> "on", form |-> "good", count |-> 0, snap |-> 0]
FlushPlace == {"idle", "load", "users", "close", "drop", "snapshot", "save", "rename",
               "subtract", "down"}

Connection == [state : {"none", "open", "closed"}, known : BOOLEAN, named : BOOLEAN,
               listed : BOOLEAN, bytes : Nat, last : Nat]

AccTypeOK ==
    /\ file \in [status : Statuses, form : Forms, count : Nat] /\ status \in Statuses
    /\ conn \in [Conns -> Connection]
    /\ unflushed \in Nat
    /\ flush \in [at : FlushPlace, cfg : Statuses, form : Forms, count : Nat, snap : Nat]
    /\ sweep \subseteq Conns
    /\ moved \in Nat /\ lostBytes \in Nat /\ edits \in Nat /\ faults \in Nat

AccInit ==
    /\ file = [status |-> "on", form |-> "good", count |-> 0] /\ status = "on"
    /\ conn = [c \in Conns |-> NoConn]
    /\ unflushed = 0 /\ flush = Idle /\ sweep = {}
    /\ moved = 0 /\ lostBytes = 0 /\ edits = 0 /\ faults = 0

-----------------------------------------------------------------------------
(* Connections *)

\* handleConnection takes the credentials of the enabled users.
Connect(c) ==
    /\ conn[c].state = "none" /\ flush.at # "down"
    /\ conn' = [conn EXCEPT ![c].state = "open", ![c].known = (status = "on")]
    /\ UNCHANGED <<file, status, unflushed, flush, sweep, moved, lostBytes, edits, faults>>

\* It joins muxConns with an empty snapshot.
JoinConns(c) ==
    /\ conn[c].state = "open" /\ ~conn[c].listed /\ sweep = {}
    /\ conn' = [conn EXCEPT ![c].listed = TRUE]
    /\ UNCHANGED <<file, status, unflushed, flush, sweep, moved, lostBytes, edits, faults>>

\* ensureAuthenticatedUser, against the credentials taken at the start.
Authenticate(c) ==
    /\ conn[c].state = "open" /\ conn[c].listed /\ conn[c].known /\ ~conn[c].named
    /\ conn' = [conn EXCEPT ![c].named = TRUE]
    /\ UNCHANGED <<file, status, unflushed, flush, sweep, moved, lostBytes, edits, faults>>

Transfer(c) ==
    /\ conn[c].state = "open" /\ conn[c].named /\ moved < MaxTraffic
    /\ conn' = [conn EXCEPT ![c].bytes = @ + 1]
    /\ moved' = moved + 1
    /\ UNCHANGED <<file, status, unflushed, flush, sweep, lostBytes, edits, faults>>

Disconnect(c) ==
    /\ conn[c].state = "open" /\ conn[c].listed
    /\ conn' = [conn EXCEPT ![c].state = "closed"]
    /\ UNCHANGED <<file, status, unflushed, flush, sweep, moved, lostBytes, edits, faults>>

-----------------------------------------------------------------------------
(* Charging *)

\* collectConnTrafficLocked on a set of connections: what a named connection
\* has moved since the last time goes to unflushed.
Due(c) == conn[c].bytes - conn[c].last
DueOf(cs) == SumFunctionOnSet([c \in Conns |-> Due(c)], cs)
Chargeable(cs) == {c \in cs : conn[c].named}
Collected(cs) == [c \in Conns |-> IF c \in Chargeable(cs)
                                  THEN [conn[c] EXCEPT !.last = conn[c].bytes] ELSE conn[c]]
CollectedSum(cs) == DueOf(Chargeable(cs))
Listed == {c \in Conns : conn[c].listed}

\* cleanupIdleConnections, first half for a connection that is closed or idle.
SweepCollect(c) ==
    /\ sweep = {} /\ conn[c].listed
    /\ conn' = Collected({c})
    /\ unflushed' = unflushed + CollectedSum({c})
    /\ sweep' = {c}
    /\ UNCHANGED <<file, status, flush, moved, lostBytes, edits, faults>>

\* Second half: it is closed and forgotten; what it moved meanwhile is lost.
Drop(cs) ==
    /\ conn' = [c \in Conns |->
                  IF c \in cs THEN [conn[c] EXCEPT !.state = "closed", !.listed = FALSE]
                  ELSE conn[c]]
    /\ lostBytes' = lostBytes + DueOf(cs)
    /\ sweep' = {}
SweepDrop ==
    /\ sweep # {} /\ flush.at # "drop"
    /\ Drop(sweep)
    /\ UNCHANGED <<file, status, unflushed, flush, moved, edits, faults>>

-----------------------------------------------------------------------------
(* flushTraffic *)

IsAt(p) == flush.at = p
Proceed(p) == flush' = [flush EXCEPT !.at = p]

\* collectActiveTraffic
FlushCollect ==
    /\ IsAt("idle") /\ sweep = {}
    /\ conn' = Collected(Listed)
    /\ unflushed' = unflushed + CollectedSum(Listed)
    /\ Proceed("load")
    /\ UNCHANGED <<file, status, sweep, moved, lostBytes, edits, faults>>

\* LoadServerConfig and normalizeUsers ...
FlushLoad ==
    /\ IsAt("load") /\ file.form # "broken"
    /\ flush' = [flush EXCEPT !.at = "users", !.cfg = file.status, !.form = file.form,
                              !.count = file.count]
    /\ UNCHANGED <<file, status, conn, unflushed, sweep, moved, lostBytes, edits, faults>>

\* ... which may fail, and end the flush.
FlushLoadFails ==
    /\ IsAt("load") /\ flush' = Idle
    /\ \/ file.form = "broken" /\ UNCHANGED faults
       \/ faults < MaxFaults /\ faults' = faults + 1
    /\ UNCHANGED <<file, status, conn, unflushed, sweep, moved, lostBytes, edits>>

\* setUsers takes a list with users in it whose rules compile.
Usable(userStatus, form) == userStatus # "last" /\ form = "good"

\* Mutant: connections are looked at only when the user has changed.
FlushUsersIfChanged ==
    /\ IsAt("users") /\ Usable(flush.cfg, flush.form)
    /\ status' = flush.cfg
    /\ Proceed(IF status' = status THEN "snapshot" ELSE "close")
    /\ UNCHANGED <<file, conn, unflushed, sweep, moved, lostBytes, edits, faults>>

FlushUsers ==
    /\ IsAt("users") /\ Usable(flush.cfg, flush.form)
    /\ status' = flush.cfg
    /\ Proceed("close")
    /\ UNCHANGED <<file, conn, unflushed, sweep, moved, lostBytes, edits, faults>>

\* setUsers fails: the users stay and no connection is closed.  Without a user
\* in the list the flush ends here.
FlushUsersFails ==
    /\ IsAt("users") /\ ~Usable(flush.cfg, flush.form)
    /\ IF flush.cfg = "last" THEN flush' = Idle ELSE Proceed("snapshot")
    /\ UNCHANGED <<file, status, conn, unflushed, sweep, moved, lostBytes, edits, faults>>

\* closeUnavailableConnections charges those of a user without access ...
Refused == {c \in Listed : conn[c].named /\ status # "on"}
FlushClose ==
    /\ IsAt("close") /\ sweep = {}
    /\ conn' = Collected(Refused)
    /\ unflushed' = unflushed + CollectedSum(Refused)
    /\ sweep' = Refused /\ Proceed(IF Refused = {} THEN "snapshot" ELSE "drop")
    /\ UNCHANGED <<file, status, moved, lostBytes, edits, faults>>

\* ... and closes them.
FlushDrop ==
    /\ IsAt("drop")
    /\ Drop(sweep)
    /\ Proceed("snapshot")
    /\ UNCHANGED <<file, status, unflushed, moved, edits, faults>>

\* pendingSnapshot; nothing to write ends the flush.
FlushSnapshot ==
    /\ IsAt("snapshot")
    /\ flush' = IF unflushed = 0 THEN Idle
                ELSE [flush EXCEPT !.at = "save", !.snap = unflushed]
    /\ UNCHANGED <<file, status, conn, unflushed, sweep, moved, lostBytes, edits, faults>>

\* SaveServerConfigAtomic: the temporary file, which may fail...
FlushSave ==
    /\ IsAt("save")
    /\ \/ Proceed("rename") /\ UNCHANGED faults
       \/ faults < MaxFaults /\ faults' = faults + 1 /\ flush' = Idle
    /\ UNCHANGED <<file, status, conn, unflushed, sweep, moved, lostBytes, edits>>

\* ... and the rename.  A user who is not in cfg is not charged.
Charged == IF flush.cfg \in {"removed", "last"} THEN 0 ELSE flush.snap
FlushRename ==
    /\ IsAt("rename")
    /\ file' = [status |-> flush.cfg, form |-> flush.form, count |-> flush.count + Charged]
    /\ Proceed("subtract")
    /\ UNCHANGED <<status, conn, unflushed, sweep, moved, lostBytes, edits, faults>>

\* Mutant: everything is forgotten, not only what was written.
FlushSubtractAll ==
    /\ IsAt("subtract")
    /\ unflushed' = 0
    /\ lostBytes' = lostBytes + flush.snap - Charged
    /\ flush' = Idle
    /\ UNCHANGED <<file, status, conn, sweep, moved, edits, faults>>

\* subtractPending
FlushSubtract ==
    /\ IsAt("subtract")
    /\ unflushed' = IF unflushed <= flush.snap THEN 0 ELSE unflushed - flush.snap
    /\ lostBytes' = lostBytes + flush.snap - Charged
    /\ flush' = Idle
    /\ UNCHANGED <<file, status, conn, sweep, moved, edits, faults>>

FlushStep ==
    \/ FlushCollect \/ FlushLoad \/ FlushLoadFails \/ FlushUsers \/ FlushUsersFails
    \/ FlushClose \/ FlushDrop \/ FlushSnapshot \/ FlushSave \/ FlushRename \/ FlushSubtract

-----------------------------------------------------------------------------
(* The administrator, and crashes *)

FileIsCopied == flush.at \in {"users", "close", "drop", "snapshot", "save", "rename"}

\* The user is switched on or off or removed in the file, or the file is damaged
\* or repaired.
EditFile ==
    /\ edits < MaxEdits /\ (EditDuringFlush \/ ~FileIsCopied)
    /\ edits' = edits + 1
    /\ \/ \E s \in Statuses \ {file.status} : file' = [file EXCEPT !.status = s]
       \/ \E f \in Forms \ {file.form} : file' = [file EXCEPT !.form = f]
    /\ UNCHANGED <<status, conn, unflushed, flush, sweep, moved, lostBytes, faults>>

\* The process dies: connections and unflushed traffic go, the file stays as the
\* last rename left it.
Uncharged ==
    unflushed + DueOf(Listed) - (IF IsAt("subtract") THEN Charged ELSE 0)
Crash ==
    /\ faults < MaxFaults /\ faults' = faults + 1
    /\ lostBytes' = lostBytes + Uncharged
    /\ conn' = [c \in Conns |-> IF conn[c].state = "none" THEN NoConn
                                ELSE [NoConn EXCEPT !.state = "closed"]]
    /\ unflushed' = 0 /\ flush' = [Idle EXCEPT !.at = "down"] /\ sweep' = {}
    /\ UNCHANGED <<file, status, moved, edits>>

\* It is started again: NewServer refuses what setUsers refuses.
Restart ==
    /\ IsAt("down") /\ Usable(file.status, file.form)
    /\ status' = file.status /\ flush' = Idle
    /\ UNCHANGED <<file, conn, unflushed, sweep, moved, lostBytes, edits, faults>>

AccNext ==
    \/ \E c \in Conns : \/ Connect(c) \/ JoinConns(c) \/ Authenticate(c) \/ Transfer(c)
                        \/ Disconnect(c) \/ SweepCollect(c)
    \/ SweepDrop \/ FlushStep \/ EditFile \/ Crash \/ Restart

AccSpec == AccInit /\ [][AccNext]_accVars

\* The flush ticker and the cleanup go on.
AccFairness ==
    WF_accVars(FlushStep) /\ WF_accVars(SweepDrop)

-----------------------------------------------------------------------------
(* Properties *)

\* Every byte a user moved is in the file, in unflushed, still to be collected,
\* or lost in one of the three known ways (a crash, a removed user, the moment
\* between the last look at a connection and its close), and in one place only:
\* concurrent collections, failed saves, edits and a crash between rename and
\* subtract charge nothing twice.
TrafficConserved ==
    moved = file.count + Uncharged + lostBytes

Barred == file.status # "on" /\ Usable(file.status, file.form)

\* A user switched off or removed in a file that setUsers takes, as edited or
\* once it is repaired, keeps no connection: those that were open, and those
\* that authenticated with credentials taken before the refresh, are closed by
\* a later one.  With no user left, with rules that do not compile or a file
\* that cannot be read, connections stay.  (closeUnavailableConnections)
DisabledUserDropped ==
    Barred ~> ~Barred \/ \A c \in Conns : ~(conn[c].state = "open" /\ conn[c].named)
=============================================================================
