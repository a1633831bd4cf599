--------------------------- MODULE ServiceProofs ---------------------------
(***************************************************************************)
(* Proofs about the services of a server and a client: the traffic accounts *)
(* (ServerAccounts), for every finite set of connections, and the health of *)
(* servers (ServerHealth), for every number of servers.                     *)
(***************************************************************************)
EXTENDS ServerAccounts, ServerHealth, DataTheorems

-----------------------------------------------------------------------------
(* The accounts. *)

\* What the conservation of traffic needs besides: only named connections, and
\* only listed ones among the open, ever moved anything; collecting never runs
\* ahead; a connection being swept is still listed; and the flush writes back
\* the count it has loaded and a snapshot that unflushed still covers.
ConnectionsCounted ==
    \A c \in Conns : /\ conn[c].last <= conn[c].bytes
                     /\ ~conn[c].named => conn[c].bytes = 0
                     /\ conn[c].state = "open" /\ ~conn[c].listed => ~conn[c].named
                     /\ conn[c].state = "none" => ~conn[c].named
FlushCovered ==
    /\ FileIsCopied => flush.count = file.count
    /\ flush.at \in {"save", "rename", "subtract"} => flush.snap <= unflushed

AccInv == /\ AccTypeOK /\ TrafficConserved /\ ConnectionsCounted /\ FlushCovered
          /\ \A c \in sweep : conn[c].listed

FlushRecord == [at : FlushPlace, cfg : Statuses, form : Forms, count : Nat, snap : Nat]

\* The flush stays where it is, or moves between places where there is no
\* snapshot to be written.
FlushAdvances ==
    \/ flush' = flush
    \/ /\ flush' \in FlushRecord /\ flush.at # "subtract"
       /\ flush'.at \notin {"save", "rename", "subtract"}
       /\ FileIsCopied' => flush'.count = file'.count

\* What is due of each connection, as a map.
DuesOf(k) == [c \in Conns |-> k[c].bytes - k[c].last]

\* What a set of connections owes is a number.
LEMMA DuesTyped ==
    ASSUME NEW k \in [Conns -> Connection], NEW cs \in SUBSET Conns
    PROVE  /\ IsFiniteSet(cs) /\ SumFunctionOnSet(DuesOf(k), cs) \in Int
           /\ \A c \in Conns : DuesOf(k)[c] = k[c].bytes - k[c].last /\ DuesOf(k)[c] \in Int
           /\ (\A c \in cs : k[c].last <= k[c].bytes) => SumFunctionOnSet(DuesOf(k), cs) \in Nat
  <1>1. IsFiniteSet(cs)
    BY AccountConstants, FS_Subset, Zenon
  <1>2. \A c \in Conns : DuesOf(k)[c] = k[c].bytes - k[c].last /\ DuesOf(k)[c] \in Int
    BY DEF DuesOf, Connection
  <1>3. (\A c \in cs : k[c].last <= k[c].bytes) => \A c \in cs : DuesOf(k)[c] >= 0
    BY <1>2 DEF Connection
  <1> QED
    BY <1>1, <1>2, <1>3, SumType

\* Nothing is due of connections without a name: collecting the named ones
\* collects everything.
LEMMA CollectsAll ==
    ASSUME AccTypeOK, ConnectionsCounted, NEW cs \in SUBSET Conns
    PROVE  CollectedSum(cs) = SumFunctionOnSet(DuesOf(conn), cs)
  <1>1. conn \in [Conns -> Connection] /\ Chargeable(cs) \in SUBSET cs
    BY Zenon DEF Chargeable, AccTypeOK
  <1>2. IsFiniteSet(cs) /\ \A c \in cs : DuesOf(conn)[c] \in Int
    BY <1>1, DuesTyped, Zenon
  <1>3. \A c \in cs \ Chargeable(cs) : DuesOf(conn)[c] = 0
    <2>1. ASSUME NEW c \in cs \ Chargeable(cs) PROVE conn[c].bytes = 0 /\ conn[c].last = 0
      BY <1>1 DEF Chargeable, ConnectionsCounted, Connection
    <2> QED
      BY <2>1 DEF DuesOf
  <1>4. SumFunctionOnSet(DuesOf(conn), cs) = SumFunctionOnSet(DuesOf(conn), Chargeable(cs))
    BY <1>1, <1>2, <1>3, SumSupport, Zenon
  <1> QED
    BY <1>4, Zenon DEF CollectedSum, DueOf, Due, DuesOf

\* A new account.
LEMMA AccInitInv == AccInit => AccInv
  <1> SUFFICES ASSUME AccInit PROVE AccInv
    BY Zenon
  <1>1. AccTypeOK /\ ConnectionsCounted /\ FlushCovered /\ \A c \in sweep : conn[c].listed
    BY DEF AccInit, AccTypeOK, Connection, NoConn, Idle, FlushPlace, Statuses, Forms,
           ConnectionsCounted, FlushCovered, FileIsCopied
  <1>2. Listed = {} /\ ~IsAt("subtract")
    BY Zenon DEF Listed, IsAt, AccInit, NoConn, Idle
  <1>3. DueOf({}) = 0
    BY SumStep, FS_EmptySet, Zenon DEF DueOf
  <1>4. TrafficConserved
    BY <1>2, <1>3 DEF TrafficConserved, Uncharged, AccInit
  <1> QED
    BY <1>1, <1>4, Zenon DEF AccInv

\* The conservation law with the sum written out.
LEMMA BooksOpen ==
    /\ TrafficConserved <=>
         moved = file.count + (unflushed + SumFunctionOnSet(DuesOf(conn), Listed)
                   - (IF flush.at = "subtract" THEN Charged ELSE 0)) + lostBytes
    /\ TrafficConserved' <=>
         moved' = file'.count + (unflushed' + SumFunctionOnSet(DuesOf(conn'), Listed')
                   - (IF flush'.at = "subtract" THEN Charged' ELSE 0)) + lostBytes'
  BY Zenon DEF TrafficConserved, Uncharged, DueOf, Due, DuesOf, IsAt

\* A step of a connection that moves nothing and keeps its listing.
LEMMA ConnectionKept ==
    ASSUME AccInv, AccTypeOK',
           UNCHANGED <<file, status, unflushed, flush, sweep, moved, lostBytes, edits, faults>>,
           \A c \in Conns : /\ conn'[c].bytes = conn[c].bytes /\ conn'[c].last = conn[c].last
                            /\ conn'[c].listed = conn[c].listed
    PROVE  TrafficConserved' /\ FlushCovered' /\ (\A c \in sweep : conn[c].listed)'
  <1>1. Listed' = Listed /\ DuesOf(conn') = DuesOf(conn) /\ Charged' = Charged
    BY Zenon DEF Listed, DuesOf, Charged
  <1>2. TrafficConserved'
    BY <1>1, BooksOpen, Zenon DEF AccInv
  <1> QED
    BY <1>2, Zenon DEF AccInv, FlushCovered, FileIsCopied, AccTypeOK

\* The steps of a connection.
LEMMA ConnectionSteps ==
    ASSUME AccInv, NEW c \in Conns,
           Connect(c) \/ JoinConns(c) \/ Authenticate(c) \/ Disconnect(c) \/ Transfer(c)
    PROVE  AccInv'
  <1>t. /\ AccTypeOK /\ ConnectionsCounted /\ Listed \in SUBSET Conns /\ FlushCovered
        /\ conn \in [Conns -> Connection] /\ TrafficConserved
        /\ \A d \in sweep : conn[d].listed
    BY Zenon DEF AccInv, Listed, AccTypeOK
  <1>1. CASE Connect(c)
    <2>1. PICK b \in BOOLEAN : b = (status = "on")
      BY Zenon
    <2>2. conn' = [conn EXCEPT ![c].state = "open", ![c].known = b]
      BY <1>1, <2>1, Zenon DEF Connect
    <2> DEFINE k == [conn EXCEPT ![c].state = "open"]
    <2>3. k \in [Conns -> Connection]
      BY <1>t DEF Connection
    <2>4. conn' = [k EXCEPT ![c].known = b]
      BY <2>2, Zenon
    <2> HIDE DEF k
    <2>5. conn' \in [Conns -> Connection]
      BY <2>3, <2>4 DEF Connection
    <2>6. AccTypeOK'
      BY <1>t, <1>1, <2>5, Zenon DEF AccTypeOK, Connect
    <2>7. ConnectionsCounted'
      BY <1>t, <1>1, <2>2 DEF Connect, Connection, ConnectionsCounted
    <2>8. \A d \in Conns : /\ conn'[d].bytes = conn[d].bytes /\ conn'[d].last = conn[d].last
                           /\ conn'[d].listed = conn[d].listed
      BY <1>t, <2>2 DEF Connection
    <2> QED
      BY <1>1, <2>6, <2>7, <2>8, ConnectionKept, Zenon DEF AccInv, Connect
  <1>2. CASE Authenticate(c) \/ Disconnect(c)
    <2>1. AccTypeOK' /\ ConnectionsCounted'
      <3>1. CASE Authenticate(c)
        BY <1>t, <3>1, ZenonT(40) DEF AccTypeOK, Authenticate, Connection, ConnectionsCounted
      <3>2. CASE Disconnect(c)
        BY <1>t, <3>2 DEF AccTypeOK, Disconnect, Connection, ConnectionsCounted
      <3> QED
        BY <1>2, <3>1, <3>2, Zenon
    <2>2. \A d \in Conns : /\ conn'[d].bytes = conn[d].bytes /\ conn'[d].last = conn[d].last
                           /\ conn'[d].listed = conn[d].listed
      BY <1>t, <1>2 DEF Authenticate, Disconnect, Connection
    <2> QED
      BY <1>2, <2>1, <2>2, ConnectionKept, Zenon DEF AccInv, Authenticate, Disconnect
  <1>3. CASE JoinConns(c)
    <2>1. AccTypeOK' /\ ConnectionsCounted'
      BY <1>t, <1>3, ZenonT(40) DEF AccTypeOK, JoinConns, Connection, ConnectionsCounted
    <2>2. Listed' = Listed \cup {c} /\ c \notin Listed
      BY <1>t, <1>3, Zenon DEF JoinConns, Listed, Connection
    <2>3. DuesOf(conn') = DuesOf(conn)
      BY <1>t, <1>3, Zenon DEF JoinConns, DuesOf, Connection
    <2>4. DuesOf(conn)[c] = 0
      <3>1. conn[c].bytes = 0 /\ conn[c].last = 0
        BY <1>t, <1>3 DEF JoinConns, ConnectionsCounted, Connection
      <3> QED
        BY <3>1 DEF DuesOf
    <2>5. SumFunctionOnSet(DuesOf(conn'), Listed') = SumFunctionOnSet(DuesOf(conn), Listed)
      <3>1. /\ IsFiniteSet(Listed) /\ SumFunctionOnSet(DuesOf(conn), Listed) \in Int
            /\ \A d \in Listed \cup {c} : DuesOf(conn)[d] \in Int
        BY <1>t, DuesTyped, Zenon
      <3>2. SumFunctionOnSet(DuesOf(conn), Listed \cup {c})
              = SumFunctionOnSet(DuesOf(conn), Listed) + DuesOf(conn)[c]
        BY <2>2, <3>1, SumAdd, Zenon
      <3> QED
        BY <2>2, <2>3, <2>4, <3>1, <3>2
    <2>6. TrafficConserved'
      BY <1>t, <1>3, <2>5, BooksOpen, Zenon DEF JoinConns, Charged
    <2>7. FlushCovered' /\ (\A d \in sweep : conn[d].listed)'
      BY <1>t, <1>3, Zenon DEF JoinConns, FlushCovered, FileIsCopied, AccTypeOK, Connection
    <2> QED
      BY <2>1, <2>6, <2>7, Zenon DEF AccInv
  <1>4. CASE Transfer(c)
    <2>1. AccTypeOK' /\ ConnectionsCounted'
      BY <1>t, <1>4 DEF AccTypeOK, Transfer, Connection, ConnectionsCounted
    <2>2. Listed' = Listed /\ c \in Listed
      BY <1>t, <1>4, Zenon DEF Transfer, Listed, Connection, ConnectionsCounted
    <2>3. /\ DuesOf(conn')[c] = DuesOf(conn)[c] + 1
          /\ \A d \in Conns \ {c} : DuesOf(conn')[d] = DuesOf(conn)[d]
      BY <1>t, <1>4 DEF Transfer, DuesOf, Connection
    <2>4. SumFunctionOnSet(DuesOf(conn'), Listed) = SumFunctionOnSet(DuesOf(conn), Listed) + 1
          /\ SumFunctionOnSet(DuesOf(conn), Listed) \in Int
      <3>1. /\ IsFiniteSet(Listed) /\ SumFunctionOnSet(DuesOf(conn), Listed) \in Int
            /\ \A d \in Listed : DuesOf(conn)[d] \in Int
        BY <1>t, DuesTyped, Zenon
      <3>2. \A d \in Listed : DuesOf(conn')[d] \in Int
        BY <1>t, <2>3, <3>1, <2>2
      <3>3. SumFunctionOnSet(DuesOf(conn'), Listed)
              = SumFunctionOnSet(DuesOf(conn), Listed) + DuesOf(conn')[c] - DuesOf(conn)[c]
        BY <1>t, <2>2, <2>3, <3>1, <3>2, SumUpdate, SMTT(30)
      <3> QED
        BY <2>2, <2>3, <3>1, <3>3
    <2>5. TrafficConserved'
      <3>1. IF flush.at = "subtract" THEN Charged \in Int ELSE TRUE
        BY <1>t DEF Charged, AccTypeOK
      <3> QED
        BY <1>t, <1>4, <2>2, <2>4, <3>1, BooksOpen, SMTT(30) DEF Transfer, Charged, AccTypeOK
    <2>6. FlushCovered' /\ (\A d \in sweep : conn[d].listed)'
      BY <1>t, <1>4 DEF Transfer, FlushCovered, FileIsCopied, AccTypeOK, Connection
    <2> QED
      BY <2>1, <2>5, <2>6, Zenon DEF AccInv
  <1> QED
    BY <1>1, <1>2, <1>3, <1>4, Zenon

\* Collecting from connections moves what they owe to unflushed.
LEMMA CollectMoves ==
    ASSUME AccTypeOK, ConnectionsCounted, NEW cs \in SUBSET Listed
    PROVE  /\ Collected(cs) \in [Conns -> Connection] /\ CollectedSum(cs) \in Nat
           /\ \A c \in Conns :
                /\ Collected(cs)[c].last <= Collected(cs)[c].bytes
                /\ Collected(cs)[c].bytes = conn[c].bytes /\ Collected(cs)[c].named = conn[c].named
                /\ Collected(cs)[c].listed = conn[c].listed /\ Collected(cs)[c].state = conn[c].state
           /\ SumFunctionOnSet(DuesOf(Collected(cs)), Listed) + CollectedSum(cs)
                = SumFunctionOnSet(DuesOf(conn), Listed)
           /\ SumFunctionOnSet(DuesOf(Collected(cs)), Listed) \in Int
  <1> DEFINE k == Collected(cs)
             D == DuesOf(conn)
             E == DuesOf(k)
  <1>1. conn \in [Conns -> Connection] /\ Listed \in SUBSET Conns /\ cs \in SUBSET Conns
    BY Zenon DEF AccTypeOK, Listed
  <1>2. \A c \in Conns : k[c] = IF c \in Chargeable(cs) THEN [conn[c] EXCEPT !.last = conn[c].bytes]
                                                        ELSE conn[c]
    BY Zenon DEF Collected
  <1>3. k \in [Conns -> Connection]
    BY <1>1 DEF Collected, Connection
  <1>4. \A c \in Conns :
          /\ k[c].last <= k[c].bytes /\ k[c].bytes = conn[c].bytes /\ k[c].named = conn[c].named
          /\ k[c].listed = conn[c].listed /\ k[c].state = conn[c].state
          /\ k[c].last = IF c \in Chargeable(cs) THEN conn[c].bytes ELSE conn[c].last
    <2> SUFFICES ASSUME NEW c \in Conns
                 PROVE  /\ k[c].last <= k[c].bytes /\ k[c].bytes = conn[c].bytes
                        /\ k[c].named = conn[c].named
                        /\ k[c].listed = conn[c].listed /\ k[c].state = conn[c].state
                        /\ k[c].last = IF c \in Chargeable(cs) THEN conn[c].bytes ELSE conn[c].last
      BY Zenon
    <2>1. conn[c] \in Connection /\ conn[c].last <= conn[c].bytes
      BY <1>1, Zenon DEF ConnectionsCounted
    <2> HIDE DEF k
    <2>2. CASE c \in Chargeable(cs)
      <3> DEFINE r == conn[c]
      <3>1. k[c] = [r EXCEPT !.last = r.bytes] /\ r \in Connection
        BY <1>2, <2>1, <2>2, Zenon
      <3> HIDE DEF r
      <3>2. /\ k[c].last = r.bytes /\ k[c].bytes = r.bytes /\ k[c].named = r.named
            /\ k[c].listed = r.listed /\ k[c].state = r.state /\ r.bytes \in Nat
        BY <3>1, Zenon DEF Connection
      <3> QED
        BY <2>2, <3>2 DEF r
    <2>3. CASE c \notin Chargeable(cs)
      BY <1>2, <2>1, <2>3, Zenon
    <2> QED
      BY <2>2, <2>3, Zenon
  <1>5. /\ IsFiniteSet(Listed) /\ IsFiniteSet(cs)
        /\ SumFunctionOnSet(D, Listed) \in Int /\ SumFunctionOnSet(D, cs) \in Nat
        /\ SumFunctionOnSet(E, Listed) \in Int
        /\ \A c \in Conns : D[c] \in Int /\ E[c] \in Int
                            /\ D[c] = conn[c].bytes - conn[c].last /\ E[c] = k[c].bytes - k[c].last
    <2> HIDE DEF k
    <2> QED
      BY <1>1, <1>3, DuesTyped, Zenon DEF ConnectionsCounted
  <1>6. \A c \in cs : E[c] = 0
    <2>1. ASSUME NEW c \in cs PROVE k[c].bytes = k[c].last /\ k[c].bytes \in Nat
      BY <1>1, <1>4 DEF Chargeable, ConnectionsCounted, Connection
    <2> QED
      BY <1>1, <1>5, <2>1
  <1>7. \A c \in Listed \ cs : E[c] = D[c]
    BY <1>1, <1>4, <1>5 DEF Chargeable
  <1>8. CollectedSum(cs) = SumFunctionOnSet(D, cs)
    BY <1>1, CollectsAll, Zenon
  <1>v. \A c \in Listed : D[c] \in Int /\ E[c] \in Int
    BY <1>1, <1>5, Zenon
  <1>f. IsFiniteSet(Listed) /\ cs \in SUBSET Listed
    BY <1>5, Zenon
  <1> HIDE DEF D, E
  <1>9. SumFunctionOnSet(D, Listed) = SumFunctionOnSet(D, cs) + SumFunctionOnSet(D, Listed \ cs)
    BY <1>f, <1>v, SumSplit
  <1>10. SumFunctionOnSet(E, Listed) = SumFunctionOnSet(E, cs) + SumFunctionOnSet(E, Listed \ cs)
    BY <1>f, <1>v, SumSplit
  <1>11. SumFunctionOnSet(E, cs) = 0
    <2>1. SumFunctionOnSet(E, cs) = SumFunctionOnSet(E, {})
      BY <1>1, <1>5, <1>6, SumSupport
    <2> QED
      BY <2>1, SumStep, FS_EmptySet, Zenon
  <1>12. /\ SumFunctionOnSet(E, Listed \ cs) = SumFunctionOnSet(D, Listed \ cs)
         /\ SumFunctionOnSet(D, Listed \ cs) \in Int
    <2>1. IsFiniteSet(Listed \ cs) /\ \A c \in Listed \ cs : E[c] = D[c] /\ E[c] \in Int /\ D[c] \in Int
      BY <1>1, <1>5, <1>7, FS_Subset, Zenon
    <2> QED
      BY <2>1, SumSame, SumType
  <1> HIDE DEF k
  <1>13. SumFunctionOnSet(E, Listed) + CollectedSum(cs) = SumFunctionOnSet(D, Listed)
    BY <1>5, <1>8, <1>9, <1>10, <1>11, <1>12
  <1> QED
    BY <1>3, <1>4, <1>5, <1>8, <1>13, Zenon DEF D, E, k

\* A step that collects from some connections.
LEMMA CollectStep ==
    ASSUME AccInv, NEW cs \in SUBSET Listed, conn' = Collected(cs),
           unflushed' = unflushed + CollectedSum(cs), sweep' \in SUBSET Listed,
           UNCHANGED <<file, status, moved, lostBytes, edits, faults>>, FlushAdvances
    PROVE  AccInv'
  <1>t. /\ AccTypeOK /\ ConnectionsCounted /\ Listed \in SUBSET Conns /\ FlushCovered
        /\ conn \in [Conns -> Connection] /\ TrafficConserved
        /\ Charged \in Nat /\ flush \in FlushRecord
    BY Zenon DEF AccInv, Listed, AccTypeOK, Charged, FlushRecord
  <1>1. /\ conn' \in [Conns -> Connection] /\ CollectedSum(cs) \in Nat
        /\ \A d \in Conns :
             /\ conn'[d].last <= conn'[d].bytes
             /\ conn'[d].bytes = conn[d].bytes /\ conn'[d].named = conn[d].named
             /\ conn'[d].listed = conn[d].listed /\ conn'[d].state = conn[d].state
        /\ SumFunctionOnSet(DuesOf(conn'), Listed) + CollectedSum(cs)
             = SumFunctionOnSet(DuesOf(conn), Listed)
        /\ SumFunctionOnSet(DuesOf(conn'), Listed) \in Int
    BY <1>t, CollectMoves, Zenon
  <1>2. unflushed' \in Nat /\ unflushed' >= unflushed /\ unflushed \in Nat
    <2>1. unflushed \in Nat
      BY <1>t, Zenon DEF AccTypeOK
    <2>2. CollectedSum(cs) \in Nat
      BY <1>1
    <2> QED
      BY <2>1, <2>2
  <1>3. Listed' = Listed /\ (\A d \in sweep : conn[d].listed)'
    <2>1. Listed' = Listed
      BY <1>1, Zenon DEF Listed
    <2> QED
      BY <1>t, <1>1, <2>1, Zenon DEF Listed
  <1>4. AccTypeOK'
    BY <1>t, <1>1, <1>2, Zenon DEF AccTypeOK, FlushAdvances, FlushRecord
  <1>5. ConnectionsCounted'
    BY <1>t, <1>1 DEF ConnectionsCounted
  <1>6. FlushCovered'
    <2>1. flush.snap \in Nat
      BY <1>t, Zenon DEF AccTypeOK
    <2> QED
      BY <1>t, <1>2, <2>1 DEF FlushCovered, FlushAdvances, FileIsCopied
  <1>7. (IF flush'.at = "subtract" THEN Charged' ELSE 0) = (IF flush.at = "subtract" THEN Charged ELSE 0)
    BY Zenon DEF FlushAdvances, Charged
  <1>8. TrafficConserved'
    <2> DEFINE A == SumFunctionOnSet(DuesOf(conn'), Listed)
               B == CollectedSum(cs)
               C == IF flush.at = "subtract" THEN Charged ELSE 0
    <2>1. A \in Int /\ B \in Nat /\ A + B = SumFunctionOnSet(DuesOf(conn), Listed)
      BY <1>1, Zenon
    <2>2. /\ unflushed' = unflushed + B /\ C \in Nat /\ C = (IF flush'.at = "subtract" THEN Charged' ELSE 0)
          /\ file.count \in Nat /\ lostBytes \in Nat
      BY <1>t, <1>7, Zenon DEF AccTypeOK
    <2> HIDE DEF A, B
    <2>3. moved = file.count + (unflushed + (A + B) - C) + lostBytes
      BY <1>t, <2>1, BooksOpen, Zenon
    <2>4. TrafficConserved' <=> moved = file.count + (unflushed' + A - C) + lostBytes
      BY <1>3, <2>2, BooksOpen, Zenon DEF A
    <2> HIDE DEF C
    <2> QED
      BY <1>2, <2>1, <2>2, <2>3, <2>4
  <1> QED
    BY <1>3, <1>4, <1>5, <1>6, <1>8, Zenon DEF AccInv

\* A step that closes the collected connections: what they moved meanwhile is
\* lost.
LEMMA DropStep ==
    ASSUME AccInv, Drop(sweep), UNCHANGED <<file, status, unflushed, moved, edits, faults>>,
           FlushAdvances
    PROVE  AccInv'
  <1>t. /\ AccTypeOK /\ ConnectionsCounted /\ Listed \in SUBSET Conns /\ FlushCovered
        /\ conn \in [Conns -> Connection] /\ TrafficConserved /\ sweep \in SUBSET Listed
        /\ Charged \in Nat /\ flush \in FlushRecord
    BY Zenon DEF AccInv, Listed, AccTypeOK, Charged, FlushRecord
  <1>1. /\ sweep' = {} /\ lostBytes' = lostBytes + DueOf(sweep)
        /\ conn' = [d \in Conns |->
                      IF d \in sweep THEN [conn[d] EXCEPT !.state = "closed", !.listed = FALSE]
                      ELSE conn[d]]
    BY Zenon DEF Drop
  <1>2. \A d \in Conns :
          /\ conn'[d] \in Connection
          /\ conn'[d].bytes = conn[d].bytes /\ conn'[d].last = conn[d].last
          /\ conn'[d].named = conn[d].named
          /\ conn'[d].listed <=> conn[d].listed /\ d \notin sweep
          /\ d \notin sweep => conn'[d] = conn[d]
          /\ d \in sweep => conn'[d].state = "closed"
    <2> SUFFICES ASSUME NEW d \in Conns
                 PROVE  /\ conn'[d] \in Connection
                        /\ conn'[d].bytes = conn[d].bytes /\ conn'[d].last = conn[d].last
                        /\ conn'[d].named = conn[d].named
                        /\ conn'[d].listed <=> conn[d].listed /\ d \notin sweep
                        /\ d \notin sweep => conn'[d] = conn[d]
                        /\ d \in sweep => conn'[d].state = "closed"
      BY Zenon
    <2> DEFINE r == conn[d]
    <2>1. /\ r \in Connection
          /\ conn'[d] = IF d \in sweep THEN [r EXCEPT !.state = "closed", !.listed = FALSE] ELSE r
      BY <1>t, <1>1, Zenon
    <2> HIDE DEF r
    <2>2. CASE d \in sweep
      <3>1. conn'[d] = [r EXCEPT !.state = "closed", !.listed = FALSE]
        BY <2>1, <2>2, Zenon
      <3>2. /\ conn'[d] \in Connection /\ conn'[d].bytes = r.bytes /\ conn'[d].last = r.last
            /\ conn'[d].named = r.named /\ conn'[d].listed = FALSE /\ conn'[d].state = "closed"
        BY <2>1, <3>1, Zenon DEF Connection
      <3> QED
        BY <2>2, <3>2, Zenon DEF r
    <2>3. CASE d \notin sweep
      BY <2>1, <2>3, Zenon DEF r
    <2> QED
      BY <2>2, <2>3, Zenon
  <1>3. conn' \in [Conns -> Connection]
    <2>1. conn' = [d \in Conns |-> conn'[d]]
      BY <1>1, Zenon
    <2> QED
      BY <1>2, <2>1, Zenon
  <1>4. Listed' = Listed \ sweep /\ DuesOf(conn') = DuesOf(conn)
    BY <1>2, Zenon DEF Listed, DuesOf
  <1>5. /\ DueOf(sweep) = SumFunctionOnSet(DuesOf(conn), sweep) /\ DueOf(sweep) \in Nat
    <2>1. sweep \in SUBSET Conns /\ DueOf(sweep) = SumFunctionOnSet(DuesOf(conn), sweep)
      BY <1>t, Zenon DEF DueOf, Due, DuesOf
    <2> QED
      BY <1>t, <2>1, DuesTyped, Zenon DEF ConnectionsCounted
  <1>6. /\ SumFunctionOnSet(DuesOf(conn), Listed)
             = DueOf(sweep) + SumFunctionOnSet(DuesOf(conn'), Listed')
        /\ SumFunctionOnSet(DuesOf(conn'), Listed') \in Int
    <2>1. IsFiniteSet(Listed) /\ \A d \in Listed : DuesOf(conn)[d] \in Int
      BY <1>t, DuesTyped, Zenon
    <2>2. SumFunctionOnSet(DuesOf(conn), Listed)
            = SumFunctionOnSet(DuesOf(conn), sweep) + SumFunctionOnSet(DuesOf(conn), Listed \ sweep)
      <3>1. sweep \in SUBSET Listed
        BY <1>t, Zenon
      <3> QED
        BY <2>1, <3>1, SumSplit
    <2>3. Listed' \in SUBSET Conns
      BY <1>t, <1>4, Zenon
    <2>4. SumFunctionOnSet(DuesOf(conn'), Listed') \in Int
      BY <1>3, <2>3, DuesTyped, Zenon
    <2> QED
      BY <1>4, <1>5, <2>2, <2>4, Zenon
  <1>7. AccTypeOK'
    <2>1. lostBytes' \in Nat
      <3>1. PICK n \in Nat : n = DueOf(sweep)
        BY <1>5, Zenon
      <3>2. lostBytes \in Nat
        BY <1>t, Zenon DEF AccTypeOK
      <3>3. lostBytes' = lostBytes + n
        BY <1>1, <3>1, Zenon
      <3> QED
        BY <3>2, <3>3
    <2> QED
      BY <1>t, <1>1, <1>3, <2>1, Zenon DEF AccTypeOK, FlushAdvances, FlushRecord
  <1>8. ConnectionsCounted' /\ (\A d \in sweep : conn[d].listed)'
    BY <1>t, <1>1, <1>2, Zenon DEF ConnectionsCounted
  <1>9. FlushCovered'
    BY <1>t, Zenon DEF FlushCovered, FlushAdvances, FileIsCopied
  <1>10. TrafficConserved'
    <2> DEFINE A == SumFunctionOnSet(DuesOf(conn'), Listed')
               B == DueOf(sweep)
               C == IF flush.at = "subtract" THEN Charged ELSE 0
    <2>1. A \in Int /\ B \in Nat /\ SumFunctionOnSet(DuesOf(conn), Listed) = B + A
      BY <1>5, <1>6, Zenon
    <2>2. /\ lostBytes' = lostBytes + B /\ C \in Nat
          /\ C = (IF flush'.at = "subtract" THEN Charged' ELSE 0)
          /\ file.count \in Nat /\ lostBytes \in Nat /\ unflushed \in Nat
      BY <1>t, <1>1, Zenon DEF AccTypeOK, FlushAdvances, Charged
    <2> HIDE DEF A, B
    <2>3. moved = file.count + (unflushed + (B + A) - C) + lostBytes
      BY <1>t, <2>1, BooksOpen, Zenon
    <2>4. TrafficConserved' <=> moved = file.count + (unflushed + A - C) + lostBytes'
      BY <2>2, BooksOpen, Zenon DEF A
    <2> HIDE DEF C
    <2> QED
      BY <2>1, <2>2, <2>3, <2>4
  <1> QED
    BY <1>7, <1>8, <1>9, <1>10, Zenon DEF AccInv

\* The sweep over the listed connections.
LEMMA SweepSteps ==
    ASSUME AccInv, (\E c \in Conns : SweepCollect(c)) \/ SweepDrop
    PROVE  AccInv'
  <1>1. ASSUME NEW c \in Conns, SweepCollect(c) PROVE AccInv'
    <2>1. /\ {c} \in SUBSET Listed /\ conn' = Collected({c})
          /\ unflushed' = unflushed + CollectedSum({c}) /\ sweep' \in SUBSET Listed
          /\ UNCHANGED <<file, status, moved, lostBytes, edits, faults>> /\ FlushAdvances
      BY <1>1, Zenon DEF SweepCollect, Listed, FlushAdvances
    <2> QED
      BY <2>1, CollectStep, Zenon
  <1>2. CASE SweepDrop
    BY <1>2, DropStep, Zenon DEF SweepDrop, FlushAdvances
  <1> QED
    BY <1>1, <1>2, Zenon

\* The steps of a flush to the file.
LEMMA FlushSteps ==
    ASSUME AccInv, FlushStep
    PROVE  AccInv'
  <1>t. /\ AccTypeOK /\ ConnectionsCounted /\ Listed \in SUBSET Conns /\ FlushCovered
        /\ conn \in [Conns -> Connection] /\ TrafficConserved
        /\ \A d \in sweep : conn[d].listed
    BY Zenon DEF AccInv, Listed, AccTypeOK
  <1>n. /\ unflushed \in Nat /\ flush.snap \in Nat /\ flush.count \in Nat /\ file.count \in Nat
        /\ lostBytes \in Nat /\ moved \in Nat /\ flush.cfg \in Statuses /\ Charged \in Nat
        /\ Charged <= flush.snap
        /\ flush \in FlushRecord
    BY <1>t DEF AccTypeOK, Charged, FlushRecord
  <1>s. SumFunctionOnSet(DuesOf(conn), Listed) \in Int
    BY <1>t, DuesTyped, Zenon
  <1>1. CASE FlushCollect
    <2>1. /\ Listed \in SUBSET Listed /\ conn' = Collected(Listed)
          /\ unflushed' = unflushed + CollectedSum(Listed) /\ sweep' \in SUBSET Listed
          /\ UNCHANGED <<file, status, moved, lostBytes, edits, faults>>
          /\ flush.at = "idle" /\ flush' = [flush EXCEPT !.at = "load"]
      BY <1>1, Zenon DEF FlushCollect, Proceed, IsAt
    <2>2. flush' \in FlushRecord /\ flush'.at = "load"
      BY <1>n, <2>1, Zenon DEF FlushPlace, FlushRecord
    <2> QED
      BY <2>1, <2>2, CollectStep, Zenon DEF FlushAdvances, FileIsCopied
  <1>2. CASE FlushClose
    <2>1. PICK p \in {"snapshot", "drop"} : p = IF Refused = {} THEN "snapshot" ELSE "drop"
      BY Zenon
    <2>2. /\ Refused \in SUBSET Listed /\ conn' = Collected(Refused)
          /\ unflushed' = unflushed + CollectedSum(Refused) /\ sweep' \in SUBSET Listed
          /\ UNCHANGED <<file, status, moved, lostBytes, edits, faults>>
          /\ flush.at = "close" /\ flush' = [flush EXCEPT !.at = p]
      BY <1>2, <2>1, Zenon DEF FlushClose, Refused, Proceed, IsAt
    <2>3. flush' \in FlushRecord /\ flush'.at = p /\ flush'.count = file'.count
      BY <1>t, <1>n, <2>2, Zenon DEF FlushPlace, FlushRecord, FlushCovered, FileIsCopied
    <2> QED
      BY <2>2, <2>3, CollectStep, Zenon DEF FlushAdvances, FileIsCopied
  <1>d. CASE FlushDrop
    <2>1. /\ Drop(sweep) /\ UNCHANGED <<file, status, unflushed, moved, edits, faults>>
          /\ flush.at = "drop" /\ flush' = [flush EXCEPT !.at = "snapshot"]
      BY <1>d, Zenon DEF FlushDrop, Proceed, IsAt
    <2>2. flush' \in FlushRecord /\ flush'.at = "snapshot" /\ flush'.count = file'.count
      BY <1>t, <1>n, <2>1, Zenon DEF FlushPlace, FlushRecord, FlushCovered, FileIsCopied
    <2> QED
      BY <2>1, <2>2, DropStep, Zenon DEF FlushAdvances, FileIsCopied
  <1>3. ASSUME UNCHANGED <<conn, sweep>>
        PROVE  /\ Listed' = Listed /\ ConnectionsCounted'
               /\ (\A d \in sweep : conn[d].listed)'
               /\ SumFunctionOnSet(DuesOf(conn'), Listed') = SumFunctionOnSet(DuesOf(conn), Listed)
    BY <1>t, <1>3, Zenon DEF Listed, ConnectionsCounted
  <1>4. CASE FlushLoad \/ FlushLoadFails \/ FlushUsers \/ FlushUsersFails
    <2>1. /\ UNCHANGED <<file, conn, unflushed, sweep, moved, lostBytes, edits>>
          /\ flush' \in FlushRecord /\ faults' \in Nat /\ status' \in Statuses
          /\ flush.at # "subtract" /\ flush'.at \in {"idle", "users", "close", "snapshot"}
          /\ flush'.at = "idle" \/ flush'.count = file.count
      <3>n. status \in Statuses /\ faults \in Nat /\ file \in [status : Statuses, form : Forms, count : Nat]
        BY <1>t, Zenon DEF AccTypeOK
      <3>i. Idle \in FlushRecord /\ Idle.at = "idle"
        BY DEF Idle, FlushRecord, FlushPlace, Statuses, Forms
      <3>1. CASE FlushLoad
        <4>1. /\ flush' = [flush EXCEPT !.at = "users", !.cfg = file.status, !.form = file.form,
                                        !.count = file.count]
              /\ flush.at = "load"
              /\ UNCHANGED <<file, status, conn, unflushed, sweep, moved, lostBytes, edits, faults>>
          BY <3>1, Zenon DEF FlushLoad, IsAt
        <4>2. flush' \in FlushRecord /\ flush'.at = "users" /\ flush'.count = file.count
          BY <1>n, <3>n, <4>1, Zenon DEF FlushRecord, FlushPlace
        <4> QED
          BY <3>n, <4>1, <4>2, Zenon
      <3>2. CASE FlushLoadFails
        <4>1. faults' \in Nat
          BY <3>n, <3>2 DEF FlushLoadFails
        <4> QED
          BY <3>n, <3>i, <3>2, <4>1, Zenon DEF FlushLoadFails, IsAt
      <3>3. CASE FlushUsers
        <4>1. /\ flush' = [flush EXCEPT !.at = "close"] /\ status' = flush.cfg /\ flush.at = "users"
              /\ UNCHANGED <<file, conn, unflushed, sweep, moved, lostBytes, edits, faults>>
          BY <3>3, Zenon DEF FlushUsers, IsAt, Proceed
        <4> QED
          BY <1>t, <1>n, <3>n, <4>1, Zenon DEF FlushRecord, FlushPlace, FlushCovered, FileIsCopied
      <3>4. CASE FlushUsersFails
        <4>1. /\ flush' = Idle \/ flush' = [flush EXCEPT !.at = "snapshot"]
              /\ flush.at = "users"
              /\ UNCHANGED <<file, status, conn, unflushed, sweep, moved, lostBytes, edits, faults>>
          BY <3>4, Zenon DEF FlushUsersFails, IsAt, Proceed
        <4>2. CASE flush' = Idle
          BY <3>n, <3>i, <4>1, <4>2, Zenon
        <4>3. CASE flush' = [flush EXCEPT !.at = "snapshot"]
          BY <1>t, <1>n, <3>n, <4>1, <4>3, Zenon DEF FlushRecord, FlushPlace, FlushCovered, FileIsCopied
        <4> QED
          BY <4>1, <4>2, <4>3, Zenon
      <3> QED
        BY <1>4, <3>1, <3>2, <3>3, <3>4, Zenon
    <2>2. AccTypeOK' /\ FlushCovered'
      BY <1>t, <2>1, Zenon DEF AccTypeOK, FlushCovered, FileIsCopied, FlushRecord
    <2>3. TrafficConserved'
      BY <1>t, <1>3, <2>1, BooksOpen, Zenon
    <2> QED
      BY <1>3, <2>1, <2>2, <2>3, Zenon DEF AccInv
  <1>5. CASE FlushSnapshot \/ FlushSave
    <2>1. /\ UNCHANGED <<file, status, conn, unflushed, sweep, moved, lostBytes, edits>>
          /\ flush' \in FlushRecord
          /\ flush.at # "subtract" /\ flush'.at \in {"idle", "save", "rename"}
          /\ flush'.at \in {"save", "rename"} => flush'.count = file.count /\ flush'.snap <= unflushed
          /\ faults' \in Nat
      <3>1. CASE FlushSnapshot
        <4>1. /\ flush.at = "snapshot" /\ flush.count = file.count
              /\ flush' = IF unflushed = 0 THEN Idle
                          ELSE [flush EXCEPT !.at = "save", !.snap = unflushed]
              /\ UNCHANGED <<file, status, conn, unflushed, sweep, moved, lostBytes, edits, faults>>
          BY <1>t, <3>1 DEF FlushSnapshot, IsAt, FlushCovered, FileIsCopied
        <4>2. CASE unflushed = 0
          BY <1>t, <1>n, <4>1, <4>2, Zenon DEF Idle, FlushPlace, Statuses, Forms, FlushRecord, AccTypeOK
        <4>3. CASE unflushed # 0
          <5> DEFINE k == [flush EXCEPT !.at = "save"]
          <5>1. k \in FlushRecord
                /\ k.at = "save" /\ k.count = file.count
            BY <1>n, <4>1, Zenon DEF FlushPlace, FlushRecord
          <5>2. flush' = [k EXCEPT !.snap = unflushed]
            BY <4>1, <4>3, Zenon
          <5> HIDE DEF k
          <5>3. /\ flush' \in FlushRecord
                /\ flush'.at = "save" /\ flush'.count = file.count /\ flush'.snap = unflushed
            BY <1>n, <5>1, <5>2, Zenon DEF FlushRecord
          <5>4. faults' \in Nat
            BY <1>t, <4>1, Zenon DEF AccTypeOK
          <5> QED
            BY <1>n, <4>1, <5>3, <5>4, SMTT(30)
        <4> QED
          BY <4>2, <4>3, Zenon
      <3>2. CASE FlushSave
        <4>1. /\ flush.at = "save" /\ flush.count = file.count /\ flush.snap <= unflushed
              /\ UNCHANGED <<file, status, conn, unflushed, sweep, moved, lostBytes, edits>>
              /\ \/ flush' = [flush EXCEPT !.at = "rename"]
                 \/ flush' = Idle
          BY <1>t, <3>2, Zenon DEF FlushSave, IsAt, FlushCovered, FileIsCopied, Proceed
        <4>2. faults' \in Nat
          BY <1>t, <3>2 DEF FlushSave, AccTypeOK
        <4>3. CASE flush' = Idle
          BY <1>n, <4>1, <4>2, <4>3, Zenon DEF Idle, FlushPlace, Statuses, Forms, FlushRecord
        <4>4. CASE flush' = [flush EXCEPT !.at = "rename"]
          BY <1>n, <4>1, <4>2, <4>4, Zenon DEF FlushPlace, FlushRecord
        <4> QED
          BY <4>1, <4>3, <4>4
      <3> QED
        BY <1>5, <3>1, <3>2, Zenon
    <2>2. AccTypeOK' /\ FlushCovered'
      BY <1>t, <2>1, Zenon DEF AccTypeOK, FlushCovered, FileIsCopied, FlushRecord
    <2>3. TrafficConserved'
      BY <1>t, <1>3, <2>1, BooksOpen, Zenon
    <2> QED
      BY <1>3, <2>1, <2>2, <2>3, Zenon DEF AccInv
  <1>6. CASE FlushRename
    <2>1. /\ UNCHANGED <<status, conn, unflushed, sweep, moved, lostBytes, edits, faults>>
          /\ flush' \in FlushRecord
          /\ flush.at = "rename" /\ flush'.at = "subtract" /\ Charged' = Charged
          /\ flush'.snap <= unflushed
          /\ file' = [status |-> flush.cfg, form |-> flush.form, count |-> file.count + Charged]
      BY <1>t, <1>n, <1>6, SMTT(30) DEF FlushRename, IsAt, Proceed, FlushPlace, FlushRecord, FlushCovered, FileIsCopied, Charged
    <2>2. AccTypeOK' /\ FlushCovered'
      BY <1>t, <1>n, <2>1, SMTT(30) DEF AccTypeOK, FlushCovered, FileIsCopied, FlushRecord
    <2>3. TrafficConserved'
      BY <1>t, <1>n, <1>s, <1>3, <2>1, BooksOpen, SMTT(30)
    <2> QED
      BY <1>3, <2>1, <2>2, <2>3, Zenon DEF AccInv
  <1>7. CASE FlushSubtract
    <2>1. /\ UNCHANGED <<file, status, conn, sweep, moved, edits, faults>>
          /\ flush.at = "subtract" /\ flush' = Idle
          /\ unflushed' = unflushed - flush.snap /\ flush.snap <= unflushed
          /\ lostBytes' = lostBytes + flush.snap - Charged
      BY <1>t, <1>n, <1>7, SMTT(30) DEF FlushSubtract, IsAt, FlushCovered, FileIsCopied
    <2>2. AccTypeOK' /\ FlushCovered' /\ flush'.at # "subtract"
      BY <1>t, <1>n, <2>1, SMTT(30) DEF AccTypeOK, FlushCovered, FileIsCopied, FlushRecord, Idle, FlushPlace, Statuses, Forms
    <2>3. TrafficConserved'
      BY <1>t, <1>n, <1>s, <1>3, <2>1, <2>2, BooksOpen, SMTT(30)
    <2> QED
      BY <1>3, <2>1, <2>2, <2>3, Zenon DEF AccInv
  <1> QED
    BY <1>1, <1>2, <1>d, <1>4, <1>5, <1>6, <1>7, Zenon DEF FlushStep

\* The file is edited, or the server crashes or is started again.
LEMMA OutsideSteps ==
    ASSUME AccInv, EditFile \/ Crash \/ Restart
    PROVE  AccInv'
  <1>t. /\ AccTypeOK /\ ConnectionsCounted /\ Listed \in SUBSET Conns /\ FlushCovered
        /\ conn \in [Conns -> Connection] /\ TrafficConserved
        /\ \A d \in sweep : conn[d].listed
    BY Zenon DEF AccInv, Listed, AccTypeOK
  <1>n. /\ unflushed \in Nat /\ file.count \in Nat /\ lostBytes \in Nat /\ moved \in Nat
        /\ Charged \in Nat /\ Charged <= flush.snap /\ flush.snap \in Nat
        /\ file \in [status : Statuses, form : Forms, count : Nat] /\ edits \in Nat /\ faults \in Nat
    BY <1>t DEF AccTypeOK, Charged
  <1>1. CASE EditFile
    <2>1. /\ UNCHANGED <<status, conn, unflushed, flush, sweep, moved, lostBytes, faults>>
          /\ file' \in [status : Statuses, form : Forms, count : Nat] /\ file'.count = file.count
          /\ edits' \in Nat
      BY <1>n, <1>1 DEF EditFile, Forms
    <2>2. AccTypeOK' /\ FlushCovered'
      BY <1>t, <2>1, Zenon DEF AccTypeOK, FlushCovered, FileIsCopied
    <2>3. Listed' = Listed /\ ConnectionsCounted' /\ (\A d \in sweep : conn[d].listed)'
          /\ Charged' = Charged
      BY <1>t, <2>1, Zenon DEF Listed, ConnectionsCounted, Charged
    <2>4. TrafficConserved'
      BY <1>t, <2>1, <2>3, BooksOpen, Zenon
    <2> QED
      BY <2>2, <2>3, <2>4, Zenon DEF AccInv
  <1>2. CASE Crash
    <2>1. /\ lostBytes' = lostBytes + Uncharged
          /\ unflushed' = 0 /\ flush' = [Idle EXCEPT !.at = "down"] /\ sweep' = {} /\ faults' \in Nat
          /\ UNCHANGED <<file, status, moved, edits>>
      BY <1>n, <1>2 DEF Crash
    <2>2. conn' = [d \in Conns |-> IF conn[d].state = "none" THEN NoConn
                                   ELSE [NoConn EXCEPT !.state = "closed"]]
      BY <1>2, Zenon DEF Crash
    <2>3. \A d \in Conns :
            conn'[d] \in Connection /\ conn'[d].bytes = 0 /\ conn'[d].last = 0
            /\ conn'[d].listed = FALSE /\ conn'[d].named = FALSE
      BY <2>2, Zenon DEF NoConn, Connection
    <2>4. conn' \in [Conns -> Connection] /\ Listed' = {} /\ ConnectionsCounted'
      BY <2>2, <2>3 DEF Listed, ConnectionsCounted
    <2>5. Uncharged \in Nat
      <3> DEFINE A == SumFunctionOnSet(DuesOf(conn), Listed)
      <3>1. A \in Nat
        BY <1>t, DuesTyped, CollectsAll, Zenon DEF ConnectionsCounted
      <3>2. Uncharged = unflushed + A - (IF flush.at = "subtract" THEN Charged ELSE 0)
        BY Zenon DEF Uncharged, DueOf, Due, DuesOf, IsAt
      <3>3. flush.at = "subtract" => Charged <= unflushed
        BY <1>t, <1>n DEF FlushCovered
      <3> HIDE DEF A
      <3> QED
        BY <1>n, <3>1, <3>2, <3>3
    <2>6. lostBytes' \in Nat /\ flush'.at = "down"
          /\ flush' \in FlushRecord
      BY <1>n, <2>1, <2>5 DEF Idle, FlushPlace, Statuses, Forms, FlushRecord
    <2>7. AccTypeOK' /\ FlushCovered' /\ (\A d \in sweep : conn[d].listed)'
      BY <1>t, <1>n, <2>1, <2>4, <2>6, Zenon DEF AccTypeOK, FlushCovered, FileIsCopied, FlushRecord
    <2>8. SumFunctionOnSet(DuesOf(conn'), Listed') = 0
      BY <2>4, FS_EmptySet, SumStep, Zenon
    <2>9. moved = file.count + Uncharged + lostBytes
      BY <1>t, Zenon DEF TrafficConserved
    <2>10. TrafficConserved'
      BY <1>n, <2>1, <2>5, <2>6, <2>8, <2>9, BooksOpen
    <2> QED
      BY <2>4, <2>7, <2>10, Zenon DEF AccInv
  <1>3. CASE Restart
    <2>1. /\ flush.at = "down" /\ flush' = Idle /\ status' = file.status
          /\ UNCHANGED <<file, conn, unflushed, sweep, moved, lostBytes, edits, faults>>
      BY <1>3, Zenon DEF Restart, IsAt
    <2>2. Idle \in FlushRecord /\ flush'.at = "idle"
      BY <2>1 DEF Idle, FlushPlace, Statuses, Forms, FlushRecord
    <2>3. AccTypeOK' /\ FlushCovered'
      BY <1>t, <1>n, <2>1, <2>2, Zenon DEF AccTypeOK, FlushCovered, FileIsCopied, FlushRecord
    <2>4. Listed' = Listed /\ ConnectionsCounted' /\ (\A d \in sweep : conn[d].listed)'
      BY <1>t, <2>1, Zenon DEF Listed, ConnectionsCounted
    <2>5. TrafficConserved'
      BY <1>t, <2>1, <2>2, <2>4, BooksOpen, Zenon
    <2> QED
      BY <2>3, <2>4, <2>5, Zenon DEF AccInv
  <1> QED
    BY <1>1, <1>2, <1>3, Zenon

\* Every step keeps the books balanced.
LEMMA AccStepInv == AccInv /\ [AccNext]_accVars => AccInv'
  <1> SUFFICES ASSUME AccInv, [AccNext]_accVars PROVE AccInv'
    BY Zenon
  <1>1. ASSUME NEW c \in Conns,
               \/ Connect(c) \/ JoinConns(c) \/ Authenticate(c) \/ Transfer(c) \/ Disconnect(c)
        PROVE  AccInv'
    BY <1>1, ConnectionSteps, Zenon
  <1>2. ASSUME (\E c \in Conns : SweepCollect(c)) \/ SweepDrop
        PROVE  AccInv'
    BY <1>2, SweepSteps, Zenon
  <1>3. CASE UNCHANGED accVars
    BY <1>3, Zenon DEF accVars, AccInv, AccTypeOK, TrafficConserved, Uncharged, DueOf, Due, Listed, Charged,
                IsAt, ConnectionsCounted, FlushCovered, FileIsCopied
  <1> QED
    BY <1>1, <1>2, <1>3, FlushSteps, OutsideSteps, Zenon DEF AccNext

\* For any number of connections, edits, failures and crashes, no byte that a
\* user moved is charged twice or disappears from the books unnoticed, whatever
\* the order of collections, sweeps, flushes and configuration edits.
\* (collectActiveTraffic, flushTraffic and setUsers of cmd/server/main.go)
THEOREM BooksBalance == AccSpec => []TrafficConserved
  <1>1. AccInv => TrafficConserved
    BY Zenon DEF AccInv
  <1> QED
    BY <1>1, AccInitInv, AccStepInv, PTL DEF AccSpec

-----------------------------------------------------------------------------
(* ServerHealth *)

HealthRecord ==
    [class : Class, failures : Nat, retryIn : Nat, penalty : Nat, connected : BOOLEAN,
     since : Nat, ages : [ErrorKind -> Nat]]

\* The class says why a server is avoided.
Explained(h) ==
    /\ h.class = "good" => h.penalty = 0
    /\ h.class = "degraded" => h.penalty > 0
    /\ h.retryIn > 0 => /\ h.class \in Hard /\ h.failures > 0
                        /\ h.retryIn <= retryDelay(h.class, h.failures)

HealthInv ==
    /\ health \in [HealthServers -> HealthRecord]
    /\ \A s \in HealthServers : Explained(health[s])

\* A retry delay is a number.
LEMMA DelayIsNat ==
    ASSUME NEW class \in Hard, NEW n \in Nat \ {0}
    PROVE  retryDelay(class, n) \in Nat
  <1> DEFINE at == IF n > 3 THEN 3 ELSE n
  <1>1. at \in {1, 2, 3}
    OBVIOUS
  <1>2. Delays["dialFailed"] = <<1, 2, 3>> /\ Delays["badResponse"] = <<2, 3, 4>>
        /\ Delays["noResponse"] = <<2, 4, 5>>
    BY Zenon DEF Delays
  <1>3. Len(Delays[class]) = 3 /\ \A i \in {1, 2, 3} : Delays[class][i] \in Nat
    BY <1>2 DEF Hard
  <1>4. retryDelay(class, n) = Delays[class][at]
    BY <1>3, Zenon DEF retryDelay
  <1> QED
    BY <1>1, <1>3, <1>4, Zenon

\* Decay keeps what explains the class.
LEMMA DecayExplains ==
    ASSUME NEW h \in HealthRecord, Explained(h)
    PROVE  /\ Decay(h) \in HealthRecord /\ Explained(Decay(h))
           /\ Decay(h).failures = h.failures
           /\ Decay(h).class \in Hard <=> h.class \in Hard
           /\ Decay(h).class \in Hard => Decay(h).class = h.class
  <1> DEFINE p == IF h.since >= DecayEvery THEN Faded(h.penalty) ELSE h.penalty
             t == IF h.since >= DecayEvery THEN 0 ELSE h.since
             c == IF h.class = "degraded" /\ p = 0 THEN "good" ELSE h.class
             k == [h EXCEPT !.penalty = p]
             l == [k EXCEPT !.since = t]
  <1>1. /\ h.class \in Class /\ h.penalty \in Nat /\ h.since \in Nat /\ h.failures \in Nat
        /\ h.retryIn \in Nat
    BY Zenon DEF HealthRecord
  <1>2. p \in Nat /\ (h.penalty = 0 => p = 0) /\ t \in Nat
    BY <1>1 DEF Faded
  <1>3. c \in Class
    BY <1>1, Zenon DEF Class
  <1>4. Decay(h) = [l EXCEPT !.class = c]
    BY Zenon DEF Decay
  <1>5. c = (IF h.class = "degraded" /\ p = 0 THEN "good" ELSE h.class)
    BY Zenon
  <1> HIDE DEF p, t, c
  <1>6. /\ k \in HealthRecord /\ k.failures = h.failures /\ k.retryIn = h.retryIn
        /\ k.penalty = p /\ k.class = h.class
    BY <1>2, Zenon DEF HealthRecord
  <1> HIDE DEF k
  <1>7. /\ l \in HealthRecord /\ l.failures = h.failures /\ l.retryIn = h.retryIn
        /\ l.penalty = p /\ l.class = h.class
    BY <1>2, <1>6, Zenon DEF HealthRecord
  <1> HIDE DEF l
  <1>8. PICK d : d = Decay(h)
    BY Zenon
  <1>9. /\ d \in HealthRecord /\ d.failures = h.failures /\ d.retryIn = h.retryIn
        /\ d.penalty = p /\ d.class = c
    BY <1>3, <1>4, <1>7, <1>8, Zenon DEF HealthRecord
  <1>10. (c \in Hard <=> h.class \in Hard) /\ (c \in Hard => c = h.class)
    BY <1>5, Zenon DEF Hard
  <1>11. Explained(d)
    <2>1. d.class = "good" => d.penalty = 0
      BY <1>2, <1>5, <1>9, Zenon DEF Explained
    <2>2. d.class = "degraded" => d.penalty > 0
      BY <1>2, <1>5, <1>9
    <2>3. d.retryIn > 0 => /\ d.class \in Hard /\ d.failures > 0
                           /\ d.retryIn <= retryDelay(d.class, d.failures)
      BY <1>9, <1>10, Zenon DEF Explained
    <2> QED
      BY <2>1, <2>2, <2>3 DEF Explained
  <1> QED
    BY <1>8, <1>9, <1>10, <1>11, Zenon

\* Noting the time of an error.
LEMMA NotedExplains ==
    ASSUME NEW h \in HealthRecord, Explained(h), NEW kind \in ErrorKind
    PROVE  /\ Noted(h, kind) \in HealthRecord /\ Explained(Noted(h, kind))
           /\ Noted(h, kind).class = h.class
  <1> DEFINE a == [h.ages EXCEPT ![kind] = 0]
             d == [h EXCEPT !.ages = a]
  <1>1. a \in [ErrorKind -> Nat]
    BY Zenon DEF HealthRecord
  <1>2. Noted(h, kind) = d
    BY Zenon DEF Noted
  <1> HIDE DEF a
  <1>3. /\ d \in HealthRecord /\ d.class = h.class /\ d.failures = h.failures
        /\ d.retryIn = h.retryIn /\ d.penalty = h.penalty
    BY <1>1, Zenon DEF HealthRecord
  <1> HIDE DEF d
  <1>4. Explained(d)
    BY <1>3, Zenon DEF Explained
  <1> QED
    BY <1>2, <1>3, <1>4, Zenon

\* A hard failure.
LEMMA HardExplains ==
    ASSUME NEW h \in HealthRecord, NEW class \in Hard
    PROVE  HardFailure(h, class) \in HealthRecord /\ Explained(HardFailure(h, class))
  <1> DEFINE n == IF h.class = class THEN h.failures + 1 ELSE 1
             r == retryDelay(class, n)
             k == [h EXCEPT !.class = class]
             l == [k EXCEPT !.failures = n]
             d == [l EXCEPT !.retryIn = r]
  <1>1. n \in Nat \ {0}
    BY DEF HealthRecord
  <1>2. HardFailure(h, class) = d
    BY Zenon DEF HardFailure
  <1> HIDE DEF n
  <1>3. r \in Nat /\ r = retryDelay(class, n)
    BY <1>1, DelayIsNat, Zenon
  <1> HIDE DEF r
  <1>4. k \in HealthRecord /\ k.class = class
    BY Zenon DEF HealthRecord, Class
  <1> HIDE DEF k
  <1>5. l \in HealthRecord /\ l.class = class /\ l.failures = n
    BY <1>1, <1>4, Zenon DEF HealthRecord
  <1> HIDE DEF l
  <1>6. d \in HealthRecord /\ d.class = class /\ d.failures = n /\ d.retryIn = r
    BY <1>3, <1>5, Zenon DEF HealthRecord
  <1> HIDE DEF d
  <1>7. class # "good" /\ class # "degraded"
    BY Zenon DEF Hard
  <1>8. Explained(d)
    BY <1>1, <1>3, <1>6, <1>7 DEF Explained
  <1> QED
    BY <1>2, <1>6, <1>8, Zenon

\* A penalty.
LEMMA DegradeExplains ==
    ASSUME NEW h \in HealthRecord, Explained(h), NEW penalty \in Nat \ {0}
    PROVE  Degrade(h, penalty) \in HealthRecord /\ Explained(Degrade(h, penalty))
  <1> DEFINE c == IF h.class \in Hard THEN h.class ELSE "degraded"
             p == h.penalty + penalty
             k == [h EXCEPT !.class = c]
             d == [k EXCEPT !.penalty = p]
  <1>1. c \in Class /\ p \in Nat /\ p > 0 /\ (h.class \in Hard => c = h.class) /\ c # "good"
    BY DEF HealthRecord, Class, Hard
  <1>2. Degrade(h, penalty) = d
    BY Zenon DEF Degrade
  <1> HIDE DEF c, p
  <1>3. /\ k \in HealthRecord /\ k.class = c /\ k.failures = h.failures /\ k.retryIn = h.retryIn
        /\ k.penalty = h.penalty
    BY <1>1, Zenon DEF HealthRecord
  <1> HIDE DEF k
  <1>4. /\ d \in HealthRecord /\ d.class = c /\ d.failures = h.failures /\ d.retryIn = h.retryIn
        /\ d.penalty = p
    BY <1>1, <1>3, Zenon DEF HealthRecord
  <1> HIDE DEF d
  <1>5. Explained(d)
    BY <1>1, <1>4, Zenon DEF Explained
  <1> QED
    BY <1>2, <1>4, <1>5, Zenon

\* A transient failure.
LEMMA TransientExplains ==
    ASSUME NEW h \in HealthRecord
    PROVE  Transient(h) \in HealthRecord /\ Explained(Transient(h))
  <1> DEFINE p == h.penalty + writeTimeoutPenalty
             k == [h EXCEPT !.class = "degraded"]
             l == [k EXCEPT !.failures = 0]
             m == [l EXCEPT !.retryIn = 0]
             d == [m EXCEPT !.penalty = p]
  <1>1. p \in Nat /\ p > 0
    BY DEF HealthRecord, writeTimeoutPenalty
  <1>2. Transient(h) = d
    BY Zenon DEF Transient
  <1> HIDE DEF p
  <1>3. k \in HealthRecord /\ k.class = "degraded"
    BY Zenon DEF HealthRecord, Class
  <1> HIDE DEF k
  <1>4. l \in HealthRecord /\ l.class = "degraded"
    BY <1>3, Zenon DEF HealthRecord
  <1> HIDE DEF l
  <1>5. m \in HealthRecord /\ m.class = "degraded" /\ m.retryIn = 0
    BY <1>4, Zenon DEF HealthRecord
  <1> HIDE DEF m
  <1>6. d \in HealthRecord /\ d.class = "degraded" /\ d.retryIn = 0 /\ d.penalty = p
    BY <1>1, <1>5, Zenon DEF HealthRecord
  <1> HIDE DEF d
  <1>7. Explained(d)
    BY <1>1, <1>6 DEF Explained
  <1> QED
    BY <1>2, <1>6, <1>7, Zenon

\* A tick of the clock only lets cooldown and ages run.
LEMMA TickExplains ==
    ASSUME NEW h \in HealthRecord, Explained(h)
    PROVE  LET d == [h EXCEPT !.retryIn = IF @ > 0 THEN @ - 1 ELSE 0, !.since = @ + 1,
                              !.ages = [k \in ErrorKind |-> IF h.ages[k] < DedupWindow
                                                            THEN h.ages[k] + 1 ELSE DedupWindow]]
           IN  d \in HealthRecord /\ Explained(d)
  <1> DEFINE r == IF h.retryIn > 0 THEN h.retryIn - 1 ELSE 0
             t == h.since + 1
             a == [k \in ErrorKind |-> IF h.ages[k] < DedupWindow THEN h.ages[k] + 1 ELSE DedupWindow]
             k1 == [h EXCEPT !.retryIn = r]
             k2 == [k1 EXCEPT !.since = t]
             d == [k2 EXCEPT !.ages = a]
  <1>1. r \in Nat /\ t \in Nat /\ r <= h.retryIn /\ (r > 0 => h.retryIn > 0) /\ h.retryIn \in Nat
    BY DEF HealthRecord
  <1>2. a \in [ErrorKind -> Nat]
    BY HealthConstants DEF HealthRecord
  <1>3. d = [h EXCEPT !.retryIn = IF @ > 0 THEN @ - 1 ELSE 0, !.since = @ + 1,
                      !.ages = [k \in ErrorKind |-> IF h.ages[k] < DedupWindow
                                                    THEN h.ages[k] + 1 ELSE DedupWindow]]
    BY Zenon
  <1> HIDE DEF r, t, a
  <1>4. /\ k1 \in HealthRecord /\ k1.class = h.class /\ k1.failures = h.failures /\ k1.retryIn = r
        /\ k1.penalty = h.penalty
    BY <1>1, Zenon DEF HealthRecord
  <1> HIDE DEF k1
  <1>5. /\ k2 \in HealthRecord /\ k2.class = h.class /\ k2.failures = h.failures /\ k2.retryIn = r
        /\ k2.penalty = h.penalty
    BY <1>1, <1>4, Zenon DEF HealthRecord
  <1> HIDE DEF k2
  <1>6. /\ d \in HealthRecord /\ d.class = h.class /\ d.failures = h.failures /\ d.retryIn = r
        /\ d.penalty = h.penalty
    BY <1>2, <1>5, Zenon DEF HealthRecord
  <1> HIDE DEF d
  <1>7. Explained(d)
    <2>1. r > 0 => r <= retryDelay(h.class, h.failures)
      <3>1. SUFFICES ASSUME r > 0 PROVE r <= retryDelay(h.class, h.failures)
        BY Zenon
      <3>2. h.class \in Hard /\ h.failures \in Nat \ {0} /\ h.retryIn <= retryDelay(h.class, h.failures)
        BY <1>1, <3>1 DEF Explained, HealthRecord
      <3>3. retryDelay(h.class, h.failures) \in Nat
        BY <3>2, DelayIsNat, Zenon
      <3> QED
        BY <1>1, <3>2, <3>3
    <2> QED
      BY <1>1, <1>6, <2>1, Zenon DEF Explained
  <1> QED
    BY <1>3, <1>6, <1>7, Zenon

\* Every step keeps the health of every server explained.
LEMMA HealthStep ==
    ASSUME HealthInv, [HealthNext]_healthVars
    PROVE  HealthInv'
  <1>0. \A s \in HealthServers : health[s] \in HealthRecord /\ Explained(health[s])
    BY Zenon DEF HealthInv
  <1>1. ASSUME NEW s \in HealthServers, NEW h \in HealthRecord, Explained(h),
               health' = [health EXCEPT ![s] = h]
        PROVE  HealthInv'
    BY <1>1, Zenon DEF HealthInv
  <1>2. ASSUME NEW s \in HealthServers, HardError(s) PROVE HealthInv'
    <2>1. PICK class \in Hard, reason \in Reasons :
             LET h == Noted(health[s], <<class, reason>>)
             IN  Record(s, IF Counts(health[s], <<class, reason>>)
                           THEN HardFailure(Decay(h), class) ELSE h)
      BY <1>2, Zenon DEF HardError
    <2>2. PICK h : h = Noted(health[s], <<class, reason>>)
      BY Zenon
    <2>k. <<class, reason>> \in ErrorKind
      BY Zenon DEF ErrorKind
    <2>3. h \in HealthRecord /\ Explained(h) /\ Decay(h) \in HealthRecord
      BY <1>0, <2>2, <2>k, NotedExplains, DecayExplains, Zenon
    <2>4. HardFailure(Decay(h), class) \in HealthRecord /\ Explained(HardFailure(Decay(h), class))
      BY <2>3, HardExplains, Zenon
    <2>5. \/ health' = [health EXCEPT ![s] = h]
          \/ health' = [health EXCEPT ![s] = HardFailure(Decay(h), class)]
      BY <2>1, <2>2, Zenon DEF Record
    <2> QED
      BY <1>1, <2>3, <2>4, <2>5, Zenon
  <1>3. ASSUME NEW s \in HealthServers, SoftError(s) PROVE HealthInv'
    <2>1. PICK penalty \in {muxDropPenalty, writeTimeoutPenalty}, reason \in Reasons :
             LET h == Noted(Decay(health[s]), <<"degraded", reason>>)
             IN  Record(s, IF Counts(health[s], <<"degraded", reason>>)
                           THEN Degrade(h, penalty) ELSE h)
      BY <1>3, Zenon DEF SoftError
    <2>2. PICK h : h = Noted(Decay(health[s]), <<"degraded", reason>>)
      BY Zenon
    <2>k. <<"degraded", reason>> \in ErrorKind
      BY Zenon DEF ErrorKind
    <2>3. h \in HealthRecord /\ Explained(h)
      BY <1>0, <2>2, <2>k, NotedExplains, DecayExplains, Zenon
    <2>4. penalty \in Nat \ {0}
      BY DEF muxDropPenalty, writeTimeoutPenalty
    <2>5. Degrade(h, penalty) \in HealthRecord /\ Explained(Degrade(h, penalty))
      BY <2>3, <2>4, DegradeExplains, Zenon
    <2>6. \/ health' = [health EXCEPT ![s] = h]
          \/ health' = [health EXCEPT ![s] = Degrade(h, penalty)]
      BY <2>1, <2>2, Zenon DEF Record
    <2> QED
      BY <1>1, <2>3, <2>5, <2>6, Zenon
  <1>4. ASSUME NEW s \in HealthServers, TransientError(s) PROVE HealthInv'
    <2>0. PICK reason \in Reasons :
             LET h == Noted(health[s], <<"transient", reason>>)
             IN  Record(s, IF Counts(health[s], <<"transient", reason>>)
                           THEN Transient(Decay(h)) ELSE h)
      BY <1>4, Zenon DEF TransientError
    <2>1. PICK h : h = Noted(health[s], <<"transient", reason>>)
      BY Zenon
    <2>k. <<"transient", reason>> \in ErrorKind
      BY Zenon DEF ErrorKind
    <2>2. h \in HealthRecord /\ Explained(h) /\ Decay(h) \in HealthRecord
      BY <1>0, <2>1, <2>k, NotedExplains, DecayExplains, Zenon
    <2>3. Transient(Decay(h)) \in HealthRecord /\ Explained(Transient(Decay(h)))
      BY <2>2, TransientExplains, Zenon
    <2>4. \/ health' = [health EXCEPT ![s] = h]
          \/ health' = [health EXCEPT ![s] = Transient(Decay(h))]
      BY <2>0, <2>1, Zenon DEF Record
    <2> QED
      BY <1>1, <2>2, <2>3, <2>4, Zenon
  <1>5. ASSUME NEW s \in HealthServers, Connected(s) PROVE HealthInv'
    <2> DEFINE k == [New EXCEPT !.connected = TRUE]
               h == [k EXCEPT !.since = health[s].since]
    <2>1. health' = [health EXCEPT ![s] = h]
      BY <1>5, Zenon DEF Connected
    <2>2. New \in HealthRecord /\ New.class = "good" /\ New.penalty = 0 /\ New.retryIn = 0
      BY HealthConstants, Zenon DEF New, HealthRecord, Class, Never
    <2>3. k \in HealthRecord /\ k.class = "good" /\ k.penalty = 0 /\ k.retryIn = 0
      BY <2>2, Zenon DEF HealthRecord
    <2> HIDE DEF k
    <2>4. health[s].since \in Nat
      BY <1>0, Zenon DEF HealthRecord
    <2>5. h \in HealthRecord /\ h.class = "good" /\ h.penalty = 0 /\ h.retryIn = 0
      BY <2>3, <2>4, Zenon DEF HealthRecord
    <2> HIDE DEF h
    <2>6. Explained(h)
      BY <2>5 DEF Explained
    <2> QED
      BY <1>1, <2>1, <2>5, <2>6, ZenonT(40)
  <1>6. CASE sortedServerCandidates
    <2>1. health' = [s \in HealthServers |-> Decay(health[s])]
      BY <1>6, Zenon DEF sortedServerCandidates
    <2> QED
      BY <1>0, <2>1, DecayExplains, Zenon DEF HealthInv
  <1>7. CASE HealthTick
    <2> DEFINE T(h) == [h EXCEPT !.retryIn = IF @ > 0 THEN @ - 1 ELSE 0, !.since = @ + 1,
                              !.ages = [k \in ErrorKind |-> IF h.ages[k] < DedupWindow
                                                            THEN h.ages[k] + 1 ELSE DedupWindow]]
    <2>1. health' = [s \in HealthServers |-> T(Decay(health[s]))]
      BY <1>7, Zenon DEF HealthTick
    <2>2. ASSUME NEW h \in HealthRecord, Explained(h) PROVE T(h) \in HealthRecord /\ Explained(T(h))
      BY <2>2, TickExplains, Zenon
    <2> HIDE DEF T
    <2>3. \A s \in HealthServers : Decay(health[s]) \in HealthRecord /\ Explained(Decay(health[s]))
      BY <1>0, DecayExplains, Zenon
    <2>4. \A s \in HealthServers : /\ T(Decay(health[s])) \in HealthRecord
                                   /\ Explained(T(Decay(health[s])))
      BY <2>2, <2>3, Zenon
    <2> QED
      BY <2>1, <2>4, Zenon DEF HealthInv
  <1>8. CASE UNCHANGED healthVars
    BY <1>8, Zenon DEF healthVars, HealthInv
  <1> QED
    BY <1>2, <1>3, <1>4, <1>5, <1>6, <1>7, <1>8, SMTT(30) DEF HealthNext

\* For any number of servers and errors and every interval: a good server has no
\* penalty, a degraded one has, and only a failing one waits, no longer than its
\* delay.
\* (cmd/client/server_state.go)
THEOREM HealthExplained == HealthSpec => []ClassExplainsHealth
  <1>1. HealthInit => HealthInv
    <2>1. New \in HealthRecord /\ New.class = "good" /\ New.penalty = 0 /\ New.retryIn = 0
      BY HealthConstants, Zenon DEF New, HealthRecord, Class, Never
    <2>2. Explained(New)
      BY <2>1 DEF Explained
    <2> QED
      BY <2>1, <2>2, Zenon DEF HealthInit, HealthInv
  <1>2. HealthInv => ClassExplainsHealth
    BY Zenon DEF HealthInv, Explained, ClassExplainsHealth, ClassAgreesWithPenalty, CooldownHasCause
  <1> QED
    BY <1>1, <1>2, HealthStep, PTL DEF HealthSpec
=============================================================================
