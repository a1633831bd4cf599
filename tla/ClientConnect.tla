---------------------------- MODULE ClientConnect ----------------------------
(***************************************************************************)
(* SOCKS connect requests on the client, between the channel they were      *)
(* given and the relay: the request, the success cache that lets a program  *)
(* talk before the server has answered, the wait for the answer with its    *)
(* deadline, timeouts that add up on the mux, and the release.              *)
(* (cmd/client/main.go handleSocks, relayCachedConnect; connect_cache.go;   *)
(* channel_response.go)                                                     *)
(*                                                                          *)
(* All sessions ask for one target over one mux.  Data is counted in        *)
(* chunks, and matters only until the server answers.                       *)
(***************************************************************************)
EXTENDS Naturals, Sequences

CONSTANTS
    Sessions,       \* handleSocks goroutines
    FirstWindow,    \* chunks that may be sent before the server reads any
    EarlyChunks,    \* bound of the model: chunks a program sends early
    MaxTimeouts     \* maxMuxResponseTimeouts

ASSUME ConnectConstants ==
    /\ FirstWindow \in Nat /\ EarlyChunks \in Nat /\ MaxTimeouts \in Nat

VARIABLES
    cached,     \* connectCache has the entry of the target
    verdict,    \* history: the last outcome a session read that speaks for or
                \* against the entry: "none", "good" or "bad"
    contested,  \* history: another session then held an outcome of its own that
                \* had not reached the cache
    linkUp,     \* the mux is open
    timeouts,   \* responseTimeouts of the mux
    session,    \* [Sessions -> where the goroutine is]
    hit,        \* [Sessions -> BOOLEAN]  cacheHit
    told,       \* [Sessions -> "nothing", "granted" or "refused"]
    tube,       \* [Sessions -> the channel: "none", "open" or "closed"]
    pump,       \* [Sessions -> the goroutine that copies what the program sends]
    early,      \* [Sessions -> chunks sent so far]
    remote,     \* [Sessions -> what the server has done with the request]
    mail,       \* [Sessions -> Seq]  answers in recvQueue
    late        \* [Sessions -> BOOLEAN]  the deadline has passed

ccVars == <<cached, verdict, contested, linkUp, timeouts, session, hit, told, tube, pump,
            early, remote, mail, late>>

\* Between the read and the cache a session is where the outcome puts it:
\* a final answer, no answer in time, or a closed channel.
Outcome == {"ok", "failed", "overdue", "cut"}
SessionPlace == {"start", "request", "await", "stopping", "draining", "relay", "end"} \cup Outcome
PumpPlace == {"off", "copying", "blocked", "done"}
RemotePlace == {"idle", "asked", "accepted", "ok", "failed"}

CcTypeOK ==
    /\ cached \in BOOLEAN /\ linkUp \in BOOLEAN /\ timeouts \in Nat
    /\ verdict \in {"none", "good", "bad"} /\ contested \in BOOLEAN
    /\ session \in [Sessions -> SessionPlace] /\ hit \in [Sessions -> BOOLEAN]
    /\ told \in [Sessions -> {"nothing", "granted", "refused"}]
    /\ tube \in [Sessions -> {"none", "open", "closed"}]
    /\ pump \in [Sessions -> PumpPlace] /\ early \in [Sessions -> 0..EarlyChunks]
    /\ remote \in [Sessions -> RemotePlace] /\ late \in [Sessions -> BOOLEAN]
    /\ \A r \in Sessions : mail[r] \in Seq({"accepted", "ok", "failed"})

CcInit ==
    /\ cached = FALSE /\ verdict = "none" /\ contested = FALSE
    /\ linkUp = TRUE /\ timeouts = 0
    /\ session = [r \in Sessions |-> "start"] /\ hit = [r \in Sessions |-> FALSE]
    /\ told = [r \in Sessions |-> "nothing"] /\ tube = [r \in Sessions |-> "none"]
    /\ pump = [r \in Sessions |-> "off"] /\ early = [r \in Sessions |-> 0]
    /\ remote = [r \in Sessions |-> "idle"] /\ mail = [r \in Sessions |-> <<>>]
    /\ late = [r \in Sessions |-> FALSE]

Tell(r, what) == told' = [told EXCEPT ![r] = what]
Go(r, place) == session' = [session EXCEPT ![r] = place]
peerVars == <<remote, late>>

\* markClosed drops what is queued; Abort and Close go through it.
CloseTube(r) ==
    /\ tube' = [tube EXCEPT ![r] = "closed"]
    /\ mail' = [mail EXCEPT ![r] = <<>>]

-----------------------------------------------------------------------------
(* handleSocks up to the wait *)

\* getChannel, and the look into the cache.
GetChannel(r) ==
    /\ session[r] = "start"
    /\ \/ /\ linkUp /\ Go(r, "request")
          /\ tube' = [tube EXCEPT ![r] = "open"]
          /\ hit' = [hit EXCEPT ![r] = cached]
          /\ UNCHANGED told
       \/ Go(r, "end") /\ Tell(r, "refused") /\ UNCHANGED <<tube, hit>>
    /\ UNCHANGED <<cached, verdict, contested, linkUp, timeouts, pump, early, mail, peerVars>>

\* The request is queued; after a hit the program is told at once, unless it
\* has gone.
SendRequest(r) ==
    /\ session[r] = "request" /\ tube[r] = "open"
    /\ remote' = [remote EXCEPT ![r] = "asked"]
    /\ \/ ~hit[r] /\ Go(r, "await") /\ UNCHANGED <<told, pump, tube, mail>>
       \/ /\ hit[r] /\ Go(r, "await") /\ Tell(r, "granted")
          /\ pump' = [pump EXCEPT ![r] = "copying"] /\ UNCHANGED <<tube, mail>>
       \/ hit[r] /\ Go(r, "end") /\ CloseTube(r) /\ UNCHANGED <<told, pump>>
    /\ UNCHANGED <<cached, verdict, contested, linkUp, timeouts, hit, early, late>>

RequestRefused(r) ==
    /\ session[r] = "request"
    /\ Go(r, "end") /\ Tell(r, "refused") /\ CloseTube(r)
    /\ UNCHANGED <<cached, verdict, contested, linkUp, timeouts, hit, pump, early, peerVars>>

-----------------------------------------------------------------------------
(* What the program sends after a hit *)

\* The program's socket is open: stopBoth has not closed it.
Talking(r) == session[r] \in {"await", "relay"} \cup Outcome

Credit(r) == IF remote[r] = "ok" THEN EarlyChunks ELSE FirstWindow

\* NetConn.Write keeps writeMu while it waits for credit.
PumpCopies(r) ==
    /\ pump[r] \in {"copying", "blocked"}
    /\ \/ /\ tube[r] = "closed" /\ pump' = [pump EXCEPT ![r] = "done"] /\ UNCHANGED early
       \/ /\ tube[r] = "open" /\ early[r] < EarlyChunks /\ early[r] < Credit(r)
          /\ (pump[r] = "blocked" \/ Talking(r))
          /\ early' = [early EXCEPT ![r] = @ + 1] /\ pump' = [pump EXCEPT ![r] = "copying"]
       \/ /\ pump[r] = "copying" /\ tube[r] = "open" /\ Talking(r)
          /\ early[r] < EarlyChunks /\ early[r] >= Credit(r)
          /\ pump' = [pump EXCEPT ![r] = "blocked"] /\ UNCHANGED early
    /\ UNCHANGED <<cached, verdict, contested, linkUp, timeouts, session, hit, told, tube, mail, peerVars>>

\* The program ends its stream, or its socket was closed by stopBoth; a read
\* error closes the channel (stopBoth, called here).
PumpEnds(r) ==
    /\ pump[r] = "copying" /\ pump' = [pump EXCEPT ![r] = "done"]
    /\ \/ UNCHANGED <<tube, mail>>
       \/ Talking(r) /\ CloseTube(r)
    /\ UNCHANGED <<cached, verdict, contested, linkUp, timeouts, session, hit, told, early, peerVars>>

-----------------------------------------------------------------------------
(* readChannelResponseWithTimeout *)

\* What a session holds against the entry: after a hit also a missing answer.
Doubts(r) == session[r] = "failed" \/ (hit[r] /\ session[r] \in {"overdue", "cut"})
Holds(r) == session[r] = "ok" \/ Doubts(r)

Judge(r, judgement) ==
    /\ verdict' = judgement
    /\ contested' = \E q \in Sessions \ {r} : Holds(q)

ReadAccepted(r) ==
    /\ session[r] = "await" /\ mail[r] # <<>> /\ Head(mail[r]) = "accepted"
    /\ mail' = [mail EXCEPT ![r] = Tail(@)]
    /\ UNCHANGED <<cached, verdict, contested, linkUp, timeouts, session, hit, told, tube,
                   pump, early, peerVars>>

ReadAnswer(r) ==
    /\ session[r] = "await" /\ mail[r] # <<>> /\ Head(mail[r]) \in {"ok", "failed"}
    /\ Go(r, Head(mail[r])) /\ mail' = [mail EXCEPT ![r] = Tail(@)]
    /\ Judge(r, IF Head(mail[r]) = "ok" THEN "good" ELSE "bad")
    /\ UNCHANGED <<cached, linkUp, timeouts, hit, told, tube, pump, early, peerVars>>

\* The deadline has passed: Abort.
ReadTimesOut(r) ==
    /\ session[r] = "await" /\ late[r]
    /\ Go(r, "overdue") /\ CloseTube(r)
    /\ IF hit[r] THEN Judge(r, "bad") ELSE UNCHANGED <<verdict, contested>>
    /\ UNCHANGED <<cached, linkUp, timeouts, hit, told, pump, early, peerVars>>

\* The channel was closed by the peer or with the mux.
ReadFails(r) ==
    /\ session[r] = "await" /\ tube[r] = "closed"
    /\ Go(r, "cut")
    /\ IF hit[r] THEN Judge(r, "bad") ELSE UNCHANGED <<verdict, contested>>
    /\ UNCHANGED <<cached, linkUp, timeouts, hit, told, tube, pump, early, mail, peerVars>>

-----------------------------------------------------------------------------
(* What follows: the cache, which other sessions use meanwhile, and the end *)

\* Without a hit the program is told and the channel released; after one the
\* program's socket is closed, and then the channel.
GiveUp(r) ==
    IF hit[r] THEN Go(r, "stopping") /\ UNCHANGED told
    ELSE Go(r, "end") /\ Tell(r, "refused")

\* The entry is stored before the program is told, who may have gone.
StoreEntry(r) ==
    /\ session[r] = "ok" /\ cached' = TRUE
    /\ \/ Go(r, "relay") /\ Tell(r, "granted") /\ UNCHANGED <<tube, mail>>
       \/ ~hit[r] /\ Go(r, "end") /\ CloseTube(r) /\ UNCHANGED told
    /\ UNCHANGED <<verdict, contested, linkUp, timeouts, hit, pump, early, peerVars>>

\* Mutant: only a session that hit the cache removes the entry.
DropEntryIfHit(r) ==
    /\ session[r] = "failed" /\ cached' = (cached /\ ~hit[r]) /\ GiveUp(r)
    /\ IF hit[r] THEN UNCHANGED <<tube, mail>> ELSE CloseTube(r)
    /\ UNCHANGED <<verdict, contested, linkUp, timeouts, hit, pump, early, peerVars>>

\* A failure removes it, whoever reads it.
DropEntry(r) ==
    /\ session[r] = "failed" /\ cached' = FALSE /\ GiveUp(r)
    /\ IF hit[r] THEN UNCHANGED <<tube, mail>> ELSE CloseTube(r)
    /\ UNCHANGED <<verdict, contested, linkUp, timeouts, hit, pump, early, peerVars>>

\* Timeouts count on the mux, which is closed when there are too many.
HandleMuxResponseTimeout ==
    LET close == timeouts + 1 > MaxTimeouts IN
    /\ timeouts' = timeouts + 1 /\ linkUp' = (linkUp /\ ~close)
    /\ tube' = [q \in Sessions |-> IF close /\ tube[q] = "open" THEN "closed" ELSE tube[q]]
    /\ mail' = [q \in Sessions |-> IF close THEN <<>> ELSE mail[q]]

\* A missing answer removes the entry after a hit.
Unanswered(r) ==
    /\ session[r] \in {"overdue", "cut"} /\ GiveUp(r)
    /\ cached' = (cached /\ ~hit[r])
    /\ IF session[r] = "overdue" THEN HandleMuxResponseTimeout
       ELSE UNCHANGED <<timeouts, linkUp, tube, mail>>
    /\ UNCHANGED <<verdict, contested, hit, pump, early, peerVars>>

\* stopBoth: proxyConn.Close takes writeMu ...
StopClosesChannel(r) ==
    /\ session[r] = "stopping" /\ pump[r] # "blocked"
    /\ CloseTube(r) /\ Go(r, "draining")
    /\ UNCHANGED <<cached, verdict, contested, linkUp, timeouts, hit, told, pump, early, peerVars>>

\* ... and the goroutine that copies is waited for.
PumpJoined(r) ==
    /\ session[r] = "draining" /\ pump[r] = "done" /\ Go(r, "end")
    /\ UNCHANGED <<cached, verdict, contested, linkUp, timeouts, hit, told, tube, pump, early,
                   mail, peerVars>>

-----------------------------------------------------------------------------
(* The server, the clock and the mux *)

Deliver(r, answer) ==
    mail' = IF tube[r] = "open" THEN [mail EXCEPT ![r] = Append(@, answer)] ELSE mail

RemoteAccepts(r) ==
    /\ remote[r] = "asked" /\ remote' = [remote EXCEPT ![r] = "accepted"]
    /\ Deliver(r, "accepted")
    /\ UNCHANGED <<cached, verdict, contested, linkUp, timeouts, session, hit, told, tube, pump,
                   early, late>>

\* After a failure the server drops its channel without a word.
RemoteAnswers(r) ==
    /\ remote[r] = "accepted"
    /\ \E answer \in {"ok", "failed"} :
          remote' = [remote EXCEPT ![r] = answer] /\ Deliver(r, answer)
    /\ UNCHANGED <<cached, verdict, contested, linkUp, timeouts, session, hit, told, tube, pump,
                   early, late>>

\* Mutant: the deadline is lifted by the first answer.
DeadlineUntilAccepted(r) ==
    /\ session[r] = "await" /\ ~late[r] /\ remote[r] = "asked"
    /\ late' = [late EXCEPT ![r] = TRUE]
    /\ UNCHANGED <<cached, verdict, contested, linkUp, timeouts, session, hit, told, tube, pump,
                   early, remote, mail>>

\* One deadline covers the whole wait, "accepted" included.
DeadlinePasses(r) ==
    /\ session[r] = "await" /\ ~late[r] /\ late' = [late EXCEPT ![r] = TRUE]
    /\ UNCHANGED <<cached, verdict, contested, linkUp, timeouts, session, hit, told, tube, pump,
                   early, remote, mail>>

LinkCloses ==
    /\ linkUp /\ linkUp' = FALSE
    /\ tube' = [r \in Sessions |-> IF tube[r] = "open" THEN "closed" ELSE tube[r]]
    /\ mail' = [r \in Sessions |-> <<>>]
    /\ UNCHANGED <<cached, verdict, contested, timeouts, session, hit, told, pump, early, peerVars>>

\* Entries leave the cache by age or for others.
CacheForgets ==
    /\ cached /\ cached' = FALSE
    /\ UNCHANGED <<verdict, contested, linkUp, timeouts, session, hit, told, tube, pump, early,
                   mail, peerVars>>

Serve(r) ==
    \/ GetChannel(r) \/ SendRequest(r) \/ RequestRefused(r)
    \/ ReadAccepted(r) \/ ReadAnswer(r) \/ ReadTimesOut(r) \/ ReadFails(r)
    \/ StoreEntry(r) \/ DropEntry(r) \/ Unanswered(r)
    \/ StopClosesChannel(r) \/ PumpJoined(r)

CcNext ==
    \/ \E r \in Sessions : Serve(r) \/ PumpCopies(r) \/ PumpEnds(r) \/ RemoteAccepts(r)
                              \/ RemoteAnswers(r) \/ DeadlinePasses(r)
    \/ LinkCloses \/ CacheForgets

CcSpec == CcInit /\ [][CcNext]_ccVars

\* The client's goroutines run and its clock does; a program whose socket was
\* closed is no longer read.  Nothing is assumed of the server.
CcFairness ==
    \A r \in Sessions : /\ WF_ccVars(Serve(r)) /\ WF_ccVars(PumpCopies(r))
                        /\ WF_ccVars(PumpEnds(r) /\ session[r] = "draining")
                        /\ WF_ccVars(DeadlinePasses(r))

CcFairSpec == CcSpec /\ CcFairness

-----------------------------------------------------------------------------
(* Properties *)

\* The entry speaks for the last outcome that was read.  It may outlive a
\* failure in two cases only: the session that read the failure has yet to
\* remove it, or that session read it while another still held an outcome, so
\* that the two may reach the cache in the other order (there is no lock from
\* the read of an answer to connectCache.Put or Delete).
EntryIsCurrent ==
    cached => verdict = "good" \/ contested \/ \E r \in Sessions : Doubts(r)

Settled(r) == session[r] = "relay" \/ (session[r] = "end" /\ tube[r] # "open")

\* Every session comes to its relay or to its end with its channel released,
\* even if the server never answers.  The exception is a failure after a hit
\* that finds the copying goroutine waiting for credit with writeMu in hand.
SessionsSettle ==
    (\E r \in Sessions : session[r] # "start") ~>
        \A r \in Sessions :
            \/ session[r] = "start" \/ Settled(r)
            \/ session[r] = "stopping" /\ pump[r] = "blocked" /\ remote[r] = "failed"
=============================================================================
