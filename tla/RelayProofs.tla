----------------------------- MODULE RelayProofs -----------------------------
(***************************************************************************)
(* That a relayed connection that ends cleanly has lost nothing             *)
(* (RelayPair.CleanEndIsComplete), for any window and any number of chunks. *)
(*                                                                          *)
(* Each direction is looked at by itself.  As long as neither end has given *)
(* up, every chunk that was taken from one application is in the hands of a *)
(* goroutine, on the path, in the receiver's queue or delivered (Balanced). *)
(* The end of the stream is sent when all of it was (EndIsFinal), and       *)
(* nothing follows it (FinIsLast), so a receiver that has read it and has   *)
(* an empty queue has delivered everything (Complete).  A step of one end   *)
(* moves the direction it sends and the one it receives: one lemma for each *)
(* kind of move, then each action is shown to be one of them.               *)
(***************************************************************************)
EXTENDS RelayPair, DataTheorems

Msg == {"data", "fin", "close", "credit"}
DataWeight == [m \in Msg |-> IF m = "data" THEN 1 ELSE 0]

\* A goroutine with a chunk in its hands.
InHand(place) == IF place \in {"credit", "write"} THEN 1 ELSE 0

RelayTyped ==
    /\ chan \in [Relays -> {"open", "closed"}] /\ path \in [Relays -> Seq(Msg)]
    /\ inbox \in [Relays -> Nat] /\ eof \in [Relays -> BOOLEAN]
    /\ sender \in [Relays -> SenderPlace] /\ receiver \in [Relays -> ReceiverPlace]
    /\ once \in [Relays -> {"free", "running", "done"}]
    /\ app \in [Relays -> {"talks", "ended", "reset"}]
    /\ sent \in [Relays -> Nat] /\ taken \in [Relays -> Nat] /\ delivered \in [Relays -> Nat]

\* The end of e's stream is on its way to the other end, or there.
FinSent(e) == eof[Far(e)] \/ \E i \in 1..Len(path[e]) : path[e][i] = "fin"

\* The end of the stream is only sent when all of it was.
EndIsFinal(e) ==
    /\ sender[e] = "fin" \/ FinSent(e) => app[e] # "talks" /\ taken[e] = sent[e]
    /\ FinSent(e) => sender[e] = "done"

\* Nothing follows it.
FinIsLast(e) ==
    /\ \A i, j \in 1..Len(path[e]) : i < j /\ path[e][i] = "fin" => path[e][j] # "data"
    /\ eof[Far(e)] => \A i \in 1..Len(path[e]) : path[e][i] # "data"

\* As long as nobody has given up, what was taken from one application is on its
\* way to the other.
Balanced(e) ==
    /\ sender[e] \in {"read", "credit", "fin"} \/ FinSent(e)
    /\ chan[Far(e)] = "open" /\ receiver[Far(e)] \in {"read", "write"}
    => taken[e] = InHand(sender[e]) + Weight(path[e], DataWeight) + inbox[Far(e)]
                    + InHand(receiver[Far(e)]) + delivered[Far(e)]

\* A clean end of the receiving goroutine.
Complete(e) ==
    receiver[Far(e)] = "shut" \/ (receiver[Far(e)] = "done" /\ once[Far(e)] = "free")
        => delivered[Far(e)] = sent[e] /\ app[e] # "talks"

Direction(e) == EndIsFinal(e) /\ FinIsLast(e) /\ Balanced(e) /\ Complete(e)

RelayInv == RelayTyped /\ \A e \in Relays : Direction(e)

\* The two ends.
LEMMA BothEnds ==
    ASSUME NEW e \in Relays
    PROVE  /\ Far(e) \in Relays /\ Far(e) # e /\ Far(Far(e)) = e
           /\ \A x \in Relays : x = e \/ x = Far(e)
  BY Zenon DEF Relays, Far

\* How the data on a path is counted.
LEMMA DataCount ==
    ASSUME NEW p \in Seq(Msg)
    PROVE  /\ DataWeight["data"] = 1 /\ \A m \in Msg : m # "data" => DataWeight[m] = 0
           /\ Weight(p, DataWeight) \in Nat
           /\ (\A i \in 1..Len(p) : p[i] # "data") => Weight(p, DataWeight) = 0
           /\ \A m \in Msg : Weight(Append(p, m), DataWeight)
                                = Weight(p, DataWeight) + DataWeight[m]
           /\ p # <<>> => Weight(Tail(p), DataWeight)
                             = Weight(p, DataWeight) - DataWeight[Head(p)]
  <1>1. /\ DataWeight \in [Msg -> Nat]
        /\ DataWeight["data"] = 1 /\ \A m \in Msg : m # "data" => DataWeight[m] = 0
    BY Zenon DEF DataWeight, Msg
  <1>2. Weight(p, DataWeight) \in Nat
    BY <1>1, WeightType, Zenon
  <1>3. ASSUME \A i \in 1..Len(p) : p[i] # "data" PROVE Weight(p, DataWeight) = 0
    <2>1. \A i \in 1..Len(p) : DataWeight[p[i]] = 0
      BY <1>1, <1>3
    <2> QED
      BY <1>1, <2>1, WeightType, Zenon
  <1>4. ASSUME NEW m \in Msg
        PROVE  Weight(Append(p, m), DataWeight) = Weight(p, DataWeight) + DataWeight[m]
    BY <1>1, WeightAppend
  <1>5. ASSUME p # <<>>
        PROVE  Weight(Tail(p), DataWeight) = Weight(p, DataWeight) - DataWeight[Head(p)]
    BY <1>1, <1>5, WeightTail, Zenon
  <1> QED
    BY <1>1, <1>2, <1>3, <1>4, <1>5, Zenon

\* What direction e depends on, apart from its path.
SenderSame(e) == /\ sender'[e] = sender[e] /\ app'[e] = app[e]
                 /\ sent'[e] = sent[e] /\ taken'[e] = taken[e]
ReceiverSame(f) == /\ eof'[f] = eof[f] /\ chan'[f] = chan[f] /\ inbox'[f] = inbox[f]
                   /\ receiver'[f] = receiver[f] /\ once'[f] = once[f]
                   /\ delivered'[f] = delivered[f]

\* Its path is left alone, or gets a message that is neither data nor an end.
PathQuiet(e) ==
    path'[e] = path[e] \/ \E m \in {"credit", "close"} : path'[e] = Append(path[e], m)

\* Such a message changes nothing that is said of the path.
LEMMA QuietPath ==
    ASSUME NEW e \in Relays, path[e] \in Seq(Msg), PathQuiet(e), eof'[Far(e)] = eof[Far(e)],
           FinIsLast(e)
    PROVE  /\ Weight(path'[e], DataWeight) = Weight(path[e], DataWeight)
           /\ FinSent(e)' = FinSent(e) /\ FinIsLast(e)'
  <1>1. CASE path'[e] = path[e]
    BY <1>1, Zenon DEF FinSent, FinIsLast
  <1>2. ASSUME NEW m \in {"credit", "close"}, path'[e] = Append(path[e], m)
        PROVE  /\ Weight(path'[e], DataWeight) = Weight(path[e], DataWeight)
               /\ FinSent(e)' = FinSent(e) /\ FinIsLast(e)'
    <2>1. /\ m \in Msg /\ Len(path'[e]) = Len(path[e]) + 1
          /\ path'[e][Len(path[e]) + 1] = m
          /\ \A i \in 1..Len(path[e]) : path'[e][i] = path[e][i]
      BY <1>2 DEF Msg
    <2>2. Weight(path'[e], DataWeight) = Weight(path[e], DataWeight)
      BY <1>2, <2>1, DataCount
    <2>a. /\ Len(path[e]) \in Nat
          /\ \A i \in 1..Len(path'[e]) : i \in 1..Len(path[e]) \/ path'[e][i] = m
          /\ \A i \in 1..Len(path[e]) : i \in 1..Len(path'[e])
      BY <2>1
    <2>b. (\E i \in 1..Len(path'[e]) : path'[e][i] = "fin")
             = \E i \in 1..Len(path[e]) : path[e][i] = "fin"
      BY <2>1, <2>a, Zenon
    <2>3. FinSent(e)' = FinSent(e)
      BY <2>b, Zenon DEF FinSent
    <2>4. FinIsLast(e)'
      <3>1. ASSUME NEW i \in 1..Len(path'[e]), NEW j \in 1..Len(path'[e]), i < j,
                   path'[e][i] = "fin"
            PROVE  path'[e][j] # "data"
        BY <2>1, <2>a, <3>1, Zenon DEF FinIsLast
      <3>2. ASSUME eof'[Far(e)], NEW i \in 1..Len(path'[e]) PROVE path'[e][i] # "data"
        BY <2>1, <2>a, <3>2, Zenon DEF FinIsLast
      <3> QED
        BY <3>1, <3>2, Zenon DEF FinIsLast
    <2> QED
      BY <2>2, <2>3, <2>4, Zenon
  <1> QED
    BY <1>1, <1>2, Zenon DEF PathQuiet

\* The application and the sending goroutine go on, without anything being sent.
SenderGoesOn(e) ==
    /\ app[e] # "talks" => app'[e] # "talks" /\ sent'[e] = sent[e]
    /\ \/ /\ sender'[e] = sender[e] /\ taken'[e] = taken[e]
       \/ /\ sender[e] = "read" /\ sender'[e] = "credit" /\ taken'[e] = taken[e] + 1
       \/ /\ sender[e] = "read" /\ sender'[e] = "fin" /\ taken'[e] = taken[e]
          /\ taken[e] = sent[e] /\ sent'[e] = sent[e] /\ app'[e] # "talks"
       \/ /\ sender[e] # "done" /\ taken'[e] = taken[e]
          /\ sender'[e] \in {"abort", "closing", "done"}

\* Direction e survives that.
LEMMA DirectionSender ==
    ASSUME NEW e \in Relays, RelayTyped, RelayTyped', Direction(e), ReceiverSame(Far(e)),
           PathQuiet(e),
           SenderGoesOn(e)
    PROVE  Direction(e)'
  <1>1. /\ Weight(path'[e], DataWeight) = Weight(path[e], DataWeight)
        /\ FinSent(e)' = FinSent(e) /\ FinIsLast(e)'
    <2>1. path[e] \in Seq(Msg) /\ eof'[Far(e)] = eof[Far(e)] /\ FinIsLast(e)
      BY Zenon DEF RelayTyped, ReceiverSame, Direction
    <2> QED
      BY <2>1, QuietPath, Zenon
  <1>2. FinSent(e) => sender[e] = "done" /\ taken[e] = sent[e] /\ app[e] # "talks"
    BY Zenon DEF Direction, EndIsFinal
  <1>3. EndIsFinal(e)'
    BY <1>1, <1>2, SMTT(30) DEF Direction, EndIsFinal, SenderGoesOn
  <1>5. Balanced(e)'
    <2>1. Weight(path[e], DataWeight) \in Nat
      BY DataCount, Zenon DEF RelayTyped
    <2>2. taken[e] \in Nat /\ inbox[Far(e)] \in Nat /\ delivered[Far(e)] \in Nat
      BY BothEnds, Zenon DEF RelayTyped
    <2> QED
      BY <1>1, <1>2, <2>1, <2>2, SMTT(30) DEF Direction, Balanced, ReceiverSame, InHand, SenderGoesOn
  <1>6. Complete(e)'
    BY Zenon DEF Direction, Complete, ReceiverSame, SenderGoesOn
  <1> QED
    BY <1>1, <1>3, <1>5, <1>6, Zenon DEF Direction

\* Data enters the path.
LEMMA DirectionData ==
    ASSUME NEW e \in Relays, RelayTyped, Direction(e), ReceiverSame(Far(e)),
           path'[e] = Append(path[e], "data"), sender[e] = "credit", sender'[e] = "read",
           app'[e] = app[e], sent'[e] = sent[e], taken'[e] = taken[e]
    PROVE  Direction(e)'
  <1>1. /\ path[e] \in Seq(Msg) /\ "data" \in Msg /\ Len(path'[e]) = Len(path[e]) + 1
        /\ path'[e][Len(path[e]) + 1] = "data"
        /\ \A i \in 1..Len(path[e]) : path'[e][i] = path[e][i]
    BY DEF RelayTyped, Msg
  <1>2. /\ Weight(path'[e], DataWeight) = Weight(path[e], DataWeight) + 1
        /\ Weight(path[e], DataWeight) \in Nat
    BY <1>1, DataCount, Zenon
  <1>3. ~FinSent(e) /\ ~FinSent(e)'
    <2>1. ~FinSent(e)
      BY Zenon DEF Direction, EndIsFinal
    <2> QED
      BY <1>1, <2>1, SMTT(30) DEF ReceiverSame, FinSent
  <1>4. EndIsFinal(e)'
    BY <1>3, Zenon DEF Direction, EndIsFinal
  <1>5. FinIsLast(e)'
    BY <1>1, <1>3, Zenon DEF Direction, FinIsLast, ReceiverSame, FinSent
  <1>6. Balanced(e)'
    <2>1. taken[e] \in Nat /\ inbox[Far(e)] \in Nat /\ delivered[Far(e)] \in Nat
      BY BothEnds, Zenon DEF RelayTyped
    <2> QED
      BY <1>2, <1>3, <2>1 DEF Direction, Balanced, ReceiverSame, InHand
  <1>7. Complete(e)'
    BY DEF Direction, Complete, ReceiverSame
  <1> QED
    BY <1>4, <1>5, <1>6, <1>7 DEF Direction

\* The end of the stream enters the path.
LEMMA DirectionFin ==
    ASSUME NEW e \in Relays, RelayTyped, Direction(e), ReceiverSame(Far(e)),
           path'[e] = Append(path[e], "fin"), sender[e] = "fin", sender'[e] = "done",
           app'[e] = app[e], sent'[e] = sent[e], taken'[e] = taken[e]
    PROVE  Direction(e)'
  <1>1. /\ path[e] \in Seq(Msg) /\ "fin" \in Msg /\ Len(path'[e]) = Len(path[e]) + 1
        /\ path'[e][Len(path[e]) + 1] = "fin"
        /\ \A i \in 1..Len(path[e]) : path'[e][i] = path[e][i]
    BY DEF RelayTyped, Msg
  <1>2. Weight(path'[e], DataWeight) = Weight(path[e], DataWeight)
    <2>1. "fin" # "data"
      BY Zenon
    <2>2. /\ Weight(path[e], DataWeight) \in Nat /\ DataWeight["fin"] = 0
          /\ Weight(Append(path[e], "fin"), DataWeight)
               = Weight(path[e], DataWeight) + DataWeight["fin"]
      BY <1>1, <2>1, DataCount, Zenon
    <2> QED
      BY <2>2
  <1>3. ~FinSent(e)
    BY Zenon DEF Direction, EndIsFinal
  <1>4. EndIsFinal(e)'
    BY Zenon DEF Direction, EndIsFinal
  <1>5. FinIsLast(e)'
    BY <1>1, <1>3, SMTT(30) DEF FinIsLast, ReceiverSame, FinSent
  <1>6. Balanced(e)'
    BY <1>2, Zenon DEF Direction, Balanced, ReceiverSame, InHand
  <1>7. Complete(e)'
    BY Zenon DEF Direction, Complete, ReceiverSame
  <1> QED
    BY <1>4, <1>5, <1>6, <1>7, Zenon DEF Direction

\* The receiving goroutine, or the abort, goes on.
ReceiverGoesOn(f) ==
    \/ /\ receiver'[f] = receiver[f] /\ delivered'[f] = delivered[f]
       /\ once'[f] = once[f] \/ once'[f] # "free"
       /\ (chan'[f] = chan[f] /\ inbox'[f] = inbox[f]) \/ chan'[f] = "closed"
    \/ /\ delivered'[f] = delivered[f]
       /\ \/ receiver'[f] \in {"abort", "closing"}
          \/ receiver'[f] = "done" /\ once'[f] # "free"
          \/ receiver[f] = "shut" /\ receiver'[f] = "done"
    \/ /\ receiver[f] = "read" /\ receiver'[f] = "write" /\ inbox[f] > 0
       /\ inbox'[f] = inbox[f] - 1 /\ delivered'[f] = delivered[f] /\ chan'[f] = chan[f]
    \/ /\ receiver[f] = "write" /\ receiver'[f] = "read" /\ inbox'[f] = inbox[f]
       /\ delivered'[f] = delivered[f] + 1 /\ chan'[f] = chan[f]
    \/ /\ receiver[f] = "read" /\ receiver'[f] = "shut" /\ delivered'[f] = delivered[f]
       /\ chan[f] = "open" /\ inbox[f] = 0 /\ eof[f]

\* Totals whose last three terms have the same sum are the same.
LEMMA SameTotal ==
    ASSUME NEW c \in Nat, NEW w \in Nat, NEW i \in Nat, NEW o \in Nat, NEW d \in Nat,
           NEW j \in Nat, NEW q \in Nat, NEW r \in Nat, j + q + r = i + o + d
    PROVE  c + w + j + q + r = c + w + i + o + d
  OBVIOUS

\* The direction towards f survives that.
LEMMA DirectionReceiver ==
    ASSUME NEW e \in Relays, NEW f, f = Far(e), RelayTyped, Direction(e), SenderSame(e),
           path'[e] = path[e], eof'[f] = eof[f],
           ReceiverGoesOn(f)
    PROVE  Direction(e)'
  <1>0. /\ f \in Relays /\ path[e] \in Seq(Msg) /\ taken[e] \in Nat /\ inbox[f] \in Nat
        /\ delivered[f] \in Nat /\ sent[e] \in Nat
    BY BothEnds, Zenon DEF RelayTyped
  <1>1. Weight(path[e], DataWeight) \in Nat
    BY <1>0, DataCount, Zenon
  <1>2. FinSent(e)' = FinSent(e) /\ EndIsFinal(e)' /\ FinIsLast(e)'
    BY DEF Direction, FinSent, EndIsFinal, FinIsLast, SenderSame
  <1>3. Balanced(e)'
    <2>1. SUFFICES ASSUME \/ sender'[e] \in {"read", "credit", "fin"}
                          \/ FinSent(e)',
                          chan'[f] = "open", receiver'[f] \in {"read", "write"}
                   PROVE  taken'[e] = InHand(sender'[e]) + Weight(path'[e], DataWeight)
                                        + inbox'[f] + InHand(receiver'[f]) + delivered'[f]
      BY Zenon DEF Balanced
    <2>2. /\ chan[f] = "open" /\ receiver[f] \in {"read", "write"}
          /\ inbox'[f] + InHand(receiver'[f]) + delivered'[f]
               = inbox[f] + InHand(receiver[f]) + delivered[f]
      <3>1. CASE /\ receiver'[f] = receiver[f] /\ delivered'[f] = delivered[f]
                 /\ chan'[f] = chan[f] /\ inbox'[f] = inbox[f]
        BY <2>1, <3>1, Zenon
      <3>2. CASE /\ receiver[f] = "read" /\ receiver'[f] = "write" /\ inbox[f] > 0
                 /\ inbox'[f] = inbox[f] - 1 /\ delivered'[f] = delivered[f]
                 /\ chan'[f] = chan[f]
        <4>1. InHand(receiver'[f]) = 1 /\ InHand(receiver[f]) = 0
          BY <3>2, Zenon DEF InHand
        <4>2. PICK i \in Nat, d \in Nat : i = inbox[f] /\ d = delivered[f]
          BY <1>0, Zenon
        <4>3. (i - 1) + 1 + d = i + 0 + d
          OBVIOUS
        <4>4. /\ inbox'[f] = i - 1 /\ delivered'[f] = d /\ chan[f] = "open"
              /\ receiver[f] \in {"read", "write"}
          BY <2>1, <3>2, <4>2, ZenonT(40)
        <4> QED
          BY <4>1, <4>2, <4>3, <4>4, ZenonT(40)
      <3>3. CASE /\ receiver[f] = "write" /\ receiver'[f] = "read" /\ inbox'[f] = inbox[f]
                 /\ delivered'[f] = delivered[f] + 1 /\ chan'[f] = chan[f]
        <4>1. InHand(receiver'[f]) = 0 /\ InHand(receiver[f]) = 1
          BY <3>3, Zenon DEF InHand
        <4>2. PICK i \in Nat, d \in Nat : i = inbox[f] /\ d = delivered[f]
          BY <1>0, Zenon
        <4>3. i + 0 + (d + 1) = i + 1 + d
          OBVIOUS
        <4>4. /\ inbox'[f] = i /\ delivered'[f] = d + 1 /\ chan[f] = "open"
              /\ receiver[f] \in {"read", "write"}
          BY <2>1, <3>3, <4>2, ZenonT(40)
        <4> QED
          BY <4>1, <4>2, <4>3, <4>4, ZenonT(40)
      <3> QED
        BY <2>1, <3>1, <3>2, <3>3, ZenonT(40) DEF ReceiverGoesOn
    <2>3. taken[e] = InHand(sender[e]) + Weight(path[e], DataWeight)
                       + inbox[f] + InHand(receiver[f]) + delivered[f]
      BY <1>2, <2>1, <2>2, Zenon DEF Direction, Balanced, SenderSame
    <2>4. inbox'[f] \in Nat /\ delivered'[f] \in Nat
      BY <1>0, <2>1 DEF ReceiverGoesOn
    <2>a. /\ InHand(sender[e]) \in Nat
          /\ InHand(receiver'[f]) \in Nat /\ InHand(receiver[f]) \in Nat
      BY Zenon DEF InHand
    <2>5. /\ sender'[e] = sender[e] /\ taken'[e] = taken[e]
          /\ Weight(path'[e], DataWeight) = Weight(path[e], DataWeight)
      BY Zenon DEF SenderSame
    <2> DEFINE W == Weight(path[e], DataWeight)
               C == InHand(sender[e])
    <2>6. /\ taken'[e] = C + W + inbox[f] + InHand(receiver[f]) + delivered[f]
          /\ InHand(sender'[e]) = C /\ Weight(path'[e], DataWeight) = W
          /\ W \in Nat /\ C \in Nat
      BY <1>1, <2>3, <2>a, <2>5
    <2>7. PICK i \in Nat, o \in Nat, d \in Nat, j \in Nat, q \in Nat, r \in Nat :
             /\ i = inbox[f] /\ o = InHand(receiver[f]) /\ d = delivered[f]
             /\ j = inbox'[f] /\ q = InHand(receiver'[f]) /\ r = delivered'[f]
      BY <1>0, <2>4, <2>a, Zenon
    <2>8. j + q + r = i + o + d
      BY <2>2, <2>7, Zenon
    <2> HIDE DEF W, C
    <2>10. C + W + j + q + r = C + W + i + o + d
      BY <2>6, <2>8, SameTotal
    <2> QED
      BY <2>6, <2>7, <2>10, Zenon
  <1>4. Complete(e)'
    <2>1. CASE receiver[f] = "read" /\ chan[f] = "open" /\ inbox[f] = 0 /\ eof[f]
               /\ delivered'[f] = delivered[f]
      <3>1. FinSent(e) /\ Weight(path[e], DataWeight) = 0
        BY <1>0, <2>1, DataCount, SMTT(30) DEF Direction, FinIsLast, FinSent
      <3>2. sender[e] = "done" /\ taken[e] = sent[e] /\ app[e] # "talks"
        BY <3>1, Zenon DEF Direction, EndIsFinal
      <3>3. delivered[f] = sent[e]
        BY <1>0, <2>1, <3>1, <3>2 DEF Direction, Balanced, InHand
      <3> QED
        BY <2>1, <3>2, <3>3, Zenon DEF Complete, SenderSame
    <2> QED
      BY <2>1, Zenon DEF Direction, Complete, SenderSame, ReceiverGoesOn
  <1> QED
    BY <1>2, <1>3, <1>4, Zenon DEF Direction

\* The read loop of the receiving end takes a message.
LEMMA DirectionRead ==
    ASSUME NEW e \in Relays, NEW f, f = Far(e), RelayTyped, Direction(e), SenderSame(e),
           path[e] # <<>>, path'[e] = Tail(path[e]), receiver'[f] = receiver[f],
           once'[f] = once[f], delivered'[f] = delivered[f],
           NEW m, m = Head(path[e]),
           eof'[f] = (eof[f] \/ (chan[f] = "open" /\ m = "fin")),
           chan'[f] = (IF m = "close" THEN "closed" ELSE chan[f]),
           chan[f] = "open" => inbox'[f] = IF m = "data" THEN inbox[f] + 1
                                           ELSE IF m = "close" THEN 0 ELSE inbox[f]
    PROVE  Direction(e)'
  <1>0. /\ f \in Relays /\ path[e] \in Seq(Msg) /\ taken[e] \in Nat /\ inbox[f] \in Nat
        /\ delivered[f] \in Nat /\ chan[f] \in {"open", "closed"} /\ eof[f] \in BOOLEAN
    BY BothEnds, Zenon DEF RelayTyped
  <1>1. /\ Len(path'[e]) = Len(path[e]) - 1 /\ m = path[e][1] /\ Len(path[e]) \in Nat \ {0}
        /\ \A i \in 1..Len(path'[e]) : path'[e][i] = path[e][i + 1] /\ i + 1 \in 1..Len(path[e])
    BY <1>0
  <1>2. /\ Weight(path[e], DataWeight) \in Nat
        /\ Weight(path'[e], DataWeight) = Weight(path[e], DataWeight) - DataWeight[m]
    BY <1>0, DataCount, Zenon
  <1>3. FinSent(e)' => FinSent(e)
    <2>1. CASE eof'[f]
      BY <1>0, <1>1, <2>1 DEF FinSent
    <2>2. CASE ~eof'[f]
      BY <1>0, <1>1, <2>2, Zenon DEF FinSent
    <2> QED
      BY <2>1, <2>2, Zenon
  <1>4. EndIsFinal(e)'
    BY <1>3, Zenon DEF Direction, EndIsFinal, SenderSame
  <1>5. FinIsLast(e)'
    <2>1. ASSUME NEW i \in 1..Len(path'[e]), NEW j \in 1..Len(path'[e]), i < j,
                 path'[e][i] = "fin"
          PROVE  path'[e][j] # "data"
      <3>1. i + 1 < j + 1 /\ path[e][i + 1] = "fin" /\ path'[e][j] = path[e][j + 1]
            /\ i + 1 \in 1..Len(path[e]) /\ j + 1 \in 1..Len(path[e])
        BY <1>1, <2>1
      <3> QED
        BY <3>1, Zenon DEF Direction, FinIsLast
    <2>2. ASSUME eof'[f], NEW i \in 1..Len(path'[e]) PROVE path'[e][i] # "data"
      <3>1. 1 \in 1..Len(path[e]) /\ i + 1 \in 1..Len(path[e]) /\ 1 < i + 1
            /\ path'[e][i] = path[e][i + 1]
        BY <1>1
      <3>2. CASE eof[f]
        BY <3>1, <3>2, Zenon DEF Direction, FinIsLast
      <3>3. CASE m = "fin"
        BY <1>1, <3>1, <3>3, Zenon DEF Direction, FinIsLast
      <3> QED
        BY <1>0, <2>2, <3>2, <3>3, Zenon
    <2> QED
      BY <2>1, <2>2, Zenon DEF FinIsLast
  <1>6. Balanced(e)'
    <2>1. CASE chan'[f] = "open"
      <3>1. chan[f] = "open" /\ m # "close"
            /\ inbox'[f] = inbox[f] + DataWeight[m] /\ DataWeight[m] \in Nat
        <4>1. chan[f] = "open" /\ m # "close" /\ m \in Msg
          BY <1>0, <2>1
        <4>2. m = "data" => DataWeight[m] = 1 /\ inbox'[f] = inbox[f] + 1
          BY <1>0, <4>1, DataCount, Zenon
        <4>3. m # "data" => DataWeight[m] = 0 /\ inbox'[f] = inbox[f]
          BY <1>0, <4>1, DataCount, Zenon
        <4> QED
          BY <1>0, <4>1, <4>2, <4>3, SMTT(30)
      <3>2. SUFFICES ASSUME \/ sender'[e] \in {"read", "credit", "fin"}
                            \/ FinSent(e)',
                            receiver'[f] \in {"read", "write"}
                     PROVE  taken'[e] = InHand(sender'[e]) + Weight(path'[e], DataWeight)
                                          + inbox'[f] + InHand(receiver'[f]) + delivered'[f]
        BY Zenon DEF Balanced
      <3>3. taken[e] = InHand(sender[e]) + Weight(path[e], DataWeight)
                         + inbox[f] + InHand(receiver[f]) + delivered[f]
        BY <1>3, <3>1, <3>2, SMTT(30) DEF Direction, Balanced, SenderSame
      <3>4. InHand(sender[e]) \in Nat /\ InHand(receiver[f]) \in Nat
        BY Zenon DEF InHand
      <3>5. sender'[e] = sender[e] /\ taken'[e] = taken[e]
        BY DEF SenderSame
      <3>6. PICK c \in Nat, w \in Nat, i \in Nat, o \in Nat, d \in Nat, k \in Nat :
               /\ c = InHand(sender[e]) /\ w = Weight(path[e], DataWeight) /\ i = inbox[f]
               /\ o = InHand(receiver[f]) /\ d = delivered[f] /\ k = DataWeight[m]
        BY <1>0, <1>2, <3>1, <3>4, ZenonT(40)
      <3>7. c + (w - k) + (i + k) + o + d = c + w + i + o + d
        OBVIOUS
      <3> QED
        BY <1>2, <3>1, <3>3, <3>5, <3>6, <3>7, ZenonT(40)
    <2> QED
      BY <2>1, Zenon DEF Balanced
  <1>7. Complete(e)'
    BY Zenon DEF Direction, Complete, SenderSame
  <1> QED
    BY <1>4, <1>5, <1>6, <1>7, Zenon DEF Direction

\* Moving a goroutine, and sending, keep the types.
LEMMA MovesTyped ==
    ASSUME RelayTyped, NEW x \in Relays
    PROVE  /\ \A p \in SenderPlace : SenderTo(x, p) => sender' \in [Relays -> SenderPlace]
           /\ \A p \in ReceiverPlace : ReceiverTo(x, p) => receiver' \in [Relays -> ReceiverPlace]
           /\ \A m \in Msg : Send(x, m) => path' \in [Relays -> Seq(Msg)]
  <1>1. ASSUME NEW p \in SenderPlace, SenderTo(x, p) PROVE sender' \in [Relays -> SenderPlace]
    BY <1>1, Zenon DEF SenderTo, RelayTyped
  <1>2. ASSUME NEW p \in ReceiverPlace, ReceiverTo(x, p)
        PROVE  receiver' \in [Relays -> ReceiverPlace]
    BY <1>2, Zenon DEF ReceiverTo, RelayTyped
  <1>3. ASSUME NEW m \in Msg, Send(x, m) PROVE path' \in [Relays -> Seq(Msg)]
    <2>1. path \in [Relays -> Seq(Msg)] /\ Append(path[x], m) \in Seq(Msg)
      BY DEF RelayTyped
    <2> QED
      BY <1>3, <2>1, Zenon DEF Send
  <1> QED
    BY <1>1, <1>2, <1>3, Zenon

\* The types.
LEMMA RelayTypes ==
    ASSUME RelayTyped, NEW x \in Relays,
           \/ AppSends(x) \/ AppEnds(x) \/ AppResets(x) \/ AppStalls(x)
           \/ Sending(x) \/ Receiving(x) \/ Aborting(x) \/ Relaying(x)
    PROVE  RelayTyped'
  <1>0. /\ {"abort", "credit", "fin", "read", "closing", "done"} \subseteq SenderPlace
        /\ {"abort", "read", "write", "shut", "closing", "done"} \subseteq ReceiverPlace
        /\ {"data", "fin", "close", "credit"} \subseteq Msg
    BY Zenon DEF SenderPlace, ReceiverPlace, Msg
  <1>a. inbox \in [Relays -> Nat] /\ taken \in [Relays -> Nat] /\ delivered \in [Relays -> Nat]
    BY Zenon DEF RelayTyped
  <1>1. CASE AppSends(x)
    BY <1>1, SMTT(30) DEF AppSends, chanVars, RelayTyped
  <1>2. CASE AppEnds(x)
    BY <1>2, Zenon DEF AppEnds, chanVars, RelayTyped
  <1>3. CASE AppResets(x)
    BY <1>3, Zenon DEF AppResets, chanVars, RelayTyped
  <1>4. CASE AppStalls(x)
    BY <1>4, Zenon DEF AppStalls, chanVars, RelayTyped
  <1>5. CASE SenderReads(x)
    <2>1. sender' \in [Relays -> SenderPlace]
      BY <1>0, <1>5, MovesTyped DEF SenderReads
    <2>2. taken' \in [Relays -> Nat]
      <3>1. taken' = taken \/ taken' = [taken EXCEPT ![x] = @ + 1]
        BY <1>5, Zenon DEF SenderReads
      <3> QED
        BY <1>a, <3>1
    <2>3. UNCHANGED <<chan, path, inbox, eof, receiver, once, app, sent, delivered>>
      BY <1>5, Zenon DEF SenderReads, chanVars, appVars
    <2> QED
      BY <2>1, <2>2, <2>3, Zenon DEF RelayTyped
  <1>6. CASE SenderWrites(x)
    <2>1. sender' \in [Relays -> SenderPlace]
      BY <1>0, <1>6, MovesTyped, Zenon DEF SenderWrites
    <2>2. path' \in [Relays -> Seq(Msg)]
      <3>1. Send(x, "data") \/ path' = path
        BY <1>6, Zenon DEF SenderWrites
      <3> QED
        BY <1>0, <3>1, MovesTyped, Zenon DEF RelayTyped
    <2>3. UNCHANGED <<chan, inbox, eof, receiver, once, app, sent, taken, delivered>>
      BY <1>6, Zenon DEF SenderWrites, appVars
    <2> QED
      BY <2>1, <2>2, <2>3, Zenon DEF RelayTyped
  <1>7. CASE SenderEnds(x)
    <2>1. sender' \in [Relays -> SenderPlace]
      BY <1>0, <1>7, MovesTyped, SMTT(30) DEF SenderEnds
    <2>2. path' \in [Relays -> Seq(Msg)]
      <3>1. Send(x, "fin") \/ path' = path
        BY <1>7, Zenon DEF SenderEnds
      <3> QED
        BY <1>0, <3>1, MovesTyped, Zenon DEF RelayTyped
    <2>3. UNCHANGED <<chan, inbox, eof, receiver, once, app, sent, taken, delivered>>
      BY <1>7, Zenon DEF SenderEnds, appVars
    <2> QED
      BY <2>1, <2>2, <2>3, Zenon DEF RelayTyped
  <1>8. CASE ReceiverReads(x)
    <2>1. receiver' \in [Relays -> ReceiverPlace]
      BY <1>0, <1>8, MovesTyped, Zenon DEF ReceiverReads
    <2>2. path' \in [Relays -> Seq(Msg)]
      <3>1. Send(x, "credit") \/ path' = path
        BY <1>8, Zenon DEF ReceiverReads
      <3> QED
        BY <1>0, <3>1, MovesTyped, Zenon DEF RelayTyped
    <2>3. inbox' \in [Relays -> Nat]
      <3>1. inbox' = inbox \/ (inbox[x] > 0 /\ inbox' = [inbox EXCEPT ![x] = @ - 1])
        BY <1>8, Zenon DEF ReceiverReads
      <3> QED
        BY <1>a, <3>1
    <2>4. UNCHANGED <<chan, eof, sender, once, app, sent, taken, delivered>>
      BY <1>8, Zenon DEF ReceiverReads, appVars
    <2> QED
      BY <2>1, <2>2, <2>3, <2>4, SMTT(30) DEF RelayTyped
  <1>9. CASE ReceiverWrites(x)
    <2>1. receiver' \in [Relays -> ReceiverPlace]
      BY <1>0, <1>9, MovesTyped, Zenon DEF ReceiverWrites
    <2>2. delivered' \in [Relays -> Nat]
      <3>1. delivered' = delivered \/ delivered' = [delivered EXCEPT ![x] = @ + 1]
        BY <1>9, Zenon DEF ReceiverWrites
      <3> QED
        BY <1>a, <3>1
    <2>3. UNCHANGED <<chan, path, inbox, eof, sender, once, app, sent, taken>>
      BY <1>9, Zenon DEF ReceiverWrites, chanVars
    <2> QED
      BY <2>1, <2>2, <2>3, Zenon DEF RelayTyped
  <1>10. CASE ReceiverShuts(x)
    <2>1. receiver' \in [Relays -> ReceiverPlace]
      BY <1>0, <1>10, MovesTyped, Zenon DEF ReceiverShuts
    <2>2. UNCHANGED <<chan, path, inbox, eof, sender, once, app, sent, taken, delivered>>
      BY <1>10, Zenon DEF ReceiverShuts, chanVars, appVars
    <2> QED
      BY <2>1, <2>2, Zenon DEF RelayTyped
  <1>11. ASSUME NEW g, AborterTo(x, g, "closing") \/ AborterTo(x, g, "done")
         PROVE  sender' \in [Relays -> SenderPlace] /\ receiver' \in [Relays -> ReceiverPlace]
    <2>1. CASE g = "sender"
      BY <1>0, <1>11, <2>1, MovesTyped, SMTT(30) DEF AborterTo, RelayTyped
    <2>2. CASE g # "sender"
      BY <1>0, <1>11, <2>2, MovesTyped, Zenon DEF AborterTo, RelayTyped
    <2> QED
      BY <2>1, <2>2, Zenon
  <1>12. ASSUME NEW g, StartAbort(x, g) PROVE RelayTyped'
    <2>1. once' \in [Relays -> {"free", "running", "done"}]
      BY <1>12, Zenon DEF StartAbort, RelayTyped
    <2>2. sender' \in [Relays -> SenderPlace] /\ receiver' \in [Relays -> ReceiverPlace]
      BY <1>11, <1>12, ZenonT(40) DEF StartAbort
    <2> QED
      BY <1>12, <2>1, <2>2 DEF StartAbort, chanVars, appVars, RelayTyped
  <1>13. ASSUME NEW g, FinishAbort(x, g) PROVE RelayTyped'
    <2>0. once' \in [Relays -> {"free", "running", "done"}]
      BY <1>13, Zenon DEF FinishAbort, RelayTyped
    <2>1. inbox' \in [Relays -> Nat] /\ chan' \in [Relays -> {"open", "closed"}]
      BY <1>13, Zenon DEF FinishAbort, SendClose, RelayTyped
    <2>2. sender' \in [Relays -> SenderPlace] /\ receiver' \in [Relays -> ReceiverPlace]
      BY <1>11, <1>13, Zenon DEF FinishAbort
    <2>3. path' \in [Relays -> Seq(Msg)]
      <3>1. Send(x, "close") \/ path' = path
        BY <1>13, Zenon DEF FinishAbort, SendClose
      <3> QED
        BY <1>0, <3>1, MovesTyped, Zenon DEF RelayTyped
    <2> QED
      BY <1>13, <2>0, <2>1, <2>2, <2>3, Zenon DEF FinishAbort, appVars, RelayTyped
  <1>14. ASSUME NEW g, JoinAbort(x, g) PROVE RelayTyped'
    <2>1. sender' \in [Relays -> SenderPlace] /\ receiver' \in [Relays -> ReceiverPlace]
      BY <1>11, <1>14, Zenon DEF JoinAbort
    <2> QED
      BY <1>14, <2>1, Zenon DEF JoinAbort, chanVars, appVars, RelayTyped
  <1>15. CASE ReleaseRelay(x)
    <2>1. inbox' \in [Relays -> Nat] /\ chan' \in [Relays -> {"open", "closed"}]
      BY <1>15 DEF ReleaseRelay, RelayTyped
    <2> QED
      BY <1>15, <2>1, Zenon DEF ReleaseRelay, appVars, RelayTyped
  <1>16. CASE ReadLoop(x)
    <2>1. inbox' \in [Relays -> Nat]
      BY <1>16, SMTT(30) DEF ReadLoop, RelayTyped
    <2>2. eof' \in [Relays -> BOOLEAN]
      BY <1>16, Zenon DEF ReadLoop, RelayTyped
    <2>3. chan' \in [Relays -> {"open", "closed"}]
      BY <1>16, Zenon DEF ReadLoop, RelayTyped
    <2>4. path' \in [Relays -> Seq(Msg)]
      <3>1. Far(x) \in Relays /\ path[Far(x)] \in Seq(Msg) /\ path[Far(x)] # <<>>
        BY <1>16, BothEnds, Zenon DEF ReadLoop, RelayTyped
      <3>2. Tail(path[Far(x)]) \in Seq(Msg)
        BY <3>1
      <3> QED
        BY <1>16, <3>1, <3>2, Zenon DEF ReadLoop, RelayTyped
    <2> QED
      BY <1>16, <2>1, <2>2, <2>3, <2>4, ZenonT(40) DEF ReadLoop, appVars, RelayTyped
  <1> QED
    BY <1>1, <1>2, <1>3, <1>4, <1>5, <1>6, <1>7, <1>8, <1>9, <1>10, <1>12, <1>13, <1>14,
       <1>15, <1>16, SMTT(30)
    DEF Sending, Receiving, Aborting, Relaying
-----------------------------------------------------------------------------
(* The steps *)

\* The other end is left alone.
Elsewhere(f) == SenderSame(f) /\ ReceiverSame(f) /\ path'[f] = path[f]

\* A step at x whose own direction is settled.
LEMMA FarSide ==
    ASSUME NEW x \in Relays, RelayTyped, \A e \in Relays : Direction(e), Direction(x)',
           Elsewhere(Far(x)), ReceiverGoesOn(x), eof'[x] = eof[x]
    PROVE  \A e \in Relays : Direction(e)'
  <1>1. Far(x) \in Relays /\ Far(Far(x)) = x
    BY BothEnds, Zenon
  <1>2. Direction(Far(x))'
    BY <1>1, DirectionReceiver, Zenon DEF Elsewhere
  <1> QED
    BY <1>2, BothEnds, Zenon

\* A step at x that sends nothing of the stream and receives nothing.
LEMMA LocalStep ==
    ASSUME NEW x \in Relays, RelayTyped, RelayTyped', \A e \in Relays : Direction(e),
           Elsewhere(Far(x)), SenderGoesOn(x), PathQuiet(x), ReceiverGoesOn(x), eof'[x] = eof[x]
    PROVE  \A e \in Relays : Direction(e)'
  <1>1. Direction(x)'
    BY DirectionSender, Zenon DEF Elsewhere
  <1> QED
    BY <1>1, FarSide, Zenon

\* Each step of the relays keeps both directions in order.
LEMMA DirectionSteps ==
    ASSUME NEW x \in Relays, RelayTyped, RelayTyped', \A e \in Relays : Direction(e),
           \/ AppSends(x) \/ AppEnds(x) \/ AppResets(x) \/ AppStalls(x)
           \/ Sending(x) \/ Receiving(x) \/ Aborting(x) \/ Relaying(x)
    PROVE  \A e \in Relays : Direction(e)'
  <1> DEFINE y == Far(x)
  <1>0. y \in Relays /\ y # x
    BY BothEnds, Zenon
  <1>a. /\ chan \in [Relays -> {"open", "closed"}] /\ path \in [Relays -> Seq(Msg)]
        /\ inbox \in [Relays -> Nat] /\ eof \in [Relays -> BOOLEAN]
        /\ sender \in [Relays -> SenderPlace] /\ receiver \in [Relays -> ReceiverPlace]
        /\ once \in [Relays -> {"free", "running", "done"}]
        /\ app \in [Relays -> {"talks", "ended", "reset"}]
        /\ sent \in [Relays -> Nat] /\ taken \in [Relays -> Nat] /\ delivered \in [Relays -> Nat]
    BY Zenon DEF RelayTyped
  <1> HIDE DEF y
  <1>1. CASE AppSends(x)
    <2>1. Elsewhere(y)
      BY <1>0, <1>a, <1>1, Zenon DEF AppSends, chanVars, Elsewhere, SenderSame, ReceiverSame
    <2>2. SenderGoesOn(x)
      BY <1>a, <1>1 DEF AppSends, chanVars, SenderGoesOn
    <2>3. PathQuiet(x)
      BY <1>a, <1>1, Zenon DEF AppSends, chanVars, PathQuiet
    <2>4. ReceiverGoesOn(x) /\ eof'[x] = eof[x]
      BY <1>a, <1>1, SMTT(30) DEF AppSends, chanVars, ReceiverGoesOn
    <2> QED
      BY <2>1, <2>2, <2>3, <2>4, LocalStep, Zenon DEF y
  <1>2. CASE AppEnds(x)
    <2>1. Elsewhere(y)
      BY <1>0, <1>a, <1>2, Zenon DEF AppEnds, chanVars, Elsewhere, SenderSame, ReceiverSame
    <2>2. SenderGoesOn(x)
      BY <1>a, <1>2, Zenon DEF AppEnds, chanVars, SenderGoesOn
    <2>3. PathQuiet(x)
      BY <1>a, <1>2, Zenon DEF AppEnds, chanVars, PathQuiet
    <2>4. ReceiverGoesOn(x) /\ eof'[x] = eof[x]
      BY <1>a, <1>2, SMTT(30) DEF AppEnds, chanVars, ReceiverGoesOn
    <2> QED
      BY <2>1, <2>2, <2>3, <2>4, LocalStep, Zenon DEF y
  <1>3. CASE AppResets(x)
    <2>1. Elsewhere(y)
      BY <1>0, <1>a, <1>3, Zenon DEF AppResets, chanVars, Elsewhere, SenderSame, ReceiverSame
    <2>2. SenderGoesOn(x)
      BY <1>a, <1>3, Zenon DEF AppResets, chanVars, SenderGoesOn
    <2>3. PathQuiet(x)
      BY <1>a, <1>3, Zenon DEF AppResets, chanVars, PathQuiet
    <2>4. ReceiverGoesOn(x) /\ eof'[x] = eof[x]
      BY <1>a, <1>3, SMTT(30) DEF AppResets, chanVars, ReceiverGoesOn
    <2> QED
      BY <2>1, <2>2, <2>3, <2>4, LocalStep, Zenon DEF y
  <1>4. CASE AppStalls(x)
    <2>1. Elsewhere(y)
      BY <1>0, <1>a, <1>4, Zenon DEF AppStalls, chanVars, Elsewhere, SenderSame, ReceiverSame
    <2>2. SenderGoesOn(x)
      BY <1>a, <1>4 DEF AppStalls, chanVars, SenderGoesOn
    <2>3. PathQuiet(x)
      BY <1>a, <1>4, Zenon DEF AppStalls, chanVars, PathQuiet
    <2>4. ReceiverGoesOn(x) /\ eof'[x] = eof[x]
      BY <1>a, <1>4, SMTT(30) DEF AppStalls, chanVars, ReceiverGoesOn
    <2> QED
      BY <2>1, <2>2, <2>3, <2>4, LocalStep, Zenon DEF y
  <1>5. CASE SenderReads(x)
    <2>1. Elsewhere(y)
      BY <1>0, <1>a, <1>5, SMTT(30)
      DEF SenderReads, SenderTo, chanVars, appVars, Elsewhere, SenderSame, ReceiverSame
    <2>2. SenderGoesOn(x)
      BY <1>a, <1>5, SMTT(30) DEF SenderReads, SenderTo, chanVars, appVars, SenderGoesOn
    <2>3. PathQuiet(x)
      BY <1>a, <1>5, Zenon DEF SenderReads, SenderTo, chanVars, appVars, PathQuiet
    <2>4. ReceiverGoesOn(x) /\ eof'[x] = eof[x]
      BY <1>a, <1>5, SMTT(30) DEF SenderReads, SenderTo, chanVars, appVars, ReceiverGoesOn
    <2> QED
      BY <2>1, <2>2, <2>3, <2>4, LocalStep, Zenon DEF y
  <1>6. CASE ReceiverReads(x)
    <2>1. Elsewhere(y)
      BY <1>0, <1>a, <1>6, Zenon
      DEF ReceiverReads, ReceiverTo, Send, appVars, Elsewhere, SenderSame, ReceiverSame
    <2>2. SenderGoesOn(x)
      BY <1>a, <1>6, SMTT(30) DEF ReceiverReads, ReceiverTo, Send, appVars, SenderGoesOn
    <2>3. PathQuiet(x)
      BY <1>a, <1>6, Zenon DEF ReceiverReads, ReceiverTo, Send, appVars, PathQuiet
    <2>4. ReceiverGoesOn(x) /\ eof'[x] = eof[x]
      BY <1>a, <1>6, SMTT(30) DEF ReceiverReads, ReceiverTo, Send, appVars, ReceiverGoesOn
    <2> QED
      BY <2>1, <2>2, <2>3, <2>4, LocalStep, Zenon DEF y
  <1>7. CASE ReceiverWrites(x)
    <2>1. Elsewhere(y)
      BY <1>0, <1>a, <1>7, SMTT(30)
      DEF ReceiverWrites, ReceiverTo, chanVars, Elsewhere, SenderSame, ReceiverSame
    <2>2. SenderGoesOn(x)
      BY <1>a, <1>7, Zenon DEF ReceiverWrites, ReceiverTo, chanVars, SenderGoesOn
    <2>3. PathQuiet(x)
      BY <1>a, <1>7, SMTT(30) DEF ReceiverWrites, ReceiverTo, chanVars, PathQuiet
    <2>4. ReceiverGoesOn(x) /\ eof'[x] = eof[x]
      BY <1>a, <1>7, SMTT(30) DEF ReceiverWrites, ReceiverTo, chanVars, ReceiverGoesOn
    <2> QED
      BY <2>1, <2>2, <2>3, <2>4, LocalStep, Zenon DEF y
  <1>8. CASE ReceiverShuts(x)
    <2>1. Elsewhere(y)
      BY <1>0, <1>a, <1>8, SMTT(30)
      DEF ReceiverShuts, ReceiverTo, chanVars, appVars, Elsewhere, SenderSame, ReceiverSame
    <2>2. SenderGoesOn(x)
      BY <1>a, <1>8, Zenon DEF ReceiverShuts, ReceiverTo, chanVars, appVars, SenderGoesOn
    <2>3. PathQuiet(x)
      BY <1>a, <1>8, SMTT(30) DEF ReceiverShuts, ReceiverTo, chanVars, appVars, PathQuiet
    <2>4. ReceiverGoesOn(x) /\ eof'[x] = eof[x]
      BY <1>a, <1>8, SMTT(30) DEF ReceiverShuts, ReceiverTo, chanVars, appVars, ReceiverGoesOn
    <2> QED
      BY <2>1, <2>2, <2>3, <2>4, LocalStep, Zenon DEF y
  <1>9. CASE ReleaseRelay(x)
    <2>1. Elsewhere(y)
      BY <1>0, <1>a, <1>9, SMTT(30) DEF ReleaseRelay, appVars, Elsewhere, SenderSame, ReceiverSame
    <2>2. SenderGoesOn(x)
      BY <1>a, <1>9, Zenon DEF ReleaseRelay, appVars, SenderGoesOn
    <2>3. PathQuiet(x)
      BY <1>a, <1>9, SMTT(30) DEF ReleaseRelay, appVars, PathQuiet
    <2>4. ReceiverGoesOn(x) /\ eof'[x] = eof[x]
      BY <1>a, <1>9, Zenon DEF ReleaseRelay, appVars, ReceiverGoesOn
    <2> QED
      BY <2>1, <2>2, <2>3, <2>4, LocalStep, Zenon DEF y
  <1>10. ASSUME NEW g \in {"sender", "receiver"}, StartAbort(x, g)
         PROVE  \A e \in Relays : Direction(e)'
    <2>1. Elsewhere(y)
      BY <1>0, <1>a, <1>10, Zenon
      DEF StartAbort, Aborter, AborterTo, SenderTo, ReceiverTo, chanVars, appVars, Elsewhere,
          SenderSame, ReceiverSame
    <2>2. SenderGoesOn(x)
      BY <1>a, <1>10, SMTT(30)
      DEF StartAbort, Aborter, AborterTo, SenderTo, ReceiverTo, chanVars, appVars, SenderGoesOn
    <2>3. PathQuiet(x)
      BY <1>a, <1>10, Zenon
      DEF StartAbort, Aborter, AborterTo, SenderTo, ReceiverTo, chanVars, appVars, PathQuiet
    <2>4. ReceiverGoesOn(x) /\ eof'[x] = eof[x]
      BY <1>a, <1>10, SMTT(30)
      DEF StartAbort, Aborter, AborterTo, SenderTo, ReceiverTo, chanVars, appVars,
          ReceiverGoesOn
    <2> QED
      BY <2>1, <2>2, <2>3, <2>4, LocalStep, ZenonT(40) DEF y
  <1>11. ASSUME NEW g \in {"sender", "receiver"}, FinishAbort(x, g)
         PROVE  \A e \in Relays : Direction(e)'
    <2>1. Elsewhere(y)
      BY <1>0, <1>a, <1>11, Zenon
      DEF FinishAbort, Aborter, AborterTo, SenderTo, ReceiverTo, SendClose, Send, appVars,
          Elsewhere, SenderSame, ReceiverSame
    <2>2. SenderGoesOn(x)
      BY <1>a, <1>11, SMTT(30)
      DEF FinishAbort, Aborter, AborterTo, SenderTo, ReceiverTo, SendClose, Send, appVars,
          SenderGoesOn
    <2>3. PathQuiet(x)
      BY <1>a, <1>11, Zenon
      DEF FinishAbort, Aborter, AborterTo, SenderTo, ReceiverTo, SendClose, Send, appVars,
          PathQuiet
    <2>4. ReceiverGoesOn(x) /\ eof'[x] = eof[x]
      BY <1>a, <1>11, SMTT(30)
      DEF FinishAbort, Aborter, AborterTo, SenderTo, ReceiverTo, SendClose, Send, appVars,
          ReceiverGoesOn
    <2> QED
      BY <2>1, <2>2, <2>3, <2>4, LocalStep, Zenon DEF y
  <1>12. ASSUME NEW g \in {"sender", "receiver"}, JoinAbort(x, g)
         PROVE  \A e \in Relays : Direction(e)'
    <2>1. Elsewhere(y)
      BY <1>0, <1>a, <1>12, Zenon
      DEF JoinAbort, Aborter, AborterTo, SenderTo, ReceiverTo, chanVars, appVars, Elsewhere,
          SenderSame, ReceiverSame
    <2>2. SenderGoesOn(x)
      BY <1>a, <1>12
      DEF JoinAbort, Aborter, AborterTo, SenderTo, ReceiverTo, chanVars, appVars, SenderGoesOn
    <2>3. PathQuiet(x)
      BY <1>a, <1>12, Zenon
      DEF JoinAbort, Aborter, AborterTo, SenderTo, ReceiverTo, chanVars, appVars, PathQuiet
    <2>4. ReceiverGoesOn(x) /\ eof'[x] = eof[x]
      BY <1>a, <1>12
      DEF JoinAbort, Aborter, AborterTo, SenderTo, ReceiverTo, chanVars, appVars,
          ReceiverGoesOn
    <2> QED
      BY <2>1, <2>2, <2>3, <2>4, LocalStep, Zenon DEF y
  <1>13. CASE SenderWrites(x)
    <2>1. Elsewhere(y)
      BY <1>0, <1>a, <1>13, SMTT(30)
      DEF SenderWrites, SenderTo, Send, appVars, Elsewhere, SenderSame, ReceiverSame
    <2>2. /\ app'[x] = app[x] /\ sent'[x] = sent[x] /\ taken'[x] = taken[x]
          /\ ReceiverSame(x)
      BY <1>13, Zenon DEF SenderWrites, appVars, ReceiverSame
    <2>3. ReceiverGoesOn(x) /\ eof'[x] = eof[x]
      BY <2>2, Zenon DEF ReceiverGoesOn, ReceiverSame
    <2>4. CASE SenderTo(x, "abort") /\ UNCHANGED path
      <3>1. SenderGoesOn(x) /\ PathQuiet(x)
        BY <1>a, <1>13, <2>2, <2>4, ZenonT(40) DEF SenderWrites, SenderTo, SenderGoesOn, PathQuiet
      <3> QED
        BY <2>1, <2>3, <3>1, LocalStep, ZenonT(40) DEF y
    <2>5. CASE Send(x, "data") /\ SenderTo(x, "read")
      <3>1. /\ path'[x] = Append(path[x], "data") /\ sender[x] = "credit"
            /\ sender'[x] = "read"
        BY <1>a, <1>13, <2>5, SMTT(30) DEF SenderWrites, SenderTo, Send
      <3>2. Direction(x)'
        BY <2>1, <2>2, <3>1, DirectionData, ZenonT(40) DEF y, Elsewhere
      <3> QED
        BY <2>1, <2>3, <3>2, FarSide, ZenonT(40) DEF y
    <2> QED
      BY <1>13, <2>4, <2>5, ZenonT(40) DEF SenderWrites
  <1>14. CASE SenderEnds(x)
    <2>1. Elsewhere(y)
      BY <1>0, <1>a, <1>14, Zenon
      DEF SenderEnds, SenderTo, Send, appVars, Elsewhere, SenderSame, ReceiverSame
    <2>2. /\ app'[x] = app[x] /\ sent'[x] = sent[x] /\ taken'[x] = taken[x]
          /\ ReceiverSame(x)
      BY <1>14, ZenonT(40) DEF SenderEnds, appVars, ReceiverSame
    <2>3. ReceiverGoesOn(x) /\ eof'[x] = eof[x]
      BY <2>2, Zenon DEF ReceiverGoesOn, ReceiverSame
    <2>4. CASE SenderTo(x, "abort") /\ UNCHANGED path
      <3>1. SenderGoesOn(x) /\ PathQuiet(x)
        BY <1>a, <1>14, <2>2, <2>4, ZenonT(40) DEF SenderEnds, SenderTo, SenderGoesOn, PathQuiet
      <3> QED
        BY <2>1, <2>3, <3>1, LocalStep, Zenon DEF y
    <2>5. CASE Send(x, "fin") /\ SenderTo(x, "done")
      <3>1. /\ path'[x] = Append(path[x], "fin") /\ sender[x] = "fin"
            /\ sender'[x] = "done"
        BY <1>a, <1>14, <2>5, SMTT(30) DEF SenderEnds, SenderTo, Send
      <3>2. Direction(x)'
        BY <2>1, <2>2, <3>1, DirectionFin, ZenonT(40) DEF y, Elsewhere
      <3> QED
        BY <2>1, <2>3, <3>2, FarSide, Zenon DEF y
    <2> QED
      BY <1>14, <2>4, <2>5, ZenonT(40) DEF SenderEnds
  <1>15. CASE ReadLoop(x)
    <2>0. UNCHANGED <<sender, receiver, once, app, sent, taken, delivered>>
      BY <1>15, Zenon DEF ReadLoop, appVars
    <2>1. ReceiverSame(y) /\ path'[x] = path[x] /\ SenderSame(y) /\ SenderSame(x)
      <3>1. /\ inbox'[y] = inbox[y] /\ eof'[y] = eof[y] /\ chan'[y] = chan[y]
            /\ path'[x] = path[x]
        BY <1>0, <1>a, <1>15, Zenon DEF ReadLoop, y
      <3> QED
        BY <2>0, <3>1, ZenonT(40) DEF ReceiverSame, SenderSame
    <2>2. Direction(x)'
      <3>1. SenderGoesOn(x) /\ PathQuiet(x)
        BY <2>1, Zenon DEF SenderGoesOn, PathQuiet, SenderSame
      <3> QED
        BY <2>1, <3>1, DirectionSender, ZenonT(40) DEF y
    <2>3. PICK m : m = Head(path[y])
      BY SMTT(30)
    <2>4. /\ path[y] # <<>> /\ path'[y] = Tail(path[y])
          /\ eof'[x] = (eof[x] \/ (chan[x] = "open" /\ m = "fin"))
          /\ chan'[x] = (IF m = "close" THEN "closed" ELSE chan[x])
          /\ chan[x] = "open" => inbox'[x] = IF m = "data" THEN inbox[x] + 1
                                              ELSE IF m = "close" THEN 0 ELSE inbox[x]
      BY <1>0, <1>a, <1>15, <2>3, Zenon DEF ReadLoop, y
    <2>5. /\ receiver'[x] = receiver[x] /\ once'[x] = once[x] /\ delivered'[x] = delivered[x]
          /\ x = Far(y) /\ Direction(y)
      BY <1>0, <2>0, BothEnds, SMTT(30) DEF y
    <2>6. Direction(y)'
      <3>1. y \in Relays /\ SenderSame(y) /\ RelayTyped
        BY <1>0, <2>1, Zenon
      <3> HIDE DEF y
      <3> QED
        BY <2>3, <2>4, <2>5, <3>1, DirectionRead, SMTT(30)
    <2> QED
      BY <2>2, <2>6, BothEnds, ZenonT(40) DEF y
  <1> QED
    BY <1>1, <1>2, <1>3, <1>4, <1>5, <1>6, <1>7, <1>8, <1>9, <1>10, <1>11, <1>12, <1>13, <1>14,
       <1>15, Zenon, ZenonT(40)
    DEF Sending, Receiving, Aborting, Relaying

\* What direction e is about is left alone.
LEMMA RelayStutter ==
    ASSUME RelayInv, UNCHANGED rpVars
    PROVE  RelayInv'
  <1>1. UNCHANGED <<chan, path, inbox, eof, sender, receiver, once, app, sent, taken, delivered>>
    BY Zenon DEF rpVars
  <1>2. RelayTyped'
    BY <1>1 DEF RelayInv, RelayTyped
  <1>3. ASSUME NEW e \in Relays PROVE Direction(e)'
    <2>1. Direction(e) /\ FinSent(e)' = FinSent(e)
      BY <1>1, Zenon DEF RelayInv, FinSent
    <2>2. EndIsFinal(e)' /\ Complete(e)'
      BY <1>1, <2>1, Zenon DEF Direction, EndIsFinal, Complete
    <2>3. FinIsLast(e)'
      BY <1>1, <2>1, Zenon DEF Direction, FinIsLast
    <2>4. Balanced(e)'
      BY <1>1, <2>1, Zenon DEF Direction, Balanced
    <2> QED
      BY <2>2, <2>3, <2>4, Zenon DEF Direction
  <1> QED
    BY <1>2, <1>3, Zenon DEF RelayInv

\* The start.
LEMMA RelayStarts == RpInit => RelayInv
  <1> SUFFICES ASSUME RpInit PROVE RelayInv
    BY Zenon
  <1>1. RelayTyped
    BY DEF RpInit, Each, RelayTyped, SenderPlace, ReceiverPlace
  <1>2. ASSUME NEW e \in Relays PROVE Direction(e)
    <2>1. /\ Far(e) \in Relays /\ path[e] = <<>> /\ sender[e] = "read" /\ taken[e] = 0
          /\ eof[Far(e)] = FALSE /\ inbox[Far(e)] = 0 /\ delivered[Far(e)] = 0
          /\ receiver[Far(e)] = "read"
      BY BothEnds, Zenon DEF RpInit, Each
    <2>2. Weight(path[e], DataWeight) = 0
      <3>1. path[e] \in Seq(Msg) /\ \A i \in 1..Len(path[e]) : path[e][i] # "data"
        BY <2>1
      <3> QED
        BY <3>1, DataCount, Zenon
    <2>3. ~FinSent(e)
      BY <2>1 DEF FinSent
    <2>4. FinIsLast(e)
      BY <2>1 DEF FinIsLast
    <2>5. Balanced(e)
      BY <2>1, <2>2 DEF Balanced, InHand
    <2> QED
      BY <2>1, <2>3, <2>4, <2>5, Zenon DEF Direction, EndIsFinal, Complete
  <1> QED
    BY <1>1, <1>2, Zenon DEF RelayInv

\* An application whose relay ends without an abort has received all that the other
\* one sent before it ended, for any window and any number of chunks, wherever
\* either application resets or stops reading (half-close of both relays).
THEOREM CleanEnds == RpSpec => []CleanEndIsComplete
  <1>1. RelayInv /\ [RpNext]_rpVars => RelayInv'
    <2>1. ASSUME RelayInv, NEW x \in Relays,
                 \/ AppSends(x) \/ AppEnds(x) \/ AppResets(x) \/ AppStalls(x)
                 \/ Sending(x) \/ Receiving(x) \/ Aborting(x) \/ Relaying(x)
          PROVE  RelayInv'
      <3>1. RelayTyped /\ \A e \in Relays : Direction(e)
        BY <2>1, Zenon DEF RelayInv
      <3>2. RelayTyped'
        BY <2>1, <3>1, RelayTypes, Zenon
      <3>3. \A e \in Relays : Direction(e)'
        BY <2>1, <3>1, <3>2, DirectionSteps, Zenon
      <3> QED
        BY <3>2, <3>3, Zenon DEF RelayInv
    <2> QED
      BY <2>1, RelayStutter, Zenon DEF RpNext
  <1>2. RelayInv => CleanEndIsComplete
    <2> SUFFICES ASSUME RelayInv, NEW e \in Relays, receiver[e] = "done", once[e] = "free"
                 PROVE  delivered[e] = sent[Far(e)] /\ app[Far(e)] # "talks"
      BY Zenon DEF CleanEndIsComplete
    <2>1. Far(e) \in Relays /\ Far(Far(e)) = e
      BY BothEnds, Zenon
    <2> QED
      BY <2>1, Zenon DEF RelayInv, Direction, Complete
  <1> QED
    BY <1>1, <1>2, RelayStarts, PTL DEF RpSpec
=============================================================================
