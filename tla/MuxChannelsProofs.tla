------------------------- MODULE MuxChannelsProofs -------------------------
(***************************************************************************)
(* Proofs about MuxChannels and its receive-window budget, for every finite *)
(* set of muxes, every number of channels, every limit and window sizes.    *)
(***************************************************************************)
EXTENDS MuxChannels, DataTheorems

-----------------------------------------------------------------------------
(* The windows double from one index to the next. *)

\* The recursive definition of Window has a solution.
LEMMA WindowDefined ==
    Window = [i \in 0..MaxIndex |-> IF i = 0 THEN MinWindow ELSE 2 * Window[i - 1]]
  <1> DEFINE Doubles(n, g) ==
               g = [i \in 0..n |-> IF i = 0 THEN MinWindow ELSE 2 * g[i - 1]]
             Bad == {n \in Nat : ~\E g : Doubles(n, g)}
  <1>1. Bad = {}
    <2>1. SUFFICES ASSUME Bad # {} PROVE FALSE
      BY Zenon
    <2>2. PICK n \in Bad : \A k \in Bad : n <= k
      <3>1. Bad \subseteq Nat
        BY Zenon
      <3> HIDE DEF Bad
      <3> QED
        BY <2>1, <3>1, SmallestNat, Zenon
    <2>3. CASE n = 0
      <3>1. Doubles(0, [i \in 0..0 |-> MinWindow])
        OBVIOUS
      <3> QED
        BY <2>3, <3>1, Zenon
    <2>4. CASE n # 0
      <3>1. PICK g : Doubles(n - 1, g)
        <4>1. n - 1 \in Nat /\ n - 1 \notin Bad
          BY <2>2, <2>4, SMTT(30)
        <4> QED
          BY <4>1, Zenon
      <3> DEFINE h == [i \in 0..n |-> IF i < n THEN g[i] ELSE 2 * g[n - 1]]
      <3>2. \A i \in 0..n : h[i] = IF i = 0 THEN MinWindow ELSE 2 * h[i - 1]
        BY <2>4, <3>1
      <3>3. h = [i \in 0..n |-> h[i]]
        BY Zenon
      <3> HIDE DEF h
      <3>4. Doubles(n, h)
        BY <3>2, <3>3, Zenon
      <3> QED
        BY <3>4, Zenon
    <2> QED
      BY <2>3, <2>4, Zenon
  <1>2. \E g : Doubles(MaxIndex, g)
    BY <1>1, MuxAssumption, Zenon
  <1> QED
    BY <1>2, Zenon DEF Window

\* Windows are positive and grow with the index.
LEMMA WindowSteps ==
    ASSUME NEW i \in 0..MaxIndex
    PROVE  /\ Window[i] \in Nat
           /\ i < MaxIndex => i + 1 \in 0..MaxIndex /\ Window[i + 1] >= Window[i]
           /\ i > 0 => /\ i - 1 \in 0..MaxIndex /\ Window[i - 1] \in Nat
                       /\ Window[i - 1] <= Window[i]
           /\ Window[i] <= Window[MaxIndex] /\ Window[MaxIndex] \in Nat
  <1>1. MaxIndex \in Nat /\ MinWindow \in Nat
    BY MuxAssumption, Zenon
  <1>2. \A j \in 0..MaxIndex :
          Window[j] = IF j = 0 THEN MinWindow ELSE 2 * Window[j - 1]
    BY WindowDefined, Zenon
  <1>3. \A j \in 0..MaxIndex : Window[j] \in Nat
    <2> DEFINE Bad == {j \in 0..MaxIndex : Window[j] \notin Nat}
    <2>1. SUFFICES ASSUME Bad # {} PROVE FALSE
      BY Zenon
    <2>2. PICK j \in Bad : \A k \in Bad : j <= k
      <3>1. Bad \subseteq Nat
        OBVIOUS
      <3> HIDE DEF Bad
      <3> QED
        BY <2>1, <3>1, SmallestNat, Zenon
    <2>3. j # 0
      BY <1>1, <1>2, Zenon
    <2>4. j - 1 \in 0..MaxIndex /\ j - 1 \notin Bad
      BY <1>1, <2>2, <2>3
    <2> QED
      BY <1>2, <2>3, <2>4
  <1>4. \A j \in 0..MaxIndex : j > 0 => Window[j - 1] <= Window[j]
    BY <1>1, <1>2, <1>3
  <1>5. Window[i] <= Window[MaxIndex]
    <2> DEFINE Bad == {k \in Nat : k <= MaxIndex /\ Window[MaxIndex - k] > Window[MaxIndex]}
    <2> SUFFICES ASSUME Window[i] > Window[MaxIndex] PROVE FALSE
      BY <1>1, <1>3
    <2>1. MaxIndex - i \in Bad
      <3>1. MaxIndex - (MaxIndex - i) = i /\ MaxIndex - i \in Nat /\ MaxIndex - i <= MaxIndex
        BY <1>1
      <3> QED
        BY <3>1, Zenon
    <2>2. PICK k \in Bad : \A l \in Bad : k <= l
      <3>1. Bad \subseteq Nat
        BY Zenon
      <3> HIDE DEF Bad
      <3> QED
        BY <2>1, <3>1, SmallestNat, Zenon
    <2>3. k # 0
      BY <1>1, <1>3
    <2>4. k - 1 \in Nat /\ k - 1 \notin Bad
      BY <1>1, <2>2, <2>3
    <2>5. Window[MaxIndex - (k - 1)] <= Window[MaxIndex]
      BY <1>1, <1>3, <2>4
    <2>6. MaxIndex - (k - 1) \in 0..MaxIndex /\ (MaxIndex - (k - 1)) - 1 = MaxIndex - k
      BY <1>1, <2>3
    <2>7. Window[MaxIndex - k] <= Window[MaxIndex - (k - 1)]
      BY <1>1, <1>4, <2>3, <2>6
    <2> QED
      BY <1>1, <1>3, <2>5, <2>6, <2>7
  <1> QED
    BY <1>1, <1>3, <1>4, <1>5

\* The window a channel enforces is a natural, no larger than the largest; a
\* read that repays debt does not raise it, shrinking keeps it.
LEMMA AllowedSteps ==
    ASSUME NEW i \in 0..MaxIndex, NEW d \in Nat
    PROVE  /\ AllowedWindow(i, d) \in Nat
           /\ \A n \in 1..d : AllowedWindow(i, d - n) <= AllowedWindow(i, d)
           /\ i < MaxIndex => AllowedWindow(i + 1, d) \in Nat
           /\ i > 0 => AllowedWindow(i - 1, d + Window[i] - Window[i - 1])
                         = AllowedWindow(i, d)
  BY WindowSteps DEF AllowedWindow

\* A new channel is allowed its free base window.
LEMMA InitialAllowed == AllowedWindow(InitialIndex, 0) = InitialWindow
  <1>1. InitialIndex \in 0..MaxIndex
    BY MuxAssumption, Zenon
  <1> QED
    BY <1>1, WindowSteps, WindowAssumption DEF AllowedWindow

-----------------------------------------------------------------------------
(* The operations of the budget keep it exact. *)

IsMap(f) == f = [x \in DOMAIN f |-> f[x]]

\* An entry of a mux: its excess is the sum over its channels.
EntryOK(e) ==
    /\ e = [channels |-> e.channels, excess |-> e.excess]
    /\ IsMap(e.channels) /\ DOMAIN e.channels \subseteq IDs
    /\ \A c \in DOMAIN e.channels : e.channels[c] \in Nat
    /\ e.excess = SumFunction(Excesses(e.channels))

\* A budget: what it uses is the sum over its muxes, within the limit.
BudgetOK(b) ==
    /\ b = [used |-> b.used, muxes |-> b.muxes]
    /\ IsMap(b.muxes) /\ DOMAIN b.muxes \subseteq Muxes
    /\ \A m \in DOMAIN b.muxes : EntryOK(b.muxes[m])
    /\ b.used = SumFunction([m \in DOMAIN b.muxes |-> b.muxes[m].excess])
    /\ b.used <= Limit

\* Channel numbers are finitely many.
LEMMA IDsFinite == IsFiniteSet(IDs)
  BY MuxAssumption, FS_Interval DEF IDs

\* The excess of a mux covers that of each of its channels...
LEMMA EntryFacts ==
    ASSUME NEW e, EntryOK(e)
    PROVE  /\ IsFiniteSet(DOMAIN e.channels) /\ e.excess \in Nat
           /\ DOMAIN Excesses(e.channels) = DOMAIN e.channels
           /\ \A c \in DOMAIN e.channels :
                 /\ Excesses(e.channels)[c] = ReceiveWindowExcess(e.channels[c])
                 /\ ReceiveWindowExcess(e.channels[c]) \in Nat
                 /\ ReceiveWindowExcess(e.channels[c]) <= e.excess
  <1>1. IsFiniteSet(DOMAIN e.channels)
    BY IDsFinite, FS_Subset, Zenon DEF EntryOK
  <1>2. /\ DOMAIN Excesses(e.channels) = DOMAIN e.channels
        /\ \A c \in DOMAIN e.channels :
              /\ Excesses(e.channels)[c] = ReceiveWindowExcess(e.channels[c])
              /\ ReceiveWindowExcess(e.channels[c]) \in Nat
    BY BudgetAssumption DEF EntryOK, Excesses, ReceiveWindowExcess
  <1> QED
    BY <1>1, <1>2, SumOfMap DEF EntryOK

\* ... and the whole use that of each mux.
LEMMA BudgetFacts ==
    ASSUME NEW b, BudgetOK(b)
    PROVE  /\ IsFiniteSet(DOMAIN b.muxes) /\ b.used \in Nat
           /\ \A m \in DOMAIN b.muxes : /\ EntryOK(b.muxes[m])
                                        /\ b.muxes[m].excess \in Nat
                                        /\ b.muxes[m].excess <= b.used
  <1> DEFINE f == [m \in DOMAIN b.muxes |-> b.muxes[m].excess]
  <1>1. IsFiniteSet(DOMAIN b.muxes)
    BY MuxAssumption, FS_Subset, Zenon DEF BudgetOK
  <1>2. \A m \in DOMAIN f : EntryOK(b.muxes[m]) /\ f[m] = b.muxes[m].excess /\ f[m] \in Nat
    BY EntryFacts, Zenon DEF BudgetOK
  <1>3. DOMAIN f = DOMAIN b.muxes /\ b.used = SumFunction(f)
    BY Zenon DEF BudgetOK
  <1> HIDE DEF f
  <1> QED
    BY <1>1, <1>2, <1>3, SumOfMap

\* A new budget is consistent.
LEMMA NewBudget == BudgetOK(NewReceiveWindowBudget)
  <1> DEFINE b == NewReceiveWindowBudget
             f == [m \in DOMAIN b.muxes |-> b.muxes[m].excess]
  <1>1. b.used = 0 /\ DOMAIN b.muxes = {} /\ b = [used |-> b.used, muxes |-> b.muxes]
    BY Zenon DEF NewReceiveWindowBudget, NoEntries
  <1>2. SumFunction(f) = 0
    <2>1. DOMAIN f = {} /\ IsFiniteSet({})
      BY <1>1, FS_EmptySet, Zenon
    <2> HIDE DEF f
    <2> QED
      BY <2>1, SumOfMap
  <1>3. IsMap(b.muxes)
    BY Zenon DEF IsMap, NewReceiveWindowBudget, NoEntries
  <1> QED
    BY <1>1, <1>2, <1>3, BudgetAssumption DEF BudgetOK

\* Putting an entry for a mux keeps the budget exact, if its use follows.
LEMMA PutEntry ==
    ASSUME NEW b, BudgetOK(b), NEW m \in Muxes, NEW e, EntryOK(e),
           NEW g, IsMap(g), DOMAIN g = DOMAIN b.muxes \cup {m}, g[m] = e,
           \A k \in DOMAIN b.muxes \ {m} : g[k] = b.muxes[k],
           NEW u, u <= Limit,
           u = b.used + e.excess - (IF m \in DOMAIN b.muxes THEN b.muxes[m].excess ELSE 0)
    PROVE  BudgetOK([used |-> u, muxes |-> g])
  <1> DEFINE old == [k \in DOMAIN b.muxes |-> b.muxes[k].excess]
             new == [k \in DOMAIN g |-> g[k].excess]
  <1>1. /\ IsFiniteSet(DOMAIN b.muxes) /\ b.used \in Nat /\ e.excess \in Nat
        /\ \A k \in DOMAIN b.muxes : /\ EntryOK(b.muxes[k])
                                     /\ b.muxes[k].excess \in Nat
    BY BudgetFacts, EntryFacts, Zenon
  <1>2. /\ DOMAIN old = DOMAIN b.muxes /\ DOMAIN new = DOMAIN b.muxes \cup {m}
        /\ \A k \in DOMAIN b.muxes : old[k] = b.muxes[k].excess /\ old[k] \in Int
        /\ \A k \in DOMAIN b.muxes \ {m} : new[k] = old[k]
        /\ new[m] = e.excess /\ new[m] \in Int
    BY <1>1
  <1>3. b.used = SumFunction(old)
    BY Zenon DEF BudgetOK
  <1> HIDE DEF old, new
  <1>4. u = SumFunction(new)
    <2>1. CASE m \in DOMAIN b.muxes
      <3>1. DOMAIN new = DOMAIN old
        BY <1>2, <2>1
      <3>2. SumFunction(new) = SumFunction(old) + new[m] - old[m]
        BY <1>1, <1>2, <2>1, <3>1, SumNewValue
      <3> QED
        BY <1>1, <1>2, <1>3, <2>1, <3>2, Zenon
    <2>2. CASE m \notin DOMAIN b.muxes
      <3>1. SumFunction(new) = SumFunction(old) + new[m]
        BY <1>1, <1>2, <2>2, SumWithEntry
      <3> QED
        BY <1>1, <1>2, <1>3, <2>2, <3>1, SMTT(30)
    <2> QED
      BY <2>1, <2>2
  <1>5. \A k \in DOMAIN g : EntryOK(g[k])
    BY <1>1, Zenon
  <1>6. DOMAIN g \subseteq Muxes
    BY Zenon DEF BudgetOK
  <1> QED
    BY <1>4, <1>5, <1>6, Zenon DEF BudgetOK, new

\* So does dropping the entry of a mux.
LEMMA DropEntry ==
    ASSUME NEW b, BudgetOK(b), NEW m \in DOMAIN b.muxes
    PROVE  BudgetOK([used |-> b.used - b.muxes[m].excess, muxes |-> Without(b.muxes, m)])
  <1> DEFINE old == [k \in DOMAIN b.muxes |-> b.muxes[k].excess]
             g == Without(b.muxes, m)
             new == [k \in DOMAIN g |-> g[k].excess]
  <1>1. /\ IsFiniteSet(DOMAIN b.muxes) /\ b.used \in Nat
        /\ \A k \in DOMAIN b.muxes : /\ EntryOK(b.muxes[k])
                                     /\ b.muxes[k].excess \in Nat
    BY BudgetFacts, Zenon
  <1>2. /\ DOMAIN g = DOMAIN b.muxes \ {m} /\ IsMap(g)
        /\ \A k \in DOMAIN g : g[k] = b.muxes[k]
    BY Zenon DEF Without, IsMap
  <1> HIDE DEF g
  <1>3. /\ DOMAIN old = DOMAIN b.muxes /\ DOMAIN new = DOMAIN old \ {m}
        /\ \A k \in DOMAIN old : old[k] = b.muxes[k].excess /\ old[k] \in Int
        /\ \A k \in DOMAIN new : new[k] = old[k]
    BY <1>1, <1>2
  <1>4. b.used = SumFunction(old)
    BY Zenon DEF BudgetOK
  <1> HIDE DEF old, new
  <1>5. SumFunction(new) = SumFunction(old) - old[m]
    BY <1>1, <1>3, SumWithoutEntry, Zenon
  <1>6. b.used - b.muxes[m].excess = SumFunction(new) /\ b.used - b.muxes[m].excess <= Limit
    BY <1>1, <1>3, <1>4, <1>5, BudgetAssumption DEF BudgetOK
  <1>7. DOMAIN g \subseteq Muxes /\ \A k \in DOMAIN g : EntryOK(g[k])
    BY <1>1, <1>2, Zenon DEF BudgetOK
  <1> QED
    BY <1>2, <1>6, <1>7, Zenon DEF BudgetOK, new, g

\* An entry whose channel c is registered, resized or removed.
LEMMA EntryRegister ==
    ASSUME NEW e, EntryOK(e), NEW c \in IDs, c \notin DOMAIN e.channels
    PROVE  EntryOK([channels |-> With(e.channels, c, InitialWindow), excess |-> e.excess])
  <1> DEFINE h == With(e.channels, c, InitialWindow)
             old == Excesses(e.channels)
             new == Excesses(h)
  <1>1. /\ IsFiniteSet(DOMAIN e.channels) /\ e.excess \in Nat
        /\ DOMAIN old = DOMAIN e.channels
        /\ \A k \in DOMAIN e.channels : old[k] = ReceiveWindowExcess(e.channels[k])
                                        /\ old[k] \in Int
    BY EntryFacts
  <1>2. /\ DOMAIN h = DOMAIN e.channels \cup {c} /\ IsMap(h) /\ h[c] = InitialWindow
        /\ \A k \in DOMAIN e.channels : h[k] = e.channels[k]
    BY Zenon DEF With, IsMap
  <1> HIDE DEF h
  <1>3. /\ DOMAIN new = DOMAIN old \cup {c} /\ new[c] = 0
        /\ \A k \in DOMAIN old : new[k] = old[k]
    <2>1. DOMAIN new = DOMAIN h /\ \A k \in DOMAIN h : new[k] = ReceiveWindowExcess(h[k])
      BY Zenon DEF Excesses
    <2>2. ReceiveWindowExcess(InitialWindow) = 0
      BY BudgetAssumption DEF ReceiveWindowExcess
    <2> HIDE DEF old, new
    <2> QED
      BY <1>1, <1>2, <2>1, <2>2, Zenon
  <1> HIDE DEF old, new
  <1>4. SumFunction(new) = SumFunction(old) + new[c]
    BY <1>1, <1>3, SumWithEntry
  <1>5. e.excess = SumFunction(new)
    BY <1>1, <1>3, <1>4 DEF EntryOK, old
  <1>6. DOMAIN h \subseteq IDs /\ \A k \in DOMAIN h : h[k] \in Nat
    BY <1>2, BudgetAssumption, Zenon DEF EntryOK
  <1> QED
    BY <1>2, <1>5, <1>6, Zenon DEF EntryOK, h, new

\* The record of a mux when the charge of one channel changes.
LEMMA EntryResize ==
    ASSUME NEW e, EntryOK(e), NEW c \in DOMAIN e.channels, NEW a \in Nat
    PROVE  EntryOK([channels |-> [e.channels EXCEPT ![c] = a],
                    excess   |-> e.excess + (ReceiveWindowExcess(a)
                                             - ReceiveWindowExcess(e.channels[c]))])
  <1> DEFINE h == [e.channels EXCEPT ![c] = a]
             old == Excesses(e.channels)
             new == Excesses(h)
  <1>1. /\ IsFiniteSet(DOMAIN e.channels) /\ e.excess \in Nat
        /\ DOMAIN old = DOMAIN e.channels
        /\ \A k \in DOMAIN e.channels : old[k] = ReceiveWindowExcess(e.channels[k])
                                        /\ old[k] \in Int
    BY EntryFacts
  <1>2. /\ DOMAIN h = DOMAIN e.channels /\ IsMap(h) /\ h[c] = a
        /\ \A k \in DOMAIN e.channels \ {c} : h[k] = e.channels[k]
    BY Zenon DEF IsMap
  <1> HIDE DEF h
  <1>3. /\ DOMAIN new = DOMAIN old
        /\ new[c] = ReceiveWindowExcess(a) /\ ReceiveWindowExcess(a) \in Int
        /\ \A k \in DOMAIN old \ {c} : new[k] = old[k]
    <2>1. DOMAIN new = DOMAIN h /\ \A k \in DOMAIN h : new[k] = ReceiveWindowExcess(h[k])
      BY Zenon DEF Excesses
    <2>2. ReceiveWindowExcess(a) \in Int
      BY BudgetAssumption DEF ReceiveWindowExcess
    <2> HIDE DEF old, new
    <2> QED
      BY <1>1, <1>2, <2>1, <2>2, Zenon
  <1> HIDE DEF old, new
  <1>4. SumFunction(new) = SumFunction(old) + new[c] - old[c]
    BY <1>1, <1>3, SumNewValue, Zenon
  <1>5. e.excess + (ReceiveWindowExcess(a) - ReceiveWindowExcess(e.channels[c]))
          = SumFunction(new)
    <2>1. e.excess = SumFunction(old)
      BY Zenon DEF EntryOK, old
    <2> QED
      BY <1>1, <1>3, <1>4, <2>1
  <1>6. DOMAIN h \subseteq IDs /\ \A k \in DOMAIN h : h[k] \in Nat
    BY <1>2 DEF EntryOK
  <1> QED
    BY <1>2, <1>5, <1>6, Zenon DEF EntryOK, h, new

\* The record of a mux when a channel is removed.
LEMMA EntryRemove ==
    ASSUME NEW e, EntryOK(e), NEW c \in DOMAIN e.channels
    PROVE  EntryOK([channels |-> Without(e.channels, c),
                    excess   |-> e.excess - ReceiveWindowExcess(e.channels[c])])
  <1> DEFINE h == Without(e.channels, c)
             old == Excesses(e.channels)
             new == Excesses(h)
  <1>1. /\ IsFiniteSet(DOMAIN e.channels) /\ e.excess \in Nat
        /\ DOMAIN old = DOMAIN e.channels
        /\ \A k \in DOMAIN e.channels : old[k] = ReceiveWindowExcess(e.channels[k])
                                        /\ old[k] \in Int
    BY EntryFacts
  <1>2. /\ DOMAIN h = DOMAIN e.channels \ {c} /\ IsMap(h)
        /\ \A k \in DOMAIN h : h[k] = e.channels[k]
    BY Zenon DEF Without, IsMap
  <1> HIDE DEF h
  <1>3. /\ DOMAIN new = DOMAIN old \ {c}
        /\ \A k \in DOMAIN new : new[k] = old[k]
    BY <1>1, <1>2, Zenon DEF Excesses
  <1> HIDE DEF old, new
  <1>4. SumFunction(new) = SumFunction(old) - old[c]
    BY <1>1, <1>3, SumWithoutEntry, Zenon
  <1>5. e.excess - ReceiveWindowExcess(e.channels[c]) = SumFunction(new)
    BY <1>1, <1>4, Zenon DEF EntryOK, old
  <1>6. DOMAIN h \subseteq IDs /\ \A k \in DOMAIN h : h[k] \in Nat
    BY <1>2 DEF EntryOK
  <1> QED
    BY <1>2, <1>5, <1>6, Zenon DEF EntryOK, h, new

\* What an operation leaves alone: the charge of every other channel.
OthersKept(b, b2, m, c) ==
    \A k, d : ~(k = m /\ d = c) =>
        /\ Registered(b2, k, d) <=> Registered(b, k, d)
        /\ Registered(b, k, d) => b2.muxes[k].channels[d] = b.muxes[k].channels[d]

\* RegisterChannel adds a channel with the free base window.
LEMMA RegisterEffect ==
    ASSUME NEW b, BudgetOK(b), NEW m \in Muxes, NEW c \in IDs, ~Registered(b, m, c)
    PROVE  LET b2 == RegisterChannel(b, m, c)
           IN  /\ BudgetOK(b2) /\ DOMAIN b2.muxes = DOMAIN b.muxes \cup {m}
               /\ Registered(b2, m, c) /\ b2.muxes[m].channels[c] = InitialWindow
               /\ OthersKept(b, b2, m, c)
  <1> DEFINE old == IF m \in DOMAIN b.muxes THEN b.muxes[m]
                                            ELSE [channels |-> NoEntries, excess |-> 0]
             e == [channels |-> With(old.channels, c, InitialWindow), excess |-> old.excess]
             g == With(b.muxes, m, e)
             b2 == [used |-> b.used, muxes |-> g]
  <1>1. EntryOK(old) /\ c \notin DOMAIN old.channels
    <2>1. CASE m \in DOMAIN b.muxes
      BY <2>1, BudgetFacts, Zenon DEF Registered
    <2>2. CASE m \notin DOMAIN b.muxes
      <3> DEFINE n == [channels |-> NoEntries, excess |-> 0]
      <3>1. /\ n = [channels |-> n.channels, excess |-> n.excess] /\ n.excess = 0
            /\ n.channels = NoEntries
        BY Zenon
      <3>2. IsMap(NoEntries) /\ DOMAIN NoEntries = {}
        BY Zenon DEF IsMap, NoEntries
      <3>3. SumFunction(Excesses(NoEntries)) = 0
        <4>1. DOMAIN Excesses(NoEntries) = {} /\ IsFiniteSet({})
          BY <3>2, FS_EmptySet DEF Excesses
        <4> QED
          BY <4>1, SumOfMap, Zenon
      <3>4. EntryOK(n) /\ c \notin DOMAIN n.channels
        <4> HIDE DEF n
        <4> QED
          BY <3>1, <3>2, <3>3, Zenon DEF EntryOK
      <3> QED
        BY <2>2, <3>4, Zenon
    <2> QED
      BY <2>1, <2>2
  <1>2. old = [channels |-> old.channels, excess |-> old.excess]
    BY <1>1, Zenon DEF EntryOK
  <1>3. RegisterChannel(b, m, c) = b2
    <2>1. b = [used |-> b.used, muxes |-> b.muxes]
      BY Zenon DEF BudgetOK
    <2>2. [old EXCEPT !.channels = With(@, c, InitialWindow)] = e
      <3> HIDE DEF old
      <3> QED
        BY <1>2
    <2>3. [b EXCEPT !.muxes = With(@, m, e)] = b2
      <3> HIDE DEF e
      <3> QED
        BY <2>1
    <2> QED
      BY <2>2, <2>3, Zenon DEF RegisterChannel
  <1> HIDE DEF old
  <1>4. EntryOK(e)
    BY <1>1, EntryRegister, Zenon
  <1>5. /\ DOMAIN e.channels = DOMAIN old.channels \cup {c}
        /\ e.channels[c] = InitialWindow /\ e.excess = old.excess
        /\ \A d \in DOMAIN old.channels : d # c => e.channels[d] = old.channels[d]
    BY Zenon DEF With
  <1> HIDE DEF e
  <1>6. /\ IsMap(g) /\ DOMAIN g = DOMAIN b.muxes \cup {m} /\ g[m] = e
        /\ \A k \in DOMAIN b.muxes \ {m} : g[k] = b.muxes[k]
    BY Zenon DEF With, IsMap
  <1> HIDE DEF g
  <1>7. b.used = b.used + e.excess - (IF m \in DOMAIN b.muxes THEN b.muxes[m].excess ELSE 0)
    BY <1>5, BudgetFacts DEF old
  <1>8. BudgetOK(b2)
    <2>1. b.used <= Limit
      BY Zenon DEF BudgetOK
    <2> QED
      BY <1>4, <1>6, <1>7, <2>1, PutEntry, Zenon
  <1>9. b2.muxes = g
    BY Zenon
  <1> HIDE DEF b2
  <1>10. DOMAIN b2.muxes = DOMAIN b.muxes \cup {m} /\ b2.muxes[m].channels[c] = InitialWindow
         /\ Registered(b2, m, c)
    BY <1>5, <1>6, <1>9, Zenon DEF Registered
  <1>11. OthersKept(b, b2, m, c)
    <2>1. \A d : d # c => /\ Registered(b, m, d) <=> d \in DOMAIN old.channels
                          /\ Registered(b, m, d) => old.channels[d] = b.muxes[m].channels[d]
      <3>1. m \notin DOMAIN b.muxes => old.channels = NoEntries /\ DOMAIN NoEntries = {}
        BY Zenon DEF old, NoEntries
      <3>2. m \in DOMAIN b.muxes => old = b.muxes[m]
        BY Zenon DEF old
      <3> QED
        BY <3>1, <3>2, Zenon DEF Registered
    <2> QED
      BY <1>5, <1>6, <1>9, <2>1 DEF OthersKept, Registered
  <1> QED
    BY <1>3, <1>8, <1>10, <1>11, Zenon

\* TryResizeChannel replaces a charge, or changes nothing.
LEMMA ResizeEffect ==
    ASSUME NEW b, BudgetOK(b), NEW m \in Muxes, NEW c \in IDs, NEW a \in Nat
    PROVE  LET b2 == TryResizeChannel(b, m, c, a)
           IN  /\ BudgetOK(b2) /\ DOMAIN b2.muxes = DOMAIN b.muxes
               /\ Registered(b2, m, c) <=> Registered(b, m, c)
               /\ CanResize(b, m, c, a) => b2.muxes[m].channels[c] = a
               /\ ~CanResize(b, m, c, a) => b2 = b
               /\ OthersKept(b, b2, m, c)
  <1>1. CASE ~CanResize(b, m, c, a)
    <2>1. TryResizeChannel(b, m, c, a) = b
      BY <1>1 DEF TryResizeChannel
    <2> QED
      BY <1>1, <2>1, Zenon DEF OthersKept
  <1>2. CASE CanResize(b, m, c, a)
    <2> DEFINE delta == Delta(b, m, c, a)
               old == b.muxes[m]
               e == [channels |-> [old.channels EXCEPT ![c] = a], excess |-> old.excess + delta]
               g == [b.muxes EXCEPT ![m] = e]
               b2 == [used |-> b.used + delta, muxes |-> g]
    <2>1. /\ m \in DOMAIN b.muxes /\ c \in DOMAIN old.channels
          /\ EntryOK(old) /\ old.excess \in Nat /\ b.used \in Nat
      BY <1>2, BudgetFacts DEF CanResize, Registered
    <2>2. TryResizeChannel(b, m, c, a) = b2
      BY <1>2, Zenon DEF TryResizeChannel
    <2>3. /\ EntryOK(e) /\ delta \in Int
          /\ b.used + delta <= Limit
      <3>1. /\ delta = ReceiveWindowExcess(a) - ReceiveWindowExcess(old.channels[c])
            /\ ReceiveWindowExcess(old.channels[c]) \in Nat /\ ReceiveWindowExcess(a) \in Nat
        <4>1. ReceiveWindowExcess(a) \in Nat
          BY BudgetAssumption DEF ReceiveWindowExcess
        <4> QED
          BY <2>1, <4>1, EntryFacts, Zenon DEF Delta
      <3>2. delta \in Int
        BY <3>1
      <3>3. EntryOK(e)
        BY <2>1, <3>1, EntryResize
      <3>4. b.used + delta <= Limit
        <4>1. b.used <= Limit
          BY Zenon DEF BudgetOK
        <4>2. delta > 0 => delta <= Limit - b.used
          BY <1>2, Zenon DEF CanResize
        <4> HIDE DEF delta
        <4> QED
          BY <2>1, <3>2, <4>1, <4>2, BudgetAssumption
      <3> QED
        BY <3>2, <3>3, <3>4
    <2>4. /\ DOMAIN e.channels = DOMAIN old.channels /\ e.channels[c] = a
          /\ e.excess = old.excess + delta
          /\ \A d \in DOMAIN old.channels : d # c => e.channels[d] = old.channels[d]
      BY <2>1, Zenon
    <2> HIDE DEF e, delta
    <2>5. /\ IsMap(g) /\ DOMAIN g = DOMAIN b.muxes /\ g[m] = e
          /\ \A k \in DOMAIN b.muxes \ {m} : g[k] = b.muxes[k]
      BY <2>1 DEF IsMap
    <2> HIDE DEF g
    <2>6. BudgetOK(b2)
      <3>1. DOMAIN g = DOMAIN b.muxes \cup {m}
        BY <2>1, <2>5
      <3>2. b.used + delta
              = b.used + e.excess - (IF m \in DOMAIN b.muxes THEN b.muxes[m].excess ELSE 0)
        BY <2>1, <2>3, <2>4
      <3> QED
        BY <2>3, <2>5, <3>1, <3>2, PutEntry, Zenon
    <2>7. b2.muxes = g
      BY Zenon
    <2> HIDE DEF b2
    <2>8. OthersKept(b, b2, m, c)
      BY <2>1, <2>4, <2>5, <2>7, Zenon DEF OthersKept, Registered
    <2> QED
      BY <1>2, <2>1, <2>2, <2>4, <2>5, <2>6, <2>7, <2>8, SMTT(30) DEF Registered
  <1> QED
    BY <1>1, <1>2, Zenon

\* RemoveChannel takes one channel out, and the mux with its last channel.
LEMMA RemoveEffect ==
    ASSUME NEW b, BudgetOK(b), NEW m \in Muxes, NEW c \in IDs
    PROVE  LET b2 == RemoveChannel(b, m, c)
           IN  /\ BudgetOK(b2) /\ DOMAIN b2.muxes \subseteq DOMAIN b.muxes
               /\ ~Registered(b2, m, c) /\ OthersKept(b, b2, m, c)
  <1>1. CASE ~Registered(b, m, c)
    BY <1>1, Zenon DEF RemoveChannel, OthersKept
  <1>2. CASE Registered(b, m, c)
    <2> DEFINE old == b.muxes[m]
               x == ReceiveWindowExcess(old.channels[c])
               e == [channels |-> Without(old.channels, c), excess |-> old.excess - x]
    <2>1. /\ m \in DOMAIN b.muxes /\ c \in DOMAIN old.channels
          /\ EntryOK(old) /\ old.excess \in Nat /\ b.used \in Nat /\ b.used <= Limit
          /\ x \in Nat
      BY <1>2, BudgetFacts, EntryFacts DEF Registered, BudgetOK
    <2>2. EntryOK(e)
      BY <2>1, EntryRemove, Zenon
    <2>3. /\ DOMAIN e.channels = DOMAIN old.channels \ {c} /\ e.excess = old.excess - x
          /\ \A d \in DOMAIN e.channels : e.channels[d] = old.channels[d]
      BY DEF Without
    <2>4. CASE DOMAIN e.channels = {}
      <3> DEFINE b2 == [used |-> b.used - old.excess, muxes |-> Without(b.muxes, m)]
      <3>1. old.excess = x
        <4>1. e.excess = 0
          <5>1. DOMAIN Excesses(e.channels) = {} /\ IsFiniteSet({})
            BY <2>4, FS_EmptySet, Zenon DEF Excesses
          <5>2. SumFunction(Excesses(e.channels)) = 0
            BY <5>1, SumOfMap, Zenon
          <5> QED
            BY <2>2, <5>2, Zenon DEF EntryOK
        <4> QED
          BY <2>1, <2>3, <4>1, SMTT(30)
      <3>2. RemoveChannel(b, m, c) = b2
        BY <1>2, <2>4, <3>1, Zenon DEF RemoveChannel
      <3>3. BudgetOK(b2)
        BY <2>1, DropEntry, Zenon
      <3>4. /\ DOMAIN b2.muxes = DOMAIN b.muxes \ {m}
            /\ \A k \in DOMAIN b2.muxes : b2.muxes[k] = b.muxes[k]
        BY Zenon DEF Without
      <3> HIDE DEF b2
      <3>5. ~Registered(b2, m, c) /\ OthersKept(b, b2, m, c)
        BY <2>3, <2>4, <3>4 DEF Registered, OthersKept
      <3> QED
        BY <3>2, <3>3, <3>4, <3>5, Zenon
    <2>5. CASE DOMAIN e.channels # {}
      <3> DEFINE g == [b.muxes EXCEPT ![m] = e]
                 b2 == [used |-> b.used - x, muxes |-> g]
      <3>1. RemoveChannel(b, m, c) = b2
        BY <1>2, <2>5, Zenon DEF RemoveChannel
      <3> HIDE DEF e
      <3>2. /\ IsMap(g) /\ DOMAIN g = DOMAIN b.muxes \cup {m} /\ g[m] = e
            /\ \A k \in DOMAIN b.muxes \ {m} : g[k] = b.muxes[k]
        BY <2>1, Zenon DEF IsMap
      <3> HIDE DEF g, x
      <3>3. /\ b.used - x
                 = b.used + e.excess - (IF m \in DOMAIN b.muxes THEN b.muxes[m].excess ELSE 0)
            /\ b.used - x <= Limit
        BY <2>1, <2>3, BudgetAssumption
      <3>4. BudgetOK(b2)
        BY <2>2, <3>2, <3>3, PutEntry, Zenon
      <3>5. b2.muxes = g
        BY Zenon
      <3> HIDE DEF b2
      <3>6. ~Registered(b2, m, c) /\ OthersKept(b, b2, m, c)
        BY <2>1, <2>3, <3>2, <3>5 DEF Registered, OthersKept
      <3> QED
        BY <2>1, <3>1, <3>2, <3>4, <3>5, <3>6, SMTT(30)
    <2> QED
      BY <2>4, <2>5, Zenon
  <1> QED
    BY <1>1, <1>2, Zenon

\* RemoveMux takes out the mux with all its channels.
LEMMA RemoveMuxEffect ==
    ASSUME NEW b, BudgetOK(b), NEW m \in Muxes
    PROVE  LET b2 == RemoveMux(b, m)
           IN  /\ BudgetOK(b2) /\ DOMAIN b2.muxes = DOMAIN b.muxes \ {m}
               /\ \A k \in DOMAIN b2.muxes : b2.muxes[k] = b.muxes[k]
  <1>1. CASE m \notin DOMAIN b.muxes
    BY <1>1, Zenon DEF RemoveMux
  <1>2. CASE m \in DOMAIN b.muxes
    BY <1>2, DropEntry, Zenon DEF RemoveMux, Without
  <1> QED
    BY <1>1, <1>2, Zenon

\* A resize that does not raise the charge always succeeds.
LEMMA ShrinkSucceeds ==
    ASSUME NEW b, BudgetOK(b), NEW m \in Muxes, NEW c \in IDs, Registered(b, m, c),
           NEW a \in Nat, a <= b.muxes[m].channels[c]
    PROVE  CanResize(b, m, c, a)
  <1> DEFINE old == b.muxes[m].channels[c]
  <1>1. /\ old \in Nat /\ b.muxes[m].excess \in Nat /\ b.used \in Nat
        /\ ReceiveWindowExcess(old) <= b.muxes[m].excess
        /\ b.muxes[m].excess <= b.used
    BY BudgetFacts, EntryFacts, Zenon DEF Registered, EntryOK
  <1>2. ReceiveWindowExcess(a) \in Nat /\ ReceiveWindowExcess(old) \in Nat
        /\ ReceiveWindowExcess(a) <= ReceiveWindowExcess(old)
    <2> HIDE DEF old
    <2> QED
      BY <1>1, BudgetAssumption DEF ReceiveWindowExcess, old
  <1>3. Delta(b, m, c, a) = ReceiveWindowExcess(a) - ReceiveWindowExcess(old)
    BY Zenon DEF Delta
  <1> QED
    BY <1>1, <1>2, <1>3 DEF CanResize

-----------------------------------------------------------------------------
(* The channel tables. *)

\* Every channel that may hold bytes is charged for its window.
LiveCharged ==
    \A m \in Muxes : \A c \in Live(m) :
        Registered(budget, m, c) /\ budget.muxes[m].channels[c] = Allowed(m, c)

\* An ID that was not given out yet has the initial window, and on a mux where
\* this side allocates, all IDs above the count are such.
UnusedFresh ==
    \A m \in Muxes : \A c \in IDs :
        /\ chan[m][c] = "unused" => index[m][c] = InitialIndex /\ debt[m][c] = 0
        /\ m \in Requesting /\ c > allocCount[m] => chan[m][c] = "unused"

\* An open channel is in the table of a mux whose close has not finished.
OpenInTable ==
    \A m \in Muxes : \A c \in IDs :
        chan[m][c] = "open" => c \in channels[m] /\ closed[m] # "done"

\* The inductive invariant: the budget is exact, charges every live channel,
\* and the tables know every open channel.
IInv == TypeOK /\ BudgetOK(budget) /\ NothingLeaked /\ LiveCharged /\ UnusedFresh /\ OpenInTable

\* A process without channels.
LEMMA InitIInv == Init => IInv
  <1> SUFFICES ASSUME Init PROVE IInv
    BY Zenon
  <1>1. BudgetOK(budget) /\ budget.used = 0 /\ DOMAIN budget.muxes = {}
    BY NewBudget DEF Init, NewReceiveWindowBudget, NoEntries
  <1>2. TypeOK
    BY <1>1, MuxAssumption DEF Init, TypeOK, ChannelStates
  <1>3. NothingLeaked
    BY <1>1, Zenon DEF NothingLeaked
  <1>4. LiveCharged /\ UnusedFresh /\ OpenInTable
    BY DEF Init, LiveCharged, UnusedFresh, OpenInTable, Live, Holding
  <1> QED
    BY <1>1, <1>2, <1>3, <1>4 DEF IInv

\* Opening a channel whose ID was not given out.
LEMMA OpenKeeps ==
    ASSUME IInv, NEW m \in Muxes, NEW c \in IDs, chan[m][c] = "unused",
           m \in Requesting => c = allocCount[m] + 1, OpenChannel(m, c)
    PROVE  IInv'
  <1> USE DEF IInv
  <1>1. ~Registered(budget, m, c)
    BY Zenon DEF NothingLeaked, Registered, Holding
  <1>2. /\ BudgetOK(budget') /\ DOMAIN budget'.muxes = DOMAIN budget.muxes \cup {m}
        /\ Registered(budget', m, c) /\ budget'.muxes[m].channels[c] = InitialWindow
        /\ OthersKept(budget, budget', m, c)
    BY <1>1, RegisterEffect DEF OpenChannel
  <1>3. budget'.used \in Int
    BY <1>2, BudgetFacts
  <1>4. TypeOK'
    BY <1>2, <1>3, SMTT(30) DEF OpenChannel, TypeOK, ChannelStates
  <1>5. NothingLeaked'
    BY <1>2 DEF OpenChannel, TypeOK, NothingLeaked, OthersKept, Registered, Holding
  <1>6. LiveCharged'
    <2> SUFFICES ASSUME NEW k \in Muxes, NEW d \in Live(k)'
                 PROVE  (Registered(budget, k, d)
                           /\ budget.muxes[k].channels[d] = Allowed(k, d))'
      BY Zenon DEF LiveCharged
    <2>1. CASE k = m /\ d = c
      BY <1>2, <2>1, InitialAllowed, Zenon DEF OpenChannel, Allowed, UnusedFresh
    <2>2. CASE ~(k = m /\ d = c)
      <3>1. d \in Live(k) /\ Allowed(k, d)' = Allowed(k, d)
        BY <2>2 DEF OpenChannel, TypeOK, Live, Holding, Allowed
      <3> QED
        BY <1>2, <2>2, <3>1, Zenon DEF LiveCharged, OthersKept
    <2> QED
      BY <2>1, <2>2, Zenon
  <1>7. UnusedFresh'
    <2> SUFFICES ASSUME NEW k \in Muxes, NEW d \in IDs
                 PROVE  /\ (chan[k][d] = "unused" => index[k][d] = InitialIndex /\ debt[k][d] = 0)'
                        /\ (k \in Requesting /\ d > allocCount[k] => chan[k][d] = "unused")'
      BY Zenon DEF UnusedFresh
    <2>1. allocCount[k] \in Nat /\ d \in Nat /\ IDs \subseteq Nat
      BY DEF TypeOK, IDs
    <2>2. chan'[k][d] = "unused" => chan[k][d] = "unused"
      BY Zenon DEF OpenChannel, TypeOK
    <2>3. allocCount'[k] = IF k = m THEN allocCount[k] + 1 ELSE allocCount[k]
      BY Zenon DEF OpenChannel, TypeOK
    <2>4. ASSUME k \in Requesting, d > allocCount'[k] PROVE ~(k = m /\ d = c) /\ d > allocCount[k]
      BY <2>1, <2>3, <2>4, SMTT(30)
    <2>5. ~(k = m /\ d = c) => chan'[k][d] = chan[k][d]
      BY Zenon DEF OpenChannel, TypeOK
    <2> QED
      BY <2>2, <2>4, <2>5, Zenon DEF UnusedFresh, OpenChannel
  <1>8. OpenInTable'
    BY DEF OpenChannel, TypeOK, OpenInTable
  <1> QED
    BY <1>2, <1>4, <1>5, <1>6, <1>7, <1>8, SMTT(30)

\* A step that touches neither budget nor windows, and opens no channel.
LEMMA LifeKeeps ==
    ASSUME IInv, TypeOK', UNCHANGED <<allocCount, index, debt, budget>>,
           \A m \in Muxes : /\ closed'[m] = "done" <=> closed[m] = "done"
                            /\ \A c \in IDs :
                                 /\ chan'[m][c] = "unused" <=> chan[m][c] = "unused"
                                 /\ chan'[m][c] = "open" => chan[m][c] = "open"
                                 /\ chan'[m][c] = "cleared" <=> chan[m][c] = "cleared"
                                 /\ chan[m][c] = "open" => (c \in channels'[m] <=> c \in channels[m])
    PROVE  IInv'
  <1> USE DEF IInv
  <1>1. \A m \in Muxes : Holding(m)' = Holding(m) /\ Live(m)' = Live(m)
    <2> SUFFICES ASSUME NEW m \in Muxes PROVE Holding(m)' = Holding(m)
      BY Zenon DEF Live
    <2>1. \A c \in IDs : chan[m][c] \in ChannelStates /\ chan'[m][c] \in ChannelStates
      BY DEF TypeOK
    <2>2. \A c \in IDs : chan'[m][c] \in {"open", "flagged", "swept"}
                           <=> chan[m][c] \in {"open", "flagged", "swept"}
      BY <2>1 DEF ChannelStates
    <2> QED
      BY <2>2 DEF Holding
  <1>2. BudgetOK(budget)'
    BY Zenon
  <1>3. NothingLeaked'
    BY <1>1 DEF NothingLeaked, TypeOK
  <1>4. LiveCharged'
    BY <1>1 DEF LiveCharged, Allowed
  <1>5. UnusedFresh' /\ OpenInTable'
    BY DEF UnusedFresh, OpenInTable
  <1> QED
    BY <1>2, <1>3, <1>4, <1>5, Zenon

\* Resizing an open channel.
LEMMA ResizeKeeps ==
    ASSUME IInv, NEW m \in Muxes, NEW c \in IDs, ResizeChannel(m, c)
    PROVE  IInv'
  <1> USE DEF IInv
  <1>1. /\ chan[m][c] = "open" /\ UNCHANGED <<closed, allocCount, channels, chan, activeCount>>
        /\ \A k \in Muxes, d \in IDs : ~(k = m /\ d = c) =>
              index'[k][d] = index[k][d] /\ debt'[k][d] = debt[k][d]
    BY DEF ResizeChannel, GrowWindow, ShrinkWindow, WithholdCredit, TypeOK
  <1> DEFINE i == index[m][c]
             d == debt[m][c]
  <1>2. i \in 0..MaxIndex /\ d \in Nat /\ d \in 0..MaxDebt /\ c \in Live(m)
    BY <1>1 DEF TypeOK, Live, Holding, OpenInTable
  <1>3. Registered(budget, m, c) /\ budget.muxes[m].channels[c] = AllowedWindow(i, d)
    BY <1>2, Zenon DEF LiveCharged, Allowed
  <1>4. /\ index' \in [Muxes -> [IDs -> 0..MaxIndex]] /\ debt' \in [Muxes -> [IDs -> 0..MaxDebt]]
        /\ BudgetOK(budget') /\ DOMAIN budget'.muxes = DOMAIN budget.muxes
        /\ Registered(budget', m, c) /\ OthersKept(budget, budget', m, c)
        /\ budget'.muxes[m].channels[c] = AllowedWindow(index'[m][c], debt'[m][c])
    <2>1. CASE GrowWindow(m, c)
      <3> DEFINE a == AllowedWindow(i + 1, d)
      <3>1. a \in Nat /\ i + 1 \in 0..MaxIndex /\ i < MaxIndex
        BY <1>2, <2>1, AllowedSteps, WindowSteps, SMTT(30) DEF GrowWindow
      <3>2. /\ budget' = TryResizeChannel(budget, m, c, a) /\ debt' = debt
            /\ CanResize(budget, m, c, a) => index' = [index EXCEPT ![m][c] = i + 1]
            /\ ~CanResize(budget, m, c, a) => index' = index
        BY <2>1, Zenon DEF GrowWindow
      <3>3. /\ index' \in [Muxes -> [IDs -> 0..MaxIndex]]
            /\ CanResize(budget, m, c, a) => index'[m][c] = i + 1
        <4>1. CASE index' = index /\ ~CanResize(budget, m, c, a)
          BY <4>1, Zenon DEF TypeOK
        <4>2. CASE index' = [index EXCEPT ![m][c] = i + 1]
          <5> HIDE DEF i, a
          <5> QED
            BY <3>1, <4>2 DEF TypeOK
        <4> QED
          BY <3>2, <4>1, <4>2
      <3>4. /\ BudgetOK(budget') /\ DOMAIN budget'.muxes = DOMAIN budget.muxes
            /\ Registered(budget', m, c) <=> Registered(budget, m, c)
            /\ CanResize(budget, m, c, a) => budget'.muxes[m].channels[c] = a
            /\ ~CanResize(budget, m, c, a) => budget' = budget
            /\ OthersKept(budget, budget', m, c)
        <4> HIDE DEF a
        <4> QED
          BY <3>1, <3>2, ResizeEffect, SMTT(30)
      <3> QED
        BY <1>3, <3>2, <3>3, <3>4, Zenon DEF TypeOK
    <2>2. CASE ShrinkWindow(m, c)
      <3>1. /\ i > 0 /\ budget' = budget /\ index' = [index EXCEPT ![m][c] = i - 1]
            /\ debt' = [debt EXCEPT ![m][c] = d + Window[i] - Window[i - 1]]
            /\ debt'[m][c] <= MaxDebt
        BY <2>2, Zenon DEF ShrinkWindow
      <3>2. /\ i - 1 \in 0..MaxIndex /\ d + Window[i] - Window[i - 1] \in Nat
            /\ AllowedWindow(i - 1, d + Window[i] - Window[i - 1]) = AllowedWindow(i, d)
        BY <1>2, <3>1, WindowSteps, AllowedSteps, SMTT(30)
      <3>3. index'[m][c] = i - 1 /\ debt'[m][c] = d + Window[i] - Window[i - 1]
        BY <3>1, Zenon DEF TypeOK
      <3>4. d + Window[i] - Window[i - 1] \in 0..MaxDebt
        BY <3>1, <3>2, <3>3, MuxAssumption, SMTT(30)
      <3>5. index' \in [Muxes -> [IDs -> 0..MaxIndex]] /\ debt' \in [Muxes -> [IDs -> 0..MaxDebt]]
        BY <3>1, <3>2, <3>4, Zenon DEF TypeOK
      <3> QED
        BY <1>3, <3>1, <3>2, <3>3, <3>5, SMTT(30) DEF OthersKept
    <2>3. ASSUME NEW n \in 1..d, WithholdCredit(m, c, n)
          PROVE  /\ index' \in [Muxes -> [IDs -> 0..MaxIndex]]
                 /\ debt' \in [Muxes -> [IDs -> 0..MaxDebt]]
                 /\ BudgetOK(budget') /\ DOMAIN budget'.muxes = DOMAIN budget.muxes
                 /\ Registered(budget', m, c) /\ OthersKept(budget, budget', m, c)
                 /\ budget'.muxes[m].channels[c] = AllowedWindow(index'[m][c], debt'[m][c])
      <3> DEFINE a == AllowedWindow(i, d - n)
      <3>1. d - n \in Nat /\ d - n \in 0..MaxDebt
        BY <1>2, MuxAssumption, SMTT(30)
      <3>2. a \in Nat /\ a <= budget.muxes[m].channels[c]
        BY <1>2, <1>3, <3>1, AllowedSteps, Zenon
      <3>3. /\ budget' = TryResizeChannel(budget, m, c, a) /\ index' = index
            /\ debt' = [debt EXCEPT ![m][c] = d - n]
        BY <2>3 DEF WithholdCredit
      <3>4. debt' \in [Muxes -> [IDs -> 0..MaxDebt]] /\ debt'[m][c] = d - n
        BY <3>1, <3>3, Zenon DEF TypeOK
      <3> HIDE DEF a
      <3>5. CanResize(budget, m, c, a)
        BY <1>3, <3>2, ShrinkSucceeds, SMTT(30)
      <3>6. /\ BudgetOK(budget') /\ DOMAIN budget'.muxes = DOMAIN budget.muxes
            /\ Registered(budget', m, c) <=> Registered(budget, m, c)
            /\ budget'.muxes[m].channels[c] = a
            /\ OthersKept(budget, budget', m, c)
        BY <3>2, <3>3, <3>5, ResizeEffect, SMTT(30)
      <3> QED
        BY <1>3, <3>3, <3>4, <3>6, SMTT(30) DEF TypeOK, a
    <2> QED
      BY <2>1, <2>2, <2>3, ZenonT(40) DEF ResizeChannel
  <1> HIDE DEF i, d
  <1>5. TypeOK'
    <2>1. budget'.used \in Int
      BY <1>4, BudgetFacts
    <2> QED
      BY <1>1, <1>4, <2>1, Zenon DEF TypeOK
  <1>6. \A k \in Muxes : Holding(k)' = Holding(k) /\ Live(k)' = Live(k)
    BY <1>1, Zenon DEF Holding, Live
  <1>7. NothingLeaked'
    BY <1>1, <1>3, <1>4, <1>6, SMTT(30) DEF NothingLeaked, OthersKept, Registered, TypeOK
  <1>8. LiveCharged'
    <2> SUFFICES ASSUME NEW k \in Muxes, NEW e \in Live(k)
                 PROVE  (Registered(budget, k, e)
                           /\ budget.muxes[k].channels[e] = Allowed(k, e))'
      BY <1>6, Zenon DEF LiveCharged
    <2>1. CASE k = m /\ e = c
      BY <1>4, <2>1, Zenon DEF Allowed
    <2>2. CASE ~(k = m /\ e = c)
      <3>1. Allowed(k, e)' = Allowed(k, e)
        BY <1>1, <2>2, Zenon DEF Allowed, Live, Holding
      <3> QED
        BY <1>4, <2>2, <3>1, SMTT(30) DEF LiveCharged, OthersKept
    <2> QED
      BY <2>1, <2>2, Zenon
  <1>9. UnusedFresh' /\ OpenInTable'
    BY <1>1 DEF UnusedFresh, OpenInTable
  <1> QED
    BY <1>4, <1>5, <1>7, <1>8, <1>9, Zenon

\* Clearing a channel takes its charge out of the budget.
LEMMA ClearKeeps ==
    ASSUME IInv, NEW m \in Muxes, NEW c \in IDs, ClearChannel(m, c)
    PROVE  IInv'
  <1> USE DEF IInv
  <1>1. /\ BudgetOK(budget') /\ DOMAIN budget'.muxes \subseteq DOMAIN budget.muxes
        /\ ~Registered(budget', m, c) /\ OthersKept(budget, budget', m, c)
    BY RemoveEffect, Zenon DEF ClearChannel
  <1>2. TypeOK'
    <2>1. budget'.used \in Int /\ DOMAIN budget'.muxes \subseteq Muxes
      BY <1>1, BudgetFacts DEF TypeOK
    <2>2. chan' \in [Muxes -> [IDs -> ChannelStates]]
      BY Zenon DEF ClearChannel, TypeOK, ChannelStates
    <2> QED
      BY <2>1, <2>2, Zenon DEF ClearChannel, TypeOK
  <1>3. \A k \in Muxes, d \in IDs :
          /\ d \in Holding(k)' <=> d \in Holding(k) /\ ~(k = m /\ d = c)
          /\ d \in Live(k)' <=> d \in Live(k) /\ ~(k = m /\ d = c)
          /\ Allowed(k, d)' = Allowed(k, d)
    BY DEF ClearChannel, TypeOK, Holding, Live, Allowed
  <1>4. NothingLeaked'
    <2>1. ASSUME NEW k \in DOMAIN budget'.muxes, NEW d \in DOMAIN budget'.muxes[k].channels
          PROVE  d \in Holding(k)'
      <3>1. ~(k = m /\ d = c) /\ Registered(budget, k, d)
        BY <1>1, Zenon DEF Registered, OthersKept
      <3>2. d \in Holding(k) /\ k \in Muxes /\ d \in IDs
        BY <3>1 DEF NothingLeaked, Registered, Holding, TypeOK
      <3> QED
        BY <1>3, <3>1, <3>2, Zenon
    <2> QED
      BY <1>1, <2>1, Zenon DEF NothingLeaked, ClearChannel
  <1>5. LiveCharged'
    <2> SUFFICES ASSUME NEW k \in Muxes, NEW d \in Live(k)'
                 PROVE  (Registered(budget, k, d)
                           /\ budget.muxes[k].channels[d] = Allowed(k, d))'
      BY Zenon DEF LiveCharged
    <2>1. d \in IDs
      BY Zenon DEF Live, Holding
    <2> QED
      BY <1>1, <1>3, <2>1 DEF LiveCharged, OthersKept
  <1>6. UnusedFresh' /\ OpenInTable'
    BY DEF ClearChannel, TypeOK, UnusedFresh, OpenInTable
  <1> QED
    BY <1>1, <1>2, <1>4, <1>5, <1>6, Zenon

\* The close of a mux ends with the mux out of the budget.
LEMMA FinishKeeps ==
    ASSUME IInv, NEW m \in Muxes, FinishClose(m)
    PROVE  IInv'
  <1> USE DEF IInv
  <1>1. /\ BudgetOK(budget') /\ DOMAIN budget'.muxes = DOMAIN budget.muxes \ {m}
        /\ \A k \in DOMAIN budget'.muxes : budget'.muxes[k] = budget.muxes[k]
    <2>1. budget' = RemoveMux(budget, m) /\ BudgetOK(budget)
      BY Zenon DEF FinishClose
    <2> QED
      BY <2>1, RemoveMuxEffect, Zenon
  <1>2. TypeOK'
    BY <1>1, BudgetFacts DEF FinishClose, TypeOK
  <1>3. \A k \in Muxes : /\ Holding(k)' = Holding(k)
                         /\ k # m => Live(k)' = Live(k)
    BY Zenon DEF FinishClose, TypeOK, Holding, Live
  <1>4. Live(m)' = {}
    BY Zenon DEF FinishClose, TypeOK, Live
  <1>5. NothingLeaked'
    BY <1>1, <1>3 DEF NothingLeaked, FinishClose, TypeOK
  <1>6. LiveCharged'
    <2>1. ASSUME NEW k \in Muxes \ {m}, NEW d \in Live(k)
          PROVE  (Registered(budget, k, d)
                    /\ budget.muxes[k].channels[d] = Allowed(k, d))'
      <3>1. Registered(budget, k, d) /\ budget.muxes[k].channels[d] = Allowed(k, d)
        BY Zenon DEF LiveCharged
      <3>2. Allowed(k, d)' = Allowed(k, d)
        BY Zenon DEF FinishClose, Allowed
      <3> QED
        BY <1>1, <3>1, <3>2, Zenon DEF Registered
    <2> QED
      BY <1>3, <1>4, <2>1, Zenon DEF LiveCharged
  <1>7. UnusedFresh' /\ OpenInTable'
    BY ZenonT(40) DEF FinishClose, TypeOK, UnusedFresh, OpenInTable
  <1> QED
    BY <1>1, <1>2, <1>5, <1>6, <1>7, Zenon

\* Every step keeps the invariant.
LEMMA NextIInv == IInv /\ [Next]_vars => IInv'
  <1> SUFFICES ASSUME IInv, [Next]_vars PROVE IInv'
    BY Zenon
  <1> USE DEF IInv
  <1>1. ASSUME NEW m \in Muxes, AllocChannel(m) PROVE IInv'
    <2>1. allocCount[m] + 1 \in IDs /\ allocCount[m] + 1 > allocCount[m]
      BY <1>1, MuxAssumption, SMTT(30) DEF AllocChannel, TypeOK, IDs
    <2>2. chan[m][allocCount[m] + 1] = "unused" /\ OpenChannel(m, allocCount[m] + 1)
      BY <1>1, <2>1, Zenon DEF AllocChannel, UnusedFresh
    <2> QED
      BY <2>1, <2>2, OpenKeeps, Zenon
  <1>2. ASSUME NEW m \in Muxes, NEW c \in IDs, RegisterRequestedChannel(m, c) PROVE IInv'
    BY <1>2, OpenKeeps, Zenon DEF RegisterRequestedChannel
  <1>3. ASSUME NEW m \in Muxes, NEW c \in IDs, ResizeChannel(m, c) PROVE IInv'
    BY <1>3, ResizeKeeps, Zenon
  <1>4. ASSUME NEW m \in Muxes, NEW c \in IDs, FlagChannel(m, c) PROVE IInv'
    <2>1. TypeOK'
      BY <1>4 DEF FlagChannel, TypeOK, ChannelStates
    <2> QED
      BY <1>4, <2>1, LifeKeeps, ZenonT(40) DEF FlagChannel, TypeOK
  <1>5. ASSUME NEW m \in Muxes, NEW c \in IDs, ClearChannel(m, c) PROVE IInv'
    BY <1>5, ClearKeeps, Zenon
  <1>6. ASSUME NEW m \in Muxes, NEW c \in IDs, RemoveFromMux(m, c) PROVE IInv'
    <2>1. TypeOK'
      BY <1>6, SMTT(30) DEF RemoveFromMux, TypeOK
    <2> QED
      BY <1>6, <2>1, LifeKeeps, Zenon DEF RemoveFromMux, TypeOK
  <1>7. ASSUME NEW m \in Muxes, FlagMux(m) \/ LockTable(m) PROVE IInv'
    <2>1. TypeOK'
      BY <1>7, Zenon DEF FlagMux, LockTable, TypeOK
    <2> QED
      BY <1>7, <2>1, LifeKeeps, Zenon DEF FlagMux, LockTable, TypeOK
  <1>8. ASSUME NEW m \in Muxes, NEW c \in IDs, SweepChannel(m, c) PROVE IInv'
    <2>1. TypeOK'
      BY <1>8, Zenon DEF SweepChannel, TypeOK, ChannelStates
    <2> QED
      BY <1>8, <2>1, LifeKeeps, ZenonT(40) DEF SweepChannel, TypeOK
  <1>9. ASSUME NEW m \in Muxes, FinishClose(m) PROVE IInv'
    BY <1>9, FinishKeeps, Zenon
  <1>10. CASE UNCHANGED vars
    BY <1>10, LifeKeeps, Zenon DEF vars, TypeOK
  <1> QED
    BY <1>1, <1>2, <1>3, <1>4, <1>5, <1>6, <1>7, <1>8, <1>9, <1>10, SMTT(30)
    DEF Next, CloseMux, CloseChannel

\* The inductive invariant holds throughout.
LEMMA AlwaysIInv == Spec => []IInv
  BY InitIInv, NextIInv, PTL DEF Spec

\* The variables keep their types.
THEOREM ChannelsTyped == Spec => []TypeOK
  <1>1. IInv => TypeOK
    BY Zenon DEF IInv
  <1> QED
    BY <1>1, AlwaysIInv, PTL

\* The budget is exact in every interleaving of growing, shrinking and closing:
\* each open channel is charged for its window, the totals are the sums of the
\* entries and within the limit, and closed channels leave nothing behind. The
\* ignored outcome of the resize after a read is always success.
THEOREM BudgetExact == Spec => []ChargesExact
  <1>1. IInv => ChargesExact
    <2> SUFFICES ASSUME IInv PROVE ChargesExact
      BY Zenon
    <2>1. ChargedForWindow
      BY Zenon DEF IInv, ChargedForWindow, LiveCharged, OpenInTable, Live, Holding
    <2>2. BudgetBalanced
      BY DEF IInv, BudgetBalanced, BudgetOK, EntryOK
    <2> QED
      BY <2>1, <2>2, Zenon DEF IInv, ChargesExact
  <1> QED
    BY <1>1, AlwaysIInv, PTL

\* What a live mux may buffer: a base window per channel and what the budget
\* has recorded as its excess.
LEMMA MuxMemory ==
    ASSUME IInv, NEW m \in Muxes
    PROVE  LET sum == SumFunction([c \in Live(m) |-> Allowed(m, c)])
               excess == IF m \in DOMAIN budget.muxes THEN budget.muxes[m].excess ELSE 0
           IN  /\ sum \in Int /\ excess \in Int /\ Cardinality(Live(m)) \in Int
               /\ sum <= InitialWindow * Cardinality(Live(m)) + excess
  <1> USE DEF IInv
  <1> DEFINE f == [c \in Live(m) |-> Allowed(m, c)]
             g == [c \in Live(m) |-> ReceiveWindowExcess(Allowed(m, c))]
             one == [c \in Live(m) |-> 1]
             excess == IF m \in DOMAIN budget.muxes THEN budget.muxes[m].excess ELSE 0
  <1>1. Live(m) \subseteq IDs /\ IsFiniteSet(Live(m))
    BY IDsFinite, FS_Subset DEF Live, Holding
  <1>2. \A c \in Live(m) : Allowed(m, c) \in Nat
    BY <1>1, AllowedSteps DEF TypeOK, Allowed
  <1>3. \A c \in Live(m) : /\ f[c] \in Int /\ g[c] \in Int /\ one[c] = 1
                           /\ g[c] >= 0 /\ f[c] <= InitialWindow + g[c]
    BY <1>2, BudgetAssumption DEF ReceiveWindowExcess
  <1>4. DOMAIN f = Live(m) /\ DOMAIN g = Live(m)
    BY Zenon
  <1>5. excess = SumFunctionOnSet(g, Live(m))
    <2>1. CASE m \in DOMAIN budget.muxes
      <3> DEFINE ch == budget.muxes[m].channels
      <3>1. DOMAIN ch = Live(m) /\ \A c \in Live(m) : ch[c] = Allowed(m, c)
        BY <2>1, Zenon DEF NothingLeaked, LiveCharged, Live, Registered
      <3>2. Excesses(ch) = g
        <4> HIDE DEF ch
        <4> QED
          BY <3>1, Zenon DEF Excesses
      <3>3. EntryOK(budget.muxes[m])
        BY <2>1 DEF BudgetOK
      <3>4. budget.muxes[m].excess = SumFunction(g)
        BY <3>2, <3>3, Zenon DEF EntryOK
      <3> HIDE DEF g
      <3> QED
        BY <1>4, <2>1, <3>4, Zenon DEF SumFunction
    <2>2. CASE m \notin DOMAIN budget.muxes
      <3>1. Live(m) = {}
        BY <2>2, Zenon DEF LiveCharged, Registered
      <3> HIDE DEF g
      <3> QED
        BY <1>1, <2>2, <3>1, SumStep
    <2> QED
      BY <2>1, <2>2, Zenon
  <1>6. SumFunctionOnSet(one, Live(m)) = Cardinality(Live(m)) /\ Cardinality(Live(m)) \in Int
    <2> HIDE DEF one
    <2> QED
      BY <1>1, <1>3, SumOfOnes, FS_CardinalityType
  <1>7. /\ SumFunctionOnSet(f, Live(m)) \in Int /\ SumFunctionOnSet(g, Live(m)) \in Int
        /\ SumFunctionOnSet(f, Live(m))
             <= InitialWindow * SumFunctionOnSet(one, Live(m)) + SumFunctionOnSet(g, Live(m))
    <2> HIDE DEF f, g, one
    <2>1. \A c \in Live(m) : one[c] \in Int /\ f[c] <= InitialWindow * one[c] + g[c]
      BY <1>3, BudgetAssumption
    <2> QED
      BY <1>1, <1>3, <2>1, SumEstimate, SumType, BudgetAssumption, SMTT(30)
  <1>8. SumFunction(f) = SumFunctionOnSet(f, Live(m))
    <2> HIDE DEF f
    <2> QED
      BY <1>4 DEF SumFunction
  <1> HIDE DEF f, g, one, excess
  <1>9. SumFunction(f) \in Int /\ excess \in Int
        /\ SumFunction(f) <= InitialWindow * Cardinality(Live(m)) + excess
    BY <1>5, <1>6, <1>7, <1>8
  <1> QED
    BY <1>6, <1>9, Zenon DEF f, excess

\* All the bytes the server's channels may buffer together fit in the free base
\* window of each channel and the limit of the budget, for any number of muxes
\* and channels.
THEOREM MemoryStaysBounded == Spec => []MemoryBounded
  <1>1. IInv => MemoryBounded
    <2> SUFFICES ASSUME IInv PROVE MemoryBounded
      BY Zenon
    <2> DEFINE f == [m \in Muxes |-> SumFunction([c \in Live(m) |-> Allowed(m, c)])]
               k == [m \in Muxes |-> Cardinality(Live(m))]
               g == [m \in Muxes |-> IF m \in DOMAIN budget.muxes
                                     THEN budget.muxes[m].excess ELSE 0]
               h == [m \in DOMAIN budget.muxes |-> budget.muxes[m].excess]
    <2>1. \A m \in Muxes : /\ f[m] \in Int /\ g[m] \in Int /\ k[m] \in Int
                           /\ f[m] <= InitialWindow * k[m] + g[m]
      BY MuxMemory, Zenon
    <2>2. /\ DOMAIN f = Muxes /\ DOMAIN k = Muxes /\ DOMAIN h = DOMAIN budget.muxes
          /\ DOMAIN budget.muxes \in SUBSET Muxes /\ IsFiniteSet(Muxes)
          /\ IsFiniteSet(DOMAIN budget.muxes)
          /\ \A m \in Muxes \ DOMAIN budget.muxes : g[m] = 0
      BY MuxAssumption, FS_Subset, SMTT(20) DEF IInv, TypeOK
    <2>3. \A m \in DOMAIN budget.muxes : h[m] = g[m] /\ h[m] \in Int
      BY <2>1, <2>2, Zenon
    <2>4. budget.used = SumFunction(h) /\ budget.used <= Limit
      BY DEF IInv, BudgetOK
    <2>5. SumFunction(f) <= Limit + InitialWindow * SumFunction(k)
      <3> HIDE DEF f, g, h, k
      <3>1. SumFunctionOnSet(g, Muxes) = SumFunctionOnSet(g, DOMAIN budget.muxes)
        BY <2>1, <2>2, SumSupport, Zenon
      <3>2. SumFunctionOnSet(g, DOMAIN budget.muxes) = SumFunction(h)
        BY <2>2, <2>3, SumSame DEF SumFunction
      <3>3. SumFunctionOnSet(f, Muxes)
              <= InitialWindow * SumFunctionOnSet(k, Muxes) + SumFunctionOnSet(g, Muxes)
        BY <2>1, <2>2, SumEstimate, BudgetAssumption
      <3>4. /\ SumFunctionOnSet(f, Muxes) \in Int /\ SumFunctionOnSet(k, Muxes) \in Int
            /\ SumFunctionOnSet(g, Muxes) \in Int
        BY <2>1, <2>2, SumType, Zenon
      <3>5. SumFunction(f) = SumFunctionOnSet(f, Muxes) /\ SumFunction(k) = SumFunctionOnSet(k, Muxes)
        BY <2>2, Zenon DEF SumFunction
      <3>6. InitialWindow * SumFunctionOnSet(k, Muxes) \in Int
        BY <3>4, BudgetAssumption
      <3> QED
        BY <2>4, <3>1, <3>2, <3>3, <3>4, <3>5, <3>6, BudgetAssumption, SMTT(30)
    <2> QED
      BY <2>5 DEF MemoryBounded
  <1> QED
    BY <1>1, AlwaysIInv, PTL
============================================================================
