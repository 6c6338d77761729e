--------------------------- MODULE BestTreeProofs ---------------------------
(* What the search for the best tree keeps, for every hypergraph, every limit
   on how often a state is reached and every arity of the heap; and, in the last
   two parts, what AcyclicBest computes for graphs. *)
EXTENDS BestTree, DAryHeapProofs, FiniteSetTheorems

-----------------------------------------------------------------------------
(* Hypergraphs and costs *)

LEMMA StatesAreFinite ==
  /\ IsFiniteSet(States)
  /\ NoState \notin States
  /\ \A s \in States : s \in Nat
BY NumStatesAssumption, FS_Interval DEF States, NoState

LEMMA ArcTypes ==
  ASSUME NEW g, IsHypergraph(g), NEW a \in ArcIds(g)
  PROVE  /\ a \in Nat \ {0} /\ HeadOf(g, a) \in States
         /\ TailsOf(g, a) \in Seq(States) /\ CostOf(g, a) \in Int
         /\ Len(TailsOf(g, a)) \in Nat
         /\ \A i \in 1 .. Len(TailsOf(g, a)) : TailsOf(g, a)[i] \in TailSet(g, a)
         /\ \A t \in TailSet(g, a) : \E i \in 1 .. Len(TailsOf(g, a)) : t = TailsOf(g, a)[i]
         /\ TailSet(g, a) \subseteq States
         /\ IsFiniteSet(TailSet(g, a))
<1>1. g.arcs \in Seq([head : States, tails : Seq(States), cost : Int])
  BY DEF IsHypergraph
<1>2. a \in 1 .. Len(g.arcs) /\ g.arcs[a] \in [head : States, tails : Seq(States), cost : Int]
  BY <1>1, LenProperties, ElementOfSeq DEF ArcIds
<1>3. /\ a \in Nat \ {0} /\ HeadOf(g, a) \in States
      /\ TailsOf(g, a) \in Seq(States) /\ CostOf(g, a) \in Int
  BY <1>1, <1>2 DEF HeadOf, TailsOf, CostOf
<1>4. DOMAIN TailsOf(g, a) = 1 .. Len(TailsOf(g, a)) /\ Len(TailsOf(g, a)) \in Nat
  BY <1>3
<1>5. TailSet(g, a) \subseteq States
  BY <1>3, <1>4 DEF TailSet
<1>6. IsFiniteSet(TailSet(g, a))
  BY <1>5, StatesAreFinite, FS_Subset
<1>7. QED
  BY <1>3, <1>4, <1>5, <1>6 DEF TailSet

LEMMA ExtendType ==
  ASSUME NEW c \in Int, NEW d \in Int
  PROVE  Extend(c, d) \in Int
BY UnreachableAssumption DEF Extend

(* Costs are added one after the other. *)
LEMMA TotalIsSum ==
  ASSUME NEW c \in Int, NEW parts \in Seq(Int)
  PROVE  \E total :
           /\ Total(c, parts) = total[Len(parts)]
           /\ total[0] = c
           /\ \A i \in 1 .. Len(parts) : total[i] = Extend(total[i - 1], parts[i])
<1>. DEFINE n == Len(parts)
            step == [x \in (1 .. n) \X Int |-> Extend(x[2], parts[x[1]])]
            IsTotal(f) == f = [i \in 0 .. n |-> IF i = 0 THEN c ELSE Extend(f[i - 1], parts[i])]
            total == CHOOSE f : IsTotal(f)
<1>1. n \in Nat /\ \A i \in 1 .. n : parts[i] \in Int
  OBVIOUS
<1>2. Total(c, parts) = total[n]
  BY DEF Total
<1>. HIDE DEF n
<1>3. step \in [(1 .. n) \X Int -> Int]
  BY <1>1, ExtendType
<1>4. \A i \in 1 .. n : \A k \in Int : step[<<i, k>>] = Extend(k, parts[i])
  OBVIOUS
<1>. HIDE DEF step
<1>5. PICK f \in [0 .. n -> Int] :
        f[0] = c /\ \A i \in 1 .. n : f[i] = step[<<i, f[i - 1]>>]
  <2>1. IsCount(Int, n, c, step)
    BY <1>1, <1>3 DEF IsCount
  <2>2. QED
    BY <2>1, ForExists
<1>6. \A i \in 1 .. n : i - 1 \in 0 .. n
  BY <1>1
<1>7. IsTotal(f)
  <2>1. \A i \in 1 .. n : f[i] = Extend(f[i - 1], parts[i])
    BY <1>4, <1>5, <1>6
  <2>2. \A i \in 0 .. n : i = 0 \/ i \in 1 .. n
    BY <1>1
  <2>3. QED
    BY <1>5, <2>1, <2>2
<1>8. IsTotal(total)
  <2>. HIDE DEF IsTotal
  <2>1. QED
    BY <1>7
<1>. HIDE DEF total
<1>9. total[0] = c /\ \A i \in 1 .. n : total[i] = Extend(total[i - 1], parts[i])
  BY <1>1, <1>8
<1>10. QED
  BY <1>2, <1>9 DEF n

(* What is kept by adding one more part holds of the total. *)
LEMMA TotalKeeps ==
  ASSUME NEW c \in Int, NEW parts \in Seq(Int), NEW Inv,
         c \in Inv[0],
         \A i \in 1 .. Len(parts) : \A k \in Inv[i - 1] : Extend(k, parts[i]) \in Inv[i]
  PROVE  Total(c, parts) \in Inv[Len(parts)]
<1>. PICK n : n = Len(parts)
  OBVIOUS
<1>1. PICK total :
        /\ Total(c, parts) = total[n]
        /\ total[0] = c
        /\ \A i \in 1 .. n : total[i] = Extend(total[i - 1], parts[i])
  <2>1. \E total :
          /\ Total(c, parts) = total[Len(parts)]
          /\ total[0] = c
          /\ \A i \in 1 .. Len(parts) : total[i] = Extend(total[i - 1], parts[i])
    BY TotalIsSum
  <2>2. QED
    BY <2>1
<1>2. n \in Nat
  OBVIOUS
<1>3. \A i \in 1 .. n : total[i - 1] \in Inv[i - 1] => total[i] \in Inv[i]
  BY <1>1
<1>4. \A i \in 0 .. n : total[i] \in Inv[i]
  BY <1>1, <1>2, <1>3, ForKeeps
<1>5. n \in 0 .. n
  BY <1>2
<1>6. QED
  BY <1>1, <1>4, <1>5

LEMMA TotalType ==
  ASSUME NEW c \in Int, NEW parts \in Seq(Int)
  PROVE  Total(c, parts) \in Int
<1>. PICK n : n = Len(parts)
  OBVIOUS
<1>. DEFINE Inv == [i \in 0 .. n |-> Int]
<1>1. n \in Nat /\ \A i \in 1 .. n : parts[i] \in Int
  OBVIOUS
<1>2. /\ \A i \in 0 .. n : Inv[i] = Int
      /\ \A i \in 1 .. n : i \in 0 .. n /\ i - 1 \in 0 .. n
      /\ 0 \in 0 .. n /\ n \in 0 .. n
  BY <1>1
<1>. HIDE DEF Inv
<1>3. \A i \in 1 .. n : \A k \in Inv[i - 1] : Extend(k, parts[i]) \in Inv[i]
  BY <1>1, <1>2, ExtendType
<1>4. Total(c, parts) \in Inv[n]
  BY <1>2, <1>3, TotalKeeps
<1>5. QED
  BY <1>2, <1>4

(* Without negative costs a total is as much as any part of it. *)
LEMMA TotalIsAbove ==
  ASSUME NEW c \in Nat, NEW parts \in Seq(Int), \A i \in 1 .. Len(parts) : parts[i] >= 0
  PROVE  /\ Total(c, parts) \in Nat
         /\ Total(c, parts) < Unreachable => \A i \in 1 .. Len(parts) : parts[i] <= Total(c, parts)
<1>. PICK n : n = Len(parts)
  OBVIOUS
<1>1. n \in Nat /\ \A i \in 1 .. n : parts[i] \in Nat
  OBVIOUS
<1>. DEFINE Above(i) == {k \in Nat : k < Unreachable => \A j \in 1 .. i : parts[j] <= k}
            Inv == [i \in 0 .. n |-> Above(i)]
<1>2. /\ \A i \in 0 .. n : Inv[i] = Above(i)
      /\ \A i \in 1 .. n : i \in 0 .. n /\ i - 1 \in 0 .. n
      /\ 0 \in 0 .. n /\ n \in 0 .. n
  BY <1>1
<1>. HIDE DEF Inv
<1>3. ASSUME NEW i \in 1 .. n, NEW k \in Inv[i - 1]
      PROVE  Extend(k, parts[i]) \in Inv[i]
  <2>1. PICK sum : sum = Extend(k, parts[i])
    OBVIOUS
  <2>2. /\ k \in Nat /\ parts[i] \in Nat
        /\ k < Unreachable => \A j \in 1 .. i - 1 : parts[j] <= k
    BY <1>1, <1>2
  <2>3. /\ sum \in Nat
        /\ sum < Unreachable => k < Unreachable /\ k <= sum /\ parts[i] <= sum
    BY <2>1, <2>2, UnreachableAssumption DEF Extend
  <2>4. ASSUME sum < Unreachable, NEW j \in 1 .. i
        PROVE  parts[j] <= sum
    <3>1. CASE j = i
      BY <2>3, <2>4, <3>1
    <3>2. CASE j # i
      <4>1. j \in 1 .. i - 1 /\ j \in 1 .. n
        BY <1>1, <3>2
      <4>2. parts[j] <= k /\ k <= sum /\ parts[j] \in Nat
        BY <1>1, <2>2, <2>3, <2>4, <4>1
      <4>3. QED
        BY <2>2, <2>3, <4>2
    <3>3. QED
      BY <3>1, <3>2
  <2>5. sum \in Above(i)
    BY <2>3, <2>4
  <2>6. QED
    BY <1>2, <2>1, <2>5
<1>4. c \in Inv[0]
  BY <1>2
<1>5. Total(c, parts) \in Inv[n]
  BY <1>3, <1>4, TotalKeeps
<1>6. QED
  BY <1>2, <1>5

(* A total is no more than what greater parts come to. *)
LEMMA ExtendIsMonotonic ==
  ASSUME NEW c \in Nat, NEW d \in Nat, NEW k \in Nat, NEW e \in Nat,
         c < Unreachable => k <= c, e <= d
  PROVE  /\ Extend(c, d) \in Nat /\ Extend(k, e) \in Nat
         /\ Extend(c, d) < Unreachable => Extend(k, e) <= Extend(c, d)
<1>1. Unreachable \in Nat
  BY UnreachableAssumption
<1>2. /\ Extend(c, d) = IF c = Unreachable \/ d = Unreachable THEN Unreachable ELSE c + d
      /\ Extend(k, e) = IF k = Unreachable \/ e = Unreachable THEN Unreachable ELSE k + e
  BY DEF Extend
<1>3. ASSUME Extend(c, d) < Unreachable PROVE Extend(k, e) <= Extend(c, d)
  <2>1. Extend(c, d) = c + d /\ c < Unreachable /\ d < Unreachable
    BY <1>1, <1>2, <1>3
  <2>2. k <= c /\ Extend(k, e) = k + e
    BY <1>1, <1>2, <2>1
  <2>3. QED
    BY <2>1, <2>2
<1>4. QED
  BY <1>1, <1>2, <1>3

LEMMA TotalIsMonotonic ==
  ASSUME NEW c \in Nat, NEW parts \in Seq(Int), NEW others \in Seq(Int),
         Len(parts) = Len(others),
         \A i \in 1 .. Len(parts) : 0 <= parts[i] /\ parts[i] <= others[i],
         Total(c, others) < Unreachable
  PROVE  Total(c, parts) <= Total(c, others)
<1>. PICK n : n = Len(parts)
  OBVIOUS
<1>1. PICK total :
        /\ Total(c, others) = total[n]
        /\ total[0] = c
        /\ \A i \in 1 .. n : total[i] = Extend(total[i - 1], others[i])
  BY TotalIsSum
<1>2. n \in Nat /\ \A i \in 1 .. n : parts[i] \in Nat /\ others[i] \in Nat /\ parts[i] <= others[i]
  OBVIOUS
<1>. DEFINE Below(i) ==
              {k \in Nat : /\ total[i] \in Nat
                           /\ total[i] < Unreachable => k <= total[i]}
            Inv == [i \in 0 .. n |-> Below(i)]
<1>3. /\ \A i \in 0 .. n : Inv[i] = Below(i)
      /\ \A i \in 1 .. n : i \in 0 .. n /\ i - 1 \in 0 .. n
      /\ 0 \in 0 .. n /\ n \in 0 .. n
  BY <1>2
<1>. HIDE DEF Inv
<1>4. ASSUME NEW i \in 1 .. n, NEW k \in Inv[i - 1]
      PROVE  Extend(k, parts[i]) \in Inv[i]
  <2>1. PICK sum, before : sum = Extend(k, parts[i]) /\ before = total[i - 1]
    OBVIOUS
  <2>2. /\ k \in Nat /\ before \in Nat /\ (before < Unreachable => k <= before)
    BY <1>3, <2>1
  <2>3. /\ total[i] = Extend(before, others[i])
        /\ parts[i] \in Nat /\ others[i] \in Nat /\ parts[i] <= others[i]
    BY <1>1, <1>2, <2>1
  <2>4. sum \in Nat /\ total[i] \in Nat /\ (total[i] < Unreachable => sum <= total[i])
    <3>1. PICK d, e : d = others[i] /\ e = parts[i]
      OBVIOUS
    <3>2. d \in Nat /\ e \in Nat /\ e <= d
      BY <2>3, <3>1
    <3>3. /\ Extend(before, d) \in Nat /\ Extend(k, e) \in Nat
          /\ Extend(before, d) < Unreachable => Extend(k, e) <= Extend(before, d)
      BY <2>2, <3>2, ExtendIsMonotonic
    <3>4. QED
      BY <2>1, <2>3, <3>1, <3>3
  <2>5. QED
    BY <1>3, <2>1, <2>4
<1>5. c \in Inv[0]
  <2>1. c \in Below(0)
    BY <1>1
  <2>2. QED
    BY <1>3, <2>1
<1>. HIDE DEF Below
<1>6. Total(c, parts) \in Inv[n]
  <2>1. \A i \in 1 .. Len(parts) : \A k \in Inv[i - 1] : Extend(k, parts[i]) \in Inv[i]
    BY <1>4
  <2>2. Total(c, parts) \in Inv[Len(parts)]
    BY <1>5, <2>1, TotalKeeps
  <2>3. QED
    BY <2>2
<1>. USE DEF Below
<1>7. QED
  BY <1>1, <1>3, <1>6

(* The costs of the tails of an arc, in order *)
PartsOf(g, a, m) == [i \in DOMAIN TailsOf(g, a) |-> m[TailsOf(g, a)[i]]]

LEMMA PartsType ==
  ASSUME NEW g, IsHypergraph(g), NEW a \in ArcIds(g), NEW m \in [States -> Int]
  PROVE  /\ CostWith(g, a, m) = Total(CostOf(g, a), PartsOf(g, a, m))
         /\ PartsOf(g, a, m) \in Seq(Int) /\ Len(PartsOf(g, a, m)) = Len(TailsOf(g, a))
         /\ \A i \in 1 .. Len(TailsOf(g, a)) : PartsOf(g, a, m)[i] = m[TailsOf(g, a)[i]]
<1>1. CostWith(g, a, m) = Total(CostOf(g, a), PartsOf(g, a, m))
  BY DEF CostWith, PartsOf
<1>2. /\ TailsOf(g, a) \in Seq(States) /\ Len(TailsOf(g, a)) \in Nat
      /\ DOMAIN TailsOf(g, a) = 1 .. Len(TailsOf(g, a))
      /\ \A i \in 1 .. Len(TailsOf(g, a)) : m[TailsOf(g, a)[i]] \in Int
  BY ArcTypes
<1>3. QED
  BY <1>1, <1>2 DEF PartsOf

LEMMA CostWithType ==
  ASSUME NEW g, IsHypergraph(g), NEW a \in ArcIds(g), NEW m \in [States -> Int]
  PROVE  CostWith(g, a, m) \in Int
BY PartsType, TotalType, ArcTypes

LEMMA CostWithIsAbove ==
  ASSUME NEW g, IsHypergraph(g), NEW a \in ArcIds(g), NEW m \in [States -> Int],
         CostOf(g, a) >= 0, \A s \in States : m[s] >= 0,
         CostWith(g, a, m) < Unreachable
  PROVE  /\ CostWith(g, a, m) >= 0
         /\ \A t \in TailSet(g, a) : m[t] <= CostWith(g, a, m)
<1>. PICK parts : parts = PartsOf(g, a, m)
  OBVIOUS
<1>1. /\ CostWith(g, a, m) = Total(CostOf(g, a), parts)
      /\ parts \in Seq(Int) /\ Len(parts) = Len(TailsOf(g, a))
      /\ \A i \in 1 .. Len(TailsOf(g, a)) : parts[i] = m[TailsOf(g, a)[i]]
  BY PartsType
<1>2. CostOf(g, a) \in Nat /\ \A i \in 1 .. Len(parts) : parts[i] >= 0
  BY <1>1, ArcTypes
<1>3. /\ CostWith(g, a, m) \in Nat
      /\ \A i \in 1 .. Len(parts) : parts[i] <= CostWith(g, a, m)
  BY <1>1, <1>2, TotalIsAbove
<1>4. QED
  BY <1>1, <1>3, ArcTypes

(* The cost of an arc depends on the costs of its tails only. *)
LEMMA CostWithDependsOnTails ==
  ASSUME NEW g, IsHypergraph(g), NEW a \in ArcIds(g), NEW m, NEW p,
         \A t \in TailSet(g, a) : m[t] = p[t]
  PROVE  CostWith(g, a, m) = CostWith(g, a, p)
<1>1. \A i \in DOMAIN TailsOf(g, a) : m[TailsOf(g, a)[i]] = p[TailsOf(g, a)[i]]
  BY DEF TailSet
<1>2. PartsOf(g, a, m) = PartsOf(g, a, p)
  BY <1>1 DEF PartsOf
<1>3. QED
  BY <1>2 DEF CostWith, PartsOf

-----------------------------------------------------------------------------
(* The queue of the axioms *)

LEMMA AddUnsortedType ==
  ASSUME NEW h \in Heaps(States), NEW s \in States
  PROVE  AddUnsorted(h, s) \in Heaps(States)
<1>1. h.data \in Seq(States) /\ h.loc \in [States -> Int] /\ Size(h) \in Int
  BY KeyAtType DEF Heaps
<1>2. Append(h.data, s) \in Seq(States) /\ [h.loc EXCEPT ![s] = Size(h)] \in [States -> Int]
  BY <1>1
<1>3. QED
  BY <1>2 DEF AddUnsorted, Heaps

AxiomsBelow(n) == {s \in States : s < n /\ IsAxiom(hg, s)}
Queues(n) ==
  {h \in Heaps(States) :
     PlacesAgree(h) /\ KeysOf(h) = AxiomsBelow(n) /\ \A s \in States : h.loc[s] \in Nat}

LEMMA AxiomIsAdded ==
  ASSUME NEW n \in 1 .. NumStates, NEW h \in Queues(n - 1)
  PROVE  (IF IsAxiom(hg, n - 1) THEN AddUnsorted(h, n - 1) ELSE h) \in Queues(n)
<1>1. n - 1 \in States /\ n \in Nat
  BY NumStatesAssumption DEF States
<1>2. AxiomsBelow(n) = AxiomsBelow(n - 1) \cup (IF IsAxiom(hg, n - 1) THEN {n - 1} ELSE {})
  <2>1. \A s \in States : s < n <=> s < n - 1 \/ s = n - 1
    BY <1>1, StatesAreFinite
  <2>2. QED
    BY <1>1, <2>1 DEF AxiomsBelow
<1>3. /\ h \in Heaps(States) /\ PlacesAgree(h) /\ KeysOf(h) = AxiomsBelow(n - 1)
      /\ \A s \in States : h.loc[s] \in Nat
  BY DEF Queues
<1>4. CASE ~IsAxiom(hg, n - 1)
  BY <1>2, <1>3, <1>4 DEF Queues
<1>5. CASE IsAxiom(hg, n - 1)
  <2>1. PICK longer : longer = AddUnsorted(h, n - 1)
    OBVIOUS
  <2>2. n - 1 \notin KeysOf(h)
    BY <1>1, <1>3 DEF AxiomsBelow
  <2>3. /\ longer \in Heaps(States) /\ PlacesAgree(longer)
        /\ KeysOf(longer) = KeysOf(h) \cup {n - 1}
        /\ LocKept(longer, h, {n - 1})
    BY <1>1, <1>3, <2>1, <2>2, AddUnsortedFacts
  <2>4. KeysOf(longer) = AxiomsBelow(n)
    BY <1>2, <1>3, <1>5, <2>3
  <2>5. ASSUME NEW s \in States PROVE longer.loc[s] \in Nat
    <3>1. CASE s = n - 1
      <4>1. PICK i \in Places(longer) : s = KeyAt(longer, i)
        BY <2>3, <3>1 DEF KeysOf
      <4>2. QED
        BY <2>3, <4>1 DEF PlacesAgree, Places
    <3>2. CASE s # n - 1
      BY <1>3, <2>3, <3>2 DEF LocKept, Heaps
    <3>3. QED
      BY <3>1, <3>2
  <2>6. QED
    BY <1>5, <2>1, <2>3, <2>4, <2>5 DEF Queues
<1>6. QED
  BY <1>4, <1>5

LEMMA AxiomQueueHoldsAxioms == AxiomQueue \in Queues(NumStates)
<1>. DEFINE step == [x \in (1 .. NumStates) \X Heaps(States) |->
                       IF IsAxiom(hg, x[1] - 1) THEN AddUnsorted(x[2], x[1] - 1) ELSE x[2]]
            IsAdded(f) == f = [n \in 0 .. NumStates |->
              IF n = 0 THEN EmptyHeap(States)
              ELSE IF IsAxiom(hg, n - 1) THEN AddUnsorted(f[n - 1], n - 1) ELSE f[n - 1]]
            added == CHOOSE f : IsAdded(f)
            Inv == [n \in 0 .. NumStates |-> Queues(n)]
<1>1. NumStates \in Nat
  BY NumStatesAssumption
<1>2. AxiomQueue = added[NumStates]
  BY DEF AxiomQueue
<1>3. EmptyHeap(States) \in Queues(0)
  <2>1. EmptyHeap(States) \in Heaps(States) /\ Size(EmptyHeap(States)) = 0
    BY EmptySeq DEF EmptyHeap, Heaps, Size
  <2>2. Places(EmptyHeap(States)) = {}
    BY <2>1 DEF Places
  <2>3. PlacesAgree(EmptyHeap(States))
    BY <2>1, <2>2 DEF PlacesAgree
  <2>4. KeysOf(EmptyHeap(States)) = {} /\ AxiomsBelow(0) = {}
    BY <2>2, StatesAreFinite DEF KeysOf, AxiomsBelow
  <2>5. \A s \in States : EmptyHeap(States).loc[s] \in Nat
    BY DEF EmptyHeap
  <2>6. QED
    BY <2>1, <2>3, <2>4, <2>5 DEF Queues
<1>4. step \in [(1 .. NumStates) \X Heaps(States) -> Heaps(States)]
  <2>1. \A n \in 1 .. NumStates : n - 1 \in States
    BY <1>1 DEF States
  <2>2. \A n \in 1 .. NumStates, h \in Heaps(States) : AddUnsorted(h, n - 1) \in Heaps(States)
    BY <2>1, AddUnsortedType
  <2>3. QED
    BY <2>2
<1>5. \A n \in 1 .. NumStates, h \in Heaps(States) :
        step[<<n, h>>] = IF IsAxiom(hg, n - 1) THEN AddUnsorted(h, n - 1) ELSE h
  OBVIOUS
<1>. HIDE DEF step
<1>6. PICK f \in [0 .. NumStates -> Heaps(States)] :
        f[0] = EmptyHeap(States) /\ \A n \in 1 .. NumStates : f[n] = step[<<n, f[n - 1]>>]
  <2>1. IsCount(Heaps(States), NumStates, EmptyHeap(States), step)
    BY <1>1, <1>3, <1>4 DEF IsCount, Queues
  <2>2. QED
    BY <2>1, ForExists
<1>7. IsAdded(f)
  <2>1. ASSUME NEW n \in 1 .. NumStates
        PROVE  f[n] = IF IsAxiom(hg, n - 1) THEN AddUnsorted(f[n - 1], n - 1) ELSE f[n - 1]
    <3>1. n - 1 \in 0 .. NumStates
      BY <1>1
    <3>2. QED
      BY <1>5, <1>6, <3>1
  <2>2. \A n \in 0 .. NumStates : n = 0 \/ n \in 1 .. NumStates
    BY <1>1
  <2>3. QED
    BY <1>6, <2>1, <2>2
<1>8. IsAdded(added)
  <2>. HIDE DEF IsAdded
  <2>1. QED
    BY <1>7
<1>. HIDE DEF added
<1>9. /\ added[0] = EmptyHeap(States)
      /\ \A n \in 1 .. NumStates :
           added[n] = IF IsAxiom(hg, n - 1) THEN AddUnsorted(added[n - 1], n - 1) ELSE added[n - 1]
  BY <1>1, <1>8
<1>10. /\ \A n \in 0 .. NumStates : Inv[n] = Queues(n)
       /\ \A n \in 1 .. NumStates : n \in 0 .. NumStates /\ n - 1 \in 0 .. NumStates
       /\ 0 \in 0 .. NumStates /\ NumStates \in 0 .. NumStates
  BY <1>1
<1>. HIDE DEF Inv
<1>11. ASSUME NEW n \in 1 .. NumStates, added[n - 1] \in Inv[n - 1]
       PROVE  added[n] \in Inv[n]
  <2>1. PICK h : h = added[n - 1]
    OBVIOUS
  <2>2. h \in Queues(n - 1)
    BY <1>10, <1>11, <2>1
  <2>3. (IF IsAxiom(hg, n - 1) THEN AddUnsorted(h, n - 1) ELSE h) \in Queues(n)
    BY <2>2, AxiomIsAdded
  <2>4. QED
    BY <1>9, <1>10, <2>1, <2>3
<1>12. added[0] \in Inv[0]
  BY <1>3, <1>9, <1>10
<1>13. \A n \in 0 .. NumStates : added[n] \in Inv[n]
  BY <1>1, <1>11, <1>12, ForKeeps
<1>14. QED
  BY <1>2, <1>10, <1>13

(* heapify leaves the queue as it is, since an axiom costs nothing. *)
LEMMA AxiomQueueIsQueue ==
  ASSUME NEW m \in [States -> Int],
         \A s \in States : IsAxiom(hg, s) => m[s] = 0,
         \E s \in States : IsAxiom(hg, s)
  PROVE  /\ Heapify(AxiomQueue, m) = AxiomQueue
         /\ IsQueue(AxiomQueue, States, m)
         /\ \A s \in States : s \in KeysOf(AxiomQueue) <=> IsAxiom(hg, s)
         /\ \A s \in States : AxiomQueue.loc[s] \in Nat
<1>1. /\ AxiomQueue \in Heaps(States) /\ PlacesAgree(AxiomQueue)
      /\ KeysOf(AxiomQueue) = AxiomsBelow(NumStates)
      /\ \A s \in States : AxiomQueue.loc[s] \in Nat
  BY AxiomQueueHoldsAxioms DEF Queues
<1>2. \A s \in States : s \in KeysOf(AxiomQueue) <=> IsAxiom(hg, s)
  <2>1. \A s \in States : s < NumStates
    BY NumStatesAssumption DEF States
  <2>2. QED
    BY <1>1, <2>1 DEF AxiomsBelow
<1>3. \A s \in KeysOf(AxiomQueue) : s \in States /\ m[s] = 0
  BY <1>1 DEF AxiomsBelow
<1>4. Size(AxiomQueue) \in Nat /\ Size(AxiomQueue) > 0
  <2>1. Size(AxiomQueue) \in Nat /\ KeysOf(AxiomQueue) # {}
    BY <1>1, <1>2, KeyAtType
  <2>2. QED
    BY <2>1 DEF KeysOf, Places
<1>5. Heapify(AxiomQueue, m) = AxiomQueue
  BY <1>1, <1>3, <1>4, HeapifyChangesNothing
<1>6. IsHeap(AxiomQueue, m)
  <2>1. ASSUME NEW i \in 1 .. Size(AxiomQueue) - 1
        PROVE  m[KeyAt(AxiomQueue, Parent(i))] <= m[KeyAt(AxiomQueue, i)]
    <3>1. i \in Nat \ {0} /\ Parent(i) \in 0 .. i - 1
      BY <1>4, ParentIsBelow
    <3>2. i \in Places(AxiomQueue) /\ Parent(i) \in Places(AxiomQueue)
      BY <1>4, <3>1 DEF Places
    <3>3. m[KeyAt(AxiomQueue, Parent(i))] = 0 /\ m[KeyAt(AxiomQueue, i)] = 0
      BY <1>3, <3>2 DEF KeysOf
    <3>4. QED
      BY <3>3
  <2>2. QED
    BY <2>1 DEF IsHeap
<1>7. QED
  BY <1>1, <1>2, <1>4, <1>5, <1>6, AgreeingIsPlaced DEF IsQueue

-----------------------------------------------------------------------------
(* The acyclic search *)

LEMMA FirstIsMember ==
  ASSUME NEW T \in SUBSET Nat, T # {}
  PROVE  First(T) \in T /\ \A k \in T : First(T) <= k
BY LeastNatural DEF First

LEMMA GraphTails ==
  ASSUME IsHypergraph(hg), IsGraph(hg), NEW a \in ArcIds(hg)
  PROVE  TailsOf(hg, a)[1] \in States
<1>1. TailsOf(hg, a) \in Seq(States) /\ TailsOf(hg, a) # <<>>
  BY ArcTypes DEF IsGraph
<1>2. 1 \in 1 .. Len(TailsOf(hg, a))
  BY <1>1, EmptySeq
<1>3. QED
  BY <1>1, <1>2, ElementOfSeq

Colors == {"fresh", "opened", "closed"}
Calls == [state : States, arc : Nat]

LEMMA DfsStepType ==
  ASSUME IsHypergraph(hg), IsGraph(hg), NEW dfs \in Dfs
  PROVE  DfsStep[dfs] \in Dfs
<1>. PICK calls : calls = dfs.calls
  OBVIOUS
<1>. PICK n : n = Len(calls)
  OBVIOUS
<1>. PICK call : call = calls[n]
  OBVIOUS
<1>. PICK below : below = SubSeq(calls, 1, n - 1)
  OBVIOUS
<1>. DEFINE Left == {a \in ArcIds(hg) : a > call.arc /\ TailsOf(hg, a)[1] = call.state}
<1>. PICK left : left = Left
  OBVIOUS
<1>. PICK to : to = HeadOf(hg, First(left))
  OBVIOUS
<1>. PICK next : next = Append(below, [call EXCEPT !.arc = First(left)])
  OBVIOUS
<1>. DEFINE Value ==
              IF n = 0 \/ dfs.backEdges > MaxBackEdges THEN dfs
              ELSE IF left = {}
                THEN [dfs EXCEPT !.order = LeftLast(@, call.state),
                                 !.color[call.state] = "closed", !.calls = below]
              ELSE IF dfs.color[to] = "fresh"
                THEN [dfs EXCEPT !.color[to] = "opened",
                                 !.calls = Append(next, [state |-> to, arc |-> 0])]
              ELSE IF dfs.color[to] = "opened" /\ to # call.state
                THEN [dfs EXCEPT !.backEdges = @ + 1, !.calls = next]
              ELSE [dfs EXCEPT !.calls = next]
<1>. PICK value : value = DfsStep[dfs]
  OBVIOUS
<1>1. value = Value
  BY DEF DfsStep
<1>. HIDE DEF Left
<1>2. /\ dfs.color \in [States -> Colors] /\ dfs.order \in Seq(States)
      /\ dfs.backEdges \in Nat /\ calls \in Seq(Calls) /\ n \in Nat
      /\ dfs = [color |-> dfs.color, order |-> dfs.order, backEdges |-> dfs.backEdges,
                calls |-> dfs.calls]
  BY DEF Dfs, Colors, Calls
<1>3. CASE n = 0 \/ dfs.backEdges > MaxBackEdges
  BY <1>1, <1>3
<1>4. CASE ~(n = 0 \/ dfs.backEdges > MaxBackEdges)
  <2>1. n \in 1 .. Len(calls)
    BY <1>2, <1>4
  <2>2. call \in Calls /\ call.state \in States /\ call.arc \in Nat
    <3>1. call \in Calls
      BY <1>2, <2>1, ElementOfSeq
    <3>2. QED
      BY <3>1 DEF Calls
  <2>3. below \in Seq(Calls)
    <3>1. \A i \in 1 .. n - 1 : calls[i] \in Calls
      BY <1>2, ElementOfSeq
    <3>2. QED
      BY <1>2, <3>1, SubSeqProperties
  <2>4. CASE left = {}
    <3>1. value = [dfs EXCEPT !.order = LeftLast(@, call.state),
                              !.color[call.state] = "closed", !.calls = below]
      BY <1>1, <1>4, <2>4
    <3>2. value = [color |-> [dfs.color EXCEPT ![call.state] = "closed"],
                   order |-> Append(dfs.order, call.state),
                   backEdges |-> dfs.backEdges, calls |-> below]
      BY <1>2, <3>1 DEF LeftLast
    <3>3. /\ [dfs.color EXCEPT ![call.state] = "closed"] \in [States -> Colors]
          /\ Append(dfs.order, call.state) \in Seq(States)
      BY <1>2, <2>2 DEF Colors
    <3>4. QED
      BY <1>2, <2>3, <3>2, <3>3 DEF Dfs, Colors, Calls
  <2>5. CASE left # {}
    <3>1. /\ First(left) \in Nat /\ First(left) \in ArcIds(hg)
      <4>1. \A a \in left : a \in ArcIds(hg) /\ a \in Nat
        BY ArcTypes DEF Left
      <4>2. QED
        BY <2>5, <4>1, FirstIsMember
    <3>2. to \in States
      BY <3>1, ArcTypes
    <3>3. next \in Seq(Calls)
      <4>1. [call EXCEPT !.arc = First(left)] \in Calls
        BY <2>2, <3>1 DEF Calls
      <4>2. QED
        BY <2>3, <4>1
    <3>4. Append(next, [state |-> to, arc |-> 0]) \in Seq(Calls)
      BY <3>2, <3>3 DEF Calls
    <3>5. CASE dfs.color[to] = "fresh"
      <4>1. value = [dfs EXCEPT !.color[to] = "opened",
                                !.calls = Append(next, [state |-> to, arc |-> 0])]
        BY <1>1, <1>4, <2>5, <3>5
      <4>2. value = [color |-> [dfs.color EXCEPT ![to] = "opened"], order |-> dfs.order,
                     backEdges |-> dfs.backEdges,
                     calls |-> Append(next, [state |-> to, arc |-> 0])]
        BY <1>2, <4>1
      <4>3. [dfs.color EXCEPT ![to] = "opened"] \in [States -> Colors]
        BY <1>2, <3>2 DEF Colors
      <4>4. QED
        BY <1>2, <3>4, <4>2, <4>3 DEF Dfs, Colors, Calls
    <3>6. CASE dfs.color[to] # "fresh" /\ dfs.color[to] = "opened" /\ to # call.state
      <4>1. value = [dfs EXCEPT !.backEdges = @ + 1, !.calls = next]
        BY <1>1, <1>4, <2>5, <3>6
      <4>2. value = [color |-> dfs.color, order |-> dfs.order,
                     backEdges |-> dfs.backEdges + 1, calls |-> next]
        BY <1>2, <4>1
      <4>3. QED
        BY <1>2, <3>3, <4>2 DEF Dfs, Colors, Calls
    <3>7. CASE dfs.color[to] # "fresh" /\ ~(dfs.color[to] = "opened" /\ to # call.state)
      <4>1. value = [dfs EXCEPT !.calls = next]
        BY <1>1, <1>4, <2>5, <3>7
      <4>2. value = [color |-> dfs.color, order |-> dfs.order,
                     backEdges |-> dfs.backEdges, calls |-> next]
        BY <1>2, <4>1
      <4>3. QED
        BY <1>2, <3>3, <4>2 DEF Dfs, Colors, Calls
    <3>8. QED
      BY <3>5, <3>6, <3>7
  <2>6. QED
    BY <2>4, <2>5
<1>5. QED
  BY <1>3, <1>4

(* The order it finds is one of states. *)
LEMMA OrderIsOfStates ==
  ASSUME IsHypergraph(hg), IsGraph(hg), hg.start # NoState
  PROVE  TailsLast.order \in Seq(States)
<1>. DEFINE steps == Len(hg.arcs) + NumStates
            step == [x \in (1 .. steps) \X Dfs |-> DfsStep[x[2]]]
            IsDfs(f) == f = [n \in 0 .. steps |-> IF n = 0 THEN DfsStart ELSE DfsStep[f[n - 1]]]
            dfs == CHOOSE f : IsDfs(f)
            Inv == [n \in 0 .. steps |-> Dfs]
<1>1. steps \in Nat
  BY NumStatesAssumption DEF IsHypergraph
<1>2. TailsLast = dfs[steps]
  BY DEF TailsLast
<1>3. DfsStart \in Dfs
  <2>1. hg.start \in States
    BY DEF IsHypergraph
  <2>2. <<[state |-> hg.start, arc |-> 0]>> \in Seq([state : States, arc : Nat])
    BY <2>1
  <2>3. <<>> \in Seq(States)
    BY EmptySeq
  <2>4. QED
    BY <2>2, <2>3 DEF DfsStart, Dfs
<1>. HIDE DEF steps
<1>4. \A d \in Dfs : DfsStep[d] \in Dfs
  BY DfsStepType
<1>5. step \in [(1 .. steps) \X Dfs -> Dfs]
  BY <1>4
<1>6. \A n \in 1 .. steps, d \in Dfs : step[<<n, d>>] = DfsStep[d]
  OBVIOUS
<1>. HIDE DEF step
<1>7. PICK f \in [0 .. steps -> Dfs] :
        f[0] = DfsStart /\ \A n \in 1 .. steps : f[n] = step[<<n, f[n - 1]>>]
  <2>1. IsCount(Dfs, steps, DfsStart, step)
    BY <1>1, <1>3, <1>5 DEF IsCount
  <2>2. QED
    BY <2>1, ForExists
<1>8. IsDfs(f)
  <2>1. \A n \in 1 .. steps : n - 1 \in 0 .. steps
    BY <1>1
  <2>2. \A n \in 1 .. steps : f[n] = DfsStep[f[n - 1]]
    BY <1>6, <1>7, <2>1
  <2>3. \A n \in 0 .. steps : n = 0 \/ n \in 1 .. steps
    BY <1>1
  <2>4. QED
    BY <1>7, <2>2, <2>3
<1>9. IsDfs(dfs)
  <2>. HIDE DEF IsDfs
  <2>1. QED
    BY <1>8
<1>. HIDE DEF dfs
<1>10. dfs[0] = DfsStart /\ \A n \in 1 .. steps : dfs[n] = DfsStep[dfs[n - 1]]
  BY <1>1, <1>9
<1>11. /\ \A n \in 0 .. steps : Inv[n] = Dfs
       /\ \A n \in 1 .. steps : n \in 0 .. steps /\ n - 1 \in 0 .. steps
       /\ 0 \in 0 .. steps /\ steps \in 0 .. steps
  BY <1>1
<1>. HIDE DEF Inv
<1>12. \A n \in 1 .. steps : dfs[n - 1] \in Inv[n - 1] => dfs[n] \in Inv[n]
  BY <1>4, <1>10, <1>11
<1>13. dfs[0] \in Inv[0]
  BY <1>3, <1>10, <1>11
<1>14. \A n \in 0 .. steps : dfs[n] \in Inv[n]
  BY <1>1, <1>12, <1>13, ForKeeps
<1>15. dfs[steps] \in Dfs
  BY <1>11, <1>14
<1>16. QED
  BY <1>2, <1>15 DEF Dfs

(* Relaxing keeps the types, and the arc at the root of a derivation leads to
   its state. *)
TypedTrees ==
  {best \in [mu : [States -> Int], pi : [States -> {0} \cup ArcIds(hg)]] :
     \A s \in States : best.pi[s] # 0 => HeadOf(hg, best.pi[s]) = s}

LEMMA ImproveType ==
  ASSUME IsHypergraph(hg), IsGraph(hg), NEW best \in TypedTrees, NEW a \in ArcIds(hg)
  PROVE  Improve[<<best, a>>] \in TypedTrees
<1>. PICK cost : cost = Extend(CostOf(hg, a), best.mu[TailsOf(hg, a)[1]])
  OBVIOUS
<1>. PICK head : head = HeadOf(hg, a)
  OBVIOUS
<1>1. /\ best.mu \in [States -> Int] /\ best.pi \in [States -> {0} \cup ArcIds(hg)]
      /\ \A s \in States : best.pi[s] # 0 => HeadOf(hg, best.pi[s]) = s
  BY DEF TypedTrees
<1>2. a \in Nat \ {0} /\ head \in States /\ CostOf(hg, a) \in Int /\ TailsOf(hg, a)[1] \in States
  BY ArcTypes, GraphTails
<1>3. cost \in Int
  BY <1>1, <1>2, ExtendType
<1>4. <<best, a>> \in Trees \X ArcIds(hg)
  <2>1. \A b \in ArcIds(hg) : b \in Nat
    BY ArcTypes
  <2>2. best.pi \in [States -> Nat]
    BY <1>1, <2>1
  <2>3. best = [mu |-> best.mu, pi |-> best.pi]
    BY DEF TypedTrees
  <2>4. QED
    BY <1>1, <2>2, <2>3 DEF Trees
<1>5. Improve[<<best, a>>] = IF cost < best.mu[head]
                               THEN [mu |-> [best.mu EXCEPT ![head] = cost],
                                     pi |-> [best.pi EXCEPT ![head] = a]]
                               ELSE best
  BY <1>4 DEF Improve
<1>6. [mu |-> [best.mu EXCEPT ![head] = cost], pi |-> [best.pi EXCEPT ![head] = a]] \in TypedTrees
  <2>1. [best.mu EXCEPT ![head] = cost] \in [States -> Int]
    BY <1>1, <1>3
  <2>2. [best.pi EXCEPT ![head] = a] \in [States -> {0} \cup ArcIds(hg)]
    BY <1>1
  <2>3. \A s \in States : [best.pi EXCEPT ![head] = a][s] # 0 =>
          HeadOf(hg, [best.pi EXCEPT ![head] = a][s]) = s
    BY <1>1, <1>2
  <2>4. QED
    BY <2>1, <2>2, <2>3 DEF TypedTrees
<1>7. QED
  BY <1>5, <1>6

LEMMA ImprovedType ==
  ASSUME IsHypergraph(hg), IsGraph(hg), [mu |-> mu, pi |-> pi] \in TypedTrees, NEW s \in States
  PROVE  Improved(s) \in TypedTrees
<1>. DEFINE N == Len(hg.arcs)
            start == [mu |-> mu, pi |-> pi]
            Turn(n, best) == IF TailsOf(hg, n)[1] = s THEN Improve[<<best, n>>] ELSE best
            step == [x \in (1 .. N) \X TypedTrees |-> Turn(x[1], x[2])]
            IsBest(f) == f = [n \in 0 .. N |-> IF n = 0 THEN start ELSE Turn(n, f[n - 1])]
            best == CHOOSE f : IsBest(f)
            Inv == [n \in 0 .. N |-> TypedTrees]
<1>1. N \in Nat /\ \A n \in 1 .. N : n \in ArcIds(hg)
  BY LenProperties DEF IsHypergraph, ArcIds
<1>2. Improved(s) = best[N]
  BY DEF Improved
<1>3. ASSUME NEW n \in 1 .. N, NEW b \in TypedTrees
      PROVE  Turn(n, b) \in TypedTrees
  BY <1>1, ImproveType
<1>4. start \in TypedTrees
  OBVIOUS
<1>. HIDE DEF N, Turn, start
<1>5. step \in [(1 .. N) \X TypedTrees -> TypedTrees]
  BY <1>3
<1>6. \A n \in 1 .. N, b \in TypedTrees : step[<<n, b>>] = Turn(n, b)
  OBVIOUS
<1>. HIDE DEF step
<1>7. PICK f \in [0 .. N -> TypedTrees] :
        f[0] = start /\ \A n \in 1 .. N : f[n] = step[<<n, f[n - 1]>>]
  <2>1. IsCount(TypedTrees, N, start, step)
    BY <1>1, <1>4, <1>5 DEF IsCount
  <2>2. QED
    BY <2>1, ForExists
<1>8. IsBest(f)
  <2>1. \A n \in 1 .. N : n - 1 \in 0 .. N
    BY <1>1
  <2>2. \A n \in 1 .. N : f[n] = Turn(n, f[n - 1])
    BY <1>6, <1>7, <2>1
  <2>3. \A n \in 0 .. N : n = 0 \/ n \in 1 .. N
    BY <1>1
  <2>4. QED
    BY <1>7, <2>2, <2>3
<1>9. IsBest(best)
  <2>. HIDE DEF IsBest
  <2>1. QED
    BY <1>8
<1>. HIDE DEF best
<1>10. best[0] = start /\ \A n \in 1 .. N : best[n] = Turn(n, best[n - 1])
  BY <1>1, <1>9
<1>11. /\ \A n \in 0 .. N : Inv[n] = TypedTrees
       /\ \A n \in 1 .. N : n \in 0 .. N /\ n - 1 \in 0 .. N
       /\ 0 \in 0 .. N /\ N \in 0 .. N
  BY <1>1
<1>. HIDE DEF Inv
<1>12. \A n \in 1 .. N : best[n - 1] \in Inv[n - 1] => best[n] \in Inv[n]
  BY <1>3, <1>10, <1>11
<1>13. best[0] \in Inv[0]
  BY <1>4, <1>10, <1>11
<1>14. \A n \in 0 .. N : best[n] \in Inv[n]
  BY <1>1, <1>12, <1>13, ForKeeps
<1>15. QED
  BY <1>2, <1>11, <1>14

Queued == KeysOf(heap)

(* A state that was popped, while the search runs *)
WasReached(s) ==
  IF opt.allowRereach > 0 THEN rereach[s] > 0 ELSE heap.loc[s] = NullIndex

-----------------------------------------------------------------------------
(* The inductive invariant *)

JobInv ==
  /\ IsHypergraph(hg)
  /\ \E s \in States : IsAxiom(hg, s)
  /\ opt.allowRereach \in Nat

SearchTypeInv ==
  /\ heap \in Heaps(States)
  /\ reached \in States \cup {NoState}
  /\ isFirstReach \in BOOLEAN

(* Until the search begins nothing of it has changed, and AcyclicBest only gets
   simple graphs. *)
NothingYet ==
  phase \in {"choose", "acyclic", "axioms"} =>
    /\ heap = EmptyHeap(States)
    /\ rereach = [s \in States |-> 0]
    /\ reached = NoState
    /\ agenda = {}
    /\ IF phase = "acyclic" THEN IsGraph(hg) ELSE pi = [s \in States |-> 0]

(* It ends when nothing is queued. *)
EndInv == phase = "done" => heap.data = <<>>

QueueInv == phase = "search" => IsQueue(heap, States, mu)

(* What is queued or was reached has a cost. *)
CostInv ==
  phase = "search" =>
    \A s \in States :
      /\ mu[s] <= Unreachable
      /\ s \in Queued \/ WasReached(s) => mu[s] # Unreachable

(* The agenda is about the state popped last. *)
AgendaInv ==
  phase = "search" =>
    /\ reached \in States => WasReached(reached)
    /\ \A a \in agenda : reached \in TailSet(hg, a)

(* The tails of an arc that remain[a] has yet to count *)
Uncounted(a) ==
  {t \in TailSet(hg, a) : ~WasReached(t) \/ (t = reached /\ isFirstReach /\ a \in agenda)}

RemainInv ==
  phase = "search" => \A a \in ArcIds(hg) : Cardinality(Uncounted(a)) <= remain[a]

(* Without negative costs the states are reached in the order of their costs. *)
KnuthInv ==
  phase = "search" /\ IsNonNegative =>
    /\ \A s \in States : mu[s] >= 0
    /\ \A s \in States : WasReached(s) =>
         s \notin Queued /\ reached \in States /\ mu[s] <= mu[reached]
    /\ \A s \in Queued : reached \in States => mu[reached] <= mu[s]

(* What the search relies on: the queue has to hold every state once. *)
OnceInv == QueueInv /\ CostInv /\ AgendaInv /\ RemainInv /\ KnuthInv

IInv ==
  /\ JobInv /\ BestTreeTypeOK /\ SearchTypeInv /\ NothingYet /\ EndInv
  /\ ~isQueuedTwice => OnceInv

-----------------------------------------------------------------------------
(* The steps around the search *)

LEMMA EmptyHeapType ==
  /\ EmptyHeap(States) \in Heaps(States)
  /\ EmptyHeap(States).data = <<>>
  /\ EmptyHeap(States).loc \in [States -> Nat \cup {NullIndex}]
BY EmptySeq DEF EmptyHeap, Heaps

LEMMA InitIsIInv == Init => IInv
<1>. SUFFICES ASSUME Init PROVE IInv
  OBVIOUS
<1>. USE DEF Init
<1>1. JobInv
  BY JobsAssumption DEF JobInv
<1>2. BestTreeTypeOK
  <2>1. mu \in [States -> Int]
    BY UnreachableAssumption
  <2>2. order \in Seq(States)
    BY EmptySeq
  <2>3. heap.data \in Seq(States) /\ heap.loc \in [States -> Nat \cup {NullIndex}]
    BY EmptyHeapType DEF Heaps
  <2>4. pi \in [States -> {0} \cup ArcIds(hg)] /\ \A s \in States : pi[s] = 0
    OBVIOUS
  <2>5. QED
    BY <2>1, <2>2, <2>3, <2>4 DEF BestTreeTypeOK
<1>3. SearchTypeInv
  BY EmptyHeapType DEF SearchTypeInv
<1>4. NothingYet /\ EndInv
  BY DEF NothingYet, EndInv
<1>5. OnceInv
  BY DEF OnceInv, QueueInv, CostInv, AgendaInv, RemainInv, KnuthInv
<1>6. QED
  BY <1>1, <1>2, <1>3, <1>4, <1>5 DEF IInv

LEMMA StutterKeepsIInv == IInv /\ UNCHANGED vars => IInv'
<1>. SUFFICES ASSUME IInv, UNCHANGED vars PROVE IInv'
  OBVIOUS
<1>. USE DEF IInv, vars, input, result, search
<1>1. JobInv' /\ BestTreeTypeOK' /\ SearchTypeInv' /\ NothingYet' /\ EndInv'
  BY DEF JobInv, BestTreeTypeOK, SearchTypeInv, NothingYet, EndInv
<1>2. OnceInv' <=> OnceInv
  BY DEF OnceInv, QueueInv, CostInv, AgendaInv, RemainInv, KnuthInv, Queued, WasReached,
         Uncounted, IsNonNegative
<1>3. QED
  BY <1>1, <1>2

LEMMA InputIsKept ==
  ASSUME IInv, [BestTreeNext]_vars
  PROVE  hg' = hg /\ opt' = opt /\ JobInv'
BY DEF IInv, JobInv, BestTreeNext, vars, input, ChooseAcyclic, RelaxOutArcs, AcyclicDone,
       ChooseBestFirst, AddAxioms, PopBest, ReachArc, SearchDone

AxiomCosts == [s \in States |-> IF IsAxiom(hg, s) THEN 0 ELSE Unreachable]

LEMMA AxiomCostsType == AxiomCosts \in [States -> Int]
BY UnreachableAssumption DEF AxiomCosts

LEMMA ChooseAcyclicKeepsIInv == IInv /\ ChooseAcyclic => IInv'
<1>. SUFFICES ASSUME IInv, ChooseAcyclic PROVE IInv'
  OBVIOUS
<1>. USE DEF IInv, ChooseAcyclic, input, search
<1>1. JobInv' /\ phase' = "acyclic" /\ IsGraph(hg') /\ UsesAcyclic
  BY DEF JobInv, UsesAcyclic
<1>2. BestTreeTypeOK'
  <2>1. order' \in Seq(States)
    BY OrderIsOfStates DEF UsesAcyclic, JobInv
  <2>2. mu' \in [States -> Int]
    BY AxiomCostsType DEF AxiomCosts
  <2>3. QED
    BY <2>1, <2>2 DEF BestTreeTypeOK
<1>3. SearchTypeInv' /\ NothingYet' /\ EndInv'
  BY <1>1 DEF SearchTypeInv, NothingYet, EndInv
<1>4. OnceInv'
  BY <1>1 DEF OnceInv, QueueInv, CostInv, AgendaInv, RemainInv, KnuthInv
<1>5. QED
  BY <1>1, <1>2, <1>3, <1>4

LEMMA RelaxOutArcsKeepsIInv == IInv /\ RelaxOutArcs => IInv'
<1>. SUFFICES ASSUME IInv, RelaxOutArcs PROVE IInv'
  OBVIOUS
<1>. USE DEF IInv, RelaxOutArcs, input, search
<1>1. JobInv' /\ phase' = "acyclic" /\ IsHypergraph(hg) /\ IsGraph(hg)
  BY DEF JobInv, NothingYet
<1>2. order \in Seq(States) /\ order # <<>>
  BY DEF BestTreeTypeOK
<1>3. Len(order) \in 1 .. Len(order) /\ order[Len(order)] \in States
  BY <1>2, EmptySeq, ElementOfSeq
<1>4. PICK best : best = Improved(order[Len(order)])
  OBVIOUS
<1>5. [mu |-> mu, pi |-> pi] \in TypedTrees
  BY DEF TypedTrees, BestTreeTypeOK
<1>6. best \in TypedTrees
  BY <1>1, <1>3, <1>4, <1>5, ImprovedType
<1>7. /\ mu' \in [States -> Int] /\ pi' \in [States -> {0} \cup ArcIds(hg)]
      /\ \A s \in States : pi'[s] # 0 => HeadOf(hg, pi'[s]) = s
  BY <1>4, <1>6 DEF TypedTrees
<1>8. order' \in Seq(States)
  <2>1. \A i \in 1 .. Len(order) - 1 : order[i] \in States
    BY <1>2, ElementOfSeq
  <2>2. QED
    BY <1>2, <2>1, SubSeqProperties
<1>9. BestTreeTypeOK'
  BY <1>7, <1>8 DEF BestTreeTypeOK
<1>10. SearchTypeInv' /\ NothingYet' /\ EndInv'
  BY <1>1 DEF SearchTypeInv, NothingYet, EndInv
<1>11. OnceInv'
  BY <1>1 DEF OnceInv, QueueInv, CostInv, AgendaInv, RemainInv, KnuthInv
<1>12. QED
  BY <1>1, <1>9, <1>10, <1>11

LEMMA PhaseStepsKeepIInv == IInv /\ (AcyclicDone \/ ChooseBestFirst \/ SearchDone) => IInv'
<1>. SUFFICES ASSUME IInv, AcyclicDone \/ ChooseBestFirst \/ SearchDone PROVE IInv'
  OBVIOUS
<1>. USE DEF IInv, AcyclicDone, ChooseBestFirst, SearchDone, input, result, search
<1>1. /\ phase' \in {"axioms", "done"}
      /\ phase' = "axioms" => phase = "choose"
      /\ phase' = "done" => \/ phase = "acyclic"
                            \/ phase = "search" /\ Size(heap) = 0
      /\ UNCHANGED <<input, result, search>>
  OBVIOUS
<1>2. JobInv' /\ BestTreeTypeOK' /\ SearchTypeInv' /\ NothingYet'
  BY <1>1 DEF JobInv, BestTreeTypeOK, SearchTypeInv, NothingYet
<1>3. EndInv'
  <2>1. heap.data \in Seq(States)
    BY DEF BestTreeTypeOK
  <2>2. Size(heap) = 0 => heap.data = <<>>
    BY <2>1, EmptySeq DEF Size
  <2>3. phase = "acyclic" => heap.data = <<>>
    BY EmptyHeapType DEF NothingYet
  <2>4. QED
    BY <1>1, <2>2, <2>3 DEF EndInv
<1>4. OnceInv'
  BY <1>1 DEF OnceInv, QueueInv, CostInv, AgendaInv, RemainInv, KnuthInv
<1>5. QED
  BY <1>2, <1>3, <1>4

LEMMA TailsAreFinite ==
  ASSUME IsHypergraph(hg), NEW a \in ArcIds(hg), NEW T \in SUBSET TailSet(hg, a)
  PROVE  /\ IsFiniteSet(T) /\ Cardinality(T) \in Nat
         /\ Cardinality(T) <= Cardinality(TailSet(hg, a)) /\ Cardinality(TailSet(hg, a)) \in Nat
         /\ Cardinality(T) = 0 <=> T = {}
<1>1. IsFiniteSet(TailSet(hg, a))
  BY ArcTypes
<1>2. IsFiniteSet(T) /\ Cardinality(T) <= Cardinality(TailSet(hg, a))
  BY <1>1, FS_Subset
<1>3. QED
  BY <1>1, <1>2, FS_CardinalityType, FS_EmptySet

(* Nothing was reached when the axioms are queued. *)
LEMMA AddAxiomsFacts ==
  ASSUME IInv, AddAxioms
  PROVE  /\ phase' = "search" /\ UNCHANGED <<input, pi, reached, rereach, agenda>>
         /\ reached = NoState /\ agenda = {}
         /\ mu' = AxiomCosts /\ mu' \in [States -> Int]
         /\ remain' = [a \in ArcIds(hg) |-> UniqueTails(a)]
         /\ IsQueue(heap', States, mu')
         /\ \A s \in States : s \in KeysOf(heap') <=> IsAxiom(hg, s)
         /\ \A s \in States : heap'.loc[s] \in Nat
         /\ \A s \in States : ~WasReached(s)'
<1>. USE DEF IInv, AddAxioms
<1>1. /\ phase' = "search" /\ UNCHANGED <<input, pi, reached, rereach, agenda>>
      /\ reached = NoState /\ agenda = {} /\ rereach = [s \in States |-> 0]
      /\ mu' = AxiomCosts /\ mu' \in [States -> Int]
      /\ remain' = [a \in ArcIds(hg) |-> UniqueTails(a)]
  BY AxiomCostsType DEF NothingYet, AxiomCosts, RemainAtStart
<1>2. \A s \in States : IsAxiom(hg, s) => mu'[s] = 0
  BY <1>1 DEF AxiomCosts
<1>3. /\ heap' = AxiomQueue
      /\ IsQueue(heap', States, mu')
      /\ \A s \in States : s \in KeysOf(heap') <=> IsAxiom(hg, s)
      /\ \A s \in States : heap'.loc[s] \in Nat
  BY <1>1, <1>2, AxiomQueueIsQueue DEF JobInv
<1>4. \A s \in States : ~WasReached(s)'
  <2>. HIDE DEF IInv, AddAxioms
  <2>1. \A s \in States : heap'.loc[s] # NullIndex
    BY <1>3 DEF NullIndex
  <2>2. \A s \in States : rereach'[s] = 0
    BY <1>1
  <2>3. QED
    BY <2>1, <2>2 DEF WasReached
<1>5. QED
  BY <1>1, <1>3, <1>4

LEMMA AddAxiomsKeepsIInv == IInv /\ AddAxioms => IInv'
<1>. SUFFICES ASSUME IInv, AddAxioms PROVE IInv'
  OBVIOUS
<1>. USE DEF IInv
<1>1. /\ phase' = "search" /\ UNCHANGED <<input, pi, reached, rereach, agenda>>
      /\ reached = NoState /\ agenda = {}
      /\ mu' = AxiomCosts /\ mu' \in [States -> Int]
      /\ remain' = [a \in ArcIds(hg) |-> UniqueTails(a)]
      /\ IsQueue(heap', States, mu')
      /\ \A s \in States : s \in KeysOf(heap') <=> IsAxiom(hg, s)
      /\ \A s \in States : heap'.loc[s] \in Nat
      /\ \A s \in States : ~WasReached(s)'
  BY AddAxiomsFacts
<1>2. JobInv' /\ IsHypergraph(hg)
  BY <1>1 DEF JobInv, input
<1>3. heap'.data \in Seq(States) /\ heap'.loc \in [States -> Nat \cup {NullIndex}]
  BY <1>1 DEF IsQueue, Heaps
<1>4. BestTreeTypeOK'
  <2>1. remain' \in [ArcIds(hg) -> Nat]
    BY <1>1, <1>2, TailsAreFinite DEF UniqueTails
  <2>2. UNCHANGED <<order, isMarkedAcyclic, isBlocked, isQueuedTwice>>
    BY DEF AddAxioms
  <2>3. QED
    BY <1>1, <1>3, <2>1, <2>2 DEF BestTreeTypeOK, input
<1>5. SearchTypeInv'
  <2>1. isFirstReach' = isFirstReach
    BY DEF AddAxioms
  <2>2. QED
    BY <1>1, <2>1 DEF SearchTypeInv, IsQueue
<1>6. NothingYet' /\ EndInv' /\ QueueInv' /\ AgendaInv'
  BY <1>1, StatesAreFinite DEF NothingYet, EndInv, QueueInv, AgendaInv
<1>7. CostInv'
  BY <1>1, UnreachableAssumption DEF CostInv, AxiomCosts, Queued
<1>8. RemainInv'
  <2>1. ASSUME NEW a \in ArcIds(hg)
        PROVE  Cardinality(Uncounted(a)') <= remain'[a]
    <3>1. Uncounted(a)' \in SUBSET TailSet(hg, a)
      BY <1>1 DEF Uncounted, input
    <3>2. QED
      BY <1>1, <1>2, <3>1, TailsAreFinite DEF UniqueTails
  <2>2. QED
    BY <1>1, <2>1 DEF RemainInv, input
<1>9. KnuthInv'
  <2>1. \A s \in States : mu'[s] >= 0
    BY <1>1, UnreachableAssumption DEF AxiomCosts
  <2>2. QED
    BY <1>1, <2>1, StatesAreFinite DEF KnuthInv, Queued
<1>10. QED
  BY <1>2, <1>4, <1>5, <1>6, <1>7, <1>8, <1>9 DEF OnceInv

-----------------------------------------------------------------------------
(* A state leaves the queue *)

LEMMA PlaceIsTakenAway ==
  ASSUME NEW dist, NEW h, IsQueue(h, States, dist), NEW s \in States, s \notin KeysOf(h),
         NEW f \in Heaps(States), f.data = h.data,
         \A k \in States : k # s => f.loc[k] = h.loc[k]
  PROVE  /\ IsQueue(f, States, dist) /\ KeysOf(f) = KeysOf(h)
         /\ LocKept(f, h, {s})
<1>1. h.data \in Seq(States) /\ h.loc \in [States -> Int] /\ h \in Heaps(States)
  BY DEF IsQueue, Heaps
<1>2. Size(f) = Size(h) /\ Places(f) = Places(h) /\ \A i : KeyAt(f, i) = KeyAt(h, i)
  BY DEF Size, Places, KeyAt
<1>3. KeysOf(f) = KeysOf(h)
  BY <1>2 DEF KeysOf
<1>4. IsHeap(f, dist)
  BY <1>2 DEF IsHeap, IsQueue
<1>5. IsPlaced(f)
  <2>1. KeysDiffer(f)
    BY <1>2 DEF KeysDiffer, IsQueue, IsPlaced
  <2>2. ASSUME NEW k \in KeysOf(h) PROVE f.loc[k] \in Nat
    <3>1. k \in States /\ k # s /\ h.loc[k] \in Nat
      BY <1>1, KeyAtType DEF KeysOf, IsQueue, IsPlaced
    <3>2. QED
      BY <3>1
  <2>3. QED
    BY <1>3, <2>1, <2>2 DEF IsPlaced
<1>6. LocKept(f, h, {s})
  BY <1>1 DEF LocKept
<1>7. QED
  BY <1>3, <1>4, <1>5, <1>6 DEF IsQueue

(* Whatever moves in the heap, its maps keep their types. *)
LEMMA MovedType ==
  ASSUME NEW h, NEW old, NEW all, OnlyMoves(h, old, all, States),
         old.loc \in [States -> Nat \cup {NullIndex}]
  PROVE  /\ h \in Heaps(States) /\ h.data \in Seq(States)
         /\ h.loc \in [States -> Nat \cup {NullIndex}]
<1>1. h \in Heaps(States) /\ h.data \in Seq(States) /\ h.loc \in [States -> Int]
  BY DEF OnlyMoves, Heaps
<1>2. \A s \in States : h.loc[s] \in Nat \cup {NullIndex}
  BY DEF OnlyMoves
<1>3. QED
  BY <1>1, <1>2

(* The place of a key is one of the heap, and elsewhere what it was. *)
LEMMA PlacesType ==
  ASSUME NEW dist, NEW old, NEW h, IsQueue(h, States, dist), NEW changed,
         old.loc \in [States -> Nat \cup {NullIndex}],
         \A s \in changed : s \in KeysOf(h) \/ h.loc[s] = NullIndex,
         LocKept(h, old, changed)
  PROVE  /\ h.data \in Seq(States) /\ h.loc \in [States -> Nat \cup {NullIndex}]
         /\ \A s \in KeysOf(h) : h.loc[s] \in Nat
<1>1. h.data \in Seq(States) /\ h.loc \in [States -> Int]
  BY DEF IsQueue, Heaps
<1>2. \A s \in KeysOf(h) : h.loc[s] \in Nat
  BY DEF IsQueue, IsPlaced
<1>3. \A s \in States : s \notin changed => h.loc[s] = old.loc[s]
  BY DEF LocKept
<1>4. \A s \in States : h.loc[s] \in Nat \cup {NullIndex}
  BY <1>2, <1>3
<1>5. QED
  BY <1>1, <1>2, <1>4

LEMMA QueuedPlaces ==
  ASSUME IInv, ~isQueuedTwice, phase = "search"
  PROVE  /\ Queued \subseteq States
         /\ \A s \in Queued : heap.loc[s] \in Nat /\ heap.loc[s] # NullIndex
<1>1. heap \in Heaps(States) /\ IsPlaced(heap)
  BY DEF IInv, OnceInv, QueueInv, IsQueue
<1>2. QED
  BY <1>1, KeyAtType DEF Queued, KeysOf, IsPlaced, NullIndex

LEMMA PopBestTypes ==
  ASSUME IInv, PopBest
  PROVE  /\ heap' \in Heaps(States) /\ heap'.data \in Seq(States)
         /\ heap'.loc \in [States -> Nat \cup {NullIndex}]
         /\ rereach' \in [States -> Nat]
         /\ reached' \in States /\ isFirstReach' \in BOOLEAN /\ agenda' = TailsUp(reached')
         /\ phase = "search"
         /\ UNCHANGED <<hg, opt, phase, mu, pi, order, isMarkedAcyclic, remain, isBlocked,
                        isQueuedTwice>>
<1>. PICK best, popped : best = Top(heap) /\ popped = Pop(heap, mu)
  OBVIOUS
<1>1. /\ phase = "search" /\ Size(heap) > 0
      /\ UNCHANGED <<hg, opt, phase, mu, pi, order, isMarkedAcyclic, remain, isBlocked,
                     isQueuedTwice>>
      /\ reached' = best /\ agenda' = TailsUp(best) /\ isFirstReach' = IsFirst(best)
      /\ IF opt.allowRereach > 0
           THEN rereach' = [rereach EXCEPT ![best] = @ + 1] /\ heap' = popped
           ELSE heap' = [popped EXCEPT !.loc[best] = NullIndex] /\ rereach' = rereach
  BY DEF PopBest, input, result
<1>2. /\ heap \in Heaps(States) /\ mu \in [States -> Int]
      /\ heap.loc \in [States -> Nat \cup {NullIndex}] /\ rereach \in [States -> Nat]
  BY DEF IInv, SearchTypeInv, BestTreeTypeOK
<1>3. best \in States
  <2>1. 0 \in Places(heap)
    BY <1>1, <1>2, KeyAtType DEF Places
  <2>2. QED
    BY <1>2, <2>1, KeyAtType DEF Top
<1>4. OnlyMoves(popped, heap, KeysOf(heap), States)
  BY <1>1, <1>2, PopMoves
<1>5. /\ popped \in Heaps(States) /\ popped.data \in Seq(States)
      /\ popped.loc \in [States -> Nat \cup {NullIndex}]
      /\ popped = [data |-> popped.data, loc |-> popped.loc]
  <2>1. popped \in Heaps(States) /\ popped.data \in Seq(States)
        /\ popped.loc \in [States -> Nat \cup {NullIndex}]
    BY <1>2, <1>4, MovedType
  <2>2. QED
    BY <2>1 DEF Heaps
<1>6. /\ heap' \in Heaps(States) /\ heap'.data \in Seq(States)
      /\ heap'.loc \in [States -> Nat \cup {NullIndex}]
  <2>1. CASE heap' = popped
    BY <1>5, <2>1
  <2>2. CASE heap' = [popped EXCEPT !.loc[best] = NullIndex]
    <3>1. heap' = [data |-> popped.data, loc |-> [popped.loc EXCEPT ![best] = NullIndex]]
      BY <1>5, <2>2
    <3>2. [popped.loc EXCEPT ![best] = NullIndex] \in [States -> Nat \cup {NullIndex}]
      BY <1>5
    <3>3. [popped.loc EXCEPT ![best] = NullIndex] \in [States -> Int]
      BY <3>2 DEF NullIndex
    <3>4. QED
      BY <1>5, <3>1, <3>2, <3>3 DEF Heaps
  <2>3. QED
    BY <1>1, <2>1, <2>2
<1>7. rereach' \in [States -> Nat]
  BY <1>1, <1>2, <1>3
<1>8. QED
  BY <1>1, <1>3, <1>6, <1>7 DEF IsFirst

LEMMA PopFacts ==
  ASSUME IInv, ~isQueuedTwice, PopBest, NEW best, best = Top(heap)
  PROVE  /\ best \in States /\ best \in Queued
         /\ \A s \in Queued : mu[best] <= mu[s]
         /\ UNCHANGED <<input, phase, mu, pi, order, isMarkedAcyclic, remain, isBlocked>>
         /\ reached' = best /\ agenda = {} /\ agenda' = TailsUp(best)
         /\ IsQueue(heap', States, mu')
         /\ heap'.data \in Seq(States) /\ heap'.loc \in [States -> Nat \cup {NullIndex}]
         /\ rereach' \in [States -> Nat]
         /\ Queued' = Queued \ {best}
         /\ isFirstReach' = ~WasReached(best)
         /\ \A s \in States : WasReached(s)' <=> WasReached(s) \/ s = best
<1>. PICK popped : popped = Pop(heap, mu)
  OBVIOUS
<1>1. /\ phase = "search" /\ agenda = {} /\ Size(heap) > 0 /\ hg' = hg /\ opt' = opt
      /\ UNCHANGED <<input, phase, mu, pi, order, isMarkedAcyclic, remain, isBlocked>>
      /\ reached' = best /\ agenda' = TailsUp(best) /\ isFirstReach' = IsFirst(best)
      /\ IF opt.allowRereach > 0
           THEN rereach' = [rereach EXCEPT ![best] = @ + 1] /\ heap' = popped
           ELSE heap' = [popped EXCEPT !.loc[best] = NullIndex] /\ rereach' = rereach
  BY DEF PopBest, input, result
<1>2. /\ IsQueue(heap, States, mu) /\ heap \in Heaps(States) /\ IsHeap(heap, mu)
      /\ mu \in [States -> Int] /\ heap.loc \in [States -> Nat \cup {NullIndex}]
      /\ rereach \in [States -> Nat] /\ opt.allowRereach \in Nat
  BY <1>1 DEF IInv, OnceInv, QueueInv, IsQueue, BestTreeTypeOK, JobInv
<1>3. 0 \in Places(heap) /\ Size(heap) \in Nat
  BY <1>1, <1>2, KeyAtType DEF Places
<1>4. best \in States /\ best \in Queued /\ heap.loc[best] # NullIndex
  <2>1. best \in Queued
    BY <1>3 DEF Queued, KeysOf, Top
  <2>2. QED
    BY <1>1, <2>1, QueuedPlaces
<1>5. \A s \in Queued : mu[best] <= mu[s]
  BY <1>2, TopIsBest DEF Queued, KeysOf
<1>6. /\ IsQueue(popped, States, mu) /\ KeysOf(popped) = Queued \ {best}
      /\ LocKept(popped, heap, Queued \ {best})
  BY <1>1, <1>2, PopKeepsTheHeap DEF Queued
<1>7. /\ popped.loc \in [States -> Nat \cup {NullIndex}] /\ popped.data \in Seq(States)
      /\ \A s \in KeysOf(popped) : popped.loc[s] \in Nat
  BY <1>2, <1>6, PlacesType
<1>8. CASE opt.allowRereach > 0
  <2>1. rereach' = [rereach EXCEPT ![best] = @ + 1] /\ heap' = popped
    BY <1>1, <1>8
  <2>2. \A s \in States : rereach'[s] = IF s = best THEN rereach[s] + 1 ELSE rereach[s]
    BY <1>2, <2>1
  <2>3. rereach' \in [States -> Nat]
    BY <1>2, <1>4, <2>1
  <2>4. \A s \in States : WasReached(s)' <=> WasReached(s) \/ s = best
    BY <1>1, <1>2, <1>8, <2>2 DEF WasReached
  <2>5. isFirstReach' = ~WasReached(best)
    BY <1>1, <1>2, <1>4, <1>8 DEF WasReached, IsFirst
  <2>6. Queued' = Queued \ {best}
    BY <1>6, <2>1 DEF Queued
  <2>7. IsQueue(heap', States, mu')
    BY <1>1, <1>6, <2>1
  <2>8. heap'.data \in Seq(States) /\ heap'.loc \in [States -> Nat \cup {NullIndex}]
    BY <1>7, <2>1
  <2>9. QED
    BY <1>1, <1>4, <1>5, <2>3, <2>4, <2>5, <2>6, <2>7, <2>8
<1>9. CASE ~(opt.allowRereach > 0)
  <2>1. rereach' = rereach /\ heap' = [popped EXCEPT !.loc[best] = NullIndex]
    BY <1>1, <1>9
  <2>2. /\ IsQueue(heap', States, mu) /\ KeysOf(heap') = KeysOf(popped)
        /\ LocKept(heap', popped, {best}) /\ heap'.loc[best] = NullIndex
    <3>1. PICK f : f = heap'
      OBVIOUS
    <3>2. best \notin KeysOf(popped) /\ popped \in Heaps(States)
      BY <1>6 DEF IsQueue
    <3>3. /\ popped = [data |-> popped.data, loc |-> popped.loc]
          /\ popped.data \in Seq(States) /\ popped.loc \in [States -> Int]
      BY <3>2 DEF Heaps
    <3>4. f = [data |-> popped.data, loc |-> [popped.loc EXCEPT ![best] = NullIndex]]
      BY <2>1, <3>1, <3>3
    <3>5. /\ f.loc = [popped.loc EXCEPT ![best] = NullIndex] /\ f.data = popped.data
          /\ [popped.loc EXCEPT ![best] = NullIndex] \in [States -> Int]
      <4>1. NullIndex \in Int
        BY DEF NullIndex
      <4>2. QED
        BY <3>3, <3>4, <4>1
    <3>6. f \in Heaps(States)
      BY <3>3, <3>4, <3>5 DEF Heaps
    <3>7. /\ f.loc[best] = NullIndex
          /\ \A k \in States : k # best => f.loc[k] = popped.loc[k]
      BY <1>4, <3>3, <3>5
    <3>8. /\ IsQueue(f, States, mu) /\ KeysOf(f) = KeysOf(popped)
          /\ LocKept(f, popped, {best})
      BY <1>4, <1>6, <3>2, <3>5, <3>6, <3>7, PlaceIsTakenAway
    <3>9. QED
      BY <3>1, <3>7, <3>8
  <2>3. /\ heap'.data \in Seq(States) /\ heap'.loc \in [States -> Nat \cup {NullIndex}]
        /\ \A s \in KeysOf(heap') : heap'.loc[s] \in Nat
    <3>1. PICK f, changed : f = heap' /\ changed = {best}
      OBVIOUS
    <3>2. /\ IsQueue(f, States, mu) /\ LocKept(f, popped, changed)
          /\ \A s \in changed : s \in KeysOf(f) \/ f.loc[s] = NullIndex
      BY <2>2, <3>1
    <3>3. /\ f.data \in Seq(States) /\ f.loc \in [States -> Nat \cup {NullIndex}]
          /\ \A s \in KeysOf(f) : f.loc[s] \in Nat
      BY <1>7, <3>2, PlacesType
    <3>4. QED
      BY <3>1, <3>3
  <2>4. ASSUME NEW s \in States
        PROVE  heap'.loc[s] = NullIndex <=> heap.loc[s] = NullIndex \/ s = best
    <3>1. CASE s = best
      BY <2>2, <3>1
    <3>2. CASE s # best /\ s \in Queued
      <4>1. heap'.loc[s] \in Nat /\ heap.loc[s] \in Nat
        BY <1>1, <1>6, <2>2, <2>3, <3>2, QueuedPlaces
      <4>2. QED
        BY <3>2, <4>1 DEF NullIndex
    <3>3. CASE s # best /\ s \notin Queued
      <4>1. heap'.loc[s] = popped.loc[s]
        BY <1>7, <2>2, <3>3 DEF LocKept
      <4>2. popped.loc[s] = heap.loc[s]
        BY <1>2, <1>6, <3>3 DEF LocKept
      <4>3. QED
        BY <3>3, <4>1, <4>2
    <3>4. QED
      BY <3>1, <3>2, <3>3
  <2>5. \A s \in States : WasReached(s)' <=> WasReached(s) \/ s = best
    BY <1>1, <1>9, <2>4 DEF WasReached
  <2>6. isFirstReach' = ~WasReached(best)
    BY <1>1, <1>2, <1>4, <1>9 DEF WasReached, IsFirst
  <2>7. Queued' = Queued \ {best}
    BY <1>6, <2>2 DEF Queued
  <2>8. QED
    BY <1>1, <1>2, <1>4, <1>5, <2>1, <2>2, <2>3, <2>5, <2>6, <2>7
<1>10. QED
  BY <1>8, <1>9

LEMMA PopBestKeepsTypes ==
  ASSUME IInv, PopBest
  PROVE  JobInv' /\ BestTreeTypeOK' /\ SearchTypeInv' /\ NothingYet' /\ EndInv'
<1>1. /\ heap' \in Heaps(States) /\ heap'.data \in Seq(States)
      /\ heap'.loc \in [States -> Nat \cup {NullIndex}]
      /\ rereach' \in [States -> Nat]
      /\ reached' \in States /\ isFirstReach' \in BOOLEAN /\ agenda' = TailsUp(reached')
      /\ phase = "search"
      /\ UNCHANGED <<hg, opt, phase, mu, pi, order, isMarkedAcyclic, remain, isBlocked,
                     isQueuedTwice>>
  BY PopBestTypes
<1>2. JobInv /\ BestTreeTypeOK
  BY DEF IInv
<1>3. JobInv' /\ NothingYet' /\ EndInv'
  BY <1>1, <1>2 DEF JobInv, NothingYet, EndInv
<1>4. BestTreeTypeOK'
  BY <1>1, <1>2 DEF BestTreeTypeOK, TailsUp
<1>5. SearchTypeInv'
  BY <1>1 DEF SearchTypeInv
<1>6. QED
  BY <1>3, <1>4, <1>5

LEMMA PopBestKeepsOnce ==
  ASSUME IInv, ~isQueuedTwice, PopBest
  PROVE  OnceInv'
<1>. PICK best : best = Top(heap)
  OBVIOUS
<1>1. /\ best \in States /\ best \in Queued
      /\ \A s \in Queued : mu[best] <= mu[s]
      /\ UNCHANGED <<input, phase, mu, pi, order, isMarkedAcyclic, remain, isBlocked>>
      /\ reached' = best /\ agenda = {} /\ agenda' = TailsUp(best)
      /\ IsQueue(heap', States, mu')
      /\ Queued' = Queued \ {best}
      /\ isFirstReach' = ~WasReached(best)
      /\ \A s \in States : WasReached(s)' <=> WasReached(s) \/ s = best
  BY PopFacts
<1>2. phase = "search" /\ phase' = "search" /\ hg' = hg /\ opt' = opt
  BY <1>1 DEF PopBest, input
<1>3. BestTreeTypeOK /\ IsHypergraph(hg) /\ OnceInv
  BY DEF IInv, JobInv
<1>5. QueueInv'
  BY <1>1 DEF QueueInv
<1>6. CostInv'
  BY <1>1, <1>2, <1>3 DEF OnceInv, CostInv
<1>7. AgendaInv'
  BY <1>1, <1>2 DEF AgendaInv, TailsUp
<1>8. RemainInv'
  <2>1. ASSUME NEW a \in ArcIds(hg)
        PROVE  Cardinality(Uncounted(a)') <= remain'[a]
    <3>1. TailSet(hg, a) \subseteq States
      BY <1>3, ArcTypes
    <3>2. Uncounted(a)' = Uncounted(a)
      BY <1>1, <1>2, <3>1 DEF Uncounted, TailsUp
    <3>3. QED
      BY <1>1, <1>2, <1>3, <3>2 DEF OnceInv, RemainInv
  <2>2. QED
    BY <1>2, <2>1 DEF RemainInv
<1>9. KnuthInv'
  <2>. SUFFICES ASSUME IsNonNegative
       PROVE  /\ \A s \in States : mu'[s] >= 0
              /\ \A s \in States : WasReached(s)' =>
                   s \notin Queued' /\ reached' \in States /\ mu'[s] <= mu'[reached']
              /\ \A s \in Queued' : reached' \in States => mu'[reached'] <= mu'[s]
    BY <1>2 DEF KnuthInv, IsNonNegative
  <2>1. /\ \A s \in States : mu[s] >= 0
        /\ \A s \in States : WasReached(s) =>
             s \notin Queued /\ reached \in States /\ mu[s] <= mu[reached]
        /\ \A s \in Queued : reached \in States => mu[reached] <= mu[s]
    BY <1>2, <1>3 DEF OnceInv, KnuthInv
  <2>2. mu \in [States -> Int] /\ mu' = mu
    BY <1>1, <1>3 DEF BestTreeTypeOK
  <2>3. ASSUME NEW s \in States, WasReached(s)'
        PROVE  s \notin Queued' /\ mu[s] <= mu[best]
    <3>1. CASE s = best
      BY <1>1, <2>2, <3>1
    <3>2. CASE s # best
      <4>1. WasReached(s)
        BY <1>1, <2>3, <3>2
      <4>2. s \notin Queued /\ reached \in States /\ mu[s] <= mu[reached] /\ mu[reached] <= mu[best]
        BY <1>1, <2>1, <4>1
      <4>3. QED
        BY <1>1, <2>2, <4>2
    <3>3. QED
      BY <3>1, <3>2
  <2>4. QED
    BY <1>1, <2>1, <2>2, <2>3
<1>10. QED
  BY <1>5, <1>6, <1>7, <1>8, <1>9 DEF OnceInv

LEMMA PopBestKeepsIInv == IInv /\ PopBest => IInv'
BY PopBestKeepsTypes, PopBestKeepsOnce, PopBestTypes DEF IInv

-----------------------------------------------------------------------------
(* An arc is looked at. *)

(* When a state is reached for the first time, every arc it is a tail of still
   waits for it. *)
LEMMA ReachedIsUncounted ==
  ASSUME IInv, ~isQueuedTwice, phase = "search", NEW a \in agenda
  PROVE  /\ a \in ArcIds(hg) /\ reached \in States /\ reached \in TailSet(hg, a)
         /\ WasReached(reached)
         /\ isFirstReach => reached \in Uncounted(a) /\ remain[a] >= 1
<1>1. IsHypergraph(hg) /\ a \in ArcIds(hg)
  BY DEF IInv, JobInv, BestTreeTypeOK
<1>2. reached \in TailSet(hg, a) /\ TailSet(hg, a) \subseteq States
  BY <1>1, ArcTypes DEF IInv, OnceInv, AgendaInv
<1>3. WasReached(reached)
  BY <1>2 DEF IInv, OnceInv, AgendaInv
<1>4. ASSUME isFirstReach PROVE reached \in Uncounted(a) /\ remain[a] >= 1
  <2>1. reached \in Uncounted(a)
    BY <1>2, <1>4 DEF Uncounted
  <2>2. Uncounted(a) \in SUBSET TailSet(hg, a)
    BY DEF Uncounted
  <2>3. Cardinality(Uncounted(a)) \in Nat /\ Cardinality(Uncounted(a)) # 0
    BY <1>1, <2>1, <2>2, TailsAreFinite
  <2>4. Cardinality(Uncounted(a)) <= remain[a] /\ remain[a] \in Nat
    BY <1>1 DEF IInv, OnceInv, RemainInv, BestTreeTypeOK
  <2>5. QED
    BY <2>1, <2>3, <2>4
<1>5. QED
  BY <1>1, <1>2, <1>3, <1>4

RelaxChange(a) ==
  LET head == HeadOf(hg, a)
      cost == CostWith(hg, a, mu)
  IN  /\ cost < mu[head]
      /\ mu' = [mu EXCEPT ![head] = cost]
      /\ pi' = [pi EXCEPT ![head] = a]
      /\ KeysOf(heap') = KeysOf(heap) \cup {head}

LEMMA RelaxTypes ==
  ASSUME IInv, NEW a \in ArcIds(hg), Relax(HeadOf(hg, a), a)
  PROVE  /\ mu' \in [States -> Int] /\ pi' \in [States -> {0} \cup ArcIds(hg)]
         /\ \A s \in States : pi'[s] # 0 => HeadOf(hg, pi'[s]) = s
         /\ heap' \in Heaps(States) /\ heap'.data \in Seq(States)
         /\ heap'.loc \in [States -> Nat \cup {NullIndex}]
         /\ isQueuedTwice' \in BOOLEAN /\ (isQueuedTwice => isQueuedTwice')
<1>. PICK head, cost : head = HeadOf(hg, a) /\ cost = CostWith(hg, a, mu)
  OBVIOUS
<1>1. /\ IsHypergraph(hg) /\ heap \in Heaps(States) /\ mu \in [States -> Int]
      /\ pi \in [States -> {0} \cup ArcIds(hg)] /\ heap.data \in Seq(States)
      /\ \A s \in States : pi[s] # 0 => HeadOf(hg, pi[s]) = s
      /\ heap.loc \in [States -> Nat \cup {NullIndex}] /\ isQueuedTwice \in BOOLEAN
  BY DEF IInv, JobInv, SearchTypeInv, BestTreeTypeOK
<1>2. head \in States /\ cost \in Int
  BY <1>1, ArcTypes, CostWithType
<1>3. CASE ~(cost < mu[head])
  BY <1>1, <1>3 DEF Relax, result
<1>4. CASE cost < mu[head]
  <2>1. /\ mu' = [mu EXCEPT ![head] = cost] /\ pi' = [pi EXCEPT ![head] = a]
        /\ heap' = PushOrUpdate(heap, head, mu')
        /\ isQueuedTwice' = (isQueuedTwice \/ IsMissed(head))
    BY <1>4 DEF Relax
  <2>2. OnlyMoves(heap', heap, KeysOf(heap) \cup {head}, States)
    <3>1. PICK h, dist : h = heap' /\ dist = mu'
      OBVIOUS
    <3>2. OnlyMoves(h, heap, KeysOf(heap) \cup {head}, States)
      BY <1>1, <1>2, <2>1, <3>1, PushOrUpdateMoves
    <3>3. QED
      BY <3>1, <3>2
  <2>3. /\ heap' \in Heaps(States) /\ heap'.data \in Seq(States)
        /\ heap'.loc \in [States -> Nat \cup {NullIndex}]
    <3>1. PICK h : h = heap'
      OBVIOUS
    <3>2. /\ h \in Heaps(States) /\ h.data \in Seq(States)
          /\ h.loc \in [States -> Nat \cup {NullIndex}]
      BY <1>1, <2>2, <3>1, MovedType
    <3>3. QED
      BY <3>1, <3>2
  <2>4. isQueuedTwice' \in BOOLEAN /\ (isQueuedTwice => isQueuedTwice')
    BY <2>1
  <2>5. /\ mu' \in [States -> Int] /\ pi' \in [States -> {0} \cup ArcIds(hg)]
        /\ \A s \in States : pi'[s] # 0 => HeadOf(hg, pi'[s]) = s
    BY <1>1, <1>2, <2>1
  <2>6. QED
    BY <2>3, <2>4, <2>5
<1>5. QED
  BY <1>3, <1>4

LEMMA RelaxFacts ==
  ASSUME IInv, ~isQueuedTwice, ~isQueuedTwice', phase = "search", NEW a \in ArcIds(hg),
         ~ExceedsLimit(HeadOf(hg, a)),
         Relax(HeadOf(hg, a), a), UNCHANGED <<hg, opt, rereach>>
  PROVE  /\ IsQueue(heap', States, mu')
         /\ mu' \in [States -> Int]
         /\ heap'.data \in Seq(States) /\ heap'.loc \in [States -> Nat \cup {NullIndex}]
         /\ \A s \in States : WasReached(s)' <=> WasReached(s)
         /\ \/ RelaxChange(a)
            \/ UNCHANGED <<mu, pi, heap>> /\ ~(CostWith(hg, a, mu) < mu[HeadOf(hg, a)])
<1>. PICK head : head = HeadOf(hg, a)
  OBVIOUS
<1>. PICK cost : cost = CostWith(hg, a, mu)
  OBVIOUS
<1>1. /\ IsQueue(heap, States, mu) /\ mu \in [States -> Int] /\ IsHypergraph(hg)
      /\ heap.data \in Seq(States) /\ heap.loc \in [States -> Nat \cup {NullIndex}]
      /\ opt.allowRereach \in Nat
  BY DEF IInv, OnceInv, QueueInv, BestTreeTypeOK, JobInv
<1>2. head \in States /\ cost \in Int
  BY <1>1, ArcTypes, CostWithType
<1>3. CASE ~(cost < mu[head])
  <2>1. UNCHANGED <<mu, pi, heap>>
    BY <1>3 DEF Relax, result
  <2>2. \A s \in States : WasReached(s)' <=> WasReached(s)
    BY <2>1 DEF WasReached
  <2>3. QED
    BY <1>1, <1>3, <2>1, <2>2
<1>4. CASE cost < mu[head]
  <2>1. /\ mu' = [mu EXCEPT ![head] = cost] /\ pi' = [pi EXCEPT ![head] = a]
        /\ heap' = PushOrUpdate(heap, head, mu')
        /\ head \in KeysOf(heap) => HasKey(heap, head)
    BY <1>4 DEF Relax, IsMissed
  <2>2. /\ mu' \in [States -> Int] /\ mu'[head] = cost
        /\ \A s \in States \ {head} : mu'[s] = mu[s]
    BY <1>1, <1>2, <2>1
  <2>3. mu'[head] <= mu[head]
    BY <1>1, <1>2, <1>4, <2>2
  <2>4. PICK dist, h : dist = mu' /\ h = heap'
    OBVIOUS
  <2>5. /\ IsQueue(h, States, dist) /\ KeysOf(h) = KeysOf(heap) \cup {head}
        /\ LocKept(h, heap, KeysOf(heap) \cup {head})
    <3>1. /\ dist \in [States -> Int] /\ dist[head] <= mu[head]
          /\ \A s \in States \ {head} : dist[s] = mu[s]
          /\ h = PushOrUpdate(heap, head, dist)
      BY <2>1, <2>2, <2>3, <2>4
    <3>2. head \in KeysOf(heap) => HasKey(heap, head) /\ dist[head] <= mu[head]
      BY <2>1, <3>1
    <3>3. /\ IsQueue(PushOrUpdate(heap, head, dist), States, dist)
          /\ KeysOf(PushOrUpdate(heap, head, dist)) = KeysOf(heap) \cup {head}
          /\ LocKept(PushOrUpdate(heap, head, dist), heap, KeysOf(heap) \cup {head})
      <4>1. IsQueue(heap, States, mu) /\ mu \in [States -> Int] /\ head \in States
        BY <1>1, <1>2
      <4>2. QED
        BY <3>1, <3>2, <4>1, PushOrUpdateKeepsTheHeap
    <3>4. QED
      BY <3>1, <3>3
  <2>6. /\ h.data \in Seq(States) /\ h.loc \in [States -> Nat \cup {NullIndex}]
        /\ \A s \in KeysOf(h) : h.loc[s] \in Nat
    BY <1>1, <2>5, PlacesType
  <2>7. ASSUME ~(opt.allowRereach > 0), NEW s \in States
        PROVE  h.loc[s] = NullIndex <=> heap.loc[s] = NullIndex
    <3>1. CASE s \in KeysOf(h)
      <4>1. h.loc[s] # NullIndex
        BY <2>6, <3>1 DEF NullIndex
      <4>2. heap.loc[s] # NullIndex
        BY <2>5, <2>7, <3>1, QueuedPlaces DEF ExceedsLimit, Queued
      <4>3. QED
        BY <4>1, <4>2
    <3>2. CASE s \notin KeysOf(h)
      BY <1>1, <2>5, <3>2 DEF LocKept
    <3>3. QED
      BY <3>1, <3>2
  <2>8. \A s \in States : WasReached(s)' <=> WasReached(s)
    BY <2>4, <2>7 DEF WasReached
  <2>9. RelaxChange(a)
    BY <1>4, <2>1, <2>4, <2>5 DEF RelaxChange
  <2>10. QED
    BY <2>2, <2>4, <2>5, <2>6, <2>8, <2>9
<1>5. QED
  BY <1>3, <1>4

CountedOff(a) ==
  remain' = [remain EXCEPT ![a] = IF isFirstReach THEN remain[a] - 1 ELSE remain[a]]

LEMMA ReachArcTypes ==
  ASSUME IInv, ReachArc
  PROVE  /\ phase = "search" /\ agenda' \subseteq agenda
         /\ UNCHANGED <<hg, opt, phase, order, isMarkedAcyclic, rereach, reached, isFirstReach>>
         /\ isBlocked' \in BOOLEAN /\ remain' \in [ArcIds(hg) -> Nat]
         /\ mu' \in [States -> Int] /\ pi' \in [States -> {0} \cup ArcIds(hg)]
         /\ \A s \in States : pi'[s] # 0 => HeadOf(hg, pi'[s]) = s
         /\ heap' \in Heaps(States) /\ heap'.data \in Seq(States)
         /\ heap'.loc \in [States -> Nat \cup {NullIndex}]
         /\ isQueuedTwice' \in BOOLEAN /\ (isQueuedTwice => isQueuedTwice')
<1>. PICK a, head : a = First(agenda) /\ head = HeadOf(hg, a)
  OBVIOUS
<1>. PICK left : left = IF isFirstReach THEN Less(remain[a]) ELSE remain[a]
  OBVIOUS
<1>1. /\ phase = "search" /\ agenda # {} /\ agenda' \subseteq agenda
      /\ UNCHANGED <<hg, opt, phase, order, isMarkedAcyclic, rereach, reached, isFirstReach>>
      /\ IF ExceedsLimit(head)
           THEN isBlocked' = TRUE /\ UNCHANGED <<remain, mu, pi, heap, isQueuedTwice>>
           ELSE /\ isBlocked' = isBlocked
                /\ remain' = [remain EXCEPT ![a] = left]
                /\ IF left = 0 THEN Relax(head, a)
                               ELSE UNCHANGED <<mu, pi, heap, isQueuedTwice>>
  BY DEF ReachArc, input, result
<1>2. /\ IsHypergraph(hg) /\ heap \in Heaps(States) /\ mu \in [States -> Int]
      /\ pi \in [States -> {0} \cup ArcIds(hg)] /\ heap.data \in Seq(States)
      /\ \A s \in States : pi[s] # 0 => HeadOf(hg, pi[s]) = s
      /\ heap.loc \in [States -> Nat \cup {NullIndex}] /\ isQueuedTwice \in BOOLEAN
      /\ remain \in [ArcIds(hg) -> Nat] /\ agenda \subseteq ArcIds(hg) /\ isBlocked \in BOOLEAN
  BY DEF IInv, JobInv, SearchTypeInv, BestTreeTypeOK
<1>3. a \in ArcIds(hg)
  <2>1. \A b \in agenda : b \in Nat
    BY <1>2, ArcTypes
  <2>2. QED
    BY <1>1, <1>2, <2>1, FirstIsMember
<1>4. left \in Nat
  BY <1>2, <1>3, MaxCountAssumption DEF Less
<1>5. CASE Relax(head, a)
  <2>1. /\ mu' \in [States -> Int] /\ pi' \in [States -> {0} \cup ArcIds(hg)]
        /\ \A s \in States : pi'[s] # 0 => HeadOf(hg, pi'[s]) = s
        /\ heap' \in Heaps(States) /\ heap'.data \in Seq(States)
        /\ heap'.loc \in [States -> Nat \cup {NullIndex}]
        /\ isQueuedTwice' \in BOOLEAN /\ (isQueuedTwice => isQueuedTwice')
    BY <1>3, <1>5, RelaxTypes
  <2>2. remain' \in [ArcIds(hg) -> Nat] /\ isBlocked' \in BOOLEAN
    BY <1>1, <1>2, <1>3, <1>4
  <2>3. QED
    BY <1>1, <2>1, <2>2
<1>6. CASE UNCHANGED <<mu, pi, heap, isQueuedTwice>>
  <2>1. remain' \in [ArcIds(hg) -> Nat] /\ isBlocked' \in BOOLEAN
    BY <1>1, <1>2, <1>3, <1>4
  <2>2. QED
    BY <1>1, <1>2, <1>6, <2>1
<1>7. QED
  BY <1>1, <1>5, <1>6

LEMMA ReachFacts ==
  ASSUME IInv, ~isQueuedTwice', ReachArc, NEW a, a = First(agenda)
  PROVE  /\ ~isQueuedTwice /\ phase = "search" /\ a \in agenda /\ agenda' = agenda \ {a}
         /\ hg' = hg /\ opt' = opt
         /\ UNCHANGED <<phase, order, isMarkedAcyclic, rereach, reached, isFirstReach>>
         /\ isBlocked' \in BOOLEAN /\ remain' \in [ArcIds(hg) -> Nat]
         /\ IsQueue(heap', States, mu')
         /\ mu' \in [States -> Int]
         /\ heap'.data \in Seq(States) /\ heap'.loc \in [States -> Nat \cup {NullIndex}]
         /\ \A s \in States : WasReached(s)' <=> WasReached(s)
         /\ \/ /\ UNCHANGED <<mu, pi, heap, remain>>
               /\ WasReached(HeadOf(hg, a))
            \/ /\ UNCHANGED <<mu, pi, heap>> /\ CountedOff(a)
               /\ remain'[a] = 0 => ~(CostWith(hg, a, mu) < mu[HeadOf(hg, a)])
            \/ /\ RelaxChange(a) /\ CountedOff(a)
               /\ remain'[a] = 0
<1>. PICK head : head = HeadOf(hg, a)
  OBVIOUS
<1>. PICK left : left = IF isFirstReach THEN Less(remain[a]) ELSE remain[a]
  OBVIOUS
<1>0. ~isQueuedTwice
  BY ReachArcTypes
<1>1. /\ phase = "search" /\ agenda # {} /\ agenda' = agenda \ {a}
      /\ hg' = hg /\ opt' = opt
      /\ UNCHANGED <<phase, order, isMarkedAcyclic, rereach, reached, isFirstReach>>
      /\ IF ExceedsLimit(head)
           THEN isBlocked' = TRUE /\ UNCHANGED <<remain, mu, pi, heap>>
           ELSE /\ isBlocked' = isBlocked
                /\ remain' = [remain EXCEPT ![a] = left]
                /\ IF left = 0 THEN Relax(head, a) ELSE UNCHANGED <<mu, pi, heap>>
  BY DEF ReachArc, input, result
<1>2. /\ IsQueue(heap, States, mu) /\ mu \in [States -> Int] /\ IsHypergraph(hg)
      /\ heap.data \in Seq(States) /\ heap.loc \in [States -> Nat \cup {NullIndex}]
      /\ opt.allowRereach \in Nat /\ rereach \in [States -> Nat]
      /\ remain \in [ArcIds(hg) -> Nat] /\ agenda \subseteq ArcIds(hg)
      /\ isBlocked \in BOOLEAN
  BY <1>0, <1>1 DEF IInv, OnceInv, QueueInv, BestTreeTypeOK, JobInv
<1>3. a \in agenda /\ a \in ArcIds(hg)
  <2>1. \A b \in agenda : b \in Nat
    BY <1>2, ArcTypes
  <2>2. QED
    BY <1>1, <1>2, <2>1, FirstIsMember
<1>4. head \in States
  BY <1>2, <1>3, ArcTypes
<1>5. /\ left = IF isFirstReach THEN remain[a] - 1 ELSE remain[a]
      /\ left \in Nat
  BY <1>0, <1>1, <1>2, <1>3, ReachedIsUncounted DEF Less
<1>6. CASE ExceedsLimit(head)
  <2>1. isBlocked' = TRUE /\ UNCHANGED <<remain, mu, pi, heap>>
    BY <1>1, <1>6
  <2>2. \A s \in States : WasReached(s)' <=> WasReached(s)
    BY <1>1, <2>1 DEF WasReached
  <2>3. WasReached(head)
    BY <1>2, <1>4, <1>6 DEF WasReached, ExceedsLimit
  <2>4. QED
    BY <1>0, <1>1, <1>2, <1>3, <2>1, <2>2, <2>3
<1>7. CASE ~ExceedsLimit(head) /\ left # 0
  <2>1. UNCHANGED <<mu, pi, heap>> /\ isBlocked' = isBlocked /\ remain' = [remain EXCEPT ![a] = left]
    BY <1>1, <1>7
  <2>2. \A s \in States : WasReached(s)' <=> WasReached(s)
    BY <1>1, <2>1 DEF WasReached
  <2>3. remain' \in [ArcIds(hg) -> Nat] /\ remain'[a] = left
    BY <1>2, <1>3, <1>5, <2>1
  <2>4. CountedOff(a)
    BY <1>5, <2>1 DEF CountedOff
  <2>5. QED
    BY <1>0, <1>1, <1>2, <1>3, <1>7, <2>1, <2>2, <2>3, <2>4
<1>8. CASE ~ExceedsLimit(head) /\ left = 0
  <2>1. Relax(head, a) /\ isBlocked' = isBlocked /\ remain' = [remain EXCEPT ![a] = left]
    BY <1>1, <1>8
  <2>2. /\ IsQueue(heap', States, mu')
        /\ mu' \in [States -> Int]
        /\ heap'.data \in Seq(States) /\ heap'.loc \in [States -> Nat \cup {NullIndex}]
        /\ \A s \in States : WasReached(s)' <=> WasReached(s)
        /\ \/ RelaxChange(a)
           \/ UNCHANGED <<mu, pi, heap>> /\ ~(CostWith(hg, a, mu) < mu[head])
    BY <1>0, <1>1, <1>3, <1>8, <2>1, RelaxFacts
  <2>3. remain' \in [ArcIds(hg) -> Nat] /\ remain'[a] = 0
    BY <1>2, <1>3, <1>5, <1>8, <2>1
  <2>4. CountedOff(a)
    BY <1>5, <2>1 DEF CountedOff
  <2>5. QED
    BY <1>0, <1>1, <1>2, <1>3, <2>1, <2>2, <2>3, <2>4
<1>9. QED
  BY <1>6, <1>7, <1>8

(* The arc's tails are counted: the reached state is no longer waited for. *)
LEMMA CountedTails ==
  ASSUME IInv, ~isQueuedTwice', ReachArc, NEW a, a = First(agenda), NEW b \in ArcIds(hg)
  PROVE  /\ Uncounted(b) \in SUBSET TailSet(hg, b)
         /\ Uncounted(b)' \in SUBSET TailSet(hg, b)
         /\ b # a => Uncounted(b)' = Uncounted(b)
         /\ Uncounted(a)' = IF isFirstReach THEN Uncounted(a) \ {reached} ELSE Uncounted(a)
         /\ Cardinality(Uncounted(b)) \in Nat
         /\ Cardinality(Uncounted(a)') =
              IF isFirstReach THEN Cardinality(Uncounted(a)) - 1 ELSE Cardinality(Uncounted(a))
<1>1. /\ ~isQueuedTwice /\ phase = "search" /\ a \in agenda /\ agenda' = agenda \ {a}
      /\ hg' = hg /\ opt' = opt /\ reached' = reached /\ isFirstReach' = isFirstReach
      /\ \A s \in States : WasReached(s)' <=> WasReached(s)
  BY ReachFacts
<1>2. /\ a \in ArcIds(hg) /\ reached \in TailSet(hg, a) /\ WasReached(reached)
      /\ isFirstReach => reached \in Uncounted(a)
  BY <1>1, ReachedIsUncounted
<1>3. IsHypergraph(hg) /\ isFirstReach \in BOOLEAN
  BY DEF IInv, JobInv, SearchTypeInv
<1>4. TailSet(hg, b) \subseteq States /\ TailSet(hg, a) \subseteq States
  BY <1>2, <1>3, ArcTypes
<1>5. /\ Uncounted(b) \in SUBSET TailSet(hg, b) /\ Uncounted(a) \in SUBSET TailSet(hg, a)
      /\ Uncounted(b)' \in SUBSET TailSet(hg, b)
  BY <1>1 DEF Uncounted
<1>6. b # a => Uncounted(b)' = Uncounted(b)
  BY <1>1, <1>4 DEF Uncounted
<1>7. Uncounted(a)' = IF isFirstReach THEN Uncounted(a) \ {reached} ELSE Uncounted(a)
  <2>1. CASE isFirstReach
    BY <1>1, <1>2, <1>4, <2>1 DEF Uncounted
  <2>2. CASE ~isFirstReach
    BY <1>1, <1>4, <2>2 DEF Uncounted
  <2>3. QED
    BY <2>1, <2>2
<1>8. IsFiniteSet(Uncounted(a)) /\ Cardinality(Uncounted(b)) \in Nat
  BY <1>2, <1>3, <1>5, TailsAreFinite
<1>9. Cardinality(Uncounted(a)') =
        IF isFirstReach THEN Cardinality(Uncounted(a)) - 1 ELSE Cardinality(Uncounted(a))
  BY <1>2, <1>7, <1>8, FS_RemoveElement
<1>10. QED
  BY <1>5, <1>6, <1>7, <1>8, <1>9

LEMMA ReachArcKeepsTypes ==
  ASSUME IInv, ReachArc
  PROVE  JobInv' /\ BestTreeTypeOK' /\ SearchTypeInv' /\ NothingYet' /\ EndInv'
<1>1. /\ phase = "search" /\ agenda' \subseteq agenda
      /\ UNCHANGED <<hg, opt, phase, order, isMarkedAcyclic, rereach, reached, isFirstReach>>
      /\ isBlocked' \in BOOLEAN /\ remain' \in [ArcIds(hg) -> Nat]
      /\ mu' \in [States -> Int] /\ pi' \in [States -> {0} \cup ArcIds(hg)]
      /\ \A s \in States : pi'[s] # 0 => HeadOf(hg, pi'[s]) = s
      /\ heap' \in Heaps(States) /\ heap'.data \in Seq(States)
      /\ heap'.loc \in [States -> Nat \cup {NullIndex}]
      /\ isQueuedTwice' \in BOOLEAN
  BY ReachArcTypes
<1>2. JobInv /\ BestTreeTypeOK /\ SearchTypeInv
  BY DEF IInv
<1>3. JobInv' /\ NothingYet' /\ EndInv'
  BY <1>1, <1>2 DEF JobInv, NothingYet, EndInv
<1>4. BestTreeTypeOK'
  BY <1>1, <1>2 DEF BestTreeTypeOK
<1>5. SearchTypeInv'
  BY <1>1, <1>2 DEF SearchTypeInv
<1>6. QED
  BY <1>3, <1>4, <1>5

LEMMA ReachArcKeepsOnce ==
  ASSUME IInv, ~isQueuedTwice', ReachArc
  PROVE  OnceInv'
<1>. PICK a : a = First(agenda)
  OBVIOUS
<1>. PICK head : head = HeadOf(hg, a)
  OBVIOUS
<1>. PICK cost : cost = CostWith(hg, a, mu)
  OBVIOUS
<1>1. /\ ~isQueuedTwice /\ phase = "search" /\ a \in agenda /\ agenda' = agenda \ {a}
      /\ hg' = hg /\ opt' = opt
      /\ UNCHANGED <<phase, order, isMarkedAcyclic, rereach, reached, isFirstReach>>
      /\ isBlocked' \in BOOLEAN /\ remain' \in [ArcIds(hg) -> Nat]
      /\ IsQueue(heap', States, mu')
      /\ mu' \in [States -> Int]
      /\ heap'.data \in Seq(States) /\ heap'.loc \in [States -> Nat \cup {NullIndex}]
      /\ \A s \in States : WasReached(s)' <=> WasReached(s)
  BY ReachFacts
<1>2. \/ /\ UNCHANGED <<mu, pi, heap, remain>>
         /\ WasReached(head)
      \/ /\ UNCHANGED <<mu, pi, heap>> /\ CountedOff(a)
         /\ remain'[a] = 0 => ~(cost < mu[head])
      \/ /\ RelaxChange(a) /\ CountedOff(a)
         /\ remain'[a] = 0
  BY ReachFacts
<1>3. /\ JobInv /\ BestTreeTypeOK /\ SearchTypeInv /\ IsHypergraph(hg)
      /\ mu \in [States -> Int] /\ pi \in [States -> {0} \cup ArcIds(hg)]
      /\ a \in ArcIds(hg) /\ remain \in [ArcIds(hg) -> Nat] /\ OnceInv
  BY <1>1 DEF IInv, JobInv, BestTreeTypeOK
<1>4. head \in States /\ cost \in Int
  BY <1>3, ArcTypes, CostWithType
<1>5. \/ mu' = mu /\ pi' = pi /\ Queued' = Queued
      \/ /\ cost < mu[head] /\ remain'[a] = 0 /\ CountedOff(a)
         /\ \A s \in States : mu'[s] = IF s = head THEN cost ELSE mu[s]
         /\ \A s \in States : pi'[s] = IF s = head THEN a ELSE pi[s]
         /\ pi' \in [States -> {0} \cup ArcIds(hg)]
         /\ Queued' = Queued \cup {head}
  <2>1. CASE UNCHANGED <<mu, pi, heap>>
    BY <2>1 DEF Queued
  <2>2. CASE RelaxChange(a) /\ CountedOff(a) /\ remain'[a] = 0
    <3>1. /\ cost < mu[head] /\ mu' = [mu EXCEPT ![head] = cost]
          /\ pi' = [pi EXCEPT ![head] = a] /\ Queued' = Queued \cup {head}
      BY <2>2 DEF RelaxChange, Queued
    <3>2. QED
      BY <1>3, <2>2, <3>1
  <2>3. QED
    BY <1>2, <2>1, <2>2
<1>6. \A b \in ArcIds(hg) :
        Uncounted(b)' \in SUBSET TailSet(hg, b) /\ Cardinality(Uncounted(b)') <= remain'[b]
  <2>1. ASSUME NEW b \in ArcIds(hg)
        PROVE  /\ Uncounted(b)' \in SUBSET TailSet(hg, b)
               /\ Cardinality(Uncounted(b)') <= remain'[b]
    <3>1. /\ Uncounted(b)' \in SUBSET TailSet(hg, b)
          /\ b # a => Uncounted(b)' = Uncounted(b)
          /\ Cardinality(Uncounted(b)) \in Nat /\ Cardinality(Uncounted(a)) \in Nat
          /\ Cardinality(Uncounted(a)') =
               IF isFirstReach THEN Cardinality(Uncounted(a)) - 1 ELSE Cardinality(Uncounted(a))
      BY <1>3, CountedTails
    <3>2. /\ Cardinality(Uncounted(b)) <= remain[b] /\ remain[b] \in Nat
          /\ Cardinality(Uncounted(a)) <= remain[a] /\ remain[a] \in Nat
      BY <1>1, <1>3 DEF OnceInv, RemainInv
    <3>3. CASE remain' = remain
      BY <3>1, <3>2, <3>3
    <3>4. CASE CountedOff(a)
      <4>1. remain'[b] = IF b = a THEN (IF isFirstReach THEN remain[a] - 1 ELSE remain[a])
                                  ELSE remain[b]
        BY <1>3, <3>4 DEF CountedOff
      <4>2. QED
        BY <3>1, <3>2, <4>1
    <3>5. QED
      BY <1>2, <3>3, <3>4
  <2>2. QED
    BY <2>1
<1>7. remain'[a] = 0 => \A t \in TailSet(hg, a) : WasReached(t)
  <2>. SUFFICES ASSUME remain'[a] = 0, NEW t \in TailSet(hg, a) PROVE WasReached(t)
    OBVIOUS
  <2>1. Uncounted(a)' = {}
    <3>1. Uncounted(a)' \in SUBSET TailSet(hg, a) /\ Cardinality(Uncounted(a)') <= 0
      BY <1>3, <1>6
    <3>2. Cardinality(Uncounted(a)') \in Nat
      BY <1>3, <3>1, TailsAreFinite
    <3>3. QED
      BY <1>3, <3>1, <3>2, TailsAreFinite
  <2>2. t \in States
    BY <1>3, ArcTypes
  <2>3. WasReached(t)'
    BY <1>1, <2>1 DEF Uncounted
  <2>4. QED
    BY <1>1, <2>2, <2>3
<1>9. QueueInv'
  BY <1>1 DEF QueueInv
<1>10. CostInv'
  <2>1. ASSUME NEW s \in States
        PROVE  /\ mu'[s] <= Unreachable
               /\ s \in Queued' \/ WasReached(s)' => mu'[s] # Unreachable
    <3>1. /\ mu[s] <= Unreachable /\ mu[head] <= Unreachable
          /\ s \in Queued \/ WasReached(s) => mu[s] # Unreachable
          /\ mu[s] \in Int /\ mu[head] \in Int
      BY <1>1, <1>3, <1>4 DEF OnceInv, CostInv
    <3>2. QED
      BY <1>1, <1>4, <1>5, <3>1, UnreachableAssumption
  <2>2. QED
    BY <2>1 DEF CostInv
<1>11. AgendaInv'
  BY <1>1, <1>3 DEF OnceInv, AgendaInv
<1>12. RemainInv'
  BY <1>1, <1>6 DEF RemainInv
<1>13. KnuthInv'
  <2>. SUFFICES ASSUME IsNonNegative
       PROVE  /\ \A s \in States : mu'[s] >= 0
              /\ \A s \in States : WasReached(s)' =>
                   s \notin Queued' /\ reached' \in States /\ mu'[s] <= mu'[reached']
              /\ \A s \in Queued' : reached' \in States => mu'[reached'] <= mu'[s]
    BY <1>1 DEF KnuthInv, IsNonNegative
  <2>1. /\ \A s \in States : mu[s] >= 0
        /\ \A s \in States : WasReached(s) =>
             s \notin Queued /\ reached \in States /\ mu[s] <= mu[reached]
        /\ \A s \in Queued : reached \in States => mu[reached] <= mu[s]
    BY <1>1, <1>3 DEF OnceInv, KnuthInv
  <2>2. CASE mu' = mu /\ Queued' = Queued
    BY <1>1, <2>1, <2>2
  <2>3. CASE /\ cost < mu[head] /\ remain'[a] = 0
             /\ \A s \in States : mu'[s] = IF s = head THEN cost ELSE mu[s]
             /\ Queued' = Queued \cup {head}
    <3>1. reached \in States /\ reached \in TailSet(hg, a) /\ WasReached(reached)
      BY <1>1, ReachedIsUncounted
    <3>2. mu[head] <= Unreachable
      BY <1>1, <1>3, <1>4 DEF OnceInv, CostInv
    <3>3. cost >= 0 /\ mu[reached] <= cost
      <4>1. cost < Unreachable
        BY <1>3, <1>4, <2>3, <3>2, UnreachableAssumption
      <4>2. CostOf(hg, a) >= 0
        BY <1>3 DEF IsNonNegative
      <4>3. QED
        BY <1>3, <2>1, <3>1, <4>1, <4>2, CostWithIsAbove
    <3>4. ~WasReached(head)
      BY <1>3, <1>4, <2>1, <2>3, <3>1, <3>3
    <3>5. mu'[reached] = mu[reached] /\ reached' = reached
      BY <1>1, <2>3, <3>1, <3>4
    <3>6. \A s \in States : mu'[s] >= 0
      BY <2>1, <2>3, <3>3
    <3>7. ASSUME NEW s \in States, WasReached(s)'
          PROVE  s \notin Queued' /\ mu'[s] <= mu'[reached]
      BY <1>1, <2>1, <2>3, <3>4, <3>5, <3>7
    <3>8. ASSUME NEW s \in Queued'
          PROVE  mu'[reached] <= mu'[s]
      <4>1. s \in States
        BY <1>1, <1>4, <2>3, <3>8, QueuedPlaces
      <4>2. QED
        BY <2>1, <2>3, <3>1, <3>3, <3>5, <4>1
    <3>9. QED
      BY <3>1, <3>5, <3>6, <3>7, <3>8
  <2>4. QED
    BY <1>5, <2>2, <2>3
<1>14. QED
  BY <1>9, <1>10, <1>11, <1>12, <1>13 DEF OnceInv

LEMMA ReachArcKeepsIInv == IInv /\ ReachArc => IInv'
BY ReachArcKeepsTypes, ReachArcKeepsOnce DEF IInv

-----------------------------------------------------------------------------
(* What holds in every state *)

LEMMA NextKeepsIInv == IInv /\ [BestTreeNext]_vars => IInv'
BY StutterKeepsIInv, ChooseAcyclicKeepsIInv, RelaxOutArcsKeepsIInv, PhaseStepsKeepIInv,
   AddAxiomsKeepsIInv, PopBestKeepsIInv, ReachArcKeepsIInv DEF BestTreeNext

LEMMA Invariance == BestTreeSpec => []IInv
<1>1. Init => IInv
  BY InitIsIInv
<1>2. IInv /\ [BestTreeNext]_vars => IInv'
  BY NextKeepsIInv
<1>3. QED
  BY <1>1, <1>2, PTL DEF BestTreeSpec

(* Every variable of the search has its type in every state and the arc at the
   root of a derivation leads to its state, also after a state was queued twice. *)
THEOREM TypeIsKept == BestTreeSpec => []BestTreeTypeOK
<1>1. IInv => BestTreeTypeOK
  BY DEF IInv
<1>2. QED
  BY <1>1, Invariance, PTL

(* Until a state is queued that is in the queue already, no queued state is better
   than its parent in the heap and none is there twice, though relax changes the
   distance of a queued state before it tells the queue, and though pop leaves
   wrong places behind. *)
THEOREM QueueIsKept == BestTreeSpec => []QueueIsHeap
<1>1. IInv => QueueIsHeap
  BY DEF IInv, OnceInv, QueueInv, QueueIsHeap, IsQueue, IsPlaced
<1>2. QED
  BY <1>1, Invariance, PTL

(* When the last tail of an arc has been counted all its tails have a cost, for
   any limit on how often a state is reached again and whatever the costs are:
   what recompute_cost asserts does not fail before a state was queued twice. *)
THEOREM CountedTailsHaveCosts == BestTreeSpec => []TailsAreReached
<1>1. IInv => TailsAreReached
  <2>. SUFFICES ASSUME IInv, ~isQueuedTwice, phase = "search", NEW a \in ArcIds(hg), remain[a] = 0,
                       NEW s \in TailSet(hg, a)
       PROVE  mu[s] # Unreachable
    BY DEF TailsAreReached, TailsAlwaysReached
  <2>1. IsHypergraph(hg) /\ s \in States
    BY ArcTypes DEF IInv, JobInv
  <2>2. Uncounted(a) \in SUBSET TailSet(hg, a) /\ Cardinality(Uncounted(a)) <= 0
    BY DEF IInv, OnceInv, RemainInv, Uncounted
  <2>3. Cardinality(Uncounted(a)) \in Nat
    BY <2>1, <2>2, TailsAreFinite
  <2>4. Uncounted(a) = {}
    BY <2>1, <2>2, <2>3, TailsAreFinite
  <2>5. WasReached(s)
    BY <2>4 DEF Uncounted
  <2>6. QED
    BY <2>1, <2>5 DEF IInv, OnceInv, CostInv
<1>2. QED
  BY <1>1, Invariance, PTL

LEMMA OnceQueuedTwice ==
  ASSUME IInv, BestTreeNext, ~isQueuedTwice'
  PROVE  ~isQueuedTwice
<1>1. CASE ReachArc
  BY <1>1, ReachArcTypes
<1>2. CASE ~ReachArc
  BY <1>2 DEF BestTreeNext, ChooseAcyclic, RelaxOutArcs, AcyclicDone, ChooseBestFirst,
              AddAxioms, PopBest, SearchDone, search
<1>3. QED
  BY <1>1, <1>2

LEMMA SettledStep ==
  ASSUME IInv, IInv', BestTreeNext, IsNonNegative, ~isQueuedTwice',
         NEW s \in States, IsReached(s)
  PROVE  mu'[s] = mu[s] /\ pi'[s] = pi[s] /\ s \notin KeysOf(heap')
<1>0. ~isQueuedTwice /\ OnceInv /\ OnceInv'
  BY OnceQueuedTwice DEF IInv
<1>1. phase \notin {"choose", "acyclic", "axioms"} => phase = "search"
  BY DEF BestTreeNext, ChooseAcyclic, RelaxOutArcs, AcyclicDone, ChooseBestFirst, AddAxioms,
         PopBest, ReachArc, SearchDone
<1>2. phase = "search"
  BY <1>1 DEF IInv, NothingYet, IsReached
<1>3. WasReached(s)
  BY <1>2 DEF IsReached, WasReached
<1>4. s \notin Queued
  BY <1>0, <1>2, <1>3 DEF OnceInv, KnuthInv
<1>5. mu \in [States -> Int] /\ pi \in [States -> {0} \cup ArcIds(hg)]
  BY <1>2 DEF IInv, BestTreeTypeOK
<1>6. CASE SearchDone
  BY <1>4, <1>6 DEF SearchDone, result, search, Queued
<1>7. CASE PopBest
  BY <1>0, <1>4, <1>7, PopFacts DEF Queued
<1>8. CASE ReachArc
  <2>. PICK a : a = First(agenda)
    OBVIOUS
  <2>1. /\ phase' = "search" /\ hg' = hg
        /\ WasReached(s)'
        /\ (mu' = mu /\ pi' = pi) \/ RelaxChange(a)
    BY <1>2, <1>3, <1>8, ReachFacts
  <2>2. s \notin KeysOf(heap')
    BY <1>0, <2>1 DEF OnceInv, KnuthInv, Queued, IsNonNegative
  <2>3. mu'[s] = mu[s] /\ pi'[s] = pi[s]
    BY <1>5, <2>1, <2>2 DEF RelaxChange
  <2>4. QED
    BY <2>2, <2>3
<1>9. QED
  BY <1>2, <1>6, <1>7, <1>8 DEF BestTreeNext, ChooseAcyclic, RelaxOutArcs, AcyclicDone,
                               ChooseBestFirst, AddAxioms

(* Knuth's theorem, for every hypergraph without negative costs: once a state has
   been popped no step changes its cost or its best arc or queues it again, so
   that the search needs no limit on how often a state is reached, as long as no
   state is queued twice. *)
THEOREM ReachedStaysSettled == BestTreeSpec => ReachedIsSettled
<1>1. IInv /\ IInv' /\ [BestTreeNext]_vars =>
        [IsNonNegative /\ ~isQueuedTwice' =>
           \A s \in States : IsReached(s) =>
             mu'[s] = mu[s] /\ pi'[s] = pi[s] /\ s \notin KeysOf(heap')]_vars
  BY SettledStep
<1>2. QED
  BY <1>1, Invariance, PTL DEF BestTreeSpec, ReachedIsSettled

-----------------------------------------------------------------------------
(* The best tree *)

HasTails(a) == TailSet(hg, a) # {}

(* pi leads from every state that has a cost down to the axioms, without a
   cycle, along arcs that cost what mu says. *)
IsTree ==
  /\ \A s \in States : mu[s] # Unreachable =>
       IF pi[s] = 0 THEN IsAxiom(hg, s) /\ mu[s] = 0
                    ELSE HasTails(pi[s]) /\ mu[s] = CostWith(hg, pi[s], mu)
  /\ \A set \in SUBSET States :
       set # {} => \E s \in set : pi[s] = 0 \/ TailSet(hg, pi[s]) \cap set = {}

(* No arc whose tails are all in order improves its head. *)
IsRelaxed(a) == HasTails(a) => mu[HeadOf(hg, a)] <= CostWith(hg, a, mu)

TreeInv ==
  phase = "search" /\ IsNonNegative /\ ~isQueuedTwice =>
    /\ IsTree
    /\ \A s \in States : IsAxiom(hg, s) => mu[s] = 0
    /\ \A s \in States : mu[s] # Unreachable => s \in Queued \/ WasReached(s)
    /\ \A s \in States : pi[s] # 0 => \A t \in TailSet(hg, pi[s]) : WasReached(t)
    /\ \A a \in ArcIds(hg) :
         remain[a] = Cardinality(Uncounted(a)) \/ WasReached(HeadOf(hg, a))
    /\ \A a \in ArcIds(hg) : Uncounted(a) = {} => IsRelaxed(a)

(* At the end every arc is relaxed. *)
DoneInv ==
  /\ phase = "acyclic" => UsesAcyclic
  /\ phase = "done" /\ ~UsesAcyclic /\ IsNonNegative /\ ~isQueuedTwice =>
       /\ IsTree
       /\ \A s \in States : mu[s] \in 0 .. Unreachable /\ (IsAxiom(hg, s) => mu[s] = 0)
       /\ \A a \in ArcIds(hg) : IsRelaxed(a)

LEMMA InitIsTreeInv == Init => TreeInv /\ DoneInv
BY DEF Init, TreeInv, DoneInv

LEMMA StutterKeepsTree == TreeInv /\ DoneInv /\ UNCHANGED vars => TreeInv' /\ DoneInv'
<1>. SUFFICES ASSUME TreeInv, DoneInv, UNCHANGED vars PROVE TreeInv' /\ DoneInv'
  OBVIOUS
<1>. USE DEF vars, input, result, search
<1>1. IsTree' = IsTree /\ IsNonNegative' = IsNonNegative
  BY DEF IsTree, HasTails, IsNonNegative
<1>2. \A a : IsRelaxed(a)' = IsRelaxed(a) /\ Uncounted(a)' = Uncounted(a)
  BY DEF IsRelaxed, HasTails, Uncounted, WasReached
<1>3. UsesAcyclic' = UsesAcyclic
  BY DEF UsesAcyclic, TailsLast, DfsStep, DfsStart, Dfs
<1>4. TreeInv'
  BY <1>1, <1>2 DEF TreeInv, Queued, WasReached
<1>5. DoneInv'
  BY <1>1, <1>2, <1>3 DEF DoneInv
<1>6. QED
  BY <1>4, <1>5

LEMMA InputDecides ==
  ASSUME hg' = hg, opt' = opt
  PROVE  UsesAcyclic' = UsesAcyclic /\ IsNonNegative' = IsNonNegative
BY DEF UsesAcyclic, TailsLast, DfsStep, DfsStart, Dfs, IsNonNegative

(* Nothing else than the search can leave a tree to look at. *)
LEMMA OtherStepsKeepTree ==
  IInv /\ TreeInv /\ DoneInv /\ (ChooseAcyclic \/ RelaxOutArcs \/ AcyclicDone \/ ChooseBestFirst)
    => TreeInv' /\ DoneInv'
<1>. SUFFICES ASSUME IInv, DoneInv,
                     ChooseAcyclic \/ RelaxOutArcs \/ AcyclicDone \/ ChooseBestFirst
     PROVE  TreeInv' /\ DoneInv'
  OBVIOUS
<1>1. /\ hg' = hg /\ opt' = opt
      /\ phase' # "search"
      /\ phase' = "acyclic" => UsesAcyclic \/ phase = "acyclic"
      /\ phase' = "done" => phase = "acyclic"
  BY DEF ChooseAcyclic, RelaxOutArcs, AcyclicDone, ChooseBestFirst, input
<1>2. phase' \in {"acyclic", "done"} => UsesAcyclic'
  BY <1>1, InputDecides DEF DoneInv
<1>3. QED
  BY <1>1, <1>2 DEF TreeInv, DoneInv

LEMMA AddAxiomsStartsTree ==
  IInv /\ AddAxioms => TreeInv' /\ DoneInv'
<1>. SUFFICES ASSUME IInv, AddAxioms, IsNonNegative' PROVE TreeInv' /\ DoneInv'
  BY DEF AddAxioms, TreeInv, DoneInv
<1>1. /\ phase' = "search" /\ UNCHANGED <<input, pi, reached, rereach, agenda>>
      /\ reached = NoState /\ agenda = {}
      /\ mu' = AxiomCosts /\ mu' \in [States -> Int]
      /\ remain' = [a \in ArcIds(hg) |-> UniqueTails(a)]
      /\ \A s \in States : s \in KeysOf(heap') <=> IsAxiom(hg, s)
      /\ \A s \in States : ~WasReached(s)'
  BY AddAxiomsFacts
<1>2. hg' = hg /\ \A s \in States : pi'[s] = 0
  BY <1>1 DEF IInv, NothingYet, AddAxioms, input
<1>3. \A s \in States : mu'[s] = IF IsAxiom(hg, s) THEN 0 ELSE Unreachable
  BY <1>1 DEF AxiomCosts
<1>4. IsTree'
  <2>1. \A s \in States : mu'[s] # Unreachable => IsAxiom(hg, s) /\ mu'[s] = 0
    BY <1>3
  <2>2. QED
    BY <1>2, <2>1 DEF IsTree
<1>5. ASSUME NEW a \in ArcIds(hg)
      PROVE  Uncounted(a)' = TailSet(hg, a) /\ remain'[a] = Cardinality(Uncounted(a)')
  <2>1. TailSet(hg, a) \subseteq States
    BY ArcTypes DEF IInv, JobInv
  <2>2. Uncounted(a)' = TailSet(hg, a)
    BY <1>1, <1>2, <2>1 DEF Uncounted
  <2>3. QED
    BY <1>1, <2>2 DEF UniqueTails
<1>6. \A s \in States : mu'[s] # Unreachable => s \in Queued'
  BY <1>1, <1>3 DEF Queued
<1>7. \A a \in ArcIds(hg) : Uncounted(a)' = {} => IsRelaxed(a)'
  BY <1>2, <1>5 DEF IsRelaxed, HasTails
<1>8. TreeInv'
  BY <1>1, <1>2, <1>3, <1>4, <1>5, <1>6, <1>7 DEF TreeInv
<1>9. DoneInv'
  BY <1>1 DEF DoneInv
<1>10. QED
  BY <1>8, <1>9

LEMMA PopBestKeepsTree ==
  IInv /\ TreeInv /\ PopBest => TreeInv' /\ DoneInv'
<1>. SUFFICES ASSUME IInv, TreeInv, PopBest PROVE TreeInv' /\ DoneInv'
  OBVIOUS
<1>0. UNCHANGED isQueuedTwice /\ phase' = "search"
  BY DEF PopBest
<1>. SUFFICES ASSUME ~isQueuedTwice PROVE TreeInv' /\ DoneInv'
  BY <1>0 DEF TreeInv, DoneInv
<1>. PICK best : best = Top(heap)
  OBVIOUS
<1>1. /\ best \in States
      /\ UNCHANGED <<input, phase, mu, pi, remain>>
      /\ reached' = best /\ agenda = {} /\ agenda' = TailsUp(best)
      /\ Queued' = Queued \ {best}
      /\ isFirstReach' = ~WasReached(best)
      /\ \A s \in States : WasReached(s)' <=> WasReached(s) \/ s = best
  BY PopFacts
<1>2. phase = "search" /\ phase' = "search" /\ hg' = hg /\ opt' = opt
  BY <1>1 DEF PopBest, input
<1>3. DoneInv'
  BY <1>2 DEF DoneInv
<1>4. CASE ~IsNonNegative
  BY <1>2, <1>3, <1>4, InputDecides DEF TreeInv
<1>5. CASE IsNonNegative
  <2>1. /\ IsTree
        /\ \A s \in States : IsAxiom(hg, s) => mu[s] = 0
        /\ \A s \in States : mu[s] # Unreachable => s \in Queued \/ WasReached(s)
        /\ \A s \in States : pi[s] # 0 => \A t \in TailSet(hg, pi[s]) : WasReached(t)
        /\ \A a \in ArcIds(hg) :
             remain[a] = Cardinality(Uncounted(a)) \/ WasReached(HeadOf(hg, a))
        /\ \A a \in ArcIds(hg) : Uncounted(a) = {} => IsRelaxed(a)
    BY <1>2, <1>5 DEF TreeInv
  <2>2. IsHypergraph(hg) /\ pi \in [States -> {0} \cup ArcIds(hg)]
    BY DEF IInv, JobInv, BestTreeTypeOK
  <2>3. \A a \in ArcIds(hg) : TailSet(hg, a) \subseteq States /\ HeadOf(hg, a) \in States
    BY <2>2, ArcTypes
  <2>4. IsTree'
    BY <1>1, <1>2, <2>1 DEF IsTree, HasTails
  <2>5. \A a \in ArcIds(hg) : Uncounted(a)' = Uncounted(a) /\ IsRelaxed(a)' = IsRelaxed(a)
    BY <1>1, <1>2, <2>3 DEF Uncounted, TailsUp, IsRelaxed, HasTails
  <2>6. \A s \in States : pi'[s] # 0 => \A t \in TailSet(hg, pi'[s]) : WasReached(t)'
    BY <1>1, <2>1, <2>2, <2>3
  <2>7. ASSUME NEW a \in ArcIds(hg)
        PROVE  remain'[a] = Cardinality(Uncounted(a)') \/ WasReached(HeadOf(hg, a))'
    <3>1. remain'[a] = remain[a] /\ Uncounted(a)' = Uncounted(a)
      BY <1>1, <2>5
    <3>2. WasReached(HeadOf(hg, a)) => WasReached(HeadOf(hg, a))'
      <4>1. PICK h : h = HeadOf(hg, a)
        OBVIOUS
      <4>2. WasReached(h) => WasReached(h)'
        BY <1>1, <2>3, <4>1
      <4>3. HeadOf(hg, a)' = h
        BY <1>2, <4>1 DEF HeadOf
      <4>4. QED
        BY <1>2, <4>1, <4>2
    <3>3. QED
      BY <2>1, <3>1, <3>2
  <2>8. \A s \in States : mu'[s] # Unreachable => s \in Queued' \/ WasReached(s)'
    BY <1>1, <2>1
  <2>9. \A a \in ArcIds(hg) : Uncounted(a)' = {} => IsRelaxed(a)'
    BY <2>1, <2>5
  <2>10. \A s \in States : IsAxiom(hg, s) => mu'[s] = 0
    BY <1>1, <2>1
  <2>11. TreeInv'
    BY <1>2, <2>4, <2>6, <2>7, <2>8, <2>9, <2>10 DEF TreeInv
  <2>12. QED
    BY <1>3, <2>11
<1>6. QED
  BY <1>4, <1>5

LEMMA ReachArcKeepsTree ==
  IInv /\ TreeInv /\ ReachArc => TreeInv' /\ DoneInv'
<1>. SUFFICES ASSUME IInv, TreeInv, ReachArc PROVE TreeInv' /\ DoneInv'
  OBVIOUS
<1>. SUFFICES ASSUME ~isQueuedTwice' PROVE TreeInv' /\ DoneInv'
  BY DEF ReachArc, TreeInv, DoneInv
<1>. PICK a : a = First(agenda)
  OBVIOUS
<1>. PICK head : head = HeadOf(hg, a)
  OBVIOUS
<1>. PICK cost : cost = CostWith(hg, a, mu)
  OBVIOUS
<1>1. /\ ~isQueuedTwice /\ phase = "search" /\ phase' = "search" /\ a \in agenda
      /\ hg' = hg /\ opt' = opt /\ reached' = reached
      /\ mu' \in [States -> Int]
      /\ \A s \in States : WasReached(s)' <=> WasReached(s)
  BY ReachFacts
<1>2. \/ /\ UNCHANGED <<mu, pi, heap, remain>>
         /\ WasReached(head)
      \/ /\ UNCHANGED <<mu, pi, heap>> /\ CountedOff(a)
         /\ remain'[a] = 0 => ~(cost < mu[head])
      \/ /\ RelaxChange(a) /\ CountedOff(a)
         /\ remain'[a] = 0
  BY ReachFacts
<1>3. DoneInv'
  BY <1>1 DEF DoneInv
<1>4. CASE ~IsNonNegative
  BY <1>1, <1>3, <1>4, InputDecides DEF TreeInv
<1>5. CASE IsNonNegative
  <2>1. /\ IsTree
        /\ \A s \in States : IsAxiom(hg, s) => mu[s] = 0
        /\ \A s \in States : mu[s] # Unreachable => s \in Queued \/ WasReached(s)
        /\ \A s \in States : pi[s] # 0 => \A t \in TailSet(hg, pi[s]) : WasReached(t)
        /\ \A b \in ArcIds(hg) :
             remain[b] = Cardinality(Uncounted(b)) \/ WasReached(HeadOf(hg, b))
        /\ \A b \in ArcIds(hg) : Uncounted(b) = {} => IsRelaxed(b)
    BY <1>1, <1>5 DEF TreeInv
  <2>2. /\ \A s \in States : mu[s] >= 0 /\ mu[s] <= Unreachable
        /\ \A s \in States : WasReached(s) => mu[s] # Unreachable /\ mu[s] <= mu[reached]
    BY <1>1, <1>5 DEF IInv, OnceInv, KnuthInv, CostInv
  <2>3. IInv' /\ IsNonNegative'
    BY <1>1, <1>5, ReachArcKeepsIInv, InputDecides
  <2>4. /\ IsHypergraph(hg) /\ mu \in [States -> Int] /\ Unreachable \in Nat
        /\ pi \in [States -> {0} \cup ArcIds(hg)] /\ remain \in [ArcIds(hg) -> Nat]
    BY UnreachableAssumption DEF IInv, JobInv, BestTreeTypeOK
  <2>5. \A b \in ArcIds(hg) :
          /\ b # 0 /\ TailSet(hg, b) \subseteq States /\ HeadOf(hg, b) \in States
          /\ CostWith(hg, b, mu) \in Int /\ CostOf(hg, b) >= 0
    BY <1>5, <2>4, ArcTypes, CostWithType DEF IsNonNegative
  <2>6. /\ a \in ArcIds(hg) /\ reached \in States /\ reached \in TailSet(hg, a)
        /\ WasReached(reached)
    BY <1>1, ReachedIsUncounted
  <2>7. head \in States /\ cost \in Int
    BY <2>5, <2>6
  <2>8. mu[head] <= Unreachable /\ (cost < Unreachable => mu[reached] <= cost)
    BY <2>2, <2>4, <2>5, <2>6, <2>7, CostWithIsAbove
  <2>9. WasReached(head) => mu[head] <= cost
    BY <2>2, <2>4, <2>6, <2>7, <2>8
  <2>10. \A s \in States : WasReached(s) => mu'[s] = mu[s] /\ s \notin Queued'
    <3>1. \A s \in States : WasReached(s)' => s \notin Queued'
      BY <1>1, <2>3 DEF IInv, OnceInv, KnuthInv
    <3>2. QED
      BY <1>1, <1>2, <2>4, <3>1 DEF RelaxChange, Queued
  <2>11. \A b \in ArcIds(hg) :
           (\A t \in TailSet(hg, b) : WasReached(t)) => CostWith(hg, b, mu') = CostWith(hg, b, mu)
    BY <2>4, <2>5, <2>10, CostWithDependsOnTails
  <2>12. \A b \in ArcIds(hg) : Uncounted(b)' = {} => \A t \in TailSet(hg, b) : WasReached(t)
    BY <1>1, <2>5 DEF Uncounted
  <2>13. Uncounted(a)' \in SUBSET TailSet(hg, a) /\ (remain'[a] = 0 => Uncounted(a)' = {})
    <3>1. Uncounted(a)' \in SUBSET TailSet(hg, a)
      BY <2>6, CountedTails
    <3>2. Cardinality(Uncounted(a)') \in Nat
      BY <2>4, <2>6, <3>1, TailsAreFinite
    <3>3. Cardinality(Uncounted(a)') <= remain'[a]
      BY <1>1, <2>3, <2>6 DEF IInv, OnceInv, RemainInv
    <3>4. QED
      BY <2>4, <2>6, <3>1, <3>2, <3>3, TailsAreFinite
  <2>14. \/ mu' = mu /\ pi' = pi /\ Queued' = Queued
         \/ /\ cost < mu[head] /\ Uncounted(a)' = {} /\ ~WasReached(head)
            /\ \A s \in States : mu'[s] = IF s = head THEN cost ELSE mu[s]
            /\ \A s \in States : pi'[s] = IF s = head THEN a ELSE pi[s]
            /\ Queued' = Queued \cup {head}
    <3>1. CASE UNCHANGED <<mu, pi, heap>>
      BY <3>1 DEF Queued
    <3>2. CASE RelaxChange(a) /\ remain'[a] = 0
      <4>1. /\ cost < mu[head] /\ mu' = [mu EXCEPT ![head] = cost]
            /\ pi' = [pi EXCEPT ![head] = a] /\ Queued' = Queued \cup {head}
        BY <3>2 DEF RelaxChange, Queued
      <4>2. ~WasReached(head)
        BY <2>7, <2>10, <4>1
      <4>3. QED
        BY <2>4, <2>13, <3>2, <4>1, <4>2
    <3>3. QED
      BY <1>2, <3>1, <3>2
  <2>15. \A s \in States : mu'[s] \in Int /\ mu'[s] <= mu[s]
    BY <1>1, <2>4, <2>7, <2>14
  <2>16. \A s \in States : IsAxiom(hg, s) => mu'[s] = 0
    <3>1. cost < mu[head] => ~IsAxiom(hg, head)
      <4>1. SUFFICES ASSUME cost < mu[head], IsAxiom(hg, head) PROVE FALSE
        OBVIOUS
      <4>2. mu[head] = 0 /\ cost < Unreachable
        BY <2>1, <2>4, <2>7, <2>8, <4>1
      <4>3. mu[reached] >= 0
        BY <2>2, <2>6
      <4>4. QED
        BY <2>4, <2>6, <2>7, <2>8, <4>1, <4>2, <4>3
    <3>2. QED
      BY <2>1, <2>14, <3>1
  <2>17. \A s \in States : mu'[s] # Unreachable => s \in Queued' \/ WasReached(s)'
    BY <1>1, <2>1, <2>14
  <2>18. \A s \in States : pi'[s] # 0 => \A t \in TailSet(hg, pi'[s]) : WasReached(t)
    BY <2>1, <2>6, <2>12, <2>14
  <2>19. IsTree'
    <3>1. ASSUME NEW s \in States, mu'[s] # Unreachable
          PROVE  IF pi'[s] = 0 THEN IsAxiom(hg, s) /\ mu'[s] = 0
                               ELSE HasTails(pi'[s]) /\ mu'[s] = CostWith(hg, pi'[s], mu')
      <4>1. CASE mu'[s] = mu[s] /\ pi'[s] = pi[s]
        <5>1. IF pi[s] = 0 THEN IsAxiom(hg, s) /\ mu[s] = 0
                           ELSE HasTails(pi[s]) /\ mu[s] = CostWith(hg, pi[s], mu)
          BY <2>1, <3>1, <4>1 DEF IsTree
        <5>2. pi[s] # 0 => CostWith(hg, pi[s], mu') = CostWith(hg, pi[s], mu)
          BY <2>1, <2>4, <2>11
        <5>3. QED
          BY <4>1, <5>1, <5>2
      <4>2. CASE ~(mu'[s] = mu[s] /\ pi'[s] = pi[s])
        <5>1. s = head /\ mu'[s] = cost /\ pi'[s] = a /\ Uncounted(a)' = {}
          BY <2>14, <4>2
        <5>2. CostWith(hg, a, mu') = cost
          BY <2>6, <2>11, <2>12, <5>1
        <5>3. QED
          BY <2>5, <2>6, <5>1, <5>2 DEF HasTails
      <4>3. QED
        BY <4>1, <4>2
    <3>2. ASSUME NEW set \in SUBSET States, set # {}
          PROVE  \E s \in set : pi'[s] = 0 \/ TailSet(hg, pi'[s]) \cap set = {}
      <4>1. PICK done : done = {s \in set : WasReached(s)}
        OBVIOUS
      <4>2. CASE done # {}
        <5>1. PICK s \in done : pi[s] = 0 \/ TailSet(hg, pi[s]) \cap done = {}
          BY <2>1, <4>1, <4>2 DEF IsTree
        <5>2. s \in set /\ pi'[s] = pi[s]
          BY <2>14, <4>1, <5>1
        <5>3. pi[s] # 0 => TailSet(hg, pi[s]) \cap set \subseteq done
          BY <2>1, <4>1, <5>1
        <5>4. QED
          BY <5>1, <5>2, <5>3
      <4>3. CASE done = {}
        <5>1. PICK s \in set : TRUE
          BY <3>2
        <5>2. pi'[s] = 0 \/ TailSet(hg, pi'[s]) \cap set = {}
          BY <2>18, <4>1, <4>3
        <5>3. QED
          BY <5>2
      <4>4. QED
        BY <4>2, <4>3
    <3>3. QED
      BY <1>1, <3>1, <3>2 DEF IsTree, HasTails
  <2>20. ASSUME NEW b \in ArcIds(hg)
         PROVE  remain'[b] = Cardinality(Uncounted(b)') \/ WasReached(HeadOf(hg, b))
    <3>1. /\ b # a => Uncounted(b)' = Uncounted(b)
          /\ Cardinality(Uncounted(a)') =
               IF isFirstReach THEN Cardinality(Uncounted(a)) - 1 ELSE Cardinality(Uncounted(a))
      BY CountedTails
    <3>2. CASE remain' = remain /\ WasReached(head)
      BY <2>1, <3>1, <3>2
    <3>3. CASE CountedOff(a)
      <4>1. remain'[b] = IF b = a THEN (IF isFirstReach THEN remain[a] - 1 ELSE remain[a])
                                  ELSE remain[b]
        BY <2>4, <3>3 DEF CountedOff
      <4>2. QED
        BY <2>1, <3>1, <4>1
    <3>4. QED
      BY <1>2, <3>2, <3>3
  <2>21. ASSUME NEW b \in ArcIds(hg), Uncounted(b)' = {}, HasTails(b)
         PROVE  mu'[HeadOf(hg, b)] <= CostWith(hg, b, mu')
    <3>1. CostWith(hg, b, mu') = CostWith(hg, b, mu)
      BY <2>11, <2>12, <2>21
    <3>2. CASE b # a
      <4>1. Uncounted(b) = {}
        BY <2>21, <3>2, CountedTails
      <4>2. mu[HeadOf(hg, b)] <= CostWith(hg, b, mu)
        BY <2>1, <2>21, <4>1 DEF IsRelaxed
      <4>3. QED
        BY <2>4, <2>5, <2>15, <3>1, <4>2
    <3>3. CASE b = a
      <4>1. mu'[head] <= cost
        <5>1. CASE WasReached(head)
          BY <2>4, <2>7, <2>9, <2>15, <5>1
        <5>2. CASE ~WasReached(head)
          <6>1. remain'[a] = 0
            <7>1. remain'[a] = Cardinality(Uncounted(a)')
              BY <2>6, <2>20, <5>2
            <7>2. QED
              BY <2>21, <3>3, <7>1, FS_EmptySet
          <6>2. CASE RelaxChange(a)
            BY <2>4, <2>7, <6>2 DEF RelaxChange
          <6>3. CASE mu' = mu /\ ~(cost < mu[head])
            BY <2>4, <2>7, <6>3
          <6>4. QED
            BY <1>2, <5>2, <6>1, <6>2, <6>3
        <5>3. QED
          BY <5>1, <5>2
      <4>2. QED
        BY <3>1, <3>3, <4>1
    <3>4. QED
      BY <3>2, <3>3
  <2>22. TreeInv'
    <3>1. \A s \in States : pi'[s] # 0 => \A t \in TailSet(hg, pi'[s]) : WasReached(t)'
      <4>1. IInv' => pi' \in [States -> {0} \cup ArcIds(hg)]
        BY <1>1 DEF IInv, BestTreeTypeOK
      <4>2. QED
        BY <1>1, <2>3, <2>5, <2>18, <4>1
    <3>2. \A b \in ArcIds(hg) :
            remain'[b] = Cardinality(Uncounted(b)') \/ WasReached(HeadOf(hg, b))'
      <4>1. \A b \in ArcIds(hg) : WasReached(HeadOf(hg, b)) => WasReached(HeadOf(hg, b))'
        <5>1. ASSUME NEW b \in ArcIds(hg), NEW h, h = HeadOf(hg, b), WasReached(h)
              PROVE  WasReached(HeadOf(hg, b))'
          BY <1>1, <2>5, <5>1
        <5>2. QED
          BY <5>1
      <4>2. QED
        BY <2>20, <4>1
    <3>3. \A b \in ArcIds(hg) : Uncounted(b)' = {} => IsRelaxed(b)'
      BY <1>1, <2>21 DEF IsRelaxed, HasTails
    <3>4. QED
      BY <1>1, <2>16, <2>17, <2>19, <3>1, <3>2, <3>3 DEF TreeInv
  <2>23. QED
    BY <1>3, <2>22
<1>6. QED
  BY <1>4, <1>5

LEMMA SearchDoneKeepsTree ==
  IInv /\ TreeInv /\ SearchDone => TreeInv' /\ DoneInv'
<1>. SUFFICES ASSUME IInv, TreeInv, SearchDone PROVE TreeInv' /\ DoneInv'
  OBVIOUS
<1>1. /\ phase = "search" /\ phase' = "done" /\ hg' = hg /\ opt' = opt /\ mu' = mu /\ pi' = pi
      /\ agenda = {} /\ Size(heap) = 0 /\ isQueuedTwice' = isQueuedTwice
  BY DEF SearchDone, input, result, search
<1>2. TreeInv'
  BY <1>1 DEF TreeInv
<1>3. CASE ~(IsNonNegative /\ ~isQueuedTwice)
  BY <1>1, <1>2, <1>3, InputDecides DEF DoneInv
<1>4. CASE IsNonNegative /\ ~isQueuedTwice
  <2>1. /\ IsTree
        /\ \A s \in States : IsAxiom(hg, s) => mu[s] = 0
        /\ \A s \in States : mu[s] # Unreachable => s \in Queued \/ WasReached(s)
        /\ \A a \in ArcIds(hg) : Uncounted(a) = {} => IsRelaxed(a)
    BY <1>1, <1>4 DEF TreeInv
  <2>2. /\ mu \in [States -> Int] /\ IsHypergraph(hg)
        /\ \A s \in States : mu[s] >= 0 /\ mu[s] <= Unreachable
    BY <1>1, <1>4 DEF IInv, OnceInv, BestTreeTypeOK, JobInv, KnuthInv, CostInv
  <2>3. Queued = {}
    BY <1>1 DEF Queued, KeysOf, Places
  <2>4. ASSUME NEW a \in ArcIds(hg)
        PROVE  IsRelaxed(a)
    <3>1. /\ TailSet(hg, a) \subseteq States /\ HeadOf(hg, a) \in States
          /\ CostOf(hg, a) >= 0 /\ CostWith(hg, a, mu) \in Int
      BY <1>4, <2>2, ArcTypes, CostWithType DEF IsNonNegative
    <3>2. CASE Uncounted(a) = {}
      BY <2>1, <3>2
    <3>3. CASE Uncounted(a) # {}
      <4>1. PICK t \in TailSet(hg, a) : ~WasReached(t)
        BY <1>1, <3>3 DEF Uncounted
      <4>2. mu[t] = Unreachable
        BY <2>1, <2>3, <3>1, <4>1
      <4>3. ~(CostWith(hg, a, mu) < Unreachable)
        BY <2>2, <3>1, <4>1, <4>2, CostWithIsAbove, UnreachableAssumption
      <4>4. mu[HeadOf(hg, a)] <= CostWith(hg, a, mu)
        BY <2>2, <3>1, <4>3, UnreachableAssumption
      <4>5. QED
        BY <4>4 DEF IsRelaxed
    <3>4. QED
      BY <3>2, <3>3
  <2>5. IsTree' = IsTree /\ \A a \in ArcIds(hg) : IsRelaxed(a)' = IsRelaxed(a)
    BY <1>1 DEF IsTree, IsRelaxed, HasTails
  <2>6. \A s \in States : mu[s] \in 0 .. Unreachable /\ (IsAxiom(hg, s) => mu[s] = 0)
    BY <2>1, <2>2, UnreachableAssumption
  <2>7. DoneInv'
    BY <1>1, <2>1, <2>4, <2>5, <2>6 DEF DoneInv
  <2>8. QED
    BY <1>2, <2>7
<1>5. QED
  BY <1>3, <1>4

LEMMA TreeInvariance == BestTreeSpec => [](IInv /\ TreeInv /\ DoneInv)
<1>1. Init => IInv /\ TreeInv /\ DoneInv
  BY InitIsIInv, InitIsTreeInv
<1>2. IInv /\ TreeInv /\ DoneInv /\ [BestTreeNext]_vars => (IInv /\ TreeInv /\ DoneInv)'
  <2>1. IInv /\ [BestTreeNext]_vars => IInv'
    BY NextKeepsIInv
  <2>2. IInv /\ TreeInv /\ DoneInv /\ [BestTreeNext]_vars => TreeInv' /\ DoneInv'
    BY StutterKeepsTree, OtherStepsKeepTree, AddAxiomsStartsTree, PopBestKeepsTree,
       ReachArcKeepsTree, SearchDoneKeepsTree DEF BestTreeNext
  <2>3. QED
    BY <2>1, <2>2
<1>3. QED
  BY <1>1, <1>2, PTL DEF BestTreeSpec

-----------------------------------------------------------------------------
(* The costs of all derivations *)

(* A set of states with costs that holds the axioms at no cost and, whenever it
   holds the tails of an arc, the head at what the arc and the tails cost *)
IsClosed(C) ==
  /\ \A s \in States : IsAxiom(hg, s) => <<s, 0>> \in C
  /\ \A a \in ArcIds(hg), parts \in Seq(Int) :
       /\ HasTails(a) /\ Len(parts) = Len(TailsOf(hg, a))
       /\ \A i \in 1 .. Len(parts) : <<TailsOf(hg, a)[i], parts[i]>> \in C
       => <<HeadOf(hg, a), Total(CostOf(hg, a), parts)>> \in C

(* Some derivation of state s costs c: <<s, c>> is in the least closed set. *)
HasDerivation(s, c) ==
  \A C \in SUBSET (States \X Int) : IsClosed(C) => <<s, c>> \in C

SearchIsExact ==
  phase = "done" /\ ~UsesAcyclic /\ IsNonNegative /\ ~isQueuedTwice =>
    \A s \in States :
      /\ mu[s] # Unreachable => HasDerivation(s, mu[s])
      /\ \A c \in Int : HasDerivation(s, c) => mu[s] <= c

LEMMA MuIsACost ==
  ASSUME IInv, IsNonNegative, IsTree, \A s \in States : mu[s] \in 0 .. Unreachable,
         NEW s \in States, mu[s] # Unreachable
  PROVE  HasDerivation(s, mu[s])
<1>. SUFFICES ASSUME NEW C, IsClosed(C), <<s, mu[s]>> \notin C PROVE FALSE
  BY DEF HasDerivation
<1>. PICK missing : missing = {t \in States : mu[t] # Unreachable /\ <<t, mu[t]>> \notin C}
  OBVIOUS
<1>1. /\ IsHypergraph(hg) /\ mu \in [States -> Int] /\ Unreachable \in Nat
      /\ pi \in [States -> {0} \cup ArcIds(hg)]
      /\ \A t \in States : pi[t] # 0 => HeadOf(hg, pi[t]) = t
  BY UnreachableAssumption DEF IInv, JobInv, BestTreeTypeOK
<1>2. PICK t \in missing : pi[t] = 0 \/ TailSet(hg, pi[t]) \cap missing = {}
  <2>1. missing \in SUBSET States /\ missing # {}
    OBVIOUS
  <2>2. QED
    BY <2>1 DEF IsTree
<1>3. t \in States /\ mu[t] # Unreachable /\ <<t, mu[t]>> \notin C
  OBVIOUS
<1>4. CASE pi[t] = 0
  BY <1>3, <1>4 DEF IsTree, IsClosed
<1>5. CASE pi[t] # 0
  <2>. PICK a : a = pi[t]
    OBVIOUS
  <2>1. a \in ArcIds(hg) /\ HeadOf(hg, a) = t /\ TailSet(hg, a) \cap missing = {}
    BY <1>1, <1>2, <1>3, <1>5
  <2>2. HasTails(a) /\ mu[t] = CostWith(hg, a, mu)
    BY <1>3, <1>5 DEF IsTree
  <2>3. CostWith(hg, a, mu) < Unreachable /\ CostOf(hg, a) >= 0
    BY <1>1, <1>3, <2>1, <2>2 DEF IsNonNegative
  <2>4. TailSet(hg, a) \subseteq States
    BY <1>1, <2>1, ArcTypes
  <2>5. ASSUME NEW r \in TailSet(hg, a)
        PROVE  <<r, mu[r]>> \in C
    <3>1. \A q \in States : mu[q] >= 0
      BY <1>1
    <3>2. mu[r] <= CostWith(hg, a, mu)
      BY <1>1, <2>1, <2>3, <3>1, CostWithIsAbove
    <3>3. mu[r] # Unreachable /\ r \in States
      BY <1>1, <1>3, <2>2, <2>3, <2>4, <3>2
    <3>4. QED
      BY <2>1, <3>3
  <2>. PICK own : own = PartsOf(hg, a, mu)
    OBVIOUS
  <2>6. /\ CostWith(hg, a, mu) = Total(CostOf(hg, a), own)
        /\ own \in Seq(Int) /\ Len(own) = Len(TailsOf(hg, a))
        /\ \A i \in 1 .. Len(TailsOf(hg, a)) : own[i] = mu[TailsOf(hg, a)[i]]
    <3>1. IsHypergraph(hg) /\ mu \in [States -> Int] /\ a \in ArcIds(hg)
      BY <1>1, <2>1
    <3>2. QED
      BY <3>1, PartsType
  <2>7. ASSUME NEW i \in 1 .. Len(own)
        PROVE  <<TailsOf(hg, a)[i], own[i]>> \in C
    <3>1. TailsOf(hg, a) \in Seq(States)
      BY <1>1, <2>1, ArcTypes
    <3>2. PICK r : r = TailsOf(hg, a)[i]
      OBVIOUS
    <3>3. i \in DOMAIN TailsOf(hg, a)
      BY <2>6, <3>1
    <3>4. r \in TailSet(hg, a)
      BY <3>2, <3>3 DEF TailSet
    <3>5. <<r, mu[r]>> \in C
      BY <2>5, <3>4
    <3>6. own[i] = mu[r]
      BY <2>6, <3>2
    <3>7. QED
      BY <3>2, <3>5, <3>6
  <2>8. <<HeadOf(hg, a), Total(CostOf(hg, a), own)>> \in C
    BY <2>1, <2>2, <2>6, <2>7 DEF IsClosed
  <2>9. QED
    BY <1>3, <2>1, <2>2, <2>6, <2>8
<1>6. QED
  BY <1>4, <1>5

LEMMA MuIsLeast ==
  ASSUME IInv, IsNonNegative,
         \A s \in States : mu[s] \in 0 .. Unreachable /\ (IsAxiom(hg, s) => mu[s] = 0),
         \A a \in ArcIds(hg) : IsRelaxed(a),
         NEW s \in States, NEW c \in Int, HasDerivation(s, c)
  PROVE  mu[s] <= c
<1>. PICK C : C = {x \in States \X Nat : mu[x[1]] <= x[2]}
  OBVIOUS
<1>1. IsHypergraph(hg) /\ mu \in [States -> Int] /\ Unreachable \in Nat
  BY UnreachableAssumption DEF IInv, JobInv, BestTreeTypeOK
<1>2. \A t, k : <<t, k>> \in C <=> t \in States /\ k \in Nat /\ mu[t] <= k
  OBVIOUS
<1>3. ASSUME NEW a \in ArcIds(hg), NEW parts \in Seq(Int),
             HasTails(a), Len(parts) = Len(TailsOf(hg, a)),
             \A i \in 1 .. Len(parts) : <<TailsOf(hg, a)[i], parts[i]>> \in C
      PROVE  <<HeadOf(hg, a), Total(CostOf(hg, a), parts)>> \in C
  <2>. PICK head, total : head = HeadOf(hg, a) /\ total = Total(CostOf(hg, a), parts)
    OBVIOUS
  <2>1. head \in States /\ CostOf(hg, a) \in Nat /\ CostWith(hg, a, mu) \in Int
    BY <1>1, ArcTypes, CostWithType DEF IsNonNegative
  <2>2. ASSUME NEW i \in 1 .. Len(parts)
        PROVE  parts[i] >= 0 /\ mu[TailsOf(hg, a)[i]] <= parts[i] /\ mu[TailsOf(hg, a)[i]] >= 0
    <3>1. PICK r, k : r = TailsOf(hg, a)[i] /\ k = parts[i]
      OBVIOUS
    <3>2. <<r, k>> \in C
      BY <1>3, <3>1
    <3>3. r \in States /\ k \in Nat /\ mu[r] <= k
      BY <1>2, <3>2
    <3>4. mu[r] >= 0
      BY <1>1, <3>3
    <3>5. QED
      BY <3>1, <3>3, <3>4
  <2>3. total \in Nat
    BY <2>1, <2>2, TotalIsAbove
  <2>4. mu[head] <= CostWith(hg, a, mu) /\ mu[head] <= Unreachable /\ mu[head] \in Int
    BY <1>1, <1>3, <2>1 DEF IsRelaxed
  <2>5. total < Unreachable => CostWith(hg, a, mu) <= total
    <3>. PICK own : own = PartsOf(hg, a, mu)
      OBVIOUS
    <3>1. /\ CostWith(hg, a, mu) = Total(CostOf(hg, a), own)
          /\ own \in Seq(Int) /\ Len(own) = Len(TailsOf(hg, a))
          /\ \A i \in 1 .. Len(TailsOf(hg, a)) : own[i] = mu[TailsOf(hg, a)[i]]
      BY <1>1, PartsType
    <3>2. \A i \in 1 .. Len(own) : 0 <= own[i] /\ own[i] <= parts[i]
      BY <1>3, <2>2, <3>1
    <3>3. QED
      BY <1>3, <2>1, <3>1, <3>2, TotalIsMonotonic
  <2>6. mu[head] <= total
    BY <1>1, <2>1, <2>3, <2>4, <2>5
  <2>7. QED
    BY <1>2, <2>1, <2>3, <2>6
<1>4. \A t \in States : IsAxiom(hg, t) => <<t, 0>> \in C
  BY <1>2
<1>5. IsClosed(C)
  BY <1>3, <1>4 DEF IsClosed
<1>6. C \in SUBSET (States \X Int)
  OBVIOUS
<1>7. <<s, c>> \in C
  BY <1>5, <1>6 DEF HasDerivation
<1>8. QED
  BY <1>2, <1>7

(* When the best-first search ends, without negative costs, mu is exact: the cost
   it has for a state is the cost of a derivation of that state from the axioms,
   and no derivation costs less; a state it has no cost for has no derivation that
   is cheaper than unreachable.  This needs that no state was queued twice: what
   pop does to the places can break it (d_ary_heap.hpp:638-646). *)
THEOREM SearchFindsBestCosts == BestTreeSpec => []SearchIsExact
<1>1. IInv /\ DoneInv => SearchIsExact
  BY MuIsACost, MuIsLeast DEF SearchIsExact, DoneInv
<1>2. QED
  BY <1>1, TreeInvariance, PTL

(* When the best-first search ends, without negative costs, pi is the tree of the
   cheapest derivations: relax has left in it, for every state that has a cost, an
   arc that costs what mu says, and following these arcs leads down to the axioms
   without a cycle, if no state was queued twice. *)
THEOREM SearchFindsATree ==
  BestTreeSpec =>
    [](phase = "done" /\ ~UsesAcyclic /\ IsNonNegative /\ ~isQueuedTwice => IsTree)
<1>1. DoneInv => (phase = "done" /\ ~UsesAcyclic /\ IsNonNegative /\ ~isQueuedTwice => IsTree)
  BY DEF DoneInv
<1>2. QED
  BY <1>1, TreeInvariance, PTL

-----------------------------------------------------------------------------
(* The depth first order of the states *)

FromState(a) == TailsOf(hg, a)[1]

(* The call that runs, and the arcs it has yet to come to *)
Depth(d) == Len(d.calls)
Caller(d) == d.calls[Depth(d)].state
CallerArc(d) == d.calls[Depth(d)].arc
LeftOf(d) == {a \in ArcIds(hg) : a > CallerArc(d) /\ FromState(a) = Caller(d)}
IsFinished(d) == Depth(d) = 0 \/ d.backEdges > MaxBackEdges

(* What a step does to the calls: the last one returns, or comes to arc a. *)
IsReturn(d, e) ==
  /\ Depth(e) = Depth(d) - 1
  /\ \A i \in 1 .. Depth(e) : e.calls[i] = d.calls[i]
IsMove(d, e, a) ==
  /\ Depth(e) >= Depth(d)
  /\ \A i \in 1 .. Depth(d) - 1 : e.calls[i] = d.calls[i]
  /\ e.calls[Depth(d)].state = Caller(d) /\ e.calls[Depth(d)].arc = a

IsClosing(d, e) ==
  /\ LeftOf(d) = {}
  /\ IsReturn(d, e)
  /\ e.color = [d.color EXCEPT ![Caller(d)] = "closed"]
  /\ e.order = Append(d.order, Caller(d))
  /\ e.backEdges = d.backEdges
IsOpening(d, e, a) ==
  /\ d.color[HeadOf(hg, a)] = "fresh"
  /\ IsMove(d, e, a)
  /\ Depth(e) = Depth(d) + 1
  /\ e.calls[Depth(e)].state = HeadOf(hg, a) /\ e.calls[Depth(e)].arc = 0
  /\ e.color = [d.color EXCEPT ![HeadOf(hg, a)] = "opened"]
  /\ e.order = d.order
  /\ e.backEdges = d.backEdges
IsPassing(d, e, a) ==
  /\ d.color[HeadOf(hg, a)] # "fresh"
  /\ IsMove(d, e, a)
  /\ Depth(e) = Depth(d)
  /\ e.color = d.color
  /\ e.order = d.order
  /\ IF d.color[HeadOf(hg, a)] = "opened" /\ HeadOf(hg, a) # Caller(d)
       THEN e.backEdges = d.backEdges + 1 ELSE e.backEdges = d.backEdges
IsNextArc(d, a) == a \in LeftOf(d) /\ \A b \in LeftOf(d) : a <= b

LEMMA DfsSteps ==
  ASSUME IsHypergraph(hg), IsGraph(hg), NEW d \in Dfs, NEW e, e = DfsStep[d]
  PROVE  IF IsFinished(d) THEN e = d
         ELSE IsClosing(d, e) \/ \E a : IsNextArc(d, a) /\ (IsOpening(d, e, a) \/ IsPassing(d, e, a))
<1>a. PICK calls, n : calls = d.calls /\ n = Len(calls)
  OBVIOUS
<1>b. PICK call, below : call = calls[n] /\ below = SubSeq(calls, 1, n - 1)
  OBVIOUS
<1>c. PICK left, a, to : left = LeftOf(d) /\ a = First(left) /\ to = HeadOf(hg, a)
  OBVIOUS
<1>d. PICK moved, next : moved = [call EXCEPT !.arc = a] /\ next = Append(below, moved)
  OBVIOUS
<1>1. e = IF n = 0 \/ d.backEdges > MaxBackEdges THEN d
          ELSE IF left = {}
            THEN [d EXCEPT !.order = LeftLast(@, call.state),
                           !.color[call.state] = "closed", !.calls = below]
          ELSE IF d.color[to] = "fresh"
            THEN [d EXCEPT !.color[to] = "opened",
                           !.calls = Append(next, [state |-> to, arc |-> 0])]
          ELSE IF d.color[to] = "opened" /\ to # call.state
            THEN [d EXCEPT !.backEdges = @ + 1, !.calls = next]
          ELSE [d EXCEPT !.calls = next]
  BY <1>a, <1>b, <1>c, <1>d DEF DfsStep, LeftOf, Caller, CallerArc, Depth, FromState
<1>2. /\ d.color \in [States -> Colors] /\ d.order \in Seq(States)
      /\ d.backEdges \in Nat /\ calls \in Seq(Calls) /\ n \in Nat
      /\ d = [color |-> d.color, order |-> d.order, backEdges |-> d.backEdges, calls |-> d.calls]
  BY <1>a DEF Dfs, Colors, Calls
<1>3. CASE IsFinished(d)
  BY <1>1, <1>3, <1>a DEF IsFinished, Depth
<1>4. CASE ~IsFinished(d)
  <2>1. n \in 1 .. Len(calls) /\ ~(n = 0 \/ d.backEdges > MaxBackEdges)
    BY <1>2, <1>4, <1>a DEF IsFinished, Depth
  <2>2. call \in Calls /\ call.state \in States /\ call.arc \in Nat
    <3>1. call \in Calls
      BY <1>2, <2>1, <1>b, ElementOfSeq
    <3>2. QED
      BY <3>1 DEF Calls
  <2>3. below \in Seq(Calls) /\ Len(below) = n - 1 /\ \A i \in 1 .. n - 1 : below[i] = calls[i]
    <3>1. \A i \in 1 .. n - 1 : calls[i] \in Calls
      BY <1>a, <1>2, ElementOfSeq
    <3>2. /\ SubSeq(calls, 1, n - 1) \in Seq(Calls)
          /\ Len(SubSeq(calls, 1, n - 1)) = IF 1 <= n - 1 THEN n - 1 - 1 + 1 ELSE 0
          /\ \A i \in 1 .. n - 1 - 1 + 1 : SubSeq(calls, 1, n - 1)[i] = calls[1 + i - 1]
      BY <1>2, <3>1, SubSeqProperties
    <3>3. /\ n - 1 - 1 + 1 = n - 1 /\ (~(1 <= n - 1) => n - 1 = 0)
          /\ \A i \in 1 .. n - 1 : 1 + i - 1 = i
      BY <1>2, <2>1
    <3>4. Len(SubSeq(calls, 1, n - 1)) = n - 1
      BY <3>2, <3>3
    <3>5. \A i \in 1 .. n - 1 : SubSeq(calls, 1, n - 1)[i] = calls[i]
      BY <3>2, <3>3, Zenon
    <3>6. QED
      BY <1>b, <3>2, <3>4, <3>5
  <2>4. Depth(d) = n /\ Caller(d) = call.state /\ CallerArc(d) = call.arc
    BY <1>a, <1>b DEF Depth, Caller, CallerArc
  <2>5. CASE left = {}
    <3>1. e = [d EXCEPT !.order = LeftLast(@, call.state),
                        !.color[call.state] = "closed", !.calls = below]
      BY <1>1, <2>1, <2>5
    <3>2. /\ e.color = [d.color EXCEPT ![call.state] = "closed"]
          /\ e.order = Append(d.order, call.state)
          /\ e.backEdges = d.backEdges /\ e.calls = below
      BY <1>2, <3>1 DEF LeftLast
    <3>3. IsReturn(d, e)
      BY <1>a, <2>3, <2>4, <3>2 DEF IsReturn, Depth
    <3>4. IsClosing(d, e)
      BY <1>c, <2>4, <2>5, <3>2, <3>3 DEF IsClosing
    <3>5. QED
      BY <1>4, <3>4
  <2>6. CASE left # {}
    <3>1. IsNextArc(d, a) /\ a \in Nat /\ to \in States
      <4>1. \A b \in left : b \in ArcIds(hg) /\ b \in Nat
        BY <1>c, ArcTypes DEF LeftOf
      <4>2. a \in left /\ \A b \in left : a <= b
        BY <1>c, <2>6, <4>1, FirstIsMember
      <4>3. QED
        BY <1>c, <4>1, <4>2, ArcTypes DEF IsNextArc
    <3>2. moved \in Calls /\ moved.state = call.state /\ moved.arc = a
      BY <1>d, <2>2, <3>1 DEF Calls
    <3>3. /\ next \in Seq(Calls) /\ Len(next) = n
          /\ \A i \in 1 .. n - 1 : next[i] = calls[i]
          /\ next[n] = moved
      BY <1>d, <1>2, <2>1, <2>3, <3>2
    <3>4. ASSUME NEW f, f.calls = next
          PROVE  IsMove(d, f, a) /\ Depth(f) = n
      BY <1>a, <1>2, <2>4, <3>2, <3>3, <3>4 DEF IsMove, Depth
    <3>5. CASE d.color[to] = "fresh"
      <4>1. e = [d EXCEPT !.color[to] = "opened",
                          !.calls = Append(next, [state |-> to, arc |-> 0])]
        BY <1>1, <2>1, <2>6, <3>5
      <4>2. /\ e.color = [d.color EXCEPT ![to] = "opened"] /\ e.order = d.order
            /\ e.backEdges = d.backEdges
            /\ e.calls = Append(next, [state |-> to, arc |-> 0])
        BY <1>2, <4>1
      <4>3. [state |-> to, arc |-> 0] \in Calls
        BY <3>1 DEF Calls
      <4>4. /\ Len(e.calls) = n + 1 /\ e.calls[n + 1] = [state |-> to, arc |-> 0]
            /\ \A i \in 1 .. n : e.calls[i] = next[i]
        BY <1>2, <3>3, <4>2, <4>3
      <4>5. IsMove(d, e, a)
        <5>1. n \in 1 .. n /\ \A i \in 1 .. n - 1 : i \in 1 .. n
          BY <1>2, <2>1
        <5>2. e.calls[n] = moved /\ \A i \in 1 .. n - 1 : e.calls[i] = calls[i]
          BY <3>3, <4>4, <5>1, Zenon
        <5>3. Len(e.calls) >= n
          BY <1>2, <4>4
        <5>4. QED
          BY <1>a, <2>4, <3>2, <5>2, <5>3 DEF IsMove, Depth
      <4>6. IsOpening(d, e, a)
        BY <1>c, <2>4, <3>5, <4>2, <4>4, <4>5 DEF IsOpening, Depth
      <4>7. QED
        BY <1>4, <3>1, <4>6
    <3>6. CASE d.color[to] # "fresh"
      <4>1. e = IF d.color[to] = "opened" /\ to # call.state
                  THEN [d EXCEPT !.backEdges = @ + 1, !.calls = next]
                  ELSE [d EXCEPT !.calls = next]
        BY <1>1, <2>1, <2>6, <3>6
      <4>2. /\ e.color = d.color /\ e.order = d.order /\ e.calls = next
            /\ e.backEdges = IF d.color[to] = "opened" /\ to # call.state
                               THEN d.backEdges + 1 ELSE d.backEdges
        BY <1>2, <4>1
      <4>3. IsPassing(d, e, a)
        BY <1>c, <2>4, <3>4, <3>6, <4>2 DEF IsPassing
      <4>4. QED
        BY <1>4, <3>1, <4>3
    <3>7. QED
      BY <3>5, <3>6
  <2>7. QED
    BY <2>5, <2>6
<1>5. QED
  BY <1>3, <1>4

(* The calls under way are for the states that are opened, one for each. *)
CallInv(d) ==
  /\ \A i \in 1 .. Depth(d) : d.color[d.calls[i].state] = "opened"
  /\ \A i, j \in 1 .. Depth(d) : d.calls[i].state = d.calls[j].state => i = j
  /\ \A s \in States : d.color[s] = "opened" => \E i \in 1 .. Depth(d) : d.calls[i].state = s

(* The order is of the states that are closed, each once. *)
OrderInv(d) ==
  /\ \A i \in 1 .. Len(d.order) : d.color[d.order[i]] = "closed"
  /\ \A i, j \in 1 .. Len(d.order) : d.order[i] = d.order[j] => i = j
  /\ \A s \in States : d.color[s] = "closed" => \E i \in 1 .. Len(d.order) : d.order[i] = s

(* What has been opened is in every set of states that has the start state in
   it and that no arc leaves. *)
IsLeftByNone(set) == \A a \in ArcIds(hg) : FromState(a) \in set => HeadOf(hg, a) \in set
SeenInv(d) ==
  /\ d.color[hg.start] # "fresh"
  /\ \A set \in SUBSET States : IsLeftByNone(set) /\ hg.start \in set =>
       \A s \in States : d.color[s] # "fresh" => s \in set

(* Without back edges the arcs followed so far lead to closed states, but for
   self loops and for the arc that each call waits for the next at; and those of
   a closed state to states closed before it. *)
ArcInv(d) ==
  d.backEdges = 0 =>
    /\ \A i \in 1 .. Depth(d) : \A a \in ArcIds(hg) :
         FromState(a) = d.calls[i].state /\ a <= d.calls[i].arc =>
           \/ d.color[HeadOf(hg, a)] = "closed" \/ HeadOf(hg, a) = FromState(a)
           \/ (i < Depth(d) /\ a = d.calls[i].arc /\ HeadOf(hg, a) = d.calls[i + 1].state)
    /\ \A i \in 1 .. Len(d.order) : \A a \in ArcIds(hg) :
         FromState(a) = d.order[i] =>
           HeadOf(hg, a) = d.order[i] \/ \E j \in 1 .. i - 1 : d.order[j] = HeadOf(hg, a)

DfsInv(d) == d \in Dfs /\ CallInv(d) /\ OrderInv(d) /\ SeenInv(d) /\ ArcInv(d)

IsGraphInput == IsHypergraph(hg) /\ IsGraph(hg) /\ hg.start # NoState

LEMMA DfsTypes ==
  ASSUME IsGraphInput, NEW d \in Dfs
  PROVE  /\ Depth(d) \in Nat /\ Len(d.order) \in Nat /\ d.backEdges \in Nat
         /\ d.color \in [States -> Colors] /\ d.order \in Seq(States)
         /\ \A i \in 1 .. Depth(d) : d.calls[i].state \in States /\ d.calls[i].arc \in Nat
         /\ \A i \in 1 .. Len(d.order) : d.order[i] \in States
         /\ Depth(d) # 0 => Depth(d) \in 1 .. Depth(d) /\ Caller(d) \in States
                            /\ CallerArc(d) \in Nat
<1>1. /\ d.color \in [States -> Colors] /\ d.order \in Seq(States)
      /\ d.backEdges \in Nat /\ d.calls \in Seq(Calls)
  BY DEF Dfs, Colors, Calls
<1>2. Depth(d) \in Nat /\ Len(d.order) \in Nat
  BY <1>1 DEF Depth
<1>3. \A i \in 1 .. Depth(d) : d.calls[i].state \in States /\ d.calls[i].arc \in Nat
  <2>1. \A i \in 1 .. Depth(d) : d.calls[i] \in Calls
    BY <1>1, ElementOfSeq DEF Depth
  <2>2. QED
    BY <2>1 DEF Calls
<1>4. \A i \in 1 .. Len(d.order) : d.order[i] \in States
  BY <1>1, ElementOfSeq
<1>5. Depth(d) # 0 => Depth(d) \in 1 .. Depth(d)
  BY <1>2
<1>6. QED
  BY <1>1, <1>2, <1>3, <1>4, <1>5 DEF Caller, CallerArc

LEMMA GraphArcs ==
  ASSUME IsGraphInput, NEW a \in ArcIds(hg)
  PROVE  a \in Nat \ {0} /\ FromState(a) \in States /\ HeadOf(hg, a) \in States
BY ArcTypes, GraphTails DEF IsGraphInput, FromState

LEMMA ClosingKeepsInv ==
  ASSUME IsGraphInput, NEW d, DfsInv(d), NEW e \in Dfs, ~IsFinished(d), IsClosing(d, e)
  PROVE  DfsInv(e)
<1>a. PICK n, s : n = Depth(d) /\ s = Caller(d)
  OBVIOUS
<1>1. /\ n \in Nat /\ n \in 1 .. n /\ s \in States /\ CallerArc(d) \in Nat
      /\ d.color \in [States -> Colors] /\ d.order \in Seq(States)
      /\ \A i \in 1 .. n : d.calls[i].state \in States
      /\ d.calls[n].state = s
  BY <1>a, DfsTypes DEF DfsInv, IsFinished, Caller
<1>2. /\ Depth(e) = n - 1 /\ \A i \in 1 .. n - 1 : e.calls[i] = d.calls[i]
      /\ e.color = [d.color EXCEPT ![s] = "closed"]
      /\ e.order = Append(d.order, s) /\ e.backEdges = d.backEdges
      /\ LeftOf(d) = {}
  BY <1>a DEF IsClosing, IsReturn
<1>3. \A t \in States : e.color[t] = IF t = s THEN "closed" ELSE d.color[t]
  BY <1>1, <1>2
<1>4. CallInv(d) /\ OrderInv(d) /\ SeenInv(d) /\ ArcInv(d)
  BY DEF DfsInv
<1>5. d.color[s] = "opened"
  BY <1>1, <1>4, <1>a DEF CallInv
<1>6. /\ \A i \in 1 .. n - 1 : i \in 1 .. n /\ i # n /\ (i + 1 \in 1 .. n)
      /\ \A i \in 1 .. n : i # n => i \in 1 .. n - 1 
      /\ \A i \in 1 .. n - 1 : i + 1 # n => i < n - 1 /\ i + 1 \in 1 .. n - 1
  BY <1>1
<1>7. CallInv(e)
  <2>1. \A i \in 1 .. n - 1 : d.calls[i].state # s
    BY <1>1, <1>4, <1>6, <1>a DEF CallInv
  <2>2. \A i \in 1 .. n - 1 : e.color[e.calls[i].state] = "opened"
    BY <1>1, <1>2, <1>3, <1>4, <1>6, <1>a, <2>1 DEF CallInv
  <2>3. \A i, j \in 1 .. n - 1 : e.calls[i].state = e.calls[j].state => i = j
    BY <1>2, <1>4, <1>6, <1>a DEF CallInv
  <2>4. ASSUME NEW t \in States, e.color[t] = "opened"
        PROVE  \E i \in 1 .. n - 1 : e.calls[i].state = t
    <3>1. t # s /\ d.color[t] = "opened"
      BY <1>3, <2>4
    <3>2. PICK i \in 1 .. n : d.calls[i].state = t
      BY <1>4, <1>a, <3>1 DEF CallInv
    <3>3. i \in 1 .. n - 1 /\ e.calls[i].state = t
      BY <1>1, <1>2, <1>6, <3>1, <3>2
    <3>4. QED
      BY <3>3
  <2>5. QED
    BY <1>2, <2>2, <2>3, <2>4 DEF CallInv
<1>8. PICK m : m = Len(d.order)
  OBVIOUS
<1>9. /\ m \in Nat /\ Len(e.order) = m + 1 /\ e.order[m + 1] = s
      /\ \A i \in 1 .. m : e.order[i] = d.order[i] /\ d.order[i] \in States
      /\ \A i \in 1 .. m + 1 : i = m + 1 \/ i \in 1 .. m
      /\ \A i \in 1 .. m : i \in 1 .. m + 1 /\ i # m + 1
  BY <1>1, <1>2, <1>8
<1>10. OrderInv(e)
  <2>1. /\ \A i \in 1 .. m : d.color[d.order[i]] = "closed"
        /\ \A i, j \in 1 .. m : d.order[i] = d.order[j] => i = j
        /\ \A t \in States : d.color[t] = "closed" => \E i \in 1 .. m : d.order[i] = t
    BY <1>4, <1>8 DEF OrderInv
  <2>2. \A i \in 1 .. m : d.order[i] # s
    BY <1>5, <2>1
  <2>3. \A i \in 1 .. m + 1 : e.color[e.order[i]] = "closed"
    BY <1>1, <1>3, <1>9, <2>1
  <2>4. \A i, j \in 1 .. m + 1 : e.order[i] = e.order[j] => i = j
    BY <1>9, <2>1, <2>2
  <2>5. ASSUME NEW t \in States, e.color[t] = "closed"
        PROVE  \E i \in 1 .. m + 1 : e.order[i] = t
    <3>1. CASE t = s
      BY <1>9, <3>1
    <3>2. CASE t # s
      <4>1. PICK i \in 1 .. m : d.order[i] = t
        BY <1>3, <2>1, <2>5, <3>2
      <4>2. QED
        BY <1>9, <4>1
    <3>3. QED
      BY <3>1, <3>2
  <2>6. QED
    BY <1>9, <2>3, <2>4, <2>5 DEF OrderInv
<1>11. SeenInv(e)
  <2>1. \A t \in States : e.color[t] # "fresh" <=> d.color[t] # "fresh"
    BY <1>3, <1>5
  <2>2. hg.start \in States
    BY DEF IsGraphInput, IsHypergraph
  <2>3. QED
    BY <1>4, <2>1, <2>2 DEF SeenInv
<1>12. ASSUME e.backEdges = 0
       PROVE  /\ \A i \in 1 .. Depth(e) : \A a \in ArcIds(hg) :
                   FromState(a) = e.calls[i].state /\ a <= e.calls[i].arc =>
                     \/ e.color[HeadOf(hg, a)] = "closed" \/ HeadOf(hg, a) = FromState(a)
                     \/ (i < Depth(e) /\ a = e.calls[i].arc /\ HeadOf(hg, a) = e.calls[i + 1].state)
              /\ \A i \in 1 .. Len(e.order) : \A a \in ArcIds(hg) :
                   FromState(a) = e.order[i] =>
                     HeadOf(hg, a) = e.order[i] \/ \E j \in 1 .. i - 1 : e.order[j] = HeadOf(hg, a)
  <2>1. d.backEdges = 0
    BY <1>2, <1>12
  <2>2. \A i \in 1 .. n : \A a \in ArcIds(hg) :
          FromState(a) = d.calls[i].state /\ a <= d.calls[i].arc =>
            \/ d.color[HeadOf(hg, a)] = "closed" \/ HeadOf(hg, a) = FromState(a)
            \/ (i < n /\ a = d.calls[i].arc /\ HeadOf(hg, a) = d.calls[i + 1].state)
    BY <1>4, <1>a, <2>1 DEF ArcInv
  <2>3. \A i \in 1 .. m : \A a \in ArcIds(hg) :
          FromState(a) = d.order[i] =>
            HeadOf(hg, a) = d.order[i] \/ \E j \in 1 .. i - 1 : d.order[j] = HeadOf(hg, a)
    BY <1>4, <1>8, <2>1 DEF ArcInv
  <2>4. ASSUME NEW i \in 1 .. n - 1, NEW a \in ArcIds(hg),
               FromState(a) = e.calls[i].state, a <= e.calls[i].arc
        PROVE  \/ e.color[HeadOf(hg, a)] = "closed" \/ HeadOf(hg, a) = FromState(a)
               \/ (i < n - 1 /\ a = e.calls[i].arc /\ HeadOf(hg, a) = e.calls[i + 1].state)
    <3>0. PICK h : h = HeadOf(hg, a) /\ h \in States
      BY GraphArcs
    <3>1. \/ d.color[h] = "closed" \/ h = FromState(a)
          \/ (i < n /\ a = d.calls[i].arc /\ h = d.calls[i + 1].state)
      BY <1>2, <1>6, <2>2, <2>4, <3>0
    <3>2. d.color[h] = "closed" => e.color[h] = "closed"
      BY <1>3, <3>0
    <3>3. CASE i + 1 = n
      BY <1>1, <1>3, <3>0, <3>1, <3>2, <3>3
    <3>4. CASE i + 1 # n
      BY <1>2, <1>6, <3>0, <3>1, <3>2, <3>4
    <3>5. QED
      BY <3>3, <3>4
  <2>5. ASSUME NEW i \in 1 .. m + 1, NEW a \in ArcIds(hg), FromState(a) = e.order[i]
        PROVE  HeadOf(hg, a) = e.order[i] \/ \E j \in 1 .. i - 1 : e.order[j] = HeadOf(hg, a)
    <3>0. PICK h : h = HeadOf(hg, a) /\ h \in States
      BY GraphArcs
    <3>1. CASE i \in 1 .. m
      <4>1. \A j \in 1 .. i - 1 : j \in 1 .. m
        BY <1>9, <3>1
      <4>2. QED
        BY <1>9, <2>3, <2>5, <3>1, <4>1
    <3>2. CASE i = m + 1
      <4>1. FromState(a) = s /\ a \in Nat
        BY <1>9, <2>5, <3>2, GraphArcs
      <4>2. a <= CallerArc(d)
        BY <1>1, <1>2, <1>a, <4>1 DEF LeftOf
      <4>3. d.color[h] = "closed" \/ h = s
        BY <1>1, <1>a, <2>2, <3>0, <4>1, <4>2 DEF CallerArc
      <4>4. ASSUME d.color[h] = "closed"
            PROVE  \E j \in 1 .. i - 1 : e.order[j] = h
        <5>1. PICK j \in 1 .. m : d.order[j] = h
          BY <1>4, <1>8, <3>0, <4>4 DEF OrderInv
        <5>2. j \in 1 .. i - 1 /\ e.order[j] = h
          BY <1>9, <3>2, <5>1
        <5>3. QED
          BY <5>2
      <4>5. QED
        BY <1>9, <3>0, <3>2, <4>3, <4>4
    <3>3. QED
      BY <1>9, <3>1, <3>2
  <2>6. QED
    BY <1>2, <1>9, <2>4, <2>5
<1>13. ArcInv(e)
  BY <1>12 DEF ArcInv
<1>14. QED
  BY <1>7, <1>10, <1>11, <1>13 DEF DfsInv

LEMMA NextArcFacts ==
  ASSUME IsGraphInput, NEW d, DfsInv(d), ~IsFinished(d), NEW a, IsNextArc(d, a)
  PROVE  /\ a \in ArcIds(hg) /\ a \in Nat \ {0} /\ HeadOf(hg, a) \in States
         /\ FromState(a) = Caller(d) /\ a > CallerArc(d)
         /\ \A b \in ArcIds(hg) : FromState(b) = Caller(d) /\ b <= a => b = a \/ b <= CallerArc(d)
<1>1. a \in ArcIds(hg) /\ FromState(a) = Caller(d) /\ a > CallerArc(d)
  BY DEF IsNextArc, LeftOf
<1>2. a \in Nat \ {0} /\ HeadOf(hg, a) \in States
  BY <1>1, GraphArcs
<1>3. CallerArc(d) \in Nat
  BY DfsTypes DEF DfsInv, IsFinished
<1>4. ASSUME NEW b \in ArcIds(hg), FromState(b) = Caller(d), b <= a
      PROVE  b = a \/ b <= CallerArc(d)
  <2>1. b \in Nat
    BY GraphArcs
  <2>2. b > CallerArc(d) => a <= b
    BY <1>4 DEF IsNextArc, LeftOf
  <2>3. QED
    BY <1>2, <1>3, <1>4, <2>1, <2>2
<1>5. QED
  BY <1>1, <1>2, <1>4

LEMMA OpeningKeepsInv ==
  ASSUME IsGraphInput, NEW d, DfsInv(d), NEW e \in Dfs, ~IsFinished(d),
         NEW a, IsNextArc(d, a), IsOpening(d, e, a)
  PROVE  DfsInv(e)
<1>a. PICK n, s, to : n = Depth(d) /\ s = Caller(d) /\ to = HeadOf(hg, a)
  OBVIOUS
<1>1. /\ n \in Nat /\ n \in 1 .. n /\ s \in States /\ CallerArc(d) \in Nat
      /\ d.color \in [States -> Colors] /\ d.order \in Seq(States)
      /\ \A i \in 1 .. n : d.calls[i].state \in States
      /\ d.calls[n].state = s /\ d.calls[n].arc = CallerArc(d)
  BY <1>a, DfsTypes DEF DfsInv, IsFinished, Caller, CallerArc
<1>2. /\ Depth(e) = n + 1 /\ \A i \in 1 .. n - 1 : e.calls[i] = d.calls[i]
      /\ e.calls[n].state = s /\ e.calls[n].arc = a
      /\ e.calls[n + 1].state = to /\ e.calls[n + 1].arc = 0
      /\ d.color[to] = "fresh" /\ e.color = [d.color EXCEPT ![to] = "opened"]
      /\ e.order = d.order /\ e.backEdges = d.backEdges
  BY <1>a DEF IsOpening, IsMove
<1>3. /\ a \in ArcIds(hg) /\ to \in States /\ FromState(a) = s
      /\ \A b \in ArcIds(hg) : FromState(b) = s /\ b <= a => b = a \/ b <= CallerArc(d)
  BY <1>a, NextArcFacts
<1>4. \A t \in States : e.color[t] = IF t = to THEN "opened" ELSE d.color[t]
  BY <1>1, <1>2, <1>3
<1>5. CallInv(d) /\ OrderInv(d) /\ SeenInv(d) /\ ArcInv(d)
  BY DEF DfsInv
<1>6. /\ \A i \in 1 .. n - 1 : i \in 1 .. n /\ i + 1 \in 1 .. n /\ (i + 1 = n \/ i + 1 \in 1 .. n - 1)
      /\ \A i \in 1 .. n : i = n \/ i \in 1 .. n - 1
      /\ \A i \in 1 .. n + 1 : i = n + 1 \/ i \in 1 .. n
      /\ \A i \in 1 .. n : i \in 1 .. n + 1 /\ i # n + 1 /\ i < n + 1
      /\ n + 1 \in 1 .. n + 1
  BY <1>1
<1>7. \A i \in 1 .. n : e.calls[i].state = d.calls[i].state
  BY <1>1, <1>2, <1>6
<1>8. /\ \A i \in 1 .. n : d.color[d.calls[i].state] = "opened"
      /\ \A i, j \in 1 .. n : d.calls[i].state = d.calls[j].state => i = j
      /\ \A t \in States : d.color[t] = "opened" => \E i \in 1 .. n : d.calls[i].state = t
  BY <1>5, <1>a DEF CallInv
<1>9. \A i \in 1 .. n : d.calls[i].state # to
  BY <1>2, <1>8
<1>10. CallInv(e)
  <2>1. \A i \in 1 .. n + 1 : e.color[e.calls[i].state] = "opened"
    BY <1>1, <1>2, <1>3, <1>4, <1>6, <1>7, <1>8
  <2>2. \A i, j \in 1 .. n + 1 : e.calls[i].state = e.calls[j].state => i = j
    BY <1>2, <1>6, <1>7, <1>8, <1>9
  <2>3. ASSUME NEW t \in States, e.color[t] = "opened"
        PROVE  \E i \in 1 .. n + 1 : e.calls[i].state = t
    <3>1. CASE t = to
      BY <1>2, <1>6, <3>1
    <3>2. CASE t # to
      <4>1. PICK i \in 1 .. n : d.calls[i].state = t
        BY <1>4, <1>8, <2>3, <3>2
      <4>2. QED
        BY <1>6, <1>7, <4>1
    <3>3. QED
      BY <3>1, <3>2
  <2>4. QED
    BY <1>2, <2>1, <2>2, <2>3 DEF CallInv
<1>11. \A t \in States : (e.color[t] = "closed" <=> d.color[t] = "closed")
  BY <1>2, <1>4
<1>12. OrderInv(e)
  <2>1. \A i \in 1 .. Len(d.order) : d.order[i] \in States
    BY <1>1, ElementOfSeq
  <2>2. QED
    BY <1>2, <1>5, <1>11, <2>1 DEF OrderInv
<1>13. SeenInv(e)
  <2>1. hg.start \in States
    BY DEF IsGraphInput, IsHypergraph
  <2>2. e.color[hg.start] # "fresh"
    BY <1>4, <1>5, <2>1 DEF SeenInv
  <2>3. ASSUME NEW set \in SUBSET States, IsLeftByNone(set), hg.start \in set,
               NEW t \in States, e.color[t] # "fresh"
        PROVE  t \in set
    <3>1. d.color[t] # "fresh" => t \in set
      BY <1>5, <2>3 DEF SeenInv
    <3>2. d.color[s] # "fresh"
      BY <1>1, <1>8
    <3>3. s \in set
      BY <1>1, <1>5, <2>3, <3>2 DEF SeenInv
    <3>4. to \in set
      BY <1>3, <1>a, <2>3, <3>3 DEF IsLeftByNone
    <3>5. QED
      BY <1>4, <2>3, <3>1, <3>4
  <2>4. QED
    BY <2>2, <2>3 DEF SeenInv
<1>14. ASSUME e.backEdges = 0, NEW i \in 1 .. n + 1, NEW b \in ArcIds(hg),
              FromState(b) = e.calls[i].state, b <= e.calls[i].arc
       PROVE  \/ e.color[HeadOf(hg, b)] = "closed" \/ HeadOf(hg, b) = FromState(b)
              \/ (i < n + 1 /\ b = e.calls[i].arc /\ HeadOf(hg, b) = e.calls[i + 1].state)
  <2>1. PICK h : h = HeadOf(hg, b) /\ h \in States /\ b \in Nat \ {0}
    BY GraphArcs
  <2>2. \A k \in 1 .. n :
          FromState(b) = d.calls[k].state /\ b <= d.calls[k].arc =>
            \/ d.color[h] = "closed" \/ h = FromState(b)
            \/ (k < n /\ b = d.calls[k].arc /\ h = d.calls[k + 1].state)
    BY <1>2, <1>5, <1>14, <1>a, <2>1 DEF ArcInv
  <2>3. i # n + 1
    BY <1>2, <1>14, <2>1
  <2>4. CASE i = n
    <3>1. FromState(b) = s /\ b <= a
      BY <1>2, <1>14, <2>4
    <3>2. CASE b = a
      BY <1>2, <1>6, <1>a, <2>1, <2>4, <3>2
    <3>3. CASE b # a
      <4>1. b <= d.calls[n].arc
        BY <1>1, <1>3, <3>1, <3>3
      <4>2. d.color[h] = "closed" \/ h = FromState(b)
        BY <1>1, <2>2, <3>1, <4>1
      <4>3. QED
        BY <1>11, <2>1, <4>2
    <3>4. QED
      BY <3>2, <3>3
  <2>5. CASE i \in 1 .. n - 1
    <3>1. FromState(b) = d.calls[i].state /\ b <= d.calls[i].arc /\ i \in 1 .. n /\ i + 1 \in 1 .. n
      BY <1>2, <1>6, <1>14, <2>5
    <3>2. \/ d.color[h] = "closed" \/ h = FromState(b)
          \/ (b = d.calls[i].arc /\ h = d.calls[i + 1].state)
      BY <2>2, <3>1
    <3>3. i < n + 1
      BY <1>6, <3>1
    <3>4. QED
      BY <1>2, <1>7, <1>11, <2>1, <2>5, <3>1, <3>2, <3>3
  <2>6. QED
    BY <1>6, <2>3, <2>4, <2>5
<1>15. ArcInv(e)
  BY <1>2, <1>5, <1>14 DEF ArcInv
<1>16. QED
  BY <1>10, <1>12, <1>13, <1>15 DEF DfsInv

LEMMA PassingKeepsInv ==
  ASSUME IsGraphInput, NEW d, DfsInv(d), NEW e \in Dfs, ~IsFinished(d),
         NEW a, IsNextArc(d, a), IsPassing(d, e, a)
  PROVE  DfsInv(e)
<1>a. PICK n, s, to : n = Depth(d) /\ s = Caller(d) /\ to = HeadOf(hg, a)
  OBVIOUS
<1>1. /\ n \in Nat /\ n \in 1 .. n /\ s \in States /\ CallerArc(d) \in Nat
      /\ d.color \in [States -> Colors] /\ d.backEdges \in Nat
      /\ d.calls[n].state = s /\ d.calls[n].arc = CallerArc(d)
  BY <1>a, DfsTypes DEF DfsInv, IsFinished, Caller, CallerArc
<1>2. /\ Depth(e) = n /\ \A i \in 1 .. n - 1 : e.calls[i] = d.calls[i]
      /\ e.calls[n].state = s /\ e.calls[n].arc = a
      /\ d.color[to] # "fresh" /\ e.color = d.color /\ e.order = d.order
      /\ IF d.color[to] = "opened" /\ to # s
           THEN e.backEdges = d.backEdges + 1 ELSE e.backEdges = d.backEdges
  BY <1>a DEF IsPassing, IsMove
<1>3. /\ a \in ArcIds(hg) /\ to \in States /\ FromState(a) = s
      /\ \A b \in ArcIds(hg) : FromState(b) = s /\ b <= a => b = a \/ b <= CallerArc(d)
  BY <1>a, NextArcFacts
<1>4. CallInv(d) /\ OrderInv(d) /\ SeenInv(d) /\ ArcInv(d)
  BY DEF DfsInv
<1>5. /\ \A i \in 1 .. n - 1 : i \in 1 .. n /\ i + 1 \in 1 .. n
      /\ \A i \in 1 .. n : i = n \/ i \in 1 .. n - 1
  BY <1>1
<1>6. \A i \in 1 .. n : e.calls[i].state = d.calls[i].state
  BY <1>1, <1>2, <1>5
<1>7. CallInv(e)
  BY <1>2, <1>4, <1>6, <1>a DEF CallInv
<1>8. OrderInv(e) /\ SeenInv(e)
  BY <1>2, <1>4 DEF OrderInv, SeenInv
<1>9. ASSUME e.backEdges = 0, NEW i \in 1 .. n, NEW b \in ArcIds(hg),
             FromState(b) = e.calls[i].state, b <= e.calls[i].arc
      PROVE  \/ e.color[HeadOf(hg, b)] = "closed" \/ HeadOf(hg, b) = FromState(b)
             \/ (i < n /\ b = e.calls[i].arc /\ HeadOf(hg, b) = e.calls[i + 1].state)
  <2>1. PICK h : h = HeadOf(hg, b) /\ h \in States /\ b \in Nat \ {0}
    BY GraphArcs
  <2>2. d.backEdges = 0 /\ (d.color[to] = "closed" \/ to = s)
    BY <1>1, <1>2, <1>3, <1>9 DEF Colors
  <2>3. \A k \in 1 .. n :
          FromState(b) = d.calls[k].state /\ b <= d.calls[k].arc =>
            \/ d.color[h] = "closed" \/ h = FromState(b)
            \/ (k < n /\ b = d.calls[k].arc /\ h = d.calls[k + 1].state)
    BY <1>4, <1>a, <2>1, <2>2 DEF ArcInv
  <2>4. CASE i = n
    <3>1. FromState(b) = s /\ b <= a
      BY <1>2, <1>9, <2>4
    <3>2. CASE b = a
      BY <1>2, <1>a, <2>2, <3>1, <3>2
    <3>3. CASE b # a
      <4>1. b <= d.calls[n].arc
        BY <1>1, <1>3, <3>1, <3>3
      <4>2. d.color[h] = "closed" \/ h = FromState(b)
        BY <1>1, <2>3, <3>1, <4>1
      <4>3. QED
        BY <1>2, <2>1, <4>2
    <3>4. QED
      BY <3>2, <3>3
  <2>5. CASE i \in 1 .. n - 1
    BY <1>2, <1>5, <1>6, <1>9, <2>1, <2>3, <2>5
  <2>6. QED
    BY <1>5, <2>4, <2>5
<1>10. e.backEdges = 0 => d.backEdges = 0
  BY <1>1, <1>2
<1>11. ArcInv(e)
  BY <1>2, <1>4, <1>9, <1>10 DEF ArcInv
<1>12. QED
  BY <1>7, <1>8, <1>11 DEF DfsInv

LEMMA StartIsDfsInv ==
  ASSUME IsGraphInput
  PROVE  DfsStart \in Dfs /\ DfsInv(DfsStart)
<1>a. PICK d : d = DfsStart
  OBVIOUS
<1>1. hg.start \in States
  BY DEF IsGraphInput, IsHypergraph
<1>2. /\ d.color = [s \in States |-> IF s = hg.start THEN "opened" ELSE "fresh"]
      /\ d.order = <<>> /\ d.backEdges = 0 /\ d.calls = <<[state |-> hg.start, arc |-> 0]>>
  BY <1>a DEF DfsStart
<1>3. d \in Dfs
  <2>1. <<[state |-> hg.start, arc |-> 0]>> \in Seq([state : States, arc : Nat])
    BY <1>1
  <2>2. <<>> \in Seq(States)
    BY EmptySeq
  <2>3. QED
    BY <1>a, <2>1, <2>2 DEF DfsStart, Dfs
<1>4. /\ Depth(d) = 1 /\ d.calls[1].state = hg.start /\ d.calls[1].arc = 0
      /\ Len(d.order) = 0
  BY <1>2 DEF Depth
<1>5. \A i \in 1 .. 1 : i = 1
  OBVIOUS
<1>6. CallInv(d)
  BY <1>1, <1>2, <1>4, <1>5 DEF CallInv
<1>7. OrderInv(d)
  BY <1>2, <1>4 DEF OrderInv
<1>8. SeenInv(d)
  BY <1>1, <1>2 DEF SeenInv
<1>9. ArcInv(d)
  <2>1. \A a \in ArcIds(hg) : ~(a <= 0)
    BY GraphArcs
  <2>2. QED
    BY <1>4, <1>5, <2>1 DEF ArcInv
<1>10. QED
  BY <1>3, <1>6, <1>7, <1>8, <1>9, <1>a DEF DfsInv

LEMMA DfsStepKeepsInv ==
  ASSUME IsGraphInput, NEW d, DfsInv(d)
  PROVE  DfsInv(DfsStep[d])
<1>1. PICK e : e = DfsStep[d]
  OBVIOUS
<1>2. IsHypergraph(hg) /\ IsGraph(hg) /\ d \in Dfs
  BY DEF IsGraphInput, DfsInv
<1>3. e \in Dfs
  BY <1>1, <1>2, DfsStepType
<1>4. IF IsFinished(d) THEN e = d
      ELSE IsClosing(d, e) \/ \E a : IsNextArc(d, a) /\ (IsOpening(d, e, a) \/ IsPassing(d, e, a))
  BY <1>1, <1>2, DfsSteps
<1>5. QED
  BY <1>1, <1>3, <1>4, ClosingKeepsInv, OpeningKeepsInv, PassingKeepsInv

(* Each step follows an arc that was not followed before or closes a state. *)
NotFollowed(d) ==
  {a \in ArcIds(hg) :
     /\ d.color[FromState(a)] # "closed"
     /\ \A i \in 1 .. Depth(d) : d.calls[i].state = FromState(a) => a > d.calls[i].arc}
NotClosed(d) == {s \in States : d.color[s] # "closed"}
StepsLeft(d) == Cardinality(NotFollowed(d)) + Cardinality(NotClosed(d))

LEMMA ArcsAreFinite ==
  ASSUME IsHypergraph(hg)
  PROVE  /\ IsFiniteSet(ArcIds(hg)) /\ Cardinality(ArcIds(hg)) = Len(hg.arcs)
         /\ Len(hg.arcs) \in Nat
         /\ IsFiniteSet(States) /\ Cardinality(States) = NumStates
<1>1. Len(hg.arcs) \in Nat /\ ArcIds(hg) = 1 .. Len(hg.arcs)
  BY LenProperties DEF IsHypergraph, ArcIds
<1>2. IsFiniteSet(1 .. Len(hg.arcs)) /\ Cardinality(1 .. Len(hg.arcs)) = Len(hg.arcs)
  BY <1>1, FS_Interval
<1>3. IsFiniteSet(States) /\ Cardinality(States) = NumStates
  <2>1. /\ IsFiniteSet(0 .. NumStates - 1)
        /\ Cardinality(0 .. NumStates - 1) = IF 0 > NumStates - 1 THEN 0 ELSE NumStates - 1 - 0 + 1
    BY NumStatesAssumption, FS_Interval
  <2>2. (0 > NumStates - 1 => NumStates = 0) /\ NumStates - 1 - 0 + 1 = NumStates
    BY NumStatesAssumption
  <2>3. QED
    BY <2>1, <2>2 DEF States
<1>4. QED
  BY <1>1, <1>2, <1>3

LEMMA StepsLeftType ==
  ASSUME IsGraphInput, NEW d
  PROVE  /\ IsFiniteSet(NotFollowed(d)) /\ Cardinality(NotFollowed(d)) \in Nat
         /\ Cardinality(NotFollowed(d)) <= Len(hg.arcs)
         /\ IsFiniteSet(NotClosed(d)) /\ Cardinality(NotClosed(d)) \in Nat
         /\ Cardinality(NotClosed(d)) <= NumStates
         /\ StepsLeft(d) \in Nat /\ StepsLeft(d) <= Len(hg.arcs) + NumStates
<1>1. NotFollowed(d) \in SUBSET ArcIds(hg) /\ NotClosed(d) \in SUBSET States
  BY DEF NotFollowed, NotClosed
<1>2. /\ IsFiniteSet(NotFollowed(d)) /\ Cardinality(NotFollowed(d)) <= Len(hg.arcs)
      /\ IsFiniteSet(NotClosed(d)) /\ Cardinality(NotClosed(d)) <= NumStates
      /\ Len(hg.arcs) \in Nat
  BY <1>1, ArcsAreFinite, FS_Subset DEF IsGraphInput
<1>3. Cardinality(NotFollowed(d)) \in Nat /\ Cardinality(NotClosed(d)) \in Nat
  BY <1>2, FS_CardinalityType
<1>4. QED
  BY <1>2, <1>3, NumStatesAssumption DEF StepsLeft

LEMMA SmallerSet ==
  ASSUME NEW S, IsFiniteSet(S), NEW T \in SUBSET S
  PROVE  /\ Cardinality(T) \in Nat /\ Cardinality(S) \in Nat
         /\ Cardinality(T) <= Cardinality(S)
         /\ T # S => Cardinality(T) < Cardinality(S)
BY FS_Subset, FS_CardinalityType

LEMMA DfsProgress ==
  ASSUME IsGraphInput, NEW d, DfsInv(d), ~IsFinished(d)
  PROVE  StepsLeft(DfsStep[d]) < StepsLeft(d)
<1>a. PICK n, s, e : n = Depth(d) /\ s = Caller(d) /\ e = DfsStep[d]
  OBVIOUS
<1>1. /\ n \in Nat /\ n \in 1 .. n /\ s \in States /\ CallerArc(d) \in Nat
      /\ d.color \in [States -> Colors]
      /\ d.calls[n].state = s /\ d.calls[n].arc = CallerArc(d)
  BY <1>a, DfsTypes DEF DfsInv, IsFinished, Caller, CallerArc
<1>2. \/ IsClosing(d, e)
      \/ \E a : IsNextArc(d, a) /\ (IsOpening(d, e, a) \/ IsPassing(d, e, a))
  BY <1>a, DfsSteps DEF IsGraphInput, DfsInv
<1>3. /\ \A i \in 1 .. n : i = n \/ i \in 1 .. n - 1
      /\ \A i \in 1 .. n - 1 : i \in 1 .. n
  BY <1>1
<1>4. /\ d.color[s] = "opened"
      /\ \A i \in 1 .. n : d.calls[i].state = s => i = n
  BY <1>1, <1>a DEF DfsInv, CallInv
<1>5. \A a \in ArcIds(hg) : FromState(a) \in States /\ a \in Nat
  BY GraphArcs
<1>6. /\ NotFollowed(e) \subseteq NotFollowed(d) /\ NotClosed(e) \subseteq NotClosed(d)
      /\ NotFollowed(e) # NotFollowed(d) \/ NotClosed(e) # NotClosed(d)
  <2>1. CASE IsClosing(d, e)
    <3>1. /\ Depth(e) = n - 1 /\ \A i \in 1 .. n - 1 : e.calls[i] = d.calls[i]
          /\ e.color = [d.color EXCEPT ![s] = "closed"]
      BY <1>a, <2>1 DEF IsClosing, IsReturn
    <3>2. \A t \in States : e.color[t] = IF t = s THEN "closed" ELSE d.color[t]
      BY <1>1, <3>1
    <3>3. NotClosed(e) \subseteq NotClosed(d) /\ s \in NotClosed(d) /\ s \notin NotClosed(e)
      BY <1>1, <1>4, <3>2 DEF NotClosed
    <3>4. NotFollowed(e) \subseteq NotFollowed(d)
      <4>1. ASSUME NEW a \in NotFollowed(e)
            PROVE  a \in NotFollowed(d)
        <5>1. /\ a \in ArcIds(hg) /\ e.color[FromState(a)] # "closed"
              /\ \A i \in 1 .. n - 1 : e.calls[i].state = FromState(a) => a > e.calls[i].arc
          BY <3>1 DEF NotFollowed
        <5>2. FromState(a) # s /\ d.color[FromState(a)] # "closed"
          BY <1>5, <3>2, <5>1
        <5>3. \A i \in 1 .. n : d.calls[i].state = FromState(a) => a > d.calls[i].arc
          BY <1>1, <1>3, <3>1, <5>1, <5>2
        <5>4. QED
          BY <1>a, <5>1, <5>2, <5>3 DEF NotFollowed
      <4>2. QED
        BY <4>1
    <3>5. QED
      BY <3>3, <3>4
  <2>2. ASSUME NEW a, IsNextArc(d, a), IsOpening(d, e, a) \/ IsPassing(d, e, a)
        PROVE  /\ NotFollowed(e) \subseteq NotFollowed(d) /\ NotClosed(e) \subseteq NotClosed(d)
               /\ NotFollowed(e) # NotFollowed(d)
    <3>1. /\ a \in ArcIds(hg) /\ a \in Nat /\ FromState(a) = s /\ a > CallerArc(d)
          /\ HeadOf(hg, a) \in States
      BY <1>a, <2>2, NextArcFacts
    <3>2. /\ Depth(e) \in Nat /\ Depth(e) >= n
          /\ \A i \in 1 .. n - 1 : e.calls[i] = d.calls[i]
          /\ e.calls[n].state = s /\ e.calls[n].arc = a
          /\ \A t \in States : (e.color[t] = "closed" <=> d.color[t] = "closed")
      BY <1>1, <1>a, <2>2, <3>1 DEF IsOpening, IsPassing, IsMove
    <3>3. /\ \A i \in 1 .. n - 1 : i \in 1 .. Depth(e)
          /\ n \in 1 .. Depth(e)
      BY <1>1, <3>2
    <3>4. ASSUME NEW b \in NotFollowed(e)
          PROVE  b \in NotFollowed(d)
      <4>1. /\ b \in ArcIds(hg) /\ b \in Nat /\ d.color[FromState(b)] # "closed"
            /\ \A i \in 1 .. Depth(e) : e.calls[i].state = FromState(b) => b > e.calls[i].arc
        BY <1>5, <3>2 DEF NotFollowed
      <4>2. \A i \in 1 .. n - 1 : d.calls[i].state = FromState(b) => b > d.calls[i].arc
        BY <3>2, <3>3, <4>1
      <4>3. d.calls[n].state = FromState(b) => b > d.calls[n].arc
        BY <1>1, <3>1, <3>2, <3>3, <4>1
      <4>4. QED
        BY <1>3, <1>a, <4>1, <4>2, <4>3 DEF NotFollowed
    <3>5. a \in NotFollowed(d)
      BY <1>1, <1>4, <1>a, <3>1 DEF NotFollowed
    <3>6. a \notin NotFollowed(e)
      BY <3>1, <3>2, <3>3 DEF NotFollowed
    <3>7. NotClosed(e) \subseteq NotClosed(d)
      BY <3>2 DEF NotClosed
    <3>8. QED
      BY <3>4, <3>5, <3>6, <3>7
  <2>3. QED
    BY <1>2, <2>1, <2>2
<1>7. IsFiniteSet(NotFollowed(d)) /\ IsFiniteSet(NotClosed(d))
  BY StepsLeftType
<1>8. /\ Cardinality(NotFollowed(e)) \in Nat /\ Cardinality(NotFollowed(d)) \in Nat
      /\ Cardinality(NotFollowed(e)) <= Cardinality(NotFollowed(d))
      /\ NotFollowed(e) # NotFollowed(d) =>
           Cardinality(NotFollowed(e)) < Cardinality(NotFollowed(d))
  BY <1>6, <1>7, SmallerSet
<1>9. /\ Cardinality(NotClosed(e)) \in Nat /\ Cardinality(NotClosed(d)) \in Nat
      /\ Cardinality(NotClosed(e)) <= Cardinality(NotClosed(d))
      /\ NotClosed(e) # NotClosed(d) =>
           Cardinality(NotClosed(e)) < Cardinality(NotClosed(d))
  BY <1>6, <1>7, SmallerSet
<1>10. QED
  BY <1>6, <1>8, <1>9, <1>a DEF StepsLeft

(* The steps that TailsLast makes are enough. *)
LEMMA TailsLastEnds ==
  ASSUME IsGraphInput
  PROVE  DfsInv(TailsLast) /\ IsFinished(TailsLast)
<1>. DEFINE steps == Len(hg.arcs) + NumStates
            step == [x \in (1 .. steps) \X Dfs |-> DfsStep[x[2]]]
            IsDfs(f) == f = [n \in 0 .. steps |-> IF n = 0 THEN DfsStart ELSE DfsStep[f[n - 1]]]
            dfs == CHOOSE f : IsDfs(f)
            Inv == [n \in 0 .. steps |->
                      {d \in Dfs : DfsInv(d) /\ (IsFinished(d) \/ n + StepsLeft(d) <= steps)}]
<1>1. steps \in Nat /\ IsHypergraph(hg) /\ IsGraph(hg)
  BY NumStatesAssumption, ArcsAreFinite DEF IsGraphInput
<1>2. TailsLast = dfs[steps]
  BY DEF TailsLast
<1>3. DfsStart \in Dfs /\ DfsInv(DfsStart) /\ 0 + StepsLeft(DfsStart) <= steps
  BY StartIsDfsInv, StepsLeftType
<1>. HIDE DEF steps
<1>4. \A d \in Dfs : DfsStep[d] \in Dfs
  BY <1>1, DfsStepType
<1>5. step \in [(1 .. steps) \X Dfs -> Dfs]
  BY <1>4
<1>6. \A n \in 1 .. steps, d \in Dfs : step[<<n, d>>] = DfsStep[d]
  OBVIOUS
<1>. HIDE DEF step
<1>7. PICK f \in [0 .. steps -> Dfs] :
        f[0] = DfsStart /\ \A n \in 1 .. steps : f[n] = step[<<n, f[n - 1]>>]
  <2>1. IsCount(Dfs, steps, DfsStart, step)
    BY <1>1, <1>3, <1>5 DEF IsCount
  <2>2. QED
    BY <2>1, ForExists
<1>8. IsDfs(f)
  <2>1. \A n \in 1 .. steps : n - 1 \in 0 .. steps
    BY <1>1
  <2>2. \A n \in 1 .. steps : f[n] = DfsStep[f[n - 1]]
    BY <1>6, <1>7, <2>1
  <2>3. \A n \in 0 .. steps : n = 0 \/ n \in 1 .. steps
    BY <1>1
  <2>4. QED
    BY <1>7, <2>2, <2>3
<1>9. IsDfs(dfs)
  <2>. HIDE DEF IsDfs
  <2>1. QED
    BY <1>8
<1>. HIDE DEF dfs
<1>10. dfs[0] = DfsStart /\ \A n \in 1 .. steps : dfs[n] = DfsStep[dfs[n - 1]]
  BY <1>1, <1>9
<1>11. /\ \A n \in 0 .. steps : \A d :
            d \in Inv[n] <=>
              d \in Dfs /\ DfsInv(d) /\ (IsFinished(d) \/ n + StepsLeft(d) <= steps)
       /\ \A n \in 1 .. steps : n \in 0 .. steps /\ n - 1 \in 0 .. steps
       /\ 0 \in 0 .. steps /\ steps \in 0 .. steps
  BY <1>1
<1>. HIDE DEF Inv
<1>12. ASSUME NEW n \in 1 .. steps, dfs[n - 1] \in Inv[n - 1]
       PROVE  dfs[n] \in Inv[n]
  <2>1. PICK d, e : d = dfs[n - 1] /\ e = dfs[n] /\ e = DfsStep[d]
    BY <1>10
  <2>2. d \in Dfs /\ DfsInv(d) /\ (IsFinished(d) \/ n - 1 + StepsLeft(d) <= steps)
    BY <1>11, <1>12, <2>1
  <2>3. e \in Dfs /\ DfsInv(e)
    BY <1>4, <2>1, <2>2, DfsStepKeepsInv
  <2>4. CASE IsFinished(d)
    <3>1. e = d
      BY <1>1, <2>1, <2>2, <2>4, DfsSteps
    <3>2. QED
      BY <1>11, <2>1, <2>3, <2>4, <3>1
  <2>5. CASE ~IsFinished(d)
    <3>1. StepsLeft(e) < StepsLeft(d) /\ StepsLeft(e) \in Nat /\ StepsLeft(d) \in Nat
      BY <2>1, <2>2, <2>5, DfsProgress, StepsLeftType
    <3>2. n + StepsLeft(e) <= steps
      BY <1>1, <2>2, <2>5, <3>1
    <3>3. QED
      BY <1>11, <2>1, <2>3, <3>2
  <2>6. QED
    BY <2>4, <2>5
<1>13. dfs[0] \in Inv[0]
  BY <1>3, <1>10, <1>11
<1>14. \A n \in 0 .. steps : dfs[n] \in Inv[n]
  BY <1>1, <1>12, <1>13, ForKeeps
<1>15. PICK d : d = TailsLast
  OBVIOUS
<1>16. DfsInv(d) /\ (IsFinished(d) \/ steps + StepsLeft(d) <= steps)
  BY <1>2, <1>11, <1>14, <1>15
<1>17. ASSUME ~IsFinished(d)
       PROVE  FALSE
  <2>1. Cardinality(NotClosed(d)) = 0
    BY <1>1, <1>16, <1>17, StepsLeftType DEF StepsLeft
  <2>2. NotClosed(d) = {}
    BY <2>1, StepsLeftType, FS_EmptySet
  <2>3. Caller(d) \in States /\ Depth(d) \in 1 .. Depth(d)
    BY <1>16, <1>17, DfsTypes DEF DfsInv, IsFinished
  <2>4. d.color[Caller(d)] = "opened"
    BY <1>16, <2>3 DEF DfsInv, CallInv, Caller
  <2>5. QED
    BY <2>2, <2>3, <2>4 DEF NotClosed
<1>18. QED
  BY <1>15, <1>16, <1>17

(* What the order is when AcyclicBest goes on with it: all states that the start
   state leads to, and without back edges every arc out of one leads to one that
   comes before, or back to itself. *)
Visited == TailsLast.order
IsVisited(s) == s \in States /\ TailsLast.color[s] = "closed"

LEMMA OrderFacts ==
  ASSUME IsGraphInput, TailsLast.backEdges <= MaxBackEdges
  PROVE  /\ Visited \in Seq(States) /\ Len(Visited) \in Nat
         /\ \A i \in 1 .. Len(Visited) : IsVisited(Visited[i])
         /\ \A i, j \in 1 .. Len(Visited) : Visited[i] = Visited[j] => i = j
         /\ \A s : IsVisited(s) => \E i \in 1 .. Len(Visited) : Visited[i] = s
         /\ IsVisited(hg.start)
         /\ \A set \in SUBSET States : IsLeftByNone(set) /\ hg.start \in set =>
              \A s : IsVisited(s) => s \in set
         /\ TailsLast.backEdges = 0 =>
              \A i \in 1 .. Len(Visited) : \A a \in ArcIds(hg) : FromState(a) = Visited[i] =>
                HeadOf(hg, a) = Visited[i] \/ \E j \in 1 .. i - 1 : Visited[j] = HeadOf(hg, a)
<1>1. PICK d : d = TailsLast
  OBVIOUS
<1>2. DfsInv(d) /\ IsFinished(d) /\ d \in Dfs /\ hg.start \in States
  BY <1>1, TailsLastEnds DEF DfsInv, IsGraphInput, IsHypergraph
<1>3. Depth(d) = 0
  BY <1>1, <1>2, DfsTypes, MaxBackEdgesAssumption DEF IsFinished
<1>4. \A s \in States : d.color[s] # "opened" /\ d.color[s] \in Colors
  BY <1>2, <1>3, DfsTypes DEF DfsInv, CallInv
<1>5. d.color[hg.start] = "closed"
  BY <1>2, <1>4 DEF DfsInv, SeenInv, Colors
<1>6. d.order \in Seq(States) /\ \A i \in 1 .. Len(d.order) : d.order[i] \in States
  BY <1>2, DfsTypes
<1>7. /\ \A i \in 1 .. Len(d.order) : d.color[d.order[i]] = "closed"
      /\ \A i, j \in 1 .. Len(d.order) : d.order[i] = d.order[j] => i = j
      /\ \A s \in States : d.color[s] = "closed" => \E i \in 1 .. Len(d.order) : d.order[i] = s
  BY <1>2 DEF DfsInv, OrderInv
<1>8. \A set \in SUBSET States : IsLeftByNone(set) /\ hg.start \in set =>
        \A s \in States : d.color[s] = "closed" => s \in set
  BY <1>2 DEF DfsInv, SeenInv
<1>9. d.backEdges = 0 =>
        \A i \in 1 .. Len(d.order) : \A a \in ArcIds(hg) : FromState(a) = d.order[i] =>
          HeadOf(hg, a) = d.order[i] \/ \E j \in 1 .. i - 1 : d.order[j] = HeadOf(hg, a)
  BY <1>2 DEF DfsInv, ArcInv
<1>10. Len(d.order) \in Nat
  BY <1>6
<1>11. QED
  BY <1>1, <1>2, <1>5, <1>6, <1>7, <1>8, <1>9, <1>10 DEF Visited, IsVisited

HeadsOf(set) == {HeadOf(hg, a) : a \in {b \in ArcIds(hg) : TailsOf(hg, b)[1] \in set}}
FurtherOf == [set \in SUBSET States |-> set \cup HeadsOf(set)]
FromOf(s) ==
  LET from[n \in 0 .. NumStates] == IF n = 0 THEN HeadsOf({s}) ELSE FurtherOf[from[n - 1]]
  IN  from[NumStates]

LEMMA FromStaysInside ==
  ASSUME IsGraphInput, NEW s \in States, NEW L \in SUBSET States,
         HeadsOf({s}) \subseteq L, HeadsOf(L) \subseteq L
  PROVE  FromOf(s) \subseteq L
<1>. DEFINE N == NumStates
            step == [x \in (1 .. N) \X SUBSET States |-> FurtherOf[x[2]]]
            IsFrom(f) == f = [n \in 0 .. N |-> IF n = 0 THEN HeadsOf({s}) ELSE FurtherOf[f[n - 1]]]
            from == CHOOSE f : IsFrom(f)
            Inv == [n \in 0 .. N |-> SUBSET L]
<1>1. N \in Nat
  BY NumStatesAssumption
<1>2. FromOf(s) = from[N]
  BY DEF FromOf
<1>3. \A set \in SUBSET States : HeadsOf(set) \in SUBSET States
  BY GraphArcs DEF HeadsOf
<1>4. \A set \in SUBSET States :
        FurtherOf[set] = set \cup HeadsOf(set) /\ FurtherOf[set] \in SUBSET States
  BY <1>3 DEF FurtherOf
<1>5. HeadsOf({s}) \in SUBSET States
  BY <1>3
<1>. HIDE DEF N
<1>6. step \in [(1 .. N) \X SUBSET States -> SUBSET States]
  BY <1>4
<1>7. \A n \in 1 .. N, set \in SUBSET States : step[<<n, set>>] = FurtherOf[set]
  OBVIOUS
<1>. HIDE DEF step
<1>8. PICK f \in [0 .. N -> SUBSET States] :
        f[0] = HeadsOf({s}) /\ \A n \in 1 .. N : f[n] = step[<<n, f[n - 1]>>]
  <2>1. IsCount(SUBSET States, N, HeadsOf({s}), step)
    BY <1>1, <1>5, <1>6 DEF IsCount
  <2>2. QED
    BY <2>1, ForExists
<1>9. IsFrom(f)
  <2>1. \A n \in 1 .. N : n - 1 \in 0 .. N
    BY <1>1
  <2>2. \A n \in 1 .. N : f[n] = FurtherOf[f[n - 1]]
    BY <1>7, <1>8, <2>1
  <2>3. \A n \in 0 .. N : n = 0 \/ n \in 1 .. N
    BY <1>1
  <2>4. QED
    BY <1>8, <2>2, <2>3
<1>10. IsFrom(from)
  <2>. HIDE DEF IsFrom
  <2>1. QED
    BY <1>9
<1>. HIDE DEF from
<1>11. from[0] = HeadsOf({s}) /\ \A n \in 1 .. N : from[n] = FurtherOf[from[n - 1]]
  <2>1. \A n \in 0 .. N : from[n] = IF n = 0 THEN HeadsOf({s}) ELSE FurtherOf[from[n - 1]]
    BY <1>10
  <2>2. 0 \in 0 .. N /\ \A n \in 1 .. N : n \in 0 .. N /\ n # 0
    BY <1>1
  <2>. HIDE DEF IsFrom
  <2>3. QED
    BY <2>1, <2>2
<1>12. /\ \A n \in 0 .. N : Inv[n] = SUBSET L
       /\ \A n \in 1 .. N : n \in 0 .. N /\ n - 1 \in 0 .. N
       /\ 0 \in 0 .. N /\ N \in 0 .. N
  BY <1>1
<1>. HIDE DEF Inv
<1>13. ASSUME NEW n \in 1 .. N, from[n - 1] \in Inv[n - 1]
       PROVE  from[n] \in Inv[n]
  <2>1. PICK set : set = from[n - 1]
    OBVIOUS
  <2>2. set \subseteq L /\ from[n] = FurtherOf[set]
    BY <1>11, <1>12, <1>13, <2>1
  <2>3. HeadsOf(set) \subseteq HeadsOf(L)
    BY <2>2 DEF HeadsOf
  <2>4. from[n] \subseteq L
    BY <1>4, <2>2, <2>3
  <2>5. QED
    BY <1>12, <2>4
<1>14. from[0] \in Inv[0]
  <2>1. Inv[0] = SUBSET L
    BY <1>12
  <2>2. from[0] = HeadsOf({s})
    BY <1>11
  <2>3. QED
    BY <2>1, <2>2
<1>15. \A n \in 0 .. N : from[n] \in Inv[n]
  BY <1>1, <1>13, <1>14, ForKeeps
<1>16. QED
  BY <1>2, <1>12, <1>15

(* The hypergraph is marked only after an order without back edges. *)
MarkedInv ==
  isMarkedAcyclic => UsesAcyclic /\ TailsLast.backEdges = 0 /\ ~HasSelfLoops

LEMMA NextKeepsMarked == IInv /\ DoneInv /\ MarkedInv /\ [BestTreeNext]_vars => MarkedInv'
<1>. SUFFICES ASSUME IInv, DoneInv, MarkedInv, [BestTreeNext]_vars PROVE MarkedInv'
  OBVIOUS
<1>1. hg' = hg /\ opt' = opt
  BY InputIsKept
<1>2. /\ UsesAcyclic' = UsesAcyclic /\ TailsLast' = TailsLast
      /\ HasSelfLoops' = HasSelfLoops
  BY <1>1 DEF UsesAcyclic, HasSelfLoops, TailsLast, DfsStep, DfsStart, Dfs
<1>3. isMarkedAcyclic' = isMarkedAcyclic
      \/ (phase = "acyclic" /\ isMarkedAcyclic' = (TailsLast.backEdges = 0 /\ ~HasSelfLoops))
  BY DEF BestTreeNext, vars, ChooseAcyclic, RelaxOutArcs, AcyclicDone, ChooseBestFirst,
         AddAxioms, PopBest, ReachArc, SearchDone
<1>4. CASE isMarkedAcyclic' = isMarkedAcyclic
  BY <1>2, <1>4 DEF MarkedInv
<1>5. CASE phase = "acyclic" /\ isMarkedAcyclic' = (TailsLast.backEdges = 0 /\ ~HasSelfLoops)
  BY <1>2, <1>5 DEF MarkedInv, DoneInv
<1>6. QED
  BY <1>3, <1>4, <1>5

LEMMA MarkedMeansAcyclic ==
  ASSUME IInv, MarkedInv, isMarkedAcyclic
  PROVE  \A s \in {hg.start} \cup FromOf(hg.start) : s \notin FromOf(s)
<1>1. /\ IsGraphInput /\ TailsLast.backEdges = 0 /\ TailsLast.backEdges <= MaxBackEdges
      /\ ~HasSelfLoops
  BY DEF IInv, JobInv, IsGraphInput, MarkedInv, UsesAcyclic
<1>2. PICK N : N = Len(Visited)
  OBVIOUS
<1>3. /\ N \in Nat /\ \A i \in 1 .. N : IsVisited(Visited[i])
      /\ \A i, j \in 1 .. N : Visited[i] = Visited[j] => i = j
      /\ \A s : IsVisited(s) => \E i \in 1 .. N : Visited[i] = s
      /\ IsVisited(hg.start)
      /\ \A i \in 1 .. N : \A a \in ArcIds(hg) : FromState(a) = Visited[i] =>
           HeadOf(hg, a) = Visited[i] \/ \E j \in 1 .. i - 1 : Visited[j] = HeadOf(hg, a)
  BY <1>1, <1>2, OrderFacts
<1>4. \A a \in ArcIds(hg) : IsVisited(FromState(a)) => HeadOf(hg, a) # FromState(a)
  BY <1>1 DEF HasSelfLoops, IsVisited, FromState
<1>5. \A i \in 1 .. N : \A a \in ArcIds(hg) : FromState(a) = Visited[i] =>
        \E j \in 1 .. i - 1 : Visited[j] = HeadOf(hg, a)
  BY <1>3, <1>4
<1>6. \A i \in 1 .. N : \A j \in 1 .. i - 1 :
        j \in 1 .. N /\ j # i /\ \A k \in 1 .. j - 1 : k \in 1 .. i - 1
  BY <1>3
<1>7. \A i \in 1 .. N : i - 1 < N /\ \A j \in 1 .. i - 1 : j \in 1 .. N
  BY <1>3
<1>8. ASSUME NEW s, IsVisited(s)
      PROVE  s \notin FromOf(s) /\ \A t \in FromOf(s) : IsVisited(t)
  <2>1. PICK i \in 1 .. N : Visited[i] = s
    BY <1>3, <1>8
  <2>2. PICK below : below = {Visited[j] : j \in 1 .. i - 1}
    OBVIOUS
  <2>3. below \in SUBSET States /\ s \in States /\ \A t \in below : IsVisited(t)
    BY <1>3, <1>6, <1>8, <2>1, <2>2 DEF IsVisited
  <2>4. HeadsOf({s}) \subseteq below
    BY <1>5, <2>1, <2>2 DEF HeadsOf, FromState
  <2>5. HeadsOf(below) \subseteq below
    <3>1. ASSUME NEW a \in ArcIds(hg), FromState(a) \in below
          PROVE  HeadOf(hg, a) \in below
      <4>1. PICK j \in 1 .. i - 1 : Visited[j] = FromState(a)
        BY <2>2, <3>1
      <4>2. PICK k \in 1 .. j - 1 : Visited[k] = HeadOf(hg, a)
        BY <1>5, <1>6, <2>1, <4>1
      <4>3. k \in 1 .. i - 1
        BY <1>6, <2>1, <4>1, <4>2
      <4>4. QED
        BY <2>2, <4>2, <4>3
    <3>2. QED
      BY <3>1 DEF HeadsOf, FromState
  <2>6. FromOf(s) \subseteq below
    BY <1>1, <2>3, <2>4, <2>5, FromStaysInside
  <2>7. s \notin below
    BY <1>3, <1>6, <2>1, <2>2
  <2>8. QED
    BY <2>3, <2>6, <2>7
<1>9. QED
  BY <1>3, <1>8

LEMMA MarkedInvariance == BestTreeSpec => [](IInv /\ DoneInv /\ MarkedInv)
<1>1. Init => MarkedInv
  BY DEF Init, MarkedInv
<1>2. QED
  BY <1>1, NextKeepsMarked, TreeInvariance, PTL DEF BestTreeSpec

(* When AcyclicBest gives a hypergraph the property kAcyclic, no state that the
   start state leads to can be reached from itself: the depth first visit
   comes to its end, counts every arc back to a call under way, and the self
   loops it does not count keep the property from being set.
   (AcyclicBest.hpp, acyclic) *)
THEOREM MarkedHasNoCycle == BestTreeSpec => []MarkedIsAcyclic
<1>1. IInv /\ MarkedInv => MarkedIsAcyclic
  <2>. SUFFICES ASSUME IInv, MarkedInv, isMarkedAcyclic PROVE MarkedIsAcyclic
    BY DEF MarkedIsAcyclic
  <2>1. \A s \in {hg.start} \cup FromOf(hg.start) : s \notin FromOf(s)
    BY MarkedMeansAcyclic
  <2>2. QED
    BY <2>1 DEF MarkedIsAcyclic, FromOf, FurtherOf, HeadsOf
<1>2. QED
  BY <1>1, MarkedInvariance, PTL

-----------------------------------------------------------------------------
(* The costs of paths: what relaxing along the order computes *)

(* Some path from the start state, without self loops, leads to s and costs c:
   <<s, c>> is in the least set that has the start state at no cost and is
   closed under following an arc. *)
IsPathClosed(C) ==
  /\ <<hg.start, 0>> \in C
  /\ \A a \in ArcIds(hg), c \in Int :
       HeadOf(hg, a) # FromState(a) /\ <<FromState(a), c>> \in C =>
         <<HeadOf(hg, a), c + CostOf(hg, a)>> \in C
HasPath(s, c) == \A C \in SUBSET (States \X Int) : IsPathClosed(C) => <<s, c>> \in C

(* What AcyclicBest is for: no cycles but self loops that gain nothing, and costs
   below unreachable *)
IsLattice ==
  /\ UsesAcyclic
  /\ TailsLast.backEdges = 0
  /\ \A a \in ArcIds(hg) : HeadOf(hg, a) = FromState(a) => CostOf(hg, a) >= 0
  /\ \A a \in ArcIds(hg) : CostOf(hg, a) < Unreachable
  /\ \A s \in States, c \in Int : HasPath(s, c) => c < Unreachable

LEMMA PathStarts ==
  ASSUME IsGraphInput
  PROVE  HasPath(hg.start, 0)
BY DEF HasPath, IsPathClosed

LEMMA PathGoesOn ==
  ASSUME IsGraphInput, NEW a \in ArcIds(hg), HeadOf(hg, a) # FromState(a),
         NEW c \in Int, HasPath(FromState(a), c)
  PROVE  HasPath(HeadOf(hg, a), c + CostOf(hg, a))
BY DEF HasPath, IsPathClosed

LEMMA LatticeFacts ==
  ASSUME IInv, IsLattice
  PROVE  /\ IsGraphInput
         /\ Visited \in Seq(States) /\ Len(Visited) \in Nat \ {0}
         /\ \A i \in 1 .. Len(Visited) : IsVisited(Visited[i])
         /\ \A i, j \in 1 .. Len(Visited) : Visited[i] = Visited[j] => i = j
         /\ \A s : IsVisited(s) => \E i \in 1 .. Len(Visited) : Visited[i] = s
         /\ \A i \in 1 .. Len(Visited) : \A a \in ArcIds(hg) : FromState(a) = Visited[i] =>
              HeadOf(hg, a) = Visited[i] \/ \E j \in 1 .. i - 1 : Visited[j] = HeadOf(hg, a)
         /\ hg.start \in States /\ Visited[Len(Visited)] = hg.start
         /\ \A s : IsVisited(s) => s = hg.start \/ ~IsAxiom(hg, s)
         /\ \A a \in ArcIds(hg) : IsVisited(FromState(a)) => IsVisited(HeadOf(hg, a))
<1>1. /\ IsGraphInput /\ TailsLast.backEdges = 0 /\ TailsLast.backEdges <= MaxBackEdges
  BY DEF IInv, JobInv, IsGraphInput, IsLattice, UsesAcyclic
<1>2. PICK N : N = Len(Visited)
  OBVIOUS
<1>3. /\ Visited \in Seq(States) /\ N \in Nat /\ \A i \in 1 .. N : IsVisited(Visited[i])
      /\ \A i, j \in 1 .. N : Visited[i] = Visited[j] => i = j
      /\ \A s : IsVisited(s) => \E i \in 1 .. N : Visited[i] = s
      /\ IsVisited(hg.start)
      /\ \A set \in SUBSET States : IsLeftByNone(set) /\ hg.start \in set =>
           \A s : IsVisited(s) => s \in set
      /\ \A i \in 1 .. N : \A a \in ArcIds(hg) : FromState(a) = Visited[i] =>
           HeadOf(hg, a) = Visited[i] \/ \E j \in 1 .. i - 1 : Visited[j] = HeadOf(hg, a)
  BY <1>1, <1>2, OrderFacts
<1>4. PICK p \in 1 .. N : Visited[p] = hg.start
  BY <1>3
<1>5. N \in 1 .. N /\ \A j \in 1 .. p : j \in 1 .. N
  BY <1>3
<1>6. Visited[N] = hg.start
  <2>1. PICK set : set = {Visited[j] : j \in 1 .. p}
    OBVIOUS
  <2>2. set \in SUBSET States /\ hg.start \in set
    BY <1>3, <1>4, <1>5, <2>1 DEF IsVisited
  <2>3. IsLeftByNone(set)
    <3>1. ASSUME NEW a \in ArcIds(hg), FromState(a) \in set
          PROVE  HeadOf(hg, a) \in set
      <4>1. PICK j \in 1 .. p : Visited[j] = FromState(a)
        BY <2>1, <3>1
      <4>2. \A i \in 1 .. j - 1 : i \in 1 .. p
        BY <1>3
      <4>3. HeadOf(hg, a) = Visited[j] \/ \E i \in 1 .. j - 1 : Visited[i] = HeadOf(hg, a)
        BY <1>3, <1>5, <4>1
      <4>4. QED
        BY <2>1, <4>2, <4>3
    <3>2. QED
      BY <3>1 DEF IsLeftByNone
  <2>4. Visited[N] \in set
    BY <1>3, <1>5, <2>2, <2>3
  <2>5. PICK j \in 1 .. p : Visited[N] = Visited[j]
    BY <2>1, <2>4
  <2>6. N = j
    BY <1>3, <1>5, <2>5
  <2>7. N = p
    BY <1>3, <2>6
  <2>8. QED
    BY <1>4, <2>7
<1>7. \A s : IsVisited(s) => s = hg.start \/ ~IsAxiom(hg, s)
  <2>1. PICK set : set = {s \in States : s = hg.start \/ s \notin hg.leaves}
    OBVIOUS
  <2>2. hg.start \in States /\ IsLeftByNone(set)
    BY <1>1, <2>1, GraphArcs DEF IsLeftByNone, IsGraphInput, IsGraph, IsHypergraph
  <2>3. QED
    BY <1>3, <2>1, <2>2 DEF IsAxiom
<1>8. \A a \in ArcIds(hg) : IsVisited(FromState(a)) => IsVisited(HeadOf(hg, a))
  <2>1. ASSUME NEW a \in ArcIds(hg), IsVisited(FromState(a))
        PROVE  IsVisited(HeadOf(hg, a))
    <3>1. PICK i \in 1 .. N : Visited[i] = FromState(a)
      BY <1>3, <2>1
    <3>2. \A j \in 1 .. i - 1 : j \in 1 .. N
      BY <1>3
    <3>3. QED
      BY <1>3, <3>1, <3>2
  <2>2. QED
    BY <2>1
<1>9. N # 0
  BY <1>4
<1>10. hg.start \in States
  BY <1>3 DEF IsVisited
<1>11. QED
  BY <1>1, <1>2, <1>3, <1>6, <1>7, <1>8, <1>9, <1>10

(* What holds of costs m and arcs p when the last k states of the order are
   left to relax from *)
IsRelaxation(k, m, p) ==
  /\ \A s \in States : m[s] <= Unreachable
  /\ m[hg.start] = 0 /\ p[hg.start] = 0
  /\ \A s \in States : IsVisited(s) /\ m[s] # Unreachable => HasPath(s, m[s])
  /\ \A i \in k + 1 .. Len(Visited) : \A a \in ArcIds(hg) :
       FromState(a) = Visited[i] /\ HeadOf(hg, a) # Visited[i] =>
         m[HeadOf(hg, a)] <= Extend(CostOf(hg, a), m[Visited[i]])
  /\ \A s \in States : IsVisited(s) /\ p[s] = 0 => s = hg.start \/ m[s] = Unreachable
  /\ \A s \in States : IsVisited(s) /\ p[s] # 0 =>
       \E i \in k + 1 .. Len(Visited) :
         /\ FromState(p[s]) = Visited[i] /\ Visited[i] # s /\ m[Visited[i]] # Unreachable
         /\ m[s] = m[Visited[i]] + CostOf(hg, p[s])

OrderLeft ==
  Len(order) <= Len(Visited) /\ \A i \in 1 .. Len(order) : order[i] = Visited[i]

AcyclicInv ==
  /\ phase \in {"axioms", "search"} => ~UsesAcyclic
  /\ phase = "acyclic" => OrderLeft
  /\ phase = "acyclic" /\ IsLattice => IsRelaxation(Len(order), mu, pi)
  /\ phase = "done" /\ IsLattice => IsRelaxation(0, mu, pi)

LEMMA AcyclicInvPrimed ==
  ASSUME hg' = hg, opt' = opt
  PROVE  /\ IsLattice' = IsLattice /\ UsesAcyclic' = UsesAcyclic
         /\ OrderLeft' = (Len(order') <= Len(Visited)
                          /\ \A i \in 1 .. Len(order') : order'[i] = Visited[i])
         /\ IsRelaxation(Len(order), mu, pi)' = IsRelaxation(Len(order'), mu', pi')
         /\ IsRelaxation(0, mu, pi)' = IsRelaxation(0, mu', pi')
<1>1. /\ UsesAcyclic' = UsesAcyclic /\ TailsLast' = TailsLast
  BY DEF UsesAcyclic, TailsLast, DfsStep, DfsStart, Dfs
<1>2. /\ \A s, c : HasPath(s, c)' = HasPath(s, c)
      /\ \A a : FromState(a)' = FromState(a) /\ HeadOf(hg, a)' = HeadOf(hg, a)
                /\ CostOf(hg, a)' = CostOf(hg, a)
      /\ ArcIds(hg)' = ArcIds(hg)
  BY DEF HasPath, IsPathClosed, FromState, HeadOf, CostOf, ArcIds, TailsOf
<1>3. Visited' = Visited /\ \A s : IsVisited(s)' = IsVisited(s)
  BY <1>1 DEF Visited, IsVisited
<1>4. IsLattice' = IsLattice
  BY <1>1, <1>2 DEF IsLattice
<1>5. OrderLeft' = (Len(order') <= Len(Visited)
                    /\ \A i \in 1 .. Len(order') : order'[i] = Visited[i])
  BY <1>3 DEF OrderLeft
<1>6. IsRelaxation(Len(order), mu, pi)' = IsRelaxation(Len(order'), mu', pi')
  BY <1>2, <1>3 DEF IsRelaxation
<1>7. IsRelaxation(0, mu, pi)' = IsRelaxation(0, mu', pi')
  BY <1>2, <1>3 DEF IsRelaxation
<1>8. QED
  BY <1>1, <1>4, <1>5, <1>6, <1>7

(* What holds of the tree while the arcs up to n out of the kth state are
   relaxed: that state and those before it in the search stay as they are, and
   whatever changes is the better for it. *)
IsRelaxedFrom(k, n, best) ==
  /\ best \in TypedTrees
  /\ \A i \in k .. Len(Visited) :
       best.mu[Visited[i]] = mu[Visited[i]] /\ best.pi[Visited[i]] = pi[Visited[i]]
  /\ \A t \in States : best.mu[t] <= mu[t]
  /\ \A t \in States :
       \/ best.mu[t] = mu[t] /\ best.pi[t] = pi[t]
       \/ /\ best.pi[t] # 0 /\ FromState(best.pi[t]) = Visited[k] /\ t # Visited[k]
          /\ mu[Visited[k]] # Unreachable
          /\ best.mu[t] = mu[Visited[k]] + CostOf(hg, best.pi[t])
  /\ \A a \in 1 .. n :
       FromState(a) = Visited[k] /\ HeadOf(hg, a) # Visited[k] =>
         best.mu[HeadOf(hg, a)] <= Extend(CostOf(hg, a), mu[Visited[k]])

LEMMA ImproveRelaxes ==
  ASSUME IInv, IsLattice, NEW k \in 1 .. Len(Visited), IsRelaxation(k, mu, pi),
         NEW n \in ArcIds(hg), FromState(n) = Visited[k],
         NEW best, IsRelaxedFrom(k, n - 1, best)
  PROVE  IsRelaxedFrom(k, n, Improve[<<best, n>>])
<1>a. PICK s, h, cost, new :
        /\ s = Visited[k] /\ h = HeadOf(hg, n)
        /\ cost = Extend(CostOf(hg, n), best.mu[s]) /\ new = Improve[<<best, n>>]
  OBVIOUS
<1>1. /\ IsHypergraph(hg) /\ IsGraph(hg) /\ IsGraphInput
      /\ s \in States /\ h \in States /\ IsVisited(s) /\ FromState(n) = s
      /\ n \in Nat \ {0} /\ CostOf(hg, n) \in Int /\ CostOf(hg, n) < Unreachable
      /\ h = s => CostOf(hg, n) >= 0
      /\ k \in Nat /\ Len(Visited) \in Nat
  <2>1. IsHypergraph(hg) /\ IsGraph(hg) /\ IsGraphInput /\ IsVisited(s) /\ Len(Visited) \in Nat
    BY <1>a, LatticeFacts DEF IsGraphInput
  <2>2. n \in Nat \ {0} /\ CostOf(hg, n) \in Int /\ h \in States
    BY <1>a, <2>1, ArcTypes
  <2>3. QED
    BY <1>a, <2>1, <2>2 DEF IsVisited, IsLattice
<1>2. /\ best \in TypedTrees
      /\ best.mu \in [States -> Int] /\ best.pi \in [States -> {0} \cup ArcIds(hg)]
      /\ mu \in [States -> Int] /\ Unreachable \in Int
      /\ \A i \in k .. Len(Visited) :
           best.mu[Visited[i]] = mu[Visited[i]] /\ best.pi[Visited[i]] = pi[Visited[i]]
      /\ \A t \in States : best.mu[t] <= mu[t]
      /\ \A t \in States :
           \/ best.mu[t] = mu[t] /\ best.pi[t] = pi[t]
           \/ /\ best.pi[t] # 0 /\ FromState(best.pi[t]) = s /\ t # s
              /\ mu[s] # Unreachable /\ best.mu[t] = mu[s] + CostOf(hg, best.pi[t])
      /\ \A a \in 1 .. n - 1 :
           FromState(a) = s /\ HeadOf(hg, a) # s =>
             best.mu[HeadOf(hg, a)] <= Extend(CostOf(hg, a), mu[s])
      /\ \A t \in States : mu[t] <= Unreachable
  BY <1>a, UnreachableAssumption
     DEF IsRelaxedFrom, TypedTrees, IInv, BestTreeTypeOK, IsRelaxation
<1>3. new \in TypedTrees
  BY <1>1, <1>2, <1>a, ImproveType
<1>4. best.mu[s] = mu[s]
  <2>1. k \in k .. Len(Visited)
    BY <1>1
  <2>2. QED
    BY <1>2, <1>a, <2>1
<1>5. cost = IF mu[s] = Unreachable THEN Unreachable ELSE CostOf(hg, n) + mu[s]
  BY <1>1, <1>2, <1>4, <1>a DEF Extend
<1>6. cost \in Int
  BY <1>1, <1>2, <1>5
<1>7. /\ new.mu = IF cost < best.mu[h] THEN [best.mu EXCEPT ![h] = cost] ELSE best.mu
      /\ new.pi = IF cost < best.mu[h] THEN [best.pi EXCEPT ![h] = n] ELSE best.pi
  <2>1. <<best, n>> \in Trees \X ArcIds(hg)
    <3>1. \A b \in ArcIds(hg) : b \in Nat
      BY <1>1, ArcTypes
    <3>2. best.pi \in [States -> Nat]
      BY <1>2, <3>1
    <3>3. best = [mu |-> best.mu, pi |-> best.pi]
      BY <1>2 DEF TypedTrees
    <3>4. QED
      BY <1>2, <3>2, <3>3 DEF Trees
  <2>2. new = IF cost < best.mu[h]
                THEN [mu |-> [best.mu EXCEPT ![h] = cost], pi |-> [best.pi EXCEPT ![h] = n]]
                ELSE best
    BY <1>1, <1>a, <2>1 DEF Improve, FromState
  <2>3. QED
    BY <2>2
<1>8. /\ \A t \in States : t # h => new.mu[t] = best.mu[t] /\ new.pi[t] = best.pi[t]
      /\ cost < best.mu[h] => new.mu[h] = cost /\ new.pi[h] = n
      /\ ~(cost < best.mu[h]) => new.mu[h] = best.mu[h] /\ new.pi[h] = best.pi[h]
      /\ new.mu[h] <= cost /\ new.mu[h] <= best.mu[h]
  BY <1>1, <1>2, <1>6, <1>7
<1>9. ASSUME cost < best.mu[h]
      PROVE  h # s /\ mu[s] # Unreachable /\ cost = mu[s] + CostOf(hg, n)
  <2>1. best.mu[h] <= Unreachable /\ best.mu[h] \in Int /\ mu[s] \in Int
    BY <1>1, <1>2
  <2>2. mu[s] # Unreachable
    BY <1>2, <1>5, <1>9, <2>1
  <2>3. cost = mu[s] + CostOf(hg, n)
    BY <1>1, <1>5, <2>1, <2>2
  <2>4. h # s
    BY <1>1, <1>4, <1>9, <2>1, <2>3
  <2>5. QED
    BY <2>2, <2>3, <2>4
<1>10. ASSUME NEW i \in k .. Len(Visited), Visited[i] = h
       PROVE  h = s
  <2>1. /\ \A j, m \in 1 .. Len(Visited) : Visited[j] = Visited[m] => j = m
        /\ h = s \/ \E j \in 1 .. k - 1 : Visited[j] = h
    BY <1>1, <1>a, LatticeFacts
  <2>2. \A j \in 1 .. k - 1 : j \in 1 .. Len(Visited) /\ i \in 1 .. Len(Visited) /\ i # j
    BY <1>1
  <2>3. QED
    BY <1>10, <2>1, <2>2
<1>11. ASSUME NEW i \in k .. Len(Visited)
       PROVE  new.mu[Visited[i]] = mu[Visited[i]] /\ new.pi[Visited[i]] = pi[Visited[i]]
  <2>1. i \in 1 .. Len(Visited) /\ best.mu[Visited[i]] = mu[Visited[i]]
        /\ best.pi[Visited[i]] = pi[Visited[i]]
    BY <1>1, <1>2
  <2>2. Visited[i] \in States
    BY <2>1, LatticeFacts DEF IsVisited
  <2>3. QED
    BY <1>8, <1>9, <1>10, <2>1, <2>2
<1>12. \A t \in States : new.mu[t] <= mu[t]
  <2>1. \A t \in States : new.mu[t] <= best.mu[t]
    BY <1>2, <1>8
  <2>2. new.mu \in [States -> Int]
    BY <1>3 DEF TypedTrees
  <2>3. QED
    BY <1>2, <2>1, <2>2
<1>13. \A t \in States :
         \/ new.mu[t] = mu[t] /\ new.pi[t] = pi[t]
         \/ /\ new.pi[t] # 0 /\ FromState(new.pi[t]) = s /\ t # s
            /\ mu[s] # Unreachable /\ new.mu[t] = mu[s] + CostOf(hg, new.pi[t])
  BY <1>1, <1>2, <1>8, <1>9
<1>14. ASSUME NEW a \in 1 .. n, FromState(a) = s, HeadOf(hg, a) # s
       PROVE  new.mu[HeadOf(hg, a)] <= Extend(CostOf(hg, a), mu[s])
  <2>0. a \in ArcIds(hg)
    <3>1. ArcIds(hg) = 1 .. Len(hg.arcs) /\ Len(hg.arcs) \in Nat
      BY <1>1, LenProperties DEF IsHypergraph, ArcIds
    <3>2. QED
      BY <3>1
  <2>1. CASE a = n
    BY <1>4, <1>8, <1>a, <2>1
  <2>2. CASE a # n
    <3>1. PICK g, bound : g = HeadOf(hg, a) /\ bound = Extend(CostOf(hg, a), mu[s])
      OBVIOUS
    <3>2. g \in States /\ bound \in Int
      BY <1>1, <1>2, <2>0, <3>1, ArcTypes, ExtendType
    <3>3. a \in 1 .. n - 1
      BY <1>1, <2>2
    <3>4. best.mu[g] <= bound
      BY <1>2, <1>14, <2>0, <3>1, <3>3
    <3>5. new.mu[g] \in Int /\ best.mu[g] \in Int
      BY <1>2, <1>3, <3>2 DEF TypedTrees
    <3>6. new.mu[g] <= best.mu[g]
      BY <1>8, <3>2, <3>5
    <3>7. new.mu[g] <= bound
      BY <3>2, <3>4, <3>5, <3>6
    <3>8. QED
      BY <3>1, <3>7
  <2>3. QED
    BY <2>1, <2>2
<1>15. QED
  BY <1>3, <1>11, <1>12, <1>13, <1>14, <1>a DEF IsRelaxedFrom

LEMMA ImprovedRelaxes ==
  ASSUME IInv, IsLattice, NEW k \in 1 .. Len(Visited), IsRelaxation(k, mu, pi)
  PROVE  IsRelaxedFrom(k, Len(hg.arcs), Improved(Visited[k]))
<1>a. PICK s : s = Visited[k]
  OBVIOUS
<1>b. /\ IsHypergraph(hg) /\ IsGraph(hg) /\ IsGraphInput /\ s \in States
      /\ [mu |-> mu, pi |-> pi] \in TypedTrees
  BY <1>a, LatticeFacts DEF IsGraphInput, IInv, JobInv, BestTreeTypeOK, TypedTrees, IsVisited
<1>. DEFINE N == Len(hg.arcs)
            start == [mu |-> mu, pi |-> pi]
            Turn(n, best) == IF TailsOf(hg, n)[1] = s THEN Improve[<<best, n>>] ELSE best
            step == [x \in (1 .. N) \X TypedTrees |-> Turn(x[1], x[2])]
            IsBest(f) == f = [n \in 0 .. N |-> IF n = 0 THEN start ELSE Turn(n, f[n - 1])]
            best == CHOOSE f : IsBest(f)
            Inv == [n \in 0 .. N |-> {b \in TypedTrees : IsRelaxedFrom(k, n, b)}]
<1>1. N \in Nat /\ \A n \in 1 .. N : n \in ArcIds(hg)
  BY <1>b, LenProperties DEF IsHypergraph, ArcIds
<1>2. Improved(s) = best[N]
  BY DEF Improved
<1>3. ASSUME NEW n \in 1 .. N, NEW b \in TypedTrees
      PROVE  Turn(n, b) \in TypedTrees
  BY <1>1, <1>b, ImproveType
<1>4. start \in TypedTrees
  BY <1>b
<1>5. ASSUME NEW n \in 1 .. N, NEW b, IsRelaxedFrom(k, n - 1, b)
      PROVE  IsRelaxedFrom(k, n, Turn(n, b))
  <2>1. CASE FromState(n) = s
    BY <1>1, <1>5, <1>a, <2>1, ImproveRelaxes DEF FromState
  <2>2. CASE FromState(n) # s
    <3>1. \A a \in 1 .. n : a = n \/ a \in 1 .. n - 1
      BY <1>1
    <3>2. IsRelaxedFrom(k, n, b)
      BY <1>5, <1>a, <2>2, <3>1 DEF IsRelaxedFrom
    <3>3. QED
      BY <2>2, <3>2 DEF FromState
  <2>3. QED
    BY <2>1, <2>2
<1>6. IsRelaxedFrom(k, 0, start)
  <2>1. mu \in [States -> Int]
    BY DEF IInv, BestTreeTypeOK
  <2>2. \A t \in States : mu[t] <= mu[t]
    BY <2>1
  <2>3. QED
    BY <1>4, <2>2 DEF IsRelaxedFrom
<1>. HIDE DEF N, Turn, start
<1>7. step \in [(1 .. N) \X TypedTrees -> TypedTrees]
  BY <1>3
<1>8. \A n \in 1 .. N, b \in TypedTrees : step[<<n, b>>] = Turn(n, b)
  OBVIOUS
<1>. HIDE DEF step
<1>9. PICK f \in [0 .. N -> TypedTrees] :
        f[0] = start /\ \A n \in 1 .. N : f[n] = step[<<n, f[n - 1]>>]
  <2>1. IsCount(TypedTrees, N, start, step)
    BY <1>1, <1>4, <1>7 DEF IsCount
  <2>2. QED
    BY <2>1, ForExists
<1>10. IsBest(f)
  <2>1. \A n \in 1 .. N : n - 1 \in 0 .. N
    BY <1>1
  <2>2. \A n \in 1 .. N : f[n] = Turn(n, f[n - 1])
    BY <1>8, <1>9, <2>1
  <2>3. \A n \in 0 .. N : n = 0 \/ n \in 1 .. N
    BY <1>1
  <2>4. QED
    BY <1>9, <2>2, <2>3
<1>11. IsBest(best)
  <2>. HIDE DEF IsBest
  <2>1. QED
    BY <1>10
<1>. HIDE DEF best
<1>12. best[0] = start /\ \A n \in 1 .. N : best[n] = Turn(n, best[n - 1])
  BY <1>1, <1>11
<1>13. /\ \A n \in 0 .. N : \A b : b \in Inv[n] <=> b \in TypedTrees /\ IsRelaxedFrom(k, n, b)
       /\ \A n \in 1 .. N : n \in 0 .. N /\ n - 1 \in 0 .. N
       /\ 0 \in 0 .. N /\ N \in 0 .. N
  BY <1>1
<1>. HIDE DEF Inv
<1>14. \A n \in 1 .. N : best[n - 1] \in Inv[n - 1] => best[n] \in Inv[n]
  BY <1>3, <1>5, <1>12, <1>13
<1>15. best[0] \in Inv[0]
  BY <1>4, <1>6, <1>12, <1>13
<1>16. \A n \in 0 .. N : best[n] \in Inv[n]
  BY <1>1, <1>14, <1>15, ForKeeps
<1>17. IsRelaxedFrom(k, N, best[N])
  BY <1>13, <1>16
<1>18. QED
  BY <1>2, <1>17, <1>a DEF N

LEMMA NothingIsRelaxed ==
  ASSUME IInv, IsLattice, NEW p, \A s \in States : p[s] = 0
  PROVE  IsRelaxation(Len(Visited), AxiomCosts, p)
<1>1. /\ hg.start \in States /\ Len(Visited) \in Nat
      /\ \A s : IsVisited(s) => s = hg.start \/ ~IsAxiom(hg, s)
  BY LatticeFacts
<1>2. \A s \in States : AxiomCosts[s] = IF IsAxiom(hg, s) THEN 0 ELSE Unreachable
  BY DEF AxiomCosts
<1>3. Unreachable \in Int /\ 0 <= Unreachable /\ Unreachable <= Unreachable
  BY UnreachableAssumption
<1>4. \A s \in States : AxiomCosts[s] <= Unreachable
  BY <1>2, <1>3
<1>5. AxiomCosts[hg.start] = 0 /\ p[hg.start] = 0
  BY <1>1, <1>2 DEF IsAxiom
<1>6. \A s \in States : IsVisited(s) => s = hg.start \/ AxiomCosts[s] = Unreachable
  BY <1>1, <1>2
<1>7. \A s \in States : IsVisited(s) /\ AxiomCosts[s] # Unreachable => HasPath(s, AxiomCosts[s])
  BY <1>5, <1>6, PathStarts, LatticeFacts
<1>8. Len(Visited) + 1 .. Len(Visited) = {}
  BY <1>1
<1>9. QED
  BY <1>4, <1>5, <1>6, <1>7, <1>8 DEF IsRelaxation

LEMMA RelaxedFromIsRelaxation ==
  ASSUME IInv, IsLattice, NEW k \in 1 .. Len(Visited), IsRelaxation(k, mu, pi),
         NEW best, IsRelaxedFrom(k, Len(hg.arcs), best)
  PROVE  IsRelaxation(k - 1, best.mu, best.pi)
<1>a. PICK N, s : N = Len(Visited) /\ s = Visited[k]
  OBVIOUS
<1>1. /\ IsGraphInput /\ IsHypergraph(hg) /\ N \in Nat \ {0} /\ k \in 1 .. N /\ Visited[N] = hg.start
      /\ hg.start \in States /\ s \in States /\ IsVisited(s)
      /\ \A i \in 1 .. N : Visited[i] \in States
  BY <1>a, LatticeFacts DEF IsVisited, IsGraphInput
<1>2. /\ best.mu \in [States -> Int] /\ mu \in [States -> Int] /\ Unreachable \in Int
      /\ best.pi \in [States -> {0} \cup ArcIds(hg)]
      /\ \A t \in States : best.pi[t] # 0 => HeadOf(hg, best.pi[t]) = t
  BY UnreachableAssumption DEF IsRelaxedFrom, TypedTrees, IInv, BestTreeTypeOK
<1>3. /\ \A i \in k .. N : best.mu[Visited[i]] = mu[Visited[i]] /\ best.pi[Visited[i]] = pi[Visited[i]]
      /\ \A t \in States : best.mu[t] <= mu[t]
      /\ \A t \in States :
           \/ best.mu[t] = mu[t] /\ best.pi[t] = pi[t]
           \/ /\ best.pi[t] # 0 /\ FromState(best.pi[t]) = s /\ t # s
              /\ mu[s] # Unreachable /\ best.mu[t] = mu[s] + CostOf(hg, best.pi[t])
      /\ \A a \in 1 .. Len(hg.arcs) :
           FromState(a) = s /\ HeadOf(hg, a) # s =>
             best.mu[HeadOf(hg, a)] <= Extend(CostOf(hg, a), mu[s])
  BY <1>a DEF IsRelaxedFrom
<1>4. /\ \A t \in States : mu[t] <= Unreachable
      /\ mu[hg.start] = 0 /\ pi[hg.start] = 0
      /\ \A t \in States : IsVisited(t) /\ mu[t] # Unreachable => HasPath(t, mu[t])
      /\ \A i \in k + 1 .. N : \A a \in ArcIds(hg) :
           FromState(a) = Visited[i] /\ HeadOf(hg, a) # Visited[i] =>
             mu[HeadOf(hg, a)] <= Extend(CostOf(hg, a), mu[Visited[i]])
      /\ \A t \in States : IsVisited(t) /\ pi[t] = 0 => t = hg.start \/ mu[t] = Unreachable
      /\ \A t \in States : IsVisited(t) /\ pi[t] # 0 =>
           \E i \in k + 1 .. N :
             /\ FromState(pi[t]) = Visited[i] /\ Visited[i] # t /\ mu[Visited[i]] # Unreachable
             /\ mu[t] = mu[Visited[i]] + CostOf(hg, pi[t])
  BY <1>a DEF IsRelaxation
<1>5. /\ N \in k .. N /\ k \in k .. N /\ k - 1 + 1 = k
      /\ \A i \in k + 1 .. N : i \in k .. N
      /\ \A i \in k .. N : i \in 1 .. N /\ (i = k \/ i \in k + 1 .. N)
      /\ ArcIds(hg) = 1 .. Len(hg.arcs)
  <2>1. ArcIds(hg) = 1 .. Len(hg.arcs)
    BY <1>1, LenProperties DEF IsHypergraph, ArcIds
  <2>2. QED
    BY <1>1, <2>1
<1>6. \A t \in States : best.mu[t] <= Unreachable
  BY <1>2, <1>3, <1>4
<1>7. best.mu[hg.start] = 0 /\ best.pi[hg.start] = 0
  BY <1>1, <1>3, <1>4, <1>5
<1>8. ASSUME NEW t \in States, IsVisited(t), best.mu[t] # Unreachable
      PROVE  HasPath(t, best.mu[t])
  <2>1. CASE best.mu[t] = mu[t]
    BY <1>4, <1>8, <2>1
  <2>2. CASE best.mu[t] # mu[t]
    <3>1. PICK a : a = best.pi[t]
      OBVIOUS
    <3>2. /\ a # 0 /\ FromState(a) = s /\ t # s /\ mu[s] # Unreachable
          /\ best.mu[t] = mu[s] + CostOf(hg, a)
      BY <1>3, <2>2, <3>1
    <3>3. a \in ArcIds(hg) /\ HeadOf(hg, a) = t
      BY <1>2, <3>1, <3>2
    <3>4. HasPath(s, mu[s]) /\ mu[s] \in Int
      BY <1>1, <1>2, <1>4, <3>2
    <3>5. QED
      BY <1>1, <3>2, <3>3, <3>4, PathGoesOn
  <2>3. QED
    BY <2>1, <2>2
<1>9. ASSUME NEW i \in k .. N, NEW a \in ArcIds(hg),
             FromState(a) = Visited[i], HeadOf(hg, a) # Visited[i]
      PROVE  best.mu[HeadOf(hg, a)] <= Extend(CostOf(hg, a), best.mu[Visited[i]])
  <2>1. best.mu[Visited[i]] = mu[Visited[i]]
    BY <1>3
  <2>2. CASE i = k
    BY <1>3, <1>5, <1>9, <1>a, <2>1, <2>2
  <2>3. CASE i \in k + 1 .. N
    <3>1. PICK head, bound : head = HeadOf(hg, a) /\ bound = Extend(CostOf(hg, a), mu[Visited[i]])
      OBVIOUS
    <3>2. head \in States /\ bound \in Int
      BY <1>1, <1>2, <1>5, <3>1, ArcTypes, ExtendType
    <3>3. mu[head] <= bound
      BY <1>4, <1>9, <2>3, <3>1
    <3>4. best.mu[head] <= mu[head] /\ best.mu[head] \in Int /\ mu[head] \in Int
      BY <1>2, <1>3, <3>2
    <3>5. best.mu[head] <= bound
      BY <3>2, <3>3, <3>4
    <3>6. QED
      BY <2>1, <3>1, <3>5
  <2>4. QED
    BY <1>5, <2>2, <2>3
<1>10. \A t \in States : IsVisited(t) /\ best.pi[t] = 0 => t = hg.start \/ best.mu[t] = Unreachable
  BY <1>3, <1>4
<1>11. ASSUME NEW t \in States, IsVisited(t), best.pi[t] # 0
       PROVE  \E i \in k .. N :
                /\ FromState(best.pi[t]) = Visited[i] /\ Visited[i] # t
                /\ best.mu[Visited[i]] # Unreachable
                /\ best.mu[t] = best.mu[Visited[i]] + CostOf(hg, best.pi[t])
  <2>1. CASE best.mu[t] = mu[t] /\ best.pi[t] = pi[t]
    BY <1>3, <1>4, <1>5, <1>11, <2>1
  <2>2. CASE /\ FromState(best.pi[t]) = s /\ t # s
             /\ mu[s] # Unreachable /\ best.mu[t] = mu[s] + CostOf(hg, best.pi[t])
    BY <1>3, <1>5, <1>a, <2>2
  <2>3. QED
    BY <1>3, <2>1, <2>2
<1>12. QED
  BY <1>5, <1>6, <1>7, <1>8, <1>9, <1>10, <1>11, <1>a DEF IsRelaxation

LEMMA ChooseAcyclicStartsRelaxation ==
  ASSUME IInv, ChooseAcyclic
  PROVE  AcyclicInv'
<1>1. /\ hg' = hg /\ opt' = opt /\ phase = "choose" /\ phase' = "acyclic"
      /\ order' = Visited /\ mu' = AxiomCosts /\ pi' = pi
  BY DEF ChooseAcyclic, input, AxiomCosts, Visited
<1>2. \A s \in States : pi[s] = 0
  BY <1>1 DEF IInv, NothingYet
<1>3. OrderLeft'
  <2>1. IsGraphInput /\ TailsLast.backEdges <= MaxBackEdges
    BY DEF IInv, JobInv, ChooseAcyclic, UsesAcyclic, IsGraphInput
  <2>2. Len(Visited) \in Nat
    BY <2>1, OrderFacts
  <2>3. Len(Visited) <= Len(Visited)
    BY <2>2
  <2>4. QED
    BY <1>1, <2>3, AcyclicInvPrimed
<1>4. IsLattice' => IsRelaxation(Len(order), mu, pi)'
  BY <1>1, <1>2, AcyclicInvPrimed, NothingIsRelaxed
<1>5. QED
  BY <1>1, <1>3, <1>4 DEF AcyclicInv

LEMMA RelaxOutArcsGoesOn ==
  ASSUME IInv, DoneInv, AcyclicInv, RelaxOutArcs
  PROVE  AcyclicInv'
<1>a. PICK k : k = Len(order)
  OBVIOUS
<1>1. /\ hg' = hg /\ opt' = opt /\ phase = "acyclic" /\ phase' = "acyclic"
      /\ order # <<>> /\ order \in Seq(States) /\ order' = SubSeq(order, 1, k - 1)
      /\ mu' = Improved(order[k]).mu /\ pi' = Improved(order[k]).pi
  BY <1>a DEF RelaxOutArcs, input, IInv, BestTreeTypeOK
<1>2. k \in Nat \ {0} /\ Len(order') = k - 1 /\ \A i \in 1 .. k - 1 : order'[i] = order[i]
  BY <1>1, <1>a
<1>3. k <= Len(Visited) /\ \A i \in 1 .. k : order[i] = Visited[i]
  BY <1>1, <1>a DEF AcyclicInv, OrderLeft
<1>4. Len(Visited) \in Nat
  <2>1. IsGraphInput /\ TailsLast.backEdges <= MaxBackEdges
    BY <1>1 DEF IInv, JobInv, DoneInv, UsesAcyclic, IsGraphInput
  <2>2. QED
    BY <2>1, OrderFacts
<1>5. OrderLeft'
  <2>1. k - 1 <= Len(Visited) /\ \A i \in 1 .. k - 1 : i \in 1 .. k
    BY <1>2, <1>3, <1>4
  <2>2. \A i \in 1 .. k - 1 : order'[i] = Visited[i]
    BY <1>2, <1>3, <2>1
  <2>3. QED
    BY <1>1, <1>2, <2>1, <2>2, AcyclicInvPrimed
<1>6. ASSUME IsLattice
      PROVE  IsRelaxation(k - 1, mu', pi')
  <2>1. k \in 1 .. Len(Visited) /\ k \in 1 .. k
    BY <1>2, <1>3, <1>4
  <2>2. IsRelaxation(k, mu, pi)
    BY <1>1, <1>6, <1>a DEF AcyclicInv
  <2>3. order[k] = Visited[k]
    BY <1>3, <2>1
  <2>4. IsRelaxedFrom(k, Len(hg.arcs), Improved(Visited[k]))
    BY <1>6, <2>1, <2>2, ImprovedRelaxes
  <2>5. QED
    BY <1>1, <1>6, <2>1, <2>2, <2>3, <2>4, RelaxedFromIsRelaxation
<1>7. IsLattice' => IsRelaxation(Len(order), mu, pi)'
  BY <1>1, <1>2, <1>6, AcyclicInvPrimed
<1>8. QED
  BY <1>1, <1>5, <1>7 DEF AcyclicInv

LEMMA AcyclicDoneEndsRelaxation ==
  ASSUME IInv, AcyclicInv, AcyclicDone
  PROVE  AcyclicInv'
<1>1. /\ hg' = hg /\ opt' = opt /\ phase = "acyclic" /\ phase' = "done"
      /\ order = <<>> /\ mu' = mu /\ pi' = pi
  BY DEF AcyclicDone, input, result
<1>2. Len(order) = 0
  BY <1>1
<1>3. IsLattice' => IsRelaxation(0, mu, pi)'
  BY <1>1, <1>2, AcyclicInvPrimed DEF AcyclicInv
<1>4. QED
  BY <1>1, <1>3 DEF AcyclicInv

LEMMA OtherStepsKeepAcyclic ==
  ASSUME IInv, AcyclicInv,
         ChooseBestFirst \/ AddAxioms \/ PopBest \/ ReachArc \/ SearchDone \/ UNCHANGED vars
  PROVE  AcyclicInv'
<1>1. hg' = hg /\ opt' = opt
  BY DEF ChooseBestFirst, AddAxioms, PopBest, ReachArc, SearchDone, vars, input
<1>2. CASE ChooseBestFirst
  BY <1>1, <1>2, AcyclicInvPrimed DEF ChooseBestFirst, AcyclicInv
<1>3. CASE AddAxioms \/ PopBest \/ ReachArc
  BY <1>1, <1>3, AcyclicInvPrimed DEF AddAxioms, PopBest, ReachArc, AcyclicInv
<1>4. CASE SearchDone
  <2>1. ~UsesAcyclic /\ phase' = "done"
    BY <1>4 DEF SearchDone, AcyclicInv
  <2>2. ~IsLattice'
    BY <1>1, <2>1, AcyclicInvPrimed DEF IsLattice
  <2>3. QED
    BY <2>1, <2>2 DEF AcyclicInv
<1>5. CASE UNCHANGED vars
  BY <1>1, <1>5, AcyclicInvPrimed DEF vars, result, AcyclicInv, OrderLeft
<1>6. QED
  BY <1>2, <1>3, <1>4, <1>5

LEMMA AcyclicInvariance == BestTreeSpec => [](IInv /\ DoneInv /\ AcyclicInv)
<1>1. Init => AcyclicInv
  BY DEF Init, AcyclicInv
<1>2. IInv /\ DoneInv /\ AcyclicInv /\ [BestTreeNext]_vars => AcyclicInv'
  BY ChooseAcyclicStartsRelaxation, RelaxOutArcsGoesOn, AcyclicDoneEndsRelaxation,
     OtherStepsKeepAcyclic DEF BestTreeNext
<1>3. QED
  BY <1>1, <1>2, TreeInvariance, PTL DEF BestTreeSpec

(* From every set of visited states without the start state pi leads out. *)
LeadsToStart ==
  \A set \in SUBSET States :
    set # {} /\ hg.start \notin set /\ (\A s \in set : IsVisited(s)) =>
      \E s \in set : FromState(pi[s]) \notin set

AcyclicIsExact ==
  phase = "done" /\ IsLattice =>
    /\ \A s \in States, c \in Int : HasPath(s, c) => IsVisited(s) /\ mu[s] <= c
    /\ \A s \in States : IsVisited(s) => HasPath(s, mu[s])
    /\ \A s \in States : IsVisited(s) /\ s # hg.start =>
         /\ pi[s] \in ArcIds(hg) /\ HeadOf(hg, pi[s]) = s
         /\ IsVisited(FromState(pi[s])) /\ mu[s] = mu[FromState(pi[s])] + CostOf(hg, pi[s])
    /\ LeadsToStart

LEMMA VisitedHavePaths ==
  ASSUME IInv, IsLattice, NEW s, IsVisited(s)
  PROVE  \E c \in Int : HasPath(s, c)
<1>1. PICK set : set = {t \in States : \E c \in Int : HasPath(t, c)}
  OBVIOUS
<1>2. /\ IsGraphInput /\ hg.start \in States /\ TailsLast.backEdges <= MaxBackEdges
  BY LatticeFacts DEF IsLattice, UsesAcyclic
<1>3. hg.start \in set
  BY <1>1, <1>2, PathStarts
<1>4. IsLeftByNone(set)
  <2>1. ASSUME NEW a \in ArcIds(hg), FromState(a) \in set
        PROVE  HeadOf(hg, a) \in set
    <3>1. PICK c \in Int : HasPath(FromState(a), c)
      BY <1>1, <2>1
    <3>2. HeadOf(hg, a) \in States /\ CostOf(hg, a) \in Int
      BY <1>2, ArcTypes DEF IsGraphInput
    <3>3. c + CostOf(hg, a) \in Int
      BY <3>2
    <3>4. HeadOf(hg, a) # FromState(a) => HasPath(HeadOf(hg, a), c + CostOf(hg, a))
      BY <1>2, <3>1, PathGoesOn
    <3>5. QED
      BY <1>1, <2>1, <3>2, <3>3, <3>4
  <2>2. QED
    BY <2>1 DEF IsLeftByNone
<1>5. set \in SUBSET States
  BY <1>1
<1>6. s \in set
  BY <1>2, <1>3, <1>4, <1>5, OrderFacts
<1>7. QED
  BY <1>1, <1>6

LEMMA NoPathIsCheaper ==
  ASSUME IInv, IsLattice, IsRelaxation(0, mu, pi), NEW s \in States, NEW c \in Int, HasPath(s, c)
  PROVE  IsVisited(s) /\ mu[s] <= c
<1>1. PICK C : C = {x \in States \X Int :
                      IsVisited(x[1]) /\ mu[x[1]] <= x[2] /\ HasPath(x[1], x[2])}
  OBVIOUS
<1>2. \A t, d : <<t, d>> \in C <=>
        t \in States /\ d \in Int /\ IsVisited(t) /\ mu[t] <= d /\ HasPath(t, d)
  BY <1>1
<1>3. /\ IsGraphInput /\ IsHypergraph(hg) /\ hg.start \in States
      /\ mu \in [States -> Int] /\ Unreachable \in Int
      /\ mu[hg.start] = 0
      /\ \A a \in ArcIds(hg) : IsVisited(FromState(a)) => IsVisited(HeadOf(hg, a))
  BY LatticeFacts, UnreachableAssumption
     DEF IsGraphInput, IInv, BestTreeTypeOK, IsRelaxation
<1>4. <<hg.start, 0>> \in C
  <2>1. IsVisited(hg.start)
    BY <1>3, OrderFacts DEF IsLattice, UsesAcyclic
  <2>2. HasPath(hg.start, 0) /\ mu[hg.start] <= 0
    BY <1>3, PathStarts
  <2>3. QED
    BY <1>2, <1>3, <2>1, <2>2
<1>5. ASSUME NEW a \in ArcIds(hg), NEW d \in Int,
             HeadOf(hg, a) # FromState(a), <<FromState(a), d>> \in C
      PROVE  <<HeadOf(hg, a), d + CostOf(hg, a)>> \in C
  <2>1. PICK from, head, cost : from = FromState(a) /\ head = HeadOf(hg, a) /\ cost = CostOf(hg, a)
    OBVIOUS
  <2>2. from \in States /\ IsVisited(from) /\ mu[from] <= d /\ HasPath(from, d)
    BY <1>2, <1>5, <2>1
  <2>3. head \in States /\ cost \in Int /\ cost < Unreachable /\ d < Unreachable
    BY <1>3, <2>1, <2>2, ArcTypes DEF IsLattice
  <2>4. IsVisited(head) /\ HasPath(head, d + cost)
    BY <1>3, <1>5, <2>1, <2>2, PathGoesOn
  <2>5. mu[from] \in Int /\ mu[head] \in Int
    BY <1>3, <2>2, <2>3
  <2>6. Extend(cost, mu[from]) = cost + mu[from]
    BY <1>3, <2>2, <2>3, <2>5 DEF Extend
  <2>7. mu[head] <= Extend(cost, mu[from])
    <3>1. PICK i \in 1 .. Len(Visited) : Visited[i] = from
      BY <2>2, LatticeFacts
    <3>2. i \in 0 + 1 .. Len(Visited)
      BY <3>1
    <3>3. QED
      BY <1>5, <2>1, <3>1, <3>2 DEF IsRelaxation
  <2>8. mu[head] <= d + cost /\ d + cost \in Int
    BY <2>2, <2>3, <2>5, <2>6, <2>7
  <2>9. QED
    BY <1>2, <2>1, <2>3, <2>4, <2>8
<1>6. IsPathClosed(C) /\ C \in SUBSET (States \X Int)
  BY <1>1, <1>4, <1>5 DEF IsPathClosed
<1>7. <<s, c>> \in C
  BY <1>6 DEF HasPath
<1>8. QED
  BY <1>2, <1>7

LEMMA RelaxationHasNoCycle ==
  ASSUME IInv, IsLattice, IsRelaxation(0, mu, pi),
         \A s \in States : IsVisited(s) => mu[s] # Unreachable
  PROVE  LeadsToStart
<1>1. SUFFICES ASSUME NEW set \in SUBSET States, set # {}, hg.start \notin set,
                      \A s \in set : IsVisited(s)
               PROVE  \E s \in set : FromState(pi[s]) \notin set
  BY DEF LeadsToStart
<1>2. PICK N : N = Len(Visited)
  OBVIOUS
<1>3. /\ N \in Nat
      /\ \A i, j \in 1 .. N : Visited[i] = Visited[j] => i = j
      /\ \A s : IsVisited(s) => \E i \in 1 .. N : Visited[i] = s
      /\ \A i \in 1 .. N : \A a \in ArcIds(hg) : FromState(a) = Visited[i] =>
           HeadOf(hg, a) = Visited[i] \/ \E j \in 1 .. i - 1 : Visited[j] = HeadOf(hg, a)
  BY <1>2, LatticeFacts
<1>4. PICK T : T = {n \in Nat : n < N /\ Visited[N - n] \in set}
  OBVIOUS
<1>5. T \in SUBSET Nat /\ T # {}
  <2>1. PICK s \in set : IsVisited(s)
    BY <1>1
  <2>2. PICK i \in 1 .. N : Visited[i] = s
    BY <1>3, <2>1
  <2>3. N - i \in Nat /\ N - i < N /\ N - (N - i) = i
    BY <1>3
  <2>4. N - i \in T
    BY <1>4, <2>2, <2>3
  <2>5. QED
    BY <1>4, <2>4
<1>6. PICK m \in T : \A n \in T : m <= n
  BY <1>5, LeastNatural
<1>7. PICK i, s : i = N - m /\ s = Visited[i]
  OBVIOUS
<1>8. i \in 1 .. N /\ s \in set /\ s \in States /\ IsVisited(s) /\ s # hg.start
  <2>1. m \in Nat /\ m < N /\ Visited[N - m] \in set
    BY <1>4, <1>6
  <2>2. i \in 1 .. N /\ s \in set
    BY <1>3, <1>7, <2>1
  <2>3. QED
    BY <1>1, <2>2
<1>9. pi[s] # 0
  BY <1>8 DEF IsRelaxation
<1>10. PICK j \in 1 .. N : FromState(pi[s]) = Visited[j] /\ Visited[j] # s
  <2>1. 0 + 1 .. Len(Visited) = 1 .. N
    BY <1>2
  <2>2. QED
    BY <1>8, <1>9, <2>1 DEF IsRelaxation
<1>11. pi[s] \in ArcIds(hg) /\ HeadOf(hg, pi[s]) = s
  BY <1>8, <1>9 DEF IInv, BestTreeTypeOK
<1>12. PICK l \in 1 .. j - 1 : Visited[l] = s
  BY <1>3, <1>10, <1>11
<1>13. l \in 1 .. N
  BY <1>3
<1>14. l = i
  BY <1>3, <1>7, <1>8, <1>12, <1>13
<1>15. N - j \in Nat /\ N - j < N /\ N - (N - j) = j /\ ~(m <= N - j)
  <2>1. m \in Nat
    BY <1>5
  <2>2. i < j
    BY <1>12, <1>14
  <2>3. QED
    BY <1>3, <1>7, <2>1, <2>2
<1>16. Visited[j] \notin set
  BY <1>4, <1>6, <1>15
<1>17. QED
  BY <1>8, <1>10, <1>16

(* When AcyclicBest ends, for a graph whose only cycles are self loops that gain
   nothing, mu is exact for the states that the start state leads to, negative
   costs and all: the cost of a state is the cost of a path to it, no path costs
   less, and the arcs in pi, each of which costs what mu says, lead back from it
   to the start state.
   (AcyclicBest.hpp: one pass over the order, the last of it first, in which
   each arc is relaxed once) *)
THEOREM AcyclicFindsBestPaths == BestTreeSpec => []AcyclicIsExact
<1>1. ASSUME IInv, AcyclicInv, phase = "done", IsLattice
      PROVE  /\ \A s \in States, c \in Int : HasPath(s, c) => IsVisited(s) /\ mu[s] <= c
             /\ \A s \in States : IsVisited(s) => HasPath(s, mu[s])
             /\ \A s \in States : IsVisited(s) /\ s # hg.start =>
                  /\ pi[s] \in ArcIds(hg) /\ HeadOf(hg, pi[s]) = s
                  /\ IsVisited(FromState(pi[s]))
                  /\ mu[s] = mu[FromState(pi[s])] + CostOf(hg, pi[s])
             /\ LeadsToStart
  <2>1. IsRelaxation(0, mu, pi)
    BY <1>1 DEF AcyclicInv
  <2>2. \A s \in States, c \in Int : HasPath(s, c) => IsVisited(s) /\ mu[s] <= c
    BY <1>1, <2>1, NoPathIsCheaper
  <2>3. ASSUME NEW s \in States, IsVisited(s)
        PROVE  mu[s] # Unreachable
    <3>1. PICK c \in Int : HasPath(s, c)
      BY <1>1, <2>3, VisitedHavePaths
    <3>2. c < Unreachable /\ mu[s] <= c
      BY <1>1, <2>2, <3>1 DEF IsLattice
    <3>3. mu[s] \in Int /\ Unreachable \in Int
      BY <1>1, UnreachableAssumption DEF IInv, BestTreeTypeOK
    <3>4. QED
      BY <3>2, <3>3
  <2>4. \A s \in States : IsVisited(s) => HasPath(s, mu[s])
    BY <2>1, <2>3 DEF IsRelaxation
  <2>5. ASSUME NEW s \in States, IsVisited(s), s # hg.start
        PROVE  /\ pi[s] \in ArcIds(hg) /\ HeadOf(hg, pi[s]) = s
               /\ IsVisited(FromState(pi[s]))
               /\ mu[s] = mu[FromState(pi[s])] + CostOf(hg, pi[s])
    <3>1. pi[s] # 0
      BY <2>1, <2>3, <2>5 DEF IsRelaxation
    <3>2. PICK i \in 0 + 1 .. Len(Visited) :
            FromState(pi[s]) = Visited[i] /\ mu[s] = mu[Visited[i]] + CostOf(hg, pi[s])
      BY <2>1, <2>5, <3>1 DEF IsRelaxation
    <3>3. IsVisited(Visited[i])
      BY <1>1, <3>2, LatticeFacts
    <3>4. pi[s] \in ArcIds(hg) /\ HeadOf(hg, pi[s]) = s
      BY <1>1, <3>1 DEF IInv, BestTreeTypeOK
    <3>5. QED
      BY <3>2, <3>3, <3>4
  <2>6. LeadsToStart
    BY <1>1, <2>1, <2>3, RelaxationHasNoCycle
  <2>7. QED
    BY <2>2, <2>4, <2>5, <2>6
<1>2. IInv /\ AcyclicInv => AcyclicIsExact
  BY <1>1 DEF AcyclicIsExact
<1>3. QED
  BY <1>2, AcyclicInvariance, PTL
=============================================================================
