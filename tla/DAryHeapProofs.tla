--------------------------- MODULE DAryHeapProofs ---------------------------
(* Facts about the operations of DAryHeap, for any arity, any keys and any
   distances: what each of them does to the order of the keys, to the map of places
   and to the set of the keys.  They are what the proofs about the searches rest
   on. *)
EXTENDS DAryHeap, SequenceTheorems, WellFoundedInduction, TLAPS

-----------------------------------------------------------------------------
(* Induction over the natural numbers, stated of sets instead of predicates, and
   what it gives for definitions by recursion *)

LEMMA LeastNatural ==
  ASSUME NEW T \in SUBSET Nat, T # {}
  PROVE  \E m \in T : \A k \in T : m <= k
<1>. DEFINE R == OpToRel(<, Nat)
<1>1. IsWellFoundedOn(R, Nat)
  BY NatLessThanWellFounded
<1>2. \A k, m \in Nat : <<k, m>> \in R <=> k < m
  BY DEF OpToRel
<1>. HIDE DEF R
<1>3. PICK m \in T : \A k \in T : ~(<<k, m>> \in R)
  BY <1>1, WFMin
<1>4. ASSUME NEW k \in T
      PROVE  m <= k
  <2>1. ~(k < m)
    BY <1>2, <1>3
  <2>2. QED
    BY <2>1
<1>5. QED
  BY <1>4

LEMMA InductionUpTo ==
  ASSUME NEW n \in Nat, NEW S, 0 \in S, \A k \in 0 .. n - 1 : k \in S => k + 1 \in S
  PROVE  0 .. n \subseteq S
<1>. SUFFICES ASSUME (0 .. n) \ S # {} PROVE FALSE
  OBVIOUS
<1>. DEFINE Missing == (0 .. n) \ S
<1>0. Missing \in SUBSET Nat /\ Missing # {}
  OBVIOUS
<1>. HIDE DEF Missing
<1>1. PICK m \in Missing : \A k \in Missing : m <= k
  BY <1>0, LeastNatural
<1>. USE DEF Missing
<1>2. m - 1 \in 0 .. n - 1 /\ m - 1 \in S
  BY <1>1
<1>3. QED
  BY <1>1, <1>2

LEMMA Induction ==
  ASSUME NEW S, 0 \in S, \A k \in Nat : k \in S => k + 1 \in S
  PROVE  Nat \subseteq S
<1>1. ASSUME NEW n \in Nat
      PROVE  n \in S
  BY InductionUpTo
<1>2. QED
  BY <1>1

LEMMA StrongInduction ==
  ASSUME NEW S, \A n \in Nat : (\A k \in Nat : k < n => k \in S) => n \in S
  PROVE  Nat \subseteq S
<1>. SUFFICES ASSUME ~(Nat \subseteq S) PROVE FALSE
  OBVIOUS
<1>. DEFINE Missing == Nat \ S
<1>1. Missing \in SUBSET Nat /\ Missing # {}
  OBVIOUS
<1>. HIDE DEF Missing
<1>2. PICK m \in Missing : \A k \in Missing : m <= k
  BY <1>1, LeastNatural
<1>3. m \in Nat /\ m \notin S
  BY DEF Missing
<1>4. ASSUME NEW k \in Nat, k < m
      PROVE  k \in S
  BY <1>2, <1>3, <1>4 DEF Missing
<1>5. QED
  BY <1>3, <1>4

(* A definition by recursion on D: the value at k is base[k] if k is one of the
   stops, and otherwise made by step of k and the value at prior[k], which is
   lower in rank. *)
IsRecursion(D, V, N, rank, stops, base, prior, step) ==
  /\ N \in Nat
  /\ rank \in [D -> 0 .. N]
  /\ base \in [D -> V]
  /\ prior \in [D -> D]
  /\ step \in [D \X V -> V]
  /\ \A k \in D : k \notin stops => rank[prior[k]] < rank[k]

LEMMA RecursionExists ==
  ASSUME NEW D, NEW V, NEW N, NEW rank, NEW stops, NEW base, NEW prior, NEW step,
         IsRecursion(D, V, N, rank, stops, base, prior, step)
  PROVE  \E g \in [D -> V] :
           \A k \in D : g[k] = IF k \in stops THEN base[k] ELSE step[<<k, g[prior[k]]>>]
<1>. USE DEF IsRecursion
<1>. DEFINE At(g, k) == g[k] = IF k \in stops THEN base[k] ELSE step[<<k, g[prior[k]]>>]
            S == {n \in Nat : \E g \in [D -> V] : \A k \in D : rank[k] < n => At(g, k)}
<1>1. 0 \in S
  <2>1. \A k \in D : rank[k] \in 0 .. N /\ ~(rank[k] < 0)
    OBVIOUS
  <2>2. QED
    BY <2>1
<1>2. ASSUME NEW n \in Nat, n \in S
      PROVE  n + 1 \in S
  <2>1. PICK g \in [D -> V] : \A k \in D : rank[k] < n => At(g, k)
    BY <1>2
  <2>. DEFINE h == [k \in D |-> IF rank[k] < n THEN g[k]
                               ELSE IF k \in stops THEN base[k] ELSE step[<<k, g[prior[k]]>>]]
  <2>2. h \in [D -> V]
    OBVIOUS
  <2>3. ASSUME NEW k \in D, rank[k] < n + 1
        PROVE  At(h, k)
    <3>1. rank[k] \in Nat /\ prior[k] \in D /\ rank[prior[k]] \in Nat
      OBVIOUS
    <3>2. CASE k \in stops
      BY <2>1, <3>2
    <3>3. CASE k \notin stops
      <4>1. rank[prior[k]] < n
        BY <2>3, <3>1, <3>3
      <4>2. h[prior[k]] = g[prior[k]]
        BY <3>1, <4>1
      <4>3. h[k] = step[<<k, g[prior[k]]>>]
        BY <2>1, <3>3
      <4>4. QED
        BY <3>3, <4>2, <4>3
    <3>4. QED
      BY <3>2, <3>3
  <2>. HIDE DEF At, h
  <2>4. n + 1 \in Nat /\ \E f \in [D -> V] : \A k \in D : rank[k] < n + 1 => At(f, k)
    BY <2>2, <2>3
  <2>5. QED
    BY <2>4
<1>. HIDE DEF S
<1>3. N + 1 \in S
  BY <1>1, <1>2, Induction
<1>. HIDE DEF At
<1>. USE DEF S
<1>4. PICK g \in [D -> V] : \A k \in D : rank[k] < N + 1 => At(g, k)
  BY <1>3
<1>5. \A k \in D : rank[k] < N + 1
  OBVIOUS
<1>6. \A k \in D : At(g, k)
  BY <1>4, <1>5
<1>7. QED
  BY <1>6 DEF At

(* What a loop computes: whatever holds of where it starts, is kept from k to
   next[k] and gives Post where the loop stops. *)
IsLoop(D, rank, stops, base, next, loop, Inv, Post) ==
  /\ rank \in [D -> Nat]
  /\ \A k \in D : loop[k] = IF k \in stops THEN base[k] ELSE loop[next[k]]
  /\ Inv \subseteq D
  /\ \A k \in Inv : k \in stops => base[k] \in Post
  /\ \A k \in Inv : k \notin stops => next[k] \in Inv /\ rank[next[k]] < rank[k]

LEMMA LoopEnds ==
  ASSUME NEW D, NEW rank, NEW stops, NEW base, NEW next, NEW loop, NEW Inv, NEW Post,
         IsLoop(D, rank, stops, base, next, loop, Inv, Post)
  PROVE  \A k \in Inv : loop[k] \in Post
<1>. USE DEF IsLoop
<1>. DEFINE S == {n \in Nat : \A k \in Inv : rank[k] = n => loop[k] \in Post}
<1>1. ASSUME NEW n \in Nat, \A m \in Nat : m < n => m \in S
      PROVE  n \in S
  <2>. SUFFICES ASSUME NEW k \in Inv, rank[k] = n PROVE loop[k] \in Post
    OBVIOUS
  <2>1. CASE k \in stops
    BY <2>1
  <2>2. CASE k \notin stops
    <3>1. next[k] \in Inv /\ rank[next[k]] < n /\ rank[next[k]] \in Nat
      BY <2>2
    <3>2. loop[next[k]] \in Post
      BY <1>1, <3>1
    <3>3. loop[k] = loop[next[k]]
      BY <2>2
    <3>4. QED
      BY <3>2, <3>3
  <2>3. QED
    BY <2>1, <2>2
<1>. HIDE DEF S
<1>2. Nat \subseteq S
  BY <1>1, StrongInduction
<1>. USE DEF S
<1>3. QED
  BY <1>2
(* A loop that counts from 1 to N, with step of the count and the value before,
   has a value after each turn; what holds at the start and is kept by every turn
   holds of all of them. *)
IsCount(V, N, start, step) == N \in Nat /\ start \in V /\ step \in [(1 .. N) \X V -> V]

LEMMA ForExists ==
  ASSUME NEW V, NEW N, NEW start, NEW step, IsCount(V, N, start, step)
  PROVE  \E f \in [0 .. N -> V] :
           f[0] = start /\ \A i \in 1 .. N : f[i] = step[<<i, f[i - 1]>>]
<1>. USE DEF IsCount
<1>. DEFINE D == 0 .. N
            rank == [i \in D |-> i]
            base == [i \in D |-> start]
            prior == [i \in D |-> IF i = 0 THEN 0 ELSE i - 1]
            turn == [x \in D \X V |-> IF x[1] = 0 THEN start ELSE step[<<x[1], x[2]>>]]
<1>1. rank \in [D -> 0 .. N] /\ base \in [D -> V] /\ prior \in [D -> D]
  OBVIOUS
<1>2. turn \in [D \X V -> V]
  <2>1. \A i \in D : i = 0 \/ i \in 1 .. N
    OBVIOUS
  <2>2. QED
    BY <2>1
<1>3. \A i \in D : i \notin {0} => rank[prior[i]] < rank[i]
  OBVIOUS
<1>4. IsRecursion(D, V, N, rank, {0}, base, prior, turn)
  BY <1>1, <1>2, <1>3 DEF IsRecursion
<1>5. /\ 0 \in D /\ base[0] = start
      /\ \A i \in 1 .. N : i \in D /\ i \notin {0} /\ prior[i] = i - 1 /\ i - 1 \in D
      /\ \A i \in 1 .. N : \A v \in V : turn[<<i, v>>] = step[<<i, v>>]
  OBVIOUS
<1>. HIDE DEF D, rank, base, prior, turn
<1>6. PICK f \in [D -> V] :
        \A i \in D : f[i] = IF i \in {0} THEN base[i] ELSE turn[<<i, f[prior[i]]>>]
  BY <1>4, RecursionExists
<1>7. f[0] = start
  BY <1>5, <1>6
<1>8. ASSUME NEW i \in 1 .. N
      PROVE  f[i] = step[<<i, f[i - 1]>>]
  <2>1. /\ i \in D /\ i \notin {0} /\ prior[i] = i - 1 /\ i - 1 \in D
        /\ \A v \in V : turn[<<i, v>>] = step[<<i, v>>]
    BY <1>5
  <2>2. f[i] = turn[<<i, f[i - 1]>>]
    BY <1>6, <2>1
  <2>3. f[i - 1] \in V
    BY <2>1
  <2>4. QED
    BY <2>1, <2>2, <2>3
<1>9. QED
  BY <1>6, <1>7, <1>8 DEF D

LEMMA ForKeeps ==
  ASSUME NEW N \in Nat, NEW f, NEW Inv,
         f[0] \in Inv[0],
         \A i \in 1 .. N : f[i - 1] \in Inv[i - 1] => f[i] \in Inv[i]
  PROVE  \A i \in 0 .. N : f[i] \in Inv[i]
<1>. DEFINE S == {i \in Nat : f[i] \in Inv[i]}
<1>1. 0 \in S
  OBVIOUS
<1>2. ASSUME NEW k \in 0 .. N - 1, k \in S
      PROVE  k + 1 \in S
  <2>1. k + 1 \in 1 .. N /\ (k + 1) - 1 = k
    OBVIOUS
  <2>2. QED
    BY <1>2, <2>1
<1>3. 0 .. N \subseteq S
  <2>. HIDE DEF S
  <2>1. QED
    BY <1>1, <1>2, InductionUpTo
<1>4. QED
  BY <1>3

-----------------------------------------------------------------------------
(* Heaps *)

Heaps(keys) == [data : Seq(keys), loc : [keys -> Int]]
HeapsOfSize(keys, n) == {h \in Heaps(keys) : Size(h) = n}

(* Every key is there once and has a place in the map, if not always its own *)
IsPlaced(heap) ==
  KeysDiffer(heap) /\ \A k \in KeysOf(heap) : heap.loc[k] \in Nat

LEMMA AgreeingIsPlaced ==
  ASSUME NEW heap, PlacesAgree(heap), Size(heap) \in Nat
  PROVE  IsPlaced(heap)
BY DEF IsPlaced, PlacesAgree, KeysDiffer, KeysOf, Places

-----------------------------------------------------------------------------
(* Places *)

LEMMA ProductIsMonotonic ==
  ASSUME NEW a \in Nat, NEW b \in Nat, NEW c \in Nat, a <= b
  PROVE  a * c <= b * c /\ a * c \in Nat /\ b * c \in Nat
<1>1. PICK d \in Nat : b = a + d
  OBVIOUS
<1>2. b * c = (a * c) + (d * c)
  BY <1>1
<1>3. a * c \in Nat /\ d * c \in Nat
  OBVIOUS
<1>4. QED
  BY <1>2, <1>3

LEMMA ParentIsBelow ==
  ASSUME NEW i \in Nat \ {0}
  PROVE  /\ Parent(i) \in 0 .. i - 1
         /\ Parent(i) * Arity <= i - 1
         /\ i - 1 < (Parent(i) * Arity) + Arity
<1>1. Arity \in Nat /\ Arity >= 2
  BY ArityAssumption
<1>2. ASSUME NEW n \in Nat, NEW p \in Nat \ {0}
      PROVE  /\ n \div p \in Nat
             /\ (n \div p) * p <= n
             /\ n < ((n \div p) * p) + p
  OBVIOUS
<1>3. Parent(i) = (i - 1) \div Arity
  BY DEF Parent
<1>4. /\ Parent(i) \in Nat
      /\ Parent(i) * Arity <= i - 1
      /\ i - 1 < (Parent(i) * Arity) + Arity
  BY <1>1, <1>2, <1>3
<1>5. Parent(i) <= Parent(i) * Arity
  <2>1. PICK d \in Nat : Arity = 1 + d
    BY <1>1
  <2>2. Parent(i) * Arity = Parent(i) + (Parent(i) * d) /\ Parent(i) * d \in Nat
    BY <1>4, <2>1
  <2>3. QED
    BY <1>4, <2>2
<1>6. Parent(i) * Arity \in Nat
  BY <1>1, <1>4
<1>. HIDE DEF Parent
<1>7. QED
  BY <1>4, <1>5, <1>6

(* The children of a place are the places whose parent it is. *)
LEMMA ChildrenAre ==
  ASSUME NEW heap, Size(heap) \in Nat, NEW i \in Nat, NEW c
  PROVE  c \in Children(heap, i) <=> c \in 1 .. Size(heap) - 1 /\ Parent(c) = i
<1>0. Arity \in Nat /\ Arity >= 2
  BY ArityAssumption
<1>1. ASSUME c \in Children(heap, i)
      PROVE  c \in 1 .. Size(heap) - 1 /\ Parent(c) = i
  <2>0. i * Arity \in Nat
    BY <1>0
  <2>1. /\ c \in 1 .. Size(heap) - 1
        /\ i * Arity <= c - 1
        /\ c - 1 < (i * Arity) + Arity
    BY <1>0, <1>1, <2>0 DEF Children
  <2>2. /\ Parent(c) \in Nat
        /\ Parent(c) * Arity <= c - 1
        /\ c - 1 < (Parent(c) * Arity) + Arity
    BY <2>1, ParentIsBelow
  <2>3. ASSUME NEW j \in Nat, NEW k \in Nat, j < k,
               k * Arity <= c - 1, c - 1 < (j * Arity) + Arity
        PROVE  FALSE
    <3>1. (j + 1) * Arity = (j * Arity) + Arity
      BY <1>0
    <3>2. (j + 1) * Arity <= k * Arity /\ k * Arity \in Nat /\ j * Arity \in Nat
      BY <1>0, <2>3, ProductIsMonotonic
    <3>3. QED
      BY <1>0, <2>1, <2>3, <3>1, <3>2
  <2>4. ~(Parent(c) < i)
    BY <2>1, <2>2, <2>3
  <2>5. ~(i < Parent(c))
    BY <2>1, <2>2, <2>3
  <2>6. QED
    BY <2>1, <2>2, <2>4, <2>5
<1>2. ASSUME c \in 1 .. Size(heap) - 1, Parent(c) = i
      PROVE  c \in Children(heap, i)
  <2>1. i * Arity <= c - 1 /\ c - 1 < (i * Arity) + Arity /\ i * Arity \in Nat
    BY <1>0, <1>2, ParentIsBelow
  <2>2. QED
    BY <1>0, <1>2, <2>1 DEF Children
<1>3. QED
  BY <1>1, <1>2

LEMMA ChildIsAbove ==
  ASSUME NEW keys, NEW heap \in Heaps(keys), NEW hole \in Places(heap),
         NEW c \in Children(heap, hole)
  PROVE  c \in Places(heap) /\ c \in 1 .. Size(heap) - 1 /\ Parent(c) = hole /\ hole < c
<1>1. Size(heap) \in Nat /\ hole \in Nat
  BY DEF Heaps, Size, Places
<1>2. c \in 1 .. Size(heap) - 1 /\ Parent(c) = hole
  BY <1>1, ChildrenAre
<1>3. c \in Nat \ {0} /\ Parent(c) \in 0 .. c - 1
  BY <1>1, <1>2, ParentIsBelow
<1>4. QED
  BY <1>1, <1>2, <1>3 DEF Places

LEMMA PutFacts ==
  ASSUME NEW keys, NEW heap \in Heaps(keys), NEW i \in Places(heap), NEW key \in keys
  PROVE  /\ Put(heap, i, key) \in Heaps(keys)
         /\ Size(Put(heap, i, key)) = Size(heap)
         /\ KeyAt(Put(heap, i, key), i) = key
         /\ \A j \in Places(heap) \ {i} : KeyAt(Put(heap, i, key), j) = KeyAt(heap, j)
         /\ Put(heap, i, key).loc[key] = i
         /\ \A k \in keys \ {key} : Put(heap, i, key).loc[k] = heap.loc[k]
<1>1. /\ heap.data \in Seq(keys) /\ heap.loc \in [keys -> Int]
      /\ i + 1 \in 1 .. Len(heap.data) /\ i \in Int
      /\ heap = [data |-> heap.data, loc |-> heap.loc]
  BY DEF Heaps, Places, Size
<1>2. Put(heap, i, key) = [data |-> [heap.data EXCEPT ![i + 1] = key],
                           loc |-> [heap.loc EXCEPT ![key] = i]]
  BY <1>1 DEF Put, Heaps
<1>3. /\ [heap.data EXCEPT ![i + 1] = key] \in Seq(keys)
      /\ Len([heap.data EXCEPT ![i + 1] = key]) = Len(heap.data)
      /\ \A j \in 1 .. Len(heap.data) :
           [heap.data EXCEPT ![i + 1] = key][j] = IF j = i + 1 THEN key ELSE heap.data[j]
  BY <1>1
<1>4. [heap.loc EXCEPT ![key] = i] \in [keys -> Int]
  BY <1>1
<1>5. \A j \in Places(heap) : j + 1 \in 1 .. Len(heap.data)
  BY <1>1 DEF Places, Size
<1>6. Put(heap, i, key) \in Heaps(keys) /\ Size(Put(heap, i, key)) = Size(heap)
  BY <1>2, <1>3, <1>4 DEF Heaps, Size
<1>7. \A j \in Places(heap) :
        KeyAt(Put(heap, i, key), j) = IF j = i THEN key ELSE KeyAt(heap, j)
  BY <1>2, <1>3, <1>5 DEF KeyAt, Places
<1>8. \A k \in keys : Put(heap, i, key).loc[k] = IF k = key THEN i ELSE heap.loc[k]
  BY <1>1, <1>2
<1>9. QED
  BY <1>6, <1>7, <1>8

LEMMA KeyAtType ==
  ASSUME NEW keys, NEW heap \in Heaps(keys)
  PROVE  Size(heap) \in Nat /\ \A i \in Places(heap) : KeyAt(heap, i) \in keys
BY DEF Heaps, Size, Places, KeyAt

(* The top is the best key. *)
LEMMA TopIsBest ==
  ASSUME NEW keys, NEW heap \in Heaps(keys), NEW dist \in [keys -> Int],
         IsHeap(heap, dist)
  PROVE  \A i \in Places(heap) : dist[Top(heap)] <= dist[KeyAt(heap, i)]
<1>. DEFINE S == {n \in Nat : n \in Places(heap) => dist[Top(heap)] <= dist[KeyAt(heap, n)]}
<1>0. Size(heap) \in Nat
  BY KeyAtType
<1>1. ASSUME NEW n \in Nat, \A k \in Nat : k < n => k \in S
      PROVE  n \in S
  <2>. SUFFICES ASSUME n \in Places(heap) PROVE dist[Top(heap)] <= dist[KeyAt(heap, n)]
    OBVIOUS
  <2>1. CASE n = 0
    <3>1. KeyAt(heap, n) \in keys
      BY KeyAtType
    <3>2. QED
      BY <2>1, <3>1 DEF Top
  <2>2. CASE n # 0
    <3>1. Parent(n) \in Nat /\ Parent(n) < n
      BY <2>2, ParentIsBelow
    <3>2. Parent(n) \in Places(heap) /\ 0 \in Places(heap) /\ n \in 1 .. Size(heap) - 1
      BY <1>0, <2>2, <3>1 DEF Places
    <3>3. dist[KeyAt(heap, Parent(n))] <= dist[KeyAt(heap, n)]
      BY <3>2 DEF IsHeap
    <3>4. dist[Top(heap)] <= dist[KeyAt(heap, Parent(n))]
      BY <1>1, <3>1, <3>2
    <3>5. /\ dist[Top(heap)] \in Int /\ dist[KeyAt(heap, Parent(n))] \in Int
          /\ dist[KeyAt(heap, n)] \in Int
      BY <3>2, KeyAtType DEF Top, Places
    <3>6. QED
      BY <3>3, <3>4, <3>5
  <2>3. QED
    BY <2>1, <2>2
<1>. HIDE DEF S
<1>2. Nat \subseteq S
  BY <1>1, StrongInduction
<1>. USE DEF S
<1>3. QED
  BY <1>2 DEF Places
-----------------------------------------------------------------------------
(* A heap with a hole: its keys are those at the other places and the one that
   will fill the hole. *)

Others(heap, hole) == {KeyAt(heap, i) : i \in Places(heap) \ {hole}}

IsHole(heap, hole, key) ==
  \A i \in Places(heap) \ {hole} :
    /\ KeyAt(heap, i) # key /\ heap.loc[KeyAt(heap, i)] \in Nat
    /\ \A j \in Places(heap) \ {hole} : KeyAt(heap, i) = KeyAt(heap, j) => i = j

LocKept(heap, old, changed) == \A k \in DOMAIN old.loc : k \notin changed => heap.loc[k] = old.loc[k]

(* The key at another place moves to the hole. *)
LEMMA HoleMoves ==
  ASSUME NEW keys, NEW heap \in Heaps(keys), NEW key \in keys,
         NEW hole \in Places(heap), NEW i \in Places(heap), i # hole,
         IsHole(heap, hole, key),
         NEW moved, moved = Put(heap, hole, KeyAt(heap, i))
  PROVE  /\ moved \in Heaps(keys) /\ Size(moved) = Size(heap)
         /\ KeyAt(moved, hole) = KeyAt(heap, i)
         /\ \A j \in Places(heap) \ {hole} : KeyAt(moved, j) = KeyAt(heap, j)
         /\ IsHole(moved, i, key)
         /\ Others(moved, i) = Others(heap, hole)
         /\ LocKept(moved, heap, Others(heap, hole))
<1>0. KeyAt(heap, i) \in keys /\ KeyAt(heap, i) \in Others(heap, hole)
  BY KeyAtType DEF Others
<1>1. /\ moved \in Heaps(keys) /\ Size(moved) = Size(heap)
      /\ KeyAt(moved, hole) = KeyAt(heap, i)
      /\ \A j \in Places(heap) \ {hole} : KeyAt(moved, j) = KeyAt(heap, j)
      /\ moved.loc[KeyAt(heap, i)] = hole
      /\ \A k \in keys \ {KeyAt(heap, i)} : moved.loc[k] = heap.loc[k]
  BY <1>0, PutFacts
<1>2. Places(moved) = Places(heap)
  BY <1>1 DEF Places
<1>3. ASSUME NEW j \in Places(heap), j # i
      PROVE  /\ KeyAt(moved, j) # key /\ moved.loc[KeyAt(moved, j)] \in Nat
             /\ j # hole => KeyAt(moved, j) # KeyAt(heap, i)
  <2>1. CASE j = hole
    <3>1. hole \in Nat
      BY KeyAtType DEF Places
    <3>2. QED
      BY <1>1, <2>1, <3>1 DEF IsHole
  <2>2. CASE j # hole
    <3>1. KeyAt(moved, j) = KeyAt(heap, j) /\ KeyAt(heap, j) \in keys
      BY <1>1, <2>2, KeyAtType
    <3>2. KeyAt(heap, j) # KeyAt(heap, i)
      BY <1>3, <2>2 DEF IsHole
    <3>3. QED
      BY <1>1, <2>2, <3>1, <3>2 DEF IsHole
  <2>3. QED
    BY <2>1, <2>2
<1>3a. ASSUME NEW j \in Places(heap) \ {i}, NEW l \in Places(heap) \ {i},
              KeyAt(moved, j) = KeyAt(moved, l)
       PROVE  j = l
  BY <1>1, <1>3, <1>3a DEF IsHole
<1>4. IsHole(moved, i, key)
  BY <1>2, <1>3, <1>3a DEF IsHole
<1>5. Others(moved, i) = Others(heap, hole)
  <2>1. ASSUME NEW k \in Others(moved, i) PROVE k \in Others(heap, hole)
    BY <1>0, <1>1, <1>2 DEF Others
  <2>2. ASSUME NEW k \in Others(heap, hole) PROVE k \in Others(moved, i)
    <3>1. PICK j \in Places(heap) \ {hole} : k = KeyAt(heap, j)
      BY DEF Others
    <3>2. CASE j = i
      BY <1>1, <1>2, <3>1, <3>2 DEF Others
    <3>3. CASE j # i
      BY <1>1, <1>2, <3>1, <3>3 DEF Others
    <3>4. QED
      BY <3>2, <3>3
  <2>3. QED
    BY <2>1, <2>2
<1>6. DOMAIN heap.loc = keys
  BY DEF Heaps
<1>7. LocKept(moved, heap, Others(heap, hole))
  BY <1>0, <1>1, <1>6 DEF LocKept
<1>8. QED
  BY <1>1, <1>4, <1>5, <1>7

LEMMA HoleIsFilled ==
  ASSUME NEW keys, NEW heap \in Heaps(keys), NEW key \in keys,
         NEW hole \in Places(heap), IsHole(heap, hole, key),
         NEW filled, filled = Put(heap, hole, key)
  PROVE  /\ filled \in Heaps(keys) /\ Size(filled) = Size(heap)
         /\ KeyAt(filled, hole) = key
         /\ \A j \in Places(heap) \ {hole} : KeyAt(filled, j) = KeyAt(heap, j)
         /\ IsPlaced(filled)
         /\ KeysOf(filled) = Others(heap, hole) \cup {key}
         /\ LocKept(filled, heap, Others(heap, hole) \cup {key})
<1>1. /\ filled \in Heaps(keys) /\ Size(filled) = Size(heap)
      /\ KeyAt(filled, hole) = key
      /\ \A j \in Places(heap) \ {hole} : KeyAt(filled, j) = KeyAt(heap, j)
      /\ filled.loc[key] = hole
      /\ \A k \in keys \ {key} : filled.loc[k] = heap.loc[k]
  BY PutFacts
<1>2. Places(filled) = Places(heap)
  BY <1>1 DEF Places
<1>3. ASSUME NEW j \in Places(heap)
      PROVE  filled.loc[KeyAt(filled, j)] \in Nat
  <2>1. CASE j = hole
    BY <1>1, <2>1, KeyAtType DEF Places
  <2>2. CASE j # hole
    BY <1>1, <2>2, KeyAtType DEF IsHole
  <2>3. QED
    BY <2>1, <2>2
<1>4. IsPlaced(filled)
  <2>1. KeysDiffer(filled)
    BY <1>1, <1>2 DEF KeysDiffer, IsHole
  <2>2. QED
    BY <1>2, <1>3, <2>1 DEF IsPlaced, KeysOf
<1>5. KeysOf(filled) = Others(heap, hole) \cup {key}
  <2>1. ASSUME NEW k \in KeysOf(filled) PROVE k \in Others(heap, hole) \cup {key}
    BY <1>1, <1>2 DEF Others, KeysOf
  <2>2. ASSUME NEW k \in Others(heap, hole) \cup {key} PROVE k \in KeysOf(filled)
    BY <1>1, <1>2 DEF Others, KeysOf
  <2>3. QED
    BY <2>1, <2>2
<1>6. LocKept(filled, heap, Others(heap, hole) \cup {key})
  BY <1>1 DEF LocKept, Heaps
<1>7. QED
  BY <1>1, <1>4, <1>5, <1>6

LEMMA LocKeptIsTransitive ==
  ASSUME NEW keys, NEW h1 \in Heaps(keys), NEW h2 \in Heaps(keys), NEW h3, NEW changed,
         LocKept(h2, h1, changed), LocKept(h3, h2, changed)
  PROVE  LocKept(h3, h1, changed)
BY DEF LocKept, Heaps
LEMMA LikeIsOfSize ==
  ASSUME NEW keys, NEW heap \in Heaps(keys)
  PROVE  HeapsLike(heap) = HeapsOfSize(keys, Size(heap))
<1>1. DOMAIN heap.data = 1 .. Size(heap) /\ Size(heap) \in Nat /\ DOMAIN heap.loc = keys
  BY DEF Heaps, Size
<1>2. ASSUME NEW h \in HeapsLike(heap) PROVE h \in HeapsOfSize(keys, Size(heap))
  <2>1. h.data \in Seq(keys) /\ Len(h.data) = Size(heap)
    BY <1>1, <1>2 DEF HeapsLike
  <2>2. QED
    BY <1>1, <1>2, <2>1 DEF HeapsLike, HeapsOfSize, Heaps, Size
<1>3. ASSUME NEW h \in HeapsOfSize(keys, Size(heap)) PROVE h \in HeapsLike(heap)
  BY <1>1, <1>3 DEF HeapsLike, HeapsOfSize, Heaps, Size
<1>4. QED
  BY <1>2, <1>3

-----------------------------------------------------------------------------
(* Up *)

IsWorse(at, key, dist) == at[2] > 0 /\ dist[key] < dist[KeyAt(at[1], Parent(at[2]))]

LEMMA UpIsLoop ==
  ASSUME NEW keys, NEW heap \in Heaps(keys), NEW key \in keys, NEW i \in Places(heap),
         NEW dist
  PROVE  \E up :
           /\ Up(heap, key, i, dist) = up[<<heap, i>>]
           /\ \A at \in WithHole(heap) :
                up[at] = IF IsWorse(at, key, dist)
                           THEN up[<<Put(at[1], at[2], KeyAt(at[1], Parent(at[2]))), Parent(at[2])>>]
                           ELSE Put(at[1], at[2], key)
<1>. DEFINE D == WithHole(heap)
            V == HeapsLike(heap)
            stops == {at \in D : ~IsWorse(at, key, dist)}
            base == [at \in D |-> Put(at[1], at[2], key)]
            Moved(at) == <<Put(at[1], at[2], KeyAt(at[1], Parent(at[2]))), Parent(at[2])>>
            prior == [at \in D |-> IF at \in stops THEN at ELSE Moved(at)]
            rank == [at \in D |-> at[2]]
            step == [x \in D \X V |-> x[2]]
            IsUp(f) == f = [at \in D |-> IF IsWorse(at, key, dist) THEN f[Moved(at)]
                                                  ELSE Put(at[1], at[2], key)]
<1>1. V = HeapsOfSize(keys, Size(heap)) /\ Size(heap) \in Nat
  BY LikeIsOfSize, KeyAtType
<1>2. ASSUME NEW at \in D
      PROVE  /\ at[1] \in Heaps(keys) /\ Size(at[1]) = Size(heap)
             /\ at[2] \in Places(heap) /\ at[2] \in Places(at[1]) /\ at[2] \in 0 .. Size(heap)
             /\ at = <<at[1], at[2]>>
  BY <1>1 DEF WithHole, HeapsOfSize, Places
<1>3. ASSUME NEW at \in D
      PROVE  Put(at[1], at[2], key) \in V
  BY <1>1, <1>2, PutFacts DEF HeapsOfSize
<1>4. ASSUME NEW at \in D, at \notin stops
      PROVE  Moved(at) \in D /\ Parent(at[2]) < at[2]
  <2>1. at[2] \in Nat \ {0} /\ Parent(at[2]) \in 0 .. at[2] - 1
    BY <1>1, <1>2, <1>4, ParentIsBelow DEF IsWorse, Places
  <2>2. Parent(at[2]) \in Places(heap) /\ Parent(at[2]) \in Places(at[1])
    BY <1>1, <1>2, <2>1 DEF Places
  <2>3. KeyAt(at[1], Parent(at[2])) \in keys
    BY <1>2, <2>2, KeyAtType
  <2>4. Put(at[1], at[2], KeyAt(at[1], Parent(at[2]))) \in V
    BY <1>1, <1>2, <2>3, PutFacts DEF HeapsOfSize
  <2>5. QED
    BY <2>1, <2>2, <2>4 DEF WithHole, Places
<1>5. rank \in [D -> 0 .. Size(heap)] /\ base \in [D -> V]
  BY <1>2, <1>3
<1>6. prior \in [D -> D]
  BY <1>4
<1>7. step \in [D \X V -> V]
  OBVIOUS
<1>8. \A at \in D : at \notin stops => rank[prior[at]] < rank[at]
  BY <1>4
<1>9. IsRecursion(D, V, Size(heap), rank, stops, base, prior, step)
  BY <1>1, <1>5, <1>6, <1>7, <1>8 DEF IsRecursion
<1>10. \A at \in D : /\ at \in stops <=> ~IsWorse(at, key, dist)
                     /\ at \in stops => base[at] = Put(at[1], at[2], key)
                     /\ at \notin stops => prior[at] = Moved(at)
                     /\ prior[at] \in D
  BY <1>6
<1>11. \A at \in D, h \in V : step[<<at, h>>] = h
  OBVIOUS
<1>12. Up(heap, key, i, dist) = (CHOOSE f : IsUp(f))[<<heap, i>>]
  BY Zenon DEF Up, IsWorse
<1>. HIDE DEF D, V, stops, base, prior, rank, step, Moved
<1>13. PICK g \in [D -> V] :
         \A at \in D : g[at] = IF at \in stops THEN base[at] ELSE step[<<at, g[prior[at]]>>]
  BY <1>9, RecursionExists
<1>14. ASSUME NEW at \in D
      PROVE  g[at] = IF IsWorse(at, key, dist) THEN g[Moved(at)] ELSE Put(at[1], at[2], key)
  <2>1. CASE at \in stops
    BY <1>10, <1>13, <2>1
  <2>2. CASE at \notin stops
    <3>1. g[at] = step[<<at, g[prior[at]]>>] /\ g[prior[at]] \in V
      BY <1>10, <1>13, <2>2
    <3>2. g[at] = g[prior[at]]
      BY <1>11, <3>1
    <3>3. QED
      BY <1>10, <2>2, <3>2
  <2>3. QED
    BY <2>1, <2>2
<1>15. IsUp(g)
  BY <1>14
<1>. HIDE DEF IsUp
<1>16. IsUp(CHOOSE f : IsUp(f))
  BY <1>15
<1>. DEFINE up == CHOOSE f : IsUp(f)
<1>. HIDE DEF up
<1>17. IsUp(up)
  BY <1>16 DEF up
<1>. USE DEF IsUp
<1>18. \A at \in D : up[at] = IF IsWorse(at, key, dist) THEN up[Moved(at)] ELSE Put(at[1], at[2], key)
  BY <1>17
<1>19. Up(heap, key, i, dist) = up[<<heap, i>>]
  BY <1>12 DEF up
<1>. USE DEF D, Moved
<1>20. QED
  BY <1>18, <1>19
(* The order around a hole that moves up: the key that will fill it and its
   parent are no worse than the keys below it. *)
OrderAwayFrom(heap, hole, dist) ==
  \A i \in 1 .. Size(heap) - 1 :
    i # hole /\ Parent(i) # hole => dist[KeyAt(heap, Parent(i))] <= dist[KeyAt(heap, i)]
ParentFits(heap, hole, dist) ==
  \A i \in 1 .. Size(heap) - 1 :
    hole > 0 /\ Parent(i) = hole => dist[KeyAt(heap, Parent(hole))] <= dist[KeyAt(heap, i)]
FitsAbove(heap, hole, key, dist) ==
  \A i \in 1 .. Size(heap) - 1 : Parent(i) = hole => dist[key] <= dist[KeyAt(heap, i)]
FitsBelow(heap, hole, key, dist) ==
  hole > 0 => dist[KeyAt(heap, Parent(hole))] <= dist[key]

LEMMA UpStep ==
  ASSUME NEW keys, NEW heap \in Heaps(keys), NEW key \in keys, NEW dist \in [keys -> Int],
         NEW hole \in Places(heap), IsHole(heap, hole, key),
         OrderAwayFrom(heap, hole, dist), ParentFits(heap, hole, dist),
         FitsAbove(heap, hole, key, dist),
         hole > 0, dist[key] < dist[KeyAt(heap, Parent(hole))],
         NEW moved, moved = Put(heap, hole, KeyAt(heap, Parent(hole)))
  PROVE  /\ Parent(hole) \in Places(heap) /\ Parent(hole) < hole
         /\ OrderAwayFrom(moved, Parent(hole), dist) /\ ParentFits(moved, Parent(hole), dist)
         /\ FitsAbove(moved, Parent(hole), key, dist)
<1>. DEFINE p == Parent(hole)
<1>0. Size(heap) \in Nat /\ \A i \in Places(heap) : KeyAt(heap, i) \in keys
  BY KeyAtType
<1>1. hole \in Nat \ {0} /\ p \in 0 .. hole - 1
  BY ParentIsBelow DEF Places
<1>2. p \in Places(heap) /\ p < hole /\ p # hole
  BY <1>0, <1>1 DEF Places
<1>. HIDE DEF p
<1>3. moved = Put(heap, hole, KeyAt(heap, p))
  BY DEF p
<1>4. /\ Size(moved) = Size(heap)
      /\ KeyAt(moved, hole) = KeyAt(heap, p)
      /\ \A i \in Places(heap) \ {hole} : KeyAt(moved, i) = KeyAt(heap, i)
  BY <1>2, <1>3, HoleMoves
<1>5. \A i \in 1 .. Size(heap) - 1 :
        i \in Places(heap) /\ Parent(i) \in Places(heap) /\ Parent(i) < i
  <2>1. \A i \in 1 .. Size(heap) - 1 : i \in Nat \ {0} /\ Parent(i) \in 0 .. i - 1
    BY <1>0, ParentIsBelow
  <2>2. QED
    BY <1>0, <2>1 DEF Places
<1>6. \A k \in keys : dist[k] \in Int
  OBVIOUS
<1>7. p > 0 => Parent(p) \in Places(heap) /\ Parent(p) < p /\ Parent(p) # hole
               /\ p \in 1 .. Size(heap) - 1
  <2>1. p > 0 => p \in 1 .. Size(heap) - 1
    BY <1>0, <1>2 DEF Places
  <2>2. QED
    BY <1>1, <1>5, <2>1 DEF Places
<1>8. ASSUME NEW i \in 1 .. Size(heap) - 1, i # p, Parent(i) # p
      PROVE  dist[KeyAt(moved, Parent(i))] <= dist[KeyAt(moved, i)]
  <2>1. i # hole
    BY <1>8 DEF p
  <2>2. KeyAt(moved, i) = KeyAt(heap, i)
    BY <1>4, <1>5, <2>1
  <2>3. CASE Parent(i) = hole
    <3>1. dist[KeyAt(heap, p)] <= dist[KeyAt(heap, i)]
      BY <2>3 DEF ParentFits, p
    <3>2. QED
      BY <1>4, <2>2, <2>3, <3>1
  <2>4. CASE Parent(i) # hole
    <3>1. dist[KeyAt(heap, Parent(i))] <= dist[KeyAt(heap, i)]
      BY <2>1, <2>4 DEF OrderAwayFrom
    <3>2. KeyAt(moved, Parent(i)) = KeyAt(heap, Parent(i))
      BY <1>4, <1>5, <2>4
    <3>3. QED
      BY <2>2, <3>1, <3>2
  <2>5. QED
    BY <2>3, <2>4
<1>9. ASSUME NEW i \in 1 .. Size(heap) - 1, Parent(i) = p
      PROVE  /\ dist[key] <= dist[KeyAt(moved, i)]
             /\ p > 0 => dist[KeyAt(moved, Parent(p))] <= dist[KeyAt(moved, i)]
  <2>1. dist[KeyAt(heap, p)] <= dist[KeyAt(moved, i)]
    <3>1. CASE i = hole
      BY <1>0, <1>2, <1>4, <1>6, <3>1
    <3>2. CASE i # hole
      <4>1. Parent(i) # hole
        BY <1>2, <1>9
      <4>2. dist[KeyAt(heap, p)] <= dist[KeyAt(heap, i)]
        BY <1>9, <3>2, <4>1 DEF OrderAwayFrom
      <4>3. QED
        BY <1>4, <1>5, <3>2, <4>2
    <3>3. QED
      BY <3>1, <3>2
  <2>2. KeyAt(moved, i) \in keys
    BY <1>0, <1>2, <1>4, <1>5
  <2>3. dist[key] <= dist[KeyAt(moved, i)]
    <3>1. dist[key] < dist[KeyAt(heap, p)]
      BY DEF p
    <3>2. QED
      BY <1>0, <1>2, <1>6, <2>1, <2>2, <3>1
  <2>4. ASSUME p > 0 PROVE dist[KeyAt(moved, Parent(p))] <= dist[KeyAt(moved, i)]
    <3>1. dist[KeyAt(heap, Parent(p))] <= dist[KeyAt(heap, p)]
      BY <1>2, <1>7, <2>4 DEF OrderAwayFrom
    <3>2. KeyAt(moved, Parent(p)) = KeyAt(heap, Parent(p)) /\ KeyAt(heap, Parent(p)) \in keys
      BY <1>0, <1>4, <1>7, <2>4
    <3>3. QED
      BY <1>0, <1>2, <1>6, <2>1, <2>2, <3>1, <3>2
  <2>5. QED
    BY <2>3, <2>4
<1>10. OrderAwayFrom(moved, p, dist)
  BY <1>4, <1>8 DEF OrderAwayFrom
<1>11. ParentFits(moved, p, dist) /\ FitsAbove(moved, p, key, dist)
  BY <1>4, <1>9 DEF ParentFits, FitsAbove
<1>12. QED
  BY <1>2, <1>10, <1>11 DEF p

(* The heap is in order once the hole is filled with a key that fits. *)
LEMMA FillOrder ==
  ASSUME NEW keys, NEW heap \in Heaps(keys), NEW key \in keys, NEW dist \in [keys -> Int],
         NEW hole \in Places(heap), IsHole(heap, hole, key),
         OrderAwayFrom(heap, hole, dist), FitsAbove(heap, hole, key, dist),
         FitsBelow(heap, hole, key, dist)
  PROVE  IsHeap(Put(heap, hole, key), dist)
<1>0. Size(heap) \in Nat
  BY KeyAtType
<1>. PICK filled : filled = Put(heap, hole, key)
  OBVIOUS
<1>1. /\ Size(filled) = Size(heap)
      /\ KeyAt(filled, hole) = key
      /\ \A i \in Places(heap) \ {hole} : KeyAt(filled, i) = KeyAt(heap, i)
  BY PutFacts
<1>2. ASSUME NEW i \in 1 .. Size(heap) - 1
      PROVE  dist[KeyAt(filled, Parent(i))] <= dist[KeyAt(filled, i)]
  <2>1. i \in Nat \ {0} /\ Parent(i) \in 0 .. i - 1
    BY <1>0, ParentIsBelow
  <2>2. i \in Places(heap) /\ Parent(i) \in Places(heap) /\ Parent(i) # i
    BY <1>0, <2>1 DEF Places
  <2>3. CASE i = hole
    <3>1. hole > 0
      BY <2>1, <2>3
    <3>2. QED
      BY <1>1, <2>2, <2>3, <3>1 DEF FitsBelow
  <2>4. CASE Parent(i) = hole
    BY <1>1, <2>2, <2>4 DEF FitsAbove
  <2>5. CASE i # hole /\ Parent(i) # hole
    <3>1. dist[KeyAt(heap, Parent(i))] <= dist[KeyAt(heap, i)]
      BY <2>5 DEF OrderAwayFrom
    <3>2. KeyAt(filled, i) = KeyAt(heap, i) /\ KeyAt(filled, Parent(i)) = KeyAt(heap, Parent(i))
      BY <1>1, <2>2, <2>5
    <3>3. QED
      BY <3>1, <3>2
  <2>6. QED
    BY <2>3, <2>4, <2>5
<1>3. QED
  BY <1>1, <1>2 DEF IsHeap

(* What sifting is for: a heap with the keys there are, each of them once, and no
   other key's place touched, which is in order if it was in order around the
   hole. *)
IsFilled(filled, heap, hole, key, keys) ==
  /\ filled \in Heaps(keys)
  /\ Size(filled) = Size(heap)
  /\ KeysOf(filled) = Others(heap, hole) \cup {key}
  /\ IsPlaced(filled)
  /\ LocKept(filled, heap, Others(heap, hole) \cup {key})

IsReadyForUp(heap, hole, key, dist) ==
  OrderAwayFrom(heap, hole, dist) /\ ParentFits(heap, hole, dist) /\ FitsAbove(heap, hole, key, dist)

LEMMA UpSifts ==
  ASSUME NEW keys, NEW heap \in Heaps(keys), NEW key \in keys, NEW dist \in [keys -> Int],
         NEW hole \in Places(heap), IsHole(heap, hole, key)
  PROVE  /\ IsFilled(Up(heap, key, hole, dist), heap, hole, key, keys)
         /\ IsReadyForUp(heap, hole, key, dist) => IsHeap(Up(heap, key, hole, dist), dist)
<1>. DEFINE D == WithHole(heap)
            all == Others(heap, hole)
            isReady == IsReadyForUp(heap, hole, key, dist)
            Moved(at) == <<Put(at[1], at[2], KeyAt(at[1], Parent(at[2]))), Parent(at[2])>>
            stops == {at \in D : ~IsWorse(at, key, dist)}
            base == [at \in D |-> Put(at[1], at[2], key)]
            next == [at \in D |-> Moved(at)]
            rank == [at \in D |-> at[2]]
            Inv == {at \in D : /\ IsHole(at[1], at[2], key)
                               /\ Others(at[1], at[2]) = all
                               /\ isReady => IsReadyForUp(at[1], at[2], key, dist)
                               /\ LocKept(at[1], heap, all)}
            Post == {r \in Heaps(keys) : /\ IsFilled(r, heap, hole, key, keys)
                                         /\ isReady => IsHeap(r, dist)}
<1>1. HeapsLike(heap) = HeapsOfSize(keys, Size(heap)) /\ Size(heap) \in Nat
  BY LikeIsOfSize, KeyAtType
<1>2. ASSUME NEW at \in D
      PROVE  /\ at[1] \in Heaps(keys) /\ Size(at[1]) = Size(heap)
             /\ at[2] \in Places(at[1]) /\ at[2] \in Nat
             /\ at = <<at[1], at[2]>>
  BY <1>1 DEF WithHole, HeapsOfSize, Places
<1>3. \A h \in Heaps(keys), j \in Places(heap) :
        Size(h) = Size(heap) => <<h, j>> \in D /\ Places(h) = Places(heap)
  BY <1>1 DEF WithHole, HeapsOfSize, Places
<1>4. PICK up :
        /\ Up(heap, key, hole, dist) = up[<<heap, hole>>]
        /\ \A at \in D : up[at] = IF IsWorse(at, key, dist) THEN up[Moved(at)]
                                                          ELSE Put(at[1], at[2], key)
  BY UpIsLoop
<1>5. \A at \in D : up[at] = IF at \in stops THEN base[at] ELSE up[next[at]]
  BY <1>4
<1>6. rank \in [D -> Nat]
  BY <1>2
<1>7. Inv \in SUBSET D
  OBVIOUS
<1>8. ASSUME NEW at \in Inv, at \in stops
      PROVE  base[at] \in Post
  <2>1. /\ at \in D /\ IsHole(at[1], at[2], key) /\ Others(at[1], at[2]) = all
        /\ isReady => IsReadyForUp(at[1], at[2], key, dist)
        /\ LocKept(at[1], heap, all) /\ ~IsWorse(at, key, dist)
    BY <1>8
  <2>2. FitsBelow(at[1], at[2], key, dist)
    <3>1. ASSUME at[2] > 0 PROVE dist[KeyAt(at[1], Parent(at[2]))] <= dist[key]
      <4>1. Parent(at[2]) \in 0 .. at[2] - 1 /\ at[2] \in Places(at[1])
        BY <1>2, <2>1, <3>1, ParentIsBelow
      <4>2. KeyAt(at[1], Parent(at[2])) \in keys
        BY <1>2, <2>1, <4>1, KeyAtType DEF Places
      <4>3. QED
        BY <2>1, <3>1, <4>2 DEF IsWorse
    <3>2. QED
      BY <3>1 DEF FitsBelow
  <2>. PICK filled : filled = Put(at[1], at[2], key)
    OBVIOUS
  <2>3. isReady => IsHeap(filled, dist)
    BY <1>2, <2>1, <2>2, FillOrder DEF IsReadyForUp
  <2>4. /\ filled \in Heaps(keys) /\ Size(filled) = Size(heap)
        /\ IsPlaced(filled) /\ KeysOf(filled) = all \cup {key}
        /\ LocKept(filled, at[1], all \cup {key})
    BY <1>2, <2>1, HoleIsFilled
  <2>5. LocKept(at[1], heap, all \cup {key})
    BY <2>1 DEF LocKept
  <2>6. base[at] = filled
    BY <2>1
  <2>. HIDE DEF all, isReady
  <2>7. LocKept(filled, heap, all \cup {key})
    BY <1>2, <2>1, <2>4, <2>5, LocKeptIsTransitive
  <2>8. QED
    BY <2>3, <2>4, <2>6, <2>7 DEF IsFilled, all
<1>9. ASSUME NEW at \in Inv, at \notin stops
      PROVE  next[at] \in Inv /\ rank[next[at]] < rank[at]
  <2>1. /\ at \in D /\ IsHole(at[1], at[2], key) /\ Others(at[1], at[2]) = all
        /\ isReady => IsReadyForUp(at[1], at[2], key, dist)
        /\ LocKept(at[1], heap, all) /\ at[2] > 0
        /\ dist[key] < dist[KeyAt(at[1], Parent(at[2]))]
    BY <1>9 DEF IsWorse
  <2>2. PICK moved : moved = Put(at[1], at[2], KeyAt(at[1], Parent(at[2])))
    OBVIOUS
  <2>3. PICK p : p = Parent(at[2])
    OBVIOUS
  <2>4. /\ p \in Places(at[1]) /\ p < at[2]
        /\ isReady => IsReadyForUp(moved, p, key, dist)
    <3>1. p \in Places(at[1]) /\ p < at[2]
      <4>1. at[2] \in Nat \ {0} /\ at[2] \in 0 .. Size(heap) - 1 /\ Places(at[1]) = 0 .. Size(heap) - 1
        BY <1>2, <2>1 DEF Places
      <4>2. Parent(at[2]) \in 0 .. at[2] - 1
        BY <4>1, ParentIsBelow
      <4>3. QED
        BY <1>1, <2>3, <4>1, <4>2
    <3>2. ASSUME isReady PROVE IsReadyForUp(moved, p, key, dist)
      <4>1. IsReadyForUp(at[1], at[2], key, dist)
        BY <2>1, <3>2
      <4>2. QED
        BY <1>2, <2>1, <2>2, <2>3, <4>1, UpStep DEF IsReadyForUp
    <3>3. QED
      BY <3>1, <3>2
  <2>5. /\ moved \in Heaps(keys) /\ Size(moved) = Size(heap)
        /\ IsHole(moved, p, key) /\ Others(moved, p) = all
        /\ LocKept(moved, at[1], all)
    BY <1>2, <2>1, <2>2, <2>3, <2>4, HoleMoves DEF Places
  <2>6. next[at] = <<moved, p>> /\ rank[at] = at[2]
    BY <2>1, <2>2, <2>3
  <2>7. <<moved, p>> \in D
    BY <1>2, <1>3, <2>1, <2>4, <2>5 DEF Places
  <2>8. rank[<<moved, p>>] = p
    BY <2>7
  <2>. HIDE DEF all, D
  <2>9. LocKept(moved, heap, all)
    BY <1>2, <2>1, <2>5, LocKeptIsTransitive
  <2>10. QED
    BY <2>4, <2>5, <2>6, <2>7, <2>8, <2>9
<1>10. <<heap, hole>> \in Inv
  <2>1. LocKept(heap, heap, all)
    BY DEF LocKept
  <2>2. QED
    BY <1>3, <2>1
<1>. HIDE DEF D, stops, base, next, rank, Inv, Post, Moved, isReady
<1>11. \A at \in Inv : at \in stops => base[at] \in Post
  BY <1>8
<1>12. \A at \in Inv : at \notin stops => next[at] \in Inv /\ rank[next[at]] < rank[at]
  BY <1>9
<1>13. \A at \in Inv : up[at] \in Post
  <2>1. IsLoop(D, rank, stops, base, next, up, Inv, Post)
    BY <1>5, <1>6, <1>7, <1>11, <1>12 DEF IsLoop
  <2>2. QED
    BY <2>1, LoopEnds
<1>14. QED
  <2>1. up[<<heap, hole>>] \in Post
    BY <1>10, <1>13
  <2>. USE DEF Post, isReady
  <2>2. Up(heap, key, hole, dist) \in Post
    BY <1>4, <2>1
  <2>3. QED
    BY <2>2
-----------------------------------------------------------------------------
(* Down *)

LEMMA BestChildIsBest ==
  ASSUME NEW keys, NEW heap \in Heaps(keys), NEW dist \in [keys -> Int],
         NEW hole \in Places(heap), Children(heap, hole) # {}
  PROVE  /\ BestChild(heap, hole, dist) \in Children(heap, hole)
         /\ \A c \in Children(heap, hole) :
              dist[KeyAt(heap, BestChild(heap, hole, dist))] <= dist[KeyAt(heap, c)]
<1>. DEFINE C == Children(heap, hole)
            d(c) == dist[KeyAt(heap, c)]
            Wins(c, e) == d(c) < d(e) \/ (d(c) = d(e) /\ c <= e)
            S == {m \in Nat : \/ C \cap (0 .. m) = {}
                             \/ \E c \in C \cap (0 .. m) : \A e \in C \cap (0 .. m) : Wins(c, e)}
<1>0. Size(heap) \in Nat /\ C \subseteq 0 .. Size(heap) - 1 /\ hole \in Nat
  BY KeyAtType DEF Children, Places
<1>1. \A c \in C : c \in Nat /\ d(c) \in Int
  BY <1>0, KeyAtType DEF Places
<1>. HIDE DEF C, d
<1>2. \A c \in C : Wins(c, c)
  BY <1>1
<1>3. \A c, e, f \in C : Wins(c, e) /\ Wins(e, f) => Wins(c, f)
  BY <1>1
<1>4. \A c, e \in C : Wins(c, e) \/ Wins(e, c)
  BY <1>1
<1>5. \A c, e \in C : Wins(c, e) => d(c) <= d(e)
  BY <1>1
<1>. HIDE DEF Wins
<1>6. 0 \in S
  <2>0. 0 .. 0 = {0}
    OBVIOUS
  <2>1. CASE 0 \in C
    <3>1. \A e \in C \cap (0 .. 0) : e = 0
      BY <2>0
    <3>2. 0 \in C \cap (0 .. 0) /\ \A e \in C \cap (0 .. 0) : Wins(0, e)
      BY <1>2, <2>1, <3>1
    <3>3. QED
      BY <3>2
  <2>2. CASE 0 \notin C
    <3>1. C \cap (0 .. 0) = {}
      BY <2>0, <2>2
    <3>2. QED
      BY <3>1
  <2>3. QED
    BY <2>1, <2>2
<1>7. ASSUME NEW m \in 0 .. Size(heap) - 1, m \in S
      PROVE  m + 1 \in S
  <2>0. m \in Nat /\ m + 1 \in Nat
    BY <1>0
  <2>1. C \cap (0 .. m + 1) = (C \cap (0 .. m)) \cup (C \cap {m + 1})
    BY <2>0, <1>1
  <2>2. CASE m + 1 \notin C
    <3>1. C \cap (0 .. m + 1) = C \cap (0 .. m)
      BY <2>1, <2>2
    <3>2. QED
      BY <1>7, <2>0, <3>1
  <2>3. CASE m + 1 \in C /\ C \cap (0 .. m) = {}
    <3>1. C \cap (0 .. m + 1) = {m + 1}
      BY <2>1, <2>3
    <3>2. \E c \in C \cap (0 .. m + 1) : \A e \in C \cap (0 .. m + 1) : Wins(c, e)
      BY <1>2, <2>3, <3>1
    <3>3. QED
      BY <2>0, <3>2
  <2>4. CASE m + 1 \in C /\ C \cap (0 .. m) # {}
    <3>1. PICK c \in C \cap (0 .. m) : \A e \in C \cap (0 .. m) : Wins(c, e)
      BY <1>7, <2>4
    <3>2. c \in C \cap (0 .. m + 1) /\ m + 1 \in C \cap (0 .. m + 1) /\ c \in C
      BY <2>1, <2>4, <3>1
    <3>3. CASE Wins(c, m + 1)
      <4>1. \A e \in C \cap (0 .. m + 1) : Wins(c, e)
        BY <2>1, <3>1, <3>3
      <4>2. QED
        BY <2>0, <3>2, <4>1
    <3>4. CASE Wins(m + 1, c)
      <4>1. \A e \in C \cap (0 .. m) : Wins(m + 1, e)
        BY <1>3, <2>4, <3>1, <3>2, <3>4
      <4>2. \A e \in C \cap (0 .. m + 1) : Wins(m + 1, e)
        BY <1>2, <2>1, <2>4, <4>1
      <4>3. QED
        BY <2>0, <3>2, <4>2
    <3>5. QED
      BY <1>4, <2>4, <3>2, <3>3, <3>4
  <2>5. QED
    BY <2>2, <2>3, <2>4
<1>. HIDE DEF S
<1>8. Size(heap) \in S
  BY <1>0, <1>6, <1>7, InductionUpTo
<1>. USE DEF S
<1>9. C \cap (0 .. Size(heap)) = C
  <2>1. \A c \in C : c \in 0 .. Size(heap) - 1
    BY <1>0
  <2>2. \A c \in C : c \in 0 .. Size(heap)
    BY <1>0, <2>1
  <2>3. QED
    BY <2>2
<1>10. \E c \in C : \A e \in C : Wins(c, e)
  BY <1>8, <1>9 DEF C
<1>11. BestChild(heap, hole, dist) = CHOOSE c \in C : \A e \in C : Wins(c, e)
  BY DEF BestChild, C, Wins, d
<1>12. BestChild(heap, hole, dist) \in C /\ \A e \in C : Wins(BestChild(heap, hole, dist), e)
  BY <1>10, <1>11
<1>13. QED
  BY <1>5, <1>12 DEF C, d

ChildIsBetter(at, key, dist) == \E c \in Children(at[1], at[2]) : dist[KeyAt(at[1], c)] < dist[key]
Best(at, dist) == BestChild(at[1], at[2], dist)

LEMMA DownIsLoop ==
  ASSUME NEW keys, NEW heap \in Heaps(keys), NEW key \in keys, NEW i \in Places(heap),
         NEW dist \in [keys -> Int]
  PROVE  \E down :
           /\ Down(heap, key, i, dist) = down[<<heap, i>>]
           /\ \A at \in WithHole(heap) :
                down[at] = IF ChildIsBetter(at, key, dist)
                           THEN down[<<Put(at[1], at[2], KeyAt(at[1], Best(at, dist))), Best(at, dist)>>]
                           ELSE Put(at[1], at[2], key)
<1>. DEFINE D == WithHole(heap)
            V == HeapsLike(heap)
            stops == {at \in D : ~ChildIsBetter(at, key, dist)}
            base == [at \in D |-> Put(at[1], at[2], key)]
            Moved(at) == <<Put(at[1], at[2], KeyAt(at[1], Best(at, dist))), Best(at, dist)>>
            prior == [at \in D |-> IF at \in stops THEN at ELSE Moved(at)]
            rank == [at \in D |-> Size(heap) - at[2]]
            step == [x \in D \X V |-> x[2]]
            IsDown(f) == f = [at \in D |-> IF ChildIsBetter(at, key, dist) THEN f[Moved(at)]
                                                  ELSE Put(at[1], at[2], key)]
<1>1. V = HeapsOfSize(keys, Size(heap)) /\ Size(heap) \in Nat
  BY LikeIsOfSize, KeyAtType
<1>2. ASSUME NEW at \in D
      PROVE  /\ at[1] \in Heaps(keys) /\ Size(at[1]) = Size(heap)
             /\ at[2] \in Places(heap) /\ at[2] \in Places(at[1]) /\ at[2] \in 0 .. Size(heap)
             /\ at = <<at[1], at[2]>>
  BY <1>1 DEF WithHole, HeapsOfSize, Places
<1>3. ASSUME NEW at \in D
      PROVE  Put(at[1], at[2], key) \in V
  BY <1>1, <1>2, PutFacts DEF HeapsOfSize
<1>4. ASSUME NEW at \in D, at \notin stops
      PROVE  Moved(at) \in D /\ at[2] < Best(at, dist) /\ Best(at, dist) \in Places(heap)
  <2>1. Best(at, dist) \in Children(at[1], at[2])
    BY <1>2, <1>4, BestChildIsBest DEF ChildIsBetter, Best
  <2>2. /\ Best(at, dist) \in Places(heap) /\ Best(at, dist) \in Places(at[1])
        /\ at[2] < Best(at, dist)
    BY <1>1, <1>2, <2>1, ChildIsAbove DEF Places
  <2>3. KeyAt(at[1], Best(at, dist)) \in keys
    BY <1>2, <2>2, KeyAtType
  <2>4. Put(at[1], at[2], KeyAt(at[1], Best(at, dist))) \in V
    BY <1>1, <1>2, <2>3, PutFacts DEF HeapsOfSize
  <2>5. QED
    BY <1>1, <2>2, <2>4 DEF WithHole, Places
<1>5. rank \in [D -> 0 .. Size(heap)] /\ base \in [D -> V]
  BY <1>1, <1>2, <1>3
<1>6. prior \in [D -> D]
  BY <1>4
<1>7. step \in [D \X V -> V]
  OBVIOUS
<1>8. ASSUME NEW at \in D, at \notin stops
      PROVE  rank[prior[at]] < rank[at]
  <2>1. Moved(at) \in D /\ at[2] < Best(at, dist) /\ Best(at, dist) \in 0 .. Size(heap)
    BY <1>1, <1>4, <1>8 DEF Places
  <2>2. prior[at] = Moved(at) /\ Moved(at)[2] = Best(at, dist)
    BY <1>8
  <2>3. QED
    BY <1>1, <1>2, <2>1, <2>2
<1>9. IsRecursion(D, V, Size(heap), rank, stops, base, prior, step)
  BY <1>1, <1>5, <1>6, <1>7, <1>8 DEF IsRecursion
<1>10. \A at \in D : /\ at \in stops <=> ~ChildIsBetter(at, key, dist)
                     /\ at \in stops => base[at] = Put(at[1], at[2], key)
                     /\ at \notin stops => prior[at] = Moved(at)
                     /\ prior[at] \in D
  BY <1>6
<1>11. \A at \in D, h \in V : step[<<at, h>>] = h
  OBVIOUS
<1>12. Down(heap, key, i, dist) = (CHOOSE f : IsDown(f))[<<heap, i>>]
  BY Zenon DEF Down, ChildIsBetter, Best
<1>. HIDE DEF D, V, stops, base, prior, rank, step, Moved
<1>13. PICK g \in [D -> V] :
         \A at \in D : g[at] = IF at \in stops THEN base[at] ELSE step[<<at, g[prior[at]]>>]
  BY <1>9, RecursionExists
<1>14. ASSUME NEW at \in D
      PROVE  g[at] = IF ChildIsBetter(at, key, dist) THEN g[Moved(at)] ELSE Put(at[1], at[2], key)
  <2>1. CASE at \in stops
    BY <1>10, <1>13, <2>1
  <2>2. CASE at \notin stops
    <3>1. g[at] = step[<<at, g[prior[at]]>>] /\ g[prior[at]] \in V
      BY <1>10, <1>13, <2>2
    <3>2. g[at] = g[prior[at]]
      BY <1>11, <3>1
    <3>3. QED
      BY <1>10, <2>2, <3>2
  <2>3. QED
    BY <2>1, <2>2
<1>15. IsDown(g)
  BY <1>14
<1>. HIDE DEF IsDown
<1>16. IsDown(CHOOSE f : IsDown(f))
  BY <1>15
<1>. DEFINE down == CHOOSE f : IsDown(f)
<1>. HIDE DEF down
<1>17. IsDown(down)
  BY <1>16 DEF down
<1>. USE DEF IsDown
<1>18. \A at \in D : down[at] = IF ChildIsBetter(at, key, dist) THEN down[Moved(at)] ELSE Put(at[1], at[2], key)
  BY <1>17
<1>19. Down(heap, key, i, dist) = down[<<heap, i>>]
  BY <1>12 DEF down
<1>. USE DEF D, Moved
<1>20. QED
  BY <1>18, <1>19
LEMMA DownStep ==
  ASSUME NEW keys, NEW heap \in Heaps(keys), NEW key \in keys, NEW dist \in [keys -> Int],
         NEW hole \in Places(heap), IsHole(heap, hole, key),
         OrderAwayFrom(heap, hole, dist), ParentFits(heap, hole, dist),
         NEW c \in Children(heap, hole),
         \A e \in Children(heap, hole) : dist[KeyAt(heap, c)] <= dist[KeyAt(heap, e)],
         dist[KeyAt(heap, c)] < dist[key],
         NEW moved, moved = Put(heap, hole, KeyAt(heap, c))
  PROVE  /\ OrderAwayFrom(moved, c, dist) /\ ParentFits(moved, c, dist)
         /\ FitsBelow(moved, c, key, dist)
<1>0. Size(heap) \in Nat /\ \A i \in Places(heap) : KeyAt(heap, i) \in keys
  BY KeyAtType
<1>1. c \in Places(heap) /\ c \in 1 .. Size(heap) - 1 /\ Parent(c) = hole /\ hole < c
  BY ChildIsAbove
<1>2. hole \in Nat /\ c \in Nat /\ c # hole
  BY <1>1 DEF Places
<1>3. /\ Size(moved) = Size(heap)
      /\ KeyAt(moved, hole) = KeyAt(heap, c)
      /\ \A i \in Places(heap) \ {hole} : KeyAt(moved, i) = KeyAt(heap, i)
  BY <1>1, <1>2, HoleMoves
<1>4. \A i \in 1 .. Size(heap) - 1 :
        i \in Places(heap) /\ Parent(i) \in Places(heap) /\ Parent(i) < i
  <2>1. \A i \in 1 .. Size(heap) - 1 : i \in Nat \ {0} /\ Parent(i) \in 0 .. i - 1
    BY <1>0, ParentIsBelow
  <2>2. QED
    BY <1>0, <2>1 DEF Places
<1>5. ASSUME NEW i \in 1 .. Size(heap) - 1, i # c, Parent(i) # c
      PROVE  dist[KeyAt(moved, Parent(i))] <= dist[KeyAt(moved, i)]
  <2>1. CASE i = hole
    <3>1. hole > 0 /\ Parent(hole) # hole /\ Parent(hole) \in Places(heap)
      BY <1>2, <1>4, <2>1
    <3>2. dist[KeyAt(heap, Parent(hole))] <= dist[KeyAt(heap, c)]
      BY <1>1, <3>1 DEF ParentFits
    <3>3. QED
      BY <1>3, <2>1, <3>1, <3>2
  <2>2. CASE i # hole /\ Parent(i) = hole
    <3>1. i \in Children(heap, hole)
      BY <1>0, <1>2, <2>2, ChildrenAre
    <3>2. QED
      BY <1>3, <1>4, <2>2, <3>1
  <2>3. CASE i # hole /\ Parent(i) # hole
    <3>1. dist[KeyAt(heap, Parent(i))] <= dist[KeyAt(heap, i)]
      BY <2>3 DEF OrderAwayFrom
    <3>2. KeyAt(moved, i) = KeyAt(heap, i) /\ KeyAt(moved, Parent(i)) = KeyAt(heap, Parent(i))
      BY <1>3, <1>4, <2>3
    <3>3. QED
      BY <3>1, <3>2
  <2>4. QED
    BY <2>1, <2>2, <2>3
<1>6. ASSUME NEW i \in 1 .. Size(heap) - 1, Parent(i) = c
      PROVE  dist[KeyAt(moved, Parent(c))] <= dist[KeyAt(moved, i)]
  <2>1. i # hole /\ Parent(i) # hole /\ i \in Places(heap)
    BY <1>1, <1>2, <1>4, <1>6
  <2>2. dist[KeyAt(heap, c)] <= dist[KeyAt(heap, i)]
    BY <1>6, <2>1 DEF OrderAwayFrom
  <2>3. QED
    BY <1>1, <1>3, <2>1, <2>2
<1>7. dist[KeyAt(moved, Parent(c))] <= dist[key]
  <2>1. dist[KeyAt(heap, c)] \in Int /\ dist[key] \in Int
    BY <1>0, <1>1
  <2>2. QED
    BY <1>1, <1>3, <2>1
<1>8. QED
  BY <1>3, <1>5, <1>6, <1>7 DEF OrderAwayFrom, ParentFits, FitsBelow

IsReadyForDown(heap, hole, key, dist) ==
  OrderAwayFrom(heap, hole, dist) /\ ParentFits(heap, hole, dist) /\ FitsBelow(heap, hole, key, dist)

LEMMA DownSifts ==
  ASSUME NEW keys, NEW heap \in Heaps(keys), NEW key \in keys, NEW dist \in [keys -> Int],
         NEW hole \in Places(heap), IsHole(heap, hole, key)
  PROVE  /\ IsFilled(Down(heap, key, hole, dist), heap, hole, key, keys)
         /\ IsReadyForDown(heap, hole, key, dist) => IsHeap(Down(heap, key, hole, dist), dist)
<1>. DEFINE D == WithHole(heap)
            all == Others(heap, hole)
            isReady == IsReadyForDown(heap, hole, key, dist)
            Moved(at) == <<Put(at[1], at[2], KeyAt(at[1], Best(at, dist))), Best(at, dist)>>
            stops == {at \in D : ~ChildIsBetter(at, key, dist)}
            base == [at \in D |-> Put(at[1], at[2], key)]
            next == [at \in D |-> Moved(at)]
            rank == [at \in D |-> Size(heap) - at[2]]
            Inv == {at \in D : /\ IsHole(at[1], at[2], key)
                               /\ Others(at[1], at[2]) = all
                               /\ isReady => IsReadyForDown(at[1], at[2], key, dist)
                               /\ LocKept(at[1], heap, all)}
            Post == {r \in Heaps(keys) : /\ IsFilled(r, heap, hole, key, keys)
                                         /\ isReady => IsHeap(r, dist)}
<1>1. HeapsLike(heap) = HeapsOfSize(keys, Size(heap)) /\ Size(heap) \in Nat
  BY LikeIsOfSize, KeyAtType
<1>2. ASSUME NEW at \in D
      PROVE  /\ at[1] \in Heaps(keys) /\ Size(at[1]) = Size(heap)
             /\ at[2] \in Places(at[1]) /\ at[2] \in 0 .. Size(heap)
             /\ at = <<at[1], at[2]>>
  BY <1>1 DEF WithHole, HeapsOfSize, Places
<1>3. \A h \in Heaps(keys), j \in Places(heap) :
        Size(h) = Size(heap) => <<h, j>> \in D /\ Places(h) = Places(heap)
  BY <1>1 DEF WithHole, HeapsOfSize, Places
<1>4. PICK down :
        /\ Down(heap, key, hole, dist) = down[<<heap, hole>>]
        /\ \A at \in D : down[at] = IF ChildIsBetter(at, key, dist) THEN down[Moved(at)]
                                                          ELSE Put(at[1], at[2], key)
  BY DownIsLoop
<1>5. \A at \in D : down[at] = IF at \in stops THEN base[at] ELSE down[next[at]]
  BY <1>4
<1>6. rank \in [D -> Nat]
  BY <1>1, <1>2
<1>7. Inv \in SUBSET D
  OBVIOUS
<1>8. ASSUME NEW at \in Inv, at \in stops
      PROVE  base[at] \in Post
  <2>1. /\ at \in D /\ IsHole(at[1], at[2], key) /\ Others(at[1], at[2]) = all
        /\ isReady => IsReadyForDown(at[1], at[2], key, dist)
        /\ LocKept(at[1], heap, all) /\ ~ChildIsBetter(at, key, dist)
    BY <1>8
  <2>2. FitsAbove(at[1], at[2], key, dist)
    <3>1. ASSUME NEW i \in 1 .. Size(at[1]) - 1, Parent(i) = at[2]
          PROVE  dist[key] <= dist[KeyAt(at[1], i)]
      <4>1. i \in Children(at[1], at[2])
        BY <1>1, <1>2, <2>1, <3>1, ChildrenAre
      <4>2. KeyAt(at[1], i) \in keys
        BY <1>2, <2>1, <4>1, ChildIsAbove, KeyAtType
      <4>3. QED
        BY <2>1, <4>1, <4>2 DEF ChildIsBetter
    <3>2. QED
      BY <3>1 DEF FitsAbove
  <2>. PICK filled : filled = Put(at[1], at[2], key)
    OBVIOUS
  <2>3. isReady => IsHeap(filled, dist)
    BY <1>2, <2>1, <2>2, FillOrder DEF IsReadyForDown
  <2>4. /\ filled \in Heaps(keys) /\ Size(filled) = Size(heap)
        /\ IsPlaced(filled) /\ KeysOf(filled) = all \cup {key}
        /\ LocKept(filled, at[1], all \cup {key})
    BY <1>2, <2>1, HoleIsFilled
  <2>5. LocKept(at[1], heap, all \cup {key})
    BY <2>1 DEF LocKept
  <2>6. base[at] = filled
    BY <2>1
  <2>. HIDE DEF all, isReady
  <2>7. LocKept(filled, heap, all \cup {key})
    BY <1>2, <2>1, <2>4, <2>5, LocKeptIsTransitive
  <2>8. QED
    BY <2>3, <2>4, <2>6, <2>7 DEF IsFilled, all
<1>9. ASSUME NEW at \in Inv, at \notin stops
      PROVE  next[at] \in Inv /\ rank[next[at]] < rank[at]
  <2>1. /\ at \in D /\ IsHole(at[1], at[2], key) /\ Others(at[1], at[2]) = all
        /\ isReady => IsReadyForDown(at[1], at[2], key, dist)
        /\ LocKept(at[1], heap, all)
        /\ \E e \in Children(at[1], at[2]) : dist[KeyAt(at[1], e)] < dist[key]
    BY <1>9 DEF ChildIsBetter
  <2>2. PICK c : c = Best(at, dist)
    OBVIOUS
  <2>3. PICK moved : moved = Put(at[1], at[2], KeyAt(at[1], c))
    OBVIOUS
  <2>4. /\ c \in Places(at[1]) /\ at[2] < c
        /\ isReady => IsReadyForDown(moved, c, key, dist)
    <3>1. /\ c \in Children(at[1], at[2])
          /\ \A e \in Children(at[1], at[2]) : dist[KeyAt(at[1], c)] <= dist[KeyAt(at[1], e)]
      BY <1>2, <2>1, <2>2, BestChildIsBest DEF Best
    <3>2. c \in Places(at[1]) /\ at[2] < c
      BY <1>2, <2>1, <3>1, ChildIsAbove
    <3>3. dist[KeyAt(at[1], c)] < dist[key]
      <4>1. PICK e \in Children(at[1], at[2]) : dist[KeyAt(at[1], e)] < dist[key]
        BY <2>1
      <4>2. KeyAt(at[1], e) \in keys /\ KeyAt(at[1], c) \in keys
        BY <1>2, <2>1, <3>2, ChildIsAbove, KeyAtType
      <4>3. QED
        BY <3>1, <4>1, <4>2
    <3>4. ASSUME isReady PROVE IsReadyForDown(moved, c, key, dist)
      <4>1. IsReadyForDown(at[1], at[2], key, dist)
        BY <2>1, <3>4
      <4>2. QED
        BY <1>2, <2>1, <2>3, <3>1, <3>3, <4>1, DownStep DEF IsReadyForDown
    <3>5. QED
      BY <3>2, <3>4
  <2>5. /\ moved \in Heaps(keys) /\ Size(moved) = Size(heap)
        /\ IsHole(moved, c, key) /\ Others(moved, c) = all
        /\ LocKept(moved, at[1], all)
    BY <1>2, <2>1, <2>2, <2>3, <2>4, HoleMoves DEF Places
  <2>6. next[at] = <<moved, c>> /\ rank[at] = Size(heap) - at[2]
    BY <2>1, <2>2, <2>3
  <2>7. <<moved, c>> \in D
    BY <1>2, <1>3, <2>1, <2>4, <2>5 DEF Places
  <2>8. rank[<<moved, c>>] = Size(heap) - c
    BY <2>7
  <2>. HIDE DEF all, D
  <2>9. LocKept(moved, heap, all)
    BY <1>2, <2>1, <2>5, LocKeptIsTransitive
  <2>10. QED
    BY <1>1, <1>2, <2>1, <2>4, <2>5, <2>6, <2>7, <2>8, <2>9
<1>10. <<heap, hole>> \in Inv
  <2>1. LocKept(heap, heap, all)
    BY DEF LocKept
  <2>2. QED
    BY <1>3, <2>1
<1>. HIDE DEF D, stops, base, next, rank, Inv, Post, Moved, isReady
<1>11. \A at \in Inv : at \in stops => base[at] \in Post
  BY <1>8
<1>12. \A at \in Inv : at \notin stops => next[at] \in Inv /\ rank[next[at]] < rank[at]
  BY <1>9
<1>13. \A at \in Inv : down[at] \in Post
  <2>1. IsLoop(D, rank, stops, base, next, down, Inv, Post)
    BY <1>5, <1>6, <1>7, <1>11, <1>12 DEF IsLoop
  <2>2. QED
    BY <2>1, LoopEnds
<1>14. QED
  <2>1. down[<<heap, hole>>] \in Post
    BY <1>10, <1>13
  <2>. USE DEF Post, isReady
  <2>2. Down(heap, key, hole, dist) \in Post
    BY <1>4, <2>1
  <2>3. QED
    BY <2>2
-----------------------------------------------------------------------------
(* The operations *)

(* A heap in order, in which no key is twice *)
IsQueue(heap, keys, dist) ==
  heap \in Heaps(keys) /\ IsHeap(heap, dist) /\ IsPlaced(heap)

LEMMA HasKeyIsQueued ==
  ASSUME NEW heap, NEW key, HasKey(heap, key)
  PROVE  key \in KeysOf(heap)
BY DEF HasKey, KeysOf, Places

LEMMA KeysAreDistinct ==
  ASSUME NEW heap, IsPlaced(heap), NEW i \in Places(heap), NEW j \in Places(heap),
         KeyAt(heap, i) = KeyAt(heap, j)
  PROVE  i = j
BY DEF IsPlaced, KeysDiffer

(* Every key but the top has the top as its parent. *)
IsFlat(heap) == \A i \in 1 .. Size(heap) - 1 : Parent(i) = 0

LEMMA SmallIsFlat ==
  ASSUME NEW heap, Size(heap) \in Nat, Size(heap) <= Arity + 1
  PROVE  IsFlat(heap)
<1>1. Arity \in Nat /\ Arity > 1
  BY ArityAssumption
<1>2. ASSUME NEW i \in 1 .. Size(heap) - 1
      PROVE  Parent(i) = 0
  <2>1. /\ i \in Nat \ {0} /\ Parent(i) \in 0 .. i - 1 /\ Parent(i) * Arity <= i - 1
    BY ParentIsBelow
  <2>2. ASSUME Parent(i) # 0 PROVE FALSE
    <3>1. Parent(i) \in Nat /\ 1 <= Parent(i)
      BY <2>1, <2>2
    <3>2. 1 * Arity <= Parent(i) * Arity /\ Parent(i) * Arity \in Nat
      BY <1>1, <3>1, ProductIsMonotonic
    <3>3. QED
      BY <1>1, <2>1, <3>2
  <2>3. QED
    BY <2>2
<1>3. QED
  BY <1>2 DEF IsFlat

(* push_or_update of a key that is found in the heap.  The heap stays in order if only
   that key's distance has changed: for the better, or so that none is below it. *)
MayUpdate(heap, key, old, dist) ==
  /\ old \in [DOMAIN dist -> Int] /\ IsHeap(heap, old)
  /\ \A k \in DOMAIN dist \ {key} : dist[k] = old[k]
  /\ dist[key] <= old[key] \/ (IsFlat(heap) /\ key # Top(heap))

LEMMA UpdateInHeap ==
  ASSUME NEW keys, NEW dist \in [keys -> Int], NEW heap \in Heaps(keys), IsPlaced(heap),
         NEW key \in keys, HasKey(heap, key),
         NEW updated, updated = PushOrUpdate(heap, key, dist)
  PROVE  /\ updated \in Heaps(keys) /\ IsPlaced(updated)
         /\ KeysOf(updated) = KeysOf(heap) /\ Size(updated) = Size(heap)
         /\ LocKept(updated, heap, KeysOf(heap))
         /\ \A old : MayUpdate(heap, key, old, dist) => IsHeap(updated, dist)
<1>0. /\ Size(heap) \in Nat /\ \A i \in Places(heap) : KeyAt(heap, i) \in keys
      /\ key \in keys
  BY KeyAtType
<1>1. PICK hole \in Places(heap) : heap.loc[key] = hole /\ key = KeyAt(heap, hole)
  BY DEF HasKey, Places
<1>2. updated = Up(heap, key, hole, dist)
  BY <1>1 DEF PushOrUpdate
<1>3. IsHole(heap, hole, key)
  BY <1>1, KeysAreDistinct DEF IsHole, IsPlaced, KeysOf
<1>4. Others(heap, hole) \cup {key} = KeysOf(heap)
  BY <1>1 DEF Others, KeysOf
<1>5. IsFilled(updated, heap, hole, key, keys)
      /\ (IsReadyForUp(heap, hole, key, dist) => IsHeap(updated, dist))
  BY <1>0, <1>2, <1>3, UpSifts
<1>6. ASSUME NEW old, MayUpdate(heap, key, old, dist)
      PROVE  IsReadyForUp(heap, hole, key, dist)
  <2>1. /\ old \in [keys -> Int] /\ IsHeap(heap, old)
        /\ \A k \in keys \ {key} : dist[k] = old[k]
        /\ dist[key] <= old[key] \/ (IsFlat(heap) /\ key # Top(heap))
    BY <1>6 DEF MayUpdate
  <2>2. ASSUME NEW i \in 1 .. Size(heap) - 1
        PROVE  /\ i \in Places(heap) /\ Parent(i) \in Places(heap)
               /\ old[KeyAt(heap, Parent(i))] <= old[KeyAt(heap, i)]
               /\ i # hole => dist[KeyAt(heap, i)] = old[KeyAt(heap, i)]
               /\ Parent(i) # hole => dist[KeyAt(heap, Parent(i))] = old[KeyAt(heap, Parent(i))]
    <3>1. i \in Nat \ {0} /\ Parent(i) \in 0 .. i - 1
      BY <1>0, ParentIsBelow
    <3>2. i \in Places(heap) /\ Parent(i) \in Places(heap)
      BY <1>0, <3>1 DEF Places
    <3>3. \A j \in Places(heap) : j # hole => KeyAt(heap, j) \in keys \ {key}
      BY <1>0, <1>3 DEF IsHole
    <3>4. QED
      BY <2>1, <3>2, <3>3 DEF IsHeap
  <2>3. OrderAwayFrom(heap, hole, dist)
    BY <2>2 DEF OrderAwayFrom
  <2>4. ASSUME NEW i \in 1 .. Size(heap) - 1, Parent(i) = hole
        PROVE  dist[key] <= dist[KeyAt(heap, i)] /\ i # hole
    <3>1. i # hole
      <4>1. i \in Nat \ {0} /\ Parent(i) \in 0 .. i - 1
        BY <1>0, ParentIsBelow
      <4>2. QED
        BY <2>4, <4>1
    <3>2. old[key] <= old[KeyAt(heap, i)] /\ dist[KeyAt(heap, i)] = old[KeyAt(heap, i)]
      BY <1>1, <2>2, <2>4, <3>1
    <3>3. dist[key] \in Int /\ old[key] \in Int /\ old[KeyAt(heap, i)] \in Int
      BY <1>0, <2>1, <2>2
    <3>4. dist[key] <= old[key]
      BY <1>1, <2>1, <2>4 DEF IsFlat, Top
    <3>5. QED
      BY <3>1, <3>2, <3>3, <3>4
  <2>5. FitsAbove(heap, hole, key, dist)
    BY <2>4 DEF FitsAbove
  <2>6. ASSUME NEW i \in 1 .. Size(heap) - 1, hole > 0, Parent(i) = hole
        PROVE  dist[KeyAt(heap, Parent(hole))] <= dist[KeyAt(heap, i)]
    <3>1. hole \in 1 .. Size(heap) - 1
      BY <1>0, <1>1, <2>6 DEF Places
    <3>2. Parent(hole) # hole /\ Parent(hole) \in Places(heap)
      BY <1>0, <3>1, ParentIsBelow, <2>2
    <3>3. /\ dist[KeyAt(heap, Parent(hole))] = old[KeyAt(heap, Parent(hole))]
          /\ old[KeyAt(heap, Parent(hole))] <= old[KeyAt(heap, hole)]
      BY <2>2, <3>1, <3>2
    <3>4. /\ old[KeyAt(heap, hole)] <= old[KeyAt(heap, i)]
          /\ dist[KeyAt(heap, i)] = old[KeyAt(heap, i)] /\ i \in Places(heap)
      BY <2>2, <2>4, <2>6
    <3>5. /\ old[KeyAt(heap, Parent(hole))] \in Int /\ old[KeyAt(heap, hole)] \in Int
          /\ old[KeyAt(heap, i)] \in Int
      BY <1>0, <1>1, <2>1, <3>2, <3>4
    <3>6. QED
      BY <3>3, <3>4, <3>5
  <2>7. ParentFits(heap, hole, dist)
    BY <2>6 DEF ParentFits
  <2>8. QED
    BY <2>3, <2>5, <2>7 DEF IsReadyForUp
<1>7. QED
  BY <1>4, <1>5, <1>6 DEF IsFilled

(* push of a key that is not *)
IsPushed(pushed, heap, key, keys, dist) ==
  /\ pushed \in Heaps(keys) /\ IsPlaced(pushed)
  /\ KeysOf(pushed) = KeysOf(heap) \cup {key} /\ Size(pushed) = Size(heap) + 1
  /\ LocKept(pushed, heap, KeysOf(heap) \cup {key})
  /\ IsHeap(heap, dist) => IsHeap(pushed, dist)

LEMMA PushOnHeap ==
  ASSUME NEW keys, NEW dist \in [keys -> Int], NEW heap \in Heaps(keys), IsPlaced(heap),
         NEW key \in keys, key \notin KeysOf(heap)
  PROVE  IsPushed(Push(heap, key, dist), heap, key, keys, dist)
<1>. PICK pushed : pushed = Push(heap, key, dist)
  OBVIOUS
<1>0. Size(heap) \in Nat /\ \A i \in Places(heap) : KeyAt(heap, i) \in keys
  BY KeyAtType
<1>1. PICK longer : longer = [heap EXCEPT !.data = Append(@, key)]
  OBVIOUS
<1>2. PICK n : n = Size(heap)
  OBVIOUS
<1>3. pushed = Up(longer, key, n, dist)
  BY <1>1, <1>2 DEF Push
<1>4. /\ longer.data = Append(heap.data, key) /\ longer.loc = heap.loc
      /\ longer \in Heaps(keys) /\ Size(longer) = n + 1
  <2>1. heap.data \in Seq(keys) /\ heap.loc \in [keys -> Int]
    BY DEF Heaps
  <2>2. longer.data = Append(heap.data, key) /\ longer.loc = heap.loc
    BY <1>1 DEF Heaps
  <2>3. longer = [data |-> Append(heap.data, key), loc |-> heap.loc]
    BY <1>1 DEF Heaps
  <2>4. Append(heap.data, key) \in Seq(keys) /\ Len(Append(heap.data, key)) = Len(heap.data) + 1
    BY <2>1
  <2>5. QED
    BY <1>2, <2>1, <2>2, <2>3, <2>4 DEF Heaps, Size
<1>5. ASSUME NEW i \in 0 .. n - 1
      PROVE  KeyAt(longer, i) = KeyAt(heap, i)
  <2>1. heap.data \in Seq(keys) /\ i + 1 \in 1 .. Len(heap.data)
    BY <1>0, <1>2 DEF Heaps, Size
  <2>2. QED
    BY <1>4, <2>1 DEF KeyAt
<1>6. /\ Places(longer) \ {n} = Places(heap) /\ n \in Places(longer)
      /\ Places(heap) = 0 .. n - 1 /\ n \in Nat
  BY <1>0, <1>2, <1>4 DEF Places
<1>7. IsHole(longer, n, key)
  <2>1. ASSUME NEW i \in Places(heap)
        PROVE  /\ KeyAt(longer, i) = KeyAt(heap, i) /\ KeyAt(heap, i) # key
               /\ longer.loc[KeyAt(heap, i)] \in Nat
    BY <1>4, <1>5, <1>6 DEF KeysOf, IsPlaced
  <2>2. QED
    BY <1>6, <2>1, KeysAreDistinct DEF IsHole
<1>8. Others(longer, n) = KeysOf(heap)
  BY <1>5, <1>6 DEF Others, KeysOf
<1>9. IsFilled(pushed, longer, n, key, keys)
      /\ (IsReadyForUp(longer, n, key, dist) => IsHeap(pushed, dist))
  BY <1>3, <1>4, <1>6, <1>7, UpSifts
<1>10. ASSUME IsHeap(heap, dist)
       PROVE  IsReadyForUp(longer, n, key, dist)
  <2>1. ASSUME NEW i \in 1 .. Size(longer) - 1
        PROVE  /\ Parent(i) # n
               /\ i # n => dist[KeyAt(longer, Parent(i))] <= dist[KeyAt(longer, i)]
    <3>1. i \in Nat \ {0} /\ Parent(i) \in 0 .. i - 1
      BY <1>4, <1>6, ParentIsBelow
    <3>2. Parent(i) \in 0 .. n - 1
      BY <1>4, <1>6, <3>1
    <3>3. ASSUME i # n PROVE dist[KeyAt(longer, Parent(i))] <= dist[KeyAt(longer, i)]
      <4>1. i \in 1 .. n - 1 /\ i \in 0 .. n - 1
        BY <1>4, <1>6, <3>3
      <4>2. dist[KeyAt(heap, Parent(i))] <= dist[KeyAt(heap, i)]
        BY <1>2, <1>10, <4>1 DEF IsHeap
      <4>3. QED
        BY <1>5, <3>2, <4>1, <4>2
    <3>4. QED
      BY <1>6, <3>2, <3>3
  <2>2. QED
    BY <2>1 DEF IsReadyForUp, OrderAwayFrom, ParentFits, FitsAbove
<1>11. LocKept(pushed, heap, KeysOf(heap) \cup {key})
  BY <1>4, <1>8, <1>9 DEF IsFilled, LocKept
<1>12. QED
  BY <1>2, <1>4, <1>8, <1>9, <1>10, <1>11 DEF IsFilled, IsPushed

(* push_or_update, when only the key's own distance has changed, and for the
   better if the key is in the heap.  A key that is there has to be found. *)
THEOREM PushOrUpdateKeepsTheHeap ==
  ASSUME NEW keys, NEW old \in [keys -> Int], NEW dist \in [keys -> Int],
         NEW heap, IsQueue(heap, keys, old), NEW key \in keys,
         \A k \in keys \ {key} : dist[k] = old[k],
         key \in KeysOf(heap) => HasKey(heap, key) /\ dist[key] <= old[key]
  PROVE  /\ IsQueue(PushOrUpdate(heap, key, dist), keys, dist)
         /\ KeysOf(PushOrUpdate(heap, key, dist)) = KeysOf(heap) \cup {key}
         /\ LocKept(PushOrUpdate(heap, key, dist), heap, KeysOf(heap) \cup {key})
<1>. PICK updated : updated = PushOrUpdate(heap, key, dist)
  OBVIOUS
<1>1. heap \in Heaps(keys) /\ IsPlaced(heap) /\ IsHeap(heap, old)
  BY DEF IsQueue
<1>2. CASE key \in KeysOf(heap)
  <2>1. MayUpdate(heap, key, old, dist)
    <3>1. DOMAIN dist = keys
      OBVIOUS
    <3>2. QED
      BY <1>1, <1>2, <3>1 DEF MayUpdate
  <2>2. /\ updated \in Heaps(keys) /\ IsPlaced(updated) /\ KeysOf(updated) = KeysOf(heap)
        /\ LocKept(updated, heap, KeysOf(heap)) /\ IsHeap(updated, dist)
    BY <1>1, <1>2, <2>1, UpdateInHeap
  <2>3. KeysOf(heap) = KeysOf(heap) \cup {key}
    BY <1>2
  <2>4. QED
    BY <2>2, <2>3 DEF IsQueue
<1>3. CASE key \notin KeysOf(heap)
  <2>1. updated = Push(heap, key, dist)
    BY <1>3, HasKeyIsQueued DEF PushOrUpdate
  <2>2. IsHeap(heap, dist)
    <3>1. ASSUME NEW i \in 1 .. Size(heap) - 1
          PROVE  dist[KeyAt(heap, Parent(i))] <= dist[KeyAt(heap, i)]
      <4>1. Parent(i) \in Places(heap) /\ i \in Places(heap)
        BY <1>1, KeyAtType, ParentIsBelow DEF Places
      <4>2. KeyAt(heap, i) \in keys \ {key} /\ KeyAt(heap, Parent(i)) \in keys \ {key}
        BY <1>1, <1>3, <4>1, KeyAtType DEF KeysOf
      <4>3. QED
        BY <1>1, <4>2 DEF IsHeap
    <3>2. QED
      BY <3>1 DEF IsHeap
  <2>3. QED
    BY <1>1, <1>3, <2>1, <2>2, PushOnHeap DEF IsQueue, IsPushed
<1>4. QED
  BY <1>2, <1>3

-----------------------------------------------------------------------------
(* The top *)

(* swap_heap_elements: the keys are where they should be, whatever the map of
   places says. *)
LEMMA SwappedFacts ==
  ASSUME NEW keys, NEW heap \in Heaps(keys), IsPlaced(heap),
         NEW i \in Places(heap), i # 0,
         NEW swapped, swapped = Swapped(heap, i)
  PROVE  /\ swapped \in Heaps(keys) /\ IsPlaced(swapped)
         /\ KeysOf(swapped) = KeysOf(heap) /\ Size(swapped) = Size(heap)
         /\ LocKept(swapped, heap, KeysOf(heap))
         /\ KeyAt(swapped, 0) = KeyAt(heap, i) /\ KeyAt(swapped, i) = KeyAt(heap, 0)
         /\ \A j \in Places(heap) \ {0, i} : KeyAt(swapped, j) = KeyAt(heap, j)
<1>0. /\ Size(heap) \in Nat /\ \A j \in Places(heap) : KeyAt(heap, j) \in keys
      /\ 0 \in Places(heap) /\ i \in Nat
  BY KeyAtType DEF Places
<1>. PICK top : top = KeyAt(heap, 0)
  OBVIOUS
<1>. PICK key : key = KeyAt(heap, i)
  OBVIOUS
<1>1. top \in keys /\ key \in keys /\ Top(heap) = top
  BY <1>0 DEF Top
<1>2. swapped = [data |-> [heap.data EXCEPT ![1] = key, ![i + 1] = top],
                 loc |-> [heap.loc EXCEPT ![key] = i, ![top] = 0]]
  BY <1>1 DEF Swapped
<1>3. heap.data \in Seq(keys) /\ heap.loc \in [keys -> Int] /\ Len(heap.data) = Size(heap)
  BY DEF Heaps, Size
<1>4. PICK data : data = [heap.data EXCEPT ![1] = key, ![i + 1] = top]
  OBVIOUS
<1>. PICK first : first = [heap.data EXCEPT ![1] = key]
  OBVIOUS
<1>4a. 1 \in 1 .. Size(heap) /\ i + 1 \in 1 .. Size(heap)
  BY <1>0 DEF Places
<1>4b. first \in Seq(keys) /\ Len(first) = Size(heap)
       /\ \A j \in 1 .. Size(heap) : first[j] = IF j = 1 THEN key ELSE heap.data[j]
  BY <1>1, <1>3, <1>4a
<1>4c. data = [first EXCEPT ![i + 1] = top]
  BY <1>4
<1>5. data \in Seq(keys) /\ Len(data) = Size(heap)
  BY <1>1, <1>4a, <1>4b, <1>4c
<1>6. \A j \in 1 .. Size(heap) :
        data[j] = IF j = i + 1 THEN top ELSE IF j = 1 THEN key ELSE heap.data[j]
  BY <1>4b, <1>4c
<1>7. PICK loc : loc = [heap.loc EXCEPT ![key] = i, ![top] = 0]
  OBVIOUS
<1>8. /\ loc \in [keys -> Int]
      /\ \A k \in keys : loc[k] = IF k = top THEN 0 ELSE IF k = key THEN i ELSE heap.loc[k]
  <2>. PICK one : one = [heap.loc EXCEPT ![key] = i]
    OBVIOUS
  <2>1. /\ one \in [keys -> Int]
        /\ \A k \in keys : one[k] = IF k = key THEN i ELSE heap.loc[k]
    BY <1>0, <1>1, <1>3
  <2>2. loc = [one EXCEPT ![top] = 0]
    BY <1>7
  <2>3. QED
    BY <1>1, <2>1, <2>2
<1>9. swapped.data = data /\ swapped.loc = loc /\ swapped = [data |-> data, loc |-> loc]
  BY <1>2, <1>4, <1>7
<1>10. swapped \in Heaps(keys) /\ Size(swapped) = Size(heap) /\ Places(swapped) = Places(heap)
  BY <1>5, <1>8, <1>9 DEF Heaps, Size, Places
<1>11. \A j \in Places(heap) : j + 1 \in 1 .. Size(heap) /\ j \in Nat
  BY <1>0 DEF Places
<1>12. \A j \in Places(heap) :
         KeyAt(swapped, j) = IF j = i THEN top ELSE IF j = 0 THEN key ELSE KeyAt(heap, j)
  BY <1>0, <1>6, <1>9, <1>11 DEF KeyAt
<1>13. KeysOf(swapped) = KeysOf(heap)
  <2>1. ASSUME NEW k \in KeysOf(swapped) PROVE k \in KeysOf(heap)
    BY <1>0, <1>10, <1>12 DEF KeysOf
  <2>2. ASSUME NEW k \in KeysOf(heap) PROVE k \in KeysOf(swapped)
    <3>1. PICK j \in Places(heap) : k = KeyAt(heap, j)
      BY DEF KeysOf
    <3>2. \E l \in Places(heap) : k = KeyAt(swapped, l)
      BY <1>0, <1>12, <3>1
    <3>3. QED
      BY <1>10, <3>2 DEF KeysOf
  <2>3. QED
    BY <2>1, <2>2
<1>14. KeysDiffer(swapped)
  <2>1. ASSUME NEW j \in Places(heap), NEW l \in Places(heap),
               KeyAt(swapped, j) = KeyAt(swapped, l)
        PROVE  j = l
    <3>1. \A m, n \in Places(heap) : KeyAt(heap, m) = KeyAt(heap, n) => m = n
      BY KeysAreDistinct
    <3>2. QED
      BY <1>0, <1>12, <2>1, <3>1
  <2>2. QED
    BY <1>10, <2>1 DEF KeysDiffer
<1>15. ASSUME NEW k \in KeysOf(heap) PROVE loc[k] \in Nat
  <2>1. k \in keys /\ heap.loc[k] \in Nat
    BY <1>0, <1>15 DEF IsPlaced, KeysOf
  <2>2. QED
    BY <1>0, <1>8, <2>1
<1>16. IsPlaced(swapped)
  BY <1>9, <1>13, <1>14, <1>15 DEF IsPlaced
<1>17. LocKept(swapped, heap, KeysOf(heap))
  <2>1. top \in KeysOf(heap) /\ key \in KeysOf(heap)
    BY <1>0 DEF KeysOf
  <2>2. QED
    BY <1>3, <1>8, <1>9, <2>1 DEF LocKept
<1>18. QED
  BY <1>0, <1>10, <1>12, <1>13, <1>16, <1>17

(* preserve_heap_property_down for the top of a heap that is in order below it *)
LEMMA DownFromTopFacts ==
  ASSUME NEW keys, NEW dist \in [keys -> Int], NEW heap \in Heaps(keys), IsPlaced(heap),
         Size(heap) > 0,
         NEW down, down = DownFromTop(heap, dist)
  PROVE  /\ down \in Heaps(keys) /\ IsPlaced(down)
         /\ KeysOf(down) = KeysOf(heap) /\ Size(down) = Size(heap)
         /\ LocKept(down, heap, KeysOf(heap))
         /\ OrderAwayFrom(heap, 0, dist) => IsHeap(down, dist)
<1>0. /\ Size(heap) \in Nat /\ \A i \in Places(heap) : KeyAt(heap, i) \in keys
      /\ 0 \in Places(heap) /\ Arity \in Nat
  BY KeyAtType, ArityAssumption DEF Places
<1>1. Top(heap) = KeyAt(heap, 0) /\ Top(heap) \in keys
  BY <1>0 DEF Top
<1>2. IsHole(heap, 0, Top(heap)) /\ Others(heap, 0) \cup {Top(heap)} = KeysOf(heap)
  <2>1. IsHole(heap, 0, Top(heap))
    BY <1>0, <1>1, KeysAreDistinct DEF IsHole, IsPlaced, KeysOf
  <2>2. QED
    BY <1>0, <1>1, <2>1 DEF Others, KeysOf
<1>. PICK best : best = BestChild(heap, 0, dist)
  OBVIOUS
<1>. DEFINE isLeast == \A c \in Children(heap, 0) : dist[KeyAt(heap, c)] >= dist[Top(heap)]
<1>3. CASE isLeast
  <2>1. down = heap
    BY <1>3 DEF DownFromTop
  <2>2. ASSUME OrderAwayFrom(heap, 0, dist), NEW i \in 1 .. Size(heap) - 1
        PROVE  dist[KeyAt(heap, Parent(i))] <= dist[KeyAt(heap, i)]
    <3>1. CASE Parent(i) = 0
      <4>1. i \in Children(heap, 0) /\ i \in Places(heap)
        BY <1>0, <3>1, ChildrenAre DEF Places
      <4>2. dist[KeyAt(heap, i)] >= dist[Top(heap)]
        BY <1>3, <4>1
      <4>3. dist[KeyAt(heap, i)] \in Int /\ dist[Top(heap)] \in Int
        BY <1>0, <1>1, <4>1
      <4>4. QED
        BY <1>1, <3>1, <4>2, <4>3
    <3>2. CASE Parent(i) # 0
      BY <2>2, <3>2 DEF OrderAwayFrom
    <3>3. QED
      BY <3>1, <3>2
  <2>3. QED
    BY <2>1, <2>2 DEF IsHeap, LocKept
<1>4. ASSUME ~isLeast
      PROVE  /\ best \in Children(heap, 0) /\ dist[KeyAt(heap, best)] < dist[Top(heap)]
             /\ \A c \in Children(heap, 0) : dist[KeyAt(heap, best)] <= dist[KeyAt(heap, c)]
             /\ best \in Places(heap) /\ best \in 1 .. Size(heap) - 1 /\ Parent(best) = 0
  <2>1. PICK c \in Children(heap, 0) : ~(dist[KeyAt(heap, c)] >= dist[Top(heap)])
    BY <1>4
  <2>2. /\ best \in Children(heap, 0)
        /\ \A e \in Children(heap, 0) : dist[KeyAt(heap, best)] <= dist[KeyAt(heap, e)]
    BY <1>0, <2>1, BestChildIsBest
  <2>3. /\ best \in Places(heap) /\ best \in 1 .. Size(heap) - 1 /\ Parent(best) = 0
        /\ c \in Places(heap)
    BY <1>0, <2>1, <2>2, ChildIsAbove
  <2>4. /\ dist[KeyAt(heap, c)] \in Int /\ dist[KeyAt(heap, best)] \in Int
        /\ dist[Top(heap)] \in Int
    BY <1>0, <1>1, <2>3
  <2>5. QED
    BY <2>1, <2>2, <2>3, <2>4
<1>5. CASE ~isLeast /\ Size(heap) > Arity
  <2>. PICK moved : moved = Put(heap, 0, KeyAt(heap, best))
    OBVIOUS
  <2>1. down = Down(moved, Top(heap), best, dist)
    BY <1>5 DEF DownFromTop
  <2>2. best # 0
    BY <1>4, <1>5
  <2>3. /\ moved \in Heaps(keys) /\ Size(moved) = Size(heap)
        /\ IsHole(moved, best, Top(heap)) /\ Others(moved, best) = Others(heap, 0)
        /\ LocKept(moved, heap, Others(heap, 0))
    BY <1>0, <1>1, <1>2, <1>4, <1>5, <2>2, HoleMoves
  <2>4. best \in Places(moved)
    BY <1>4, <1>5, <2>3 DEF Places
  <2>5. /\ IsFilled(down, moved, best, Top(heap), keys)
        /\ IsReadyForDown(moved, best, Top(heap), dist) => IsHeap(down, dist)
    BY <1>1, <2>1, <2>3, <2>4, DownSifts
  <2>6. ASSUME OrderAwayFrom(heap, 0, dist)
        PROVE  IsReadyForDown(moved, best, Top(heap), dist)
    <3>1. ParentFits(heap, 0, dist)
      BY DEF ParentFits
    <3>2. QED
      BY <1>0, <1>1, <1>2, <1>4, <1>5, <2>6, <3>1, DownStep DEF IsReadyForDown
  <2>7. LocKept(moved, heap, KeysOf(heap))
    BY <1>2, <2>3 DEF LocKept
  <2>8. LocKept(down, heap, KeysOf(heap))
    BY <1>2, <2>3, <2>5, <2>7, LocKeptIsTransitive DEF IsFilled
  <2>9. QED
    BY <1>2, <2>3, <2>5, <2>6, <2>8 DEF IsFilled
<1>6. CASE ~isLeast /\ ~(Size(heap) > Arity)
  <2>1. down = Swapped(heap, best)
    BY <1>6 DEF DownFromTop
  <2>2. best # 0
    BY <1>4, <1>6
  <2>3. /\ down \in Heaps(keys) /\ IsPlaced(down)
        /\ KeysOf(down) = KeysOf(heap) /\ Size(down) = Size(heap)
        /\ LocKept(down, heap, KeysOf(heap))
        /\ KeyAt(down, 0) = KeyAt(heap, best) /\ KeyAt(down, best) = KeyAt(heap, 0)
        /\ \A j \in Places(heap) \ {0, best} : KeyAt(down, j) = KeyAt(heap, j)
    BY <1>4, <1>6, <2>1, <2>2, SwappedFacts
  <2>4. IsFlat(heap)
    BY <1>0, <1>6, SmallIsFlat
  <2>5. ASSUME NEW i \in 1 .. Size(heap) - 1
        PROVE  dist[KeyAt(down, 0)] <= dist[KeyAt(down, i)]
    <3>1. i \in Places(heap) /\ i # 0 /\ i \in Children(heap, 0)
      BY <1>0, <2>4, ChildrenAre DEF Places, IsFlat
    <3>2. CASE i = best
      <4>1. dist[KeyAt(heap, best)] < dist[Top(heap)]
        BY <1>4, <1>6
      <4>2. dist[KeyAt(heap, best)] \in Int /\ dist[Top(heap)] \in Int
        BY <1>0, <1>1, <1>4, <1>6
      <4>3. QED
        BY <1>1, <2>3, <3>2, <4>1, <4>2
    <3>3. CASE i # best
      <4>1. dist[KeyAt(heap, best)] <= dist[KeyAt(heap, i)]
        BY <1>4, <1>6, <3>1
      <4>2. QED
        BY <2>3, <3>1, <3>3, <4>1
    <3>4. QED
      BY <3>2, <3>3
  <2>6. IsHeap(down, dist)
    BY <2>3, <2>4, <2>5 DEF IsHeap, IsFlat
  <2>7. QED
    BY <2>3, <2>6
<1>7. QED
  BY <1>3, <1>5, <1>6

(* pop: the last key goes to the top and from there down, and the keys that stay
   are in order and there once. *)
LEMMA PopOffHeap ==
  ASSUME NEW keys, NEW dist \in [keys -> Int], NEW heap \in Heaps(keys), IsPlaced(heap),
         Size(heap) > 0,
         NEW popped, popped = Pop(heap, dist)
  PROVE  /\ popped \in Heaps(keys) /\ IsPlaced(popped)
         /\ KeysOf(popped) = KeysOf(heap) \ {Top(heap)} /\ Size(popped) = Size(heap) - 1
         /\ LocKept(popped, heap, KeysOf(heap) \ {Top(heap)})
         /\ IsHeap(heap, dist) \/ IsFlat(popped) => IsHeap(popped, dist)
         /\ \A old \in [keys -> Int] :
              IsHeap(heap, old) /\ (\A k \in keys \ {Top(heap)} : dist[k] = old[k])
                => IsHeap(popped, dist)
<1>0. /\ Size(heap) \in Nat /\ Size(heap) >= 1
      /\ \A i \in Places(heap) : KeyAt(heap, i) \in keys
  BY KeyAtType
<1>1. PICK n : n = Size(heap) - 1
  OBVIOUS
<1>2. PICK last : last = KeyAt(heap, n)
  OBVIOUS
<1>3. PICK rest : rest = [heap EXCEPT !.data = SubSeq(@, 1, n)]
  OBVIOUS
<1>4. popped = IF n = 0 THEN rest ELSE DownFromTop(Put(rest, 0, last), dist)
  BY <1>0, <1>1, <1>2, <1>3 DEF Pop, WithoutLast
<1>5. n \in Nat /\ n \in Places(heap) /\ 0 \in Places(heap) /\ last \in keys /\ n + 1 = Size(heap)
  BY <1>0, <1>1, <1>2 DEF Places
<1>6. /\ rest.data = SubSeq(heap.data, 1, n) /\ rest.loc = heap.loc
      /\ rest \in Heaps(keys) /\ Size(rest) = n
  <2>1. heap.data \in Seq(keys) /\ heap.loc \in [keys -> Int]
    BY <1>0 DEF Heaps
  <2>2. rest.data = SubSeq(heap.data, 1, n) /\ rest.loc = heap.loc
    BY <1>0, <1>3 DEF Heaps
  <2>3. rest = [data |-> SubSeq(heap.data, 1, n), loc |-> heap.loc]
    BY <1>0, <1>3 DEF Heaps
  <2>4. n \in Nat /\ n <= Len(heap.data) /\ \A i \in 1 .. n : heap.data[i] \in keys
    BY <1>5, <2>1 DEF Size
  <2>5. SubSeq(heap.data, 1, n) \in Seq(keys) /\ Len(SubSeq(heap.data, 1, n)) = n
    BY <2>1, <2>4, SubSeqProperties
  <2>6. QED
    BY <2>1, <2>2, <2>3, <2>5 DEF Heaps, Size
<1>7. \A i \in 0 .. n - 1 : KeyAt(rest, i) = KeyAt(heap, i) /\ i \in Places(heap)
  BY <1>0, <1>5, <1>6 DEF KeyAt, Heaps, Size, Places
<1>8. \A i \in 0 .. n - 1 : heap.loc[KeyAt(heap, i)] \in Nat
  BY <1>7 DEF IsPlaced, KeysOf
<1>9. \A i \in 0 .. n - 1 : i \in Places(rest)
  BY <1>6 DEF Places
<1>10. \A i \in Places(rest) : i \in 0 .. n - 1
  BY <1>6 DEF Places
<1>11. \A i \in Places(heap) : i \in 0 .. n - 1 \/ i = n
  BY <1>5 DEF Places
<1>12. IsPlaced(heap)
  OBVIOUS
<1>13. CASE n = 0
  <2>1. popped = rest
    BY <1>4, <1>13
  <2>2. Places(rest) = {} /\ Places(heap) = {0}
    BY <1>5, <1>6, <1>13 DEF Places
  <2>3. IsHeap(rest, dist) /\ IsPlaced(rest)
    BY <1>6, <1>13, <2>2 DEF IsHeap, IsPlaced, KeysDiffer, KeysOf
  <2>4. KeysOf(rest) = {} /\ KeysOf(heap) = {Top(heap)}
    BY <2>2 DEF KeysOf, Top
  <2>5. LocKept(rest, heap, KeysOf(heap) \ {Top(heap)})
    BY <1>6 DEF LocKept
  <2>6. QED
    BY <1>1, <1>6, <2>1, <2>3, <2>4, <2>5
<1>14. CASE n > 0
  <2>1. n # 0 /\ 0 \in 0 .. n - 1 /\ 0 \in Places(rest)
    BY <1>5, <1>9, <1>14
  <2>2. IsHole(rest, 0, last)
    <3>1. ASSUME NEW i \in Places(rest)
          PROVE  KeyAt(rest, i) # last /\ rest.loc[KeyAt(rest, i)] \in Nat
      <4>1. i \in 0 .. n - 1 /\ i # n
        BY <1>5, <1>10
      <4>2. KeyAt(heap, i) # last
        BY <1>2, <1>5, <1>7, <1>12, <4>1, KeysAreDistinct
      <4>3. QED
        BY <1>6, <1>7, <1>8, <4>1, <4>2
    <3>2. \A i, j \in Places(rest) : KeyAt(rest, i) = KeyAt(rest, j) => i = j
      BY <1>7, <1>10, <1>12, KeysAreDistinct
    <3>3. QED
      BY <3>1, <3>2 DEF IsHole
  <2>3. Others(rest, 0) \cup {last} = KeysOf(heap) \ {Top(heap)}
    <3>1. ASSUME NEW k \in Others(rest, 0) \cup {last} PROVE k \in KeysOf(heap) \ {Top(heap)}
      <4>1. PICK i \in Places(heap) : i # 0 /\ k = KeyAt(heap, i)
        <5>1. CASE k = last
          BY <1>2, <1>5, <1>14, <5>1
        <5>2. CASE k \in Others(rest, 0)
          BY <1>7, <1>10, <5>2 DEF Others
        <5>3. QED
          BY <3>1, <5>1, <5>2
      <4>2. k # Top(heap)
        BY <1>5, <1>12, <4>1, KeysAreDistinct DEF Top
      <4>3. QED
        BY <4>1, <4>2 DEF KeysOf
    <3>2. ASSUME NEW k \in KeysOf(heap), k # Top(heap) PROVE k \in Others(rest, 0) \cup {last}
      <4>1. PICK i \in Places(heap) : k = KeyAt(heap, i)
        BY DEF KeysOf
      <4>2. i # 0
        BY <3>2, <4>1 DEF Top
      <4>3. CASE i = n
        BY <1>2, <4>1, <4>3
      <4>4. CASE i \in 0 .. n - 1
        BY <1>7, <1>9, <4>1, <4>2, <4>4 DEF Others
      <4>5. QED
        BY <1>11, <4>3, <4>4
    <3>3. QED
      BY <3>1, <3>2
  <2>. PICK filled : filled = Put(rest, 0, last)
    OBVIOUS
  <2>4a. /\ filled \in Heaps(keys) /\ Size(filled) = n /\ IsPlaced(filled)
         /\ \A i \in Places(rest) \ {0} : KeyAt(filled, i) = KeyAt(rest, i)
         /\ KeysOf(filled) = Others(rest, 0) \cup {last}
         /\ LocKept(filled, rest, Others(rest, 0) \cup {last})
    BY <1>5, <1>6, <2>1, <2>2, HoleIsFilled
  <2>4b. /\ popped \in Heaps(keys) /\ IsPlaced(popped)
         /\ KeysOf(popped) = KeysOf(filled) /\ Size(popped) = n
         /\ LocKept(popped, filled, KeysOf(filled))
         /\ OrderAwayFrom(filled, 0, dist) => IsHeap(popped, dist)
    <3>1. popped = DownFromTop(filled, dist) /\ Size(filled) > 0
      BY <1>4, <1>14, <2>1, <2>4a
    <3>2. QED
      BY <2>4a, <3>1, DownFromTopFacts
  <2>4c. ASSUME OrderAwayFrom(rest, 0, dist)
         PROVE  OrderAwayFrom(filled, 0, dist)
    <3>1. ASSUME NEW i \in 1 .. n - 1, Parent(i) # 0
          PROVE  i \in Places(rest) \ {0} /\ Parent(i) \in Places(rest) \ {0}
      <4>1. i \in Nat \ {0} /\ Parent(i) \in 0 .. i - 1
        BY <1>5, ParentIsBelow
      <4>2. i \in 0 .. n - 1 /\ Parent(i) \in 0 .. n - 1
        BY <1>5, <4>1
      <4>3. QED
        BY <1>9, <3>1, <4>1, <4>2
    <3>2. QED
      BY <1>6, <2>4a, <2>4c, <3>1 DEF OrderAwayFrom
  <2>4. /\ IsFilled(popped, rest, 0, last, keys)
        /\ IsReadyForDown(rest, 0, last, dist) => IsHeap(popped, dist)
    <3>1. LocKept(popped, rest, Others(rest, 0) \cup {last})
      <4>1. LocKept(popped, filled, Others(rest, 0) \cup {last})
        BY <2>4a, <2>4b
      <4>2. QED
        BY <1>6, <2>4a, <2>4b, <4>1, LocKeptIsTransitive
    <3>2. QED
      BY <1>6, <2>4a, <2>4b, <2>4c, <3>1 DEF IsFilled, IsReadyForDown
  <2>5. ASSUME IsHeap(heap, dist) \/ IsFlat(popped)
        PROVE  IsReadyForDown(rest, 0, last, dist)
    <3>1. ASSUME NEW i \in 1 .. Size(rest) - 1, Parent(i) # 0
          PROVE  dist[KeyAt(rest, Parent(i))] <= dist[KeyAt(rest, i)]
      <4>1. i \in Nat \ {0} /\ Parent(i) \in 0 .. i - 1
        BY <1>5, <1>6, ParentIsBelow
      <4>2. i \in 0 .. n - 1 /\ Parent(i) \in 0 .. n - 1 /\ i \in 1 .. Size(heap) - 1
        BY <1>5, <1>6, <4>1
      <4>3. IsHeap(heap, dist)
        BY <2>4, <2>5, <3>1 DEF IsFlat, IsFilled
      <4>4. QED
        BY <1>7, <4>2, <4>3 DEF IsHeap
    <3>2. QED
      BY <3>1 DEF IsReadyForDown, OrderAwayFrom, ParentFits, FitsBelow
  <2>6. LocKept(popped, heap, KeysOf(heap) \ {Top(heap)})
    BY <1>6, <2>3, <2>4 DEF IsFilled, LocKept
  <2>7. ASSUME NEW old \in [keys -> Int], IsHeap(heap, old),
               \A k \in keys \ {Top(heap)} : dist[k] = old[k]
        PROVE  IsReadyForDown(rest, 0, last, dist)
    <3>1. ASSUME NEW i \in 1 .. Size(rest) - 1, Parent(i) # 0
          PROVE  dist[KeyAt(rest, Parent(i))] <= dist[KeyAt(rest, i)]
      <4>1. i \in Nat \ {0} /\ Parent(i) \in 0 .. i - 1
        BY <1>5, <1>6, ParentIsBelow
      <4>2. i \in 0 .. n - 1 /\ Parent(i) \in 0 .. n - 1 /\ i \in 1 .. Size(heap) - 1 /\ i # 0
        BY <1>5, <1>6, <4>1
      <4>3. i \in Places(heap) /\ Parent(i) \in Places(heap)
        BY <1>7, <4>2
      <4>4. KeyAt(heap, i) # Top(heap) /\ KeyAt(heap, Parent(i)) # Top(heap)
        BY <1>5, <1>12, <3>1, <4>2, <4>3, KeysAreDistinct DEF Top
      <4>5. KeyAt(heap, i) \in keys \ {Top(heap)} /\ KeyAt(heap, Parent(i)) \in keys \ {Top(heap)}
        BY <1>0, <4>3, <4>4
      <4>6. old[KeyAt(heap, Parent(i))] <= old[KeyAt(heap, i)]
        BY <2>7, <4>2 DEF IsHeap
      <4>7. dist[KeyAt(heap, Parent(i))] <= dist[KeyAt(heap, i)]
        BY <2>7, <4>5, <4>6
      <4>8. QED
        BY <1>7, <4>2, <4>7
    <3>2. QED
      BY <3>1 DEF IsReadyForDown, OrderAwayFrom, ParentFits, FitsBelow
  <2>8. QED
    BY <1>1, <1>6, <2>3, <2>4, <2>5, <2>6, <2>7 DEF IsFilled
<1>15. QED
  BY <1>5, <1>13, <1>14

(* pop takes the top away and leaves the other keys in order, each once.  Where
   two keys change places their places are wrong afterwards, and
   the theorem does not say that they are right. *)
THEOREM PopKeepsTheHeap ==
  ASSUME NEW keys, NEW dist \in [keys -> Int],
         NEW heap, IsQueue(heap, keys, dist), Size(heap) > 0
  PROVE  /\ IsQueue(Pop(heap, dist), keys, dist)
         /\ KeysOf(Pop(heap, dist)) = KeysOf(heap) \ {Top(heap)}
         /\ LocKept(Pop(heap, dist), heap, KeysOf(heap) \ {Top(heap)})
BY PopOffHeap DEF IsQueue

(* adjust_top, when only the distance of the top has changed *)
LEMMA AdjustTopOfHeap ==
  ASSUME NEW keys, NEW dist \in [keys -> Int], NEW heap \in Heaps(keys), IsPlaced(heap),
         Size(heap) > 0,
         NEW adjusted, adjusted = AdjustTop(heap, dist)
  PROVE  /\ adjusted \in Heaps(keys) /\ IsPlaced(adjusted)
         /\ KeysOf(adjusted) = KeysOf(heap) /\ Size(adjusted) = Size(heap)
         /\ LocKept(adjusted, heap, KeysOf(heap))
         /\ IsFlat(heap) => IsHeap(adjusted, dist)
         /\ \A old \in [keys -> Int] :
              IsHeap(heap, old) /\ (\A k \in keys \ {Top(heap)} : dist[k] = old[k])
                => IsHeap(adjusted, dist)
<1>1. /\ Size(heap) \in Nat /\ \A i \in Places(heap) : KeyAt(heap, i) \in keys
      /\ 0 \in Places(heap)
  BY KeyAtType DEF Places
<1>2. Top(heap) = KeyAt(heap, 0) /\ Top(heap) \in keys
  BY <1>1 DEF Top
<1>3. IsHole(heap, 0, Top(heap))
  BY <1>1, <1>2, KeysAreDistinct DEF IsHole, IsPlaced, KeysOf
<1>5. /\ adjusted \in Heaps(keys) /\ IsPlaced(adjusted)
      /\ KeysOf(adjusted) = KeysOf(heap) /\ Size(adjusted) = Size(heap)
      /\ LocKept(adjusted, heap, KeysOf(heap))
      /\ OrderAwayFrom(heap, 0, dist) => IsHeap(adjusted, dist)
  BY DownFromTopFacts DEF AdjustTop
<1>6. ASSUME IsFlat(heap)
      PROVE  OrderAwayFrom(heap, 0, dist)
  BY <1>6 DEF IsFlat, OrderAwayFrom
<1>7. ASSUME NEW old \in [keys -> Int], IsHeap(heap, old),
             \A k \in keys \ {Top(heap)} : dist[k] = old[k]
      PROVE  OrderAwayFrom(heap, 0, dist)
  <2>1. ASSUME NEW i \in 1 .. Size(heap) - 1, Parent(i) # 0
        PROVE  dist[KeyAt(heap, Parent(i))] <= dist[KeyAt(heap, i)]
    <3>1. i \in Nat \ {0} /\ Parent(i) \in 0 .. i - 1
      BY <1>1, ParentIsBelow
    <3>2. i \in Places(heap) \ {0} /\ Parent(i) \in Places(heap) \ {0}
      BY <1>1, <2>1, <3>1 DEF Places
    <3>3. KeyAt(heap, i) \in keys \ {Top(heap)} /\ KeyAt(heap, Parent(i)) \in keys \ {Top(heap)}
      BY <1>1, <1>3, <3>2 DEF IsHole
    <3>4. QED
      BY <1>7, <3>3 DEF IsHeap
  <2>2. QED
    BY <2>1 DEF OrderAwayFrom
<1>8. QED
  BY <1>5, <1>6, <1>7

-----------------------------------------------------------------------------
(* What holds of the operations though a key be in the heap twice: the keys come
   from all, a place is given to these alone, and no key is lost. *)

KeysBut(heap, hole) == {KeyAt(heap, j) : j \in Places(heap) \ {hole}}

LEMMA KeysWithout ==
  ASSUME NEW heap, NEW i \in Places(heap)
  PROVE  KeysOf(heap) = KeysBut(heap, i) \cup {KeyAt(heap, i)}
BY DEF KeysOf, KeysBut

OnlyMoves(moved, heap, all, keys) ==
  /\ moved \in Heaps(keys) /\ KeysOf(moved) \subseteq all
  /\ \A k \in keys : moved.loc[k] = heap.loc[k] \/ (k \in all /\ moved.loc[k] \in Nat)

LEMMA MovesAreTransitive ==
  ASSUME NEW keys, NEW all, NEW h1, NEW h2, NEW h3,
         OnlyMoves(h2, h1, all, keys), OnlyMoves(h3, h2, all, keys)
  PROVE  OnlyMoves(h3, h1, all, keys)
BY DEF OnlyMoves

LEMMA PutMoves ==
  ASSUME NEW keys, NEW heap \in Heaps(keys), NEW i \in Places(heap), NEW key \in keys,
         NEW all, KeysOf(heap) \subseteq all, key \in all,
         NEW moved, moved = Put(heap, i, key)
  PROVE  /\ OnlyMoves(moved, heap, all, keys) /\ Size(moved) = Size(heap)
         /\ KeysOf(moved) = KeysBut(heap, i) \cup {key}
         /\ \A p \in Places(heap) \ {i} : KeyAt(heap, p) = key => KeysBut(moved, p) = KeysBut(heap, i)
<1>1. /\ moved \in Heaps(keys) /\ Size(moved) = Size(heap)
      /\ KeyAt(moved, i) = key
      /\ \A j \in Places(heap) \ {i} : KeyAt(moved, j) = KeyAt(heap, j)
      /\ moved.loc[key] = i
      /\ \A k \in keys \ {key} : moved.loc[k] = heap.loc[k]
  BY PutFacts
<1>2. i \in Nat /\ Places(moved) = Places(heap)
  BY <1>1, KeyAtType DEF Places
<1>3. KeysOf(moved) \subseteq all
  BY <1>1, <1>2 DEF KeysOf
<1>4. KeysBut(moved, i) = KeysBut(heap, i)
  BY <1>1, <1>2 DEF KeysBut
<1>5. KeysOf(moved) = KeysBut(heap, i) \cup {key}
  BY <1>1, <1>2, <1>4, KeysWithout
<1>6. ASSUME NEW p \in Places(heap) \ {i}, KeyAt(heap, p) = key
      PROVE  KeysBut(moved, p) = KeysBut(heap, i)
  <2>1. KeysBut(moved, p) \subseteq KeysBut(heap, i)
    <3>1. ASSUME NEW j \in Places(moved) \ {p}
          PROVE  KeyAt(moved, j) \in KeysBut(heap, i)
      <4>1. CASE j = i
        BY <1>1, <1>6, <4>1 DEF KeysBut
      <4>2. CASE j # i
        BY <1>1, <1>2, <4>2 DEF KeysBut
      <4>3. QED
        BY <4>1, <4>2
    <3>2. QED
      BY <3>1 DEF KeysBut
  <2>2. KeysBut(heap, i) \subseteq KeysBut(moved, p)
    <3>1. ASSUME NEW j \in Places(heap) \ {i}
          PROVE  KeyAt(heap, j) \in KeysBut(moved, p)
      <4>1. CASE j = p
        BY <1>1, <1>2, <1>6, <4>1 DEF KeysBut
      <4>2. CASE j # p
        BY <1>1, <1>2, <4>2 DEF KeysBut
      <4>3. QED
        BY <4>1, <4>2
    <3>2. QED
      BY <3>1 DEF KeysBut
  <2>3. QED
    BY <2>1, <2>2
<1>7. QED
  BY <1>1, <1>2, <1>3, <1>5, <1>6 DEF OnlyMoves

LEMMA UpMoves ==
  ASSUME NEW keys, NEW heap \in Heaps(keys), NEW key \in keys, NEW dist,
         NEW hole \in Places(heap), NEW all, KeysOf(heap) \subseteq all, key \in all,
         NEW risen, risen = Up(heap, key, hole, dist)
  PROVE  /\ OnlyMoves(risen, heap, all, keys) /\ Size(risen) = Size(heap)
         /\ KeysOf(risen) = KeysBut(heap, hole) \cup {key}
<1>. DEFINE D == WithHole(heap)
            Moved(at) == <<Put(at[1], at[2], KeyAt(at[1], Parent(at[2]))), Parent(at[2])>>
            stops == {at \in D : ~IsWorse(at, key, dist)}
            base == [at \in D |-> Put(at[1], at[2], key)]
            next == [at \in D |-> Moved(at)]
            rank == [at \in D |-> at[2]]
            Inv == {at \in D : /\ OnlyMoves(at[1], heap, all, keys)
                               /\ KeysBut(at[1], at[2]) = KeysBut(heap, hole)}
            Post == {r \in Heaps(keys) : /\ OnlyMoves(r, heap, all, keys) /\ Size(r) = Size(heap)
                                         /\ KeysOf(r) = KeysBut(heap, hole) \cup {key}}
<1>1. HeapsLike(heap) = HeapsOfSize(keys, Size(heap)) /\ Size(heap) \in Nat
  BY LikeIsOfSize, KeyAtType
<1>2. ASSUME NEW at \in D
      PROVE  /\ at[1] \in Heaps(keys) /\ Size(at[1]) = Size(heap)
             /\ at[2] \in Places(at[1]) /\ at[2] \in Nat /\ Places(at[1]) = Places(heap)
             /\ at = <<at[1], at[2]>>
  BY <1>1 DEF WithHole, HeapsOfSize, Places
<1>3. \A h \in Heaps(keys), j \in Places(heap) : Size(h) = Size(heap) => <<h, j>> \in D
  BY <1>1 DEF WithHole, HeapsOfSize, Places
<1>4. PICK up :
        /\ Up(heap, key, hole, dist) = up[<<heap, hole>>]
        /\ \A at \in D : up[at] = IF IsWorse(at, key, dist) THEN up[Moved(at)]
                                                      ELSE Put(at[1], at[2], key)
  BY UpIsLoop
<1>5. \A at \in D : up[at] = IF at \in stops THEN base[at] ELSE up[next[at]]
  BY <1>4
<1>6. rank \in [D -> Nat] /\ Inv \subseteq D
  BY <1>2
<1>7. ASSUME NEW at \in Inv, at \in stops
      PROVE  base[at] \in Post
  <2>1. /\ at \in D /\ OnlyMoves(at[1], heap, all, keys) /\ base[at] = Put(at[1], at[2], key)
        /\ KeysBut(at[1], at[2]) = KeysBut(heap, hole)
    BY <1>7
  <2>. HIDE DEF D, base
  <2>2. /\ OnlyMoves(base[at], at[1], all, keys) /\ Size(base[at]) = Size(heap)
        /\ KeysOf(base[at]) = KeysBut(at[1], at[2]) \cup {key}
    BY <1>2, <2>1, PutMoves DEF OnlyMoves
  <2>3. OnlyMoves(base[at], heap, all, keys)
    BY <2>1, <2>2, MovesAreTransitive
  <2>4. base[at] \in Heaps(keys)
    BY <2>3 DEF OnlyMoves
  <2>5. QED
    BY <2>1, <2>2, <2>3, <2>4
<1>8. ASSUME NEW at \in Inv, at \notin stops
      PROVE  next[at] \in Inv /\ rank[next[at]] < rank[at]
  <2>1. /\ at \in D /\ OnlyMoves(at[1], heap, all, keys) /\ IsWorse(at, key, dist)
        /\ KeysBut(at[1], at[2]) = KeysBut(heap, hole)
    BY <1>8
  <2>. PICK p : p = Parent(at[2])
    OBVIOUS
  <2>2. at[2] > 0 /\ p \in Places(at[1]) /\ p < at[2]
    <3>1. at[2] \in Nat \ {0}
      BY <1>2, <2>1 DEF IsWorse
    <3>2. p \in 0 .. at[2] - 1
      BY <3>1, ParentIsBelow
    <3>3. QED
      BY <1>1, <1>2, <2>1, <3>1, <3>2 DEF Places
  <2>. PICK moved : moved = Put(at[1], at[2], KeyAt(at[1], p))
    OBVIOUS
  <2>3. KeyAt(at[1], p) \in keys /\ KeyAt(at[1], p) \in all /\ KeysOf(at[1]) \subseteq all
    BY <1>2, <2>1, <2>2, KeyAtType DEF OnlyMoves, KeysOf
  <2>4. /\ OnlyMoves(moved, at[1], all, keys) /\ Size(moved) = Size(heap)
        /\ KeysBut(moved, p) = KeysBut(heap, hole)
    <3>1. p \in Places(at[1]) \ {at[2]}
      BY <1>2, <2>2
    <3>2. QED
      BY <1>2, <2>1, <2>3, <3>1, PutMoves
  <2>5. OnlyMoves(moved, heap, all, keys) /\ moved \in Heaps(keys)
    BY <2>1, <2>4, MovesAreTransitive DEF OnlyMoves
  <2>6. next[at] = <<moved, p>> /\ rank[at] = at[2]
    BY <2>1
  <2>7. <<moved, p>> \in D
    BY <1>2, <1>3, <2>1, <2>2, <2>4, <2>5
  <2>8. rank[<<moved, p>>] = p
    BY <2>7
  <2>9. QED
    BY <2>2, <2>4, <2>5, <2>6, <2>7, <2>8
<1>9. <<heap, hole>> \in Inv
  BY <1>3 DEF OnlyMoves
<1>. HIDE DEF D, stops, base, next, rank, Inv, Post, Moved
<1>10. IsLoop(D, rank, stops, base, next, up, Inv, Post)
  BY <1>5, <1>6, <1>7, <1>8 DEF IsLoop
<1>11. up[<<heap, hole>>] \in Post
  BY <1>9, <1>10, LoopEnds
<1>12. QED
  BY <1>4, <1>11 DEF Post

LEMMA DownMoves ==
  ASSUME NEW keys, NEW heap \in Heaps(keys), NEW key \in keys, NEW dist \in [keys -> Int],
         NEW hole \in Places(heap), NEW all, KeysOf(heap) \subseteq all, key \in all,
         NEW sunk, sunk = Down(heap, key, hole, dist)
  PROVE  /\ OnlyMoves(sunk, heap, all, keys) /\ Size(sunk) = Size(heap)
         /\ KeysOf(sunk) = KeysBut(heap, hole) \cup {key}
<1>. DEFINE D == WithHole(heap)
            Moved(at) == <<Put(at[1], at[2], KeyAt(at[1], Best(at, dist))), Best(at, dist)>>
            stops == {at \in D : ~ChildIsBetter(at, key, dist)}
            base == [at \in D |-> Put(at[1], at[2], key)]
            next == [at \in D |-> Moved(at)]
            rank == [at \in D |-> Size(heap) - at[2]]
            Inv == {at \in D : /\ OnlyMoves(at[1], heap, all, keys)
                               /\ KeysBut(at[1], at[2]) = KeysBut(heap, hole)}
            Post == {r \in Heaps(keys) : /\ OnlyMoves(r, heap, all, keys) /\ Size(r) = Size(heap)
                                         /\ KeysOf(r) = KeysBut(heap, hole) \cup {key}}
<1>1. HeapsLike(heap) = HeapsOfSize(keys, Size(heap)) /\ Size(heap) \in Nat
  BY LikeIsOfSize, KeyAtType
<1>2. ASSUME NEW at \in D
      PROVE  /\ at[1] \in Heaps(keys) /\ Size(at[1]) = Size(heap)
             /\ at[2] \in Places(at[1]) /\ at[2] \in 0 .. Size(heap)
             /\ Places(at[1]) = Places(heap) /\ at = <<at[1], at[2]>>
  BY <1>1 DEF WithHole, HeapsOfSize, Places
<1>3. \A h \in Heaps(keys), j \in Places(heap) : Size(h) = Size(heap) => <<h, j>> \in D
  BY <1>1 DEF WithHole, HeapsOfSize, Places
<1>4. PICK down :
        /\ Down(heap, key, hole, dist) = down[<<heap, hole>>]
        /\ \A at \in D : down[at] = IF ChildIsBetter(at, key, dist) THEN down[Moved(at)]
                                                          ELSE Put(at[1], at[2], key)
  BY DownIsLoop
<1>5. \A at \in D : down[at] = IF at \in stops THEN base[at] ELSE down[next[at]]
  BY <1>4
<1>6. rank \in [D -> Nat] /\ Inv \subseteq D
  BY <1>1, <1>2
<1>7. ASSUME NEW at \in Inv, at \in stops
      PROVE  base[at] \in Post
  <2>1. /\ at \in D /\ OnlyMoves(at[1], heap, all, keys) /\ base[at] = Put(at[1], at[2], key)
        /\ KeysBut(at[1], at[2]) = KeysBut(heap, hole)
    BY <1>7
  <2>. HIDE DEF D, base
  <2>2. /\ OnlyMoves(base[at], at[1], all, keys) /\ Size(base[at]) = Size(heap)
        /\ KeysOf(base[at]) = KeysBut(at[1], at[2]) \cup {key}
    BY <1>2, <2>1, PutMoves DEF OnlyMoves
  <2>3. OnlyMoves(base[at], heap, all, keys)
    BY <2>1, <2>2, MovesAreTransitive
  <2>4. base[at] \in Heaps(keys)
    BY <2>3 DEF OnlyMoves
  <2>5. QED
    BY <2>1, <2>2, <2>3, <2>4
<1>8. ASSUME NEW at \in Inv, at \notin stops
      PROVE  next[at] \in Inv /\ rank[next[at]] < rank[at]
  <2>1. /\ at \in D /\ OnlyMoves(at[1], heap, all, keys) /\ Children(at[1], at[2]) # {}
        /\ KeysBut(at[1], at[2]) = KeysBut(heap, hole)
    BY <1>8 DEF ChildIsBetter
  <2>. PICK c : c = Best(at, dist)
    OBVIOUS
  <2>2. c \in Places(at[1]) /\ at[2] < c
    <3>1. c \in Children(at[1], at[2])
      BY <1>2, <2>1, BestChildIsBest DEF Best
    <3>2. QED
      BY <1>2, <2>1, <3>1, ChildIsAbove
  <2>. PICK moved : moved = Put(at[1], at[2], KeyAt(at[1], c))
    OBVIOUS
  <2>3. KeyAt(at[1], c) \in keys /\ KeyAt(at[1], c) \in all /\ KeysOf(at[1]) \subseteq all
    BY <1>2, <2>1, <2>2, KeyAtType DEF OnlyMoves, KeysOf
  <2>4. /\ OnlyMoves(moved, at[1], all, keys) /\ Size(moved) = Size(heap)
        /\ KeysBut(moved, c) = KeysBut(heap, hole)
    <3>1. c \in Places(at[1]) \ {at[2]}
      BY <1>2, <2>2
    <3>2. QED
      BY <1>2, <2>1, <2>3, <3>1, PutMoves
  <2>5. OnlyMoves(moved, heap, all, keys) /\ moved \in Heaps(keys)
    BY <2>1, <2>4, MovesAreTransitive DEF OnlyMoves
  <2>6. next[at] = <<moved, c>> /\ rank[at] = Size(heap) - at[2]
    BY <2>1
  <2>7. <<moved, c>> \in D
    BY <1>2, <1>3, <2>1, <2>2, <2>4, <2>5
  <2>8. rank[<<moved, c>>] = Size(heap) - c /\ c \in Int /\ at[2] \in Int
    BY <1>1, <1>2, <2>1, <2>2, <2>7 DEF Places
  <2>9. QED
    BY <1>1, <2>2, <2>4, <2>5, <2>6, <2>7, <2>8
<1>9. <<heap, hole>> \in Inv
  BY <1>3 DEF OnlyMoves
<1>. HIDE DEF D, stops, base, next, rank, Inv, Post, Moved
<1>10. IsLoop(D, rank, stops, base, next, down, Inv, Post)
  BY <1>5, <1>6, <1>7, <1>8 DEF IsLoop
<1>11. down[<<heap, hole>>] \in Post
  BY <1>9, <1>10, LoopEnds
<1>12. QED
  BY <1>4, <1>11 DEF Post

LEMMA SwapMoves ==
  ASSUME NEW keys, NEW heap \in Heaps(keys), NEW i \in Places(heap), i # 0,
         NEW swapped, swapped = Swapped(heap, i)
  PROVE  /\ OnlyMoves(swapped, heap, KeysOf(heap), keys) /\ Size(swapped) = Size(heap)
         /\ KeysOf(swapped) = KeysOf(heap)
<1>0. /\ Size(heap) \in Nat /\ \A j \in Places(heap) : KeyAt(heap, j) \in keys
      /\ 0 \in Places(heap) /\ i \in Nat
  BY KeyAtType DEF Places
<1>. PICK top : top = KeyAt(heap, 0)
  OBVIOUS
<1>. PICK key : key = KeyAt(heap, i)
  OBVIOUS
<1>1. top \in keys /\ key \in keys /\ Top(heap) = top
      /\ top \in KeysOf(heap) /\ key \in KeysOf(heap)
  BY <1>0 DEF Top, KeysOf
<1>. PICK first : first = Put(heap, i, top)
  OBVIOUS
<1>. PICK repaired : repaired = Put(first, 0, key)
  OBVIOUS
<1>2. /\ OnlyMoves(first, heap, KeysOf(heap), keys) /\ Size(first) = Size(heap)
      /\ KeysBut(first, 0) = KeysBut(heap, i)
  BY <1>0, <1>1, PutMoves
<1>3. first \in Heaps(keys) /\ KeysOf(first) \subseteq KeysOf(heap) /\ 0 \in Places(first)
  BY <1>0, <1>2 DEF OnlyMoves, Places
<1>4. /\ OnlyMoves(repaired, first, KeysOf(heap), keys) /\ Size(repaired) = Size(heap)
      /\ KeysOf(repaired) = KeysBut(first, 0) \cup {key}
  BY <1>1, <1>2, <1>3, PutMoves
<1>5. repaired \in Heaps(keys) /\ KeysOf(repaired) \subseteq KeysOf(heap)
  BY <1>4 DEF OnlyMoves
<1>6. heap.data \in Seq(keys) /\ heap.loc \in [keys -> Int] /\ i + 1 # 1
  BY <1>0 DEF Heaps
<1>7. swapped = [data |-> [heap.data EXCEPT ![1] = key, ![i + 1] = top],
                 loc |-> [heap.loc EXCEPT ![key] = i, ![top] = 0]]
  BY <1>1 DEF Swapped
<1>8. swapped.data = repaired.data
  <2>1. first.data = [heap.data EXCEPT ![i + 1] = top]
    BY DEF Put
  <2>2. repaired.data = [first.data EXCEPT ![0 + 1] = key]
    BY DEF Put
  <2>3. swapped.data = [[heap.data EXCEPT ![1] = key] EXCEPT ![i + 1] = top]
    BY <1>7
  <2>4. QED
    BY <1>6, <2>1, <2>2, <2>3
<1>9. /\ swapped.loc \in [keys -> Int]
      /\ \A k \in keys : swapped.loc[k] = IF k = top THEN 0 ELSE IF k = key THEN i ELSE heap.loc[k]
  <2>. PICK one : one = [heap.loc EXCEPT ![key] = i]
    OBVIOUS
  <2>1. /\ one \in [keys -> Int]
        /\ \A k \in keys : one[k] = IF k = key THEN i ELSE heap.loc[k]
    BY <1>0, <1>1, <1>6
  <2>2. swapped.loc = [one EXCEPT ![top] = 0]
    BY <1>7
  <2>3. QED
    BY <1>1, <2>1, <2>2
<1>10. swapped \in Heaps(keys) /\ Size(swapped) = Size(heap)
  BY <1>4, <1>5, <1>7, <1>8, <1>9 DEF Heaps, Size
<1>11. KeysOf(swapped) = KeysOf(heap)
  <2>1. KeysOf(swapped) = KeysOf(repaired)
    BY <1>8 DEF KeysOf, KeyAt, Places, Size
  <2>2. QED
    BY <1>2, <1>4, <2>1, KeysWithout
<1>12. QED
  BY <1>0, <1>1, <1>9, <1>10, <1>11 DEF OnlyMoves

LEMMA DownFromTopMoves ==
  ASSUME NEW keys, NEW dist \in [keys -> Int], NEW heap \in Heaps(keys), Size(heap) > 0,
         NEW down, down = DownFromTop(heap, dist)
  PROVE  /\ OnlyMoves(down, heap, KeysOf(heap), keys) /\ Size(down) = Size(heap)
         /\ KeysOf(down) = KeysOf(heap)
<1>0. /\ Size(heap) \in Nat /\ \A i \in Places(heap) : KeyAt(heap, i) \in keys
      /\ 0 \in Places(heap) /\ Top(heap) = KeyAt(heap, 0)
  BY KeyAtType DEF Places, Top
<1>1. Top(heap) \in keys /\ Top(heap) \in KeysOf(heap)
  BY <1>0 DEF KeysOf
<1>. PICK best : best = BestChild(heap, 0, dist)
  OBVIOUS
<1>. DEFINE isLeast == \A c \in Children(heap, 0) : dist[KeyAt(heap, c)] >= dist[Top(heap)]
<1>2. CASE isLeast
  BY <1>2 DEF DownFromTop, OnlyMoves
<1>3. ASSUME ~isLeast
      PROVE  best \in Places(heap) /\ best # 0 /\ KeyAt(heap, best) \in keys
             /\ KeyAt(heap, best) \in KeysOf(heap)
  <2>1. best \in Children(heap, 0)
    BY <1>0, <1>3, BestChildIsBest
  <2>2. best \in Places(heap) /\ 0 < best
    BY <1>0, <2>1, ChildIsAbove
  <2>3. QED
    BY <1>0, <2>2 DEF KeysOf
<1>4. CASE ~isLeast /\ Size(heap) > Arity
  <2>. PICK moved : moved = Put(heap, 0, KeyAt(heap, best))
    OBVIOUS
  <2>1. down = Down(moved, Top(heap), best, dist)
    BY <1>4 DEF DownFromTop
  <2>2. /\ OnlyMoves(moved, heap, KeysOf(heap), keys) /\ Size(moved) = Size(heap)
        /\ KeysBut(moved, best) = KeysBut(heap, 0)
    BY <1>0, <1>3, <1>4, PutMoves
  <2>3. moved \in Heaps(keys) /\ best \in Places(moved) /\ KeysOf(moved) \subseteq KeysOf(heap)
    BY <1>3, <1>4, <2>2 DEF OnlyMoves, Places
  <2>4. /\ OnlyMoves(down, moved, KeysOf(heap), keys) /\ Size(down) = Size(heap)
        /\ KeysOf(down) = KeysBut(moved, best) \cup {Top(heap)}
    BY <1>1, <2>1, <2>2, <2>3, DownMoves
  <2>5. KeysOf(down) = KeysOf(heap)
    BY <1>0, <2>2, <2>4, KeysWithout
  <2>6. QED
    BY <2>2, <2>4, <2>5, MovesAreTransitive
<1>5. CASE ~isLeast /\ ~(Size(heap) > Arity)
  <2>1. down = Swapped(heap, best)
    BY <1>5 DEF DownFromTop
  <2>2. QED
    BY <1>3, <1>5, <2>1, SwapMoves
<1>6. QED
  BY <1>2, <1>4, <1>5

LEMMA AdjustTopMoves ==
  ASSUME NEW keys, NEW dist \in [keys -> Int], NEW heap \in Heaps(keys), Size(heap) > 0
  PROVE  /\ OnlyMoves(AdjustTop(heap, dist), heap, KeysOf(heap), keys)
         /\ Size(AdjustTop(heap, dist)) = Size(heap)
         /\ KeysOf(AdjustTop(heap, dist)) = KeysOf(heap)
BY DownFromTopMoves DEF AdjustTop

LEMMA PopMoves ==
  ASSUME NEW keys, NEW dist \in [keys -> Int], NEW heap \in Heaps(keys), Size(heap) > 0,
         NEW popped, popped = Pop(heap, dist)
  PROVE  /\ OnlyMoves(popped, heap, KeysOf(heap), keys) /\ Size(popped) = Size(heap) - 1
         /\ KeysOf(heap) \ {Top(heap)} \subseteq KeysOf(popped)
<1>0. Size(heap) \in Nat /\ \A i \in Places(heap) : KeyAt(heap, i) \in keys
  BY KeyAtType
<1>. PICK shorter : shorter = WithoutLast(heap)
  OBVIOUS
<1>1. /\ shorter.data = SubSeq(heap.data, 1, Size(heap) - 1) /\ shorter.loc = heap.loc
      /\ shorter = [data |-> SubSeq(heap.data, 1, Size(heap) - 1), loc |-> heap.loc]
  BY DEF WithoutLast, Heaps
<1>2. /\ heap.data \in Seq(keys) /\ heap.loc \in [keys -> Int] /\ Len(heap.data) = Size(heap)
  BY DEF Heaps, Size
<1>3. /\ SubSeq(heap.data, 1, Size(heap) - 1) \in Seq(keys)
      /\ Len(SubSeq(heap.data, 1, Size(heap) - 1)) = Size(heap) - 1
      /\ \A j \in 1 .. Size(heap) - 1 : SubSeq(heap.data, 1, Size(heap) - 1)[j] = heap.data[j]
  BY <1>0, <1>2
<1>4. shorter \in Heaps(keys) /\ Size(shorter) = Size(heap) - 1
  BY <1>1, <1>2, <1>3 DEF Heaps, Size
<1>5. \A j \in Places(shorter) : j \in Places(heap) /\ KeyAt(shorter, j) = KeyAt(heap, j)
  <2>1. \A j \in Places(shorter) : j \in Places(heap) /\ j + 1 \in 1 .. Size(heap) - 1
    BY <1>0, <1>4 DEF Places
  <2>2. QED
    BY <1>1, <1>3, <2>1 DEF KeyAt
<1>6. OnlyMoves(shorter, heap, KeysOf(heap), keys)
  BY <1>1, <1>4, <1>5 DEF OnlyMoves, KeysOf
<1>7. CASE Size(heap) = 1
  <2>1. Places(heap) = {0}
    BY <1>7 DEF Places
  <2>2. KeysOf(heap) = {Top(heap)}
    BY <2>1 DEF KeysOf, Top
  <2>3. QED
    BY <1>4, <1>6, <1>7, <2>2 DEF Pop
<1>8. CASE Size(heap) # 1
  <2>. PICK last : last = KeyAt(heap, Size(heap) - 1)
    OBVIOUS
  <2>. PICK filled : filled = Put(shorter, 0, last)
    OBVIOUS
  <2>1. popped = DownFromTop(filled, dist)
    BY <1>8 DEF Pop
  <2>2. last \in keys /\ last \in KeysOf(heap) /\ 0 \in Places(shorter)
    <3>1. Size(heap) - 1 \in Places(heap)
      BY <1>0 DEF Places
    <3>2. QED
      BY <1>0, <1>4, <1>8, <3>1 DEF KeysOf, Places
  <2>3. /\ OnlyMoves(filled, shorter, KeysOf(heap), keys) /\ Size(filled) = Size(heap) - 1
        /\ KeysOf(filled) = KeysBut(shorter, 0) \cup {last}
    BY <1>4, <1>6, <2>2, PutMoves DEF OnlyMoves
  <2>4. filled \in Heaps(keys) /\ KeysOf(filled) \subseteq KeysOf(heap) /\ Size(filled) > 0
    BY <1>0, <1>8, <2>3 DEF OnlyMoves
  <2>5. /\ OnlyMoves(popped, filled, KeysOf(filled), keys) /\ Size(popped) = Size(filled)
        /\ KeysOf(popped) = KeysOf(filled)
    BY <2>1, <2>4, DownFromTopMoves
  <2>6. OnlyMoves(popped, filled, KeysOf(heap), keys)
    BY <2>4, <2>5 DEF OnlyMoves
  <2>7. ASSUME NEW j \in Places(heap), KeyAt(heap, j) # Top(heap)
        PROVE  KeyAt(heap, j) \in KeysOf(filled)
    <3>1. j # 0 /\ (j = Size(heap) - 1 \/ j \in Places(shorter))
      BY <1>0, <1>4, <2>7 DEF Places, Top
    <3>2. CASE j = Size(heap) - 1
      BY <2>3, <3>2
    <3>3. CASE j \in Places(shorter)
      BY <1>5, <2>3, <3>1, <3>3 DEF KeysBut
    <3>4. QED
      BY <3>1, <3>2, <3>3
  <2>8. KeysOf(heap) \ {Top(heap)} \subseteq KeysOf(popped)
    BY <2>5, <2>7 DEF KeysOf
  <2>9. QED
    BY <1>6, <2>3, <2>5, <2>6, <2>8, MovesAreTransitive
<1>9. QED
  BY <1>7, <1>8

LEMMA GrownMoves ==
  ASSUME NEW keys, NEW dist, NEW heap \in Heaps(keys), NEW key \in keys,
         NEW longer \in Heaps(keys), NEW n \in Places(longer),
         KeysBut(longer, n) = KeysOf(heap), KeyAt(longer, n) = key, longer.loc = heap.loc,
         NEW updated, updated = Up(longer, key, n, dist),
         NEW all, all = KeysOf(heap) \cup {key}
  PROVE  OnlyMoves(updated, heap, all, keys) /\ KeysOf(updated) = all
<1>1. KeysOf(longer) = all /\ key \in all
  BY KeysWithout
<1>2. /\ OnlyMoves(updated, longer, all, keys)
      /\ KeysOf(updated) = KeysBut(longer, n) \cup {key}
  BY <1>1, UpMoves
<1>3. QED
  BY <1>2 DEF OnlyMoves

LEMMA PushOrUpdateMoves ==
  ASSUME NEW keys, NEW dist, NEW heap \in Heaps(keys), NEW key \in keys,
         NEW updated, updated = PushOrUpdate(heap, key, dist)
  PROVE  /\ OnlyMoves(updated, heap, KeysOf(heap) \cup {key}, keys)
         /\ KeysOf(updated) = KeysOf(heap) \cup {key}
<1>0. Size(heap) \in Nat
  BY KeyAtType
<1>1. CASE HasKey(heap, key)
  <2>. PICK i : i = heap.loc[key]
    OBVIOUS
  <2>1. updated = Up(heap, key, i, dist) /\ i \in Places(heap) /\ KeyAt(heap, i) = key
    BY <1>1 DEF PushOrUpdate, HasKey, Places
  <2>2. /\ OnlyMoves(updated, heap, KeysOf(heap) \cup {key}, keys)
        /\ KeysOf(updated) = KeysBut(heap, i) \cup {key}
    BY <2>1, UpMoves
  <2>3. KeysOf(updated) = KeysOf(heap) /\ key \in KeysOf(heap)
    BY <2>1, <2>2, KeysWithout
  <2>4. QED
    BY <2>2, <2>3
<1>2. CASE ~HasKey(heap, key)
  <2>0. PICK longer : longer = [heap EXCEPT !.data = Append(@, key)]
    OBVIOUS
  <2>. PICK n : n = Size(heap)
    OBVIOUS
  <2>1. updated = Up(longer, key, n, dist)
    BY <1>2, <2>0 DEF PushOrUpdate, Push
  <2>2. /\ longer = [data |-> Append(heap.data, key), loc |-> heap.loc]
        /\ longer.data = Append(heap.data, key) /\ longer.loc = heap.loc
    BY <2>0 DEF Heaps
  <2>3. heap.data \in Seq(keys) /\ heap.loc \in [keys -> Int] /\ Len(heap.data) = n
    BY DEF Heaps, Size
  <2>4. /\ Append(heap.data, key) \in Seq(keys) /\ Len(Append(heap.data, key)) = n + 1
        /\ \A j \in 1 .. n : Append(heap.data, key)[j] = heap.data[j]
        /\ Append(heap.data, key)[n + 1] = key
    BY <1>0, <2>3
  <2>5. longer \in Heaps(keys) /\ Size(longer) = n + 1
    BY <2>2, <2>3, <2>4 DEF Heaps, Size
  <2>6. n \in Places(longer) /\ \A j \in Places(longer) : j = n \/ j \in Places(heap)
    BY <1>0, <2>5 DEF Places
  <2>7. KeysBut(longer, n) = KeysOf(heap)
    <3>1. \A j \in Places(longer) \ {n} : j \in Places(heap)
      BY <2>6
    <3>2. \A j \in Places(heap) : j \in Places(longer) \ {n} /\ j + 1 \in 1 .. n
      BY <1>0, <2>5 DEF Places
    <3>3. \A j \in Places(heap) : KeyAt(longer, j) = KeyAt(heap, j)
      BY <2>2, <2>4, <3>2 DEF KeyAt
    <3>4. QED
      BY <3>1, <3>2, <3>3 DEF KeysBut, KeysOf
  <2>8. KeyAt(longer, n) = key
    BY <1>0, <2>2, <2>4 DEF KeyAt
  <2>9. QED
    <3>. PICK all : all = KeysOf(heap) \cup {key}
      OBVIOUS
    <3>1. longer \in Heaps(keys) /\ n \in Places(longer) /\ longer.loc = heap.loc
      BY <2>2, <2>5, <2>6
    <3>2. OnlyMoves(updated, heap, all, keys)
      BY <2>1, <2>7, <2>8, <3>1, GrownMoves
    <3>3. KeysOf(updated) = all
      BY <2>1, <2>7, <2>8, <3>1, GrownMoves
    <3>4. QED
      BY <3>2, <3>3
<1>3. QED
  BY <1>1, <1>2

-----------------------------------------------------------------------------
(* Making a heap *)

LEMMA EmptyHeapFacts ==
  ASSUME NEW keys
  PROVE  /\ EmptyHeap(keys) \in Heaps(keys)
         /\ IsPlaced(EmptyHeap(keys)) /\ PlacesAgree(EmptyHeap(keys))
         /\ KeysOf(EmptyHeap(keys)) = {} /\ Size(EmptyHeap(keys)) = 0
         /\ \A dist : IsHeap(EmptyHeap(keys), dist)
<1>1. EmptyHeap(keys).data = <<>> /\ EmptyHeap(keys) \in Heaps(keys)
  BY DEF EmptyHeap, Heaps
<1>2. Size(EmptyHeap(keys)) = 0
  BY <1>1 DEF Size
<1>3. QED
  BY <1>1, <1>2, AgreeingIsPlaced DEF PlacesAgree, KeysOf, Places, IsHeap
(* add_unsorted *)
LEMMA AddUnsortedFacts ==
  ASSUME NEW keys, NEW heap \in Heaps(keys), PlacesAgree(heap), NEW key \in keys,
         key \notin KeysOf(heap),
         NEW longer, longer = AddUnsorted(heap, key)
  PROVE  /\ longer \in Heaps(keys) /\ PlacesAgree(longer)
         /\ KeysOf(longer) = KeysOf(heap) \cup {key}
         /\ LocKept(longer, heap, {key})
<1>1. /\ heap.data \in Seq(keys) /\ heap.loc \in [keys -> Int] /\ Size(heap) \in Nat
      /\ \A i \in Places(heap) : KeyAt(heap, i) \in keys
  BY KeyAtType DEF Heaps
<1>2. longer = [data |-> Append(heap.data, key), loc |-> [heap.loc EXCEPT ![key] = Size(heap)]]
  BY DEF AddUnsorted
<1>3. Append(heap.data, key) \in Seq(keys) /\ Len(Append(heap.data, key)) = Size(heap) + 1
  BY <1>1 DEF Size
<1>4. [heap.loc EXCEPT ![key] = Size(heap)] \in [keys -> Int]
  BY <1>1
<1>5. longer \in Heaps(keys) /\ Size(longer) = Size(heap) + 1
  BY <1>2, <1>3, <1>4 DEF Heaps, Size
<1>6. /\ \A i \in 0 .. Size(heap) - 1 : KeyAt(longer, i) = KeyAt(heap, i)
      /\ KeyAt(longer, Size(heap)) = key
  BY <1>1, <1>2 DEF KeyAt, Size
<1>7. \A k \in keys : longer.loc[k] = IF k = key THEN Size(heap) ELSE heap.loc[k]
  BY <1>1, <1>2
<1>8. /\ \A i \in Places(longer) : i \in Places(heap) \/ i = Size(heap)
      /\ \A i \in Places(heap) : i \in Places(longer) /\ i \in 0 .. Size(heap) - 1
      /\ Size(heap) \in Places(longer)
  BY <1>1, <1>5 DEF Places
<1>9. PlacesAgree(longer)
  <2>1. ASSUME NEW i \in Places(longer) PROVE longer.loc[KeyAt(longer, i)] = i
    <3>1. CASE i = Size(heap)
      BY <1>6, <1>7, <3>1
    <3>2. CASE i \in Places(heap)
      BY <1>1, <1>6, <1>7, <1>8, <3>2 DEF PlacesAgree, KeysOf
    <3>3. QED
      BY <1>8, <3>1, <3>2
  <2>2. QED
    BY <2>1 DEF PlacesAgree, Places
<1>10. KeysOf(longer) = KeysOf(heap) \cup {key}
  <2>1. ASSUME NEW k \in KeysOf(longer) PROVE k \in KeysOf(heap) \cup {key}
    BY <1>6, <1>8 DEF KeysOf
  <2>2. ASSUME NEW k \in KeysOf(heap) \cup {key} PROVE k \in KeysOf(longer)
    BY <1>6, <1>8 DEF KeysOf
  <2>3. QED
    BY <2>1, <2>2
<1>11. LocKept(longer, heap, {key})
  BY <1>1, <1>7 DEF LocKept
<1>12. QED
  BY <1>5, <1>9, <1>10, <1>11

(* A key that is where it belongs stays where it is. *)
LEMMA DownChangesNothing ==
  ASSUME NEW keys, NEW heap \in Heaps(keys), NEW dist \in [keys -> Int], PlacesAgree(heap),
         NEW i \in Places(heap),
         \A j, k \in KeysOf(heap) : dist[j] = dist[k]
  PROVE  Down(heap, KeyAt(heap, i), i, dist) = heap
<1>. PICK key : key = KeyAt(heap, i)
  OBVIOUS
<1>1. key \in keys /\ Size(heap) \in Nat
  BY KeyAtType
<1>2. PICK down :
        /\ Down(heap, key, i, dist) = down[<<heap, i>>]
        /\ \A at \in WithHole(heap) :
             down[at] = IF ChildIsBetter(at, key, dist)
                          THEN down[<<Put(at[1], at[2], KeyAt(at[1], Best(at, dist))), Best(at, dist)>>]
                          ELSE Put(at[1], at[2], key)
  BY <1>1, DownIsLoop
<1>3. <<heap, i>> \in WithHole(heap)
  BY LikeIsOfSize DEF WithHole, HeapsOfSize, Places
<1>4. ~ChildIsBetter(<<heap, i>>, key, dist)
  <2>1. ASSUME NEW c \in Children(heap, i) PROVE ~(dist[KeyAt(heap, c)] < dist[key])
    <3>1. KeyAt(heap, c) \in KeysOf(heap) /\ key \in KeysOf(heap)
      BY ChildIsAbove DEF KeysOf
    <3>2. dist[KeyAt(heap, c)] = dist[key] /\ dist[key] \in Int
      BY <1>1, <3>1
    <3>3. QED
      BY <3>2
  <2>2. QED
    BY <2>1 DEF ChildIsBetter
<1>5. Down(heap, key, i, dist) = Put(heap, i, key)
  BY <1>2, <1>3, <1>4
<1>6. /\ heap = [data |-> heap.data, loc |-> heap.loc]
      /\ heap.data \in Seq(keys) /\ heap.loc \in [keys -> Int]
      /\ heap.data[i + 1] = key /\ heap.loc[key] = i
  BY DEF Heaps, KeyAt, PlacesAgree, Places
<1>7. [heap.data EXCEPT ![i + 1] = key] = heap.data
  BY <1>6
<1>8. [heap.loc EXCEPT ![key] = i] = heap.loc
  BY <1>6
<1>9. QED
  BY <1>5, <1>6, <1>7, <1>8 DEF Put

(* heapify, when all keys in the heap have the same distance *)
LEMMA HeapifyChangesNothing ==
  ASSUME NEW keys, NEW heap \in Heaps(keys), NEW dist \in [keys -> Int], PlacesAgree(heap),
         Size(heap) > 0,
         \A j, k \in KeysOf(heap) : dist[j] = dist[k]
  PROVE  Heapify(heap, dist) = heap
<1>. DEFINE first == Parent(Size(heap))
            IsSifting(f) == f = [i \in 0 .. first |->
              IF i = first THEN heap ELSE Down(f[i + 1], KeyAt(f[i + 1], i), i, dist)]
            same == [i \in 0 .. first |-> heap]
            sifted == CHOOSE f : IsSifting(f)
<1>1. Size(heap) \in Nat \ {0} /\ first \in 0 .. Size(heap) - 1
  BY KeyAtType, ParentIsBelow
<1>. HIDE DEF first
<1>2. \A i \in 0 .. first : i # first => i \in Places(heap) /\ i + 1 \in 0 .. first
  BY <1>1 DEF Places
<1>3. \A i \in Places(heap) : Down(heap, KeyAt(heap, i), i, dist) = heap
  BY DownChangesNothing
<1>4. IsSifting(same)
  BY <1>2, <1>3
<1>5. Heapify(heap, dist) = sifted[0]
  BY DEF Heapify, first
<1>. HIDE DEF IsSifting
<1>6. IsSifting(sifted)
  BY <1>4
<1>. HIDE DEF sifted
<1>7. \A i \in 0 .. first : sifted[i] = IF i = first THEN heap
                                      ELSE Down(sifted[i + 1], KeyAt(sifted[i + 1], i), i, dist)
  BY <1>6 DEF IsSifting
<1>. DEFINE S == {n \in Nat : n <= first => sifted[first - n] = heap}
<1>8. 0 \in S
  BY <1>1, <1>7
<1>9. ASSUME NEW n \in 0 .. first - 1, n \in S
      PROVE  n + 1 \in S
  <2>1. sifted[first - n] = heap
    BY <1>1, <1>9
  <2>2. PICK i : i = first - (n + 1)
    OBVIOUS
  <2>3. i \in 0 .. first /\ i # first /\ i + 1 = first - n
    BY <1>1, <2>2
  <2>4. sifted[i] = Down(heap, KeyAt(heap, i), i, dist)
    BY <1>7, <2>1, <2>3
  <2>5. sifted[i] = heap
    BY <1>2, <1>3, <2>3, <2>4
  <2>6. QED
    BY <1>1, <2>2, <2>5
<1>. HIDE DEF S
<1>10. first \in S
  BY <1>1, <1>8, <1>9, InductionUpTo
<1>. USE DEF S
<1>11. sifted[0] = heap
  BY <1>1, <1>10
<1>12. QED
  BY <1>5, <1>11
=============================================================================
