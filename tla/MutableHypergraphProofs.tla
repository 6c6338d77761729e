------------------------ MODULE MutableHypergraphProofs ------------------------
(***************************************************************************)
(* Theorems about MutableHypergraph for any number of states and arcs, on  *)
(* three conditions, each of which is needed: no arc has a state as two of *)
(* its tails (RepeatedTail.cfg), no list is longer than                    *)
(* kAdjLinearSearchLimit (LongList.cfg), and an arc of an FSM is labelled  *)
(* as forArcsFsm takes it to be, by a lexical label on its second tail and *)
(* none on its first, in a hypergraph with a vocabulary (FsmDelete.cfg,    *)
(* FsmEdit.cfg).                                                           *)
(***************************************************************************)
EXTENDS MutableHypergraph, FiniteSetTheorems, TLAPS

DistinctTails ==
  \A sh \in Shapes : \A i, j \in DOMAIN sh.tails : sh.tails[i] = sh.tails[j] => i = j

ShortLists == IsFiniteSet(ArcIds) /\ Cardinality(ArcIds) <= kAdjLinearSearchLimit

LexicalLabels ==
  \A sh \in Shapes : IsFsmArc(sh) =>
    HasVocabulary /\ sh.tails[1] \notin Lexical /\ sh.tails[2] \in Lexical

-----------------------------------------------------------------------------
(* The inductive invariant *)

(* The list of s in an index is where an arc of shape sh belongs. *)
BelongsIn(s, sh) == storesInArcs /\ sh.head = s
BelongsOut(s, sh) ==
  \/ storesFirstTailOutArcs /\ sh.tails[1] = s
  \/ "kStoreOutArcs" \in properties /\ \E i \in DOMAIN sh.tails : sh.tails[i] = s

(* The indexes hold the arcs K, each once in every list where it belongs, and
   nothing else. *)
InHolds(K) ==
  \A s \in States, a \in ArcIds :
    inArcsPerState[s][a] = IF a \in K /\ BelongsIn(s, shape[a]) THEN 1 ELSE 0
OutHolds(K) ==
  \A s \in States, a \in ArcIds :
    outArcsPerState[s][a] = IF a \in K /\ BelongsOut(s, shape[a]) THEN 1 ELSE 0
Holds(K) == K \subseteq heap /\ InHolds(K) /\ OutHolds(K)

IsCounted(K) == \A a \in K : shape[a].head < numStates /\ shape[a].tails[1] < numStates

(* a hypergraph once found to be an FSM is one *)
IsKnownFsm(K) == kFsm = "yes" => \A a \in K : IsFsmArc(shape[a])

(* What the indexes hold is some of the arcs that are allocated: restrict
   without in-arcs leaves the others. *)
HoldsArcs(K) ==
  /\ TypeOK
  /\ ~deletedTwice
  /\ Holds(K)
  /\ IsCounted(K)
  /\ IsKnownFsm(K)

IInv == \E K \in SUBSET ArcIds : HoldsArcs(K)

-----------------------------------------------------------------------------
(* Facts about shapes and lists *)

LEMMA ShapeFacts ==
  ASSUME NEW sh \in Shapes
  PROVE  /\ DOMAIN sh = {"head", "tails"}
         /\ sh.head \in States
         /\ sh.tails \in Seq(States)
         /\ 1 \in DOMAIN sh.tails
         /\ \A i \in DOMAIN sh.tails : sh.tails[i] \in States
         /\ sh.tails[1] \in States
         /\ \A s \in StatesOf(sh) : s \in States
<1>1. /\ DOMAIN sh = {"head", "tails"}
      /\ sh.head \in States /\ sh.tails \in Seq(States) /\ sh.tails # <<>>
  BY HypergraphAssumption
<1>2. 1 \in DOMAIN sh.tails
  BY <1>1
<1>3. \A i \in DOMAIN sh.tails : sh.tails[i] \in States
  BY <1>1
<1>4. QED
  BY <1>1, <1>2, <1>3 DEF StatesOf

LEMMA StatesFacts == IsFiniteSet(States) /\ States \subseteq Nat
<1>1. 0 \in Int /\ MaxStates - 1 \in Int
  BY HypergraphAssumption
<1>2. QED
  BY <1>1, FS_Interval DEF States

(* An arc should be in a list at most once. *)
LEMMA TimesFacts ==
  ASSUME DistinctTails, NEW sh \in Shapes, NEW s \in States
  PROVE  /\ Times("kStoreInArcs", s, sh) = IF sh.head = s THEN 1 ELSE 0
         /\ Times("kStoreFirstTailOutArcs", s, sh) = IF sh.tails[1] = s THEN 1 ELSE 0
         /\ Times("kStoreOutArcs", s, sh)
              = IF \E i \in DOMAIN sh.tails : sh.tails[i] = s THEN 1 ELSE 0
<1>1. Times("kStoreInArcs", s, sh) = IF sh.head = s THEN 1 ELSE 0
  BY DEF Times
<1>2. Times("kStoreFirstTailOutArcs", s, sh) = IF sh.tails[1] = s THEN 1 ELSE 0
  BY DEF Times
<1>3. Times("kStoreOutArcs", s, sh) = Cardinality({i \in DOMAIN sh.tails : sh.tails[i] = s})
  BY DEF Times
<1>4. CASE \E i \in DOMAIN sh.tails : sh.tails[i] = s
  <2>1. PICK i \in DOMAIN sh.tails : sh.tails[i] = s
    BY <1>4
  <2>2. {j \in DOMAIN sh.tails : sh.tails[j] = s} = {i}
    BY <2>1 DEF DistinctTails
  <2>3. QED
    BY <1>1, <1>2, <1>3, <1>4, <2>2, FS_Singleton
<1>5. CASE ~ \E i \in DOMAIN sh.tails : sh.tails[i] = s
  <2>1. {j \in DOMAIN sh.tails : sh.tails[j] = s} = {}
    BY <1>5
  <2>2. QED
    BY <1>1, <1>2, <1>3, <1>5, <2>1, FS_EmptySet
<1>6. QED
  BY <1>4, <1>5

(* Index bits *)
LEMMA BitFacts ==
  ASSUME properties \in Indexes
  PROVE  /\ storesInArcs \/ storesFirstTailOutArcs \/ "kStoreOutArcs" \in properties
         /\ ~(storesFirstTailOutArcs /\ "kStoreOutArcs" \in properties)
         /\ storesOutArcs <=> storesFirstTailOutArcs \/ "kStoreOutArcs" \in properties
         /\ properties \subseteq {"kStoreInArcs", "kStoreOutArcs", "kStoreFirstTailOutArcs"}
BY DEF Indexes, storesInArcs, storesFirstTailOutArcs, storesOutArcs

(* How often the lists of an index hold an arc that is at most once in each *)
LEMMA TimesInFacts ==
  ASSUME NEW adj \in Counts, NEW a \in ArcIds, \A s \in States : adj[s][a] \in {0, 1}
  PROVE  /\ TimesIn(adj, a) \in Nat
         /\ TimesIn(adj, a) > 0 <=> \E s \in States : adj[s][a] = 1
         /\ \A t \in States :
              (\A s \in States : adj[s][a] = 1 <=> s = t) => TimesIn(adj, a) = 1
<1>. DEFINE pointers == UNION {{s} \X (1 .. adj[s][a]) : s \in States}
            holders == {s \in States : adj[s][a] = 1}
<1>1. TimesIn(adj, a) = Cardinality(pointers)
  BY DEF TimesIn
<1>2. pointers = holders \X {1}
  <2>1. \A s \in States : adj[s][a] = 1 => 1 .. adj[s][a] = {1}
    OBVIOUS
  <2>2. \A s \in States : adj[s][a] # 1 => 1 .. adj[s][a] = {}
    OBVIOUS
  <2>3. QED
    BY <2>1, <2>2
<1>. HIDE DEF pointers
<1>3. IsFiniteSet(pointers)
  <2>1. holders \in SUBSET States
    OBVIOUS
  <2>. HIDE DEF holders
  <2>2. IsFiniteSet(holders)
    BY <2>1, StatesFacts, FS_Subset
  <2>3. IsFiniteSet({1})
    BY FS_Singleton
  <2>4. IsFiniteSet(holders \X {1})
    BY <2>2, <2>3, FS_Product
  <2>5. QED
    BY <1>2, <2>4
<1>4. Cardinality(pointers) \in Nat
  BY <1>3, FS_CardinalityType
<1>5. Cardinality(pointers) = 0 <=> pointers = {}
  BY <1>3, FS_EmptySet
<1>6. pointers = {} <=> ~ \E s \in States : adj[s][a] = 1
  <2>1. \A s \in holders : <<s, 1>> \in pointers
    BY <1>2
  <2>2. holders = {} => pointers = {}
    BY <1>2
  <2>3. QED
    BY <2>1, <2>2
<1>7. ASSUME NEW t \in States, \A s \in States : adj[s][a] = 1 <=> s = t
      PROVE  TimesIn(adj, a) = 1
  <2>1. pointers = {<<t, 1>>}
    BY <1>2, <1>7
  <2>2. QED
    BY <1>1, <2>1, FS_Singleton
<1>8. QED
  BY <1>1, <1>4, <1>5, <1>6, <1>7

(* No list is longer than there are arcs. *)
LEMMA LengthFacts ==
  ASSUME ShortLists, NEW adj \in Counts, NEW s \in States, \A a \in ArcIds : adj[s][a] \in {0, 1}
  PROVE  Length(adj, s) <= kAdjLinearSearchLimit
<1>. DEFINE pointers == UNION {{a} \X (1 .. adj[s][a]) : a \in ArcIds}
<1>1. Length(adj, s) = Cardinality(pointers)
  BY DEF Length
<1>2. pointers \in SUBSET (ArcIds \X {1})
  <2>1. \A a \in ArcIds : 1 .. adj[s][a] \subseteq {1}
    OBVIOUS
  <2>2. QED
    BY <2>1
<1>3. IsFiniteSet({1}) /\ Cardinality({1}) = 1
  BY FS_Singleton
<1>4. IsFiniteSet(ArcIds) /\ Cardinality(ArcIds) \in Nat
  BY FS_CardinalityType DEF ShortLists
<1>5. IsFiniteSet(ArcIds \X {1}) /\ Cardinality(ArcIds \X {1}) = Cardinality(ArcIds) * 1
  BY <1>3, <1>4, FS_Product
<1>. HIDE DEF pointers
<1>6. IsFiniteSet(pointers) /\ Cardinality(pointers) <= Cardinality(ArcIds \X {1})
  BY <1>2, <1>5, FS_Subset
<1>7. Cardinality(pointers) \in Nat
  BY <1>6, FS_CardinalityType
<1>8. QED
  BY <1>1, <1>4, <1>5, <1>6, <1>7, HypergraphAssumption DEF ShortLists

-----------------------------------------------------------------------------
(* What is visited, and what is made of it *)

Ones(K) == [a \in ArcIds |-> IF a \in K THEN 1 ELSE 0]

LEMMA ListsOfFacts ==
  ASSUME NEW S, NEW adj \in Counts
  PROVE  /\ ListsOf(S, adj) \in Counts
         /\ \A s \in States, a \in ArcIds :
              ListsOf(S, adj)[s][a] = IF s \in S THEN adj[s][a] ELSE 0
BY DEF ListsOf, NoArcs, Counts

(* An arc held is in the list of its head, of its first tail or of every tail,
   and the lists of its head and of its first tail have been resized. *)
LEMMA HeldFacts ==
  ASSUME NEW K \in SUBSET ArcIds, HoldsArcs(K), NEW a \in ArcIds
  PROVE  /\ storesInArcs =>
              /\ TimesIn(inArcsPerState, a) = Ones(K)[a]
              /\ TimesIn(Sized(inArcsPerState), a) = Ones(K)[a]
         /\ storesFirstTailOutArcs => TimesIn(outArcsPerState, a) = Ones(K)[a]
         /\ storesOutArcs =>
              /\ TimesIn(outArcsPerState, a) > 0 <=> a \in K
              /\ TimesIn(Sized(outArcsPerState), a) > 0 <=> a \in K
<1>. DEFINE sizedIn == Sized(inArcsPerState)
            sizedOut == Sized(outArcsPerState)
<1>1. /\ inArcsPerState \in Counts /\ outArcsPerState \in Counts
      /\ \A s \in States : inArcsPerState[s][a] \in {0, 1} /\ outArcsPerState[s][a] \in {0, 1}
      /\ properties \in Indexes
      /\ numStates \in Nat
  BY HypergraphAssumption DEF HoldsArcs, Holds, InHolds, OutHolds, TypeOK
<1>2. /\ sizedIn \in Counts /\ sizedOut \in Counts
      /\ \A s \in States :
           /\ sizedIn[s][a] = IF s < numStates THEN inArcsPerState[s][a] ELSE 0
           /\ sizedOut[s][a] = IF s < numStates THEN outArcsPerState[s][a] ELSE 0
  <2>1. \A s \in States : s \in 0 .. numStates - 1 <=> s < numStates
    BY <1>1, StatesFacts
  <2>2. QED
    BY <1>1, <2>1, ListsOfFacts DEF Sized
<1>. HIDE DEF sizedIn, sizedOut
<1>3. \A s \in States : sizedIn[s][a] \in {0, 1} /\ sizedOut[s][a] \in {0, 1}
  BY <1>1, <1>2
<1>4. \A adj \in {inArcsPerState, outArcsPerState, sizedIn, sizedOut} :
        /\ TimesIn(adj, a) \in Nat
        /\ TimesIn(adj, a) > 0 <=> \E s \in States : adj[s][a] = 1
        /\ \A t \in States : (\A s \in States : adj[s][a] = 1 <=> s = t) => TimesIn(adj, a) = 1
  BY <1>1, <1>2, <1>3, TimesInFacts
<1>5. CASE a \notin K
  <2>1. \A s \in States : inArcsPerState[s][a] = 0 /\ outArcsPerState[s][a] = 0
    BY <1>5 DEF HoldsArcs, Holds, InHolds, OutHolds
  <2>2. \A adj \in {inArcsPerState, outArcsPerState, sizedIn, sizedOut} : TimesIn(adj, a) = 0
    BY <1>2, <1>4, <2>1
  <2>3. QED
    BY <1>5, <2>2 DEF Ones, sizedIn, sizedOut
<1>6. CASE a \in K
  <2>. DEFINE head == shape[a].head
              tail == shape[a].tails[1]
  <2>1. /\ head \in States /\ head < numStates
        /\ tail \in States /\ tail < numStates
        /\ 1 \in DOMAIN shape[a].tails
    BY <1>6, ShapeFacts DEF HoldsArcs, Holds, IsCounted, TypeOK
  <2>2. ASSUME storesInArcs
        PROVE  TimesIn(inArcsPerState, a) = 1 /\ TimesIn(sizedIn, a) = 1
    <3>1. \A s \in States : inArcsPerState[s][a] = 1 <=> s = head
      BY <1>6, <2>2 DEF HoldsArcs, Holds, InHolds, BelongsIn
    <3>2. \A s \in States : sizedIn[s][a] = 1 <=> s = head
      BY <1>2, <2>1, <3>1
    <3>3. QED
      BY <1>4, <2>1, <3>1, <3>2
  <2>3. ASSUME storesFirstTailOutArcs
        PROVE  TimesIn(outArcsPerState, a) = 1
    <3>1. \A s \in States : outArcsPerState[s][a] = 1 <=> s = tail
      BY <1>1, <1>6, <2>3, BitFacts DEF HoldsArcs, Holds, OutHolds, BelongsOut
    <3>2. QED
      BY <1>4, <2>1, <3>1
  <2>4. ASSUME storesOutArcs
        PROVE  TimesIn(outArcsPerState, a) > 0 /\ TimesIn(sizedOut, a) > 0
    <3>1. BelongsOut(tail, shape[a])
      BY <1>1, <2>1, <2>4, BitFacts DEF BelongsOut
    <3>2. outArcsPerState[tail][a] = 1
      BY <1>6, <2>1, <3>1 DEF HoldsArcs, Holds, OutHolds
    <3>3. sizedOut[tail][a] = 1
      BY <1>2, <2>1, <3>2
    <3>4. QED
      BY <1>4, <2>1, <3>2, <3>3
  <2>. HIDE DEF head, tail
  <2>5. QED
    BY <1>6, <2>2, <2>3, <2>4 DEF Ones, sizedIn, sizedOut
<1>7. QED
  BY <1>5, <1>6

(* forArcsFsm finds an arc of an FSM in the list of its first tail only. *)
LEMMA FsmListsFacts ==
  ASSUME DistinctTails, LexicalLabels, NEW K \in SUBSET ArcIds, HoldsArcs(K), NEW sh,
         "kStoreOutArcs" \in properties, \A b \in K : IsFsmArc(shape[b]), NEW a \in ArcIds
  PROVE  TimesIn(Sized(FsmLists(sh)), a) = Ones(K)[a]
<1>. DEFINE lists == FsmLists(sh)
            sized == Sized(lists)
<1>1. /\ outArcsPerState \in Counts
      /\ \A s \in States, b \in ArcIds :
           outArcsPerState[s][b] \in {0, 1} /\ (b \notin K => outArcsPerState[s][b] = 0)
      /\ ~storesFirstTailOutArcs
      /\ numStates \in Nat
  BY HypergraphAssumption, BitFacts DEF HoldsArcs, Holds, OutHolds, TypeOK
<1>2. /\ NarrowedToFirstTail(sh) \in Counts
      /\ \A s \in States, b \in ArcIds : NarrowedToFirstTail(sh)[s][b] \in {0, outArcsPerState[s][b]}
  BY <1>1 DEF NarrowedToFirstTail, Counts
<1>3. /\ ListsOf(States \ Lexical, outArcsPerState) \in Counts
      /\ \A s \in States, b \in ArcIds :
           ListsOf(States \ Lexical, outArcsPerState)[s][b]
             = IF s \in Lexical THEN 0 ELSE outArcsPerState[s][b]
  BY <1>1, ListsOfFacts
<1>4. /\ lists \in Counts
      /\ \A s \in States, b \in ArcIds : lists[s][b] \in {0, outArcsPerState[s][b]}
      /\ HasVocabulary => \A s \in States, b \in ArcIds :
                            lists[s][b] = IF s \in Lexical THEN 0 ELSE outArcsPerState[s][b]
  BY <1>2, <1>3 DEF FsmLists
<1>. HIDE DEF lists
<1>5. /\ sized \in Counts
      /\ \A s \in States : sized[s][a] = IF s < numStates THEN lists[s][a] ELSE 0
  <2>1. \A s \in States : s \in 0 .. numStates - 1 <=> s < numStates
    BY <1>1, StatesFacts
  <2>2. PICK S : S = 0 .. numStates - 1 /\ sized = ListsOf(S, lists)
    BY DEF Sized
  <2>. HIDE DEF sized
  <2>3. /\ ListsOf(S, lists) \in Counts
        /\ \A s \in States, b \in ArcIds :
             ListsOf(S, lists)[s][b] = IF s \in S THEN lists[s][b] ELSE 0
    <3>1. lists \in Counts
      BY <1>4
    <3>2. QED
      BY <3>1, ListsOfFacts
  <2>4. QED
    BY <2>1, <2>2, <2>3
<1>. HIDE DEF sized
<1>6. /\ \A s \in States : sized[s][a] \in {0, 1}
      /\ a \notin K => \A s \in States : sized[s][a] = 0
  BY <1>1, <1>4, <1>5
<1>7. /\ TimesIn(sized, a) \in Nat
      /\ TimesIn(sized, a) > 0 <=> \E s \in States : sized[s][a] = 1
      /\ \A t \in States : (\A s \in States : sized[s][a] = 1 <=> s = t) => TimesIn(sized, a) = 1
  BY <1>5, <1>6, TimesInFacts
<1>8. CASE a \notin K
  <2>1. TimesIn(sized, a) = 0
    BY <1>6, <1>7, <1>8
  <2>2. QED
    BY <1>8, <2>1 DEF Ones, sized, lists
<1>9. CASE a \in K
  <2>. DEFINE tail == shape[a].tails[1]
              label == shape[a].tails[2]
  <2>1. /\ shape[a] \in Shapes /\ IsFsmArc(shape[a])
        /\ tail < numStates
    BY <1>9 DEF HoldsArcs, Holds, IsCounted, TypeOK
  <2>2. HasVocabulary /\ tail \notin Lexical /\ label \in Lexical
    BY <2>1 DEF LexicalLabels
  <2>3. tail \in States /\ shape[a].tails \in Seq(States)
    BY <2>1, ShapeFacts
  <2>4. DOMAIN shape[a].tails = {1, 2}
    <3>1. Len(shape[a].tails) = 2
      BY <2>1 DEF IsFsmArc
    <3>2. QED
      BY <2>3, <3>1
  <2>5. \A s \in States : outArcsPerState[s][a] = 1 <=> s = tail \/ s = label
    BY <1>1, <1>9, <2>4 DEF HoldsArcs, Holds, OutHolds, BelongsOut
  <2>. HIDE DEF tail, label
  <2>6. \A s \in States : sized[s][a] = 1 <=> s = tail
    BY <1>1, <1>4, <1>5, <2>1, <2>2, <2>5 DEF tail
  <2>7. TimesIn(sized, a) = 1
    BY <1>7, <2>3, <2>6 DEF tail
  <2>8. QED
    BY <1>9, <2>7 DEF Ones, sized, lists
<1>10. QED
  BY <1>8, <1>9

(* Each arc is visited once whichever index is used, and though one has been
   edited since the hypergraph was found to be an FSM or not to be. *)
LEMMA VisitsFacts ==
  ASSUME DistinctTails, LexicalLabels, NEW K \in SUBSET ArcIds, HoldsArcs(K)
  PROVE  /\ Visits = Ones(K) /\ Visited = K
         /\ SafeVisits = Ones(K)
         /\ AreFsmArcs(shape) => \A a \in K : IsFsmArc(shape[a])
         /\ kFsm # "unchecked" => \A sh : VisitsOf(sh) = Ones(K)
<1>1. /\ properties \in Indexes /\ kFsm \in {"yes", "no", "unchecked"}
      /\ storesInArcs \/ storesOutArcs
      /\ ~storesInArcs /\ ~storesFirstTailOutArcs => "kStoreOutArcs" \in properties
  BY BitFacts DEF HoldsArcs, TypeOK
<1>2. AreFsmArcs(shape) => \A a \in K : IsFsmArc(shape[a])
  <2>1. \A a \in K : a \in DOMAIN shape /\ a \in ArcIds
    BY DEF HoldsArcs, Holds, heap
  <2>2. \A a \in K : /\ storesInArcs => TimesIn(inArcsPerState, a) = 1
                     /\ storesOutArcs => TimesIn(outArcsPerState, a) > 0
    BY HeldFacts DEF Ones
  <2>3. QED
    BY <1>1, <2>1, <2>2 DEF AreFsmArcs
<1>3. SafeVisits = Ones(K)
  <2>1. CASE storesInArcs
    BY <2>1, HeldFacts DEF SafeVisits, TimesInAny, Ones
  <2>2. CASE ~storesInArcs
    BY <1>1, <2>2, HeldFacts DEF SafeVisits, TimesInAny, AtMostOnce, Ones
  <2>3. QED
    BY <2>1, <2>2
<1>4. ASSUME NEW sh, IsFsm(sh) => \A a \in K : IsFsmArc(shape[a])
      PROVE  VisitsOf(sh) = Ones(K)
  <2>1. CASE storesInArcs
    BY <2>1, HeldFacts DEF VisitsOf, TimesInAny, Ones
  <2>2. CASE ~storesInArcs /\ storesFirstTailOutArcs
    BY <2>2, HeldFacts DEF VisitsOf, TimesInAny, Ones
  <2>3. CASE ~storesInArcs /\ ~storesFirstTailOutArcs /\ IsFsm(sh)
    <3>1. VisitsOf(sh) = TimesInAny(Sized(FsmLists(sh)))
      BY <2>3 DEF VisitsOf
    <3>2. \A a \in ArcIds : TimesIn(Sized(FsmLists(sh)), a) = Ones(K)[a]
      BY <1>1, <1>4, <2>3, FsmListsFacts
    <3>3. QED
      BY <3>1, <3>2 DEF TimesInAny, Ones
  <2>4. CASE ~storesInArcs /\ ~storesFirstTailOutArcs /\ ~IsFsm(sh)
    BY <1>1, <2>4, HeldFacts DEF VisitsOf, TimesInAny, AtMostOnce, Ones
  <2>5. QED
    BY <2>1, <2>2, <2>3, <2>4
<1>5. kFsm = "yes" => \A a \in K : IsFsmArc(shape[a])
  BY DEF HoldsArcs, IsKnownFsm
<1>6. Visits = Ones(K)
  BY <1>2, <1>4, <1>5 DEF Visits, IsFsm
<1>7. kFsm # "unchecked" => \A sh : VisitsOf(sh) = Ones(K)
  BY <1>4, <1>5 DEF IsFsm
<1>8. Visited = K
  BY <1>6 DEF Visited, Ones
<1>9. QED
  BY <1>2, <1>3, <1>6, <1>7, <1>8

(* What the indexes hold is determined. *)
LEMMA VisitedHeld ==
  ASSUME DistinctTails, LexicalLabels, IInv
  PROVE  HoldsArcs(Visited) /\ Visits = Ones(Visited) /\ Visited \subseteq heap
BY VisitsFacts DEF IInv, HoldsArcs, Holds

(* An index built from arcs each visited once *)
LEMMA IndexByFacts ==
  ASSUME DistinctTails, NEW K \in SUBSET ArcIds, NEW sh, \A a \in DOMAIN sh : sh[a] \in Shapes,
         K \subseteq DOMAIN sh
  PROVE  /\ \A s \in States, a \in ArcIds :
              /\ HeadIndex(sh, Ones(K))[s][a] = IF a \in K /\ sh[a].head = s THEN 1 ELSE 0
              /\ FirstTailIndex(sh, Ones(K))[s][a]
                   = IF a \in K /\ sh[a].tails[1] = s THEN 1 ELSE 0
              /\ TailIndex(sh, Ones(K))[s][a]
                   = IF a \in K /\ \E i \in DOMAIN sh[a].tails : sh[a].tails[i] = s THEN 1 ELSE 0
         /\ HeadIndex(sh, Ones(K)) \in Counts
         /\ FirstTailIndex(sh, Ones(K)) \in Counts
         /\ TailIndex(sh, Ones(K)) \in Counts
<1>1. ASSUME NEW index \in {"kStoreInArcs", "kStoreFirstTailOutArcs", "kStoreOutArcs"}
      PROVE  /\ IndexBy(index, sh, Ones(K)) \in Counts
             /\ \A s \in States, a \in ArcIds :
                  IndexBy(index, sh, Ones(K))[s][a] = IF a \in K THEN Times(index, s, sh[a]) ELSE 0
  <2>1. ASSUME NEW s \in States, NEW a \in ArcIds
        PROVE  /\ IndexBy(index, sh, Ones(K))[s][a] = IF a \in K THEN Times(index, s, sh[a]) ELSE 0
               /\ IndexBy(index, sh, Ones(K))[s][a] \in Nat
    <3>1. IndexBy(index, sh, Ones(K))[s][a]
            = IF a \in DOMAIN sh THEN (IF a \in K THEN 1 ELSE 0) * Times(index, s, sh[a]) ELSE 0
      BY DEF IndexBy, Ones
    <3>2. a \in DOMAIN sh => Times(index, s, sh[a]) \in {0, 1}
      BY TimesFacts
    <3>3. QED
      BY <3>1, <3>2
  <2>2. IndexBy(index, sh, Ones(K)) = [s \in States |-> [a \in ArcIds |-> IndexBy(index, sh, Ones(K))[s][a]]]
    BY DEF IndexBy
  <2>3. QED
    BY <2>1, <2>2 DEF Counts
<1>2. \A a \in K : sh[a] \in Shapes
  OBVIOUS
<1>3. QED
  BY <1>1, <1>2, TimesFacts DEF HeadIndex, FirstTailIndex, TailIndex

LEMMA NoArcsFacts ==
  NoArcs \in Counts /\ \A s \in States, a \in ArcIds : NoArcs[s][a] = 0
BY DEF NoArcs, Counts

(* Both indexes built from arcs each visited once *)
LEMMA IndexFacts ==
  ASSUME DistinctTails, properties \in Indexes,
         NEW K \in SUBSET ArcIds, NEW sh, \A a \in DOMAIN sh : sh[a] \in Shapes,
         K \subseteq DOMAIN sh
  PROVE  /\ InIndex(sh, Ones(K)) \in Counts
         /\ OutIndex(sh, Ones(K)) \in Counts
         /\ \A s \in States, a \in ArcIds :
              /\ InIndex(sh, Ones(K))[s][a] = IF a \in K /\ BelongsIn(s, sh[a]) THEN 1 ELSE 0
              /\ OutIndex(sh, Ones(K))[s][a] = IF a \in K /\ BelongsOut(s, sh[a]) THEN 1 ELSE 0
<1>1. HeadIndex(sh, Ones(K)) \in Counts /\ NoArcs \in Counts
  BY IndexByFacts, NoArcsFacts
<1>2. /\ InIndex(sh, Ones(K)) \in Counts
      /\ \A s \in States, a \in ArcIds :
           InIndex(sh, Ones(K))[s][a] = IF a \in K /\ BelongsIn(s, sh[a]) THEN 1 ELSE 0
  BY <1>1, IndexByFacts, NoArcsFacts DEF InIndex, BelongsIn
<1>3. CASE storesFirstTailOutArcs
  BY <1>2, <1>3, IndexByFacts, BitFacts DEF OutIndex, BelongsOut
<1>4. CASE "kStoreOutArcs" \in properties
  BY <1>2, <1>4, IndexByFacts, BitFacts DEF OutIndex, BelongsOut
<1>5. CASE ~storesFirstTailOutArcs /\ "kStoreOutArcs" \notin properties
  BY <1>2, <1>5, NoArcsFacts, BitFacts DEF OutIndex, BelongsOut
<1>6. QED
  BY <1>3, <1>4, <1>5

LEMMA KeptFacts ==
  ASSUME NEW K \in SUBSET ArcIds, NEW J \in SUBSET K
  PROVE  Kept(Ones(K), J) = Ones(J)
BY DEF Kept, Ones

-----------------------------------------------------------------------------
(* IInv is inductive: adding *)

(* What a step may do to the arcs K the indexes hold: take some out, put one
   in, edit one, or renumber the states of those it keeps. *)
Untouched(J) == \A a \in J : shape'[a] = shape[a]
ArcsChange(K, J) ==
  \/ J \subseteq K /\ Untouched(J)
  \/ \E a \in ArcIds \ K : J = K \cup {a} /\ shape'[a] \in Shapes /\ Untouched(K)
  \/ \E a \in K : J = K /\ shape'[a] \in Shapes /\ Untouched(K \ {a})
  \/ /\ J \subseteq K
     /\ \E x \in [States -> States] : \A a \in J : shape'[a] = Image(x, shape[a])

(* A step from a state whose indexes hold K leads to one whose indexes hold
   some J, and while in-arcs are stored the step forgets no arc. *)
Steps(K) ==
  \E J \in SUBSET ArcIds :
    /\ HoldsArcs(J)'
    /\ storesInArcs => heap' \ J \subseteq heap \ K
    /\ ArcsChange(K, J)

LEMMA IInvInit == Init => IInv
<1>. SUFFICES ASSUME Init PROVE IInv
  OBVIOUS
<1>1. heap = {}
  BY DEF Init, heap
<1>2. TypeOK
  <2>1. 0 \in 0 .. MaxStates
    BY HypergraphAssumption
  <2>2. QED
    BY <1>1, <2>1, NoArcsFacts DEF Init, TypeOK
<1>3. Holds({})
  BY <1>1, NoArcsFacts DEF Init, Holds, InHolds, OutHolds
<1>4. HoldsArcs({})
  BY <1>2, <1>3 DEF HoldsArcs, IsCounted, IsKnownFsm, Init
<1>5. QED
  BY <1>4 DEF IInv

(* A step that leaves arcs and indexes as they are *)
LEMMA NothingMoves ==
  ASSUME NEW K \in SUBSET ArcIds, HoldsArcs(K), UNCHANGED <<properties, shape, indexes, deletedTwice>>,
         numStates' \in 0 .. MaxStates, IsCounted(K)',
         kFsm' \in {"yes", "no", "unchecked"}, IsKnownFsm(K)'
  PROVE  Steps(K)
<1>1. heap' = heap
  BY DEF heap
<1>2. TypeOK'
  BY <1>1 DEF HoldsArcs, TypeOK, indexes
<1>3. /\ \A s, sh : BelongsIn(s, sh)' <=> BelongsIn(s, sh)
      /\ \A s, sh : BelongsOut(s, sh)' <=> BelongsOut(s, sh)
  BY DEF BelongsIn, BelongsOut, storesInArcs, storesFirstTailOutArcs
<1>4. Holds(K)'
  BY <1>1, <1>3 DEF HoldsArcs, Holds, InHolds, OutHolds, indexes
<1>5. HoldsArcs(K)'
  BY <1>2, <1>4 DEF HoldsArcs
<1>6. QED
  BY <1>1, <1>5 DEF Steps, ArcsChange, Untouched

LEMMA AddStateStep ==
  ASSUME NEW K \in SUBSET ArcIds, HoldsArcs(K), AddState
  PROVE  Steps(K)
<1>1. numStates' \in 0 .. MaxStates
  BY HypergraphAssumption DEF HoldsArcs, TypeOK, AddState
<1>2. \A a \in K : shape[a].head \in Nat /\ shape[a].tails[1] \in Nat
  BY ShapeFacts, StatesFacts DEF HoldsArcs, Holds, TypeOK
<1>3. IsCounted(K)'
  BY <1>2 DEF HoldsArcs, IsCounted, AddState, TypeOK
<1>4. kFsm' \in {"yes", "no", "unchecked"} /\ IsKnownFsm(K)'
  BY DEF HoldsArcs, TypeOK, IsKnownFsm, AddState
<1>5. QED
  BY <1>1, <1>3, <1>4, NothingMoves DEF AddState, indexes

LEMMA CheckFsmStep ==
  ASSUME DistinctTails, LexicalLabels, NEW K \in SUBSET ArcIds, HoldsArcs(K), CheckFsm
  PROVE  Steps(K)
<1>1. UNCHANGED <<numStates, properties, shape, indexes, deletedTwice>>
  BY DEF CheckFsm
<1>2. numStates' \in 0 .. MaxStates /\ IsCounted(K)'
  BY <1>1 DEF HoldsArcs, TypeOK, IsCounted
<1>3. kFsm' = IF AreFsmArcs(shape) THEN "yes" ELSE "no"
  BY DEF CheckFsm
<1>4. IsKnownFsm(K)'
  BY <1>1, <1>3, VisitsFacts DEF IsKnownFsm
<1>5. QED
  BY <1>1, <1>2, <1>3, <1>4, NothingMoves

(* The least of some natural numbers is one of them: the intervals up to the
   numbers are finite sets, and one of them has none of the others inside. *)
LEMMA LeastIsIn ==
  ASSUME NEW S \in SUBSET Nat, S # {}
  PROVE  \E m \in S : \A n \in S : m <= n
<1>. DEFINE Below == {0 .. s : s \in S}
<1>1. Below \subseteq FiniteSubsetsOf(Nat) /\ Below # {}
  <2>1. \A s \in S : 0 .. s \in SUBSET Nat /\ s \in Int
    OBVIOUS
  <2>2. \A s \in S : 0 .. s \in FiniteSubsetsOf(Nat)
    BY <2>1, FS_Interval DEF FiniteSubsetsOf
  <2>3. QED
    BY <2>2
<1>2. IsWellFoundedOn(StrictSubsetOrdering(Nat), FiniteSubsetsOf(Nat))
  BY FS_StrictSubsetOrderingWellFounded
<1>3. PICK b \in Below : \A c \in Below : ~(<<c, b>> \in StrictSubsetOrdering(Nat))
  <2>. HIDE DEF Below
  <2>1. QED
    BY <1>1, <1>2, WFMin
<1>4. PICK m \in S : b = 0 .. m
  OBVIOUS
<1>5. ASSUME NEW n \in S, ~(m <= n)
      PROVE  FALSE
  <2>1. 0 .. n \in SUBSET Nat /\ b \in SUBSET Nat /\ 0 .. n \subseteq b /\ 0 .. n # b
    <3>1. m \in b /\ m \notin 0 .. n
      BY <1>4, <1>5
    <3>2. QED
      BY <1>4, <1>5, <3>1
  <2>2. <<0 .. n, b>> \in StrictSubsetOrdering(Nat)
    BY <2>1 DEF StrictSubsetOrdering
  <2>3. QED
    BY <1>3, <2>2
<1>6. QED
  BY <1>5

LEMMA AddArcStep ==
  ASSUME DistinctTails, NEW K \in SUBSET ArcIds, HoldsArcs(K), NEW sh \in Shapes, AddArc(sh)
  PROVE  Steps(K)
<1>. DEFINE With(adj, more) ==
              [s \in States |-> [b \in ArcIds |-> adj[s][b] + more[s][b]]]
<1>1. PICK a \in ArcIds \ heap :
        a = CHOOSE b \in ArcIds \ heap : \A c \in ArcIds \ heap : b <= c
  <2>1. ArcIds \ heap \in SUBSET Nat /\ ArcIds \ heap # {}
    BY HypergraphAssumption DEF AddArc
  <2>2. QED
    BY <2>1, LeastIsIn
<1>. DEFINE added == [b \in ArcIds |-> IF b = a THEN 1 ELSE 0]
            arcs == [b \in {a} |-> sh]
<1>2. /\ shape' = [b \in heap \cup {a} |-> IF b = a THEN sh ELSE shape[b]]
      /\ inArcsPerState' = With(inArcsPerState, InIndex(arcs, added))
      /\ outArcsPerState' = With(outArcsPerState, OutIndex(arcs, added))
      /\ kFsm' = "unchecked"
      /\ UNCHANGED <<properties, deletedTwice>>
  BY <1>1 DEF AddArc
<1>3. /\ numStates' \in 0 .. MaxStates
      /\ numStates <= numStates'
      /\ \A s \in StatesOf(sh) : s < numStates'
  BY HypergraphAssumption DEF AddArc, HoldsArcs, TypeOK
<1>4. heap' = heap \cup {a}
  BY <1>2 DEF heap
<1>5. a \notin K /\ K \subseteq heap /\ heap \subseteq ArcIds
  BY <1>1 DEF HoldsArcs, Holds, TypeOK
<1>6. added = Ones({a}) /\ DOMAIN arcs = {a} /\ arcs[a] = sh
  BY DEF Ones
<1>7. /\ InIndex(arcs, added) \in Counts
      /\ OutIndex(arcs, added) \in Counts
      /\ \A s \in States, b \in ArcIds :
           /\ InIndex(arcs, added)[s][b] = IF b = a /\ BelongsIn(s, sh) THEN 1 ELSE 0
           /\ OutIndex(arcs, added)[s][b] = IF b = a /\ BelongsOut(s, sh) THEN 1 ELSE 0
  <2>. HIDE DEF added, arcs
  <2>1. {a} \in SUBSET ArcIds /\ \A b \in DOMAIN arcs : arcs[b] \in Shapes
    BY <1>1, <1>6
  <2>2. properties \in Indexes
    BY DEF HoldsArcs, TypeOK
  <2>3. /\ InIndex(arcs, Ones({a})) \in Counts
        /\ OutIndex(arcs, Ones({a})) \in Counts
        /\ \A s \in States, b \in ArcIds :
             /\ InIndex(arcs, Ones({a}))[s][b] = IF b \in {a} /\ BelongsIn(s, arcs[b]) THEN 1 ELSE 0
             /\ OutIndex(arcs, Ones({a}))[s][b] = IF b \in {a} /\ BelongsOut(s, arcs[b]) THEN 1 ELSE 0
    BY <1>6, <2>1, <2>2, IndexFacts
  <2>4. QED
    BY <1>6, <2>3
<1>. HIDE DEF added, arcs
<1>8. TypeOK'
  <2>1. inArcsPerState \in Counts /\ outArcsPerState \in Counts
    BY DEF HoldsArcs, TypeOK
  <2>2. With(inArcsPerState, InIndex(arcs, added)) \in Counts
    BY <1>7, <2>1 DEF Counts
  <2>3. With(outArcsPerState, OutIndex(arcs, added)) \in Counts
    BY <1>7, <2>1 DEF Counts
  <2>4. \A b \in heap' : shape'[b] \in Shapes
    BY <1>2, <1>4 DEF HoldsArcs, TypeOK
  <2>5. QED
    BY <1>1, <1>2, <1>3, <1>4, <2>2, <2>3, <2>4 DEF HoldsArcs, TypeOK
<1>9. /\ \A s, x : BelongsIn(s, x)' <=> BelongsIn(s, x)
      /\ \A s, x : BelongsOut(s, x)' <=> BelongsOut(s, x)
  BY <1>2 DEF BelongsIn, BelongsOut, storesInArcs, storesFirstTailOutArcs
<1>10. \A b \in heap : shape'[b] = shape[b]
  BY <1>1, <1>2
<1>11. shape'[a] = sh
  BY <1>2
<1>12. Holds(K \cup {a})'
  <2>1. InHolds(K \cup {a})'
    BY <1>2, <1>5, <1>7, <1>9, <1>10, <1>11 DEF HoldsArcs, Holds, InHolds
  <2>2. OutHolds(K \cup {a})'
    BY <1>2, <1>5, <1>7, <1>9, <1>10, <1>11 DEF HoldsArcs, Holds, OutHolds
  <2>3. QED
    BY <1>4, <1>5, <2>1, <2>2 DEF Holds
<1>13. IsCounted(K \cup {a})'
  <2>1. shape'[a].head < numStates' /\ shape'[a].tails[1] < numStates'
    BY <1>3, <1>11, ShapeFacts DEF StatesOf
  <2>2. \A b \in K : shape[b].head \in Nat /\ shape[b].tails[1] \in Nat
    BY ShapeFacts, StatesFacts DEF HoldsArcs, Holds, TypeOK
  <2>3. \A b \in K : shape'[b].head < numStates' /\ shape'[b].tails[1] < numStates'
    BY <1>3, <1>5, <1>10, <2>2 DEF HoldsArcs, IsCounted, TypeOK
  <2>4. QED
    BY <2>1, <2>3 DEF IsCounted
<1>14. K \cup {a} \in SUBSET ArcIds
  BY <1>1
<1>15. HoldsArcs(K \cup {a})'
  BY <1>2, <1>8, <1>12, <1>13 DEF HoldsArcs, IsKnownFsm
<1>16. ArcsChange(K, K \cup {a})
  BY <1>1, <1>5, <1>10, <1>11 DEF ArcsChange, Untouched
<1>17. QED
  BY <1>4, <1>14, <1>15, <1>16 DEF Steps

LEMMA AppendFacts ==
  ASSUME NEW S, NEW list \in Seq(S), NEW t \in S
  PROVE  /\ DOMAIN Append(list, t) = DOMAIN list \cup {Len(list) + 1}
         /\ Len(list) + 1 \notin DOMAIN list
         /\ Append(list, t)[Len(list) + 1] = t
         /\ \A i \in DOMAIN list : Append(list, t)[i] = list[i]
         /\ Append(list, t) # <<>>
<1>1. Len(list) \in Nat /\ DOMAIN list = 1 .. Len(list)
  OBVIOUS
<1>2. /\ Append(list, t) \in Seq(S)
      /\ Len(Append(list, t)) = Len(list) + 1
      /\ DOMAIN Append(list, t) = 1 .. Len(list) + 1
  OBVIOUS
<1>3. Append(list, t)[Len(list) + 1] = t /\ \A i \in 1 .. Len(list) : Append(list, t)[i] = list[i]
  OBVIOUS
<1>4. QED
  BY <1>1, <1>2, <1>3

LEMMA AddedTailStep ==
  ASSUME DistinctTails, LexicalLabels, NEW K \in SUBSET ArcIds, HoldsArcs(K),
         NEW a \in ArcIds, NEW t \in States, AddedTail(a, t)
  PROVE  Steps(K)
<1>. DEFINE tails == shape[a].tails
            longer == Append(tails, t)
<1>1. a \in K /\ a \in heap /\ shape[a] \in Shapes
  BY VisitsFacts DEF AddedTail, HoldsArcs, Holds, TypeOK
<1>2. /\ shape' = [shape EXCEPT ![a].tails = longer]
      /\ [shape[a] EXCEPT !.tails = longer] \in Shapes
      /\ kFsm' = "unchecked"
      /\ UNCHANGED <<numStates, properties, inArcsPerState, deletedTwice>>
  BY DEF AddedTail
<1>3. heap' = heap /\ \A b \in heap : b # a => shape'[b] = shape[b]
  BY <1>2 DEF heap
<1>4. shape'[a] = [shape[a] EXCEPT !.tails = longer]
  BY <1>1, <1>2 DEF heap
<1>5. tails \in Seq(States) /\ 1 \in DOMAIN tails
  BY <1>1, ShapeFacts
<1>6. /\ DOMAIN longer = DOMAIN tails \cup {Len(tails) + 1}
      /\ Len(tails) + 1 \notin DOMAIN tails
      /\ longer[Len(tails) + 1] = t
      /\ \A i \in DOMAIN tails : longer[i] = tails[i]
      /\ longer # <<>>
  BY <1>5, AppendFacts
<1>7. /\ shape'[a] \in Shapes
      /\ shape'[a].head = shape[a].head
      /\ shape'[a].tails = longer
  BY <1>1, <1>2, <1>4, ShapeFacts
<1>8. \A i \in DOMAIN tails : tails[i] # t
  <2>1. \A i, j \in DOMAIN longer : longer[i] = longer[j] => i = j
    BY <1>7 DEF DistinctTails
  <2>2. QED
    BY <1>6, <2>1
<1>9. shape'[a].tails[1] = tails[1]
  BY <1>5, <1>6, <1>7
<1>10. /\ \A s, x : BelongsIn(s, x)' <=> BelongsIn(s, x)
       /\ storesFirstTailOutArcs' <=> storesFirstTailOutArcs
  BY <1>2 DEF BelongsIn, storesInArcs, storesFirstTailOutArcs
<1>11. InHolds(K)'
  <2>1. \A b \in K : shape'[b].head = shape[b].head
    BY <1>3, <1>7 DEF HoldsArcs, Holds
  <2>2. storesInArcs' <=> storesInArcs
    BY <1>2 DEF storesInArcs
  <2>3. QED
    BY <1>2, <2>1, <2>2 DEF HoldsArcs, Holds, InHolds, BelongsIn
<1>. HIDE DEF longer, tails
<1>12. outArcsPerState' \in Counts /\ OutHolds(K)'
  <2>1. outArcsPerState \in Counts
    BY DEF HoldsArcs, TypeOK
  <2>2. CASE "kStoreOutArcs" \in properties
    <3>1. outArcsPerState' = [outArcsPerState EXCEPT ![t][a] = @ + 1]
      BY <2>2 DEF AddedTail
    <3>2. outArcsPerState' \in Counts
      BY <2>1, <3>1 DEF Counts
    <3>3. \A s \in States, b \in ArcIds :
            outArcsPerState'[s][b] = outArcsPerState[s][b] + IF s = t /\ b = a THEN 1 ELSE 0
      BY <2>1, <3>1 DEF Counts
    <3>4. ~storesFirstTailOutArcs
      BY <2>2, BitFacts DEF HoldsArcs, TypeOK
    <3>5. \A s \in States, b \in ArcIds :
            outArcsPerState[s][b]
              = IF b \in K /\ \E i \in DOMAIN shape[b].tails : shape[b].tails[i] = s THEN 1 ELSE 0
      BY <2>2, <3>4 DEF HoldsArcs, Holds, OutHolds, BelongsOut
    <3>6. ASSUME NEW s \in States, NEW b \in ArcIds
          PROVE  outArcsPerState'[s][b]
              = IF b \in K /\ \E i \in DOMAIN shape'[b].tails : shape'[b].tails[i] = s THEN 1 ELSE 0
      <4>1. CASE b # a
        BY <1>3, <3>3, <3>5, <4>1 DEF HoldsArcs, Holds
      <4>2. CASE b = a
        <5>1. (\E i \in DOMAIN longer : longer[i] = s)
                <=> s = t \/ \E i \in DOMAIN tails : tails[i] = s
          BY <1>6
        <5>2. outArcsPerState[s][a] = IF \E i \in DOMAIN tails : tails[i] = s THEN 1 ELSE 0
          BY <1>1, <3>5 DEF tails
        <5>3. QED
          BY <1>1, <1>7, <1>8, <3>3, <4>2, <5>1, <5>2
      <4>3. QED
        BY <4>1, <4>2
    <3>7. "kStoreOutArcs" \in properties' /\ ~storesFirstTailOutArcs'
      BY <1>2, <1>10, <2>2, <3>4
    <3>8. QED
      BY <3>2, <3>6, <3>7 DEF OutHolds, BelongsOut
  <2>3. CASE "kStoreOutArcs" \notin properties
    <3>1. outArcsPerState' = outArcsPerState /\ "kStoreOutArcs" \notin properties'
      BY <1>2, <2>3 DEF AddedTail
    <3>2. \A b \in K : shape'[b].tails[1] = shape[b].tails[1]
      BY <1>3, <1>9 DEF HoldsArcs, Holds, tails
    <3>3. QED
      BY <1>10, <2>1, <2>3, <3>1, <3>2 DEF HoldsArcs, Holds, OutHolds, BelongsOut
  <2>4. QED
    BY <2>2, <2>3
<1>13. IsCounted(K)'
  BY <1>2, <1>3, <1>7, <1>9 DEF HoldsArcs, Holds, IsCounted, tails
<1>14. TypeOK'
  BY <1>2, <1>3, <1>7, <1>12 DEF HoldsArcs, TypeOK
<1>15. HoldsArcs(K)'
  BY <1>2, <1>3, <1>11, <1>12, <1>13, <1>14 DEF HoldsArcs, Holds, IsKnownFsm
<1>16. ArcsChange(K, K)
  BY <1>1, <1>3, <1>7 DEF ArcsChange, Untouched, HoldsArcs, Holds
<1>17. QED
  BY <1>3, <1>15, <1>16 DEF Steps

-----------------------------------------------------------------------------
(* IInv is inductive: converting indexes *)

LEMMA SameArcs ==
  ASSUME NEW K \in SUBSET ArcIds, HoldsArcs(K), UNCHANGED <<numStates, shape, kFsm, deletedTwice>>,
         properties' \in Indexes, inArcsPerState' \in Counts, outArcsPerState' \in Counts,
         InHolds(K)', OutHolds(K)'
  PROVE  HoldsArcs(K)' /\ Steps(K)
<1>1. heap' = heap
  BY DEF heap
<1>2. TypeOK' /\ Holds(K)' /\ IsCounted(K)' /\ IsKnownFsm(K)'
  BY <1>1 DEF HoldsArcs, TypeOK, Holds, IsCounted, IsKnownFsm
<1>3. HoldsArcs(K)'
  BY <1>2 DEF HoldsArcs
<1>4. QED
  BY <1>1, <1>3 DEF Steps, ArcsChange, Untouched

(* The out-arcs by first tail, narrowed from all tails or built *)
LEMMA FirstTailOutArcsFacts ==
  ASSUME DistinctTails, LexicalLabels, NEW K \in SUBSET ArcIds, HoldsArcs(K), ~storesFirstTailOutArcs
  PROVE  /\ FirstTailOutArcs \in Counts
         /\ \A s \in States, a \in ArcIds :
              FirstTailOutArcs[s][a] = IF a \in K /\ shape[a].tails[1] = s THEN 1 ELSE 0
<1>1. /\ Visits = Ones(K)
      /\ properties \in Indexes
      /\ outArcsPerState \in Counts
      /\ K \subseteq DOMAIN shape
      /\ \A a \in DOMAIN shape : shape[a] \in Shapes
  BY VisitsFacts DEF HoldsArcs, Holds, TypeOK, heap
<1>2. CASE storesOutArcs
  <2>1. FirstTailOutArcs = NarrowedToFirstTail(shape)
    BY <1>2 DEF FirstTailOutArcs
  <2>2. "kStoreOutArcs" \in properties
    BY <1>1, <1>2, BitFacts
  <2>3. ASSUME NEW s \in States, NEW a \in ArcIds
        PROVE  NarrowedToFirstTail(shape)[s][a] = IF a \in K /\ shape[a].tails[1] = s THEN 1 ELSE 0
    <3>1. NarrowedToFirstTail(shape)[s][a]
            = IF a \in heap /\ shape[a].tails[1] = s THEN outArcsPerState[s][a] ELSE 0
      BY DEF NarrowedToFirstTail, heap
    <3>2. outArcsPerState[s][a] = IF a \in K /\ BelongsOut(s, shape[a]) THEN 1 ELSE 0
      BY DEF HoldsArcs, Holds, OutHolds
    <3>3. a \in K => 1 \in DOMAIN shape[a].tails /\ a \in heap
      BY <1>1, ShapeFacts DEF heap
    <3>4. QED
      BY <2>2, <3>1, <3>2, <3>3 DEF BelongsOut
  <2>4. NarrowedToFirstTail(shape) \in Counts
    BY <1>1 DEF NarrowedToFirstTail, Counts
  <2>5. QED
    BY <2>1, <2>3, <2>4
<1>3. CASE ~storesOutArcs
  BY <1>1, <1>3, IndexByFacts DEF FirstTailOutArcs
<1>4. QED
  BY <1>2, <1>3

(* The bits that forcePropertiesOnOff leaves *)
LEMMA AddedFacts ==
  ASSUME properties \in Indexes, NEW on \in SUBSET IndexBits
  PROVE  /\ Added(on) \subseteq IndexBits
         /\ "kStoreInArcs" \in Added(on) <=> "kStoreInArcs" \in properties \cup on
         /\ ~ OutBits \subseteq Added(on)
         /\ (Added(on) \ properties) \cap OutBits = {} =>
              \A b \in OutBits : b \in Added(on) <=> b \in properties
<1>. DEFINE out == (on \ properties) \cap OutBits
<1>1. ~ OutBits \subseteq properties /\ properties \subseteq IndexBits
  BY BitFacts DEF OutBits, IndexBits, storesFirstTailOutArcs
<1>2. CASE out = {"kStoreOutArcs"} \/ out = {"kStoreFirstTailOutArcs"}
  <2>1. Added(on) = (properties \ OutBits) \cup out \cup (on \cap {"kStoreInArcs"})
    BY <1>2 DEF Added
  <2>2. \E b \in out : b \in OutBits /\ b \notin properties
    BY <1>2
  <2>3. QED
    BY <1>1, <1>2, <2>1, <2>2 DEF OutBits, IndexBits
<1>3. CASE ~(out = {"kStoreOutArcs"} \/ out = {"kStoreFirstTailOutArcs"})
  <2>1. Added(on) = properties \cup (on \cap {"kStoreInArcs"})
    BY <1>3 DEF Added
  <2>2. QED
    BY <1>1, <2>1 DEF OutBits, IndexBits
<1>4. QED
  BY <1>2, <1>3

LEMMA ForcePropertiesOnOffStep ==
  ASSUME DistinctTails, LexicalLabels, NEW K \in SUBSET ArcIds, HoldsArcs(K),
         NEW on \in SUBSET IndexBits, NEW off \in SUBSET IndexBits, ForcePropertiesOnOff(on, off)
  PROVE  HoldsArcs(K)' /\ Steps(K)
<1>. DEFINE add == Added(on) \ properties
            remove == IF OutBits \subseteq on THEN {} ELSE off \cap Added(on)
<1>1. /\ Visits = Ones(K)
      /\ properties \in Indexes
      /\ inArcsPerState \in Counts /\ outArcsPerState \in Counts
      /\ K \subseteq DOMAIN shape
      /\ \A a \in DOMAIN shape : shape[a] \in Shapes
      /\ InHolds(K) /\ OutHolds(K)
  BY VisitsFacts DEF HoldsArcs, Holds, TypeOK, heap
<1>2. /\ properties' = Added(on) \ remove /\ properties' # {}
      /\ inArcsPerState' =
           IF "kStoreInArcs" \in remove THEN NoArcs
           ELSE IF "kStoreInArcs" \in add THEN HeadIndex(shape, Visits)
           ELSE inArcsPerState
      /\ outArcsPerState' =
           IF remove \cap OutBits # {} THEN NoArcs
           ELSE IF "kStoreOutArcs" \in add THEN BuildOut
           ELSE IF "kStoreFirstTailOutArcs" \in add THEN FirstTailOutArcs
           ELSE outArcsPerState
      /\ UNCHANGED <<numStates, shape, kFsm, deletedTwice>>
  BY DEF ForcePropertiesOnOff
<1>3. remove \subseteq Added(on)
  OBVIOUS
<1>4. /\ Added(on) \subseteq IndexBits
      /\ "kStoreInArcs" \in Added(on) <=> "kStoreInArcs" \in properties \cup on
      /\ ~ OutBits \subseteq Added(on)
      /\ add \cap OutBits = {} => \A b \in OutBits : b \in Added(on) <=> b \in properties
  BY <1>1, AddedFacts
<1>. HIDE DEF remove
<1>5. properties' \in Indexes
  <2>1. properties' \subseteq IndexBits /\ ~ OutBits \subseteq properties'
    BY <1>2, <1>4
  <2>2. QED
    BY <1>2, <2>1 DEF IndexBits, OutBits, Indexes
<1>6. InHolds(K)' /\ inArcsPerState' \in Counts
  <2>1. CASE "kStoreInArcs" \in remove
    BY <1>2, <2>1, NoArcsFacts DEF InHolds, BelongsIn, storesInArcs
  <2>2. CASE "kStoreInArcs" \notin remove /\ "kStoreInArcs" \in add
    <3>1. inArcsPerState' = HeadIndex(shape, Ones(K)) /\ storesInArcs'
      BY <1>1, <1>2, <2>2 DEF storesInArcs
    <3>2. QED
      BY <1>1, <1>2, <3>1, IndexByFacts DEF InHolds, BelongsIn
  <2>3. CASE "kStoreInArcs" \notin remove /\ "kStoreInArcs" \notin add
    <3>1. inArcsPerState' = inArcsPerState /\ (storesInArcs' <=> storesInArcs)
      BY <1>2, <1>4, <2>3 DEF storesInArcs
    <3>2. QED
      BY <1>1, <1>2, <3>1 DEF InHolds, BelongsIn
  <2>4. QED
    BY <2>1, <2>2, <2>3
<1>7. OutHolds(K)' /\ outArcsPerState' \in Counts
  <2>1. CASE remove \cap OutBits # {}
    <3>1. \A b \in OutBits : b \notin properties'
      BY <1>2, <1>3, <1>4, <2>1 DEF OutBits
    <3>2. outArcsPerState' = NoArcs /\ ~storesFirstTailOutArcs' /\ "kStoreOutArcs" \notin properties'
      BY <1>2, <2>1, <3>1 DEF OutBits, storesFirstTailOutArcs
    <3>3. QED
      BY <3>2, NoArcsFacts DEF OutHolds, BelongsOut
  <2>2. CASE remove \cap OutBits = {} /\ "kStoreOutArcs" \in add
    <3>1. /\ outArcsPerState' = TailIndex(shape, Ones(K))
          /\ "kStoreOutArcs" \in properties' /\ ~storesFirstTailOutArcs'
      BY <1>1, <1>2, <1>4, <2>2 DEF OutBits, storesFirstTailOutArcs, BuildOut
    <3>2. QED
      BY <1>1, <1>2, <3>1, IndexByFacts DEF OutHolds, BelongsOut
  <2>3. CASE /\ remove \cap OutBits = {} /\ "kStoreOutArcs" \notin add
             /\ "kStoreFirstTailOutArcs" \in add
    <3>1. /\ outArcsPerState' = FirstTailOutArcs /\ ~storesFirstTailOutArcs
          /\ "kStoreOutArcs" \notin properties' /\ storesFirstTailOutArcs'
      BY <1>2, <1>4, <2>3 DEF OutBits, storesFirstTailOutArcs
    <3>2. QED
      BY <1>2, <3>1, FirstTailOutArcsFacts DEF OutHolds, BelongsOut
  <2>4. CASE remove \cap OutBits = {} /\ add \cap OutBits = {}
    <3>1. \A b \in OutBits : b \in properties' <=> b \in properties
      BY <1>2, <1>4, <2>4
    <3>2. /\ outArcsPerState' = outArcsPerState
          /\ storesFirstTailOutArcs' <=> storesFirstTailOutArcs
          /\ "kStoreOutArcs" \in properties' <=> "kStoreOutArcs" \in properties
      BY <1>2, <2>4, <3>1 DEF OutBits, storesFirstTailOutArcs
    <3>3. QED
      BY <1>1, <1>2, <3>2 DEF OutHolds, BelongsOut
  <2>5. QED
    BY <2>1, <2>2, <2>3, <2>4 DEF OutBits
<1>8. QED
  BY <1>1, <1>2, <1>5, <1>6, <1>7, SameArcs

LEMMA ConvertStep ==
  ASSUME DistinctTails, LexicalLabels, NEW K \in SUBSET ArcIds, HoldsArcs(K), Convert
  PROVE  HoldsArcs(K)' /\ Steps(K)
<1>1. /\ Visits = Ones(K)
      /\ properties \in Indexes
      /\ inArcsPerState \in Counts /\ outArcsPerState \in Counts
      /\ K \subseteq DOMAIN shape
      /\ \A a \in DOMAIN shape : shape[a] \in Shapes
  BY VisitsFacts DEF HoldsArcs, Holds, TypeOK, heap
<1>2. CASE ForceInArcs
  <2>1. /\ storesInArcs' /\ properties' \in Indexes
        /\ \A s, x : BelongsOut(s, x)' <=> BelongsOut(s, x)
    BY <1>1, <1>2 DEF ForceInArcs, storesInArcs, storesFirstTailOutArcs, BelongsOut, Indexes
  <2>2. InHolds(K)' /\ inArcsPerState' \in Counts
    BY <1>1, <1>2, <2>1, IndexByFacts DEF ForceInArcs, InHolds, BelongsIn
  <2>3. OutHolds(K)' /\ outArcsPerState' \in Counts
    BY <1>1, <1>2, <2>1 DEF ForceInArcs, OutHolds, HoldsArcs, Holds
  <2>4. QED
    BY <1>2, <2>1, <2>2, <2>3, SameArcs DEF ForceInArcs
<1>3. CASE ForceOutArcs
  <2>1. /\ properties' \in Indexes /\ "kStoreOutArcs" \in properties'
        /\ \A s, x : BelongsIn(s, x)' <=> BelongsIn(s, x)
    BY <1>1, <1>3 DEF ForceOutArcs, storesInArcs, BelongsIn, Indexes
  <2>2. ~storesFirstTailOutArcs'
    BY <1>3 DEF ForceOutArcs, storesFirstTailOutArcs
  <2>3. InHolds(K)' /\ inArcsPerState' \in Counts
    BY <1>1, <1>3, <2>1 DEF ForceOutArcs, InHolds, HoldsArcs, Holds
  <2>4. OutHolds(K)' /\ outArcsPerState' \in Counts
    BY <1>1, <1>3, <2>1, <2>2, IndexByFacts DEF ForceOutArcs, BuildOut, OutHolds, BelongsOut
  <2>5. QED
    BY <1>3, <2>1, <2>3, <2>4, SameArcs DEF ForceOutArcs
<1>4. CASE ForceFirstTailOutArcs
  <2>1. /\ properties' \in Indexes /\ storesFirstTailOutArcs' /\ "kStoreOutArcs" \notin properties'
        /\ \A s, x : BelongsIn(s, x)' <=> BelongsIn(s, x)
    BY <1>1, <1>4 DEF ForceFirstTailOutArcs, FirstTailInsteadOfOut, storesInArcs,
      storesFirstTailOutArcs, BelongsIn, Indexes
  <2>2. InHolds(K)' /\ inArcsPerState' \in Counts
    BY <1>1, <1>4, <2>1 DEF ForceFirstTailOutArcs, InHolds, HoldsArcs, Holds
  <2>3. /\ outArcsPerState' \in Counts
        /\ \A s \in States, a \in ArcIds :
             outArcsPerState'[s][a] = IF a \in K /\ shape[a].tails[1] = s THEN 1 ELSE 0
    BY <1>4, FirstTailOutArcsFacts DEF ForceFirstTailOutArcs
  <2>4. OutHolds(K)'
    BY <1>4, <2>1, <2>3 DEF ForceFirstTailOutArcs, OutHolds, BelongsOut
  <2>5. QED
    BY <1>4, <2>1, <2>2, <2>3, <2>4, SameArcs DEF ForceFirstTailOutArcs
<1>5. CASE RemoveInArcs
  <2>1. /\ ~storesInArcs' /\ properties' \in Indexes
        /\ \A s, x : BelongsOut(s, x)' <=> BelongsOut(s, x)
    BY <1>1, <1>5 DEF RemoveInArcs, storesInArcs, storesOutArcs, storesFirstTailOutArcs, BelongsOut,
      Indexes
  <2>2. InHolds(K)' /\ inArcsPerState' \in Counts
    BY <1>5, <2>1, NoArcsFacts DEF RemoveInArcs, InHolds, BelongsIn
  <2>3. OutHolds(K)' /\ outArcsPerState' \in Counts
    BY <1>1, <1>5, <2>1 DEF RemoveInArcs, OutHolds, HoldsArcs, Holds
  <2>4. QED
    BY <1>5, <2>1, <2>2, <2>3, SameArcs DEF RemoveInArcs
<1>6. CASE RemoveOutArcs
  <2>1. /\ storesInArcs /\ storesInArcs' /\ properties' \in Indexes
        /\ ~storesFirstTailOutArcs' /\ "kStoreOutArcs" \notin properties'
    BY <1>6 DEF RemoveOutArcs, storesInArcs, storesFirstTailOutArcs, Indexes
  <2>2. InHolds(K)' /\ inArcsPerState' \in Counts
    BY <1>1, <1>6, <2>1 DEF RemoveOutArcs, InHolds, BelongsIn, HoldsArcs, Holds
  <2>3. OutHolds(K)' /\ outArcsPerState' \in Counts
    BY <1>6, <2>1, NoArcsFacts DEF RemoveOutArcs, OutHolds, BelongsOut
  <2>4. QED
    BY <1>6, <2>1, <2>2, <2>3, SameArcs DEF RemoveOutArcs
<1>7. ASSUME NEW on \in SUBSET IndexBits, NEW off \in SUBSET (properties \ on),
             ForcePropertiesOnOff(on, off)
      PROVE  HoldsArcs(K)' /\ Steps(K)
  <2>1. off \in SUBSET IndexBits
    BY <1>1, BitFacts DEF IndexBits, OutBits
  <2>2. QED
    BY <1>7, <2>1, ForcePropertiesOnOffStep
<1>8. QED
  BY <1>2, <1>3, <1>4, <1>5, <1>6, <1>7 DEF Convert

-----------------------------------------------------------------------------
(* IInv is inductive: deleting *)

(* The arcs gone are deleted, and no list holds them any more. *)
Shrinks(gone) ==
  /\ heap' = heap \ gone
  /\ \A a \in heap \ gone : shape'[a] = shape[a]
  /\ deletedTwice' = FALSE
  /\ inArcsPerState' \in Counts
  /\ outArcsPerState' \in Counts
  /\ \A s \in States, a \in ArcIds :
       /\ inArcsPerState'[s][a] = IF a \in gone THEN 0 ELSE inArcsPerState[s][a]
       /\ outArcsPerState'[s][a] = IF a \in gone THEN 0 ELSE outArcsPerState[s][a]

LEMMA ShrinkStep ==
  ASSUME NEW K \in SUBSET ArcIds, HoldsArcs(K), NEW gone \in SUBSET K, Shrinks(gone),
         UNCHANGED properties, numStates' \in 0 .. MaxStates, IsCounted(K \ gone)',
         kFsm' \in {kFsm, "unchecked"}
  PROVE  HoldsArcs(K \ gone)' /\ Steps(K)
<1>1. TypeOK'
  <2>1. heap' \subseteq ArcIds /\ \A a \in heap' : shape'[a] \in Shapes
    BY DEF HoldsArcs, TypeOK, Shrinks
  <2>2. properties' \in Indexes
    BY DEF HoldsArcs, TypeOK
  <2>3. kFsm' \in {"yes", "no", "unchecked"}
    BY DEF HoldsArcs, TypeOK
  <2>4. QED
    BY <2>1, <2>2, <2>3 DEF TypeOK, Shrinks
<1>2. /\ \A s, x : BelongsIn(s, x)' <=> BelongsIn(s, x)
      /\ \A s, x : BelongsOut(s, x)' <=> BelongsOut(s, x)
  BY DEF BelongsIn, BelongsOut, storesInArcs, storesFirstTailOutArcs
<1>3. K \ gone \subseteq heap' /\ \A a \in K \ gone : shape'[a] = shape[a]
  BY DEF HoldsArcs, Holds, Shrinks
<1>4. InHolds(K \ gone)'
  BY <1>2, <1>3 DEF HoldsArcs, Holds, InHolds, Shrinks
<1>5. OutHolds(K \ gone)'
  BY <1>2, <1>3 DEF HoldsArcs, Holds, OutHolds, Shrinks
<1>6. HoldsArcs(K \ gone)'
  <2>1. IsKnownFsm(K \ gone)'
    BY <1>3 DEF HoldsArcs, IsKnownFsm
  <2>2. QED
    BY <1>1, <1>3, <1>4, <1>5, <2>1 DEF HoldsArcs, Holds, Shrinks
<1>7. heap' \ (K \ gone) \subseteq heap \ K
  BY DEF Shrinks
<1>8. K \ gone \in SUBSET ArcIds
  OBVIOUS
<1>9. QED
  BY <1>3, <1>6, <1>7, <1>8 DEF Steps, ArcsChange, Untouched

(* removeDeletedArcs in the lists of the other index *)
LEMMA UnlinkedFacts ==
  ASSUME ShortLists, NEW adj \in Counts, \A s \in States, a \in ArcIds : adj[s][a] \in {0, 1},
         NEW gone \in SUBSET heap, gone \subseteq ArcIds, NEW index,
         \A s \in States, a \in gone : Times(index, s, shape[a]) = adj[s][a]
  PROVE  /\ Unlinked(index, adj, gone) \in Counts
         /\ \A s \in States, a \in ArcIds :
              Unlinked(index, adj, gone)[s][a] = IF a \in gone THEN 0 ELSE adj[s][a]
<1>1. ASSUME NEW s \in States, NEW a \in ArcIds
      PROVE  Unlinked(index, adj, gone)[s][a] = IF a \in gone THEN 0 ELSE adj[s][a]
  <2>1. Length(adj, s) <= kAdjLinearSearchLimit
    BY LengthFacts
  <2>2. Unlinked(index, adj, gone)[s]
          = RemoveOnce(adj[s], {b \in gone \cap heap : Times(index, s, shape[b]) = 1})
    BY <2>1 DEF Unlinked
  <2>3. Unlinked(index, adj, gone)[s][a]
          = IF a \in gone /\ Times(index, s, shape[a]) = 1 /\ adj[s][a] > 0
              THEN adj[s][a] - 1 ELSE adj[s][a]
    BY <2>2 DEF RemoveOnce
  <2>4. QED
    BY <2>3
<1>2. Unlinked(index, adj, gone) = [s \in States |-> [a \in ArcIds |-> Unlinked(index, adj, gone)[s][a]]]
  BY DEF Unlinked, RemoveOnce, Counts
<1>3. \A s \in States, a \in ArcIds : Unlinked(index, adj, gone)[s][a] \in Nat
  BY <1>1
<1>4. QED
  BY <1>1, <1>2, <1>3 DEF Counts

LEMMA DeleteAllInFacts ==
  ASSUME NEW K \in SUBSET ArcIds, HoldsArcs(K), NEW list, \A a \in ArcIds : list[a] \in {0, 1},
         \A a \in ArcIds \ K : list[a] = 0, DeleteAllIn(list),
         NEW gone \in SUBSET ArcIds, \A a \in ArcIds : a \in gone <=> list[a] > 0
  PROVE  /\ gone \in SUBSET K
         /\ heap' = heap \ gone
         /\ \A a \in heap \ gone : shape'[a] = shape[a]
         /\ deletedTwice' = FALSE
<1>0. gone = {a \in ArcIds : list[a] > 0}
  OBVIOUS
<1>1. gone \in SUBSET K /\ gone \subseteq heap
  BY DEF HoldsArcs, Holds
<1>2. shape' = Restrict(shape, heap \ gone)
  BY <1>0 DEF DeleteAllIn
<1>3. heap' = heap \ gone /\ \A a \in heap \ gone : shape'[a] = shape[a]
  BY <1>2 DEF Restrict, heap
<1>4. ~ \E a \in gone : a \notin heap \/ list[a] > 1
  BY <1>1
<1>5. deletedTwice' = (deletedTwice \/ \E a \in gone : a \notin heap \/ list[a] > 1)
  BY <1>0 DEF DeleteAllIn
<1>6. deletedTwice = FALSE
  BY DEF HoldsArcs, TypeOK
<1>7. deletedTwice' = FALSE
  BY <1>4, <1>5, <1>6
<1>8. QED
  BY <1>1, <1>3, <1>7

(* The arcs in the list of s *)
ListedIn(adj, s) == {a \in ArcIds : adj[s][a] > 0}

(* What holds of the lists, for the lemmas about deletion *)
LEMMA ListFacts ==
  ASSUME DistinctTails, NEW K \in SUBSET ArcIds, HoldsArcs(K)
  PROVE  /\ inArcsPerState \in Counts /\ outArcsPerState \in Counts
         /\ \A s \in States, a \in ArcIds :
              inArcsPerState[s][a] \in {0, 1} /\ outArcsPerState[s][a] \in {0, 1}
         /\ \A s \in States, a \in ArcIds \ K :
              inArcsPerState[s][a] = 0 /\ outArcsPerState[s][a] = 0
         /\ \A s \in States, a \in K :
              /\ storesInArcs => inArcsPerState[s][a] = Times("kStoreInArcs", s, shape[a])
              /\ ~storesInArcs => inArcsPerState[s][a] = 0
              /\ storesFirstTailOutArcs =>
                   outArcsPerState[s][a] = Times("kStoreFirstTailOutArcs", s, shape[a])
              /\ "kStoreOutArcs" \in properties =>
                   outArcsPerState[s][a] = Times("kStoreOutArcs", s, shape[a])
              /\ ~storesOutArcs => outArcsPerState[s][a] = 0
<1>1. inArcsPerState \in Counts /\ outArcsPerState \in Counts
  BY DEF HoldsArcs, TypeOK
<1>2. /\ \A s \in States, a \in ArcIds :
           inArcsPerState[s][a] \in {0, 1} /\ outArcsPerState[s][a] \in {0, 1}
      /\ \A s \in States, a \in ArcIds \ K :
           inArcsPerState[s][a] = 0 /\ outArcsPerState[s][a] = 0
  BY DEF HoldsArcs, Holds, InHolds, OutHolds
<1>3. ASSUME NEW s \in States, NEW a \in K
      PROVE  /\ storesInArcs => inArcsPerState[s][a] = Times("kStoreInArcs", s, shape[a])
             /\ ~storesInArcs => inArcsPerState[s][a] = 0
             /\ storesFirstTailOutArcs =>
                  outArcsPerState[s][a] = Times("kStoreFirstTailOutArcs", s, shape[a])
             /\ "kStoreOutArcs" \in properties =>
                  outArcsPerState[s][a] = Times("kStoreOutArcs", s, shape[a])
             /\ ~storesOutArcs => outArcsPerState[s][a] = 0
  <2>1. shape[a] \in Shapes
    BY DEF HoldsArcs, Holds, TypeOK
  <2>2. properties \in Indexes
    BY DEF HoldsArcs, TypeOK
  <2>3. inArcsPerState[s][a] = IF BelongsIn(s, shape[a]) THEN 1 ELSE 0
    BY DEF HoldsArcs, Holds, InHolds
  <2>4. outArcsPerState[s][a] = IF BelongsOut(s, shape[a]) THEN 1 ELSE 0
    BY DEF HoldsArcs, Holds, OutHolds
  <2>5. QED
    BY <2>1, <2>2, <2>3, <2>4, TimesFacts, BitFacts DEF BelongsIn, BelongsOut
<1>4. QED
  BY <1>1, <1>2, <1>3

LEMMA DeleteInFacts ==
  ASSUME DistinctTails, ShortLists, NEW K \in SUBSET ArcIds, HoldsArcs(K),
         NEW s \in States, DeleteInArcsImpl(s)
  PROVE  ListedIn(inArcsPerState, s) \in SUBSET K /\ Shrinks(ListedIn(inArcsPerState, s))
<1>. DEFINE gone == {a \in ArcIds : inArcsPerState[s][a] > 0}
<1>1. /\ gone \in SUBSET K
      /\ heap' = heap \ gone
      /\ \A a \in heap \ gone : shape'[a] = shape[a]
      /\ deletedTwice' = FALSE
  <2>1. /\ \A a \in ArcIds : inArcsPerState[s][a] \in {0, 1}
        /\ \A a \in ArcIds \ K : inArcsPerState[s][a] = 0
        /\ DeleteAllIn(inArcsPerState[s])
        /\ gone \in SUBSET ArcIds
        /\ \A a \in ArcIds : a \in gone <=> inArcsPerState[s][a] > 0
    BY ListFacts DEF DeleteInArcsImpl
  <2>. HIDE DEF gone
  <2>2. QED
    BY <2>1, DeleteAllInFacts
<1>2. inArcsPerState' = ListCleared(inArcsPerState, s)
  BY DEF DeleteInArcsImpl
<1>3. \A t \in States, a \in ArcIds :
        inArcsPerState'[t][a] = IF a \in gone THEN 0 ELSE inArcsPerState[t][a]
  <2>1. \A t \in States, a \in ArcIds :
          inArcsPerState'[t][a] = IF t = s THEN 0 ELSE inArcsPerState[t][a]
    BY <1>2, ListFacts DEF ListCleared, Counts
  <2>2. \A a \in gone, t \in States : t # s => inArcsPerState[t][a] = 0
    BY DEF HoldsArcs, Holds, InHolds, BelongsIn
  <2>3. \A a \in ArcIds \ gone : inArcsPerState[s][a] = 0
    BY ListFacts
  <2>4. QED
    BY <2>1, <2>2, <2>3
<1>4. inArcsPerState' \in Counts
  BY <1>2, ListFacts DEF ListCleared, Counts
<1>5. /\ outArcsPerState' \in Counts
      /\ \A t \in States, a \in ArcIds :
           outArcsPerState'[t][a] = IF a \in gone THEN 0 ELSE outArcsPerState[t][a]
  <2>1. CASE storesFirstTailOutArcs
    <3>1. outArcsPerState' = Unlinked("kStoreFirstTailOutArcs", outArcsPerState, gone)
      BY <2>1 DEF DeleteInArcsImpl
    <3>2. /\ gone \in SUBSET heap /\ gone \subseteq ArcIds
          /\ \A t \in States, a \in gone :
               Times("kStoreFirstTailOutArcs", t, shape[a]) = outArcsPerState[t][a]
      BY <1>1, <2>1, ListFacts DEF HoldsArcs, Holds
    <3>3. /\ outArcsPerState \in Counts
          /\ \A t \in States, a \in ArcIds : outArcsPerState[t][a] \in {0, 1}
      BY ListFacts
    <3>. HIDE DEF gone
    <3>4. /\ Unlinked("kStoreFirstTailOutArcs", outArcsPerState, gone) \in Counts
          /\ \A t \in States, a \in ArcIds :
               Unlinked("kStoreFirstTailOutArcs", outArcsPerState, gone)[t][a]
                 = IF a \in gone THEN 0 ELSE outArcsPerState[t][a]
      BY <3>2, <3>3, UnlinkedFacts
    <3>5. QED
      BY <3>1, <3>4
  <2>2. CASE ~storesFirstTailOutArcs
    <3>1. outArcsPerState' = [t \in States |-> RemoveAll(outArcsPerState[t], gone)]
      BY <2>2 DEF DeleteInArcsImpl
    <3>2. QED
      BY <3>1, ListFacts DEF RemoveAll, Counts
  <2>3. QED
    BY <2>1, <2>2
<1>6. Shrinks(gone)
  BY <1>1, <1>3, <1>4, <1>5 DEF Shrinks
<1>7. QED
  BY <1>1, <1>6 DEF ListedIn

LEMMA DeleteOutFacts ==
  ASSUME DistinctTails, ShortLists, NEW K \in SUBSET ArcIds, HoldsArcs(K),
         NEW s \in States, NoOtherTail(s), DeleteOutArcsImpl(s)
  PROVE  ListedIn(outArcsPerState, s) \in SUBSET K /\ Shrinks(ListedIn(outArcsPerState, s))
<1>. DEFINE gone == {a \in ArcIds : outArcsPerState[s][a] > 0}
<1>1. /\ gone \in SUBSET K
      /\ heap' = heap \ gone
      /\ \A a \in heap \ gone : shape'[a] = shape[a]
      /\ deletedTwice' = FALSE
  <2>1. /\ \A a \in ArcIds : outArcsPerState[s][a] \in {0, 1}
        /\ \A a \in ArcIds \ K : outArcsPerState[s][a] = 0
        /\ DeleteAllIn(outArcsPerState[s])
        /\ gone \in SUBSET ArcIds
        /\ \A a \in ArcIds : a \in gone <=> outArcsPerState[s][a] > 0
    BY ListFacts DEF DeleteOutArcsImpl
  <2>. HIDE DEF gone
  <2>2. QED
    BY <2>1, DeleteAllInFacts
<1>2. outArcsPerState' = ListCleared(outArcsPerState, s)
  BY DEF DeleteOutArcsImpl
<1>3. \A t \in States, a \in ArcIds :
        outArcsPerState'[t][a] = IF a \in gone THEN 0 ELSE outArcsPerState[t][a]
  <2>1. \A t \in States, a \in ArcIds :
          outArcsPerState'[t][a] = IF t = s THEN 0 ELSE outArcsPerState[t][a]
    BY <1>2, ListFacts DEF ListCleared, Counts
  <2>2. ASSUME NEW a \in gone, NEW t \in States, t # s
        PROVE  outArcsPerState[t][a] = 0
    <3>1. a \in K /\ BelongsOut(s, shape[a])
      BY DEF HoldsArcs, Holds, OutHolds
    <3>2. ~ BelongsOut(t, shape[a])
      <4>1. CASE storesFirstTailOutArcs
        BY <2>2, <3>1, <4>1, BitFacts DEF HoldsArcs, TypeOK, BelongsOut
      <4>2. CASE ~storesFirstTailOutArcs
        <5>1. "kStoreOutArcs" \in properties /\ a \in heap
          BY <3>1, <4>2 DEF BelongsOut, HoldsArcs, Holds
        <5>2. \A i \in DOMAIN shape[a].tails : shape[a].tails[i] = s
          BY <5>1 DEF NoOtherTail
        <5>3. QED
          BY <2>2, <4>2, <5>2 DEF BelongsOut
      <4>3. QED
        BY <4>1, <4>2
    <3>3. QED
      BY <3>2 DEF HoldsArcs, Holds, OutHolds
  <2>3. \A a \in ArcIds \ gone : outArcsPerState[s][a] = 0
    BY ListFacts
  <2>4. QED
    BY <2>1, <2>2, <2>3
<1>4. outArcsPerState' \in Counts
  BY <1>2, ListFacts DEF ListCleared, Counts
<1>5. /\ inArcsPerState' \in Counts
      /\ \A t \in States, a \in ArcIds :
           inArcsPerState'[t][a] = IF a \in gone THEN 0 ELSE inArcsPerState[t][a]
  <2>1. CASE storesInArcs
    <3>1. inArcsPerState' = Unlinked("kStoreInArcs", inArcsPerState, gone)
      BY <2>1 DEF DeleteOutArcsImpl
    <3>2. /\ gone \in SUBSET heap /\ gone \subseteq ArcIds
          /\ \A t \in States, a \in gone : Times("kStoreInArcs", t, shape[a]) = inArcsPerState[t][a]
      BY <1>1, <2>1, ListFacts DEF HoldsArcs, Holds
    <3>3. /\ inArcsPerState \in Counts
          /\ \A t \in States, a \in ArcIds : inArcsPerState[t][a] \in {0, 1}
      BY ListFacts
    <3>. HIDE DEF gone
    <3>4. /\ Unlinked("kStoreInArcs", inArcsPerState, gone) \in Counts
          /\ \A t \in States, a \in ArcIds :
               Unlinked("kStoreInArcs", inArcsPerState, gone)[t][a]
                 = IF a \in gone THEN 0 ELSE inArcsPerState[t][a]
      BY <3>2, <3>3, UnlinkedFacts
    <3>5. QED
      BY <3>1, <3>4
  <2>2. CASE ~storesInArcs
    <3>1. inArcsPerState' = inArcsPerState
      BY <2>2 DEF DeleteOutArcsImpl
    <3>2. QED
      BY <1>1, <2>2, <3>1, ListFacts
  <2>3. QED
    BY <2>1, <2>2
<1>6. Shrinks(gone)
  BY <1>1, <1>3, <1>4, <1>5 DEF Shrinks
<1>7. QED
  BY <1>1, <1>6 DEF ListedIn

LEMMA ShrunkIsCounted ==
  ASSUME NEW K \in SUBSET ArcIds, HoldsArcs(K), NEW gone \in SUBSET K, Shrinks(gone),
         UNCHANGED numStates
  PROVE  IsCounted(K \ gone)' /\ numStates' \in 0 .. MaxStates
BY DEF IsCounted, HoldsArcs, Holds, TypeOK, Shrinks

LEMMA DeleteStep ==
  ASSUME DistinctTails, ShortLists, NEW K \in SUBSET ArcIds, HoldsArcs(K), NEW s \in States,
         NEW gone, \/ DeleteInArcs(s) /\ gone = ListedIn(inArcsPerState, s)
                   \/ DeleteOutArcs(s) /\ gone = ListedIn(outArcsPerState, s)
  PROVE  HoldsArcs(K \ gone)' /\ Steps(K)
<1>1. gone \in SUBSET K /\ Shrinks(gone)
  BY DeleteInFacts, DeleteOutFacts DEF DeleteInArcs, DeleteOutArcs
<1>2. UNCHANGED <<numStates, properties, kFsm>>
  BY DEF DeleteInArcs, DeleteOutArcs
<1>3. QED
  BY <1>1, <1>2, ShrunkIsCounted, ShrinkStep

LEMMA DeleteStateStep ==
  ASSUME DistinctTails, ShortLists, NEW K \in SUBSET ArcIds, HoldsArcs(K),
         NEW s \in States, DeleteState(s)
  PROVE  Steps(K)
<1>1. PICK gone \in SUBSET K : Shrinks(gone)
  BY DeleteInFacts, DeleteOutFacts DEF DeleteState
<1>2. /\ UNCHANGED <<properties, kFsm>>
      /\ s < numStates
      /\ numStates' = IF s = numStates - 1 THEN s ELSE numStates
      /\ \A a \in heap' : s \notin StatesOf(shape[a])
  BY DEF DeleteState, heap
<1>3. numStates \in 0 .. MaxStates /\ s \in Nat /\ MaxStates \in Nat
  BY StatesFacts, HypergraphAssumption DEF HoldsArcs, TypeOK
<1>4. numStates' \in 0 .. MaxStates
  BY <1>2, <1>3
<1>5. ASSUME NEW a \in K \ gone
      PROVE  shape'[a].head < numStates' /\ shape'[a].tails[1] < numStates'
  <2>1. /\ a \in heap' /\ shape'[a] = shape[a] /\ shape[a] \in Shapes
        /\ shape[a].head < numStates /\ shape[a].tails[1] < numStates
    BY <1>1 DEF Shrinks, HoldsArcs, Holds, TypeOK, IsCounted
  <2>2. shape[a].head \in Nat /\ shape[a].tails[1] \in Nat
    BY <2>1, ShapeFacts, StatesFacts
  <2>3. shape[a].head # s /\ shape[a].tails[1] # s
    BY <1>2, <2>1, ShapeFacts DEF StatesOf
  <2>4. QED
    BY <1>2, <1>3, <2>1, <2>2, <2>3
<1>6. IsCounted(K \ gone)'
  BY <1>5 DEF IsCounted
<1>7. QED
  BY <1>1, <1>2, <1>4, <1>6, ShrinkStep

LEMMA ClearStep ==
  ASSUME DistinctTails, LexicalLabels, NEW K \in SUBSET ArcIds, HoldsArcs(K), NEW p \in Indexes, Clear(p)
  PROVE  Steps(K)
<1>1. SafeVisits = Ones(K) /\ K \subseteq heap
  BY VisitsFacts DEF HoldsArcs, Holds
<1>2. DeleteAllIn(Ones(K))
  BY <1>1 DEF Clear
<1>3. /\ heap' = heap \ K
      /\ \A a \in heap \ K : shape'[a] = shape[a]
      /\ deletedTwice' = FALSE
  <2>1. /\ \A a \in ArcIds : Ones(K)[a] \in {0, 1}
        /\ \A a \in ArcIds \ K : Ones(K)[a] = 0
        /\ \A a \in ArcIds : a \in K <=> Ones(K)[a] > 0
    BY DEF Ones
  <2>2. PICK gone \in SUBSET ArcIds : gone = K
    OBVIOUS
  <2>3. /\ gone \in SUBSET K
        /\ heap' = heap \ gone
        /\ \A a \in heap \ gone : shape'[a] = shape[a]
        /\ deletedTwice' = FALSE
    <3>1. \A a \in ArcIds : a \in gone <=> Ones(K)[a] > 0
      BY <2>1, <2>2
    <3>2. QED
      BY <1>2, <2>1, <3>1, DeleteAllInFacts
  <2>4. QED
    BY <2>2, <2>3
<1>4. /\ inArcsPerState' = NoArcs /\ outArcsPerState' = NoArcs
      /\ properties' \in Indexes
      /\ numStates' \in 0 .. MaxStates
      /\ kFsm' = "yes"
  BY HypergraphAssumption DEF Clear
<1>5. TypeOK'
  <2>1. heap' \subseteq ArcIds /\ \A a \in heap' : shape'[a] \in Shapes
    BY <1>3 DEF HoldsArcs, TypeOK
  <2>2. QED
    BY <1>3, <1>4, <2>1, NoArcsFacts DEF TypeOK
<1>6. Holds({})' /\ IsCounted({})' /\ IsKnownFsm({})'
  BY <1>4, NoArcsFacts DEF Holds, InHolds, OutHolds, IsCounted, IsKnownFsm
<1>7. HoldsArcs({})'
  BY <1>3, <1>5, <1>6 DEF HoldsArcs
<1>8. QED
  BY <1>1, <1>3, <1>7 DEF Steps, ArcsChange, Untouched

-----------------------------------------------------------------------------
(* IInv is inductive: restricting and renumbering *)

LEMMA RestrictArcsStep ==
  ASSUME DistinctTails, LexicalLabels, NEW K \in SUBSET ArcIds, HoldsArcs(K), NEW kept \in SUBSET Visited,
         RestrictArcs(kept)
  PROVE  HoldsArcs(kept)' /\ Steps(K)
<1>. DEFINE gone == K \ kept
<1>1. Visited = K /\ Visits = Ones(K) /\ kept \in SUBSET K
  BY VisitsFacts DEF HoldsArcs
<1>2. Kept(Visits, kept) = Ones(kept) /\ Kept(Visits, gone) = Ones(gone)
  BY <1>1, KeptFacts
<1>3. /\ UNCHANGED <<numStates, properties>>
      /\ outArcsPerState' = OutIndex(shape, Ones(kept))
      /\ kFsm' \in {kFsm, "unchecked"}
  BY <1>2 DEF RestrictArcs, RebuildOutArcs, Rechecked
<1>4. /\ outArcsPerState' \in Counts
      /\ \A s \in States, a \in ArcIds :
           outArcsPerState'[s][a] = IF a \in kept /\ BelongsOut(s, shape[a]) THEN 1 ELSE 0
  <2>1. /\ properties \in Indexes
        /\ \A a \in DOMAIN shape : shape[a] \in Shapes
        /\ kept \subseteq DOMAIN shape /\ kept \in SUBSET ArcIds
    BY <1>1 DEF HoldsArcs, Holds, TypeOK, heap
  <2>2. QED
    BY <1>3, <2>1, IndexFacts
<1>5. CASE storesInArcs
  <2>1. /\ DeleteAllIn(Ones(gone))
        /\ inArcsPerState' = [s \in States |-> RemoveAll(inArcsPerState[s], gone)]
    BY <1>1, <1>2, <1>5 DEF RestrictArcs
  <2>2. /\ gone \in SUBSET K
        /\ \A a \in ArcIds : Ones(gone)[a] \in {0, 1}
        /\ \A a \in ArcIds \ K : Ones(gone)[a] = 0
        /\ gone \in SUBSET ArcIds
        /\ \A a \in ArcIds : a \in gone <=> Ones(gone)[a] > 0
    BY DEF Ones
  <2>3. /\ heap' = heap \ gone
        /\ \A a \in heap \ gone : shape'[a] = shape[a]
        /\ deletedTwice' = FALSE
    <3>. HIDE DEF gone
    <3>1. gone \in SUBSET ArcIds
      BY <2>2
    <3>2. /\ gone \in SUBSET K
          /\ heap' = heap \ gone
          /\ \A a \in heap \ gone : shape'[a] = shape[a]
          /\ deletedTwice' = FALSE
      BY <2>1, <2>2, <3>1, DeleteAllInFacts
    <3>3. QED
      BY <3>2
  <2>4. /\ inArcsPerState' \in Counts
        /\ \A s \in States, a \in ArcIds :
             inArcsPerState'[s][a] = IF a \in gone THEN 0 ELSE inArcsPerState[s][a]
    BY <2>1, ListFacts DEF RemoveAll, Counts
  <2>5. \A s \in States, a \in ArcIds :
          outArcsPerState'[s][a] = IF a \in gone THEN 0 ELSE outArcsPerState[s][a]
    BY <1>1, <1>4 DEF HoldsArcs, Holds, OutHolds
  <2>6. Shrinks(gone)
    BY <1>4, <2>3, <2>4, <2>5 DEF Shrinks
  <2>7. K \ gone = kept
    BY <1>1
  <2>. HIDE DEF gone
  <2>8. HoldsArcs(K \ gone)' /\ Steps(K)
    BY <1>3, <2>2, <2>6, ShrunkIsCounted, ShrinkStep
  <2>9. QED
    BY <2>7, <2>8
<1>6. CASE ~storesInArcs
  <2>1. UNCHANGED <<shape, deletedTwice, inArcsPerState>>
    BY <1>6 DEF RestrictArcs
  <2>2. heap' = heap /\ kept \subseteq heap /\ kept \in SUBSET ArcIds
    BY <1>1, <2>1 DEF heap, HoldsArcs, Holds
  <2>3. /\ \A s, sh : ~BelongsIn(s, sh) /\ ~BelongsIn(s, sh)'
        /\ \A s, sh : BelongsOut(s, sh)' <=> BelongsOut(s, sh)
    BY <1>3, <1>6 DEF BelongsIn, BelongsOut, storesInArcs, storesFirstTailOutArcs
  <2>4. InHolds(kept)' /\ OutHolds(kept)'
    BY <1>4, <2>1, <2>3 DEF HoldsArcs, Holds, InHolds, OutHolds
  <2>5. IsCounted(kept)' /\ IsKnownFsm(kept)'
    BY <1>1, <1>3, <2>1 DEF HoldsArcs, IsCounted, IsKnownFsm
  <2>6. TypeOK'
    BY <1>3, <1>4, <2>1, <2>2 DEF HoldsArcs, TypeOK
  <2>7. HoldsArcs(kept)'
    BY <2>1, <2>2, <2>4, <2>5, <2>6 DEF HoldsArcs, Holds
  <2>8. QED
    BY <1>1, <1>6, <2>1, <2>2, <2>7 DEF Steps, ArcsChange, Untouched
<1>7. QED
  BY <1>5, <1>6

(* All lists are built again, of arcs J with shapes sh. *)
LEMMA ReindexedStep ==
  ASSUME DistinctTails, NEW K \in SUBSET ArcIds, HoldsArcs(K), NEW sh, NEW J \in SUBSET ArcIds,
         J \subseteq DOMAIN sh, DOMAIN sh \subseteq ArcIds, \A a \in DOMAIN sh : sh[a] \in Shapes,
         shape' = sh, Reindexed(sh, Ones(J)), UNCHANGED <<properties, deletedTwice>>,
         numStates' \in 0 .. MaxStates, IsCounted(J)', DOMAIN sh \ J \subseteq heap \ K,
         ArcsChange(K, J), kFsm' \in {"yes", "no", "unchecked"}, IsKnownFsm(J)'
  PROVE  HoldsArcs(J)' /\ Steps(K)
<1>1. heap' = DOMAIN sh
  BY DEF heap
<1>2. properties \in Indexes
  BY DEF HoldsArcs, TypeOK
<1>3. /\ inArcsPerState' \in Counts /\ outArcsPerState' \in Counts
      /\ \A s \in States, a \in ArcIds :
           /\ inArcsPerState'[s][a] = IF a \in J /\ BelongsIn(s, sh[a]) THEN 1 ELSE 0
           /\ outArcsPerState'[s][a] = IF a \in J /\ BelongsOut(s, sh[a]) THEN 1 ELSE 0
  BY <1>2, IndexFacts DEF Reindexed
<1>4. /\ \A s, x : BelongsIn(s, x)' <=> BelongsIn(s, x)
      /\ \A s, x : BelongsOut(s, x)' <=> BelongsOut(s, x)
  BY DEF BelongsIn, BelongsOut, storesInArcs, storesFirstTailOutArcs
<1>5. Holds(J)'
  BY <1>1, <1>3, <1>4 DEF Holds, InHolds, OutHolds
<1>6. TypeOK'
  BY <1>1, <1>3 DEF HoldsArcs, TypeOK
<1>7. HoldsArcs(J)'
  BY <1>5, <1>6 DEF HoldsArcs
<1>8. QED
  BY <1>1, <1>7 DEF Steps

(* An arc of an FSM is one under a renumbering that keeps labels. *)
LEMMA ImageFacts ==
  ASSUME NEW x \in [States -> States \cup {kNoState}], KeepsLabels(x), NEW sh \in Shapes,
         \A s \in StatesOf(sh) : x[s] # kNoState, IsFsmArc(sh)
  PROVE  IsFsmArc(Image(x, sh))
<1>1. sh.head \in States /\ sh.tails \in Seq(States) /\ \A s \in StatesOf(sh) : s \in States
  BY ShapeFacts
<1>2. Len(sh.tails) = 2
  BY DEF IsFsmArc
<1>3. DOMAIN sh.tails = {1, 2}
  BY <1>1, <1>2
<1>4. /\ Image(x, sh).head = x[sh.head]
      /\ Image(x, sh).tails = [i \in {1, 2} |-> x[sh.tails[i]]]
  BY <1>3 DEF Image
<1>5. Image(x, sh).tails[1] = x[sh.tails[1]] /\ Image(x, sh).tails[2] = x[sh.tails[2]]
  BY <1>4
<1>6. Len(Image(x, sh).tails) = 2
  <2>1. Image(x, sh).tails = [i \in 1 .. Len(sh.tails) |-> x[sh.tails[i]]]
    BY <1>1 DEF Image
  <2>2. \A i \in 1 .. Len(sh.tails) : x[sh.tails[i]] \in States \cup {kNoState}
    BY <1>1
  <2>3. Image(x, sh).tails \in Seq(States \cup {kNoState})
    BY <1>1, <2>1, <2>2
  <2>4. QED
    BY <1>1, <1>2, <2>1, <2>3
<1>7. {sh.head, sh.tails[1], sh.tails[2]} \subseteq StatesOf(sh)
  BY <1>3 DEF StatesOf
<1>8. \A s \in {sh.head, sh.tails[1], sh.tails[2]} : s \in Terminals <=> x[s] \in Terminals
  BY <1>1, <1>7 DEF KeepsLabels
<1>9. QED
  BY <1>4, <1>5, <1>6, <1>8 DEF IsFsmArc

LEMMA RelabelStep ==
  ASSUME DistinctTails, LexicalLabels, NEW K \in SUBSET ArcIds, HoldsArcs(K),
         NEW x \in [States -> States \cup {kNoState}], NEW keep \in SUBSET Visited,
         Relabel(x, keep)
  PROVE  Steps(K)
<1>. DEFINE kept == {a \in keep : \A s \in StatesOf(shape[a]) : x[s] # kNoState}
            relabelled == [a \in (heap \ Visited) \cup kept |->
                             IF a \in kept THEN Image(x, shape[a]) ELSE shape[a]]
<1>1. Visited = K /\ Visits = Ones(K) /\ kept \in SUBSET K
  BY VisitsFacts DEF HoldsArcs
<1>2. Kept(Visits, kept) = Ones(kept)
  BY <1>1, KeptFacts
<1>3. /\ \A a \in kept : relabelled[a] \in Shapes
      /\ shape' = relabelled
      /\ Reindexed(relabelled, Ones(kept))
      /\ UNCHANGED <<properties, deletedTwice>>
      /\ kFsm' \in {kFsm, "unchecked"}
      /\ KeepsLabels(x)
  BY <1>2 DEF Relabel, Rechecked
<1>4. PICK n \in 0 .. MaxStates :
        /\ \A a \in kept : \A s \in Counted(relabelled[a]) : s < n
        /\ numStates' = n
  BY DEF Relabel
<1>5. /\ DOMAIN relabelled \subseteq ArcIds /\ kept \subseteq DOMAIN relabelled
      /\ kept \in SUBSET ArcIds
      /\ \A a \in DOMAIN relabelled : relabelled[a] \in Shapes
      /\ DOMAIN relabelled \ kept \subseteq heap \ K
  BY <1>1, <1>3 DEF HoldsArcs, TypeOK
<1>. HIDE DEF relabelled, kept
<1>6. ASSUME NEW a \in kept
      PROVE  relabelled[a].head < numStates' /\ relabelled[a].tails[1] < numStates'
  <2>1. {relabelled[a].head, relabelled[a].tails[1]} \subseteq Counted(relabelled[a])
    BY <1>3, ShapeFacts DEF Counted, StatesOf
  <2>2. QED
    BY <1>4, <2>1
<1>7. PICK J \in SUBSET ArcIds : \E sh : J = kept /\ sh = relabelled
  BY <1>5
<1>8. PICK sh : J = kept /\ sh = relabelled
  BY <1>7
<1>9. IsCounted(J)'
  BY <1>3, <1>6, <1>8 DEF IsCounted
<1>10. ArcsChange(K, J)
  <2>1. J \subseteq K
    BY <1>1, <1>8
  <2>2. CASE J = {}
    BY <2>2 DEF ArcsChange, Untouched
  <2>3. CASE J # {}
    <3>1. PICK t \in States : TRUE
      <4>1. PICK a \in J : shape[a] \in Shapes
        BY <2>1, <2>3 DEF HoldsArcs, Holds, TypeOK
      <4>2. QED
        BY <4>1, ShapeFacts
    <3>. DEFINE y == [s \in States |-> IF x[s] # kNoState THEN x[s] ELSE t]
    <3>2. y \in [States -> States]
      BY <3>1
    <3>3. ASSUME NEW a \in J
          PROVE  shape'[a] = Image(y, shape[a])
      <4>1. /\ shape'[a] = Image(x, shape[a])
            /\ \A s \in StatesOf(shape[a]) : x[s] # kNoState
        BY <1>3, <1>8 DEF relabelled, kept
      <4>2. shape[a] \in Shapes
        BY <2>1 DEF HoldsArcs, Holds, TypeOK
      <4>3. \A s \in StatesOf(shape[a]) : s \in States /\ y[s] = x[s]
        BY <4>1, <4>2, ShapeFacts
      <4>4. /\ y[shape[a].head] = x[shape[a].head]
            /\ \A i \in DOMAIN shape[a].tails : y[shape[a].tails[i]] = x[shape[a].tails[i]]
        BY <4>3 DEF StatesOf
      <4>. HIDE DEF y
      <4>5. QED
        BY <4>1, <4>4 DEF Image
    <3>. HIDE DEF y
    <3>4. QED
      BY <2>1, <3>2, <3>3 DEF ArcsChange
  <2>4. QED
    BY <2>2, <2>3
<1>11. kFsm' \in {"yes", "no", "unchecked"} /\ IsKnownFsm(J)'
  <2>1. kFsm' \in {"yes", "no", "unchecked"}
    BY <1>3 DEF HoldsArcs, TypeOK
  <2>2. ASSUME kFsm = "yes", NEW a \in J
        PROVE  IsFsmArc(shape'[a])
    <3>1. /\ shape'[a] = Image(x, shape[a])
          /\ \A s \in StatesOf(shape[a]) : x[s] # kNoState
      BY <1>3, <1>8 DEF relabelled, kept
    <3>2. a \in K /\ shape[a] \in Shapes /\ IsFsmArc(shape[a])
      BY <1>1, <1>8, <2>2 DEF HoldsArcs, Holds, TypeOK, IsKnownFsm
    <3>3. QED
      BY <1>3, <3>1, <3>2, ImageFacts
  <2>3. QED
    BY <1>3, <2>1, <2>2 DEF IsKnownFsm
<1>12. QED
  BY <1>3, <1>4, <1>5, <1>8, <1>9, <1>10, <1>11, ReindexedStep

LEMMA RebuildArcAdjacenciesStep ==
  ASSUME DistinctTails, LexicalLabels, NEW K \in SUBSET ArcIds, HoldsArcs(K),
         NEW a \in ArcIds, NEW sh \in Shapes, RebuildArcAdjacencies(a, sh)
  PROVE  HoldsArcs(K)' /\ Steps(K)
<1>. DEFINE edited == [shape EXCEPT ![a] = sh]
<1>1. Visited = K /\ Visits = Ones(K) /\ a \in K /\ a \in heap
  BY VisitsFacts DEF HoldsArcs, Holds, RebuildArcAdjacencies
<1>2. /\ shape' = edited
      /\ Reindexed(edited, Ones(K))
      /\ UNCHANGED <<numStates, properties, deletedTwice>>
      /\ \A s \in StatesOf(sh) : s < numStates
      /\ kFsm' = "unchecked"
  <2>1. VisitsOf(edited) = Ones(K)
    BY VisitsFacts DEF RebuildArcAdjacencies
  <2>2. QED
    BY <2>1 DEF RebuildArcAdjacencies
<1>3. /\ DOMAIN edited = heap
      /\ edited[a] = sh
      /\ \A b \in heap : b # a => edited[b] = shape[b]
  BY <1>1 DEF heap
<1>. HIDE DEF edited
<1>4. /\ K \subseteq DOMAIN edited /\ DOMAIN edited \subseteq ArcIds
      /\ \A b \in DOMAIN edited : edited[b] \in Shapes
      /\ numStates' \in 0 .. MaxStates
  BY <1>2, <1>3 DEF HoldsArcs, Holds, TypeOK
<1>5. sh.head < numStates /\ sh.tails[1] < numStates
  BY <1>2, ShapeFacts DEF StatesOf
<1>6. IsCounted(K)'
  BY <1>2, <1>3, <1>5 DEF HoldsArcs, Holds, IsCounted
<1>7. DOMAIN edited \ K \subseteq heap \ K
  BY <1>3
<1>8. ArcsChange(K, K)
  BY <1>1, <1>2, <1>3 DEF ArcsChange, Untouched, HoldsArcs, Holds
<1>9. IsKnownFsm(K)'
  BY <1>2 DEF IsKnownFsm
<1>10. QED
  BY <1>2, <1>4, <1>6, <1>7, <1>8, <1>9, ReindexedStep

-----------------------------------------------------------------------------
LEMMA NextSteps ==
  ASSUME DistinctTails, LexicalLabels, ShortLists, NEW K \in SUBSET ArcIds, HoldsArcs(K), [Next]_vars
  PROVE  Steps(K)
<1>1. CASE UNCHANGED vars
  <2>1. UNCHANGED <<properties, shape, indexes, deletedTwice>> /\ UNCHANGED numStates
    BY <1>1 DEF vars
  <2>2. numStates' \in 0 .. MaxStates /\ IsCounted(K)'
    BY <2>1 DEF HoldsArcs, TypeOK, IsCounted
  <2>3. kFsm' \in {"yes", "no", "unchecked"} /\ IsKnownFsm(K)'
    BY <1>1 DEF HoldsArcs, TypeOK, IsKnownFsm, vars
  <2>4. QED
    BY <2>1, <2>2, <2>3, NothingMoves
<1>2. CASE AddState \/ CheckFsm
  BY <1>2, AddStateStep, CheckFsmStep
<1>3. ASSUME NEW sh \in Shapes, AddArc(sh) PROVE Steps(K)
  BY <1>3, AddArcStep
<1>4. ASSUME NEW a \in ArcIds, NEW t \in States, AddedTail(a, t) PROVE Steps(K)
  BY <1>4, AddedTailStep
<1>5. CASE Convert
  BY <1>5, ConvertStep
<1>6. ASSUME NEW s \in States, DeleteInArcs(s) \/ DeleteOutArcs(s) \/ DeleteState(s)
      PROVE  Steps(K)
  <2>1. CASE DeleteInArcs(s)
    BY <2>1, DeleteStep
  <2>2. CASE DeleteOutArcs(s)
    BY <2>2, DeleteStep
  <2>3. CASE DeleteState(s)
    BY <2>3, DeleteStateStep
  <2>4. QED
    BY <1>6, <2>1, <2>2, <2>3
<1>7. ASSUME NEW p \in Indexes, Clear(p) PROVE Steps(K)
  BY <1>7, ClearStep
<1>8. ASSUME NEW kept \in SUBSET Visited, RestrictArcs(kept) PROVE Steps(K)
  BY <1>8, RestrictArcsStep
<1>9. ASSUME NEW x \in [States -> States \cup {kNoState}], NEW keep \in SUBSET Visited,
             Relabel(x, keep)
      PROVE  Steps(K)
  BY <1>9, RelabelStep
<1>10. ASSUME NEW a \in ArcIds, NEW sh \in Shapes, RebuildArcAdjacencies(a, sh)
       PROVE  Steps(K)
  BY <1>10, RebuildArcAdjacenciesStep
<1>11. QED
  BY <1>1, <1>2, <1>3, <1>4, <1>5, <1>6, <1>7, <1>8, <1>9, <1>10 DEF Next

-----------------------------------------------------------------------------
(* The theorems *)

(* Whatever index the clients choose and however they add, edit, delete and
   renumber, the lists hold a set of allocated arcs, each where it belongs. *)
THEOREM Invariance ==
  ASSUME DistinctTails, LexicalLabels, ShortLists
  PROVE  Spec => []IInv
<1>1. IInv /\ [Next]_vars => IInv'
  <2>. SUFFICES ASSUME IInv, [Next]_vars PROVE IInv'
    OBVIOUS
  <2>1. PICK K \in SUBSET ArcIds : HoldsArcs(K)
    BY DEF IInv
  <2>2. PICK J \in SUBSET ArcIds : HoldsArcs(J)'
    BY <2>1, NextSteps DEF Steps
  <2>3. QED
    BY <2>2 DEF IInv
<1>2. QED
  BY IInvInit, <1>1, PTL DEF Spec

(* The variables keep their types: a list is a count of pointers per arc. *)
THEOREM TypeCorrect ==
  ASSUME DistinctTails, LexicalLabels, ShortLists
  PROVE  Spec => []TypeOK
<1>1. IInv => TypeOK
  BY DEF IInv, HoldsArcs
<1>2. QED
  BY <1>1, Invariance, PTL

(* Neither index keeps a pointer to an arc that was deleted, and no arc is
   deleted twice (deleteInArcs, deleteOutArcs, restrict, clear). *)
THEOREM NothingDangles ==
  ASSUME DistinctTails, LexicalLabels, ShortLists
  PROVE  Spec => []NoDanglingArcs
<1>1. IInv => NoDanglingArcs
  <2>. SUFFICES ASSUME IInv PROVE NoDanglingArcs
    OBVIOUS
  <2>1. PICK K \in SUBSET ArcIds : HoldsArcs(K)
    BY DEF IInv
  <2>2. K \subseteq heap /\ ~deletedTwice
    BY <2>1 DEF HoldsArcs, Holds
  <2>3. QED
    BY <2>1, <2>2, ListFacts DEF NoDanglingArcs
<1>2. QED
  BY <1>1, Invariance, PTL

(* The in-arcs and the out-arcs, whichever are stored, always agree on the
   arcs and on where they are (forceOutArcs, forceFirstTailOutArcs, restrict,
   rebuildArcAdjacencies), and arcs have heads and first tails size() counts. *)
THEOREM IndexesAlwaysAgree ==
  ASSUME DistinctTails, LexicalLabels, ShortLists
  PROVE  Spec => []IndexesAgree
<1>1. IInv => IndexesAgree
  <2>. SUFFICES ASSUME IInv, NEW a \in Visited \cap heap, NEW s \in States
                PROVE  /\ storesInArcs => inArcsPerState[s][a] = Times("kStoreInArcs", s, shape[a])
                       /\ \A index \in properties \ {"kStoreInArcs"} :
                            outArcsPerState[s][a] = Times(index, s, shape[a])
                       /\ s >= numStates => s \notin {shape[a].head, shape[a].tails[1]}
    BY DEF IndexesAgree
  <2>1. PICK K \in SUBSET ArcIds : HoldsArcs(K)
    BY DEF IInv
  <2>2. a \in K
    BY <2>1, VisitsFacts DEF HoldsArcs
  <2>3. properties \subseteq {"kStoreInArcs", "kStoreOutArcs", "kStoreFirstTailOutArcs"}
    BY <2>1, BitFacts DEF HoldsArcs, TypeOK
  <2>4. /\ storesInArcs => inArcsPerState[s][a] = Times("kStoreInArcs", s, shape[a])
        /\ "kStoreFirstTailOutArcs" \in properties =>
             outArcsPerState[s][a] = Times("kStoreFirstTailOutArcs", s, shape[a])
        /\ "kStoreOutArcs" \in properties =>
             outArcsPerState[s][a] = Times("kStoreOutArcs", s, shape[a])
    BY <2>1, <2>2, ListFacts DEF storesFirstTailOutArcs
  <2>5. \A index \in properties \ {"kStoreInArcs"} :
          outArcsPerState[s][a] = Times(index, s, shape[a])
    BY <2>3, <2>4
  <2>6. /\ shape[a].head < numStates /\ shape[a].tails[1] < numStates
        /\ numStates \in Nat /\ s \in Nat
    BY <2>1, <2>2, StatesFacts, HypergraphAssumption DEF HoldsArcs, IsCounted, TypeOK
  <2>7. shape[a].head \in Nat /\ shape[a].tails[1] \in Nat
    BY <2>1, <2>2, ShapeFacts, StatesFacts DEF HoldsArcs, Holds, TypeOK
  <2>8. s >= numStates => s \notin {shape[a].head, shape[a].tails[1]}
    BY <2>6, <2>7
  <2>9. QED
    BY <2>4, <2>5, <2>8
<1>2. QED
  BY <1>1, Invariance, PTL

(* "forArcs(v) - call v(a) for all Arc *a, exactly once for each a" *)
THEOREM VisitedOnce ==
  ASSUME DistinctTails, LexicalLabels, ShortLists
  PROVE  Spec => []ForArcsVisitsOnce
<1>1. IInv => ForArcsVisitsOnce
  BY VisitedHeld DEF Ones, ForArcsVisitsOnce
<1>2. QED
  BY <1>1, Invariance, PTL

(* While in-arcs are stored, every call deletes the arcs it takes out of the
   lists: what was allocated and in no list before it is all there is after. *)
THEOREM NothingForgotten ==
  ASSUME DistinctTails, LexicalLabels, ShortLists
  PROVE  Spec => InArcsNeverLeak
<1>1. \A K \in SUBSET ArcIds : HoldsArcs(K) => Visited = K
  BY VisitsFacts DEF HoldsArcs
<1>2. (\A K \in SUBSET ArcIds : HoldsArcs(K) => Visited = K)'
  BY <1>1, PTL
<1>3. IInv /\ [Next]_vars => [storesInArcs => (heap \ Visited)' \subseteq heap \ Visited]_vars
  <2>. SUFFICES ASSUME IInv, [Next]_vars, storesInArcs
                PROVE  (heap \ Visited)' \subseteq heap \ Visited
    OBVIOUS
  <2>1. PICK K \in SUBSET ArcIds : HoldsArcs(K)
    BY DEF IInv
  <2>2. PICK J \in SUBSET ArcIds : HoldsArcs(J)' /\ heap' \ J \subseteq heap \ K
    BY <2>1, NextSteps DEF Steps
  <2>3. Visited = K /\ Visited' = J
    BY <1>1, <1>2, <2>1, <2>2
  <2>4. QED
    BY <2>2, <2>3
<1>4. QED
  BY Invariance, <1>3, PTL DEF Spec, InArcsNeverLeak

(* Conversions, forcePropertiesOnOff among them, leave the arcs alone;
   deleteInArcs where in-arcs are stored, deleteOutArcs where first-tail
   out-arcs are, and restrict by arcs take out just the arcs they name; and
   rebuildArcAdjacencies loses none. *)
THEOREM ArcsAlwaysChangeAsAsked ==
  ASSUME DistinctTails, LexicalLabels, ShortLists
  PROVE  Spec => ArcsChangeAsAsked
<1>1. \A K \in SUBSET ArcIds : HoldsArcs(K) => Visited = K
  BY VisitsFacts DEF HoldsArcs
<1>2. (\A K \in SUBSET ArcIds : HoldsArcs(K) => Visited = K)'
  BY <1>1, PTL
<1>3. ASSUME IInv, Convert
      PROVE  Visited' = Visited /\ shape' = shape
  <2>1. PICK K \in SUBSET ArcIds : HoldsArcs(K)
    BY <1>3 DEF IInv
  <2>2. HoldsArcs(K)'
    BY <1>3, <2>1, ConvertStep
  <2>3. shape' = shape
    BY <1>3 DEF Convert, ForceInArcs, ForceOutArcs, ForceFirstTailOutArcs, RemoveInArcs,
                RemoveOutArcs, ForcePropertiesOnOff
  <2>4. QED
    BY <1>1, <1>2, <2>1, <2>2, <2>3
<1>4. ASSUME IInv, NEW s \in States, DeleteInArcs(s), storesInArcs
      PROVE  Visited' = {a \in Visited : shape[a].head # s}
  <2>1. PICK K \in SUBSET ArcIds : HoldsArcs(K)
    BY <1>4 DEF IInv
  <2>2. PICK gone : gone = ListedIn(inArcsPerState, s)
    OBVIOUS
  <2>3. HoldsArcs(K \ gone)'
    BY <1>4, <2>1, <2>2, DeleteStep
  <2>4. Visited = K /\ Visited' = K \ gone
    BY <1>1, <1>2, <2>1, <2>3
  <2>5. \A a \in K : a \in gone <=> shape[a].head = s
    BY <1>4, <2>1, <2>2 DEF ListedIn, HoldsArcs, Holds, InHolds, BelongsIn
  <2>6. QED
    BY <2>4, <2>5
<1>5. ASSUME IInv, NEW s \in States, DeleteOutArcs(s), storesFirstTailOutArcs
      PROVE  Visited' = {a \in Visited : shape[a].tails[1] # s}
  <2>1. PICK K \in SUBSET ArcIds : HoldsArcs(K)
    BY <1>5 DEF IInv
  <2>2. PICK gone : gone = ListedIn(outArcsPerState, s)
    OBVIOUS
  <2>3. HoldsArcs(K \ gone)'
    BY <1>5, <2>1, <2>2, DeleteStep
  <2>4. Visited = K /\ Visited' = K \ gone
    BY <1>1, <1>2, <2>1, <2>3
  <2>5. "kStoreOutArcs" \notin properties
    BY <1>5, <2>1, BitFacts DEF HoldsArcs, TypeOK
  <2>6. \A a \in K : a \in gone <=> shape[a].tails[1] = s
    BY <1>5, <2>1, <2>2, <2>5 DEF ListedIn, HoldsArcs, Holds, OutHolds, BelongsOut
  <2>7. QED
    BY <2>4, <2>6
<1>6. ASSUME IInv, NEW kept \in SUBSET Visited, RestrictArcs(kept)
      PROVE  Visited' = kept
  <2>1. PICK K \in SUBSET ArcIds : HoldsArcs(K)
    BY <1>6 DEF IInv
  <2>2. kept \in SUBSET ArcIds
    BY <1>1, <2>1
  <2>3. HoldsArcs(kept)'
    BY <1>6, <2>1, RestrictArcsStep
  <2>4. QED
    BY <1>2, <2>2, <2>3
<1>7. ASSUME IInv, NEW a \in ArcIds, NEW sh \in Shapes, RebuildArcAdjacencies(a, sh)
      PROVE  Visited' = Visited
  <2>1. PICK K \in SUBSET ArcIds : HoldsArcs(K)
    BY <1>7 DEF IInv
  <2>2. HoldsArcs(K)'
    BY <1>7, <2>1, RebuildArcAdjacenciesStep
  <2>3. QED
    BY <1>1, <1>2, <2>1, <2>2
<1>8. IInv =>
             [/\ Visited' # Visited \/ shape' # shape => ~Convert
              /\ \A s \in States :
                   /\ DeleteInArcs(s) /\ storesInArcs =>
                        Visited' = {a \in Visited : shape[a].head # s}
                   /\ DeleteOutArcs(s) /\ storesFirstTailOutArcs =>
                        Visited' = {a \in Visited : shape[a].tails[1] # s}
              /\ \A kept \in SUBSET Visited : RestrictArcs(kept) => Visited' = kept
              /\ \A a \in ArcIds, sh \in Shapes :
                   RebuildArcAdjacencies(a, sh) => Visited' = Visited]_vars
  BY <1>3, <1>4, <1>5, <1>6, <1>7
<1>9. QED
  BY Invariance, <1>8, PTL DEF ArcsChangeAsAsked

(* The hypergraph implements ArcSet: what clients see through whichever index
   is stored is a set of arcs that changes by one call's asking at a time. *)
THEOREM Refinement ==
  ASSUME DistinctTails, LexicalLabels, ShortLists
  PROVE  Spec => RefinesArcSet
<1>. DEFINE seen == [a \in Visited \cap heap |-> shape[a]]
<1>1. \A K \in SUBSET ArcIds : HoldsArcs(K) => Visited = K /\ Visited \cap heap = K
  BY VisitsFacts DEF HoldsArcs, Holds
<1>2. (\A K \in SUBSET ArcIds : HoldsArcs(K) => Visited = K /\ Visited \cap heap = K)'
  BY <1>1, PTL
<1>3. Init => Clients!Init
  <2>. SUFFICES ASSUME Init PROVE Clients!Init
    OBVIOUS
  <2>1. heap = {}
    BY DEF Init, heap
  <2>2. QED
    BY <2>1 DEF Clients!Init
<1>4. IInv /\ [Next]_vars => [Clients!Next]_seen
  <2>. SUFFICES ASSUME IInv, [Next]_vars PROVE [Clients!Next]_seen
    OBVIOUS
  <2>1. PICK K \in SUBSET ArcIds : HoldsArcs(K)
    BY DEF IInv
  <2>2. PICK J \in SUBSET ArcIds : HoldsArcs(J)' /\ ArcsChange(K, J)
    BY <2>1, NextSteps DEF Steps
  <2>3. seen = [a \in K |-> shape[a]] /\ seen' = [a \in J |-> shape'[a]]
    BY <1>1, <1>2, <2>1, <2>2
  <2>. HIDE DEF seen
  <2>4. CASE J \subseteq K /\ Untouched(J)
    <3>1. Clients!Keep(J)
      BY <2>3, <2>4 DEF Untouched, Clients!Keep, Clients!Restrict, seen
    <3>2. J \in SUBSET DOMAIN seen
      BY <2>3, <2>4
    <3>3. QED
      BY <3>1, <3>2 DEF Clients!Next, seen
  <2>5. ASSUME NEW a \in ArcIds \ K, J = K \cup {a}, shape'[a] \in Shapes, Untouched(K)
        PROVE  Clients!Next
    <3>1. PICK sh \in Shapes : sh = shape'[a]
      BY <2>5
    <3>2. Clients!Add(a, sh)
      BY <2>3, <2>5, <3>1 DEF Untouched, Clients!Add, seen
    <3>3. QED
      BY <2>5, <3>2 DEF Clients!Next
  <2>6. ASSUME NEW a \in K, J = K, shape'[a] \in Shapes, Untouched(K \ {a})
        PROVE  Clients!Next
    <3>1. PICK sh \in Shapes : sh = shape'[a]
      BY <2>6
    <3>2. Clients!Edit(a, sh)
      BY <2>3, <2>6, <3>1 DEF Untouched, Clients!Edit, seen
    <3>3. QED
      BY <2>6, <3>2 DEF Clients!Next
  <2>7. ASSUME J \subseteq K, NEW x \in [States -> States],
               \A a \in J : shape'[a] = Image(x, shape[a])
        PROVE  Clients!Next
    <3>1. Clients!Relabel(x, J)
      BY <2>3, <2>7 DEF Image, Clients!Relabel, Clients!Image, seen
    <3>2. J \in SUBSET DOMAIN seen
      BY <2>3, <2>7
    <3>3. QED
      BY <2>7, <3>1, <3>2 DEF Clients!Next, seen
  <2>8. QED
    BY <2>2, <2>4, <2>5, <2>6, <2>7 DEF ArcsChange
<1>5. QED
  BY Invariance, <1>3, <1>4, PTL DEF Spec, Clients!Spec, RefinesArcSet

=============================================================================
