--------------------------- MODULE GraphCopyProofs ---------------------------
(* Proofs about GraphCopy, for every graph.  That the numbered states are the
   reachable ones needs no notion of a path: they are in every closed set with
   the start state in it, and at the end they are closed themselves. *)
EXTENDS GraphCopy, TLAPS

(* The numbered states are in every closed set with the start state in it. *)
OnlyReachable ==
  \A states : start \in states /\ IsClosed(states) => Numbered \subseteq states

AtEnd == isDone => start \in Numbered /\ ArcsOfNumbered \subseteq added

IInv == NumbersDiffer /\ EndsAreNumbered /\ OnlyReachable /\ AtEnd

LEMMA InitIInv == Init => IInv
<1> SUFFICES ASSUME Init PROVE IInv
  OBVIOUS
<1>1. Numbered = {}
  BY DEF Init, Numbered
<1> QED
  BY <1>1 DEF Init, IInv, NumbersDiffer, EndsAreNumbered, OnlyReachable, AtEnd

(* A new state is start, or an arc leads to it from a state that is in every
   closed set. *)
LEMMA NumberIInv ==
  ASSUME IInv, NEW s, Number(s)
  PROVE  IInv'
<1>1. DOMAIN ids' = Numbered \cup {s}
  BY DEF Number
<1>2. arcs' = arcs /\ start' = start /\ added' = added /\ ~isDone'
  BY DEF Number, graph
<1>3. NumbersDiffer'
  <2>1. \A t \in Numbered : ids'[t] = ids[t] /\ ids'[t] # ids'[s]
    BY DEF Number
  <2> SUFFICES ASSUME NEW t \in DOMAIN ids', NEW u \in DOMAIN ids', ids'[t] = ids'[u]
               PROVE  t = u
    BY DEF NumbersDiffer, Numbered
  <2>2. CASE t \in Numbered /\ u \in Numbered
    BY <2>1, <2>2 DEF IInv, NumbersDiffer
  <2>3. CASE t = s \/ u = s
    BY <1>1, <2>1, <2>3
  <2> QED
    BY <1>1, <2>2, <2>3
<1>4. EndsAreNumbered'
  BY <1>1, <1>2 DEF IInv, EndsAreNumbered, Numbered
<1>5. OnlyReachable'
  <2> SUFFICES ASSUME NEW states, start \in states, IsClosed(states)
               PROVE  DOMAIN ids' \subseteq states
    BY <1>2 DEF OnlyReachable, IsClosed, Numbered
  <2>1. Numbered \subseteq states
    BY DEF IInv, OnlyReachable
  <2>2. s \in states
    BY <2>1 DEF Number, IsClosed, ArcsOfNumbered
  <2> QED
    BY <1>1, <2>1, <2>2
<1>6. AtEnd'
  BY <1>2 DEF AtEnd
<1> QED
  BY <1>3, <1>4, <1>5, <1>6 DEF IInv

LEMMA AddIInv ==
  ASSUME IInv, NEW a, Add(a)
  PROVE  IInv'
<1>1. ids' = ids /\ arcs' = arcs /\ start' = start /\ ~isDone'
  BY DEF Add, graph
<1>2. NumbersDiffer' /\ OnlyReachable' /\ AtEnd'
  BY <1>1 DEF IInv, NumbersDiffer, OnlyReachable, AtEnd, IsClosed, Numbered
<1>3. EndsAreNumbered'
  BY <1>1 DEF IInv, EndsAreNumbered, Add, ArcsOfNumbered, Numbered
<1> QED
  BY <1>2, <1>3 DEF IInv

LEMMA FinishIInv ==
  ASSUME IInv, Finish
  PROVE  IInv'
BY DEF IInv, Finish, graph, NumbersDiffer, EndsAreNumbered, OnlyReachable, AtEnd, IsClosed, Numbered,
       ArcsOfNumbered

LEMMA NextIInv == IInv /\ [Next]_vars => IInv'
<1> SUFFICES ASSUME IInv, [Next]_vars PROVE IInv'
  OBVIOUS
<1>1. ASSUME NEW s \in {start} \cup {a.to : a \in arcs}, Number(s) PROVE IInv'
  BY <1>1, NumberIInv
<1>2. ASSUME NEW a \in arcs, Add(a) PROVE IInv'
  BY <1>2, AddIInv
<1>3. CASE Finish
  BY <1>3, FinishIInv
<1>4. CASE UNCHANGED vars
  BY <1>4 DEF vars, graph, IInv, NumbersDiffer, EndsAreNumbered, OnlyReachable, AtEnd, IsClosed,
              Numbered, ArcsOfNumbered
<1> QED
  BY <1>1, <1>2, <1>3, <1>4 DEF Next

LEMMA AlwaysIInv == Spec => []IInv
BY InitIInv, NextIInv, PTL DEF Spec

(* stateMap gives no two composed states the same state of the hypergraph. *)
THEOREM AlwaysNumbersDiffer == Spec => []NumbersDiffer
<1>1. IInv => NumbersDiffer
  BY DEF IInv
<1> QED
  BY <1>1, AlwaysIInv, PTL

(* What is saved is the part of the composition that the start state leads to,
   with all of its arcs. *)
THEOREM AlwaysReachablePart == Spec => []CopyIsReachablePart
<1>1. IInv => CopyIsReachablePart
  <2> SUFFICES ASSUME IInv, isDone PROVE CopyIsReachablePart
    BY DEF CopyIsReachablePart
  <2>1. start \in Numbered /\ ArcsOfNumbered \subseteq added
    BY DEF IInv, AtEnd
  <2>2. IsClosed(Numbered)
    BY <2>1 DEF IInv, EndsAreNumbered, IsClosed, ArcsOfNumbered
  <2>3. added \subseteq ArcsOfNumbered
    BY DEF IInv, EndsAreNumbered, ArcsOfNumbered
  <2> QED
    BY <2>1, <2>2, <2>3 DEF CopyIsReachablePart, IInv, OnlyReachable
<1> QED
  BY <1>1, AlwaysIInv, PTL

(* The state a composed state was mapped to does not change. *)
THEOREM AlwaysNumbersStay == Spec => NumbersStay
<1>1. [Next]_vars => [\A s \in Numbered : s \in DOMAIN ids' /\ ids'[s] = ids[s]]_vars
  BY DEF Next, Number, Add, Finish, vars, graph, Numbered
<1> QED
  BY <1>1, PTL DEF Spec, NumbersStay
=============================================================================
