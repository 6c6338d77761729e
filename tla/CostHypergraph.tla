--------------------------- MODULE CostHypergraph ---------------------------
(* A hypergraph as the best path algorithms read it: states, some of them
   axioms, and arcs with one head, a sequence of tails and a cost.  A
   hypergraph is a record
     start      the start state, or NoState
     final      the final state
     leaves     the states with a terminal label
     isAcyclic  whether it came with the property kAcyclic
     arcs       the sequence of the arcs, in the order forArcs visits them *)
EXTENDS Integers, Sequences, FiniteSets

CONSTANTS
  NumStates,
  Unreachable      \* path_traits::unreachable(), more than any cost of a path

ASSUME NumStatesAssumption == NumStates \in Nat
ASSUME UnreachableAssumption == Unreachable \in Nat \ {0}

States == 0 .. NumStates - 1
NoState == -1

ArcIds(hg) == DOMAIN hg.arcs
HeadOf(hg, a) == hg.arcs[a].head
TailsOf(hg, a) == hg.arcs[a].tails
CostOf(hg, a) == hg.arcs[a].cost
TailSet(hg, a) == {TailsOf(hg, a)[i] : i \in DOMAIN TailsOf(hg, a)}

IsHypergraph(hg) ==
  /\ hg.start \in States \cup {NoState}
  /\ hg.final \in States
  /\ hg.leaves \subseteq States
  /\ hg.isAcyclic \in BOOLEAN
  /\ hg.arcs \in Seq([head : States, tails : Seq(States), cost : Int])

IsAxiom(hg, s) == s = hg.start \/ s \in hg.leaves

(* isGraphArcImpl: only the first tail may be without a terminal label, and of
   two tails it is. *)
IsGraph(hg) ==
  \A a \in ArcIds(hg) :
    /\ HeadOf(hg, a) \notin hg.leaves
    /\ TailsOf(hg, a) # <<>>
    /\ \A i \in 2 .. Len(TailsOf(hg, a)) : TailsOf(hg, a)[i] \in hg.leaves
    /\ Len(TailsOf(hg, a)) = 2 => TailsOf(hg, a)[1] \notin hg.leaves

(* path_traits: costs are added, and nothing comes of an unreachable part. *)
Extend(c, d) == IF Unreachable \in {c, d} THEN Unreachable ELSE c + d
Total(cost, parts) ==
  LET total[i \in 0 .. Len(parts)] ==
        IF i = 0 THEN cost ELSE Extend(total[i - 1], parts[i])
  IN  total[Len(parts)]
CostWith(hg, a, mu) == Total(CostOf(hg, a), [i \in DOMAIN TailsOf(hg, a) |-> mu[TailsOf(hg, a)[i]]])
=============================================================================
