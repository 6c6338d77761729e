----------------------------- MODULE Derivations -----------------------------
(* Derivations as trees: what the best tree and the list of the n best are
   compared with.  A tree is [arc, kids], and Axiom stands for any axiom. *)
EXTENDS Nbest, SequencesExt

CONSTANT MaxHeight       \* of the derivations the list is compared with

RECURSIVE Product(_)
Product(sets) ==
  IF sets = <<>> THEN {<<>>}
  ELSE {<<x>> \o rest : x \in sets[1], rest \in Product(SubSeq(sets, 2, Len(sets)))}

(* The derivations of state s with at most "height" arcs on any path *)
RECURSIVE Derivations(_, _)
Derivations(s, height) ==
  (IF IsAxiom(hg, s) THEN {Axiom} ELSE {})
  \cup
  (IF height = 0 THEN {} ELSE
     UNION {{[arc |-> a, kids |-> kids] :
               kids \in Product([i \in DOMAIN TailsOf(hg, a) |->
                                   Derivations(TailsOf(hg, a)[i], height - 1)])} :
              a \in {b \in ArcIds(hg) : HeadOf(hg, b) = s}})

RECURSIVE TreeCost(_)
TreeCost(tree) ==
  IF tree.arc = 0 THEN 0
  ELSE FoldLeft(LAMBDA c, kid : c + TreeCost(kid), CostOf(hg, tree.arc), tree.kids)
-----------------------------------------------------------------------------
(* The best tree *)

(* The derivation that follows pi from a state down, to at most "height" arcs;
   it has Deep in it where that is not enough. *)
Deep == [arc |-> -1, kids |-> <<>>]
RECURSIVE BestDerivation(_, _)
BestDerivation(s, height) ==
  IF pi[s] = 0 THEN Axiom
  ELSE IF height = 0 THEN Deep
  ELSE [arc |-> pi[s],
        kids |-> [i \in DOMAIN TailsOf(hg, pi[s]) |->
                    BestDerivation(TailsOf(hg, pi[s])[i], height - 1)]]
RECURSIVE IsDeep(_)
IsDeep(tree) == tree = Deep \/ \E i \in DOMAIN tree.kids : IsDeep(tree.kids[i])

(* The states the result is meant for: AcyclicBest looks no further than what
   can be reached from the start state. *)
IsRelevant(s) == UsesAcyclic => TailsLast.color[s] = "closed"

IsExact == UsesAcyclic \/ IsNonNegative \/ ~isBlocked

(* The result is a shortest path tree unless an improvement was blocked, which
   the program warns of and which takes a negative cost, or a state was queued
   twice: no arc would improve a state any further, and from every state that has
   a cost pi leads down to the axioms, in a finite derivation that costs what mu
   says. *)
TreeIsBest ==
  phase = "done" /\ IsExact /\ ~isQueuedTwice =>
    /\ \A a \in ArcIds(hg) :
         IsRelevant(HeadOf(hg, a)) => mu[HeadOf(hg, a)] <= CostWith(hg, a, mu)
    /\ \A s \in States : IsRelevant(s) /\ mu[s] # Unreachable =>
         LET tree == BestDerivation(s, NumStates)
         IN  ~IsDeep(tree) /\ TreeCost(tree) = mu[s]

(* What the program says when the final state has no cost: that no path leads to
   it (BestPath.hpp:1228). *)
NoneOnlyIfNone ==
  phase = "done" /\ IsNonNegative /\ mu[hg.final] = Unreachable =>
    Derivations(hg.final, NumStates) = {}

-----------------------------------------------------------------------------
(* The n best *)

(* The list is what was asked for: no derivation twice, none before a better
   one, the cost of each what the forest computed for it, and what is left out
   is no better than what is listed, provided no state was queued twice; if fewer
   than asked for are listed there are no others, and derivations tied for the
   last place are listed too, up to the limit. *)
ListIsNbest ==
  phase = "listed" /\ IsNonNegative /\ ~isQueuedTwice =>
    LET trees == {listed[i].tree : i \in DOMAIN listed}
        others == Derivations(hg.final, MaxHeight) \ trees
        costs == {TreeCost(t) : t \in others}
    IN  /\ Cardinality(trees) = Len(listed)
        /\ \A i \in DOMAIN listed : listed[i].stored = listed[i].cost
        /\ \A i \in 1 .. Len(listed) - 1 : listed[i].cost <= listed[i + 1].cost
        /\ \A c \in costs : c >= LastCost
        /\ Len(listed) < opt.nbest => others = {}
        /\ Len(listed) < MaxNbest => \A c \in costs : c > LastCost
=============================================================================
