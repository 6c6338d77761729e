-------------------------------- MODULE Nbest --------------------------------
(* The n best derivations, computed lazily once the best tree is known:
   BuildLazy (Hypergraph/BestPath.hpp) makes a forest with a node for every
   state, and one for every tail between the first and the last of an arc with
   three tails or more, and lazy_forest (graehl/shared/lazy_forest_kbest.hpp)
   finds the derivations of a node in the order of their costs, each when it is
   asked for.

   A node is [queue, memo].  memo[n + 1] is its nth best derivation, and queue
   holds the hyperedges whose derivation may come next.  std::push_heap keeps
   one that none is better than in front; which one, when several cost the
   same, and the order behind it, are its own affair, so the sequence has one
   of the best first and then the others in the order they were made.  A
   hyperedge is [kids, places, deriv]: the nodes of its children, which of
   their derivations it takes, and the derivation that results.

   Derivations are shared and changed in place, so they are numbered, and
   "store" has what is at each number: [cost, leaf, kids, arc], with at most two children. *)
EXTENDS BestTree, FiniteSetsExt

Null == 0         \* no derivation, no node
NONE == -1        \* a node has no further derivation
PENDING == -2     \* the derivation is being computed

VARIABLES
  store, nodes,
  seen,           \* the nodes fix_edges has been to
  stack,          \* the calls of fix_edges, later of get_best: [node, n, edge, at]
  answer,         \* what the last call of get_best returned
  listed          \* the derivations visited: [tree, cost]

nbestVars == <<store, nodes, seen, stack, answer, listed>>
allVars == <<vars, nbestVars>>

NbestInit ==
  /\ Init
  /\ store = <<>> /\ nodes = <<>>
  /\ seen = {}
  /\ stack = <<>>
  /\ answer = Null
  /\ listed = <<>>

-----------------------------------------------------------------------------
(* BuildLazy: a node and its first derivation have the same number *)

NodeOf(s) == s + 1
StateNodes == 1 .. NumStates

(* Null for dvec: a state without a derivation *)
HasBest(s) == pi[s] # 0 \/ IsAxiom(hg, s)
UsedByHead ==                                                       \* mutant
  {a \in ArcIds(hg) : HasBest(HeadOf(hg, a))}
UsedArcs ==
  {a \in ArcIds(hg) : HasBest(HeadOf(hg, a)) /\ \A s \in TailSet(hg, a) : HasBest(s)}

(* The derivation by an arc is the best one of its head if pi chose that arc,
   and a new one otherwise. *)
ArcDeriv(a) == IF pi[HeadOf(hg, a)] = a THEN NodeOf(HeadOf(hg, a)) ELSE NumStates + a
ArcCost(a) == IF pi[HeadOf(hg, a)] = a THEN mu[HeadOf(hg, a)] ELSE CostWith(hg, a, mu)

(* A chain of nodes joins the tails of an arc from the left: joint i, with the
   tails from the first to the ith.  Its cost is what the arc's deriv costs
   without the tails before. *)
JointOf(a, i) == NumStates + i * Len(hg.arcs) + a
Joints == UNION {{<<a, i>> : i \in 2 .. Len(TailsOf(hg, a)) - 1} : a \in UsedArcs}
JoinedTo(a, i) == IF i = 1 THEN NodeOf(TailsOf(hg, a)[1]) ELSE JointOf(a, i)
KidsOfJoint(a, i) == <<JoinedTo(a, i - 1), NodeOf(TailsOf(hg, a)[i])>>
KidsOfArc(a) ==
  LET n == Len(TailsOf(hg, a))
  IN  CASE n = 0 -> <<Null, Null>>
        [] n = 1 -> <<JoinedTo(a, 1), Null>>
        [] OTHER -> KidsOfJoint(a, n)
CostOfJoint(a, i) ==
  LET w[k \in 1 .. i] == IF k = 1 THEN CostWith(hg, a, mu) ELSE w[k - 1] - mu[TailsOf(hg, a)[k - 1]]
  IN  w[i]

Deriv(cost, leaf, kids, arc) == [cost |-> cost, leaf |-> leaf, kids |-> kids, arc |-> arc]
LeafDerivs ==
  [n \in {NodeOf(s) : s \in {t \in States : IsAxiom(hg, t) /\ pi[t] = 0}} |->
     Deriv(mu[n - 1], n - 1, <<Null, Null>>, 0)]
ArcOf(d) == IF d \in StateNodes THEN pi[d - 1] ELSE d - NumStates
ArcDerivs ==
  [d \in {ArcDeriv(a) : a \in UsedArcs} |->
     Deriv(ArcCost(ArcOf(d)), NoState, KidsOfArc(ArcOf(d)), ArcOf(d))]
JointDerivs ==
  [d \in {JointOf(j[1], j[2]) : j \in Joints} |->
     LET j == CHOOSE j \in Joints : JointOf(j[1], j[2]) = d
     IN  Deriv(CostOfJoint(j[1], j[2]), NoState, KidsOfJoint(j[1], j[2]), 0)]

Edge(kids, deriv) == [kids |-> kids, places |-> <<0, 0>>, deriv |-> deriv]
(* operator(): the hyperedges of the arcs into a state, in the order of forArcs *)
EdgesInto(s) ==
  LET edges[n \in 0 .. Len(hg.arcs)] ==
        IF n = 0 THEN <<>>
        ELSE IF n \in UsedArcs /\ HeadOf(hg, n) = s
          THEN Append(edges[n - 1], Edge(KidsOfArc(n), ArcDeriv(n)))
          ELSE edges[n - 1]
  IN  edges[Len(hg.arcs)]

StateNodesUnsorted == [n \in StateNodes |-> [queue |-> EdgesInto(n - 1), memo |-> <<>>]]
JointNodes ==
  [n \in DOMAIN JointDerivs |->
     [queue |-> <<Edge(JointDerivs[n].kids, n)>>, memo |-> <<n>>]]

Merged(f, g) == [x \in DOMAIN f \cup DOMAIN g |-> IF x \in DOMAIN f THEN f[x] ELSE g[x]]

(* From the best tree to the forest *)
BuildLazy ==
  /\ phase = "done"
  /\ mu[hg.final] # Unreachable
  /\ opt.nbest > 1
  /\ phase' = "sort"
  /\ store' = Merged(Merged(LeafDerivs, ArcDerivs), JointDerivs)
  /\ nodes' = Merged(StateNodesUnsorted, JointNodes)
  /\ UNCHANGED <<input, result, order, isMarkedAcyclic, search, seen, stack, answer, listed>>

(* A queue with one of its best hyperedges in front *)
IsLastIn(queue, i) == i = Len(queue)                        \* mutant
IsBestIn(queue, i) ==
  \A j \in DOMAIN queue : store[queue[i].deriv].cost <= store[queue[j].deriv].cost
InFront(queue, i) ==
  [j \in DOMAIN queue |-> IF j = 1 THEN queue[i] ELSE IF j <= i THEN queue[j - 1] ELSE queue[j]]

(* sort: the queues of the states, one after the other; the best derivation of
   each is the first known. *)
UnsortedNodes == {n \in StateNodes : nodes[n].memo = <<>>}

SortState ==
  /\ phase = "sort" /\ UnsortedNodes # {}
  /\ LET n == First(UnsortedNodes)
         queue == nodes[n].queue
     IN  IF queue = <<>> THEN nodes' = [nodes EXCEPT ![n].memo = <<NONE>>]
         ELSE \E i \in DOMAIN queue :
                /\ IsBestIn(queue, i)
                /\ nodes' = [nodes EXCEPT ![n] =
                     [queue |-> InFront(queue, i), memo |-> <<queue[i].deriv>>]]
  /\ UNCHANGED <<vars, store, seen, stack, answer, listed>>

Call(n, i) == [node |-> n, n |-> i, edge |-> Edge(<<Null, Null>>, Null), at |-> "enter"]

(* and a call of fix_edges for the final state *)
SortDone ==
  /\ phase = "sort" /\ UnsortedNodes = {}
  /\ phase' = "fix"
  /\ stack' = <<Call(NodeOf(hg.final), 1)>>
  /\ UNCHANGED <<input, result, order, isMarkedAcyclic, search, store, nodes, seen, answer, listed>>

-----------------------------------------------------------------------------
(* fix_edges: the derivations in the queues are made to have those for children
   that are in front of the queues below, from the final state down.  Of a call,
   n is the place of the hyperedge in hand. *)

Frame == stack[Len(stack)]
Below == SubSeq(stack, 1, Len(stack) - 1)
NodeHere == nodes[Frame.node]
Goto(frame, at) == Append(Below, [frame EXCEPT !.at = at])

FrontOf(n) == IF nodes[n].queue = <<>> THEN NONE ELSE nodes[n].queue[1].deriv
EdgeHere == NodeHere.queue[Frame.n]

(* needs_fixing: once for each state, never for a joint *)
NeedsFixing(n) ==
  /\ nodes[n].queue # <<>>
  /\ store[FrontOf(n)].arc # 0
  /\ n \notin seen

EnterNode ==
  /\ phase = "fix" /\ stack # <<>> /\ Frame.at = "enter"
  /\ IF NeedsFixing(Frame.node)
       THEN /\ seen' = seen \cup {Frame.node}
            /\ stack' = Goto(Frame, "fix1")
       ELSE /\ stack' = Below
            /\ UNCHANGED seen
  /\ UNCHANGED <<vars, store, nodes, answer, listed>>

(* fix_hyperedge goes down to the first child, and to the second one if the
   first has a derivation in front, *)
FixKid ==
  /\ phase = "fix" /\ stack # <<>> /\ Frame.at \in {"fix1", "fix2"}
  /\ Frame.n <= Len(NodeHere.queue)
  /\ LET i == IF Frame.at = "fix1" THEN 1 ELSE 2
         skip == IF i = 1 THEN EdgeHere.kids[1] = Null ELSE FrontOf(EdgeHere.kids[1]) = NONE
         next == IF skip THEN Goto([Frame EXCEPT !.n = @ + 1], "fix1")
                 ELSE Goto(Frame, IF i = 1 THEN "fix2" ELSE "repair")
     IN  stack' = IF skip \/ EdgeHere.kids[i] = Null THEN next
                  ELSE Append(next, Call(EdgeHere.kids[i], 1))
  /\ UNCHANGED <<vars, store, nodes, seen, answer, listed>>

(* fix_edge then replaces the children, but a second one only if the first is
   no leaf. *)
IsInner(d) == d # Null /\ store[d].leaf = NoState
Replaced(deriv, i, kid) ==
  LET old == deriv.kids[i]
  IN  IF old = kid THEN deriv
      ELSE [deriv EXCEPT !.kids[i] = kid, !.cost = @ - store[old].cost + store[kid].cost]
Repaired(deriv, kid1, kid2) ==
  IF ~IsInner(deriv.kids[1]) THEN deriv
  ELSE IF ~IsInner(deriv.kids[2]) THEN Replaced(deriv, 1, kid1)
  ELSE Replaced(Replaced(deriv, 1, kid1), 2, kid2)

RepairEdge ==
  /\ phase = "fix" /\ stack # <<>> /\ Frame.at = "repair"
  /\ LET kids == EdgeHere.kids
         kid2 == IF kids[2] = Null THEN Null ELSE FrontOf(kids[2])
     IN  store' = [store EXCEPT ![EdgeHere.deriv] = Repaired(@, FrontOf(kids[1]), kid2)]
  /\ stack' = Goto([Frame EXCEPT !.n = @ + 1], "fix1")
  /\ UNCHANGED <<vars, nodes, seen, answer, listed>>

LeaveNode ==
  /\ phase = "fix" /\ stack # <<>> /\ Frame.at = "fix1"
  /\ Frame.n > Len(NodeHere.queue)
  /\ stack' = Below
  /\ UNCHANGED <<vars, store, nodes, seen, answer, listed>>

FixDone ==
  /\ phase = "fix" /\ stack = <<>>
  /\ phase' = "list"
  /\ UNCHANGED <<input, result, order, isMarkedAcyclic, search, nbestVars>>

-----------------------------------------------------------------------------
(* get_best and enumerate_kbest *)

forestUnchanged == UNCHANGED <<vars, store, seen, listed>>

(* What get_best has computed before it returns at once. *)
ReturnKnown ==
  /\ phase = "list" /\ stack # <<>> /\ Frame.at = "enter"
  /\ Frame.n < Len(NodeHere.memo)
  /\ NodeHere.memo[Frame.n + 1] # PENDING
  /\ answer' = NodeHere.memo[Frame.n + 1]
  /\ stack' = Below
  /\ UNCHANGED nodes /\ forestUnchanged

(* A derivation that is asked for while it is being computed depends on
   itself: get_best throws lazy_derivation_cycle. *)
ThrowCycle ==
  /\ phase = "list" /\ stack # <<>> /\ Frame.at = "enter"
  /\ Frame.n < Len(NodeHere.memo)
  /\ NodeHere.memo[Frame.n + 1] = PENDING
  /\ phase' = "cycle"
  /\ UNCHANGED <<input, result, order, isMarkedAcyclic, search, nbestVars>>

AskForNew ==
  /\ phase = "list" /\ stack # <<>> /\ Frame.at = "enter"
  /\ Frame.n = Len(NodeHere.memo)
  /\ nodes' = [nodes EXCEPT ![Frame.node].memo = Append(@, PENDING)]
  /\ stack' = Goto(Frame, "pop")
  /\ UNCHANGED answer /\ forestUnchanged

(* next_best: the hyperedge of the derivation found last leaves the queue, for
   its successors.  The next one comes to the front when they are in. *)
PopEdge ==
  /\ phase = "list" /\ stack # <<>> /\ Frame.at = "pop"
  /\ IF NodeHere.queue = <<>>
       THEN /\ stack' = Goto(Frame, "top")
            /\ UNCHANGED nodes
       ELSE LET edge == NodeHere.queue[1]
            IN  /\ nodes' = [nodes EXCEPT ![Frame.node].queue = Tail(@)]
                /\ stack' = Goto([Frame EXCEPT !.edge = edge],
                                 IF edge.kids[1] = Null THEN "top" ELSE "kid1")
  /\ UNCHANGED answer /\ forestUnchanged

(* generate_successor_hyperedge asks the child for its next derivation, *)
AskKid ==
  /\ phase = "list" /\ stack # <<>> /\ Frame.at \in {"kid1", "kid2"}
  /\ LET i == IF Frame.at = "kid1" THEN 1 ELSE 2
     IN  stack' = Append(Goto(Frame, IF i = 1 THEN "made1" ELSE "made2"),
                         Call(Frame.edge.kids[i], Frame.edge.places[i] + 1))
  /\ UNCHANGED <<nodes, answer>> /\ forestUnchanged

(* make_worse *)
Fresh == Max(DOMAIN store) + 1
Worse(d, i, oldKid, newKid) ==
  [store[d] EXCEPT !.kids[i] = newKid,
                   !.cost = @ - store[oldKid].cost + store[newKid].cost]

SecondAlways(edge) == TRUE                                          \* mutant
SecondToo(edge) == edge.places[1] = 0

(* and queues the derivation with it.  The second child is changed only while
   the first is its best: "one path to any (a, b)". *)
TakeKid ==
  /\ phase = "list" /\ stack # <<>> /\ Frame.at \in {"made1", "made2"}
  /\ LET i == IF Frame.at = "made1" THEN 1 ELSE 2
         edge == Frame.edge
         oldKid == nodes[edge.kids[i]].memo[edge.places[i] + 1]
         next == IF i = 1 /\ edge.kids[2] # Null /\ SecondToo(edge) THEN "kid2" ELSE "top"
     IN  /\ stack' = Goto(Frame, next)
         /\ IF answer = NONE THEN UNCHANGED <<store, nodes>>
            ELSE /\ store' = Merged(store, [d \in {Fresh} |-> Worse(edge.deriv, i, oldKid, answer)])
                 /\ nodes' = [nodes EXCEPT ![Frame.node].queue =
                      Append(@, [edge EXCEPT !.places[i] = @ + 1, !.deriv = Fresh])]
  /\ UNCHANGED <<vars, seen, answer, listed>>

PlaceBefore(n) == n                                                 \* mutant
PlaceOf(n) == n + 1

(* The best of the queue is the derivation that was asked for. *)
TakeTop ==
  /\ phase = "list" /\ stack # <<>> /\ Frame.at = "top"
  /\ IF NodeHere.queue = <<>>
       THEN /\ nodes' = [nodes EXCEPT ![Frame.node].memo[Frame.n + 1] = NONE]
            /\ answer' = NONE
       ELSE \E i \in DOMAIN NodeHere.queue :
              /\ IsBestIn(NodeHere.queue, i)
              /\ answer' = NodeHere.queue[i].deriv
              /\ nodes' = [nodes EXCEPT ![Frame.node] =
                   [queue |-> InFront(@.queue, i),
                    memo |-> [@.memo EXCEPT ![PlaceOf(Frame.n)] = answer']]]
  /\ stack' = Below
  /\ forestUnchanged

(* BinaryDerivation::derivation: the tree of a derivation and what it costs.  An
   inner node of a chain has no arc and gives its children to the node above it.
   The descent does not end if a derivation has itself inside, which isDeep says:
   no other goes down further than there are derivations. *)
Axiom == [arc |-> 0, kids |-> <<>>]
Tree(trees, cost, isDeep) == [trees |-> trees, cost |-> cost, isDeep |-> isDeep]
TreeOf(d) ==
  LET tree[height \in 0 .. Cardinality(DOMAIN store), k \in {Null} \cup DOMAIN store] ==
        IF k = Null THEN Tree(<<>>, 0, FALSE)
        ELSE IF store[k].leaf # NoState THEN Tree(<<Axiom>>, 0, FALSE)
        ELSE IF height = 0 THEN Tree(<<>>, 0, TRUE)
        ELSE LET left == tree[height - 1, store[k].kids[1]]
                 right == tree[height - 1, store[k].kids[2]]
                 arc == store[k].arc
                 kids == left.trees \o right.trees
                 cost == left.cost + right.cost
                 isDeep == left.isDeep \/ right.isDeep
             IN  IF arc = 0 THEN Tree(kids, cost, isDeep)
                 ELSE Tree(<<[arc |-> arc, kids |-> kids]>>, CostOf(hg, arc) + cost, isDeep)
  IN  tree[Cardinality(DOMAIN store), d]

MaxNbest == opt.nbest + opt.ties
LastCost == listed[Len(listed)].cost

(* enumerate_kbest asks the final state for one derivation after the other *)
AskForNext ==
  /\ phase = "list" /\ stack = <<>> /\ answer = Null
  /\ Len(listed) < MaxNbest
  /\ stack' = <<Call(NodeOf(hg.final), Len(listed))>>
  /\ UNCHANGED <<nodes, answer>> /\ forestUnchanged

TiesIgnored(found) == Len(listed) >= opt.nbest                  \* mutant
IsWorseThanTies(found) ==
  /\ Len(listed) >= opt.nbest
  /\ found.cost > LastCost

(* and visits it, up to the first that VisitPlusTies has no use for. *)
VisitBest ==
  /\ phase = "list" /\ stack = <<>> /\ answer \notin {Null, NONE}
  /\ \E found \in {TreeOf(answer)} :
       CASE found.isDeep ->
              phase' = "overflow" /\ UNCHANGED listed
         [] ~found.isDeep /\ IsWorseThanTies(found) ->
              phase' = "listed" /\ UNCHANGED listed
         [] OTHER ->
              /\ listed' = Append(listed, [tree |-> found.trees[1], cost |-> found.cost,
                                           stored |-> store[answer].cost])
              /\ UNCHANGED phase
  /\ answer' = Null
  /\ UNCHANGED <<input, result, order, isMarkedAcyclic, search, store, nodes, seen, stack>>

LimitReached == answer \in {Null, NONE} /\ Len(listed) = MaxNbest      \* mutant
NoMore == answer = NONE \/ (answer = Null /\ Len(listed) = MaxNbest)

StopListing ==
  /\ phase = "list" /\ stack = <<>>
  /\ NoMore
  /\ phase' = "listed"
  /\ UNCHANGED <<input, result, order, isMarkedAcyclic, search, nbestVars>>

NbestNext ==
  \/ BestTreeNext /\ UNCHANGED nbestVars
  \/ BuildLazy \/ SortState \/ SortDone
  \/ EnterNode \/ FixKid \/ RepairEdge \/ LeaveNode \/ FixDone
  \/ AskForNext \/ VisitBest \/ StopListing
  \/ ReturnKnown \/ ThrowCycle \/ AskForNew
  \/ PopEdge \/ AskKid \/ TakeKid \/ TakeTop

NbestSpec == NbestInit /\ [][NbestNext]_allVars /\ WF_allVars(NbestNext)

-----------------------------------------------------------------------------
(* Properties *)

NbestTypeOK ==
  /\ \A d \in DOMAIN store :
       /\ store[d].leaf \in States \cup {NoState}
       /\ store[d].arc \in {0} \cup ArcIds(hg)
       /\ \A i \in 1 .. 2 : store[d].kids[i] \in {Null} \cup DOMAIN store
  /\ \A n \in DOMAIN nodes :
       /\ \A i \in DOMAIN nodes[n].queue : nodes[n].queue[i].deriv \in DOMAIN store
       /\ Range(nodes[n].memo) \subseteq {NONE, PENDING} \cup DOMAIN store
  /\ answer \in {Null, NONE} \cup DOMAIN store

(* What was once said to be a node's nth best derivation stays so: callers
   hold on to it. *)
MemoIsStable ==
  [][\A n \in DOMAIN nodes : \A i \in DOMAIN nodes[n].memo :
       nodes[n].memo[i] # PENDING =>
         i \in DOMAIN nodes'[n].memo /\ nodes'[n].memo[i] = nodes[n].memo[i]]_allVars

(* No node lists a worse derivation before a better one, when the best tree is
   one that no arc would improve. *)
IsTight ==
  /\ \A a \in UsedArcs : mu[HeadOf(hg, a)] <= CostWith(hg, a, mu)
  /\ \A s \in States : pi[s] # 0 => mu[s] = CostWith(hg, pi[s], mu)
MemoIsSorted ==
  IsTight =>
    \A n \in DOMAIN nodes : \A i, j \in DOMAIN nodes[n].memo :
      LET d == nodes[n].memo[i]  e == nodes[n].memo[j]
      IN  i < j /\ {d, e} \subseteq DOMAIN store => store[d].cost <= store[e].cost

(* No choice of children is queued twice, whichever of its predecessors it
   comes from. *)
NoChoiceTwice ==
  \A n \in DOMAIN nodes : \A i, j \in DOMAIN nodes[n].queue :
    i # j =>
      LET e == nodes[n].queue[i]  f == nodes[n].queue[j]
      IN  \/ e.places # f.places
          \/ e.kids # f.kids
          \/ store[e.deriv].arc # store[f.deriv].arc

(* Whatever the costs, cycles of negative cost included, the search and the
   listing end: the limit on how often a state is reached is there for the one,
   the exception for the other. *)
Finished ==
  \/ phase \in {"listed", "cycle", "overflow"}
  \/ phase = "done" /\ (mu[hg.final] = Unreachable \/ opt.nbest = 1)
Termination == <>Finished

(* "memo entry n is pending - there must be a negative cost (or maybe 0-cost)
   cycle": with positive costs get_best never throws. *)
CyclesAreNegative ==
  phase = "cycle" => \E a \in ArcIds(hg) : CostOf(hg, a) <= 0

(* "Don't be surprised if in nbest output, your previously computed 1-best
   derivation changes (to something same cost or better)": what is listed first
   is a derivation, and no worse than the best tree. *)
FirstIsNoWorse ==
  IsNonNegative =>
    /\ phase # "overflow"
    /\ listed # <<>> => listed[1].cost <= mu[hg.final]

=============================================================================
