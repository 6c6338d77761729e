------------------------------ MODULE BestTree ------------------------------
(* The cheapest derivation of every state of a hypergraph, as visit_nbestFilter
   (Hypergraph/BestPath.hpp) computes it: for a simple graph AcyclicBest tries
   a depth first order of the states and relaxes along it, and when that meets
   too many back edges, or the hypergraph is no simple graph, BestTree
   (graehl/shared/tails_up_hypergraph.hpp) runs Knuth's best-first search up
   from the axioms.  mu[s] is the cost of the best derivation of s found so far
   and pi[s] the arc at its root, 0 for none. *)
EXTENDS CostHypergraph, DAryHeap

CONSTANTS
  Jobs,             \* the searches: [hg, opt], with opt a BestPathOptions, which is
                    \* [allowRereach, acyclic, nbest, ties]
  MaxBackEdges,     \* acyclicMaxBackEdges
  MaxCount          \* the greatest count of the tails of an arc: 2^32 - 1

(* visit_nbestFilter starts from the axioms, of which there are some. *)
ASSUME JobsAssumption ==
  \A job \in Jobs :
    /\ IsHypergraph(job.hg)
    /\ \E s \in States : IsAxiom(job.hg, s)
    /\ job.opt.allowRereach \in Nat

ASSUME MaxBackEdgesAssumption == MaxBackEdges \in Nat
ASSUME MaxCountAssumption == MaxCount \in Nat \ {0}

VARIABLES
  hg, opt,
  phase,            \* Nbest goes on after "done"
  mu, pi,
  order,            \* acyclic: states left to relax from, the next one last
  isMarkedAcyclic,  \* AcyclicBest has given the hypergraph the property kAcyclic
  heap,
  remain,           \* remain[a]: tails of arc a the search has not reached
  rereach,          \* rereach[s]: how often s was reached, counted if allowRereach > 0
  reached,          \* the state that was popped last
  isFirstReach,     \* whether that was for the first time
  agenda,           \* arcs with that state as a tail, left to look at
  isBlocked,        \* an improvement has been blocked: n_blocked_rereach > 0
  isQueuedTwice     \* history: a state was queued that was in the queue already

input == <<hg, opt>>
result == <<mu, pi>>
search ==
  <<heap, remain, rereach, reached, isFirstReach, agenda, isBlocked, isQueuedTwice>>
vars == <<input, phase, result, order, isMarkedAcyclic, search>>

NullIndex == -1

Init ==
  /\ \E job \in Jobs : hg = job.hg /\ opt = job.opt
  /\ phase = "choose"
  /\ mu = [s \in States |-> Unreachable]
  /\ pi = [s \in States |-> 0]
  /\ order = <<>>
  /\ isMarkedAcyclic = FALSE
  /\ heap = EmptyHeap(States)
  /\ remain = [a \in ArcIds(hg) |-> 0]
  /\ rereach = [s \in States |-> 0]
  /\ reached = NoState
  /\ isFirstReach = TRUE
  /\ agenda = {}
  /\ isBlocked = FALSE
  /\ isQueuedTwice = FALSE

-----------------------------------------------------------------------------
(* AcyclicBest *)

First(set) == CHOOSE x \in set : \A y \in set : x <= y

(* ComputeStateOrder::open: depth first from a state along the arcs it is the
   first tail of, with the calls under way on a stack, each a state and the arc
   it has come to.  A dfs stops once there are more than MaxBackEdges back edges,
   and an arc from a state to itself is none. *)
Dfs ==
  [color : [States -> {"fresh", "opened", "closed"}], order : Seq(States),
   backEdges : Nat, calls : Seq([state : States, arc : Nat])]
LeftInFront(states, s) == <<s>> \o states                            \* mutant
LeftLast(states, s) == Append(states, s)

DfsStart ==
  [color |-> [s \in States |-> IF s = hg.start THEN "opened" ELSE "fresh"],
   order |-> <<>>, backEdges |-> 0, calls |-> <<[state |-> hg.start, arc |-> 0]>>]
DfsStep[dfs \in Dfs] ==
  LET n == Len(dfs.calls)
      call == dfs.calls[n]
      below == SubSeq(dfs.calls, 1, n - 1)
      left == {a \in ArcIds(hg) : a > call.arc /\ TailsOf(hg, a)[1] = call.state}
      to == HeadOf(hg, First(left))
      next == Append(below, [call EXCEPT !.arc = First(left)])
  IN  IF n = 0 \/ dfs.backEdges > MaxBackEdges THEN dfs
      ELSE IF left = {}
        THEN [dfs EXCEPT !.order = LeftLast(@, call.state), !.color[call.state] = "closed",
                         !.calls = below]
      ELSE IF dfs.color[to] = "fresh"
        THEN [dfs EXCEPT !.color[to] = "opened",
                         !.calls = Append(next, [state |-> to, arc |-> 0])]
      ELSE IF dfs.color[to] = "opened" /\ to # call.state
        THEN [dfs EXCEPT !.backEdges = @ + 1, !.calls = next]
      ELSE [dfs EXCEPT !.calls = next]

(* Every arc is followed once and every state left once. *)
TailsLast ==
  LET steps == Len(hg.arcs) + NumStates
      dfs[n \in 0 .. steps] == IF n = 0 THEN DfsStart ELSE DfsStep[dfs[n - 1]]
  IN  dfs[steps]

(* Which of the two runs.  With too many back edges AcyclicBest leaves mu and
   pi as they were. *)
UsesAcyclic ==
  /\ IsGraph(hg) /\ hg.start # NoState
  /\ opt.acyclic \/ hg.isAcyclic
  /\ TailsLast.backEdges <= MaxBackEdges

ChooseAcyclic ==
  /\ phase = "choose"
  /\ UsesAcyclic
  /\ phase' = "acyclic"
  /\ order' = TailsLast.order
  /\ mu' = [s \in States |-> IF IsAxiom(hg, s) THEN 0 ELSE Unreachable]
  /\ UNCHANGED <<input, pi, isMarkedAcyclic, search>>

ChooseBestFirst ==
  /\ phase = "choose"
  /\ ~UsesAcyclic
  /\ phase' = "axioms"
  /\ UNCHANGED <<input, result, order, isMarkedAcyclic, search>>

(* improve: one arc *)
Trees == [mu : [States -> Int], pi : [States -> Nat]]
Improve[at \in Trees \X ArcIds(hg)] ==
  LET best == at[1]
      a == at[2]
      cost == Extend(CostOf(hg, a), best.mu[TailsOf(hg, a)[1]])
  IN  IF cost < best.mu[HeadOf(hg, a)]
        THEN [mu |-> [best.mu EXCEPT ![HeadOf(hg, a)] = cost],
              pi |-> [best.pi EXCEPT ![HeadOf(hg, a)] = a]]
        ELSE best

(* along the arcs out of a state *)
Improved(s) ==
  LET best[n \in 0 .. Len(hg.arcs)] ==
        IF n = 0 THEN [mu |-> mu, pi |-> pi]
        ELSE IF TailsOf(hg, n)[1] = s THEN Improve[<<best[n - 1], n>>] ELSE best[n - 1]
  IN  best[Len(hg.arcs)]

RelaxOutArcs ==
  /\ phase = "acyclic"
  /\ order # <<>>
  /\ LET best == Improved(order[Len(order)])
     IN  mu' = best.mu /\ pi' = best.pi
  /\ order' = SubSeq(order, 1, Len(order) - 1)
  /\ UNCHANGED <<input, phase, isMarkedAcyclic, search>>

(* A self loop is no back edge but keeps the property from being set. *)
SelfLoopsIgnored == FALSE                                           \* mutant
HasSelfLoops ==
  \E a \in ArcIds(hg) :
    /\ TailsLast.color[TailsOf(hg, a)[1]] = "closed"
    /\ TailsOf(hg, a)[1] = HeadOf(hg, a)

AcyclicDone ==
  /\ phase = "acyclic"
  /\ order = <<>>
  /\ phase' = "done"
  /\ isMarkedAcyclic' = (TailsLast.backEdges = 0 /\ ~HasSelfLoops)
  /\ UNCHANGED <<input, result, order, search>>

-----------------------------------------------------------------------------
(* BestTree *)

(* TailsUpHypergraph: an arc counts once for a state, though the state be its tail
   twice. *)
UniqueTails(a) == Cardinality(TailSet(hg, a))
InnerTails(a) == Cardinality({s \in TailSet(hg, a) : ~IsAxiom(hg, s)})    \* mutant
RemainAtStart(a) == UniqueTails(a)
TailsUp(s) == {a \in ArcIds(hg) : s \in TailSet(hg, a)}

(* forArcs and forAxiomIds go by number. *)
AxiomQueue ==
  LET added[n \in 0 .. NumStates] ==
        IF n = 0 THEN EmptyHeap(States)
        ELSE IF IsAxiom(hg, n - 1) THEN AddUnsorted(added[n - 1], n - 1) ELSE added[n - 1]
  IN  added[NumStates]

(* init_costs, every axiom into the queue, and heapify *)
AddAxioms ==
  /\ phase = "axioms"
  /\ mu' = [s \in States |-> IF IsAxiom(hg, s) THEN 0 ELSE Unreachable]
  /\ heap' = Heapify(AxiomQueue, mu')
  /\ remain' = [a \in ArcIds(hg) |-> RemainAtStart(a)]
  /\ phase' = "search"
  /\ UNCHANGED <<input, pi, order, isMarkedAcyclic, rereach, reached, isFirstReach,
                 agenda, isBlocked, isQueuedTwice>>

IsFirst(s) == opt.allowRereach = 0 \/ rereach[s] = 0

(* The best state leaves the queue; mark_reached counts it or, when nothing is
   counted, takes its place away. *)
PopBest ==
  /\ phase = "search"
  /\ agenda = {}
  /\ Size(heap) > 0
  /\ LET best == Top(heap)
         popped == Pop(heap, mu)
     IN  /\ reached' = best
         /\ agenda' = TailsUp(best)
         /\ isFirstReach' = IsFirst(best)
         /\ IF opt.allowRereach > 0
              THEN /\ rereach' = [rereach EXCEPT ![best] = @ + 1]
                   /\ heap' = popped
              ELSE /\ heap' = [popped EXCEPT !.loc[best] = NullIndex]
                   /\ UNCHANGED rereach
  /\ UNCHANGED <<input, phase, result, order, isMarkedAcyclic, remain, isBlocked,
                 isQueuedTwice>>

(* No improvement of a state that was reached too often already *)
ExceedsLimit(s) ==
  IF opt.allowRereach > 0 THEN rereach[s] > opt.allowRereach
                          ELSE heap.loc[s] = NullIndex

(* relax, with the cost computed anew from the costs of the tails *)
IsMissed(s) == s \in KeysOf(heap) /\ ~HasKey(heap, s)
RelaxUnderTail(head, a) ==                                          \* mutant
  LET cost == CostWith(hg, a, mu)
  IN  IF cost < mu[head]
        THEN /\ mu' = [mu EXCEPT ![head] = cost]
             /\ pi' = [pi EXCEPT ![reached] = a]
             /\ heap' = PushOrUpdate(heap, head, mu')
             /\ isQueuedTwice' = (isQueuedTwice \/ IsMissed(head))
        ELSE UNCHANGED <<result, heap, isQueuedTwice>>
RelaxWithoutUpdate(head, a) ==                                      \* mutant
  LET cost == CostWith(hg, a, mu)
  IN  IF cost < mu[head]
        THEN /\ mu' = [mu EXCEPT ![head] = cost]
             /\ pi' = [pi EXCEPT ![head] = a]
             /\ heap' = IF HasKey(heap, head) THEN heap ELSE Push(heap, head, mu')
             /\ isQueuedTwice' = (isQueuedTwice \/ IsMissed(head))
        ELSE UNCHANGED <<result, heap, isQueuedTwice>>
Relax(head, a) ==
  LET cost == CostWith(hg, a, mu)
  IN  IF cost < mu[head]
        THEN /\ mu' = [mu EXCEPT ![head] = cost]
             /\ pi' = [pi EXCEPT ![head] = a]
             /\ heap' = PushOrUpdate(heap, head, mu')
             /\ isQueuedTwice' = (isQueuedTwice \/ IsMissed(head))
        ELSE UNCHANGED <<result, heap, isQueuedTwice>>

(* The count of tails is unsigned, and nothing but an assertion keeps it from
   falling below zero. *)
Less(count) == IF count = 0 THEN MaxCount ELSE count - 1

(* reach: one arc with the reached state as a tail *)
ReachArc ==
  /\ phase = "search"
  /\ agenda # {}
  /\ agenda' = agenda \ {First(agenda)}
  /\ LET a == First(agenda)
         left == IF isFirstReach THEN Less(remain[a]) ELSE remain[a]
     IN  IF ExceedsLimit(HeadOf(hg, a))
           THEN isBlocked' = TRUE /\ UNCHANGED <<remain, result, heap, isQueuedTwice>>
           ELSE /\ UNCHANGED isBlocked
                /\ remain' = [remain EXCEPT ![a] = left]
                /\ IF left = 0 THEN Relax(HeadOf(hg, a), a)
                               ELSE UNCHANGED <<result, heap, isQueuedTwice>>
  /\ UNCHANGED <<input, phase, order, isMarkedAcyclic, rereach, reached, isFirstReach>>

SearchDone ==
  /\ phase = "search"
  /\ agenda = {}
  /\ Size(heap) = 0
  /\ phase' = "done"
  /\ UNCHANGED <<input, result, order, isMarkedAcyclic, search>>

BestTreeNext ==
  \/ ChooseAcyclic \/ RelaxOutArcs \/ AcyclicDone
  \/ ChooseBestFirst \/ AddAxioms \/ PopBest \/ ReachArc \/ SearchDone

BestTreeSpec == Init /\ [][BestTreeNext]_vars

-----------------------------------------------------------------------------
(* Properties *)

BestTreeTypeOK ==
  /\ phase \in {"choose", "acyclic", "axioms", "search", "done",
               "sort", "fix", "list", "listed", "cycle", "overflow"}
  /\ mu \in [States -> Int]
  /\ pi \in [States -> {0} \cup ArcIds(hg)]
  /\ \A s \in States : pi[s] # 0 => HeadOf(hg, pi[s]) = s
  /\ order \in Seq(States)
  /\ isMarkedAcyclic \in BOOLEAN
  /\ heap.data \in Seq(States)
  /\ heap.loc \in [States -> Nat \cup {NullIndex}]
  /\ remain \in [ArcIds(hg) -> Nat]
  /\ rereach \in [States -> Nat]
  /\ agenda \subseteq ArcIds(hg)
  /\ isBlocked \in BOOLEAN
  /\ isQueuedTwice \in BOOLEAN

(* pop may leave two wrong places behind (Swapped), and a queued state that is not
   found at its place is queued a second time when it improves.  Until that
   happens no queued state is better than its parent in the heap, and no state is
   queued twice. *)
QueueIsHeap ==
  phase = "search" /\ ~isQueuedTwice => IsHeap(heap, mu) /\ KeysDiffer(heap)

IsNonNegative == \A a \in ArcIds(hg) : CostOf(hg, a) >= 0

(* A state that has been popped *)
IsReached(s) ==
  IF opt.allowRereach > 0 THEN rereach[s] > 0
                          ELSE phase = "search" /\ heap.loc[s] = NullIndex

(* Knuth's theorem: without negative costs what was popped has its best cost
   and its best arc and is no longer queued, nor will it be again, unless a state
   was queued twice. *)
ReachedIsSettled ==
  [][IsNonNegative /\ ~isQueuedTwice' =>
       \A s \in States : IsReached(s) =>
         mu'[s] = mu[s] /\ pi'[s] = pi[s] /\ s \notin KeysOf(heap')]_vars

(* An arc's cost is computed only from tails that have one, which
   recompute_cost asserts (tails_up_hypergraph.hpp:527): it may fail when a state
   that was queued twice has its arcs counted twice. *)
TailsAlwaysReached ==
  phase = "search" =>
    \A a \in ArcIds(hg) :
      remain[a] = 0 => \A s \in TailSet(hg, a) : mu[s] # Unreachable
TailsAreReached == ~isQueuedTwice => TailsAlwaysReached

(* The hypergraph is marked acyclic only if no state that the start state
   leads to can be reached from itself. *)
MarkedIsAcyclic ==
  isMarkedAcyclic =>
    LET Heads(set) == {HeadOf(hg, a) : a \in {b \in ArcIds(hg) : TailsOf(hg, b)[1] \in set}}
        Further[set \in SUBSET States] == set \cup Heads(set)
        From(s) == LET from[n \in 0 .. NumStates] ==
                         IF n = 0 THEN Heads({s}) ELSE Further[from[n - 1]]
                   IN  from[NumStates]
    IN  \A s \in {hg.start} \cup From(hg.start) : s \notin From(s)

=============================================================================
