------------------------------ MODULE LazyBest ------------------------------
(* Hypergraph/fs/LazyBest.hpp: the best path through a transducer whose arcs
   are computed only when the search asks for them.  A state in the queue keeps
   the arcs it has yet to yield; each turn of bestToFinal takes one arc out of
   the state at the top, which then waits where that arc's distance puts it. *)
EXTENDS FstPath, DAryHeap, SequencesExt

CONSTANTS
  None,    \* no predecessor, no path
  Jobs     \* the calls of saveFst: [fst, opt], with opt a SaveFstOptions, which is
           \* [lazy, sortBestFirst, expandMoreArcs, removeEpsilon, projectOutput]

ASSUME JobsAssumption ==
  \A job \in Jobs :
    /\ IsFst(job.fst)
    /\ None \notin job.fst.states
    /\ job.opt.lazy \in BOOLEAN
    /\ job.opt.expandMoreArcs \in Nat

VARIABLES
  fst, opt,  \* when fst.arcs is asked for makes no difference to the arcs
  phase,   \* "start", then "search" or "save", then "done"
  best,    \* the Bests, by state: [distance, key, arcs, arc, predecessor]
  queue,
  isQueuedTwice,  \* history: a state was queued that was in the queue already
  path,    \* the arcs of the best path, from the start, or None
  outHg      \* the hypergraph made

input == <<fst, opt>>
search == <<best, queue, isQueuedTwice, path>>

LazyInit ==
  /\ \E job \in Jobs : fst = job.fst /\ opt = job.opt
  /\ phase = "start"
  /\ best = <<>>
  /\ queue = EmptyHeap({})
  /\ isQueuedTwice = FALSE
  /\ path = None
  /\ outHg = EmptyHypergraph

(* A map with an entry for s *)
Inserted(map, s, value) ==
  [t \in DOMAIN map \cup {s} |-> IF t = s THEN value ELSE map[t]]

(* The queue asks only for the keys of states that have one. *)
KeyOf(bests) == [s \in fst.states |-> IF s \in DOMAIN bests THEN bests[s].key ELSE 0]

Seed == [distance |-> 0, key |-> 0, arcs |-> fst.arcs[fst.start],
         arc |-> None, predecessor |-> None]
Start ==
  /\ phase = "start"
  /\ opt.lazy
  /\ IF fst.start \in fst.finals
       THEN /\ phase' = "done"
            /\ path' = <<>>
            /\ outHg' = PathHypergraph(<<>>, opt)
            /\ UNCHANGED <<best, queue>>
       ELSE /\ phase' = "search"
            /\ best' = Inserted(<<>>, fst.start, Seed)
            /\ queue' = Push(EmptyHeap(fst.states), fst.start, KeyOf(best'))
            /\ UNCHANGED <<path, outHg>>
  /\ UNCHANGED <<input, isQueuedTwice>>

-----------------------------------------------------------------------------
(* bestToFinal *)

IsExpanding ==
  phase = "search" /\ Size(queue) > 0 /\ Top(queue) \notin fst.finals

(* The arc taken, and its distance *)
NextArc == best[Top(queue)].arcs[1]
NextDistance == best[Top(queue)].distance + NextArc.cost

(* estimateSuccessor, and adjust_top on the queue *)
Taken ==
  [best EXCEPT ![Top(queue)].arcs = Tail(@), ![Top(queue)].key = NextDistance - opt.expandMoreArcs]
Unadjusted(bests) == queue                                            \* mutant
Adjusted(bests) == AdjustTop(queue, KeyOf(bests))

(* What is known of a state reached along the arc taken *)
ReachedKeyOfArc == [distance |-> NextDistance, key |-> NextArc.cost,  \* mutant
                    arcs |-> fst.arcs[NextArc.dst], arc |-> NextArc, predecessor |-> Top(queue)]
Reached == [distance |-> NextDistance, key |-> NextDistance, arcs |-> fst.arcs[NextArc.dst],
            arc |-> NextArc, predecessor |-> Top(queue)]

HasNextArc == IsExpanding /\ best[Top(queue)].arcs # <<>>

ReachNewState ==
  /\ HasNextArc
  /\ NextArc.dst \notin DOMAIN best
  /\ \E taken \in {Taken} : \E adjusted \in {Adjusted(taken)} :
       \E bests \in {Inserted(taken, NextArc.dst, Reached)} :
         /\ best' = bests
         /\ queue' = Push(adjusted, NextArc.dst, KeyOf(bests))
  /\ UNCHANGED <<input, phase, isQueuedTwice, path, outHg>>

IsBetterOrEqual == NextDistance <= best[NextArc.dst].distance         \* mutant
IsBetter == NextDistance < best[NextArc.dst].distance

ReachNoBetter ==
  /\ HasNextArc
  /\ NextArc.dst \in DOMAIN best
  /\ ~IsBetter
  /\ \E taken \in {Taken} : best' = taken /\ queue' = Adjusted(taken)
  /\ UNCHANGED <<input, phase, isQueuedTwice, path, outHg>>

IsMissed(heap, s) == s \in KeysOf(heap) /\ ~HasKey(heap, s)
ImproveState ==
  /\ HasNextArc
  /\ NextArc.dst \in DOMAIN best
  /\ IsBetter
  /\ \E taken \in {Taken} : \E adjusted \in {Adjusted(taken)} :
       \E bests \in {[taken EXCEPT ![NextArc.dst] = Reached]} :
         /\ best' = bests
         /\ queue' = PushOrUpdate(adjusted, NextArc.dst, KeyOf(bests))
         /\ isQueuedTwice' = (isQueuedTwice \/ IsMissed(adjusted, NextArc.dst))
  /\ UNCHANGED <<input, phase, path, outHg>>

PopState ==
  /\ IsExpanding
  /\ best[Top(queue)].arcs = <<>>
  /\ queue' = Pop(queue, KeyOf(best))
  /\ UNCHANGED <<input, phase, best, isQueuedTwice, path, outHg>>

(* pathFromBest: back from predecessor to predecessor, of which a path has no
   more than there are states *)
PathTo(s) ==
  LET back[n \in 0 .. Cardinality(DOMAIN best)] ==
        IF n = 0 THEN [state |-> s, path |-> <<>>]
        ELSE LET from == best[back[n - 1].state]
             IN  IF from.predecessor = None THEN back[n - 1]
                 ELSE [state |-> from.predecessor, path |-> <<from.arc>> \o back[n - 1].path]
  IN  back[Cardinality(DOMAIN best)].path

ArrivedWhenReached == \E s \in DOMAIN best : s \in fst.finals            \* mutant
Arrived == Top(queue) \in fst.finals
Arrive ==
  /\ phase = "search"
  /\ Size(queue) > 0
  /\ Arrived
  /\ path' = PathTo(Top(queue))
  /\ outHg' = PathHypergraph(path', opt)
  /\ phase' = "done"
  /\ UNCHANGED <<input, best, queue, isQueuedTwice>>

(* No path: the result stays empty. *)
GiveUp ==
  /\ phase = "search"
  /\ Size(queue) = 0
  /\ phase' = "done"
  /\ UNCHANGED <<input, search, outHg>>

LazyNext ==
  Start \/ ReachNewState \/ ReachNoBetter \/ ImproveState \/ PopState \/ Arrive \/ GiveUp

-----------------------------------------------------------------------------
(* Properties *)

IsDone == phase = "done" /\ opt.lazy

(* The queue is a heap with every state in it once, at every turn of bestToFinal:
   though the top gets worse with each arc and an improved state moves up, starts
   over or comes back.  Only a state that was queued when its place was wrong
   (Swapped) can come to be in it twice.  A margin makes an improved state worse
   for the queue, and only while all but the top are leaves does that not
   matter.  (LazyBest.hpp:290-315) *)
QueueIsHeap ==
  phase = "search" /\ ~isQueuedTwice /\ (opt.expandMoreArcs = 0 \/ Size(queue) <= Arity + 1)
    => IsHeap(queue, KeyOf(best)) /\ KeysDiffer(queue)

(* No arc comes so late that the margin does not allow for it. *)
IsWithinMargin(arcs) ==
  \A j \in DOMAIN arcs : \A i \in 1 .. j : arcs[j].cost >= arcs[i].cost - opt.expandMoreArcs
ArcsAreWithinMargin == \A s \in DOMAIN best : IsWithinMargin(fst.arcs[s])

(* The distance of a state that is some state's predecessor, or that has left
   the queue, does not change any more, when all arcs come best-first and no
   state was queued twice: nothing already derived from it is out of date. *)
IsSettled(s) ==
  \/ \E t \in DOMAIN best : best[t].predecessor = s
  \/ s \notin Range(queue.data)
SettledStays ==
  [][\A s \in DOMAIN best :
       IsSettled(s) /\ best'[s].distance # best[s].distance
         => opt.expandMoreArcs > 0 \/ ~ArcsAreWithinMargin \/ isQueuedTwice']_<<input, phase, search, outHg>>
=============================================================================
