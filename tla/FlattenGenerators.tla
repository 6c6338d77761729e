-------------------------- MODULE FlattenGenerators --------------------------
(* Util/FlattenGenerators.hpp: a merge of generators of arcs, given as the
   sequences of arcs they yield.  A merge is a record
     queue      a heap of the generators that were started, each with the cost
                of the next arc it will yield
     base       the last generator started, or one past the last if there is
                none: only when an arc of the base has been taken is the next
                generator started
     left       what each generator has yet to yield
     out        the arcs yielded *)
EXTENDS DAryHeap, FiniteSetsExt

(* setTip *)
NextCosts(left) == [g \in DOMAIN left |-> IF left[g] = <<>> THEN 0 ELSE left[g][1].cost]

(* pushBase starts the next generator that yields anything. *)
BaseAfter(base, left) ==
  Min({g \in base + 1 .. Len(left) : left[g] # <<>>} \cup {Len(left) + 1})
PushBase(m) ==
  LET base == BaseAfter(m.base, m.left)
  IN  [m EXCEPT !.base = base,
                !.queue = IF base <= Len(m.left) THEN Push(@, base, NextCosts(m.left)) ELSE @]

AfterTopUnsifted(queue, left) ==                                      \* mutant
  IF left[Top(queue)] = <<>> THEN Pop(queue, NextCosts(left)) ELSE queue
AfterTop(queue, left) ==
  IF left[Top(queue)] = <<>> THEN Pop(queue, NextCosts(left))
                             ELSE AdjustTop(queue, NextCosts(left))

(* operator(): the arc of the top is taken. *)
TakeTop(m) ==
  LET top == Top(m.queue)
      left == [m.left EXCEPT ![top] = Tail(@)]
  IN  [m EXCEPT !.queue = AfterTop(@, left), !.left = left, !.out = Append(@, m.left[top][1])]
MergeTurn(m) ==
  IF Size(m.queue) = 0 THEN m
  ELSE IF Top(m.queue) = m.base THEN PushBase(TakeTop(m)) ELSE TakeTop(m)

Started(generators) ==
  PushBase([queue |-> EmptyHeap(DOMAIN generators), base |-> 0, left |-> generators, out |-> <<>>])

(* The arcs of generators, each told by its generator and its place there *)
Yields(generators) == UNION {{g} \X (DOMAIN generators[g]) : g \in DOMAIN generators}

(* All that a merge yields, an arc each turn until the heap is empty *)
Flatten(generators) ==
  LET merge[n \in 0 .. Cardinality(Yields(generators))] ==
        IF n = 0 THEN Started(generators) ELSE MergeTurn(merge[n - 1])
  IN  merge[Cardinality(Yields(generators))].out

-----------------------------------------------------------------------------
(* What FlattenGenerators promises: it yields every arc of every generator, and
   from generators that are best-first, and that come in the order of their
   first arcs, the arcs best-first.  (FlattenGenerators.hpp:13-18) *)

IsBestFirst(arcs) == \A i, j \in DOMAIN arcs : i < j => arcs[i].cost <= arcs[j].cost
AreBestFirst(generators) ==
  /\ \A g \in DOMAIN generators : IsBestFirst(generators[g])
  /\ \A g, h \in DOMAIN generators :
       g < h /\ generators[g] # <<>> /\ generators[h] # <<>>
         => generators[g][1].cost <= generators[h][1].cost

Occurrences(arcs, arc) == {i \in DOMAIN arcs : arcs[i] = arc}
OccurrencesIn(generators, arc) == {y \in Yields(generators) : generators[y[1]][y[2]] = arc}

IsMergeOf(arcs, generators) ==
  /\ \A arc \in {arcs[i] : i \in DOMAIN arcs} \cup {generators[y[1]][y[2]] : y \in Yields(generators)} :
       Cardinality(Occurrences(arcs, arc)) = Cardinality(OccurrencesIn(generators, arc))
  /\ AreBestFirst(generators) => IsBestFirst(arcs)
=============================================================================
