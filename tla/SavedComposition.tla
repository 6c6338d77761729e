-------------------------- MODULE SavedComposition --------------------------
(* What saveFst promises of the composition of two transducers, next to what
   composition means. *)
EXTENDS SaveFst, FstCompose

(* Every transducer that is saved is a composition, prepared, of transducers
   whose arcs lead to their states.  (Compose.hpp, composeWithEpsilonFilter) *)
IsTransducer(t) == t.arcs \in [DOMAIN t.arcs -> Seq(ArcsTo(DOMAIN t.arcs))]
ASSUME CompositionsAssumption ==
  \A job \in Jobs :
    /\ IsTransducer(job.fst.of.input)
    /\ IsTransducer(job.fst.of.match)
    /\ job.fst = Composed(job.fst.of)

-----------------------------------------------------------------------------
(* What composition means, without filters or generators: a pair of states
   steps along an arc of one transducer or of both. *)

HasStandardMatch(c, q, m) ==
  \E a \in Range(c.input.arcs[q]), b \in Range(c.match.arcs[m]) :
    a.out # Epsilon /\ a.out = b.in

IsMatchedBy(c, symbol, m, b) ==
  \/ b.in \in {symbol, Sigma}
  \/ b.in = Rho /\ \A d \in Range(c.match.arcs[m]) : d.in # symbol

(* The steps of a pair, as [ins, outs, cost, by, to]; "by" tells the arcs *)
Steps(c, q, m) ==
  LET label(x) == IF x = Epsilon THEN <<>> ELSE <<x>>
  IN  {[ins |-> label(a.in), outs |-> <<>>, cost |-> a.cost, by |-> <<<<a>>, <<>>>>,
        to |-> <<a.dst, m>>] : a \in {x \in Range(c.input.arcs[q]) : x.out = Epsilon}}
      \cup
      {[ins |-> <<>>, outs |-> IF b.out = Phi THEN <<>> ELSE label(b.out), cost |-> b.cost,
        by |-> <<<<>>, <<b>>>>, to |-> <<q, b.dst>>] :
         b \in {x \in Range(c.match.arcs[m]) :
                  x.in = Epsilon \/ (x.in = Phi /\ ~HasStandardMatch(c, q, m))}}
      \cup
      {[ins |-> label(p[1].in), outs |-> label(IF p[2].in = p[2].out THEN p[1].out ELSE p[2].out),
        cost |-> p[1].cost + p[2].cost, by |-> <<<<p[1]>>, <<p[2]>>>>,
        to |-> <<p[1].dst, p[2].dst>>] :
         p \in {x \in Range(c.input.arcs[q]) \X Range(c.match.arcs[m]) :
                  x[1].out # Epsilon /\ IsMatchedBy(c, x[1].out, m, x[2])}}

(* The pairs of matching paths from a pair of states to the pair of the final
   ones, for transducers without cycles.  The order in which the two take their
   epsilons is no part of a pair of paths. *)
States(c) == (DOMAIN c.input.arcs) \X (DOMAIN c.match.arcs)
ComposedPaths(c) ==
  LET pairs[at \in States(c)] ==
        (IF at = <<c.input.final, c.match.final>>
           THEN {[ins |-> <<>>, outs |-> <<>>, cost |-> 0, by |-> <<<<>>, <<>>>>]} ELSE {})
        \cup
        UNION {{[ins |-> s.ins \o p.ins, outs |-> s.outs \o p.outs, cost |-> s.cost + p.cost,
                 by |-> <<s.by[1] \o p.by[1], s.by[2] \o p.by[2]>>] :
                  p \in pairs[s.to]} : s \in Steps(c, at[1], at[2])}
  IN  pairs[<<c.input.start, c.match.start>>]

(* The cost of the cheapest of them, or NoPath, with cycles too if no arc has
   a negative cost: pairs of states with the least cost known, until no step
   makes one cheaper *)
NoPath == -1
BestCost(c) ==
  LET cheapest[known \in SUBSET (States(c) \X Int)] ==
        LET next == known \cup UNION {{<<s.to, k[2] + s.cost>> : s \in Steps(c, k[1][1], k[1][2])} :
                                        k \in known}
            least == {k \in next : \A l \in next : l[1] = k[1] => k[2] <= l[2]}
        IN  IF least = known THEN known ELSE cheapest[least]
      atFinal == {k \in cheapest[{<<<<c.input.start, c.match.start>>, 0>>}] :
                    k[1] = <<c.input.final, c.match.final>>}
  IN  IF atFinal = {} THEN NoPath ELSE Min({k[2] : k \in atFinal})

-----------------------------------------------------------------------------
(* What a hypergraph says, when it has no cycles: the paths from a state to the
   final one, as sequences of arc numbers, and what can be read off a path *)

HgPaths(hg) ==
  LET paths[s \in 0 .. hg.size - 1] ==
        (IF s = hg.final THEN {<<>>} ELSE {})
        \cup UNION {{<<a>> \o p : p \in paths[hg.arcs[a].head]} :
                      a \in {b \in DOMAIN hg.arcs : hg.arcs[b].tail = s}}
  IN  IF hg.start = NoState THEN {} ELSE paths[hg.start]
ArcsOnPath(hg, p) == [i \in DOMAIN p |-> hg.arcs[p[i]]]

Reading(arcs) ==
  LET labels(ls) == SelectSeq(ls, LAMBDA x : x # Epsilon)
  IN  [ins |-> labels([i \in DOMAIN arcs |-> arcs[i].in]),
       outs |-> labels([i \in DOMAIN arcs |-> arcs[i].out]),
       cost |-> FoldLeft(LAMBDA sum, arc : sum + arc.cost, 0, arcs)]
Projected(reading) ==
  IF opt.projectOutput THEN [reading EXCEPT !.ins = reading.outs] ELSE reading

-----------------------------------------------------------------------------
(* Properties *)

(* The composition that is saved *)
Composition == fst.of

(* Epsilons of the input and phi arcs of the match transducer, which a filter
   treats as epsilons, keep out of each other's way. *)
IsPhiApart(c) ==
  \/ c.filter = "none"
  \/ \A q \in DOMAIN c.input.arcs : \A a \in Range(c.input.arcs[q]) : a.out # Epsilon
  \/ \A m \in DOMAIN c.match.arcs : \A b \in Range(c.match.arcs[m]) : b.in # Phi

(* Merging the generators of a state loses no arc and keeps the order they
   promise.  (FlattenGenerators.hpp:13-18) *)
FlattenMerges ==
  phase = "start" => \A s \in fst.states : IsMergeOf(fst.arcs[s], Generators(Composition, s))

IsSaved == phase = "done" /\ ~opt.lazy
IsAcyclicFst(t) == \A s \in DOMAIN t.arcs : \A i \in DOMAIN t.arcs[s] : s < t.arcs[s][i].dst

(* If no filter parts a phi from the epsilons it comes with, the
   hypergraph has a path for every pair of matching paths of the two
   transducers, that reads and costs what they do together, and with a filter
   other than NoEpsilonFilter just one: no epsilons are sequenced twice, no final
   state is missed and none leads on.  (Compose.hpp:35-38, 41-42) *)
SavedIsComposition ==
  IsSaved /\ IsPhiApart(Composition) /\ IsAcyclicFst(Composition.input) /\ IsAcyclicFst(Composition.match) =>
    LET saved == [p \in HgPaths(outHg) |-> Reading(ArcsOnPath(outHg, p))]
        meant == [p \in ComposedPaths(Composition) |->
                    Projected([ins |-> p.ins, outs |-> p.outs, cost |-> p.cost])]
    IN  /\ Range(saved) = Range(meant)
        /\ Composition.filter # "none" =>
             \A r \in Range(meant) : Cardinality({p \in DOMAIN saved : saved[p] = r})
                                       = Cardinality({p \in DOMAIN meant : meant[p] = r})

(* The path found is a path of the composition, and the cheapest there is, if
   the composition yields the arcs of each state best-first but for the margin
   (LazyBest.hpp:89-91) and no state was queued twice.  Without that last
   condition, or any margin, it is what the comment there says. *)
FoundIsPath ==
  IsDone /\ path # None =>
    /\ (IF path = <<>> THEN fst.start ELSE path[Len(path)].dst) \in fst.finals
    /\ \A i \in DOMAIN path :
         path[i] \in Range(fst.arcs[IF i = 1 THEN fst.start ELSE path[i - 1].dst])
IsCheapest == IsPhiApart(Composition) => Reading(path).cost = BestCost(Composition)
PathIsBest ==
  /\ FoundIsPath
  /\ IsDone /\ path # None /\ ArcsAreWithinMargin /\ ~isQueuedTwice
     /\ (opt.expandMoreArcs = 0 \/ Cardinality(DOMAIN best) <= Arity + 1)
       => IsCheapest
PathIsAlwaysBest ==
  IsDone /\ path # None /\ ArcsAreWithinMargin /\ opt.expandMoreArcs = 0 => IsCheapest

(* The search gives up only when no two paths of the transducers match: neither
   the filter, if there is no phi for it to part from epsilons, nor the order of
   the arcs hides the last one.  Without that condition it is what is said of
   composition in Compose.hpp:31-36. *)
NoneOnlyIfNone ==
  IsDone /\ path = None /\ IsPhiApart(Composition) => BestCost(Composition) = NoPath
NeverHidesLastPath == IsDone /\ path = None => BestCost(Composition) = NoPath

(* The hypergraph made of the best path has one path, which reads and costs
   what the best path does: addToHypergraph loses no cost with the epsilons it
   removes.  (Path.hpp:254-258)  Without the last conjunct of its condition it is
   what the comment there says. *)
IsPathCopied == HgPaths(outHg) # {} /\
  \A p \in HgPaths(outHg) :
    /\ Cardinality(HgPaths(outHg)) = 1
    /\ Reading(ArcsOnPath(outHg, p)) = Projected(Reading(path))
EndIsKept ==
  path # <<>> /\ IsRemoved(path[Len(path)], opt) => \A i \in DOMAIN path : IsRemoved(path[i], opt)
ResultIsPath == IsDone /\ path # None /\ EndIsKept => IsPathCopied
ResultIsAnyPath == IsDone /\ path # None => IsPathCopied
=============================================================================
