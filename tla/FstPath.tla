------------------------------ MODULE FstPath ------------------------------
(* The hypergraph a search result is put in: Path::addToHypergraph of
   Hypergraph/fs/Path.hpp for a path, and the operations SaveFst.hpp uses.  Such
   a hypergraph is a transducer again, as a record
     size           its states are 0 .. size - 1
     start, final   states, or NoState
     arcs           a sequence of [tail, head, in, out, cost]  *)
EXTENDS Fst

NoState == -1
EmptyHypergraph == [size |-> 0, start |-> NoState, final |-> NoState, arcs |-> <<>>]

AddState(hg) == [hg EXCEPT !.size = @ + 1]
AddArc(hg, tail, head, in, out, cost) ==
  [hg EXCEPT !.arcs = Append(@, [tail |-> tail, head |-> head, in |-> in, out |-> out,
                                 cost |-> cost])]

(* An arc that leaves no label in the hypergraph *)
HasNoLabel(arc, opt) == arc.out = Epsilon /\ (opt.projectOutput \/ arc.in = Epsilon)
IsRemoved(arc, opt) == opt.removeEpsilon /\ HasNoLabel(arc, opt)

(* The cost of a removed arc goes to the arc before it, or, before the first
   arc, is kept for that. *)
RemoveArcForFree(copy, arc) == copy                                   \* mutant
RemoveArc(copy, arc) ==
  IF copy.hg.arcs = <<>>
    THEN [copy EXCEPT !.startCost = @ + arc.cost, !.isStartRemoved = TRUE]
    ELSE [copy EXCEPT !.hg.arcs[Len(copy.hg.arcs)].cost = @ + arc.cost]

CopyArc(copy, arc, isLast, opt) ==
  LET head == IF isLast THEN copy.hg.final ELSE copy.hg.size
      hg == IF isLast THEN copy.hg ELSE AddState(copy.hg)
  IN  [hg |-> AddArc(hg, copy.tail, head, IF opt.projectOutput THEN arc.out ELSE arc.in, arc.out,
                     arc.cost + copy.startCost),
       tail |-> head, startCost |-> 0, isStartRemoved |-> FALSE]

CopyArcs(copy, path, opt) ==
  LET copied[n \in 0 .. Len(path)] ==
        IF n = 0 THEN copy
        ELSE IF IsRemoved(path[n], opt) THEN RemoveArc(copied[n - 1], path[n])
        ELSE CopyArc(copied[n - 1], path[n], n = Len(path), opt)
  IN  copied[Len(path)]

(* A path is put in an empty hypergraph, whose final state is made before the
   start state. *)
PathHypergraph(path, opt) ==
  IF path = <<>>
    THEN [EmptyHypergraph EXCEPT !.size = 1, !.start = 0, !.final = 0]
    ELSE LET copy == CopyArcs([hg |-> [EmptyHypergraph EXCEPT !.size = 2, !.start = 1, !.final = 0],
                               tail |-> 1, startCost |-> 0, isStartRemoved |-> FALSE], path, opt)
         IN  IF copy.isStartRemoved
               THEN AddArc(copy.hg, copy.hg.start, copy.hg.final, Epsilon, Epsilon, copy.startCost)
               ELSE copy.hg
=============================================================================
