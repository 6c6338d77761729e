---------------------------------- MODULE ArcSet ----------------------------------
(***************************************************************************)
(* What a hypergraph's arcs are to its clients, whichever index stores     *)
(* them (IHypergraph.hpp: "forArcs(v) - call v(a) for all Arc *a, exactly  *)
(* once for each a"): a set of arcs that only the calls that add, delete,  *)
(* restrict or rebuild may change.  Choosing another index changes nothing.*)
(***************************************************************************)
EXTENDS Naturals, Sequences, Functions

CONSTANTS
  ArcIds,   (* arcs, as pointers                                           *)
  States,   (* state ids                                                   *)
  Shapes    (* [head, tails] records an arc may have                       *)

VARIABLE arcs  (* the shape of each arc that is in the hypergraph          *)

Init == arcs = <<>>

Add(a, shape) ==
  /\ a \notin DOMAIN arcs
  /\ arcs' = [b \in DOMAIN arcs \cup {a} |-> IF b = a THEN shape ELSE arcs[b]]

Edit(a, shape) ==
  /\ a \in DOMAIN arcs
  /\ arcs' = [arcs EXCEPT ![a] = shape]

Keep(kept) == arcs' = Restrict(arcs, kept)

Image(x, shape) ==
  [head |-> x[shape.head], tails |-> [i \in DOMAIN shape.tails |-> x[shape.tails[i]]]]

Relabel(x, kept) == arcs' = [a \in kept |-> Image(x, arcs[a])]

Next ==
  \/ \E a \in ArcIds, shape \in Shapes : Add(a, shape) \/ Edit(a, shape)
  \/ \E kept \in SUBSET DOMAIN arcs :
       \/ Keep(kept)
       \/ \E x \in [States -> States] : Relabel(x, kept)

Spec == Init /\ [][Next]_arcs
=============================================================================
