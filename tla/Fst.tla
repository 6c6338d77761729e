-------------------------------- MODULE Fst --------------------------------
(* A finite state transducer as the templates of Hypergraph/fs take one (fs/Fst.hpp):
   they ask it for its start state, whether a state is final, and for the arcs
   out of a state, and know nothing else of it.  It is a record
     states, start, finals
     arcs           a function from states to the sequences of arcs that outArcs
                    yields, [in, out, cost, dst] *)
EXTENDS Integers, Sequences

Epsilon == "<eps>"

ArcsTo(states) == [in : STRING, out : STRING, cost : Int, dst : states]
IsFst(fst) ==
  /\ fst.start \in fst.states
  /\ fst.finals \subseteq fst.states
  /\ fst.arcs \in [fst.states -> Seq(ArcsTo(fst.states))]
=============================================================================
