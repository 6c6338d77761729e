--------------------------- MODULE MCMutableHypergraph ---------------------------
(* Two arcs between two states, with one tail or with two distinct ones.  A      *)
(* third state may have a label: with it as their second tail arcs are those of  *)
(* an FSM.                                                                       *)
EXTENDS MutableHypergraph

MCArcIds == 1 .. 2
MCHeads == 0 .. 1
MCLabelled == {2}
MCTails == {<<1>>, <<0, 1>>, <<0, 2>>, <<1, 2>>}
MCShapes == [head : MCHeads, tails : MCTails]

(* The same state as both tails *)
RepeatedShapes == [head : MCHeads, tails : {<<0>>, <<1>>, <<0, 0>>, <<0, 1>>}]
=============================================================================
