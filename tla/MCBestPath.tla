------------------------------ MODULE MCBestPath ------------------------------
(* Small hypergraphs for BestTree and Nbest. *)
EXTENDS Derivations

(* The hypergraphs with some of the arcs of a template, each with one of its
   costs *)
ArcTemplate(head, tails, costs) == [head : {head}, tails : {tails}, cost : costs]
RECURSIVE ArcsOf(_)
ArcsOf(templates) ==
  IF templates = <<>> THEN {<<>>}
  ELSE LET rest == ArcsOf(Tail(templates))
       IN  rest \cup {<<a>> \o r : a \in templates[1], r \in rest}

(* Graphs with cycles, ties and a negative cost *)
Graphs ==
  [start : {0}, final : {3}, leaves : {{4}},
   isAcyclic : {FALSE}, arcs : ArcsOf(<<ArcTemplate(1, <<0>>, {1, 2}), ArcTemplate(2, <<0, 4>>, {1, 4}),
                   ArcTemplate(1, <<2>>, {0, -1}), ArcTemplate(2, <<1>>, {1}),
                   ArcTemplate(2, <<2>>, {1}), ArcTemplate(3, <<1>>, {2, 3}),
                   ArcTemplate(3, <<2, 4>>, {0})>>)]
(* Hypergraphs with arcs of two and three tails, the same one twice *)
Forests ==
  [start : {NoState}, final : {4}, leaves : {{0, 1}},
   isAcyclic : {FALSE}, arcs : ArcsOf(<<ArcTemplate(2, <<0>>, {1, 3}), ArcTemplate(2, <<0, 1, 0>>, {2}),
                   ArcTemplate(3, <<2, 1>>, {0, 2}), ArcTemplate(3, <<1>>, {2}),
                   ArcTemplate(2, <<3>>, {0, -1}), ArcTemplate(4, <<2, 3, 2>>, {0}),
                   ArcTemplate(4, <<3, 2>>, {1, -1})>>)]
(* Graphs with a queue long enough for the heap to have two levels to sift
   through *)
Fans ==
  [start : {0}, final : {5}, leaves : {{}},
   isAcyclic : {FALSE}, arcs : ArcsOf(<<ArcTemplate(1, <<0>>, {4}), ArcTemplate(2, <<0>>, {1, 5}),
                   ArcTemplate(3, <<0>>, {3}), ArcTemplate(4, <<0>>, {2, 6}),
                   ArcTemplate(5, <<0>>, {7}), ArcTemplate(1, <<2>>, {1}),
                   ArcTemplate(5, <<4>>, {1}), ArcTemplate(3, <<4>>, {0})>>)]

(* Graphs that are marked acyclic *)
MarkedFans == {[g EXCEPT !.isAcyclic = TRUE] : g \in Fans}
(* Hypergraphs in which the queue comes down to two states that change places,
   the worse of which is then improved *)
Swaps ==
  [start : {NoState}, final : {4}, leaves : {{0}}, isAcyclic : {FALSE},
   arcs : ArcsOf(<<ArcTemplate(1, <<0>>, {4}), ArcTemplate(2, <<0>>, {3}),
                   ArcTemplate(3, <<0>>, {5}), ArcTemplate(3, <<2>>, {0, 1}),
                   ArcTemplate(5, <<1>>, {1}), ArcTemplate(4, <<3, 5>>, {1})>>)]

BestOf(graphs, limits, acyclic) ==
  [hg : graphs,
   opt : [allowRereach : limits, acyclic : acyclic, nbest : {1}, ties : {0}]]
NbestOf(graphs, requests) ==
  [hg : graphs,
   opt : {[allowRereach |-> 0, acyclic |-> FALSE, nbest |-> r[1], ties |-> r[2]] : r \in requests}]

(* Cyclic graphs with ties, for the n best paths *)
TiedGraphs ==
  [start : {0}, final : {3}, leaves : {{4}},
   isAcyclic : {FALSE}, arcs : ArcsOf(<<ArcTemplate(1, <<0>>, {1}), ArcTemplate(2, <<0, 4>>, {2, 4}),
                   ArcTemplate(2, <<1>>, {1}), ArcTemplate(1, <<2>>, {1, 2}),
                   ArcTemplate(3, <<1>>, {2, 3}), ArcTemplate(3, <<2, 4>>, {1})>>)]
(* Hypergraphs in which no two derivations of a state cost the same *)
UntiedForests ==
  [start : {NoState}, final : {4}, leaves : {{0, 1}},
   isAcyclic : {FALSE}, arcs : ArcsOf(<<ArcTemplate(2, <<0>>, {1}), ArcTemplate(2, <<0, 1, 0>>, {4}),
                   ArcTemplate(3, <<2, 1>>, {16}), ArcTemplate(3, <<1>>, {64}),
                   ArcTemplate(4, <<2, 3, 2>>, {256}), ArcTemplate(4, <<3, 2>>, {266})>>)]
(* A cycle of negative cost *)
NegativeLoops ==
  [start : {0}, final : {3}, leaves : {{}},
   isAcyclic : {FALSE}, arcs : {<<[head |-> 1, tails |-> <<0>>, cost |-> 1], [head |-> 2, tails |-> <<1>>, cost |-> 1],
             [head |-> 1, tails |-> <<2>>, cost |-> -2], [head |-> 3, tails |-> <<2>>, cost |-> 1]>>}]

(* A start state that arcs lead back to *)
StartLoops ==
  [start : {0}, final : {2}, leaves : {{}},
   isAcyclic : {FALSE}, arcs : ArcsOf(<<ArcTemplate(1, <<0>>, {1, 2}), ArcTemplate(0, <<1>>, {1, 2}),
                   ArcTemplate(2, <<1>>, {1}), ArcTemplate(2, <<0>>, {2, 4})>>)]
(* A cycle that costs nothing *)
FreeLoops ==
  [start : {0}, final : {3}, leaves : {{}},
   isAcyclic : {FALSE}, arcs : ArcsOf(<<ArcTemplate(1, <<0>>, {0, 1}), ArcTemplate(2, <<1>>, {0, 1}),
                   ArcTemplate(1, <<2>>, {0}), ArcTemplate(3, <<2>>, {0, 1})>>)]

MCJobs ==
  UNION {BestOf(Graphs \cup Forests, {0, 2}, {TRUE, FALSE}),
         BestOf(Fans, {0, 2}, {FALSE}), BestOf(MarkedFans, {0}, {FALSE}),
         BestOf(Swaps, {0, 2}, {FALSE}),
         NbestOf(TiedGraphs, {<<3, 2>>}),
         NbestOf(UntiedForests, {<<8, 1>>}),
         NbestOf(NegativeLoops \cup StartLoops, {<<3, 0>>})}
StartLoopJobs == NbestOf(StartLoops, {<<3, 0>>})
SwapJobs == BestOf(Swaps, {0}, {FALSE})
FreeLoopJobs == NbestOf(FreeLoops, {<<3, 0>>})
=============================================================================
