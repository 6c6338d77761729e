------------------------------ MODULE MCSaveFst ------------------------------
(* Small transducers for SaveFst.  The states of each are 0 .. final. *)
EXTENDS SavedComposition

(* The transducers with some of the arcs of a template, each with one of its
   costs; a template is <<from, in, out, costs, to>>. *)
RECURSIVE Fsts(_, _)
Fsts(final, templates) ==
  IF templates = <<>>
    THEN {[start |-> 0, final |-> final, arcs |-> [s \in 0 .. final |-> <<>>]]}
  ELSE LET t == templates[1]
           rest == Fsts(final, Tail(templates))
       IN  rest \cup {[r EXCEPT !.arcs[t[1]] =
                         <<[in |-> t[2], out |-> t[3], cost |-> cost, dst |-> t[5]]>> \o @] :
                        r \in rest, cost \in t[4]}
With(t, from, in, out, cost, to) ==
  [t EXCEPT !.arcs[from] = Append(@, [in |-> in, out |-> out, cost |-> cost, dst |-> to])]

Compositions(inputs, filters, matches) == [input : inputs, filter : filters, match : matches]
Best(margins, removes, projects) ==
  [lazy : {TRUE}, sortBestFirst : {TRUE}, expandMoreArcs : margins, removeEpsilon : removes,
   projectOutput : projects]
Whole(projects) ==
  [lazy : {FALSE}, sortBestFirst : {TRUE}, expandMoreArcs : {0}, removeEpsilon : {TRUE},
   projectOutput : projects]

Filters == {"none", "first", "combine"}

(* Epsilons on both sides, next to arcs with symbols *)
EpsilonInputs ==
  {With(f, 0, "a", Epsilon, 1, 1) :
     f \in Fsts(2, <<<<0, "b", "b", {2}, 1>>, <<1, "c", Epsilon, {0}, 2>>, <<1, "b", "b", {1}, 2>>,
                     <<0, "d", "a", {0}, 2>>>>)}
EpsilonMatches ==
  {With(f, 1, "b", "z", 2, 2) :
     f \in Fsts(2, <<<<0, Epsilon, "x", {0}, 1>>, <<0, "b", "y", {4}, 1>>,
                     <<1, Epsilon, Epsilon, {1}, 2>>, <<0, "a", "b", {3}, 2>>>>)}
(* Symbols met by sigma, rho and phi arcs *)
SymbolInputs ==
  {With(f, 0, "a", "a", 2, 1) :
     f \in Fsts(2, <<<<0, "b", "b", {1}, 1>>, <<1, "a", "a", {1}, 2>>, <<0, "c", "c", {0}, 2>>>>)}
SpecialMatches ==
  Fsts(2, <<<<0, "a", "x", {1}, 1>>, <<0, Sigma, Sigma, {3}, 1>>, <<0, Rho, "y", {0}, 1>>,
            <<0, Phi, Phi, {1}, 1>>, <<1, "c", Epsilon, {1}, 2>>, <<1, Sigma, "y", {2}, 2>>>>)
(* Phi arcs next to epsilons of the input *)
PhiInputs ==
  {With(f, 1, "a", "a", 0, 2) :
     f \in Fsts(2, <<<<0, "c", Epsilon, {1}, 1>>, <<0, "b", "b", {2}, 1>>, <<1, "b", Epsilon, {0}, 2>>>>)}
PhiMatches ==
  {With(f, 1, "a", "x", 0, 2) :
     f \in Fsts(2, <<<<0, Phi, Phi, {1}, 1>>, <<0, Epsilon, "z", {3}, 1>>, <<0, "b", "y", {0}, 2>>>>)}
(* Paths of arcs that say nothing *)
QuietInputs ==
  Fsts(2, <<<<0, Epsilon, Epsilon, {1}, 1>>, <<1, Epsilon, Epsilon, {2}, 2>>, <<1, "a", "a", {0}, 2>>,
            <<0, "b", Epsilon, {0}, 1>>>>)
QuietMatches ==
  Fsts(1, <<<<0, Epsilon, Epsilon, {4}, 1>>, <<0, "a", "x", {1}, 1>>, <<0, "a", Epsilon, {0}, 1>>>>)
(* Cycles, some of which cost nothing *)
CyclicInputs ==
  {With(f, 0, "b", "b", 1, 1) :
     f \in Fsts(2, <<<<0, "a", Epsilon, {0}, 0>>, <<1, "c", Epsilon, {0}, 0>>,
                     <<1, "b", "b", {0}, 2>>>>)}
CyclicMatches ==
  {With(f, 0, "b", "b", 1, 1) :
     f \in Fsts(1, <<<<0, Epsilon, "x", {0}, 0>>, <<1, Epsilon, Epsilon, {0}, 0>>,
                     <<1, "b", "z", {0, 2}, 1>>>>)}
(* A state with so many arcs that the queue has two levels to sift through, and
   states that are improved while they wait *)
FanInputs ==
  {With(With(With(With(With(With(f, 0, "a", "a", 5, 1), 0, "a", "a", 4, 2), 0, "a", "a", 6, 3),
                  0, "a", "a", 3, 4), 0, "a", "a", 7, 5), 4, "a", "a", 1, 3) :
     f \in Fsts(7, <<<<0, "a", "a", {2}, 6>>, <<6, "b", "b", {1, 9}, 7>>, <<4, "a", "a", {0, 2}, 1>>,
                     <<2, "a", "a", {0}, 1>>, <<1, "a", "a", {0}, 5>>, <<3, "a", "a", {3}, 7>>,
                     <<5, "a", "a", {1}, 7>>>>)}
AnyMatch == {With([start |-> 0, final |-> 0, arcs |-> [s \in {0} |-> <<>>]], 0, Sigma, Sigma, 0, 0)}
(* A start state that is final *)
FinalStartInputs == Fsts(0, <<<<0, "a", "a", {0, 1}, 0>>, <<0, "b", Epsilon, {0}, 0>>>>)

Saving(jobs) == {[fst |-> Composed(Prepared(job.c, job.opt)), opt |-> job.opt] : job \in jobs}

MCJobs == Saving(
  UNION {[c : Compositions(EpsilonInputs, Filters, EpsilonMatches),
          opt : Whole(BOOLEAN) \cup Best({0}, {TRUE}, BOOLEAN)],
         [c : Compositions(EpsilonInputs, {"combine"}, EpsilonMatches),
          opt : Best({0, 3}, {FALSE}, {FALSE})],
         [c : Compositions(QuietInputs, Filters, QuietMatches),
          opt : Best({0}, BOOLEAN, BOOLEAN) \cup Whole({FALSE})],
         [c : Compositions(SymbolInputs, Filters, SpecialMatches),
          opt : Best({0}, {TRUE}, {FALSE}) \cup Whole({FALSE})],
         [c : Compositions(PhiInputs, Filters, PhiMatches),
          opt : Best({0}, {TRUE}, {FALSE}) \cup Whole({FALSE})],
         [c : Compositions(CyclicInputs, Filters, CyclicMatches),
          opt : Best({0, 2}, {TRUE}, {FALSE}) \cup Whole({FALSE})],
         [c : Compositions(FinalStartInputs, Filters, AnyMatch),
          opt : Best({0}, {TRUE}, {FALSE}) \cup Whole({FALSE})],
         [c : Compositions(FanInputs, {"first"}, AnyMatch), opt : Best({0}, {FALSE}, {FALSE})]})

(* A state that is queued twice, in transducers whose arcs may differ in cost *)
QueuedTwiceInputs ==
  {With(With(With(With(With(With(With(f, 0, "a", "a", 0, 1), 0, "a", "a", 10, 2), 1, "a", "a", 5, 3),
             1, "a", "a", 8, 4), 1, "a", "a", 11, 3), 4, "a", "a", 2, 5), 4, "a", "a", 2, 8) :
     f \in Fsts(8, <<<<0, "a", "a", {1}, 7>>, <<2, "a", "a", {2}, 4>>, <<3, "a", "a", {4}, 2>>,
                     <<5, "a", "a", {1}, 8>>>>)}
LostPhiJobs == Saving(
  [c : Compositions(PhiInputs, {"first", "combine"}, PhiMatches), opt : Best({0}, {TRUE}, {FALSE})])
QueuedTwiceJobs == Saving(
  [c : Compositions(QueuedTwiceInputs, {"first"}, AnyMatch), opt : Best({0}, {FALSE}, {FALSE})])
(* A path that ends with an epsilon *)
LostEndJobs == Saving(
  [c : Compositions(EpsilonInputs, {"combine"}, EpsilonMatches), opt : Best({0}, {TRUE}, BOOLEAN)])
=============================================================================
