------------------------------ MODULE TrainingData ------------------------------
(***************************************************************************)
(* The training data of a DataObjectiveFunction, as the optimization code  *)
(* sees it: what getUpdates reports for each example, under each parameter *)
(* vector (src/sdl/Optimization/HypergraphCrfObjFct.hpp).  How an example  *)
(* is turned into feature expectations is not modelled: it is a constant.  *)
(*                                                                         *)
(* Gradients and function values are whole numbers of 1/NumExamples, so    *)
(* that the division by the number of examples under doScale_ is exact.    *)
(***************************************************************************)
EXTENDS Integers, Sequences

CONSTANTS
  Params,         (* the parameter vectors an optimizer may ask about      *)
  Features,       (* feature ids, the indices of the gradient array        *)
  NumExamples,    (* getNumExamples()                                      *)
  DoScale,        (* doScale_                                              *)
  ExampleUpdates, (* [w][e]: the (index, value) pairs example e reports    *)
  ExampleValue,   (* [w][e]: what example e adds to the function value     *)
  RegGradient,    (* [w]: the gradient of the regularizer                  *)
  RegValue        (* [w]: its part of the function value                   *)

Examples == 0 .. NumExamples - 1

UpdateRecord == [index : Features, value : Int]

ASSUME DataAssumption ==
  /\ NumExamples \in Nat \ {0}
  /\ DoScale \in BOOLEAN
  /\ ExampleUpdates \in [Params -> [Examples -> Seq(UpdateRecord)]]
  /\ ExampleValue \in [Params -> [Examples -> Int]]
  /\ RegGradient \in [Params -> [Features -> Int]]
  /\ RegValue \in [Params -> Int]

(* ScaledGradientUpdate and GradientUpdate: one unit is 1/NumExamples *)
Scaled(x) == IF DoScale THEN x ELSE x * NumExamples

(* f[0] + ... + f[n - 1], added up in that order *)
SumBelow(f, n) ==
  LET sum[k \in 0 .. n] == IF k = 0 THEN 0 ELSE sum[k - 1] + f[k - 1]
  IN  sum[n]

(* what `update` leaves in the gradient array before the first example:
   zeroGradients, then the regularizer, which is never scaled *)
StartGradient(w) == [f \in Features |-> RegGradient[w][f] * NumExamples]

(* An update is named <<w, e, k>>: the k-th pair example e reports under w *)
UpdateNames(w) ==
  UNION {{<<w, e, k>> : k \in 1 .. Len(ExampleUpdates[w][e])} : e \in Examples}

RecordOf(u) == ExampleUpdates[u[1]][u[2]][u[3]]

(* GradientUpdate::update and ScaledGradientUpdate::update on array g *)
Added(g, u) == [g EXCEPT ![RecordOf(u).index] = @ + Scaled(RecordOf(u).value)]
=============================================================================
