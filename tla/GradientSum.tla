------------------------------- MODULE GradientSum -------------------------------
(***************************************************************************)
(* What DataObjectiveFunction::update promises its caller, whatever the    *)
(* number of threads (src/sdl/Optimization/ObjectiveFunction.hpp): the     *)
(* gradient array starts from the regularizer's gradient for the given     *)
(* parameters, receives every update of every training example exactly     *)
(* once, in any order, and the call returns only when none is missing.     *)
(***************************************************************************)
EXTENDS TrainingData

VARIABLES
  busy,      (* a call of update() is in progress                          *)
  params,    (* the parameters of the current or of the last call          *)
  applied,   (* the updates added to the gradient array so far             *)
  gradient   (* the caller's gradient array                                *)

vars == <<busy, params, applied, gradient>>

Init ==
  /\ busy = FALSE
  /\ params \in Params
  /\ applied = {}
  /\ gradient = StartGradient(params)

Call(w) ==
  /\ ~busy
  /\ busy' = TRUE
  /\ params' = w
  /\ applied' = {}
  /\ gradient' = StartGradient(w)

Apply(u) ==
  /\ busy
  /\ u \notin applied
  /\ applied' = applied \cup {u}
  /\ gradient' = Added(gradient, u)
  /\ UNCHANGED <<busy, params>>

Return ==
  /\ busy
  /\ applied = UpdateNames(params)
  /\ busy' = FALSE
  /\ UNCHANGED <<params, applied, gradient>>

Next ==
  \/ \E w \in Params : Call(w)
  \/ \E u \in UpdateNames(params) : Apply(u)
  \/ Return

Spec == Init /\ [][Next]_vars
=============================================================================
