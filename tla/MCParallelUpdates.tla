--------------------------- MODULE MCParallelUpdates ---------------------------
(***************************************************************************)
(* Instances of ParallelUpdates: three examples with one, two and no       *)
(* updates, two features, two parameter vectors.                           *)
(***************************************************************************)
EXTENDS ParallelUpdates

Pair(f, v) == [index |-> f, value |-> v]

MCExampleUpdates ==
  [w \in Params |->
     [e \in Examples |->
        CASE e = 0 -> <<Pair("f", 1)>>
          [] e = 1 -> <<Pair("g", -w), Pair("f", 2)>>
          [] OTHER -> IF w = 1 THEN <<>> ELSE <<Pair("g", 4)>>]]

MCExampleValue == [w \in Params |-> [e \in Examples |-> w - 2 * e]]

MCRegGradient == [w \in Params |-> [f \in Features |-> IF f = "f" THEN w ELSE 0]]

MCRegValue == [w \in Params |-> w * w]
=============================================================================
