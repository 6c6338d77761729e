----------------------------- MODULE GraphCopy -----------------------------
(* What saving a composition promises, without saying in which order it is
   done: the states that the start state leads to are numbered, and each of their
   arcs is added once, after both its ends have their numbers.  The arcs are
   [from, by, to], where "by" tells the arcs between two states apart. *)
EXTENDS Naturals

VARIABLES
  start, arcs,  \* the graph: a state and the set of the arcs
  ids,          \* the numbers given so far, by state
  added,        \* the arcs added
  isDone

graph == <<start, arcs>>
vars == <<graph, ids, added, isDone>>

Numbered == DOMAIN ids
ArcsOfNumbered == {a \in arcs : a.from \in Numbered}

Init ==
  /\ ids = <<>>
  /\ added = {}
  /\ isDone = FALSE

(* A state gets a number that no state has. *)
Number(s) ==
  /\ ~isDone
  /\ s \notin Numbered
  /\ s = start \/ \E a \in ArcsOfNumbered : a.to = s
  /\ DOMAIN ids' = Numbered \cup {s}
  /\ ids'[s] \in Nat
  /\ \A t \in Numbered : ids'[t] = ids[t] /\ ids'[t] # ids'[s]
  /\ UNCHANGED <<graph, added, isDone>>

Add(a) ==
  /\ ~isDone
  /\ a \in ArcsOfNumbered \ added
  /\ a.to \in Numbered
  /\ added' = added \cup {a}
  /\ UNCHANGED <<graph, ids, isDone>>

Finish ==
  /\ start \in Numbered
  /\ ArcsOfNumbered \subseteq added
  /\ isDone' = TRUE
  /\ UNCHANGED <<graph, ids, added>>

Next ==
  \/ \E s \in {start} \cup {a.to : a \in arcs} : Number(s)
  \/ \E a \in arcs : Add(a)
  \/ Finish

Spec == Init /\ [][Next]_vars

-----------------------------------------------------------------------------
(* What follows *)

(* A set of states that no arc leads out of *)
IsClosed(states) == \A a \in arcs : a.from \in states => a.to \in states

(* No two states have the same number. *)
NumbersDiffer == \A s, t \in Numbered : ids[s] = ids[t] => s = t

(* No arc is added before both of its ends are. *)
EndsAreNumbered == \A a \in added : a \in arcs /\ a.from \in Numbered /\ a.to \in Numbered

(* At the end the numbered states are the least closed set of states that has
   the start state in it, and all arcs between them have been added. *)
CopyIsReachablePart ==
  isDone =>
    /\ start \in Numbered
    /\ IsClosed(Numbered)
    /\ \A states : start \in states /\ IsClosed(states) => Numbered \subseteq states
    /\ added = ArcsOfNumbered

(* A number, once given, stays. *)
NumbersStay == [][\A s \in Numbered : s \in DOMAIN ids' /\ ids'[s] = ids[s]]_vars
=============================================================================
