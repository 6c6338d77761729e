------------------------------ MODULE SaveFst ------------------------------
(* Hypergraph/fs/SaveFst.hpp: saveFst puts a transducer in a hypergraph.  For
   the one best path it runs LazyBest; otherwise it visits the transducer depth
   first.  The calls of outStateFor that have not returned are the stack: each
   is [state, id, arcs, hasNoArcs], with the arcs it has yet to add. *)
EXTENDS LazyBest

VARIABLES
  stack,
  stateMap      \* composed states to states of the hypergraph

save == <<stack, stateMap>>
vars == <<input, phase, search, outHg, save>>

Init == LazyInit /\ stack = <<>> /\ stateMap = <<>>

Call(s) ==
  [state |-> s, id |-> outHg.size, arcs |-> fst.arcs[s], hasNoArcs |-> fst.arcs[s] = <<>>]

StartSave ==
  /\ phase = "start"
  /\ ~opt.lazy
  /\ phase' = "save"
  /\ stack' = <<Call(fst.start)>>
  /\ stateMap' = Inserted(<<>>, fst.start, 0)
  /\ outHg' = AddState(outHg)
  /\ UNCHANGED <<input, search>>

Caller == stack[Len(stack)]
IsSaving == phase = "save" /\ stack # <<>>

IsNewOnStack(s) == s \notin {stack[i].state : i \in DOMAIN stack}       \* mutant
IsNew(s) == s \notin DOMAIN stateMap

(* The state the next arc leads to is new: it is added and visited before the
   arc is. *)
Visit ==
  /\ IsSaving
  /\ Caller.arcs # <<>>
  /\ IsNew(Caller.arcs[1].dst)
  /\ stack' = Append(stack, Call(Caller.arcs[1].dst))
  /\ stateMap' = Inserted(stateMap, Caller.arcs[1].dst, outHg.size)
  /\ outHg' = AddState(outHg)
  /\ UNCHANGED <<input, phase, search>>

AddNextArc ==
  /\ IsSaving
  /\ Caller.arcs # <<>>
  /\ LET arc == Caller.arcs[1]
     IN  /\ ~IsNew(arc.dst)
         /\ outHg' = AddArc(outHg, Caller.id, stateMap[arc.dst],
                          IF opt.projectOutput THEN arc.out ELSE arc.in, arc.out, arc.cost)
         /\ stack' = [stack EXCEPT ![Len(stack)].arcs = Tail(@)]
  /\ UNCHANGED <<input, phase, search, stateMap>>

(* The first final state to return is the final state of the hypergraph if no
   arc leaves it, and otherwise an epsilon leads from it to one made for the
   purpose; so it does from every later one. *)
WithFinalNotAdded(hg, s, hasNoArcs) ==                                \* mutant
  IF hg.final # NoState THEN AddArc(hg, s, hg.final, Epsilon, Epsilon, 0)
  ELSE IF hasNoArcs THEN [hg EXCEPT !.final = s]
  ELSE AddArc([hg EXCEPT !.final = hg.size], s, hg.size, Epsilon, Epsilon, 0)
WithFinal(hg, s, hasNoArcs) ==
  IF hg.final # NoState THEN AddArc(hg, s, hg.final, Epsilon, Epsilon, 0)
  ELSE IF hasNoArcs THEN [hg EXCEPT !.final = s]
  ELSE AddArc([AddState(hg) EXCEPT !.final = hg.size], s, hg.size, Epsilon, Epsilon, 0)

Return ==
  /\ IsSaving
  /\ Caller.arcs = <<>>
  /\ outHg' = IF Caller.state \in fst.finals THEN WithFinal(outHg, Caller.id, Caller.hasNoArcs) ELSE outHg
  /\ stack' = Front(stack)
  /\ UNCHANGED <<input, phase, search, stateMap>>

(* The start state is set when the first call has returned. *)
EndSave ==
  /\ phase = "save"
  /\ stack = <<>>
  /\ outHg' = [outHg EXCEPT !.start = stateMap[fst.start]]
  /\ phase' = "done"
  /\ UNCHANGED <<input, search, save>>

Next ==
  \/ LazyNext /\ UNCHANGED save
  \/ StartSave \/ Visit \/ AddNextArc \/ Return \/ EndSave

(* One thread runs saveFst to its end. *)
Spec == Init /\ [][Next]_vars /\ WF_vars(Next)

-----------------------------------------------------------------------------
(* Properties *)

(* The types of the search and of the hypergraph made, whose arcs have their
   ends in it *)
TypeOK ==
  /\ phase \in {"start", "search", "save", "done"}
  /\ DOMAIN best \subseteq fst.states
  /\ \A s \in DOMAIN best : best[s].distance \in Int /\ best[s].key \in Int
  /\ Range(queue.data) \subseteq DOMAIN best
  /\ DOMAIN stateMap \subseteq fst.states
  /\ \A i \in DOMAIN stack : stack[i].state \in DOMAIN stateMap
  /\ outHg.size \in Nat
  /\ {outHg.start, outHg.final} \subseteq {NoState} \cup 0 .. outHg.size - 1
  /\ \A i \in DOMAIN outHg.arcs : {outHg.arcs[i].tail, outHg.arcs[i].head} \subseteq 0 .. outHg.size - 1

(* The states and arcs of the composition, with those of its arcs that the calls
   on the stack have yet to add left out *)
GraphArcs ==
  UNION {{[from |-> s, by |-> k, to |-> fst.arcs[s][k].dst] : k \in DOMAIN fst.arcs[s]}
           : s \in fst.states}
IsAdded(a) ==
  /\ a.from \in DOMAIN stateMap
  /\ \A i \in DOMAIN stack :
       stack[i].state = a.from => a.by <= Len(fst.arcs[a.from]) - Len(stack[i].arcs)

Copy == INSTANCE GraphCopy WITH
          start <- fst.start,
          arcs <- GraphArcs,
          ids <- stateMap,
          added <- {a \in GraphArcs : IsAdded(a)},
          isDone <- phase = "done" /\ ~opt.lazy

(* Saving depth first copies the part of the composition that the start state
   leads to: each state gets one number of its own and each arc is added once,
   between states that have theirs, however the calls nest.
   (SaveFst.hpp, outStateFor) *)
RefinesGraphCopy == Copy!Spec

(* saveFst ends, though transducers have cycles and cycles may cost nothing. *)
Termination == <>(phase = "done")
=============================================================================
