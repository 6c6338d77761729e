------------------------- MODULE MutableHypergraph -------------------------
(***************************************************************************)
(* The arc indexes of src/sdl/Hypergraph/MutableHypergraph.hpp.  A mutable *)
(* hypergraph owns its arcs and stores pointers to them per head state, per*)
(* first tail, or per tail; calls convert one index into another in place, *)
(* delete arcs through one index and must remove them from the other, or   *)
(* take all arcs out and put them back under other states.                 *)
(*                                                                         *)
(* An adjacency list is the number of times each pointer is in it: nothing *)
(* here depends on its order.  A list that was never resized is empty.     *)
(* Labels matter only for whether the hypergraph is taken for an FSM, whose*)
(* arcs forArcs visits in a way of its own.  They are constant: clients set*)
(* them before they add the arcs.  Start and final state and the other     *)
(* computed properties (kGraph, kSortedOutArcs) are not part of this       *)
(* module; a hypergraph with a final state and no start state is never     *)
(* taken for an FSM, as if it had no Terminals.                            *)
(***************************************************************************)
EXTENDS Integers, FiniteSets, Sequences, Functions

CONSTANTS
  ArcIds,                (* addresses of arcs, a set of naturals           *)
  MaxStates,             (* bound of the model on numStates_               *)
  Shapes,                (* [head, tails] records clients build arcs with  *)
  Terminals,             (* states whose input label is a terminal         *)
  Lexical,               (* states with a label that is no special symbol  *)
  HasVocabulary,         (* getVocabulary() is set                         *)
  kAdjLinearSearchLimit  (* 16 in the code                                 *)

States == 0 .. MaxStates - 1
kNoState == MaxStates

ASSUME HypergraphAssumption ==
  /\ ArcIds \subseteq Nat
  /\ MaxStates \in Nat
  /\ Shapes \subseteq [head : States, tails : Seq(States) \ {<<>>}]
  /\ Terminals \subseteq States /\ Lexical \subseteq States
  /\ HasVocabulary \in BOOLEAN
  /\ kAdjLinearSearchLimit \in Nat

VARIABLES
  numStates,        (* numStates_                                          *)
  properties,       (* the bits that say which indexes are stored          *)
  shape,            (* the arcs that are allocated, each with head_, tails_*)
  inArcsPerState,   (* [s][a]: how often a is in the list of s             *)
  outArcsPerState,
  kFsm,             (* "yes" or "no" once fsmChecked, else "unchecked"     *)
  deletedTwice      (* `delete` was called on an arc already deleted       *)

indexes == <<inArcsPerState, outArcsPerState>>
vars == <<numStates, properties, shape, indexes, kFsm, deletedTwice>>

heap == DOMAIN shape
storesInArcs == "kStoreInArcs" \in properties
storesFirstTailOutArcs == "kStoreFirstTailOutArcs" \in properties
storesOutArcs == properties \cap {"kStoreOutArcs", "kStoreFirstTailOutArcs"} # {}

Indexes == {{"kStoreInArcs"}, {"kStoreOutArcs"}, {"kStoreFirstTailOutArcs"},
            {"kStoreInArcs", "kStoreOutArcs"},
            {"kStoreInArcs", "kStoreFirstTailOutArcs"}}

NoArcs == [s \in States |-> [a \in ArcIds |-> 0]]

StatesOf(sh) == {sh.head} \cup {sh.tails[i] : i \in DOMAIN sh.tails}

-----------------------------------------------------------------------------
(* Visiting arcs and building indexes *)

(* how often the lists of an index hold a, and how long the list of s is *)
TimesIn(adj, a) == Cardinality(UNION {{s} \X (1 .. adj[s][a]) : s \in States})
Length(adj, s) == Cardinality(UNION {{a} \X (1 .. adj[s][a]) : a \in ArcIds})

(* the lists of the states in S, and of no other *)
ListsOf(S, adj) == [s \in States |-> IF s \in S THEN adj[s] ELSE NoArcs[s]]

(* the pointers in the list of s that stay when only arcs whose first tail is s
   are looked at; an arc may have been edited since it was put there *)
NothingNarrowed(sh) == outArcsPerState                              \* mutant
NarrowedToFirstTail(sh) ==
  [s \in States |->
     [a \in ArcIds |->
        IF a \in DOMAIN sh /\ sh[a].tails[1] = s THEN outArcsPerState[s][a] ELSE 0]]

IsFsmArc(arc) ==
  /\ arc.head \notin Terminals
  /\ Len(arc.tails) = 2
  /\ arc.tails[1] \notin Terminals
  /\ arc.tails[2] \in Terminals

(* computeFsmGraphProperty, and isFsm: the answer is kept until arcs are added *)
AreFsmArcs(sh) ==
  \A a \in DOMAIN sh :
    TimesIn(IF storesInArcs THEN inArcsPerState ELSE outArcsPerState, a) > 0 => IsFsmArc(sh[a])
IsFsm(sh) == IF kFsm = "unchecked" THEN AreFsmArcs(sh) ELSE kFsm = "yes"

(* forArcsFsm: the out-lists of the states without a lexical label, or, where
   there is no vocabulary to ask, the arcs in the list of their first tail *)
AllLists(sh) == outArcsPerState                                     \* mutant
FsmLists(sh) ==
  IF HasVocabulary THEN ListsOf(States \ Lexical, outArcsPerState) ELSE NarrowedToFirstTail(sh)

(* forArcsImpl, forArcs and fetchArcs: how often each arc is visited if the
   arcs have shapes sh.  With kStoreOutArcs alone lists are read up to size(),
   and unless the hypergraph is taken for an FSM the visitor goes through a set
   of pointers. *)
AtMostOnce(visits) == [a \in ArcIds |-> IF visits[a] > 0 THEN 1 ELSE 0]
TimesInAny(adj) == [a \in ArcIds |-> TimesIn(adj, a)]
Sized(adj) == ListsOf(0 .. numStates - 1, adj)

VisitsOf(sh) ==
  IF storesInArcs THEN TimesInAny(inArcsPerState)
  ELSE IF storesFirstTailOutArcs THEN TimesInAny(outArcsPerState)
  ELSE IF IsFsm(sh) THEN TimesInAny(Sized(FsmLists(sh)))
  ELSE AtMostOnce(TimesInAny(Sized(outArcsPerState)))

Visits == VisitsOf(shape)
Visited == {a \in ArcIds : Visits[a] > 0}

(* forArcsSafe: the set of pointers is used for any FSM as well *)
SafeVisits ==
  IF storesInArcs THEN TimesInAny(Sized(inArcsPerState))
  ELSE AtMostOnce(TimesInAny(Sized(outArcsPerState)))

(* how often the list of s in an index should hold arc *)
Times(index, s, arc) ==
  CASE index = "kStoreInArcs" -> IF arc.head = s THEN 1 ELSE 0
    [] index = "kStoreFirstTailOutArcs" -> IF arc.tails[1] = s THEN 1 ELSE 0
    [] index = "kStoreOutArcs" -> Cardinality({i \in DOMAIN arc.tails : arc.tails[i] = s})

(* what addArcIn, addArcFirstTailOut and addArcOut make of arcs of shapes sh,
   each added visits[a] times; a pointer to a deleted arc is not followed *)
IndexBy(index, sh, visits) ==
  [s \in States |->
     [a \in ArcIds |->
        IF a \in DOMAIN sh THEN visits[a] * Times(index, s, sh[a]) ELSE 0]]

HeadIndex(sh, visits) == IndexBy("kStoreInArcs", sh, visits)
FirstTailIndex(sh, visits) == IndexBy("kStoreFirstTailOutArcs", sh, visits)
TailIndex(sh, visits) == IndexBy("kStoreOutArcs", sh, visits)

InIndex(sh, visits) == IF storesInArcs THEN HeadIndex(sh, visits) ELSE NoArcs
OutIndex(sh, visits) ==
  IF storesFirstTailOutArcs THEN FirstTailIndex(sh, visits)
  ELSE IF storesOutArcs THEN TailIndex(sh, visits)
  ELSE NoArcs

(* releaseArcs or clearArcsPer, then addArc for every arc visited *)
Reindexed(sh, visits) ==
  /\ inArcsPerState' = InIndex(sh, visits)
  /\ outArcsPerState' = OutIndex(sh, visits)

-----------------------------------------------------------------------------
(* Adding states and arcs *)

Init ==
  /\ numStates = 0
  /\ properties \in Indexes
  /\ shape = <<>>
  /\ inArcsPerState = NoArcs
  /\ outArcsPerState = NoArcs
  /\ kFsm = "yes"
  /\ deletedTwice = FALSE

(* properties(), which nearly every call begins with *)
CheckFsm ==
  /\ kFsm = "unchecked"
  /\ kFsm' = IF AreFsmArcs(shape) THEN "yes" ELSE "no"
  /\ UNCHANGED <<numStates, properties, shape, indexes, deletedTwice>>

AddState ==
  /\ numStates < MaxStates
  /\ numStates' = numStates + 1
  /\ UNCHANGED <<properties, shape, indexes, kFsm, deletedTwice>>

(* addArc, and addArcCreatingStates when the arc is of states to come.  The
   allocator hands out the least free address. *)
AddArc(sh) ==
  /\ ArcIds \ heap # {}
  /\ LET a == CHOOSE b \in ArcIds \ heap : \A c \in ArcIds \ heap : b <= c
         added == [b \in ArcIds |-> IF b = a THEN 1 ELSE 0]
         arcs == [b \in {a} |-> sh]
         With(adj, more) ==
           [s \in States |-> [b \in ArcIds |-> adj[s][b] + more[s][b]]]
     IN  /\ shape' = [b \in heap \cup {a} |-> IF b = a THEN sh ELSE shape[b]]
         /\ inArcsPerState' = With(inArcsPerState, InIndex(arcs, added))
         /\ outArcsPerState' = With(outArcsPerState, OutIndex(arcs, added))
  /\ \E n \in numStates .. MaxStates :
       /\ \A s \in StatesOf(sh) : s < n
       /\ n = numStates \/ n - 1 \in StatesOf(sh)
       /\ numStates' = n
  /\ kFsm' = "unchecked"
  /\ UNCHANGED <<properties, deletedTwice>>

(* the client appends a tail to an arc and calls addedTail and, as the arc has
   another structure, notifyArcsModified *)
AddedTail(a, t) ==
  /\ a \in Visited
  /\ t < numStates
  /\ [shape[a] EXCEPT !.tails = Append(@, t)] \in Shapes
  /\ shape' = [shape EXCEPT ![a].tails = Append(@, t)]
  /\ outArcsPerState' =
       IF "kStoreOutArcs" \in properties
       THEN [outArcsPerState EXCEPT ![t][a] = @ + 1]
       ELSE outArcsPerState
  /\ kFsm' = "unchecked"
  /\ UNCHANGED <<numStates, properties, inArcsPerState, deletedTwice>>

-----------------------------------------------------------------------------
(* Converting indexes.  A call that asks for isFsm() is CheckFsm, then the call. *)

ForceInArcs ==
  /\ ~storesInArcs
  /\ inArcsPerState' = HeadIndex(shape, Visits)
  /\ properties' = properties \cup {"kStoreInArcs"}
  /\ UNCHANGED <<numStates, shape, outArcsPerState, kFsm, deletedTwice>>

(* buildOut<AddOut>: arcs are fetched before the lists they may come from are
   emptied *)
BuildAfterReinit == TailIndex(shape,                                \* mutant
  [a \in ArcIds |-> IF storesInArcs THEN Visits[a] ELSE 0])
BuildOut == TailIndex(shape, Visits)

ForceOutArcs ==
  /\ "kStoreOutArcs" \notin properties
  /\ outArcsPerState' = BuildOut
  /\ properties' = (properties \cup {"kStoreOutArcs"}) \ {"kStoreFirstTailOutArcs"}
  /\ UNCHANGED <<numStates, shape, inArcsPerState, kFsm, deletedTwice>>

BothOutBits == properties \cup {"kStoreFirstTailOutArcs"}             \* mutant
FirstTailInsteadOfOut ==
  (properties \cup {"kStoreFirstTailOutArcs"}) \ {"kStoreOutArcs"}

FirstTailOutArcs ==
  IF storesOutArcs THEN NarrowedToFirstTail(shape) ELSE FirstTailIndex(shape, Visits)

ForceFirstTailOutArcs ==
  /\ ~storesFirstTailOutArcs
  /\ outArcsPerState' = FirstTailOutArcs
  /\ properties' = FirstTailInsteadOfOut
  /\ UNCHANGED <<numStates, shape, inArcsPerState, kFsm, deletedTwice>>

(* clients keep at least one index *)
RemoveInArcs ==
  /\ storesInArcs /\ storesOutArcs
  /\ inArcsPerState' = NoArcs
  /\ properties' = properties \ {"kStoreInArcs"}
  /\ UNCHANGED <<numStates, shape, outArcsPerState, kFsm, deletedTwice>>

RemoveOutArcs ==
  /\ storesInArcs /\ storesOutArcs
  /\ outArcsPerState' = NoArcs
  /\ properties' = {"kStoreInArcs"}
  /\ UNCHANGED <<numStates, shape, inArcsPerState, kFsm, deletedTwice>>

(* forcePropertiesOnOff on a hypergraph with a final state (on others it is
   Clear).  Asked for both kinds of out-arcs it throws: after it has replaced
   the kind there is, if any, and before it removes anything.  Clients keep at
   least one index; bits in off that are not set change nothing. *)
OutBits == {"kStoreOutArcs", "kStoreFirstTailOutArcs"}
IndexBits == {"kStoreInArcs"} \cup OutBits

Added(on) ==
  LET out == (on \ properties) \cap OutBits
  IN  (IF out \in {{"kStoreOutArcs"}, {"kStoreFirstTailOutArcs"}}
       THEN (properties \ OutBits) \cup out ELSE properties)
      \cup (on \cap {"kStoreInArcs"})

ForcePropertiesOnOff(on, off) ==
  LET add == Added(on) \ properties
      remove == IF OutBits \subseteq on THEN {} ELSE off \cap Added(on)
  IN  /\ on \cap off = {}
      /\ properties' = Added(on) \ remove
      /\ properties' # {}
      /\ inArcsPerState' =
           IF "kStoreInArcs" \in remove THEN NoArcs
           ELSE IF "kStoreInArcs" \in add THEN HeadIndex(shape, Visits)
           ELSE inArcsPerState
      /\ outArcsPerState' =
           IF remove \cap OutBits # {} THEN NoArcs
           ELSE IF "kStoreOutArcs" \in add THEN BuildOut
           ELSE IF "kStoreFirstTailOutArcs" \in add THEN FirstTailOutArcs
           ELSE outArcsPerState
      /\ UNCHANGED <<numStates, shape, kFsm, deletedTwice>>

-----------------------------------------------------------------------------
(* Deleting the arcs in one list *)

(* removeDeletedArc: the first occurrence only *)
RemoveOnce(list, gone) ==
  [a \in ArcIds |-> IF a \in gone /\ list[a] > 0 THEN list[a] - 1 ELSE list[a]]
(* removeDeletedArcs *)
RemoveAll(list, gone) == [a \in ArcIds |-> IF a \in gone THEN 0 ELSE list[a]]

(* The lists adj of an index after arcs gone have been deleted.  The states of
   long lists are collected in interested_, and removeDeletedArcsFromInterested
   goes through interestedStates_, which is always empty. *)
NotUnlinked(index, adj, gone) == adj                                \* mutant
Unlinked(index, adj, gone) ==
  [s \in States |->
     IF Length(adj, s) <= kAdjLinearSearchLimit
     THEN RemoveOnce(adj[s], {a \in gone \cap heap : Times(index, s, shape[a]) = 1})
     ELSE adj[s]]

(* `delete a` for every pointer of a list *)
ForgetAllIn(list) == UNCHANGED <<shape, deletedTwice>>              \* mutant
DeleteAllIn(list) ==
  LET gone == {a \in ArcIds : list[a] > 0}
  IN  /\ shape' = Restrict(shape, heap \ gone)
      /\ deletedTwice' = (deletedTwice \/ \E a \in gone : a \notin heap \/ list[a] > 1)

ListCleared(adj, s) == [adj EXCEPT ![s] = [a \in ArcIds |-> 0]]

DeleteInArcsImpl(s) ==
  LET gone == {a \in ArcIds : inArcsPerState[s][a] > 0}
  IN  /\ DeleteAllIn(inArcsPerState[s])
      /\ inArcsPerState' = ListCleared(inArcsPerState, s)
      /\ outArcsPerState' =
           IF storesFirstTailOutArcs THEN Unlinked("kStoreFirstTailOutArcs", outArcsPerState, gone)
           ELSE [t \in States |-> RemoveAll(outArcsPerState[t], gone)]

DeleteOutArcsImpl(s) ==
  LET gone == {a \in ArcIds : outArcsPerState[s][a] > 0}
  IN  /\ DeleteAllIn(outArcsPerState[s])
      /\ outArcsPerState' = ListCleared(outArcsPerState, s)
      /\ inArcsPerState' =
           IF storesInArcs THEN Unlinked("kStoreInArcs", inArcsPerState, gone)
           ELSE inArcsPerState

(* deleteOutArcs removes no pointer from the lists of other tails: with
   kStoreOutArcs it is for clients whose arcs out of s have no other tail *)
NoOtherTail(s) ==
  "kStoreOutArcs" \in properties =>
    \A a \in heap : outArcsPerState[s][a] > 0 =>
      \A i \in DOMAIN shape[a].tails : shape[a].tails[i] = s

DeleteInArcs(s) ==
  /\ DeleteInArcsImpl(s)
  /\ UNCHANGED <<numStates, properties, kFsm>>

DeleteOutArcs(s) ==
  /\ NoOtherTail(s)
  /\ DeleteOutArcsImpl(s)
  /\ UNCHANGED <<numStates, properties, kFsm>>

(* assert(!storesInArcs()) if out-arcs are stored.  The client leaves no arc
   that mentions the state. *)
DeleteState(s) ==
  /\ s < numStates
  /\ ~(storesInArcs /\ storesOutArcs)
  /\ IF storesOutArcs THEN NoOtherTail(s) /\ DeleteOutArcsImpl(s)
     ELSE DeleteInArcsImpl(s)
  /\ \A a \in DOMAIN shape' : s \notin StatesOf(shape[a])
  /\ numStates' = IF s = numStates - 1 THEN s ELSE numStates
  /\ UNCHANGED <<properties, kFsm>>

(* clear(p): deleteArcs, then empty lists *)
Clear(p) ==
  /\ numStates' = 0
  /\ properties' = p
  /\ DeleteAllIn(SafeVisits)
  /\ inArcsPerState' = NoArcs
  /\ outArcsPerState' = NoArcs
  /\ kFsm' = "yes"

-----------------------------------------------------------------------------
(* Restricting and renumbering *)

Kept(visits, kept) == [a \in ArcIds |-> IF a \in kept THEN visits[a] ELSE 0]

(* finishDeleted: the arcs lost may be all those that were no FSM arcs *)
Rechecked(lost) == IF lost # {} /\ kFsm # "yes" THEN "unchecked" ELSE kFsm

(* restrict(keep): with in-arcs their lists are filtered and the out-arcs
   rebuilt from them; without, the out-arcs are built again from the arcs
   kept, and those not kept are not deleted *)
RebuildOutArcs(visits) == OutIndex(shape, visits)

RestrictArcs(kept) ==
  LET lost == Visited \ kept
  IN  /\ UNCHANGED <<numStates, properties>>
      /\ kFsm' = Rechecked(lost)
      /\ IF storesInArcs
         THEN /\ DeleteAllIn(Kept(Visits, lost))
              /\ inArcsPerState' = [s \in States |-> RemoveAll(inArcsPerState[s], lost)]
         ELSE UNCHANGED <<shape, deletedTwice, inArcsPerState>>
      /\ outArcsPerState' = RebuildOutArcs(Kept(Visits, kept))

HeadImage(x, sh) == [sh EXCEPT !.head = x[@]]                       \* mutant
Image(x, sh) ==
  [head |-> x[sh.head], tails |-> [i \in DOMAIN sh.tails |-> x[sh.tails[i]]]]

(* The states of an arc that compressNumStates is sure to count: maxTail asks
   which states have out-arcs if any are stored, so with first-tail lists it
   sees first tails only. *)
Counted(sh) == IF storesFirstTailOutArcs THEN {sh.head, sh.tails[1]} ELSE StatesOf(sh)

(* x takes no state to one with another label *)
KeepsLabels(x) ==
  \A s \in States : x[s] # kNoState =>
    /\ s \in Terminals <=> x[s] \in Terminals
    /\ s \in Lexical <=> x[s] \in Lexical

(* restrict(x, keep): all arcs are fetched, relabelled or deleted, and added
   again; an arc with a state that x maps nowhere is deleted.  Labels, start,
   final and an x that adds states may leave more states than arcs mention; where
   else x maps a state of no arc that is kept makes no difference.  An arc that
   was fetched twice would be relabelled twice: that is not modelled. *)
Relabel(x, keep) ==
  LET kept == {a \in keep : \A s \in StatesOf(shape[a]) : x[s] # kNoState}
      relabelled == [a \in (heap \ Visited) \cup kept |->
                       IF a \in kept THEN Image(x, shape[a]) ELSE shape[a]]
  IN  /\ KeepsLabels(x)
      /\ \A s \in States : x[s] # kNoState => \E a \in kept : s \in StatesOf(shape[a])
      /\ \A a \in Visited : Visits[a] = 1
      /\ \A a \in kept : relabelled[a] \in Shapes
      /\ shape' = relabelled
      /\ Reindexed(relabelled, Kept(Visits, kept))
      /\ \E n \in 0 .. MaxStates :
           /\ \A a \in kept : \A s \in Counted(relabelled[a]) : s < n
           /\ numStates' = n
      /\ kFsm' \in {"unchecked", Rechecked(Visited \ kept)}
      /\ UNCHANGED <<properties, deletedTwice>>

(* the client edits an arc in place and calls rebuildArcAdjacencies; reverseGraph,
   which does, has asked isGraph() before *)
RebuildArcAdjacencies(a, sh) ==
  /\ kFsm # "unchecked"
  /\ a \in Visited
  /\ \A s \in StatesOf(sh) : s < numStates
  /\ LET edited == [shape EXCEPT ![a] = sh]
     IN  shape' = edited /\ Reindexed(edited, VisitsOf(edited))
  /\ kFsm' = "unchecked"
  /\ UNCHANGED <<numStates, properties, deletedTwice>>

-----------------------------------------------------------------------------
Convert ==
  \/ ForceInArcs \/ ForceOutArcs \/ ForceFirstTailOutArcs \/ RemoveInArcs \/ RemoveOutArcs
  \/ \E on \in SUBSET IndexBits : \E off \in SUBSET (properties \ on) : ForcePropertiesOnOff(on, off)

Next ==
  \/ CheckFsm
  \/ AddState
  \/ \E sh \in Shapes : AddArc(sh)
  \/ \E a \in ArcIds, t \in States : AddedTail(a, t)
  \/ Convert
  \/ \E s \in States : DeleteInArcs(s) \/ DeleteOutArcs(s) \/ DeleteState(s)
  \/ \E p \in Indexes : Clear(p)
  \/ \E kept \in SUBSET Visited : RestrictArcs(kept)
  \/ \E x \in [States -> States \cup {kNoState}], keep \in SUBSET Visited : Relabel(x, keep)
  \/ \E a \in ArcIds, sh \in Shapes : RebuildArcAdjacencies(a, sh)

Spec == Init /\ [][Next]_vars

-----------------------------------------------------------------------------
(* Properties *)

Counts == [States -> [ArcIds -> Nat]]

TypeOK ==
  /\ numStates \in 0 .. MaxStates
  /\ properties \in Indexes
  /\ heap \subseteq ArcIds
  /\ \A a \in heap : shape[a] \in Shapes
  /\ inArcsPerState \in Counts
  /\ outArcsPerState \in Counts
  /\ kFsm \in {"yes", "no", "unchecked"}
  /\ deletedTwice \in BOOLEAN

(* No list holds a pointer to an arc that has been deleted, and none is
   deleted twice ("remove (already deleted) arc pointers"). *)
NoDanglingArcs ==
  /\ ~deletedTwice
  /\ \A a \in ArcIds \ heap, s \in States :
       inArcsPerState[s][a] = 0 /\ outArcsPerState[s][a] = 0

(* However the indexes were built, converted and edited, they say the same:
   each holds the hypergraph's arcs under the states they have now, and the
   head and first tail of an arc are states that size() counts. *)
IndexesAgree ==
  \A a \in Visited \cap heap, s \in States :
    /\ storesInArcs => inArcsPerState[s][a] = Times("kStoreInArcs", s, shape[a])
    /\ \A index \in properties \ {"kStoreInArcs"} :
         outArcsPerState[s][a] = Times(index, s, shape[a])
    /\ s >= numStates => s \notin {shape[a].head, shape[a].tails[1]}

(* "forArcs(v) - call v(a) for all Arc *a, exactly once for each a": that it is
   never twice, on whichever index.  It depends on the labels of FSM arcs:
   their first tail has no lexical label, and their second one has. *)
ForArcsVisitsOnce == \A a \in ArcIds : Visits[a] <= 1

(* While in-arcs are stored no call loses an arc without deleting it. *)
InArcsNeverLeak ==
  [][storesInArcs => (heap \ Visited)' \subseteq heap \ Visited]_vars

(* Choosing another index leaves the arcs alone; deleteInArcs where in-arcs are
   stored, deleteOutArcs where first-tail out-arcs are, and restrict by arcs
   take from both indexes the arcs they name and no other; and every arc is
   still there after rebuildArcAdjacencies.  It says nothing of other calls. *)
ArcsChangeAsAsked ==
  [][/\ Visited' # Visited \/ shape' # shape => ~Convert
     /\ \A s \in States :
          /\ DeleteInArcs(s) /\ storesInArcs =>
               Visited' = {a \in Visited : shape[a].head # s}
          /\ DeleteOutArcs(s) /\ storesFirstTailOutArcs =>
               Visited' = {a \in Visited : shape[a].tails[1] # s}
     /\ \A kept \in SUBSET Visited : RestrictArcs(kept) => Visited' = kept
     /\ \A a \in ArcIds, sh \in Shapes : RebuildArcAdjacencies(a, sh) => Visited' = Visited]_vars

(* "max state appearing as tail of an arc": the states of every arc are
   states of the hypergraph, after restrict has renumbered them too. *)
EveryTailIsAState ==
  \A a \in Visited \cap heap : \A s \in StatesOf(shape[a]) : s < numStates

(* What clients see is a set of arcs that changes by their calls only, one arc
   or one renumbering at a time.  Where FSM arcs are not labelled as the comment
   of ForArcsVisitsOnce says, an edit can lose an arc, which ArcSet takes for an
   arc let go. *)
Clients ==
  INSTANCE ArcSet WITH arcs <- [a \in Visited \cap heap |-> shape[a]]

RefinesArcSet == Clients!Spec
=============================================================================
