------------------------------- MODULE CanonicalLex -------------------------------
(***************************************************************************)
(* The labels of states in src/sdl/Hypergraph/MutableHypergraph.hpp, and   *)
(* kCanonicalLex: while that property is set, addState with a terminal     *)
(* label returns the state it knows for the label, from the cache lstate_. *)
(* The cache is filled by addState and by forceCanonicalLex, and emptied   *)
(* only by clearCanonicalLex, clear and restrict; calls that change a      *)
(* label take the property away and leave the cache.                       *)
(*                                                                         *)
(* Arcs are not part of this module.  A label vector that is too short for *)
(* a state has no symbol for it.                                           *)
(***************************************************************************)
EXTENDS Naturals

CONSTANTS
  Terminals,         (* symbols with isTerminal()                          *)
  Nonterminals,
  MaxStates,         (* bound of the model on numStates_                   *)
  ClientsClearCache, (* clients call clearCanonicalLexCache before they    *)
                     (* change labels, as wordToCharacters does            *)
  ClientsUnlabel     (* clients take the labels from a state before they   *)
                     (* drop it, of which the source has no example        *)

NoSymbol == "NoSymbol"
States == 0 .. MaxStates - 1
kNoState == MaxStates

Syms == Terminals \cup Nonterminals
Labels == Syms \cup {NoSymbol}

ASSUME LabelAssumption ==
  /\ NoSymbol \notin Syms
  /\ Terminals \cap Nonterminals = {}
  /\ MaxStates \in Nat
  /\ ClientsClearCache \in BOOLEAN
  /\ ClientsUnlabel \in BOOLEAN

VARIABLES
  numStates,               (* numStates_                                   *)
  canonicalLex,            (* the bit kCanonicalLex of properties_         *)
  hasOutputLabels,         (* the bit kHasOutputLabels                     *)
  iLabelForState,          (* [s]: input label                             *)
  oLabelForState,          (* [s]: output label, NoSymbol: as the input    *)
  lstate,                  (* lstate_: from label pairs to states          *)
  canonicalLexIsCanonical  (* what the last forceCanonicalLexImpl returned *)

labels == <<iLabelForState, oLabelForState, hasOutputLabels>>
cache == <<lstate, canonicalLexIsCanonical>>
vars == <<numStates, canonicalLex, labels, cache>>

outputLabel(s) ==
  IF oLabelForState[s] = NoSymbol THEN iLabelForState[s] ELSE oLabelForState[s]

Cached(io, s) ==
  [jo \in DOMAIN lstate \cup {io} |-> IF jo = io THEN s ELSE lstate[jo]]

CacheKept == UNCHANGED lstate                                       \* mutant
CacheEmptied == lstate' = <<>>

Init ==
  /\ numStates = 0
  /\ canonicalLex \in BOOLEAN
  /\ hasOutputLabels = FALSE
  /\ iLabelForState = [s \in States |-> NoSymbol]
  /\ oLabelForState = [s \in States |-> NoSymbol]
  /\ lstate = <<>>
  /\ canonicalLexIsCanonical = TRUE

-----------------------------------------------------------------------------
(* Adding states *)

(* addStateImpl and setNewStateLabels: an output label equal to the input
   label is not stored *)
SetNewStateLabels(s, i, o) ==
  /\ iLabelForState' = [iLabelForState EXCEPT ![s] = i]
  /\ IF o \in {i, NoSymbol}
     THEN UNCHANGED <<oLabelForState, hasOutputLabels>>
     ELSE /\ oLabelForState' = [oLabelForState EXCEPT ![s] = o]
          /\ hasOutputLabels' = TRUE

NewState(i, o) ==
  /\ numStates < MaxStates
  /\ numStates' = numStates + 1
  /\ SetNewStateLabels(numStates, i, o)

(* the state addState returns is lstate[io], or the new one *)
FindOrAdd(io) ==
  IF io \in DOMAIN lstate
  THEN UNCHANGED <<numStates, labels, lstate>>
  ELSE NewState(io[1], io[2]) /\ lstate' = Cached(io, numStates)

(* addState() *)
AddState ==
  /\ numStates < MaxStates
  /\ numStates' = numStates + 1
  /\ UNCHANGED <<canonicalLex, labels, cache>>

CachesAnything(i) == canonicalLex                                   \* mutant
Cacheable(i) == canonicalLex /\ i \in Terminals

(* addState(input) *)
AddStateSym(i) ==
  /\ IF Cacheable(i)
     THEN FindOrAdd(<<i, NoSymbol>>)
     ELSE NewState(i, NoSymbol) /\ UNCHANGED lstate
  /\ UNCHANGED <<canonicalLex, canonicalLexIsCanonical>>

(* addState(input, output): "Call only for axioms (terminal labels)" *)
AddStatePair(i, o) ==
  /\ IF canonicalLex
     THEN FindOrAdd(<<i, o>>)
     ELSE NewState(i, o) /\ UNCHANGED lstate
  /\ UNCHANGED <<canonicalLex, canonicalLexIsCanonical>>

(* addStateId(state, input, output), which asserts that the state is new *)
AddStateId(s, i, o) ==
  /\ s >= numStates
  /\ numStates' = s + 1
  /\ SetNewStateLabels(s, i, o)
  /\ UNCHANGED <<canonicalLex, cache>>

-----------------------------------------------------------------------------
(* Dropping the last state, which keeps its labels *)

LastIsUnlabelled ==
  iLabelForState[numStates - 1] = NoSymbol /\ oLabelForState[numStates - 1] = NoSymbol

(* deleteState(numStates_ - 1): of any other state it takes the arcs only *)
DeleteState ==
  /\ numStates > 0
  /\ ClientsUnlabel => LastIsUnlabelled
  /\ numStates' = numStates - 1
  /\ UNCHANGED <<canonicalLex, labels, cache>>

RemoveLastState ==
  /\ numStates > 0
  /\ ClientsUnlabel => LastIsUnlabelled
  /\ numStates' = numStates - 1
  /\ UNCHANGED <<canonicalLex, labels, cache>>

-----------------------------------------------------------------------------
(* Changing labels *)

CacheCleared == ClientsClearCache => lstate = <<>>

(* setInputLabel *)
SetInputLabel(s, i) ==
  /\ s < numStates
  /\ CacheCleared
  /\ iLabelForState' = [iLabelForState EXCEPT ![s] = i]
  /\ canonicalLex' = FALSE
  /\ UNCHANGED <<numStates, oLabelForState, hasOutputLabels, cache>>

SetOutputLabel(s, o) ==
  /\ s < numStates
  /\ CacheCleared
  /\ oLabelForState' = [oLabelForState EXCEPT ![s] = o]
  /\ hasOutputLabels' = (hasOutputLabels \/ o # NoSymbol)
  /\ canonicalLex' = FALSE
  /\ UNCHANGED <<numStates, iLabelForState, cache>>

(* setLabelPair, and addStateId(state, labelPair) where the state is new *)
SetLabelPair(s, i, o) ==
  /\ CacheCleared
  /\ numStates' = IF s < numStates THEN numStates ELSE s + 1
  /\ iLabelForState' = [iLabelForState EXCEPT ![s] = i]
  /\ oLabelForState' = [oLabelForState EXCEPT ![s] = o]
  /\ hasOutputLabels' = (hasOutputLabels \/ o # NoSymbol)
  /\ canonicalLex' = FALSE
  /\ UNCHANGED cache

(* projectInput: removeOutputLabels *)
ProjectInput ==
  /\ CacheCleared
  /\ oLabelForState' = [s \in States |-> NoSymbol]
  /\ hasOutputLabels' = FALSE
  /\ UNCHANGED <<numStates, canonicalLex, iLabelForState, cache>>

(* projectOutput: setInputLabel for every state with a label if there is a
   vector of output labels at all, then removeOutputLabels *)
ProjectOutput ==
  /\ CacheCleared
  /\ iLabelForState' =
       [s \in States |-> IF iLabelForState[s] = NoSymbol THEN NoSymbol ELSE outputLabel(s)]
  /\ oLabelForState' = [s \in States |-> NoSymbol]
  /\ hasOutputLabels' = FALSE
  /\ \/ canonicalLex' =
          (canonicalLex /\ \A s \in States : iLabelForState[s] = NoSymbol)
     \/ /\ \A s \in States : oLabelForState[s] = NoSymbol
        /\ UNCHANGED canonicalLex
  /\ UNCHANGED <<numStates, cache>>

(* The labels in vector l once x has renumbered the states *)
Moved(l, x) ==
  [t \in States |->
     IF \E s \in States : x[s] = t
     THEN l[CHOOSE s \in States : x[s] = t]
     ELSE NoSymbol]

(* compressNumStates: no state is dropped that maxLabeledState finds *)
InputsKept(n) == \A s \in States : s >= n => iLabelForState'[s] = NoSymbol    \* mutant
LabelsKept(n) ==
  \A s \in States : s >= n =>
    /\ iLabelForState'[s] = NoSymbol
    /\ hasOutputLabels => oLabelForState'[s] = NoSymbol

(* restrict(x, keep): a renumbering that merges no two states.  Which states
   without a label remain is up to arcs, start and final. *)
RestrictLabels(x) ==
  /\ \A s, t \in States : x[s] = x[t] /\ x[s] # kNoState => s = t
  /\ \A s \in States : s >= numStates => x[s] = kNoState
  /\ iLabelForState' = Moved(iLabelForState, x)
  /\ oLabelForState' = Moved(oLabelForState, x)
  /\ \E n \in 0 .. MaxStates : LabelsKept(n) /\ numStates' = n
  /\ CacheEmptied
  /\ UNCHANGED <<canonicalLex, hasOutputLabels, canonicalLexIsCanonical>>

(* clear(properties) *)
Clear(canonical) ==
  /\ numStates' = 0
  /\ canonicalLex' = canonical
  /\ hasOutputLabels' = FALSE
  /\ iLabelForState' = [s \in States |-> NoSymbol]
  /\ oLabelForState' = [s \in States |-> NoSymbol]
  /\ CacheEmptied
  /\ UNCHANGED canonicalLexIsCanonical

-----------------------------------------------------------------------------
(* The cache *)

LexPair(s) == <<iLabelForState[s], outputLabel(s)>>

LexStates == {s \in States : iLabelForState[s] \in Terminals}

Lowest(S) == CHOOSE s \in S : \A t \in S : s <= t

(* forceCanonicalLexImpl: insert adds a pair that is not there, for the
   lowest state that has it, and reports a pair that is.  Nothing is
   removed first. *)
InsertedOver ==                                                     \* mutant
  [io \in DOMAIN lstate \cup {LexPair(s) : s \in LexStates} |->
     IF \E s \in LexStates : LexPair(s) = io
     THEN Lowest({s \in LexStates : LexPair(s) = io})
     ELSE lstate[io]]
Inserted ==
  [io \in DOMAIN lstate \cup {LexPair(s) : s \in LexStates} |->
     IF io \in DOMAIN lstate
     THEN lstate[io]
     ELSE Lowest({s \in LexStates : LexPair(s) = io})]

InsertLexStates ==
  /\ lstate' = Inserted
  /\ canonicalLexIsCanonical' =
       /\ \A s \in LexStates : LexPair(s) \notin DOMAIN lstate
       /\ \A s, t \in LexStates : LexPair(s) = LexPair(t) => s = t

ForceCanonicalLex ==
  /\ InsertLexStates
  /\ canonicalLex' = TRUE
  /\ UNCHANGED <<numStates, labels>>

(* forceProperties(kCanonicalLex) comes here too *)
EnsureCanonicalLex ==
  /\ ~canonicalLex
  /\ InsertLexStates
  /\ canonicalLex' = TRUE
  /\ UNCHANGED <<numStates, labels>>

RebuildCanonicalLex ==
  /\ IF canonicalLex
     THEN InsertLexStates
     ELSE CacheEmptied /\ UNCHANGED canonicalLexIsCanonical
  /\ UNCHANGED <<numStates, canonicalLex, labels>>

(* clearCanonicalLex and clearCanonicalLexCache are the same *)
ClearCanonicalLex ==
  /\ CacheEmptied
  /\ canonicalLex' = FALSE
  /\ UNCHANGED <<numStates, labels, canonicalLexIsCanonical>>

-----------------------------------------------------------------------------
Next ==
  \/ AddState
  \/ \E i \in Syms : AddStateSym(i)
  \/ \E i \in Terminals, o \in Terminals \cup {NoSymbol} : AddStatePair(i, o)
  \/ \E s \in States, i \in Syms, o \in Terminals \cup {NoSymbol} : AddStateId(s, i, o)
  \/ DeleteState
  \/ RemoveLastState
  \/ \E s \in States, i \in Labels : SetInputLabel(s, i)
  \/ \E s \in States, o \in Labels : SetOutputLabel(s, o)
  \/ \E s \in States, i \in Labels, o \in Labels : SetLabelPair(s, i, o)
  \/ ProjectInput
  \/ ProjectOutput
  \/ \E x \in [States -> States \cup {kNoState}] : RestrictLabels(x)
  \/ \E canonical \in BOOLEAN : Clear(canonical)
  \/ ForceCanonicalLex
  \/ EnsureCanonicalLex
  \/ RebuildCanonicalLex
  \/ ClearCanonicalLex

Spec == Init /\ [][Next]_vars

-----------------------------------------------------------------------------
(* Properties *)

TypeOK ==
  /\ numStates \in 0 .. MaxStates
  /\ canonicalLex \in BOOLEAN /\ hasOutputLabels \in BOOLEAN
  /\ iLabelForState \in [States -> Labels]
  /\ oLabelForState \in [States -> Labels]
  /\ DOMAIN lstate \subseteq Terminals \X (Terminals \cup Nonterminals \cup {NoSymbol})
  /\ \A io \in DOMAIN lstate : lstate[io] \in States
  /\ canonicalLexIsCanonical \in BOOLEAN

(* While kCanonicalLex is set, every state addState may return from the cache
   exists and has the labels asked for ("returns known StateId for Sym",
   "invalidate existing cache"). *)
CacheIsSound ==
  canonicalLex =>
    \A io \in DOMAIN lstate :
      LET s == lstate[io]
      IN  /\ s < numStates
          /\ iLabelForState[s] = io[1]
          /\ outputLabel(s) = IF io[2] = NoSymbol THEN io[1] ELSE io[2]

(* "because it's a new state": a state about to be added has no label left
   over from one that is gone, provided clients unlabel what they drop. *)
FreshStatesAreUnlabelled ==
  \A s \in States : s >= numStates =>
    iLabelForState[s] = NoSymbol /\ oLabelForState[s] = NoSymbol

(* As long as the cache is not emptied, addState returns for a label pair the
   state it returned before, also after forceCanonicalLex has met another
   state with the same labels. *)
SameStateForSameLabels ==
  [][lstate' # <<>> => \A io \in DOMAIN lstate : io \in DOMAIN lstate' /\ lstate'[io] = lstate[io]]_vars
=============================================================================
