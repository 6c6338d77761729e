--------------------------- MODULE CanonicalLexProofs ---------------------------
(***************************************************************************)
(* Theorems about CanonicalLex for any set of symbols and any number of    *)
(* states.                                                                 *)
(***************************************************************************)
EXTENDS CanonicalLex, FiniteSetTheorems, WellFoundedInduction, TLAPS

-----------------------------------------------------------------------------
(* The inductive invariant *)

(* kHasOutputLabels may be set although no state has an output label of its
   own, never the other way around: restrict trusts it. *)
OutputBitInv == ~hasOutputLabels => \A s \in States : oLabelForState[s] = NoSymbol

(* CacheIsSound, also while kCanonicalLex is not set: forceCanonicalLex sets
   it over what the cache holds by then *)
CacheInv ==
  \A io \in DOMAIN lstate :
    /\ lstate[io] < numStates
    /\ iLabelForState[lstate[io]] = io[1]
    /\ outputLabel(lstate[io]) = IF io[2] = NoSymbol THEN io[1] ELSE io[2]

(* deleteState and removeLastState leave what labels the state has *)
FreshInv == ClientsUnlabel => FreshStatesAreUnlabelled

LabelInv == TypeOK /\ OutputBitInv /\ FreshInv

-----------------------------------------------------------------------------
(* Facts about states and symbols *)

LEMMA StateFacts ==
  /\ numStates \in 0 .. MaxStates /\ numStates < MaxStates => numStates \in States
  /\ \A s \in States : s \in Nat /\ s + 1 \in 0 .. MaxStates
BY LabelAssumption DEF States

LEMMA SymbolFacts ==
  /\ NoSymbol \in Labels
  /\ Syms \subseteq Labels
  /\ Terminals \subseteq Syms
  /\ NoSymbol \notin Syms
BY LabelAssumption DEF Labels, Syms

(* The lowest of some states is one of them: the intervals below the states
   are finite sets, and one of them has none of the others inside. *)
LEMMA LowestIsIn ==
  ASSUME NEW S \in SUBSET States, S # {}
  PROVE  Lowest(S) \in S
<1>. DEFINE Below == {0 .. s : s \in S}
<1>1. S \subseteq Nat
  BY LabelAssumption DEF States
<1>2. Below \subseteq FiniteSubsetsOf(Nat) /\ Below # {}
  <2>1. \A s \in S : 0 .. s \in SUBSET Nat /\ s \in Int
    BY <1>1
  <2>2. \A s \in S : 0 .. s \in FiniteSubsetsOf(Nat)
    BY <2>1, FS_Interval DEF FiniteSubsetsOf
  <2>3. QED
    BY <2>2
<1>3. IsWellFoundedOn(StrictSubsetOrdering(Nat), FiniteSubsetsOf(Nat))
  BY FS_StrictSubsetOrderingWellFounded
<1>4. PICK b \in Below : \A c \in Below : ~(<<c, b>> \in StrictSubsetOrdering(Nat))
  <2>. HIDE DEF Below
  <2>1. QED
    BY <1>2, <1>3, WFMin
<1>5. PICK s \in S : b = 0 .. s
  OBVIOUS
<1>6. ASSUME NEW t \in S, ~(s <= t)
      PROVE  FALSE
  <2>1. 0 .. t \in SUBSET Nat /\ b \in SUBSET Nat /\ 0 .. t \subseteq b /\ 0 .. t # b
    <3>1. s \in Nat /\ t \in Nat /\ t < s
      BY <1>1, <1>6
    <3>2. s \in b /\ s \notin 0 .. t
      BY <1>5, <3>1
    <3>3. QED
      BY <1>5, <3>1, <3>2
  <2>2. <<0 .. t, b>> \in StrictSubsetOrdering(Nat)
    BY <2>1 DEF StrictSubsetOrdering
  <2>3. QED
    BY <1>4, <2>2
<1>7. QED
  BY <1>6 DEF Lowest

-----------------------------------------------------------------------------
(* LabelInv is inductive *)

LEMMA LabelInit == Init => LabelInv
<1>. SUFFICES ASSUME Init PROVE LabelInv
  OBVIOUS
<1>1. lstate = <<>> /\ DOMAIN lstate = {}
  BY DEF Init
<1>2. TypeOK
  <2>1. numStates \in 0 .. MaxStates
    BY LabelAssumption DEF Init
  <2>2. iLabelForState \in [States -> Labels] /\ oLabelForState \in [States -> Labels]
    BY SymbolFacts DEF Init
  <2>3. QED
    BY <1>1, <2>1, <2>2 DEF Init, TypeOK
<1>3. OutputBitInv /\ FreshInv
  BY DEF Init, OutputBitInv, FreshInv, FreshStatesAreUnlabelled
<1>4. QED
  BY <1>2, <1>3 DEF LabelInv

(* The labels of a new state: the vectors stay well-typed, and all that
   changes is at that state. *)
LEMMA NewLabels ==
  ASSUME LabelInv, NEW s \in States, NEW i \in Labels, NEW o \in Labels,
         SetNewStateLabels(s, i, o)
  PROVE  /\ iLabelForState' \in [States -> Labels]
         /\ oLabelForState' \in [States -> Labels]
         /\ hasOutputLabels' \in BOOLEAN
         /\ OutputBitInv'
         /\ iLabelForState'[s] = i
         /\ \A t \in States \ {s} :
              /\ iLabelForState'[t] = iLabelForState[t]
              /\ oLabelForState'[t] = oLabelForState[t]
         /\ o \in {i, NoSymbol} => oLabelForState'[s] = oLabelForState[s]
         /\ o \notin {i, NoSymbol} => oLabelForState'[s] = o
BY DEF LabelInv, TypeOK, OutputBitInv, SetNewStateLabels

LEMMA NewStateFresh ==
  ASSUME LabelInv, NEW i \in Labels, NEW o \in Labels, NewState(i, o)
  PROVE  /\ numStates \in States
         /\ SetNewStateLabels(numStates, i, o)
         /\ numStates' \in 0 .. MaxStates
         /\ FreshInv'
<1>1. numStates \in States
  BY StateFacts DEF LabelInv, TypeOK, NewState
<1>2. SetNewStateLabels(numStates, i, o) /\ numStates' = numStates + 1
  BY DEF NewState
<1>3. numStates' \in 0 .. MaxStates
  BY <1>1, <1>2, StateFacts
<1>4. ASSUME ClientsUnlabel, NEW s \in States, s >= numStates'
      PROVE  iLabelForState'[s] = NoSymbol /\ oLabelForState'[s] = NoSymbol
  <2>1. s # numStates /\ s >= numStates
    BY <1>1, <1>2, <1>4, StateFacts
  <2>2. QED
    BY <1>1, <1>2, <1>4, <2>1, NewLabels DEF LabelInv, FreshInv, FreshStatesAreUnlabelled
<1>5. QED
  BY <1>1, <1>2, <1>3, <1>4 DEF FreshInv, FreshStatesAreUnlabelled

(* What TypeOK says of the cache *)
CacheType(l) ==
  /\ DOMAIN l \subseteq Terminals \X (Terminals \cup Nonterminals \cup {NoSymbol})
  /\ \A io \in DOMAIN l : l[io] \in States

LEMMA EmptyCacheType == ASSUME NEW l, l = <<>> PROVE CacheType(l)
<1>1. DOMAIN l = {}
  OBVIOUS
<1>2. QED
  BY <1>1 DEF CacheType

LEMMA CachedType ==
  ASSUME CacheType(lstate), NEW i \in Terminals,
         NEW o \in Terminals \cup Nonterminals \cup {NoSymbol}, NEW s \in States
  PROVE  CacheType(Cached(<<i, o>>, s))
BY DEF CacheType, Cached

LEMMA LexStateFacts ==
  ASSUME LabelInv, NEW s \in LexStates
  PROVE  /\ s \in States /\ (ClientsUnlabel => s < numStates)
         /\ iLabelForState[s] \in Terminals
         /\ outputLabel(s) \in Syms
         /\ LexPair(s) \in Terminals \X (Terminals \cup Nonterminals \cup {NoSymbol})
<1>1. s \in States /\ iLabelForState[s] \in Terminals
  BY DEF LexStates
<1>2. iLabelForState[s] # NoSymbol
  BY <1>1, SymbolFacts
<1>3. ClientsUnlabel => s < numStates
  BY <1>1, <1>2, StateFacts DEF LabelInv, TypeOK, FreshInv, FreshStatesAreUnlabelled
<1>4. outputLabel(s) \in Syms
  BY <1>1, SymbolFacts DEF LabelInv, TypeOK, outputLabel, Labels
<1>5. QED
  BY <1>1, <1>3, <1>4 DEF LexPair, Syms

(* forceCanonicalLexImpl: what was in the cache stays, and what is new leads
   to a state that has the labels. *)
LEMMA InsertedFacts ==
  ASSUME LabelInv, NEW io \in DOMAIN Inserted
  PROVE  \/ io \in DOMAIN lstate /\ Inserted[io] = lstate[io]
         \/ /\ io \notin DOMAIN lstate
            /\ Inserted[io] \in LexStates
            /\ LexPair(Inserted[io]) = io
<1>. DEFINE Having == {s \in LexStates : LexPair(s) = io}
<1>1. io \in DOMAIN lstate \cup {LexPair(s) : s \in LexStates}
  BY DEF Inserted
<1>2. Inserted[io] = IF io \in DOMAIN lstate THEN lstate[io] ELSE Lowest(Having)
  BY <1>1 DEF Inserted
<1>3. CASE io \in DOMAIN lstate
  BY <1>2, <1>3
<1>4. CASE io \notin DOMAIN lstate
  <2>1. Having # {} /\ Having \in SUBSET States
    BY <1>1, <1>4 DEF LexStates
  <2>2. Lowest(Having) \in Having
    <3>. HIDE DEF Having
    <3>1. QED
      BY <2>1, LowestIsIn
  <2>3. QED
    BY <1>2, <1>4, <2>2
<1>5. QED
  BY <1>3, <1>4

LEMMA InsertedType ==
  ASSUME LabelInv
  PROVE  CacheType(Inserted)
<1>1. CacheType(lstate)
  BY DEF LabelInv, TypeOK, CacheType
<1>2. ASSUME NEW io \in DOMAIN Inserted
      PROVE  /\ io \in Terminals \X (Terminals \cup Nonterminals \cup {NoSymbol})
             /\ Inserted[io] \in States
  <2>1. CASE io \in DOMAIN lstate /\ Inserted[io] = lstate[io]
    BY <1>1, <2>1 DEF CacheType
  <2>2. CASE Inserted[io] \in LexStates /\ LexPair(Inserted[io]) = io
    BY <2>2, LexStateFacts
  <2>3. QED
    BY <2>1, <2>2, InsertedFacts
<1>3. QED
  BY <1>2 DEF CacheType

-----------------------------------------------------------------------------
(* LabelInv is inductive: one lemma for each kind of action *)

LEMMA FindOrAddLabels ==
  ASSUME LabelInv, NEW i \in Terminals, NEW o \in Terminals \cup {NoSymbol},
         FindOrAdd(<<i, o>>), UNCHANGED <<canonicalLex, canonicalLexIsCanonical>>
  PROVE  LabelInv'
<1>1. CASE <<i, o>> \in DOMAIN lstate
  BY <1>1 DEF FindOrAdd, labels, LabelInv, TypeOK, OutputBitInv, FreshInv,
    FreshStatesAreUnlabelled
<1>2. CASE <<i, o>> \notin DOMAIN lstate
  <2>1. i \in Labels /\ o \in Labels
    BY SymbolFacts
  <2>2. NewState(i, o) /\ lstate' = Cached(<<i, o>>, numStates)
    BY <1>2 DEF FindOrAdd
  <2>3. CacheType(lstate')
    BY <2>1, <2>2, NewStateFresh, CachedType DEF LabelInv, TypeOK, CacheType
  <2>4. QED
    BY <2>1, <2>2, <2>3, NewStateFresh, NewLabels DEF LabelInv, TypeOK, CacheType
<1>3. QED
  BY <1>1, <1>2

LEMMA UncachedStateLabels ==
  ASSUME LabelInv, NEW i \in Labels, NEW o \in Labels, NewState(i, o),
         UNCHANGED <<canonicalLex, cache>>
  PROVE  LabelInv'
<1>1. UNCHANGED <<lstate, canonicalLexIsCanonical>>
  BY DEF cache
<1>2. QED
  BY <1>1, NewStateFresh, NewLabels DEF LabelInv, TypeOK

LEMMA AddStateLabels == LabelInv /\ AddState => LabelInv'
BY StateFacts
DEF AddState, labels, cache, LabelInv, TypeOK, OutputBitInv, FreshInv,
  FreshStatesAreUnlabelled

LEMMA AddStateIdLabels ==
  ASSUME LabelInv, NEW s \in States, NEW i \in Labels, NEW o \in Labels,
         AddStateId(s, i, o)
  PROVE  LabelInv'
<1>1. SetNewStateLabels(s, i, o) /\ numStates' = s + 1 /\ s >= numStates
      /\ UNCHANGED <<canonicalLex, lstate, canonicalLexIsCanonical>>
  BY DEF AddStateId, cache
<1>2. TypeOK' /\ OutputBitInv'
  BY <1>1, NewLabels, StateFacts DEF LabelInv, TypeOK
<1>3. ASSUME ClientsUnlabel, NEW t \in States, t >= numStates'
      PROVE  iLabelForState'[t] = NoSymbol /\ oLabelForState'[t] = NoSymbol
  <2>1. t # s /\ t >= numStates
    BY <1>1, <1>3, StateFacts DEF LabelInv, TypeOK
  <2>2. QED
    BY <1>1, <1>3, <2>1, NewLabels DEF LabelInv, FreshInv, FreshStatesAreUnlabelled
<1>4. QED
  BY <1>2, <1>3 DEF LabelInv, FreshInv, FreshStatesAreUnlabelled

LEMMA DroppedStateLabels == LabelInv /\ (DeleteState \/ RemoveLastState) => LabelInv'
<1>. SUFFICES ASSUME LabelInv, DeleteState \/ RemoveLastState PROVE LabelInv'
  OBVIOUS
<1>1. /\ numStates > 0 /\ numStates' = numStates - 1
      /\ ClientsUnlabel => LastIsUnlabelled
      /\ UNCHANGED <<canonicalLex, hasOutputLabels, iLabelForState, oLabelForState>>
      /\ UNCHANGED <<lstate, canonicalLexIsCanonical>>
  BY DEF DeleteState, RemoveLastState, labels, cache
<1>2. numStates' \in 0 .. MaxStates
  BY <1>1, LabelAssumption DEF LabelInv, TypeOK
<1>3. ASSUME ClientsUnlabel, NEW s \in States, s >= numStates'
      PROVE  iLabelForState[s] = NoSymbol /\ oLabelForState[s] = NoSymbol
  <2>1. s >= numStates \/ s = numStates - 1
    BY <1>1, <1>3, StateFacts DEF LabelInv, TypeOK
  <2>2. QED
    BY <1>1, <1>3, <2>1 DEF LastIsUnlabelled, LabelInv, FreshInv, FreshStatesAreUnlabelled
<1>4. QED
  BY <1>1, <1>2, <1>3
  DEF LabelInv, TypeOK, OutputBitInv, FreshInv, FreshStatesAreUnlabelled

LEMMA SetterLabels ==
  ASSUME LabelInv, NEW s \in States, NEW i \in Labels, NEW o \in Labels,
         SetInputLabel(s, i) \/ SetOutputLabel(s, o) \/ SetLabelPair(s, i, o)
  PROVE  LabelInv'
<1>1. UNCHANGED <<lstate, canonicalLexIsCanonical>> /\ canonicalLex' = FALSE
  BY DEF SetInputLabel, SetOutputLabel, SetLabelPair, cache
<1>2. /\ iLabelForState' \in [States -> Labels]
      /\ oLabelForState' \in [States -> Labels]
  BY DEF SetInputLabel, SetOutputLabel, SetLabelPair, LabelInv, TypeOK
<1>3. hasOutputLabels' \in BOOLEAN /\ OutputBitInv'
  BY DEF SetInputLabel, SetOutputLabel, SetLabelPair, LabelInv, TypeOK, OutputBitInv
<1>4. numStates' \in 0 .. MaxStates /\ numStates <= numStates' /\ s < numStates'
  BY StateFacts DEF SetInputLabel, SetOutputLabel, SetLabelPair, LabelInv, TypeOK
<1>5. \A t \in States \ {s} :
        iLabelForState'[t] = iLabelForState[t] /\ oLabelForState'[t] = oLabelForState[t]
  BY DEF SetInputLabel, SetOutputLabel, SetLabelPair, LabelInv, TypeOK
<1>6. ASSUME ClientsUnlabel, NEW t \in States, t >= numStates'
      PROVE  iLabelForState'[t] = NoSymbol /\ oLabelForState'[t] = NoSymbol
  <2>1. t # s /\ t >= numStates
    BY <1>4, <1>6, StateFacts DEF LabelInv, TypeOK
  <2>2. QED
    BY <1>5, <1>6, <2>1 DEF LabelInv, FreshInv, FreshStatesAreUnlabelled
<1>7. QED
  BY <1>1, <1>2, <1>3, <1>4, <1>6 DEF LabelInv, TypeOK, FreshInv, FreshStatesAreUnlabelled

LEMMA ProjectLabels ==
  ASSUME LabelInv, ProjectInput \/ ProjectOutput
  PROVE  LabelInv'
<1>1. UNCHANGED <<numStates, lstate, canonicalLexIsCanonical>>
  BY DEF ProjectInput, ProjectOutput, cache
<1>2. oLabelForState' = [s \in States |-> NoSymbol] /\ hasOutputLabels' = FALSE
  BY DEF ProjectInput, ProjectOutput
<1>3. canonicalLex' \in BOOLEAN
  BY DEF ProjectInput, ProjectOutput, LabelInv, TypeOK
<1>4. /\ iLabelForState' \in [States -> Labels]
      /\ \A s \in States : iLabelForState[s] = NoSymbol => iLabelForState'[s] = NoSymbol
  <2>1. \A s \in States : outputLabel(s) \in Labels
    BY DEF outputLabel, LabelInv, TypeOK
  <2>2. CASE ProjectInput
    BY <2>2 DEF ProjectInput, LabelInv, TypeOK
  <2>3. CASE ProjectOutput
    BY <2>1, <2>3, SymbolFacts DEF ProjectOutput
  <2>4. QED
    BY <2>2, <2>3
<1>5. QED
  BY <1>1, <1>2, <1>3, <1>4, SymbolFacts
  DEF LabelInv, TypeOK, OutputBitInv, FreshInv, FreshStatesAreUnlabelled

LEMMA MovedLabels ==
  ASSUME NEW l \in [States -> Labels], NEW x
  PROVE  /\ Moved(l, x) \in [States -> Labels]
         /\ (\A s \in States : l[s] = NoSymbol)
              => \A s \in States : Moved(l, x)[s] = NoSymbol
BY SymbolFacts DEF Moved

LEMMA RestrictedLabels ==
  ASSUME LabelInv, NEW x, RestrictLabels(x)
  PROVE  LabelInv'
<1>1. /\ iLabelForState' = Moved(iLabelForState, x)
      /\ oLabelForState' = Moved(oLabelForState, x)
      /\ UNCHANGED <<canonicalLex, hasOutputLabels, canonicalLexIsCanonical>>
      /\ lstate' = <<>>
  BY DEF RestrictLabels, CacheEmptied
<1>2. PICK n \in 0 .. MaxStates : LabelsKept(n) /\ numStates' = n
  BY DEF RestrictLabels
<1>3. CacheType(lstate')
  BY <1>1, EmptyCacheType
<1>4. /\ iLabelForState' \in [States -> Labels]
      /\ oLabelForState' \in [States -> Labels]
      /\ OutputBitInv'
  BY <1>1, MovedLabels DEF LabelInv, TypeOK, OutputBitInv
<1>5. TypeOK'
  BY <1>1, <1>2, <1>3, <1>4 DEF LabelInv, TypeOK, CacheType
<1>6. FreshStatesAreUnlabelled'
  BY <1>1, <1>2, <1>4 DEF LabelsKept, FreshStatesAreUnlabelled, OutputBitInv
<1>7. QED
  BY <1>4, <1>5, <1>6 DEF LabelInv, FreshInv

LEMMA ClearedLabels ==
  ASSUME LabelInv, NEW canonical \in BOOLEAN, Clear(canonical)
  PROVE  LabelInv'
<1>1. CacheType(lstate')
  BY EmptyCacheType DEF Clear, CacheEmptied
<1>2. numStates' \in 0 .. MaxStates
  BY LabelAssumption DEF Clear
<1>3. iLabelForState' \in [States -> Labels] /\ oLabelForState' \in [States -> Labels]
  BY SymbolFacts DEF Clear
<1>4. TypeOK'
  BY <1>1, <1>2, <1>3 DEF Clear, CacheType, LabelInv, TypeOK
<1>5. OutputBitInv' /\ FreshInv'
  BY DEF Clear, OutputBitInv, FreshInv, FreshStatesAreUnlabelled
<1>6. QED
  BY <1>4, <1>5 DEF LabelInv

LEMMA CacheActionLabels ==
  ASSUME LabelInv,
         \/ ForceCanonicalLex \/ EnsureCanonicalLex
         \/ RebuildCanonicalLex \/ ClearCanonicalLex
  PROVE  LabelInv'
<1>1. UNCHANGED <<numStates, iLabelForState, oLabelForState, hasOutputLabels>>
  BY DEF ForceCanonicalLex, EnsureCanonicalLex, RebuildCanonicalLex, ClearCanonicalLex, labels
<1>2. lstate' = Inserted \/ lstate' = <<>>
  BY DEF ForceCanonicalLex, EnsureCanonicalLex, RebuildCanonicalLex, ClearCanonicalLex,
    InsertLexStates, CacheEmptied
<1>3. CacheType(lstate')
  BY <1>2, InsertedType, EmptyCacheType
<1>4. canonicalLex' \in BOOLEAN /\ canonicalLexIsCanonical' \in BOOLEAN
  BY DEF ForceCanonicalLex, EnsureCanonicalLex, RebuildCanonicalLex, ClearCanonicalLex,
    InsertLexStates, LabelInv, TypeOK
<1>5. QED
  BY <1>1, <1>3, <1>4
  DEF CacheType, LabelInv, TypeOK, OutputBitInv, FreshInv, FreshStatesAreUnlabelled

LEMMA LabelStep == LabelInv /\ [Next]_vars => LabelInv'
<1>. SUFFICES ASSUME LabelInv, [Next]_vars PROVE LabelInv'
  OBVIOUS
<1>1. CASE AddState
  BY <1>1, AddStateLabels
<1>2. ASSUME NEW i \in Syms, AddStateSym(i)
      PROVE  LabelInv'
  <2>1. i \in Labels
    BY SymbolFacts
  <2>2. CASE Cacheable(i)
    BY <1>2, <2>2, FindOrAddLabels DEF AddStateSym, Cacheable
  <2>3. CASE ~Cacheable(i)
    BY <1>2, <2>1, <2>3, UncachedStateLabels, SymbolFacts DEF AddStateSym, cache
  <2>4. QED
    BY <2>2, <2>3
<1>3. ASSUME NEW i \in Terminals, NEW o \in Terminals \cup {NoSymbol}, AddStatePair(i, o)
      PROVE  LabelInv'
  <2>1. i \in Labels /\ o \in Labels
    BY SymbolFacts
  <2>2. CASE canonicalLex
    BY <1>3, <2>2, FindOrAddLabels DEF AddStatePair
  <2>3. CASE ~canonicalLex
    BY <1>3, <2>1, <2>3, UncachedStateLabels DEF AddStatePair, cache
  <2>4. QED
    BY <2>2, <2>3
<1>4. ASSUME NEW s \in States, NEW i \in Syms, NEW o \in Terminals \cup {NoSymbol},
             AddStateId(s, i, o)
      PROVE  LabelInv'
  BY <1>4, AddStateIdLabels, SymbolFacts
<1>5. ASSUME NEW s \in States, NEW i \in Labels, SetInputLabel(s, i)
      PROVE  LabelInv'
  BY <1>5, SetterLabels
<1>6. ASSUME NEW s \in States, NEW o \in Labels, SetOutputLabel(s, o)
      PROVE  LabelInv'
  BY <1>6, SetterLabels
<1>7. ASSUME NEW s \in States, NEW i \in Labels, NEW o \in Labels, SetLabelPair(s, i, o)
      PROVE  LabelInv'
  BY <1>7, SetterLabels
<1>8. CASE ProjectInput \/ ProjectOutput
  BY <1>8, ProjectLabels
<1>9. ASSUME NEW x \in [States -> States \cup {kNoState}], RestrictLabels(x)
      PROVE  LabelInv'
  BY <1>9, RestrictedLabels
<1>10. ASSUME NEW canonical \in BOOLEAN, Clear(canonical)
       PROVE  LabelInv'
  BY <1>10, ClearedLabels
<1>11. CASE \/ ForceCanonicalLex \/ EnsureCanonicalLex
            \/ RebuildCanonicalLex \/ ClearCanonicalLex
  BY <1>11, CacheActionLabels
<1>12. CASE DeleteState \/ RemoveLastState
  BY <1>12, DroppedStateLabels
<1>13. CASE UNCHANGED vars
  BY <1>13
  DEF vars, labels, cache, LabelInv, TypeOK, OutputBitInv, FreshInv, FreshStatesAreUnlabelled
<1>14. QED
  BY <1>1, <1>2, <1>3, <1>4, <1>5, <1>6, <1>7, <1>8, <1>9, <1>10, <1>11, <1>12, <1>13 DEF Next

(* The labels are well-typed, and no new state finds one left over if clients
   unlabel the states they drop. *)
THEOREM Labelling == Spec => []LabelInv
BY LabelInit, LabelStep, PTL DEF Spec

(* Labels are labels and the cache holds states, whatever clients do. *)
THEOREM TypeCorrect == Spec => []TypeOK
BY Labelling, PTL DEF LabelInv

(* For clients that unlabel a state before deleteState or removeLastState takes
   it away: a state about to be added has no label of an earlier state with its
   id, whatever was restricted, projected or cleared before. *)
THEOREM NewStatesAreUnlabelled ==
  ASSUME ClientsUnlabel = TRUE
  PROVE  Spec => []FreshStatesAreUnlabelled
<1>1. LabelInv => FreshStatesAreUnlabelled
  BY DEF LabelInv, FreshInv
<1>2. QED
  BY <1>1, Labelling, PTL

-----------------------------------------------------------------------------
(* CacheInv is inductive if clients clear the cache before they change a label
   and unlabel the states they drop *)

LEMMA CacheInit == Init => CacheInv
<1>1. Init => DOMAIN lstate = {}
  BY DEF Init
<1>2. QED
  BY <1>1 DEF CacheInv

LEMMA EmptyCache ==
  ASSUME lstate' = <<>>
  PROVE  CacheInv'
<1>1. DOMAIN lstate' = {}
  OBVIOUS
<1>2. QED
  BY <1>1 DEF CacheInv

(* The states in the cache keep their labels as long as nothing but new states
   is labelled. *)
LEMMA CacheUntouched ==
  ASSUME LabelInv, CacheInv, UNCHANGED lstate,
         numStates' \in Nat, numStates' >= numStates,
         \A s \in States : s < numStates =>
           iLabelForState'[s] = iLabelForState[s] /\ oLabelForState'[s] = oLabelForState[s]
  PROVE  CacheInv'
<1>1. ASSUME NEW io \in DOMAIN lstate
      PROVE  /\ lstate[io] \in States
             /\ lstate[io] < numStates'
             /\ iLabelForState'[lstate[io]] = iLabelForState[lstate[io]]
             /\ oLabelForState'[lstate[io]] = oLabelForState[lstate[io]]
  BY StateFacts DEF LabelInv, TypeOK, CacheInv
<1>2. QED
  BY <1>1 DEF CacheInv, outputLabel

LEMMA FindOrAddCache ==
  ASSUME ClientsUnlabel, LabelInv, CacheInv,
         NEW i \in Terminals, NEW o \in Terminals \cup {NoSymbol}, FindOrAdd(<<i, o>>)
  PROVE  CacheInv'
<1>. DEFINE new == <<i, o>>
<1>1. CASE new \in DOMAIN lstate
  BY <1>1 DEF FindOrAdd, labels, CacheInv, outputLabel
<1>2. CASE new \notin DOMAIN lstate
  <2>1. i \in Labels /\ o \in Labels /\ i # NoSymbol
    BY SymbolFacts
  <2>2. NewState(i, o) /\ lstate' = Cached(new, numStates)
    BY <1>2 DEF FindOrAdd
  <2>3. numStates \in States /\ SetNewStateLabels(numStates, i, o) /\ numStates' = numStates + 1
    BY <2>1, <2>2, NewStateFresh DEF NewState
  <2>4. /\ DOMAIN lstate' = DOMAIN lstate \cup {new}
        /\ lstate'[new] = numStates
        /\ \A io \in DOMAIN lstate : lstate'[io] = lstate[io]
    BY <1>2, <2>2 DEF Cached
  <2>5. /\ iLabelForState'[numStates] = i
        /\ oLabelForState'[numStates] = IF o \in {i, NoSymbol} THEN NoSymbol ELSE o
    BY <2>1, <2>3, NewLabels, StateFacts
    DEF LabelInv, FreshInv, FreshStatesAreUnlabelled
  <2>6. ASSUME NEW io \in DOMAIN lstate
        PROVE  /\ lstate[io] < numStates'
               /\ iLabelForState'[lstate[io]] = io[1]
               /\ outputLabel(lstate[io])' = IF io[2] = NoSymbol THEN io[1] ELSE io[2]
    <3>. DEFINE s == lstate[io]
    <3>1. s \in States /\ s < numStates
      BY DEF LabelInv, TypeOK, CacheInv
    <3>2. s # numStates /\ s < numStates'
      BY <2>3, <3>1, StateFacts
    <3>3. iLabelForState'[s] = iLabelForState[s] /\ oLabelForState'[s] = oLabelForState[s]
      BY <2>1, <2>3, <3>1, <3>2, NewLabels
    <3>4. QED
      BY <2>4, <3>2, <3>3 DEF CacheInv, outputLabel
  <2>7. QED
    BY <2>1, <2>3, <2>4, <2>5, <2>6, StateFacts DEF CacheInv, outputLabel
<1>3. QED
  BY <1>1, <1>2

LEMMA NewStateCache ==
  ASSUME ClientsUnlabel, LabelInv, CacheInv, NEW i \in Labels, NEW o \in Labels, NewState(i, o),
         UNCHANGED lstate
  PROVE  CacheInv'
<1>1. numStates \in States /\ SetNewStateLabels(numStates, i, o) /\ numStates' = numStates + 1
  BY NewStateFresh DEF NewState
<1>2. numStates' \in Nat /\ numStates' >= numStates
  BY <1>1, StateFacts
<1>3. ASSUME NEW s \in States, s < numStates
      PROVE  iLabelForState'[s] = iLabelForState[s] /\ oLabelForState'[s] = oLabelForState[s]
  BY <1>1, <1>3, NewLabels, StateFacts
<1>4. QED
  BY <1>2, <1>3, CacheUntouched

LEMMA AddStateIdCache ==
  ASSUME ClientsUnlabel, LabelInv, CacheInv, NEW s \in States, NEW i \in Labels, NEW o \in Labels,
         AddStateId(s, i, o)
  PROVE  CacheInv'
<1>1. SetNewStateLabels(s, i, o) /\ numStates' = s + 1 /\ s >= numStates /\ UNCHANGED lstate
  BY DEF AddStateId, cache
<1>2. numStates' \in Nat /\ numStates' >= numStates
  BY <1>1, StateFacts DEF LabelInv, TypeOK
<1>3. ASSUME NEW t \in States, t < numStates
      PROVE  iLabelForState'[t] = iLabelForState[t] /\ oLabelForState'[t] = oLabelForState[t]
  <2>1. t # s
    BY <1>1, <1>3, StateFacts DEF LabelInv, TypeOK
  <2>2. QED
    BY <1>1, <2>1, NewLabels
<1>4. QED
  BY <1>1, <1>2, <1>3, CacheUntouched

(* forceCanonicalLexImpl over a sound cache leaves a sound cache *)
LEMMA InsertedCache ==
  ASSUME ClientsUnlabel, LabelInv, CacheInv, lstate' = Inserted,
         UNCHANGED <<numStates, iLabelForState, oLabelForState>>
  PROVE  CacheInv'
<1>1. ASSUME NEW io \in DOMAIN Inserted
      PROVE  /\ Inserted[io] < numStates
             /\ iLabelForState[Inserted[io]] = io[1]
             /\ outputLabel(Inserted[io]) = IF io[2] = NoSymbol THEN io[1] ELSE io[2]
  <2>1. CASE io \in DOMAIN lstate /\ Inserted[io] = lstate[io]
    BY <2>1 DEF CacheInv
  <2>2. CASE Inserted[io] \in LexStates /\ LexPair(Inserted[io]) = io
    <3>1. Inserted[io] < numStates /\ outputLabel(Inserted[io]) # NoSymbol
      BY <2>2, LexStateFacts, SymbolFacts
    <3>2. io[1] = iLabelForState[Inserted[io]] /\ io[2] = outputLabel(Inserted[io])
      BY <2>2 DEF LexPair
    <3>3. QED
      BY <3>1, <3>2
  <2>3. QED
    BY <2>1, <2>2, InsertedFacts
<1>2. QED
  BY <1>1 DEF CacheInv, outputLabel

LEMMA CacheStep ==
  ASSUME ClientsClearCache, ClientsUnlabel, LabelInv, CacheInv, [Next]_vars
  PROVE  CacheInv'
<1>1. CASE AddState
  <2>1. UNCHANGED <<lstate, iLabelForState, oLabelForState>> /\ numStates' = numStates + 1
    BY <1>1 DEF AddState, labels, cache
  <2>2. numStates' \in Nat /\ numStates' >= numStates
    BY <2>1, LabelAssumption DEF LabelInv, TypeOK
  <2>3. QED
    BY <2>1, <2>2, CacheUntouched
<1>2. ASSUME NEW i \in Syms, AddStateSym(i)
      PROVE  CacheInv'
  <2>1. CASE Cacheable(i)
    BY <1>2, <2>1, FindOrAddCache DEF AddStateSym, Cacheable
  <2>2. CASE ~Cacheable(i)
    BY <1>2, <2>2, NewStateCache, SymbolFacts DEF AddStateSym
  <2>3. QED
    BY <2>1, <2>2
<1>3. ASSUME NEW i \in Terminals, NEW o \in Terminals \cup {NoSymbol}, AddStatePair(i, o)
      PROVE  CacheInv'
  <2>1. CASE canonicalLex
    BY <1>3, <2>1, FindOrAddCache DEF AddStatePair
  <2>2. CASE ~canonicalLex
    BY <1>3, <2>2, NewStateCache, SymbolFacts DEF AddStatePair
  <2>3. QED
    BY <2>1, <2>2
<1>4. ASSUME NEW s \in States, NEW i \in Syms, NEW o \in Terminals \cup {NoSymbol},
             AddStateId(s, i, o)
      PROVE  CacheInv'
  BY <1>4, AddStateIdCache, SymbolFacts
<1>5. ASSUME NEW s \in States, NEW i \in Labels, NEW o \in Labels,
             SetInputLabel(s, i) \/ SetOutputLabel(s, o) \/ SetLabelPair(s, i, o)
      PROVE  CacheInv'
  <2>1. lstate' = <<>>
    BY <1>5 DEF SetInputLabel, SetOutputLabel, SetLabelPair, CacheCleared, cache
  <2>2. QED
    BY <2>1, EmptyCache
<1>6. CASE ProjectInput \/ ProjectOutput
  <2>1. lstate' = <<>>
    BY <1>6 DEF ProjectInput, ProjectOutput, CacheCleared, cache
  <2>2. QED
    BY <2>1, EmptyCache
<1>7. ASSUME \/ \E x \in [States -> States \cup {kNoState}] : RestrictLabels(x)
             \/ \E canonical \in BOOLEAN : Clear(canonical)
             \/ ClearCanonicalLex
      PROVE  CacheInv'
  BY <1>7, EmptyCache DEF RestrictLabels, Clear, ClearCanonicalLex, CacheEmptied
<1>8. CASE ForceCanonicalLex \/ EnsureCanonicalLex \/ RebuildCanonicalLex
  <2>1. UNCHANGED <<numStates, iLabelForState, oLabelForState>>
    BY <1>8 DEF ForceCanonicalLex, EnsureCanonicalLex, RebuildCanonicalLex, labels
  <2>2. lstate' = Inserted \/ lstate' = <<>>
    BY <1>8 DEF ForceCanonicalLex, EnsureCanonicalLex, RebuildCanonicalLex,
      InsertLexStates, CacheEmptied
  <2>3. QED
    BY <2>1, <2>2, InsertedCache, EmptyCache
<1>9. CASE UNCHANGED vars
  BY <1>9 DEF vars, labels, cache, CacheInv, outputLabel
<1>10. CASE DeleteState \/ RemoveLastState
  <2>1. /\ numStates' = numStates - 1 /\ LastIsUnlabelled
        /\ UNCHANGED <<lstate, iLabelForState, oLabelForState>>
    BY <1>10 DEF DeleteState, RemoveLastState, labels, cache
  <2>2. ASSUME NEW io \in DOMAIN lstate
        PROVE  lstate[io] < numStates'
    <3>1. lstate[io] \in Nat /\ numStates \in Nat /\ lstate[io] < numStates
      BY StateFacts DEF LabelInv, TypeOK, CacheInv
    <3>2. io[1] \in Terminals /\ iLabelForState[lstate[io]] = io[1]
      BY DEF LabelInv, TypeOK, CacheInv
    <3>3. lstate[io] # numStates - 1
      BY <2>1, <3>2, SymbolFacts DEF LastIsUnlabelled
    <3>4. QED
      BY <2>1, <3>1, <3>3
  <2>3. QED
    BY <2>1, <2>2 DEF CacheInv, outputLabel
<1>11. \E i \in Labels : TRUE
  BY SymbolFacts
<1>12. QED
  BY <1>1, <1>2, <1>3, <1>4, <1>5, <1>6, <1>7, <1>8, <1>9, <1>10, <1>11 DEF Next

(* For clients that call clearCanonicalLexCache before they change labels, and
   unlabel the states they drop, the state that addState returns for a label has
   that label. *)
THEOREM CacheCorrect ==
  ASSUME ClientsClearCache = TRUE, ClientsUnlabel = TRUE
  PROVE  Spec => []CacheIsSound
<1>1. Init => CacheInv
  BY CacheInit
<1>2. LabelInv /\ CacheInv /\ [Next]_vars => CacheInv'
  BY CacheStep
<1>3. CacheInv => CacheIsSound
  BY DEF CacheInv, CacheIsSound
<1>4. QED
  BY <1>1, <1>2, <1>3, Labelling, PTL DEF Spec

-----------------------------------------------------------------------------
(* Entries of the cache only go with all the others *)

LEMMA EntriesKept ==
  ASSUME LabelInv, [Next]_vars, lstate' # <<>>, NEW io \in DOMAIN lstate
  PROVE  io \in DOMAIN lstate' /\ lstate'[io] = lstate[io]
<1>1. CASE UNCHANGED lstate
  BY <1>1
<1>2. ASSUME NEW jo, FindOrAdd(jo)
      PROVE  io \in DOMAIN lstate' /\ lstate'[io] = lstate[io]
  BY <1>2 DEF FindOrAdd, Cached
<1>3. CASE InsertLexStates
  <2>1. lstate' = Inserted /\ io \in DOMAIN Inserted
    BY <1>3 DEF InsertLexStates, Inserted
  <2>2. QED
    BY <2>1 DEF Inserted
<1>4. ASSUME ~ UNCHANGED lstate, \A jo : ~FindOrAdd(jo), ~InsertLexStates
      PROVE  FALSE
  BY <1>4 DEF Next, AddState, AddStateSym, AddStatePair, AddStateId,
    DeleteState, RemoveLastState, SetInputLabel, SetOutputLabel, SetLabelPair,
    ProjectInput, ProjectOutput, RestrictLabels, Clear,
    ForceCanonicalLex, EnsureCanonicalLex, RebuildCanonicalLex, ClearCanonicalLex,
    CacheEmptied, vars, cache
<1>5. QED
  BY <1>1, <1>2, <1>3, <1>4

(* addState goes on returning, for a label, the state it has returned before,
   whatever other states get the same label, until the cache is emptied. *)
THEOREM EntriesAreStable == Spec => SameStateForSameLabels
<1>1. LabelInv /\ [Next]_vars =>
        [lstate' # <<>> => \A io \in DOMAIN lstate :
                             io \in DOMAIN lstate' /\ lstate'[io] = lstate[io]]_vars
  BY EntriesKept
<1>2. QED
  BY <1>1, Labelling, PTL DEF Spec, SameStateForSameLabels
=============================================================================
