# Verification of hyp

TLA+ models of `hyp`, the hypergraph toolkit: the parts whose correctness rests
on the order in which things happen — threads that compute a gradient together;
data structures that are edited in place while two or three views of them must go
on saying the same; searches that improve what waits in their queue, and lists of
derivations and of arcs that are computed only when someone asks for the next. TLC
checks the models on small instances; TLAPS proves the most important properties
for every value of the constants.

Paths below are relative to `src/sdl/`. "The code" is that directory.

## 1. The system and its components

`hyp` represents weighted hypergraphs (states, arcs from tail states to a head
state, labels on states), transforms them (compose, determinize, prune, best
path, ...), and trains feature weights on pairs of hypergraphs.

| Component | State it keeps | Operations | Modelled |
|---|---|---|---|
| Parallel training objective (`Optimization/ObjectiveFunction.hpp`, `HypergraphCrfObjFct.hpp`) | thread number, weights, a bounded lock-free queue, a stop flag, the gradient array, the function value | `update`, `getUpdates`, `getUpdatesParallel`, `setNumThreads` | `ParallelUpdates` |
| Arc indexes of mutable hypergraphs (`Hypergraph/MutableHypergraph.hpp`) | arcs on the heap; pointers to them per head, per first tail or per tail; bits that say which lists exist | `addArc`, `force*Arcs`, `remove*Arcs`, `delete*Arcs`, `deleteState`, two `restrict`s, `rebuildArcAdjacencies`, `forcePropertiesOnOff`, `clear`, `properties` | `MutableHypergraph` |
| Labels and `kCanonicalLex` (same file) | two label vectors, the cache `lstate_`, property bits | `addState` in three forms, `setInputLabel`, `setOutputLabel`, `setLabelPair`, `project*`, `restrict`, `deleteState`, `removeLastState`, `*CanonicalLex*` | `CanonicalLex` |
| Read-only interface (`IHypergraph.hpp`, `HypergraphBase.hpp`, `IHypergraphForArcs.ipp`, `IsGraphArc.ipp`) | computed property bits, of which `kFsm` decides how arcs are visited | `forArcs`, `forArcsSafe`, `fetchArcs`, `isFsm`, `maxTail`, `maxState` | in `MutableHypergraph` |
| Best path and k-best (`BestPath.hpp`, `AcyclicBest.hpp`, `graehl/shared/tails_up_hypergraph.hpp`, `d_ary_heap.hpp`, `lazy_forest_kbest.hpp`) | costs and best arcs by state, a queue; a forest of queues and memoized derivations | `visit_nbest`, `BestTree::finish`, `get_best`, `next_best`, `fix_edges` | `BestTree`, `Nbest` |
| Lazy best path and composition (`Hypergraph/fs/`, `Util/FlattenGenerators.hpp`) | distances of composed states, a queue of states with the arcs they have yet to yield, the map of states saved | `saveFst`, `bestToFinal`, `addToHypergraph`, `outArcs` of `Compose` | `Fst`, `FlattenGenerators`, `FstCompose`, `FstPath`, `LazyBest`, `SaveFst`, `SavedComposition` |
| Training example stores (`FeatureHypergraphPairs.hpp`, `ExternalFeatHgPairs.ipp`) | pairs of hypergraphs, or a directory and a pointer to weights | `operator[]`, `setFeatureWeights`, `push_back` | as constants of `ParallelUpdates` |
| Building training examples (`CrfDemo/CreateSearchSpace.hpp`) | label sets, the pairs, a mutex | `prepareTraining` | no |
| Online optimizer (`OnlineOptimizer.hpp`) | epoch, example order, parameters | `optimize` | no |
| L-BFGS, optimization procedure | options | calls `update` from a numerical library | no |
| Vocabulary (`Vocabulary/`) | symbols by index, a resident part and one that is evicted | `add`, `sym`, `evict`, `freeze` | no |
| Chart composition, determinization (`Compose.hpp`, `Determinize.hpp`) | charts and agendas | `compose`, `determinize` | no |
| Inside, outside, prune, sort, push weights | none between calls | sequential passes | no |
| Text format, configuration, pools, Berkeley DB, command line programs, utilities | parsing and I/O, or copies of other libraries | | no |

How they interact:

* An optimizer calls `update(params, gradients)`. It writes the parameters into
  the hypergraphs of the training examples, starts one producer thread for each
  block of examples and one consumer thread. Producers read hypergraphs and push
  `(feature, value)` pairs; the consumer alone writes the gradient array; the
  calling thread joins the producers, sets `areProducersDone`, joins the consumer,
  and adds up what the producers returned. Shared state: the queue, the flag, the
  gradient array and one `result_` per producer.
* Transforms build and edit hypergraphs through `IMutableHypergraph`. They ask for
  an index (`forceInArcs`, `forceOutArcs`, `forceFirstTailOutArcs`), visit arcs
  through it, and delete, renumber or filter arcs. All indexes point to the same
  arcs; nothing but the discipline of these functions keeps them consistent.
* Parsers and model builders add states by label. With `kCanonicalLex` the
  hypergraph returns the state it knows for a terminal.
* Best path is asked of a hypergraph after all that. `visit_nbest` runs one of two
  searches over the arcs and, if more than one derivation is wanted, builds a forest
  from the result and asks its root for one derivation after the other; each asks
  the nodes below it in turn. Everything is one call in one thread.
* `saveFst` reads two transducers through a composition that stores nothing: the
  search and the copier ask it for the arcs of a composed state, which a merge of
  generators yields one by one, and write the result into a new hypergraph.

What is hard: the interleavings of producers, consumer and calling thread around a
full queue and around the stop flag; the reuse of the gradient array by the next
call; sequences of index conversions, deletions and renumberings, each leaving
pointers that the next must find; caches and property bits that outlive the
labels they were computed from; visits of arcs that depend on such a bit; a queue whose
order is changed from outside while its keys wait, are improved, leave and return, and
whose map of places may be wrong (finding 4); memoized lists that are asked for their next
entry while that is being computed; two transducers that may take their epsilons in
many orders, of which one must count. Nothing is persisted while the program runs, no
messages are sent and no timeouts are set, so there is no crash recovery and no
unreliable delivery to model. `PROJECT.json` lists each hazard at its line.

What makes each component correct:

* objective: each update of each example reaches the array exactly once before
  `update` returns, the function value is the total, and every call returns;
* arc indexes: no pointer to a deleted arc, no arc deleted twice or forgotten,
  all indexes agree, each arc is visited once, and choosing another index
  changes nothing a client sees;
* labels: the state returned for a label has that label, a new state has none;
* best path: the result is a shortest path tree, the queue gives its best state,
  and no state is left with a cost computed from one that has been improved since;
* k-best: derivations come in order of cost, none missing, none twice, and the
  listing ends;
* lazy composition: every pair of matching paths once, with the epsilons in one order;
* lazy best path: the path found is the cheapest, the hypergraph made of it says what
  it does, and a whole composition is saved state by state, arc by arc, once each.

## 2. Modules

```
TrainingData            what an example reports (constants), units
 ├─ GradientSum         abstract: one sequential sum per call
 └─ ParallelUpdates     the threads;  implements GradientSum
     ├─ MCParallelUpdates      instance for TLC
     └─ ParallelUpdatesProofs  theorems
ArcSet                  abstract: the set of arcs a client sees
MutableHypergraph       the indexes;  implements ArcSet
 ├─ MCMutableHypergraph    instance for TLC
 └─ MutableHypergraphProofs   theorems, the refinement of ArcSet among them
CanonicalLex            labels and lstate_
 └─ CanonicalLexProofs     theorems
DAryHeap                the queue that both searches use
 └─ DAryHeapProofs         lemmas about pushing, improving and popping, and induction
CostHypergraph          hypergraphs with costs
 └─ BestTree            both searches for the best tree; uses DAryHeap
     ├─ Nbest           the forest and the listing
     │   ├─ Derivations     derivations as trees: what the best tree and the list are (reference)
     │   │   └─ MCBestPath     instance for TLC
     │   └─ NbestProofs     theorems; uses BestTreeProofs
     └─ BestTreeProofs     theorems; uses DAryHeapProofs
Fst                     a transducer, as templates take one
 ├─ FstCompose          composition; uses FlattenGenerators
 │   └─ FlattenGenerators   the merge of generators of arcs; uses DAryHeap
 └─ FstPath             the hypergraph made of a path
     └─ LazyBest        the search; uses DAryHeap
         └─ SaveFst     saveFst;  implements GraphCopy
             └─ SavedComposition   saveFst of a composition, and what composition means
                 ├─ MCSaveFst         instance for TLC
                 └─ SaveFstProofs     theorems; uses DAryHeapProofs, GraphCopyProofs
GraphCopy               abstract: the part of a graph that is reachable, copied
 └─ GraphCopyProofs        theorems
```

### ParallelUpdates

One action is one access to state that threads share. `Call` is `update()` up to
the first thread it creates (only the calling thread exists then, so it is one
step); `SpawnProducer` is one round of the loop that creates producers, which run
from that moment on; `SpawnConsumer`, `JoinProducers` (join, then the flag) and
`Return` (join, then the sum) follow. `Push`, `FinishExample` and `FinishWorker`
are a producer; a full queue disables `Push`, which is what the code's spinning on
`bounded_push` amounts to. `TestDone`, `Pop`, `Drain` and `AddPopped` are the
consumer: the flag is read in one step, the queue in another, and a pair popped is
in its hand until it has been added. With one thread the calling thread is worker
0 and `AddDirectly` replaces the queue.

An update is named by parameters, example and position, so that one lost and one
repeated cannot cancel out. Variables have the code's names where it has them;
`worker`, `consumer` and `main` are program counters. Numbers are integers in
units of 1/NumExamples, so that the division under `doScale_` is exact: rounding
and the order of floating-point additions are not modelled. The queue has 50 slots
per producer in the code and `SlotsPerProducer` in the model. What an example
reports is a constant: the weights do not change during a call, so an example's
updates are a function of the parameters.

### MutableHypergraph

`heap` is the set of arcs allocated, `shape` gives each its head and tails as they
are stored in the arc, and `inArcsPerState`, `outArcsPerState` count how often a
pointer is in a list: nothing depends on the order of a list. `properties` are the
three bits that say which lists exist. Addresses are reused as soon as they are
free, the lowest first, so that a dangling pointer may come to point to a new arc.

Each public function is one action with all it calls: `DeleteInArcs` removes the
pointers from the other index in the way the code chooses by the length of each
list; `ForceFirstTailOutArcs` narrows existing lists in place or builds new ones;
`ForcePropertiesOnOff` adds and removes any combination of the three in one call, or
throws half way when it is asked for both kinds of out-arcs;
`Relabel` is `restrict(x, keep)` (fetch all, clear, relabel or delete, add again,
`compressNumStates`), `RestrictArcs` is `restrict(keep)`. `AddArc` stands for
`addArc` and `addArcCreatingStates`, that is, arcs may come before their states.

`VisitsOf` is `forArcs`, `forArcsImpl` and `fetchArcs`: how often each arc is visited.
In-arcs are read as they are, and so are first-tail lists. With all-tails lists alone it
depends on whether the hypergraph is an FSM: if so, the lists of all states without a
lexical label are read (`FsmLists`), or, without a vocabulary to ask, each arc in the
list of its first tail; if not, the visit goes through a set of pointers. Conversions
store what is visited, as often as it is visited. `kFsm` is the computed property and
`fsmChecked` in one: `properties()` computes it (`CheckFsm`) and nearly every call asks,
but whether it has been asked since the arcs changed is left open. Adding, appending,
editing and renumbering take it back, deleting arcs does only if it was found false
(`Rechecked`). Labels are constant, as `Terminals`, `Lexical` and `HasVocabulary`: clients
label states before they add arcs. A renumbering relabels every arc it has fetched, so
`Relabel` is for visits that see each arc once; `RebuildArcAdjacencies` begins when `kFsm` is
known, as in `reverseGraph`, its only caller, which asks `isGraph` first.

What clients must do is in the guards: they keep at least one index; with all-tails
lists they call `deleteOutArcs` only for arcs that have no other tail
(`NoOtherTail`: the code would leave dangling pointers otherwise); they delete only
states that no arc mentions; they renumber arcs one to one, and no state to one that has
another label.

### CanonicalLex

The label vectors (a missing entry is `NoSymbol`), `lstate`, and the two bits that
matter. Arcs are left out: where arcs decide which states remain (`restrict`), the
action lets any states remain that are enough for the labels. The constant
`ClientsClearCache` says whether clients call `clearCanonicalLexCache` before they
change labels, as `WordToCharacters.hpp:142` does ("we will be modifying some
labels"); the code does not require it. `DeleteState` and `RemoveLastState` take the last
state away and leave its labels; `ClientsUnlabel` says whether clients take them off
before, which nothing in the code asks for or does.

### DAryHeap, CostHypergraph, BestTree, Nbest, Derivations

`DAryHeap` is `d_ary_heap_indirect` as operators on a record `[data, loc]`: the heap
with its holes moving up and down, and the map of places that lets a key be found
when its distance changes. The distances are an argument, because the caller owns
and changes them. `Swapped` is `swap_heap_elements`, which gives each of two keys the place
the key had before the swap: `Pop` and `AdjustTop` go through it (`DownFromTop`) when 2 to
`Arity` keys are left, and `HasKey` (`contains`) then does not find them. So a state that is
queued may be queued a second time. Both searches, and only they, have a history variable
for that, `isQueuedTwice`, because most of what they promise holds only until then. Both
searches, and the merge of arc generators, use it, so a mistake
in it would show in three places. The two loops, `Up` and `Down`, are functions over
heaps with a hole, because the proofs cannot use recursive operators; for the same
reason the loops of `BestTree` are functions over a counter or over the state of the loop.

`CostHypergraph` has what the searches read: states `0 .. NumStates - 1`, the arcs in the
order in which `forArcs` visits them, and `Extend`, the sum of costs in which nothing
comes of an unreachable part.

`BestTree` is `visit_nbestFilter` up to the best tree. `ChooseAcyclic` and
`ChooseBestFirst` are the test whether `AcyclicBest` applies (a graph with a start
state, `acyclic` asked for or the property `kAcyclic` there, few enough back edges);
`DfsStep` is one turn of the depth-first visit with its calls on a stack, and
`TailsLast` the visit; `RelaxOutArcs` relaxes from one state in the order that the visit
has left. `AddAxioms` is `init_costs` with the queue filled and put in order; `PopBest`
takes the best state out and marks it reached; `ReachArc` is `reach` for one arc that
has it as a tail, with the count of tails still missing, the limit on how often a state
may be reached again, and `relax`. `mu`, `pi`, `remain` and `rereach` are the code's;
`remain` is unsigned, and one less than none is `MaxCount`, 2^32 - 1 in the code and the
greatest integer TLC has in the run; `agenda` is the set of arcs its loop has yet to
look at, taken in the order of their numbers. `JobsAssumption` says what the code takes
for granted of its input: that there are axioms (`visit_nbestFilter` starts from them)
and that tails, heads and the final state are states.

`Nbest` goes on from there. Derivations are shared and repaired in place, so they are
numbered and `store` has what is at each number; `nodes` has each node's queue of
hyperedges and what is memoized. `BuildLazy` makes the forest, with a chain of joints
for arcs of three tails or more; `SortState` puts the queue of one state in order, and
`SortDone` calls `fix_edges`. `EnterNode`, `FixKid`, `RepairEdge`, `LeaveNode` are the
recursive `fix_edges`; `ReturnKnown`, `AskForNew`, `PopEdge`, `AskKid`, `TakeKid`,
`TakeTop`, `ThrowCycle` are the recursive `get_best` and `next_best`; `stack` is the call
stack. `AskForNext`, `VisitBest` and `StopListing` are `enumerate_kbest` with the rule
for ties. Where `std::push_heap` may put any of several equal hyperedges in front, so
may the model: a queue has one of its best in front and the others in the order they
were made.

`Derivations` is the reference: derivations as trees, and what they cost. It uses
recursive operators and is for TLC only.

### Fst, FlattenGenerators, FstCompose, FstPath, LazyBest, SaveFst, SavedComposition, GraphCopy

The search and `saveFst` are templates over a transducer and ask it for its start state,
for the arcs of a state and whether a state is final. So they are modelled for any
transducer: `Fst` is a record of these, and what the search promises can be proved
without knowing where arcs come from.

`FstCompose` is one such transducer, `Composed(c)`, whose states are pairs and
whose arcs `Compose` computes: `Generators` are what `ArcsGenGen` starts, one for the
epsilons of the match transducer, one for each input arc, one for phi. `Flatten`, in
`FlattenGenerators`, merges them through a heap and starts the next only when an
arc of the last has been taken: `MergeTurn` is one call of `operator()`. `IsMergeOf` is
what the comment of that class promises. The filters are the three of `Compose.hpp`.
`SavedComposition` puts the two together. Its `Steps`, `ComposedPaths` and `BestCost` say
what composition means, without filters or generators; the properties compare the
two.

`LazyBest` has one action for each way a turn of `bestToFinal` can go: the arc taken
leads to a state not seen, to one that is no better for it, to one that it improves; the
state at the top has no more arcs; it is final; the queue is empty. `FstPath` is
`Path::addToHypergraph`. `SaveFst` adds the other branch of `saveFst`: the calls of
`outStateFor` that have not returned are a stack, `Visit` is a call for a new state,
`AddNextArc` an arc added on return, `Return` the end of a call with the treatment of final
states.

`GraphCopy` is what saving promises in no particular order: a state reachable from
the start gets a number no other has, an arc is added after both its ends. `SaveFst` is
checked to implement it, with the arcs that calls on the stack have yet to add left
out of `added`.

## 3. What TLC checks

The runs of the threads, of the arc indexes and of the labels check deadlock too. Best
path and `saveFst` are calls that return: their runs stop in the last state
(`CHECK_DEADLOCK FALSE`), and `Termination` says that they get there.

| Run | Instance | Shows |
|---|---|---|
| `parallel_updates` | 1 to 5 threads, changed between calls; 3 examples reporting 1, 2 and 0 or 1 updates; 2 features, 2 parameter vectors; 1 slot per producer | all properties of `ParallelUpdates`, and that it implements `GradientSum` |
| `mutable_hypergraph` | 2 arcs, 3 states of which one has a lexical label and is no head; tails of length 1 and 2 without repetition, so that there are arcs of an FSM and others; limit 16 | all properties of `MutableHypergraph` but `EveryTailIsAState`, and that it implements `ArcSet` |
| `long_list` | the same, with `kAdjLinearSearchLimit` 1 | finding 1 |
| `fsm_delete` | the same with a label that is a terminal but not lexical, such as epsilon | finding 2 |
| `canonical_lex` | 3 states, 2 terminals, 1 nonterminal; clients clear the cache and unlabel what they drop | all properties of `CanonicalLex` |
| `reused_state` | 2 states; clients do not unlabel | finding 3 |
| `best_path` | graphs and hypergraphs with up to 5 inner states and 8 arcs, some or all of a template: cycles, ties, repeated tails, three tails, costs from -2; 0 or 2 reaches again; 1, 3 or 8 derivations with 0 to 2 ties | all properties of `BestTree` and `Nbest` but those of the next row; about 112,000 states |
| `lost_tree` | the hypergraphs of `Swaps`, costs from 0 | finding 4 |
| `save_fst` | pairs of transducers with 1 to 8 states: epsilons on both sides, sigma, rho, phi, cycles, a fan of six arcs; three filters; margins 0, 2, 3; search and whole composition | all properties of `SaveFst`, `LazyBest` and `SavedComposition` but those of the next rows, and that `SaveFst` implements `GraphCopy`; about 119,000 states |
| `late_update` | pairs in which an improved state is queued twice; no margin | finding 5 |
| `lost_phi` | phi arcs next to epsilon outputs of the input, three filters | finding 6 |
| `lost_end` | the first family of these, search only | finding 7 |

Properties, in the words of the code:

* `ConsumerEndsLast`: the flag is raised after the join, so the consumer ends when
  nothing will be pushed and nothing is left. `NothingLostAtReturn`: all updates of
  all examples are in the array at return. `RefinesGradientSum`: each exactly once,
  into an array that started from the regularizer's gradient for these parameters,
  also when the array was used by an earlier call. `BlocksPartitionExamples`,
  `FunctionValueIsTotal`, `EveryCallReturns`.
* `NoDanglingArcs`, `IndexesAgree`, `ForArcsVisitsOnce`, `InArcsNeverLeak`;
  `ArcsChangeAsAsked` relates a call to the arcs before and after: conversions keep them all,
  `deleteInArcs` where in-arcs are stored, `deleteOutArcs` where first-tail lists are and
  `restrict` by arcs take those they name, `rebuildArcAdjacencies` loses none; it says nothing
  of other calls. `RefinesArcSet`: what a client sees is a set of arcs that only adding,
  editing, filtering and renumbering change; it is a set, so that a second visit of an arc
  is not its subject.
* `CacheIsSound`: with `kCanonicalLex` set, every entry of the cache leads to an
  existing state with that label. `FreshStatesAreUnlabelled`: the assertion "because
  it's a new state", for clients that unlabel the states they drop.
  `SameStateForSameLabels`: entries are not overwritten.

* `QueueIsHeap` (of both searches): until a state is queued twice the queue is a heap for
  the distances as they are now at every step, though distances change while keys wait, and
  has each state once. That the map of places finds every key is not claimed: it does not
  (finding 4). `ReachedIsSettled`, `SettledStays`: what has left the
  queue, or has been built on, does not change any more where costs allow saying so.
  `TailsAreReached`: no arc is relaxed before all its tails have a cost. These and the next
  also hold until a state is queued twice, and runs `lost_tree` and
  `late_update` show what happens afterwards.
  `TreeIsBest`: no arc would improve any state, and `pi` leads to the axioms in a finite
  derivation that costs what `mu` says. `MarkedIsAcyclic`.
* `MemoIsSorted`, `MemoIsStable`: what a node has said to be its nth derivation stays so
  and comes in order. `NoChoiceTwice`: no combination of children is queued twice.
  `ListIsNbest` compares the list with all derivations, ties included. `Termination`:
  whatever the costs, the search and the listing end.
* `FlattenMerges`: the merge yields every arc of every generator, and best-first if the
  generators allow. `SavedIsComposition`: the saved hypergraph has one path for each
  pair of matching paths. `RefinesGraphCopy`: states get their own numbers and arcs are
  added once, however the recursion goes. `PathIsBest`, `NoneOnlyIfNone`: the search finds
  the cheapest path, or none if there is none. `ResultIsPath`: the hypergraph made of it
  reads and costs the same.

`SavedIsComposition`, `NoneOnlyIfNone` and the cost in `PathIsBest` are for inputs in which no
filter parts a phi from an epsilon (`IsPhiApart`): without epsilon outputs of the input, or
without phi, or with the filter that lets everything through; `lost_phi` is what the filters
do to the others, which are among the jobs of `save_fst` as well.

The other conditions in these properties are the code's own. `ListIsNbest` is for costs that
are not negative; `TreeIsBest` excludes searches in which the limit on reaching a state
again blocked an improvement, of which the program warns. `PathIsBest` needs arcs that
come no later than the margin `expandMoreArcs` allows, as the option's help says, and with
a margin above 0 a queue no longer than a top and its children: a margin makes the key of
an improved state worse, for which the heap has no operation. `SavedIsComposition` counts
paths, so it is stated for transducers without cycles; those with cycles are under
`RefinesGraphCopy` and `Termination`.

Bounds, and why they are enough. Five threads are four producers for three examples:
with 2, 3, 4 and 5 threads the blocks are even, uneven, single examples, and one of them
is empty. One slot per producer makes the queue full with two updates pending, so that
producers block before the consumer exists; more slots only postpone this. Two parameter
vectors distinguish a leftover of the last call from a part of this one. Two arcs
between two states, and a third state that may be the second tail, suffice for an arc
from a state to itself, for two arcs in a list, for arcs that share a tail and not a
head, for an address that is reused, and for one arc that decides whether the other is
visited as one of an FSM; the limit is reached by scaling it down, which is what
`long_list` does, because lists of 17 are out of reach. Three states with two terminals
let two states share a label, and one be renumbered over another. The inputs of
`best_path` and `save_fst` are all subsets of the arcs of a few templates, each arc with
one or two costs. Templates are made for a case: a diamond with a cheaper detour (a
state is improved while it waits), a cycle, a state that is a tail twice, three tails (a
joint in the forest), a fan wide enough for two levels of the heap, queues that come
down to two or three states of which one is then improved (`Swaps`), derivations that
all cost something else (so that the list is determined) and derivations that tie,
epsilons on both sides of a pair of states, phi arcs after and before epsilons. The heap
has the code's arity, 2 in best path and 4 in `fs/`. No run takes much more than a
minute. Bounds of the models and not of the code: `MaxThreads`, `MaxStates`, `ArcIds`,
`Shapes`, `MaxTails` (tails of an arc in the templates), `MaxHeight` (of the derivations
that the list is compared with).

Fairness. Best path and `saveFst` run in one thread that nothing holds up: weak fairness
of `Next` says only that it does not stop halfway (`Termination`). For the threads
(`FairSpec` of `ParallelUpdates`, for `EveryCallReturns` only): weak
fairness of each thread. A thread that can make a step eventually does, as the
operating system's scheduler provides. A producer that finds the queue full is
disabled until the consumer pops, and another producer may fill the free slot first.
Strong fairness is still not needed: each producer pushes a bounded number of updates,
so the others cannot take the slot from it forever. Nothing forces the optimizer to
call again.

## 4. What is proved

`ParallelUpdatesProofs`, from `DataAssumption` and `ThreadAssumption` (positive
numbers of examples and slots, at least two threads to choose from, well-typed
data) and for any number of threads, examples, updates and slots:

* `Invariance`: the inductive invariant `IInv`. It is needed because none of the
  properties is inductive: that the consumer leaves an empty queue depends on the
  flag being raised after the join, this on where the calling thread is, and that
  nothing is lost depends on how the updates delivered so far divide into queue,
  hand and array. Its parts: types; each worker within its block (`BlockInv`); what
  the loop that creates producers has done (`SpawnInv`: the end of the last block is
  `i * blockSize + min(i, rest)`); which states of the threads go together
  (`ThreadInv`); and that the queue and the hand hold distinct delivered updates.
* `TypeCorrect`, `BlocksArePartition`, `ConsumerIsLast`, `NothingLost` follow.
* `ValueIsTotal`: `FunctionValueIsTotal`, the value `update()` returns is the
  regularizer's and the sum of what every example reports. With `IInv` it needs that the
  blocks follow one another (`ChainInv`) and that the `result_` of a worker is the
  difference of two partial sums, up to the example it is at and up to its block
  (`ResultInv`), so that the results of all workers add up to the sum over the
  examples. The sum is a function defined by recursion on a number; that it adds one
  term at a time is a lemma (`SumBelowStep`, by `InductionUpTo`).
* `Refinement`: initial states map to initial states; a push, a pop and the steps
  of the calling thread map to stuttering, `AddPopped` and `AddDirectly` to the
  abstract `Apply` of an update not applied before, `Call` and `Return` to theirs.

`CanonicalLexProofs`, from `LabelAssumption`, for any symbols and number of states:

* `Labelling`: `LabelInv`, that is types, that no output label exists without
  `kHasOutputLabels` — needed because `restrict` looks at output labels only if that bit
  is set — and, under `ClientsUnlabel`, `FreshStatesAreUnlabelled`. `TypeCorrect` follows,
  and `NewStatesAreUnlabelled` for clients that unlabel the states they drop; run
  `reused_state` shows that they have to.
* `CacheCorrect`: under `ClientsClearCache` and `ClientsUnlabel`, `CacheIsSound`. The
  invariant says the same of the cache while `kCanonicalLex` is not set, because
  `forceCanonicalLex` sets it over whatever is cached. `StaleLex.cfg` shows that the first
  of these cannot be dropped.
* `EntriesAreStable`: the action property `SameStateForSameLabels`, without these
  assumptions.

`MutableHypergraphProofs`, for any number of states, arcs and any shapes, under three
conditions on what clients build: no arc has one state as two of its tails
(`DistinctTails`); there are no more arcs than `kAdjLinearSearchLimit`, so that no
list is longer (`ShortLists`); and arcs of an FSM have a lexical label on their second tail
and none on their first, and a vocabulary to ask (`LexicalLabels`). `RepeatedTail.cfg`,
`long_list`, and `fsm_delete` with `FsmEdit.cfg`, show that none can be dropped. Every
action is covered, conversions, deletions and renumberings included:

* `Invariance`: `IInv`, that there is a set of allocated arcs such that every list that
  is stored holds each of them once where its head, first tail or tails put it, and
  nothing else, that their heads and first tails are states, and that `kFsm`, where it
  says yes, is right of all of them. The set is needed because without in-arcs
  `restrict` leaves arcs allocated that are in no list, and a visit must be known to see
  each arc of the set once before anything built from a visit can be known to be right.
  `VisitsFacts` says that it does, whichever index is used (`FsmListsFacts` for FSMs);
  `Steps` is what every action then does to the set.
* `TypeCorrect`, `NothingDangles`, `IndexesAlwaysAgree`, `VisitedOnce` follow.
* `NothingForgotten`: the action property `InArcsNeverLeak`.
* `Refinement`: what clients see implements `ArcSet`. Conversions map to stuttering;
  a call that adds, edits, restricts or renumbers maps to the abstract step, where
  a renumbering with states that go nowhere is one of the arcs that stay.
* `ArcsAlwaysChangeAsAsked`: the action property `ArcsChangeAsAsked`, one case for each
  call, from what `Steps` says the call does to the set of arcs.

`DAryHeapProofs`, for any arity of at least 2 (`ArityAssumption`), any set of keys and any
integer distances:

* `PushOrUpdateKeepsTheHeap`, `PopKeepsTheHeap`: what they leave is a heap in order
  for the distances given, with the keys it should have, each once (`IsQueue`). Nothing is
  said of the map of places, for it is wrong after a swap; so `PushOrUpdate` is for a key
  that is found at its place or is not queued. For
  `PushOrUpdate` the heap before need only be in order except at the key whose distance
  has just improved, which is how `relax` calls it. The proofs follow the hole: while
  it moves, every key but the one that is to fill it is there once, and no child of
  the hole is better than the hole's parent. That the keys are kept does not depend on the
  distances being in order; the proofs have this part apart, for a caller who has made a
  key worse.
* What these and the proofs of both searches need of induction comes first. The library's
  induction theorems take a predicate as a parameter, which the provers cannot
  instantiate; here a predicate is a set of numbers, taken from the well-foundedness of
  the numbers as the library states it. `RecursionExists` gives the function that a
  recursive definition over a number or over a measure denotes; `LoopEnds` and `ForKeeps`
  are the rules for a loop that makes a measure smaller and for one that counts.

`BestTreeProofs`, for any hypergraphs, limits on reaching again and arities, from
`JobsAssumption`, `NumStatesAssumption`, `UnreachableAssumption` (a positive number),
`MaxBackEdgesAssumption` (a count), `MaxCountAssumption` (a positive number) and
`ArityAssumption`:

* `Invariance`: `IInv`. It has the types; what is unchanged before the search begins
  (`NothingYet`) and empty at its end (`EndInv`); and, as long as no state was queued twice
  (`OnceInv`), that the queue is a heap that has each state once (`QueueInv`);
  that what is queued or was popped has a cost (`CostInv`); that the agenda is about the
  state popped last (`AgendaInv`); that `remain` is no less than the number of tails yet to
  be counted (`RemainInv`: no less and not equal, because an arc into a state that
  may not be reached again is passed over before it is counted); and Knuth's
  argument (`KnuthInv`): without negative costs states are popped in the order of their
  costs, so none that is queued is cheaper than the last one popped.
* `TypeIsKept`, without any condition: it says nothing of the count of tails but that it is a
  number. `QueueIsKept`; `CountedTailsHaveCosts` (`TailsAreReached`), from
  `RemainInv` and `CostInv`; `ReachedStaysSettled` (the action property `ReachedIsSettled`),
  from `KnuthInv`: each until a state is queued twice, after which the program does not have
  these properties (finding 4). The first three need nothing of the costs.
* `SearchFindsBestCosts`: without negative costs, when the best-first search ends and no
  state was queued twice, `mu[s]` is the cost of some derivation of `s` and of none less. The
  derivations are not built: `HasDerivation(s, c)` says that `<<s, c>>` is in every set
  that has the axioms at no cost and is closed under the arcs. That `mu[s]` is in it
  follows along `pi`, which has no cycle; that nothing less is, from the set of all pairs
  that cost at least `mu`, which is closed because every arc is relaxed (`DoneInv`).
* `SearchFindsATree`: under the same conditions `pi` then leads down to the axioms
  without a cycle, along arcs that cost what `mu` says. `TreeInv` is what the search
  keeps to that end: an arc whose tails have all been counted is relaxed, and the arc of
  a state has popped tails only.
* `MarkedHasNoCycle` (`MarkedIsAcyclic`), from `DfsInv`, which every step of the depth first
  visit keeps: the calls under way are the opened states (`CallInv`), the order is the
  closed ones, each once (`OrderInv`), what has been opened is led to by the start state
  (`SeenInv`), and as long as no back edge was counted the arcs of a closed state lead to
  states closed before it, or back to it (`ArcInv`). The model takes as many steps as there
  are arcs and states; that this is enough (`TailsLastEnds`) is shown by `StepsLeft`, the
  arcs not yet followed and the states not yet closed, of which each step takes one away.
* `AcyclicFindsBestPaths`: for a graph without cycles but self loops that gain nothing, one
  pass over that order makes `mu` exact for all states the start state leads to,
  and `pi` leads from each back to the start. Costs may be negative, which best-first
  search does not allow; they, and those of paths, are below that of no path.
  `HasPath(s, c)` is a least set as `HasDerivation` is. `IsRelaxation(k, mu, pi)` is
  the invariant: with `k` states left, no arc out of the others improves anything, a cost
  is that of a path, and the arc of a state comes from a state already relaxed from, whose
  cost is final because arcs only lead to states that are still to come.
  `IsRelaxedFrom` is the same within one state's arcs. Nothing is claimed of graphs with
  back edges, which the default `acyclicMaxBackEdges` leaves to best-first search.

`NbestProofs`, from the assumptions of `BestTreeProofs`, for any hypergraphs, requests and
costs, negative ones and cycles included:

* `ForestInvariance`: `ForestInv`. Next to the invariant of the best tree it has what holds in
  each phase. While the queues are put in order and repaired (`FirstInv`, `SortInv`,
  `FixInv`) a node knows at most one derivation, which is the one in front of its queue;
  edges take the best derivations of their children; a derivation has the children of its
  edge, or those in front of their queues; an inner derivation is that of an edge. During
  the listing (`ListInv`) only the last derivation of a node may be pending, and after the
  one that there was not there are no others (`MemosInv`); what an edge takes of its
  children is known (`EdgesInv`); each call that waits has asked for the next derivation of
  a child of the edge in its hand, the one being computed is pending, and no two calls
  work on the same node (`StackInv`); what was returned is what was asked for
  (`AnswerInv`). The parts need each other: that a child's next derivation may be taken
  when its call has returned depends on what the calls above it have left alone meanwhile,
  and the code holds no lock or copy that would say so.
* `ForestRefersToItself` (`NbestTypeOK`): no derivation, queue or memo refers to what is
  not there. `MemosNeverChange` (the action property `MemoIsStable`): a memo is filled
  in once, when it is pending.
* `ChoicesAreQueuedOnce` (`NoChoiceTwice`). Being different is not inductive, for two
  edges might become equal by their successors. `ChoiceInv` says that neither of two
  edges of a queue leads to the other by successors (`Reaches`, `Apart`), where the
  second place may go on only while the first is 0; and that the edge in hand, which has
  left the queue, is apart from those in it, by one place more once its first successor
  has been queued.
* `MemosAreInOrder` (`MemoIsSorted`). `InOrderInv` says that nothing known of a node
  costs more than what is in its queue or in the hand of a call on it (`NotBefore`). A
  successor costs no less than the edge it comes from because the child's derivations
  come in order, which is the same invariant at another node, perhaps at the same one
  when the child is on a cycle. At first it holds because what is in front of a queue is
  best there, also after `fix_edges` has changed what derivations cost: that is so only
  if the tree is tight (`IsTight`), and `FrontIsBest` carries it through that phase.

`GraphCopyProofs`, without any assumption, for any graph:

* `AlwaysNumbersDiffer`, `AlwaysReachablePart`, `AlwaysNumbersStay`. Reachability is
  stated without paths: the numbered states are in every set that has the start state
  in it and that no arc leaves, and at the end they are such a set. `save_fst` shows that
  the depth-first copy of `SaveFst.hpp` implements `GraphCopy`, and so has these
  properties.

`SaveFstProofs`, for any transducer, finite or not, and any margin, from `JobsAssumption`
(what is saved is a transducer) and `ArityAssumption`; only `MergesAreComplete` needs
`CompositionsAssumption`, that the transducer is a composition:

* `TypeCorrect`: `TypeOK`, from `IInv`, which has the types of the search and of the stack
  of calls, and that hypergraphs are hypergraphs: the ends of their arcs are states,
  after the epsilons of a path are taken out and after a final state is added.
* `SavingIsCopying`: the property `RefinesGraphCopy`. A new state's number is the abstract
  `Visit`, an arc is added where it is popped from its call's list, the treatment
  of final states is a stutter, as is all of the search. `SavedIsReachablePart` is what
  `GraphCopyProofs` then says of what was saved, by `INSTANCE`.
* `GivesUpOnlyWithoutPath`: the search returns no path only if the transducer has none.
  `WorkInv` is why: a state that was reached is in the queue as long as it has
  arcs left, and what was taken from it was reached. Nothing is assumed of costs.
* `QueueIsKept` and `SettledStates` (the property `SettledStays`), under `NoNegativeCost` and
  until a state is queued twice (finding 5).
  `PriceInv` says what keys and distances have to do with each other and with the
  predecessor links, which have no cycle. `QueueOrder` is why a key that is changed while
  it waits is changed for the better. `SettledInv` is Dijkstra's argument: what is settled is
  no farther than what waits.
* `EndsWithBestPath`: the path that is returned leads from the start to a final state,
  and no other that does costs less if no state was queued twice. Paths are sequences of
  arc numbers. That no path costs less goes along the path (where it leaves the settled
  states, the queue holds a state that is no farther); that the path returned is one
  follows the predecessor links back, of which there are at most as many as states
  reached.
* `MergesAreComplete` (`FlattenMerges`): for any two transducers, any filter and any
  composed state, the merge yields each arc as often as the generators do, and best-first
  if the generators are and come in the order of their first arcs. The invariant of a turn
  of the merge, `IsMerging`: the queue is a heap of just the generators that were started
  and are not exhausted; what is left of each generator is an end of what it yields, and
  all of it from the base on; each arc was yielded as often as it was taken; and in
  the ordered case nothing that was yielded costs more than anything left. That the
  top of a heap is its best key is not enough for the last part: the generators not yet
  started are no cheaper because the base, from which nothing was taken, is still queued.
  The merge is complete because a turn takes one arc unless the queue is empty, and
  then the base is past the last generator.

`NoNegativeCost` is there because with negative costs the search needs a negative
heuristic, as the comment at `fs/Fst.hpp:60` says, and the model is of a heuristic of 0. It
is a hypothesis of these theorems and not an assumption on the constants, because
copying does not need it. The order of the arcs and the margin appear in the theorems as
in the properties: a margin of 0, or a queue that is a top and its children, and arcs
that come no later than the margin allows.

Only model-checked:

* liveness (`EveryCallReturns` and the two `Termination`s), which is out of the
  prover's reach;
* what does not hold: `EveryTailIsAState`, `TailsAlwaysReached`, `PathIsAlwaysBest`,
  `NeverHidesLastPath` and the others of section 5;
* of the best tree, `TreeIsBest` as it stands, which compares with recursively built
  trees. `SearchFindsBestCosts` and `SearchFindsATree` say the same, with derivations as a
  least set, for costs that are not negative, and `AcyclicFindsBestPaths` where
  `AcyclicBest` runs without back edges; what is left to the run is best-first search
  with negative costs in which no improvement was blocked;
* `ListIsNbest`, which compares the list with the set of all derivations, built
  recursively; proved is what it rests on, that no node lists a derivation before a cheaper
  one and none is queued twice;
* what composition means (`SavedIsComposition`, `PathIsBest`, `NoneOnlyIfNone`,
  `ResultIsPath`): what these compare with is computed recursively, over paths.
  `EndsWithBestPath` and `GivesUpOnlyWithoutPath` say of every transducer
  what `PathIsBest` and `NoneOnlyIfNone` say of a composition, and `MergesAreComplete`
  that the arcs of a composed state are those its generators yield; what is missing
  between them is that these are the `Steps` of its two states.

## 5. Disagreements found

1. `long_list`: lists longer than `kAdjLinearSearchLimit` keep pointers to deleted
   arcs, because the states to clean up are collected in `interested_` and looked
   for in `interestedStates_` (`MutableHypergraph.hpp:371`, `417`, `600`).
2. `fsm_delete`: `forArcs` over an FSM with all-tails lists visits an arc twice if the
   label of its second tail is a terminal but not lexical, such as epsilon; `forceInArcs`
   stores it twice, and `deleteInArcs` deletes it twice (`IHypergraphForArcs.ipp:58`,
   `187`, `MutableHypergraph.hpp:1336`).
3. `reused_state`: `deleteState` and `removeLastState` leave the labels of the state they
   drop to the next one with its number (`MutableHypergraph.hpp:347`, `963`, `118`).
4. `lost_tree`: `swap_heap_elements` swaps two keys through references and then writes
   their places through the same references, so that each key gets the place it has just
   left; `pop` and `adjust_top` call it when 2 to `Arity` keys are left and the first is not
   the best (`d_ary_heap.hpp:638`, `843`). `contains` does not find such a key, and
   `push_or_update` queues it again. In the best-first search it is then popped twice, and
   the count of tails of its arcs goes down twice (`tails_up_hypergraph.hpp:571`): an arc is
   relaxed from a tail that has no cost, the count goes below zero, and best path says that
   there is no path to a final state that has a derivation (`BestPath.hpp:1228`). No cost is
   negative.
5. `late_update`: in the lazy search the improved state is queued again, and its old copy
   stays below worse keys; the path found is not the cheapest (`fs/LazyBest.hpp:303`, `91`).
6. `lost_phi`: the filters that order epsilons treat a phi as an epsilon of the match
   transducer and forbid it after an epsilon of the input, where no other order exists
   (`fs/Compose.hpp:702`, `291`, `34`).
7. `lost_end`: if the last arc of the best path has no label and others have,
   `addToHypergraph` leaves no path to the final state (`fs/Path.hpp:251`, `297`).

Other behaviour that differs from a comment in the code, with the configuration that
shows it. These configurations are kept for a reader to run; they are not among the runs.

* `RepeatedTail.cfg`, of `MCMutableHypergraph`: narrowing all-tails lists leaves an arc twice
  in the list of a state that is two of its tails, and every visit sees it twice
  (`MutableHypergraph.hpp:1306`, `IHypergraph.hpp:365`).
* `LostTail.cfg`, of the same: `maxTail` sees first tails only when first-tail lists are
  stored, so `restrict` may leave `size()` no greater than a second tail
  (`HypergraphBase.cpp:37`, `HypergraphBase.hpp:1081`).
* `FsmEdit.cfg`, of the same: without a vocabulary, `rebuildArcAdjacencies` of an FSM loses an
  arc whose first tail was edited (`IHypergraphForArcs.ipp:53`, `IMutableHypergraph.hpp:496`).
* `StaleLex.cfg`, of `CanonicalLex`: `ensureCanonicalLex` and `forceCanonicalLex` do not
  invalidate the cache, and changing labels does not empty it (`MutableHypergraph.hpp:165`,
  `HypergraphBase.hpp:885`, `891`).
* `StartLoop.cfg`, of `MCBestPath`: an arc into a state without tails leaves that state
  a forest in which only the loop is a hyperedge; with positive costs, `get_best` throws
  `lazy_derivation_cycle`, which it explains by a negative cost (`BestPath.hpp:975`,
  `lazy_forest_kbest.hpp:661`).
* `FreeLoop.cfg`, of the same: with a cycle that costs nothing and costs that tie, `fix_edges`
  makes a derivation its own descendant and reading it does not end
  (`lazy_forest_kbest.hpp:594`, `BestPath.hpp:853`, `833`).

## 6. What is not modelled

Arc indexes and labels: `sortArcs`; `orderGraphStates`, `deleteOutArcsExcept`,
`setOutArcs`, `clearOutArcs` and `replaceFirstTailOutArcsMove`, which nothing that the
repository runs calls; the computed properties `kGraph`, `kOneLexical` and
`kSortedOutArcs`; labels that change while there are arcs, which leave `kFsm` as it was
(`MutableHypergraph.hpp:1116`). Of `forcePropertiesOnOff` the index bits are modelled,
for hypergraphs with a final state. On others it sets the bits without converting
anything and may set both `kStoreOutArcs` and `kStoreFirstTailOutArcs`, "only one of"
which "will be set" (`IMutableHypergraph.hpp:385`, `Properties.hpp:74`): clients of the
model do not ask for that.

Threads: floating point; exceptions in producer threads (they end the process); the
memory model below the granularity of one push, pop or flag access, which the
lock-free queue and `std::atomic` provide.

Best path: weights other than costs that add up; the convergence option,
`throw_on_rereach_limit`, the filter on strings (`maxPerString`), back edges allowed in
`AcyclicBest` (`acyclicMaxBackEdges` is 0) and its search from the final state down for
hypergraphs that store in-arcs; `mark_reached`'s assertions (it is modelled as a release
build compiles it). That `heapify` starts below the parent of the last key is modelled
but shows in no run: its one caller gives it axioms, whose costs are all 0.

`fs/`: annotations, heuristics other than 0, mixing scales of the weights, an infinite
margin, input read through `ConstHypergraphFst`, `lazyBestForHgUnsorted` (which drops
its options before it uses them, `LazyBest.hpp:359`). Costs are not negative. Arcs that
cost the same keep their order when sorted, where `std::sort` promises nothing.

Other components, and why they were left out. The training example stores provide
what `ParallelUpdates` takes as constants. `prepareTraining`
divides sentences into blocks as `getUpdatesParallel` does and writes only their order.
The online optimizer is a sequential loop around floating-point formulas. The vocabulary
hands out indexes in one thread; it has state worth a model, and so have the
chart-based composition (an Earley parser of more than a thousand lines) and weighted
determinization, which were not reached. The rest is parsing, I/O, configuration, or
copies of other libraries.
