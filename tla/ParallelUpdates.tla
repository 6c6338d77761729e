---------------------------- MODULE ParallelUpdates ----------------------------
(***************************************************************************)
(* DataObjectiveFunction::update and getUpdatesParallel                    *)
(* (src/sdl/Optimization/ObjectiveFunction.hpp): the calling thread splits *)
(* the training examples into consecutive blocks, one producer thread per  *)
(* block pushes the gradient updates of its examples on a bounded          *)
(* lock-free queue, one consumer thread pops them and adds them to the     *)
(* gradient array, and the calling thread joins the producers, raises      *)
(* areProducersDone, joins the consumer and sums the producers' results.   *)
(*                                                                         *)
(* One action is one access to what threads share: a push, a pop, a load   *)
(* of areProducersDone, an addition to the gradient array.  With one       *)
(* thread the calling thread is itself the only worker and its updates go  *)
(* straight to the gradient array.                                         *)
(***************************************************************************)
EXTENDS TrainingData

CONSTANTS
  MaxThreads,      (* bound of the model: setNumThreads asks for no more   *)
  SlotsPerProducer (* the queue holds this many pairs per producer         *)

ASSUME ThreadAssumption ==
  /\ MaxThreads \in Nat \ {0, 1}
  /\ SlotsPerProducer \in Nat \ {0}

VARIABLES
  numThreads,   (* numThreads_                                             *)
  main,         (* where the calling thread is                             *)
  weights,      (* the weights of the hypergraphs: setFeatureWeights       *)
  spawned,      (* workers created so far: i of the loop                   *)
  prevBlockEnd, (* where the next block begins                             *)
  worker,       (* [i]: "unborn", "running" or "done"                      *)
  blockBegin, blockEnd, (* [i]: begin_ and end_ of CallGetUpdates          *)
  example,      (* [i]: the example the worker is at                       *)
  pushes,       (* [i]: how many updates of that example it has delivered  *)
  result,       (* [i]: fctValDelta, result_ when the worker is done       *)
  queue,        (* the lock-free queue, oldest first                       *)
  areProducersDone,
  consumer,     (* where the consumer thread is                            *)
  popped,       (* at most one update: popped and not yet added            *)
  gradient,     (* resultingGradients                                      *)
  fctVal        (* fctVal_                                                 *)

mainVars == <<numThreads, main, weights, spawned, prevBlockEnd, fctVal>>
workerVars == <<worker, blockBegin, blockEnd, example, pushes, result>>
consumerVars == <<consumer, popped>>
vars == <<mainVars, workerVars, queue, areProducersDone, consumerVars, gradient>>

Workers == 0 .. MaxThreads - 2
IsParallel == numThreads # 1
NumProducers == numThreads - 1  \* one of the threads is the consumer
Capacity == SlotsPerProducer * NumProducers

(* TrainingDataIndex blockSize and rest *)
BlockSize == NumExamples \div NumProducers
Rest == NumExamples % NumProducers
BlockLengthWithoutRest(i) == BlockSize                              \* mutant
BlockLength(i) == BlockSize + (IF i < Rest THEN 1 ELSE 0)

MainStates ==
  {"idle", "spawn", "spawnConsumer", "joinProducers", "joinConsumer", "sequential"}
ConsumerStates ==
  {"unborn", "test", "poll", "pollAdd", "drain", "drainAdd", "exited"}

-----------------------------------------------------------------------------
(* The calling thread *)

Init ==
  /\ numThreads = 1
  /\ main = "idle"
  /\ weights \in Params
  /\ spawned = 0
  /\ prevBlockEnd = 0
  /\ worker = [i \in Workers |-> "unborn"]
  /\ blockBegin = [i \in Workers |-> 0]
  /\ blockEnd = [i \in Workers |-> 0]
  /\ example = [i \in Workers |-> 0]
  /\ pushes = [i \in Workers |-> 0]
  /\ result = [i \in Workers |-> 0]
  /\ queue = <<>>
  /\ areProducersDone = FALSE
  /\ consumer = "unborn"
  /\ popped = {}
  /\ gradient = StartGradient(weights)
  /\ fctVal = RegValue[weights] * NumExamples

SetNumThreads(n) ==
  /\ main = "idle"
  /\ numThreads' = n
  /\ UNCHANGED <<main, weights, spawned, prevBlockEnd, fctVal, workerVars,
                 queue, areProducersDone, consumerVars, gradient>>

(* zeroGradients and regularize *)
GradientNotZeroed(w) ==                                             \* mutant
  [f \in Features |-> gradient[f] + StartGradient(w)[f]]
GradientAtStart(w) == StartGradient(w)

(* update() up to getUpdates or the loop of getUpdatesParallel: the weights
   are inserted, the gradients zeroed, the function value initialized and
   the regularizer added; queue and producers are fresh. *)
Call(w) ==
  /\ main = "idle"
  /\ main' = IF IsParallel THEN "spawn" ELSE "sequential"
  /\ weights' = w
  /\ gradient' = GradientAtStart(w)
  /\ fctVal' = RegValue[w] * NumExamples
  /\ spawned' = IF IsParallel THEN 0 ELSE 1
  /\ prevBlockEnd' = 0
  /\ worker' = [i \in Workers |->
                   IF ~IsParallel /\ i = 0 THEN "running" ELSE "unborn"]
  /\ blockBegin' = [i \in Workers |-> 0]
  /\ blockEnd' = [i \in Workers |->
                     IF ~IsParallel /\ i = 0 THEN NumExamples ELSE 0]
  /\ example' = [i \in Workers |-> 0]
  /\ pushes' = [i \in Workers |-> 0]
  /\ result' = [i \in Workers |-> 0]
  /\ queue' = <<>>
  /\ areProducersDone' = FALSE
  /\ consumer' = "unborn"
  /\ popped' = {}
  /\ UNCHANGED numThreads

(* one round of the loop that creates the producers *)
SpawnProducer ==
  /\ main = "spawn"
  /\ LET i == spawned
         end == prevBlockEnd + BlockLength(i)
     IN  /\ blockBegin' = [blockBegin EXCEPT ![i] = prevBlockEnd]
         /\ blockEnd' = [blockEnd EXCEPT ![i] = end]
         /\ example' = [example EXCEPT ![i] = prevBlockEnd]
         /\ worker' = [worker EXCEPT ![i] = "running"]
         /\ prevBlockEnd' = end
         /\ spawned' = i + 1
         /\ main' = IF i + 1 >= NumProducers THEN "spawnConsumer" ELSE "spawn"
  /\ UNCHANGED <<numThreads, weights, fctVal, pushes, result, queue, areProducersDone,
                 consumerVars, gradient>>

(* producerThreads.join_all() *)
JoinsNobody == TRUE                                                 \* mutant
ProducersJoined == \A i \in 0 .. NumProducers - 1 : worker[i] = "done"

SpawnConsumerLate ==                                                \* mutant
  /\ main = "spawnConsumer"
  /\ ProducersJoined
  /\ main' = "joinProducers"
  /\ consumer' = "test"
  /\ UNCHANGED <<numThreads, weights, spawned, prevBlockEnd, fctVal,
                 workerVars, queue, areProducersDone, popped, gradient>>
SpawnConsumer ==
  /\ main = "spawnConsumer"
  /\ main' = "joinProducers"
  /\ consumer' = "test"
  /\ UNCHANGED <<numThreads, weights, spawned, prevBlockEnd, fctVal, workerVars, queue,
                 areProducersDone, popped, gradient>>

(* producerThreads.join_all(); areProducersDone = true *)
JoinProducers ==
  /\ main = "joinProducers"
  /\ ProducersJoined
  /\ areProducersDone' = TRUE
  /\ main' = "joinConsumer"
  /\ UNCHANGED <<numThreads, weights, spawned, prevBlockEnd, fctVal, workerVars, queue,
                 consumerVars, gradient>>

(* consumerThreads.join_all(), the sum of the producers' results, and the
   return of update(): only the calling thread is left *)
Return ==
  /\ \/ main = "joinConsumer" /\ consumer = "exited"
     \/ main = "sequential" /\ worker[0] = "done"
  /\ main' = "idle"
  /\ fctVal' = fctVal + Scaled(SumBelow(result, spawned))
  /\ UNCHANGED <<numThreads, weights, spawned, prevBlockEnd, workerVars, queue,
                 areProducersDone, consumerVars, gradient>>

-----------------------------------------------------------------------------
(* A worker: CallGetUpdates and HypergraphCrfObjFct::getUpdates *)

UpdatesDue(i) == Len(ExampleUpdates[weights][example[i]])

AtExample(i) == worker[i] = "running" /\ example[i] < blockEnd[i]

NextUpdate(i) == <<weights, example[i], pushes[i] + 1>>

QueueHasRoomAndOne == Len(queue) <= Capacity                        \* mutant
QueueHasRoom == Len(queue) < Capacity

(* GradientUpdate_Queue::update: bounded_push fails, and is retried, while
   the queue is full *)
Push(i) ==
  /\ IsParallel
  /\ AtExample(i)
  /\ pushes[i] < UpdatesDue(i)
  /\ QueueHasRoom
  /\ queue' = Append(queue, NextUpdate(i))
  /\ pushes' = [pushes EXCEPT ![i] = @ + 1]
  /\ UNCHANGED <<mainVars, worker, blockBegin, blockEnd, example, result,
                 areProducersDone, consumerVars, gradient>>

(* with one thread update() is GradientUpdate's: straight to the array *)
AddDirectly(i) ==
  /\ ~IsParallel
  /\ AtExample(i)
  /\ pushes[i] < UpdatesDue(i)
  /\ gradient' = Added(gradient, NextUpdate(i))
  /\ pushes' = [pushes EXCEPT ![i] = @ + 1]
  /\ UNCHANGED <<mainVars, worker, blockBegin, blockEnd, example, result,
                 queue, areProducersDone, consumerVars>>

ResultOverwritten(i) == ExampleValue[weights][example[i]]           \* mutant
ResultWith(i) == result[i] + ExampleValue[weights][example[i]]

FinishExample(i) ==
  /\ AtExample(i)
  /\ pushes[i] = UpdatesDue(i)
  /\ result' = [result EXCEPT ![i] = ResultWith(i)]
  /\ example' = [example EXCEPT ![i] = @ + 1]
  /\ pushes' = [pushes EXCEPT ![i] = 0]
  /\ UNCHANGED <<mainVars, worker, blockBegin, blockEnd, queue,
                 areProducersDone, consumerVars, gradient>>

FinishWorker(i) ==
  /\ worker[i] = "running"
  /\ example[i] >= blockEnd[i]
  /\ worker' = [worker EXCEPT ![i] = "done"]
  /\ UNCHANGED <<mainVars, blockBegin, blockEnd, example, pushes, result,
                 queue, areProducersDone, consumerVars, gradient>>

Worker(i) == Push(i) \/ AddDirectly(i) \/ FinishExample(i) \/ FinishWorker(i)

-----------------------------------------------------------------------------
(* The consumer: ConsumeUpdates::operator() *)

(* while (!areProducersDone_) *)
TestDoneWithoutDrain ==                                             \* mutant
  /\ consumer = "test"
  /\ consumer' = IF areProducersDone THEN "exited" ELSE "poll"
  /\ UNCHANGED <<mainVars, workerVars, queue, areProducersDone, popped, gradient>>
TestDone ==
  /\ consumer = "test"
  /\ consumer' = IF areProducersDone THEN "drain" ELSE "poll"
  /\ UNCHANGED <<mainVars, workerVars, queue, areProducersDone, popped, gradient>>

(* while (queue_.pop(p)), in the loop and after it *)
PopFrom(here, add, empty) ==
  /\ consumer = here
  /\ IF queue = <<>>
     THEN consumer' = empty /\ UNCHANGED <<queue, popped>>
     ELSE /\ consumer' = add
          /\ popped' = {Head(queue)}
          /\ queue' = Tail(queue)
  /\ UNCHANGED <<mainVars, workerVars, areProducersDone, gradient>>

Pop == PopFrom("poll", "pollAdd", "test")

Drain == PopFrom("drain", "drainAdd", "exited")

(* update(p) *)
AddPopped ==
  /\ consumer \in {"pollAdd", "drainAdd"}
  /\ \E u \in popped : gradient' = Added(gradient, u)
  /\ popped' = {}
  /\ consumer' = IF consumer = "pollAdd" THEN "poll" ELSE "drain"
  /\ UNCHANGED <<mainVars, workerVars, queue, areProducersDone>>

Consumer == TestDone \/ Pop \/ Drain \/ AddPopped

-----------------------------------------------------------------------------
Main ==
  \/ \E n \in 1 .. MaxThreads : SetNumThreads(n)
  \/ \E w \in Params : Call(w)
  \/ SpawnProducer
  \/ SpawnConsumer
  \/ JoinProducers
  \/ Return

Next == Main \/ (\E i \in Workers : Worker(i)) \/ Consumer

(* Every created thread is scheduled; the optimizer need not call again *)
Fairness ==
  /\ WF_vars(SpawnProducer) /\ WF_vars(SpawnConsumer)
  /\ WF_vars(JoinProducers) /\ WF_vars(Return)
  /\ \A i \in Workers : WF_vars(Worker(i))
  /\ WF_vars(Consumer)

Spec == Init /\ [][Next]_vars

FairSpec == Spec /\ Fairness

-----------------------------------------------------------------------------
(* Properties *)

(* the updates worker i has handed over, and all of them *)
Delivered(i) ==
  {u \in UpdateNames(weights) :
     \/ u[2] \in blockBegin[i] .. example[i] - 1
     \/ u[2] = example[i] /\ u[3] <= pushes[i]}

AllDelivered == UNION {Delivered(i) : i \in Workers}

InQueue == {queue[j] : j \in 1 .. Len(queue)}

(* the updates that have reached the gradient array *)
Applied == AllDelivered \ (InQueue \cup popped)

(* Types of the variables (FunctionValueIsTotal gives fctVal's): the queue
   never holds more pairs than it was created for, and the consumer has at
   most one pair in hand. *)
TypeOK ==
  /\ main \in MainStates
  /\ weights \in Params
  /\ numThreads \in 1 .. MaxThreads
  /\ spawned \in Nat
  /\ prevBlockEnd \in Nat
  /\ worker \in [Workers -> {"unborn", "running", "done"}]
  /\ blockBegin \in [Workers -> Nat]
  /\ blockEnd \in [Workers -> Nat]
  /\ example \in [Workers -> Nat]
  /\ pushes \in [Workers -> Nat]
  /\ result \in [Workers -> Int]
  /\ queue \in Seq(UpdateNames(weights))
  /\ Len(queue) <= Capacity
  /\ areProducersDone \in BOOLEAN
  /\ consumer \in ConsumerStates
  /\ popped \in SUBSET UpdateNames(weights)
  /\ \A u, v \in popped : u = v
  /\ gradient \in [Features -> Int]

(* The loop that creates the producers cuts [0, NumExamples) into disjoint
   consecutive blocks, and once it has ended no example is left out
   ("process one more in the first 'rest' threads so no training examples
   are left out"). *)
BlocksPartitionExamples ==
  /\ \A i, j \in Workers :
       i < j /\ j < spawned => blockEnd[i] <= blockBegin[j]
  /\ main \in {"spawnConsumer", "joinProducers", "joinConsumer"} =>
       \A e \in Examples :
         \E i \in Workers : blockBegin[i] <= e /\ e < blockEnd[i]

(* The consumer ends only when nothing will ever be pushed again and nothing
   is left in the queue: a producer still running would otherwise spin for
   ever on a full queue, and a pair left behind would be lost. *)
ConsumerEndsLast ==
  consumer = "exited" =>
    /\ queue = <<>> /\ popped = {}
    /\ \A i \in Workers : worker[i] # "running"

(* When update() has returned, every update of every example is in the
   gradient array. *)
NothingLostAtReturn ==
  main = "idle" /\ spawned > 0 => Applied = UpdateNames(weights)

(* update() returns the regularizer's value plus what every example adds,
   each counted once. *)
FunctionValueIsTotal ==
  main = "idle" /\ spawned > 0 =>
    fctVal = RegValue[weights] * NumExamples
             + Scaled(SumBelow(ExampleValue[weights], NumExamples))

(* Whatever the interleaving of the threads, the gradient array receives
   each update exactly once before the call returns. *)
Sequential ==
  INSTANCE GradientSum WITH
    busy <- main # "idle",
    params <- weights,
    applied <- Applied

RefinesGradientSum == Sequential!Spec

(* Every call of update() returns: no thread waits for ever, although the
   producers block on a full queue and may fill it before the consumer has
   been created. *)
EveryCallReturns == (main # "idle") ~> (main = "idle")
=============================================================================
