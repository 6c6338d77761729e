------------------------- MODULE ParallelUpdatesProofs -------------------------
(***************************************************************************)
(* Theorems about ParallelUpdates for any number of threads, examples,     *)
(* updates per example and queue slots.                                    *)
(***************************************************************************)
EXTENDS ParallelUpdates, WellFoundedInduction, TLAPS

-----------------------------------------------------------------------------
(* The inductive invariant *)

(* Each worker's position within its block, and its block within the data *)
BlockInv ==
  \A i \in Workers :
    /\ blockBegin[i] <= example[i]
    /\ example[i] <= blockEnd[i]
    /\ blockEnd[i] <= NumExamples
    /\ example[i] = blockEnd[i] => pushes[i] = 0
    /\ example[i] < blockEnd[i] => pushes[i] <= UpdatesDue(i)
    /\ worker[i] = "unborn" => blockBegin[i] = 0 /\ blockEnd[i] = 0
    /\ worker[i] = "done" => example[i] = blockEnd[i]

Least(a, b) == IF a < b THEN a ELSE b

(* What the loop that creates the producers has done so far *)
SpawnInv ==
  /\ \A i \in Workers : worker[i] # "unborn" <=> i < spawned
  /\ \A i, j \in Workers : i < j /\ j < spawned => blockEnd[i] <= blockBegin[j]
  /\ main = "spawn" =>
       /\ numThreads >= 2
       /\ spawned < NumProducers
       /\ prevBlockEnd = spawned * BlockSize + Least(spawned, Rest)
  /\ main \in {"spawnConsumer", "joinProducers", "joinConsumer"} =>
       /\ numThreads >= 2
       /\ spawned = NumProducers
       /\ prevBlockEnd = NumExamples
  /\ main \in {"spawn", "spawnConsumer", "joinProducers", "joinConsumer"} =>
       /\ \A i \in Workers : i < spawned => blockEnd[i] <= prevBlockEnd
       /\ \A e \in 0 .. prevBlockEnd - 1 :
            \E i \in Workers : /\ i < spawned
                               /\ blockBegin[i] <= e
                               /\ e < blockEnd[i]
  /\ main = "sequential" =>
       numThreads = 1 /\ spawned = 1 /\ blockBegin[0] = 0 /\ blockEnd[0] = NumExamples

(* Which states of the threads go together *)
ThreadInv ==
  /\ main \in {"spawn", "spawnConsumer", "sequential"} => consumer = "unborn"
  /\ main = "joinProducers" => consumer \in {"test", "poll", "pollAdd"}
  /\ main = "joinConsumer" =>
       /\ consumer # "unborn"
       /\ areProducersDone
       /\ \A i \in Workers : worker[i] # "running"
  /\ main = "sequential" => queue = <<>>
  /\ main = "idle" =>
       /\ consumer \in {"unborn", "exited"}
       /\ queue = <<>>
       /\ \A i \in Workers : worker[i] # "running"
  /\ areProducersDone => main \in {"joinConsumer", "idle"}
  /\ consumer \in {"drain", "drainAdd", "exited"} => areProducersDone
  /\ consumer \in {"pollAdd", "drainAdd"} <=> popped # {}
  /\ consumer = "exited" => queue = <<>>

(* Every update in flight has been delivered and is in one place only *)
QueueInv ==
  /\ \A j \in 1 .. Len(queue) : queue[j] \in AllDelivered \ popped
  /\ \A j, k \in 1 .. Len(queue) : queue[j] = queue[k] => j = k
  /\ popped \subseteq AllDelivered

(* The blocks follow one another from the first example on *)
ChainInv ==
  /\ \A i \in Workers : i = 0 => blockBegin[i] = 0
  /\ \A i, j \in Workers : j = i + 1 /\ j < spawned => blockBegin[j] = blockEnd[i]
  /\ main \in {"spawn", "spawnConsumer", "joinProducers", "joinConsumer"} =>
       IF spawned = 0 THEN prevBlockEnd = 0 ELSE prevBlockEnd = blockEnd[spawned - 1]

(* What the examples before e add to the function value *)
ValueBelow(e) == SumBelow(ExampleValue[weights], e)

(* Each worker has summed its block up to the example it is at *)
ResultInv ==
  \A i \in Workers : result[i] = ValueBelow(example[i]) - ValueBelow(blockBegin[i])

(* During a call the function value is the regularizer's *)
ValueInv ==
  /\ main # "idle" => fctVal = RegValue[weights] * NumExamples
  /\ FunctionValueIsTotal

IInv == TypeOK /\ BlockInv /\ SpawnInv /\ ThreadInv /\ QueueInv /\ NothingLostAtReturn

-----------------------------------------------------------------------------
(* Lemmas about the data *)

(* An update has a parameter vector, an example and a position. *)
LEMMA UpdateNamesElements ==
  ASSUME NEW w, NEW u
  PROVE  u \in UpdateNames(w) <=>
           \E e \in Examples : \E k \in 1 .. Len(ExampleUpdates[w][e]) : u = <<w, e, k>>
BY DEF UpdateNames

(* The number of updates of an example is a natural number. *)
LEMMA UpdatesDueType ==
  ASSUME NEW w \in Params, NEW e \in Examples
  PROVE  /\ ExampleUpdates[w][e] \in Seq(UpdateRecord)
         /\ Len(ExampleUpdates[w][e]) \in Nat
BY DataAssumption DEF DataAssumption

(* Adding an update to a gradient array gives a gradient array. *)
LEMMA AddedType ==
  ASSUME NEW w \in Params, NEW u \in UpdateNames(w), NEW g \in [Features -> Int]
  PROVE  Added(g, u) \in [Features -> Int]
<1>1. PICK e \in Examples : \E k \in 1 .. Len(ExampleUpdates[w][e]) : u = <<w, e, k>>
  BY UpdateNamesElements
<1>. PICK k \in 1 .. Len(ExampleUpdates[w][e]) : u = <<w, e, k>>
  BY <1>1
<1>2. RecordOf(u) = ExampleUpdates[w][e][k]
  BY <1>1 DEF RecordOf
<1>3. RecordOf(u) \in UpdateRecord
  BY <1>2, UpdatesDueType
<1>4. /\ RecordOf(u).index \in Features
      /\ RecordOf(u).value \in Int
  BY <1>3 DEF UpdateRecord
<1>5. Scaled(RecordOf(u).value) \in Int
  BY <1>4, DataAssumption DEF DataAssumption, Scaled
<1>6. QED
  BY <1>4, <1>5 DEF Added

(* The gradient array update() starts from is one. *)
LEMMA StartGradientType ==
  ASSUME NEW w \in Params
  PROVE  StartGradient(w) \in [Features -> Int]
<1>1. \A f \in Features : RegGradient[w][f] * NumExamples \in Int
  BY DataAssumption DEF DataAssumption
<1>2. QED
  BY <1>1 DEF StartGradient

(* The block lengths add up: i blocks of BlockSize, the first Rest of them
   one longer, and NumProducers blocks are all the examples. *)
LEMMA BlockArithmetic ==
  ASSUME numThreads \in Nat, numThreads >= 2
  PROVE  /\ NumProducers \in Nat \ {0}
         /\ BlockSize \in Nat
         /\ Rest \in 0 .. NumProducers - 1
         /\ NumExamples = (NumProducers * BlockSize) + Rest
<1>1. NumProducers \in Nat \ {0}
  BY DEF NumProducers
<1>2. NumExamples \in Nat
  BY DataAssumption DEF DataAssumption
<1>3. ASSUME NEW n \in Nat, NEW p \in Nat \ {0}
      PROVE  /\ n \div p \in Nat
             /\ n % p \in 0 .. p - 1
             /\ n = (p * (n \div p)) + (n % p)
  OBVIOUS
<1>4. QED
  BY <1>1, <1>2, <1>3 DEF BlockSize, Rest

-----------------------------------------------------------------------------
(* Type correctness *)

(* One round of the loop that creates the producers: the next block is not
   empty-handed beyond the data, and the last one ends with it. *)
LEMMA SpawnArithmetic ==
  ASSUME TypeOK, SpawnInv, SpawnProducer
  PROVE  /\ spawned \in Workers
         /\ BlockLength(spawned) \in Nat
         /\ prevBlockEnd + BlockLength(spawned)
              = ((spawned + 1) * BlockSize) + Least(spawned + 1, Rest)
         /\ prevBlockEnd + BlockLength(spawned) <= NumExamples
         /\ spawned + 1 >= NumProducers =>
              /\ spawned + 1 = NumProducers
              /\ prevBlockEnd + BlockLength(spawned) = NumExamples
<1>1. /\ numThreads \in Nat /\ numThreads >= 2 /\ numThreads <= MaxThreads
      /\ spawned \in Nat /\ spawned < NumProducers
      /\ prevBlockEnd = (spawned * BlockSize) + Least(spawned, Rest)
  BY DEF SpawnProducer, SpawnInv, TypeOK
<1>2. /\ NumProducers \in Nat \ {0}
      /\ BlockSize \in Nat
      /\ Rest \in 0 .. NumProducers - 1
      /\ NumExamples = (NumProducers * BlockSize) + Rest
  BY <1>1, BlockArithmetic
<1>3. spawned \in Workers
  BY <1>1, ThreadAssumption DEF Workers, NumProducers
<1>4. BlockLength(spawned) \in Nat
  BY <1>2 DEF BlockLength
<1>5. (spawned + 1) * BlockSize = (spawned * BlockSize) + BlockSize
  BY <1>1, <1>2
<1>6. Least(spawned + 1, Rest) = Least(spawned, Rest) + (IF spawned < Rest THEN 1 ELSE 0)
  BY <1>1, <1>2 DEF Least
<1>7. spawned * BlockSize \in Nat /\ Least(spawned, Rest) \in Nat
  BY <1>1, <1>2 DEF Least
<1>8. prevBlockEnd + BlockLength(spawned)
        = ((spawned + 1) * BlockSize) + Least(spawned + 1, Rest)
  BY <1>1, <1>2, <1>5, <1>6, <1>7 DEF BlockLength
<1>9. ASSUME NEW a \in Nat, NEW b \in Nat, NEW c \in Nat, a <= b
      PROVE  a * c <= b * c /\ a * c \in Nat /\ b * c \in Nat
  <2>1. PICK d \in Nat : b = a + d
    BY <1>9
  <2>2. b * c = (a * c) + (d * c)
    BY <2>1
  <2>3. QED
    BY <2>2
<1>10. (spawned + 1) * BlockSize <= NumProducers * BlockSize
  BY <1>1, <1>2, <1>9
<1>11. Least(spawned + 1, Rest) <= Rest /\ Least(spawned + 1, Rest) \in Nat
  BY <1>1, <1>2 DEF Least
<1>12. prevBlockEnd + BlockLength(spawned) <= NumExamples
  BY <1>1, <1>2, <1>5, <1>7, <1>8, <1>10, <1>11, <1>9
<1>13. ASSUME spawned + 1 >= NumProducers
       PROVE  spawned + 1 = NumProducers /\ prevBlockEnd + BlockLength(spawned) = NumExamples
  <2>1. spawned + 1 = NumProducers
    BY <1>1, <1>2, <1>13
  <2>2. Least(spawned + 1, Rest) = Rest
    BY <1>2, <2>1 DEF Least
  <2>3. QED
    BY <1>2, <1>8, <2>1, <2>2
<1>14. QED
  BY <1>3, <1>4, <1>8, <1>12, <1>13

LEMMA InitTypeOK == Init => TypeOK
<1> SUFFICES ASSUME Init PROVE TypeOK
  OBVIOUS
<1>1. gradient \in [Features -> Int]
  BY StartGradientType DEF Init
<1>2. Capacity \in Nat
  BY ThreadAssumption DEF Init, Capacity, NumProducers
<1>3. queue \in Seq(UpdateNames(weights)) /\ Len(queue) <= Capacity
  BY <1>2 DEF Init
<1>4. numThreads \in 1 .. MaxThreads /\ weights \in Params
  BY ThreadAssumption DEF Init
<1>5. /\ worker \in [Workers -> {"unborn", "running", "done"}]
      /\ blockBegin \in [Workers -> Nat]
      /\ blockEnd \in [Workers -> Nat]
      /\ example \in [Workers -> Nat]
      /\ pushes \in [Workers -> Nat]
      /\ result \in [Workers -> Int]
  BY DEF Init
<1>6. popped \in SUBSET UpdateNames(weights) /\ \A u, v \in popped : u = v
  BY DEF Init
<1>7. /\ main \in MainStates
      /\ spawned \in Nat
      /\ prevBlockEnd \in Nat
      /\ areProducersDone \in BOOLEAN
      /\ consumer \in ConsumerStates
  BY DEF Init, MainStates, ConsumerStates
<1>8. QED
  BY <1>1, <1>3, <1>4, <1>5, <1>6, <1>7 DEF TypeOK

(* The update a worker delivers next is one of the call's. *)
LEMMA NextUpdateExists ==
  ASSUME TypeOK, BlockInv, NEW i \in Workers, AtExample(i), pushes[i] < UpdatesDue(i)
  PROVE  /\ NextUpdate(i) \in UpdateNames(weights)
         /\ NextUpdate(i) = <<weights, example[i], pushes[i] + 1>>
         /\ example[i] \in Examples
<1>1. example[i] \in Examples
  BY DataAssumption DEF DataAssumption, TypeOK, BlockInv, AtExample, Examples
<1>2. pushes[i] + 1 \in 1 .. Len(ExampleUpdates[weights][example[i]])
  BY <1>1, UpdatesDueType DEF TypeOK, UpdatesDue
<1>3. QED
  BY <1>1, <1>2, UpdateNamesElements DEF NextUpdate

LEMMA NextTypeOK ==
  ASSUME TypeOK, BlockInv, SpawnInv, ThreadInv, [Next]_vars
  PROVE  TypeOK'
<1>. USE DEF TypeOK
<1>1. ASSUME NEW n \in 1 .. MaxThreads, SetNumThreads(n)
      PROVE  TypeOK'
  <2>1. queue = <<>> /\ Capacity' \in Nat
    BY <1>1, ThreadAssumption DEF SetNumThreads, ThreadInv, Capacity, NumProducers
  <2>2. QED
    BY <1>1, <2>1 DEF SetNumThreads, workerVars, consumerVars
<1>2. ASSUME NEW w \in Params, Call(w)
      PROVE  TypeOK'
  <2>1. gradient' \in [Features -> Int]
    BY <1>2, StartGradientType DEF Call, GradientAtStart
  <2>2. Capacity' \in Nat
    BY <1>2, ThreadAssumption DEF Call, Capacity, NumProducers
  <2>3. NumExamples \in Nat
    BY DataAssumption DEF DataAssumption
  <2>4. queue' \in Seq(UpdateNames(weights)') /\ Len(queue') <= Capacity'
    BY <1>2, <2>2 DEF Call
  <2>5. /\ main' \in MainStates
        /\ weights' \in Params
        /\ numThreads' \in 1 .. MaxThreads
        /\ spawned' \in Nat
        /\ prevBlockEnd' \in Nat
        /\ areProducersDone' \in BOOLEAN
        /\ consumer' \in ConsumerStates
    BY <1>2 DEF Call, MainStates, ConsumerStates
  <2>6. /\ worker' \in [Workers -> {"unborn", "running", "done"}]
        /\ blockBegin' \in [Workers -> Nat]
        /\ blockEnd' \in [Workers -> Nat]
        /\ example' \in [Workers -> Nat]
        /\ pushes' \in [Workers -> Nat]
        /\ result' \in [Workers -> Int]
    BY <1>2, <2>3 DEF Call
  <2>7. popped' = {}
    BY <1>2 DEF Call
  <2>8. QED
    BY <2>1, <2>4, <2>5, <2>6, <2>7
<1>3. CASE SpawnProducer
  <2>1. prevBlockEnd + BlockLength(spawned) \in Nat
    BY <1>3, SpawnArithmetic
  <2>2. /\ main' \in MainStates
        /\ spawned' \in Nat
        /\ prevBlockEnd' \in Nat
    BY <1>3, <2>1 DEF SpawnProducer, MainStates
  <2>3. /\ worker' \in [Workers -> {"unborn", "running", "done"}]
        /\ blockBegin' \in [Workers -> Nat]
        /\ blockEnd' \in [Workers -> Nat]
        /\ example' \in [Workers -> Nat]
    BY <1>3, <2>1 DEF SpawnProducer
  <2>4. UNCHANGED <<numThreads, weights, pushes, result, queue, areProducersDone,
                    consumer, popped, gradient, Capacity>>
    BY <1>3 DEF SpawnProducer, Capacity, NumProducers, consumerVars
  <2>5. QED
    BY <2>2, <2>3, <2>4
<1>4. CASE SpawnConsumer
  BY <1>4 DEF SpawnConsumer, MainStates, ConsumerStates, Capacity, NumProducers, workerVars
<1>5. CASE JoinProducers
  BY <1>5 DEF JoinProducers, MainStates, Capacity, NumProducers, workerVars, consumerVars
<1>6. CASE Return
  BY <1>6 DEF Return, MainStates, Capacity, NumProducers, workerVars, consumerVars
<1>7. ASSUME NEW i \in Workers, Push(i)
      PROVE  TypeOK'
  <2>1. NextUpdate(i) \in UpdateNames(weights)
    BY <1>7, NextUpdateExists DEF Push
  <2>2. queue' \in Seq(UpdateNames(weights)) /\ Len(queue') = Len(queue) + 1
    BY <1>7, <2>1 DEF Push
  <2>3. Capacity \in Int
    BY ThreadAssumption DEF Capacity, NumProducers
  <2>4. QED
    BY <1>7, <2>2, <2>3 DEF Push, QueueHasRoom, Capacity, NumProducers, mainVars, consumerVars
<1>8. ASSUME NEW i \in Workers, AddDirectly(i)
      PROVE  TypeOK'
  <2>1. NextUpdate(i) \in UpdateNames(weights)
    BY <1>8, NextUpdateExists DEF AddDirectly
  <2>2. gradient' \in [Features -> Int]
    BY <1>8, <2>1, AddedType DEF AddDirectly
  <2>3. QED
    BY <1>8, <2>2 DEF AddDirectly, Capacity, NumProducers, mainVars, consumerVars
<1>9. ASSUME NEW i \in Workers, FinishExample(i)
      PROVE  TypeOK'
  <2>1. example[i] \in Examples
    BY <1>9, DataAssumption DEF DataAssumption, BlockInv, FinishExample, AtExample, Examples
  <2>2. ExampleValue[weights][example[i]] \in Int
    BY <2>1, DataAssumption DEF DataAssumption
  <2>3. example' \in [Workers -> Nat] /\ pushes' \in [Workers -> Nat]
    BY <1>9 DEF FinishExample
  <2>4. ResultWith(i) \in Int
    BY <2>2 DEF ResultWith
  <2>5. result' \in [Workers -> Int]
    BY <1>9, <2>4 DEF FinishExample
  <2>6. /\ UNCHANGED <<main, weights, numThreads, spawned, prevBlockEnd, worker>>
        /\ UNCHANGED <<blockBegin, blockEnd, queue, areProducersDone, consumer, popped, gradient>>
    BY <1>9 DEF FinishExample, mainVars, consumerVars
  <2>7. Capacity' = Capacity
    BY <2>6 DEF Capacity, NumProducers
  <2>8. QED
    BY <2>3, <2>5, <2>6, <2>7
<1>10. ASSUME NEW i \in Workers, FinishWorker(i)
       PROVE  TypeOK'
  BY <1>10 DEF FinishWorker, Capacity, NumProducers, mainVars, consumerVars
<1>11. CASE TestDone
  BY <1>11 DEF TestDone, ConsumerStates, Capacity, NumProducers, mainVars, workerVars
<1>12. ASSUME NEW here, NEW add \in ConsumerStates, NEW empty \in ConsumerStates,
              PopFrom(here, add, empty)
       PROVE  TypeOK'
  <2>1. CASE queue = <<>>
    BY <1>12, <2>1 DEF PopFrom, Capacity, NumProducers, mainVars, workerVars
  <2>2. CASE queue # <<>>
    <3>1. /\ Head(queue) \in UpdateNames(weights)
          /\ Tail(queue) \in Seq(UpdateNames(weights))
          /\ Len(Tail(queue)) <= Len(queue)
      BY <2>2
    <3>2. Capacity \in Int
      BY ThreadAssumption DEF Capacity, NumProducers
    <3>3. UNCHANGED Capacity
      BY <1>12 DEF PopFrom, Capacity, NumProducers, mainVars
    <3>4. queue' = Tail(queue) /\ popped' = {Head(queue)} /\ consumer' = add
      BY <1>12, <2>2 DEF PopFrom
    <3>5. queue' \in Seq(UpdateNames(weights)) /\ Len(queue') <= Capacity
      BY <3>1, <3>2, <3>4
    <3>6. QED
      BY <1>12, <3>1, <3>3, <3>4, <3>5 DEF PopFrom, mainVars, workerVars
  <2>3. QED
    BY <2>1, <2>2
<1>13. CASE AddPopped
  <2>1. \A u \in popped : Added(gradient, u) \in [Features -> Int]
    BY AddedType
  <2>2. QED
    BY <1>13, <2>1 DEF AddPopped, ConsumerStates, Capacity, NumProducers, mainVars, workerVars
<1>14. CASE UNCHANGED vars
  BY <1>14 DEF vars, mainVars, workerVars, consumerVars, Capacity, NumProducers
<1>15. CASE Pop \/ Drain
  BY <1>12, <1>15 DEF Pop, Drain, ConsumerStates
<1>16. QED
  BY <1>1, <1>2, <1>3, <1>4, <1>5, <1>6, <1>7, <1>8, <1>9, <1>10, <1>11, <1>13, <1>14, <1>15
  DEF Next, Main, Worker, Consumer

-----------------------------------------------------------------------------
(* The other conjuncts of the invariant *)

LEMMA NextBlockInv ==
  ASSUME TypeOK, BlockInv, SpawnInv, ThreadInv, [Next]_vars
  PROVE  BlockInv'
<1>. USE DEF BlockInv
<1>0. NumExamples \in Nat \ {0}
  BY DataAssumption DEF DataAssumption
<1>1. ASSUME NEW n \in 1 .. MaxThreads, SetNumThreads(n)
      PROVE  BlockInv'
  BY <1>1 DEF SetNumThreads, workerVars, UpdatesDue
<1>2. ASSUME NEW w \in Params, Call(w)
      PROVE  BlockInv'
  <2>1. ASSUME NEW i \in Workers
        PROVE  UpdatesDue(i)' \in Nat
    <3>1. example'[i] = 0 /\ weights' = w /\ 0 \in Examples
      BY <1>0, <1>2 DEF Call, Examples
    <3>2. QED
      BY <3>1, UpdatesDueType DEF UpdatesDue
  <2>2. QED
    BY <1>0, <1>2, <2>1 DEF Call
<1>3. CASE SpawnProducer
  <2>. DEFINE end == prevBlockEnd + BlockLength(spawned)
  <2>a. /\ spawned \in Workers
        /\ BlockLength(spawned) \in Nat
        /\ end <= NumExamples
    BY <1>3, SpawnArithmetic
  <2>b. prevBlockEnd \in Nat
    BY DEF TypeOK
  <2>c. end \in Nat /\ prevBlockEnd <= end
    <3>. HIDE DEF BlockInv
    <3>. QED
      BY <2>a, <2>b
  <2>0. PICK s \in Workers : s = spawned
    BY <2>a
  <2>1. /\ s \in Workers
        /\ end \in Nat
        /\ prevBlockEnd <= end
        /\ end <= NumExamples
    BY <2>a, <2>c
  <2>2. worker[s] = "unborn"
    BY <2>0, <2>1 DEF SpawnInv, TypeOK
  <2>3. pushes[s] = 0
    BY <2>1, <2>2 DEF TypeOK
  <2>4. ASSUME NEW i \in Workers \ {s}
        PROVE  /\ UpdatesDue(i)' = UpdatesDue(i)
               /\ UNCHANGED <<worker[i], blockBegin[i], blockEnd[i], example[i], pushes[i]>>
    BY <1>3, <2>0 DEF SpawnProducer, UpdatesDue, TypeOK
  <2>5. /\ worker'[s] = "running"
        /\ blockBegin'[s] = prevBlockEnd
        /\ blockEnd'[s] = end
        /\ example'[s] = prevBlockEnd
        /\ pushes'[s] = 0
    BY <1>3, <2>0, <2>1, <2>3 DEF SpawnProducer, TypeOK
  <2>6. prevBlockEnd < end => UpdatesDue(s)' \in Nat
    <3>1. prevBlockEnd < end => prevBlockEnd \in Examples
      BY <1>0, <2>1 DEF Examples, TypeOK
    <3>2. weights' = weights
      BY <1>3 DEF SpawnProducer
    <3>3. QED
      BY <2>5, <3>1, <3>2, UpdatesDueType DEF UpdatesDue, TypeOK
  <2>. DEFINE BlockInvOf(i) ==
         /\ blockBegin[i] <= example[i]
         /\ example[i] <= blockEnd[i]
         /\ blockEnd[i] <= NumExamples
         /\ example[i] = blockEnd[i] => pushes[i] = 0
         /\ example[i] < blockEnd[i] => pushes[i] <= UpdatesDue(i)
         /\ worker[i] = "unborn" => blockBegin[i] = 0 /\ blockEnd[i] = 0
         /\ worker[i] = "done" => example[i] = blockEnd[i]
  <2>7. ASSUME NEW i \in Workers \ {s}
        PROVE  BlockInvOf(i)'
    BY <2>4
  <2>8. BlockInvOf(s)'
    BY <2>1, <2>5, <2>6 DEF TypeOK
  <2>9. QED
    BY <2>7, <2>8
<1>4. CASE SpawnConsumer
  BY <1>4 DEF SpawnConsumer, workerVars, UpdatesDue
<1>5. CASE JoinProducers
  BY <1>5 DEF JoinProducers, workerVars, UpdatesDue
<1>6. CASE Return
  BY <1>6 DEF Return, workerVars, UpdatesDue
<1>7. ASSUME NEW i \in Workers, Push(i) \/ AddDirectly(i)
      PROVE  BlockInv'
  <2>1. UpdatesDue(i) \in Nat
    BY <1>7, NextUpdateExists, UpdatesDueType DEF Push, AddDirectly, UpdatesDue, TypeOK
  <2>2. /\ AtExample(i)
        /\ pushes[i] < UpdatesDue(i)
        /\ pushes' = [pushes EXCEPT ![i] = @ + 1]
        /\ UNCHANGED <<weights, worker, blockBegin, blockEnd, example>>
    BY <1>7 DEF Push, AddDirectly, mainVars
  <2>3. QED
    BY <2>1, <2>2 DEF AtExample, UpdatesDue, TypeOK
<1>9. ASSUME NEW i \in Workers, FinishExample(i)
      PROVE  BlockInv'
  <2>1. example'[i] = example[i] + 1 /\ pushes'[i] = 0 /\ example[i] < blockEnd[i]
    BY <1>9 DEF FinishExample, AtExample, TypeOK
  <2>2. example'[i] < blockEnd[i] => UpdatesDue(i)' \in Nat
    <3>1. example'[i] < blockEnd[i] => example'[i] \in Examples
      BY <1>0, <2>1 DEF Examples, TypeOK
    <3>2. weights' \in Params
      BY <1>9 DEF FinishExample, mainVars, TypeOK
    <3>3. QED
      BY <3>1, <3>2, UpdatesDueType DEF UpdatesDue
  <2>3. \A j \in Workers \ {i} : UpdatesDue(j)' = UpdatesDue(j) /\ example'[j] = example[j]
                                 /\ pushes'[j] = pushes[j]
    BY <1>9 DEF FinishExample, mainVars, UpdatesDue, TypeOK
  <2>4. UNCHANGED <<worker, blockBegin, blockEnd>> /\ worker[i] = "running"
    BY <1>9 DEF FinishExample, AtExample
  <2>5. QED
    BY <2>1, <2>2, <2>3, <2>4 DEF TypeOK
<1>10. ASSUME NEW i \in Workers, FinishWorker(i)
       PROVE  BlockInv'
  BY <1>10 DEF FinishWorker, mainVars, UpdatesDue, TypeOK
<1>11. CASE Consumer
  BY <1>11 DEF Consumer, TestDone, Pop, Drain, PopFrom, AddPopped, mainVars, workerVars, UpdatesDue
<1>14. CASE UNCHANGED vars
  BY <1>14 DEF vars, mainVars, workerVars, UpdatesDue
<1>16. QED
  BY <1>1, <1>2, <1>3, <1>4, <1>5, <1>6, <1>7, <1>9, <1>10, <1>11, <1>14
  DEF Next, Main, Worker

LEMMA NextSpawnInv ==
  ASSUME TypeOK, SpawnInv, ThreadInv, [Next]_vars
  PROVE  SpawnInv'
<1>1. ASSUME NEW n \in 1 .. MaxThreads, SetNumThreads(n)
      PROVE  SpawnInv'
  BY <1>1 DEF SetNumThreads, workerVars, SpawnInv
<1>2. ASSUME NEW w \in Params, Call(w)
      PROVE  SpawnInv'
  <2>1. CASE IsParallel
    <3>1. numThreads >= 2 /\ NumProducers >= 1
      BY <2>1 DEF TypeOK, IsParallel, NumProducers
    <3>2. BlockSize \in Nat /\ Rest \in Nat
      BY <3>1, BlockArithmetic DEF TypeOK
    <3>3. 0 = (0 * BlockSize) + Least(0, Rest)
      BY <3>2 DEF Least
    <3>4. /\ spawned' = 0 /\ prevBlockEnd' = 0 /\ main' = "spawn"
          /\ numThreads' = numThreads /\ worker' = [i \in Workers |-> "unborn"]
      BY <1>2, <2>1 DEF Call
    <3>5. NumProducers' = NumProducers /\ BlockSize' = BlockSize /\ Rest' = Rest
      BY <3>4 DEF NumProducers, BlockSize, Rest
    <3>6. prevBlockEnd' = (spawned' * BlockSize') + Least(spawned', Rest')
      BY <3>3, <3>4, <3>5
    <3>7. \A i \in Workers : i \in Int /\ i >= 0
      BY ThreadAssumption DEF Workers
    <3>8. main' = "spawn" => /\ numThreads' >= 2
                             /\ spawned' < NumProducers'
                             /\ prevBlockEnd' = (spawned' * BlockSize') + Least(spawned', Rest')
      BY <3>1, <3>4, <3>5, <3>6 DEF NumProducers, TypeOK
    <3>9. \A i \in Workers : worker'[i] = "unborn" /\ ~(i < spawned')
      BY <3>4, <3>7
    <3>10. 0 .. prevBlockEnd' - 1 = {}
      BY <3>4
    <3>11. QED
      BY <3>4, <3>8, <3>9, <3>10 DEF SpawnInv, Least
  <2>2. CASE ~IsParallel
    <3>1. /\ main' = "sequential" /\ spawned' = 1 /\ numThreads' = 1
          /\ worker' = [i \in Workers |-> IF i = 0 THEN "running" ELSE "unborn"]
          /\ blockBegin' = [i \in Workers |-> 0]
          /\ blockEnd' = [i \in Workers |-> IF i = 0 THEN NumExamples ELSE 0]
      BY <1>2, <2>2 DEF Call, IsParallel
    <3>2. /\ 0 \in Workers
          /\ \A i \in Workers : i \in Int /\ i >= 0
      BY ThreadAssumption DEF Workers
    <3>3. QED
      BY <3>1, <3>2 DEF SpawnInv
  <2>3. QED
    BY <2>1, <2>2
<1>3. CASE SpawnProducer
  <2>1. PICK s \in Workers : s = spawned
    BY <1>3, SpawnArithmetic
  <2>2. PICK begin \in Nat : begin = prevBlockEnd
    BY DEF TypeOK
  <2>3. PICK end \in Nat : end = prevBlockEnd + BlockLength(spawned)
    BY <1>3, SpawnArithmetic DEF TypeOK
  <2>4. /\ begin <= end
        /\ end = ((s + 1) * BlockSize) + Least(s + 1, Rest)
        /\ s + 1 >= NumProducers => s + 1 = NumProducers /\ end = NumExamples
    BY <1>3, <2>1, <2>2, <2>3, SpawnArithmetic
  <2>5. /\ main = "spawn" /\ main' \in {"spawn", "spawnConsumer"}
        /\ main' = "spawnConsumer" <=> s + 1 >= NumProducers
        /\ spawned' = s + 1
        /\ prevBlockEnd' = end
        /\ worker' = [worker EXCEPT ![s] = "running"]
        /\ blockBegin' = [blockBegin EXCEPT ![s] = begin]
        /\ blockEnd' = [blockEnd EXCEPT ![s] = end]
        /\ numThreads' = numThreads
    BY <1>3, <2>1, <2>2, <2>3 DEF SpawnProducer
  <2>6. NumProducers' = NumProducers /\ BlockSize' = BlockSize /\ Rest' = Rest
    BY <2>5 DEF NumProducers, BlockSize, Rest
  <2>7. \A i \in Workers : i \in Int /\ i >= 0
    BY ThreadAssumption DEF Workers
  <2>8. \A i \in Workers : worker'[i] # "unborn" <=> i < spawned'
    <3>1. \A i \in Workers : worker[i] # "unborn" <=> i < s
      BY <2>1, <2>5 DEF SpawnInv
    <3>2. /\ \A i \in Workers \ {s} : worker'[i] = worker[i]
          /\ worker'[s] = "running"
      BY <2>5 DEF TypeOK
    <3>3. \A i \in Workers \ {s} : i < s <=> i < spawned'
      BY <2>5, <2>7
    <3>4. s < spawned'
      BY <2>5, <2>7
    <3>5. QED
      BY <3>1, <3>2, <3>3, <3>4
  <2>. /\ \A i \in Workers \ {s} : blockBegin'[i] = blockBegin[i] /\ blockEnd'[i] = blockEnd[i]
       /\ blockBegin'[s] = begin /\ blockEnd'[s] = end
    BY <2>5 DEF TypeOK
  <2>. \A i \in Workers : i < s => blockEnd[i] <= begin
    BY <2>1, <2>2, <2>5 DEF SpawnInv
  <2>9. ASSUME NEW i \in Workers, NEW j \in Workers, i < j, j < spawned'
        PROVE  blockEnd'[i] <= blockBegin'[j]
    <3>1. CASE j = s
      BY <2>7, <2>9, <3>1
    <3>2. CASE j # s
      <4>1. j < s /\ i < s
        BY <2>5, <2>7, <2>9, <3>2
      <4>2. blockEnd[i] <= blockBegin[j]
        BY <2>1, <2>9, <4>1 DEF SpawnInv
      <4>3. QED
        BY <2>7, <4>1, <4>2
    <3>3. QED
      BY <3>1, <3>2
  <2>10. ASSUME NEW i \in Workers, i < spawned'
         PROVE  blockEnd'[i] <= prevBlockEnd'
    <3>1. CASE i = s
      BY <2>5, <3>1 DEF TypeOK
    <3>2. CASE i # s
      <4>1. i < s
        BY <2>5, <2>7, <2>10, <3>2
      <4>2. blockEnd[i] <= begin /\ blockEnd'[i] = blockEnd[i] /\ blockEnd[i] \in Nat
        BY <3>2, <4>1 DEF TypeOK
      <4>3. QED
        BY <2>4, <2>5, <4>2
    <3>3. QED
      BY <3>1, <3>2
  <2>11. \A e \in 0 .. prevBlockEnd' - 1 :
           \E i \in Workers : i < spawned' /\ blockBegin'[i] <= e /\ e < blockEnd'[i]
    <3> SUFFICES ASSUME NEW e \in 0 .. end - 1
                 PROVE  \E i \in Workers : /\ i < spawned'
                                           /\ blockBegin'[i] <= e
                                           /\ e < blockEnd'[i]
      BY <2>5
    <3>1. CASE e < begin
      <4>1. PICK i \in Workers : i < s /\ blockBegin[i] <= e /\ e < blockEnd[i]
        BY <2>1, <2>2, <2>5, <3>1 DEF SpawnInv
      <4>2. i < spawned' /\ i # s
        BY <2>5, <2>7, <4>1
      <4>3. QED
        BY <4>1, <4>2
    <3>2. CASE e >= begin
      BY <2>5, <2>7, <3>2 DEF TypeOK
    <3>3. QED
      BY <3>1, <3>2
  <2>12. numThreads >= 2
    BY <2>5 DEF SpawnInv
  <2>13. /\ main' = "spawn" => /\ spawned' < NumProducers'
                               /\ prevBlockEnd' = spawned' * BlockSize' + Least(spawned', Rest')
         /\ main' = "spawnConsumer" => spawned' = NumProducers' /\ prevBlockEnd' = NumExamples
    <3>1. NumProducers \in Int
      BY DEF NumProducers, TypeOK
    <3>2. QED
      BY <2>4, <2>5, <2>6, <2>7, <3>1 DEF Least
  <2>14. QED
    BY <2>5, <2>8, <2>9, <2>10, <2>11, <2>12, <2>13 DEF SpawnInv, Least
<1>. USE DEF SpawnInv, NumProducers, BlockSize, Rest
<1>4. CASE SpawnConsumer
  BY <1>4 DEF SpawnConsumer, workerVars
<1>5. CASE JoinProducers
  BY <1>5 DEF JoinProducers, workerVars
<1>6. CASE Return
  BY <1>6 DEF Return, workerVars
<1>7. ASSUME NEW i \in Workers, Worker(i)
      PROVE  SpawnInv'
  <2>1. /\ UNCHANGED <<mainVars, blockBegin, blockEnd>>
        /\ \A j \in Workers : worker'[j] # "unborn" <=> worker[j] # "unborn"
    BY <1>7 DEF Worker, Push, AddDirectly, FinishExample, FinishWorker, AtExample, TypeOK
  <2>2. QED
    BY <2>1 DEF mainVars
<1>8. CASE Consumer
  BY <1>8 DEF Consumer, TestDone, Pop, Drain, PopFrom, AddPopped, mainVars, workerVars
<1>9. CASE UNCHANGED vars
  BY <1>9 DEF vars, mainVars, workerVars
<1>10. QED
  BY <1>1, <1>2, <1>3, <1>4, <1>5, <1>6, <1>7, <1>8, <1>9 DEF Next, Main

LEMMA NextThreadInv ==
  ASSUME TypeOK, BlockInv, SpawnInv, ThreadInv, [Next]_vars
  PROVE  ThreadInv'
<1>1. ASSUME NEW n \in 1 .. MaxThreads, SetNumThreads(n)
      PROVE  ThreadInv'
  BY <1>1 DEF SetNumThreads, workerVars, consumerVars, ThreadInv
<1>2. ASSUME NEW w \in Params, Call(w)
      PROVE  ThreadInv'
  BY <1>2 DEF Call, ThreadInv
<1>3. CASE SpawnProducer
  BY <1>3 DEF SpawnProducer, consumerVars, ThreadInv
<1>4. CASE SpawnConsumer
  BY <1>4 DEF SpawnConsumer, workerVars, ThreadInv
<1>5. CASE JoinProducers
  <2>1. \A i \in Workers : worker[i] # "running"
    <3>1. main = "joinProducers" /\ ProducersJoined
      BY <1>5 DEF JoinProducers
    <3>2. ASSUME NEW i \in Workers
          PROVE  worker[i] # "running"
      <4>1. CASE i < NumProducers
        BY <3>1, <4>1 DEF ProducersJoined, Workers, NumProducers, TypeOK
      <4>2. CASE ~(i < NumProducers)
        BY <3>1, <4>2 DEF SpawnInv
      <4>3. QED
        BY <4>1, <4>2
    <3>3. QED
      BY <3>2
  <2>2. QED
    BY <1>5, <2>1 DEF JoinProducers, workerVars, consumerVars, ThreadInv
<1>6. CASE Return
  <2>1. CASE main = "joinConsumer" /\ consumer = "exited"
    BY <1>6, <2>1 DEF Return, workerVars, consumerVars, ThreadInv
  <2>2. CASE main = "sequential" /\ worker[0] = "done"
    <3>1. \A i \in Workers : worker[i] # "running"
      BY <2>2 DEF SpawnInv, Workers
    <3>2. QED
      BY <1>6, <2>2, <3>1 DEF Return, workerVars, consumerVars, ThreadInv
  <2>3. QED
    BY <1>6, <2>1, <2>2 DEF Return
<1>7. ASSUME NEW i \in Workers, Push(i)
      PROVE  ThreadInv'
  <2>1. main \notin {"joinConsumer", "idle", "sequential"}
    BY <1>7 DEF Push, AtExample, ThreadInv, SpawnInv, IsParallel
  <2>2. QED
    BY <1>7, <2>1 DEF Push, mainVars, consumerVars, ThreadInv
<1>8. ASSUME NEW i \in Workers, AddDirectly(i) \/ FinishExample(i)
      PROVE  ThreadInv'
  BY <1>8 DEF AddDirectly, FinishExample, mainVars, consumerVars, ThreadInv
<1>9. ASSUME NEW i \in Workers, FinishWorker(i)
      PROVE  ThreadInv'
  BY <1>9 DEF FinishWorker, mainVars, consumerVars, ThreadInv, TypeOK
<1>10. CASE TestDone
  BY <1>10 DEF TestDone, mainVars, workerVars, ThreadInv
<1>11. CASE Pop
  <2>1. main = "joinProducers" \/ main = "joinConsumer"
    BY <1>11 DEF Pop, PopFrom, ThreadInv, TypeOK, MainStates
  <2>2. QED
    BY <1>11, <2>1 DEF Pop, PopFrom, mainVars, workerVars, ThreadInv
<1>12. CASE Drain
  <2>1. main = "joinConsumer"
    BY <1>12 DEF Drain, PopFrom, ThreadInv, TypeOK, MainStates
  <2>2. QED
    BY <1>12, <2>1 DEF Drain, PopFrom, mainVars, workerVars, ThreadInv
<1>13. CASE AddPopped
  BY <1>13 DEF AddPopped, mainVars, workerVars, ThreadInv
<1>14. CASE UNCHANGED vars
  BY <1>14 DEF vars, mainVars, workerVars, consumerVars, ThreadInv
<1>15. QED
  BY <1>1, <1>2, <1>3, <1>4, <1>5, <1>6, <1>7, <1>8, <1>9, <1>10, <1>11, <1>12, <1>13, <1>14
  DEF Next, Main, Worker, Consumer

-----------------------------------------------------------------------------
(* What the workers have delivered *)

(* An update names an example and a position counted from one. *)
LEMMA UpdateNamesParts ==
  ASSUME NEW w \in Params, NEW u \in UpdateNames(w)
  PROVE  /\ u = <<w, u[2], u[3]>>
         /\ u[2] \in Examples
         /\ u[3] \in 1 .. Len(ExampleUpdates[w][u[2]])
         /\ u[3] \in Nat /\ u[3] >= 1
<1>1. PICK e \in Examples : \E k \in 1 .. Len(ExampleUpdates[w][e]) : u = <<w, e, k>>
  BY UpdateNamesElements
<1>2. PICK k \in 1 .. Len(ExampleUpdates[w][e]) : u = <<w, e, k>>
  BY <1>1
<1>3. k \in Nat /\ k >= 1
  BY UpdatesDueType
<1>4. QED
  BY <1>2, <1>3

(* A worker delivers updates of its own block only. *)
LEMMA DeliveredInBlock ==
  ASSUME TypeOK, BlockInv, SpawnInv, NEW i \in Workers, NEW u \in Delivered(i)
  PROVE  /\ u \in UpdateNames(weights)
         /\ u[2] \in Nat
         /\ blockBegin[i] <= u[2]
         /\ u[2] < blockEnd[i]
         /\ i < spawned
<1>1. /\ u \in UpdateNames(weights)
      /\ \/ u[2] \in blockBegin[i] .. example[i] - 1
         \/ u[2] = example[i] /\ u[3] <= pushes[i]
  BY DEF Delivered
<1>2. u[2] \in Nat /\ u[3] \in Nat /\ u[3] >= 1
  BY <1>1, UpdateNamesParts DEF TypeOK, Examples
<1>3. example[i] \in Nat /\ blockBegin[i] \in Nat /\ blockEnd[i] \in Nat /\ pushes[i] \in Nat
  BY DEF TypeOK
<1>4. blockBegin[i] <= u[2] /\ u[2] < blockEnd[i]
  BY <1>1, <1>2, <1>3 DEF BlockInv
<1>5. worker[i] # "unborn"
  BY <1>2, <1>3, <1>4 DEF BlockInv
<1>6. QED
  BY <1>1, <1>2, <1>4, <1>5 DEF SpawnInv

(* No two workers have an example in common. *)
LEMMA BlocksDisjoint ==
  ASSUME TypeOK, SpawnInv, NEW i \in Workers, NEW j \in Workers, NEW e \in Nat,
         i < spawned, j < spawned,
         blockBegin[i] <= e, e < blockEnd[i], blockBegin[j] <= e, e < blockEnd[j]
  PROVE  i = j
<1>1. /\ blockBegin[i] \in Nat /\ blockEnd[i] \in Nat
      /\ blockBegin[j] \in Nat /\ blockEnd[j] \in Nat
      /\ i \in Int /\ j \in Int
  BY ThreadAssumption DEF TypeOK, Workers
<1>2. CASE i < j
  BY <1>1, <1>2 DEF SpawnInv
<1>3. CASE j < i
  BY <1>1, <1>3 DEF SpawnInv
<1>4. QED
  BY <1>1, <1>2, <1>3

(* Delivering adds one update, which nobody delivered before. *)
LEMMA DeliverOne ==
  ASSUME TypeOK, BlockInv, SpawnInv, NEW i \in Workers, Push(i) \/ AddDirectly(i)
  PROVE  /\ AllDelivered' = AllDelivered \cup {NextUpdate(i)}
         /\ NextUpdate(i) \notin AllDelivered
         /\ NextUpdate(i) \in UpdateNames(weights)
<1>1. /\ AtExample(i) /\ pushes[i] < UpdatesDue(i)
      /\ pushes' = [pushes EXCEPT ![i] = @ + 1]
      /\ UNCHANGED <<weights, blockBegin, example>>
  BY DEF Push, AddDirectly, mainVars
<1>2. /\ NextUpdate(i) \in UpdateNames(weights)
      /\ NextUpdate(i) = <<weights, example[i], pushes[i] + 1>>
  BY <1>1, NextUpdateExists
<1>3. /\ example[i] \in Nat /\ pushes[i] \in Nat
      /\ blockBegin[i] \in Nat /\ blockEnd[i] \in Nat
  BY DEF TypeOK
<1>4. NextUpdate(i) \notin AllDelivered
  <2>1. ASSUME NEW j \in Workers, NextUpdate(i) \in Delivered(j)
        PROVE  FALSE
    <3>1. /\ blockBegin[j] <= example[i] /\ example[i] < blockEnd[j] /\ j < spawned
      BY <1>2, <2>1, DeliveredInBlock
    <3>2. blockBegin[i] <= example[i] /\ example[i] < blockEnd[i] /\ i < spawned
      BY <1>1 DEF AtExample, BlockInv, SpawnInv
    <3>3. j = i
      BY <1>3, <3>1, <3>2, BlocksDisjoint
    <3>4. NextUpdate(i)[2] = example[i] /\ NextUpdate(i)[3] = pushes[i] + 1
      BY <1>2
    <3>5. QED
      BY <1>3, <2>1, <3>3, <3>4 DEF Delivered
  <2>2. QED
    BY <2>1 DEF AllDelivered
<1>5. \A j \in Workers \ {i} : Delivered(j)' = Delivered(j)
  BY <1>1 DEF Delivered, TypeOK
<1>6. Delivered(i)' = Delivered(i) \cup {NextUpdate(i)}
  <2>1. ASSUME NEW u \in UpdateNames(weights)
        PROVE  /\ u[3] \in Nat
               /\ u[2] = example[i] /\ u[3] = pushes[i] + 1 <=> u = NextUpdate(i)
    BY <1>2, UpdateNamesParts DEF TypeOK
  <2>2. pushes'[i] = pushes[i] + 1
    BY <1>1 DEF TypeOK
  <2>3. ASSUME NEW u \in UpdateNames(weights)
        PROVE  u[3] <= pushes'[i] <=> u[3] <= pushes[i] \/ u[3] = pushes[i] + 1
    BY <1>3, <2>1, <2>2
  <2>4. QED
    BY <1>1, <1>2, <2>1, <2>3 DEF Delivered
<1>7. QED
  BY <1>2, <1>4, <1>5, <1>6 DEF AllDelivered

(* No other step changes what has been delivered under the parameters of
   the call. *)
LEMMA DeliverNone ==
  ASSUME TypeOK, BlockInv, SpawnInv, UNCHANGED <<weights, blockBegin, example, pushes>>
  PROVE  AllDelivered' = AllDelivered
BY DEF AllDelivered, Delivered

LEMMA FinishExampleDelivers ==
  ASSUME TypeOK, BlockInv, NEW i \in Workers, FinishExample(i)
  PROVE  AllDelivered' = AllDelivered
<1>1. /\ UNCHANGED <<weights, blockBegin>>
      /\ example' = [example EXCEPT ![i] = @ + 1]
      /\ pushes' = [pushes EXCEPT ![i] = 0]
      /\ pushes[i] = UpdatesDue(i)
  BY DEF FinishExample, mainVars
<1>2. /\ example'[i] = example[i] + 1 /\ pushes'[i] = 0
      /\ example[i] \in Nat /\ blockBegin[i] \in Nat /\ blockBegin[i] <= example[i]
  BY <1>1 DEF TypeOK, BlockInv
<1>3. \A j \in Workers \ {i} : Delivered(j)' = Delivered(j)
  BY <1>1 DEF Delivered, TypeOK
<1>4. ASSUME NEW u \in UpdateNames(weights)
      PROVE  (u \in Delivered(i))' <=> u \in Delivered(i)
  <2>1. /\ u[2] \in Nat /\ u[3] \in Nat /\ u[3] >= 1
        /\ u[2] = example[i] => u[3] <= pushes[i]
    BY <1>1, UpdateNamesParts DEF TypeOK, Examples, UpdatesDue
  <2>2. (u \in Delivered(i))' <=> u[2] \in blockBegin[i] .. example[i]
    BY <1>1, <1>2, <2>1 DEF Delivered
  <2>3. u \in Delivered(i) <=> u[2] \in blockBegin[i] .. example[i]
    BY <1>1, <1>2, <2>1 DEF Delivered
  <2>4. QED
    BY <2>2, <2>3
<1>5. Delivered(i)' = Delivered(i)
  BY <1>1, <1>4 DEF Delivered
<1>6. QED
  BY <1>3, <1>5 DEF AllDelivered

LEMMA SpawnProducerDelivers ==
  ASSUME TypeOK, BlockInv, SpawnInv, SpawnProducer
  PROVE  AllDelivered' = AllDelivered
<1>1. PICK i \in Workers : i = spawned
  BY SpawnArithmetic
<1>2. worker[i] = "unborn" /\ blockBegin[i] = 0 /\ example[i] = 0 /\ pushes[i] = 0
  BY <1>1 DEF SpawnInv, BlockInv, TypeOK
<1>3. /\ UNCHANGED <<weights, pushes>>
      /\ blockBegin' = [blockBegin EXCEPT ![i] = prevBlockEnd]
      /\ example' = [example EXCEPT ![i] = prevBlockEnd]
  BY <1>1 DEF SpawnProducer
<1>4. \A j \in Workers \ {i} : Delivered(j)' = Delivered(j)
  BY <1>3 DEF Delivered, TypeOK
<1>5. ASSUME NEW u \in UpdateNames(weights)
      PROVE  ~(u \in Delivered(i))' /\ ~(u \in Delivered(i))
  <2>1. u[2] \in Nat /\ u[3] \in Nat /\ u[3] >= 1
    BY UpdateNamesParts DEF TypeOK, Examples
  <2>2. blockBegin'[i] = prevBlockEnd /\ example'[i] = prevBlockEnd /\ pushes'[i] = 0
    BY <1>2, <1>3 DEF TypeOK
  <2>3. prevBlockEnd \in Nat
    BY DEF TypeOK
  <2>4. QED
    BY <1>2, <1>3, <2>1, <2>2, <2>3 DEF Delivered
<1>6. Delivered(i)' = Delivered(i)
  BY <1>3, <1>5 DEF Delivered
<1>7. QED
  BY <1>4, <1>6 DEF AllDelivered

-----------------------------------------------------------------------------
(* The queue *)

(* Every step but a delivery and a new call leaves AllDelivered alone. *)
LEMMA DeliveredUnlessPushed ==
  ASSUME TypeOK, BlockInv, SpawnInv, [Next]_vars,
         \A i \in Workers : ~Push(i) /\ ~AddDirectly(i),
         \A w \in Params : ~Call(w)
  PROVE  AllDelivered' = AllDelivered
<1>1. CASE SpawnProducer
  BY <1>1, SpawnProducerDelivers
<1>2. CASE \E i \in Workers : FinishExample(i)
  BY <1>2, FinishExampleDelivers
<1>3. CASE \/ \E n \in 1 .. MaxThreads : SetNumThreads(n)
           \/ SpawnConsumer \/ JoinProducers \/ Return
           \/ \E i \in Workers : FinishWorker(i)
           \/ Consumer
           \/ UNCHANGED vars
  <2>1. UNCHANGED <<weights, blockBegin, example, pushes>>
    BY <1>3 DEF SetNumThreads, SpawnConsumer, JoinProducers, Return, FinishWorker,
      Consumer, TestDone, Pop, Drain, PopFrom, AddPopped, vars, mainVars, workerVars
  <2>2. QED
    BY <2>1, DeliverNone
<1>4. QED
  BY <1>1, <1>2, <1>3 DEF Next, Main, Worker

(* Pushing appends an update nobody has delivered before. *)
LEMMA PushQueueInv ==
  ASSUME TypeOK, BlockInv, SpawnInv, QueueInv, NEW i \in Workers, Push(i)
  PROVE  QueueInv'
<1>1. /\ queue' = Append(queue, NextUpdate(i))
      /\ popped' = popped
      /\ queue \in Seq(UpdateNames(weights))
      /\ Len(queue) \in Nat
  BY DEF Push, consumerVars, TypeOK
<1>2. /\ AllDelivered' = AllDelivered \cup {NextUpdate(i)}
      /\ NextUpdate(i) \notin AllDelivered
      /\ NextUpdate(i) \in UpdateNames(weights)
  BY DeliverOne
<1>3. /\ Len(queue') = Len(queue) + 1
      /\ \A j \in 1 .. Len(queue) : queue'[j] = queue[j]
      /\ queue'[Len(queue) + 1] = NextUpdate(i)
  BY <1>1, <1>2
<1>4. \A j \in 1 .. Len(queue') : j \in 1 .. Len(queue) \/ j = Len(queue) + 1
  BY <1>1, <1>3
<1>5. NextUpdate(i) \notin popped
  BY <1>2 DEF QueueInv
<1>6. QED
  BY <1>1, <1>2, <1>3, <1>4, <1>5 DEF QueueInv

(* Popping moves the head of the queue to the consumer's hand. *)
LEMMA PopQueueInv ==
  ASSUME TypeOK, BlockInv, SpawnInv, ThreadInv, QueueInv, Pop \/ Drain
  PROVE  /\ QueueInv'
         /\ InQueue' \cup popped' = InQueue \cup popped
<1>1. AllDelivered' = AllDelivered /\ popped = {}
  BY DeliverNone DEF Pop, Drain, PopFrom, mainVars, workerVars, ThreadInv
<1>2. CASE queue = <<>>
  <2>1. UNCHANGED <<queue, popped>>
    BY <1>2 DEF Pop, Drain, PopFrom
  <2>2. QED
    BY <1>1, <2>1 DEF QueueInv, InQueue
<1>3. CASE queue # <<>>
  <2>1. /\ popped' = {queue[1]} /\ queue' = Tail(queue)
        /\ queue \in Seq(UpdateNames(weights)) /\ Len(queue) \in Nat \ {0}
    BY <1>3 DEF Pop, Drain, PopFrom, TypeOK
  <2>2. /\ Len(queue') = Len(queue) - 1
        /\ \A j \in 1 .. Len(queue') : queue'[j] = queue[j + 1]
    BY <2>1
  <2>3. \A j \in 1 .. Len(queue') : j + 1 \in 1 .. Len(queue) /\ j + 1 # 1
    BY <2>1, <2>2
  <2>4. 1 \in 1 .. Len(queue)
    BY <2>1
  <2>5. \A j \in 1 .. Len(queue) : j = 1 \/ (j - 1 \in 1 .. Len(queue') /\ j = (j - 1) + 1)
    BY <2>1, <2>2
  <2>6. QueueInv'
    BY <1>1, <2>1, <2>2, <2>3, <2>4 DEF QueueInv
  <2>7. InQueue' \cup popped' = InQueue
    BY <2>1, <2>2, <2>3, <2>4, <2>5 DEF InQueue
  <2>8. QED
    BY <1>1, <2>6, <2>7
<1>4. QED
  BY <1>2, <1>3

LEMMA NextQueueInv ==
  ASSUME TypeOK, BlockInv, SpawnInv, ThreadInv, QueueInv, [Next]_vars
  PROVE  QueueInv'
<1>1. CASE \E i \in Workers : Push(i)
  BY <1>1, PushQueueInv
<1>2. CASE \E i \in Workers : AddDirectly(i)
  <2>1. PICK i \in Workers : AddDirectly(i)
    BY <1>2
  <2>2. AllDelivered' = AllDelivered \cup {NextUpdate(i)}
    BY <2>1, DeliverOne
  <2>3. UNCHANGED <<queue, popped>>
    BY <2>1 DEF AddDirectly, consumerVars
  <2>4. QED
    BY <2>2, <2>3 DEF QueueInv
<1>3. CASE \E w \in Params : Call(w)
  <2>1. queue' = <<>> /\ popped' = {}
    BY <1>3 DEF Call
  <2>2. QED
    BY <2>1 DEF QueueInv
<1>4. CASE Pop \/ Drain
  BY <1>4, PopQueueInv
<1>5. CASE /\ UNCHANGED queue
           /\ popped' \subseteq popped
           /\ AllDelivered' = AllDelivered
  BY <1>5 DEF QueueInv
<1>6. ASSUME \A i \in Workers : ~Push(i) /\ ~AddDirectly(i),
             \A w \in Params : ~Call(w), ~(Pop \/ Drain)
      PROVE  UNCHANGED queue /\ popped' \subseteq popped
  BY <1>6 DEF Next, Main, Worker, Consumer, SetNumThreads, SpawnProducer, SpawnConsumer,
    JoinProducers, Return, FinishExample, FinishWorker, TestDone, AddPopped,
    vars, consumerVars
<1>7. QED
  BY <1>1, <1>2, <1>3, <1>4, <1>5, <1>6, DeliveredUnlessPushed

-----------------------------------------------------------------------------
(* Nothing is lost *)

(* Once every worker is done, every update has been delivered. *)
LEMMA AllDeliveredWhenDone ==
  ASSUME TypeOK, BlockInv, SpawnInv,
         main \in {"joinConsumer", "sequential"},
         \A i \in Workers : worker[i] # "running"
  PROVE  AllDelivered = UpdateNames(weights)
<1>1. \A i \in Workers : i < spawned => example[i] = blockEnd[i]
  <2>1. \A i \in Workers : i < spawned => worker[i] = "done"
    BY DEF SpawnInv, TypeOK
  <2>2. QED
    BY <2>1 DEF BlockInv
<1>2. ASSUME NEW e \in Examples
      PROVE  \E i \in Workers : i < spawned /\ blockBegin[i] <= e /\ e < blockEnd[i]
  <2>1. NumExamples \in Nat /\ e \in 0 .. NumExamples - 1
    BY DataAssumption DEF DataAssumption, Examples
  <2>2. CASE main = "joinConsumer"
    BY <2>1, <2>2 DEF SpawnInv
  <2>3. CASE main = "sequential"
    <3>1. 0 \in Workers
      BY ThreadAssumption DEF Workers
    <3>2. QED
      BY <2>1, <2>3, <3>1 DEF SpawnInv
  <2>4. QED
    BY <2>2, <2>3
<1>3. ASSUME NEW u \in UpdateNames(weights)
      PROVE  u \in AllDelivered
  <2>1. u[2] \in Examples /\ u[2] \in Nat
    BY UpdateNamesParts DEF TypeOK, Examples
  <2>2. PICK i \in Workers : i < spawned /\ blockBegin[i] <= u[2] /\ u[2] < blockEnd[i]
    BY <1>2, <2>1
  <2>3. example[i] = blockEnd[i] /\ example[i] \in Nat /\ blockBegin[i] \in Nat
    BY <1>1, <2>2 DEF TypeOK
  <2>4. u \in Delivered(i)
    BY <2>1, <2>2, <2>3 DEF Delivered
  <2>5. QED
    BY <2>4 DEF AllDelivered
<1>4. AllDelivered \subseteq UpdateNames(weights)
  BY DEF AllDelivered, Delivered
<1>5. QED
  BY <1>3, <1>4

(* When update() returns, nothing is in flight and nothing is missing. *)
LEMMA ReturnComplete ==
  ASSUME TypeOK, BlockInv, SpawnInv, ThreadInv, Return
  PROVE  Applied = UpdateNames(weights) /\ main # "idle"
<1>1. /\ main \in {"joinConsumer", "sequential"}
      /\ \A i \in Workers : worker[i] # "running"
  <2>1. CASE main = "joinConsumer"
    BY <2>1 DEF ThreadInv
  <2>2. CASE main = "sequential"
    <3>1. worker[0] = "done"
      BY <2>2 DEF Return
    <3>2. \A i \in Workers : i # 0 => worker[i] = "unborn"
      BY <2>2 DEF SpawnInv, TypeOK, Workers
    <3>3. QED
      BY <2>2, <3>1, <3>2
  <2>3. QED
    BY <2>1, <2>2 DEF Return
<1>2. queue = <<>> /\ popped = {}
  BY DEF Return, ThreadInv
<1>3. InQueue = {}
  BY <1>2 DEF InQueue
<1>4. QED
  BY <1>1, <1>2, <1>3, AllDeliveredWhenDone DEF Applied

(* While no call is in progress nobody but the calling thread can step. *)
LEMMA IdleSteps ==
  ASSUME TypeOK, SpawnInv, ThreadInv, [Next]_vars, main = "idle"
  PROVE  \/ \E n \in 1 .. MaxThreads : SetNumThreads(n)
         \/ \E w \in Params : Call(w)
         \/ UNCHANGED vars
<1>1. /\ \A i \in Workers : worker[i] # "running"
      /\ consumer \in {"unborn", "exited"}
  BY DEF ThreadInv
<1>2. \A i \in Workers : ~Worker(i)
  BY <1>1 DEF Worker, Push, AddDirectly, FinishExample, FinishWorker, AtExample
<1>3. ~Consumer
  BY <1>1 DEF Consumer, TestDone, Pop, Drain, PopFrom, AddPopped
<1>4. ~SpawnProducer /\ ~SpawnConsumer /\ ~JoinProducers /\ ~Return
  BY DEF SpawnProducer, SpawnConsumer, JoinProducers, Return
<1>5. QED
  BY <1>2, <1>3, <1>4 DEF Next, Main

LEMMA NextNothingLost ==
  ASSUME TypeOK, BlockInv, SpawnInv, ThreadInv, NothingLostAtReturn, [Next]_vars
  PROVE  NothingLostAtReturn'
<1>1. CASE main = "idle"
  <2>1. CASE \E w \in Params : Call(w)
    BY <2>1 DEF Call, NothingLostAtReturn
  <2>2. CASE (\E n \in 1 .. MaxThreads : SetNumThreads(n)) \/ UNCHANGED vars
    <3>1. /\ UNCHANGED <<main, spawned, weights, queue, popped>>
          /\ UNCHANGED <<blockBegin, example, pushes>>
      BY <2>2 DEF SetNumThreads, vars, mainVars, workerVars, consumerVars
    <3>2. AllDelivered' = AllDelivered
      BY <3>1, DeliverNone
    <3>3. Applied' = Applied
      BY <3>1, <3>2 DEF Applied, InQueue
    <3>4. QED
      BY <3>1, <3>3 DEF NothingLostAtReturn
  <2>3. QED
    BY <1>1, <2>1, <2>2, IdleSteps
<1>2. CASE Return
  <2>1. /\ UNCHANGED <<spawned, weights, queue, popped>>
        /\ UNCHANGED <<blockBegin, example, pushes>>
    BY <1>2 DEF Return, workerVars, consumerVars
  <2>2. AllDelivered' = AllDelivered
    BY <2>1, DeliverNone
  <2>3. Applied' = UpdateNames(weights)
    BY <1>2, <2>1, <2>2, ReturnComplete DEF Applied, InQueue
  <2>4. QED
    BY <2>1, <2>3 DEF NothingLostAtReturn
<1>3. CASE main # "idle" /\ ~Return
  <2>1. main' # "idle"
    BY <1>3 DEF Next, Main, Worker, Consumer, SetNumThreads, Call, SpawnProducer,
      SpawnConsumer, JoinProducers, Push, AddDirectly, FinishExample, FinishWorker,
      TestDone, Pop, Drain, PopFrom, AddPopped, vars, mainVars
  <2>2. QED
    BY <2>1 DEF NothingLostAtReturn
<1>4. QED
  BY <1>1, <1>2, <1>3

-----------------------------------------------------------------------------
(* The inductive invariant and what follows from it *)

LEMMA InitIInv == Init => IInv
<1>. SUFFICES ASSUME Init PROVE IInv
  OBVIOUS
<1>1. TypeOK
  BY InitTypeOK
<1>2. BlockInv
  BY DataAssumption, UpdatesDueType DEF Init, BlockInv, DataAssumption
<1>3. SpawnInv
  BY DEF Init, SpawnInv, Workers
<1>4. ThreadInv
  BY DEF Init, ThreadInv
<1>5. QueueInv
  BY DEF Init, QueueInv
<1>6. NothingLostAtReturn
  BY DEF Init, NothingLostAtReturn
<1>7. QED
  BY <1>1, <1>2, <1>3, <1>4, <1>5, <1>6 DEF IInv

LEMMA NextIInv == IInv /\ [Next]_vars => IInv'
<1>. SUFFICES ASSUME IInv, [Next]_vars PROVE IInv'
  OBVIOUS
<1>1. TypeOK /\ BlockInv /\ SpawnInv /\ ThreadInv /\ QueueInv /\ NothingLostAtReturn
  BY DEF IInv
<1>2. TypeOK'
  BY <1>1, NextTypeOK
<1>3. BlockInv'
  BY <1>1, NextBlockInv
<1>4. SpawnInv'
  BY <1>1, NextSpawnInv
<1>5. ThreadInv'
  BY <1>1, NextThreadInv
<1>6. QueueInv'
  BY <1>1, NextQueueInv
<1>7. NothingLostAtReturn'
  BY <1>1, NextNothingLost
<1>8. QED
  BY <1>2, <1>3, <1>4, <1>5, <1>6, <1>7 DEF IInv

(* The inductive invariant holds in every reachable state. *)
THEOREM Invariance == Spec => []IInv
BY InitIInv, NextIInv, PTL DEF Spec

(* The queue and the consumer's hand hold no more than they may, and every
   variable has its type. *)
THEOREM TypeCorrect == Spec => []TypeOK
<1>1. IInv => TypeOK
  BY DEF IInv
<1>2. QED
  BY <1>1, Invariance, PTL

(* The blocks of the producers are disjoint and leave no example out. *)
THEOREM BlocksArePartition == Spec => []BlocksPartitionExamples
<1>1. IInv => BlocksPartitionExamples
  BY DataAssumption DEF IInv, SpawnInv, BlocksPartitionExamples, Examples, DataAssumption
<1>2. QED
  BY <1>1, Invariance, PTL

(* The consumer outlives the producers and leaves nothing in the queue. *)
THEOREM ConsumerIsLast == Spec => []ConsumerEndsLast
<1>1. IInv => ConsumerEndsLast
  <2>. SUFFICES ASSUME IInv, consumer = "exited"
                PROVE  /\ queue = <<>> /\ popped = {}
                       /\ \A i \in Workers : worker[i] # "running"
    BY DEF ConsumerEndsLast
  <2>1. queue = <<>> /\ popped = {} /\ main \in {"joinConsumer", "idle"}
    BY DEF IInv, ThreadInv
  <2>2. QED
    BY <2>1 DEF IInv, ThreadInv
<1>2. QED
  BY <1>1, Invariance, PTL

(* When update() returns, every update is in the gradient array. *)
THEOREM NothingLost == Spec => []NothingLostAtReturn
<1>1. IInv => NothingLostAtReturn
  BY DEF IInv
<1>2. QED
  BY <1>1, Invariance, PTL

-----------------------------------------------------------------------------
(* The function value *)

(* Induction up to a number, stated of sets instead of predicates *)
LEMMA LeastNatural ==
  ASSUME NEW T \in SUBSET Nat, T # {}
  PROVE  \E m \in T : \A k \in T : m <= k
<1>. DEFINE R == OpToRel(<, Nat)
<1>1. IsWellFoundedOn(R, Nat)
  BY NatLessThanWellFounded
<1>2. \A k, m \in Nat : <<k, m>> \in R <=> k < m
  BY DEF OpToRel
<1>. HIDE DEF R
<1>3. PICK m \in T : \A k \in T : ~(<<k, m>> \in R)
  BY <1>1, WFMin
<1>4. ASSUME NEW k \in T
      PROVE  m <= k
  <2>1. ~(k < m)
    BY <1>2, <1>3
  <2>2. QED
    BY <2>1
<1>5. QED
  BY <1>4

LEMMA InductionUpTo ==
  ASSUME NEW n \in Nat, NEW S, 0 \in S, \A k \in 0 .. n - 1 : k \in S => k + 1 \in S
  PROVE  0 .. n \subseteq S
<1>. SUFFICES ASSUME (0 .. n) \ S # {} PROVE FALSE
  OBVIOUS
<1>. DEFINE Missing == (0 .. n) \ S
<1>0. Missing \in SUBSET Nat /\ Missing # {}
  OBVIOUS
<1>. HIDE DEF Missing
<1>1. PICK m \in Missing : \A k \in Missing : m <= k
  BY <1>0, LeastNatural
<1>. USE DEF Missing
<1>2. m - 1 \in 0 .. n - 1 /\ m - 1 \in S
  BY <1>1
<1>3. QED
  BY <1>1, <1>2

LEMMA PartialSumsExist ==
  ASSUME NEW f, NEW n \in Nat, \A i \in 0 .. n - 1 : f[i] \in Int
  PROVE  \E g \in [0 .. n -> Int] :
           \A k \in 0 .. n : g[k] = IF k = 0 THEN 0 ELSE g[k - 1] + f[k - 1]
<1>. DEFINE D == 0 .. n
            At(g, k) == g[k] = IF k = 0 THEN 0 ELSE g[k - 1] + f[k - 1]
            S == {m \in D : \E g \in [D -> Int] : \A k \in 0 .. m : At(g, k)}
<1>1. 0 \in S
  <2>. DEFINE g == [k \in D |-> 0]
  <2>1. g \in [D -> Int] /\ 0 \in D /\ \A k \in 0 .. 0 : At(g, k)
    OBVIOUS
  <2>2. QED
    BY <2>1
<1>2. ASSUME NEW m \in 0 .. n - 1, m \in S
      PROVE  m + 1 \in S
  <2>1. PICK g \in [D -> Int] : \A k \in 0 .. m : At(g, k)
    BY <1>2
  <2>2. m \in D /\ m + 1 \in D /\ f[m] \in Int /\ g[m] \in Int
    OBVIOUS
  <2>. DEFINE h == [g EXCEPT ![m + 1] = g[m] + f[m]]
  <2>3. h \in [D -> Int] /\ h[m + 1] = g[m] + f[m] /\ \A k \in 0 .. m : h[k] = g[k]
    BY <2>2
  <2>. HIDE DEF h
  <2>4. ASSUME NEW k \in 0 .. m + 1
        PROVE  At(h, k)
    <3>1. CASE k = m + 1
      <4>1. k # 0 /\ k - 1 = m /\ h[k - 1] = g[m]
        BY <2>3, <3>1
      <4>2. QED
        BY <2>3, <3>1, <4>1
    <3>2. CASE k # m + 1
      <4>1. k \in 0 .. m /\ (k # 0 => k - 1 \in 0 .. m)
        BY <3>2
      <4>2. QED
        BY <2>1, <2>3, <4>1
    <3>3. QED
      BY <3>1, <3>2
  <2>. HIDE DEF At
  <2>5. QED
    BY <2>2, <2>3, <2>4
<1>. HIDE DEF S, At
<1>3. D \subseteq S
  BY <1>1, <1>2, InductionUpTo
<1>4. n \in S
  BY <1>3
<1>5. PICK g \in [D -> Int] : \A k \in 0 .. n : At(g, k)
  BY <1>4 DEF S
<1>6. QED
  BY <1>5 DEF At

(* The partial sums of f exist, and SumBelow is the last of them. *)
LEMMA SumBelowIsLast ==
  ASSUME NEW f, NEW n \in Nat, \A i \in 0 .. n - 1 : f[i] \in Int
  PROVE  \E g \in [0 .. n -> Int] :
           /\ g[0] = 0
           /\ \A k \in 0 .. n - 1 : g[k + 1] = g[k] + f[k]
           /\ SumBelow(f, n) = g[n]
<1>. DEFINE D == 0 .. n
            IsSum(s) == s = [k \in D |-> IF k = 0 THEN 0 ELSE s[k - 1] + f[k - 1]]
            sum == CHOOSE s : IsSum(s)
<1>1. \E g \in [D -> Int] : IsSum(g)
  <2>1. PICK g \in [D -> Int] : \A k \in D : g[k] = IF k = 0 THEN 0 ELSE g[k - 1] + f[k - 1]
    BY PartialSumsExist
  <2>2. QED
    BY <2>1
<1>2. SumBelow(f, n) = sum[n]
  BY DEF SumBelow
<1>. HIDE DEF IsSum
<1>3. IsSum(sum)
  BY <1>1
<1>. HIDE DEF sum
<1>. USE DEF IsSum
<1>4. sum[0] = 0 /\ \A k \in 0 .. n - 1 : sum[k + 1] = sum[k] + f[k]
  BY <1>3
<1>. DEFINE S == {k \in D : sum[k] \in Int}
<1>5. 0 \in S /\ \A k \in 0 .. n - 1 : k \in S => k + 1 \in S
  BY <1>4
<1>. HIDE DEF S
<1>6. D \subseteq S
  BY <1>5, InductionUpTo
<1>. USE DEF S
<1>7. sum = [k \in D |-> sum[k]]
  BY <1>3
<1>8. sum \in [D -> Int]
  BY <1>6, <1>7
<1>9. QED
  BY <1>2, <1>4, <1>8

LEMMA SumBelowZero ==
  ASSUME NEW f
  PROVE  SumBelow(f, 0) = 0
<1>1. 0 \in Nat /\ \A i \in 0 .. 0 - 1 : f[i] \in Int
  OBVIOUS
<1>2. \E g \in [0 .. 0 -> Int] : g[0] = 0 /\ SumBelow(f, 0) = g[0]
  BY <1>1, SumBelowIsLast
<1>3. QED
  BY <1>2

(* A sum is its last term more than the sum before it. *)
LEMMA SumBelowStep ==
  ASSUME NEW f, NEW n \in Nat, \A i \in 0 .. n : f[i] \in Int
  PROVE  /\ SumBelow(f, 0) = 0
         /\ SumBelow(f, n) \in Int
         /\ SumBelow(f, n + 1) = SumBelow(f, n) + f[n]
<1>1. SumBelow(f, 0) = 0
  BY SumBelowZero
<1>2. PICK g \in [0 .. n -> Int] :
        /\ g[0] = 0
        /\ \A k \in 0 .. n - 1 : g[k + 1] = g[k] + f[k]
        /\ SumBelow(f, n) = g[n]
  <2>1. \A i \in 0 .. n - 1 : f[i] \in Int
    OBVIOUS
  <2>2. QED
    BY <2>1, SumBelowIsLast
<1>3. PICK h \in [0 .. n + 1 -> Int] :
        /\ h[0] = 0
        /\ \A k \in 0 .. n : h[k + 1] = h[k] + f[k]
        /\ SumBelow(f, n + 1) = h[n + 1]
  <2>. DEFINE m == n + 1
  <2>1. m \in Nat /\ 0 .. m - 1 = 0 .. n
    OBVIOUS
  <2>. HIDE DEF m
  <2>2. \E h \in [0 .. m -> Int] :
          /\ h[0] = 0
          /\ \A k \in 0 .. m - 1 : h[k + 1] = h[k] + f[k]
          /\ SumBelow(f, m) = h[m]
    BY <2>1, SumBelowIsLast
  <2>3. QED
    BY <2>1, <2>2 DEF m
<1>. DEFINE S == {k \in 0 .. n : h[k] = g[k]}
<1>4. 0 \in S /\ \A k \in 0 .. n - 1 : k \in S => k + 1 \in S
  BY <1>2, <1>3
<1>. HIDE DEF S
<1>5. 0 .. n \subseteq S
  BY <1>4, InductionUpTo
<1>6. h[n] = g[n]
  BY <1>5 DEF S
<1>7. QED
  BY <1>1, <1>2, <1>3, <1>6

(* What example e adds is the difference it makes to ValueBelow. *)
LEMMA ValueBelowStep ==
  ASSUME weights \in Params
  PROVE  /\ ValueBelow(0) = 0
         /\ \A e \in 0 .. NumExamples : ValueBelow(e) \in Int
         /\ \A e \in Examples : ValueBelow(e + 1) = ValueBelow(e) + ExampleValue[weights][e]
<1>. DEFINE f == ExampleValue[weights]
<1>1. NumExamples \in Nat \ {0} /\ \A e \in 0 .. NumExamples - 1 : f[e] \in Int
  BY DataAssumption DEF DataAssumption, Examples
<1>. HIDE DEF f
<1>2. ASSUME NEW e \in 0 .. NumExamples - 1
      PROVE  SumBelow(f, 0) = 0 /\ SumBelow(f, e) \in Int
             /\ SumBelow(f, e + 1) = SumBelow(f, e) + f[e]
    BY <1>1, SumBelowStep
<1>3. SumBelow(f, NumExamples) \in Int
  <2>1. PICK g \in [0 .. NumExamples -> Int] : SumBelow(f, NumExamples) = g[NumExamples]
    BY <1>1, SumBelowIsLast
  <2>2. QED
    BY <1>1, <2>1
<1>4. \A e \in 0 .. NumExamples : SumBelow(f, e) \in Int
  BY <1>1, <1>2, <1>3
<1>. USE DEF f
<1>5. QED
  BY <1>1, <1>2, <1>4 DEF ValueBelow, Examples

(* When every worker has finished, their results add up to the value of all
   the examples. *)
LEMMA ResultsAddUp ==
  ASSUME TypeOK, BlockInv, SpawnInv, ChainInv, ResultInv,
         main \in {"joinConsumer", "sequential"},
         \A i \in Workers : worker[i] # "running"
  PROVE  SumBelow(result, spawned) = ValueBelow(NumExamples)
<1>1. NumExamples \in Nat /\ MaxThreads \in Nat /\ MaxThreads >= 2
  BY DataAssumption, ThreadAssumption DEF DataAssumption
<1>2. spawned \in Nat \ {0} /\ \A k \in 0 .. spawned - 1 : k \in Workers
  BY <1>1 DEF TypeOK, SpawnInv, NumProducers, Workers
<1>3. \A i \in Workers : i < spawned => example[i] = blockEnd[i]
  <2>1. \A i \in Workers : i < spawned => worker[i] = "done"
    BY DEF SpawnInv, TypeOK
  <2>2. QED
    BY <2>1 DEF BlockInv
<1>4. blockEnd[spawned - 1] = NumExamples
  <2>1. CASE main = "joinConsumer"
    BY <1>2, <2>1 DEF ChainInv, SpawnInv
  <2>2. CASE main = "sequential"
    BY <1>2, <2>2 DEF SpawnInv
  <2>3. QED
    BY <2>1, <2>2
<1>5. \A k \in 0 .. spawned - 1 : result[k] \in Int
  BY <1>2 DEF TypeOK
<1>. DEFINE end(k) == IF k = 0 THEN 0 ELSE blockEnd[k - 1]
            S == {k \in 0 .. spawned : SumBelow(result, k) = ValueBelow(end(k))}
<1>6. 0 \in S
  <2>1. SumBelow(result, 0) = 0 /\ ValueBelow(0) = 0
    BY SumBelowZero DEF ValueBelow
  <2>2. end(0) = 0 /\ 0 \in 0 .. spawned
    BY <1>2
  <2>. HIDE DEF end
  <2>3. QED
    BY <2>1, <2>2
<1>7. ASSUME NEW k \in 0 .. spawned - 1, k \in S
      PROVE  k + 1 \in S
  <2>1. k \in Workers /\ k < spawned /\ k + 1 \in 0 .. spawned
    BY <1>2
  <2>2. /\ SumBelow(result, k) \in Int
        /\ SumBelow(result, k + 1) = SumBelow(result, k) + result[k]
    <3>1. k \in Nat /\ \A i \in 0 .. k : result[i] \in Int
      BY <1>2, <1>5
    <3>2. QED
      BY <3>1, SumBelowStep
  <2>3. blockBegin[k] = end(k)
    <3>1. CASE k = 0
      BY <2>1, <3>1 DEF ChainInv
    <3>2. CASE k # 0
      <4>1. k - 1 \in Workers /\ k = (k - 1) + 1
        BY <1>2, <3>2
      <4>2. QED
        BY <2>1, <3>2, <4>1 DEF ChainInv
    <3>3. QED
      BY <3>1, <3>2
  <2>4. result[k] = ValueBelow(blockEnd[k]) - ValueBelow(end(k))
    BY <1>3, <2>1, <2>3 DEF ResultInv
  <2>5. ValueBelow(blockEnd[k]) \in Int
    <3>1. blockEnd[k] \in 0 .. NumExamples
      BY <1>1, <2>1 DEF BlockInv, TypeOK
    <3>2. QED
      BY <3>1, ValueBelowStep DEF TypeOK
  <2>6. SumBelow(result, k) = ValueBelow(end(k))
    BY <1>7
  <2>7. end(k + 1) = blockEnd[k]
    OBVIOUS
  <2>. HIDE DEF end
  <2>8. SumBelow(result, k + 1) = ValueBelow(end(k + 1))
    BY <2>2, <2>4, <2>5, <2>6, <2>7
  <2>9. QED
    BY <2>1, <2>8
<1>8. end(spawned) = NumExamples
  BY <1>2, <1>4
<1>. HIDE DEF S, end
<1>9. 0 .. spawned \subseteq S
  BY <1>2, <1>6, <1>7, InductionUpTo
<1>10. SumBelow(result, spawned) = ValueBelow(end(spawned))
  BY <1>2, <1>9 DEF S
<1>11. QED
  BY <1>8, <1>10

LEMMA NextChainInv ==
  ASSUME TypeOK, BlockInv, SpawnInv, ThreadInv, ChainInv, [Next]_vars
  PROVE  ChainInv'
<1>. USE DEF ChainInv
<1>1. CASE \E w \in Params : Call(w)
  <2>1. /\ spawned' \in {0, 1} /\ prevBlockEnd' = 0
        /\ blockBegin' = [i \in Workers |-> 0]
        /\ main' = "spawn" => spawned' = 0
        /\ main' \in {"spawn", "sequential"}
    BY <1>1 DEF Call
  <2>2. \A i, j \in Workers : ~(j = i + 1 /\ j < spawned')
    BY <2>1 DEF Workers
  <2>3. QED
    BY <2>1, <2>2
<1>2. CASE SpawnProducer
  <2>1. PICK s \in Workers : s = spawned
    BY <1>2, SpawnArithmetic
  <2>2. /\ spawned' = s + 1
        /\ prevBlockEnd' = prevBlockEnd + BlockLength(s)
        /\ blockBegin'[s] = prevBlockEnd
        /\ blockEnd'[s] = prevBlockEnd'
        /\ \A i \in Workers \ {s} : UNCHANGED <<blockBegin[i], blockEnd[i]>>
        /\ main = "spawn"
    BY <1>2, <2>1 DEF SpawnProducer, TypeOK
  <2>3. s \in Nat /\ spawned' - 1 = s
    BY <2>1, <2>2 DEF Workers
  <2>4. \A i \in Workers : i = 0 => blockBegin'[i] = 0
    BY <2>1, <2>2
  <2>5. ASSUME NEW i \in Workers, NEW j \in Workers, j = i + 1, j < spawned'
        PROVE  blockBegin'[j] = blockEnd'[i]
    <3>1. i # s /\ i \in Nat /\ j \in Nat
      BY <2>2, <2>3, <2>5 DEF Workers
    <3>2. CASE j = s
      BY <2>1, <2>2, <2>3, <2>5, <3>1, <3>2
    <3>3. CASE j # s
      BY <2>1, <2>2, <2>3, <2>5, <3>1, <3>3
    <3>4. QED
      BY <3>2, <3>3
  <2>6. QED
    BY <2>2, <2>3, <2>4, <2>5
<1>3. CASE ~SpawnProducer /\ ~(\E w \in Params : Call(w))
  <2>1. /\ UNCHANGED <<spawned, prevBlockEnd, blockBegin, blockEnd>>
        /\ main' \in {"spawn", "spawnConsumer", "joinProducers", "joinConsumer"} =>
             main \in {"spawn", "spawnConsumer", "joinProducers", "joinConsumer"}
    BY <1>3 DEF Next, Main, Worker, Consumer, SetNumThreads, SpawnConsumer,
      JoinProducers, Return, Push, AddDirectly, FinishExample, FinishWorker, TestDone,
      Pop, Drain, PopFrom, AddPopped, vars, mainVars, workerVars
  <2>2. QED
    BY <2>1
<1>4. QED
  BY <1>1, <1>2, <1>3

LEMMA NextResultInv ==
  ASSUME TypeOK, BlockInv, SpawnInv, ThreadInv, ResultInv, [Next]_vars
  PROVE  ResultInv'
<1>. USE DEF ResultInv
<1>1. CASE \E w \in Params : Call(w)
  <2>1. /\ weights' \in Params
        /\ \A i \in Workers : result'[i] = 0 /\ example'[i] = 0 /\ blockBegin'[i] = 0
    BY <1>1 DEF Call
  <2>2. ValueBelow(0)' = 0
    BY SumBelowZero DEF ValueBelow
  <2>3. \A i \in Workers : ValueBelow(example[i])' = 0 /\ ValueBelow(blockBegin[i])' = 0
    BY <2>1, <2>2 DEF ValueBelow
  <2>4. QED
    BY <2>1, <2>3
<1>2. CASE SpawnProducer
  <2>1. PICK s \in Workers : s = spawned
    BY <1>2, SpawnArithmetic
  <2>2. /\ UNCHANGED <<weights, result>>
        /\ blockBegin'[s] = prevBlockEnd /\ example'[s] = prevBlockEnd
        /\ \A i \in Workers \ {s} : UNCHANGED <<blockBegin[i], example[i]>>
    BY <1>2, <2>1 DEF SpawnProducer, TypeOK
  <2>3. blockBegin[s] = 0 /\ example[s] = 0
    <3>1. worker[s] = "unborn"
      BY <2>1 DEF SpawnInv, TypeOK, Workers
    <3>2. QED
      BY <3>1 DEF BlockInv, TypeOK
  <2>4. \A e \in 0 .. NumExamples : ValueBelow(e) \in Int
    BY ValueBelowStep DEF TypeOK
  <2>5. prevBlockEnd \in 0 .. NumExamples /\ 0 \in 0 .. NumExamples
    <3>1. /\ prevBlockEnd + BlockLength(spawned) <= NumExamples
          /\ BlockLength(spawned) \in Nat
      BY <1>2, SpawnArithmetic
    <3>2. NumExamples \in Nat /\ prevBlockEnd \in Nat
      BY DataAssumption DEF DataAssumption, TypeOK
    <3>3. QED
      BY <3>1, <3>2
  <2>6. result[s] = 0
    BY <2>3, <2>4, <2>5
  <2>7. ValueBelow(prevBlockEnd) - ValueBelow(prevBlockEnd) = 0
    BY <2>4, <2>5
  <2>8. ASSUME NEW i \in Workers
        PROVE  result'[i] = ValueBelow(example[i])' - ValueBelow(blockBegin[i])'
    <3>1. CASE i = s
      BY <2>2, <2>6, <2>7, <3>1 DEF ValueBelow
    <3>2. CASE i # s
      BY <2>2, <3>2 DEF ValueBelow
    <3>3. QED
      BY <3>1, <3>2
  <2>9. QED
    BY <2>8
<1>3. ASSUME NEW i \in Workers, FinishExample(i)
      PROVE  ResultInv'
  <2>1. /\ UNCHANGED <<weights, blockBegin>>
        /\ result'[i] = result[i] + ExampleValue[weights][example[i]]
        /\ example'[i] = example[i] + 1
        /\ \A j \in Workers \ {i} : UNCHANGED <<result[j], example[j]>>
    BY <1>3 DEF FinishExample, ResultWith, mainVars, TypeOK
  <2>2. example[i] \in Examples /\ example[i] \in 0 .. NumExamples
        /\ blockBegin[i] \in 0 .. NumExamples
    <3>1. example[i] < blockEnd[i]
      BY <1>3 DEF FinishExample, AtExample
    <3>2. /\ blockBegin[i] <= example[i] /\ example[i] <= blockEnd[i]
          /\ blockEnd[i] <= NumExamples
      BY DEF BlockInv
    <3>3. blockBegin[i] \in Nat /\ example[i] \in Nat /\ blockEnd[i] \in Nat
      BY DEF TypeOK
    <3>4. NumExamples \in Nat
      BY DataAssumption DEF DataAssumption
    <3>5. QED
      BY <3>1, <3>2, <3>3, <3>4 DEF Examples
  <2>3. /\ ValueBelow(example[i] + 1) = ValueBelow(example[i]) + ExampleValue[weights][example[i]]
        /\ ValueBelow(example[i]) \in Int /\ ValueBelow(blockBegin[i]) \in Int
    BY <2>2, ValueBelowStep DEF TypeOK
  <2>4. ExampleValue[weights][example[i]] \in Int
    BY <2>2, DataAssumption DEF DataAssumption, TypeOK
  <2>5. result'[i] = ValueBelow(example[i] + 1) - ValueBelow(blockBegin[i])
    BY <2>1, <2>3, <2>4
  <2>6. ASSUME NEW j \in Workers
        PROVE  result'[j] = ValueBelow(example[j])' - ValueBelow(blockBegin[j])'
    <3>1. CASE j = i
      BY <2>1, <2>5, <3>1 DEF ValueBelow
    <3>2. CASE j # i
      BY <2>1, <3>2 DEF ValueBelow
    <3>3. QED
      BY <3>1, <3>2
  <2>7. QED
    BY <2>6
<1>4. CASE ~SpawnProducer /\ ~(\E w \in Params : Call(w)) /\ ~(\E i \in Workers : FinishExample(i))
  <2>1. UNCHANGED <<weights, blockBegin, example, result>>
    BY <1>4 DEF Next, Main, Worker, Consumer, SetNumThreads, SpawnConsumer,
      JoinProducers, Return, Push, AddDirectly, FinishWorker, TestDone,
      Pop, Drain, PopFrom, AddPopped, vars, mainVars, workerVars
  <2>2. QED
    BY <2>1 DEF ValueBelow
<1>5. QED
  BY <1>1, <1>2, <1>3, <1>4

LEMMA NextValueInv ==
  ASSUME IInv, ChainInv, ResultInv, ValueInv, [Next]_vars
  PROVE  ValueInv'
<1>0. TypeOK /\ BlockInv /\ SpawnInv /\ ThreadInv
  BY DEF IInv
<1>1. CASE \E w \in Params : Call(w)
  BY <1>1 DEF Call, ValueInv, FunctionValueIsTotal
<1>2. CASE Return
  <2>1. main # "idle" /\ main \in {"joinConsumer", "sequential"}
    BY <1>2 DEF Return
  <2>2. \A i \in Workers : worker[i] # "running"
    <3>1. CASE main = "sequential"
      <4>1. worker[0] = "done"
        BY <1>2, <3>1 DEF Return
      <4>2. \A i \in Workers : i # 0 => worker[i] = "unborn"
        BY <1>0, <3>1 DEF SpawnInv, TypeOK, Workers
      <4>3. QED
        BY <4>1, <4>2
    <3>2. QED
      BY <1>0, <2>1, <3>1 DEF ThreadInv
  <2>3. SumBelow(result, spawned) = SumBelow(ExampleValue[weights], NumExamples)
    BY <1>0, <2>1, <2>2, ResultsAddUp DEF ValueBelow
  <2>4. fctVal' = RegValue[weights] * NumExamples
                  + Scaled(SumBelow(ExampleValue[weights], NumExamples))
    BY <1>2, <2>1, <2>3 DEF Return, ValueInv
  <2>5. main' = "idle" /\ weights' = weights
    BY <1>2 DEF Return
  <2>6. QED
    BY <2>4, <2>5 DEF ValueInv, FunctionValueIsTotal
<1>3. CASE ~Return /\ ~(\E w \in Params : Call(w))
  <2>1. UNCHANGED <<weights, fctVal>> /\ (main' = "idle" <=> main = "idle")
    BY <1>3 DEF Next, Main, Worker, Consumer, SetNumThreads, SpawnProducer, SpawnConsumer,
      JoinProducers, Push, AddDirectly, FinishExample, FinishWorker, TestDone,
      Pop, Drain, PopFrom, AddPopped, vars, mainVars
  <2>2. main = "idle" => spawned' = spawned
    <3>1. CASE main = "idle"
      <4>1. (\E n \in 1 .. MaxThreads : SetNumThreads(n)) \/ UNCHANGED vars
        BY <1>0, <1>3, <3>1, IdleSteps
      <4>2. QED
        BY <4>1 DEF SetNumThreads, vars, mainVars
    <3>2. QED
      BY <3>1
  <2>3. QED
    BY <2>1, <2>2 DEF ValueInv, FunctionValueIsTotal
<1>4. QED
  BY <1>1, <1>2, <1>3

(* What the function value rests on *)
TotalInv == ChainInv /\ ResultInv /\ ValueInv

LEMMA InitTotalInv == Init => TotalInv
<1>. SUFFICES ASSUME Init PROVE TotalInv
  OBVIOUS
<1>1. ChainInv
  BY DEF Init, ChainInv, Workers
<1>2. ResultInv
  <2>1. ValueBelow(0) = 0
    BY ValueBelowStep DEF Init
  <2>2. QED
    BY <2>1 DEF Init, ResultInv
<1>3. ValueInv
  BY DEF Init, ValueInv, FunctionValueIsTotal
<1>4. QED
  BY <1>1, <1>2, <1>3 DEF TotalInv

LEMMA NextTotalInv == IInv /\ TotalInv /\ [Next]_vars => TotalInv'
BY NextChainInv, NextResultInv, NextValueInv DEF IInv, TotalInv

(* update() returns the regularizer's value plus what every example adds,
   each counted once, however the examples are split. *)
THEOREM ValueIsTotal == Spec => []FunctionValueIsTotal
<1>1. TotalInv => FunctionValueIsTotal
  BY DEF TotalInv, ValueInv
<1>2. Spec => []TotalInv
  BY InitTotalInv, NextTotalInv, Invariance, PTL DEF Spec
<1>3. QED
  BY <1>1, <1>2, PTL

-----------------------------------------------------------------------------
(* Refinement of GradientSum *)

(* The abstract specification is about the same training data. *)
LEMMA SameData ==
  /\ \A w : Sequential!UpdateNames(w) = UpdateNames(w)
  /\ \A w : Sequential!StartGradient(w) = StartGradient(w)
  /\ \A g, u : Sequential!Added(g, u) = Added(g, u)
<1>1. \A w : Sequential!UpdateNames(w) = UpdateNames(w)
  BY DEF Sequential!UpdateNames, UpdateNames, Sequential!Examples, Examples
<1>2. \A w : Sequential!StartGradient(w) = StartGradient(w)
  BY DEF Sequential!StartGradient, StartGradient
<1>3. \A g, u : Sequential!Added(g, u) = Added(g, u)
  BY DEF Sequential!Added, Added, Sequential!RecordOf, RecordOf, Sequential!Scaled, Scaled
<1>4. QED
  BY <1>1, <1>2, <1>3

(* A new call starts with nothing delivered. *)
LEMMA CallRefines ==
  ASSUME NEW w \in Params, Call(w)
  PROVE  Sequential!Call(w)
<1>1. /\ weights' = w /\ queue' = <<>> /\ popped' = {}
      /\ blockBegin' = [i \in Workers |-> 0]
      /\ example' = [i \in Workers |-> 0]
      /\ pushes' = [i \in Workers |-> 0]
  BY DEF Call
<1>2. ASSUME NEW i \in Workers, NEW u \in UpdateNames(w), (u \in Delivered(i))'
      PROVE  FALSE
  <2>1. u[2] \in Nat /\ u[3] \in Nat /\ u[3] >= 1
    BY UpdateNamesParts DEF Examples
  <2>2. u[2] \in 0 .. 0 - 1 \/ u[3] <= 0
    BY <1>1, <1>2 DEF Delivered
  <2>3. QED
    BY <2>1, <2>2
<1>3. \A i \in Workers : Delivered(i)' \subseteq UpdateNames(w)
  BY <1>1 DEF Delivered
<1>4. AllDelivered' = {}
  BY <1>2, <1>3 DEF AllDelivered
<1>5. Applied' = {}
  BY <1>4 DEF Applied
<1>6. QED
  BY <1>5, SameData DEF Sequential!Call, Call, GradientAtStart

(* The consumer adds an update that was in its hand only. *)
LEMMA AddPoppedRefines ==
  ASSUME IInv, AddPopped
  PROVE  \E u \in UpdateNames(weights) : Sequential!Apply(u)
<1>1. PICK u \in popped : gradient' = Added(gradient, u)
  BY DEF AddPopped
<1>2. /\ popped = {u}
      /\ u \in UpdateNames(weights)
      /\ main # "idle"
      /\ u \in AllDelivered
      /\ u \notin InQueue
  <2>1. popped = {u} /\ u \in UpdateNames(weights)
    BY <1>1 DEF IInv, TypeOK
  <2>2. u \in AllDelivered /\ u \notin InQueue
    BY <1>1 DEF IInv, QueueInv, InQueue
  <2>3. main # "idle"
    BY DEF IInv, ThreadInv, AddPopped
  <2>4. QED
    BY <2>1, <2>2, <2>3
<1>3. AllDelivered' = AllDelivered /\ UNCHANGED <<main, weights, queue>> /\ popped' = {}
  BY DeliverNone DEF IInv, AddPopped, mainVars, workerVars
<1>4. Applied' = Applied \cup {u} /\ u \notin Applied
  BY <1>2, <1>3 DEF Applied, InQueue
<1>5. QED
  BY <1>1, <1>2, <1>3, <1>4, SameData DEF Sequential!Apply

(* Without the queue a delivery is the addition itself. *)
LEMMA AddDirectlyRefines ==
  ASSUME IInv, NEW i \in Workers, AddDirectly(i)
  PROVE  \E u \in UpdateNames(weights) : Sequential!Apply(u)
<1>1. TypeOK /\ BlockInv /\ SpawnInv /\ ThreadInv
  BY DEF IInv
<1>2. /\ AllDelivered' = AllDelivered \cup {NextUpdate(i)}
      /\ NextUpdate(i) \notin AllDelivered
      /\ NextUpdate(i) \in UpdateNames(weights)
  BY <1>1, DeliverOne
<1>3. main = "sequential"
  BY <1>1 DEF AddDirectly, AtExample, IsParallel, ThreadInv, SpawnInv, TypeOK, MainStates
<1>4. queue = <<>> /\ popped = {}
  BY <1>1, <1>3 DEF ThreadInv
<1>5. /\ UNCHANGED <<main, weights, queue, popped>>
      /\ gradient' = Added(gradient, NextUpdate(i))
  BY DEF AddDirectly, mainVars, consumerVars
<1>6. Applied' = Applied \cup {NextUpdate(i)} /\ NextUpdate(i) \notin Applied
  BY <1>2, <1>4, <1>5 DEF Applied, InQueue
<1>7. QED
  BY <1>2, <1>3, <1>5, <1>6, SameData DEF Sequential!Apply

(* A pushed update is delivered, but not yet applied. *)
LEMMA PushStutters ==
  ASSUME IInv, NEW i \in Workers, Push(i)
  PROVE  UNCHANGED Sequential!vars
<1>1. TypeOK /\ BlockInv /\ SpawnInv /\ ThreadInv
  BY DEF IInv
<1>2. /\ AllDelivered' = AllDelivered \cup {NextUpdate(i)}
      /\ NextUpdate(i) \notin AllDelivered
  BY <1>1, DeliverOne
<1>3. /\ UNCHANGED <<main, weights, popped, gradient>>
      /\ queue' = Append(queue, NextUpdate(i))
      /\ queue \in Seq(UpdateNames(weights))
      /\ NextUpdate(i) \in UpdateNames(weights)
  BY <1>1, DeliverOne DEF Push, mainVars, consumerVars, TypeOK
<1>4. InQueue' = InQueue \cup {NextUpdate(i)}
  <2>1. /\ Len(queue) \in Nat
        /\ Len(queue') = Len(queue) + 1
        /\ \A j \in 1 .. Len(queue) : queue'[j] = queue[j]
        /\ queue'[Len(queue) + 1] = NextUpdate(i)
    BY <1>3
  <2>2. 1 .. Len(queue') = (1 .. Len(queue)) \cup {Len(queue) + 1}
    BY <2>1
  <2>3. QED
    BY <2>1, <2>2 DEF InQueue
<1>5. Applied' = Applied
  BY <1>2, <1>3, <1>4 DEF Applied
<1>6. QED
  BY <1>3, <1>5 DEF Sequential!vars

(* Every step of the threads is a step of GradientSum or changes nothing it
   speaks of. *)
LEMMA StepRefines ==
  IInv /\ [Next]_vars => [Sequential!Next]_(Sequential!vars)
<1>. SUFFICES ASSUME IInv, [Next]_vars
              PROVE  Sequential!Next \/ UNCHANGED Sequential!vars
  OBVIOUS
<1>1. TypeOK /\ BlockInv /\ SpawnInv /\ ThreadInv /\ QueueInv
  BY DEF IInv
<1>2. CASE \E w \in Params : Call(w)
  BY <1>2, CallRefines DEF Sequential!Next
<1>3. CASE Return
  <2>1. Applied = UpdateNames(weights) /\ main # "idle"
    BY <1>1, <1>3, ReturnComplete
  <2>2. AllDelivered' = AllDelivered /\ UNCHANGED <<weights, queue, popped, gradient>>
    BY <1>1, <1>3, DeliverNone DEF Return, workerVars, consumerVars
  <2>3. Applied' = Applied
    BY <2>2 DEF Applied, InQueue
  <2>4. QED
    BY <1>3, <2>1, <2>2, <2>3, SameData DEF Return, Sequential!Return, Sequential!Next
<1>4. CASE AddPopped
  BY <1>4, AddPoppedRefines, SameData DEF Sequential!Next
<1>5. CASE \E i \in Workers : AddDirectly(i)
  BY <1>5, AddDirectlyRefines, SameData DEF Sequential!Next
<1>6. CASE \E i \in Workers : Push(i)
  BY <1>6, PushStutters
<1>7. ASSUME \A i \in Workers : ~Push(i) /\ ~AddDirectly(i),
             \A w \in Params : ~Call(w), ~Return, ~AddPopped
      PROVE  UNCHANGED Sequential!vars
  <2>1. UNCHANGED <<weights, gradient>>
    BY <1>7 DEF Next, Main, Worker, Consumer, SetNumThreads, SpawnProducer,
      SpawnConsumer, JoinProducers, FinishExample, FinishWorker, TestDone, Pop, Drain,
      PopFrom, vars, mainVars
  <2>2. (main # "idle")' <=> main # "idle"
    BY <1>7 DEF Next, Main, Worker, Consumer, SetNumThreads, SpawnProducer,
      SpawnConsumer, JoinProducers, FinishExample, FinishWorker, TestDone, Pop, Drain,
      PopFrom, vars, mainVars
  <2>3. AllDelivered' = AllDelivered
    BY <1>1, <1>7, DeliveredUnlessPushed
  <2>4. InQueue' \cup popped' = InQueue \cup popped
    <3>1. CASE Pop \/ Drain
      BY <1>1, <3>1, PopQueueInv
    <3>2. CASE ~(Pop \/ Drain)
      <4>1. UNCHANGED <<queue, popped>>
        BY <1>7, <3>2 DEF Next, Main, Worker, Consumer, SetNumThreads, SpawnProducer,
          SpawnConsumer, JoinProducers, FinishExample, FinishWorker, TestDone, vars,
          consumerVars
      <4>2. QED
        BY <4>1 DEF InQueue
    <3>3. QED
      BY <3>1, <3>2
  <2>5. Applied' = Applied
    BY <2>3, <2>4 DEF Applied
  <2>6. QED
    BY <2>1, <2>2, <2>5 DEF Sequential!vars
<1>8. QED
  BY <1>2, <1>3, <1>4, <1>5, <1>6, <1>7

LEMMA InitRefines == Init => Sequential!Init
<1>. SUFFICES ASSUME Init PROVE Sequential!Init
  OBVIOUS
<1>1. ASSUME NEW i \in Workers, NEW u \in Delivered(i)
      PROVE  FALSE
  <2>1. u \in UpdateNames(weights)
    BY DEF Delivered
  <2>2. u[2] \in Nat /\ u[3] \in Nat /\ u[3] >= 1
    BY <2>1, UpdateNamesParts DEF Init, Examples
  <2>3. u[2] \in 0 .. 0 - 1 \/ u[3] <= 0
    BY DEF Init, Delivered
  <2>4. QED
    BY <2>2, <2>3
<1>2. Applied = {}
  BY <1>1 DEF Applied, AllDelivered
<1>3. QED
  BY <1>2, SameData DEF Init, Sequential!Init

(* However the threads interleave, update() adds each update once, between
   its call and its return. *)
THEOREM Refinement == Spec => RefinesGradientSum
BY InitRefines, Invariance, StepRefines, PTL
   DEF Spec, RefinesGradientSum, Sequential!Spec
=============================================================================
