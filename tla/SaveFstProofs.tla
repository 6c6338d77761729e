---------------------------- MODULE SaveFstProofs ----------------------------
(* What saving a transducer keeps, for every transducer, finite or not: the
   depth first copy implements GraphCopy and copies what can be reached, and the
   lazy search settles states in the order of their distances, as Dijkstra's
   does, and ends with a path of the least cost or only without one.  And of
   every composition of two transducers: the merge of the generators of a state
   yields all their arcs, in the order they promise. *)
EXTENDS SavedComposition, DAryHeapProofs, FiniteSetTheorems

-----------------------------------------------------------------------------
(* Hypergraphs made of transducers *)

Labels == STRING \cup {Epsilon}
HgArcs == [tail : Int, head : Int, in : Labels, out : Labels, cost : Int]
Hypergraphs == [size : Nat, start : Int, final : Int, arcs : Seq(HgArcs)]

(* The start and the final state, if there are, and the ends of the arcs are
   among the states. *)
IsStateOf(hg, s) == s \in 0 .. hg.size - 1
IsHg(hg) ==
  /\ hg \in Hypergraphs
  /\ hg.start = NoState \/ IsStateOf(hg, hg.start)
  /\ hg.final = NoState \/ IsStateOf(hg, hg.final)
  /\ \A i \in 1 .. Len(hg.arcs) : IsStateOf(hg, hg.arcs[i].tail) /\ IsStateOf(hg, hg.arcs[i].head)

LEMMA EmptyIsHg ==
  ASSUME NEW n \in Nat, NEW s \in Int, NEW f \in Int,
         s = NoState \/ s \in 0 .. n - 1, f = NoState \/ f \in 0 .. n - 1
  PROVE  IsHg([size |-> n, start |-> s, final |-> f, arcs |-> <<>>])
BY EmptySeq DEF IsHg, Hypergraphs, IsStateOf

LEMMA AddStateFacts ==
  ASSUME NEW hg, IsHg(hg)
  PROVE  /\ IsHg(AddState(hg))
         /\ AddState(hg).size = hg.size + 1
         /\ AddState(hg).start = hg.start /\ AddState(hg).final = hg.final
         /\ IsStateOf(AddState(hg), hg.size)
         /\ \A s : IsStateOf(hg, s) => IsStateOf(AddState(hg), s)
<1>1. hg = [size |-> hg.size, start |-> hg.start, final |-> hg.final, arcs |-> hg.arcs]
      /\ hg.size \in Nat
  BY DEF IsHg, Hypergraphs
<1>2. AddState(hg) = [size |-> hg.size + 1, start |-> hg.start, final |-> hg.final, arcs |-> hg.arcs]
  BY <1>1 DEF AddState, IsHg, Hypergraphs
<1>3. AddState(hg) \in Hypergraphs
  BY <1>2 DEF IsHg, Hypergraphs
<1>4. \A s : IsStateOf(hg, s) => IsStateOf(AddState(hg), s)
  BY <1>1, <1>2 DEF IsStateOf
<1>5. AddState(hg).arcs = hg.arcs
  BY <1>2
<1>6. IsHg(AddState(hg))
  BY <1>2, <1>3, <1>4, <1>5 DEF IsHg
<1>7. QED
  BY <1>1, <1>2, <1>4, <1>6 DEF IsStateOf

LEMMA AddArcFacts ==
  ASSUME NEW hg, IsHg(hg), NEW t, NEW h, IsStateOf(hg, t), IsStateOf(hg, h),
         NEW in \in Labels, NEW out \in Labels, NEW cost \in Int
  PROVE  /\ IsHg(AddArc(hg, t, h, in, out, cost))
         /\ AddArc(hg, t, h, in, out, cost).size = hg.size
         /\ AddArc(hg, t, h, in, out, cost).start = hg.start
         /\ AddArc(hg, t, h, in, out, cost).final = hg.final
<1>. DEFINE arc == [tail |-> t, head |-> h, in |-> in, out |-> out, cost |-> cost]
            new == AddArc(hg, t, h, in, out, cost)
<1>1. hg = [size |-> hg.size, start |-> hg.start, final |-> hg.final, arcs |-> hg.arcs]
      /\ hg.size \in Nat /\ hg.arcs \in Seq(HgArcs)
  BY DEF IsHg, Hypergraphs
<1>2. new = [size |-> hg.size, start |-> hg.start, final |-> hg.final, arcs |-> Append(hg.arcs, arc)]
  <2>1. new = [hg EXCEPT !.arcs = Append(@, arc)]
    BY DEF AddArc
  <2>. HIDE DEF arc, new
  <2>2. QED
    BY <1>1, <2>1
<1>3. arc \in HgArcs /\ arc.tail = t /\ arc.head = h
  BY DEF HgArcs, IsStateOf
<1>. HIDE DEF arc, new
<1>4. /\ Append(hg.arcs, arc) \in Seq(HgArcs)
      /\ Len(Append(hg.arcs, arc)) = Len(hg.arcs) + 1 /\ Len(hg.arcs) \in Nat
      /\ \A i \in 1 .. Len(hg.arcs) : Append(hg.arcs, arc)[i] = hg.arcs[i]
      /\ Append(hg.arcs, arc)[Len(hg.arcs) + 1] = arc
  BY <1>1, <1>3
<1>5. new \in Hypergraphs
  BY <1>1, <1>2, <1>4 DEF IsHg, Hypergraphs
<1>6. ASSUME NEW i \in 1 .. Len(new.arcs)
      PROVE  IsStateOf(hg, new.arcs[i].tail) /\ IsStateOf(hg, new.arcs[i].head)
  <2>1. i \in 1 .. Len(hg.arcs) \/ i = Len(hg.arcs) + 1
    BY <1>2, <1>4
  <2>2. QED
    BY <1>2, <1>3, <1>4, <2>1 DEF IsHg
<1>7. \A s : IsStateOf(new, s) <=> IsStateOf(hg, s)
  BY <1>2 DEF IsStateOf
<1>8. IsHg(new)
  BY <1>2, <1>5, <1>6, <1>7 DEF IsHg
<1>9. QED
  BY <1>2, <1>8 DEF new

-----------------------------------------------------------------------------
(* addToHypergraph *)

IsPath(p) == Len(p) \in Nat /\ \A i \in 1 .. Len(p) : 
               p[i].in \in Labels /\ p[i].out \in Labels /\ p[i].cost \in Int

Copies ==
  {c \in [hg : Hypergraphs, tail : Int, startCost : Int, isStartRemoved : BOOLEAN] :
     /\ IsHg(c.hg)
     /\ IsStateOf(c.hg, c.tail) /\ IsStateOf(c.hg, c.hg.start) /\ IsStateOf(c.hg, c.hg.final)}

LEMMA RemoveArcType ==
  ASSUME NEW c \in Copies, NEW arc, arc.cost \in Int
  PROVE  RemoveArc(c, arc) \in Copies
<1>1. /\ c = [hg |-> c.hg, tail |-> c.tail, startCost |-> c.startCost,
              isStartRemoved |-> c.isStartRemoved]
      /\ c.hg = [size |-> c.hg.size, start |-> c.hg.start, final |-> c.hg.final, arcs |-> c.hg.arcs]
      /\ c.hg.size \in Nat /\ c.hg.arcs \in Seq(HgArcs)
      /\ c.startCost \in Int /\ c.tail \in Int
      /\ c \in [hg : Hypergraphs, tail : Int, startCost : Int, isStartRemoved : BOOLEAN]
  BY DEF Copies, Hypergraphs
<1>2. CASE c.hg.arcs = <<>>
  <2>1. RemoveArc(c, arc) = [hg |-> c.hg, tail |-> c.tail, startCost |-> c.startCost + arc.cost,
                             isStartRemoved |-> TRUE]
    BY <1>1, <1>2 DEF RemoveArc
  <2>2. QED
    BY <1>1, <2>1 DEF Copies
<1>3. CASE c.hg.arcs # <<>>
  <2>. DEFINE n == Len(c.hg.arcs)
              new == [c.hg.arcs EXCEPT ![n].cost = @ + arc.cost]
              newHg == [size |-> c.hg.size, start |-> c.hg.start, final |-> c.hg.final, arcs |-> new]
  <2>1. n \in 1 .. n /\ n \in Nat
    BY <1>1, <1>3
  <2>2. /\ new \in Seq(HgArcs) /\ Len(new) = n
        /\ \A i \in 1 .. n : new[i].tail = c.hg.arcs[i].tail /\ new[i].head = c.hg.arcs[i].head
    <3>1. c.hg.arcs[n] \in HgArcs
      BY <1>1, <2>1
    <3>2. [c.hg.arcs[n] EXCEPT !.cost = @ + arc.cost] \in HgArcs
      BY <3>1 DEF HgArcs
    <3>3. new = [c.hg.arcs EXCEPT ![n] = [c.hg.arcs[n] EXCEPT !.cost = @ + arc.cost]]
      OBVIOUS
    <3>4. /\ [c.hg.arcs[n] EXCEPT !.cost = @ + arc.cost].tail = c.hg.arcs[n].tail
          /\ [c.hg.arcs[n] EXCEPT !.cost = @ + arc.cost].head = c.hg.arcs[n].head
      BY <3>1 DEF HgArcs
    <3>. HIDE DEF new
    <3>5. new \in Seq(HgArcs) /\ Len(new) = n
      BY <1>1, <2>1, <3>2, <3>3
    <3>6. \A i \in 1 .. n : new[i] = IF i = n THEN [c.hg.arcs[n] EXCEPT !.cost = @ + arc.cost]
                                              ELSE c.hg.arcs[i]
      BY <1>1, <2>1, <3>3
    <3>7. QED
      BY <3>4, <3>5, <3>6
  <2>3. RemoveArc(c, arc) = [hg |-> newHg, tail |-> c.tail, startCost |-> c.startCost,
                             isStartRemoved |-> c.isStartRemoved]
    BY <1>1, <1>3 DEF RemoveArc
  <2>. HIDE DEF new, n
  <2>4. newHg \in Hypergraphs
    BY <1>1, <2>2 DEF Hypergraphs, Copies
  <2>5. \A s : IsStateOf(newHg, s) <=> IsStateOf(c.hg, s)
    BY DEF IsStateOf
  <2>6. \A i \in 1 .. n : IsStateOf(c.hg, c.hg.arcs[i].tail) /\ IsStateOf(c.hg, c.hg.arcs[i].head)
    BY DEF Copies, IsHg, n
  <2>7. IsHg(newHg)
    BY <2>2, <2>4, <2>5, <2>6 DEF Copies, IsHg
  <2>8. QED
    BY <1>1, <2>3, <2>4, <2>5, <2>7 DEF Copies
<1>4. QED
  BY <1>2, <1>3

LEMMA CopyArcType ==
  ASSUME NEW c \in Copies, NEW arc, arc.in \in Labels, arc.out \in Labels, arc.cost \in Int,
         NEW isLast
  PROVE  CopyArc(c, arc, isLast, opt) \in Copies
<1>. DEFINE head == IF isLast THEN c.hg.final ELSE c.hg.size
            base == IF isLast THEN c.hg ELSE AddState(c.hg)
            in == IF opt.projectOutput THEN arc.out ELSE arc.in
            cost == arc.cost + c.startCost
            new == AddArc(base, c.tail, head, in, arc.out, cost)
<1>1. /\ IsHg(c.hg) /\ IsStateOf(c.hg, c.tail) /\ IsStateOf(c.hg, c.hg.start)
      /\ IsStateOf(c.hg, c.hg.final) /\ c.startCost \in Int
  BY DEF Copies
<1>2. /\ IsHg(base) /\ IsStateOf(base, c.tail) /\ IsStateOf(base, head)
      /\ base.start = c.hg.start /\ base.final = c.hg.final
      /\ IsStateOf(base, base.start) /\ IsStateOf(base, base.final)
  BY <1>1, AddStateFacts
<1>3. in \in Labels /\ arc.out \in Labels /\ cost \in Int
  BY <1>1
<1>4. CopyArc(c, arc, isLast, opt) = [hg |-> new, tail |-> head, startCost |-> 0, isStartRemoved |-> FALSE]
  BY DEF CopyArc
<1>. HIDE DEF base, head, in, cost
<1>5. IsHg(new) /\ new.size = base.size /\ new.start = base.start /\ new.final = base.final
  BY <1>2, <1>3, AddArcFacts
<1>6. \A s : IsStateOf(base, s) => IsStateOf(new, s)
  BY <1>5 DEF IsStateOf
<1>7. head \in Int /\ new \in Hypergraphs
  BY <1>2, <1>5 DEF IsStateOf, IsHg
<1>. HIDE DEF new
<1>8. QED
  BY <1>2, <1>4, <1>5, <1>6, <1>7 DEF Copies

LEMMA CopyArcsType ==
  ASSUME NEW c \in Copies, NEW p, IsPath(p)
  PROVE  CopyArcs(c, p, opt) \in Copies
<1>. DEFINE N == Len(p)
            Turn(n, k) == IF IsRemoved(p[n], opt) THEN RemoveArc(k, p[n])
                                                  ELSE CopyArc(k, p[n], n = N, opt)
            step == [x \in (1 .. N) \X Copies |-> Turn(x[1], x[2])]
            IsCopied(f) == f = [n \in 0 .. N |-> IF n = 0 THEN c ELSE Turn(n, f[n - 1])]
            copied == CHOOSE f : IsCopied(f)
            Inv == [n \in 0 .. N |-> Copies]
<1>1. N \in Nat
  BY DEF IsPath
<1>2. CopyArcs(c, p, opt) = copied[N]
  BY DEF CopyArcs
<1>3. ASSUME NEW n \in 1 .. N, NEW k \in Copies
      PROVE  Turn(n, k) \in Copies
  BY RemoveArcType, CopyArcType DEF IsPath
<1>. HIDE DEF N, Turn
<1>4. step \in [(1 .. N) \X Copies -> Copies]
  BY <1>3
<1>5. \A n \in 1 .. N, k \in Copies : step[<<n, k>>] = Turn(n, k)
  OBVIOUS
<1>. HIDE DEF step
<1>6. PICK f \in [0 .. N -> Copies] :
        f[0] = c /\ \A n \in 1 .. N : f[n] = step[<<n, f[n - 1]>>]
  <2>1. IsCount(Copies, N, c, step)
    BY <1>1, <1>4 DEF IsCount
  <2>2. QED
    BY <2>1, ForExists
<1>7. IsCopied(f)
  <2>1. \A n \in 1 .. N : n - 1 \in 0 .. N
    BY <1>1
  <2>2. \A n \in 1 .. N : f[n] = Turn(n, f[n - 1])
    BY <1>5, <1>6, <2>1
  <2>3. \A n \in 0 .. N : n = 0 \/ n \in 1 .. N
    BY <1>1
  <2>4. QED
    BY <1>6, <2>2, <2>3
<1>8. IsCopied(copied)
  <2>. HIDE DEF IsCopied
  <2>1. QED
    BY <1>7
<1>. HIDE DEF copied
<1>9. copied[0] = c /\ \A n \in 1 .. N : copied[n] = Turn(n, copied[n - 1])
  BY <1>1, <1>8
<1>10. /\ \A n \in 0 .. N : Inv[n] = Copies
       /\ \A n \in 1 .. N : n \in 0 .. N /\ n - 1 \in 0 .. N
       /\ 0 \in 0 .. N /\ N \in 0 .. N
  BY <1>1
<1>. HIDE DEF Inv
<1>11. \A n \in 1 .. N : copied[n - 1] \in Inv[n - 1] => copied[n] \in Inv[n]
  BY <1>3, <1>9, <1>10
<1>12. copied[0] \in Inv[0]
  BY <1>9, <1>10
<1>13. \A n \in 0 .. N : copied[n] \in Inv[n]
  BY <1>1, <1>11, <1>12, ForKeeps
<1>14. QED
  BY <1>2, <1>10, <1>13

LEMMA PathHypergraphType ==
  ASSUME NEW p, IsPath(p)
  PROVE  IsHg(PathHypergraph(p, opt))
<1>1. CASE p = <<>>
  <2>1. PathHypergraph(p, opt) = [size |-> 1, start |-> 0, final |-> 0, arcs |-> <<>>]
    BY <1>1 DEF PathHypergraph, EmptyHypergraph
  <2>2. QED
    BY <2>1, EmptyIsHg
<1>2. CASE p # <<>>
  <2>. DEFINE hg == [size |-> 2, start |-> 1, final |-> 0, arcs |-> <<>>]
              first == [hg |-> hg, tail |-> 1, startCost |-> 0, isStartRemoved |-> FALSE]
  <2>1. [EmptyHypergraph EXCEPT !.size = 2, !.start = 1, !.final = 0] = hg
    <3>1. EmptyHypergraph = [size |-> 0, start |-> -1, final |-> -1, arcs |-> <<>>]
      BY DEF EmptyHypergraph, NoState
    <3>2. PICK two : two = [EmptyHypergraph EXCEPT !.size = 2]
      OBVIOUS
    <3>3. two = [size |-> 2, start |-> -1, final |-> -1, arcs |-> <<>>]
      BY <3>1, <3>2
    <3>4. PICK started : started = [two EXCEPT !.start = 1]
      OBVIOUS
    <3>5. started = [size |-> 2, start |-> 1, final |-> -1, arcs |-> <<>>]
      BY <3>3, <3>4
    <3>6. [started EXCEPT !.final = 0] = hg
      BY <3>5
    <3>7. QED
      BY <3>2, <3>4, <3>6
  <2>2. IsHg(hg) /\ IsStateOf(hg, hg.start) /\ IsStateOf(hg, hg.final) /\ IsStateOf(hg, 1)
    BY EmptyIsHg DEF IsStateOf
  <2>3. hg \in Hypergraphs
    BY <2>2 DEF IsHg
  <2>. HIDE DEF hg
  <2>4. first \in Copies
    BY <2>2, <2>3 DEF Copies
  <2>. HIDE DEF first
  <2>. PICK copy : copy = CopyArcs(first, p, opt)
    OBVIOUS
  <2>5. copy \in Copies
    BY <2>4, CopyArcsType
  <2>6. PathHypergraph(p, opt) =
          IF copy.isStartRemoved
            THEN AddArc(copy.hg, copy.hg.start, copy.hg.final, Epsilon, Epsilon, copy.startCost)
            ELSE copy.hg
    BY <1>2, <2>1 DEF PathHypergraph, first
  <2>7. QED
    <3>1. Epsilon \in Labels /\ copy.startCost \in Int
      BY <2>5 DEF Copies, Labels
    <3>2. IsHg(copy.hg) /\ IsStateOf(copy.hg, copy.hg.start) /\ IsStateOf(copy.hg, copy.hg.final)
      BY <2>5 DEF Copies
    <3>3. IsHg(AddArc(copy.hg, copy.hg.start, copy.hg.final, Epsilon, Epsilon, copy.startCost))
      BY <3>1, <3>2, AddArcFacts
    <3>4. QED
      BY <2>6, <3>2, <3>3
<1>3. QED
  BY <1>1, <1>2

-----------------------------------------------------------------------------
(* What always holds.  IsRest says which of a state's arcs a call has yet to add:
   the last of them. *)
Arcs == ArcsTo(fst.states)
IsRest(rest, all) ==
  Len(rest) <= Len(all) /\ \A k \in 1 .. Len(rest) : rest[k] = all[(Len(all) - Len(rest)) + k]

JobInv ==
  /\ IsFst(fst)
  /\ None \notin fst.states
  /\ opt.lazy \in BOOLEAN
  /\ opt.expandMoreArcs \in Nat

PhaseInv ==
  /\ phase \in {"start", "search", "save", "done"}
  /\ phase = "start" => outHg = EmptyHypergraph
  /\ phase = "start" \/ ~opt.lazy => best = <<>> /\ queue = EmptyHeap({})
  /\ phase = "start" \/ opt.lazy => stack = <<>> /\ stateMap = <<>>
  /\ phase = "search" => opt.lazy
  /\ phase = "save" => ~opt.lazy
  /\ phase = "done" => stack = <<>>
  /\ phase # "start" /\ ~opt.lazy => fst.start \in DOMAIN stateMap

Bests == [distance : Int, key : Int, arcs : Seq(Arcs), arc : Arcs \cup {None},
          predecessor : fst.states \cup {None}]
BestInv ==
  /\ best \in [DOMAIN best -> Bests]
  /\ DOMAIN best \subseteq fst.states
  /\ IsFiniteSet(DOMAIN best)
  /\ \A s \in DOMAIN best :
       best[s].predecessor # None => best[s].predecessor \in DOMAIN best /\ best[s].arc \in Arcs

QueueInv ==
  /\ Range(queue.data) \subseteq DOMAIN best
  /\ isQueuedTwice \in BOOLEAN
  /\ phase = "search" => queue \in Heaps(fst.states) /\ (~isQueuedTwice => IsPlaced(queue))

Calls == [state : fst.states, id : Int, arcs : Seq(Arcs), hasNoArcs : BOOLEAN]
StackInv ==
  /\ stack \in Seq(Calls)
  /\ \A i \in 1 .. Len(stack) :
       /\ stack[i].state \in DOMAIN stateMap
       /\ stack[i].id = stateMap[stack[i].state]
       /\ IsRest(stack[i].arcs, fst.arcs[stack[i].state])
  /\ \A i, j \in 1 .. Len(stack) : stack[i].state = stack[j].state => i = j

MapInv ==
  /\ DOMAIN stateMap \subseteq fst.states
  /\ \A s \in DOMAIN stateMap : IsStateOf(outHg, stateMap[s])
  /\ \A s, t \in DOMAIN stateMap : stateMap[s] = stateMap[t] => s = t

HgInv == IsHg(outHg)

IInv == JobInv /\ PhaseInv /\ BestInv /\ QueueInv /\ StackInv /\ MapInv /\ HgInv

LEMMA EmptyFunction ==
  ASSUME NEW S
  PROVE  DOMAIN <<>> = {} /\ <<>> \in [{} -> S]
<1>1. <<>> \in Seq(S) /\ Len(<<>>) = 0
  OBVIOUS
<1>2. DOMAIN <<>> = {}
  BY <1>1
<1>3. QED
  BY <1>2

LEMMA StartArcs ==
  ASSUME JobInv
  PROVE  /\ fst.start \in fst.states
         /\ \A s \in fst.states : fst.arcs[s] \in Seq(Arcs)
BY DEF JobInv, IsFst, Arcs

LEMMA InsertedFacts ==
  ASSUME NEW map, NEW s, NEW value
  PROVE  /\ DOMAIN Inserted(map, s, value) = DOMAIN map \cup {s}
         /\ Inserted(map, s, value)[s] = value
         /\ \A t \in DOMAIN map : t # s => Inserted(map, s, value)[t] = map[t]
BY DEF Inserted

LEMMA InitIInv == Init => IInv
<1>. SUFFICES ASSUME Init PROVE IInv
  OBVIOUS
<1>1. JobInv
  BY JobsAssumption DEF Init, LazyInit, JobInv
<1>2. PhaseInv
  BY DEF Init, LazyInit, PhaseInv
<1>3. BestInv
  BY EmptyFunction, FS_EmptySet DEF Init, LazyInit, BestInv
<1>4. QueueInv
  BY EmptyFunction DEF Init, LazyInit, QueueInv, EmptyHeap, Range
<1>5. StackInv
  BY DEF Init, StackInv
<1>6. MapInv
  BY EmptyFunction DEF Init, MapInv
<1>7. HgInv
  BY EmptyIsHg DEF Init, LazyInit, HgInv, EmptyHypergraph, NoState
<1>8. QED
  BY <1>1, <1>2, <1>3, <1>4, <1>5, <1>6, <1>7 DEF IInv

-----------------------------------------------------------------------------
(* Saving depth first *)

(* No call that has not returned is for a state still to be visited. *)
LEMMA NewIsNotOnStack ==
  ASSUME StackInv, NEW s, s \notin DOMAIN stateMap
  PROVE  \A i \in 1 .. Len(stack) : stack[i].state # s
BY DEF StackInv

LEMMA RestOfRest ==
  ASSUME NEW S, NEW all \in Seq(S), NEW rest \in Seq(S), IsRest(rest, all), rest # <<>>
  PROVE  /\ IsRest(Tail(rest), all) /\ Tail(rest) \in Seq(S) /\ Len(Tail(rest)) = Len(rest) - 1
         /\ (Len(all) - Len(rest)) + 1 \in 1 .. Len(all)
         /\ rest[1] = all[(Len(all) - Len(rest)) + 1] /\ rest[1] \in S
<1>1. /\ Len(rest) \in Nat /\ Len(all) \in Nat /\ Len(rest) > 0
      /\ Tail(rest) \in Seq(S) /\ Len(Tail(rest)) = Len(rest) - 1
      /\ \A k \in 1 .. Len(rest) - 1 : Tail(rest)[k] = rest[k + 1]
  OBVIOUS
<1>2. \A k \in 1 .. Len(rest) - 1 :
        rest[k + 1] = all[(Len(all) - Len(rest)) + (k + 1)]
  BY <1>1 DEF IsRest
<1>3. \A k \in 1 .. Len(rest) - 1 :
        (Len(all) - Len(rest)) + (k + 1) = (Len(all) - (Len(rest) - 1)) + k
  BY <1>1
<1>4. \A k \in 1 .. Len(rest) - 1 : Tail(rest)[k] = all[(Len(all) - (Len(rest) - 1)) + k]
  BY <1>1, <1>2, <1>3
<1>5. IsRest(Tail(rest), all)
  BY <1>1, <1>4 DEF IsRest
<1>6. QED
  BY <1>1, <1>5 DEF IsRest

LEMMA CallFacts ==
  ASSUME JobInv, HgInv, NEW s \in fst.states
  PROVE  /\ Call(s) \in Calls /\ Call(s).state = s /\ Call(s).id = outHg.size
         /\ Call(s).arcs = fst.arcs[s] /\ IsRest(fst.arcs[s], fst.arcs[s])
<1>1. fst.arcs[s] \in Seq(Arcs)
  BY StartArcs
<1>2. outHg.size \in Int
  BY DEF HgInv, IsHg, Hypergraphs
<1>3. IsRest(fst.arcs[s], fst.arcs[s])
  BY <1>1 DEF IsRest
<1>4. QED
  BY <1>1, <1>2, <1>3 DEF Call, Calls

(* A state is called for: it gets the next number and its call the place above
   the others. *)
LEMMA CalledFor ==
  ASSUME IInv, NEW s \in fst.states, s \notin DOMAIN stateMap,
         stack' = Append(stack, Call(s)), stateMap' = Inserted(stateMap, s, outHg.size),
         outHg' = AddState(outHg), UNCHANGED input
  PROVE  /\ StackInv' /\ MapInv' /\ HgInv'
         /\ DOMAIN stateMap' = DOMAIN stateMap \cup {s} /\ stateMap'[s] = outHg.size
         /\ \A t \in DOMAIN stateMap : stateMap'[t] = stateMap[t] /\ stateMap'[t] # stateMap'[s]
         /\ stack' \in Seq(Calls) /\ Len(stack') = Len(stack) + 1 /\ Len(stack) \in Nat
         /\ \A i \in 1 .. Len(stack) : stack'[i] = stack[i]
         /\ stack'[Len(stack) + 1] = Call(s)
<1>1. JobInv /\ StackInv /\ MapInv /\ HgInv
  BY DEF IInv
<1>2. /\ Call(s) \in Calls /\ Call(s).state = s /\ Call(s).id = outHg.size
      /\ Call(s).arcs = fst.arcs[s] /\ IsRest(fst.arcs[s], fst.arcs[s])
  BY <1>1, CallFacts
<1>3. stack \in Seq(Calls)
  BY <1>1 DEF StackInv
<1>. PICK call : call = Call(s)
  OBVIOUS
<1>4. /\ stack' \in Seq(Calls) /\ Len(stack') = Len(stack) + 1 /\ Len(stack) \in Nat
      /\ \A i \in 1 .. Len(stack) : stack'[i] = stack[i]
      /\ stack'[Len(stack) + 1] = call
  BY <1>2, <1>3
<1>5. /\ DOMAIN stateMap' = DOMAIN stateMap \cup {s} /\ stateMap'[s] = outHg.size
      /\ \A t \in DOMAIN stateMap : stateMap'[t] = stateMap[t]
  BY DEF Inserted
<1>6. /\ IsHg(outHg') /\ IsStateOf(outHg', outHg.size)
      /\ \A t : IsStateOf(outHg, t) => IsStateOf(outHg', t)
  BY <1>1, AddStateFacts DEF HgInv
<1>7. \A t \in DOMAIN stateMap : stateMap[t] # outHg.size
  <2>1. \A n : IsStateOf(outHg, n) => n # outHg.size
    BY <1>1 DEF IsStateOf, HgInv, IsHg, Hypergraphs
  <2>2. QED
    BY <1>1, <2>1 DEF MapInv
<1>8. MapInv'
  <2>1. DOMAIN stateMap' \subseteq fst'.states
    BY <1>1, <1>5 DEF MapInv, input
  <2>2. \A t \in DOMAIN stateMap' : IsStateOf(outHg', stateMap'[t])
    BY <1>1, <1>5, <1>6 DEF MapInv
  <2>3. \A t, u \in DOMAIN stateMap' : stateMap'[t] = stateMap'[u] => t = u
    BY <1>1, <1>5, <1>7 DEF MapInv
  <2>4. QED
    BY <2>1, <2>2, <2>3 DEF MapInv
<1>9. \A i \in 1 .. Len(stack') : i \in 1 .. Len(stack) \/ i = Len(stack) + 1
  BY <1>4
<1>10. \A i \in 1 .. Len(stack) : stack[i].state # s
  BY <1>1, NewIsNotOnStack
<1>11. StackInv'
  <2>1. stack' \in Seq(Calls)'
    BY <1>4 DEF input, Calls, Arcs
  <2>2. ASSUME NEW i \in 1 .. Len(stack')
        PROVE  /\ stack'[i].state \in DOMAIN stateMap'
               /\ stack'[i].id = stateMap'[stack'[i].state]
               /\ IsRest(stack'[i].arcs, fst.arcs[stack'[i].state])
    <3>1. CASE i \in 1 .. Len(stack)
      BY <1>1, <1>4, <1>5, <1>10, <3>1 DEF StackInv
    <3>2. CASE i = Len(stack) + 1
      BY <1>2, <1>4, <1>5, <3>2
    <3>3. QED
      BY <1>9, <3>1, <3>2
  <2>3. ASSUME NEW i \in 1 .. Len(stack'), NEW j \in 1 .. Len(stack'),
               stack'[i].state = stack'[j].state
        PROVE  i = j
    BY <1>1, <1>2, <1>4, <1>9, <1>10, <2>3 DEF StackInv
  <2>4. QED
    BY <2>1, <2>2, <2>3 DEF StackInv, input, IsRest
<1>12. QED
  BY <1>4, <1>5, <1>6, <1>7, <1>8, <1>11 DEF HgInv

LEMMA SaveKeepsSearch ==
  ASSUME IInv, UNCHANGED input, UNCHANGED search, phase' # "search"
  PROVE  JobInv' /\ BestInv' /\ QueueInv'
<1>1. JobInv /\ BestInv /\ QueueInv
  BY DEF IInv
<1>2. /\ fst' = fst /\ opt' = opt /\ best' = best /\ queue' = queue
      /\ isQueuedTwice' = isQueuedTwice
  BY DEF input, search
<1>3. JobInv'
  BY <1>1, <1>2 DEF JobInv
<1>4. BestInv'
  BY <1>1, <1>2 DEF BestInv, Bests, Arcs
<1>5. QueueInv'
  BY <1>1, <1>2 DEF QueueInv, IsPlaced, KeysDiffer
<1>6. QED
  BY <1>3, <1>4, <1>5

LEMMA StartSaveCalls ==
  ASSUME IInv, StartSave
  PROVE  /\ fst.start \in fst.states /\ fst.start \notin DOMAIN stateMap
         /\ stack = <<>> /\ stateMap = <<>>
         /\ stack' = Append(stack, Call(fst.start))
         /\ stateMap' = Inserted(stateMap, fst.start, outHg.size)
<1>1. JobInv /\ PhaseInv
  BY DEF IInv
<1>2. stack = <<>> /\ stateMap = <<>> /\ outHg = EmptyHypergraph
  BY <1>1 DEF StartSave, PhaseInv
<1>3. outHg.size = 0
  BY <1>2 DEF EmptyHypergraph
<1>. PICK call : call = Call(fst.start)
  OBVIOUS
<1>4. <<call>> = Append(<<>>, call)
  OBVIOUS
<1>5. fst.start \notin DOMAIN stateMap
  BY <1>2, EmptyFunction
<1>6. QED
  BY <1>1, <1>2, <1>3, <1>4, <1>5, StartArcs DEF StartSave

LEMMA StartSaveKeepsIInv == IInv /\ StartSave => IInv'
<1>. SUFFICES ASSUME IInv, StartSave PROVE IInv'
  OBVIOUS
<1>1. JobInv' /\ BestInv' /\ QueueInv'
  BY SaveKeepsSearch DEF StartSave
<1>2. /\ StackInv' /\ MapInv' /\ HgInv'
      /\ DOMAIN stateMap' = DOMAIN stateMap \cup {fst.start}
  BY StartSaveCalls, CalledFor DEF StartSave
<1>3. PhaseInv'
  BY <1>2 DEF IInv, PhaseInv, StartSave, input, search
<1>4. QED
  BY <1>1, <1>2, <1>3 DEF IInv

(* What the call on top of the stack is for, and the arc it is at *)
LEMMA CallerFacts ==
  ASSUME IInv, IsSaving
  PROVE  /\ Len(stack) \in Nat /\ Len(stack) \in 1 .. Len(stack)
         /\ Caller = stack[Len(stack)] /\ Caller \in Calls
         /\ Caller.state \in fst.states /\ Caller.state \in DOMAIN stateMap
         /\ Caller.id = stateMap[Caller.state]
         /\ Caller.arcs \in Seq(Arcs) /\ fst.arcs[Caller.state] \in Seq(Arcs)
         /\ IsRest(Caller.arcs, fst.arcs[Caller.state])
         /\ \A i \in 1 .. Len(stack) : i # Len(stack) => stack[i].state # Caller.state
<1>1. JobInv /\ StackInv
  BY DEF IInv
<1>2. stack \in Seq(Calls) /\ stack # <<>>
  BY <1>1 DEF StackInv, IsSaving
<1>3. Len(stack) \in Nat /\ Len(stack) \in 1 .. Len(stack) /\ stack[Len(stack)] \in Calls
  BY <1>2
<1>4. QED
  BY <1>1, <1>3, StartArcs DEF Caller, StackInv, Calls

LEMMA NextArcFacts ==
  ASSUME IInv, IsSaving, Caller.arcs # <<>>,
         NEW n, n = (Len(fst.arcs[Caller.state]) - Len(Caller.arcs)) + 1
  PROVE  /\ Caller.arcs[1] \in Arcs /\ Caller.arcs[1].dst \in fst.states
         /\ n \in DOMAIN fst.arcs[Caller.state] /\ n \in Nat
         /\ fst.arcs[Caller.state][n] = Caller.arcs[1]
         /\ IsRest(Tail(Caller.arcs), fst.arcs[Caller.state]) /\ Tail(Caller.arcs) \in Seq(Arcs)
         /\ Len(Tail(Caller.arcs)) = Len(Caller.arcs) - 1
         /\ Len(fst.arcs[Caller.state]) \in Nat /\ Len(Caller.arcs) \in Nat
<1>1. PICK rest : rest = Caller.arcs
  OBVIOUS
<1>2. PICK all : all = fst.arcs[Caller.state]
  OBVIOUS
<1>3. rest \in Seq(Arcs) /\ all \in Seq(Arcs) /\ IsRest(rest, all)
  BY <1>1, <1>2, CallerFacts
<1>4. /\ IsRest(Tail(rest), all) /\ Tail(rest) \in Seq(Arcs) /\ Len(Tail(rest)) = Len(rest) - 1
      /\ n \in 1 .. Len(all) /\ rest[1] = all[n] /\ rest[1] \in Arcs
  <2>1. rest # <<>> /\ n = (Len(all) - Len(rest)) + 1
    BY <1>1, <1>2
  <2>2. /\ IsRest(Tail(rest), all) /\ Tail(rest) \in Seq(Arcs) /\ Len(Tail(rest)) = Len(rest) - 1
        /\ (Len(all) - Len(rest)) + 1 \in 1 .. Len(all)
        /\ rest[1] = all[(Len(all) - Len(rest)) + 1] /\ rest[1] \in Arcs
    BY <1>3, <2>1, RestOfRest, Zenon
  <2>3. QED
    BY <2>1, <2>2, Zenon
<1>5. DOMAIN all = 1 .. Len(all) /\ Len(all) \in Nat /\ Len(rest) \in Nat
  BY <1>3
<1>6. \A a \in Arcs : a.dst \in fst.states
  BY DEF Arcs, ArcsTo
<1>7. rest[1].dst \in fst.states /\ n \in DOMAIN all /\ n \in Nat
  <2>1. rest[1].dst \in fst.states
    BY <1>4, <1>6, Zenon
  <2>2. n \in 1 .. Len(all)
    BY <1>4, Zenon
  <2>3. QED
    BY <1>5, <2>1, <2>2
<1>8. QED
  BY <1>1, <1>2, <1>4, <1>5, <1>7

LEMMA VisitKeepsIInv == IInv /\ Visit => IInv'
<1>. SUFFICES ASSUME IInv, Visit PROVE IInv'
  OBVIOUS
<1>1. JobInv' /\ BestInv' /\ QueueInv'
  BY SaveKeepsSearch DEF Visit, IsSaving
<1>2. Caller.arcs[1].dst \in fst.states
  BY NextArcFacts DEF Visit
<1>3. /\ StackInv' /\ MapInv' /\ HgInv'
      /\ DOMAIN stateMap' = DOMAIN stateMap \cup {Caller.arcs[1].dst}
  BY <1>2, CalledFor DEF Visit, IsNew
<1>4. PhaseInv'
  BY <1>3 DEF IInv, PhaseInv, Visit, IsSaving, input, search
<1>5. QED
  BY <1>1, <1>3, <1>4 DEF IInv

LEMMA ExceptFacts ==
  ASSUME NEW S, NEW seq \in Seq(S), NEW n \in 1 .. Len(seq), NEW x \in S,
         NEW new, new = [seq EXCEPT ![n] = x]
  PROVE  /\ new \in Seq(S) /\ Len(new) = Len(seq) /\ new[n] = x
         /\ \A i \in 1 .. Len(seq) : i # n => new[i] = seq[i]
OBVIOUS

(* One arc of the call on top is done with. *)
LEMMA ArcDone ==
  ASSUME IInv, IsSaving, Caller.arcs # <<>>,
         stack' = [stack EXCEPT ![Len(stack)].arcs = Tail(@)]
  PROVE  /\ stack' \in Seq(Calls) /\ Len(stack') = Len(stack)
         /\ \A i \in 1 .. Len(stack) : stack'[i].state = stack[i].state /\ stack'[i].id = stack[i].id
         /\ \A i \in 1 .. Len(stack) : i # Len(stack) => stack'[i] = stack[i]
         /\ stack'[Len(stack)].arcs = Tail(Caller.arcs)
<1>1. /\ Len(stack) \in 1 .. Len(stack) /\ stack \in Seq(Calls)
      /\ Caller = stack[Len(stack)] /\ Caller \in Calls
  BY CallerFacts DEF IInv, StackInv
<1>2. Tail(Caller.arcs) \in Seq(Arcs)
  BY NextArcFacts
<1>3. PICK call : call = [Caller EXCEPT !.arcs = Tail(@)]
  OBVIOUS
<1>4. /\ call \in Calls /\ call.state = Caller.state /\ call.id = Caller.id
      /\ call.arcs = Tail(Caller.arcs)
  BY <1>1, <1>2, <1>3 DEF Calls
<1>5. stack' = [stack EXCEPT ![Len(stack)] = call]
  BY <1>1, <1>3
<1>6. PICK new : new = stack'
  OBVIOUS
<1>7. /\ new \in Seq(Calls) /\ Len(new) = Len(stack) /\ new[Len(stack)] = call
      /\ \A i \in 1 .. Len(stack) : i # Len(stack) => new[i] = stack[i]
  BY <1>1, <1>4, <1>5, <1>6, ExceptFacts
<1>8. QED
  BY <1>1, <1>4, <1>6, <1>7

LEMMA AddNextArcKeepsIInv == IInv /\ AddNextArc => IInv'
<1>. SUFFICES ASSUME IInv, AddNextArc PROVE IInv'
  OBVIOUS
<1>. PICK arc : arc = Caller.arcs[1]
  OBVIOUS
<1>. PICK in : in = IF opt.projectOutput THEN arc.out ELSE arc.in
  OBVIOUS
<1>1. JobInv' /\ BestInv' /\ QueueInv'
  BY SaveKeepsSearch DEF AddNextArc, IsSaving
<1>2. JobInv /\ StackInv /\ MapInv /\ HgInv
  BY DEF IInv
<1>3. /\ IsSaving /\ Caller.arcs # <<>> /\ arc.dst \in DOMAIN stateMap
      /\ outHg' = AddArc(outHg, Caller.id, stateMap[arc.dst], in, arc.out, arc.cost)
      /\ stack' = [stack EXCEPT ![Len(stack)].arcs = Tail(@)]
      /\ fst' = fst /\ stateMap' = stateMap /\ phase' = phase /\ opt' = opt
      /\ best' = best /\ queue' = queue
  BY DEF AddNextArc, IsNew, input, search
<1>4. /\ arc \in Arcs /\ IsRest(Tail(Caller.arcs), fst.arcs[Caller.state])
  BY <1>3, NextArcFacts
<1>5. arc.in \in Labels /\ arc.out \in Labels /\ in \in Labels /\ arc.cost \in Int
  BY <1>4 DEF Arcs, ArcsTo, Labels
<1>6. /\ Caller.state \in DOMAIN stateMap /\ Caller.id = stateMap[Caller.state]
      /\ Caller = stack[Len(stack)] /\ Len(stack) \in 1 .. Len(stack)
  BY <1>3, CallerFacts
<1>7. IsStateOf(outHg, Caller.id) /\ IsStateOf(outHg, stateMap[arc.dst])
  BY <1>2, <1>3, <1>6 DEF MapInv
<1>8. IsHg(outHg') /\ outHg'.size = outHg.size
  BY <1>2, <1>3, <1>5, <1>7, AddArcFacts DEF HgInv
<1>9. MapInv'
  BY <1>2, <1>3, <1>8 DEF MapInv, IsStateOf
<1>10. /\ stack' \in Seq(Calls) /\ Len(stack') = Len(stack)
       /\ \A i \in 1 .. Len(stack) : stack'[i].state = stack[i].state /\ stack'[i].id = stack[i].id
       /\ \A i \in 1 .. Len(stack) : i # Len(stack) => stack'[i] = stack[i]
       /\ stack'[Len(stack)].arcs = Tail(Caller.arcs)
  BY <1>3, ArcDone
<1>11. StackInv'
  <2>1. stack' \in Seq(Calls)'
    BY <1>3, <1>10 DEF Calls, Arcs
  <2>2. ASSUME NEW i \in 1 .. Len(stack')
        PROVE  /\ stack'[i].state \in DOMAIN stateMap'
               /\ stack'[i].id = stateMap'[stack'[i].state]
               /\ IsRest(stack'[i].arcs, fst'.arcs[stack'[i].state])
    BY <1>2, <1>3, <1>4, <1>6, <1>10 DEF StackInv
  <2>3. \A i, j \in 1 .. Len(stack') : stack'[i].state = stack'[j].state => i = j
    BY <1>2, <1>10 DEF StackInv
  <2>4. QED
    BY <2>1, <2>2, <2>3 DEF StackInv, IsRest
<1>12. PhaseInv'
  BY <1>3 DEF IInv, PhaseInv, IsSaving
<1>13. QED
  BY <1>1, <1>8, <1>9, <1>11, <1>12 DEF IInv, HgInv

LEMMA WithFinalType ==
  ASSUME NEW hg, IsHg(hg), NEW s, IsStateOf(hg, s), NEW hasNoArcs
  PROVE  /\ IsHg(WithFinal(hg, s, hasNoArcs))
         /\ \A t : IsStateOf(hg, t) => IsStateOf(WithFinal(hg, s, hasNoArcs), t)
<1>0. Epsilon \in Labels /\ 0 \in Int
  BY DEF Labels
<1>1. CASE hg.final # NoState
  <2>1. IsStateOf(hg, hg.final) /\ WithFinal(hg, s, hasNoArcs) = AddArc(hg, s, hg.final, Epsilon, Epsilon, 0)
    BY <1>1 DEF WithFinal, IsHg
  <2>. PICK new : new = AddArc(hg, s, hg.final, Epsilon, Epsilon, 0)
    OBVIOUS
  <2>2. IsHg(new) /\ new.size = hg.size
    BY <1>0, <2>1, AddArcFacts
  <2>3. QED
    BY <2>1, <2>2 DEF IsStateOf
<1>2. CASE hg.final = NoState /\ hasNoArcs
  <2>1. WithFinal(hg, s, hasNoArcs) = [hg EXCEPT !.final = s]
    BY <1>2 DEF WithFinal
  <2>2. hg = [size |-> hg.size, start |-> hg.start, final |-> hg.final, arcs |-> hg.arcs]
        /\ hg.size \in Nat
    BY DEF IsHg, Hypergraphs
  <2>3. [hg EXCEPT !.final = s] = [size |-> hg.size, start |-> hg.start, final |-> s, arcs |-> hg.arcs]
    BY <2>2
  <2>4. QED
    BY <2>1, <2>2, <2>3 DEF IsHg, Hypergraphs, IsStateOf
<1>3. CASE hg.final = NoState /\ ~hasNoArcs
  <2>. DEFINE new == AddState(hg)
              withFinal == [new EXCEPT !.final = hg.size]
  <2>1. WithFinal(hg, s, hasNoArcs) = AddArc(withFinal, s, hg.size, Epsilon, Epsilon, 0)
    BY <1>3 DEF WithFinal
  <2>2. /\ IsHg(new) /\ IsStateOf(new, hg.size) /\ \A t : IsStateOf(hg, t) => IsStateOf(new, t)
    BY AddStateFacts
  <2>. HIDE DEF new
  <2>3. new = [size |-> new.size, start |-> new.start, final |-> new.final, arcs |-> new.arcs]
    BY <2>2 DEF IsHg, Hypergraphs
  <2>4. withFinal = [size |-> new.size, start |-> new.start, final |-> hg.size, arcs |-> new.arcs]
    BY <2>3
  <2>. HIDE DEF withFinal
  <2>5. \A t : IsStateOf(new, t) <=> IsStateOf(withFinal, t)
    BY <2>4 DEF IsStateOf
  <2>6. IsHg(withFinal)
    <3>1. hg.size \in Int
      BY DEF IsHg, Hypergraphs
    <3>2. withFinal \in Hypergraphs
      BY <2>2, <2>4, <3>1 DEF IsHg, Hypergraphs
    <3>3. QED
      BY <2>2, <2>4, <2>5, <3>2 DEF IsHg
  <2>7. IsHg(AddArc(withFinal, s, hg.size, Epsilon, Epsilon, 0))
        /\ AddArc(withFinal, s, hg.size, Epsilon, Epsilon, 0).size = withFinal.size
    BY <1>0, <2>2, <2>5, <2>6, AddArcFacts
  <2>8. QED
    BY <2>1, <2>2, <2>5, <2>7 DEF IsStateOf
<1>4. QED
  BY <1>1, <1>2, <1>3

LEMMA ReturnFacts ==
  ASSUME IInv, Return
  PROVE  /\ stack' \in Seq(Calls) /\ Len(stack') = Len(stack) - 1
         /\ \A i \in 1 .. Len(stack') : i \in 1 .. Len(stack) /\ stack'[i] = stack[i]
<1>1. Len(stack) \in Nat /\ Len(stack) \in 1 .. Len(stack) /\ stack \in Seq(Calls)
  BY CallerFacts DEF Return, IInv, StackInv
<1>2. stack' = SubSeq(stack, 1, Len(stack) - 1)
  BY DEF Return, Front
<1>3. PICK n : n = Len(stack) - 1
  OBVIOUS
<1>4. n \in Nat /\ n <= Len(stack)
  BY <1>1, <1>3
<1>5. /\ SubSeq(stack, 1, n) \in Seq(Calls) /\ Len(SubSeq(stack, 1, n)) = n
      /\ \A i \in 1 .. n : SubSeq(stack, 1, n)[i] = stack[i]
  BY <1>1, <1>4
<1>6. \A i \in 1 .. n : i \in 1 .. Len(stack)
  BY <1>1, <1>4
<1>7. QED
  BY <1>2, <1>3, <1>5, <1>6

LEMMA ReturnKeepsIInv == IInv /\ Return => IInv'
<1>. SUFFICES ASSUME IInv, Return PROVE IInv'
  OBVIOUS
<1>1. JobInv' /\ BestInv' /\ QueueInv'
  BY SaveKeepsSearch DEF Return, IsSaving
<1>2. JobInv /\ StackInv /\ MapInv /\ HgInv
  BY DEF IInv
<1>3. /\ IsSaving /\ fst' = fst /\ stateMap' = stateMap /\ phase' = phase /\ opt' = opt
      /\ best' = best /\ queue' = queue
      /\ outHg' = IF Caller.state \in fst.finals THEN WithFinal(outHg, Caller.id, Caller.hasNoArcs)
                                                 ELSE outHg
  BY DEF Return, input, search
<1>4. Caller.state \in DOMAIN stateMap /\ Caller.id = stateMap[Caller.state]
  BY <1>3, CallerFacts
<1>5. IsStateOf(outHg, Caller.id)
  BY <1>2, <1>4 DEF MapInv
<1>6. IsHg(outHg') /\ \A t : IsStateOf(outHg, t) => IsStateOf(outHg', t)
  BY <1>2, <1>3, <1>5, WithFinalType DEF HgInv
<1>7. MapInv'
  BY <1>2, <1>3, <1>6 DEF MapInv
<1>8. /\ stack' \in Seq(Calls)
      /\ \A i \in 1 .. Len(stack') : i \in 1 .. Len(stack) /\ stack'[i] = stack[i]
  BY ReturnFacts
<1>9. StackInv'
  <2>1. stack' \in Seq(Calls)'
    BY <1>3, <1>8 DEF Calls, Arcs
  <2>2. ASSUME NEW i \in 1 .. Len(stack')
        PROVE  /\ stack'[i].state \in DOMAIN stateMap'
               /\ stack'[i].id = stateMap'[stack'[i].state]
               /\ IsRest(stack'[i].arcs, fst'.arcs[stack'[i].state])
    BY <1>2, <1>3, <1>8 DEF StackInv
  <2>3. \A i, j \in 1 .. Len(stack') : stack'[i].state = stack'[j].state => i = j
    BY <1>2, <1>8 DEF StackInv
  <2>4. QED
    BY <2>1, <2>2, <2>3 DEF StackInv, IsRest
<1>10. PhaseInv'
  BY <1>3 DEF IInv, PhaseInv, IsSaving
<1>11. QED
  BY <1>1, <1>6, <1>7, <1>9, <1>10 DEF IInv, HgInv

LEMMA EndSaveKeepsIInv == IInv /\ EndSave => IInv'
<1>. SUFFICES ASSUME IInv, EndSave PROVE IInv'
  OBVIOUS
<1>1. JobInv' /\ BestInv' /\ QueueInv'
  BY SaveKeepsSearch DEF EndSave
<1>2. JobInv /\ StackInv /\ MapInv /\ HgInv /\ PhaseInv
  BY DEF IInv
<1>3. /\ fst' = fst /\ stateMap' = stateMap /\ opt' = opt /\ best' = best /\ queue' = queue
      /\ stack' = stack /\ stack = <<>> /\ phase = "save" /\ phase' = "done"
      /\ outHg' = [outHg EXCEPT !.start = stateMap[fst.start]]
  BY DEF EndSave, input, search, save
<1>. PICK start : start = stateMap[fst.start]
  OBVIOUS
<1>4. IsStateOf(outHg, start)
  BY <1>2, <1>3 DEF PhaseInv, MapInv
<1>5. outHg = [size |-> outHg.size, start |-> outHg.start, final |-> outHg.final, arcs |-> outHg.arcs]
      /\ outHg.size \in Nat
  BY <1>2 DEF HgInv, IsHg, Hypergraphs
<1>6. outHg' = [size |-> outHg.size, start |-> start, final |-> outHg.final, arcs |-> outHg.arcs]
  BY <1>3, <1>5
<1>7. \A t : IsStateOf(outHg', t) <=> IsStateOf(outHg, t)
  BY <1>6 DEF IsStateOf
<1>8. start \in Int
  BY <1>4, <1>5 DEF IsStateOf
<1>9. outHg' \in Hypergraphs
  BY <1>2, <1>6, <1>8 DEF HgInv, IsHg, Hypergraphs
<1>10. IsHg(outHg')
  BY <1>2, <1>4, <1>6, <1>7, <1>9 DEF HgInv, IsHg
<1>11. MapInv'
  BY <1>2, <1>3, <1>7 DEF MapInv
<1>12. StackInv'
  BY <1>2, <1>3 DEF StackInv
<1>13. PhaseInv'
  BY <1>2, <1>3 DEF PhaseInv
<1>14. QED
  BY <1>1, <1>10, <1>11, <1>12, <1>13 DEF IInv, HgInv

-----------------------------------------------------------------------------
(* The lazy search *)

LEMMA RangeIsKeys ==
  ASSUME NEW keys, NEW heap \in Heaps(keys)
  PROVE  Range(heap.data) = KeysOf(heap)
<1>1. heap.data \in Seq(keys) /\ Len(heap.data) \in Nat /\ DOMAIN heap.data = 1 .. Len(heap.data)
  BY DEF Heaps
<1>2. \A i \in 0 .. Len(heap.data) - 1 : i + 1 \in 1 .. Len(heap.data)
  BY <1>1
<1>3. \A i \in 1 .. Len(heap.data) : i - 1 \in 0 .. Len(heap.data) - 1 /\ (i - 1) + 1 = i
  BY <1>1
<1>4. QED
  BY <1>1, <1>2, <1>3 DEF Range, KeysOf, KeyAt, Places, Size

(* The order of a heap is a matter of the distances of its keys. *)
LEMMA SameOrder ==
  ASSUME NEW keys, NEW heap \in Heaps(keys), NEW d1, NEW d2,
         \A k \in KeysOf(heap) : d1[k] = d2[k], IsHeap(heap, d1)
  PROVE  IsHeap(heap, d2)
<1>1. ASSUME NEW i \in 1 .. Size(heap) - 1
      PROVE  d2[KeyAt(heap, Parent(i))] <= d2[KeyAt(heap, i)]
  <2>1. Parent(i) \in Places(heap) /\ i \in Places(heap)
    BY KeyAtType, ParentIsBelow DEF Places
  <2>2. KeyAt(heap, i) \in KeysOf(heap) /\ KeyAt(heap, Parent(i)) \in KeysOf(heap)
    BY <2>1 DEF KeysOf
  <2>3. QED
    BY <2>2 DEF IsHeap
<1>2. QED
  BY <1>1 DEF IsHeap

LEMMA KeyOfType ==
  ASSUME NEW bests, bests \in [DOMAIN bests -> Bests]
  PROVE  KeyOf(bests) \in [fst.states -> Int]
<1>1. \A s \in DOMAIN bests : bests[s].key \in Int
  BY DEF Bests
<1>2. QED
  BY <1>1 DEF KeyOf

LEMMA TopFacts ==
  ASSUME IInv, phase = "search", Size(queue) > 0
  PROVE  /\ queue \in Heaps(fst.states) /\ Size(queue) \in Nat
         /\ isQueuedTwice \in BOOLEAN /\ (~isQueuedTwice => IsPlaced(queue))
         /\ Top(queue) \in KeysOf(queue) /\ Top(queue) \in DOMAIN best
         /\ Top(queue) \in fst.states
         /\ KeysOf(queue) \subseteq DOMAIN best
         /\ KeyOf(best) \in [fst.states -> Int]
<1>1. /\ queue \in Heaps(fst.states) /\ Range(queue.data) \subseteq DOMAIN best
      /\ isQueuedTwice \in BOOLEAN /\ (~isQueuedTwice => IsPlaced(queue))
  BY DEF IInv, QueueInv
<1>2. Size(queue) \in Nat /\ 0 \in Places(queue)
  BY <1>1, KeyAtType DEF Places
<1>3. Top(queue) \in KeysOf(queue)
  BY <1>2 DEF Top, KeysOf
<1>4. KeysOf(queue) \subseteq DOMAIN best
  BY <1>1, RangeIsKeys
<1>5. KeyOf(best) \in [fst.states -> Int]
  BY KeyOfType DEF IInv, BestInv
<1>6. QED
  BY <1>1, <1>2, <1>3, <1>4, <1>5 DEF IInv, BestInv

(* What taking an arc does to the state it is taken out of *)
LEMMA TakenFacts ==
  ASSUME IInv, HasNextArc
  PROVE  /\ NextArc \in Arcs /\ NextArc.dst \in fst.states /\ NextArc.cost \in Int
         /\ NextDistance \in Int /\ NextDistance = best[Top(queue)].distance + NextArc.cost
         /\ Top(queue) \in DOMAIN best
         /\ DOMAIN Taken = DOMAIN best /\ Taken \in [DOMAIN best -> Bests]
         /\ Taken[Top(queue)].key = NextDistance - opt.expandMoreArcs
         /\ Taken[Top(queue)].arcs = Tail(best[Top(queue)].arcs)
         /\ \A s \in DOMAIN best : s # Top(queue) => Taken[s] = best[s]
         /\ \A s \in DOMAIN best :
              /\ Taken[s].distance = best[s].distance /\ Taken[s].arc = best[s].arc
              /\ Taken[s].predecessor = best[s].predecessor
<1>. PICK t : t = Top(queue)
  OBVIOUS
<1>1. phase = "search" /\ Size(queue) > 0 /\ best[t].arcs # <<>>
  BY DEF HasNextArc, IsExpanding
<1>2. t \in DOMAIN best /\ best \in [DOMAIN best -> Bests] /\ opt.expandMoreArcs \in Int
  BY <1>1, TopFacts DEF IInv, BestInv, JobInv
<1>3. best[t] \in Bests /\ best[t].arcs \in Seq(Arcs) /\ best[t].distance \in Int
  BY <1>2 DEF Bests
<1>4. NextArc \in Arcs /\ Tail(best[t].arcs) \in Seq(Arcs)
  BY <1>1, <1>3 DEF NextArc
<1>5. NextArc.dst \in fst.states /\ NextArc.cost \in Int
  BY <1>4 DEF Arcs, ArcsTo
<1>6. NextDistance = best[t].distance + NextArc.cost /\ NextDistance \in Int
  BY <1>3, <1>5 DEF NextDistance
<1>7. PICK mid : mid = [best EXCEPT ![t].arcs = Tail(@)]
  OBVIOUS
<1>8. PICK b : b = [best[t] EXCEPT !.arcs = Tail(@)]
  OBVIOUS
<1>9. PICK key : key = NextDistance - opt.expandMoreArcs
  OBVIOUS
<1>10. b \in Bests /\ b.distance = best[t].distance /\ b.arc = best[t].arc
       /\ b.predecessor = best[t].predecessor /\ b.arcs = Tail(best[t].arcs)
  BY <1>3, <1>4, <1>8 DEF Bests
<1>11. mid = [best EXCEPT ![t] = b]
  BY <1>7, <1>8
<1>12. /\ mid \in [DOMAIN best -> Bests] /\ mid[t] = b
       /\ \A s \in DOMAIN best : s # t => mid[s] = best[s]
  BY <1>2, <1>10, <1>11
<1>13. PICK c : c = [b EXCEPT !.key = key]
  OBVIOUS
<1>14. key \in Int
  BY <1>2, <1>6, <1>9
<1>15. /\ c \in Bests /\ c.distance = b.distance /\ c.arc = b.arc
       /\ c.predecessor = b.predecessor /\ c.arcs = b.arcs /\ c.key = key
  BY <1>10, <1>13, <1>14 DEF Bests
<1>16. PICK taken : taken = [mid EXCEPT ![t] = c]
  OBVIOUS
<1>17. Taken = taken
  BY <1>7, <1>9, <1>12, <1>13, <1>16 DEF Taken
<1>18. /\ taken \in [DOMAIN best -> Bests] /\ taken[t] = c
       /\ \A s \in DOMAIN best : s # t => taken[s] = best[s]
  BY <1>2, <1>12, <1>15, <1>16
<1>19. DOMAIN taken = DOMAIN best
  BY <1>18
<1>20. \A s \in DOMAIN best :
         /\ taken[s].distance = best[s].distance /\ taken[s].arc = best[s].arc
         /\ taken[s].predecessor = best[s].predecessor
  BY <1>10, <1>15, <1>18
<1>21. taken[t].key = NextDistance - opt.expandMoreArcs /\ taken[t].arcs = Tail(best[t].arcs)
  BY <1>9, <1>10, <1>15, <1>18
<1>. HIDE DEF Taken
<1>22. QED
  BY <1>2, <1>4, <1>5, <1>6, <1>17, <1>18, <1>19, <1>20, <1>21

(* What becomes of the Bests when a state is reached along the arc taken *)
LEMMA ReachedFacts ==
  ASSUME IInv, HasNextArc, NEW bests, bests \in [DOMAIN bests -> Bests \cup {Reached}],
         DOMAIN bests = DOMAIN best \cup {NextArc.dst},
         bests[NextArc.dst] = Reached,
         \A s \in DOMAIN best : s # NextArc.dst => bests[s] = Taken[s]
  PROVE  /\ bests \in [DOMAIN bests -> Bests]
         /\ best' = bests /\ UNCHANGED input => BestInv'
<1>1. /\ NextArc \in Arcs /\ NextArc.dst \in fst.states /\ NextDistance \in Int
      /\ Top(queue) \in DOMAIN best /\ Taken \in [DOMAIN best -> Bests]
      /\ \A s \in DOMAIN best :
              Taken[s].arc = best[s].arc /\ Taken[s].predecessor = best[s].predecessor
  BY TakenFacts
<1>2. fst.arcs[NextArc.dst] \in Seq(Arcs)
  BY <1>1, StartArcs DEF IInv
<1>3. DOMAIN best \subseteq fst.states /\ IsFiniteSet(DOMAIN best)
      /\ \A s \in DOMAIN best :
           best[s].predecessor # None => best[s].predecessor \in DOMAIN best /\ best[s].arc \in Arcs
  BY DEF IInv, BestInv
<1>4. Reached \in Bests /\ Reached.arc = NextArc /\ Reached.predecessor = Top(queue)
  BY <1>1, <1>2, <1>3 DEF Reached, Bests
<1>. HIDE DEF Reached, Taken, NextArc
<1>5. bests \in [DOMAIN bests -> Bests]
  BY <1>4
<1>6. IsFiniteSet(DOMAIN bests)
  BY <1>3, FS_AddElement
<1>7. ASSUME NEW s \in DOMAIN bests, bests[s].predecessor # None
      PROVE  bests[s].predecessor \in DOMAIN bests /\ bests[s].arc \in Arcs
  <2>1. CASE s = NextArc.dst
    BY <1>1, <1>4, <2>1
  <2>2. CASE s # NextArc.dst
    BY <1>1, <1>3, <1>7, <2>2
  <2>3. QED
    BY <2>1, <2>2
<1>8. ASSUME best' = bests, UNCHANGED input
      PROVE  BestInv'
  <2>1. fst' = fst
    BY <1>8 DEF input
  <2>2. QED
    BY <1>1, <1>3, <1>5, <1>6, <1>7, <1>8, <2>1 DEF BestInv, Bests, Arcs
<1>9. QED
  BY <1>5, <1>8

(* adjust_top after the arc is taken *)
LEMMA AdjustedFacts ==
  ASSUME IInv, HasNextArc, NEW taken, taken = Taken, NEW adjusted, adjusted = Adjusted(taken)
  PROVE  /\ adjusted \in Heaps(fst.states)
         /\ KeysOf(adjusted) = KeysOf(queue) /\ Size(adjusted) = Size(queue)
         /\ ~isQueuedTwice => IsPlaced(adjusted)
         /\ ~isQueuedTwice /\ (IsHeap(queue, KeyOf(best)) \/ IsFlat(queue))
              => IsHeap(adjusted, KeyOf(taken))
<1>1. phase = "search" /\ Size(queue) > 0
  BY DEF HasNextArc, IsExpanding
<1>2. /\ queue \in Heaps(fst.states) /\ (~isQueuedTwice => IsPlaced(queue))
      /\ Top(queue) \in DOMAIN best /\ Top(queue) \in fst.states
      /\ KeyOf(best) \in [fst.states -> Int]
  BY <1>1, TopFacts
<1>3. DOMAIN taken = DOMAIN best /\ taken \in [DOMAIN taken -> Bests]
      /\ \A s \in DOMAIN best : s # Top(queue) => taken[s] = best[s]
  BY TakenFacts
<1>4. KeyOf(taken) \in [fst.states -> Int]
  BY <1>3, KeyOfType
<1>5. \A s \in fst.states \ {Top(queue)} : KeyOf(taken)[s] = KeyOf(best)[s]
  BY <1>3 DEF KeyOf
<1>6. adjusted = AdjustTop(queue, KeyOf(taken))
  BY DEF Adjusted
<1>7. /\ adjusted \in Heaps(fst.states)
      /\ KeysOf(adjusted) = KeysOf(queue) /\ Size(adjusted) = Size(queue)
  BY <1>1, <1>2, <1>4, <1>6, AdjustTopMoves DEF OnlyMoves
<1>8. ASSUME ~isQueuedTwice
      PROVE  /\ IsPlaced(adjusted)
             /\ IsHeap(queue, KeyOf(best)) \/ IsFlat(queue) => IsHeap(adjusted, KeyOf(taken))
  BY <1>1, <1>2, <1>4, <1>5, <1>6, <1>8, AdjustTopOfHeap
<1>9. QED
  BY <1>7, <1>8

(* Nothing but the search changes. *)
LEMMA SearchKeepsRest ==
  ASSUME IInv, UNCHANGED input, UNCHANGED save, UNCHANGED outHg, phase = "search", phase' = phase
  PROVE  JobInv' /\ PhaseInv' /\ StackInv' /\ MapInv' /\ HgInv'
<1>1. /\ fst' = fst /\ opt' = opt /\ stack' = stack /\ stateMap' = stateMap /\ outHg' = outHg
  BY DEF input, save
<1>2. PhaseInv'
  BY <1>1 DEF IInv, PhaseInv
<1>3. StackInv'
  BY <1>1 DEF IInv, StackInv, Calls, Arcs
<1>4. JobInv' /\ MapInv' /\ HgInv'
  BY <1>1 DEF IInv, JobInv, MapInv, HgInv
<1>5. QED
  BY <1>2, <1>3, <1>4

LEMMA QueueInvAfter ==
  ASSUME fst' = fst, queue' \in Heaps(fst.states), isQueuedTwice' \in BOOLEAN,
         ~isQueuedTwice' => IsPlaced(queue)', KeysOf(queue') \subseteq DOMAIN best'
  PROVE  QueueInv'
BY RangeIsKeys DEF QueueInv

(* How the queue is left by the steps of the search, and, where it was in order,
   in which order *)
LEMMA ReachNewStateFacts ==
  ASSUME IInv, ReachNewState
  PROVE  /\ DOMAIN best' = DOMAIN best \cup {NextArc.dst}
         /\ best'[NextArc.dst] = Reached
         /\ \A s \in DOMAIN best : best'[s] = Taken[s]
         /\ queue' \in Heaps(fst.states) /\ isQueuedTwice' = isQueuedTwice
         /\ KeysOf(queue') = KeysOf(queue) \cup {NextArc.dst}
         /\ ~isQueuedTwice => IsPlaced(queue)' /\ Size(queue') = Size(queue) + 1
         /\ ~isQueuedTwice /\ (IsHeap(queue, KeyOf(best)) \/ IsFlat(queue))
              => IsHeap(queue', KeyOf(best'))
         /\ BestInv' /\ fst' = fst
<1>. PICK taken : taken = Taken
  OBVIOUS
<1>. PICK adjusted : adjusted = Adjusted(taken)
  OBVIOUS
<1>1. /\ HasNextArc /\ NextArc.dst \notin DOMAIN best /\ phase = "search" /\ Size(queue) > 0
      /\ best' = Inserted(taken, NextArc.dst, Reached)
      /\ queue' = Push(adjusted, NextArc.dst, KeyOf(best')) /\ UNCHANGED input /\ fst' = fst
      /\ isQueuedTwice' = isQueuedTwice
  BY DEF ReachNewState, HasNextArc, IsExpanding, input
<1>. PICK bests : bests = best'
  OBVIOUS
<1>2. /\ DOMAIN taken = DOMAIN best /\ taken \in [DOMAIN taken -> Bests] /\ NextArc.dst \in fst.states
  BY <1>1, TakenFacts
<1>3. /\ bests \in [DOMAIN bests -> Bests \cup {Reached}]
      /\ DOMAIN bests = DOMAIN best \cup {NextArc.dst} /\ bests[NextArc.dst] = Reached
      /\ \A s \in DOMAIN best : bests[s] = Taken[s]
  <2>1. bests = [s \in DOMAIN best \cup {NextArc.dst} |-> IF s = NextArc.dst THEN Reached ELSE taken[s]]
    BY <1>1, <1>2 DEF Inserted
  <2>. HIDE DEF Reached, NextArc, Taken
  <2>2. QED
    BY <1>1, <1>2, <2>1
<1>4. bests \in [DOMAIN bests -> Bests] /\ BestInv'
  BY <1>1, <1>3, ReachedFacts
<1>5. KeyOf(bests) \in [fst.states -> Int]
  BY <1>4, KeyOfType
<1>6. /\ adjusted \in Heaps(fst.states)
      /\ KeysOf(adjusted) = KeysOf(queue) /\ Size(adjusted) = Size(queue)
      /\ ~isQueuedTwice => IsPlaced(adjusted)
      /\ ~isQueuedTwice /\ (IsHeap(queue, KeyOf(best)) \/ IsFlat(queue))
           => IsHeap(adjusted, KeyOf(taken))
  BY <1>1, AdjustedFacts
<1>7. NextArc.dst \notin KeysOf(adjusted) /\ KeysOf(queue) \subseteq DOMAIN best
  BY <1>1, <1>6, TopFacts
<1>8. KeyOf(best') = KeyOf(bests)
  BY DEF KeyOf
<1>. PICK pushed : pushed = queue'
  OBVIOUS
<1>. PICK d : d = NextArc.dst
  OBVIOUS
<1>9. pushed = Push(adjusted, d, KeyOf(bests)) /\ d \in fst.states /\ d \notin KeysOf(adjusted)
  BY <1>1, <1>2, <1>7, <1>8
<1>10. pushed \in Heaps(fst.states) /\ KeysOf(pushed) = KeysOf(adjusted) \cup {d}
  <2>1. pushed = PushOrUpdate(adjusted, d, KeyOf(bests))
    BY <1>9, HasKeyIsQueued DEF PushOrUpdate
  <2>. PICK all : all = KeysOf(adjusted) \cup {d}
    OBVIOUS
  <2>2. OnlyMoves(pushed, adjusted, all, fst.states)
    BY <1>6, <1>9, <2>1, PushOrUpdateMoves
  <2>3. adjusted \in Heaps(fst.states) /\ d \in fst.states
    BY <1>6, <1>9
  <2>4. KeysOf(pushed) = KeysOf(adjusted) \cup {d}
    BY <2>1, <2>2, <2>3, PushOrUpdateMoves
  <2>5. QED
    BY <2>2, <2>4 DEF OnlyMoves
<1>11. ASSUME ~isQueuedTwice
       PROVE  /\ IsPlaced(pushed) /\ Size(pushed) = Size(adjusted) + 1
              /\ IsHeap(adjusted, KeyOf(bests)) => IsHeap(pushed, KeyOf(bests))
  <2>1. IsPushed(Push(adjusted, d, KeyOf(bests)), adjusted, d, fst.states, KeyOf(bests))
    BY <1>5, <1>6, <1>9, <1>11, PushOnHeap
  <2>2. QED
    BY <1>9, <2>1 DEF IsPushed
<1>12. ASSUME IsHeap(adjusted, KeyOf(taken))
       PROVE  IsHeap(adjusted, KeyOf(bests))
  <2>1. \A k \in KeysOf(adjusted) : KeyOf(taken)[k] = KeyOf(bests)[k]
    BY <1>2, <1>3, <1>6, <1>7, TopFacts, <1>1 DEF KeyOf, IInv, BestInv
  <2>2. QED
    BY <1>6, <1>12, <2>1, SameOrder
<1>13. ~isQueuedTwice => IsPlaced(queue)'
  BY <1>11 DEF IsPlaced, KeysDiffer, KeysOf, Places, KeyAt, Size
<1>14. QED
  BY <1>1, <1>3, <1>4, <1>6, <1>8, <1>10, <1>11, <1>12, <1>13

LEMMA ReachNoBetterFacts ==
  ASSUME IInv, ReachNoBetter
  PROVE  /\ best' = Taken
         /\ queue' \in Heaps(fst.states) /\ isQueuedTwice' = isQueuedTwice
         /\ KeysOf(queue') = KeysOf(queue) /\ Size(queue') = Size(queue)
         /\ ~isQueuedTwice => IsPlaced(queue)'
         /\ ~isQueuedTwice /\ (IsHeap(queue, KeyOf(best)) \/ IsFlat(queue))
              => IsHeap(queue', KeyOf(best'))
         /\ BestInv' /\ fst' = fst
<1>. PICK taken : taken = Taken
  OBVIOUS
<1>1. /\ HasNextArc /\ best' = taken /\ queue' = Adjusted(taken) /\ fst' = fst
      /\ isQueuedTwice' = isQueuedTwice
  BY DEF ReachNoBetter, input
<1>. PICK adjusted : adjusted = queue'
  OBVIOUS
<1>2. /\ adjusted \in Heaps(fst.states)
      /\ KeysOf(adjusted) = KeysOf(queue) /\ Size(adjusted) = Size(queue)
      /\ ~isQueuedTwice => IsPlaced(adjusted)
      /\ ~isQueuedTwice /\ (IsHeap(queue, KeyOf(best)) \/ IsFlat(queue))
           => IsHeap(adjusted, KeyOf(taken))
  BY <1>1, AdjustedFacts
<1>3. KeyOf(best') = KeyOf(taken)
  BY <1>1 DEF KeyOf
<1>4. /\ DOMAIN taken = DOMAIN best /\ taken \in [DOMAIN best -> Bests]
      /\ \A s \in DOMAIN best : taken[s].arc = best[s].arc /\ taken[s].predecessor = best[s].predecessor
  BY <1>1, TakenFacts
<1>5. DOMAIN best' = DOMAIN best /\ BestInv'
  BY <1>1, <1>4 DEF IInv, BestInv, Bests, Arcs
<1>6. ~isQueuedTwice => IsPlaced(queue)'
  BY <1>2 DEF IsPlaced, KeysDiffer, KeysOf, Places, KeyAt, Size
<1>7. QED
  BY <1>1, <1>2, <1>3, <1>5, <1>6

LEMMA ImproveStateFacts ==
  ASSUME IInv, ImproveState,
         NEW adjusted, adjusted = Adjusted(Taken)
  PROVE  /\ DOMAIN best' = DOMAIN best
         /\ best'[NextArc.dst] = Reached /\ NextArc.dst \in DOMAIN best
         /\ \A s \in DOMAIN best : s # NextArc.dst => best'[s] = Taken[s]
         /\ queue' \in Heaps(fst.states) /\ KeysOf(queue') = KeysOf(queue) \cup {NextArc.dst}
         /\ isQueuedTwice' \in BOOLEAN /\ (isQueuedTwice => isQueuedTwice')
         /\ ~isQueuedTwice' =>
              /\ IsPlaced(queue)'
              /\ NextArc.dst \in KeysOf(queue) => Size(queue') = Size(queue)
              /\ NextArc.dst \notin KeysOf(queue) => Size(queue') = Size(queue) + 1
              /\ NextArc.dst \in KeysOf(queue)
                 /\ MayUpdate(adjusted, NextArc.dst, KeyOf(Taken), KeyOf(best'))
                   => IsHeap(queue', KeyOf(best'))
              /\ NextArc.dst \notin KeysOf(queue) /\ IsHeap(adjusted, KeyOf(Taken))
                   => IsHeap(queue', KeyOf(best'))
         /\ KeyOf(best') \in [fst.states -> Int]
         /\ BestInv' /\ fst' = fst
<1>. PICK taken : taken = Taken
  OBVIOUS
<1>. PICK d : d = NextArc.dst
  OBVIOUS
<1>1. /\ HasNextArc /\ d \in DOMAIN best /\ phase = "search" /\ Size(queue) > 0
      /\ best' = [taken EXCEPT ![d] = Reached]
      /\ queue' = PushOrUpdate(adjusted, d, KeyOf(best')) /\ UNCHANGED input /\ fst' = fst
      /\ isQueuedTwice' = (isQueuedTwice \/ IsMissed(adjusted, d))
  BY DEF ImproveState, HasNextArc, IsExpanding, input
<1>. PICK bests : bests = best'
  OBVIOUS
<1>2. /\ DOMAIN taken = DOMAIN best /\ taken \in [DOMAIN taken -> Bests] /\ d \in fst.states
  BY <1>1, TakenFacts
<1>3. /\ bests \in [DOMAIN bests -> Bests \cup {Reached}]
      /\ DOMAIN bests = DOMAIN best /\ bests[d] = Reached
      /\ \A s \in DOMAIN best : s # d => bests[s] = taken[s]
  <2>. HIDE DEF Reached, NextArc, Taken
  <2>1. QED
    BY <1>1, <1>2
<1>4. bests \in [DOMAIN bests -> Bests] /\ BestInv'
  <2>1. DOMAIN bests = DOMAIN best \cup {d}
    BY <1>1, <1>3
  <2>2. QED
    BY <1>1, <1>3, <2>1, ReachedFacts
<1>5. KeyOf(bests) \in [fst.states -> Int]
  BY <1>4, KeyOfType
<1>6. /\ adjusted \in Heaps(fst.states)
      /\ KeysOf(adjusted) = KeysOf(queue) /\ Size(adjusted) = Size(queue)
      /\ ~isQueuedTwice => IsPlaced(adjusted)
  BY <1>1, AdjustedFacts
<1>7. KeyOf(best') = KeyOf(bests)
  BY DEF KeyOf
<1>. PICK updated : updated = queue'
  OBVIOUS
<1>8. updated = PushOrUpdate(adjusted, d, KeyOf(bests))
  BY <1>1, <1>7
<1>9. KeysOf(queue) \subseteq DOMAIN best /\ isQueuedTwice \in BOOLEAN
  BY <1>1, TopFacts
<1>10. updated \in Heaps(fst.states) /\ KeysOf(updated) = KeysOf(queue) \cup {d}
  <2>. PICK all : all = KeysOf(adjusted) \cup {d}
    OBVIOUS
  <2>1. OnlyMoves(updated, adjusted, all, fst.states)
    BY <1>2, <1>6, <1>8, PushOrUpdateMoves
  <2>2. adjusted \in Heaps(fst.states) /\ d \in fst.states
    BY <1>2, <1>6
  <2>3. KeysOf(updated) = KeysOf(adjusted) \cup {d}
    BY <1>8, <2>1, <2>2, PushOrUpdateMoves
  <2>4. QED
    BY <1>6, <2>1, <2>3 DEF OnlyMoves
<1>11. /\ isQueuedTwice' \in BOOLEAN /\ (isQueuedTwice => isQueuedTwice')
       /\ ~isQueuedTwice' => ~isQueuedTwice /\ (d \in KeysOf(queue) => HasKey(adjusted, d))
  BY <1>1, <1>6, <1>9 DEF IsMissed
<1>12. ASSUME ~isQueuedTwice', d \in KeysOf(queue)
       PROVE  /\ IsPlaced(updated) /\ Size(updated) = Size(queue)
              /\ MayUpdate(adjusted, d, KeyOf(taken), KeyOf(bests)) => IsHeap(updated, KeyOf(bests))
  <2>1. HasKey(adjusted, d) /\ IsPlaced(adjusted)
    BY <1>6, <1>11, <1>12
  <2>2. QED
    BY <1>2, <1>5, <1>6, <1>8, <2>1, UpdateInHeap
<1>13. ASSUME ~isQueuedTwice', d \notin KeysOf(queue)
       PROVE  /\ IsPlaced(updated) /\ Size(updated) = Size(queue) + 1
              /\ IsHeap(adjusted, KeyOf(taken)) => IsHeap(updated, KeyOf(bests))
  <2>1. d \notin KeysOf(adjusted) /\ IsPlaced(adjusted)
    BY <1>6, <1>11, <1>13
  <2>2. updated = Push(adjusted, d, KeyOf(bests))
    BY <1>8, <2>1, HasKeyIsQueued DEF PushOrUpdate
  <2>3. IsPushed(Push(adjusted, d, KeyOf(bests)), adjusted, d, fst.states, KeyOf(bests))
    BY <1>2, <1>5, <1>6, <2>1, PushOnHeap
  <2>4. /\ IsPlaced(updated) /\ Size(updated) = Size(adjusted) + 1
        /\ IsHeap(adjusted, KeyOf(bests)) => IsHeap(updated, KeyOf(bests))
    BY <2>2, <2>3 DEF IsPushed
  <2>5. ASSUME IsHeap(adjusted, KeyOf(taken))
        PROVE  IsHeap(adjusted, KeyOf(bests))
    <3>1. \A k \in KeysOf(adjusted) : KeyOf(taken)[k] = KeyOf(bests)[k]
      BY <1>2, <1>3, <1>6, <1>9, <1>13 DEF KeyOf, IInv, BestInv
    <3>2. QED
      BY <1>6, <2>5, <3>1, SameOrder
  <2>6. QED
    BY <1>6, <2>4, <2>5
<1>14. ~isQueuedTwice' => IsPlaced(queue)'
  BY <1>12, <1>13 DEF IsPlaced, KeysDiffer, KeysOf, Places, KeyAt, Size
<1>15. QED
  BY <1>1, <1>3, <1>4, <1>5, <1>7, <1>10, <1>11, <1>12, <1>13, <1>14

LEMMA PopStateFacts ==
  ASSUME IInv, PopState
  PROVE  /\ best' = best /\ queue' \in Heaps(fst.states)
         /\ isQueuedTwice' = isQueuedTwice /\ isQueuedTwice \in BOOLEAN
         /\ KeysOf(queue') \subseteq KeysOf(queue)
         /\ KeysOf(queue) \ {Top(queue)} \subseteq KeysOf(queue')
         /\ ~isQueuedTwice =>
              /\ IsPlaced(queue)'
              /\ KeysOf(queue') = KeysOf(queue) \ {Top(queue)} /\ Size(queue') = Size(queue) - 1
              /\ IsHeap(queue, KeyOf(best)) \/ IsFlat(queue') => IsHeap(queue', KeyOf(best'))
         /\ fst' = fst
<1>1. /\ phase = "search" /\ Size(queue) > 0 /\ queue' = Pop(queue, KeyOf(best)) /\ best' = best
      /\ fst' = fst /\ isQueuedTwice' = isQueuedTwice
  BY DEF PopState, IsExpanding, input
<1>2. /\ queue \in Heaps(fst.states) /\ KeyOf(best) \in [fst.states -> Int]
      /\ isQueuedTwice \in BOOLEAN /\ (~isQueuedTwice => IsPlaced(queue))
  BY <1>1, TopFacts
<1>. PICK popped : popped = queue'
  OBVIOUS
<1>3. OnlyMoves(popped, queue, KeysOf(queue), fst.states)
  BY <1>1, <1>2, PopMoves
<1>4. KeysOf(queue) \ {Top(queue)} \subseteq KeysOf(popped)
  BY <1>1, <1>2, PopMoves
<1>5. ASSUME ~isQueuedTwice
      PROVE  /\ IsPlaced(popped)
             /\ KeysOf(popped) = KeysOf(queue) \ {Top(queue)} /\ Size(popped) = Size(queue) - 1
             /\ IsHeap(queue, KeyOf(best)) \/ IsFlat(popped) => IsHeap(popped, KeyOf(best))
  BY <1>1, <1>2, <1>5, PopOffHeap
<1>6. KeyOf(best') = KeyOf(best)
  BY <1>1 DEF KeyOf
<1>7. ~isQueuedTwice => IsPlaced(queue)'
  BY <1>5 DEF IsPlaced, KeysDiffer, KeysOf, Places, KeyAt, Size
<1>8. QED
  BY <1>1, <1>2, <1>3, <1>4, <1>5, <1>6, <1>7 DEF OnlyMoves

LEMMA ReachNewStateKeepsIInv == IInv /\ ReachNewState /\ UNCHANGED save => IInv'
<1>. SUFFICES ASSUME IInv, ReachNewState, UNCHANGED save PROVE IInv'
  OBVIOUS
<1>1. /\ DOMAIN best' = DOMAIN best \cup {NextArc.dst} /\ BestInv' /\ fst' = fst
      /\ queue' \in Heaps(fst.states) /\ KeysOf(queue') = KeysOf(queue) \cup {NextArc.dst}
      /\ isQueuedTwice' = isQueuedTwice /\ (~isQueuedTwice => IsPlaced(queue)')
  BY ReachNewStateFacts
<1>2. phase = "search" /\ phase' = phase /\ Size(queue) > 0 /\ UNCHANGED input /\ UNCHANGED outHg
  BY DEF ReachNewState, HasNextArc, IsExpanding
<1>3. KeysOf(queue) \subseteq DOMAIN best /\ isQueuedTwice \in BOOLEAN
  BY <1>2, TopFacts
<1>4. QueueInv'
  BY <1>1, <1>3, QueueInvAfter
<1>5. QED
  BY <1>1, <1>2, <1>4, SearchKeepsRest DEF IInv

LEMMA ReachNoBetterKeepsIInv == IInv /\ ReachNoBetter /\ UNCHANGED save => IInv'
<1>. SUFFICES ASSUME IInv, ReachNoBetter, UNCHANGED save PROVE IInv'
  OBVIOUS
<1>1. /\ best' = Taken /\ BestInv' /\ fst' = fst
      /\ queue' \in Heaps(fst.states) /\ KeysOf(queue') = KeysOf(queue)
      /\ isQueuedTwice' = isQueuedTwice /\ (~isQueuedTwice => IsPlaced(queue)')
  BY ReachNoBetterFacts
<1>2. phase = "search" /\ phase' = phase /\ Size(queue) > 0 /\ UNCHANGED input /\ UNCHANGED outHg
      /\ HasNextArc
  BY DEF ReachNoBetter, HasNextArc, IsExpanding
<1>3. /\ KeysOf(queue) \subseteq DOMAIN best /\ DOMAIN best' = DOMAIN best
      /\ isQueuedTwice \in BOOLEAN
  BY <1>1, <1>2, TopFacts, TakenFacts
<1>4. QueueInv'
  BY <1>1, <1>3, QueueInvAfter
<1>5. QED
  BY <1>1, <1>2, <1>4, SearchKeepsRest DEF IInv

LEMMA ImproveStateKeepsIInv == IInv /\ ImproveState /\ UNCHANGED save => IInv'
<1>. SUFFICES ASSUME IInv, ImproveState, UNCHANGED save PROVE IInv'
  OBVIOUS
<1>1. /\ DOMAIN best' = DOMAIN best /\ NextArc.dst \in DOMAIN best /\ BestInv' /\ fst' = fst
      /\ queue' \in Heaps(fst.states) /\ KeysOf(queue') = KeysOf(queue) \cup {NextArc.dst}
      /\ isQueuedTwice' \in BOOLEAN /\ (~isQueuedTwice' => IsPlaced(queue)')
  <2>. PICK adjusted : adjusted = Adjusted(Taken)
    OBVIOUS
  <2>1. QED
    BY ImproveStateFacts
<1>2. phase = "search" /\ phase' = phase /\ Size(queue) > 0 /\ UNCHANGED input /\ UNCHANGED outHg
  BY DEF ImproveState, HasNextArc, IsExpanding
<1>3. KeysOf(queue) \subseteq DOMAIN best /\ isQueuedTwice \in BOOLEAN
  BY <1>2, TopFacts
<1>4. QueueInv'
  BY <1>1, <1>3, QueueInvAfter
<1>5. QED
  BY <1>1, <1>2, <1>4, SearchKeepsRest DEF IInv

LEMMA PopStateKeepsIInv == IInv /\ PopState /\ UNCHANGED save => IInv'
<1>. SUFFICES ASSUME IInv, PopState, UNCHANGED save PROVE IInv'
  OBVIOUS
<1>1. /\ best' = best /\ fst' = fst
      /\ queue' \in Heaps(fst.states) /\ KeysOf(queue') \subseteq KeysOf(queue)
      /\ isQueuedTwice' = isQueuedTwice /\ (~isQueuedTwice => IsPlaced(queue)')
  BY PopStateFacts
<1>2. phase = "search" /\ phase' = phase /\ Size(queue) > 0 /\ UNCHANGED input /\ UNCHANGED outHg
  BY DEF PopState, IsExpanding
<1>3. KeysOf(queue) \subseteq DOMAIN best /\ isQueuedTwice \in BOOLEAN
  BY <1>2, TopFacts
<1>4. QueueInv'
  BY <1>1, <1>3, QueueInvAfter
<1>5. BestInv'
  BY <1>1 DEF IInv, BestInv, Bests, Arcs
<1>6. QED
  BY <1>2, <1>4, <1>5, SearchKeepsRest DEF IInv

LEMMA StartKeepsIInv == IInv /\ Start /\ UNCHANGED save => IInv'
<1>. SUFFICES ASSUME IInv, Start, UNCHANGED save PROVE IInv'
  OBVIOUS
<1>1. /\ phase = "start" /\ opt.lazy /\ fst' = fst /\ opt' = opt
      /\ stack' = stack /\ stateMap' = stateMap /\ isQueuedTwice' = isQueuedTwice
  BY DEF Start, input, save
<1>2. /\ JobInv /\ StackInv /\ MapInv /\ HgInv /\ BestInv /\ QueueInv
      /\ stack = <<>> /\ stateMap = <<>> /\ best = <<>> /\ queue = EmptyHeap({})
      /\ outHg = EmptyHypergraph
  BY <1>1 DEF IInv, PhaseInv
<1>3. JobInv' /\ StackInv'
  <2>1. JobInv'
    BY <1>1, <1>2 DEF JobInv
  <2>2. stack' \in Seq(Calls)' /\ Len(stack') = 0
    BY <1>1, <1>2
  <2>3. QED
    BY <2>1, <2>2 DEF StackInv
<1>4. MapInv'
  BY <1>1, <1>2, EmptyFunction DEF MapInv
<1>5. CASE fst.start \in fst.finals
  <2>1. /\ phase' = "done" /\ outHg' = PathHypergraph(<<>>, opt) /\ best' = best /\ queue' = queue
    BY <1>5 DEF Start
  <2>2. IsPath(<<>>)
    BY DEF IsPath
  <2>3. HgInv'
    BY <2>1, <2>2, PathHypergraphType DEF HgInv
  <2>4. BestInv' /\ QueueInv'
    BY <1>1, <1>2, <2>1 DEF BestInv, Bests, Arcs, QueueInv
  <2>5. PhaseInv'
    BY <1>1, <1>2, <2>1 DEF PhaseInv
  <2>6. QED
    BY <1>3, <1>4, <2>3, <2>4, <2>5 DEF IInv
<1>6. CASE fst.start \notin fst.finals
  <2>. PICK keys : keys = KeyOf(best')
    OBVIOUS
  <2>1. /\ phase' = "search" /\ outHg' = outHg
        /\ best' = Inserted(<<>>, fst.start, Seed)
        /\ queue' = Push(EmptyHeap(fst.states), fst.start, keys)
    BY <1>6 DEF Start
  <2>2. best' = [s \in {fst.start} |-> Seed]
    BY <2>1, EmptyFunction DEF Inserted
  <2>3. Seed \in Bests /\ Seed.predecessor = None
    BY <1>2, StartArcs DEF Seed, Bests
  <2>4. fst.start \in fst.states /\ IsFiniteSet({fst.start})
    BY <1>2, StartArcs, FS_Singleton
  <2>. HIDE DEF Seed
  <2>5. DOMAIN best' = {fst.start} /\ best'[fst.start] = Seed /\ best' \in [DOMAIN best' -> Bests]
    BY <2>2, <2>3
  <2>6. BestInv'
    BY <1>1, <2>3, <2>4, <2>5 DEF BestInv, Bests, Arcs
  <2>7. keys \in [fst.states -> Int]
    <3>. PICK bests : bests = best'
      OBVIOUS
    <3>1. keys = KeyOf(bests)
      BY <1>1 DEF KeyOf
    <3>2. QED
      BY <2>5, <3>1, KeyOfType
  <2>8. IsPushed(queue', EmptyHeap(fst.states), fst.start, fst.states, keys)
    BY <2>1, <2>4, <2>7, EmptyHeapFacts, PushOnHeap
  <2>9. QueueInv'
    <3>1. queue' \in Heaps(fst.states) /\ IsPlaced(queue') /\ KeysOf(queue') \subseteq DOMAIN best'
      BY <2>5, <2>8, EmptyHeapFacts DEF IsPushed
    <3>2. IsPlaced(queue)'
      BY <3>1 DEF IsPlaced, KeysDiffer, KeysOf, Places, KeyAt, Size
    <3>3. QED
      BY <1>1, <1>2, <3>1, <3>2, QueueInvAfter DEF QueueInv
  <2>10. HgInv' /\ PhaseInv'
    BY <1>1, <1>2, <2>1 DEF PhaseInv, HgInv
  <2>11. QED
    BY <1>3, <1>4, <2>6, <2>9, <2>10 DEF IInv
<1>7. QED
  BY <1>5, <1>6

(* The way back from a state, of which pathFromBest collects the arcs *)
Trails == [state : DOMAIN best, path : Seq(Arcs)]
StepBack(b) ==
  IF best[b.state].predecessor = None THEN b
  ELSE [state |-> best[b.state].predecessor, path |-> <<best[b.state].arc>> \o b.path]
IsWayBack(back, s, n) ==
  /\ n \in Nat /\ PathTo(s) = back[n].path
  /\ \A i \in 0 .. n : back[i] \in Trails
  /\ back[0] = [state |-> s, path |-> <<>>]
  /\ \A i \in 1 .. n : back[i] = StepBack(back[i - 1])

LEMMA PathToIsBack ==
  ASSUME IInv, NEW s \in DOMAIN best
  PROVE  \E back : IsWayBack(back, s, Cardinality(DOMAIN best))
<1>. DEFINE N == Cardinality(DOMAIN best)
            start == [state |-> s, path |-> <<>>]
            step == [x \in (1 .. N) \X Trails |-> StepBack(x[2])]
            IsBack(f) == f = [n \in 0 .. N |-> IF n = 0 THEN start ELSE StepBack(f[n - 1])]
            back == CHOOSE f : IsBack(f)
            Inv == [n \in 0 .. N |-> Trails]
<1>1. N \in Nat
  BY FS_CardinalityType DEF IInv, BestInv
<1>2. PathTo(s) = back[N].path
  BY DEF PathTo, StepBack
<1>3. ASSUME NEW b \in Trails
      PROVE  StepBack(b) \in Trails
  <2>1. b.state \in DOMAIN best /\ b.path \in Seq(Arcs)
    BY DEF Trails
  <2>2. CASE best[b.state].predecessor = None
    BY <2>2 DEF StepBack
  <2>3. CASE best[b.state].predecessor # None
    <3>1. best[b.state].predecessor \in DOMAIN best /\ best[b.state].arc \in Arcs
      BY <2>1, <2>3 DEF IInv, BestInv
    <3>2. <<best[b.state].arc>> \o b.path \in Seq(Arcs)
      BY <2>1, <3>1
    <3>3. QED
      BY <2>3, <3>1, <3>2 DEF StepBack, Trails
  <2>4. QED
    BY <2>2, <2>3
<1>4. start \in Trails
  BY DEF Trails
<1>. HIDE DEF N, start
<1>5. step \in [(1 .. N) \X Trails -> Trails]
  BY <1>3
<1>6. \A n \in 1 .. N, b \in Trails : step[<<n, b>>] = StepBack(b)
  OBVIOUS
<1>. HIDE DEF step
<1>7. PICK f \in [0 .. N -> Trails] :
        f[0] = start /\ \A n \in 1 .. N : f[n] = step[<<n, f[n - 1]>>]
  <2>1. IsCount(Trails, N, start, step)
    BY <1>1, <1>4, <1>5 DEF IsCount
  <2>2. QED
    BY <2>1, ForExists
<1>8. IsBack(f)
  <2>1. \A n \in 1 .. N : n - 1 \in 0 .. N
    BY <1>1
  <2>2. \A n \in 1 .. N : f[n] = StepBack(f[n - 1])
    BY <1>6, <1>7, <2>1
  <2>3. \A n \in 0 .. N : n = 0 \/ n \in 1 .. N
    BY <1>1
  <2>4. QED
    BY <1>7, <2>2, <2>3
<1>9. IsBack(back)
  <2>. HIDE DEF IsBack
  <2>1. QED
    BY <1>8
<1>. HIDE DEF back
<1>10. back[0] = start /\ \A n \in 1 .. N : back[n] = StepBack(back[n - 1])
  BY <1>1, <1>9
<1>11. /\ \A n \in 0 .. N : Inv[n] = Trails
       /\ \A n \in 1 .. N : n \in 0 .. N /\ n - 1 \in 0 .. N
       /\ 0 \in 0 .. N /\ N \in 0 .. N
  BY <1>1
<1>. HIDE DEF Inv
<1>12. \A n \in 1 .. N : back[n - 1] \in Inv[n - 1] => back[n] \in Inv[n]
  BY <1>3, <1>10, <1>11
<1>13. back[0] \in Inv[0]
  BY <1>4, <1>10, <1>11
<1>14. \A n \in 0 .. N : back[n] \in Inv[n]
  BY <1>1, <1>12, <1>13, ForKeeps
<1>15. \A n \in 0 .. N : back[n] \in Trails
  BY <1>11, <1>14
<1>16. IsWayBack(back, s, N)
  BY <1>1, <1>2, <1>10, <1>15 DEF IsWayBack, start
<1>17. QED
  BY <1>16 DEF N

(* The path back from a state is one of arcs of the transducer. *)
LEMMA PathToType ==
  ASSUME IInv, NEW s \in DOMAIN best
  PROVE  IsPath(PathTo(s)) /\ PathTo(s) \in Seq(Arcs)
<1>1. PICK back : IsWayBack(back, s, Cardinality(DOMAIN best))
  BY PathToIsBack
<1>. PICK N : N = Cardinality(DOMAIN best)
  OBVIOUS
<1>2. N \in 0 .. N
  BY <1>1 DEF IsWayBack
<1>3. PathTo(s) \in Seq(Arcs)
  BY <1>1, <1>2 DEF IsWayBack, Trails
<1>4. \A a \in Arcs : a.in \in Labels /\ a.out \in Labels /\ a.cost \in Int
  BY DEF Arcs, ArcsTo, Labels
<1>. HIDE DEF Arcs, PathTo
<1>5. QED
  BY <1>3, <1>4 DEF IsPath

LEMMA ArriveKeepsIInv == IInv /\ Arrive /\ UNCHANGED save => IInv'
<1>. SUFFICES ASSUME IInv, Arrive, UNCHANGED save PROVE IInv'
  OBVIOUS
<1>1. /\ phase = "search" /\ Size(queue) > 0 /\ phase' = "done" /\ fst' = fst /\ opt' = opt
      /\ best' = best /\ queue' = queue /\ stack' = stack /\ stateMap' = stateMap
      /\ isQueuedTwice' = isQueuedTwice /\ outHg' = PathHypergraph(PathTo(Top(queue)), opt)
  BY DEF Arrive, input, save
<1>2. /\ JobInv /\ PhaseInv /\ BestInv /\ QueueInv /\ StackInv /\ MapInv
  BY DEF IInv
<1>3. HgInv'
  <2>1. Top(queue) \in DOMAIN best
    BY <1>1, TopFacts
  <2>2. QED
    BY <1>1, <2>1, PathToType, PathHypergraphType DEF HgInv
<1>4. JobInv' /\ PhaseInv'
  BY <1>1, <1>2 DEF JobInv, PhaseInv
<1>5. BestInv' /\ QueueInv'
  <2>1. BestInv'
    BY <1>1, <1>2 DEF BestInv, Bests, Arcs
  <2>2. QueueInv'
    BY <1>1, <1>2 DEF QueueInv, IsPlaced, KeysDiffer
  <2>3. QED
    BY <2>1, <2>2
<1>6. StackInv'
  BY <1>1, <1>2 DEF StackInv, Calls, Arcs
<1>7. MapInv'
  <2>1. stateMap = <<>>
    BY <1>1, <1>2 DEF PhaseInv
  <2>2. QED
    BY <1>1, <2>1, EmptyFunction DEF MapInv
<1>8. QED
  BY <1>3, <1>4, <1>5, <1>6, <1>7 DEF IInv

LEMMA GiveUpKeepsIInv == IInv /\ GiveUp /\ UNCHANGED save => IInv'
<1>. SUFFICES ASSUME IInv, GiveUp, UNCHANGED save PROVE IInv'
  OBVIOUS
<1>1. /\ phase = "search" /\ phase' = "done" /\ fst' = fst /\ opt' = opt
      /\ best' = best /\ queue' = queue /\ stack' = stack /\ stateMap' = stateMap
      /\ isQueuedTwice' = isQueuedTwice /\ outHg' = outHg
  BY DEF GiveUp, input, search, save
<1>2. /\ JobInv /\ PhaseInv /\ BestInv /\ QueueInv /\ StackInv /\ MapInv /\ HgInv
  BY DEF IInv
<1>3. JobInv' /\ PhaseInv' /\ HgInv' /\ MapInv'
  BY <1>1, <1>2 DEF JobInv, PhaseInv, HgInv, MapInv
<1>4. BestInv' /\ QueueInv'
  <2>1. BestInv'
    BY <1>1, <1>2 DEF BestInv, Bests, Arcs
  <2>2. QueueInv'
    BY <1>1, <1>2 DEF QueueInv, IsPlaced, KeysDiffer
  <2>3. QED
    BY <2>1, <2>2
<1>5. StackInv'
  BY <1>1, <1>2 DEF StackInv, Calls, Arcs
<1>6. QED
  BY <1>3, <1>4, <1>5 DEF IInv

LEMMA UnchangedKeepsIInv == IInv /\ UNCHANGED vars => IInv'
<1>. SUFFICES ASSUME IInv, UNCHANGED vars PROVE IInv'
  OBVIOUS
<1>1. /\ phase' = phase /\ fst' = fst /\ opt' = opt
      /\ best' = best /\ queue' = queue /\ stack' = stack /\ stateMap' = stateMap
      /\ isQueuedTwice' = isQueuedTwice /\ outHg' = outHg
  BY DEF vars, input, search, save
<1>2. /\ JobInv /\ PhaseInv /\ BestInv /\ QueueInv /\ StackInv /\ MapInv /\ HgInv
  BY DEF IInv
<1>3. JobInv' /\ PhaseInv' /\ HgInv' /\ MapInv'
  BY <1>1, <1>2 DEF JobInv, PhaseInv, HgInv, MapInv
<1>4. BestInv' /\ QueueInv'
  <2>1. BestInv'
    BY <1>1, <1>2 DEF BestInv, Bests, Arcs
  <2>2. QueueInv'
    BY <1>1, <1>2 DEF QueueInv, IsPlaced, KeysDiffer
  <2>3. QED
    BY <2>1, <2>2
<1>5. StackInv'
  BY <1>1, <1>2 DEF StackInv, Calls, Arcs
<1>6. QED
  BY <1>3, <1>4, <1>5 DEF IInv

LEMMA NextKeepsIInv == IInv /\ [Next]_vars => IInv'
<1>. SUFFICES ASSUME IInv, [Next]_vars PROVE IInv'
  OBVIOUS
<1>1. CASE LazyNext /\ UNCHANGED save
  <2>1. CASE Start
    BY <1>1, <2>1, StartKeepsIInv
  <2>2. CASE ReachNewState
    BY <1>1, <2>2, ReachNewStateKeepsIInv
  <2>3. CASE ReachNoBetter
    BY <1>1, <2>3, ReachNoBetterKeepsIInv
  <2>4. CASE ImproveState
    BY <1>1, <2>4, ImproveStateKeepsIInv
  <2>5. CASE PopState
    BY <1>1, <2>5, PopStateKeepsIInv
  <2>6. CASE Arrive
    BY <1>1, <2>6, ArriveKeepsIInv
  <2>7. CASE GiveUp
    BY <1>1, <2>7, GiveUpKeepsIInv
  <2>8. QED
    BY <1>1, <2>1, <2>2, <2>3, <2>4, <2>5, <2>6, <2>7 DEF LazyNext
<1>2. CASE StartSave
  BY <1>2, StartSaveKeepsIInv
<1>3. CASE Visit
  BY <1>3, VisitKeepsIInv
<1>4. CASE AddNextArc
  BY <1>4, AddNextArcKeepsIInv
<1>5. CASE Return
  BY <1>5, ReturnKeepsIInv
<1>6. CASE EndSave
  BY <1>6, EndSaveKeepsIInv
<1>7. CASE UNCHANGED vars
  BY <1>7, UnchangedKeepsIInv
<1>8. QED
  BY <1>1, <1>2, <1>3, <1>4, <1>5, <1>6, <1>7 DEF Next

LEMMA IInvHolds == Spec => []IInv
BY InitIInv, NextKeepsIInv, PTL DEF Spec

(* The types of the search and of the hypergraph made: the queue holds reached
   states only, the calls on the stack are for states that have their numbers,
   and no arc, start or final state of the hypergraph lies outside of it: not of
   a path, whose epsilons are removed on the way, nor of a copy, where a final
   state is added when the first final state of the transducer returns.
   (SaveFst.hpp, LazyBest.hpp, Path.hpp) *)
THEOREM TypeCorrect == Spec => []TypeOK
<1>1. IInv => TypeOK
  <2>. SUFFICES ASSUME IInv PROVE TypeOK
    OBVIOUS
  <2>1. \A s \in DOMAIN best : best[s].distance \in Int /\ best[s].key \in Int
    BY DEF IInv, BestInv, Bests
  <2>2. stack \in Seq(Calls) /\ \A i \in 1 .. Len(stack) : stack[i].state \in DOMAIN stateMap
    BY DEF IInv, StackInv
  <2>3. DOMAIN stack = 1 .. Len(stack)
    BY <2>2
  <2>4. IsHg(outHg) /\ outHg.arcs \in Seq(HgArcs) /\ outHg.size \in Nat
    BY DEF IInv, HgInv, IsHg, Hypergraphs
  <2>5. DOMAIN outHg.arcs = 1 .. Len(outHg.arcs)
    BY <2>4
  <2>6. QED
    BY <2>1, <2>2, <2>3, <2>4, <2>5
       DEF TypeOK, IInv, PhaseInv, BestInv, QueueInv, MapInv, IsHg, IsStateOf
<1>2. QED
  BY IInvHolds, <1>1, PTL
-----------------------------------------------------------------------------
(* Saving depth first implements GraphCopy: a call numbers its state, and each
   turn of its loop adds one arc.  The arcs added are those that no call on the
   stack has yet to add. *)
AddedArcs == {a \in GraphArcs : IsAdded(a)}

LEMMA GraphArcsFacts ==
  \A a : a \in GraphArcs <=>
    \E s \in fst.states : \E k \in DOMAIN fst.arcs[s] :
      a = [from |-> s, by |-> k, to |-> fst.arcs[s][k].dst]
BY DEF GraphArcs

LEMMA GraphArcsType ==
  ASSUME IInv, NEW a \in GraphArcs
  PROVE  /\ a.from \in fst.states /\ a.by \in 1 .. Len(fst.arcs[a.from])
         /\ a.to = fst.arcs[a.from][a.by].dst
         /\ a = [from |-> a.from, by |-> a.by, to |-> a.to]
         /\ Len(fst.arcs[a.from]) \in Nat
<1>1. JobInv
  BY DEF IInv
<1>2. PICK s \in fst.states :
        \E k \in DOMAIN fst.arcs[s] : a = [from |-> s, by |-> k, to |-> fst.arcs[s][k].dst]
  BY GraphArcsFacts
<1>. PICK k \in DOMAIN fst.arcs[s] : a = [from |-> s, by |-> k, to |-> fst.arcs[s][k].dst]
  BY <1>2
<1>3. fst.arcs[s] \in Seq(Arcs)
  BY <1>1, StartArcs
<1>. PICK all : all = fst.arcs[s]
  OBVIOUS
<1>4. DOMAIN all = 1 .. Len(all) /\ Len(all) \in Nat
  BY <1>3
<1>5. QED
  BY <1>2, <1>4

LEMMA GraphStays == UNCHANGED input => GraphArcs' = GraphArcs
BY DEF GraphArcs, input

(* Of the state called for no arc is added yet; those of the others stay as
   they are. *)
LEMMA CallAddsNoArc ==
  ASSUME IInv, NEW s \in fst.states, s \notin DOMAIN stateMap,
         stack' = Append(stack, Call(s)), stateMap' = Inserted(stateMap, s, outHg.size),
         outHg' = AddState(outHg), UNCHANGED input
  PROVE  AddedArcs' = AddedArcs
<1>1. /\ DOMAIN stateMap' = DOMAIN stateMap \cup {s}
      /\ stack' \in Seq(Calls) /\ Len(stack') = Len(stack) + 1 /\ Len(stack) \in Nat
      /\ \A i \in 1 .. Len(stack) : stack'[i] = stack[i]
      /\ stack'[Len(stack) + 1] = Call(s)
  BY CalledFor
<1>2. /\ stack \in Seq(Calls) /\ JobInv /\ HgInv
  BY DEF IInv, StackInv
<1>3. Call(s).state = s /\ Call(s).arcs = fst.arcs[s]
  BY <1>2, CallFacts
<1>4. DOMAIN stack = 1 .. Len(stack) /\ DOMAIN stack' = 1 .. Len(stack) + 1
  BY <1>1, <1>2
<1>5. fst' = fst /\ GraphArcs' = GraphArcs
  BY GraphStays DEF input
<1>6. ASSUME NEW a \in GraphArcs PROVE IsAdded(a)' <=> IsAdded(a)
  <2>1. /\ a.from \in fst.states /\ a.by \in 1 .. Len(fst.arcs[a.from])
        /\ Len(fst.arcs[a.from]) \in Nat
    BY GraphArcsType
  <2>2. IsAdded(a)' <=>
          /\ a.from \in DOMAIN stateMap'
          /\ \A i \in 1 .. Len(stack) + 1 :
               stack'[i].state = a.from => a.by <= Len(fst.arcs[a.from]) - Len(stack'[i].arcs)
    BY <1>4, <1>5 DEF IsAdded
  <2>3. IsAdded(a) <=>
          /\ a.from \in DOMAIN stateMap
          /\ \A i \in 1 .. Len(stack) :
               stack[i].state = a.from => a.by <= Len(fst.arcs[a.from]) - Len(stack[i].arcs)
    BY <1>4 DEF IsAdded
  <2>4. CASE a.from = s
    <3>1. Len(stack) + 1 \in 1 .. Len(stack) + 1
      BY <1>1
    <3>2. ~ (a.by <= Len(fst.arcs[s]) - Len(stack'[Len(stack) + 1].arcs))
      BY <1>1, <1>3, <2>1, <2>4
    <3>3. QED
      BY <1>1, <1>3, <2>2, <2>3, <2>4, <3>1, <3>2
  <2>5. CASE a.from # s
    <3>1. \A i \in 1 .. Len(stack) + 1 : i \in 1 .. Len(stack) \/ i = Len(stack) + 1
      BY <1>1
    <3>2. \A i \in 1 .. Len(stack) : i \in 1 .. Len(stack) + 1
      BY <1>1
    <3>3. QED
      BY <1>1, <1>3, <2>2, <2>3, <2>5, <3>1, <3>2
  <2>6. QED
    BY <2>4, <2>5
<1>7. QED
  BY <1>5, <1>6 DEF AddedArcs

(* The arc that a turn of the loop adds *)
ArcAdded ==
  [from |-> Caller.state, by |-> (Len(fst.arcs[Caller.state]) - Len(Caller.arcs)) + 1,
   to |-> Caller.arcs[1].dst]

LEMMA ArcAddedFacts ==
  ASSUME IInv, AddNextArc
  PROVE  /\ ArcAdded \in GraphArcs /\ ArcAdded.from \in DOMAIN stateMap
         /\ ArcAdded.to \in DOMAIN stateMap /\ ~IsAdded(ArcAdded)
<1>1. IsSaving /\ Caller.arcs # <<>> /\ Caller.arcs[1].dst \in DOMAIN stateMap
  BY DEF AddNextArc, IsNew
<1>2. PICK n : n = (Len(fst.arcs[Caller.state]) - Len(Caller.arcs)) + 1
  OBVIOUS
<1>3. /\ n \in DOMAIN fst.arcs[Caller.state] /\ n \in Nat
      /\ fst.arcs[Caller.state][n] = Caller.arcs[1]
      /\ Len(fst.arcs[Caller.state]) \in Nat /\ Len(Caller.arcs) \in Nat
  BY <1>1, <1>2, NextArcFacts
<1>4. /\ Caller.state \in fst.states /\ Caller.state \in DOMAIN stateMap
      /\ Caller = stack[Len(stack)] /\ Len(stack) \in 1 .. Len(stack)
  BY <1>1, CallerFacts
<1>5. ArcAdded = [from |-> Caller.state, by |-> n, to |-> fst.arcs[Caller.state][n].dst]
  BY <1>2, <1>3 DEF ArcAdded
<1>6. ArcAdded \in GraphArcs
  BY <1>3, <1>4, <1>5, GraphArcsFacts
<1>7. Len(stack) \in DOMAIN stack
  BY <1>4 DEF IInv, StackInv
<1>8. ~ (n <= Len(fst.arcs[Caller.state]) - Len(Caller.arcs))
  BY <1>2, <1>3
<1>9. ~IsAdded(ArcAdded)
  BY <1>4, <1>5, <1>7, <1>8 DEF IsAdded
<1>10. QED
  BY <1>1, <1>3, <1>4, <1>5, <1>6, <1>9

LEMMA AddNextArcAdds ==
  ASSUME IInv, AddNextArc
  PROVE  AddedArcs' = AddedArcs \cup {ArcAdded}
<1>1. /\ IsSaving /\ Caller.arcs # <<>> /\ stateMap' = stateMap /\ fst' = fst
      /\ stack' = [stack EXCEPT ![Len(stack)].arcs = Tail(@)] /\ UNCHANGED input
  BY DEF AddNextArc, input
<1>2. /\ stack' \in Seq(Calls) /\ Len(stack') = Len(stack)
      /\ \A i \in 1 .. Len(stack) : stack'[i].state = stack[i].state
      /\ \A i \in 1 .. Len(stack) : i # Len(stack) => stack'[i] = stack[i]
      /\ stack'[Len(stack)].arcs = Tail(Caller.arcs)
  BY <1>1, ArcDone
<1>3. /\ Len(stack) \in 1 .. Len(stack) /\ Caller = stack[Len(stack)]
      /\ Caller.state \in DOMAIN stateMap
      /\ \A i \in 1 .. Len(stack) : i # Len(stack) => stack[i].state # Caller.state
  BY <1>1, CallerFacts
<1>4. PICK n : n = (Len(fst.arcs[Caller.state]) - Len(Caller.arcs)) + 1
  OBVIOUS
<1>5. /\ n \in Nat /\ fst.arcs[Caller.state][n] = Caller.arcs[1]
      /\ Len(Tail(Caller.arcs)) = Len(Caller.arcs) - 1
      /\ Len(fst.arcs[Caller.state]) \in Nat /\ Len(Caller.arcs) \in Nat
  BY <1>1, <1>4, NextArcFacts
<1>6. DOMAIN stack = 1 .. Len(stack) /\ DOMAIN stack' = 1 .. Len(stack)
  BY <1>2 DEF IInv, StackInv
<1>7. GraphArcs' = GraphArcs
  BY <1>1, GraphStays
<1>8. ArcAdded = [from |-> Caller.state, by |-> n, to |-> fst.arcs[Caller.state][n].dst]
  BY <1>4, <1>5 DEF ArcAdded
<1>9. ASSUME NEW a \in GraphArcs PROVE IsAdded(a)' <=> IsAdded(a) \/ a = ArcAdded
  <2>1. /\ a.by \in 1 .. Len(fst.arcs[a.from]) /\ a.to = fst.arcs[a.from][a.by].dst
        /\ a = [from |-> a.from, by |-> a.by, to |-> a.to]
    BY GraphArcsType
  <2>2. IsAdded(a)' <=>
          /\ a.from \in DOMAIN stateMap
          /\ \A i \in 1 .. Len(stack) :
               stack[i].state = a.from => a.by <= Len(fst.arcs[a.from]) - Len(stack'[i].arcs)
    BY <1>1, <1>2, <1>6 DEF IsAdded
  <2>3. IsAdded(a) <=>
          /\ a.from \in DOMAIN stateMap
          /\ \A i \in 1 .. Len(stack) :
               stack[i].state = a.from => a.by <= Len(fst.arcs[a.from]) - Len(stack[i].arcs)
    BY <1>6 DEF IsAdded
  <2>4. CASE a.from = Caller.state
    <3>1. IsAdded(a)' <=> a.by <= Len(fst.arcs[Caller.state]) - (Len(Caller.arcs) - 1)
      BY <1>2, <1>3, <1>5, <2>2, <2>4
    <3>2. IsAdded(a) <=> a.by <= Len(fst.arcs[Caller.state]) - Len(Caller.arcs)
      BY <1>3, <2>3, <2>4
    <3>3. a = ArcAdded <=> a.by = n
      BY <1>8, <2>1, <2>4
    <3>4. a.by <= Len(fst.arcs[Caller.state]) - (Len(Caller.arcs) - 1)
            <=> a.by <= Len(fst.arcs[Caller.state]) - Len(Caller.arcs) \/ a.by = n
      <4>1. \A i, l, r \in Int : i <= l - (r - 1) <=> i <= l - r \/ i = (l - r) + 1
        OBVIOUS
      <4>2. a.by \in Int /\ Len(fst.arcs[Caller.state]) \in Int /\ Len(Caller.arcs) \in Int
        BY <1>5, <2>1
      <4>3. QED
        BY <1>4, <4>1, <4>2, Zenon
    <3>5. QED
      BY <3>1, <3>2, <3>3, <3>4, Zenon
  <2>5. CASE a.from # Caller.state
    <3>1. a # ArcAdded
      BY <1>8, <2>5
    <3>2. QED
      BY <1>2, <1>3, <2>2, <2>3, <2>5, <3>1
  <2>6. QED
    BY <2>4, <2>5
<1>10. ArcAdded \in GraphArcs
  BY ArcAddedFacts
<1>11. QED
  BY <1>7, <1>9, <1>10 DEF AddedArcs

(* A call that returns has added all arcs of its state. *)
LEMMA ReturnAddsNoArc ==
  ASSUME IInv, Return
  PROVE  AddedArcs' = AddedArcs
<1>1. IsSaving /\ Caller.arcs = <<>> /\ stateMap' = stateMap /\ fst' = fst /\ UNCHANGED input
  BY DEF Return, input
<1>2. /\ stack' \in Seq(Calls) /\ Len(stack') = Len(stack) - 1
      /\ \A i \in 1 .. Len(stack') : i \in 1 .. Len(stack) /\ stack'[i] = stack[i]
  BY ReturnFacts
<1>3. /\ Len(stack) \in Nat /\ Caller = stack[Len(stack)] /\ Len(Caller.arcs) = 0
      /\ \A i \in 1 .. Len(stack) : i # Len(stack) => stack[i].state # Caller.state
  BY <1>1, CallerFacts
<1>4. DOMAIN stack = 1 .. Len(stack) /\ DOMAIN stack' = 1 .. Len(stack')
  BY <1>2 DEF IInv, StackInv
<1>5. GraphArcs' = GraphArcs
  BY <1>1, GraphStays
<1>6. \A i \in 1 .. Len(stack) : i \in 1 .. Len(stack') \/ i = Len(stack)
  BY <1>2, <1>3
<1>7. ASSUME NEW a \in GraphArcs PROVE IsAdded(a)' <=> IsAdded(a)
  <2>1. a.by \in 1 .. Len(fst.arcs[a.from]) /\ Len(fst.arcs[a.from]) \in Nat
    BY GraphArcsType
  <2>2. a.by <= Len(fst.arcs[a.from]) - 0
    BY <2>1
  <2>3. QED
    BY <1>1, <1>2, <1>3, <1>4, <1>6, <2>2 DEF IsAdded
<1>8. QED
  BY <1>5, <1>7 DEF AddedArcs

LEMMA InitIsCopyInit == Init => Copy!Init
<1>. SUFFICES ASSUME Init PROVE Copy!Init
  OBVIOUS
<1>1. stateMap = <<>> /\ phase = "start"
  BY DEF Init, LazyInit
<1>2. \A a : ~IsAdded(a)
  BY <1>1, EmptyFunction DEF IsAdded
<1>3. QED
  BY <1>1, <1>2 DEF Copy!Init

(* A state called for is the start state, or an arc of a numbered one leads to
   it. *)
LEMMA CallIsNumber ==
  ASSUME IInv, NEW s \in fst.states, s \notin DOMAIN stateMap,
         stack' = Append(stack, Call(s)), stateMap' = Inserted(stateMap, s, outHg.size),
         outHg' = AddState(outHg), UNCHANGED input, phase # "done", phase' # "done",
         s = fst.start \/ \E a \in GraphArcs : a.from \in DOMAIN stateMap /\ a.to = s
  PROVE  Copy!Number(s)
<1>1. /\ DOMAIN stateMap' = DOMAIN stateMap \cup {s} /\ stateMap'[s] = outHg.size
      /\ \A t \in DOMAIN stateMap : stateMap'[t] = stateMap[t] /\ stateMap'[t] # stateMap'[s]
  BY CalledFor
<1>2. AddedArcs' = AddedArcs
  BY CallAddsNoArc
<1>3. outHg.size \in Nat
  BY DEF IInv, HgInv, IsHg, Hypergraphs
<1>4. fst' = fst /\ GraphArcs' = GraphArcs
  BY GraphStays DEF input
<1>5. QED
  BY <1>1, <1>2, <1>3, <1>4 DEF Copy!Number, Copy!Numbered, Copy!ArcsOfNumbered, Copy!graph, AddedArcs

LEMMA StartSaveIsNumber == IInv /\ StartSave => Copy!Number(fst.start)
<1>. SUFFICES ASSUME IInv, StartSave PROVE Copy!Number(fst.start)
  OBVIOUS
<1>1. QED
  BY StartSaveCalls, CallIsNumber DEF StartSave

LEMMA VisitIsNumber == IInv /\ Visit => \E a \in GraphArcs : Copy!Number(a.to)
<1>. SUFFICES ASSUME IInv, Visit PROVE \E a \in GraphArcs : Copy!Number(a.to)
  OBVIOUS
<1>1. /\ IsSaving /\ Caller.arcs # <<>> /\ phase # "done" /\ phase' # "done" /\ UNCHANGED input
      /\ Caller.arcs[1].dst \notin DOMAIN stateMap
  BY DEF Visit, IsNew, IsSaving
<1>2. PICK n : n = (Len(fst.arcs[Caller.state]) - Len(Caller.arcs)) + 1
  OBVIOUS
<1>3. /\ n \in DOMAIN fst.arcs[Caller.state] /\ fst.arcs[Caller.state][n] = Caller.arcs[1]
      /\ Caller.arcs[1].dst \in fst.states
  BY <1>1, <1>2, NextArcFacts
<1>4. Caller.state \in fst.states /\ Caller.state \in DOMAIN stateMap
  BY <1>1, CallerFacts
<1>5. PICK a : a = [from |-> Caller.state, by |-> n, to |-> fst.arcs[Caller.state][n].dst]
  OBVIOUS
<1>6. a \in GraphArcs /\ a.to = Caller.arcs[1].dst /\ a.from \in DOMAIN stateMap
  BY <1>3, <1>4, <1>5, GraphArcsFacts
<1>7. Copy!Number(Caller.arcs[1].dst)
  BY <1>1, <1>3, <1>6, CallIsNumber DEF Visit
<1>8. QED
  BY <1>6, <1>7

LEMMA AddNextArcIsAdd == IInv /\ AddNextArc => Copy!Add(ArcAdded)
<1>. SUFFICES ASSUME IInv, AddNextArc PROVE Copy!Add(ArcAdded)
  OBVIOUS
<1>1. /\ ArcAdded \in GraphArcs /\ ArcAdded.from \in DOMAIN stateMap
      /\ ArcAdded.to \in DOMAIN stateMap /\ ~IsAdded(ArcAdded)
  BY ArcAddedFacts
<1>2. AddedArcs' = AddedArcs \cup {ArcAdded}
  BY AddNextArcAdds
<1>3. phase = "save" /\ phase' = "save" /\ fst' = fst /\ opt' = opt /\ stateMap' = stateMap
  BY DEF AddNextArc, IsSaving, input
<1>4. GraphArcs' = GraphArcs
  BY <1>3, GraphStays DEF input
<1>. HIDE DEF ArcAdded
<1>5. QED
  BY <1>1, <1>2, <1>3, <1>4 DEF Copy!Add, Copy!Numbered, Copy!ArcsOfNumbered, Copy!graph, AddedArcs

LEMMA ReturnIsStutter == IInv /\ Return => UNCHANGED Copy!vars
<1>. SUFFICES ASSUME IInv, Return PROVE UNCHANGED Copy!vars
  OBVIOUS
<1>1. AddedArcs' = AddedArcs
  BY ReturnAddsNoArc
<1>2. phase' = phase /\ fst' = fst /\ opt' = opt /\ stateMap' = stateMap
  BY DEF Return, input
<1>3. GraphArcs' = GraphArcs
  BY <1>2, GraphStays DEF input
<1>4. QED
  BY <1>1, <1>2, <1>3 DEF Copy!vars, Copy!graph, AddedArcs

LEMMA EndSaveIsFinish == IInv /\ EndSave => Copy!Finish
<1>. SUFFICES ASSUME IInv, EndSave PROVE Copy!Finish
  OBVIOUS
<1>1. /\ phase = "save" /\ phase' = "done" /\ fst' = fst /\ opt' = opt /\ stateMap' = stateMap
      /\ stack = <<>> /\ stack' = stack
  BY DEF EndSave, input, save
<1>2. ~opt.lazy /\ fst.start \in DOMAIN stateMap
  BY <1>1 DEF IInv, PhaseInv
<1>3. GraphArcs' = GraphArcs
  BY <1>1, GraphStays DEF input
<1>4. AddedArcs' = AddedArcs
  BY <1>1, <1>3 DEF AddedArcs, IsAdded
<1>5. \A a \in GraphArcs : a.from \in DOMAIN stateMap => a \in AddedArcs
  BY <1>1, EmptyFunction DEF AddedArcs, IsAdded
<1>6. QED
  BY <1>1, <1>2, <1>3, <1>4, <1>5 DEF Copy!Finish, Copy!Numbered, Copy!ArcsOfNumbered, Copy!graph,
     AddedArcs

(* The search copies nothing. *)
LEMMA SearchIsStutter ==
  ASSUME IInv, (LazyNext /\ UNCHANGED save) \/ UNCHANGED vars
  PROVE  UNCHANGED Copy!vars
<1>1. /\ fst' = fst /\ opt' = opt /\ stack' = stack /\ stateMap' = stateMap
      /\ phase' = phase \/ opt.lazy
  BY DEF IInv, PhaseInv, LazyNext, Start, ReachNewState, ReachNoBetter, ImproveState, PopState, Arrive,
     GiveUp, IsExpanding, HasNextArc, input, save, vars
<1>2. GraphArcs' = GraphArcs
  BY <1>1, GraphStays DEF input
<1>3. AddedArcs' = AddedArcs
  BY <1>1, <1>2 DEF AddedArcs, IsAdded
<1>4. QED
  BY <1>1, <1>2, <1>3 DEF Copy!vars, Copy!graph, AddedArcs

(* Saving depth first copies the part of the transducer that the start state
   leads to: however its calls nest, outStateFor gives each state one number of
   its own and adds each arc once, between states that have theirs.  So all that
   GraphCopyProofs proves of a copy holds of what saveFst saves, for every
   transducer. *)
THEOREM SavingIsCopying == Spec => RefinesGraphCopy
<1>1. Init => Copy!Init
  BY InitIsCopyInit
<1>2. IInv /\ [Next]_vars => [Copy!Next]_(Copy!vars)
  <2>. SUFFICES ASSUME IInv, [Next]_vars PROVE [Copy!Next]_(Copy!vars)
    OBVIOUS
  <2>1. CASE (LazyNext /\ UNCHANGED save) \/ UNCHANGED vars
    BY <2>1, SearchIsStutter
  <2>2. CASE StartSave
    BY <2>2, StartSaveIsNumber DEF Copy!Next
  <2>3. CASE Visit
    BY <2>3, VisitIsNumber DEF Copy!Next
  <2>4. CASE AddNextArc
    BY <2>4, AddNextArcIsAdd, ArcAddedFacts DEF Copy!Next
  <2>5. CASE Return
    BY <2>5, ReturnIsStutter
  <2>6. CASE EndSave
    BY <2>6, EndSaveIsFinish DEF Copy!Next
  <2>7. QED
    BY <2>1, <2>2, <2>3, <2>4, <2>5, <2>6 DEF Next
<1>3. Spec => []IInv
  BY IInvHolds
<1>4. QED
  BY <1>1, <1>2, <1>3, PTL DEF Spec, RefinesGraphCopy, Copy!Spec

Copied == INSTANCE GraphCopyProofs WITH
            start <- fst.start,
            arcs <- GraphArcs,
            ids <- stateMap,
            added <- {a \in GraphArcs : IsAdded(a)},
            isDone <- phase = "done" /\ ~opt.lazy

(* What saveFst has saved at its end is all that the start state leads to, and
   nothing else: the states with a number are closed under the arcs, in every
   closed set with the start state in it, and all arcs between them are added. *)
THEOREM SavedIsReachablePart == Spec => []Copy!CopyIsReachablePart
<1>1. Copied!Spec => []Copied!CopyIsReachablePart
  BY Copied!AlwaysReachablePart
<1>2. RefinesGraphCopy => Copied!Spec
  <2>1. Copy!Init => Copied!Init
    BY DEF Copy!Init, Copied!Init
  <2>2. [Copy!Next]_(Copy!vars) => [Copied!Next]_(Copied!vars)
    BY DEF Copy!Next, Copy!vars, Copy!graph, Copy!Number, Copy!Add, Copy!Finish, Copy!Numbered,
       Copy!ArcsOfNumbered, Copied!Next, Copied!vars, Copied!graph, Copied!Number, Copied!Add,
       Copied!Finish, Copied!Numbered, Copied!ArcsOfNumbered
  <2>3. QED
    BY <2>1, <2>2, PTL DEF RefinesGraphCopy, Copy!Spec, Copied!Spec
<1>3. Copied!CopyIsReachablePart => Copy!CopyIsReachablePart
  BY DEF Copied!CopyIsReachablePart, Copy!CopyIsReachablePart, Copied!Numbered, Copy!Numbered,
     Copied!IsClosed, Copy!IsClosed, Copied!ArcsOfNumbered, Copy!ArcsOfNumbered
<1>4. QED
  BY <1>1, <1>2, <1>3, SavingIsCopying, PTL
-----------------------------------------------------------------------------
(* What the search has worked out, in one turn of its loop after another.  A
   turn takes an arc: the first of those that the state at the top of the queue
   has not yielded yet. *)
TakenBy(bests, s) == Len(fst.arcs[s]) - Len(bests[s].arcs)

(* A state waits in the queue as long as it has arcs to yield, and a final state
   for good; what its arcs taken lead to is reached. *)
IsWorked(bests, keys, s) ==
  /\ IsRest(bests[s].arcs, fst.arcs[s])
  /\ bests[s].arcs # <<>> \/ s \in fst.finals => s \in keys
  /\ s \in fst.finals => TakenBy(bests, s) = 0
  /\ \A k \in 1 .. TakenBy(bests, s) : fst.arcs[s][k].dst \in DOMAIN bests

WorkInv ==
  phase = "search" =>
    /\ fst.start \in DOMAIN best
    /\ \A s \in DOMAIN best : IsWorked(best, KeysOf(queue), s)

(* What the three actions that take an arc have in common *)
IsTurn(bests, keys) ==
  /\ HasNextArc
  /\ DOMAIN bests = DOMAIN best \cup {NextArc.dst}
  /\ \A s \in DOMAIN best : s # NextArc.dst => bests[s] = Taken[s]
  /\ \/ /\ bests[NextArc.dst] = Reached /\ NextArc.dst \in keys
        /\ NextArc.dst \in DOMAIN best => IsBetter
     \/ /\ NextArc.dst \in DOMAIN best /\ ~IsBetter
        /\ bests[NextArc.dst] = Taken[NextArc.dst]
  /\ KeysOf(queue) \subseteq keys
  /\ \A k \in keys : k \in KeysOf(queue) \/ (k = NextArc.dst /\ bests[k] = Reached)

LEMMA TurnIsTaken ==
  ASSUME IInv, ReachNewState \/ ReachNoBetter \/ ImproveState
  PROVE  IsTurn(best', KeysOf(queue')) /\ UNCHANGED <<input, phase>> /\ phase = "search"
<1>0. UNCHANGED <<input, phase>> /\ HasNextArc /\ phase = "search"
  BY DEF ReachNewState, ReachNoBetter, ImproveState, HasNextArc, IsExpanding
<1>1. CASE ReachNewState
  <2>1. NextArc.dst \notin DOMAIN best
    BY <1>1 DEF ReachNewState
  <2>2. /\ DOMAIN best' = DOMAIN best \cup {NextArc.dst} /\ best'[NextArc.dst] = Reached
        /\ \A s \in DOMAIN best : best'[s] = Taken[s]
        /\ KeysOf(queue') = KeysOf(queue) \cup {NextArc.dst}
    BY <1>1, ReachNewStateFacts
  <2>. HIDE DEF Reached, Taken, NextArc
  <2>3. \A k \in KeysOf(queue') : k \in KeysOf(queue) \/ (k = NextArc.dst /\ best'[k] = Reached)
    BY <2>2
  <2>4. QED
    BY <1>0, <2>1, <2>2, <2>3 DEF IsTurn
<1>2. CASE ReachNoBetter
  <2>1. NextArc.dst \in DOMAIN best /\ ~IsBetter
    BY <1>2 DEF ReachNoBetter
  <2>2. best' = Taken /\ KeysOf(queue') = KeysOf(queue)
    BY <1>2, ReachNoBetterFacts
  <2>3. DOMAIN Taken = DOMAIN best
    BY <1>0, TakenFacts
  <2>4. \A k \in KeysOf(queue') : k \in KeysOf(queue)
    BY <2>2
  <2>. HIDE DEF Reached, Taken, NextArc
  <2>5. QED
    BY <1>0, <2>1, <2>2, <2>3, <2>4 DEF IsTurn
<1>3. CASE ImproveState
  <2>1. IsBetter
    BY <1>3 DEF ImproveState
  <2>2. /\ DOMAIN best' = DOMAIN best /\ NextArc.dst \in DOMAIN best
        /\ best'[NextArc.dst] = Reached
        /\ \A s \in DOMAIN best : s # NextArc.dst => best'[s] = Taken[s]
        /\ KeysOf(queue') = KeysOf(queue) \cup {NextArc.dst}
    <3>. PICK adjusted : adjusted = Adjusted(Taken)
      OBVIOUS
    <3>1. QED
      BY <1>3, ImproveStateFacts
  <2>. HIDE DEF Reached, Taken, NextArc
  <2>3. \A k \in KeysOf(queue') : k \in KeysOf(queue) \/ (k = NextArc.dst /\ best'[k] = Reached)
    BY <2>2
  <2>4. QED
    BY <1>0, <2>1, <2>2, <2>3 DEF IsTurn
<1>4. QED
  BY <1>0, <1>1, <1>2, <1>3

(* A turn, state by state: the state at the top, f, yields its n-th arc, which
   leads to d. *)
IsTurnOf(bests, keys, f, d, n) ==
  /\ f \in DOMAIN best /\ f \in KeysOf(queue) /\ f \notin fst.finals /\ d \in fst.states
  /\ n \in 1 .. Len(fst.arcs[f]) /\ n \in Nat /\ NextArc = fst.arcs[f][n]
  /\ NextArc.cost \in Int /\ best[f].distance \in Int /\ TakenBy(best, f) = n - 1
  /\ NextDistance = best[f].distance + NextArc.cost
  /\ DOMAIN best \subseteq fst.states
  /\ DOMAIN bests = DOMAIN best \cup {d}
  /\ IsRest(Tail(best[f].arcs), fst.arcs[f]) /\ best[f].arcs # <<>>
  /\ \A s \in DOMAIN bests :
       \/ s = d /\ bests[s] = Reached /\ d \in keys /\ (d \in DOMAIN best => IsBetter)
       \/ /\ s = f /\ bests[s].arcs = Tail(best[s].arcs) /\ TakenBy(bests, s) = n
          /\ bests[s].key = NextDistance - opt.expandMoreArcs
          /\ bests[s].distance = best[s].distance /\ bests[s].arc = best[s].arc
          /\ bests[s].predecessor = best[s].predecessor
       \/ s \in DOMAIN best /\ s # f /\ bests[s] = best[s]

LEMMA TurnFacts ==
  ASSUME IInv, WorkInv, phase = "search", NEW bests, NEW keys, IsTurn(bests, keys)
  PROVE  IsTurnOf(bests, keys, Top(queue), NextArc.dst, TakenBy(best, Top(queue)) + 1)
<1>. PICK f : f = Top(queue)
  OBVIOUS
<1>. PICK d : d = NextArc.dst
  OBVIOUS
<1>1. HasNextArc
  BY DEF IsTurn
<1>2. /\ phase = "search" /\ Size(queue) > 0 /\ f \notin fst.finals /\ best[f].arcs # <<>>
      /\ NextArc = best[f].arcs[1]
  BY <1>1 DEF HasNextArc, IsExpanding, NextArc
<1>3. f \in DOMAIN best /\ f \in KeysOf(queue) /\ f \in fst.states
  BY <1>2, TopFacts
<1>4. PICK rest : rest = best[f].arcs
  OBVIOUS
<1>5. PICK all : all = fst.arcs[f]
  OBVIOUS
<1>6. rest \in Seq(Arcs) /\ all \in Seq(Arcs) /\ best[f].distance \in Int
      /\ DOMAIN best \subseteq fst.states
  <2>1. best[f] \in Bests /\ DOMAIN best \subseteq fst.states
    BY <1>3 DEF IInv, BestInv
  <2>2. QED
    BY <1>3, <1>4, <1>5, <2>1, StartArcs DEF IInv, Bests
<1>7. IsRest(rest, all) /\ rest # <<>>
  BY <1>2, <1>3, <1>4, <1>5 DEF WorkInv, IsWorked
<1>8. PICK n : n = (Len(all) - Len(rest)) + 1
  OBVIOUS
<1>9. /\ IsRest(Tail(rest), all) /\ Tail(rest) \in Seq(Arcs) /\ Len(Tail(rest)) = Len(rest) - 1
      /\ (Len(all) - Len(rest)) + 1 \in 1 .. Len(all)
      /\ rest[1] = all[(Len(all) - Len(rest)) + 1] /\ rest[1] \in Arcs
  <2>1. rest \in Seq(Arcs) /\ all \in Seq(Arcs)
    BY <1>6
  <2>2. QED
    <3>1. IsRest(rest, all)
      BY <1>7
    <3>2. rest # <<>>
      BY <1>7
    <3>3. QED
      BY <2>1, <3>1, <3>2, RestOfRest, Zenon
<1>10. Len(all) \in Nat /\ Len(rest) \in Nat
  BY <1>6
<1>11. /\ n \in 1 .. Len(all) /\ n \in Nat /\ rest[1] = all[n] /\ Len(all) - Len(Tail(rest)) = n
      /\ Len(all) - Len(rest) = n - 1
  <2>1. n \in 1 .. Len(all) /\ rest[1] = all[n]
    BY <1>8, <1>9, Zenon
  <2>2. \A a, r \in Int : a - (r - 1) = (a - r) + 1 /\ a - r = ((a - r) + 1) - 1
    OBVIOUS
  <2>3. Len(all) \in Int /\ Len(rest) \in Int /\ \A i \in 1 .. Len(all) : i \in Nat
    BY <1>10
  <2>4. Len(all) - (Len(rest) - 1) = n /\ Len(all) - Len(rest) = n - 1
    BY <1>8, <2>2, <2>3, Zenon
  <2>5. QED
    BY <1>9, <2>1, <2>3, <2>4, Zenon
<1>12. /\ NextArc.cost \in Int /\ NextArc.dst \in fst.states
       /\ NextDistance = best[f].distance + NextArc.cost
       /\ Taken[f].key = NextDistance - opt.expandMoreArcs
       /\ Taken[f].arcs = Tail(rest)
       /\ \A s \in DOMAIN best : s # f => Taken[s] = best[s]
       /\ \A s \in DOMAIN best :
            /\ Taken[s].distance = best[s].distance /\ Taken[s].arc = best[s].arc
            /\ Taken[s].predecessor = best[s].predecessor
  BY <1>1, <1>4, TakenFacts
<1>13. DOMAIN bests = DOMAIN best \cup {d}
  BY DEF IsTurn
<1>14. ASSUME NEW s \in DOMAIN bests
       PROVE  \/ s = d /\ bests[s] = Reached /\ d \in keys /\ (d \in DOMAIN best => IsBetter)
              \/ s \in DOMAIN best /\ bests[s] = Taken[s]
  <2>. HIDE DEF Reached, Taken, NextArc
  <2>1. QED
    BY <1>13 DEF IsTurn
<1>15. ASSUME NEW s \in DOMAIN bests
       PROVE  \/ s = d /\ bests[s] = Reached /\ d \in keys /\ (d \in DOMAIN best => IsBetter)
              \/ /\ s = f /\ bests[s].arcs = Tail(best[s].arcs) /\ TakenBy(bests, s) = n
                 /\ bests[s].key = NextDistance - opt.expandMoreArcs
                 /\ bests[s].distance = best[s].distance /\ bests[s].arc = best[s].arc
                 /\ bests[s].predecessor = best[s].predecessor
              \/ s \in DOMAIN best /\ s # f /\ bests[s] = best[s]
  <2>. HIDE DEF Reached, Taken, NextArc, NextDistance
  <2>1. CASE s \in DOMAIN best /\ bests[s] = Taken[s] /\ s = f
    BY <1>11, <1>12, <1>4, <1>5, <2>1 DEF TakenBy
  <2>2. CASE s \in DOMAIN best /\ bests[s] = Taken[s] /\ s # f
    BY <1>12, <2>2
  <2>3. QED
    BY <1>14, <2>1, <2>2
<1>. HIDE DEF Reached, Taken, NextArc, NextDistance
<1>16. TakenBy(best, f) = n - 1 /\ TakenBy(best, f) + 1 = n
  BY <1>8, <1>11, <1>4, <1>5 DEF TakenBy
<1>17. IsTurnOf(bests, keys, f, d, n)
  BY <1>2, <1>3, <1>6, <1>9, <1>11, <1>12, <1>13, <1>15, <1>16, <1>4, <1>5 DEF IsTurnOf
<1>18. QED
  BY <1>16, <1>17

LEMMA FullRest ==
  ASSUME IInv, NEW s \in fst.states
  PROVE  IsRest(fst.arcs[s], fst.arcs[s]) /\ Len(fst.arcs[s]) - Len(fst.arcs[s]) = 0
<1>1. fst.arcs[s] \in Seq(Arcs)
  BY StartArcs DEF IInv
<1>2. Len(fst.arcs[s]) \in Nat
  BY <1>1
<1>3. QED
  BY <1>1, <1>2 DEF IsRest

LEMMA TurnKeepsWork ==
  ASSUME IInv, WorkInv, phase = "search", NEW bests, NEW keys, IsTurn(bests, keys),
         NEW s \in DOMAIN bests
  PROVE  IsWorked(bests, keys, s)
<1>. PICK f : f = Top(queue)
  OBVIOUS
<1>. PICK d : d = NextArc.dst
  OBVIOUS
<1>. PICK n : n = TakenBy(best, f) + 1
  OBVIOUS
<1>0. IsTurnOf(bests, keys, f, d, n)
  BY TurnFacts
<1>1. /\ f \in DOMAIN best /\ f \in KeysOf(queue) /\ f \notin fst.finals /\ d \in fst.states
      /\ n \in Nat /\ NextArc = fst.arcs[f][n] /\ TakenBy(best, f) = n - 1
      /\ DOMAIN bests = DOMAIN best \cup {d}
      /\ IsRest(Tail(best[f].arcs), fst.arcs[f]) /\ best[f].arcs # <<>>
  BY <1>0 DEF IsTurnOf
<1>2. \/ s = d /\ bests[s] = Reached /\ d \in keys
      \/ s = f /\ bests[s].arcs = Tail(best[s].arcs) /\ TakenBy(bests, s) = n
      \/ s \in DOMAIN best /\ s # f /\ bests[s] = best[s]
  BY <1>0 DEF IsTurnOf
<1>3. KeysOf(queue) \subseteq keys
  BY DEF IsTurn
<1>4. \A t \in DOMAIN best : IsWorked(best, KeysOf(queue), t)
  BY DEF WorkInv
<1>5. CASE s = d /\ bests[s] = Reached /\ d \in keys
  <2>1. bests[s].arcs = fst.arcs[s]
    BY <1>5 DEF Reached
  <2>2. IsRest(bests[s].arcs, fst.arcs[s]) /\ TakenBy(bests, s) = 0
    BY <1>1, <1>5, <2>1, FullRest DEF TakenBy
  <2>3. QED
    BY <1>5, <2>2 DEF IsWorked
<1>6. CASE s = f /\ bests[s].arcs = Tail(best[s].arcs) /\ TakenBy(bests, s) = n
  <2>1. \A k \in 1 .. n : k = n \/ k \in 1 .. TakenBy(best, f)
    BY <1>1
  <2>2. \A k \in 1 .. n : fst.arcs[f][k].dst \in DOMAIN bests
    BY <1>1, <1>4, <2>1 DEF IsWorked
  <2>3. QED
    BY <1>1, <1>3, <1>6, <2>2 DEF IsWorked
<1>7. CASE s \in DOMAIN best /\ s # f /\ bests[s] = best[s]
  BY <1>1, <1>3, <1>4, <1>7 DEF IsWorked, TakenBy
<1>8. QED
  BY <1>2, <1>5, <1>6, <1>7

LEMMA StartWorks ==
  ASSUME IInv, Start, phase' = "search"
  PROVE  /\ best' = Inserted(<<>>, fst.start, Seed) /\ DOMAIN best' = {fst.start}
         /\ best'[fst.start] = Seed /\ fst.start \in fst.states
         /\ queue' \in Heaps(fst.states) /\ IsPlaced(queue') /\ KeysOf(queue') = {fst.start}
         /\ IsHeap(queue', KeyOf(best'))
         /\ fst' = fst /\ opt' = opt
<1>1. /\ best' = Inserted(<<>>, fst.start, Seed) /\ fst' = fst /\ opt' = opt
      /\ queue' = Push(EmptyHeap(fst.states), fst.start, KeyOf(best'))
  BY DEF Start, input
<1>2. fst.start \in fst.states /\ fst.arcs[fst.start] \in Seq(Arcs)
  BY StartArcs DEF IInv
<1>. PICK bests : bests = best'
  OBVIOUS
<1>3. DOMAIN bests = {fst.start} /\ bests[fst.start] = Seed
  <2>. HIDE DEF Seed
  <2>1. PICK map : map = <<>>
    OBVIOUS
  <2>2. DOMAIN map = {}
    BY <2>1, EmptyFunction
  <2>3. bests = Inserted(map, fst.start, Seed)
    BY <1>1, <2>1
  <2>4. QED
    BY <2>2, <2>3 DEF Inserted
<1>4. KeyOf(best') = KeyOf(bests)
  BY DEF KeyOf
<1>5. KeyOf(bests) \in [fst.states -> Int]
  BY <1>3 DEF KeyOf, Seed
<1>6. /\ EmptyHeap(fst.states) \in Heaps(fst.states) /\ IsPlaced(EmptyHeap(fst.states))
      /\ KeysOf(EmptyHeap(fst.states)) = {} /\ \A dist : IsHeap(EmptyHeap(fst.states), dist)
  BY EmptyHeapFacts
<1>. PICK empty : empty = EmptyHeap(fst.states)
  OBVIOUS
<1>. PICK start : start = fst.start
  OBVIOUS
<1>7. IsPushed(Push(empty, start, KeyOf(bests)), empty, start, fst.states, KeyOf(bests))
  BY <1>2, <1>5, <1>6, PushOnHeap
<1>8. queue' = Push(empty, start, KeyOf(bests))
  BY <1>1, <1>4
<1>9. /\ queue' \in Heaps(fst.states) /\ IsPlaced(queue') /\ KeysOf(queue') = {fst.start}
      /\ IsHeap(queue', KeyOf(bests))
  BY <1>6, <1>7, <1>8 DEF IsPushed
<1>10. QED
  BY <1>1, <1>2, <1>3, <1>4, <1>9

LEMMA PopKeepsWork ==
  ASSUME IInv, WorkInv, PopState, NEW s \in DOMAIN best
  PROVE  IsWorked(best, KeysOf(queue'), s)
<1>1. KeysOf(queue) \ {Top(queue)} \subseteq KeysOf(queue')
  BY PopStateFacts
<1>2. best[Top(queue)].arcs = <<>> /\ Top(queue) \notin fst.finals /\ phase = "search"
  BY DEF PopState, IsExpanding
<1>3. IsWorked(best, KeysOf(queue), s)
  BY <1>2 DEF WorkInv
<1>4. QED
  BY <1>1, <1>2, <1>3 DEF IsWorked

(* Whatever is not in the loop ends the search or has not begun it. *)
LEMMA NoTurn ==
  ASSUME [Next]_vars, phase' = "search"
  PROVE  \/ Start
         \/ (ReachNewState \/ ReachNoBetter \/ ImproveState) /\ phase = "search"
         \/ PopState /\ phase = "search"
         \/ UNCHANGED vars
BY DEF Next, LazyNext, Start, Arrive, GiveUp, StartSave, Visit, AddNextArc, Return, EndSave, IsSaving,
   ReachNewState, ReachNoBetter, ImproveState, PopState, IsExpanding, HasNextArc, vars, search, save

LEMMA NextKeepsWork == IInv /\ WorkInv /\ [Next]_vars => WorkInv'
<1>. SUFFICES ASSUME IInv, WorkInv, [Next]_vars, phase' = "search" PROVE WorkInv'
  BY DEF WorkInv
<1>1. CASE Start
  <2>1. /\ DOMAIN best' = {fst.start} /\ best'[fst.start] = Seed /\ KeysOf(queue') = {fst.start}
        /\ fst.start \in fst.states /\ fst' = fst
    BY <1>1, StartWorks
  <2>2. Seed.arcs = fst.arcs[fst.start]
    BY DEF Seed
  <2>3. IsRest(fst.arcs[fst.start], fst.arcs[fst.start])
        /\ Len(fst.arcs[fst.start]) - Len(fst.arcs[fst.start]) = 0
    BY <2>1, FullRest
  <2>. HIDE DEF Seed
  <2>. PICK bests : bests = best'
    OBVIOUS
  <2>. PICK keys : keys = KeysOf(queue')
    OBVIOUS
  <2>4. ASSUME NEW s \in DOMAIN bests
        PROVE  IsWorked(bests, keys, s)
    BY <2>1, <2>2, <2>3 DEF IsWorked, TakenBy
  <2>5. fst.start \in DOMAIN bests
    BY <2>1
  <2>6. QED
    BY <2>1, <2>4, <2>5 DEF WorkInv, IsWorked, TakenBy, IsRest
<1>2. CASE (ReachNewState \/ ReachNoBetter \/ ImproveState) /\ phase = "search"
  <2>1. IsTurn(best', KeysOf(queue')) /\ fst' = fst
    BY <1>2, TurnIsTaken DEF input
  <2>. PICK bests : bests = best'
    OBVIOUS
  <2>. PICK keys : keys = KeysOf(queue')
    OBVIOUS
  <2>2. \A s \in DOMAIN bests : IsWorked(bests, keys, s)
    BY <1>2, <2>1, TurnKeepsWork
  <2>3. fst.start \in DOMAIN bests
    BY <1>2, <2>1 DEF IsTurn, WorkInv
  <2>4. QED
    BY <2>1, <2>2, <2>3 DEF WorkInv, IsWorked, TakenBy, IsRest
<1>3. CASE PopState /\ phase = "search"
  <2>1. best' = best /\ fst' = fst
    BY <1>3, PopStateFacts
  <2>. PICK keys : keys = KeysOf(queue')
    OBVIOUS
  <2>2. \A s \in DOMAIN best : IsWorked(best, keys, s)
    BY <1>3, PopKeepsWork
  <2>3. QED
    BY <1>3, <2>1, <2>2 DEF WorkInv, IsWorked, TakenBy, IsRest
<1>4. CASE UNCHANGED vars
  BY <1>4 DEF vars, search, input, WorkInv, IsWorked, TakenBy, IsRest
<1>5. QED
  BY <1>1, <1>2, <1>3, <1>4, NoTurn

LEMMA WorkInvHolds == Spec => [](IInv /\ WorkInv)
<1>1. Init => WorkInv
  BY DEF Init, LazyInit, WorkInv
<1>2. QED
  BY <1>1, InitIInv, NextKeepsIInv, NextKeepsWork, PTL DEF Spec

-----------------------------------------------------------------------------
(* What the search has worked out, when no arc has a negative cost.  (Where one
   has, an admissible heuristic would have to be negative: Fst.hpp:60-63.) *)
NoNegativeCost == \A s \in fst.states : \A k \in 1 .. Len(fst.arcs[s]) : fst.arcs[s][k].cost >= 0

(* The place of a state in the queue is that of the last arc it yielded, but for
   the margin, and no arc it yielded leads to a state for less than the distance
   known there. *)
IsPriced(bests, s) ==
  /\ bests[s].distance >= 0
  /\ \/ TakenBy(bests, s) = 0 /\ bests[s].key = bests[s].distance
     \/ /\ TakenBy(bests, s) > 0
        /\ bests[s].key = (bests[s].distance + fst.arcs[s][TakenBy(bests, s)].cost) - opt.expandMoreArcs
  /\ \A k \in 1 .. TakenBy(bests, s) :
       bests[fst.arcs[s][k].dst].distance <= bests[s].distance + fst.arcs[s][k].cost

(* The predecessors lead back to the start by arcs that cost no more than the
   distance. *)
IsLinked(bests, s) ==
  IF s = fst.start
    THEN bests[s].predecessor = None /\ bests[s].distance = 0
    ELSE \E p \in DOMAIN bests : \E k \in 1 .. Len(fst.arcs[p]) :
           /\ bests[s].predecessor = p /\ bests[s].arc = fst.arcs[p][k] /\ fst.arcs[p][k].dst = s
           /\ bests[p].distance + fst.arcs[p][k].cost <= bests[s].distance

(* They do not lead in a circle. *)
IsAcyclic(bests) ==
  \A S \in SUBSET DOMAIN bests : S # {} => \E s \in S : bests[s].predecessor \notin S

PriceInv ==
  phase = "search" /\ NoNegativeCost =>
    /\ \A s \in DOMAIN best : IsPriced(best, s) /\ IsLinked(best, s)
    /\ IsAcyclic(best)

LEMMA ArcFacts ==
  ASSUME IInv, NEW s \in fst.states
  PROVE  /\ Len(fst.arcs[s]) \in Nat /\ fst.arcs[s] \in Seq(Arcs)
         /\ \A k \in 1 .. Len(fst.arcs[s]) :
              fst.arcs[s][k].cost \in Int /\ fst.arcs[s][k].dst \in fst.states
<1>. PICK all : all = fst.arcs[s]
  OBVIOUS
<1>1. all \in Seq(Arcs)
  BY StartArcs DEF IInv
<1>2. Len(all) \in Nat /\ \A k \in 1 .. Len(all) : all[k] \in Arcs
  BY <1>1
<1>3. \A a \in Arcs : a.cost \in Int /\ a.dst \in fst.states
  BY DEF Arcs, ArcsTo
<1>4. QED
  BY <1>1, <1>2, <1>3

LEMMA TakenType ==
  ASSUME IInv, NEW s \in DOMAIN best
  PROVE  /\ s \in fst.states /\ TakenBy(best, s) \in Int /\ TakenBy(best, s) <= Len(fst.arcs[s])
         /\ \A k \in 1 .. TakenBy(best, s) :
              k \in 1 .. Len(fst.arcs[s]) /\ fst.arcs[s][k].cost \in Int
<1>1. s \in fst.states /\ best[s].arcs \in Seq(Arcs)
  BY DEF IInv, BestInv, Bests
<1>. PICK taken : taken = TakenBy(best, s)
  OBVIOUS
<1>2. Len(best[s].arcs) \in Nat /\ Len(fst.arcs[s]) \in Nat
  BY <1>1, ArcFacts
<1>3. taken \in Int /\ taken <= Len(fst.arcs[s])
  <2>1. \A a, b \in Nat : a - b \in Int /\ a - b <= a
    OBVIOUS
  <2>2. QED
    BY <1>2, <2>1, Zenon DEF TakenBy
<1>4. \A k \in 1 .. taken : k \in 1 .. Len(fst.arcs[s])
  BY <1>2, <1>3
<1>5. QED
  BY <1>1, <1>3, <1>4, ArcFacts

LEMMA ReachedIs ==
  /\ Reached.distance = NextDistance /\ Reached.key = NextDistance /\ Reached.arc = NextArc
  /\ Reached.predecessor = Top(queue) /\ Reached.arcs = fst.arcs[NextArc.dst]
BY DEF Reached

LEMMA TurnIsNoWorse ==
  ASSUME IInv, WorkInv, phase = "search", NEW bests, NEW keys, IsTurn(bests, keys)
  PROVE  /\ \A s \in DOMAIN best : bests[s].distance <= best[s].distance
         /\ bests[NextArc.dst].distance <= NextDistance
         /\ \A s \in DOMAIN bests : bests[s].distance \in Int
<1>. PICK f : f = Top(queue)
  OBVIOUS
<1>. PICK d : d = NextArc.dst
  OBVIOUS
<1>. PICK n : n = TakenBy(best, f) + 1
  OBVIOUS
<1>0. IsTurnOf(bests, keys, f, d, n)
  BY TurnFacts
<1>1. /\ f \in DOMAIN best /\ NextArc.cost \in Int /\ best[f].distance \in Int
      /\ NextDistance = best[f].distance + NextArc.cost /\ DOMAIN bests = DOMAIN best \cup {d}
  BY <1>0 DEF IsTurnOf
<1>2. \A s \in DOMAIN best : best[s].distance \in Int
  BY DEF IInv, BestInv, Bests
<1>3. NextDistance \in Int
  BY <1>1
<1>4. IsBetter => NextDistance < best[d].distance
  BY DEF IsBetter
<1>5. d \in DOMAIN best /\ ~IsBetter => best[d].distance <= NextDistance
  BY <1>2, <1>3 DEF IsBetter
<1>6. ASSUME NEW s \in DOMAIN bests
      PROVE  \/ s = d /\ bests[s].distance = NextDistance /\ (d \in DOMAIN best => IsBetter)
             \/ s \in DOMAIN best /\ bests[s].distance = best[s].distance
  <2>1. \/ s = d /\ bests[s] = Reached /\ (d \in DOMAIN best => IsBetter)
        \/ s = f /\ bests[s].distance = best[s].distance
        \/ s \in DOMAIN best /\ bests[s] = best[s]
    BY <1>0 DEF IsTurnOf
  <2>2. QED
    BY <1>1, <2>1, ReachedIs
<1>7. \A s \in DOMAIN best : bests[s].distance <= best[s].distance
  BY <1>1, <1>2, <1>3, <1>4, <1>6
<1>8. bests[d].distance <= NextDistance
  <2>1. CASE bests[d] = Reached
    BY <1>3, <2>1, ReachedIs
  <2>2. CASE d \in DOMAIN best /\ ~IsBetter /\ bests[d] = Taken[d]
    <3>1. Taken[d].distance = best[d].distance
      BY <2>2, TakenFacts DEF IsTurn
    <3>2. QED
      BY <1>5, <2>2, <3>1
  <2>3. QED
    <3>. HIDE DEF Reached, Taken
    <3>1. QED
      BY <2>1, <2>2 DEF IsTurn
<1>9. \A s \in DOMAIN bests : bests[s].distance \in Int
  BY <1>2, <1>3, <1>6
<1>10. QED
  BY <1>7, <1>8, <1>9

(* The cost of the arc taken *)
LEMMA TurnCosts ==
  ASSUME IInv, WorkInv, PriceInv, NoNegativeCost, phase = "search",
         NEW bests, NEW keys, IsTurn(bests, keys)
  PROVE  /\ NextArc.cost >= 0 /\ NextDistance >= best[Top(queue)].distance
         /\ NextDistance \in Int /\ NextDistance >= 0
         /\ best[Top(queue)].distance \in Int
         /\ NextArc.dst \in DOMAIN best /\ IsBetter
              => NextArc.dst # Top(queue) /\ NextArc.dst # fst.start
<1>. PICK f : f = Top(queue)
  OBVIOUS
<1>. PICK d : d = NextArc.dst
  OBVIOUS
<1>. PICK n : n = TakenBy(best, f) + 1
  OBVIOUS
<1>0. IsTurnOf(bests, keys, f, d, n)
  BY TurnFacts
<1>1. /\ f \in DOMAIN best /\ NextArc.cost \in Int /\ best[f].distance \in Int
      /\ NextDistance = best[f].distance + NextArc.cost /\ DOMAIN best \subseteq fst.states
      /\ n \in 1 .. Len(fst.arcs[f]) /\ NextArc = fst.arcs[f][n]
  BY <1>0 DEF IsTurnOf
<1>2. NextArc.cost >= 0
  BY <1>1 DEF NoNegativeCost
<1>3. /\ best[f].distance >= 0
      /\ fst.start \in DOMAIN best => best[fst.start].distance = 0
  BY <1>1 DEF PriceInv, IsPriced, IsLinked
<1>4. IsBetter => NextDistance < best[d].distance
  BY DEF IsBetter
<1>5. NextDistance \in Int /\ NextDistance >= best[f].distance /\ NextDistance >= 0
  BY <1>1, <1>2, <1>3
<1>6. ASSUME d \in DOMAIN best, IsBetter
      PROVE  d # f /\ d # fst.start
  BY <1>1, <1>3, <1>4, <1>5, <1>6
<1>7. QED
  BY <1>1, <1>2, <1>5, <1>6

LEMMA TurnPrices ==
  ASSUME IInv, WorkInv, PriceInv, NoNegativeCost, phase = "search",
         NEW bests, NEW keys, IsTurn(bests, keys), NEW s \in DOMAIN bests
  PROVE  IsPriced(bests, s)
<1>. PICK f : f = Top(queue)
  OBVIOUS
<1>. PICK d : d = NextArc.dst
  OBVIOUS
<1>. PICK n : n = TakenBy(best, f) + 1
  OBVIOUS
<1>0. IsTurnOf(bests, keys, f, d, n)
  BY TurnFacts
<1>1. /\ f \in DOMAIN best /\ NextArc.cost \in Int /\ best[f].distance \in Int
      /\ NextDistance = best[f].distance + NextArc.cost /\ d \in fst.states
      /\ n \in 1 .. Len(fst.arcs[f]) /\ n \in Nat /\ NextArc = fst.arcs[f][n]
      /\ TakenBy(best, f) = n - 1
      /\ DOMAIN bests = DOMAIN best \cup {d}
  BY <1>0 DEF IsTurnOf
<1>2. /\ \A t \in DOMAIN best : bests[t].distance <= best[t].distance
      /\ bests[d].distance <= NextDistance
      /\ \A t \in DOMAIN bests : bests[t].distance \in Int
  BY TurnIsNoWorse
<1>3. NextDistance \in Int /\ NextDistance >= 0
  BY TurnCosts
<1>4. \A t \in DOMAIN best : IsPriced(best, t) /\ IsWorked(best, KeysOf(queue), t)
                             /\ best[t].distance \in Int
  BY DEF PriceInv, WorkInv, IInv, BestInv, Bests
<1>5. CASE s = d /\ bests[s] = Reached
  <2>1. TakenBy(bests, s) = 0
    BY <1>1, <1>5, ReachedIs, FullRest DEF TakenBy
  <2>2. QED
    BY <1>3, <1>5, <2>1, ReachedIs DEF IsPriced
<1>6. CASE /\ s = f /\ TakenBy(bests, s) = n
           /\ bests[s].key = NextDistance - opt.expandMoreArcs
           /\ bests[s].distance = best[s].distance
  <2>0. n \in Nat /\ n > 0 /\ TakenBy(best, f) = n - 1
    BY <1>1
  <2>1. \A k \in 1 .. n : k = n \/ k \in 1 .. TakenBy(best, f)
    BY <2>0
  <2>2. ASSUME NEW k \in 1 .. n
        PROVE  bests[fst.arcs[f][k].dst].distance <= bests[f].distance + fst.arcs[f][k].cost
    <3>1. CASE k = n
      BY <1>1, <1>2, <1>6, <3>1
    <3>2. CASE k \in 1 .. TakenBy(best, f)
      <4>1. PICK e : e = fst.arcs[f][k].dst
        OBVIOUS
      <4>2. e \in DOMAIN best /\ best[e].distance <= best[f].distance + fst.arcs[f][k].cost
        BY <1>1, <1>4, <3>2, <4>1 DEF IsWorked, IsPriced
      <4>3. bests[e].distance <= best[e].distance /\ bests[e].distance \in Int /\ best[e].distance \in Int
        BY <1>1, <1>2, <1>4, <4>2
      <4>4. fst.arcs[f][k].cost \in Int
        BY <1>1, <3>2, TakenType
      <4>5. best[f].distance \in Int
        BY <1>1
      <4>6. bests[e].distance <= best[f].distance + fst.arcs[f][k].cost
        BY <4>2, <4>3, <4>4, <4>5
      <4>7. QED
        BY <1>6, <4>1, <4>6
    <3>3. QED
      BY <2>1, <3>1, <3>2
  <2>3. bests[s].distance >= 0
    BY <1>4, <1>6, <1>1 DEF IsPriced
  <2>4. QED
    BY <1>1, <1>6, <2>0, <2>2, <2>3 DEF IsPriced
<1>7. CASE s \in DOMAIN best /\ bests[s] = best[s]
  <2>1. TakenBy(bests, s) = TakenBy(best, s)
    BY <1>7 DEF TakenBy
  <2>2. IsPriced(best, s) /\ IsWorked(best, KeysOf(queue), s)
    BY <1>4, <1>7
  <2>3. ASSUME NEW k \in 1 .. TakenBy(bests, s)
        PROVE  bests[fst.arcs[s][k].dst].distance <= bests[s].distance + fst.arcs[s][k].cost
    <3>1. PICK e : e = fst.arcs[s][k].dst
      OBVIOUS
    <3>2. e \in DOMAIN best /\ best[e].distance <= best[s].distance + fst.arcs[s][k].cost
      BY <2>1, <2>2, <3>1 DEF IsWorked, IsPriced
    <3>3. bests[e].distance <= best[e].distance /\ bests[e].distance \in Int /\ best[e].distance \in Int
          /\ best[s].distance \in Int
      BY <1>1, <1>2, <1>4, <1>7, <3>2
    <3>4. fst.arcs[s][k].cost \in Int
      BY <1>7, <2>1, TakenType
    <3>5. QED
      BY <1>7, <3>1, <3>2, <3>3, <3>4
  <2>4. QED
    BY <1>7, <2>1, <2>2, <2>3 DEF IsPriced
<1>8. QED
  <2>1. \/ s = d /\ bests[s] = Reached
        \/ /\ s = f /\ TakenBy(bests, s) = n
           /\ bests[s].key = NextDistance - opt.expandMoreArcs
           /\ bests[s].distance = best[s].distance
        \/ s \in DOMAIN best /\ bests[s] = best[s]
    BY <1>0 DEF IsTurnOf
  <2>2. QED
    BY <2>1, <1>5, <1>6, <1>7

LEMMA TurnLinks ==
  ASSUME IInv, WorkInv, PriceInv, NoNegativeCost, phase = "search",
         NEW bests, NEW keys, IsTurn(bests, keys), NEW s \in DOMAIN bests
  PROVE  IsLinked(bests, s)
<1>. PICK f : f = Top(queue)
  OBVIOUS
<1>. PICK d : d = NextArc.dst
  OBVIOUS
<1>. PICK n : n = TakenBy(best, f) + 1
  OBVIOUS
<1>0. IsTurnOf(bests, keys, f, d, n)
  BY TurnFacts
<1>1. /\ f \in DOMAIN best /\ f \in DOMAIN bests /\ NextArc.cost \in Int /\ best[f].distance \in Int
      /\ NextDistance = best[f].distance + NextArc.cost /\ d \in fst.states /\ d \in DOMAIN bests
      /\ n \in 1 .. Len(fst.arcs[f]) /\ NextArc = fst.arcs[f][n]
      /\ DOMAIN bests = DOMAIN best \cup {d} /\ fst.start \in DOMAIN best
  BY <1>0 DEF IsTurnOf, WorkInv
<1>2. /\ \A t \in DOMAIN best : bests[t].distance <= best[t].distance
      /\ \A t \in DOMAIN bests : bests[t].distance \in Int
  BY TurnIsNoWorse
<1>3. d \in DOMAIN best /\ IsBetter => d # f /\ d # fst.start
  BY TurnCosts
<1>4. \A t \in DOMAIN best : IsLinked(best, t) /\ best[t].distance \in Int /\ t \in fst.states
  BY DEF PriceInv, IInv, BestInv, Bests
<1>5. CASE s = d /\ bests[s] = Reached /\ (d \in DOMAIN best => IsBetter)
  <2>1. s # fst.start
    BY <1>1, <1>3, <1>5
  <2>2. bests[s].predecessor = f /\ bests[s].arc = fst.arcs[f][n] /\ fst.arcs[f][n].dst = s
    BY <1>1, <1>5, ReachedIs
  <2>3. bests[f].distance + fst.arcs[f][n].cost <= bests[s].distance
    <3>1. bests[s].distance = NextDistance
      BY <1>5, ReachedIs
    <3>2. bests[f].distance <= best[f].distance /\ bests[f].distance \in Int
      BY <1>1, <1>2
    <3>3. bests[f].distance + NextArc.cost <= best[f].distance + NextArc.cost
      BY <1>1, <3>2
    <3>4. QED
      BY <1>1, <3>1, <3>3
  <2>4. QED
    BY <1>1, <2>1, <2>2, <2>3 DEF IsLinked
<1>6. CASE /\ s \in DOMAIN best /\ bests[s].distance = best[s].distance
           /\ bests[s].arc = best[s].arc /\ bests[s].predecessor = best[s].predecessor
  <2>1. CASE s = fst.start
    BY <1>4, <1>6, <2>1 DEF IsLinked
  <2>2. CASE s # fst.start
    <3>1. PICK p \in DOMAIN best : \E k \in 1 .. Len(fst.arcs[p]) :
            /\ best[s].predecessor = p /\ best[s].arc = fst.arcs[p][k] /\ fst.arcs[p][k].dst = s
            /\ best[p].distance + fst.arcs[p][k].cost <= best[s].distance
      BY <1>4, <1>6, <2>2 DEF IsLinked
    <3>2. PICK k \in 1 .. Len(fst.arcs[p]) :
            /\ best[s].predecessor = p /\ best[s].arc = fst.arcs[p][k] /\ fst.arcs[p][k].dst = s
            /\ best[p].distance + fst.arcs[p][k].cost <= best[s].distance
      BY <3>1
    <3>3. fst.arcs[p][k].cost \in Int
      BY <1>4, ArcFacts
    <3>4. /\ bests[p].distance <= best[p].distance /\ bests[p].distance \in Int
          /\ best[p].distance \in Int /\ best[s].distance \in Int /\ p \in DOMAIN bests
      BY <1>1, <1>2, <1>4, <1>6
    <3>5. bests[p].distance + fst.arcs[p][k].cost <= best[s].distance
      BY <3>2, <3>3, <3>4
    <3>6. QED
      BY <1>6, <2>2, <3>2, <3>4, <3>5 DEF IsLinked
  <2>3. QED
    BY <2>1, <2>2
<1>7. QED
  <2>1. \/ s = d /\ bests[s] = Reached /\ (d \in DOMAIN best => IsBetter)
        \/ s = f /\ bests[s].distance = best[s].distance /\ bests[s].arc = best[s].arc
           /\ bests[s].predecessor = best[s].predecessor
        \/ s \in DOMAIN best /\ bests[s] = best[s]
    BY <1>0 DEF IsTurnOf
  <2>2. QED
    BY <1>1, <2>1, <1>5, <1>6

(* A circle through the state reached would have led down to the state at the top
   before: on it no state is farther than the top, but the state reached was. *)
LEMMA TurnIsAcyclic ==
  ASSUME IInv, WorkInv, PriceInv, NoNegativeCost, phase = "search",
         NEW bests, NEW keys, IsTurn(bests, keys)
  PROVE  IsAcyclic(bests)
<1>. PICK f : f = Top(queue)
  OBVIOUS
<1>. PICK d : d = NextArc.dst
  OBVIOUS
<1>. PICK n : n = TakenBy(best, f) + 1
  OBVIOUS
<1>0. IsTurnOf(bests, keys, f, d, n)
  BY TurnFacts
<1>1. f \in DOMAIN best /\ DOMAIN bests = DOMAIN best \cup {d} /\ best[f].distance \in Int
  BY <1>0 DEF IsTurnOf
<1>2. \A s \in DOMAIN bests :
        \/ s = d /\ bests[s].predecessor = f /\ (d \in DOMAIN best => IsBetter)
        \/ s \in DOMAIN best /\ bests[s].predecessor = best[s].predecessor
  <2>1. ASSUME NEW s \in DOMAIN bests
        PROVE  \/ s = d /\ bests[s] = Reached /\ (d \in DOMAIN best => IsBetter)
               \/ s = f /\ bests[s].predecessor = best[s].predecessor
               \/ s \in DOMAIN best /\ bests[s] = best[s]
    BY <1>0 DEF IsTurnOf
  <2>2. QED
    BY <1>1, <2>1, ReachedIs
<1>3. /\ \A t \in DOMAIN best : IsLinked(best, t) /\ best[t].distance \in Int /\ t \in fst.states
      /\ IsAcyclic(best) /\ None \notin fst.states
  BY DEF PriceInv, IInv, JobInv, BestInv, Bests
<1>4. NextDistance \in Int /\ NextDistance >= best[f].distance
  BY TurnCosts
<1>5. SUFFICES ASSUME NEW S \in SUBSET DOMAIN bests, S # {}, \A s \in S : bests[s].predecessor \in S
               PROVE  FALSE
  BY DEF IsAcyclic
<1>6. CASE \A s \in S : s \in DOMAIN best /\ bests[s].predecessor = best[s].predecessor
  BY <1>3, <1>5, <1>6 DEF IsAcyclic
<1>7. CASE d \in S /\ bests[d].predecessor = f /\ (d \in DOMAIN best => IsBetter)
  <2>1. PICK A : A = {x \in S : x \in DOMAIN best /\ best[x].distance <= best[f].distance}
    OBVIOUS
  <2>2. f \in A /\ A \in SUBSET DOMAIN best
    BY <1>1, <1>5, <1>7, <2>1
  <2>3. d \notin A
    <3>1. IsBetter => NextDistance < best[d].distance
      BY DEF IsBetter
    <3>2. QED
      BY <1>1, <1>3, <1>4, <1>7, <2>1, <3>1
  <2>4. ASSUME NEW x \in A
        PROVE  best[x].predecessor \in A
    <3>1. /\ x \in S /\ x \in DOMAIN best /\ best[x].distance <= best[f].distance
          /\ bests[x].predecessor = best[x].predecessor /\ bests[x].predecessor \in S
      BY <1>2, <1>5, <2>1, <2>3, <2>4
    <3>2. x # fst.start
      <4>1. \A s \in S : s # None
        BY <1>0, <1>3, <1>5 DEF IsTurnOf
      <4>2. QED
        BY <1>3, <3>1, <4>1 DEF IsLinked
    <3>3. PICK p \in DOMAIN best : \E k \in 1 .. Len(fst.arcs[p]) :
            /\ best[x].predecessor = p
            /\ best[p].distance + fst.arcs[p][k].cost <= best[x].distance
      BY <1>3, <3>1, <3>2 DEF IsLinked
    <3>4. PICK k \in 1 .. Len(fst.arcs[p]) :
            /\ best[x].predecessor = p
            /\ best[p].distance + fst.arcs[p][k].cost <= best[x].distance
      BY <3>3
    <3>5. fst.arcs[p][k].cost \in Int /\ fst.arcs[p][k].cost >= 0
      BY <1>3, ArcFacts DEF NoNegativeCost
    <3>6. best[p].distance \in Int /\ best[x].distance \in Int
      BY <1>3, <3>1
    <3>7. best[p].distance <= best[f].distance
      BY <1>1, <3>1, <3>4, <3>5, <3>6
    <3>8. QED
      BY <2>1, <3>1, <3>4, <3>7
  <2>5. QED
    BY <1>3, <2>2, <2>4 DEF IsAcyclic
<1>8. QED
  BY <1>2, <1>5, <1>6, <1>7

LEMMA NextKeepsPrices == IInv /\ WorkInv /\ PriceInv /\ [Next]_vars => PriceInv'
<1>. SUFFICES ASSUME IInv, WorkInv, PriceInv, [Next]_vars, phase' = "search", NoNegativeCost'
              PROVE  PriceInv'
  BY DEF PriceInv
<1>1. CASE Start
  <2>1. /\ DOMAIN best' = {fst.start} /\ best'[fst.start] = Seed
        /\ fst.start \in fst.states /\ fst' = fst /\ opt' = opt
    BY <1>1, StartWorks
  <2>2. /\ Seed.arcs = fst.arcs[fst.start] /\ Seed.distance = 0 /\ Seed.key = 0
        /\ Seed.predecessor = None
    BY DEF Seed
  <2>3. Len(fst.arcs[fst.start]) - Len(fst.arcs[fst.start]) = 0
    BY <2>1, FullRest
  <2>. HIDE DEF Seed
  <2>. PICK bests : bests = best'
    OBVIOUS
  <2>4. TakenBy(bests, fst.start) = 0
    BY <2>1, <2>2, <2>3 DEF TakenBy
  <2>5. \A s \in DOMAIN bests : IsPriced(bests, s) /\ IsLinked(bests, s)
    BY <2>1, <2>2, <2>4 DEF IsPriced, IsLinked
  <2>6. IsAcyclic(bests)
    BY <2>1, <2>2 DEF IsAcyclic, IInv, JobInv
  <2>7. QED
    BY <2>1, <2>5, <2>6 DEF PriceInv, IsPriced, IsLinked, IsAcyclic, TakenBy
<1>2. CASE (ReachNewState \/ ReachNoBetter \/ ImproveState) /\ phase = "search"
  <2>1. IsTurn(best', KeysOf(queue')) /\ fst' = fst /\ opt' = opt
    BY <1>2, TurnIsTaken DEF input
  <2>. PICK bests : bests = best'
    OBVIOUS
  <2>. PICK keys : keys = KeysOf(queue')
    OBVIOUS
  <2>2. NoNegativeCost
    BY <2>1 DEF NoNegativeCost
  <2>3. \A s \in DOMAIN bests : IsPriced(bests, s) /\ IsLinked(bests, s)
    BY <1>2, <2>1, <2>2, TurnPrices, TurnLinks
  <2>4. IsAcyclic(bests)
    BY <1>2, <2>1, <2>2, TurnIsAcyclic
  <2>5. QED
    BY <2>1, <2>3, <2>4 DEF PriceInv, IsPriced, IsLinked, IsAcyclic, TakenBy
<1>3. CASE PopState /\ phase = "search"
  <2>1. best' = best /\ fst' = fst /\ opt' = opt
    BY <1>3, PopStateFacts DEF PopState, input
  <2>2. NoNegativeCost
    BY <2>1 DEF NoNegativeCost
  <2>3. QED
    BY <1>3, <2>1, <2>2 DEF PriceInv, IsPriced, IsLinked, IsAcyclic, TakenBy
<1>4. CASE UNCHANGED vars
  <2>1. NoNegativeCost
    BY <1>4 DEF NoNegativeCost, vars, input
  <2>2. QED
    BY <1>4, <2>1 DEF vars, search, input, PriceInv, IsPriced, IsLinked, IsAcyclic, TakenBy
<1>5. QED
  BY <1>1, <1>2, <1>3, <1>4, NoTurn

LEMMA PriceInvHolds == Spec => [](IInv /\ WorkInv /\ PriceInv)
<1>1. Init => PriceInv
  BY DEF Init, LazyInit, PriceInv
<1>2. QED
  BY <1>1, WorkInvHolds, NextKeepsPrices, PTL DEF Spec

-----------------------------------------------------------------------------
(* The queue in order *)

LEMMA KeyBound ==
  ASSUME IInv, PriceInv, NoNegativeCost, phase = "search", NEW s \in DOMAIN best
  PROVE  /\ best[s].key \in Int /\ best[s].distance \in Int
         /\ best[s].key >= best[s].distance - opt.expandMoreArcs
<1>1. best[s].key \in Int /\ best[s].distance \in Int /\ opt.expandMoreArcs \in Nat
  BY DEF IInv, BestInv, Bests, JobInv
<1>2. IsPriced(best, s)
  BY DEF PriceInv
<1>3. CASE best[s].key = best[s].distance
  BY <1>1, <1>3
<1>4. CASE /\ TakenBy(best, s) > 0
           /\ best[s].key = (best[s].distance + fst.arcs[s][TakenBy(best, s)].cost)
                              - opt.expandMoreArcs
  <2>1. TakenBy(best, s) \in 1 .. TakenBy(best, s)
    BY <1>4, TakenType
  <2>2. fst.arcs[s][TakenBy(best, s)].cost \in Int /\ fst.arcs[s][TakenBy(best, s)].cost >= 0
    BY <2>1, TakenType DEF NoNegativeCost
  <2>3. \A a, b, c \in Int : b >= 0 => (a + b) - c >= a - c
    OBVIOUS
  <2>4. QED
    BY <1>1, <1>4, <2>2, <2>3
<1>5. QED
  BY <1>1, <1>2, <1>3, <1>4 DEF IsPriced

(* An improved state may move up from where it is: either it has become better
   for the queue too, or, with a margin, it is not at the top after adjust_top,
   which is the only place from which a state cannot move up in a queue of one
   level. *)
LEMMA ImproveMayUpdate ==
  ASSUME IInv, WorkInv, PriceInv, NoNegativeCost, phase = "search", ImproveState,
         NEW adjusted, adjusted = Adjusted(Taken), NextArc.dst \in KeysOf(queue),
         IsHeap(queue, KeyOf(best)), ~isQueuedTwice,
         opt.expandMoreArcs = 0 \/ Size(queue) <= Arity + 1
  PROVE  MayUpdate(adjusted, NextArc.dst, KeyOf(Taken), KeyOf(best'))
<1>. PICK f : f = Top(queue)
  OBVIOUS
<1>. PICK d : d = NextArc.dst
  OBVIOUS
<1>. PICK taken : taken = Taken
  OBVIOUS
<1>1. HasNextArc /\ IsBetter
  BY DEF ImproveState
<1>2. IsTurn(best', KeysOf(queue'))
  BY TurnIsTaken
<1>3. /\ DOMAIN best' = DOMAIN best /\ best'[d] = Reached /\ d \in DOMAIN best
      /\ \A s \in DOMAIN best : s # d => best'[s] = taken[s]
      /\ KeyOf(best') \in [fst.states -> Int] /\ fst' = fst
  BY ImproveStateFacts
<1>4. /\ DOMAIN taken = DOMAIN best /\ taken \in [DOMAIN best -> Bests]
      /\ taken[f].key = NextDistance - opt.expandMoreArcs /\ f \in DOMAIN best
      /\ \A s \in DOMAIN best : s # f => taken[s] = best[s]
  BY <1>1, TakenFacts
<1>5. d # f /\ NextDistance \in Int
  <2>. PICK bests : bests = best'
    OBVIOUS
  <2>. PICK keys : keys = KeysOf(queue')
    OBVIOUS
  <2>1. IsTurn(bests, keys)
    BY <1>2
  <2>2. QED
    BY <1>1, <1>3, <2>1, TurnCosts
<1>6. KeyOf(taken) \in [fst.states -> Int]
  BY <1>4, KeyOfType
<1>7. /\ adjusted \in Heaps(fst.states)
      /\ KeysOf(adjusted) = KeysOf(queue) /\ Size(adjusted) = Size(queue)
      /\ IsHeap(adjusted, KeyOf(taken))
  BY <1>1, AdjustedFacts
<1>8. DOMAIN best \subseteq fst.states
  BY DEF IInv, BestInv
<1>9. \A k \in fst.states : k # d => KeyOf(best')[k] = KeyOf(taken)[k]
  BY <1>3, <1>4 DEF KeyOf
<1>10. /\ KeyOf(best')[d] = NextDistance /\ KeyOf(taken)[d] = best[d].key
       /\ KeyOf(taken)[f] = NextDistance - opt.expandMoreArcs
  BY <1>3, <1>4, <1>5, <1>8, ReachedIs DEF KeyOf
<1>11. /\ best[d].key \in Int /\ best[d].distance \in Int /\ NextDistance < best[d].distance
       /\ best[d].key >= best[d].distance - opt.expandMoreArcs /\ opt.expandMoreArcs \in Nat
  BY <1>1, <1>3, KeyBound DEF IsBetter, IInv, JobInv
<1>12. CASE opt.expandMoreArcs = 0
  <2>1. KeyOf(best')[d] <= KeyOf(taken)[d]
    BY <1>5, <1>10, <1>11, <1>12
  <2>2. QED
    BY <1>3, <1>6, <1>7, <1>9, <2>1 DEF MayUpdate
<1>13. CASE Size(queue) <= Arity + 1
  <2>1. Size(adjusted) \in Nat
    BY <1>7, KeyAtType
  <2>2. IsFlat(adjusted)
    BY <1>7, <1>13, <2>1, SmallIsFlat
  <2>3. f \in KeysOf(adjusted)
    <3>1. Size(queue) > 0
      BY <1>1 DEF HasNextArc, IsExpanding
    <3>2. QED
      BY <1>7, <3>1, TopFacts
  <2>4. KeyOf(taken)[Top(adjusted)] <= KeyOf(taken)[f]
    BY <1>6, <1>7, <2>3, TopIsBest DEF KeysOf
  <2>5. ~ (KeyOf(taken)[d] <= KeyOf(taken)[f])
    BY <1>5, <1>10, <1>11
  <2>6. d # Top(adjusted)
    BY <2>4, <2>5
  <2>7. QED
    BY <1>3, <1>6, <1>7, <1>9, <2>2, <2>6 DEF MayUpdate
<1>14. QED
  BY <1>12, <1>13

LEMMA InputStays == [Next]_vars => fst' = fst /\ opt' = opt
BY DEF Next, LazyNext, Start, ReachNewState, ReachNoBetter, ImproveState, PopState, Arrive, GiveUp,
   StartSave, Visit, AddNextArc, Return, EndSave, input, vars

(* A state that was queued twice stays so for the history. *)
LEMMA StaysQueuedTwice == [Next]_vars /\ isQueuedTwice => isQueuedTwice'
BY DEF Next, LazyNext, Start, ReachNewState, ReachNoBetter, ImproveState, PopState, Arrive, GiveUp,
   StartSave, Visit, AddNextArc, Return, EndSave, search, vars

QueueOrder == NoNegativeCost => QueueIsHeap

LEMMA NextKeepsOrder == IInv /\ WorkInv /\ PriceInv /\ QueueOrder /\ [Next]_vars => QueueOrder'
<1>. SUFFICES ASSUME IInv, WorkInv, PriceInv, QueueOrder, [Next]_vars, NoNegativeCost',
                     phase' = "search", opt'.expandMoreArcs = 0 \/ Size(queue)' <= Arity + 1,
                     ~isQueuedTwice'
              PROVE  IsHeap(queue, KeyOf(best))' /\ KeysDiffer(queue)'
  BY DEF QueueOrder, QueueIsHeap
<1>0. fst' = fst
  BY InputStays
<1>. KeysDiffer(queue)'
  BY NextKeepsIInv DEF IInv, QueueInv, IsPlaced
<1>. ~isQueuedTwice
  BY StaysQueuedTwice
<1>. SUFFICES IsHeap(queue', KeyOf(best'))
  BY <1>0 DEF IsHeap, KeyOf, Size, KeyAt, Parent
<1>. opt'.expandMoreArcs = 0 \/ Size(queue') <= Arity + 1
  BY DEF Size
<1>1. CASE Start
  BY <1>1, StartWorks
<1>2. ASSUME phase = "search", NoNegativeCost,
             opt.expandMoreArcs = 0 \/ Size(queue) <= Arity + 1
      PROVE  IsHeap(queue, KeyOf(best))
  BY <1>2 DEF QueueOrder, QueueIsHeap
<1>3. CASE (ReachNewState \/ ReachNoBetter \/ ImproveState) /\ phase = "search"
  <2>1. fst' = fst /\ opt' = opt
    BY <1>3, TurnIsTaken DEF input
  <2>2. NoNegativeCost
    BY <2>1 DEF NoNegativeCost
  <2>3. Size(queue) \in Nat /\ HasNextArc
    <3>1. HasNextArc
      BY <1>3 DEF ReachNewState, ReachNoBetter, ImproveState
    <3>2. QED
      BY <3>1, TopFacts DEF HasNextArc, IsExpanding
  <2>4. Arity \in Nat
    BY ArityAssumption
  <2>5. CASE ReachNewState
    <3>1. /\ Size(queue') = Size(queue) + 1
          /\ IsHeap(queue, KeyOf(best)) => IsHeap(queue', KeyOf(best'))
      BY <2>5, ReachNewStateFacts
    <3>2. opt.expandMoreArcs = 0 \/ Size(queue) <= Arity + 1
      BY <2>1, <2>3, <2>4, <3>1
    <3>3. QED
      BY <1>2, <1>3, <2>2, <3>1, <3>2
  <2>6. CASE ReachNoBetter
    <3>1. /\ Size(queue') = Size(queue)
          /\ IsHeap(queue, KeyOf(best)) => IsHeap(queue', KeyOf(best'))
      BY <2>6, ReachNoBetterFacts
    <3>2. QED
      BY <1>2, <1>3, <2>1, <2>2, <3>1
  <2>7. CASE ImproveState
    <3>. PICK adjusted : adjusted = Adjusted(Taken)
      OBVIOUS
    <3>1. /\ NextArc.dst \in KeysOf(queue) => Size(queue') = Size(queue)
          /\ NextArc.dst \notin KeysOf(queue) => Size(queue') = Size(queue) + 1
          /\ NextArc.dst \in KeysOf(queue) /\ MayUpdate(adjusted, NextArc.dst, KeyOf(Taken), KeyOf(best'))
               => IsHeap(queue', KeyOf(best'))
          /\ NextArc.dst \notin KeysOf(queue) /\ IsHeap(adjusted, KeyOf(Taken))
               => IsHeap(queue', KeyOf(best'))
      BY <2>7, ImproveStateFacts
    <3>2. opt.expandMoreArcs = 0 \/ Size(queue) <= Arity + 1
      BY <2>1, <2>3, <2>4, <3>1
    <3>3. IsHeap(queue, KeyOf(best))
      BY <1>2, <1>3, <2>2, <3>2
    <3>4. IsHeap(adjusted, KeyOf(Taken))
      <4>. PICK taken : taken = Taken
        OBVIOUS
      <4>1. adjusted = Adjusted(taken)
        OBVIOUS
      <4>2. QED
        BY <2>3, <3>3, <4>1, AdjustedFacts
    <3>5. CASE NextArc.dst \in KeysOf(queue)
      <4>1. MayUpdate(adjusted, NextArc.dst, KeyOf(Taken), KeyOf(best'))
        BY <1>3, <2>2, <2>7, <3>2, <3>3, <3>5, ImproveMayUpdate
      <4>2. QED
        BY <3>1, <3>5, <4>1
    <3>6. CASE NextArc.dst \notin KeysOf(queue)
      BY <3>1, <3>4, <3>6
    <3>7. QED
      BY <3>5, <3>6
  <2>8. QED
    BY <1>3, <2>5, <2>6, <2>7
<1>4. CASE PopState /\ phase = "search"
  <2>1. /\ fst' = fst /\ opt' = opt /\ queue' \in Heaps(fst.states)
        /\ IsHeap(queue, KeyOf(best)) \/ IsFlat(queue') => IsHeap(queue', KeyOf(best'))
    BY <1>4, PopStateFacts DEF PopState, input
  <2>2. NoNegativeCost
    BY <2>1 DEF NoNegativeCost
  <2>3. CASE opt.expandMoreArcs = 0
    BY <1>2, <1>4, <2>1, <2>2, <2>3
  <2>4. CASE Size(queue') <= Arity + 1
    <3>. PICK popped : popped = queue'
      OBVIOUS
    <3>1. Size(popped) \in Nat
      BY <2>1, KeyAtType
    <3>2. IsFlat(popped)
      BY <2>4, <3>1, SmallIsFlat
    <3>3. QED
      BY <2>1, <3>2
  <2>5. QED
    BY <2>1, <2>3, <2>4
<1>5. CASE UNCHANGED vars
  <2>1. fst' = fst /\ opt' = opt /\ phase' = phase /\ best' = best /\ queue' = queue
    BY <1>5 DEF vars, input, search
  <2>2. KeyOf(best') = KeyOf(best) /\ NoNegativeCost
    BY <2>1 DEF KeyOf, NoNegativeCost
  <2>3. QED
    BY <2>1, <2>2 DEF QueueOrder, QueueIsHeap
<1>6. QED
  BY <1>1, <1>3, <1>4, <1>5, NoTurn

LEMMA QueueOrderHolds == Spec => [](IInv /\ WorkInv /\ PriceInv /\ QueueOrder)
<1>1. Init => QueueOrder
  BY DEF Init, LazyInit, QueueOrder, QueueIsHeap
<1>2. QED
  BY <1>1, PriceInvHolds, NextKeepsOrder, PTL DEF Spec

(* Until a state is queued twice, the queue is in order whenever the search looks
   at its top, of any transducer without negative costs: with no margin always,
   and with one as long as all but the top are leaves.  (LazyBest.hpp:290-315) *)
THEOREM QueueIsKept == Spec /\ []NoNegativeCost => []QueueIsHeap
<1>1. QueueOrder /\ NoNegativeCost => QueueIsHeap
  BY DEF QueueOrder
<1>2. QED
  BY <1>1, QueueOrderHolds, PTL

-----------------------------------------------------------------------------
(* What is settled *)

SettledIn(bests, keys, s) ==
  (\E t \in DOMAIN bests : bests[t].predecessor = s) \/ s \notin keys

(* A state that is settled is no farther from the start than any state that
   waits, so that no arc still to come can improve it. *)
AreSettledFirst(bests, keys) ==
  \A s \in DOMAIN bests : SettledIn(bests, keys, s) =>
    \A k \in keys : bests[s].distance <= bests[k].key

IsDijkstra ==
  NoNegativeCost /\ opt.expandMoreArcs = 0 /\ ArcsAreWithinMargin /\ ~isQueuedTwice
SettledInv == phase = "search" /\ IsDijkstra => AreSettledFirst(best, KeysOf(queue))

LEMMA SettledIs ==
  ASSUME IInv, phase = "search", NEW s
  PROVE  IsSettled(s) <=> SettledIn(best, KeysOf(queue), s)
<1>1. Range(queue.data) = KeysOf(queue)
  BY RangeIsKeys DEF IInv, QueueInv
<1>2. QED
  BY <1>1 DEF IsSettled, SettledIn

(* The state at the top waits for the least time of all, and no less than its
   distance. *)
LEMMA TopIsLeast ==
  ASSUME IInv, WorkInv, PriceInv, QueueOrder, phase = "search", Size(queue) > 0, IsDijkstra
  PROVE  /\ best[Top(queue)].distance <= best[Top(queue)].key
         /\ \A k \in KeysOf(queue) : best[Top(queue)].key <= best[k].key
<1>. PICK f : f = Top(queue)
  OBVIOUS
<1>1. /\ f \in DOMAIN best /\ KeysOf(queue) \subseteq DOMAIN best
      /\ KeyOf(best) \in [fst.states -> Int] /\ queue \in Heaps(fst.states)
  BY TopFacts
<1>2. NoNegativeCost /\ opt.expandMoreArcs = 0 /\ ~isQueuedTwice
  BY DEF IsDijkstra
<1>3. IsHeap(queue, KeyOf(best))
  BY <1>2 DEF QueueOrder, QueueIsHeap
<1>4. \A k \in KeysOf(queue) : KeyOf(best)[f] <= KeyOf(best)[k]
  BY <1>1, <1>3, TopIsBest DEF KeysOf
<1>5. \A s \in DOMAIN best : KeyOf(best)[s] = best[s].key
  BY DEF KeyOf, IInv, BestInv
<1>6. best[f].key \in Int /\ best[f].distance \in Int
      /\ best[f].key >= best[f].distance - opt.expandMoreArcs
  BY <1>1, <1>2, KeyBound
<1>7. best[f].distance <= best[f].key
  BY <1>2, <1>6
<1>8. QED
  BY <1>1, <1>4, <1>5, <1>7

(* The next arc comes no sooner than the last one. *)
LEMMA NextIsNoSooner ==
  ASSUME IInv, WorkInv, PriceInv, phase = "search", IsDijkstra,
         NEW bests, NEW keys, IsTurn(bests, keys)
  PROVE  NextDistance >= best[Top(queue)].key
<1>. PICK f : f = Top(queue)
  OBVIOUS
<1>. PICK d : d = NextArc.dst
  OBVIOUS
<1>. PICK n : n = TakenBy(best, f) + 1
  OBVIOUS
<1>0. IsTurnOf(bests, keys, f, d, n)
  BY TurnFacts
<1>. PICK all : all = fst.arcs[f]
  OBVIOUS
<1>1. /\ f \in DOMAIN best /\ f \in fst.states /\ best[f].distance \in Int /\ NextArc.cost \in Int
      /\ NextDistance = best[f].distance + NextArc.cost /\ NextArc = all[n]
      /\ n \in 1 .. Len(all) /\ n \in Nat /\ TakenBy(best, f) = n - 1
  BY <1>0 DEF IsTurnOf
<1>2. /\ opt.expandMoreArcs = 0 /\ NoNegativeCost /\ IsWithinMargin(all)
  BY <1>1 DEF IsDijkstra, ArcsAreWithinMargin
<1>3. /\ DOMAIN all = 1 .. Len(all) /\ Len(all) \in Nat
      /\ \A k \in 1 .. Len(all) : all[k].cost \in Int
  BY <1>1, ArcFacts
<1>4. IsPriced(best, f) /\ best[f].key \in Int
  BY <1>1, <1>2 DEF PriceInv, IInv, BestInv, Bests
<1>5. CASE TakenBy(best, f) = 0 /\ best[f].key = best[f].distance
  <2>1. NextArc.cost >= 0
    BY <1>1, <1>2 DEF NoNegativeCost
  <2>2. QED
    BY <1>1, <1>5, <2>1
<1>6. CASE /\ TakenBy(best, f) > 0
           /\ best[f].key = (best[f].distance + all[TakenBy(best, f)].cost) - opt.expandMoreArcs
  <2>1. n - 1 \in 1 .. n /\ n - 1 \in 1 .. Len(all)
    BY <1>1, <1>3, <1>6
  <2>2. all[n].cost >= all[n - 1].cost - 0
    BY <1>1, <1>2, <1>3, <2>1 DEF IsWithinMargin
  <2>3. best[f].key = (best[f].distance + all[n - 1].cost) - 0
    BY <1>1, <1>2, <1>6
  <2>4. all[n - 1].cost \in Int /\ all[n].cost = NextArc.cost
    BY <1>1, <1>3, <2>1
  <2>5. PICK x, y, z : x = best[f].distance /\ y = all[n - 1].cost /\ z = NextArc.cost
    OBVIOUS
  <2>6. x \in Int /\ y \in Int /\ z \in Int
    BY <1>1, <2>4, <2>5
  <2>7. z >= y - 0
    BY <2>2, <2>4, <2>5
  <2>8. x + z >= (x + y) - 0
    BY <2>6, <2>7
  <2>9. NextDistance = x + z /\ best[f].key = (x + y) - 0
    BY <1>1, <2>3, <2>5
  <2>10. QED
    BY <2>8, <2>9
<1>7. QED
  BY <1>4, <1>5, <1>6 DEF IsPriced

LEMMA SettledIsNotImproved ==
  ASSUME IInv, WorkInv, PriceInv, QueueOrder, SettledInv, phase = "search", IsDijkstra,
         NEW bests, NEW keys, IsTurn(bests, keys),
         NextArc.dst \in DOMAIN best, SettledIn(best, KeysOf(queue), NextArc.dst)
  PROVE  ~IsBetter
<1>. PICK f : f = Top(queue)
  OBVIOUS
<1>. PICK d : d = NextArc.dst
  OBVIOUS
<1>1. HasNextArc /\ Size(queue) > 0
  BY DEF IsTurn, HasNextArc, IsExpanding
<1>2. f \in KeysOf(queue) /\ f \in DOMAIN best
  BY <1>1, TopFacts
<1>3. best[d].distance <= best[f].key
  BY <1>2 DEF SettledInv, AreSettledFirst
<1>4. NextDistance >= best[f].key
  BY NextIsNoSooner
<1>5. NextDistance \in Int /\ best[d].distance \in Int /\ best[f].key \in Int
  BY <1>1, <1>2, TakenFacts DEF IInv, BestInv, Bests
<1>6. QED
  BY <1>3, <1>4, <1>5 DEF IsBetter

LEMMA TurnKeepsSettled ==
  ASSUME IInv, WorkInv, PriceInv, QueueOrder, SettledInv, phase = "search", IsDijkstra,
         NEW bests, NEW keys, IsTurn(bests, keys)
  PROVE  /\ AreSettledFirst(bests, keys)
         /\ \A s \in DOMAIN best :
              SettledIn(best, KeysOf(queue), s) => bests[s].distance = best[s].distance
<1>. PICK f : f = Top(queue)
  OBVIOUS
<1>. PICK d : d = NextArc.dst
  OBVIOUS
<1>. PICK n : n = TakenBy(best, f) + 1
  OBVIOUS
<1>. PICK old : old = KeysOf(queue)
  OBVIOUS
<1>0. IsTurnOf(bests, keys, f, d, n)
  BY TurnFacts
<1>1. /\ f \in DOMAIN best /\ f \in old /\ DOMAIN bests = DOMAIN best \cup {d}
      /\ DOMAIN best \subseteq fst.states
  BY <1>0 DEF IsTurnOf
<1>2. /\ HasNextArc /\ Size(queue) > 0 /\ old \subseteq keys
      /\ \A k \in keys : k \in old \/ (k = d /\ bests[k] = Reached)
  BY DEF IsTurn, HasNextArc, IsExpanding
<1>3. opt.expandMoreArcs = 0 /\ NoNegativeCost /\ None \notin fst.states
  BY DEF IsDijkstra, IInv, JobInv
<1>4. old \subseteq DOMAIN best
  BY <1>2, TopFacts
<1>5. /\ \A s \in DOMAIN best : best[s].distance \in Int /\ best[s].key \in Int
      /\ NextDistance \in Int
  BY <1>2, TakenFacts DEF IInv, BestInv, Bests
<1>6. /\ best[f].distance <= best[f].key /\ NextDistance >= best[f].key
      /\ \A k \in old : best[f].key <= best[k].key
  BY <1>2, TopIsLeast, NextIsNoSooner
<1>7. d \in DOMAIN best /\ SettledIn(best, old, d) => ~IsBetter
  BY SettledIsNotImproved
<1>8. d \in DOMAIN best /\ IsBetter => d # f
  BY <1>3, TurnCosts
<1>9. ASSUME NEW s \in DOMAIN bests
      PROVE  \/ /\ s = d /\ (d \in DOMAIN best => IsBetter) /\ d \in keys
                /\ bests[s].predecessor = f /\ bests[s].distance = NextDistance
                /\ bests[s].key = NextDistance
             \/ /\ s \in DOMAIN best /\ bests[s].predecessor = best[s].predecessor
                /\ bests[s].distance = best[s].distance
                /\ bests[s].key = NextDistance \/ bests[s].key = best[s].key
  <2>1. \/ s = d /\ bests[s] = Reached /\ d \in keys /\ (d \in DOMAIN best => IsBetter)
        \/ /\ s = f /\ bests[s].key = NextDistance - opt.expandMoreArcs
           /\ bests[s].distance = best[s].distance /\ bests[s].predecessor = best[s].predecessor
        \/ s \in DOMAIN best /\ bests[s] = best[s]
    BY <1>0 DEF IsTurnOf
  <2>2. NextDistance - opt.expandMoreArcs = NextDistance
    BY <1>3, <1>5
  <2>. HIDE DEF Reached, NextDistance
  <2>3. QED
    BY <1>1, <2>1, <2>2, ReachedIs
<1>. HIDE DEF Reached, NextDistance
<1>10. ASSUME NEW k \in keys
       PROVE  best[f].key <= bests[k].key /\ bests[k].key \in Int /\ best[f].key \in Int
  <2>1. k \in old \/ bests[k].key = NextDistance
    BY <1>2, ReachedIs
  <2>2. k \in old => k \in DOMAIN bests
    BY <1>1, <1>4
  <2>3. k \in old => bests[k].key = NextDistance \/ bests[k].key = best[k].key
    BY <1>9, <2>2
  <2>4. QED
    BY <1>1, <1>4, <1>5, <1>6, <2>1, <2>3
<1>11. ASSUME NEW s \in DOMAIN best, SettledIn(best, old, s)
       PROVE  bests[s].distance = best[s].distance /\ best[s].distance <= best[f].key
  <2>1. best[s].distance <= best[f].key
    BY <1>1, <1>11 DEF SettledInv, AreSettledFirst
  <2>2. s = d => ~IsBetter
    BY <1>7, <1>11
  <2>3. QED
    BY <1>1, <1>9, <2>1, <2>2
<1>12. ASSUME NEW s \in DOMAIN bests, SettledIn(bests, keys, s)
       PROVE  bests[s].distance <= best[f].key /\ bests[s].distance \in Int
  <2>1. CASE s \in DOMAIN best /\ SettledIn(best, old, s)
    BY <1>5, <1>11, <2>1
  <2>2. CASE s \notin keys
    <3>1. s \in DOMAIN best /\ s \notin old
      BY <1>2, <1>9, <2>2
    <3>2. QED
      BY <2>1, <3>1 DEF SettledIn
  <2>3. ASSUME NEW t \in DOMAIN bests, bests[t].predecessor = s
        PROVE  s = f \/ (s \in DOMAIN best /\ SettledIn(best, old, s))
    <3>1. s # None
      BY <1>0, <1>1, <1>3 DEF IsTurnOf
    <3>2. t \in DOMAIN best /\ best[t].predecessor = s => s \in DOMAIN best
      BY <3>1 DEF IInv, BestInv
    <3>3. QED
      BY <1>9, <2>3, <3>2 DEF SettledIn
  <2>4. CASE s = f
    <3>1. bests[f].distance = best[f].distance
      BY <1>1, <1>8, <1>9
    <3>2. QED
      BY <1>1, <1>5, <1>6, <2>4, <3>1
  <2>5. QED
    BY <1>12, <2>1, <2>2, <2>3, <2>4 DEF SettledIn
<1>13. AreSettledFirst(bests, keys)
  <2>1. ASSUME NEW s \in DOMAIN bests, SettledIn(bests, keys, s), NEW k \in keys
        PROVE  bests[s].distance <= bests[k].key
    BY <1>10, <1>12, <2>1
  <2>2. QED
    BY <2>1 DEF AreSettledFirst
<1>14. QED
  BY <1>11, <1>13

LEMMA PopKeepsSettled ==
  ASSUME IInv, WorkInv, PriceInv, QueueOrder, SettledInv, PopState, IsDijkstra
  PROVE  AreSettledFirst(best, KeysOf(queue'))
<1>. PICK f : f = Top(queue)
  OBVIOUS
<1>1. phase = "search" /\ Size(queue) > 0
  BY DEF PopState, IsExpanding
<1>2. KeysOf(queue') = KeysOf(queue) \ {f}
  BY PopStateFacts DEF IsDijkstra
<1>3. /\ best[f].distance <= best[f].key
      /\ \A k \in KeysOf(queue) : best[f].key <= best[k].key
      /\ f \in DOMAIN best /\ KeysOf(queue) \subseteq DOMAIN best
  BY <1>1, TopIsLeast, TopFacts
<1>4. \A s \in DOMAIN best : best[s].distance \in Int /\ best[s].key \in Int
  BY DEF IInv, BestInv, Bests
<1>5. ASSUME NEW s \in DOMAIN best, SettledIn(best, KeysOf(queue'), s), NEW k \in KeysOf(queue')
      PROVE  best[s].distance <= best[k].key
  <2>1. SettledIn(best, KeysOf(queue), s) \/ s = f
    BY <1>2, <1>5 DEF SettledIn
  <2>2. k \in KeysOf(queue) /\ AreSettledFirst(best, KeysOf(queue))
    BY <1>1, <1>2 DEF SettledInv
  <2>3. QED
    BY <1>3, <1>4, <2>1, <2>2 DEF AreSettledFirst
<1>6. QED
  BY <1>5 DEF AreSettledFirst

LEMMA NextKeepsSettled ==
  IInv /\ WorkInv /\ PriceInv /\ QueueOrder /\ SettledInv /\ [Next]_vars => SettledInv'
<1>. SUFFICES ASSUME IInv, WorkInv, PriceInv, QueueOrder, SettledInv, [Next]_vars,
                     phase' = "search", IsDijkstra'
              PROVE  AreSettledFirst(best, KeysOf(queue))'
  BY DEF SettledInv
<1>0. fst' = fst /\ opt' = opt
  BY InputStays
<1>. SUFFICES AreSettledFirst(best', KeysOf(queue'))
  BY DEF AreSettledFirst, SettledIn, KeysOf, Places, KeyAt, Size
<1>1. ASSUME DOMAIN best \subseteq DOMAIN best'
      PROVE  IsDijkstra
  BY <1>0, <1>1, StaysQueuedTwice
     DEF IsDijkstra, NoNegativeCost, ArcsAreWithinMargin, IsWithinMargin
<1>2. CASE Start
  <2>1. DOMAIN best' = {fst.start} /\ best'[fst.start] = Seed /\ KeysOf(queue') = {fst.start}
    BY <1>2, StartWorks
  <2>2. Seed.distance = 0 /\ Seed.key = 0
    BY DEF Seed
  <2>. HIDE DEF Seed
  <2>. PICK bests : bests = best'
    OBVIOUS
  <2>. PICK keys : keys = KeysOf(queue')
    OBVIOUS
  <2>3. QED
    BY <2>1, <2>2 DEF AreSettledFirst
<1>3. CASE (ReachNewState \/ ReachNoBetter \/ ImproveState) /\ phase = "search"
  <2>. PICK bests : bests = best'
    OBVIOUS
  <2>. PICK keys : keys = KeysOf(queue')
    OBVIOUS
  <2>1. IsTurn(bests, keys)
    BY <1>3, TurnIsTaken
  <2>2. IsDijkstra
    BY <1>1, <2>1 DEF IsTurn
  <2>3. QED
    BY <1>3, <2>1, <2>2, TurnKeepsSettled
<1>4. CASE PopState /\ phase = "search"
  <2>1. best' = best
    BY <1>4, PopStateFacts
  <2>2. QED
    BY <1>1, <1>4, <2>1, PopKeepsSettled
<1>5. CASE UNCHANGED vars
  <2>1. best' = best /\ queue' = queue /\ phase' = phase
    BY <1>5 DEF vars, search
  <2>2. QED
    BY <1>1, <2>1 DEF SettledInv
<1>6. QED
  BY <1>2, <1>3, <1>4, <1>5, NoTurn

LEMMA SettledInvHolds == Spec => [](IInv /\ WorkInv /\ PriceInv /\ QueueOrder /\ SettledInv)
<1>1. Init => SettledInv
  BY DEF Init, LazyInit, SettledInv
<1>2. QED
  BY <1>1, QueueOrderHolds, NextKeepsSettled, PTL DEF Spec

(* No step changes the distance of a state that is settled, in any transducer
   whose arcs come best-first and cost nothing negative, until a state is queued
   twice: what has already been derived from the distance stays true.
   (LazyBest.hpp:290-315) *)
THEOREM SettledStates == Spec /\ []NoNegativeCost => SettledStays
<1>1. ASSUME IInv, WorkInv, PriceInv, QueueOrder, SettledInv, NoNegativeCost, [Next]_vars,
             NEW s \in DOMAIN best, IsSettled(s), best'[s].distance # best[s].distance,
             opt.expandMoreArcs = 0, ArcsAreWithinMargin, ~isQueuedTwice'
      PROVE  FALSE
  <2>. PICK bests : bests = best'
    OBVIOUS
  <2>. PICK keys : keys = KeysOf(queue')
    OBVIOUS
  <2>1. ReachNewState \/ ReachNoBetter \/ ImproveState
    <3>1. phase = "start" => DOMAIN best = {}
      <4>1. phase = "start" => best = <<>>
        BY <1>1 DEF IInv, PhaseInv
      <4>2. DOMAIN <<>> = {}
        BY EmptyFunction
      <4>3. QED
        BY <4>1, <4>2
    <3>2. best' # best
      BY <1>1
    <3>3. QED
      BY <1>1, <3>1, <3>2 DEF Next, LazyNext, Start, PopState, Arrive, GiveUp, StartSave, Visit, AddNextArc,
         Return, EndSave, vars, search
  <2>2. IsTurn(bests, keys) /\ phase = "search"
    BY <1>1, <2>1, TurnIsTaken
  <2>3. IsDijkstra /\ SettledIn(best, KeysOf(queue), s)
    BY <1>1, <2>2, SettledIs, StaysQueuedTwice DEF IsDijkstra
  <2>4. bests[s].distance = best[s].distance
    BY <1>1, <2>2, <2>3, TurnKeepsSettled
  <2>5. QED
    BY <1>1, <2>4
<1>2. IInv /\ WorkInv /\ PriceInv /\ QueueOrder /\ SettledInv /\ NoNegativeCost /\ [Next]_vars =>
        [\A s \in DOMAIN best :
           IsSettled(s) /\ best'[s].distance # best[s].distance
             => opt.expandMoreArcs > 0 \/ ~ArcsAreWithinMargin \/ isQueuedTwice'
        ]_<<input, phase, search, outHg>>
  <2>1. IInv => opt.expandMoreArcs \in Nat
    BY DEF IInv, JobInv
  <2>2. QED
    BY <1>1, <2>1
<1>3. QED
  BY <1>2, SettledInvHolds, PTL DEF SettledStays, Spec

-----------------------------------------------------------------------------
(* Walks: sequences of arcs of the transducer, each out of the state the one
   before leads to *)

After(s, w, i) == IF i = 0 THEN s ELSE w[i].dst
IsWalkFrom(s, w) ==
  /\ w \in Seq(Arcs)
  /\ \A i \in 1 .. Len(w) :
       \E k \in 1 .. Len(fst.arcs[After(s, w, i - 1)]) : w[i] = fst.arcs[After(s, w, i - 1)][k]

(* The walks from the start state to a final one, among which the search is for
   one of the least cost *)
IsSolution(w) == IsWalkFrom(fst.start, w) /\ After(fst.start, w, Len(w)) \in fst.finals
CostOf(w) ==
  LET cost[n \in 0 .. Len(w)] == IF n = 0 THEN 0 ELSE cost[n - 1] + w[n].cost
  IN  cost[Len(w)]
IsBestSolution(w) == IsSolution(w) /\ \A v : IsSolution(v) => CostOf(w) <= CostOf(v)

IsRunningCost(w, c) ==
  /\ c \in [0 .. Len(w) -> Int] /\ c[0] = 0
  /\ \A n \in 1 .. Len(w) : c[n] = c[n - 1] + w[n].cost

LEMMA CostRuns ==
  ASSUME NEW w \in Seq(Arcs)
  PROVE  \E c : IsRunningCost(w, c) /\ CostOf(w) = c[Len(w)]
<1>. DEFINE N == Len(w)
            step == [x \in (1 .. N) \X Int |-> x[2] + w[x[1]].cost]
            IsCost(f) == f = [n \in 0 .. N |-> IF n = 0 THEN 0 ELSE f[n - 1] + w[n].cost]
            cost == CHOOSE f : IsCost(f)
<1>1. N \in Nat /\ CostOf(w) = cost[N]
  BY DEF CostOf
<1>2. \A n \in 1 .. N : w[n].cost \in Int
  <2>1. \A n \in 1 .. N : w[n] \in Arcs
    OBVIOUS
  <2>2. \A a \in Arcs : a.cost \in Int
    BY DEF Arcs, ArcsTo
  <2>3. QED
    BY <2>1, <2>2
<1>3. step \in [(1 .. N) \X Int -> Int]
  BY <1>2
<1>4. \A n \in 1 .. N, x \in Int : step[<<n, x>>] = x + w[n].cost
  OBVIOUS
<1>. HIDE DEF N, step
<1>5. PICK f \in [0 .. N -> Int] : f[0] = 0 /\ \A n \in 1 .. N : f[n] = step[<<n, f[n - 1]>>]
  <2>1. IsCount(Int, N, 0, step)
    BY <1>1, <1>3 DEF IsCount
  <2>2. QED
    BY <2>1, ForExists
<1>6. IsCost(f)
  <2>1. \A n \in 1 .. N : n - 1 \in 0 .. N
    BY <1>1
  <2>2. \A n \in 1 .. N : f[n] = f[n - 1] + w[n].cost
    BY <1>4, <1>5, <2>1
  <2>3. \A n \in 0 .. N : n = 0 \/ n \in 1 .. N
    BY <1>1
  <2>4. QED
    BY <1>5, <2>2, <2>3
<1>7. IsCost(cost)
  <2>. HIDE DEF IsCost
  <2>1. QED
    BY <1>6
<1>. HIDE DEF cost
<1>8. cost[0] = 0 /\ \A n \in 1 .. N : cost[n] = cost[n - 1] + w[n].cost
  BY <1>1, <1>7
<1>. DEFINE Inv == [n \in 0 .. N |-> Int]
<1>9. /\ \A n \in 0 .. N : Inv[n] = Int
      /\ \A n \in 1 .. N : n \in 0 .. N /\ n - 1 \in 0 .. N
      /\ 0 \in 0 .. N /\ N \in 0 .. N
  BY <1>1
<1>. HIDE DEF Inv
<1>10. ASSUME NEW n \in 1 .. N, cost[n - 1] \in Inv[n - 1]
       PROVE  cost[n] \in Inv[n]
  <2>1. PICK before, turn : before = cost[n - 1] /\ turn = w[n].cost
    OBVIOUS
  <2>2. cost[n] = before + turn
    BY <1>8, <2>1
  <2>3. Inv[n - 1] = Int /\ Inv[n] = Int
    BY <1>9
  <2>4. before \in Int
    BY <1>10, <2>1, <2>3
  <2>5. turn \in Int
    BY <1>2, <2>1
  <2>6. QED
    BY <2>2, <2>3, <2>4, <2>5
<1>11. cost[0] \in Inv[0]
  BY <1>8, <1>9
<1>12. \A n \in 0 .. N : cost[n] \in Inv[n]
  BY <1>1, <1>10, <1>11, ForKeeps
<1>13. cost \in [0 .. N -> Int]
  BY <1>7, <1>9, <1>12
<1>14. IsRunningCost(w, cost)
  BY <1>8, <1>13 DEF IsRunningCost, N
<1>15. QED
  BY <1>1, <1>14 DEF N

LEMMA RunningCostIs ==
  ASSUME NEW w \in Seq(Arcs), NEW c, IsRunningCost(w, c)
  PROVE  CostOf(w) = c[Len(w)] /\ CostOf(w) \in Int
<1>. PICK N : N = Len(w)
  OBVIOUS
<1>1. PICK e : IsRunningCost(w, e) /\ CostOf(w) = e[N]
  BY CostRuns
<1>2. N \in Nat
  OBVIOUS
<1>3. /\ c[0] = 0 /\ \A n \in 1 .. N : c[n] = c[n - 1] + w[n].cost
      /\ e[0] = 0 /\ \A n \in 1 .. N : e[n] = e[n - 1] + w[n].cost
      /\ e \in [0 .. N -> Int]
  BY <1>1 DEF IsRunningCost
<1>. DEFINE Inv == [n \in 0 .. N |-> {e[n]}]
<1>4. /\ \A n \in 0 .. N : Inv[n] = {e[n]}
      /\ \A n \in 1 .. N : n \in 0 .. N /\ n - 1 \in 0 .. N
      /\ 0 \in 0 .. N /\ N \in 0 .. N
  BY <1>2
<1>. HIDE DEF Inv
<1>5. \A n \in 1 .. N : c[n - 1] \in Inv[n - 1] => c[n] \in Inv[n]
  BY <1>3, <1>4
<1>6. c[0] \in Inv[0]
  BY <1>3, <1>4
<1>7. \A n \in 0 .. N : c[n] \in Inv[n]
  BY <1>2, <1>5, <1>6, ForKeeps
<1>8. QED
  BY <1>1, <1>3, <1>4, <1>7

LEMMA EmptyWalk ==
  ASSUME IInv, NEW s
  PROVE  IsWalkFrom(s, <<>>) /\ After(s, <<>>, Len(<<>>)) = s /\ IsRunningCost(<<>>, [n \in 0 .. 0 |-> 0])
<1>. PICK w : w = <<>>
  OBVIOUS
<1>1. w \in Seq(Arcs) /\ Len(w) = 0
  OBVIOUS
<1>2. 1 .. 0 = {}
  OBVIOUS
<1>. PICK c : c = [n \in 0 .. 0 |-> 0]
  OBVIOUS
<1>3. c \in [0 .. 0 -> Int] /\ c[0] = 0
  OBVIOUS
<1>4. QED
  BY <1>1, <1>2, <1>3 DEF IsWalkFrom, After, IsRunningCost

(* A walk with an arc put before it *)
LEMMA LongerWalk ==
  ASSUME IInv, NEW s \in fst.states, NEW k \in 1 .. Len(fst.arcs[s]), NEW a, a = fst.arcs[s][k],
         NEW w, IsWalkFrom(a.dst, w), NEW c, IsRunningCost(w, c)
  PROVE  \E e : /\ IsWalkFrom(s, <<a>> \o w) /\ IsRunningCost(<<a>> \o w, e)
                /\ After(s, <<a>> \o w, Len(<<a>> \o w)) = After(a.dst, w, Len(w))
                /\ e[Len(<<a>> \o w)] = a.cost + c[Len(w)] /\ c[Len(w)] \in Int
<1>. PICK N : N = Len(w)
  OBVIOUS
<1>. PICK v : v = <<a>> \o w
  OBVIOUS
<1>1. a \in Arcs /\ a.cost \in Int /\ a.dst \in fst.states
  <2>1. fst.arcs[s] \in Seq(Arcs) /\ a.cost \in Int /\ a.dst \in fst.states
    BY ArcFacts
  <2>2. QED
    BY <2>1
<1>2. w \in Seq(Arcs) /\ N \in Nat
  BY DEF IsWalkFrom
<1>3. /\ v \in Seq(Arcs) /\ Len(v) = N + 1 /\ v[1] = a
      /\ \A i \in 1 .. N : v[i + 1] = w[i]
  BY <1>1, <1>2
<1>4. \A i \in 1 .. N + 1 : i = 1 \/ (i - 1 \in 1 .. N /\ (i - 1) + 1 = i /\ i # 1 /\ i # 0)
  BY <1>2
<1>5. /\ After(s, v, 0) = s
      /\ \A i \in 0 .. N : After(s, v, i + 1) = After(a.dst, w, i)
  <2>1. ASSUME NEW i \in 0 .. N
        PROVE  After(s, v, i + 1) = After(a.dst, w, i)
    <3>1. CASE i = 0
      BY <1>3, <3>1 DEF After
    <3>2. CASE i # 0
      <4>1. i \in 1 .. N /\ i + 1 # 0
        BY <1>2, <3>2
      <4>2. QED
        BY <1>3, <3>2, <4>1 DEF After
    <3>3. QED
      BY <3>1, <3>2
  <2>2. QED
    BY <2>1 DEF After
<1>6. IsWalkFrom(s, v)
  <2>1. ASSUME NEW i \in 1 .. N + 1
        PROVE  \E j \in 1 .. Len(fst.arcs[After(s, v, i - 1)]) : v[i] = fst.arcs[After(s, v, i - 1)][j]
    <3>1. CASE i = 1
      <4>1. i - 1 = 0
        BY <3>1
      <4>2. QED
        BY <1>3, <1>5, <3>1, <4>1
    <3>2. CASE i # 1
      <4>. PICK h : h = i - 1
        OBVIOUS
      <4>1. h \in 1 .. N /\ h + 1 = i /\ h - 1 \in 0 .. N /\ (h - 1) + 1 = h
        BY <1>2, <1>4, <3>2
      <4>2. \E j \in 1 .. Len(fst.arcs[After(a.dst, w, h - 1)]) : w[h] = fst.arcs[After(a.dst, w, h - 1)][j]
        BY <4>1 DEF IsWalkFrom
      <4>3. After(s, v, h) = After(a.dst, w, h - 1) /\ v[i] = w[h]
        BY <1>3, <1>5, <4>1
      <4>4. QED
        BY <4>2, <4>3
    <3>3. QED
      BY <3>1, <3>2
  <2>2. \A i \in 1 .. Len(v) :
          \E j \in 1 .. Len(fst.arcs[After(s, v, i - 1)]) : v[i] = fst.arcs[After(s, v, i - 1)][j]
    <3>1. \A i \in 1 .. Len(v) : i \in 1 .. N + 1
      BY <1>3
    <3>2. QED
      BY <2>1, <3>1
  <2>3. QED
    BY <1>3, <2>2, Zenon DEF IsWalkFrom
<1>. PICK e : e = [n \in 0 .. N + 1 |-> IF n = 0 THEN 0 ELSE a.cost + c[n - 1]]
  OBVIOUS
<1>7. /\ c \in [0 .. N -> Int] /\ c[0] = 0
      /\ \A n \in 1 .. N : c[n] = c[n - 1] + w[n].cost
  BY DEF IsRunningCost
<1>8. e \in [0 .. N + 1 -> Int] /\ e[0] = 0 /\ \A n \in 0 .. N : e[n + 1] = a.cost + c[n]
  <2>1. \A n \in 0 .. N + 1 : n = 0 \/ (n - 1 \in 0 .. N)
    BY <1>2
  <2>2. \A n \in 0 .. N : n + 1 \in 0 .. N + 1 /\ n + 1 # 0 /\ (n + 1) - 1 = n
    BY <1>2
  <2>3. \A n \in 0 .. N + 1 : (IF n = 0 THEN 0 ELSE a.cost + c[n - 1]) \in Int
    <3>1. \A n \in 0 .. N : c[n] \in Int
      BY <1>7
    <3>2. \A n \in 0 .. N : a.cost + c[n] \in Int
      BY <1>1, <3>1
    <3>3. QED
      BY <2>1, <3>2
  <2>4. 0 \in 0 .. N + 1
    BY <1>2
  <2>5. QED
    BY <2>2, <2>3, <2>4
<1>9. ASSUME NEW n \in 1 .. N + 1
      PROVE  e[n] = e[n - 1] + v[n].cost
  <2>1. CASE n = 1
    <3>1. e[0 + 1] = a.cost + c[0] /\ n - 1 = 0 /\ n = 0 + 1
      BY <1>2, <1>8, <2>1
    <3>2. e[n] = a.cost + 0 /\ e[n - 1] = 0 /\ v[n].cost = a.cost
      BY <1>3, <1>7, <1>8, <2>1, <3>1
    <3>3. QED
      BY <1>1, <3>2
  <2>2. CASE n # 1
    <3>. PICK h : h = n - 1
      OBVIOUS
    <3>1. h \in 1 .. N /\ h + 1 = n /\ h \in 0 .. N /\ h - 1 \in 0 .. N /\ (h - 1) + 1 = h
      BY <1>2, <1>4, <2>2
    <3>2. e[h + 1] = a.cost + c[h] /\ e[(h - 1) + 1] = a.cost + c[h - 1]
          /\ v[h + 1] = w[h] /\ c[h] = c[h - 1] + w[h].cost
      BY <1>3, <1>7, <1>8, <3>1
    <3>3. e[n] = a.cost + c[h] /\ e[n - 1] = a.cost + c[h - 1] /\ v[n] = w[h]
      BY <3>1, <3>2
    <3>4. w[h].cost \in Int /\ c[h - 1] \in Int
      <4>1. w[h] \in Arcs
        BY <1>2, <3>1
      <4>2. QED
        BY <1>7, <3>1, <4>1 DEF Arcs, ArcsTo
    <3>5. \A x, y, z \in Int : x + (y + z) = (x + y) + z
      OBVIOUS
    <3>6. e[n] = a.cost + (c[h - 1] + w[h].cost)
      BY <3>2, <3>3, Zenon
    <3>7. e[n - 1] + v[n].cost = (a.cost + c[h - 1]) + w[h].cost
      BY <3>3, Zenon
    <3>8. a.cost + (c[h - 1] + w[h].cost) = (a.cost + c[h - 1]) + w[h].cost
      BY <1>1, <3>4, <3>5
    <3>9. QED
      BY <3>6, <3>7, <3>8, Zenon
  <2>3. QED
    BY <2>1, <2>2
<1>10. IsRunningCost(v, e)
  BY <1>3, <1>8, <1>9 DEF IsRunningCost
<1>11. /\ After(s, v, Len(v)) = After(a.dst, w, N) /\ e[Len(v)] = a.cost + c[N]
       /\ c[N] \in Int
  <2>1. N \in 0 .. N
    BY <1>2
  <2>2. QED
    BY <1>3, <1>5, <1>7, <1>8, <2>1
<1>12. QED
  BY <1>6, <1>10, <1>11

LEMMA WalkStates ==
  ASSUME IInv, NEW w, IsWalkFrom(fst.start, w)
  PROVE  /\ w \in Seq(Arcs) /\ Len(w) \in Nat
         /\ \A i \in 0 .. Len(w) : After(fst.start, w, i) \in fst.states
         /\ \A i \in 0 .. Len(w) - 1 :
              \E k \in 1 .. Len(fst.arcs[After(fst.start, w, i)]) :
                /\ w[i + 1] = fst.arcs[After(fst.start, w, i)][k]
                /\ After(fst.start, w, i + 1) = fst.arcs[After(fst.start, w, i)][k].dst
<1>. PICK N : N = Len(w)
  OBVIOUS
<1>1. w \in Seq(Arcs) /\ N \in Nat
  BY DEF IsWalkFrom
<1>2. \A i \in 1 .. N : w[i] \in Arcs
  BY <1>1
<1>3. \A a \in Arcs : a.dst \in fst.states
  BY DEF Arcs, ArcsTo
<1>4. fst.start \in fst.states
  BY StartArcs DEF IInv
<1>5. \A i \in 0 .. N : i = 0 \/ i \in 1 .. N
  BY <1>1
<1>6. \A i \in 0 .. N : After(fst.start, w, i) \in fst.states
  BY <1>2, <1>3, <1>4, <1>5 DEF After
<1>7. ASSUME NEW i \in 0 .. N - 1
      PROVE  \E k \in 1 .. Len(fst.arcs[After(fst.start, w, i)]) :
               /\ w[i + 1] = fst.arcs[After(fst.start, w, i)][k]
               /\ After(fst.start, w, i + 1) = fst.arcs[After(fst.start, w, i)][k].dst
  <2>1. i + 1 \in 1 .. N /\ (i + 1) - 1 = i /\ i + 1 # 0
    BY <1>1
  <2>2. After(fst.start, w, i + 1) = w[i + 1].dst
    BY <2>1 DEF After
  <2>3. \E k \in 1 .. Len(fst.arcs[After(fst.start, w, (i + 1) - 1)]) :
          w[i + 1] = fst.arcs[After(fst.start, w, (i + 1) - 1)][k]
    BY <2>1 DEF IsWalkFrom
  <2>4. QED
    BY <2>1, <2>2, <2>3
<1>8. QED
  BY <1>1, <1>6, <1>7

LEMMA NoWayOut ==
  ASSUME IInv, WorkInv, GiveUp, NEW w
  PROVE  ~IsSolution(w)
<1>. SUFFICES ASSUME IsSolution(w) PROVE FALSE
  OBVIOUS
<1>. PICK N : N = Len(w)
  OBVIOUS
<1>1. phase = "search" /\ Size(queue) = 0
  BY DEF GiveUp
<1>2. KeysOf(queue) = {}
  BY <1>1 DEF KeysOf, Places
<1>3. ASSUME NEW s \in DOMAIN best
      PROVE  s \notin fst.finals /\ \A k \in 1 .. Len(fst.arcs[s]) : fst.arcs[s][k].dst \in DOMAIN best
  <2>1. IsWorked(best, KeysOf(queue), s) /\ s \in fst.states
    BY <1>1 DEF WorkInv, IInv, BestInv
  <2>2. best[s].arcs = <<>> /\ s \notin fst.finals
    BY <1>2, <2>1 DEF IsWorked
  <2>3. TakenBy(best, s) = Len(fst.arcs[s])
    <3>1. Len(best[s].arcs) = 0 /\ Len(fst.arcs[s]) \in Nat
      BY <2>1, <2>2, ArcFacts
    <3>2. QED
      BY <3>1 DEF TakenBy
  <2>4. QED
    BY <2>1, <2>2, <2>3 DEF IsWorked
<1>4. fst.start \in DOMAIN best
  BY <1>1 DEF WorkInv
<1>5. IsWalkFrom(fst.start, w) /\ After(fst.start, w, N) \in fst.finals
  BY DEF IsSolution
<1>. DEFINE S == {i \in Nat : After(fst.start, w, i) \in DOMAIN best}
<1>6. 0 \in S
  BY <1>4 DEF After
<1>7. ASSUME NEW i \in 0 .. N - 1, i \in S
      PROVE  i + 1 \in S
  <2>1. \E k \in 1 .. Len(fst.arcs[After(fst.start, w, i)]) :
          After(fst.start, w, i + 1) = fst.arcs[After(fst.start, w, i)][k].dst
    BY <1>5, WalkStates
  <2>2. After(fst.start, w, i + 1) \in DOMAIN best
    BY <1>3, <1>7, <2>1
  <2>3. QED
    BY <2>2
<1>8. N \in Nat
  BY <1>5, WalkStates
<1>9. 0 .. N \subseteq S
  <2>. HIDE DEF S
  <2>1. QED
    BY <1>6, <1>7, <1>8, InductionUpTo
<1>10. After(fst.start, w, N) \in DOMAIN best
  BY <1>8, <1>9
<1>11. QED
  BY <1>3, <1>5, <1>10

(* The search gives up only when no path leads from the start state to a final
   one, whatever the costs and the margin: no arc and no state is forgotten in
   the queue's comings and goings.  (LazyBest.hpp, bestToFinal) *)
THEOREM GivesUpOnlyWithoutPath == Spec => [][GiveUp => \A w : ~IsSolution(w)]_vars
<1>1. IInv /\ WorkInv => [GiveUp => \A w : ~IsSolution(w)]_vars
  BY NoWayOut
<1>2. QED
  BY <1>1, WorkInvHolds, PTL

-----------------------------------------------------------------------------
(* The path found *)

(* A state waits no longer than for the next of its arcs. *)
LEMMA WaitsForNext ==
  ASSUME IInv, PriceInv, NoNegativeCost, phase = "search", NEW s \in DOMAIN best,
         NEW k \in 1 .. Len(fst.arcs[s]), k > TakenBy(best, s), IsWithinMargin(fst.arcs[s])
  PROVE  best[s].key <= best[s].distance + fst.arcs[s][k].cost
<1>. PICK all : all = fst.arcs[s]
  OBVIOUS
<1>. PICK n : n = TakenBy(best, s)
  OBVIOUS
<1>1. /\ s \in fst.states /\ n \in Int /\ n <= Len(all) /\ IsPriced(best, s)
      /\ best[s].key \in Int /\ best[s].distance \in Int /\ opt.expandMoreArcs \in Nat
  BY TakenType DEF PriceInv, IInv, BestInv, Bests, JobInv
<1>2. /\ Len(all) \in Nat /\ DOMAIN all = 1 .. Len(all) /\ all[k].cost \in Int
      /\ \A i \in 1 .. Len(all) : all[i].cost \in Int
  BY <1>1, ArcFacts
<1>3. CASE n = 0 /\ best[s].key = best[s].distance
  <2>1. all[k].cost >= 0
    BY <1>1 DEF NoNegativeCost
  <2>2. QED
    BY <1>1, <1>2, <1>3, <2>1
<1>4. CASE n > 0 /\ best[s].key = (best[s].distance + all[n].cost) - opt.expandMoreArcs
  <2>1. n \in 1 .. k /\ n \in 1 .. Len(all) /\ k \in DOMAIN all
    BY <1>1, <1>2, <1>4
  <2>2. all[k].cost >= all[n].cost - opt.expandMoreArcs /\ all[n].cost \in Int
    BY <1>2, <2>1 DEF IsWithinMargin
  <2>3. \A x, a, b, m \in Int : b >= a - m => (x + a) - m <= x + b
    OBVIOUS
  <2>4. opt.expandMoreArcs \in Int
    BY <1>1
  <2>5. QED
    BY <1>1, <1>2, <1>4, <2>2, <2>3, <2>4
<1>5. QED
  BY <1>1, <1>3, <1>4 DEF IsPriced

(* What holds when the search has arrived *)
HasArrived ==
  /\ phase = "search" /\ Size(queue) > 0 /\ Top(queue) \in fst.finals
  /\ IsHeap(queue, KeyOf(best)) /\ ArcsAreWithinMargin

LEMMA FinalsWait ==
  ASSUME IInv, WorkInv, PriceInv, NoNegativeCost, HasArrived
  PROVE  /\ best[Top(queue)].distance \in Int
         /\ \A k \in KeysOf(queue) : best[Top(queue)].distance <= best[k].key
         /\ \A s \in DOMAIN best \cap fst.finals :
              best[Top(queue)].distance <= best[s].distance
<1>. PICK f : f = Top(queue)
  OBVIOUS
<1>1. phase = "search" /\ Size(queue) > 0 /\ f \in fst.finals /\ IsHeap(queue, KeyOf(best))
  BY DEF HasArrived
<1>2. /\ f \in DOMAIN best /\ KeysOf(queue) \subseteq DOMAIN best /\ DOMAIN best \subseteq fst.states
      /\ KeyOf(best) \in [fst.states -> Int] /\ queue \in Heaps(fst.states)
  BY <1>1, TopFacts DEF IInv, BestInv
<1>3. \A k \in KeysOf(queue) : KeyOf(best)[f] <= KeyOf(best)[k]
  BY <1>1, <1>2, TopIsBest DEF KeysOf
<1>4. \A s \in DOMAIN best : KeyOf(best)[s] = best[s].key
  BY <1>2 DEF KeyOf
<1>5. ASSUME NEW s \in DOMAIN best \cap fst.finals
      PROVE  s \in KeysOf(queue) /\ best[s].key = best[s].distance
  <2>1. TakenBy(best, s) = 0 /\ s \in KeysOf(queue)
    BY <1>1, <1>5 DEF WorkInv, IsWorked
  <2>2. QED
    BY <1>1, <1>5, <2>1 DEF PriceInv, IsPriced
<1>6. best[f].distance \in Int
  BY <1>2 DEF IInv, BestInv, Bests
<1>7. QED
  BY <1>1, <1>2, <1>3, <1>4, <1>5, <1>6

LEMMA NothingCheaper ==
  ASSUME IInv, WorkInv, PriceInv, NoNegativeCost, HasArrived, NEW w, IsSolution(w)
  PROVE  best[Top(queue)].distance <= CostOf(w)
<1>. PICK D : D = best[Top(queue)].distance
  OBVIOUS
<1>. PICK N : N = Len(w)
  OBVIOUS
<1>. PICK at : at = [i \in 0 .. N |-> After(fst.start, w, i)]
  OBVIOUS
<1>1. phase = "search" /\ ArcsAreWithinMargin
  BY DEF HasArrived
<1>2. /\ D \in Int
      /\ \A k \in KeysOf(queue) : D <= best[k].key
      /\ \A s \in DOMAIN best \cap fst.finals : D <= best[s].distance
  BY FinalsWait
<1>3. IsWalkFrom(fst.start, w)
  BY DEF IsSolution
<1>4. w \in Seq(Arcs) /\ N \in Nat
  BY <1>3, WalkStates
<1>5. /\ \A i \in 0 .. N : at[i] \in fst.states
      /\ at[0] = fst.start /\ at[N] \in fst.finals
      /\ \A i \in 0 .. N - 1 : \E k \in 1 .. Len(fst.arcs[at[i]]) :
           w[i + 1] = fst.arcs[at[i]][k] /\ at[i + 1] = fst.arcs[at[i]][k].dst
  <2>1. 0 \in 0 .. N /\ N \in 0 .. N /\ \A i \in 0 .. N - 1 : i \in 0 .. N /\ i + 1 \in 0 .. N
    BY <1>4
  <2>2. After(fst.start, w, 0) = fst.start
    BY DEF After
  <2>3. \A i \in 0 .. N : at[i] = After(fst.start, w, i)
    OBVIOUS
  <2>4. \A i \in 0 .. N : After(fst.start, w, i) \in fst.states
    BY <1>3, WalkStates
  <2>5. After(fst.start, w, N) \in fst.finals
    BY DEF IsSolution
  <2>6. ASSUME NEW i \in 0 .. N - 1
        PROVE  \E k \in 1 .. Len(fst.arcs[at[i]]) :
                 w[i + 1] = fst.arcs[at[i]][k] /\ at[i + 1] = fst.arcs[at[i]][k].dst
    <3>1. at[i] = After(fst.start, w, i) /\ at[i + 1] = After(fst.start, w, i + 1)
      BY <2>1, <2>3
    <3>2. \E k \in 1 .. Len(fst.arcs[After(fst.start, w, i)]) :
            /\ w[i + 1] = fst.arcs[After(fst.start, w, i)][k]
            /\ After(fst.start, w, i + 1) = fst.arcs[After(fst.start, w, i)][k].dst
      BY <1>3, WalkStates
    <3>3. QED
      BY <3>1, <3>2
  <2>7. QED
    BY <2>1, <2>2, <2>3, <2>4, <2>5, <2>6
<1>6. PICK c : IsRunningCost(w, c) /\ CostOf(w) = c[N]
  BY <1>4, CostRuns
<1>7. /\ \A i \in 0 .. N : c[i] \in Int
      /\ c[0] = 0
      /\ \A i \in 0 .. N - 1 : c[i + 1] = c[i] + w[i + 1].cost
  <2>1. \A i \in 0 .. N - 1 : i + 1 \in 1 .. N /\ (i + 1) - 1 = i
    BY <1>4
  <2>2. /\ \A i \in 0 .. N : c[i] \in Int
        /\ c[0] = 0
        /\ \A n \in 1 .. N : c[n] = c[n - 1] + w[n].cost
    BY <1>6 DEF IsRunningCost
  <2>3. QED
    BY <2>1, <2>2
<1>. DEFINE S == {i \in Nat : c[i] >= D \/ (at[i] \in DOMAIN best /\ best[at[i]].distance <= c[i])}
<1>8. 0 \in S
  <2>1. fst.start \in DOMAIN best /\ best[fst.start].distance = 0
    BY <1>1 DEF WorkInv, PriceInv, IsLinked
  <2>2. QED
    BY <1>5, <1>7, <2>1
<1>9. ASSUME NEW i \in 0 .. N - 1, i \in S
      PROVE  i + 1 \in S
  <2>. PICK s : s = at[i]
    OBVIOUS
  <2>1. PICK k \in 1 .. Len(fst.arcs[s]) : w[i + 1] = fst.arcs[s][k] /\ at[i + 1] = fst.arcs[s][k].dst
    BY <1>5
  <2>2. i \in 0 .. N /\ i + 1 \in 0 .. N /\ i + 1 \in Nat
    BY <1>4
  <2>3. s \in fst.states /\ c[i] \in Int /\ c[i + 1] = c[i] + w[i + 1].cost
    BY <1>5, <1>7, <2>2
  <2>. PICK a : a = fst.arcs[s][k].cost
    OBVIOUS
  <2>4. a \in Int /\ a >= 0 /\ c[i + 1] = c[i] + a
    <3>1. a \in Int
      BY <2>3, ArcFacts
    <3>2. a >= 0
      BY <2>3 DEF NoNegativeCost
    <3>3. w[i + 1].cost = a
      BY <2>1
    <3>4. QED
      BY <2>3, <3>1, <3>2, <3>3
  <2>5. CASE c[i] >= D
    <3>1. PICK x : x = c[i]
      OBVIOUS
    <3>2. x \in Int /\ x >= D /\ c[i + 1] = x + a
      BY <2>3, <2>4, <2>5, <3>1
    <3>3. c[i + 1] >= D
      <4>1. D \in Int
        BY <1>2
      <4>2. x + a >= D
        BY <2>4, <3>2, <4>1
      <4>3. QED
        BY <3>2, <4>2
    <3>4. QED
      BY <2>2, <3>3
  <2>6. CASE s \in DOMAIN best /\ best[s].distance <= c[i]
    <3>1. /\ IsPriced(best, s) /\ IsWorked(best, KeysOf(queue), s)
          /\ best[s].distance \in Int /\ best[s].key \in Int
      <4>1. IsPriced(best, s)
        BY <1>1, <2>6 DEF PriceInv
      <4>2. IsWorked(best, KeysOf(queue), s)
        BY <1>1, <2>6 DEF WorkInv
      <4>3. best[s].distance \in Int /\ best[s].key \in Int
        BY <2>6 DEF IInv, BestInv, Bests
      <4>4. QED
        BY <4>1, <4>2, <4>3
    <3>2. TakenBy(best, s) \in Int
      BY <2>6, TakenType
    <3>3. CASE k <= TakenBy(best, s)
      <4>1. k \in 1 .. TakenBy(best, s)
        BY <3>2, <3>3
      <4>2. /\ fst.arcs[s][k].dst \in DOMAIN best
            /\ best[fst.arcs[s][k].dst].distance <= best[s].distance + a
        BY <3>1, <4>1 DEF IsPriced, IsWorked
      <4>3. best[at[i + 1]].distance \in Int /\ at[i + 1] \in DOMAIN best
            /\ best[at[i + 1]].distance <= best[s].distance + a
        BY <2>1, <4>2 DEF IInv, BestInv, Bests
      <4>4. best[at[i + 1]].distance <= c[i + 1]
        <5>1. PICK x, y, z : x = c[i] /\ y = best[s].distance /\ z = best[at[i + 1]].distance
          OBVIOUS
        <5>2. /\ x \in Int /\ y \in Int /\ z \in Int
              /\ y <= x /\ z <= y + a
          BY <2>3, <2>6, <3>1, <4>3, <5>1
        <5>3. a \in Int /\ c[i + 1] = x + a
          BY <2>4, <5>1
        <5>4. z <= x + a
          <6>1. \A t, u, v, b \in Int : u <= t /\ v <= u + b => v <= t + b
            OBVIOUS
          <6>2. QED
            BY <5>2, <5>3, <6>1, Zenon
        <5>5. QED
          BY <5>1, <5>3, <5>4
      <4>5. QED
        BY <2>2, <4>3, <4>4
    <3>4. CASE k > TakenBy(best, s)
      <4>1. best[s].key <= best[s].distance + a
        <5>1. IsWithinMargin(fst.arcs[s])
          BY <1>1, <2>6 DEF ArcsAreWithinMargin
        <5>2. QED
          BY <1>1, <2>6, <3>4, <5>1, WaitsForNext
      <4>2. s \in KeysOf(queue)
        <5>1. best[s].arcs # <<>>
          <6>1. Len(fst.arcs[s]) \in Nat
            BY <2>3, ArcFacts
          <6>2. best[s].arcs = <<>> => Len(best[s].arcs) = 0
            OBVIOUS
          <6>3. best[s].arcs = <<>> => TakenBy(best, s) = Len(fst.arcs[s])
            BY <6>1, <6>2 DEF TakenBy
          <6>4. ~(k > Len(fst.arcs[s]))
            BY <6>1
          <6>5. QED
            BY <3>4, <6>3, <6>4
        <5>2. QED
          BY <3>1, <5>1 DEF IsWorked
      <4>3. D <= best[s].key
        BY <1>2, <4>2
      <4>4. c[i + 1] >= D
        <5>1. \A d, m, x, b, y \in Int : d <= m /\ m <= x + b /\ x <= y => y + b >= d
          OBVIOUS
        <5>2. c[i] + a >= D
          BY <1>2, <2>3, <2>4, <2>6, <3>1, <4>1, <4>3, <5>1, Zenon
        <5>3. QED
          BY <2>4, <5>2
      <4>5. QED
        BY <2>2, <4>4
    <3>5. QED
      BY <3>2, <3>3, <3>4
  <2>7. QED
    BY <1>9, <2>5, <2>6
<1>10. 0 .. N \subseteq S
  <2>. HIDE DEF S
  <2>1. QED
    BY <1>4, <1>8, <1>9, InductionUpTo
<1>11. N \in S /\ c[N] \in Int
  BY <1>4, <1>7, <1>10
<1>12. D <= c[N]
  <2>1. at[N] \in DOMAIN best => D <= best[at[N]].distance /\ best[at[N]].distance \in Int
    BY <1>2, <1>5 DEF IInv, BestInv, Bests
  <2>2. QED
    BY <1>2, <1>11, <2>1
<1>13. QED
  BY <1>6, <1>12

(* The way back, so far: a walk that leads from its state to s for no more than
   what lies between their distances *)
IsTrail(b, s) ==
  /\ b \in Trails
  /\ IsWalkFrom(b.state, b.path) /\ After(b.state, b.path, Len(b.path)) = s
  /\ \E c : /\ IsRunningCost(b.path, c) /\ c[Len(b.path)] \in Int
            /\ best[b.state].distance + c[Len(b.path)] <= best[s].distance

LEMMA StepBackIsTrail ==
  ASSUME IInv, PriceInv, NoNegativeCost, phase = "search",
         NEW s \in DOMAIN best, NEW b, IsTrail(b, s), StepBack(b) \in Trails
  PROVE  IsTrail(StepBack(b), s)
<1>. PICK x : x = b.state
  OBVIOUS
<1>1. x \in DOMAIN best /\ IsLinked(best, x) /\ DOMAIN best \subseteq fst.states
  BY DEF IsTrail, Trails, PriceInv, IInv, BestInv
<1>2. \A t \in DOMAIN best : best[t].distance \in Int /\ t # None
  BY <1>1 DEF IInv, BestInv, Bests, JobInv
<1>3. CASE best[x].predecessor = None
  <2>1. StepBack(b) = b
    BY <1>3 DEF StepBack
  <2>2. QED
    BY <2>1
<1>4. CASE best[x].predecessor # None
  <2>1. x # fst.start
    BY <1>1, <1>4 DEF IsLinked
  <2>2. PICK p \in DOMAIN best : \E k \in 1 .. Len(fst.arcs[p]) :
          /\ best[x].predecessor = p /\ best[x].arc = fst.arcs[p][k] /\ fst.arcs[p][k].dst = x
          /\ best[p].distance + fst.arcs[p][k].cost <= best[x].distance
    BY <1>1, <2>1 DEF IsLinked
  <2>3. PICK k \in 1 .. Len(fst.arcs[p]) :
          /\ best[x].predecessor = p /\ best[x].arc = fst.arcs[p][k] /\ fst.arcs[p][k].dst = x
          /\ best[p].distance + fst.arcs[p][k].cost <= best[x].distance
    BY <2>2
  <2>. PICK a : a = fst.arcs[p][k]
    OBVIOUS
  <2>. PICK w : w = b.path
    OBVIOUS
  <2>. PICK v : v = <<a>> \o w
    OBVIOUS
  <2>4. PICK c : /\ IsRunningCost(w, c) /\ c[Len(w)] \in Int
                 /\ best[x].distance + c[Len(w)] <= best[s].distance
    BY DEF IsTrail
  <2>5. IsWalkFrom(a.dst, w) /\ After(a.dst, w, Len(w)) = s
    BY <2>3 DEF IsTrail
  <2>6. PICK e : /\ IsWalkFrom(p, v) /\ IsRunningCost(v, e)
                 /\ After(p, v, Len(v)) = After(a.dst, w, Len(w))
                 /\ e[Len(v)] = a.cost + c[Len(w)] /\ c[Len(w)] \in Int
    <3>1. p \in fst.states /\ IsRunningCost(w, c)
      BY <1>1, <2>4
    <3>2. \E e : /\ IsWalkFrom(p, <<a>> \o w) /\ IsRunningCost(<<a>> \o w, e)
                 /\ After(p, <<a>> \o w, Len(<<a>> \o w)) = After(a.dst, w, Len(w))
                 /\ e[Len(<<a>> \o w)] = a.cost + c[Len(w)] /\ c[Len(w)] \in Int
      BY <2>5, <3>1, LongerWalk
    <3>3. QED
      BY <3>2
  <2>7. StepBack(b) = [state |-> p, path |-> v]
    BY <1>4, <2>3 DEF StepBack
  <2>8. a.cost \in Int
    BY <1>1, ArcFacts
  <2>9. e[Len(v)] \in Int /\ best[p].distance + e[Len(v)] <= best[s].distance
    <3>1. \A d, f, t, i, j \in Int : d + i <= f /\ f + j <= t => i + j \in Int /\ d + (i + j) <= t
      OBVIOUS
    <3>2. best[p].distance \in Int /\ best[x].distance \in Int /\ best[s].distance \in Int
      BY <1>1, <1>2
    <3>3. best[p].distance + a.cost <= best[x].distance
      BY <2>3
    <3>4. a.cost + c[Len(w)] \in Int /\ best[p].distance + (a.cost + c[Len(w)]) <= best[s].distance
      BY <2>4, <2>8, <3>1, <3>2, <3>3
    <3>5. QED
      BY <2>6, <3>4
  <2>10. StepBack(b).state = p /\ StepBack(b).path = v
    BY <2>7
  <2>11. QED
    BY <2>5, <2>6, <2>9, <2>10 DEF IsTrail
<1>5. QED
  BY <1>3, <1>4

LEMMA WayBackIsWalk ==
  ASSUME IInv, PriceInv, NoNegativeCost, phase = "search",
         NEW s \in DOMAIN best, NEW back, NEW N, IsWayBack(back, s, N)
  PROVE  \A n \in 0 .. N : IsTrail(back[n], s)
<1>1. /\ N \in Nat /\ \A n \in 0 .. N : back[n] \in Trails
      /\ back[0] = [state |-> s, path |-> <<>>]
      /\ \A n \in 1 .. N : back[n] = StepBack(back[n - 1])
  BY DEF IsWayBack
<1>2. IsTrail(back[0], s)
  <2>1. back[0].state = s /\ back[0].path = <<>> /\ back[0] \in Trails
    BY <1>1
  <2>. PICK w : w = <<>>
    OBVIOUS
  <2>. PICK c : c = [n \in 0 .. 0 |-> 0]
    OBVIOUS
  <2>2. IsWalkFrom(s, w) /\ After(s, w, Len(w)) = s /\ IsRunningCost(w, c)
    BY EmptyWalk
  <2>3. Len(w) = 0 /\ c[0] = 0
    OBVIOUS
  <2>4. best[s].distance + c[Len(w)] <= best[s].distance
    <3>1. best[s].distance \in Int
      BY DEF IInv, BestInv, Bests
    <3>2. QED
      BY <2>3, <3>1
  <2>5. QED
    BY <2>1, <2>2, <2>3, <2>4 DEF IsTrail
<1>. DEFINE S == {n \in Nat : IsTrail(back[n], s)}
<1>3. 0 \in S
  BY <1>2
<1>4. ASSUME NEW n \in 0 .. N - 1, n \in S
      PROVE  n + 1 \in S
  <2>1. n + 1 \in 1 .. N /\ n + 1 \in 0 .. N /\ (n + 1) - 1 = n /\ n + 1 \in Nat
    BY <1>1
  <2>2. back[n + 1] = StepBack(back[n]) /\ back[n + 1] \in Trails /\ IsTrail(back[n], s)
    BY <1>1, <1>4, <2>1
  <2>3. IsTrail(back[n + 1], s)
    BY <2>2, StepBackIsTrail
  <2>4. QED
    BY <2>1, <2>3
<1>5. 0 .. N \subseteq S
  <2>. HIDE DEF S
  <2>1. QED
    BY <1>1, <1>3, <1>4, InductionUpTo
<1>6. QED
  BY <1>5

(* As many steps back as there are states lead to the start: on the way no
   state but the start comes twice. *)
LEMMA WayBackStarts ==
  ASSUME IInv, PriceInv, NoNegativeCost, phase = "search",
         NEW s \in DOMAIN best, NEW back, NEW N, N = Cardinality(DOMAIN best), IsWayBack(back, s, N)
  PROVE  back[N].state = fst.start
<1>0. PICK at : at = [n \in 0 .. N |-> back[n].state]
  OBVIOUS
<1>1. /\ N \in Nat /\ \A n \in 0 .. N : back[n] \in Trails
      /\ \A n \in 1 .. N : back[n] = StepBack(back[n - 1])
  BY DEF IsWayBack
<1>2. at \in [0 .. N -> DOMAIN best]
  BY <1>0, <1>1 DEF Trails
<1>3. ASSUME NEW n \in 0 .. N - 1
      PROVE  at[n + 1] = IF best[at[n]].predecessor = None THEN at[n] ELSE best[at[n]].predecessor
  <2>1. n \in 0 .. N /\ n + 1 \in 0 .. N /\ n + 1 \in 1 .. N /\ (n + 1) - 1 = n
    BY <1>1
  <2>2. back[n + 1] = StepBack(back[n]) /\ at[n] = back[n].state /\ at[n + 1] = back[n + 1].state
    BY <1>0, <1>1, <2>1
  <2>3. QED
    BY <2>2 DEF StepBack
<1>4. PICK x, y \in 0 .. N : x < y /\ at[x] = at[y]
  <2>1. IsFiniteSet(0 .. N) /\ Cardinality(0 .. N) = (N - 0) + 1
    BY <1>1, FS_Interval
  <2>2. IsFiniteSet(DOMAIN best) /\ Cardinality(DOMAIN best) < Cardinality(0 .. N)
    BY <1>1, <2>1 DEF IInv, BestInv
  <2>3. \E i, j \in 0 .. N : i # j /\ at[i] = at[j]
    <3>a. PICK S : S = 0 .. N
      OBVIOUS
    <3>b. PICK T : T = DOMAIN best
      OBVIOUS
    <3>1. IsFiniteSet(S) /\ IsFiniteSet(T) /\ Cardinality(T) < Cardinality(S) /\ at \in [S -> T]
      BY <1>2, <2>1, <2>2, <3>a, <3>b
    <3>2. \E i, j \in S : i # j /\ at[i] = at[j]
      BY <3>1, FS_PigeonHole
    <3>3. QED
      BY <3>2, <3>a
  <2>4. QED
    BY <1>1, <2>3
<1>5. PICK A : A = {at[n] : n \in x .. y - 1}
  OBVIOUS
<1>6. \E t \in A : best[t].predecessor \notin A
  <2>1. A \in SUBSET DOMAIN best /\ A # {}
    <3>1. \A n \in x .. y - 1 : n \in 0 .. N
      BY <1>1
    <3>2. x \in x .. y - 1
      BY <1>4
    <3>3. QED
      BY <1>2, <1>5, <3>1, <3>2
  <2>2. QED
    BY <2>1 DEF PriceInv, IsAcyclic
<1>7. PICK i \in x .. y - 1 : best[at[i]].predecessor \notin A
  BY <1>5, <1>6
<1>8. i \in 0 .. N - 1 /\ i \in 0 .. N /\ i \in Nat /\ i + 1 \in x .. y
  BY <1>1, <1>7
<1>9. best[at[i]].predecessor = None
  <2>1. SUFFICES ASSUME best[at[i]].predecessor # None PROVE FALSE
    OBVIOUS
  <2>2. at[i + 1] = best[at[i]].predecessor
    BY <1>3, <1>8, <2>1
  <2>3. CASE i + 1 = y
    <3>1. x \in x .. y - 1
      BY <1>4
    <3>2. at[x] \in A
      BY <1>5, <3>1
    <3>3. QED
      BY <1>4, <1>7, <2>2, <2>3, <3>2
  <2>4. CASE i + 1 # y
    <3>1. i + 1 \in x .. y - 1
      BY <1>8, <2>4
    <3>2. at[i + 1] \in A
      BY <1>5, <3>1
    <3>3. QED
      BY <1>7, <2>2, <3>2
  <2>5. QED
    BY <2>3, <2>4
<1>10. at[i] = fst.start
  <2>1. at[i] \in DOMAIN best /\ IsLinked(best, at[i])
    BY <1>2, <1>8 DEF PriceInv
  <2>2. DOMAIN best \subseteq fst.states /\ None \notin fst.states
    BY DEF IInv, BestInv, JobInv
  <2>3. QED
    BY <1>9, <2>1, <2>2 DEF IsLinked
<1>. DEFINE S == {n \in Nat : n >= i => at[n] = fst.start}
<1>11. 0 \in S
  BY <1>8, <1>10
<1>12. ASSUME NEW n \in 0 .. N - 1, n \in S
       PROVE  n + 1 \in S
  <2>1. n + 1 \in Nat
    BY <1>1
  <2>2. CASE n >= i
    BY <1>3, <1>9, <1>10, <1>12, <2>1, <2>2
  <2>3. CASE ~(n >= i)
    <3>1. n + 1 >= i => n + 1 = i
      BY <1>8, <2>3
    <3>2. QED
      BY <1>10, <2>1, <3>1
  <2>4. QED
    BY <2>2, <2>3
<1>13. 0 .. N \subseteq S
  <2>. HIDE DEF S
  <2>1. QED
    BY <1>1, <1>11, <1>12, InductionUpTo
<1>14. N \in S /\ N >= i /\ N \in 0 .. N
  BY <1>1, <1>8, <1>13
<1>15. QED
  BY <1>0, <1>14

LEMMA PathToIsWalk ==
  ASSUME IInv, PriceInv, NoNegativeCost, phase = "search", NEW s \in DOMAIN best
  PROVE  /\ IsWalkFrom(fst.start, PathTo(s))
         /\ After(fst.start, PathTo(s), Len(PathTo(s))) = s
         /\ CostOf(PathTo(s)) \in Int /\ CostOf(PathTo(s)) <= best[s].distance
<1>. PICK N : N = Cardinality(DOMAIN best)
  OBVIOUS
<1>1. PICK back : IsWayBack(back, s, N)
  BY PathToIsBack
<1>2. N \in 0 .. N /\ PathTo(s) = back[N].path
  BY <1>1 DEF IsWayBack
<1>3. IsTrail(back[N], s) /\ back[N].state = fst.start
  BY <1>1, <1>2, WayBackIsWalk, WayBackStarts
<1>. PICK w : w = PathTo(s)
  OBVIOUS
<1>4. /\ IsWalkFrom(fst.start, w) /\ After(fst.start, w, Len(w)) = s
      /\ \E c : /\ IsRunningCost(w, c) /\ c[Len(w)] \in Int
                /\ best[fst.start].distance + c[Len(w)] <= best[s].distance
  BY <1>2, <1>3 DEF IsTrail
<1>5. PICK c : /\ IsRunningCost(w, c) /\ c[Len(w)] \in Int
               /\ best[fst.start].distance + c[Len(w)] <= best[s].distance
  BY <1>4
<1>6. CostOf(w) = c[Len(w)]
  BY <1>4, <1>5, RunningCostIs DEF IsWalkFrom
<1>7. best[fst.start].distance = 0
  BY <1>3 DEF IsTrail, Trails, PriceInv, IsLinked
<1>8. QED
  BY <1>4, <1>5, <1>6, <1>7

LEMMA RunningCostIsNotNegative ==
  ASSUME IInv, NoNegativeCost, NEW w, IsWalkFrom(fst.start, w)
  PROVE  CostOf(w) >= 0
<1>. PICK N : N = Len(w)
  OBVIOUS
<1>1. w \in Seq(Arcs) /\ N \in Nat
  BY WalkStates
<1>2. PICK c : IsRunningCost(w, c) /\ CostOf(w) = c[N]
  BY <1>1, CostRuns
<1>3. /\ \A n \in 0 .. N : c[n] \in Int
      /\ c[0] = 0
      /\ \A n \in 1 .. N : c[n] = c[n - 1] + w[n].cost
  BY <1>2 DEF IsRunningCost
<1>. DEFINE S == {n \in Nat : c[n] >= 0}
<1>4. 0 \in S
  BY <1>3
<1>5. ASSUME NEW n \in 0 .. N - 1, n \in S
      PROVE  n + 1 \in S
  <2>. PICK s : s = After(fst.start, w, n)
    OBVIOUS
  <2>1. n \in 0 .. N /\ n + 1 \in 1 .. N /\ (n + 1) - 1 = n /\ n + 1 \in Nat
    BY <1>1
  <2>2. s \in fst.states /\ \E k \in 1 .. Len(fst.arcs[s]) : w[n + 1] = fst.arcs[s][k]
    BY <2>1, WalkStates
  <2>3. PICK k \in 1 .. Len(fst.arcs[s]) : w[n + 1] = fst.arcs[s][k]
    BY <2>2
  <2>4. fst.arcs[s][k].cost \in Int /\ fst.arcs[s][k].cost >= 0
    BY <2>2, ArcFacts DEF NoNegativeCost
  <2>5. c[n + 1] = c[n] + fst.arcs[s][k].cost /\ c[n] \in Int
    BY <1>3, <2>1, <2>3
  <2>6. c[n + 1] >= 0
    BY <1>5, <2>4, <2>5
  <2>7. QED
    BY <2>1, <2>6
<1>6. 0 .. N \subseteq S
  <2>. HIDE DEF S
  <2>1. QED
    BY <1>1, <1>4, <1>5, InductionUpTo
<1>7. QED
  BY <1>1, <1>2, <1>6

(* What the search has when it ends with a path *)
FindsBest ==
  /\ IsSolution(path')
  /\ ~isQueuedTwice /\ ArcsAreWithinMargin
     /\ (opt.expandMoreArcs = 0 \/ Size(queue) <= Arity + 1)
       => IsBestSolution(path')

LEMMA StartFindsBest ==
  ASSUME IInv, NoNegativeCost, Start, phase' = "done"
  PROVE  FindsBest
<1>1. fst.start \in fst.finals /\ path' = <<>>
  BY DEF Start
<1>. PICK w : w = path'
  OBVIOUS
<1>. PICK c : c = [n \in 0 .. 0 |-> 0]
  OBVIOUS
<1>2. IsWalkFrom(fst.start, w) /\ After(fst.start, w, Len(w)) = fst.start /\ IsRunningCost(w, c)
  BY <1>1, EmptyWalk
<1>3. IsSolution(w)
  BY <1>1, <1>2 DEF IsSolution
<1>4. CostOf(w) = 0
  <2>1. w \in Seq(Arcs) /\ Len(w) = 0
    BY <1>1, <1>2 DEF IsWalkFrom
  <2>2. QED
    BY <1>2, <2>1, RunningCostIs
<1>5. ASSUME NEW v, IsSolution(v)
      PROVE  CostOf(w) <= CostOf(v)
  <2>1. IsWalkFrom(fst.start, v)
    BY <1>5 DEF IsSolution
  <2>2. v \in Seq(Arcs)
    BY <2>1 DEF IsWalkFrom
  <2>3. CostOf(v) \in Int
    BY <2>2, CostRuns, RunningCostIs
  <2>4. QED
    BY <1>4, <2>1, <2>3, RunningCostIsNotNegative
<1>6. QED
  BY <1>3, <1>5 DEF FindsBest, IsBestSolution

LEMMA ArriveFindsBest ==
  ASSUME IInv, WorkInv, PriceInv, QueueOrder, NoNegativeCost, Arrive
  PROVE  FindsBest
<1>. PICK f : f = Top(queue)
  OBVIOUS
<1>. PICK w : w = path'
  OBVIOUS
<1>1. phase = "search" /\ Size(queue) > 0 /\ f \in fst.finals /\ w = PathTo(f)
  BY DEF Arrive, Arrived
<1>2. f \in DOMAIN best /\ best[f].distance \in Int
  BY <1>1, TopFacts DEF IInv, BestInv, Bests
<1>3. /\ IsWalkFrom(fst.start, w) /\ After(fst.start, w, Len(w)) = f
      /\ CostOf(w) \in Int /\ CostOf(w) <= best[f].distance
  BY <1>1, <1>2, PathToIsWalk
<1>4. IsSolution(w)
  BY <1>1, <1>3 DEF IsSolution
<1>5. ASSUME ~isQueuedTwice, ArcsAreWithinMargin,
             opt.expandMoreArcs = 0 \/ Size(queue) <= Arity + 1, NEW v, IsSolution(v)
      PROVE  CostOf(w) <= CostOf(v)
  <2>1. HasArrived
    BY <1>1, <1>5 DEF HasArrived, QueueOrder, QueueIsHeap
  <2>2. best[f].distance <= CostOf(v)
    BY <1>5, <2>1, NothingCheaper
  <2>3. CostOf(v) \in Int
    <3>1. v \in Seq(Arcs)
      BY <1>5 DEF IsSolution, IsWalkFrom
    <3>2. QED
      BY <3>1, CostRuns, RunningCostIs
  <2>4. QED
    BY <1>2, <1>3, <2>2, <2>3
<1>6. QED
  BY <1>4, <1>5 DEF FindsBest, IsBestSolution

(* The path the search ends with leads from the start to a final state, and no
   such path costs less, if no state was queued twice and every state it has seen
   yields its arcs best-first but for the margin: always without a margin, and
   with one while the queue has one level.  (LazyBest.hpp:89-91) *)
THEOREM EndsWithBestPath ==
  Spec /\ []NoNegativeCost => [][(Start \/ Arrive) /\ phase' = "done" => FindsBest]_vars
<1>1. IInv /\ WorkInv /\ PriceInv /\ QueueOrder /\ NoNegativeCost =>
        [(Start \/ Arrive) /\ phase' = "done" => FindsBest]_vars
  BY StartFindsBest, ArriveFindsBest
<1>2. QED
  BY <1>1, QueueOrderHolds, PTL

-----------------------------------------------------------------------------
(* The merge of generators *)

(* Arcs to be merged are of a set of records with costs. *)
HaveCosts(A) == \A a \in A : a.cost \in Int

LEMMA TailFacts ==
  ASSUME NEW A, NEW s \in Seq(A), s # <<>>
  PROVE  /\ Len(s) \in Nat /\ Len(s) >= 1 /\ s[1] \in A
         /\ Tail(s) \in Seq(A) /\ Len(Tail(s)) = Len(s) - 1
         /\ \A i \in 1 .. Len(Tail(s)) : Tail(s)[i] = s[i + 1]
OBVIOUS

LEMMA NextCostsType ==
  ASSUME NEW A, HaveCosts(A), NEW left \in Seq(Seq(A))
  PROVE  /\ NextCosts(left) \in [1 .. Len(left) -> Int]
         /\ \A g \in 1 .. Len(left) : left[g] # <<>> => NextCosts(left)[g] = left[g][1].cost
<1>1. ASSUME NEW g \in 1 .. Len(left), left[g] # <<>>
      PROVE  left[g][1].cost \in Int
  <2>1. left[g] \in Seq(A)
    OBVIOUS
  <2>2. left[g][1] \in A
    BY <1>1, <2>1, TailFacts
  <2>3. QED
    BY <2>2 DEF HaveCosts
<1>2. DOMAIN left = 1 .. Len(left)
  OBVIOUS
<1>3. QED
  BY <1>1, <1>2 DEF NextCosts

LEMMA BaseAfterFacts ==
  ASSUME NEW A, NEW left \in Seq(Seq(A)), NEW base \in 0 .. Len(left),
         NEW next, next = BaseAfter(base, left)
  PROVE  /\ next \in base + 1 .. Len(left) + 1
         /\ \A g \in base + 1 .. next - 1 : left[g] = <<>>
         /\ next <= Len(left) => left[next] # <<>>
<1>. DEFINE T == {g \in base + 1 .. Len(left) : left[g] # <<>>} \cup {Len(left) + 1}
<1>1. T \in SUBSET Nat /\ T # {} /\ Len(left) \in Nat
  OBVIOUS
<1>2. next = CHOOSE x \in T : \A y \in T : x <= y
  BY DEF BaseAfter, Min
<1>3. next \in T /\ \A y \in T : next <= y
  <2>. HIDE DEF T
  <2>1. QED
    BY <1>1, <1>2, LeastNatural
<1>4. next \in base + 1 .. Len(left) \/ next = Len(left) + 1
  BY <1>3
<1>5. ASSUME NEW g \in base + 1 .. next - 1
      PROVE  left[g] = <<>>
  <2>1. g \in base + 1 .. Len(left) /\ ~(next <= g)
    BY <1>1, <1>4
  <2>2. g \notin T
    BY <1>3, <2>1
  <2>3. QED
    BY <2>1, <2>2
<1>6. next <= Len(left) => left[next] # <<>>
  BY <1>1, <1>3
<1>7. QED
  BY <1>1, <1>4, <1>5, <1>6

(* What is left when the generator at the top has yielded its next arc *)
RestAfter(left, top) == [left EXCEPT ![top] = Tail(@)]
IsRestAfter(rest, left, top, A) ==
  /\ top \in 1 .. Len(left) /\ left[top] # <<>>
  /\ rest \in Seq(Seq(A)) /\ Len(rest) = Len(left) /\ rest[top] = Tail(left[top])
  /\ \A g \in 1 .. Len(left) : g # top => rest[g] = left[g]

(* The steps of a merge, field by field *)
LEMMA PushBaseIs ==
  ASSUME NEW m, NEW heap, NEW base, NEW left, NEW out, NEW next,
         m = [queue |-> heap, base |-> base, left |-> left, out |-> out],
         next = BaseAfter(base, left)
  PROVE  PushBase(m) =
           [queue |-> IF next <= Len(left) THEN Push(heap, next, NextCosts(left)) ELSE heap,
            base |-> next, left |-> left, out |-> out]
<1>1. m.queue = heap /\ m.base = base /\ m.left = left /\ m.out = out
  OBVIOUS
<1>2. PushBase(m) = [m EXCEPT !.base = next,
         !.queue = IF next <= Len(left) THEN Push(heap, next, NextCosts(left)) ELSE heap]
  BY <1>1 DEF PushBase
<1>3. PICK pushed : pushed = IF next <= Len(left) THEN Push(heap, next, NextCosts(left)) ELSE heap
  OBVIOUS
<1>4. PushBase(m) = [m EXCEPT !.base = next, !.queue = pushed]
  BY <1>2, <1>3
<1>5. PushBase(m) = [queue |-> pushed, base |-> next, left |-> left, out |-> out]
  BY <1>4
<1>6. QED
  BY <1>3, <1>5

LEMMA TakeTopIs ==
  ASSUME NEW heap, NEW base, NEW left, NEW out
  PROVE  TakeTop([queue |-> heap, base |-> base, left |-> left, out |-> out]) =
           [queue |-> AfterTop(heap, RestAfter(left, Top(heap))), base |-> base,
            left |-> RestAfter(left, Top(heap)), out |-> Append(out, left[Top(heap)][1])]
<1>1. PICK m : m = [queue |-> heap, base |-> base, left |-> left, out |-> out]
  OBVIOUS
<1>2. m.queue = heap /\ m.base = base /\ m.left = left /\ m.out = out
  BY <1>1
<1>3. PICK rest, after, longer :
        /\ rest = RestAfter(left, Top(heap)) /\ after = AfterTop(heap, rest)
        /\ longer = Append(out, left[Top(heap)][1])
  OBVIOUS
<1>4. TakeTop(m) = [m EXCEPT !.queue = after, !.left = rest, !.out = longer]
  BY <1>2, <1>3 DEF TakeTop, RestAfter
<1>5. TakeTop(m) = [queue |-> after, base |-> base, left |-> rest, out |-> longer]
  BY <1>1, <1>4
<1>6. QED
  BY <1>1, <1>3, <1>5

(* The heap holds the generators that were started and have arcs left. *)
StartedIn(base, left) == {g \in 1 .. Len(left) : g <= base /\ left[g] # <<>>}
HoldsStarted(heap, base, left) ==
  /\ heap \in Heaps(1 .. Len(left)) /\ IsPlaced(heap)
  /\ KeysOf(heap) = StartedIn(base, left)
  /\ IsHeap(heap, NextCosts(left))

LEMMA PushBaseHolds ==
  ASSUME NEW A, HaveCosts(A), NEW left \in Seq(Seq(A)), NEW base \in 0 .. Len(left), NEW heap,
         HoldsStarted(heap, base, left),
         NEW next, next = BaseAfter(base, left),
         NEW pushed, pushed = IF next <= Len(left) THEN Push(heap, next, NextCosts(left)) ELSE heap
  PROVE  HoldsStarted(pushed, next, left)
<1>1. /\ next \in base + 1 .. Len(left) + 1
      /\ \A g \in base + 1 .. next - 1 : left[g] = <<>>
      /\ next <= Len(left) => left[next] # <<>>
  BY BaseAfterFacts
<1>2. NextCosts(left) \in [1 .. Len(left) -> Int]
  BY NextCostsType
<1>3. Len(left) \in Nat
  OBVIOUS
<1>4. CASE next <= Len(left)
  <2>1. next \in 1 .. Len(left) /\ next \notin KeysOf(heap)
    BY <1>1, <1>3, <1>4 DEF HoldsStarted, StartedIn
  <2>2. IsPushed(pushed, heap, next, 1 .. Len(left), NextCosts(left))
    BY <1>2, <1>4, <2>1, PushOnHeap DEF HoldsStarted
  <2>3. StartedIn(next, left) = StartedIn(base, left) \cup {next}
    BY <1>1, <1>3, <2>1 DEF StartedIn
  <2>4. QED
    BY <2>2, <2>3 DEF IsPushed, HoldsStarted
<1>5. CASE ~(next <= Len(left))
  <2>1. next = Len(left) + 1 /\ pushed = heap
    BY <1>1, <1>3, <1>5
  <2>2. StartedIn(next, left) = StartedIn(base, left)
    BY <1>1, <1>3, <2>1 DEF StartedIn
  <2>3. QED
    BY <2>1, <2>2 DEF HoldsStarted
<1>6. QED
  BY <1>4, <1>5

LEMMA TakeTopHolds ==
  ASSUME NEW A, HaveCosts(A), NEW left \in Seq(Seq(A)), NEW base, NEW heap,
         HoldsStarted(heap, base, left), Size(heap) > 0,
         NEW top, top = Top(heap),
         NEW rest, rest = RestAfter(left, top),
         NEW after, after = AfterTop(heap, rest)
  PROVE  /\ top \in StartedIn(base, left)
         /\ IsRestAfter(rest, left, top, A)
         /\ HoldsStarted(after, base, rest)
<1>1. heap \in Heaps(1 .. Len(left)) /\ IsPlaced(heap) /\ IsHeap(heap, NextCosts(left))
  BY DEF HoldsStarted
<1>2. top \in StartedIn(base, left)
  <2>1. 0 \in Places(heap)
    BY <1>1, KeyAtType DEF Places
  <2>2. QED
    BY <2>1 DEF KeysOf, Top, HoldsStarted
<1>3. top \in 1 .. Len(left) /\ left[top] # <<>>
  BY <1>2 DEF StartedIn
<1>4. IsRestAfter(rest, left, top, A)
  <2>1. left[top] \in Seq(A)
    BY <1>3
  <2>2. Tail(left[top]) \in Seq(A)
    BY <1>3, <2>1, TailFacts
  <2>3. PICK t \in Seq(A) : t = Tail(left[top])
    BY <2>2
  <2>4. rest = [left EXCEPT ![top] = t]
    BY <2>3 DEF RestAfter
  <2>5. rest \in Seq(Seq(A)) /\ Len(rest) = Len(left) /\ rest[top] = t
        /\ \A g \in 1 .. Len(left) : g # top => rest[g] = left[g]
    BY <1>3, <2>4
  <2>6. QED
    BY <1>3, <2>3, <2>5 DEF IsRestAfter
<1>5. rest \in Seq(Seq(A)) /\ Len(rest) = Len(left) /\ \A g \in 1 .. Len(left) : g # top => rest[g] = left[g]
  BY <1>4 DEF IsRestAfter
<1>6. NextCosts(left) \in [1 .. Len(left) -> Int] /\ NextCosts(rest) \in [1 .. Len(left) -> Int]
  BY <1>5, NextCostsType
<1>7. \A k \in (1 .. Len(left)) \ {top} : NextCosts(rest)[k] = NextCosts(left)[k]
  <2>1. DOMAIN left = 1 .. Len(left) /\ DOMAIN rest = 1 .. Len(left)
    BY <1>5
  <2>2. QED
    BY <1>5, <2>1 DEF NextCosts
<1>8. CASE rest[top] = <<>>
  <2>1. after = Pop(heap, NextCosts(rest))
    BY <1>8 DEF AfterTop
  <2>2. /\ after \in Heaps(1 .. Len(left)) /\ IsPlaced(after)
        /\ KeysOf(after) = KeysOf(heap) \ {top}
        /\ \A old \in [1 .. Len(left) -> Int] :
              IsHeap(heap, old) /\ (\A k \in (1 .. Len(left)) \ {top} : NextCosts(rest)[k] = old[k])
                => IsHeap(after, NextCosts(rest))
    <3>1. PICK keys : keys = 1 .. Len(left)
      OBVIOUS
    <3>2. PICK dist \in [keys -> Int] : dist = NextCosts(rest)
      BY <1>6, <3>1
    <3>3. heap \in Heaps(keys) /\ after = Pop(heap, dist)
      BY <1>1, <2>1, <3>1, <3>2
    <3>4. /\ after \in Heaps(keys) /\ IsPlaced(after)
          /\ KeysOf(after) = KeysOf(heap) \ {Top(heap)}
          /\ \A old \in [keys -> Int] :
               IsHeap(heap, old) /\ (\A k \in keys \ {Top(heap)} : dist[k] = old[k])
                 => IsHeap(after, dist)
      BY <1>1, <3>3, PopOffHeap
    <3>5. QED
      BY <3>1, <3>2, <3>4
  <2>3. IsHeap(after, NextCosts(rest))
    BY <1>1, <1>6, <1>7, <2>2
  <2>4. StartedIn(base, rest) = StartedIn(base, left) \ {top}
    BY <1>5, <1>8 DEF StartedIn
  <2>5. HoldsStarted(after, base, rest)
    BY <1>5, <2>2, <2>3, <2>4 DEF HoldsStarted
  <2>6. QED
    BY <1>2, <1>4, <2>5
<1>9. CASE rest[top] # <<>>
  <2>1. after = AdjustTop(heap, NextCosts(rest))
    BY <1>9 DEF AfterTop
  <2>2. /\ after \in Heaps(1 .. Len(left)) /\ IsPlaced(after)
        /\ KeysOf(after) = KeysOf(heap)
        /\ \A old \in [1 .. Len(left) -> Int] :
              IsHeap(heap, old) /\ (\A k \in (1 .. Len(left)) \ {top} : NextCosts(rest)[k] = old[k])
                => IsHeap(after, NextCosts(rest))
    <3>1. PICK keys : keys = 1 .. Len(left)
      OBVIOUS
    <3>2. PICK dist \in [keys -> Int] : dist = NextCosts(rest)
      BY <1>6, <3>1
    <3>3. heap \in Heaps(keys) /\ after = AdjustTop(heap, dist)
      BY <1>1, <2>1, <3>1, <3>2
    <3>4. /\ after \in Heaps(keys) /\ IsPlaced(after)
          /\ KeysOf(after) = KeysOf(heap) /\ Size(after) = Size(heap)
          /\ LocKept(after, heap, KeysOf(heap))
          /\ IsFlat(heap) => IsHeap(after, dist)
          /\ \A old \in [keys -> Int] :
               IsHeap(heap, old) /\ (\A k \in keys \ {Top(heap)} : dist[k] = old[k])
                 => IsHeap(after, dist)
      BY <1>1, <3>3, AdjustTopOfHeap
    <3>5. QED
      BY <3>1, <3>2, <3>4
  <2>3. IsHeap(after, NextCosts(rest))
    BY <1>1, <1>6, <1>7, <2>2
  <2>4. StartedIn(base, rest) = StartedIn(base, left)
    BY <1>3, <1>5, <1>9 DEF StartedIn
  <2>5. HoldsStarted(after, base, rest)
    BY <1>5, <2>2, <2>3, <2>4 DEF HoldsStarted
  <2>6. QED
    BY <1>2, <1>4, <2>5
<1>10. QED
  BY <1>8, <1>9

(* What a generator has left is an end of what it yields. *)
IsEndOf(rest, arcs) ==
  /\ Len(rest) <= Len(arcs)
  /\ \A i \in 1 .. Len(rest) : rest[i] = arcs[i + (Len(arcs) - Len(rest))]
AreEnds(left, gens) ==
  /\ Len(left) = Len(gens)
  /\ \A g \in 1 .. Len(gens) : IsEndOf(left[g], gens[g])

LEMMA TailIsEnd ==
  ASSUME NEW A, NEW rest \in Seq(A), NEW arcs \in Seq(A), IsEndOf(rest, arcs), rest # <<>>
  PROVE  /\ IsEndOf(Tail(rest), arcs)
         /\ Len(arcs) - Len(rest) + 1 \in 1 .. Len(arcs)
         /\ rest[1] = arcs[Len(arcs) - Len(rest) + 1]
<1>1. PICK n \in Nat : n = Len(rest)
  OBVIOUS
<1>2. PICK k \in Nat : k = Len(arcs)
  OBVIOUS
<1>3. n >= 1 /\ n <= k /\ \A i \in 1 .. n : rest[i] = arcs[i + (k - n)]
  BY <1>1, <1>2, TailFacts DEF IsEndOf
<1>4. Len(Tail(rest)) = n - 1 /\ \A i \in 1 .. n - 1 : Tail(rest)[i] = rest[i + 1]
  BY <1>1, TailFacts
<1>5. ASSUME NEW i \in 1 .. n - 1
      PROVE  Tail(rest)[i] = arcs[i + (k - (n - 1))]
  <2>1. i + 1 \in 1 .. n /\ (i + 1) + (k - n) = i + (k - (n - 1))
    BY <1>3
  <2>2. rest[i + 1] = arcs[(i + 1) + (k - n)]
    BY <1>3, <2>1
  <2>3. QED
    BY <1>4, <2>1, <2>2
<1>6. IsEndOf(Tail(rest), arcs)
  BY <1>2, <1>3, <1>4, <1>5 DEF IsEndOf
<1>7. k - n + 1 \in 1 .. k /\ rest[1] = arcs[k - n + 1]
  <2>1. 1 \in 1 .. n /\ 1 + (k - n) = k - n + 1
    BY <1>3
  <2>2. QED
    BY <1>3, <2>1
<1>8. QED
  BY <1>1, <1>2, <1>6, <1>7

LEMMA YieldsAre ==
  ASSUME NEW A, NEW gens \in Seq(Seq(A))
  PROVE  /\ IsFiniteSet(Yields(gens))
         /\ \A y \in Yields(gens) : /\ y[1] \in 1 .. Len(gens)
                                    /\ y[2] \in 1 .. Len(gens[y[1]])
                                    /\ y = <<y[1], y[2]>>
                                    /\ gens[y[1]][y[2]] \in A
         /\ \A g \in 1 .. Len(gens) : \A i \in 1 .. Len(gens[g]) : <<g, i>> \in Yields(gens)
<1>1. DOMAIN gens = 1 .. Len(gens) /\ Len(gens) \in Nat
  OBVIOUS
<1>2. \A g \in 1 .. Len(gens) :
        gens[g] \in Seq(A) /\ DOMAIN gens[g] = 1 .. Len(gens[g]) /\ Len(gens[g]) \in Nat
  OBVIOUS
<1>. DEFINE Of(g) == {g} \X (DOMAIN gens[g])
<1>3. Yields(gens) = UNION {Of(g) : g \in 1 .. Len(gens)}
  BY <1>1 DEF Yields
<1>4. ASSUME NEW g \in 1 .. Len(gens)
      PROVE  IsFiniteSet(Of(g))
  <2>1. IsFiniteSet(1 .. Len(gens[g])) /\ IsFiniteSet({g})
    <3>1. PICK n \in Nat : n = Len(gens[g])
      BY <1>2
    <3>2. IsFiniteSet(1 .. n)
      BY FS_Interval
    <3>3. IsFiniteSet({g})
      BY FS_Singleton
    <3>4. QED
      BY <3>1, <3>2, <3>3
  <2>2. IsFiniteSet({g} \X (1 .. Len(gens[g])))
    BY <2>1, FS_Product
  <2>3. QED
    BY <1>2, <2>2
<1>5. IsFiniteSet(Yields(gens))
  <2>. HIDE DEF Of
  <2>1. IsFiniteSet(1 .. Len(gens))
    BY <1>1, FS_Interval
  <2>2. PICK T : T = {Of(g) : g \in 1 .. Len(gens)}
    OBVIOUS
  <2>3. IsFiniteSet(T)
    <3>1. PICK f : f = [g \in 1 .. Len(gens) |-> Of(g)]
      OBVIOUS
    <3>2. f \in Surjection(1 .. Len(gens), T)
      BY <2>2, <3>1 DEF Surjection
    <3>3. QED
      BY <2>1, <3>2, FS_Surjection
  <2>4. \A S \in T : IsFiniteSet(S)
    BY <1>4, <2>2
  <2>5. IsFiniteSet(UNION T)
    BY <2>3, <2>4, FS_UNION
  <2>6. QED
    BY <1>3, <2>2, <2>5
<1>6. ASSUME NEW y \in Yields(gens)
      PROVE  /\ y[1] \in 1 .. Len(gens) /\ y[2] \in 1 .. Len(gens[y[1]])
             /\ y = <<y[1], y[2]>> /\ gens[y[1]][y[2]] \in A
  <2>1. PICK g \in 1 .. Len(gens) : y \in {g} \X (1 .. Len(gens[g]))
    BY <1>2, <1>3
  <2>2. y[1] = g /\ y[2] \in 1 .. Len(gens[g]) /\ y = <<y[1], y[2]>>
    BY <2>1
  <2>3. QED
    BY <1>2, <2>1, <2>2
<1>7. ASSUME NEW g \in 1 .. Len(gens), NEW i \in 1 .. Len(gens[g])
      PROVE  <<g, i>> \in Yields(gens)
  BY <1>2, <1>3
<1>8. QED
  BY <1>5, <1>6, <1>7

(* What was taken of each generator is the beginning of what it yields. *)
TakenOf(left, gens) == {y \in Yields(gens) : y[2] <= Len(gens[y[1]]) - Len(left[y[1]])}
TakenAs(left, gens, arc) == {y \in TakenOf(left, gens) : gens[y[1]][y[2]] = arc}

(* Every arc was yielded as often as it was taken. *)
IsCounted(out, left, gens) ==
  /\ Len(out) = Cardinality(TakenOf(left, gens))
  /\ \A arc : Cardinality(Occurrences(out, arc)) = Cardinality(TakenAs(left, gens, arc))

IsLonger(longer, out, last, A) == out \in Seq(A) /\ last \in A /\ longer = Append(out, last)

LEMMA OneMoreOccurs ==
  ASSUME NEW A, NEW out, NEW last, NEW arc, NEW longer, IsLonger(longer, out, last, A)
  PROVE  /\ arc = last => Cardinality(Occurrences(longer, arc)) = Cardinality(Occurrences(out, arc)) + 1
         /\ arc # last => Cardinality(Occurrences(longer, arc)) = Cardinality(Occurrences(out, arc))
<1>0. out \in Seq(A) /\ last \in A /\ longer = Append(out, last)
  BY DEF IsLonger
<1>1. PICK n \in Nat : n = Len(out)
  BY <1>0
<1>2. /\ DOMAIN out = 1 .. n /\ DOMAIN longer = 1 .. n + 1
      /\ longer[n + 1] = last /\ \A i \in 1 .. n : longer[i] = out[i]
  BY <1>0, <1>1
<1>3. IsFiniteSet(Occurrences(out, arc)) /\ Occurrences(out, arc) \subseteq 1 .. n
  <2>1. IsFiniteSet(1 .. n)
    BY FS_Interval
  <2>2. Occurrences(out, arc) \subseteq 1 .. n
    BY <1>2 DEF Occurrences
  <2>3. QED
    BY <2>1, <2>2, FS_Subset
<1>4. CASE arc = last
  <2>1. Occurrences(longer, arc) = Occurrences(out, arc) \cup {n + 1}
    BY <1>2, <1>4 DEF Occurrences
  <2>2. n + 1 \notin Occurrences(out, arc)
    BY <1>3
  <2>3. QED
    BY <1>3, <1>4, <2>1, <2>2, FS_AddElement
<1>5. CASE arc # last
  <2>1. Occurrences(longer, arc) = Occurrences(out, arc)
    BY <1>2, <1>5 DEF Occurrences
  <2>2. Cardinality(Occurrences(out, arc)) \in Nat
    BY <1>3, FS_CardinalityType
  <2>3. QED
    BY <1>5, <2>1, <2>2
<1>6. QED
  BY <1>4, <1>5

(* The place of the arc taken next *)
NextTaken(left, gens, top) == <<top, Len(gens[top]) - Len(left[top]) + 1>>

LEMMA OneMoreTaken ==
  ASSUME NEW A, NEW gens \in Seq(Seq(A)), NEW left \in Seq(Seq(A)), AreEnds(left, gens),
         NEW top, NEW rest, IsRestAfter(rest, left, top, A),
         NEW place, place = NextTaken(left, gens, top)
  PROVE  /\ TakenOf(rest, gens) = TakenOf(left, gens) \cup {place}
         /\ place \notin TakenOf(left, gens)
         /\ gens[place[1]][place[2]] = left[top][1]
         /\ left[top][1] \in A
<1>1. /\ top \in 1 .. Len(gens) /\ left[top] \in Seq(A) /\ gens[top] \in Seq(A)
      /\ left[top] # <<>> /\ IsEndOf(left[top], gens[top]) /\ rest[top] = Tail(left[top])
  BY DEF IsRestAfter, AreEnds
<1>0. \A s \in Seq(A) : Len(s) \in Nat
  OBVIOUS
<1>2. PICK n \in Nat : n = Len(left[top])
  BY <1>0, <1>1
<1>3. PICK k \in Nat : k = Len(gens[top])
  BY <1>0, <1>1
<1>4. k - n + 1 \in 1 .. k /\ left[top][1] = gens[top][k - n + 1]
  BY <1>1, <1>2, <1>3, TailIsEnd
<1>5. Len(rest[top]) = n - 1 /\ left[top][1] \in A
  BY <1>1, <1>2, TailFacts
<1>6. place[1] = top /\ place[2] = k - n + 1 /\ place = <<top, k - n + 1>>
  BY <1>2, <1>3 DEF NextTaken
<1>7. place \in Yields(gens)
  BY <1>1, <1>3, <1>4, <1>6, YieldsAre
<1>8. place \notin TakenOf(left, gens)
  <2>1. ~(k - n + 1 <= k - n)
    OBVIOUS
  <2>2. QED
    BY <1>2, <1>3, <1>6, <2>1 DEF TakenOf
<1>9. ASSUME NEW y \in Yields(gens)
      PROVE  y \in TakenOf(rest, gens) <=> y \in TakenOf(left, gens) \/ y = place
  <2>1. y[1] \in 1 .. Len(gens) /\ y[2] \in 1 .. Len(gens[y[1]]) /\ y = <<y[1], y[2]>>
    BY YieldsAre
  <2>2. CASE y[1] = top
    <3>1. y[2] \in 1 .. k
      BY <1>3, <2>1, <2>2
    <3>2. y[2] <= k - (n - 1) <=> y[2] <= k - n \/ y[2] = k - n + 1
      <4>1. \A z \in Int : z <= k - (n - 1) <=> z <= k - n \/ z = k - n + 1
        OBVIOUS
      <4>2. y[2] \in Int
        BY <3>1
      <4>3. QED
        BY <4>1, <4>2
    <3>3. y = place <=> y[2] = k - n + 1
      BY <1>6, <2>1, <2>2
    <3>4. y \in TakenOf(rest, gens) <=> y[2] <= k - (n - 1)
      BY <1>3, <1>5, <2>2 DEF TakenOf
    <3>5. y \in TakenOf(left, gens) <=> y[2] <= k - n
      BY <1>2, <1>3, <2>2 DEF TakenOf
    <3>6. QED
      BY <3>2, <3>3, <3>4, <3>5
  <2>3. CASE y[1] # top
    <3>1. rest[y[1]] = left[y[1]]
      BY <2>1, <2>3 DEF IsRestAfter, AreEnds
    <3>2. y # place
      BY <1>6, <2>3
    <3>3. QED
      BY <3>1, <3>2 DEF TakenOf
  <2>4. QED
    BY <2>2, <2>3
<1>10. TakenOf(rest, gens) \subseteq Yields(gens) /\ TakenOf(left, gens) \subseteq Yields(gens)
  BY DEF TakenOf
<1>11. TakenOf(rest, gens) = TakenOf(left, gens) \cup {place}
  BY <1>7, <1>9, <1>10
<1>12. QED
  BY <1>4, <1>5, <1>6, <1>8, <1>11

LEMMA TakenIsCounted ==
  ASSUME NEW A, NEW gens \in Seq(Seq(A)), NEW left \in Seq(Seq(A)), AreEnds(left, gens),
         NEW top, NEW rest, IsRestAfter(rest, left, top, A),
         NEW out \in Seq(A), IsCounted(out, left, gens),
         NEW longer, longer = Append(out, left[top][1])
  PROVE  IsCounted(longer, rest, gens)
<1>1. PICK place : place = NextTaken(left, gens, top)
  OBVIOUS
<1>2. PICK last : last = left[top][1]
  OBVIOUS
<1>3. /\ TakenOf(rest, gens) = TakenOf(left, gens) \cup {place}
      /\ place \notin TakenOf(left, gens)
      /\ gens[place[1]][place[2]] = last /\ last \in A
  <2>1. /\ TakenOf(rest, gens) = TakenOf(left, gens) \cup {place}
        /\ place \notin TakenOf(left, gens)
        /\ gens[place[1]][place[2]] = left[top][1]
        /\ left[top][1] \in A
    BY <1>1, OneMoreTaken
  <2>2. QED
    BY <1>2, <2>1
<1>4. TakenOf(left, gens) \subseteq Yields(gens) /\ IsFiniteSet(Yields(gens))
  BY YieldsAre DEF TakenOf
<1>5. IsFiniteSet(TakenOf(left, gens))
  BY <1>4, FS_Subset
<1>6. Len(longer) = Len(out) + 1 /\ longer = Append(out, last)
  BY <1>2, <1>3
<1>7. Cardinality(TakenOf(rest, gens)) = Cardinality(TakenOf(left, gens)) + 1
  BY <1>3, <1>5, FS_AddElement
<1>8. ASSUME NEW arc
      PROVE  Cardinality(Occurrences(longer, arc)) = Cardinality(TakenAs(rest, gens, arc))
  <2>1. /\ arc = last => Cardinality(Occurrences(longer, arc)) = Cardinality(Occurrences(out, arc)) + 1
        /\ arc # last => Cardinality(Occurrences(longer, arc)) = Cardinality(Occurrences(out, arc))
    <3>1. IsLonger(longer, out, last, A)
      BY <1>3, <1>6 DEF IsLonger
    <3>2. QED
      BY <3>1, OneMoreOccurs
  <2>2. TakenAs(left, gens, arc) \subseteq TakenOf(left, gens)
    BY DEF TakenAs
  <2>3. IsFiniteSet(TakenAs(left, gens, arc))
    BY <1>5, <2>2, FS_Subset
  <2>4. Cardinality(Occurrences(out, arc)) = Cardinality(TakenAs(left, gens, arc))
    BY DEF IsCounted
  <2>5. Cardinality(TakenAs(left, gens, arc)) \in Nat
    BY <2>3, FS_CardinalityType
  <2>6. CASE arc = last
    <3>1. TakenAs(rest, gens, arc) = TakenAs(left, gens, arc) \cup {place}
      BY <1>3, <2>6 DEF TakenAs
    <3>2. place \notin TakenAs(left, gens, arc)
      BY <1>3, <2>2
    <3>3. Cardinality(TakenAs(rest, gens, arc)) = Cardinality(TakenAs(left, gens, arc)) + 1
      BY <2>3, <3>1, <3>2, FS_AddElement
    <3>4. QED
      BY <2>1, <2>4, <2>6, <3>3
  <2>7. CASE arc # last
    <3>1. TakenAs(rest, gens, arc) = TakenAs(left, gens, arc)
      BY <1>3, <2>7 DEF TakenAs
    <3>2. QED
      BY <2>1, <2>4, <2>5, <2>7, <3>1
  <2>8. QED
    BY <2>6, <2>7
<1>9. QED
  BY <1>6, <1>7, <1>8 DEF IsCounted

LEMMA EndIsBestFirst ==
  ASSUME NEW A, HaveCosts(A), NEW rest \in Seq(A), NEW arcs \in Seq(A),
         IsEndOf(rest, arcs), IsBestFirst(arcs), rest # <<>>
  PROVE  \A i \in 1 .. Len(rest) : rest[1].cost <= rest[i].cost
<1>1. PICK n \in Nat : n = Len(rest)
  OBVIOUS
<1>2. PICK k \in Nat : k = Len(arcs)
  OBVIOUS
<1>3. n >= 1 /\ n <= k /\ \A i \in 1 .. n : rest[i] = arcs[i + (k - n)]
  BY <1>1, <1>2, TailFacts DEF IsEndOf
<1>4. \A i, j \in 1 .. k : i < j => arcs[i].cost <= arcs[j].cost
  BY <1>2 DEF IsBestFirst
<1>5. \A i \in 1 .. n : rest[i].cost \in Int
  BY <1>1 DEF HaveCosts
<1>6. ASSUME NEW i \in 1 .. n
      PROVE  rest[1].cost <= rest[i].cost
  <2>1. CASE i = 1
    BY <1>5, <2>1
  <2>2. CASE i # 1
    <3>1. /\ 1 + (k - n) \in 1 .. k /\ i + (k - n) \in 1 .. k
          /\ 1 + (k - n) < i + (k - n) /\ 1 \in 1 .. n
      BY <1>3, <2>2
    <3>2. rest[1] = arcs[1 + (k - n)] /\ rest[i] = arcs[i + (k - n)]
      BY <1>3, <3>1
    <3>3. arcs[1 + (k - n)].cost <= arcs[i + (k - n)].cost
      BY <1>4, <3>1
    <3>4. QED
      BY <3>2, <3>3
  <2>3. QED
    BY <2>1, <2>2
<1>7. QED
  BY <1>1, <1>6

(* Nothing was taken of the last generator started, nor of those after it. *)
IsAhead(base, left, gens) ==
  /\ base \in 1 .. Len(gens) + 1
  /\ \A g \in 1 .. Len(gens) : g >= base => left[g] = gens[g]
  /\ base <= Len(gens) => left[base] # <<>>

(* The next arc of one generator costs no more than any arc that is left. *)
CostsLeast(left, top) ==
  \A g \in 1 .. Len(left) : \A i \in 1 .. Len(left[g]) : left[top][1].cost <= left[g][i].cost

(* The generators that were not started begin with no less than the base does,
   and the base is in the heap. *)
LEMMA TopCostsLeast ==
  ASSUME NEW A, HaveCosts(A), NEW gens \in Seq(Seq(A)), AreBestFirst(gens),
         NEW left \in Seq(Seq(A)), AreEnds(left, gens),
         NEW base, IsAhead(base, left, gens),
         NEW heap, HoldsStarted(heap, base, left), Size(heap) > 0
  PROVE  CostsLeast(left, Top(heap))
<1>0. \A x, y, z \in Int : x <= y /\ y <= z => x <= z
  OBVIOUS
<1>1. PICK top : top = Top(heap)
  OBVIOUS
<1>2. PICK costs : costs = NextCosts(left)
  OBVIOUS
<1>3. PICK N \in Nat : N = Len(left) /\ N = Len(gens)
  BY DEF AreEnds
<1>4. /\ costs \in [1 .. N -> Int]
      /\ \A g \in 1 .. N : left[g] # <<>> => costs[g] = left[g][1].cost
  BY <1>2, <1>3, NextCostsType
<1>5. heap \in Heaps(1 .. N) /\ KeysOf(heap) = StartedIn(base, left) /\ IsHeap(heap, costs)
  BY <1>2, <1>3 DEF HoldsStarted
<1>6. \A g \in StartedIn(base, left) : costs[top] <= costs[g]
  <2>1. \A i \in Places(heap) : costs[Top(heap)] <= costs[KeyAt(heap, i)]
    BY <1>4, <1>5, TopIsBest
  <2>2. QED
    BY <1>1, <1>5, <2>1 DEF KeysOf
<1>7. top \in StartedIn(base, left)
  <2>1. 0 \in Places(heap)
    BY <1>5, KeyAtType DEF Places
  <2>2. QED
    BY <1>1, <1>5, <2>1 DEF KeysOf, Top
<1>8. top \in 1 .. N /\ left[top] # <<>> /\ costs[top] = left[top][1].cost /\ costs[top] \in Int
  BY <1>3, <1>4, <1>7 DEF StartedIn
<1>9. \A g \in 1 .. N : /\ left[g] \in Seq(A) /\ gens[g] \in Seq(A)
                        /\ IsEndOf(left[g], gens[g]) /\ IsBestFirst(gens[g])
  <2>1. \A g \in 1 .. N : left[g] \in Seq(A) /\ gens[g] \in Seq(A) /\ g \in DOMAIN gens
    <3>1. DOMAIN gens = 1 .. N /\ DOMAIN left = 1 .. N
      <4>1. DOMAIN gens = 1 .. Len(gens)
        OBVIOUS
      <4>2. DOMAIN left = 1 .. Len(left)
        OBVIOUS
      <4>3. QED
        BY <1>3, <4>1, <4>2
    <3>2. \A g \in DOMAIN gens : gens[g] \in Seq(A)
      OBVIOUS
    <3>3. \A g \in DOMAIN left : left[g] \in Seq(A)
      OBVIOUS
    <3>4. QED
      BY <3>1, <3>2, <3>3
  <2>2. \A g \in 1 .. N : IsEndOf(left[g], gens[g])
    BY <1>3 DEF AreEnds
  <2>3. \A g \in DOMAIN gens : IsBestFirst(gens[g])
    BY DEF AreBestFirst
  <2>4. QED
    BY <2>1, <2>2, <2>3
<1>10. \A g \in 1 .. N : \A i \in 1 .. Len(left[g]) : left[g][i].cost \in Int
  BY <1>9 DEF HaveCosts
<1>11. ASSUME NEW g \in 1 .. N, NEW i \in 1 .. Len(left[g])
       PROVE  left[top][1].cost <= left[g][i].cost
  <2>1. left[g] # <<>> /\ 1 \in 1 .. Len(left[g])
    BY <1>9
  <2>2. left[g][1].cost <= left[g][i].cost
    BY <1>9, <2>1, EndIsBestFirst
  <2>3. left[g][1].cost \in Int /\ left[g][i].cost \in Int /\ left[top][1].cost \in Int
    BY <1>8, <1>10, <2>1
  <2>4. base \in 1 .. N + 1 /\ \A h \in 1 .. N : h >= base => left[h] = gens[h]
    BY <1>3 DEF IsAhead
  <2>5. CASE g <= base
    <3>1. g \in StartedIn(base, left)
      BY <1>3, <2>1, <2>5 DEF StartedIn
    <3>2. left[top][1].cost <= left[g][1].cost
      BY <1>4, <1>6, <1>8, <2>1, <3>1
    <3>3. QED
      BY <1>0, <2>2, <2>3, <3>2
  <2>6. CASE ~(g <= base)
    <3>1. base \in 1 .. N /\ base < g /\ g >= base /\ base >= base
      BY <2>4, <2>6
    <3>2. left[base] # <<>>
      BY <1>3, <3>1 DEF IsAhead
    <3>3. base \in StartedIn(base, left)
      BY <1>3, <3>1, <3>2 DEF StartedIn
    <3>4. left[top][1].cost <= left[base][1].cost
      BY <1>4, <1>6, <1>8, <3>1, <3>2, <3>3
    <3>5. left[base] = gens[base] /\ left[g] = gens[g]
      BY <2>4, <3>1
    <3>6. gens[base][1].cost <= gens[g][1].cost
      <4>1. DOMAIN gens = 1 .. N
        BY <1>3
      <4>2. QED
        BY <2>1, <3>1, <3>2, <3>5, <4>1 DEF AreBestFirst
    <3>7. left[base][1].cost \in Int
      <4>1. 1 \in 1 .. Len(left[base])
        BY <1>9, <3>1, <3>2
      <4>2. QED
        BY <1>10, <3>1, <4>1
    <3>8. left[base][1].cost <= left[g][1].cost
      BY <3>5, <3>6
    <3>9. left[top][1].cost <= left[g][1].cost
      BY <1>0, <2>3, <3>4, <3>7, <3>8
    <3>10. QED
      BY <1>0, <2>2, <2>3, <3>9
  <2>7. QED
    BY <2>5, <2>6
<1>12. QED
  BY <1>1, <1>3, <1>11 DEF CostsLeast

(* The arcs yielded are best-first and cost no more than those that are left. *)
IsOrdered(out, left) ==
  /\ IsBestFirst(out)
  /\ \A i \in 1 .. Len(out), g \in 1 .. Len(left) :
       \A j \in 1 .. Len(left[g]) : out[i].cost <= left[g][j].cost

LEMMA OrderStays ==
  ASSUME NEW A, HaveCosts(A), NEW left \in Seq(Seq(A)), NEW out \in Seq(A), IsOrdered(out, left),
         NEW top, CostsLeast(left, top), NEW rest, IsRestAfter(rest, left, top, A),
         NEW longer, longer = Append(out, left[top][1])
  PROVE  IsOrdered(longer, rest)
<1>1. PICK n \in Nat : n = Len(out)
  OBVIOUS
<1>2. top \in 1 .. Len(left) /\ left[top] \in Seq(A) /\ left[top] # <<>> /\ rest[top] = Tail(left[top])
  BY DEF IsRestAfter
<1>3. /\ 1 \in 1 .. Len(left[top]) /\ left[top][1] \in A
      /\ \A j \in 1 .. Len(rest[top]) : j + 1 \in 1 .. Len(left[top]) /\ rest[top][j] = left[top][j + 1]
  BY <1>2, TailFacts
<1>4. /\ Len(longer) = n + 1 /\ DOMAIN longer = 1 .. n + 1
      /\ longer[n + 1] = left[top][1] /\ \A i \in 1 .. n : longer[i] = out[i]
  BY <1>1, <1>3
<1>5. \A i \in 1 .. n : longer[i].cost <= left[top][1].cost
  BY <1>1, <1>2, <1>3, <1>4 DEF IsOrdered
<1>6. ASSUME NEW i \in 1 .. n + 1, NEW j \in 1 .. n + 1, i < j
      PROVE  longer[i].cost <= longer[j].cost
  <2>1. i \in 1 .. n
    BY <1>6
  <2>2. CASE j = n + 1
    BY <1>4, <1>5, <2>1, <2>2
  <2>3. CASE j # n + 1
    <3>1. j \in 1 .. n
      BY <2>3
    <3>2. out[i].cost <= out[j].cost
      <4>1. DOMAIN out = 1 .. n
        BY <1>1
      <4>2. \A x, y \in DOMAIN out : x < y => out[x].cost <= out[y].cost
        BY DEF IsOrdered, IsBestFirst
      <4>3. QED
        BY <1>6, <2>1, <3>1, <4>1, <4>2
    <3>3. QED
      BY <1>4, <2>1, <3>1, <3>2
  <2>4. QED
    BY <2>2, <2>3
<1>7. ASSUME NEW i \in 1 .. n + 1, NEW g \in 1 .. Len(left), NEW j \in 1 .. Len(left[g])
      PROVE  longer[i].cost <= left[g][j].cost
  <2>1. CASE i = n + 1
    BY <1>4, <2>1 DEF CostsLeast
  <2>2. CASE i # n + 1
    <3>1. i \in 1 .. n
      BY <2>2
    <3>2. QED
      BY <1>1, <1>4, <3>1 DEF IsOrdered
  <2>3. QED
    BY <2>1, <2>2
<1>8. ASSUME NEW i \in 1 .. n + 1, NEW g \in 1 .. Len(rest), NEW j \in 1 .. Len(rest[g])
      PROVE  longer[i].cost <= rest[g][j].cost
  <2>1. g \in 1 .. Len(left)
    BY DEF IsRestAfter
  <2>2. CASE g = top
    BY <1>2, <1>3, <1>7, <2>2
  <2>3. CASE g # top
    <3>1. rest[g] = left[g]
      BY <2>1, <2>3 DEF IsRestAfter
    <3>2. QED
      BY <1>7, <2>1, <3>1
  <2>4. QED
    BY <2>2, <2>3
<1>9. IsBestFirst(longer)
  BY <1>4, <1>6 DEF IsBestFirst
<1>10. QED
  BY <1>4, <1>8, <1>9 DEF IsOrdered

(* A merge, between two turns *)
IsMerging(heap, base, left, out, gens) ==
  /\ HoldsStarted(heap, base, left)
  /\ AreEnds(left, gens)
  /\ IsAhead(base, left, gens)
  /\ IsCounted(out, left, gens)
  /\ AreBestFirst(gens) => IsOrdered(out, left)

MergesOf(gens, A) ==
  {m \in [queue : Heaps(1 .. Len(gens)), base : 1 .. Len(gens) + 1, left : Seq(Seq(A)), out : Seq(A)] :
     IsMerging(m.queue, m.base, m.left, m.out, gens)}

LEMMA MergeFields ==
  ASSUME NEW A, NEW gens \in Seq(Seq(A)), NEW heap, NEW base,
         NEW left \in Seq(Seq(A)), NEW out \in Seq(A), IsMerging(heap, base, left, out, gens)
  PROVE  [queue |-> heap, base |-> base, left |-> left, out |-> out] \in MergesOf(gens, A)
<1>1. base \in 1 .. Len(gens) + 1
  BY DEF IsMerging, IsAhead
<1>2. heap \in Heaps(1 .. Len(gens))
  BY DEF IsMerging, HoldsStarted, AreEnds
<1>3. PICK m : m = [queue |-> heap, base |-> base, left |-> left, out |-> out]
  OBVIOUS
<1>4. m.queue = heap /\ m.base = base /\ m.left = left /\ m.out = out
  BY <1>3
<1>5. m \in [queue : Heaps(1 .. Len(gens)), base : 1 .. Len(gens) + 1, left : Seq(Seq(A)), out : Seq(A)]
  BY <1>1, <1>2, <1>3
<1>6. m \in MergesOf(gens, A)
  BY <1>4, <1>5 DEF MergesOf
<1>7. QED
  BY <1>3, <1>6

LEMMA FieldsOfMerge ==
  ASSUME NEW A, NEW gens, NEW m \in MergesOf(gens, A)
  PROVE  /\ m = [queue |-> m.queue, base |-> m.base, left |-> m.left, out |-> m.out]
         /\ m.queue \in Heaps(1 .. Len(gens)) /\ m.base \in 1 .. Len(gens) + 1
         /\ m.left \in Seq(Seq(A)) /\ m.out \in Seq(A)
         /\ IsMerging(m.queue, m.base, m.left, m.out, gens)
<1>1. m \in [queue : Heaps(1 .. Len(gens)), base : 1 .. Len(gens) + 1, left : Seq(Seq(A)), out : Seq(A)]
  BY DEF MergesOf
<1>2. IsMerging(m.queue, m.base, m.left, m.out, gens)
  BY DEF MergesOf
<1>3. QED
  BY <1>1, <1>2

(* pushBase leaves the generators after the one it starts alone. *)
LEMMA NextBaseIsAhead ==
  ASSUME NEW A, NEW gens \in Seq(Seq(A)), NEW left \in Seq(Seq(A)), Len(left) = Len(gens),
         NEW base \in 0 .. Len(left),
         \A g \in 1 .. Len(gens) : g > base => left[g] = gens[g],
         NEW next, next = BaseAfter(base, left)
  PROVE  IsAhead(next, left, gens)
<1>1. PICK N \in Nat : N = Len(left) /\ N = Len(gens)
  OBVIOUS
<1>2. next \in base + 1 .. N + 1 /\ (next <= N => left[next] # <<>>)
  BY <1>1, BaseAfterFacts
<1>3. base \in 0 .. N
  BY <1>1
<1>4. next \in 1 .. N + 1 /\ \A g \in 1 .. N : g >= next => g > base
  BY <1>2, <1>3
<1>5. QED
  BY <1>1, <1>2, <1>4 DEF IsAhead

LEMMA StartedFacts ==
  ASSUME NEW A, HaveCosts(A), NEW gens \in Seq(Seq(A))
  PROVE  Started(gens) \in MergesOf(gens, A) /\ Started(gens).out = <<>>
<1>1. PICK heap : heap = EmptyHeap(1 .. Len(gens))
  OBVIOUS
<1>2. DOMAIN gens = 1 .. Len(gens) /\ Len(gens) \in Nat
  OBVIOUS
<1>3. PICK next : next = BaseAfter(0, gens)
  OBVIOUS
<1>4. PICK pushed : pushed = IF next <= Len(gens) THEN Push(heap, next, NextCosts(gens)) ELSE heap
  OBVIOUS
<1>5. PICK m : m = [queue |-> heap, base |-> 0, left |-> gens, out |-> <<>>]
  OBVIOUS
<1>6. Started(gens) = PushBase(m)
  BY <1>1, <1>2, <1>5 DEF Started
<1>7. PushBase(m) = [queue |-> pushed, base |-> next, left |-> gens, out |-> <<>>]
  <2>1. PushBase(m) =
          [queue |-> IF next <= Len(gens) THEN Push(heap, next, NextCosts(gens)) ELSE heap,
           base |-> next, left |-> gens, out |-> <<>>]
    BY <1>3, <1>5, PushBaseIs
  <2>2. QED
    BY <1>4, <2>1
<1>8. 0 \in 0 .. Len(gens)
  BY <1>2
<1>9. HoldsStarted(heap, 0, gens)
  <2>1. /\ heap \in Heaps(1 .. Len(gens)) /\ IsPlaced(heap) /\ KeysOf(heap) = {}
        /\ IsHeap(heap, NextCosts(gens))
    BY <1>1, EmptyHeapFacts
  <2>2. StartedIn(0, gens) = {}
    BY <1>2 DEF StartedIn
  <2>3. QED
    BY <2>1, <2>2 DEF HoldsStarted
<1>10. HoldsStarted(pushed, next, gens)
  BY <1>3, <1>4, <1>8, <1>9, PushBaseHolds
<1>11. AreEnds(gens, gens)
  <2>1. ASSUME NEW g \in 1 .. Len(gens)
        PROVE  IsEndOf(gens[g], gens[g])
    <3>1. gens[g] \in Seq(A)
      OBVIOUS
    <3>2. PICK n \in Nat : n = Len(gens[g])
      BY <3>1
    <3>3. n <= n /\ \A i \in 1 .. n : i + (n - n) = i
      OBVIOUS
    <3>4. QED
      BY <3>2, <3>3 DEF IsEndOf
  <2>2. QED
    BY <2>1 DEF AreEnds
<1>12. IsAhead(next, gens, gens)
  BY <1>3, <1>8, NextBaseIsAhead
<1>13. IsCounted(<<>>, gens, gens)
  <2>1. ASSUME NEW y \in Yields(gens)
        PROVE  ~(y[2] <= Len(gens[y[1]]) - Len(gens[y[1]]))
    <3>1. y[1] \in 1 .. Len(gens) /\ y[2] \in 1 .. Len(gens[y[1]])
      BY YieldsAre
    <3>2. \A g \in 1 .. Len(gens) : Len(gens[g]) \in Nat
      OBVIOUS
    <3>3. PICK n \in Nat : n = Len(gens[y[1]])
      BY <3>1, <3>2
    <3>4. y[2] \in 1 .. n
      BY <3>1, <3>3
    <3>5. QED
      BY <3>3, <3>4
  <2>2. TakenOf(gens, gens) = {} /\ \A arc : TakenAs(gens, gens, arc) = {}
    BY <2>1 DEF TakenOf, TakenAs
  <2>3. \A arc : Occurrences(<<>>, arc) = {}
    BY DEF Occurrences
  <2>4. QED
    BY <2>2, <2>3, FS_EmptySet DEF IsCounted
<1>14. IsOrdered(<<>>, gens)
  BY DEF IsOrdered, IsBestFirst
<1>15. IsMerging(pushed, next, gens, <<>>, gens)
  BY <1>10, <1>11, <1>12, <1>13, <1>14 DEF IsMerging
<1>16. <<>> \in Seq(A)
  OBVIOUS
<1>17. [queue |-> pushed, base |-> next, left |-> gens, out |-> <<>>] \in MergesOf(gens, A)
  BY <1>15, <1>16, MergeFields
<1>18. QED
  BY <1>6, <1>7, <1>17

(* A turn yields one more arc. *)
LEMMA MergeTurnFacts ==
  ASSUME NEW A, HaveCosts(A), NEW gens \in Seq(Seq(A)), NEW m \in MergesOf(gens, A),
         Size(m.queue) > 0
  PROVE  MergeTurn(m) \in MergesOf(gens, A) /\ Len(MergeTurn(m).out) = Len(m.out) + 1
<1>1. PICK heap, base, left, out :
        heap = m.queue /\ base = m.base /\ left = m.left /\ out = m.out
  OBVIOUS
<1>2. /\ m = [queue |-> heap, base |-> base, left |-> left, out |-> out]
      /\ left \in Seq(Seq(A)) /\ out \in Seq(A) /\ IsMerging(heap, base, left, out, gens)
  BY <1>1, FieldsOfMerge
<1>3. /\ HoldsStarted(heap, base, left) /\ AreEnds(left, gens) /\ IsAhead(base, left, gens)
      /\ IsCounted(out, left, gens) /\ (AreBestFirst(gens) => IsOrdered(out, left))
  BY <1>2 DEF IsMerging
<1>4. Size(heap) > 0 /\ Size(heap) # 0
  <2>1. heap \in Heaps(1 .. Len(left))
    BY <1>3 DEF HoldsStarted
  <2>2. Size(heap) \in Nat
    BY <2>1, KeyAtType
  <2>3. QED
    BY <1>1, <2>2
<1>5. PICK top, rest, after, longer :
        /\ top = Top(heap) /\ rest = RestAfter(left, top) /\ after = AfterTop(heap, rest)
        /\ longer = Append(out, left[top][1])
  OBVIOUS
<1>6. /\ top \in StartedIn(base, left) /\ IsRestAfter(rest, left, top, A)
      /\ HoldsStarted(after, base, rest)
  BY <1>2, <1>3, <1>4, <1>5, TakeTopHolds
<1>7. PICK N \in Nat : N = Len(left) /\ N = Len(gens)
  BY <1>2, <1>3 DEF AreEnds
<1>8. /\ rest \in Seq(Seq(A)) /\ Len(rest) = N /\ rest[top] = Tail(left[top])
      /\ \A g \in 1 .. N : g # top => rest[g] = left[g]
  BY <1>6, <1>7 DEF IsRestAfter
<1>9. top \in 1 .. N /\ top <= base /\ left[top] # <<>>
  BY <1>6, <1>7 DEF StartedIn
<1>10. left[top] \in Seq(A) /\ left[top][1] \in A
  <2>1. left[top] \in Seq(A)
    <3>1. \A g \in 1 .. Len(left) : left[g] \in Seq(A)
      BY <1>2
    <3>2. QED
      BY <1>7, <1>9, <3>1
  <2>2. QED
    BY <1>9, <2>1, TailFacts
<1>11. longer \in Seq(A) /\ Len(longer) = Len(out) + 1
  BY <1>2, <1>5, <1>10
<1>12. AreEnds(rest, gens)
  <2>1. ASSUME NEW g \in 1 .. N
        PROVE  IsEndOf(rest[g], gens[g])
    <3>1. IsEndOf(left[g], gens[g]) /\ gens[g] \in Seq(A)
      BY <1>3, <1>7 DEF AreEnds
    <3>2. CASE g = top
      BY <1>8, <1>9, <1>10, <3>1, <3>2, TailIsEnd
    <3>3. CASE g # top
      BY <1>8, <3>1, <3>3
    <3>4. QED
      BY <3>2, <3>3
  <2>2. QED
    BY <1>7, <1>8, <2>1 DEF AreEnds
<1>13. IsCounted(longer, rest, gens)
  BY <1>2, <1>3, <1>5, <1>6, TakenIsCounted
<1>14. AreBestFirst(gens) => IsOrdered(longer, rest)
  <2>. SUFFICES ASSUME AreBestFirst(gens) PROVE IsOrdered(longer, rest)
    OBVIOUS
  <2>1. CostsLeast(left, top)
    BY <1>2, <1>3, <1>4, <1>5, TopCostsLeast
  <2>2. QED
    BY <1>2, <1>3, <1>5, <1>6, <2>1, OrderStays
<1>15. PICK taken : taken = [queue |-> after, base |-> base, left |-> rest, out |-> longer]
  OBVIOUS
<1>16. TakeTop(m) = taken
  BY <1>2, <1>5, <1>15, TakeTopIs
<1>17. MergeTurn(m) = IF top = base THEN PushBase(taken) ELSE taken
  BY <1>1, <1>4, <1>5, <1>16 DEF MergeTurn
<1>18. /\ base \in 1 .. N + 1 /\ \A g \in 1 .. N : g >= base => left[g] = gens[g]
       /\ base <= N => left[base] # <<>>
  BY <1>3, <1>7 DEF IsAhead
<1>19. CASE top # base
  <2>1. top < base /\ \A g \in 1 .. N : g >= base => g # top
    BY <1>9, <1>18, <1>19
  <2>2. IsAhead(base, rest, gens)
    <3>1. \A g \in 1 .. N : g >= base => rest[g] = gens[g]
      BY <1>8, <1>18, <2>1
    <3>2. ASSUME base <= N PROVE rest[base] # <<>>
      <4>1. base \in 1 .. N /\ base >= base
        BY <1>18, <3>2
      <4>2. QED
        BY <1>8, <1>18, <2>1, <3>2, <4>1
    <3>3. QED
      BY <1>7, <1>18, <3>1, <3>2 DEF IsAhead
  <2>3. IsMerging(after, base, rest, longer, gens)
    BY <1>6, <1>12, <1>13, <1>14, <2>2 DEF IsMerging
  <2>4. taken \in MergesOf(gens, A)
    BY <1>8, <1>11, <1>15, <2>3, MergeFields
  <2>5. taken.out = longer
    BY <1>15
  <2>6. QED
    BY <1>1, <1>11, <1>17, <1>19, <2>4, <2>5
<1>20. CASE top = base
  <2>1. base \in 0 .. Len(rest)
    BY <1>8, <1>9, <1>20
  <2>2. PICK next : next = BaseAfter(base, rest)
    OBVIOUS
  <2>3. PICK pushed : pushed = IF next <= Len(rest) THEN Push(after, next, NextCosts(rest)) ELSE after
    OBVIOUS
  <2>4. PushBase(taken) = [queue |-> pushed, base |-> next, left |-> rest, out |-> longer]
    <3>1. PushBase(taken) =
            [queue |-> IF next <= Len(rest) THEN Push(after, next, NextCosts(rest)) ELSE after,
             base |-> next, left |-> rest, out |-> longer]
      BY <1>15, <2>2, PushBaseIs
    <3>2. QED
      BY <2>3, <3>1
  <2>5. HoldsStarted(pushed, next, rest)
    BY <1>6, <1>8, <2>1, <2>2, <2>3, PushBaseHolds
  <2>6. \A g \in 1 .. N : g > base => rest[g] = gens[g]
    <3>1. \A g \in 1 .. N : g > base => g >= base /\ g # top
      BY <1>18, <1>20
    <3>2. QED
      BY <1>8, <1>18, <3>1
  <2>7. IsAhead(next, rest, gens)
    BY <1>7, <1>8, <2>1, <2>2, <2>6, NextBaseIsAhead
  <2>8. IsMerging(pushed, next, rest, longer, gens)
    BY <1>12, <1>13, <1>14, <2>5, <2>7 DEF IsMerging
  <2>9. PushBase(taken) \in MergesOf(gens, A)
    BY <1>8, <1>11, <2>4, <2>8, MergeFields
  <2>10. PushBase(taken).out = longer
    BY <2>4
  <2>11. QED
    BY <1>1, <1>11, <1>17, <1>20, <2>9, <2>10
<1>21. QED
  BY <1>19, <1>20

(* A merge ends when all is taken: when its heap is empty, and when it has
   yielded as many arcs as there are. *)
LEMMA MergeEnds ==
  ASSUME NEW A, NEW gens \in Seq(Seq(A)), NEW m \in MergesOf(gens, A),
         Size(m.queue) = 0 \/ Len(m.out) = Cardinality(Yields(gens))
  PROVE  IsMergeOf(m.out, gens)
<1>1. PICK heap, base, left, out :
        heap = m.queue /\ base = m.base /\ left = m.left /\ out = m.out
  OBVIOUS
<1>2. left \in Seq(Seq(A)) /\ out \in Seq(A) /\ IsMerging(heap, base, left, out, gens)
  BY <1>1, FieldsOfMerge
<1>3. /\ HoldsStarted(heap, base, left) /\ AreEnds(left, gens) /\ IsAhead(base, left, gens)
      /\ IsCounted(out, left, gens) /\ (AreBestFirst(gens) => IsOrdered(out, left))
  BY <1>2 DEF IsMerging
<1>4. PICK N \in Nat : N = Len(left) /\ N = Len(gens)
  BY <1>2, <1>3 DEF AreEnds
<1>5. TakenOf(left, gens) \subseteq Yields(gens) /\ IsFiniteSet(Yields(gens))
  BY YieldsAre DEF TakenOf
<1>6. TakenOf(left, gens) = Yields(gens)
  <2>1. CASE Size(heap) = 0
    <3>1. StartedIn(base, left) = {}
      <4>1. Places(heap) = {}
        BY <2>1 DEF Places
      <4>2. KeysOf(heap) = {}
        BY <4>1 DEF KeysOf
      <4>3. QED
        BY <1>3, <4>2 DEF HoldsStarted
    <3>2. base \in 1 .. N + 1 /\ (base <= N => left[base] # <<>>)
      BY <1>3, <1>4 DEF IsAhead
    <3>3. base = N + 1
      <4>1. ASSUME base <= N PROVE FALSE
        <5>1. base \in 1 .. N /\ base <= base /\ left[base] # <<>>
          BY <3>2, <4>1
        <5>2. QED
          BY <1>4, <3>1, <5>1 DEF StartedIn
      <4>2. QED
        BY <3>2, <4>1
    <3>4. \A g \in 1 .. N : left[g] = <<>>
      <4>1. \A g \in 1 .. N : g <= base
        BY <3>3
      <4>2. QED
        BY <1>4, <3>1, <4>1 DEF StartedIn
    <3>5. ASSUME NEW y \in Yields(gens)
          PROVE  y \in TakenOf(left, gens)
      <4>1. y[1] \in 1 .. N /\ y[2] \in 1 .. Len(gens[y[1]])
        BY <1>4, YieldsAre
      <4>2. \A g \in 1 .. Len(gens) : Len(gens[g]) \in Nat
        OBVIOUS
      <4>3. PICK k \in Nat : k = Len(gens[y[1]])
        BY <1>4, <4>1, <4>2
      <4>4. Len(left[y[1]]) = 0
        BY <3>4, <4>1
      <4>5. y[2] \in 1 .. k
        BY <4>1, <4>3
      <4>6. y[2] <= k - 0
        BY <4>5
      <4>7. QED
        BY <4>3, <4>4, <4>6 DEF TakenOf
    <3>6. QED
      BY <1>5, <3>5
  <2>2. CASE Len(out) = Cardinality(Yields(gens))
    <3>1. Cardinality(TakenOf(left, gens)) = Cardinality(Yields(gens))
      BY <1>3, <2>2 DEF IsCounted
    <3>2. QED
      BY <1>5, <3>1, FS_Subset
  <2>3. QED
    BY <1>1, <2>1, <2>2
<1>7. \A arc : TakenAs(left, gens, arc) = OccurrencesIn(gens, arc)
  BY <1>6 DEF TakenAs, OccurrencesIn
<1>8. \A arc : Cardinality(Occurrences(out, arc)) = Cardinality(OccurrencesIn(gens, arc))
  BY <1>3, <1>7 DEF IsCounted
<1>9. AreBestFirst(gens) => IsBestFirst(out)
  BY <1>3 DEF IsOrdered
<1>10. QED
  BY <1>1, <1>8, <1>9 DEF IsMergeOf

CanTurn(V, N, start) == N \in Nat /\ start \in V /\ \A m \in V : MergeTurn(m) \in V

AreTurns(f, V, N, start) ==
  f \in [0 .. N -> V] /\ f[0] = start /\ \A n \in 1 .. N : f[n] = MergeTurn(f[n - 1])

LEMMA TurnsExist ==
  ASSUME NEW V, NEW N, NEW start, CanTurn(V, N, start)
  PROVE  \E f : AreTurns(f, V, N, start)
<1>. USE DEF CanTurn
<1>. DEFINE turn == [x \in (1 .. N) \X V |-> MergeTurn(x[2])]
<1>1. turn \in [(1 .. N) \X V -> V] /\ \A n \in 1 .. N, m \in V : turn[<<n, m>>] = MergeTurn(m)
  OBVIOUS
<1>. HIDE DEF turn
<1>2. IsCount(V, N, start, turn)
  BY <1>1 DEF IsCount
<1>3. PICK f \in [0 .. N -> V] : f[0] = start /\ \A n \in 1 .. N : f[n] = turn[<<n, f[n - 1]>>]
  <2>. HIDE DEF CanTurn
  <2>1. QED
    BY <1>2, ForExists
<1>4. ASSUME NEW n \in 1 .. N
      PROVE  f[n] = MergeTurn(f[n - 1])
  <2>1. n - 1 \in 0 .. N
    OBVIOUS
  <2>2. f[n - 1] \in V
    BY <2>1
  <2>3. QED
    BY <1>1, <1>3, <2>2
<1>5. AreTurns(f, V, N, start)
  BY <1>3, <1>4 DEF AreTurns
<1>6. QED
  BY <1>5

(* The merge of any generators yields all that they yield, and best-first if
   they are.  (FlattenGenerators.hpp:13-18) *)
LEMMA FlattenIsMerge ==
  ASSUME NEW A, HaveCosts(A), NEW gens \in Seq(Seq(A))
  PROVE  IsMergeOf(Flatten(gens), gens)
<1>1. PICK N \in Nat : N = Cardinality(Yields(gens))
  BY YieldsAre, FS_CardinalityType
<1>2. PICK V : V = MergesOf(gens, A)
  OBVIOUS
<1>. DEFINE IsMerge(f) == f = [n \in 0 .. N |-> IF n = 0 THEN Started(gens) ELSE MergeTurn(f[n - 1])]
            merge == CHOOSE f : IsMerge(f)
<1>3. Flatten(gens) = merge[N].out
  BY <1>1 DEF Flatten
<1>4. ASSUME NEW m \in V, Size(m.queue) = 0
      PROVE  MergeTurn(m) = m
  BY <1>4 DEF MergeTurn
<1>5. ASSUME NEW m \in V, Size(m.queue) # 0
      PROVE  MergeTurn(m) \in V /\ Len(MergeTurn(m).out) = Len(m.out) + 1
  <2>1. m \in MergesOf(gens, A)
    BY <1>2
  <2>2. Size(m.queue) \in Nat
    BY <2>1, FieldsOfMerge, KeyAtType
  <2>3. Size(m.queue) > 0
    BY <1>5, <2>2
  <2>4. QED
    BY <1>2, <2>1, <2>3, MergeTurnFacts
<1>6. \A m \in V : MergeTurn(m) \in V
  BY <1>4, <1>5
<1>7. Started(gens) \in V
  BY <1>2, StartedFacts
<1>8. PICK f \in [0 .. N -> V] :
        f[0] = Started(gens) /\ \A n \in 1 .. N : f[n] = MergeTurn(f[n - 1])
  <2>1. CanTurn(V, N, Started(gens))
    BY <1>1, <1>6, <1>7 DEF CanTurn
  <2>2. PICK f : AreTurns(f, V, N, Started(gens))
    BY <2>1, TurnsExist
  <2>3. QED
    BY <2>2 DEF AreTurns
<1>9. \A n \in 1 .. N : n \in 0 .. N /\ n - 1 \in 0 .. N /\ n # 0
  OBVIOUS
<1>10. IsMerge(f)
  <2>1. \A n \in 0 .. N : n = 0 \/ n \in 1 .. N
    OBVIOUS
  <2>2. \A n \in 0 .. N : f[n] = IF n = 0 THEN Started(gens) ELSE MergeTurn(f[n - 1])
    BY <1>8, <1>9, <2>1
  <2>3. QED
    BY <1>8, <2>2
<1>11. IsMerge(merge)
  <2>. HIDE DEF IsMerge
  <2>1. QED
    BY <1>10
<1>. HIDE DEF merge
<1>12. merge[0] = Started(gens) /\ \A n \in 1 .. N : merge[n] = MergeTurn(merge[n - 1])
  <2>1. \A n \in 0 .. N : merge[n] = IF n = 0 THEN Started(gens) ELSE MergeTurn(merge[n - 1])
    BY <1>11
  <2>2. 0 \in 0 .. N
    OBVIOUS
  <2>3. QED
    BY <1>9, <2>1, <2>2
<1>. DEFINE MergedTo(n) == {m \in V : Size(m.queue) = 0 \/ Len(m.out) = n}
            Inv == [n \in 0 .. N |-> MergedTo(n)]
<1>13. \A n \in 0 .. N : Inv[n] = MergedTo(n)
  OBVIOUS
<1>. HIDE DEF Inv
<1>14. merge[0] \in Inv[0]
  <2>1. Started(gens) \in V /\ Len(Started(gens).out) = 0
    BY <1>2, StartedFacts
  <2>2. 0 \in 0 .. N
    OBVIOUS
  <2>3. QED
    BY <1>12, <1>13, <2>1, <2>2
<1>15. ASSUME NEW n \in 1 .. N, merge[n - 1] \in Inv[n - 1]
       PROVE  merge[n] \in Inv[n]
  <2>1. PICK m : m = merge[n - 1]
    OBVIOUS
  <2>2. m \in V /\ (Size(m.queue) = 0 \/ Len(m.out) = n - 1)
    BY <1>9, <1>13, <1>15, <2>1
  <2>3. merge[n] = MergeTurn(m)
    BY <1>12, <2>1
  <2>4. CASE Size(m.queue) = 0
    BY <1>4, <1>9, <1>13, <2>2, <2>3, <2>4
  <2>5. CASE Size(m.queue) # 0
    <3>1. MergeTurn(m) \in V /\ Len(MergeTurn(m).out) = Len(m.out) + 1
      BY <1>5, <2>2, <2>5
    <3>2. Len(MergeTurn(m).out) = n
      BY <2>2, <2>5, <3>1
    <3>3. QED
      BY <1>9, <1>13, <2>3, <3>1, <3>2
  <2>6. QED
    BY <2>4, <2>5
<1>16. merge[N] \in MergedTo(N)
  <2>. HIDE DEF MergedTo
  <2>1. \A n \in 0 .. N : merge[n] \in Inv[n]
    BY <1>14, <1>15, ForKeeps
  <2>2. N \in 0 .. N
    OBVIOUS
  <2>3. QED
    BY <1>13, <2>1, <2>2
<1>17. IsMergeOf(merge[N].out, gens)
  <2>1. /\ merge[N] \in MergesOf(gens, A)
        /\ Size(merge[N].queue) = 0 \/ Len(merge[N].out) = Cardinality(Yields(gens))
    BY <1>1, <1>2, <1>16
  <2>2. QED
    BY <2>1, MergeEnds
<1>18. QED
  BY <1>3, <1>17

-----------------------------------------------------------------------------
(* The arcs of a composition *)

LEMMA MatchArcsType ==
  ASSUME NEW X, NEW c, NEW s, NEW label, c.match.arcs[s.match] \in Seq(X)
  PROVE  MatchArcs(c, s, label) \in Seq(X)
<1>. PICK arcs \in Seq(X) : arcs = c.match.arcs[s.match]
  OBVIOUS
<1>. PICK N : N = Len(arcs)
  OBVIOUS
<1>. DEFINE With(n, before) == IF arcs[n].in = label THEN Append(before, arcs[n]) ELSE before
            step == [x \in (1 .. N) \X Seq(X) |-> With(x[1], x[2])]
            IsMatching(f) == f = [n \in 0 .. N |-> IF n = 0 THEN <<>> ELSE With(n, f[n - 1])]
            matching == CHOOSE f : IsMatching(f)
<1>1. N \in Nat /\ <<>> \in Seq(X) /\ \A n \in 1 .. N : arcs[n] \in X
  OBVIOUS
<1>2. MatchArcs(c, s, label) = matching[N]
  BY DEF MatchArcs
<1>3. \A n \in 1 .. N, before \in Seq(X) : With(n, before) \in Seq(X)
  BY <1>1
<1>. HIDE DEF With
<1>4. step \in [(1 .. N) \X Seq(X) -> Seq(X)]
      /\ \A n \in 1 .. N, before \in Seq(X) : step[<<n, before>>] = With(n, before)
  BY <1>3
<1>. HIDE DEF step
<1>5. PICK f \in [0 .. N -> Seq(X)] : f[0] = <<>> /\ \A n \in 1 .. N : f[n] = step[<<n, f[n - 1]>>]
  <2>1. IsCount(Seq(X), N, <<>>, step)
    BY <1>1, <1>4 DEF IsCount
  <2>2. QED
    BY <2>1, ForExists
<1>6. IsMatching(f)
  <2>1. \A n \in 1 .. N : n \in 0 .. N /\ n - 1 \in 0 .. N
    BY <1>1
  <2>2. \A n \in 1 .. N : f[n] = With(n, f[n - 1])
    BY <1>4, <1>5, <2>1
  <2>3. \A n \in 0 .. N : n = 0 \/ n \in 1 .. N
    BY <1>1
  <2>4. QED
    BY <1>5, <2>2, <2>3
<1>7. IsMatching(matching)
  <2>. HIDE DEF IsMatching
  <2>1. QED
    BY <1>6
<1>. HIDE DEF matching
<1>8. matching[0] = <<>> /\ \A n \in 1 .. N : matching[n] = With(n, matching[n - 1])
  <2>1. \A n \in 0 .. N : matching[n] = IF n = 0 THEN <<>> ELSE With(n, matching[n - 1])
    BY <1>7
  <2>2. 0 \in 0 .. N /\ \A n \in 1 .. N : n \in 0 .. N /\ n # 0
    BY <1>1
  <2>3. QED
    BY <2>1, <2>2
<1>. DEFINE Inv == [n \in 0 .. N |-> Seq(X)]
<1>9. /\ \A n \in 0 .. N : Inv[n] = Seq(X)
      /\ \A n \in 1 .. N : n \in 0 .. N /\ n - 1 \in 0 .. N
      /\ 0 \in 0 .. N /\ N \in 0 .. N
  BY <1>1
<1>. HIDE DEF Inv
<1>10. ASSUME NEW n \in 1 .. N, matching[n - 1] \in Inv[n - 1]
       PROVE  matching[n] \in Inv[n]
  <2>1. matching[n - 1] \in Seq(X)
    BY <1>9, <1>10
  <2>2. QED
    BY <1>3, <1>8, <1>9, <2>1
<1>11. matching[0] \in Inv[0]
  BY <1>1, <1>8, <1>9
<1>12. \A n \in 0 .. N : matching[n] \in Inv[n]
  BY <1>1, <1>10, <1>11, ForKeeps
<1>13. QED
  BY <1>2, <1>9, <1>12

(* The arcs out of a composed state; what filters do is of no matter here. *)
FiltersAfter(c, s) ==
  {s.filter, Normal, AfterMatchEpsilon(c, s.filter), AfterInputEpsilon(c, s.filter)}
ComposedArcs(c, s) ==
  [in : Labels, out : Labels, cost : Int,
   dst : [input : DOMAIN c.input.arcs, filter : FiltersAfter(c, s), match : DOMAIN c.match.arcs]]

IsComposition(c) == IsTransducer(c.input) /\ IsTransducer(c.match)

LEMMA GeneratorsType ==
  ASSUME NEW c, IsComposition(c), NEW s \in ComposedStates(c)
  PROVE  Generators(c, s) \in Seq(Seq(ComposedArcs(c, s)))
<1>. DEFINE I == ArcsTo(DOMAIN c.input.arcs)
            M == ArcsTo(DOMAIN c.match.arcs)
            D == [input : DOMAIN c.input.arcs, filter : FiltersAfter(c, s), match : DOMAIN c.match.arcs]
<1>1. s.input \in DOMAIN c.input.arcs /\ s.match \in DOMAIN c.match.arcs
  BY DEF ComposedStates
<1>2. c.input.arcs[s.input] \in Seq(I) /\ c.match.arcs[s.match] \in Seq(M)
  BY <1>1 DEF IsComposition, IsTransducer
<1>3. \A label : MatchArcs(c, s, label) \in Seq(M)
  BY <1>2, MatchArcsType
<1>4. \A a \in I : a.in \in Labels /\ a.out \in Labels /\ a.cost \in Int /\ a.dst \in DOMAIN c.input.arcs
  BY DEF ArcsTo, Labels
<1>5. \A m \in M : m.in \in Labels /\ m.out \in Labels /\ m.cost \in Int /\ m.dst \in DOMAIN c.match.arcs
  BY DEF ArcsTo, Labels
<1>6. Epsilon \in Labels
  BY DEF Labels
<1>7. \A q \in DOMAIN c.input.arcs, f \in FiltersAfter(c, s), m \in DOMAIN c.match.arcs :
        [input |-> q, filter |-> f, match |-> m] \in D
  OBVIOUS
<1>8. /\ s.filter \in FiltersAfter(c, s) /\ Normal \in FiltersAfter(c, s)
      /\ AfterMatchEpsilon(c, s.filter) \in FiltersAfter(c, s)
      /\ AfterInputEpsilon(c, s.filter) \in FiltersAfter(c, s)
  BY DEF FiltersAfter
<1>9. \A in, out \in Labels, cost \in Int, dst \in D :
        [in |-> in, out |-> out, cost |-> cost, dst |-> dst] \in ComposedArcs(c, s)
  BY DEF ComposedArcs
<1>10. \A x, y \in Int : x + y \in Int
  OBVIOUS
<1>. HIDE DEF I, M, D
<1>. DEFINE X == ComposedArcs(c, s)
<1>. HIDE DEF X
<1>11. \A in, out \in Labels, cost \in Int, dst \in D :
         [in |-> in, out |-> out, cost |-> cost, dst |-> dst] \in X
  BY <1>9 DEF X
<1>12. ASSUME NEW label
       PROVE  MatchOnly(c, s, label) \in Seq(X)
  <2>1. PICK arcs \in Seq(M) : arcs = MatchArcs(c, s, label)
    BY <1>3
  <2>2. ASSUME NEW m \in M
        PROVE  [in |-> Epsilon, out |-> IF m.out = Phi THEN Epsilon ELSE m.out, cost |-> m.cost,
                dst |-> [input |-> s.input, filter |-> AfterMatchEpsilon(c, s.filter), match |-> m.dst]] \in X
    BY <1>1, <1>5, <1>6, <1>7, <1>8, <1>11
  <2>3. DOMAIN arcs = 1 .. Len(arcs) /\ Len(arcs) \in Nat /\ \A i \in 1 .. Len(arcs) : arcs[i] \in M
    OBVIOUS
  <2>4. MatchOnly(c, s, label) =
          [i \in 1 .. Len(arcs) |->
             [in |-> Epsilon, out |-> IF arcs[i].out = Phi THEN Epsilon ELSE arcs[i].out,
              cost |-> arcs[i].cost,
              dst |-> [input |-> s.input, filter |-> AfterMatchEpsilon(c, s.filter),
                       match |-> arcs[i].dst]]]
    BY <2>1, <2>3 DEF MatchOnly
  <2>. DEFINE Made(m) == [in |-> Epsilon, out |-> IF m.out = Phi THEN Epsilon ELSE m.out, cost |-> m.cost,
                          dst |-> [input |-> s.input, filter |-> AfterMatchEpsilon(c, s.filter),
                                   match |-> m.dst]]
  <2>5. MatchOnly(c, s, label) = [i \in 1 .. Len(arcs) |-> Made(arcs[i])]
    BY <2>4
  <2>6. \A i \in 1 .. Len(arcs) : Made(arcs[i]) \in X
    BY <2>2, <2>3
  <2>. HIDE DEF Made
  <2>7. [i \in 1 .. Len(arcs) |-> Made(arcs[i])] \in Seq(X)
    BY <2>3, <2>6
  <2>8. QED
    BY <2>5, <2>7
<1>13. ASSUME NEW a \in I
       PROVE  InputEpsilon(c, s, a) \in Seq(X)
  <2>1. PICK arcs \in Seq(M) : arcs = MatchArcs(c, s, Epsilon)
    BY <1>3
  <2>2. ASSUME NEW m \in M
        PROVE  [in |-> a.in, out |-> m.out, cost |-> a.cost + m.cost,
                dst |-> [input |-> a.dst, filter |-> s.filter, match |-> m.dst]] \in X
    BY <1>4, <1>5, <1>7, <1>8, <1>10, <1>11
  <2>3. DOMAIN arcs = 1 .. Len(arcs) /\ Len(arcs) \in Nat /\ \A i \in 1 .. Len(arcs) : arcs[i] \in M
    OBVIOUS
  <2>4. PICK alone : alone = [in |-> a.in, out |-> Epsilon, cost |-> a.cost,
                              dst |-> [input |-> a.dst, filter |-> AfterInputEpsilon(c, s.filter),
                                       match |-> s.match]]
    OBVIOUS
  <2>5. alone \in X
    BY <1>1, <1>4, <1>6, <1>7, <1>8, <1>11, <2>4
  <2>6. PICK both : both = [i \in 1 .. Len(arcs) |->
                              [in |-> a.in, out |-> arcs[i].out, cost |-> a.cost + arcs[i].cost,
                               dst |-> [input |-> a.dst, filter |-> s.filter, match |-> arcs[i].dst]]]
    OBVIOUS
  <2>7. both \in Seq(X)
    BY <2>2, <2>3, <2>6
  <2>8. InputEpsilon(c, s, a) =
          (IF AllowInputMatchEpsilon(c, s.filter) THEN both ELSE <<>>)
          \o (IF AllowInputEpsilon(c, s.filter) THEN <<alone>> ELSE <<>>)
    BY <2>1, <2>3, <2>4, <2>6 DEF InputEpsilon
  <2>9. QED
    BY <2>5, <2>7, <2>8
<1>14. ASSUME NEW a \in I
       PROVE  InputSymbol(c, s, a) \in Seq(X)
  <2>1. Matches(c, s, a.out) \in Seq(M)
    <3>1. /\ MatchArcs(c, s, a.out) \in Seq(M) /\ MatchArcs(c, s, Rho) \in Seq(M)
          /\ MatchArcs(c, s, Sigma) \in Seq(M)
      BY <1>3
    <3>2. QED
      BY <3>1 DEF Matches
  <2>2. PICK arcs \in Seq(M) : arcs = Matches(c, s, a.out)
    BY <2>1
  <2>3. ASSUME NEW m \in M
        PROVE  [in |-> a.in, out |-> IF m.in = m.out THEN a.out ELSE m.out, cost |-> a.cost + m.cost,
                dst |-> [input |-> a.dst, filter |-> Normal, match |-> m.dst]] \in X
    BY <1>4, <1>5, <1>7, <1>8, <1>10, <1>11
  <2>4. DOMAIN arcs = 1 .. Len(arcs) /\ Len(arcs) \in Nat /\ \A i \in 1 .. Len(arcs) : arcs[i] \in M
    OBVIOUS
  <2>. DEFINE Made(m) == [in |-> a.in, out |-> IF m.in = m.out THEN a.out ELSE m.out,
                          cost |-> a.cost + m.cost,
                          dst |-> [input |-> a.dst, filter |-> Normal, match |-> m.dst]]
  <2>5. InputSymbol(c, s, a) = [i \in 1 .. Len(arcs) |-> Made(arcs[i])]
    BY <2>2, <2>4 DEF InputSymbol
  <2>6. \A i \in 1 .. Len(arcs) : Made(arcs[i]) \in X
    BY <2>3, <2>4
  <2>. HIDE DEF Made
  <2>7. [i \in 1 .. Len(arcs) |-> Made(arcs[i])] \in Seq(X)
    BY <2>4, <2>6
  <2>8. QED
    BY <2>5, <2>7
<1>15. PICK ins \in Seq(I) : ins = c.input.arcs[s.input]
  BY <1>2
<1>16. DOMAIN ins = 1 .. Len(ins) /\ Len(ins) \in Nat /\ \A i \in 1 .. Len(ins) : ins[i] \in I
  BY <1>15
<1>17. PICK middle :
         middle = [i \in 1 .. Len(ins) |-> IF ins[i].out = Epsilon THEN InputEpsilon(c, s, ins[i])
                                                               ELSE InputSymbol(c, s, ins[i])]
  OBVIOUS
<1>18. middle \in Seq(Seq(X))
  BY <1>13, <1>14, <1>16, <1>17
<1>19. PICK first, last : first = MatchOnly(c, s, Epsilon) /\ last = MatchOnly(c, s, Phi)
  OBVIOUS
<1>20. first \in Seq(X) /\ last \in Seq(X)
  BY <1>12, <1>19
<1>21. \E p, q \in BOOLEAN :
         Generators(c, s) =
           (IF p THEN <<first>> ELSE <<>>) \o middle \o (IF q THEN <<last>> ELSE <<>>)
  <2>1. PICK p, q :
          /\ p = AllowMatchEpsilon(c, s.filter)
          /\ q = (AllowMatchEpsilon(c, s.filter)
                  /\ ~\E i \in DOMAIN ins : ins[i].out # Epsilon /\ MatchArcs(c, s, ins[i].out) # <<>>)
    OBVIOUS
  <2>2. Generators(c, s) =
          (IF p THEN <<first>> ELSE <<>>) \o middle \o (IF q THEN <<last>> ELSE <<>>)
    BY <1>15, <1>16, <1>17, <1>19, <2>1 DEF Generators
  <2>3. QED
    BY <2>2
<1>22. Generators(c, s) \in Seq(Seq(X))
  BY <1>18, <1>20, <1>21
<1>23. QED
  BY <1>22 DEF X

(* Whatever is composed, and with whichever filter, merging the generators of a
   state loses no arc and keeps the order they promise. *)
THEOREM MergesAreComplete == Spec => []FlattenMerges
<1>. DEFINE IsJob == \E job \in Jobs : fst = job.fst
<1>1. Init => IsJob
  BY DEF Init, LazyInit
<1>2. IsJob /\ [Next]_vars => IsJob'
  BY InputStays
<1>3. IsJob => FlattenMerges
  <2>. SUFFICES ASSUME NEW job \in Jobs, fst = job.fst, NEW s \in fst.states
                PROVE  IsMergeOf(fst.arcs[s], Generators(Composition, s))
    BY DEF FlattenMerges
  <2>1. PICK c : c = job.fst.of
    OBVIOUS
  <2>2. IsComposition(c) /\ fst = Composed(c) /\ Composition = c
    BY <2>1, CompositionsAssumption DEF IsComposition, Composition
  <2>3. fst.states = ComposedStates(c) /\ fst.arcs = [q \in ComposedStates(c) |-> OutArcs(c, q)]
    BY <2>2 DEF Composed
  <2>4. fst.arcs[s] = Flatten(Generators(c, s)) /\ s \in ComposedStates(c)
    BY <2>3 DEF OutArcs
  <2>5. Generators(c, s) \in Seq(Seq(ComposedArcs(c, s)))
    BY <2>2, <2>4, GeneratorsType
  <2>6. HaveCosts(ComposedArcs(c, s))
    BY DEF HaveCosts, ComposedArcs
  <2>7. IsMergeOf(Flatten(Generators(c, s)), Generators(c, s))
    BY <2>5, <2>6, FlattenIsMerge
  <2>8. QED
    BY <2>2, <2>4, <2>7
<1>4. QED
  BY <1>1, <1>2, <1>3, PTL DEF Spec
=============================================================================
