---------------------------- MODULE NbestProofs ----------------------------
(* What the forest of the n best derivations keeps while they are listed, for
   every hypergraph, whatever the costs, and every request. *)
EXTENDS Nbest, BestTreeProofs

-----------------------------------------------------------------------------
(* Before the forest is built *)

TreePhases == {"choose", "acyclic", "axioms", "search", "done"}
ListPhases == {"list", "listed", "cycle", "overflow"}

NoForestYet ==
  phase \in TreePhases =>
    /\ store = <<>> /\ nodes = <<>> /\ seen = {}
    /\ stack = <<>> /\ answer = Null /\ listed = <<>>

(* What has a cost has a derivation, and so have the tails of the arc that was
   chosen for a state. *)
BestInv ==
  \A s \in States :
    /\ mu[s] <= Unreachable
    /\ mu[s] # Unreachable => HasBest(s)
    /\ pi[s] # 0 => \A t \in TailSet(hg, pi[s]) : HasBest(t)

(* Nothing comes of an unreachable part. *)
LEMMA PartsAreReachable ==
  ASSUME NEW c \in Int, NEW parts \in Seq(Int), Total(c, parts) # Unreachable,
         NEW i \in 1 .. Len(parts)
  PROVE  parts[i] # Unreachable
<1>. PICK n : n = Len(parts)
  OBVIOUS
<1>. DEFINE Inv == [k \in 0 .. n |->
              {t \in Int : (\E j \in 1 .. k : parts[j] = Unreachable) => t = Unreachable}]
<1>1. n \in Nat /\ \A k \in 1 .. n : parts[k] \in Int
  OBVIOUS
<1>2. /\ \A k \in 0 .. n : Inv[k] =
           {t \in Int : (\E j \in 1 .. k : parts[j] = Unreachable) => t = Unreachable}
      /\ \A k \in 1 .. n : k \in 0 .. n /\ k - 1 \in 0 .. n
      /\ 0 \in 0 .. n /\ n \in 0 .. n
  BY <1>1
<1>. HIDE DEF Inv
<1>3. ASSUME NEW k \in 1 .. n, NEW t \in Inv[k - 1]
      PROVE  Extend(t, parts[k]) \in Inv[k]
  <2>1. t \in Int /\ ((\E j \in 1 .. k - 1 : parts[j] = Unreachable) => t = Unreachable)
    BY <1>2
  <2>2. Extend(t, parts[k]) \in Int
    BY <1>1, <2>1, ExtendType
  <2>3. ASSUME NEW j \in 1 .. k, parts[j] = Unreachable
        PROVE  Extend(t, parts[k]) = Unreachable
    <3>1. j = k \/ j \in 1 .. k - 1
      BY <1>1
    <3>2. QED
      BY <2>1, <2>3, <3>1 DEF Extend
  <2>4. QED
    BY <1>2, <2>2, <2>3
<1>4. c \in Inv[0]
  BY <1>2
<1>5. Total(c, parts) \in Inv[n]
  BY <1>3, <1>4, TotalKeeps
<1>6. QED
  BY <1>2, <1>5

LEMMA TailsHaveCosts ==
  ASSUME IsHypergraph(hg), NEW a \in ArcIds(hg), NEW m \in [States -> Int],
         CostWith(hg, a, m) # Unreachable, NEW t \in TailSet(hg, a)
  PROVE  m[t] # Unreachable
<1>1. PICK parts : parts = PartsOf(hg, a, m)
  OBVIOUS
<1>2. /\ CostWith(hg, a, m) = Total(CostOf(hg, a), parts)
      /\ parts \in Seq(Int) /\ Len(parts) = Len(TailsOf(hg, a))
      /\ \A i \in 1 .. Len(TailsOf(hg, a)) : parts[i] = m[TailsOf(hg, a)[i]]
  BY <1>1, PartsType
<1>3. PICK i \in 1 .. Len(TailsOf(hg, a)) : t = TailsOf(hg, a)[i]
  BY ArcTypes
<1>4. CostOf(hg, a) \in Int
  BY ArcTypes
<1>5. parts[i] # Unreachable
  BY <1>2, <1>3, <1>4, PartsAreReachable
<1>6. QED
  BY <1>2, <1>3, <1>5

(* BestInv of costs and arcs that are being changed *)
IsDerived(best, s) == best.pi[s] # 0 \/ IsAxiom(hg, s)
DerivedTrees ==
  {best \in TypedTrees :
     \A s \in States :
       /\ best.mu[s] <= Unreachable
       /\ best.mu[s] # Unreachable => IsDerived(best, s)
       /\ best.pi[s] # 0 => \A t \in TailSet(hg, best.pi[s]) : IsDerived(best, t)}

LEMMA ChangeIsDerived ==
  ASSUME IsHypergraph(hg), NEW best \in DerivedTrees, NEW a \in ArcIds(hg),
         NEW cost \in Int, cost < best.mu[HeadOf(hg, a)],
         \A t \in TailSet(hg, a) : IsDerived(best, t)
  PROVE  [mu |-> [best.mu EXCEPT ![HeadOf(hg, a)] = cost],
          pi |-> [best.pi EXCEPT ![HeadOf(hg, a)] = a]] \in DerivedTrees
<1>1. PICK head : head = HeadOf(hg, a)
  OBVIOUS
<1>2. PICK next : next = [mu |-> [best.mu EXCEPT ![head] = cost],
                          pi |-> [best.pi EXCEPT ![head] = a]]
  OBVIOUS
<1>3. /\ best.mu \in [States -> Int] /\ best.pi \in [States -> {0} \cup ArcIds(hg)]
      /\ \A s \in States : best.pi[s] # 0 => HeadOf(hg, best.pi[s]) = s
  BY DEF DerivedTrees, TypedTrees
<1>4. a \in Nat \ {0} /\ head \in States
  BY <1>1, ArcTypes
<1>5. /\ next.mu \in [States -> Int] /\ next.pi \in [States -> {0} \cup ArcIds(hg)]
      /\ next.mu[head] = cost /\ next.pi[head] = a
      /\ \A s \in States : s # head => next.mu[s] = best.mu[s] /\ next.pi[s] = best.pi[s]
  BY <1>2, <1>3, <1>4
<1>6. next \in TypedTrees
  BY <1>1, <1>2, <1>3, <1>5 DEF TypedTrees
<1>7. \A s \in States : IsDerived(best, s) => IsDerived(next, s)
  BY <1>4, <1>5 DEF IsDerived
<1>8. ASSUME NEW s \in States
      PROVE  /\ next.mu[s] <= Unreachable
             /\ next.mu[s] # Unreachable => IsDerived(next, s)
             /\ next.pi[s] # 0 => \A t \in TailSet(hg, next.pi[s]) : IsDerived(next, t)
  <2>1. /\ best.mu[s] <= Unreachable
        /\ best.mu[s] # Unreachable => IsDerived(best, s)
        /\ best.pi[s] # 0 => \A t \in TailSet(hg, best.pi[s]) : IsDerived(best, t)
        /\ best.mu[head] <= Unreachable
    BY <1>4 DEF DerivedTrees
  <2>2. CASE s = head
    <3>1. next.mu[s] <= Unreachable
      BY <1>1, <1>3, <1>4, <1>5, <2>1, <2>2, UnreachableAssumption
    <3>2. IsDerived(next, s)
      BY <1>4, <1>5, <2>2 DEF IsDerived
    <3>3. \A t \in TailSet(hg, a) : t \in States
      BY ArcTypes
    <3>4. QED
      BY <1>5, <1>7, <2>2, <3>1, <3>2, <3>3
  <2>3. CASE s # head
    <3>1. next.mu[s] = best.mu[s] /\ next.pi[s] = best.pi[s]
      BY <1>5, <2>3
    <3>2. best.pi[s] # 0 => \A t \in TailSet(hg, best.pi[s]) : t \in States
      BY <1>3, ArcTypes
    <3>3. QED
      BY <1>7, <2>1, <3>1, <3>2
  <2>4. QED
    BY <2>2, <2>3
<1>9. QED
  BY <1>1, <1>2, <1>6, <1>8 DEF DerivedTrees

LEMMA ImproveIsDerived ==
  ASSUME IsHypergraph(hg), IsGraph(hg), NEW best \in DerivedTrees, NEW a \in ArcIds(hg)
  PROVE  Improve[<<best, a>>] \in DerivedTrees
<1>1. PICK cost : cost = Extend(CostOf(hg, a), best.mu[TailsOf(hg, a)[1]])
  OBVIOUS
<1>2. /\ best \in TypedTrees
      /\ best.mu \in [States -> Int] /\ best.pi \in [States -> {0} \cup ArcIds(hg)]
  BY DEF DerivedTrees, TypedTrees
<1>3. /\ a \in Nat \ {0} /\ HeadOf(hg, a) \in States /\ CostOf(hg, a) \in Int
      /\ TailsOf(hg, a)[1] \in States
  BY ArcTypes, GraphTails
<1>4. cost \in Int
  BY <1>1, <1>2, <1>3, ExtendType
<1>5. <<best, a>> \in Trees \X ArcIds(hg)
  <2>1. \A b \in ArcIds(hg) : b \in Nat
    BY ArcTypes
  <2>2. best.pi \in [States -> Nat]
    BY <1>2, <2>1
  <2>3. best = [mu |-> best.mu, pi |-> best.pi]
    BY <1>2 DEF TypedTrees
  <2>4. QED
    BY <1>2, <2>2, <2>3 DEF Trees
<1>6. Improve[<<best, a>>] = IF cost < best.mu[HeadOf(hg, a)]
                               THEN [mu |-> [best.mu EXCEPT ![HeadOf(hg, a)] = cost],
                                     pi |-> [best.pi EXCEPT ![HeadOf(hg, a)] = a]]
                               ELSE best
  BY <1>1, <1>5 DEF Improve
<1>7. ASSUME cost < best.mu[HeadOf(hg, a)]
      PROVE  \A t \in TailSet(hg, a) : IsDerived(best, t)
  <2>1. best.mu[HeadOf(hg, a)] <= Unreachable /\ best.mu[HeadOf(hg, a)] \in Int
    BY <1>2, <1>3 DEF DerivedTrees
  <2>2. cost # Unreachable
    BY <1>4, <1>7, <2>1, UnreachableAssumption
  <2>3. best.mu[TailsOf(hg, a)[1]] # Unreachable
    BY <1>1, <2>2 DEF Extend
  <2>4. IsDerived(best, TailsOf(hg, a)[1])
    BY <1>3, <2>3 DEF DerivedTrees
  <2>5. ASSUME NEW t \in TailSet(hg, a)
        PROVE  IsDerived(best, t)
    <3>1. PICK i \in 1 .. Len(TailsOf(hg, a)) : t = TailsOf(hg, a)[i]
      BY ArcTypes
    <3>2. i = 1 \/ i \in 2 .. Len(TailsOf(hg, a))
      BY ArcTypes
    <3>3. i \in 2 .. Len(TailsOf(hg, a)) => IsDerived(best, t)
      BY <3>1 DEF IsGraph, IsDerived, IsAxiom
    <3>4. QED
      BY <2>4, <3>1, <3>2, <3>3
  <2>6. QED
    BY <2>5
<1>8. QED
  BY <1>4, <1>6, <1>7, ChangeIsDerived

LEMMA ImprovedIsDerived ==
  ASSUME IsHypergraph(hg), IsGraph(hg), [mu |-> mu, pi |-> pi] \in DerivedTrees, NEW s \in States
  PROVE  Improved(s) \in DerivedTrees
<1>. DEFINE N == Len(hg.arcs)
            start == [mu |-> mu, pi |-> pi]
            Turn(n, best) == IF TailsOf(hg, n)[1] = s THEN Improve[<<best, n>>] ELSE best
            step == [x \in (1 .. N) \X DerivedTrees |-> Turn(x[1], x[2])]
            IsBest(f) == f = [n \in 0 .. N |-> IF n = 0 THEN start ELSE Turn(n, f[n - 1])]
            best == CHOOSE f : IsBest(f)
            Inv == [n \in 0 .. N |-> DerivedTrees]
<1>1. N \in Nat /\ \A n \in 1 .. N : n \in ArcIds(hg)
  BY LenProperties DEF IsHypergraph, ArcIds
<1>2. Improved(s) = best[N]
  BY DEF Improved
<1>3. ASSUME NEW n \in 1 .. N, NEW b \in DerivedTrees
      PROVE  Turn(n, b) \in DerivedTrees
  BY <1>1, ImproveIsDerived
<1>4. start \in DerivedTrees
  OBVIOUS
<1>. HIDE DEF N, Turn, start
<1>5. step \in [(1 .. N) \X DerivedTrees -> DerivedTrees]
  BY <1>3
<1>6. \A n \in 1 .. N, b \in DerivedTrees : step[<<n, b>>] = Turn(n, b)
  OBVIOUS
<1>. HIDE DEF step
<1>7. PICK f \in [0 .. N -> DerivedTrees] :
        f[0] = start /\ \A n \in 1 .. N : f[n] = step[<<n, f[n - 1]>>]
  <2>1. IsCount(DerivedTrees, N, start, step)
    BY <1>1, <1>4, <1>5 DEF IsCount
  <2>2. QED
    BY <2>1, ForExists
<1>8. IsBest(f)
  <2>1. \A n \in 1 .. N : n - 1 \in 0 .. N
    BY <1>1
  <2>2. \A n \in 1 .. N : f[n] = Turn(n, f[n - 1])
    BY <1>6, <1>7, <2>1
  <2>3. \A n \in 0 .. N : n = 0 \/ n \in 1 .. N
    BY <1>1
  <2>4. QED
    BY <1>7, <2>2, <2>3
<1>9. IsBest(best)
  <2>. HIDE DEF IsBest
  <2>1. QED
    BY <1>8
<1>. HIDE DEF best
<1>10. best[0] = start /\ \A n \in 1 .. N : best[n] = Turn(n, best[n - 1])
  BY <1>1, <1>9
<1>11. /\ \A n \in 0 .. N : Inv[n] = DerivedTrees
       /\ \A n \in 1 .. N : n \in 0 .. N /\ n - 1 \in 0 .. N
       /\ 0 \in 0 .. N /\ N \in 0 .. N
  BY <1>1
<1>. HIDE DEF Inv
<1>12. \A n \in 1 .. N : best[n - 1] \in Inv[n - 1] => best[n] \in Inv[n]
  BY <1>3, <1>10, <1>11
<1>13. best[0] \in Inv[0]
  BY <1>4, <1>10, <1>11
<1>14. \A n \in 0 .. N : best[n] \in Inv[n]
  BY <1>1, <1>12, <1>13, ForKeeps
<1>15. QED
  BY <1>2, <1>11, <1>14

LEMMA BestInvIsDerived ==
  ASSUME IInv
  PROVE  BestInv <=> [mu |-> mu, pi |-> pi] \in DerivedTrees
<1>1. [mu |-> mu, pi |-> pi] \in TypedTrees
  BY DEF IInv, BestTreeTypeOK, TypedTrees
<1>2. QED
  BY <1>1 DEF BestInv, DerivedTrees, IsDerived, HasBest

LEMMA DerivedIsBestInv ==
  ASSUME hg' = hg, [mu |-> mu', pi |-> pi'] \in DerivedTrees
  PROVE  BestInv'
BY DEF BestInv, DerivedTrees, IsDerived, HasBest

LEMMA InitIsBestInv == Init => BestInv
BY UnreachableAssumption DEF Init, BestInv, HasBest

TakesArc(a) ==
  LET head == HeadOf(hg, a)
      cost == CostWith(hg, a, mu)
  IN  /\ cost < mu[head]
      /\ mu' = [mu EXCEPT ![head] = cost]
      /\ pi' = [pi EXCEPT ![head] = a]

(* An arc the search reaches is taken or changes no cost, whatever the queue holds. *)
LEMMA ReachedArcIsTaken ==
  ASSUME IInv, ReachArc, NEW a, a = First(agenda)
  PROVE  a \in agenda /\ ((mu' = mu /\ pi' = pi) \/ TakesArc(a))
<1>1. IsHypergraph(hg) /\ agenda \subseteq ArcIds(hg)
  BY DEF IInv, JobInv, SearchTypeInv, BestTreeTypeOK
<1>2. a \in agenda
  <2>1. \A b \in agenda : b \in Nat
    BY <1>1, ArcTypes
  <2>2. QED
    BY <2>1, FirstIsMember DEF ReachArc
<1>3. Relax(HeadOf(hg, a), a) \/ (mu' = mu /\ pi' = pi)
  BY DEF ReachArc, result
<1>4. Relax(HeadOf(hg, a), a) => (mu' = mu /\ pi' = pi) \/ TakesArc(a)
  BY DEF Relax, TakesArc, result
<1>5. QED
  BY <1>2, <1>3, <1>4


LEMMA BestTreeKeepsBestInv ==
  ASSUME IInv, BestInv, [BestTreeNext]_vars
  PROVE  BestInv'
<1>1. hg' = hg /\ JobInv
  BY InputIsKept DEF IInv
<1>2. [mu |-> mu, pi |-> pi] \in DerivedTrees
  BY BestInvIsDerived
<1>3. CASE mu' = mu /\ pi' = pi
  BY <1>1, <1>3 DEF BestInv, HasBest
<1>4. CASE ChooseAcyclic \/ AddAxioms
  <2>1. mu' = AxiomCosts /\ pi' = pi /\ pi = [s \in States |-> 0]
    BY <1>4 DEF ChooseAcyclic, AddAxioms, AxiomCosts, IInv, NothingYet
  <2>2. \A s \in States : /\ mu'[s] <= Unreachable
                          /\ mu'[s] # Unreachable => IsAxiom(hg, s)
                          /\ pi'[s] = 0
    BY <2>1, UnreachableAssumption DEF AxiomCosts
  <2>3. QED
    BY <1>1, <2>2 DEF BestInv, HasBest
<1>5. CASE RelaxOutArcs
  <2>1. order \in Seq(States) /\ order # <<>> /\ IsGraph(hg)
    BY <1>5 DEF RelaxOutArcs, IInv, BestTreeTypeOK, NothingYet
  <2>2. Len(order) \in 1 .. Len(order) /\ order[Len(order)] \in States
    BY <2>1, EmptySeq, ElementOfSeq
  <2>3. PICK best : best = Improved(order[Len(order)])
    OBVIOUS
  <2>4. best \in DerivedTrees
    BY <1>1, <1>2, <2>1, <2>2, <2>3, ImprovedIsDerived DEF JobInv
  <2>5. mu' = best.mu /\ pi' = best.pi
    BY <1>5, <2>3 DEF RelaxOutArcs
  <2>6. [mu |-> mu', pi |-> pi'] = best
    BY <2>4, <2>5 DEF DerivedTrees, TypedTrees
  <2>7. QED
    BY <1>1, <2>4, <2>6, DerivedIsBestInv
<1>6. CASE ReachArc
  <2>1. PICK a : a = First(agenda)
    OBVIOUS
  <2>2. a \in agenda /\ ((mu' = mu /\ pi' = pi) \/ TakesArc(a))
    BY <1>6, <2>1, ReachedArcIsTaken
  <2>3. a \in ArcIds(hg) /\ mu \in [States -> Int] /\ IsHypergraph(hg)
    BY <2>2 DEF IInv, BestTreeTypeOK, JobInv
  <2>4. CASE TakesArc(a)
    <3>1. PICK cost : cost = CostWith(hg, a, mu)
      OBVIOUS
    <3>2. /\ cost < mu[HeadOf(hg, a)]
          /\ mu' = [mu EXCEPT ![HeadOf(hg, a)] = cost]
          /\ pi' = [pi EXCEPT ![HeadOf(hg, a)] = a]
      BY <2>4, <3>1 DEF TakesArc
    <3>3. HeadOf(hg, a) \in States /\ cost \in Int /\ mu[HeadOf(hg, a)] \in Int
      BY <2>3, <3>1, ArcTypes, CostWithType
    <3>4. mu[HeadOf(hg, a)] <= Unreachable
      BY <3>3 DEF BestInv
    <3>5. cost # Unreachable
      BY <3>2, <3>3, <3>4, UnreachableAssumption
    <3>6. \A t \in TailSet(hg, a) : t \in States /\ mu[t] # Unreachable
      BY <2>3, <3>1, <3>5, TailsHaveCosts, ArcTypes
    <3>7. \A t \in TailSet(hg, a) : IsDerived([mu |-> mu, pi |-> pi], t)
      BY <1>2, <3>6 DEF DerivedTrees
    <3>8. PICK best : best = [mu |-> mu, pi |-> pi]
      OBVIOUS
    <3>9. [mu |-> [best.mu EXCEPT ![HeadOf(hg, a)] = cost],
           pi |-> [best.pi EXCEPT ![HeadOf(hg, a)] = a]] \in DerivedTrees
      BY <1>2, <2>3, <3>2, <3>3, <3>7, <3>8, ChangeIsDerived
    <3>10. [mu |-> mu', pi |-> pi'] \in DerivedTrees
      BY <3>2, <3>8, <3>9
    <3>11. QED
      BY <1>1, <3>10, DerivedIsBestInv
  <2>5. QED
    BY <1>3, <2>2, <2>4
<1>7. QED
  BY <1>3, <1>4, <1>5, <1>6
  DEF BestTreeNext, vars, result, AcyclicDone, ChooseBestFirst, PopBest, SearchDone

-----------------------------------------------------------------------------
(* The forest as BuildLazy makes it *)

Derivs == DOMAIN store
Nodes == DOMAIN nodes
Kids(set) == [1 .. 2 -> {Null} \cup set]

LEMMA UsedArcFacts ==
  ASSUME IInv, BestInv
  PROVE  /\ hg.arcs \in Seq([head : States, tails : Seq(States), cost : Int])
         /\ Len(hg.arcs) \in Nat
         /\ mu \in [States -> Int] /\ IsHypergraph(hg)
         /\ \A a \in UsedArcs :
              /\ a \in ArcIds(hg) /\ a \in 1 .. Len(hg.arcs)
              /\ HeadOf(hg, a) \in States /\ HasBest(HeadOf(hg, a))
              /\ TailsOf(hg, a) \in Seq(States) /\ Len(TailsOf(hg, a)) \in Nat
              /\ \A i \in 1 .. Len(TailsOf(hg, a)) :
                   TailsOf(hg, a)[i] \in States /\ HasBest(TailsOf(hg, a)[i])
         /\ \A s \in States : pi[s] # 0 => pi[s] \in UsedArcs /\ HeadOf(hg, pi[s]) = s
         /\ \A s \in States : pi[s] \in {0} \cup ArcIds(hg)
<1>1. /\ IsHypergraph(hg) /\ mu \in [States -> Int] /\ pi \in [States -> {0} \cup ArcIds(hg)]
      /\ \A s \in States : pi[s] # 0 => HeadOf(hg, pi[s]) = s
  BY DEF IInv, JobInv, BestTreeTypeOK
<1>2. hg.arcs \in Seq([head : States, tails : Seq(States), cost : Int]) /\ Len(hg.arcs) \in Nat
  BY <1>1, LenProperties DEF IsHypergraph
<1>3. ASSUME NEW a \in UsedArcs
      PROVE  /\ a \in ArcIds(hg) /\ a \in 1 .. Len(hg.arcs)
             /\ HeadOf(hg, a) \in States /\ HasBest(HeadOf(hg, a))
             /\ TailsOf(hg, a) \in Seq(States) /\ Len(TailsOf(hg, a)) \in Nat
             /\ \A i \in 1 .. Len(TailsOf(hg, a)) :
                  TailsOf(hg, a)[i] \in States /\ HasBest(TailsOf(hg, a)[i])
  <2>1. a \in ArcIds(hg) /\ HasBest(HeadOf(hg, a)) /\ \A s \in TailSet(hg, a) : HasBest(s)
    BY <1>3 DEF UsedArcs
  <2>2. a \in 1 .. Len(hg.arcs)
    BY <1>2, <2>1, LenProperties DEF ArcIds
  <2>3. QED
    BY <1>1, <2>1, <2>2, ArcTypes
<1>4. \A s \in States : pi[s] # 0 => pi[s] \in UsedArcs
  BY <1>1 DEF BestInv, UsedArcs, HasBest
<1>5. QED
  BY <1>1, <1>2, <1>3, <1>4

(* The number of a derivation tells its arc. *)
LEMMA ArcDerivFacts ==
  ASSUME IInv, BestInv, NEW a \in UsedArcs
  PROVE  /\ ArcDeriv(a) \in Nat \ {0} /\ ArcOf(ArcDeriv(a)) = a
         /\ ArcDeriv(a) <= NumStates + Len(hg.arcs)
         /\ ArcDeriv(a) \in StateNodes => ArcDeriv(a) = NodeOf(HeadOf(hg, a))
         /\ ArcDeriv(a) = NodeOf(HeadOf(hg, a)) => pi[HeadOf(hg, a)] = a
<1>1. a \in 1 .. Len(hg.arcs) /\ HeadOf(hg, a) \in States /\ Len(hg.arcs) \in Nat
  BY UsedArcFacts
<1>2. PICK s \in States : s = HeadOf(hg, a)
  BY <1>1
<1>3. s \in 0 .. NumStates - 1 /\ NumStates \in Nat
  BY NumStatesAssumption DEF States
<1>4. ArcDeriv(a) = IF pi[s] = a THEN s + 1 ELSE NumStates + a
  BY <1>2 DEF ArcDeriv, NodeOf
<1>5. NodeOf(s) = s + 1 /\ StateNodes = 1 .. NumStates
  BY DEF NodeOf, StateNodes
<1>6. \A d : ArcOf(d) = IF d \in 1 .. NumStates THEN pi[d - 1] ELSE d - NumStates
  BY DEF ArcOf, StateNodes
<1>7. CASE pi[s] = a
  <2>1. ArcDeriv(a) = s + 1 /\ s + 1 \in 1 .. NumStates /\ (s + 1) - 1 = s
    BY <1>3, <1>4, <1>7
  <2>2. ArcOf(ArcDeriv(a)) = a
    BY <1>6, <1>7, <2>1
  <2>3. s + 1 \in Nat \ {0} /\ s + 1 <= NumStates + Len(hg.arcs)
    BY <1>1, <1>3
  <2>4. QED
    BY <1>2, <1>5, <1>7, <2>1, <2>2, <2>3
<1>8. CASE pi[s] # a
  <2>1. ArcDeriv(a) = NumStates + a
    BY <1>4, <1>8
  <2>2. /\ NumStates + a \notin 1 .. NumStates /\ (NumStates + a) - NumStates = a
        /\ NumStates + a \in Nat \ {0} /\ NumStates + a <= NumStates + Len(hg.arcs)
        /\ NumStates + a # s + 1
    BY <1>1, <1>3
  <2>3. ArcOf(ArcDeriv(a)) = a
    BY <1>6, <2>1, <2>2
  <2>4. QED
    BY <1>2, <1>5, <2>1, <2>2, <2>3
<1>9. QED
  BY <1>7, <1>8

EdgeOf(a) == Edge(KidsOfArc(a), ArcDeriv(a))
UsedInto(s) == {a \in UsedArcs : HeadOf(hg, a) = s}

LEMMA EdgesIntoFacts ==
  ASSUME IInv, BestInv, NEW s \in States
  PROVE  /\ EdgesInto(s) \in Seq({EdgeOf(a) : a \in UsedInto(s)})
         /\ \A k, l \in 1 .. Len(EdgesInto(s)) :
              k # l => EdgesInto(s)[k].deriv # EdgesInto(s)[l].deriv
         /\ \A a \in UsedInto(s) : \E k \in 1 .. Len(EdgesInto(s)) : EdgesInto(s)[k] = EdgeOf(a)
<1>. DEFINE N == Len(hg.arcs)
            V == Seq({EdgeOf(a) : a \in UsedInto(s)})
            Turn(n, edges) == IF n \in UsedArcs /\ HeadOf(hg, n) = s
                                THEN Append(edges, Edge(KidsOfArc(n), ArcDeriv(n))) ELSE edges
            step == [x \in (1 .. N) \X V |-> Turn(x[1], x[2])]
            IsEdges(f) == f = [n \in 0 .. N |-> IF n = 0 THEN <<>> ELSE Turn(n, f[n - 1])]
            edges == CHOOSE f : IsEdges(f)
            IsPrefix(n, e) ==
              /\ \A k \in 1 .. Len(e) : ArcOf(e[k].deriv) <= n
              /\ \A k, l \in 1 .. Len(e) : k # l => e[k].deriv # e[l].deriv
              /\ \A a \in UsedInto(s) : a <= n => \E k \in 1 .. Len(e) : e[k] = EdgeOf(a)
            Inv == [n \in 0 .. N |-> {e \in V : IsPrefix(n, e)}]
<1>1. N \in Nat /\ \A a \in UsedInto(s) : a \in 1 .. N /\ ArcOf(EdgeOf(a).deriv) = a
  BY UsedArcFacts, ArcDerivFacts DEF UsedInto, EdgeOf, Edge
<1>2. EdgesInto(s) = edges[N]
  BY DEF EdgesInto
<1>3. \A n \in 1 .. N, e \in V :
        Turn(n, e) = IF n \in UsedInto(s) THEN Append(e, EdgeOf(n)) ELSE e
  BY DEF UsedInto, EdgeOf
<1>4. <<>> \in V
  BY EmptySeq
<1>5. \A n \in 1 .. N, e \in V : Turn(n, e) \in V
  <2>. HIDE DEF Turn
  <2>1. \A n \in UsedInto(s), e \in V : Append(e, EdgeOf(n)) \in V
    BY AppendProperties
  <2>2. QED
    BY <1>3, <2>1
<1>. HIDE DEF Turn, V
<1>6. step \in [(1 .. N) \X V -> V]
  BY <1>5
<1>7. \A n \in 1 .. N, e \in V : step[<<n, e>>] = Turn(n, e)
  OBVIOUS
<1>. HIDE DEF N, step
<1>8. PICK f \in [0 .. N -> V] :
        f[0] = <<>> /\ \A n \in 1 .. N : f[n] = step[<<n, f[n - 1]>>]
  <2>1. IsCount(V, N, <<>>, step)
    BY <1>1, <1>4, <1>6 DEF IsCount
  <2>2. QED
    BY <2>1, ForExists
<1>9. IsEdges(f)
  <2>1. \A n \in 1 .. N : n - 1 \in 0 .. N
    BY <1>1
  <2>2. \A n \in 1 .. N : f[n] = Turn(n, f[n - 1])
    BY <1>7, <1>8, <2>1
  <2>3. \A n \in 0 .. N : n = 0 \/ n \in 1 .. N
    BY <1>1
  <2>4. QED
    BY <1>8, <2>2, <2>3
<1>10. IsEdges(edges)
  <2>. HIDE DEF IsEdges
  <2>1. QED
    BY <1>9
<1>. HIDE DEF edges
<1>11. edges[0] = <<>> /\ \A n \in 1 .. N : edges[n] = Turn(n, edges[n - 1])
  BY <1>1, <1>10
<1>12. /\ \A n \in 0 .. N : Inv[n] = {e \in V : IsPrefix(n, e)}
       /\ \A n \in 1 .. N : n \in 0 .. N /\ n - 1 \in 0 .. N
       /\ 0 \in 0 .. N /\ N \in 0 .. N
  BY <1>1
<1>. HIDE DEF Inv
<1>13. ASSUME NEW n \in 1 .. N, NEW e \in V, IsPrefix(n - 1, e)
       PROVE  IsPrefix(n, Turn(n, e))
  <2>1. \A k \in 1 .. Len(e) :
          /\ e[k] \in {EdgeOf(a) : a \in UsedInto(s)}
          /\ ArcOf(e[k].deriv) <= n - 1 /\ ArcOf(e[k].deriv) \in 1 .. N
    <3>1. \A k \in 1 .. Len(e) : e[k] \in {EdgeOf(a) : a \in UsedInto(s)}
      BY ElementOfSeq DEF V
    <3>2. QED
      BY <1>1, <1>13, <3>1
  <2>2. Len(e) \in Nat
    BY LenProperties DEF V
  <2>3. CASE n \in UsedInto(s)
    <3>1. PICK q : q = Append(e, EdgeOf(n))
      OBVIOUS
    <3>2. /\ Len(q) = Len(e) + 1 /\ q[Len(e) + 1] = EdgeOf(n)
          /\ \A k \in 1 .. Len(e) : q[k] = e[k]
      <4>1. e \in Seq({EdgeOf(a) : a \in UsedInto(s)})
        BY DEF V
      <4>2. EdgeOf(n) \in {EdgeOf(a) : a \in UsedInto(s)}
        BY <2>3
      <4>3. QED
        BY <3>1, <4>1, <4>2, AppendProperties
    <3>3. \A k \in 1 .. Len(q) : k \in 1 .. Len(e) \/ k = Len(e) + 1
      BY <2>2, <3>2
    <3>4. ArcOf(EdgeOf(n).deriv) = n
      BY <1>1, <2>3
    <3>5. \A k \in 1 .. Len(q) : ArcOf(q[k].deriv) <= n
      <4>1. \A k \in 1 .. Len(e) : ArcOf(e[k].deriv) <= n
        BY <1>1, <2>1
      <4>2. QED
        BY <1>1, <3>2, <3>3, <3>4, <4>1
    <3>6. \A k \in 1 .. Len(e) : e[k].deriv # EdgeOf(n).deriv
      BY <1>1, <2>1, <3>4
    <3>7. \A k, l \in 1 .. Len(q) : k # l => q[k].deriv # q[l].deriv
      BY <1>13, <3>2, <3>3, <3>6
    <3>8. ASSUME NEW a \in UsedInto(s), a <= n
          PROVE  \E k \in 1 .. Len(q) : q[k] = EdgeOf(a)
      <4>1. a = n \/ a <= n - 1
        BY <1>1, <3>8
      <4>2. CASE a = n
        BY <2>2, <3>2, <4>2
      <4>3. CASE a <= n - 1
        <5>1. PICK k \in 1 .. Len(e) : e[k] = EdgeOf(a)
          BY <1>13, <4>3
        <5>2. k \in 1 .. Len(q) /\ q[k] = EdgeOf(a)
          BY <2>2, <3>2, <5>1
        <5>3. QED
          BY <5>2
      <4>4. QED
        BY <4>1, <4>2, <4>3
    <3>9. Turn(n, e) = q
      BY <1>3, <2>3, <3>1
    <3>10. QED
      BY <3>5, <3>7, <3>8, <3>9
  <2>4. CASE n \notin UsedInto(s)
    <3>1. Turn(n, e) = e
      BY <1>3, <2>4
    <3>2. \A k \in 1 .. Len(e) : ArcOf(e[k].deriv) <= n
      BY <1>1, <2>1
    <3>3. \A a \in UsedInto(s) : a <= n => a <= n - 1
      BY <1>1, <2>4
    <3>4. QED
      BY <1>13, <3>1, <3>2, <3>3
  <2>5. QED
    BY <2>3, <2>4
<1>14. \A n \in 1 .. N : edges[n - 1] \in Inv[n - 1] => edges[n] \in Inv[n]
  <2>. HIDE DEF IsPrefix
  <2>1. QED
    BY <1>5, <1>11, <1>12, <1>13
<1>15. edges[0] \in Inv[0]
  <2>1. Len(<<>>) = 0 /\ \A a \in UsedInto(s) : ~(a <= 0)
    BY <1>1, EmptySeq
  <2>2. \A k \in 1 .. Len(<<>>) : FALSE
    BY <2>1
  <2>3. IsPrefix(0, <<>>)
    BY <2>1, <2>2
  <2>4. QED
    BY <1>4, <1>11, <1>12, <2>3
<1>16. edges[N] \in Inv[N]
  BY <1>1, <1>12, <1>14, <1>15, ForKeeps
<1>17. edges[N] \in V /\ IsPrefix(N, edges[N])
  <2>. HIDE DEF IsPrefix
  <2>1. QED
    BY <1>12, <1>16
<1>18. QED
  BY <1>1, <1>2, <1>17 DEF V

JointDerivIds == {JointOf(j[1], j[2]) : j \in Joints}
KidNodes == JointDerivIds \cup {NodeOf(s) : s \in {t \in States : HasBest(t)}}
BuiltNodes == StateNodes \cup JointDerivIds
BuiltDerivs == {ArcDeriv(a) : a \in UsedArcs} \cup KidNodes

LEMMA PairType ==
  ASSUME NEW S, NEW k \in S, NEW l \in S
  PROVE  /\ <<k, l>> \in [1 .. 2 -> S] /\ <<k, l>>[1] = k /\ <<k, l>>[2] = l
         /\ \A i \in 1 .. 2 : <<k, l>>[i] \in S
OBVIOUS

LEMMA NodeOfFacts ==
  ASSUME NEW s \in States
  PROVE  NodeOf(s) \in StateNodes /\ NodeOf(s) \in Nat \ {0} /\ NodeOf(s) - 1 = s
BY NumStatesAssumption DEF States, NodeOf, StateNodes

LEMMA StateNodeFacts ==
  ASSUME NEW n \in StateNodes
  PROVE  n - 1 \in States /\ NodeOf(n - 1) = n /\ n \in Nat \ {0}
BY NumStatesAssumption DEF States, NodeOf, StateNodes

LEMMA TimesIsAbove ==
  ASSUME NEW i \in Nat, i >= 2, NEW m \in Nat
  PROVE  i * m \in Nat /\ i * m >= m
OBVIOUS

LEMMA JointFacts ==
  ASSUME IInv, BestInv, NEW d \in JointDerivIds
  PROVE  /\ d \in Nat \ {0} /\ d > NumStates + Len(hg.arcs) /\ d \notin StateNodes
         /\ \E a \in UsedArcs : \E i \in 2 .. Len(TailsOf(hg, a)) - 1 :
              d = JointOf(a, i) /\ <<a, i>> \in Joints
<1>1. PICK j \in Joints : d = JointOf(j[1], j[2])
  BY DEF JointDerivIds
<1>2. PICK a \in UsedArcs : j \in {<<a, i>> : i \in 2 .. Len(TailsOf(hg, a)) - 1}
  BY DEF Joints
<1>3. PICK i \in 2 .. Len(TailsOf(hg, a)) - 1 : j = <<a, i>>
  BY <1>2
<1>4. a \in 1 .. Len(hg.arcs) /\ Len(hg.arcs) \in Nat /\ Len(TailsOf(hg, a)) \in Nat
  BY UsedArcFacts
<1>5. i \in Nat /\ i >= 2
  BY <1>4
<1>6. PICK w : w = i * Len(hg.arcs)
  OBVIOUS
<1>7. w \in Nat /\ w >= Len(hg.arcs)
  BY <1>4, <1>5, <1>6, TimesIsAbove
<1>8. d = NumStates + w + a
  BY <1>1, <1>3, <1>6 DEF JointOf
<1>9. d \in Nat \ {0} /\ d > NumStates + Len(hg.arcs) /\ d \notin 1 .. NumStates
  BY <1>4, <1>7, <1>8, NumStatesAssumption
<1>10. QED
  BY <1>1, <1>3, <1>9 DEF StateNodes

LEMMA JoinedToType ==
  ASSUME IInv, BestInv, NEW a \in UsedArcs, NEW i \in 1 .. Len(TailsOf(hg, a)) - 1
  PROVE  JoinedTo(a, i) \in KidNodes
<1>1. Len(TailsOf(hg, a)) \in Nat
  BY UsedArcFacts
<1>2. CASE i = 1
  <2>1. 1 \in 1 .. Len(TailsOf(hg, a))
    BY <1>1
  <2>2. TailsOf(hg, a)[1] \in States /\ HasBest(TailsOf(hg, a)[1])
    BY <2>1, UsedArcFacts
  <2>3. QED
    BY <1>2, <2>2 DEF JoinedTo, KidNodes
<1>3. CASE i # 1
  <2>1. i \in 2 .. Len(TailsOf(hg, a)) - 1
    BY <1>1, <1>3
  <2>2. <<a, i>> \in Joints
    BY <2>1 DEF Joints
  <2>3. JointOf(a, i) \in JointDerivIds
    BY <2>2 DEF JointDerivIds
  <2>4. QED
    BY <1>3, <2>3 DEF JoinedTo, KidNodes
<1>4. QED
  BY <1>2, <1>3

LEMMA KidsOfJointType ==
  ASSUME IInv, BestInv, NEW a \in UsedArcs, NEW i \in 2 .. Len(TailsOf(hg, a))
  PROVE  KidsOfJoint(a, i)[1] \in KidNodes /\ KidsOfJoint(a, i)[2] \in KidNodes
         /\ KidsOfJoint(a, i) = <<KidsOfJoint(a, i)[1], KidsOfJoint(a, i)[2]>>
<1>1. Len(TailsOf(hg, a)) \in Nat
  BY UsedArcFacts
<1>2. i - 1 \in 1 .. Len(TailsOf(hg, a)) - 1 /\ i \in 1 .. Len(TailsOf(hg, a))
  BY <1>1
<1>3. JoinedTo(a, i - 1) \in KidNodes
  BY <1>2, JoinedToType
<1>4. NodeOf(TailsOf(hg, a)[i]) \in KidNodes
  BY <1>2, UsedArcFacts DEF KidNodes
<1>5. QED
  BY <1>3, <1>4 DEF KidsOfJoint

(* 0 is no node. *)
LEMMA KidNodesFacts ==
  ASSUME IInv, BestInv
  PROVE  /\ KidNodes \subseteq BuiltNodes /\ KidNodes \subseteq BuiltDerivs
         /\ \A n \in BuiltNodes : n \in Nat \ {0}
         /\ \A d \in BuiltDerivs : d \in Nat \ {0}
         /\ Null \notin BuiltNodes /\ Null \notin BuiltDerivs
<1>1. KidNodes \subseteq BuiltNodes
  BY NodeOfFacts DEF KidNodes, BuiltNodes
<1>2. \A n \in BuiltNodes : n \in Nat \ {0}
  BY StateNodeFacts, JointFacts DEF BuiltNodes
<1>3. \A d \in BuiltDerivs : d \in Nat \ {0}
  BY <1>1, <1>2, ArcDerivFacts DEF BuiltDerivs
<1>4. KidNodes \subseteq BuiltDerivs
  BY DEF BuiltDerivs
<1>5. QED
  BY <1>1, <1>2, <1>3, <1>4 DEF Null

LEMMA KidsOfArcType ==
  ASSUME IInv, BestInv, NEW a \in UsedArcs
  PROVE  /\ KidsOfArc(a) \in Kids(KidNodes)
         /\ KidsOfArc(a)[1] = Null => KidsOfArc(a)[2] = Null
<1>1. Len(TailsOf(hg, a)) \in Nat
  BY UsedArcFacts
<1>2. PICK n : n = Len(TailsOf(hg, a))
  OBVIOUS
<1>3. CASE n = 0
  <2>1. KidsOfArc(a) = <<Null, Null>>
    BY <1>2, <1>3 DEF KidsOfArc
  <2>2. QED
    BY <2>1, PairType DEF Kids
<1>4. CASE n = 1
  <2>1. KidsOfArc(a) = <<NodeOf(TailsOf(hg, a)[1]), Null>>
    BY <1>2, <1>4 DEF KidsOfArc, JoinedTo
  <2>2. NodeOf(TailsOf(hg, a)[1]) \in KidNodes
    <3>1. 1 \in 1 .. Len(TailsOf(hg, a))
      BY <1>2, <1>4
    <3>2. TailsOf(hg, a)[1] \in States /\ HasBest(TailsOf(hg, a)[1])
      BY <3>1, UsedArcFacts
    <3>3. QED
      BY <3>2 DEF KidNodes
  <2>3. QED
    BY <2>1, <2>2, PairType DEF Kids
<1>5. CASE n >= 2
  <2>1. KidsOfArc(a) = KidsOfJoint(a, n)
    BY <1>1, <1>2, <1>5 DEF KidsOfArc
  <2>2. n \in 2 .. Len(TailsOf(hg, a))
    BY <1>1, <1>2, <1>5
  <2>3. /\ KidsOfJoint(a, n)[1] \in KidNodes /\ KidsOfJoint(a, n)[2] \in KidNodes
        /\ KidsOfJoint(a, n) = <<KidsOfJoint(a, n)[1], KidsOfJoint(a, n)[2]>>
    BY <2>2, KidsOfJointType
  <2>4. KidsOfArc(a) \in Kids(KidNodes)
    <3>1. KidsOfJoint(a, n)[1] \in {Null} \cup KidNodes /\ KidsOfJoint(a, n)[2] \in {Null} \cup KidNodes
      BY <2>3
    <3>2. <<KidsOfJoint(a, n)[1], KidsOfJoint(a, n)[2]>> \in [1 .. 2 -> {Null} \cup KidNodes]
      BY <3>1, PairType
    <3>3. QED
      BY <2>1, <2>3, <3>2 DEF Kids
  <2>5. KidsOfArc(a)[1] # Null
    BY <2>1, <2>3, KidNodesFacts
  <2>6. QED
    BY <2>4, <2>5
<1>6. QED
  BY <1>1, <1>2, <1>3, <1>4, <1>5

LEMMA CostOfJointType ==
  ASSUME IInv, BestInv, NEW a \in UsedArcs, NEW i \in 1 .. Len(TailsOf(hg, a))
  PROVE  CostOfJoint(a, i) \in Int
<1>. DEFINE c == CostWith(hg, a, mu)
            part(k) == mu[TailsOf(hg, a)[k]]
            N == i - 1
            step == [x \in (1 .. N) \X Int |-> x[2] - part(x[1])]
            IsCost(f) == f = [k \in 1 .. i |-> IF k = 1 THEN c ELSE f[k - 1] - part(k - 1)]
            w == CHOOSE f : IsCost(f)
<1>1. /\ i \in Nat \ {0} /\ N \in Nat /\ N = i - 1
      /\ \A k \in 1 .. N : k \in 1 .. Len(TailsOf(hg, a))
  BY UsedArcFacts
<1>2. CostOfJoint(a, i) = w[i]
  BY DEF CostOfJoint
<1>3. c \in Int /\ \A k \in 1 .. N : part(k) \in Int
  BY <1>1, UsedArcFacts, CostWithType
<1>. HIDE DEF c, part
<1>4. step \in [(1 .. N) \X Int -> Int]
  BY <1>3
<1>5. \A k \in 1 .. N, x \in Int : step[<<k, x>>] = x - part(k)
  OBVIOUS
<1>. HIDE DEF N, step
<1>6. PICK g \in [0 .. N -> Int] : g[0] = c /\ \A k \in 1 .. N : g[k] = step[<<k, g[k - 1]>>]
  <2>1. IsCount(Int, N, c, step)
    BY <1>1, <1>3, <1>4 DEF IsCount
  <2>2. QED
    BY <2>1, ForExists
<1>7. PICK f : f = [k \in 1 .. i |-> g[k - 1]]
  OBVIOUS
<1>8. IsCost(f)
  <2>1. \A k \in 1 .. i : k = 1 \/ (k - 1 \in 1 .. N /\ k - 1 \in 1 .. i /\ (k - 1) - 1 \in 0 .. N)
    BY <1>1
  <2>2. \A k \in 1 .. i : k # 1 => g[k - 1] = g[(k - 1) - 1] - part(k - 1)
    BY <1>5, <1>6, <2>1
  <2>3. \A k \in 1 .. i : k # 1 => f[k - 1] = g[(k - 1) - 1]
    BY <1>7, <2>1
  <2>4. \A k \in 1 .. i : f[k] = IF k = 1 THEN c ELSE f[k - 1] - part(k - 1)
    BY <1>6, <1>7, <2>2, <2>3
  <2>5. QED
    BY <1>7, <2>4
<1>9. IsCost(w)
  <2>. HIDE DEF IsCost
  <2>1. QED
    BY <1>8
<1>. HIDE DEF w
<1>10. w[1] = c /\ \A k \in 1 .. N : w[k + 1] = w[k] - part(k)
  <2>1. 1 \in 1 .. i /\ \A k \in 1 .. N : k + 1 \in 1 .. i /\ k + 1 # 1 /\ (k + 1) - 1 = k
    BY <1>1
  <2>2. QED
    BY <1>9, <2>1
<1>11. PICK h : h = [k \in 0 .. N |-> w[k + 1]]
  OBVIOUS
<1>12. PICK Inv : Inv = [k \in 0 .. N |-> Int]
  OBVIOUS
<1>13. /\ \A k \in 1 .. N : k \in 0 .. N /\ k - 1 \in 0 .. N /\ (k - 1) + 1 = k
       /\ 0 \in 0 .. N /\ N \in 0 .. N /\ N + 1 = i /\ 0 + 1 = 1
  BY <1>1
<1>14. \A k \in 1 .. N : h[k] = h[k - 1] - part(k)
  BY <1>10, <1>11, <1>13
<1>15. \A k \in 1 .. N : h[k - 1] \in Inv[k - 1] => h[k] \in Inv[k]
  BY <1>3, <1>12, <1>13, <1>14
<1>16. h[0] \in Inv[0]
  BY <1>3, <1>10, <1>11, <1>12, <1>13
<1>17. h[N] \in Inv[N]
  BY <1>1, <1>13, <1>15, <1>16, ForKeeps
<1>18. h[N] = w[i] /\ Inv[N] = Int
  BY <1>11, <1>12, <1>13
<1>19. QED
  BY <1>2, <1>17, <1>18

DerivType(set) ==
  [cost : Int, leaf : States \cup {NoState}, kids : Kids(set), arc : {0} \cup ArcIds(hg)]
EdgeType(ns, ds) == [kids : Kids(ns), places : [1 .. 2 -> Nat], deriv : ds]
NodeType(ns, ds) == [queue : Seq(EdgeType(ns, ds)), memo : Seq({NONE, PENDING} \cup ds)]

(* Numbers of derivations and nodes are such, and there are finitely many. *)
StoreOK ==
  /\ store \in [Derivs -> DerivType(Derivs)]
  /\ Derivs # {} /\ \E m \in Nat : Derivs \subseteq 1 .. m
NodesOK ==
  /\ nodes \in [Nodes -> NodeType(Nodes, Derivs)]
  /\ StateNodes \subseteq Nodes /\ Null \notin Nodes
  /\ \A n \in Nodes : \A i \in 1 .. Len(nodes[n].queue) :
       nodes[n].queue[i].kids[1] = Null => nodes[n].queue[i].kids[2] = Null

LeafIds == {NodeOf(s) : s \in {t \in States : IsAxiom(hg, t) /\ pi[t] = 0}}

LEMMA LeafFacts ==
  ASSUME IInv, BestInv, NEW d \in LeafIds
  PROVE  /\ \E s \in States : d = NodeOf(s) /\ IsAxiom(hg, s) /\ pi[s] = 0 /\ s = d - 1
         /\ d \in KidNodes /\ d \in StateNodes
         /\ \A a \in UsedArcs : d # ArcDeriv(a)
<1>1. PICK s \in States : d = NodeOf(s) /\ IsAxiom(hg, s) /\ pi[s] = 0
  BY DEF LeafIds
<1>2. d \in StateNodes /\ s = d - 1
  BY <1>1, NodeOfFacts
<1>3. HasBest(s)
  BY <1>1 DEF HasBest
<1>4. d \in KidNodes
  BY <1>1, <1>3 DEF KidNodes
<1>5. ASSUME NEW a \in UsedArcs, d = ArcDeriv(a)
      PROVE  FALSE
  <2>1. a # 0 /\ HeadOf(hg, a) \in States
    BY UsedArcFacts
  <2>2. d = NodeOf(HeadOf(hg, a)) /\ pi[HeadOf(hg, a)] = a
    BY <1>2, <1>5, ArcDerivFacts
  <2>3. HeadOf(hg, a) = s
    BY <1>2, <2>1, <2>2, NodeOfFacts
  <2>4. QED
    BY <1>1, <2>1, <2>2, <2>3
<1>6. QED
  BY <1>1, <1>2, <1>4, <1>5

LEMMA BuiltDerivKinds ==
  ASSUME IInv, BestInv
  PROVE  /\ BuiltDerivs = (LeafIds \cup {ArcDeriv(a) : a \in UsedArcs}) \cup JointDerivIds
         /\ \A a \in UsedArcs : ArcDeriv(a) \notin LeafIds /\ ArcDeriv(a) \notin JointDerivIds
         /\ \A d \in LeafIds : d \notin JointDerivIds
<1>1. ASSUME NEW s \in States, HasBest(s)
      PROVE  NodeOf(s) \in LeafIds \cup {ArcDeriv(a) : a \in UsedArcs}
  <2>1. CASE pi[s] = 0
    BY <1>1, <2>1 DEF HasBest, LeafIds
  <2>2. CASE pi[s] # 0
    <3>1. pi[s] \in UsedArcs /\ HeadOf(hg, pi[s]) = s
      BY <2>2, UsedArcFacts
    <3>2. ArcDeriv(pi[s]) = NodeOf(s)
      BY <3>1 DEF ArcDeriv
    <3>3. QED
      BY <3>1, <3>2
  <2>3. QED
    BY <2>1, <2>2
<1>2. \A d \in LeafIds : d \in KidNodes /\ d \in StateNodes
  BY LeafFacts
<1>3. BuiltDerivs = (LeafIds \cup {ArcDeriv(a) : a \in UsedArcs}) \cup JointDerivIds
  BY <1>1, <1>2 DEF BuiltDerivs, KidNodes
<1>4. \A d \in LeafIds : d \notin JointDerivIds
  BY <1>2, JointFacts
<1>5. ASSUME NEW a \in UsedArcs
      PROVE  ArcDeriv(a) \notin LeafIds /\ ArcDeriv(a) \notin JointDerivIds
  <2>1. ArcDeriv(a) \notin LeafIds
    BY LeafFacts
  <2>2. /\ ArcDeriv(a) <= NumStates + Len(hg.arcs) /\ ArcDeriv(a) \in Nat
        /\ Len(hg.arcs) \in Nat
    BY ArcDerivFacts, UsedArcFacts
  <2>3. ArcDeriv(a) \notin JointDerivIds
    BY <2>2, JointFacts, NumStatesAssumption
  <2>4. QED
    BY <2>1, <2>3
<1>6. QED
  BY <1>3, <1>4, <1>5

LEMMA JointDerivFacts ==
  ASSUME IInv, BestInv
  PROVE  /\ DOMAIN JointDerivs = JointDerivIds
         /\ \A d \in JointDerivIds :
              /\ JointDerivs[d].cost \in Int /\ JointDerivs[d].leaf = NoState
              /\ JointDerivs[d].kids \in Kids(KidNodes) /\ JointDerivs[d].kids[1] # Null
              /\ JointDerivs[d].arc = 0
              /\ JointDerivs[d] = Deriv(JointDerivs[d].cost, NoState, JointDerivs[d].kids, 0)
<1>1. DOMAIN JointDerivs = JointDerivIds
  BY DEF JointDerivs, JointDerivIds
<1>2. ASSUME NEW d \in JointDerivIds
      PROVE  /\ JointDerivs[d].cost \in Int /\ JointDerivs[d].leaf = NoState
             /\ JointDerivs[d].kids \in Kids(KidNodes) /\ JointDerivs[d].kids[1] # Null
             /\ JointDerivs[d].arc = 0
             /\ JointDerivs[d] = Deriv(JointDerivs[d].cost, NoState, JointDerivs[d].kids, 0)
  <2>1. PICK j : j = CHOOSE k \in Joints : JointOf(k[1], k[2]) = d
    OBVIOUS
  <2>2. \E k \in Joints : JointOf(k[1], k[2]) = d
    BY DEF JointDerivIds
  <2>3. j \in Joints
    BY <2>1, <2>2
  <2>4. PICK a \in UsedArcs : j \in {<<a, i>> : i \in 2 .. Len(TailsOf(hg, a)) - 1}
    BY <2>3 DEF Joints
  <2>5. PICK i \in 2 .. Len(TailsOf(hg, a)) - 1 : j = <<a, i>>
    BY <2>4
  <2>6. j[1] = a /\ j[2] = i
    BY <2>5
  <2>7. Len(TailsOf(hg, a)) \in Nat
    BY UsedArcFacts
  <2>8. i \in 2 .. Len(TailsOf(hg, a)) /\ i \in 1 .. Len(TailsOf(hg, a))
    BY <2>7
  <2>9. JointDerivs[d] = Deriv(CostOfJoint(a, i), NoState, KidsOfJoint(a, i), 0)
    BY <2>1, <2>6 DEF JointDerivs, JointDerivIds
  <2>10. CostOfJoint(a, i) \in Int
    BY <2>8, CostOfJointType
  <2>11. PICK k, l : /\ k = KidsOfJoint(a, i)[1] /\ l = KidsOfJoint(a, i)[2]
                     /\ k \in KidNodes /\ l \in KidNodes /\ KidsOfJoint(a, i) = <<k, l>>
    BY <2>8, KidsOfJointType
  <2>12. k \in {Null} \cup KidNodes /\ l \in {Null} \cup KidNodes
    BY <2>11
  <2>13. KidsOfJoint(a, i) \in Kids(KidNodes)
    BY <2>11, <2>12, PairType DEF Kids
  <2>14. KidsOfJoint(a, i)[1] # Null
    BY <2>11, KidNodesFacts
  <2>15. QED
    BY <2>9, <2>10, <2>13, <2>14 DEF Deriv
<1>3. QED
  BY <1>1, <1>2

LEMMA BuildFacts ==
  ASSUME IInv, BestInv, BuildLazy
  PROVE  /\ Derivs' = BuiltDerivs /\ Nodes' = BuiltNodes
         /\ store' = [d \in BuiltDerivs |-> store'[d]]
         /\ nodes' = [n \in BuiltNodes |-> nodes'[n]]
         /\ \A d \in LeafIds : store'[d] = Deriv(mu[d - 1], d - 1, <<Null, Null>>, 0)
         /\ \A a \in UsedArcs :
              store'[ArcDeriv(a)] = Deriv(ArcCost(a), NoState, KidsOfArc(a), a)
         /\ \A d \in JointDerivIds :
              /\ store'[d] = JointDerivs[d]
              /\ nodes'[d] = [queue |-> <<Edge(JointDerivs[d].kids, d)>>, memo |-> <<d>>]
         /\ \A n \in StateNodes : nodes'[n] = [queue |-> EdgesInto(n - 1), memo |-> <<>>]
<1>1. /\ store' = Merged(Merged(LeafDerivs, ArcDerivs), JointDerivs)
      /\ nodes' = Merged(StateNodesUnsorted, JointNodes)
  BY DEF BuildLazy
<1>2. /\ DOMAIN LeafDerivs = LeafIds
      /\ \A d \in LeafIds : LeafDerivs[d] = Deriv(mu[d - 1], d - 1, <<Null, Null>>, 0)
  BY DEF LeafDerivs, LeafIds
<1>3. PICK arcIds : arcIds = {ArcDeriv(a) : a \in UsedArcs}
  OBVIOUS
<1>4. /\ DOMAIN ArcDerivs = arcIds
      /\ \A a \in UsedArcs : ArcDerivs[ArcDeriv(a)] = Deriv(ArcCost(a), NoState, KidsOfArc(a), a)
  BY <1>3, ArcDerivFacts DEF ArcDerivs
<1>5. DOMAIN JointDerivs = JointDerivIds
  BY JointDerivFacts
<1>6. /\ DOMAIN StateNodesUnsorted = StateNodes
      /\ \A n \in StateNodes : StateNodesUnsorted[n] = [queue |-> EdgesInto(n - 1), memo |-> <<>>]
  BY DEF StateNodesUnsorted
<1>7. /\ DOMAIN JointNodes = JointDerivIds
      /\ \A d \in JointDerivIds :
           JointNodes[d] = [queue |-> <<Edge(JointDerivs[d].kids, d)>>, memo |-> <<d>>]
  BY <1>5 DEF JointNodes
<1>8. PICK both : both = Merged(LeafDerivs, ArcDerivs)
  OBVIOUS
<1>9. both = [d \in LeafIds \cup arcIds |-> IF d \in LeafIds THEN LeafDerivs[d] ELSE ArcDerivs[d]]
  BY <1>2, <1>4, <1>8 DEF Merged
<1>10. store' = [d \in (LeafIds \cup arcIds) \cup JointDerivIds |->
                   IF d \in LeafIds \cup arcIds THEN both[d] ELSE JointDerivs[d]]
  BY <1>1, <1>5, <1>8, <1>9 DEF Merged
<1>11. nodes' = [n \in StateNodes \cup JointDerivIds |->
                   IF n \in StateNodes THEN StateNodesUnsorted[n] ELSE JointNodes[n]]
  BY <1>1, <1>6, <1>7 DEF Merged
<1>12. /\ BuiltDerivs = (LeafIds \cup arcIds) \cup JointDerivIds
       /\ \A a \in UsedArcs : ArcDeriv(a) \in arcIds /\ ArcDeriv(a) \notin LeafIds
       /\ \A d \in JointDerivIds : d \notin LeafIds /\ d \notin arcIds
  BY <1>3, BuiltDerivKinds
<1>13. \A d \in JointDerivIds : d \notin StateNodes
  BY JointFacts
<1>14. Derivs' = BuiltDerivs /\ Nodes' = BuiltNodes
  BY <1>10, <1>11, <1>12 DEF Derivs, Nodes, BuiltNodes
<1>15. /\ store' = [d \in BuiltDerivs |-> store'[d]]
       /\ nodes' = [n \in BuiltNodes |-> nodes'[n]]
  BY <1>10, <1>11, <1>12 DEF BuiltNodes
<1>16. \A d \in LeafIds : store'[d] = LeafDerivs[d]
  BY <1>9, <1>10
<1>17. \A a \in UsedArcs : store'[ArcDeriv(a)] = ArcDerivs[ArcDeriv(a)]
  BY <1>9, <1>10, <1>12
<1>18. \A d \in JointDerivIds : store'[d] = JointDerivs[d] /\ nodes'[d] = JointNodes[d]
  BY <1>10, <1>11, <1>12, <1>13
<1>19. \A n \in StateNodes : nodes'[n] = StateNodesUnsorted[n]
  BY <1>11
<1>20. QED
  BY <1>2, <1>4, <1>6, <1>7, <1>14, <1>15, <1>16, <1>17, <1>18, <1>19

EdgesOf(n) == {nodes[n].queue[i] : i \in 1 .. Len(nodes[n].queue)}

(* Until derivations are taken from the queues the first known of a node is
   the one in front, *)
HasFirst(n) == nodes[n].memo = <<FrontOf(n)>>
(* each edge has its own derivation, with the best derivations of its kids, *)
KidsAgree == \A n \in Nodes : \A e \in EdgesOf(n) : store[e.deriv].kids = e.kids
DerivsTellKids ==
  \A n, m \in Nodes : \A e \in EdgesOf(n), f \in EdgesOf(m) : e.deriv = f.deriv => e.kids = f.kids
PlacesAreFirst == \A n \in Nodes : \A e \in EdgesOf(n) : e.places[1] = 0 /\ e.places[2] = 0
ArcsDiffer ==
  \A n \in Nodes : \A i, j \in 1 .. Len(nodes[n].queue) :
    i # j => store[nodes[n].queue[i].deriv].arc # store[nodes[n].queue[j].deriv].arc
(* and where there is an inner derivation there is the edge that made it,
   which no other beats. *)
InnerHasEdge ==
  \A n \in Nodes : n \in Derivs /\ store[n].leaf = NoState =>
    /\ \E e \in EdgesOf(n) : e.deriv = n
    /\ IsTight => \A e \in EdgesOf(n) : store[n].cost <= store[e.deriv].cost
FrontIsBest ==
  IsTight =>
    \A n \in Nodes : nodes[n].memo # <<>> =>
      \A e \in EdgesOf(n) : store[nodes[n].queue[1].deriv].cost <= store[e.deriv].cost

FirstInv ==
  phase \in {"sort", "fix"} =>
    /\ DerivsTellKids /\ PlacesAreFirst /\ ArcsDiffer /\ InnerHasEdge /\ FrontIsBest
    /\ answer = Null /\ listed = <<>>
SortInv ==
  phase = "sort" =>
    /\ stack = <<>> /\ KidsAgree
    /\ \A n \in Nodes : HasFirst(n) \/ (n \in StateNodes /\ nodes[n].memo = <<>>)

ForestTypeInv == phase \notin TreePhases => StoreOK /\ NodesOK

LEMMA KidsGrow ==
  ASSUME NEW S, NEW T, S \subseteq T
  PROVE  Kids(S) \subseteq Kids(T)
<1>1. SUFFICES ASSUME NEW k \in Kids(S) PROVE k \in Kids(T)
  OBVIOUS
<1>2. k = [i \in 1 .. 2 |-> k[i]] /\ \A i \in 1 .. 2 : k[i] \in {Null} \cup S
  BY DEF Kids
<1>3. \A i \in 1 .. 2 : k[i] \in {Null} \cup T
  BY <1>2
<1>4. QED
  BY <1>2, <1>3 DEF Kids

LEMMA BuiltEdges ==
  ASSUME IInv, BestInv, BuildLazy
  PROVE  /\ \A n \in StateNodes :
              /\ nodes'[n].memo = <<>> /\ nodes'[n].queue = EdgesInto(n - 1) /\ n - 1 \in States
              /\ nodes'[n].queue \in Seq({EdgeOf(a) : a \in UsedInto(n - 1)})
              /\ \A e \in EdgesOf(n)' : \E a \in UsedInto(n - 1) : e = EdgeOf(a)
         /\ \A n \in JointDerivIds :
              /\ nodes'[n].memo = <<n>> /\ nodes'[n].queue = <<Edge(JointDerivs[n].kids, n)>>
              /\ Len(nodes'[n].queue) = 1 /\ nodes'[n].queue[1] = Edge(JointDerivs[n].kids, n)
              /\ \A e \in EdgesOf(n)' : e = Edge(JointDerivs[n].kids, n)
              /\ Edge(JointDerivs[n].kids, n) \in EdgesOf(n)'
<1>1. ASSUME NEW n \in StateNodes
      PROVE  /\ nodes'[n].memo = <<>> /\ nodes'[n].queue = EdgesInto(n - 1) /\ n - 1 \in States
             /\ nodes'[n].queue \in Seq({EdgeOf(a) : a \in UsedInto(n - 1)})
             /\ \A e \in EdgesOf(n)' : \E a \in UsedInto(n - 1) : e = EdgeOf(a)
  <2>1. n - 1 \in States
    BY StateNodeFacts
  <2>2. nodes'[n] = [queue |-> EdgesInto(n - 1), memo |-> <<>>]
    BY BuildFacts
  <2>3. EdgesInto(n - 1) \in Seq({EdgeOf(a) : a \in UsedInto(n - 1)})
    BY <2>1, EdgesIntoFacts
  <2>4. \A i \in 1 .. Len(EdgesInto(n - 1)) :
          EdgesInto(n - 1)[i] \in {EdgeOf(a) : a \in UsedInto(n - 1)}
    BY <2>3, ElementOfSeq
  <2>5. QED
    BY <2>1, <2>2, <2>3, <2>4 DEF EdgesOf
<1>2. ASSUME NEW n \in JointDerivIds
      PROVE  /\ nodes'[n].memo = <<n>> /\ nodes'[n].queue = <<Edge(JointDerivs[n].kids, n)>>
             /\ Len(nodes'[n].queue) = 1 /\ nodes'[n].queue[1] = Edge(JointDerivs[n].kids, n)
             /\ \A e \in EdgesOf(n)' : e = Edge(JointDerivs[n].kids, n)
             /\ Edge(JointDerivs[n].kids, n) \in EdgesOf(n)'
  <2>1. nodes'[n] = [queue |-> <<Edge(JointDerivs[n].kids, n)>>, memo |-> <<n>>]
    BY BuildFacts
  <2>2. PICK e : e = Edge(JointDerivs[n].kids, n)
    OBVIOUS
  <2>3. nodes'[n].queue = <<e>> /\ Len(<<e>>) = 1 /\ <<e>>[1] = e
    BY <2>1, <2>2
  <2>4. EdgesOf(n)' = {e}
    BY <2>3 DEF EdgesOf
  <2>5. QED
    BY <2>1, <2>2, <2>3, <2>4
<1>3. QED
  BY <1>1, <1>2

LEMMA EdgeOfFacts ==
  ASSUME IInv, BestInv, BuildLazy, NEW a \in UsedArcs
  PROVE  /\ EdgeOf(a).kids = KidsOfArc(a) /\ EdgeOf(a).deriv = ArcDeriv(a)
         /\ EdgeOf(a).places[1] = 0 /\ EdgeOf(a).places[2] = 0
         /\ EdgeOf(a) \in EdgeType(BuiltNodes, BuiltDerivs)
         /\ ArcDeriv(a) \in BuiltDerivs
         /\ store'[ArcDeriv(a)].arc = a /\ store'[ArcDeriv(a)].kids = KidsOfArc(a)
         /\ store'[ArcDeriv(a)].cost = ArcCost(a) /\ store'[ArcDeriv(a)].leaf = NoState
         /\ ArcOf(ArcDeriv(a)) = a /\ ArcCost(a) \in Int
<1>1. store'[ArcDeriv(a)] = Deriv(ArcCost(a), NoState, KidsOfArc(a), a)
  BY BuildFacts
<1>2. KidsOfArc(a) \in Kids(BuiltNodes) /\ ArcDeriv(a) \in BuiltDerivs
  BY KidsOfArcType, KidNodesFacts, KidsGrow DEF BuiltDerivs
<1>3. <<0, 0>> \in [1 .. 2 -> Nat] /\ <<0, 0>>[1] = 0 /\ <<0, 0>>[2] = 0
  BY PairType
<1>4. EdgeOf(a) = [kids |-> KidsOfArc(a), places |-> <<0, 0>>, deriv |-> ArcDeriv(a)]
  BY DEF EdgeOf, Edge
<1>5. EdgeOf(a) \in EdgeType(BuiltNodes, BuiltDerivs)
  BY <1>2, <1>3, <1>4 DEF EdgeType
<1>6. ArcCost(a) \in Int
  BY UsedArcFacts, CostWithType DEF ArcCost
<1>7. QED
  BY <1>1, <1>2, <1>3, <1>4, <1>5, <1>6, ArcDerivFacts DEF Deriv

LEMMA JointEdgeFacts ==
  ASSUME IInv, BestInv, BuildLazy, NEW n \in JointDerivIds
  PROVE  LET e == Edge(JointDerivs[n].kids, n)
         IN  /\ e.kids = JointDerivs[n].kids /\ e.deriv = n /\ e.places[1] = 0 /\ e.places[2] = 0
             /\ e \in EdgeType(BuiltNodes, BuiltDerivs)
             /\ store'[n].kids = e.kids /\ store'[n].arc = 0
<1>1. JointDerivs[n].kids \in Kids(BuiltNodes) /\ n \in BuiltDerivs
  <2>1. JointDerivs[n].kids \in Kids(KidNodes)
    BY JointDerivFacts
  <2>2. KidNodes \subseteq BuiltNodes /\ n \in BuiltDerivs
    BY KidNodesFacts DEF BuiltDerivs, KidNodes
  <2>3. QED
    BY <2>1, <2>2, KidsGrow
<1>2. <<0, 0>> \in [1 .. 2 -> Nat] /\ <<0, 0>>[1] = 0 /\ <<0, 0>>[2] = 0
  BY PairType
<1>3. store'[n] = JointDerivs[n] /\ JointDerivs[n].arc = 0
  BY BuildFacts, JointDerivFacts
<1>4. QED
  BY <1>1, <1>2, <1>3 DEF Edge, EdgeType

LEMMA TailsAreBounded ==
  ASSUME IsHypergraph(hg), NEW n \in Nat, n = Len(hg.arcs)
  PROVE  \E m \in Nat : \A a \in 1 .. n : Len(TailsOf(hg, a)) <= m
<1>1. \A a \in 1 .. n : Len(TailsOf(hg, a)) \in Nat
  <2>1. \A a \in 1 .. n : a \in ArcIds(hg)
    BY LenProperties DEF IsHypergraph, ArcIds
  <2>2. QED
    BY <2>1, ArcTypes
<1>2. PICK S : S = {k \in Nat : \E m \in Nat : \A a \in 1 .. k : a <= n => Len(TailsOf(hg, a)) <= m}
  OBVIOUS
<1>3. 0 \in S
  BY <1>2
<1>4. ASSUME NEW k \in 0 .. n - 1, k \in S
      PROVE  k + 1 \in S
  <2>1. PICK m \in Nat : \A a \in 1 .. k : a <= n => Len(TailsOf(hg, a)) <= m
    BY <1>2, <1>4
  <2>2. PICK l \in Nat : l = Len(TailsOf(hg, k + 1))
    BY <1>1
  <2>3. PICK M \in Nat : M = m + l
    OBVIOUS
  <2>4. \A a \in 1 .. k + 1 : a \in 1 .. k \/ a = k + 1
    OBVIOUS
  <2>5. \A a \in 1 .. k + 1 : a <= n => Len(TailsOf(hg, a)) <= M
    <3>1. ASSUME NEW a \in 1 .. k, a <= n
          PROVE  Len(TailsOf(hg, a)) <= M
      <4>1. a \in 1 .. n
        BY <3>1
      <4>2. Len(TailsOf(hg, a)) \in Nat /\ Len(TailsOf(hg, a)) <= m
        BY <1>1, <2>1, <3>1, <4>1
      <4>3. QED
        BY <2>3, <4>2
    <3>2. l <= M
      BY <2>3
    <3>3. QED
      BY <2>2, <2>4, <3>1, <3>2
  <2>6. k + 1 \in Nat
    OBVIOUS
  <2>7. QED
    BY <1>2, <2>5, <2>6
<1>5. n \in S
  <2>1. 0 .. n \subseteq S
    BY <1>3, <1>4, InductionUpTo
  <2>2. QED
    BY <2>1
<1>6. PICK m \in Nat : \A a \in 1 .. n : a <= n => Len(TailsOf(hg, a)) <= m
  BY <1>2, <1>5
<1>7. \A a \in 1 .. n : a <= n
  OBVIOUS
<1>8. \A a \in 1 .. n : Len(TailsOf(hg, a)) <= m
  BY <1>6, <1>7
<1>9. QED
  BY <1>8

LEMMA TimesIsMonotonic ==
  ASSUME NEW i \in Nat, NEW k \in Nat, i <= k, NEW m \in Nat
  PROVE  i * m \in Nat /\ k * m \in Nat /\ i * m <= k * m
<1>1. PICK j \in Nat : k = i + j
  <2>1. k - i \in Nat /\ k = i + (k - i)
    OBVIOUS
  <2>2. QED
    BY <2>1
<1>2. i * m \in Nat /\ j * m \in Nat /\ k * m = i * m + j * m
  BY <1>1
<1>3. QED
  BY <1>2

LEMMA DerivsAreBounded ==
  ASSUME IInv, BestInv
  PROVE  \E m \in Nat : BuiltDerivs \subseteq 1 .. m
<1>1. PICK n \in Nat : n = Len(hg.arcs)
  BY UsedArcFacts
<1>2. PICK k \in Nat : \A a \in 1 .. n : Len(TailsOf(hg, a)) <= k
  BY <1>1, TailsAreBounded, UsedArcFacts
<1>3. PICK w \in Nat : w = k * n
  OBVIOUS
<1>4. PICK m \in Nat : m = NumStates + w + n
  BY NumStatesAssumption
<1>5. \A d \in BuiltDerivs : d \in Nat \ {0}
  BY KidNodesFacts
<1>6. ASSUME NEW d \in JointDerivIds
      PROVE  d <= m
  <2>1. PICK a \in UsedArcs : \E i \in 2 .. Len(TailsOf(hg, a)) - 1 : d = JointOf(a, i)
    BY JointFacts
  <2>2. PICK i \in 2 .. Len(TailsOf(hg, a)) - 1 : d = JointOf(a, i)
    BY <2>1
  <2>3. a \in 1 .. n /\ Len(TailsOf(hg, a)) \in Nat
    BY <1>1, UsedArcFacts
  <2>4. Len(TailsOf(hg, a)) <= k
    BY <1>2, <2>3
  <2>5. i \in Nat /\ i <= k
    BY <2>3, <2>4
  <2>6. PICK v : v = i * n
    OBVIOUS
  <2>7. v \in Nat /\ v <= w
    BY <1>3, <2>5, <2>6, TimesIsMonotonic
  <2>8. d = NumStates + v + a
    BY <1>1, <2>2, <2>6 DEF JointOf
  <2>9. QED
    BY <1>4, <2>3, <2>7, <2>8, NumStatesAssumption
<1>7. ASSUME NEW d \in StateNodes
      PROVE  d <= m
  BY <1>4, NumStatesAssumption DEF StateNodes
<1>8. ASSUME NEW a \in UsedArcs
      PROVE  ArcDeriv(a) <= m
  <2>1. ArcDeriv(a) <= NumStates + n /\ ArcDeriv(a) \in Nat
    BY <1>1, ArcDerivFacts
  <2>2. QED
    BY <1>4, <2>1, NumStatesAssumption
<1>9. \A d \in LeafIds : d \in StateNodes
  BY LeafFacts
<1>10. \A d \in BuiltDerivs : d <= m
  BY <1>6, <1>7, <1>8, <1>9, BuiltDerivKinds
<1>11. BuiltDerivs \subseteq 1 .. m
  BY <1>5, <1>10
<1>12. QED
  BY <1>11

LEMMA BuildMakesTypes ==
  ASSUME IInv, BestInv, BuildLazy
  PROVE  StoreOK' /\ NodesOK'
<1>1. /\ Derivs' = BuiltDerivs /\ Nodes' = BuiltNodes /\ hg' = hg
      /\ store' = [d \in BuiltDerivs |-> store'[d]]
      /\ nodes' = [n \in BuiltNodes |-> nodes'[n]]
  BY BuildFacts DEF BuildLazy, input
<1>2. KidNodes \subseteq BuiltNodes /\ KidNodes \subseteq BuiltDerivs
  BY KidNodesFacts
<1>3. ASSUME NEW d \in BuiltDerivs
      PROVE  store'[d] \in DerivType(BuiltDerivs)
  <2>1. CASE d \in LeafIds
    <3>1. PICK s \in States : d = NodeOf(s) /\ s = d - 1
      BY <2>1, LeafFacts
    <3>2. store'[d] = Deriv(mu[s], s, <<Null, Null>>, 0) /\ mu[s] \in Int
      BY <2>1, <3>1, BuildFacts, UsedArcFacts
    <3>3. <<Null, Null>> \in Kids(BuiltDerivs)
      BY PairType DEF Kids
    <3>4. QED
      BY <3>2, <3>3 DEF Deriv, DerivType
  <2>2. CASE d \in {ArcDeriv(a) : a \in UsedArcs}
    <3>1. PICK a \in UsedArcs : d = ArcDeriv(a)
      BY <2>2
    <3>2. store'[d] = Deriv(ArcCost(a), NoState, KidsOfArc(a), a) /\ ArcCost(a) \in Int
      BY <3>1, BuildFacts, EdgeOfFacts
    <3>3. KidsOfArc(a) \in Kids(BuiltDerivs) /\ a \in ArcIds(hg)
      BY <1>2, <3>1, KidsOfArcType, KidsGrow, UsedArcFacts
    <3>4. QED
      BY <3>2, <3>3 DEF Deriv, DerivType
  <2>3. CASE d \in JointDerivIds
    <3>1. /\ store'[d] = Deriv(JointDerivs[d].cost, NoState, JointDerivs[d].kids, 0)
          /\ JointDerivs[d].cost \in Int /\ JointDerivs[d].kids \in Kids(BuiltDerivs)
      BY <1>2, <2>3, BuildFacts, JointDerivFacts, KidsGrow
    <3>2. QED
      BY <3>1 DEF Deriv, DerivType
  <2>4. QED
    BY <2>1, <2>2, <2>3, BuiltDerivKinds
<1>4. BuiltDerivs # {} /\ \E m \in Nat : BuiltDerivs \subseteq 1 .. m
  <2>1. PICK s \in States : IsAxiom(hg, s)
    BY DEF IInv, JobInv
  <2>2. NodeOf(s) \in BuiltDerivs
    BY <2>1 DEF BuiltDerivs, KidNodes, HasBest
  <2>3. QED
    BY <2>2, DerivsAreBounded
<1>5. ASSUME NEW n \in BuiltNodes
      PROVE  /\ nodes'[n] \in NodeType(BuiltNodes, BuiltDerivs)
             /\ \A e \in EdgesOf(n)' : e.kids[1] = Null => e.kids[2] = Null
  <2>1. CASE n \in StateNodes
    <3>1. /\ nodes'[n] = [queue |-> EdgesInto(n - 1), memo |-> <<>>]
          /\ nodes'[n].queue \in Seq({EdgeOf(a) : a \in UsedInto(n - 1)})
          /\ \A e \in EdgesOf(n)' : \E a \in UsedInto(n - 1) : e = EdgeOf(a)
      BY <2>1, BuiltEdges, BuildFacts
    <3>2. \A a \in UsedInto(n - 1) :
            /\ EdgeOf(a) \in EdgeType(BuiltNodes, BuiltDerivs)
            /\ EdgeOf(a).kids[1] = Null => EdgeOf(a).kids[2] = Null
      BY EdgeOfFacts, KidsOfArcType DEF UsedInto
    <3>3. {EdgeOf(a) : a \in UsedInto(n - 1)} \subseteq EdgeType(BuiltNodes, BuiltDerivs)
      BY <3>2
    <3>4. EdgesInto(n - 1) \in Seq(EdgeType(BuiltNodes, BuiltDerivs))
      BY <3>1, <3>3
    <3>5. nodes'[n] \in NodeType(BuiltNodes, BuiltDerivs)
      BY <3>1, <3>4, EmptySeq DEF NodeType
    <3>6. QED
      BY <3>1, <3>2, <3>5
  <2>2. CASE n \in JointDerivIds
    <3>1. PICK e : e = Edge(JointDerivs[n].kids, n)
      OBVIOUS
    <3>2. /\ nodes'[n] = [queue |-> <<e>>, memo |-> <<n>>]
          /\ e \in EdgeType(BuiltNodes, BuiltDerivs) /\ e.kids[1] # Null
          /\ \A f \in EdgesOf(n)' : f = e
      <4>1. nodes'[n] = [queue |-> <<e>>, memo |-> <<n>>]
        BY <2>2, <3>1, BuildFacts
      <4>2. e \in EdgeType(BuiltNodes, BuiltDerivs) /\ e.kids = JointDerivs[n].kids
        BY <2>2, <3>1, JointEdgeFacts
      <4>3. e.kids[1] # Null
        BY <2>2, <4>2, JointDerivFacts
      <4>4. \A f \in EdgesOf(n)' : f = e
        BY <2>2, <3>1, BuiltEdges
      <4>5. QED
        BY <4>1, <4>2, <4>3, <4>4
    <3>3. n \in {NONE, PENDING} \cup BuiltDerivs
      BY <2>2 DEF BuiltDerivs, KidNodes
    <3>4. <<e>> \in Seq(EdgeType(BuiltNodes, BuiltDerivs)) /\ <<n>> \in Seq({NONE, PENDING} \cup BuiltDerivs)
      BY <3>2, <3>3
    <3>5. QED
      BY <3>2, <3>4 DEF NodeType
  <2>3. QED
    BY <2>1, <2>2 DEF BuiltNodes
<1>6. StoreOK'
  <2>1. store' \in [BuiltDerivs -> DerivType(BuiltDerivs)]
    BY <1>1, <1>3
  <2>2. QED
    BY <1>1, <1>4, <2>1 DEF StoreOK, DerivType
<1>7. NodesOK'
  <2>1. StateNodes \subseteq BuiltNodes /\ Null \notin BuiltNodes
    BY KidNodesFacts DEF BuiltNodes
  <2>2. \A n \in BuiltNodes : \A i \in 1 .. Len(nodes'[n].queue) :
          nodes'[n].queue[i].kids[1] = Null => nodes'[n].queue[i].kids[2] = Null
    BY <1>5 DEF EdgesOf
  <2>3. nodes' \in [BuiltNodes -> NodeType(BuiltNodes, BuiltDerivs)]
    BY <1>1, <1>5
  <2>4. QED
    BY <1>1, <2>1, <2>2, <2>3 DEF NodesOK
<1>8. QED
  BY <1>6, <1>7

LEMMA TightIsKept ==
  ASSUME UNCHANGED <<hg, mu, pi>>
  PROVE  IsTight' <=> IsTight
BY DEF IsTight, UsedArcs, HasBest

LEMMA ForestKeepsBest ==
  ASSUME BestInv, UNCHANGED <<hg, mu, pi>>
  PROVE  BestInv'
BY DEF BestInv, HasBest

LEMMA BuildKeepsFirst ==
  ASSUME IInv, BestInv, NoForestYet, BuildLazy
  PROVE  FirstInv' /\ SortInv'
<1>1. /\ Derivs' = BuiltDerivs /\ Nodes' = BuiltNodes /\ phase' = "sort"
      /\ UNCHANGED <<hg, mu, pi, stack, answer, listed>>
  BY BuildFacts DEF BuildLazy, input, result
<1>2. stack' = <<>> /\ answer' = Null /\ listed' = <<>>
  BY <1>1 DEF NoForestYet, BuildLazy, TreePhases
<1>3. KidsAgree'
  <2>1. SUFFICES ASSUME NEW n \in BuiltNodes, NEW e \in EdgesOf(n)' PROVE store'[e.deriv].kids = e.kids
    BY <1>1 DEF KidsAgree
  <2>2. CASE n \in StateNodes
    <3>1. PICK a \in UsedInto(n - 1) : e = EdgeOf(a)
      BY <2>2, BuiltEdges
    <3>2. QED
      BY <3>1, EdgeOfFacts DEF UsedInto
  <2>3. CASE n \in JointDerivIds
    BY <2>3, BuiltEdges, JointEdgeFacts
  <2>4. QED
    BY <2>2, <2>3 DEF BuiltNodes
<1>4. DerivsTellKids'
  BY <1>3 DEF DerivsTellKids, KidsAgree
<1>5. PlacesAreFirst'
  <2>1. SUFFICES ASSUME NEW n \in BuiltNodes, NEW e \in EdgesOf(n)'
                 PROVE  e.places[1] = 0 /\ e.places[2] = 0
    BY <1>1 DEF PlacesAreFirst
  <2>2. CASE n \in StateNodes
    <3>1. PICK a \in UsedInto(n - 1) : e = EdgeOf(a)
      BY <2>2, BuiltEdges
    <3>2. QED
      BY <3>1, EdgeOfFacts DEF UsedInto
  <2>3. CASE n \in JointDerivIds
    BY <2>3, BuiltEdges, JointEdgeFacts
  <2>4. QED
    BY <2>2, <2>3 DEF BuiltNodes
<1>6. ArcsDiffer'
  <2>1. SUFFICES ASSUME NEW n \in BuiltNodes, NEW i \in 1 .. Len(nodes'[n].queue),
                        NEW j \in 1 .. Len(nodes'[n].queue), i # j
                 PROVE  store'[nodes'[n].queue[i].deriv].arc # store'[nodes'[n].queue[j].deriv].arc
    BY <1>1 DEF ArcsDiffer
  <2>2. CASE n \in StateNodes
    <3>1. /\ nodes'[n].queue = EdgesInto(n - 1) /\ n - 1 \in States
          /\ nodes'[n].queue[i] \in EdgesOf(n)' /\ nodes'[n].queue[j] \in EdgesOf(n)'
      BY <2>2, BuiltEdges DEF EdgesOf
    <3>2. PICK a \in UsedInto(n - 1) : nodes'[n].queue[i] = EdgeOf(a)
      BY <2>2, <3>1, BuiltEdges
    <3>3. PICK b \in UsedInto(n - 1) : nodes'[n].queue[j] = EdgeOf(b)
      BY <2>2, <3>1, BuiltEdges
    <3>4. EdgeOf(a).deriv # EdgeOf(b).deriv
      <4>1. PICK q : q = EdgesInto(n - 1)
        OBVIOUS
      <4>2. i \in 1 .. Len(q) /\ j \in 1 .. Len(q) /\ q[i] = EdgeOf(a) /\ q[j] = EdgeOf(b)
        BY <3>1, <3>2, <3>3, <4>1
      <4>3. q[i].deriv # q[j].deriv
        BY <2>1, <3>1, <4>1, <4>2, EdgesIntoFacts
      <4>4. QED
        BY <4>2, <4>3
    <3>5. a # b
      BY <3>4
    <3>6. store'[EdgeOf(a).deriv].arc = a /\ store'[EdgeOf(b).deriv].arc = b
      BY EdgeOfFacts DEF UsedInto
    <3>7. QED
      BY <3>2, <3>3, <3>5, <3>6
  <2>3. CASE n \in JointDerivIds
    <3>1. Len(nodes'[n].queue) = 1
      BY <2>3, BuiltEdges
    <3>2. QED
      BY <2>1, <3>1
  <2>4. QED
    BY <2>2, <2>3 DEF BuiltNodes
<1>7. InnerHasEdge'
  <2>1. SUFFICES ASSUME NEW n \in BuiltNodes, n \in BuiltDerivs, store'[n].leaf = NoState
                 PROVE  /\ \E e \in EdgesOf(n)' : e.deriv = n
                        /\ IsTight' => \A e \in EdgesOf(n)' : store'[n].cost <= store'[e.deriv].cost
    BY <1>1 DEF InnerHasEdge
  <2>2. CASE n \in StateNodes
    <3>1. n \notin LeafIds
      <4>1. SUFFICES ASSUME n \in LeafIds PROVE FALSE
        OBVIOUS
      <4>2. store'[n].leaf = n - 1 /\ n - 1 \in States
        <5>1. store'[n] = Deriv(mu[n - 1], n - 1, <<Null, Null>>, 0)
          BY <4>1, BuildFacts
        <5>2. QED
          BY <2>2, <5>1, StateNodeFacts DEF Deriv
      <4>3. QED
        BY <2>1, <4>2, StatesAreFinite
    <3>2. PICK a \in UsedArcs : n = ArcDeriv(a)
      BY <2>1, <2>2, <3>1, BuiltDerivKinds, JointFacts
    <3>3. n = NodeOf(HeadOf(hg, a)) /\ pi[HeadOf(hg, a)] = a
      BY <2>2, <3>2, ArcDerivFacts
    <3>4. HeadOf(hg, a) \in States
      BY UsedArcFacts
    <3>5. n - 1 = HeadOf(hg, a) /\ a \in UsedInto(n - 1) /\ n - 1 \in States
      BY <3>3, <3>4, NodeOfFacts DEF UsedInto
    <3>6. \E e \in EdgesOf(n)' : e.deriv = n
      <4>1. PICK k \in 1 .. Len(EdgesInto(n - 1)) : EdgesInto(n - 1)[k] = EdgeOf(a)
        BY <3>5, EdgesIntoFacts
      <4>2. EdgeOf(a) \in EdgesOf(n)'
        <5>1. nodes'[n].queue = EdgesInto(n - 1)
          BY <2>2, BuiltEdges
        <5>2. nodes'[n].queue[k] \in EdgesOf(n)'
          BY <5>1 DEF EdgesOf
        <5>3. QED
          BY <4>1, <5>1, <5>2
      <4>3. QED
        BY <3>2, <4>2, EdgeOfFacts
    <3>7. ASSUME IsTight', NEW e \in EdgesOf(n)'
          PROVE  store'[n].cost <= store'[e.deriv].cost
      <4>1. PICK b \in UsedInto(n - 1) : e = EdgeOf(b)
        BY <2>2, <3>7, BuiltEdges
      <4>2. b \in UsedArcs /\ HeadOf(hg, b) = n - 1
        BY <4>1 DEF UsedInto
      <4>3. store'[n].cost = ArcCost(a) /\ store'[e.deriv].cost = ArcCost(b)
        BY <3>2, <4>1, <4>2, EdgeOfFacts
      <4>4. ArcCost(a) = mu[n - 1] /\ mu[n - 1] \in Int
        BY <3>3, <3>5, UsedArcFacts DEF ArcCost
      <4>5. mu[n - 1] <= CostWith(hg, b, mu)
        BY <1>1, <3>7, <4>2, TightIsKept DEF IsTight
      <4>6. ArcCost(b) = mu[n - 1] \/ ArcCost(b) = CostWith(hg, b, mu)
        BY <4>2 DEF ArcCost
      <4>7. QED
        BY <4>3, <4>4, <4>5, <4>6
    <3>8. QED
      BY <3>6, <3>7
  <2>3. CASE n \in JointDerivIds
    <3>1. PICK e : e = Edge(JointDerivs[n].kids, n)
      OBVIOUS
    <3>2. e \in EdgesOf(n)' /\ e.deriv = n /\ \A f \in EdgesOf(n)' : f = e
      BY <2>3, <3>1, BuiltEdges, JointEdgeFacts
    <3>3. store'[n].cost \in Int
      BY <2>3, BuildFacts, JointDerivFacts
    <3>4. QED
      BY <3>2, <3>3
  <2>4. QED
    BY <2>2, <2>3 DEF BuiltNodes
<1>8. FrontIsBest'
  <2>1. SUFFICES ASSUME NEW n \in BuiltNodes, nodes'[n].memo # <<>>, NEW e \in EdgesOf(n)'
                 PROVE  store'[nodes'[n].queue[1].deriv].cost <= store'[e.deriv].cost
    BY <1>1 DEF FrontIsBest
  <2>2. n \in JointDerivIds
    BY <2>1, BuiltEdges DEF BuiltNodes
  <2>3. e = nodes'[n].queue[1] /\ e.deriv = n
    BY <2>1, <2>2, BuiltEdges, JointEdgeFacts
  <2>4. store'[n].cost \in Int
    BY <2>2, BuildFacts, JointDerivFacts
  <2>5. QED
    BY <2>3, <2>4
<1>9. \A n \in BuiltNodes : HasFirst(n)' \/ (n \in StateNodes /\ nodes'[n].memo = <<>>)
  <2>1. ASSUME NEW n \in JointDerivIds
        PROVE  HasFirst(n)'
    <3>1. PICK e : e = Edge(JointDerivs[n].kids, n)
      OBVIOUS
    <3>2. nodes'[n].memo = <<n>> /\ nodes'[n].queue = <<e>> /\ nodes'[n].queue[1] = e /\ e.deriv = n
      BY <3>1, BuiltEdges, JointEdgeFacts
    <3>3. <<e>> # <<>>
      OBVIOUS
    <3>4. FrontOf(n)' = n
      BY <3>2, <3>3 DEF FrontOf
    <3>5. QED
      BY <3>2, <3>4 DEF HasFirst
  <2>2. QED
    BY <2>1, BuiltEdges DEF BuiltNodes
<1>10. QED
  BY <1>1, <1>2, <1>3, <1>4, <1>5, <1>6, <1>7, <1>8, <1>9 DEF FirstInv, SortInv

(* One of the edges comes to the front, the others stay: jth is the edge that
   was at From(i, j), and the edge that was kth is at To(i, k). *)
From(i, j) == IF j = 1 THEN i ELSE IF j <= i THEN j - 1 ELSE j
To(i, k) == IF k = i THEN 1 ELSE IF k < i THEN k + 1 ELSE k

LEMMA FromFacts ==
  ASSUME NEW n \in Nat, NEW i \in 1 .. n, NEW j \in 1 .. n
  PROVE  From(i, j) \in 1 .. n /\ \A k \in 1 .. n : j # k => From(i, j) # From(i, k)
BY DEF From

LEMMA ToFacts ==
  ASSUME NEW n \in Nat, NEW i \in 1 .. n, NEW k \in 1 .. n
  PROVE  To(i, k) \in 1 .. n /\ From(i, To(i, k)) = k
BY DEF From, To

LEMMA InFrontFrom ==
  ASSUME NEW S, NEW q \in Seq(S), NEW i \in 1 .. Len(q), NEW j \in 1 .. Len(q)
  PROVE  InFront(q, i)[j] = q[From(i, j)]
BY DEF InFront, From

LEMMA InFrontType ==
  ASSUME NEW S, NEW q \in Seq(S), NEW i \in 1 .. Len(q)
  PROVE  /\ InFront(q, i) \in Seq(S) /\ Len(InFront(q, i)) = Len(q)
         /\ InFront(q, i)[1] = q[i] /\ InFront(q, i) # <<>>
<1>1. PICK n \in Nat : n = Len(q)
  OBVIOUS
<1>2. q \in [1 .. n -> S] /\ DOMAIN q = 1 .. n
  BY <1>1
<1>3. 1 \in 1 .. n /\ i \in 1 .. n
  BY <1>1
<1>4. PICK r : r = InFront(q, i)
  OBVIOUS
<1>5. r = [j \in 1 .. n |-> IF j = 1 THEN q[i] ELSE IF j <= i THEN q[j - 1] ELSE q[j]]
  BY <1>2, <1>4 DEF InFront
<1>6. \A j \in 1 .. n : r[j] \in S
  BY <1>2, <1>3, <1>5
<1>7. r \in [1 .. n -> S]
  BY <1>5, <1>6
<1>8. r \in Seq(S) /\ Len(r) = n
  BY <1>7
<1>9. r # <<>>
  BY <1>3, <1>8
<1>10. r[1] = q[i]
  BY <1>3, <1>5
<1>11. QED
  BY <1>1, <1>4, <1>8, <1>9, <1>10

-----------------------------------------------------------------------------
(* Steps that change one node *)

LEMMA NodeTypeGrows ==
  ASSUME NEW ns, NEW D, NEW E, D \subseteq E
  PROVE  EdgeType(ns, D) \subseteq EdgeType(ns, E) /\ NodeType(ns, D) \subseteq NodeType(ns, E)
<1>1. EdgeType(ns, D) \subseteq EdgeType(ns, E)
  BY DEF EdgeType
<1>2. ASSUME NEW q \in Seq(EdgeType(ns, D))
      PROVE  q \in Seq(EdgeType(ns, E))
  BY <1>1
<1>3. ASSUME NEW m \in Seq({NONE, PENDING} \cup D)
      PROVE  m \in Seq({NONE, PENDING} \cup E)
  OBVIOUS
<1>4. NodeType(ns, D) \subseteq NodeType(ns, E)
  BY <1>2, <1>3 DEF NodeType
<1>5. QED
  BY <1>1, <1>4

LEMMA NodeFacts ==
  ASSUME NodesOK, NEW n \in Nodes
  PROVE  /\ nodes[n] = [queue |-> nodes[n].queue, memo |-> nodes[n].memo]
         /\ nodes[n].queue \in Seq(EdgeType(Nodes, Derivs))
         /\ nodes[n].memo \in Seq({NONE, PENDING} \cup Derivs)
         /\ Len(nodes[n].queue) \in Nat /\ DOMAIN nodes[n].queue = 1 .. Len(nodes[n].queue)
         /\ Len(nodes[n].memo) \in Nat /\ DOMAIN nodes[n].memo = 1 .. Len(nodes[n].memo)
         /\ \A e \in EdgesOf(n) :
              /\ e \in EdgeType(Nodes, Derivs) /\ e.deriv \in Derivs
              /\ e.kids[1] = Null => e.kids[2] = Null
              /\ \A i \in 1 .. 2 : e.kids[i] \in {Null} \cup Nodes /\ e.places[i] \in Nat
         /\ \A i \in 1 .. Len(nodes[n].queue) : nodes[n].queue[i] \in EdgesOf(n)
         /\ nodes[n].queue # <<>> => nodes[n].queue[1] \in EdgesOf(n)
<1>1. nodes[n] \in NodeType(Nodes, Derivs)
  BY DEF NodesOK
<1>2. /\ nodes[n] = [queue |-> nodes[n].queue, memo |-> nodes[n].memo]
      /\ nodes[n].queue \in Seq(EdgeType(Nodes, Derivs))
      /\ nodes[n].memo \in Seq({NONE, PENDING} \cup Derivs)
  BY <1>1 DEF NodeType
<1>3. /\ Len(nodes[n].queue) \in Nat /\ DOMAIN nodes[n].queue = 1 .. Len(nodes[n].queue)
      /\ Len(nodes[n].memo) \in Nat /\ DOMAIN nodes[n].memo = 1 .. Len(nodes[n].memo)
  BY <1>2, LenProperties
<1>4. ASSUME NEW i \in 1 .. Len(nodes[n].queue)
      PROVE  /\ nodes[n].queue[i] \in EdgeType(Nodes, Derivs) /\ nodes[n].queue[i] \in EdgesOf(n)
             /\ nodes[n].queue[i].kids[1] = Null => nodes[n].queue[i].kids[2] = Null
  BY <1>2, ElementOfSeq DEF EdgesOf, NodesOK
<1>5. ASSUME NEW e \in EdgesOf(n)
      PROVE  /\ e \in EdgeType(Nodes, Derivs) /\ e.deriv \in Derivs
             /\ e.kids[1] = Null => e.kids[2] = Null
             /\ \A i \in 1 .. 2 : e.kids[i] \in {Null} \cup Nodes /\ e.places[i] \in Nat
  <2>1. e \in EdgeType(Nodes, Derivs) /\ (e.kids[1] = Null => e.kids[2] = Null)
    BY <1>4 DEF EdgesOf
  <2>2. /\ e.deriv \in Derivs /\ e.kids \in [1 .. 2 -> {Null} \cup Nodes]
        /\ e.places \in [1 .. 2 -> Nat]
    BY <2>1 DEF EdgeType, Kids
  <2>3. QED
    BY <2>1, <2>2
<1>6. nodes[n].queue # <<>> => nodes[n].queue[1] \in EdgesOf(n)
  <2>1. nodes[n].queue # <<>> => 1 \in 1 .. Len(nodes[n].queue)
    BY <1>2, <1>3, EmptySeq
  <2>2. QED
    BY <1>4, <2>1
<1>7. QED
  BY <1>2, <1>3, <1>4, <1>5, <1>6

LEMMA NodeChange ==
  ASSUME NodesOK, Derivs \subseteq Derivs', NEW n \in Nodes,
         NEW q \in Seq(EdgeType(Nodes, Derivs')), NEW m \in Seq({NONE, PENDING} \cup Derivs'),
         nodes' = [nodes EXCEPT ![n] = [queue |-> q, memo |-> m]],
         \A i \in 1 .. Len(q) : q[i].kids[1] = Null => q[i].kids[2] = Null
  PROVE  /\ NodesOK' /\ Nodes' = Nodes
         /\ nodes'[n] = [queue |-> q, memo |-> m] /\ nodes'[n].queue = q /\ nodes'[n].memo = m
         /\ \A o \in Nodes : o # n => nodes'[o] = nodes[o] /\ EdgesOf(o)' = EdgesOf(o)
<1>1. nodes \in [Nodes -> NodeType(Nodes, Derivs)]
  BY DEF NodesOK
<1>2. NodeType(Nodes, Derivs) \subseteq NodeType(Nodes, Derivs')
  BY NodeTypeGrows
<1>3. /\ Nodes' = Nodes /\ nodes'[n] = [queue |-> q, memo |-> m]
      /\ \A o \in Nodes : o # n => nodes'[o] = nodes[o]
  BY <1>1 DEF Nodes
<1>4. [queue |-> q, memo |-> m] \in NodeType(Nodes, Derivs')
  BY DEF NodeType
<1>5. nodes' \in [Nodes -> NodeType(Nodes, Derivs')]
  BY <1>1, <1>2, <1>4
<1>6. \A o \in Nodes : \A i \in 1 .. Len(nodes'[o].queue) :
        nodes'[o].queue[i].kids[1] = Null => nodes'[o].queue[i].kids[2] = Null
  <2>1. TAKE o \in Nodes
  <2>2. CASE o = n
    BY <1>3, <2>2
  <2>3. CASE o # n
    <3>1. nodes'[o] = nodes[o]
      BY <1>3, <2>3
    <3>2. QED
      BY <3>1 DEF NodesOK
  <2>4. QED
    BY <2>2, <2>3
<1>7. NodesOK'
  <2>1. StateNodes \subseteq Nodes /\ Null \notin Nodes
    BY DEF NodesOK
  <2>2. QED
    BY <1>3, <1>5, <1>6, <2>1 DEF NodesOK
<1>8. \A o \in Nodes : o # n => EdgesOf(o)' = EdgesOf(o)
  BY <1>3 DEF EdgesOf
<1>9. QED
  BY <1>3, <1>7, <1>8

(* A queue is put in order: its best edge comes to the front. *)
LEMMA ReorderedNode ==
  ASSUME NodesOK, store' = store, NEW n \in Nodes, NEW i \in 1 .. Len(nodes[n].queue),
         NEW m \in Seq({NONE, PENDING} \cup Derivs),
         nodes' = [nodes EXCEPT ![n] = [queue |-> InFront(nodes[n].queue, i), memo |-> m]]
  PROVE  /\ NodesOK' /\ Nodes' = Nodes
         /\ nodes'[n].memo = m /\ nodes'[n].queue = InFront(nodes[n].queue, i)
         /\ nodes'[n].queue # <<>> /\ nodes'[n].queue[1] = nodes[n].queue[i]
         /\ Len(nodes'[n].queue) = Len(nodes[n].queue)
         /\ \A o \in Nodes : EdgesOf(o)' = EdgesOf(o)
         /\ \A o \in Nodes : o # n => nodes'[o] = nodes[o]
         /\ \A j \in 1 .. Len(nodes[n].queue) :
              nodes'[n].queue[j] = nodes[n].queue[From(i, j)]
<1>1. PICK q : q = nodes[n].queue
  OBVIOUS
<1>2. PICK r : r = InFront(q, i)
  OBVIOUS
<1>3. q \in Seq(EdgeType(Nodes, Derivs)) /\ i \in 1 .. Len(q)
  BY <1>1, NodeFacts
<1>4. /\ r \in Seq(EdgeType(Nodes, Derivs)) /\ Len(r) = Len(q) /\ r[1] = q[i] /\ r # <<>>
      /\ Len(q) \in Nat
  BY <1>2, <1>3, InFrontType, LenProperties
<1>5. \A j \in 1 .. Len(q) : From(i, j) \in 1 .. Len(q) /\ r[j] = q[From(i, j)]
  <2>1. TAKE j \in 1 .. Len(q)
  <2>2. From(i, j) \in 1 .. Len(q)
    BY <1>3, <1>4, FromFacts
  <2>3. r[j] = q[From(i, j)]
    BY <1>2, <1>3, InFrontFrom
  <2>4. QED
    BY <2>2, <2>3
<1>6. Derivs' = Derivs
  BY DEF Derivs
<1>7. nodes' = [nodes EXCEPT ![n] = [queue |-> r, memo |-> m]]
  BY <1>1, <1>2
<1>8. /\ NodesOK' /\ Nodes' = Nodes
      /\ nodes'[n].queue = r /\ nodes'[n].memo = m
      /\ \A o \in Nodes : o # n => nodes'[o] = nodes[o] /\ EdgesOf(o)' = EdgesOf(o)
  <2>1. r \in Seq(EdgeType(Nodes, Derivs')) /\ m \in Seq({NONE, PENDING} \cup Derivs')
    BY <1>4, <1>6
  <2>2. Derivs \subseteq Derivs'
    BY <1>6
  <2>3. ASSUME NEW j \in 1 .. Len(r), r[j].kids[1] = Null
        PROVE  r[j].kids[2] = Null
    <3>1. \A k \in 1 .. Len(q) : q[k].kids[1] = Null => q[k].kids[2] = Null
      BY <1>1 DEF NodesOK
    <3>2. From(i, j) \in 1 .. Len(q) /\ r[j] = q[From(i, j)]
      BY <1>4, <1>5
    <3>3. QED
      BY <2>3, <3>1, <3>2
  <2>4. /\ NodesOK' /\ Nodes' = Nodes
        /\ nodes'[n] = [queue |-> r, memo |-> m] /\ nodes'[n].queue = r /\ nodes'[n].memo = m
        /\ \A o \in Nodes : o # n => nodes'[o] = nodes[o] /\ EdgesOf(o)' = EdgesOf(o)
    BY <1>7, <2>1, <2>2, <2>3, NodeChange
  <2>5. QED
    BY <2>4
<1>9. EdgesOf(n)' = EdgesOf(n)
  <2>1. EdgesOf(n)' = {r[j] : j \in 1 .. Len(q)} /\ EdgesOf(n) = {q[j] : j \in 1 .. Len(q)}
    BY <1>1, <1>4, <1>8 DEF EdgesOf
  <2>2. ASSUME NEW j \in 1 .. Len(q) PROVE r[j] \in {q[k] : k \in 1 .. Len(q)}
    BY <1>5
  <2>3. ASSUME NEW k \in 1 .. Len(q) PROVE q[k] \in {r[j] : j \in 1 .. Len(q)}
    <3>1. To(i, k) \in 1 .. Len(q) /\ From(i, To(i, k)) = k
      BY <1>3, <1>4, ToFacts
    <3>2. r[To(i, k)] = q[k]
      BY <1>5, <3>1
    <3>3. QED
      BY <3>1, <3>2
  <2>4. QED
    BY <2>1, <2>2, <2>3
<1>10. /\ nodes'[n].queue = InFront(nodes[n].queue, i)
       /\ nodes'[n].queue # <<>> /\ nodes'[n].queue[1] = nodes[n].queue[i]
       /\ Len(nodes'[n].queue) = Len(nodes[n].queue)
  BY <1>1, <1>2, <1>4, <1>8
<1>11. QED
  <2>1. \A j \in 1 .. Len(q) : nodes'[n].queue[j] = q[From(i, j)]
    BY <1>5, <1>8
  <2>2. QED
    BY <1>1, <1>8, <1>9, <1>10, <2>1

(* What is said of edges, not of their order, stays. *)
LEMMA SameEdges ==
  ASSUME NodesOK, NodesOK', UNCHANGED <<hg, mu, pi, store>>, Nodes' = Nodes,
         \A n \in Nodes : EdgesOf(n)' = EdgesOf(n)
  PROVE  /\ KidsAgree => KidsAgree'
         /\ DerivsTellKids => DerivsTellKids'
         /\ PlacesAreFirst => PlacesAreFirst'
         /\ InnerHasEdge => InnerHasEdge'
<1>1. Derivs' = Derivs /\ (IsTight' <=> IsTight)
  BY TightIsKept DEF Derivs
<1>2. KidsAgree => KidsAgree'
  BY DEF KidsAgree
<1>3. DerivsTellKids => DerivsTellKids'
  BY DEF DerivsTellKids
<1>4. PlacesAreFirst => PlacesAreFirst'
  BY DEF PlacesAreFirst
<1>5. InnerHasEdge => InnerHasEdge'
  BY <1>1 DEF InnerHasEdge
<1>6. QED
  BY <1>2, <1>3, <1>4, <1>5

-----------------------------------------------------------------------------
(* sort *)

LEMMA NodeExcept ==
  ASSUME NodesOK, NEW n \in Nodes, NEW x
  PROVE  /\ [nodes EXCEPT ![n].memo = x] = [nodes EXCEPT ![n] = [queue |-> nodes[n].queue, memo |-> x]]
         /\ [nodes EXCEPT ![n].queue = x] = [nodes EXCEPT ![n] = [queue |-> x, memo |-> nodes[n].memo]]
<1>1. PICK r : r = nodes[n]
  OBVIOUS
<1>2. r = [queue |-> nodes[n].queue, memo |-> nodes[n].memo]
  BY <1>1, NodeFacts
<1>3. [r EXCEPT !.memo = x] = [queue |-> nodes[n].queue, memo |-> x]
  BY <1>2
<1>4. [r EXCEPT !.queue = x] = [queue |-> x, memo |-> nodes[n].memo]
  BY <1>2
<1>5. QED
  BY <1>1, <1>3, <1>4

LEMMA SortFacts ==
  ASSUME NodesOK, FirstInv, SortInv, SortState
  PROVE  \E n \in StateNodes :
           /\ n \in Nodes /\ nodes[n].memo = <<>> /\ store' = store
           /\ UNCHANGED <<vars, stack, seen, answer, listed>>
           /\ \/ /\ nodes[n].queue = <<>>
                 /\ nodes' = [nodes EXCEPT ![n] = [queue |-> nodes[n].queue, memo |-> <<NONE>>]]
              \/ \E i \in 1 .. Len(nodes[n].queue) :
                   /\ IsBestIn(nodes[n].queue, i)
                   /\ nodes' = [nodes EXCEPT ![n] =
                        [queue |-> InFront(nodes[n].queue, i), memo |-> <<nodes[n].queue[i].deriv>>]]
<1>1. PICK n : n = First(UnsortedNodes)
  OBVIOUS
<1>2. n \in UnsortedNodes
  <2>1. UnsortedNodes \in SUBSET Nat /\ UnsortedNodes # {}
    BY NumStatesAssumption DEF UnsortedNodes, StateNodes, SortState
  <2>2. QED
    BY <1>1, <2>1, FirstIsMember
<1>3. n \in StateNodes /\ n \in Nodes /\ nodes[n].memo = <<>>
  BY <1>2 DEF UnsortedNodes, NodesOK
<1>4. nodes \in [Nodes -> NodeType(Nodes, Derivs)]
  BY DEF NodesOK
<1>5. /\ nodes[n] = [queue |-> nodes[n].queue, memo |-> nodes[n].memo]
      /\ DOMAIN nodes[n].queue = 1 .. Len(nodes[n].queue)
  BY <1>3, NodeFacts
<1>6. UNCHANGED <<vars, store, stack, seen, answer, listed>>
  BY DEF SortState
<1>7. CASE nodes[n].queue = <<>>
  <2>1. nodes' = [nodes EXCEPT ![n].memo = <<NONE>>]
    BY <1>1, <1>7 DEF SortState
  <2>2. nodes' = [nodes EXCEPT ![n] = [queue |-> nodes[n].queue, memo |-> <<NONE>>]]
    BY <1>3, <2>1, NodeExcept
  <2>3. QED
    BY <1>3, <1>6, <1>7, <2>2
<1>8. CASE nodes[n].queue # <<>>
  <2>1. PICK i \in DOMAIN nodes[n].queue :
          /\ IsBestIn(nodes[n].queue, i)
          /\ nodes' = [nodes EXCEPT ![n] =
               [queue |-> InFront(nodes[n].queue, i), memo |-> <<nodes[n].queue[i].deriv>>]]
    BY <1>1, <1>8 DEF SortState
  <2>2. QED
    BY <1>3, <1>5, <1>6, <2>1
<1>9. QED
  BY <1>7, <1>8

LEMMA FrontOfFacts ==
  ASSUME NodesOK, NEW n \in Nodes
  PROVE  /\ FrontOf(n) \in {NONE} \cup Derivs
         /\ nodes[n].queue # <<>> =>
              /\ FrontOf(n) = nodes[n].queue[1].deriv /\ FrontOf(n) \in Derivs
              /\ \E e \in EdgesOf(n) : e = nodes[n].queue[1] /\ FrontOf(n) = e.deriv
         /\ nodes[n].queue = <<>> => FrontOf(n) = NONE /\ EdgesOf(n) = {}
<1>1. CASE nodes[n].queue = <<>>
  <2>1. Len(nodes[n].queue) = 0
    BY <1>1
  <2>2. EdgesOf(n) = {}
    BY <2>1 DEF EdgesOf
  <2>3. QED
    BY <1>1, <2>2 DEF FrontOf
<1>2. CASE nodes[n].queue # <<>>
  <2>1. nodes[n].queue[1] \in EdgesOf(n) /\ nodes[n].queue[1].deriv \in Derivs
    BY <1>2, NodeFacts
  <2>2. FrontOf(n) = nodes[n].queue[1].deriv
    BY <1>2 DEF FrontOf
  <2>3. QED
    BY <1>2, <2>1, <2>2
<1>3. QED
  BY <1>1, <1>2

(* The two ways a queue is sorted *)
LEMMA SortEmpty ==
  ASSUME NodesOK, FirstInv, SortInv, phase = "sort", phase' = phase,
         UNCHANGED <<hg, mu, pi, store, stack, answer, listed>>, NEW n \in Nodes,
         nodes[n].queue = <<>>,
         nodes' = [nodes EXCEPT ![n] = [queue |-> nodes[n].queue, memo |-> <<NONE>>]]
  PROVE  NodesOK' /\ FirstInv' /\ SortInv'
<1>1. Derivs' = Derivs
  BY DEF Derivs
<1>2. nodes[n].queue \in Seq(EdgeType(Nodes, Derivs)) /\ EdgesOf(n) = {}
  BY NodeFacts, FrontOfFacts
<1>3. nodes[n].queue \in Seq(EdgeType(Nodes, Derivs')) /\ Derivs \subseteq Derivs'
  BY <1>1, <1>2
<1>4. <<NONE>> \in Seq({NONE, PENDING} \cup Derivs')
  OBVIOUS
<1>5. \A i \in 1 .. Len(nodes[n].queue) :
        nodes[n].queue[i].kids[1] = Null => nodes[n].queue[i].kids[2] = Null
  BY DEF NodesOK
<1>6. /\ NodesOK' /\ Nodes' = Nodes
      /\ nodes'[n].queue = nodes[n].queue /\ nodes'[n].memo = <<NONE>>
      /\ \A o \in Nodes : o # n => nodes'[o] = nodes[o] /\ EdgesOf(o)' = EdgesOf(o)
  <2>1. PICK q : q = nodes[n].queue
    OBVIOUS
  <2>2. PICK m : m = <<NONE>>
    OBVIOUS
  <2>3. /\ q \in Seq(EdgeType(Nodes, Derivs')) /\ m \in Seq({NONE, PENDING} \cup Derivs')
        /\ nodes' = [nodes EXCEPT ![n] = [queue |-> q, memo |-> m]]
        /\ \A i \in 1 .. Len(q) : q[i].kids[1] = Null => q[i].kids[2] = Null
    BY <1>3, <1>4, <1>5, <2>1, <2>2
  <2>4. /\ NodesOK' /\ Nodes' = Nodes
        /\ nodes'[n] = [queue |-> q, memo |-> m] /\ nodes'[n].queue = q /\ nodes'[n].memo = m
        /\ \A o \in Nodes : o # n => nodes'[o] = nodes[o] /\ EdgesOf(o)' = EdgesOf(o)
    BY <1>3, <2>3, NodeChange
  <2>5. QED
    BY <2>1, <2>2, <2>4
<1>7. \A o \in Nodes : nodes'[o].queue = nodes[o].queue
  BY <1>6
<1>8. \A o \in Nodes : EdgesOf(o)' = EdgesOf(o)
  BY <1>7 DEF EdgesOf
<1>9. /\ DerivsTellKids /\ PlacesAreFirst /\ ArcsDiffer /\ InnerHasEdge /\ FrontIsBest
      /\ answer = Null /\ listed = <<>> /\ stack = <<>> /\ KidsAgree
      /\ \A o \in Nodes : HasFirst(o) \/ (o \in StateNodes /\ nodes[o].memo = <<>>)
  BY DEF FirstInv, SortInv
<1>10. DerivsTellKids' /\ PlacesAreFirst' /\ InnerHasEdge' /\ KidsAgree'
  BY <1>6, <1>8, <1>9, SameEdges
<1>11. ArcsDiffer'
  BY <1>6, <1>7, <1>9 DEF ArcsDiffer
<1>12. FrontIsBest'
  <2>1. SUFFICES ASSUME IsTight, NEW o \in Nodes, nodes'[o].memo # <<>>, NEW e \in EdgesOf(o)
                 PROVE  store[nodes[o].queue[1].deriv].cost <= store[e.deriv].cost
    BY <1>6, <1>7, <1>8, TightIsKept DEF FrontIsBest
  <2>2. o # n
    BY <1>2, <2>1
  <2>3. nodes[o].memo # <<>>
    BY <1>6, <2>1, <2>2
  <2>4. QED
    BY <1>9, <2>1, <2>3 DEF FrontIsBest
<1>13. ASSUME NEW o \in Nodes
       PROVE  HasFirst(o)' \/ (o \in StateNodes /\ nodes'[o].memo = <<>>)
  <2>1. FrontOf(o)' = FrontOf(o)
    BY <1>7 DEF FrontOf
  <2>2. CASE o = n
    <3>1. FrontOf(o) = NONE /\ nodes'[o].memo = <<NONE>>
      BY <1>6, <2>2, FrontOfFacts
    <3>2. QED
      BY <2>1, <3>1 DEF HasFirst
  <2>3. CASE o # n
    BY <1>6, <1>9, <2>1, <2>3 DEF HasFirst
  <2>4. QED
    BY <2>2, <2>3
<1>14. QED
  BY <1>6, <1>9, <1>10, <1>11, <1>12, <1>13 DEF FirstInv, SortInv

LEMMA SortBest ==
  ASSUME NodesOK, FirstInv, SortInv, phase = "sort", phase' = phase,
         UNCHANGED <<hg, mu, pi, store, stack, answer, listed>>, NEW n \in Nodes,
         NEW i \in 1 .. Len(nodes[n].queue), IsBestIn(nodes[n].queue, i),
         nodes' = [nodes EXCEPT ![n] =
           [queue |-> InFront(nodes[n].queue, i), memo |-> <<nodes[n].queue[i].deriv>>]]
  PROVE  NodesOK' /\ FirstInv' /\ SortInv'
<1>1. PICK m : m = <<nodes[n].queue[i].deriv>>
  OBVIOUS
<1>2. m \in Seq({NONE, PENDING} \cup Derivs)
  <2>1. nodes[n].queue[i].deriv \in Derivs
    BY NodeFacts
  <2>2. QED
    BY <1>1, <2>1
<1>3. nodes' = [nodes EXCEPT ![n] = [queue |-> InFront(nodes[n].queue, i), memo |-> m]]
  BY <1>1
<1>4. /\ NodesOK' /\ Nodes' = Nodes
      /\ nodes'[n].memo = m
      /\ nodes'[n].queue # <<>> /\ nodes'[n].queue[1] = nodes[n].queue[i]
      /\ Len(nodes'[n].queue) = Len(nodes[n].queue)
      /\ \A o \in Nodes : EdgesOf(o)' = EdgesOf(o)
      /\ \A o \in Nodes : o # n => nodes'[o] = nodes[o]
      /\ \A j \in 1 .. Len(nodes[n].queue) : nodes'[n].queue[j] = nodes[n].queue[From(i, j)]
  <2>1. store' = store
    OBVIOUS
  <2>2. /\ NodesOK' /\ Nodes' = Nodes
        /\ nodes'[n].memo = m /\ nodes'[n].queue = InFront(nodes[n].queue, i)
        /\ nodes'[n].queue # <<>> /\ nodes'[n].queue[1] = nodes[n].queue[i]
        /\ Len(nodes'[n].queue) = Len(nodes[n].queue)
        /\ \A o \in Nodes : EdgesOf(o)' = EdgesOf(o)
        /\ \A o \in Nodes : o # n => nodes'[o] = nodes[o]
        /\ \A j \in 1 .. Len(nodes[n].queue) :
              nodes'[n].queue[j] = nodes[n].queue[From(i, j)]
    BY <1>2, <1>3, <2>1, ReorderedNode, Zenon
  <2>3. QED
    BY <2>2
<1>5. /\ DerivsTellKids /\ PlacesAreFirst /\ ArcsDiffer /\ InnerHasEdge /\ FrontIsBest
      /\ answer = Null /\ listed = <<>> /\ stack = <<>> /\ KidsAgree
      /\ \A o \in Nodes : HasFirst(o) \/ (o \in StateNodes /\ nodes[o].memo = <<>>)
  BY DEF FirstInv, SortInv
<1>6. DerivsTellKids' /\ PlacesAreFirst' /\ InnerHasEdge' /\ KidsAgree'
  BY <1>4, <1>5, SameEdges
<1>7. ArcsDiffer'
  <2>1. SUFFICES ASSUME NEW o \in Nodes, NEW j \in 1 .. Len(nodes'[o].queue),
                        NEW k \in 1 .. Len(nodes'[o].queue), j # k
                 PROVE  store[nodes'[o].queue[j].deriv].arc # store[nodes'[o].queue[k].deriv].arc
    BY <1>4 DEF ArcsDiffer
  <2>2. CASE o = n
    <3>1. Len(nodes[n].queue) \in Nat /\ j \in 1 .. Len(nodes[n].queue) /\ k \in 1 .. Len(nodes[n].queue)
      BY <1>4, <2>1, <2>2, NodeFacts
    <3>2. /\ From(i, j) \in 1 .. Len(nodes[n].queue) /\ From(i, k) \in 1 .. Len(nodes[n].queue)
          /\ From(i, j) # From(i, k)
      BY <2>1, <3>1, FromFacts
    <3>3. /\ nodes'[o].queue[j] = nodes[n].queue[From(i, j)]
          /\ nodes'[o].queue[k] = nodes[n].queue[From(i, k)]
      BY <1>4, <2>2, <3>1
    <3>4. QED
      BY <1>5, <3>2, <3>3 DEF ArcsDiffer
  <2>3. CASE o # n
    BY <1>4, <1>5, <2>1, <2>3 DEF ArcsDiffer
  <2>4. QED
    BY <2>2, <2>3
<1>8. FrontIsBest'
  <2>1. SUFFICES ASSUME IsTight, NEW o \in Nodes, nodes'[o].memo # <<>>, NEW e \in EdgesOf(o)
                 PROVE  store[nodes'[o].queue[1].deriv].cost <= store[e.deriv].cost
    BY <1>4, TightIsKept DEF FrontIsBest
  <2>2. CASE o = n
    <3>1. PICK j \in 1 .. Len(nodes[n].queue) : e = nodes[n].queue[j]
      BY <2>1, <2>2 DEF EdgesOf
    <3>2. j \in DOMAIN nodes[n].queue
      BY <3>1, NodeFacts
    <3>3. QED
      BY <1>4, <2>2, <3>1, <3>2 DEF IsBestIn
  <2>3. CASE o # n
    BY <1>4, <1>5, <2>1, <2>3 DEF FrontIsBest
  <2>4. QED
    BY <2>2, <2>3
<1>9. ASSUME NEW o \in Nodes
      PROVE  HasFirst(o)' \/ (o \in StateNodes /\ nodes'[o].memo = <<>>)
  <2>1. CASE o = n
    <3>1. FrontOf(o)' = nodes[n].queue[i].deriv
      BY <1>4, <2>1 DEF FrontOf
    <3>2. QED
      BY <1>1, <1>4, <2>1, <3>1 DEF HasFirst
  <2>2. CASE o # n
    <3>1. FrontOf(o)' = FrontOf(o)
      BY <1>4, <2>2 DEF FrontOf
    <3>2. QED
      BY <1>4, <1>5, <2>2, <3>1 DEF HasFirst
  <2>3. QED
    BY <2>1, <2>2
<1>10. QED
  BY <1>4, <1>5, <1>6, <1>7, <1>8, <1>9 DEF FirstInv, SortInv

LEMMA SortKeeps ==
  ASSUME StoreOK, NodesOK, FirstInv, SortInv, SortState
  PROVE  StoreOK' /\ NodesOK' /\ FirstInv' /\ SortInv'
<1>1. PICK n \in StateNodes :
        /\ n \in Nodes /\ nodes[n].memo = <<>> /\ store' = store
        /\ UNCHANGED <<vars, stack, seen, answer, listed>>
        /\ \/ /\ nodes[n].queue = <<>>
              /\ nodes' = [nodes EXCEPT ![n] = [queue |-> nodes[n].queue, memo |-> <<NONE>>]]
           \/ \E i \in 1 .. Len(nodes[n].queue) :
                /\ IsBestIn(nodes[n].queue, i)
                /\ nodes' = [nodes EXCEPT ![n] =
                     [queue |-> InFront(nodes[n].queue, i), memo |-> <<nodes[n].queue[i].deriv>>]]
  BY SortFacts
<1>2. /\ UNCHANGED <<hg, mu, pi, store, stack, answer, listed>>
      /\ phase = "sort" /\ phase' = phase
  BY <1>1 DEF vars, input, result, SortState
<1>3. StoreOK'
  BY <1>2 DEF StoreOK, Derivs, DerivType
<1>4. CASE nodes[n].queue = <<>>
           /\ nodes' = [nodes EXCEPT ![n] = [queue |-> nodes[n].queue, memo |-> <<NONE>>]]
  BY <1>1, <1>2, <1>3, <1>4, SortEmpty
<1>5. ASSUME NEW i \in 1 .. Len(nodes[n].queue), IsBestIn(nodes[n].queue, i),
             nodes' = [nodes EXCEPT ![n] =
               [queue |-> InFront(nodes[n].queue, i), memo |-> <<nodes[n].queue[i].deriv>>]]
      PROVE  NodesOK' /\ FirstInv' /\ SortInv'
  BY <1>1, <1>2, <1>5, SortBest
<1>6. QED
  BY <1>1, <1>3, <1>4, <1>5

-----------------------------------------------------------------------------
(* The calls that are under way *)

FrameType(ns, ds, ats) ==
  [node : ns, n : Nat, edge : EdgeType(ns, ds \cup {Null}), at : ats]

LEMMA TopFacts ==
  ASSUME NEW S, NEW s \in Seq(S), s # <<>>
  PROVE  LET b == SubSeq(s, 1, Len(s) - 1)
         IN  /\ Len(s) \in Nat /\ Len(s) >= 1 /\ s[Len(s)] \in S
             /\ b \in Seq(S) /\ Len(b) = Len(s) - 1
             /\ \A k \in 1 .. Len(s) - 1 : b[k] = s[k]
<1>1. Len(s) \in Nat /\ Len(s) >= 1
  BY EmptySeq
<1>2. s[Len(s)] \in S
  BY <1>1, ElementOfSeq
<1>3. /\ SubSeq(s, 1, Len(s) - 1) \in Seq(S) /\ Len(SubSeq(s, 1, Len(s) - 1)) = Len(s) - 1
      /\ \A k \in 1 .. Len(s) - 1 : SubSeq(s, 1, Len(s) - 1)[k] = s[k]
  <2>1. PICK m \in Nat : m = Len(s) - 1
    BY <1>1
  <2>2. \A k \in 1 .. m : s[k] \in S
    BY <1>1, <2>1, ElementOfSeq
  <2>3. /\ SubSeq(s, 1, m) \in Seq(S)
        /\ Len(SubSeq(s, 1, m)) = IF 1 <= m THEN m - 1 + 1 ELSE 0
        /\ \A k \in 1 .. m - 1 + 1 : SubSeq(s, 1, m)[k] = s[1 + k - 1]
    BY <2>1, <2>2, SubSeqProperties
  <2>4. Len(SubSeq(s, 1, m)) = m
    BY <2>3
  <2>5. \A k \in 1 .. m : SubSeq(s, 1, m)[k] = s[k]
    BY <2>3
  <2>6. QED
    BY <2>1, <2>3, <2>4, <2>5
<1>4. QED
  BY <1>1, <1>2, <1>3

LEMMA AppendFacts ==
  ASSUME NEW S, NEW s \in Seq(S), NEW x \in S
  PROVE  /\ Append(s, x) \in Seq(S) /\ Len(Append(s, x)) = Len(s) + 1 /\ Append(s, x) # <<>>
         /\ Append(s, x)[Len(s) + 1] = x
         /\ \A k \in 1 .. Len(s) : Append(s, x)[k] = s[k]
BY EmptySeq

LEMMA PoppedStack ==
  ASSUME NEW S, stack \in Seq(S), stack # <<>>, stack' = Below
  PROVE  /\ stack' \in Seq(S) /\ Len(stack) \in Nat /\ Len(stack) >= 1 /\ Frame \in S
         /\ Len(stack') = Len(stack) - 1
         /\ \A k \in 1 .. Len(stack) - 1 : stack'[k] = stack[k]
BY TopFacts DEF Below, Frame

LEMMA ReplacedStack ==
  ASSUME NEW S, stack \in Seq(S), stack # <<>>, NEW f \in S, stack' = Append(Below, f)
  PROVE  /\ stack' \in Seq(S) /\ Len(stack) \in Nat /\ Len(stack) >= 1 /\ stack' # <<>>
         /\ Len(stack') = Len(stack) /\ stack'[Len(stack)] = f /\ Frame' = f
         /\ \A k \in 1 .. Len(stack) - 1 : stack'[k] = stack[k]
<1>1. /\ Below \in Seq(S) /\ Len(Below) = Len(stack) - 1 /\ Len(stack) \in Nat /\ Len(stack) >= 1
      /\ \A k \in 1 .. Len(stack) - 1 : Below[k] = stack[k]
  BY TopFacts DEF Below
<1>2. /\ stack' \in Seq(S) /\ Len(stack') = Len(Below) + 1 /\ stack' # <<>>
      /\ stack'[Len(Below) + 1] = f
      /\ \A k \in 1 .. Len(Below) : stack'[k] = Below[k]
  BY <1>1, AppendFacts
<1>3. Len(stack') = Len(stack) /\ stack'[Len(stack)] = f
  BY <1>1, <1>2
<1>4. \A k \in 1 .. Len(stack) - 1 : stack'[k] = stack[k]
  BY <1>1, <1>2
<1>5. QED
  BY <1>1, <1>2, <1>3, <1>4 DEF Frame

LEMMA PushedStack ==
  ASSUME NEW S, stack \in Seq(S), stack # <<>>, NEW f \in S, NEW g \in S,
         stack' = Append(Append(Below, f), g)
  PROVE  /\ stack' \in Seq(S) /\ Len(stack) \in Nat /\ Len(stack) >= 1
         /\ Len(stack') = Len(stack) + 1
         /\ stack'[Len(stack)] = f /\ stack'[Len(stack) + 1] = g
         /\ \A k \in 1 .. Len(stack) - 1 : stack'[k] = stack[k]
<1>1. /\ Below \in Seq(S) /\ Len(Below) = Len(stack) - 1 /\ Len(stack) \in Nat /\ Len(stack) >= 1
      /\ \A k \in 1 .. Len(stack) - 1 : Below[k] = stack[k]
  BY TopFacts DEF Below
<1>2. PICK t : t = Append(Below, f)
  OBVIOUS
<1>3. /\ t \in Seq(S) /\ Len(t) = Len(Below) + 1 /\ t[Len(Below) + 1] = f
      /\ \A k \in 1 .. Len(Below) : t[k] = Below[k]
  BY <1>1, <1>2, AppendFacts
<1>4. Len(t) = Len(stack) /\ t[Len(stack)] = f /\ \A k \in 1 .. Len(stack) - 1 : t[k] = stack[k]
  BY <1>1, <1>3
<1>5. stack' = Append(t, g)
  BY <1>2
<1>6. /\ stack' \in Seq(S) /\ Len(stack') = Len(t) + 1 /\ stack'[Len(t) + 1] = g
      /\ \A k \in 1 .. Len(t) : stack'[k] = t[k]
  BY <1>3, <1>5, AppendFacts
<1>7. stack'[Len(stack)] = f /\ \A k \in 1 .. Len(stack) - 1 : stack'[k] = stack[k]
  BY <1>1, <1>4, <1>6
<1>8. QED
  BY <1>1, <1>4, <1>6, <1>7

LEMMA FrameFacts ==
  ASSUME NEW ns, NEW ds, NEW ats, NEW f \in FrameType(ns, ds, ats)
  PROVE  /\ f.node \in ns /\ f.n \in Nat /\ f.edge \in EdgeType(ns, ds \cup {Null}) /\ f.at \in ats
         /\ f = [node |-> f.node, n |-> f.n, edge |-> f.edge, at |-> f.at]
BY DEF FrameType

LEMMA FrameAt ==
  ASSUME NEW ns, NEW ds, NEW ats, NEW f \in FrameType(ns, ds, ats), NEW at \in ats,
         NEW g, g = [f EXCEPT !.at = at]
  PROVE  /\ g \in FrameType(ns, ds, ats)
         /\ g.at = at /\ g.node = f.node /\ g.n = f.n /\ g.edge = f.edge
<1>1. g = [node |-> f.node, n |-> f.n, edge |-> f.edge, at |-> at]
  <2>1. /\ f = [node |-> f.node, n |-> f.n, edge |-> f.edge, at |-> f.at]
        /\ f.n \in Nat
    BY FrameFacts
  <2>2. QED
    BY <2>1
<1>2. QED
  BY <1>1, FrameFacts DEF FrameType

LEMMA FrameNext ==
  ASSUME NEW ns, NEW ds, NEW ats, NEW f \in FrameType(ns, ds, ats),
         NEW g, g = [f EXCEPT !.n = @ + 1]
  PROVE  /\ g \in FrameType(ns, ds, ats)
         /\ g.node = f.node /\ g.n = f.n + 1 /\ g.edge = f.edge /\ g.at = f.at
<1>1. g = [node |-> f.node, n |-> f.n + 1, edge |-> f.edge, at |-> f.at] /\ f.n + 1 \in Nat
  <2>1. /\ f = [node |-> f.node, n |-> f.n, edge |-> f.edge, at |-> f.at]
        /\ f.n \in Nat
    BY FrameFacts
  <2>2. QED
    BY <2>1
<1>2. QED
  BY <1>1, FrameFacts DEF FrameType

LEMMA FrameEdge ==
  ASSUME NEW ns, NEW ds, NEW ats, NEW f \in FrameType(ns, ds, ats),
         NEW e \in EdgeType(ns, ds \cup {Null}), NEW g, g = [f EXCEPT !.edge = e]
  PROVE  /\ g \in FrameType(ns, ds, ats)
         /\ g.node = f.node /\ g.n = f.n /\ g.edge = e /\ g.at = f.at
<1>1. g = [node |-> f.node, n |-> f.n, edge |-> e, at |-> f.at]
  <2>1. /\ f = [node |-> f.node, n |-> f.n, edge |-> f.edge, at |-> f.at]
        /\ f.n \in Nat
    BY FrameFacts
  <2>2. QED
    BY <2>1
<1>2. QED
  BY <1>1, FrameFacts DEF FrameType

LEMMA CallFacts ==
  ASSUME NEW ns, NEW ds, NEW ats, "enter" \in ats, NEW n \in ns, NEW i \in Nat
  PROVE  /\ Call(n, i) \in FrameType(ns, ds, ats)
         /\ Call(n, i).node = n /\ Call(n, i).n = i /\ Call(n, i).at = "enter"
<1>1. Edge(<<Null, Null>>, Null) \in EdgeType(ns, ds \cup {Null})
  <2>1. <<Null, Null>> \in [1 .. 2 -> {Null} \cup ns] /\ <<0, 0>> \in [1 .. 2 -> Nat]
    BY PairType
  <2>2. QED
    BY <2>1 DEF EdgeType, Kids, Edge
<1>2. Call(n, i) = [node |-> n, n |-> i, edge |-> Edge(<<Null, Null>>, Null), at |-> "enter"]
  BY DEF Call
<1>3. QED
  BY <1>1, <1>2 DEF FrameType

-----------------------------------------------------------------------------
(* fix_edges *)

FixAts == {"enter", "fix1", "fix2", "repair"}

(* A derivation in a queue has the best derivations of its children, or else
   those in front of their queues. *)
KidsFollow ==
  \A n \in Nodes : \A e \in EdgesOf(n) : \A i \in 1 .. 2 :
    \/ store[e.deriv].kids[i] = e.kids[i]
    \/ e.kids[i] # Null /\ store[e.deriv].kids[i] = FrontOf(e.kids[i])

FixFrameOK(f) ==
  /\ f.n >= 1
  /\ f.at \in {"fix2", "repair"} =>
       f.n <= Len(nodes[f.node].queue) /\ nodes[f.node].queue[f.n].kids[1] # Null
  /\ f.at = "repair" => FrontOf(nodes[f.node].queue[f.n].kids[1]) # NONE

FixInv ==
  phase = "fix" =>
    /\ \A n \in Nodes : HasFirst(n)
    /\ KidsFollow
    /\ stack \in Seq(FrameType(Nodes, Derivs, FixAts))
    /\ \A k \in 1 .. Len(stack) : FixFrameOK(stack[k])

(* fix_edge replaces only what a queue has a derivation for, and if the best tree
   is tight one of the same cost. *)
LEMMA OldKidFacts ==
  ASSUME StoreOK, NodesOK, InnerHasEdge, KidsFollow, NEW n \in Nodes, NEW e \in EdgesOf(n),
         NEW i \in 1 .. 2, IsInner(store[e.deriv].kids[i])
  PROVE  /\ e.kids[i] \in Nodes /\ e.kids[i] # Null
         /\ FrontOf(e.kids[i]) \in Derivs /\ store[e.deriv].kids[i] \in Derivs
         /\ IsTight /\ FrontIsBest /\ (\A m \in Nodes : HasFirst(m)) =>
              store[store[e.deriv].kids[i]].cost = store[FrontOf(e.kids[i])].cost
<1>1. PICK old : old = store[e.deriv].kids[i]
  OBVIOUS
<1>2. e.deriv \in Derivs /\ e.kids[i] \in {Null} \cup Nodes
  BY NodeFacts
<1>3. old \in Derivs /\ old # Null /\ store[old].leaf = NoState
  <2>1. store[e.deriv] \in DerivType(Derivs)
    BY <1>2 DEF StoreOK
  <2>2. old \in {Null} \cup Derivs
    BY <1>1, <2>1 DEF DerivType, Kids
  <2>3. QED
    BY <1>1, <2>2 DEF IsInner
<1>4. old = e.kids[i] \/ (e.kids[i] # Null /\ old = FrontOf(e.kids[i]))
  BY <1>1 DEF KidsFollow
<1>5. e.kids[i] # Null /\ e.kids[i] \in Nodes
  BY <1>2, <1>3, <1>4
<1>6. CASE old = FrontOf(e.kids[i])
  BY <1>1, <1>3, <1>5, <1>6
<1>7. CASE old = e.kids[i]
  <2>1. PICK m \in Nodes : m = e.kids[i]
    BY <1>5
  <2>2. /\ \E f \in EdgesOf(m) : f.deriv = m
        /\ IsTight => \A f \in EdgesOf(m) : store[m].cost <= store[f.deriv].cost
    BY <1>3, <1>7, <2>1 DEF InnerHasEdge
  <2>3. nodes[m].queue # <<>>
    BY <2>2, FrontOfFacts
  <2>4. PICK front \in EdgesOf(m) : front = nodes[m].queue[1] /\ FrontOf(m) = front.deriv
    BY <2>3, FrontOfFacts
  <2>5. FrontOf(m) \in Derivs
    BY <2>3, FrontOfFacts
  <2>6. ASSUME IsTight, FrontIsBest, \A o \in Nodes : HasFirst(o)
        PROVE  store[m].cost = store[FrontOf(m)].cost
    <3>1. PICK f \in EdgesOf(m) : f.deriv = m
      BY <2>2
    <3>2. nodes[m].memo # <<>>
      <4>1. nodes[m].memo = <<FrontOf(m)>>
        BY <2>6 DEF HasFirst
      <4>2. <<FrontOf(m)>> # <<>>
        OBVIOUS
      <4>3. QED
        BY <4>1, <4>2
    <3>3. store[FrontOf(m)].cost <= store[m].cost
      BY <2>4, <2>6, <3>1, <3>2 DEF FrontIsBest
    <3>4. store[m].cost <= store[FrontOf(m)].cost
      BY <2>2, <2>4, <2>6
    <3>5. store[m].cost \in Int /\ store[FrontOf(m)].cost \in Int
      BY <1>3, <1>7, <2>1, <2>5 DEF StoreOK, DerivType
    <3>6. QED
      BY <3>3, <3>4, <3>5
  <2>7. QED
    BY <1>1, <1>3, <1>5, <1>7, <2>1, <2>5, <2>6
<1>8. QED
  BY <1>4, <1>6, <1>7

LEMMA ReplacedFacts ==
  ASSUME StoreOK, NEW deriv \in DerivType(Derivs), NEW i \in 1 .. 2, NEW kid \in Derivs,
         deriv.kids[i] \in Derivs
  PROVE  LET r == Replaced(deriv, i, kid)
         IN  /\ r \in DerivType(Derivs) /\ r.arc = deriv.arc /\ r.leaf = deriv.leaf
             /\ r.kids[i] = kid /\ \A j \in 1 .. 2 : j # i => r.kids[j] = deriv.kids[j]
             /\ store[deriv.kids[i]].cost = store[kid].cost => r.cost = deriv.cost
<1>1. PICK old, kids, cost : old = deriv.kids[i] /\ kids = [deriv.kids EXCEPT ![i] = kid]
                             /\ cost = deriv.cost - store[old].cost + store[kid].cost
  OBVIOUS
<1>2. /\ deriv = [cost |-> deriv.cost, leaf |-> deriv.leaf, kids |-> deriv.kids, arc |-> deriv.arc]
      /\ deriv.cost \in Int /\ deriv.leaf \in States \cup {NoState}
      /\ deriv.kids \in [1 .. 2 -> {Null} \cup Derivs] /\ deriv.arc \in {0} \cup ArcIds(hg)
  BY DEF DerivType, Kids
<1>3. store[old].cost \in Int /\ store[kid].cost \in Int
  BY <1>1 DEF StoreOK, DerivType
<1>4. cost \in Int /\ (store[old].cost = store[kid].cost => cost = deriv.cost)
  BY <1>1, <1>2, <1>3
<1>5. /\ kids \in [1 .. 2 -> {Null} \cup Derivs] /\ kids[i] = kid
      /\ \A j \in 1 .. 2 : j # i => kids[j] = deriv.kids[j]
  BY <1>1, <1>2
<1>6. CASE old = kid
  <2>1. Replaced(deriv, i, kid) = deriv
    BY <1>1, <1>6 DEF Replaced
  <2>2. QED
    BY <1>1, <1>6, <2>1
<1>7. CASE old # kid
  <2>1. Replaced(deriv, i, kid) =
          [deriv EXCEPT !.kids[i] = kid, !.cost = @ - store[old].cost + store[kid].cost]
    BY <1>1, <1>7 DEF Replaced
  <2>2. Replaced(deriv, i, kid) = [cost |-> cost, leaf |-> deriv.leaf, kids |-> kids, arc |-> deriv.arc]
    BY <1>1, <1>2, <2>1
  <2>3. QED
    BY <1>1, <1>2, <1>4, <1>5, <2>2 DEF DerivType, Kids
<1>8. QED
  BY <1>6, <1>7

LEMMA RepairedFacts ==
  ASSUME StoreOK, NodesOK, InnerHasEdge, KidsFollow, NEW n \in Nodes, NEW e \in EdgesOf(n),
         NEW kid1, kid1 = FrontOf(e.kids[1]),
         NEW kid2, kid2 = IF e.kids[2] = Null THEN Null ELSE FrontOf(e.kids[2])
  PROVE  LET d == store[e.deriv]
             r == Repaired(d, kid1, kid2)
         IN  /\ r \in DerivType(Derivs) /\ r.arc = d.arc /\ r.leaf = d.leaf
             /\ \A i \in 1 .. 2 :
                  r.kids[i] = d.kids[i] \/ (e.kids[i] # Null /\ r.kids[i] = FrontOf(e.kids[i]))
             /\ IsTight /\ FrontIsBest /\ (\A m \in Nodes : HasFirst(m)) => r.cost = d.cost
<1>1. PICK d : d = store[e.deriv]
  OBVIOUS
<1>2. d \in DerivType(Derivs)
  BY <1>1, NodeFacts DEF StoreOK
<1>3. CASE ~IsInner(d.kids[1])
  <2>1. Repaired(d, kid1, kid2) = d
    BY <1>3 DEF Repaired
  <2>2. QED
    BY <1>1, <1>2, <2>1
<1>4. CASE IsInner(d.kids[1])
  <2>1. 1 \in 1 .. 2 /\ 2 \in 1 .. 2
    OBVIOUS
  <2>2. /\ e.kids[1] # Null /\ kid1 \in Derivs /\ d.kids[1] \in Derivs
        /\ IsTight /\ FrontIsBest /\ (\A m \in Nodes : HasFirst(m)) =>
             store[d.kids[1]].cost = store[kid1].cost
    BY <1>1, <1>4, <2>1, OldKidFacts
  <2>3. PICK r1 : r1 = Replaced(d, 1, kid1)
    OBVIOUS
  <2>4. /\ r1 \in DerivType(Derivs) /\ r1.arc = d.arc /\ r1.leaf = d.leaf
        /\ r1.kids[1] = kid1 /\ r1.kids[2] = d.kids[2]
        /\ store[d.kids[1]].cost = store[kid1].cost => r1.cost = d.cost
    BY <1>2, <2>1, <2>2, <2>3, ReplacedFacts
  <2>5. CASE ~IsInner(d.kids[2])
    <3>1. Repaired(d, kid1, kid2) = r1
      BY <1>4, <2>3, <2>5 DEF Repaired
    <3>2. QED
      BY <1>1, <2>2, <2>4, <3>1
  <2>6. CASE IsInner(d.kids[2])
    <3>1. /\ e.kids[2] # Null /\ FrontOf(e.kids[2]) \in Derivs /\ d.kids[2] \in Derivs
          /\ IsTight /\ FrontIsBest /\ (\A m \in Nodes : HasFirst(m)) =>
               store[d.kids[2]].cost = store[FrontOf(e.kids[2])].cost
      BY <1>1, <2>1, <2>6, OldKidFacts
    <3>2. kid2 = FrontOf(e.kids[2])
      BY <3>1
    <3>3. PICK r2 : r2 = Replaced(r1, 2, kid2)
      OBVIOUS
    <3>4. /\ r2 \in DerivType(Derivs) /\ r2.arc = r1.arc /\ r2.leaf = r1.leaf
          /\ r2.kids[2] = kid2 /\ r2.kids[1] = r1.kids[1]
          /\ store[r1.kids[2]].cost = store[kid2].cost => r2.cost = r1.cost
      BY <2>1, <2>4, <3>1, <3>2, <3>3, ReplacedFacts
    <3>5. Repaired(d, kid1, kid2) = r2
      BY <1>4, <2>3, <2>6, <3>3 DEF Repaired
    <3>6. \A i \in 1 .. 2 : e.kids[i] # Null /\ r2.kids[i] = FrontOf(e.kids[i])
      BY <2>2, <2>4, <3>1, <3>2, <3>4
    <3>7. IsTight /\ FrontIsBest /\ (\A m \in Nodes : HasFirst(m)) => r2.cost = d.cost
      BY <2>2, <2>4, <3>1, <3>2, <3>4
    <3>8. QED
      BY <1>1, <2>4, <3>4, <3>5, <3>6, <3>7
  <2>7. QED
    BY <2>5, <2>6
<1>5. QED
  BY <1>3, <1>4

LEMMA SameFirst ==
  ASSUME NodesOK, UNCHANGED <<hg, mu, pi>>, nodes' = nodes, Derivs' = Derivs,
         \A d \in Derivs : /\ store'[d].leaf = store[d].leaf /\ store'[d].arc = store[d].arc
                           /\ IsTight => store'[d].cost = store[d].cost
  PROVE  /\ \A n \in Nodes : FrontOf(n)' = FrontOf(n) /\ EdgesOf(n)' = EdgesOf(n)
                             /\ (HasFirst(n) => HasFirst(n)')
         /\ DerivsTellKids => DerivsTellKids'
         /\ PlacesAreFirst => PlacesAreFirst'
         /\ ArcsDiffer => ArcsDiffer'
         /\ InnerHasEdge => InnerHasEdge'
         /\ FrontIsBest => FrontIsBest'
<1>1. /\ Nodes' = Nodes /\ \A n \in Nodes : FrontOf(n)' = FrontOf(n) /\ EdgesOf(n)' = EdgesOf(n)
      /\ IsTight' <=> IsTight
  BY TightIsKept DEF Nodes, FrontOf, EdgesOf
<1>2. \A n \in Nodes : HasFirst(n) => HasFirst(n)'
  BY <1>1 DEF HasFirst
<1>3. DerivsTellKids => DerivsTellKids'
  BY <1>1 DEF DerivsTellKids
<1>4. PlacesAreFirst => PlacesAreFirst'
  BY <1>1 DEF PlacesAreFirst
<1>5. ASSUME ArcsDiffer
      PROVE  ArcsDiffer'
  <2>1. SUFFICES ASSUME NEW n \in Nodes, NEW i \in 1 .. Len(nodes[n].queue),
                        NEW j \in 1 .. Len(nodes[n].queue), i # j
                 PROVE  store'[nodes[n].queue[i].deriv].arc # store'[nodes[n].queue[j].deriv].arc
    BY <1>1 DEF ArcsDiffer
  <2>2. nodes[n].queue[i].deriv \in Derivs /\ nodes[n].queue[j].deriv \in Derivs
    BY NodeFacts
  <2>3. store[nodes[n].queue[i].deriv].arc # store[nodes[n].queue[j].deriv].arc
    BY <1>5, <2>1 DEF ArcsDiffer
  <2>4. QED
    BY <2>2, <2>3
<1>6. ASSUME InnerHasEdge
      PROVE  InnerHasEdge'
  <2>1. SUFFICES ASSUME NEW n \in Nodes, n \in Derivs, store'[n].leaf = NoState
                 PROVE  /\ \E e \in EdgesOf(n) : e.deriv = n
                        /\ IsTight => \A e \in EdgesOf(n) : store'[n].cost <= store'[e.deriv].cost
    BY <1>1 DEF InnerHasEdge
  <2>2. store[n].leaf = NoState
    BY <2>1
  <2>3. /\ \E e \in EdgesOf(n) : e.deriv = n
        /\ IsTight => \A e \in EdgesOf(n) : store[n].cost <= store[e.deriv].cost
    BY <1>6, <2>1, <2>2 DEF InnerHasEdge
  <2>4. \A e \in EdgesOf(n) : e.deriv \in Derivs
    BY NodeFacts
  <2>5. QED
    BY <2>1, <2>3, <2>4
<1>7. ASSUME FrontIsBest
      PROVE  FrontIsBest'
  <2>1. SUFFICES ASSUME IsTight, NEW n \in Nodes, nodes[n].memo # <<>>, NEW e \in EdgesOf(n)
                 PROVE  store'[nodes[n].queue[1].deriv].cost <= store'[e.deriv].cost
    BY <1>1 DEF FrontIsBest
  <2>2. nodes[n].queue # <<>>
    BY <2>1, FrontOfFacts
  <2>3. nodes[n].queue[1].deriv \in Derivs /\ e.deriv \in Derivs
    BY <2>2, NodeFacts
  <2>4. store[nodes[n].queue[1].deriv].cost <= store[e.deriv].cost
    BY <1>7, <2>1 DEF FrontIsBest
  <2>5. QED
    BY <2>1, <2>3, <2>4
<1>8. QED
  BY <1>1, <1>2, <1>3, <1>4, <1>5, <1>6, <1>7

LEMMA FixTop ==
  ASSUME FixInv, phase = "fix", stack # <<>>
  PROVE  /\ stack \in Seq(FrameType(Nodes, Derivs, FixAts)) /\ Frame \in FrameType(Nodes, Derivs, FixAts)
         /\ Frame.node \in Nodes /\ Frame.n \in Nat /\ FixFrameOK(Frame)
         /\ Len(stack) \in Nat /\ Len(stack) >= 1
<1>1. stack \in Seq(FrameType(Nodes, Derivs, FixAts)) /\ \A k \in 1 .. Len(stack) : FixFrameOK(stack[k])
  BY DEF FixInv
<1>2. Len(stack) \in Nat /\ Len(stack) >= 1 /\ Frame \in FrameType(Nodes, Derivs, FixAts)
  BY <1>1, TopFacts DEF Frame
<1>3. FixFrameOK(Frame)
  BY <1>1, <1>2 DEF Frame
<1>4. QED
  BY <1>1, <1>2, <1>3, FrameFacts

(* What is true of every call is true of those below a call that returns, and
   of one that goes on. *)
LEMMA FixPop ==
  ASSUME FixInv, phase = "fix", stack # <<>>, stack' = Below, nodes' = nodes
  PROVE  \A k \in 1 .. Len(stack') : FixFrameOK(stack[k])'
<1>1. /\ Len(stack) \in Nat /\ Len(stack') = Len(stack) - 1
      /\ \A k \in 1 .. Len(stack) - 1 : stack'[k] = stack[k]
  BY PoppedStack DEF FixInv
<1>2. TAKE k \in 1 .. Len(stack')
<1>3. k \in 1 .. Len(stack) /\ stack'[k] = stack[k]
  BY <1>1
<1>4. FixFrameOK(stack[k])
  BY <1>3 DEF FixInv
<1>5. QED
  BY <1>3, <1>4 DEF FixFrameOK, FrontOf

LEMMA FixReplace ==
  ASSUME FixInv, phase = "fix", stack # <<>>, nodes' = nodes,
         NEW f \in FrameType(Nodes, Derivs, FixAts), FixFrameOK(f), stack' = Append(Below, f)
  PROVE  /\ stack' \in Seq(FrameType(Nodes, Derivs, FixAts))
         /\ \A k \in 1 .. Len(stack') : FixFrameOK(stack[k])'
<1>1. /\ stack' \in Seq(FrameType(Nodes, Derivs, FixAts))
      /\ Len(stack) \in Nat /\ Len(stack') = Len(stack) /\ stack'[Len(stack)] = f
      /\ \A k \in 1 .. Len(stack) - 1 : stack'[k] = stack[k]
  BY ReplacedStack DEF FixInv
<1>2. ASSUME NEW k \in 1 .. Len(stack')
      PROVE  FixFrameOK(stack'[k])
  <2>1. CASE k = Len(stack)
    BY <1>1, <2>1
  <2>2. CASE k # Len(stack)
    <3>1. k \in 1 .. Len(stack) /\ stack'[k] = stack[k]
      BY <1>1, <2>2
    <3>2. QED
      BY <3>1 DEF FixInv
  <2>3. QED
    BY <2>1, <2>2
<1>3. ASSUME NEW k \in 1 .. Len(stack')
      PROVE  FixFrameOK(stack[k])'
  <2>1. FixFrameOK(stack'[k])
    BY <1>2
  <2>2. QED
    BY <2>1 DEF FixFrameOK, FrontOf
<1>4. QED
  BY <1>1, <1>3

LEMMA FixPush ==
  ASSUME FixInv, phase = "fix", stack # <<>>, nodes' = nodes,
         NEW f \in FrameType(Nodes, Derivs, FixAts), FixFrameOK(f),
         NEW g \in FrameType(Nodes, Derivs, FixAts), FixFrameOK(g),
         stack' = Append(Append(Below, f), g)
  PROVE  /\ stack' \in Seq(FrameType(Nodes, Derivs, FixAts))
         /\ \A k \in 1 .. Len(stack') : FixFrameOK(stack[k])'
<1>1. /\ stack' \in Seq(FrameType(Nodes, Derivs, FixAts))
      /\ Len(stack) \in Nat /\ Len(stack') = Len(stack) + 1
      /\ stack'[Len(stack)] = f /\ stack'[Len(stack) + 1] = g
      /\ \A k \in 1 .. Len(stack) - 1 : stack'[k] = stack[k]
  BY PushedStack DEF FixInv
<1>2. ASSUME NEW k \in 1 .. Len(stack')
      PROVE  FixFrameOK(stack'[k])
  <2>1. CASE k = Len(stack) \/ k = Len(stack) + 1
    BY <1>1, <2>1
  <2>2. CASE k # Len(stack) /\ k # Len(stack) + 1
    <3>1. k \in 1 .. Len(stack) - 1
      BY <1>1, <2>2
    <3>2. k \in 1 .. Len(stack) /\ stack'[k] = stack[k]
      BY <1>1, <3>1
    <3>3. QED
      BY <3>2 DEF FixInv
  <2>3. QED
    BY <2>1, <2>2
<1>3. ASSUME NEW k \in 1 .. Len(stack')
      PROVE  FixFrameOK(stack[k])'
  <2>1. FixFrameOK(stack'[k])
    BY <1>2
  <2>2. QED
    BY <2>1 DEF FixFrameOK, FrontOf
<1>4. QED
  BY <1>1, <1>3

(* The steps that only move the calls on *)
LEMMA FixStackKeeps ==
  ASSUME StoreOK, NodesOK, FirstInv, FixInv, phase = "fix", phase' = phase,
         UNCHANGED <<hg, mu, pi, store, nodes, answer, listed>>,
         stack' \in Seq(FrameType(Nodes, Derivs, FixAts)),
         \A k \in 1 .. Len(stack') : FixFrameOK(stack[k])'
  PROVE  StoreOK' /\ NodesOK' /\ FirstInv' /\ FixInv'
<1>1. Derivs' = Derivs /\ Nodes' = Nodes
  BY DEF Derivs, Nodes
<1>2. StoreOK' /\ NodesOK'
  BY <1>1 DEF StoreOK, NodesOK, DerivType, StateNodes
<1>3. /\ DerivsTellKids /\ PlacesAreFirst /\ ArcsDiffer /\ InnerHasEdge /\ FrontIsBest
      /\ answer = Null /\ listed = <<>>
      /\ \A n \in Nodes : HasFirst(n)
      /\ KidsFollow
  BY DEF FirstInv, FixInv
<1>4. /\ \A n \in Nodes : FrontOf(n)' = FrontOf(n) /\ EdgesOf(n)' = EdgesOf(n) /\ HasFirst(n)'
      /\ DerivsTellKids' /\ PlacesAreFirst' /\ ArcsDiffer' /\ InnerHasEdge' /\ FrontIsBest'
  BY <1>1, <1>3, SameFirst
<1>5. KidsFollow'
  <2>1. SUFFICES ASSUME NEW n \in Nodes, NEW e \in EdgesOf(n), NEW i \in 1 .. 2
                 PROVE  \/ store[e.deriv].kids[i] = e.kids[i]
                        \/ e.kids[i] # Null /\ store[e.deriv].kids[i] = FrontOf(e.kids[i])'
    BY <1>1, <1>4 DEF KidsFollow
  <2>2. \/ store[e.deriv].kids[i] = e.kids[i]
        \/ e.kids[i] # Null /\ store[e.deriv].kids[i] = FrontOf(e.kids[i])
    BY <1>3 DEF KidsFollow
  <2>3. FrontOf(e.kids[i])' = FrontOf(e.kids[i])
    BY DEF FrontOf
  <2>4. QED
    BY <2>2, <2>3
<1>6. QED
  BY <1>1, <1>2, <1>3, <1>4, <1>5 DEF FirstInv, FixInv

LEMMA FixKidKeeps ==
  ASSUME StoreOK, NodesOK, FirstInv, FixInv, FixKid
  PROVE  StoreOK' /\ NodesOK' /\ FirstInv' /\ FixInv'
<1>1. /\ phase = "fix" /\ stack # <<>> /\ Frame.at \in {"fix1", "fix2"}
      /\ Frame.n <= Len(NodeHere.queue)
      /\ UNCHANGED <<hg, mu, pi, store, nodes, answer, listed>> /\ phase' = phase
  BY DEF FixKid, vars, input, result
<1>2. PICK i : i = IF Frame.at = "fix1" THEN 1 ELSE 2
  OBVIOUS
<1>3. PICK kids : kids = EdgeHere.kids
  OBVIOUS
<1>4. PICK skip : skip = IF i = 1 THEN kids[1] = Null ELSE FrontOf(kids[1]) = NONE
  OBVIOUS
<1>5. PICK f : f = IF skip THEN [[Frame EXCEPT !.n = @ + 1] EXCEPT !.at = "fix1"]
                   ELSE [Frame EXCEPT !.at = IF i = 1 THEN "fix2" ELSE "repair"]
  OBVIOUS
<1>6. stack' = IF skip \/ kids[i] = Null THEN Append(Below, f)
               ELSE Append(Append(Below, f), Call(kids[i], 1))
  BY <1>2, <1>3, <1>4, <1>5 DEF FixKid, Goto
<1>7. /\ Frame \in FrameType(Nodes, Derivs, FixAts) /\ Frame.node \in Nodes /\ Frame.n \in Nat
      /\ FixFrameOK(Frame)
  BY <1>1, FixTop
<1>8. /\ Frame.n \in 1 .. Len(nodes[Frame.node].queue)
      /\ EdgeHere \in EdgesOf(Frame.node) /\ kids = nodes[Frame.node].queue[Frame.n].kids
  BY <1>1, <1>3, <1>7 DEF NodeHere, EdgeHere, EdgesOf, FixFrameOK
<1>9. \A j \in 1 .. 2 : kids[j] \in {Null} \cup Nodes
  BY <1>3, <1>7, <1>8, NodeFacts
<1>10. f \in FrameType(Nodes, Derivs, FixAts) /\ FixFrameOK(f)
  <2>1. CASE skip
    <3>1. PICK g : g = [Frame EXCEPT !.n = @ + 1]
      OBVIOUS
    <3>2. g \in FrameType(Nodes, Derivs, FixAts) /\ g.n = Frame.n + 1
      BY <1>7, <3>1, FrameNext
    <3>3. f = [g EXCEPT !.at = "fix1"] /\ "fix1" \in FixAts
      BY <1>5, <2>1, <3>1 DEF FixAts
    <3>4. f \in FrameType(Nodes, Derivs, FixAts) /\ f.at = "fix1" /\ f.n = g.n
      BY <3>2, <3>3, FrameAt
    <3>5. QED
      BY <1>7, <3>2, <3>4 DEF FixFrameOK
  <2>2. CASE ~skip
    <3>1. PICK at \in FixAts : at = IF i = 1 THEN "fix2" ELSE "repair"
      BY DEF FixAts
    <3>2. f = [Frame EXCEPT !.at = at]
      BY <1>5, <2>2, <3>1
    <3>3. /\ f \in FrameType(Nodes, Derivs, FixAts) /\ f.at = at /\ f.n = Frame.n
          /\ f.node = Frame.node
      BY <1>7, <3>2, FrameAt
    <3>4. kids[1] # Null
      <4>1. CASE i = 1
        BY <1>4, <2>2, <4>1
      <4>2. CASE i # 1
        <5>1. Frame.at = "fix2"
          BY <1>1, <1>2, <4>2
        <5>2. QED
          BY <1>7, <1>8, <5>1 DEF FixFrameOK
      <4>3. QED
        BY <4>1, <4>2
    <3>5. at = "repair" => FrontOf(kids[1]) # NONE
      BY <1>4, <2>2, <3>1
    <3>6. QED
      BY <1>7, <1>8, <3>3, <3>4, <3>5 DEF FixFrameOK
  <2>3. QED
    BY <2>1, <2>2
<1>11. /\ stack' \in Seq(FrameType(Nodes, Derivs, FixAts))
       /\ \A k \in 1 .. Len(stack') : FixFrameOK(stack[k])'
  <2>1. CASE skip \/ kids[i] = Null
    <3>1. stack' = Append(Below, f)
      BY <1>6, <2>1
    <3>2. QED
      BY <1>1, <1>10, <3>1, FixReplace
  <2>2. CASE ~(skip \/ kids[i] = Null)
    <3>1. PICK g : g = Call(kids[i], 1)
      OBVIOUS
    <3>2. stack' = Append(Append(Below, f), g)
      BY <1>6, <2>2, <3>1
    <3>3. kids[i] \in Nodes /\ "enter" \in FixAts /\ 1 \in Nat
      BY <1>2, <1>9, <2>2 DEF FixAts
    <3>4. g \in FrameType(Nodes, Derivs, FixAts) /\ g.n = 1 /\ g.at = "enter"
      BY <3>1, <3>3, CallFacts
    <3>5. FixFrameOK(g)
      BY <3>4 DEF FixFrameOK
    <3>6. nodes' = nodes
      BY <1>1
    <3>7. QED
      BY <1>1, <1>10, <3>2, <3>4, <3>5, <3>6, FixPush
  <2>3. QED
    BY <2>1, <2>2
<1>12. QED
  BY <1>1, <1>11, FixStackKeeps

LEMMA RepairKeeps ==
  ASSUME StoreOK, NodesOK, FirstInv, FixInv, RepairEdge
  PROVE  StoreOK' /\ NodesOK' /\ FirstInv' /\ FixInv'
<1>1. /\ phase = "fix" /\ stack # <<>> /\ Frame.at = "repair"
      /\ UNCHANGED <<hg, mu, pi, nodes, answer, listed>> /\ phase' = phase
  BY DEF RepairEdge, vars, input, result
<1>2. /\ Frame \in FrameType(Nodes, Derivs, FixAts) /\ Frame.node \in Nodes /\ Frame.n \in Nat
      /\ FixFrameOK(Frame)
  BY <1>1, FixTop
<1>3. PICK e : e = EdgeHere
  OBVIOUS
<1>4. e \in EdgesOf(Frame.node) /\ e.deriv \in Derivs
  <2>1. Frame.n \in 1 .. Len(nodes[Frame.node].queue)
    BY <1>1, <1>2, NodeFacts DEF FixFrameOK
  <2>2. e \in EdgesOf(Frame.node)
    BY <1>3, <2>1 DEF EdgeHere, NodeHere, EdgesOf
  <2>3. QED
    BY <1>2, <2>2, NodeFacts
<1>5. PICK kid1, kid2 : kid1 = FrontOf(e.kids[1])
                        /\ kid2 = IF e.kids[2] = Null THEN Null ELSE FrontOf(e.kids[2])
  OBVIOUS
<1>6. PICK r : r = Repaired(store[e.deriv], kid1, kid2)
  OBVIOUS
<1>7. store' = [store EXCEPT ![e.deriv] = r]
  BY <1>3, <1>5, <1>6 DEF RepairEdge
<1>8. /\ DerivsTellKids /\ PlacesAreFirst /\ ArcsDiffer /\ InnerHasEdge /\ FrontIsBest
      /\ answer = Null /\ listed = <<>>
      /\ \A n \in Nodes : HasFirst(n)
      /\ KidsFollow
  BY <1>1 DEF FirstInv, FixInv
<1>9. /\ r \in DerivType(Derivs) /\ r.arc = store[e.deriv].arc /\ r.leaf = store[e.deriv].leaf
      /\ \A i \in 1 .. 2 : \/ r.kids[i] = store[e.deriv].kids[i]
                           \/ e.kids[i] # Null /\ r.kids[i] = FrontOf(e.kids[i])
      /\ IsTight => r.cost = store[e.deriv].cost
  BY <1>2, <1>4, <1>5, <1>6, <1>8, RepairedFacts
<1>10. /\ Derivs' = Derivs /\ Nodes' = Nodes /\ store'[e.deriv] = r
       /\ \A d \in Derivs : d # e.deriv => store'[d] = store[d]
       /\ store' \in [Derivs -> DerivType(Derivs)]
  BY <1>1, <1>4, <1>7, <1>9 DEF StoreOK, Derivs, Nodes
<1>11. StoreOK' /\ NodesOK'
  BY <1>1, <1>10 DEF StoreOK, NodesOK, DerivType, StateNodes
<1>12. \A d \in Derivs : /\ store'[d].leaf = store[d].leaf /\ store'[d].arc = store[d].arc
                         /\ IsTight => store'[d].cost = store[d].cost
  BY <1>9, <1>10
<1>13. /\ \A n \in Nodes : FrontOf(n)' = FrontOf(n) /\ EdgesOf(n)' = EdgesOf(n) /\ HasFirst(n)'
       /\ DerivsTellKids' /\ PlacesAreFirst' /\ ArcsDiffer' /\ InnerHasEdge' /\ FrontIsBest'
  BY <1>1, <1>8, <1>10, <1>12, SameFirst
<1>14. KidsFollow'
  <2>1. SUFFICES ASSUME NEW n \in Nodes, NEW f \in EdgesOf(n), NEW i \in 1 .. 2
                 PROVE  \/ store'[f.deriv].kids[i] = f.kids[i]
                        \/ f.kids[i] # Null /\ store'[f.deriv].kids[i] = FrontOf(f.kids[i])'
    BY <1>10, <1>13 DEF KidsFollow
  <2>2. \/ store[f.deriv].kids[i] = f.kids[i]
        \/ f.kids[i] # Null /\ store[f.deriv].kids[i] = FrontOf(f.kids[i])
    BY <1>8 DEF KidsFollow
  <2>3. FrontOf(f.kids[i])' = FrontOf(f.kids[i])
    BY <1>1 DEF FrontOf
  <2>4. f.deriv \in Derivs
    BY NodeFacts
  <2>5. CASE f.deriv = e.deriv
    <3>1. f.kids = e.kids
      BY <1>2, <1>4, <1>8, <2>5 DEF DerivsTellKids
    <3>2. QED
      BY <1>9, <1>10, <2>2, <2>3, <2>5, <3>1
  <2>6. CASE f.deriv # e.deriv
    BY <1>10, <2>2, <2>3, <2>4, <2>6
  <2>7. QED
    BY <2>5, <2>6
<1>15. PICK g : g = [Frame EXCEPT !.n = @ + 1]
  OBVIOUS
<1>16. PICK h : h = [g EXCEPT !.at = "fix1"]
  OBVIOUS
<1>17. stack' = Append(Below, h)
  BY <1>15, <1>16 DEF RepairEdge, Goto
<1>18. g \in FrameType(Nodes, Derivs, FixAts) /\ g.n = Frame.n + 1 /\ "fix1" \in FixAts
  BY <1>2, <1>15, FrameNext DEF FixAts
<1>19. h \in FrameType(Nodes, Derivs, FixAts) /\ h.n = Frame.n + 1 /\ h.at = "fix1"
  BY <1>16, <1>18, FrameAt
<1>20. FixFrameOK(h)
  BY <1>2, <1>19 DEF FixFrameOK
<1>21. /\ stack' \in Seq(FrameType(Nodes, Derivs, FixAts))
       /\ \A k \in 1 .. Len(stack') : FixFrameOK(stack[k])'
  BY <1>1, <1>17, <1>19, <1>20, FixReplace
<1>22. QED
  BY <1>1, <1>8, <1>10, <1>11, <1>13, <1>14, <1>21 DEF FirstInv, FixInv

LEMMA FixKeeps ==
  ASSUME StoreOK, NodesOK, FirstInv, FixInv, EnterNode \/ FixKid \/ RepairEdge \/ LeaveNode
  PROVE  StoreOK' /\ NodesOK' /\ FirstInv' /\ FixInv'
<1>1. CASE EnterNode \/ LeaveNode
  <2>1. /\ phase = "fix" /\ stack # <<>> /\ phase' = phase
        /\ UNCHANGED <<hg, mu, pi, store, nodes, answer, listed>>
        /\ stack' = Below \/ stack' = Goto(Frame, "fix1")
    BY <1>1 DEF EnterNode, LeaveNode, vars, input, result
  <2>2. /\ stack \in Seq(FrameType(Nodes, Derivs, FixAts)) /\ Frame \in FrameType(Nodes, Derivs, FixAts)
        /\ FixFrameOK(Frame)
    BY <2>1, FixTop
  <2>3. CASE stack' = Below
    <3>1. stack' \in Seq(FrameType(Nodes, Derivs, FixAts))
      BY <2>1, <2>2, <2>3, PoppedStack
    <3>2. \A k \in 1 .. Len(stack') : FixFrameOK(stack[k])'
      BY <2>1, <2>3, FixPop
    <3>3. QED
      BY <2>1, <3>1, <3>2, FixStackKeeps
  <2>4. CASE stack' = Goto(Frame, "fix1")
    <3>1. PICK f : f = [Frame EXCEPT !.at = "fix1"]
      OBVIOUS
    <3>2. "fix1" \in FixAts
      BY DEF FixAts
    <3>3. f \in FrameType(Nodes, Derivs, FixAts) /\ f.at = "fix1" /\ f.n = Frame.n
      BY <2>2, <3>1, <3>2, FrameAt
    <3>4. FixFrameOK(f) /\ stack' = Append(Below, f)
      BY <2>2, <2>4, <3>1, <3>3 DEF FixFrameOK, Goto
    <3>5. /\ stack' \in Seq(FrameType(Nodes, Derivs, FixAts))
          /\ \A k \in 1 .. Len(stack') : FixFrameOK(stack[k])'
      BY <2>1, <3>3, <3>4, FixReplace
    <3>6. QED
      BY <2>1, <3>5, FixStackKeeps
  <2>5. QED
    BY <2>1, <2>3, <2>4
<1>2. CASE FixKid
  BY <1>2, FixKidKeeps
<1>3. CASE RepairEdge
  BY <1>3, RepairKeeps
<1>4. QED
  BY <1>1, <1>2, <1>3

LEMMA SortDoneMakesFixInv ==
  ASSUME IInv, NodesOK, SortInv, SortDone
  PROVE  FixInv'
<1>1. /\ phase = "sort" /\ UnsortedNodes = {} /\ stack' = <<Call(NodeOf(hg.final), 1)>>
      /\ UNCHANGED <<hg, store, nodes>>
  BY DEF SortDone, input
<1>2. Derivs' = Derivs /\ Nodes' = Nodes
  BY <1>1 DEF Derivs, Nodes
<1>3. ASSUME NEW n \in Nodes
      PROVE  HasFirst(n)'
  <2>1. HasFirst(n)
    BY <1>1 DEF SortInv, UnsortedNodes
  <2>2. QED
    BY <1>1, <2>1 DEF HasFirst, FrontOf
<1>4. KidsFollow'
  BY <1>1, <1>2 DEF SortInv, KidsAgree, KidsFollow, EdgesOf, FrontOf
<1>5. NodeOf(hg.final) \in Nodes
  <2>1. hg.final \in States
    BY DEF IInv, JobInv, IsHypergraph
  <2>2. QED
    BY <2>1, NodeOfFacts DEF NodesOK
<1>6. PICK f : f = Call(NodeOf(hg.final), 1)
  OBVIOUS
<1>7. f \in FrameType(Nodes, Derivs, FixAts) /\ f.n = 1 /\ f.at = "enter"
  <2>1. "enter" \in FixAts /\ 1 \in Nat
    BY DEF FixAts
  <2>2. QED
    BY <1>5, <1>6, <2>1, CallFacts
<1>8. stack' = <<f>> /\ Len(<<f>>) = 1 /\ <<f>>[1] = f
  BY <1>1, <1>6
<1>9. stack' \in Seq(FrameType(Nodes, Derivs, FixAts))'
  <2>1. <<f>> \in Seq(FrameType(Nodes, Derivs, FixAts))
    BY <1>7
  <2>2. FrameType(Nodes, Derivs, FixAts)' = FrameType(Nodes, Derivs, FixAts)
    BY <1>2 DEF FrameType, EdgeType, Kids
  <2>3. QED
    BY <1>8, <2>1, <2>2
<1>10. \A k \in 1 .. Len(stack') : FixFrameOK(stack[k])'
  BY <1>7, <1>8 DEF FixFrameOK
<1>11. QED
  BY <1>2, <1>3, <1>4, <1>9, <1>10 DEF FixInv

-----------------------------------------------------------------------------
(* get_best *)

ListAts == {"enter", "pop", "kid1", "made1", "kid2", "made2", "top"}
InHandAts == {"kid1", "made1", "kid2", "made2"}
SecondAts == {"kid2", "made2"}

IsKnown(n, i) == i \in 1 .. Len(nodes[n].memo) /\ nodes[n].memo[i] # PENDING

(* Only the last derivation of a node can be pending, and after the one that
   there was not there are no others. *)
MemoOK(n) ==
  /\ nodes[n].memo # <<>> /\ nodes[n].memo[1] # PENDING
  /\ \A i \in 1 .. Len(nodes[n].memo) - 1 : nodes[n].memo[i] # PENDING
  /\ \A i, j \in 1 .. Len(nodes[n].memo) :
       i < j /\ nodes[n].memo[i] = NONE => nodes[n].memo[j] \in {NONE, PENDING}
  /\ \A i \in 1 .. Len(nodes[n].memo) : nodes[n].memo[i] = NONE => nodes[n].queue = <<>>

(* The derivations of the children that an edge takes are known. *)
EdgeOK(e) == \A i \in 1 .. 2 : e.kids[i] # Null => IsKnown(e.kids[i], e.places[i] + 1)

(* A call asks for the first derivation that is not known, which is then pending
   until it returns. *)
FrameOK(f) ==
  /\ f.at = "enter" =>
       /\ f.n <= Len(nodes[f.node].memo)
       /\ f.n >= 1 => nodes[f.node].memo[f.n] # PENDING
  /\ f.at # "enter" =>
       /\ f.n >= 1 /\ Len(nodes[f.node].memo) = f.n + 1
       /\ nodes[f.node].memo[f.n + 1] = PENDING
  /\ f.at \in InHandAts =>
       /\ EdgeOK(f.edge) /\ f.edge.deriv # Null /\ f.edge.kids[1] # Null
       /\ \A i \in 1 .. Len(nodes[f.node].memo) : nodes[f.node].memo[i] # NONE
  /\ f.at \in SecondAts => f.edge.kids[2] # Null /\ f.edge.places[1] = 0

(* A call that waits has asked for the next derivation of a child. *)
Link(f, g) ==
  \/ f.at = "made1" /\ g.node = f.edge.kids[1] /\ g.n = f.edge.places[1] + 1
  \/ f.at = "made2" /\ g.node = f.edge.kids[2] /\ g.n = f.edge.places[2] + 1
Links == \A k \in 1 .. Len(stack) - 1 : Link(stack[k], stack[k + 1])

(* No two calls work on the same node: get_best throws before that. *)
Distinct ==
  \A j, k \in 1 .. Len(stack) :
    j # k /\ stack[j].at # "enter" /\ stack[k].at # "enter" => stack[j].node # stack[k].node

StackInv ==
  /\ stack \in Seq(FrameType(Nodes, Derivs, ListAts))
  /\ \A k \in 1 .. Len(stack) : FrameOK(stack[k])
  /\ Links /\ Distinct
  /\ stack # <<>> => stack[1].node = NodeOf(hg.final) /\ stack[1].n = Len(listed)

AnswerIs(n, i) == IsKnown(n, i) /\ answer = nodes[n].memo[i]
AnswerInv ==
  /\ stack # <<>> =>
       /\ Frame.at = "made1" => AnswerIs(Frame.edge.kids[1], Frame.edge.places[1] + 2)
       /\ Frame.at = "made2" => AnswerIs(Frame.edge.kids[2], Frame.edge.places[2] + 2)
  /\ stack = <<>> => answer = Null \/ AnswerIs(NodeOf(hg.final), Len(listed) + 1)

ListedInv ==
  /\ \E S : listed \in Seq(S)
  /\ Len(listed) >= 1 => IsKnown(NodeOf(hg.final), Len(listed))

MemosInv == \A n \in Nodes : MemoOK(n)
EdgesInv == \A n \in Nodes : \A e \in EdgesOf(n) : EdgeOK(e)

ListInv == phase = "list" => MemosInv /\ EdgesInv /\ StackInv /\ AnswerInv /\ ListedInv

AnswerType == phase \notin TreePhases => answer \in {Null, NONE} \cup Derivs

(* What is known stays known. *)
Grows ==
  /\ Nodes' = Nodes /\ Derivs \subseteq Derivs'
  /\ \A n \in Nodes : \A i \in 1 .. Len(nodes[n].memo) :
       nodes[n].memo[i] # PENDING =>
         i \in 1 .. Len(nodes'[n].memo) /\ nodes'[n].memo[i] = nodes[n].memo[i]

LEMMA KnownGrows ==
  ASSUME Grows, NEW n \in Nodes, NEW i, IsKnown(n, i)
  PROVE  IsKnown(n, i)' /\ nodes'[n].memo[i] = nodes[n].memo[i]
BY DEF Grows, IsKnown

LEMMA EdgeStays ==
  ASSUME Grows, NEW e, \A i \in 1 .. 2 : e.kids[i] \in {Null} \cup Nodes, EdgeOK(e)
  PROVE  EdgeOK(e)'
<1>1. SUFFICES ASSUME NEW i \in 1 .. 2, e.kids[i] # Null
               PROVE  IsKnown(e.kids[i], e.places[i] + 1)'
  BY DEF EdgeOK
<1>2. IsKnown(e.kids[i], e.places[i] + 1) /\ e.kids[i] \in Nodes
  BY <1>1 DEF EdgeOK
<1>3. PICK n, j : n = e.kids[i] /\ j = e.places[i] + 1
  OBVIOUS
<1>4. IsKnown(n, j)'
  BY <1>2, <1>3, KnownGrows
<1>5. QED
  BY <1>3, <1>4

LEMMA EdgeTypeFacts ==
  ASSUME NEW ns, NEW ds, NEW e \in EdgeType(ns, ds)
  PROVE  /\ e = [kids |-> e.kids, places |-> e.places, deriv |-> e.deriv]
         /\ e.deriv \in ds /\ e.kids \in [1 .. 2 -> {Null} \cup ns] /\ e.places \in [1 .. 2 -> Nat]
         /\ \A i \in 1 .. 2 : e.kids[i] \in {Null} \cup ns /\ e.places[i] \in Nat
BY DEF EdgeType, Kids

LEMMA FrameStays ==
  ASSUME Grows, NEW f \in FrameType(Nodes, Derivs, ListAts), FrameOK(f),
         nodes'[f.node].memo = nodes[f.node].memo
  PROVE  FrameOK(f)'
<1>1. ASSUME f.at \in InHandAts
      PROVE  EdgeOK(f.edge)'
  <2>1. f.edge \in EdgeType(Nodes, Derivs \cup {Null})
    BY FrameFacts
  <2>2. \A i \in 1 .. 2 : f.edge.kids[i] \in {Null} \cup Nodes
    BY <2>1, EdgeTypeFacts
  <2>3. EdgeOK(f.edge)
    BY <1>1 DEF FrameOK
  <2>4. QED
    BY <2>2, <2>3, EdgeStays
<1>2. QED
  BY <1>1 DEF FrameOK

LEMMA FrameTypeGrows ==
  ASSUME NEW ns, NEW D, NEW E, D \subseteq E, NEW ats
  PROVE  FrameType(ns, D, ats) \subseteq FrameType(ns, E, ats)
<1>1. D \cup {Null} \subseteq E \cup {Null}
  OBVIOUS
<1>2. EdgeType(ns, D \cup {Null}) \subseteq EdgeType(ns, E \cup {Null})
  BY <1>1, NodeTypeGrows
<1>3. QED
  BY <1>2 DEF FrameType

LEMMA StackFacts ==
  ASSUME StackInv, stack # <<>>
  PROVE  /\ Len(stack) \in Nat /\ Len(stack) >= 1 /\ Len(stack) \in 1 .. Len(stack)
         /\ Frame = stack[Len(stack)]
         /\ Frame \in FrameType(Nodes, Derivs, ListAts) /\ FrameOK(Frame)
         /\ Frame.node \in Nodes /\ Frame.n \in Nat /\ Frame.at \in ListAts
         /\ Frame.edge \in EdgeType(Nodes, Derivs \cup {Null})
         /\ \A k \in 1 .. Len(stack) - 1 :
              /\ k \in 1 .. Len(stack) /\ stack[k] \in FrameType(Nodes, Derivs, ListAts)
              /\ FrameOK(stack[k]) /\ stack[k].node \in Nodes
              /\ stack[k].at \in {"made1", "made2"}
         /\ Frame.at # "enter" => \A k \in 1 .. Len(stack) - 1 : stack[k].node # Frame.node
<1>1. /\ stack \in Seq(FrameType(Nodes, Derivs, ListAts))
      /\ \A k \in 1 .. Len(stack) : FrameOK(stack[k])
      /\ Links /\ Distinct
  BY DEF StackInv
<1>2. Len(stack) \in Nat /\ Len(stack) >= 1 /\ Frame \in FrameType(Nodes, Derivs, ListAts)
  BY <1>1, TopFacts DEF Frame
<1>3. Len(stack) \in 1 .. Len(stack) /\ Frame = stack[Len(stack)]
  BY <1>2 DEF Frame
<1>4. ASSUME NEW k \in 1 .. Len(stack) - 1
      PROVE  /\ k \in 1 .. Len(stack) /\ stack[k] \in FrameType(Nodes, Derivs, ListAts)
             /\ FrameOK(stack[k]) /\ stack[k].node \in Nodes
             /\ stack[k].at \in {"made1", "made2"}
             /\ Frame.at # "enter" => stack[k].node # Frame.node
  <2>1. k \in 1 .. Len(stack) /\ k # Len(stack)
    BY <1>2
  <2>2. stack[k] \in FrameType(Nodes, Derivs, ListAts)
    BY <1>1, <2>1, ElementOfSeq
  <2>3. stack[k].node \in Nodes
    BY <2>2, FrameFacts
  <2>4. stack[k].at \in {"made1", "made2"}
    BY <1>1 DEF Links, Link
  <2>5. Frame.at # "enter" => stack[k].node # Frame.node
    BY <1>1, <1>3, <2>1, <2>4 DEF Distinct
  <2>6. QED
    BY <1>1, <2>1, <2>2, <2>3, <2>4, <2>5
<1>5. /\ Frame.node \in Nodes /\ Frame.n \in Nat /\ Frame.at \in ListAts
      /\ Frame.edge \in EdgeType(Nodes, Derivs \cup {Null})
  BY <1>2, FrameFacts
<1>6. FrameOK(Frame)
  BY <1>1, <1>3
<1>7. QED
  BY <1>2, <1>3, <1>4, <1>5, <1>6

-----------------------------------------------------------------------------
(* A call returns, goes on, or asks another one. *)

LowerMemos ==
  \A k \in 1 .. Len(stack) - 1 : nodes'[stack[k].node].memo = nodes[stack[k].node].memo

LEMMA LowerFramesStay ==
  ASSUME StackInv, stack # <<>>, Grows, LowerMemos, NEW k \in 1 .. Len(stack) - 1,
         stack'[k] = stack[k]
  PROVE  FrameOK(stack[k])'
<1>1. PICK f : f = stack[k]
  OBVIOUS
<1>2. f \in FrameType(Nodes, Derivs, ListAts) /\ FrameOK(f)
  BY <1>1, StackFacts
<1>3. nodes'[f.node].memo = nodes[f.node].memo
  BY <1>1 DEF LowerMemos
<1>4. FrameOK(f)'
  BY <1>2, <1>3, FrameStays
<1>5. stack'[k] = f
  BY <1>1
<1>6. QED
  BY <1>4, <1>5

LEMMA StackTypeGrows ==
  ASSUME Grows, NEW s \in Seq(FrameType(Nodes, Derivs, ListAts))
  PROVE  s \in Seq(FrameType(Nodes, Derivs', ListAts))
<1>1. FrameType(Nodes, Derivs, ListAts) \subseteq FrameType(Nodes, Derivs', ListAts)
  BY FrameTypeGrows DEF Grows
<1>2. QED
  BY <1>1

LEMMA FrameTypeNext ==
  ASSUME Grows
  PROVE  FrameType(Nodes, Derivs', ListAts) = FrameType(Nodes, Derivs, ListAts)'
BY DEF Grows, FrameType, EdgeType, Kids

LEMMA StackPop ==
  ASSUME StackInv, stack # <<>>, Grows, LowerMemos, stack' = Below, UNCHANGED <<hg, listed>>
  PROVE  /\ StackInv'
         /\ stack' # <<>> =>
              /\ Len(stack) - 1 \in 1 .. Len(stack) - 1
              /\ Frame' = stack[Len(stack) - 1] /\ Link(stack[Len(stack) - 1], Frame)
         /\ stack' = <<>> => Frame.node = NodeOf(hg.final) /\ Frame.n = Len(listed)
<1>1. stack \in Seq(FrameType(Nodes, Derivs, ListAts))
  BY DEF StackInv
<1>2. stack \in Seq(FrameType(Nodes, Derivs', ListAts))
  BY <1>1, StackTypeGrows
<1>3. /\ stack' \in Seq(FrameType(Nodes, Derivs', ListAts))
      /\ Len(stack) \in Nat /\ Len(stack) >= 1 /\ Len(stack') = Len(stack) - 1
      /\ \A k \in 1 .. Len(stack) - 1 : stack'[k] = stack[k]
  BY <1>2, PoppedStack
<1>4. stack' \in Seq(FrameType(Nodes, Derivs, ListAts))'
  BY <1>3, FrameTypeNext
<1>5. \A k \in 1 .. Len(stack') : FrameOK(stack[k])'
  BY <1>3, LowerFramesStay
<1>6. Links'
  <2>1. SUFFICES ASSUME NEW k \in 1 .. Len(stack') - 1 PROVE Link(stack'[k], stack'[k + 1])
    BY DEF Links, Link
  <2>2. k \in 1 .. Len(stack) - 1 /\ k + 1 \in 1 .. Len(stack) - 1
    BY <1>3
  <2>3. Link(stack[k], stack[k + 1])
    BY <2>2 DEF StackInv, Links
  <2>4. QED
    BY <1>3, <2>2, <2>3
<1>7. Distinct'
  <2>1. \A k \in 1 .. Len(stack') : k \in 1 .. Len(stack) /\ stack'[k] = stack[k]
    BY <1>3
  <2>2. QED
    BY <2>1 DEF StackInv, Distinct
<1>8. ASSUME stack' # <<>>
      PROVE  /\ Len(stack) - 1 \in 1 .. Len(stack) - 1 /\ 1 \in 1 .. Len(stack) - 1
             /\ stack'[1] = stack[1]
             /\ Frame' = stack[Len(stack) - 1] /\ Link(stack[Len(stack) - 1], Frame)
  <2>1. Len(stack') >= 1
    BY <1>3, <1>8, EmptySeq
  <2>2. Len(stack) - 1 \in 1 .. Len(stack) - 1 /\ 1 \in 1 .. Len(stack) - 1
    BY <1>3, <2>1
  <2>3. Frame' = stack[Len(stack) - 1] /\ stack'[1] = stack[1]
    BY <1>3, <2>2 DEF Frame
  <2>4. PICK k : k = Len(stack) - 1
    OBVIOUS
  <2>5. Link(stack[k], stack[k + 1]) /\ k + 1 = Len(stack)
    BY <1>3, <2>2, <2>4 DEF StackInv, Links
  <2>6. Link(stack[Len(stack) - 1], stack[Len(stack)])
    BY <2>4, <2>5
  <2>7. QED
    BY <2>2, <2>3, <2>6 DEF Frame
<1>9. stack' # <<>> => stack'[1].node = NodeOf(hg'.final) /\ stack'[1].n = Len(listed')
  BY <1>8 DEF StackInv
<1>10. stack' = <<>> => Frame.node = NodeOf(hg.final) /\ Frame.n = Len(listed)
  <2>1. stack' = <<>> => Len(stack) = 1
    BY <1>3, EmptySeq
  <2>2. QED
    BY <2>1 DEF StackInv, Frame
<1>11. StackInv'
  BY <1>4, <1>5, <1>6, <1>7, <1>9 DEF StackInv
<1>12. QED
  BY <1>8, <1>10, <1>11

LEMMA StackReplace ==
  ASSUME StackInv, stack # <<>>, Grows, LowerMemos, UNCHANGED <<hg, listed>>,
         NEW f \in FrameType(Nodes, Derivs', ListAts), FrameOK(f)',
         f.node = Frame.node, f.n = Frame.n,
         \A k \in 1 .. Len(stack) - 1 : stack[k].node # Frame.node,
         stack' = Append(Below, f)
  PROVE  StackInv' /\ stack' # <<>> /\ Frame' = f
<1>1. stack \in Seq(FrameType(Nodes, Derivs, ListAts))
  BY DEF StackInv
<1>2. stack \in Seq(FrameType(Nodes, Derivs', ListAts))
  BY <1>1, StackTypeGrows
<1>3. /\ stack' \in Seq(FrameType(Nodes, Derivs', ListAts))
      /\ Len(stack) \in Nat /\ Len(stack) >= 1 /\ stack' # <<>>
      /\ Len(stack') = Len(stack) /\ stack'[Len(stack)] = f /\ Frame' = f
      /\ \A k \in 1 .. Len(stack) - 1 : stack'[k] = stack[k]
  BY <1>2, ReplacedStack
<1>4. stack' \in Seq(FrameType(Nodes, Derivs, ListAts))'
  BY <1>3, FrameTypeNext
<1>5. ASSUME NEW k \in 1 .. Len(stack')
      PROVE  FrameOK(stack[k])'
  <2>1. CASE k = Len(stack)
    <3>1. stack'[k] = f
      BY <1>3, <2>1
    <3>2. QED
      BY <3>1
  <2>2. CASE k # Len(stack)
    <3>1. k \in 1 .. Len(stack) - 1 /\ stack'[k] = stack[k]
      BY <1>3, <2>2
    <3>2. QED
      BY <3>1, LowerFramesStay
  <2>3. QED
    BY <2>1, <2>2
<1>6. Links'
  <2>1. SUFFICES ASSUME NEW k \in 1 .. Len(stack') - 1 PROVE Link(stack'[k], stack'[k + 1])
    BY DEF Links, Link
  <2>2. k \in 1 .. Len(stack) - 1 /\ k + 1 \in 1 .. Len(stack)
    BY <1>3
  <2>3. Link(stack[k], stack[k + 1]) /\ stack'[k] = stack[k]
    BY <1>3, <2>2 DEF StackInv, Links
  <2>4. stack'[k + 1].node = stack[k + 1].node /\ stack'[k + 1].n = stack[k + 1].n
    <3>1. CASE k + 1 = Len(stack)
      BY <1>3, <3>1 DEF Frame
    <3>2. CASE k + 1 # Len(stack)
      BY <1>3, <2>2, <3>2
    <3>3. QED
      BY <3>1, <3>2
  <2>5. QED
    BY <2>3, <2>4 DEF Link
<1>7. Distinct'
  <2>1. SUFFICES ASSUME NEW j \in 1 .. Len(stack), NEW k \in 1 .. Len(stack), j # k,
                        stack'[j].at # "enter", stack'[k].at # "enter"
                 PROVE  stack'[j].node # stack'[k].node
    BY <1>3 DEF Distinct
  <2>2. CASE j # Len(stack) /\ k # Len(stack)
    BY <1>3, <2>1, <2>2 DEF StackInv, Distinct
  <2>3. CASE j = Len(stack)
    <3>1. k \in 1 .. Len(stack) - 1
      BY <1>3, <2>1, <2>3
    <3>2. QED
      BY <1>3, <2>3, <3>1
  <2>4. CASE k = Len(stack)
    <3>1. j \in 1 .. Len(stack) - 1
      BY <1>3, <2>1, <2>4
    <3>2. QED
      BY <1>3, <2>4, <3>1
  <2>5. QED
    BY <2>2, <2>3, <2>4
<1>8. stack'[1].node = NodeOf(hg'.final) /\ stack'[1].n = Len(listed')
  <2>1. stack[1].node = NodeOf(hg.final) /\ stack[1].n = Len(listed)
    BY DEF StackInv
  <2>2. CASE Len(stack) = 1
    BY <1>3, <2>1, <2>2 DEF Frame
  <2>3. CASE Len(stack) # 1
    <3>1. 1 \in 1 .. Len(stack) - 1
      BY <1>3, <2>3
    <3>2. QED
      BY <1>3, <2>1, <3>1
  <2>4. QED
    BY <2>2, <2>3
<1>9. StackInv'
  BY <1>4, <1>5, <1>6, <1>7, <1>8 DEF StackInv
<1>10. QED
  BY <1>3, <1>9

LEMMA StackPush ==
  ASSUME StackInv, stack # <<>>, Grows, LowerMemos, UNCHANGED <<hg, listed>>,
         NEW f \in FrameType(Nodes, Derivs', ListAts), FrameOK(f)',
         f.node = Frame.node, f.n = Frame.n, Frame.at # "enter",
         NEW g \in FrameType(Nodes, Derivs', ListAts), FrameOK(g)', g.at = "enter", Link(f, g),
         stack' = Append(Append(Below, f), g)
  PROVE  StackInv' /\ stack' # <<>> /\ Frame' = g
<1>1. stack \in Seq(FrameType(Nodes, Derivs, ListAts))
  BY DEF StackInv
<1>2. stack \in Seq(FrameType(Nodes, Derivs', ListAts))
  BY <1>1, StackTypeGrows
<1>3. /\ stack' \in Seq(FrameType(Nodes, Derivs', ListAts))
      /\ Len(stack) \in Nat /\ Len(stack) >= 1 /\ Len(stack') = Len(stack) + 1
      /\ stack'[Len(stack)] = f /\ stack'[Len(stack) + 1] = g
      /\ \A k \in 1 .. Len(stack) - 1 : stack'[k] = stack[k]
  BY <1>2, PushedStack
<1>4. stack' \in Seq(FrameType(Nodes, Derivs, ListAts))'
  BY <1>3, FrameTypeNext
<1>5. ASSUME NEW k \in 1 .. Len(stack')
      PROVE  FrameOK(stack[k])'
  <2>1. CASE k = Len(stack)
    <3>1. stack'[k] = f
      BY <1>3, <2>1
    <3>2. QED
      BY <3>1
  <2>2. CASE k = Len(stack) + 1
    <3>1. stack'[k] = g
      BY <1>3, <2>2
    <3>2. QED
      BY <3>1
  <2>3. CASE k # Len(stack) /\ k # Len(stack) + 1
    <3>1. k \in 1 .. Len(stack) - 1
      BY <1>3, <2>3
    <3>2. stack'[k] = stack[k]
      BY <1>3, <3>1
    <3>3. QED
      BY <3>1, <3>2, LowerFramesStay
  <2>4. QED
    BY <2>1, <2>2, <2>3
<1>6. Links'
  <2>1. SUFFICES ASSUME NEW k \in 1 .. Len(stack') - 1 PROVE Link(stack'[k], stack'[k + 1])
    BY DEF Links, Link
  <2>2. CASE k = Len(stack)
    BY <1>3, <2>2
  <2>3. CASE k # Len(stack)
    <3>1. k \in 1 .. Len(stack) - 1 /\ k + 1 \in 1 .. Len(stack)
      BY <1>3, <2>3
    <3>2. Link(stack[k], stack[k + 1]) /\ stack'[k] = stack[k]
      BY <1>3, <3>1 DEF StackInv, Links
    <3>3. stack'[k + 1].node = stack[k + 1].node /\ stack'[k + 1].n = stack[k + 1].n
      <4>1. CASE k + 1 = Len(stack)
        BY <1>3, <4>1 DEF Frame
      <4>2. CASE k + 1 # Len(stack)
        <5>1. k + 1 \in 1 .. Len(stack) - 1
          BY <1>3, <3>1, <4>2
        <5>2. stack'[k + 1] = stack[k + 1]
          BY <1>3, <5>1
        <5>3. QED
          BY <5>2
      <4>3. QED
        BY <4>1, <4>2
    <3>4. QED
      BY <3>2, <3>3 DEF Link
  <2>4. QED
    BY <2>2, <2>3
<1>7. Distinct'
  <2>1. SUFFICES ASSUME NEW j \in 1 .. Len(stack'), NEW k \in 1 .. Len(stack'), j # k,
                        stack'[j].at # "enter", stack'[k].at # "enter"
                 PROVE  stack'[j].node # stack'[k].node
    BY DEF Distinct
  <2>2. j \in 1 .. Len(stack) /\ k \in 1 .. Len(stack)
    BY <1>3, <2>1
  <2>3. \A i \in 1 .. Len(stack) - 1 : stack[i].node # Frame.node
    BY StackFacts
  <2>4. CASE j # Len(stack) /\ k # Len(stack)
    <3>1. j \in 1 .. Len(stack) - 1 /\ k \in 1 .. Len(stack) - 1
      BY <1>3, <2>2, <2>4
    <3>2. stack'[j] = stack[j] /\ stack'[k] = stack[k]
      BY <1>3, <3>1
    <3>3. QED
      BY <2>1, <2>2, <3>2 DEF StackInv, Distinct
  <2>5. CASE j = Len(stack)
    <3>1. k \in 1 .. Len(stack) - 1
      BY <1>3, <2>1, <2>2, <2>5
    <3>2. QED
      BY <1>3, <2>3, <2>5, <3>1
  <2>6. CASE k = Len(stack)
    <3>1. j \in 1 .. Len(stack) - 1
      BY <1>3, <2>1, <2>2, <2>6
    <3>2. QED
      BY <1>3, <2>3, <2>6, <3>1
  <2>7. QED
    BY <2>4, <2>5, <2>6
<1>8. stack'[1].node = NodeOf(hg'.final) /\ stack'[1].n = Len(listed')
  <2>1. stack[1].node = NodeOf(hg.final) /\ stack[1].n = Len(listed)
    BY DEF StackInv
  <2>2. CASE Len(stack) = 1
    BY <1>3, <2>1, <2>2 DEF Frame
  <2>3. CASE Len(stack) # 1
    <3>1. 1 \in 1 .. Len(stack) - 1
      <4>1. PICK m \in Nat : m = Len(stack)
        BY <1>3
      <4>2. m >= 1 /\ m # 1
        BY <1>3, <2>3, <4>1
      <4>3. 1 \in 1 .. m - 1
        BY <4>2
      <4>4. QED
        BY <4>1, <4>3
    <3>2. QED
      BY <1>3, <2>1, <3>1
  <2>4. QED
    BY <2>2, <2>3
<1>9. stack' # <<>> /\ Frame' = g
  <2>1. Len(stack') # 0
    BY <1>3
  <2>2. QED
    BY <1>3, <2>1, EmptySeq DEF Frame
<1>10. StackInv'
  BY <1>4, <1>5, <1>6, <1>7, <1>8 DEF StackInv
<1>11. QED
  BY <1>9, <1>10

-----------------------------------------------------------------------------
(* The steps of get_best *)

LEMMA GrowsSame ==
  ASSUME nodes' = nodes, Derivs \subseteq Derivs'
  PROVE  Grows /\ LowerMemos
BY DEF Grows, LowerMemos, Nodes

LEMMA GrowsAt ==
  ASSUME Nodes' = Nodes, Derivs \subseteq Derivs', NEW n \in Nodes,
         \A o \in Nodes : o # n => nodes'[o] = nodes[o],
         \A i \in 1 .. Len(nodes[n].memo) :
           nodes[n].memo[i] # PENDING =>
             i \in 1 .. Len(nodes'[n].memo) /\ nodes'[n].memo[i] = nodes[n].memo[i]
  PROVE  Grows
BY DEF Grows

LEMMA LowerMemosAt ==
  ASSUME StackInv, stack # <<>>, NEW n \in Nodes,
         \A o \in Nodes : o # n => nodes'[o] = nodes[o],
         nodes'[n].memo = nodes[n].memo \/ \A k \in 1 .. Len(stack) - 1 : stack[k].node # n
  PROVE  LowerMemos
<1>1. \A k \in 1 .. Len(stack) - 1 : stack[k].node \in Nodes
  BY StackFacts
<1>2. QED
  BY <1>1 DEF LowerMemos

(* The memos and the edges of the other nodes *)
LEMMA OthersKeep ==
  ASSUME NodesOK, Grows, MemosInv, EdgesInv, NEW n \in Nodes,
         \A o \in Nodes : o # n => nodes'[o] = nodes[o],
         MemoOK(n)', \A e \in EdgesOf(n)' : EdgeOK(e)'
  PROVE  MemosInv' /\ EdgesInv'
<1>1. Nodes' = Nodes
  BY DEF Grows
<1>2. ASSUME NEW o \in Nodes
      PROVE  MemoOK(o)'
  <2>1. CASE o = n
    BY <2>1
  <2>2. CASE o # n
    <3>1. MemoOK(o)
      BY DEF MemosInv
    <3>2. nodes'[o] = nodes[o]
      BY <2>2
    <3>3. QED
      BY <3>1, <3>2 DEF MemoOK
  <2>3. QED
    BY <2>1, <2>2
<1>3. ASSUME NEW o \in Nodes, NEW e \in EdgesOf(o)'
      PROVE  EdgeOK(e)'
  <2>1. CASE o = n
    BY <1>3, <2>1
  <2>2. CASE o # n
    <3>1. EdgesOf(o)' = EdgesOf(o)
      BY <2>2 DEF EdgesOf
    <3>2. e \in EdgesOf(o)
      BY <1>3, <3>1
    <3>3. EdgeOK(e) /\ \A i \in 1 .. 2 : e.kids[i] \in {Null} \cup Nodes
      BY <3>2, NodeFacts DEF EdgesInv
    <3>4. QED
      BY <3>3, EdgeStays
  <2>3. QED
    BY <2>1, <2>2
<1>4. QED
  BY <1>1, <1>2, <1>3 DEF MemosInv, EdgesInv

LEMMA OldEdgesStay ==
  ASSUME NodesOK, Grows, EdgesInv, NEW n \in Nodes, NEW e \in EdgesOf(n)
  PROVE  EdgeOK(e)'
<1>1. EdgeOK(e) /\ \A i \in 1 .. 2 : e.kids[i] \in {Null} \cup Nodes
  BY NodeFacts DEF EdgesInv
<1>2. QED
  BY <1>1, EdgeStays

LEMMA SameMemos ==
  ASSUME NodesOK, nodes' = nodes, Derivs \subseteq Derivs', MemosInv, EdgesInv
  PROVE  MemosInv' /\ EdgesInv'
BY DEF MemosInv, EdgesInv, MemoOK, EdgeOK, IsKnown, EdgesOf, Nodes

LEMMA ListedStays ==
  ASSUME IInv, NodesOK, Grows, ListedInv, UNCHANGED <<hg, listed>>
  PROVE  ListedInv' /\ NodeOf(hg.final) \in Nodes
<1>1. NodeOf(hg.final) \in Nodes
  <2>1. hg.final \in States
    BY DEF IInv, JobInv, IsHypergraph
  <2>2. QED
    BY <2>1, NodeOfFacts DEF NodesOK
<1>2. Len(listed) >= 1 => IsKnown(NodeOf(hg.final), Len(listed))'
  BY <1>1, KnownGrows DEF ListedInv
<1>3. QED
  BY <1>1, <1>2 DEF ListedInv

(* A call that returns what it was asked for *)
LEMMA AnswerAfterPop ==
  ASSUME StackInv, stack # <<>>, Grows, LowerMemos, stack' = Below, UNCHANGED <<hg, listed>>,
         NEW n, n = Frame.node, NEW i, i = Frame.n + 1,
         i \in 1 .. Len(nodes'[n].memo), nodes'[n].memo[i] # PENDING,
         answer' = nodes'[n].memo[i]
  PROVE  StackInv' /\ AnswerInv'
<1>1. /\ StackInv'
      /\ stack' # <<>> =>
           /\ Len(stack) - 1 \in 1 .. Len(stack) - 1
           /\ Frame' = stack[Len(stack) - 1] /\ Link(stack[Len(stack) - 1], Frame)
      /\ stack' = <<>> => Frame.node = NodeOf(hg.final) /\ Frame.n = Len(listed)
  BY StackPop
<1>2. AnswerIs(n, i)'
  BY DEF AnswerIs, IsKnown
<1>3. CASE stack' = <<>>
  <2>1. n = NodeOf(hg.final) /\ i = Len(listed) + 1
    BY <1>1, <1>3
  <2>2. AnswerIs(NodeOf(hg.final), Len(listed) + 1)'
    BY <1>2, <2>1 DEF AnswerIs, IsKnown
  <2>3. QED
    BY <1>1, <1>3, <2>2 DEF AnswerInv
<1>4. CASE stack' # <<>>
  <2>1. PICK g : g = Frame'
    OBVIOUS
  <2>2. Link(g, Frame) /\ g.edge \in EdgeType(Nodes, Derivs \cup {Null})
    <3>1. PICK k \in 1 .. Len(stack) - 1 : k = Len(stack) - 1
      BY <1>1, <1>4
    <3>2. stack[k] \in FrameType(Nodes, Derivs, ListAts)
      BY StackFacts
    <3>3. g = stack[k] /\ Link(stack[k], Frame)
      BY <1>1, <1>4, <2>1, <3>1
    <3>4. QED
      BY <3>2, <3>3, FrameFacts
  <2>3. g.edge.places[1] \in Nat /\ g.edge.places[2] \in Nat
    BY <2>2, EdgeTypeFacts
  <2>4. ASSUME g.at = "made1"
        PROVE  n = g.edge.kids[1] /\ i = g.edge.places[1] + 2
    BY <2>2, <2>3, <2>4 DEF Link
  <2>5. ASSUME g.at = "made2"
        PROVE  n = g.edge.kids[2] /\ i = g.edge.places[2] + 2
    BY <2>2, <2>3, <2>5 DEF Link
  <2>6. /\ g.at = "made1" => AnswerIs(g.edge.kids[1], g.edge.places[1] + 2)'
        /\ g.at = "made2" => AnswerIs(g.edge.kids[2], g.edge.places[2] + 2)'
    BY <1>2, <2>4, <2>5
  <2>7. /\ Frame'.at = "made1" => AnswerIs(Frame.edge.kids[1], Frame.edge.places[1] + 2)'
        /\ Frame'.at = "made2" => AnswerIs(Frame.edge.kids[2], Frame.edge.places[2] + 2)'
    BY <2>1, <2>6 DEF AnswerIs, IsKnown
  <2>8. QED
    BY <1>1, <1>4, <2>7 DEF AnswerInv
<1>5. QED
  BY <1>3, <1>4

(* While a call is under way the answer counts only for one that waits. *)
LEMMA NoAnswerYet ==
  ASSUME stack' # <<>>, NEW f, Frame' = f, f.at \notin {"made1", "made2"}
  PROVE  AnswerInv'
BY DEF AnswerInv

-----------------------------------------------------------------------------
(* What is known stays so in every step of get_best. *)

LEMMA SameStore ==
  ASSUME StoreOK, UNCHANGED <<hg, store>>
  PROVE  StoreOK' /\ Derivs' = Derivs
BY DEF StoreOK, DerivType, Kids, Derivs

LEMMA SameNodes ==
  ASSUME NodesOK, nodes' = nodes, Derivs' = Derivs
  PROVE  NodesOK' /\ Nodes' = Nodes
BY DEF NodesOK, NodeType, EdgeType, Kids, Nodes

LEMMA ForestUnchanged ==
  ASSUME StoreOK, forestUnchanged
  PROVE  StoreOK' /\ Derivs' = Derivs /\ UNCHANGED <<hg, mu, pi, opt, phase, store, listed>>
<1>1. UNCHANGED <<hg, mu, pi, opt, phase, store, listed>>
  BY DEF forestUnchanged, vars, input, result
<1>2. QED
  BY <1>1, SameStore

LEMMA DerivFacts ==
  ASSUME StoreOK, NEW d \in Derivs
  PROVE  /\ d \in Nat /\ d # Null /\ d # NONE /\ d # PENDING
         /\ store[d].cost \in Int /\ store[d].leaf \in States \cup {NoState}
         /\ store[d].kids \in Kids(Derivs) /\ store[d].arc \in {0} \cup ArcIds(hg)
         /\ store[d] = [cost |-> store[d].cost, leaf |-> store[d].leaf,
                        kids |-> store[d].kids, arc |-> store[d].arc]
<1>1. PICK m \in Nat : Derivs \subseteq 1 .. m
  BY DEF StoreOK
<1>2. d \in 1 .. m
  BY <1>1
<1>3. d \in Nat /\ d # Null /\ d # NONE /\ d # PENDING
  BY <1>2 DEF Null, NONE, PENDING
<1>4. store[d] \in DerivType(Derivs)
  BY DEF StoreOK
<1>5. QED
  BY <1>3, <1>4 DEF DerivType

LEMMA MemoFacts ==
  ASSUME StoreOK, NodesOK, NEW n \in Nodes, NEW i \in 1 .. Len(nodes[n].memo)
  PROVE  /\ i \in Nat /\ i >= 1 /\ i <= Len(nodes[n].memo)
         /\ nodes[n].memo[i] \in {NONE, PENDING} \cup Derivs
<1>1. nodes[n].memo \in Seq({NONE, PENDING} \cup Derivs) /\ Len(nodes[n].memo) \in Nat
  BY NodeFacts
<1>2. nodes[n].memo[i] \in {NONE, PENDING} \cup Derivs
  BY <1>1, ElementOfSeq
<1>3. QED
  BY <1>1, <1>2

LEMMA KeepsReturnKnown ==
  ASSUME IInv, StoreOK, NodesOK, ListInv, ReturnKnown
  PROVE  StoreOK' /\ NodesOK' /\ ListInv' /\ AnswerType' /\ Grows
<1>1. /\ StoreOK' /\ Derivs' = Derivs /\ UNCHANGED <<hg, phase, listed>>
      /\ nodes' = nodes /\ stack # <<>> /\ stack' = Below /\ phase = "list"
      /\ Frame.at = "enter" /\ Frame.n < Len(NodeHere.memo)
      /\ NodeHere.memo[Frame.n + 1] # PENDING /\ answer' = NodeHere.memo[Frame.n + 1]
  BY ForestUnchanged DEF ReturnKnown
<1>2. MemosInv /\ EdgesInv /\ StackInv /\ AnswerInv /\ ListedInv
  BY <1>1 DEF ListInv
<1>3. NodesOK' /\ Grows /\ LowerMemos
  BY <1>1, SameNodes, GrowsSame
<1>4. MemosInv' /\ EdgesInv'
  BY <1>1, <1>2, SameMemos
<1>5. ListedInv'
  BY <1>1, <1>2, <1>3, ListedStays
<1>6. PICK n \in Nodes : n = Frame.node
  BY <1>1, <1>2, StackFacts
<1>7. PICK i : i = Frame.n + 1
  OBVIOUS
<1>8. Frame.n \in Nat /\ Len(nodes[n].memo) \in Nat /\ Frame.n < Len(nodes[n].memo)
  BY <1>1, <1>2, <1>6, StackFacts, NodeFacts DEF NodeHere
<1>9. i \in 1 .. Len(nodes[n].memo)
  BY <1>7, <1>8
<1>10. nodes[n].memo[i] # PENDING /\ answer' = nodes[n].memo[i] /\ nodes'[n] = nodes[n]
  BY <1>1, <1>6, <1>7 DEF NodeHere
<1>11. StackInv' /\ AnswerInv'
  BY <1>1, <1>2, <1>3, <1>6, <1>7, <1>9, <1>10, AnswerAfterPop
<1>12. answer' \in {Null, NONE} \cup Derivs'
  BY <1>1, <1>9, <1>10, MemoFacts
<1>13. QED
  BY <1>1, <1>3, <1>4, <1>5, <1>11, <1>12 DEF ListInv, AnswerType

LEMMA KeepsAskForNext ==
  ASSUME IInv, StoreOK, NodesOK, ListInv, AnswerType, AskForNext
  PROVE  StoreOK' /\ NodesOK' /\ ListInv' /\ AnswerType' /\ Grows
<1>1. /\ StoreOK' /\ Derivs' = Derivs /\ UNCHANGED <<hg, phase, listed>>
      /\ nodes' = nodes /\ answer' = answer /\ answer = Null /\ phase = "list"
      /\ stack' = <<Call(NodeOf(hg.final), Len(listed))>>
  BY ForestUnchanged DEF AskForNext
<1>2. MemosInv /\ EdgesInv /\ ListedInv
  BY <1>1 DEF ListInv
<1>3. NodesOK' /\ Grows /\ Nodes' = Nodes
  BY <1>1, SameNodes, GrowsSame
<1>4. MemosInv' /\ EdgesInv'
  BY <1>1, <1>2, SameMemos
<1>5. ListedInv' /\ NodeOf(hg.final) \in Nodes
  BY <1>1, <1>2, <1>3, ListedStays
<1>6. PICK n \in Nodes : n = NodeOf(hg.final)
  BY <1>5
<1>7. PICK l \in Nat : l = Len(listed)
  BY <1>2, LenProperties DEF ListedInv
<1>8. PICK f : f = Call(n, l)
  OBVIOUS
<1>9. /\ f \in FrameType(Nodes, Derivs, ListAts)
      /\ f.node = n /\ f.n = l /\ f.at = "enter"
  BY <1>8, CallFacts DEF ListAts
<1>10. FrameOK(f)'
  <2>1. l >= 1 => l \in 1 .. Len(nodes[n].memo) /\ nodes[n].memo[l] # PENDING
    BY <1>2, <1>6, <1>7 DEF ListedInv, IsKnown
  <2>2. Len(nodes[n].memo) \in Nat
    BY NodeFacts
  <2>3. l <= Len(nodes[n].memo)
    BY <2>1, <2>2
  <2>4. QED
    BY <1>1, <1>9, <2>1, <2>3 DEF FrameOK, InHandAts, SecondAts
<1>11. stack' = <<f>> /\ Len(<<f>>) = 1 /\ <<f>>[1] = f /\ <<f>> # <<>>
  <2>1. <<f>> # <<>>
    OBVIOUS
  <2>2. QED
    BY <1>1, <1>6, <1>7, <1>8, <2>1
<1>12. StackInv'
  <2>1. <<f>> \in Seq(FrameType(Nodes, Derivs, ListAts))
    BY <1>9
  <2>2. stack' \in Seq(FrameType(Nodes, Derivs, ListAts))'
    BY <1>1, <1>3, <1>11, <2>1, FrameTypeNext
  <2>3. \A k \in 1 .. Len(stack') : k = 1 /\ stack'[k] = f
    BY <1>11
  <2>4. \A k \in 1 .. Len(stack') : FrameOK(stack[k])'
    BY <1>10, <2>3
  <2>5. Links'
    BY <1>11 DEF Links
  <2>6. Distinct'
    BY <2>3 DEF Distinct
  <2>7. stack'[1].node = NodeOf(hg'.final) /\ stack'[1].n = Len(listed')
    BY <1>1, <1>6, <1>7, <1>9, <1>11
  <2>8. QED
    BY <2>2, <2>4, <2>5, <2>6, <2>7 DEF StackInv
<1>13. AnswerInv'
  <2>1. Frame' = f
    BY <1>11 DEF Frame
  <2>2. QED
    BY <1>9, <1>11, <2>1, NoAnswerYet
<1>14. QED
  BY <1>1, <1>3, <1>4, <1>5, <1>12, <1>13 DEF ListInv, AnswerType

LEMMA KeepsVisitBest ==
  ASSUME IInv, StoreOK, NodesOK, ListInv, VisitBest
  PROVE  StoreOK' /\ NodesOK' /\ ListInv' /\ AnswerType' /\ Grows
<1>1. /\ UNCHANGED <<hg, store, nodes, stack>> /\ answer' = Null /\ phase = "list"
      /\ stack = <<>> /\ answer # Null
  BY DEF VisitBest, input
<1>2. StoreOK' /\ Derivs' = Derivs
  BY <1>1, SameStore
<1>3. MemosInv /\ EdgesInv /\ StackInv /\ AnswerInv /\ ListedInv
  BY <1>1 DEF ListInv
<1>4. NodesOK' /\ Grows /\ Nodes' = Nodes
  BY <1>1, <1>2, SameNodes, GrowsSame
<1>5. MemosInv' /\ EdgesInv'
  BY <1>1, <1>2, <1>3, SameMemos
<1>6. ASSUME phase' = "list"
      PROVE  \E r : listed' = Append(listed, r)
  BY <1>6 DEF VisitBest
<1>7. ASSUME phase' = "list"
      PROVE  ListedInv'
  <2>1. PICK r : listed' = Append(listed, r)
    BY <1>6, <1>7
  <2>2. PICK S : listed \in Seq(S)
    BY <1>3 DEF ListedInv
  <2>3. PICK T : T = S \cup {r}
    OBVIOUS
  <2>4. listed \in Seq(T) /\ r \in T
    BY <2>2, <2>3
  <2>5. listed' \in Seq(T) /\ Len(listed') = Len(listed) + 1
    BY <2>1, <2>4, AppendFacts
  <2>6. IsKnown(NodeOf(hg.final), Len(listed) + 1)
    BY <1>1, <1>3 DEF AnswerInv, AnswerIs
  <2>7. IsKnown(NodeOf(hg.final), Len(listed))'
    BY <1>1, <2>5, <2>6 DEF IsKnown
  <2>8. QED
    BY <2>5, <2>7 DEF ListedInv
<1>8. StackInv' /\ AnswerInv'
  <2>1. AnswerInv'
    BY <1>1 DEF AnswerInv
  <2>2. stack' \in Seq(FrameType(Nodes, Derivs, ListAts))'
    <3>1. <<>> \in Seq(FrameType(Nodes, Derivs, ListAts)')
      BY EmptySeq
    <3>2. QED
      BY <1>1, <3>1
  <2>3. Len(stack') = 0
    BY <1>1, EmptySeq
  <2>4. QED
    BY <1>1, <2>1, <2>2, <2>3 DEF StackInv, Links, Distinct
<1>9. QED
  BY <1>1, <1>2, <1>4, <1>5, <1>7, <1>8 DEF ListInv, AnswerType

LEMMA KeepsLeaving ==
  ASSUME IInv, StoreOK, NodesOK, ListInv, AnswerType, ThrowCycle \/ StopListing
  PROVE  StoreOK' /\ NodesOK' /\ ListInv' /\ AnswerType' /\ Grows
<1>1. /\ UNCHANGED <<hg, store, nodes, answer>> /\ phase = "list" /\ phase' # "list"
  BY DEF ThrowCycle, StopListing, input, nbestVars
<1>2. StoreOK' /\ Derivs' = Derivs
  BY <1>1, SameStore
<1>3. NodesOK' /\ Grows
  BY <1>1, <1>2, SameNodes, GrowsSame
<1>4. QED
  BY <1>1, <1>2, <1>3 DEF ListInv, AnswerType, TreePhases
(* What the steps of a call that goes on start from *)
LEMMA CallStarts ==
  ASSUME StoreOK, NodesOK, ListInv, phase = "list", stack # <<>>, NEW n, n = Frame.node
  PROVE  /\ MemosInv /\ EdgesInv /\ StackInv /\ AnswerInv /\ ListedInv
         /\ n \in Nodes /\ NodeHere = nodes[n] /\ FrameOK(Frame) /\ MemoOK(n)
         /\ Frame \in FrameType(Nodes, Derivs, ListAts) /\ Frame.n \in Nat
         /\ Len(nodes[n].memo) \in Nat
<1>1. MemosInv /\ EdgesInv /\ StackInv /\ AnswerInv /\ ListedInv
  BY DEF ListInv
<1>2. /\ n \in Nodes /\ FrameOK(Frame) /\ Frame \in FrameType(Nodes, Derivs, ListAts)
      /\ Frame.n \in Nat
  BY <1>1, StackFacts
<1>3. MemoOK(n) /\ Len(nodes[n].memo) \in Nat
  BY <1>1, <1>2, NodeFacts DEF MemosInv
<1>4. QED
  BY <1>1, <1>2, <1>3 DEF NodeHere

LEMMA KeepsAskForNew ==
  ASSUME IInv, StoreOK, NodesOK, ListInv, AnswerType, AskForNew
  PROVE  StoreOK' /\ NodesOK' /\ ListInv' /\ AnswerType' /\ Grows
<1>0. PICK n : n = Frame.node
  OBVIOUS
<1>1. /\ StoreOK' /\ Derivs' = Derivs /\ UNCHANGED <<hg, phase, listed, answer>>
      /\ stack # <<>> /\ phase = "list" /\ Frame.at = "enter"
      /\ Frame.n = Len(NodeHere.memo)
      /\ nodes' = [nodes EXCEPT ![n].memo = Append(@, PENDING)]
      /\ stack' = Goto(Frame, "pop")
  BY <1>0, ForestUnchanged DEF AskForNew
<1>2. /\ MemosInv /\ EdgesInv /\ StackInv /\ AnswerInv /\ ListedInv
      /\ n \in Nodes /\ NodeHere = nodes[n] /\ FrameOK(Frame) /\ MemoOK(n)
      /\ Frame \in FrameType(Nodes, Derivs, ListAts) /\ Frame.n \in Nat
      /\ Len(nodes[n].memo) \in Nat
  BY <1>0, <1>1, CallStarts
<1>3. PICK q, l : q = nodes[n].queue /\ l = nodes[n].memo
  OBVIOUS
<1>4. PICK m : m = Append(l, PENDING)
  OBVIOUS
<1>5. /\ q \in Seq(EdgeType(Nodes, Derivs)) /\ l \in Seq({NONE, PENDING} \cup Derivs)
      /\ Len(q) \in Nat
      /\ \A i \in 1 .. Len(q) : q[i].kids[1] = Null => q[i].kids[2] = Null
  BY <1>2, <1>3, NodeFacts DEF NodesOK
<1>6. /\ m \in Seq({NONE, PENDING} \cup Derivs) /\ Len(m) = Len(l) + 1 /\ m # <<>>
      /\ m[Len(l) + 1] = PENDING /\ \A k \in 1 .. Len(l) : m[k] = l[k]
  BY <1>4, <1>5, AppendFacts
<1>7. nodes' = [nodes EXCEPT ![n] = [queue |-> q, memo |-> m]]
  <2>1. nodes' = [nodes EXCEPT ![n].memo = m]
    BY <1>1, <1>3, <1>4
  <2>2. QED
    BY <1>2, <1>3, <2>1, NodeExcept
<1>8. /\ NodesOK' /\ Nodes' = Nodes /\ nodes'[n].queue = q /\ nodes'[n].memo = m
      /\ \A o \in Nodes : o # n => nodes'[o] = nodes[o]
  <2>1. q \in Seq(EdgeType(Nodes, Derivs')) /\ m \in Seq({NONE, PENDING} \cup Derivs')
    BY <1>1, <1>5, <1>6
  <2>2. Derivs \subseteq Derivs'
    BY <1>1
  <2>3. /\ NodesOK' /\ Nodes' = Nodes
        /\ nodes'[n] = [queue |-> q, memo |-> m] /\ nodes'[n].queue = q /\ nodes'[n].memo = m
        /\ \A o \in Nodes : o # n => nodes'[o] = nodes[o] /\ EdgesOf(o)' = EdgesOf(o)
    <3>1. /\ n \in Nodes /\ nodes' = [nodes EXCEPT ![n] = [queue |-> q, memo |-> m]]
          /\ \A i \in 1 .. Len(q) : q[i].kids[1] = Null => q[i].kids[2] = Null
      BY <1>2, <1>5, <1>7
    <3>2. QED
      BY <2>1, <2>2, <3>1, NodeChange
  <2>4. QED
    BY <2>3
<1>9. /\ Len(l) \in Nat /\ Len(l) >= 1 /\ Frame.n = Len(l) /\ l[Len(l)] # PENDING
      /\ \A i \in 1 .. Len(l) : l[i] # PENDING
  <2>1. Len(l) \in Nat /\ Len(l) >= 1 /\ Frame.n = Len(l)
    BY <1>1, <1>2, <1>3, <1>5, EmptySeq DEF MemoOK
  <2>2. l[Len(l)] # PENDING
    BY <1>0, <1>1, <1>2, <1>3, <2>1 DEF FrameOK
  <2>3. \A i \in 1 .. Len(l) : i \in 1 .. Len(l) - 1 \/ i = Len(l)
    BY <2>1
  <2>4. \A i \in 1 .. Len(l) - 1 : l[i] # PENDING
    BY <1>2, <1>3 DEF MemoOK
  <2>5. QED
    BY <2>1, <2>2, <2>3, <2>4
<1>10. Grows
  <2>1. \A i \in 1 .. Len(l) : i \in 1 .. Len(m)
    BY <1>6, <1>9
  <2>2. QED
    BY <1>1, <1>2, <1>3, <1>6, <1>8, <2>1, GrowsAt
<1>11. ASSUME NEW k \in 1 .. Len(stack) - 1
       PROVE  stack[k].node # n
  <2>1. FrameOK(stack[k]) /\ stack[k].at \in {"made1", "made2"} /\ stack[k].n \in Nat
    BY <1>1, <1>2, StackFacts, FrameFacts
  <2>2. /\ Len(nodes[stack[k].node].memo) = stack[k].n + 1
        /\ nodes[stack[k].node].memo[stack[k].n + 1] = PENDING
    BY <2>1 DEF FrameOK
  <2>3. QED
    BY <1>3, <1>9, <2>2
<1>12. LowerMemos
  BY <1>1, <1>2, <1>8, <1>11, LowerMemosAt
<1>13. MemosInv' /\ EdgesInv'
  <2>1. MemoOK(n)'
    <3>1. m[1] # PENDING /\ \A i \in 1 .. Len(m) - 1 : m[i] # PENDING
      BY <1>6, <1>9
    <3>2. \A i \in 1 .. Len(m) : i \in 1 .. Len(l) \/ i = Len(l) + 1
      BY <1>6, <1>9
    <3>3. \A i \in 1 .. Len(m) : m[i] = NONE => q = <<>>
      <4>1. \A i \in 1 .. Len(l) : l[i] = NONE => q = <<>>
        BY <1>2, <1>3 DEF MemoOK
      <4>2. QED
        BY <1>6, <3>2, <4>1 DEF NONE, PENDING
    <3>4. ASSUME NEW i \in 1 .. Len(m), NEW j \in 1 .. Len(m), i < j, m[i] = NONE
          PROVE  m[j] \in {NONE, PENDING}
      <4>1. i \in 1 .. Len(l)
        BY <1>6, <1>9, <3>4
      <4>2. CASE j = Len(l) + 1
        BY <1>6, <4>2
      <4>3. CASE j \in 1 .. Len(l)
        <5>1. l[j] \in {NONE, PENDING}
          BY <1>2, <1>3, <1>6, <3>4, <4>1, <4>3 DEF MemoOK
        <5>2. QED
          BY <1>6, <4>3, <5>1
      <4>4. QED
        BY <3>2, <4>2, <4>3
    <3>5. QED
      BY <1>6, <1>8, <3>1, <3>3, <3>4 DEF MemoOK
  <2>2. EdgesOf(n)' = EdgesOf(n)
    BY <1>3, <1>8 DEF EdgesOf
  <2>3. \A e \in EdgesOf(n)' : EdgeOK(e)'
    BY <1>2, <1>10, <2>2, OldEdgesStay
  <2>4. QED
    BY <1>2, <1>8, <1>10, <2>1, <2>3, OthersKeep
<1>14. PICK f : f = [Frame EXCEPT !.at = "pop"]
  OBVIOUS
<1>15. /\ f \in FrameType(Nodes, Derivs, ListAts)
       /\ f.at = "pop" /\ f.node = n /\ f.n = Frame.n
  <2>1. "pop" \in ListAts
    BY DEF ListAts
  <2>2. QED
    BY <1>0, <1>2, <1>14, <2>1, FrameAt
<1>16. stack' = Append(Below, f)
  BY <1>1, <1>14 DEF Goto
<1>17. FrameOK(f)'
  BY <1>6, <1>8, <1>9, <1>15 DEF FrameOK, InHandAts, SecondAts
<1>18. StackInv' /\ stack' # <<>> /\ Frame' = f
  BY <1>0, <1>1, <1>2, <1>10, <1>11, <1>12, <1>15, <1>16, <1>17, StackReplace
<1>19. AnswerInv'
  BY <1>15, <1>18, NoAnswerYet
<1>20. ListedInv'
  BY <1>1, <1>2, <1>10, ListedStays
<1>21. QED
  BY <1>1, <1>8, <1>10, <1>13, <1>18, <1>19, <1>20 DEF ListInv, AnswerType

LEMMA TailFacts ==
  ASSUME NEW S, NEW s \in Seq(S), s # <<>>
  PROVE  /\ Tail(s) \in Seq(S) /\ Len(s) \in Nat /\ Len(s) >= 1 /\ Len(Tail(s)) = Len(s) - 1
         /\ \A i \in 1 .. Len(s) - 1 : Tail(s)[i] = s[i + 1] /\ i + 1 \in 1 .. Len(s)
<1>1. Len(s) \in Nat /\ Len(s) >= 1
  BY EmptySeq
<1>2. /\ Tail(s) \in Seq(S) /\ Len(Tail(s)) = Len(s) - 1
      /\ \A i \in 1 .. Len(Tail(s)) : Tail(s)[i] = s[i + 1]
  BY HeadTailProperties
<1>3. QED
  BY <1>1, <1>2

LEMMA KeepsPopEdge ==
  ASSUME IInv, StoreOK, NodesOK, ListInv, AnswerType, PopEdge
  PROVE  StoreOK' /\ NodesOK' /\ ListInv' /\ AnswerType' /\ Grows
<1>0. PICK n : n = Frame.node
  OBVIOUS
<1>1. /\ StoreOK' /\ Derivs' = Derivs /\ UNCHANGED <<hg, phase, listed, answer>>
      /\ stack # <<>> /\ phase = "list" /\ Frame.at = "pop"
  BY <1>0, ForestUnchanged DEF PopEdge
<1>2. /\ MemosInv /\ EdgesInv /\ StackInv /\ AnswerInv /\ ListedInv
      /\ n \in Nodes /\ NodeHere = nodes[n] /\ FrameOK(Frame) /\ MemoOK(n)
      /\ Frame \in FrameType(Nodes, Derivs, ListAts) /\ Frame.n \in Nat
      /\ Len(nodes[n].memo) \in Nat
  BY <1>0, <1>1, CallStarts
<1>3. PICK q, m : q = nodes[n].queue /\ m = nodes[n].memo
  OBVIOUS
<1>4. /\ q \in Seq(EdgeType(Nodes, Derivs)) /\ m \in Seq({NONE, PENDING} \cup Derivs)
      /\ \A i \in 1 .. Len(q) : q[i] \in EdgesOf(n)
      /\ \A i \in 1 .. Len(q) : q[i].kids[1] = Null => q[i].kids[2] = Null
  BY <1>2, <1>3, NodeFacts DEF NodesOK
<1>5. \A k \in 1 .. Len(stack) - 1 : stack[k].node # Frame.node
  BY <1>1, <1>2, StackFacts
<1>6. Frame.n >= 1 /\ Len(m) = Frame.n + 1 /\ m[Frame.n + 1] = PENDING
  BY <1>0, <1>1, <1>2, <1>3 DEF FrameOK
<1>7. CASE q = <<>>
  <2>1. stack' = Goto(Frame, "top") /\ nodes' = nodes
    BY <1>2, <1>3, <1>7 DEF PopEdge
  <2>2. NodesOK' /\ Nodes' = Nodes /\ Grows /\ LowerMemos
    BY <1>1, <2>1, SameNodes, GrowsSame
  <2>3. MemosInv' /\ EdgesInv' /\ ListedInv'
    BY <1>1, <1>2, <2>1, <2>2, SameMemos, ListedStays
  <2>4. PICK f : f = [Frame EXCEPT !.at = "top"]
    OBVIOUS
  <2>5. /\ f \in FrameType(Nodes, Derivs, ListAts)
        /\ f.at = "top" /\ f.node = n /\ f.n = Frame.n
    <3>1. "top" \in ListAts
      BY DEF ListAts
    <3>2. QED
      BY <1>0, <1>2, <2>4, <3>1, FrameAt
  <2>6. FrameOK(f)'
    BY <1>3, <1>6, <2>1, <2>5 DEF FrameOK, InHandAts, SecondAts
  <2>7. stack' = Append(Below, f)
    BY <2>1, <2>4 DEF Goto
  <2>8. StackInv' /\ stack' # <<>> /\ Frame' = f
    BY <1>0, <1>1, <1>2, <1>5, <2>2, <2>5, <2>6, <2>7, StackReplace
  <2>9. AnswerInv'
    BY <2>5, <2>8, NoAnswerYet
  <2>10. QED
    BY <1>1, <2>2, <2>3, <2>8, <2>9 DEF ListInv, AnswerType
<1>8. CASE q # <<>>
  <2>1. PICK edge, at : edge = q[1] /\ at = IF edge.kids[1] = Null THEN "top" ELSE "kid1"
    OBVIOUS
  <2>2. PICK t : t = Tail(q)
    OBVIOUS
  <2>3. /\ nodes' = [nodes EXCEPT ![n].queue = Tail(@)]
        /\ stack' = Goto([Frame EXCEPT !.edge = edge], at)
    BY <1>0, <1>2, <1>3, <1>8, <2>1 DEF PopEdge
  <2>4. /\ t \in Seq(EdgeType(Nodes, Derivs)) /\ Len(q) \in Nat /\ Len(q) >= 1
        /\ Len(t) = Len(q) - 1
        /\ \A i \in 1 .. Len(t) : t[i] = q[i + 1] /\ i + 1 \in 1 .. Len(q)
    BY <1>4, <1>8, <2>2, TailFacts
  <2>5. nodes' = [nodes EXCEPT ![n] = [queue |-> t, memo |-> m]]
    <3>1. nodes' = [nodes EXCEPT ![n].queue = t]
      BY <1>3, <2>2, <2>3
    <3>2. QED
      BY <1>2, <1>3, <3>1, NodeExcept
  <2>6. \A i \in 1 .. Len(t) : t[i].kids[1] = Null => t[i].kids[2] = Null
    BY <1>4, <2>4
  <2>7. /\ NodesOK' /\ Nodes' = Nodes /\ nodes'[n].queue = t /\ nodes'[n].memo = m
        /\ \A o \in Nodes : o # n => nodes'[o] = nodes[o]
    <3>1. t \in Seq(EdgeType(Nodes, Derivs')) /\ m \in Seq({NONE, PENDING} \cup Derivs')
      BY <1>1, <1>4, <2>4
    <3>2. Derivs \subseteq Derivs'
      BY <1>1
    <3>3. /\ NodesOK' /\ Nodes' = Nodes
          /\ nodes'[n] = [queue |-> t, memo |-> m] /\ nodes'[n].queue = t /\ nodes'[n].memo = m
          /\ \A o \in Nodes : o # n => nodes'[o] = nodes[o] /\ EdgesOf(o)' = EdgesOf(o)
      <4>1. n \in Nodes
        BY <1>2
      <4>2. QED
        BY <2>5, <2>6, <3>1, <3>2, <4>1, NodeChange
    <3>4. QED
      BY <3>3
  <2>8. Grows
    BY <1>1, <1>2, <1>3, <2>7, GrowsAt
  <2>9. LowerMemos
    BY <1>1, <1>2, <1>3, <2>7, LowerMemosAt
  <2>10. \A i \in 1 .. Len(m) : m[i] # NONE
    BY <1>2, <1>3, <1>8 DEF MemoOK
  <2>11. MemosInv' /\ EdgesInv'
    <3>1. MemoOK(n)'
      BY <1>2, <1>3, <2>7, <2>10 DEF MemoOK
    <3>2. ASSUME NEW e \in EdgesOf(n)'
          PROVE  e \in EdgesOf(n)
      <4>1. PICK i \in 1 .. Len(t) : e = t[i]
        BY <2>7, <3>2 DEF EdgesOf
      <4>2. e = q[i + 1] /\ i + 1 \in 1 .. Len(q)
        BY <2>4, <4>1
      <4>3. QED
        BY <1>4, <4>2
    <3>3. \A e \in EdgesOf(n)' : EdgeOK(e)'
      BY <1>2, <2>8, <3>2, OldEdgesStay
    <3>4. QED
      BY <1>2, <2>7, <2>8, <3>1, <3>3, OthersKeep
  <2>12. /\ edge \in EdgesOf(n) /\ edge \in EdgeType(Nodes, Derivs) /\ edge.deriv \in Derivs
    <3>1. 1 \in 1 .. Len(q)
      BY <2>4
    <3>2. edge \in EdgesOf(n)
      BY <1>4, <2>1, <3>1
    <3>3. QED
      BY <1>2, <3>2, NodeFacts
  <2>13. EdgeOK(edge)'
    BY <1>2, <2>8, <2>12, OldEdgesStay
  <2>14. PICK g : g = [Frame EXCEPT !.edge = edge]
    OBVIOUS
  <2>15. /\ g \in FrameType(Nodes, Derivs, ListAts)
         /\ g.node = n /\ g.n = Frame.n /\ g.edge = edge
    <3>1. edge \in EdgeType(Nodes, Derivs \cup {Null})
      BY <2>12, NodeTypeGrows
    <3>2. QED
      BY <1>0, <1>2, <2>14, <3>1, FrameEdge
  <2>16. PICK f : f = [g EXCEPT !.at = at]
    OBVIOUS
  <2>17. /\ f \in FrameType(Nodes, Derivs, ListAts) /\ f.at = at
         /\ f.node = n /\ f.n = Frame.n /\ f.edge = edge
    <3>1. at \in ListAts
      BY <2>1 DEF ListAts
    <3>2. QED
      BY <1>0, <2>15, <2>16, <3>1, FrameAt
  <2>18. FrameOK(f)'
    <3>1. f.at = "kid1" \/ f.at = "top"
      BY <2>1, <2>17
    <3>2. f.at = "kid1" => edge.kids[1] # Null
      BY <2>1, <2>17
    <3>3. edge.deriv # Null
      BY <2>12, DerivFacts
    <3>4. QED
      BY <1>6, <2>7, <2>10, <2>13, <2>17, <3>1, <3>2, <3>3 DEF FrameOK, InHandAts, SecondAts
  <2>19. stack' = Append(Below, f)
    BY <2>3, <2>14, <2>16 DEF Goto
  <2>20. StackInv' /\ stack' # <<>> /\ Frame' = f
    BY <1>0, <1>1, <1>2, <1>5, <2>8, <2>9, <2>17, <2>18, <2>19, StackReplace
  <2>21. AnswerInv'
    <3>1. f.at \notin {"made1", "made2"}
      BY <2>1, <2>17
    <3>2. QED
      BY <2>20, <3>1, NoAnswerYet
  <2>22. ListedInv'
    BY <1>1, <1>2, <2>8, ListedStays
  <2>23. QED
    BY <1>1, <2>7, <2>8, <2>11, <2>20, <2>21, <2>22 DEF ListInv, AnswerType
<1>9. QED
  BY <1>7, <1>8

LEMMA KeepsAskKid ==
  ASSUME IInv, StoreOK, NodesOK, ListInv, AnswerType, AskKid
  PROVE  StoreOK' /\ NodesOK' /\ ListInv' /\ AnswerType' /\ Grows
<1>0. PICK n : n = Frame.node
  OBVIOUS
<1>. PICK i : i = IF Frame.at = "kid1" THEN 1 ELSE 2
  OBVIOUS
<1>. PICK at : at = IF i = 1 THEN "made1" ELSE "made2"
  OBVIOUS
<1>1. /\ StoreOK' /\ Derivs' = Derivs /\ UNCHANGED <<hg, phase, listed, answer, nodes>>
      /\ stack # <<>> /\ phase = "list" /\ Frame.at \in {"kid1", "kid2"}
      /\ stack' = Append(Goto(Frame, at), Call(Frame.edge.kids[i], Frame.edge.places[i] + 1))
  BY <1>0, ForestUnchanged DEF AskKid
<1>2. /\ MemosInv /\ EdgesInv /\ StackInv /\ AnswerInv /\ ListedInv
      /\ n \in Nodes /\ NodeHere = nodes[n] /\ FrameOK(Frame) /\ MemoOK(n)
      /\ Frame \in FrameType(Nodes, Derivs, ListAts) /\ Frame.n \in Nat
      /\ Len(nodes[n].memo) \in Nat
  BY <1>0, <1>1, CallStarts
<1>3. NodesOK' /\ Nodes' = Nodes /\ Grows /\ LowerMemos
  BY <1>1, SameNodes, GrowsSame
<1>4. MemosInv' /\ EdgesInv' /\ ListedInv'
  BY <1>1, <1>2, <1>3, SameMemos, ListedStays
<1>5. PICK f : f = [Frame EXCEPT !.at = at]
  OBVIOUS
<1>6. /\ f \in FrameType(Nodes, Derivs, ListAts)
      /\ f.at = at /\ f.node = n /\ f.n = Frame.n /\ f.edge = Frame.edge
  <2>1. at \in ListAts
    BY DEF ListAts
  <2>2. QED
    BY <1>0, <1>2, <1>5, <2>1, FrameAt
<1>7. /\ i \in 1 .. 2 /\ f.at \in {"made1", "made2"}
      /\ (i = 1 <=> f.at = "made1") /\ (i = 1 <=> Frame.at = "kid1")
  BY <1>1, <1>6
<1>8. PICK e : e = Frame.edge
  OBVIOUS
<1>9. /\ e.kids[i] \in Nodes /\ e.places[i] \in Nat /\ IsKnown(e.kids[i], e.places[i] + 1)
  <2>1. EdgeOK(e) /\ e.kids[1] # Null /\ (i = 2 => e.kids[2] # Null)
    BY <1>1, <1>2, <1>7, <1>8 DEF FrameOK, InHandAts, SecondAts
  <2>2. e.kids[i] # Null
    BY <1>7, <2>1
  <2>3. e \in EdgeType(Nodes, Derivs \cup {Null})
    BY <1>2, <1>8, FrameFacts
  <2>4. e.kids[i] \in {Null} \cup Nodes /\ e.places[i] \in Nat
    BY <1>7, <2>3, EdgeTypeFacts
  <2>5. QED
    BY <1>7, <2>1, <2>2, <2>4 DEF EdgeOK
<1>10. PICK k \in Nodes, p \in Nat : k = e.kids[i] /\ p = e.places[i] + 1
  BY <1>9
<1>11. PICK g : g = Call(k, p)
  OBVIOUS
<1>12. /\ g \in FrameType(Nodes, Derivs, ListAts)
       /\ g.node = k /\ g.n = p /\ g.at = "enter"
  BY <1>11, CallFacts DEF ListAts
<1>13. FrameOK(f)'
  <2>1. /\ f.n >= 1 /\ Len(nodes[n].memo) = f.n + 1 /\ nodes[n].memo[f.n + 1] = PENDING
        /\ EdgeOK(e) /\ e.deriv # Null /\ e.kids[1] # Null
        /\ \A j \in 1 .. Len(nodes[n].memo) : nodes[n].memo[j] # NONE
        /\ (i = 2 => e.kids[2] # Null /\ e.places[1] = 0)
    BY <1>0, <1>1, <1>2, <1>6, <1>7, <1>8 DEF FrameOK, InHandAts, SecondAts
  <2>2. FrameOK(f)
    BY <1>6, <1>7, <1>8, <2>1 DEF FrameOK, InHandAts, SecondAts
  <2>3. QED
    BY <1>1, <1>3, <1>6, <2>2, FrameStays
<1>14. FrameOK(g)'
  <2>1. p \in 1 .. Len(nodes[k].memo) /\ nodes[k].memo[p] # PENDING
    BY <1>9, <1>10 DEF IsKnown
  <2>2. p <= Len(nodes[k].memo)
    BY <2>1, NodeFacts
  <2>3. QED
    BY <1>1, <1>12, <2>1, <2>2 DEF FrameOK, InHandAts, SecondAts
<1>15. Link(f, g)
  BY <1>6, <1>7, <1>8, <1>10, <1>12 DEF Link
<1>16. stack' = Append(Append(Below, f), g)
  BY <1>1, <1>5, <1>8, <1>10, <1>11 DEF Goto
<1>17. StackInv' /\ stack' # <<>> /\ Frame' = g
  BY <1>0, <1>1, <1>2, <1>3, <1>6, <1>12, <1>13, <1>14, <1>15, <1>16, StackPush
<1>18. AnswerInv'
  BY <1>12, <1>17, NoAnswerYet
<1>19. QED
  BY <1>1, <1>3, <1>4, <1>17, <1>18 DEF ListInv, AnswerType
LEMMA FreshFacts ==
  ASSUME StoreOK
  PROVE  /\ Fresh \in Nat /\ Fresh \notin Derivs
         /\ \E m \in Nat : Derivs \cup {Fresh} \subseteq 1 .. m
<1>1. PICK m \in Nat : Derivs \subseteq 1 .. m
  BY DEF StoreOK
<1>2. \A d \in Derivs : d \in Nat /\ d >= 1 /\ d <= m
  BY <1>1
<1>3. PICK T : T = {k \in Nat : \A d \in Derivs : d <= k}
  OBVIOUS
<1>4. T \subseteq Nat /\ m \in T
  BY <1>2, <1>3
<1>5. PICK t \in T : \A k \in T : t <= k
  BY <1>4, LeastNatural
<1>6. t \in Nat /\ \A d \in Derivs : d <= t
  BY <1>3, <1>5
<1>7. t \in Derivs
  <2>1. SUFFICES ASSUME t \notin Derivs PROVE FALSE
    OBVIOUS
  <2>2. PICK d \in Derivs : TRUE
    BY DEF StoreOK
  <2>3. t >= 1
    BY <1>2, <1>6, <2>2
  <2>4. \A e \in Derivs : e <= t - 1
    BY <1>2, <1>6, <2>1
  <2>5. t - 1 \in T
    BY <1>3, <1>6, <2>3, <2>4
  <2>6. QED
    BY <1>5, <1>6, <2>5
<1>8. PICK x : x = Max(DOMAIN store)
  OBVIOUS
<1>9. x \in Derivs /\ \A y \in Derivs : x >= y
  BY <1>2, <1>6, <1>7, <1>8 DEF Max, Derivs
<1>10. Fresh = x + 1 /\ x \in Nat /\ x + 1 \in Nat
  BY <1>2, <1>8, <1>9 DEF Fresh
<1>11. x + 1 \notin Derivs
  BY <1>2, <1>9
<1>12. Derivs \cup {x + 1} \subseteq 1 .. x + 1
  BY <1>2, <1>9
<1>13. QED
  BY <1>10, <1>11, <1>12

LEMMA StoreGrows ==
  ASSUME StoreOK, hg' = hg, NEW x \in DerivType(Derivs),
         store' = Merged(store, [d \in {Fresh} |-> x])
  PROVE  /\ StoreOK' /\ Derivs' = Derivs \cup {Fresh} /\ store'[Fresh] = x
         /\ \A d \in Derivs : store'[d] = store[d]
<1>1. PICK k : k = Fresh
  OBVIOUS
<1>2. k \notin Derivs /\ \E m \in Nat : Derivs \cup {k} \subseteq 1 .. m
  BY <1>1, FreshFacts
<1>3. store' = [d \in Derivs \cup {k} |-> IF d \in Derivs THEN store[d] ELSE x]
  BY <1>1 DEF Merged, Derivs
<1>4. Derivs' = Derivs \cup {k}
  BY <1>3 DEF Derivs
<1>5. store'[k] = x /\ \A d \in Derivs : store'[d] = store[d]
  BY <1>2, <1>3
<1>6. DerivType(Derivs) \subseteq DerivType(Derivs')
  <2>1. Kids(Derivs) \subseteq Kids(Derivs')
    BY <1>4, KidsGrow
  <2>2. QED
    BY <2>1 DEF DerivType
<1>7. \A d \in Derivs \cup {k} : store'[d] \in DerivType(Derivs')
  <2>1. \A d \in Derivs : store[d] \in DerivType(Derivs)
    BY DEF StoreOK
  <2>2. QED
    BY <1>5, <1>6, <2>1
<1>8. store' \in [Derivs' -> DerivType(Derivs')]
  BY <1>3, <1>4, <1>7
<1>9. DerivType(Derivs') = DerivType(Derivs)'
  BY DEF DerivType, Kids
<1>10. StoreOK'
  BY <1>2, <1>4, <1>8, <1>9 DEF StoreOK
<1>11. QED
  BY <1>1, <1>4, <1>5, <1>10

LEMMA WorseFacts ==
  ASSUME StoreOK, NEW d \in Derivs, NEW i \in 1 .. 2, NEW o \in Derivs, NEW k \in Derivs,
         NEW w, w = Worse(d, i, o, k)
  PROVE  /\ w \in DerivType(Derivs) /\ w.arc = store[d].arc
         /\ w.cost = store[d].cost - store[o].cost + store[k].cost
<1>1. /\ store[d].cost \in Int /\ store[o].cost \in Int /\ store[k].cost \in Int
      /\ store[d].leaf \in States \cup {NoState}
      /\ store[d].kids \in Kids(Derivs) /\ store[d].arc \in {0} \cup ArcIds(hg)
      /\ store[d] = [cost |-> store[d].cost, leaf |-> store[d].leaf,
                     kids |-> store[d].kids, arc |-> store[d].arc]
  BY DerivFacts
<1>2. w = [cost |-> store[d].cost - store[o].cost + store[k].cost, leaf |-> store[d].leaf,
           kids |-> [store[d].kids EXCEPT ![i] = k], arc |-> store[d].arc]
  BY <1>1 DEF Worse
<1>3. [store[d].kids EXCEPT ![i] = k] \in Kids(Derivs)
  BY <1>1 DEF Kids
<1>4. QED
  BY <1>1, <1>2, <1>3 DEF DerivType

LEMMA NextPlaces ==
  ASSUME NEW p \in [1 .. 2 -> Nat], NEW i \in 1 .. 2, NEW q, q = [p EXCEPT ![i] = @ + 1]
  PROVE  q \in [1 .. 2 -> Nat] /\ q[i] = p[i] + 1 /\ \A j \in 1 .. 2 : j # i => q[j] = p[j]
<1>1. p[i] + 1 \in Nat
  OBVIOUS
<1>2. QED
  BY <1>1

LEMMA KeepsTakeKid ==
  ASSUME IInv, StoreOK, NodesOK, ListInv, AnswerType, TakeKid
  PROVE  StoreOK' /\ NodesOK' /\ ListInv' /\ AnswerType' /\ Grows
<1>0. PICK n, edge, i : /\ n = Frame.node /\ edge = Frame.edge
                        /\ i = IF Frame.at = "made1" THEN 1 ELSE 2
  OBVIOUS
<1>01. PICK oldKid, next :
         /\ oldKid = nodes[edge.kids[i]].memo[edge.places[i] + 1]
         /\ next = IF i = 1 /\ edge.kids[2] # Null /\ SecondToo(edge) THEN "kid2" ELSE "top"
  OBVIOUS
<1>02. PICK w, new :
         /\ w = Worse(edge.deriv, i, oldKid, answer)
         /\ new = [edge EXCEPT !.places[i] = @ + 1, !.deriv = Fresh]
  OBVIOUS
<1>1. /\ UNCHANGED <<hg, phase, listed, answer>>
      /\ stack # <<>> /\ phase = "list" /\ Frame.at \in {"made1", "made2"}
      /\ stack' = Goto(Frame, next)
      /\ answer = NONE => UNCHANGED <<store, nodes>>
      /\ answer # NONE =>
           /\ store' = Merged(store, [d \in {Fresh} |-> w])
           /\ nodes' = [nodes EXCEPT ![n].queue = Append(@, new)]
  <2>1. UNCHANGED <<hg, phase, listed, answer>>
    BY DEF TakeKid, vars, input
  <2>2. QED
    BY <1>0, <1>01, <1>02, <2>1 DEF TakeKid
<1>2. /\ MemosInv /\ EdgesInv /\ StackInv /\ AnswerInv /\ ListedInv
      /\ n \in Nodes /\ NodeHere = nodes[n] /\ FrameOK(Frame) /\ MemoOK(n)
      /\ Frame \in FrameType(Nodes, Derivs, ListAts) /\ Frame.n \in Nat
      /\ Len(nodes[n].memo) \in Nat
  BY <1>0, <1>1, CallStarts
<1>3. PICK q, m : q = nodes[n].queue /\ m = nodes[n].memo
  OBVIOUS
<1>4. /\ q \in Seq(EdgeType(Nodes, Derivs)) /\ m \in Seq({NONE, PENDING} \cup Derivs)
      /\ Len(q) \in Nat
      /\ \A j \in 1 .. Len(q) : q[j] \in EdgesOf(n)
      /\ \A j \in 1 .. Len(q) : q[j].kids[1] = Null => q[j].kids[2] = Null
  BY <1>2, <1>3, NodeFacts DEF NodesOK
<1>5. \A k \in 1 .. Len(stack) - 1 : stack[k].node # Frame.node
  BY <1>1, <1>2, StackFacts
<1>6. /\ Frame.n >= 1 /\ Len(m) = Frame.n + 1 /\ m[Frame.n + 1] = PENDING
      /\ EdgeOK(edge) /\ edge.deriv # Null /\ edge.kids[1] # Null
      /\ \A j \in 1 .. Len(m) : m[j] # NONE
      /\ i \in 1 .. 2 /\ (i = 1 <=> Frame.at = "made1")
      /\ i = 2 => edge.kids[2] # Null
  BY <1>0, <1>1, <1>2, <1>3 DEF FrameOK, InHandAts, SecondAts
<1>7. /\ edge \in EdgeType(Nodes, Derivs \cup {Null}) /\ edge.deriv \in Derivs
      /\ edge.kids[i] \in Nodes /\ edge.places[i] \in Nat
      /\ \A j \in 1 .. 2 : edge.kids[j] \in {Null} \cup Nodes
  <2>1. edge \in EdgeType(Nodes, Derivs \cup {Null})
    BY <1>0, <1>2, FrameFacts
  <2>2. /\ edge.deriv \in Derivs \cup {Null}
        /\ \A j \in 1 .. 2 : edge.kids[j] \in {Null} \cup Nodes /\ edge.places[j] \in Nat
    BY <2>1, EdgeTypeFacts
  <2>3. edge.kids[i] # Null
    BY <1>6
  <2>4. QED
    BY <1>6, <2>1, <2>2, <2>3
<1>8. PICK k \in Nodes, p \in Nat : k = edge.kids[i] /\ p = edge.places[i]
  BY <1>7
<1>9. /\ IsKnown(k, p + 1) /\ oldKid = nodes[k].memo[p + 1]
      /\ IsKnown(k, p + 2) /\ answer = nodes[k].memo[p + 2]
  <2>1. IsKnown(k, p + 1) /\ oldKid = nodes[k].memo[p + 1]
    BY <1>01, <1>6, <1>7, <1>8 DEF EdgeOK
  <2>2. CASE i = 1
    <3>1. AnswerIs(edge.kids[1], edge.places[1] + 2)
      BY <1>0, <1>1, <1>2, <1>6, <2>2 DEF AnswerInv
    <3>2. QED
      BY <1>8, <2>1, <2>2, <3>1 DEF AnswerIs
  <2>3. CASE i = 2
    <3>1. AnswerIs(edge.kids[2], edge.places[2] + 2)
      BY <1>0, <1>1, <1>2, <1>6, <2>3 DEF AnswerInv
    <3>2. QED
      BY <1>8, <2>1, <2>3, <3>1 DEF AnswerIs
  <2>4. QED
    BY <1>6, <2>2, <2>3
<1>10. PICK f : f = [Frame EXCEPT !.at = next]
  OBVIOUS
<1>11. /\ f \in FrameType(Nodes, Derivs, ListAts)
       /\ f.at = next /\ f.node = n /\ f.n = Frame.n /\ f.edge = edge
  <2>1. next \in ListAts
    BY <1>01 DEF ListAts
  <2>2. QED
    BY <1>0, <1>2, <1>10, <2>1, FrameAt
<1>12. stack' = Append(Below, f)
  BY <1>1, <1>10 DEF Goto
<1>13. FrameOK(f)
  <2>1. next = "top" \/ (next = "kid2" /\ edge.kids[2] # Null /\ edge.places[1] = 0)
    BY <1>01 DEF SecondToo
  <2>2. QED
    BY <1>3, <1>6, <1>11, <2>1 DEF FrameOK, InHandAts, SecondAts
<1>14. f.at \notin {"made1", "made2"}
  BY <1>01, <1>11
<1>15. CASE answer = NONE
  <2>1. nodes' = nodes /\ store' = store
    BY <1>1, <1>15
  <2>2. StoreOK' /\ Derivs' = Derivs
    BY <1>1, <2>1, SameStore
  <2>3. NodesOK' /\ Nodes' = Nodes /\ Grows /\ LowerMemos
    BY <2>1, <2>2, SameNodes, GrowsSame
  <2>4. MemosInv' /\ EdgesInv' /\ ListedInv'
    BY <1>1, <1>2, <2>1, <2>2, <2>3, SameMemos, ListedStays
  <2>5. FrameOK(f)'
    BY <1>11, <1>13, <2>1, <2>3, FrameStays
  <2>6. StackInv' /\ stack' # <<>> /\ Frame' = f
    BY <1>0, <1>1, <1>2, <1>5, <1>11, <1>12, <2>2, <2>3, <2>5, StackReplace
  <2>7. AnswerInv'
    BY <1>14, <2>6, NoAnswerYet
  <2>8. QED
    BY <1>1, <2>2, <2>3, <2>4, <2>6, <2>7 DEF ListInv, AnswerType
<1>16. CASE answer # NONE
  <2>1. answer \in Derivs /\ oldKid \in Derivs
    <3>1. p + 2 \in 1 .. Len(nodes[k].memo) /\ p + 1 \in 1 .. Len(nodes[k].memo)
      BY <1>9 DEF IsKnown
    <3>2. answer \in {NONE, PENDING} \cup Derivs /\ oldKid \in {NONE, PENDING} \cup Derivs
      BY <1>9, <3>1, MemoFacts
    <3>3. answer # PENDING /\ oldKid # PENDING
      BY <1>9 DEF IsKnown
    <3>4. oldKid # NONE
      <4>1. MemoOK(k)
        BY <1>2 DEF MemosInv
      <4>2. p + 1 < p + 2
        BY <1>8
      <4>3. oldKid = NONE => answer \in {NONE, PENDING}
        BY <1>9, <3>1, <4>1, <4>2 DEF MemoOK
      <4>4. QED
        BY <1>16, <3>3, <4>3
    <3>5. QED
      BY <1>16, <3>2, <3>3, <3>4
  <2>2. w \in DerivType(Derivs)
    BY <1>02, <1>6, <1>7, <2>1, WorseFacts
  <2>3. /\ StoreOK' /\ Derivs' = Derivs \cup {Fresh}
        /\ store' = Merged(store, [d \in {Fresh} |-> w])
    <3>1. store' = Merged(store, [d \in {Fresh} |-> w])
      BY <1>1, <1>16
    <3>2. QED
      BY <1>1, <2>2, <3>1, StoreGrows
  <2>4. Derivs \subseteq Derivs' /\ Fresh \in Derivs'
    BY <2>3
  <2>5. /\ new \in EdgeType(Nodes, Derivs') /\ new.kids = edge.kids
        /\ new.places[i] = edge.places[i] + 1
        /\ \A j \in 1 .. 2 : j # i => new.places[j] = edge.places[j]
    <3>1. PICK ps : ps = [edge.places EXCEPT ![i] = @ + 1]
      OBVIOUS
    <3>2. /\ edge = [kids |-> edge.kids, places |-> edge.places, deriv |-> edge.deriv]
          /\ edge.kids \in Kids(Nodes) /\ edge.places \in [1 .. 2 -> Nat]
      BY <1>7, EdgeTypeFacts DEF Kids
    <3>3. new = [kids |-> edge.kids, places |-> ps, deriv |-> Fresh]
      BY <1>02, <3>1, <3>2
    <3>4. /\ ps \in [1 .. 2 -> Nat] /\ ps[i] = edge.places[i] + 1
          /\ \A j \in 1 .. 2 : j # i => ps[j] = edge.places[j]
      BY <1>6, <3>1, <3>2, NextPlaces
    <3>5. QED
      BY <2>4, <3>2, <3>3, <3>4 DEF EdgeType
  <2>6. PICK r : r = Append(q, new)
    OBVIOUS
  <2>7. /\ r \in Seq(EdgeType(Nodes, Derivs')) /\ Len(r) = Len(q) + 1
        /\ r[Len(q) + 1] = new /\ \A j \in 1 .. Len(q) : r[j] = q[j]
    <3>1. q \in Seq(EdgeType(Nodes, Derivs'))
      <4>1. EdgeType(Nodes, Derivs) \subseteq EdgeType(Nodes, Derivs')
        BY <2>4, NodeTypeGrows
      <4>2. QED
        BY <1>4, <4>1
    <3>2. QED
      BY <2>5, <2>6, <3>1, AppendFacts
  <2>8. \A j \in 1 .. Len(r) : j \in 1 .. Len(q) \/ j = Len(q) + 1
    BY <1>4, <2>7
  <2>9. /\ NodesOK' /\ Nodes' = Nodes
        /\ nodes'[n] = [queue |-> r, memo |-> m] /\ nodes'[n].queue = r /\ nodes'[n].memo = m
        /\ \A o \in Nodes : o # n => nodes'[o] = nodes[o] /\ EdgesOf(o)' = EdgesOf(o)
    <3>1. nodes' = [nodes EXCEPT ![n] = [queue |-> r, memo |-> m]]
      <4>1. nodes' = [nodes EXCEPT ![n].queue = r]
        BY <1>1, <1>3, <1>16, <2>6
      <4>2. QED
        BY <1>2, <1>3, <4>1, NodeExcept
    <3>2. \A j \in 1 .. Len(r) : r[j].kids[1] = Null => r[j].kids[2] = Null
      BY <1>4, <1>6, <2>5, <2>7, <2>8
    <3>3. n \in Nodes /\ m \in Seq({NONE, PENDING} \cup Derivs')
      BY <1>2, <1>4, <2>4
    <3>4. QED
      BY <2>4, <2>7, <3>1, <3>2, <3>3, NodeChange
  <2>10. Grows
    BY <1>2, <1>3, <2>4, <2>9, GrowsAt
  <2>11. LowerMemos
    BY <1>1, <1>2, <1>3, <2>9, LowerMemosAt
  <2>12. EdgeOK(new)'
    <3>1. SUFFICES ASSUME NEW j \in 1 .. 2, new.kids[j] # Null
                   PROVE  IsKnown(new.kids[j], new.places[j] + 1)'
      BY DEF EdgeOK
    <3>2. CASE j = i
      <4>1. IsKnown(k, p + 2)'
        BY <1>9, <2>10, KnownGrows
      <4>2. new.kids[j] = k /\ new.places[j] + 1 = p + 2
        BY <1>8, <2>5, <3>2
      <4>3. QED
        BY <4>1, <4>2
    <3>3. CASE j # i
      <4>1. EdgeOK(edge)'
        BY <1>6, <1>7, <2>10, EdgeStays
      <4>2. new.kids[j] = edge.kids[j] /\ new.places[j] = edge.places[j]
        BY <2>5, <3>3
      <4>3. IsKnown(edge.kids[j], edge.places[j] + 1)'
        BY <3>1, <4>1, <4>2 DEF EdgeOK
      <4>4. QED
        BY <4>2, <4>3
    <3>4. QED
      BY <3>2, <3>3
  <2>13. MemosInv' /\ EdgesInv'
    <3>1. MemoOK(n)'
      BY <1>2, <1>3, <1>6, <2>9 DEF MemoOK
    <3>2. ASSUME NEW e \in EdgesOf(n)'
          PROVE  EdgeOK(e)'
      <4>1. PICK j \in 1 .. Len(r) : e = r[j]
        BY <2>9, <3>2 DEF EdgesOf
      <4>2. e = new \/ e \in EdgesOf(n)
        BY <1>4, <2>7, <2>8, <4>1
      <4>3. QED
        BY <1>2, <2>10, <2>12, <4>2, OldEdgesStay
    <3>3. QED
      BY <1>2, <2>9, <2>10, <3>1, <3>2, OthersKeep
  <2>14. FrameOK(f)'
    <3>1. nodes'[f.node].memo = nodes[f.node].memo
      BY <1>3, <1>11, <2>9
    <3>2. QED
      BY <1>11, <1>13, <2>10, <3>1, FrameStays
  <2>15. StackInv' /\ stack' # <<>> /\ Frame' = f
    <3>1. f \in FrameType(Nodes, Derivs', ListAts)
      BY <1>11, <2>4, FrameTypeGrows
    <3>2. f.node = Frame.node
      BY <1>0, <1>11
    <3>3. QED
      BY <1>1, <1>2, <1>5, <1>11, <1>12, <2>10, <2>11, <2>14, <3>1, <3>2, StackReplace
  <2>16. AnswerInv'
    BY <1>14, <2>15, NoAnswerYet
  <2>17. ListedInv'
    BY <1>1, <1>2, <2>10, ListedStays
  <2>18. AnswerType'
    BY <1>1, <2>1, <2>4 DEF AnswerType
  <2>19. QED
    BY <2>3, <2>9, <2>10, <2>13, <2>15, <2>16, <2>17, <2>18 DEF ListInv
<1>17. QED
  BY <1>15, <1>16
LEMMA FilledPlace ==
  ASSUME NEW S, NEW s \in Seq(S), NEW i \in 1 .. Len(s), NEW x \in S, NEW t, t = [s EXCEPT ![i] = x]
  PROVE  /\ t \in Seq(S) /\ Len(t) = Len(s) /\ t[i] = x
         /\ \A j \in 1 .. Len(s) : j # i => t[j] = s[j]
<1>1. /\ t \in Seq(S) /\ Len(t) = Len(s)
      /\ \A j \in 1 .. Len(s) : t[j] = IF j = i THEN x ELSE s[j]
  BY ExceptSeq
<1>2. QED
  BY <1>1

(* The derivation that was pending is found, or that there is none. *)
LEMMA KeepsFilled ==
  ASSUME IInv, StoreOK, NodesOK, ListInv, phase = "list", forestUnchanged,
         stack # <<>>, Frame.at = "top", stack' = Below,
         NEW n, n = Frame.node, NEW i, i = Frame.n + 1,
         NodesOK', Nodes' = Nodes, EdgesOf(n)' = EdgesOf(n),
         nodes'[n].memo = [nodes[n].memo EXCEPT ![i] = answer'],
         \A o \in Nodes : o # n => nodes'[o] = nodes[o],
         answer' \in {NONE} \cup Derivs,
         answer' = NONE => nodes'[n].queue = <<>>,
         answer' # NONE => nodes[n].queue # <<>>
  PROVE  StoreOK' /\ ListInv' /\ AnswerType' /\ Grows
<1>1. StoreOK' /\ Derivs' = Derivs /\ UNCHANGED <<hg, phase, listed>>
  BY ForestUnchanged
<1>2. /\ MemosInv /\ EdgesInv /\ StackInv /\ AnswerInv /\ ListedInv
      /\ n \in Nodes /\ FrameOK(Frame) /\ MemoOK(n) /\ Frame.n \in Nat
      /\ Len(nodes[n].memo) \in Nat
  BY CallStarts
<1>3. PICK l, m : l = nodes[n].memo /\ m = nodes'[n].memo
  OBVIOUS
<1>4. /\ Frame.n >= 1 /\ Len(l) = Frame.n + 1 /\ l[Frame.n + 1] = PENDING
  BY <1>2, <1>3 DEF FrameOK
<1>5. i \in Nat /\ i >= 2 /\ i = Len(l) /\ i \in 1 .. Len(l) /\ l[i] = PENDING
  BY <1>2, <1>4
<1>6. /\ m \in Seq({NONE, PENDING} \cup Derivs) /\ Len(m) = i /\ m[i] = answer'
      /\ \A j \in 1 .. i : j # i => m[j] = l[j]
  <2>1. l \in Seq({NONE, PENDING} \cup Derivs)
    BY <1>2, <1>3, NodeFacts
  <2>2. answer' \in {NONE, PENDING} \cup Derivs
    OBVIOUS
  <2>3. m = [l EXCEPT ![i] = answer']
    BY <1>3
  <2>4. /\ m \in Seq({NONE, PENDING} \cup Derivs) /\ Len(m) = Len(l) /\ m[i] = answer'
        /\ \A j \in 1 .. Len(l) : j # i => m[j] = l[j]
    BY <1>5, <2>1, <2>2, <2>3, FilledPlace
  <2>5. QED
    BY <1>5, <2>4
<1>7. answer' # PENDING
  <2>1. NONE # PENDING
    BY DEF NONE, PENDING
  <2>2. QED
    BY <2>1, DerivFacts
<1>8. \A j \in 1 .. i : j = i \/ j \in 1 .. i - 1
  BY <1>5
<1>9. \A j \in 1 .. i - 1 : l[j] # PENDING /\ m[j] = l[j] /\ j \in 1 .. i
  <2>1. \A j \in 1 .. i - 1 : j \in 1 .. i /\ j # i
    BY <1>5
  <2>2. \A j \in 1 .. i - 1 : l[j] # PENDING
    BY <1>2, <1>3, <1>5 DEF MemoOK
  <2>3. QED
    BY <1>6, <2>1, <2>2
<1>10. Grows
  <2>1. \A j \in 1 .. Len(l) : l[j] # PENDING => j \in 1 .. Len(m) /\ m[j] = l[j]
    BY <1>5, <1>6
  <2>2. Derivs \subseteq Derivs'
    BY <1>1
  <2>3. QED
    BY <1>2, <1>3, <2>1, <2>2, GrowsAt
<1>11. LowerMemos
  <2>1. \A k \in 1 .. Len(stack) - 1 : stack[k].node # n
    BY <1>2, StackFacts
  <2>2. QED
    BY <1>2, <2>1, LowerMemosAt
<1>12. MemosInv' /\ EdgesInv'
  <2>1. MemoOK(n)'
    <3>1. m # <<>> /\ m[1] # PENDING
      <4>1. 1 \in 1 .. i - 1 /\ Len(m) # 0
        BY <1>5, <1>6
      <4>2. QED
        BY <1>9, <4>1, EmptySeq
    <3>2. \A j \in 1 .. i - 1 : m[j] # PENDING
      BY <1>9
    <3>3. \A j \in 1 .. i - 1 : l[j] = NONE => nodes[n].queue = <<>>
      BY <1>2, <1>3, <1>5, <1>9 DEF MemoOK
    <3>4. \A j \in 1 .. i : m[j] = NONE => nodes'[n].queue = <<>>
      <4>1. ASSUME NEW j \in 1 .. i - 1, m[j] = NONE
            PROVE  nodes'[n].queue = <<>>
        <5>1. nodes[n].queue = <<>>
          BY <1>9, <3>3, <4>1
        <5>2. QED
          BY <5>1
      <4>2. m[i] = NONE => nodes'[n].queue = <<>>
        BY <1>6
      <4>3. QED
        BY <1>8, <4>1, <4>2
    <3>5. ASSUME NEW j \in 1 .. i, NEW k \in 1 .. i, j < k, m[j] = NONE
          PROVE  m[k] \in {NONE, PENDING}
      <4>1. j \in 1 .. i - 1
        BY <1>5, <3>5
      <4>2. l[j] = NONE
        BY <1>9, <3>5, <4>1
      <4>3. CASE k = i
        <5>1. answer' = NONE
          BY <3>3, <4>1, <4>2
        <5>2. QED
          BY <1>6, <4>3, <5>1
      <4>4. CASE k \in 1 .. i - 1
        <5>1. l[k] \in {NONE, PENDING}
          BY <1>2, <1>3, <1>5, <3>5, <4>2 DEF MemoOK
        <5>2. QED
          BY <1>9, <4>4, <5>1
      <4>5. QED
        BY <1>8, <4>3, <4>4
    <3>6. QED
      BY <1>3, <1>6, <3>1, <3>2, <3>4, <3>5 DEF MemoOK
  <2>2. \A e \in EdgesOf(n)' : EdgeOK(e)'
    BY <1>2, <1>10, OldEdgesStay
  <2>3. QED
    BY <1>2, <1>10, <2>1, <2>2, OthersKeep
<1>13. ListedInv'
  BY <1>1, <1>2, <1>10, ListedStays
<1>14. StackInv' /\ AnswerInv'
  <2>1. i \in 1 .. Len(nodes'[n].memo) /\ nodes'[n].memo[i] # PENDING /\ answer' = nodes'[n].memo[i]
    BY <1>3, <1>5, <1>6, <1>7
  <2>2. QED
    BY <1>1, <1>2, <1>10, <1>11, <2>1, AnswerAfterPop
<1>15. QED
  BY <1>1, <1>10, <1>12, <1>13, <1>14 DEF ListInv, AnswerType

LEMMA KeepsTakeTop ==
  ASSUME IInv, StoreOK, NodesOK, ListInv, AnswerType, TakeTop
  PROVE  StoreOK' /\ NodesOK' /\ ListInv' /\ AnswerType' /\ Grows
<1>0. PICK n, i : n = Frame.node /\ i = Frame.n + 1
  OBVIOUS
<1>1. /\ stack # <<>> /\ phase = "list" /\ Frame.at = "top" /\ forestUnchanged /\ stack' = Below
  BY DEF TakeTop
<1>2. /\ n \in Nodes /\ NodeHere = nodes[n] /\ FrameOK(Frame) /\ Frame.n \in Nat
      /\ Derivs' = Derivs /\ store' = store
  BY <1>0, <1>1, CallStarts, ForestUnchanged
<1>3. PICK q, l : q = nodes[n].queue /\ l = nodes[n].memo
  OBVIOUS
<1>4. /\ q \in Seq(EdgeType(Nodes, Derivs)) /\ l \in Seq({NONE, PENDING} \cup Derivs)
      /\ \A j \in 1 .. Len(q) : q[j] \in EdgesOf(n)
      /\ \A j \in 1 .. Len(q) : q[j].kids[1] = Null => q[j].kids[2] = Null
      /\ DOMAIN q = 1 .. Len(q)
  BY <1>2, <1>3, NodeFacts DEF NodesOK
<1>5. i \in 1 .. Len(l)
  <2>1. Len(l) = i /\ i \in Nat /\ i >= 1
    BY <1>0, <1>1, <1>2, <1>3 DEF FrameOK
  <2>2. QED
    BY <2>1
<1>6. CASE q = <<>>
  <2>1. answer' = NONE /\ nodes' = [nodes EXCEPT ![n].memo[i] = NONE]
    BY <1>0, <1>2, <1>3, <1>6 DEF TakeTop
  <2>2. PICK m : m = [l EXCEPT ![i] = NONE]
    OBVIOUS
  <2>3. nodes' = [nodes EXCEPT ![n] = [queue |-> q, memo |-> m]]
    <3>1. nodes' = [nodes EXCEPT ![n].memo = m]
      BY <1>3, <2>1, <2>2
    <3>2. QED
      BY <1>2, <1>3, <3>1, NodeExcept
  <2>4. q \in Seq(EdgeType(Nodes, Derivs')) /\ m \in Seq({NONE, PENDING} \cup Derivs')
    <3>1. m \in Seq({NONE, PENDING} \cup Derivs)
      <4>1. NONE \in {NONE, PENDING} \cup Derivs
        OBVIOUS
      <4>2. QED
        BY <1>4, <1>5, <2>2, <4>1, FilledPlace
    <3>2. QED
      BY <1>2, <1>4, <3>1
  <2>5. Derivs \subseteq Derivs' /\ n \in Nodes
    BY <1>2
  <2>6. \A j \in 1 .. Len(q) : q[j].kids[1] = Null => q[j].kids[2] = Null
    BY <1>4
  <2>7. /\ NodesOK' /\ Nodes' = Nodes
        /\ nodes'[n] = [queue |-> q, memo |-> m] /\ nodes'[n].queue = q /\ nodes'[n].memo = m
        /\ \A o \in Nodes : o # n => nodes'[o] = nodes[o] /\ EdgesOf(o)' = EdgesOf(o)
    BY <2>3, <2>4, <2>5, <2>6, NodeChange
  <2>8. EdgesOf(n)' = EdgesOf(n)
    BY <1>3, <2>7 DEF EdgesOf
  <2>9. /\ nodes'[n].memo = [nodes[n].memo EXCEPT ![i] = answer']
        /\ answer' \in {NONE} \cup Derivs /\ nodes'[n].queue = <<>>
        /\ answer' # NONE => nodes[n].queue # <<>>
    BY <1>3, <1>6, <2>1, <2>2, <2>7
  <2>10. StoreOK' /\ ListInv' /\ AnswerType' /\ Grows
    BY <1>0, <1>1, <2>7, <2>8, <2>9, KeepsFilled
  <2>11. QED
    BY <2>7, <2>10
<1>7. CASE q # <<>>
  <2>1. PICK j \in 1 .. Len(q) :
          /\ answer' = q[j].deriv
          /\ nodes' = [nodes EXCEPT ![n] = [queue |-> InFront(@.queue, j),
                                            memo |-> [@.memo EXCEPT ![i] = answer']]]
    BY <1>0, <1>2, <1>3, <1>4, <1>7 DEF TakeTop, PlaceOf
  <2>2. PICK m : m = [l EXCEPT ![i] = answer']
    OBVIOUS
  <2>3. nodes' = [nodes EXCEPT ![n] = [queue |-> InFront(nodes[n].queue, j), memo |-> m]]
    BY <1>2, <1>3, <2>1, <2>2
  <2>4. answer' \in Derivs
    BY <1>2, <1>4, <2>1, NodeFacts
  <2>5. m \in Seq({NONE, PENDING} \cup Derivs)
    <3>1. answer' \in {NONE, PENDING} \cup Derivs
      BY <2>4
    <3>2. QED
      BY <1>4, <1>5, <2>2, <3>1, FilledPlace
  <2>6. store' = store /\ n \in Nodes /\ j \in 1 .. Len(nodes[n].queue)
    BY <1>2, <1>3
  <2>7. /\ NodesOK' /\ Nodes' = Nodes
        /\ nodes'[n].memo = m /\ nodes'[n].queue = InFront(nodes[n].queue, j)
        /\ nodes'[n].queue # <<>> /\ nodes'[n].queue[1] = nodes[n].queue[j]
        /\ Len(nodes'[n].queue) = Len(nodes[n].queue)
        /\ \A o \in Nodes : EdgesOf(o)' = EdgesOf(o)
        /\ \A o \in Nodes : o # n => nodes'[o] = nodes[o]
        /\ \A k \in 1 .. Len(nodes[n].queue) :
             nodes'[n].queue[k] = nodes[n].queue[From(j, k)]
    BY <2>3, <2>5, <2>6, ReorderedNode
  <2>8. /\ nodes'[n].memo = [nodes[n].memo EXCEPT ![i] = answer']
        /\ answer' \in {NONE} \cup Derivs /\ answer' # NONE /\ nodes[n].queue # <<>>
        /\ EdgesOf(n)' = EdgesOf(n)
    BY <1>3, <1>7, <2>2, <2>4, <2>6, <2>7, DerivFacts
  <2>9. StoreOK' /\ ListInv' /\ AnswerType' /\ Grows
    BY <1>0, <1>1, <2>7, <2>8, KeepsFilled
  <2>10. QED
    BY <2>7, <2>9
<1>8. QED
  BY <1>6, <1>7
-----------------------------------------------------------------------------
(* The whole invariant *)

LEMMA FixDoneMakesListInv ==
  ASSUME StoreOK, NodesOK, FirstInv, FixInv, FixDone
  PROVE  ListInv'
<1>1. phase = "fix" /\ stack = <<>> /\ UNCHANGED <<hg, store, nodes, stack, answer, listed>>
  BY DEF FixDone, input, nbestVars
<1>2. /\ \A n \in Nodes : HasFirst(n)
      /\ PlacesAreFirst /\ answer = Null /\ listed = <<>>
  BY <1>1 DEF FixInv, FirstInv
<1>3. Derivs' = Derivs /\ Nodes' = Nodes
  BY <1>1 DEF Derivs, Nodes
<1>4. ASSUME NEW n \in Nodes
      PROVE  /\ nodes[n].memo = <<FrontOf(n)>> /\ Len(nodes[n].memo) = 1
             /\ nodes[n].memo[1] = FrontOf(n) /\ FrontOf(n) # PENDING
             /\ FrontOf(n) = NONE => nodes[n].queue = <<>>
  <2>1. nodes[n].memo = <<FrontOf(n)>>
    BY <1>2 DEF HasFirst
  <2>2. FrontOf(n) # PENDING /\ (FrontOf(n) = NONE => nodes[n].queue = <<>>)
    <3>1. NONE # PENDING
      BY DEF NONE, PENDING
    <3>2. FrontOf(n) \in {NONE} \cup Derivs /\ (nodes[n].queue # <<>> => FrontOf(n) \in Derivs)
      BY FrontOfFacts
    <3>3. QED
      BY <3>1, <3>2, DerivFacts
  <2>3. QED
    BY <2>1, <2>2
<1>5. MemosInv'
  <2>1. ASSUME NEW n \in Nodes
        PROVE  MemoOK(n)
    <3>1. nodes[n].memo # <<>>
      <4>1. <<FrontOf(n)>> # <<>>
        OBVIOUS
      <4>2. QED
        BY <1>4, <4>1
    <3>2. QED
      BY <1>4, <3>1 DEF MemoOK
  <2>2. QED
    BY <1>1, <1>3, <2>1 DEF MemosInv, MemoOK
<1>6. EdgesInv'
  <2>1. ASSUME NEW n \in Nodes, NEW e \in EdgesOf(n), NEW i \in 1 .. 2, e.kids[i] # Null
        PROVE  IsKnown(e.kids[i], e.places[i] + 1)
    <3>1. e.places[i] = 0
      BY <1>2 DEF PlacesAreFirst
    <3>2. e.kids[i] \in Nodes
      BY <2>1, NodeFacts
    <3>3. IsKnown(e.kids[i], 1)
      BY <1>4, <3>2 DEF IsKnown
    <3>4. QED
      BY <3>1, <3>3
  <2>2. QED
    BY <1>1, <1>3, <2>1 DEF EdgesInv, EdgeOK, EdgesOf, IsKnown
<1>7. StackInv'
  <2>1. stack' = <<>> /\ Len(<<>>) = 0
    BY <1>1, EmptySeq
  <2>2. stack' \in Seq(FrameType(Nodes, Derivs, ListAts)')
    BY <2>1, EmptySeq
  <2>3. QED
    BY <2>1, <2>2 DEF StackInv, Links, Distinct
<1>8. AnswerInv'
  BY <1>1, <1>2 DEF AnswerInv
<1>9. ListedInv'
  <2>1. listed' \in Seq({}) /\ Len(listed') = 0
    BY <1>1, <1>2, EmptySeq
  <2>2. ~(Len(listed') >= 1)
    BY <2>1
  <2>3. QED
    BY <2>1, <2>2 DEF ListedInv
<1>10. QED
  BY <1>5, <1>6, <1>7, <1>8, <1>9 DEF ListInv

ForestInv ==
  /\ IInv /\ BestInv /\ NoForestYet /\ ForestTypeInv
  /\ FirstInv /\ SortInv /\ FixInv /\ ListInv /\ AnswerType

ListStep ==
  \/ AskForNext \/ VisitBest \/ StopListing
  \/ ReturnKnown \/ ThrowCycle \/ AskForNew
  \/ PopEdge \/ AskKid \/ TakeKid \/ TakeTop

LEMMA ListStepKeeps ==
  ASSUME IInv, StoreOK, NodesOK, ListInv, AnswerType, ListStep
  PROVE  StoreOK' /\ NodesOK' /\ ListInv' /\ AnswerType' /\ Grows
BY KeepsAskForNext, KeepsVisitBest, KeepsLeaving, KeepsReturnKnown, KeepsAskForNew,
   KeepsPopEdge, KeepsAskKid, KeepsTakeKid, KeepsTakeTop DEF ListStep

LEMMA ListStepFrame ==
  ASSUME ListStep
  PROVE  /\ UNCHANGED <<input, result, order, isMarkedAcyclic, search>>
         /\ phase = "list" /\ phase' \in ListPhases
<1>1. CASE AskForNext \/ ReturnKnown \/ AskForNew \/ PopEdge \/ AskKid \/ TakeTop
  BY <1>1 DEF AskForNext, ReturnKnown, AskForNew, PopEdge, AskKid, TakeTop, forestUnchanged,
              vars, ListPhases
<1>2. CASE VisitBest
  BY <1>2 DEF VisitBest, ListPhases
<1>3. CASE StopListing \/ ThrowCycle \/ TakeKid
  BY <1>3 DEF StopListing, ThrowCycle, TakeKid, vars, ListPhases
<1>4. QED
  BY <1>1, <1>2, <1>3 DEF ListStep

ForestPhases == {"sort", "fix"} \cup ListPhases

(* The tree stays as it is when it is done. *)
LEMMA ForestKeepsIInv ==
  ASSUME IInv, UNCHANGED <<input, result, order, isMarkedAcyclic, search>>,
         phase' \in ForestPhases
  PROVE  IInv'
<1>1. phase' \notin {"choose", "acyclic", "axioms", "search", "done"}
  BY DEF ForestPhases, ListPhases
<1>2. JobInv' /\ SearchTypeInv'
  BY DEF IInv, JobInv, SearchTypeInv, input, search
<1>3. BestTreeTypeOK'
  BY DEF IInv, BestTreeTypeOK, ForestPhases, ListPhases, input, result, search
<1>4. NothingYet' /\ EndInv' /\ QueueInv'
  BY <1>1 DEF NothingYet, EndInv, QueueInv
<1>5. CostInv' /\ AgendaInv' /\ RemainInv' /\ KnuthInv'
  BY <1>1 DEF CostInv, AgendaInv, RemainInv, KnuthInv
<1>6. OnceInv'
  BY <1>4, <1>5 DEF OnceInv
<1>7. QED
  BY <1>2, <1>3, <1>4, <1>6 DEF IInv

LEMMA ForestKeepsTree ==
  ASSUME ForestInv, UNCHANGED <<input, result, order, isMarkedAcyclic, search>>,
         phase' \in ForestPhases
  PROVE  IInv' /\ BestInv' /\ NoForestYet'
<1>1. IInv'
  BY ForestKeepsIInv DEF ForestInv
<1>2. BestInv'
  BY ForestKeepsBest DEF ForestInv, input, result
<1>3. NoForestYet'
  BY DEF NoForestYet, TreePhases, ForestPhases, ListPhases
<1>4. QED
  BY <1>1, <1>2, <1>3

LEMMA InitIsForestInv == NbestInit => ForestInv
<1>. SUFFICES ASSUME NbestInit PROVE ForestInv
  OBVIOUS
<1>1. IInv /\ BestInv /\ phase = "choose"
  BY InitIsIInv, InitIsBestInv DEF NbestInit, Init
<1>2. NoForestYet
  BY DEF NbestInit, NoForestYet
<1>3. ForestTypeInv /\ FirstInv /\ SortInv /\ FixInv /\ ListInv /\ AnswerType
  BY <1>1 DEF ForestTypeInv, FirstInv, SortInv, FixInv, ListInv, AnswerType, TreePhases
<1>4. QED
  BY <1>1, <1>2, <1>3 DEF ForestInv

LEMMA TreeStepKeepsForestInv ==
  ASSUME ForestInv, BestTreeNext, UNCHANGED nbestVars
  PROVE  ForestInv'
<1>1. phase \in TreePhases /\ phase' \in TreePhases
  BY DEF BestTreeNext, ChooseAcyclic, RelaxOutArcs, AcyclicDone, ChooseBestFirst, AddAxioms,
         PopBest, ReachArc, SearchDone, TreePhases
<1>2. IInv' /\ BestInv'
  BY NextKeepsIInv, BestTreeKeepsBestInv DEF ForestInv
<1>3. NoForestYet'
  BY <1>1 DEF ForestInv, NoForestYet, nbestVars
<1>4. ForestTypeInv' /\ FirstInv' /\ SortInv' /\ FixInv' /\ ListInv' /\ AnswerType'
  BY <1>1 DEF ForestTypeInv, FirstInv, SortInv, FixInv, ListInv, AnswerType, TreePhases
<1>5. QED
  BY <1>2, <1>3, <1>4 DEF ForestInv

LEMMA BuildKeepsForestInv ==
  ASSUME ForestInv, BuildLazy
  PROVE  ForestInv'
<1>1. /\ phase' = "sort" /\ phase = "done" /\ answer' = answer
      /\ UNCHANGED <<input, result, order, isMarkedAcyclic, search>>
  BY DEF BuildLazy
<1>2. IInv' /\ BestInv' /\ NoForestYet'
  BY <1>1, ForestKeepsTree DEF ForestPhases
<1>3. StoreOK' /\ NodesOK' /\ FirstInv' /\ SortInv'
  BY BuildMakesTypes, BuildKeepsFirst DEF ForestInv
<1>4. ForestTypeInv' /\ FixInv' /\ ListInv'
  BY <1>1, <1>3 DEF ForestTypeInv, FixInv, ListInv
<1>5. AnswerType'
  BY <1>1, <1>3 DEF AnswerType, FirstInv
<1>6. QED
  BY <1>2, <1>3, <1>4, <1>5 DEF ForestInv

FixStep == EnterNode \/ FixKid \/ RepairEdge \/ LeaveNode

LEMMA ForestTypes ==
  ASSUME ForestInv, phase \in ForestPhases
  PROVE  StoreOK /\ NodesOK
BY DEF ForestInv, ForestTypeInv, ForestPhases, TreePhases, ListPhases

LEMMA SortStepKeepsForestInv ==
  ASSUME ForestInv, SortState
  PROVE  ForestInv'
<1>1. /\ phase' = "sort" /\ phase = "sort"
      /\ UNCHANGED <<input, result, order, isMarkedAcyclic, search>>
  BY DEF SortState, vars
<1>2. IInv' /\ BestInv' /\ NoForestYet' /\ StoreOK /\ NodesOK
  BY <1>1, ForestKeepsTree, ForestTypes DEF ForestPhases
<1>3. StoreOK' /\ NodesOK' /\ FirstInv' /\ SortInv'
  BY <1>2, SortKeeps DEF ForestInv
<1>4. ForestTypeInv' /\ FixInv' /\ ListInv'
  BY <1>1, <1>3 DEF ForestTypeInv, FixInv, ListInv
<1>5. AnswerType'
  BY <1>1, <1>3 DEF AnswerType, FirstInv
<1>6. QED
  BY <1>2, <1>3, <1>4, <1>5 DEF ForestInv

LEMMA SortDoneKeepsForestInv ==
  ASSUME ForestInv, SortDone
  PROVE  ForestInv'
<1>1. /\ phase' = "fix" /\ phase = "sort"
      /\ UNCHANGED <<input, result, order, isMarkedAcyclic, search>>
      /\ UNCHANGED <<hg, mu, pi, store, nodes, answer, listed>>
  BY DEF SortDone, input, result
<1>2. IInv' /\ BestInv' /\ NoForestYet' /\ StoreOK /\ NodesOK
  BY <1>1, ForestKeepsTree, ForestTypes DEF ForestPhases
<1>3. StoreOK' /\ Derivs' = Derivs
  BY <1>1, <1>2, SameStore
<1>4. NodesOK' /\ Nodes' = Nodes
  BY <1>1, <1>2, <1>3, SameNodes
<1>5. FirstInv'
  <2>1. \A n \in Nodes : EdgesOf(n)' = EdgesOf(n)
    BY <1>1 DEF EdgesOf
  <2>2. FirstInv /\ (IsTight' <=> IsTight)
    BY <1>1, TightIsKept DEF ForestInv
  <2>3. DerivsTellKids' /\ PlacesAreFirst' /\ InnerHasEdge'
    BY <1>1, <1>2, <1>4, <2>1, <2>2, SameEdges DEF FirstInv
  <2>4. ArcsDiffer'
    BY <1>1, <1>4, <2>2 DEF FirstInv, ArcsDiffer
  <2>5. FrontIsBest'
    BY <1>1, <1>4, <2>1, <2>2 DEF FirstInv, FrontIsBest
  <2>6. answer' = Null /\ listed' = <<>>
    BY <1>1, <2>2 DEF FirstInv
  <2>7. QED
    BY <2>3, <2>4, <2>5, <2>6 DEF FirstInv
<1>6. FixInv'
  BY <1>2, SortDoneMakesFixInv DEF ForestInv
<1>7. ForestTypeInv' /\ SortInv' /\ ListInv'
  BY <1>1, <1>3, <1>4 DEF ForestTypeInv, SortInv, ListInv
<1>8. AnswerType'
  BY <1>1, <1>5 DEF AnswerType, FirstInv
<1>9. QED
  BY <1>2, <1>5, <1>6, <1>7, <1>8 DEF ForestInv

LEMMA FixStepKeepsForestInv ==
  ASSUME ForestInv, FixStep
  PROVE  ForestInv'
<1>1. /\ phase' = "fix" /\ phase = "fix"
      /\ UNCHANGED <<input, result, order, isMarkedAcyclic, search>>
  BY DEF FixStep, EnterNode, FixKid, RepairEdge, LeaveNode, vars
<1>2. IInv' /\ BestInv' /\ NoForestYet' /\ StoreOK /\ NodesOK
  BY <1>1, ForestKeepsTree, ForestTypes DEF ForestPhases
<1>3. StoreOK' /\ NodesOK' /\ FirstInv' /\ FixInv'
  BY <1>2, FixKeeps DEF ForestInv, FixStep
<1>4. ForestTypeInv' /\ SortInv' /\ ListInv'
  BY <1>1, <1>3 DEF ForestTypeInv, SortInv, ListInv
<1>5. AnswerType'
  BY <1>1, <1>3 DEF AnswerType, FirstInv
<1>6. QED
  BY <1>2, <1>3, <1>4, <1>5 DEF ForestInv

LEMMA FixDoneKeepsForestInv ==
  ASSUME ForestInv, FixDone
  PROVE  ForestInv'
<1>1. /\ phase' = "list" /\ phase = "fix"
      /\ UNCHANGED <<input, result, order, isMarkedAcyclic, search>>
      /\ UNCHANGED <<hg, store, nodes, answer>>
  BY DEF FixDone, input, nbestVars
<1>2. IInv' /\ BestInv' /\ NoForestYet' /\ StoreOK /\ NodesOK
  BY <1>1, ForestKeepsTree, ForestTypes DEF ForestPhases, ListPhases
<1>3. StoreOK' /\ NodesOK'
  BY <1>1, <1>2, SameStore, SameNodes
<1>4. ListInv'
  BY <1>2, FixDoneMakesListInv DEF ForestInv
<1>5. ForestTypeInv' /\ FirstInv' /\ SortInv' /\ FixInv'
  BY <1>1, <1>3 DEF ForestTypeInv, FirstInv, SortInv, FixInv
<1>6. AnswerType'
  BY <1>1 DEF AnswerType, ForestInv, FirstInv
<1>7. QED
  BY <1>2, <1>4, <1>5, <1>6 DEF ForestInv

LEMMA ListStepKeepsForestInv ==
  ASSUME ForestInv, ListStep
  PROVE  ForestInv' /\ Grows
<1>1. /\ UNCHANGED <<input, result, order, isMarkedAcyclic, search>>
      /\ phase = "list" /\ phase' \in ListPhases
  BY ListStepFrame
<1>2. IInv' /\ BestInv' /\ NoForestYet' /\ StoreOK /\ NodesOK
  BY <1>1, ForestKeepsTree, ForestTypes DEF ForestPhases, ListPhases
<1>3. StoreOK' /\ NodesOK' /\ ListInv' /\ AnswerType' /\ Grows
  BY <1>2, ListStepKeeps DEF ForestInv
<1>4. ForestTypeInv' /\ FirstInv' /\ SortInv' /\ FixInv'
  BY <1>1, <1>3 DEF ForestTypeInv, FirstInv, SortInv, FixInv, ListPhases
<1>5. QED
  BY <1>2, <1>3, <1>4 DEF ForestInv

LEMMA StutterKeepsForestInv ==
  ASSUME ForestInv, UNCHANGED allVars
  PROVE  ForestInv'
<1>1. UNCHANGED vars /\ UNCHANGED nbestVars
  BY DEF allVars
<1>2. IInv'
  BY <1>1, StutterKeepsIInv DEF ForestInv
<1>3. UNCHANGED <<hg, mu, pi, phase, store, nodes, seen, stack, answer, listed>>
  BY <1>1 DEF vars, input, result, nbestVars
<1>4. BestInv'
  BY <1>3, ForestKeepsBest DEF ForestInv
<1>5. NoForestYet' /\ ForestTypeInv' /\ AnswerType'
  BY <1>3 DEF ForestInv, NoForestYet, ForestTypeInv, AnswerType, StoreOK, NodesOK, DerivType,
              NodeType, EdgeType, Kids, Derivs, Nodes
<1>6. FirstInv'
  BY <1>3, TightIsKept DEF ForestInv, FirstInv, DerivsTellKids, PlacesAreFirst, ArcsDiffer,
              InnerHasEdge, FrontIsBest, EdgesOf, Nodes, Derivs
<1>7. SortInv' /\ FixInv'
  <2>1. SortInv'
    BY <1>3 DEF ForestInv, SortInv, KidsAgree, HasFirst, FrontOf, EdgesOf, Nodes
  <2>2. KidsFollow => KidsFollow'
    BY <1>3 DEF KidsFollow, FrontOf, EdgesOf, Nodes
  <2>3. \A n \in Nodes : HasFirst(n)' <=> HasFirst(n)
    BY <1>3 DEF HasFirst, FrontOf
  <2>4. FrameType(Nodes, Derivs, FixAts)' = FrameType(Nodes, Derivs, FixAts)
    BY <1>3 DEF FrameType, EdgeType, Kids, Nodes, Derivs
  <2>5. (\A k \in 1 .. Len(stack) : FixFrameOK(stack[k]))
          => \A k \in 1 .. Len(stack') : FixFrameOK(stack[k])'
    BY <1>3 DEF FixFrameOK, FrontOf
  <2>6. Nodes' = Nodes
    BY <1>3 DEF Nodes
  <2>7. FixInv'
    BY <1>3, <2>2, <2>3, <2>4, <2>5, <2>6 DEF ForestInv, FixInv
  <2>8. QED
    BY <2>1, <2>7
<1>8. ListInv'
  <2>1. MemosInv => MemosInv'
    BY <1>3 DEF MemosInv, MemoOK, Nodes
  <2>2. EdgesInv => EdgesInv'
    BY <1>3 DEF EdgesInv, EdgeOK, IsKnown, EdgesOf, Nodes
  <2>3. StackInv => StackInv'
    BY <1>3 DEF StackInv, FrameOK, EdgeOK, IsKnown, Links, Link, Distinct, FrameType, EdgeType,
                Kids, Nodes, Derivs
  <2>4. AnswerInv => AnswerInv'
    BY <1>3 DEF AnswerInv, AnswerIs, IsKnown, Frame
  <2>5. ListedInv => ListedInv'
    BY <1>3 DEF ListedInv, IsKnown
  <2>6. QED
    BY <1>3, <2>1, <2>2, <2>3, <2>4, <2>5 DEF ForestInv, ListInv
<1>9. QED
  BY <1>2, <1>4, <1>5, <1>6, <1>7, <1>8 DEF ForestInv

LEMMA NextKinds ==
  NbestNext <=> \/ BestTreeNext /\ UNCHANGED nbestVars
                \/ BuildLazy \/ SortState \/ SortDone \/ FixStep \/ FixDone \/ ListStep
BY DEF NbestNext, FixStep, ListStep

LEMMA NextKeepsForestInv == ForestInv /\ [NbestNext]_allVars => ForestInv'
BY NextKinds, TreeStepKeepsForestInv, BuildKeepsForestInv, SortStepKeepsForestInv,
   SortDoneKeepsForestInv, FixStepKeepsForestInv, FixDoneKeepsForestInv,
   ListStepKeepsForestInv, StutterKeepsForestInv

LEMMA ForestInvariance == NbestSpec => []ForestInv
BY InitIsForestInv, NextKeepsForestInv, PTL DEF NbestSpec

(* Of the derivations in the store, the nodes and the memos none refers to what is
   not there: the children of a derivation, what is queued and what is known are
   numbers of derivations, and so is what get_best returns, whatever the costs and
   however the calls of get_best nest.
   (lazy_forest_kbest.hpp, get_best, next_best, generate_successor_hyperedge) *)
THEOREM ForestRefersToItself == NbestSpec => []NbestTypeOK
<1>1. ASSUME ForestInv
      PROVE  NbestTypeOK
  <2>1. CASE phase \in TreePhases
    <3>1. store = <<>> /\ nodes = <<>> /\ answer = Null
      BY <1>1, <2>1 DEF ForestInv, NoForestYet
    <3>2. QED
      BY <3>1 DEF NbestTypeOK
  <2>2. CASE phase \notin TreePhases
    <3>1. StoreOK /\ NodesOK /\ answer \in {Null, NONE} \cup DOMAIN store
      BY <1>1, <2>2 DEF ForestInv, ForestTypeInv, AnswerType, Derivs
    <3>2. ASSUME NEW d \in DOMAIN store
          PROVE  /\ store[d].leaf \in States \cup {NoState}
                 /\ store[d].arc \in {0} \cup ArcIds(hg)
                 /\ \A i \in 1 .. 2 : store[d].kids[i] \in {Null} \cup DOMAIN store
      <4>1. d \in Derivs
        BY DEF Derivs
      <4>2. /\ store[d].leaf \in States \cup {NoState} /\ store[d].arc \in {0} \cup ArcIds(hg)
            /\ store[d].kids \in Kids(Derivs)
        BY <3>1, <4>1, DerivFacts
      <4>3. QED
        BY <4>2 DEF Kids, Derivs
    <3>3. ASSUME NEW n \in DOMAIN nodes
          PROVE  /\ \A i \in DOMAIN nodes[n].queue : nodes[n].queue[i].deriv \in DOMAIN store
                 /\ Range(nodes[n].memo) \subseteq {NONE, PENDING} \cup DOMAIN store
      <4>1. n \in Nodes
        BY DEF Nodes
      <4>2. /\ DOMAIN nodes[n].queue = 1 .. Len(nodes[n].queue)
            /\ DOMAIN nodes[n].memo = 1 .. Len(nodes[n].memo)
            /\ \A i \in 1 .. Len(nodes[n].queue) : nodes[n].queue[i] \in EdgesOf(n)
            /\ \A e \in EdgesOf(n) : e.deriv \in Derivs
        BY <3>1, <4>1, NodeFacts
      <4>3. \A i \in 1 .. Len(nodes[n].memo) : nodes[n].memo[i] \in {NONE, PENDING} \cup Derivs
        BY <3>1, <4>1, MemoFacts
      <4>4. QED
        BY <4>2, <4>3 DEF Range, Derivs
    <3>4. QED
      BY <3>1, <3>2, <3>3 DEF NbestTypeOK
  <2>3. QED
    BY <2>1, <2>2
<1>2. QED
  BY <1>1, ForestInvariance, PTL

(* What get_best has found to be the nth best derivation of a node, or that it has
   none, stays so whatever is asked for later: the callers that hold on to the
   memos see them grow, never change.
   (lazy_forest_kbest.hpp, get_best: memo[n] is set once, when it is pending) *)
THEOREM MemosNeverChange == NbestSpec => MemoIsStable
<1>. DEFINE Stays == \A n \in DOMAIN nodes : \A i \in DOMAIN nodes[n].memo :
                       nodes[n].memo[i] # PENDING =>
                         i \in DOMAIN nodes'[n].memo /\ nodes'[n].memo[i] = nodes[n].memo[i]
<1>1. ASSUME ForestInv, NbestNext
      PROVE  Stays
  <2>1. CASE nodes' = nodes
    BY <2>1
  <2>2. CASE (BestTreeNext /\ UNCHANGED nbestVars) \/ SortDone \/ FixStep \/ FixDone
    <3>1. nodes' = nodes
      BY <2>2 DEF nbestVars, SortDone, FixStep, EnterNode, FixKid, RepairEdge, LeaveNode, FixDone
    <3>2. QED
      BY <2>1, <3>1
  <2>3. CASE BuildLazy
    <3>1. nodes = <<>>
      BY <1>1, <2>3 DEF ForestInv, NoForestYet, BuildLazy, TreePhases
    <3>2. QED
      BY <3>1
  <2>4. CASE SortState
    <3>1. NodesOK /\ FirstInv /\ SortInv
      BY <1>1, <2>4, ForestTypes DEF ForestInv, SortState, ForestPhases
    <3>2. PICK m \in Nodes : nodes[m].memo = <<>> /\ \A o \in Nodes : o # m => nodes'[o] = nodes[o]
      <4>1. PICK m \in StateNodes :
              /\ m \in Nodes /\ nodes[m].memo = <<>>
              /\ \/ nodes' = [nodes EXCEPT ![m] = [queue |-> nodes[m].queue, memo |-> <<NONE>>]]
                 \/ \E i \in 1 .. Len(nodes[m].queue) :
                      nodes' = [nodes EXCEPT ![m] = [queue |-> InFront(nodes[m].queue, i),
                                                     memo |-> <<nodes[m].queue[i].deriv>>]]
        BY <2>4, <3>1, SortFacts
      <4>2. QED
        BY <4>1 DEF Nodes
    <3>3. QED
      BY <3>2 DEF Nodes
  <2>5. CASE ListStep
    <3>1. Grows /\ NodesOK /\ NodesOK'
      BY <1>1, <2>5, ListStepKeepsForestInv, ForestTypes, ListStepFrame
         DEF ForestPhases, ListPhases, ForestInv, ForestTypeInv, TreePhases
    <3>2. ASSUME NEW n \in Nodes
          PROVE  /\ DOMAIN nodes[n].memo = 1 .. Len(nodes[n].memo)
                 /\ DOMAIN nodes'[n].memo = 1 .. Len(nodes'[n].memo)
      <4>1. DOMAIN nodes[n].memo = 1 .. Len(nodes[n].memo)
        BY <3>1, NodeFacts
      <4>2. n \in Nodes' /\ nodes' \in [Nodes' -> NodeType(Nodes', Derivs')]
        BY <3>1 DEF Grows, NodesOK, NodeType, EdgeType, Kids
      <4>3. nodes'[n] \in NodeType(Nodes', Derivs')
        BY <4>2
      <4>4. nodes'[n].memo \in Seq({NONE, PENDING} \cup Derivs')
        BY <4>3 DEF NodeType
      <4>5. QED
        BY <4>1, <4>4
    <3>3. QED
      BY <3>1, <3>2 DEF Grows, Nodes
  <2>6. QED
    BY <1>1, <2>2, <2>3, <2>4, <2>5, NextKinds
<1>2. ForestInv /\ [NbestNext]_allVars => [Stays]_allVars
  BY <1>1
<1>3. QED
  BY <1>2, ForestInvariance, PTL DEF NbestSpec, MemoIsStable
-----------------------------------------------------------------------------
(* No choice of children comes to a queue by two ways. *)

(* From the places p1 and p2 the successors lead to the places q1 and q2: the second
   place goes on only while the first is the best. *)
Reaches(p1, p2, q1, q2) == (p1 <= q1 /\ p2 = q2) \/ (p1 = 0 /\ p2 <= q2)

(* Neither leads to the other, when the second place of e has gone on by "by". *)
Apart(e, by, f) ==
  \/ e.kids # f.kids
  \/ store[e.deriv].arc # store[f.deriv].arc
  \/ /\ ~Reaches(e.places[1], e.places[2] + by, f.places[1], f.places[2])
     /\ ~Reaches(f.places[1], f.places[2], e.places[1], e.places[2] + by)

QueueApart(n) ==
  \A i, j \in 1 .. Len(nodes[n].queue) : i # j => Apart(nodes[n].queue[i], 0, nodes[n].queue[j])

(* What is in hand is about to give its successors to the queue. *)
HandApart(f) ==
  /\ f.at \in {"kid1", "made1"} => \A e \in EdgesOf(f.node) : Apart(f.edge, 0, e)
  /\ f.at \in {"kid2", "made2"} => \A e \in EdgesOf(f.node) : Apart(f.edge, 1, e)

ChoiceInv ==
  phase \in ListPhases =>
    /\ \A n \in Nodes : QueueApart(n)
    /\ \A k \in 1 .. Len(stack) : HandApart(stack[k])

LEMMA ApartStays ==
  ASSUME \A d \in Derivs : store'[d] = store[d],
         NEW e, NEW f, e.deriv \in Derivs, f.deriv \in Derivs, NEW by
  PROVE  Apart(e, by, f)' <=> Apart(e, by, f)
BY DEF Apart

LEMMA ChoiceStep ==
  ASSUME StoreOK, NodesOK, ListInv, ChoiceInv, phase = "list", Nodes' = Nodes,
         \A d \in Derivs : store'[d] = store[d],
         \A n \in Nodes : nodes'[n].queue = nodes[n].queue \/ QueueApart(n)',
         \A k \in 1 .. Len(stack') :
           \/ HandApart(stack[k])'
           \/ /\ k \in 1 .. Len(stack) /\ stack'[k] = stack[k]
              /\ nodes'[stack[k].node].queue = nodes[stack[k].node].queue
  PROVE  ChoiceInv'
<1>1. /\ \A n \in Nodes : QueueApart(n)
      /\ \A k \in 1 .. Len(stack) : HandApart(stack[k])
      /\ StackInv
  BY DEF ChoiceInv, ListInv, ListPhases
<1>2. ASSUME NEW n \in Nodes
      PROVE  QueueApart(n)'
  <2>1. CASE nodes'[n].queue = nodes[n].queue
    <3>1. \A i \in 1 .. Len(nodes[n].queue) : nodes[n].queue[i].deriv \in Derivs
      BY NodeFacts
    <3>2. SUFFICES ASSUME NEW i \in 1 .. Len(nodes[n].queue), NEW j \in 1 .. Len(nodes[n].queue),
                          i # j
                   PROVE  Apart(nodes[n].queue[i], 0, nodes[n].queue[j])'
      BY <2>1 DEF QueueApart
    <3>3. PICK e, f : e = nodes[n].queue[i] /\ f = nodes[n].queue[j]
      OBVIOUS
    <3>4. Apart(e, 0, f)
      BY <1>1, <3>2, <3>3 DEF QueueApart
    <3>5. Apart(e, 0, f)'
      BY <3>1, <3>3, <3>4, ApartStays
    <3>6. e = nodes'[n].queue[i] /\ f = nodes'[n].queue[j]
      BY <2>1, <3>3
    <3>7. QED
      BY <3>5, <3>6
  <2>2. QED
    BY <2>1
<1>3. ASSUME NEW k \in 1 .. Len(stack')
      PROVE  HandApart(stack[k])'
  <2>1. CASE /\ k \in 1 .. Len(stack) /\ stack'[k] = stack[k]
             /\ nodes'[stack[k].node].queue = nodes[stack[k].node].queue
    <3>1. PICK f : f = stack[k]
      OBVIOUS
    <3>2. f \in FrameType(Nodes, Derivs, ListAts) /\ FrameOK(f) /\ HandApart(f)
      BY <1>1, <2>1, <3>1, ElementOfSeq DEF StackInv
    <3>3. f.node \in Nodes /\ EdgesOf(f.node)' = EdgesOf(f.node)
      <4>1. nodes'[f.node].queue = nodes[f.node].queue
        BY <2>1, <3>1
      <4>2. f.node \in Nodes
        BY <3>2, FrameFacts
      <4>3. PICK m : m = f.node
        OBVIOUS
      <4>4. nodes'[m].queue = nodes[m].queue
        BY <4>1, <4>3
      <4>5. EdgesOf(m)' = EdgesOf(m)
        BY <4>4 DEF EdgesOf
      <4>6. QED
        BY <4>2, <4>3, <4>5
    <3>4. f.at \in InHandAts => f.edge.deriv \in Derivs
      <4>1. f.edge \in EdgeType(Nodes, Derivs \cup {Null})
        BY <3>2, FrameFacts
      <4>2. f.edge.deriv \in Derivs \cup {Null}
        BY <4>1, EdgeTypeFacts
      <4>3. QED
        BY <3>2, <4>2 DEF FrameOK
    <3>5. \A e \in EdgesOf(f.node) : e.deriv \in Derivs
      BY <3>3, NodeFacts
    <3>6. HandApart(f)'
      <4>1. f.at \in {"kid1", "made1", "kid2", "made2"} => f.edge.deriv \in Derivs
        BY <3>4 DEF InHandAts
      <4>2. ASSUME NEW e \in EdgesOf(f.node), f.at \in {"kid1", "made1"}
            PROVE  Apart(f.edge, 0, e)'
        <5>1. Apart(f.edge, 0, e)
          BY <3>2, <4>2 DEF HandApart
        <5>2. QED
          BY <3>5, <4>1, <4>2, <5>1, ApartStays
      <4>3. ASSUME NEW e \in EdgesOf(f.node), f.at \in {"kid2", "made2"}
            PROVE  Apart(f.edge, 1, e)'
        <5>1. Apart(f.edge, 1, e)
          BY <3>2, <4>3 DEF HandApart
        <5>2. QED
          BY <3>5, <4>1, <4>3, <5>1, ApartStays
      <4>4. QED
        BY <3>3, <4>2, <4>3 DEF HandApart
    <3>7. f = stack'[k]
      BY <2>1, <3>1
    <3>8. QED
      BY <3>6, <3>7
  <2>2. QED
    BY <2>1
<1>4. QED
  BY <1>2, <1>3 DEF ChoiceInv

LEMMA StackTypeOf ==
  ASSUME StackInv, NEW T
  PROVE  \E S : T \subseteq S /\ stack \in Seq(S)
<1>1. PICK S : S = FrameType(Nodes, Derivs, ListAts)
  OBVIOUS
<1>2. PICK U : U = S \cup T
  OBVIOUS
<1>3. stack \in Seq(S) /\ S \subseteq U /\ T \subseteq U
  BY <1>1, <1>2 DEF StackInv
<1>4. stack \in Seq(U)
  BY <1>3
<1>5. QED
  BY <1>3, <1>4

LEMMA StackAfterPop ==
  ASSUME StackInv, stack # <<>>, stack' = Below
  PROVE  /\ Len(stack') = Len(stack) - 1
         /\ \A k \in 1 .. Len(stack') : k \in 1 .. Len(stack) - 1 /\ k \in 1 .. Len(stack) /\ stack'[k] = stack[k]
<1>1. PICK S : {} \subseteq S /\ stack \in Seq(S)
  BY StackTypeOf
<1>2. /\ Len(stack) \in Nat /\ Len(stack) >= 1 /\ Len(stack') = Len(stack) - 1
      /\ \A k \in 1 .. Len(stack) - 1 : stack'[k] = stack[k]
  BY <1>1, PoppedStack
<1>3. QED
  BY <1>2

LEMMA StackAfterGoto ==
  ASSUME StackInv, stack # <<>>, NEW f, stack' = Append(Below, f)
  PROVE  /\ Len(stack') = Len(stack) /\ Len(stack) \in Nat /\ Len(stack) >= 1
         /\ \A k \in 1 .. Len(stack') :
              \/ k = Len(stack) /\ stack'[k] = f
              \/ k \in 1 .. Len(stack) - 1 /\ k \in 1 .. Len(stack) /\ stack'[k] = stack[k]
<1>1. PICK S : {f} \subseteq S /\ stack \in Seq(S)
  BY StackTypeOf
<1>2. /\ Len(stack) \in Nat /\ Len(stack) >= 1 /\ Len(stack') = Len(stack) /\ stack'[Len(stack)] = f
      /\ \A k \in 1 .. Len(stack) - 1 : stack'[k] = stack[k]
  BY <1>1, ReplacedStack
<1>3. \A k \in 1 .. Len(stack') : k = Len(stack) \/ (k \in 1 .. Len(stack) - 1 /\ k \in 1 .. Len(stack))
  BY <1>2
<1>4. QED
  BY <1>2, <1>3


LEMMA ChoiceKeptByCalls ==
  ASSUME IInv, StoreOK, NodesOK, ListInv, AnswerType, ChoiceInv,
         AskForNext \/ VisitBest \/ StopListing \/ ThrowCycle \/ ReturnKnown
  PROVE  ChoiceInv'
<1>1. phase = "list" /\ store' = store /\ nodes' = nodes /\ Nodes' = Nodes
  <2>1. phase = "list" /\ store' = store /\ nodes' = nodes
    BY DEF AskForNext, VisitBest, StopListing, ThrowCycle, ReturnKnown, forestUnchanged, nbestVars
  <2>2. QED
    BY <2>1 DEF Nodes
<1>2. CASE AskForNext
  <2>1. PICK f : f = Call(NodeOf(hg.final), Len(listed))
    OBVIOUS
  <2>2. stack' = <<f>> /\ f.at = "enter"
    BY <1>2, <2>1 DEF AskForNext, Call
  <2>3. \A k \in 1 .. Len(stack') : stack'[k] = f
    BY <2>2
  <2>4. \A k \in 1 .. Len(stack') : HandApart(stack[k])'
    BY <2>2, <2>3 DEF HandApart
  <2>5. QED
    BY <1>1, <2>4, ChoiceStep
<1>3. CASE ReturnKnown
  <2>1. StackInv /\ stack # <<>> /\ stack' = Below
    BY <1>1, <1>3 DEF ReturnKnown, ListInv
  <2>2. \A k \in 1 .. Len(stack') : k \in 1 .. Len(stack) /\ stack'[k] = stack[k]
    BY <2>1, StackAfterPop
  <2>3. QED
    BY <1>1, <2>2, ChoiceStep
<1>4. CASE VisitBest \/ StopListing \/ ThrowCycle
  <2>1. stack' = stack
    BY <1>4 DEF VisitBest, StopListing, ThrowCycle, nbestVars
  <2>2. QED
    BY <1>1, <2>1, ChoiceStep
<1>5. QED
  BY <1>2, <1>3, <1>4

LEMMA ChoiceKeptByAskForNew ==
  ASSUME IInv, StoreOK, NodesOK, ListInv, AnswerType, ChoiceInv, AskForNew
  PROVE  ChoiceInv'
<1>0. PICK n : n = Frame.node
  OBVIOUS
<1>1. /\ phase = "list" /\ store' = store /\ stack # <<>> /\ StackInv /\ n \in Nodes
      /\ Nodes' = Nodes
      /\ stack' = Goto(Frame, "pop")
      /\ nodes' = [nodes EXCEPT ![n].memo = Append(@, PENDING)]
  <2>1. phase = "list" /\ stack # <<>> /\ store' = store
    BY DEF AskForNew, forestUnchanged
  <2>2. n \in Nodes /\ StackInv
    BY <1>0, <2>1, CallStarts
  <2>3. Nodes' = Nodes
    BY KeepsAskForNew DEF Grows
  <2>4. QED
    BY <1>0, <2>1, <2>2, <2>3 DEF AskForNew
<1>2. ASSUME NEW o \in Nodes
      PROVE  nodes'[o].queue = nodes[o].queue
  <2>1. PICK m : m = Append(nodes[n].memo, PENDING)
    OBVIOUS
  <2>2. nodes' = [nodes EXCEPT ![n] = [queue |-> nodes[n].queue, memo |-> m]]
    BY <1>1, <2>1, NodeExcept
  <2>3. QED
    BY <2>2 DEF Nodes
<1>3. PICK f : f = [Frame EXCEPT !.at = "pop"]
  OBVIOUS
<1>4. f.at = "pop"
  <2>1. Frame \in FrameType(Nodes, Derivs, ListAts)
    BY <1>1, StackFacts
  <2>2. "pop" \in ListAts
    BY DEF ListAts
  <2>3. QED
    BY <1>3, <2>1, <2>2, FrameAt
<1>5. HandApart(f)'
  BY <1>4 DEF HandApart
<1>6. stack' = Append(Below, f)
  BY <1>1, <1>3 DEF Goto
<1>7. ASSUME NEW k \in 1 .. Len(stack')
      PROVE  \/ HandApart(stack[k])'
             \/ /\ k \in 1 .. Len(stack) /\ stack'[k] = stack[k]
                /\ nodes'[stack[k].node].queue = nodes[stack[k].node].queue
  <2>1. CASE stack'[k] = f
    BY <1>5, <2>1
  <2>2. CASE k \in 1 .. Len(stack) - 1 /\ k \in 1 .. Len(stack) /\ stack'[k] = stack[k]
    <3>1. stack[k].node \in Nodes
      BY <1>1, <2>2, StackFacts
    <3>2. QED
      BY <1>2, <2>2, <3>1
  <2>3. QED
    BY <1>1, <1>6, <2>1, <2>2, StackAfterGoto
<1>8. QED
  BY <1>1, <1>2, <1>7, ChoiceStep

LEMMA ChoiceKeptByAskKid ==
  ASSUME IInv, StoreOK, NodesOK, ListInv, AnswerType, ChoiceInv, AskKid
  PROVE  ChoiceInv'
<1>0. PICK i, at : i = (IF Frame.at = "kid1" THEN 1 ELSE 2) /\ at = IF i = 1 THEN "made1" ELSE "made2"
  OBVIOUS
<1>1. PICK f, g : f = [Frame EXCEPT !.at = at] /\ g = Call(Frame.edge.kids[i], Frame.edge.places[i] + 1)
  OBVIOUS
<1>2. /\ phase = "list" /\ store' = store /\ nodes' = nodes /\ stack # <<>> /\ StackInv
      /\ Frame.at \in {"kid1", "kid2"}
      /\ stack' = Append(Append(Below, f), g)
  <2>1. phase = "list" /\ store' = store /\ nodes' = nodes
    BY DEF AskKid, forestUnchanged
  <2>2. QED
    BY <1>0, <1>1, <2>1 DEF AskKid, Goto, ListInv
<1>3. Nodes' = Nodes /\ \A m \in Nodes : EdgesOf(m)' = EdgesOf(m)
  BY <1>2 DEF Nodes, EdgesOf
<1>4. /\ f.at = at /\ f.node = Frame.node /\ f.edge = Frame.edge /\ g.at = "enter"
      /\ Frame.node \in Nodes
  <2>1. Frame \in FrameType(Nodes, Derivs, ListAts) /\ Frame.node \in Nodes
    BY <1>2, StackFacts
  <2>2. at \in ListAts
    BY <1>0 DEF ListAts
  <2>3. QED
    BY <1>1, <2>1, <2>2, FrameAt DEF Call
<1>5. HandApart(Frame)
  <2>1. Len(stack) \in 1 .. Len(stack) /\ Frame = stack[Len(stack)]
    BY <1>2, StackFacts
  <2>2. QED
    BY <1>2, <2>1 DEF ChoiceInv, ListPhases
<1>6. HandApart(f)
  BY <1>0, <1>2, <1>4, <1>5 DEF HandApart
<1>7. HandApart(f)'
  BY <1>2, <1>3, <1>4, <1>6 DEF HandApart, Apart
<1>8. HandApart(g)'
  BY <1>4 DEF HandApart
<1>9. ASSUME NEW k \in 1 .. Len(stack')
      PROVE  HandApart(stack[k])' \/ (k \in 1 .. Len(stack) /\ stack'[k] = stack[k])
  <2>0. StackInv /\ stack # <<>> /\ stack' = Append(Append(Below, f), g)
    BY <1>2
  <2>1. PICK S : {f, g} \subseteq S /\ stack \in Seq(S)
    BY <2>0, StackTypeOf
  <2>2. /\ Len(stack) \in Nat /\ Len(stack') = Len(stack) + 1
        /\ stack'[Len(stack)] = f /\ stack'[Len(stack) + 1] = g
        /\ \A j \in 1 .. Len(stack) - 1 : stack'[j] = stack[j]
    <3>1. f \in S /\ g \in S /\ stack \in Seq(S)
      BY <2>1
    <3>2. QED
      BY <2>0, <3>1, PushedStack
  <2>3. k = Len(stack) + 1 \/ k = Len(stack) \/ (k \in 1 .. Len(stack) - 1 /\ k \in 1 .. Len(stack))
    BY <2>2
  <2>4. stack'[k] = f \/ stack'[k] = g \/ (k \in 1 .. Len(stack) /\ stack'[k] = stack[k])
    BY <2>2, <2>3
  <2>5. QED
    BY <1>7, <1>8, <2>4
<1>10. QED
  BY <1>2, <1>3, <1>9, ChoiceStep

(* The calls that wait have other nodes. *)
LEMMA ChoiceAtTop ==
  ASSUME StoreOK, NodesOK, ListInv, ChoiceInv, phase = "list", stack # <<>>, Frame.at # "enter",
         Nodes' = Nodes, \A d \in Derivs : store'[d] = store[d],
         NEW n, n = Frame.node, \A o \in Nodes : o # n => nodes'[o].queue = nodes[o].queue,
         QueueApart(n)',
         stack' = Below \/ \E f : HandApart(f)' /\ stack' = Append(Below, f)
  PROVE  ChoiceInv'
<1>1. StackInv
  BY DEF ListInv
<1>2. ASSUME NEW o \in Nodes
      PROVE  nodes'[o].queue = nodes[o].queue \/ QueueApart(o)'
  OBVIOUS
<1>3. ASSUME NEW k \in 1 .. Len(stack) - 1, k \in 1 .. Len(stack), stack'[k] = stack[k]
      PROVE  /\ k \in 1 .. Len(stack) /\ stack'[k] = stack[k]
             /\ nodes'[stack[k].node].queue = nodes[stack[k].node].queue
  <2>1. stack[k].node \in Nodes /\ stack[k].node # n
    BY <1>1, StackFacts
  <2>2. QED
    BY <1>3, <2>1
<1>4. CASE stack' = Below
  <2>1. \A k \in 1 .. Len(stack') :
          k \in 1 .. Len(stack) - 1 /\ k \in 1 .. Len(stack) /\ stack'[k] = stack[k]
    BY <1>1, <1>4, StackAfterPop
  <2>2. \A k \in 1 .. Len(stack') :
          /\ k \in 1 .. Len(stack) /\ stack'[k] = stack[k]
          /\ nodes'[stack[k].node].queue = nodes[stack[k].node].queue
    BY <1>3, <2>1
  <2>3. QED
    BY <1>2, <2>2, ChoiceStep
<1>5. ASSUME NEW f, HandApart(f)', stack' = Append(Below, f)
      PROVE  ChoiceInv'
  <2>1. \A k \in 1 .. Len(stack') :
          \/ stack'[k] = f
          \/ k \in 1 .. Len(stack) - 1 /\ k \in 1 .. Len(stack) /\ stack'[k] = stack[k]
    BY <1>1, <1>5, StackAfterGoto
  <2>2. \A k \in 1 .. Len(stack') :
          \/ HandApart(stack[k])'
          \/ /\ k \in 1 .. Len(stack) /\ stack'[k] = stack[k]
             /\ nodes'[stack[k].node].queue = nodes[stack[k].node].queue
    BY <1>3, <1>5, <2>1
  <2>3. QED
    BY <1>2, <2>2, ChoiceStep
<1>6. QED
  BY <1>4, <1>5

(* What the steps that change a queue do to it: the best edge comes into hand, *)
Popped(n, f) ==
  /\ stack' = Append(Below, f) /\ f.node = n /\ f.n = Frame.n
  /\ \/ nodes[n].queue = <<>> /\ nodes'[n].queue = <<>> /\ f.at = "top"
     \/ /\ nodes[n].queue # <<>> /\ f.edge = nodes[n].queue[1] /\ f.at \in {"top", "kid1"}
        /\ Len(nodes'[n].queue) = Len(nodes[n].queue) - 1
        /\ \A i \in 1 .. Len(nodes[n].queue) - 1 :
             nodes'[n].queue[i] = nodes[n].queue[i + 1]

(* and another one to the front. *)
CameToFront(n, j) ==
  /\ answer' = nodes[n].queue[j].deriv
  /\ \A e \in EdgesOf(n) : store[answer'].cost <= store[e.deriv].cost
  /\ Len(nodes'[n].queue) = Len(nodes[n].queue)
  /\ \A k \in 1 .. Len(nodes[n].queue) :
       nodes'[n].queue[k] = nodes[n].queue[From(j, k)]

LEMMA EdgePopped ==
  ASSUME StoreOK, NodesOK, ListInv, PopEdge, NEW n, n = Frame.node
  PROVE  /\ n \in Nodes /\ phase = "list" /\ stack # <<>> /\ Frame.at = "pop"
         /\ store' = store /\ hg' = hg /\ Nodes' = Nodes
         /\ nodes'[n].memo = nodes[n].memo
         /\ \A o \in Nodes : o # n => nodes'[o] = nodes[o]
         /\ \E f : Popped(n, f)
<1>1. /\ hg' = hg /\ store' = store
      /\ stack # <<>> /\ phase = "list" /\ Frame.at = "pop"
  BY ForestUnchanged DEF PopEdge
<1>2. /\ n \in Nodes /\ NodeHere = nodes[n] /\ Frame \in FrameType(Nodes, Derivs, ListAts)
  BY <1>1, CallStarts
<1>3. PICK q : q = nodes[n].queue
  OBVIOUS
<1>4. /\ q \in Seq(EdgeType(Nodes, Derivs))
      /\ \A i \in 1 .. Len(q) : q[i] \in EdgesOf(n)
  BY <1>2, <1>3, NodeFacts
<1>5. PICK edge, at :
        /\ edge = IF q = <<>> THEN Frame.edge ELSE q[1]
        /\ at = IF q = <<>> \/ edge.kids[1] = Null THEN "top" ELSE "kid1"
  OBVIOUS
<1>6. PICK g : g = [Frame EXCEPT !.edge = edge]
  OBVIOUS
<1>7. PICK f : f = [g EXCEPT !.at = at]
  OBVIOUS
<1>8. /\ g \in FrameType(Nodes, Derivs, ListAts)
      /\ g.node = n /\ g.n = Frame.n /\ g.edge = edge
  <2>1. edge \in EdgeType(Nodes, Derivs \cup {Null})
    <3>1. CASE q = <<>>
      BY <1>2, <1>5, <3>1, FrameFacts
    <3>2. CASE q # <<>>
      <4>1. 1 \in 1 .. Len(q)
        BY <1>4, <3>2, TailFacts
      <4>2. edge \in EdgeType(Nodes, Derivs)
        BY <1>2, <1>4, <1>5, <3>2, <4>1, NodeFacts
      <4>3. QED
        BY <4>2, NodeTypeGrows
    <3>3. QED
      BY <3>1, <3>2
  <2>2. QED
    BY <1>2, <1>6, <2>1, FrameEdge
<1>9. f.at = at /\ f.node = n /\ f.n = Frame.n /\ f.edge = edge
  <2>1. at \in ListAts
    BY <1>5 DEF ListAts
  <2>2. QED
    BY <1>7, <1>8, <2>1, FrameAt
<1>10. CASE q = <<>>
  <2>1. stack' = Goto(Frame, "top") /\ nodes' = nodes
    BY <1>2, <1>3, <1>10 DEF PopEdge
  <2>2. PICK e : e = [Frame EXCEPT !.at = "top"]
    OBVIOUS
  <2>3. e.at = "top" /\ e.node = n /\ e.n = Frame.n
    <3>1. "top" \in ListAts
      BY DEF ListAts
    <3>2. QED
      BY <1>2, <2>2, <3>1, FrameAt
  <2>4. stack' = Append(Below, e)
    BY <2>1, <2>2 DEF Goto
  <2>5. Nodes' = Nodes
    BY <2>1 DEF Nodes
  <2>6. Popped(n, e)
    BY <1>3, <1>10, <2>1, <2>3, <2>4 DEF Popped
  <2>7. QED
    BY <1>1, <1>2, <2>1, <2>5, <2>6
<1>11. CASE q # <<>>
  <2>1. /\ nodes' = [nodes EXCEPT ![n].queue = Tail(@)]
        /\ stack' = Goto([Frame EXCEPT !.edge = edge], at)
    BY <1>2, <1>3, <1>5, <1>11 DEF PopEdge
  <2>2. stack' = Append(Below, f)
    BY <1>6, <1>7, <2>1 DEF Goto
  <2>3. PICK t, m : t = Tail(q) /\ m = nodes[n].memo
    OBVIOUS
  <2>4. nodes' = [nodes EXCEPT ![n] = [queue |-> t, memo |-> m]]
    <3>1. nodes' = [nodes EXCEPT ![n].queue = t]
      BY <1>3, <2>1, <2>3
    <3>2. QED
      BY <1>2, <2>3, <3>1, NodeExcept
  <2>5. /\ Nodes' = Nodes /\ nodes'[n].queue = t /\ nodes'[n].memo = m
        /\ \A o \in Nodes : o # n => nodes'[o] = nodes[o]
    BY <1>2, <2>4 DEF Nodes
  <2>6. Len(t) = Len(q) - 1 /\ \A i \in 1 .. Len(q) - 1 : t[i] = q[i + 1]
    BY <1>4, <1>11, <2>3, TailFacts
  <2>7. f.edge = q[1] /\ f.at \in {"top", "kid1"}
    BY <1>5, <1>9, <1>11
  <2>8. Popped(n, f)
    BY <1>3, <1>9, <1>11, <2>2, <2>5, <2>6, <2>7 DEF Popped
  <2>9. nodes'[n].memo = nodes[n].memo
    BY <2>3, <2>5
  <2>10. QED
    BY <1>1, <1>2, <2>5, <2>8, <2>9
<1>12. QED
  BY <1>10, <1>11

LEMMA ChoiceKeptByPopEdge ==
  ASSUME IInv, StoreOK, NodesOK, ListInv, AnswerType, ChoiceInv, PopEdge
  PROVE  ChoiceInv'
<1>0. PICK n : n = Frame.node
  OBVIOUS
<1>1. /\ n \in Nodes /\ phase = "list" /\ stack # <<>> /\ Frame.at = "pop"
      /\ store' = store /\ Nodes' = Nodes
      /\ \A o \in Nodes : o # n => nodes'[o] = nodes[o]
  BY <1>0, EdgePopped
<1>2. PICK f : Popped(n, f)
  BY <1>0, EdgePopped
<1>3. QueueApart(n)' /\ HandApart(f)'
  <2>1. CASE nodes'[n].queue = <<>> /\ f.at = "top"
    <3>1. Len(nodes'[n].queue) = 0
      BY <2>1
    <3>2. QED
      BY <2>1, <3>1 DEF QueueApart, HandApart
  <2>2. CASE /\ nodes[n].queue # <<>> /\ f.edge = nodes[n].queue[1] /\ f.at \in {"top", "kid1"}
             /\ Len(nodes'[n].queue) = Len(nodes[n].queue) - 1
             /\ \A i \in 1 .. Len(nodes[n].queue) - 1 :
                  nodes'[n].queue[i] = nodes[n].queue[i + 1]
    <3>1. PICK q, t : q = nodes[n].queue /\ t = nodes'[n].queue
      OBVIOUS
    <3>2. /\ Len(q) \in Nat /\ Len(q) >= 1 /\ f.edge = q[1] /\ Len(t) = Len(q) - 1
          /\ \A i \in 1 .. Len(t) : t[i] = q[i + 1] /\ i + 1 \in 1 .. Len(q) /\ i + 1 # 1
      <4>1. q \in Seq(EdgeType(Nodes, Derivs)) /\ q # <<>>
        BY <1>1, <2>2, <3>1, NodeFacts
      <4>2. Len(q) \in Nat /\ Len(q) >= 1
        BY <4>1, TailFacts
      <4>3. QED
        BY <2>2, <3>1, <4>2
    <3>3. \A i, j \in 1 .. Len(q) : i # j => Apart(q[i], 0, q[j])
      BY <1>1, <3>1 DEF ChoiceInv, ListPhases, QueueApart
    <3>4. \A e, g : Apart(e, 0, g)' <=> Apart(e, 0, g)
      BY <1>1 DEF Apart
    <3>5. \A i, j \in 1 .. Len(t) : i # j => Apart(t[i], 0, t[j])'
      <4>1. TAKE i, j \in 1 .. Len(t)
      <4>2. HAVE i # j
      <4>3. i + 1 # j + 1
        BY <3>2, <4>2
      <4>4. Apart(q[i + 1], 0, q[j + 1])
        BY <3>2, <3>3, <4>3
      <4>5. QED
        BY <3>2, <3>4, <4>4
    <3>6. \A i \in 1 .. Len(t) : Apart(f.edge, 0, t[i])'
      <4>1. TAKE i \in 1 .. Len(t)
      <4>2. Apart(q[1], 0, q[i + 1])
        BY <3>2, <3>3
      <4>3. QED
        BY <3>2, <3>4, <4>2
    <3>7. QueueApart(n)'
      BY <3>1, <3>5 DEF QueueApart
    <3>8. HandApart(f)'
      <4>1. \A e \in EdgesOf(n)' : Apart(f.edge, 0, e)'
        BY <3>1, <3>6 DEF EdgesOf
      <4>2. QED
        BY <1>2, <2>2, <4>1 DEF HandApart, Popped
    <3>9. QED
      BY <3>7, <3>8
  <2>3. QED
    BY <1>2, <2>1, <2>2 DEF Popped
<1>4. \A o \in Nodes : o # n => nodes'[o].queue = nodes[o].queue
  BY <1>1
<1>5. stack' = Below \/ \E g : HandApart(g)' /\ stack' = Append(Below, g)
  BY <1>2, <1>3 DEF Popped
<1>6. Frame.at # "enter" /\ \A d \in Derivs : store'[d] = store[d]
  BY <1>1
<1>7. QED
  BY <1>0, <1>1, <1>3, <1>4, <1>5, <1>6, ChoiceAtTop

LEMMA TopMoves ==
  ASSUME StoreOK, NodesOK, ListInv, TakeTop, NEW n, n = Frame.node
  PROVE  /\ n \in Nodes /\ phase = "list" /\ stack # <<>> /\ Frame.at = "top"
         /\ store' = store /\ hg' = hg /\ Nodes' = Nodes /\ stack' = Below
         /\ \A o \in Nodes : o # n => nodes'[o] = nodes[o]
         /\ Len(nodes'[n].memo) = Len(nodes[n].memo) /\ nodes'[n].memo[Frame.n + 1] = answer'
         /\ \A k \in 1 .. Len(nodes[n].memo) :
              k # Frame.n + 1 => nodes'[n].memo[k] = nodes[n].memo[k]
         /\ \/ nodes[n].queue = <<>> /\ nodes'[n].queue = <<>> /\ answer' = NONE
            \/ \E j \in 1 .. Len(nodes[n].queue) : CameToFront(n, j)
<1>0. PICK i : i = Frame.n + 1
  OBVIOUS
<1>1. /\ hg' = hg /\ store' = store
      /\ stack # <<>> /\ phase = "list" /\ Frame.at = "top" /\ stack' = Below
  BY ForestUnchanged DEF TakeTop
<1>2. /\ n \in Nodes /\ NodeHere = nodes[n] /\ FrameOK(Frame) /\ Frame.n \in Nat
  BY <1>1, CallStarts
<1>3. PICK q, l : q = nodes[n].queue /\ l = nodes[n].memo
  OBVIOUS
<1>4. /\ q \in Seq(EdgeType(Nodes, Derivs)) /\ l \in Seq({NONE, PENDING} \cup Derivs)
      /\ DOMAIN q = 1 .. Len(q) /\ \A j \in 1 .. Len(q) : q[j] \in EdgesOf(n)
  BY <1>2, <1>3, NodeFacts
<1>5. i \in 1 .. Len(l)
  <2>1. Len(l) = i /\ i \in Nat /\ i >= 1
    BY <1>0, <1>1, <1>2, <1>3 DEF FrameOK
  <2>2. QED
    BY <2>1
<1>6. CASE q = <<>>
  <2>1. answer' = NONE /\ nodes' = [nodes EXCEPT ![n].memo[i] = NONE]
    BY <1>0, <1>2, <1>3, <1>6 DEF TakeTop
  <2>2. PICK m : m = [l EXCEPT ![i] = NONE]
    OBVIOUS
  <2>3. nodes' = [nodes EXCEPT ![n] = [queue |-> q, memo |-> m]]
    <3>1. nodes' = [nodes EXCEPT ![n].memo = m]
      BY <1>3, <2>1, <2>2
    <3>2. QED
      BY <1>2, <1>3, <3>1, NodeExcept
  <2>4. /\ Nodes' = Nodes /\ nodes'[n].queue = q /\ nodes'[n].memo = m
        /\ \A o \in Nodes : o # n => nodes'[o] = nodes[o]
    BY <1>2, <2>3 DEF Nodes
  <2>5. Len(m) = Len(l) /\ m[i] = NONE /\ \A k \in 1 .. Len(l) : k # i => m[k] = l[k]
    <3>1. NONE \in {NONE, PENDING} \cup Derivs
      OBVIOUS
    <3>2. QED
      BY <1>4, <1>5, <2>2, <3>1, FilledPlace
  <2>6. QED
    BY <1>0, <1>1, <1>2, <1>3, <1>6, <2>1, <2>4, <2>5
<1>7. CASE q # <<>>
  <2>1. PICK j \in 1 .. Len(q) :
          /\ IsBestIn(q, j) /\ answer' = q[j].deriv
          /\ nodes' = [nodes EXCEPT ![n] = [queue |-> InFront(@.queue, j),
                                            memo |-> [@.memo EXCEPT ![i] = answer']]]
    BY <1>0, <1>2, <1>3, <1>4, <1>7 DEF TakeTop, PlaceOf
  <2>2. PICK m : m = [l EXCEPT ![i] = answer']
    OBVIOUS
  <2>3. nodes' = [nodes EXCEPT ![n] = [queue |-> InFront(nodes[n].queue, j), memo |-> m]]
    BY <1>2, <1>3, <2>1, <2>2
  <2>4. answer' \in Derivs
    BY <1>2, <1>4, <2>1, NodeFacts
  <2>5. /\ m \in Seq({NONE, PENDING} \cup Derivs) /\ Len(m) = Len(l) /\ m[i] = answer'
        /\ \A k \in 1 .. Len(l) : k # i => m[k] = l[k]
    <3>1. answer' \in {NONE, PENDING} \cup Derivs
      BY <2>4
    <3>2. QED
      BY <1>4, <1>5, <2>2, <3>1, FilledPlace
  <2>6. /\ store' = store /\ n \in Nodes /\ j \in 1 .. Len(nodes[n].queue)
        /\ m \in Seq({NONE, PENDING} \cup Derivs)
    BY <1>1, <1>2, <1>3, <2>5
  <2>7. /\ NodesOK' /\ Nodes' = Nodes
        /\ nodes'[n].memo = m /\ nodes'[n].queue = InFront(nodes[n].queue, j)
        /\ nodes'[n].queue # <<>> /\ nodes'[n].queue[1] = nodes[n].queue[j]
        /\ Len(nodes'[n].queue) = Len(nodes[n].queue)
        /\ \A o \in Nodes : EdgesOf(o)' = EdgesOf(o)
        /\ \A o \in Nodes : o # n => nodes'[o] = nodes[o]
        /\ \A k \in 1 .. Len(nodes[n].queue) :
             nodes'[n].queue[k] = nodes[n].queue[From(j, k)]
    BY <2>3, <2>6, ReorderedNode
  <2>8. \A e \in EdgesOf(n) : store[answer'].cost <= store[e.deriv].cost
    <3>1. \A k \in 1 .. Len(q) : store[q[j].deriv].cost <= store[q[k].deriv].cost
      BY <1>4, <2>1 DEF IsBestIn
    <3>2. QED
      BY <1>3, <2>1, <3>1 DEF EdgesOf
  <2>9. j \in 1 .. Len(nodes[n].queue) /\ CameToFront(n, j)
    BY <1>3, <2>1, <2>7, <2>8 DEF CameToFront
  <2>10. /\ Len(nodes'[n].memo) = Len(nodes[n].memo) /\ nodes'[n].memo[Frame.n + 1] = answer'
         /\ \A k \in 1 .. Len(nodes[n].memo) :
              k # Frame.n + 1 => nodes'[n].memo[k] = nodes[n].memo[k]
    BY <1>0, <1>3, <2>5, <2>7
  <2>11. QED
    BY <1>1, <1>2, <2>7, <2>9, <2>10
<1>8. QED
  BY <1>6, <1>7

LEMMA ChoiceKeptByTakeTop ==
  ASSUME IInv, StoreOK, NodesOK, ListInv, AnswerType, ChoiceInv, TakeTop
  PROVE  ChoiceInv'
<1>0. PICK n : n = Frame.node
  OBVIOUS
<1>1. /\ n \in Nodes /\ phase = "list" /\ stack # <<>> /\ Frame.at = "top"
      /\ store' = store /\ Nodes' = Nodes /\ stack' = Below
      /\ \A o \in Nodes : o # n => nodes'[o] = nodes[o]
      /\ \/ nodes[n].queue = <<>> /\ nodes'[n].queue = <<>> /\ answer' = NONE
         \/ \E j \in 1 .. Len(nodes[n].queue) : CameToFront(n, j)
  BY <1>0, TopMoves
<1>2. QueueApart(n)'
  <2>1. CASE nodes'[n].queue = <<>>
    <3>1. Len(nodes'[n].queue) = 0
      BY <2>1
    <3>2. QED
      BY <3>1 DEF QueueApart
  <2>2. ASSUME NEW h \in 1 .. Len(nodes[n].queue), CameToFront(n, h)
        PROVE  QueueApart(n)'
    <3>0. /\ Len(nodes'[n].queue) = Len(nodes[n].queue)
          /\ \A k \in 1 .. Len(nodes[n].queue) :
               nodes'[n].queue[k] = nodes[n].queue[From(h, k)]
      BY <2>2 DEF CameToFront
    <3>1. PICK q, t : q = nodes[n].queue /\ t = nodes'[n].queue
      OBVIOUS
    <3>2. Len(q) \in Nat
      BY <1>1, <3>1, NodeFacts
    <3>3. \A i, j \in 1 .. Len(q) : i # j => Apart(q[i], 0, q[j])
      BY <1>1, <3>1 DEF ChoiceInv, ListPhases, QueueApart
    <3>4. ASSUME NEW i \in 1 .. Len(q), NEW j \in 1 .. Len(q), i # j
          PROVE  Apart(t[i], 0, t[j])'
      <4>1. From(h, i) \in 1 .. Len(q) /\ From(h, j) \in 1 .. Len(q) /\ From(h, i) # From(h, j)
        BY <3>1, <3>2, <3>4, FromFacts
      <4>2. Apart(q[From(h, i)], 0, q[From(h, j)])
        BY <3>3, <4>1
      <4>3. Apart(t[i], 0, t[j])
        BY <3>0, <3>1, <4>2
      <4>4. QED
        BY <1>1, <4>3 DEF Apart
    <3>5. QED
      BY <3>0, <3>1, <3>4 DEF QueueApart
  <2>3. QED
    BY <1>1, <2>1, <2>2
<1>3. \A o \in Nodes : o # n => nodes'[o].queue = nodes[o].queue
  BY <1>1
<1>4. Frame.at # "enter" /\ \A d \in Derivs : store'[d] = store[d]
  BY <1>1
<1>5. QED
  BY <1>0, <1>1, <1>2, <1>3, <1>4, ChoiceAtTop

(* A successor of the edge in hand is queued: its ith child is now the next one. *)
Succeeds(n, i, e, new) ==
  LET old == nodes[e.kids[i]].memo[e.places[i] + 1]
  IN  /\ new.kids = e.kids /\ new.places[i] = e.places[i] + 1
      /\ \A j \in 1 .. 2 : j # i => new.places[j] = e.places[j]
      /\ Derivs' = Derivs \cup {new.deriv} /\ new.deriv \notin Derivs
      /\ \A d \in Derivs : store'[d] = store[d]
      /\ old \in Derivs /\ answer \in Derivs
      /\ store'[new.deriv].arc = store[e.deriv].arc
      /\ store'[new.deriv].cost = store[e.deriv].cost - store[old].cost + store[answer].cost
      /\ Len(nodes'[n].queue) = Len(nodes[n].queue) + 1
      /\ nodes'[n].queue[Len(nodes[n].queue) + 1] = new
      /\ \A j \in 1 .. Len(nodes[n].queue) : nodes'[n].queue[j] = nodes[n].queue[j]

LEMMA KidAsked ==
  ASSUME StoreOK, NodesOK, ListInv, AnswerType, TakeKid, NEW i, i = (IF Frame.at = "made1" THEN 1 ELSE 2)
  PROVE  /\ i \in 1 .. 2 /\ (i = 1 <=> Frame.at = "made1")
         /\ Frame.edge \in EdgeType(Nodes, Derivs \cup {Null}) /\ Frame.edge.deriv \in Derivs
         /\ Frame.edge.kids[i] \in Nodes /\ Frame.edge.places[i] \in Nat
         /\ IsKnown(Frame.edge.kids[i], Frame.edge.places[i] + 1)
         /\ IsKnown(Frame.edge.kids[i], Frame.edge.places[i] + 2)
         /\ answer = nodes[Frame.edge.kids[i]].memo[Frame.edge.places[i] + 2]
         /\ answer # NONE =>
              answer \in Derivs /\ nodes[Frame.edge.kids[i]].memo[Frame.edge.places[i] + 1] \in Derivs
<1>0. PICK edge : edge = Frame.edge
  OBVIOUS
<1>1. stack # <<>> /\ phase = "list" /\ Frame.at \in {"made1", "made2"}
  BY DEF TakeKid
<1>2. /\ MemosInv /\ StackInv /\ AnswerInv /\ FrameOK(Frame)
      /\ Frame \in FrameType(Nodes, Derivs, ListAts)
  BY <1>1, StackFacts DEF ListInv
<1>3. /\ EdgeOK(edge) /\ edge.deriv # Null /\ edge.kids[1] # Null
      /\ i \in 1 .. 2 /\ (i = 1 <=> Frame.at = "made1")
      /\ i = 2 => edge.kids[2] # Null
  BY <1>0, <1>1, <1>2 DEF FrameOK, InHandAts, SecondAts
<1>4. /\ edge \in EdgeType(Nodes, Derivs \cup {Null}) /\ edge.deriv \in Derivs
      /\ edge.kids[i] \in Nodes /\ edge.places[i] \in Nat
  <2>1. edge \in EdgeType(Nodes, Derivs \cup {Null})
    BY <1>0, <1>2, FrameFacts
  <2>2. /\ edge.deriv \in Derivs \cup {Null}
        /\ \A j \in 1 .. 2 : edge.kids[j] \in {Null} \cup Nodes /\ edge.places[j] \in Nat
    BY <2>1, EdgeTypeFacts
  <2>3. edge.kids[i] # Null
    BY <1>3
  <2>4. QED
    BY <1>3, <2>1, <2>2, <2>3
<1>5. PICK k \in Nodes, p \in Nat : k = edge.kids[i] /\ p = edge.places[i]
  BY <1>4
<1>6. IsKnown(k, p + 1) /\ IsKnown(k, p + 2) /\ answer = nodes[k].memo[p + 2]
  <2>1. IsKnown(k, p + 1)
    BY <1>3, <1>4, <1>5 DEF EdgeOK
  <2>2. CASE i = 1
    <3>1. AnswerIs(edge.kids[1], edge.places[1] + 2)
      BY <1>0, <1>1, <1>2, <1>3, <2>2 DEF AnswerInv
    <3>2. QED
      BY <1>5, <2>1, <2>2, <3>1 DEF AnswerIs
  <2>3. CASE i = 2
    <3>1. AnswerIs(edge.kids[2], edge.places[2] + 2)
      BY <1>0, <1>1, <1>2, <1>3, <2>3 DEF AnswerInv
    <3>2. QED
      BY <1>5, <2>1, <2>3, <3>1 DEF AnswerIs
  <2>4. QED
    BY <1>3, <2>2, <2>3
<1>7. ASSUME answer # NONE
      PROVE  answer \in Derivs /\ nodes[k].memo[p + 1] \in Derivs
  <2>1. p + 2 \in 1 .. Len(nodes[k].memo) /\ p + 1 \in 1 .. Len(nodes[k].memo)
    BY <1>6 DEF IsKnown
  <2>2. PICK old : old = nodes[k].memo[p + 1]
    OBVIOUS
  <2>3. answer \in {NONE, PENDING} \cup Derivs /\ old \in {NONE, PENDING} \cup Derivs
    BY <1>6, <2>1, <2>2, MemoFacts
  <2>4. answer # PENDING /\ old # PENDING
    BY <1>6, <2>2 DEF IsKnown
  <2>5. old # NONE
    <3>1. MemoOK(k)
      BY <1>2 DEF MemosInv
    <3>2. p + 1 < p + 2
      BY <1>5
    <3>3. old = NONE => answer \in {NONE, PENDING}
      BY <1>6, <2>1, <2>2, <3>1, <3>2 DEF MemoOK
    <3>4. QED
      BY <1>7, <2>4, <3>3
  <2>6. QED
    BY <1>7, <2>2, <2>3, <2>4, <2>5
<1>8. QED
  BY <1>0, <1>3, <1>4, <1>5, <1>6, <1>7

LEMMA KidTaken ==
  ASSUME StoreOK, NodesOK, ListInv, AnswerType, TakeKid, NEW n, n = Frame.node,
         NEW i, i = (IF Frame.at = "made1" THEN 1 ELSE 2)
  PROVE  /\ n \in Nodes /\ phase = "list" /\ stack # <<>> /\ Frame.at \in {"made1", "made2"}
         /\ hg' = hg /\ answer' = answer /\ Nodes' = Nodes
         /\ nodes'[n].memo = nodes[n].memo
         /\ \A o \in Nodes : o # n => nodes'[o] = nodes[o]
         /\ \E f : /\ stack' = Append(Below, f) /\ f.node = n /\ f.n = Frame.n /\ f.edge = Frame.edge
                   /\ f.at = "top" \/ (f.at = "kid2" /\ i = 1 /\ Frame.edge.places[1] = 0)
         /\ \/ store' = store /\ nodes' = nodes
            \/ \E new : Succeeds(n, i, Frame.edge, new)
<1>0. PICK edge : edge = Frame.edge
  OBVIOUS
<1>01. PICK oldKid, next :
         /\ oldKid = nodes[edge.kids[i]].memo[edge.places[i] + 1]
         /\ next = IF i = 1 /\ edge.kids[2] # Null /\ SecondToo(edge) THEN "kid2" ELSE "top"
  OBVIOUS
<1>02. PICK w, new :
         /\ w = Worse(edge.deriv, i, oldKid, answer)
         /\ new = [edge EXCEPT !.places[i] = @ + 1, !.deriv = Fresh]
  OBVIOUS
<1>1. /\ hg' = hg /\ answer' = answer
      /\ stack # <<>> /\ phase = "list" /\ Frame.at \in {"made1", "made2"}
      /\ stack' = Goto(Frame, next)
      /\ answer = NONE => UNCHANGED <<store, nodes>>
      /\ answer # NONE =>
           /\ store' = Merged(store, [d \in {Fresh} |-> w])
           /\ nodes' = [nodes EXCEPT ![n].queue = Append(@, new)]
  <2>1. hg' = hg /\ answer' = answer
    BY DEF TakeKid, vars, input
  <2>2. QED
    BY <1>0, <1>01, <1>02, <2>1 DEF TakeKid
<1>2. n \in Nodes /\ Frame \in FrameType(Nodes, Derivs, ListAts)
  BY <1>1, CallStarts
<1>3. /\ i \in 1 .. 2
      /\ edge \in EdgeType(Nodes, Derivs \cup {Null}) /\ edge.deriv \in Derivs
      /\ answer # NONE => answer \in Derivs /\ oldKid \in Derivs
  <2>1. /\ i \in 1 .. 2
        /\ Frame.edge \in EdgeType(Nodes, Derivs \cup {Null}) /\ Frame.edge.deriv \in Derivs
        /\ answer # NONE =>
             answer \in Derivs /\ nodes[Frame.edge.kids[i]].memo[Frame.edge.places[i] + 1] \in Derivs
    BY KidAsked
  <2>2. QED
    BY <1>0, <1>01, <2>1
<1>4. PICK f : f = [Frame EXCEPT !.at = next]
  OBVIOUS
<1>5. f.at = next /\ f.node = n /\ f.n = Frame.n /\ f.edge = Frame.edge
  <2>1. next \in ListAts
    BY <1>01 DEF ListAts
  <2>2. QED
    BY <1>2, <1>4, <2>1, FrameAt
<1>6. stack' = Append(Below, f)
  BY <1>1, <1>4 DEF Goto
<1>7. f.at = "top" \/ (f.at = "kid2" /\ i = 1 /\ Frame.edge.places[1] = 0)
  BY <1>0, <1>01, <1>5 DEF SecondToo
<1>8. \E g : /\ stack' = Append(Below, g) /\ g.node = n /\ g.n = Frame.n /\ g.edge = Frame.edge
             /\ g.at = "top" \/ (g.at = "kid2" /\ i = 1 /\ Frame.edge.places[1] = 0)
  BY <1>5, <1>6, <1>7
<1>9. CASE answer = NONE
  <2>1. store' = store /\ nodes' = nodes
    BY <1>1, <1>9
  <2>2. Nodes' = Nodes
    BY <2>1 DEF Nodes
  <2>3. QED
    BY <1>1, <1>2, <1>8, <2>1, <2>2
<1>10. CASE answer # NONE
  <2>1. /\ w \in DerivType(Derivs) /\ w.arc = store[edge.deriv].arc
        /\ w.cost = store[edge.deriv].cost - store[oldKid].cost + store[answer].cost
    BY <1>02, <1>3, <1>10, WorseFacts
  <2>2. PICK k : k = Fresh
    OBVIOUS
  <2>3. /\ Derivs' = Derivs \cup {k} /\ store'[k] = w /\ k \notin Derivs
        /\ \A d \in Derivs : store'[d] = store[d]
    <3>1. store' = Merged(store, [d \in {Fresh} |-> w])
      BY <1>1, <1>10
    <3>2. /\ StoreOK' /\ Derivs' = Derivs \cup {Fresh} /\ store'[Fresh] = w
          /\ \A d \in Derivs : store'[d] = store[d]
      BY <1>1, <2>1, <3>1, StoreGrows
    <3>3. Fresh \notin Derivs
      BY FreshFacts
    <3>4. QED
      BY <2>2, <3>2, <3>3
  <2>4. /\ new.kids = edge.kids /\ new.deriv = k
        /\ new.places[i] = edge.places[i] + 1
        /\ \A j \in 1 .. 2 : j # i => new.places[j] = edge.places[j]
    <3>1. PICK ps : ps = [edge.places EXCEPT ![i] = @ + 1]
      OBVIOUS
    <3>2. /\ edge = [kids |-> edge.kids, places |-> edge.places, deriv |-> edge.deriv]
          /\ edge.places \in [1 .. 2 -> Nat]
      BY <1>3, EdgeTypeFacts
    <3>3. new = [kids |-> edge.kids, places |-> ps, deriv |-> k]
      BY <1>02, <2>2, <3>1, <3>2
    <3>4. ps[i] = edge.places[i] + 1 /\ \A j \in 1 .. 2 : j # i => ps[j] = edge.places[j]
      BY <1>3, <3>1, <3>2, NextPlaces
    <3>5. QED
      BY <3>3, <3>4
  <2>5. PICK q, m, r : q = nodes[n].queue /\ m = nodes[n].memo /\ r = Append(q, new)
    OBVIOUS
  <2>6. /\ Len(r) = Len(q) + 1
        /\ r[Len(q) + 1] = new /\ \A j \in 1 .. Len(q) : r[j] = q[j]
    <3>1. PICK S : S = EdgeType(Nodes, Derivs) \cup {new}
      OBVIOUS
    <3>2. q \in Seq(EdgeType(Nodes, Derivs))
      BY <1>2, <2>5, NodeFacts
    <3>3. q \in Seq(S) /\ new \in S
      BY <3>1, <3>2
    <3>4. QED
      BY <2>5, <3>3, AppendFacts
  <2>7. /\ Nodes' = Nodes /\ nodes'[n].queue = r /\ nodes'[n].memo = m
        /\ \A o \in Nodes : o # n => nodes'[o] = nodes[o]
    <3>1. nodes' = [nodes EXCEPT ![n] = [queue |-> r, memo |-> m]]
      <4>1. nodes' = [nodes EXCEPT ![n].queue = r]
        BY <1>1, <1>10, <2>5
      <4>2. QED
        BY <1>2, <2>5, <4>1, NodeExcept
    <3>2. QED
      BY <1>2, <3>1 DEF Nodes
  <2>8. Succeeds(n, i, edge, new)
    <3>1. /\ oldKid \in Derivs /\ answer \in Derivs
          /\ oldKid = nodes[edge.kids[i]].memo[edge.places[i] + 1]
      BY <1>01, <1>3, <1>10
    <3>2. /\ store'[new.deriv].arc = store[edge.deriv].arc
          /\ store'[new.deriv].cost = store[edge.deriv].cost - store[oldKid].cost + store[answer].cost
          /\ Derivs' = Derivs \cup {new.deriv} /\ new.deriv \notin Derivs
          /\ \A d \in Derivs : store'[d] = store[d]
      BY <2>1, <2>3, <2>4
    <3>3. /\ Len(nodes'[n].queue) = Len(nodes[n].queue) + 1
          /\ nodes'[n].queue[Len(nodes[n].queue) + 1] = new
          /\ \A j \in 1 .. Len(nodes[n].queue) : nodes'[n].queue[j] = nodes[n].queue[j]
      BY <2>5, <2>6, <2>7
    <3>4. /\ new.kids = edge.kids /\ new.places[i] = edge.places[i] + 1
          /\ \A j \in 1 .. 2 : j # i => new.places[j] = edge.places[j]
      BY <2>4
    <3>5. QED
      BY <3>1, <3>2, <3>3, <3>4 DEF Succeeds
  <2>9. \E x : Succeeds(n, i, Frame.edge, x)
    BY <1>0, <2>8
  <2>10. QED
    BY <1>1, <1>2, <1>8, <2>5, <2>7, <2>9
<1>11. QED
  BY <1>9, <1>10

(* Neither of the two successors leads to what the edge itself does not, nor to
   the other. *)
LEMMA FirstGoesOn ==
  ASSUME NEW p1 \in Nat, NEW p2 \in Nat, NEW q1 \in Nat, NEW q2 \in Nat,
         ~Reaches(p1, p2, q1, q2), ~Reaches(q1, q2, p1, p2)
  PROVE  ~Reaches(p1 + 1, p2, q1, q2) /\ ~Reaches(q1, q2, p1 + 1, p2)
BY DEF Reaches

LEMMA SecondGoesOn ==
  ASSUME NEW p2 \in Nat, NEW q1 \in Nat, NEW q2 \in Nat,
         ~Reaches(0, p2, q1, q2), ~Reaches(q1, q2, 0, p2)
  PROVE  ~Reaches(0, p2 + 1, q1, q2) /\ ~Reaches(q1, q2, 0, p2 + 1)
BY DEF Reaches

LEMMA BothGoOn ==
  ASSUME NEW p2 \in Nat
  PROVE  ~Reaches(1, p2, 0, p2 + 1) /\ ~Reaches(0, p2 + 1, 1, p2)
BY DEF Reaches

LEMMA SuccessorApart ==
  ASSUME NEW i \in 1 .. 2, NEW e, NEW new, NEW f,
         new.kids = e.kids, new.places[i] = e.places[i] + 1,
         \A j \in 1 .. 2 : j # i => new.places[j] = e.places[j],
         store'[new.deriv].arc = store[e.deriv].arc, store'[f.deriv] = store[f.deriv],
         \A j \in 1 .. 2 : e.places[j] \in Nat /\ f.places[j] \in Nat,
         i = 1 => Apart(e, 0, f), i = 2 => Apart(e, 1, f)
  PROVE  Apart(new, 0, f)' /\ Apart(f, 0, new)'
<1>1. PICK p1 \in Nat, p2 \in Nat, q1 \in Nat, q2 \in Nat :
        p1 = e.places[1] /\ p2 = e.places[2] /\ q1 = f.places[1] /\ q2 = f.places[2]
  OBVIOUS
<1>2. PICK r1, r2 : r1 = new.places[1] /\ r2 = new.places[2]
  OBVIOUS
<1>3. CASE e.kids # f.kids \/ store[e.deriv].arc # store[f.deriv].arc
  BY <1>3 DEF Apart
<1>4. CASE ~(e.kids # f.kids \/ store[e.deriv].arc # store[f.deriv].arc)
  <2>1. ~Reaches(r1, r2, q1, q2) /\ ~Reaches(q1, q2, r1, r2) /\ r1 \in Nat /\ r2 \in Nat
    <3>1. CASE i = 1
      <4>1. r1 = p1 + 1 /\ r2 = p2
        BY <1>1, <1>2, <3>1
      <4>2. p2 + 0 = p2
        BY <1>1
      <4>3. ~Reaches(p1, p2, q1, q2) /\ ~Reaches(q1, q2, p1, p2)
        BY <1>1, <1>4, <3>1, <4>2 DEF Apart
      <4>4. QED
        BY <4>1, <4>3, FirstGoesOn
    <3>2. CASE i = 2
      <4>1. r1 = p1 /\ r2 = p2 + 1
        BY <1>1, <1>2, <3>2
      <4>2. ~Reaches(p1, p2 + 1, q1, q2) /\ ~Reaches(q1, q2, p1, p2 + 1)
        BY <1>1, <1>4, <3>2 DEF Apart
      <4>3. QED
        BY <4>1, <4>2
    <3>3. QED
      BY <3>1, <3>2
  <2>2. r2 + 0 = r2 /\ q2 + 0 = q2
    BY <2>1
  <2>3. Apart(new, 0, f)'
    BY <1>1, <1>2, <2>1, <2>2 DEF Apart
  <2>4. Apart(f, 0, new)'
    BY <1>1, <1>2, <2>1, <2>2 DEF Apart
  <2>5. QED
    BY <2>3, <2>4
<1>5. QED
  BY <1>3, <1>4

LEMMA HandGoesOn ==
  ASSUME NEW e, NEW f, store'[e.deriv] = store[e.deriv], store'[f.deriv] = store[f.deriv],
         \A j \in 1 .. 2 : e.places[j] \in Nat /\ f.places[j] \in Nat,
         e.places[1] = 0, Apart(e, 0, f)
  PROVE  Apart(e, 1, f)'
<1>1. PICK p2 \in Nat, q1 \in Nat, q2 \in Nat :
        p2 = e.places[2] /\ q1 = f.places[1] /\ q2 = f.places[2]
  OBVIOUS
<1>2. CASE e.kids # f.kids \/ store[e.deriv].arc # store[f.deriv].arc
  BY <1>2 DEF Apart
<1>3. CASE ~(e.kids # f.kids \/ store[e.deriv].arc # store[f.deriv].arc)
  <2>1. p2 + 0 = p2
    BY <1>1
  <2>2. ~Reaches(0, p2, q1, q2) /\ ~Reaches(q1, q2, 0, p2)
    BY <1>1, <1>3, <2>1 DEF Apart
  <2>3. ~Reaches(0, p2 + 1, q1, q2) /\ ~Reaches(q1, q2, 0, p2 + 1)
    BY <2>2, SecondGoesOn
  <2>4. QED
    BY <1>1, <2>3 DEF Apart
<1>4. QED
  BY <1>2, <1>3

LEMMA HandAndNew ==
  ASSUME NEW e, NEW new, store'[e.deriv].arc = store'[new.deriv].arc,
         e.places[1] = 0, e.places[2] \in Nat,
         new.places[1] = e.places[1] + 1, new.places[2] = e.places[2]
  PROVE  Apart(e, 1, new)'
<1>1. PICK p2 \in Nat : p2 = e.places[2]
  OBVIOUS
<1>2. e.places[1] = 0 /\ new.places[1] = 1 /\ new.places[2] = p2
  BY <1>1
<1>3. ~Reaches(1, p2, 0, p2 + 1) /\ ~Reaches(0, p2 + 1, 1, p2)
  BY BothGoOn
<1>4. QED
  BY <1>1, <1>2, <1>3 DEF Apart

LEMMA ChoiceKeptByTakeKid ==
  ASSUME IInv, StoreOK, NodesOK, ListInv, AnswerType, ChoiceInv, TakeKid
  PROVE  ChoiceInv'
<1>0. PICK n, i, edge : /\ n = Frame.node /\ i = (IF Frame.at = "made1" THEN 1 ELSE 2)
                        /\ edge = Frame.edge
  OBVIOUS
<1>1. /\ n \in Nodes /\ phase = "list" /\ stack # <<>> /\ Frame.at \in {"made1", "made2"}
      /\ Nodes' = Nodes
      /\ \A o \in Nodes : o # n => nodes'[o] = nodes[o]
  BY <1>0, KidTaken
<1>2. PICK f : /\ stack' = Append(Below, f) /\ f.node = n /\ f.n = Frame.n /\ f.edge = Frame.edge
               /\ f.at = "top" \/ (f.at = "kid2" /\ i = 1 /\ Frame.edge.places[1] = 0)
  BY <1>0, KidTaken
<1>3. /\ i \in 1 .. 2 /\ (i = 1 <=> Frame.at = "made1")
      /\ edge \in EdgeType(Nodes, Derivs \cup {Null}) /\ edge.deriv \in Derivs
  <2>1. /\ i \in 1 .. 2 /\ (i = 1 <=> Frame.at = "made1")
        /\ Frame.edge \in EdgeType(Nodes, Derivs \cup {Null}) /\ Frame.edge.deriv \in Derivs
    BY <1>0, KidAsked
  <2>2. QED
    BY <1>0, <2>1
<1>4. \A j \in 1 .. 2 : edge.places[j] \in Nat
  BY <1>3, EdgeTypeFacts
<1>5. PICK q : q = nodes[n].queue
  OBVIOUS
<1>6. /\ Len(q) \in Nat
      /\ \A k \in 1 .. Len(q) :
           /\ q[k] \in EdgesOf(n) /\ q[k].deriv \in Derivs
           /\ \A j \in 1 .. 2 : q[k].places[j] \in Nat
  BY <1>1, <1>5, NodeFacts
<1>7. /\ i = 1 => \A k \in 1 .. Len(q) : Apart(edge, 0, q[k])
      /\ i = 2 => \A k \in 1 .. Len(q) : Apart(edge, 1, q[k])
  <2>1. Len(stack) \in 1 .. Len(stack) /\ Frame = stack[Len(stack)]
    BY <1>1, StackFacts DEF ListInv
  <2>2. HandApart(Frame)
    BY <1>1, <2>1 DEF ChoiceInv, ListPhases
  <2>3. /\ i = 1 => Frame.at = "made1"
        /\ i = 2 => Frame.at = "made2"
    BY <1>1, <1>3
  <2>4. QED
    BY <1>0, <1>6, <2>2, <2>3 DEF HandApart
<1>8. \A j, k \in 1 .. Len(q) : j # k => Apart(q[j], 0, q[k])
  BY <1>1, <1>5 DEF ChoiceInv, ListPhases, QueueApart
<1>9. /\ \A d \in Derivs : store'[d] = store[d]
      /\ QueueApart(n)' /\ HandApart(f)'
  <2>1. CASE store' = store /\ nodes' = nodes
    <3>1. QueueApart(n)'
      <4>1. QueueApart(n)
        BY <1>1 DEF ChoiceInv, ListPhases
      <4>2. QED
        BY <2>1, <4>1 DEF QueueApart, Apart
    <3>2. HandApart(f)'
      <4>1. CASE f.at = "top"
        BY <4>1 DEF HandApart
      <4>2. CASE f.at = "kid2" /\ i = 1 /\ edge.places[1] = 0
        <5>1. \A k \in 1 .. Len(q) : Apart(edge, 1, q[k])'
          BY <1>3, <1>4, <1>6, <1>7, <2>1, <4>2, HandGoesOn
        <5>2. q = nodes'[n].queue
          BY <1>5, <2>1
        <5>3. \A e \in EdgesOf(n)' : Apart(edge, 1, e)'
          BY <5>1, <5>2 DEF EdgesOf
        <5>4. QED
          BY <1>0, <1>2, <4>2, <5>3 DEF HandApart
      <4>3. QED
        BY <1>0, <1>2, <4>1, <4>2
    <3>3. QED
      BY <2>1, <3>1, <3>2
  <2>2. ASSUME NEW new, Succeeds(n, i, edge, new)
        PROVE  /\ \A d \in Derivs : store'[d] = store[d]
               /\ QueueApart(n)' /\ HandApart(f)'
    <3>1. /\ new.kids = edge.kids /\ new.places[i] = edge.places[i] + 1
          /\ \A j \in 1 .. 2 : j # i => new.places[j] = edge.places[j]
          /\ \A d \in Derivs : store'[d] = store[d]
          /\ store'[new.deriv].arc = store[edge.deriv].arc
      BY <2>2 DEF Succeeds
    <3>2. PICK t : t = nodes'[n].queue
      OBVIOUS
    <3>3. /\ Len(t) = Len(q) + 1 /\ t[Len(q) + 1] = new
          /\ \A j \in 1 .. Len(q) : t[j] = q[j]
      BY <1>5, <2>2, <3>2 DEF Succeeds
    <3>4. \A k \in 1 .. Len(t) : k = Len(q) + 1 \/ k \in 1 .. Len(q)
      BY <1>6, <3>3
    <3>5. \A k \in 1 .. Len(q) : Apart(new, 0, q[k])' /\ Apart(q[k], 0, new)'
      <4>1. TAKE k \in 1 .. Len(q)
      <4>2. PICK e : e = q[k]
        OBVIOUS
      <4>3. /\ store'[e.deriv] = store[e.deriv]
            /\ \A j \in 1 .. 2 : edge.places[j] \in Nat /\ e.places[j] \in Nat
        BY <1>4, <1>6, <3>1, <4>2
      <4>4. /\ i = 1 => Apart(edge, 0, e)
            /\ i = 2 => Apart(edge, 1, e)
        BY <1>7, <4>2
      <4>5. i \in 1 .. 2
        BY <1>3
      <4>6. Apart(new, 0, e)' /\ Apart(e, 0, new)'
        BY <3>1, <4>3, <4>4, <4>5, SuccessorApart
      <4>7. QED
        BY <4>2, <4>6
    <3>6. ASSUME NEW j \in 1 .. Len(t), NEW k \in 1 .. Len(t), j # k
          PROVE  Apart(t[j], 0, t[k])'
      <4>1. CASE j \in 1 .. Len(q) /\ k \in 1 .. Len(q)
        <5>1. Apart(q[j], 0, q[k])
          BY <1>8, <3>6, <4>1
        <5>2. Apart(q[j], 0, q[k])'
          BY <1>6, <3>1, <4>1, <5>1, ApartStays
        <5>3. QED
          BY <3>3, <4>1, <5>2
      <4>2. CASE j = Len(q) + 1 /\ k \in 1 .. Len(q)
        BY <3>3, <3>5, <4>2
      <4>3. CASE j \in 1 .. Len(q) /\ k = Len(q) + 1
        BY <3>3, <3>5, <4>3
      <4>4. QED
        BY <3>4, <3>6, <4>1, <4>2, <4>3
    <3>7. QueueApart(n)'
      BY <3>2, <3>6 DEF QueueApart
    <3>8. HandApart(f)'
      <4>1. CASE f.at = "top"
        BY <4>1 DEF HandApart
      <4>2. CASE f.at = "kid2" /\ i = 1 /\ edge.places[1] = 0
        <5>1. \A k \in 1 .. Len(q) : Apart(edge, 1, q[k])'
          <6>1. TAKE k \in 1 .. Len(q)
          <6>2. PICK e : e = q[k]
            OBVIOUS
          <6>3. /\ store'[edge.deriv] = store[edge.deriv] /\ store'[e.deriv] = store[e.deriv]
                /\ \A j \in 1 .. 2 : edge.places[j] \in Nat /\ e.places[j] \in Nat
            BY <1>3, <1>4, <1>6, <3>1, <6>2
          <6>4. edge.places[1] = 0 /\ Apart(edge, 0, e)
            BY <1>7, <4>2, <6>2
          <6>5. Apart(edge, 1, e)'
            BY <6>3, <6>4, HandGoesOn
          <6>6. QED
            BY <6>2, <6>5
        <5>2. Apart(edge, 1, new)'
          <6>1. new.places[1] = edge.places[1] + 1 /\ new.places[2] = edge.places[2]
            BY <3>1, <4>2
          <6>2. store'[edge.deriv].arc = store'[new.deriv].arc
            BY <1>3, <3>1
          <6>3. edge.places[1] = 0 /\ edge.places[2] \in Nat
            BY <1>4, <4>2
          <6>4. QED
            BY <6>1, <6>2, <6>3, HandAndNew
        <5>3. \A k \in 1 .. Len(t) : Apart(edge, 1, t[k])'
          BY <3>3, <3>4, <5>1, <5>2
        <5>4. \A e \in EdgesOf(n)' : Apart(edge, 1, e)'
          BY <3>2, <5>3 DEF EdgesOf
        <5>5. QED
          BY <1>0, <1>2, <4>2, <5>4 DEF HandApart
      <4>3. QED
        BY <1>0, <1>2, <4>1, <4>2
    <3>9. QED
      BY <3>1, <3>7, <3>8
  <2>3. (store' = store /\ nodes' = nodes) \/ \E new : Succeeds(n, i, Frame.edge, new)
    BY <1>0, KidTaken
  <2>4. QED
    BY <1>0, <2>1, <2>2, <2>3
<1>10. \A o \in Nodes : o # n => nodes'[o].queue = nodes[o].queue
  BY <1>1
<1>11. stack' = Below \/ \E g : HandApart(g)' /\ stack' = Append(Below, g)
  BY <1>2, <1>9
<1>12. Frame.at # "enter"
  BY <1>1
<1>13. QED
  BY <1>0, <1>1, <1>9, <1>10, <1>11, <1>12, ChoiceAtTop

LEMMA ListStepKeepsChoice ==
  ASSUME IInv, StoreOK, NodesOK, ListInv, AnswerType, ChoiceInv, ListStep
  PROVE  ChoiceInv'
BY ChoiceKeptByCalls, ChoiceKeptByAskForNew, ChoiceKeptByPopEdge, ChoiceKeptByAskKid,
   ChoiceKeptByTakeKid, ChoiceKeptByTakeTop DEF ListStep

LEMMA FixDoneMakesChoice ==
  ASSUME ForestInv, FixDone
  PROVE  ChoiceInv'
<1>1. phase = "fix" /\ stack = <<>> /\ UNCHANGED <<store, nodes, stack>>
  BY DEF FixDone, nbestVars
<1>2. ArcsDiffer /\ Nodes' = Nodes
  BY <1>1 DEF ForestInv, FirstInv, Nodes
<1>3. \A n \in Nodes : QueueApart(n)'
  BY <1>1, <1>2 DEF ArcsDiffer, QueueApart, Apart
<1>4. 1 .. Len(stack') = {}
  BY <1>1
<1>5. QED
  BY <1>2, <1>3, <1>4 DEF ChoiceInv

LEMMA NextKeepsChoice ==
  ASSUME ForestInv, ChoiceInv, [NbestNext]_allVars
  PROVE  ChoiceInv'
<1>1. CASE BestTreeNext /\ UNCHANGED nbestVars
  <2>1. phase' \notin ListPhases
    BY <1>1 DEF BestTreeNext, ChooseAcyclic, RelaxOutArcs, AcyclicDone, ChooseBestFirst, AddAxioms,
                PopBest, ReachArc, SearchDone, ListPhases
  <2>2. QED
    BY <2>1 DEF ChoiceInv
<1>2. CASE BuildLazy \/ SortState \/ SortDone \/ FixStep
  <2>1. phase' \in {"sort", "fix"}
    BY <1>2 DEF BuildLazy, SortState, SortDone, FixStep, EnterNode, FixKid, RepairEdge, LeaveNode,
                vars
  <2>2. QED
    BY <2>1 DEF ChoiceInv, ListPhases
<1>3. CASE FixDone
  BY <1>3, FixDoneMakesChoice
<1>4. CASE ListStep
  <2>1. phase \in ForestPhases
    BY <1>4, ListStepFrame DEF ForestPhases, ListPhases
  <2>2. StoreOK /\ NodesOK
    BY <2>1, ForestTypes
  <2>3. IInv /\ ListInv /\ AnswerType
    BY DEF ForestInv
  <2>4. QED
    BY <1>4, <2>2, <2>3, ListStepKeepsChoice
<1>5. CASE UNCHANGED allVars
  BY <1>5 DEF allVars, vars, nbestVars, ChoiceInv, QueueApart, HandApart, Apart, EdgesOf, Nodes
<1>6. QED
  BY <1>1, <1>2, <1>3, <1>4, <1>5, NextKinds

LEMMA ChoiceInvariance == NbestSpec => [](ForestInv /\ ChoiceInv)
<1>1. NbestInit => ChoiceInv
  BY DEF NbestInit, Init, ChoiceInv, ListPhases
<1>2. ForestInv /\ ChoiceInv /\ [NbestNext]_allVars => (ForestInv /\ ChoiceInv)'
  BY NextKeepsForestInv, NextKeepsChoice
<1>3. QED
  BY <1>1, <1>2, InitIsForestInv, PTL DEF NbestSpec

(* No two edges in the queue of a node have the same children, the same places and
   the same arc: the second child goes on only while the first is the best, so that
   there is "one path to any (a, b)" (lazy_forest_kbest.hpp,
   generate_successor_hyperedge), also while an edge is in hand and its child is
   asked for more, whichever calls run in between. *)
THEOREM ChoicesAreQueuedOnce == NbestSpec => []NoChoiceTwice
<1>1. ASSUME ForestInv, ChoiceInv
      PROVE  NoChoiceTwice
  <2>1. CASE phase \in TreePhases
    <3>1. DOMAIN nodes = {}
      BY <1>1, <2>1 DEF ForestInv, NoForestYet
    <3>2. QED
      BY <3>1 DEF NoChoiceTwice
  <2>2. CASE phase \notin TreePhases
    <3>1. StoreOK /\ NodesOK
      BY <1>1, <2>2 DEF ForestInv, ForestTypeInv
    <3>2. SUFFICES ASSUME NEW n \in Nodes, NEW i \in DOMAIN nodes[n].queue,
                          NEW j \in DOMAIN nodes[n].queue, i # j
                   PROVE  \/ nodes[n].queue[i].places # nodes[n].queue[j].places
                          \/ nodes[n].queue[i].kids # nodes[n].queue[j].kids
                          \/ store[nodes[n].queue[i].deriv].arc # store[nodes[n].queue[j].deriv].arc
      BY DEF NoChoiceTwice, Nodes
    <3>3. PICK q : q = nodes[n].queue
      OBVIOUS
    <3>4. /\ i \in 1 .. Len(q) /\ j \in 1 .. Len(q)
          /\ q[i].places[1] \in Nat /\ q[i].places[2] \in Nat
      <4>1. DOMAIN q = 1 .. Len(q)
        BY <3>1, <3>3, NodeFacts
      <4>2. i \in 1 .. Len(q) /\ j \in 1 .. Len(q)
        BY <3>3, <4>1
      <4>3. q[i] \in EdgesOf(n)
        BY <3>1, <3>3, <4>2, NodeFacts
      <4>4. PICK e : e = q[i]
        OBVIOUS
      <4>5. \A k \in 1 .. 2 : e.places[k] \in Nat
        BY <3>1, <4>3, <4>4, NodeFacts
      <4>6. QED
        BY <4>2, <4>4, <4>5
    <3>5. CASE phase \in {"sort", "fix"}
      <4>1. ArcsDiffer
        BY <1>1, <3>5 DEF ForestInv, FirstInv
      <4>2. QED
        BY <3>2, <3>3, <3>4, <4>1 DEF ArcsDiffer
    <3>6. CASE phase \in ListPhases
      <4>1. PICK e, f : e = q[i] /\ f = q[j]
        OBVIOUS
      <4>2. Apart(e, 0, f)
        BY <1>1, <3>2, <3>3, <3>4, <3>6, <4>1 DEF ChoiceInv, QueueApart
      <4>3. e.places = f.places => Reaches(e.places[1], e.places[2] + 0, f.places[1], f.places[2])
        BY <3>4, <4>1 DEF Reaches
      <4>4. e.places # f.places \/ e.kids # f.kids \/ store[e.deriv].arc # store[f.deriv].arc
        BY <4>2, <4>3 DEF Apart
      <4>5. QED
        BY <3>3, <4>1, <4>4
    <3>7. phase \in TreePhases \cup {"sort", "fix"} \cup ListPhases
      BY <1>1 DEF ForestInv, IInv, BestTreeTypeOK, TreePhases, ListPhases
    <3>8. QED
      BY <2>2, <3>5, <3>6, <3>7
  <2>3. QED
    BY <2>1, <2>2
<1>2. QED
  BY <1>1, ChoiceInvariance, PTL

-----------------------------------------------------------------------------
(* The derivations of a node are found in the order of their costs. *)

(* Nothing known of a node costs more than d does. *)
NotBefore(n, d) ==
  \A i \in 1 .. Len(nodes[n].memo) :
    nodes[n].memo[i] \notin {NONE, PENDING} => store[nodes[n].memo[i]].cost <= store[d].cost

NodeInOrder(n) ==
  /\ \A i, j \in 1 .. Len(nodes[n].memo) :
       i < j /\ nodes[n].memo[i] \notin {NONE, PENDING} /\ nodes[n].memo[j] \notin {NONE, PENDING}
         => store[nodes[n].memo[i]].cost <= store[nodes[n].memo[j]].cost
  /\ \A e \in EdgesOf(n) : NotBefore(n, e.deriv)

(* What is in hand has left the queue, but its successors are yet to come. *)
HandInOrder(f) == f.at \in InHandAts => NotBefore(f.node, f.edge.deriv)

CostsInOrder ==
  /\ \A n \in Nodes : NodeInOrder(n)
  /\ \A k \in 1 .. Len(stack) : HandInOrder(stack[k])

LEMMA HandEdge ==
  ASSUME StackInv, NEW k \in 1 .. Len(stack), stack[k].at \in InHandAts
  PROVE  stack[k].edge.deriv \in Derivs /\ stack[k].node \in Nodes
<1>1. PICK f : f = stack[k]
  OBVIOUS
<1>2. f \in FrameType(Nodes, Derivs, ListAts) /\ FrameOK(f)
  BY <1>1, ElementOfSeq DEF StackInv
<1>3. f.edge \in EdgeType(Nodes, Derivs \cup {Null}) /\ f.node \in Nodes
  BY <1>2, FrameFacts
<1>4. f.edge.deriv \in Derivs \cup {Null}
  BY <1>3, EdgeTypeFacts
<1>5. f.edge.deriv # Null
  BY <1>1, <1>2 DEF FrameOK
<1>6. QED
  BY <1>1, <1>3, <1>4, <1>5

LEMMA KnownIsDeriv ==
  ASSUME NodesOK, NEW n \in Nodes, NEW i \in 1 .. Len(nodes[n].memo),
         nodes[n].memo[i] \notin {NONE, PENDING}
  PROVE  nodes[n].memo[i] \in Derivs
<1>1. nodes[n].memo \in Seq({NONE, PENDING} \cup Derivs)
  BY NodeFacts
<1>2. nodes[n].memo[i] \in {NONE, PENDING} \cup Derivs
  BY <1>1, ElementOfSeq
<1>3. QED
  BY <1>2

LEMMA SameNodeOrder ==
  ASSUME NodesOK, \A d \in Derivs : store'[d] = store[d],
         NEW n \in Nodes, nodes'[n] = nodes[n]
  PROVE  /\ \A d \in Derivs : NotBefore(n, d) => NotBefore(n, d)'
         /\ NodeInOrder(n) => NodeInOrder(n)'
<1>1. PICK q, m : q = nodes[n].queue /\ m = nodes[n].memo
  OBVIOUS
<1>2. q = nodes'[n].queue /\ m = nodes'[n].memo
  BY <1>1
<1>3. \A i \in 1 .. Len(m) : m[i] \notin {NONE, PENDING} => store'[m[i]] = store[m[i]]
  BY <1>1, KnownIsDeriv
<1>4. ASSUME NEW d \in Derivs, NotBefore(n, d)
      PROVE  NotBefore(n, d)'
  <2>1. \A i \in 1 .. Len(m) :
          m[i] \notin {NONE, PENDING} => store[m[i]].cost <= store[d].cost
    BY <1>1, <1>4 DEF NotBefore
  <2>2. \A i \in 1 .. Len(m) :
          m[i] \notin {NONE, PENDING} => store'[m[i]].cost <= store'[d].cost
    BY <1>3, <2>1
  <2>3. QED
    BY <1>2, <2>2 DEF NotBefore
<1>5. ASSUME NodeInOrder(n)
      PROVE  NodeInOrder(n)'
  <2>1. \A e \in EdgesOf(n) : NotBefore(n, e.deriv)'
    <3>1. TAKE e \in EdgesOf(n)
    <3>2. NotBefore(n, e.deriv) /\ e.deriv \in Derivs
      BY <1>5, NodeFacts DEF NodeInOrder
    <3>3. PICK d \in Derivs : d = e.deriv
      BY <3>2
    <3>4. NotBefore(n, d)'
      BY <1>4, <3>2, <3>3
    <3>5. QED
      BY <3>3, <3>4
  <2>2. EdgesOf(n)' = EdgesOf(n)
    BY <1>1, <1>2 DEF EdgesOf
  <2>3. \A i, j \in 1 .. Len(m) :
          i < j /\ m[i] \notin {NONE, PENDING} /\ m[j] \notin {NONE, PENDING}
            => store[m[i]].cost <= store[m[j]].cost
    BY <1>1, <1>5 DEF NodeInOrder
  <2>4. \A i, j \in 1 .. Len(m) :
          i < j /\ m[i] \notin {NONE, PENDING} /\ m[j] \notin {NONE, PENDING}
            => store'[m[i]].cost <= store'[m[j]].cost
    BY <1>3, <2>3
  <2>5. QED
    BY <1>2, <2>1, <2>2, <2>4 DEF NodeInOrder
<1>6. QED
  BY <1>4, <1>5

LEMMA OrderStep ==
  ASSUME StoreOK, NodesOK, ListInv, CostsInOrder, phase = "list", Nodes' = Nodes,
         \A d \in Derivs : store'[d] = store[d],
         \A n \in Nodes : nodes'[n] = nodes[n] \/ NodeInOrder(n)',
         \A k \in 1 .. Len(stack') :
           \/ HandInOrder(stack[k])'
           \/ /\ k \in 1 .. Len(stack) /\ stack'[k] = stack[k]
              /\ \A d \in Derivs : NotBefore(stack[k].node, d) => NotBefore(stack[k].node, d)'
  PROVE  CostsInOrder'
<1>1. /\ \A n \in Nodes : NodeInOrder(n)
      /\ \A k \in 1 .. Len(stack) : HandInOrder(stack[k])
      /\ StackInv
  BY DEF CostsInOrder, ListInv
<1>2. \A n \in Nodes : NodeInOrder(n)'
  BY <1>1, SameNodeOrder
<1>3. ASSUME NEW k \in 1 .. Len(stack')
      PROVE  HandInOrder(stack[k])'
  <2>1. CASE /\ k \in 1 .. Len(stack) /\ stack'[k] = stack[k]
             /\ \A d \in Derivs : NotBefore(stack[k].node, d) => NotBefore(stack[k].node, d)'
    <3>1. PICK f : f = stack[k]
      OBVIOUS
    <3>2. ASSUME f.at \in InHandAts
          PROVE  NotBefore(f.node, f.edge.deriv)'
      <4>1. f.edge.deriv \in Derivs
        BY <1>1, <2>1, <3>1, <3>2, HandEdge
      <4>2. PICK d \in Derivs : d = f.edge.deriv
        BY <4>1
      <4>3. HandInOrder(f)
        BY <1>1, <2>1, <3>1
      <4>4. NotBefore(f.node, d)
        BY <3>2, <4>2, <4>3 DEF HandInOrder
      <4>5. NotBefore(f.node, d)'
        BY <2>1, <3>1, <4>4
      <4>6. QED
        BY <4>2, <4>5
    <3>3. HandInOrder(f)'
      BY <3>2 DEF HandInOrder
    <3>4. f = stack'[k]
      BY <2>1, <3>1
    <3>5. QED
      BY <3>3, <3>4
  <2>2. QED
    BY <2>1
<1>4. QED
  BY <1>2, <1>3 DEF CostsInOrder

LEMMA OrderAtTop ==
  ASSUME StoreOK, NodesOK, ListInv, CostsInOrder, phase = "list", stack # <<>>,
         Frame.at # "enter", Nodes' = Nodes, \A d \in Derivs : store'[d] = store[d],
         NEW n, n = Frame.node, \A o \in Nodes : o # n => nodes'[o] = nodes[o],
         NodeInOrder(n)',
         stack' = Below \/ \E f : HandInOrder(f)' /\ stack' = Append(Below, f)
  PROVE  CostsInOrder'
<1>1. StackInv
  BY DEF ListInv
<1>2. ASSUME NEW o \in Nodes
      PROVE  nodes'[o] = nodes[o] \/ NodeInOrder(o)'
  OBVIOUS
<1>3. ASSUME NEW k \in 1 .. Len(stack) - 1, k \in 1 .. Len(stack), stack'[k] = stack[k]
      PROVE  /\ k \in 1 .. Len(stack) /\ stack'[k] = stack[k]
             /\ \A d \in Derivs : NotBefore(stack[k].node, d) => NotBefore(stack[k].node, d)'
  <2>1. PICK o : o = stack[k].node
    OBVIOUS
  <2>2. o \in Nodes /\ o # n
    BY <1>1, <2>1, StackFacts
  <2>3. nodes'[o] = nodes[o]
    BY <2>2
  <2>4. \A d \in Derivs : NotBefore(o, d) => NotBefore(o, d)'
    BY <2>2, <2>3, SameNodeOrder
  <2>5. QED
    BY <1>3, <2>1, <2>4
<1>4. CASE stack' = Below
  <2>1. \A k \in 1 .. Len(stack') :
          k \in 1 .. Len(stack) - 1 /\ k \in 1 .. Len(stack) /\ stack'[k] = stack[k]
    BY <1>1, <1>4, StackAfterPop
  <2>2. \A k \in 1 .. Len(stack') :
          /\ k \in 1 .. Len(stack) /\ stack'[k] = stack[k]
          /\ \A d \in Derivs : NotBefore(stack[k].node, d) => NotBefore(stack[k].node, d)'
    BY <1>3, <2>1
  <2>3. QED
    BY <1>2, <2>2, OrderStep
<1>5. ASSUME NEW f, HandInOrder(f)', stack' = Append(Below, f)
      PROVE  CostsInOrder'
  <2>1. \A k \in 1 .. Len(stack') :
          \/ stack'[k] = f
          \/ k \in 1 .. Len(stack) - 1 /\ k \in 1 .. Len(stack) /\ stack'[k] = stack[k]
    BY <1>1, <1>5, StackAfterGoto
  <2>2. \A k \in 1 .. Len(stack') :
          \/ HandInOrder(stack[k])'
          \/ /\ k \in 1 .. Len(stack) /\ stack'[k] = stack[k]
             /\ \A d \in Derivs : NotBefore(stack[k].node, d) => NotBefore(stack[k].node, d)'
    BY <1>3, <1>5, <2>1
  <2>3. QED
    BY <1>2, <2>2, OrderStep
<1>6. QED
  BY <1>4, <1>5

LEMMA OrderKeptByCalls ==
  ASSUME IInv, StoreOK, NodesOK, ListInv, AnswerType, CostsInOrder,
         AskForNext \/ VisitBest \/ StopListing \/ ThrowCycle \/ ReturnKnown
  PROVE  CostsInOrder'
<1>1. /\ phase = "list" /\ Nodes' = Nodes
      /\ \A d \in Derivs : store'[d] = store[d]
      /\ \A n \in Nodes : nodes'[n] = nodes[n]
      /\ \A n \in Nodes : \A d \in Derivs : NotBefore(n, d) => NotBefore(n, d)'
  <2>1. phase = "list" /\ store' = store /\ nodes' = nodes
    BY DEF AskForNext, VisitBest, StopListing, ThrowCycle, ReturnKnown, forestUnchanged, nbestVars
  <2>2. QED
    BY <2>1 DEF Nodes, NotBefore
<1>2. ASSUME NEW k \in 1 .. Len(stack), stack'[k] = stack[k]
      PROVE  \/ HandInOrder(stack[k])'
             \/ /\ k \in 1 .. Len(stack) /\ stack'[k] = stack[k]
                /\ \A d \in Derivs : NotBefore(stack[k].node, d) => NotBefore(stack[k].node, d)'
  <2>1. PICK f : f = stack[k]
    OBVIOUS
  <2>2. f \in FrameType(Nodes, Derivs, ListAts)
    BY <1>1, <2>1, ElementOfSeq DEF ListInv, StackInv
  <2>3. PICK n \in Nodes : n = f.node
    BY <2>2, FrameFacts
  <2>4. \A d \in Derivs : NotBefore(n, d) => NotBefore(n, d)'
    BY <1>1
  <2>5. QED
    BY <1>2, <2>1, <2>3, <2>4
<1>3. CASE AskForNext
  <2>1. PICK f : f = Call(NodeOf(hg.final), Len(listed))
    OBVIOUS
  <2>2. stack' = <<f>> /\ f.at = "enter"
    BY <1>3, <2>1 DEF AskForNext, Call
  <2>3. \A k \in 1 .. Len(stack') : stack'[k] = f
    BY <2>2
  <2>4. \A k \in 1 .. Len(stack') : HandInOrder(stack[k])'
    BY <2>2, <2>3 DEF HandInOrder, InHandAts
  <2>5. QED
    BY <1>1, <2>4, OrderStep
<1>4. CASE ReturnKnown
  <2>1. StackInv /\ stack # <<>> /\ stack' = Below
    BY <1>1, <1>4 DEF ReturnKnown, ListInv
  <2>2. \A k \in 1 .. Len(stack') : k \in 1 .. Len(stack) /\ stack'[k] = stack[k]
    BY <2>1, StackAfterPop
  <2>3. QED
    BY <1>1, <1>2, <2>2, OrderStep
<1>5. CASE VisitBest \/ StopListing \/ ThrowCycle
  <2>1. stack' = stack
    BY <1>5 DEF VisitBest, StopListing, ThrowCycle, nbestVars
  <2>2. \A k \in 1 .. Len(stack') : k \in 1 .. Len(stack) /\ stack'[k] = stack[k]
    BY <2>1
  <2>3. QED
    BY <1>1, <1>2, <2>2, OrderStep
<1>6. QED
  BY <1>3, <1>4, <1>5

(* What is pending is not known. *)
LEMMA PendingKeepsOrder ==
  ASSUME StoreOK, NodesOK, store' = store, NEW n \in Nodes, nodes'[n].queue = nodes[n].queue,
         nodes'[n].memo = Append(nodes[n].memo, PENDING)
  PROVE  /\ \A d \in Derivs : NotBefore(n, d) => NotBefore(n, d)'
         /\ NodeInOrder(n) => NodeInOrder(n)'
<1>1. PICK l, m : l = nodes[n].memo /\ m = nodes'[n].memo
  OBVIOUS
<1>2. Len(l) \in Nat /\ l \in Seq({NONE, PENDING} \cup Derivs)
  BY <1>1, NodeFacts
<1>3. /\ Len(m) = Len(l) + 1 /\ m[Len(l) + 1] = PENDING
      /\ \A i \in 1 .. Len(l) : m[i] = l[i]
  <2>1. PENDING \in {NONE, PENDING} \cup Derivs
    OBVIOUS
  <2>2. QED
    BY <1>1, <1>2, <2>1, AppendFacts
<1>4. \A i \in 1 .. Len(m) : m[i] \notin {NONE, PENDING} => i \in 1 .. Len(l) /\ m[i] = l[i]
  <2>1. \A i \in 1 .. Len(m) : i = Len(l) + 1 \/ i \in 1 .. Len(l)
    BY <1>2, <1>3
  <2>2. QED
    BY <1>3, <2>1
<1>5. \A d : NotBefore(n, d) => NotBefore(n, d)'
  BY <1>1, <1>4 DEF NotBefore
<1>6. EdgesOf(n)' = EdgesOf(n)
  BY DEF EdgesOf
<1>7. NodeInOrder(n) => NodeInOrder(n)'
  BY <1>1, <1>4, <1>5, <1>6 DEF NodeInOrder
<1>8. QED
  BY <1>5, <1>7

LEMMA OrderKeptByAskForNew ==
  ASSUME IInv, StoreOK, NodesOK, ListInv, AnswerType, CostsInOrder, AskForNew
  PROVE  CostsInOrder'
<1>0. PICK n : n = Frame.node
  OBVIOUS
<1>1. /\ phase = "list" /\ store' = store /\ stack # <<>> /\ StackInv /\ n \in Nodes
      /\ Nodes' = Nodes
      /\ stack' = Goto(Frame, "pop")
      /\ nodes' = [nodes EXCEPT ![n].memo = Append(@, PENDING)]
  <2>1. phase = "list" /\ stack # <<>> /\ store' = store
    BY DEF AskForNew, forestUnchanged
  <2>2. n \in Nodes /\ StackInv
    BY <1>0, <2>1, CallStarts
  <2>3. Nodes' = Nodes
    BY KeepsAskForNew DEF Grows
  <2>4. QED
    BY <1>0, <2>1, <2>2, <2>3 DEF AskForNew
<1>2. /\ nodes'[n].queue = nodes[n].queue /\ nodes'[n].memo = Append(nodes[n].memo, PENDING)
      /\ \A o \in Nodes : o # n => nodes'[o] = nodes[o]
  <2>1. PICK m : m = Append(nodes[n].memo, PENDING)
    OBVIOUS
  <2>2. nodes' = [nodes EXCEPT ![n] = [queue |-> nodes[n].queue, memo |-> m]]
    BY <1>1, <2>1, NodeExcept
  <2>3. QED
    BY <1>1, <2>1, <2>2 DEF Nodes
<1>3. /\ \A d \in Derivs : NotBefore(n, d) => NotBefore(n, d)'
      /\ NodeInOrder(n) => NodeInOrder(n)'
  BY <1>1, <1>2, PendingKeepsOrder
<1>4. ASSUME NEW o \in Nodes
      PROVE  \A d \in Derivs : NotBefore(o, d) => NotBefore(o, d)'
  <2>1. CASE o = n
    BY <1>3, <2>1
  <2>2. CASE o # n
    <3>1. nodes'[o] = nodes[o] /\ \A d \in Derivs : store'[d] = store[d]
      BY <1>1, <1>2, <2>2
    <3>2. QED
      BY <3>1, SameNodeOrder
  <2>3. QED
    BY <2>1, <2>2
<1>5. \A o \in Nodes : nodes'[o] = nodes[o] \/ NodeInOrder(o)'
  BY <1>2, <1>3 DEF CostsInOrder
<1>6. PICK f : f = [Frame EXCEPT !.at = "pop"]
  OBVIOUS
<1>7. HandInOrder(f)'
  <2>1. Frame \in FrameType(Nodes, Derivs, ListAts)
    BY <1>1, StackFacts
  <2>2. "pop" \in ListAts
    BY DEF ListAts
  <2>3. f.at = "pop"
    BY <1>6, <2>1, <2>2, FrameAt
  <2>4. QED
    BY <2>3 DEF HandInOrder, InHandAts
<1>8. stack' = Append(Below, f)
  BY <1>1, <1>6 DEF Goto
<1>9. ASSUME NEW k \in 1 .. Len(stack')
      PROVE  \/ HandInOrder(stack[k])'
             \/ /\ k \in 1 .. Len(stack) /\ stack'[k] = stack[k]
                /\ \A d \in Derivs : NotBefore(stack[k].node, d) => NotBefore(stack[k].node, d)'
  <2>1. CASE stack'[k] = f
    BY <1>7, <2>1
  <2>2. CASE k \in 1 .. Len(stack) - 1 /\ k \in 1 .. Len(stack) /\ stack'[k] = stack[k]
    <3>1. PICK o \in Nodes : o = stack[k].node
      BY <1>1, <2>2, StackFacts
    <3>2. \A d \in Derivs : NotBefore(o, d) => NotBefore(o, d)'
      BY <1>4
    <3>3. QED
      BY <2>2, <3>1, <3>2
  <2>3. QED
    BY <1>1, <1>8, <2>1, <2>2, StackAfterGoto
<1>10. QED
  BY <1>1, <1>5, <1>9, OrderStep

LEMMA OrderKeptByAskKid ==
  ASSUME IInv, StoreOK, NodesOK, ListInv, AnswerType, CostsInOrder, AskKid
  PROVE  CostsInOrder'
<1>0. PICK i, at : i = (IF Frame.at = "kid1" THEN 1 ELSE 2) /\ at = IF i = 1 THEN "made1" ELSE "made2"
  OBVIOUS
<1>1. PICK f, g : f = [Frame EXCEPT !.at = at] /\ g = Call(Frame.edge.kids[i], Frame.edge.places[i] + 1)
  OBVIOUS
<1>2. /\ phase = "list" /\ store' = store /\ nodes' = nodes /\ stack # <<>> /\ StackInv
      /\ Frame.at \in {"kid1", "kid2"}
      /\ stack' = Append(Append(Below, f), g)
  <2>1. phase = "list" /\ store' = store /\ nodes' = nodes
    BY DEF AskKid, forestUnchanged
  <2>2. QED
    BY <1>0, <1>1, <2>1 DEF AskKid, Goto, ListInv
<1>3. /\ Nodes' = Nodes /\ \A n : nodes'[n] = nodes[n]
      /\ \A n, d : NotBefore(n, d) => NotBefore(n, d)'
  BY <1>2 DEF Nodes, NotBefore
<1>4. f.node = Frame.node /\ f.edge = Frame.edge /\ g.at = "enter"
  <2>1. Frame \in FrameType(Nodes, Derivs, ListAts)
    BY <1>2, StackFacts
  <2>2. at \in ListAts
    BY <1>0 DEF ListAts
  <2>3. QED
    BY <1>1, <2>1, <2>2, FrameAt DEF Call
<1>5. NotBefore(Frame.node, Frame.edge.deriv)
  <2>1. Len(stack) \in 1 .. Len(stack) /\ Frame = stack[Len(stack)]
    BY <1>2, StackFacts
  <2>2. HandInOrder(Frame)
    BY <2>1 DEF CostsInOrder
  <2>3. QED
    BY <1>2, <2>2 DEF HandInOrder, InHandAts
<1>6. HandInOrder(f)'
  <2>1. PICK n, d : n = Frame.node /\ d = Frame.edge.deriv
    OBVIOUS
  <2>2. NotBefore(n, d)
    BY <1>5, <2>1
  <2>3. NotBefore(n, d)'
    BY <1>3, <2>2
  <2>4. QED
    BY <1>4, <2>1, <2>3 DEF HandInOrder
<1>7. HandInOrder(g)'
  BY <1>4 DEF HandInOrder, InHandAts
<1>8. ASSUME NEW k \in 1 .. Len(stack')
      PROVE  \/ HandInOrder(stack[k])'
             \/ /\ k \in 1 .. Len(stack) /\ stack'[k] = stack[k]
                /\ \A d \in Derivs : NotBefore(stack[k].node, d) => NotBefore(stack[k].node, d)'
  <2>0. StackInv /\ stack # <<>> /\ stack' = Append(Append(Below, f), g)
    BY <1>2
  <2>1. PICK S : {f, g} \subseteq S /\ stack \in Seq(S)
    BY <2>0, StackTypeOf
  <2>2. /\ Len(stack) \in Nat /\ Len(stack') = Len(stack) + 1
        /\ stack'[Len(stack)] = f /\ stack'[Len(stack) + 1] = g
        /\ \A j \in 1 .. Len(stack) - 1 : stack'[j] = stack[j]
    <3>1. f \in S /\ g \in S /\ stack \in Seq(S)
      BY <2>1
    <3>2. QED
      BY <2>0, <3>1, PushedStack
  <2>3. k = Len(stack) + 1 \/ k = Len(stack) \/ (k \in 1 .. Len(stack) - 1 /\ k \in 1 .. Len(stack))
    BY <2>2
  <2>4. stack'[k] = f \/ stack'[k] = g \/ (k \in 1 .. Len(stack) /\ stack'[k] = stack[k])
    BY <2>2, <2>3
  <2>5. PICK o : o = stack[k].node
    OBVIOUS
  <2>6. \A d \in Derivs : NotBefore(o, d) => NotBefore(o, d)'
    BY <1>3
  <2>7. QED
    BY <1>6, <1>7, <2>4, <2>5, <2>6
<1>9. \A d \in Derivs : store'[d] = store[d]
  BY <1>2
<1>10. QED
  BY <1>2, <1>3, <1>8, <1>9, OrderStep

LEMMA QueueKeepsOrder ==
  ASSUME StoreOK, NodesOK, \A d \in Derivs : store'[d] = store[d], NEW n \in Nodes,
         nodes'[n].memo = nodes[n].memo, NodeInOrder(n),
         \A e \in EdgesOf(n)' : e \in EdgesOf(n) \/ NotBefore(n, e.deriv)'
  PROVE  /\ NodeInOrder(n)'
         /\ \A d \in Derivs : NotBefore(n, d) => NotBefore(n, d)'
<1>1. PICK m : m = nodes[n].memo
  OBVIOUS
<1>2. m = nodes'[n].memo
  BY <1>1
<1>3. \A i \in 1 .. Len(m) : m[i] \notin {NONE, PENDING} => store'[m[i]] = store[m[i]]
  BY <1>1, KnownIsDeriv
<1>4. ASSUME NEW d \in Derivs, NotBefore(n, d)
      PROVE  NotBefore(n, d)'
  <2>1. \A i \in 1 .. Len(m) :
          m[i] \notin {NONE, PENDING} => store[m[i]].cost <= store[d].cost
    BY <1>1, <1>4 DEF NotBefore
  <2>2. \A i \in 1 .. Len(m) :
          m[i] \notin {NONE, PENDING} => store'[m[i]].cost <= store'[d].cost
    BY <1>3, <2>1
  <2>3. QED
    BY <1>2, <2>2 DEF NotBefore
<1>5. \A e \in EdgesOf(n)' : NotBefore(n, e.deriv)'
  <2>1. TAKE e \in EdgesOf(n)'
  <2>2. CASE e \in EdgesOf(n)
    <3>1. NotBefore(n, e.deriv) /\ e.deriv \in Derivs
      BY <2>2, NodeFacts DEF NodeInOrder
    <3>2. PICK d \in Derivs : d = e.deriv
      BY <3>1
    <3>3. NotBefore(n, d)'
      BY <1>4, <3>1, <3>2
    <3>4. QED
      BY <3>2, <3>3
  <2>3. QED
    BY <2>2
<1>6. \A i, j \in 1 .. Len(m) :
        i < j /\ m[i] \notin {NONE, PENDING} /\ m[j] \notin {NONE, PENDING}
          => store[m[i]].cost <= store[m[j]].cost
  BY <1>1 DEF NodeInOrder
<1>7. \A i, j \in 1 .. Len(m) :
        i < j /\ m[i] \notin {NONE, PENDING} /\ m[j] \notin {NONE, PENDING}
          => store'[m[i]].cost <= store'[m[j]].cost
  BY <1>3, <1>6
<1>8. NodeInOrder(n)'
  BY <1>2, <1>5, <1>7 DEF NodeInOrder
<1>9. QED
  BY <1>4, <1>8

LEMMA OrderKeptByPopEdge ==
  ASSUME IInv, StoreOK, NodesOK, ListInv, AnswerType, CostsInOrder, PopEdge
  PROVE  CostsInOrder'
<1>0. PICK n : n = Frame.node
  OBVIOUS
<1>1. /\ n \in Nodes /\ phase = "list" /\ stack # <<>> /\ Frame.at = "pop"
      /\ store' = store /\ Nodes' = Nodes /\ nodes'[n].memo = nodes[n].memo
      /\ \A o \in Nodes : o # n => nodes'[o] = nodes[o]
  BY <1>0, EdgePopped
<1>2. PICK f : Popped(n, f)
  BY <1>0, EdgePopped
<1>3. PICK q, t : q = nodes[n].queue /\ t = nodes'[n].queue
  OBVIOUS
<1>4. \/ q = <<>> /\ t = <<>> /\ f.at = "top"
      \/ /\ q # <<>> /\ f.edge = q[1] /\ Len(t) = Len(q) - 1
         /\ \A i \in 1 .. Len(q) - 1 : t[i] = q[i + 1]
  BY <1>2, <1>3 DEF Popped
<1>5. /\ q \in Seq(EdgeType(Nodes, Derivs)) /\ Len(q) \in Nat
      /\ \A i \in 1 .. Len(q) : q[i] \in EdgesOf(n)
      /\ \A e \in EdgesOf(n) : e.deriv \in Derivs
  BY <1>1, <1>3, NodeFacts
<1>6. \A i \in 1 .. Len(t) : t[i] \in EdgesOf(n)
  <2>1. CASE t = <<>>
    <3>1. Len(t) = 0
      BY <2>1
    <3>2. QED
      BY <3>1
  <2>2. CASE Len(t) = Len(q) - 1 /\ \A i \in 1 .. Len(q) - 1 : t[i] = q[i + 1]
    <3>1. \A i \in 1 .. Len(t) : t[i] = q[i + 1] /\ i + 1 \in 1 .. Len(q)
      BY <1>5, <2>2
    <3>2. QED
      BY <1>5, <3>1
  <2>3. QED
    BY <1>4, <2>1, <2>2
<1>7. \A e \in EdgesOf(n)' : e \in EdgesOf(n)
  <2>1. EdgesOf(n)' = {t[i] : i \in 1 .. Len(t)}
    BY <1>3 DEF EdgesOf
  <2>2. QED
    BY <1>6, <2>1
<1>8. NodeInOrder(n) /\ \A d \in Derivs : store'[d] = store[d]
  BY <1>1 DEF CostsInOrder
<1>9. /\ NodeInOrder(n)'
      /\ \A d \in Derivs : NotBefore(n, d) => NotBefore(n, d)'
  BY <1>1, <1>7, <1>8, QueueKeepsOrder
<1>10. HandInOrder(f)'
  <2>1. CASE f.at = "top"
    BY <2>1 DEF HandInOrder, InHandAts
  <2>2. CASE q # <<>> /\ f.edge = q[1]
    <3>1. 1 \in 1 .. Len(q)
      BY <1>5, <2>2, TailFacts
    <3>2. f.edge \in EdgesOf(n)
      BY <1>5, <2>2, <3>1
    <3>3. NotBefore(n, f.edge.deriv) /\ f.edge.deriv \in Derivs
      BY <1>5, <1>8, <3>2 DEF NodeInOrder
    <3>4. PICK d \in Derivs : d = f.edge.deriv
      BY <3>3
    <3>5. NotBefore(n, d)'
      BY <1>9, <3>3, <3>4
    <3>6. f.node = n
      BY <1>2 DEF Popped
    <3>7. QED
      BY <3>4, <3>5, <3>6 DEF HandInOrder
  <2>3. QED
    BY <1>4, <2>1, <2>2
<1>11. stack' = Below \/ \E g : HandInOrder(g)' /\ stack' = Append(Below, g)
  BY <1>2, <1>10 DEF Popped
<1>12. Frame.at # "enter"
  BY <1>1
<1>13. QED
  BY <1>0, <1>1, <1>8, <1>9, <1>11, <1>12, OrderAtTop

(* The derivation with the next one of a child costs no less. *)
LEMMA SuccessorIsWorse ==
  ASSUME StoreOK, NodesOK, \A m \in Nodes : NodeInOrder(m), NEW n \in Nodes, NEW i,
         NEW e, e.deriv \in Derivs, e.kids[i] \in Nodes, e.places[i] \in Nat,
         NEW new, Succeeds(n, i, e, new), NotBefore(n, e.deriv),
         answer = nodes[e.kids[i]].memo[e.places[i] + 2],
         e.places[i] + 2 \in 1 .. Len(nodes[e.kids[i]].memo),
         nodes'[n].memo = nodes[n].memo
  PROVE  NotBefore(n, new.deriv)'
<1>1. PICK k \in Nodes, p \in Nat : k = e.kids[i] /\ p = e.places[i]
  OBVIOUS
<1>2. PICK m, old : m = nodes[k].memo /\ old = m[p + 1]
  OBVIOUS
<1>3. /\ old \in Derivs /\ answer \in Derivs
      /\ store'[new.deriv].cost = store[e.deriv].cost - store[old].cost + store[answer].cost
      /\ \A d \in Derivs : store'[d] = store[d]
  BY <1>1, <1>2 DEF Succeeds
<1>4. answer = m[p + 2] /\ p + 2 \in 1 .. Len(m) /\ p + 1 \in 1 .. Len(m) /\ p + 1 < p + 2
  <2>1. answer = m[p + 2] /\ p + 2 \in 1 .. Len(m)
    BY <1>1, <1>2
  <2>2. Len(m) \in Nat
    BY <1>2, NodeFacts
  <2>3. QED
    BY <2>1, <2>2
<1>5. {old, answer} \cap {NONE, PENDING} = {}
  BY <1>3, DerivFacts
<1>6. store[old].cost <= store[answer].cost
  <2>1. NodeInOrder(k)
    OBVIOUS
  <2>2. \A a, b \in 1 .. Len(m) :
          a < b /\ m[a] \notin {NONE, PENDING} /\ m[b] \notin {NONE, PENDING}
            => store[m[a]].cost <= store[m[b]].cost
    BY <1>2, <2>1 DEF NodeInOrder
  <2>3. QED
    BY <1>2, <1>4, <1>5, <2>2
<1>7. PICK l : l = nodes[n].memo
  OBVIOUS
<1>8. \A a \in 1 .. Len(l) : l[a] \notin {NONE, PENDING} =>
        l[a] \in Derivs /\ store[l[a]].cost <= store[e.deriv].cost
  BY <1>7, KnownIsDeriv DEF NotBefore
<1>9. \A a \in 1 .. Len(l) : l[a] \notin {NONE, PENDING} =>
        store'[l[a]].cost <= store'[new.deriv].cost
  <2>1. TAKE a \in 1 .. Len(l)
  <2>2. HAVE l[a] \notin {NONE, PENDING}
  <2>3. PICK c, x, y, z : /\ c = store[l[a]].cost /\ x = store[e.deriv].cost
                          /\ y = store[old].cost /\ z = store[answer].cost
    OBVIOUS
  <2>4. l[a] \in Derivs /\ c <= x /\ y <= z
    BY <1>6, <1>8, <2>2, <2>3
  <2>5. c \in Int /\ x \in Int /\ y \in Int /\ z \in Int
    BY <1>3, <2>3, <2>4, DerivFacts
  <2>6. store'[l[a]].cost = c /\ store'[new.deriv].cost = x - y + z
    BY <1>3, <2>3, <2>4
  <2>7. c <= x - y + z
    BY <2>4, <2>5
  <2>8. QED
    BY <2>6, <2>7
<1>10. QED
  BY <1>7, <1>9 DEF NotBefore

LEMMA OrderKeptByTakeKid ==
  ASSUME IInv, StoreOK, NodesOK, ListInv, AnswerType, CostsInOrder, TakeKid
  PROVE  CostsInOrder'
<1>0. PICK n, i, edge : /\ n = Frame.node /\ i = (IF Frame.at = "made1" THEN 1 ELSE 2)
                        /\ edge = Frame.edge
  OBVIOUS
<1>1. /\ n \in Nodes /\ phase = "list" /\ stack # <<>> /\ Frame.at \in {"made1", "made2"}
      /\ Nodes' = Nodes /\ nodes'[n].memo = nodes[n].memo
      /\ \A o \in Nodes : o # n => nodes'[o] = nodes[o]
  BY <1>0, KidTaken
<1>2. PICK f : /\ stack' = Append(Below, f) /\ f.node = n /\ f.n = Frame.n /\ f.edge = Frame.edge
               /\ f.at = "top" \/ (f.at = "kid2" /\ i = 1 /\ Frame.edge.places[1] = 0)
  BY <1>0, KidTaken
<1>3. /\ edge.deriv \in Derivs /\ edge.kids[i] \in Nodes /\ edge.places[i] \in Nat
      /\ edge.places[i] + 2 \in 1 .. Len(nodes[edge.kids[i]].memo)
      /\ answer = nodes[edge.kids[i]].memo[edge.places[i] + 2]
  <2>1. /\ Frame.edge.deriv \in Derivs
        /\ Frame.edge.kids[i] \in Nodes /\ Frame.edge.places[i] \in Nat
        /\ IsKnown(Frame.edge.kids[i], Frame.edge.places[i] + 2)
        /\ answer = nodes[Frame.edge.kids[i]].memo[Frame.edge.places[i] + 2]
    BY <1>0, KidAsked
  <2>2. QED
    BY <1>0, <2>1 DEF IsKnown
<1>4. NotBefore(n, edge.deriv)
  <2>1. Len(stack) \in 1 .. Len(stack) /\ Frame = stack[Len(stack)]
    BY <1>1, StackFacts DEF ListInv
  <2>2. HandInOrder(Frame)
    BY <2>1 DEF CostsInOrder
  <2>3. QED
    BY <1>0, <1>1, <2>2 DEF HandInOrder, InHandAts
<1>5. NodeInOrder(n) /\ \A m \in Nodes : NodeInOrder(m)
  BY <1>1 DEF CostsInOrder
<1>6. /\ \A d \in Derivs : store'[d] = store[d]
      /\ \A e \in EdgesOf(n)' : e \in EdgesOf(n) \/ NotBefore(n, e.deriv)'
  <2>1. CASE store' = store /\ nodes' = nodes
    BY <2>1 DEF EdgesOf
  <2>2. ASSUME NEW new, Succeeds(n, i, edge, new)
        PROVE  /\ \A d \in Derivs : store'[d] = store[d]
               /\ \A e \in EdgesOf(n)' : e \in EdgesOf(n) \/ NotBefore(n, e.deriv)'
    <3>1. NotBefore(n, new.deriv)'
      BY <1>1, <1>3, <1>4, <1>5, <2>2, SuccessorIsWorse
    <3>2. PICK q, t : q = nodes[n].queue /\ t = nodes'[n].queue
      OBVIOUS
    <3>3. /\ Len(t) = Len(q) + 1 /\ t[Len(q) + 1] = new
          /\ \A j \in 1 .. Len(q) : t[j] = q[j]
          /\ \A d \in Derivs : store'[d] = store[d]
      BY <2>2, <3>2 DEF Succeeds
    <3>4. Len(q) \in Nat /\ \A j \in 1 .. Len(q) : q[j] \in EdgesOf(n)
      BY <1>1, <3>2, NodeFacts
    <3>5. \A k \in 1 .. Len(t) : k = Len(q) + 1 \/ k \in 1 .. Len(q)
      BY <3>3, <3>4
    <3>6. \A k \in 1 .. Len(t) : t[k] = new \/ t[k] \in EdgesOf(n)
      BY <3>3, <3>4, <3>5
    <3>7. EdgesOf(n)' = {t[k] : k \in 1 .. Len(t)}
      BY <3>2 DEF EdgesOf
    <3>8. \A e \in EdgesOf(n)' : e = new \/ e \in EdgesOf(n)
      BY <3>6, <3>7
    <3>9. QED
      BY <3>1, <3>3, <3>8
  <2>3. (store' = store /\ nodes' = nodes) \/ \E new : Succeeds(n, i, Frame.edge, new)
    BY <1>0, KidTaken
  <2>4. QED
    BY <1>0, <2>1, <2>2, <2>3
<1>7. /\ NodeInOrder(n)'
      /\ \A d \in Derivs : NotBefore(n, d) => NotBefore(n, d)'
  BY <1>1, <1>5, <1>6, QueueKeepsOrder
<1>8. HandInOrder(f)'
  <2>1. PICK d \in Derivs : d = edge.deriv
    BY <1>3
  <2>2. NotBefore(n, d)'
    BY <1>4, <1>7, <2>1
  <2>3. QED
    BY <1>0, <1>2, <2>1, <2>2 DEF HandInOrder
<1>9. stack' = Below \/ \E g : HandInOrder(g)' /\ stack' = Append(Below, g)
  BY <1>2, <1>8
<1>10. Frame.at # "enter"
  BY <1>1
<1>11. QED
  BY <1>0, <1>1, <1>6, <1>7, <1>9, <1>10, OrderAtTop

(* What is found is none, or no worse than what was found before and no better than
   what is left. *)
LEMMA FoundKeepsOrder ==
  ASSUME StoreOK, NodesOK, store' = store, NEW n \in Nodes, NodeInOrder(n),
         NEW a, a = NONE \/ (a \in Derivs /\ NotBefore(n, a) /\
                               \A e \in EdgesOf(n) : store[a].cost <= store[e.deriv].cost),
         Len(nodes'[n].memo) = Len(nodes[n].memo), nodes'[n].memo[Len(nodes[n].memo)] = a,
         \A k \in 1 .. Len(nodes[n].memo) :
           k # Len(nodes[n].memo) => nodes'[n].memo[k] = nodes[n].memo[k],
         \A e \in EdgesOf(n)' : e \in EdgesOf(n)
  PROVE  NodeInOrder(n)'
<1>1. PICK l, m, N : l = nodes[n].memo /\ m = nodes'[n].memo /\ N = Len(l)
  OBVIOUS
<1>2. N \in Nat
  BY <1>1, NodeFacts
<1>3. /\ Len(m) = N /\ m[N] = a
      /\ \A k \in 1 .. N : k # N => m[k] = l[k]
  BY <1>1
<1>4. \A i, j \in 1 .. N :
        i < j /\ l[i] \notin {NONE, PENDING} /\ l[j] \notin {NONE, PENDING}
          => store[l[i]].cost <= store[l[j]].cost
  BY <1>1 DEF NodeInOrder
<1>5. ASSUME NEW d \in Derivs, NotBefore(n, d), a # NONE => store[a].cost <= store[d].cost
      PROVE  NotBefore(n, d)'
  <2>1. \A i \in 1 .. N : l[i] \notin {NONE, PENDING} => store[l[i]].cost <= store[d].cost
    BY <1>1, <1>5 DEF NotBefore
  <2>2. \A i \in 1 .. N : m[i] \notin {NONE, PENDING} => store[m[i]].cost <= store[d].cost
    BY <1>3, <1>5, <2>1
  <2>3. QED
    BY <1>1, <1>3, <2>2 DEF NotBefore
<1>6. \A e \in EdgesOf(n)' : NotBefore(n, e.deriv)'
  <2>1. TAKE e \in EdgesOf(n)'
  <2>2. PICK d \in Derivs : d = e.deriv
    BY NodeFacts
  <2>3. NotBefore(n, d) /\ (a # NONE => store[a].cost <= store[d].cost)
    BY <2>2 DEF NodeInOrder
  <2>4. NotBefore(n, d)'
    BY <1>5, <2>3
  <2>5. QED
    BY <2>2, <2>4
<1>7. ASSUME NEW i \in 1 .. N, NEW j \in 1 .. N, i < j,
             m[i] \notin {NONE, PENDING}, m[j] \notin {NONE, PENDING}
      PROVE  store[m[i]].cost <= store[m[j]].cost
  <2>1. i # N /\ m[i] = l[i]
    BY <1>2, <1>3, <1>7
  <2>2. CASE j = N
    <3>1. m[j] = a /\ NotBefore(n, a)
      BY <1>3, <1>7, <2>2
    <3>2. \A k \in 1 .. N : l[k] \notin {NONE, PENDING} => store[l[k]].cost <= store[a].cost
      BY <1>1, <3>1 DEF NotBefore
    <3>3. QED
      BY <1>7, <2>1, <3>1, <3>2
  <2>3. CASE j # N
    BY <1>3, <1>4, <1>7, <2>1, <2>3
  <2>4. QED
    BY <2>2, <2>3
<1>8. QED
  BY <1>1, <1>3, <1>6, <1>7 DEF NodeInOrder

LEMMA OrderKeptByTakeTop ==
  ASSUME IInv, StoreOK, NodesOK, ListInv, AnswerType, CostsInOrder, TakeTop
  PROVE  CostsInOrder'
<1>0. PICK n : n = Frame.node
  OBVIOUS
<1>1. /\ n \in Nodes /\ phase = "list" /\ stack # <<>> /\ Frame.at = "top"
      /\ store' = store /\ Nodes' = Nodes /\ stack' = Below
      /\ \A o \in Nodes : o # n => nodes'[o] = nodes[o]
      /\ Len(nodes'[n].memo) = Len(nodes[n].memo) /\ nodes'[n].memo[Frame.n + 1] = answer'
      /\ \A k \in 1 .. Len(nodes[n].memo) :
           k # Frame.n + 1 => nodes'[n].memo[k] = nodes[n].memo[k]
      /\ \/ nodes[n].queue = <<>> /\ nodes'[n].queue = <<>> /\ answer' = NONE
         \/ \E j \in 1 .. Len(nodes[n].queue) : CameToFront(n, j)
  BY <1>0, TopMoves
<1>2. Len(nodes[n].memo) = Frame.n + 1
  <2>1. FrameOK(Frame)
    BY <1>0, <1>1, CallStarts
  <2>2. QED
    BY <1>0, <1>1, <2>1 DEF FrameOK
<1>3. NodeInOrder(n)
  BY <1>1 DEF CostsInOrder
<1>4. PICK a : a = answer'
  OBVIOUS
<1>5. /\ \/ a = NONE
         \/ /\ a \in Derivs /\ NotBefore(n, a)
            /\ \A e \in EdgesOf(n) : store[a].cost <= store[e.deriv].cost
      /\ \A e \in EdgesOf(n)' : e \in EdgesOf(n)
  <2>1. CASE nodes'[n].queue = <<>> /\ answer' = NONE
    <3>1. Len(nodes'[n].queue) = 0
      BY <2>1
    <3>2. EdgesOf(n)' = {}
      BY <3>1 DEF EdgesOf
    <3>3. QED
      BY <1>4, <2>1, <3>2
  <2>2. ASSUME NEW j \in 1 .. Len(nodes[n].queue), CameToFront(n, j)
        PROVE  /\ a \in Derivs /\ NotBefore(n, a)
               /\ \A e \in EdgesOf(n) : store[a].cost <= store[e.deriv].cost
               /\ \A e \in EdgesOf(n)' : e \in EdgesOf(n)
    <3>1. PICK q, t : q = nodes[n].queue /\ t = nodes'[n].queue
      OBVIOUS
    <3>2. /\ a = q[j].deriv /\ j \in 1 .. Len(q)
          /\ \A e \in EdgesOf(n) : store[a].cost <= store[e.deriv].cost
          /\ Len(t) = Len(q)
          /\ \A k \in 1 .. Len(q) : t[k] = q[From(j, k)]
      BY <1>4, <2>2, <3>1 DEF CameToFront
    <3>3. /\ Len(q) \in Nat /\ \A k \in 1 .. Len(q) : q[k] \in EdgesOf(n)
          /\ \A e \in EdgesOf(n) : e.deriv \in Derivs
      BY <1>1, <3>1, NodeFacts
    <3>4. a \in Derivs /\ NotBefore(n, a)
      BY <1>3, <3>2, <3>3 DEF NodeInOrder
    <3>5. \A k \in 1 .. Len(q) : From(j, k) \in 1 .. Len(q)
      BY <3>2, <3>3, FromFacts
    <3>6. \A k \in 1 .. Len(t) : t[k] \in EdgesOf(n)
      BY <3>2, <3>3, <3>5
    <3>7. EdgesOf(n)' = {t[k] : k \in 1 .. Len(t)}
      BY <3>1 DEF EdgesOf
    <3>8. QED
      BY <3>2, <3>4, <3>6, <3>7
  <2>3. QED
    BY <1>1, <2>1, <2>2
<1>6. /\ Len(nodes'[n].memo) = Len(nodes[n].memo)
      /\ nodes'[n].memo[Len(nodes[n].memo)] = a
      /\ \A k \in 1 .. Len(nodes[n].memo) :
           k # Len(nodes[n].memo) => nodes'[n].memo[k] = nodes[n].memo[k]
  BY <1>1, <1>2, <1>4
<1>7. NodeInOrder(n)'
  BY <1>1, <1>3, <1>5, <1>6, FoundKeepsOrder
<1>8. Frame.at # "enter" /\ \A d \in Derivs : store'[d] = store[d]
  BY <1>1
<1>9. QED
  BY <1>0, <1>1, <1>7, <1>8, OrderAtTop

LEMMA ListStepKeepsOrder ==
  ASSUME IInv, StoreOK, NodesOK, ListInv, AnswerType, CostsInOrder, ListStep
  PROVE  CostsInOrder'
BY OrderKeptByCalls, OrderKeptByAskForNew, OrderKeptByPopEdge, OrderKeptByAskKid,
   OrderKeptByTakeKid, OrderKeptByTakeTop DEF ListStep

(* That the best is in front at first takes a best tree that no arc would improve. *)
InOrderInv == phase \in ListPhases /\ IsTight => CostsInOrder

LEMMA FixDoneMakesOrder ==
  ASSUME ForestInv, FixDone
  PROVE  InOrderInv'
<1>1. phase = "fix" /\ stack = <<>> /\ UNCHANGED <<hg, mu, pi, store, nodes, stack>>
  BY DEF FixDone, input, result, nbestVars
<1>2. /\ NodesOK /\ StoreOK /\ FrontIsBest
      /\ \A n \in Nodes : HasFirst(n)
  BY <1>1, ForestTypes DEF ForestInv, FirstInv, FixInv, ForestPhases
<1>3. Nodes' = Nodes /\ (IsTight' <=> IsTight)
  BY <1>1, TightIsKept DEF Nodes
<1>4. ASSUME IsTight, NEW n \in Nodes
      PROVE  NodeInOrder(n)
  <2>1. PICK m, d : m = nodes[n].memo /\ d = FrontOf(n)
    OBVIOUS
  <2>2. Len(m) = 1 /\ m[1] = d /\ m # <<>>
    <3>1. m = <<d>>
      BY <1>2, <2>1 DEF HasFirst
    <3>2. QED
      BY <3>1
  <2>3. \A i \in 1 .. Len(m) : i = 1
    BY <2>2
  <2>4. ASSUME NEW e \in EdgesOf(n)
        PROVE  NotBefore(n, e.deriv)
    <3>1. nodes[n].queue # <<>>
      BY <1>2, <2>4, FrontOfFacts
    <3>2. d = nodes[n].queue[1].deriv
      BY <1>2, <2>1, <3>1, FrontOfFacts
    <3>3. store[d].cost <= store[e.deriv].cost
      BY <1>2, <1>4, <2>1, <2>2, <2>4, <3>2 DEF FrontIsBest
    <3>4. QED
      BY <2>1, <2>2, <2>3, <3>3 DEF NotBefore
  <2>5. \A i, j \in 1 .. Len(m) : ~(i < j)
    BY <2>3
  <2>6. QED
    BY <2>1, <2>4, <2>5 DEF NodeInOrder
<1>5. ASSUME IsTight
      PROVE  CostsInOrder
  <2>1. 1 .. Len(stack) = {}
    BY <1>1
  <2>2. QED
    BY <1>4, <1>5, <2>1 DEF CostsInOrder
<1>6. CostsInOrder => CostsInOrder'
  BY <1>1 DEF CostsInOrder, NodeInOrder, NotBefore, HandInOrder, EdgesOf, Nodes
<1>7. QED
  BY <1>3, <1>5, <1>6 DEF InOrderInv

LEMMA NextKeepsOrder ==
  ASSUME ForestInv, InOrderInv, [NbestNext]_allVars
  PROVE  InOrderInv'
<1>1. CASE BestTreeNext /\ UNCHANGED nbestVars
  <2>1. phase' \notin ListPhases
    BY <1>1 DEF BestTreeNext, ChooseAcyclic, RelaxOutArcs, AcyclicDone, ChooseBestFirst, AddAxioms,
                PopBest, ReachArc, SearchDone, ListPhases
  <2>2. QED
    BY <2>1 DEF InOrderInv
<1>2. CASE BuildLazy \/ SortState \/ SortDone \/ FixStep
  <2>1. phase' \in {"sort", "fix"}
    BY <1>2 DEF BuildLazy, SortState, SortDone, FixStep, EnterNode, FixKid, RepairEdge, LeaveNode,
                vars
  <2>2. QED
    BY <2>1 DEF InOrderInv, ListPhases
<1>3. CASE FixDone
  BY <1>3, FixDoneMakesOrder
<1>4. CASE ListStep
  <2>1. /\ UNCHANGED <<input, result, order, isMarkedAcyclic, search>>
        /\ phase = "list" /\ phase \in ForestPhases /\ phase \in ListPhases
    BY <1>4, ListStepFrame DEF ForestPhases, ListPhases
  <2>2. StoreOK /\ NodesOK
    BY <2>1, ForestTypes
  <2>3. IInv /\ ListInv /\ AnswerType
    BY DEF ForestInv
  <2>4. IsTight' <=> IsTight
    BY <2>1, TightIsKept DEF input, result
  <2>5. CostsInOrder => CostsInOrder'
    BY <1>4, <2>2, <2>3, ListStepKeepsOrder
  <2>6. QED
    BY <2>1, <2>4, <2>5 DEF InOrderInv
<1>5. CASE UNCHANGED allVars
  <2>1. UNCHANGED <<hg, mu, pi, phase, store, nodes, stack>>
    BY <1>5 DEF allVars, vars, input, result, nbestVars
  <2>2. IsTight' <=> IsTight
    BY <2>1, TightIsKept
  <2>3. CostsInOrder => CostsInOrder'
    BY <2>1 DEF CostsInOrder, NodeInOrder, NotBefore, HandInOrder, EdgesOf, Nodes
  <2>4. QED
    BY <2>1, <2>2, <2>3 DEF InOrderInv
<1>6. QED
  BY <1>1, <1>2, <1>3, <1>4, <1>5, NextKinds

LEMMA OrderInvariance == NbestSpec => [](ForestInv /\ InOrderInv)
<1>1. NbestInit => InOrderInv
  BY DEF NbestInit, Init, InOrderInv, ListPhases
<1>2. ForestInv /\ InOrderInv /\ [NbestNext]_allVars => (ForestInv /\ InOrderInv)'
  BY NextKeepsForestInv, NextKeepsOrder
<1>3. QED
  BY <1>1, <1>2, InitIsForestInv, PTL DEF NbestSpec

(* When the best tree is one that no arc would improve, no node lists a worse
   derivation before a better one, whatever the costs and however the calls of
   get_best nest: the successors of an edge, queued when it leaves the queue, cost
   no less than it does, for the children's derivations too come in order.
   (lazy_forest_kbest.hpp, next_best, generate_successor_hyperedge, make_worse) *)
THEOREM MemosAreInOrder == NbestSpec => []MemoIsSorted
<1>1. ASSUME ForestInv, InOrderInv
      PROVE  MemoIsSorted
  <2>1. CASE phase \in TreePhases
    <3>1. DOMAIN nodes = {}
      BY <1>1, <2>1 DEF ForestInv, NoForestYet
    <3>2. QED
      BY <3>1 DEF MemoIsSorted
  <2>2. CASE phase \notin TreePhases
    <3>1. StoreOK /\ NodesOK
      BY <1>1, <2>2 DEF ForestInv, ForestTypeInv
    <3>2. SUFFICES ASSUME IsTight, NEW n \in Nodes, NEW i \in DOMAIN nodes[n].memo,
                          NEW j \in DOMAIN nodes[n].memo, i < j,
                          nodes[n].memo[i] \in Derivs, nodes[n].memo[j] \in Derivs
                   PROVE  store[nodes[n].memo[i]].cost <= store[nodes[n].memo[j]].cost
      BY DEF MemoIsSorted, Nodes, Derivs
    <3>3. i \in 1 .. Len(nodes[n].memo) /\ j \in 1 .. Len(nodes[n].memo)
      BY <3>1, <3>2, NodeFacts
    <3>4. CASE phase \in {"sort", "fix"}
      <4>1. HasFirst(n) \/ nodes[n].memo = <<>>
        BY <1>1, <3>4 DEF ForestInv, SortInv, FixInv
      <4>2. Len(<<FrontOf(n)>>) = 1 /\ Len(<<>>) = 0
        BY EmptySeq
      <4>3. Len(nodes[n].memo) = 1 \/ Len(nodes[n].memo) = 0
        BY <4>1, <4>2 DEF HasFirst
      <4>4. FALSE
        BY <3>2, <3>3, <4>3
      <4>5. QED
        BY <4>4
    <3>5. CASE phase \in ListPhases
      <4>1. NodeInOrder(n)
        BY <1>1, <3>2, <3>5 DEF InOrderInv, CostsInOrder
      <4>2. nodes[n].memo[i] \notin {NONE, PENDING} /\ nodes[n].memo[j] \notin {NONE, PENDING}
        BY <3>1, <3>2, DerivFacts
      <4>3. QED
        BY <3>2, <3>3, <4>1, <4>2 DEF NodeInOrder
    <3>6. phase \in TreePhases \cup {"sort", "fix"} \cup ListPhases
      BY <1>1 DEF ForestInv, IInv, BestTreeTypeOK, TreePhases, ListPhases
    <3>7. QED
      BY <2>2, <3>4, <3>5, <3>6
  <2>3. QED
    BY <2>1, <2>2
<1>2. QED
  BY <1>1, OrderInvariance, PTL
=============================================================================
