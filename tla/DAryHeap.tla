------------------------------ MODULE DAryHeap ------------------------------
(* graehl/shared/d_ary_heap.hpp: d_ary_heap_indirect, the priority queue of
   the best path searches.  The heap holds keys only: their distances are in a
   map of the caller's, which may change a distance between two calls, and a
   second map says at which place of the heap each key is, so that a key whose
   distance has improved can be moved up.  Places are counted from 0, as in the
   source. *)
EXTENDS Integers, Sequences, FiniteSets

CONSTANT
  Arity      \* children of a node of the heap

ASSUME ArityAssumption == Arity \in Nat \ {0, 1}

(* The map of places is created with 0 everywhere, which is also the place of
   the top. *)
EmptyHeap(keys) == [data |-> <<>>, loc |-> [k \in keys |-> 0]]

Size(heap) == Len(heap.data)
Places(heap) == 0 .. Size(heap) - 1
KeyAt(heap, i) == heap.data[i + 1]
Top(heap) == KeyAt(heap, 0)
KeysOf(heap) == {KeyAt(heap, i) : i \in Places(heap)}

(* contains, which believes the map of places *)
HasKey(heap, key) ==
  /\ heap.loc[key] \in 0 .. Size(heap) - 1
  /\ KeyAt(heap, heap.loc[key]) = key

(* The subtraction is unsigned: Parent(0) is not a place. *)
Parent(i) == (IF i = 0 THEN 2^32 - 1 ELSE i - 1) \div Arity
Children(heap, i) == ((i * Arity) + 1 .. (i * Arity) + Arity) \cap 0 .. Size(heap) - 1

Put(heap, i, key) ==
  [data |-> [heap.data EXCEPT ![i + 1] = key], loc |-> [heap.loc EXCEPT ![key] = i]]

(* The loops below go from one heap with a hole, [heap, place of the hole], to
   the next. *)
HeapsLike(heap) ==
  [data : [DOMAIN heap.data -> DOMAIN heap.loc], loc : [DOMAIN heap.loc -> Int]]
WithHole(heap) == HeapsLike(heap) \X (0 .. Size(heap) - 1)

(* The first of the children with the least distance *)
BestChild(heap, i, dist) ==
  CHOOSE c \in Children(heap, i) :
    \A d \in Children(heap, i) :
      \/ dist[KeyAt(heap, c)] < dist[KeyAt(heap, d)]
      \/ dist[KeyAt(heap, c)] = dist[KeyAt(heap, d)] /\ c <= d

(* preserve_heap_property_up: a hole at place i moves up, past the keys that
   are worse than the key that fills it. *)
Up(heap, key, i, dist) ==
  LET IsWorse(at) == at[2] > 0 /\ dist[key] < dist[KeyAt(at[1], Parent(at[2]))]
      up[at \in WithHole(heap)] ==
        IF IsWorse(at)
          THEN up[<<Put(at[1], at[2], KeyAt(at[1], Parent(at[2]))), Parent(at[2])>>]
          ELSE Put(at[1], at[2], key)
  IN  up[<<heap, i>>]

(* preserve_heap_property_down: the hole moves down to the best child while
   that is better than the key that fills it. *)
Down(heap, key, i, dist) ==
  LET IsBetter(at) == \E c \in Children(at[1], at[2]) : dist[KeyAt(at[1], c)] < dist[key]
      Best(at) == BestChild(at[1], at[2], dist)
      down[at \in WithHole(heap)] ==
        IF IsBetter(at)
          THEN down[<<Put(at[1], at[2], KeyAt(at[1], Best(at))), Best(at)>>]
          ELSE Put(at[1], at[2], key)
  IN  down[<<heap, i>>]

AddUnsorted(heap, key) ==
  [data |-> Append(heap.data, key), loc |-> [heap.loc EXCEPT ![key] = Size(heap)]]

(* heapify, for a heap that is not empty: it goes down to place 0 from the
   place before Parent(Size(heap)). *)
Heapify(heap, dist) ==
  LET first == Parent(Size(heap))
      sifted[i \in 0 .. first] ==
        IF i = first THEN heap ELSE Down(sifted[i + 1], KeyAt(sifted[i + 1], i), i, dist)
  IN  sifted[0]

Push(heap, key, dist) ==
  Up([heap EXCEPT !.data = Append(@, key)], key, Size(heap), dist)

PushOrUpdate(heap, key, dist) ==
  IF HasKey(heap, key) THEN Up(heap, key, heap.loc[key], dist)
                         ELSE Push(heap, key, dist)

(* swap_heap_elements for place i and the top: its references are to places, not
   to keys, so that it gives each of the two keys the place the key had before
   they were swapped. *)
Swapped(heap, i) ==
  [data |-> [heap.data EXCEPT ![1] = KeyAt(heap, i), ![i + 1] = Top(heap)],
   loc |-> [heap.loc EXCEPT ![KeyAt(heap, i)] = i, ![Top(heap)] = 0]]

(* preserve_heap_property_down() for the top: a heap in which all other keys are
   children of the top swaps, a larger one sifts. *)
DownFromTop(heap, dist) ==
  LET best == BestChild(heap, 0, dist)
  IN  IF \A c \in Children(heap, 0) : dist[KeyAt(heap, c)] >= dist[Top(heap)] THEN heap
      ELSE IF Size(heap) > Arity
        THEN Down(Put(heap, 0, KeyAt(heap, best)), Top(heap), best, dist)
      ELSE Swapped(heap, best)

(* The last key moves to the top and from there down.  The place of the key
   that leaves is not reset. *)
WithoutLast(heap) == [heap EXCEPT !.data = SubSeq(@, 1, Size(heap) - 1)]
PopWithoutSift(heap, dist) ==                                       \* mutant
  IF Size(heap) = 1 THEN WithoutLast(heap)
  ELSE Put(WithoutLast(heap), 0, KeyAt(heap, Size(heap) - 1))
Pop(heap, dist) ==
  IF Size(heap) = 1 THEN WithoutLast(heap)
  ELSE DownFromTop(Put(WithoutLast(heap), 0, KeyAt(heap, Size(heap) - 1)), dist)

(* The distance of the top has become worse. *)
AdjustTop(heap, dist) == DownFromTop(heap, dist)

-----------------------------------------------------------------------------
(* What the heap promises *)

(* verify_heap: no key is better than its parent, and every key is where its
   place says. *)
IsHeap(heap, dist) ==
  \A i \in 1 .. Size(heap) - 1 : dist[KeyAt(heap, Parent(i))] <= dist[KeyAt(heap, i)]
PlacesAgree(heap) ==
  \A i \in Places(heap) : heap.loc[KeyAt(heap, i)] = i

(* What is left of the second promise: no key is queued twice. *)
KeysDiffer(heap) ==
  \A i, j \in Places(heap) : KeyAt(heap, i) = KeyAt(heap, j) => i = j
=============================================================================
