----------------------------- MODULE FstCompose -----------------------------
(* The lazy composition of two finite state transducers, Hypergraph/fs/Compose.hpp.
   A transducer that is composed is a record
     start, final   its states
     arcs           a function from states to sequences of arcs
                    [in, out, cost, dst], in the order outArcs visits them
   A composition c is a record
     input, match   the transducers
     filter         "none", "first" or "combine", the epsilon filter:
                    NoEpsilonFilter, Epsilon1First or EpsilonCombine
   Its states are [input, filter, match], and nothing of it is stored: OutArcs
   computes the arcs out of a state. *)
EXTENDS Fst, FlattenGenerators, SequencesExt, TLC

Sigma == "<sigma>"      \* matches any symbol
Rho == "<rho>"          \* matches a symbol that no arc names
Phi == "<phi>"          \* taken, without input, when no other arc matches

(* forceBestFirstArcs; for the arcs of a match transducer it is the order
   within the arcs of one label *)
BestFirst(fst) ==
  [fst EXCEPT !.arcs = [s \in DOMAIN @ |-> SortSeq(@[s], LAMBDA a, b : a.cost < b.cost)]]

-----------------------------------------------------------------------------
(* The filters, and the state of the filter after each kind of step *)

Normal == 0
AllowInputEpsilon(c, f) == c.filter = "combine" => f # 1
AllowMatchEpsilonAlways(c, f) == TRUE                                 \* mutant
AllowMatchEpsilon(c, f) ==
  CASE c.filter = "none" -> TRUE
    [] c.filter = "first" -> f = 0
    [] c.filter = "combine" -> f # 2
AllowInputMatchEpsilon(c, f) == c.filter = "combine" /\ f = 0
AfterInputEpsilon(c, f) ==
  CASE c.filter = "none" -> f
    [] c.filter = "first" -> 1
    [] c.filter = "combine" -> 2
AfterMatchEpsilon(c, f) == IF c.filter = "combine" THEN 1 ELSE f

StartState(c) == [input |-> c.input.start, filter |-> Normal, match |-> c.match.start]
IsFinal(c, s) == s.input = c.input.final /\ s.match = c.match.final

-----------------------------------------------------------------------------
(* ArcsGen: the arcs one generator yields *)

(* The arcs of the match transducer with the label *)
MatchArcs(c, s, label) ==
  LET arcs == c.match.arcs[s.match]
      matching[n \in 0 .. Len(arcs)] ==
        IF n = 0 THEN <<>>
        ELSE IF arcs[n].in = label THEN Append(matching[n - 1], arcs[n]) ELSE matching[n - 1]
  IN  matching[Len(arcs)]

(* An arc of the match transducer that consumes nothing *)
MatchOnly(c, s, label) ==
  [i \in DOMAIN MatchArcs(c, s, label) |->
     LET m == MatchArcs(c, s, label)[i]
     IN  [in |-> Epsilon, out |-> IF m.out = Phi THEN Epsilon ELSE m.out, cost |-> m.cost,
          dst |-> [input |-> s.input, filter |-> AfterMatchEpsilon(c, s.filter), match |-> m.dst]]]

(* An input arc that says nothing: together with each epsilon arc of the match
   transducer if the filter combines them, and alone *)
InputEpsilon(c, s, a) ==
  LET both == [i \in DOMAIN MatchArcs(c, s, Epsilon) |->
                 LET m == MatchArcs(c, s, Epsilon)[i]
                 IN  [in |-> a.in, out |-> m.out, cost |-> a.cost + m.cost,
                      dst |-> [input |-> a.dst, filter |-> s.filter, match |-> m.dst]]]
      alone == [in |-> a.in, out |-> Epsilon, cost |-> a.cost,
                dst |-> [input |-> a.dst, filter |-> AfterInputEpsilon(c, s.filter),
                         match |-> s.match]]
  IN  (IF AllowInputMatchEpsilon(c, s.filter) THEN both ELSE <<>>)
      \o (IF AllowInputEpsilon(c, s.filter) THEN <<alone>> ELSE <<>>)

(* An input arc with a symbol: the arcs that match the symbol itself, or else
   rho, and then those that match sigma *)
MatchesWithoutRho(c, s, symbol) ==                                    \* mutant
  MatchArcs(c, s, symbol) \o MatchArcs(c, s, Sigma)
Matches(c, s, symbol) ==
  LET standard == MatchArcs(c, s, symbol)
  IN  (IF standard # <<>> THEN standard ELSE MatchArcs(c, s, Rho)) \o MatchArcs(c, s, Sigma)

InputSymbol(c, s, a) ==
  [i \in DOMAIN Matches(c, s, a.out) |->
     LET m == Matches(c, s, a.out)[i]
     IN  [in |-> a.in, out |-> IF m.in = m.out THEN a.out ELSE m.out, cost |-> a.cost + m.cost,
          dst |-> [input |-> a.dst, filter |-> Normal, match |-> m.dst]]]

(* ArcsGenGen: the generators of the arcs out of a state, in their order *)
Generators(c, s) ==
  LET inArcs == c.input.arcs[s.input]
      anyStandardMatch ==
        \E i \in DOMAIN inArcs : /\ inArcs[i].out # Epsilon
                                 /\ MatchArcs(c, s, inArcs[i].out) # <<>>
  IN  (IF AllowMatchEpsilon(c, s.filter) THEN <<MatchOnly(c, s, Epsilon)>> ELSE <<>>)
      \o [i \in DOMAIN inArcs |-> IF inArcs[i].out = Epsilon THEN InputEpsilon(c, s, inArcs[i])
                                                          ELSE InputSymbol(c, s, inArcs[i])]
      \o (IF AllowMatchEpsilon(c, s.filter) /\ ~anyStandardMatch
            THEN <<MatchOnly(c, s, Phi)>> ELSE <<>>)

-----------------------------------------------------------------------------
(* The composition itself *)

OutArcs(c, s) == Flatten(Generators(c, s))

ComposedStates(c) ==
  [input : DOMAIN c.input.arcs, filter : 0 .. 2, match : DOMAIN c.match.arcs]

(* composeWithEpsilonFilter sorts the arcs of the input for the search only. *)
Prepared(c, opt) ==
  [c EXCEPT !.match = BestFirst(@),
            !.input = IF opt.sortBestFirst /\ opt.lazy THEN BestFirst(@) ELSE @]

(* The composition as the templates see it; "of" is for the properties. *)
Composed(c) ==
  [states |-> ComposedStates(c), start |-> StartState(c),
   finals |-> {s \in ComposedStates(c) : IsFinal(c, s)},
   arcs |-> [s \in ComposedStates(c) |-> OutArcs(c, s)], of |-> c]
=============================================================================
