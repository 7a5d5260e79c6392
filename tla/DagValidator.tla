---------------------------- MODULE DagValidator ----------------------------
(***************************************************************************)
(* validateDAG (src/src/registry/dag-validator.ts): Kahn's algorithm on    *)
(* the skills, in the order they were registered in.  keys is that order   *)
(* and g the map; SkillRegistry!IsDag says without the algorithm what it   *)
(* decides.  The loop over the neighbours of a node is given by what it    *)
(* does: every neighbour is one edge nearer to 0 for each time it names    *)
(* the node, and those that arrive there are queued in the order of keys,  *)
(* which is the order they are listed in.                                  *)
(***************************************************************************)
EXTENDS SkillRegistry, FiniteSets

Deps(g, n) == g[n].dependencies

\* The loop that comes first: a dependency nobody registered, or a skill that
\* depends on itself.
BadEdge(g) == \E n \in DOMAIN g : \E i \in DOMAIN Deps(g, n) :
                Deps(g, n)[i] \notin DOMAIN g \/ Deps(g, n)[i] = n

\* inDegree counts dependencies; adjacency lists m under n as often as m names n.
InDegree(g) == [n \in DOMAIN g |-> Len(Deps(g, n))]
Links(g, n, m) == Cardinality({i \in DOMAIN Deps(g, m) : Deps(g, m)[i] = n})

\* The members of S in the order of keys.
InKeyOrder(keys, S) ==
  LET at == {k \in DOMAIN keys : keys[k] \in S}
  IN  [j \in 1..Cardinality(at) |->
         keys[CHOOSE k \in at : Cardinality({l \in at : l < k}) = j - 1]]

Start(keys, g) ==
  [inDegree |-> InDegree(g), sorted |-> <<>>,
   queue |-> InKeyOrder(keys, {n \in DOMAIN g : Deps(g, n) = <<>>})]

\* Mutant of Freed: a neighbour is queued while one dependency is still open.
Freed_OneTooEarly(g, st, n) == {m \in DOMAIN g : st.inDegree[m] - 1 \in 1..Links(g, n, m)}

\* The neighbours of n whose newDegree gets to 0.
Freed(g, st, n) == {m \in DOMAIN g : st.inDegree[m] \in 1..Links(g, n, m)}

\* One turn of the while loop, if there is one more.
Turn(keys, g, st) ==
  LET n == Head(st.queue)
  IN  IF st.queue = <<>>
        THEN st
        ELSE [inDegree |-> [m \in DOMAIN g |-> st.inDegree[m] - Links(g, n, m)],
              sorted |-> Append(st.sorted, n),
              queue |-> Tail(st.queue) \o InKeyOrder(keys, Freed(g, st, n))]

\* The state after so many turns.  As many as there are skills end the loop:
\* ValidatorDecides asks for that too.
After(keys, g) ==
  LET after[k \in Nat] ==
        IF k = 0 THEN Start(keys, g) ELSE Turn(keys, g, after[k - 1])
  IN  after
End(keys, g) == After(keys, g)[Len(keys)]

\* validateDAG throws, or returns the sorted names.
Throws(keys, g) == BadEdge(g) \/ Len(End(keys, g).sorted) # Len(keys)

-----------------------------------------------------------------------------
(* Properties *)

\* The orders in which the skills of g can have been registered.
Orders(g) == {keys \in [1..Cardinality(DOMAIN g) -> DOMAIN g] :
                \A i, j \in DOMAIN keys : i # j => keys[i] # keys[j]}

TopologicalOrder(g, s) ==
  /\ {s[i] : i \in DOMAIN s} = DOMAIN g
  /\ \A i, j \in DOMAIN s : i # j => s[i] # s[j]
  /\ \A j \in DOMAIN s : DependsOn(g[s[j]]) \subseteq {s[i] : i \in 1..(j - 1)}

\* Whatever is offered to the registry, in whatever order it was filled,
\* validateDAG comes to an end, lets exactly the acyclic graphs without missing
\* dependencies pass, and what it returns then is a topological order.
ValidatorDecides ==
  \A d \in Offered :
    LET g == With(skills, d.name, d)
    IN  \A keys \in Orders(g) :
          /\ ~BadEdge(g) => End(keys, g).queue = <<>>
          /\ Throws(keys, g) <=> ~IsDag(g)
          /\ ~Throws(keys, g) => TopologicalOrder(g, End(keys, g).sorted)
=============================================================================
