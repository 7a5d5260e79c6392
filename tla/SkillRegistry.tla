---------------------------- MODULE SkillRegistry ----------------------------
(***************************************************************************)
(* The skill registry (src/src/registry/skill-registry.ts): the active     *)
(* definition of every skill, the versions kept beside it, and the         *)
(* dependency graph that register and registerVersion validate after the   *)
(* change, which they undo if the graph is not a DAG.                      *)
(*                                                                         *)
(* What validateDAG decides is stated here without its algorithm (IsDag);  *)
(* DagValidator has the algorithm.                                         *)
(***************************************************************************)
EXTENDS Naturals, Sequences

CONSTANTS Names,    \* names of skills
          Versions, \* version strings
          Offered   \* definitions callers may try to register

Definition == [name : Names, version : Versions, dependencies : Seq(Names)]

ASSUME OfferedDefinitions == Offered \subseteq Definition

VARIABLES skills,   \* the active definition of each registered skill
          versions  \* per skill, the definitions stored under their version

vars == <<skills, versions>>

DependsOn(d) == {d.dependencies[i] : i \in DOMAIN d.dependencies}

TypeOK ==
  /\ DOMAIN skills \subseteq Names
  /\ \A n \in DOMAIN skills : skills[n] \in Offered /\ skills[n].name = n
  /\ DOMAIN versions \subseteq Names
  /\ \A n \in DOMAIN versions : \A v \in DOMAIN versions[n] :
       versions[n][v] \in Offered /\ versions[n][v].name = n /\ versions[n][v].version = v

Init == skills = <<>> /\ versions = <<>>

-----------------------------------------------------------------------------
(* The dependency graph *)

\* Every dependency is registered.
Closed(g) == \A n \in DOMAIN g : DependsOn(g[n]) \subseteq DOMAIN g

\* There is no set of skills each of which depends on one of the set.
Acyclic(g) == ~ \E S \in SUBSET DOMAIN g :
  S # {} /\ \A n \in S : DependsOn(g[n]) \cap S # {}

\* validateDAG(g) does not throw.
IsDag(g) == Closed(g) /\ Acyclic(g)

\* Map.set and Map.delete.
With(g, n, d) == [m \in DOMAIN g \cup {n} |-> IF m = n THEN d ELSE g[m]]
Without(g, n) == [m \in DOMAIN g \ {n} |-> g[m]]

-----------------------------------------------------------------------------
(* Operations *)

VersionsOf(n) == IF n \in DOMAIN versions THEN versions[n] ELSE <<>>

Store(d) == versions' = With(versions, d.name, With(VersionsOf(d.name), d.version, d))

\* Mutant of Register: it replaces the version table of the skill by the name.
Register_StoredByName(d) ==
  /\ d.name \notin DOMAIN skills
  /\ IsDag(With(skills, d.name, d))
  /\ skills' = With(skills, d.name, d)
  /\ versions' = With(versions, d.name, With(<<>>, d.name, d))

\* register throws for a name that is taken, and, having undone its change,
\* for a definition that would break the graph.
Register(d) ==
  /\ d.name \notin DOMAIN skills
  /\ IsDag(With(skills, d.name, d))
  /\ skills' = With(skills, d.name, d)
  /\ Store(d)

\* Mutant of RegisterVersion: a rejected version stays in the version table.
RegisterVersion_StoresFirst(d) ==
  /\ d.name \in DOMAIN skills => skills[d.name].version # d.version
  /\ skills' = IF IsDag(With(skills, d.name, d)) THEN With(skills, d.name, d)
                                                 ELSE skills
  /\ Store(d)

\* registerVersion replaces the active definition; the others stay stored.
RegisterVersion(d) ==
  /\ d.name \in DOMAIN skills => skills[d.name].version # d.version
  /\ IsDag(With(skills, d.name, d))
  /\ skills' = With(skills, d.name, d)
  /\ Store(d)

\* switchVersion makes a stored version active.  It does not validate.
SwitchVersion(n, v) ==
  /\ n \in DOMAIN versions
  /\ v \in DOMAIN versions[n]
  /\ skills' = With(skills, n, versions[n][v])
  /\ UNCHANGED versions

Dependents(n) == {m \in DOMAIN skills : n \in DependsOn(skills[m])}

\* Mutant of Unregister: it does not ask who depends on the skill.
Unregister_DependentsIgnored(n) ==
  /\ n \in DOMAIN skills
  /\ skills' = Without(skills, n)
  /\ versions' = Without(versions, n)

\* unregister throws for a skill that others depend on.
Unregister(n) ==
  /\ n \in DOMAIN skills
  /\ Dependents(n) = {}
  /\ skills' = Without(skills, n)
  /\ versions' = Without(versions, n)

Next ==
  \/ \E d \in Offered : Register(d) \/ RegisterVersion(d)
  \/ \E n \in Names : Unregister(n)
  \/ \E n \in Names, v \in Versions : SwitchVersion(n, v)

Spec == Init /\ [][Next]_vars

-----------------------------------------------------------------------------
(* Properties *)

\* A version can be switched to exactly while its skill is registered: what is
\* active is stored, an unregistered skill has left no version behind, and a
\* registration that was undone none either.
VersionsFollowSkills ==
  /\ DOMAIN versions = DOMAIN skills
  /\ \A n \in DOMAIN skills :
       /\ skills[n].version \in DOMAIN versions[n]
       /\ versions[n][skills[n].version] = skills[n]

\* The engine may follow dependencies without end or into nothing only after a
\* switchVersion: no other operation, accepted or undone, breaks a sound graph.
OnlySwitchBreaksGraph ==
  [][IsDag(skills) /\ ~IsDag(skills') =>
       \E n \in Names, v \in Versions : SwitchVersion(n, v)]_vars
=============================================================================
