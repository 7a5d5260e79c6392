------------------------- MODULE SkillRegistryProofs -------------------------
(***************************************************************************)
(* What SkillRegistry and DagValidator promise, for any set of names,      *)
(* versions and offered definitions: the registry's types, that versions   *)
(* follow the active skills, that nothing but switchVersion can make its   *)
(* graph unsound, and that the loop of validateDAG decides what IsDag says.*)
(***************************************************************************)
EXTENDS DagValidator, SequenceTheorems, FiniteSetTheorems, TLAPS

(* Map.delete. *)
LEMMA WithoutDomain ==
  ASSUME NEW g, NEW n
  PROVE  /\ DOMAIN Without(g, n) = DOMAIN g \ {n}
         /\ \A m \in DOMAIN g : m # n => Without(g, n)[m] = g[m]
BY DEF Without

(* Removing a skill that no other depends on leaves a sound graph sound: this
   is what unregister relies on, since it does not validate the graph. *)
LEMMA RemovalKeepsDag ==
  ASSUME NEW g, NEW x, IsDag(g),
         \A n \in DOMAIN g : x \notin DependsOn(g[n])
  PROVE  IsDag(Without(g, x))
<1> DEFINE h == Without(g, x)
<1>1. DOMAIN h = DOMAIN g \ {x} /\ \A m \in DOMAIN h : h[m] = g[m]
  BY ZenonT(60), WithoutDomain
<1>2. Closed(h)
  <2> SUFFICES ASSUME NEW n \in DOMAIN h
               PROVE  DependsOn(h[n]) \subseteq DOMAIN h
    BY DEF Closed
  <2>1. h[n] = g[n] /\ n \in DOMAIN g
    BY <1>1
  <2>2. DependsOn(g[n]) \subseteq DOMAIN g
    BY <2>1 DEF IsDag, Closed
  <2> QED BY <1>1, <2>1, <2>2
<1>3. Acyclic(h)
  <2> SUFFICES ASSUME NEW S \in SUBSET DOMAIN h, S # {},
                      \A n \in S : DependsOn(h[n]) \cap S # {}
               PROVE  FALSE
    BY DEF Acyclic
  <2>1. S \in SUBSET DOMAIN g
    BY <1>1
  <2>2. \A n \in S : h[n] = g[n]
    BY <1>1
  <2>3. \A n \in S : DependsOn(g[n]) \cap S # {}
    BY <2>2
  <2> QED BY <2>1, <2>3 DEF IsDag, Acyclic
<1> QED BY <1>2, <1>3 DEF IsDag

-----------------------------------------------------------------------------
(* Registering, in either way, stores d under its version and leaves the other
   definitions where they are. *)
LEMMA StoreVersions ==
  ASSUME NEW d, Store(d)
  PROVE  /\ DOMAIN versions' = DOMAIN versions \cup {d.name}
         /\ DOMAIN versions'[d.name] = DOMAIN VersionsOf(d.name) \cup {d.version}
         /\ versions'[d.name][d.version] = d
         /\ \A v \in DOMAIN VersionsOf(d.name) :
              v # d.version => versions'[d.name][v] = VersionsOf(d.name)[v]
         /\ \A n \in DOMAIN versions : n # d.name => versions'[n] = versions[n]
<1> DEFINE table == With(VersionsOf(d.name), d.version, d)
<1>1. versions' = With(versions, d.name, table)
  BY DEF Store
<1>2. /\ DOMAIN With(versions, d.name, table) = DOMAIN versions \cup {d.name}
      /\ With(versions, d.name, table)[d.name] = table
      /\ \A m \in DOMAIN versions : m # d.name =>
           With(versions, d.name, table)[m] = versions[m]
  <2> HIDE DEF table
  <2> QED BY DEF With
<1>3. /\ DOMAIN table = DOMAIN VersionsOf(d.name) \cup {d.version}
      /\ table[d.version] = d
      /\ \A v \in DOMAIN VersionsOf(d.name) :
           v # d.version => table[v] = VersionsOf(d.name)[v]
  BY DEF With
<1> HIDE DEF table
<1> QED BY <1>1, <1>2, <1>3

(* Both ways of registering d keep the types. *)
LEMMA StoringKeepsTypes ==
  ASSUME TypeOK, NEW d \in Offered, skills' = With(skills, d.name, d), Store(d)
  PROVE  TypeOK'
<1>0. /\ DOMAIN versions' = DOMAIN versions \cup {d.name}
      /\ versions'[d.name][d.version] = d
      /\ \A v \in DOMAIN versions'[d.name] : v # d.version =>
           /\ v \in DOMAIN VersionsOf(d.name)
           /\ versions'[d.name][v] = VersionsOf(d.name)[v]
      /\ \A n \in DOMAIN versions : n # d.name => versions'[n] = versions[n]
  BY StoreVersions
<1>1. d.name \in Names
  BY OfferedDefinitions DEF Definition
<1>2. /\ DOMAIN skills' = DOMAIN skills \cup {d.name}
      /\ skills'[d.name] = d
      /\ \A m \in DOMAIN skills : m # d.name => skills'[m] = skills[m]
  <2>1. /\ DOMAIN With(skills, d.name, d) = DOMAIN skills \cup {d.name}
        /\ With(skills, d.name, d)[d.name] = d
        /\ \A m \in DOMAIN skills : m # d.name => With(skills, d.name, d)[m] = skills[m]
    BY DEF With
  <2> QED BY <2>1
<1>3. DOMAIN skills' \subseteq Names
  BY <1>1, <1>2 DEF TypeOK
<1>4. ASSUME NEW n \in DOMAIN skills'
      PROVE  skills'[n] \in Offered /\ skills'[n].name = n
  <2>1. CASE n = d.name
    BY <1>2, <2>1
  <2>2. CASE n # d.name
    BY <1>2, <2>2 DEF TypeOK
  <2> QED BY <2>1, <2>2
<1>5. DOMAIN versions' \subseteq Names
  BY <1>1, <1>0 DEF TypeOK
<1>6. ASSUME NEW n \in DOMAIN versions', NEW v \in DOMAIN versions'[n]
      PROVE  /\ versions'[n][v] \in Offered
             /\ versions'[n][v].name = n
             /\ versions'[n][v].version = v
  <2>1. CASE n # d.name
    <3>1. n \in DOMAIN versions /\ versions'[n] = versions[n]
      BY <2>1, <1>0
    <3> QED BY <3>1 DEF TypeOK
  <2>2. CASE n = d.name /\ v = d.version
    <3>1. versions'[n][v] = d
      BY <2>2, <1>0
    <3> QED BY <2>2, <3>1
  <2>3. CASE n = d.name /\ v # d.version
    <3>1. v \in DOMAIN VersionsOf(n) /\ versions'[n][v] = VersionsOf(n)[v]
      BY <2>3, <1>0
    <3>2. n \in DOMAIN versions /\ VersionsOf(n) = versions[n]
      BY <3>1 DEF VersionsOf
    <3> QED BY <3>1, <3>2 DEF TypeOK
  <2> QED BY <2>1, <2>2, <2>3
<1> QED BY <1>3, <1>4, <1>5, <1>6 DEF TypeOK

(* What unregister leaves of the two maps. *)
LEMMA UnregisterMaps ==
  ASSUME NEW n, Unregister(n)
  PROVE  /\ DOMAIN skills' = DOMAIN skills \ {n}
         /\ \A m \in DOMAIN skills' : skills'[m] = skills[m]
         /\ DOMAIN versions' = DOMAIN versions \ {n}
         /\ \A m \in DOMAIN versions' : versions'[m] = versions[m]
<1>1. /\ DOMAIN skills' = DOMAIN skills \ {n}
      /\ \A m \in DOMAIN skills' : skills'[m] = skills[m]
  BY ZenonT(60), WithoutDomain DEF Unregister
<1>2. /\ DOMAIN versions' = DOMAIN versions \ {n}
      /\ \A m \in DOMAIN versions' : versions'[m] = versions[m]
  BY ZenonT(60), WithoutDomain DEF Unregister
<1> QED BY <1>1, <1>2

(* What switchVersion leaves of the active definitions. *)
LEMMA SwitchMaps ==
  ASSUME NEW n, NEW v, SwitchVersion(n, v)
  PROVE  /\ n \in DOMAIN versions /\ v \in DOMAIN versions[n]
         /\ DOMAIN skills' = DOMAIN skills \cup {n}
         /\ skills'[n] = versions[n][v]
         /\ \A m \in DOMAIN skills : m # n => skills'[m] = skills[m]
         /\ versions' = versions
<1> DEFINE d == versions[n][v]
<1>1. skills' = With(skills, n, d)
  BY DEF SwitchVersion
<1>2. /\ DOMAIN With(skills, n, d) = DOMAIN skills \cup {n}
      /\ With(skills, n, d)[n] = d
      /\ \A m \in DOMAIN skills : m # n => With(skills, n, d)[m] = skills[m]
  <2> HIDE DEF d
  <2> QED BY DEF With
<1> QED BY <1>1, <1>2 DEF SwitchVersion

-----------------------------------------------------------------------------
(* Type correctness of the registry. *)
THEOREM TypeCorrect == Spec => []TypeOK
<1>1. Init => TypeOK
  BY DEF Init, TypeOK
<1>2. TypeOK /\ [Next]_vars => TypeOK'
  <2> SUFFICES ASSUME TypeOK, [Next]_vars PROVE TypeOK'
    OBVIOUS
  <2>1. ASSUME NEW d \in Offered, Register(d) \/ RegisterVersion(d) PROVE TypeOK'
    BY <2>1, StoringKeepsTypes DEF Register, RegisterVersion
  <2>2. ASSUME NEW n \in Names, Unregister(n) PROVE TypeOK'
    <3>1. /\ DOMAIN skills' = DOMAIN skills \ {n}
          /\ \A m \in DOMAIN skills' : skills'[m] = skills[m]
          /\ DOMAIN versions' = DOMAIN versions \ {n}
          /\ \A m \in DOMAIN versions' : versions'[m] = versions[m]
      BY <2>2, UnregisterMaps
    <3> QED BY <3>1 DEF TypeOK
  <2>3. ASSUME NEW n \in Names, NEW v \in Versions, SwitchVersion(n, v) PROVE TypeOK'
    <3>1. /\ n \in DOMAIN versions /\ v \in DOMAIN versions[n]
          /\ DOMAIN skills' = DOMAIN skills \cup {n}
          /\ skills'[n] = versions[n][v]
          /\ \A m \in DOMAIN skills : m # n => skills'[m] = skills[m]
          /\ versions' = versions
      BY <2>3, SwitchMaps
    <3>2. versions[n][v] \in Offered /\ versions[n][v].name = n
      BY <3>1 DEF TypeOK
    <3>3. \A m \in DOMAIN skills' : skills'[m] \in Offered /\ skills'[m].name = m
      BY <3>1, <3>2 DEF TypeOK
    <3> QED BY <3>1, <3>3 DEF TypeOK
  <2>4. CASE UNCHANGED vars
    BY <2>4 DEF TypeOK, vars
  <2> QED BY <2>1, <2>2, <2>3, <2>4 DEF Next
<1> QED BY <1>1, <1>2, PTL DEF Spec

(* What is stored follows what is active: TypeOK tells that a stored definition
   carries the version it is stored under, which is what switchVersion needs. *)
THEOREM VersionsFollow == Spec => []VersionsFollowSkills
<1>1. Init => VersionsFollowSkills
  BY DEF Init, VersionsFollowSkills
<1>2. TypeOK /\ VersionsFollowSkills /\ [Next]_vars => VersionsFollowSkills'
  <2> SUFFICES ASSUME TypeOK, VersionsFollowSkills, [Next]_vars
               PROVE  VersionsFollowSkills'
    OBVIOUS
  <2>1. ASSUME NEW d \in Offered, Register(d) \/ RegisterVersion(d)
        PROVE  VersionsFollowSkills'
    <3>1. skills' = With(skills, d.name, d) /\ Store(d)
      BY <2>1 DEF Register, RegisterVersion
    <3>2. /\ DOMAIN skills' = DOMAIN skills \cup {d.name}
          /\ skills'[d.name] = d
          /\ \A m \in DOMAIN skills : m # d.name => skills'[m] = skills[m]
      BY <3>1 DEF With
    <3>3. /\ DOMAIN versions' = DOMAIN versions \cup {d.name}
          /\ d.version \in DOMAIN versions'[d.name]
          /\ versions'[d.name][d.version] = d
          /\ \A n \in DOMAIN versions : n # d.name => versions'[n] = versions[n]
      BY <3>1, StoreVersions
    <3>4. ASSUME NEW n \in DOMAIN skills'
          PROVE  /\ skills'[n].version \in DOMAIN versions'[n]
                 /\ versions'[n][skills'[n].version] = skills'[n]
      <4>1. CASE n = d.name
        BY <3>2, <3>3, <4>1
      <4>2. CASE n # d.name
        <5>1. n \in DOMAIN skills /\ skills'[n] = skills[n] /\ versions'[n] = versions[n]
          BY <3>2, <3>3, <4>2 DEF VersionsFollowSkills
        <5> QED BY <5>1 DEF VersionsFollowSkills
      <4> QED BY <4>1, <4>2
    <3> QED BY <3>2, <3>3, <3>4 DEF VersionsFollowSkills
  <2>2. ASSUME NEW n \in Names, Unregister(n) PROVE VersionsFollowSkills'
    <3>1. /\ DOMAIN skills' = DOMAIN skills \ {n}
          /\ \A m \in DOMAIN skills' : skills'[m] = skills[m]
          /\ DOMAIN versions' = DOMAIN versions \ {n}
          /\ \A m \in DOMAIN versions' : versions'[m] = versions[m]
      BY <2>2, UnregisterMaps
    <3> QED BY <3>1 DEF VersionsFollowSkills
  <2>3. ASSUME NEW n \in Names, NEW v \in Versions, SwitchVersion(n, v)
        PROVE  VersionsFollowSkills'
    <3>1. /\ n \in DOMAIN versions /\ v \in DOMAIN versions[n]
          /\ DOMAIN skills' = DOMAIN skills \cup {n}
          /\ skills'[n] = versions[n][v]
          /\ \A m \in DOMAIN skills : m # n => skills'[m] = skills[m]
          /\ versions' = versions
      BY <2>3, SwitchMaps
    <3>2. versions[n][v].version = v
      BY <3>1 DEF TypeOK
    <3>3. ASSUME NEW m \in DOMAIN skills'
          PROVE  /\ skills'[m].version \in DOMAIN versions'[m]
                 /\ versions'[m][skills'[m].version] = skills'[m]
      <4>1. CASE m = n
        BY <3>1, <3>2, <4>1
      <4>2. CASE m # n
        BY <3>1, <4>2 DEF VersionsFollowSkills
      <4> QED BY <4>1, <4>2
    <3> QED BY <3>1, <3>3 DEF VersionsFollowSkills
  <2>4. CASE UNCHANGED vars
    BY <2>4 DEF VersionsFollowSkills, vars
  <2> QED BY <2>1, <2>2, <2>3, <2>4 DEF Next
<1> QED BY <1>1, <1>2, TypeCorrect, PTL DEF Spec

(* No operation but switchVersion turns a sound graph into an unsound one. *)
THEOREM OnlySwitchBreaks == Spec => OnlySwitchBreaksGraph
<1> DEFINE Switched == \E n \in Names, v \in Versions : SwitchVersion(n, v)
<1>1. [Next]_vars => (IsDag(skills) /\ ~IsDag(skills') => Switched) \/ UNCHANGED vars
  <2> SUFFICES ASSUME Next, IsDag(skills), ~IsDag(skills')
               PROVE  Switched
    OBVIOUS
  <2>1. ASSUME NEW d \in Offered, Register(d) \/ RegisterVersion(d) PROVE FALSE
    <3>1. skills' = With(skills, d.name, d) /\ IsDag(With(skills, d.name, d))
      BY <2>1 DEF Register, RegisterVersion
    <3> QED BY <3>1
  <2>2. ASSUME NEW n \in Names, Unregister(n) PROVE FALSE
    <3>1. \A m \in DOMAIN skills : n \notin DependsOn(skills[m])
      BY <2>2 DEF Unregister, Dependents
    <3>2. IsDag(Without(skills, n))
      BY <3>1, RemovalKeepsDag
    <3>3. skills' = Without(skills, n)
      BY <2>2 DEF Unregister
    <3> QED BY <3>2, <3>3
  <2> QED BY <2>1, <2>2 DEF Next
<1> QED BY <1>1, PTL DEF Spec, OnlySwitchBreaksGraph
-----------------------------------------------------------------------------
(* The loop of validateDAG, turn by turn *)

(* A set of numbers has a least member. *)
LEMMA LeastOf ==
  ASSUME NEW S \in SUBSET Nat, S # {}
  PROVE  \E m \in S : \A k \in S : m <= k
<1> DEFINE R == {ss \in Nat \X Nat : ss[1] < ss[2]}
<1>1. IsWellFoundedOn(R, Nat)
  BY NatLessThanWellFounded DEF OpToRel
<1>2. \E m \in S : \A k \in S : ~ (<<k, m>> \in R)
  <2> HIDE DEF R
  <2> QED BY <1>1, WFMin
<1>3. PICK m \in S : \A k \in S : ~ (k < m)
  BY <1>2
<1> QED BY <1>3

(* After is what its definition says: the loop's state at the start, and after
   one more turn. *)
LEMMA LoopTurns ==
  ASSUME NEW keys, NEW g
  PROVE  /\ After(keys, g)[0] = Start(keys, g)
         /\ \A k \in Nat : After(keys, g)[k + 1] = Turn(keys, g, After(keys, g)[k])
<1> DEFINE Body(f, k) == IF k = 0 THEN Start(keys, g) ELSE Turn(keys, g, f[k - 1])
           Good(f, n) == \A k \in 0..n : f[k] = Body(f, k)
           Some(n) == CHOOSE f : Good(f, n)
           F == [n \in Nat |-> Some(n)[n]]
<1>1. \A n \in Nat : \E f : Good(f, n)
  <2> DEFINE Bad == {n \in Nat : ~ \E f : Good(f, n)}
  <2> SUFFICES ASSUME Bad # {} PROVE FALSE
    OBVIOUS
  <2>1. PICK m \in Bad : \A k \in Bad : m <= k
    <3>1. Bad \in SUBSET Nat
      OBVIOUS
    <3> HIDE DEF Bad
    <3> QED BY <3>1, LeastOf
  <2>2. CASE m = 0
    <3> DEFINE f == [k \in 0..0 |-> Start(keys, g)]
    <3>1. Good(f, 0)
      OBVIOUS
    <3> QED BY <2>1, <2>2, <3>1
  <2>3. CASE m # 0
    <3>1. m - 1 \in Nat /\ m \in Nat /\ ~(m <= m - 1)
      BY <2>3
    <3>2. PICK f : Good(f, m - 1)
      BY <2>1, <3>1
    <3> DEFINE h == [k \in 0..m |-> IF k = m THEN Turn(keys, g, f[m - 1]) ELSE f[k]]
    <3>3. ASSUME NEW k \in 0..m PROVE h[k] = Body(h, k)
      <4>1. CASE k = m
        <5>1. h[k] = Turn(keys, g, f[m - 1]) /\ h[k - 1] = f[m - 1]
          BY <3>1, <4>1
        <5> QED BY <2>3, <4>1, <5>1
      <4>2. CASE k # m
        <5>1. k \in 0..(m - 1) /\ h[k] = f[k] /\ (k # 0 => h[k - 1] = f[k - 1])
          BY <3>1, <4>2
        <5>2. f[k] = Body(f, k)
          BY <3>2, <5>1
        <5> HIDE DEF h
        <5> QED BY <5>1, <5>2
      <4> QED BY <4>1, <4>2
    <3>4. Good(h, m)
      BY <3>3
    <3> QED BY <2>1, <3>4
  <2> QED BY <2>2, <2>3
<1>2. \A n \in Nat : Good(Some(n), n)
  <2> HIDE DEF Good
  <2> QED BY <1>1
<1>3. ASSUME NEW n \in Nat, NEW f, NEW h, Good(f, n), Good(h, n)
      PROVE  f[n] = h[n]
  <2> DEFINE Bad == {k \in 0..n : f[k] # h[k]}
  <2> SUFFICES ASSUME Bad # {} PROVE FALSE
    OBVIOUS
  <2>1. PICK m \in Bad : \A k \in Bad : m <= k
    <3>1. Bad \in SUBSET Nat
      OBVIOUS
    <3> HIDE DEF Bad
    <3> QED BY <3>1, LeastOf
  <2>2. f[m] = Body(f, m) /\ h[m] = Body(h, m)
    BY <1>3, <2>1
  <2>3. CASE m = 0
    BY <2>1, <2>2, <2>3
  <2>4. CASE m # 0
    <3>1. m - 1 \in 0..n /\ m - 1 \notin Bad
      BY <2>1, <2>4
    <3>2. f[m - 1] = h[m - 1]
      BY <3>1
    <3> QED BY <2>1, <2>2, <2>4, <3>2
  <2> QED BY <2>3, <2>4
<1>4. ASSUME NEW k \in Nat PROVE F[k] = Body(F, k)
  <2>1. Some(k)[k] = Body(Some(k), k)
    <3> HIDE DEF Some, Body
    <3> QED BY <1>2
  <2>2. CASE k = 0
    <3> HIDE DEF Some
    <3> QED BY <2>1, <2>2
  <2>3. CASE k # 0
    <3>1. k - 1 \in Nat
      BY <2>3
    <3>2. Good(Some(k), k - 1) /\ Good(Some(k - 1), k - 1)
      <4>1. \A j \in 0..(k - 1) : j \in 0..k
        BY <3>1
      <4> HIDE DEF Some, Body
      <4> QED BY <1>2, <3>1, <4>1
    <3>3. Some(k)[k - 1] = Some(k - 1)[k - 1]
      <4> HIDE DEF Some, Good
      <4> QED BY <1>3, <3>1, <3>2
    <3> HIDE DEF Some
    <3> QED BY <2>1, <2>3, <3>1, <3>3
  <2> QED BY <2>2, <2>3
<1>5. F = [k \in Nat |-> Body(F, k)]
  <2> HIDE DEF Some, Body
  <2> QED BY <1>4
<1>6. After(keys, g) = [k \in Nat |-> Body(After(keys, g), k)]
  <2> HIDE DEF F
  <2>1. \E f : f = [k \in Nat |-> Body(f, k)]
    BY <1>5
  <2> QED BY <2>1 DEF After
<1>7. \A k \in Nat : After(keys, g)[k] = Body(After(keys, g), k)
  <2> DEFINE A == After(keys, g)
  <2>1. A = [k \in Nat |-> Body(A, k)]
    BY <1>6
  <2> HIDE DEF A, Body
  <2> QED BY <2>1 DEF A
<1>8. \A k \in Nat : k + 1 \in Nat /\ k + 1 # 0 /\ k + 1 - 1 = k
  OBVIOUS
<1> QED BY <1>7, <1>8
-----------------------------------------------------------------------------
(* What InKeyOrder lists *)

\* How many members of a set of numbers come before k.
Rank(S, k) == Cardinality({l \in S : l < k})

(* The members of a finite set of numbers have ranks from 0 on, each its own. *)
LEMMA Ranks ==
  ASSUME NEW S \in SUBSET Nat, IsFiniteSet(S)
  PROVE  /\ Cardinality(S) \in Nat
         /\ \A k \in S : Rank(S, k) \in Nat /\ Rank(S, k) < Cardinality(S)
         /\ \A k, l \in S : Rank(S, k) = Rank(S, l) => k = l
         /\ \A j \in 1..Cardinality(S) : \E k \in S : Rank(S, k) = j - 1
<1> DEFINE n == Cardinality(S)
           rank == [k \in S |-> Rank(S, k) + 1]
<1>1. n \in Nat
  BY FS_CardinalityType
<1>2. ASSUME NEW k \in S
      PROVE  {l \in S : l < k} \in SUBSET S /\ k \notin {l \in S : l < k}
  OBVIOUS
<1>3. ASSUME NEW k \in S
      PROVE  IsFiniteSet({l \in S : l < k}) /\ Rank(S, k) \in Nat /\ Rank(S, k) < n
  <2> DEFINE L == {l \in S : l < k}
  <2>1. L \in SUBSET S /\ L # S
    BY <1>2
  <2> HIDE DEF L
  <2>2. IsFiniteSet(L) /\ Cardinality(L) <= n /\ Cardinality(L) # n
    BY <2>1, FS_Subset
  <2>3. Cardinality(L) \in Nat
    BY <2>2, FS_CardinalityType
  <2>4. Cardinality(L) < n
    BY <1>1, <2>2, <2>3
  <2> QED BY <2>2, <2>3, <2>4 DEF L, Rank
<1>4. ASSUME NEW k \in S, NEW l \in S, k < l
      PROVE  Rank(S, k) # Rank(S, l)
  <2> DEFINE K == {i \in S : i < k}
             L == {i \in S : i < l}
  <2>1. K \in SUBSET L
    <3>1. \A i \in S : i < k => i < l
      BY <1>4
    <3> QED BY <3>1
  <2>2. k \in L /\ k \notin K
    BY <1>4
  <2>3. IsFiniteSet(L)
    BY <1>3
  <2> HIDE DEF K, L
  <2>4. Cardinality(K) # Cardinality(L)
    BY <2>1, <2>2, <2>3, FS_Subset
  <2> QED BY <2>4 DEF K, L, Rank
<1>5. \A k, l \in S : Rank(S, k) = Rank(S, l) => k = l
  <2> SUFFICES ASSUME NEW k \in S, NEW l \in S, k # l
               PROVE  Rank(S, k) # Rank(S, l)
    OBVIOUS
  <2>1. k < l \/ l < k
    OBVIOUS
  <2> QED BY <1>4, <2>1
<1>6. rank \in Injection(S, 1..n)
  <2>1. \A k \in S : rank[k] = Rank(S, k) + 1 /\ rank[k] \in 1..n
    <3> TAKE k \in S
    <3> DEFINE r == Rank(S, k)
    <3>1. rank[k] = r + 1 /\ r \in Nat /\ r < n
      BY <1>3
    <3> HIDE DEF rank, n, r
    <3>2. r + 1 \in 1..n
      BY <1>1, <3>1
    <3> QED BY <3>1, <3>2 DEF r
  <2>2. \A k, l \in S : rank[k] = rank[l] => k = l
    <3> SUFFICES ASSUME NEW k \in S, NEW l \in S, rank[k] = rank[l]
                 PROVE  k = l
      OBVIOUS
    <3> DEFINE r == Rank(S, k)
               q == Rank(S, l)
    <3>1. r + 1 = q + 1 /\ r \in Nat /\ q \in Nat
      BY <1>3, <2>1
    <3> HIDE DEF r, q
    <3>2. r = q
      BY <3>1
    <3> QED BY <1>5, <3>2 DEF r, q
  <2>3. rank = [k \in S |-> rank[k]]
    OBVIOUS
  <2> HIDE DEF rank, n
  <2> QED BY <2>1, <2>2, <2>3 DEF Injection, IsInjective
<1>7. ASSUME NEW j \in 1..n
      PROVE  \E k \in S : Rank(S, k) = j - 1
  <2>1. IsFiniteSet(1..n) /\ Cardinality(1..n) = n
    <3> HIDE DEF n
    <3> QED BY <1>1, FS_Interval
  <2>2. rank \in Surjection(S, 1..n)
    <3> HIDE DEF rank
    <3> QED BY <1>6, <2>1, FS_Injection
  <2>3. PICK k \in S : rank[k] = j
    <3> HIDE DEF rank, n
    <3> QED BY <2>2 DEF Surjection
  <2>4. Rank(S, k) + 1 = j
    BY <2>3
  <2>5. Rank(S, k) \in Nat
    BY <1>3
  <2> HIDE DEF n, rank
  <2>6. Rank(S, k) = j - 1
    BY <1>1, <2>4, <2>5
  <2> QED BY <2>6
<1> QED BY <1>1, <1>3, <1>5, <1>7

\* keys lists the names of N, each once.
Lists(keys, N) ==
  /\ keys \in Seq(N)
  /\ \A m \in N : \E k \in 1..Len(keys) : keys[k] = m
  /\ \A k, l \in 1..Len(keys) : keys[k] = keys[l] => k = l

(* InKeyOrder lists the set it is given. *)
LEMMA KeysInOrder ==
  ASSUME NEW N, NEW keys, Lists(keys, N), NEW S \in SUBSET N
  PROVE  Lists(InKeyOrder(keys, S), S)
<1> DEFINE at == {k \in DOMAIN keys : keys[k] \in S}
           n == Cardinality(at)
           Nth(j) == CHOOSE k \in at : Cardinality({l \in at : l < k}) = j - 1
           order == [j \in 1..n |-> keys[Nth(j)]]
<1>1. DOMAIN keys = 1..Len(keys) /\ Len(keys) \in Nat
  BY LenProperties DEF Lists
<1>2. at \in SUBSET Nat /\ IsFiniteSet(at)
  <2>1. at \in SUBSET (1..Len(keys))
    BY <1>1
  <2>2. IsFiniteSet(1..Len(keys))
    BY <1>1, FS_Interval
  <2> HIDE DEF at
  <2>3. IsFiniteSet(at)
    BY <2>1, <2>2, FS_Subset
  <2> QED BY <1>1, <2>1, <2>3
<1>3. \A k \in at : keys[k] \in S /\ k \in 1..Len(keys)
  BY <1>1
<1>4. \A m \in S : \E k \in at : keys[k] = m
  BY <1>1 DEF Lists
<1>5. order = InKeyOrder(keys, S)
  BY DEF InKeyOrder
<1> HIDE DEF at
<1>6. /\ n \in Nat
      /\ \A k \in at : Rank(at, k) \in Nat /\ Rank(at, k) < n
      /\ \A k, l \in at : Rank(at, k) = Rank(at, l) => k = l
      /\ \A j \in 1..n : \E k \in at : Rank(at, k) = j - 1
  BY <1>2, Ranks
<1>7. \A j \in 1..n : Nth(j) \in at /\ Rank(at, Nth(j)) = j - 1
  BY <1>6 DEF Rank
<1>8. order \in Seq(S) /\ Len(order) = n
  <2>1. \A j \in 1..n : order[j] \in S
    <3> HIDE DEF Nth, n
    <3> QED BY <1>3, <1>7
  <2>2. order \in [1..n -> S]
    <3>1. order = [j \in 1..n |-> order[j]]
      <4> HIDE DEF Nth, n
      <4> QED OBVIOUS
    <3> HIDE DEF order, n
    <3> QED BY <2>1, <3>1
  <2> HIDE DEF order, n
  <2> QED BY <1>6, <2>2
<1>9. ASSUME NEW m \in S
      PROVE  \E j \in 1..n : order[j] = m
  <2>1. PICK k \in at : keys[k] = m
    BY <1>4
  <2> DEFINE j == Rank(at, k) + 1
  <2>2. j \in 1..n /\ j - 1 = Rank(at, k)
    <3> HIDE DEF n
    <3> QED BY <1>6
  <2>3. Nth(j) = k
    <3> HIDE DEF Nth, j, n
    <3> QED BY <1>6, <1>7, <2>2
  <2>4. order[j] = m
    <3> HIDE DEF Nth, j, n
    <3> QED BY <2>1, <2>2, <2>3
  <2> QED BY <2>2, <2>4
<1>10. ASSUME NEW i \in 1..n, NEW j \in 1..n, order[i] = order[j]
       PROVE  i = j
  <2>1. keys[Nth(i)] = keys[Nth(j)]
    <3> HIDE DEF Nth, n
    <3> QED BY <1>10
  <2>2. Nth(i) = Nth(j)
    <3> HIDE DEF Nth, n
    <3> QED BY <1>3, <1>7, <2>1 DEF Lists
  <2>3. i - 1 = j - 1
    <3> HIDE DEF Nth, n
    <3> QED BY <1>7, <2>2
  <2> HIDE DEF n
  <2> QED BY <1>6, <2>3
<1> HIDE DEF order, n
<1> QED BY <1>5, <1>8, <1>9, <1>10 DEF Lists
-----------------------------------------------------------------------------
(* Lists and what is in them *)

Elems(s) == {s[i] : i \in 1..Len(s)}

(* A list has as many members as it is long. *)
LEMMA ListedSet ==
  ASSUME NEW S, NEW s, Lists(s, S)
  PROVE  /\ Elems(s) = S
         /\ Len(s) \in Nat /\ IsFiniteSet(S) /\ Cardinality(S) = Len(s)
<1>1. Len(s) \in Nat /\ s \in [1..Len(s) -> S]
  BY LenProperties DEF Lists
<1>2. Elems(s) = S
  BY <1>1 DEF Elems, Lists
<1>3. s \in Bijection(1..Len(s), S)
  BY <1>1 DEF Lists, Bijection, Injection, Surjection, IsInjective
<1>4. IsFiniteSet(1..Len(s)) /\ Cardinality(1..Len(s)) = Len(s)
  <2> DEFINE n == Len(s)
  <2>1. n \in Nat
    BY <1>1
  <2> HIDE DEF n
  <2>2. IsFiniteSet(1..n) /\ Cardinality(1..n) = n
    BY <2>1, FS_Interval
  <2> QED BY <2>2 DEF n
<1>5. IsFiniteSet(S) /\ Cardinality(1..Len(s)) = Cardinality(S)
  <2>1. ExistsBijection(1..Len(s), S)
    BY <1>3 DEF ExistsBijection
  <2> QED BY <1>4, <2>1, FS_Bijection
<1> QED BY <1>1, <1>2, <1>4, <1>5

(* Taking the first member off a list. *)
LEMMA ListTail ==
  ASSUME NEW S, NEW s, Lists(s, S), s # <<>>
  PROVE  Head(s) \in S /\ Lists(Tail(s), S \ {Head(s)})
<1> DEFINE t == Tail(s)
           n == Len(s)
<1>1. /\ s \in Seq(S) /\ n \in Nat \ {0}
      /\ \A k, l \in 1..n : s[k] = s[l] => k = l
      /\ \A m \in S : \E k \in 1..n : s[k] = m
      /\ \A k \in 1..n : s[k] \in S
  BY EmptySeq, ElementOfSeq DEF Lists
<1>2. Head(s) = s[1]
  BY <1>1
<1>3. Len(t) = n - 1 /\ \A i \in 1..Len(t) : t[i] = s[i + 1]
  BY <1>1, HeadTailProperties
<1>4. t \in Seq(S)
  BY <1>1, HeadTailProperties
<1> HIDE DEF t, n
<1>5. \A i \in 1..(n - 1) : i + 1 \in 1..n /\ i + 1 # 1
  BY <1>1
<1>6. ASSUME NEW i \in 1..Len(t) PROVE t[i] \in S \ {s[1]}
  <2>1. i + 1 \in 1..n /\ 1 \in 1..n /\ i + 1 # 1 /\ t[i] = s[i + 1]
    BY <1>1, <1>3, <1>5
  <2>2. s[i + 1] # s[1]
    BY <1>1, <2>1
  <2> QED BY <1>1, <2>1, <2>2
<1>7. t \in Seq(S \ {s[1]})
  <2>1. t = [i \in 1..Len(t) |-> t[i]] /\ Len(t) \in Nat
    BY <1>4, LenProperties
  <2> DEFINE T == S \ {s[1]}
  <2>2. \A i \in 1..Len(t) : t[i] \in T
    BY <1>6
  <2> HIDE DEF T
  <2>3. t \in [1..Len(t) -> T]
    BY <2>1, <2>2
  <2>4. t \in Seq(T)
    BY <2>1, <2>3
  <2> QED BY <2>4 DEF T
<1>8. ASSUME NEW m \in S \ {s[1]}
      PROVE  \E k \in 1..Len(t) : t[k] = m
  <2>1. PICK k \in 1..n : s[k] = m
    BY <1>1
  <2>2. k # 1
    BY <2>1
  <2>3. k - 1 \in 1..(n - 1) /\ k - 1 + 1 = k
    BY <1>1, <2>2
  <2>4. t[k - 1] = m
    BY <1>3, <2>1, <2>3
  <2> QED BY <1>3, <2>3, <2>4
<1>9. ASSUME NEW k \in 1..Len(t), NEW l \in 1..Len(t), t[k] = t[l]
      PROVE  k = l
  <2>1. k + 1 \in 1..n /\ l + 1 \in 1..n /\ s[k + 1] = s[l + 1]
    BY <1>3, <1>5, <1>9
  <2>2. k + 1 = l + 1
    BY <1>1, <2>1
  <2> QED BY <1>1, <1>3, <2>2
<1> QED BY <1>1, <1>2, <1>7, <1>8, <1>9 DEF Lists, t, n

(* One list behind another. *)
LEMMA ListConcat ==
  ASSUME NEW S, NEW s, Lists(s, S), NEW T, NEW t, Lists(t, T), S \cap T = {}
  PROVE  Lists(s \o t, S \cup T)
<1> DEFINE U == S \cup T
           u == s \o t
           m == Len(s)
           n == Len(t)
<1>1. s \in Seq(U) /\ t \in Seq(U)
  BY SeqMonotonic DEF Lists
<1>2. /\ u \in Seq(U) /\ Len(u) = m + n
      /\ \A i \in 1..(m + n) : u[i] = IF i <= m THEN s[i] ELSE t[i - m]
  BY <1>1, ConcatProperties
<1>3. m \in Nat /\ n \in Nat
  BY <1>1, LenProperties
<1>4. /\ \A k \in 1..m : s[k] \in S
      /\ \A k \in 1..n : t[k] \in T
  BY ElementOfSeq DEF Lists
<1>5. /\ \A k, l \in 1..m : s[k] = s[l] => k = l
      /\ \A k, l \in 1..n : t[k] = t[l] => k = l
      /\ \A x \in S : \E k \in 1..m : s[k] = x
      /\ \A x \in T : \E k \in 1..n : t[k] = x
  BY DEF Lists
<1> HIDE DEF u, m, n
<1>6. ASSUME NEW i \in 1..(m + n)
      PROVE  \/ i \in 1..m /\ u[i] = s[i] /\ u[i] \in S
             \/ i - m \in 1..n /\ u[i] = t[i - m] /\ u[i] \in T
  <2>1. CASE i <= m
    <3>1. i \in 1..m
      BY <1>3, <2>1
    <3> QED BY <1>2, <1>4, <2>1, <3>1
  <2>2. CASE ~(i <= m)
    <3>1. i - m \in 1..n
      BY <1>3, <2>2
    <3> QED BY <1>2, <1>4, <2>2, <3>1
  <2> QED BY <2>1, <2>2
<1>7. ASSUME NEW x \in U
      PROVE  \E k \in 1..(m + n) : u[k] = x
  <2>1. CASE x \in S
    <3>1. PICK k \in 1..m : s[k] = x
      BY <1>5, <2>1
    <3>2. k \in 1..(m + n) /\ k <= m
      BY <1>3
    <3> QED BY <1>2, <3>1, <3>2
  <2>2. CASE x \in T
    <3>1. PICK k \in 1..n : t[k] = x
      BY <1>5, <2>2
    <3> DEFINE j == k + m
    <3>2. j \in 1..(m + n) /\ ~(j <= m) /\ j - m = k
      BY <1>3
    <3> HIDE DEF j
    <3>3. u[j] = t[j - m]
      BY <1>2, <3>2
    <3> QED BY <3>1, <3>2, <3>3
  <2> QED BY <2>1, <2>2
<1>8. ASSUME NEW i \in 1..(m + n), NEW j \in 1..(m + n), u[i] = u[j]
      PROVE  i = j
  <2>1. CASE u[i] \in S
    <3>1. i \in 1..m /\ j \in 1..m /\ s[i] = s[j]
      BY <1>6, <1>8, <2>1
    <3> QED BY <1>5, <3>1
  <2>2. CASE u[i] \notin S
    <3>1. i - m \in 1..n /\ j - m \in 1..n /\ t[i - m] = t[j - m]
      BY <1>6, <1>8, <2>2
    <3>2. i - m = j - m
      BY <1>5, <3>1
    <3> QED BY <1>3, <3>2
  <2> QED BY <2>1, <2>2
<1> QED BY <1>2, <1>7, <1>8 DEF Lists, u

(* A list that grows by one. *)
LEMMA ListAppend ==
  ASSUME NEW S, NEW s, Lists(s, S), NEW x, x \notin S
  PROVE  Lists(Append(s, x), S \cup {x})
<1> DEFINE U == S \cup {x}
           u == Append(s, x)
           m == Len(s)
<1>1. s \in Seq(U) /\ x \in U
  BY SeqMonotonic DEF Lists
<1>2. /\ u \in Seq(U) /\ Len(u) = m + 1 /\ m \in Nat
      /\ \A i \in 1..m : u[i] = s[i]
      /\ u[m + 1] = x
  BY <1>1, AppendProperties, LenProperties
<1>3. \A k \in 1..m : s[k] \in S
  BY ElementOfSeq DEF Lists
<1>4. /\ \A k, l \in 1..m : s[k] = s[l] => k = l
      /\ \A y \in S : \E k \in 1..m : s[k] = y
  BY DEF Lists
<1> HIDE DEF u, m
<1>5. \A i \in 1..(m + 1) : i \in 1..m \/ i = m + 1
  BY <1>2
<1>6. \A i \in 1..m : i \in 1..(m + 1)
  BY <1>2
<1>7. m + 1 \in 1..(m + 1)
  BY <1>2
<1>8. \A y \in U : \E k \in 1..(m + 1) : u[k] = y
  BY <1>2, <1>4, <1>6, <1>7
<1>9. \A i, j \in 1..(m + 1) : u[i] = u[j] => i = j
  BY <1>2, <1>3, <1>4, <1>5
<1> QED BY <1>2, <1>8, <1>9 DEF Lists, u
-----------------------------------------------------------------------------
(* What the loop keeps *)

\* The dependencies of m that are not yet sorted, as often as m names them.
OpenDeps(g, done, m) == {i \in DOMAIN Deps(g, m) : Deps(g, m)[i] \notin done}

\* What is sorted and what is queued are the skills without open dependencies,
\* each once, and whatever is sorted comes after what it depends on.
LoopInv(g, st) ==
  /\ Elems(st.sorted) \subseteq DOMAIN g /\ Lists(st.sorted, Elems(st.sorted))
  /\ Elems(st.queue) \subseteq DOMAIN g /\ Lists(st.queue, Elems(st.queue))
  /\ Elems(st.sorted) \cap Elems(st.queue) = {}
  /\ \A m \in DOMAIN g :
       /\ st.inDegree[m] = Cardinality(OpenDeps(g, Elems(st.sorted), m))
       /\ OpenDeps(g, Elems(st.sorted), m) = {} <=>
            m \in Elems(st.sorted) \cup Elems(st.queue)
  /\ \A j \in 1..Len(st.sorted) : \A i \in DOMAIN Deps(g, st.sorted[j]) :
       \E l \in 1..(j - 1) : st.sorted[l] = Deps(g, st.sorted[j])[i]

\* A graph whose skills list their dependencies.
Graph(g) == \A n \in DOMAIN g : \E D : Deps(g, n) \in Seq(D)

(* Sorting n closes those dependencies that name n. *)
LEMMA LinksClose ==
  ASSUME NEW g, Graph(g), NEW m \in DOMAIN g, NEW done, NEW n, n \notin done
  PROVE  /\ IsFiniteSet(OpenDeps(g, done, m))
         /\ Cardinality(OpenDeps(g, done, m)) \in Nat
         /\ Cardinality(OpenDeps(g, done \cup {n}, m)) \in Nat
         /\ Links(g, n, m) \in Nat
         /\ Cardinality(OpenDeps(g, done, m)) =
              Cardinality(OpenDeps(g, done \cup {n}, m)) + Links(g, n, m)
         /\ OpenDeps(g, done, m) = {} <=> Cardinality(OpenDeps(g, done, m)) = 0
         /\ OpenDeps(g, done \cup {n}, m) = {} <=>
              Cardinality(OpenDeps(g, done \cup {n}, m)) = 0
<1> DEFINE A == OpenDeps(g, done, m)
           B == OpenDeps(g, done \cup {n}, m)
           L == {i \in DOMAIN Deps(g, m) : Deps(g, m)[i] = n}
<1>1. DOMAIN Deps(g, m) = 1..Len(Deps(g, m)) /\ Len(Deps(g, m)) \in Nat
  <2>1. PICK D : Deps(g, m) \in Seq(D)
    BY DEF Graph
  <2> QED BY <2>1, LenProperties
<1>2. IsFiniteSet(DOMAIN Deps(g, m))
  <2> DEFINE k == Len(Deps(g, m))
  <2>1. k \in Nat
    BY <1>1
  <2> HIDE DEF k
  <2>2. IsFiniteSet(1..k)
    BY <2>1, FS_Interval
  <2> QED BY <1>1, <2>2 DEF k
<1>3. A \in SUBSET DOMAIN Deps(g, m) /\ B \in SUBSET A /\ L \in SUBSET A
  BY DEF OpenDeps
<1>4. B \cup L = A /\ B \cap L = {}
  BY DEF OpenDeps
<1>5. Links(g, n, m) = Cardinality(L)
  BY DEF Links
<1> HIDE DEF A, B, L
<1>6. IsFiniteSet(A)
  BY <1>2, <1>3, FS_Subset
<1>7. IsFiniteSet(B) /\ IsFiniteSet(L)
  BY <1>3, <1>6, FS_Subset
<1>8. Cardinality(A) \in Nat /\ Cardinality(B) \in Nat /\ Cardinality(L) \in Nat
  BY <1>6, <1>7, FS_CardinalityType
<1>9. Cardinality(B \cup L) = Cardinality(B) + Cardinality(L) - Cardinality(B \cap L)
  BY <1>7, FS_Union
<1>10. Cardinality(B \cap L) = 0
  BY <1>4, FS_EmptySet
<1>11. Cardinality(A) = Cardinality(B) + Cardinality(L)
  <2> DEFINE a == Cardinality(A)
             b == Cardinality(B)
             c == Cardinality(L)
  <2>1. a = b + c - 0
    BY <1>4, <1>9, <1>10
  <2>2. a \in Nat /\ b \in Nat /\ c \in Nat
    BY <1>8
  <2> HIDE DEF a, b, c
  <2>3. a = b + c
    BY <2>1, <2>2
  <2> QED BY <2>3 DEF a, b, c
<1>12. /\ A = {} <=> Cardinality(A) = 0
       /\ B = {} <=> Cardinality(B) = 0
  BY <1>6, <1>7, FS_EmptySet
<1> QED BY <1>5, <1>6, <1>8, <1>11, <1>12 DEF A, B

(* The loop starts with the skills that depend on nothing queued. *)
LEMMA LoopInvStart ==
  ASSUME NEW g, Graph(g), NEW keys, Lists(keys, DOMAIN g)
  PROVE  LoopInv(g, Start(keys, g))
<1> DEFINE Q == {n \in DOMAIN g : Deps(g, n) = <<>>}
           q == InKeyOrder(keys, Q)
           st == Start(keys, g)
<1>1. st.inDegree = InDegree(g) /\ st.sorted = <<>> /\ st.queue = q
  BY DEF Start
<1>2. Lists(q, Q) /\ Elems(q) = Q
  <2>1. Q \in SUBSET DOMAIN g
    OBVIOUS
  <2> HIDE DEF Q
  <2>2. Lists(q, Q)
    BY <2>1, KeysInOrder
  <2> HIDE DEF q
  <2> QED BY <2>2, ListedSet
<1>3. Elems(<<>>) = {} /\ Lists(<<>>, {}) /\ Len(<<>>) = 0
  BY DEF Elems, Lists
<1>4. ASSUME NEW m \in DOMAIN g
      PROVE  /\ InDegree(g)[m] = Cardinality(OpenDeps(g, {}, m))
             /\ OpenDeps(g, {}, m) = {} <=> m \in Q
  <2> DEFINE s == Deps(g, m)
             k == Len(s)
  <2>1. PICK D : s \in Seq(D)
    BY DEF Graph
  <2>2. k \in Nat /\ DOMAIN s = 1..k
    BY <2>1, LenProperties
  <2>3. OpenDeps(g, {}, m) = 1..k
    BY <2>2 DEF OpenDeps
  <2>4. InDegree(g)[m] = k
    BY DEF InDegree
  <2>5. k = 0 <=> s = <<>>
    BY <2>1, EmptySeq
  <2>6. m \in Q <=> s = <<>>
    OBVIOUS
  <2> HIDE DEF s, k, Q
  <2>7. Cardinality(1..k) = k
    BY <2>2, FS_Interval
  <2>8. 1..k = {} <=> k = 0
    BY <2>2
  <2> QED BY <2>3, <2>4, <2>5, <2>6, <2>7, <2>8
<1>5. Q \subseteq DOMAIN g
  OBVIOUS
<1> HIDE DEF Q, q, st
<1>6. LoopInv(g, st)
  <2>1. Elems(st.sorted) = {} /\ Lists(st.sorted, {}) /\ Len(st.sorted) = 0
    BY <1>1, <1>3
  <2>2. Elems(st.queue) = Q /\ Lists(st.queue, Q)
    BY <1>1, <1>2
  <2>3. \A m \in DOMAIN g :
          /\ st.inDegree[m] = Cardinality(OpenDeps(g, {}, m))
          /\ OpenDeps(g, {}, m) = {} <=> m \in {} \cup Q
    BY <1>1, <1>4
  <2>4. 1..Len(st.sorted) = {}
    BY <2>1
  <2> QED BY <1>5, <2>1, <2>2, <2>3, <2>4 DEF LoopInv
<1> QED BY <1>6 DEF st

(* One turn sorts the head of the queue and queues the skills it was the last
   open dependency of. *)
LEMMA LoopInvTurn ==
  ASSUME NEW g, Graph(g), NEW keys, Lists(keys, DOMAIN g),
         NEW st, LoopInv(g, st), st.queue # <<>>
  PROVE  /\ LoopInv(g, Turn(keys, g, st))
         /\ Len(Turn(keys, g, st).sorted) = Len(st.sorted) + 1
<1> DEFINE n == Head(st.queue)
           done == Elems(st.sorted)
           todo == Elems(st.queue)
           F == Freed(g, st, n)
           f == InKeyOrder(keys, F)
           new == Turn(keys, g, st)
           t == Tail(st.queue)
           u == t \o f
           s == Append(st.sorted, n)
<1>1. /\ new.inDegree = [m \in DOMAIN g |-> st.inDegree[m] - Links(g, n, m)]
      /\ new.sorted = s /\ new.queue = u
  BY DEF Turn
<1>2. /\ done \subseteq DOMAIN g /\ Lists(st.sorted, done)
      /\ todo \subseteq DOMAIN g /\ Lists(st.queue, todo)
      /\ done \cap todo = {}
  BY DEF LoopInv
<1>3. \A m \in DOMAIN g :
        /\ st.inDegree[m] = Cardinality(OpenDeps(g, done, m))
        /\ OpenDeps(g, done, m) = {} <=> m \in done \cup todo
  BY DEF LoopInv
<1>4. \A j \in 1..Len(st.sorted) : \A i \in DOMAIN Deps(g, st.sorted[j]) :
        \E l \in 1..(j - 1) : st.sorted[l] = Deps(g, st.sorted[j])[i]
  BY DEF LoopInv
<1>5. F = {m \in DOMAIN g : st.inDegree[m] \in 1..Links(g, n, m)}
  BY DEF Freed
<1>6. n \in todo /\ Lists(t, todo \ {n})
  <2> HIDE DEF todo
  <2> QED BY <1>2, ListTail
<1>7. Lists(f, F)
  <2>1. F \in SUBSET DOMAIN g
    BY <1>5
  <2> HIDE DEF F
  <2> QED BY <2>1, KeysInOrder
<1>8. n \notin done /\ n \in DOMAIN g
  BY <1>2, <1>6
<1> HIDE DEF n, done, todo, F, f, new, t, u, s
<1> DEFINE open(m) == Cardinality(OpenDeps(g, done, m))
           left(m) == Cardinality(OpenDeps(g, done \cup {n}, m))
           links(m) == Links(g, n, m)
<1>9. ASSUME NEW m \in DOMAIN g
      PROVE  /\ open(m) \in Nat /\ left(m) \in Nat /\ links(m) \in Nat
             /\ open(m) = left(m) + links(m)
             /\ OpenDeps(g, done, m) = {} <=> open(m) = 0
             /\ OpenDeps(g, done \cup {n}, m) = {} <=> left(m) = 0
  BY <1>8, LinksClose
<1>10. ASSUME NEW m \in DOMAIN g
       PROVE  /\ new.inDegree[m] = open(m) - links(m)
              /\ st.inDegree[m] = open(m)
              /\ open(m) = 0 <=> m \in done \cup todo
              /\ m \in F <=> open(m) \in 1..links(m)
  <2>1. st.inDegree[m] = open(m)
    BY <1>3
  <2>2. new.inDegree[m] = open(m) - links(m)
    BY <1>1, <2>1
  <2>3. open(m) = 0 <=> m \in done \cup todo
    BY <1>3, <1>9
  <2>4. m \in F <=> open(m) \in 1..links(m)
    BY <1>5, <2>1
  <2> QED BY <2>1, <2>2, <2>3, <2>4
<1> HIDE DEF open, left, links
<1>11. ASSUME NEW m \in DOMAIN g
       PROVE  /\ new.inDegree[m] = left(m)
              /\ left(m) = 0 <=> m \in (done \cup {n}) \cup ((todo \ {n}) \cup F)
              /\ ~(m \in F /\ m \in done \cup todo)
  <2>1. new.inDegree[m] = left(m)
    BY <1>9, <1>10
  <2>2. left(m) = 0 <=> open(m) = 0 \/ open(m) \in 1..links(m)
    BY <1>9
  <2>3. left(m) = 0 <=> m \in done \cup todo \/ m \in F
    BY <1>10, <2>2
  <2>4. ~(open(m) = 0 /\ open(m) \in 1..links(m))
    BY <1>9
  <2> QED BY <1>6, <1>10, <2>1, <2>3, <2>4
<1>12. F \subseteq DOMAIN g
  BY <1>5
<1>13. Lists(s, done \cup {n}) /\ Elems(s) = done \cup {n}
  <2>1. Lists(s, done \cup {n})
    BY <1>2, <1>8, ListAppend DEF s
  <2> QED BY <2>1, ListedSet
<1>14. Lists(u, (todo \ {n}) \cup F) /\ Elems(u) = (todo \ {n}) \cup F
  <2>1. (todo \ {n}) \cap F = {}
    BY <1>11, <1>12
  <2>2. Lists(u, (todo \ {n}) \cup F)
    BY <1>6, <1>7, <2>1, ListConcat DEF u
  <2> QED BY <2>2, ListedSet
<1>15. (done \cup {n}) \cap ((todo \ {n}) \cup F) = {}
  BY <1>2, <1>6, <1>11, <1>12
<1>16. /\ Len(s) = Len(st.sorted) + 1 /\ Len(st.sorted) \in Nat
       /\ \A i \in 1..Len(st.sorted) : s[i] = st.sorted[i]
       /\ s[Len(st.sorted) + 1] = n
  <2>1. st.sorted \in Seq(DOMAIN g) /\ n \in DOMAIN g
    <3>1. st.sorted \in Seq(done)
      BY <1>2 DEF Lists
    <3>2. Seq(done) \subseteq Seq(DOMAIN g)
      BY <1>2, SeqMonotonic
    <3> QED BY <1>8, <3>1, <3>2
  <2> QED BY <2>1, AppendProperties, LenProperties DEF s
<1>17. ASSUME NEW j \in 1..Len(s), NEW i \in DOMAIN Deps(g, s[j])
       PROVE  \E l \in 1..(j - 1) : s[l] = Deps(g, s[j])[i]
  <2> DEFINE z == Len(st.sorted)
  <2>1. z \in Nat /\ Len(s) = z + 1
    BY <1>16
  <2>2. CASE j = z + 1
    <3>1. s[j] = n
      BY <1>16, <2>2
    <3>2. OpenDeps(g, done, n) = {}
      BY <1>3, <1>6, <1>8
    <3>3. Deps(g, n)[i] \in done
      BY <1>17, <3>1, <3>2 DEF OpenDeps
    <3>4. PICK l \in 1..z : st.sorted[l] = Deps(g, n)[i]
      BY <3>3 DEF Elems, done
    <3>5. j - 1 = z
      <4> HIDE DEF z
      <4> QED BY <2>1, <2>2
    <3> QED BY <1>16, <3>1, <3>4, <3>5
  <2>3. CASE j # z + 1
    <3>1. j \in 1..z
      <4> HIDE DEF z
      <4> QED BY <2>1, <2>3
    <3>2. s[j] = st.sorted[j]
      BY <1>16, <3>1
    <3>3. PICK l \in 1..(j - 1) : st.sorted[l] = Deps(g, s[j])[i]
      BY <1>4, <1>17, <3>1, <3>2
    <3>4. l \in 1..z
      <4> HIDE DEF z
      <4> QED BY <2>1, <3>1
    <3> QED BY <1>16, <3>3, <3>4
  <2> QED BY <2>2, <2>3
<1>18. done \cup {n} \subseteq DOMAIN g /\ (todo \ {n}) \cup F \subseteq DOMAIN g
  BY <1>2, <1>8, <1>12
<1>19. LoopInv(g, new)
  <2>1. \A m \in DOMAIN g :
          /\ new.inDegree[m] = Cardinality(OpenDeps(g, done \cup {n}, m))
          /\ OpenDeps(g, done \cup {n}, m) = {} <=>
               m \in (done \cup {n}) \cup ((todo \ {n}) \cup F)
    BY <1>9, <1>11 DEF left
  <2> DEFINE T == (todo \ {n}) \cup F
             S == done \cup {n}
  <2>2. /\ Elems(s) = S /\ Lists(s, S) /\ Elems(u) = T /\ Lists(u, T)
        /\ S \subseteq DOMAIN g /\ T \subseteq DOMAIN g /\ S \cap T = {}
        /\ \A m \in DOMAIN g :
             /\ new.inDegree[m] = Cardinality(OpenDeps(g, S, m))
             /\ OpenDeps(g, S, m) = {} <=> m \in S \cup T
    BY <1>13, <1>14, <1>15, <1>18, <2>1
  <2> HIDE DEF T, S
  <2> QED BY <1>1, <1>17, <2>2 DEF LoopInv
<1> QED BY <1>1, <1>16, <1>19 DEF new

(* After k turns the loop has sorted k skills, or its queue is empty; either way
   LoopInv holds. *)
LEMMA LoopKeeps ==
  ASSUME NEW g, Graph(g), NEW keys, Lists(keys, DOMAIN g)
  PROVE  \A k \in Nat :
           /\ LoopInv(g, After(keys, g)[k])
           /\ \/ After(keys, g)[k].queue = <<>>
              \/ Len(After(keys, g)[k].sorted) = k
<1> DEFINE st(k) == After(keys, g)[k]
           Good(k) == LoopInv(g, st(k)) /\ (st(k).queue = <<>> \/ Len(st(k).sorted) = k)
           Bad == {k \in Nat : ~Good(k)}
<1>1. st(0) = Start(keys, g) /\ \A k \in Nat : st(k + 1) = Turn(keys, g, st(k))
  BY LoopTurns
<1>2. Good(0)
  <2>1. LoopInv(g, st(0))
    BY <1>1, LoopInvStart
  <2>2. st(0).sorted = <<>>
    BY <1>1 DEF Start
  <2> QED BY <2>1, <2>2
<1>3. ASSUME NEW k \in Nat, Good(k) PROVE Good(k + 1)
  <2>1. st(k + 1) = Turn(keys, g, st(k))
    BY <1>1
  <2>2. CASE st(k).queue = <<>>
    <3>1. Turn(keys, g, st(k)) = st(k)
      BY <2>2 DEF Turn
    <3>2. st(k + 1) = st(k)
      BY <2>1, <3>1
    <3> HIDE DEF st
    <3> QED BY <1>3, <2>2, <3>2
  <2>3. CASE st(k).queue # <<>>
    <3>1. LoopInv(g, st(k)) /\ Len(st(k).sorted) = k
      BY <1>3, <2>3
    <3> HIDE DEF st
    <3>2. LoopInv(g, Turn(keys, g, st(k))) /\ Len(Turn(keys, g, st(k)).sorted) = k + 1
      <4>1. Len(Turn(keys, g, st(k)).sorted) = Len(st(k).sorted) + 1
        BY <2>3, <3>1, LoopInvTurn
      <4>2. LoopInv(g, Turn(keys, g, st(k)))
        BY <2>3, <3>1, LoopInvTurn
      <4> QED BY <3>1, <4>1, <4>2
    <3> QED BY <2>1, <3>2
  <2> QED BY <2>2, <2>3
<1>4. Bad = {}
  <2> SUFFICES ASSUME Bad # {} PROVE FALSE
    OBVIOUS
  <2>1. PICK m \in Bad : \A k \in Bad : m <= k
    <3>1. Bad \in SUBSET Nat
      OBVIOUS
    <3> HIDE DEF Bad
    <3> QED BY <3>1, LeastOf
  <2>2. m \in Nat /\ ~Good(m)
    BY <2>1
  <2> HIDE DEF Good
  <2>3. m # 0
    BY <1>2, <2>2
  <2>4. m - 1 \in Nat /\ ~(m <= m - 1) /\ m - 1 + 1 = m
    BY <2>2, <2>3
  <2>5. Good(m - 1)
    BY <2>1, <2>4
  <2>6. Good(m - 1 + 1)
    BY <1>3, <2>4, <2>5
  <2> QED BY <2>2, <2>4, <2>6
<1> QED BY <1>4

(* Len(keys) turns empty the queue. *)
LEMMA LoopEnds ==
  ASSUME NEW g, Graph(g), NEW keys, Lists(keys, DOMAIN g)
  PROVE  LoopInv(g, End(keys, g)) /\ End(keys, g).queue = <<>>
<1> DEFINE n == Len(keys)
           st == End(keys, g)
           done == Elems(st.sorted)
           todo == Elems(st.queue)
<1>1. n \in Nat /\ IsFiniteSet(DOMAIN g) /\ Cardinality(DOMAIN g) = n
  BY ListedSet
<1>2. LoopInv(g, st) /\ (st.queue = <<>> \/ Len(st.sorted) = n)
  BY <1>1, LoopKeeps DEF End
<1>3. ASSUME Len(st.sorted) = n PROVE st.queue = <<>>
  <2>1. /\ done \subseteq DOMAIN g /\ Lists(st.sorted, done)
        /\ todo \subseteq DOMAIN g /\ Lists(st.queue, todo)
        /\ done \cap todo = {}
    BY <1>2 DEF LoopInv
  <2> HIDE DEF done, todo, n, st
  <2>2. Cardinality(done) = n
    BY <1>3, <2>1, ListedSet
  <2>3. done = DOMAIN g
    BY <1>1, <2>1, <2>2, FS_Subset
  <2>4. todo = {}
    BY <2>1, <2>3
  <2>5. Len(st.queue) = Cardinality(todo)
    BY <2>1, ListedSet
  <2>6. Len(st.queue) = 0
    BY <2>4, <2>5, FS_EmptySet
  <2> QED BY <2>1, <2>6, EmptySeq DEF Lists
<1> QED BY <1>2, <1>3

(* What is left over when the queue is empty depends on what is left over; if
   nothing is, what is sorted is a topological order. *)
LEMMA LeftOverIsCyclic ==
  ASSUME NEW g, Graph(g), Closed(g), NEW st, LoopInv(g, st), st.queue = <<>>
  PROVE  /\ Acyclic(g) <=> Elems(st.sorted) = DOMAIN g
         /\ Elems(st.sorted) = DOMAIN g => TopologicalOrder(g, st.sorted)
<1> DEFINE s == st.sorted
           done == Elems(s)
           R == DOMAIN g \ done
<1>1. Elems(st.queue) = {}
  BY DEF Elems
<1>2. /\ done \subseteq DOMAIN g /\ Lists(s, done)
      /\ \A m \in DOMAIN g : OpenDeps(g, done, m) = {} <=> m \in done
      /\ \A j \in 1..Len(s) : \A i \in DOMAIN Deps(g, s[j]) :
           \E l \in 1..(j - 1) : s[l] = Deps(g, s[j])[i]
  BY <1>1 DEF LoopInv
<1>3. \A m \in DOMAIN g : \A i \in DOMAIN Deps(g, m) : Deps(g, m)[i] \in DependsOn(g[m])
  BY DEF Deps, DependsOn
<1>4. DOMAIN s = 1..Len(s) /\ Len(s) \in Nat
  BY <1>2, LenProperties DEF Lists
<1>5. \A m \in DOMAIN g : \A d \in DependsOn(g[m]) :
        \E i \in DOMAIN Deps(g, m) : Deps(g, m)[i] = d
  BY DEF Deps, DependsOn
<1>6. ASSUME done # DOMAIN g PROVE ~Acyclic(g)
  <2>1. R # {} /\ R \in SUBSET DOMAIN g
    BY <1>2, <1>6
  <2>2. ASSUME NEW m \in R PROVE DependsOn(g[m]) \cap R # {}
    <3>1. PICK i \in DOMAIN Deps(g, m) : Deps(g, m)[i] \notin done
      BY <1>2 DEF OpenDeps
    <3>2. Deps(g, m)[i] \in DependsOn(g[m]) /\ DependsOn(g[m]) \subseteq DOMAIN g
      BY <1>3 DEF Closed
    <3> QED BY <3>1, <3>2
  <2> HIDE DEF R
  <2> QED BY <2>1, <2>2 DEF Acyclic
<1>7. ASSUME done = DOMAIN g PROVE Acyclic(g) /\ TopologicalOrder(g, s)
  <2>1. ASSUME NEW j \in 1..Len(s), NEW d \in DependsOn(g[s[j]])
        PROVE  \E l \in 1..(j - 1) : s[l] = d
    <3>1. s[j] \in DOMAIN g
      BY <1>7 DEF Elems
    <3>2. PICK i \in DOMAIN Deps(g, s[j]) : Deps(g, s[j])[i] = d
      BY <1>5, <3>1
    <3> QED BY <1>2, <3>2
  <2>2. TopologicalOrder(g, s)
    <3>1. {s[i] : i \in DOMAIN s} = DOMAIN g
      BY <1>4, <1>7 DEF Elems
    <3>2. \A i, j \in DOMAIN s : i # j => s[i] # s[j]
      BY <1>2, <1>4 DEF Lists
    <3>3. \A j \in DOMAIN s : DependsOn(g[s[j]]) \subseteq {s[i] : i \in 1..(j - 1)}
      BY <1>4, <2>1
    <3> QED BY <3>1, <3>2, <3>3 DEF TopologicalOrder
  <2>3. Acyclic(g)
    <3> SUFFICES ASSUME NEW S \in SUBSET DOMAIN g, S # {},
                        \A m \in S : DependsOn(g[m]) \cap S # {}
                 PROVE  FALSE
      BY DEF Acyclic
    <3> DEFINE P == {k \in 1..Len(s) : s[k] \in S}
    <3>1. P # {}
      <4>1. PICK m : m \in S
        OBVIOUS
      <4>2. \E k \in 1..Len(s) : s[k] = m
        BY <1>7, <4>1 DEF Elems
      <4> QED BY <4>1, <4>2
    <3>2. PICK j \in P : \A k \in P : j <= k
      <4>1. P \in SUBSET Nat
        OBVIOUS
      <4> HIDE DEF P
      <4> QED BY <3>1, <4>1, LeastOf
    <3>3. PICK d \in DependsOn(g[s[j]]) : d \in S
      BY <3>2
    <3>4. PICK l \in 1..(j - 1) : s[l] = d
      BY <2>1, <3>2, <3>3
    <3>5. l \in 1..Len(s) /\ ~(j <= l)
      BY <1>4, <3>2
    <3>6. l \in P
      BY <3>3, <3>4, <3>5
    <3> QED BY <3>2, <3>5, <3>6
  <2> QED BY <2>2, <2>3
<1> QED BY <1>6, <1>7

(* A registration order lists the skills. *)
LEMMA OrdersList ==
  ASSUME NEW g, IsFiniteSet(DOMAIN g), NEW keys \in Orders(g)
  PROVE  Lists(keys, DOMAIN g)
<1> DEFINE n == Cardinality(DOMAIN g)
<1>1. n \in Nat
  BY FS_CardinalityType
<1>2. keys \in [1..n -> DOMAIN g] /\ \A i, j \in 1..n : i # j => keys[i] # keys[j]
  BY DEF Orders
<1> HIDE DEF n
<1>3. keys \in Injection(1..n, DOMAIN g)
  BY <1>2 DEF Injection, IsInjective
<1>4. IsFiniteSet(1..n) /\ Cardinality(1..n) = n
  BY <1>1, FS_Interval
<1>5. keys \in Surjection(1..n, DOMAIN g)
  BY <1>3, <1>4, FS_Injection DEF n
<1>6. keys \in Seq(DOMAIN g) /\ Len(keys) = n
  BY <1>1, <1>2
<1>7. \A m \in DOMAIN g : \E k \in 1..n : keys[k] = m
  BY <1>5 DEF Surjection
<1> QED BY <1>2, <1>6, <1>7 DEF Lists

(* validateDAG comes to an end, throws exactly for what is not a DAG, and
   returns a topological order otherwise. *)
LEMMA ValidatorIsRightFor ==
  ASSUME NEW g, IsFiniteSet(DOMAIN g), Graph(g), NEW keys \in Orders(g)
  PROVE  /\ ~BadEdge(g) => End(keys, g).queue = <<>>
         /\ Throws(keys, g) <=> ~IsDag(g)
         /\ ~Throws(keys, g) => TopologicalOrder(g, End(keys, g).sorted)
<1> DEFINE st == End(keys, g)
           done == Elems(st.sorted)
           n == Len(keys)
<1>1. Lists(keys, DOMAIN g)
  BY OrdersList
<1>2. LoopInv(g, st) /\ st.queue = <<>>
  BY <1>1, LoopEnds
<1>3. CASE BadEdge(g)
  <2>1. Throws(keys, g)
    BY <1>3 DEF Throws
  <2>0. PICK m \in DOMAIN g : \E i \in DOMAIN Deps(g, m) :
          Deps(g, m)[i] \notin DOMAIN g \/ Deps(g, m)[i] = m
    BY <1>3 DEF BadEdge
  <2>2. PICK i \in DOMAIN Deps(g, m) : Deps(g, m)[i] \notin DOMAIN g \/ Deps(g, m)[i] = m
    BY <2>0
  <2>3. Deps(g, m)[i] \in DependsOn(g[m])
    BY <2>2 DEF Deps, DependsOn
  <2>4. CASE Deps(g, m)[i] \notin DOMAIN g
    BY <1>3, <2>1, <2>3, <2>4 DEF IsDag, Closed
  <2>5. CASE Deps(g, m)[i] = m
    <3>1. {m} \in SUBSET DOMAIN g /\ {m} # {}
      OBVIOUS
    <3>2. \A x \in {m} : DependsOn(g[x]) \cap {m} # {}
      BY <2>3, <2>5
    <3>3. ~Acyclic(g)
      BY <3>1, <3>2 DEF Acyclic
    <3> QED BY <1>3, <2>1, <3>3 DEF IsDag
  <2> QED BY <2>2, <2>4, <2>5
<1>4. CASE ~BadEdge(g)
  <2>1. Closed(g)
    <3> SUFFICES ASSUME NEW m \in DOMAIN g, NEW d \in DependsOn(g[m])
                 PROVE  d \in DOMAIN g
      BY DEF Closed
    <3>1. PICK i \in DOMAIN Deps(g, m) : Deps(g, m)[i] = d
      BY DEF Deps, DependsOn
    <3> QED BY <1>4, <3>1 DEF BadEdge
  <2>2. /\ Acyclic(g) <=> done = DOMAIN g
        /\ done = DOMAIN g => TopologicalOrder(g, st.sorted)
    BY <1>2, <2>1, LeftOverIsCyclic
  <2>3. Len(st.sorted) = n <=> done = DOMAIN g
    <3>1. n \in Nat /\ Cardinality(DOMAIN g) = n
      BY <1>1, ListedSet
    <3>2. Lists(st.sorted, done) /\ done \subseteq DOMAIN g
      BY <1>2 DEF LoopInv
    <3> HIDE DEF n, done, st
    <3>3. Cardinality(done) = Len(st.sorted)
      BY <3>2, ListedSet
    <3>4. Cardinality(done) = Cardinality(DOMAIN g) <=> done = DOMAIN g
      BY <3>2, FS_Subset
    <3> QED BY <3>1, <3>3, <3>4
  <2>4. Throws(keys, g) <=> Len(st.sorted) # n
    BY <1>4 DEF Throws
  <2> HIDE DEF n, done
  <2> QED BY <1>2, <2>1, <2>2, <2>3, <2>4 DEF IsDag
<1> QED BY <1>3, <1>4

(* Only finitely many skills are registered. *)
FinitelyMany == IsFiniteSet(DOMAIN skills)

(* Registering or removing one skill leaves finitely many. *)
LEMMA FinitelyManyHold == Spec => []FinitelyMany
<1>1. Init => FinitelyMany
  <2> SUFFICES ASSUME Init PROVE FinitelyMany
    OBVIOUS
  <2>1. DOMAIN skills = {}
    BY DEF Init
  <2> QED BY <2>1, FS_EmptySet DEF FinitelyMany
<1>2. FinitelyMany /\ [Next]_vars => FinitelyMany'
  <2> SUFFICES ASSUME FinitelyMany, [Next]_vars PROVE FinitelyMany'
    OBVIOUS
  <2>1. \A x : IsFiniteSet(DOMAIN skills \cup {x}) /\ IsFiniteSet(DOMAIN skills \ {x})
    BY FS_AddElement, FS_RemoveElement DEF FinitelyMany
  <2>2. \A x, d : DOMAIN With(skills, x, d) = DOMAIN skills \cup {x}
    BY DEF With
  <2>3. CASE \E d \in Offered : Register(d) \/ RegisterVersion(d)
    <3>1. PICK d \in Offered : skills' = With(skills, d.name, d)
      BY <2>3 DEF Register, RegisterVersion
    <3>2. DOMAIN With(skills, d.name, d) = DOMAIN skills \cup {d.name}
      BY <2>2
    <3>3. IsFiniteSet(DOMAIN skills \cup {d.name})
      BY <2>1
    <3> QED BY <3>1, <3>2, <3>3 DEF FinitelyMany
  <2>4. CASE \E n \in Names : Unregister(n)
    <3>1. PICK n : Unregister(n)
      BY <2>4
    <3>2. DOMAIN skills' = DOMAIN skills \ {n}
      BY <3>1, UnregisterMaps
    <3> QED BY <2>1, <3>2 DEF FinitelyMany
  <2>5. CASE \E n \in Names, v \in Versions : SwitchVersion(n, v)
    <3>1. PICK n, v : SwitchVersion(n, v)
      BY <2>5
    <3>2. DOMAIN skills' = DOMAIN skills \cup {n}
      BY <3>1, SwitchMaps
    <3> QED BY <2>1, <3>2 DEF FinitelyMany
  <2>6. CASE UNCHANGED vars
    BY <2>6 DEF vars, FinitelyMany
  <2> QED BY <2>3, <2>4, <2>5, <2>6 DEF Next
<1> QED BY <1>1, <1>2, PTL DEF Spec

(* Whatever is offered to the registry, in whatever order it was filled,
   validateDAG comes to an end, throws exactly for a graph that is not a DAG,
   and returns a topological order of the others. *)
THEOREM ValidatorIsRight == Spec => []ValidatorDecides
<1>1. TypeOK /\ FinitelyMany => ValidatorDecides
  <2> SUFFICES ASSUME TypeOK, FinitelyMany,
                      NEW d \in Offered,
                      NEW keys \in Orders(With(skills, d.name, d))
               PROVE  LET g == With(skills, d.name, d)
                      IN  /\ ~BadEdge(g) => End(keys, g).queue = <<>>
                          /\ Throws(keys, g) <=> ~IsDag(g)
                          /\ ~Throws(keys, g) => TopologicalOrder(g, End(keys, g).sorted)
    BY DEF ValidatorDecides
  <2> DEFINE g == With(skills, d.name, d)
  <2>1. /\ DOMAIN g = DOMAIN skills \cup {d.name}
        /\ g[d.name] = d
        /\ \A m \in DOMAIN skills : m # d.name => g[m] = skills[m]
    BY DEF With
  <2> HIDE DEF g
  <2>2. IsFiniteSet(DOMAIN g)
    BY <2>1, FS_AddElement DEF FinitelyMany
  <2>3. \A m \in DOMAIN g : g[m] \in Offered
    BY <2>1 DEF TypeOK
  <2>4. \A e \in Offered : e.dependencies \in Seq(Names)
    BY OfferedDefinitions DEF Definition
  <2>5. Graph(g)
    BY <2>3, <2>4 DEF Graph, Deps
  <2>6. keys \in Orders(g)
    BY DEF g
  <2> QED BY <2>2, <2>5, <2>6, ValidatorIsRightFor DEF g
<1> QED BY <1>1, TypeCorrect, FinitelyManyHold, PTL
=============================================================================
