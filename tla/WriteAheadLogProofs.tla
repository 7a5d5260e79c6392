------------------------- MODULE WriteAheadLogProofs -------------------------
(***************************************************************************)
(* What the log promises whatever the requests, crashes, replays,          *)
(* truncations and compactions: its types; that memory and file agree on   *)
(* what is pending; that what was settled stays settled; that a server     *)
(* nobody asks to replay repeats only what an earlier process left, and    *)
(* what it gives up another execution makes again; and how often a request *)
(* is executed and takes effect.                                           *)
(***************************************************************************)
EXTENDS WriteAheadLog, FiniteSetTheorems, SequenceTheorems, TLAPS

Lines == [op : {"append", "complete", "fail"}, id : Nat]

-----------------------------------------------------------------------------
(* What lines say *)

(* Of the lines about an entry there is a newest one. *)
LEMMA GreatestIndex ==
  ASSUME NEW n \in Nat, NEW S \in SUBSET (1..n), S # {}
  PROVE  \E k \in S : \A l \in S : l <= k
<1> DEFINE R == {ss \in Nat \X Nat : ss[1] < ss[2]}
           T == {n - k : k \in S}
<1>1. IsWellFoundedOn(R, Nat)
  BY NatLessThanWellFounded DEF OpToRel
<1>2. T \in SUBSET Nat /\ T # {}
  <2>1. \A k \in S : n - k \in Nat
    OBVIOUS
  <2> QED BY <2>1
<1>3. \E m \in T : \A x \in T : ~ (<<x, m>> \in R)
  <2> HIDE DEF R, T
  <2> QED BY <1>1, <1>2, WFMin
<1>4. PICK m \in T : \A x \in T : ~ (x < m)
  BY <1>2, <1>3
<1>5. PICK k \in S : m = n - k
  BY <1>4
<1>6. \A l \in S : ~ (n - l < n - k)
  BY <1>4, <1>5
<1> QED BY <1>6

(* The line that decides about its entry, and says that it is pending. *)
Stands(lines, k) ==
  /\ lines[k].op = "append"
  /\ \A l \in 1..Len(lines) : lines[l].id = lines[k].id => l <= k

(* Loading a file gives known entries a status, and an entry is pending exactly
   if the newest line about it is the one that began it. *)
LEMMA LoadedLines ==
  ASSUME NEW lines \in Seq(Lines)
  PROVE  /\ \A i \in DOMAIN Load(lines) :
              /\ \E k \in 1..Len(lines) : lines[k].id = i
              /\ Load(lines)[i] \in Statuses
         /\ \A i : i \in PendingIn(Load(lines)) <=>
                     \E k \in 1..Len(lines) : lines[k].id = i /\ Stands(lines, k)
<1> DEFINE Of(id) == {k \in 1..Len(lines) : lines[k].id = id}
           Newest(id) == CHOOSE k \in Of(id) : \A l \in Of(id) : l <= k
           Says(id) == CASE lines[Newest(id)].op = "append"   -> "pending"
                         [] lines[Newest(id)].op = "complete" -> "completed"
                         [] lines[Newest(id)].op = "fail"     -> "failed"
           D == {lines[k].id : k \in {l \in 1..Len(lines) : lines[l].op = "append"}}
<1>1. Len(lines) \in Nat /\ \A k \in 1..Len(lines) : lines[k] \in Lines
  BY LenProperties, ElementOfSeq
<1>2. Load(lines) = [id \in D |-> Says(id)]
  BY DEF Load
<1>3. ASSUME NEW i \in D
      PROVE  /\ Newest(i) \in 1..Len(lines) /\ lines[Newest(i)].id = i
             /\ \A l \in 1..Len(lines) : lines[l].id = i => l <= Newest(i)
  <2>1. Of(i) \in SUBSET (1..Len(lines)) /\ Of(i) # {}
    OBVIOUS
  <2>2. \E k \in Of(i) : \A l \in Of(i) : l <= k
    <3> HIDE DEF Of
    <3> QED BY <1>1, <2>1, GreatestIndex
  <2>3. Newest(i) \in Of(i) /\ \A l \in Of(i) : l <= Newest(i)
    BY <2>2
  <2> HIDE DEF Newest
  <2> QED BY <2>3
<1>4. ASSUME NEW i \in D
      PROVE  Says(i) \in Statuses /\ (Says(i) = "pending" <=> lines[Newest(i)].op = "append")
  <2>1. lines[Newest(i)].op \in {"append", "complete", "fail"}
    <3>1. lines[Newest(i)] \in Lines
      BY <1>1, <1>3
    <3> QED BY <3>1 DEF Lines
  <2> HIDE DEF Newest
  <2> QED BY <2>1 DEF Statuses
<1>5. \A i \in DOMAIN Load(lines) :
        (\E k \in 1..Len(lines) : lines[k].id = i) /\ Load(lines)[i] \in Statuses
  <2>1. DOMAIN Load(lines) = D /\ \A i \in D : Load(lines)[i] = Says(i)
    <3> HIDE DEF Says, D
    <3> QED BY <1>2
  <2>2. \A i \in D : \E k \in 1..Len(lines) : lines[k].id = i
    OBVIOUS
  <2> HIDE DEF Says, D
  <2> QED BY <1>4, <2>1, <2>2
<1>6. ASSUME NEW i
      PROVE  i \in PendingIn(Load(lines)) <=>
               \E k \in 1..Len(lines) : lines[k].id = i /\ Stands(lines, k)
  <2>1. i \in PendingIn(Load(lines)) <=> i \in D /\ Says(i) = "pending"
    <3> HIDE DEF Says, D
    <3> QED BY <1>2 DEF PendingIn
  <2>2. ASSUME i \in D, Says(i) = "pending"
        PROVE  lines[Newest(i)].id = i /\ Stands(lines, Newest(i))
    <3>1. lines[Newest(i)].op = "append" /\ lines[Newest(i)].id = i
      BY <1>3, <1>4, <2>2
    <3>2. \A l \in 1..Len(lines) : lines[l].id = i => l <= Newest(i)
      BY <1>3, <2>2
    <3> HIDE DEF Newest
    <3> QED BY <3>1, <3>2 DEF Stands
  <2>3. ASSUME NEW k \in 1..Len(lines), lines[k].id = i, Stands(lines, k)
        PROVE  i \in D /\ Says(i) = "pending"
    <3>1. i \in D
      BY <2>3 DEF Stands
    <3>2. Newest(i) \in 1..Len(lines) /\ k <= Newest(i) /\ Newest(i) <= k
      BY <1>3, <2>3, <3>1 DEF Stands
    <3>3. Newest(i) = k
      <4> HIDE DEF Newest
      <4> QED BY <1>1, <3>2
    <3>4. lines[Newest(i)].op = "append"
      BY <2>3, <3>3 DEF Stands
    <3> QED BY <1>4, <3>1, <3>4
  <2>4. i \in D /\ Says(i) = "pending" => Newest(i) \in 1..Len(lines)
    BY <1>3
  <2> HIDE DEF Says, D, Newest
  <2> QED BY <2>1, <2>2, <2>3, <2>4
<1> QED BY <1>5, <1>6

(* A line that is added decides about its entry and leaves the others alone. *)
LEMMA AddedLine ==
  ASSUME NEW lines \in Seq(Lines), NEW line \in Lines, NEW i
  PROVE  i \in PendingIn(Load(Append(lines, line))) <=>
           IF i = line.id THEN line.op = "append" ELSE i \in PendingIn(Load(lines))
<1> DEFINE more == Append(lines, line)
           n == Len(lines)
<1>1. /\ more \in Seq(Lines) /\ Len(more) = n + 1 /\ n \in Nat
      /\ more[n + 1] = line /\ \A k \in 1..n : more[k] = lines[k]
  BY AppendProperties, LenProperties
<1>2. i \in PendingIn(Load(more)) <=> \E k \in 1..Len(more) : more[k].id = i /\ Stands(more, k)
  BY <1>1, LoadedLines
<1>3. i \in PendingIn(Load(lines)) <=> \E k \in 1..Len(lines) : lines[k].id = i /\ Stands(lines, k)
  BY LoadedLines
<1> HIDE DEF more
<1>4. Stands(more, n + 1) <=> line.op = "append"
  BY <1>1 DEF Stands
<1>5. ASSUME NEW k \in 1..n
      PROVE  Stands(more, k) <=> Stands(lines, k) /\ lines[k].id # line.id
  <2>1. k \in 1..Len(more) /\ n + 1 \in 1..Len(more) /\ ~(n + 1 <= k)
    BY <1>1
  <2>2. \A l \in 1..Len(more) : l = n + 1 \/ l \in 1..n
    BY <1>1
  <2>3. more[k] = lines[k]
    BY <1>1
  <2>4. CASE lines[k].id = line.id
    BY <1>1, <2>1, <2>3, <2>4 DEF Stands
  <2>5. CASE lines[k].id # line.id
    BY <1>1, <2>1, <2>2, <2>3, <2>5 DEF Stands
  <2> QED BY <2>4, <2>5
<1>6. \A k \in 1..Len(more) : k = n + 1 \/ k \in 1..n
  BY <1>1
<1>7. n + 1 \in 1..Len(more) /\ 1..n \subseteq 1..Len(more)
  BY <1>1
<1>8. CASE i = line.id
  <2>1. \A k \in 1..n : more[k].id = i => ~ Stands(more, k)
    BY <1>1, <1>5, <1>8
  <2> QED BY <1>1, <1>2, <1>4, <1>6, <1>7, <1>8, <2>1 DEF more
<1>9. CASE i # line.id
  <2>1. more[n + 1].id # i
    BY <1>1, <1>9
  <2>2. \A k \in 1..n : more[k].id = i /\ Stands(more, k) <=> lines[k].id = i /\ Stands(lines, k)
    BY <1>1, <1>5, <1>9
  <2>3. (\E k \in 1..Len(more) : more[k].id = i /\ Stands(more, k)) <=>
          \E k \in 1..n : lines[k].id = i /\ Stands(lines, k)
    BY <1>6, <1>7, <2>1, <2>2
  <2> QED BY <1>2, <1>3, <1>9, <2>3 DEF more
<1> QED BY <1>8, <1>9

(* Cutting the oldest lines makes no entry pending that was not. *)
LEMMA CutLines ==
  ASSUME NEW lines \in Seq(Lines), NEW a \in 1..(Len(lines) + 1)
  PROVE  /\ SubSeq(lines, a, Len(lines)) \in Seq(Lines)
         /\ \A k \in 1..Len(SubSeq(lines, a, Len(lines))) :
              \E l \in 1..Len(lines) : SubSeq(lines, a, Len(lines))[k] = lines[l]
         /\ PendingIn(Load(SubSeq(lines, a, Len(lines)))) \subseteq PendingIn(Load(lines))
<1> DEFINE cut == SubSeq(lines, a, Len(lines))
           n == Len(lines)
<1>1. n \in Nat /\ \A k \in 1..n : lines[k] \in Lines
  BY LenProperties, ElementOfSeq
<1>2. /\ cut \in Seq(Lines) /\ Len(cut) = IF a <= n THEN n - a + 1 ELSE 0
      /\ \A k \in 1..(n - a + 1) : cut[k] = lines[a + k - 1]
  <2>1. \A k \in a..n : lines[k] \in Lines
    BY <1>1
  <2> QED BY <1>1, <2>1, SubSeqProperties
<1> HIDE DEF cut
<1>3. Len(cut) = n - a + 1
  BY <1>1, <1>2
<1>4. \A k \in 1..Len(cut) : a + k - 1 \in 1..n /\ cut[k] = lines[a + k - 1]
  BY <1>1, <1>2, <1>3
<1>5. ASSUME NEW k \in 1..Len(cut), Stands(cut, k)
      PROVE  Stands(lines, a + k - 1)
  <2>1. ASSUME NEW l \in 1..n, lines[l].id = lines[a + k - 1].id, l > a + k - 1
        PROVE  FALSE
    <3>1. l - a + 1 \in 1..Len(cut) /\ cut[l - a + 1] = lines[a + (l - a + 1) - 1] /\ l - a + 1 > k
      BY <1>1, <1>3, <1>4, <2>1
    <3>2. a + (l - a + 1) - 1 = l
      BY <1>1
    <3>3. cut[l - a + 1].id = cut[k].id
      BY <1>4, <2>1, <3>1, <3>2
    <3> QED BY <1>5, <3>1, <3>3 DEF Stands
  <2>2. \A l \in 1..n : lines[l].id = lines[a + k - 1].id => l <= a + k - 1
    BY <1>1, <2>1
  <2>3. lines[a + k - 1].op = "append"
    BY <1>4, <1>5 DEF Stands
  <2> QED BY <2>2, <2>3 DEF Stands
<1>6. ASSUME NEW i \in PendingIn(Load(cut))
      PROVE  i \in PendingIn(Load(lines))
  <2>1. PICK k \in 1..Len(cut) : cut[k].id = i /\ Stands(cut, k)
    BY <1>2, LoadedLines
  <2>2. lines[a + k - 1].id = i /\ Stands(lines, a + k - 1) /\ a + k - 1 \in 1..n
    BY <1>4, <1>5, <2>1
  <2> QED BY <2>2, LoadedLines
<1> QED BY <1>2, <1>4, <1>6 DEF cut

(* InOrder lists a finite set of numbers, each of them once. *)
LEMMA OrderedListing ==
  ASSUME NEW ids \in SUBSET Nat, IsFiniteSet(ids)
  PROVE  /\ InOrder(ids) \in Seq(ids) /\ Len(InOrder(ids)) = Cardinality(ids)
         /\ \A i \in ids : \E k \in 1..Cardinality(ids) : InOrder(ids)[k] = i
<1> DEFINE Below(i) == {j \in ids : j < i}
           n == Cardinality(ids)
           rank == [i \in ids |-> Cardinality(Below(i)) + 1]
<1>1. n \in Nat
  BY FS_CardinalityType
<1>2. ASSUME NEW i \in ids
      PROVE  IsFiniteSet(Below(i)) /\ Cardinality(Below(i)) \in Nat /\ Cardinality(Below(i)) < n
  <2>1. Below(i) \in SUBSET ids /\ Below(i) # ids
    OBVIOUS
  <2>2. IsFiniteSet(Below(i)) /\ Cardinality(Below(i)) <= n /\ Cardinality(Below(i)) # n
    <3> HIDE DEF Below
    <3> QED BY <2>1, FS_Subset
  <2>3. Cardinality(Below(i)) \in Nat
    BY <2>2, FS_CardinalityType
  <2> HIDE DEF Below
  <2> QED BY <1>1, <2>2, <2>3
<1>3. ASSUME NEW i \in ids, NEW j \in ids, i < j
      PROVE  Cardinality(Below(i)) < Cardinality(Below(j))
  <2>1. Below(i) \in SUBSET Below(j) /\ i \in Below(j) /\ i \notin Below(i)
    <3>1. \A x \in ids : x < i => x < j
      BY <1>3
    <3>2. ~(i < i)
      OBVIOUS
    <3> QED BY <1>3, <3>1, <3>2
  <2>2. Cardinality(Below(i)) <= Cardinality(Below(j)) /\ Cardinality(Below(i)) # Cardinality(Below(j))
    <3>1. IsFiniteSet(Below(j))
      BY <1>2
    <3> HIDE DEF Below
    <3> QED BY <2>1, <3>1, FS_Subset
  <2>3. Cardinality(Below(i)) \in Nat /\ Cardinality(Below(j)) \in Nat
    BY <1>2
  <2> HIDE DEF Below
  <2> QED BY <2>2, <2>3
<1>4. \A i, j \in ids : Cardinality(Below(i)) = Cardinality(Below(j)) => i = j
  <2>1. SUFFICES ASSUME NEW i \in ids, NEW j \in ids, i # j
                 PROVE  Cardinality(Below(i)) # Cardinality(Below(j))
    OBVIOUS
  <2>2. i < j \/ j < i
    BY <2>1
  <2>3. Cardinality(Below(i)) \in Nat /\ Cardinality(Below(j)) \in Nat
    BY <1>2
  <2>4. Cardinality(Below(i)) < Cardinality(Below(j)) \/ Cardinality(Below(j)) < Cardinality(Below(i))
    BY <1>3, <2>2
  <2> HIDE DEF Below
  <2> QED BY <2>3, <2>4
<1>5. rank \in Injection(ids, 1..n)
  <2>1. \A i \in ids : rank[i] = Cardinality(Below(i)) + 1 /\ rank[i] \in 1..n
    <3> SUFFICES ASSUME NEW i \in ids
                 PROVE  rank[i] = Cardinality(Below(i)) + 1 /\ rank[i] \in 1..n
      OBVIOUS
    <3>1. rank[i] = Cardinality(Below(i)) + 1
      OBVIOUS
    <3>2. Cardinality(Below(i)) \in Nat /\ Cardinality(Below(i)) < n
      BY <1>2
    <3> HIDE DEF Below, rank, n
    <3> QED BY <1>1, <3>1, <3>2
  <2>2. \A i, j \in ids : rank[i] = rank[j] => i = j
    <3> SUFFICES ASSUME NEW i \in ids, NEW j \in ids, rank[i] = rank[j]
                 PROVE  i = j
      OBVIOUS
    <3>1. rank[i] = Cardinality(Below(i)) + 1 /\ rank[j] = Cardinality(Below(j)) + 1
      BY <2>1
    <3>2. Cardinality(Below(i)) \in Nat /\ Cardinality(Below(j)) \in Nat
      BY <1>2
    <3>3. Cardinality(Below(i)) = Cardinality(Below(j))
      <4>1. Cardinality(Below(i)) + 1 = Cardinality(Below(j)) + 1
        BY <3>1
      <4>2. \A x, y \in Nat : x + 1 = y + 1 => x = y
        OBVIOUS
      <4> HIDE DEF Below, rank
      <4> QED BY <3>2, <4>1, <4>2
    <3> QED BY <1>4, <3>3
  <2>3. rank = [i \in ids |-> rank[i]]
    OBVIOUS
  <2> HIDE DEF rank, n
  <2> QED BY <2>1, <2>2, <2>3 DEF Injection, IsInjective
<1>6. \A k \in 1..n : \E i \in ids : Cardinality(Below(i)) = k - 1
  <2>1. IsFiniteSet(1..n) /\ Cardinality(1..n) = n
    <3> HIDE DEF n
    <3> QED BY <1>1, FS_Interval
  <2>2. rank \in Surjection(ids, 1..n)
    <3> HIDE DEF rank
    <3> QED BY <1>5, <2>1, FS_Injection
  <2>3. \A k \in 1..n : \E i \in ids : rank[i] = k
    <3> HIDE DEF rank, n
    <3> QED BY <2>2 DEF Surjection
  <2> SUFFICES ASSUME NEW k \in 1..n
               PROVE  \E i \in ids : Cardinality(Below(i)) = k - 1
    OBVIOUS
  <2>4. PICK i \in ids : rank[i] = k
    BY <2>3
  <2>5. rank[i] = Cardinality(Below(i)) + 1 /\ Cardinality(Below(i)) \in Nat
    BY <1>2
  <2> HIDE DEF Below, rank, n
  <2> QED BY <1>1, <2>4, <2>5
<1> DEFINE Nth(k) == CHOOSE i \in ids : Cardinality(Below(i)) = k - 1
           order == [k \in 1..n |-> Nth(k)]
<1>7. order = InOrder(ids)
  BY DEF InOrder
<1>8. \A k \in 1..n : order[k] \in ids /\ Cardinality(Below(order[k])) = k - 1
  <2> HIDE DEF Below, n
  <2> QED BY <1>6
<1>9. order \in Seq(ids) /\ Len(order) = n
  <2>1. order \in [1..n -> ids]
    <3>1. order = [k \in 1..n |-> order[k]]
      <4> HIDE DEF Nth, n
      <4> QED OBVIOUS
    <3> HIDE DEF order, n, Below
    <3> QED BY <1>8, <3>1
  <2> HIDE DEF order, n
  <2> QED BY <1>1, <2>1
<1>10. ASSUME NEW i \in ids
       PROVE  \E k \in 1..n : order[k] = i
  <2> DEFINE k == Cardinality(Below(i)) + 1
  <2>1. k \in 1..n /\ k - 1 = Cardinality(Below(i))
    <3>1. Cardinality(Below(i)) \in Nat /\ Cardinality(Below(i)) < n
      BY <1>2
    <3> HIDE DEF Below, n
    <3> QED BY <1>1, <3>1
  <2>2. order[k] \in ids /\ Cardinality(Below(order[k])) = Cardinality(Below(i))
    <3> HIDE DEF Below, n, k, order
    <3> QED BY <1>8, <2>1
  <2>3. order[k] = i
    <3> HIDE DEF Below, k, order
    <3> QED BY <1>4, <2>2
  <2> QED BY <2>1, <2>3
<1> HIDE DEF order
<1> QED BY <1>7, <1>9, <1>10

(* A file that holds one opening line per entry says that just these are pending. *)
LEMMA RewrittenLines ==
  ASSUME NEW ids \in SUBSET Nat, IsFiniteSet(ids)
  PROVE  /\ AppendLines(InOrder(ids)) \in Seq([op : {"append"}, id : ids])
         /\ AppendLines(InOrder(ids)) \in Seq(Lines)
         /\ PendingIn(Load(AppendLines(InOrder(ids)))) = ids
<1> DEFINE s == InOrder(ids)
           n == Cardinality(ids)
           lines == AppendLines(s)
<1>1. s \in Seq(ids) /\ Len(s) = n /\ \A i \in ids : \E k \in 1..n : s[k] = i
  BY OrderedListing
<1>2. n \in Nat /\ \A k \in 1..n : s[k] \in ids
  <2> HIDE DEF s, n
  <2> QED BY <1>1, ElementOfSeq, LenProperties
<1>3. lines = [k \in 1..n |-> [op |-> "append", id |-> s[k]]]
  <2> HIDE DEF s, n
  <2> QED BY <1>1 DEF AppendLines, Line
<1> HIDE DEF s, n, lines
<1>4. lines \in Seq([op : {"append"}, id : ids]) /\ Len(lines) = n
  <2> DEFINE L == [op : {"append"}, id : ids]
  <2>1. \A k \in 1..n : [op |-> "append", id |-> s[k]] \in L
    BY <1>2
  <2> HIDE DEF L
  <2>2. lines \in [1..n -> L]
    BY <1>3, <2>1
  <2>3. lines \in Seq(L) /\ Len(lines) = n
    BY <1>2, <2>2
  <2> QED BY <2>3 DEF L
<1>5. lines \in Seq(Lines)
  <2>1. [op : {"append"}, id : ids] \subseteq Lines
    BY DEF Lines
  <2> QED BY <1>4, <2>1, SeqMonotonic
<1>6. \A i : i \in PendingIn(Load(lines)) <=>
               \E k \in 1..Len(lines) : lines[k].id = i /\ Stands(lines, k)
  BY <1>5, LoadedLines
<1>7. ASSUME NEW i \in PendingIn(Load(lines))
      PROVE  i \in ids
  <2>1. PICK k \in 1..n : lines[k].id = i
    BY <1>4, <1>6
  <2> QED BY <1>2, <1>3, <2>1
<1>8. ASSUME NEW i \in ids
      PROVE  i \in PendingIn(Load(lines))
  <2>1. {k \in 1..n : s[k] = i} \in SUBSET (1..n) /\ {k \in 1..n : s[k] = i} # {}
    BY <1>1
  <2>2. PICK k \in {k \in 1..n : s[k] = i} : \A l \in {l \in 1..n : s[l] = i} : l <= k
    BY <1>2, <2>1, GreatestIndex
  <2>3. k \in 1..Len(lines) /\ lines[k].id = i /\ lines[k].op = "append"
    BY <1>3, <1>4, <2>2
  <2>4. \A l \in 1..Len(lines) : lines[l].id = lines[k].id => l <= k
    BY <1>3, <1>4, <2>2, <2>3
  <2> QED BY <1>6, <2>3, <2>4 DEF Stands
<1> QED BY <1>4, <1>5, <1>7, <1>8 DEF lines, s

-----------------------------------------------------------------------------
(* Types *)

Ends == {"completed", "failed"}
Named(ids) == [op : {"append", "complete", "fail"}, id : ids]
Planned(ids) == [queue : Seq(ids), orig : ids \cup {0}, exec : Nat]

MemOK  == DOMAIN mem \subseteq Ids /\ \A i \in DOMAIN mem : mem[i] \in Statuses
FileOK == file \in Seq(Named(Ids)) /\ tail \in {"clean", "half", "open"}
PastOK ==
  /\ settled \subseteq Ids /\ DOMAIN ended \subseteq Ids
  /\ \A i \in DOMAIN ended : ended[i] \in Ends
RestOK ==
  /\ env \in Environments /\ up \in BOOLEAN
  /\ entries \in Seq([job : Jobs, parent : Nat])
  /\ live \subseteq Ids
  /\ snapshot = NotRead \/ snapshot \in Seq(Ids)
  /\ used \in [Events -> Nat]
StoreOK == MemOK /\ FileOK /\ PastOK /\ RestOK

\* Whoever replays an entry is going on or has ended; nothing survives a crash.
QueuesOK ==
  /\ skipping \in Seq(Ids)
  /\ replays \in Seq(Planned(Ids))
  /\ \A r \in 1..Len(replays) : replays[r].orig # 0 => replays[r].exec \in live \cup DOMAIN ended
  /\ ~up => live = {} /\ skipping = <<>> /\ replays = <<>>

TypeInv == StoreOK /\ QueuesOK

(* A file of lines about known entries is a file of lines. *)
LEMMA NamedLines ==
  ASSUME NEW ids \in SUBSET Nat, NEW more \in SUBSET Nat, ids \subseteq more
  PROVE  /\ \A s \in Seq(Named(ids)) : s \in Seq(Named(more)) /\ s \in Seq(Lines)
         /\ \A s \in Seq(ids) : s \in Seq(more)
         /\ Planned(ids) \subseteq Planned(more)
         /\ \A s \in Seq(Planned(ids)) : s \in Seq(Planned(more))
<1>1. Named(ids) \subseteq Named(more) /\ Named(ids) \subseteq Lines
  BY DEF Named, Lines
<1>2. \A s \in Seq(ids) : s \in Seq(more)
  BY SeqMonotonic
<1>3. \A s \in Seq(Named(ids)) : s \in Seq(Named(more)) /\ s \in Seq(Lines)
  BY <1>1, SeqMonotonic
<1>4. Planned(ids) \subseteq Planned(more)
  BY <1>2 DEF Planned
<1>5. \A s \in Seq(Planned(ids)) : s \in Seq(Planned(more))
  BY <1>4, SeqMonotonic
<1> QED BY <1>2, <1>3, <1>4, <1>5

(* Identifiers are numbers, and finitely many. *)
LEMMA KnownIds ==
  ASSUME RestOK
  PROVE  /\ Len(entries) \in Nat /\ Ids \in SUBSET Nat /\ IsFiniteSet(Ids)
         /\ Len(entries) + 1 \notin Ids /\ 0 \notin Ids
<1>1. Len(entries) \in Nat
  BY LenProperties DEF RestOK
<1>2. IsFiniteSet(1..Len(entries))
  BY <1>1, FS_Interval
<1> QED BY <1>1, <1>2 DEF Ids

(* What is written is a file of lines about known entries again. *)
LEMMA WrittenFile ==
  ASSUME NEW ids \in SUBSET Nat, file \in Seq(Named(ids)), NEW line \in Named(ids), Write(line),
         tail \in {"clean", "half", "open"}
  PROVE  file' \in Seq(Named(ids)) /\ tail' = "clean"
<1>1. tail' = "clean"
  BY DEF Write
<1>2. CASE tail = "clean"
  <2>1. file' = Append(file, line)
    BY <1>2 DEF Write
  <2> QED BY <1>1, <2>1, AppendProperties
<1>3. CASE tail = "half"
  BY <1>1, <1>3 DEF Write
<1>4. CASE tail = "open"
  <2>1. file' = SubSeq(file, 1, Len(file) - 1)
    BY <1>4 DEF Write, Front
  <2>2. Len(file) \in Nat /\ \A k \in 1..Len(file) : file[k] \in Named(ids)
    BY LenProperties, ElementOfSeq
  <2>3. \A k \in 1..(Len(file) - 1) : file[k] \in Named(ids)
    BY <2>2
  <2> QED BY <1>1, <2>1, <2>2, <2>3, SubSeqProperties
<1> QED BY <1>2, <1>3, <1>4

(* Beginning an entry takes the next number and keeps the types. *)
LEMMA BeginKeepsStore ==
  ASSUME StoreOK, NEW job \in Jobs, NEW parent \in Nat, Begin(job, parent),
         UNCHANGED <<env, up, settled, ended, used, snapshot>>
  PROVE  /\ StoreOK'
         /\ Ids' = Ids \cup {Len(entries) + 1} /\ Ids' \in SUBSET Nat
         /\ live' = live \cup {Len(entries) + 1}
<1> DEFINE id == Len(entries) + 1
           e == [job |-> job, parent |-> parent]
<1>1. Len(entries) \in Nat /\ Ids \in SUBSET Nat
  BY KnownIds DEF StoreOK
<1>2. entries' \in Seq([job : Jobs, parent : Nat]) /\ Len(entries') = id
  <2>1. entries' = Append(entries, e) /\ e \in [job : Jobs, parent : Nat]
    BY DEF Begin
  <2>2. entries \in Seq([job : Jobs, parent : Nat])
    BY DEF StoreOK, RestOK
  <2> HIDE DEF e
  <2> QED BY <2>1, <2>2, AppendProperties
<1>3. Ids' = Ids \cup {id} /\ Ids' \in SUBSET Nat /\ id \in Ids'
  BY <1>1, <1>2 DEF Ids
<1>4. MemOK'
  <2>1. mem' = [i \in DOMAIN mem \cup {id} |-> IF i = id THEN "pending" ELSE mem[i]]
    BY DEF Begin
  <2> HIDE DEF id
  <2> QED BY <1>3, <2>1 DEF StoreOK, MemOK, Statuses
<1>5. FileOK'
  <2>1. file \in Seq(Named(Ids'))
    BY <1>1, <1>3, NamedLines DEF StoreOK, FileOK
  <2>2. Line("append", id) \in Named(Ids') /\ Write(Line("append", id))
    BY <1>3 DEF Begin, Line, Named
  <2>3. tail \in {"clean", "half", "open"}
    BY DEF StoreOK, FileOK
  <2>4. file' \in Seq(Named(Ids')) /\ tail' = "clean"
    <3> HIDE DEF id
    <3> QED BY <1>3, <2>1, <2>2, <2>3, WrittenFile
  <2> QED BY <2>4 DEF FileOK
<1>6. live' = live \cup {id}
  BY DEF Begin
<1>7. PastOK'
  BY <1>3 DEF StoreOK, PastOK
<1>8. snapshot' = NotRead \/ snapshot' \in Seq(Ids')
  <2>1. snapshot \in Seq(Ids) => snapshot \in Seq(Ids')
    BY <1>1, <1>3, NamedLines
  <2> QED BY <2>1 DEF StoreOK, RestOK, NotRead
<1>9. RestOK'
  BY <1>2, <1>3, <1>6, <1>8 DEF StoreOK, RestOK, NotRead
<1> QED BY <1>3, <1>4, <1>5, <1>6, <1>7, <1>9 DEF StoreOK

(* Settling a known entry keeps the types. *)
LEMMA MarkKeepsStore ==
  ASSUME StoreOK, NEW id \in Ids, NEW st \in Ends, Mark(id, st), UNCHANGED entries
  PROVE  MemOK' /\ FileOK' /\ settled' \subseteq Ids'
<1>1. Ids' = Ids /\ Ids \in SUBSET Nat
  BY KnownIds DEF StoreOK, Ids
<1>2. MemOK'
  <2>1. mem' = [mem EXCEPT ![id] = st]
    BY DEF Mark
  <2> QED BY <1>1, <2>1 DEF StoreOK, MemOK, Statuses, Ends
<1>3. FileOK'
  <2> DEFINE line == Line(IF st = "completed" THEN "complete" ELSE "fail", id)
  <2>1. line \in Named(Ids) /\ Write(line)
    BY DEF Mark, Line, Named
  <2>2. file \in Seq(Named(Ids)) /\ tail \in {"clean", "half", "open"}
    BY DEF StoreOK, FileOK
  <2> HIDE DEF line
  <2>3. file' \in Seq(Named(Ids)) /\ tail' = "clean"
    BY <1>1, <2>1, <2>2, WrittenFile
  <2> QED BY <1>1, <2>3 DEF FileOK
<1>4. settled' \subseteq Ids'
  BY <1>1 DEF Mark, StoreOK, PastOK
<1> QED BY <1>2, <1>3, <1>4

-----------------------------------------------------------------------------
(* What a step does to the log *)

Opened ==
  \E job \in Jobs, parent \in Nat :
    Begin(job, parent) /\ UNCHANGED <<env, up, settled, ended, used, snapshot>>
Ended(id, st) == [i \in DOMAIN ended \cup {id} |-> IF i = id THEN st ELSE ended[i]]
Closed ==
  \E id \in Ids, st \in Ends :
    /\ Mark(id, st) /\ UNCHANGED <<env, entries, up, used, snapshot>>
    /\ live' \subseteq live
    /\ ended' = ended \/ ended' = Ended(id, st)
Left == UNCHANGED <<env, entries, up, mem, file, tail, live, settled, ended, snapshot>>

(* What is taken off a queue is a known entry. *)
LEMMA HeadOfQueue ==
  ASSUME RestOK, NEW q \in Seq(Ids), q # <<>>
  PROVE  /\ Head(q) \in Ids /\ Tail(q) \in Seq(Ids)
         /\ \A k \in 1..Len(Tail(q)) : \E l \in 1..Len(q) : Tail(q)[k] = q[l]
         /\ \E l \in 1..Len(q) : Head(q) = q[l]
<1>1. /\ Head(q) \in Ids /\ Tail(q) \in Seq(Ids) /\ Len(Tail(q)) = Len(q) - 1
      /\ \A k \in 1..Len(Tail(q)) : Tail(q)[k] = q[k + 1]
  BY HeadTailProperties
<1>2. Len(q) \in Nat /\ Len(q) # 0
  BY LenProperties, EmptySeq
<1>3. \A k \in 1..Len(Tail(q)) : k + 1 \in 1..Len(q)
  BY <1>1, <1>2
<1>4. Head(q) = q[1] /\ 1 \in 1..Len(q)
  BY <1>2
<1> QED BY <1>1, <1>3, <1>4

(* Every step begins an entry, settles one, leaves the log as it is, or is one of
   the five that rewrite, lose, load or read it as a whole. *)
LEMMA KindsOfStep ==
  ASSUME TypeInv, [Next]_vars
  PROVE  Opened \/ Closed \/ Left \/ Compact \/ Crash \/ Restart \/ ScriptRead \/ ScriptRewrite
<1>1. StoreOK /\ QueuesOK /\ RestOK
  BY DEF TypeInv, StoreOK
<1>2. \A i \in Ids : entries[i].job \in Jobs /\ i \in Nat
  <2>1. \A i \in 1..Len(entries) : entries[i] \in [job : Jobs, parent : Nat]
    BY <1>1, ElementOfSeq DEF RestOK
  <2>2. Ids \in SUBSET Nat
    BY <1>1, KnownIds
  <2> QED BY <2>1, <2>2 DEF Ids
<1>3. \A r \in 1..Len(replays) : replays[r] \in Planned(Ids)
  BY <1>1, ElementOfSeq DEF QueuesOK
<1>4. CASE UNCHANGED vars
  BY <1>4 DEF vars, Left
<1>5. ASSUME NEW j \in Jobs, Accept(j)
      PROVE  Opened
  BY <1>5 DEF Accept, Opened
<1>6. ASSUME NEW i \in live, BeginChild(i)
      PROVE  Opened
  <2>1. i \in Ids
    BY <1>1 DEF RestOK
  <2>2. entries[i].job \in Jobs /\ i \in Nat
    BY <1>2, <2>1
  <2> QED BY <1>6, <2>2 DEF BeginChild, Opened
<1>7. ASSUME NEW i \in live, End(i)
      PROVE  Closed
  <2>1. PICK st \in {"completed", "failed"} : Mark(i, st) /\ ended' = Ended(i, st)
    BY <1>7 DEF End, Ended
  <2>2. i \in Ids /\ st \in Ends /\ live' \subseteq live
    BY <1>1, <1>7 DEF End, RestOK, Ends
  <2>3. UNCHANGED <<env, entries, up, used, snapshot>>
    BY <1>7 DEF End
  <2> QED BY <2>1, <2>2, <2>3 DEF Closed
<1>8. CASE SkipChild
  <2>1. Head(skipping) \in Ids
    BY <1>1, <1>8, HeadOfQueue DEF SkipChild, QueuesOK
  <2>2. "failed" \in Ends
    BY DEF Ends
  <2>3. Mark(Head(skipping), "failed") /\ UNCHANGED <<env, entries, up, live, snapshot, ended, used>>
    BY <1>8 DEF SkipChild
  <2> QED BY <2>1, <2>2, <2>3 DEF Closed
<1>9. ASSUME NEW r \in 1..Len(replays), replays[r].queue # <<>>
      PROVE  Head(replays[r].queue) \in Ids
  <2>1. replays[r].queue \in Seq(Ids)
    BY <1>3 DEF Planned
  <2> QED BY <1>1, <1>9, <2>1, HeadOfQueue
<1>10. ASSUME NEW r \in 1..Len(replays), ReplayNext(r)
       PROVE  Opened
  <2>1. Head(replays[r].queue) \in Ids
    BY <1>9, <1>10 DEF ReplayNext
  <2>2. entries[Head(replays[r].queue)].job \in Jobs
    BY <1>2, <2>1
  <2>3. Begin(entries[Head(replays[r].queue)].job, 0)
    BY <1>10 DEF ReplayNext
  <2>4. UNCHANGED <<env, up, snapshot, settled, ended, used>>
    BY <1>10 DEF ReplayNext
  <2>5. 0 \in Nat
    OBVIOUS
  <2> QED BY <2>2, <2>3, <2>4, <2>5 DEF Opened
<1>11. ASSUME NEW r \in 1..Len(replays), ReplayRefused(r)
       PROVE  Closed
  <2>1. Head(replays[r].queue) \in Ids
    BY <1>9, <1>11 DEF ReplayRefused
  <2>2. "failed" \in Ends
    BY DEF Ends
  <2>3. Mark(Head(replays[r].queue), "failed") /\ UNCHANGED <<env, entries, up, live, snapshot, ended, used>>
    BY <1>11 DEF ReplayRefused
  <2> QED BY <2>1, <2>2, <2>3 DEF Closed
<1>12. ASSUME NEW r \in 1..Len(replays), ReplayEnds(r)
       PROVE  Closed
  <2>1. replays[r].orig # 0 /\ replays[r].orig \in Ids \cup {0} /\ replays[r].exec \notin live
    BY <1>3, <1>12 DEF ReplayEnds, Planned
  <2>2. ended[replays[r].exec] \in Ends
    BY <1>1, <2>1 DEF QueuesOK, StoreOK, PastOK
  <2>3. Mark(replays[r].orig, ended[replays[r].exec]) /\ UNCHANGED <<env, entries, up, live, snapshot, ended, used>>
    BY <1>12 DEF ReplayEnds
  <2> QED BY <2>1, <2>2, <2>3 DEF Closed
<1>13. CASE ManualReplay
  BY <1>13 DEF ManualReplay, Left
<1> QED
  BY <1>4, <1>5, <1>6, <1>7, <1>8, <1>10, <1>11, <1>12, <1>13
  DEF Next, ServerStep, ReplayStep

(* Counting an event keeps the counters counters. *)
LEMMA UseCounts ==
  ASSUME RestOK, NEW k \in Events, Use(k)
  PROVE  used' \in [Events -> Nat] /\ used'[k] # 0 /\ \A l \in Events : l # k => used'[l] = used[l]
BY DEF RestOK, Use

(* What is pending in memory is known, and its rewriting a file. *)
LEMMA RewrittenMemory ==
  ASSUME StoreOK
  PROVE  /\ PendingIn(mem) \in SUBSET Nat /\ IsFiniteSet(PendingIn(mem))
         /\ AppendLines(InOrder(PendingIn(mem))) \in Seq(Named(Ids))
<1>1. PendingIn(mem) \in SUBSET Ids /\ Ids \in SUBSET Nat /\ IsFiniteSet(Ids)
  BY KnownIds DEF StoreOK, MemOK, PendingIn
<1>2. PendingIn(mem) \in SUBSET Nat /\ IsFiniteSet(PendingIn(mem))
  BY <1>1, FS_Subset
<1>3. AppendLines(InOrder(PendingIn(mem))) \in Seq([op : {"append"}, id : PendingIn(mem)])
  BY <1>2, RewrittenLines
<1>4. [op : {"append"}, id : PendingIn(mem)] \subseteq Named(Ids)
  BY <1>1 DEF Named
<1> QED BY <1>2, <1>3, <1>4, SeqMonotonic

(* A file that is cut holds lines it held before. *)
LEMMA TrimmedFile ==
  ASSUME StoreOK
  PROVE  /\ Trimmed(file) \in Seq(Named(Ids)) /\ Trimmed(file) \in Seq(Lines)
         /\ PendingIn(Load(Trimmed(file))) \subseteq PendingIn(Load(file))
<1>1. file \in Seq(Named(Ids)) /\ file \in Seq(Lines) /\ Ids \in SUBSET Nat
  BY KnownIds, NamedLines DEF StoreOK, FileOK
<1>2. Len(file) \in Nat
  BY <1>1, LenProperties
<1>3. env.keepLines \in Nat /\ env.keepLines # 0 /\ env.maxLines \in Nat /\ env.keepLines <= env.maxLines
  <2>1. env \in Environment /\ env.keepLines \in 1..env.maxLines
    BY LogConfig DEF StoreOK, RestOK
  <2> QED BY <2>1 DEF Environment
<1>4. Kept \in Nat /\ Kept <= env.maxLines
  BY <1>3 DEF Kept
<1>5. CASE Len(file) <= env.maxLines
  BY <1>1, <1>5 DEF Trimmed
<1>6. CASE ~(Len(file) <= env.maxLines) /\ Len(file) <= env.hugeLines
  <2> DEFINE a == Len(file) - Kept + 1
  <2>1. Trimmed(file) = SubSeq(file, a, Len(file))
    BY <1>6 DEF Trimmed
  <2>2. a \in 1..(Len(file) + 1)
    BY <1>2, <1>3, <1>4, <1>6
  <2> HIDE DEF a
  <2>3. /\ \A k \in 1..Len(Trimmed(file)) : \E l \in 1..Len(file) : Trimmed(file)[k] = file[l]
        /\ Trimmed(file) \in Seq(Lines)
        /\ PendingIn(Load(Trimmed(file))) \subseteq PendingIn(Load(file))
    BY <1>1, <2>1, <2>2, CutLines
  <2>4. \A k \in a..Len(file) : file[k] \in Named(Ids)
    <3>1. \A k \in 1..Len(file) : file[k] \in Named(Ids)
      BY <1>1, ElementOfSeq
    <3>2. \A k \in a..Len(file) : k \in 1..Len(file)
      BY <1>2, <2>2
    <3> QED BY <3>1, <3>2
  <2>5. Trimmed(file) \in Seq(Named(Ids))
    <3>1. a \in Int /\ Len(file) \in Int
      BY <1>2, <2>2
    <3> QED BY <2>1, <2>4, <3>1, SubSeqProperties
  <2> QED BY <2>3, <2>5
<1>7. CASE ~(Len(file) <= env.maxLines) /\ ~(Len(file) <= env.hugeLines)
  <2>1. Trimmed(file) = <<>>
    BY <1>7 DEF Trimmed
  <2>2. <<>> \in Seq(Named(Ids)) /\ <<>> \in Seq(Lines) /\ Len(<<>>) = 0
    OBVIOUS
  <2>3. PendingIn(Load(<<>>)) = {}
    <3> DEFINE none == <<>>
    <3>1. none \in Seq(Lines) /\ 1..Len(none) = {}
      OBVIOUS
    <3> HIDE DEF none
    <3>2. \A i : i \in PendingIn(Load(none)) <=>
                   \E k \in 1..Len(none) : none[k].id = i /\ Stands(none, k)
      BY <3>1, LoadedLines
    <3>3. PendingIn(Load(none)) = {}
      BY <3>1, <3>2
    <3> QED BY <3>3 DEF none
  <2> QED BY <2>1, <2>2, <2>3
<1> QED BY <1>5, <1>6, <1>7

(* Loading a file of lines about known entries is a memory of known entries. *)
LEMMA LoadedMemory ==
  ASSUME NEW ids \in SUBSET Nat, NEW lines \in Seq(Named(ids))
  PROVE  /\ DOMAIN Load(lines) \subseteq ids /\ \A i \in DOMAIN Load(lines) : Load(lines)[i] \in Statuses
         /\ PendingIn(Load(lines)) \subseteq ids
<1>1. lines \in Seq(Lines)
  BY NamedLines
<1>2. \A i \in DOMAIN Load(lines) :
        (\E k \in 1..Len(lines) : lines[k].id = i) /\ Load(lines)[i] \in Statuses
  BY <1>1, LoadedLines
<1>3. \A k \in 1..Len(lines) : lines[k].id \in ids
  <2>1. \A k \in 1..Len(lines) : lines[k] \in Named(ids)
    BY ElementOfSeq
  <2> QED BY <2>1 DEF Named
<1>4. DOMAIN Load(lines) \subseteq ids
  BY <1>2, <1>3
<1> QED BY <1>2, <1>4 DEF PendingIn

(* The log keeps its types, and entries are only added. *)
LEMMA StepKeepsStore ==
  ASSUME TypeInv, [Next]_vars, used' \in [Events -> Nat]
  PROVE  StoreOK' /\ Ids \subseteq Ids' /\ Ids' \in SUBSET Nat
<1>1. StoreOK /\ RestOK
  BY DEF TypeInv, StoreOK
<1>2. Ids \in SUBSET Nat /\ IsFiniteSet(Ids)
  BY <1>1, KnownIds
<1>3. entries' = entries => Ids' = Ids
  BY DEF Ids
<1>4. NotRead' = NotRead
  BY DEF NotRead
<1>5. CASE Opened
  <2>1. PICK job \in Jobs, parent \in Nat :
          Begin(job, parent) /\ UNCHANGED <<env, up, settled, ended, used, snapshot>>
    BY <1>5 DEF Opened
  <2>2. StoreOK' /\ Ids' = Ids \cup {Len(entries) + 1} /\ Ids' \in SUBSET Nat
    BY <1>1, <2>1, BeginKeepsStore
  <2> QED BY <2>2
<1>6. CASE Closed
  <2>1. PICK id \in Ids, st \in Ends :
          /\ Mark(id, st) /\ UNCHANGED <<env, entries, up, used, snapshot>>
          /\ live' \subseteq live
          /\ ended' = ended \/ ended' = Ended(id, st)
    BY <1>6 DEF Closed
  <2>2. MemOK' /\ FileOK' /\ settled' \subseteq Ids' /\ Ids' = Ids
    BY <1>1, <1>3, <2>1, MarkKeepsStore
  <2>3. DOMAIN ended' \subseteq Ids /\ \A i \in DOMAIN ended' : ended'[i] \in Ends
    <3>1. DOMAIN ended \subseteq Ids /\ \A i \in DOMAIN ended : ended[i] \in Ends
      BY <1>1 DEF StoreOK, PastOK
    <3>2. /\ DOMAIN Ended(id, st) = DOMAIN ended \cup {id}
          /\ \A i \in DOMAIN Ended(id, st) : Ended(id, st)[i] = IF i = id THEN st ELSE ended[i]
      BY DEF Ended
    <3> QED BY <2>1, <3>1, <3>2
  <2>4. PastOK'
    BY <2>2, <2>3 DEF PastOK
  <2>5. RestOK'
    BY <1>1, <1>4, <2>1, <2>2 DEF RestOK
  <2> QED BY <1>2, <2>2, <2>4, <2>5 DEF StoreOK
<1>7. ASSUME UNCHANGED <<entries, mem, settled, ended>>
      PROVE  MemOK' /\ PastOK' /\ Ids' = Ids
  BY <1>1, <1>3, <1>7 DEF StoreOK, MemOK, PastOK
<1>8. CASE Left
  <2>1. MemOK' /\ PastOK' /\ Ids' = Ids
    BY <1>7, <1>8 DEF Left
  <2>2. FileOK' /\ RestOK'
    BY <1>1, <1>4, <1>8, <2>1 DEF Left, StoreOK, FileOK, RestOK
  <2> QED BY <1>2, <2>1, <2>2 DEF StoreOK
<1>9. CASE Compact
  <2>1. MemOK' /\ PastOK' /\ Ids' = Ids
    BY <1>7, <1>9 DEF Compact
  <2>2. FileOK'
    <3>1. file' = AppendLines(InOrder(PendingIn(mem))) /\ tail' = "clean"
      BY <1>9 DEF Compact
    <3>2. file' \in Seq(Named(Ids))
      BY <1>1, <3>1, RewrittenMemory
    <3> QED BY <2>1, <3>1, <3>2 DEF FileOK
  <2>3. RestOK'
    BY <1>1, <1>4, <1>9, <2>1 DEF Compact, StoreOK, RestOK
  <2> QED BY <1>2, <2>1, <2>2, <2>3 DEF StoreOK
<1>10. CASE Crash
  <2>1. PastOK' /\ Ids' = Ids /\ MemOK'
    <3>1. mem' = <<>> /\ UNCHANGED <<entries, settled, ended>>
      BY <1>10 DEF Crash
    <3> QED BY <1>1, <1>3, <3>1 DEF StoreOK, MemOK, PastOK
  <2>2. FileOK'
    <3>1. file' = file \/ file' = SubSeq(file, 1, Len(file) - 1)
      BY <1>10 DEF Crash, Front
    <3>2. tail' \in {"clean", "half", "open"}
      BY <1>1, <1>10 DEF Crash, StoreOK, FileOK
    <3>3. file \in Seq(Named(Ids)) /\ Len(file) \in Nat /\ \A k \in 1..Len(file) : file[k] \in Named(Ids)
      BY <1>1, LenProperties, ElementOfSeq DEF StoreOK, FileOK
    <3>4. SubSeq(file, 1, Len(file) - 1) \in Seq(Named(Ids))
      <4>1. \A k \in 1..(Len(file) - 1) : file[k] \in Named(Ids)
        BY <3>3
      <4>2. 1 \in Int /\ Len(file) - 1 \in Int
        BY <3>3
      <4> QED BY <4>1, <4>2, SubSeqProperties
    <3>5. file' \in Seq(Named(Ids))
      BY <3>1, <3>3, <3>4
    <3> QED BY <2>1, <3>2, <3>5 DEF FileOK
  <2>3. RestOK'
    BY <1>1, <1>4, <1>10, <2>1 DEF Crash, StoreOK, RestOK
  <2> QED BY <1>2, <2>1, <2>2, <2>3 DEF StoreOK
<1>11. CASE Restart
  <2>1. PastOK' /\ Ids' = Ids
    BY <1>1, <1>3, <1>11 DEF Restart, StoreOK, PastOK
  <2>2. FileOK'
    <3>1. file' = Trimmed(file) /\ tail' \in {"clean", "half", "open"}
      BY <1>1, <1>11 DEF Restart, StoreOK, FileOK
    <3>2. Trimmed(file) \in Seq(Named(Ids))
      BY <1>1, TrimmedFile
    <3> QED BY <2>1, <3>1, <3>2 DEF FileOK
  <2>3. MemOK'
    <3>1. mem' = Load(Trimmed(file))
      BY <1>11 DEF Restart
    <3>2. Trimmed(file) \in Seq(Named(Ids))
      BY <1>1, TrimmedFile
    <3>3. /\ DOMAIN Load(Trimmed(file)) \subseteq Ids
          /\ \A i \in DOMAIN Load(Trimmed(file)) : Load(Trimmed(file))[i] \in Statuses
      BY <1>2, <3>2, LoadedMemory
    <3> QED BY <2>1, <3>1, <3>3 DEF MemOK, Statuses
  <2>4. RestOK'
    BY <1>1, <1>4, <1>11, <2>1 DEF Restart, StoreOK, RestOK
  <2> QED BY <1>2, <2>1, <2>2, <2>3, <2>4 DEF StoreOK
<1>12. CASE ScriptRead
  <2>1. MemOK' /\ PastOK' /\ Ids' = Ids
    BY <1>7, <1>12 DEF ScriptRead
  <2>2. FileOK'
    BY <1>1, <1>12, <2>1 DEF ScriptRead, StoreOK, FileOK
  <2>3. snapshot' \in Seq(Ids)
    <3>1. PendingIn(Load(file)) \in SUBSET Ids
      BY <1>1, <1>2, LoadedMemory DEF StoreOK, FileOK
    <3>2. PendingIn(Load(file)) \in SUBSET Nat /\ IsFiniteSet(PendingIn(Load(file)))
      BY <1>2, <3>1, FS_Subset
    <3>3. InOrder(PendingIn(Load(file))) \in Seq(PendingIn(Load(file)))
      BY <3>2, OrderedListing
    <3>4. InOrder(PendingIn(Load(file))) \in Seq(Ids)
      BY <3>1, <3>3, SeqMonotonic
    <3> QED BY <1>12, <3>4 DEF ScriptRead
  <2>4. RestOK'
    BY <1>1, <1>12, <2>1, <2>3 DEF ScriptRead, StoreOK, RestOK
  <2> QED BY <1>2, <2>1, <2>2, <2>4 DEF StoreOK
<1>13. CASE ScriptRewrite
  <2>1. MemOK' /\ PastOK' /\ Ids' = Ids
    BY <1>7, <1>13 DEF ScriptRewrite
  <2>2. FileOK'
    <3>1. snapshot \in Seq(Ids) /\ file' = AppendLines(snapshot) /\ tail' = "clean"
      BY <1>1, <1>13 DEF ScriptRewrite, RestOK
    <3>2. AppendLines(snapshot) \in Seq(Named(Ids))
      <4>1. Len(snapshot) \in Nat /\ \A k \in 1..Len(snapshot) : snapshot[k] \in Ids
        BY <3>1, LenProperties, ElementOfSeq
      <4>2. \A k \in 1..Len(snapshot) : Line("append", snapshot[k]) \in Named(Ids)
        BY <4>1 DEF Line, Named
      <4>3. AppendLines(snapshot) \in [1..Len(snapshot) -> Named(Ids)]
        BY <4>2 DEF AppendLines
      <4> QED BY <4>1, <4>3
    <3> QED BY <2>1, <3>1, <3>2 DEF FileOK
  <2>3. RestOK'
    BY <1>1, <1>4, <1>13, <2>1 DEF ScriptRewrite, StoreOK, RestOK
  <2> QED BY <1>2, <2>1, <2>2, <2>3 DEF StoreOK
<1> QED BY <1>5, <1>6, <1>8, <1>9, <1>10, <1>11, <1>12, <1>13, KindsOfStep

(* The events are counted, whatever happens, and never forgotten. *)
LEMMA StepCounts ==
  ASSUME TypeInv, [Next]_vars
  PROVE  used' \in [Events -> Nat] /\ \A k \in Events : used'[k] = 0 => used[k] = 0
<1>1. used \in [Events -> Nat] /\ RestOK
  BY DEF TypeInv, StoreOK, RestOK
<1>2. {"crash", "manual", "compact", "script"} = Events
  BY DEF Events
<1>3. CASE used' = used
  BY <1>1, <1>3
<1>4. CASE \E k \in Events : Use(k)
  BY <1>1, <1>4, UseCounts
<1>5. used' = used \/ \E k \in Events : Use(k)
  BY <1>2 DEF Next, ServerStep, ReplayStep, vars, Restart, SkipChild, ReplayNext, ReplayRefused,
     ReplayEnds, End, Accept, BeginChild, Compact, ManualReplay, Crash, ScriptRead, ScriptRewrite
<1> QED BY <1>3, <1>4, <1>5

-----------------------------------------------------------------------------
(* Queues *)

(* A replay is planned over known entries. *)
LEMMA PlannedReplay ==
  ASSUME RestOK, NEW m, DOMAIN m \subseteq Ids
  PROVE  /\ Plan(m) \in Planned(Ids) /\ Plan(m).orig = 0
         /\ Plan(m).queue \in Seq(Ids) /\ ToSkip(m) \in Seq(Ids)
<1> DEFINE P == PendingIn(m)
<1>1. P \in SUBSET Ids /\ TopLevel(P) \in SUBSET P
  BY DEF PendingIn, TopLevel
<1> HIDE DEF P
<1>2. ASSUME NEW T \in SUBSET Ids
      PROVE  InOrder(T) \in Seq(Ids)
  <2>1. T \in SUBSET Nat /\ IsFiniteSet(T)
    BY KnownIds, FS_Subset
  <2>2. InOrder(T) \in Seq(T)
    BY <2>1, OrderedListing
  <2> QED BY <2>2, SeqMonotonic
<1>3. InOrder(TopLevel(P)) \in Seq(Ids) /\ InOrder(P \ TopLevel(P)) \in Seq(Ids)
  BY <1>1, <1>2
<1>4. ToSkip(m) = InOrder(P \ TopLevel(P))
  BY DEF ToSkip, P
<1>5. Plan(m) = [queue |-> InOrder(TopLevel(P)), orig |-> 0, exec |-> 0]
  BY DEF Plan, P
<1> QED BY <1>3, <1>4, <1>5 DEF Planned

(* A change of one replay, and of whose executions are under way or over. *)
LEMMA ChangedReplay ==
  ASSUME NEW ids, replays \in Seq(Planned(ids)), NEW r \in 1..Len(replays),
         NEW x \in Planned(ids), NEW A, NEW B,
         \A q \in 1..Len(replays) : replays[q].orig # 0 => replays[q].exec \in A,
         A \subseteq B, x.orig # 0 => x.exec \in B
  PROVE  /\ [replays EXCEPT ![r] = x] \in Seq(Planned(ids))
         /\ Len([replays EXCEPT ![r] = x]) = Len(replays)
         /\ \A q \in 1..Len(replays) :
              [replays EXCEPT ![r] = x][q].orig # 0 => [replays EXCEPT ![r] = x][q].exec \in B
<1>1. /\ [replays EXCEPT ![r] = x] \in Seq(Planned(ids))
      /\ Len([replays EXCEPT ![r] = x]) = Len(replays)
      /\ \A q \in 1..Len(replays) : [replays EXCEPT ![r] = x][q] = IF q = r THEN x ELSE replays[q]
  BY ExceptSeq
<1> QED BY <1>1

(* The two fields ReplayEnds resets, in one update. *)
LEMMA EndedReplay ==
  ASSUME NEW ids, replays \in Seq(Planned(ids)), NEW r \in 1..Len(replays)
  PROVE  [replays EXCEPT ![r].orig = 0, ![r].exec = 0] =
           [replays EXCEPT ![r] = [replays[r] EXCEPT !.orig = 0, !.exec = 0]]
<1> DEFINE f == [replays EXCEPT ![r].orig = 0]
           g == [replays EXCEPT ![r].orig = 0, ![r].exec = 0]
           x == [replays[r] EXCEPT !.orig = 0, !.exec = 0]
<1>1. replays \in [1..Len(replays) -> Planned(ids)]
  BY LenProperties
<1>2. f = [replays EXCEPT ![r] = [replays[r] EXCEPT !.orig = 0]]
  OBVIOUS
<1>3. f[r] = [replays[r] EXCEPT !.orig = 0] /\ DOMAIN f = DOMAIN replays
      /\ \A q \in DOMAIN replays : q # r => f[q] = replays[q]
  BY <1>1, <1>2
<1>4. g = [f EXCEPT ![r] = [f[r] EXCEPT !.exec = 0]]
  OBVIOUS
<1> HIDE DEF f, g
<1>5. [f[r] EXCEPT !.exec = 0] = x
  BY <1>3
<1> HIDE DEF x
<1>6. g = [replays EXCEPT ![r] = x]
  BY <1>1, <1>3, <1>4, <1>5
<1> QED BY <1>6 DEF g, x

(* The queues hold known entries only, and whatever a replay waits for is under
   way or over. *)
LEMMA StepKeepsQueues ==
  ASSUME TypeInv, [Next]_vars, StoreOK', Ids \subseteq Ids', Ids' \in SUBSET Nat
  PROVE  QueuesOK'
<1> DEFINE Over == live \cup DOMAIN ended
<1>1. /\ skipping \in Seq(Ids) /\ replays \in Seq(Planned(Ids))
      /\ \A r \in 1..Len(replays) : replays[r].orig # 0 => replays[r].exec \in Over
      /\ ~up => live = {} /\ skipping = <<>> /\ replays = <<>>
  BY DEF TypeInv, QueuesOK
<1>2. RestOK /\ StoreOK
  BY DEF TypeInv, StoreOK
<1>3. /\ skipping \in Seq(Ids') /\ replays \in Seq(Planned(Ids'))
      /\ \A s \in Seq(Ids) : s \in Seq(Ids')
      /\ Planned(Ids) \subseteq Planned(Ids')
  BY <1>1, <1>2, KnownIds, NamedLines
<1>4. \A r \in 1..Len(replays) : replays[r] \in Planned(Ids) /\ replays[r] \in Planned(Ids')
  BY <1>1, <1>3, ElementOfSeq
<1>5. ASSUME UNCHANGED <<skipping, replays, up>>, up, Over \subseteq Over'
      PROVE  QueuesOK'
  BY <1>1, <1>3, <1>5 DEF QueuesOK
<1>6. CASE UNCHANGED vars
  <2>1. UNCHANGED <<skipping, replays, up, live, ended>>
    BY <1>6 DEF vars
  <2> QED BY <1>1, <1>3, <2>1 DEF QueuesOK
<1>7. CASE Compact \/ \E j \in Jobs : Accept(j)
  <2>1. UNCHANGED <<skipping, replays, up, ended>> /\ up /\ live \subseteq live'
    BY <1>7 DEF Compact, Accept, Begin, Free
  <2> QED BY <1>5, <2>1
<1>8. CASE \E i \in live : BeginChild(i)
  <2>1. UNCHANGED <<skipping, replays, up, ended>> /\ up /\ live \subseteq live'
    BY <1>8 DEF BeginChild, Begin, Free
  <2> QED BY <1>5, <2>1
<1>9. CASE \E i \in live : End(i)
  <2>1. PICK i \in live : End(i)
    BY <1>9
  <2>2. UNCHANGED <<skipping, replays, up>> /\ up /\ live' = live \ {i} /\ i \in DOMAIN ended'
        /\ DOMAIN ended \subseteq DOMAIN ended'
    BY <2>1 DEF End, Free
  <2> QED BY <1>5, <2>2
<1>10. CASE ScriptRead \/ ScriptRewrite
  <2>1. UNCHANGED <<skipping, replays, up, live, ended>>
    BY <1>10 DEF ScriptRead, ScriptRewrite
  <2> QED BY <1>1, <1>3, <2>1 DEF QueuesOK
<1>11. CASE SkipChild
  <2>1. skipping' = Tail(skipping) /\ skipping # <<>> /\ UNCHANGED <<replays, up, live, ended>> /\ up
    BY <1>11 DEF SkipChild
  <2>2. skipping' \in Seq(Ids')
    BY <1>3, <2>1, HeadTailProperties
  <2> QED BY <1>1, <1>3, <2>1, <2>2 DEF QueuesOK
<1>12. CASE ManualReplay
  <2>1. /\ up /\ UNCHANGED <<up, live, ended>>
        /\ replays' = Append(replays, Plan(mem)) /\ skipping' = ToSkip(mem)
    BY <1>12 DEF ManualReplay, Free
  <2>2. Plan(mem) \in Planned(Ids') /\ Plan(mem).orig = 0 /\ ToSkip(mem) \in Seq(Ids')
    <3>1. DOMAIN mem \subseteq Ids
      BY <1>2 DEF StoreOK, MemOK
    <3> QED BY <1>2, <1>3, <3>1, PlannedReplay
  <2>3. /\ replays' \in Seq(Planned(Ids')) /\ Len(replays') = Len(replays) + 1 /\ Len(replays) \in Nat
        /\ \A r \in 1..Len(replays) : replays'[r] = replays[r]
        /\ replays'[Len(replays) + 1] = Plan(mem)
    BY <1>3, <2>1, <2>2, AppendProperties, LenProperties
  <2>4. \A r \in 1..Len(replays') : r \in 1..Len(replays) \/ r = Len(replays) + 1
    BY <2>3
  <2>5. \A r \in 1..Len(replays') : replays'[r].orig # 0 => replays'[r].exec \in live' \cup DOMAIN ended'
    BY <1>1, <2>1, <2>2, <2>3, <2>4
  <2> QED BY <2>1, <2>2, <2>3, <2>5 DEF QueuesOK
<1>13. CASE Crash
  <2>1. skipping' = <<>> /\ replays' = <<>> /\ live' = {}
    BY <1>13 DEF Crash
  <2>2. <<>> \in Seq(Ids') /\ <<>> \in Seq(Planned(Ids')) /\ 1..Len(<<>>) = {}
    OBVIOUS
  <2>3. 1..Len(replays') = {}
    BY <2>1, <2>2
  <2> QED BY <2>1, <2>2, <2>3 DEF QueuesOK
<1>14. CASE Restart
  <2> DEFINE m == Load(Trimmed(file))
  <2>1. /\ up' /\ skipping' = ToSkip(m)
        /\ replays' = <<>> \/ replays' = <<Plan(m)>>
    BY <1>14 DEF Restart
  <2>2. DOMAIN m \subseteq Ids
    <3>1. Trimmed(file) \in Seq(Named(Ids))
      BY <1>2, TrimmedFile
    <3>2. Ids \in SUBSET Nat
      BY <1>2, KnownIds
    <3> QED BY <3>1, <3>2, LoadedMemory
  <2> HIDE DEF m
  <2>3. Plan(m) \in Planned(Ids') /\ Plan(m).orig = 0 /\ ToSkip(m) \in Seq(Ids')
    BY <1>2, <1>3, <2>2, PlannedReplay
  <2>4. replays' \in Seq(Planned(Ids')) /\ \A r \in 1..Len(replays') : replays'[r].orig = 0
    <3>1. CASE replays' = <<>>
      <4>1. 1..Len(replays') = {} /\ replays' \in Seq(Planned(Ids'))
        BY <3>1
      <4> QED BY <4>1
    <3>2. CASE replays' = <<Plan(m)>>
      <4>1. <<Plan(m)>> \in Seq(Planned(Ids')) /\ Len(<<Plan(m)>>) = 1 /\ <<Plan(m)>>[1] = Plan(m)
        BY <2>3
      <4>2. \A r \in 1..1 : r = 1
        OBVIOUS
      <4> QED BY <2>3, <3>2, <4>1, <4>2
    <3> QED BY <2>1, <3>1, <3>2
  <2> QED BY <2>1, <2>3, <2>4 DEF QueuesOK
<1>15. ASSUME NEW r \in 1..Len(replays), NEW x \in Planned(Ids'),
              replays' = [replays EXCEPT ![r] = x], UNCHANGED <<up, skipping>>, up,
              Over \subseteq Over', x.orig # 0 => x.exec \in Over'
       PROVE  QueuesOK'
  <2>1. /\ replays' \in Seq(Planned(Ids')) /\ Len(replays') = Len(replays)
        /\ \A q \in 1..Len(replays) : replays'[q].orig # 0 => replays'[q].exec \in Over'
    <3> HIDE DEF Over
    <3> QED BY <1>1, <1>3, <1>15, ChangedReplay
  <2> QED BY <1>3, <1>15, <2>1 DEF QueuesOK
<1>16. ASSUME NEW r \in 1..Len(replays), replays[r].queue # <<>>
       PROVE  Tail(replays[r].queue) \in Seq(Ids') /\ Head(replays[r].queue) \in Ids'
  <2>1. replays[r].queue \in Seq(Ids)
    BY <1>4 DEF Planned
  <2>2. Head(replays[r].queue) \in Ids /\ Tail(replays[r].queue) \in Seq(Ids)
    BY <1>16, <2>1, HeadTailProperties
  <2> QED BY <1>3, <2>2
<1>17. ASSUME NEW r \in 1..Len(replays), ReplayNext(r)
       PROVE  QueuesOK'
  <2> DEFINE x == [queue |-> Tail(replays[r].queue), orig |-> Head(replays[r].queue), exec |-> Len(entries) + 1]
  <2>1. /\ replays' = [replays EXCEPT ![r] = x] /\ UNCHANGED <<up, skipping, ended>> /\ up
        /\ live' = live \cup {Len(entries) + 1}
    BY <1>17 DEF ReplayNext, Begin, Free
  <2>2. x \in Planned(Ids')
    <3>1. Tail(replays[r].queue) \in Seq(Ids') /\ Head(replays[r].queue) \in Ids'
      BY <1>16, <1>17 DEF ReplayNext
    <3>2. Len(entries) + 1 \in Nat
      BY <1>2, KnownIds
    <3> QED BY <3>1, <3>2 DEF Planned
  <2>3. Over \subseteq Over' /\ x.exec \in Over'
    BY <2>1
  <2> HIDE DEF x, Over
  <2> QED BY <1>15, <2>1, <2>2, <2>3
<1>18. ASSUME NEW r \in 1..Len(replays), ReplayRefused(r)
       PROVE  QueuesOK'
  <2> DEFINE x == [replays[r] EXCEPT !.queue = Tail(@)]
  <2>1. replays' = [replays EXCEPT ![r] = x] /\ UNCHANGED <<up, skipping, ended, live>> /\ up
    BY <1>18 DEF ReplayRefused, Free
  <2>2. Tail(replays[r].queue) \in Seq(Ids')
    BY <1>16, <1>18 DEF ReplayRefused
  <2>3. x \in Planned(Ids') /\ x.orig = replays[r].orig /\ x.exec = replays[r].exec
    BY <1>4, <2>2 DEF Planned
  <2>4. Over \subseteq Over' /\ (x.orig # 0 => x.exec \in Over')
    BY <1>1, <2>1, <2>3
  <2> HIDE DEF x, Over
  <2> QED BY <1>15, <2>1, <2>3, <2>4
<1>19. ASSUME NEW r \in 1..Len(replays), ReplayEnds(r)
       PROVE  QueuesOK'
  <2> DEFINE x == [replays[r] EXCEPT !.orig = 0, !.exec = 0]
  <2>1. UNCHANGED <<up, skipping, ended, live>> /\ up
    BY <1>19 DEF ReplayEnds, Free
  <2>2. replays' = [replays EXCEPT ![r].orig = 0, ![r].exec = 0]
    BY <1>19 DEF ReplayEnds
  <2>3. replays' = [replays EXCEPT ![r] = x]
    BY <1>1, <2>2, EndedReplay
  <2>4. x \in Planned(Ids') /\ x.orig = 0
    BY <1>4 DEF Planned
  <2>5. Over \subseteq Over'
    BY <2>1
  <2> HIDE DEF x, Over
  <2> QED BY <1>15, <2>1, <2>3, <2>4, <2>5
<1> QED
  BY <1>6, <1>7, <1>8, <1>9, <1>10, <1>11, <1>12, <1>13, <1>14, <1>17, <1>18, <1>19
  DEF Next, ServerStep, ReplayStep

(* Whatever a crash, a cut or the script leaves of the file, what is read back
   are entries that were begun, and every status is one of the three. *)
LEMMA TypesInvariant == Spec => []TypeInv
<1>1. Init => TypeInv
  <2> SUFFICES ASSUME Init PROVE TypeInv
    OBVIOUS
  <2>1. <<>> \in Seq(Named(Ids)) /\ <<>> \in Seq(Ids) /\ <<>> \in Seq(Planned(Ids)) /\ 1..Len(<<>>) = {}
    OBVIOUS
  <2>2. used \in [Events -> Nat] /\ entries \in Seq([job : Jobs, parent : Nat])
    BY DEF Init
  <2>3. StoreOK
    BY <2>1, <2>2 DEF Init, StoreOK, MemOK, FileOK, PastOK, RestOK
  <2>4. QueuesOK
    BY <2>1 DEF Init, QueuesOK
  <2> QED BY <2>3, <2>4 DEF TypeInv
<1>2. TypeInv /\ [Next]_vars => TypeInv'
  <2> SUFFICES ASSUME TypeInv, [Next]_vars PROVE TypeInv'
    OBVIOUS
  <2>1. StoreOK' /\ Ids \subseteq Ids' /\ Ids' \in SUBSET Nat
    BY StepCounts, StepKeepsStore
  <2> QED BY <2>1, StepKeepsQueues DEF TypeInv
<1> QED BY <1>1, <1>2, PTL DEF Spec

(* The types the runs check, for any number of requests, crashes, replays, cuts
   and compactions: a status is never taken from an entry nobody began. *)
THEOREM LogTypes == Spec => []TypeOK
<1>1. TypeInv => TypeOK
  <2> SUFFICES ASSUME TypeInv PROVE TypeOK
    OBVIOUS
  <2>1. StoreOK /\ QueuesOK /\ RestOK
    BY DEF TypeInv, StoreOK
  <2>2. Ids \in SUBSET Nat
    BY <2>1, KnownIds
  <2>3. file \in Seq([op : {"append", "complete", "fail"}, id : Nat])
    BY <2>1, <2>2, NamedLines DEF StoreOK, FileOK, Lines
  <2>4. skipping \in Seq(Nat) /\ (snapshot \in Seq(Ids) => snapshot \in Seq(Nat))
    BY <2>1, <2>2, NamedLines DEF QueuesOK
  <2>5. replays \in Seq(Replay)
    <3>1. Planned(Ids) \subseteq Replay
      <4>1. \A s \in Seq(Ids) : s \in Seq(Nat)
        BY <2>2, NamedLines
      <4>2. Ids \cup {0} \subseteq Nat
        BY <2>2
      <4>3. ASSUME NEW p \in Planned(Ids)
            PROVE  p \in Replay
        <5>1. p.queue \in Seq(Nat) /\ p.orig \in Nat /\ p.exec \in Nat
          BY <4>1, <4>2 DEF Planned
        <5>2. p = [queue |-> p.queue, orig |-> p.orig, exec |-> p.exec]
          BY DEF Planned
        <5> QED BY <5>1, <5>2 DEF Replay
      <4> QED BY <4>3
    <3> QED BY <2>1, <3>1, SeqMonotonic DEF QueuesOK
  <2>6. NotRead \in Seq(Nat)
    BY DEF NotRead
  <2> QED BY <2>1, <2>3, <2>4, <2>5, <2>6 DEF StoreOK, MemOK, FileOK, PastOK, RestOK, TypeOK
<1> QED BY <1>1, TypesInvariant, PTL

-----------------------------------------------------------------------------
(* Memory and file *)

OnDisk == PendingIn(Load(file))
InMem  == PendingIn(mem)
Apart  == (OnDisk \ InMem) \cup (InMem \ OnDisk)

(* What is left of a torn line concerns one entry, and what is written onto it
   another; a server that has just loaded the file agrees with it. *)
AgreeOK ==
  up /\ used["script"] = 0 =>
    /\ ~env.tears \/ tail # "clean" => Apart = {}
    /\ \E a, b : Apart \subseteq {a, b}

DiskInv ==
  /\ ~env.tears => tail = "clean"
  /\ tail = "open" => file # <<>>
  /\ used["script"] = 0 => snapshot = NotRead
  /\ AgreeOK

\* A line begins the next entry, or settles one.
Notes(line) ==
  /\ line.op = "append" =>
       /\ line.id \notin Ids /\ Ids' = Ids \cup {line.id} /\ settled' = settled
       /\ \A i \in Ids : entries'[i] = entries[i]
  /\ line.op # "append" => entries' = entries /\ settled' = settled \cup {line.id}

\* What a line makes of the pending entries.
Turns(old, line, new) ==
  \A i : i \in new <=> IF i = line.id THEN line.op = "append" ELSE i \in old

(* What a write does to the entries that are pending on disk. *)
LEMMA WriteEffect ==
  ASSUME file \in Seq(Lines), NEW line \in Lines, Write(line),
         tail \in {"clean", "half", "open"}, tail = "open" => file # <<>>
  PROVE  /\ tail' = "clean"
         /\ tail = "clean" => Turns(OnDisk, line, OnDisk')
         /\ tail = "half" => OnDisk' = OnDisk
         /\ tail = "open" => \E b : \A i : i # b => (i \in OnDisk' <=> i \in OnDisk)
<1>1. tail' = "clean"
  BY DEF Write
<1>2. CASE tail = "clean"
  <2>1. file' = Append(file, line)
    BY <1>2 DEF Write
  <2>2. \A i : i \in PendingIn(Load(Append(file, line))) <=>
                 IF i = line.id THEN line.op = "append" ELSE i \in PendingIn(Load(file))
    BY AddedLine
  <2> QED BY <1>1, <1>2, <2>1, <2>2 DEF OnDisk, Turns
<1>3. CASE tail = "half"
  <2>1. file' = file
    BY <1>3 DEF Write
  <2> QED BY <1>1, <1>3, <2>1 DEF OnDisk
<1>4. CASE tail = "open"
  <2>1. file' = SubSeq(file, 1, Len(file) - 1)
    BY <1>4 DEF Write, Front
  <2>2. file # <<>>
    BY <1>4
  <2>3. PICK s \in Seq(Lines) : \E last \in Lines : file = Append(s, last)
    BY <2>2, SequenceEmptyOrAppend
  <2>4. PICK last \in Lines : file = Append(s, last)
    BY <2>3
  <2>5. /\ Len(file) = Len(s) + 1 /\ Len(s) \in Nat
        /\ \A k \in 1..Len(s) : file[k] = s[k] /\ s[k] \in Lines
    BY <2>4, AppendProperties, LenProperties, ElementOfSeq
  <2>6. file' = SubSeq(file, 1, Len(s))
    BY <2>1, <2>5
  <2>7. /\ file' \in Seq(Lines) /\ Len(file') = Len(s)
        /\ \A k \in 1..Len(s) : file'[k] = file[k]
    <3>1. \A k \in 1..Len(s) : file[k] \in Lines
      BY <2>5
    <3>2. /\ SubSeq(file, 1, Len(s)) \in Seq(Lines)
          /\ Len(SubSeq(file, 1, Len(s))) = IF 1 <= Len(s) THEN Len(s) - 1 + 1 ELSE 0
          /\ \A k \in 1..(Len(s) - 1 + 1) : SubSeq(file, 1, Len(s))[k] = file[1 + k - 1]
      BY <2>5, <3>1, SubSeqProperties
    <3> QED BY <2>5, <2>6, <3>2
  <2>8. file' = s
    BY <2>5, <2>7, SeqEqual
  <2>9. \A i : i \in PendingIn(Load(file)) <=>
                 IF i = last.id THEN last.op = "append" ELSE i \in PendingIn(Load(s))
    BY <2>4, AddedLine
  <2>10. \A i : i # last.id => (i \in OnDisk' <=> i \in OnDisk)
    BY <2>8, <2>9 DEF OnDisk
  <2> QED BY <1>1, <1>4, <2>10
<1> QED BY <1>2, <1>3, <1>4

(* Whatever begins or settles an entry writes the line that says so. *)
LEMMA EntryWritten ==
  ASSUME TypeInv, Opened \/ Closed
  PROVE  \E line \in Lines :
           /\ Write(line) /\ Turns(InMem, line, InMem') /\ Notes(line)
           /\ UNCHANGED <<env, up, used, snapshot>>
<1>1. RestOK /\ MemOK /\ Len(entries) \in Nat /\ Ids \in SUBSET Nat /\ Len(entries) + 1 \notin Ids
  BY KnownIds DEF TypeInv, StoreOK
<1>2. CASE Opened
  <2>1. PICK job \in Jobs, parent \in Nat :
          Begin(job, parent) /\ UNCHANGED <<env, up, settled, ended, used, snapshot>>
    BY <1>2 DEF Opened
  <2> DEFINE id == Len(entries) + 1
             line == Line("append", id)
  <2>2. line \in Lines /\ line.id = id /\ line.op = "append"
    BY <1>1 DEF Line, Lines
  <2>3. Write(line) /\ mem' = [i \in DOMAIN mem \cup {id} |-> IF i = id THEN "pending" ELSE mem[i]]
    BY <2>1 DEF Begin
  <2> HIDE DEF line
  <2>4. \A i : i \in InMem' <=> IF i = id THEN TRUE ELSE i \in InMem
    <3> HIDE DEF id
    <3> QED BY <2>3 DEF InMem, PendingIn
  <2>5. id \notin Ids /\ Ids' = Ids \cup {id} /\ \A i \in Ids : entries'[i] = entries[i]
    <3> DEFINE e == [job |-> job, parent |-> parent]
    <3>1. entries' = Append(entries, e) /\ e \in [job : Jobs, parent : Nat]
      BY <2>1 DEF Begin
    <3>2. entries \in Seq([job : Jobs, parent : Nat])
      BY <1>1 DEF RestOK
    <3> HIDE DEF e
    <3>3. Len(entries') = id /\ \A i \in 1..Len(entries) : entries'[i] = entries[i]
      BY <3>1, <3>2, AppendProperties
    <3> QED BY <1>1, <3>3 DEF Ids
  <2> HIDE DEF id
  <2>6. Notes(line)
    BY <2>1, <2>2, <2>5 DEF Notes
  <2>7. Turns(InMem, line, InMem')
    BY <2>2, <2>4 DEF Turns
  <2> QED BY <2>1, <2>2, <2>3, <2>6, <2>7
<1>3. CASE Closed
  <2>1. PICK id \in Ids, st \in Ends : Mark(id, st) /\ UNCHANGED <<env, entries, up, used, snapshot>>
    BY <1>3 DEF Closed
  <2> DEFINE line == Line(IF st = "completed" THEN "complete" ELSE "fail", id)
  <2>2. line \in Lines /\ line.id = id /\ line.op # "append"
    BY <1>1 DEF Line, Lines
  <2>3. Write(line) /\ mem' = [mem EXCEPT ![id] = st] /\ settled' = settled \cup {id}
    BY <2>1 DEF Mark
  <2> HIDE DEF line
  <2>4. \A i : i \in InMem' <=> i # id /\ i \in InMem
    <3>1. st # "pending"
      BY DEF Ends
    <3> QED BY <2>3, <3>1 DEF InMem, PendingIn
  <2>5. Notes(line)
    BY <2>1, <2>2, <2>3 DEF Notes
  <2>6. Turns(InMem, line, InMem')
    BY <2>2, <2>4 DEF Turns
  <2> QED BY <2>1, <2>2, <2>3, <2>5, <2>6
<1> QED BY <1>2, <1>3

(* Memory and file stay as close as they are. *)
LEMMA StepKeepsDisk ==
  ASSUME TypeInv, DiskInv, [Next]_vars
  PROVE  DiskInv'
<1>1. /\ StoreOK /\ RestOK /\ file \in Seq(Lines) /\ tail \in {"clean", "half", "open"}
      /\ "script" \in Events
  BY KnownIds, NamedLines DEF TypeInv, StoreOK, FileOK, Events
<1>2. NotRead' = NotRead
  BY DEF NotRead
<1>3. used'["script"] = 0 => used["script"] = 0
  BY <1>1, StepCounts
<1>4. CASE Opened \/ Closed
  <2>1. PICK line \in Lines :
           Write(line) /\ Turns(InMem, line, InMem') /\ UNCHANGED <<env, up, used, snapshot>>
    BY <1>4, EntryWritten
  <2>2. /\ tail' = "clean"
        /\ tail = "clean" => Turns(OnDisk, line, OnDisk')
        /\ tail = "half" => OnDisk' = OnDisk
        /\ tail = "open" => \E b : \A i : i # b => (i \in OnDisk' <=> i \in OnDisk)
    BY <1>1, <2>1, WriteEffect DEF DiskInv
  <2>3. AgreeOK'
    <3> SUFFICES ASSUME up', used'["script"] = 0
                 PROVE  /\ ~env'.tears \/ tail' # "clean" => Apart' = {}
                        /\ \E a, b : Apart' \subseteq {a, b}
      BY DEF AgreeOK
    <3>1. up /\ used["script"] = 0
      BY <2>1
    <3>2. (~env.tears \/ tail # "clean" => Apart = {}) /\ \E a, b : Apart \subseteq {a, b}
      BY <3>1 DEF DiskInv, AgreeOK
    <3>3. CASE tail = "clean"
      <4>1. Apart' \subseteq Apart
        BY <2>1, <2>2, <3>3 DEF Apart, Turns
      <4> QED BY <2>1, <2>2, <3>2, <4>1
    <3>4. CASE tail = "half"
      <4>1. Apart' \subseteq {line.id}
        BY <2>1, <2>2, <3>2, <3>4 DEF Apart, Turns
      <4>2. env'.tears
        BY <2>1, <3>4 DEF DiskInv
      <4>3. Apart' \subseteq {line.id, line.id}
        BY <4>1
      <4> QED BY <2>2, <4>2, <4>3
    <3>5. CASE tail = "open"
      <4>1. PICK b : \A i : i # b => (i \in OnDisk' <=> i \in OnDisk)
        BY <2>2, <3>5
      <4>2. Apart' \subseteq {line.id, b}
        BY <2>1, <3>2, <3>5, <4>1 DEF Apart, Turns
      <4>3. env'.tears
        BY <2>1, <3>5 DEF DiskInv
      <4> QED BY <2>2, <4>2, <4>3
    <3> QED BY <1>1, <3>3, <3>4, <3>5
  <2> QED BY <1>2, <2>1, <2>2, <2>3 DEF DiskInv
<1>5. CASE Left
  <2>1. UNCHANGED <<env, up, mem, file, tail, snapshot>>
    BY <1>5 DEF Left
  <2>2. Apart' = Apart
    BY <2>1 DEF Apart, OnDisk, InMem
  <2> QED BY <1>2, <1>3, <2>1, <2>2 DEF DiskInv, AgreeOK
<1>6. CASE Compact
  <2>1. /\ file' = AppendLines(InOrder(PendingIn(mem))) /\ tail' = "clean"
        /\ UNCHANGED <<env, up, mem, snapshot>>
    BY <1>6 DEF Compact
  <2>2. PendingIn(mem) \in SUBSET Nat /\ IsFiniteSet(PendingIn(mem))
    BY <1>1, RewrittenMemory
  <2>3. PendingIn(Load(AppendLines(InOrder(PendingIn(mem))))) = PendingIn(mem)
    BY <2>2, RewrittenLines
  <2>4. Apart' = {}
    BY <2>1, <2>3 DEF Apart, OnDisk, InMem
  <2> QED BY <1>2, <1>3, <2>1, <2>4 DEF DiskInv, AgreeOK
<1>7. CASE Crash
  <2>1. /\ up' = FALSE /\ UNCHANGED <<env, snapshot>>
        /\ \/ UNCHANGED <<file, tail>>
           \/ env.tears /\ tail' = "half"
           \/ env.tears /\ file # <<>> /\ tail' = "open" /\ UNCHANGED file
    BY <1>7 DEF Crash
  <2> QED BY <1>2, <1>3, <2>1 DEF DiskInv, AgreeOK
<1>8. CASE Restart
  <2>1. /\ file' = Trimmed(file) /\ mem' = Load(Trimmed(file)) /\ UNCHANGED <<env, snapshot>>
        /\ tail' = IF Len(file) > env.maxLines THEN "clean" ELSE tail
    BY <1>8 DEF Restart
  <2>2. Apart' = {}
    BY <2>1 DEF Apart, OnDisk, InMem
  <2>3. tail' = "open" => tail = "open" /\ file' = file
    <3>1. Len(file) \in Nat /\ env.maxLines \in Nat
      <4>1. env \in Environment
        BY <1>1, LogConfig DEF RestOK
      <4> QED BY <1>1, <4>1, LenProperties DEF Environment
    <3> QED BY <2>1, <3>1 DEF Trimmed
  <2> QED BY <1>2, <1>3, <2>1, <2>2, <2>3 DEF DiskInv, AgreeOK
<1>9. CASE ScriptRead
  <2>1. used'["script"] # 0 /\ UNCHANGED <<env, file, tail>>
    BY <1>1, <1>9, UseCounts DEF ScriptRead
  <2> QED BY <2>1 DEF DiskInv, AgreeOK
<1>10. CASE ScriptRewrite
  <2>1. used["script"] # 0 /\ UNCHANGED <<env, used>> /\ tail' = "clean"
    BY <1>10 DEF ScriptRewrite, DiskInv
  <2> QED BY <2>1 DEF DiskInv, AgreeOK
<1> QED BY <1>4, <1>5, <1>6, <1>7, <1>8, <1>9, <1>10, KindsOfStep

(* Memory and file agree on what is pending, but for two entries after a crash
   that tore a line: in all environments without the script. *)
LEMMA DiskInvariant == Spec => []DiskInv
<1>1. Init => DiskInv
  <2> SUFFICES ASSUME Init PROVE DiskInv
    OBVIOUS
  <2>1. mem = <<>> /\ file = <<>> /\ tail = "clean" /\ snapshot = NotRead
    BY DEF Init
  <2>2. OnDisk = {}
    <3>1. file \in Seq(Lines) /\ 1..Len(file) = {}
      BY <2>1
    <3>2. \A i : i \in OnDisk <=> \E k \in 1..Len(file) : file[k].id = i /\ Stands(file, k)
      BY <3>1, LoadedLines DEF OnDisk
    <3> QED BY <3>1, <3>2
  <2>3. InMem = {}
    BY <2>1 DEF InMem, PendingIn
  <2> QED BY <2>1, <2>2, <2>3 DEF DiskInv, AgreeOK, Apart
<1> QED BY <1>1, StepKeepsDisk, TypesInvariant, PTL DEF Spec

(* What is pending in memory is pending on disk and the other way round, so that
   a crash at any moment loses nothing but what a torn line takes with it. *)
THEOREM MemoryIsOnDisk == Spec => []MemoryOnDisk
<1>1. DiskInv => MemoryOnDisk
  <2> SUFFICES ASSUME DiskInv, up, used["script"] = 0
               PROVE  Cardinality(Apart) <= IF env.tears THEN 2 ELSE 0
    BY DEF MemoryOnDisk, Apart, OnDisk, InMem
  <2>1. (~env.tears => Apart = {}) /\ \E a, b : Apart \subseteq {a, b}
    BY DEF DiskInv, AgreeOK
  <2>2. CASE ~env.tears
    BY <2>1, <2>2, FS_EmptySet
  <2>3. CASE env.tears
    <3>1. PICK a, b : Apart \subseteq {a, b}
      BY <2>1
    <3>2. IsFiniteSet({a}) /\ Cardinality({a}) = 1
      BY FS_Singleton
    <3>3. IsFiniteSet({a} \cup {b}) /\ Cardinality({a} \cup {b}) <= 2
      BY <3>2, FS_AddElement
    <3>4. Apart \in SUBSET ({a} \cup {b})
      BY <3>1
    <3>5. Cardinality(Apart) <= Cardinality({a} \cup {b}) /\ IsFiniteSet(Apart)
      BY <3>3, <3>4, FS_Subset
    <3>6. Cardinality(Apart) \in Nat /\ Cardinality({a} \cup {b}) \in Nat
      BY <3>3, <3>5, FS_CardinalityType
    <3> QED BY <2>3, <3>3, <3>5, <3>6
  <2> QED BY <2>2, <2>3
<1> QED BY <1>1, DiskInvariant, PTL

-----------------------------------------------------------------------------
(* What is settled, and what is owed *)

(* Without damage a step either writes a line, which then decides about its entry
   on disk, or leaves the entries alone and makes nothing pending that was not;
   and only a cut takes anything away. *)
LEMMA UndamagedStep ==
  ASSUME TypeInv, DiskInv, [Next]_vars, Undamaged'
  PROVE  /\ Undamaged
         /\ \/ \E line \in Lines : Turns(OnDisk, line, OnDisk') /\ Notes(line)
            \/ /\ UNCHANGED <<entries, settled>> /\ OnDisk' \subseteq OnDisk
               /\ Len(file) <= env.maxLines => OnDisk' = OnDisk
<1>1. /\ StoreOK /\ RestOK /\ file \in Seq(Lines) /\ tail \in {"clean", "half", "open"}
      /\ "script" \in Events
  BY KnownIds, NamedLines DEF TypeInv, StoreOK, FileOK, Events
<1>2. used["script"] = 0
  BY <1>1, StepCounts DEF Undamaged
<1>3. env' = env
  BY DEF Next, ServerStep, ReplayStep, vars, Restart, SkipChild, ReplayNext, ReplayRefused,
     ReplayEnds, End, Accept, BeginChild, Compact, ManualReplay, Crash, ScriptRead, ScriptRewrite
<1>4. Undamaged /\ tail = "clean" /\ (up => OnDisk = InMem)
  <2>1. ~env.tears
    BY <1>3 DEF Undamaged
  <2> QED BY <1>2, <2>1 DEF Undamaged, DiskInv, AgreeOK, Apart
<1>5. CASE Opened \/ Closed
  <2>1. PICK line \in Lines : Write(line) /\ Notes(line)
    BY <1>5, EntryWritten
  <2>2. Turns(OnDisk, line, OnDisk')
    BY <1>1, <1>4, <2>1, WriteEffect
  <2> QED BY <1>4, <2>1, <2>2
<1>6. CASE Left
  <2>1. UNCHANGED <<file, entries, settled>>
    BY <1>6 DEF Left
  <2> QED BY <1>4, <2>1 DEF OnDisk
<1>7. CASE Compact
  <2>1. /\ up /\ file' = AppendLines(InOrder(PendingIn(mem)))
        /\ UNCHANGED <<entries, settled>>
    BY <1>7 DEF Compact, Free
  <2>2. PendingIn(mem) \in SUBSET Nat /\ IsFiniteSet(PendingIn(mem))
    BY <1>1, RewrittenMemory
  <2>3. PendingIn(Load(AppendLines(InOrder(PendingIn(mem))))) = PendingIn(mem)
    BY <2>2, RewrittenLines
  <2>4. OnDisk' = OnDisk
    BY <1>4, <2>1, <2>3 DEF OnDisk, InMem
  <2> QED BY <1>4, <2>1, <2>4
<1>8. CASE Crash
  <2>1. UNCHANGED <<file, entries, settled>>
    BY <1>3, <1>8 DEF Crash, Undamaged
  <2> QED BY <1>4, <2>1 DEF OnDisk
<1>9. CASE Restart
  <2>1. file' = Trimmed(file) /\ UNCHANGED <<entries, settled>>
    BY <1>9 DEF Restart
  <2>2. OnDisk' \subseteq OnDisk
    BY <1>1, <2>1, TrimmedFile DEF OnDisk
  <2>3. Len(file) <= env.maxLines => OnDisk' = OnDisk
    BY <2>1 DEF Trimmed, OnDisk
  <2> QED BY <1>4, <2>1, <2>2, <2>3
<1>10. CASE ScriptRead
  BY <1>1, <1>10, UseCounts DEF ScriptRead, Undamaged
<1>11. CASE ScriptRewrite
  BY <1>2, <1>11 DEF ScriptRewrite, DiskInv
<1> QED BY <1>5, <1>6, <1>7, <1>8, <1>9, <1>10, <1>11, KindsOfStep

(* An entry that was settled never comes back as pending, so no later process
   executes it again: whatever crashes, cuts and compactions there are. *)
THEOREM SettledIsSettled == Spec => []SettledStaysSettled
<1>1. Init => SettledStaysSettled
  BY DEF Init, SettledStaysSettled
<1>2. TypeInv /\ DiskInv /\ SettledStaysSettled /\ [Next]_vars => SettledStaysSettled'
  <2> SUFFICES ASSUME TypeInv, DiskInv, SettledStaysSettled, [Next]_vars, Undamaged'
               PROVE  settled' \cap OnDisk' = {}
    BY DEF SettledStaysSettled, OnDisk
  <2>1. Undamaged
    BY UndamagedStep
  <2>2. settled \cap OnDisk = {} /\ settled \subseteq Ids
    BY <2>1 DEF SettledStaysSettled, OnDisk, TypeInv, StoreOK, PastOK
  <2>3. ASSUME NEW line \in Lines, Turns(OnDisk, line, OnDisk'), Notes(line)
        PROVE  settled' \cap OnDisk' = {}
    BY <2>2, <2>3 DEF Turns, Notes
  <2>4. CASE settled' = settled /\ OnDisk' \subseteq OnDisk
    BY <2>2, <2>4
  <2> QED BY <2>3, <2>4, UndamagedStep
<1> QED BY <1>1, <1>2, TypesInvariant, DiskInvariant, PTL DEF Spec

(* As long as no execution of a request is settled, a restart finds a top-level
   entry of it to replay: without damage, and while the file is not so long that
   a restart would cut it. *)
THEOREM AcceptedIsKept ==
  Spec /\ [](Undamaged /\ Len(file) <= env.maxLines) => []AcceptedSurvives
<1> DEFINE Short == Undamaged /\ Len(file) <= env.maxLines
<1>1. Init => AcceptedSurvives
  <2> SUFFICES ASSUME Init PROVE \A j \in Jobs : TopEntries(j) = {}
    BY DEF AcceptedSurvives
  <2>1. entries = <<>> /\ 1..Len(<<>>) = {}
    BY DEF Init
  <2> QED BY <2>1 DEF TopEntries, Ids
<1>2. TypeInv /\ DiskInv /\ AcceptedSurvives /\ Short /\ Short' /\ [Next]_vars => AcceptedSurvives'
  <2> SUFFICES ASSUME TypeInv, DiskInv, AcceptedSurvives, Short, Short', [Next]_vars,
                      NEW j \in Jobs, TopEntries(j)' # {}, TopEntries(j)' \cap settled' = {}
               PROVE  TopEntries(j)' \cap OnDisk' # {}
    BY DEF AcceptedSurvives, OnDisk
  <2>1. TopEntries(j) # {} /\ TopEntries(j) \cap settled = {} => TopEntries(j) \cap OnDisk # {}
    BY DEF AcceptedSurvives, OnDisk
  <2>2. CASE UNCHANGED <<entries, settled>> /\ OnDisk' = OnDisk
    <3>1. TopEntries(j)' = TopEntries(j)
      BY <2>2 DEF TopEntries, Ids
    <3> QED BY <2>1, <2>2, <3>1
  <2>3. ASSUME NEW line \in Lines, Turns(OnDisk, line, OnDisk'), Notes(line), line.op = "append"
        PROVE  TopEntries(j)' \cap OnDisk' # {}
    <3>1. /\ line.id \notin Ids /\ Ids' = Ids \cup {line.id} /\ settled' = settled
          /\ \A i \in Ids : entries'[i] = entries[i]
          /\ line.id \in OnDisk' /\ OnDisk \subseteq OnDisk'
      BY <2>3 DEF Turns, Notes
    <3>2. TopEntries(j) \subseteq TopEntries(j)' /\ TopEntries(j)' \subseteq TopEntries(j) \cup {line.id}
      BY <3>1 DEF TopEntries
    <3> QED BY <2>1, <3>1, <3>2
  <2>4. ASSUME NEW line \in Lines, Turns(OnDisk, line, OnDisk'), Notes(line), line.op # "append"
        PROVE  TopEntries(j)' \cap OnDisk' # {}
    <3>1. entries' = entries /\ settled' = settled \cup {line.id} /\ \A i \in OnDisk : i # line.id => i \in OnDisk'
      BY <2>4 DEF Turns, Notes
    <3>2. TopEntries(j)' = TopEntries(j)
      BY <3>1 DEF TopEntries, Ids
    <3> QED BY <2>1, <3>1, <3>2
  <2> QED BY <2>2, <2>3, <2>4, UndamagedStep
<1> QED BY <1>1, <1>2, TypesInvariant, DiskInvariant, PTL DEF Spec

-----------------------------------------------------------------------------
(* What a replay repeats *)

(* As long as nobody asks a running server to replay, a replay executes only what
   an earlier process left: its plan was made before anything was begun in this
   one. *)
THEOREM ReplaysOnlyLeft == Spec => [](used["manual"] = 0 => ReplaysOnlyInterrupted)
<1> DEFINE Apt(x) == x.orig \notin live /\ \A k \in 1..Len(x.queue) : x.queue[k] \notin live
           Inv == used["manual"] = 0 => ReplaysOnlyInterrupted
<1>1. Init => Inv
  <2> SUFFICES ASSUME Init PROVE ReplaysOnlyInterrupted
    OBVIOUS
  <2> QED BY DEF Init, ReplaysOnlyInterrupted
<1>2. TypeInv /\ Inv /\ [Next]_vars => Inv'
  <2> SUFFICES ASSUME TypeInv, Inv, [Next]_vars, used'["manual"] = 0
               PROVE  ReplaysOnlyInterrupted'
    OBVIOUS
  <2>1. /\ RestOK /\ StoreOK /\ QueuesOK /\ Len(entries) + 1 \notin Ids /\ 0 \notin Ids /\ live \subseteq Ids
        /\ "manual" \in Events
    BY KnownIds DEF TypeInv, StoreOK, RestOK, Events
  <2>2. used["manual"] = 0
    BY <2>1, StepCounts
  <2>3. \A r \in 1..Len(replays) : Apt(replays[r])
    BY <2>2 DEF ReplaysOnlyInterrupted
  <2>4. /\ replays \in Seq(Planned(Ids)) /\ Len(replays) \in Nat
        /\ \A r \in 1..Len(replays) :
             /\ replays[r] \in Planned(Ids)
             /\ \A k \in 1..Len(replays[r].queue) : replays[r].queue[k] \in Ids
    <3>1. \A r \in 1..Len(replays) : replays[r] \in Planned(Ids)
      BY <2>1, ElementOfSeq DEF QueuesOK
    <3>2. \A r \in 1..Len(replays) : replays[r].queue \in Seq(Ids)
      BY <3>1 DEF Planned
    <3> QED BY <2>1, <3>1, <3>2, ElementOfSeq, LenProperties DEF QueuesOK
  <2>5. ASSUME replays' = replays, live' \subseteq live \cup {Len(entries) + 1}
        PROVE  ReplaysOnlyInterrupted'
    <3>1. \A r \in 1..Len(replays) : replays[r].orig \in Ids \cup {0}
      BY <2>4 DEF Planned
    <3>2. Len(entries) + 1 # 0
      BY <2>1, KnownIds
    <3>3. \A r \in 1..Len(replays) : replays[r].orig \notin live'
      BY <2>1, <2>3, <2>5, <3>1, <3>2
    <3>4. \A r \in 1..Len(replays) : \A k \in 1..Len(replays[r].queue) : replays[r].queue[k] \notin live'
      BY <2>1, <2>3, <2>4, <2>5
    <3> QED BY <2>5, <3>3, <3>4 DEF ReplaysOnlyInterrupted
  <2>6. ASSUME NEW r \in 1..Len(replays), NEW x, replays' = [replays EXCEPT ![r] = x],
               live' \subseteq live \cup {Len(entries) + 1}, x.orig \in Ids \cup {0},
               x.orig \notin live,
               \/ x.queue = replays[r].queue
               \/ x.queue = Tail(replays[r].queue) /\ replays[r].queue # <<>>
        PROVE  ReplaysOnlyInterrupted'
    <3>1. \A k \in 1..Len(x.queue) : \E l \in 1..Len(replays[r].queue) : x.queue[k] = replays[r].queue[l]
      <4>1. replays[r].queue \in Seq(Ids)
        BY <2>4 DEF Planned
      <4>2. CASE x.queue = replays[r].queue
        BY <4>2
      <4>3. CASE x.queue = Tail(replays[r].queue) /\ replays[r].queue # <<>>
        <5>1. \A k \in 1..Len(Tail(replays[r].queue)) :
                \E l \in 1..Len(replays[r].queue) : Tail(replays[r].queue)[k] = replays[r].queue[l]
          BY <2>1, <4>1, <4>3, HeadOfQueue
        <5> QED BY <4>3, <5>1
      <4> QED BY <2>6, <4>2, <4>3
    <3>2. Len(entries) + 1 # 0
      BY <2>1, KnownIds
    <3>3. x.orig \notin live' /\ \A k \in 1..Len(x.queue) : x.queue[k] \notin live'
      <4>1. x.orig \notin live'
        BY <2>1, <2>6, <3>2
      <4>2. \A l \in 1..Len(replays[r].queue) : replays[r].queue[l] \notin live'
        BY <2>1, <2>3, <2>4, <2>6
      <4> QED BY <3>1, <4>1, <4>2
    <3>4. DOMAIN replays = 1..Len(replays)
      BY <2>4, LenProperties
    <3>5. Len(replays') = Len(replays) /\ \A q \in 1..Len(replays) : replays'[q] = IF q = r THEN x ELSE replays[q]
      BY <2>4, <2>6, <3>4
    <3>6. \A q \in 1..Len(replays) : q # r =>
            replays[q].orig \notin live' /\ \A k \in 1..Len(replays[q].queue) : replays[q].queue[k] \notin live'
      <4>1. \A q \in 1..Len(replays) : replays[q].orig \in Ids \cup {0}
        BY <2>4 DEF Planned
      <4> QED BY <2>1, <2>3, <2>4, <2>6, <3>2, <4>1
    <3> QED BY <3>3, <3>5, <3>6 DEF ReplaysOnlyInterrupted
  <2>7. CASE UNCHANGED vars \/ Compact \/ SkipChild \/ ScriptRead \/ ScriptRewrite
    <3>1. UNCHANGED <<replays, live>>
      BY <2>7 DEF vars, Compact, SkipChild, ScriptRead, ScriptRewrite
    <3> QED BY <2>5, <3>1
  <2>8. CASE (\E j \in Jobs : Accept(j)) \/ (\E i \in live : BeginChild(i)) \/ (\E i \in live : End(i))
    <3>1. replays' = replays /\ live' \subseteq live \cup {Len(entries) + 1}
      BY <2>8 DEF Accept, BeginChild, Begin, End
    <3> QED BY <2>5, <3>1
  <2>9. CASE ManualReplay
    BY <2>1, <2>9, UseCounts DEF ManualReplay
  <2>10. CASE Crash
    <3>1. replays' = <<>>
      BY <2>10 DEF Crash
    <3>2. 1..Len(replays') = {}
      BY <3>1
    <3> QED BY <3>2 DEF ReplaysOnlyInterrupted
  <2>11. CASE Restart
    <3>1. live' = {}
      BY <2>1, <2>11 DEF Restart, QueuesOK
    <3> QED BY <3>1 DEF ReplaysOnlyInterrupted
  <2>12. ASSUME NEW r \in 1..Len(replays), ReplayNext(r)
         PROVE  ReplaysOnlyInterrupted'
    <3> DEFINE x == [queue |-> Tail(replays[r].queue), orig |-> Head(replays[r].queue), exec |-> Len(entries) + 1]
    <3>1. /\ replays' = [replays EXCEPT ![r] = x] /\ live' = live \cup {Len(entries) + 1}
          /\ replays[r].queue # <<>>
      BY <2>12 DEF ReplayNext, Begin
    <3>2. x.orig \in Ids /\ x.orig \notin live
      <4>1. replays[r].queue \in Seq(Ids)
        BY <2>4 DEF Planned
      <4>2. Head(replays[r].queue) \in Ids /\ \E l \in 1..Len(replays[r].queue) : Head(replays[r].queue) = replays[r].queue[l]
        BY <2>1, <3>1, <4>1, HeadOfQueue
      <4> QED BY <2>3, <4>2
    <3>3. x.queue = Tail(replays[r].queue)
      OBVIOUS
    <3> HIDE DEF x
    <3> QED BY <2>6, <3>1, <3>2, <3>3
  <2>13. ASSUME NEW r \in 1..Len(replays), ReplayRefused(r)
         PROVE  ReplaysOnlyInterrupted'
    <3> DEFINE x == [replays[r] EXCEPT !.queue = Tail(@)]
    <3>1. replays' = [replays EXCEPT ![r] = x] /\ live' = live /\ replays[r].queue # <<>>
      BY <2>13 DEF ReplayRefused
    <3>2. x.orig = replays[r].orig /\ x.queue = Tail(replays[r].queue) /\ x.orig \in Ids \cup {0}
      BY <2>4 DEF Planned
    <3>3. x.orig \notin live
      BY <2>3, <3>2
    <3> HIDE DEF x
    <3> QED BY <2>6, <3>1, <3>2, <3>3
  <2>14. ASSUME NEW r \in 1..Len(replays), ReplayEnds(r)
         PROVE  ReplaysOnlyInterrupted'
    <3> DEFINE x == [replays[r] EXCEPT !.orig = 0, !.exec = 0]
    <3>1. replays' = [replays EXCEPT ![r] = x] /\ live' = live
      BY <2>4, <2>14, EndedReplay DEF ReplayEnds
    <3>2. x.orig = 0 /\ x.queue = replays[r].queue
      BY <2>4 DEF Planned
    <3>3. x.orig \notin live /\ x.orig \in Ids \cup {0}
      <4>1. 0 \notin live /\ 0 \in Ids \cup {0}
        BY <2>1
      <4> HIDE DEF x
      <4> QED BY <3>2, <4>1
    <3>4. live' \subseteq live \cup {Len(entries) + 1}
      BY <3>1
    <3> HIDE DEF x
    <3> QED BY <2>6, <3>1, <3>2, <3>3, <3>4
  <2> QED
    BY <2>7, <2>8, <2>9, <2>10, <2>11, <2>12, <2>13, <2>14
    DEF Next, ServerStep, ReplayStep
<1> HIDE DEF Inv
<1>3. Spec => []Inv
  BY <1>1, <1>2, TypesInvariant, PTL DEF Spec
<1> QED BY <1>3 DEF Inv

-----------------------------------------------------------------------------
(* Counting *)

(* The powers of two are numbers, and double. *)
LEMMA Doubling ==
  ASSUME NEW n \in Nat
  PROVE  2 ^ n \in Nat /\ 2 ^ (n + 1) = 2 * 2 ^ n
<1> DEFINE S == 1..n
           A == SUBSET S
           B == {X \cup {n + 1} : X \in A}
           f == [X \in A |-> X \cup {n + 1}]
<1>1. IsFiniteSet(S) /\ Cardinality(S) = n /\ n + 1 \notin S
  <2>1. 1 \in Int /\ n \in Int /\ n + 1 \notin S
    OBVIOUS
  <2>2. IsFiniteSet(S) /\ Cardinality(S) = IF 1 > n THEN 0 ELSE n - 1 + 1
    BY <2>1, FS_Interval
  <2> QED BY <2>1, <2>2
<1>2. IsFiniteSet(A) /\ Cardinality(A) = 2 ^ n /\ Cardinality(A) \in Nat
  <2>1. IsFiniteSet(A) /\ Cardinality(A) = 2 ^ Cardinality(S)
    BY <1>1, FS_SUBSET
  <2> QED BY <1>1, <2>1, FS_CardinalityType
<1>3. IsFiniteSet(1..(n + 1)) /\ Cardinality(1..(n + 1)) = n + 1 /\ 1..(n + 1) = S \cup {n + 1}
  <2>1. 1 \in Int /\ n + 1 \in Int /\ ~(1 > n + 1) /\ n + 1 - 1 + 1 = n + 1
    OBVIOUS
  <2>2. IsFiniteSet(1..(n + 1)) /\ Cardinality(1..(n + 1)) = IF 1 > n + 1 THEN 0 ELSE n + 1 - 1 + 1
    BY <2>1, FS_Interval
  <2>3. 1..(n + 1) = S \cup {n + 1}
    OBVIOUS
  <2> QED BY <2>1, <2>2, <2>3
<1>4. Cardinality(SUBSET (S \cup {n + 1})) = 2 ^ (n + 1)
  BY <1>3, FS_SUBSET
<1>5. IsFiniteSet(B) /\ Cardinality(B) = Cardinality(A)
  <2>1. f \in Bijection(A, B)
    <3> HIDE DEF S
    <3>1. f \in [A -> B] /\ \A b \in B : \E a \in A : f[a] = b
      OBVIOUS
    <3>2. ASSUME NEW a \in A, NEW b \in A, f[a] = f[b]
          PROVE  a = b
      <4>1. a \cup {n + 1} = b \cup {n + 1} /\ n + 1 \notin a /\ n + 1 \notin b
        BY <1>1, <3>2
      <4> QED BY <4>1
    <3> HIDE DEF f, A, B
    <3> QED BY <3>1, <3>2 DEF Bijection, Injection, IsInjective, Surjection
  <2>2. ExistsBijection(A, B)
    BY <2>1 DEF ExistsBijection
  <2> QED BY <1>2, <2>2, FS_Bijection
<1>6. SUBSET (S \cup {n + 1}) = A \cup B /\ A \cap B = {}
  <2> HIDE DEF S
  <2>1. ASSUME NEW X \in SUBSET (S \cup {n + 1})
        PROVE  X \in A \cup B
    <3>1. CASE n + 1 \in X
      <4>1. X \ {n + 1} \in A /\ X = (X \ {n + 1}) \cup {n + 1}
        BY <3>1
      <4> QED BY <4>1
    <3> QED BY <3>1
  <2>2. \A X \in A \cup B : X \in SUBSET (S \cup {n + 1})
    OBVIOUS
  <2>3. \A X \in A : n + 1 \notin X
    BY <1>1
  <2>4. \A X \in B : n + 1 \in X
    OBVIOUS
  <2> QED BY <2>1, <2>2, <2>3, <2>4
<1>7. Cardinality(A \cup B) = Cardinality(A) + Cardinality(B) - Cardinality(A \cap B) /\ Cardinality({}) = 0
  BY <1>2, <1>5, FS_Union, FS_EmptySet
<1> DEFINE p == 2 ^ n
           q == 2 ^ (n + 1)
           c == Cardinality(A)
<1>8. p = c /\ c \in Nat /\ q = c + c - 0
  <2> HIDE DEF A, B, S
  <2> QED BY <1>2, <1>4, <1>5, <1>6, <1>7
<1> HIDE DEF p, q, c
<1>9. p \in Nat /\ q = 2 * p
  BY <1>8
<1> QED BY <1>9 DEF p, q

(* Nothing doubled is one. *)
LEMMA NothingDoubled == 2 ^ 0 = 1
<1> DEFINE none == {}
<1>1. IsFiniteSet(none) /\ Cardinality(none) = 0
  BY FS_EmptySet
<1>2. Cardinality(SUBSET none) = 2 ^ 0
  <2> HIDE DEF none
  <2> QED BY <1>1, FS_SUBSET
<1>3. SUBSET none = {none}
  OBVIOUS
<1> QED BY <1>2, <1>3, FS_Singleton

(* InOrder lists no entry twice. *)
LEMMA ListedOnce ==
  ASSUME NEW ids \in SUBSET Nat, IsFiniteSet(ids)
  PROVE  \A k, l \in 1..Len(InOrder(ids)) : InOrder(ids)[k] = InOrder(ids)[l] => k = l
<1> DEFINE s == InOrder(ids)
           n == Cardinality(ids)
<1>1. n \in Nat /\ IsFiniteSet(1..n) /\ Cardinality(1..n) = n
  <2>1. n \in Nat
    BY FS_CardinalityType
  <2> HIDE DEF n
  <2>2. IsFiniteSet(1..n) /\ Cardinality(1..n) = IF 1 > n THEN 0 ELSE n - 1 + 1
    BY <2>1, FS_Interval
  <2> QED BY <2>1, <2>2
<1>2. s \in Seq(ids) /\ Len(s) = n /\ \A i \in ids : \E k \in 1..n : s[k] = i
  BY OrderedListing
<1> HIDE DEF s, n
<1>3. s \in [1..n -> ids]
  BY <1>2, LenProperties
<1>4. s \in Surjection(1..n, ids)
  BY <1>2, <1>3 DEF Surjection
<1>5. s \in Injection(1..n, ids)
  <2>1. Cardinality(1..n) = Cardinality(ids)
    BY <1>1 DEF n
  <2> QED BY <1>1, <1>4, <2>1, FS_SurjSameCardinalityImpliesInj
<1>6. \A k, l \in 1..n : s[k] = s[l] => k = l
  BY <1>5 DEF Injection, IsInjective
<1> QED BY <1>2, <1>6 DEF s

-----------------------------------------------------------------------------
(* Plans *)

Among(i, s)  == \E k \in 1..Len(s) : s[k] = i
OnceEach(s)  == \A k, l \in 1..Len(s) : s[k] = s[l] => k = l

\* A plan holds top-level entries, each of them once, and what is skipped are
\* nested ones; what has ended is settled.
SkipsOK == \A i : Among(i, skipping) => entries[i].parent # 0
PlanOK(x) ==
  /\ OnceEach(x.queue) /\ \A i : Among(i, x.queue) => entries[i].parent = 0
  /\ x.orig # 0 => entries[x.orig].parent = 0
PlansOK == \A r \in 1..Len(replays) : PlanOK(replays[r])
PlansInv == SkipsOK /\ PlansOK /\ DOMAIN ended \subseteq settled

(* A plan lists the pending top-level entries, each once; the others are skipped. *)
LEMMA PlanLists ==
  ASSUME RestOK, NEW m, DOMAIN m \subseteq Ids
  PROVE  /\ OnceEach(Plan(m).queue) /\ Plan(m).orig = 0
         /\ \A i : Among(i, Plan(m).queue) <=> i \in PendingIn(m) /\ entries[i].parent = 0
         /\ \A i : Among(i, ToSkip(m)) <=> i \in PendingIn(m) /\ entries[i].parent # 0
<1> DEFINE P == PendingIn(m)
<1>1. P \in SUBSET Ids /\ \A i : i \in TopLevel(P) <=> i \in P /\ entries[i].parent = 0
  BY DEF PendingIn, TopLevel
<1> HIDE DEF P
<1>2. ASSUME NEW T \in SUBSET Ids
      PROVE  OnceEach(InOrder(T)) /\ \A i : Among(i, InOrder(T)) <=> i \in T
  <2>1. T \in SUBSET Nat /\ IsFiniteSet(T)
    BY KnownIds, FS_Subset
  <2>2. /\ InOrder(T) \in Seq(T) /\ Len(InOrder(T)) = Cardinality(T)
        /\ \A i \in T : \E k \in 1..Cardinality(T) : InOrder(T)[k] = i
    BY <2>1, OrderedListing
  <2>3. OnceEach(InOrder(T))
    BY <2>1, ListedOnce DEF OnceEach
  <2>4. \A k \in 1..Len(InOrder(T)) : InOrder(T)[k] \in T
    BY <2>2, ElementOfSeq
  <2> QED BY <2>2, <2>3, <2>4 DEF Among
<1>3. TopLevel(P) \in SUBSET Ids /\ P \ TopLevel(P) \in SUBSET Ids
  BY <1>1
<1>4. /\ OnceEach(InOrder(TopLevel(P))) /\ \A i : Among(i, InOrder(TopLevel(P))) <=> i \in TopLevel(P)
      /\ \A i : Among(i, InOrder(P \ TopLevel(P))) <=> i \in P \ TopLevel(P)
  BY <1>2, <1>3
<1>5. ToSkip(m) = InOrder(P \ TopLevel(P))
  BY DEF ToSkip, P
<1>6. Plan(m) = [queue |-> InOrder(TopLevel(P)), orig |-> 0, exec |-> 0]
  BY DEF Plan, P
<1>7. Plan(m).queue = InOrder(TopLevel(P)) /\ Plan(m).orig = 0
  BY <1>6
<1> QED BY <1>1, <1>4, <1>5, <1>7 DEF P

(* Taking the first off a queue leaves the others. *)
LEMMA TailOfQueue ==
  ASSUME NEW ids, NEW q \in Seq(ids), q # <<>>, OnceEach(q)
  PROVE  /\ OnceEach(Tail(q)) /\ Among(Head(q), q)
         /\ \A i : Among(i, Tail(q)) <=> Among(i, q) /\ i # Head(q)
<1>1. /\ Len(Tail(q)) = Len(q) - 1 /\ \A k \in 1..Len(Tail(q)) : Tail(q)[k] = q[k + 1]
  BY HeadTailProperties
<1>2. Len(q) \in Nat /\ Len(q) # 0 /\ Head(q) = q[1]
  BY LenProperties, EmptySeq
<1> DEFINE t == Tail(q)
           h == Head(q)
           n == Len(q)
<1>3. Len(t) = n - 1 /\ n \in Nat /\ n # 0 /\ h = q[1] /\ \A k \in 1..(n - 1) : t[k] = q[k + 1]
  BY <1>1, <1>2
<1>4. \A k, l \in 1..n : q[k] = q[l] => k = l
  BY DEF OnceEach
<1> HIDE DEF t, h, n
<1>5. OnceEach(t)
  <2> SUFFICES ASSUME NEW k \in 1..Len(t), NEW l \in 1..Len(t), t[k] = t[l]
               PROVE  k = l
    BY DEF OnceEach
  <2>1. k + 1 \in 1..n /\ l + 1 \in 1..n /\ q[k + 1] = q[l + 1]
    BY <1>3
  <2>2. k + 1 = l + 1
    BY <1>4, <2>1
  <2> QED BY <1>3, <2>2
<1>6. ASSUME NEW i
      PROVE  Among(i, t) <=> (\E k \in 1..n : q[k] = i) /\ i # h
  <2>1. ASSUME Among(i, t)
        PROVE  (\E k \in 1..n : q[k] = i) /\ i # h
    <3>1. PICK k \in 1..Len(t) : t[k] = i
      BY <2>1 DEF Among
    <3>2. k + 1 \in 1..n /\ 1 \in 1..n /\ q[k + 1] = i /\ k + 1 # 1
      BY <1>3, <3>1
    <3> QED BY <1>3, <1>4, <3>2
  <2>2. ASSUME NEW k \in 1..n, q[k] = i, i # h
        PROVE  Among(i, t)
    <3>1. k - 1 \in 1..Len(t) /\ (k - 1) + 1 = k
      BY <1>3, <2>2
    <3>2. t[k - 1] = i
      BY <1>3, <2>2, <3>1
    <3> QED BY <3>1, <3>2 DEF Among
  <2> QED BY <2>1, <2>2
<1>7. 1 \in 1..n
  BY <1>3
<1> QED BY <1>3, <1>5, <1>6, <1>7 DEF Among, t, h, n

(* Beginning an entry adds it to the others. *)
LEMMA BegunEntry ==
  ASSUME RestOK, NEW job \in Jobs, NEW parent \in Nat, Begin(job, parent)
  PROVE  /\ Ids' = Ids \cup {Len(entries) + 1} /\ Len(entries) + 1 \notin Ids
         /\ \A i \in Ids : entries'[i] = entries[i]
         /\ entries'[Len(entries) + 1] = [job |-> job, parent |-> parent]
         /\ live' = live \cup {Len(entries) + 1}
<1> DEFINE id == Len(entries) + 1
           e == [job |-> job, parent |-> parent]
<1>1. entries' = Append(entries, e) /\ e \in [job : Jobs, parent : Nat]
  BY DEF Begin
<1>2. entries \in Seq([job : Jobs, parent : Nat]) /\ Len(entries) \in Nat /\ id \notin Ids
  BY KnownIds DEF RestOK
<1> HIDE DEF e
<1>3. Len(entries') = id /\ entries'[id] = e /\ \A i \in 1..Len(entries) : entries'[i] = entries[i]
  BY <1>1, <1>2, AppendProperties
<1>4. Ids' = Ids \cup {id}
  BY <1>2, <1>3 DEF Ids
<1>5. live' = live \cup {id}
  BY DEF Begin
<1> QED BY <1>2, <1>3, <1>4, <1>5 DEF Ids, e

(* Entries are only added. *)
LEMMA StepAddsEntries ==
  ASSUME TypeInv, [Next]_vars
  PROVE  Ids \subseteq Ids' /\ \A i \in Ids : entries'[i] = entries[i]
<1>1. RestOK /\ QueuesOK /\ Len(entries) + 1 \notin Ids /\ live \subseteq Ids /\ Ids \in SUBSET Nat
  BY KnownIds DEF TypeInv, StoreOK, RestOK
<1>2. CASE entries' = entries
  BY <1>2 DEF Ids
<1>3. ASSUME NEW job \in Jobs, NEW parent \in Nat, Begin(job, parent)
      PROVE  Ids \subseteq Ids' /\ \A i \in Ids : entries'[i] = entries[i]
  BY <1>1, <1>3, BegunEntry
<1>4. \A i \in Ids : entries[i].job \in Jobs
  <2>1. \A i \in 1..Len(entries) : entries[i] \in [job : Jobs, parent : Nat]
    BY <1>1, ElementOfSeq DEF RestOK
  <2> QED BY <2>1 DEF Ids
<1>5. ASSUME NEW j \in Jobs, Accept(j)
      PROVE  \E job \in Jobs : Begin(job, 0)
  BY <1>5 DEF Accept
<1>6. ASSUME NEW i \in live, BeginChild(i)
      PROVE  \E job \in Jobs : Begin(job, i) /\ i \in Ids
  BY <1>1, <1>4, <1>6 DEF BeginChild
<1>7. ASSUME NEW r \in 1..Len(replays), ReplayNext(r)
      PROVE  \E job \in Jobs : Begin(job, 0)
  <2>1. replays[r] \in Planned(Ids)
    BY <1>1, ElementOfSeq DEF QueuesOK
  <2>2. Head(replays[r].queue) \in Ids
    BY <1>1, <1>7, <2>1, HeadOfQueue DEF Planned, ReplayNext
  <2> QED BY <1>4, <1>7, <2>2 DEF ReplayNext
<1>8. \/ entries' = entries \/ (\E j \in Jobs : Accept(j))
      \/ (\E i \in live : BeginChild(i)) \/ (\E r \in 1..Len(replays) : ReplayNext(r))
  BY DEF Next, ServerStep, ReplayStep, vars, Restart, SkipChild, ReplayRefused,
     ReplayEnds, End, Compact, ManualReplay, Crash, ScriptRead, ScriptRewrite
<1>9. 0 \in Nat /\ \A i \in Ids : i \in Nat
  BY <1>1
<1> QED BY <1>1, <1>2, <1>3, <1>5, <1>6, <1>7, <1>8, <1>9

\* Steps of others, and steps of a replay: the next entry is taken off its queue,
\* and an execution replays it or it is given up, or the replay is over with one.
NoReplay ==
  \/ UNCHANGED vars \/ SkipChild \/ Compact \/ ScriptRead \/ ScriptRewrite
  \/ (\E i \in live : End(i) \/ BeginChild(i)) \/ \E j \in Jobs : Accept(j)
MovesOn(r, x) ==
  /\ replays' = [replays EXCEPT ![r] = x] /\ UNCHANGED skipping /\ skipping = <<>>
  /\ \/ /\ ReplayNext(r) /\ replays[r].queue # <<>>
        /\ x.queue = Tail(replays[r].queue) /\ x.orig = Head(replays[r].queue)
     \/ /\ ReplayRefused(r) /\ replays[r].queue # <<>>
        /\ x.queue = Tail(replays[r].queue) /\ x.orig = replays[r].orig
     \/ ReplayEnds(r) /\ x.queue = replays[r].queue /\ x.orig = 0

(* Every step leaves the replays alone, forgets them, plans one more over the
   memory, or moves one of them on. *)
LEMMA QueueMoves ==
  ASSUME TypeInv, [Next]_vars
  PROVE  \/ UNCHANGED replays /\ NoReplay
         \/ replays' = <<>> /\ (Crash \/ Restart)
         \/ /\ replays' = Append(replays, Plan(mem')) /\ entries' = entries /\ up'
            /\ skipping' = ToSkip(mem') /\ (Restart \/ ManualReplay)
         \/ \E r \in 1..Len(replays), x \in Planned(Ids) : MovesOn(r, x)
<1>1. /\ RestOK /\ StoreOK /\ Len(entries) \in Nat
      /\ replays \in Seq(Planned(Ids)) /\ (~up => replays = <<>>)
      /\ \A r \in 1..Len(replays) : replays[r] \in Planned(Ids)
  BY KnownIds, ElementOfSeq DEF TypeInv, StoreOK, QueuesOK
<1>2. \A r \in 1..Len(replays) : replays[r].queue \in Seq(Ids) /\ replays[r].orig \in Ids \cup {0} /\ replays[r].exec \in Nat
  BY <1>1 DEF Planned
<1>3. CASE Restart
  <2>1. /\ mem' = Load(Trimmed(file)) /\ skipping' = ToSkip(mem')
        /\ replays' = <<>> \/ replays' = <<Plan(mem')>>
        /\ ~up /\ up' /\ entries' = entries
    BY <1>3 DEF Restart, Plan, ToSkip, TopLevel
  <2>2. replays = <<>> /\ \A p : <<p>> = Append(<<>>, p)
    BY <1>1, <2>1
  <2> QED BY <1>3, <2>1, <2>2
<1>4. CASE ManualReplay
  <2>1. /\ replays' = Append(replays, Plan(mem)) /\ skipping' = ToSkip(mem)
        /\ up /\ up' = up /\ UNCHANGED <<mem, entries>>
    BY <1>4 DEF ManualReplay, Free
  <2>2. Plan(mem') = Plan(mem) /\ ToSkip(mem') = ToSkip(mem)
    BY <2>1 DEF Plan, ToSkip, TopLevel
  <2> QED BY <1>4, <2>1, <2>2
<1>5. ASSUME NEW r \in 1..Len(replays), ReplayNext(r)
      PROVE  \E x \in Planned(Ids) : MovesOn(r, x)
  <2> DEFINE x == [queue |-> Tail(replays[r].queue), orig |-> Head(replays[r].queue), exec |-> Len(entries) + 1]
  <2>1. /\ replays' = [replays EXCEPT ![r] = x] /\ UNCHANGED skipping /\ skipping = <<>>
        /\ replays[r].queue # <<>>
    BY <1>5 DEF ReplayNext, Free
  <2>2. x.queue = Tail(replays[r].queue) /\ x.orig = Head(replays[r].queue)
    OBVIOUS
  <2>3. x \in Planned(Ids)
    <3>1. Tail(replays[r].queue) \in Seq(Ids) /\ Head(replays[r].queue) \in Ids
      BY <1>1, <1>2, <2>1, HeadOfQueue
    <3> QED BY <1>1, <3>1, SMTT(30) DEF Planned
  <2> HIDE DEF x
  <2> QED BY <1>5, <2>1, <2>2, <2>3 DEF MovesOn
<1>6. ASSUME NEW r \in 1..Len(replays), ReplayRefused(r)
      PROVE  \E x \in Planned(Ids) : MovesOn(r, x)
  <2> DEFINE x == [replays[r] EXCEPT !.queue = Tail(@)]
  <2>1. /\ replays' = [replays EXCEPT ![r] = x] /\ UNCHANGED skipping /\ skipping = <<>>
        /\ replays[r].queue # <<>>
    BY <1>6 DEF ReplayRefused, Free
  <2>2. x.queue = Tail(replays[r].queue) /\ x.orig = replays[r].orig
    BY <1>1 DEF Planned
  <2>3. x \in Planned(Ids)
    <3>1. Tail(replays[r].queue) \in Seq(Ids)
      BY <1>1, <1>2, <2>1, HeadOfQueue
    <3> QED BY <1>1, <3>1 DEF Planned
  <2> HIDE DEF x
  <2> QED BY <1>6, <2>1, <2>2, <2>3 DEF MovesOn
<1>7. ASSUME NEW r \in 1..Len(replays), ReplayEnds(r)
      PROVE  \E x \in Planned(Ids) : MovesOn(r, x)
  <2> DEFINE x == [replays[r] EXCEPT !.orig = 0, !.exec = 0]
  <2>1. replays' = [replays EXCEPT ![r].orig = 0, ![r].exec = 0] /\ UNCHANGED skipping /\ skipping = <<>>
    BY <1>7 DEF ReplayEnds, Free
  <2>2. replays' = [replays EXCEPT ![r] = x]
    BY <1>1, <2>1, EndedReplay
  <2>3. x.queue = replays[r].queue /\ x.orig = 0 /\ x \in Planned(Ids)
    BY <1>1 DEF Planned
  <2> HIDE DEF x
  <2> QED BY <1>7, <2>1, <2>2, <2>3 DEF MovesOn
<1>8. CASE Crash
  BY <1>8 DEF Crash
<1>9. \/ (UNCHANGED replays /\ NoReplay) \/ Crash \/ Restart \/ ManualReplay
      \/ \E r \in 1..Len(replays) : ReplayNext(r) \/ ReplayRefused(r) \/ ReplayEnds(r)
  <2>1. NoReplay => UNCHANGED replays
    BY DEF NoReplay, vars, SkipChild, End, Compact, ScriptRead, ScriptRewrite, Accept, BeginChild
  <2> QED BY <2>1 DEF Next, ServerStep, ReplayStep, NoReplay
<1>10. CASE \E r \in 1..Len(replays) : ReplayNext(r) \/ ReplayRefused(r) \/ ReplayEnds(r)
  <2>1. PICK r \in 1..Len(replays) : ReplayNext(r) \/ ReplayRefused(r) \/ ReplayEnds(r)
    BY <1>10
  <2>2. CASE ReplayNext(r)
    BY <1>5, <2>2
  <2>3. CASE ReplayRefused(r)
    BY <1>6, <2>3
  <2>4. CASE ReplayEnds(r)
    BY <1>7, <2>4
  <2> QED BY <2>1, <2>2, <2>3, <2>4
<1> QED BY <1>3, <1>4, <1>8, <1>9, <1>10

(* Plans hold top-level entries, once each, and what is skipped are nested ones. *)
LEMMA StepKeepsPlans ==
  ASSUME TypeInv, TypeInv', PlansInv, [Next]_vars
  PROVE  PlansInv'
<1>1. /\ RestOK /\ RestOK' /\ DOMAIN mem' \subseteq Ids'
      /\ skipping \in Seq(Ids) /\ replays \in Seq(Planned(Ids)) /\ Len(replays) \in Nat
      /\ \A r \in 1..Len(replays) : replays[r] \in Planned(Ids)
  BY ElementOfSeq, LenProperties DEF TypeInv, StoreOK, QueuesOK, MemOK
<1>2. Ids \subseteq Ids' /\ \A i \in Ids : entries'[i] = entries[i]
  BY StepAddsEntries
<1>3. \A r \in 1..Len(replays) :
        /\ replays[r].queue \in Seq(Ids) /\ replays[r].orig \in Ids \cup {0}
        /\ PlanOK(replays[r])
        /\ \A i : Among(i, replays[r].queue) => i \in Ids
  <2>1. \A r \in 1..Len(replays) : replays[r].queue \in Seq(Ids) /\ replays[r].orig \in Ids \cup {0}
    BY <1>1 DEF Planned
  <2>2. \A s \in Seq(Ids) : \A i : Among(i, s) => i \in Ids
    BY ElementOfSeq DEF Among
  <2> QED BY <2>1, <2>2 DEF PlansInv, PlansOK
<1>4. DOMAIN ended' \subseteq settled'
  <2>1. CASE \E i \in live : End(i)
    BY <2>1 DEF End, Mark, PlansInv
  <2>2. CASE ~ \E i \in live : End(i)
    <3>1. ended' = ended /\ settled \subseteq settled'
      BY <2>2 DEF Next, ServerStep, ReplayStep, vars, Restart, SkipChild, ReplayNext, ReplayRefused,
        ReplayEnds, Accept, BeginChild, Compact, ManualReplay, Crash, ScriptRead, ScriptRewrite,
        Begin, Mark
    <3> QED BY <3>1 DEF PlansInv
  <2> QED BY <2>1, <2>2
<1>5. SkipsOK'
  <2>1. CASE UNCHANGED skipping
    <3>1. \A i : Among(i, skipping) => i \in Ids
      BY <1>1, ElementOfSeq DEF Among
    <3> QED BY <1>2, <2>1, <3>1 DEF PlansInv, SkipsOK, Among
  <2>2. CASE Crash
    <3>1. skipping' = <<>> /\ 1..Len(<<>>) = {}
      BY <2>2 DEF Crash
    <3> QED BY <3>1 DEF SkipsOK, Among
  <2>3. CASE SkipChild
    <3>1. skipping' = Tail(skipping) /\ skipping # <<>> /\ entries' = entries
      BY <2>3 DEF SkipChild
    <3>2. \A k \in 1..Len(Tail(skipping)) : \E l \in 1..Len(skipping) : Tail(skipping)[k] = skipping[l]
      BY <1>1, <3>1, HeadOfQueue
    <3> QED BY <3>1, <3>2 DEF PlansInv, SkipsOK, Among
  <2>4. CASE Restart \/ ManualReplay
    <3>1. skipping' = ToSkip(mem') /\ entries' = entries
      BY <2>4 DEF Restart, ManualReplay, ToSkip, TopLevel
    <3>2. Ids' = Ids
      BY <3>1 DEF Ids
    <3>3. \A i : Among(i, ToSkip(mem')) => entries[i].parent # 0
      BY <1>1, <3>2, PlanLists
    <3> QED BY <3>1, <3>3 DEF SkipsOK, Among
  <2> QED
    BY <2>1, <2>2, <2>3, <2>4
    DEF Next, ServerStep, ReplayStep, vars, ReplayNext, ReplayRefused,
        ReplayEnds, End, Accept, BeginChild, Compact, ScriptRead, ScriptRewrite
<1>6. ASSUME NEW x, PlanOK(x), x.orig \in Ids \cup {0}, \A i : Among(i, x.queue) => i \in Ids
      PROVE  PlanOK(x)'
  BY <1>2, <1>6 DEF PlanOK
<1>7. PlansOK'
  <2>1. CASE UNCHANGED replays
    <3>1. \A r \in 1..Len(replays) : PlanOK(replays[r])'
      BY <1>3, <1>6, <2>1 DEF PlanOK
    <3> QED BY <2>1, <3>1 DEF PlansOK
  <2>2. CASE replays' = <<>>
    <3>1. 1..Len(<<>>) = {}
      OBVIOUS
    <3> QED BY <2>2, <3>1 DEF PlansOK
  <2>3. CASE replays' = Append(replays, Plan(mem')) /\ entries' = entries
    <3> DEFINE p == Plan(mem')
    <3>1. Ids' = Ids
      BY <2>3 DEF Ids
    <3>2. p \in Planned(Ids)
      BY <1>1, <3>1, PlannedReplay
    <3>3. OnceEach(p.queue) /\ p.orig = 0 /\ \A i : Among(i, p.queue) => entries[i].parent = 0
      BY <1>1, <3>1, PlanLists
    <3> HIDE DEF p
    <3>4. PlanOK(p)
      BY <3>3 DEF PlanOK
    <3>5. /\ Len(replays') = Len(replays) + 1 /\ replays'[Len(replays) + 1] = p
          /\ \A r \in 1..Len(replays) : replays'[r] = replays[r]
      BY <1>1, <2>3, <3>2, AppendProperties DEF p
    <3>6. \A r \in 1..Len(replays') : r \in 1..Len(replays) \/ r = Len(replays) + 1
      BY <1>1, <3>5
    <3>7. \A r \in 1..Len(replays') : PlanOK(replays'[r])
      BY <1>3, <3>4, <3>5, <3>6
    <3> QED BY <2>3, <3>7 DEF PlansOK, PlanOK
  <2>4. ASSUME NEW r \in 1..Len(replays), NEW x \in Planned(Ids), replays' = [replays EXCEPT ![r] = x],
               \/ x.queue = replays[r].queue
               \/ x.queue = Tail(replays[r].queue) /\ replays[r].queue # <<>>,
               \/ x.orig = Head(replays[r].queue) /\ replays[r].queue # <<>>
               \/ x.orig = replays[r].orig \/ x.orig = 0
        PROVE  PlansOK'
    <3>1. /\ OnceEach(replays[r].queue) /\ replays[r].queue \in Seq(Ids)
          /\ \A i : Among(i, replays[r].queue) => entries[i].parent = 0 /\ i \in Ids
          /\ replays[r].orig # 0 => entries[replays[r].orig].parent = 0
      BY <1>3 DEF PlanOK
    <3>2. OnceEach(x.queue) /\ \A i : Among(i, x.queue) => Among(i, replays[r].queue)
      BY <2>4, <3>1, TailOfQueue
    <3>3. x.orig # 0 => entries[x.orig].parent = 0
      <4>1. replays[r].queue # <<>> => Among(Head(replays[r].queue), replays[r].queue)
        BY <3>1, TailOfQueue
      <4> QED BY <2>4, <3>1, <4>1
    <3>4. PlanOK(x) /\ x.orig \in Ids \cup {0} /\ \A i : Among(i, x.queue) => i \in Ids
      BY <3>1, <3>2, <3>3 DEF PlanOK, Planned
    <3>5. /\ Len(replays') = Len(replays)
          /\ \A q \in 1..Len(replays) : replays'[q] = IF q = r THEN x ELSE replays[q]
      BY <1>1, <2>4, ExceptSeq
    <3>6. \A q \in 1..Len(replays) :
            LET y == replays[q]
            IN  /\ OnceEach(y.queue) /\ \A i : Among(i, y.queue) => entries'[i].parent = 0
                /\ y.orig # 0 => entries'[y.orig].parent = 0
      BY <1>2, <1>3 DEF PlanOK
    <3>7. /\ OnceEach(x.queue) /\ \A i : Among(i, x.queue) => entries'[i].parent = 0
          /\ x.orig # 0 => entries'[x.orig].parent = 0
      BY <1>2, <3>3, <3>4 DEF PlanOK
    <3>8. \A q \in 1..Len(replays') :
            LET y == replays'[q]
            IN  /\ OnceEach(y.queue) /\ \A i : Among(i, y.queue) => entries'[i].parent = 0
                /\ y.orig # 0 => entries'[y.orig].parent = 0
      BY <3>5, <3>6, <3>7
    <3> QED BY <3>8 DEF PlansOK, PlanOK
  <2> QED
    <3>1. CASE \E r \in 1..Len(replays), x \in Planned(Ids) : MovesOn(r, x)
      BY <2>4, <3>1 DEF MovesOn
    <3> QED BY <2>1, <2>2, <2>3, <3>1, QueueMoves
<1> QED BY <1>2, <1>4, <1>5, <1>7 DEF PlansInv

(* In every environment a plan is a list of distinct top-level entries, what is
   skipped is nested in another entry, and what has ended is settled. *)
LEMMA PlansInvariant == Spec => []PlansInv
<1>1. Init => PlansInv
  <2> SUFFICES ASSUME Init PROVE PlansInv
    OBVIOUS
  <2>1. entries = <<>> /\ skipping = <<>> /\ replays = <<>> /\ ended = <<>> /\ 1..Len(<<>>) = {}
    BY DEF Init
  <2>2. Ids = {} /\ DOMAIN ended = {}
    BY <2>1 DEF Ids
  <2> QED BY <2>1, <2>2 DEF PlansInv, SkipsOK, PlansOK, Among
<1> QED BY <1>1, StepKeepsPlans, TypesInvariant, PTL DEF Spec

-----------------------------------------------------------------------------
(* What a server owes *)

\* Neither damage nor POST /wal/replay.
Alone == Undamaged /\ used["manual"] = 0

\* What a replay has yet to do is pending, its next entries apart from the one
\* under way.
OwedBy(x) ==
  /\ \A i : Among(i, x.queue) => i \in OnDisk /\ i # x.orig
  /\ x.orig # 0 => x.orig \in OnDisk

\* A nested call that is pending is under way, as the call it is nested in, or it
\* is about to be skipped.
ChildrenOK ==
  up => \A c \in OnDisk : entries[c].parent # 0 =>
          (c \in live /\ entries[c].parent \in live) \/ Among(c, skipping)

OwedOK == Len(replays) <= 1 /\ \A r \in 1..Len(replays) : OwedBy(replays[r])
OwingInv ==
  /\ live \subseteq OnDisk
  /\ skipping # <<>> => live = {}
  /\ OwedOK /\ ChildrenOK

(* What is not the first of a queue is in the rest of it. *)
LEMMA RestOfQueue ==
  ASSUME NEW ids, NEW q \in Seq(ids), q # <<>>, NEW i, Among(i, q), i # Head(q)
  PROVE  Among(i, Tail(q))
<1>1. PICK k \in 1..Len(q) : q[k] = i
  BY DEF Among
<1>2. Len(q) \in Nat /\ Head(q) = q[1]
  BY LenProperties
<1>3. Len(Tail(q)) = Len(q) - 1 /\ \A l \in 1..Len(Tail(q)) : Tail(q)[l] = q[l + 1]
  BY HeadTailProperties
<1>4. k - 1 \in 1..Len(Tail(q)) /\ (k - 1) + 1 = k
  BY <1>1, <1>2, <1>3
<1>5. Tail(q)[k - 1] = i
  BY <1>1, <1>3, <1>4
<1> QED BY <1>4, <1>5 DEF Among

(* What beginning and settling an entry do to what is pending on disk, as long as
   no line is damaged. *)
LEMMA DiskEffects ==
  ASSUME TypeInv, DiskInv, Undamaged
  PROVE  /\ tail = "clean" /\ OnDisk \subseteq Ids /\ (up => OnDisk = InMem)
         /\ \A job \in Jobs, parent \in Nat : Begin(job, parent) => OnDisk' = OnDisk \cup {Len(entries) + 1}
         /\ \A id \in Ids, st \in Ends : Mark(id, st) => OnDisk' = OnDisk \ {id}
<1>1. /\ StoreOK /\ RestOK /\ file \in Seq(Lines) /\ tail \in {"clean", "half", "open"}
      /\ Ids \in SUBSET Nat /\ Len(entries) + 1 \in Nat /\ file \in Seq(Named(Ids))
  BY KnownIds, NamedLines DEF TypeInv, StoreOK, FileOK
<1>2. tail = "clean" /\ (up => OnDisk = InMem)
  BY DEF Undamaged, DiskInv, AgreeOK, Apart
<1>3. OnDisk \subseteq Ids
  BY <1>1, LoadedMemory DEF OnDisk
<1>4. ASSUME NEW line \in Lines, Write(line)
      PROVE  Turns(OnDisk, line, OnDisk')
  BY <1>1, <1>2, <1>4, WriteEffect
<1>5. ASSUME NEW job \in Jobs, NEW parent \in Nat, Begin(job, parent)
      PROVE  OnDisk' = OnDisk \cup {Len(entries) + 1}
  <2> DEFINE line == Line("append", Len(entries) + 1)
  <2>1. line \in Lines /\ line.op = "append" /\ line.id = Len(entries) + 1 /\ Write(line)
    BY <1>1, <1>5 DEF Begin, Line, Lines
  <2> HIDE DEF line
  <2> QED BY <1>4, <2>1 DEF Turns
<1>6. ASSUME NEW id \in Ids, NEW st \in Ends, Mark(id, st)
      PROVE  OnDisk' = OnDisk \ {id}
  <2> DEFINE line == Line(IF st = "completed" THEN "complete" ELSE "fail", id)
  <2>1. line \in Lines /\ line.op # "append" /\ line.id = id /\ Write(line)
    BY <1>1, <1>6 DEF Mark, Line, Lines
  <2> HIDE DEF line
  <2> QED BY <1>4, <2>1 DEF Turns
<1> QED BY <1>2, <1>3, <1>5, <1>6

(* What each kind of step does to what is pending on disk and to what is live, when
   nobody but the server itself works on the log. *)
LEMMA AloneStep ==
  ASSUME TypeInv, DiskInv, [Next]_vars, Alone'
  PROVE  /\ Alone /\ ~ManualReplay /\ ~ScriptRead /\ ~ScriptRewrite
         /\ Crash => OnDisk' = OnDisk
         /\ Compact => OnDisk' = OnDisk
         /\ Restart => OnDisk' = PendingIn(mem') /\ OnDisk' \subseteq OnDisk
<1>1. /\ StoreOK /\ RestOK /\ "script" \in Events /\ "manual" \in Events
  BY DEF TypeInv, StoreOK, Events
<1>2. Alone
  BY <1>1, UndamagedStep, StepCounts DEF Alone
<1>3. ~ManualReplay
  BY <1>1, UseCounts DEF ManualReplay, Alone
<1>4. ~ScriptRead
  BY <1>1, UseCounts DEF ScriptRead, Alone, Undamaged
<1>5. ~ScriptRewrite
  BY <1>2 DEF ScriptRewrite, DiskInv, Alone, Undamaged
<1>6. Crash => OnDisk' = OnDisk
  BY <1>2 DEF Crash, Alone, Undamaged, OnDisk
<1>7. Compact => OnDisk' = OnDisk
  <2> SUFFICES ASSUME Compact PROVE OnDisk' = OnDisk
    OBVIOUS
  <2>1. up /\ file' = AppendLines(InOrder(PendingIn(mem)))
    BY DEF Compact, Free
  <2>2. PendingIn(mem) \in SUBSET Nat /\ IsFiniteSet(PendingIn(mem))
    BY <1>1, RewrittenMemory
  <2>3. PendingIn(Load(AppendLines(InOrder(PendingIn(mem))))) = PendingIn(mem)
    BY <2>2, RewrittenLines
  <2>4. OnDisk = InMem
    BY <1>2, <2>1, DiskEffects DEF Alone
  <2> QED BY <2>1, <2>3, <2>4 DEF OnDisk, InMem
<1>8. Restart => OnDisk' = PendingIn(mem') /\ OnDisk' \subseteq OnDisk
  <2> SUFFICES ASSUME Restart PROVE OnDisk' = PendingIn(mem') /\ OnDisk' \subseteq OnDisk
    OBVIOUS
  <2>1. file' = Trimmed(file) /\ mem' = Load(Trimmed(file))
    BY DEF Restart
  <2> QED BY <1>1, <2>1, TrimmedFile DEF OnDisk
<1> QED BY <1>2, <1>3, <1>4, <1>5, <1>6, <1>7, <1>8

(* Alone, a server closes nothing it still needs: what is under way or in its plan
   stays pending, and only the child entries it is about to skip are left over
   from an earlier process. *)
LEMMA StepKeepsOwing ==
  ASSUME TypeInv, TypeInv', DiskInv, PlansInv, ReplaysOnlyInterrupted, OwingInv, [Next]_vars, Alone'
  PROVE  OwingInv'
<1> DEFINE n == Len(entries) + 1
<1>1. /\ RestOK /\ StoreOK /\ n \notin Ids /\ 0 \notin Ids /\ live \subseteq Ids
      /\ skipping \in Seq(Ids) /\ replays \in Seq(Planned(Ids)) /\ Len(replays) \in Nat
      /\ (~up => live = {} /\ skipping = <<>> /\ replays = <<>>)
  BY KnownIds, LenProperties DEF TypeInv, StoreOK, RestOK, QueuesOK
<1>2. Alone /\ Undamaged
  BY AloneStep DEF Alone
<1>3. /\ OnDisk \subseteq Ids
      /\ \A job \in Jobs, parent \in Nat : Begin(job, parent) => OnDisk' = OnDisk \cup {n}
      /\ \A id \in Ids, st \in Ends : Mark(id, st) => OnDisk' = OnDisk \ {id}
  BY <1>2, DiskEffects
<1>4. Ids \subseteq Ids' /\ \A i \in Ids : entries'[i] = entries[i]
  BY StepAddsEntries
<1>5. \A job \in Jobs, parent \in Nat : Begin(job, parent) =>
         entries'[n] = [job |-> job, parent |-> parent] /\ live' = live \cup {n}
  BY <1>1, BegunEntry
<1>6. \A i \in Ids : i \in Nat /\ entries[i].job \in Jobs
  <2>1. \A i \in 1..Len(entries) : entries[i] \in [job : Jobs, parent : Nat]
    BY <1>1, ElementOfSeq DEF RestOK
  <2>2. Ids \in SUBSET Nat
    BY <1>1, KnownIds
  <2> QED BY <2>1, <2>2 DEF Ids
<1>7. ASSUME NEW r \in 1..Len(replays)
      PROVE  /\ replays[r].queue \in Seq(Ids) /\ replays[r].orig \in Ids \cup {0}
             /\ OnceEach(replays[r].queue) /\ OwedBy(replays[r])
             /\ \A i : Among(i, replays[r].queue) => i \in Ids /\ i \notin live /\ entries[i].parent = 0
             /\ replays[r].orig # 0 => replays[r].orig \notin live /\ entries[replays[r].orig].parent = 0
  <2>1. replays[r] \in Planned(Ids)
    BY <1>1, ElementOfSeq
  <2>2. replays[r].queue \in Seq(Ids) /\ replays[r].orig \in Ids \cup {0}
    BY <2>1 DEF Planned
  <2>3. \A i : Among(i, replays[r].queue) => i \in Ids
    BY <2>2, ElementOfSeq DEF Among
  <2>4. PlanOK(replays[r]) /\ OwedBy(replays[r])
    BY DEF PlansInv, PlansOK, OwingInv, OwedOK
  <2>5. replays[r].orig \notin live /\ \A i : Among(i, replays[r].queue) => i \notin live
    BY DEF ReplaysOnlyInterrupted, Among
  <2> QED BY <2>2, <2>3, <2>4, <2>5 DEF PlanOK
<1>8. "failed" \in Ends /\ 0 \in Nat
  BY DEF Ends
<1>9. /\ live \subseteq OnDisk /\ (skipping # <<>> => live = {}) /\ Len(replays) <= 1 /\ ChildrenOK
  BY DEF OwingInv, OwedOK
\* Nothing but entries is added.
<1>10. ASSUME NEW job \in Jobs, NEW parent \in Nat, Begin(job, parent), skipping = <<>>,
              UNCHANGED <<up, skipping>>, parent = 0 \/ parent \in live
       PROVE  live' \subseteq OnDisk' /\ (skipping' # <<>> => live' = {}) /\ ChildrenOK' /\ OnDisk \subseteq OnDisk'
  <2>1. OnDisk' = OnDisk \cup {n} /\ live' = live \cup {n}
    BY <1>3, <1>5, <1>10
  <2>2. entries'[n] = [job |-> job, parent |-> parent]
    BY <1>5, <1>10
  <2>3. entries'[n].parent = parent
    BY <2>2
  <2>4. ChildrenOK'
    <3> SUFFICES ASSUME up', NEW c \in OnDisk', entries'[c].parent # 0
                 PROVE  c \in live' /\ entries'[c].parent \in live'
      BY DEF ChildrenOK
    <3>1. CASE c = n
      BY <1>10, <2>1, <2>3, <3>1
    <3>2. CASE c # n
      <4>1. c \in OnDisk /\ entries[c].parent # 0 /\ entries'[c] = entries[c]
        BY <1>3, <1>4, <2>1, <3>2
      <4>2. ~Among(c, skipping)
        BY <1>10 DEF Among
      <4> QED BY <1>9, <1>10, <2>1, <4>1, <4>2 DEF ChildrenOK
    <3> QED BY <3>1, <3>2
  <2> QED BY <1>9, <1>10, <2>1, <2>4
\* The replays stay as they are.
<1>11. ASSUME UNCHANGED replays,
              \A r \in 1..Len(replays) : \A i \in Ids :
                Among(i, replays[r].queue) \/ i = replays[r].orig => (i \in OnDisk => i \in OnDisk')
       PROVE  OwedOK'
  <2>1. ASSUME NEW r \in 1..Len(replays)
        PROVE  /\ \A i : Among(i, replays[r].queue) => i \in OnDisk' /\ i # replays[r].orig
               /\ replays[r].orig # 0 => replays[r].orig \in OnDisk'
    BY <1>7, <1>11 DEF OwedBy
  <2> QED BY <1>9, <1>11, <2>1 DEF OwedOK, OwedBy
<1>12. CASE UNCHANGED vars
  <2>1. UNCHANGED <<file, up, live, skipping, replays, entries>>
    BY <1>12 DEF vars
  <2>2. OnDisk' = OnDisk
    BY <2>1 DEF OnDisk
  <2>3. ChildrenOK'
    BY <1>9, <2>1, <2>2 DEF ChildrenOK
  <2> QED BY <1>9, <1>11, <2>1, <2>2, <2>3 DEF OwingInv
<1>13. ASSUME NEW j \in Jobs, Accept(j)
       PROVE  OwingInv'
  <2>1. Begin(j, 0) /\ skipping = <<>> /\ UNCHANGED <<up, skipping, replays>>
    BY <1>13 DEF Accept, Free
  <2>2. live' \subseteq OnDisk' /\ (skipping' # <<>> => live' = {}) /\ ChildrenOK' /\ OnDisk \subseteq OnDisk'
    BY <1>8, <1>10, <2>1
  <2> QED BY <1>11, <2>1, <2>2 DEF OwingInv
<1>14. ASSUME NEW i \in live, BeginChild(i)
       PROVE  OwingInv'
  <2>1. Begin(entries[i].job, i) /\ skipping = <<>> /\ UNCHANGED <<up, skipping, replays>>
    BY <1>14 DEF BeginChild, Free
  <2>2. i \in Nat /\ entries[i].job \in Jobs
    BY <1>1, <1>6
  <2>3. live' \subseteq OnDisk' /\ (skipping' # <<>> => live' = {}) /\ ChildrenOK' /\ OnDisk \subseteq OnDisk'
    BY <1>10, <2>1, <2>2
  <2> QED BY <1>11, <2>1, <2>3 DEF OwingInv
<1>15. ASSUME NEW i \in live, End(i)
       PROVE  OwingInv'
  <2>1. PICK st \in Ends : Mark(i, st)
    BY <1>15 DEF End, Ends
  <2>2. /\ skipping = <<>> /\ UNCHANGED <<up, skipping, replays, entries>> /\ live' = live \ {i}
        /\ \A c \in Ids : entries[c].parent = i => c \notin live
    BY <1>15 DEF End, Free, Executing, ChildrenOf
  <2>3. OnDisk' = OnDisk \ {i}
    BY <1>1, <1>3, <2>1
  <2>4. ChildrenOK'
    <3> SUFFICES ASSUME up', NEW c \in OnDisk', entries'[c].parent # 0
                 PROVE  c \in live' /\ entries'[c].parent \in live'
      BY DEF ChildrenOK
    <3>1. c \in OnDisk /\ c # i /\ c \in Ids /\ ~Among(c, skipping)
      BY <1>3, <2>2, <2>3 DEF Among
    <3>2. c \in live /\ entries[c].parent \in live
      BY <1>9, <2>2, <3>1 DEF ChildrenOK
    <3> QED BY <2>2, <3>1, <3>2
  <2>5. \A r \in 1..Len(replays) : ~Among(i, replays[r].queue) /\ i # replays[r].orig
    BY <1>1, <1>7
  <2>6. OwedOK'
    BY <1>11, <2>2, <2>3, <2>5
  <2> QED BY <1>9, <2>2, <2>3, <2>4, <2>6 DEF OwingInv
<1>16. CASE Compact
  <2>1. UNCHANGED <<up, live, skipping, replays, entries>> /\ OnDisk' = OnDisk
    BY <1>16, AloneStep DEF Compact
  <2>2. ChildrenOK'
    BY <1>9, <2>1 DEF ChildrenOK
  <2> QED BY <1>9, <1>11, <2>1, <2>2 DEF OwingInv
<1>17. CASE SkipChild
  <2> DEFINE h == Head(skipping)
  <2>1. /\ skipping # <<>> /\ skipping' = Tail(skipping) /\ Mark(h, "failed")
        /\ UNCHANGED <<up, live, replays, entries>>
    BY <1>17 DEF SkipChild
  <2>2. h \in Ids /\ entries[h].parent # 0
    <3>1. h \in Ids /\ \E k \in 1..Len(skipping) : h = skipping[k]
      BY <1>1, <2>1, HeadOfQueue
    <3> QED BY <3>1 DEF PlansInv, SkipsOK, Among
  <2>3. OnDisk' = OnDisk \ {h}
    BY <1>3, <1>8, <2>1, <2>2
  <2>4. live = {}
    BY <1>9, <2>1
  <2>5. ChildrenOK'
    <3> SUFFICES ASSUME up', NEW c \in OnDisk', entries'[c].parent # 0
                 PROVE  Among(c, Tail(skipping))
      BY <2>1 DEF ChildrenOK, Among
    <3>1. c \in OnDisk /\ c # h /\ Among(c, skipping)
      BY <1>9, <2>1, <2>3, <2>4 DEF ChildrenOK
    <3> QED BY <1>1, <2>1, <3>1, RestOfQueue
  <2>6. \A r \in 1..Len(replays) : ~Among(h, replays[r].queue) /\ h # replays[r].orig
    <3>1. h # 0
      BY <1>1, <2>2
    <3> QED BY <1>7, <2>2, <3>1
  <2>7. OwedOK'
    BY <1>11, <2>1, <2>3, <2>6
  <2> QED BY <2>1, <2>4, <2>5, <2>7 DEF OwingInv
<1>18. CASE Crash
  <2>1. live' = {} /\ replays' = <<>> /\ skipping' = <<>> /\ ~up'
    BY <1>18 DEF Crash
  <2>2. Len(<<>>) = 0 /\ 1..0 = {}
    OBVIOUS
  <2> QED BY <2>1, <2>2 DEF OwingInv, OwedOK, ChildrenOK
<1>19. CASE Restart
  <2>1. /\ live' = {} /\ replays = <<>> /\ entries' = entries /\ OnDisk' = PendingIn(mem')
        /\ skipping' = ToSkip(mem') /\ replays' \in {<<>>, <<Plan(mem')>>}
    BY <1>1, <1>19, AloneStep DEF Restart, Plan, ToSkip, TopLevel
  <2>2. Ids' = Ids /\ DOMAIN mem' \subseteq Ids
    <3>1. Ids' = Ids
      BY <2>1 DEF Ids
    <3> QED BY <3>1 DEF TypeInv, StoreOK, MemOK
  <2>3. /\ Plan(mem').orig = 0
        /\ \A i : Among(i, Plan(mem').queue) <=> i \in PendingIn(mem') /\ entries[i].parent = 0
        /\ \A i : Among(i, ToSkip(mem')) <=> i \in PendingIn(mem') /\ entries[i].parent # 0
    BY <1>1, <2>2, PlanLists
  <2>4. ChildrenOK'
    BY <2>1, <2>3 DEF ChildrenOK, Among
  <2>5. \A i : Among(i, Plan(mem').queue) => i \in OnDisk' /\ i # 0
    BY <1>1, <2>1, <2>2, <2>3 DEF PendingIn
  <2>6. Len(replays') <= 1 /\ \A r \in 1..Len(replays') : replays'[r] = Plan(mem')
    <3> DEFINE p == Plan(mem')
    <3>1. Len(<<p>>) = 1 /\ <<p>>[1] = p /\ Len(<<>>) = 0
      OBVIOUS
    <3> HIDE DEF p
    <3>2. CASE replays' = <<>>
      <4>1. 1..0 = {}
        OBVIOUS
      <4> QED BY <3>1, <3>2, <4>1
    <3>3. CASE replays' = <<p>>
      <4>1. \A r \in 1..1 : r = 1
        OBVIOUS
      <4> QED BY <3>1, <3>3, <4>1 DEF p
    <3> QED BY <2>1, <3>2, <3>3 DEF p
  <2>7. OwedOK'
    BY <2>3, <2>5, <2>6 DEF OwedOK, OwedBy
  <2> QED BY <2>1, <2>4, <2>7 DEF OwingInv
\* One replay moves on.
<1>20. ASSUME NEW r \in 1..Len(replays), NEW x, x \in Planned(Ids), replays' = [replays EXCEPT ![r] = x],
              \A i : Among(i, x.queue) => i \in OnDisk' /\ i # x.orig,
              x.orig # 0 => x.orig \in OnDisk'
       PROVE  OwedOK'
  <2>1. Len(replays') = Len(replays) /\ \A q \in 1..Len(replays) : replays'[q] = IF q = r THEN x ELSE replays[q]
    BY <1>1, <1>20, ExceptSeq
  <2>2. \A q \in 1..Len(replays) : q = r
    BY <1>1, <1>9
  <2> QED BY <1>9, <1>20, <2>1, <2>2 DEF OwedOK, OwedBy
<1>21. ASSUME NEW r \in 1..Len(replays), NEW x \in Planned(Ids), replays' = [replays EXCEPT ![r] = x],
              UNCHANGED skipping, skipping = <<>>, ReplayNext(r), x.queue = Tail(replays[r].queue),
              x.orig = Head(replays[r].queue), replays[r].queue # <<>>
       PROVE  OwingInv'
  <2> DEFINE h == Head(replays[r].queue)
  <2>1. Among(h, replays[r].queue) /\ \A i : Among(i, x.queue) <=> Among(i, replays[r].queue) /\ i # h
    BY <1>7, <1>21, TailOfQueue
  <2>2. h \in Ids /\ h \in OnDisk
    BY <1>7, <2>1 DEF OwedBy
  <2>3. Begin(entries[h].job, 0) /\ up' = up
    BY <1>21 DEF ReplayNext
  <2>4. live' \subseteq OnDisk' /\ (skipping' # <<>> => live' = {}) /\ ChildrenOK' /\ OnDisk \subseteq OnDisk'
    BY <1>6, <1>8, <1>10, <1>21, <2>2, <2>3
  <2>5. OwedOK'
    <3>1. \A i : Among(i, x.queue) => i \in OnDisk' /\ i # x.orig
      BY <1>7, <1>21, <2>1, <2>4 DEF OwedBy
    <3>2. x.orig \in OnDisk'
      BY <1>21, <2>2, <2>4
    <3> QED BY <1>20, <1>21, <3>1, <3>2
  <2> QED BY <2>4, <2>5 DEF OwingInv
\* One replay settles an entry that is not live and not nested in one.
<1>22. ASSUME NEW h \in OnDisk, h \notin live, OnDisk' = OnDisk \ {h}, skipping = <<>>,
              UNCHANGED <<skipping, live, up, entries>>
       PROVE  live' \subseteq OnDisk' /\ (skipping' # <<>> => live' = {}) /\ ChildrenOK'
  <2>1. ChildrenOK'
    BY <1>9, <1>22 DEF ChildrenOK, Among
  <2> QED BY <1>9, <1>22, <2>1
<1>23. ASSUME NEW r \in 1..Len(replays), NEW x \in Planned(Ids), replays' = [replays EXCEPT ![r] = x],
              UNCHANGED skipping, skipping = <<>>, ReplayRefused(r), x.queue = Tail(replays[r].queue),
              x.orig = replays[r].orig, replays[r].queue # <<>>
       PROVE  OwingInv'
  <2> DEFINE h == Head(replays[r].queue)
  <2>1. Among(h, replays[r].queue) /\ \A i : Among(i, x.queue) <=> Among(i, replays[r].queue) /\ i # h
    BY <1>7, <1>23, TailOfQueue
  <2>2. h \in Ids /\ h \in OnDisk /\ h \notin live /\ h # replays[r].orig
    BY <1>7, <2>1 DEF OwedBy
  <2>3. Mark(h, "failed") /\ UNCHANGED <<up, live, entries>>
    BY <1>23 DEF ReplayRefused
  <2>4. OnDisk' = OnDisk \ {h}
    BY <1>3, <1>8, <2>2, <2>3
  <2>5. live' \subseteq OnDisk' /\ (skipping' # <<>> => live' = {}) /\ ChildrenOK'
    BY <1>22, <1>23, <2>2, <2>3, <2>4
  <2>6. OwedOK'
    <3>1. OwedBy(replays[r])
      BY <1>7
    <3>2. \A i : Among(i, x.queue) => i \in OnDisk' /\ i # x.orig
      BY <1>23, <2>1, <2>4, <3>1 DEF OwedBy
    <3>3. x.orig # 0 => x.orig \in OnDisk'
      BY <1>23, <2>2, <2>4, <3>1 DEF OwedBy
    <3> QED BY <1>20, <1>23, <3>2, <3>3
  <2> QED BY <2>5, <2>6 DEF OwingInv
<1>24. ASSUME NEW r \in 1..Len(replays), NEW x \in Planned(Ids), replays' = [replays EXCEPT ![r] = x],
              UNCHANGED skipping, skipping = <<>>, ReplayEnds(r), x.queue = replays[r].queue, x.orig = 0
       PROVE  OwingInv'
  <2> DEFINE h == replays[r].orig
  <2>1. h # 0 /\ replays[r].exec \notin live /\ Mark(h, ended[replays[r].exec]) /\ UNCHANGED <<up, live, entries>>
    BY <1>24 DEF ReplayEnds
  <2>2. h \in Ids /\ h \in OnDisk /\ h \notin live
    BY <1>7, <2>1 DEF OwedBy
  <2>3. ended[replays[r].exec] \in Ends
    BY <2>1 DEF TypeInv, QueuesOK, StoreOK, PastOK
  <2>4. OnDisk' = OnDisk \ {h}
    BY <1>3, <2>1, <2>2, <2>3
  <2>5. live' \subseteq OnDisk' /\ (skipping' # <<>> => live' = {}) /\ ChildrenOK'
    BY <1>22, <1>24, <2>1, <2>2, <2>4
  <2>6. OwedOK'
    <3>1. \A i : Among(i, x.queue) => i \in OnDisk' /\ i # x.orig
      BY <1>1, <1>7, <1>24, <2>4 DEF OwedBy
    <3> QED BY <1>20, <1>24, <3>1
  <2> QED BY <2>5, <2>6 DEF OwingInv
<1>25. CASE \E r \in 1..Len(replays), x \in Planned(Ids) : MovesOn(r, x)
  BY <1>21, <1>23, <1>24, <1>25 DEF MovesOn
<1>26. CASE NoReplay
  BY <1>12, <1>13, <1>14, <1>15, <1>16, <1>17, <1>26, AloneStep DEF NoReplay
<1> QED BY <1>18, <1>19, <1>25, <1>26, AloneStep, QueueMoves

(* Without damage and manual replays, what is live or still to be replayed is
   pending on disk, and a pending nested call is under way or about to be skipped. *)
LEMMA OwingInvariant == Spec => [](Alone => OwingInv)
<1> DEFINE Inv == Alone => OwingInv
           Left0 == used["manual"] = 0 => ReplaysOnlyInterrupted
<1>1. Init => Inv
  <2> SUFFICES ASSUME Init PROVE OwingInv
    OBVIOUS
  <2>1. entries = <<>> /\ live = {} /\ skipping = <<>> /\ replays = <<>> /\ file = <<>> /\ up
    BY DEF Init
  <2>2. Len(<<>>) = 0 /\ 1..0 = {} /\ file \in Seq(Lines)
    BY <2>1
  <2>3. OnDisk = {}
    BY <2>1, <2>2, LoadedLines DEF OnDisk
  <2> QED BY <2>1, <2>2, <2>3 DEF OwingInv, OwedOK, ChildrenOK
<1>2. TypeInv /\ TypeInv' /\ DiskInv /\ PlansInv /\ Left0 /\ Inv /\ [Next]_vars => Inv'
  <2> SUFFICES ASSUME TypeInv, TypeInv', DiskInv, PlansInv, Left0, Inv, [Next]_vars, Alone'
               PROVE  OwingInv'
    OBVIOUS
  <2>1. Alone
    BY AloneStep
  <2> QED BY <2>1, StepKeepsOwing DEF Alone
<1> HIDE DEF Inv, Left0
<1>3. Spec => []Left0
  BY ReplaysOnlyLeft DEF Left0
<1>4. Spec => []Inv
  BY <1>1, <1>2, <1>3, TypesInvariant, DiskInvariant, PlansInvariant, PTL DEF Spec
<1> QED BY <1>4 DEF Inv

\* The execution a pending entry belongs to is pending.
RootsOK == \A c \in OnDisk : \E i \in OnDisk : entries[i].parent = 0 /\ Within(c, i)

\* No line is lost, and nobody replays by hand.
Unharmed == Undamaged /\ used["manual"] = 0 /\ Len(file) <= env.maxLines

(* Nesting is for good: entries that are added do not change what is nested in
   what, and what a call begins is nested in all that the call is nested in. *)
LEMMA NestingKept ==
  ASSUME Ids \subseteq Ids', \A i \in Ids : entries'[i] = entries[i], NEW c \in Ids, NEW i, Within(c, i)
  PROVE  /\ Within(c, i)'
         /\ \A n \in Ids' : entries'[n].parent = c => Within(n, i)'
<1>1. i \in Ids /\ i \in Ids'
  BY DEF Within
<1>2. ASSUME NEW S \in SUBSET Ids', i \in S, \A k \in Ids' : entries'[k].parent \in S => k \in S
      PROVE  c \in S /\ \A n \in Ids' : entries'[n].parent = c => n \in S
  <2> DEFINE T == S \cap Ids
  <2>1. T \in SUBSET Ids /\ i \in T
    BY <1>1, <1>2
  <2>2. \A k \in Ids : entries[k].parent \in T => k \in T
    BY <1>2
  <2>3. c \in T
    <3> HIDE DEF T
    <3> QED BY <2>1, <2>2 DEF Within
  <2> QED BY <1>2, <2>3
<1> QED BY <1>1, <1>2 DEF Within

(* A call is settled after those nested in it, by whoever settles it. *)
LEMMA StepKeepsRoots ==
  ASSUME TypeInv, DiskInv, PlansInv, ReplaysOnlyInterrupted, OwingInv, RootsOK, [Next]_vars,
         Unharmed, Alone'
  PROVE  RootsOK'
<1> DEFINE n == Len(entries) + 1
<1>1. /\ RestOK /\ n \notin Ids /\ 0 \notin Ids /\ live \subseteq Ids /\ skipping \in Seq(Ids)
      /\ (~up => replays = <<>>) /\ Len(replays) \in Nat
  BY KnownIds, LenProperties DEF TypeInv, StoreOK, RestOK, QueuesOK
<1>2. /\ OnDisk \subseteq Ids
      /\ \A job \in Jobs, parent \in Nat : Begin(job, parent) => OnDisk' = OnDisk \cup {n}
      /\ \A id \in Ids, st \in Ends : Mark(id, st) => OnDisk' = OnDisk \ {id}
  BY DiskEffects DEF Unharmed
<1>3. Ids \subseteq Ids' /\ \A i \in Ids : entries'[i] = entries[i]
  BY StepAddsEntries
<1>4. \A i \in Ids : i \in Nat /\ entries[i].job \in Jobs
  <2>1. \A i \in 1..Len(entries) : entries[i] \in [job : Jobs, parent : Nat]
    BY <1>1, ElementOfSeq DEF RestOK
  <2>2. Ids \in SUBSET Nat
    BY <1>1, KnownIds
  <2> QED BY <2>1, <2>2 DEF Ids
<1>5. "failed" \in Ends /\ 0 \in Nat
  BY DEF Ends
<1>6. live \subseteq OnDisk /\ ChildrenOK /\ (skipping # <<>> => live = {}) /\ OwedOK
  BY DEF OwingInv
\* Nothing is settled.
<1>7. ASSUME NEW c \in OnDisk
      PROVE  \E i \in OnDisk : entries'[i].parent = 0 /\ Within(c, i)'
  <2>1. PICK i \in OnDisk : entries[i].parent = 0 /\ Within(c, i)
    BY DEF RootsOK
  <2>2. Within(c, i)'
    BY <1>2, <1>3, <2>1, NestingKept
  <2> QED BY <1>2, <1>3, <2>1, <2>2
<1>8. CASE OnDisk' = OnDisk
  BY <1>7, <1>8 DEF RootsOK
<1>9. ASSUME NEW job \in Jobs, NEW parent \in Nat, Begin(job, parent), parent = 0 \/ parent \in live
      PROVE  RootsOK'
  <2>1. PICK x : x = n
    OBVIOUS
  <2>2. /\ OnDisk' = OnDisk \cup {x} /\ x \in Ids'
        /\ entries'[x] = [job |-> job, parent |-> parent]
    BY <1>1, <1>2, <1>9, <2>1, BegunEntry
  <2>3. entries'[x].parent = parent
    BY <2>2
  <2>4. CASE parent = 0
    <3>1. Within(x, x)'
      BY <2>2 DEF Within
    <3> QED BY <1>7, <2>2, <2>3, <2>4, <3>1 DEF RootsOK
  <2>5. CASE parent \in live
    <3>1. PICK i \in OnDisk : entries[i].parent = 0 /\ Within(parent, i)
      BY <1>6, <2>5 DEF RootsOK
    <3>2. Within(x, i)'
      BY <1>1, <1>3, <2>2, <2>3, <2>5, <3>1, NestingKept
    <3>3. entries'[i].parent = 0
      BY <1>2, <1>3, <3>1
    <3> QED BY <1>7, <2>2, <3>1, <3>2, <3>3 DEF RootsOK
  <2> QED BY <1>9, <2>4, <2>5
\* An entry is settled: a nested one, or one that nothing pending is nested in.
<1>19. ASSUME NEW h \in Ids, OnDisk' = OnDisk \ {h}, UNCHANGED entries,
              entries[h].parent # 0 \/ \A c \in OnDisk : c = h \/ ~Within(c, h)
       PROVE  RootsOK'
  <2> SUFFICES ASSUME NEW c \in OnDisk'
               PROVE  \E i \in OnDisk' : entries'[i].parent = 0 /\ Within(c, i)'
    BY DEF RootsOK
  <2>1. PICK i \in OnDisk : entries[i].parent = 0 /\ Within(c, i)
    BY <1>19 DEF RootsOK
  <2>2. i # h
    BY <1>19, <2>1
  <2>3. Within(c, i)'
    BY <1>2, <1>3, <1>19, <2>1, NestingKept
  <2> QED BY <1>19, <2>1, <2>2, <2>3
\* What has no pending call of its own has nothing pending nested in it.
<1>20. ASSUME NEW h \in Ids, skipping = <<>>, up, \A c \in OnDisk : entries[c].parent # h,
              NEW c \in OnDisk, c # h
       PROVE  ~Within(c, h)
  <2> DEFINE S == {h} \cup (Ids \ OnDisk)
  <2>1. S \in SUBSET Ids /\ h \in S /\ c \notin S
    BY <1>20
  <2>2. ASSUME NEW k \in Ids, entries[k].parent \in S, k \in OnDisk
        PROVE  FALSE
    <3>1. entries[k].parent \in Ids \ OnDisk
      BY <1>20, <2>2
    <3>2. entries[k].parent # 0 /\ ~Among(k, skipping)
      BY <1>1, <1>20, <3>1 DEF Among
    <3> QED BY <1>6, <1>20, <2>2, <3>1, <3>2 DEF ChildrenOK
  <2>3. \A k \in Ids : entries[k].parent \in S => k \in S
    BY <2>2
  <2> HIDE DEF S
  <2> QED BY <2>1, <2>3 DEF Within
<1>10. ASSUME NEW j \in Jobs, Accept(j)
       PROVE  RootsOK'
  BY <1>5, <1>9, <1>10 DEF Accept
<1>11. ASSUME NEW i \in live, BeginChild(i)
       PROVE  RootsOK'
  <2>1. i \in Nat /\ entries[i].job \in Jobs
    BY <1>1, <1>4
  <2> QED BY <1>9, <1>11, <2>1 DEF BeginChild
<1>12. ASSUME NEW i \in live, End(i)
       PROVE  RootsOK'
  <2>1. PICK st \in Ends : Mark(i, st)
    BY <1>12 DEF End, Ends
  <2>2. /\ skipping = <<>> /\ up /\ UNCHANGED entries
        /\ \A c \in Ids : entries[c].parent = i => c \notin live
    BY <1>12 DEF End, Free, Executing, ChildrenOf
  <2>3. OnDisk' = OnDisk \ {i} /\ i # 0 /\ i \in Ids
    BY <1>1, <1>2, <2>1
  <2>4. \A c \in OnDisk : entries[c].parent # i
    BY <1>2, <1>6, <2>2, <2>3 DEF ChildrenOK, Among
  <2>5. \A c \in OnDisk : c = i \/ ~Within(c, i)
    BY <1>20, <2>2, <2>3, <2>4
  <2> QED BY <1>19, <2>2, <2>3, <2>5
<1>13. CASE SkipChild
  <2>1. Mark(Head(skipping), "failed") /\ skipping # <<>> /\ UNCHANGED entries
    BY <1>13 DEF SkipChild
  <2>2. Head(skipping) \in Ids /\ entries[Head(skipping)].parent # 0
    <3>1. Head(skipping) \in Ids /\ \E k \in 1..Len(skipping) : Head(skipping) = skipping[k]
      BY <1>1, <2>1, HeadOfQueue
    <3> QED BY <3>1 DEF PlansInv, SkipsOK, Among
  <2> QED BY <1>2, <1>5, <1>19, <2>1, <2>2
<1>14. CASE NoReplay
  <2>1. CASE UNCHANGED vars
    <3>1. OnDisk' = OnDisk
      BY <2>1 DEF vars, OnDisk
    <3> QED BY <1>8, <3>1
  <2>2. CASE Compact
    BY <1>8, <2>2, AloneStep
  <2> QED BY <1>10, <1>11, <1>12, <1>13, <1>14, <2>1, <2>2, AloneStep DEF NoReplay
<1>15. CASE Crash
  BY <1>8, <1>15, AloneStep
<1>16. CASE Restart
  <2>1. file' = Trimmed(file)
    BY <1>16 DEF Restart
  <2>2. file' = file
    BY <2>1 DEF Trimmed, Unharmed
  <2> QED BY <1>8, <2>2 DEF OnDisk
\* What a replay settles has no nested call left.
<1>17. ASSUME NEW h \in Ids, h \notin live, skipping = <<>>, up
       PROVE  \A c \in OnDisk : c = h \/ ~Within(c, h)
  <2>1. \A c \in OnDisk : entries[c].parent # h
    BY <1>1, <1>6, <1>17 DEF ChildrenOK, Among
  <2> QED BY <1>17, <1>20, <2>1
<1>18. ASSUME NEW r \in 1..Len(replays), NEW x \in Planned(Ids), MovesOn(r, x)
       PROVE  RootsOK'
  <2>1. up /\ skipping = <<>>
    <3>1. replays # <<>>
      <4>1. 1..Len(<<>>) = {}
        OBVIOUS
      <4> QED BY <4>1
    <3> QED BY <1>1, <1>18, <3>1 DEF MovesOn
  <2>2. /\ replays[r].queue \in Seq(Ids) /\ replays[r].orig \in Ids \cup {0}
        /\ replays[r].queue # <<>> => Head(replays[r].queue) \in Ids /\ Head(replays[r].queue) \notin live
        /\ replays[r].orig \notin live
    <3>1. replays[r] \in Planned(Ids)
      BY ElementOfSeq DEF TypeInv, QueuesOK
    <3>2. replays[r].queue \in Seq(Ids) /\ replays[r].orig \in Ids \cup {0}
      BY <3>1 DEF Planned
    <3>3. replays[r].orig \notin live /\ \A k \in 1..Len(replays[r].queue) : replays[r].queue[k] \notin live
      BY DEF ReplaysOnlyInterrupted
    <3>4. ASSUME replays[r].queue # <<>>
          PROVE  Head(replays[r].queue) \in Ids /\ Head(replays[r].queue) \notin live
      BY <1>1, <3>2, <3>3, <3>4, HeadOfQueue
    <3> QED BY <3>2, <3>3, <3>4
  <2>3. CASE ReplayNext(r)
    <3>1. Begin(entries[Head(replays[r].queue)].job, 0) /\ replays[r].queue # <<>>
      BY <2>3 DEF ReplayNext
    <3>2. entries[Head(replays[r].queue)].job \in Jobs
      BY <1>4, <2>2, <3>1
    <3> QED BY <1>5, <1>9, <3>1, <3>2
  <2>4. CASE ReplayRefused(r)
    <3>1. Mark(Head(replays[r].queue), "failed") /\ replays[r].queue # <<>> /\ UNCHANGED entries
      BY <2>4 DEF ReplayRefused
    <3>2. OnDisk' = OnDisk \ {Head(replays[r].queue)}
      BY <1>2, <1>5, <2>2, <3>1
    <3> QED BY <1>17, <1>19, <2>1, <2>2, <3>1, <3>2
  <2>5. CASE ReplayEnds(r)
    <3>1. /\ Mark(replays[r].orig, ended[replays[r].exec]) /\ UNCHANGED entries
          /\ replays[r].orig # 0 /\ replays[r].exec \notin live
      BY <2>5 DEF ReplayEnds
    <3>2. ended[replays[r].exec] \in Ends
      BY <3>1 DEF TypeInv, QueuesOK, StoreOK, PastOK
    <3>3. OnDisk' = OnDisk \ {replays[r].orig}
      BY <1>2, <2>2, <3>1, <3>2
    <3> QED BY <1>17, <1>19, <2>1, <2>2, <3>1, <3>3
  <2> QED BY <1>18, <2>3, <2>4, <2>5 DEF MovesOn
<1> QED BY <1>14, <1>15, <1>16, <1>18, AloneStep, QueueMoves

(* The execution of every child entry a replay is about to skip is in its plan: a
   start-up reads the two from the same file, and skips before it replays. *)
LEMMA StepKeepsSkips ==
  ASSUME TypeInv, TypeInv', DiskInv, PlansInv, RootsOK', SkippedChildrenAreReplayed, [Next]_vars, Alone'
  PROVE  SkippedChildrenAreReplayed'
<1>1. /\ RestOK /\ Ids \subseteq Ids' /\ \A i \in Ids : entries'[i] = entries[i]
      /\ skipping \in Seq(Ids) /\ \A i : Among(i, skipping) => i \in Ids
  BY StepAddsEntries, ElementOfSeq DEF PlansInv, TypeInv, StoreOK, QueuesOK, Among
<1>2. CASE skipping' = <<>>
  <2>1. 1..Len(<<>>) = {}
    OBVIOUS
  <2> QED BY <1>2, <2>1 DEF SkippedChildrenAreReplayed
<1>3. CASE UNCHANGED <<skipping, replays>>
  <2>1. \A k \in 1..Len(skipping) : skipping[k] \in Ids
    BY <1>1 DEF Among
  <2>2. \A c \in Ids : \A i : Within(c, i) => Within(c, i)'
    BY <1>1, NestingKept
  <2> QED BY <1>3, <2>1, <2>2 DEF SkippedChildrenAreReplayed
<1>4. CASE SkipChild
  <2>1. skipping' = Tail(skipping) /\ skipping # <<>> /\ UNCHANGED <<replays, entries>>
    BY <1>4 DEF SkipChild
  <2>2. \A k \in 1..Len(Tail(skipping)) : \E l \in 1..Len(skipping) : Tail(skipping)[k] = skipping[l]
    BY <1>1, <2>1, HeadOfQueue
  <2>3. \A c, i : Within(c, i)' <=> Within(c, i)
    BY <2>1 DEF Within, Ids
  <2> QED BY <2>1, <2>2, <2>3 DEF SkippedChildrenAreReplayed
<1>5. CASE Restart
  <2>1. /\ skipping' = ToSkip(mem') /\ entries' = entries /\ replays = <<>>
        /\ replays' = IF PendingIn(mem') = {} THEN <<>> ELSE <<Plan(mem')>>
    BY <1>5 DEF Restart, Plan, ToSkip, TopLevel, TypeInv, QueuesOK
  <2>2. OnDisk' = PendingIn(mem')
    BY <1>5, AloneStep
  <2>3. Ids' = Ids /\ DOMAIN mem' \subseteq Ids /\ skipping' \in Seq(Ids)
    <3>1. Ids' = Ids
      BY <2>1 DEF Ids
    <3> QED BY <3>1 DEF TypeInv, StoreOK, MemOK, QueuesOK
  <2>4. /\ \A i : Among(i, Plan(mem').queue) <=> i \in PendingIn(mem') /\ entries[i].parent = 0
        /\ \A i : Among(i, ToSkip(mem')) <=> i \in PendingIn(mem') /\ entries[i].parent # 0
    BY <1>1, <2>3, PlanLists
  <2>5. ASSUME NEW c, Among(c, skipping')
        PROVE  PendingIn(mem') # {} /\ \E i : Among(i, Plan(mem').queue) /\ Within(c, i)'
    <3>1. c \in PendingIn(mem')
      BY <2>1, <2>4, <2>5
    <3>2. PICK i \in PendingIn(mem') : entries'[i].parent = 0 /\ Within(c, i)'
      BY <2>2, <3>1 DEF RootsOK
    <3> QED BY <2>1, <2>4, <3>1, <3>2
  <2>6. ASSUME NEW c, Among(c, skipping')
        PROVE  \E i : Among(i, replays'[Len(replays')].queue) /\ Within(c, i)'
    <3>1. replays' = <<Plan(mem')>>
      BY <2>1, <2>5, <2>6
    <3> DEFINE p == Plan(mem')
    <3>2. Len(<<p>>) = 1 /\ <<p>>[1] = p
      OBVIOUS
    <3> HIDE DEF p
    <3>3. replays'[Len(replays')] = p
      BY <3>1, <3>2 DEF p
    <3> QED BY <2>5, <2>6, <3>3 DEF p
  <2> QED BY <2>6 DEF SkippedChildrenAreReplayed, Among
<1>6. CASE Crash
  BY <1>2, <1>6 DEF Crash
<1>7. ASSUME NEW r \in 1..Len(replays), NEW x \in Planned(Ids), MovesOn(r, x)
      PROVE  SkippedChildrenAreReplayed'
  BY <1>2, <1>7 DEF MovesOn
<1>8. CASE NoReplay
  <2>1. CASE ~SkipChild
    <3>1. UNCHANGED <<skipping, replays>>
      BY <1>8, <2>1 DEF NoReplay, vars, Compact, ScriptRead, ScriptRewrite, End, BeginChild, Accept
    <3> QED BY <1>3, <3>1
  <2> QED BY <1>4, <2>1
<1> QED BY <1>5, <1>6, <1>7, <1>8, AloneStep, QueueMoves

(* Giving up a nested call loses nothing: the execution it belongs to, however deep
   it is nested in it, is replayed by the same plan, and makes it again.  This holds while no line is damaged, nobody
   replays by hand and the file is not so long that a restart would cut it. *)
THEOREM SkippedAreReplayed ==
  Spec /\ [](Undamaged /\ used["manual"] = 0 /\ Len(file) <= env.maxLines)
    => []SkippedChildrenAreReplayed
<1> DEFINE Owing == Alone => OwingInv
           Left0 == used["manual"] = 0 => ReplaysOnlyInterrupted
<1>1. Init => RootsOK /\ SkippedChildrenAreReplayed
  <2> SUFFICES ASSUME Init PROVE RootsOK /\ SkippedChildrenAreReplayed
    OBVIOUS
  <2>1. skipping = <<>> /\ file = <<>>
    BY DEF Init
  <2>2. Len(<<>>) = 0 /\ 1..0 = {} /\ file \in Seq(Lines)
    BY <2>1
  <2>3. OnDisk = {}
    BY <2>1, <2>2, LoadedLines DEF OnDisk
  <2> QED BY <2>1, <2>2, <2>3 DEF RootsOK, SkippedChildrenAreReplayed
<1>2. TypeInv /\ DiskInv /\ PlansInv /\ Left0 /\ Owing /\ RootsOK /\ Unharmed /\ Unharmed' /\ [Next]_vars
        => RootsOK'
  BY StepKeepsRoots DEF Unharmed, Alone
<1>3. TypeInv /\ TypeInv' /\ DiskInv /\ PlansInv /\ RootsOK' /\ Unharmed' /\ [Next]_vars
        /\ SkippedChildrenAreReplayed => SkippedChildrenAreReplayed'
  BY StepKeepsSkips DEF Unharmed, Alone
<1> HIDE DEF Owing, Left0
<1>4. Spec => []Left0 /\ []Owing
  BY ReplaysOnlyLeft, OwingInvariant DEF Left0, Owing
<1>5. Spec /\ []Unharmed => []RootsOK
  BY <1>1, <1>2, <1>4, TypesInvariant, DiskInvariant, PlansInvariant, PTL DEF Spec
<1>6. Spec /\ []Unharmed => []SkippedChildrenAreReplayed
  BY <1>1, <1>3, <1>5, TypesInvariant, DiskInvariant, PlansInvariant, PTL DEF Spec
<1> QED BY <1>6 DEF Unharmed

-----------------------------------------------------------------------------
(* How often a request is executed *)

(* What a step does to the counters of crashes and of manual replays. *)
LEMMA CountedSteps ==
  ASSUME TypeInv, [Next]_vars
  PROVE  /\ used["crash"] \in Nat /\ used["manual"] \in Nat
         /\ used'["crash"] = IF Crash THEN used["crash"] + 1 ELSE used["crash"]
         /\ used'["manual"] = IF ManualReplay THEN used["manual"] + 1 ELSE used["manual"]
<1>1. used \in [Events -> Nat] /\ {"crash", "manual", "compact", "script"} = Events
  BY DEF TypeInv, StoreOK, RestOK, Events
<1>2. \A k \in Events : Use(k) => /\ used'[k] = used[k] + 1
                                  /\ \A l \in Events : l # k => used'[l] = used[l]
  BY <1>1 DEF Use
<1>3. CASE Crash
  <2>1. Use("crash") /\ ~up'
    BY <1>3 DEF Crash
  <2>2. ~ManualReplay
    BY <2>1 DEF ManualReplay, Free
  <2> QED BY <1>1, <1>2, <1>3, <2>1, <2>2
<1>4. CASE ManualReplay
  <2>1. Use("manual") /\ up'
    BY <1>4 DEF ManualReplay, Free
  <2>2. ~Crash
    BY <2>1 DEF Crash
  <2> QED BY <1>1, <1>2, <1>4, <2>1, <2>2
<1>5. CASE ~Crash /\ ~ManualReplay
  <2>1. used' = used \/ Use("compact") \/ Use("script")
    BY <1>5 DEF Next, ServerStep, ReplayStep, vars, Restart, SkipChild, ReplayNext, ReplayRefused,
       ReplayEnds, End, Accept, BeginChild, Compact, ScriptRead, ScriptRewrite
  <2> QED BY <1>1, <1>2, <1>5, <2>1
<1> QED BY <1>3, <1>4, <1>5

(* The top-level entries of a job are finitely many, and only accepting it or
   replaying one of them adds another. *)
LEMMA TopEntriesOf ==
  ASSUME RestOK, NEW j
  PROVE  IsFiniteSet(TopEntries(j)) /\ Cardinality(TopEntries(j)) \in Nat /\ TopEntries(j) \subseteq Ids
<1>1. IsFiniteSet(Ids) /\ TopEntries(j) \in SUBSET Ids
  BY KnownIds DEF TopEntries
<1> QED BY <1>1, FS_Subset, FS_CardinalityType

(* What beginning an entry does to the top-level entries of the jobs. *)
LEMMA TopEntriesBegun ==
  ASSUME RestOK, NEW job \in Jobs, NEW parent \in Nat, Begin(job, parent), NEW j
  PROVE  TopEntries(j)' = IF j = job /\ parent = 0 THEN TopEntries(j) \cup {Len(entries) + 1}
                          ELSE TopEntries(j)
<1>1. /\ Ids' = Ids \cup {Len(entries) + 1} /\ \A i \in Ids : entries'[i] = entries[i]
      /\ entries'[Len(entries) + 1] = [job |-> job, parent |-> parent]
  BY BegunEntry
<1>2. entries'[Len(entries) + 1].job = job /\ entries'[Len(entries) + 1].parent = parent
  BY <1>1
<1>3. /\ \A i \in TopEntries(j)' : i \in Ids' /\ entries'[i].job = j /\ entries'[i].parent = 0
      /\ \A i \in Ids' : entries'[i].job = j /\ entries'[i].parent = 0 => i \in TopEntries(j)'
  BY DEF TopEntries
<1>4. \A i : i \in TopEntries(j) <=> i \in Ids /\ entries[i].job = j /\ entries[i].parent = 0
  BY DEF TopEntries
<1>5. \A i : i \in TopEntries(j)' <=> \/ i \in TopEntries(j)
                                      \/ i = Len(entries) + 1 /\ j = job /\ parent = 0
  BY <1>1, <1>2, <1>3, <1>4
<1> QED BY <1>5

\* The executions of a job that have ended or may still end without another crash:
\* an entry that is being replayed is not among them, its new execution is.
Retried == {replays[r].orig : r \in 1..Len(replays)}
Owed(j) == (TopEntries(j) \cap (DOMAIN ended \cup OnDisk)) \ Retried
OwedFew == \A j \in Jobs : Cardinality(Owed(j)) <= 1 + used["crash"]

(* A set that loses elements, or one for another that comes in, has no more. *)
LEMMA NoMore ==
  ASSUME NEW S, IsFiniteSet(S), NEW T, T \subseteq S
  PROVE  IsFiniteSet(T) /\ Cardinality(T) <= Cardinality(S) /\ Cardinality(T) \in Nat /\ Cardinality(S) \in Nat
BY FS_Subset, FS_CardinalityType

(* One element more. *)
LEMMA OneMore ==
  ASSUME NEW S, IsFiniteSet(S), NEW b
  PROVE  /\ IsFiniteSet(S \cup {b}) /\ Cardinality(S) \in Nat /\ Cardinality(S \cup {b}) \in Nat
         /\ Cardinality(S \cup {b}) <= Cardinality(S) + 1
<1>1. Cardinality(S \cup {b}) = IF b \in S THEN Cardinality(S) ELSE Cardinality(S) + 1
  BY FS_AddElement
<1>2. IsFiniteSet(S \cup {b}) /\ Cardinality(S) \in Nat
  BY FS_AddElement, FS_CardinalityType
<1> QED BY <1>1, <1>2

(* Exchanging one element for another. *)
LEMMA Exchanged ==
  ASSUME NEW S, IsFiniteSet(S), NEW a \in S, NEW b, NEW T, T \subseteq (S \ {a}) \cup {b}
  PROVE  Cardinality(T) <= Cardinality(S)
<1> DEFINE R == S \ {a}
<1>1. IsFiniteSet(R) /\ Cardinality(R) = Cardinality(S) - 1 /\ Cardinality(S) \in Nat
  BY FS_RemoveElement, FS_CardinalityType
<1> HIDE DEF R
<1>2. IsFiniteSet(R \cup {b}) /\ Cardinality(R \cup {b}) <= Cardinality(R) + 1
      /\ Cardinality(R) \in Nat /\ Cardinality(R \cup {b}) \in Nat
  BY <1>1, OneMore
<1>3. T \subseteq R \cup {b}
  BY DEF R
<1>4. Cardinality(T) <= Cardinality(R \cup {b}) /\ Cardinality(T) \in Nat
  BY <1>2, <1>3, NoMore
<1> QED BY <1>1, <1>2, <1>4

(* Alone, a request is owed one execution more for each crash, and no more: a crash
   adds the execution it interrupts to the entry that was being replayed, and
   whatever else happens turns what is owed into what has ended. *)
LEMMA StepKeepsOwed ==
  ASSUME TypeInv, DiskInv, PlansInv, OwingInv, SettledStaysSettled, OwedFew, [Next]_vars, Alone'
  PROVE  OwedFew'
<1> DEFINE n == Len(entries) + 1
<1>1. /\ RestOK /\ n \notin Ids /\ n # 0 /\ 0 \notin Ids /\ live \subseteq Ids /\ skipping \in Seq(Ids)
      /\ DOMAIN ended \subseteq Ids /\ Len(replays) \in Nat
      /\ replays \in Seq(Planned(Ids)) /\ (~up => replays = <<>>)
  BY KnownIds, LenProperties DEF TypeInv, StoreOK, PastOK, RestOK, QueuesOK
<1>2. Alone /\ Undamaged
  BY AloneStep DEF Alone
<1>3. /\ OnDisk \subseteq Ids
      /\ \A job \in Jobs, parent \in Nat : Begin(job, parent) => OnDisk' = OnDisk \cup {n}
      /\ \A id \in Ids, st \in Ends : Mark(id, st) => OnDisk' = OnDisk \ {id}
  BY <1>2, DiskEffects
<1>4. \A i \in Ids : entries[i].job \in Jobs /\ i \in Nat
  <2>1. \A i \in 1..Len(entries) : entries[i] \in [job : Jobs, parent : Nat]
    BY <1>1, ElementOfSeq DEF RestOK
  <2>2. Ids \in SUBSET Nat
    BY <1>1, KnownIds
  <2> QED BY <2>1, <2>2 DEF Ids
<1>5. "failed" \in Ends /\ 0 \in Nat
  BY DEF Ends
<1>6. OnDisk \cap DOMAIN ended = {}
  BY <1>2 DEF SettledStaysSettled, PlansInv, OnDisk
<1>7. /\ used["crash"] \in Nat
      /\ used'["crash"] = IF Crash THEN used["crash"] + 1 ELSE used["crash"]
  BY CountedSteps
<1>8. ASSUME NEW j \in Jobs
      PROVE  /\ IsFiniteSet(Owed(j)) /\ Cardinality(Owed(j)) \in Nat /\ Cardinality(Owed(j)) <= 1 + used["crash"]
             /\ \A i : i \in Owed(j) <=> /\ i \in TopEntries(j) /\ i \in DOMAIN ended \cup OnDisk
                                         /\ i \notin Retried
             /\ TopEntries(j) \subseteq Ids
  <2>1. IsFiniteSet(TopEntries(j)) /\ Owed(j) \subseteq TopEntries(j) /\ TopEntries(j) \subseteq Ids
    BY <1>1, TopEntriesOf DEF Owed
  <2>2. IsFiniteSet(Owed(j)) /\ Cardinality(Owed(j)) \in Nat
    BY <2>1, NoMore
  <2> QED BY <2>1, <2>2 DEF Owed, OwedFew
\* It is enough that no job is owed more, but for the crash.
<1>9. ASSUME \A j \in Jobs : Owed(j)' \subseteq Owed(j)
      PROVE  OwedFew'
  <2>1. ASSUME NEW j \in Jobs
        PROVE  Cardinality(Owed(j)') <= 1 + used'["crash"]
    <3>1. Cardinality(Owed(j)') <= Cardinality(Owed(j)) /\ Cardinality(Owed(j)') \in Nat
      BY <1>8, <1>9, <2>1, NoMore
    <3> QED BY <1>7, <1>8, <3>1
  <2> QED BY <2>1 DEF OwedFew
<1>10. ASSUME TRUE
       PROVE  \A j : \A i : i \in Owed(j)' <=> /\ i \in TopEntries(j)' /\ i \in DOMAIN ended' \cup OnDisk'
                                               /\ i \notin Retried'
  BY DEF Owed
<1>11. entries' = entries => \A j : TopEntries(j)' = TopEntries(j)
  BY DEF TopEntries, Ids
<1>12. replays' = replays => Retried' = Retried
  BY DEF Retried
\* Entries may be closed, by their ending or without.
<1>13. ASSUME UNCHANGED <<entries, replays>>, DOMAIN ended' \cup OnDisk' \subseteq DOMAIN ended \cup OnDisk
       PROVE  OwedFew'
  BY <1>8, <1>9, <1>10, <1>11, <1>12, <1>13
<1>14. ASSUME NEW j \in Jobs, Accept(j)
       PROVE  OwedFew'
  <2>1. Begin(j, 0) /\ UNCHANGED <<replays, ended, used>> /\ \A i \in Ids : entries[i].job # j
    BY <1>14 DEF Accept
  <2>2. OnDisk' = OnDisk \cup {n}
    BY <1>3, <1>5, <2>1
  <2>3. \A k : TopEntries(k)' = IF k = j THEN TopEntries(k) \cup {n} ELSE TopEntries(k)
    BY <1>1, <1>5, <2>1, TopEntriesBegun
  <2>4. TopEntries(j) = {}
    BY <2>1 DEF TopEntries
  <2>5. ASSUME NEW k \in Jobs
        PROVE  Cardinality(Owed(k)') <= 1 + used'["crash"]
    <3>1. CASE k = j
      <4>1. Owed(k)' \subseteq {n}
        BY <1>10, <2>3, <2>4, <3>1
      <4>2. Cardinality(Owed(k)') <= 1 /\ Cardinality(Owed(k)') \in Nat
        <5>1. IsFiniteSet({n}) /\ Cardinality({n}) = 1
          BY FS_Singleton
        <5> QED BY <4>1, <5>1, NoMore
      <4> QED BY <1>7, <2>1, <4>2
    <3>2. CASE k # j
      <4>1. TopEntries(k)' = TopEntries(k) /\ n \notin TopEntries(k)
        BY <1>1, <1>8, <2>3, <3>2
      <4>2. Owed(k)' \subseteq Owed(k)
        BY <1>8, <1>10, <1>12, <2>1, <2>2, <4>1
      <4>3. Cardinality(Owed(k)') <= Cardinality(Owed(k)) /\ Cardinality(Owed(k)') \in Nat
        BY <1>8, <4>2, NoMore
      <4> QED BY <1>7, <1>8, <2>1, <4>3
    <3> QED BY <3>1, <3>2
  <2> QED BY <2>5 DEF OwedFew
<1>15. ASSUME NEW i \in live, BeginChild(i)
       PROVE  OwedFew'
  <2>1. Begin(entries[i].job, i) /\ UNCHANGED <<replays, ended>> /\ i \in Ids
    BY <1>1, <1>15 DEF BeginChild
  <2>2. entries[i].job \in Jobs /\ i \in Nat /\ i # 0
    BY <1>1, <1>4, <2>1
  <2>3. OnDisk' = OnDisk \cup {n}
    BY <1>3, <2>1, <2>2
  <2>4. \A k : TopEntries(k)' = TopEntries(k)
    BY <1>1, <2>1, <2>2, TopEntriesBegun
  <2>5. ASSUME NEW k \in Jobs
        PROVE  Owed(k)' \subseteq Owed(k)
    BY <1>1, <1>8, <1>10, <1>12, <2>1, <2>3, <2>4
  <2> QED BY <1>9, <2>5
<1>16. ASSUME NEW i \in live, End(i)
       PROVE  OwedFew'
  <2>1. PICK st \in Ends : Mark(i, st) /\ DOMAIN ended' = DOMAIN ended \cup {i}
    BY <1>16 DEF End, Ends
  <2>2. OnDisk' = OnDisk \ {i} /\ i \in OnDisk
    BY <1>1, <1>3, <2>1 DEF OwingInv
  <2>3. UNCHANGED <<entries, replays>>
    BY <1>16 DEF End
  <2> QED BY <1>13, <2>1, <2>2, <2>3
<1>17. CASE SkipChild
  <2>1. Mark(Head(skipping), "failed") /\ skipping # <<>> /\ UNCHANGED <<entries, replays, ended>>
    BY <1>17 DEF SkipChild
  <2>2. Head(skipping) \in Ids
    BY <1>1, <2>1, HeadOfQueue
  <2>3. OnDisk' = OnDisk \ {Head(skipping)}
    BY <1>3, <1>5, <2>1, <2>2
  <2> QED BY <1>13, <2>1, <2>3
<1>18. CASE NoReplay
  <2>1. CASE UNCHANGED vars
    <3>1. UNCHANGED <<entries, replays, ended>> /\ OnDisk' = OnDisk
      BY <2>1 DEF vars, OnDisk
    <3> QED BY <1>13, <3>1
  <2>2. CASE Compact
    <3>1. UNCHANGED <<entries, replays, ended>> /\ OnDisk' = OnDisk
      BY <2>2, AloneStep DEF Compact
    <3> QED BY <1>13, <3>1
  <2> QED BY <1>14, <1>15, <1>16, <1>17, <1>18, <2>1, <2>2, AloneStep DEF NoReplay
<1>19. CASE Crash
  <2>1. UNCHANGED <<entries, ended>> /\ OnDisk' = OnDisk
    BY <1>19, AloneStep DEF Crash
  <2>2. \E a : Retried \subseteq {a}
    <3>1. Len(replays) <= 1
      BY DEF OwingInv, OwedOK
    <3>2. \A r \in 1..Len(replays) : replays[r].orig = replays[1].orig
      <4>1. \A r \in 1..Len(replays) : r = 1
        BY <1>1, <3>1
      <4> QED BY <4>1
    <3> QED BY <3>2 DEF Retried
  <2>3. PICK a : Retried \subseteq {a}
    BY <2>2
  <2>4. ASSUME NEW j \in Jobs
        PROVE  Cardinality(Owed(j)') <= 1 + used'["crash"]
    <3>1. Owed(j)' \subseteq Owed(j) \cup {a}
      BY <1>8, <1>10, <1>11, <2>1, <2>3
    <3>2. IsFiniteSet(Owed(j) \cup {a}) /\ Cardinality(Owed(j) \cup {a}) <= Cardinality(Owed(j)) + 1
      BY <1>8, OneMore
    <3>3. Cardinality(Owed(j)') <= Cardinality(Owed(j) \cup {a}) /\ Cardinality(Owed(j)') \in Nat
          /\ Cardinality(Owed(j) \cup {a}) \in Nat
      BY <3>1, <3>2, NoMore
    <3> QED BY <1>7, <1>8, <1>19, <3>2, <3>3
  <2> QED BY <2>4 DEF OwedFew
<1>20. CASE Restart
  <2>1. UNCHANGED <<entries, ended>> /\ OnDisk' \subseteq OnDisk /\ replays = <<>>
    BY <1>1, <1>20, AloneStep DEF Restart
  <2>2. Retried = {}
    <3>1. 1..Len(<<>>) = {}
      OBVIOUS
    <3> QED BY <2>1, <3>1 DEF Retried
  <2> QED BY <1>8, <1>9, <1>10, <1>11, <2>1, <2>2
<1>21. ASSUME NEW r \in 1..Len(replays), NEW x \in Planned(Ids), MovesOn(r, x)
       PROVE  OwedFew'
  <2>1. Retried = {replays[r].orig} /\ Retried' = {x.orig}
    <3>1. replays' = [replays EXCEPT ![r] = x] /\ Len(replays) <= 1
      BY <1>21 DEF MovesOn, OwingInv, OwedOK
    <3>2. Len(replays') = Len(replays) /\ \A q \in 1..Len(replays) : replays'[q] = IF q = r THEN x ELSE replays[q]
      BY <1>1, <3>1, ExceptSeq
    <3>3. \A q \in 1..Len(replays) : q = r
      BY <1>1, <3>1
    <3> QED BY <3>2, <3>3 DEF Retried
  <2>2. /\ replays[r].queue \in Seq(Ids) /\ replays[r].orig \in Ids \cup {0}
        /\ OnceEach(replays[r].queue) /\ OwedBy(replays[r])
        /\ \A i : Among(i, replays[r].queue) => entries[i].parent = 0
    <3>1. replays[r] \in Planned(Ids)
      BY <1>1, ElementOfSeq
    <3>2. PlanOK(replays[r]) /\ OwedBy(replays[r])
      BY DEF PlansInv, PlansOK, OwingInv, OwedOK
    <3> QED BY <3>1, <3>2 DEF Planned, PlanOK
  <2> DEFINE h == Head(replays[r].queue)
  <2>3. replays[r].queue # <<>> => h \in OnDisk /\ h \in Ids /\ entries[h].parent = 0
    <3>1. replays[r].queue # <<>> => Among(h, replays[r].queue)
      BY <2>2, TailOfQueue
    <3> QED BY <1>3, <2>2, <3>1 DEF OwedBy
  <2>4. CASE ReplayNext(r)
    <3>1. /\ Begin(entries[h].job, 0) /\ replays[r].queue # <<>> /\ replays[r].orig = 0
          /\ ended' = ended
      BY <2>4 DEF ReplayNext
    <3>2. x.orig = h
      <4>1. entries' # entries
        <5>1. n \in Ids' /\ n \notin Ids
          BY <1>1, <1>4, <1>5, <2>3, <3>1, BegunEntry
        <5> QED BY <5>1 DEF Ids
      <4>2. ~ReplayRefused(r) /\ ~ReplayEnds(r)
        BY <4>1 DEF ReplayRefused, ReplayEnds
      <4> QED BY <1>21, <4>2 DEF MovesOn
    <3>3. OnDisk' = OnDisk \cup {n}
      BY <1>3, <1>4, <1>5, <2>3, <3>1
    <3>4. \A k : TopEntries(k)' = IF k = entries[h].job THEN TopEntries(k) \cup {n} ELSE TopEntries(k)
      BY <1>1, <1>4, <1>5, <2>3, <3>1, TopEntriesBegun
    <3>5. ASSUME NEW k \in Jobs
          PROVE  Cardinality(Owed(k)') <= Cardinality(Owed(k)) /\ Cardinality(Owed(k)') \in Nat
      <4>1. CASE k = entries[h].job
        <5>1. h \in Owed(k)
          <6>1. h \in TopEntries(k)
            BY <2>3, <3>1, <4>1 DEF TopEntries
          <6>2. h # 0
            BY <1>1, <2>3, <3>1
          <6> QED BY <1>8, <2>1, <2>3, <3>1, <6>1, <6>2
        <5>2. Owed(k)' \subseteq (Owed(k) \ {h}) \cup {n}
          <6>1. \A i \in TopEntries(k) : i # 0
            BY <1>1, <1>8
          <6> QED BY <1>1, <1>8, <1>10, <2>1, <3>1, <3>2, <3>3, <3>4, <4>1, <6>1
        <5>3. IsFiniteSet(Owed(k) \cup {n})
          BY <1>8, FS_AddElement
        <5>4. Owed(k)' \subseteq Owed(k) \cup {n}
          BY <5>2
        <5>5. Cardinality(Owed(k)') \in Nat
          BY <5>3, <5>4, NoMore
        <5>6. Cardinality(Owed(k)') <= Cardinality(Owed(k))
          BY <1>8, <5>1, <5>2, Exchanged
        <5> QED BY <5>5, <5>6
      <4>2. CASE k # entries[h].job
        <5>1. n \notin TopEntries(k) /\ \A i \in TopEntries(k) : i # 0
          BY <1>1, <1>8
        <5>2. TopEntries(k)' = TopEntries(k)
          BY <3>4, <4>2
        <5>3. Owed(k)' \subseteq Owed(k)
          BY <1>8, <1>10, <2>1, <3>1, <3>3, <5>1, <5>2
        <5> QED BY <1>8, <5>3, NoMore
      <4> QED BY <4>1, <4>2
    <3>6. ~Crash
      BY <3>1, <2>4 DEF Crash, ReplayNext, Free
    <3> QED BY <1>7, <1>8, <3>5, <3>6 DEF OwedFew
  <2>5. CASE ReplayRefused(r)
    <3>1. Mark(h, "failed") /\ replays[r].queue # <<>> /\ replays[r].orig = 0 /\ UNCHANGED <<entries, ended>>
      BY <2>5 DEF ReplayRefused
    <3>2. OnDisk' = OnDisk \ {h}
      BY <1>3, <1>5, <2>3, <3>1
    <3>3. ASSUME NEW k \in Jobs
          PROVE  Owed(k)' \subseteq Owed(k)
      BY <1>1, <1>8, <1>10, <1>11, <2>1, <3>1, <3>2
    <3> QED BY <1>9, <3>3
  <2>6. CASE ReplayEnds(r)
    <3>1. /\ Mark(replays[r].orig, ended[replays[r].exec]) /\ replays[r].orig # 0
          /\ replays[r].exec \notin live /\ UNCHANGED <<entries, ended>>
      BY <2>6 DEF ReplayEnds
    <3>2. ended[replays[r].exec] \in Ends
      BY <3>1 DEF TypeInv, QueuesOK, StoreOK, PastOK
    <3>3. OnDisk' = OnDisk \ {replays[r].orig}
      BY <1>3, <2>2, <3>1, <3>2
    <3>4. replays[r].orig \notin DOMAIN ended
      BY <1>6, <2>2, <3>1 DEF OwedBy
    <3>5. ASSUME NEW k \in Jobs
          PROVE  Owed(k)' \subseteq Owed(k)
      BY <1>8, <1>10, <1>11, <2>1, <3>1, <3>3, <3>4
    <3> QED BY <1>9, <3>5
  <2> QED BY <1>21, <2>4, <2>5, <2>6 DEF MovesOn
<1> QED BY <1>18, <1>19, <1>20, <1>21, AloneStep, QueueMoves

(* Alone, every request is owed at most one execution more than there were crashes. *)
LEMMA OwedInvariant == Spec => [](Alone => OwedFew)
<1> DEFINE Inv == Alone => OwedFew
           Owing == Alone => OwingInv
<1>1. Init => Inv
  <2> SUFFICES ASSUME Init PROVE OwedFew
    OBVIOUS
  <2>1. entries = <<>> /\ 1..Len(<<>>) = {} /\ used["crash"] = 0
    BY DEF Init, Events
  <2>2. \A j : TopEntries(j) = {}
    BY <2>1 DEF TopEntries, Ids
  <2>3. \A j : Cardinality(Owed(j)) = 0
    BY <2>2, FS_EmptySet DEF Owed
  <2>4. 0 <= 1 + used["crash"]
    BY <2>1
  <2> QED BY <2>3, <2>4 DEF OwedFew
<1>2. TypeInv /\ DiskInv /\ PlansInv /\ SettledStaysSettled /\ Owing /\ Inv /\ [Next]_vars => Inv'
  <2> SUFFICES ASSUME TypeInv, DiskInv, PlansInv, SettledStaysSettled, Owing, Inv, [Next]_vars, Alone'
               PROVE  OwedFew'
    OBVIOUS
  <2>1. Alone
    BY AloneStep
  <2> QED BY <2>1, StepKeepsOwed
<1> HIDE DEF Inv
<1>3. Spec => []Owing
  BY OwingInvariant DEF Owing
<1> HIDE DEF Owing
<1>4. Spec => []Inv
  BY <1>1, <1>2, <1>3, TypesInvariant, DiskInvariant, PlansInvariant, SettledIsSettled, PTL DEF Spec
<1> QED BY <1>4 DEF Inv

(* How often one request can take effect: of its executions no more than one and
   one for each crash run to their end, as long as no line is damaged and nobody
   replays by hand.  The log has at-least-once semantics, and this is the most. *)
THEOREM CompletionsAreBounded ==
  Spec => [](Undamaged /\ used["manual"] = 0 => CompletionsBoundedByCrashes)
<1> DEFINE Owing == Alone => OwingInv
           Few == Alone => OwedFew
           Goal == Undamaged /\ used["manual"] = 0 => CompletionsBoundedByCrashes
<1>1. TypeInv /\ DiskInv /\ PlansInv /\ SettledStaysSettled /\ Owing /\ Few => Goal
  <2> SUFFICES ASSUME TypeInv, PlansInv, SettledStaysSettled, Undamaged, OwingInv, OwedFew, NEW j \in Jobs
               PROVE  Cardinality(TopEntries(j) \cap DOMAIN ended) <= 1 + used["crash"]
    BY DEF Alone, CompletionsBoundedByCrashes
  <2>1. RestOK /\ 0 \notin Ids /\ used["crash"] \in Nat
    BY KnownIds DEF TypeInv, StoreOK, RestOK, Events
  <2>2. OnDisk \cap DOMAIN ended = {}
    BY DEF SettledStaysSettled, PlansInv, OnDisk
  <2>3. \A r \in 1..Len(replays) : replays[r].orig # 0 => replays[r].orig \in OnDisk
    BY DEF OwingInv, OwedOK, OwedBy
  <2>4. IsFiniteSet(TopEntries(j)) /\ TopEntries(j) \subseteq Ids /\ Owed(j) \subseteq TopEntries(j)
    BY <2>1, TopEntriesOf DEF Owed
  <2>5. TopEntries(j) \cap DOMAIN ended \subseteq Owed(j)
    BY <2>1, <2>2, <2>3, <2>4 DEF Owed, Retried
  <2>6. IsFiniteSet(Owed(j)) /\ Cardinality(Owed(j)) <= 1 + used["crash"]
    BY <2>4, NoMore DEF OwedFew
  <2>7. /\ Cardinality(TopEntries(j) \cap DOMAIN ended) <= Cardinality(Owed(j))
        /\ Cardinality(TopEntries(j) \cap DOMAIN ended) \in Nat /\ Cardinality(Owed(j)) \in Nat
    BY <2>5, <2>6, NoMore
  <2> QED BY <2>1, <2>6, <2>7
<1>2. Spec => []Owing /\ []Few
  BY OwingInvariant, OwedInvariant DEF Owing, Few
<1> HIDE DEF Owing, Few, Goal
<1>3. Spec => []Goal
  BY <1>1, <1>2, TypesInvariant, DiskInvariant, PlansInvariant, SettledIsSettled, PTL
<1> QED BY <1>3 DEF Goal

-----------------------------------------------------------------------------
(* How often a request is executed, whatever happens *)

\* The most that a request may have been executed: each crash and each replay by
\* hand doubles it.
MostExecutions == 2 ^ (used["crash"] + used["manual"])

\* What the replays in progress have yet to execute for a job: an entry can be in
\* the plans of several.
Queued(j) == {p \in (1..Len(replays)) \X Ids :
                entries[p[2]].job = j /\ Among(p[2], replays[p[1]].queue)}
ExecOK ==
  \A j \in Jobs :
    /\ up => Cardinality(TopEntries(j)) + Cardinality(Queued(j)) <= MostExecutions
    /\ ~up => 2 * Cardinality(TopEntries(j)) <= MostExecutions

(* A power of two is at least one. *)
LEMMA PositivePower ==
  ASSUME NEW n \in Nat
  PROVE  2 ^ n >= 1
<1> DEFINE A == SUBSET (1..n)
           q == 2 ^ n
<1>1. IsFiniteSet(1..n) /\ Cardinality(1..n) = n
  BY FS_Interval
<1>2. IsFiniteSet(A) /\ Cardinality(A) = q
  BY <1>1, FS_SUBSET
<1>3. A # {}
  OBVIOUS
<1> HIDE DEF A, q
<1>4. Cardinality(A) # 0 /\ Cardinality(A) \in Nat
  BY <1>2, <1>3, FS_EmptySet, FS_CardinalityType
<1>5. q >= 1
  BY <1>2, <1>4
<1> QED BY <1>5 DEF q

(* A crash and a replay by hand double the bound, and nothing lowers it. *)
LEMMA MostDoubles ==
  ASSUME TypeInv, [Next]_vars
  PROVE  /\ MostExecutions \in Nat /\ MostExecutions' \in Nat /\ MostExecutions >= 1
         /\ MostExecutions' >= MostExecutions
         /\ Crash \/ ManualReplay => MostExecutions' = 2 * MostExecutions
<1> DEFINE c == used["crash"]
           m == used["manual"]
           cc == used'["crash"]
           mm == used'["manual"]
           e == c + m
           ee == cc + mm
           p == 2 ^ e
           pp == 2 ^ ee
<1>1. /\ c \in Nat /\ m \in Nat
      /\ cc = IF Crash THEN c + 1 ELSE c
      /\ mm = IF ManualReplay THEN m + 1 ELSE m
  BY CountedSteps
<1>2. ~(Crash /\ ManualReplay)
  BY DEF Crash, ManualReplay, Free
<1>3. MostExecutions = p /\ MostExecutions' = pp
  BY DEF MostExecutions
<1> HIDE DEF c, m, cc, mm
<1>4. e \in Nat /\ ee = IF Crash \/ ManualReplay THEN e + 1 ELSE e
  BY <1>1, <1>2
<1> HIDE DEF e, ee
<1>5. p \in Nat /\ 2 ^ (e + 1) = 2 * p /\ p >= 1
  BY <1>4, Doubling, PositivePower
<1>6. CASE Crash \/ ManualReplay
  <2>1. pp = 2 ^ (e + 1)
    BY <1>4, <1>6
  <2> HIDE DEF p, pp
  <2> QED BY <1>3, <1>5, <1>6, <2>1
<1>7. CASE ~(Crash \/ ManualReplay)
  <2>1. pp = p
    BY <1>4, <1>7
  <2> HIDE DEF p, pp
  <2> QED BY <1>3, <1>5, <1>7, <2>1
<1> QED BY <1>6, <1>7

(* What is queued for a job is finite. *)
LEMMA QueuedOf ==
  ASSUME TypeInv, NEW j
  PROVE  IsFiniteSet(Queued(j)) /\ Cardinality(Queued(j)) \in Nat
<1>1. IsFiniteSet(Ids) /\ Len(replays) \in Nat
  BY KnownIds, LenProperties DEF TypeInv, StoreOK, QueuesOK
<1>2. IsFiniteSet(1..Len(replays))
  BY <1>1, FS_Interval
<1>3. IsFiniteSet((1..Len(replays)) \X Ids)
  BY <1>1, <1>2, FS_Product
<1>4. Queued(j) \subseteq (1..Len(replays)) \X Ids
  BY DEF Queued
<1> QED BY <1>3, <1>4, NoMore

(* Queues that grow shorter hold no more for any job. *)
LEMMA QueuedShrinks ==
  ASSUME TypeInv, \A i \in Ids : entries'[i] = entries[i], NEW j,
         \A r \in 1..Len(replays') : /\ r \in 1..Len(replays)
                                     /\ \A i : Among(i, replays'[r].queue) => Among(i, replays[r].queue)
  PROVE  Queued(j)' \subseteq Queued(j)
<1> SUFFICES ASSUME NEW p \in Queued(j)'
             PROVE  p \in Queued(j)
  OBVIOUS
<1>1. /\ p \in (1..Len(replays')) \X Ids' /\ entries'[p[2]].job = j
      /\ Among(p[2], replays'[p[1]].queue)
  BY DEF Queued
<1>2. p[1] \in 1..Len(replays) /\ Among(p[2], replays[p[1]].queue)
  BY <1>1
<1>3. replays[p[1]] \in Planned(Ids)
  BY <1>2, ElementOfSeq DEF TypeInv, QueuesOK
<1>4. p[2] \in Ids
  <2>1. replays[p[1]].queue \in Seq(Ids)
    BY <1>3 DEF Planned
  <2> QED BY <1>2, <2>1, ElementOfSeq DEF Among
<1>5. p = <<p[1], p[2]>> /\ entries[p[2]].job = j
  BY <1>1, <1>4
<1> QED BY <1>2, <1>4, <1>5 DEF Queued

(* The entries a new plan queues for a job are among its top-level ones. *)
LEMMA PlanQueues ==
  ASSUME TypeInv, TypeInv', entries' = entries, replays' = Append(replays, Plan(mem')), NEW j
  PROVE  /\ Cardinality(Queued(j)') <= Cardinality(Queued(j)) + Cardinality(TopEntries(j))
         /\ Cardinality(Queued(j)') \in Nat
<1> DEFINE l == Len(replays) + 1
           T == TopEntries(j)
           N == {l} \X T
<1>1. RestOK /\ DOMAIN mem' \subseteq Ids /\ replays \in Seq(Planned(Ids)) /\ Len(replays) \in Nat
  <2>1. Ids' = Ids
    BY DEF Ids
  <2> QED BY <2>1, LenProperties DEF TypeInv, StoreOK, QueuesOK, MemOK
<1>2. \A i : Among(i, Plan(mem').queue) <=> i \in PendingIn(mem') /\ entries[i].parent = 0
  BY <1>1, PlanLists
<1>3. Len(replays') = l /\ replays'[l] = Plan(mem') /\ \A r \in 1..Len(replays) : replays'[r] = replays[r]
  <2> DEFINE p == Plan(mem')
  <2> HIDE DEF p
  <2>1. replays' = Append(replays, p)
    BY DEF p
  <2>2. Len(replays') = l /\ replays'[l] = p /\ \A r \in 1..Len(replays) : replays'[r] = replays[r]
    BY <1>1, <2>1, AppendProperties
  <2> QED BY <2>2 DEF p
<1>4. Queued(j)' \subseteq Queued(j) \cup N
  <2> SUFFICES ASSUME NEW p \in Queued(j)', p \notin Queued(j)
               PROVE  p \in N
    OBVIOUS
  <2>1. /\ p \in (1..Len(replays')) \X Ids /\ entries[p[2]].job = j
        /\ Among(p[2], replays'[p[1]].queue)
    BY DEF Queued, Ids
  <2>2. p[1] \in 1..l /\ p[2] \in Ids /\ p = <<p[1], p[2]>>
    BY <1>3, <2>1
  <2>3. p[1] = l
    <3>1. ASSUME p[1] \in 1..Len(replays)
          PROVE  FALSE
      BY <1>3, <2>1, <2>2, <3>1 DEF Queued
    <3> QED BY <1>1, <2>2, <3>1
  <2>4. entries[p[2]].parent = 0
    BY <1>2, <1>3, <2>1, <2>3
  <2> QED BY <2>1, <2>2, <2>3, <2>4 DEF TopEntries
<1>5. IsFiniteSet(T) /\ Cardinality(T) \in Nat /\ IsFiniteSet(Queued(j)) /\ Cardinality(Queued(j)) \in Nat
  BY <1>1, TopEntriesOf, QueuedOf
<1> HIDE DEF T, l
<1>6. IsFiniteSet(N) /\ Cardinality(N) = Cardinality(T)
  <2>1. IsFiniteSet({l}) /\ Cardinality({l}) = 1
    BY FS_Singleton
  <2>2. IsFiniteSet(N) /\ Cardinality(N) = Cardinality({l}) * Cardinality(T)
    BY <1>5, <2>1, FS_Product
  <2> QED BY <1>5, <2>1, <2>2
<1> HIDE DEF N
<1>7. /\ IsFiniteSet(Queued(j) \cup N)
      /\ Cardinality(Queued(j) \cup N) = Cardinality(Queued(j)) + Cardinality(N) - Cardinality(Queued(j) \cap N)
      /\ Cardinality(Queued(j) \cap N) \in Nat
  <2>1. IsFiniteSet(Queued(j) \cap N)
    BY <1>5, FS_Intersection
  <2> QED BY <1>5, <1>6, <2>1, FS_Union, FS_CardinalityType
<1>8. /\ Cardinality(Queued(j)') <= Cardinality(Queued(j) \cup N)
      /\ Cardinality(Queued(j)') \in Nat /\ Cardinality(Queued(j) \cup N) \in Nat
  BY <1>4, <1>7, NoMore
<1>9. Cardinality(Queued(j)') <= Cardinality(Queued(j)) + Cardinality(T)
  BY <1>5, <1>6, <1>7, <1>8
<1> QED BY <1>8, <1>9 DEF T

(* Executing an entry turns one that is queued into one that was begun; a crash
   forgets what is queued but doubles the bound, and each plan queues at most what
   was begun. *)
LEMMA StepKeepsExecutions ==
  ASSUME TypeInv, TypeInv', PlansInv, ExecOK, [Next]_vars
  PROVE  ExecOK'
<1> DEFINE n == Len(entries) + 1
<1>1. /\ RestOK /\ n \notin Ids /\ n # 0 /\ 0 \notin Ids /\ live \subseteq Ids
      /\ replays \in Seq(Planned(Ids)) /\ Len(replays) \in Nat
      /\ (~up => replays = <<>>)
  BY KnownIds, LenProperties DEF TypeInv, StoreOK, RestOK, QueuesOK
<1>2. \A i \in Ids : entries'[i] = entries[i]
  BY StepAddsEntries
<1>3. \A i \in Ids : entries[i].job \in Jobs /\ i \in Nat
  <2>1. \A i \in 1..Len(entries) : entries[i] \in [job : Jobs, parent : Nat]
    BY <1>1, ElementOfSeq DEF RestOK
  <2>2. Ids \in SUBSET Nat
    BY <1>1, KnownIds
  <2> QED BY <2>1, <2>2 DEF Ids
<1>4. \A j : /\ IsFiniteSet(TopEntries(j)) /\ Cardinality(TopEntries(j)) \in Nat /\ TopEntries(j) \subseteq Ids
             /\ IsFiniteSet(Queued(j)) /\ Cardinality(Queued(j)) \in Nat
  BY <1>1, TopEntriesOf, QueuedOf
<1>5. /\ MostExecutions \in Nat /\ MostExecutions' \in Nat /\ MostExecutions >= 1
      /\ MostExecutions' >= MostExecutions
      /\ Crash \/ ManualReplay => MostExecutions' = 2 * MostExecutions
  BY MostDoubles
<1>6. \A j \in Jobs : /\ up => Cardinality(TopEntries(j)) + Cardinality(Queued(j)) <= MostExecutions
                      /\ ~up => 2 * Cardinality(TopEntries(j)) <= MostExecutions
  BY DEF ExecOK
<1>7. entries' = entries => \A j : TopEntries(j)' = TopEntries(j)
  BY DEF TopEntries, Ids
<1>8. \A r \in 1..Len(replays) :
        /\ replays[r].queue \in Seq(Ids) /\ OnceEach(replays[r].queue)
        /\ \A i : Among(i, replays[r].queue) => i \in Ids /\ entries[i].parent = 0
  <2> SUFFICES ASSUME NEW r \in 1..Len(replays)
               PROVE  /\ replays[r].queue \in Seq(Ids) /\ OnceEach(replays[r].queue)
                      /\ \A i : Among(i, replays[r].queue) => i \in Ids /\ entries[i].parent = 0
    OBVIOUS
  <2>1. replays[r].queue \in Seq(Ids)
    <3>1. replays[r] \in Planned(Ids)
      BY <1>1, ElementOfSeq
    <3> QED BY <3>1 DEF Planned
  <2> QED BY <2>1, ElementOfSeq DEF PlansInv, PlansOK, PlanOK, Among
\* It is enough that no job has more entries, begun and queued together.
<1>9. ASSUME up' = up, NEW j \in Jobs, TopEntries(j)' = TopEntries(j), Queued(j)' \subseteq Queued(j)
      PROVE  /\ up' => Cardinality(TopEntries(j)') + Cardinality(Queued(j)') <= MostExecutions'
             /\ ~up' => 2 * Cardinality(TopEntries(j)') <= MostExecutions'
  <2>1. Cardinality(Queued(j)') <= Cardinality(Queued(j)) /\ Cardinality(Queued(j)') \in Nat
    BY <1>4, <1>9, NoMore
  <2> QED BY <1>4, <1>5, <1>6, <1>9, <2>1
<1>10. ASSUME up' = up, \A j \in Jobs : TopEntries(j)' = TopEntries(j) /\ Queued(j)' \subseteq Queued(j)
       PROVE  ExecOK'
  BY <1>9, <1>10 DEF ExecOK
<1>11. ASSUME NEW j \in Jobs, Accept(j), replays' = replays
       PROVE  ExecOK'
  <2>1. Begin(j, 0) /\ UNCHANGED up /\ \A i \in Ids : entries[i].job # j
    BY <1>11 DEF Accept
  <2>2. \A k : TopEntries(k)' = IF k = j THEN TopEntries(k) \cup {n} ELSE TopEntries(k)
    BY <1>1, <2>1, TopEntriesBegun
  <2>3. \A k : Queued(k)' \subseteq Queued(k)
    BY <1>2, <1>11, QueuedShrinks
  <2>4. TopEntries(j)' = {n} /\ Queued(j)' = {}
    <3>1. TopEntries(j) = {} /\ Queued(j) = {}
      BY <2>1 DEF TopEntries, Queued
    <3> QED BY <2>2, <2>3, <3>1
  <2>5. Cardinality(TopEntries(j)') = 1 /\ Cardinality(Queued(j)') = 0
    BY <2>4, FS_Singleton, FS_EmptySet
  <2>6. up
    BY <1>11 DEF Accept, Free
  <2>7. ASSUME NEW k \in Jobs
        PROVE  /\ up' => Cardinality(TopEntries(k)') + Cardinality(Queued(k)') <= MostExecutions'
               /\ ~up' => 2 * Cardinality(TopEntries(k)') <= MostExecutions'
    <3>1. CASE k = j
      BY <1>5, <2>1, <2>5, <2>6, <3>1
    <3>2. CASE k # j
      BY <1>9, <2>1, <2>2, <2>3, <3>2
    <3> QED BY <3>1, <3>2
  <2> QED BY <2>7 DEF ExecOK
<1>12. ASSUME NEW i \in live, BeginChild(i), replays' = replays
       PROVE  ExecOK'
  <2>1. Begin(entries[i].job, i) /\ UNCHANGED up /\ i \in Ids
    BY <1>1, <1>12 DEF BeginChild
  <2>2. entries[i].job \in Jobs /\ i \in Nat /\ i # 0
    BY <1>1, <1>3, <2>1
  <2>3. \A k : TopEntries(k)' = TopEntries(k)
    BY <1>1, <2>1, <2>2, TopEntriesBegun
  <2>4. \A k : Queued(k)' \subseteq Queued(k)
    BY <1>2, <1>12, QueuedShrinks
  <2> QED BY <1>10, <2>1, <2>3, <2>4
<1>13. CASE UNCHANGED replays /\ NoReplay
  <2>1. CASE UNCHANGED <<entries, up>>
    <3>1. \A k : Queued(k)' \subseteq Queued(k)
      BY <1>2, <1>13, QueuedShrinks
    <3> QED BY <1>7, <1>10, <2>1, <3>1
  <2>2. \/ UNCHANGED <<entries, up>>
        \/ (\E j \in Jobs : Accept(j)) \/ (\E i \in live : BeginChild(i))
    BY <1>13 DEF NoReplay, vars, SkipChild, Compact, ScriptRead, ScriptRewrite, End
  <2> QED BY <1>11, <1>12, <1>13, <2>1, <2>2
<1>14. CASE replays' = <<>> /\ (Crash \/ Restart)
  <2>1. entries' = entries /\ \A j : TopEntries(j)' = TopEntries(j)
    BY <1>7, <1>14 DEF Crash, Restart
  <2>2. \A j : Cardinality(Queued(j)') = 0
    <3>1. 1..Len(<<>>) = {}
      OBVIOUS
    <3>2. \A j : Queued(j)' = {}
      BY <1>14, <3>1 DEF Queued
    <3> QED BY <3>2, FS_EmptySet
  <2>3. CASE Crash
    <3>1. up /\ ~up'
      BY <2>3 DEF Crash
    <3> QED BY <1>4, <1>5, <1>6, <2>1, <2>3, <3>1 DEF ExecOK
  <2>4. CASE Restart
    <3>1. ~up /\ up'
      BY <2>4 DEF Restart
    <3> QED BY <1>4, <1>5, <1>6, <2>1, <2>2, <3>1 DEF ExecOK
  <2> QED BY <1>14, <2>3, <2>4
<1>15. CASE /\ replays' = Append(replays, Plan(mem')) /\ entries' = entries /\ up'
            /\ (Restart \/ ManualReplay)
  <2>1. \A j : /\ Cardinality(Queued(j)') <= Cardinality(Queued(j)) + Cardinality(TopEntries(j))
               /\ Cardinality(Queued(j)') \in Nat
    BY <1>15, PlanQueues
  <2>2. CASE Restart
    <3>1. ~up
      BY <2>2 DEF Restart
    <3>2. \A j : Cardinality(Queued(j)) = 0
      <4>1. 1..Len(<<>>) = {}
        OBVIOUS
      <4>2. \A j : Queued(j) = {}
        BY <1>1, <3>1, <4>1 DEF Queued
      <4> QED BY <4>2, FS_EmptySet
    <3> QED BY <1>4, <1>5, <1>6, <1>7, <1>15, <2>1, <3>1, <3>2 DEF ExecOK
  <2>3. CASE ManualReplay
    <3>1. up
      BY <2>3 DEF ManualReplay, Free
    <3> QED BY <1>4, <1>5, <1>6, <1>7, <1>15, <2>1, <2>3, <3>1 DEF ExecOK
  <2> QED BY <1>15, <2>2, <2>3
<1>16. ASSUME NEW r \in 1..Len(replays), NEW x \in Planned(Ids), MovesOn(r, x)
       PROVE  ExecOK'
  <2> DEFINE h == Head(replays[r].queue)
  <2>1. /\ Len(replays') = Len(replays)
        /\ \A q \in 1..Len(replays) : replays'[q] = IF q = r THEN x ELSE replays[q]
    <3>1. replays' = [replays EXCEPT ![r] = x]
      BY <1>16 DEF MovesOn
    <3> QED BY <1>1, <3>1, ExceptSeq
  <2>2. /\ replays[r].queue # <<>> => /\ h \in Ids /\ entries[h].parent = 0 /\ Among(h, replays[r].queue)
                                     /\ \A i : Among(i, Tail(replays[r].queue)) <=>
                                                 Among(i, replays[r].queue) /\ i # h
    BY <1>8, TailOfQueue
  <2>3. \A k : Queued(k)' \subseteq Queued(k)
    <3>1. \A i : Among(i, x.queue) => Among(i, replays[r].queue)
      BY <1>16, <2>2 DEF MovesOn
    <3>2. \A q \in 1..Len(replays') : /\ q \in 1..Len(replays)
                                      /\ \A i : Among(i, replays'[q].queue) => Among(i, replays[q].queue)
      BY <2>1, <3>1
    <3> QED BY <1>2, <3>2, QueuedShrinks
  <2>4. CASE ReplayNext(r)
    <3>1. Begin(entries[h].job, 0) /\ replays[r].queue # <<>> /\ UNCHANGED up /\ up
      BY <2>4 DEF ReplayNext, Free
    <3>2. \A k : TopEntries(k)' = IF k = entries[h].job THEN TopEntries(k) \cup {n} ELSE TopEntries(k)
      BY <1>1, <1>3, <2>2, <3>1, TopEntriesBegun
    <3>3. x.queue = Tail(replays[r].queue)
      <4>1. entries' # entries
        <5>1. n \in Ids' /\ n \notin Ids
          BY <1>1, <1>3, <2>2, <3>1, BegunEntry
        <5> QED BY <5>1 DEF Ids
      <4>2. ~ReplayEnds(r)
        BY <4>1 DEF ReplayEnds
      <4> QED BY <1>16, <4>2 DEF MovesOn
    <3>4. ASSUME NEW k \in Jobs, k = entries[h].job
          PROVE  Cardinality(TopEntries(k)') + Cardinality(Queued(k)') <= MostExecutions'
      <4>1. /\ Cardinality(TopEntries(k)') <= Cardinality(TopEntries(k)) + 1
            /\ Cardinality(TopEntries(k)') \in Nat
        BY <1>4, <3>2, <3>4, OneMore
      <4>2. <<r, h>> \in Queued(k)
        BY <2>2, <3>1, <3>4 DEF Queued
      <4>3. <<r, h>> \notin Queued(k)'
        <5>1. ~Among(h, x.queue)
          BY <2>2, <3>1, <3>3
        <5> QED BY <2>1, <5>1 DEF Queued
      <4>4. Queued(k)' \subseteq Queued(k) \ {<<r, h>>}
        BY <2>3, <4>3
      <4>5. /\ IsFiniteSet(Queued(k) \ {<<r, h>>})
            /\ Cardinality(Queued(k) \ {<<r, h>>}) = Cardinality(Queued(k)) - 1
        <5> DEFINE p == <<r, h>>
                   Q == Queued(k)
        <5>1. p \in Q /\ IsFiniteSet(Q)
          BY <1>4, <4>2
        <5> HIDE DEF p, Q
        <5>2. IsFiniteSet(Q \ {p}) /\ Cardinality(Q \ {p}) = Cardinality(Q) - 1
          BY <5>1, FS_RemoveElement
        <5> QED BY <5>2 DEF p, Q
      <4>6. /\ Cardinality(Queued(k)') <= Cardinality(Queued(k) \ {<<r, h>>})
            /\ Cardinality(Queued(k)') \in Nat
        BY <4>4, <4>5, NoMore
      <4> QED BY <1>4, <1>5, <1>6, <3>1, <4>1, <4>5, <4>6
    <3>5. ASSUME NEW k \in Jobs, k # entries[h].job
          PROVE  Cardinality(TopEntries(k)') + Cardinality(Queued(k)') <= MostExecutions'
      BY <1>9, <2>3, <3>1, <3>2, <3>5
    <3> QED BY <3>1, <3>4, <3>5 DEF ExecOK
  <2>5. CASE ReplayRefused(r) \/ ReplayEnds(r)
    <3>1. UNCHANGED <<entries, up>>
      BY <2>5 DEF ReplayRefused, ReplayEnds
    <3> QED BY <1>7, <1>10, <2>3, <3>1
  <2> QED BY <1>16, <2>4, <2>5 DEF MovesOn
<1> QED BY <1>13, <1>14, <1>15, <1>16, QueueMoves

(* In every environment, whatever is torn, cut off or rewritten and however often
   somebody asks for a replay: a request is executed at most twice as often for
   each crash and each replay by hand.  An entry that is executed again while it
   is still pending is pending twice, so this is what at-least-once amounts to. *)
THEOREM ExecutionsAreBounded == Spec => []ExecutionsBoundedByReplays
<1>1. Init => ExecOK
  <2> SUFFICES ASSUME Init PROVE ExecOK
    OBVIOUS
  <2>1. /\ entries = <<>> /\ 1..Len(<<>>) = {} /\ replays = <<>> /\ up
        /\ used["crash"] = 0 /\ used["manual"] = 0
    BY DEF Init, Events
  <2>2. \A j : TopEntries(j) = {} /\ Queued(j) = {}
    BY <2>1 DEF TopEntries, Queued, Ids
  <2>3. \A j : Cardinality(TopEntries(j)) = 0 /\ Cardinality(Queued(j)) = 0
    BY <2>2, FS_EmptySet
  <2>4. MostExecutions = 1
    BY <2>1, NothingDoubled DEF MostExecutions
  <2> QED BY <2>1, <2>3, <2>4 DEF ExecOK
<1>2. TypeInv /\ TypeInv' /\ PlansInv /\ ExecOK /\ [Next]_vars => ExecOK'
  BY StepKeepsExecutions
<1>3. TypeInv /\ ExecOK => ExecutionsBoundedByReplays
  <2> SUFFICES ASSUME TypeInv, ExecOK, NEW j \in Jobs
               PROVE  Cardinality(TopEntries(j)) <= MostExecutions
    BY DEF ExecutionsBoundedByReplays, MostExecutions
  <2>1. Cardinality(TopEntries(j)) \in Nat /\ Cardinality(Queued(j)) \in Nat /\ MostExecutions \in Nat
    <3>1. RestOK
      BY DEF TypeInv, StoreOK
    <3>2. used["crash"] \in Nat /\ used["manual"] \in Nat
      BY DEF TypeInv, StoreOK, RestOK, Events
    <3>3. \A e \in Nat : 2 ^ e \in Nat
      BY Doubling
    <3>4. used["crash"] + used["manual"] \in Nat
      BY <3>2
    <3> QED BY <3>1, <3>3, <3>4, TopEntriesOf, QueuedOf DEF MostExecutions
  <2> QED BY <2>1 DEF ExecOK
<1> QED BY <1>1, <1>2, <1>3, TypesInvariant, PlansInvariant, PTL DEF Spec
=============================================================================
