------------------------- MODULE PlanExecutionProofs -------------------------
(***************************************************************************)
(* What plan execution promises for plans of any length, any number of     *)
(* calls, commands and crashes: its types with the lock among them, and    *)
(* that a step recorded as completed is one whose own task has succeeded.  *)
(***************************************************************************)
EXTENDS PlanExecution, SequenceTheorems, WellFoundedInduction, TLAPS

(* A sequence mapped step by step is a sequence. *)
LEMMA StepsAreSeq ==
  ASSUME NEW S, NEW T, NEW s \in Seq(S), NEW f,
         DOMAIN f = DOMAIN s, f = [i \in DOMAIN s |-> f[i]], \A i \in DOMAIN s : f[i] \in T
  PROVE  f \in Seq(T) /\ Len(f) = Len(s)
<1>1. Len(s) \in Nat /\ DOMAIN s = 1..Len(s)
  BY LenProperties
<1>2. f \in [1..Len(s) -> T]
  BY <1>1
<1>3. f \in Seq(T)
  BY <1>1, <1>2
<1> QED BY <1>1, <1>3, LenProperties

-----------------------------------------------------------------------------
(* Reading a plan and writing it back changes nothing but the markers. *)
LEMMA ResavedPlan ==
  ASSUME NEW p \in Plan
  PROVE  /\ Resaved(p) \in Plan
         /\ Resaved(p).status = p.status /\ Resaved(p).current = p.current
         /\ DOMAIN Resaved(p).steps = DOMAIN p.steps
         /\ \A i \in DOMAIN p.steps :
              /\ Resaved(p).steps[i] \in Step
              /\ Resaved(p).steps[i].number = p.steps[i].number
              /\ Resaved(p).steps[i].task = p.steps[i].task
              /\ Resaved(p).steps[i].status = p.steps[i].status
<1> DEFINE ss == [i \in DOMAIN p.steps |-> [p.steps[i] EXCEPT !.marked = FALSE]]
<1>1. p.steps \in Seq(Step)
  BY DEF Plan
<1>2. \A i \in DOMAIN p.steps : p.steps[i] \in Step
  BY <1>1, ElementOfSeq
<1>3. \A i \in DOMAIN ss : /\ ss[i] \in Step /\ ss[i].number = p.steps[i].number
                           /\ ss[i].task = p.steps[i].task /\ ss[i].status = p.steps[i].status
  BY <1>2 DEF Step
<1>4. DOMAIN ss = DOMAIN p.steps /\ ss = [i \in DOMAIN p.steps |-> ss[i]]
  OBVIOUS
<1>5. Resaved(p) = [p EXCEPT !.steps = ss]
  BY DEF Resaved
<1> HIDE DEF ss
<1>6. ss \in Seq(Step)
  BY <1>1, <1>3, <1>4, StepsAreSeq
<1>7. [p EXCEPT !.steps = ss] \in Plan
  BY <1>6 DEF Plan
<1>8. /\ [p EXCEPT !.steps = ss].steps = ss
      /\ [p EXCEPT !.steps = ss].status = p.status
      /\ [p EXCEPT !.steps = ss].current = p.current
  BY DEF Plan
<1> QED BY <1>3, <1>4, <1>5, <1>7, <1>8

(* A non-empty set of natural numbers has a least element. *)
LEMMA LeastNatural ==
  ASSUME NEW T \in SUBSET Nat, T # {}
  PROVE  \E n \in T : \A m \in T : n <= m
<1> DEFINE R == {ss \in Nat \X Nat : ss[1] < ss[2]}
<1>1. IsWellFoundedOn(R, Nat)
  BY NatLessThanWellFounded DEF OpToRel
<1>2. \E n \in T : \A m \in T : ~ (<<m, n>> \in R)
  <2> HIDE DEF R
  <2> QED BY <1>1, WFMin
<1>3. PICK n \in T : \A m \in T : ~ (<<m, n>> \in R)
  BY <1>2
<1>4. \A m \in T : ~(m < n)
  BY <1>3
<1> QED BY <1>4

(* The current step is the first pending one, or the number after the last. *)
LEMMA FirstPendingNat ==
  ASSUME NEW steps \in Seq(Step)
  PROVE  FirstPending(steps) \in Nat
<1>1. Len(steps) \in Nat /\ DOMAIN steps = 1..Len(steps)
  BY LenProperties
<1>2. CASE ~ \E i \in DOMAIN steps : steps[i].status = "pending"
  BY <1>1, <1>2 DEF FirstPending
<1>3. CASE \E i \in DOMAIN steps : steps[i].status = "pending"
  <2> DEFINE T == {i \in DOMAIN steps : steps[i].status = "pending"}
  <2>1. PICK n \in T : \A m \in T : n <= m
    <3>1. T \in SUBSET Nat /\ T # {}
      BY <1>1, <1>3
    <3> HIDE DEF T
    <3> QED BY <3>1, LeastNatural
  <2>2. steps[n].status = "pending" /\ \A j \in 1..(n - 1) : steps[j].status # "pending"
    BY <1>1, <2>1
  <2>3. n \in DOMAIN steps
    BY <2>1
  <2> HIDE DEF T
  <2> QED BY <1>1, <1>3, <2>2, <2>3 DEF FirstPending
<1> QED BY <1>2, <1>3

(* An update of one step leaves the numbers, the tasks and the other steps as they
   were. *)
LEMMA UpdatedPlan ==
  ASSUME NEW p \in Plan, NEW i \in DOMAIN p.steps, NEW st \in StepStatus,
         p.status # "absent"
  PROVE  /\ WithStep(p, i, st) \in Plan /\ WithStep(p, i, st).status # "absent"
         /\ DOMAIN WithStep(p, i, st).steps = DOMAIN p.steps
         /\ \A j \in DOMAIN p.steps :
              /\ WithStep(p, i, st).steps[j].number = p.steps[j].number
              /\ WithStep(p, i, st).steps[j].task = p.steps[j].task
              /\ WithStep(p, i, st).steps[j].status = IF j = i THEN st ELSE p.steps[j].status
<1> DEFINE r == Resaved(p).steps
           ss == [r EXCEPT ![i].status = st]
           q == WithStep(p, i, st)
           new == IF \A j \in DOMAIN ss : ss[j].status \in {"completed", "skipped"}
                  THEN "completed"
                  ELSE IF st \in {"failed", "running"} THEN st ELSE p.status
<1>1. /\ r \in Seq(Step) /\ DOMAIN r = DOMAIN p.steps
      /\ \A j \in DOMAIN p.steps :
           /\ r[j] \in Step /\ r[j].number = p.steps[j].number
           /\ r[j].task = p.steps[j].task /\ r[j].status = p.steps[j].status
  <2>1. Resaved(p).steps \in Seq(Step)
    BY ResavedPlan DEF Plan
  <2> QED BY <2>1, ResavedPlan
<1>2. q = [steps |-> ss, current |-> FirstPending(ss), status |-> new]
  BY DEF WithStep
<1>3. new \in PlanStatus
  BY DEF PlanStatus, Plan
<1> HIDE DEF r, new
<1>4. /\ DOMAIN ss = DOMAIN r /\ ss = [j \in DOMAIN r |-> ss[j]]
      /\ \A j \in DOMAIN r : ss[j] = IF j = i THEN [r[j] EXCEPT !.status = st] ELSE r[j]
  BY <1>1
<1>5. \A j \in DOMAIN r : /\ ss[j] \in Step /\ ss[j].number = r[j].number /\ ss[j].task = r[j].task
                          /\ ss[j].status = IF j = i THEN st ELSE r[j].status
  BY <1>1, <1>4 DEF Step
<1> HIDE DEF ss
<1>6. ss \in Seq(Step)
  BY <1>1, <1>4, <1>5, StepsAreSeq, ZenonT(30)
<1>7. FirstPending(ss) \in Nat
  BY <1>6, FirstPendingNat
<1>8. q \in Plan /\ q.steps = ss /\ q.status = new
  BY <1>2, <1>3, <1>6, <1>7 DEF Plan
<1>9. new # "absent"
  BY <1>3 DEF PlanStatus
<1> QED BY <1>1, <1>4, <1>5, <1>8, <1>9

(* A new plan has the steps of its content. *)
LEMMA CreatedPlan ==
  ASSUME NEW c \in Contents
  PROVE  /\ Created(c) \in Plan /\ Created(c).status # "absent"
         /\ Created(c).steps = c
BY PlanConfig DEF Created, Plan, PlanStatus

-----------------------------------------------------------------------------
(* Edits *)

(* What is inserted is one more step, ... *)
LEMMA InsertedSteps ==
  ASSUME NEW S, NEW s \in Seq(S), NEW i \in 1..(Len(s) + 1), NEW x \in S
  PROVE  InsertedAt(s, i, x) \in Seq(S)
<1>1. Len(s) \in Nat /\ DOMAIN s = 1..Len(s) /\ \A j \in 1..Len(s) : s[j] \in S
  BY LenProperties, ElementOfSeq
<1>2. SubSeq(s, 1, i - 1) \in Seq(S)
  BY <1>1, SubSeqProperties
<1>3. SubSeq(s, i, Len(s)) \in Seq(S)
  BY <1>1, SubSeqProperties
<1>4. <<x>> \in Seq(S)
  OBVIOUS
<1>5. SubSeq(s, 1, i - 1) \o <<x>> \in Seq(S)
  BY <1>2, <1>4, ConcatProperties
<1> QED BY <1>3, <1>5, ConcatProperties DEF InsertedAt

(* ... and what is removed one less. *)
LEMMA RemovedSteps ==
  ASSUME NEW S, NEW s \in Seq(S), NEW a \in 1..Len(s), NEW b \in a..Len(s)
  PROVE  Removed(s, a, b) \in Seq(S) /\ Len(Removed(s, a, b)) = (a - 1) + (Len(s) - b)
<1>1. Len(s) \in Nat /\ DOMAIN s = 1..Len(s) /\ \A j \in 1..Len(s) : s[j] \in S
  BY LenProperties, ElementOfSeq
<1>2. SubSeq(s, 1, a - 1) \in Seq(S) /\ Len(SubSeq(s, 1, a - 1)) = a - 1
  <2>1. \A j \in 1..(a - 1) : s[j] \in S
    BY <1>1
  <2>2. /\ SubSeq(s, 1, a - 1) \in Seq(S)
        /\ Len(SubSeq(s, 1, a - 1)) = IF 1 <= a - 1 THEN a - 1 - 1 + 1 ELSE 0
    BY <1>1, <2>1, SubSeqProperties
  <2> QED BY <1>1, <2>2
<1>3. SubSeq(s, b + 1, Len(s)) \in Seq(S) /\ Len(SubSeq(s, b + 1, Len(s))) = Len(s) - b
  <2>1. \A j \in (b + 1)..Len(s) : s[j] \in S
    BY <1>1
  <2>2. /\ SubSeq(s, b + 1, Len(s)) \in Seq(S)
        /\ Len(SubSeq(s, b + 1, Len(s))) = IF b + 1 <= Len(s) THEN Len(s) - (b + 1) + 1 ELSE 0
    BY <1>1, <2>1, SubSeqProperties
  <2> DEFINE n == Len(s)
             d == SubSeq(s, b + 1, Len(s))
  <2>3. n \in Nat /\ b \in 1..n /\ Len(d) = IF b + 1 <= n THEN n - (b + 1) + 1 ELSE 0
    BY <1>1, <2>2
  <2> HIDE DEF n, d
  <2>4. Len(d) = n - b
    <3>1. CASE b + 1 <= n
      BY <2>3, <3>1
    <3>2. CASE b = n
      BY <2>3, <3>2
    <3> QED BY <2>3, <3>1, <3>2
  <2> QED BY <2>2, <2>4 DEF n, d
<1> DEFINE u == SubSeq(s, 1, a - 1)
           v == SubSeq(s, b + 1, Len(s))
<1>4. Removed(s, a, b) = u \o v /\ u \in Seq(S) /\ v \in Seq(S) /\ Len(u) = a - 1 /\ Len(v) = Len(s) - b
  BY <1>2, <1>3 DEF Removed
<1> HIDE DEF u, v
<1>5. u \o v \in Seq(S) /\ Len(u \o v) = Len(u) + Len(v)
  BY <1>4, ConcatProperties
<1> QED BY <1>4, <1>5

(* The steps of one number have a first and a last place. *)
LEMMA RunBounds ==
  ASSUME NEW S, NEW s \in Seq(S), NEW r \in Runs(s)
  PROVE  r[1] \in 1..Len(s) /\ r[2] \in r[1]..Len(s)
<1>1. Len(s) \in Nat /\ DOMAIN s = 1..Len(s)
  BY LenProperties
<1>2. r[1] \in DOMAIN s /\ r[2] \in DOMAIN s /\ r[1] \in r[1]..r[2]
  BY DEF Runs
<1> QED BY <1>1, <1>2

(* Steps that are moved stay the same steps. *)
LEMMA MovedSteps ==
  ASSUME NEW S, NEW s \in Seq(S), NEW i \in 1..Len(s), NEW j \in 1..Len(s)
  PROVE  MovedTo(s, i, j) \in Seq(S)
<1> DEFINE z == Removed(s, i, i)
<1>1. Len(s) \in Nat /\ DOMAIN s = 1..Len(s)
  BY LenProperties
<1>2. i \in i..Len(s) /\ s[i] \in S
  BY <1>1, ElementOfSeq
<1>3. z \in Seq(S) /\ Len(z) = (i - 1) + (Len(s) - i)
  BY <1>2, RemovedSteps
<1> HIDE DEF z
<1>4. j \in 1..(Len(z) + 1)
  BY <1>1, <1>3
<1>5. InsertedAt(z, j, s[i]) \in Seq(S)
  BY <1>2, <1>3, <1>4, InsertedSteps
<1> QED BY <1>5 DEF MovedTo, z

(* Numbering steps by their places changes nothing else. *)
LEMMA RenumberedSteps ==
  ASSUME NEW s \in Seq(Step)
  PROVE  /\ Renumbered(s) \in Seq(Step) /\ DOMAIN Renumbered(s) = DOMAIN s
         /\ \A i \in DOMAIN s : /\ Renumbered(s)[i].number = i
                                /\ Renumbered(s)[i].status = s[i].status
<1> DEFINE ss == [i \in DOMAIN s |-> [s[i] EXCEPT !.number = i]]
<1>1. \A i \in DOMAIN s : s[i] \in Step /\ i \in Nat
  BY ElementOfSeq, LenProperties
<1>2. \A i \in DOMAIN s : ss[i] \in Step /\ ss[i].number = i /\ ss[i].status = s[i].status
  BY <1>1 DEF Step
<1>3. DOMAIN ss = DOMAIN s /\ ss = [i \in DOMAIN s |-> ss[i]] /\ Renumbered(s) = ss
  BY DEF Renumbered
<1> HIDE DEF ss
<1>4. ss \in Seq(Step)
  BY <1>2, <1>3, StepsAreSeq
<1> QED BY <1>2, <1>3, <1>4

(* A step that is described anew keeps its number and its status. *)
LEMMA DescribedSteps ==
  ASSUME NEW s \in Seq(Step), NEW k \in DOMAIN s, NEW d \in Descriptions
  PROVE  /\ Described(s, k, d) \in Seq(Step) /\ DOMAIN Described(s, k, d) = DOMAIN s
         /\ \A i \in DOMAIN s : /\ Described(s, k, d)[i].number = s[i].number
                                /\ Described(s, k, d)[i].status = s[i].status
<1> DEFINE x == [s[k] EXCEPT !.task = d.task]
           y == [x EXCEPT !.marked = d.marked]
           ss == [s EXCEPT ![k] = y]
<1>1. \A i \in DOMAIN s : s[i] \in Step
  BY ElementOfSeq
<1>2. d.task \in Tasks /\ d.marked \in BOOLEAN
  BY PlanConfig DEF Description
<1>3. x \in Step /\ x.number = s[k].number /\ x.status = s[k].status
  BY <1>1, <1>2 DEF Step
<1>4. Described(s, k, d) = ss
  <2>1. [s EXCEPT ![k].task = d.task] = [s EXCEPT ![k] = x]
    OBVIOUS
  <2>2. [s EXCEPT ![k] = x][k] = x
    OBVIOUS
  <2> DEFINE u == [s EXCEPT ![k] = x]
  <2>3. Described(s, k, d) = [u EXCEPT ![k].marked = d.marked]
    BY <2>1 DEF Described
  <2>4. [u EXCEPT ![k].marked = d.marked] = [u EXCEPT ![k] = y]
    BY <2>2
  <2>5. [u EXCEPT ![k] = y] = ss
    OBVIOUS
  <2> QED BY <2>3, <2>4, <2>5
<1> HIDE DEF x
<1>5. y \in Step /\ y.number = s[k].number /\ y.status = s[k].status
  BY <1>2, <1>3 DEF Step
<1> HIDE DEF y
<1>6. /\ DOMAIN ss = DOMAIN s /\ ss = [i \in DOMAIN s |-> ss[i]]
      /\ \A i \in DOMAIN s : ss[i] = IF i = k THEN y ELSE s[i]
  OBVIOUS
<1> HIDE DEF ss
<1>7. \A i \in DOMAIN s : ss[i] \in Step /\ ss[i].number = s[i].number /\ ss[i].status = s[i].status
  BY <1>1, <1>5, <1>6
<1>8. ss \in Seq(Step)
  BY <1>6, <1>7, StepsAreSeq
<1> QED BY <1>4, <1>6, <1>7, <1>8

(* Saving other steps leaves the rest of the plan. *)
LEMMA WithStepsPlan ==
  ASSUME plan \in Plan, NEW ss \in Seq(Step)
  PROVE  /\ WithSteps(ss) \in Plan /\ WithSteps(ss).status = plan.status
         /\ WithSteps(ss).steps = ss /\ WithSteps(ss).current = plan.current
<1> DEFINE r == Resaved(plan)
<1>1. r \in Plan /\ r.status = plan.status /\ r.current = plan.current
  BY ResavedPlan
<1>2. WithSteps(ss) = [r EXCEPT !.steps = ss]
  BY DEF WithSteps
<1> HIDE DEF r
<1> QED BY <1>1, <1>2 DEF Plan

\* The numbers and the results of two plans are the same.
SameResults(p, q) ==
  /\ DOMAIN q.steps = DOMAIN p.steps
  /\ \A i \in DOMAIN p.steps : q.steps[i].number = p.steps[i].number /\ q.steps[i].status = p.steps[i].status

(* An edit of the descriptions leaves the numbers and the results. *)
LEMMA RewordedPlan ==
  ASSUME plan \in Plan, NEW p \in Rewordings
  PROVE  p \in Plan /\ p.status = plan.status /\ p.current = plan.current /\ SameResults(plan, p)
<1> DEFINE s == Resaved(plan).steps
<1>1. /\ s \in Seq(Step) /\ DOMAIN s = DOMAIN plan.steps
      /\ \A i \in DOMAIN plan.steps : s[i].number = plan.steps[i].number /\ s[i].status = plan.steps[i].status
  BY ResavedPlan DEF Plan
<1>2. p = WithSteps(s) \/ \E r \in Runs(s), d \in Descriptions : p = WithSteps(Described(s, r[1], d))
  <2>1. Rewordings = {WithSteps(s)} \cup {WithSteps(Described(s, r[1], d)) : r \in Runs(s), d \in Descriptions}
    BY DEF Rewordings
  <2> HIDE DEF s
  <2> QED BY <2>1
<1> HIDE DEF s
<1>3. CASE p = WithSteps(s)
  BY <1>1, <1>3, WithStepsPlan DEF SameResults
<1>4. CASE \E r \in Runs(s), d \in Descriptions : p = WithSteps(Described(s, r[1], d))
  <2>1. PICK r \in Runs(s), d \in Descriptions : p = WithSteps(Described(s, r[1], d))
    BY <1>4
  <2>2. r[1] \in DOMAIN s
    BY DEF Runs
  <2> DEFINE ss == Described(s, r[1], d)
  <2>3. /\ ss \in Seq(Step) /\ DOMAIN ss = DOMAIN s
        /\ \A i \in DOMAIN s : ss[i].number = s[i].number /\ ss[i].status = s[i].status
    BY <1>1, <2>2, DescribedSteps
  <2>4. p = WithSteps(ss)
    BY <2>1
  <2> HIDE DEF ss
  <2> QED BY <1>1, <2>3, <2>4, WithStepsPlan DEF SameResults
<1> QED BY <1>2, <1>3, <1>4

\* A step is new, or has the result of one that was there.
Echo == {x \in Step : x.status = "pending" \/ \E j \in DOMAIN plan.steps : plan.steps[j].status = x.status}

(* An edit that adds, deletes or moves steps numbers the steps it leaves anew. *)
LEMMA RestructuredSteps ==
  ASSUME plan \in Plan, NEW p \in Restructurings
  PROVE  \E u \in Seq(Echo) : p = WithSteps(Renumbered(u))
<1> DEFINE s == Resaved(plan).steps
           new(d) == [number |-> 0, task |-> d.task, status |-> "pending", marked |-> d.marked]
           A == {WithSteps(Renumbered(InsertedAt(s, i, new(d)))) : i \in 1..(Len(s) + 1), d \in Descriptions}
           B == {WithSteps(Renumbered(s))}
           C == {WithSteps(Renumbered(Removed(s, r[1], r[2]))) : r \in Runs(s)}
           D == {WithSteps(Renumbered(MovedTo(s, i, j))) : i, j \in DOMAIN s}
<1>1. s \in Seq(Echo)
  <2>1. /\ DOMAIN s = DOMAIN plan.steps
        /\ \A i \in DOMAIN s : s[i] \in Step /\ s[i].status = plan.steps[i].status
    BY ResavedPlan
  <2>2. \A i \in DOMAIN s : s[i] \in Echo
    BY <2>1 DEF Echo
  <2>3. s \in Seq(Step)
    BY ResavedPlan DEF Plan
  <2> HIDE DEF s
  <2>4. DOMAIN s = 1..Len(s) /\ s = [i \in DOMAIN s |-> s[i]]
    BY <2>3, LenProperties
  <2> QED BY <2>2, <2>3, <2>4, StepsAreSeq
<1>2. DOMAIN s = 1..Len(s) /\ Len(s) \in Nat
  BY <1>1, LenProperties
<1>3. \A d \in Descriptions : new(d) \in Echo
  BY PlanConfig DEF Echo, Step, StepStatus, Description
<1>4. Restructurings = A \cup (IF plan.status = "running" THEN {} ELSE B \cup C \cup D)
  BY DEF Restructurings
<1>5. p \in A \/ p \in B \/ p \in C \/ p \in D
  <2> HIDE DEF A, B, C, D
  <2> QED BY <1>4
<1> HIDE DEF s
<1>6. CASE p \in A
  <2>1. PICK i \in 1..(Len(s) + 1), d \in Descriptions : p = WithSteps(Renumbered(InsertedAt(s, i, new(d))))
    BY <1>6
  <2> DEFINE x == new(d)
  <2>2. x \in Echo
    BY <1>3
  <2>3. p = WithSteps(Renumbered(InsertedAt(s, i, x)))
    BY <2>1
  <2> HIDE DEF x
  <2>4. InsertedAt(s, i, x) \in Seq(Echo)
    BY <1>1, <1>2, <2>2, InsertedSteps
  <2> QED BY <2>3, <2>4
<1>7. CASE p \in B
  BY <1>1, <1>7
<1>8. CASE p \in C
  <2>1. PICK r \in Runs(s) : p = WithSteps(Renumbered(Removed(s, r[1], r[2])))
    BY <1>8
  <2>2. r[1] \in 1..Len(s) /\ r[2] \in r[1]..Len(s)
    BY <1>1, RunBounds
  <2>3. Removed(s, r[1], r[2]) \in Seq(Echo)
    BY <1>1, <2>2, RemovedSteps
  <2> QED BY <2>1, <2>3
<1>9. CASE p \in D
  <2>1. PICK i \in DOMAIN s, j \in DOMAIN s : p = WithSteps(Renumbered(MovedTo(s, i, j)))
    BY <1>9
  <2>2. MovedTo(s, i, j) \in Seq(Echo)
    BY <1>1, <1>2, MovedSteps
  <2> QED BY <2>1, <2>2
<1> QED BY <1>5, <1>6, <1>7, <1>8, <1>9

(* Its steps are numbered by their places, and the results are those that were
   there. *)
LEMMA RestructuredPlan ==
  ASSUME plan \in Plan, NEW p \in Restructurings
  PROVE  /\ p \in Plan /\ p.status = plan.status /\ p.current = plan.current
         /\ \A i \in DOMAIN p.steps :
              /\ p.steps[i].number = i
              /\ p.steps[i].status = "pending" \/ \E j \in DOMAIN plan.steps : plan.steps[j].status = p.steps[i].status
<1>1. PICK u \in Seq(Echo) : p = WithSteps(Renumbered(u))
  BY RestructuredSteps
<1>2. \A i \in DOMAIN u : u[i] \in Echo
  BY ElementOfSeq
<1>3. u \in Seq(Step)
  <2>1. \A i \in DOMAIN u : u[i] \in Step
    BY <1>2 DEF Echo
  <2>2. DOMAIN u = 1..Len(u) /\ u = [i \in DOMAIN u |-> u[i]]
    BY LenProperties
  <2> QED BY <2>1, <2>2, StepsAreSeq
<1> DEFINE ss == Renumbered(u)
<1>4. /\ ss \in Seq(Step) /\ DOMAIN ss = DOMAIN u
      /\ \A i \in DOMAIN u : ss[i].number = i /\ ss[i].status = u[i].status
  BY <1>3, RenumberedSteps
<1> HIDE DEF ss
<1>5. p \in Plan /\ p.status = plan.status /\ p.current = plan.current /\ p.steps = ss
  BY <1>1, <1>4, WithStepsPlan DEF ss
<1>6. \A i \in DOMAIN u :
        u[i].status = "pending" \/ \E j \in DOMAIN plan.steps : plan.steps[j].status = u[i].status
  BY <1>2 DEF Echo
<1> QED BY <1>4, <1>5, <1>6

-----------------------------------------------------------------------------
(* Where an executor that is not idle may be. *)
Fit(x) ==
  /\ x \in Executor
  /\ x.pc # "idle" /\ x.i # 0
  /\ x.pc \in {"asked", "running", "recording", "failing"} => x.i <= Len(x.walk)
  /\ x.pc \in {"asked", "running", "recording"} => x.task \in Tasks

(* An idle executor is a record of the right type. *)
LEMMA IdleFits == Idle \in Executor /\ Idle.pc = "idle"
<1>1. <<>> \in Seq(Walked)
  OBVIOUS
<1> QED BY <1>1 DEF Idle, Executor, Pc, Option

(* So are a missing plan and a missing edit. *)
LEMMA NoPlanFits == NoPlan \in Plan /\ NoEdit \in Edit
<1>1. <<>> \in Seq(Step)
  OBVIOUS
<1>2. NoPlan \in Plan
  BY <1>1 DEF NoPlan, Plan
<1> QED BY <1>2 DEF NoEdit, Edit

(* Going to another place keeps the rest. *)
LEMMA WithPc ==
  ASSUME NEW x \in Executor, NEW c \in Pc
  PROVE  /\ [x EXCEPT !.pc = c] \in Executor /\ [x EXCEPT !.pc = c].pc = c
         /\ [x EXCEPT !.pc = c].walk = x.walk /\ [x EXCEPT !.pc = c].i = x.i
         /\ [x EXCEPT !.pc = c].task = x.task /\ [x EXCEPT !.pc = c].ok = x.ok
BY DEF Executor

(* So does going on to another step, or to another attempt. *)
Onward(x, n, k) == [x EXCEPT !.pc = "walking", !.i = n, !.retries = k]

(* It leads to a fit place. *)
LEMMA OnwardFits ==
  ASSUME NEW x \in Executor, NEW n \in Nat \ {0}, NEW k \in Nat
  PROVE  Fit(Onward(x, n, k)) /\ Onward(x, n, k).pc = "walking"
<1> DEFINE a == [x EXCEPT !.pc = "walking"]
           b == [a EXCEPT !.i = n]
           y == [b EXCEPT !.retries = k]
<1>1. a \in Executor /\ a.pc = "walking" /\ a.walk = x.walk
  BY DEF Executor, Pc
<1> HIDE DEF a
<1>2. b \in Executor /\ b.pc = "walking" /\ b.walk = x.walk /\ b.i = n
  BY <1>1 DEF Executor
<1> HIDE DEF b
<1>3. y \in Executor /\ y.pc = "walking" /\ y.walk = x.walk /\ y.i = n
  BY <1>2 DEF Executor
<1>4. Onward(x, n, k) = y
  BY DEF a, b, Onward
<1> HIDE DEF y
<1> QED BY <1>3, <1>4 DEF Fit

(* Another attempt is at the same step. *)
LEMMA OnwardSame ==
  ASSUME NEW x \in Executor, NEW k
  PROVE  Onward(x, x.i, k) = [x EXCEPT !.pc = "walking", !.retries = k]
<1>1. [[x EXCEPT !.pc = "walking"] EXCEPT !.i = x.i] = [x EXCEPT !.pc = "walking"]
  BY DEF Executor
<1> QED BY <1>1 DEF Onward

(* What follows a failure or a success is walking, failing or leaving. *)
LEMMA AfterFits ==
  ASSUME NEW x, Fit(x), x.i <= Len(x.walk)
  PROVE  /\ Fit(AfterFailure(x)) /\ AfterFailure(x).pc \in {"walking", "failing"}
         /\ Fit(AfterSuccess(x)) /\ AfterSuccess(x).pc \in {"walking", "leaving"}
<1>1. x \in Executor /\ x.i \in Nat \ {0} /\ x.i + 1 \in Nat \ {0} /\ x.retries + 1 \in Nat
  BY DEF Fit, Executor
<1>2. Fit(Onward(x, x.i + 1, 0)) /\ Onward(x, x.i + 1, 0).pc = "walking"
  <2> DEFINE n == x.i + 1
             k == 0
  <2>1. x \in Executor /\ n \in Nat \ {0} /\ k \in Nat
    BY <1>1
  <2> HIDE DEF n, k
  <2>2. Fit(Onward(x, n, k)) /\ Onward(x, n, k).pc = "walking"
    BY <2>1, OnwardFits
  <2> QED BY <2>2 DEF n, k
<1>3. /\ Fit(Onward(x, x.i, x.retries + 1)) /\ Onward(x, x.i, x.retries + 1).pc = "walking"
      /\ Onward(x, x.i, x.retries + 1) = [x EXCEPT !.pc = "walking", !.retries = x.retries + 1]
  <2> DEFINE n == x.i
             k == x.retries + 1
  <2>1. x \in Executor /\ n \in Nat \ {0} /\ k \in Nat
    BY <1>1
  <2>2. Onward(x, x.i, k) = [x EXCEPT !.pc = "walking", !.retries = k]
    <3> HIDE DEF n, k
    <3> QED BY <2>1, OnwardSame
  <2> HIDE DEF n, k
  <2>3. Fit(Onward(x, n, k)) /\ Onward(x, n, k).pc = "walking"
    BY <2>1, OnwardFits
  <2> QED BY <2>2, <2>3 DEF n, k
<1>4. ASSUME NEW c \in {"failing", "leaving"}
      PROVE  Fit([x EXCEPT !.pc = c]) /\ [x EXCEPT !.pc = c].pc = c
  <2> DEFINE v == [x EXCEPT !.pc = c]
  <2>1. c \in Pc
    BY DEF Pc
  <2>2. v \in Executor /\ v.pc = c /\ v.i = x.i /\ v.walk = x.walk
    BY <1>1, <2>1, WithPc
  <2> HIDE DEF v
  <2>3. Fit(v)
    BY <1>1, <2>2 DEF Fit
  <2> QED BY <2>2, <2>3 DEF v
<1>5. \/ AfterFailure(x) = Onward(x, x.i + 1, 0)
      \/ AfterFailure(x) = [x EXCEPT !.pc = "walking", !.retries = x.retries + 1]
      \/ AfterFailure(x) = [x EXCEPT !.pc = "failing"]
  BY DEF AfterFailure, Onward
<1>6. AfterSuccess(x) = Onward(x, x.i + 1, 0) \/ AfterSuccess(x) = [x EXCEPT !.pc = "leaving"]
  BY DEF AfterSuccess, Onward
<1> QED BY <1>2, <1>3, <1>4, <1>5, <1>6

(* Types are kept by whatever releases the lock or goes to a fit place. *)
LEMMA MoveKeeps ==
  ASSUME PlanTypeOK, NEW e \in Executors, executors[e] # Idle,
         \/ Leave(e)
         \/ \E x : Fit(x) /\ Goes(e, x) /\ UNCHANGED executing
  PROVE  executors' \in [Executors -> Executor] /\ executing' \in BOOLEAN /\ LockOK' /\ WalkOK'
<1>1. executors \in [Executors -> Executor] /\ executing = TRUE /\ LockOK /\ WalkOK
  BY DEF PlanTypeOK, LockOK
<1>2. \A f \in Executors \ {e} : executors[f] = Idle
  BY <1>1 DEF LockOK
<1>3. CASE Leave(e)
  <2>1. executors' = [executors EXCEPT ![e] = Idle] /\ executing' = FALSE
    BY <1>3 DEF Leave, Goes
  <2>2. \A f \in Executors : executors'[f] = Idle
    BY <1>1, <1>2, <2>1
  <2>3. Idle \in Executor /\ Idle.pc = "idle"
    BY IdleFits
  <2>4. executors' \in [Executors -> Executor]
    BY <1>1, <2>1, <2>3
  <2> QED BY <2>1, <2>2, <2>3, <2>4 DEF LockOK, WalkOK
<1>4. CASE \E x : Fit(x) /\ Goes(e, x) /\ UNCHANGED executing
  <2>1. PICK x : Fit(x) /\ executors' = [executors EXCEPT ![e] = x] /\ executing' = executing
    BY <1>4 DEF Goes
  <2>2. x \in Executor /\ x # Idle
    BY <2>1 DEF Fit, Idle
  <2>3. executors' \in [Executors -> Executor]
    BY <1>1, <2>1, <2>2
  <2>4. executors'[e] = x /\ \A f \in Executors \ {e} : executors'[f] = Idle
    BY <1>1, <1>2, <2>1
  <2>5. LockOK'
    BY <1>1, <2>1, <2>2, <2>4 DEF LockOK
  <2>6. WalkOK'
    <3> SUFFICES ASSUME NEW f \in Executors
                 PROVE  LET y == executors'[f]
                        IN /\ y.pc = "idle" => y = Idle
                           /\ y.pc # "idle" => y.i # 0
                           /\ y.pc \in {"asked", "running", "recording", "failing"} => y.i <= Len(y.walk)
                           /\ y.pc \in {"asked", "running", "recording"} => y.task \in Tasks
      BY DEF WalkOK
    <3>1. CASE f = e
      BY <2>1, <2>4, <3>1 DEF Fit
    <3>2. CASE f # e
      BY <2>4, <3>2 DEF Idle
    <3> QED BY <3>1, <3>2
  <2> QED BY <1>1, <2>1, <2>3, <2>5, <2>6
<1> QED BY <1>3, <1>4

(* A plan that exists, as a record of its own. *)
Exists(p) == p \in Plan /\ p.status # "absent"

(* Changing the status or the current step keeps the steps. *)
LEMMA StatusSet ==
  ASSUME NEW p \in Plan, NEW st \in PlanStatus, NEW c \in Nat
  PROVE  LET q == [Resaved(p) EXCEPT !.status = st]
             r == [Resaved(p) EXCEPT !.status = st, !.current = c]
         IN Exists(q) /\ q.steps = Resaved(p).steps /\ Exists(r) /\ r.steps = Resaved(p).steps
<1> DEFINE a == Resaved(p)
           q == [a EXCEPT !.status = st]
           r == [q EXCEPT !.current = c]
<1>1. a \in Plan
  BY ResavedPlan
<1>2. st # "absent"
  BY DEF PlanStatus
<1> HIDE DEF a
<1>3. q \in Plan /\ q.status = st /\ q.steps = a.steps
  BY <1>1 DEF Plan
<1> HIDE DEF q
<1>4. r \in Plan /\ r.status = st /\ r.steps = a.steps
  BY <1>3 DEF Plan
<1> QED BY <1>2, <1>3, <1>4 DEF a, q, Exists

(* An update of the plan or of one step leaves a plan that exists. *)
LEMMA UpdateKeeps ==
  ASSUME PlanTypeOK
  PROVE  /\ \A n, st : UpdateStep(n, st) /\ st \in StepStatus => Exists(plan')
         /\ \A st \in PlanStatus : UpdatePlan(st) => Exists(plan')
<1>1. plan \in Plan /\ (plan.status = "absent" => plan = NoPlan)
  BY DEF PlanTypeOK
<1>2. ASSUME NEW n, NEW st \in StepStatus, UpdateStep(n, st)
      PROVE  Exists(plan')
  <2>1. PICK k \in DOMAIN plan.steps : plan' = WithStep(plan, k, st)
    BY <1>2 DEF UpdateStep
  <2>2. plan.status # "absent"
    BY <1>1, <2>1 DEF NoPlan
  <2> QED BY <1>1, <2>1, <2>2, UpdatedPlan DEF Exists
<1>3. ASSUME NEW st \in PlanStatus, UpdatePlan(st)
      PROVE  Exists(plan')
  <2>1. 0 \in Nat
    OBVIOUS
  <2>2. Exists([Resaved(plan) EXCEPT !.status = st])
    BY <1>1, <2>1, StatusSet
  <2> QED BY <1>3, <2>2 DEF UpdatePlan
<1> QED BY <1>2, <1>3

(* A step of an executor moves that executor, and writes the plan or does not. *)
LEMMA ExecutorMoves ==
  ASSUME PlanTypeOK, NEW e \in Executors, ExecutorStep(e)
  PROVE  /\ executors[e] # Idle
         /\ \/ Leave(e)
            \/ \E x : Fit(x) /\ Goes(e, x) /\ UNCHANGED executing
         /\ plan' = plan \/ Exists(plan')
         /\ ran' \subseteq Tasks
         /\ UNCHANGED <<edit, resuming, crashes, commands, disturbed>>
<1> DEFINE x == executors[e]
           Moves == Leave(e) \/ \E y : Fit(y) /\ Goes(e, y) /\ UNCHANGED executing
           Rest == UNCHANGED <<edit, resuming, crashes, commands, disturbed>>
<1> SUFFICES x # Idle /\ Moves /\ (plan' = plan \/ Exists(plan')) /\ ran' \subseteq Tasks /\ Rest
  OBVIOUS
<1>1. x \in Executor /\ ran \subseteq Tasks
  BY DEF PlanTypeOK
<1>2. x.pc # "idle" => Fit(x) /\ x # Idle
  BY <1>1 DEF PlanTypeOK, WalkOK, Fit, Idle
<1>3. ASSUME NEW c \in Pc \ {"idle"}, Fit(x),
             c \in {"asked", "running", "recording", "failing"} => x.i <= Len(x.walk),
             c \in {"asked", "running", "recording"} => x.task \in Tasks
      PROVE  Fit([x EXCEPT !.pc = c])
  <2> DEFINE v == [x EXCEPT !.pc = c]
  <2>1. v \in Executor /\ v.pc = c /\ v.i = x.i /\ v.walk = x.walk /\ v.task = x.task
    BY <1>1, WithPc
  <2> HIDE DEF v, x
  <2>2. Fit(v)
    BY <1>3, <2>1 DEF Fit
  <2> QED BY <2>2 DEF v
<1>4. "skipped" \in StepStatus /\ "running" \in StepStatus /\ "completed" \in StepStatus /\ "failed" \in StepStatus
  BY DEF StepStatus
<1> HIDE DEF x
<1>5. ASSUME NEW st \in StepStatus, NEW y, Fit(y), StepUpdate(e, st, y), x.pc # "idle"
      PROVE  Moves /\ (plan' = plan \/ Exists(plan'))
  BY <1>4, <1>5, UpdateKeeps DEF StepUpdate
<1>6. ASSUME NEW st \in PlanStatus, NEW c \in {"walking", "leaving"}, Updates(e, st, c), x.pc # "idle"
      PROVE  x # Idle /\ Moves /\ (plan' = plan \/ Exists(plan')) /\ ran' \subseteq Tasks /\ Rest
  <2>1. c \in Pc \ {"idle"} /\ c \notin {"asked", "running", "recording", "failing"}
    BY DEF Pc
  <2>2. Fit([x EXCEPT !.pc = c])
    BY <1>2, <1>3, <1>6, <2>1
  <2>3. Moves /\ (plan' = plan \/ Exists(plan'))
    BY <1>6, <2>2, UpdateKeeps DEF Updates, x
  <2> QED BY <1>1, <1>2, <1>6, <2>3 DEF Updates, user
<1>7. "running" \in PlanStatus /\ "completed" \in PlanStatus /\ "failed" \in PlanStatus
  BY DEF PlanStatus
<1>8. CASE MarkPlanRunning(e)
  BY <1>6, <1>7, <1>8 DEF MarkPlanRunning, At, x
<1>9. CASE MarkPlanCompleted(e)
  BY <1>6, <1>7, <1>9 DEF MarkPlanCompleted, At, x
<1>10. CASE MarkPlanFailed(e)
  BY <1>6, <1>7, <1>10 DEF MarkPlanFailed, At, x
<1>11. CASE PassOver(e)
  <2>1. x.pc = "walking" /\ Fit(x)
    BY <1>2, <1>11 DEF PassOver, At, x
  <2>2. /\ \/ x.i > Len(x.walk) /\ Goes(e, [x EXCEPT !.pc = "finishing"])
           \/ x.i <= Len(x.walk) /\ Goes(e, [x EXCEPT !.i = x.i + 1])
        /\ UNCHANGED <<plan, executing, ran>> /\ Rest
    BY <1>11 DEF PassOver, user, x
  <2>3. Fit([x EXCEPT !.pc = "finishing"])
    BY <1>3, <2>1 DEF Pc
  <2>4. Fit([x EXCEPT !.i = x.i + 1])
    <3> DEFINE n == x.i + 1
               v == [x EXCEPT !.i = n]
    <3>1. n \in Nat \ {0}
      BY <1>1 DEF Executor
    <3> HIDE DEF n
    <3>2. v \in Executor /\ v.pc = "walking" /\ v.i = n
      BY <1>1, <2>1, <3>1 DEF Executor
    <3> HIDE DEF v
    <3>3. Fit(v)
      BY <3>1, <3>2 DEF Fit
    <3> QED BY <3>3 DEF v, n
  <2> QED BY <1>1, <1>2, <2>1, <2>2, <2>3, <2>4
<1>12. CASE ReadStep(e)
  <2>1. x.pc = "walking" /\ Fit(x) /\ x.i <= Len(x.walk)
    BY <1>2, <1>12 DEF ReadStep, At, x
  <2>2. /\ \/ Leave(e)
           \/ Goes(e, AfterFailure(x)) /\ UNCHANGED executing
           \/ \E k \in DOMAIN plan.steps :
                Goes(e, [x EXCEPT !.pc = "asked", !.task = plan.steps[k].task]) /\ UNCHANGED executing
        /\ UNCHANGED <<plan, ran>> /\ Rest
    BY <1>12 DEF ReadStep, user, x
  <2>3. Fit(AfterFailure(x))
    BY <2>1, AfterFits
  <2>4. ASSUME NEW k \in DOMAIN plan.steps
        PROVE  Fit([x EXCEPT !.pc = "asked", !.task = plan.steps[k].task])
    <3>1. plan.steps \in Seq(Step)
      BY DEF PlanTypeOK, Plan
    <3>2. plan.steps[k] \in Step
      BY <3>1, ElementOfSeq
    <3> DEFINE t == plan.steps[k].task
               a == [x EXCEPT !.pc = "asked"]
               v == [a EXCEPT !.task = t]
    <3>3. t \in Tasks
      BY <3>2 DEF Step
    <3> HIDE DEF t
    <3>4. a \in Executor /\ a.pc = "asked" /\ a.i = x.i /\ a.walk = x.walk
      BY <1>1, WithPc DEF Pc
    <3> HIDE DEF a
    <3>5. v \in Executor /\ v.pc = "asked" /\ v.i = x.i /\ v.walk = x.walk /\ v.task = t
      BY <3>3, <3>4 DEF Executor
    <3> HIDE DEF v
    <3>6. Fit(v)
      BY <2>1, <3>3, <3>5 DEF Fit
    <3> QED BY <3>6 DEF v, a, t
  <2> QED BY <1>1, <1>2, <2>1, <2>2, <2>3, <2>4
<1>13. CASE StepRefused(e)
  <2>1. x.pc = "asked" /\ Fit(x) /\ x.i <= Len(x.walk) /\ x.task \in Tasks
    BY <1>2, <1>13 DEF StepRefused, At, Fit, x
  <2>2. Fit(AfterSuccess(x)) /\ StepUpdate(e, "skipped", AfterSuccess(x)) /\ ran' = ran /\ Rest
    BY <1>13, <2>1, AfterFits DEF StepRefused, user, x
  <2> QED BY <1>1, <1>2, <1>4, <1>5, <2>1, <2>2
<1>14. CASE MarkStepRunning(e)
  <2>1. x.pc = "asked" /\ Fit(x) /\ x.i <= Len(x.walk) /\ x.task \in Tasks
    BY <1>2, <1>14 DEF MarkStepRunning, At, Fit, x
  <2>2. StepUpdate(e, "running", [x EXCEPT !.pc = "running"]) /\ ran' = ran /\ Rest
    BY <1>14 DEF MarkStepRunning, user, x
  <2>3. Fit([x EXCEPT !.pc = "running"])
    BY <1>3, <2>1 DEF Pc
  <2> QED BY <1>1, <1>2, <1>4, <1>5, <2>1, <2>2, <2>3
<1>15. CASE \E ok \in BOOLEAN : HandlerEnds(e, ok)
  <2>1. PICK ok \in BOOLEAN : HandlerEnds(e, ok)
    BY <1>15
  <2>2. x.pc = "running" /\ Fit(x) /\ x.i <= Len(x.walk) /\ x.task \in Tasks
    BY <1>2, <2>1 DEF HandlerEnds, At, Fit, x
  <2>3. /\ Goes(e, [x EXCEPT !.pc = "recording", !.ok = ok])
        /\ ran' = (IF ok THEN ran \cup {x.task} ELSE ran)
        /\ UNCHANGED <<plan, executing>> /\ Rest
    BY <2>1 DEF HandlerEnds, user, x
  <2>4. Fit([x EXCEPT !.pc = "recording", !.ok = ok])
    <3> DEFINE a == [x EXCEPT !.pc = "recording"]
               v == [a EXCEPT !.ok = ok]
    <3>1. a \in Executor /\ a.pc = "recording" /\ a.i = x.i /\ a.walk = x.walk /\ a.task = x.task
      BY <1>1, WithPc DEF Pc
    <3> HIDE DEF a
    <3>2. v \in Executor /\ v.pc = "recording" /\ v.i = x.i /\ v.walk = x.walk /\ v.task = x.task
      BY <3>1 DEF Executor
    <3> HIDE DEF v
    <3>3. Fit(v)
      BY <2>2, <3>2 DEF Fit
    <3> QED BY <3>3 DEF v, a
  <2> QED BY <1>1, <1>2, <2>2, <2>3, <2>4
<1>16. CASE RecordSuccess(e)
  <2>1. x.pc = "recording" /\ Fit(x) /\ x.i <= Len(x.walk)
    BY <1>2, <1>16 DEF RecordSuccess, At, Fit, x
  <2>2. /\ UpdateStep(x.i, "completed") /\ Goes(e, AfterSuccess(x))
        /\ UNCHANGED <<executing, ran>> /\ Rest
    BY <1>16 DEF RecordSuccess, user, x
  <2>3. Fit(AfterSuccess(x)) /\ Exists(plan')
    BY <1>4, <2>1, <2>2, AfterFits, UpdateKeeps
  <2> QED BY <1>1, <1>2, <2>1, <2>2, <2>3
<1>17. CASE RecordSuccessThrows(e)
  <2>1. x.pc = "recording" /\ Fit(x)
    BY <1>2, <1>17 DEF RecordSuccessThrows, At, x
  <2>2. Goes(e, [x EXCEPT !.ok = FALSE]) /\ UNCHANGED <<plan, executing, ran>> /\ Rest
    BY <1>17 DEF RecordSuccessThrows, user, x
  <2> DEFINE v == [x EXCEPT !.ok = FALSE]
  <2>3. v \in Executor /\ v.pc = x.pc /\ v.i = x.i /\ v.walk = x.walk /\ v.task = x.task
    BY <1>1 DEF Executor
  <2> HIDE DEF v
  <2>4. Fit(v)
    BY <2>1, <2>3 DEF Fit
  <2> QED BY <1>1, <1>2, <2>1, <2>2, <2>4 DEF v
<1>18. CASE RecordFailure(e)
  <2>1. x.pc = "recording" /\ Fit(x) /\ x.i <= Len(x.walk)
    BY <1>2, <1>18 DEF RecordFailure, At, Fit, x
  <2>2. Fit(AfterFailure(x)) /\ StepUpdate(e, "failed", AfterFailure(x)) /\ ran' = ran /\ Rest
    BY <1>18, <2>1, AfterFits DEF RecordFailure, user, x
  <2> QED BY <1>1, <1>2, <1>4, <1>5, <2>1, <2>2
<1>19. CASE Release(e)
  BY <1>1, <1>2, <1>19 DEF Release, At, user, x
<1> QED
  BY <1>8, <1>9, <1>10, <1>11, <1>12, <1>13, <1>14, <1>15, <1>16, <1>17, <1>18, <1>19 DEF ExecutorStep

-----------------------------------------------------------------------------
(* What a step of the system may do to the plan. *)
LEMMA PlanChanges ==
  ASSUME PlanTypeOK, PlanNext
  PROVE  plan' = plan \/ plan' = NoPlan \/ Exists(plan')
<1>1. plan \in Plan /\ edit.saves \in Plan /\ (edit # NoEdit => edit.saves.status # "absent")
  BY DEF PlanTypeOK, Edit
<1>2. CASE \E e \in Executors : ExecutorStep(e)
  BY <1>2, ExecutorMoves
<1>3. CASE \E e \in Executors, o \in Options : Execute(e, o)
  BY <1>3 DEF Execute
<1>4. CASE Pause \/ Cancel
  BY <1>4, UpdateKeeps DEF Pause, Cancel, PlanStatus
<1>5. CASE \/ ResumeReads \/ Delete \/ Crash
           \/ \E p \in Rewordings : EditReads(p, FALSE)
           \/ \E p \in Restructurings : EditReads(p, TRUE)
  BY <1>5 DEF ResumeReads, Delete, EditReads, Crash
<1>6. CASE ResumeWrites
  <2>1. "running" \in PlanStatus /\ resuming.current \in Nat
    BY DEF PlanStatus, PlanTypeOK
  <2>2. Exists([Resaved(plan) EXCEPT !.status = "running", !.current = resuming.current])
    BY <1>1, <2>1, StatusSet
  <2> QED BY <1>6, <2>2 DEF ResumeWrites
<1>7. CASE \E c \in Contents : Create(c)
  BY <1>7, CreatedPlan DEF Create, Exists
<1>8. CASE \E i \in DOMAIN plan.steps : SkipStep(plan.steps[i].number)
  <2>1. "skipped" \in StepStatus
    BY DEF StepStatus
  <2> QED BY <1>8, <2>1, UpdateKeeps DEF SkipStep
<1>9. CASE EditSaves
  BY <1>1, <1>9 DEF EditSaves, Exists
<1> QED BY <1>2, <1>3, <1>4, <1>5, <1>6, <1>7, <1>8, <1>9 DEF PlanNext

(* What it may do to the executors and the lock. *)
LEMMA ExecutorsKeep ==
  ASSUME PlanTypeOK, PlanNext
  PROVE  executors' \in [Executors -> Executor] /\ executing' \in BOOLEAN /\ LockOK' /\ WalkOK'
<1>1. executors \in [Executors -> Executor] /\ executing \in BOOLEAN /\ LockOK /\ WalkOK
  BY DEF PlanTypeOK
<1>2. CASE \E e \in Executors : ExecutorStep(e)
  BY <1>2, ExecutorMoves, MoveKeeps
<1>3. CASE \E e \in Executors, o \in Options : Execute(e, o)
  <2>1. PICK e \in Executors, o \in Options : Execute(e, o)
    BY <1>3
  <2> DEFINE c == IF plan.status = "completed" THEN "leaving" ELSE "opening"
             w == Walk(plan)
             n == IF o.from # 0 THEN o.from ELSE IF plan.current = 0 THEN 1 ELSE plan.current
             x == [Idle EXCEPT !.pc = c, !.walk = w, !.i = n, !.opts = o]
  <2>2. ~executing /\ executing' = TRUE /\ executors' = [executors EXCEPT ![e] = x]
    BY <2>1 DEF Execute, Goes
  <2>3. w \in Seq(Walked)
    <3> DEFINE f == [i \in DOMAIN plan.steps |-> [settled  |-> plan.steps[i].status \in {"completed", "skipped"},
                                                  optional |-> plan.steps[i].marked]]
    <3>1. plan.steps \in Seq(Step)
      BY DEF PlanTypeOK, Plan
    <3>2. \A i \in DOMAIN plan.steps : plan.steps[i] \in Step
      BY <3>1, ElementOfSeq
    <3>3. \A i \in DOMAIN plan.steps : f[i] \in Walked
      BY <3>2 DEF Walked, Step
    <3>4. DOMAIN f = DOMAIN plan.steps /\ f = [i \in DOMAIN plan.steps |-> f[i]] /\ w = f
      BY DEF Walk
    <3> HIDE DEF f
    <3> QED BY <3>1, <3>3, <3>4, StepsAreSeq, ZenonT(30)
  <2>4. n \in Nat /\ n # 0 /\ o \in Option /\ c \in {"leaving", "opening"}
    BY PlanConfig DEF PlanTypeOK, Plan, Option
  <2> HIDE DEF c, w, n
  <2>5. x \in Executor /\ x.pc = c /\ x.i = n
    <3> DEFINE a == [Idle EXCEPT !.pc = c]
               b == [a EXCEPT !.walk = w]
               d == [b EXCEPT !.i = n]
               y == [d EXCEPT !.opts = o]
    <3>1. Idle \in Executor
      BY IdleFits
    <3>2. a \in Executor /\ a.pc = c
      BY <2>4, <3>1 DEF Executor, Pc
    <3> HIDE DEF a
    <3>3. b \in Executor /\ b.pc = c
      BY <2>3, <3>2 DEF Executor
    <3> HIDE DEF b
    <3>4. d \in Executor /\ d.pc = c /\ d.i = n
      BY <2>4, <3>3 DEF Executor
    <3> HIDE DEF d
    <3>5. y \in Executor /\ y.pc = c /\ y.i = n
      BY <2>4, <3>4 DEF Executor
    <3> QED BY <3>5 DEF a, b, d
  <2> HIDE DEF x
  <2>6. executors' \in [Executors -> Executor] /\ executors'[e] = x
        /\ \A f \in Executors \ {e} : executors'[f] = Idle
    BY <1>1, <2>2, <2>5 DEF LockOK
  <2>7. x # Idle
    BY <2>4, <2>5 DEF Idle
  <2>8. LockOK'
    BY <2>2, <2>6, <2>7 DEF LockOK
  <2>9. WalkOK'
    <3> SUFFICES ASSUME NEW f \in Executors
                 PROVE  LET y == executors'[f]
                        IN /\ y.pc = "idle" => y = Idle
                           /\ y.pc # "idle" => y.i # 0
                           /\ y.pc \in {"asked", "running", "recording", "failing"} => y.i <= Len(y.walk)
                           /\ y.pc \in {"asked", "running", "recording"} => y.task \in Tasks
      BY DEF WalkOK
    <3>1. CASE f = e
      BY <2>4, <2>5, <2>6, <3>1
    <3>2. CASE f # e
      BY <2>6, <3>2 DEF Idle
    <3> QED BY <3>1, <3>2
  <2> QED BY <2>2, <2>6, <2>8, <2>9
<1>4. CASE UNCHANGED <<executing, executors>>
  BY <1>1, <1>4 DEF LockOK, WalkOK
<1>5. CASE Crash
  <2>1. executing' = FALSE /\ executors' = [e \in Executors |-> Idle]
    BY <1>5 DEF Crash
  <2>2. Idle \in Executor /\ Idle.pc = "idle"
    BY IdleFits
  <2> QED BY <2>1, <2>2 DEF LockOK, WalkOK
<1> QED
  BY <1>2, <1>3, <1>4, <1>5 DEF PlanNext, Pause, Cancel, ResumeReads, ResumeWrites, Delete, Create,
                               SkipStep, EditReads, EditSaves, others

(* What it may do to an edit, a resume and the counters. *)
LEMMA RestKeeps ==
  ASSUME PlanTypeOK, PlanNext
  PROVE  /\ edit' \in Edit
         /\ edit' # NoEdit => edit'.saves.status # "absent"
         /\ resuming' \in [on : BOOLEAN, current : Nat]
         /\ commands' \in 0..MaxCommands /\ crashes' \in 0..MaxCrashes
         /\ ran' \subseteq Tasks
         /\ disturbed' \subseteq Disturbances
<1>1. /\ plan \in Plan /\ (plan.status = "absent" => plan = NoPlan)
      /\ edit \in Edit /\ (edit # NoEdit => edit.saves.status # "absent")
      /\ resuming \in [on : BOOLEAN, current : Nat]
      /\ commands \in 0..MaxCommands /\ crashes \in 0..MaxCrashes
      /\ ran \subseteq Tasks /\ disturbed \subseteq Disturbances
  BY DEF PlanTypeOK
<1>2. MaxCommands \in Nat /\ MaxCrashes \in Nat
  BY PlanConfig
<1>3. NoPlan \in Plan /\ NoEdit \in Edit /\ NoResume \in [on : BOOLEAN, current : Nat]
  BY NoPlanFits DEF NoResume
<1>4. /\ {"overwritten"} \subseteq Disturbances /\ {"restructured"} \subseteq Disturbances
      /\ {"jumped"} \subseteq Disturbances /\ {"crash"} \subseteq Disturbances
      /\ {"renumbered"} \subseteq Disturbances
      /\ \A p, q : Rewording(p, q) \subseteq Disturbances
      /\ \A c : Oddities(c) \subseteq Disturbances
  BY DEF Disturbances, Rewording, Oddities
<1>5. Command => commands' \in 0..MaxCommands
  BY <1>1, <1>2 DEF Command
<1>6. CASE \E e \in Executors : ExecutorStep(e)
  <2>1. ran' \subseteq Tasks /\ UNCHANGED <<edit, resuming, crashes, commands, disturbed>>
    BY <1>6, ExecutorMoves
  <2> QED BY <1>1, <2>1
<1>7. CASE \E e \in Executors, o \in Options : Execute(e, o)
  BY <1>1, <1>4, <1>5, <1>7 DEF Execute, user
<1>8. CASE Pause \/ Cancel \/ Delete \/ \E i \in DOMAIN plan.steps : SkipStep(plan.steps[i].number)
  BY <1>1, <1>5, <1>8 DEF Pause, Cancel, Delete, SkipStep, others
<1>9. CASE ResumeReads
  <2>1. plan.current \in Nat
    BY <1>1 DEF Plan
  <2> QED BY <1>1, <1>5, <1>9, <2>1 DEF ResumeReads, others
<1>10. CASE ResumeWrites
  BY <1>1, <1>3, <1>4, <1>10 DEF ResumeWrites, others
<1>11. CASE \E c \in Contents : Create(c)
  BY <1>1, <1>4, <1>5, <1>11 DEF Create, others
<1>12. CASE \/ \E p \in Rewordings : EditReads(p, FALSE)
            \/ \E p \in Restructurings : EditReads(p, TRUE)
  <2>1. PICK p : (p \in Rewordings \/ p \in Restructurings) /\ \E m \in BOOLEAN : EditReads(p, m)
    BY <1>12
  <2>6. PICK moves \in BOOLEAN : EditReads(p, moves)
    BY <2>1
  <2>2. p \in Plan /\ p.status = plan.status
    BY <1>1, <2>1, RewordedPlan, RestructuredPlan
  <2>3. plan.status # "absent"
    BY <1>1, <2>6 DEF EditReads
  <2>4. /\ edit' = [saves |-> p, base |-> plan, moves |-> moves] /\ Command
        /\ UNCHANGED <<resuming, crashes, ran, disturbed>>
    BY <2>6 DEF EditReads, others
  <2>5. edit' \in Edit /\ edit'.saves = p
    BY <1>1, <2>2, <2>4 DEF Edit
  <2> QED BY <1>1, <1>5, <2>2, <2>3, <2>4, <2>5
<1>13. CASE EditSaves
  BY <1>1, <1>3, <1>4, <1>13 DEF EditSaves, others
<1>14. CASE Crash
  BY <1>1, <1>2, <1>3, <1>4, <1>14 DEF Crash
<1> QED BY <1>6, <1>7, <1>8, <1>9, <1>10, <1>11, <1>12, <1>13, <1>14 DEF PlanNext

(* Types: among them, the plan is in executingPlans exactly while one call is at
   work on it, and a call is at a step of the snapshot it has read. *)
THEOREM PlanTypes == PlanSpec => []PlanTypeOK
<1>1. PlanInit => PlanTypeOK
  <2> SUFFICES ASSUME PlanInit
               PROVE  PlanTypeOK
    OBVIOUS
  <2>1. executors = [e \in Executors |-> Idle] /\ executing = FALSE
    BY DEF PlanInit
  <2>2. executors \in [Executors -> Executor] /\ LockOK /\ WalkOK
    BY <2>1, IdleFits DEF LockOK, WalkOK
  <2>3. edit = NoEdit /\ resuming = NoResume /\ commands = 0 /\ crashes = 0 /\ ran = {}
    BY DEF PlanInit
  <2>4. resuming \in [on : BOOLEAN, current : Nat] /\ commands \in 0..MaxCommands /\ crashes \in 0..MaxCrashes
    BY <2>3, PlanConfig DEF NoResume
  <2>5. PICK c \in Contents : plan = Created(c) /\ disturbed = Oddities(c)
    BY DEF PlanInit
  <2>6. /\ plan \in Plan /\ plan.status # "absent" /\ edit \in Edit
        /\ ran \subseteq Tasks /\ disturbed \subseteq Disturbances
    BY <2>3, <2>5, CreatedPlan, NoPlanFits DEF Oddities, Disturbances
  <2> QED BY <2>1, <2>2, <2>3, <2>4, <2>6 DEF PlanTypeOK
<1>2. PlanTypeOK /\ [PlanNext]_vars => PlanTypeOK'
  <2> SUFFICES ASSUME PlanTypeOK, [PlanNext]_vars
               PROVE  PlanTypeOK'
    OBVIOUS
  <2>1. CASE PlanNext
    <3>1. plan' \in Plan /\ (plan'.status = "absent" => plan' = NoPlan)
      BY <2>1, NoPlanFits, PlanChanges DEF PlanTypeOK, Exists
    <3> QED BY <2>1, <3>1, ExecutorsKeep, RestKeeps DEF PlanTypeOK
  <2>2. CASE UNCHANGED vars
    BY <2>2 DEF vars, PlanTypeOK, LockOK, WalkOK
  <2> QED BY <2>1, <2>2
<1> QED BY <1>1, <1>2, PTL DEF PlanSpec

-----------------------------------------------------------------------------
(* Plans whose completed steps are backed by a success of their own tasks. *)
Backed(p, R) == \A i \in DOMAIN p.steps : p.steps[i].status = "completed" => p.steps[i].task \in R

AtStep == {"asked", "running", "recording"}

\* A call at work on a step has the task of the step its number stands for in hand, ...
Tracks(x, p) == x.pc \in AtStep => \A k \in DOMAIN p.steps : Finds(p.steps, x.i, k) => p.steps[k].task = x.task

\* ... and the success it is about to record is one of that task.
Earned(x, R) == x.pc = "recording" /\ x.ok => x.task \in R

SoundParts ==
  /\ Backed(plan, ran) /\ Backed(edit.base, ran)
  /\ \A e \in Executors : Tracks(executors[e], plan) /\ Earned(executors[e], ran)

SoundInv == Calm({"premarked", "reworded"}) => SoundParts

(* What a plan says has been done is what has to be backed. *)
LEMMA DoneBacked ==
  ASSUME NEW p, NEW R
  PROVE  Done(p) \subseteq R <=> Backed(p, R)
<1>1. ASSUME Done(p) \subseteq R
      PROVE  Backed(p, R)
  BY <1>1 DEF Done, Backed
<1>2. ASSUME Backed(p, R)
      PROVE  Done(p) \subseteq R
  BY <1>2 DEF Done, Backed
<1> QED BY <1>1, <1>2

SameNamed(p, q) ==
  /\ DOMAIN q.steps = DOMAIN p.steps
  /\ \A j \in DOMAIN p.steps : q.steps[j].number = p.steps[j].number /\ q.steps[j].task = p.steps[j].task

(* Where the numbers stay, they stand for the same places. *)
LEMMA SameFinds ==
  ASSUME NEW s \in Seq(Step), NEW t, DOMAIN t = DOMAIN s,
         \A j \in DOMAIN s : t[j].number = s[j].number, NEW n, NEW k \in DOMAIN s
  PROVE  Finds(t, n, k) <=> Finds(s, n, k)
<1>1. Len(s) \in Nat /\ DOMAIN s = 1..Len(s)
  BY LenProperties
<1>2. \A j \in 1..(k - 1) : j \in DOMAIN s
  BY <1>1
<1> QED BY <1>2 DEF Finds

(* A number is found at one place only. *)
LEMMA FindsOnce ==
  ASSUME NEW s \in Seq(Step), NEW n, NEW k, NEW j, Finds(s, n, k), Finds(s, n, j)
  PROVE  k = j
<1>1. Len(s) \in Nat /\ DOMAIN s = 1..Len(s)
  BY LenProperties
<1>2. k \in 1..Len(s) /\ j \in 1..Len(s)
  BY <1>1 DEF Finds
<1>3. ~(k < j) /\ ~(j < k)
  BY <1>1, <1>2 DEF Finds
<1> QED BY <1>1, <1>2, <1>3

(* A result is sound if a completion is one of the step it is written to. *)
LEMMA UpdateSound ==
  ASSUME PlanTypeOK, NEW R, Backed(plan, R),
         NEW n, NEW st \in StepStatus, UpdateStep(n, st),
         st = "completed" => \A k \in DOMAIN plan.steps : Finds(plan.steps, n, k) => plan.steps[k].task \in R
  PROVE  Backed(plan', R) /\ SameNamed(plan, plan')
<1>1. PICK i \in DOMAIN plan.steps : Finds(plan.steps, n, i) /\ plan' = WithStep(plan, i, st)
  BY DEF UpdateStep
<1>2. plan \in Plan /\ plan.status # "absent"
  BY <1>1 DEF PlanTypeOK, NoPlan
<1> DEFINE q == WithStep(plan, i, st)
<1>3. /\ DOMAIN q.steps = DOMAIN plan.steps
      /\ \A j \in DOMAIN plan.steps :
           /\ q.steps[j].number = plan.steps[j].number
           /\ q.steps[j].task = plan.steps[j].task
           /\ q.steps[j].status = IF j = i THEN st ELSE plan.steps[j].status
  BY <1>1, <1>2, UpdatedPlan
<1> HIDE DEF q
<1>4. Backed(q, R)
  BY <1>1, <1>3 DEF Backed
<1>5. SameNamed(plan, q)
  BY <1>3 DEF SameNamed
<1>6. plan' = q
  BY <1>1 DEF q
<1> QED BY <1>4, <1>5, <1>6

(* Writing the plan back with another status or current step keeps it sound. *)
LEMMA ResavedSound ==
  ASSUME PlanTypeOK, NEW R, Backed(plan, R), plan'.steps = Resaved(plan).steps
  PROVE  Backed(plan', R) /\ SameNamed(plan, plan')
<1>1. plan \in Plan
  BY DEF PlanTypeOK
<1> QED BY <1>1, ResavedPlan DEF Backed, SameNamed

(* So does an update of its status. *)
LEMMA StatusSound ==
  ASSUME PlanTypeOK, NEW R, Backed(plan, R), NEW st \in PlanStatus, UpdatePlan(st)
  PROVE  Backed(plan', R) /\ SameNamed(plan, plan')
<1>1. plan \in Plan /\ 0 \in Nat /\ plan' = [Resaved(plan) EXCEPT !.status = st]
  BY DEF PlanTypeOK, UpdatePlan
<1>2. [Resaved(plan) EXCEPT !.status = st].steps = Resaved(plan).steps
  BY <1>1, StatusSet
<1> QED BY <1>1, <1>2, ResavedSound

(* A call follows its step through whatever keeps the names. *)
LEMMA TracksOn ==
  ASSUME NEW x, NEW p \in Plan, NEW q, Tracks(x, p), SameNamed(p, q)
  PROVE  Tracks(x, q)
<1>1. p.steps \in Seq(Step)
  BY DEF Plan
<1>2. \A k \in DOMAIN p.steps : Finds(q.steps, x.i, k) <=> Finds(p.steps, x.i, k)
  BY <1>1, SameFinds DEF SameNamed
<1> QED BY <1>2 DEF Tracks, SameNamed

(* A step of an executor keeps the plan sound, with its own step in hand. *)
LEMMA ExecutorSound ==
  ASSUME PlanTypeOK, SoundParts, NEW e \in Executors, ExecutorStep(e)
  PROVE  /\ Backed(plan', ran') /\ ran \subseteq ran'
         /\ Tracks(executors'[e], plan') /\ Earned(executors'[e], ran')
<1> DEFINE x == executors[e]
           y == executors'[e]
           Good == /\ Backed(plan', ran') /\ ran \subseteq ran'
                   /\ Tracks(y, plan') /\ Earned(y, ran')
<1> SUFFICES Good
  OBVIOUS
<1>1. /\ x \in Executor /\ Backed(plan, ran) /\ Tracks(x, plan) /\ Earned(x, ran)
      /\ executors \in [Executors -> Executor]
  BY DEF PlanTypeOK, SoundParts
<1>2. \A z : Goes(e, z) => y = z
  BY <1>1 DEF Goes
<1>3. /\ x.pc # "idle" => Fit(x)
      /\ x.pc \in AtStep => x.i <= Len(x.walk)
  BY <1>1 DEF PlanTypeOK, WalkOK, Fit, AtStep
<1> HIDE DEF x, y
<1>4. ASSUME NEW z, z.pc \notin AtStep
      PROVE  Tracks(z, plan') /\ Earned(z, ran')
  BY <1>4 DEF Tracks, Earned, AtStep
<1>5. ASSUME Leave(e)
      PROVE  Tracks(y, plan') /\ Earned(y, ran')
  <2>1. y = Idle /\ Idle.pc \notin AtStep
    BY <1>2, <1>5 DEF Leave, Idle, AtStep
  <2> QED BY <1>4, <2>1
<1>6. ASSUME Fit(x), x.i <= Len(x.walk)
      PROVE  AfterFailure(x).pc \notin AtStep /\ AfterSuccess(x).pc \notin AtStep
  BY <1>6, AfterFits DEF AtStep
<1>7. \A c \in Pc : /\ [x EXCEPT !.pc = c].pc = c /\ [x EXCEPT !.pc = c].i = x.i
                    /\ [x EXCEPT !.pc = c].task = x.task
  BY <1>1, WithPc
<1>8. ASSUME NEW st \in PlanStatus, NEW c \in {"walking", "leaving"}, Updates(e, st, c)
      PROVE  Good
  <2>1. ran' = ran /\ (plan' = plan \/ UpdatePlan(st))
    BY <1>8 DEF Updates
  <2>2. Backed(plan', ran')
    BY <1>1, <2>1, StatusSound
  <2>3. c \in Pc /\ c \notin AtStep
    BY DEF Pc, AtStep
  <2>4. Leave(e) \/ y = [x EXCEPT !.pc = c]
    BY <1>2, <1>8 DEF Updates, x
  <2>5. Tracks(y, plan') /\ Earned(y, ran')
    BY <1>4, <1>5, <1>7, <2>3, <2>4
  <2> QED BY <2>1, <2>2, <2>5
<1>9. CASE MarkPlanRunning(e) \/ MarkPlanCompleted(e) \/ MarkPlanFailed(e)
  BY <1>8, <1>9 DEF MarkPlanRunning, MarkPlanCompleted, MarkPlanFailed, PlanStatus
<1>10. CASE PassOver(e)
  <2>1. /\ y = [x EXCEPT !.pc = "finishing"] \/ (y = [x EXCEPT !.i = x.i + 1] /\ x.pc = "walking")
        /\ plan' = plan /\ ran' = ran
    BY <1>2, <1>10 DEF PassOver, At, x
  <2>2. [x EXCEPT !.i = x.i + 1].pc = x.pc
    BY <1>1 DEF Executor
  <2>3. y.pc \notin AtStep
    BY <1>7, <2>1, <2>2 DEF Pc, AtStep
  <2> QED BY <1>1, <1>4, <2>1, <2>3
<1>11. CASE ReadStep(e)
  <2>1. /\ x.pc = "walking" /\ x.i <= Len(x.walk) /\ plan' = plan /\ ran' = ran
        /\ \/ Leave(e)
           \/ y = AfterFailure(x)
           \/ \E k \in DOMAIN plan.steps :
                Finds(plan.steps, x.i, k) /\ y = [x EXCEPT !.pc = "asked", !.task = plan.steps[k].task]
    BY <1>2, <1>11 DEF ReadStep, At, x
  <2>2. ASSUME NEW k \in DOMAIN plan.steps, Finds(plan.steps, x.i, k),
               y = [x EXCEPT !.pc = "asked", !.task = plan.steps[k].task]
        PROVE  Tracks(y, plan') /\ Earned(y, ran')
    <3> DEFINE t == plan.steps[k].task
               a == [x EXCEPT !.pc = "asked"]
    <3>1. a \in Executor /\ a.pc = "asked" /\ a.i = x.i
      BY <1>1, WithPc DEF Pc
    <3>2. y = [a EXCEPT !.task = t]
      BY <2>2
    <3> HIDE DEF a, t
    <3>3. y.pc = "asked" /\ y.i = x.i /\ y.task = t
      BY <3>1, <3>2 DEF Executor
    <3>4. plan.steps \in Seq(Step)
      BY DEF PlanTypeOK, Plan
    <3>5. \A j \in DOMAIN plan.steps : Finds(plan.steps, x.i, j) => j = k
      BY <2>2, <3>4, FindsOnce
    <3> QED BY <2>1, <3>3, <3>5 DEF Tracks, Earned, t
  <2>3. Tracks(y, plan') /\ Earned(y, ran')
    BY <1>3, <1>4, <1>5, <1>6, <2>1, <2>2
  <2> QED BY <1>1, <2>1, <2>3
<1>12. ASSUME NEW st \in StepStatus, st # "completed", NEW z, StepUpdate(e, st, z), ran' = ran
       PROVE  /\ Backed(plan', ran') /\ ran \subseteq ran' /\ SameNamed(plan, plan')
              /\ Leave(e) \/ y = z
  <2>1. \/ UpdateStep(x.i, st) /\ y = z
        \/ Leave(e) /\ plan' = plan
    BY <1>2, <1>12 DEF StepUpdate, x
  <2>2. plan' = plan => SameNamed(plan, plan')
    BY DEF SameNamed
  <2> QED BY <1>1, <1>12, <2>1, <2>2, UpdateSound
<1>13. CASE StepRefused(e)
  <2>1. x.pc = "asked" /\ ran' = ran /\ StepUpdate(e, "skipped", AfterSuccess(x))
    BY <1>13 DEF StepRefused, At, x
  <2>2. /\ Backed(plan', ran') /\ ran \subseteq ran'
        /\ Leave(e) \/ y = AfterSuccess(x)
    BY <1>12, <2>1 DEF StepStatus
  <2>3. AfterSuccess(x).pc \notin AtStep
    BY <1>3, <1>6, <2>1 DEF AtStep
  <2> QED BY <1>4, <1>5, <2>2, <2>3
<1>14. CASE MarkStepRunning(e)
  <2>1. x.pc = "asked" /\ ran' = ran /\ StepUpdate(e, "running", [x EXCEPT !.pc = "running"])
    BY <1>14 DEF MarkStepRunning, At, x
  <2>2. /\ Backed(plan', ran') /\ ran \subseteq ran' /\ SameNamed(plan, plan')
        /\ Leave(e) \/ y = [x EXCEPT !.pc = "running"]
    BY <1>12, <2>1 DEF StepStatus
  <2>3. ASSUME y = [x EXCEPT !.pc = "running"]
        PROVE  Tracks(y, plan') /\ Earned(y, ran')
    <3>1. y.pc = "running" /\ y.i = x.i /\ y.task = x.task
      BY <1>7, <2>3 DEF Pc
    <3>2. Tracks(y, plan)
      BY <1>1, <2>1, <3>1 DEF Tracks, AtStep
    <3>3. Tracks(y, plan')
      <4>1. plan \in Plan
        BY DEF PlanTypeOK
      <4> QED BY <2>2, <3>2, <4>1, TracksOn
    <3> QED BY <3>1, <3>3 DEF Earned
  <2> QED BY <1>5, <2>2, <2>3
<1>15. CASE \E ok \in BOOLEAN : HandlerEnds(e, ok)
  <2>1. PICK ok \in BOOLEAN : HandlerEnds(e, ok)
    BY <1>15
  <2>2. /\ x.pc = "running" /\ y = [x EXCEPT !.pc = "recording", !.ok = ok] /\ plan' = plan
        /\ ran' = (IF ok THEN ran \cup {x.task} ELSE ran)
    BY <1>2, <2>1 DEF HandlerEnds, At, x
  <2> DEFINE a == [x EXCEPT !.pc = "recording"]
  <2>3. a \in Executor /\ a.i = x.i /\ a.task = x.task
    BY <1>1, WithPc DEF Pc
  <2>4. y = [a EXCEPT !.ok = ok]
    BY <2>2
  <2> HIDE DEF a
  <2>5. y.i = x.i /\ y.task = x.task /\ y.ok = ok
    BY <2>3, <2>4 DEF Executor
  <2>6. ran \subseteq ran' /\ (ok => x.task \in ran')
    BY <2>2
  <2>7. Backed(plan', ran')
    BY <1>1, <2>2, <2>6 DEF Backed
  <2> QED BY <1>1, <2>2, <2>5, <2>6, <2>7 DEF Tracks, Earned, AtStep
<1>16. CASE RecordSuccess(e)
  <2>1. /\ x.pc = "recording" /\ x.ok /\ UpdateStep(x.i, "completed") /\ y = AfterSuccess(x) /\ ran' = ran
    BY <1>2, <1>16 DEF RecordSuccess, At, x
  <2>3. \A k \in DOMAIN plan.steps : Finds(plan.steps, x.i, k) => plan.steps[k].task \in ran
    BY <1>1, <2>1 DEF Tracks, Earned, AtStep
  <2>4. Backed(plan', ran)
    BY <1>1, <2>1, <2>3, UpdateSound DEF StepStatus
  <2>5. y.pc \notin AtStep
    BY <1>3, <1>6, <2>1 DEF AtStep
  <2> QED BY <1>4, <2>1, <2>4, <2>5
<1>17. CASE RecordSuccessThrows(e)
  <2>1. x.pc = "recording" /\ y = [x EXCEPT !.ok = FALSE] /\ plan' = plan /\ ran' = ran
    BY <1>2, <1>17 DEF RecordSuccessThrows, At, x
  <2>2. y.i = x.i /\ y.task = x.task /\ y.ok = FALSE
    BY <1>1, <2>1 DEF Executor
  <2> QED BY <1>1, <2>1, <2>2 DEF Tracks, Earned, AtStep
<1>18. CASE RecordFailure(e)
  <2>1. x.pc = "recording" /\ ran' = ran /\ StepUpdate(e, "failed", AfterFailure(x))
    BY <1>18 DEF RecordFailure, At, x
  <2>2. /\ Backed(plan', ran') /\ ran \subseteq ran'
        /\ Leave(e) \/ y = AfterFailure(x)
    BY <1>12, <2>1 DEF StepStatus
  <2>3. AfterFailure(x).pc \notin AtStep
    BY <1>3, <1>6, <2>1 DEF AtStep
  <2> QED BY <1>4, <1>5, <2>2, <2>3
<1>19. CASE Release(e)
  BY <1>1, <1>5, <1>19 DEF Release
<1> QED
  BY <1>9, <1>10, <1>11, <1>13, <1>14, <1>15, <1>16, <1>17, <1>18, <1>19 DEF ExecutorStep

(* Calls follow their steps through whatever keeps the names. *)
LEMMA SameNamedTrack ==
  ASSUME PlanTypeOK, SoundParts, SameNamed(plan, plan') \/ plan'.steps = <<>>,
         executors' = executors, ran' = ran
  PROVE  \A e \in Executors : Tracks(executors'[e], plan') /\ Earned(executors'[e], ran')
<1> SUFFICES ASSUME NEW e \in Executors
             PROVE  Tracks(executors'[e], plan') /\ Earned(executors'[e], ran')
  OBVIOUS
<1>1. Tracks(executors[e], plan) /\ Earned(executors[e], ran) /\ plan \in Plan
  BY DEF SoundParts, PlanTypeOK
<1>2. CASE SameNamed(plan, plan')
  <2>1. Tracks(executors[e], plan')
    BY <1>1, <1>2, TracksOn
  <2> QED BY <1>1, <2>1
<1>3. CASE plan'.steps = <<>>
  BY <1>1, <1>3 DEF Tracks
<1> QED BY <1>2, <1>3

(* A save that gives no step another description keeps the names, or finds nobody at
   work; and what it says has been done, the plan it is an edit of said as well. *)
LEMMA SavedTracks ==
  ASSUME PlanTypeOK, SoundParts, executors' = executors, ran' = ran,
         NEW q, Rewording(plan', q) = {}
  PROVE  /\ \A e \in Executors : Tracks(executors'[e], plan') /\ Earned(executors'[e], ran')
         /\ Done(plan') \subseteq Done(q)
<1>1. CASE executing
  <2>1. Named(plan') = Named(plan)
    BY <1>1 DEF Rewording
  <2>2. DOMAIN Named(plan') = DOMAIN plan'.steps /\ DOMAIN Named(plan) = DOMAIN plan.steps
    BY DEF Named
  <2>3. DOMAIN plan'.steps = DOMAIN plan.steps
    BY <2>1, <2>2
  <2>4. ASSUME NEW j \in DOMAIN plan.steps
        PROVE  plan'.steps[j].number = plan.steps[j].number /\ plan'.steps[j].task = plan.steps[j].task
    <3>1. Named(plan)[j] = <<plan.steps[j].number, plan.steps[j].task>>
      BY DEF Named
    <3>2. Named(plan')[j] = <<plan'.steps[j].number, plan'.steps[j].task>>
      BY <2>3 DEF Named
    <3> QED BY <2>1, <3>1, <3>2
  <2>5. SameNamed(plan, plan')
    BY <2>3, <2>4 DEF SameNamed
  <2> QED BY <2>5, SameNamedTrack DEF Rewording
<1>2. CASE ~executing
  <2>1. \A e \in Executors : executors[e].pc = "idle"
    BY <1>2, IdleFits DEF PlanTypeOK, LockOK
  <2> QED BY <2>1 DEF Tracks, Earned, AtStep, Rewording
<1> QED BY <1>1, <1>2

(* A new plan without marks of its own and no plan are sound. *)
LEMMA FreshSound ==
  ASSUME NEW R
  PROVE  /\ \A c \in Contents : "premarked" \notin Oddities(c) => Backed(Created(c), R)
         /\ Backed(NoPlan, R) /\ Backed(NoEdit.base, R)
<1>1. \A c \in Contents : "premarked" \notin Oddities(c) => \A i \in DOMAIN c : c[i].status # "completed"
  BY DEF Oddities
<1>2. \A c \in Contents : Created(c).steps = c
  BY CreatedPlan
<1> QED BY <1>1, <1>2 DEF Backed, NoPlan, NoEdit

(* Disturbances are never forgotten. *)
LEMMA CalmBefore ==
  ASSUME PlanTypeOK, PlanNext
  PROVE  disturbed \subseteq disturbed'
<1>1. CASE \E e \in Executors : ExecutorStep(e)
  <2>1. disturbed' = disturbed
    BY <1>1, ExecutorMoves
  <2> QED BY <2>1
<1>2. CASE \E e \in Executors, o \in Options : Execute(e, o)
  BY <1>2 DEF Execute
<1>3. CASE ResumeWrites \/ (\E c \in Contents : Create(c)) \/ EditSaves \/ Crash
  BY <1>3 DEF ResumeWrites, Create, EditSaves, Crash
<1>4. CASE UNCHANGED disturbed
  BY <1>4
<1> QED
  BY <1>1, <1>2, <1>3, <1>4
  DEF PlanNext, Pause, Cancel, ResumeReads, Delete, SkipStep, EditReads

(* Completed steps are backed, and calls have their own step in hand. *)
LEMMA SoundStep ==
  ASSUME PlanTypeOK, SoundInv, PlanNext
  PROVE  SoundInv'
<1> SUFFICES ASSUME Calm({"premarked", "reworded"})'
             PROVE  SoundParts'
  BY DEF SoundInv
<1>1. SoundParts
  BY CalmBefore DEF SoundInv, Calm
<1>2. /\ plan \in Plan /\ Backed(plan, ran) /\ Backed(edit.base, ran)
      /\ executors \in [Executors -> Executor]
  BY <1>1 DEF PlanTypeOK, SoundParts
<1> DEFINE Tracking == \A e \in Executors : Tracks(executors'[e], plan') /\ Earned(executors'[e], ran')
<1>3. CASE \E e \in Executors : ExecutorStep(e)
  <2>1. PICK e \in Executors : ExecutorStep(e)
    BY <1>3
  <2>2. /\ Backed(plan', ran') /\ ran \subseteq ran'
        /\ Tracks(executors'[e], plan') /\ Earned(executors'[e], ran')
    BY <1>1, <2>1, ExecutorSound
  <2>3. /\ executors[e] # Idle /\ edit' = edit
        /\ \/ Leave(e)
           \/ \E x : Fit(x) /\ Goes(e, x) /\ UNCHANGED executing
    BY <2>1, ExecutorMoves
  <2>4. ASSUME NEW f \in Executors, f # e
        PROVE  executors'[f].pc = "idle"
    <3>1. executors[f] = Idle
      BY <2>3, <2>4 DEF PlanTypeOK, LockOK
    <3>2. executors'[f] = executors[f]
      BY <1>2, <2>3, <2>4 DEF Leave, Goes
    <3> QED BY <3>1, <3>2, IdleFits
  <2>5. Tracking
    BY <2>2, <2>4 DEF Tracks, Earned, AtStep
  <2>6. Backed(edit'.base, ran')
    BY <1>2, <2>2, <2>3 DEF Backed
  <2> QED BY <2>2, <2>5, <2>6 DEF SoundParts
<1>4. CASE \E e \in Executors, o \in Options : Execute(e, o)
  <2>1. PICK e \in Executors, o \in Options : Execute(e, o)
    BY <1>4
  <2> DEFINE c == IF plan.status = "completed" THEN "leaving" ELSE "opening"
             w == Walk(plan)
             n == IF o.from # 0 THEN o.from ELSE IF plan.current = 0 THEN 1 ELSE plan.current
             a == [Idle EXCEPT !.pc = c]
             y == [Idle EXCEPT !.pc = c, !.walk = w, !.i = n, !.opts = o]
  <2>2. executors' = [executors EXCEPT ![e] = y] /\ UNCHANGED <<plan, edit, ran>>
    BY <2>1 DEF Execute, Goes, user
  <2>3. y.pc \notin AtStep
    <3>1. c \in {"leaving", "opening"}
      OBVIOUS
    <3> HIDE DEF c, w, n
    <3>2. y.pc = c
      BY DEF Idle
    <3> QED BY <3>1, <3>2 DEF AtStep
  <2> HIDE DEF y
  <2>4. Tracking
    <3> SUFFICES ASSUME NEW f \in Executors
                 PROVE  Tracks(executors'[f], plan') /\ Earned(executors'[f], ran')
      OBVIOUS
    <3>1. executors'[f] = y \/ executors'[f] = executors[f]
      BY <1>2, <2>2
    <3>2. Tracks(executors[f], plan) /\ Earned(executors[f], ran)
      BY <1>1 DEF SoundParts
    <3> QED BY <2>2, <2>3, <3>1, <3>2 DEF Tracks, Earned, AtStep
  <2> QED BY <1>2, <2>2, <2>4 DEF SoundParts
<1>5. CASE Pause \/ Cancel
  <2>1. PICK st \in PlanStatus : UpdatePlan(st) /\ UNCHANGED <<executors, edit, ran>>
    BY <1>5 DEF Pause, Cancel, others, PlanStatus
  <2>2. Backed(plan', ran) /\ SameNamed(plan, plan')
    BY <1>2, <2>1, StatusSound
  <2>3. Tracking
    BY <1>1, <2>1, <2>2, SameNamedTrack
  <2> QED BY <1>2, <2>1, <2>2, <2>3 DEF SoundParts
<1>6. CASE ResumeReads
  BY <1>1, <1>6 DEF ResumeReads, others, SoundParts
<1>7. CASE ResumeWrites
  <2>1. UNCHANGED <<executors, edit, ran>>
    BY <1>7 DEF ResumeWrites, others
  <2>2. Backed(plan', ran) /\ SameNamed(plan, plan')
    <3>1. CASE plan = NoPlan
      BY <1>2, <1>7, <3>1 DEF ResumeWrites, SameNamed
    <3>2. CASE plan # NoPlan
      <4>1. "running" \in PlanStatus /\ resuming.current \in Nat
        BY DEF PlanStatus, PlanTypeOK
      <4>2. plan'.steps = Resaved(plan).steps
        BY <1>2, <1>7, <3>2, <4>1, StatusSet DEF ResumeWrites
      <4> QED BY <1>2, <4>2, ResavedSound
    <3> QED BY <3>1, <3>2
  <2>3. Tracking
    BY <1>1, <2>1, <2>2, SameNamedTrack
  <2> QED BY <1>2, <2>1, <2>2, <2>3 DEF SoundParts
<1>8. CASE \E i \in DOMAIN plan.steps : SkipStep(plan.steps[i].number)
  <2>1. PICK n : UpdateStep(n, "skipped") /\ UNCHANGED <<executors, edit, ran>>
    BY <1>8 DEF SkipStep, others
  <2>2. "skipped" \in StepStatus
    BY DEF StepStatus
  <2>3. Backed(plan', ran) /\ SameNamed(plan, plan')
    BY <1>2, <2>1, <2>2, UpdateSound
  <2>4. Tracking
    BY <1>1, <2>1, <2>3, SameNamedTrack
  <2> QED BY <1>2, <2>1, <2>3, <2>4 DEF SoundParts
<1>9. CASE Delete
  <2>1. plan' = NoPlan /\ UNCHANGED <<executors, edit, ran>>
    BY <1>9 DEF Delete, others
  <2>2. Tracking
    BY <1>1, <2>1, SameNamedTrack DEF NoPlan
  <2> QED BY <1>2, <2>1, <2>2, FreshSound DEF SoundParts
<1>10. CASE \E c \in Contents : Create(c)
  <2>1. PICK c \in Contents : Create(c)
    BY <1>10
  <2>2. /\ plan' = Created(c) /\ UNCHANGED <<executors, edit, ran>>
        /\ Oddities(c) \subseteq disturbed' /\ Rewording(Created(c), Created(c)) \subseteq disturbed'
    BY <2>1 DEF Create, others
  <2>3. "premarked" \notin Oddities(c) /\ Rewording(plan', Created(c)) = {}
    BY <2>2 DEF Calm, Rewording
  <2>4. Tracking
    BY <1>1, <2>2, <2>3, SavedTracks
  <2>5. Backed(plan', ran)
    BY <2>2, <2>3, FreshSound
  <2> QED BY <1>2, <2>2, <2>4, <2>5 DEF SoundParts
<1>11. CASE \/ \E p \in Rewordings : EditReads(p, FALSE)
            \/ \E p \in Restructurings : EditReads(p, TRUE)
  <2>1. PICK p : \E moves \in BOOLEAN : EditReads(p, moves)
    BY <1>11
  <2>2. PICK moves \in BOOLEAN : EditReads(p, moves)
    BY <2>1
  <2>3. edit' = [saves |-> p, base |-> plan, moves |-> moves] /\ UNCHANGED <<plan, executors, ran>>
    BY <2>2 DEF EditReads, others
  <2>4. edit'.base = plan
    BY <2>3
  <2> QED BY <1>1, <2>3, <2>4 DEF SoundParts
<1>12. CASE EditSaves
  <2>1. plan' = edit.saves /\ edit' = NoEdit /\ UNCHANGED <<executors, ran>>
        /\ Rewording(edit.saves, edit.base) \subseteq disturbed'
    BY <1>12 DEF EditSaves, others
  <2>2. Rewording(plan', edit.base) = {}
    BY <2>1 DEF Calm, Rewording
  <2>3. Tracking /\ Done(plan') \subseteq Done(edit.base)
    BY <1>1, <2>1, <2>2, SavedTracks
  <2>4. Backed(plan', ran)
    <3>1. Done(edit.base) \subseteq ran
      BY <1>2, DoneBacked
    <3>2. Done(plan') \subseteq ran
      BY <2>3, <3>1
    <3> QED BY <3>2, DoneBacked
  <2> QED BY <1>2, <2>1, <2>3, <2>4, FreshSound DEF SoundParts
<1>13. CASE Crash
  <2>1. executors' = [e \in Executors |-> Idle] /\ edit' = NoEdit /\ UNCHANGED <<plan, ran>>
    BY <1>13 DEF Crash
  <2>2. Tracking
    BY <2>1, IdleFits DEF Tracks, Earned, AtStep
  <2> QED BY <1>2, <2>1, <2>2, FreshSound DEF SoundParts
<1> QED
  BY <1>3, <1>4, <1>5, <1>6, <1>7, <1>8, <1>9, <1>10, <1>11, <1>12, <1>13 DEF PlanNext

(* A step recorded as completed is one whose own task has succeeded, for plans of
   any length and numbering: not even a crash, a resume or an older plan saved over
   a newer one marks as done what never was, unless the content came with marks of
   its own, or somebody gave a completed step or one being executed another
   description. *)
THEOREM CompletedRun == PlanSpec => []CompletedWasRun
<1>1. PlanInit => SoundInv
  <2> SUFFICES ASSUME PlanInit, Calm({"premarked", "reworded"})
               PROVE  SoundParts
    BY DEF SoundInv
  <2>1. PICK c \in Contents : plan = Created(c) /\ disturbed = Oddities(c)
    BY DEF PlanInit
  <2>2. edit = NoEdit /\ executors = [e \in Executors |-> Idle]
    BY DEF PlanInit
  <2>3. \A e \in Executors : Tracks(executors[e], plan) /\ Earned(executors[e], ran)
    BY <2>2, IdleFits DEF Tracks, Earned, AtStep
  <2>4. "premarked" \notin Oddities(c)
    BY <2>1 DEF Calm
  <2> QED BY <2>1, <2>2, <2>3, <2>4, FreshSound DEF SoundParts
<1>2. PlanTypeOK /\ SoundInv /\ [PlanNext]_vars => SoundInv'
  <2> SUFFICES ASSUME PlanTypeOK, SoundInv, [PlanNext]_vars
               PROVE  SoundInv'
    OBVIOUS
  <2>1. CASE UNCHANGED vars
    BY <2>1 DEF vars, SoundInv, SoundParts, Calm
  <2> QED BY <2>1, SoundStep
<1>3. SoundInv => CompletedWasRun
  BY DoneBacked DEF SoundInv, SoundParts, CompletedWasRun
<1> QED BY <1>1, <1>2, <1>3, PlanTypes, PTL DEF PlanSpec
=============================================================================
