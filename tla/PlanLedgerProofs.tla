--------------------------- MODULE PlanLedgerProofs ---------------------------
(***************************************************************************)
(* The execution of a plan implements its ledger, for plans of any length, *)
(* any number of calls, commands and crashes.  The substance is that a     *)
(* step which the executor begins is not completed, although the executor  *)
(* knows the plan only as it was when it started.  Then: the step under    *)
(* way is the only one marked as running, and a plan that ended as         *)
(* completed has no step that nobody has tried.                            *)
(***************************************************************************)
EXTENDS PlanExecutionProofs

(* The record of a plan: what its readers see of its steps *)

\* For every number, the status of the step it stands for, ...
Rec(p) == [n \in {p.steps[i].number : i \in DOMAIN p.steps} |->
             p.steps[CHOOSE k \in DOMAIN p.steps : Finds(p.steps, n, k)].status]

\* ... and with another one for n.
Written(r, n, st) == [r EXCEPT ![n] = st]

\* The step at place k of plan p has got status st in plan q.
Recorded(p, q, k, st) ==
  /\ DOMAIN q.steps = DOMAIN p.steps
  /\ \A j \in DOMAIN p.steps :
       /\ q.steps[j].number = p.steps[j].number
       /\ q.steps[j].status = IF j = k THEN st ELSE p.steps[j].status

(* A number that occurs stands for a step. *)
LEMMA NumberFound ==
  ASSUME NEW s \in Seq(Step), NEW i \in DOMAIN s
  PROVE  \E k \in DOMAIN s : Finds(s, s[i].number, k)
<1>1. Len(s) \in Nat /\ DOMAIN s = 1..Len(s)
  BY LenProperties
<1> DEFINE T == {j \in DOMAIN s : s[j].number = s[i].number}
<1>2. PICK k \in T : \A m \in T : k <= m
  <2>1. T \in SUBSET Nat /\ T # {}
    BY <1>1
  <2> HIDE DEF T
  <2> QED BY <2>1, LeastNatural
<1>3. k \in DOMAIN s /\ s[k].number = s[i].number
  BY <1>2
<1>4. \A j \in 1..(k - 1) : s[j].number # s[i].number
  BY <1>1, <1>2, <1>3
<1> QED BY <1>3, <1>4 DEF Finds

(* The record has the numbers of the plan, and what it says of a number is the status
   of the step found for it. *)
LEMMA RecordReads ==
  ASSUME NEW p \in Plan
  PROVE  /\ DOMAIN Rec(p) = {p.steps[i].number : i \in DOMAIN p.steps}
         /\ \A n \in DOMAIN Rec(p) : \E k \in DOMAIN p.steps : Finds(p.steps, n, k)
         /\ \A n, k : Finds(p.steps, n, k) => n \in DOMAIN Rec(p) /\ Rec(p)[n] = p.steps[k].status
<1> DEFINE s == p.steps
           N == {s[i].number : i \in DOMAIN s}
           at(n) == CHOOSE k \in DOMAIN s : Finds(s, n, k)
<1>1. s \in Seq(Step)
  BY DEF Plan
<1>2. Rec(p) = [n \in N |-> s[at(n)].status]
  BY DEF Rec
<1>3. \A n \in N : \E k \in DOMAIN s : Finds(s, n, k)
  BY <1>1, NumberFound
<1>4. ASSUME NEW n, NEW k, Finds(s, n, k)
      PROVE  n \in N /\ at(n) = k
  <2>1. k \in DOMAIN s /\ s[k].number = n
    BY <1>4 DEF Finds
  <2>2. at(n) \in DOMAIN s /\ Finds(s, n, at(n))
    BY <1>4, <2>1
  <2> HIDE DEF at
  <2>3. at(n) = k
    BY <1>1, <1>4, <2>2, FindsOnce
  <2> QED BY <2>1, <2>3
<1> HIDE DEF N, at
<1>5. DOMAIN Rec(p) = N /\ \A n \in N : Rec(p)[n] = s[at(n)].status
  BY <1>2
<1>6. \A n, k : Finds(s, n, k) => n \in DOMAIN Rec(p) /\ Rec(p)[n] = s[k].status
  BY <1>4, <1>5
<1> QED BY <1>3, <1>5, <1>6 DEF N

(* The record of a plan is one, ... *)
LEMMA RecIsRecord ==
  ASSUME NEW p \in Plan
  PROVE  Ledger!IsRecord(Rec(p))
<1>1. \A i \in DOMAIN p.steps : p.steps[i] \in Step
  BY ElementOfSeq DEF Plan
<1>2. \A i \in DOMAIN p.steps : p.steps[i].number \in Nat /\ p.steps[i].status \in StepStatus
  BY <1>1 DEF Step
<1> DEFINE f == Rec(p)
<1>3. /\ DOMAIN f = {p.steps[i].number : i \in DOMAIN p.steps}
      /\ \A n \in DOMAIN f : \E k \in DOMAIN p.steps : Finds(p.steps, n, k)
      /\ \A n, k : Finds(p.steps, n, k) => n \in DOMAIN f /\ f[n] = p.steps[k].status
  BY RecordReads
<1> HIDE DEF f
<1>4. DOMAIN f \subseteq Nat
  BY <1>2, <1>3
<1>5. ASSUME NEW n \in DOMAIN f
      PROVE  f[n] \in StepStatus
  <2>1. PICK k \in DOMAIN p.steps : Finds(p.steps, n, k)
    BY <1>3
  <2> QED BY <1>2, <1>3, <2>1
<1> QED BY <1>4, <1>5 DEF f, Ledger!IsRecord

(* ... a function. *)
LEMMA RecIsFunction ==
  ASSUME NEW p
  PROVE  Rec(p) = [n \in DOMAIN Rec(p) |-> Rec(p)[n]]
BY DEF Rec

(* Plans of the same numbers have records of the same numbers. *)
LEMMA RecordNumbers ==
  ASSUME NEW p \in Plan, NEW q \in Plan, DOMAIN q.steps = DOMAIN p.steps,
         \A j \in DOMAIN p.steps : q.steps[j].number = p.steps[j].number
  PROVE  DOMAIN Rec(q) = DOMAIN Rec(p)
<1> DEFINE A == {p.steps[i].number : i \in DOMAIN p.steps}
           B == {q.steps[i].number : i \in DOMAIN q.steps}
<1>1. DOMAIN Rec(p) = A /\ DOMAIN Rec(q) = B
  BY RecordReads
<1>2. A = B
  OBVIOUS
<1> HIDE DEF A, B
<1> QED BY <1>1, <1>2

(* Numbers and results make the record, ... *)
LEMMA RecordSame ==
  ASSUME NEW p \in Plan, NEW q \in Plan, SameResults(p, q)
  PROVE  Rec(q) = Rec(p)
<1>1. DOMAIN Rec(q) = DOMAIN Rec(p)
  BY RecordNumbers DEF SameResults
<1>2. ASSUME NEW n \in DOMAIN Rec(p)
      PROVE  Rec(q)[n] = Rec(p)[n]
  <2>1. PICK k \in DOMAIN p.steps : Finds(p.steps, n, k)
    BY RecordReads
  <2>2. p.steps \in Seq(Step)
    BY DEF Plan
  <2>3. Finds(q.steps, n, k)
    BY <2>1, <2>2, SameFinds DEF SameResults
  <2>4. Rec(q)[n] = q.steps[k].status /\ Rec(p)[n] = p.steps[k].status
    BY <2>1, <2>3, RecordReads, ZenonT(30)
  <2> QED BY <2>1, <2>4 DEF SameResults
<1> DEFINE f == Rec(p)
           g == Rec(q)
<1>3. f = [n \in DOMAIN f |-> f[n]] /\ g = [n \in DOMAIN g |-> g[n]]
  BY RecIsFunction
<1>4. DOMAIN g = DOMAIN f /\ \A n \in DOMAIN f : g[n] = f[n]
  BY <1>1, <1>2
<1> HIDE DEF f, g
<1>5. g = f
  BY <1>3, <1>4
<1> QED BY <1>5 DEF f, g

(* ... and the result of the step found for a number is what it says of that one. *)
LEMMA RecordWritten ==
  ASSUME NEW p \in Plan, NEW q \in Plan, NEW n, NEW k, NEW st,
         Finds(p.steps, n, k), Recorded(p, q, k, st)
  PROVE  n \in DOMAIN Rec(p) /\ Rec(q) = Written(Rec(p), n, st)
<1>1. DOMAIN Rec(q) = DOMAIN Rec(p) /\ n \in DOMAIN Rec(p)
  <2>1. DOMAIN Rec(q) = DOMAIN Rec(p)
    BY RecordNumbers DEF Recorded
  <2>2. n \in DOMAIN Rec(p)
    BY RecordReads
  <2> QED BY <2>1, <2>2
<1>2. ASSUME NEW m \in DOMAIN Rec(p)
      PROVE  Rec(q)[m] = IF m = n THEN st ELSE Rec(p)[m]
  <2>1. PICK j \in DOMAIN p.steps : Finds(p.steps, m, j)
    BY RecordReads
  <2>2. p.steps \in Seq(Step)
    BY DEF Plan
  <2>3. Finds(q.steps, m, j)
    BY <2>1, <2>2, SameFinds DEF Recorded
  <2>4. Rec(q)[m] = q.steps[j].status /\ Rec(p)[m] = p.steps[j].status
    BY <2>1, <2>3, RecordReads, ZenonT(30)
  <2>5. CASE m = n
    <3>1. j = k
      BY <2>1, <2>2, <2>5, FindsOnce
    <3> QED BY <2>1, <2>4, <2>5, <3>1 DEF Recorded
  <2>6. CASE m # n
    <3>1. j # k
      BY <2>1, <2>6 DEF Finds
    <3> QED BY <2>1, <2>4, <2>6, <3>1 DEF Recorded
  <2> QED BY <2>5, <2>6
<1> DEFINE f == Rec(p)
           g == Rec(q)
<1>3. f = [m \in DOMAIN f |-> f[m]] /\ g = [m \in DOMAIN g |-> g[m]]
  BY RecIsFunction
<1>4. DOMAIN g = DOMAIN f /\ \A m \in DOMAIN f : g[m] = IF m = n THEN st ELSE f[m]
  BY <1>1, <1>2
<1> HIDE DEF f, g
<1>5. g = [f EXCEPT ![n] = st]
  BY <1>3, <1>4
<1> QED BY <1>1, <1>5 DEF f, g, Written

(* An update of a step records its result. *)
LEMMA StepRecorded ==
  ASSUME PlanTypeOK, NEW n, NEW st \in StepStatus, UpdateStep(n, st)
  PROVE  /\ \E k \in DOMAIN plan.steps : Finds(plan.steps, n, k) /\ Recorded(plan, plan', k, st)
         /\ n \in DOMAIN Rec(plan) /\ Rec(plan') = Written(Rec(plan), n, st)
<1>1. PICK k \in DOMAIN plan.steps : Finds(plan.steps, n, k) /\ plan' = WithStep(plan, k, st)
  BY DEF UpdateStep
<1>2. plan \in Plan /\ plan.status # "absent"
  BY <1>1 DEF PlanTypeOK, NoPlan
<1> DEFINE q == WithStep(plan, k, st)
<1>3. /\ q \in Plan /\ DOMAIN q.steps = DOMAIN plan.steps
      /\ \A j \in DOMAIN plan.steps :
           /\ q.steps[j].number = plan.steps[j].number
           /\ q.steps[j].status = IF j = k THEN st ELSE plan.steps[j].status
  BY <1>1, <1>2, UpdatedPlan
<1>4. plan' = q
  BY <1>1
<1> HIDE DEF q
<1>5. Recorded(plan, plan', k, st) /\ plan' \in Plan
  BY <1>3, <1>4 DEF Recorded
<1>6. n \in DOMAIN Rec(plan) /\ Rec(plan') = Written(Rec(plan), n, st)
  BY <1>1, <1>2, <1>5, RecordWritten
<1> QED BY <1>1, <1>5, <1>6

(* Saving a plan as it was read leaves numbers and results. *)
LEMMA ResavedRecord ==
  ASSUME PlanTypeOK, plan'.steps = Resaved(plan).steps
  PROVE  SameResults(plan, plan')
BY ResavedPlan DEF PlanTypeOK, SameResults

(* So does an update of the plan's status. *)
LEMMA StatusRecord ==
  ASSUME PlanTypeOK, NEW st \in PlanStatus, UpdatePlan(st)
  PROVE  SameResults(plan, plan')
<1>1. plan \in Plan /\ 0 \in Nat /\ plan' = [Resaved(plan) EXCEPT !.status = st]
  BY DEF PlanTypeOK, UpdatePlan
<1>2. plan'.steps = Resaved(plan).steps
  BY <1>1, StatusSet
<1> QED BY <1>2, ResavedRecord

-----------------------------------------------------------------------------
(* Every step of the system writes the plan in one of these ways. *)
Writes ==
  \/ plan' = plan \/ plan' = NoPlan \/ plan' = edit.saves
  \/ \E c \in Contents : plan' = Created(c) /\ Oddities(c) \subseteq disturbed'
  \/ \E n, st : st \in StepStatus /\ UpdateStep(n, st)
  \/ plan'.steps = Resaved(plan).steps

(* What an executor writes. *)
LEMMA ExecutorWrites ==
  ASSUME PlanTypeOK, NEW e \in Executors, ExecutorStep(e)
  PROVE  Writes
<1>1. plan \in Plan
  BY DEF PlanTypeOK
<1>2. ASSUME NEW st \in PlanStatus, NEW c, Updates(e, st, c)
      PROVE  Writes
  <2>1. CASE UpdatePlan(st)
    <3>1. 0 \in Nat /\ plan' = [Resaved(plan) EXCEPT !.status = st]
      BY <2>1 DEF UpdatePlan
    <3>2. plan'.steps = Resaved(plan).steps
      BY <1>1, <3>1, StatusSet
    <3> QED BY <3>2 DEF Writes
  <2> QED BY <1>2, <2>1 DEF Updates, Writes
<1>3. CASE MarkPlanRunning(e) \/ MarkPlanCompleted(e) \/ MarkPlanFailed(e)
  BY <1>2, <1>3 DEF MarkPlanRunning, MarkPlanCompleted, MarkPlanFailed, PlanStatus
<1>4. CASE StepRefused(e) \/ MarkStepRunning(e) \/ RecordSuccess(e) \/ RecordFailure(e)
  BY <1>4 DEF StepRefused, MarkStepRunning, RecordSuccess, RecordFailure, StepUpdate, Writes, StepStatus
<1>5. CASE UNCHANGED plan
  BY <1>5 DEF Writes
<1> QED BY <1>3, <1>4, <1>5 DEF ExecutorStep, PassOver, ReadStep, HandlerEnds, RecordSuccessThrows, Release

(* What anybody writes. *)
LEMMA StepWrites ==
  ASSUME PlanTypeOK, PlanNext
  PROVE  Writes
<1>1. plan \in Plan /\ resuming.current \in Nat
  BY DEF PlanTypeOK
<1>2. CASE \E e \in Executors : ExecutorStep(e)
  BY <1>2, ExecutorWrites
<1>3. CASE Pause \/ Cancel
  <2>1. PICK st \in PlanStatus : UpdatePlan(st)
    BY <1>3 DEF Pause, Cancel, PlanStatus
  <2>2. 0 \in Nat /\ plan' = [Resaved(plan) EXCEPT !.status = st]
    BY <2>1 DEF UpdatePlan
  <2>3. plan'.steps = Resaved(plan).steps
    BY <1>1, <2>2, StatusSet
  <2> QED BY <2>3 DEF Writes
<1>4. CASE ResumeWrites
  <2>1. "running" \in PlanStatus
    BY DEF PlanStatus
  <2>2. plan' = plan \/ plan'.steps = Resaved(plan).steps
    BY <1>1, <1>4, <2>1, StatusSet DEF ResumeWrites
  <2> QED BY <2>2 DEF Writes
<1>5. CASE \E i \in DOMAIN plan.steps : SkipStep(plan.steps[i].number)
  BY <1>5 DEF SkipStep, Writes, StepStatus
<1>6. CASE Delete \/ (\E c \in Contents : Create(c)) \/ EditSaves
  BY <1>6 DEF Delete, Create, EditSaves, Writes
<1>7. CASE UNCHANGED plan
  BY <1>7 DEF Writes
<1> QED
  BY <1>2, <1>3, <1>4, <1>5, <1>6, <1>7
  DEF PlanNext, Execute, ResumeReads, EditReads, Crash

(* An edit stays, is gone, or is one of the plan as it is. *)
LEMMA EditChanges ==
  ASSUME PlanTypeOK, PlanNext
  PROVE  \/ edit' = edit \/ edit' = NoEdit
         \/ /\ plan' = plan
            /\ \/ \E p \in Rewordings : edit' = [saves |-> p, base |-> plan, moves |-> FALSE]
               \/ \E p \in Restructurings : edit' = [saves |-> p, base |-> plan, moves |-> TRUE]
<1>1. CASE \E e \in Executors : ExecutorStep(e)
  BY <1>1, ExecutorMoves
<1>2. CASE \E e \in Executors, o \in Options : Execute(e, o)
  BY <1>2 DEF Execute, user
<1>3. CASE \/ \E p \in Rewordings : EditReads(p, FALSE)
           \/ \E p \in Restructurings : EditReads(p, TRUE)
  BY <1>3 DEF EditReads
<1>4. CASE EditSaves \/ Crash
  BY <1>4 DEF EditSaves, Crash
<1> QED
  BY <1>1, <1>2, <1>3, <1>4
  DEF PlanNext, Pause, Cancel, ResumeReads, ResumeWrites, Delete, Create, SkipStep

Numbered(p) == \A i \in DOMAIN p.steps : p.steps[i].number = i

(* Steps are numbered by their places, unless a content had other numbers; and an
   edit of the descriptions has the results of the plan it was computed from. *)
NumbersInv ==
  /\ ~edit.moves => SameResults(edit.base, edit.saves)
  /\ Calm({"misnumbered"}) => Numbered(plan) /\ Numbered(edit.saves)

(* That is so where nothing has happened. *)
LEMMA NumbersAtFirst ==
  /\ \A c \in Contents : "misnumbered" \notin Oddities(c) => Numbered(Created(c))
  /\ Numbered(NoPlan)
  /\ NoEdit.saves = NoPlan /\ NoEdit.base = NoPlan /\ NoEdit.moves = FALSE
  /\ SameResults(NoPlan, NoPlan)
<1>1. \A c \in Contents : Created(c).steps = c
  BY CreatedPlan
<1>2. \A c \in Contents : "misnumbered" \notin Oddities(c) => \A i \in DOMAIN c : c[i].number = i
  BY DEF Oddities
<1>3. \A c \in Contents : "misnumbered" \notin Oddities(c) => Numbered(Created(c))
  BY <1>1, <1>2 DEF Numbered
<1> QED BY <1>3 DEF Numbered, NoPlan, NoEdit, SameResults

(* And it stays so. *)
LEMMA NumbersStep ==
  ASSUME PlanTypeOK, NumbersInv, PlanNext
  PROVE  NumbersInv'
<1>1. disturbed \subseteq disturbed' /\ plan \in Plan
  BY CalmBefore DEF PlanTypeOK
<1>2. ASSUME Calm({"misnumbered"})'
      PROVE  Numbered(plan')
  <2>1. Numbered(plan) /\ Numbered(edit.saves)
    BY <1>1, <1>2 DEF NumbersInv, Calm
  <2>2. SameResults(plan, plan') => Numbered(plan')
    BY <2>1 DEF SameResults, Numbered
  <2>3. CASE \E n, st : st \in StepStatus /\ UpdateStep(n, st)
    <3>1. PICK n, st : st \in StepStatus /\ UpdateStep(n, st)
      BY <2>3
    <3>2. PICK k \in DOMAIN plan.steps : Recorded(plan, plan', k, st)
      BY <3>1, StepRecorded
    <3> QED BY <2>1, <3>2 DEF Recorded, Numbered
  <2>4. CASE plan'.steps = Resaved(plan).steps
    BY <2>2, <2>4, ResavedRecord
  <2>5. CASE \E c \in Contents : plan' = Created(c) /\ Oddities(c) \subseteq disturbed'
    BY <1>2, <2>5, NumbersAtFirst DEF Calm
  <2> QED BY <2>1, <2>3, <2>4, <2>5, StepWrites, NumbersAtFirst DEF Writes
<1>3. /\ ~edit'.moves => SameResults(edit'.base, edit'.saves)
      /\ Calm({"misnumbered"})' => Numbered(edit'.saves)
  <2>1. CASE edit' = edit
    BY <1>1, <2>1 DEF NumbersInv, Calm
  <2>2. CASE edit' = NoEdit
    BY <2>2, NumbersAtFirst
  <2>3. ASSUME NEW p \in Rewordings, edit' = [saves |-> p, base |-> plan, moves |-> FALSE]
        PROVE  /\ ~edit'.moves => SameResults(edit'.base, edit'.saves)
               /\ Calm({"misnumbered"})' => Numbered(edit'.saves)
    <3>1. edit'.saves = p /\ edit'.base = plan
      BY <2>3
    <3>2. SameResults(plan, p)
      BY <1>1, RewordedPlan
    <3>3. Numbered(plan) => Numbered(p)
      BY <3>2 DEF SameResults, Numbered
    <3> QED BY <1>1, <3>1, <3>2, <3>3 DEF NumbersInv, Calm
  <2>4. ASSUME NEW p \in Restructurings, edit' = [saves |-> p, base |-> plan, moves |-> TRUE]
        PROVE  edit'.moves /\ Numbered(edit'.saves)
    <3>1. edit'.saves = p /\ edit'.moves
      BY <2>4
    <3>2. Numbered(p)
      BY <1>1, RestructuredPlan DEF Numbered
    <3> QED BY <3>1, <3>2
  <2> QED BY <2>1, <2>2, <2>3, <2>4, EditChanges
<1> QED BY <1>2, <1>3 DEF NumbersInv

(* So it is for every plan and every edit of it. *)
LEMMA NumbersInvariant == PlanSpec => []NumbersInv
<1>1. PlanInit => NumbersInv
  BY NumbersAtFirst DEF PlanInit, NumbersInv, Calm
<1>2. PlanTypeOK /\ NumbersInv /\ [PlanNext]_vars => NumbersInv'
  <2>1. UNCHANGED vars /\ NumbersInv => NumbersInv'
    BY DEF vars, NumbersInv, Calm
  <2> QED BY <2>1, NumbersStep
<1> QED BY <1>1, <1>2, PlanTypes, PTL DEF PlanSpec

-----------------------------------------------------------------------------
(* What is ahead of an executor *)

Early   == {"opening", "walking", "asked", "running", "recording"}
Working == {"running", "recording"}

\* A step ahead that was not settled when the executor read the plan is not
\* completed; it asks about, and begins, only such a step.
Ahead(x, p) ==
  /\ x.pc \in Early =>
       \A j \in DOMAIN p.steps :
         x.i <= j /\ j <= Len(x.walk) /\ ~x.walk[j].settled => p.steps[j].status # "completed"
  /\ x.pc = "asked" => ~x.walk[x.i].settled

\* The executor goes on in the snapshot it has read, never back.
GoesOn(x, y) == y.walk = x.walk /\ y.i \in Nat /\ x.i <= y.i /\ (y.pc \in Early => x.pc \in Early)

(* The places that follow a success and a failure are no earlier ones. *)
LEMMA OnwardPlace ==
  ASSUME NEW x \in Executor, NEW n \in Nat \ {0}, NEW k \in Nat
  PROVE  LET y == Onward(x, n, k) IN y.pc = "walking" /\ y.walk = x.walk /\ y.i = n
<1> DEFINE a == [x EXCEPT !.pc = "walking"]
           b == [a EXCEPT !.i = n]
           y == [b EXCEPT !.retries = k]
<1>1. a \in Executor /\ a.pc = "walking" /\ a.walk = x.walk
  BY DEF Executor, Pc
<1> HIDE DEF a
<1>2. b \in Executor /\ b.pc = "walking" /\ b.walk = x.walk /\ b.i = n
  BY <1>1 DEF Executor
<1> HIDE DEF b
<1>3. y.pc = "walking" /\ y.walk = x.walk /\ y.i = n
  BY <1>2 DEF Executor
<1>4. Onward(x, n, k) = y
  BY DEF a, b, Onward
<1> HIDE DEF y
<1> QED BY <1>3, <1>4

(* A retry stays at the step, anything else goes to the next one or ends. *)
LEMMA AfterPlace ==
  ASSUME NEW x \in Executor, x.i # 0
  PROVE  /\ AfterFailure(x).walk = x.walk /\ AfterFailure(x).i \in {x.i, x.i + 1}
         /\ AfterFailure(x).pc \in {"walking", "failing"}
         /\ AfterSuccess(x).walk = x.walk /\ AfterSuccess(x).i \in {x.i, x.i + 1}
         /\ \/ AfterSuccess(x).pc = "leaving"
            \/ AfterSuccess(x).pc = "walking" /\ AfterSuccess(x).i = x.i + 1
<1>1. x.i \in Nat \ {0} /\ x.i + 1 \in Nat \ {0} /\ x.retries + 1 \in Nat
  BY DEF Executor
<1>2. LET y == Onward(x, x.i + 1, 0) IN y.pc = "walking" /\ y.walk = x.walk /\ y.i = x.i + 1
  <2> DEFINE n == x.i + 1
             k == 0
  <2>1. n \in Nat \ {0} /\ k \in Nat
    BY <1>1
  <2> HIDE DEF n, k
  <2>2. LET y == Onward(x, n, k) IN y.pc = "walking" /\ y.walk = x.walk /\ y.i = n
    BY <2>1, OnwardPlace
  <2> QED BY <2>2 DEF n, k
<1>3. LET y == [x EXCEPT !.pc = "walking", !.retries = x.retries + 1]
      IN y.pc = "walking" /\ y.walk = x.walk /\ y.i = x.i
  <2> DEFINE a == [x EXCEPT !.pc = "walking"]
             k == x.retries + 1
             y == [a EXCEPT !.retries = k]
  <2>1. a \in Executor /\ a.pc = "walking" /\ a.walk = x.walk /\ a.i = x.i
    BY DEF Executor, Pc
  <2> HIDE DEF a
  <2>2. y.pc = "walking" /\ y.walk = x.walk /\ y.i = x.i
    BY <2>1 DEF Executor
  <2> QED BY <2>2 DEF a
<1>4. ASSUME NEW c \in {"failing", "leaving"}
      PROVE  LET y == [x EXCEPT !.pc = c] IN y.pc = c /\ y.walk = x.walk /\ y.i = x.i
  BY DEF Executor
<1>5. \/ AfterFailure(x) = Onward(x, x.i + 1, 0)
      \/ AfterFailure(x) = [x EXCEPT !.pc = "walking", !.retries = x.retries + 1]
      \/ AfterFailure(x) = [x EXCEPT !.pc = "failing"]
  BY DEF AfterFailure, Onward
<1>6. AfterSuccess(x) = Onward(x, x.i + 1, 0) \/ AfterSuccess(x) = [x EXCEPT !.pc = "leaving"]
  BY DEF AfterSuccess, Onward
<1> QED BY <1>2, <1>3, <1>4, <1>5, <1>6

\* What an executor does that goes on at y.
Between(x, y) ==
  /\ SameResults(plan, plan')
  /\ x.pc \notin Working /\ y.pc \notin Working
  /\ y.pc = "asked" => ~y.walk[y.i].settled

Refuses(x, y) == UpdateStep(x.i, "skipped") /\ x.pc = "asked" /\ y.pc \in {"walking", "leaving"}
Begins(x, y)  == UpdateStep(x.i, "running") /\ x.pc = "asked" /\ y.pc = "running" /\ y.i = x.i
RunsOn(x, y)    == plan' = plan /\ x.pc \in Working /\ y.pc = "recording" /\ y.i = x.i
Succeeds(x, y) ==
  /\ UpdateStep(x.i, "completed") /\ x.pc = "recording"
  /\ y.pc = "leaving" \/ (y.pc = "walking" /\ y.i = x.i + 1)
Fails(x, y) == UpdateStep(x.i, "failed") /\ x.pc = "recording" /\ y.pc \in {"walking", "failing"}

StepOf(x, y) ==
  Between(x, y) \/ Refuses(x, y) \/ Begins(x, y) \/ RunsOn(x, y) \/ Succeeds(x, y) \/ Fails(x, y)

\* It gives up; one that ran a step only because the step is gone.
Quits(e) ==
  /\ Leave(e) /\ plan' = plan
  /\ executors[e].pc \in Working => Gone(executors[e].i)

(* Every step of an executor either ends it or is one of these. *)
LEMMA KindsOfExecutorStep ==
  ASSUME PlanTypeOK, NEW e \in Executors, ExecutorStep(e)
  PROVE  \/ Quits(e)
         \/ \E y : /\ Goes(e, y) /\ UNCHANGED executing
                   /\ y # Idle /\ GoesOn(executors[e], y) /\ StepOf(executors[e], y)
<1> DEFINE x == executors[e]
           Steps == \E y : /\ Goes(e, y) /\ UNCHANGED executing
                           /\ y # Idle /\ GoesOn(x, y) /\ StepOf(x, y)
<1> SUFFICES Quits(e) \/ Steps
  OBVIOUS
<1>1. x \in Executor /\ x.i \in Nat /\ x.pc # "idle" /\ x.i # 0 /\ plan \in Plan
  <2>1. x \in Executor /\ (x.pc = "idle" => x = Idle) /\ (x.pc # "idle" => x.i # 0) /\ plan \in Plan
    BY DEF PlanTypeOK, WalkOK
  <2>2. executors[e] # Idle
    BY ExecutorMoves
  <2> QED BY <2>1, <2>2 DEF Executor
<1>2. plan' = plan => SameResults(plan, plan')
  BY DEF SameResults
<1> HIDE DEF x
<1>3. ASSUME NEW y, Goes(e, y), UNCHANGED executing, y.pc # "idle", GoesOn(x, y), StepOf(x, y)
      PROVE  Steps
  <2>1. y # Idle
    BY <1>3, IdleFits
  <2> QED BY <1>3, <2>1
<1>4. ASSUME NEW c \in Pc
      PROVE  LET y == [x EXCEPT !.pc = c] IN y.pc = c /\ y.walk = x.walk /\ y.i = x.i
  BY <1>1, WithPc
<1>5. ASSUME NEW st \in PlanStatus, NEW c \in Pc \ (Working \cup {"idle", "asked"}), Updates(e, st, c),
             x.pc \notin Working, c \in Early => x.pc \in Early
      PROVE  Quits(e) \/ Steps
  <2>1. CASE Leave(e) /\ UNCHANGED plan
    BY <1>5, <2>1 DEF Quits, x
  <2>2. CASE UpdatePlan(st) /\ Goes(e, [x EXCEPT !.pc = c]) /\ UNCHANGED executing
    <3> DEFINE y == [x EXCEPT !.pc = c]
    <3>1. y.pc = c /\ y.walk = x.walk /\ y.i = x.i
      BY <1>4
    <3>2. Goes(e, y)
      BY <2>2
    <3> HIDE DEF y
    <3>3. SameResults(plan, plan')
      BY <2>2, StatusRecord
    <3>4. StepOf(x, y) /\ GoesOn(x, y)
      BY <1>1, <1>5, <3>1, <3>3 DEF StepOf, Between, GoesOn
    <3> QED BY <1>3, <1>5, <2>2, <3>1, <3>2, <3>4
  <2> QED BY <1>5, <2>1, <2>2 DEF Updates, x
<1>6. CASE MarkPlanRunning(e) \/ MarkPlanCompleted(e) \/ MarkPlanFailed(e)
  BY <1>5, <1>6
  DEF MarkPlanRunning, MarkPlanCompleted, MarkPlanFailed, At, PlanStatus, Pc, Working, Early, x
<1>7. CASE PassOver(e)
  <2>0. plan' = plan /\ SameResults(plan, plan')
    BY <1>2, <1>7 DEF PassOver
  <2>1. x.pc = "walking" /\ UNCHANGED executing
    BY <1>7 DEF PassOver, At, x
  <2>2. ASSUME NEW y, Goes(e, y), y.walk = x.walk, y.i \in {x.i, x.i + 1}, y.pc \in {"finishing", "walking"}
        PROVE  Steps
    <3>1. Between(x, y) /\ GoesOn(x, y)
      BY <1>1, <2>0, <2>1, <2>2 DEF Between, GoesOn, Working, Early
    <3>2. StepOf(x, y)
      BY <3>1 DEF StepOf
    <3>3. y.pc # "idle"
      BY <2>2
    <3> QED BY <1>3, <2>1, <2>2, <3>1, <3>2, <3>3
  <2>3. /\ [x EXCEPT !.pc = "finishing"].walk = x.walk /\ [x EXCEPT !.pc = "finishing"].i = x.i
        /\ [x EXCEPT !.pc = "finishing"].pc = "finishing"
    BY <1>4 DEF Pc
  <2>4. /\ [x EXCEPT !.i = x.i + 1].walk = x.walk /\ [x EXCEPT !.i = x.i + 1].i = x.i + 1
        /\ [x EXCEPT !.i = x.i + 1].pc = x.pc
    BY <1>1 DEF Executor
  <2>5. Goes(e, [x EXCEPT !.pc = "finishing"]) \/ Goes(e, [x EXCEPT !.i = x.i + 1])
    BY <1>7 DEF PassOver, x
  <2> QED BY <2>1, <2>2, <2>3, <2>4, <2>5
<1>8. CASE ReadStep(e)
  <2>0. plan' = plan /\ SameResults(plan, plan')
    BY <1>2, <1>8 DEF ReadStep
  <2>1. /\ x.pc = "walking" /\ ~x.walk[x.i].settled
        /\ \/ Leave(e)
           \/ Goes(e, AfterFailure(x)) /\ UNCHANGED executing
           \/ \E k \in DOMAIN plan.steps :
                Goes(e, [x EXCEPT !.pc = "asked", !.task = plan.steps[k].task]) /\ UNCHANGED executing
    BY <1>8 DEF ReadStep, At, x
  <2>2. CASE Goes(e, AfterFailure(x)) /\ UNCHANGED executing
    <3> DEFINE y == AfterFailure(x)
    <3>1. y.walk = x.walk /\ y.i \in {x.i, x.i + 1} /\ y.pc \in {"walking", "failing"}
      BY <1>1, AfterPlace
    <3>2. Goes(e, y)
      BY <2>2
    <3> HIDE DEF y
    <3>3. Between(x, y) /\ GoesOn(x, y)
      <4>1. x.pc \notin Working /\ y.pc \notin Working /\ (y.pc = "asked" => ~y.walk[y.i].settled)
        BY <2>1, <3>1 DEF Working
      <4>2. y.i \in Nat /\ x.i <= y.i
        BY <1>1, <3>1
      <4>3. GoesOn(x, y)
        BY <2>1, <3>1, <4>2 DEF GoesOn, Early
      <4> QED BY <2>0, <4>1, <4>3 DEF Between
    <3>4. StepOf(x, y) /\ y.pc # "idle"
      BY <3>1, <3>3 DEF StepOf
    <3> QED BY <1>3, <2>2, <3>2, <3>3, <3>4
  <2>3. ASSUME NEW k \in DOMAIN plan.steps,
               Goes(e, [x EXCEPT !.pc = "asked", !.task = plan.steps[k].task]), UNCHANGED executing
        PROVE  Steps
    <3> DEFINE t == plan.steps[k].task
               a == [x EXCEPT !.pc = "asked"]
               y == [a EXCEPT !.task = t]
    <3>1. a \in Executor /\ a.pc = "asked" /\ a.walk = x.walk /\ a.i = x.i
      BY <1>1, WithPc DEF Pc
    <3>2. Goes(e, y)
      BY <2>3
    <3> HIDE DEF a, t
    <3>3. y.pc = "asked" /\ y.walk = x.walk /\ y.i = x.i
      BY <3>1 DEF Executor
    <3> HIDE DEF y
    <3>4. Between(x, y) /\ GoesOn(x, y)
      <4>1. x.pc \notin Working /\ y.pc \notin Working /\ (y.pc = "asked" => ~y.walk[y.i].settled)
        BY <2>1, <3>3 DEF Working
      <4>2. y.i \in Nat /\ x.i <= y.i
        BY <1>1, <3>3
      <4>3. GoesOn(x, y)
        BY <2>1, <3>3, <4>2 DEF GoesOn, Early
      <4> QED BY <2>0, <4>1, <4>3 DEF Between
    <3>5. StepOf(x, y) /\ y.pc # "idle"
      BY <3>3, <3>4 DEF StepOf
    <3> QED BY <1>3, <2>3, <3>2, <3>4, <3>5
  <2> QED BY <2>0, <2>1, <2>2, <2>3 DEF Quits, Working, x
<1>9. CASE StepRefused(e)
  <2>1. /\ x.pc = "asked"
        /\ \/ UpdateStep(x.i, "skipped") /\ Goes(e, AfterSuccess(x)) /\ UNCHANGED executing
           \/ Leave(e) /\ UNCHANGED plan
    BY <1>9 DEF StepRefused, StepUpdate, At, x
  <2> DEFINE y == AfterSuccess(x)
  <2>2. y.walk = x.walk /\ y.i \in {x.i, x.i + 1} /\ y.pc \in {"walking", "leaving"}
    BY <1>1, AfterPlace
  <2> HIDE DEF y
  <2>3. GoesOn(x, y) /\ (UpdateStep(x.i, "skipped") => StepOf(x, y))
    BY <1>1, <2>1, <2>2 DEF StepOf, Refuses, GoesOn, Early
  <2>4. y.pc # "idle"
    BY <2>2
  <2> QED BY <1>3, <2>1, <2>3, <2>4 DEF y, Quits, Working, x
<1>10. CASE MarkStepRunning(e)
  <2>1. /\ x.pc = "asked"
        /\ \/ UpdateStep(x.i, "running") /\ Goes(e, [x EXCEPT !.pc = "running"]) /\ UNCHANGED executing
           \/ Leave(e) /\ UNCHANGED plan
    BY <1>10 DEF MarkStepRunning, StepUpdate, At, x
  <2> DEFINE y == [x EXCEPT !.pc = "running"]
  <2>2. y.walk = x.walk /\ y.i = x.i /\ y.pc = "running"
    BY <1>4 DEF Pc
  <2>3. UpdateStep(x.i, "running") /\ Goes(e, y) /\ UNCHANGED executing => Steps
    <3> HIDE DEF y
    <3>1. GoesOn(x, y) /\ (UpdateStep(x.i, "running") => StepOf(x, y)) /\ y.pc # "idle"
      BY <1>1, <2>1, <2>2 DEF StepOf, Begins, GoesOn, Early
    <3> QED BY <1>3, <3>1
  <2> QED BY <2>1, <2>3 DEF Quits, Working, x
<1>11. CASE \E ok \in BOOLEAN : HandlerEnds(e, ok)
  <2>1. PICK ok \in BOOLEAN : HandlerEnds(e, ok)
    BY <1>11
  <2> DEFINE a == [x EXCEPT !.pc = "recording"]
             y == [a EXCEPT !.ok = ok]
  <2>2. x.pc = "running" /\ Goes(e, y) /\ plan' = plan /\ UNCHANGED executing
    BY <2>1 DEF HandlerEnds, At, x
  <2>3. a \in Executor /\ a.pc = "recording" /\ a.walk = x.walk /\ a.i = x.i
    BY <1>1, WithPc DEF Pc
  <2> HIDE DEF a
  <2>4. y.pc = "recording" /\ y.walk = x.walk /\ y.i = x.i
    BY <2>3 DEF Executor
  <2> HIDE DEF y
  <2>5. GoesOn(x, y) /\ StepOf(x, y) /\ y.pc # "idle"
    BY <1>1, <2>2, <2>4 DEF StepOf, RunsOn, GoesOn, Early, Working
  <2> QED BY <1>3, <2>2, <2>5
<1>12. CASE RecordSuccessThrows(e)
  <2> DEFINE y == [x EXCEPT !.ok = FALSE]
  <2>1. x.pc = "recording" /\ Goes(e, y) /\ plan' = plan /\ UNCHANGED executing
    BY <1>12 DEF RecordSuccessThrows, At, x
  <2>2. y.pc = "recording" /\ y.walk = x.walk /\ y.i = x.i
    BY <1>1, <2>1 DEF Executor
  <2> HIDE DEF y
  <2>3. GoesOn(x, y) /\ StepOf(x, y) /\ y.pc # "idle"
    BY <1>1, <2>1, <2>2 DEF StepOf, RunsOn, GoesOn, Early, Working
  <2> QED BY <1>3, <2>1, <2>3
<1>13. CASE RecordSuccess(e)
  <2> DEFINE y == AfterSuccess(x)
  <2>1. x.pc = "recording" /\ UpdateStep(x.i, "completed") /\ Goes(e, y) /\ UNCHANGED executing
    BY <1>13 DEF RecordSuccess, At, x
  <2>2. /\ y.walk = x.walk /\ y.i \in {x.i, x.i + 1}
        /\ y.pc = "leaving" \/ (y.pc = "walking" /\ y.i = x.i + 1)
    BY <1>1, AfterPlace
  <2> HIDE DEF y
  <2>3. GoesOn(x, y) /\ StepOf(x, y) /\ y.pc # "idle"
    BY <1>1, <2>1, <2>2 DEF StepOf, Succeeds, GoesOn, Early
  <2> QED BY <1>3, <2>1, <2>3
<1>14. CASE RecordFailure(e)
  <2>1. /\ x.pc = "recording"
        /\ \/ UpdateStep(x.i, "failed") /\ Goes(e, AfterFailure(x)) /\ UNCHANGED executing
           \/ Leave(e) /\ UNCHANGED plan /\ Gone(x.i)
    BY <1>14 DEF RecordFailure, StepUpdate, At, x
  <2> DEFINE y == AfterFailure(x)
  <2>2. y.walk = x.walk /\ y.i \in {x.i, x.i + 1} /\ y.pc \in {"walking", "failing"}
    BY <1>1, AfterPlace
  <2> HIDE DEF y
  <2>3. GoesOn(x, y) /\ (UpdateStep(x.i, "failed") => StepOf(x, y)) /\ y.pc # "idle"
    BY <1>1, <2>1, <2>2 DEF StepOf, Fails, GoesOn, Early
  <2> QED BY <1>3, <2>1, <2>3 DEF y, Quits, x
<1>15. CASE Release(e)
  BY <1>15 DEF Release, Quits, At, Working
<1> QED
  BY <1>6, <1>7, <1>8, <1>9, <1>10, <1>11, <1>12, <1>13, <1>14, <1>15 DEF ExecutorStep

(* An executor keeps what is ahead of it whenever the results stay as they are, a
   step gets another one than completed, or the plan is deleted. *)
LEMMA AheadKept ==
  ASSUME NEW x, NEW p, NEW q, Ahead(x, p),
         \/ SameResults(p, q)
         \/ \E k, st : st # "completed" /\ Recorded(p, q, k, st)
         \/ q.steps = <<>>
  PROVE  Ahead(x, q)
<1>1. CASE SameResults(p, q)
  BY <1>1 DEF Ahead, SameResults
<1>2. ASSUME NEW k, NEW st, st # "completed", Recorded(p, q, k, st)
      PROVE  Ahead(x, q)
  BY <1>2 DEF Ahead, Recorded
<1>3. CASE q.steps = <<>>
  BY <1>3 DEF Ahead
<1> QED BY <1>1, <1>2, <1>3

(* It keeps it when it goes on itself: what it completes is behind it then, if the
   steps are numbered by their places. *)
LEMMA AheadGoesOn ==
  ASSUME PlanTypeOK, Numbered(plan), NEW x \in Executor, NEW y,
         Ahead(x, plan), GoesOn(x, y), StepOf(x, y)
  PROVE  Ahead(y, plan')
<1>1. x.i \in Nat /\ y.i \in Nat /\ x.i <= y.i /\ y.walk = x.walk /\ (y.pc \in Early => x.pc \in Early)
  BY DEF Executor, GoesOn
<1>2. plan.steps \in Seq(Step) /\ DOMAIN plan.steps = 1..Len(plan.steps) /\ Len(plan.steps) \in Nat
  <2>1. plan.steps \in Seq(Step)
    BY DEF PlanTypeOK, Plan
  <2> QED BY <2>1, LenProperties
<1>3. y.pc = "asked" => ~y.walk[y.i].settled
  BY DEF StepOf, Between, Refuses, Begins, RunsOn, Succeeds, Fails
<1>4. ASSUME Ahead(x, plan')
      PROVE  Ahead(y, plan')
  <2>1. ASSUME y.pc \in Early, NEW j \in DOMAIN plan'.steps,
               y.i <= j, j <= Len(y.walk), ~y.walk[j].settled, j \in Nat
        PROVE  plan'.steps[j].status # "completed"
    BY <1>1, <1>4, <2>1 DEF Ahead
  <2>2. DOMAIN plan'.steps \subseteq Nat
    <3>1. CASE Succeeds(x, y) \/ Refuses(x, y) \/ Begins(x, y) \/ Fails(x, y)
      <4>1. PICK st \in StepStatus : UpdateStep(x.i, st)
        BY <3>1 DEF Succeeds, Refuses, Begins, Fails, StepStatus
      <4>2. DOMAIN plan'.steps = DOMAIN plan.steps
        BY <4>1, StepRecorded DEF Recorded
      <4> QED BY <1>2, <4>2
    <3>2. CASE Between(x, y)
      <4>1. DOMAIN plan'.steps = DOMAIN plan.steps
        BY <3>2 DEF Between, SameResults
      <4> QED BY <1>2, <4>1
    <3>3. CASE RunsOn(x, y)
      BY <1>2, <3>3 DEF RunsOn
    <3> QED BY <3>1, <3>2, <3>3 DEF StepOf
  <2> QED BY <1>3, <2>1, <2>2 DEF Ahead
<1>5. CASE Between(x, y) \/ RunsOn(x, y)
  <2>1. SameResults(plan, plan')
    BY <1>5 DEF Between, RunsOn, SameResults
  <2> QED BY <1>4, <2>1, AheadKept
<1>6. CASE Refuses(x, y) \/ Begins(x, y) \/ Fails(x, y)
  <2>1. PICK st \in StepStatus : st # "completed" /\ UpdateStep(x.i, st)
    BY <1>6 DEF Refuses, Begins, Fails, StepStatus
  <2>2. \E k : Recorded(plan, plan', k, st)
    BY <2>1, StepRecorded
  <2> QED BY <1>4, <2>1, <2>2, AheadKept
<1>7. CASE Succeeds(x, y)
  <2>1. /\ UpdateStep(x.i, "completed") /\ x.pc = "recording" /\ "completed" \in StepStatus
        /\ y.pc = "leaving" \/ (y.pc = "walking" /\ y.i = x.i + 1)
    BY <1>7 DEF Succeeds, StepStatus
  <2>2. PICK k \in DOMAIN plan.steps : Finds(plan.steps, x.i, k) /\ Recorded(plan, plan', k, "completed")
    BY <2>1, StepRecorded
  <2>3. k = x.i
    BY <2>2 DEF Finds, Numbered
  <2>4. ASSUME y.pc \in Early, NEW j \in DOMAIN plan.steps, y.i <= j, j <= Len(y.walk), ~y.walk[j].settled
        PROVE  plan'.steps[j].status # "completed"
    <3>1. y.i = x.i + 1
      BY <2>1, <2>4 DEF Early
    <3>2. j # x.i /\ x.i <= j
      BY <1>1, <1>2, <2>4, <3>1
    <3>3. plan.steps[j].status # "completed"
      BY <1>1, <2>1, <2>4, <3>2 DEF Ahead, Early
    <3> QED BY <2>2, <2>3, <3>2, <3>3 DEF Recorded
  <2>5. DOMAIN plan'.steps = DOMAIN plan.steps
    BY <2>2 DEF Recorded
  <2> QED BY <1>3, <2>4, <2>5 DEF Ahead
<1> QED BY <1>5, <1>6, <1>7 DEF StepOf

Kept == Calm({"overwritten", "renumbered", "misnumbered"})

AheadInv == Kept => \A e \in Executors : Ahead(executors[e], plan)

(* An edit saved beside an executor changes no result, or was said to. *)
LEMMA SavedRecord ==
  ASSUME NumbersInv, EditSaves, Kept', executing
  PROVE  SameResults(plan, plan')
<1>1. /\ plan' = edit.saves
      /\ plan # edit.base => "overwritten" \in disturbed'
      /\ edit.moves => "renumbered" \in disturbed'
  BY DEF EditSaves
<1>2. plan = edit.base /\ ~edit.moves
  BY <1>1 DEF Kept, Calm
<1> QED BY <1>1, <1>2 DEF NumbersInv

(* Nothing is ahead of an idle executor. *)
LEMMA AheadIdle == \A p : Ahead(Idle, p)
BY IdleFits DEF Ahead, Early

(* A call that starts has not settled what is not completed. *)
LEMMA AheadAtFirst ==
  ASSUME PlanTypeOK, NEW e \in Executors, NEW o, Execute(e, o)
  PROVE  Ahead(executors'[e], plan')
<1> DEFINE c == IF plan.status = "completed" THEN "leaving" ELSE "opening"
           w == Walk(plan)
           n == IF o.from # 0 THEN o.from ELSE IF plan.current = 0 THEN 1 ELSE plan.current
           y == [Idle EXCEPT !.pc = c, !.walk = w, !.i = n, !.opts = o]
<1>1. plan' = plan /\ executors' = [executors EXCEPT ![e] = y] /\ executors \in [Executors -> Executor]
  BY DEF Execute, Goes, PlanTypeOK
<1>2. c # "asked"
  OBVIOUS
<1>3. y.pc = c /\ y.walk = w
  <2> HIDE DEF c, w, n
  <2> QED BY DEF Idle
<1>4. \A j \in DOMAIN plan.steps : ~w[j].settled => plan.steps[j].status # "completed"
  BY DEF Walk
<1> HIDE DEF c, w, n, y
<1>5. executors'[e] = y
  BY <1>1
<1> QED BY <1>1, <1>2, <1>3, <1>4, <1>5 DEF Ahead

(* What is ahead of an executor stays so, unless somebody overwrites its steps. *)
LEMMA AheadStep ==
  ASSUME PlanTypeOK, NumbersInv, AheadInv, PlanNext
  PROVE  AheadInv'
<1> SUFFICES ASSUME Kept', NEW f \in Executors
             PROVE  Ahead(executors'[f], plan')
  BY DEF AheadInv
<1>1. Kept /\ Numbered(plan)
  <2>1. Kept
    BY CalmBefore DEF Kept, Calm
  <2> QED BY <2>1 DEF NumbersInv, Kept, Calm
<1>2. \A e \in Executors : Ahead(executors[e], plan) /\ executors[e] \in Executor
  BY <1>1 DEF AheadInv, PlanTypeOK
<1>3. executors \in [Executors -> Executor] /\ (~executing => executors[f] = Idle)
  BY DEF PlanTypeOK, LockOK
<1>4. CASE \E e \in Executors : ExecutorStep(e)
  <2>1. PICK e \in Executors : ExecutorStep(e)
    BY <1>4
  <2>2. CASE f = e
    <3>1. CASE Leave(e)
      BY <1>3, <2>2, <3>1, AheadIdle DEF Leave, Goes
    <3>2. ASSUME NEW y, Goes(e, y), GoesOn(executors[e], y), StepOf(executors[e], y)
          PROVE  Ahead(executors'[f], plan')
      <4>1. executors'[f] = y
        BY <1>3, <2>2, <3>2 DEF Goes
      <4> QED BY <1>1, <1>2, <3>2, <4>1, AheadGoesOn
    <3> QED BY <2>1, <3>1, <3>2, KindsOfExecutorStep DEF Quits
  <2>3. CASE f # e
    <3>1. executors[e] # Idle
      BY <2>1, ExecutorMoves
    <3>2. executors[f] = Idle
      BY <2>3, <3>1 DEF PlanTypeOK, LockOK
    <3>3. Leave(e) \/ \E y : Goes(e, y)
      BY <2>1, ExecutorMoves
    <3>4. executors'[f] = executors[f]
      BY <1>3, <2>3, <3>3 DEF Leave, Goes
    <3> QED BY <3>2, <3>4, AheadIdle
  <2> QED BY <2>2, <2>3
<1>5. CASE \E e \in Executors, o \in Options : Execute(e, o)
  <2>1. PICK e \in Executors, o \in Options : Execute(e, o)
    BY <1>5
  <2>2. CASE f = e
    BY <2>1, <2>2, AheadAtFirst
  <2>3. CASE f # e
    <3>1. executors'[f] = executors[f] /\ plan' = plan
      BY <1>3, <2>1, <2>3 DEF Execute, Goes
    <3> QED BY <1>2, <3>1
  <2> QED BY <2>2, <2>3
<1>6. ASSUME executors' = executors,
             \/ SameResults(plan, plan')
             \/ \E k, st : st # "completed" /\ Recorded(plan, plan', k, st)
             \/ plan'.steps = <<>>
      PROVE  Ahead(executors'[f], plan')
  BY <1>2, <1>6, AheadKept
<1>7. CASE Pause \/ Cancel
  <2>1. PICK st \in PlanStatus : UpdatePlan(st) /\ executors' = executors
    BY <1>7 DEF Pause, Cancel, others, PlanStatus
  <2> QED BY <1>6, <2>1, StatusRecord
<1>8. CASE ResumeWrites
  <2>1. executors' = executors
    BY <1>8 DEF ResumeWrites, others
  <2>2. plan \in Plan /\ resuming.current \in Nat /\ "running" \in PlanStatus
    BY DEF PlanTypeOK, PlanStatus
  <2>3. plan' = plan \/ plan'.steps = Resaved(plan).steps
    BY <1>8, <2>2, StatusSet DEF ResumeWrites
  <2>4. CASE plan' = plan
    BY <1>2, <2>1, <2>4
  <2>5. CASE plan'.steps = Resaved(plan).steps
    BY <1>6, <2>1, <2>5, ResavedRecord
  <2> QED BY <2>3, <2>4, <2>5
<1>9. CASE \E i \in DOMAIN plan.steps : SkipStep(plan.steps[i].number)
  <2>1. PICK i \in DOMAIN plan.steps :
          UpdateStep(plan.steps[i].number, "skipped") /\ executors' = executors /\ "skipped" \in StepStatus
    BY <1>9 DEF SkipStep, others, StepStatus
  <2>2. \E k : Recorded(plan, plan', k, "skipped")
    BY <2>1, StepRecorded
  <2> QED BY <1>6, <2>1, <2>2
<1>10. CASE Delete
  BY <1>6, <1>10 DEF Delete, others, NoPlan
<1>11. CASE \E c \in Contents : Create(c)
  <2>1. ~executing /\ executors' = executors
    BY <1>11 DEF Create, others, Kept, Calm
  <2> QED BY <1>3, <2>1, AheadIdle
<1>12. CASE EditSaves
  <2>1. executors' = executors
    BY <1>12 DEF EditSaves, others
  <2>2. CASE executing
    BY <1>6, <1>12, <2>1, <2>2, SavedRecord
  <2>3. CASE ~executing
    BY <1>3, <2>1, <2>3, AheadIdle
  <2> QED BY <2>2, <2>3
<1>13. CASE Crash
  BY <1>13, AheadIdle DEF Crash
<1>14. CASE UNCHANGED <<executors, plan>>
  BY <1>2, <1>14
<1> QED
  BY <1>4, <1>5, <1>7, <1>8, <1>9, <1>10, <1>11, <1>12, <1>13, <1>14
  DEF PlanNext, ResumeReads, EditReads, others

(* No executor ever has a completed step to begin, unless somebody else wrote. *)
LEMMA AheadInvariant == PlanSpec => []AheadInv
<1>1. PlanInit => AheadInv
  BY AheadIdle DEF PlanInit, AheadInv
<1>2. PlanTypeOK /\ NumbersInv /\ AheadInv /\ [PlanNext]_vars => AheadInv'
  <2>1. UNCHANGED vars /\ AheadInv => AheadInv'
    BY DEF vars, AheadInv, Kept, Calm
  <2> QED BY <2>1, AheadStep
<1> QED BY <1>1, <1>2, PlanTypes, NumbersInvariant, PTL DEF PlanSpec

-----------------------------------------------------------------------------
(* The ledger *)

\* The step under way, of the calls in f.
BusyOf(f) ==
  LET U == {f[e].i : e \in {d \in Executors : f[d].pc = "running" \/ f[d].pc = "recording"}}
  IN IF U = {} THEN 0 ELSE CHOOSE i \in U : TRUE

(* There is none where no call runs a step, ... *)
LEMMA NoneBusy ==
  ASSUME NEW f, \A e \in Executors : f[e].pc \notin Working
  PROVE  BusyOf(f) = 0
BY DEF BusyOf, Working

(* ... and it is that of the one call at work otherwise. *)
LEMMA OneBusy ==
  ASSUME NEW f, NEW e \in Executors, \A d \in Executors \ {e} : f[d] = Idle
  PROVE  BusyOf(f) = IF f[e].pc \in Working THEN f[e].i ELSE 0
<1>1. \A d \in Executors \ {e} : f[d].pc \notin Working
  BY IdleFits DEF Working
<1>2. CASE f[e].pc \notin Working
  BY <1>1, <1>2, NoneBusy
<1>3. CASE f[e].pc \in Working
  <2> DEFINE U == {f[d].i : d \in {c \in Executors : f[c].pc = "running" \/ f[c].pc = "recording"}}
  <2>1. U = {f[e].i}
    BY <1>1, <1>3 DEF Working
  <2>2. BusyOf(f) = IF U = {} THEN 0 ELSE CHOOSE i \in U : TRUE
    BY DEF BusyOf
  <2> HIDE DEF U
  <2> QED BY <1>3, <2>1, <2>2
<1> QED BY <1>2, <1>3

(* The ledger's variables, in terms of the plan and its executors. *)
LEMMA LedgerVars ==
  /\ Record = Rec(plan) /\ Record' = Rec(plan')
  /\ Busy = BusyOf(executors) /\ Busy' = BusyOf(executors')
  /\ Loose = ~Kept /\ Loose' = ~Kept'
<1>1. Record = Rec(plan) /\ Record' = Rec(plan')
  BY DEF Rec, Record
<1>2. Busy = BusyOf(executors) /\ Busy' = BusyOf(executors')
  BY DEF UnderWay, BusyOf, Busy, At
<1>3. Loose = ~Kept /\ Loose' = ~Kept'
  BY DEF Kept, Loose
<1> QED BY <1>1, <1>2, <1>3

(* An executor that starts opens the ledger, ... *)
LEMMA Opens ==
  ASSUME ~executing, executing' = TRUE, Record' = Record, Busy' = Busy, Loose' = Loose
  PROVE  Ledger!LedgerNext
BY DEF Ledger!LedgerNext, Ledger!Open

(* ... and closes it when it ends. *)
LEMMA Closes ==
  ASSUME executing, executing' = FALSE, Record' = Record, Busy' = 0, Loose' = Loose
  PROVE  Ledger!LedgerNext
BY DEF Ledger!LedgerNext, Ledger!Close

(* It begins a step that is not completed, ... *)
LEMMA BeginsStep ==
  ASSUME NEW i \in DOMAIN Record, executing, Busy = 0, Busy' = i,
         Loose \/ Record[i] # "completed",
         Record' = Written(Record, i, "running"), executing' = executing, Loose' = Loose
  PROVE  Ledger!LedgerNext
<1>1. Ledger!BeginStep(i)
  BY DEF Ledger!BeginStep, Written
<1> QED BY <1>1 DEF Ledger!LedgerNext

(* ... and settles it. *)
LEMMA SettlesStep ==
  ASSUME NEW st \in {"completed", "failed"}, Busy \in DOMAIN Record, Busy' = 0,
         Record' = Written(Record, Busy, st), executing' = executing, Loose' = Loose
  PROVE  Ledger!LedgerNext
<1>1. Ledger!Settle(st)
  BY DEF Ledger!Settle, Written
<1> QED BY <1>1 DEF Ledger!LedgerNext

(* Anybody may skip a step, ... *)
LEMMA SkipsStep ==
  ASSUME NEW i \in DOMAIN Record,
         Record' = Written(Record, i, "skipped"),
         Busy' = Busy, executing' = executing, Loose' = Loose
  PROVE  Ledger!LedgerNext
<1>1. Ledger!Skip(i)
  BY DEF Ledger!Skip, Written
<1> QED BY <1>1 DEF Ledger!LedgerNext

(* ... remove the record, ... *)
LEMMA RemovesRecord ==
  ASSUME Record' = <<>>, Busy' = Busy, executing' = executing, Loose' = Loose
  PROVE  Ledger!LedgerNext
BY DEF Ledger!LedgerNext, Ledger!Remove

(* ... or write another one, which makes it loose if somebody is at work. *)
LEMMA RewritesRecord ==
  ASSUME Ledger!IsRecord(Record'), Loose \/ executing => Loose', Loose' \in BOOLEAN,
         Busy' = Busy, executing' = executing
  PROVE  Ledger!LedgerNext
<1>1. Ledger!Rewrite
  BY Zenon DEF Ledger!Rewrite
<1> QED BY <1>1 DEF Ledger!LedgerNext

(* A step that changes none of the ledger's variables is a stutter. *)
LEMMA LedgerStutters ==
  ASSUME Record' = Record, Busy' = Busy, executing' = executing, Loose' = Loose
  PROVE  UNCHANGED Ledger!ledgerVars
BY DEF Ledger!ledgerVars

(* What an executor does is what the ledger allows. *)
LEMMA ExecutorLedger ==
  ASSUME PlanTypeOK, PlanTypeOK', NumbersInv, AheadInv, NEW e \in Executors, ExecutorStep(e)
  PROVE  Ledger!LedgerNext \/ UNCHANGED Ledger!ledgerVars
<1> DEFINE x == executors[e]
<1>1. /\ x # Idle /\ disturbed' = disturbed
      /\ executing = TRUE /\ \A d \in Executors \ {e} : executors[d] = Idle
      /\ executors \in [Executors -> Executor] /\ plan \in Plan /\ plan' \in Plan /\ x \in Executor
  <2>1. executors[e] # Idle /\ disturbed' = disturbed
    BY ExecutorMoves
  <2> QED BY <2>1 DEF PlanTypeOK, LockOK
<1>2. Loose' = Loose
  BY <1>1 DEF Loose, Calm
<1>3. Busy = IF x.pc \in Working THEN x.i ELSE 0
  BY <1>1, OneBusy, LedgerVars
<1>4. Record = Rec(plan) /\ Record' = Rec(plan') /\ (SameResults(plan, plan') => Record' = Record)
  BY <1>1, LedgerVars, RecordSame
<1>5. CASE Leave(e) /\ plan' = plan
  <2>1. executing' = FALSE /\ \A d \in Executors : executors'[d] = Idle
    BY <1>1, <1>5 DEF Leave, Goes
  <2>2. \A d \in Executors : executors'[d].pc \notin Working
    BY <2>1, IdleFits DEF Working
  <2>4. SameResults(plan, plan')
    BY <1>5 DEF SameResults
  <2>3. Busy' = 0
    BY <2>2, NoneBusy, LedgerVars
  <2> QED BY <1>1, <1>2, <1>4, <2>1, <2>3, <2>4, Closes
<1>6. ASSUME NEW y, Goes(e, y), UNCHANGED executing, y # Idle, GoesOn(x, y), StepOf(x, y)
      PROVE  Ledger!LedgerNext \/ UNCHANGED Ledger!ledgerVars
  <2>1. executors'[e] = y /\ \A d \in Executors \ {e} : executors'[d] = Idle
    BY <1>1, <1>6 DEF Goes
  <2>2. Busy' = IF y.pc \in Working THEN y.i ELSE 0
    BY <2>1, OneBusy, LedgerVars
  <2>3. \A i, st : st \in StepStatus /\ UpdateStep(i, st) =>
          i \in DOMAIN Record /\ Record' = Written(Record, i, st)
    BY <1>4, StepRecorded
  <2>4. CASE Between(x, y)
    <3>1. Record' = Record /\ Busy = 0 /\ Busy' = 0
      BY <1>3, <1>4, <2>2, <2>4 DEF Between
    <3> QED BY <1>2, <1>6, <3>1, LedgerStutters
  <2>5. CASE Refuses(x, y)
    <3>1. x.i \in DOMAIN Record /\ Record' = Written(Record, x.i, "skipped")
      BY <2>3, <2>5 DEF Refuses, StepStatus
    <3>2. Busy = 0 /\ Busy' = 0
      BY <1>3, <2>2, <2>5 DEF Refuses, Working
    <3> QED BY <1>2, <1>6, <3>1, <3>2, SkipsStep
  <2>6. CASE Begins(x, y)
    <3>1. x.i \in DOMAIN Record /\ Record' = Written(Record, x.i, "running")
      BY <2>3, <2>6 DEF Begins, StepStatus
    <3>2. Busy = 0 /\ Busy' = x.i /\ x.pc = "asked"
      BY <1>3, <2>2, <2>6 DEF Begins, Working
    <3>3. Loose \/ Record[x.i] # "completed"
      <4> SUFFICES ASSUME Kept
                   PROVE  Record[x.i] # "completed"
        BY LedgerVars
      <4>1. Ahead(x, plan) /\ x.i <= Len(x.walk) /\ x.i \in Nat
        BY <1>1, <3>2 DEF AheadInv, PlanTypeOK, WalkOK, Executor
      <4>2. PICK k \in DOMAIN plan.steps : Finds(plan.steps, x.i, k)
        BY <1>1, <1>4, <3>1, RecordReads
      <4>3. k = x.i
        BY <4>2 DEF Finds, Numbered, NumbersInv, Kept, Calm
      <4>4. Record[x.i] = plan.steps[k].status
        <5>1. \A n, j : Finds(plan.steps, n, j) => Rec(plan)[n] = plan.steps[j].status
          BY <1>1, RecordReads, ZenonT(30)
        <5> HIDE DEF x
        <5>2. Rec(plan)[x.i] = plan.steps[k].status
          BY <4>2, <5>1
        <5>3. Record = Rec(plan)
          BY <1>4
        <5> QED BY <5>2, <5>3
      <4>5. plan.steps[x.i].status # "completed"
        BY <3>2, <4>1, <4>2, <4>3 DEF Ahead, Early
      <4> QED BY <4>3, <4>4, <4>5
    <3> QED BY <1>1, <1>2, <1>6, <3>1, <3>2, <3>3, BeginsStep
  <2>7. CASE RunsOn(x, y)
    <3>1. SameResults(plan, plan')
      BY <2>7 DEF RunsOn, SameResults
    <3>2. Busy' = Busy
      BY <1>3, <2>2, <2>7 DEF RunsOn, Working
    <3> QED BY <1>2, <1>4, <1>6, <3>1, <3>2, LedgerStutters
  <2>8. CASE Succeeds(x, y) \/ Fails(x, y)
    <3>1. PICK st \in {"completed", "failed"} : UpdateStep(x.i, st)
      BY <2>8 DEF Succeeds, Fails
    <3>2. x.i \in DOMAIN Record /\ Record' = Written(Record, x.i, st)
      BY <2>3, <3>1 DEF StepStatus
    <3>3. Busy = x.i /\ Busy' = 0
      BY <1>3, <2>2, <2>8 DEF Succeeds, Fails, Working
    <3> QED BY <1>2, <1>6, <3>2, <3>3, SettlesStep
  <2> QED BY <1>6, <2>4, <2>5, <2>6, <2>7, <2>8 DEF StepOf
<1> QED BY <1>5, <1>6, KindsOfExecutorStep DEF Quits

(* What anybody does is. *)
LEMMA LedgerStep ==
  ASSUME PlanTypeOK, PlanTypeOK', NumbersInv, AheadInv, PlanNext
  PROVE  Ledger!LedgerNext \/ UNCHANGED Ledger!ledgerVars
<1>1. /\ Record = Rec(plan) /\ Record' = Rec(plan') /\ Ledger!IsRecord(Record')
      /\ plan' = plan \/ SameResults(plan, plan') => Record' = Record
  <2>1. plan \in Plan /\ plan' \in Plan
    BY DEF PlanTypeOK
  <2>2. Record = Rec(plan) /\ Record' = Rec(plan')
    BY LedgerVars
  <2>3. Ledger!IsRecord(Rec(plan'))
    BY <2>1, RecIsRecord
  <2>4. plan' = plan \/ SameResults(plan, plan') => Rec(plan') = Rec(plan)
    BY <2>1, RecordSame
  <2>5. Ledger!IsRecord(Record')
    BY <2>2, <2>3, Zenon
  <2> QED BY <2>2, <2>4, <2>5
<1>2. executors' = executors => Busy' = Busy
  BY LedgerVars
<1>3. /\ Loose \in BOOLEAN /\ Loose' \in BOOLEAN /\ (Loose => Loose')
      /\ disturbed' = disturbed => Loose' = Loose
  BY CalmBefore DEF Loose, Calm
<1>4. ~executing => \A d \in Executors : executors[d].pc \notin Working
  BY IdleFits DEF PlanTypeOK, LockOK, Working
<1>5. CASE \E e \in Executors : ExecutorStep(e)
  BY <1>5, ExecutorLedger
<1>6. CASE \E e \in Executors, o \in Options : Execute(e, o)
  <2>1. PICK e \in Executors, o \in Options : Execute(e, o)
    BY <1>6
  <2>2. ~executing /\ executing' = TRUE /\ plan' = plan
    BY <2>1 DEF Execute
  <2>3. Loose' = Loose
    BY <2>1 DEF Execute, Loose, Calm
  <2>4. executors'[e].pc \in {"leaving", "opening"}
    <3> DEFINE c == IF plan.status = "completed" THEN "leaving" ELSE "opening"
               w == Walk(plan)
               n == IF o.from # 0 THEN o.from ELSE IF plan.current = 0 THEN 1 ELSE plan.current
               y == [Idle EXCEPT !.pc = c, !.walk = w, !.i = n, !.opts = o]
    <3>1. executors'[e] = y
      BY <2>1 DEF Execute, Goes, PlanTypeOK
    <3>2. c \in {"leaving", "opening"}
      OBVIOUS
    <3> HIDE DEF c, w, n
    <3>3. y.pc = c
      BY DEF Idle
    <3> QED BY <3>1, <3>2, <3>3
  <2>5. \A d \in Executors \ {e} : executors'[d] = executors[d]
    BY <2>1 DEF Execute, Goes, PlanTypeOK
  <2>6. \A d \in Executors : executors'[d].pc \notin Working
    BY <1>4, <2>2, <2>4, <2>5 DEF Working
  <2>7. Busy = 0 /\ Busy' = 0
    BY <1>4, <2>2, <2>6, NoneBusy, LedgerVars
  <2> QED BY <1>1, <2>2, <2>3, <2>7, Opens
<1>7. CASE Pause \/ Cancel
  <2>1. PICK st \in PlanStatus : UpdatePlan(st) /\ UNCHANGED <<executors, executing, disturbed>>
    BY <1>7 DEF Pause, Cancel, others, PlanStatus
  <2>2. Record' = Record
    BY <1>1, <2>1, StatusRecord
  <2> QED BY <1>2, <1>3, <2>1, <2>2, LedgerStutters
<1>8. CASE ResumeWrites
  <2>1. UNCHANGED <<executors, executing>>
    BY <1>8 DEF ResumeWrites, others
  <2>2. plan \in Plan /\ resuming.current \in Nat /\ "running" \in PlanStatus
    BY DEF PlanTypeOK, PlanStatus
  <2>3. plan' = plan \/ plan'.steps = Resaved(plan).steps
    BY <1>8, <2>2, StatusSet DEF ResumeWrites
  <2>4. Record' = Record
    BY <1>1, <2>3, ResavedRecord
  <2>5. CASE Loose' = Loose
    BY <1>2, <2>1, <2>4, <2>5, LedgerStutters
  <2>6. CASE Loose' # Loose
    <3>1. Loose'
      BY <1>3, <2>6
    <3> QED BY <1>1, <1>2, <1>3, <2>1, <3>1, RewritesRecord
  <2> QED BY <2>5, <2>6
<1>9. CASE \E i \in DOMAIN plan.steps : SkipStep(plan.steps[i].number)
  <2>1. PICK n : UpdateStep(n, "skipped") /\ UNCHANGED <<executors, executing, disturbed>>
                 /\ "skipped" \in StepStatus
    BY <1>9 DEF SkipStep, others, StepStatus
  <2>2. n \in DOMAIN Record /\ Record' = Written(Record, n, "skipped")
    BY <1>1, <2>1, StepRecorded
  <2> QED BY <1>2, <1>3, <2>1, <2>2, SkipsStep
<1>10. CASE Delete
  <2>1. plan'.steps = <<>> /\ UNCHANGED <<executors, executing, disturbed>>
    BY <1>10 DEF Delete, others, NoPlan
  <2>2. Record' = <<>>
    <3>1. plan' \in Plan
      BY DEF PlanTypeOK
    <3>2. DOMAIN Rec(plan') = {plan'.steps[i].number : i \in DOMAIN plan'.steps}
      BY <3>1, RecordReads
    <3>3. DOMAIN Record' = {}
      BY <1>1, <2>1, <3>2
    <3>4. Record' = [n \in DOMAIN Record' |-> Record'[n]]
      BY <1>1 DEF Rec
    <3> DEFINE f == Record'
    <3>5. DOMAIN f = {} /\ f = [n \in DOMAIN f |-> f[n]]
      BY <3>3, <3>4
    <3> HIDE DEF f
    <3>6. f = <<>>
      BY <3>5
    <3> QED BY <3>6 DEF f
  <2> QED BY <1>2, <1>3, <2>1, <2>2, RemovesRecord
<1>11. CASE \E c \in Contents : Create(c)
  <2>1. /\ UNCHANGED <<executors, executing>>
        /\ executing => "overwritten" \in disturbed'
    BY <1>11 DEF Create, others
  <2>2. executing => Loose'
    BY <2>1 DEF Loose, Calm
  <2> QED BY <1>1, <1>2, <1>3, <2>1, <2>2, RewritesRecord
<1>12. CASE EditSaves
  <2>1. UNCHANGED <<executors, executing>>
    BY <1>12 DEF EditSaves, others
  <2>2. CASE executing => Loose'
    BY <1>1, <1>2, <1>3, <2>1, <2>2, RewritesRecord
  <2>3. CASE executing /\ ~Loose'
    <3>1. Kept'
      BY <2>3, LedgerVars
    <3>2. Record' = Record
      BY <1>1, <1>12, <2>3, <3>1, SavedRecord
    <3>3. Loose' = Loose
      BY <1>3, <2>3
    <3> QED BY <1>2, <2>1, <3>2, <3>3, LedgerStutters
  <2> QED BY <2>2, <2>3
<1>13. CASE Crash
  <2>1. /\ plan' = plan /\ executing' = FALSE /\ disturbed' = disturbed \cup {"crash"}
        /\ executors' = [d \in Executors |-> Idle]
    BY <1>13 DEF Crash
  <2>2. Loose' = Loose
    BY <2>1 DEF Loose, Calm
  <2>3. \A d \in Executors : executors'[d].pc \notin Working
    BY <2>1, IdleFits DEF Working
  <2>4. Busy' = 0
    BY <2>3, NoneBusy, LedgerVars
  <2>5. CASE executing
    BY <1>1, <2>1, <2>2, <2>4, <2>5, Closes
  <2>6. CASE ~executing
    <3>1. Busy = 0
      BY <1>4, <2>6, NoneBusy, LedgerVars
    <3>2. executing = FALSE
      BY <2>6 DEF PlanTypeOK
    <3> QED BY <1>1, <2>1, <2>2, <2>4, <3>1, <3>2, LedgerStutters
  <2> QED BY <2>5, <2>6
<1>14. CASE UNCHANGED <<plan, executors, executing, disturbed>>
  BY <1>1, <1>2, <1>3, <1>14, LedgerStutters
<1> QED
  BY <1>5, <1>6, <1>7, <1>8, <1>9, <1>10, <1>11, <1>12, <1>13, <1>14
  DEF PlanNext, ResumeReads, EditReads, others

(* The execution of a plan implements its ledger, whatever users do to the plan
   meanwhile and however often the server crashes: at most one step is under way,
   only what its number stands for gets a result, and, as long as the steps are
   numbered by their places and nobody else overwrites them, a step recorded as
   completed is not begun again. *)
THEOREM LedgerImplemented == PlanSpec => ImplementsLedger
<1>1. PlanInit => Ledger!LedgerInit
  <2> SUFFICES ASSUME PlanInit
               PROVE  Ledger!LedgerInit
    OBVIOUS
  <2>1. /\ \E c \in Contents : plan = Created(c)
        /\ executing = FALSE /\ executors = [e \in Executors |-> Idle]
    BY DEF PlanInit
  <2>2. Ledger!IsRecord(Record)
    <3>1. Ledger!IsRecord(Rec(plan))
      BY <2>1, CreatedPlan, RecIsRecord
    <3>2. Record = Rec(plan)
      BY LedgerVars
    <3> QED BY <3>1, <3>2, Zenon
  <2>3. \A e \in Executors : executors[e].pc \notin Working
    BY <2>1, IdleFits DEF Working
  <2>4. Busy = 0
    BY <2>3, NoneBusy, LedgerVars
  <2>5. Loose \in BOOLEAN
    BY DEF Loose
  <2> QED BY <2>1, <2>2, <2>4, <2>5, Zenon DEF Ledger!LedgerInit
<1>2. PlanTypeOK /\ PlanTypeOK' /\ NumbersInv /\ AheadInv /\ [PlanNext]_vars
        => [Ledger!LedgerNext]_Ledger!ledgerVars
  <2> SUFFICES ASSUME PlanTypeOK, PlanTypeOK', NumbersInv, AheadInv, [PlanNext]_vars
               PROVE  Ledger!LedgerNext \/ UNCHANGED Ledger!ledgerVars
    OBVIOUS
  <2>1. CASE UNCHANGED vars
    <3>1. UNCHANGED <<plan, executors, executing, disturbed>>
      BY <2>1 DEF vars
    <3>2. Record' = Record /\ Busy' = Busy /\ Loose' = Loose
      BY <3>1, LedgerVars DEF Loose, Calm
    <3> QED BY <3>1, <3>2, LedgerStutters
  <2> QED BY <2>1, LedgerStep
<1> QED
  BY <1>1, <1>2, PlanTypes, NumbersInvariant, AheadInvariant, PTL
  DEF PlanSpec, ImplementsLedger, Ledger!LedgerSpec

-----------------------------------------------------------------------------
(* Steps marked as running *)

HasRunning(p) == \E i \in DOMAIN p.steps : p.steps[i].status = "running"

(* An edit marks no step as running. *)
LEMMA EditedRunning ==
  ASSUME plan \in Plan, NEW p, p \in Rewordings \/ p \in Restructurings, HasRunning(p)
  PROVE  HasRunning(plan)
<1>1. CASE p \in Rewordings
  BY <1>1, RewordedPlan DEF SameResults, HasRunning
<1>2. CASE p \in Restructurings
  BY <1>2, RestructuredPlan DEF HasRunning
<1> QED BY <1>1, <1>2

\* Every step of p that is marked as running is what one of the calls f runs.
InHand(f, p) ==
  \A j \in DOMAIN p.steps : p.steps[j].status = "running" =>
    \E e \in Executors : f[e].pc \in Working /\ Finds(p.steps, f[e].i, j)

Attended == Calm({"crash", "overwritten", "renumbered", "premarked"})

(* While nobody overwrote the steps and nothing crashed, a step marked as running
   is the one under way. *)
RunningInv ==
  /\ HasRunning(edit.saves) => HasRunning(edit.base)
  /\ Attended => InHand(executors, plan)

(* Numbers stand for the same places in plans of the same numbers. *)
LEMMA FoundStill ==
  ASSUME NEW p \in Plan, NEW q, DOMAIN q.steps = DOMAIN p.steps,
         \A j \in DOMAIN p.steps : q.steps[j].number = p.steps[j].number,
         NEW n, NEW k \in DOMAIN p.steps, Finds(p.steps, n, k)
  PROVE  Finds(q.steps, n, k)
<1>1. p.steps \in Seq(Step)
  BY DEF Plan
<1> QED BY <1>1, SameFinds

(* What is in hand stays so while the calls stay where they are and no step is
   marked as running. *)
LEMMA StillInHand ==
  ASSUME plan \in Plan, InHand(executors, plan), executors' = executors,
         \/ plan' = plan
         \/ SameResults(plan, plan')
         \/ \E k, st : st # "running" /\ Recorded(plan, plan', k, st)
  PROVE  InHand(executors', plan')
<1>1. CASE plan' = plan
  BY <1>1
<1>2. ASSUME DOMAIN plan'.steps = DOMAIN plan.steps,
             \A j \in DOMAIN plan.steps : plan'.steps[j].number = plan.steps[j].number,
             \A j \in DOMAIN plan.steps : plan'.steps[j].status = "running" => plan.steps[j].status = "running"
      PROVE  InHand(executors', plan')
  <2>1. ASSUME NEW j \in DOMAIN plan.steps, plan'.steps[j].status = "running"
        PROVE  \E e \in Executors : executors[e].pc \in Working /\ Finds(plan'.steps, executors[e].i, j)
    <3>1. PICK e \in Executors : executors[e].pc \in Working /\ Finds(plan.steps, executors[e].i, j)
      BY <1>2, <2>1 DEF InHand
    <3>2. Finds(plan'.steps, executors[e].i, j)
      BY <1>2, <3>1, FoundStill
    <3> QED BY <3>1, <3>2
  <2> QED BY <1>2, <2>1 DEF InHand
<1>3. CASE SameResults(plan, plan')
  BY <1>2, <1>3 DEF SameResults
<1>4. CASE \E k, st : st # "running" /\ Recorded(plan, plan', k, st)
  BY <1>2, <1>4 DEF Recorded
<1> QED BY <1>1, <1>3, <1>4

(* An executor marks its step before it runs it and settles it before it leaves. *)
LEMMA ExecutorRunning ==
  ASSUME PlanTypeOK, NEW e \in Executors, ExecutorStep(e), InHand(executors, plan)
  PROVE  InHand(executors', plan')
<1> DEFINE x == executors[e]
<1>1. /\ \A d \in Executors \ {e} : executors[d] = Idle
      /\ executors \in [Executors -> Executor] /\ plan \in Plan /\ plan.steps \in Seq(Step)
  <2>1. executors[e] # Idle
    BY ExecutorMoves
  <2> QED BY <2>1 DEF PlanTypeOK, LockOK, Plan
<1>2. \A j \in DOMAIN plan.steps : plan.steps[j].status = "running" => x.pc \in Working /\ Finds(plan.steps, x.i, j)
  <2>1. \A d \in Executors \ {e} : executors[d].pc \notin Working
    BY <1>1, IdleFits DEF Working
  <2> QED BY <2>1 DEF InHand
<1>3. CASE Quits(e)
  <2>1. \A j \in DOMAIN plan.steps : plan.steps[j].status # "running"
    BY <1>2, <1>3 DEF Quits, Gone, Finds
  <2>2. plan' = plan
    BY <1>3 DEF Quits
  <2> QED BY <2>1, <2>2 DEF InHand
<1>4. ASSUME NEW y, Goes(e, y), StepOf(x, y)
      PROVE  InHand(executors', plan')
  <2>1. executors'[e] = y
    BY <1>1, <1>4 DEF Goes
  <2>2. SUFFICES ASSUME NEW j \in DOMAIN plan'.steps, plan'.steps[j].status = "running"
                 PROVE  y.pc \in Working /\ Finds(plan'.steps, y.i, j)
    BY <2>1 DEF InHand
  <2> HIDE DEF x
  <2>3. CASE Between(x, y)
    <3>1. j \in DOMAIN plan.steps /\ plan.steps[j].status = "running"
      BY <2>2, <2>3 DEF Between, SameResults
    <3> QED BY <1>2, <2>3, <3>1 DEF Between
  <2>4. CASE Refuses(x, y)
    <3>1. PICK k : Recorded(plan, plan', k, "skipped")
      BY <2>4, StepRecorded DEF Refuses, StepStatus
    <3>2. j \in DOMAIN plan.steps /\ plan.steps[j].status = "running"
      BY <2>2, <3>1 DEF Recorded
    <3> QED BY <1>2, <2>4, <3>2 DEF Refuses, Working
  <2>5. CASE Begins(x, y)
    <3>1. PICK k \in DOMAIN plan.steps : Finds(plan.steps, x.i, k) /\ Recorded(plan, plan', k, "running")
      BY <2>5, StepRecorded DEF Begins, StepStatus
    <3>2. j = k
      BY <1>2, <2>2, <2>5, <3>1 DEF Recorded, Begins, Working
    <3>3. Finds(plan'.steps, x.i, k)
      BY <1>1, <3>1, FoundStill DEF Recorded
    <3> QED BY <2>5, <3>2, <3>3 DEF Begins, Working
  <2>6. CASE RunsOn(x, y)
    BY <1>2, <2>2, <2>6 DEF RunsOn, Working
  <2>7. CASE Succeeds(x, y) \/ Fails(x, y)
    <3>1. PICK st \in {"completed", "failed"} : UpdateStep(x.i, st)
      BY <2>7 DEF Succeeds, Fails
    <3>2. PICK k \in DOMAIN plan.steps : Finds(plan.steps, x.i, k) /\ Recorded(plan, plan', k, st)
      BY <3>1, StepRecorded DEF StepStatus
    <3>3. j \in DOMAIN plan.steps /\ j # k /\ plan.steps[j].status = "running"
      BY <2>2, <3>2 DEF Recorded
    <3>4. Finds(plan.steps, x.i, j)
      BY <1>2, <3>3
    <3> QED BY <1>1, <3>2, <3>3, <3>4, FindsOnce
  <2> QED BY <1>4, <2>3, <2>4, <2>5, <2>6, <2>7 DEF StepOf, x
<1> QED BY <1>3, <1>4, KindsOfExecutorStep

(* Nobody else marks a step as running. *)
LEMMA RunningStep ==
  ASSUME PlanTypeOK, NumbersInv, RunningInv, PlanNext
  PROVE  RunningInv'
<1>1. HasRunning(edit'.saves) => HasRunning(edit'.base)
  <2>1. CASE edit' = edit
    BY <2>1 DEF RunningInv
  <2>2. CASE edit' = NoEdit
    BY <2>2, NumbersAtFirst DEF HasRunning, NoPlan
  <2>3. ASSUME NEW p, p \in Rewordings \/ p \in Restructurings, NEW moves,
               edit' = [saves |-> p, base |-> plan, moves |-> moves]
        PROVE  HasRunning(edit'.saves) => HasRunning(edit'.base)
    <3>1. edit'.saves = p /\ edit'.base = plan /\ plan \in Plan
      BY <2>3 DEF PlanTypeOK
    <3> QED BY <2>3, <3>1, EditedRunning
  <2> QED BY <2>1, <2>2, <2>3, EditChanges
<1> SUFFICES ASSUME Attended'
             PROVE  InHand(executors', plan')
  BY <1>1 DEF RunningInv
<1>2. InHand(executors, plan) /\ plan \in Plan
  BY CalmBefore DEF RunningInv, Attended, Calm, PlanTypeOK
<1>3. ~executing => ~HasRunning(plan)
  <2>1. ~executing => \A d \in Executors : executors[d].pc \notin Working
    BY IdleFits DEF PlanTypeOK, LockOK, Working
  <2> QED BY <1>2, <2>1 DEF InHand, HasRunning
<1>4. ~HasRunning(plan') => InHand(executors', plan')
  BY DEF HasRunning, InHand
<1>5. CASE \E e \in Executors : ExecutorStep(e)
  BY <1>2, <1>5, ExecutorRunning
<1>6. CASE \E e \in Executors, o \in Options : Execute(e, o)
  <2>1. ~executing /\ plan' = plan
    BY <1>6 DEF Execute
  <2> QED BY <1>3, <1>4, <2>1
<1>7. CASE Pause \/ Cancel
  <2>1. PICK st \in PlanStatus : UpdatePlan(st) /\ executors' = executors
    BY <1>7 DEF Pause, Cancel, others, PlanStatus
  <2> QED BY <1>2, <2>1, StatusRecord, StillInHand
<1>8. CASE ResumeWrites
  <2>1. executors' = executors
    BY <1>8 DEF ResumeWrites, others
  <2>2. plan \in Plan /\ resuming.current \in Nat /\ "running" \in PlanStatus
    BY DEF PlanTypeOK, PlanStatus
  <2>3. plan' = plan \/ plan'.steps = Resaved(plan).steps
    BY <1>8, <2>2, StatusSet DEF ResumeWrites
  <2> QED BY <1>2, <2>1, <2>3, ResavedRecord, StillInHand
<1>9. CASE \E i \in DOMAIN plan.steps : SkipStep(plan.steps[i].number)
  <2>1. PICK n : UpdateStep(n, "skipped") /\ executors' = executors /\ "skipped" \in StepStatus
    BY <1>9 DEF SkipStep, others, StepStatus
  <2>2. \E k : Recorded(plan, plan', k, "skipped")
    BY <2>1, StepRecorded
  <2> QED BY <1>2, <2>1, <2>2, StillInHand
<1>10. CASE Delete
  BY <1>4, <1>10 DEF Delete, NoPlan, HasRunning
<1>11. CASE \E c \in Contents : Create(c)
  <2>1. PICK c \in Contents : plan' = Created(c) /\ Oddities(c) \subseteq disturbed'
    BY <1>11 DEF Create
  <2>2. plan'.steps = c
    BY <2>1, CreatedPlan
  <2>3. \A j \in DOMAIN c : c[j].status # "running"
    BY <2>1 DEF Attended, Calm, Oddities
  <2> QED BY <1>4, <2>2, <2>3 DEF HasRunning
<1>12. CASE EditSaves
  <2>1. executors' = executors
    BY <1>12 DEF EditSaves, others
  <2>2. /\ plan' = edit.saves /\ plan = edit.base
        /\ executing => ~edit.moves
    BY <1>12 DEF EditSaves, Attended, Calm
  <2>3. CASE executing
    <3>1. SameResults(plan, plan')
      BY <2>2, <2>3 DEF NumbersInv
    <3> QED BY <1>2, <2>1, <3>1, StillInHand
  <2>4. CASE ~executing
    BY <1>3, <1>4, <2>2, <2>4 DEF RunningInv
  <2> QED BY <2>3, <2>4
<1>13. CASE Crash
  BY <1>13 DEF Crash, Attended, Calm
<1>14. CASE UNCHANGED <<plan, executors>>
  BY <1>2, <1>14
<1> QED
  BY <1>5, <1>6, <1>7, <1>8, <1>9, <1>10, <1>11, <1>12, <1>13, <1>14
  DEF PlanNext, ResumeReads, EditReads, others

(* Unless the server crashed, somebody overwrote the steps or moved them under the
   executor, or a content came with marks of its own, a plan nobody is executing
   shows no step as running, however its executions ended. *)
THEOREM RunningIsExecuted == PlanSpec => []RunningHasExecutor
<1>1. PlanInit => RunningInv
  <2> SUFFICES ASSUME PlanInit PROVE RunningInv
    OBVIOUS
  <2>1. PICK c \in Contents : plan = Created(c) /\ disturbed = Oddities(c)
    BY DEF PlanInit
  <2>2. plan.steps = c
    BY <2>1, CreatedPlan
  <2>3. Attended => \A j \in DOMAIN plan.steps : plan.steps[j].status # "running"
    BY <2>1, <2>2 DEF Attended, Calm, Oddities
  <2>4. ~HasRunning(edit.saves)
    BY NumbersAtFirst DEF PlanInit, HasRunning, NoPlan
  <2> QED BY <2>3, <2>4 DEF RunningInv, InHand
<1>2. PlanTypeOK /\ NumbersInv /\ RunningInv /\ [PlanNext]_vars => RunningInv'
  <2>1. UNCHANGED vars /\ RunningInv => RunningInv'
    BY DEF vars, RunningInv, Attended, Calm, HasRunning, InHand
  <2> QED BY <2>1, RunningStep
<1>3. PlanTypeOK /\ RunningInv => RunningHasExecutor
  <2> SUFFICES ASSUME PlanTypeOK, RunningInv, ~executing, Attended,
                      NEW j \in DOMAIN plan.steps, plan.steps[j].status = "running"
               PROVE  FALSE
    BY DEF RunningHasExecutor, Attended
  <2>1. \A d \in Executors : executors[d].pc \notin Working
    BY IdleFits DEF PlanTypeOK, LockOK, Working
  <2> QED BY <2>1 DEF RunningInv, InHand
<1> QED BY <1>1, <1>2, <1>3, PlanTypes, NumbersInvariant, PTL DEF PlanSpec

-----------------------------------------------------------------------------
(* Steps that nobody has tried *)

\* The current step is the first that may be pending, and none is in a plan that
\* is completed.
NonePending(p) == \A j \in DOMAIN p.steps : p.steps[j].status # "pending"

CurrentFirst(p) ==
  /\ \A j \in DOMAIN p.steps : j < p.current => p.steps[j].status # "pending"
  /\ p.status = "completed" => NonePending(p)

\* A call has every step in the snapshot it walks; the steps behind it and those it
\* will pass over are not pending, and past the last one it is behind all of them.
Behind(x, p) ==
  x.pc # "idle" =>
    /\ \A j \in DOMAIN p.steps :
         /\ j <= Len(x.walk)
         /\ j < x.i \/ x.walk[j].settled => p.steps[j].status # "pending"
    /\ x.pc = "finishing" => Len(x.walk) < x.i

\* No step becomes pending.
FewerPending(p, q) ==
  \A j \in DOMAIN q.steps :
    j \in DOMAIN p.steps /\ (q.steps[j].status = "pending" => p.steps[j].status = "pending")

(* Then who is behind stays behind, ... *)
LEMMA FewerBehind ==
  ASSUME NEW x, NEW p, NEW q, Behind(x, p), FewerPending(p, q)
  PROVE  Behind(x, q)
BY DEF Behind, FewerPending

(* ... and goes on over a step that is gone, or that is not pending. *)
LEMMA OnwardBehind ==
  ASSUME NEW x \in Executor, NEW y, NEW p \in Plan, NEW q \in Plan, x.pc # "idle", Behind(x, p), FewerPending(p, q),
         y.walk = x.walk,
         \/ y.i = x.i
         \/ /\ y.i = x.i + 1
            /\ x.i \in DOMAIN q.steps => q.steps[x.i].status # "pending" \/ x.walk[x.i].settled,
         y.pc = "finishing" => Len(y.walk) < y.i
  PROVE  Behind(y, q)
<1>1. x.i \in Nat /\ \A j \in DOMAIN q.steps : j \in Nat
  BY LenProperties DEF Executor, Plan
<1>2. \A j \in DOMAIN q.steps :
        j <= Len(x.walk) /\ (j < x.i \/ x.walk[j].settled => q.steps[j].status # "pending")
  BY FewerBehind DEF Behind
<1>3. \A j \in DOMAIN q.steps : j < x.i + 1 => j < x.i \/ j = x.i
  BY <1>1
<1> QED BY <1>2, <1>3 DEF Behind

(* Nothing before the first pending step is pending. *)
LEMMA FirstPendingFirst ==
  ASSUME NEW steps \in Seq(Step)
  PROVE  \A j \in DOMAIN steps : j < FirstPending(steps) => steps[j].status # "pending"
<1>1. Len(steps) \in Nat /\ DOMAIN steps = 1..Len(steps)
  BY LenProperties
<1>2. CASE ~ \E i \in DOMAIN steps : steps[i].status = "pending"
  BY <1>2
<1>3. CASE \E i \in DOMAIN steps : steps[i].status = "pending"
  <2> DEFINE T == {i \in DOMAIN steps : steps[i].status = "pending"}
             First(i) == steps[i].status = "pending" /\ \A j \in 1..(i - 1) : steps[j].status # "pending"
             c == CHOOSE i \in DOMAIN steps : First(i)
  <2>1. PICK n \in T : \A m \in T : n <= m
    <3>1. T \in SUBSET Nat /\ T # {}
      BY <1>1, <1>3
    <3> HIDE DEF T
    <3> QED BY <3>1, LeastNatural
  <2>2. n \in DOMAIN steps /\ First(n)
    BY <1>1, <2>1
  <2>3. FirstPending(steps) = c
    BY <1>3 DEF FirstPending
  <2> HIDE DEF T, First
  <2>4. c \in DOMAIN steps /\ First(c)
    BY <2>2
  <2> HIDE DEF c
  <2>5. \A j \in DOMAIN steps : j < c => j \in 1..(c - 1)
    BY <1>1, <2>4
  <2> QED BY <2>3, <2>4, <2>5 DEF First
<1> QED BY <1>2, <1>3

(* An update that settles a step makes the first pending one current. *)
LEMMA UpdateSettles ==
  ASSUME PlanTypeOK, CurrentFirst(plan), NEW n, NEW st \in StepStatus \ {"pending"}, UpdateStep(n, st)
  PROVE  /\ CurrentFirst(plan') /\ FewerPending(plan, plan')
         /\ Numbered(plan) /\ n \in DOMAIN plan'.steps => plan'.steps[n].status # "pending"
<1>1. PICK k \in DOMAIN plan.steps : Finds(plan.steps, n, k) /\ plan' = WithStep(plan, k, st)
  BY DEF UpdateStep
<1>2. plan \in Plan /\ plan.status # "absent"
  BY <1>1 DEF PlanTypeOK, NoPlan
<1> DEFINE q == WithStep(plan, k, st)
           ss == [Resaved(plan).steps EXCEPT ![k].status = st]
<1>3. /\ q \in Plan /\ DOMAIN q.steps = DOMAIN plan.steps
      /\ \A j \in DOMAIN plan.steps : q.steps[j].status = IF j = k THEN st ELSE plan.steps[j].status
  BY <1>1, <1>2, UpdatedPlan
<1>4. /\ q.steps = ss /\ q.current = FirstPending(ss)
      /\ \/ \A j \in DOMAIN ss : ss[j].status \in {"completed", "skipped"}
         \/ q.status \in {"failed", "running"} \/ q.status = plan.status
  BY DEF WithStep
<1>5. plan' = q
  BY <1>1
<1> HIDE DEF q, ss
<1>6. FewerPending(plan, q)
  BY <1>3 DEF FewerPending
<1>7. \A j \in DOMAIN q.steps : j < q.current => q.steps[j].status # "pending"
  BY <1>3, <1>4, FirstPendingFirst DEF Plan
<1>8. q.status = "completed" => NonePending(q)
  BY <1>3, <1>4 DEF CurrentFirst, NonePending
<1>9. Numbered(plan) => k = n
  BY <1>1 DEF Finds, Numbered
<1>10. q.steps[k].status # "pending"
  BY <1>3
<1> QED BY <1>5, <1>6, <1>7, <1>8, <1>9, <1>10 DEF CurrentFirst

\* A plan with the results and the current step of another one.
SameProgress(p, q) == SameResults(p, q) /\ q.current = p.current

(* An update of the status, also one of the current step with it, keeps the rest. *)
LEMMA StatusProgress ==
  ASSUME PlanTypeOK, NEW st \in PlanStatus,
         \/ UpdatePlan(st)
         \/ plan' = [Resaved(plan) EXCEPT !.status = st, !.current = plan.current]
  PROVE  SameProgress(plan, plan') /\ plan'.status = st
<1> DEFINE a == Resaved(plan)
           c == plan.current
           q == [a EXCEPT !.status = st]
           r == [q EXCEPT !.current = c]
<1>1. a \in Plan /\ a.current = c
  BY ResavedPlan DEF PlanTypeOK
<1>2. plan' = q \/ plan' = r
  BY DEF UpdatePlan
<1> HIDE DEF a, c
<1>3. q \in Plan /\ q.status = st /\ q.current = a.current /\ q.steps = a.steps
  BY <1>1 DEF Plan
<1> HIDE DEF q
<1>4. r.status = st /\ r.current = c /\ r.steps = a.steps
  BY <1>3 DEF Plan
<1> HIDE DEF r
<1>5. plan'.status = st /\ plan'.current = c /\ plan'.steps = a.steps
  BY <1>1, <1>2, <1>3, <1>4
<1>6. SameResults(plan, plan')
  BY <1>5, ResavedRecord DEF a
<1> QED BY <1>5, <1>6 DEF SameProgress, c

(* Where only the status changes, the current step stays the first. *)
LEMMA ProgressKeeps ==
  ASSUME NEW p, NEW q, CurrentFirst(p), SameProgress(p, q),
         q.status = "completed" => p.status = "completed" \/ NonePending(p)
  PROVE  CurrentFirst(q) /\ FewerPending(p, q)
<1>1. /\ DOMAIN q.steps = DOMAIN p.steps
      /\ \A j \in DOMAIN p.steps : q.steps[j].status = p.steps[j].status
  BY DEF SameProgress, SameResults
<1> QED BY <1>1 DEF CurrentFirst, NonePending, FewerPending, SameProgress

(* An executor marks the plan completed only past its last step, if the steps are
   numbered by their places. *)
LEMMA ExecutorSettles ==
  ASSUME PlanTypeOK, PlanTypeOK', Numbered(plan), NEW e \in Executors, ExecutorStep(e),
         CurrentFirst(plan), Behind(executors[e], plan)
  PROVE  CurrentFirst(plan') /\ Behind(executors'[e], plan') /\ FewerPending(plan, plan')
<1> DEFINE x == executors[e]
           Goal == CurrentFirst(plan') /\ Behind(executors'[e], plan') /\ FewerPending(plan, plan')
<1> SUFFICES Goal
  OBVIOUS
<1>1. /\ x \in Executor /\ x.i \in Nat /\ x.pc # "idle" /\ x.i # 0 /\ plan \in Plan /\ plan' \in Plan
      /\ executors \in [Executors -> Executor] /\ x.walk \in Seq(Walked) /\ Behind(x, plan)
  <2>1. /\ x \in Executor /\ (x.pc = "idle" => x = Idle) /\ (x.pc # "idle" => x.i # 0) /\ plan \in Plan
        /\ plan' \in Plan /\ executors \in [Executors -> Executor]
    BY DEF PlanTypeOK, WalkOK
  <2>2. executors[e] # Idle
    BY ExecutorMoves
  <2> QED BY <2>1, <2>2 DEF Executor
<1>2. \A y : Goes(e, y) => executors'[e] = y
  BY <1>1 DEF Goes
<1>3. plan' = plan => CurrentFirst(plan') /\ FewerPending(plan, plan')
  BY DEF FewerPending
<1>4. CASE Leave(e) /\ plan' = plan
  <2>1. executors'[e].pc = "idle"
    BY <1>2, <1>4, IdleFits DEF Leave
  <2> QED BY <1>3, <1>4, <2>1 DEF Behind
<1> HIDE DEF x
<1>5. ASSUME NEW y, Goes(e, y), CurrentFirst(plan'), FewerPending(plan, plan'), y.walk = x.walk,
             \/ y.i = x.i
             \/ /\ y.i = x.i + 1
                /\ x.i \in DOMAIN plan'.steps => plan'.steps[x.i].status # "pending" \/ x.walk[x.i].settled,
             y.pc = "finishing" => Len(y.walk) < y.i
      PROVE  Goal
  <2>1. Behind(y, plan')
    BY <1>1, <1>5, OnwardBehind
  <2> QED BY <1>2, <1>5, <2>1
<1>6. ASSUME NEW c \in Pc
      PROVE  LET y == [x EXCEPT !.pc = c] IN y.pc = c /\ y.walk = x.walk /\ y.i = x.i
  BY <1>1, WithPc
<1>7. ASSUME NEW st \in PlanStatus, NEW c \in Pc \ {"finishing"}, Updates(e, st, c),
             st = "completed" => x.pc = "finishing"
      PROVE  Goal
  <2>1. CASE UpdatePlan(st) /\ Goes(e, [x EXCEPT !.pc = c])
    <3> DEFINE y == [x EXCEPT !.pc = c]
    <3>1. y.pc = c /\ y.walk = x.walk /\ y.i = x.i
      BY <1>6
    <3>2. Goes(e, y)
      BY <2>1
    <3> HIDE DEF y
    <3>3. SameProgress(plan, plan') /\ plan'.status = st
      BY <2>1, StatusProgress
    <3>4. x.pc = "finishing" => NonePending(plan)
      <4>1. ASSUME x.pc = "finishing", NEW j \in DOMAIN plan.steps
            PROVE  plan.steps[j].status # "pending"
        <5>1. j <= Len(x.walk) /\ Len(x.walk) < x.i /\ Len(x.walk) \in Nat /\ j \in Nat
          BY <1>1, <4>1, LenProperties DEF Behind, Plan
        <5>2. j < x.i
          BY <1>1, <5>1
        <5> QED BY <1>1, <5>2 DEF Behind
      <4> QED BY <4>1 DEF NonePending
    <3>5. CurrentFirst(plan') /\ FewerPending(plan, plan')
      BY <1>7, <3>3, <3>4, ProgressKeeps
    <3> QED BY <1>5, <1>7, <3>1, <3>2, <3>5
  <2> QED BY <1>4, <1>7, <2>1 DEF Updates, x
<1>8. CASE MarkPlanRunning(e) \/ MarkPlanCompleted(e) \/ MarkPlanFailed(e)
  BY <1>7, <1>8 DEF MarkPlanRunning, MarkPlanCompleted, MarkPlanFailed, At, PlanStatus, Pc, x
<1>9. CASE PassOver(e)
  <2>1. /\ plan' = plan /\ x.pc = "walking"
        /\ \/ x.i > Len(x.walk) /\ Goes(e, [x EXCEPT !.pc = "finishing"])
           \/ x.walk[x.i].settled /\ Goes(e, [x EXCEPT !.i = x.i + 1])
    BY <1>9 DEF PassOver, At, x
  <2>2. /\ [x EXCEPT !.pc = "finishing"].walk = x.walk /\ [x EXCEPT !.pc = "finishing"].i = x.i
        /\ Len(x.walk) \in Nat
    BY <1>1, <1>6, LenProperties DEF Pc
  <2>3. /\ [x EXCEPT !.i = x.i + 1].walk = x.walk /\ [x EXCEPT !.i = x.i + 1].i = x.i + 1
        /\ [x EXCEPT !.i = x.i + 1].pc = x.pc
    BY <1>1 DEF Executor
  <2>4. CASE x.i > Len(x.walk) /\ Goes(e, [x EXCEPT !.pc = "finishing"])
    <3> DEFINE y == [x EXCEPT !.pc = "finishing"]
    <3>1. y.walk = x.walk /\ y.i = x.i /\ Goes(e, y) /\ Len(x.walk) < x.i
      BY <1>1, <2>2, <2>4
    <3> HIDE DEF y
    <3> QED BY <1>3, <1>5, <2>1, <3>1
  <2>5. CASE x.walk[x.i].settled /\ Goes(e, [x EXCEPT !.i = x.i + 1])
    <3> DEFINE y == [x EXCEPT !.i = x.i + 1]
    <3>1. y.walk = x.walk /\ y.i = x.i + 1 /\ Goes(e, y) /\ y.pc # "finishing"
      BY <2>1, <2>3, <2>5
    <3> HIDE DEF y
    <3> QED BY <1>3, <1>5, <2>1, <2>5, <3>1
  <2> QED BY <2>1, <2>4, <2>5
<1>10. CASE ReadStep(e)
  <2>1. /\ plan' = plan
        /\ \/ Leave(e)
           \/ Gone(x.i) /\ Goes(e, AfterFailure(x))
           \/ \E k \in DOMAIN plan.steps : Goes(e, [x EXCEPT !.pc = "asked", !.task = plan.steps[k].task])
    BY <1>10 DEF ReadStep, x
  <2>2. CASE Gone(x.i) /\ Goes(e, AfterFailure(x))
    <3>2. x.i \notin DOMAIN plan.steps
      BY <2>2 DEF Gone, Numbered
    <3> DEFINE y == AfterFailure(x)
    <3>1. y.walk = x.walk /\ y.i \in {x.i, x.i + 1} /\ y.pc # "finishing" /\ Goes(e, y)
      BY <1>1, <2>2, AfterPlace
    <3> HIDE DEF y
    <3> QED BY <1>3, <1>5, <2>1, <3>1, <3>2
  <2>3. ASSUME NEW n \in DOMAIN plan.steps, Goes(e, [x EXCEPT !.pc = "asked", !.task = plan.steps[n].task])
        PROVE  Goal
    <3> DEFINE t == plan.steps[n].task
               a == [x EXCEPT !.pc = "asked"]
               y == [a EXCEPT !.task = t]
    <3>1. a \in Executor /\ a.pc = "asked" /\ a.walk = x.walk /\ a.i = x.i
      BY <1>1, WithPc DEF Pc
    <3>2. Goes(e, y)
      BY <2>3
    <3> HIDE DEF a, t
    <3>3. y.pc = "asked" /\ y.walk = x.walk /\ y.i = x.i
      BY <3>1 DEF Executor
    <3> HIDE DEF y
    <3> QED BY <1>3, <1>5, <2>1, <3>2, <3>3
  <2> QED BY <1>4, <2>1, <2>2, <2>3
<1>11. ASSUME NEW st \in StepStatus \ {"pending"}, NEW y, UpdateStep(x.i, st), Goes(e, y),
              y.walk = x.walk, y.i \in {x.i, x.i + 1}, y.pc # "finishing"
       PROVE  Goal
  <2>1. /\ CurrentFirst(plan') /\ FewerPending(plan, plan')
        /\ x.i \in DOMAIN plan'.steps => plan'.steps[x.i].status # "pending"
    BY <1>11, UpdateSettles
  <2> QED BY <1>5, <1>11, <2>1
<1>12. /\ AfterFailure(x).walk = x.walk /\ AfterFailure(x).i \in {x.i, x.i + 1}
       /\ AfterFailure(x).pc # "finishing"
       /\ AfterSuccess(x).walk = x.walk /\ AfterSuccess(x).i \in {x.i, x.i + 1}
       /\ AfterSuccess(x).pc # "finishing"
  BY <1>1, AfterPlace
<1>13. CASE StepRefused(e) \/ RecordSuccess(e) \/ RecordFailure(e)
  <2>1. \/ Leave(e) /\ plan' = plan
        \/ \E st \in {"skipped", "completed", "failed"} :
             /\ UpdateStep(x.i, st)
             /\ Goes(e, AfterSuccess(x)) \/ Goes(e, AfterFailure(x))
    BY <1>13 DEF StepRefused, RecordSuccess, RecordFailure, StepUpdate, x
  <2> QED BY <1>4, <1>11, <1>12, <2>1 DEF StepStatus
<1>14. CASE MarkStepRunning(e)
  <2> DEFINE y == [x EXCEPT !.pc = "running"]
  <2>1. \/ Leave(e) /\ plan' = plan
        \/ UpdateStep(x.i, "running") /\ Goes(e, y)
    BY <1>14 DEF MarkStepRunning, StepUpdate, x
  <2>2. y.walk = x.walk /\ y.i = x.i /\ y.pc = "running"
    BY <1>6 DEF Pc
  <2> HIDE DEF y
  <2> QED BY <1>4, <1>11, <2>1, <2>2 DEF StepStatus
<1>15. CASE \E ok \in BOOLEAN : HandlerEnds(e, ok)
  <2>1. PICK ok \in BOOLEAN : HandlerEnds(e, ok)
    BY <1>15
  <2> DEFINE a == [x EXCEPT !.pc = "recording"]
             y == [a EXCEPT !.ok = ok]
  <2>2. Goes(e, y) /\ plan' = plan
    BY <2>1 DEF HandlerEnds, x
  <2>3. a \in Executor /\ a.pc = "recording" /\ a.walk = x.walk /\ a.i = x.i
    BY <1>1, WithPc DEF Pc
  <2> HIDE DEF a
  <2>4. y.pc = "recording" /\ y.walk = x.walk /\ y.i = x.i
    BY <2>3 DEF Executor
  <2> HIDE DEF y
  <2> QED BY <1>3, <1>5, <2>2, <2>4
<1>16. CASE RecordSuccessThrows(e)
  <2> DEFINE y == [x EXCEPT !.ok = FALSE]
  <2>1. x.pc = "recording" /\ Goes(e, y) /\ plan' = plan
    BY <1>16 DEF RecordSuccessThrows, At, x
  <2>2. y.pc = "recording" /\ y.walk = x.walk /\ y.i = x.i
    BY <1>1, <2>1 DEF Executor
  <2> HIDE DEF y
  <2> QED BY <1>3, <1>5, <2>1, <2>2
<1>17. CASE Release(e)
  BY <1>4, <1>17 DEF Release
<1> QED
  BY <1>8, <1>9, <1>10, <1>13, <1>14, <1>15, <1>16, <1>17 DEF ExecutorStep

(* The snapshot has every step, and takes no pending one for settled. *)
LEMMA WalkRead ==
  ASSUME NEW p \in Plan
  PROVE  /\ Walk(p) \in Seq(Walked) /\ Len(Walk(p)) = Len(p.steps)
         /\ \A j \in DOMAIN p.steps : Walk(p)[j].settled => p.steps[j].status # "pending"
<1> DEFINE s == p.steps
           f == [j \in DOMAIN s |-> [settled  |-> s[j].status \in {"completed", "skipped"},
                                     optional |-> s[j].marked]]
<1>1. s \in Seq(Step)
  BY DEF Plan
<1>2. \A j \in DOMAIN s : f[j] \in Walked
  <2>1. \A j \in DOMAIN s : s[j] \in Step
    BY <1>1, ElementOfSeq
  <2> QED BY <2>1 DEF Walked, Step
<1>3. \A j \in DOMAIN s : f[j].settled => s[j].status # "pending"
  <2>1. \A j \in DOMAIN s : f[j].settled = (s[j].status \in {"completed", "skipped"})
    BY Zenon
  <2> QED BY <2>1
<1>4. Walk(p) = f
  BY DEF Walk
<1>5. DOMAIN f = DOMAIN s /\ f = [j \in DOMAIN s |-> f[j]]
  OBVIOUS
<1> HIDE DEF f, s
<1>6. f \in Seq(Walked) /\ Len(f) = Len(s)
  BY <1>1, <1>2, <1>5, StepsAreSeq
<1> QED BY Zenon, <1>3, <1>4, <1>6 DEF s

(* A call starts at the current step, so nothing behind it is pending. *)
LEMMA StartsBehind ==
  ASSUME PlanTypeOK, CurrentFirst(plan), NEW e \in Executors, NEW o \in Options, Execute(e, o),
         "jumped" \notin disturbed'
  PROVE  Behind(executors'[e], plan) /\ \A d \in Executors \ {e} : executors'[d] = Idle
<1> DEFINE c == IF plan.status = "completed" THEN "leaving" ELSE "opening"
           w == Walk(plan)
           i == IF o.from # 0 THEN o.from ELSE IF plan.current = 0 THEN 1 ELSE plan.current
           k == [Idle EXCEPT !.pc = c]
           l == [k EXCEPT !.walk = w]
           m == [l EXCEPT !.i = i]
           y == [m EXCEPT !.opts = o]
<1>1. /\ plan \in Plan /\ plan.current \in Nat /\ executors \in [Executors -> Executor] /\ o \in Option
      /\ \A d \in Executors : executors[d] = Idle
  BY PlanConfig DEF PlanTypeOK, LockOK, Execute, Plan
<1>2. w \in Seq(Walked) /\ Len(w) = Len(plan.steps)
      /\ \A j \in DOMAIN plan.steps : w[j].settled => plan.steps[j].status # "pending"
  BY <1>1, WalkRead
<1>3. executors' = [executors EXCEPT ![e] = y]
  BY DEF Execute, Goes
<1>4. o.from = 0
  BY DEF Execute
<1>5. c # "finishing" /\ c \in Pc
  BY DEF Pc
<1>6. \A j \in DOMAIN plan.steps : j \in Nat /\ j # 0 /\ j <= Len(plan.steps)
  BY <1>1, LenProperties DEF Plan
<1>7. \A j \in DOMAIN plan.steps : j < i => plan.steps[j].status # "pending"
  BY <1>1, <1>4, <1>6 DEF CurrentFirst
<1>8. i \in Nat
  BY <1>1, <1>4
<1> HIDE DEF c, w, i
<1>9. k \in Executor /\ k.pc = c
  BY <1>5, IdleFits DEF Executor
<1> HIDE DEF k
<1>10. l \in Executor /\ l.pc = c /\ l.walk = w
  BY <1>2, <1>9 DEF Executor
<1> HIDE DEF l
<1>11. m \in Executor /\ m.pc = c /\ m.walk = w /\ m.i = i
  BY <1>8, <1>10 DEF Executor
<1> HIDE DEF m
<1>12. y.pc = c /\ y.walk = w /\ y.i = i
  BY <1>1, <1>11 DEF Executor
<1> HIDE DEF y
<1>13. Behind(y, plan)
  BY <1>2, <1>5, <1>6, <1>7, <1>12 DEF Behind
<1> QED BY <1>1, <1>3, <1>13

(* An edit keeps the plan's status and its current step. *)
LEMMA EditedProgress ==
  ASSUME plan \in Plan, NEW p, p \in Rewordings \/ p \in Restructurings
  PROVE  p.status = plan.status /\ p.current = plan.current
BY RewordedPlan, RestructuredPlan

Quiet == Calm({"overwritten", "restructured", "jumped", "misnumbered"})

\* Unless the steps were restructured or misnumbered, or the caller chose where to
\* start, nothing before the current step or behind a call is pending.
PendingInv ==
  /\ edit.saves.status = edit.base.status /\ edit.saves.current = edit.base.current
  /\ Quiet => CurrentFirst(plan) /\ \A e \in Executors : Behind(executors[e], plan)

(* Every step keeps that. *)
LEMMA PendingStep ==
  ASSUME PlanTypeOK, PlanTypeOK', NumbersInv, PendingInv, PlanNext
  PROVE  PendingInv'
<1>1. edit'.saves.status = edit'.base.status /\ edit'.saves.current = edit'.base.current
  <2>1. CASE edit' = edit
    BY <2>1 DEF PendingInv
  <2>2. CASE edit' = NoEdit
    BY <2>2, NumbersAtFirst
  <2>3. ASSUME NEW p, p \in Rewordings \/ p \in Restructurings, NEW moves,
               edit' = [saves |-> p, base |-> plan, moves |-> moves]
        PROVE  edit'.saves.status = edit'.base.status /\ edit'.saves.current = edit'.base.current
    <3>1. edit'.saves = p /\ edit'.base = plan /\ plan \in Plan
      BY <2>3 DEF PlanTypeOK
    <3> QED BY <2>3, <3>1, EditedProgress
  <2> QED BY <2>1, <2>2, <2>3, EditChanges
<1> DEFINE Goal == CurrentFirst(plan') /\ \A e \in Executors : Behind(executors'[e], plan')
<1> SUFFICES ASSUME Quiet'
             PROVE  Goal
  BY <1>1 DEF PendingInv
<1>2. CurrentFirst(plan) /\ \A e \in Executors : Behind(executors[e], plan)
  BY CalmBefore DEF PendingInv, Quiet, Calm
<1>0. Numbered(plan)
  BY CalmBefore DEF NumbersInv, Quiet, Calm
<1>3. ASSUME executors' = executors, CurrentFirst(plan'), FewerPending(plan, plan')
      PROVE  Goal
  BY <1>2, <1>3, FewerBehind
<1>4. Behind(Idle, plan')
  BY IdleFits DEF Behind
<1>5. CASE \E e \in Executors : ExecutorStep(e)
  <2>1. PICK e \in Executors : ExecutorStep(e)
    BY <1>5
  <2>2. CurrentFirst(plan') /\ Behind(executors'[e], plan')
    BY <1>0, <1>2, <2>1, ExecutorSettles
  <2>3. \A d \in Executors \ {e} : executors'[d] = Idle
    <3>1. executors[e] # Idle /\ (Leave(e) \/ \E y : Goes(e, y))
      BY <2>1, ExecutorMoves
    <3>2. \A d \in Executors \ {e} : executors'[d] = executors[d]
      BY <3>1 DEF Leave, Goes, PlanTypeOK
    <3> QED BY <3>1, <3>2 DEF PlanTypeOK, LockOK
  <2> QED BY <1>4, <2>2, <2>3
<1>6. CASE \E e \in Executors, o \in Options : Execute(e, o)
  <2>1. PICK e \in Executors, o \in Options : Execute(e, o)
    BY <1>6
  <2>2. plan' = plan /\ "jumped" \notin disturbed'
    BY <2>1 DEF Execute, Quiet, Calm
  <2>3. Behind(executors'[e], plan) /\ \A d \in Executors \ {e} : executors'[d] = Idle
    BY <1>2, <2>1, <2>2, StartsBehind
  <2> QED BY <1>2, <1>4, <2>2, <2>3
<1>7. CASE Pause \/ Cancel
  <2>1. PICK st \in {"paused", "cancelled"} : UpdatePlan(st) /\ executors' = executors
    BY <1>7 DEF Pause, Cancel, others
  <2>2. SameProgress(plan, plan') /\ plan'.status = st
    BY <2>1, StatusProgress DEF PlanStatus
  <2>3. plan'.status # "completed"
    BY <2>1, <2>2
  <2>4. CurrentFirst(plan') /\ FewerPending(plan, plan')
    BY <1>2, <2>2, <2>3, ProgressKeeps
  <2> QED BY <1>3, <2>1, <2>4
<1>8. CASE plan' = plan /\ executors' = executors
  BY <1>2, <1>8
<1>9. CASE ResumeWrites
  <2>1. executors' = executors
    BY <1>9 DEF ResumeWrites, others
  <2>2. plan # NoPlan => plan.current = resuming.current
    BY <1>9 DEF ResumeWrites, Quiet, Calm
  <2>3. CASE plan = NoPlan
    BY <1>8, <1>9, <2>1, <2>3 DEF ResumeWrites
  <2>4. CASE plan # NoPlan
    <3>1. plan' = [Resaved(plan) EXCEPT !.status = "running", !.current = plan.current]
      BY <1>9, <2>2, <2>4 DEF ResumeWrites
    <3>2. SameProgress(plan, plan') /\ plan'.status = "running"
      BY <3>1, StatusProgress DEF PlanStatus
    <3>3. CurrentFirst(plan') /\ FewerPending(plan, plan')
      BY <1>2, <3>2, ProgressKeeps
    <3> QED BY <1>3, <2>1, <3>3
  <2> QED BY <2>3, <2>4
<1>10. CASE \E i \in DOMAIN plan.steps : SkipStep(plan.steps[i].number)
  <2>1. PICK n : UpdateStep(n, "skipped") /\ executors' = executors
    BY <1>10 DEF SkipStep, others
  <2>2. CurrentFirst(plan') /\ FewerPending(plan, plan')
    BY <1>2, <2>1, UpdateSettles DEF StepStatus
  <2> QED BY <1>3, <2>1, <2>2
<1>11. CASE Delete
  <2>1. executors' = executors /\ DOMAIN plan'.steps = {}
    BY <1>11 DEF Delete, others, NoPlan
  <2>2. CurrentFirst(plan') /\ FewerPending(plan, plan')
    BY <2>1 DEF CurrentFirst, NonePending, FewerPending
  <2> QED BY <1>3, <2>1, <2>2
<1>12. CASE \E c \in Contents : Create(c)
  <2>1. executors' = executors /\ ~executing /\ \E c \in Contents : plan' = Created(c)
    BY <1>12 DEF Create, others, Quiet, Calm
  <2>2. \A e \in Executors : executors'[e] = Idle
    BY <2>1 DEF PlanTypeOK, LockOK
  <2>3. CurrentFirst(plan')
    <3>1. plan'.current = 0 /\ plan'.status # "completed" /\ plan' \in Plan
      BY <2>1, CreatedPlan DEF Created
    <3>2. \A j \in DOMAIN plan'.steps : ~(j < 0)
      BY <3>1, LenProperties DEF Plan
    <3> QED BY <3>1, <3>2 DEF CurrentFirst
  <2> QED BY <1>4, <2>2, <2>3
<1>13. CASE EditSaves
  <2>1. executors' = executors /\ plan' = edit.saves
    BY <1>13 DEF EditSaves, others
  <2>2. plan = edit.base /\ ~edit.moves
    BY <1>13 DEF EditSaves, Quiet, Calm
  <2>3. SameProgress(plan, plan') /\ plan'.status = plan.status
    BY <2>1, <2>2 DEF SameProgress, NumbersInv, PendingInv
  <2>4. CurrentFirst(plan') /\ FewerPending(plan, plan')
    BY <1>2, <2>3, ProgressKeeps
  <2> QED BY <1>3, <2>1, <2>4
<1>14. CASE Crash
  BY <1>2, <1>4, <1>14 DEF Crash
<1> QED
  BY <1>5, <1>6, <1>7, <1>8, <1>9, <1>10, <1>11, <1>12, <1>13, <1>14
  DEF PlanNext, ResumeReads, EditReads, others

(* A plan that ended as completed has no step nobody has tried, however often it
   was paused, failed, crashed and resumed, if its steps are numbered by their
   places, unless they were restructured or overwritten or the caller chose where
   to start. *)
THEOREM CompletedIsTried == PlanSpec => []NothingPendingWhenCompleted
<1>1. PlanInit => PendingInv
  <2> SUFFICES ASSUME PlanInit PROVE PendingInv
    OBVIOUS
  <2>1. (\E c \in Contents : plan = Created(c)) /\ edit = NoEdit /\ executors = [e \in Executors |-> Idle]
    BY DEF PlanInit
  <2>2. plan.current = 0 /\ plan.status # "completed" /\ plan \in Plan
    BY <2>1, CreatedPlan DEF Created
  <2>3. \A j \in DOMAIN plan.steps : ~(j < 0)
    BY <2>2, LenProperties DEF Plan
  <2>4. CurrentFirst(plan)
    BY <2>2, <2>3 DEF CurrentFirst
  <2>5. \A e \in Executors : Behind(executors[e], plan)
    BY <2>1, IdleFits DEF Behind
  <2> QED BY <2>1, <2>4, <2>5, NumbersAtFirst DEF PendingInv
<1>2. PlanTypeOK /\ PlanTypeOK' /\ NumbersInv /\ PendingInv /\ [PlanNext]_vars => PendingInv'
  <2>1. UNCHANGED vars /\ PendingInv => PendingInv'
    BY DEF vars, PendingInv, Quiet, Calm, CurrentFirst, Behind, NonePending
  <2> QED BY <2>1, PendingStep
<1>3. PendingInv => NothingPendingWhenCompleted
  BY DEF PendingInv, Quiet, CurrentFirst, NonePending, NothingPendingWhenCompleted
<1> QED BY <1>1, <1>2, <1>3, PlanTypes, NumbersInvariant, PTL DEF PlanSpec
=============================================================================
