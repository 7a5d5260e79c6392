---------------------------- MODULE PlanExecution ----------------------------
(***************************************************************************)
(* One plan of one user: the Markdown file that holds its steps            *)
(* (plan-state.ts, plan-parser.ts), the executor that walks through them   *)
(* (plan-executor.ts), and the commands that pause, resume, cancel, skip,  *)
(* edit, delete and recreate the plan meanwhile (plan-execution-skills.ts).*)
(*                                                                         *)
(* Every update reads, changes and writes the file in one go; what happens *)
(* around it is interleaved.  A timeout ends a step like a failure: nobody *)
(* looks at what the handler it leaves behind does later.  Heartbeats and  *)
(* progress messages touch nothing that is modelled.                       *)
(*                                                                         *)
(* A step has a place in the file and the number its author gave it        *)
(* ("Step 3"), and numbers may leave gaps or repeat.  The executor counts  *)
(* places and asks for the step of that number.  Both are counted from 1   *)
(* here, so the code's indices are one less.  Titles of tasks, by which    *)
(* the file groups its steps, are left out.                                *)
(***************************************************************************)
EXTENDS Naturals, Sequences

CONSTANTS Executors,    \* calls of executePlan
          Tasks,        \* what the description of a step may ask for
          Contents,     \* the steps in the contents plans are created from
          Descriptions, \* what users write into a step
          AskFirst,     \* steps that ask the user for confirmation
          Options,      \* options executePlan is called with
          MaxCommands,  \* bound on what users ask for
          MaxCrashes    \* bound on crashes of the server

PlanStatus == {"draft", "running", "paused", "completed", "failed", "cancelled"}
StepStatus == {"pending", "running", "completed", "failed", "skipped"}

\* marked: the description carries [optional].
Description == [task : Tasks, marked : BOOLEAN]
Step == [number : Nat, task : Tasks, status : StepStatus, marked : BOOLEAN]
Plan == [status : PlanStatus \cup {"absent"}, current : Nat, steps : Seq(Step)]
NoPlan == [status |-> "absent", current |-> 0, steps |-> <<>>]

\* from: 0 if not given; max: maxRetries.
Option == [from : Nat, async : BOOLEAN, max : Nat]

ASSUME PlanConfig ==
  /\ Contents \subseteq Seq(Step)
  /\ \A c \in Contents : \A i, j \in DOMAIN c : i <= j => c[i].number <= c[j].number
  /\ Descriptions \subseteq Description
  /\ AskFirst \subseteq Tasks
  /\ Options \subseteq Option
  /\ MaxCommands \in Nat /\ MaxCrashes \in Nat

VARIABLES plan,      \* the file
          executing, \* it is in executingPlans
          executors, \* per call of executePlan, where it is
          edit,      \* an edit that has been computed and not yet saved
          resuming,  \* a resume that has read the plan and not yet changed it
          commands,  \* commands so far
          crashes,   \* crashes so far
          ran,       \* history: tasks whose handler has succeeded
          disturbed  \* history: what users and crashes did to the execution

vars == <<plan, executing, executors, edit, resuming, commands, crashes, ran, disturbed>>

\* walk: of the steps read at the start, which are settled and which optional.
Walked == [settled : BOOLEAN, optional : BOOLEAN]
Pc == {"idle", "opening", "walking", "asked", "running", "recording", "finishing", "failing", "leaving"}
Executor == [pc : Pc, walk : Seq(Walked), i : Nat, task : Tasks \cup {"none"},
             ok : BOOLEAN, retries : Nat, opts : Option]
Idle == [pc |-> "idle", walk |-> <<>>, i |-> 0, task |-> "none",
         ok |-> FALSE, retries |-> 0, opts |-> [from |-> 0, async |-> FALSE, max |-> 0]]

\* moves: it adds, deletes or moves steps.
Edit == [saves : Plan, base : Plan, moves : BOOLEAN]
NoEdit == [saves |-> NoPlan, base |-> NoPlan, moves |-> FALSE]
NoResume == [on |-> FALSE, current |-> 0]

\* What the properties make exceptions for.
Disturbances == {"premarked",    \* a content had steps marked as running or completed
                 "misnumbered",  \* ... or numbered otherwise than 1, 2, 3 ...
                 "overwritten",  \* a plan that had changed meanwhile was written over
                 "restructured", \* steps were added, deleted or moved
                 "renumbered",   \* ... while the plan was being executed
                 "reworded",     \* a step being executed, or a completed one, became another
                 "jumped",       \* executePlan was told where to start
                 "crash"}

\* The plan is in executingPlans exactly while one call is at work on it.
LockOK ==
  /\ \A e \in Executors : executors[e] # Idle =>
       executing /\ \A f \in Executors \ {e} : executors[f] = Idle
  /\ executing => \E e \in Executors : executors[e] # Idle

\* Past the loop's test, a call is at a step of the snapshot it read.
WalkOK ==
  \A e \in Executors :
    LET x == executors[e]
    IN /\ x.pc = "idle" => x = Idle
       /\ x.pc # "idle" => x.i # 0
       /\ x.pc \in {"asked", "running", "recording", "failing"} => x.i <= Len(x.walk)
       /\ x.pc \in {"asked", "running", "recording"} => x.task \in Tasks

PlanTypeOK ==
  /\ plan \in Plan /\ (plan.status = "absent" => plan = NoPlan)
  /\ executing \in BOOLEAN
  /\ executors \in [Executors -> Executor]
  /\ edit \in Edit
  /\ edit # NoEdit => edit.saves.status # "absent"
  /\ resuming \in [on : BOOLEAN, current : Nat]
  /\ commands \in 0..MaxCommands /\ crashes \in 0..MaxCrashes
  /\ ran \subseteq Tasks
  /\ disturbed \subseteq Disturbances
  /\ LockOK /\ WalkOK

-----------------------------------------------------------------------------
(* The plan file *)

\* createPlanContent parses and writes the steps of the content as they are, marks
\* and numbers included.
Created(c) == [status |-> "draft", current |-> 0, steps |-> c]

\* What may be special about a content.
Oddities(c) ==
  (IF \E i \in DOMAIN c : c[i].status \in {"running", "completed"} THEN {"premarked"} ELSE {})
  \cup (IF \E i \in DOMAIN c : c[i].number # i THEN {"misnumbered"} ELSE {})

\* The step a number stands for is the first that has it.
Finds(steps, n, k) ==
  k \in DOMAIN steps /\ steps[k].number = n /\ \A j \in 1..(k - 1) : steps[j].number # n

Gone(n) == \A k \in DOMAIN plan.steps : plan.steps[k].number # n

\* readPlan then savePlan: parsePlan strips the markers, serializePlan omits them.
Resaved(p) == [p EXCEPT !.steps = [i \in DOMAIN @ |-> [@[i] EXCEPT !.marked = FALSE]]]

FirstPending(steps) ==
  IF \E i \in DOMAIN steps : steps[i].status = "pending"
  THEN CHOOSE i \in DOMAIN steps :
         steps[i].status = "pending" /\ \A j \in 1..(i - 1) : steps[j].status # "pending"
  ELSE Len(steps) + 1

\* Mutant of WithStep: the step after the one updated becomes the current one.
WithStep_CurrentIsNext(p, i, st) ==
  LET steps == [Resaved(p).steps EXCEPT ![i].status = st]
  IN [steps |-> steps,
      current |-> i + 1,
      status |-> IF \A j \in DOMAIN steps : steps[j].status \in {"completed", "skipped"}
                 THEN "completed"
                 ELSE IF st \in {"failed", "running"} THEN st ELSE p.status]

\* updateStepStatus, for the step at place i
WithStep(p, i, st) ==
  LET steps == [Resaved(p).steps EXCEPT ![i].status = st]
  IN [steps |-> steps,
      current |-> FirstPending(steps),
      status |-> IF \A j \in DOMAIN steps : steps[j].status \in {"completed", "skipped"}
                 THEN "completed"
                 ELSE IF st \in {"failed", "running"} THEN st ELSE p.status]

UpdateStep(n, st) ==
  \E k \in DOMAIN plan.steps : Finds(plan.steps, n, k) /\ plan' = WithStep(plan, k, st)

\* updatePlanStatus
UpdatePlan(st) == plan # NoPlan /\ plan' = [Resaved(plan) EXCEPT !.status = st]

PlanInit ==
  /\ \E c \in Contents : plan = Created(c) /\ disturbed = Oddities(c)
  /\ executing = FALSE
  /\ executors = [e \in Executors |-> Idle]
  /\ edit = NoEdit /\ resuming = NoResume
  /\ commands = 0 /\ crashes = 0
  /\ ran = {}

-----------------------------------------------------------------------------
(* executePlan.  At(e, pc) is the call between two awaits; Goes says where it *)
(* goes next.                                                                *)

user == <<edit, resuming, crashes>>

At(e, pc) == executors[e].pc = pc

\* Idle calls are alike: the next one to start is this.
Free == CHOOSE e \in Executors : executors[e] = Idle

Goes(e, x) == executors' = [executors EXCEPT ![e] = x]

\* Mutant of Leave: the call returns with the plan still in executingPlans.
Leave_LockKept(e) == Goes(e, Idle) /\ UNCHANGED executing

\* An exception releases the lock as well.
Leave(e) == Goes(e, Idle) /\ executing' = FALSE

Command == commands < MaxCommands /\ commands' = commands + 1

Walk(p) ==
  [i \in DOMAIN p.steps |-> [settled  |-> p.steps[i].status \in {"completed", "skipped"},
                             optional |-> p.steps[i].marked]]

\* Mutant of Execute: the lock is taken without looking.
Execute_LockIgnored(e, o) ==
  /\ Command
  /\ executors[e] = Idle /\ e = Free
  /\ plan.status \notin {"absent", "cancelled"}
  /\ executing' = TRUE
  /\ Goes(e, [Idle EXCEPT !.pc = IF plan.status = "completed" THEN "leaving" ELSE "opening",
                          !.walk = Walk(plan),
                          !.i = IF o.from # 0 THEN o.from
                                ELSE IF plan.current = 0 THEN 1 ELSE plan.current,
                          !.opts = o])
  /\ disturbed' = IF o.from # 0 THEN disturbed \cup {"jumped"} ELSE disturbed
  /\ UNCHANGED <<plan, user, ran>>

\* plan_execute, "go on" in a chat, plan_resume with asyncProgress and the scan
\* of plan_resume_all.  A plan being executed, absent or cancelled is refused.
Execute(e, o) ==
  /\ Command
  /\ executors[e] = Idle /\ e = Free
  /\ ~executing
  /\ plan.status \notin {"absent", "cancelled"}
  /\ executing' = TRUE
  /\ Goes(e, [Idle EXCEPT !.pc = IF plan.status = "completed" THEN "leaving" ELSE "opening",
                          !.walk = Walk(plan),
                          !.i = IF o.from # 0 THEN o.from
                                ELSE IF plan.current = 0 THEN 1 ELSE plan.current,
                          !.opts = o])
  /\ disturbed' = IF o.from # 0 THEN disturbed \cup {"jumped"} ELSE disturbed
  /\ UNCHANGED <<plan, user, ran>>

\* An update of the plan's status by the executor, which goes on at pc.
Updates(e, st, pc) ==
  /\ IF plan = NoPlan THEN Leave(e) /\ UNCHANGED plan
     ELSE UpdatePlan(st) /\ Goes(e, [executors[e] EXCEPT !.pc = pc]) /\ UNCHANGED executing
  /\ UNCHANGED <<user, commands, ran, disturbed>>

MarkPlanRunning(e) == At(e, "opening") /\ Updates(e, "running", "walking")
MarkPlanCompleted(e) == At(e, "finishing") /\ Updates(e, "completed", "leaving")
MarkPlanFailed(e) == At(e, "failing") /\ Updates(e, "failed", "leaving")

\* Mutant of AfterFailure: the retry is not counted.
AfterFailure_NotCounted(x) ==
  IF x.retries + 1 < x.opts.max THEN [x EXCEPT !.pc = "walking"]
  ELSE IF x.walk[x.i].optional THEN [x EXCEPT !.pc = "walking", !.i = @ + 1, !.retries = 0]
  ELSE [x EXCEPT !.pc = "failing"]

\* retryCount is incremented before it is compared, so maxRetries is the number
\* of attempts.  An optional step may fail.
AfterFailure(x) ==
  IF x.retries + 1 < x.opts.max THEN [x EXCEPT !.pc = "walking", !.retries = @ + 1]
  ELSE IF x.walk[x.i].optional THEN [x EXCEPT !.pc = "walking", !.i = @ + 1, !.retries = 0]
  ELSE [x EXCEPT !.pc = "failing"]

\* With asyncProgress the call ends after every step but the last: the scheduler
\* that would have gone on was removed.
AfterSuccess(x) ==
  IF x.opts.async /\ x.i < Len(x.walk) THEN [x EXCEPT !.pc = "leaving"]
  ELSE [x EXCEPT !.pc = "walking", !.i = @ + 1, !.retries = 0]

\* The loop passes over what was settled when the plan was read.
PassOver(e) ==
  LET x == executors[e]
  IN /\ At(e, "walking")
     /\ \/ x.i > Len(x.walk) /\ Goes(e, [x EXCEPT !.pc = "finishing"])
        \/ x.i <= Len(x.walk) /\ x.walk[x.i].settled /\ Goes(e, [x EXCEPT !.i = @ + 1])
     /\ UNCHANGED <<plan, executing, user, commands, ran, disturbed>>

\* executeStep reads the plan again and takes the place of the step in the loop for
\* its number; a step that is not there counts as failed.
ReadStep(e) ==
  LET x == executors[e]
  IN /\ At(e, "walking")
     /\ x.i <= Len(x.walk) /\ ~x.walk[x.i].settled
     /\ \/ plan = NoPlan /\ Leave(e)
        \/ /\ plan # NoPlan /\ Gone(x.i)
           /\ Goes(e, AfterFailure(x)) /\ UNCHANGED executing
        \/ /\ \E k \in DOMAIN plan.steps :
                Finds(plan.steps, x.i, k) /\ Goes(e, [x EXCEPT !.pc = "asked", !.task = plan.steps[k].task])
           /\ UNCHANGED executing
     /\ UNCHANGED <<plan, user, commands, ran, disturbed>>

\* What follows an update of that step, which throws if it is gone.
StepUpdate(e, st, next) ==
  \/ UpdateStep(executors[e].i, st) /\ Goes(e, next) /\ UNCHANGED executing
  \/ Gone(executors[e].i) /\ Leave(e) /\ UNCHANGED plan

\* The question failed, or the user said no.
StepRefused(e) ==
  /\ At(e, "asked") /\ executors[e].task \in AskFirst
  /\ StepUpdate(e, "skipped", AfterSuccess(executors[e]))
  /\ UNCHANGED <<user, commands, ran, disturbed>>

MarkStepRunning(e) ==
  /\ At(e, "asked")
  /\ StepUpdate(e, "running", [executors[e] EXCEPT !.pc = "running"])
  /\ UNCHANGED <<user, commands, ran, disturbed>>

\* The handler ends, throws or exceeds the timeout of the step.
HandlerEnds(e, ok) ==
  /\ At(e, "running")
  /\ Goes(e, [executors[e] EXCEPT !.pc = "recording", !.ok = ok])
  /\ ran' = IF ok THEN ran \cup {executors[e].task} ELSE ran
  /\ UNCHANGED <<plan, executing, user, commands, disturbed>>

\* Mutant of RecordSuccess: the result goes to the current step of the plan.
RecordSuccess_AtCurrent(e) ==
  /\ At(e, "recording") /\ executors[e].ok
  /\ UpdateStep(plan.current, "completed")
  /\ Goes(e, AfterSuccess(executors[e]))
  /\ UNCHANGED <<executing, user, commands, ran, disturbed>>

RecordSuccess(e) ==
  /\ At(e, "recording") /\ executors[e].ok
  /\ UpdateStep(executors[e].i, "completed")
  /\ Goes(e, AfterSuccess(executors[e]))
  /\ UNCHANGED <<executing, user, commands, ran, disturbed>>

\* The exception of the update is taken for one of the step.
RecordSuccessThrows(e) ==
  /\ At(e, "recording") /\ executors[e].ok
  /\ Gone(executors[e].i)
  /\ Goes(e, [executors[e] EXCEPT !.ok = FALSE])
  /\ UNCHANGED <<plan, executing, user, commands, ran, disturbed>>

\* Mutant of RecordFailure: the failure is reported and not written down.
RecordFailure_Unwritten(e) ==
  /\ At(e, "recording") /\ ~executors[e].ok
  /\ Goes(e, AfterFailure(executors[e]))
  /\ UNCHANGED <<plan, executing, user, commands, ran, disturbed>>

RecordFailure(e) ==
  /\ At(e, "recording") /\ ~executors[e].ok
  /\ StepUpdate(e, "failed", AfterFailure(executors[e]))
  /\ UNCHANGED <<user, commands, ran, disturbed>>

\* Notifications are out and the call returns.
Release(e) ==
  /\ At(e, "leaving")
  /\ Leave(e)
  /\ UNCHANGED <<plan, user, commands, ran, disturbed>>

-----------------------------------------------------------------------------
(* Commands *)

others == <<executing, executors, crashes, ran>>

\* Neither looks at the plan's status.
Pause == Command /\ UpdatePlan("paused") /\ UNCHANGED <<others, edit, resuming, disturbed>>
Cancel == Command /\ UpdatePlan("cancelled") /\ UNCHANGED <<others, edit, resuming, disturbed>>

\* resumePlan reads, and writes back the current step it read.
ResumeReads ==
  /\ Command
  /\ ~resuming.on
  /\ plan.status \in {"paused", "failed"}
  /\ resuming' = [on |-> TRUE, current |-> plan.current]
  /\ UNCHANGED <<plan, others, edit, disturbed>>

ResumeWrites ==
  /\ resuming.on
  /\ resuming' = NoResume
  /\ plan' = IF plan = NoPlan THEN plan
             ELSE [Resaved(plan) EXCEPT !.status = "running", !.current = resuming.current]
  /\ disturbed' = IF plan # NoPlan /\ plan.current # resuming.current
                  THEN disturbed \cup {"overwritten"} ELSE disturbed
  /\ UNCHANGED <<others, edit, commands>>

\* "skip step n" in a chat
SkipStep(n) == Command /\ UpdateStep(n, "skipped") /\ UNCHANGED <<others, edit, resuming, disturbed>>

Delete ==
  /\ Command
  /\ plan' = NoPlan
  /\ UNCHANGED <<others, edit, resuming, disturbed>>

\* What the numbers of a plan stand for, and what it says has been done.
Named(p) == [i \in DOMAIN p.steps |-> <<p.steps[i].number, p.steps[i].task>>]
Done(p)  == {p.steps[i].task : i \in {j \in DOMAIN p.steps : p.steps[j].status = "completed"}}

\* A save of p gives steps that are being executed, or were completed in q, other
\* descriptions.
Rewording(p, q) ==
  IF (executing /\ Named(p) # Named(plan)) \/ ~(Done(p) \subseteq Done(q)) THEN {"reworded"} ELSE {}

\* plan_create, where there is no plan or it is to be overwritten.
Create(c) ==
  /\ Command
  /\ plan' = Created(c)
  /\ disturbed' = disturbed \cup Oddities(c) \cup Rewording(Created(c), Created(c))
                            \cup (IF executing THEN {"overwritten"} ELSE {})
  /\ UNCHANGED <<others, edit, resuming>>

WithSteps(steps) == [Resaved(plan) EXCEPT !.steps = steps]
Described(s, k, d) == [s EXCEPT ![k].task = d.task, ![k].marked = d.marked]
InsertedAt(s, i, x) == SubSeq(s, 1, i - 1) \o <<x>> \o SubSeq(s, i, Len(s))
Removed(s, a, b) == SubSeq(s, 1, a - 1) \o SubSeq(s, b + 1, Len(s))
MovedTo(s, i, j) == InsertedAt(Removed(s, i, i), j, s[i])
Renumbered(s) == [i \in DOMAIN s |-> [s[i] EXCEPT !.number = i]]

\* Steps are sorted, so those of one number are at the places from r[1] to r[2].
Runs(s) == {r \in (DOMAIN s) \X (DOMAIN s) :
              \A i \in DOMAIN s : s[i].number = s[r[1]].number <=> i \in r[1]..r[2]}

\* update_title and modify_step: the step found keeps its number and its status, and
\* the descriptions of all others lose their markers.
Rewordings ==
  LET s == Resaved(plan).steps
  IN {WithSteps(s)} \cup {WithSteps(Described(s, r[1], d)) : r \in Runs(s), d \in Descriptions}

\* add_step, and unless the plan says it is running delete_step and reorder_steps:
\* all of them number the steps anew.
Restructurings ==
  LET s == Resaved(plan).steps
      new(d) == [number |-> 0, task |-> d.task, status |-> "pending", marked |-> d.marked]
  IN {WithSteps(Renumbered(InsertedAt(s, i, new(d)))) : i \in 1..(Len(s) + 1), d \in Descriptions}
     \cup (IF plan.status = "running" THEN {}
           ELSE {WithSteps(Renumbered(s))}
                \cup {WithSteps(Renumbered(Removed(s, r[1], r[2]))) : r \in Runs(s)}
                \cup {WithSteps(Renumbered(MovedTo(s, i, j))) : i, j \in DOMAIN s})

\* plan_edit up to the await.
EditReads(p, moves) ==
  /\ Command
  /\ edit = NoEdit
  /\ plan # NoPlan
  /\ edit' = [saves |-> p, base |-> plan, moves |-> moves]
  /\ UNCHANGED <<plan, others, resuming, disturbed>>

\* The rest of plan_edit: what was read before the await is saved.
EditSaves ==
  /\ edit # NoEdit
  /\ plan' = edit.saves
  /\ edit' = NoEdit
  /\ disturbed' = disturbed \cup Rewording(edit.saves, edit.base)
       \cup (IF plan # edit.base THEN {"overwritten"} ELSE {})
       \cup (IF edit.moves THEN {"restructured"} ELSE {})
       \cup (IF edit.moves /\ executing THEN {"renumbered"} ELSE {})
  /\ UNCHANGED <<others, resuming, commands>>

\* Only the file survives.
Crash ==
  /\ crashes < MaxCrashes /\ crashes' = crashes + 1
  /\ executing' = FALSE
  /\ executors' = [e \in Executors |-> Idle]
  /\ edit' = NoEdit /\ resuming' = NoResume
  /\ disturbed' = disturbed \cup {"crash"}
  /\ UNCHANGED <<plan, commands, ran>>

-----------------------------------------------------------------------------
ExecutorStep(e) ==
  \/ MarkPlanRunning(e) \/ MarkPlanCompleted(e) \/ MarkPlanFailed(e)
  \/ PassOver(e) \/ ReadStep(e) \/ StepRefused(e) \/ MarkStepRunning(e)
  \/ \E ok \in BOOLEAN : HandlerEnds(e, ok)
  \/ RecordSuccess(e) \/ RecordSuccessThrows(e) \/ RecordFailure(e)
  \/ Release(e)

PlanNext ==
  \/ \E e \in Executors : ExecutorStep(e)
  \/ \E e \in Executors, o \in Options : Execute(e, o)
  \/ Pause \/ Cancel \/ ResumeReads \/ ResumeWrites \/ Delete
  \/ \E c \in Contents : Create(c)
  \/ \E i \in DOMAIN plan.steps : SkipStep(plan.steps[i].number)
  \/ \E p \in Rewordings : EditReads(p, FALSE)
  \/ \E p \in Restructurings : EditReads(p, TRUE)
  \/ EditSaves
  \/ Crash

PlanSpec == PlanInit /\ [][PlanNext]_vars

\* Steps have a timeout and retries a bound; users promise nothing.
FairPlanSpec == PlanSpec /\ \A e \in Executors : WF_vars(ExecutorStep(e))

-----------------------------------------------------------------------------
(* Properties *)

Calm(ds) == disturbed \cap ds = {}

\* A step recorded as completed is one whose own task has succeeded, however steps
\* are numbered, through retries, crashes, resumes and saves of an older plan,
\* unless the content came with marks of its own, or somebody gave a completed step
\* or one being executed another description.
CompletedWasRun ==
  Calm({"premarked", "reworded"}) => Done(plan) \subseteq ran

\* Only a crash, an older plan saved over a newer one, steps moved under an executor
\* or a mark in the content leaves a step marked as running when nobody executes
\* the plan.
RunningHasExecutor ==
  ~executing /\ Calm({"crash", "overwritten", "renumbered", "premarked"}) =>
    \A i \in DOMAIN plan.steps : plan.steps[i].status # "running"

\* A plan that ended as completed has no step nobody has tried, however often it
\* was paused, failed, crashed and resumed on the way and whatever marks it came
\* with, if its steps are numbered by their places, unless they were restructured
\* or the caller chose where to start.
NothingPendingWhenCompleted ==
  plan.status = "completed" /\ Calm({"overwritten", "restructured", "jumped", "misnumbered"}) =>
    \A i \in DOMAIN plan.steps : plan.steps[i].status # "pending"

\* Whoever executes the plan comes to an end and gives it free, however its steps
\* fail and whatever users do to the plan meanwhile.
ExecutorsEnd == executing ~> ~executing

\* What the ledger's reader sees of it.
Record   == [n \in {plan.steps[i].number : i \in DOMAIN plan.steps} |->
               plan.steps[CHOOSE k \in DOMAIN plan.steps : Finds(plan.steps, n, k)].status]
UnderWay == {executors[e].i : e \in {x \in Executors : At(x, "running") \/ At(x, "recording")}}
Busy     == IF UnderWay = {} THEN 0 ELSE CHOOSE i \in UnderWay : TRUE
Loose    == ~Calm({"overwritten", "renumbered", "misnumbered"})

Ledger == INSTANCE PlanLedger WITH record <- Record, busy <- Busy, working <- executing, loose <- Loose

\* The detailed execution implements the ledger.
ImplementsLedger == Ledger!LedgerSpec
=============================================================================
