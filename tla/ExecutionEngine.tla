---------------------------- MODULE ExecutionEngine ----------------------------
(***************************************************************************)
(* Recursive execution of skills (src/src/engine/execution-engine.ts):     *)
(* depth and budget limits, AUTO_PRE / AUTO_POST hooks, retries, timeouts, *)
(* the write-ahead log entries of every call, and SAGA compensation when a *)
(* top-level execution throws.                                             *)
(*                                                                         *)
(* An execution is a stack of frames, one per executeRecursive in progress.*)
(* Code between two awaits is one action.  What permissions, parameter     *)
(* validation and the circuit breaker answer is left open (Refusable).     *)
(* A handler runs outside the engine: it returns, throws, or does neither  *)
(* before its timeout, and then goes on running unseen (Promise.race does  *)
(* not stop it).  A handler that throws is taken to have had no effect.    *)
(***************************************************************************)
EXTENDS Integers, Sequences, FiniteSets

CONSTANTS
  Skills,        \* names of skills
  Deps,          \* skill.dependencies, in order
  Autonomy,      \* skill.autonomy
  Compensable,   \* skills with a compensate handler
  PreBlocks,     \* errorPropagation.preFailureBlocks is not false
  PostAffects,   \* errorPropagation.postFailureAffectsResult is true
  MaxRetries,    \* skill.retry.maxRetries
  RetryOn,       \* the kinds of error that skill.retry.retryableErrors lets retry
  Timed,         \* skills with a timeout, GUARDIAN skills excluded
  Refusable,     \* skills a call of which may be refused before it starts
  Removable,     \* skills that may be unregistered while the engine runs
  Execs,         \* top-level executions
  Root,          \* the skill each one executes
  MaxDepth,      \* config.maxDepth
  CallBudget     \* config.callBudget

AutonomyKinds == {"MANUAL", "AUTO_PRE", "AUTO_POST", "GUARDIAN"}
ErrorKinds == {"error", "timeout"}

ASSUME EngineConfig ==
  /\ Deps \in [Skills -> Seq(Skills)]
  /\ Autonomy \in [Skills -> AutonomyKinds]
  /\ Compensable \subseteq Skills
  /\ PreBlocks \subseteq Skills
  /\ PostAffects \subseteq Skills
  /\ MaxRetries \in [Skills -> Nat]
  /\ RetryOn \in [Skills -> SUBSET ErrorKinds]
  /\ Timed \subseteq {s \in Skills : Autonomy[s] # "GUARDIAN"}
  /\ Refusable \subseteq Skills
  /\ Removable \subseteq Skills
  /\ Root \in [Execs -> Skills]
  /\ MaxDepth \in Nat
  /\ CallBudget \in Nat

VARIABLES
  phase,       \* per execution: what execute() is doing
  frames,      \* per execution: the calls of executeRecursive in progress
  ret,         \* per execution: what the call that just ended hands its caller
  budget,      \* per execution: context.callBudget.remaining, one object for all
  completed,   \* per execution: completedSteps
  wal,         \* entries of the write-ahead log; the index is the entry's id
  late,        \* handler runs that outlived their timeout
  fate,        \* history: what became of each handler run that took effect
  registered   \* skills the registry knows

vars == <<phase, frames, ret, budget, completed, wal, late, fate, registered>>

Phases   == {"idle", "running", "ok", "soft", "compensating", "failed"}
Results  == {"ok", "soft"}        \* SkillResult.success is true, or false
Returns  == Results \cup {"none", "threw"}
Statuses == {"pending", "completed", "failed"}

\* A handler run is known by its call's log entry and the attempt number.
Runs == Nat \X Nat

\* pc: running the AUTO_PRE hooks, the handler, waiting to retry it, running
\* the AUTO_POST hooks.  next: the next dependency executeHooks looks at.
Frame == [skill : Skills, wal : Nat, pc : {"pre", "run", "backoff", "post"},
          next : Nat \ {0}, attempt : Nat, result : Results]

Entry == [exec : Execs, skill : Skills, parent : Nat, status : Statuses]

TypeOK ==
  /\ phase \in [Execs -> Phases]
  /\ frames \in [Execs -> Seq(Frame)]
  /\ ret \in [Execs -> Returns]
  /\ budget \in [Execs -> 0..CallBudget]
  /\ completed \in [Execs -> Seq(Runs)]
  /\ wal \in Seq(Entry)
  /\ late \subseteq Runs
  /\ DOMAIN fate \subseteq Runs
  /\ \A r \in DOMAIN fate : fate[r] \in {"done", "late", "undone", "givenUp"}
  /\ registered \subseteq Skills

Init ==
  /\ phase = [e \in Execs |-> "idle"]
  /\ frames = [e \in Execs |-> <<>>]
  /\ ret = [e \in Execs |-> "none"]
  /\ budget = [e \in Execs |-> CallBudget]
  /\ completed = [e \in Execs |-> <<>>]
  /\ wal = <<>>
  /\ late = {}
  /\ fate = <<>>
  /\ registered = Skills

-----------------------------------------------------------------------------
(* Frames *)

Top(e)   == frames[e][Len(frames[e])]
Below(e) == SubSeq(frames[e], 1, Len(frames[e]) - 1)
InPc(e, pc) == frames[e] # <<>> /\ Top(e).pc = pc

\* The call is between two awaits of its own: no callee has thrown into it.
Ready(e) == phase[e] = "running" /\ frames[e] # <<>> /\ ret[e] = "none"

WithTop(e, f) == [frames EXCEPT ![e] = Append(Below(e), f)]
ThisRun(e) == <<Top(e).wal, Top(e).attempt>>
SetFate(r, f) == fate' = [x \in DOMAIN fate \cup {r} |-> IF x = r THEN f ELSE fate[x]]

\* The innermost call ends: its log entry is closed and its caller resumes.  A
\* hook's result is dropped; an exception is thrown into the caller's await.
Settle(e, status, r) ==
  /\ wal' = [wal EXCEPT ![Top(e).wal].status = status]
  /\ frames' = [frames EXCEPT ![e] = Below(e)]
  /\ ret' = [ret EXCEPT ![e] = IF r = "threw" \/ Below(e) = <<>> THEN r ELSE "none"]

\* Mutant of Fail: the log entry of a call that throws is left open.
Fail_EntryLeftOpen(e) ==
  /\ frames' = [frames EXCEPT ![e] = Below(e)]
  /\ ret' = [ret EXCEPT ![e] = "threw"]
  /\ UNCHANGED wal

Fail(e)    == Settle(e, "failed", "threw")
Succeed(e) == Settle(e, "completed", Top(e).result)

-----------------------------------------------------------------------------
(* The prologue of executeRecursive *)

NewFrame(s) == [skill |-> s, wal |-> Len(wal) + 1, pc |-> "pre",
                next |-> 1, attempt |-> 0, result |-> "ok"]

NewEntry(e, s) ==
  [exec |-> e, skill |-> s, status |-> "pending",
   parent |-> IF frames[e] = <<>> THEN 0 ELSE Top(e).wal]

\* The call throws before it has a log entry.
Refuse(e, stack) ==
  /\ ret' = [ret EXCEPT ![e] = "threw"]
  /\ frames' = [frames EXCEPT ![e] = stack]
  /\ UNCHANGED wal

\* Mutant of Enter: every call gets a budget of its own.
Enter_BudgetCopied(e, s, stack) ==
  \/ /\ Len(stack) >= MaxDepth
     /\ Refuse(e, stack)
     /\ UNCHANGED budget
  \/ /\ Len(stack) < MaxDepth
     /\ wal' = Append(wal, NewEntry(e, s))
     /\ frames' = [frames EXCEPT ![e] = Append(stack, NewFrame(s))]
     /\ UNCHANGED <<budget, ret>>

\* Mutant of Enter: the budget is tested one call too late.
Enter_BudgetOffByOne(e, s, stack) ==
  \/ /\ Len(stack) >= MaxDepth \/ budget[e] < 0
     /\ Refuse(e, stack)
     /\ UNCHANGED budget
  \/ /\ Len(stack) < MaxDepth /\ budget[e] >= 0
     /\ budget' = [budget EXCEPT ![e] = @ - 1]
     /\ wal' = Append(wal, NewEntry(e, s))
     /\ frames' = [frames EXCEPT ![e] = Append(stack, NewFrame(s))]
     /\ UNCHANGED ret

\* stack: the caller's frames, its top one already advanced past this call.
Enter(e, s, stack) ==
  \/ /\ Len(stack) >= MaxDepth \/ budget[e] <= 0
     /\ Refuse(e, stack)
     /\ UNCHANGED budget
  \/ /\ Len(stack) < MaxDepth /\ budget[e] > 0
     /\ budget' = [budget EXCEPT ![e] = @ - 1]
     /\ \/ /\ s \notin registered \/ s \in Refusable
           /\ Refuse(e, stack)
        \/ /\ s \in registered
           /\ wal' = Append(wal, NewEntry(e, s))
           /\ frames' = [frames EXCEPT ![e] = Append(stack, NewFrame(s))]
           /\ UNCHANGED ret

Start(e) ==
  /\ phase[e] = "idle"
  /\ phase' = [phase EXCEPT ![e] = "running"]
  /\ Enter(e, Root[e], <<>>)
  /\ UNCHANGED <<completed, late, fate, registered>>

-----------------------------------------------------------------------------
(* Hooks *)

HookKind(f) == IF f.pc = "pre" THEN "AUTO_PRE" ELSE "AUTO_POST"

\* The dependencies executeHooks has still to call, by position.
HooksLeft(f) ==
  {i \in f.next..Len(Deps[f.skill]) :
     /\ Deps[f.skill][i] \in registered
     /\ Autonomy[Deps[f.skill][i]] = HookKind(f)}

CallHook(e) ==
  /\ Ready(e)
  /\ Top(e).pc \in {"pre", "post"}
  /\ \E i \in HooksLeft(Top(e)) :
       /\ \A j \in HooksLeft(Top(e)) : i <= j
       /\ Enter(e, Deps[Top(e).skill][i],
                Append(Below(e), [Top(e) EXCEPT !.next = i + 1]))
  /\ UNCHANGED <<phase, completed, late, fate, registered>>

\* Mutant of PreHookThrew: preFailureBlocks is read the other way round.
PreHookThrew_Inverted(e) ==
  /\ phase[e] = "running" /\ ret[e] = "threw" /\ InPc(e, "pre")
  /\ IF Top(e).skill \notin PreBlocks
       THEN Fail(e)
       ELSE /\ frames' = WithTop(e, [Top(e) EXCEPT !.pc = "run"])
            /\ ret' = [ret EXCEPT ![e] = "none"]
            /\ UNCHANGED wal
  /\ UNCHANGED <<phase, budget, completed, late, fate, registered>>

\* An AUTO_PRE hook threw: the call fails too, or skips the hooks that are left
\* and goes on to its handler.
PreHookThrew(e) ==
  /\ phase[e] = "running" /\ ret[e] = "threw" /\ InPc(e, "pre")
  /\ IF Top(e).skill \in PreBlocks
       THEN Fail(e)
       ELSE /\ frames' = WithTop(e, [Top(e) EXCEPT !.pc = "run"])
            /\ ret' = [ret EXCEPT ![e] = "none"]
            /\ UNCHANGED wal
  /\ UNCHANGED <<phase, budget, completed, late, fate, registered>>

\* An AUTO_POST hook threw: the call, whose handler has completed, fails or not.
PostHookThrew(e) ==
  /\ phase[e] = "running" /\ ret[e] = "threw" /\ InPc(e, "post")
  /\ IF Top(e).skill \in PostAffects THEN Fail(e) ELSE Succeed(e)
  /\ UNCHANGED <<phase, budget, completed, late, fate, registered>>

-----------------------------------------------------------------------------
(* The handler: executeWithRetry and executeWithTimeout *)

StartHandler(e) ==
  /\ Ready(e)
  /\ \/ Top(e).pc = "pre" /\ HooksLeft(Top(e)) = {}
     \/ Top(e).pc = "backoff"
  /\ frames' = WithTop(e, [Top(e) EXCEPT !.pc = "run"])
  /\ UNCHANGED <<phase, ret, budget, completed, wal, late, fate, registered>>

\* Mutant of HandlerReturns: the step is not recorded for compensation.
HandlerReturns_NotRecorded(e, r) ==
  /\ Ready(e) /\ Top(e).pc = "run"
  /\ SetFate(ThisRun(e), "done")
  /\ frames' = WithTop(e, [Top(e) EXCEPT !.pc = "post", !.next = 1, !.result = r])
  /\ UNCHANGED <<phase, ret, budget, completed, wal, late, registered>>

\* The handler answers: a compensable step is recorded whatever r says.
HandlerReturns(e, r) ==
  /\ Ready(e) /\ Top(e).pc = "run"
  /\ SetFate(ThisRun(e), "done")
  /\ completed' = IF Top(e).skill \in Compensable
                    THEN [completed EXCEPT ![e] = Append(@, ThisRun(e))]
                    ELSE completed
  /\ frames' = WithTop(e, [Top(e) EXCEPT !.pc = "post", !.next = 1, !.result = r])
  /\ UNCHANGED <<phase, ret, budget, wal, late, registered>>

\* Mutant of AttemptFails: the attempts are not counted.
AttemptFails_NotCounted(e, kind) ==
  IF kind \in RetryOn[Top(e).skill] /\ Top(e).attempt < MaxRetries[Top(e).skill]
    THEN /\ frames' = WithTop(e, [Top(e) EXCEPT !.pc = "backoff"])
         /\ UNCHANGED <<ret, wal>>
    ELSE Fail(e)

\* An attempt failed with an error of this kind: wait and try again, or throw.
AttemptFails(e, kind) ==
  IF kind \in RetryOn[Top(e).skill] /\ Top(e).attempt < MaxRetries[Top(e).skill]
    THEN /\ frames' = WithTop(e, [Top(e) EXCEPT !.pc = "backoff", !.attempt = @ + 1])
         /\ UNCHANGED <<ret, wal>>
    ELSE Fail(e)

HandlerThrows(e) ==
  /\ Ready(e) /\ Top(e).pc = "run"
  /\ AttemptFails(e, "error")
  /\ UNCHANGED <<phase, budget, completed, late, fate, registered>>

HandlerTimesOut(e) ==
  /\ Ready(e) /\ Top(e).pc = "run"
  /\ Top(e).skill \in Timed
  /\ late' = late \cup {ThisRun(e)}
  /\ AttemptFails(e, "timeout")
  /\ UNCHANGED <<phase, budget, completed, fate, registered>>

\* A handler that timed out ends after all; nobody waits for its answer.
LateRunEnds(r) ==
  /\ r \in late
  /\ late' = late \ {r}
  /\ \/ SetFate(r, "late")
     \/ UNCHANGED fate
  /\ UNCHANGED <<phase, frames, ret, budget, completed, wal, registered>>

\* The AUTO_POST hooks are done.
FinishCall(e) ==
  /\ Ready(e) /\ Top(e).pc = "post"
  /\ HooksLeft(Top(e)) = {}
  /\ Succeed(e)
  /\ UNCHANGED <<phase, budget, completed, late, fate, registered>>

-----------------------------------------------------------------------------
(* The end of execute() *)

ReturnResult(e) ==
  /\ phase[e] = "running" /\ frames[e] = <<>> /\ ret[e] \in Results
  /\ phase' = [phase EXCEPT ![e] = ret[e]]
  /\ UNCHANGED <<frames, ret, budget, completed, wal, late, fate, registered>>

Rethrow(e) ==
  /\ phase[e] = "running" /\ frames[e] = <<>> /\ ret[e] = "threw"
  /\ phase' = [phase EXCEPT ![e] = IF completed[e] = <<>> THEN "failed"
                                                          ELSE "compensating"]
  /\ UNCHANGED <<frames, ret, budget, completed, wal, late, fate, registered>>

\* Mutant of NextToUndo: compensation in the order of completion.
NextToUndo_Oldest(e) == 1

\* runCompensation walks completedSteps from its end.
NextToUndo(e) == Len(completed[e])

\* One turn of runCompensation: the handler undoes the step, throws (logged and
\* ignored), or is not found because the skill is no longer registered.
CompensateStep(e) ==
  LET r == completed[e][NextToUndo(e)]
  IN  /\ phase[e] = "compensating"
      /\ \/ /\ wal[r[1]].skill \in registered
            /\ SetFate(r, "undone")
         \/ SetFate(r, "givenUp")
      /\ completed' = [completed EXCEPT ![e] =
           [i \in 1..(Len(@) - 1) |-> IF i < NextToUndo(e) THEN @[i] ELSE @[i + 1]]]
      /\ phase' = [phase EXCEPT ![e] = IF Len(completed[e]) = 1 THEN "failed" ELSE @]
      /\ UNCHANGED <<frames, ret, budget, wal, late, registered>>

\* A skill nobody depends on is unregistered while executions are under way.
Unregister(s) ==
  /\ s \in registered \cap Removable
  /\ \A t \in registered : \A i \in 1..Len(Deps[t]) : Deps[t][i] # s
  /\ registered' = registered \ {s}
  /\ UNCHANGED <<phase, frames, ret, budget, completed, wal, late, fate>>

-----------------------------------------------------------------------------
\* What the engine does by itself, a timer included; handlers are not in it.
EngineStep(e) ==
  \/ Start(e)
  \/ CallHook(e)
  \/ PreHookThrew(e)
  \/ PostHookThrew(e)
  \/ StartHandler(e)
  \/ HandlerTimesOut(e)
  \/ FinishCall(e)
  \/ ReturnResult(e)
  \/ Rethrow(e)

HandlerStep(e) ==
  \/ \E r \in Results : HandlerReturns(e, r)
  \/ HandlerThrows(e)
  \/ CompensateStep(e)

Next ==
  \/ \E e \in Execs : EngineStep(e) \/ HandlerStep(e)
  \/ \E r \in late : LateRunEnds(r)
  \/ \E s \in Skills : Unregister(s)

Spec == Init /\ [][Next]_vars

\* The event loop runs what is ready and timers fire; no handler is promised
\* to answer.
FairSpec == Spec /\ \A e \in Execs : WF_vars(EngineStep(e))

-----------------------------------------------------------------------------
(* Properties *)

Owner(r)   == wal[r[1]].exec
SkillOf(r) == wal[r[1]].skill

\* The log and the stacks tell the same story at every moment, so that a replay
\* after a crash finds as pending exactly the calls that were in progress, each
\* below its caller.
LogFollowsStacks ==
  /\ \A e \in Execs : \A k \in 1..Len(frames[e]) :
       wal[frames[e][k].wal] =
         [exec |-> e, skill |-> frames[e][k].skill, status |-> "pending",
          parent |-> IF k = 1 THEN 0 ELSE frames[e][k - 1].wal]
  /\ \A i \in 1..Len(wal) : wal[i].status = "pending" =>
       \E k \in 1..Len(frames[wal[i].exec]) : frames[wal[i].exec][k].wal = i

\* Whatever the dependency graph, cycles included, one execution makes at most
\* callBudget calls and nests at most maxDepth of them.
CallsWithinLimits ==
  \A e \in Execs :
    /\ Len(frames[e]) <= MaxDepth
    /\ Cardinality({i \in 1..Len(wal) : wal[i].exec = e}) + budget[e] <= CallBudget

\* A handler runs only after every AUTO_PRE hook of its skill has returned, unless
\* the skill says that their failure does not block it: a hook that throws, times out
\* or is refused blocks.  One that returns {success: false} counts as completed.
BlockingHooksReturned ==
  \A e \in Execs : \A k \in 1..Len(frames[e]) :
    LET f == frames[e][k]
    IN  f.pc # "pre" /\ f.skill \in PreBlocks =>
          \A d \in {Deps[f.skill][i] : i \in 1..Len(Deps[f.skill])} :
            d \in registered /\ Autonomy[d] = "AUTO_PRE" =>
              \E i \in 1..Len(wal) : /\ wal[i].skill = d
                                     /\ wal[i].parent = f.wal
                                     /\ wal[i].status = "completed"

\* When a failed execution is over, each compensable step the engine saw
\* complete was undone or given up; when one has not failed, nothing was.
FailureSettlesSteps ==
  \A r \in DOMAIN fate :
    /\ phase[Owner(r)] = "failed" /\ SkillOf(r) \in Compensable => fate[r] # "done"
    /\ fate[r] \in {"undone", "givenUp"} =>
         phase[Owner(r)] \in {"compensating", "failed"}

\* Each execution is a saga: steps complete, then either all stay or they are
\* undone from the last to the first.
SagaMode(e) == CASE phase[e] \in {"idle", "running"} -> "open"
                 [] phase[e] \in Results             -> "committed"
                 [] phase[e] = "compensating"        -> "aborting"
                 [] phase[e] = "failed"              -> "aborted"
UndoneBy(e) == {r \in DOMAIN fate : fate[r] = "undone" /\ Owner(r) = e}
MostRetries == CHOOSE n \in {MaxRetries[s] : s \in Skills} :
                 \A s \in Skills : MaxRetries[s] <= n
SagaSteps == (1..(CallBudget * Cardinality(Execs))) \X (0..MostRetries)
SagaOf(e) == INSTANCE Saga WITH Steps  <- SagaSteps,
                                mode   <- SagaMode(e),
                                log    <- completed[e],
                                undone <- UndoneBy(e)
SagaImplemented ==
  /\ \A e \in Execs : SagaOf(e)!Init
  /\ [][\A e \in Execs : [SagaOf(e)!Next]_(SagaOf(e)!vars)]_vars

\* Every call ends, however the handlers behave and whatever the graph, when
\* every skill has a timeout.
CallsEnd == \A e \in Execs : phase[e] = "running" ~> phase[e] # "running"

\* What types/skill.ts says of a saga: when the execution fails, the completed
\* operations are rolled back.  Most handlers report a failure as
\* {success: false} and throw nothing, and then nothing is.
FailedResultRolledBack ==
  \A r \in DOMAIN fate :
    /\ phase[Owner(r)] = "soft"
    /\ SkillOf(r) \in Compensable \ {Root[Owner(r)]}
    => fate[r] # "done"
=============================================================================
