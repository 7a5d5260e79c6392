------------------------ MODULE ExecutionEngineProofs ------------------------
(***************************************************************************)
(* Theorems about the engine, for any skills, dependency graph, limits and *)
(* number of executions: its types, that the write-ahead log follows the   *)
(* stacks of calls, that the limits on depth and calls hold, that a failed *)
(* execution leaves none of its compensable steps unsettled, that no       *)
(* handler starts before the hooks that block it have completed, and that  *)
(* no call runs it more often than its retries allow; and that each        *)
(* execution implements Saga, over the steps that those limits leave.      *)
(*                                                                         *)
(* What a step does to the stack of one execution and to the log is one of *)
(* three things (StackStep): the stack stays as it is but for the progress *)
(* of its top frame, a call is pushed, or the innermost call is popped.    *)
(***************************************************************************)
EXTENDS ExecutionEngine, SequenceTheorems, FiniteSetTheorems, TLAPS

\* The frames of st are those of e's stack, perhaps further on.
Matches(e, st) ==
  /\ st \in Seq(Frame)
  /\ Len(st) = Len(frames[e])
  /\ \A k \in 1..Len(st) : /\ st[k].skill = frames[e][k].skill
                           /\ st[k].wal = frames[e][k].wal

\* A call that is refused may have cost one of the calls that are left.
Advances(e) ==
  /\ wal' = wal
  /\ \A f \in Execs : budget'[f] <= budget[f]
  /\ \E st : Matches(e, st) /\ frames' = [frames EXCEPT ![e] = st]

Pushes(e) ==
  \E s \in Skills, st \in Seq(Frame) :
    /\ Matches(e, st)
    /\ Len(st) < MaxDepth
    /\ budget[e] > 0
    /\ budget' = [budget EXCEPT ![e] = @ - 1]
    /\ wal' = Append(wal, NewEntry(e, s))
    /\ frames' = [frames EXCEPT ![e] = Append(st, NewFrame(s))]

Pops(e) ==
  /\ frames[e] # <<>>
  /\ \E status \in {"completed", "failed"} :
       wal' = [wal EXCEPT ![Top(e).wal].status = status]
  /\ frames' = [frames EXCEPT ![e] = Below(e)]
  /\ budget' = budget

StackStep(e) == Advances(e) \/ Pushes(e) \/ Pops(e)

-----------------------------------------------------------------------------
(* The top of a stack and what is below it. *)
LEMMA StackParts ==
  ASSUME TypeOK, NEW e \in Execs, frames[e] # <<>>
  PROVE  /\ Len(frames[e]) \in Nat \ {0}
         /\ Top(e) \in Frame
         /\ Below(e) \in Seq(Frame)
         /\ Len(Below(e)) = Len(frames[e]) - 1
         /\ \A k \in 1..(Len(frames[e]) - 1) : Below(e)[k] = frames[e][k]
<1>1. frames[e] \in Seq(Frame)
  BY DEF TypeOK
<1>2. Len(frames[e]) \in Nat \ {0}
  BY <1>1, EmptySeq
<1>3. \A k \in 1..Len(frames[e]) : frames[e][k] \in Frame
  BY <1>1, ElementOfSeq
<1>4. Top(e) \in Frame
  BY <1>2, <1>3 DEF Top
<1>5. /\ Below(e) \in Seq(Frame)
      /\ Len(Below(e)) = Len(frames[e]) - 1
      /\ \A k \in 1..(Len(frames[e]) - 1) : Below(e)[k] = frames[e][k]
  <2> DEFINE n == Len(frames[e]) - 1
  <2>1. n \in Nat
    BY <1>2
  <2>2. \A k \in 1..n : frames[e][k] \in Frame
    BY <1>2, <1>3
  <2>3. /\ SubSeq(frames[e], 1, n) \in Seq(Frame)
        /\ Len(SubSeq(frames[e], 1, n)) = IF 1 <= n THEN n - 1 + 1 ELSE 0
        /\ \A k \in 1..(n - 1 + 1) : SubSeq(frames[e], 1, n)[k] = frames[e][1 + k - 1]
    BY <2>1, <2>2, SubSeqProperties
  <2> HIDE DEF n
  <2>4. /\ Len(SubSeq(frames[e], 1, n)) = n
        /\ \A k \in 1..n : SubSeq(frames[e], 1, n)[k] = frames[e][k]
    BY <2>1, <2>3
  <2> QED BY <2>3, <2>4 DEF Below, n
<1> QED BY <1>2, <1>4, <1>5

(* A stack whose top frame has made progress matches the one it was. *)
LEMMA AdvancedTop ==
  ASSUME TypeOK, NEW e \in Execs, frames[e] # <<>>,
         NEW f \in Frame, f.skill = Top(e).skill, f.wal = Top(e).wal
  PROVE  Matches(e, Append(Below(e), f))
<1> DEFINE st == Append(Below(e), f)
<1>1. /\ Len(frames[e]) \in Nat \ {0}
      /\ Below(e) \in Seq(Frame)
      /\ Len(Below(e)) = Len(frames[e]) - 1
      /\ \A k \in 1..(Len(frames[e]) - 1) : Below(e)[k] = frames[e][k]
  BY StackParts
<1>2. /\ st \in Seq(Frame)
      /\ Len(st) = Len(Below(e)) + 1
      /\ \A k \in 1..Len(Below(e)) : st[k] = Below(e)[k]
      /\ st[Len(Below(e)) + 1] = f
  BY <1>1, AppendProperties
<1> HIDE DEF st
<1>3. Len(st) = Len(frames[e])
  BY <1>1, <1>2
<1>4. ASSUME NEW k \in 1..Len(st)
      PROVE  st[k].skill = frames[e][k].skill /\ st[k].wal = frames[e][k].wal
  <2>1. CASE k = Len(frames[e])
    BY <2>1, <1>1, <1>2 DEF Top
  <2>2. CASE k # Len(frames[e])
    <3>1. k \in 1..(Len(frames[e]) - 1)
      BY <2>2, <1>1, <1>3
    <3> QED BY <3>1, <1>1, <1>2
  <2> QED BY <2>1, <2>2
<1>5. Matches(e, st)
  BY <1>2, <1>3, <1>4 DEF Matches
<1> QED BY <1>5 DEF st

(* executeRecursive's prologue either pushes a call onto the stack that the
   caller hands over, or throws into it. *)
LEMMA EnterStack ==
  ASSUME TypeOK,
         NEW e \in Execs, NEW s \in Skills, NEW st, Matches(e, st), Enter(e, s, st)
  PROVE  Advances(e) \/ Pushes(e)
<1>1. CASE Refuse(e, st)
  <2>1. budget \in [Execs -> Int]
    BY EngineConfig DEF TypeOK
  <2>2. budget' = budget \/ budget' = [budget EXCEPT ![e] = @ - 1]
    BY DEF Enter
  <2>3. \A f \in Execs : budget'[f] <= budget[f]
    BY <2>1, <2>2
  <2> QED BY <1>1, <2>3 DEF Refuse, Advances
<1>2. CASE ~Refuse(e, st)
  <2>1. st \in Seq(Frame)
    BY DEF Matches
  <2> QED BY <1>2, <2>1 DEF Enter, Pushes
<1> QED BY <1>1, <1>2

(* An action that ends the innermost call and closes its entry pops it. *)
LEMMA SettleStack ==
  ASSUME NEW e \in Execs, frames[e] # <<>>, NEW status \in {"completed", "failed"},
         NEW r, Settle(e, status, r), budget' = budget
  PROVE  Pops(e)
BY DEF Settle, Pops

(* An action that moves the top frame on and leaves log and budget alone is an
   advance. *)
LEMMA WithTopStack ==
  ASSUME TypeOK, NEW e \in Execs, frames[e] # <<>>,
         NEW f \in Frame, f.skill = Top(e).skill, f.wal = Top(e).wal,
         frames' = WithTop(e, f), wal' = wal, budget' = budget
  PROVE  Advances(e)
<1>1. Matches(e, Append(Below(e), f))
  BY AdvancedTop
<1>2. \A x \in Execs : budget'[x] <= budget[x]
  BY EngineConfig DEF TypeOK
<1> QED BY <1>1, <1>2 DEF Advances, WithTop

(* A frame that changes its place in the code is a frame of the same call. *)
LEMMA FramePc ==
  ASSUME NEW f \in Frame, NEW pc \in {"pre", "run", "backoff", "post"}
  PROVE  LET g == [f EXCEPT !.pc = pc]
         IN  g \in Frame /\ g.skill = f.skill /\ g.wal = f.wal
BY DEF Frame

(* So is one that executeHooks has moved on by a dependency. *)
LEMMA FrameNext ==
  ASSUME NEW f \in Frame, NEW n \in Nat \ {0}
  PROVE  LET g == [f EXCEPT !.next = n]
         IN  g \in Frame /\ g.skill = f.skill /\ g.wal = f.wal
BY DEF Frame

(* So is one that waits for another attempt. *)
LEMMA FrameRetry ==
  ASSUME NEW f \in Frame
  PROVE  LET g == [f EXCEPT !.pc = "backoff", !.attempt = @ + 1]
         IN  g \in Frame /\ g.skill = f.skill /\ g.wal = f.wal
<1> DEFINE h == [f EXCEPT !.pc = "backoff"]
<1>1. h \in Frame /\ h.skill = f.skill /\ h.wal = f.wal /\ h.attempt = f.attempt
  BY DEF Frame
<1> DEFINE g == [h EXCEPT !.attempt = f.attempt + 1]
<1>2. ASSUME NEW x \in Frame, NEW n \in Nat
      PROVE  LET y == [x EXCEPT !.attempt = n]
             IN  y \in Frame /\ y.skill = x.skill /\ y.wal = x.wal
  BY DEF Frame
<1>3. f.attempt + 1 \in Nat
  BY DEF Frame
<1> HIDE DEF h
<1>4. g \in Frame /\ g.skill = f.skill /\ g.wal = f.wal
  BY <1>1, <1>2, <1>3
<1> QED BY <1>4 DEF h

(* So is one whose handler has answered. *)
LEMMA FrameResult ==
  ASSUME NEW f \in Frame, NEW r \in Results
  PROVE  LET g == [f EXCEPT !.pc = "post", !.next = 1, !.result = r]
         IN  g \in Frame /\ g.skill = f.skill /\ g.wal = f.wal
<1> DEFINE h == [f EXCEPT !.pc = "post"]
<1>1. h \in Frame /\ h.skill = f.skill /\ h.wal = f.wal
  BY FramePc
<1> DEFINE i == [h EXCEPT !.next = 1]
<1> HIDE DEF h
<1>2. i \in Frame /\ i.skill = f.skill /\ i.wal = f.wal
  BY <1>1, FrameNext
<1> DEFINE g == [i EXCEPT !.result = r]
<1> HIDE DEF i
<1>3. g \in Frame /\ g.skill = f.skill /\ g.wal = f.wal
  BY <1>2 DEF Frame
<1> QED BY <1>3 DEF h, i

(* The first call of an execution pushes its frame, or is refused. *)
LEMMA StartStack == ASSUME TypeOK, NEW e \in Execs, frames[e] = <<>>, Start(e)
                    PROVE  StackStep(e)
<1>1. Matches(e, <<>>)
  BY EmptySeq DEF Matches
<1>2. Root[e] \in Skills
  BY EngineConfig
<1> QED BY <1>1, <1>2, EnterStack DEF Start, StackStep

(* executeHooks calls a hook, or is refused it; its own frame moves on past it. *)
LEMMA CallHookStack == ASSUME TypeOK, NEW e \in Execs, CallHook(e) PROVE StackStep(e)
<1>1. PICK i \in HooksLeft(Top(e)) :
        Enter(e, Deps[Top(e).skill][i], Append(Below(e), [Top(e) EXCEPT !.next = i + 1]))
  BY DEF CallHook
<1>2. frames[e] # <<>> /\ Top(e) \in Frame
  BY StackParts DEF CallHook, Ready
<1>3. /\ Top(e).skill \in Skills
      /\ Top(e).next \in Nat \ {0}
  BY <1>2 DEF Frame
<1>4. Deps[Top(e).skill] \in Seq(Skills)
  BY <1>3, EngineConfig
<1>5. i \in 1..Len(Deps[Top(e).skill])
  BY <1>3, <1>4, LenProperties DEF HooksLeft
<1>6. Deps[Top(e).skill][i] \in Skills
  BY <1>4, <1>5, ElementOfSeq
<1>7. Matches(e, Append(Below(e), [Top(e) EXCEPT !.next = i + 1]))
  <2> DEFINE g == [Top(e) EXCEPT !.next = i + 1]
  <2>1. i + 1 \in Nat \ {0}
    BY <1>4, <1>5, LenProperties
  <2>2. g \in Frame /\ g.skill = Top(e).skill /\ g.wal = Top(e).wal
    BY <1>2, <2>1, FrameNext
  <2> HIDE DEF g
  <2>3. Matches(e, Append(Below(e), g))
    BY <1>2, <2>2, AdvancedTop
  <2> QED BY <2>3 DEF g
<1> QED BY <1>1, <1>6, <1>7, EnterStack DEF StackStep

(* A hook's exception ends the call it was thrown into, or moves that call on. *)
LEMMA HookThrewStack ==
  ASSUME TypeOK, NEW e \in Execs, PreHookThrew(e) \/ PostHookThrew(e)
  PROVE  StackStep(e)
<1>1. frames[e] # <<>> /\ Top(e) \in Frame
  BY StackParts DEF PreHookThrew, PostHookThrew, InPc
<1>0. budget' = budget
  BY DEF PreHookThrew, PostHookThrew
<1>2. CASE Fail(e) \/ Succeed(e)
  BY <1>0, <1>1, <1>2, SettleStack DEF Fail, Succeed, StackStep
<1>3. CASE frames' = WithTop(e, [Top(e) EXCEPT !.pc = "run"]) /\ wal' = wal
  <2> DEFINE g == [Top(e) EXCEPT !.pc = "run"]
  <2>1. g \in Frame /\ g.skill = Top(e).skill /\ g.wal = Top(e).wal
    BY <1>1, FramePc
  <2>2. frames' = WithTop(e, g) /\ wal' = wal
    BY <1>3
  <2> HIDE DEF g
  <2> QED BY <1>0, <1>1, <2>1, <2>2, WithTopStack DEF StackStep
<1> QED BY <1>2, <1>3 DEF PreHookThrew, PostHookThrew

(* What a handler does ends its call, has it tried again or moves it on. *)
LEMMA HandlerStack ==
  ASSUME TypeOK, NEW e \in Execs,
         \/ StartHandler(e)
         \/ \E r \in Results : HandlerReturns(e, r)
         \/ HandlerThrows(e)
         \/ HandlerTimesOut(e)
         \/ FinishCall(e)
  PROVE  StackStep(e)
<1>1. frames[e] # <<>> /\ Top(e) \in Frame
  BY StackParts DEF StartHandler, HandlerReturns, HandlerThrows, HandlerTimesOut,
                    FinishCall, Ready
<1>0. budget' = budget
  BY DEF StartHandler, HandlerReturns, HandlerThrows, HandlerTimesOut, FinishCall
<1>2. CASE StartHandler(e)
  <2> DEFINE g == [Top(e) EXCEPT !.pc = "run"]
  <2>1. g \in Frame /\ g.skill = Top(e).skill /\ g.wal = Top(e).wal
    BY <1>1, FramePc
  <2>2. frames' = WithTop(e, g) /\ wal' = wal
    BY <1>2 DEF StartHandler
  <2> HIDE DEF g
  <2> QED BY <1>0, <1>1, <2>1, <2>2, WithTopStack DEF StackStep
<1>3. ASSUME NEW r \in Results, HandlerReturns(e, r) PROVE StackStep(e)
  <2> DEFINE g == [Top(e) EXCEPT !.pc = "post", !.next = 1, !.result = r]
  <2>1. g \in Frame /\ g.skill = Top(e).skill /\ g.wal = Top(e).wal
    BY <1>1, FrameResult
  <2>2. frames' = WithTop(e, g) /\ wal' = wal
    BY <1>3 DEF HandlerReturns
  <2> HIDE DEF g
  <2> QED BY <1>0, <1>1, <2>1, <2>2, WithTopStack DEF StackStep
<1>4. ASSUME NEW kind \in ErrorKinds, AttemptFails(e, kind) PROVE StackStep(e)
  <2>1. CASE Fail(e)
    BY <1>0, <1>1, <2>1, SettleStack DEF Fail, StackStep
  <2>2. CASE ~Fail(e)
    <3> DEFINE g == [Top(e) EXCEPT !.pc = "backoff", !.attempt = @ + 1]
    <3>1. g \in Frame /\ g.skill = Top(e).skill /\ g.wal = Top(e).wal
      BY <1>1, FrameRetry
    <3>2. frames' = WithTop(e, g) /\ wal' = wal
      BY <1>4, <2>2 DEF AttemptFails
    <3> HIDE DEF g
    <3> QED BY <1>0, <1>1, <3>1, <3>2, WithTopStack DEF StackStep
  <2> QED BY <2>1, <2>2
<1>5. CASE HandlerThrows(e) \/ HandlerTimesOut(e)
  BY <1>4, <1>5 DEF HandlerThrows, HandlerTimesOut, ErrorKinds
<1>6. CASE FinishCall(e)
  BY <1>0, <1>1, <1>6, SettleStack DEF FinishCall, Succeed, StackStep
<1> QED BY <1>2, <1>3, <1>5, <1>6

(* Every step of the engine moves one stack in one of the three ways, or leaves
   stacks and log alone. *)
LEMMA NextStack ==
  ASSUME TypeOK, [Next]_vars, \A e \in Execs : phase[e] = "idle" => frames[e] = <<>>
  PROVE  \/ \E e \in Execs : StackStep(e)
         \/ UNCHANGED <<frames, wal, budget>>
<1>1. ASSUME NEW e \in Execs, EngineStep(e) \/ HandlerStep(e)
      PROVE  StackStep(e) \/ UNCHANGED <<frames, wal, budget>>
  <2>1. CASE Start(e)
    BY <2>1, StartStack DEF Start
  <2>2. CASE ReturnResult(e) \/ Rethrow(e) \/ CompensateStep(e)
    BY <2>2 DEF ReturnResult, Rethrow, CompensateStep
  <2> QED
    BY <1>1, <2>1, <2>2, CallHookStack, HookThrewStack, HandlerStack
    DEF EngineStep, HandlerStep
<1>2. ASSUME NEW r \in late, LateRunEnds(r) PROVE UNCHANGED <<frames, wal, budget>>
  BY <1>2 DEF LateRunEnds
<1>3. ASSUME NEW s \in Skills, Unregister(s) PROVE UNCHANGED <<frames, wal, budget>>
  BY <1>3 DEF Unregister
<1>4. CASE UNCHANGED vars
  BY <1>4 DEF vars
<1> QED BY <1>1, <1>2, <1>3, <1>4 DEF Next

-----------------------------------------------------------------------------
(* Type correctness *)

\* Between the phases in which it has something to do, an execution has no
\* calls in progress; and it compensates as long as there is a step to undo.
PhasesMatch ==
  \A e \in Execs :
    /\ phase[e] # "running" => frames[e] = <<>>
    /\ phase[e] = "compensating" => completed[e] # <<>>

\* All the variables but the stacks and the log have their types.
OtherTypes ==
  /\ phase \in [Execs -> Phases]
  /\ ret \in [Execs -> Returns]
  /\ budget \in [Execs -> 0..CallBudget]
  /\ completed \in [Execs -> Seq(Runs)]
  /\ late \subseteq Runs
  /\ DOMAIN fate \subseteq Runs
  /\ \A r \in DOMAIN fate : fate[r] \in {"done", "late", "undone", "givenUp"}
  /\ registered \subseteq Skills

(* The entry that a pushed call gets, and its frame. *)
LEMMA NewTypes ==
  ASSUME TypeOK, NEW e \in Execs, NEW s \in Skills
  PROVE  NewEntry(e, s) \in Entry /\ NewFrame(s) \in Frame
<1>1. Len(wal) + 1 \in Nat
  BY LenProperties DEF TypeOK
<1>2. NewFrame(s) \in Frame
  BY <1>1 DEF NewFrame, Frame, Results
<1>3. frames[e] # <<>> => Top(e).wal \in Nat
  BY StackParts DEF Frame
<1>4. NewEntry(e, s) \in Entry
  BY <1>3 DEF NewEntry, Entry, Statuses
<1> QED BY <1>2, <1>4

(* Closing an entry changes its status and nothing else. *)
LEMMA ClosedEntry ==
  ASSUME TypeOK, NEW i, NEW status \in {"completed", "failed"},
         wal' = [wal EXCEPT ![i].status = status]
  PROVE  /\ wal' \in Seq(Entry)
         /\ Len(wal') = Len(wal)
         /\ \A j \in 1..Len(wal) :
              /\ wal'[j].exec = wal[j].exec
              /\ wal'[j].parent = wal[j].parent
              /\ wal'[j].skill = wal[j].skill
              /\ j # i => wal'[j] = wal[j]
              /\ j = i => wal'[j].status = status
<1>1. wal \in Seq(Entry)
  BY DEF TypeOK
<1>2. /\ Len(wal) \in Nat
      /\ wal \in [1..Len(wal) -> Entry]
  BY <1>1, LenProperties
<1>3. CASE i \in 1..Len(wal)
  <2> DEFINE x == [wal[i] EXCEPT !.status = status]
  <2>1. wal[i] \in Entry
    BY <1>2, <1>3
  <2>2. /\ x \in Entry /\ x.status = status
        /\ x.exec = wal[i].exec /\ x.parent = wal[i].parent /\ x.skill = wal[i].skill
    BY <2>1 DEF Entry, Statuses
  <2>3. wal' = [wal EXCEPT ![i] = x]
    OBVIOUS
  <2> HIDE DEF x
  <2>4. /\ wal' \in Seq(Entry)
        /\ Len(wal') = Len(wal)
        /\ \A j \in 1..Len(wal) : wal'[j] = IF j = i THEN x ELSE wal[j]
    BY SMTT(30), <1>1, <1>3, <2>2, <2>3, ExceptSeq
  <2> QED BY <2>2, <2>4
<1>4. CASE i \notin 1..Len(wal)
  <2>1. wal' = wal
    BY <1>2, <1>4
  <2> QED BY <1>1, <1>4, <2>1
<1> QED BY <1>3, <1>4

(* Stacks and log keep their types. *)
LEMMA StackTypes ==
  ASSUME TypeOK, NEW e \in Execs, StackStep(e)
  PROVE  frames' \in [Execs -> Seq(Frame)] /\ wal' \in Seq(Entry)
<1>1. CASE Advances(e)
  BY <1>1 DEF Advances, Matches, TypeOK
<1>2. CASE Pushes(e)
  <2>1. PICK s \in Skills, st \in Seq(Frame) :
          /\ Matches(e, st)
          /\ wal' = Append(wal, NewEntry(e, s))
          /\ frames' = [frames EXCEPT ![e] = Append(st, NewFrame(s))]
    BY <1>2 DEF Pushes
  <2>2. NewEntry(e, s) \in Entry /\ NewFrame(s) \in Frame
    BY NewTypes
  <2>3. Append(st, NewFrame(s)) \in Seq(Frame)
    BY <2>1, <2>2, AppendProperties DEF Matches
  <2>4. wal' \in Seq(Entry)
    BY <2>1, <2>2, AppendProperties DEF TypeOK
  <2> QED BY <2>1, <2>3, <2>4 DEF TypeOK
<1>3. CASE Pops(e)
  <2>1. Below(e) \in Seq(Frame)
    BY <1>3, StackParts DEF Pops
  <2>2. frames' \in [Execs -> Seq(Frame)]
    BY <1>3, <2>1 DEF Pops, TypeOK
  <2>3. wal' \in Seq(Entry)
    BY <1>3, ClosedEntry DEF Pops
  <2> QED BY <2>2, <2>3
<1> QED BY <1>1, <1>2, <1>3 DEF StackStep

(* What a call's prologue leaves in ret and budget has its type. *)
LEMMA EnterTypes ==
  ASSUME TypeOK, NEW e \in Execs, NEW s \in Skills, NEW st, Enter(e, s, st)
  PROVE  ret' \in [Execs -> Returns] /\ budget' \in [Execs -> 0..CallBudget]
<1>1. ret' \in [Execs -> Returns]
  BY DEF Enter, Refuse, TypeOK, Returns
<1>2. budget[e] > 0 => budget[e] - 1 \in 0..CallBudget
  BY EngineConfig DEF TypeOK
<1>3. budget' \in [Execs -> 0..CallBudget]
  BY <1>2 DEF Enter, TypeOK
<1> QED BY <1>1, <1>3

(* What the end of a call hands its caller has its type. *)
LEMMA SettleTypes ==
  ASSUME TypeOK, NEW e \in Execs, NEW status, NEW r \in Returns, Settle(e, status, r)
  PROVE  ret' \in [Execs -> Returns]
BY DEF Settle, TypeOK, Returns

(* What becomes of a run has its type. *)
LEMMA FateTypes ==
  ASSUME TypeOK, NEW r \in Runs, NEW f \in {"done", "late", "undone", "givenUp"},
         SetFate(r, f)
  PROVE  /\ DOMAIN fate' \subseteq Runs
         /\ \A x \in DOMAIN fate' : fate'[x] \in {"done", "late", "undone", "givenUp"}
BY DEF SetFate, TypeOK

(* The run of the handler that the top frame is at. *)
LEMMA RunTypes ==
  ASSUME TypeOK, NEW e \in Execs, frames[e] # <<>>
  PROVE  ThisRun(e) \in Runs
BY StackParts DEF ThisRun, Runs, Frame

(* Starting an execution keeps the types of the variables other than stacks and
   log. *)
LEMMA StartOther == ASSUME TypeOK, NEW e \in Execs, Start(e) PROVE OtherTypes'
<1>1. Root[e] \in Skills
  BY EngineConfig
<1>2. ret' \in [Execs -> Returns] /\ budget' \in [Execs -> 0..CallBudget]
  BY <1>1, EnterTypes DEF Start
<1> QED BY <1>2 DEF Start, OtherTypes, TypeOK, Phases

(* So does calling a hook. *)
LEMMA CallHookOther == ASSUME TypeOK, NEW e \in Execs, CallHook(e) PROVE OtherTypes'
<1>1. PICK i \in HooksLeft(Top(e)) :
        Enter(e, Deps[Top(e).skill][i], Append(Below(e), [Top(e) EXCEPT !.next = i + 1]))
  BY DEF CallHook
<1>2. Deps[Top(e).skill][i] \in Skills
  BY DEF HooksLeft, TypeOK
<1>3. ret' \in [Execs -> Returns] /\ budget' \in [Execs -> 0..CallBudget]
  BY <1>1, <1>2, EnterTypes
<1> QED BY <1>3 DEF CallHook, OtherTypes, TypeOK

(* So do a hook that threw and the end of a call. *)
LEMMA EndOther ==
  ASSUME TypeOK, NEW e \in Execs,
         PreHookThrew(e) \/ PostHookThrew(e) \/ FinishCall(e)
  PROVE  OtherTypes'
<1>1. frames[e] # <<>>
  BY DEF PreHookThrew, PostHookThrew, FinishCall, InPc, Ready
<1>2. Top(e).result \in Returns
  BY <1>1, StackParts DEF Frame, Returns
<1>3. ret' \in [Execs -> Returns]
  <2>1. CASE Fail(e)
    BY <2>1, SettleTypes DEF Fail, Returns
  <2>2. CASE Succeed(e)
    BY <2>2, <1>2, SettleTypes DEF Succeed
  <2>3. CASE ret' = [ret EXCEPT ![e] = "none"]
    BY <2>3 DEF TypeOK, Returns
  <2> QED BY <2>1, <2>2, <2>3 DEF PreHookThrew, PostHookThrew, FinishCall
<1> QED BY <1>3 DEF PreHookThrew, PostHookThrew, FinishCall, OtherTypes, TypeOK

(* So do the start of a handler, its answer, its exception and its timeout. *)
LEMMA HandlerOther ==
  ASSUME TypeOK, NEW e \in Execs,
         \/ StartHandler(e)
         \/ \E r \in Results : HandlerReturns(e, r)
         \/ HandlerThrows(e)
         \/ HandlerTimesOut(e)
  PROVE  OtherTypes'
<1>1. frames[e] # <<>>
  BY DEF StartHandler, HandlerReturns, HandlerThrows, HandlerTimesOut, Ready
<1>2. ThisRun(e) \in Runs
  BY <1>1, RunTypes
<1>3. CASE StartHandler(e)
  BY <1>3 DEF StartHandler, OtherTypes, TypeOK
<1>4. ASSUME NEW r \in Results, HandlerReturns(e, r) PROVE OtherTypes'
  <2>1. /\ DOMAIN fate' \subseteq Runs
        /\ \A x \in DOMAIN fate' : fate'[x] \in {"done", "late", "undone", "givenUp"}
    BY <1>2, <1>4, FateTypes DEF HandlerReturns
  <2>2. completed' \in [Execs -> Seq(Runs)]
    <3>1. Append(completed[e], ThisRun(e)) \in Seq(Runs)
      BY <1>2, AppendProperties DEF TypeOK
    <3> QED BY <1>4, <3>1 DEF HandlerReturns, TypeOK
  <2> QED BY <1>4, <2>1, <2>2 DEF HandlerReturns, OtherTypes, TypeOK
<1>5. ASSUME NEW kind, AttemptFails(e, kind) PROVE ret' \in [Execs -> Returns]
  <2>1. CASE Fail(e)
    BY <2>1, SettleTypes DEF Fail, Returns
  <2>2. CASE ~Fail(e)
    BY <1>5, <2>2 DEF AttemptFails, TypeOK
  <2> QED BY <2>1, <2>2
<1>6. CASE HandlerThrows(e)
  BY <1>5, <1>6 DEF HandlerThrows, OtherTypes, TypeOK
<1>7. CASE HandlerTimesOut(e)
  <2>1. ret' \in [Execs -> Returns]
    BY <1>5, <1>7 DEF HandlerTimesOut
  <2> QED BY <1>2, <1>7, <2>1 DEF HandlerTimesOut, OtherTypes, TypeOK
<1> QED BY <1>3, <1>4, <1>6, <1>7

(* So does the end of an execution. *)
LEMMA OverOther ==
  ASSUME TypeOK, NEW e \in Execs, ReturnResult(e) \/ Rethrow(e)
  PROVE  OtherTypes'
<1>1. phase' \in [Execs -> Phases]
  BY DEF ReturnResult, Rethrow, TypeOK, Phases, Results
<1> QED BY <1>1 DEF ReturnResult, Rethrow, OtherTypes, TypeOK

(* Compensation takes one step, the last, off the list. *)
LEMMA CompensateShortens ==
  ASSUME TypeOK, NEW e \in Execs, completed[e] # <<>>, CompensateStep(e)
  PROVE  /\ Len(completed[e]) \in Nat \ {0}
         /\ completed[e][Len(completed[e])] \in Runs
         /\ completed' = [completed EXCEPT ![e] = SubSeq(@, 1, Len(@) - 1)]
         /\ SubSeq(completed[e], 1, Len(completed[e]) - 1) \in Seq(Runs)
         /\ Len(SubSeq(completed[e], 1, Len(completed[e]) - 1)) = Len(completed[e]) - 1
<1> DEFINE c == completed[e]
           n == Len(c) - 1
           d == [i \in 1..n |-> IF i < Len(c) THEN c[i] ELSE c[i + 1]]
<1>1. c \in Seq(Runs)
  BY DEF TypeOK
<1>2. Len(c) \in Nat \ {0} /\ c \in [1..Len(c) -> Runs]
  BY <1>1, EmptySeq, LenProperties
<1> HIDE DEF c
<1>3. n \in Nat /\ \A i \in 1..n : c[i] \in Runs
  BY <1>2
<1>4. /\ SubSeq(c, 1, n) \in Seq(Runs)
      /\ Len(SubSeq(c, 1, n)) = n
      /\ \A i \in 1..n : SubSeq(c, 1, n)[i] = c[i]
  <2> HIDE DEF n
  <2>1. /\ SubSeq(c, 1, n) \in Seq(Runs)
        /\ Len(SubSeq(c, 1, n)) = IF 1 <= n THEN n - 1 + 1 ELSE 0
        /\ \A i \in 1..(n - 1 + 1) : SubSeq(c, 1, n)[i] = c[1 + i - 1]
    BY <1>3, SubSeqProperties
  <2> QED BY <1>3, <2>1
<1>5. d = SubSeq(c, 1, n)
  <2>1. \A i \in 1..n : d[i] = c[i]
    BY <1>2
  <2>2. SubSeq(c, 1, n) \in [1..n -> Runs]
    BY <1>4, LenProperties
  <2>3. d \in [1..n -> Runs]
    BY <1>2, <1>3
  <2> HIDE DEF d, n
  <2> QED BY <2>1, <2>2, <2>3, <1>4
<1>6. completed' = [completed EXCEPT ![e] = d]
  BY DEF CompensateStep, NextToUndo, c
<1>7. c[Len(c)] \in Runs
  BY <1>2
<1> HIDE DEF d
<1>8. completed' = [completed EXCEPT ![e] = SubSeq(c, 1, n)]
  BY <1>5, <1>6
<1> QED BY <1>2, <1>4, <1>7, <1>8 DEF c

(* So does a turn of runCompensation. *)
LEMMA CompensateOther ==
  ASSUME TypeOK, NEW e \in Execs, completed[e] # <<>>, CompensateStep(e)
  PROVE  OtherTypes'
<1> DEFINE r == completed[e][Len(completed[e])]
<1>1. r \in Runs /\ completed' \in [Execs -> Seq(Runs)]
  BY CompensateShortens DEF TypeOK
<1>2. SetFate(r, "undone") \/ SetFate(r, "givenUp")
  BY DEF CompensateStep, NextToUndo
<1>3. /\ DOMAIN fate' \subseteq Runs
      /\ \A x \in DOMAIN fate' : fate'[x] \in {"done", "late", "undone", "givenUp"}
  BY <1>1, <1>2, FateTypes
<1>4. phase' \in [Execs -> Phases]
  BY DEF CompensateStep, TypeOK, Phases
<1> QED BY <1>1, <1>3, <1>4 DEF CompensateStep, OtherTypes, TypeOK

(* So do a handler that ends late and a skill that is unregistered. *)
LEMMA EnvironmentOther ==
  ASSUME TypeOK,
         (\E r \in late : LateRunEnds(r)) \/ (\E s \in Skills : Unregister(s))
  PROVE  OtherTypes'
<1>1. ASSUME NEW r \in late, LateRunEnds(r) PROVE OtherTypes'
  <2>1. /\ DOMAIN fate' \subseteq Runs
        /\ \A x \in DOMAIN fate' : fate'[x] \in {"done", "late", "undone", "givenUp"}
    BY <1>1, FateTypes DEF LateRunEnds, TypeOK
  <2> QED BY <1>1, <2>1 DEF LateRunEnds, OtherTypes, TypeOK
<1>2. ASSUME NEW s \in Skills, Unregister(s) PROVE OtherTypes'
  BY <1>2 DEF Unregister, OtherTypes, TypeOK
<1> QED BY <1>1, <1>2

(* The steps of one execution, by what they do to its phase. *)
LEMMA PhasesKept ==
  ASSUME TypeOK, PhasesMatch, [Next]_vars
  PROVE  PhasesMatch'
<1>1. ASSUME NEW e \in Execs,
             \/ Start(e) \/ CallHook(e)
             \/ PreHookThrew(e) \/ PostHookThrew(e) \/ FinishCall(e)
             \/ StartHandler(e) \/ (\E r \in Results : HandlerReturns(e, r))
             \/ HandlerThrows(e) \/ HandlerTimesOut(e)
      PROVE  PhasesMatch'
  <2>1. /\ phase'[e] = "running"
        /\ \A f \in Execs : f # e => phase'[f] = phase[f] /\ completed'[f] = completed[f]
    BY <1>1 DEF Start, CallHook, PreHookThrew, PostHookThrew, FinishCall, StartHandler,
                HandlerReturns, HandlerThrows, HandlerTimesOut, Ready, TypeOK
  <2>2. StackStep(e)
    BY <1>1, StartStack, CallHookStack, HookThrewStack, HandlerStack
    DEF Start, PhasesMatch
  <2>3. \A f \in Execs : f # e => frames'[f] = frames[f]
    BY <2>2 DEF StackStep, Advances, Pushes, Pops, TypeOK
  <2> QED BY <2>1, <2>3 DEF PhasesMatch
<1>2. ASSUME NEW e \in Execs, ReturnResult(e) \/ Rethrow(e)
      PROVE  PhasesMatch'
  BY <1>2 DEF ReturnResult, Rethrow, PhasesMatch, TypeOK, Results
<1>3. ASSUME NEW e \in Execs, CompensateStep(e) PROVE PhasesMatch'
  <2>1. completed[e] # <<>>
    BY <1>3 DEF CompensateStep, PhasesMatch
  <2>2. /\ Len(completed[e]) \in Nat \ {0}
        /\ completed' = [completed EXCEPT ![e] = SubSeq(@, 1, Len(@) - 1)]
        /\ SubSeq(completed[e], 1, Len(completed[e]) - 1) \in Seq(Runs)
        /\ Len(SubSeq(completed[e], 1, Len(completed[e]) - 1)) = Len(completed[e]) - 1
    BY <1>3, <2>1, CompensateShortens
  <2>3. Len(completed[e]) # 1 => completed'[e] # <<>>
    <3> DEFINE d == SubSeq(completed[e], 1, Len(completed[e]) - 1)
               n == Len(completed[e])
    <3>1. completed'[e] = d
      BY <2>2 DEF TypeOK
    <3>2. Len(d) = n - 1 /\ n \in Nat \ {0}
      BY <2>2
    <3> HIDE DEF d, n
    <3>3. n # 1 => Len(d) # 0
      BY <3>2
    <3>4. n # 1 => d # <<>>
      BY <3>3, EmptySeq
    <3> QED BY <3>1, <3>4 DEF n
  <2>4. /\ phase' = [phase EXCEPT ![e] = IF Len(completed[e]) = 1 THEN "failed" ELSE @]
        /\ frames' = frames
        /\ phase[e] = "compensating"
    BY <1>3 DEF CompensateStep
  <2>5. \A f \in Execs : f # e => completed'[f] = completed[f]
    BY <2>2 DEF TypeOK
  <2> QED BY <2>3, <2>4, <2>5 DEF PhasesMatch, TypeOK
<1>4. ASSUME NEW r \in late, LateRunEnds(r) PROVE PhasesMatch'
  BY <1>4 DEF LateRunEnds, PhasesMatch
<1>5. ASSUME NEW s \in Skills, Unregister(s) PROVE PhasesMatch'
  BY <1>5 DEF Unregister, PhasesMatch
<1>6. CASE UNCHANGED vars
  BY <1>6 DEF vars, PhasesMatch
<1> QED
  BY <1>1, <1>2, <1>3, <1>4, <1>5, <1>6 DEF Next, EngineStep, HandlerStep

(* Every step keeps the types. *)
LEMMA TypesKept ==
  ASSUME TypeOK, PhasesMatch, [Next]_vars
  PROVE  TypeOK'
<1>1. OtherTypes'
  <2>1. ASSUME NEW e \in Execs, CompensateStep(e) PROVE OtherTypes'
    BY <2>1, CompensateOther DEF CompensateStep, PhasesMatch
  <2>2. CASE UNCHANGED vars
    BY <2>2 DEF vars, OtherTypes, TypeOK
  <2> QED
    BY <2>1, <2>2, StartOther, CallHookOther, EndOther, HandlerOther, OverOther,
       EnvironmentOther
    DEF Next, EngineStep, HandlerStep
<1>2. frames' \in [Execs -> Seq(Frame)] /\ wal' \in Seq(Entry)
  <2>1. (\E e \in Execs : StackStep(e)) \/ UNCHANGED <<frames, wal, budget>>
    BY NextStack DEF PhasesMatch
  <2> QED BY <2>1, StackTypes DEF TypeOK
<1> QED BY <1>1, <1>2 DEF TypeOK, OtherTypes

(* What is there at the start. *)
LEMMA InitTypes == Init => TypeOK /\ PhasesMatch
<1> SUFFICES ASSUME Init PROVE TypeOK /\ PhasesMatch
  OBVIOUS
<1>1. \A S : <<>> \in Seq(S)
  BY EmptySeq
<1>2. CallBudget \in 0..CallBudget
  BY EngineConfig
<1>3. DOMAIN fate = {}
  BY DEF Init
<1> QED BY <1>1, <1>2, <1>3 DEF Init, TypeOK, PhasesMatch, Phases, Returns

(* The types and the phases belong together: of an execution that compensates,
   the type of `fate` needs a step to undo. *)
LEMMA TypesAndPhases == Spec => [](TypeOK /\ PhasesMatch)
<1>1. TypeOK /\ PhasesMatch /\ [Next]_vars => TypeOK' /\ PhasesMatch'
  BY TypesKept, PhasesKept
<1> QED BY <1>1, InitTypes, PTL DEF Spec

(* Type correctness of the engine. *)
THEOREM TypeCorrect == Spec => []TypeOK
BY TypesAndPhases, PTL

-----------------------------------------------------------------------------
(* The log follows the stacks *)

\* The frames of a stack have entries, each younger than its caller's: this is
\* what keeps closing one entry from closing another frame's.
StacksAscend ==
  \A e \in Execs : \A k \in 1..Len(frames[e]) :
    /\ frames[e][k].wal \in 1..Len(wal)
    /\ \A l \in 1..(k - 1) : frames[e][l].wal < frames[e][k].wal

\* What LogFollowsStacks says of the frame at position k of stack st.
Logged(e, st, k, log) ==
  log[st[k].wal] = [exec |-> e, skill |-> st[k].skill, status |-> "pending",
                    parent |-> IF k = 1 THEN 0 ELSE st[k - 1].wal]

(* The entries of the log. *)
LEMMA EntryTypes ==
  ASSUME TypeOK
  PROVE  /\ Len(wal) \in Nat
         /\ \A i \in 1..Len(wal) : wal[i].exec \in Execs /\ wal[i].parent \in Nat
<1>1. wal \in Seq(Entry)
  BY DEF TypeOK
<1>2. \A i \in 1..Len(wal) : wal[i] \in Entry
  BY <1>1, ElementOfSeq
<1> QED BY <1>1, <1>2, LenProperties DEF Entry

(* A stack that matches one that is logged is logged. *)
LEMMA MatchingIsLogged ==
  ASSUME StacksAscend, LogFollowsStacks, NEW e \in Execs, NEW st, Matches(e, st)
  PROVE  /\ \A k \in 1..Len(st) :
              /\ st[k].wal \in 1..Len(wal)
              /\ \A l \in 1..(k - 1) : st[l].wal < st[k].wal
              /\ Logged(e, st, k, wal)
         /\ \A i \in 1..Len(wal) : wal[i].status = "pending" /\ wal[i].exec = e =>
              \E k \in 1..Len(st) : st[k].wal = i
<1>1. Len(st) \in Nat
  BY LenProperties DEF Matches
<1>2. ASSUME NEW k \in 1..Len(st)
      PROVE  /\ st[k].wal \in 1..Len(wal)
             /\ \A l \in 1..(k - 1) : st[l].wal < st[k].wal
             /\ Logged(e, st, k, wal)
  <2>1. k \in 1..Len(frames[e]) /\ st[k].wal = frames[e][k].wal
        /\ st[k].skill = frames[e][k].skill
    BY DEF Matches
  <2>2. \A l \in 1..(k - 1) : l \in 1..Len(st) /\ st[l].wal = frames[e][l].wal
    BY <1>1 DEF Matches
  <2>3. st[k].wal \in 1..Len(wal) /\ \A l \in 1..(k - 1) : st[l].wal < st[k].wal
    BY <2>1, <2>2 DEF StacksAscend
  <2>4. k # 1 => st[k - 1].wal = frames[e][k - 1].wal
    BY <1>1, <2>2
  <2>5. Logged(e, st, k, wal)
    BY <2>1, <2>4 DEF LogFollowsStacks, Logged
  <2> QED BY <2>3, <2>5
<1>3. ASSUME NEW i \in 1..Len(wal), wal[i].status = "pending", wal[i].exec = e
      PROVE  \E k \in 1..Len(st) : st[k].wal = i
  <2>1. PICK k \in 1..Len(frames[wal[i].exec]) : frames[wal[i].exec][k].wal = i
    BY <1>3 DEF LogFollowsStacks
  <2>2. k \in 1..Len(st) /\ st[k].wal = frames[e][k].wal
    BY <1>3, <2>1 DEF Matches
  <2> QED BY <1>3, <2>1, <2>2
<1> QED BY <1>2, <1>3

(* A stack that only moves on leaves everything as it was. *)
LEMMA AdvancesLogged ==
  ASSUME TypeOK, StacksAscend, LogFollowsStacks, NEW e \in Execs, Advances(e)
  PROVE  StacksAscend' /\ LogFollowsStacks'
<1>1. PICK st : Matches(e, st) /\ frames' = [frames EXCEPT ![e] = st]
  BY DEF Advances
<1>2. wal' = wal
  BY DEF Advances
<1>3. frames'[e] = st /\ \A f \in Execs : f # e => frames'[f] = frames[f]
  BY <1>1 DEF TypeOK
<1>4. /\ \A k \in 1..Len(st) :
           /\ st[k].wal \in 1..Len(wal)
           /\ \A l \in 1..(k - 1) : st[l].wal < st[k].wal
           /\ Logged(e, st, k, wal)
      /\ \A i \in 1..Len(wal) : wal[i].status = "pending" /\ wal[i].exec = e =>
           \E k \in 1..Len(st) : st[k].wal = i
  BY <1>1, MatchingIsLogged
<1>5. StacksAscend'
  BY <1>2, <1>3, <1>4 DEF StacksAscend
<1>6. LogFollowsStacks'
  <2>1. ASSUME NEW f \in Execs, NEW k \in 1..Len(frames'[f])
        PROVE  wal'[frames'[f][k].wal] =
                 [exec |-> f, skill |-> frames'[f][k].skill, status |-> "pending",
                  parent |-> IF k = 1 THEN 0 ELSE frames'[f][k - 1].wal]
    BY <1>2, <1>3, <1>4 DEF LogFollowsStacks, Logged
  <2>2. ASSUME NEW i \in 1..Len(wal'), wal'[i].status = "pending"
        PROVE  \E k \in 1..Len(frames'[wal'[i].exec]) :
                 frames'[wal'[i].exec][k].wal = i
    <3>1. wal[i].exec \in Execs
      BY <1>2, EntryTypes
    <3> QED BY <1>2, <1>3, <1>4, <2>2, <3>1 DEF LogFollowsStacks
  <2> QED BY <2>1, <2>2 DEF LogFollowsStacks
<1> QED BY <1>5, <1>6

(* Pushing a call adds its entry to the log and its frame to the stack. *)
LEMMA PushesLogged ==
  ASSUME TypeOK, StacksAscend, LogFollowsStacks, NEW e \in Execs, Pushes(e)
  PROVE  StacksAscend' /\ LogFollowsStacks'
<1>1. PICK s \in Skills, st \in Seq(Frame) :
        /\ Matches(e, st)
        /\ wal' = Append(wal, NewEntry(e, s))
        /\ frames' = [frames EXCEPT ![e] = Append(st, NewFrame(s))]
  BY DEF Pushes
<1> DEFINE n == Len(wal) + 1
           m == Len(st) + 1
<1>2. /\ Len(wal) \in Nat
      /\ Len(wal') = n
      /\ \A i \in 1..Len(wal) : wal'[i] = wal[i]
      /\ wal'[n] = NewEntry(e, s)
  BY <1>1, NewTypes, EntryTypes, AppendProperties DEF TypeOK
<1>3. /\ Len(st) \in Nat
      /\ Len(frames'[e]) = m
      /\ \A k \in 1..Len(st) : frames'[e][k] = st[k]
      /\ frames'[e][m] = NewFrame(s)
  <2>1. frames'[e] = Append(st, NewFrame(s)) /\ NewFrame(s) \in Frame
    BY <1>1, NewTypes DEF TypeOK
  <2>2. st \in Seq(Frame)
    BY <1>1 DEF Matches
  <2> QED BY <2>1, <2>2, AppendProperties, LenProperties
<1>4. \A f \in Execs : f # e => frames'[f] = frames[f]
  BY <1>1 DEF TypeOK
<1>5. NewFrame(s).wal = n /\ NewFrame(s).skill = s
  BY DEF NewFrame
<1>6. /\ \A k \in 1..Len(st) :
           /\ st[k].wal \in 1..Len(wal)
           /\ \A l \in 1..(k - 1) : st[l].wal < st[k].wal
           /\ Logged(e, st, k, wal)
      /\ \A i \in 1..Len(wal) : wal[i].status = "pending" /\ wal[i].exec = e =>
           \E k \in 1..Len(st) : st[k].wal = i
  BY <1>1, MatchingIsLogged
<1>7. NewEntry(e, s) =
        [exec |-> e, skill |-> s, status |-> "pending",
         parent |-> IF m = 1 THEN 0 ELSE st[m - 1].wal]
  <2>1. CASE frames[e] = <<>>
    <3>1. m = 1
      BY <2>1, <1>1, EmptySeq DEF Matches
    <3> QED BY <2>1, <3>1 DEF NewEntry
  <2>2. CASE frames[e] # <<>>
    <3>1. Len(st) = Len(frames[e]) /\ Len(frames[e]) \in Nat \ {0}
      BY <1>1, <2>2, StackParts DEF Matches
    <3>2. st[Len(st)].wal = Top(e).wal
      BY <1>1, <3>1 DEF Matches, Top
    <3> QED BY <2>2, <3>1, <3>2 DEF NewEntry
  <2> QED BY <2>1, <2>2
<1> HIDE DEF n, m
<1>8. n = Len(wal) + 1 /\ m = Len(st) + 1
  BY DEF n, m
<1>9. StacksAscend'
  <2> SUFFICES ASSUME NEW f \in Execs, NEW k \in 1..Len(frames'[f])
               PROVE  /\ frames'[f][k].wal \in 1..Len(wal')
                      /\ \A l \in 1..(k - 1) : frames'[f][l].wal < frames'[f][k].wal
    BY DEF StacksAscend
  <2>1. CASE f # e
    BY SMTT(30), <2>1, <1>2, <1>4, <1>8 DEF StacksAscend
  <2>2. CASE f = e /\ k # m
    <3>1. k \in 1..Len(st) /\ \A l \in 1..(k - 1) : l \in 1..Len(st)
      BY <2>2, <1>3, <1>8
    <3>2. frames'[f][k] = st[k] /\ \A l \in 1..(k - 1) : frames'[f][l] = st[l]
      BY <2>2, <3>1, <1>3
    <3>3. st[k].wal \in 1..Len(wal) /\ \A l \in 1..(k - 1) : st[l].wal < st[k].wal
      BY <3>1, <1>6
    <3>4. st[k].wal \in 1..Len(wal')
      BY <3>3, <1>2, <1>8
    <3> QED BY <3>2, <3>3, <3>4
  <2>3. CASE f = e /\ k = m
    <3>1. \A l \in 1..(k - 1) : l \in 1..Len(st) /\ frames'[f][l].wal \in 1..Len(wal)
      BY <2>3, <1>3, <1>6, <1>8
    <3> QED BY <2>3, <3>1, <1>2, <1>3, <1>5, <1>8
  <2> QED BY <2>1, <2>2, <2>3
<1>10. ASSUME NEW f \in Execs, NEW k \in 1..Len(frames'[f])
       PROVE  wal'[frames'[f][k].wal] =
                [exec |-> f, skill |-> frames'[f][k].skill, status |-> "pending",
                 parent |-> IF k = 1 THEN 0 ELSE frames'[f][k - 1].wal]
  <2>1. CASE f # e
    <3>1. k \in 1..Len(frames[f]) /\ frames'[f] = frames[f]
      BY <2>1, <1>4
    <3>2. wal'[frames[f][k].wal] = wal[frames[f][k].wal]
      BY <3>1, <1>2 DEF StacksAscend
    <3> QED BY <3>1, <3>2 DEF LogFollowsStacks
  <2>2. CASE f = e /\ k # m
    <3>1. k \in 1..Len(st)
      BY <2>2, <1>3, <1>8
    <3>2. /\ frames'[f][k] = st[k]
          /\ k # 1 => frames'[f][k - 1] = st[k - 1]
      BY <2>2, <3>1, <1>3
    <3>3. wal'[st[k].wal] = wal[st[k].wal]
      BY <3>1, <1>2, <1>6
    <3>4. Logged(e, st, k, wal)
      BY <3>1, <1>6
    <3> QED BY <2>2, <3>2, <3>3, <3>4 DEF Logged
  <2>3. CASE f = e /\ k = m
    <3>1. k # 1 => frames'[f][k - 1] = st[k - 1]
      BY <2>3, <1>3, <1>8
    <3> QED BY <2>3, <3>1, <1>2, <1>3, <1>5, <1>7
  <2> QED BY <2>1, <2>2, <2>3
<1>11. ASSUME NEW i \in 1..Len(wal'), wal'[i].status = "pending"
       PROVE  \E k \in 1..Len(frames'[wal'[i].exec]) :
                frames'[wal'[i].exec][k].wal = i
  <2>1. CASE i = n
    <3>1. wal'[i].exec = e
      BY <2>1, <1>2 DEF NewEntry
    <3>2. m \in 1..Len(frames'[e]) /\ frames'[e][m].wal = i
      BY <2>1, <1>3, <1>5, <1>8
    <3> QED BY <3>1, <3>2
  <2>2. CASE i # n
    <3>1. i \in 1..Len(wal) /\ wal'[i] = wal[i]
      BY <2>2, <1>2, <1>8
    <3>2. wal[i].exec \in Execs
      BY <3>1, EntryTypes
    <3>3. CASE wal[i].exec = e
      <4>1. PICK k \in 1..Len(st) : st[k].wal = i
        BY <1>6, <1>11, <3>1, <3>3
      <4>2. k \in 1..Len(frames'[e]) /\ frames'[e][k].wal = i
        BY <4>1, <1>3, <1>8
      <4> QED BY <3>1, <3>3, <4>2
    <3>4. CASE wal[i].exec # e
      BY SMTT(30), <1>4, <1>11, <3>1, <3>2, <3>4 DEF LogFollowsStacks
    <3> QED BY <3>3, <3>4
  <2> QED BY <2>1, <2>2
<1>12. LogFollowsStacks'
  BY <1>10, <1>11 DEF LogFollowsStacks
<1> QED BY <1>9, <1>12

(* Ending the innermost call closes its entry, and no other frame's: its
   callers' entries are older, and those of other executions are theirs. *)
LEMMA PopsLogged ==
  ASSUME TypeOK, StacksAscend, LogFollowsStacks, NEW e \in Execs, Pops(e)
  PROVE  StacksAscend' /\ LogFollowsStacks'
<1> DEFINE n == Len(frames[e])
           t == Top(e).wal
<1>1. /\ n \in Nat \ {0}
      /\ Len(Below(e)) = n - 1
      /\ \A k \in 1..(n - 1) : Below(e)[k] = frames[e][k]
  BY StackParts DEF Pops
<1>2. /\ t \in 1..Len(wal)
      /\ wal[t].exec = e
      /\ \A k \in 1..(n - 1) : frames[e][k].wal < t
  <2>1. t = frames[e][n].wal
    BY DEF Top
  <2> HIDE DEF t
  <2>2. t \in 1..Len(wal) /\ \A k \in 1..(n - 1) : frames[e][k].wal < t
    BY <1>1, <2>1 DEF StacksAscend
  <2>3. wal[t] = [exec |-> e, skill |-> frames[e][n].skill, status |-> "pending",
                  parent |-> IF n = 1 THEN 0 ELSE frames[e][n - 1].wal]
    <3>1. n \in 1..Len(frames[e])
      BY <1>1
    <3> HIDE DEF n
    <3> QED BY <2>1, <3>1 DEF LogFollowsStacks
  <2> QED BY <2>2, <2>3
<1>3. /\ Len(wal') = Len(wal)
      /\ \A i \in 1..Len(wal) : i # t => wal'[i] = wal[i]
      /\ wal'[t].status # "pending"
  <2>1. PICK status \in {"completed", "failed"} : wal' = [wal EXCEPT ![t].status = status]
    BY DEF Pops
  <2>2. /\ Len(wal') = Len(wal)
        /\ \A i \in 1..Len(wal) : /\ i # t => wal'[i] = wal[i]
                                  /\ i = t => wal'[i].status = status
    BY <2>1, ClosedEntry
  <2> HIDE DEF t
  <2> QED BY <1>2, <2>2
<1>4. /\ frames'[e] = Below(e)
      /\ \A f \in Execs : f # e => frames'[f] = frames[f]
  BY DEF Pops, TypeOK
<1> HIDE DEF n, t
<1>5. ASSUME NEW f \in Execs, NEW k \in 1..Len(frames'[f])
      PROVE  /\ k \in 1..Len(frames[f])
             /\ frames'[f][k] = frames[f][k]
             /\ \A l \in 1..(k - 1) : frames'[f][l] = frames[f][l]
             /\ f = e => k \in 1..(n - 1)
  <2>1. CASE f = e
    <3>1. k \in 1..(n - 1) /\ \A l \in 1..(k - 1) : l \in 1..(n - 1)
      BY <2>1, <1>1, <1>4
    <3>2. k \in 1..Len(frames[f])
      BY <2>1, <3>1, <1>1 DEF n
    <3> QED BY <2>1, <3>1, <3>2, <1>1, <1>4
  <2>2. CASE f # e
    BY <2>2, <1>4
  <2> QED BY <2>1, <2>2
<1>6. StacksAscend'
  BY SMTT(30), <1>3, <1>5 DEF StacksAscend
<1>7. ASSUME NEW f \in Execs, NEW k \in 1..Len(frames'[f])
      PROVE  wal'[frames'[f][k].wal] =
               [exec |-> f, skill |-> frames'[f][k].skill, status |-> "pending",
                parent |-> IF k = 1 THEN 0 ELSE frames'[f][k - 1].wal]
  <2> DEFINE w == frames[f][k].wal
  <2>1. /\ k \in 1..Len(frames[f])
        /\ frames'[f][k] = frames[f][k]
        /\ k # 1 => frames'[f][k - 1] = frames[f][k - 1]
        /\ f = e => k \in 1..(n - 1)
    BY <1>5
  <2>2. w \in 1..Len(wal)
    BY <2>1 DEF StacksAscend
  <2>3. wal[w] = [exec |-> f, skill |-> frames[f][k].skill, status |-> "pending",
                  parent |-> IF k = 1 THEN 0 ELSE frames[f][k - 1].wal]
    BY <2>1 DEF LogFollowsStacks
  <2>4. w # t
    <3>1. CASE f = e
      BY <3>1, <2>1, <1>2
    <3>2. CASE f # e
      BY <3>2, <2>3, <1>2
    <3> QED BY <3>1, <3>2
  <2> HIDE DEF w
  <2>5. wal'[w] = wal[w]
    BY <2>2, <2>4, <1>3
  <2> QED BY <2>1, <2>3, <2>5 DEF w
<1>8. ASSUME NEW i \in 1..Len(wal'), wal'[i].status = "pending"
      PROVE  \E k \in 1..Len(frames'[wal'[i].exec]) :
               frames'[wal'[i].exec][k].wal = i
  <2>1. i \in 1..Len(wal) /\ i # t /\ wal'[i] = wal[i]
    BY <1>3, <1>8
  <2>2. wal[i].exec \in Execs
    BY <2>1, EntryTypes
  <2>3. PICK k \in 1..Len(frames[wal[i].exec]) : frames[wal[i].exec][k].wal = i
    BY <1>8, <2>1 DEF LogFollowsStacks
  <2>4. CASE wal[i].exec = e
    <3>1. k # n
      BY <2>1, <2>3, <2>4 DEF Top, n, t
    <3>2. k \in 1..(n - 1)
      BY <3>1, <2>3, <2>4, <1>1 DEF n
    <3>3. k \in 1..Len(frames'[e]) /\ frames'[e][k].wal = i
      BY <3>2, <1>1, <1>4, <2>3, <2>4
    <3> QED BY <3>3, <2>1, <2>4
  <2>5. CASE wal[i].exec # e
    BY <2>1, <2>2, <2>3, <2>5, <1>4
  <2> QED BY <2>4, <2>5
<1>9. LogFollowsStacks'
  BY <1>7, <1>8 DEF LogFollowsStacks
<1> QED BY <1>6, <1>9

(* The log follows the stacks, and the entries of a stack ascend. *)
LEMMA LogAndStacks == Spec => [](StacksAscend /\ LogFollowsStacks)
<1> DEFINE LogInv == StacksAscend /\ LogFollowsStacks
<1>1. Init => LogInv
  BY EmptySeq DEF Init, StacksAscend, LogFollowsStacks
<1>2. TypeOK /\ PhasesMatch /\ LogInv /\ [Next]_vars => LogInv'
  <2> SUFFICES ASSUME TypeOK, PhasesMatch, LogInv, [Next]_vars PROVE LogInv'
    OBVIOUS
  <2>1. (\E e \in Execs : StackStep(e)) \/ UNCHANGED <<frames, wal, budget>>
    BY NextStack DEF PhasesMatch
  <2>2. ASSUME NEW e \in Execs, StackStep(e) PROVE LogInv'
    BY <2>2, AdvancesLogged, PushesLogged, PopsLogged DEF StackStep
  <2>3. CASE UNCHANGED <<frames, wal, budget>>
    BY <2>3 DEF StacksAscend, LogFollowsStacks
  <2> QED BY <2>1, <2>2, <2>3
<1> QED BY <1>1, <1>2, TypesAndPhases, PTL DEF Spec

(* At every moment the entries of the log that are pending are those of the
   calls in progress, each below its caller's. *)
THEOREM LogFollows == Spec => []LogFollowsStacks
BY LogAndStacks, PTL

-----------------------------------------------------------------------------
(* The limits on depth and calls *)

\* The entries that an execution's calls have in the log.
Spent(e) == {i \in 1..Len(wal) : wal[i].exec = e}

(* The entries of an execution can be counted. *)
LEMMA SpentFinite ==
  ASSUME TypeOK, NEW e
  PROVE  IsFiniteSet(Spent(e)) /\ Cardinality(Spent(e)) \in Nat
<1>1. IsFiniteSet(1..Len(wal))
  BY EntryTypes, FS_Interval
<1>2. Spent(e) \in SUBSET (1..Len(wal))
  BY DEF Spent
<1>3. IsFiniteSet(Spent(e))
  BY <1>1, <1>2, FS_Subset
<1> QED BY <1>3, FS_CardinalityType

(* A step that adds no entry and gives no budget back keeps the limits. *)
LEMMA NothingSpent ==
  ASSUME TypeOK, TypeOK', CallsWithinLimits,
         \A e \in Execs : /\ Len(frames'[e]) <= Len(frames[e])
                          /\ budget'[e] <= budget[e]
                          /\ Spent(e)' = Spent(e)
  PROVE  CallsWithinLimits'
<1> SUFFICES ASSUME NEW e \in Execs
             PROVE  /\ Len(frames'[e]) <= MaxDepth
                    /\ Cardinality(Spent(e)') + budget'[e] <= CallBudget
  BY DEF CallsWithinLimits, Spent
<1>1. /\ Len(frames[e]) <= MaxDepth
      /\ Cardinality(Spent(e)) + budget[e] <= CallBudget
  BY DEF CallsWithinLimits, Spent
<1>2. Cardinality(Spent(e)) \in Nat
  BY SpentFinite
<1>3. /\ budget[e] \in Int /\ budget'[e] \in Int
      /\ MaxDepth \in Int /\ CallBudget \in Int
  BY EngineConfig DEF TypeOK
<1>4. Len(frames[e]) \in Int /\ Len(frames'[e]) \in Int
  <2>1. frames[e] \in Seq(Frame) /\ frames'[e] \in Seq(Frame)
    BY DEF TypeOK
  <2> QED BY <2>1, LenProperties
<1>5. Cardinality(Spent(e)') = Cardinality(Spent(e))
  OBVIOUS
<1> QED BY <1>1, <1>2, <1>3, <1>4, <1>5

(* A call that is pushed was below the depth limit, and is paid for. *)
LEMMA PushesWithinLimits ==
  ASSUME TypeOK, TypeOK', CallsWithinLimits, NEW e \in Execs, Pushes(e)
  PROVE  CallsWithinLimits'
<1>1. PICK s \in Skills, st \in Seq(Frame) :
        /\ Matches(e, st)
        /\ Len(st) < MaxDepth
        /\ budget[e] > 0
        /\ budget' = [budget EXCEPT ![e] = @ - 1]
        /\ wal' = Append(wal, NewEntry(e, s))
        /\ frames' = [frames EXCEPT ![e] = Append(st, NewFrame(s))]
  BY DEF Pushes
<1> DEFINE n == Len(wal) + 1
<1>2. /\ Len(wal) \in Nat
      /\ Len(wal') = n
      /\ \A i \in 1..Len(wal) : wal'[i] = wal[i]
      /\ wal'[n].exec = e
  <2>1. NewEntry(e, s) \in Entry /\ NewEntry(e, s).exec = e
    BY NewTypes DEF NewEntry
  <2> QED BY <1>1, <2>1, EntryTypes, AppendProperties DEF TypeOK
<1>3. Len(frames'[e]) = Len(st) + 1 /\ Len(st) \in Nat
  <2>1. frames'[e] = Append(st, NewFrame(s)) /\ NewFrame(s) \in Frame
    BY <1>1, NewTypes DEF TypeOK
  <2>2. st \in Seq(Frame)
    BY <1>1 DEF Matches
  <2> QED BY <2>1, <2>2, AppendProperties, LenProperties
<1> HIDE DEF n
<1> SUFFICES ASSUME NEW f \in Execs
             PROVE  /\ Len(frames'[f]) <= MaxDepth
                    /\ Cardinality(Spent(f)') + budget'[f] <= CallBudget
  BY DEF CallsWithinLimits, Spent
<1>4. /\ Len(frames[f]) <= MaxDepth
      /\ Cardinality(Spent(f)) + budget[f] <= CallBudget
  BY DEF CallsWithinLimits, Spent
<1>5. IsFiniteSet(Spent(f)) /\ Cardinality(Spent(f)) \in Nat
  BY SpentFinite
<1>6. budget[f] \in Int /\ MaxDepth \in Int /\ CallBudget \in Int
  BY EngineConfig DEF TypeOK
<1>7. n = Len(wal) + 1
  BY DEF n
<1>8. CASE f = e
  <2>1. Spent(f)' = Spent(f) \cup {n} /\ n \notin Spent(f)
    BY <1>2, <1>7, <1>8 DEF Spent
  <2>2. Cardinality(Spent(f)') = Cardinality(Spent(f)) + 1
    BY <2>1, <1>5, FS_AddElement
  <2>3. budget'[f] = budget[f] - 1
    BY <1>1, <1>8 DEF TypeOK
  <2> QED BY <2>2, <2>3, <1>1, <1>3, <1>4, <1>5, <1>6, <1>8
<1>9. CASE f # e
  <2>1. Spent(f)' = Spent(f)
    BY <1>2, <1>7, <1>9 DEF Spent
  <2>2. budget'[f] = budget[f] /\ frames'[f] = frames[f]
    BY <1>1, <1>9 DEF TypeOK
  <2> QED BY <2>1, <2>2, <1>4
<1> QED BY <1>8, <1>9

(* Every step keeps the limits. *)
LEMMA LimitsKept ==
  ASSUME TypeOK, TypeOK', PhasesMatch, CallsWithinLimits, [Next]_vars
  PROVE  CallsWithinLimits'
<1>1. (\E e \in Execs : StackStep(e)) \/ UNCHANGED <<frames, wal, budget>>
  BY NextStack DEF PhasesMatch
<1>2. \A f \in Execs : frames[f] \in Seq(Frame) /\ Len(frames[f]) \in Nat
  BY LenProperties DEF TypeOK
<1>3. ASSUME NEW e \in Execs, Advances(e) PROVE CallsWithinLimits'
  <2>1. \A f \in Execs : Len(frames'[f]) = Len(frames[f])
    BY <1>3 DEF Advances, Matches, TypeOK
  <2>2. \A f \in Execs : Spent(f)' = Spent(f) /\ budget'[f] <= budget[f]
    BY <1>3 DEF Advances, Spent
  <2> QED BY <1>2, <2>1, <2>2, NothingSpent
<1>4. ASSUME NEW e \in Execs, Pops(e) PROVE CallsWithinLimits'
  <2>1. \A f \in Execs : Len(frames'[f]) <= Len(frames[f])
    BY <1>2, <1>4, StackParts DEF Pops, TypeOK
  <2>2. \A f \in Execs : Spent(f)' = Spent(f)
    BY <1>4, ClosedEntry DEF Pops, Spent
  <2>3. \A f \in Execs : budget'[f] <= budget[f]
    BY <1>4, EngineConfig DEF Pops, TypeOK
  <2> QED BY <2>1, <2>2, <2>3, NothingSpent
<1>5. CASE UNCHANGED <<frames, wal, budget>>
  BY <1>5 DEF CallsWithinLimits
<1> QED BY <1>1, <1>3, <1>4, <1>5, PushesWithinLimits DEF StackStep

(* No execution nests more calls than maxDepth, or makes more than callBudget,
   whatever the dependency graph, cycles included. *)
THEOREM LimitsHold == Spec => []CallsWithinLimits
<1>1. Init => CallsWithinLimits
  <2> SUFFICES ASSUME Init, NEW e \in Execs
               PROVE  /\ Len(frames[e]) <= MaxDepth
                      /\ Cardinality(Spent(e)) + budget[e] <= CallBudget
    BY DEF CallsWithinLimits, Spent
  <2>1. Len(frames[e]) = 0 /\ Len(wal) = 0 /\ budget[e] = CallBudget
    BY EmptySeq DEF Init
  <2>2. Spent(e) = {}
    BY <2>1 DEF Spent
  <2>3. Cardinality(Spent(e)) = 0
    BY <2>2, FS_EmptySet
  <2> QED BY <2>1, <2>3, EngineConfig
<1>2. /\ TypeOK /\ PhasesMatch /\ (TypeOK /\ PhasesMatch)' /\ CallsWithinLimits
      /\ [Next]_vars
      => CallsWithinLimits'
  BY LimitsKept
<1> QED BY <1>1, <1>2, TypesAndPhases, PTL DEF Spec
-----------------------------------------------------------------------------
(* What becomes of a step when its execution fails *)

\* g is the frame f, later: from the hooks after the handler there is no way back
\* to it, and attempts are counted up.
Follows(g, f) == g.wal = f.wal /\ (g.pc # "post" => f.pc # "post" /\ f.attempt <= g.attempt)

StackFollows(e, st) ==
  \A k \in 1..Len(st) : \E j \in 1..Len(frames[e]) : Follows(st[k], frames[e][j])

\* Each frame of the new stack is a frame of the old one, later, or a new call's.
Continues(e) ==
  \A k \in 1..Len(frames'[e]) :
    \/ frames'[e][k].wal = Len(wal) + 1
    \/ \E j \in 1..Len(frames[e]) : Follows(frames'[e][k], frames[e][j])

(* A stack whose top frame was replaced. *)
LEMMA ReplacedTop ==
  ASSUME TypeOK, NEW e \in Execs, frames[e] # <<>>, NEW g \in Frame
  PROVE  /\ Append(Below(e), g) \in Seq(Frame)
         /\ Len(Append(Below(e), g)) = Len(frames[e])
         /\ \A k \in 1..Len(frames[e]) :
              Append(Below(e), g)[k] = IF k = Len(frames[e]) THEN g ELSE frames[e][k]
<1> DEFINE st == Append(Below(e), g)
<1>1. /\ Len(frames[e]) \in Nat \ {0}
      /\ Below(e) \in Seq(Frame)
      /\ Len(Below(e)) = Len(frames[e]) - 1
      /\ \A k \in 1..(Len(frames[e]) - 1) : Below(e)[k] = frames[e][k]
  BY StackParts
<1>2. /\ st \in Seq(Frame)
      /\ Len(st) = Len(Below(e)) + 1
      /\ \A k \in 1..Len(Below(e)) : st[k] = Below(e)[k]
      /\ st[Len(Below(e)) + 1] = g
  BY <1>1, AppendProperties
<1> HIDE DEF st
<1>3. \A k \in 1..Len(frames[e]) : k # Len(frames[e]) => k \in 1..(Len(frames[e]) - 1)
  BY <1>1
<1>4. Len(st) = Len(frames[e]) /\ Len(Below(e)) + 1 = Len(frames[e])
  BY <1>1, <1>2
<1>5. \A k \in 1..Len(frames[e]) : st[k] = IF k = Len(frames[e]) THEN g ELSE frames[e][k]
  BY <1>1, <1>2, <1>3, <1>4
<1> QED BY <1>2, <1>4, <1>5 DEF st

(* The frames of a stack have their types, and each follows itself. *)
LEMMA FollowsItself ==
  ASSUME TypeOK, NEW e \in Execs
  PROVE  /\ Len(frames[e]) \in Nat /\ \A k \in 1..Len(frames[e]) : frames[e][k] \in Frame
         /\ StackFollows(e, frames[e])
<1>1. frames[e] \in Seq(Frame)
  BY DEF TypeOK
<1>2. Len(frames[e]) \in Nat /\ \A k \in 1..Len(frames[e]) : frames[e][k] \in Frame
  BY <1>1, LenProperties, ElementOfSeq
<1>3. \A f \in Frame : Follows(f, f)
  BY DEF Follows, Frame
<1> QED BY <1>2, <1>3 DEF StackFollows

(* The stack below the top follows; so does one whose top frame does. *)
LEMMA PartsFollow ==
  ASSUME TypeOK, NEW e \in Execs, frames[e] # <<>>
  PROVE  /\ StackFollows(e, Below(e))
         /\ \A g \in Frame : Follows(g, Top(e)) => StackFollows(e, Append(Below(e), g))
<1>1. /\ Len(frames[e]) \in Nat \ {0}
      /\ Len(Below(e)) = Len(frames[e]) - 1
      /\ \A k \in 1..(Len(frames[e]) - 1) : Below(e)[k] = frames[e][k]
  BY StackParts
<1>2. \A k \in 1..Len(frames[e]) : \E j \in 1..Len(frames[e]) : Follows(frames[e][k], frames[e][j])
  BY FollowsItself DEF StackFollows
<1>3. StackFollows(e, Below(e))
  <2>1. \A k \in 1..Len(Below(e)) : k \in 1..Len(frames[e]) /\ Below(e)[k] = frames[e][k]
    BY <1>1
  <2> QED BY <1>2, <2>1 DEF StackFollows
<1>4. ASSUME NEW g \in Frame, Follows(g, Top(e))
      PROVE  StackFollows(e, Append(Below(e), g))
  <2> DEFINE st == Append(Below(e), g)
  <2>1. /\ Len(st) = Len(frames[e])
        /\ \A k \in 1..Len(frames[e]) : st[k] = IF k = Len(frames[e]) THEN g ELSE frames[e][k]
    BY ReplacedTop
  <2>2. Follows(g, frames[e][Len(frames[e])]) /\ Len(frames[e]) \in 1..Len(frames[e])
    BY <1>1, <1>4 DEF Top
  <2> HIDE DEF st
  <2>3. ASSUME NEW k \in 1..Len(frames[e])
        PROVE  \E j \in 1..Len(frames[e]) : Follows(st[k], frames[e][j])
    <3>1. CASE k = Len(frames[e])
      BY <2>1, <2>2, <3>1
    <3>2. CASE k # Len(frames[e])
      <4>1. st[k] = frames[e][k]
        BY <2>1, <3>2
      <4> QED BY <1>2, <4>1
    <3> QED BY <3>1, <3>2
  <2>4. StackFollows(e, st)
    BY <2>1, <2>3 DEF StackFollows
  <2> QED BY <2>4 DEF st
<1> QED BY <1>3, <1>4

(* A call that is entered, or refused, leaves a stack that continues. *)
LEMMA EnterContinues ==
  ASSUME TypeOK, NEW e \in Execs, NEW s \in Skills, NEW st \in Seq(Frame), StackFollows(e, st),
         Enter(e, s, st)
  PROVE  Continues(e)
<1>1. CASE Refuse(e, st)
  <2>1. frames'[e] = st
    BY <1>1 DEF Refuse, TypeOK
  <2> QED BY <2>1 DEF Continues, StackFollows
<1>2. CASE ~Refuse(e, st)
  <2> DEFINE f == NewFrame(s)
             t == Append(st, f)
  <2>1. frames'[e] = t
    BY <1>2 DEF Enter, TypeOK
  <2>2. f \in Frame /\ f.wal = Len(wal) + 1
    BY NewTypes DEF NewFrame
  <2> HIDE DEF f
  <2>3. /\ Len(st) \in Nat /\ Len(t) = Len(st) + 1 /\ t[Len(st) + 1] = f
        /\ \A k \in 1..Len(st) : t[k] = st[k]
    BY <2>2, AppendProperties, LenProperties
  <2> HIDE DEF t
  <2>4. \A k \in 1..Len(t) : k \in 1..Len(st) \/ k = Len(st) + 1
    BY <2>3
  <2> QED BY <2>1, <2>2, <2>3, <2>4 DEF Continues, StackFollows
<1> QED BY <1>1, <1>2

(* A stack that was cut or whose top moved on continues. *)
LEMMA StackContinues ==
  ASSUME TypeOK, NEW e \in Execs, NEW st, StackFollows(e, st), frames' = [frames EXCEPT ![e] = st]
  PROVE  Continues(e)
<1>1. frames'[e] = st
  BY DEF TypeOK
<1> QED BY <1>1 DEF Continues, StackFollows

(* How a frame moves on. *)
LEMMA FrameFollows ==
  ASSUME NEW f \in Frame
  PROVE  /\ f.pc # "post" => LET g == [f EXCEPT !.pc = "run"] IN g \in Frame /\ Follows(g, f)
         /\ \A n \in Nat \ {0} : LET g == [f EXCEPT !.next = n] IN g \in Frame /\ Follows(g, f)
         /\ f.pc # "post" => LET g == [f EXCEPT !.pc = "backoff", !.attempt = @ + 1]
                             IN g \in Frame /\ Follows(g, f) /\ g.attempt = f.attempt + 1
         /\ \A r \in Results : LET g == [f EXCEPT !.pc = "post", !.next = 1, !.result = r]
                               IN g \in Frame /\ Follows(g, f) /\ g.pc = "post"
<1>1. f.attempt \in Nat /\ f.attempt + 1 \in Nat
  BY DEF Frame
<1>2. f.pc # "post" => LET g == [f EXCEPT !.pc = "run"] IN g \in Frame /\ Follows(g, f)
  BY <1>1 DEF Follows, Frame
<1>3. \A n \in Nat \ {0} : LET g == [f EXCEPT !.next = n] IN g \in Frame /\ Follows(g, f)
  BY <1>1 DEF Follows, Frame
<1>4. f.pc # "post" => LET g == [f EXCEPT !.pc = "backoff", !.attempt = @ + 1]
                       IN g \in Frame /\ Follows(g, f) /\ g.attempt = f.attempt + 1
  <2> DEFINE n == f.attempt + 1
             h == [f EXCEPT !.pc = "backoff"]
             g == [h EXCEPT !.attempt = n]
  <2>1. h \in Frame /\ h.wal = f.wal
    BY DEF Frame
  <2> HIDE DEF h
  <2>2. n \in Nat /\ f.attempt <= n
    BY <1>1
  <2> HIDE DEF n
  <2>3. g \in Frame /\ g.wal = f.wal /\ g.attempt = n
    BY <2>1, <2>2 DEF Frame
  <2>4. [f EXCEPT !.pc = "backoff", !.attempt = @ + 1] = g
    BY DEF h, n
  <2> HIDE DEF g
  <2> QED BY <2>2, <2>3, <2>4 DEF Follows, n
<1>5. ASSUME NEW r \in Results
      PROVE  LET g == [f EXCEPT !.pc = "post", !.next = 1, !.result = r]
             IN g \in Frame /\ Follows(g, f) /\ g.pc = "post"
  <2> DEFINE h == [f EXCEPT !.pc = "post"]
             i == [h EXCEPT !.next = 1]
             g == [i EXCEPT !.result = r]
  <2>1. h \in Frame /\ h.wal = f.wal /\ h.pc = "post"
    BY DEF Frame
  <2> HIDE DEF h
  <2>2. i \in Frame /\ i.wal = f.wal /\ i.pc = "post"
    BY <2>1 DEF Frame
  <2> HIDE DEF i
  <2>3. g \in Frame /\ g.wal = f.wal /\ g.pc = "post"
    BY <2>2 DEF Frame
  <2> HIDE DEF g
  <2> QED BY <2>3 DEF Follows, g, h, i
<1> QED BY <1>2, <1>3, <1>4, <1>5

\* A step of an execution's stack that no handler run ends in.
StackOnly(e) ==
  \/ Start(e) \/ CallHook(e) \/ PreHookThrew(e) \/ PostHookThrew(e)
  \/ StartHandler(e) \/ HandlerThrows(e) \/ FinishCall(e)

(* Such a step leaves a stack that continues, ... *)
LEMMA StackOnlyContinues ==
  ASSUME TypeOK, PhasesMatch, NEW e \in Execs, StackOnly(e)
  PROVE  Continues(e)
<1>1. CASE Start(e)
  <2>1. <<>> \in Seq(Frame) /\ StackFollows(e, <<>>)
    BY EmptySeq DEF StackFollows
  <2> QED BY <1>1, <2>1, EnterContinues, EngineConfig DEF Start
<1>2. CASE CallHook(e)
  <2>1. PICK i \in HooksLeft(Top(e)) :
          Enter(e, Deps[Top(e).skill][i], Append(Below(e), [Top(e) EXCEPT !.next = i + 1]))
    BY <1>2 DEF CallHook
  <2>2. frames[e] # <<>> /\ Top(e) \in Frame
    BY <1>2, StackParts DEF CallHook, Ready
  <2>3. Top(e).skill \in Skills /\ Top(e).next \in Nat \ {0}
    BY <2>2 DEF Frame
  <2>4. Deps[Top(e).skill] \in Seq(Skills)
    BY <2>3, EngineConfig
  <2>5. i \in 1..Len(Deps[Top(e).skill])
    BY <2>3, <2>4, LenProperties DEF HooksLeft
  <2>6. Deps[Top(e).skill][i] \in Skills /\ i + 1 \in Nat \ {0}
    BY <2>4, <2>5, ElementOfSeq, LenProperties
  <2> DEFINE g == [Top(e) EXCEPT !.next = i + 1]
  <2>7. g \in Frame /\ Follows(g, Top(e))
    BY <2>2, <2>6, FrameFollows
  <2> HIDE DEF g
  <2>8. Append(Below(e), g) \in Seq(Frame) /\ StackFollows(e, Append(Below(e), g))
    BY <2>2, <2>7, PartsFollow, ReplacedTop
  <2> QED BY <2>1, <2>6, <2>8, EnterContinues DEF g
<1>3. ASSUME frames[e] # <<>>
      PROVE  /\ Top(e) \in Frame
             /\ Fail(e) \/ Succeed(e) => Continues(e)
             /\ \A g \in Frame : frames' = WithTop(e, g) /\ Follows(g, Top(e)) => Continues(e)
  BY <1>3, StackParts, PartsFollow, StackContinues DEF Fail, Succeed, Settle, WithTop
<1>4. CASE PreHookThrew(e) \/ PostHookThrew(e) \/ StartHandler(e)
  <2>1. /\ frames[e] # <<>>
        /\ \/ Fail(e) \/ Succeed(e)
           \/ Top(e).pc # "post" /\ frames' = WithTop(e, [Top(e) EXCEPT !.pc = "run"])
    BY <1>4 DEF PreHookThrew, PostHookThrew, StartHandler, InPc, Ready
  <2>2. CASE Top(e).pc # "post" /\ frames' = WithTop(e, [Top(e) EXCEPT !.pc = "run"])
    <3> DEFINE g == [Top(e) EXCEPT !.pc = "run"]
    <3>1. g \in Frame /\ Follows(g, Top(e)) /\ frames' = WithTop(e, g)
      BY <1>3, <2>1, <2>2, FrameFollows
    <3> HIDE DEF g
    <3> QED BY <1>3, <2>1, <3>1
  <2> QED BY <1>3, <2>1, <2>2
<1>5. CASE HandlerThrows(e)
  <2>1. /\ frames[e] # <<>> /\ Top(e).pc = "run"
        /\ \/ Fail(e)
           \/ frames' = WithTop(e, [Top(e) EXCEPT !.pc = "backoff", !.attempt = @ + 1])
    BY <1>5 DEF HandlerThrows, AttemptFails, Ready
  <2> DEFINE g == [Top(e) EXCEPT !.pc = "backoff", !.attempt = @ + 1]
  <2>2. g \in Frame /\ Follows(g, Top(e))
    BY <1>3, <2>1, FrameFollows
  <2>3. Fail(e) \/ frames' = WithTop(e, g)
    BY <2>1
  <2> HIDE DEF g
  <2> QED BY <1>3, <2>1, <2>2, <2>3
<1>6. CASE FinishCall(e)
  BY <1>3, <1>6 DEF FinishCall, Ready
<1> QED BY <1>1, <1>2, <1>4, <1>5, <1>6 DEF StackOnly

\* The runs of which something is known: they ended, or were left behind.
Taken == DOMAIN fate \cup late

\* A call that has not got past its handler has runs to come, at least this one.
Fresh(f) == f.pc # "post" => \A a \in Nat : f.attempt <= a => <<f.wal, a>> \notin Taken

FreshInv == \A e \in Execs : \A k \in 1..Len(frames[e]) : Fresh(frames[e][k])

RunInv ==
  /\ late \cap DOMAIN fate = {}
  /\ \A r \in Taken : r[1] \in 1..Len(wal)
  /\ FreshInv

(* The log only grows, and keeps what it says about whose call an entry is. *)
LEMMA LogGrows ==
  ASSUME TypeOK, PhasesMatch, [Next]_vars
  PROVE  /\ Len(wal) \in Nat /\ Len(wal') \in Nat /\ Len(wal) <= Len(wal')
         /\ \A i \in 1..Len(wal) : wal'[i].exec = wal[i].exec /\ wal'[i].skill = wal[i].skill
<1>1. Len(wal) \in Nat
  BY EntryTypes
<1>2. CASE wal' = wal
  BY <1>1, <1>2
<1>3. ASSUME NEW e \in Execs, Pushes(e)
      PROVE  /\ Len(wal') \in Nat /\ Len(wal) <= Len(wal')
             /\ \A i \in 1..Len(wal) : wal'[i].exec = wal[i].exec /\ wal'[i].skill = wal[i].skill
  <2>1. PICK s \in Skills : wal' = Append(wal, NewEntry(e, s))
    BY <1>3 DEF Pushes
  <2>2. NewEntry(e, s) \in Entry
    BY NewTypes
  <2>3. Len(wal') = Len(wal) + 1 /\ \A i \in 1..Len(wal) : wal'[i] = wal[i]
    BY <2>1, <2>2, AppendProperties DEF TypeOK
  <2> QED BY <1>1, <2>3
<1>4. ASSUME NEW e \in Execs, Pops(e)
      PROVE  /\ Len(wal') \in Nat /\ Len(wal) <= Len(wal')
             /\ \A i \in 1..Len(wal) : wal'[i].exec = wal[i].exec /\ wal'[i].skill = wal[i].skill
  BY <1>1, <1>4, ClosedEntry DEF Pops
<1>5. (\E e \in Execs : StackStep(e)) \/ UNCHANGED <<frames, wal, budget>>
  BY NextStack DEF PhasesMatch
<1> QED BY <1>1, <1>2, <1>3, <1>4, <1>5 DEF StackStep, Advances

(* Where no run was taken, the runs of calls that go on are still to come. *)
LEMMA StaysFresh ==
  ASSUME TypeOK, TypeOK', RunInv, Taken' \subseteq Taken,
         \A e \in Execs : Continues(e) \/ frames'[e] = frames[e]
  PROVE  FreshInv'
<1> SUFFICES ASSUME NEW e \in Execs, NEW k \in 1..Len(frames'[e]), frames'[e][k].pc # "post",
                    NEW a \in Nat, frames'[e][k].attempt <= a, <<frames'[e][k].wal, a>> \in Taken
             PROVE  FALSE
  BY DEF Fresh, FreshInv
<1> DEFINE g == frames'[e][k]
<1>1. g.wal \in 1..Len(wal) /\ g.wal # Len(wal) + 1
  <2>1. <<g.wal, a>>[1] \in 1..Len(wal)
    BY DEF RunInv
  <2>2. Len(wal) \in Nat
    BY EntryTypes
  <2> QED BY <2>1, <2>2
<1>2. PICK j \in 1..Len(frames[e]) : Follows(g, frames[e][j])
  <2>1. CASE Continues(e)
    BY <1>1, <2>1 DEF Continues
  <2>2. CASE frames'[e] = frames[e]
    BY <2>2, FollowsItself DEF StackFollows
  <2> QED BY <2>1, <2>2
<1> DEFINE f == frames[e][j]
<1>3. f \in Frame /\ Fresh(f)
  BY FollowsItself DEF RunInv, FreshInv
<1>4. f.pc # "post" /\ g.wal = f.wal /\ f.attempt <= g.attempt
  BY <1>2 DEF Follows
<1>5. f.attempt \in Nat /\ g.attempt \in Nat
  <2>1. frames'[e] \in Seq(Frame)
    BY DEF TypeOK
  <2>2. g \in Frame
    BY <2>1, ElementOfSeq
  <2> QED BY <1>3, <2>2 DEF Frame
<1> HIDE DEF f, g
<1>6. f.attempt <= a
  BY <1>4, <1>5 DEF g
<1> QED BY <1>3, <1>4, <1>6 DEF Fresh, g

(* An entry belongs to one frame. *)
LEMMA OwnPlace ==
  ASSUME TypeOK, StacksAscend, LogFollowsStacks, NEW e \in Execs, NEW f \in Execs,
         NEW i \in 1..Len(frames[e]), NEW k \in 1..Len(frames[f]),
         frames[e][i].wal = frames[f][k].wal
  PROVE  e = f /\ i = k
<1>1. wal[frames[e][i].wal].exec = e /\ wal[frames[f][k].wal].exec = f
  <2>1. ASSUME NEW x \in Execs, NEW l \in 1..Len(frames[x])
        PROVE  wal[frames[x][l].wal].exec = x
    <3>1. Logged(x, frames[x], l, wal)
      BY DEF LogFollowsStacks, Logged
    <3> QED BY <3>1 DEF Logged
  <2> QED BY <2>1
<1>2. e = f
  BY <1>1
<1>3. Len(frames[e]) \in Nat /\ \A j \in 1..Len(frames[e]) : frames[e][j].wal \in Nat
  <2>1. Len(wal) \in Nat /\ \A j \in 1..Len(frames[e]) : frames[e][j].wal \in 1..Len(wal)
    BY EntryTypes DEF StacksAscend
  <2> QED BY <2>1, FollowsItself
<1>4. ~(i < k) /\ ~(k < i)
  <2>1. \A m \in 1..Len(frames[e]) : \A l \in 1..(m - 1) : frames[e][l].wal < frames[e][m].wal
    BY DEF StacksAscend
  <2>2. i < k => i \in 1..(k - 1)
    BY <1>2, <1>3
  <2>3. k < i => k \in 1..(i - 1)
    BY <1>2, <1>3
  <2> QED BY <1>2, <1>3, <2>1, <2>2, <2>3
<1> QED BY <1>2, <1>3, <1>4

(* A run that was just taken was its call's next one: the runs of the others are
   still to come, and so are the later ones of its call. *)
LEMMA EndsFresh ==
  ASSUME TypeOK, RunInv, StacksAscend, LogFollowsStacks, NEW e \in Execs, frames[e] # <<>>,
         Top(e).pc # "post", Taken' \subseteq Taken \cup {ThisRun(e)},
         \/ frames' = [frames EXCEPT ![e] = Below(e)]
         \/ \E g \in Frame :
              /\ frames' = WithTop(e, g) /\ g.wal = Top(e).wal
              /\ g.pc = "post" \/ g.attempt = Top(e).attempt + 1
  PROVE  FreshInv'
<1> DEFINE n == Len(frames[e])
<1>1. /\ n \in Nat \ {0} /\ Top(e) = frames[e][n] /\ Top(e) \in Frame /\ Top(e).attempt \in Nat
      /\ Len(Below(e)) = n - 1 /\ \A k \in 1..(n - 1) : Below(e)[k] = frames[e][k]
  BY StackParts DEF Top, Frame
<1> SUFFICES ASSUME NEW f \in Execs, NEW k \in 1..Len(frames'[f]), frames'[f][k].pc # "post",
                    NEW a \in Nat, frames'[f][k].attempt <= a, <<frames'[f][k].wal, a>> \in Taken'
             PROVE  FALSE
  BY DEF Fresh, FreshInv
<1>2. ASSUME k \in 1..Len(frames[f]), frames'[f][k] = frames[f][k], f # e \/ k # n
      PROVE  FALSE
  <2>1. frames[f][k].wal # Top(e).wal
    BY <1>1, <1>2, OwnPlace
  <2>2. <<frames[f][k].wal, a>> \in Taken
    BY <1>2, <2>1 DEF ThisRun
  <2> QED BY <1>2, <2>2 DEF RunInv, FreshInv, Fresh
<1>3. CASE f # e
  <2>1. frames'[f] = frames[f]
    BY <1>3 DEF WithTop, TypeOK
  <2> QED BY <1>2, <1>3, <2>1
<1>4. CASE f = e /\ frames' = [frames EXCEPT ![e] = Below(e)]
  <2>1. frames'[f] = Below(e)
    BY <1>4 DEF TypeOK
  <2>2. k \in 1..n /\ k # n /\ frames'[f][k] = frames[f][k]
    BY <1>1, <1>4, <2>1
  <2> QED BY <1>2, <1>4, <2>2
<1>5. ASSUME f = e, NEW g \in Frame, frames' = WithTop(e, g), g.wal = Top(e).wal,
             g.pc = "post" \/ g.attempt = Top(e).attempt + 1
      PROVE  FALSE
  <2> DEFINE st == Append(Below(e), g)
  <2>1. frames'[f] = st
    BY <1>5 DEF WithTop, TypeOK
  <2>2. Len(st) = n /\ \A j \in 1..n : st[j] = IF j = n THEN g ELSE frames[e][j]
    BY ReplacedTop
  <2> HIDE DEF st
  <2>3. CASE k # n
    BY <1>2, <1>5, <2>1, <2>2, <2>3
  <2>4. CASE k = n
    <3>1. frames'[f][k] = g
      BY <1>5, <2>1, <2>2, <2>4
    <3>2. g.attempt = Top(e).attempt + 1 /\ g.attempt <= a
      BY <1>5, <3>1
    <3>3. a # Top(e).attempt /\ Top(e).attempt <= a
      BY <1>1, <3>2
    <3>4. <<Top(e).wal, a>> \in Taken
      BY <1>5, <3>1, <3>3 DEF ThisRun
    <3>5. Fresh(Top(e))
      BY <1>1 DEF RunInv, FreshInv
    <3> QED BY <3>3, <3>4, <3>5 DEF Fresh
  <2> QED BY <2>3, <2>4
<1> QED BY <1>3, <1>4, <1>5

\* Where run r stands in the list of the steps that e has to undo.
ToUndo(e, r) == {i \in 1..Len(completed[e]) : completed[e][i] = r}

\* The steps still to be undone are done, and in the list once.
ListIsDone ==
  \A e \in Execs : \A i \in 1..Len(completed[e]) :
    LET r == completed[e][i]
    IN  r \in DOMAIN fate /\ fate[r] = "done" /\ Owner(r) = e /\ ToUndo(e, r) = {i}

DoneIsListed ==
  \A r \in DOMAIN fate :
    fate[r] = "done" /\ SkillOf(r) \in Compensable => ToUndo(Owner(r), r) # {}

FailedIsOver == \A e \in Execs : phase[e] = "failed" => completed[e] = <<>>

UndoneHasFailed ==
  \A r \in DOMAIN fate :
    fate[r] \in {"undone", "givenUp"} => phase[Owner(r)] \in {"compensating", "failed"}

SettleInv == ListIsDone /\ DoneIsListed /\ FailedIsOver /\ UndoneHasFailed

\* A step that ends the handler run of e's innermost call, in time or not.
EndsRun(e) == HandlerTimesOut(e) \/ \E r \in Results : HandlerReturns(e, r)

\* A step that ends no run.
EndsNoRun ==
  /\ UNCHANGED <<fate, late, completed>>
  /\ \A e \in Execs : Continues(e) \/ frames'[e] = frames[e]

(* Every step is one of four kinds. *)
LEMMA StepKinds ==
  ASSUME TypeOK, PhasesMatch, [Next]_vars
  PROVE  \/ EndsNoRun
         \/ \E e \in Execs : EndsRun(e)
         \/ \E e \in Execs : CompensateStep(e)
         \/ \E r \in late : LateRunEnds(r)
<1>1. ASSUME NEW e \in Execs, StackOnly(e) PROVE EndsNoRun
  <2>1. UNCHANGED <<fate, late, completed>>
    BY <1>1 DEF StackOnly, Start, CallHook, PreHookThrew, PostHookThrew, StartHandler,
                HandlerThrows, FinishCall
  <2>2. Continues(e)
    BY <1>1, StackOnlyContinues
  <2>3. \A f \in Execs : f # e => frames'[f] = frames[f]
    <3>1. \E st : frames' = [frames EXCEPT ![e] = st]
      BY <1>1 DEF StackOnly, Start, CallHook, PreHookThrew, PostHookThrew, StartHandler,
                  HandlerThrows, AttemptFails, FinishCall, Enter, Refuse, Fail, Succeed,
                  Settle, WithTop
    <3> QED BY <3>1 DEF TypeOK
  <2> QED BY <2>1, <2>2, <2>3 DEF EndsNoRun
<1>2. ASSUME NEW e \in Execs, ReturnResult(e) \/ Rethrow(e) PROVE EndsNoRun
  BY <1>2 DEF ReturnResult, Rethrow, EndsNoRun
<1>3. ASSUME NEW s \in Skills, Unregister(s) PROVE EndsNoRun
  BY <1>3 DEF Unregister, EndsNoRun
<1>4. CASE UNCHANGED vars
  BY <1>4 DEF vars, EndsNoRun
<1> QED BY <1>1, <1>2, <1>3, <1>4 DEF Next, EngineStep, HandlerStep, StackOnly, EndsRun

(* The run that ends is its call's next one: nothing was known of it. *)
LEMMA RunEnds ==
  ASSUME TypeOK, TypeOK', StacksAscend, LogFollowsStacks, RunInv, NEW e \in Execs, EndsRun(e)
  PROVE  /\ frames[e] # <<>> /\ Top(e).pc = "run" /\ Top(e) \in Frame
         /\ ThisRun(e) \notin Taken
         /\ ThisRun(e)[1] = Top(e).wal /\ Top(e).wal \in 1..Len(wal)
         /\ wal[Top(e).wal].exec = e /\ wal[Top(e).wal].skill = Top(e).skill
         /\ FreshInv'
<1>1. frames[e] # <<>> /\ Top(e).pc = "run"
  BY DEF EndsRun, HandlerTimesOut, HandlerReturns, Ready
<1>2. /\ Len(frames[e]) \in Nat \ {0} /\ Top(e) \in Frame
      /\ Top(e) = frames[e][Len(frames[e])]
  BY <1>1, StackParts DEF Top
<1>3. Top(e).attempt \in Nat
  BY <1>2 DEF Frame
<1>4. ThisRun(e) \notin Taken
  <2>1. Fresh(Top(e))
    BY <1>2 DEF RunInv, FreshInv
  <2>2. Top(e).attempt <= Top(e).attempt
    BY <1>3
  <2> QED BY <1>1, <1>3, <2>1, <2>2 DEF Fresh, ThisRun
<1>5. Top(e).wal \in 1..Len(wal)
  BY <1>2 DEF StacksAscend
<1>6. wal[Top(e).wal].exec = e /\ wal[Top(e).wal].skill = Top(e).skill
  <2>1. PICK k \in 1..Len(frames[e]) : Top(e) = frames[e][k]
    BY <1>2
  <2>2. Logged(e, frames[e], k, wal)
    BY DEF LogFollowsStacks, Logged
  <2> QED BY <2>1, <2>2 DEF Logged
<1>7. FreshInv'
  <2>1. Taken' \subseteq Taken \cup {ThisRun(e)}
    BY DEF EndsRun, HandlerTimesOut, HandlerReturns, SetFate, Taken
  <2>2. ASSUME NEW r \in Results, HandlerReturns(e, r)
        PROVE  \E g \in Frame : /\ frames' = WithTop(e, g) /\ g.wal = Top(e).wal
                                /\ g.pc = "post" \/ g.attempt = Top(e).attempt + 1
    <3> DEFINE g == [Top(e) EXCEPT !.pc = "post", !.next = 1, !.result = r]
    <3>1. g \in Frame /\ Follows(g, Top(e)) /\ g.pc = "post"
      BY <1>2, FrameFollows
    <3>2. frames' = WithTop(e, g)
      BY <2>2 DEF HandlerReturns
    <3> HIDE DEF g
    <3> QED BY <3>1, <3>2 DEF Follows
  <2>3. CASE HandlerTimesOut(e)
    <3>1. CASE Fail(e)
      <4>1. frames' = [frames EXCEPT ![e] = Below(e)]
        BY <3>1 DEF Fail, Settle
      <4> QED BY <1>1, <2>1, <4>1, EndsFresh
    <3>2. CASE ~Fail(e)
      <4> DEFINE g == [Top(e) EXCEPT !.pc = "backoff", !.attempt = @ + 1]
      <4>1. g \in Frame /\ Follows(g, Top(e)) /\ g.attempt = Top(e).attempt + 1
        BY <1>1, <1>2, FrameFollows
      <4>2. frames' = WithTop(e, g)
        BY <2>3, <3>2 DEF HandlerTimesOut, AttemptFails
      <4> HIDE DEF g
      <4>3. g.wal = Top(e).wal
        BY <4>1 DEF Follows
      <4> QED BY <1>1, <2>1, <4>1, <4>2, <4>3, EndsFresh
    <3> QED BY <3>1, <3>2
  <2>4. CASE \E r \in Results : HandlerReturns(e, r)
    <3>1. \E g \in Frame : /\ frames' = WithTop(e, g) /\ g.wal = Top(e).wal
                           /\ g.pc = "post" \/ g.attempt = Top(e).attempt + 1
      BY <2>2, <2>4
    <3> QED BY <1>1, <2>1, <3>1, EndsFresh
  <2> QED BY <2>3, <2>4 DEF EndsRun
<1> QED BY <1>1, <1>2, <1>4, <1>5, <1>6, <1>7 DEF ThisRun

(* Every step keeps what is known of the runs. *)
LEMMA RunsKept ==
  ASSUME TypeOK, TypeOK', PhasesMatch, StacksAscend, LogFollowsStacks, RunInv, SettleInv,
         [Next]_vars
  PROVE  RunInv'
<1>1. \A i \in 1..Len(wal) : i \in 1..Len(wal')
  BY LogGrows
<1>2. ASSUME FreshInv', \A r \in Taken' : r[1] \in 1..Len(wal), late' \cap DOMAIN fate' = {}
      PROVE  RunInv'
  BY <1>1, <1>2 DEF RunInv
<1>3. CASE EndsNoRun
  <2>1. Taken' = Taken /\ late' = late /\ fate' = fate
    BY <1>3 DEF EndsNoRun, Taken
  <2>2. FreshInv'
    BY <1>3, <2>1, StaysFresh DEF EndsNoRun
  <2> QED BY <1>2, <2>1, <2>2 DEF RunInv
<1>4. ASSUME NEW e \in Execs, EndsRun(e)
      PROVE  RunInv'
  <2>1. ThisRun(e) \notin Taken /\ ThisRun(e)[1] \in 1..Len(wal) /\ FreshInv'
    BY <1>4, RunEnds
  <2>2. \/ late' = late /\ DOMAIN fate' = DOMAIN fate \cup {ThisRun(e)}
        \/ late' = late \cup {ThisRun(e)} /\ fate' = fate
    BY <1>4 DEF EndsRun, HandlerTimesOut, HandlerReturns, SetFate
  <2>3. late' \cap DOMAIN fate' = {}
    BY <2>1, <2>2 DEF RunInv, Taken
  <2>4. \A r \in Taken' : r[1] \in 1..Len(wal)
    BY <2>1, <2>2 DEF RunInv, Taken
  <2> QED BY <1>2, <2>1, <2>3, <2>4
<1>5. ASSUME NEW e \in Execs, CompensateStep(e)
      PROVE  RunInv'
  <2>1. Len(completed[e]) \in Nat \ {0}
    BY <1>5, CompensateShortens DEF PhasesMatch, CompensateStep
  <2>2. completed[e][Len(completed[e])] \in DOMAIN fate
    BY <2>1 DEF SettleInv, ListIsDone
  <2>3. late' = late /\ DOMAIN fate' = DOMAIN fate /\ frames' = frames
    BY <1>5, <2>2 DEF CompensateStep, SetFate, NextToUndo
  <2>4. Taken' = Taken
    BY <2>3 DEF Taken
  <2>5. FreshInv'
    BY <2>3, <2>4, StaysFresh
  <2> QED BY <1>2, <2>3, <2>4, <2>5 DEF RunInv
<1>6. ASSUME NEW r \in late, LateRunEnds(r)
      PROVE  RunInv'
  <2>1. /\ late' = late \ {r} /\ frames' = frames
        /\ DOMAIN fate' = DOMAIN fate \cup {r} \/ fate' = fate
    BY <1>6 DEF LateRunEnds, SetFate
  <2>2. Taken' \subseteq Taken
    BY <2>1 DEF Taken
  <2>3. FreshInv'
    BY <2>1, <2>2, StaysFresh
  <2>4. late' \cap DOMAIN fate' = {}
    BY <2>1 DEF RunInv
  <2> QED BY <1>2, <2>2, <2>3, <2>4 DEF RunInv
<1> QED BY <1>3, <1>4, <1>5, <1>6, StepKinds

(* Whose run a run that is known is, and of which skill, does not change. *)
LEMMA RunsKeepOwner ==
  ASSUME TypeOK, PhasesMatch, RunInv, [Next]_vars, NEW r \in Taken
  PROVE  Owner(r)' = Owner(r) /\ SkillOf(r)' = SkillOf(r) /\ Owner(r) \in Execs
<1>1. r[1] \in 1..Len(wal)
  BY DEF RunInv
<1> QED BY <1>1, LogGrows, EntryTypes DEF Owner, SkillOf

(* An execution that has failed, or is compensating, stays so; one that fails
   without compensating has nothing to undo. *)
LEMMA FailuresStay ==
  ASSUME TypeOK, PhasesMatch, [Next]_vars, NEW e \in Execs
  PROVE  /\ phase[e] \in {"compensating", "failed"} => phase'[e] \in {"compensating", "failed"}
         /\ phase'[e] = "failed" => \/ phase[e] = "failed" \/ completed[e] = <<>>
                                    \/ CompensateStep(e) /\ Len(completed[e]) = 1
<1> DEFINE Goal == /\ phase[e] \in {"compensating", "failed"} =>
                        phase'[e] \in {"compensating", "failed"}
                   /\ phase'[e] = "failed" => \/ phase[e] = "failed" \/ completed[e] = <<>>
                                              \/ CompensateStep(e) /\ Len(completed[e]) = 1
<1>1. ASSUME phase' = phase PROVE Goal
  BY <1>1
<1>2. ASSUME NEW f \in Execs,
             Start(f) \/ ReturnResult(f) \/ Rethrow(f) \/ CompensateStep(f)
      PROVE  Goal
  <2>1. CASE f # e
    <3>1. \E p : phase' = [phase EXCEPT ![f] = p]
      BY <1>2 DEF Start, ReturnResult, Rethrow, CompensateStep
    <3>2. phase'[e] = phase[e]
      BY <2>1, <3>1 DEF TypeOK
    <3> QED BY <3>2
  <2>2. CASE f = e /\ Start(e)
    BY <2>2 DEF Start, TypeOK
  <2>3. CASE f = e /\ ReturnResult(e)
    BY <2>3 DEF ReturnResult, Results, TypeOK
  <2>4. CASE f = e /\ Rethrow(e)
    BY <2>4 DEF Rethrow, TypeOK
  <2>5. CASE f = e /\ CompensateStep(e)
    <3>1. phase' = [phase EXCEPT ![e] = IF Len(completed[e]) = 1 THEN "failed" ELSE @]
      BY <2>5 DEF CompensateStep
    <3>2. phase'[e] = IF Len(completed[e]) = 1 THEN "failed" ELSE phase[e]
      BY <3>1 DEF TypeOK
    <3> QED BY <2>5, <3>2
  <2> QED BY <1>2, <2>1, <2>2, <2>3, <2>4, <2>5
<1>3. ASSUME NEW f \in Execs, EngineStep(f) \/ HandlerStep(f)
      PROVE  phase' = phase \/ Start(f) \/ ReturnResult(f) \/ Rethrow(f) \/ CompensateStep(f)
  BY <1>3 DEF EngineStep, HandlerStep, CallHook, PreHookThrew, PostHookThrew, StartHandler,
              HandlerTimesOut, FinishCall, HandlerReturns, HandlerThrows
<1>4. ASSUME ~\E f \in Execs : EngineStep(f) \/ HandlerStep(f)
      PROVE  phase' = phase
  BY <1>4 DEF Next, LateRunEnds, Unregister, vars
<1> HIDE DEF Goal
<1>5. Goal
  BY <1>1, <1>2, <1>3, <1>4
<1> QED BY <1>5 DEF Goal

(* A step that settles nothing and lists nothing keeps what is known. *)
LEMMA StepsUntouched ==
  ASSUME TypeOK, PhasesMatch, RunInv, SettleInv, [Next]_vars,
         completed' = completed, \A e \in Execs : ~CompensateStep(e),
         DOMAIN fate \subseteq DOMAIN fate', \A r \in DOMAIN fate : fate'[r] = fate[r],
         \A r \in DOMAIN fate' \ DOMAIN fate : fate'[r] = "late"
  PROVE  SettleInv'
<1>1. ASSUME NEW r \in DOMAIN fate
      PROVE  /\ wal'[r[1]].exec = wal[r[1]].exec /\ wal'[r[1]].skill = wal[r[1]].skill
             /\ wal[r[1]].exec \in Execs
  BY RunsKeepOwner DEF Taken, Owner, SkillOf
<1>2. ListIsDone'
  <2> SUFFICES ASSUME NEW e \in Execs, NEW i \in 1..Len(completed[e]), NEW r, r = completed[e][i]
               PROVE  /\ r \in DOMAIN fate' /\ fate'[r] = "done" /\ wal'[r[1]].exec = e
                      /\ {j \in 1..Len(completed[e]) : completed[e][j] = r} = {i}
    BY DEF ListIsDone, Owner, ToUndo
  <2>1. /\ r \in DOMAIN fate /\ fate[r] = "done" /\ wal[r[1]].exec = e
        /\ {j \in 1..Len(completed[e]) : completed[e][j] = r} = {i}
    BY DEF SettleInv, ListIsDone, Owner, ToUndo
  <2> QED BY <1>1, <2>1
<1>3. DoneIsListed'
  <2> SUFFICES ASSUME NEW r \in DOMAIN fate', fate'[r] = "done", wal'[r[1]].skill \in Compensable
               PROVE  {j \in 1..Len(completed[wal'[r[1]].exec]) :
                         completed[wal'[r[1]].exec][j] = r} # {}
    BY DEF DoneIsListed, SkillOf, Owner, ToUndo
  <2>1. r \in DOMAIN fate /\ fate[r] = "done"
    OBVIOUS
  <2> QED BY <1>1, <2>1 DEF SettleInv, DoneIsListed, SkillOf, Owner, ToUndo
<1>4. FailedIsOver'
  BY FailuresStay DEF SettleInv, FailedIsOver
<1>5. UndoneHasFailed'
  <2> SUFFICES ASSUME NEW r \in DOMAIN fate', fate'[r] \in {"undone", "givenUp"}
               PROVE  phase'[wal'[r[1]].exec] \in {"compensating", "failed"}
    BY DEF UndoneHasFailed, Owner
  <2>1. r \in DOMAIN fate /\ fate[r] \in {"undone", "givenUp"}
    OBVIOUS
  <2>2. phase[wal[r[1]].exec] \in {"compensating", "failed"}
    BY <2>1 DEF SettleInv, UndoneHasFailed, Owner
  <2> QED BY <1>1, <2>1, <2>2, FailuresStay
<1> QED BY <1>2, <1>3, <1>4, <1>5 DEF SettleInv

(* A step that completes is listed, if it is compensable, and its execution is
   still running. *)
LEMMA StepsCompleted ==
  ASSUME TypeOK, TypeOK', PhasesMatch, StacksAscend, LogFollowsStacks, RunInv, SettleInv,
         [Next]_vars, NEW e \in Execs, NEW x \in Results, HandlerReturns(e, x)
  PROVE  SettleInv'
<1> DEFINE new == ThisRun(e)
           c == completed[e]
           d == completed'[e]
<1>1. /\ new \notin DOMAIN fate /\ new \in Runs
      /\ wal[new[1]].exec = e /\ wal[new[1]].skill = Top(e).skill
  <2>1. EndsRun(e)
    BY DEF EndsRun
  <2>2. ThisRun(e) \in Runs
    BY <2>1, RunEnds DEF ThisRun, Runs, Frame
  <2> QED BY <2>1, <2>2, RunEnds DEF Taken
<1>2. wal' = wal /\ phase' = phase /\ phase[e] = "running"
  BY DEF HandlerReturns, Ready
<1>3. /\ DOMAIN fate' = DOMAIN fate \cup {new} /\ fate'[new] = "done"
      /\ \A r \in DOMAIN fate : fate'[r] = fate[r]
  BY <1>1 DEF HandlerReturns, SetFate
<1>4. \A f \in Execs : f # e => completed'[f] = completed[f]
  BY DEF HandlerReturns, TypeOK
<1>5. Len(c) \in Nat /\ \A i \in 1..Len(c) : c[i] # new
  <2>1. completed[e] \in Seq(Runs)
    BY DEF TypeOK
  <2>2. Len(c) \in Nat
    BY <2>1, LenProperties
  <2>3. \A i \in 1..Len(c) : c[i] \in DOMAIN fate
    BY DEF SettleInv, ListIsDone
  <2> QED BY <1>1, <2>2, <2>3
<1>6. \/ d = c /\ Top(e).skill \notin Compensable
      \/ /\ Len(d) = Len(c) + 1 /\ d[Len(c) + 1] = new
         /\ \A i \in 1..Len(c) : d[i] = c[i]
  <2>1. c \in Seq(Runs)
    BY DEF TypeOK
  <2>2. CASE Top(e).skill \in Compensable
    <3>1. d = Append(c, new)
      BY <2>2 DEF HandlerReturns, TypeOK
    <3> HIDE DEF c, d, new
    <3> QED BY <1>1, <2>1, <3>1, AppendProperties
  <2>3. CASE Top(e).skill \notin Compensable
    BY <2>3 DEF HandlerReturns
  <2> QED BY <2>2, <2>3
<1> HIDE DEF new
<1>7. ListIsDone'
  <2> SUFFICES ASSUME NEW f \in Execs, NEW i \in 1..Len(completed'[f]), NEW r,
                      r = completed'[f][i]
               PROVE  /\ r \in DOMAIN fate' /\ fate'[r] = "done" /\ wal[r[1]].exec = f
                      /\ {j \in 1..Len(completed'[f]) : completed'[f][j] = r} = {i}
    BY <1>2 DEF ListIsDone, Owner, ToUndo
  <2>1. ASSUME i \in 1..Len(completed[f]), r = completed[f][i]
        PROVE  /\ r \in DOMAIN fate' /\ fate'[r] = "done" /\ wal[r[1]].exec = f
               /\ {j \in 1..Len(completed[f]) : completed[f][j] = r} = {i}
    BY <1>3, <2>1 DEF SettleInv, ListIsDone, Owner, ToUndo
  <2>2. CASE completed'[f] = completed[f]
    BY <2>1, <2>2
  <2>3. CASE completed'[f] # completed[f]
    <3>1. f = e /\ d # c
      BY <1>4, <2>3
    <3> HIDE DEF c, d
    <3>2. /\ Len(d) = Len(c) + 1 /\ d[Len(c) + 1] = new /\ i \in 1..Len(d) /\ r = d[i]
          /\ \A k \in 1..Len(c) : d[k] = c[k]
      BY <1>6, <3>1 DEF d
    <3>3. CASE i = Len(c) + 1
      <4>1. {j \in 1..Len(d) : d[j] = r} = {i}
        BY <1>5, <3>2, <3>3
      <4> QED BY <1>1, <1>3, <3>1, <3>2, <3>3, <4>1 DEF d
    <3>4. CASE i # Len(c) + 1
      <4>1. i \in 1..Len(c) /\ r = c[i]
        BY <1>5, <3>2, <3>4
      <4>2. /\ r \in DOMAIN fate' /\ fate'[r] = "done" /\ wal[r[1]].exec = f
            /\ {j \in 1..Len(c) : c[j] = r} = {i}
        BY <2>1, <3>1, <4>1 DEF c
      <4>3. r # new
        BY <1>5, <4>1
      <4>4. {j \in 1..Len(d) : d[j] = r} = {i}
        BY <1>5, <3>2, <4>1, <4>2, <4>3
      <4> QED BY <3>1, <4>2, <4>4 DEF d
    <3> QED BY <3>3, <3>4
  <2> QED BY <2>2, <2>3
<1>8. DoneIsListed'
  <2> SUFFICES ASSUME NEW r \in DOMAIN fate', fate'[r] = "done", wal[r[1]].skill \in Compensable,
                      NEW f, f = wal[r[1]].exec
               PROVE  \E j \in 1..Len(completed'[f]) : completed'[f][j] = r
    BY <1>2 DEF DoneIsListed, SkillOf, Owner, ToUndo
  <2>1. CASE r = new
    <3>1. f = e /\ d # c
      BY <1>1, <1>6, <2>1, <1>5
    <3> QED BY <1>5, <1>6, <2>1, <3>1, <1>1
  <2>2. CASE r # new
    <3>1. PICK j \in 1..Len(completed[f]) : completed[f][j] = r
      BY <1>3, <2>2 DEF SettleInv, DoneIsListed, SkillOf, Owner, ToUndo
    <3>2. CASE f # e
      <4>1. f \in Execs
        BY <1>2, <1>3, <2>2, RunsKeepOwner DEF Taken, Owner
      <4> QED BY <1>4, <3>1, <3>2, <4>1
    <3>3. CASE f = e
      <4>1. d = c \/ (Len(d) = Len(c) + 1 /\ \A i \in 1..Len(c) : d[i] = c[i])
        BY <1>6
      <4> QED BY <1>5, <3>1, <3>3, <4>1
    <3> QED BY <3>2, <3>3
  <2> QED BY <2>1, <2>2
<1>9. FailedIsOver'
  BY <1>2, <1>4 DEF SettleInv, FailedIsOver
<1>10. UndoneHasFailed'
  BY <1>2, <1>3 DEF SettleInv, UndoneHasFailed, Owner
<1> QED BY <1>7, <1>8, <1>9, <1>10 DEF SettleInv

(* Compensation settles the last step of the list, of an execution that failed. *)
LEMMA StepsUndone ==
  ASSUME TypeOK, TypeOK', PhasesMatch, RunInv, SettleInv, [Next]_vars,
         NEW e \in Execs, CompensateStep(e)
  PROVE  SettleInv'
<1> DEFINE c == completed[e]
           d == completed'[e]
           last == c[Len(c)]
<1>1. /\ Len(c) \in Nat \ {0} /\ Len(d) = Len(c) - 1
      /\ \A i \in 1..Len(d) : d[i] = c[i]
      /\ \A f \in Execs : f # e => completed'[f] = completed[f]
  <2>1. completed[e] # <<>>
    BY DEF CompensateStep, PhasesMatch
  <2>2. completed' = [completed EXCEPT ![e] =
                       [i \in 1..(Len(@) - 1) |-> IF i < Len(c) THEN @[i] ELSE @[i + 1]]]
    BY DEF CompensateStep, NextToUndo
  <2>3. d = [i \in 1..(Len(c) - 1) |-> IF i < Len(c) THEN c[i] ELSE c[i + 1]]
    BY <2>2 DEF TypeOK
  <2>4. d = SubSeq(c, 1, Len(c) - 1)
    BY <2>1, CompensateShortens DEF TypeOK
  <2>5. Len(c) \in Nat \ {0} /\ Len(d) = Len(c) - 1
    BY <2>1, <2>4, CompensateShortens
  <2> HIDE DEF c, d
  <2>6. \A i \in 1..Len(d) : d[i] = c[i]
    BY <2>3, <2>5
  <2>7. \A f \in Execs : f # e => completed'[f] = completed[f]
    BY <2>2 DEF TypeOK
  <2> QED BY <2>5, <2>6, <2>7
<1>2. /\ last \in DOMAIN fate /\ wal[last[1]].exec = e
      /\ \A i \in 1..Len(c) : c[i] = last => i = Len(c)
  <2>1. Len(c) \in 1..Len(c)
    BY <1>1
  <2>2. last \in DOMAIN fate /\ Owner(last) = e /\ ToUndo(e, last) = {Len(c)}
    BY <2>1 DEF SettleInv, ListIsDone
  <2> QED BY <2>2 DEF ToUndo, Owner
<1>3. /\ DOMAIN fate' = DOMAIN fate /\ fate'[last] \in {"undone", "givenUp"}
      /\ \A r \in DOMAIN fate : r # last => fate'[r] = fate[r]
  BY <1>2 DEF CompensateStep, SetFate, NextToUndo
<1>4. wal' = wal /\ phase[e] = "compensating"
  BY DEF CompensateStep
<1>5. /\ phase'[e] = IF Len(c) = 1 THEN "failed" ELSE "compensating"
      /\ \A f \in Execs : f # e => phase'[f] = phase[f]
  <2>1. phase' = [phase EXCEPT ![e] = IF Len(c) = 1 THEN "failed" ELSE @]
    BY DEF CompensateStep
  <2> HIDE DEF c
  <2> QED BY <1>4, <2>1 DEF TypeOK
<1>6. completed'[e] = d /\ completed[e] = c
  OBVIOUS
<1> HIDE DEF c, d, last
<1>7. ListIsDone'
  <2> SUFFICES ASSUME NEW f \in Execs, NEW i \in 1..Len(completed'[f]), NEW r,
                      r = completed'[f][i]
               PROVE  /\ r \in DOMAIN fate' /\ fate'[r] = "done" /\ wal[r[1]].exec = f
                      /\ {j \in 1..Len(completed'[f]) : completed'[f][j] = r} = {i}
    BY <1>4 DEF ListIsDone, Owner, ToUndo
  <2>1. ASSUME i \in 1..Len(completed[f]), r = completed[f][i]
        PROVE  /\ r \in DOMAIN fate /\ fate[r] = "done" /\ wal[r[1]].exec = f
               /\ {j \in 1..Len(completed[f]) : completed[f][j] = r} = {i}
    BY <2>1 DEF SettleInv, ListIsDone, Owner, ToUndo
  <2>2. CASE f # e
    <3>1. completed'[f] = completed[f]
      BY <1>1, <2>2
    <3>2. /\ r \in DOMAIN fate /\ fate[r] = "done" /\ wal[r[1]].exec = f
          /\ {j \in 1..Len(completed[f]) : completed[f][j] = r} = {i}
      BY <2>1, <3>1
    <3> QED BY <1>2, <1>3, <2>2, <3>1, <3>2
  <2>3. CASE f = e
    <3>1. i \in 1..Len(c) /\ i # Len(c) /\ r = c[i]
      BY <1>1, <1>6, <2>3
    <3>2. /\ r \in DOMAIN fate /\ fate[r] = "done" /\ wal[r[1]].exec = f
          /\ {j \in 1..Len(c) : c[j] = r} = {i}
      BY <1>6, <2>1, <2>3, <3>1
    <3>3. r # last
      BY <1>2, <3>1
    <3>4. {j \in 1..Len(d) : d[j] = r} = {i}
      BY <1>1, <1>6, <2>3, <3>1, <3>2
    <3> QED BY <1>3, <1>6, <2>3, <3>2, <3>3, <3>4
  <2> QED BY <2>2, <2>3
<1>8. DoneIsListed'
  <2> SUFFICES ASSUME NEW r \in DOMAIN fate', fate'[r] = "done", wal[r[1]].skill \in Compensable,
                      NEW f, f = wal[r[1]].exec
               PROVE  \E j \in 1..Len(completed'[f]) : completed'[f][j] = r
    BY <1>4 DEF DoneIsListed, SkillOf, Owner, ToUndo
  <2>1. r \in DOMAIN fate /\ r # last /\ fate[r] = "done"
    BY <1>3
  <2>2. PICK j \in 1..Len(completed[f]) : completed[f][j] = r
    BY <2>1 DEF SettleInv, DoneIsListed, SkillOf, Owner, ToUndo
  <2>3. CASE f # e
    <3>1. f \in Execs
      BY <2>1, RunsKeepOwner DEF Taken, Owner
    <3> QED BY <1>1, <2>2, <2>3, <3>1
  <2>4. CASE f = e
    <3>1. j # Len(c)
      BY <1>6, <2>1, <2>2, <2>4 DEF last
    <3>2. j \in 1..Len(d) /\ d[j] = r
      BY <1>1, <1>6, <2>2, <2>4, <3>1
    <3> QED BY <1>6, <2>4, <3>2
  <2> QED BY <2>3, <2>4
<1>9. FailedIsOver'
  <2> SUFFICES ASSUME NEW f \in Execs, phase'[f] = "failed" PROVE completed'[f] = <<>>
    BY DEF FailedIsOver
  <2>1. CASE f # e
    BY <1>1, <1>5, <2>1 DEF SettleInv, FailedIsOver
  <2>2. CASE f = e
    <3>1. Len(completed'[f]) = 0
      BY <1>1, <1>5, <1>6, <2>2
    <3>2. completed'[f] \in Seq(Runs)
      BY DEF TypeOK
    <3> QED BY <3>1, <3>2, EmptySeq
  <2> QED BY <2>1, <2>2
<1>10. UndoneHasFailed'
  <2> SUFFICES ASSUME NEW r \in DOMAIN fate', fate'[r] \in {"undone", "givenUp"},
                      NEW f, f = wal[r[1]].exec
               PROVE  phase'[f] \in {"compensating", "failed"}
    BY <1>4 DEF UndoneHasFailed, Owner
  <2>1. CASE f = e
    BY <1>5, <2>1
  <2>2. CASE f # e
    <3>1. r \in DOMAIN fate /\ fate[r] \in {"undone", "givenUp"}
      BY <1>2, <1>3, <2>2
    <3>2. f \in Execs
      BY <3>1, RunsKeepOwner DEF Taken, Owner
    <3> QED BY <1>5, <2>2, <3>1, <3>2 DEF SettleInv, UndoneHasFailed, Owner
  <2> QED BY <2>1, <2>2
<1> QED BY <1>7, <1>8, <1>9, <1>10 DEF SettleInv

(* Every step keeps what is known of the steps. *)
LEMMA StepsKept ==
  ASSUME TypeOK, TypeOK', PhasesMatch, StacksAscend, LogFollowsStacks, RunInv, SettleInv,
         [Next]_vars
  PROVE  SettleInv'
<1>1. CASE \E e \in Execs : CompensateStep(e)
  BY <1>1, StepsUndone
<1>2. CASE EndsNoRun /\ \A e \in Execs : ~CompensateStep(e)
  BY <1>2, StepsUntouched DEF EndsNoRun
<1>3. ASSUME NEW e \in Execs, HandlerTimesOut(e), \A f \in Execs : ~CompensateStep(f)
      PROVE  SettleInv'
  BY <1>3, StepsUntouched DEF HandlerTimesOut
<1>4. ASSUME NEW r \in late, LateRunEnds(r), \A f \in Execs : ~CompensateStep(f)
      PROVE  SettleInv'
  <2>1. r \notin DOMAIN fate
    BY DEF RunInv
  <2>2. completed' = completed
    BY <1>4 DEF LateRunEnds
  <2>3. /\ DOMAIN fate \subseteq DOMAIN fate'
        /\ \A x \in DOMAIN fate : fate'[x] = fate[x]
        /\ \A x \in DOMAIN fate' \ DOMAIN fate : fate'[x] = "late"
    BY <1>4, <2>1 DEF LateRunEnds, SetFate
  <2> QED BY <1>4, <2>2, <2>3, StepsUntouched
<1>5. ASSUME NEW e \in Execs, NEW x \in Results, HandlerReturns(e, x) PROVE SettleInv'
  BY <1>5, StepsCompleted
<1> QED BY <1>1, <1>2, <1>3, <1>4, <1>5, StepKinds DEF EndsRun

(* What is known of runs and steps holds at every moment. *)
LEMMA StepsSettled == Spec => [](RunInv /\ SettleInv)
<1>1. Init => RunInv /\ SettleInv
  BY EmptySeq DEF Init, RunInv, SettleInv, Taken, FreshInv, ListIsDone, DoneIsListed,
                  FailedIsOver, UndoneHasFailed
<1>2. /\ TypeOK /\ TypeOK' /\ PhasesMatch /\ StacksAscend /\ LogFollowsStacks
      /\ RunInv /\ SettleInv /\ [Next]_vars
      => RunInv' /\ SettleInv'
  BY RunsKept, StepsKept
<1> QED BY <1>1, <1>2, TypesAndPhases, LogAndStacks, PTL DEF Spec

(* When a failed execution is over, every compensable step that the engine saw
   complete was undone or given up, and no step of any other was: whatever was
   retried, timed out or ended late meanwhile. *)
THEOREM FailureSettled == Spec => []FailureSettlesSteps
<1>1. RunInv /\ SettleInv /\ TypeOK => FailureSettlesSteps
  <2> SUFFICES ASSUME RunInv, SettleInv, TypeOK, NEW r \in DOMAIN fate
               PROVE  /\ phase[Owner(r)] = "failed" /\ SkillOf(r) \in Compensable
                           => fate[r] # "done"
                      /\ fate[r] \in {"undone", "givenUp"} =>
                           phase[Owner(r)] \in {"compensating", "failed"}
    BY DEF FailureSettlesSteps
  <2>1. Owner(r) \in Execs
    BY EntryTypes DEF RunInv, Taken, Owner
  <2>2. ASSUME phase[Owner(r)] = "failed", SkillOf(r) \in Compensable, fate[r] = "done"
        PROVE  FALSE
    <3>1. completed[Owner(r)] = <<>> /\ ToUndo(Owner(r), r) # {}
      BY <2>1, <2>2 DEF SettleInv, FailedIsOver, DoneIsListed
    <3> QED BY <3>1, EmptySeq DEF ToUndo
  <2> QED BY <2>2 DEF SettleInv, UndoneHasFailed
<1> QED BY <1>1, TypesAndPhases, StepsSettled, PTL
-----------------------------------------------------------------------------
(* Handlers run after the hooks that block them *)

\* The call's AUTO_PRE hooks, by position.
PreDeps(f) ==
  {i \in 1..Len(Deps[f.skill]) :
     Deps[f.skill][i] \in registered /\ Autonomy[Deps[f.skill][i]] = "AUTO_PRE"}

HookDone(f, i) ==
  \E n \in 1..Len(wal) : /\ wal[n].skill = Deps[f.skill][i]
                         /\ wal[n].parent = f.wal
                         /\ wal[n].status = "completed"

\* The hook that e's call at position k looked at last is under way, or it threw
\* and the call has not caught it yet.
Awaited(e, k, i) ==
  /\ frames[e][k].pc = "pre"
  /\ i + 1 = frames[e][k].next
  /\ \/ k < Len(frames[e]) /\ frames[e][k + 1].skill = Deps[frames[e][k].skill][i]
     \/ k = Len(frames[e]) /\ ret[e] = "threw"

\* Of the hooks the call at position k has looked at, all are done but this one.
HooksSeen(e, k) ==
  frames[e][k].skill \in PreBlocks =>
    \A i \in PreDeps(frames[e][k]) :
      (frames[e][k].pc = "pre" => i < frames[e][k].next) =>
        HookDone(frames[e][k], i) \/ Awaited(e, k, i)

HooksInv == \A e \in Execs : \A k \in 1..Len(frames[e]) : HooksSeen(e, k)

\* What a step leaves of hooks that are done, and of the skills there are.
HooksStay ==
  /\ registered' \subseteq registered
  /\ \A n \in 1..Len(wal) : wal[n].status = "completed" =>
       n \in 1..Len(wal') /\ wal'[n] = wal[n]

(* A completed entry stays what it is, and no skill is registered again. *)
LEMMA HooksAreStable ==
  ASSUME TypeOK, PhasesMatch, LogFollowsStacks, [Next]_vars
  PROVE  HooksStay
<1>1. registered' \subseteq registered
  <2>1. ASSUME NEW e \in Execs, EngineStep(e) \/ HandlerStep(e)
        PROVE  registered' = registered
    BY <2>1 DEF EngineStep, HandlerStep, Start, CallHook, PreHookThrew, PostHookThrew,
                StartHandler, HandlerTimesOut, FinishCall, ReturnResult, Rethrow,
                HandlerReturns, HandlerThrows, CompensateStep
  <2> QED BY <2>1 DEF Next, LateRunEnds, Unregister, vars
<1>2. ASSUME NEW n \in 1..Len(wal), wal[n].status = "completed"
      PROVE  n \in 1..Len(wal') /\ wal'[n] = wal[n]
  <2>1. CASE wal' = wal
    BY <2>1
  <2>2. ASSUME NEW e \in Execs, Pushes(e)
        PROVE  n \in 1..Len(wal') /\ wal'[n] = wal[n]
    <3>1. PICK s \in Skills : wal' = Append(wal, NewEntry(e, s))
      BY <2>2 DEF Pushes
    <3>2. NewEntry(e, s) \in Entry
      BY NewTypes
    <3>3. Len(wal) \in Nat /\ Len(wal') = Len(wal) + 1 /\ \A i \in 1..Len(wal) : wal'[i] = wal[i]
      BY <3>1, <3>2, AppendProperties, EntryTypes DEF TypeOK
    <3> QED BY <3>3
  <2>3. ASSUME NEW e \in Execs, Pops(e)
        PROVE  n \in 1..Len(wal') /\ wal'[n] = wal[n]
    <3>1. frames[e] # <<>>
      BY <2>3 DEF Pops
    <3>2. PICK k \in 1..Len(frames[e]) : Top(e) = frames[e][k]
      BY <3>1, StackParts DEF Top
    <3>3. wal[Top(e).wal].status = "pending"
      <4>1. Logged(e, frames[e], k, wal)
        BY DEF LogFollowsStacks, Logged
      <4> QED BY <3>2, <4>1 DEF Logged
    <3>4. n # Top(e).wal
      BY <1>2, <3>3
    <3> QED BY <2>3, <3>4, ClosedEntry DEF Pops
  <2>4. (\E e \in Execs : StackStep(e)) \/ UNCHANGED <<frames, wal, budget>>
    BY NextStack DEF PhasesMatch
  <2> QED BY <2>1, <2>2, <2>3, <2>4 DEF StackStep, Advances
<1> QED BY <1>1, <1>2 DEF HooksStay

(* What is done stays done, for a frame of the same call. *)
LEMMA DoneStays ==
  ASSUME HooksStay, NEW f, NEW i, HookDone(f, i)
  PROVE  \E n \in 1..Len(wal') : /\ wal'[n].skill = Deps[f.skill][i]
                                 /\ wal'[n].parent = f.wal
                                 /\ wal'[n].status = "completed"
BY DEF HooksStay, HookDone

(* A frame that stays, with the call above it, has seen the same hooks. *)
LEMMA SeenStays ==
  ASSUME HooksStay, NEW e \in Execs, NEW k \in 1..Len(frames[e]), HooksSeen(e, k),
         frames'[e][k] = frames[e][k],
         \A i \in PreDeps(frames[e][k]) : Awaited(e, k, i) =>
           \/ HookDone(frames[e][k], i)'
           \/ k < Len(frames'[e]) /\ frames'[e][k + 1].skill = Deps[frames[e][k].skill][i]
           \/ k = Len(frames'[e]) /\ ret'[e] = "threw"
  PROVE  HooksSeen(e, k)'
<1> DEFINE f == frames[e][k]
<1> SUFFICES ASSUME f.skill \in PreBlocks, NEW i \in 1..Len(Deps[f.skill]),
                    Deps[f.skill][i] \in registered', Autonomy[Deps[f.skill][i]] = "AUTO_PRE",
                    f.pc = "pre" => i < f.next
             PROVE  HookDone(frames[e][k], i)' \/ Awaited(e, k, i)'
  BY DEF HooksSeen, PreDeps
<1>1. i \in PreDeps(f) /\ (HookDone(f, i) \/ Awaited(e, k, i))
  BY DEF HooksSeen, PreDeps, HooksStay
<1>2. CASE HookDone(f, i)
  <2>1. \E n \in 1..Len(wal') : /\ wal'[n].skill = Deps[f.skill][i]
                                /\ wal'[n].parent = f.wal
                                /\ wal'[n].status = "completed"
    BY <1>2, DoneStays
  <2>2. HookDone(frames[e][k], i)'
    BY <2>1 DEF HookDone
  <2> QED BY <2>2
<1>3. CASE Awaited(e, k, i)
  BY <1>1, <1>3 DEF Awaited
<1> QED BY <1>1, <1>2, <1>3

(* An execution whose stack and answer stay has seen the same hooks. *)
LEMMA OthersStay ==
  ASSUME HooksStay, HooksInv, NEW e \in Execs, frames'[e] = frames[e], ret'[e] = ret[e]
  PROVE  \A k \in 1..Len(frames'[e]) : HooksSeen(e, k)'
<1> SUFFICES ASSUME NEW k \in 1..Len(frames[e]) PROVE HooksSeen(e, k)'
  OBVIOUS
<1>1. HooksSeen(e, k)
  BY DEF HooksInv
<1> QED BY <1>1, SeenStays DEF Awaited

(* A call whose innermost frame moves past its hooks, or on, has seen them all. *)
LEMMA TopMoves ==
  ASSUME TypeOK, HooksStay, HooksInv, NEW e \in Execs, frames[e] # <<>>, NEW g \in Frame,
         frames' = WithTop(e, g), g.skill = Top(e).skill, g.wal = Top(e).wal, g.pc # "pre",
         \A f \in Execs : f # e => ret'[f] = ret[f],
         g.skill \in PreBlocks => \A i \in PreDeps(g) : HookDone(g, i)
  PROVE  HooksInv'
<1> DEFINE n == Len(frames[e])
<1>1. /\ n \in Nat \ {0} /\ frames[e][n] = Top(e)
      /\ Len(frames'[e]) = n
      /\ \A k \in 1..n : frames'[e][k] = IF k = n THEN g ELSE frames[e][k]
  <2>1. frames'[e] = Append(Below(e), g)
    BY DEF WithTop, TypeOK
  <2>2. /\ Len(Append(Below(e), g)) = n
        /\ \A k \in 1..n : Append(Below(e), g)[k] = IF k = n THEN g ELSE frames[e][k]
    BY ReplacedTop
  <2>3. n \in Nat \ {0} /\ frames[e][n] = Top(e)
    BY StackParts DEF Top
  <2> QED BY <2>1, <2>2, <2>3
<1> HIDE DEF n
<1>2. ASSUME NEW f \in Execs, f # e, NEW k \in 1..Len(frames'[f])
      PROVE  HooksSeen(f, k)'
  <2>1. frames'[f] = frames[f] /\ ret'[f] = ret[f]
    BY <1>2 DEF WithTop, TypeOK
  <2> QED BY <1>2, <2>1, OthersStay
<1>3. ASSUME NEW k \in 1..n, k # n
      PROVE  HooksSeen(e, k)'
  <2>1. k \in 1..Len(frames[e]) /\ HooksSeen(e, k)
    BY <1>3 DEF HooksInv, n
  <2>2. frames'[e][k] = frames[e][k] /\ k < Len(frames'[e]) /\ k + 1 \in 1..n
    BY <1>1, <1>3
  <2>3. frames'[e][k + 1].skill = frames[e][k + 1].skill
    BY <1>1, <2>2
  <2>4. k # Len(frames[e])
    BY <1>3 DEF n
  <2> QED BY <2>1, <2>2, <2>3, <2>4, SeenStays DEF Awaited
<1>4. ASSUME NEW k \in 1..n, k = n
      PROVE  HooksSeen(e, k)'
  <2> SUFFICES ASSUME g.skill \in PreBlocks, NEW i \in 1..Len(Deps[g.skill]),
                      Deps[g.skill][i] \in registered', Autonomy[Deps[g.skill][i]] = "AUTO_PRE"
               PROVE  \E m \in 1..Len(wal') : /\ wal'[m].skill = Deps[g.skill][i]
                                              /\ wal'[m].parent = g.wal
                                              /\ wal'[m].status = "completed"
    <3>1. frames'[e][k] = g
      BY <1>1, <1>4
    <3> QED BY <3>1 DEF HooksSeen, PreDeps, HookDone
  <2>1. HookDone(g, i)
    BY DEF PreDeps, HooksStay
  <2> QED BY <2>1, DoneStays
<1>5. \A f \in Execs : \A k \in 1..Len(frames'[f]) : HooksSeen(f, k)'
  BY <1>1, <1>2, <1>3, <1>4
<1> QED BY <1>5 DEF HooksInv

(* A call that ends answers the hook its caller waits for, by its entry or by
   what it throws. *)
LEMMA CallSettles ==
  ASSUME TypeOK, StacksAscend, LogFollowsStacks, HooksStay, HooksInv,
         NEW e \in Execs, frames[e] # <<>>, Fail(e) \/ Succeed(e)
  PROVE  HooksInv'
<1> DEFINE n == Len(frames[e])
<1>1. /\ n \in Nat \ {0} /\ frames[e][n] = Top(e) /\ n \in 1..Len(frames[e])
      /\ frames'[e] = Below(e) /\ Len(frames'[e]) = n - 1
      /\ \A k \in 1..(n - 1) : frames'[e][k] = frames[e][k]
  BY StackParts DEF Top, Fail, Succeed, Settle, TypeOK
<1>2. \A f \in Execs : f # e => frames'[f] = frames[f] /\ ret'[f] = ret[f]
  BY DEF Fail, Succeed, Settle, TypeOK
<1> HIDE DEF n
<1>3. n > 1 => /\ wal[Top(e).wal].parent = frames[e][n - 1].wal
               /\ wal[Top(e).wal].skill = Top(e).skill
  <2>1. Logged(e, frames[e], n, wal)
    BY <1>1 DEF LogFollowsStacks, Logged
  <2> QED BY <1>1, <2>1 DEF Logged
<1>4. ASSUME NEW k \in 1..(n - 1)
      PROVE  HooksSeen(e, k)'
  <2>1. k \in 1..Len(frames[e]) /\ HooksSeen(e, k) /\ frames'[e][k] = frames[e][k]
    BY <1>1, <1>4 DEF HooksInv, n
  <2>2. ASSUME k # n - 1, NEW i, Awaited(e, k, i)
        PROVE  k < Len(frames'[e]) /\ frames'[e][k + 1].skill = Deps[frames[e][k].skill][i]
    <3>1. k + 1 \in 1..(n - 1)
      BY <1>1, <1>4, <2>2
    <3>2. frames'[e][k + 1] = frames[e][k + 1] /\ k < n - 1 /\ k # Len(frames[e])
      BY <1>1, <3>1 DEF n
    <3> QED BY <1>1, <2>2, <3>2 DEF Awaited
  <2>3. ASSUME k = n - 1, NEW i, Awaited(e, k, i)
        PROVE  HookDone(frames[e][k], i)' \/ (k = Len(frames'[e]) /\ ret'[e] = "threw")
    <3>1. Top(e).skill = Deps[frames[e][k].skill][i]
      <4>1. k # Len(frames[e]) /\ frames[e][k + 1] = Top(e)
        BY <1>1, <2>3 DEF n
      <4> QED BY <2>3, <4>1 DEF Awaited
    <3>2. CASE Fail(e)
      BY <1>1, <2>3, <3>2 DEF Fail, Settle, TypeOK
    <3>3. CASE Succeed(e)
      <4> DEFINE t == Top(e).wal
      <4>1. t \in 1..Len(wal)
        BY <1>1 DEF StacksAscend
      <4>2. wal' = [wal EXCEPT ![t].status = "completed"]
        BY <3>3 DEF Succeed, Settle
      <4> HIDE DEF t
      <4>3. /\ Len(wal') = Len(wal) /\ wal'[t].parent = wal[t].parent
            /\ wal'[t].skill = wal[t].skill /\ wal'[t].status = "completed"
        BY <4>1, <4>2, ClosedEntry
      <4>4. n > 1
        BY <1>1, <1>4
      <4>5. wal[t].parent = frames[e][k].wal /\ wal[t].skill = Deps[frames[e][k].skill][i]
        BY <1>3, <2>3, <3>1, <4>4 DEF t
      <4>6. HookDone(frames[e][k], i)'
        BY <2>1, <4>1, <4>3, <4>5 DEF HookDone
      <4> QED BY <4>6
    <3> QED BY <3>2, <3>3
  <2> QED BY <2>1, <2>2, <2>3, SeenStays
<1>5. ASSUME NEW f \in Execs, f # e, NEW k \in 1..Len(frames'[f])
      PROVE  HooksSeen(f, k)'
  BY <1>2, <1>5, OthersStay
<1>6. \A f \in Execs : \A k \in 1..Len(frames'[f]) : HooksSeen(f, k)'
  BY <1>1, <1>4, <1>5
<1> QED BY <1>6 DEF HooksInv

(* A call that is entered is the hook that its caller awaits; one that is refused
   throws into it. *)
LEMMA EnterSeen ==
  ASSUME TypeOK, HooksStay, HooksInv, NEW e \in Execs, NEW s \in Skills, NEW st \in Seq(Frame),
         Enter(e, s, st),
         Len(st) = Len(frames[e]),
         \A k \in 1..Len(st) : k # Len(st) =>
           st[k] = frames[e][k] /\ st[k + 1].skill = frames[e][k + 1].skill,
         \A k \in 1..Len(st) : k = Len(st) /\ st[k].skill \in PreBlocks =>
          \A i \in PreDeps(st[k]) :
           (st[k].pc = "pre" => i < st[k].next) =>
             \/ HookDone(st[k], i)
             \/ st[k].pc = "pre" /\ i + 1 = st[k].next /\ s = Deps[st[k].skill][i]
  PROVE  HooksInv'
<1>1. /\ Len(st) \in Nat
      /\ \/ frames'[e] = st /\ ret'[e] = "threw"
         \/ frames'[e] = Append(st, NewFrame(s))
      /\ \A f \in Execs : f # e => frames'[f] = frames[f] /\ ret'[f] = ret[f]
  BY LenProperties DEF Enter, Refuse, TypeOK
<1>2. /\ Len(Append(st, NewFrame(s))) = Len(st) + 1
      /\ \A k \in 1..Len(st) : Append(st, NewFrame(s))[k] = st[k]
      /\ Append(st, NewFrame(s))[Len(st) + 1] = NewFrame(s)
  <2>1. NewFrame(s) \in Frame
    BY NewTypes
  <2> QED BY <2>1, AppendProperties
<1>3. /\ \A k \in 1..Len(st) : frames'[e][k] = st[k]
      /\ \/ Len(frames'[e]) = Len(st) /\ ret'[e] = "threw"
         \/ /\ Len(frames'[e]) = Len(st) + 1
            /\ frames'[e][Len(st) + 1] = NewFrame(s)
  BY <1>1, <1>2
<1>4. NewFrame(s).skill = s /\ NewFrame(s).pc = "pre" /\ NewFrame(s).next = 1
  BY DEF NewFrame
<1>5. ASSUME NEW k \in 1..Len(st), k # Len(st)
      PROVE  HooksSeen(e, k)'
  <2>1. k \in 1..Len(frames[e]) /\ HooksSeen(e, k) /\ frames'[e][k] = frames[e][k]
    BY <1>3, <1>5 DEF HooksInv
  <2>2. k + 1 \in 1..Len(st) /\ k < Len(frames'[e]) /\ k # Len(frames[e])
    BY <1>1, <1>3, <1>5
  <2>3. frames'[e][k + 1].skill = frames[e][k + 1].skill
    BY <1>3, <1>5, <2>2
  <2> QED BY <2>1, <2>2, <2>3, SeenStays DEF Awaited
<1>6. ASSUME NEW k \in 1..Len(st), k = Len(st)
      PROVE  HooksSeen(e, k)'
  <2> DEFINE f == st[k]
  <2>1. frames'[e][k] = f
    BY <1>3
  <2> HIDE DEF f
  <2> SUFFICES ASSUME f.skill \in PreBlocks, NEW i \in 1..Len(Deps[f.skill]),
                      Deps[f.skill][i] \in registered', Autonomy[Deps[f.skill][i]] = "AUTO_PRE",
                      f.pc = "pre" => i < f.next
               PROVE  HookDone(frames[e][k], i)' \/ Awaited(e, k, i)'
    BY <2>1 DEF HooksSeen, PreDeps
  <2>2. i \in PreDeps(f)
    BY DEF PreDeps, HooksStay
  <2>3. HookDone(f, i) \/ (f.pc = "pre" /\ i + 1 = f.next /\ s = Deps[f.skill][i])
    BY <1>6, <2>2 DEF f
  <2>4. CASE HookDone(f, i)
    <3>1. \E n \in 1..Len(wal') : /\ wal'[n].skill = Deps[f.skill][i]
                                  /\ wal'[n].parent = f.wal
                                  /\ wal'[n].status = "completed"
      BY <2>4, DoneStays
    <3>2. HookDone(frames[e][k], i)'
      BY <2>1, <3>1 DEF HookDone
    <3> QED BY <3>2
  <2>5. CASE f.pc = "pre" /\ i + 1 = f.next /\ s = Deps[f.skill][i]
    <3>1. \/ k = Len(frames'[e]) /\ ret'[e] = "threw"
          \/ k < Len(frames'[e]) /\ frames'[e][k + 1].skill = s
      BY <1>1, <1>3, <1>4, <1>6
    <3>2. Awaited(e, k, i)'
      BY <2>1, <2>5, <3>1 DEF Awaited
    <3> QED BY <3>2
  <2> QED BY <2>3, <2>4, <2>5
<1>7. ASSUME NEW k \in 1..Len(frames'[e]), k \notin 1..Len(st)
      PROVE  HooksSeen(e, k)'
  <2>1. frames'[e][k] = NewFrame(s)
    BY <1>1, <1>3, <1>7
  <2>2. /\ frames'[e][k].pc = "pre" /\ frames'[e][k].next = 1 /\ frames'[e][k].skill = s
    BY <2>1, <1>4
  <2> QED BY <2>2 DEF HooksSeen, PreDeps
<1>8. ASSUME NEW f \in Execs, f # e, NEW k \in 1..Len(frames'[f])
      PROVE  HooksSeen(f, k)'
  BY <1>1, <1>8, OthersStay
<1>9. \A f \in Execs : \A k \in 1..Len(frames'[f]) : HooksSeen(f, k)'
  BY <1>5, <1>6, <1>7, <1>8
<1> QED BY <1>9 DEF HooksInv

(* The first call of an execution has seen no hooks. *)
LEMMA StartSeen ==
  ASSUME TypeOK, HooksStay, HooksInv, NEW e \in Execs, frames[e] = <<>>, Start(e)
  PROVE  HooksInv'
<1>1. <<>> \in Seq(Frame) /\ Len(<<>>) = Len(frames[e]) /\ 1..Len(<<>>) = {}
  BY EmptySeq
<1>2. Enter(e, Root[e], <<>>) /\ Root[e] \in Skills
  BY EngineConfig DEF Start
<1> QED BY <1>1, <1>2, EnterSeen

(* executeHooks calls the next hook there is; it has seen those before it. *)
LEMMA CallHookSeen ==
  ASSUME TypeOK, HooksStay, HooksInv, NEW e \in Execs, CallHook(e)
  PROVE  HooksInv'
<1> DEFINE f == Top(e)
           n == Len(frames[e])
<1>1. PICK i \in HooksLeft(f) :
        /\ \A j \in HooksLeft(f) : i <= j
        /\ Enter(e, Deps[f.skill][i], Append(Below(e), [f EXCEPT !.next = i + 1]))
  BY DEF CallHook
<1>2. /\ frames[e] # <<>> /\ ret[e] = "none" /\ f.pc \in {"pre", "post"}
  BY DEF CallHook, Ready
<1>3. n \in Nat \ {0} /\ f \in Frame /\ f = frames[e][n]
  BY <1>2, StackParts DEF Top
<1>4. /\ f.skill \in Skills /\ f.next \in Nat \ {0} /\ Deps[f.skill] \in Seq(Skills)
      /\ Len(Deps[f.skill]) \in Nat
  BY <1>3, EngineConfig, LenProperties DEF Frame
<1>5. i \in 1..Len(Deps[f.skill]) /\ f.next <= i /\ Deps[f.skill][i] \in Skills
  <2>1. i \in 1..Len(Deps[f.skill]) /\ f.next <= i
    BY <1>4 DEF HooksLeft
  <2> QED BY <1>4, <2>1, ElementOfSeq
<1> DEFINE g == [f EXCEPT !.next = i + 1]
<1>6. /\ g \in Frame /\ g.skill = f.skill /\ g.wal = f.wal /\ g.pc = f.pc /\ g.next = i + 1
  BY SMTT(30), <1>3, <1>5 DEF Frame
<1> HIDE DEF g
<1> DEFINE st == Append(Below(e), g)
<1>7. /\ st \in Seq(Frame) /\ Len(st) = n
      /\ \A k \in 1..n : st[k] = IF k = n THEN g ELSE frames[e][k]
  BY <1>2, <1>6, ReplacedTop
<1>8. Enter(e, Deps[f.skill][i], st)
  BY <1>1 DEF g
<1> HIDE DEF st
<1>9. ASSUME NEW k \in 1..Len(st), k # Len(st)
      PROVE  st[k] = frames[e][k] /\ st[k + 1].skill = frames[e][k + 1].skill
  <2>1. k + 1 \in 1..n /\ k # n
    BY <1>3, <1>7, <1>9
  <2> QED BY <1>3, <1>6, <1>7, <2>1
<1>10. ASSUME f.skill \in PreBlocks, NEW j \in PreDeps(f), f.pc = "pre" => j < i + 1
       PROVE  HookDone(f, j) \/ (f.pc = "pre" /\ j + 1 = i + 1)
  <2>1. j \in 1..Len(Deps[f.skill]) /\ Deps[f.skill][j] \in registered
        /\ Autonomy[Deps[f.skill][j]] = "AUTO_PRE"
    BY DEF PreDeps
  <2>2. CASE f.pc = "pre" => j < f.next
    <3>1. HooksSeen(e, n) /\ f = frames[e][n]
      BY <1>3 DEF HooksInv
    <3>2. ~Awaited(e, n, j)
      BY <1>2, <1>3 DEF Awaited
    <3> QED BY <1>10, <2>2, <3>1, <3>2 DEF HooksSeen
  <2>3. CASE f.pc = "pre" /\ ~(j < f.next)
    <3>1. j \in HooksLeft(f)
      BY <1>4, <2>1, <2>3 DEF HooksLeft, HookKind
    <3>2. i <= j /\ j < i + 1
      BY <1>1, <1>10, <2>3, <3>1
    <3> QED BY <1>5, <2>1, <2>3, <3>2
  <2> QED BY <2>2, <2>3
<1>11. \A j \in PreDeps(g) : j \in PreDeps(f) /\ (HookDone(f, j) => HookDone(g, j))
  BY <1>6 DEF PreDeps, HookDone
<1>12. ASSUME NEW k \in 1..Len(st), k = Len(st), st[k].skill \in PreBlocks,
              NEW j \in PreDeps(st[k]), st[k].pc = "pre" => j < st[k].next
       PROVE  \/ HookDone(st[k], j)
              \/ st[k].pc = "pre" /\ j + 1 = st[k].next /\ Deps[f.skill][i] = Deps[st[k].skill][j]
  <2>1. st[k] = g
    BY <1>7, <1>12
  <2>2. HookDone(f, j) \/ (f.pc = "pre" /\ j + 1 = i + 1)
    BY <1>6, <1>10, <1>11, <1>12, <2>1
  <2>3. j + 1 = i + 1 => j = i
    BY <1>5, <1>11, <1>12, <2>1 DEF PreDeps
  <2> QED BY <1>6, <1>11, <1>12, <2>1, <2>2, <2>3
<1>13. Len(st) = Len(frames[e])
  BY <1>7
<1> DEFINE s == Deps[f.skill][i]
<1>14. s \in Skills /\ Enter(e, s, st)
  BY <1>5, <1>8
<1>15. \A k \in 1..Len(st) : k # Len(st) =>
         st[k] = frames[e][k] /\ st[k + 1].skill = frames[e][k + 1].skill
  BY <1>9
<1>16. \A k \in 1..Len(st) : k = Len(st) /\ st[k].skill \in PreBlocks =>
        \A j \in PreDeps(st[k]) :
         (st[k].pc = "pre" => j < st[k].next) =>
           \/ HookDone(st[k], j)
           \/ st[k].pc = "pre" /\ j + 1 = st[k].next /\ s = Deps[st[k].skill][j]
  BY <1>12
<1> HIDE DEF s, f, n
<1> QED BY <1>7, <1>13, <1>14, <1>15, <1>16, EnterSeen

(* A handler starts when there is no hook left, and none that failed. *)
LEMMA HandlerStartSeen ==
  ASSUME TypeOK, HooksStay, HooksInv, NEW e \in Execs, StartHandler(e)
  PROVE  HooksInv'
<1> DEFINE f == Top(e)
           n == Len(frames[e])
           g == [f EXCEPT !.pc = "run"]
<1>1. frames[e] # <<>> /\ ret[e] = "none" /\ ret' = ret /\ frames' = WithTop(e, g)
  BY DEF StartHandler, Ready
<1>2. n \in Nat \ {0} /\ f \in Frame /\ f = frames[e][n]
  BY <1>1, StackParts DEF Top
<1>3. g \in Frame /\ g.skill = f.skill /\ g.wal = f.wal /\ g.pc = "run"
  BY <1>2, FramePc DEF Frame
<1>4. f.next \in Nat \ {0} /\ Len(Deps[f.skill]) \in Nat
  BY <1>2, EngineConfig, LenProperties DEF Frame
<1>5. ASSUME f.skill \in PreBlocks, NEW j \in PreDeps(f)
      PROVE  HookDone(f, j)
  <2>1. j \in 1..Len(Deps[f.skill]) /\ Deps[f.skill][j] \in registered
        /\ Autonomy[Deps[f.skill][j]] = "AUTO_PRE"
    BY DEF PreDeps
  <2>2. f.pc = "pre" => j < f.next
    <3>1. f.pc = "pre" => j \notin HooksLeft(f)
      BY DEF StartHandler
    <3> QED BY <1>4, <2>1, <3>1 DEF HooksLeft, HookKind
  <2>3. HooksSeen(e, n) /\ f = frames[e][n]
    BY <1>2 DEF HooksInv
  <2>4. ~Awaited(e, n, j)
    BY <1>1, <1>2 DEF Awaited
  <2> QED BY <1>5, <2>2, <2>3, <2>4 DEF HooksSeen
<1>6. g.skill \in PreBlocks => \A j \in PreDeps(g) : HookDone(g, j)
  BY <1>3, <1>5 DEF PreDeps, HookDone
<1> HIDE DEF g, f
<1>7. g.skill = Top(e).skill /\ g.wal = Top(e).wal
  BY <1>3 DEF f
<1> QED BY <1>1, <1>3, <1>6, <1>7, TopMoves

(* The hooks of a call past them stay done while its handler is at work. *)
LEMMA HandlerSeen ==
  ASSUME TypeOK, HooksStay, HooksInv, NEW e \in Execs, frames[e] # <<>>, Top(e).pc # "pre",
         NEW g \in Frame, frames' = WithTop(e, g), g.skill = Top(e).skill, g.wal = Top(e).wal,
         g.pc # "pre", ret' = ret
  PROVE  HooksInv'
<1> DEFINE n == Len(frames[e])
<1>1. HooksSeen(e, n) /\ Top(e) = frames[e][n]
  BY StackParts DEF HooksInv, Top
<1>2. g.skill \in PreBlocks => \A j \in PreDeps(g) : HookDone(g, j)
  BY <1>1 DEF HooksSeen, Awaited, PreDeps, HookDone
<1> QED BY <1>2, TopMoves

(* Every step keeps what is known of the hooks. *)
LEMMA HooksKept ==
  ASSUME TypeOK, PhasesMatch, StacksAscend, LogFollowsStacks, HooksInv, [Next]_vars
  PROVE  HooksInv'
<1>1. HooksStay
  BY HooksAreStable
<1>2. CASE frames' = frames /\ ret' = ret
  <2>1. \A e \in Execs : \A k \in 1..Len(frames'[e]) : HooksSeen(e, k)'
    BY <1>1, <1>2, OthersStay
  <2> QED BY <2>1 DEF HooksInv
<1>3. ASSUME NEW e \in Execs, Start(e) PROVE HooksInv'
  BY <1>1, <1>3, StartSeen DEF PhasesMatch, Start
<1>4. ASSUME NEW e \in Execs, CallHook(e) PROVE HooksInv'
  BY <1>1, <1>4, CallHookSeen
<1>5. ASSUME NEW e \in Execs, PreHookThrew(e) PROVE HooksInv'
  <2>1. frames[e] # <<>> /\ Top(e) \in Frame
    BY <1>5, StackParts DEF PreHookThrew, InPc
  <2>2. CASE Top(e).skill \in PreBlocks
    BY <1>1, <1>5, <2>1, <2>2, CallSettles DEF PreHookThrew
  <2>3. CASE Top(e).skill \notin PreBlocks
    <3> DEFINE g == [Top(e) EXCEPT !.pc = "run"]
    <3>1. g \in Frame /\ g.skill = Top(e).skill /\ g.wal = Top(e).wal /\ g.pc = "run"
      BY <2>1, FramePc DEF Frame
    <3>2. /\ frames' = WithTop(e, g)
          /\ \A f \in Execs : f # e => ret'[f] = ret[f]
      BY <1>5, <2>3 DEF PreHookThrew, TypeOK
    <3> HIDE DEF g
    <3> QED BY <1>1, <2>1, <2>3, <3>1, <3>2, TopMoves
  <2> QED BY <2>2, <2>3
<1>6. ASSUME NEW e \in Execs, PostHookThrew(e) \/ FinishCall(e) PROVE HooksInv'
  BY <1>1, <1>6, CallSettles DEF PostHookThrew, FinishCall, InPc, Ready
<1>7. ASSUME NEW e \in Execs, StartHandler(e) PROVE HooksInv'
  BY <1>1, <1>7, HandlerStartSeen
<1>8. ASSUME NEW e \in Execs, NEW r \in Results, HandlerReturns(e, r) PROVE HooksInv'
  <2> DEFINE g == [Top(e) EXCEPT !.pc = "post", !.next = 1, !.result = r]
  <2>1. frames[e] # <<>> /\ Top(e).pc = "run" /\ Top(e) \in Frame /\ ret' = ret
        /\ frames' = WithTop(e, g)
    BY <1>8, StackParts DEF HandlerReturns, Ready
  <2>2. g \in Frame /\ g.skill = Top(e).skill /\ g.wal = Top(e).wal /\ g.pc = "post"
    BY <2>1, FrameResult, FrameFollows
  <2> HIDE DEF g
  <2> QED BY <1>1, <2>1, <2>2, HandlerSeen
<1>9. ASSUME NEW e \in Execs, HandlerThrows(e) \/ HandlerTimesOut(e) PROVE HooksInv'
  <2> DEFINE g == [Top(e) EXCEPT !.pc = "backoff", !.attempt = @ + 1]
  <2>1. /\ frames[e] # <<>> /\ Top(e).pc = "run" /\ Top(e) \in Frame
        /\ Fail(e) \/ (frames' = WithTop(e, g) /\ ret' = ret)
    BY <1>9, StackParts DEF HandlerThrows, HandlerTimesOut, AttemptFails, Ready
  <2>2. g \in Frame /\ g.skill = Top(e).skill /\ g.wal = Top(e).wal
    BY <2>1, FrameRetry
  <2>3. g.pc = "backoff"
    BY <2>1 DEF Frame
  <2> HIDE DEF g
  <2> QED BY <1>1, <2>1, <2>2, <2>3, HandlerSeen, CallSettles
<1>10. ASSUME NEW e \in Execs, ReturnResult(e) \/ Rethrow(e) \/ CompensateStep(e)
       PROVE  HooksInv'
  BY <1>2, <1>10 DEF ReturnResult, Rethrow, CompensateStep
<1>11. ASSUME NEW r \in late, LateRunEnds(r) PROVE HooksInv'
  BY <1>2, <1>11 DEF LateRunEnds
<1>12. ASSUME NEW s \in Skills, Unregister(s) PROVE HooksInv'
  BY <1>2, <1>12 DEF Unregister
<1>13. CASE UNCHANGED vars
  BY <1>2, <1>13 DEF vars
<1> QED
  BY <1>3, <1>4, <1>5, <1>6, <1>7, <1>8, <1>9, <1>10, <1>11, <1>12, <1>13
  DEF Next, EngineStep, HandlerStep

(* No handler runs, is retried or has run before every AUTO_PRE hook of its skill
   that is still registered has returned, be it {success: false}, unless the skill
   lets it. *)
THEOREM HooksBlock == Spec => []BlockingHooksReturned
<1>1. Init => HooksInv
  BY EmptySeq DEF Init, HooksInv
<1>2. TypeOK /\ PhasesMatch /\ StacksAscend /\ LogFollowsStacks /\ HooksInv /\ [Next]_vars
      => HooksInv'
  BY HooksKept
<1>3. HooksInv => BlockingHooksReturned
  <2> SUFFICES ASSUME HooksInv, NEW e \in Execs, NEW k \in 1..Len(frames[e])
               PROVE  frames[e][k].pc # "pre" /\ frames[e][k].skill \in PreBlocks =>
                        \A d \in {Deps[frames[e][k].skill][i] :
                                   i \in 1..Len(Deps[frames[e][k].skill])} :
                          d \in registered /\ Autonomy[d] = "AUTO_PRE" =>
                            \E n \in 1..Len(wal) : /\ wal[n].skill = d
                                                   /\ wal[n].parent = frames[e][k].wal
                                                   /\ wal[n].status = "completed"
    BY Zenon DEF BlockingHooksReturned
  <2> SUFFICES ASSUME frames[e][k].pc # "pre", frames[e][k].skill \in PreBlocks,
                      NEW d, d \in registered, Autonomy[d] = "AUTO_PRE",
                      NEW i \in 1..Len(Deps[frames[e][k].skill]),
                      d = Deps[frames[e][k].skill][i]
               PROVE  \E n \in 1..Len(wal) : /\ wal[n].skill = d
                                             /\ wal[n].parent = frames[e][k].wal
                                             /\ wal[n].status = "completed"
    BY Zenon
  <2>1. HooksSeen(e, k) /\ ~Awaited(e, k, i) /\ i \in PreDeps(frames[e][k])
    BY DEF HooksInv, Awaited, PreDeps
  <2>2. HookDone(frames[e][k], i)
    BY <2>1 DEF HooksSeen
  <2> QED BY <2>2 DEF HookDone
<1> QED BY <1>1, <1>2, <1>3, TypesAndPhases, LogAndStacks, PTL DEF Spec
-----------------------------------------------------------------------------
(* Each execution is a saga *)

\* As SagaOf, which the runs check, but for the set of steps: that one is as small
\* as the limits allow, so that it can be enumerated.
AnySagaOf(e) == INSTANCE Saga WITH Steps  <- Runs,
                                   mode   <- SagaMode(e),
                                   log    <- completed[e],
                                   undone <- UndoneBy(e)

(* What the mode of an execution is. *)
LEMMA Modes ==
  ASSUME TypeOK, NEW e \in Execs
  PROVE  /\ phase[e] \in {"idle", "running"} => SagaMode(e) = "open"
         /\ phase[e] \in Results => SagaMode(e) = "committed"
         /\ phase[e] = "compensating" => SagaMode(e) = "aborting"
         /\ phase[e] = "failed" => SagaMode(e) = "aborted"
BY DEF SagaMode, Results

(* The steps that were undone are the same if no run's end becomes "undone". *)
LEMMA SameUndone ==
  ASSUME TypeOK, PhasesMatch, RunInv, [Next]_vars, NEW e \in Execs,
         DOMAIN fate \subseteq DOMAIN fate',
         \A r \in DOMAIN fate : fate'[r] = fate[r] \/ (Owner(r) # e),
         \A r \in DOMAIN fate' \ DOMAIN fate : fate'[r] # "undone"
  PROVE  UndoneBy(e)' = UndoneBy(e)
<1>1. ASSUME NEW r \in DOMAIN fate
      PROVE  wal'[r[1]].exec = wal[r[1]].exec
  BY RunsKeepOwner DEF Taken, Owner
<1> QED BY <1>1 DEF UndoneBy, Owner

(* A step of the engine that is none of an execution's saga. *)
LEMMA SagaStutters ==
  ASSUME NEW e \in Execs, SagaMode(e)' = SagaMode(e), completed'[e] = completed[e],
         UndoneBy(e)' = UndoneBy(e)
  PROVE  [AnySagaOf(e)!Next]_(AnySagaOf(e)!vars)
BY DEF AnySagaOf!vars

(* The modes change with the phases: an execution is committed or aborted by its
   end and by nothing before. *)
LEMMA PhaseSteps ==
  ASSUME TypeOK, PhasesMatch, [Next]_vars, NEW e \in Execs
  PROVE  \/ SagaMode(e)' = SagaMode(e)
         \/ /\ SagaMode(e) = "open" /\ SagaMode(e)' = "committed"
            /\ UNCHANGED <<fate, completed>>
         \/ /\ SagaMode(e) = "open"
            /\ SagaMode(e)' = IF completed[e] = <<>> THEN "aborted" ELSE "aborting"
            /\ UNCHANGED <<fate, completed>>
         \/ CompensateStep(e)
<1>1. CASE phase'[e] = phase[e]
  BY <1>1 DEF SagaMode
<1>2. CASE Start(e)
  <2>1. phase[e] = "idle" /\ phase'[e] = "running"
    BY <1>2 DEF Start, TypeOK
  <2> QED BY <2>1 DEF SagaMode, Results
<1>3. CASE ReturnResult(e)
  <2>1. phase[e] = "running" /\ phase'[e] \in Results /\ UNCHANGED <<fate, completed>>
    BY <1>3 DEF ReturnResult, TypeOK
  <2>2. SagaMode(e) = "open"
    BY <2>1, Modes
  <2>3. SagaMode(e)' = "committed"
    BY <2>1 DEF SagaMode, Results
  <2> QED BY <2>1, <2>2, <2>3
<1>4. CASE Rethrow(e)
  <2>1. /\ phase[e] = "running" /\ UNCHANGED <<fate, completed>>
        /\ phase'[e] = IF completed[e] = <<>> THEN "failed" ELSE "compensating"
    BY <1>4 DEF Rethrow, TypeOK
  <2>2. SagaMode(e) = "open"
    BY <2>1, Modes
  <2>3. completed[e] = <<>> => SagaMode(e)' = "aborted"
    BY <2>1 DEF SagaMode, Results
  <2>4. completed[e] # <<>> => SagaMode(e)' = "aborting"
    BY <2>1 DEF SagaMode, Results
  <2>5. SagaMode(e)' = IF completed[e] = <<>> THEN "aborted" ELSE "aborting"
    BY <2>3, <2>4
  <2> QED BY <2>1, <2>2, <2>5
<1>5. ASSUME NEW f \in Execs, f # e,
             Start(f) \/ ReturnResult(f) \/ Rethrow(f) \/ CompensateStep(f)
      PROVE  phase'[e] = phase[e]
  <2>1. \E p : phase' = [phase EXCEPT ![f] = p]
    BY <1>5 DEF Start, ReturnResult, Rethrow, CompensateStep
  <2> QED BY <1>5, <2>1 DEF TypeOK
<1>6. ASSUME NEW f \in Execs, EngineStep(f) \/ HandlerStep(f)
      PROVE  phase' = phase \/ Start(f) \/ ReturnResult(f) \/ Rethrow(f) \/ CompensateStep(f)
  BY <1>6 DEF EngineStep, HandlerStep, CallHook, PreHookThrew, PostHookThrew, StartHandler,
              HandlerTimesOut, FinishCall, HandlerReturns, HandlerThrows
<1>7. (\E f \in Execs : EngineStep(f) \/ HandlerStep(f)) \/ phase' = phase
  BY DEF Next, LateRunEnds, Unregister, vars
<1>8. \/ phase'[e] = phase[e]
      \/ Start(e) \/ ReturnResult(e) \/ Rethrow(e) \/ CompensateStep(e)
  BY <1>5, <1>6, <1>7
<1> QED BY <1>1, <1>2, <1>3, <1>4, <1>8

(* A step that settles no run of the saga ends it, or is none of its steps. *)
LEMMA SagaEnds ==
  ASSUME TypeOK, PhasesMatch, [Next]_vars, NEW e \in Execs, ~CompensateStep(e),
         completed'[e] = completed[e], UndoneBy(e)' = UndoneBy(e)
  PROVE  [AnySagaOf(e)!Next]_(AnySagaOf(e)!vars)
<1>1. CASE SagaMode(e)' = SagaMode(e)
  BY <1>1, SagaStutters
<1>2. CASE SagaMode(e) = "open" /\ SagaMode(e)' = "committed"
  <2>1. AnySagaOf(e)!Commit
    BY <1>2 DEF AnySagaOf!Commit
  <2> QED BY <2>1 DEF AnySagaOf!Next
<1>3. CASE /\ SagaMode(e) = "open"
           /\ SagaMode(e)' = IF completed[e] = <<>> THEN "aborted" ELSE "aborting"
  <2>1. AnySagaOf(e)!Abort
    BY <1>3 DEF AnySagaOf!Abort
  <2> QED BY <2>1 DEF AnySagaOf!Next
<1> QED BY <1>1, <1>2, <1>3, PhaseSteps

(* A handler that answers completes a step that was never logged, of a saga that
   is open. *)
LEMMA SagaCompletes ==
  ASSUME TypeOK, TypeOK', PhasesMatch, StacksAscend, LogFollowsStacks, RunInv, SettleInv,
         [Next]_vars, NEW x \in Execs, NEW r \in Results, HandlerReturns(x, r), NEW e \in Execs
  PROVE  [AnySagaOf(e)!Next]_(AnySagaOf(e)!vars)
<1> DEFINE new == ThisRun(x)
<1>1. new \notin DOMAIN fate /\ new \in Runs
  <2>1. EndsRun(x)
    BY DEF EndsRun
  <2> QED BY <2>1, RunEnds DEF Taken, ThisRun, Runs, Frame
<1>2. /\ phase' = phase /\ phase[x] = "running"
      /\ DOMAIN fate' = DOMAIN fate \cup {new} /\ fate'[new] = "done"
      /\ \A y \in DOMAIN fate : fate'[y] = fate[y]
      /\ completed' = completed \/ completed' = [completed EXCEPT ![x] = Append(@, new)]
  BY <1>1 DEF HandlerReturns, SetFate, Ready
<1> HIDE DEF new
<1>3. UndoneBy(e)' = UndoneBy(e)
  BY <1>2, SameUndone
<1>4. SagaMode(e)' = SagaMode(e)
  BY <1>2 DEF SagaMode
<1>5. CASE completed'[e] = completed[e]
  BY <1>3, <1>4, <1>5, SagaStutters
<1>6. CASE completed'[e] # completed[e]
  <2>1. e = x /\ completed'[e] = Append(completed[e], new)
    BY <1>2, <1>6 DEF TypeOK
  <2>2. SagaMode(e) = "open"
    BY <1>2, <2>1, Modes
  <2>3. new \notin UndoneBy(e)
    BY <1>1 DEF UndoneBy
  <2>4. \A i \in 1..Len(completed[e]) : completed[e][i] # new
    BY <1>1 DEF SettleInv, ListIsDone
  <2>5. AnySagaOf(e)!Complete
    BY <1>1, <1>3, <1>4, <2>1, <2>2, <2>3, <2>4 DEF AnySagaOf!Complete
  <2> QED BY <2>5 DEF AnySagaOf!Next
<1> QED BY <1>5, <1>6

(* A turn of runCompensation undoes the last step of its saga, or gives it up. *)
LEMMA SagaUndoes ==
  ASSUME TypeOK, TypeOK', PhasesMatch, RunInv, SettleInv, [Next]_vars,
         NEW x \in Execs, CompensateStep(x), NEW e \in Execs
  PROVE  [AnySagaOf(e)!Next]_(AnySagaOf(e)!vars)
<1> DEFINE last == completed[x][Len(completed[x])]
<1>1. /\ completed[x] # <<>> /\ Len(completed[x]) \in Nat \ {0}
      /\ completed' = [completed EXCEPT ![x] = SubSeq(@, 1, Len(@) - 1)]
      /\ phase[x] = "compensating" /\ wal' = wal
      /\ phase' = [phase EXCEPT ![x] = IF Len(completed[x]) = 1 THEN "failed" ELSE @]
  BY CompensateShortens DEF CompensateStep, PhasesMatch
<1>2. last \in DOMAIN fate /\ fate[last] = "done" /\ Owner(last) = x
  BY <1>1 DEF SettleInv, ListIsDone
<1>3. /\ DOMAIN fate' = DOMAIN fate /\ fate'[last] \in {"undone", "givenUp"}
      /\ \A r \in DOMAIN fate : r # last => fate'[r] = fate[r]
  BY <1>2 DEF CompensateStep, SetFate, NextToUndo
<1>4. CASE e # x
  <2>1. UndoneBy(e)' = UndoneBy(e)
    BY <1>1, <1>2, <1>3, <1>4 DEF UndoneBy, Owner
  <2>2. SagaMode(e)' = SagaMode(e) /\ completed'[e] = completed[e]
    BY <1>1, <1>4 DEF SagaMode, TypeOK
  <2> QED BY <2>1, <2>2, SagaStutters
<1>5. CASE e = x
  <2>1. UndoneBy(e)' \in {UndoneBy(e), UndoneBy(e) \cup {last}}
    <3> HIDE DEF last
    <3>1. CASE fate'[last] = "undone"
      <4>1. UndoneBy(e)' = UndoneBy(e) \cup {last}
        BY <1>1, <1>2, <1>3, <1>5, <3>1 DEF UndoneBy, Owner
      <4> QED BY <4>1
    <3>2. CASE fate'[last] = "givenUp"
      <4>1. UndoneBy(e)' = UndoneBy(e)
        BY <1>1, <1>2, <1>3, <1>5, <3>2 DEF UndoneBy, Owner
      <4> QED BY <4>1
    <3> QED BY <1>3, <3>1, <3>2
  <2>2. completed'[e] = SubSeq(completed[e], 1, Len(completed[e]) - 1)
    BY <1>1, <1>5 DEF TypeOK
  <2>3. SagaMode(e) = "aborting"
    BY <1>1, <1>5, Modes
  <2>4. SagaMode(e)' = IF Len(completed[e]) = 1 THEN "aborted" ELSE "aborting"
    <3>1. phase'[e] = IF Len(completed[e]) = 1 THEN "failed" ELSE "compensating"
      BY <1>1, <1>5 DEF TypeOK
    <3> QED BY <3>1 DEF SagaMode, Results
  <2>5. AnySagaOf(e)!UndoLast
    BY <1>1, <1>5, <2>1, <2>2, <2>3, <2>4 DEF AnySagaOf!UndoLast
  <2> QED BY <2>5 DEF AnySagaOf!Next
<1> QED BY <1>4, <1>5

(* Every step of the engine is one of each execution's saga, or none. *)
LEMMA SagaKept ==
  ASSUME TypeOK, TypeOK', PhasesMatch, StacksAscend, LogFollowsStacks, RunInv, SettleInv,
         [Next]_vars, NEW e \in Execs
  PROVE  [AnySagaOf(e)!Next]_(AnySagaOf(e)!vars)
<1>1. ASSUME NEW x \in Execs, NEW r \in Results, HandlerReturns(x, r)
      PROVE  [AnySagaOf(e)!Next]_(AnySagaOf(e)!vars)
  BY <1>1, SagaCompletes
<1>2. ASSUME NEW x \in Execs, CompensateStep(x)
      PROVE  [AnySagaOf(e)!Next]_(AnySagaOf(e)!vars)
  BY <1>2, SagaUndoes
<1>3. ASSUME UNCHANGED <<fate, completed>>, ~CompensateStep(e)
      PROVE  [AnySagaOf(e)!Next]_(AnySagaOf(e)!vars)
  <2>1. UndoneBy(e)' = UndoneBy(e)
    BY <1>3, SameUndone
  <2> QED BY <1>3, <2>1, SagaEnds
<1>4. ASSUME NEW r \in late, LateRunEnds(r), ~CompensateStep(e)
      PROVE  [AnySagaOf(e)!Next]_(AnySagaOf(e)!vars)
  <2>1. r \notin DOMAIN fate /\ completed' = completed
    BY <1>4 DEF RunInv, LateRunEnds
  <2>2. /\ DOMAIN fate \subseteq DOMAIN fate'
        /\ \A x \in DOMAIN fate : fate'[x] = fate[x]
        /\ \A x \in DOMAIN fate' \ DOMAIN fate : fate'[x] # "undone"
    BY <1>4, <2>1 DEF LateRunEnds, SetFate
  <2>3. UndoneBy(e)' = UndoneBy(e)
    BY <2>2, SameUndone
  <2> QED BY <1>4, <2>1, <2>3, SagaEnds
<1>5. ASSUME NEW x \in Execs, HandlerTimesOut(x)
      PROVE  UNCHANGED <<fate, completed>>
  BY <1>5 DEF HandlerTimesOut
<1> QED BY <1>1, <1>2, <1>3, <1>4, <1>5, StepKinds DEF EndsNoRun, EndsRun

(* Each execution implements a saga: its steps are logged as they complete, each
   once; then either all stay, or they are undone from the last to the first,
   whatever else runs meanwhile. *)
THEOREM ExecutionsAreSagas ==
  Spec => /\ \A e \in Execs : AnySagaOf(e)!Init
          /\ [][\A e \in Execs : [AnySagaOf(e)!Next]_(AnySagaOf(e)!vars)]_vars
<1> DEFINE SagaInit == \A e \in Execs : AnySagaOf(e)!Init
           Step == \A e \in Execs : [AnySagaOf(e)!Next]_(AnySagaOf(e)!vars)
<1>1. Init => SagaInit
  <2> SUFFICES ASSUME Init, NEW e \in Execs PROVE AnySagaOf(e)!Init
    OBVIOUS
  <2>1. phase[e] = "idle" /\ completed[e] = <<>> /\ DOMAIN fate = {}
    BY DEF Init
  <2>2. SagaMode(e) = "open"
    BY <2>1 DEF SagaMode, Results
  <2>3. UndoneBy(e) = {}
    BY <2>1 DEF UndoneBy
  <2> QED BY <2>1, <2>2, <2>3 DEF AnySagaOf!Init
<1>2. /\ TypeOK /\ TypeOK' /\ PhasesMatch /\ StacksAscend /\ LogFollowsStacks
      /\ RunInv /\ SettleInv /\ [Next]_vars
      => [Step]_vars
  BY SagaKept
<1> HIDE DEF SagaInit, Step
<1>3. Spec => SagaInit /\ [][Step]_vars
  BY <1>1, <1>2, TypesAndPhases, LogAndStacks, StepsSettled, PTL DEF Spec
<1> QED BY <1>3 DEF SagaInit, Step
-----------------------------------------------------------------------------
(* How often a handler is run *)

\* The attempt that a call is at is one that its skill's retries allow.
WithinRetries(f) == f.attempt <= MaxRetries[f.skill]
StackWithin(st) == \A k \in 1..Len(st) : WithinRetries(st[k])

\* One call runs its handler at most maxRetries + 1 times, the runs that went on
\* after their timeout counted.
AttemptsWithinRetries ==
  /\ \A e \in Execs : StackWithin(frames[e])
  /\ \A r \in Taken : r[2] <= MaxRetries[SkillOf(r)]

(* A frame that changes its place in the code is at the same attempt. *)
LEMMA FrameWithin ==
  ASSUME NEW f \in Frame, WithinRetries(f)
  PROVE  /\ \A pc \in {"pre", "run", "backoff", "post"} :
              LET g == [f EXCEPT !.pc = pc] IN g \in Frame /\ WithinRetries(g)
         /\ \A n \in Nat \ {0} : LET g == [f EXCEPT !.next = n] IN g \in Frame /\ WithinRetries(g)
         /\ \A r \in Results : LET g == [f EXCEPT !.pc = "post", !.next = 1, !.result = r]
                               IN  g \in Frame /\ WithinRetries(g)
         /\ f.attempt < MaxRetries[f.skill] =>
              LET g == [f EXCEPT !.pc = "backoff", !.attempt = @ + 1]
              IN  g \in Frame /\ WithinRetries(g)
<1>1. ASSUME NEW h \in Frame, WithinRetries(h), NEW pc \in {"pre", "run", "backoff", "post"}
      PROVE  LET g == [h EXCEPT !.pc = pc]
             IN  g \in Frame /\ WithinRetries(g) /\ g.attempt = h.attempt /\ g.skill = h.skill
  BY <1>1 DEF Frame, WithinRetries
<1>2. ASSUME NEW h \in Frame, WithinRetries(h), NEW n \in Nat \ {0}
      PROVE  LET g == [h EXCEPT !.next = n] IN g \in Frame /\ WithinRetries(g)
  BY <1>2 DEF Frame, WithinRetries
<1>3. ASSUME NEW r \in Results
      PROVE  LET g == [f EXCEPT !.pc = "post", !.next = 1, !.result = r]
             IN  g \in Frame /\ WithinRetries(g)
  <2> DEFINE h == [f EXCEPT !.pc = "post"]
             i == [h EXCEPT !.next = 1]
             g == [i EXCEPT !.result = r]
  <2>1. h \in Frame /\ WithinRetries(h)
    BY <1>1
  <2> HIDE DEF h
  <2>2. i \in Frame /\ WithinRetries(i)
    BY <1>2, <2>1
  <2> HIDE DEF i
  <2>3. g \in Frame /\ WithinRetries(g)
    BY <2>2 DEF Frame, WithinRetries
  <2> QED BY <2>3 DEF h, i
<1>4. ASSUME f.attempt < MaxRetries[f.skill]
      PROVE  LET g == [f EXCEPT !.pc = "backoff", !.attempt = @ + 1]
             IN  g \in Frame /\ WithinRetries(g)
  <2> DEFINE h == [f EXCEPT !.pc = "backoff"]
             n == f.attempt + 1
             g == [h EXCEPT !.attempt = n]
  <2>1. h \in Frame /\ h.skill = f.skill
    BY <1>1
  <2> HIDE DEF h
  <2>2. n \in Nat /\ n <= MaxRetries[f.skill]
    <3>1. f.attempt \in Nat /\ f.skill \in Skills
      BY DEF Frame
    <3>2. MaxRetries[f.skill] \in Nat
      BY <3>1, EngineConfig
    <3> QED BY <1>4, <3>1, <3>2
  <2> HIDE DEF n
  <2>3. g \in Frame /\ g.attempt = n /\ g.skill = f.skill
    BY <2>1, <2>2 DEF Frame
  <2> HIDE DEF g
  <2>4. g \in Frame /\ WithinRetries(g)
    BY <2>2, <2>3 DEF WithinRetries
  <2> QED BY <2>4 DEF g, h, n
<1> QED BY <1>1, <1>2, <1>3, <1>4

(* So is what is below the top of a stack, and a stack whose top is replaced. *)
LEMMA PartsWithin ==
  ASSUME TypeOK, NEW e \in Execs, frames[e] # <<>>, StackWithin(frames[e])
  PROVE  /\ Top(e) \in Frame /\ WithinRetries(Top(e))
         /\ StackWithin(Below(e))
         /\ \A g \in Frame : WithinRetries(g) => StackWithin(Append(Below(e), g))
<1>1. /\ Len(frames[e]) \in Nat \ {0}
      /\ Len(Below(e)) = Len(frames[e]) - 1
      /\ \A k \in 1..(Len(frames[e]) - 1) : Below(e)[k] = frames[e][k]
      /\ Top(e) \in Frame
  BY StackParts
<1>2. WithinRetries(Top(e))
  BY <1>1 DEF Top, StackWithin
<1>3. \A k \in 1..Len(Below(e)) : k \in 1..Len(frames[e]) /\ Below(e)[k] = frames[e][k]
  BY <1>1
<1>4. StackWithin(Below(e))
  BY <1>3 DEF StackWithin
<1>5. ASSUME NEW g \in Frame, WithinRetries(g)
      PROVE  StackWithin(Append(Below(e), g))
  <2> DEFINE st == Append(Below(e), g)
  <2>1. /\ Len(st) = Len(frames[e])
        /\ \A k \in 1..Len(frames[e]) : st[k] = IF k = Len(frames[e]) THEN g ELSE frames[e][k]
    BY ReplacedTop
  <2> HIDE DEF st
  <2>2. ASSUME NEW k \in 1..Len(st) PROVE WithinRetries(st[k])
    <3>1. st[k] = g \/ st[k] = frames[e][k]
      BY <2>1
    <3> QED BY <1>5, <2>1, <3>1 DEF StackWithin
  <2>3. StackWithin(st)
    BY <2>2 DEF StackWithin
  <2> QED BY <2>3 DEF st
<1> QED BY <1>1, <1>2, <1>4, <1>5

(* A call that is entered is at its first attempt. *)
LEMMA EnterWithin ==
  ASSUME TypeOK, NEW e \in Execs, NEW s \in Skills, NEW st \in Seq(Frame), StackWithin(st),
         Enter(e, s, st)
  PROVE  \E t : StackWithin(t) /\ frames' = [frames EXCEPT ![e] = t]
<1>1. CASE Refuse(e, st)
  BY <1>1 DEF Refuse
<1>2. CASE ~Refuse(e, st)
  <2> DEFINE f == NewFrame(s)
             t == Append(st, f)
  <2>1. frames' = [frames EXCEPT ![e] = t]
    BY <1>2 DEF Enter
  <2>2. f \in Frame /\ f.attempt = 0 /\ f.skill = s
    BY NewTypes DEF NewFrame
  <2>3. WithinRetries(f)
    <3>1. MaxRetries[s] \in Nat
      BY EngineConfig
    <3> HIDE DEF f
    <3> QED BY <2>2, <3>1 DEF WithinRetries
  <2> HIDE DEF f
  <2>4. /\ Len(st) \in Nat /\ Len(t) = Len(st) + 1 /\ t[Len(st) + 1] = f
        /\ \A k \in 1..Len(st) : t[k] = st[k]
    BY <2>2, AppendProperties, LenProperties
  <2> HIDE DEF t
  <2>5. \A k \in 1..Len(t) : k \in 1..Len(st) \/ k = Len(st) + 1
    BY <2>4
  <2>6. StackWithin(t)
    BY <2>3, <2>4, <2>5 DEF StackWithin
  <2> QED BY <2>1, <2>6
<1> QED BY <1>1, <1>2

(* Whatever a step does to a stack, its calls stay within their retries. *)
LEMMA StacksWithin ==
  ASSUME TypeOK, PhasesMatch, [Next]_vars, \A e \in Execs : StackWithin(frames[e])
  PROVE  \A e \in Execs : StackWithin(frames'[e])
<1>1. ASSUME NEW e \in Execs, NEW t, StackWithin(t), frames' = [frames EXCEPT ![e] = t]
      PROVE  \A f \in Execs : StackWithin(frames'[f])
  BY <1>1 DEF TypeOK
<1>2. ASSUME NEW e \in Execs, frames[e] # <<>>
      PROVE  /\ Top(e) \in Frame /\ WithinRetries(Top(e))
             /\ Fail(e) \/ Succeed(e) => \A f \in Execs : StackWithin(frames'[f])
             /\ \A g \in Frame : frames' = WithTop(e, g) /\ WithinRetries(g) =>
                  \A f \in Execs : StackWithin(frames'[f])
  BY <1>1, <1>2, PartsWithin DEF Fail, Succeed, Settle, WithTop
<1>3. ASSUME NEW e \in Execs, Start(e)
      PROVE  \A f \in Execs : StackWithin(frames'[f])
  <2>1. <<>> \in Seq(Frame) /\ StackWithin(<<>>)
    BY EmptySeq DEF StackWithin
  <2>2. \E t : StackWithin(t) /\ frames' = [frames EXCEPT ![e] = t]
    BY <1>3, <2>1, EnterWithin, EngineConfig DEF Start
  <2> QED BY <1>1, <2>2
<1>4. ASSUME NEW e \in Execs, CallHook(e)
      PROVE  \A f \in Execs : StackWithin(frames'[f])
  <2>1. PICK i \in HooksLeft(Top(e)) :
          Enter(e, Deps[Top(e).skill][i], Append(Below(e), [Top(e) EXCEPT !.next = i + 1]))
    BY <1>4 DEF CallHook
  <2>2. frames[e] # <<>> /\ Top(e) \in Frame /\ WithinRetries(Top(e))
    BY <1>2, <1>4 DEF CallHook, Ready
  <2>3. Top(e).skill \in Skills /\ Top(e).next \in Nat \ {0}
    BY <2>2 DEF Frame
  <2>4. Deps[Top(e).skill] \in Seq(Skills)
    BY <2>3, EngineConfig
  <2>5. i \in 1..Len(Deps[Top(e).skill])
    BY <2>3, <2>4, LenProperties DEF HooksLeft
  <2>6. Deps[Top(e).skill][i] \in Skills /\ i + 1 \in Nat \ {0}
    BY <2>4, <2>5, ElementOfSeq, LenProperties
  <2> DEFINE g == [Top(e) EXCEPT !.next = i + 1]
  <2>7. g \in Frame /\ WithinRetries(g)
    BY <2>2, <2>6, FrameWithin
  <2> HIDE DEF g
  <2>8. Append(Below(e), g) \in Seq(Frame) /\ StackWithin(Append(Below(e), g))
    BY <2>2, <2>7, PartsWithin, ReplacedTop
  <2>9. \E t : StackWithin(t) /\ frames' = [frames EXCEPT ![e] = t]
    BY <2>1, <2>6, <2>8, EnterWithin DEF g
  <2> QED BY <1>1, <2>9
<1>5. ASSUME NEW e \in Execs, PreHookThrew(e) \/ PostHookThrew(e) \/ StartHandler(e)
      PROVE  \A f \in Execs : StackWithin(frames'[f])
  <2>1. /\ frames[e] # <<>>
        /\ Fail(e) \/ Succeed(e) \/ frames' = WithTop(e, [Top(e) EXCEPT !.pc = "run"])
    BY <1>5 DEF PreHookThrew, PostHookThrew, StartHandler, InPc, Ready
  <2> DEFINE g == [Top(e) EXCEPT !.pc = "run"]
  <2>2. g \in Frame /\ WithinRetries(g)
    BY <1>2, <2>1, FrameWithin
  <2>3. Fail(e) \/ Succeed(e) \/ frames' = WithTop(e, g)
    BY <2>1
  <2> HIDE DEF g
  <2> QED BY <1>2, <2>1, <2>2, <2>3
<1>6. ASSUME NEW e \in Execs, NEW r \in Results, HandlerReturns(e, r)
      PROVE  \A f \in Execs : StackWithin(frames'[f])
  <2> DEFINE g == [Top(e) EXCEPT !.pc = "post", !.next = 1, !.result = r]
  <2>1. frames[e] # <<>> /\ frames' = WithTop(e, g)
    BY <1>6 DEF HandlerReturns, Ready
  <2>2. g \in Frame /\ WithinRetries(g)
    BY <1>2, <2>1, FrameWithin
  <2> HIDE DEF g
  <2> QED BY <1>2, <2>1, <2>2
<1>7. ASSUME NEW e \in Execs, HandlerThrows(e) \/ HandlerTimesOut(e)
      PROVE  \A f \in Execs : StackWithin(frames'[f])
  <2> DEFINE g == [Top(e) EXCEPT !.pc = "backoff", !.attempt = @ + 1]
  <2>1. /\ frames[e] # <<>>
        /\ \/ Fail(e)
           \/ Top(e).attempt < MaxRetries[Top(e).skill] /\ frames' = WithTop(e, g)
    BY <1>7 DEF HandlerThrows, HandlerTimesOut, AttemptFails, Ready
  <2>2. Top(e).attempt < MaxRetries[Top(e).skill] => g \in Frame /\ WithinRetries(g)
    BY <1>2, <2>1, FrameWithin
  <2> HIDE DEF g
  <2> QED BY <1>2, <2>1, <2>2
<1>8. ASSUME NEW e \in Execs, FinishCall(e)
      PROVE  \A f \in Execs : StackWithin(frames'[f])
  BY <1>2, <1>8 DEF FinishCall, Ready
<1>9. CASE frames' = frames
  BY <1>9
<1> QED
  BY <1>3, <1>4, <1>5, <1>6, <1>7, <1>8, <1>9
  DEF Next, EngineStep, HandlerStep, ReturnResult, Rethrow, CompensateStep, LateRunEnds,
      Unregister, vars

(* So do the handler runs of which something is known. *)
LEMMA RunsWithin ==
  ASSUME TypeOK, TypeOK', PhasesMatch, StacksAscend, LogFollowsStacks, RunInv, SettleInv,
         [Next]_vars, AttemptsWithinRetries
  PROVE  \A r \in Taken' : r[2] <= MaxRetries[SkillOf(r)']
<1>1. \A r \in Taken : r[2] <= MaxRetries[SkillOf(r)']
  BY RunsKeepOwner DEF AttemptsWithinRetries
<1>2. CASE EndsNoRun
  BY <1>1, <1>2 DEF EndsNoRun, Taken
<1>3. ASSUME NEW e \in Execs, EndsRun(e)
      PROVE  \A r \in Taken' : r[2] <= MaxRetries[SkillOf(r)']
  <2>1. /\ frames[e] # <<>>
        /\ ThisRun(e)[1] = Top(e).wal /\ Top(e).wal \in 1..Len(wal)
        /\ wal[Top(e).wal].skill = Top(e).skill
    BY <1>3, RunEnds
  <2>2. ThisRun(e)[2] <= MaxRetries[Top(e).skill]
    BY <2>1, PartsWithin DEF AttemptsWithinRetries, WithinRetries, ThisRun
  <2>3. Taken' \subseteq Taken \cup {ThisRun(e)}
    BY <1>3 DEF EndsRun, HandlerTimesOut, HandlerReturns, SetFate, Taken
  <2>4. wal'[Top(e).wal].skill = Top(e).skill
    BY <2>1, LogGrows
  <2> SUFFICES ASSUME NEW r \in Taken', r = ThisRun(e)
               PROVE  r[2] <= MaxRetries[wal'[r[1]].skill]
    BY <1>1, <2>3 DEF SkillOf
  <2> QED BY <2>1, <2>2, <2>4
<1>4. ASSUME NEW e \in Execs, CompensateStep(e)
      PROVE  Taken' = Taken
  <2>1. Len(completed[e]) \in Nat \ {0}
    BY <1>4, CompensateShortens DEF PhasesMatch, CompensateStep
  <2>2. completed[e][Len(completed[e])] \in DOMAIN fate
    BY <2>1 DEF SettleInv, ListIsDone
  <2> QED BY <1>4, <2>2 DEF CompensateStep, SetFate, NextToUndo, Taken
<1>5. ASSUME NEW r \in late, LateRunEnds(r)
      PROVE  Taken' \subseteq Taken
  BY <1>5 DEF LateRunEnds, SetFate, Taken
<1> QED BY <1>1, <1>2, <1>3, <1>4, <1>5, StepKinds

(* One call runs its handler at most maxRetries + 1 times, however the runs end and
   whether their answers come in time or not. *)
THEOREM RetriesHold == Spec => []AttemptsWithinRetries
<1>1. Init => AttemptsWithinRetries
  <2> SUFFICES ASSUME Init PROVE AttemptsWithinRetries
    OBVIOUS
  <2>1. \A e \in Execs : Len(frames[e]) = 0
    BY EmptySeq DEF Init
  <2>2. Taken = {}
    BY DEF Init, Taken
  <2> QED BY <2>1, <2>2 DEF AttemptsWithinRetries, StackWithin
<1>2. /\ TypeOK /\ TypeOK' /\ PhasesMatch /\ StacksAscend /\ LogFollowsStacks
      /\ RunInv /\ SettleInv /\ [Next]_vars /\ AttemptsWithinRetries
      => AttemptsWithinRetries'
  <2> SUFFICES ASSUME TypeOK, TypeOK', PhasesMatch, StacksAscend, LogFollowsStacks,
                      RunInv, SettleInv, [Next]_vars, AttemptsWithinRetries
               PROVE  AttemptsWithinRetries'
    OBVIOUS
  <2>1. \A e \in Execs : StackWithin(frames'[e])
    BY StacksWithin DEF AttemptsWithinRetries
  <2>2. \A r \in Taken' : r[2] <= MaxRetries[SkillOf(r)']
    BY RunsWithin
  <2> QED BY <2>1, <2>2 DEF AttemptsWithinRetries
<1> QED BY <1>1, <1>2, TypesAndPhases, LogAndStacks, StepsSettled, PTL DEF Spec
-----------------------------------------------------------------------------
(* The steps of a saga, when there are only so many executions and retries *)

\* What is left open by EngineConfig: how many executions there are, and whether
\* the retries of all skills have a bound.
BoundedEngine == IsFiniteSet(Execs) /\ \E n \in Nat : \A s \in Skills : MaxRetries[s] <= n

(* A bounded set of numbers has a greatest member. *)
LEMMA GreatestOf ==
  ASSUME NEW n \in Nat, NEW S \in SUBSET (0..n), S # {}
  PROVE  \E k \in S : \A l \in S : l <= k
<1> DEFINE R == {ss \in Nat \X Nat : ss[1] < ss[2]}
           T == {n - k : k \in S}
<1>1. IsWellFoundedOn(R, Nat)
  BY NatLessThanWellFounded DEF OpToRel
<1>2. T \in SUBSET Nat /\ T # {}
  <2>1. \A k \in S : n - k \in Nat
    OBVIOUS
  <2> QED BY <2>1
<1>3. \E m \in T : \A x \in T : ~ (<<x, m>> \in R)
  <2> HIDE DEF R, T
  <2> QED BY <1>1, <1>2, WFMin
<1>4. PICK m \in T : \A x \in T : ~ (x < m)
  BY <1>2, <1>3
<1>5. PICK k \in S : m = n - k
  BY <1>4
<1>6. \A l \in S : ~ (n - l < n - k)
  BY <1>4, <1>5
<1> QED BY <1>6

(* The retries of the skills have a greatest number. *)
LEMMA MostRetriesIsMost ==
  ASSUME BoundedEngine, NEW s \in Skills
  PROVE  MostRetries \in Nat /\ MaxRetries[s] <= MostRetries
<1>1. PICK n \in Nat : \A t \in Skills : MaxRetries[t] <= n
  BY DEF BoundedEngine
<1> DEFINE S == {MaxRetries[t] : t \in Skills}
<1>2. \A t \in Skills : MaxRetries[t] \in 0..n
  <2>1. \A t \in Skills : MaxRetries[t] \in Nat
    BY EngineConfig
  <2> QED BY <1>1, <2>1
<1>3. S \in SUBSET (0..n) /\ S # {}
  BY <1>2
<1>4. \E k \in S : \A l \in S : l <= k
  <2> HIDE DEF S
  <2> QED BY <1>3, GreatestOf
<1>5. \E k \in S : \A t \in Skills : MaxRetries[t] <= k
  BY <1>4
<1>6. MostRetries \in S /\ \A t \in Skills : MaxRetries[t] <= MostRetries
  BY <1>5 DEF MostRetries
<1> QED BY <1>3, <1>6

(* All executions together make as many calls as their budgets allow. *)
LEMMA CallsAreBounded ==
  ASSUME TypeOK, CallsWithinLimits, IsFiniteSet(Execs)
  PROVE  Len(wal) <= CallBudget * Cardinality(Execs)
<1> DEFINE D == 1..Len(wal)
           UpTo(i) == {k \in Spent(wal[i].exec) : k <= i}
           Place(i) == Cardinality(UpTo(i))
           T == Execs \X (1..CallBudget)
           f == [i \in D |-> <<wal[i].exec, Place(i)>>]
<1>1. Len(wal) \in Nat /\ \A i \in D : wal[i].exec \in Execs
  BY EntryTypes
<1>2. \A i \in D : IsFiniteSet(Spent(wal[i].exec)) /\ UpTo(i) \in SUBSET Spent(wal[i].exec)
  BY SpentFinite
<1>3. ASSUME NEW i \in D
      PROVE  IsFiniteSet(UpTo(i)) /\ Place(i) \in 1..CallBudget
  <2>1. IsFiniteSet(UpTo(i)) /\ Place(i) <= Cardinality(Spent(wal[i].exec))
    <3> HIDE DEF UpTo
    <3> QED BY <1>2, FS_Subset
  <2>2. Place(i) \in Nat /\ Cardinality(Spent(wal[i].exec)) \in Nat
    <3> HIDE DEF UpTo
    <3> QED BY <1>2, <2>1, FS_CardinalityType
  <2>3. Place(i) # 0
    <3>1. i \in UpTo(i)
      BY <1>1 DEF Spent
    <3> HIDE DEF UpTo
    <3> QED BY <2>1, <3>1, FS_EmptySet
  <2>4. Cardinality(Spent(wal[i].exec)) <= CallBudget
    <3> DEFINE e == wal[i].exec
    <3>1. e \in Execs /\ Cardinality(Spent(e)) + budget[e] <= CallBudget
      BY <1>1 DEF CallsWithinLimits, Spent
    <3>2. budget[e] \in Nat
      BY <3>1, EngineConfig DEF TypeOK
    <3> HIDE DEF Place
    <3> QED BY <2>2, <3>1, <3>2, EngineConfig
  <2> HIDE DEF Place, UpTo
  <2> QED BY <2>1, <2>2, <2>3, <2>4, EngineConfig
<1>4. ASSUME NEW i \in D, NEW j \in D, wal[i].exec = wal[j].exec, i < j
      PROVE  Place(i) # Place(j)
  <2>1. UpTo(i) \in SUBSET UpTo(j)
    <3>1. \A k \in 1..Len(wal) : k <= i => k <= j
      BY <1>1, <1>4
    <3> QED BY <1>4, <3>1 DEF Spent
  <2>2. j \in UpTo(j) /\ j \notin UpTo(i)
    BY <1>1, <1>4 DEF Spent
  <2> HIDE DEF UpTo
  <2>3. IsFiniteSet(UpTo(j))
    BY <1>3
  <2> QED BY <2>1, <2>2, <2>3, FS_Subset
<1>5. f \in Injection(D, T)
  <2>1. f \in [D -> T]
    <3> HIDE DEF Place
    <3> QED BY <1>1, <1>3
  <2>2. ASSUME NEW i \in D, NEW j \in D, f[i] = f[j]
        PROVE  i = j
    <3>1. wal[i].exec = wal[j].exec /\ Place(i) = Place(j)
      <4> HIDE DEF Place
      <4> QED BY <2>2
    <3>2. ~(i < j) /\ ~(j < i)
      <4> HIDE DEF Place
      <4> QED BY <1>4, <3>1
    <3> QED BY <1>1, <3>2
  <2> HIDE DEF f, D, T
  <2> QED BY <2>1, <2>2 DEF Injection, IsInjective
<1>6. IsFiniteSet(T) /\ Cardinality(T) = Cardinality(Execs) * Cardinality(1..CallBudget)
  <2>1. IsFiniteSet(1..CallBudget)
    BY EngineConfig, FS_Interval
  <2> QED BY <2>1, FS_Product
<1>7. Cardinality(D) <= Cardinality(T)
  <2> HIDE DEF f, D, T
  <2> QED BY <1>5, <1>6, FS_Injection
<1>8. Cardinality(D) = Len(wal) /\ Cardinality(1..CallBudget) = CallBudget
  <2>1. \A n \in Nat : Cardinality(1..n) = n
    <3> TAKE n \in Nat
    <3>1. Cardinality(1..n) = IF 1 > n THEN 0 ELSE n - 1 + 1
      BY FS_Interval
    <3> DEFINE c == Cardinality(1..n)
    <3>2. c = IF 1 > n THEN 0 ELSE n - 1 + 1
      BY <3>1
    <3> HIDE DEF c
    <3>3. c = n
      BY <3>2
    <3> QED BY <3>3 DEF c
  <2> QED BY <1>1, <2>1, EngineConfig
<1>9. Cardinality(Execs) \in Nat /\ CallBudget \in Nat
  BY FS_CardinalityType, EngineConfig
<1>10. Cardinality(Execs) * CallBudget = CallBudget * Cardinality(Execs)
  BY <1>9
<1> HIDE DEF D, T
<1> QED BY <1>6, <1>7, <1>8, <1>10

(* The runs of which something is known are steps that the limits allow. *)
LEMMA StepsBounded ==
  ASSUME BoundedEngine, TypeOK, CallsWithinLimits, RunInv, SettleInv, AttemptsWithinRetries,
         NEW e \in Execs, NEW i \in 1..Len(completed[e])
  PROVE  completed[e][i] \in SagaSteps
<1> DEFINE r == completed[e][i]
           n == CallBudget * Cardinality(Execs)
<1>1. r \in DOMAIN fate
  BY DEF SettleInv, ListIsDone
<1>2. r \in Runs /\ r[1] \in 1..Len(wal) /\ r[2] <= MaxRetries[SkillOf(r)]
  BY <1>1 DEF TypeOK, RunInv, Taken, AttemptsWithinRetries
<1> HIDE DEF r
<1>3. SkillOf(r) \in Skills
  <2>1. wal \in Seq(Entry)
    BY DEF TypeOK
  <2>2. wal[r[1]] \in Entry
    BY <1>2, <2>1, ElementOfSeq
  <2> QED BY <2>2 DEF SkillOf, Entry
<1>4. MostRetries \in Nat /\ MaxRetries[SkillOf(r)] \in Nat
      /\ MaxRetries[SkillOf(r)] <= MostRetries
  BY <1>3, MostRetriesIsMost, EngineConfig
<1>5. n \in Nat /\ Len(wal) \in Nat /\ Len(wal) <= n
  <2>1. Cardinality(Execs) \in Nat /\ CallBudget \in Nat
    BY FS_CardinalityType, EngineConfig DEF BoundedEngine
  <2> QED BY <2>1, CallsAreBounded, EntryTypes DEF BoundedEngine
<1> HIDE DEF n
<1>6. r[1] \in 1..n /\ r[2] \in 0..MostRetries /\ r = <<r[1], r[2]>>
  BY <1>2, <1>4, <1>5 DEF Runs
<1>7. r \in (1..n) \X (0..MostRetries)
  BY <1>6
<1> QED BY <1>7 DEF SagaSteps, r, n

(* A step of a saga over all runs is one of the saga over those that the limits
   allow, if what it leaves in the list are such steps. *)
LEMMA SagaNarrows ==
  ASSUME TypeOK, NEW e \in Execs, [AnySagaOf(e)!Next]_(AnySagaOf(e)!vars),
         \A i \in 1..Len(completed'[e]) : completed'[e][i] \in SagaSteps
  PROVE  [SagaOf(e)!Next]_(SagaOf(e)!vars)
<1>1. CASE UNCHANGED AnySagaOf(e)!vars
  BY <1>1 DEF AnySagaOf!vars, SagaOf!vars
<1>2. CASE AnySagaOf(e)!Commit
  <2>1. SagaOf(e)!Commit
    BY <1>2 DEF AnySagaOf!Commit, SagaOf!Commit
  <2> QED BY <2>1 DEF SagaOf!Next
<1>3. CASE AnySagaOf(e)!Abort
  <2>1. SagaOf(e)!Abort
    BY <1>3 DEF AnySagaOf!Abort, SagaOf!Abort
  <2> QED BY <2>1 DEF SagaOf!Next
<1>4. CASE AnySagaOf(e)!UndoLast
  <2>1. SagaOf(e)!UndoLast
    BY <1>4 DEF AnySagaOf!UndoLast, SagaOf!UndoLast
  <2> QED BY <2>1 DEF SagaOf!Next
<1>5. CASE AnySagaOf(e)!Complete
  <2>1. PICK s \in Runs : /\ s \notin UndoneBy(e)
                          /\ \A i \in 1..Len(completed[e]) : completed[e][i] # s
                          /\ completed'[e] = Append(completed[e], s)
    BY <1>5 DEF AnySagaOf!Complete
  <2>2. s \in SagaSteps
    <3>1. completed[e] \in Seq(Runs)
      BY DEF TypeOK
    <3>2. /\ Len(completed[e]) \in Nat
          /\ Len(Append(completed[e], s)) = Len(completed[e]) + 1
          /\ Append(completed[e], s)[Len(completed[e]) + 1] = s
      BY <3>1, AppendProperties, LenProperties
    <3> QED BY <2>1, <3>2
  <2>3. SagaMode(e) = "open" /\ SagaMode(e)' = SagaMode(e) /\ UndoneBy(e)' = UndoneBy(e)
    BY <1>5 DEF AnySagaOf!Complete
  <2>4. SagaOf(e)!Complete
    BY <2>1, <2>2, <2>3 DEF SagaOf!Complete
  <2> QED BY <2>4 DEF SagaOf!Next
<1> QED BY <1>1, <1>2, <1>3, <1>4, <1>5 DEF AnySagaOf!Next

(* The refinement as the runs check it: the steps of each saga are those that the
   call budget and the retries allow. *)
THEOREM SagasImplemented == BoundedEngine => (Spec => SagaImplemented)
<1> SUFFICES ASSUME BoundedEngine PROVE Spec => SagaImplemented
  OBVIOUS
<1> DEFINE SagaInit == \A e \in Execs : SagaOf(e)!Init
           Step == \A e \in Execs : [SagaOf(e)!Next]_(SagaOf(e)!vars)
           Bounded == \A e \in Execs : \A i \in 1..Len(completed[e]) :
                        completed[e][i] \in SagaSteps
<1>1. Init => SagaInit
  <2> SUFFICES ASSUME Init, NEW e \in Execs PROVE SagaOf(e)!Init
    OBVIOUS
  <2>1. phase[e] = "idle" /\ completed[e] = <<>> /\ DOMAIN fate = {}
    BY DEF Init
  <2>2. SagaMode(e) = "open"
    BY <2>1 DEF SagaMode, Results
  <2>3. UndoneBy(e) = {}
    BY <2>1 DEF UndoneBy
  <2> QED BY <2>1, <2>2, <2>3 DEF SagaOf!Init
<1>2. /\ TypeOK /\ CallsWithinLimits /\ RunInv /\ SettleInv /\ AttemptsWithinRetries
      => Bounded
  BY StepsBounded
<1>3. /\ TypeOK /\ TypeOK' /\ PhasesMatch /\ StacksAscend /\ LogFollowsStacks
      /\ RunInv /\ SettleInv /\ Bounded' /\ [Next]_vars
      => [Step]_vars
  <2> SUFFICES ASSUME TypeOK, TypeOK', PhasesMatch, StacksAscend, LogFollowsStacks, RunInv,
                      SettleInv, Bounded', [Next]_vars, NEW e \in Execs
               PROVE  [SagaOf(e)!Next]_(SagaOf(e)!vars)
    OBVIOUS
  <2>1. [AnySagaOf(e)!Next]_(AnySagaOf(e)!vars)
    BY SagaKept
  <2> QED BY <2>1, SagaNarrows
<1> HIDE DEF SagaInit, Step, Bounded
<1>4. Spec => SagaInit /\ [][Step]_vars
  BY <1>1, <1>2, <1>3, TypesAndPhases, LogAndStacks, LimitsHold, StepsSettled, RetriesHold,
     PTL DEF Spec
<1> QED BY <1>4 DEF SagaInit, Step, SagaImplemented
=============================================================================
