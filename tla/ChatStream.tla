------------------------------ MODULE ChatStream ------------------------------
(***************************************************************************)
(* Chats that stop to ask their user: the loop behind every stream         *)
(* (agent-routes.ts, agent-loop.ts, react-agent.ts), which waits for the   *)
(* answer without a limit; the row that keeps the question over a restart  *)
(* (user-confirm-skill.ts, pending-confirm-repository.ts); and the request *)
(* that brings the answer, to the waiting loop or, if there is none, to    *)
(* the row.  What the loop emits goes through StreamBuffer.                *)
(*                                                                         *)
(* SQLite is synchronous, so a request that answers runs in one go; a      *)
(* statement may fail, and the code goes on without it.  A crash between   *)
(* two statements leaves what a failure of the second one leaves.          *)
(***************************************************************************)
EXTENDS StreamBuffer

CONSTANTS Confirms,   \* questions to users
          Answers,    \* what users answer, a cancellation included
          NoConfirm,
          MaxEvents,  \* bound on the events of a stream before its end
          MaxCrashes  \* bound on crashes of the server

ASSUME ChatConfig ==
  /\ NoConfirm \notin Confirms
  /\ Answers \cap {"unasked", "missing", "pending"} = {}
  /\ MaxEvents \in Nat /\ MaxCrashes \in Nat

VARIABLES loop,         \* per stream, where its loop is
          asks,         \* per stream, the question its loop asked last
          closing,      \* per stream, whether the timer after its end runs
          confirmQueue, \* questions a loop waits for in memory
          rows,         \* the table pending_confirms
          shown,        \* questions a page has been shown
          given,        \* history: the answers handed to the loop
          messages,     \* the answers saved in the conversation
          unrecorded,   \* history: handed to the loop, and the row not updated
          crashes       \* crashes so far

loopVars == <<loop, asks, closing>>
confirmVars == <<confirmQueue, rows, shown, given, messages, unrecorded>>
chatVars == <<loopVars, confirmVars, crashes>>
streamVars == <<bufferVars, socketVars, emitted>>
vars == <<chatVars, streamVars>>

LoopState == {"idle", "running", "asking", "waiting", "over", "lost"}

\* A question is in the queue exactly while a loop waits for it.
QueueOK ==
  /\ \A i \in confirmQueue : \E s \in Streams : loop[s] = "waiting" /\ asks[s] = i
  /\ \A s, t \in Streams : s # t /\ asks[s] \in Confirms => asks[s] # asks[t]
  /\ \A s \in Streams : loop[s] = "waiting" => asks[s] \in confirmQueue

\* Types, with the two facts the rest relies on: the queue and the waiting
\* loops agree, and no buffer is kept without a timer that will clear it.
ChatTypeOK ==
  /\ StreamTypeOK
  /\ loop \in [Streams -> LoopState]
  /\ asks \in [Streams -> Confirms \cup {NoConfirm}]
  /\ closing \in [Streams -> BOOLEAN]
  /\ confirmQueue \subseteq shown /\ shown \subseteq Confirms
  /\ rows \in [Confirms -> {"unasked", "missing", "pending"} \cup Answers]
  /\ given \in [Confirms -> Seq(Answers)]
  /\ messages \in [Confirms -> Seq(Answers)]
  /\ unrecorded \subseteq Confirms
  /\ crashes \in 0..MaxCrashes
  /\ QueueOK
  /\ \A s \in Streams : buffers[s] # <<>> => timers[s]

ChatInit ==
  /\ StreamInit
  /\ loop = [s \in Streams |-> "idle"]
  /\ asks = [s \in Streams |-> NoConfirm]
  /\ closing = [s \in Streams |-> FALSE]
  /\ confirmQueue = {} /\ shown = {} /\ unrecorded = {}
  /\ rows = [i \in Confirms |-> "unasked"]
  /\ given = [i \in Confirms |-> <<>>]
  /\ messages = [i \in Confirms |-> <<>>]
  /\ crashes = 0

-----------------------------------------------------------------------------
(* The loop *)

\* POST /agent/chat/start: a new stream, generated without being awaited.
Start(s) ==
  /\ loop[s] = "idle"
  /\ loop' = [loop EXCEPT ![s] = "running"]
  /\ UNCHANGED <<asks, closing, confirmVars, crashes, streamVars>>

Emit(s) ==
  /\ loop[s] = "running" /\ emitted[s] < MaxEvents
  /\ AppendEvent(s)
  /\ UNCHANGED chatVars

\* The skill user_confirm: the row, or none if it cannot be written.
CreateConfirm(s, i) ==
  /\ loop[s] = "running" /\ rows[i] = "unasked"
  /\ \E row \in {"pending", "missing"} : rows' = [rows EXCEPT ![i] = row]
  /\ loop' = [loop EXCEPT ![s] = "asking"]
  /\ asks' = [asks EXCEPT ![s] = i]
  /\ UNCHANGED <<closing, confirmQueue, shown, given, messages, unrecorded, crashes, streamVars>>

\* The loop: the event user_confirm, then the entry in the queue.
AwaitAnswer(s) ==
  /\ loop[s] = "asking"
  /\ AppendEvent(s)
  /\ loop' = [loop EXCEPT ![s] = "waiting"]
  /\ shown' = shown \cup {asks[s]}
  /\ confirmQueue' = confirmQueue \cup {asks[s]}
  /\ UNCHANGED <<asks, closing, rows, given, messages, unrecorded, crashes>>

\* The skill has run, and the call of it fails all the same: nobody is asked.
QuestionFails(s) ==
  /\ loop[s] = "asking"
  /\ loop' = [loop EXCEPT ![s] = "running"]
  /\ UNCHANGED <<asks, closing, confirmVars, crashes, streamVars>>

\* The last event, and five seconds for those who come late.
EndStream(s) ==
  /\ loop[s] = "running"
  /\ AppendEvent(s)
  /\ loop' = [loop EXCEPT ![s] = "over"]
  /\ closing' = [closing EXCEPT ![s] = TRUE]
  /\ UNCHANGED <<asks, confirmVars, crashes>>

LoopStep(s) ==
  \/ Emit(s) \/ AwaitAnswer(s) \/ QuestionFails(s) \/ EndStream(s)
  \/ \E i \in Confirms : CreateConfirm(s, i)

-----------------------------------------------------------------------------
(* The answer *)

\* persistConfirmSideEffects: a message in the conversation, if it can be saved.
SaveMessage(i, a) ==
  \/ messages' = [messages EXCEPT ![i] = Append(@, a)]
  \/ UNCHANGED messages

\* Mutant of ResolveRow: the loop has its answer, the row stays as it is.
ResolveRow_Skipped(i, a) == UNCHANGED <<rows, messages, unrecorded>>

\* The background task behind an answer to a waiting loop.
ResolveRow(i, a) ==
  IF rows[i] # "pending"
  THEN UNCHANGED <<rows, messages, unrecorded>>
  ELSE \/ /\ rows' = [rows EXCEPT ![i] = a]
          /\ SaveMessage(i, a)
          /\ UNCHANGED unrecorded
       \/ /\ unrecorded' = unrecorded \cup {i}
          /\ UNCHANGED <<rows, messages>>

\* Mutant of AnswerLoop: the entry is deleted, the promise is not resolved.
AnswerLoop_Unresolved(i, a) ==
  /\ i \in confirmQueue
  /\ confirmQueue' = confirmQueue \ {i}
  /\ given' = [given EXCEPT ![i] = Append(@, a)]
  /\ ResolveRow(i, a)
  /\ UNCHANGED <<loopVars, shown, crashes, streamVars>>

\* POST /agent/chat/confirm, case 1: the loop goes on with the answer.
AnswerLoop(i, a) ==
  /\ i \in confirmQueue
  /\ confirmQueue' = confirmQueue \ {i}
  /\ given' = [given EXCEPT ![i] = Append(@, a)]
  /\ loop' = [s \in Streams |-> IF loop[s] = "waiting" /\ asks[s] = i THEN "running" ELSE loop[s]]
  /\ ResolveRow(i, a)
  /\ UNCHANGED <<asks, closing, shown, crashes, streamVars>>

\* Case 2: nobody waits, the row is still pending.  Everything else is case 3.
AnswerRow(i, a) ==
  /\ i \in shown \ confirmQueue
  /\ rows[i] = "pending"
  /\ rows' = [rows EXCEPT ![i] = a]
  /\ SaveMessage(i, a)
  /\ UNCHANGED <<loopVars, confirmQueue, shown, given, unrecorded, crashes, streamVars>>

-----------------------------------------------------------------------------
(* Timers, pages and crashes *)

\* The timer of POST /agent/chat/start, five seconds after the end.
CloseStream(s) ==
  /\ closing[s]
  /\ closing' = [closing EXCEPT ![s] = FALSE]
  /\ Clear(s)
  /\ UNCHANGED <<loop, asks, confirmVars, crashes, socketVars, emitted>>

\* scheduleCleanup: five minutes without an event, whatever the loop is doing.
Expire(s) ==
  /\ timers[s]
  /\ Clear(s)
  /\ UNCHANGED <<chatVars, socketVars, emitted>>

\* A page that has been told of a stream, before or after a loss.
Page(k) ==
  /\ \/ \E s \in Streams : loop[s] # "idle" /\ Connect(k, s)
     \/ Subscribe(k) \/ Lose(k) \/ Cleanup(k)
  /\ UNCHANGED chatVars

Crash ==
  /\ crashes < MaxCrashes
  /\ crashes' = crashes + 1
  /\ loop' = [s \in Streams |->
       IF loop[s] \in {"running", "asking", "waiting"} THEN "lost" ELSE loop[s]]
  /\ closing' = [s \in Streams |-> FALSE]
  /\ confirmQueue' = {}
  /\ StreamCrash
  /\ UNCHANGED <<asks, rows, shown, given, messages, unrecorded>>

ChatNext ==
  \/ \E s \in Streams : Start(s) \/ LoopStep(s) \/ CloseStream(s) \/ Expire(s)
  \/ \E i \in Confirms, a \in Answers : AnswerLoop(i, a) \/ AnswerRow(i, a)
  \/ \E k \in Sockets : Page(k)
  \/ Crash

ChatSpec ==
  /\ ChatInit /\ [][ChatNext]_vars
  /\ \A s \in Streams : /\ WF_vars(LoopStep(s))
                        /\ WF_vars(CloseStream(s))
                        /\ WF_vars(Expire(s))

-----------------------------------------------------------------------------
(* Properties *)

\* One answer to a question (agent-routes.ts:363-439), whoever else clicks,
\* before and after a restart: the loop is handed one, the conversation
\* records at most one, and it, the row and the loop's agree, unless the row
\* could not be updated when the loop was answered.
AnswersAgree ==
  \A i \in Confirms :
    /\ Len(given[i]) <= 1 /\ Len(messages[i]) <= 1
    /\ messages[i] # <<>> => rows[i] = messages[i][1]
    /\ given[i] # <<>> /\ rows[i] # "missing" =>
         rows[i] = given[i][1] \/ i \in unrecorded

\* At rest: a loop that waits can be answered, one that is gone left no buffer.
AtRest(s) ==
  \/ loop[s] = "idle"
  \/ loop[s] = "waiting" /\ asks[s] \in confirmQueue
  \/ loop[s] \in {"over", "lost"} /\ buffers[s] = <<>>

\* Every stream comes to rest (agent-loop.ts:573-593, agent-routes.ts:288-297):
\* an answered loop goes on to its end or to a question that can be answered,
\* and what it leaves in the buffer is given up.
StreamsSettle == \A s \in Streams : ~AtRest(s) ~> AtRest(s)
=============================================================================
