--------------------------- MODULE ChatStreamProofs ---------------------------
(***************************************************************************)
(* Proofs about ChatStream, for any number of streams, sockets, questions  *)
(* and answers.  Three invariants, each on top of the one before: types    *)
(* with the agreement of queue and loops; no gap on the way to a page; one *)
(* answer to a question.                                                   *)
(***************************************************************************)
EXTENDS ChatStream, TLAPS

\* A loop that asks has a question of its own, which is in the table.
AskedOK ==
  \A s \in Streams :
    /\ loop[s] \in {"asking", "waiting"} => asks[s] \in Confirms
    /\ asks[s] \in Confirms => rows[asks[s]] # "unasked"

TypeInv == ChatTypeOK /\ AskedOK

-----------------------------------------------------------------------------
(* Types *)

\* Appending to a stream keeps the types of the stream's variables.
LEMMA AppendTypes ==
  ASSUME StreamTypeOK, \A t \in Streams : buffers[t] # <<>> => timers[t],
         NEW s \in Streams, AppendEvent(s)
  PROVE  /\ StreamTypeOK'
         /\ \A t \in Streams : (buffers[t] # <<>> => timers[t])'
<1>1. emitted[s] + 1 \in Nat BY DEF StreamTypeOK
<1>2. emitted' \in [Streams -> Nat] /\ buffers' \in [Streams -> Seq(Nat)]
  BY <1>1 DEF StreamTypeOK, AppendEvent
<1>3. got' \in [Sockets -> Seq(Nat)]
  <2>1. ASSUME NEW k \in Sockets
        PROVE  Append(got[k], emitted[s] + 1) \in Seq(Nat) /\ got[k] \in Seq(Nat)
    BY <1>1 DEF StreamTypeOK
  <2>2. QED BY <2>1 DEF AppendEvent
<1>4. timers' \in [Streams -> BOOLEAN] BY DEF StreamTypeOK, AppendEvent
<1>5. ASSUME NEW t \in Streams PROVE (buffers[t] # <<>> => timers[t])'
  BY DEF StreamTypeOK, AppendEvent
<1>6. QED BY <1>2, <1>3, <1>4, <1>5 DEF StreamTypeOK, AppendEvent

\* Clearing a stream, too.
LEMMA ClearTypes ==
  ASSUME StreamTypeOK, \A t \in Streams : buffers[t] # <<>> => timers[t],
         NEW s \in Streams, Clear(s), UNCHANGED <<socketVars, emitted>>
  PROVE  /\ StreamTypeOK'
         /\ \A t \in Streams : (buffers[t] # <<>> => timers[t])'
<1>1. buffers' \in [Streams -> Seq(Nat)]
  <2>1. <<>> \in Seq(Nat) OBVIOUS
  <2>2. QED BY <2>1 DEF StreamTypeOK, Clear
<1>2. subscribers' \in [Streams -> SUBSET Sockets] BY DEF StreamTypeOK, Clear
<1>3. timers' \in [Streams -> BOOLEAN] BY DEF StreamTypeOK, Clear
<1>4. ASSUME NEW t \in Streams PROVE (buffers[t] # <<>> => timers[t])'
  BY DEF StreamTypeOK, Clear
<1>5. QED BY <1>1, <1>2, <1>3, <1>4 DEF StreamTypeOK, socketVars

\* What the sockets do, and what the end of the process does to them.
LEMMA SocketTypes ==
  ASSUME StreamTypeOK, \A t \in Streams : buffers[t] # <<>> => timers[t],
         \/ \E k \in Sockets : Page(k)
         \/ StreamCrash
  PROVE  /\ StreamTypeOK'
         /\ \A t \in Streams : (buffers[t] # <<>> => timers[t])'
<1>1. ASSUME NEW k \in Sockets, NEW s \in Streams, Connect(k, s)
      PROVE  /\ StreamTypeOK'
             /\ \A t \in Streams : (buffers[t] # <<>> => timers[t])'
  BY <1>1 DEF StreamTypeOK, Connect, bufferVars, LinkState
<1>2. ASSUME NEW k \in Sockets, Subscribe(k)
      PROVE  /\ StreamTypeOK'
             /\ \A t \in Streams : (buffers[t] # <<>> => timers[t])'
  <2>0. target[k] \in Streams BY <1>2 DEF StreamTypeOK, Subscribe
  <2>1. got[k] \o buffers[target[k]] \in Seq(Nat) BY <1>2, <2>0 DEF StreamTypeOK
  <2>2. got' \in [Sockets -> Seq(Nat)] BY <1>2, <2>1 DEF StreamTypeOK, Subscribe
  <2>3. subscribers' \in [Streams -> SUBSET Sockets] BY <1>2 DEF StreamTypeOK, Subscribe
  <2>4. link' \in [Sockets -> LinkState] BY <1>2 DEF StreamTypeOK, Subscribe, LinkState
  <2>5. QED BY <1>2, <2>2, <2>3, <2>4 DEF StreamTypeOK, Subscribe
<1>3. ASSUME NEW k \in Sockets, Lose(k)
      PROVE  /\ StreamTypeOK'
             /\ \A t \in Streams : (buffers[t] # <<>> => timers[t])'
  BY <1>3 DEF StreamTypeOK, Lose, bufferVars, LinkState
<1>4. ASSUME NEW k \in Sockets, Cleanup(k)
      PROVE  /\ StreamTypeOK'
             /\ \A t \in Streams : (buffers[t] # <<>> => timers[t])'
  <2>1. subscribers' \in [Streams -> SUBSET Sockets] BY <1>4 DEF StreamTypeOK, Cleanup
  <2>2. link' \in [Sockets -> LinkState] BY <1>4 DEF StreamTypeOK, Cleanup, LinkState
  <2>3. QED BY <1>4, <2>1, <2>2 DEF StreamTypeOK, Cleanup
<1>5. ASSUME StreamCrash
      PROVE  /\ StreamTypeOK'
             /\ \A t \in Streams : (buffers[t] # <<>> => timers[t])'
  <2>1. <<>> \in Seq(Nat) OBVIOUS
  <2>2. QED BY <1>5, <2>1 DEF StreamTypeOK, StreamCrash, LinkState
<1>6. QED BY <1>1, <1>2, <1>3, <1>4, <1>5 DEF Page

\* The variables of ChatStream that are not StreamBuffer's, without QueueOK.
ChatTypes ==
  /\ loop \in [Streams -> LoopState]
  /\ asks \in [Streams -> Confirms \cup {NoConfirm}]
  /\ closing \in [Streams -> BOOLEAN]
  /\ confirmQueue \subseteq shown /\ shown \subseteq Confirms
  /\ rows \in [Confirms -> {"unasked", "missing", "pending"} \cup Answers]
  /\ given \in [Confirms -> Seq(Answers)]
  /\ messages \in [Confirms -> Seq(Answers)]
  /\ unrecorded \subseteq Confirms
  /\ crashes \in 0..MaxCrashes

BufferTypes ==
  /\ StreamTypeOK
  /\ \A s \in Streams : buffers[s] # <<>> => timers[s]

\* The three parts of the type invariant.
LEMMA TypeParts == ChatTypeOK <=> BufferTypes /\ ChatTypes /\ QueueOK
BY DEF ChatTypeOK, BufferTypes, ChatTypes

\* Every step keeps the types of what StreamBuffer declares.
LEMMA BufferTypesKept == ASSUME TypeInv, [ChatNext]_vars PROVE BufferTypes'
<1> USE DEF BufferTypes
<1>0. StreamTypeOK /\ \A t \in Streams : buffers[t] # <<>> => timers[t]
  BY TypeParts DEF TypeInv
<1>1. ASSUME NEW s \in Streams, AppendEvent(s) PROVE BufferTypes'
  BY <1>0, <1>1, AppendTypes
<1>2. ASSUME NEW s \in Streams, Clear(s), UNCHANGED <<socketVars, emitted>>
      PROVE  BufferTypes'
  BY <1>0, <1>2, ClearTypes
<1>3. ASSUME StreamCrash \/ \E k \in Sockets : Page(k) PROVE BufferTypes'
  BY <1>0, <1>3, SocketTypes
<1>4. ASSUME UNCHANGED streamVars PROVE BufferTypes'
  BY <1>0, <1>4 DEF StreamTypeOK, streamVars, bufferVars, socketVars
<1>5. ASSUME NEW s \in Streams, Start(s) \/ LoopStep(s) \/ CloseStream(s) \/ Expire(s)
      PROVE  BufferTypes'
  <2>1. CASE Start(s) BY <2>1, <1>4 DEF Start
  <2>2. CASE Emit(s) \/ AwaitAnswer(s) \/ EndStream(s)
    BY <2>2, <1>1 DEF Emit, AwaitAnswer, EndStream
  <2>3. CASE QuestionFails(s) BY <2>3, <1>4 DEF QuestionFails
  <2>4. CASE \E i \in Confirms : CreateConfirm(s, i) BY <2>4, <1>4 DEF CreateConfirm
  <2>5. CASE CloseStream(s) \/ Expire(s) BY <2>5, <1>2 DEF CloseStream, Expire
  <2>6. QED BY <1>5, <2>1, <2>2, <2>3, <2>4, <2>5 DEF LoopStep
<1>6. ASSUME NEW i \in Confirms, NEW a \in Answers, AnswerLoop(i, a) \/ AnswerRow(i, a)
      PROVE  BufferTypes'
  BY <1>6, <1>4 DEF AnswerLoop, AnswerRow
<1>7. ASSUME Crash PROVE BufferTypes' BY <1>7, <1>3 DEF Crash
<1>8. ASSUME UNCHANGED vars PROVE BufferTypes' BY <1>8, <1>4 DEF vars
<1>9. QED BY <1>3, <1>5, <1>6, <1>7, <1>8 DEF ChatNext

LoopInv == ChatTypes /\ QueueOK /\ AskedOK

\* The inductive invariant, in the two parts the next lemmas keep.
LEMMA TypeInvParts == TypeInv <=> BufferTypes /\ LoopInv
BY TypeParts DEF TypeInv, LoopInv

\* A sequence of answers stays one when an answer is appended.
LEMMA AnswerAppended ==
  ASSUME NEW f \in [Confirms -> Seq(Answers)], NEW i \in Confirms, NEW a \in Answers
  PROVE  [f EXCEPT ![i] = Append(@, a)] \in [Confirms -> Seq(Answers)]
OBVIOUS

\* The steps of a loop keep the loops, the queue and the questions in agreement.
LEMMA LoopStepKept ==
  ASSUME LoopInv, NEW s \in Streams, Start(s) \/ LoopStep(s) PROVE LoopInv'
<1>1. CASE Start(s)
  BY <1>1 DEF LoopInv, ChatTypes, QueueOK, AskedOK, Start, confirmVars, LoopState
<1>2. CASE Emit(s)
  BY <1>2 DEF LoopInv, ChatTypes, QueueOK, AskedOK, Emit, chatVars, loopVars, confirmVars
<1>3. CASE AwaitAnswer(s)
  <2>1. asks[s] \in Confirms BY <1>3 DEF LoopInv, AskedOK, AwaitAnswer
  <2>2. ChatTypes' BY <1>3, <2>1 DEF LoopInv, ChatTypes, AwaitAnswer, LoopState
  <2>3. \A t, u \in Streams : t # u /\ asks[t] \in Confirms => asks[t] # asks[u]
    BY DEF LoopInv, QueueOK
  <2>4. QueueOK' BY <1>3, <2>1, <2>3 DEF LoopInv, ChatTypes, QueueOK, AwaitAnswer
  <2>5. AskedOK' BY <1>3, <2>1 DEF LoopInv, ChatTypes, AskedOK, AwaitAnswer
  <2>6. QED BY <2>2, <2>4, <2>5 DEF LoopInv
<1>4. CASE QuestionFails(s)
  BY <1>4 DEF LoopInv, ChatTypes, QueueOK, AskedOK, QuestionFails, confirmVars, LoopState
<1>5. CASE EndStream(s)
  BY <1>5 DEF LoopInv, ChatTypes, QueueOK, AskedOK, EndStream, confirmVars, LoopState
<1>6. ASSUME NEW i \in Confirms, CreateConfirm(s, i) PROVE LoopInv'
  <2>1. ChatTypes' BY <1>6 DEF LoopInv, ChatTypes, CreateConfirm, LoopState
  <2>2. \A t \in Streams : asks[t] # i BY <1>6 DEF LoopInv, AskedOK, CreateConfirm
  <2>3. asks' = [asks EXCEPT ![s] = i] /\ loop' = [loop EXCEPT ![s] = "asking"]
        /\ confirmQueue' = confirmQueue /\ loop[s] = "running"
    BY <1>6 DEF CreateConfirm
  <2>4. QueueOK' BY <2>2, <2>3 DEF LoopInv, ChatTypes, QueueOK
  <2>5. \A j \in Confirms : rows[j] # "unasked" => rows'[j] # "unasked"
    BY <1>6 DEF LoopInv, ChatTypes, CreateConfirm
  <2>6. rows'[i] # "unasked" BY <1>6 DEF LoopInv, ChatTypes, CreateConfirm
  <2>7. AskedOK' BY <2>3, <2>5, <2>6 DEF LoopInv, ChatTypes, AskedOK
  <2>8. QED BY <2>1, <2>4, <2>7 DEF LoopInv
<1>7. QED BY <1>1, <1>2, <1>3, <1>4, <1>5, <1>6 DEF LoopStep

\* An answer resumes the one loop that waits for it, or none.
LEMMA AnswerKept ==
  ASSUME LoopInv, NEW i \in Confirms, NEW a \in Answers, AnswerLoop(i, a) \/ AnswerRow(i, a)
  PROVE  LoopInv'
<1> USE ChatConfig
<1>1. messages' \in [Confirms -> Seq(Answers)]
  <2>1. messages' = messages \/ messages' = [messages EXCEPT ![i] = Append(@, a)]
    BY DEF AnswerLoop, AnswerRow, ResolveRow, SaveMessage
  <2>2. messages \in [Confirms -> Seq(Answers)] BY DEF LoopInv, ChatTypes
  <2>3. [messages EXCEPT ![i] = Append(@, a)] \in [Confirms -> Seq(Answers)]
    BY <2>2, AnswerAppended
  <2>4. QED BY <2>1, <2>2, <2>3
<1>2. rows' = rows \/ rows' = [rows EXCEPT ![i] = a]
  BY DEF AnswerLoop, AnswerRow, ResolveRow
<1>3. rows' \in [Confirms -> {"unasked", "missing", "pending"} \cup Answers]
  BY ZenonT(60), <1>2 DEF LoopInv, ChatTypes
<1>4. unrecorded' \subseteq Confirms
  BY DEF LoopInv, ChatTypes, AnswerLoop, AnswerRow, ResolveRow
<1>5. asks' = asks /\ \A j \in Confirms : rows[j] # "unasked" => rows'[j] # "unasked"
  BY <1>2 DEF LoopInv, ChatTypes, AnswerLoop, AnswerRow, loopVars
<1>6. CASE AnswerLoop(i, a)
  <2>1. given' \in [Confirms -> Seq(Answers)]
    BY <1>6, AnswerAppended DEF LoopInv, ChatTypes, AnswerLoop
  <2>2. loop' = [s \in Streams |-> IF loop[s] = "waiting" /\ asks[s] = i THEN "running" ELSE loop[s]]
    BY <1>6 DEF AnswerLoop
  <2>3. loop' \in [Streams -> LoopState] BY <2>2 DEF LoopInv, ChatTypes, LoopState
  <2>4. confirmQueue' = confirmQueue \ {i} /\ shown' = shown /\ closing' = closing /\ crashes' = crashes
    BY <1>6 DEF AnswerLoop
  <2>5. ChatTypes' BY <1>1, <1>3, <1>4, <1>5, <2>1, <2>3, <2>4 DEF LoopInv, ChatTypes
  <2>6. QueueOK' BY <1>5, <2>2, <2>4 DEF LoopInv, ChatTypes, QueueOK
  <2>7. \A s \in Streams : loop'[s] \in {"asking", "waiting"} => loop[s] \in {"asking", "waiting"}
    BY <2>2
  <2>8. AskedOK' BY <1>5, <2>7 DEF LoopInv, AskedOK
  <2>9. QED BY <2>5, <2>6, <2>8 DEF LoopInv
<1>7. CASE AnswerRow(i, a)
  <2>1. UNCHANGED <<loop, asks, closing, confirmQueue, shown, given, crashes>>
    BY <1>7 DEF AnswerRow, loopVars
  <2>2. ChatTypes' BY <1>1, <1>3, <1>4, <2>1 DEF LoopInv, ChatTypes
  <2>3. QueueOK' BY <2>1 DEF LoopInv, QueueOK
  <2>4. AskedOK' BY <1>5, <2>1 DEF LoopInv, AskedOK
  <2>5. QED BY <2>2, <2>3, <2>4 DEF LoopInv
<1>8. QED BY <1>6, <1>7

\* So do timers, pages and crashes: after a crash nobody waits.
LEMMA OtherKept ==
  ASSUME LoopInv,
         \/ \E s \in Streams : CloseStream(s) \/ Expire(s)
         \/ \E k \in Sockets : Page(k)
         \/ Crash \/ UNCHANGED vars
  PROVE  LoopInv'
<1>1. ASSUME UNCHANGED chatVars PROVE LoopInv'
  BY <1>1 DEF LoopInv, ChatTypes, QueueOK, AskedOK, chatVars, loopVars, confirmVars
<1>2. ASSUME NEW s \in Streams, CloseStream(s) PROVE LoopInv'
  BY <1>2 DEF LoopInv, ChatTypes, QueueOK, AskedOK, CloseStream, confirmVars
<1>3. CASE Crash
  <2>1. /\ loop' = [s \in Streams |-> IF loop[s] \in {"running", "asking", "waiting"} THEN "lost" ELSE loop[s]]
        /\ confirmQueue' = {} /\ crashes' = crashes + 1 /\ crashes < MaxCrashes
        /\ closing' = [s \in Streams |-> FALSE]
        /\ UNCHANGED <<asks, rows, shown, given, messages, unrecorded>>
    BY <1>3 DEF Crash
  <2>2. crashes' \in 0..MaxCrashes BY <2>1, ChatConfig DEF LoopInv, ChatTypes
  <2>3. loop' \in [Streams -> LoopState] BY <2>1 DEF LoopInv, ChatTypes, LoopState
  <2>4. ChatTypes' BY <2>1, <2>2, <2>3 DEF LoopInv, ChatTypes
  <2>5. \A s \in Streams : loop'[s] \notin {"asking", "waiting"} BY <2>1
  <2>6. QueueOK' BY <2>1, <2>5 DEF LoopInv, QueueOK
  <2>7. AskedOK' BY <2>1, <2>5 DEF LoopInv, AskedOK
  <2>8. QED BY <2>4, <2>6, <2>7 DEF LoopInv
<1>4. QED BY <1>1, <1>2, <1>3 DEF Expire, Page, vars

\* The invariant holds at the start.
LEMMA TypeInvInit == ChatInit => TypeInv
<1> SUFFICES ASSUME ChatInit PROVE TypeInv OBVIOUS
<1>1. <<>> \in Seq(Nat) /\ <<>> \in Seq(Answers) OBVIOUS
<1>2. StreamTypeOK BY <1>1 DEF ChatInit, StreamInit, StreamTypeOK, LinkState
<1>3. ChatTypes BY <1>1, ChatConfig DEF ChatInit, ChatTypes, LoopState
<1>4. QueueOK /\ AskedOK BY ChatConfig DEF ChatInit, QueueOK, AskedOK
<1>5. \A s \in Streams : buffers[s] = <<>> BY DEF ChatInit, StreamInit
<1>6. QED BY <1>2, <1>3, <1>4, <1>5, TypeInvParts DEF BufferTypes, LoopInv

\* Every step keeps it.
LEMMA TypeInvNext == TypeInv /\ [ChatNext]_vars => TypeInv'
<1> SUFFICES ASSUME TypeInv, [ChatNext]_vars PROVE TypeInv' OBVIOUS
<1>1. LoopInv BY TypeInvParts
<1>2. LoopInv' BY <1>1, LoopStepKept, AnswerKept, OtherKept DEF ChatNext
<1>3. BufferTypes' BY BufferTypesKept
<1>4. (TypeInv <=> BufferTypes /\ LoopInv)' BY TypeInvParts, PTL
<1>5. QED BY <1>2, <1>3, <1>4

\* So it always holds; what follows is proved on top of it.
LEMMA TypeInvariant == ChatSpec => []TypeInv
BY TypeInvInit, TypeInvNext, PTL DEF ChatSpec

\* Types, and with them: a question is in the queue exactly while a loop
\* waits for it, and no buffer is without a timer that clears it.
THEOREM ChatTypesHold == ChatSpec => []ChatTypeOK
<1>1. TypeInv => ChatTypeOK BY DEF TypeInv
<1>2. QED BY <1>1, TypeInvariant, PTL
-----------------------------------------------------------------------------
(* No gap *)

\* What NoGap rests on: only sockets in use are subscribed, each to its own
\* stream, and a socket that has not subscribed yet has received nothing.
LinksOK ==
  /\ \A s \in Streams : \A k \in subscribers[s] :
       target[k] = s /\ link[k] \in {"subscribed", "lost"}
  /\ \A k \in Sockets : link[k] \in {"unused", "open"} => got[k] = <<>>

BufferOK ==
  \A s \in Streams :
    UpTo(buffers[s], emitted[s]) /\ (buffers[s] # <<>> => emitted[s] \in 1..emitted[s])

SubscribersOK ==
  \A s \in Streams : \A k \in subscribers[s] : link[k] = "subscribed" => got[k] = buffers[s]

GotOK(k) == got[k] # <<>> =>
  target[k] \in Streams /\ \E n \in 1..emitted[target[k]] : UpTo(got[k], n)

GapInv == LinksOK /\ BufferOK /\ SubscribersOK /\ \A k \in Sockets : GotOK(k)

\* The invariant contains the property.
LEMMA GapInvImplies == GapInv => NoGap
BY DEF GapInv, LinksOK, BufferOK, SubscribersOK, GotOK, NoGap

\* The next event continues a stretch of a stream.
LEMMA UpToAppend ==
  ASSUME NEW q \in Seq(Nat), NEW n \in Nat, UpTo(q, n) PROVE UpTo(Append(q, n + 1), n + 1)
<1>1. Len(Append(q, n + 1)) = Len(q) + 1 OBVIOUS
<1>2. ASSUME NEW i \in DOMAIN Append(q, n + 1)
      PROVE  Append(q, n + 1)[i] = n + 1 - (Len(q) + 1) + i
  <2>1. CASE i \in DOMAIN q BY <2>1 DEF UpTo
  <2>2. CASE i = Len(q) + 1 BY <2>2
  <2>3. QED BY <1>2, <2>1, <2>2
<1>3. QED BY <1>1, <1>2 DEF UpTo

\* An event reaches the buffer and its connected subscribers together.
LEMMA AppendKeepsGap ==
  ASSUME StreamTypeOK, GapInv, NEW s \in Streams, AppendEvent(s) PROVE GapInv'
<1> DEFINE event == emitted[s] + 1
<1>1. emitted[s] \in Nat /\ buffers[s] \in Seq(Nat) /\ event \in Nat BY DEF StreamTypeOK
<1>2. /\ emitted' = [emitted EXCEPT ![s] = event]
      /\ buffers' = [buffers EXCEPT ![s] = Append(buffers[s], event)]
      /\ \A k \in Sockets : got'[k] = IF k \in subscribers[s] /\ link[k] = "subscribed"
                                      THEN Append(got[k], event) ELSE got[k]
      /\ UNCHANGED <<subscribers, link, target>>
  BY DEF AppendEvent
<1>3. UpTo(Append(buffers[s], event), event)
  BY <1>1, UpToAppend DEF GapInv, BufferOK
<1>4. LinksOK'
  <2>1. \A k \in Sockets : link[k] \in {"unused", "open"} => got'[k] = <<>>
    BY <1>2 DEF GapInv, LinksOK
  <2>2. QED BY <1>2, <2>1 DEF GapInv, LinksOK
<1>5. BufferOK'
  <2>1. ASSUME NEW t \in Streams
        PROVE  UpTo(buffers'[t], emitted'[t]) /\ (buffers'[t] # <<>> => emitted'[t] \in 1..emitted'[t])
    <3>1. CASE t = s
      <4>1. emitted'[t] = event /\ buffers'[t] = Append(buffers[s], event)
        BY <1>2, <3>1 DEF StreamTypeOK
      <4>2. event \in 1..event BY <1>1
      <4>3. QED BY <1>3, <4>1, <4>2
    <3>2. CASE t # s BY <1>2, <3>2 DEF StreamTypeOK, GapInv, BufferOK
    <3>3. QED BY <3>1, <3>2
  <2>2. QED BY <2>1 DEF BufferOK, UpTo
<1>6. SubscribersOK'
  <2>1. ASSUME NEW t \in Streams, NEW k \in subscribers[t], link[k] = "subscribed"
        PROVE  got'[k] = buffers'[t]
    <3>0. k \in Sockets /\ got[k] = buffers[t] /\ target[k] = t
      BY <2>1 DEF StreamTypeOK, GapInv, SubscribersOK, LinksOK
    <3>1. CASE t = s
      <4>1. buffers'[t] = Append(buffers[s], event) BY <1>2, <3>1 DEF StreamTypeOK
      <4>2. got'[k] = Append(got[k], event) BY <1>2, <2>1, <3>0, <3>1
      <4>3. QED BY <4>1, <4>2, <3>0, <3>1
    <3>2. CASE t # s
      <4>1. k \notin subscribers[s] BY <3>0, <3>2 DEF GapInv, LinksOK
      <4>2. QED BY <1>2, <3>0, <3>2, <4>1 DEF StreamTypeOK
    <3>3. QED BY <3>1, <3>2
  <2>2. QED BY <1>2, <2>1 DEF SubscribersOK
<1>7. ASSUME NEW k \in Sockets PROVE GotOK(k)'
  <2>1. CASE k \in subscribers[s] /\ link[k] = "subscribed"
    <3>1. target[k] = s /\ got[k] = buffers[s]
      BY <2>1 DEF GapInv, LinksOK, SubscribersOK
    <3>2. got'[k] = Append(buffers[s], event) BY <1>2, <2>1, <3>1
    <3>3. emitted'[s] = event /\ target'[k] = s BY <1>2, <3>1 DEF StreamTypeOK
    <3>4. event \in 1..event BY <1>1
    <3>5. target'[k] \in Streams /\ emitted'[target'[k]] = event BY <3>3
    <3>6. (\E n \in 1..emitted[target[k]] : UpTo(got[k], n))'
      BY <1>3, <3>2, <3>4, <3>5 DEF UpTo
    <3>7. QED BY <3>5, <3>6 DEF GotOK
  <2>2. CASE ~(k \in subscribers[s] /\ link[k] = "subscribed")
    <3>1. got'[k] = got[k] /\ target'[k] = target[k] BY <1>2, <2>2
    <3>2. ASSUME got[k] # <<>>
          PROVE  target[k] \in Streams /\ \E n \in 1..emitted'[target[k]] : UpTo(got[k], n)
      <4>1. target[k] \in Streams BY <3>2 DEF GapInv, GotOK
      <4>2. PICK n \in 1..emitted[target[k]] : UpTo(got[k], n) BY <3>2 DEF GapInv, GotOK
      <4>3. emitted[target[k]] \in Nat /\ emitted'[target[k]] \in Nat /\ emitted[target[k]] <= emitted'[target[k]]
        BY <1>1, <1>2, <4>1 DEF StreamTypeOK
      <4>4. n \in 1..emitted'[target[k]] BY <4>2, <4>3
      <4>5. QED BY <4>1, <4>2, <4>4
    <3>3. QED BY <3>1, <3>2 DEF GotOK, UpTo
  <2>3. QED BY <2>1, <2>2
<1>8. QED BY <1>4, <1>5, <1>6, <1>7 DEF GapInv

\* Clearing takes the buffer and the subscribers together.
LEMMA ClearKeepsGap ==
  ASSUME StreamTypeOK, GapInv, NEW s \in Streams, Clear(s), UNCHANGED <<socketVars, emitted>>
  PROVE  GapInv'
<1>1. /\ buffers' = [buffers EXCEPT ![s] = <<>>]
      /\ subscribers' = [subscribers EXCEPT ![s] = {}]
      /\ UNCHANGED <<link, target, got, emitted>>
  BY DEF Clear, socketVars
<1>2. LinksOK' BY <1>1 DEF StreamTypeOK, GapInv, LinksOK
<1>3. BufferOK'
  <2>1. ASSUME NEW t \in Streams
        PROVE  UpTo(buffers'[t], emitted[t]) /\ (buffers'[t] # <<>> => emitted[t] \in 1..emitted[t])
    <3>1. CASE t = s
      <4>1. buffers'[t] = <<>> BY <1>1, <3>1 DEF StreamTypeOK
      <4>2. QED BY <4>1 DEF UpTo
    <3>2. CASE t # s BY <1>1, <3>2 DEF StreamTypeOK, GapInv, BufferOK
    <3>3. QED BY <3>1, <3>2
  <2>2. QED BY <1>1, <2>1 DEF BufferOK, UpTo
<1>4. SubscribersOK' BY <1>1 DEF StreamTypeOK, GapInv, SubscribersOK
<1>5. \A k \in Sockets : GotOK(k)' BY <1>1 DEF GapInv, GotOK, UpTo
<1>6. QED BY <1>2, <1>3, <1>4, <1>5 DEF GapInv

\* A subscription starts with the whole buffer.
LEMMA SocketsKeepGap ==
  ASSUME StreamTypeOK, GapInv, NEW k \in Sockets, Page(k) PROVE GapInv'
<1>1. ASSUME NEW s \in Streams, Connect(k, s) PROVE GapInv'
  <2>1. got[k] = <<>> /\ \A t \in Streams : k \notin subscribers[t]
    BY <1>1 DEF GapInv, LinksOK, Connect
  <2>2. /\ link' = [link EXCEPT ![k] = "open"] /\ target' = [target EXCEPT ![k] = s]
        /\ UNCHANGED <<got, emitted, buffers, subscribers>>
    BY <1>1 DEF Connect, bufferVars
  <2>3. LinksOK' /\ SubscribersOK'
    BY <2>1, <2>2 DEF StreamTypeOK, GapInv, LinksOK, SubscribersOK
  <2>4. BufferOK' BY <2>2 DEF GapInv, BufferOK, UpTo
  <2>5. ASSUME NEW j \in Sockets PROVE GotOK(j)'
    BY SMTT(60), <2>1, <2>2 DEF StreamTypeOK, GapInv, GotOK, UpTo
  <2>6. QED BY <2>3, <2>4, <2>5 DEF GapInv
<1>2. ASSUME Subscribe(k) PROVE GapInv'
  <2> DEFINE s == target[k]
  <2>1. s \in Streams /\ got[k] = <<>> /\ buffers[s] \in Seq(Nat)
    BY <1>2 DEF StreamTypeOK, GapInv, LinksOK, Subscribe
  <2>2. got[k] \o buffers[s] = buffers[s] BY <2>1
  <2>3. /\ link' = [link EXCEPT ![k] = "subscribed"]
        /\ got' = [got EXCEPT ![k] = buffers[s]]
        /\ \A t \in Streams : subscribers'[t] = IF t = s THEN subscribers[t] \cup {k} ELSE subscribers[t] \ {k}
        /\ UNCHANGED <<buffers, target, emitted>>
    BY <1>2, <2>2 DEF Subscribe
  <2> HIDE DEF s
  <2>4. LinksOK'
    <3>1. ASSUME NEW t \in Streams, NEW j \in subscribers'[t]
          PROVE  target[j] = t /\ link'[j] \in {"subscribed", "lost"}
      <4>1. CASE j = k BY <2>3, <3>1, <4>1 DEF StreamTypeOK, s
      <4>2. CASE j # k
        <5>1. j \in subscribers[t] BY <2>3, <3>1, <4>2
        <5>2. link'[j] = link[j] BY <2>3, <4>2
        <5>3. QED BY <5>1, <5>2 DEF GapInv, LinksOK
      <4>3. QED BY <4>1, <4>2
    <3>2. ASSUME NEW j \in Sockets, link'[j] \in {"unused", "open"} PROVE got'[j] = <<>>
      BY <2>3, <3>2 DEF StreamTypeOK, GapInv, LinksOK
    <3>3. QED BY <2>3, <3>1, <3>2 DEF LinksOK
  <2>5. BufferOK' BY <2>3 DEF GapInv, BufferOK, UpTo
  <2>6. SubscribersOK'
    <3>1. ASSUME NEW t \in Streams, NEW j \in subscribers'[t], link'[j] = "subscribed"
          PROVE  got'[j] = buffers[t]
      <4>1. CASE j = k
        <5>1. t = s BY <2>3, <3>1, <4>1
        <5>2. got'[k] = buffers[s] BY <2>3 DEF StreamTypeOK
        <5>3. QED BY <4>1, <5>1, <5>2
      <4>2. CASE j # k
        <5>1. j \in subscribers[t] BY <2>3, <3>1, <4>2
        <5>2. j \in Sockets /\ link[j] = "subscribed" /\ got'[j] = got[j]
          BY <2>3, <3>1, <4>2, <5>1 DEF StreamTypeOK
        <5>3. QED BY <5>1, <5>2 DEF GapInv, SubscribersOK
      <4>3. QED BY <4>1, <4>2
    <3>2. QED BY <2>3, <3>1 DEF SubscribersOK
  <2>7. ASSUME NEW j \in Sockets PROVE GotOK(j)'
    <3>1. CASE j = k
      <4>1. got'[j] = buffers[s] /\ target'[j] = s /\ emitted' = emitted
        BY <2>3, <3>1 DEF StreamTypeOK, s
      <4>2. UpTo(buffers[s], emitted[s]) /\ (buffers[s] # <<>> => emitted[s] \in 1..emitted[s])
        BY <2>1 DEF GapInv, BufferOK
      <4>3. QED BY <2>1, <4>1, <4>2 DEF GotOK, UpTo
    <3>2. CASE j # k
      <4>1. got'[j] = got[j] /\ UNCHANGED <<target, emitted>> BY <2>3, <3>2 DEF StreamTypeOK
      <4>2. QED BY <4>1 DEF GapInv, GotOK, UpTo
    <3>3. QED BY <3>1, <3>2
  <2>8. QED BY <2>4, <2>5, <2>6, <2>7 DEF GapInv
<1>3. ASSUME Lose(k) PROVE GapInv'
  <2>1. /\ link' = [link EXCEPT ![k] = "lost"] /\ link[k] \in {"open", "subscribed"}
        /\ UNCHANGED <<target, got, emitted, buffers, subscribers>>
    BY <1>3 DEF Lose, bufferVars
  <2>2. LinksOK' /\ SubscribersOK'
    BY <2>1 DEF StreamTypeOK, GapInv, LinksOK, SubscribersOK
  <2>3. BufferOK' /\ \A j \in Sockets : GotOK(j)' BY <2>1 DEF GapInv, BufferOK, GotOK, UpTo
  <2>4. QED BY <2>2, <2>3 DEF GapInv
<1>4. ASSUME Cleanup(k) PROVE GapInv'
  <2>1. /\ link' = [link EXCEPT ![k] = "closed"]
        /\ \A t \in Streams : subscribers'[t] = subscribers[t] \ {k}
        /\ UNCHANGED <<target, got, emitted, buffers>>
    BY <1>4 DEF Cleanup
  <2>2. LinksOK' /\ SubscribersOK'
    BY <2>1 DEF StreamTypeOK, GapInv, LinksOK, SubscribersOK
  <2>3. BufferOK' /\ \A j \in Sockets : GotOK(j)' BY <2>1 DEF GapInv, BufferOK, GotOK, UpTo
  <2>4. QED BY <2>2, <2>3 DEF GapInv
<1>5. QED BY <1>1, <1>2, <1>3, <1>4 DEF Page

\* A crash takes everything.
LEMMA CrashKeepsGap == ASSUME StreamTypeOK, GapInv, StreamCrash PROVE GapInv'
<1>1. /\ \A s \in Streams : buffers'[s] = <<>> /\ subscribers'[s] = {}
      /\ \A k \in Sockets : link'[k] = IF link[k] = "unused" THEN "unused" ELSE "closed"
      /\ UNCHANGED <<target, got, emitted>>
  BY DEF StreamCrash
<1>2. LinksOK' /\ SubscribersOK' BY <1>1 DEF GapInv, LinksOK, SubscribersOK
<1>3. BufferOK' BY <1>1 DEF BufferOK, UpTo
<1>4. \A k \in Sockets : GotOK(k)' BY <1>1 DEF GapInv, GotOK, UpTo
<1>5. QED BY <1>2, <1>3, <1>4 DEF GapInv

\* Every step keeps the invariant.
LEMMA GapInvNext == ASSUME TypeInv, GapInv, [ChatNext]_vars PROVE GapInv'
<1>0. StreamTypeOK BY DEF TypeInv, ChatTypeOK
<1>1. ASSUME UNCHANGED streamVars PROVE GapInv'
  <2>1. UNCHANGED <<buffers, subscribers, link, target, got, emitted>>
    BY <1>1 DEF streamVars, bufferVars, socketVars
  <2>2. QED BY <2>1 DEF GapInv, LinksOK, BufferOK, SubscribersOK, GotOK, UpTo
<1>2. ASSUME NEW s \in Streams, Start(s) \/ LoopStep(s) \/ CloseStream(s) \/ Expire(s)
      PROVE  GapInv'
  <2>1. CASE Start(s) \/ QuestionFails(s) \/ \E i \in Confirms : CreateConfirm(s, i)
    BY <2>1, <1>1 DEF Start, QuestionFails, CreateConfirm
  <2>2. CASE Emit(s) \/ AwaitAnswer(s) \/ EndStream(s)
    BY <2>2, <1>0, AppendKeepsGap DEF Emit, AwaitAnswer, EndStream
  <2>3. CASE CloseStream(s) \/ Expire(s)
    BY <2>3, <1>0, ClearKeepsGap DEF CloseStream, Expire
  <2>4. QED BY <1>2, <2>1, <2>2, <2>3 DEF LoopStep
<1>3. ASSUME NEW i \in Confirms, NEW a \in Answers, AnswerLoop(i, a) \/ AnswerRow(i, a)
      PROVE  GapInv'
  BY <1>3, <1>1 DEF AnswerLoop, AnswerRow
<1>4. ASSUME NEW k \in Sockets, Page(k) PROVE GapInv' BY <1>0, <1>4, SocketsKeepGap
<1>5. ASSUME Crash PROVE GapInv' BY <1>0, <1>5, CrashKeepsGap DEF Crash
<1>6. ASSUME UNCHANGED vars PROVE GapInv' BY <1>6, <1>1 DEF vars
<1>7. QED BY <1>2, <1>3, <1>4, <1>5, <1>6 DEF ChatNext

\* What reaches a page has no gap and no repetition, whoever connects, loses
\* its connection or comes late, and whenever the buffer is cleared.
THEOREM NoGapHolds == ChatSpec => []NoGap
<1>1. ChatInit => GapInv
  BY DEF ChatInit, StreamInit, GapInv, LinksOK, BufferOK, SubscribersOK, GotOK, UpTo
<1>2. TypeInv /\ GapInv /\ [ChatNext]_vars => GapInv' BY GapInvNext
<1>3. QED BY <1>1, <1>2, TypeInvariant, GapInvImplies, PTL DEF ChatSpec
-----------------------------------------------------------------------------
(* One answer to a question *)

\* Nothing is given or saved before the question is shown, and a question in
\* the queue has no answer anywhere.
QuestionOK(i) ==
  /\ given[i] # <<>> => i \in shown
  /\ i \in shown => rows[i] # "unasked"
  /\ i \in confirmQueue => given[i] = <<>> /\ rows[i] \notin Answers
  /\ rows[i] \notin Answers => messages[i] = <<>>

AgreeOK(i) ==
  /\ Len(given[i]) <= 1 /\ Len(messages[i]) <= 1
  /\ messages[i] # <<>> => rows[i] = messages[i][1]
  /\ given[i] # <<>> /\ rows[i] # "missing" => rows[i] = given[i][1] \/ i \in unrecorded

\* A loop about to ask has not shown its question.
AskingOK == \A s \in Streams : loop[s] = "asking" => asks[s] \notin shown /\ rows[asks[s]] \notin Answers

AnswerInv == AskingOK /\ \A i \in Confirms : QuestionOK(i) /\ AgreeOK(i)

\* The invariant contains the property.
LEMMA AnswerInvImplies == AnswerInv => AnswersAgree
BY DEF AnswerInv, AgreeOK, AnswersAgree

\* Steps that leave questions and answers alone.
LEMMA AnswersUntouched ==
  ASSUME AnswerInv, UNCHANGED <<asks, rows, shown, given, messages, unrecorded>>,
         confirmQueue' \subseteq confirmQueue,
         \A s \in Streams : loop'[s] = "asking" => loop[s] = "asking"
  PROVE  AnswerInv'
<1>1. AskingOK' BY DEF AnswerInv, AskingOK
<1>2. ASSUME NEW i \in Confirms PROVE QuestionOK(i)' /\ AgreeOK(i)'
  BY DEF AnswerInv, QuestionOK, AgreeOK
<1>3. QED BY <1>1, <1>2 DEF AnswerInv

\* Asking: the question is new, and shown once.
LEMMA AskKeepsAnswers ==
  ASSUME TypeInv, AnswerInv, NEW s \in Streams,
         AwaitAnswer(s) \/ \E i \in Confirms : CreateConfirm(s, i)
  PROVE  AnswerInv'
<1> USE ChatConfig
<1>0. LoopInv BY TypeInvParts
<1>1. ASSUME NEW i \in Confirms, CreateConfirm(s, i) PROVE AnswerInv'
  <2>1. rows[i] = "unasked" /\ rows'[i] \in {"pending", "missing"}
        /\ \A j \in Confirms : j # i => rows'[j] = rows[j]
    BY <1>0, <1>1 DEF LoopInv, ChatTypes, CreateConfirm
  <2>2. UNCHANGED <<confirmQueue, shown, given, messages, unrecorded>>
        /\ loop' = [loop EXCEPT ![s] = "asking"] /\ asks' = [asks EXCEPT ![s] = i]
    BY <1>1 DEF CreateConfirm
  <2>3. i \notin shown /\ given[i] = <<>> /\ messages[i] = <<>>
    BY <2>1 DEF AnswerInv, QuestionOK
  <2>4. AskingOK'
    <3>1. ASSUME NEW t \in Streams, loop'[t] = "asking"
          PROVE  asks'[t] \notin shown /\ rows'[asks'[t]] \notin Answers
      <4>1. CASE t = s BY <1>0, <2>1, <2>2, <2>3, <4>1 DEF LoopInv, ChatTypes
      <4>2. CASE t # s
        <5>1. loop[t] = "asking" /\ asks'[t] = asks[t]
          BY <1>0, <2>2, <3>1, <4>2 DEF LoopInv, ChatTypes
        <5>2. asks[t] \in Confirms /\ asks[t] # i BY <1>0, <2>1, <5>1 DEF LoopInv, AskedOK
        <5>3. QED BY <2>1, <5>1, <5>2 DEF AnswerInv, AskingOK
      <4>3. QED BY <4>1, <4>2
    <3>2. QED BY <2>2, <3>1 DEF AskingOK
  <2>5. ASSUME NEW j \in Confirms PROVE QuestionOK(j)' /\ AgreeOK(j)'
    <3>1. CASE j = i
      <4>1. i \notin confirmQueue BY <1>0, <2>3 DEF LoopInv, ChatTypes
      <4>2. QED BY <2>1, <2>2, <2>3, <3>1, <4>1 DEF QuestionOK, AgreeOK
    <3>2. CASE j # i BY <2>1, <2>2, <3>2 DEF AnswerInv, QuestionOK, AgreeOK
    <3>3. QED BY <3>1, <3>2
  <2>6. QED BY <2>4, <2>5 DEF AnswerInv
<1>2. ASSUME AwaitAnswer(s) PROVE AnswerInv'
  <2> DEFINE q == asks[s]
  <2>1. q \in Confirms /\ q \notin shown /\ rows[q] \notin Answers /\ rows[q] # "unasked"
    BY <1>0, <1>2 DEF LoopInv, AskedOK, AnswerInv, AskingOK, AwaitAnswer
  <2>2. given[q] = <<>> BY <2>1 DEF AnswerInv, QuestionOK
  <2>3. /\ UNCHANGED <<asks, rows, given, messages, unrecorded>>
        /\ shown' = shown \cup {q} /\ confirmQueue' = confirmQueue \cup {q}
        /\ loop' = [loop EXCEPT ![s] = "waiting"]
    BY <1>2 DEF AwaitAnswer
  <2>4. \A t \in Streams : t # s => asks[t] # q
    BY <1>0, <2>1 DEF LoopInv, QueueOK
  <2> HIDE DEF q
  <2>5. AskingOK'
    <3>1. \A t \in Streams : loop'[t] = "asking" => t # s /\ loop[t] = "asking"
      BY <1>0, <2>3 DEF LoopInv, ChatTypes
    <3>2. QED BY <2>3, <2>4, <3>1 DEF AnswerInv, AskingOK
  <2>6. ASSUME NEW j \in Confirms PROVE QuestionOK(j)' /\ AgreeOK(j)'
    BY <2>1, <2>2, <2>3 DEF AnswerInv, QuestionOK, AgreeOK
  <2>7. QED BY <2>5, <2>6 DEF AnswerInv
<1>3. QED BY <1>1, <1>2

\* Answering: a message is saved only with the row, and both hold the answer.
LEMMA MessageSaved ==
  ASSUME NEW i \in Confirms, NEW a \in Answers, messages \in [Confirms -> Seq(Answers)],
         messages[i] = <<>>, SaveMessage(i, a)
  PROVE  /\ messages'[i] \in {<<>>, <<a>>}
         /\ \A j \in Confirms : j # i => messages'[j] = messages[j]
<1>1. Append(<<>>, a) = <<a>> OBVIOUS
<1>2. QED BY <1>1 DEF SaveMessage

\* Answering: the loop, the row and the conversation get the same answer.
LEMMA AnswerKeepsAnswers ==
  ASSUME TypeInv, AnswerInv, NEW i \in Confirms, NEW a \in Answers,
         AnswerLoop(i, a) \/ AnswerRow(i, a)
  PROVE  AnswerInv'
<1> USE ChatConfig
<1>0. LoopInv BY TypeInvParts
<1>1. messages \in [Confirms -> Seq(Answers)] /\ given \in [Confirms -> Seq(Answers)]
  BY <1>0 DEF LoopInv, ChatTypes
<1>2. rows \in [Confirms -> {"unasked", "missing", "pending"} \cup Answers] /\ i \in shown
      /\ confirmQueue \subseteq shown
  BY <1>0 DEF LoopInv, ChatTypes, AnswerLoop, AnswerRow
<1>3. rows[i] # "unasked" BY <1>2 DEF AnswerInv, QuestionOK
<1>4. <<a>> # <<>> /\ Len(<<a>>) = 1 /\ <<a>>[1] = a /\ Len(<<>>) = 0 OBVIOUS
<1>4a. ASSUME NEW w \in {<<>>, <<a>>} PROVE Len(w) <= 1
  <2>1. CASE w = <<>> BY <2>1
  <2>2. CASE w = <<a>> BY <2>2
  <2>3. QED BY <2>1, <2>2
<1>5. CASE AnswerLoop(i, a)
  <2>1. given[i] = <<>> /\ rows[i] \notin Answers /\ messages[i] = <<>>
    BY <1>5 DEF AnswerInv, QuestionOK, AnswerLoop
  <2>2. Append(<<>>, a) = <<a>> OBVIOUS
  <2>3. given'[i] = <<a>> /\ \A j \in Confirms : j # i => given'[j] = given[j]
    BY <1>1, <1>5, <2>1, <2>2 DEF AnswerLoop
  <2>4. confirmQueue' = confirmQueue \ {i} /\ shown' = shown /\ asks' = asks
        /\ \A s \in Streams : loop'[s] = "asking" => loop[s] = "asking"
    BY <1>5 DEF AnswerLoop
  <2>5. CASE rows[i] # "pending"
    <3>1. rows[i] = "missing" /\ UNCHANGED <<rows, messages, unrecorded>>
      BY <1>2, <1>3, <1>5, <2>1, <2>5 DEF AnswerLoop, ResolveRow
    <3>2. AskingOK' BY <2>4, <3>1 DEF AnswerInv, AskingOK
    <3>3. ASSUME NEW j \in Confirms PROVE QuestionOK(j)' /\ AgreeOK(j)'
      <4>1. CASE j = i
        <5>1. given'[i] \in {<<>>, <<a>>} /\ messages'[i] \in {<<>>, <<a>>} BY <2>1, <2>3, <2>4, <3>1
        <5>2. QuestionOK(i)' BY <1>2, <1>3, <2>1, <2>3, <2>4, <3>1 DEF QuestionOK
        <5>3. Len(given'[i]) <= 1 /\ Len(messages'[i]) <= 1 BY <1>4a, <5>1
        <5>4. AgreeOK(i)' BY <1>4, <5>1, <5>3, <2>1, <2>3, <2>4, <3>1 DEF AgreeOK
        <5>5. QED BY <5>2, <5>4, <4>1
      <4>2. CASE j # i BY <2>3, <2>4, <3>1, <4>2 DEF AnswerInv, QuestionOK, AgreeOK
      <4>3. QED BY <4>1, <4>2
    <3>4. QED BY <3>2, <3>3 DEF AnswerInv
  <2>6. CASE rows[i] = "pending" /\ rows' = [rows EXCEPT ![i] = a] /\ SaveMessage(i, a) /\ UNCHANGED unrecorded
    <3>1. messages'[i] \in {<<>>, <<a>>} /\ \A j \in Confirms : j # i => messages'[j] = messages[j]
      BY <1>1, <2>1, <2>6, MessageSaved
    <3>2. rows'[i] = a /\ \A j \in Confirms : j # i => rows'[j] = rows[j] BY <1>2, <2>6
    <3>3. AskingOK'
      <4>1. \A s \in Streams : loop[s] = "asking" => asks[s] # i /\ asks[s] \in Confirms
        BY <1>0, <1>2 DEF AnswerInv, AskingOK, LoopInv, AskedOK
      <4>2. QED BY <2>4, <3>2, <4>1 DEF AnswerInv, AskingOK
    <3>4. ASSUME NEW j \in Confirms PROVE QuestionOK(j)' /\ AgreeOK(j)'
      <4>1. CASE j = i
        <5>1. given'[i] \in {<<>>, <<a>>} /\ messages'[i] \in {<<>>, <<a>>} BY <2>3, <2>4, <2>6, <3>1, <3>2
        <5>2. QuestionOK(i)' BY <1>2, <1>3, <2>3, <2>4, <2>6, <3>1, <3>2 DEF QuestionOK
        <5>3. Len(given'[i]) <= 1 /\ Len(messages'[i]) <= 1 BY <1>4a, <5>1
        <5>4. AgreeOK(i)' BY <1>4, <5>1, <5>3, <2>3, <2>4, <2>6, <3>1, <3>2 DEF AgreeOK
        <5>5. QED BY <5>2, <5>4, <4>1
      <4>2. CASE j # i BY <2>3, <2>4, <2>6, <3>1, <3>2, <4>2 DEF AnswerInv, QuestionOK, AgreeOK
      <4>3. QED BY <4>1, <4>2
    <3>5. QED BY <3>3, <3>4 DEF AnswerInv
  <2>7. CASE rows[i] = "pending" /\ unrecorded' = unrecorded \cup {i} /\ UNCHANGED <<rows, messages>>
    <3>1. AskingOK' BY <2>4, <2>7 DEF AnswerInv, AskingOK
    <3>2. ASSUME NEW j \in Confirms PROVE QuestionOK(j)' /\ AgreeOK(j)'
      <4>1. CASE j = i
        <5>1. given'[i] \in {<<>>, <<a>>} /\ messages'[i] \in {<<>>, <<a>>} BY <2>1, <2>3, <2>4, <2>7
        <5>2. QuestionOK(i)' BY <1>2, <1>3, <2>1, <2>3, <2>4, <2>7 DEF QuestionOK
        <5>3. Len(given'[i]) <= 1 /\ Len(messages'[i]) <= 1 BY <1>4a, <5>1
        <5>4. AgreeOK(i)' BY <1>4, <5>1, <5>3, <2>1, <2>3, <2>4, <2>7 DEF AgreeOK
        <5>5. QED BY <5>2, <5>4, <4>1
      <4>2. CASE j # i BY <2>3, <2>4, <2>7, <4>2 DEF AnswerInv, QuestionOK, AgreeOK
      <4>3. QED BY <4>1, <4>2
    <3>3. QED BY <3>1, <3>2 DEF AnswerInv
  <2>8. QED BY <1>5, <2>5, <2>6, <2>7 DEF AnswerLoop, ResolveRow
<1>6. CASE AnswerRow(i, a)
  <2>1. rows[i] = "pending" /\ i \notin confirmQueue /\ messages[i] = <<>>
    BY <1>6 DEF AnswerRow, AnswerInv, QuestionOK
  <2>2. given[i] # <<>> => given[i][1] \in Answers BY <1>1
  <2>3. given[i] # <<>> => i \in unrecorded BY <2>1, <2>2 DEF AnswerInv, AgreeOK
  <2>4. messages'[i] \in {<<>>, <<a>>} /\ \A j \in Confirms : j # i => messages'[j] = messages[j]
    BY <1>1, <1>6, <2>1, MessageSaved DEF AnswerRow
  <2>5. rows'[i] = a /\ \A j \in Confirms : j # i => rows'[j] = rows[j] BY <1>2, <1>6 DEF AnswerRow
  <2>6. UNCHANGED <<loop, asks, confirmQueue, shown, given, unrecorded>>
    BY <1>6 DEF AnswerRow, loopVars
  <2>7. AskingOK'
    <3>1. \A s \in Streams : loop[s] = "asking" => asks[s] # i /\ asks[s] \in Confirms
      BY <1>0, <1>2 DEF AnswerInv, AskingOK, LoopInv, AskedOK
    <3>2. QED BY <2>5, <2>6, <3>1 DEF AnswerInv, AskingOK
  <2>8. ASSUME NEW j \in Confirms PROVE QuestionOK(j)' /\ AgreeOK(j)'
    <3>1. CASE j = i
      <4>1. QuestionOK(i)' BY <1>2, <2>1, <2>5, <2>6 DEF QuestionOK
      <4>2. Len(messages'[i]) <= 1 BY <1>4a, <2>4
      <4>3. Len(given'[i]) <= 1 BY <2>6 DEF AnswerInv, AgreeOK
      <4>4. AgreeOK(i)' BY <1>4, <2>3, <2>4, <2>5, <2>6, <4>2, <4>3 DEF AgreeOK
      <4>5. QED BY <3>1, <4>1, <4>4
    <3>2. CASE j # i BY <2>4, <2>5, <2>6, <3>2 DEF AnswerInv, QuestionOK, AgreeOK
    <3>3. QED BY <3>1, <3>2
  <2>9. QED BY <2>7, <2>8 DEF AnswerInv
<1>7. QED BY <1>5, <1>6

\* Every step keeps the answers in agreement.
LEMMA AnswerInvNext == ASSUME TypeInv, AnswerInv, [ChatNext]_vars PROVE AnswerInv'
<1>0. loop \in [Streams -> LoopState] BY DEF TypeInv, ChatTypeOK
<1>1. ASSUME UNCHANGED confirmVars, UNCHANGED asks,
             \A s \in Streams : loop'[s] = "asking" => loop[s] = "asking"
      PROVE  AnswerInv'
  BY <1>1, AnswersUntouched DEF confirmVars
<1>2. ASSUME NEW s \in Streams, Start(s) \/ LoopStep(s) \/ CloseStream(s) \/ Expire(s)
      PROVE  AnswerInv'
  <2>1. CASE AwaitAnswer(s) \/ \E i \in Confirms : CreateConfirm(s, i) BY <2>1, AskKeepsAnswers
  <2>2. CASE Start(s) \/ QuestionFails(s) \/ EndStream(s)
    BY <1>0, <1>1, <2>2 DEF Start, QuestionFails, EndStream
  <2>3. CASE Emit(s) \/ CloseStream(s) \/ Expire(s)
    BY <1>1, <2>3 DEF Emit, CloseStream, Expire, chatVars, loopVars
  <2>4. QED BY <1>2, <2>1, <2>2, <2>3 DEF LoopStep
<1>3. ASSUME NEW i \in Confirms, NEW a \in Answers, AnswerLoop(i, a) \/ AnswerRow(i, a)
      PROVE  AnswerInv'
  BY <1>3, AnswerKeepsAnswers
<1>4. ASSUME NEW k \in Sockets, Page(k) PROVE AnswerInv'
  BY <1>1, <1>4 DEF Page, chatVars, loopVars
<1>5. ASSUME Crash PROVE AnswerInv'
  <2>1. UNCHANGED <<asks, rows, shown, given, messages, unrecorded>> /\ confirmQueue' = {}
        /\ loop' = [s \in Streams |-> IF loop[s] \in {"running", "asking", "waiting"} THEN "lost" ELSE loop[s]]
    BY <1>5 DEF Crash
  <2>2. \A s \in Streams : loop'[s] # "asking" BY <2>1
  <2>3. QED BY <2>1, <2>2, AnswersUntouched
<1>6. ASSUME UNCHANGED vars PROVE AnswerInv' BY <1>1, <1>6 DEF vars, chatVars, loopVars
<1>7. QED BY <1>2, <1>3, <1>4, <1>5, <1>6 DEF ChatNext

\* A question gets one answer, in the loop, in the table and in the
\* conversation, before and after restarts, unless the database failed.
THEOREM AnswersAgreeHolds == ChatSpec => []AnswersAgree
<1>1. ChatInit => AnswerInv
  <2>1. ASSUME ChatInit, NEW i \in Confirms PROVE QuestionOK(i) /\ AgreeOK(i)
    BY <2>1 DEF ChatInit, QuestionOK, AgreeOK
  <2>2. ChatInit => AskingOK BY DEF ChatInit, AskingOK
  <2>3. QED BY <2>1, <2>2 DEF AnswerInv
<1>2. TypeInv /\ AnswerInv /\ [ChatNext]_vars => AnswerInv' BY AnswerInvNext
<1>3. QED BY <1>1, <1>2, TypeInvariant, AnswerInvImplies, PTL DEF ChatSpec
=============================================================================
