----------------------------- MODULE StreamBuffer -----------------------------
(***************************************************************************)
(* The events of a chat on their way to the page that shows it: the buffer *)
(* of every stream (stream-buffer.ts), the sockets that subscribe to it    *)
(* (websocket-server.ts), and the page that opens a new socket when it has *)
(* lost one (websocket-client.ts).                                         *)
(*                                                                         *)
(* An event is its number in its stream.  A socket is used once, for one   *)
(* stream; what the server sends to it arrives in order or, once the       *)
(* connection is lost, not at all.  The module has no behaviour of its     *)
(* own: ChatStream says who appends and when timers fire.                  *)
(***************************************************************************)
EXTENDS Integers, Sequences

CONSTANTS Streams, Sockets,
          NoStream  \* the stream of a socket not used yet

ASSUME StreamConfig == NoStream \notin Streams

VARIABLES buffers,     \* per stream, the events kept for a replay
          subscribers, \* per stream, the sockets events are pushed to
          timers,      \* per stream, whether the expiry timer is armed
          link,        \* per socket, the state of the connection
          target,      \* per socket, the stream the page wants
          got,         \* per socket, the events that arrived
          emitted      \* history: per stream, the number of events appended

bufferVars == <<buffers, subscribers, timers>>
socketVars == <<link, target, got>>

\* open: the subscription is under way; lost: the server does not know it yet.
LinkState == {"unused", "open", "subscribed", "lost", "closed"}

StreamTypeOK ==
  /\ buffers \in [Streams -> Seq(Nat)]
  /\ subscribers \in [Streams -> SUBSET Sockets]
  /\ timers \in [Streams -> BOOLEAN]
  /\ link \in [Sockets -> LinkState]
  /\ target \in [Sockets -> Streams \cup {NoStream}]
  /\ got \in [Sockets -> Seq(Nat)]
  /\ emitted \in [Streams -> Nat]
  /\ \A k \in Sockets : link[k] # "unused" => target[k] \in Streams

StreamInit ==
  /\ buffers = [s \in Streams |-> <<>>]
  /\ subscribers = [s \in Streams |-> {}]
  /\ timers = [s \in Streams |-> FALSE]
  /\ link = [k \in Sockets |-> "unused"]
  /\ target = [k \in Sockets |-> NoStream]
  /\ got = [k \in Sockets |-> <<>>]
  /\ emitted = [s \in Streams |-> 0]

-----------------------------------------------------------------------------
(* The buffer *)

\* append: keep the event, push it to the subscribers, arm the timer again.
AppendEvent(s) ==
  LET event == emitted[s] + 1
      reached == {k \in subscribers[s] : link[k] = "subscribed"}
  IN /\ emitted' = [emitted EXCEPT ![s] = event]
     /\ buffers' = [buffers EXCEPT ![s] = Append(@, event)]
     /\ got' = [k \in Sockets |-> IF k \in reached THEN Append(got[k], event) ELSE got[k]]
     /\ timers' = [timers EXCEPT ![s] = TRUE]
     /\ UNCHANGED <<subscribers, link, target>>

\* Mutant of Clear: the subscribers outlive the buffer.
Clear_SubscribersKept(s) ==
  /\ buffers' = [buffers EXCEPT ![s] = <<>>]
  /\ timers' = [timers EXCEPT ![s] = FALSE]
  /\ UNCHANGED subscribers

\* Mutant of Clear: the timer is cancelled, the buffer stays.
Clear_BufferKept(s) ==
  /\ subscribers' = [subscribers EXCEPT ![s] = {}]
  /\ timers' = [timers EXCEPT ![s] = FALSE]
  /\ UNCHANGED buffers

\* clear: the buffer goes, and with it everybody who is watching.
Clear(s) ==
  /\ buffers' = [buffers EXCEPT ![s] = <<>>]
  /\ subscribers' = [subscribers EXCEPT ![s] = {}]
  /\ timers' = [timers EXCEPT ![s] = FALSE]

-----------------------------------------------------------------------------
(* The sockets *)

\* The page opens a socket, and on opening it asks for the stream.
Connect(k, s) ==
  /\ link[k] = "unused"
  /\ link' = [link EXCEPT ![k] = "open"]
  /\ target' = [target EXCEPT ![k] = s]
  /\ UNCHANGED <<got, emitted, bufferVars>>

\* handleSubscribe: replay, then subscribe, with nothing in between.
Subscribe(k) ==
  LET s == target[k]
  IN /\ link[k] = "open"
     /\ link' = [link EXCEPT ![k] = "subscribed"]
     /\ got' = [got EXCEPT ![k] = @ \o buffers[s]]
     /\ subscribers' = [t \in Streams |->
          IF t = s THEN subscribers[t] \cup {k} ELSE subscribers[t] \ {k}]
     /\ UNCHANGED <<buffers, timers, target, emitted>>

\* The network fails, or the page disconnects.
Lose(k) ==
  /\ link[k] \in {"open", "subscribed"}
  /\ link' = [link EXCEPT ![k] = "lost"]
  /\ UNCHANGED <<target, got, emitted, bufferVars>>

\* cleanupClient: the server learns that the socket is closed.
Cleanup(k) ==
  /\ link[k] = "lost"
  /\ link' = [link EXCEPT ![k] = "closed"]
  /\ subscribers' = [s \in Streams |-> subscribers[s] \ {k}]
  /\ UNCHANGED <<buffers, timers, target, got, emitted>>

\* The process ends: the buffers are in memory, and every connection closes.
StreamCrash ==
  /\ buffers' = [s \in Streams |-> <<>>]
  /\ subscribers' = [s \in Streams |-> {}]
  /\ timers' = [s \in Streams |-> FALSE]
  /\ link' = [k \in Sockets |-> IF link[k] = "unused" THEN "unused" ELSE "closed"]
  /\ UNCHANGED <<target, got, emitted>>

-----------------------------------------------------------------------------
(* What a page can rely on *)

\* events are the last ones up to number n, in order and none missing.
UpTo(events, n) ==
  \A i \in DOMAIN events : events[i] = n - Len(events) + i

\* No gap and no repetition (websocket-server.ts:79-101, stream-buffer.ts:
\* 21-38): the buffer ends with the newest event; a connected subscriber has
\* received exactly what the buffer holds; and what any socket has received
\* is a stretch of its stream, also when the buffer was cleared under it.
NoGap ==
  /\ \A s \in Streams : UpTo(buffers[s], emitted[s])
  /\ \A s \in Streams : \A k \in subscribers[s] :
       link[k] = "subscribed" => target[k] = s /\ got[k] = buffers[s]
  /\ \A k \in Sockets : got[k] # <<>> =>
       target[k] \in Streams /\ \E n \in 1..emitted[target[k]] : UpTo(got[k], n)
=============================================================================
