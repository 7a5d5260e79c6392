---------------------------- MODULE WriteAheadLog ----------------------------
(***************************************************************************)
(* The write-ahead log of skill executions and the recovery built on it:   *)
(* FileWALStore (memory and the JSON-lines file), WALManager (begin, end,  *)
(* replay, compact), the replay that a starting server runs in the         *)
(* background, the HTTP endpoints that replay and compact a running one,   *)
(* and scripts/wal-compact.ts, a process of its own on the same file.      *)
(*                                                                         *)
(* An execution is reduced to its entries: a top-level one and, nested in  *)
(* it at any depth, calls that end before the one that made them does      *)
(* (ExecutionEngine!LogFollowsStacks).                                     *)
(***************************************************************************)
EXTENDS Integers, Sequences, FiniteSets, SequencesExt

CONSTANTS
  Jobs,         \* requests to execute a skill
  Environments  \* what may happen to a server in one run of the model

\* jobs, children: bounds on the requests and on the nested calls there ever are.
\* crash ... script: bounds on the crashes, the calls of POST /wal/replay and of
\* POST /wal/compact, and the runs of scripts/wal-compact.ts.  tears: may a
\* crash leave the last line torn or without its newline?  A file longer than
\* maxLines (100 MB) is cut to keepLines (10 000) when it is loaded, one longer
\* than hugeLines (500 MB) is set aside.
Environment ==
  [jobs : Nat, children : Nat, crash : Nat, manual : Nat, compact : Nat,
   script : Nat, tears : BOOLEAN, maxLines : Nat, keepLines : Nat, hugeLines : Nat]

ASSUME LogConfig ==
  \A e \in Environments : e \in Environment /\ e.keepLines \in 1..e.maxLines

VARIABLES
  env,       \* the environment of this run
  entries,   \* every entry ever begun, its immutable part; the index is its id
  up,        \* is the server process running?
  mem,       \* FileWALStore.entries: id -> status
  file,      \* the whole lines of wal.jsonl
  tail,      \* what follows them: nothing, half a line, or the last newline is missing
  live,      \* entries of the executions in progress in this process
  skipping,  \* child entries the replay that is being set up has yet to skip
  replays,   \* the replays in progress; number 1 is that of the start-up
  snapshot,  \* the pending entries scripts/wal-compact.ts has read, or NotRead
  settled,   \* history: entries that were marked completed or failed
  ended,     \* how the executions that ran to their end ended: entry -> status
  used       \* how often each bounded event has happened

vars == <<env, entries, up, mem, file, tail, live, skipping, replays, snapshot,
          settled, ended, used>>

Statuses == {"pending", "completed", "failed"}
Ids      == 1..Len(entries)
NotRead  == <<0>>
Events   == {"crash", "manual", "compact", "script"}

\* queue: top-level entries still to be replayed.  orig: the one under way, 0
\* if none.  exec: the entry of the execution that replays it.
Replay == [queue : Seq(Nat), orig : Nat, exec : Nat]

TypeOK ==
  /\ env \in Environments
  /\ entries \in Seq([job : Jobs, parent : Nat])
  /\ up \in BOOLEAN
  /\ DOMAIN mem \subseteq Ids /\ \A i \in DOMAIN mem : mem[i] \in Statuses
  /\ file \in Seq([op : {"append", "complete", "fail"}, id : Nat])
  /\ tail \in {"clean", "half", "open"}
  /\ live \subseteq Ids
  /\ skipping \in Seq(Nat)
  /\ replays \in Seq(Replay)
  /\ snapshot \in Seq(Nat)
  /\ settled \subseteq Ids /\ DOMAIN ended \subseteq Ids
  /\ used \in [Events -> Nat]

Init ==
  /\ env \in Environments
  /\ entries = <<>> /\ up = TRUE /\ mem = <<>>
  /\ file = <<>> /\ tail = "clean"
  /\ live = {} /\ skipping = <<>> /\ replays = <<>>
  /\ snapshot = NotRead
  /\ settled = {} /\ ended = <<>>
  /\ used = [k \in Events |-> 0]

\* May this bounded event happen once more, and it does.
Use(k) == used[k] < env[k] /\ used' = [used EXCEPT ![k] = @ + 1]

-----------------------------------------------------------------------------
(* The file *)

\* loadFromFile, and parseWalFile in the script: what the lines say.
Load(lines) ==
  LET Of(id) == {k \in 1..Len(lines) : lines[k].id = id}
      Newest(id) == CHOOSE k \in Of(id) : \A l \in Of(id) : l <= k
  IN  [id \in {lines[k].id : k \in {l \in 1..Len(lines) : lines[l].op = "append"}} |->
        CASE lines[Newest(id)].op = "append"   -> "pending"
          [] lines[Newest(id)].op = "complete" -> "completed"
          [] lines[Newest(id)].op = "fail"     -> "failed"]

PendingIn(m) == {i \in DOMAIN m : m[i] = "pending"}

\* A map keeps its keys in the order of insertion, the order they were begun in.
InOrder(ids) ==
  [k \in 1..Cardinality(ids) |-> CHOOSE i \in ids : Cardinality({j \in ids : j < i}) = k - 1]

Line(op, id) == [op |-> op, id |-> id]
AppendLines(ids) == [k \in 1..Len(ids) |-> Line("append", ids[k])]

\* appendFileSync.  A line that lands on what a crash left of an earlier one
\* cannot be parsed, and neither can that one.
Write(line) ==
  /\ tail' = "clean"
  /\ file' = CASE tail = "clean" -> Append(file, line)
               [] tail = "half"  -> file
               [] tail = "open"  -> Front(file)

-----------------------------------------------------------------------------
(* FileWALStore and WALManager *)

\* The event loop is free: no replay is in its loop over the child entries.
Free == up /\ skipping = <<>>

\* Mutant of Begin: the identifiers start at 0.
Begin_FromZero(job, parent) ==
  LET id == Len(entries)
  IN  /\ entries' = Append(entries, [job |-> job, parent |-> parent])
      /\ mem' = [i \in DOMAIN mem \cup {id} |-> IF i = id THEN "pending" ELSE mem[i]]
      /\ live' = live \cup {id}
      /\ Write(Line("append", id))

Begin(job, parent) ==
  LET id == Len(entries) + 1
  IN  /\ entries' = Append(entries, [job |-> job, parent |-> parent])
      /\ mem' = [i \in DOMAIN mem \cup {id} |-> IF i = id THEN "pending" ELSE mem[i]]
      /\ live' = live \cup {id}
      /\ Write(Line("append", id))

\* Mutant of Mark: memory is updated, the file is not.
Mark_MemoryOnly(id, status) ==
  /\ mem' = [mem EXCEPT ![id] = status]
  /\ settled' = settled \cup {id}
  /\ UNCHANGED <<file, tail>>

\* markCompleted, markFailed: no test that the entry is still pending.
Mark(id, status) ==
  /\ mem' = [mem EXCEPT ![id] = status]
  /\ settled' = settled \cup {id}
  /\ Write(Line(IF status = "completed" THEN "complete" ELSE "fail", id))

\* A request executes a skill.
Accept(j) ==
  /\ Free
  /\ \A i \in Ids : entries[i].job # j
  /\ Cardinality({entries[i].job : i \in Ids}) < env.jobs
  /\ Begin(j, 0)
  /\ UNCHANGED <<env, up, skipping, replays, snapshot, settled, ended, used>>

ChildrenOf(i) == {c \in Ids : entries[c].parent = i}
Executing(i)  == i \in live /\ ChildrenOf(i) \cap live = {}

\* A call, nested itself or not, makes a nested call.
BeginChild(i) ==
  /\ Free /\ Executing(i)
  /\ Cardinality({c \in Ids : entries[c].parent # 0}) < env.children
  /\ Begin(entries[i].job, i)
  /\ UNCHANGED <<env, up, skipping, replays, snapshot, settled, ended, used>>

\* Mutant of End: a call may end before the calls it made.
End_BeforeChildren(i) ==
  /\ Free /\ i \in live
  /\ \E status \in {"completed", "failed"} :
       /\ Mark(i, status)
       /\ ended' = [k \in DOMAIN ended \cup {i} |-> IF k = i THEN status ELSE ended[k]]
  /\ live' = live \ {i}
  /\ UNCHANGED <<env, entries, up, skipping, replays, snapshot, used>>

\* A call ends and closes its entry.
End(i) ==
  /\ Free /\ Executing(i)
  /\ \E status \in {"completed", "failed"} :
       /\ Mark(i, status)
       /\ ended' = [k \in DOMAIN ended \cup {i} |-> IF k = i THEN status ELSE ended[k]]
  /\ live' = live \ {i}
  /\ UNCHANGED <<env, entries, up, skipping, replays, snapshot, used>>

\* Mutant of Compact: it keeps the entries that are not pending.
Compact_Inverted ==
  /\ Free /\ Use("compact")
  /\ file' = AppendLines(InOrder(DOMAIN mem \ PendingIn(mem))) /\ tail' = "clean"
  /\ UNCHANGED <<env, entries, up, mem, live, skipping, replays, snapshot, settled, ended>>

\* The file is rewritten; memory keeps the settled entries it drops.
Compact ==
  /\ Free /\ Use("compact")
  /\ file' = AppendLines(InOrder(PendingIn(mem))) /\ tail' = "clean"
  /\ UNCHANGED <<env, entries, up, mem, live, skipping, replays, snapshot, settled, ended>>

-----------------------------------------------------------------------------
(* Replay *)

TopLevel(ids) == {i \in ids : entries[i].parent = 0}
Plan(m) == [queue |-> InOrder(TopLevel(PendingIn(m))), orig |-> 0, exec |-> 0]
ToSkip(m) == InOrder(PendingIn(m) \ TopLevel(PendingIn(m)))

\* One turn of the loop that marks child entries; nothing but a crash can come
\* between two of them.
SkipChild ==
  /\ up /\ skipping # <<>>
  /\ Mark(Head(skipping), "failed")
  /\ skipping' = Tail(skipping)
  /\ UNCHANGED <<env, entries, up, live, replays, snapshot, ended, used>>

\* POST /wal/replay on a running server.
ManualReplay ==
  /\ Free /\ Use("manual")
  /\ replays' = Append(replays, Plan(mem))
  /\ skipping' = ToSkip(mem)
  /\ UNCHANGED <<env, entries, up, mem, file, tail, live, snapshot, settled, ended>>

\* Mutant of ReplayNext: the entry is not taken off the plan.
ReplayNext_Again(r) ==
  /\ Free /\ replays[r].orig = 0 /\ replays[r].queue # <<>>
  /\ LET id == Head(replays[r].queue)
     IN  /\ Begin(entries[id].job, 0)
         /\ replays' = [replays EXCEPT ![r].orig = id, ![r].exec = Len(entries) + 1]
  /\ UNCHANGED <<env, up, skipping, snapshot, settled, ended, used>>

\* Mutant of ReplayNext: what is left to replay is read from the log each time.
ReplayNext_FreshPlan(r) ==
  /\ Free /\ replays[r].orig = 0 /\ replays[r].queue # <<>>
  /\ LET id == Head(replays[r].queue)
     IN  /\ Begin(entries[id].job, 0)
         /\ replays' = [replays EXCEPT ![r] =
              [queue |-> InOrder(PendingIn(mem') \ {id}), orig |-> id,
               exec |-> Len(entries) + 1]]
  /\ UNCHANGED <<env, up, skipping, snapshot, settled, ended, used>>

\* The replay executes the next entry of its plan.
ReplayNext(r) ==
  /\ Free /\ replays[r].orig = 0 /\ replays[r].queue # <<>>
  /\ LET id == Head(replays[r].queue)
     IN  /\ Begin(entries[id].job, 0)
         /\ replays' = [replays EXCEPT ![r] =
              [queue |-> Tail(@.queue), orig |-> id, exec |-> Len(entries) + 1]]
  /\ UNCHANGED <<env, up, skipping, snapshot, settled, ended, used>>

\* The engine refuses it before it has a log entry (the skill is not registered,
\* as a plugin's is not yet when the server starts; its circuit is open): the
\* entry is given up.
ReplayRefused(r) ==
  /\ Free /\ replays[r].orig = 0 /\ replays[r].queue # <<>>
  /\ Mark(Head(replays[r].queue), "failed")
  /\ replays' = [replays EXCEPT ![r].queue = Tail(@)]
  /\ UNCHANGED <<env, entries, up, live, skipping, snapshot, ended, used>>

\* Mutant of ReplayEnds: the replayed entry stays pending.
ReplayEnds_NotMarked(r) ==
  /\ Free /\ replays[r].orig # 0 /\ replays[r].exec \notin live
  /\ replays' = [replays EXCEPT ![r].orig = 0]
  /\ UNCHANGED <<env, entries, up, mem, file, tail, live, skipping, snapshot, settled, ended, used>>

\* The execution of the entry is over: the entry has the same outcome.
ReplayEnds(r) ==
  /\ Free /\ replays[r].orig # 0 /\ replays[r].exec \notin live
  /\ Mark(replays[r].orig, ended[replays[r].exec])
  /\ replays' = [replays EXCEPT ![r].orig = 0, ![r].exec = 0]
  /\ UNCHANGED <<env, entries, up, live, skipping, snapshot, ended, used>>

-----------------------------------------------------------------------------
(* Crash and restart *)

\* What is in memory is gone.  A crash of the machine may tear the last line.
Crash ==
  /\ up /\ Use("crash")
  /\ up' = FALSE
  /\ mem' = <<>> /\ live' = {} /\ skipping' = <<>> /\ replays' = <<>>
  /\ \/ UNCHANGED <<file, tail>>
     \/ env.tears /\ file # <<>> /\ tail' = "half" /\ file' = Front(file)
     \/ env.tears /\ file # <<>> /\ tail' = "open" /\ UNCHANGED file
  /\ UNCHANGED <<env, entries, snapshot, settled, ended>>

\* Mutant of Trimmed: the oldest lines are kept.
Trimmed_Oldest(lines) ==
  IF Len(lines) <= env.maxLines THEN lines ELSE SubSeq(lines, 1, env.keepLines)

\* truncateKeepLastLines, for a file that has grown too long.  Half a line
\* counts as one.
Kept == IF tail = "half" THEN env.keepLines - 1 ELSE env.keepLines
Trimmed(lines) ==
  IF Len(lines) <= env.maxLines THEN lines
  ELSE IF Len(lines) <= env.hugeLines
         THEN SubSeq(lines, Len(lines) - Kept + 1, Len(lines))
         ELSE <<>>

\* Mutant of Restart: the file is cut after it has been loaded.
Restart_CutLate ==
  /\ ~up /\ up' = TRUE
  /\ file' = Trimmed(file)
  /\ tail' = IF Len(file) > env.maxLines THEN "clean" ELSE tail
  /\ LET m == Load(file)
     IN  /\ mem' = m
         /\ replays' = IF PendingIn(m) = {} THEN <<>> ELSE <<Plan(m)>>
         /\ skipping' = ToSkip(m)
  /\ UNCHANGED <<env, entries, live, snapshot, settled, ended, used>>

\* The log is loaded and, before requests are served, a replay is set up; it
\* then goes on beside them.
Restart ==
  /\ ~up /\ up' = TRUE
  /\ file' = Trimmed(file)
  /\ tail' = IF Len(file) > env.maxLines THEN "clean" ELSE tail
  /\ LET m == Load(Trimmed(file))
     IN  /\ mem' = m
         /\ replays' = IF PendingIn(m) = {} THEN <<>> ELSE <<Plan(m)>>
         /\ skipping' = ToSkip(m)
  /\ UNCHANGED <<env, entries, live, snapshot, settled, ended, used>>

-----------------------------------------------------------------------------
(* scripts/wal-compact.ts *)

\* It reads the file to the end and keeps the pending entries.
ScriptRead ==
  /\ snapshot = NotRead /\ Use("script")
  /\ DOMAIN Load(file) # PendingIn(Load(file))
  /\ snapshot' = InOrder(PendingIn(Load(file)))
  /\ UNCHANGED <<env, entries, up, mem, file, tail, live, skipping, replays, settled, ended>>

\* It renames a file with just these over the log.
ScriptRewrite ==
  /\ snapshot # NotRead
  /\ file' = AppendLines(snapshot) /\ tail' = "clean"
  /\ snapshot' = NotRead
  /\ UNCHANGED <<env, entries, up, mem, live, skipping, replays, settled, ended, used>>

-----------------------------------------------------------------------------
ReplayStep == \E r \in 1..Len(replays) :
                ReplayNext(r) \/ ReplayRefused(r) \/ ReplayEnds(r)

\* What the server gets done by itself once it runs and its skills answer.
ServerStep == Restart \/ SkipChild \/ ReplayStep \/ \E i \in live : End(i)

Next ==
  \/ ServerStep
  \/ \E j \in Jobs : Accept(j)
  \/ \E i \in live : BeginChild(i)
  \/ Compact \/ ManualReplay \/ Crash
  \/ ScriptRead \/ ScriptRewrite

Spec == Init /\ [][Next]_vars

\* The process manager restarts the server, and every execution ends (the
\* engine's calls do when their skills have timeouts: ExecutionEngine!CallsEnd).
FairSpec == Spec /\ WF_vars(ServerStep)

-----------------------------------------------------------------------------
(* Properties *)

TopEntries(j) == {i \in Ids : entries[i].job = j /\ entries[i].parent = 0}

\* A crash at this very moment would lose nothing: what is pending in memory is
\* pending in the file and the other way round, but for the line a torn write
\* left and the one that was written onto it.
MemoryOnDisk ==
  up /\ used["script"] = 0 =>
    LET OnDisk == PendingIn(Load(file))
        InMem  == PendingIn(mem)
        Apart  == (OnDisk \ InMem) \cup (InMem \ OnDisk)
    IN  Cardinality(Apart) <= IF env.tears THEN 2 ELSE 0

\* A request that was accepted is owed until one of its executions is settled:
\* as long as none is, a restart finds a top-level entry to replay.
AcceptedSurvives ==
  \A j \in Jobs : TopEntries(j) # {} /\ TopEntries(j) \cap settled = {} =>
    TopEntries(j) \cap PendingIn(Load(file)) # {}

\* Neither a machine crash that tears a line nor the script beside the server.
Undamaged == ~env.tears /\ used["script"] = 0

\* An entry that was settled never comes back as pending, whatever crashes,
\* truncations and compactions follow, so no replay executes it again.
SettledStaysSettled == Undamaged => settled \cap PendingIn(Load(file)) = {}

\* c is entry i or, directly or through other calls, nested in it.
Within(c, i) ==
  /\ i \in Ids
  /\ \A S \in SUBSET Ids :
       i \in S /\ (\A k \in Ids : entries[k].parent \in S => k \in S) => c \in S

\* A start-up gives a child entry up because replaying the execution it belongs to
\* makes that call again: whatever the depth it is nested at, the top-level entry
\* it is nested in is in the plan.  (Its parent need not be: that may be given up
\* as well, in this start-up or in an earlier one that a crash cut short.)
SkippedChildrenAreReplayed ==
  \A k \in 1..Len(skipping) :
    \E n \in 1..Len(replays[Len(replays)].queue) :
      Within(skipping[k], replays[Len(replays)].queue[n])

\* How often one request can take effect: an execution more for each crash.
CompletionsBoundedByCrashes ==
  \A j \in Jobs : Cardinality(TopEntries(j) \cap DOMAIN ended) <= 1 + used["crash"]

\* Replay at most doubles the executions of a request each time it runs.
ExecutionsBoundedByReplays ==
  \A j \in Jobs :
    Cardinality(TopEntries(j)) <= 2 ^ (used["crash"] + used["manual"])

\* The server replays only what an earlier process left unfinished: never an
\* execution that is still going on in this one.
ReplaysOnlyInterrupted ==
  \A r \in 1..Len(replays) :
    /\ replays[r].orig \notin live
    /\ \A k \in 1..Len(replays[r].queue) : replays[r].queue[k] \notin live

\* The compaction script keeps every pending entry.
PendingKept == PendingIn(mem) \subseteq PendingIn(Load(file))

\* Every request that was accepted is in the end settled for good.
AcceptedSettles ==
  \A j \in Jobs : (TopEntries(j) # {}) ~>
    [](up /\ TopEntries(j) \cap PendingIn(mem) = {})
=============================================================================
