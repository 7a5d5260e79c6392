--------------------------------- MODULE Saga ---------------------------------
(***************************************************************************)
(* What ExecutionEngine.execute promises about the compensable steps of    *)
(* one top-level execution: steps are logged as they complete; then either *)
(* the execution commits and nothing is undone, or it aborts and the log   *)
(* is undone from its end, each step at most once.  An undo may fail or be *)
(* skipped, and that does not stop the ones before it.                     *)
(***************************************************************************)
EXTENDS Integers, Sequences

CONSTANT Steps          \* the steps that can complete

VARIABLES mode,         \* "open", "aborting", "committed" or "aborted"
          log,          \* completed steps that have not been undone, oldest first
          undone        \* steps whose compensation ran to its end

vars == <<mode, log, undone>>

Init ==
  /\ mode = "open"
  /\ log = <<>>
  /\ undone = {}

\* A step completes: it was never logged before.
Complete ==
  /\ mode = "open"
  /\ \E s \in Steps : /\ s \notin undone
                      /\ \A i \in 1..Len(log) : log[i] # s
                      /\ log' = Append(log, s)
  /\ UNCHANGED <<mode, undone>>

Commit ==
  /\ mode = "open"
  /\ mode' = "committed"
  /\ UNCHANGED <<log, undone>>

\* An execution with nothing to undo aborts at once.
Abort ==
  /\ mode = "open"
  /\ mode' = IF log = <<>> THEN "aborted" ELSE "aborting"
  /\ UNCHANGED <<log, undone>>

\* The last step left is undone, or given up; the abort ends with the first one.
UndoLast ==
  /\ mode = "aborting"
  /\ log # <<>>
  /\ log' = SubSeq(log, 1, Len(log) - 1)
  /\ undone' \in {undone, undone \cup {log[Len(log)]}}
  /\ mode' = IF Len(log) = 1 THEN "aborted" ELSE "aborting"

Next == Complete \/ Commit \/ Abort \/ UndoLast

Spec == Init /\ [][Next]_vars
=============================================================================
