--------------------------- MODULE MCWriteAheadLog ---------------------------
(* Environments of WriteAheadLog for TLC. *)
EXTENDS WriteAheadLog, TLC

CONSTANTS j1, j2

MCJobs == {j1, j2}
Symmetry == Permutations(MCJobs)

\* One request, one nested call, no event of the environment, no long file.
Calm == [jobs |-> 1, children |-> 1, crash |-> 0, manual |-> 0, compact |-> 0,
         script |-> 0, tears |-> FALSE,
         maxLines |-> 99, keepLines |-> 99, hugeLines |-> 99]

\* Crashes of the process: again and again, also during a replay, with a call
\* nested in a nested call; and once while two requests are served side by side.
Crashes == {[Calm EXCEPT !.crash = 2, !.compact = 1, !.children = 2],
            [Calm EXCEPT !.crash = 1, !.jobs = 2, !.children = 2],
            [Calm EXCEPT !.crash = 1, !.compact = 1, !.jobs = 2, !.children = 0]}

Torn      == [Calm EXCEPT !.crash = 2, !.compact = 1, !.children = 2, !.tears = TRUE]
Truncated == [Calm EXCEPT !.crash = 2, !.compact = 1, !.children = 2,
                !.maxLines = 3, !.keepLines = 2, !.hugeLines = 5]
Operated  == [Calm EXCEPT !.crash = 1, !.manual = 1, !.script = 1, !.children = 0]
Damage    == {Torn, Truncated, Operated}

\* Two requests and the compaction script.
Compacted == {[Calm EXCEPT !.jobs = 2, !.children = 0, !.script = 1]}
=============================================================================
