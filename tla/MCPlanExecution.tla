--------------------------- MODULE MCPlanExecution ---------------------------
(***************************************************************************)
(* A content as it should be, whose second step is optional and asks first, *)
(* and one whose author numbered both steps 1 and marked them; users may   *)
(* make any step ship instead.                                             *)
(***************************************************************************)
EXTENDS PlanExecution

S(n, t, st) == [number |-> n, task |-> t, status |-> st, marked |-> FALSE]
D(t, m)     == [task |-> t, marked |-> m]
O(f, a, m)  == [from |-> f, async |-> a, max |-> m]

MCTasks        == {"build", "test", "ship"}
MCContents     == {<<S(1, "build", "pending"), [S(2, "test", "pending") EXCEPT !.marked = TRUE]>>,
                   <<S(1, "build", "completed"), S(1, "test", "running")>>}
MCDescriptions == {D("ship", FALSE)}
MCOptions      == {O(0, FALSE, 0), O(2, TRUE, 2)}
=============================================================================
