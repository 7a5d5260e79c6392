------------------------------ MODULE PlanLedger ------------------------------
(***************************************************************************)
(* What the execution of a plan promises to whoever reads its file: there  *)
(* is at most one step under way, only that step gets a result, and a step *)
(* recorded as completed is not begun again.  Nobody else writes while the *)
(* plan is being executed, except to skip a step or to remove the file;    *)
(* once somebody has, nothing is promised about completed steps any more.  *)
(***************************************************************************)
EXTENDS Naturals, Sequences

CONSTANT StepStatus

VARIABLES record,  \* for every number in the file, the status of the step it stands for
          busy,    \* the step under way, 0 if there is none
          working, \* the plan is being executed
          loose    \* its steps were overwritten, or are not numbered 1, 2, 3 ...

ledgerVars == <<record, busy, working, loose>>

IsRecord(r) == DOMAIN r \subseteq Nat /\ \A n \in DOMAIN r : r[n] \in StepStatus

LedgerInit ==
  /\ IsRecord(record)
  /\ busy = 0 /\ working = FALSE /\ loose \in BOOLEAN

Open == ~working /\ working' = TRUE /\ UNCHANGED <<record, busy, loose>>

BeginStep(i) ==
  /\ working /\ busy = 0
  /\ loose \/ record[i] # "completed"
  /\ record' = [record EXCEPT ![i] = "running"]
  /\ busy' = i
  /\ UNCHANGED <<working, loose>>

Settle(result) ==
  /\ busy \in DOMAIN record
  /\ record' = [record EXCEPT ![busy] = result]
  /\ busy' = 0
  /\ UNCHANGED <<working, loose>>

\* At the end, and whenever the process dies.
Close == working /\ working' = FALSE /\ busy' = 0 /\ UNCHANGED <<record, loose>>

Skip(i) == record' = [record EXCEPT ![i] = "skipped"] /\ UNCHANGED <<busy, working, loose>>

Remove == record' = <<>> /\ UNCHANGED <<busy, working, loose>>

Rewrite ==
  /\ IsRecord(record')
  /\ loose' \in BOOLEAN /\ (loose \/ working => loose')
  /\ UNCHANGED <<busy, working>>

LedgerNext ==
  \/ Open \/ Close \/ Remove \/ Rewrite
  \/ \E i \in DOMAIN record : BeginStep(i) \/ Skip(i)
  \/ \E result \in {"completed", "failed"} : Settle(result)

LedgerSpec == LedgerInit /\ [][LedgerNext]_ledgerVars
=============================================================================
