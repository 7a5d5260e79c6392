-------------------------- MODULE MCExecutionEngine --------------------------
(***************************************************************************)
(* Dependency graphs for ExecutionEngine.                                  *)
(*                                                                         *)
(* Tree: Book needs Charge before and Notify after; Charge needs Audit     *)
(* before.  All four can be compensated.                                   *)
(* Loop: Ping and Pong are AUTO_PRE hooks of each other, and Pong has an   *)
(* AUTO_POST hook that calls Ping again.                                   *)
(***************************************************************************)
EXTENDS ExecutionEngine, TLC

TreeSkills == {"Book", "Charge", "Audit", "Notify"}
TreeDeps == [s \in TreeSkills |->
  CASE s = "Book"   -> <<"Charge", "Notify">>
    [] s = "Charge" -> <<"Audit">>
    [] OTHER        -> <<>>]
TreeAutonomy == [s \in TreeSkills |->
  CASE s = "Book"   -> "MANUAL"
    [] s = "Notify" -> "AUTO_POST"
    [] OTHER        -> "AUTO_PRE"]
TreeRetries == [s \in TreeSkills |-> IF s = "Book" THEN 1 ELSE 0]
TreeRetryOn == [s \in TreeSkills |-> IF s = "Book" THEN {"timeout"} ELSE ErrorKinds]
TreeCompensable == {"Book", "Charge", "Audit", "Notify"}
OneExec == {"e1"}
OneRoot == [e \in OneExec |-> "Book"]
TwoExecs == {"e1", "e2"}
TwoRoots == [e \in TwoExecs |-> IF e = "e1" THEN "Book" ELSE "Audit"]

LoopSkills == {"Ping", "Pong", "Echo"}
LoopDeps == [s \in LoopSkills |->
  CASE s = "Ping" -> <<"Pong">>
    [] s = "Pong" -> <<"Ping", "Echo">>
    [] s = "Echo" -> <<"Pong">>]
LoopAutonomy == [s \in LoopSkills |-> IF s = "Echo" THEN "AUTO_POST" ELSE "AUTO_PRE"]
LoopRetries == [s \in LoopSkills |-> IF s = "Ping" THEN 1 ELSE 0]
LoopRetryOn == [s \in LoopSkills |-> ErrorKinds]
LoopRoot == [e \in OneExec |-> "Ping"]
=============================================================================
