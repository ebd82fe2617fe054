-------------------------- MODULE MCWorkflowLocks --------------------------
(***************************************************************************)
(* Two runs, one label, and the workflow start - task - end: interleavings  *)
(* of users, goroutines, processes, shutdown and crash.                    *)
(***************************************************************************)
EXTENDS WorkflowEngine, TLC

CONSTANT a

MCLabels == {a}
MCLockSets == {{a}}
MCNodes == 1..3
MCOrder == <<1, 2, 3>>
MCDeps == {[from |-> 1, to |-> 2, outlet |-> "success"],
           [from |-> 2, to |-> 3, outlet |-> "success"]}
MCLinks == {}
MCKind == <<"start", "task", "end">>
MCMaxAttempts == <<1, 2, 1>>
MCTermStatus == [n \in MCNodes |-> "failed"]

(* The same without the end node, for the run that also checks liveness. *)
MCTwo == 1..2
MCTwoOrder == <<1, 2>>
MCTwoDeps == {[from |-> 1, to |-> 2, outlet |-> "success"]}
MCTwoKind == <<"start", "task">>
MCTwoAttempts == <<1, 2>>
MCTwoTerm == [n \in MCTwo |-> "failed"]
=============================================================================
