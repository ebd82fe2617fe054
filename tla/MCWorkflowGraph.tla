-------------------------- MODULE MCWorkflowGraph --------------------------
(***************************************************************************)
(* One run through a graph with every kind of node and join:               *)
(*                                                                         *)
(*   1 start -> 2 condition -true-> 3 task (two attempts) -> 6 any-join    *)
(*                          -false-> 4 wait --always---------> 6 -> 7 end   *)
(*   3 -failure-> 5 terminate(succeeded), which also reads 3._error        *)
(*   3 -> 8 merge(all) <- 4: never active, both branches never run         *)
(*   4 -data-> 9: runs only if 4 produced its output                       *)
(***************************************************************************)
EXTENDS WorkflowEngine, TLC

CONSTANT a

MCLabels == {a}
MCLockSets == {{a}}
MCNodes == 1..9
MCOrder == <<1, 2, 3, 4, 5, 6, 7, 8, 9>>

Edge(x, y, o) == [from |-> x, to |-> y, outlet |-> o]

MCDeps == {Edge(1, 2, "success"), Edge(2, 3, "true"), Edge(2, 4, "false"),
           Edge(3, 5, "failure"), Edge(3, 6, "always"), Edge(4, 6, "always"),
           Edge(6, 7, "success"), Edge(3, 8, "success"), Edge(4, 8, "success")}
MCLinks == {[from |-> 3, to |-> 5, error |-> TRUE],
            [from |-> 4, to |-> 9, error |-> FALSE]}
MCKind == <<"start", "condition", "task", "wait", "terminate", "merge",
            "end", "merge", "condition">>
MCMaxAttempts == <<1, 1, 2, 1, 1, 1, 1, 1, 1>>
MCTermStatus == [n \in MCNodes |-> "succeeded"]
=============================================================================
