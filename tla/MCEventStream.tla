---------------------------- MODULE MCEventStream ----------------------------
(***************************************************************************)
(* EventStream on three projects: a retried workflow, an ignored step and a *)
(* catch block that retries; a parallel block whose branches retry, one of  *)
(* them a workflow; and two workflows run one after the other, the second   *)
(* with a nested one that has a catch block of its own and one without      *)
(* steps.                                                                   *)
(***************************************************************************)
EXTENDS EventStream

None(N) == [n \in 1..N |-> <<>>]

Nested ==
    [runs |-> <<1>>,
     kind |-> <<"workflow", "retry", "block", "workflow", "block", "retry", "block">>,
     parent |-> <<0, 1, 1, 2, 4, 1, 6>>,
     children |-> <<<<2, 3>>, <<4>>, <<>>, <<5>>, <<>>, <<7>>, <<>>>>,
     handlers |-> [None(7) EXCEPT ![1] = <<6>>],
     ignores |-> {3}]

Branches ==
    [runs |-> <<1>>,
     kind |-> <<"workflow", "parallel", "retry", "retry", "workflow", "block", "block">>,
     parent |-> <<0, 1, 2, 2, 3, 4, 5>>,
     children |-> <<<<2>>, <<3, 4>>, <<5>>, <<6>>, <<7>>, <<>>, <<>>>>,
     handlers |-> None(7),
     ignores |-> {}]

TwoRuns ==
    [runs |-> <<1, 2>>,
     kind |-> <<"workflow", "workflow", "block", "workflow", "block", "block",
                "workflow">>,
     parent |-> <<0, 0, 1, 2, 4, 4, 2>>,
     children |-> <<<<3>>, <<4, 7>>, <<>>, <<5>>, <<>>, <<>>, <<>>>>,
     handlers |-> [None(7) EXCEPT ![4] = <<6>>],
     ignores |-> {4}]

MCProjects == {Nested, Branches, TwoRuns}

==============================================================================
