------------------------------- MODULE MCScopes -------------------------------
(***************************************************************************)
(* Every valid nest of up to four control blocks, with two attempts, items *)
(* or branches each; the first item of a loop has the field, the second    *)
(* has not.                                                                *)
(***************************************************************************)
EXTENDS Scopes

MCWrappers ==
    { [kind |-> "retry", items |-> <<FALSE, FALSE>>],
      [kind |-> "each", items |-> <<TRUE, FALSE>>],
      [kind |-> "concurrent", items |-> <<TRUE, FALSE>>],
      [kind |-> "parallel", items |-> <<FALSE>>],
      [kind |-> "workflow", items |-> <<FALSE>>] }

MCNests ==
    {n \in UNION {[1..k -> MCWrappers] : k \in 0..4} :
        \A l \in 1..Len(n) - 1 : n[l].kind = "retry" => n[l + 1].kind # "retry"}

(* A retry and a foreach within a retry and a foreach, of whose items only  *)
(* the second has the field.                                                *)
MCTwiceNested ==
    LET Retry == [kind |-> "retry", items |-> <<FALSE, FALSE>>]
        OuterLoop == [kind |-> "concurrent", items |-> <<FALSE, TRUE>>]
        InnerLoop == [kind |-> "each", items |-> <<TRUE, TRUE>>]
    IN  {<<Retry, OuterLoop, Retry, InnerLoop>>}

===============================================================================
