------------------------------- MODULE MCRetry -------------------------------
(***************************************************************************)
(* Retry with budgets of one to three attempts, with and without delay,    *)
(* without retry_on and with every set of up to two of the rules below,    *)
(* under any and all.                                                      *)
(***************************************************************************)
EXTENDS Retry, FiniteSets

MCCodes == {"200", "429"}
MCBodies == {"pending", "ready"}

MCRules ==
    { [type |-> "transport_error", accepts |-> {}],
      [type |-> "status_code", accepts |-> {"429"}],
      [type |-> "path", accepts |-> {"pending"}] }

RuleSets == {S \in SUBSET MCRules : Cardinality(S) \in 1..2}

MCConfigs ==
    [max : 1..3, delay : {0, 5}, enabled : {FALSE}, match : {"any"}, rules : {{}}]
    \cup
    [max : 1..3, delay : {0, 5}, enabled : {TRUE}, match : {"any", "all"},
     rules : RuleSets]

=============================================================================
