---------------------------- MODULE MCTransaction ----------------------------
(***************************************************************************)
(* Two steps at once on one DSN.  The first has every transaction of two   *)
(* statements made of the ones below, and the queries made of one, retried *)
(* or not; the second is retried too, and has one statement that reads        *)
(* nothing, in a transaction or not.                                       *)
(***************************************************************************)
EXTENDS Transaction

MCVariables == {"x"}
MCDsns == {"dsn"}

Shapes ==
    { [reads |-> {}, rows |-> TRUE, path |-> "rows", targets |-> {"x"}],
      [reads |-> {"x"}, rows |-> FALSE, path |-> "rowsAffected", targets |-> {}],
      [reads |-> {"x"}, rows |-> FALSE, path |-> "rowsAffected", targets |-> {"x", ReadOnly}],
      [reads |-> {"x"}, rows |-> TRUE, path |-> "rowCount", targets |-> {"x"}],
      [reads |-> {}, rows |-> FALSE, path |-> "rows", targets |-> {"x"}] }

Retrying == {[retried |-> FALSE, attempts |-> 1], [retried |-> TRUE, attempts |-> 2]}

Rich ==
    { [dsn |-> "dsn", transaction |-> TRUE, statements |-> st,
       retried |-> r.retried, attempts |-> r.attempts, vars |-> vs] :
         st \in Shapes \X Shapes, r \in Retrying, vs \in [MCVariables -> {Absent, Initial}] }
    \cup
    { [dsn |-> "dsn", transaction |-> FALSE, statements |-> <<st>>,
       retried |-> r.retried, attempts |-> r.attempts, vars |-> vs] :
         st \in Shapes, r \in Retrying, vs \in [MCVariables -> {Absent, Initial}] }

Plain ==
    { [dsn |-> "dsn", transaction |-> t,
       statements |-> <<[reads |-> {}, rows |-> TRUE, path |-> "rowCount", targets |-> {}]>>,
       retried |-> TRUE, attempts |-> 2, vars |-> [v \in MCVariables |-> Absent]] :
         t \in BOOLEAN }

MCConfigs == [s \in Steps |-> IF s = "first" THEN Rich ELSE Plain]

==============================================================================
