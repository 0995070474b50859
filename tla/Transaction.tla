------------------------------ MODULE Transaction ------------------------------
(***************************************************************************)
(* Steps of the postgres block, run at the same time by branches or items  *)
(* of a concurrent block and possibly retried:                             *)
(* internal/block/postgres/block.go, Execute, with the pools the block     *)
(* shares between steps and what retry and the runner resolve beforehand.  *)
(*                                                                         *)
(* The server is external: it may refuse a statement or a commit, and the  *)
(* connection may be lost before or after it applied one.  A value of a    *)
(* variable is named by the attempt and the statement that produced it.    *)
(* Every step has the context that the concurrent block cloned for it.     *)
(***************************************************************************)
EXTENDS Naturals, Sequences

CONSTANTS
    Steps,
    Configs,    \* [Steps -> the configurations a step may have]
    Dsns,
    Variables,
    ReadOnly    \* a target that validateRuntimeTarget refuses

ASSUME ReadOnlyAssumption == ReadOnly \notin Variables

Absent == <<0, 0>>      \* no such variable: its reference is left as text
Initial == <<0, 1>>     \* the value the run had before the step
Unread == <<0, 2>>      \* in a row: the statement does not refer to it

NoStep == "no step"     \* Block.mu is free

ASSUME StepsAssumption == NoStep \notin Steps

(* reads are the variables referred to in query and params, rows is         *)
(* isQueryStatement, and path is what assign reads from the output into     *)
(* each of the targets.                                                     *)
Statements ==
    [reads : SUBSET Variables, rows : BOOLEAN,
     path : {"rows", "rowCount", "rowsAffected"},
     targets : SUBSET (Variables \cup {ReadOnly})]

(* Validate: a dsn, and either query or transaction with a query in every   *)
(* statement.  retried steps run as the block of a retry with a budget of   *)
(* attempts; vars is the context of the step when it begins.                *)
ValidConfigs ==
    {c \in [dsn : Dsns, transaction : BOOLEAN, statements : Seq(Statements),
            retried : BOOLEAN, attempts : Nat \ {0},
            vars : [Variables -> {Absent, Initial}]] :
        /\ c.statements # <<>>
        /\ ~c.transaction => Len(c.statements) = 1
        /\ ~c.retried => c.attempts = 1}

ASSUME ConfigsAssumption == \A s \in Steps : Configs[s] \subseteq ValidConfigs

----------------------------------------------------------------------------
VARIABLES
    config,     \* [Steps -> configuration]; never changes
    mu,         \* the step that holds Block.mu, or NoStep
    dbs,        \* the DSNs with a pool in Block.dbs
    opened,     \* [Dsns -> pools opened so far]
    pc,
    attempt,
    index,      \* the statement being run
    found,      \* whether the statement's output holds what its path reads
    vars,       \* [Steps -> RunContext.Variables of the step]
    pending,    \* rows written in the open transaction
    durable,    \* rows the server keeps
    reports     \* [Steps -> what Execute said of each attempt so far]

variables == <<config, mu, dbs, opened, pc, attempt, index, found, vars,
               pending, durable, reports>>

Statement(s) == config[s].statements[index[s]]

Values(s) ==
    {Absent, Initial} \cup
    ((1..config[s].attempts) \X (1..Len(config[s].statements)))

(* A row is named by the statement that wrote it and carries the value of   *)
(* every variable it read and whether its assignment found a value.         *)
Rows == [step : Steps, attempt : Nat, at : Nat,
         values : [Variables -> Nat \X Nat],
         found : BOOLEAN]

Reports == [said : {"nothing", "committed", "rolledBack", "done"}, failedAt : Nat]

TypeOK ==
    /\ \A s \in Steps :
          /\ config[s] \in Configs[s]
          /\ pc[s] \in {"db", "opening", "begin", "statement", "assigning",
                        "committing", "committed", "answered", "failed", "returned"}
          /\ attempt[s] \in 1..config[s].attempts
          /\ index[s] \in 1..Len(config[s].statements) + 1
          /\ vars[s] \in [Variables -> Values(s)]
          /\ pending[s] \subseteq Rows
          /\ reports[s] \in Seq(Reports)
    /\ mu \in Steps \cup {NoStep}
    /\ dbs \subseteq Dsns
    /\ opened \in [Dsns -> Nat]
    /\ found \in [Steps -> BOOLEAN]
    /\ durable \subseteq Rows

Init ==
    /\ config \in {c \in [Steps -> UNION {Configs[s] : s \in Steps}] :
                      \A s \in Steps : c[s] \in Configs[s]}
    /\ mu = NoStep
    /\ dbs = {}
    /\ opened = [d \in Dsns |-> 0]
    /\ pc = [s \in Steps |-> "db"]
    /\ attempt = [s \in Steps |-> 1]
    /\ index = [s \in Steps |-> 1]
    /\ found = [s \in Steps |-> FALSE]
    /\ vars = [s \in Steps |-> config[s].vars]
    /\ pending = [s \in Steps |-> {}]
    /\ durable = {}
    /\ reports = [s \in Steps |-> <<>>]

----------------------------------------------------------------------------
(* The pools. *)
Unchanged(s) == UNCHANGED <<config, attempt, index, found, vars, pending, durable>>

Goto(s, label) == pc' = [pc EXCEPT ![s] = label]

(* Execute returns an error after saying so in its output.                  *)
Fail(s, said, failedAt) ==
    /\ Goto(s, "failed")
    /\ reports' = [reports EXCEPT
          ![s] = Append(@, [said |-> said, failedAt |-> failedAt])]

(* Mutant: the map is looked up before the mutex is taken. *)
LookupDBUnlocked(s) ==
    /\ pc[s] = "db"
    /\ IF config[s].dsn \in dbs
       THEN Goto(s, "begin") /\ mu' = mu
       ELSE Goto(s, "opening") /\ mu' = s
    /\ Unchanged(s)
    /\ UNCHANGED <<dbs, opened, reports>>

(* db: the mutex is held from the lookup to the store. *)
LookupDB(s) ==
    /\ pc[s] = "db"
    /\ mu = NoStep
    /\ IF config[s].dsn \in dbs
       THEN Goto(s, "begin") /\ mu' = mu
       ELSE Goto(s, "opening") /\ mu' = s
    /\ Unchanged(s)
    /\ UNCHANGED <<dbs, opened, reports>>

OpenDB(s) ==
    /\ pc[s] = "opening"
    /\ mu' = NoStep
    /\ \/ /\ opened' = [opened EXCEPT ![config[s].dsn] = @ + 1]
          /\ dbs' = dbs \cup {config[s].dsn}
          /\ Goto(s, "begin")
          /\ UNCHANGED reports
       \/ /\ Fail(s, "nothing", 0)
          /\ UNCHANGED <<opened, dbs>>
    /\ Unchanged(s)

----------------------------------------------------------------------------
(* Mutant: the statements are resolved together when the transaction begins *)
(* in the state of the step's context before the attempt.                   *)
ResolveAtBegin(s, v) ==
    IF config[s].retried /\ config[s].vars[v] # Absent
    THEN config[s].vars[v]
    ELSE IF vars[s][v][1] = attempt[s] THEN config[s].vars[v] ELSE vars[s][v]

(* References.  The policy of retry for its block resolves every reference  *)
(* of the statements once, before the attempts, and leaves only those of    *)
(* variables that do not exist; resolveStatement resolves what is left when *)
(* the statement runs.                                                      *)
Resolve(s, v) ==
    IF config[s].retried /\ config[s].vars[v] # Absent
    THEN config[s].vars[v]
    ELSE vars[s][v]

Resolved(s) ==
    [v \in Variables |->
        IF v \in Statement(s).reads THEN Resolve(s, v) ELSE Unread]

(* executeQueryRows answers rows and rowCount, executeExec rowsAffected; a  *)
(* query may answer no row.                                                 *)
MayFind(statement) ==
    CASE statement.path = "rows" -> {FALSE} \cup {statement.rows}
      [] statement.path = "rowCount" -> {statement.rows}
      [] statement.path = "rowsAffected" -> {~statement.rows}

Row(s, ok) ==
    [step |-> s, attempt |-> attempt[s], at |-> index[s],
     values |-> Resolved(s), found |-> ok]

Refused(s) == found[s] /\ ReadOnly \in Statement(s).targets

(* Mutant: targets are written as they are validated. *)
AssignedAsValidated(s) ==
    IF ~found[s] THEN vars[s]
    ELSE [v \in Variables |->
             IF v \in Statement(s).targets THEN <<attempt[s], index[s]>>
             ELSE vars[s][v]]

(* applyRuntimeAssignments: every target is validated before the first is   *)
(* written, and a path that finds nothing assigns nothing.                  *)
Assigned(s) ==
    IF ~found[s] \/ Refused(s) THEN vars[s]
    ELSE [v \in Variables |->
             IF v \in Statement(s).targets THEN <<attempt[s], index[s]>>
             ELSE vars[s][v]]

----------------------------------------------------------------------------
(* executeTransaction *)
InTransaction(s, label) == pc[s] = label /\ config[s].transaction

BeginTx(s) ==
    /\ InTransaction(s, "begin")
    /\ Goto(s, "statement")
    /\ UNCHANGED <<config, mu, dbs, opened, attempt, index, found, vars,
                   pending, durable, reports>>

(* The server is out of reach, or the context is done. *)
BeginTxFails(s) ==
    /\ InTransaction(s, "begin")
    /\ Fail(s, "nothing", 0)
    /\ UNCHANGED <<config, mu, dbs, opened, attempt, index, found, vars,
                   pending, durable>>

MoreStatements(s) == index[s] <= Len(config[s].statements)

ExecuteStatement(s) ==
    /\ InTransaction(s, "statement")
    /\ MoreStatements(s)
    /\ \E ok \in MayFind(Statement(s)) :
          /\ pending' = [pending EXCEPT ![s] = @ \cup {Row(s, ok)}]
          /\ found' = [found EXCEPT ![s] = ok]
    /\ Goto(s, "assigning")
    /\ UNCHANGED <<config, mu, dbs, opened, attempt, index, vars, durable, reports>>

Rollback(s) == pending' = [pending EXCEPT ![s] = {}]

(* Mutant: the transaction is committed where it should be rolled back. *)
StatementFailsKeeping(s) ==
    /\ InTransaction(s, "statement")
    /\ MoreStatements(s)
    /\ durable' = durable \cup pending[s]
    /\ Rollback(s)
    /\ Fail(s, "rolledBack", index[s])
    /\ UNCHANGED <<config, mu, dbs, opened, attempt, index, found, vars>>

(* An error of the server, a lost connection, or the context.               *)
StatementFails(s) ==
    /\ InTransaction(s, "statement")
    /\ MoreStatements(s)
    /\ Rollback(s)
    /\ Fail(s, "rolledBack", index[s])
    /\ UNCHANGED <<config, mu, dbs, opened, attempt, index, found, vars, durable>>

(* applyStatementAssignments writes to the context of the step and not to   *)
(* the transaction: a rollback leaves what was assigned.                    *)
AssignStatement(s) ==
    /\ InTransaction(s, "assigning")
    /\ vars' = [vars EXCEPT ![s] = Assigned(s)]
    /\ IF Refused(s)
       THEN /\ Rollback(s)
            /\ Fail(s, "rolledBack", index[s])
            /\ UNCHANGED index
       ELSE /\ index' = [index EXCEPT ![s] = @ + 1]
            /\ Goto(s, "statement")
            /\ UNCHANGED <<pending, reports>>
    /\ UNCHANGED <<config, mu, dbs, opened, attempt, found, durable>>

SendCommit(s) ==
    /\ InTransaction(s, "statement")
    /\ ~MoreStatements(s)
    /\ Goto(s, "committing")
    /\ UNCHANGED <<config, mu, dbs, opened, attempt, index, found, vars,
                   pending, durable, reports>>

(* External: the server makes the transaction durable, and its answer is    *)
(* under way.                                                               *)
ServerCommits(s) ==
    /\ pc[s] = "committing"
    /\ durable' = durable \cup pending[s]
    /\ Rollback(s)
    /\ Goto(s, "committed")
    /\ UNCHANGED <<config, mu, dbs, opened, attempt, index, found, vars, reports>>

Answer(s, said) ==
    /\ Goto(s, "returned")
    /\ reports' = [reports EXCEPT ![s] = Append(@, [said |-> said, failedAt |-> 0])]

CommitSucceeds(s) ==
    /\ pc[s] = "committed"
    /\ Answer(s, "committed")
    /\ UNCHANGED <<config, mu, dbs, opened, attempt, index, found, vars,
                   pending, durable>>

(* Commit returns an error: refused, or its answer lost on the way back.    *)
(* Either way the output says rolledBack, without a failedIndex.            *)
CommitFails(s) ==
    /\ pc[s] \in {"committing", "committed"}
    /\ Rollback(s)
    /\ Fail(s, "rolledBack", 0)
    /\ UNCHANGED <<config, mu, dbs, opened, attempt, index, found, vars, durable>>

----------------------------------------------------------------------------
(* executeQuery: one statement outside a transaction, made durable by       *)
(* itself.                                                                  *)
RunQuery(s) ==
    /\ pc[s] = "begin"
    /\ ~config[s].transaction
    /\ \E ok \in MayFind(Statement(s)) :
          /\ durable' = durable \cup {Row(s, ok)}
          /\ found' = [found EXCEPT ![s] = ok]
    /\ Goto(s, "answered")
    /\ UNCHANGED <<config, mu, dbs, opened, attempt, index, vars, pending, reports>>

(* The runner applies the assignments of a query once Execute returned, and *)
(* the step fails when it may not.  Validation refuses an assign in a       *)
(* branch or an item itself, so a step that assigns is one nested deeper in *)
(* it: the block of a retry, or of a loop over one item.                    *)
QuerySucceeds(s) ==
    /\ pc[s] = "answered"
    /\ vars' = [vars EXCEPT ![s] = Assigned(s)]
    /\ IF Refused(s) THEN Fail(s, "done", 1) ELSE Answer(s, "done")
    /\ UNCHANGED <<config, mu, dbs, opened, attempt, index, found, pending, durable>>

QueryFails(s) ==
    /\ \/ pc[s] = "begin" /\ ~config[s].transaction
       \/ pc[s] = "answered"
    /\ Fail(s, "nothing", 0)
    /\ UNCHANGED <<config, mu, dbs, opened, attempt, index, found, vars,
                   pending, durable>>

----------------------------------------------------------------------------
(* Mutant: one attempt more. *)
RetryStepOnceMore(s) ==
    /\ pc[s] = "failed"
    /\ attempt[s] <= config[s].attempts
    /\ attempt' = [attempt EXCEPT ![s] = @ + 1]
    /\ index' = [index EXCEPT ![s] = 1]
    /\ Goto(s, "db")
    /\ UNCHANGED <<config, mu, dbs, opened, found, vars, pending, durable, reports>>

(* The retry around the step, with no retry_on: every error is retried      *)
(* until the budget is spent or the context is done.                        *)
RetryStep(s) ==
    /\ pc[s] = "failed"
    /\ attempt[s] < config[s].attempts
    /\ attempt' = [attempt EXCEPT ![s] = @ + 1]
    /\ index' = [index EXCEPT ![s] = 1]
    /\ Goto(s, "db")
    /\ UNCHANGED <<config, mu, dbs, opened, found, vars, pending, durable, reports>>

GiveUp(s) ==
    /\ pc[s] = "failed"
    /\ Goto(s, "returned")
    /\ UNCHANGED <<config, mu, dbs, opened, attempt, index, found, vars,
                   pending, durable, reports>>

Terminated == (\A s \in Steps : pc[s] = "returned") /\ UNCHANGED variables

Progress(s) ==
    \/ LookupDB(s) \/ OpenDB(s)
    \/ BeginTx(s) \/ BeginTxFails(s)
    \/ ExecuteStatement(s) \/ StatementFails(s) \/ AssignStatement(s)
    \/ SendCommit(s) \/ ServerCommits(s) \/ CommitSucceeds(s) \/ CommitFails(s)
    \/ RunQuery(s) \/ QuerySucceeds(s) \/ QueryFails(s)
    \/ RetryStep(s) \/ GiveUp(s)

Next == (\E s \in Steps : Progress(s)) \/ Terminated

Spec == Init /\ [][Next]_variables

----------------------------------------------------------------------------
(* All of the branches that name a DSN use one pool: a second one is never  *)
(* opened and lost, whichever of them come first together.                  *)
OnePoolPerDsn ==
    /\ \A d \in Dsns : opened[d] <= 1
    /\ \A s \in Steps :
          pc[s] \notin {"db", "opening", "failed", "returned"} => config[s].dsn \in dbs

RowsOf(s, k) == {row \in durable : row.step = s /\ row.attempt = k}

Succeeded(report) ==
    report.said = "committed" \/ (report.said = "done" /\ report.failedAt = 0)

(* How an attempt fails once the server keeps what it wrote: the answer to  *)
(* the commit was lost, or that to a query, or the query answered and its   *)
(* assignment was refused.                                                  *)
FailedAfterWriting(s, report) ==
    \/ /\ config[s].transaction
       /\ report = [said |-> "rolledBack", failedAt |-> 0]
    \/ /\ ~config[s].transaction
       /\ report = [said |-> "nothing", failedAt |-> 0]
    \/ /\ ~config[s].transaction
       /\ report = [said |-> "done", failedAt |-> 1]
       /\ ReadOnly \in config[s].statements[1].targets

(* What Execute says of an attempt, against what the server keeps of it.    *)
(* A transaction leaves all of its rows or none, an attempt that answered   *)
(* left all, and one that succeeded is the last.  An attempt that failed    *)
(* left something only in one of the three ways above, so these are all the *)
(* ways in which a retry writes twice: a transaction that names a failed    *)
(* statement, or that could not begin, left nothing.                        *)
ReportTellsServer ==
    \A s \in Steps : \A k \in 1..Len(reports[s]) :
        LET report == reports[s][k]
            Kept == {row.at : row \in RowsOf(s, k)}
        IN  /\ Kept \in {{}, 1..Len(config[s].statements)}
            /\ report.said \in {"committed", "done"} => Kept # {}
            /\ Succeeded(report) => k = Len(reports[s])
            /\ Kept # {} => Succeeded(report) \/ FailedAfterWriting(s, report)

(* A value that the same transaction assigned before the statement ran is   *)
(* the one it sees, unless retry bound the reference before the attempts:   *)
(* then every attempt sees the value from before the first.                 *)
ReadsOwnTransaction ==
    \A row \in durable : \A v \in Variables :
        LET c == config[row.step]
            Before == {r \in RowsOf(row.step, row.attempt) :
                          /\ r.at < row.at
                          /\ r.found
                          /\ v \in c.statements[r.at].targets}
        IN  row.values[v] # Unread =>
            IF c.retried /\ c.vars[v] # Absent
            THEN row.values[v] = Initial
            ELSE /\ Before # {} => row.values[v][1] = row.attempt
                 /\ Before = {} => row.values[v][1] < row.attempt

(* What was assigned survives the rollback, but a variable never holds a    *)
(* value of the statement that failed: a refused assignment wrote nothing.  *)
AssignedBySucceeded ==
    \A s \in Steps : \A v \in Variables :
        LET k == vars[s][v][1]
        IN  k \in 1..Len(reports[s]) =>
               \/ reports[s][k].failedAt = 0
               \/ vars[s][v][2] < reports[s][k].failedAt

(* Variables follow the statements and not the transaction.  Where the      *)
(* transaction has assigned a value of its own, a durable row was written   *)
(* with that one; before it has, with what the context held, which may be   *)
(* what an attempt that was rolled back assigned.  Nothing comes from a     *)
(* statement that failed.                                                   *)
OwnTransactionSeen == ReadsOwnTransaction /\ AssignedBySucceeded

==============================================================================
