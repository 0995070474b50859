-------------------------- MODULE TransactionProofs --------------------------
(***************************************************************************)
(* Proofs about Transaction, for any number of steps with any statements,  *)
(* assignments, DSNs and budgets of attempts.                              *)
(***************************************************************************)
EXTENDS Transaction, SequenceTheorems, TLAPS

----------------------------------------------------------------------------
(* The inductive invariant.  A step touches only its own part of the state, *)
(* apart from the pools, so it is Pools and StepInv of every step.          *)

Labels ==
    {"db", "opening", "begin", "statement", "assigning",
     "committing", "committed", "answered", "failed", "returned"}

Shape ==
    /\ config \in [Steps -> ValidConfigs]
    /\ pc \in [Steps -> Labels]
    /\ attempt \in [Steps -> Nat \ {0}]
    /\ index \in [Steps -> Nat \ {0}]
    /\ found \in [Steps -> BOOLEAN]
    /\ vars \in [Steps -> [Variables -> Nat \X Nat]]
    /\ pending \in [Steps -> SUBSET Rows]
    /\ reports \in [Steps -> Seq(Reports)]
    /\ durable \subseteq Rows

(* The mutex is held while a pool is being opened, and only then.           *)
Pools ==
    /\ mu \in Steps \cup {NoStep}
    /\ dbs \subseteq Dsns
    /\ \A s \in Steps :
          /\ pc[s] = "opening" <=> mu = s
          /\ pc[s] = "opening" => config[s].dsn \notin dbs
          /\ pc[s] \notin {"db", "opening", "failed", "returned"} => config[s].dsn \in dbs
    /\ opened = [d \in Dsns |-> IF d \in dbs THEN 1 ELSE 0]

InTx == {"statement", "assigning", "committing", "committed"}

(* Where a step stands, and how many attempts it has reported.              *)
Control(s) ==
    /\ config[s] \in Configs[s]
    /\ attempt[s] <= config[s].attempts
    /\ index[s] <= Len(config[s].statements) + 1
    /\ pc[s] \in InTx => config[s].transaction
    /\ pc[s] = "answered" => ~config[s].transaction
    /\ pc[s] \in {"db", "opening", "begin", "answered"} => index[s] = 1
    /\ pc[s] = "assigning" => index[s] <= Len(config[s].statements)
    /\ pc[s] \in {"committing", "committed"} =>
          index[s] = Len(config[s].statements) + 1
    /\ Len(reports[s]) =
          IF pc[s] \in {"failed", "returned"} THEN attempt[s] ELSE attempt[s] - 1

Ats(rows) == {row.at : row \in rows}

(* What the open transaction holds: one row for each statement that ran.    *)
OpenTransaction(s) ==
    /\ \A row \in pending[s] : row.step = s /\ row.attempt = attempt[s]
    /\ Ats(pending[s]) =
          IF pc[s] \in {"statement", "committing"} THEN 1..index[s] - 1
          ELSE IF pc[s] = "assigning" THEN 1..index[s] ELSE {}
    /\ pc[s] = "assigning" =>
          \A row \in pending[s] : row.at = index[s] => row.found = found[s]

(* What the server keeps: nothing of a later attempt, and of this one only  *)
(* what was committed.                                                      *)
Kept(s) ==
    /\ \A row \in durable : row.step = s => row.attempt <= attempt[s]
    /\ pc[s] \in {"committed", "answered"} =>
          Ats(RowsOf(s, attempt[s])) = 1..Len(config[s].statements)
    /\ pc[s] \notin {"committed", "answered", "failed", "returned"} =>
          RowsOf(s, attempt[s]) = {}

(* ReportTellsServer, for one step and one attempt.                         *)
Tells(s, k) ==
    LET report == reports[s][k]
        kept == Ats(RowsOf(s, k))
    IN  /\ kept \in {{}, 1..Len(config[s].statements)}
        /\ report.said \in {"committed", "done"} => kept # {}
        /\ Succeeded(report) => k = Len(reports[s]) /\ pc[s] = "returned"
        /\ kept # {} => Succeeded(report) \/ FailedAfterWriting(s, report)

(* ReadsOwnTransaction, for one row of a set of rows. *)
Before(row, rows, v) ==
    {r \in rows : /\ r.at < row.at
                  /\ r.found
                  /\ v \in config[row.step].statements[r.at].targets}

Reads(row, rows) ==
    \A v \in Variables :
        row.values[v] # Unread =>
            IF config[row.step].retried /\ config[row.step].vars[v] # Absent
            THEN row.values[v] = Initial
            ELSE /\ Before(row, rows, v) # {} => row.values[v][1] = row.attempt
                 /\ Before(row, rows, v) = {} => row.values[v][1] < row.attempt

ReadsRight(s) ==
    /\ \A row \in pending[s] : Reads(row, pending[s])
    /\ \A row \in durable : row.step = s => Reads(row, RowsOf(s, row.attempt))

(* A variable holds a value of this attempt exactly when a statement of the *)
(* transaction that ran before has found one for it.                        *)
FollowsStatements(s, v) ==
    /\ vars[s][v][1] <= attempt[s]
    /\ pc[s] \in {"db", "opening", "begin", "answered"} => vars[s][v][1] < attempt[s]
    /\ pc[s] \in {"statement", "assigning"} =>
          /\ vars[s][v][1] = attempt[s] => vars[s][v][2] < index[s]
          /\ vars[s][v][1] = attempt[s] <=>
                \E row \in pending[s] :
                   /\ row.at < index[s]
                   /\ row.found
                   /\ v \in config[s].statements[row.at].targets

(* AssignedBySucceeded, for one step and one variable. *)
LeftBySucceeded(s, v) ==
    LET k == vars[s][v][1]
    IN  k \in 1..Len(reports[s]) =>
           \/ reports[s][k].failedAt = 0
           \/ vars[s][v][2] < reports[s][k].failedAt

StepInv(s) ==
    /\ Control(s)
    /\ OpenTransaction(s)
    /\ Kept(s)
    /\ \A k \in 1..Len(reports[s]) : Tells(s, k)
    /\ ReadsRight(s)
    /\ vars[s] \in [Variables -> Values(s)]
    /\ \A v \in Variables : FollowsStatements(s, v) /\ LeftBySucceeded(s, v)

IInv ==
    /\ Shape
    /\ Pools
    /\ \A s \in Steps : StepInv(s)

----------------------------------------------------------------------------
(* What a validated configuration holds. *)
LEMMA ConfigTypes ==
    ASSUME Shape, NEW s \in Steps
    PROVE  /\ config[s].dsn \in Dsns
           /\ config[s].transaction \in BOOLEAN
           /\ config[s].retried \in BOOLEAN
           /\ config[s].attempts \in Nat \ {0}
           /\ config[s].vars \in [Variables -> {Absent, Initial}]
           /\ config[s].statements \in Seq(Statements)
           /\ Len(config[s].statements) \in Nat \ {0}
           /\ ~config[s].transaction => Len(config[s].statements) = 1
<1>1. config[s] \in ValidConfigs
    BY DEF Shape
<1>2. config[s].statements \in Seq(Statements) /\ config[s].statements # <<>>
    BY <1>1 DEF ValidConfigs
<1>3. Len(config[s].statements) \in Nat \ {0}
    BY <1>2, EmptySeq, LenProperties
<1> QED
    BY <1>1, <1>2, <1>3 DEF ValidConfigs

LEMMA StepTypes ==
    ASSUME Shape, NEW s \in Steps
    PROVE  /\ pc[s] \in Labels
           /\ attempt[s] \in Nat \ {0} /\ index[s] \in Nat \ {0}
           /\ found[s] \in BOOLEAN
           /\ vars[s] \in [Variables -> Nat \X Nat]
           /\ pending[s] \subseteq Rows
           /\ reports[s] \in Seq(Reports)
           /\ Len(reports[s]) \in Nat
    BY LenProperties DEF Shape

(* The statement being run, and the row it writes. *)
LEMMA RowType ==
    ASSUME Shape, NEW s \in Steps, index[s] <= Len(config[s].statements),
           NEW ok \in MayFind(Statement(s))
    PROVE  /\ Statement(s) \in Statements
           /\ ok \in BOOLEAN
           /\ Row(s, ok) \in Rows
<1>1. Statement(s) \in Statements
    BY ConfigTypes, StepTypes, ElementOfSeq DEF Statement
<1>2. ok \in BOOLEAN
  <2>1. Statement(s).rows \in BOOLEAN /\ Statement(s).path \in {"rows", "rowCount", "rowsAffected"}
      BY <1>1 DEF Statements
  <2> QED
      BY <2>1 DEF MayFind
<1>3. ASSUME NEW v \in Variables PROVE Resolve(s, v) \in Nat \X Nat
  <2>1. config[s].vars[v] \in {Absent, Initial} /\ vars[s][v] \in Nat \X Nat
      BY ConfigTypes, StepTypes
  <2>2. config[s].vars[v] \in Nat \X Nat
      BY <2>1 DEF Absent, Initial
  <2> QED
      BY <2>1, <2>2 DEF Resolve
<1>4. Resolved(s) \in [Variables -> Nat \X Nat]
    BY <1>3 DEF Resolved, Unread
<1> QED
    BY <1>1, <1>2, <1>4, StepTypes DEF Row, Rows

(* Nothing of the state that StepInv(t) reads has changed.                  *)
Same(t) ==
    /\ pc'[t] = pc[t]
    /\ attempt'[t] = attempt[t]
    /\ index'[t] = index[t]
    /\ found'[t] = found[t]
    /\ vars'[t] = vars[t]
    /\ pending'[t] = pending[t]
    /\ reports'[t] = reports[t]
    /\ \A row \in durable : row \in durable'
    /\ \A row \in durable' : row.step = t => row \in durable

LEMMA RowsOfSame ==
    ASSUME NEW t, NEW k,
           \A row \in durable : row \in durable',
           \A row \in durable' : row.step = t => row \in durable
    PROVE  RowsOf(t, k)' = RowsOf(t, k)
    BY DEF RowsOf

(* The reads of a step are right as long as nothing of what it reads from   *)
(* changes, or its transaction ends.                                        *)
LEMMA ReadsSame ==
    ASSUME NEW s, ReadsRight(s), config' = config,
           pending'[s] \in {pending[s], {}},
           \A row \in durable' : row.step = s => row \in durable,
           \A k : RowsOf(s, k)' = RowsOf(s, k)
    PROVE  ReadsRight(s)'
<1>1. ASSUME NEW row \in pending'[s] PROVE Reads(row, pending[s])'
  <2>1. row \in pending[s] /\ pending'[s] = pending[s]
      BY <1>1
  <2>2. Reads(row, pending[s])
      BY <2>1 DEF ReadsRight
  <2> QED
      BY <2>1, <2>2 DEF Reads, Before
<1>2. ASSUME NEW row \in durable', row.step = s
      PROVE  Reads(row, RowsOf(s, row.attempt))'
  <2>1. Reads(row, RowsOf(s, row.attempt))
      BY <1>2 DEF ReadsRight
  <2> QED
      BY <2>1 DEF Reads, Before
<1> QED
    BY <1>1, <1>2 DEF ReadsRight

LEMMA SameStepInv ==
    ASSUME NEW t \in Steps, StepInv(t), config' = config, Same(t)
    PROVE  StepInv(t)'
<1>1. \A k : RowsOf(t, k)' = RowsOf(t, k)
    BY RowsOfSame DEF Same
<1>2. Control(t)' /\ OpenTransaction(t)'
    BY DEF StepInv, Same, Control, OpenTransaction
<1>3. Kept(t)'
    BY <1>1 DEF StepInv, Same, Kept
<1>4. \A k \in 1..Len(reports[t])' : Tells(t, k)'
    BY <1>1 DEF StepInv, Same, Tells, FailedAfterWriting
<1>5. ReadsRight(t)'
    BY <1>1, ReadsSame DEF StepInv, Same
<1>6. vars'[t] \in [Variables -> Values(t)']
    BY DEF StepInv, Same, Values
<1>7. \A v \in Variables : FollowsStatements(t, v)' /\ LeftBySucceeded(t, v)'
    BY DEF StepInv, Same, FollowsStatements, LeftBySucceeded
<1> QED
    BY <1>2, <1>3, <1>4, <1>5, <1>6, <1>7 DEF StepInv

(* A step of s leaves the others as they are. *)
LEMMA StepIInv ==
    ASSUME IInv, NEW s \in Steps, config' = config,
           Shape', Pools', StepInv(s)', \A t \in Steps \ {s} : Same(t)
    PROVE  IInv'
    BY SameStepInv DEF IInv

(* The pools do not change, and s neither takes the mutex nor uses a pool it *)
(* did not look up.                                                          *)
LEMMA PoolsSame ==
    ASSUME IInv, NEW s \in Steps, NEW label \in Labels, Goto(s, label),
           UNCHANGED <<config, mu, dbs, opened>>,
           label # "opening", pc[s] # "opening",
           label \in {"db", "failed", "returned"}
           \/ pc[s] \notin {"db", "failed", "returned"}
    PROVE  Pools'
    BY DEF IInv, Shape, Pools, Goto

----------------------------------------------------------------------------
LEMMA InitIInv == Init => IInv
<1> SUFFICES ASSUME Init PROVE IInv
    OBVIOUS
<1>1. Shape
  <2>1. config \in [Steps -> ValidConfigs]
      BY ConfigsAssumption DEF Init
  <2>2. vars \in [Steps -> [Variables -> Nat \X Nat]]
    <3>1. ASSUME NEW s \in Steps PROVE config[s].vars \in [Variables -> {Absent, Initial}]
        BY <2>1 DEF ValidConfigs
    <3>2. Absent \in Nat \X Nat /\ Initial \in Nat \X Nat
        BY DEF Absent, Initial
    <3>3. ASSUME NEW s \in Steps PROVE vars[s] \in [Variables -> Nat \X Nat]
        BY <3>1, <3>2 DEF Init
    <3> QED
        BY <3>3 DEF Init
  <2> QED
      BY <2>1, <2>2 DEF Init, Shape, Labels
<1>2. Pools
    BY StepsAssumption DEF Init, Pools
<1>3. ASSUME NEW s \in Steps PROVE StepInv(s)
  <2>1. \A k : RowsOf(s, k) = {}
      BY DEF Init, RowsOf
  <2>0. /\ pc[s] = "db" /\ attempt[s] = 1 /\ index[s] = 1
        /\ pending[s] = {} /\ durable = {} /\ reports[s] = <<>>
        /\ config[s] \in Configs[s]
      BY DEF Init
  <2>2. Control(s)
      BY <1>1, <2>0, ConfigTypes DEF Control, InTx
  <2>8. OpenTransaction(s)
      BY <2>0 DEF OpenTransaction, Ats
  <2>9. Kept(s)
      BY <2>0, <2>1 DEF Kept
  <2>3. \A k \in 1..Len(reports[s]) : Tells(s, k)
      BY DEF Init
  <2>4. ReadsRight(s)
      BY DEF Init, ReadsRight
  <2>5. vars[s] = config[s].vars /\ config[s].vars \in [Variables -> {Absent, Initial}]
      BY <1>1, ConfigTypes DEF Init
  <2>6. vars[s] \in [Variables -> Values(s)]
      BY <2>5 DEF Values
  <2>7. \A v \in Variables : FollowsStatements(s, v) /\ LeftBySucceeded(s, v)
      BY <2>0, <2>5 DEF FollowsStatements, LeftBySucceeded, Absent, Initial
  <2> QED
      BY <2>2, <2>3, <2>4, <2>6, <2>7, <2>8, <2>9 DEF StepInv
<1> QED
    BY <1>1, <1>2, <1>3 DEF IInv

----------------------------------------------------------------------------
LEMMA NoRows == ASSUME NEW rows, Ats(rows) = {} PROVE rows = {}
<1> SUFFICES ASSUME NEW row \in rows PROVE FALSE
    OBVIOUS
<1> QED
    BY row.at \in Ats(rows) DEF Ats

(* An attempt that is reported. *)
LEMMA ReportAppended ==
    ASSUME Shape, NEW s \in Steps, NEW report \in Reports,
           reports' = [reports EXCEPT ![s] = Append(@, report)]
    PROVE  /\ reports' \in [Steps -> Seq(Reports)]
           /\ Len(reports[s]) \in Nat
           /\ Len(reports'[s]) = Len(reports[s]) + 1
           /\ \A k \in 1..Len(reports[s]) : reports'[s][k] = reports[s][k]
           /\ reports'[s][Len(reports[s]) + 1] = report
           /\ \A t \in Steps \ {s} : reports'[t] = reports[t]
<1>1. reports \in [Steps -> Seq(Reports)] /\ reports[s] \in Seq(Reports)
    BY DEF Shape
<1>2. reports'[s] = Append(reports[s], report)
    BY <1>1
<1> QED
    BY <1>1, <1>2, AppendProperties, LenProperties

(* A step that moves on and nothing else: the mutex and the rows stay.      *)
LEMMA MoveIInv ==
    ASSUME IInv, NEW s \in Steps, NEW label \in Labels, Goto(s, label),
           UNCHANGED <<config, mu, dbs, opened, attempt, index, found, vars,
                       pending, durable, reports>>,
           pc[s] \notin {"opening", "db", "returned"}, label # "opening",
           Control(s)', OpenTransaction(s)', Kept(s)',
           label = "returned" => \A k \in 1..Len(reports[s]) :
                                     ~Succeeded(reports[s][k]),
           \A v \in Variables : FollowsStatements(s, v)',
           label \in {"db", "failed", "returned"} \/ pc[s] # "failed"
    PROVE  IInv'
<1>1. Shape'
    BY DEF IInv, Shape, Goto
<1>2. Pools'
    BY PoolsSame
<1>3. \A k : RowsOf(s, k)' = RowsOf(s, k)
    BY DEF RowsOf
<1>4. \A k \in 1..Len(reports[s])' : Tells(s, k)'
    BY <1>3 DEF IInv, StepInv, Tells, FailedAfterWriting
<1>5. ReadsRight(s)'
    BY <1>3, ReadsSame DEF IInv, StepInv
<1>6. /\ vars'[s] \in [Variables -> Values(s)']
      /\ \A v \in Variables : LeftBySucceeded(s, v)'
    BY DEF IInv, StepInv, Values, LeftBySucceeded
<1>7. StepInv(s)'
    BY <1>4, <1>5, <1>6 DEF StepInv
<1>8. \A t \in Steps \ {s} : Same(t)
    BY DEF IInv, Shape, Goto, Same
<1> QED
    BY <1>1, <1>2, <1>7, <1>8, StepIInv

LEMMA BeginTxIInv == ASSUME IInv, NEW s \in Steps, BeginTx(s) PROVE IInv'
<1> USE DEF BeginTx, InTransaction
<1>1. Goto(s, "statement") /\ pc'[s] = "statement" /\ "statement" \in Labels
    BY DEF IInv, Shape, Goto, Labels
<1>2. Control(s)'
    BY <1>1 DEF IInv, StepInv, Control, InTx
<1>3. OpenTransaction(s)'
    BY <1>1 DEF IInv, StepInv, Control, OpenTransaction, Ats
<1>4. Kept(s)'
    BY <1>1 DEF IInv, StepInv, Kept, RowsOf
<1>5. \A v \in Variables : FollowsStatements(s, v)'
  <2>1. pending[s] = {}
      BY NoRows DEF IInv, StepInv, OpenTransaction
  <2>2. ASSUME NEW v \in Variables
        PROVE  attempt[s] \in Nat /\ vars[s][v][1] \in Nat
      BY StepTypes DEF IInv
  <2> QED
      BY <1>1, <2>1, <2>2 DEF IInv, StepInv, FollowsStatements
<1> QED
    BY <1>1, <1>2, <1>3, <1>4, <1>5, MoveIInv

LEMMA SendCommitIInv == ASSUME IInv, NEW s \in Steps, SendCommit(s) PROVE IInv'
<1> USE DEF SendCommit, InTransaction, MoreStatements
<1>1. Goto(s, "committing") /\ pc'[s] = "committing" /\ "committing" \in Labels
    BY DEF IInv, Shape, Goto, Labels
<1>2. Control(s)'
    BY <1>1, StepTypes, ConfigTypes DEF IInv, StepInv, Control, InTx
<1>3. OpenTransaction(s)'
    BY <1>1 DEF IInv, StepInv, OpenTransaction
<1>4. Kept(s)'
    BY <1>1 DEF IInv, StepInv, Kept, RowsOf
<1>5. \A v \in Variables : FollowsStatements(s, v)'
    BY <1>1 DEF IInv, StepInv, FollowsStatements
<1> QED
    BY <1>1, <1>2, <1>3, <1>4, <1>5, MoveIInv

LEMMA GiveUpIInv == ASSUME IInv, NEW s \in Steps, GiveUp(s) PROVE IInv'
<1> USE DEF GiveUp
<1>1. Goto(s, "returned") /\ pc'[s] = "returned" /\ "returned" \in Labels
    BY DEF IInv, Shape, Goto, Labels
<1>2. Control(s)'
    BY <1>1 DEF IInv, StepInv, Control, InTx
<1>3. OpenTransaction(s)'
    BY <1>1 DEF IInv, StepInv, OpenTransaction
<1>4. Kept(s)'
    BY <1>1 DEF IInv, StepInv, Kept
<1>5. \A v \in Variables : FollowsStatements(s, v)'
    BY <1>1 DEF IInv, StepInv, FollowsStatements
<1>6. \A k \in 1..Len(reports[s]) : ~Succeeded(reports[s][k])
    BY DEF IInv, StepInv, Tells
<1> QED
    BY <1>1, <1>2, <1>3, <1>4, <1>5, <1>6, MoveIInv

LEMMA RetryStepIInv == ASSUME IInv, NEW s \in Steps, RetryStep(s) PROVE IInv'
<1> USE DEF RetryStep
<1>1. Goto(s, "db") /\ "db" \in Labels
    BY DEF Labels
<1>2. /\ pc'[s] = "db" /\ attempt'[s] = attempt[s] + 1 /\ index'[s] = 1
      /\ attempt[s] \in Nat \ {0} /\ config[s].attempts \in Nat
      /\ config[s].statements \in Seq(Statements)
      /\ Len(config[s].statements) \in Nat \ {0}
    BY StepTypes, ConfigTypes DEF IInv, Shape, Goto
<1>3. Shape'
    BY <1>1 DEF IInv, Shape, Goto
<1>4. Pools'
    BY <1>1, PoolsSame
<1>5. \A k : RowsOf(s, k)' = RowsOf(s, k)
    BY DEF RowsOf
<1>6. Control(s)'
    BY <1>2 DEF IInv, StepInv, Control, InTx
<1>7. pending[s] = {}
    BY NoRows DEF IInv, StepInv, OpenTransaction
<1>8. OpenTransaction(s)'
    BY <1>2, <1>7 DEF OpenTransaction, Ats
<1>9. \A row \in durable : row.step = s => row.attempt \in Nat /\ row.attempt <= attempt[s]
    BY DEF IInv, Shape, Rows, StepInv, Kept
<1>10. Kept(s)'
    BY <1>2, <1>9 DEF Kept, RowsOf
<1>11. \A k \in 1..Len(reports[s])' : Tells(s, k)'
    BY <1>5 DEF IInv, StepInv, Tells, FailedAfterWriting
<1>12. ReadsRight(s)'
    BY <1>5, ReadsSame DEF IInv, StepInv
<1>13. \A v \in Variables : FollowsStatements(s, v)' /\ LeftBySucceeded(s, v)'
  <2>1. ASSUME NEW v \in Variables PROVE vars[s][v][1] \in Nat
      BY StepTypes DEF IInv
  <2> QED
      BY <1>2, <2>1 DEF IInv, StepInv, FollowsStatements, LeftBySucceeded
<1>14. StepInv(s)'
    BY <1>6, <1>8, <1>10, <1>11, <1>12, <1>13 DEF IInv, StepInv, Values
<1>15. \A t \in Steps \ {s} : Same(t)
    BY DEF IInv, Shape, Goto, Same
<1> QED
    BY <1>3, <1>4, <1>14, <1>15, StepIInv

(* A reported attempt keeps what was said of the ones before.               *)
LEMMA EarlierTold ==
    ASSUME IInv, NEW s \in Steps, NEW report \in Reports,
           reports' = [reports EXCEPT ![s] = Append(@, report)],
           pc[s] \notin {"failed", "returned"},
           config' = config,
           \A k \in 1..Len(reports[s]) : RowsOf(s, k)' = RowsOf(s, k)
    PROVE  \A k \in 1..Len(reports[s]) : Tells(s, k)'
<1>1. /\ Len(reports[s]) \in Nat
      /\ \A k \in 1..Len(reports[s]) : reports'[s][k] = reports[s][k]
    BY ReportAppended DEF IInv
<1>2. ASSUME NEW k \in 1..Len(reports[s]) PROVE Tells(s, k)'
  <2>1. Tells(s, k) /\ ~Succeeded(reports[s][k])
      BY DEF IInv, StepInv, Tells
  <2> QED
      BY <1>1, <2>1 DEF Tells, FailedAfterWriting
<1> QED
    BY <1>2

LEMMA EarlierLeft ==
    ASSUME IInv, NEW s \in Steps, NEW report \in Reports, NEW v \in Variables,
           reports' = [reports EXCEPT ![s] = Append(@, report)],
           pc[s] \notin {"failed", "returned"},
           UNCHANGED <<config, attempt>>,
           vars'[s][v] = vars[s][v],
           vars[s][v][1] = attempt[s] =>
               report.failedAt = 0 \/ vars[s][v][2] < report.failedAt
    PROVE  LeftBySucceeded(s, v)'
<1>1. /\ Len(reports[s]) \in Nat
      /\ Len(reports'[s]) = Len(reports[s]) + 1
      /\ \A k \in 1..Len(reports[s]) : reports'[s][k] = reports[s][k]
      /\ reports'[s][Len(reports[s]) + 1] = report
    BY ReportAppended DEF IInv
<1>2. Len(reports[s]) + 1 = attempt[s]
    BY StepTypes DEF IInv, StepInv, Control
<1>3. vars[s][v][1] \in Nat
    BY StepTypes DEF IInv
<1>4. LeftBySucceeded(s, v)
    BY DEF IInv, StepInv
<1> QED
    BY <1>1, <1>2, <1>3, <1>4 DEF LeftBySucceeded

(* Each way an attempt fails. *)
LEMMA FailIInv ==
    ASSUME IInv, NEW s \in Steps, NEW failedAt \in Nat,
           NEW said \in {"nothing", "rolledBack", "done"},
           Fail(s, said, failedAt),
           UNCHANGED <<config, attempt, index, found, vars, durable>>,
           pending' = [pending EXCEPT ![s] = {}],
           pc[s] \notin {"failed", "returned"},
           Pools',
           said = "done" => pc[s] = "answered" /\ failedAt # 0,
           \/ RowsOf(s, attempt[s]) = {}
           \/ FailedAfterWriting(s, [said |-> said, failedAt |-> failedAt]),
           failedAt = 0 \/ \A v \in Variables :
               vars[s][v][1] = attempt[s] => vars[s][v][2] < failedAt
    PROVE  IInv'
<1> DEFINE report == [said |-> said, failedAt |-> failedAt]
<1>1. /\ report \in Reports
      /\ pc' = [pc EXCEPT ![s] = "failed"]
      /\ reports' = [reports EXCEPT ![s] = Append(@, report)]
      /\ RowsOf(s, attempt[s]) = {} \/ FailedAfterWriting(s, report)
      /\ ~Succeeded(report)
    BY DEF Reports, Fail, Goto, Succeeded
<1> HIDE DEF report
<1>2. /\ reports' \in [Steps -> Seq(Reports)]
      /\ Len(reports[s]) \in Nat
      /\ Len(reports'[s]) = Len(reports[s]) + 1
      /\ reports'[s][Len(reports[s]) + 1] = report
      /\ \A t \in Steps \ {s} : reports'[t] = reports[t]
    BY <1>1, ReportAppended DEF IInv
<1>3. Len(reports[s]) + 1 = attempt[s] /\ attempt[s] \in Nat
    BY StepTypes DEF IInv, StepInv, Control
<1>4. pc'[s] = "failed" /\ pending'[s] = {}
    BY <1>1 DEF IInv, Shape
<1>5. Shape'
    BY <1>1, <1>2 DEF IInv, Shape, Labels
<1>6. \A k : RowsOf(s, k)' = RowsOf(s, k)
    BY DEF RowsOf
<1>7. Control(s)'
    BY <1>2, <1>3, <1>4 DEF IInv, StepInv, Control, InTx
<1>8. OpenTransaction(s)'
    BY <1>4 DEF OpenTransaction, Ats
<1>9. Kept(s)'
    BY <1>4 DEF IInv, StepInv, Kept
<1>10. \A k \in 1..Len(reports'[s]) : Tells(s, k)'
  <2>1. \A k \in 1..Len(reports[s]) : Tells(s, k)'
      BY <1>1, <1>6, EarlierTold
  <2>2. Ats(RowsOf(s, attempt[s])) \in {{}, 1..Len(config[s].statements)}
      BY DEF IInv, StepInv, Kept, Ats
  <2>3. pc[s] = "answered" => Ats(RowsOf(s, attempt[s])) # {}
    <3>1. Len(config[s].statements) \in Nat \ {0}
        BY ConfigTypes DEF IInv
    <3>2. 1 \in 1..Len(config[s].statements)
        BY <3>1
    <3> QED
        BY <3>2 DEF IInv, StepInv, Kept
  <2>4. RowsOf(s, attempt[s]) = {} => Ats(RowsOf(s, attempt[s])) = {}
      BY DEF Ats
  <2>5. report.said = said /\ report.failedAt = failedAt
      BY DEF report
  <2>6. FailedAfterWriting(s, report)' <=> FailedAfterWriting(s, report)
      BY DEF FailedAfterWriting
  <2>7. Tells(s, attempt[s])'
    <3>1. reports'[s][attempt[s]] = report
        BY <1>2, <1>3
    <3>2. Ats(RowsOf(s, attempt[s])') = Ats(RowsOf(s, attempt[s]))
        BY <1>6
    <3>3. report.said \in {"committed", "done"} => Ats(RowsOf(s, attempt[s])) # {}
        BY <2>3, <2>5
    <3> QED
        BY <1>1, <2>2, <2>4, <2>6, <3>1, <3>2, <3>3 DEF Tells, FailedAfterWriting
  <2> QED
      BY <1>2, <1>3, <2>1, <2>7
<1>11. ReadsRight(s)'
    BY <1>4, <1>6, ReadsSame DEF IInv, StepInv
<1>12. \A v \in Variables : FollowsStatements(s, v)'
    BY <1>4 DEF IInv, StepInv, FollowsStatements
<1>13. \A v \in Variables : LeftBySucceeded(s, v)'
    BY <1>1, EarlierLeft DEF report
<1>14. vars'[s] \in [Variables -> Values(s)']
    BY DEF IInv, StepInv, Values
<1>15. StepInv(s)'
    BY <1>7, <1>8, <1>9, <1>10, <1>11, <1>12, <1>13, <1>14 DEF StepInv
<1>16. \A t \in Steps \ {s} : Same(t)
    BY <1>1, <1>2 DEF IInv, Shape, Same
<1> QED
    BY <1>5, <1>15, <1>16, StepIInv

(* The pools when an attempt fails outside of them. *)
LEMMA FailPools ==
    ASSUME IInv, NEW s \in Steps, pc' = [pc EXCEPT ![s] = "failed"],
           UNCHANGED <<config, mu, dbs, opened>>, pc[s] # "opening"
    PROVE  Pools'
    BY DEF IInv, Shape, Pools

LEMMA NothingPending ==
    ASSUME IInv, NEW s \in Steps,
           pc[s] \notin {"statement", "assigning", "committing"}
    PROVE  pending[s] = {} /\ pending = [pending EXCEPT ![s] = {}]
<1>1. pending[s] = {}
    BY NoRows DEF IInv, StepInv, OpenTransaction
<1> QED
    BY <1>1 DEF IInv, Shape

LEMMA BeginTxFailsIInv == ASSUME IInv, NEW s \in Steps, BeginTxFails(s) PROVE IInv'
<1> USE DEF BeginTxFails, InTransaction
<1>1. Pools'
    BY FailPools DEF Fail, Goto
<1>2. RowsOf(s, attempt[s]) = {}
    BY DEF IInv, StepInv, Kept
<1>3. pending' = [pending EXCEPT ![s] = {}]
    BY NothingPending
<1> QED
    BY <1>1, <1>2, <1>3, FailIInv

LEMMA StatementFailsIInv == ASSUME IInv, NEW s \in Steps, StatementFails(s) PROVE IInv'
<1> USE DEF StatementFails, InTransaction, Rollback
<1>1. Pools'
    BY FailPools DEF Fail, Goto
<1>2. RowsOf(s, attempt[s]) = {}
    BY DEF IInv, StepInv, Kept
<1>3. \A v \in Variables : vars[s][v][1] = attempt[s] => vars[s][v][2] < index[s]
    BY DEF IInv, StepInv, FollowsStatements
<1>4. index[s] \in Nat
    BY StepTypes DEF IInv
<1> QED
    BY <1>1, <1>2, <1>3, <1>4, FailIInv

LEMMA CommitFailsIInv == ASSUME IInv, NEW s \in Steps, CommitFails(s) PROVE IInv'
<1> USE DEF CommitFails, Rollback
<1>1. Pools'
    BY FailPools DEF Fail, Goto
<1>2. config[s].transaction
    BY DEF IInv, StepInv, Control, InTx
<1>3. FailedAfterWriting(s, [said |-> "rolledBack", failedAt |-> 0])
    BY <1>2 DEF FailedAfterWriting
<1> QED
    BY <1>1, <1>3, FailIInv

LEMMA QueryFailsIInv == ASSUME IInv, NEW s \in Steps, QueryFails(s) PROVE IInv'
<1> USE DEF QueryFails
<1>1. Pools'
    BY FailPools DEF Fail, Goto
<1>2. pending' = [pending EXCEPT ![s] = {}]
    BY NothingPending
<1>3. ~config[s].transaction
    BY DEF IInv, StepInv, Control
<1>4. FailedAfterWriting(s, [said |-> "nothing", failedAt |-> 0])
    BY <1>3 DEF FailedAfterWriting
<1> QED
    BY <1>1, <1>2, <1>4, FailIInv

(* The two steps of db that leave the attempt where it is. *)
LEMMA PoolMoveIInv ==
    ASSUME IInv, NEW s \in Steps, NEW label \in {"begin", "opening"},
           Goto(s, label), pc[s] \in {"db", "opening"}, Unchanged(s),
           UNCHANGED reports, Pools'
    PROVE  IInv'
<1> USE DEF Unchanged
<1>1. pc'[s] = label /\ pc' = [pc EXCEPT ![s] = label]
    BY DEF IInv, Shape, Goto
<1>2. Shape'
    BY <1>1 DEF IInv, Shape, Labels
<1>3. \A k : RowsOf(s, k)' = RowsOf(s, k)
    BY DEF RowsOf
<1>4. Control(s)' /\ OpenTransaction(s)'
    BY <1>1 DEF IInv, StepInv, Control, OpenTransaction, InTx
<1>5. Kept(s)'
    BY <1>1, <1>3 DEF IInv, StepInv, Kept
<1>6. \A k \in 1..Len(reports[s])' : Tells(s, k)'
    BY <1>1, <1>3 DEF IInv, StepInv, Tells, FailedAfterWriting
<1>7. ReadsRight(s)'
    BY <1>3, ReadsSame DEF IInv, StepInv
<1>8. \A v \in Variables : FollowsStatements(s, v)' /\ LeftBySucceeded(s, v)'
    BY <1>1 DEF IInv, StepInv, FollowsStatements, LeftBySucceeded
<1>9. vars'[s] \in [Variables -> Values(s)']
    BY DEF IInv, StepInv, Values
<1>10. StepInv(s)'
    BY <1>4, <1>5, <1>6, <1>7, <1>8, <1>9 DEF StepInv
<1>11. \A t \in Steps \ {s} : Same(t)
    BY <1>1 DEF IInv, Shape, Same
<1> QED
    BY <1>2, <1>10, <1>11, StepIInv

LEMMA LookupDBIInv == ASSUME IInv, NEW s \in Steps, LookupDB(s) PROVE IInv'
<1> USE DEF LookupDB
<1>1. CASE config[s].dsn \in dbs
  <2>1. Goto(s, "begin") /\ mu' = mu
      BY <1>1
  <2>2. Pools'
      BY <1>1, <2>1 DEF IInv, Shape, Pools, Goto, Unchanged
  <2> QED
      BY <2>1, <2>2, PoolMoveIInv
<1>2. CASE config[s].dsn \notin dbs
  <2>1. Goto(s, "opening") /\ mu' = s
      BY <1>2
  <2>2. \A t \in Steps : pc[t] # "opening"
      BY StepsAssumption DEF IInv, Pools
  <2>3. Pools'
      BY <1>2, <2>1, <2>2 DEF IInv, Shape, Pools, Goto, Unchanged
  <2> QED
      BY <2>1, <2>3, PoolMoveIInv
<1> QED
    BY <1>1, <1>2

LEMMA OpenDBIInv == ASSUME IInv, NEW s \in Steps, OpenDB(s) PROVE IInv'
<1> USE DEF OpenDB
<1>1. /\ pc[s] = "opening" /\ mu = s /\ mu' = NoStep
      /\ config[s].dsn \in Dsns \ dbs
      /\ \A t \in Steps \ {s} : pc[t] # "opening"
    BY ConfigTypes DEF IInv, Pools
<1>2. CASE /\ opened' = [opened EXCEPT ![config[s].dsn] = @ + 1]
           /\ dbs' = dbs \cup {config[s].dsn}
           /\ Goto(s, "begin")
           /\ UNCHANGED reports
  <2>1. opened' = [d \in Dsns |-> IF d \in dbs' THEN 1 ELSE 0]
      BY <1>1, <1>2 DEF IInv, Pools
  <2>2. Pools'
    <3>1. pc'[s] = "begin" /\ \A t \in Steps \ {s} : pc'[t] = pc[t]
        BY <1>2 DEF IInv, Shape, Goto
    <3>2. \A t \in Steps : pc'[t] # "opening" /\ mu' # t
        BY <1>1, <3>1, StepsAssumption
    <3>3. \A t \in Steps : pc'[t] \notin {"db", "opening", "failed", "returned"} =>
              config[t].dsn \in dbs'
        BY <1>2, <3>1 DEF IInv, Pools
    <3>4. config' = config /\ dbs' \subseteq Dsns
        BY <1>1, <1>2 DEF Unchanged, IInv, Pools
    <3> QED
        BY <1>1, <2>1, <3>2, <3>3, <3>4 DEF Pools
  <2> QED
      BY <1>2, <2>2, PoolMoveIInv
<1>3. CASE Fail(s, "nothing", 0) /\ UNCHANGED <<opened, dbs>>
  <2>1. Pools'
      BY <1>1, <1>3, StepsAssumption DEF IInv, Shape, Pools, Fail, Goto, Unchanged
  <2>2. RowsOf(s, attempt[s]) = {}
      BY <1>1 DEF IInv, StepInv, Kept
  <2>3. pending' = [pending EXCEPT ![s] = {}]
      BY <1>1, NothingPending DEF Unchanged
  <2> QED
      BY <1>1, <1>3, <2>1, <2>2, <2>3, FailIInv DEF Unchanged
<1> QED
    BY <1>2, <1>3

(* What ReadsOwnTransaction says of a row that is about to be written.      *)
LEMMA WrittenReads ==
    ASSUME IInv, NEW s \in Steps, NEW rows, NEW ok \in BOOLEAN,
           NEW v \in Variables,
           index[s] <= Len(config[s].statements),
           Row(s, ok).values[v] # Unread,
           ~(config[s].retried /\ config[s].vars[v] # Absent),
           vars[s][v][1] = attempt[s] <=> Before(Row(s, ok), rows, v) # {}
    PROVE  /\ Before(Row(s, ok), rows, v) # {} => Row(s, ok).values[v][1] = attempt[s]
           /\ Before(Row(s, ok), rows, v) = {} => Row(s, ok).values[v][1] < attempt[s]
<1>1. Row(s, ok).values[v] = vars[s][v]
    BY DEF Row, Resolved, Resolve
<1>2. vars[s][v][1] <= attempt[s] /\ vars[s][v][1] \in Nat /\ attempt[s] \in Nat
    BY StepTypes DEF IInv, StepInv, FollowsStatements
<1> QED
    BY <1>1, <1>2

LEMMA WrittenBound ==
    ASSUME IInv, NEW s \in Steps, NEW ok \in BOOLEAN, NEW v \in Variables,
           Row(s, ok).values[v] # Unread,
           config[s].retried /\ config[s].vars[v] # Absent
    PROVE  Row(s, ok).values[v] = Initial
<1>1. Row(s, ok).values[v] = config[s].vars[v]
    BY DEF Row, Resolved, Resolve
<1>2. config[s].vars[v] \in {Absent, Initial}
    BY ConfigTypes DEF IInv
<1> QED
    BY <1>1, <1>2

LEMMA ExecuteStatementIInv ==
    ASSUME IInv, NEW s \in Steps, ExecuteStatement(s) PROVE IInv'
<1> USE DEF ExecuteStatement, InTransaction, MoreStatements
<1> PICK ok \in MayFind(Statement(s)) :
        /\ pending' = [pending EXCEPT ![s] = @ \cup {Row(s, ok)}]
        /\ found' = [found EXCEPT ![s] = ok]
    OBVIOUS
<1>0. PICK new : new = Row(s, ok)
    OBVIOUS
<1>1. /\ new \in Rows /\ ok \in BOOLEAN
      /\ new.step = s /\ new.attempt = attempt[s] /\ new.at = index[s]
      /\ new.found = ok
    BY <1>0, RowType DEF IInv, Row
<1>2. /\ pc' = [pc EXCEPT ![s] = "assigning"] /\ pc'[s] = "assigning"
      /\ pending'[s] = pending[s] \cup {new}
      /\ found'[s] = ok
      /\ index[s] \in Nat \ {0} /\ attempt[s] \in Nat
    BY <1>0, StepTypes DEF IInv, Shape, Goto
<1>3. /\ \A row \in pending[s] : row.step = s /\ row.attempt = attempt[s]
      /\ Ats(pending[s]) = 1..index[s] - 1
      /\ \A row \in pending[s] : row.at \in 1..index[s] - 1
    BY DEF IInv, StepInv, OpenTransaction, Ats
<1>4. Shape'
    BY <1>1, <1>2 DEF IInv, Shape, Labels
<1>5. Pools'
    BY <1>2, PoolsSame DEF Labels
<1>6. \A k : RowsOf(s, k)' = RowsOf(s, k)
    BY DEF RowsOf
<1>7. Control(s)'
    BY <1>2 DEF IInv, StepInv, Control, InTx
<1>8. OpenTransaction(s)'
  <2>1. Ats(pending[s] \cup {new}) = Ats(pending[s]) \cup {index[s]}
      BY <1>1 DEF Ats
  <2>4. (1..index[s] - 1) \cup {index[s]} = 1..index[s]
      BY <1>2
  <2>2. Ats(pending'[s]) = 1..index[s]
      BY <1>2, <1>3, <2>1, <2>4
  <2>3. \A row \in pending'[s] : row.at = index[s] => row.found = ok
      BY <1>1, <1>2, <1>3
  <2> QED
      BY <1>1, <1>2, <1>3, <2>2, <2>3 DEF OpenTransaction
<1>9. Kept(s)'
    BY <1>2, <1>6 DEF IInv, StepInv, Kept
<1>10. \A k \in 1..Len(reports[s])' : Tells(s, k)'
    BY <1>2, <1>6 DEF IInv, StepInv, Tells, FailedAfterWriting
<1>11. ReadsRight(s)'
  <2>1. ASSUME NEW row \in pending[s] PROVE Reads(row, pending[s])'
    <3>1. \A v : Before(row, pending[s], v)' = Before(row, pending[s], v)
        BY <1>1, <1>2, <1>3 DEF Before
    <3>2. Reads(row, pending[s])
        BY DEF IInv, StepInv, ReadsRight
    <3> QED
        BY <3>1, <3>2 DEF Reads
  <2>2. Reads(new, pending[s])'
    <3> SUFFICES ASSUME NEW v \in Variables, new.values[v] # Unread
                 PROVE  IF config[s].retried /\ config[s].vars[v] # Absent
                        THEN new.values[v] = Initial
                        ELSE /\ Before(new, pending[s], v)' # {} =>
                                    new.values[v][1] = attempt[s]
                             /\ Before(new, pending[s], v)' = {} =>
                                    new.values[v][1] < attempt[s]
        BY <1>1 DEF Reads
    <3>1. Before(new, pending[s], v)' = Before(new, pending[s], v)
        BY <1>1, <1>2 DEF Before
    <3>2. vars[s][v][1] = attempt[s] <=> Before(new, pending[s], v) # {}
        BY <1>1 DEF IInv, StepInv, FollowsStatements, Before
    <3>3. CASE config[s].retried /\ config[s].vars[v] # Absent
        BY <1>0, <1>1, <3>3, WrittenBound
    <3>4. CASE ~(config[s].retried /\ config[s].vars[v] # Absent)
      <4>1. /\ Before(Row(s, ok), pending[s], v) # {} =>
                   Row(s, ok).values[v][1] = attempt[s]
            /\ Before(Row(s, ok), pending[s], v) = {} =>
                   Row(s, ok).values[v][1] < attempt[s]
          BY <1>0, <1>1, <3>2, <3>4, WrittenReads
      <4> QED
          BY <1>0, <3>1, <3>4, <4>1
    <3> QED
        BY <3>3, <3>4
  <2>3. \A row \in durable : row.step = s => Reads(row, RowsOf(s, row.attempt))'
      BY <1>6 DEF IInv, StepInv, ReadsRight, Reads, Before
  <2> QED
      BY <1>2, <2>1, <2>2, <2>3 DEF ReadsRight
<1>12. \A v \in Variables : FollowsStatements(s, v)' /\ LeftBySucceeded(s, v)'
    BY <1>1, <1>2 DEF IInv, StepInv, FollowsStatements, LeftBySucceeded
<1>13. vars'[s] \in [Variables -> Values(s)']
    BY DEF IInv, StepInv, Values
<1>14. StepInv(s)'
    BY <1>7, <1>8, <1>9, <1>10, <1>11, <1>12, <1>13 DEF StepInv
<1>15. \A t \in Steps \ {s} : Same(t)
    BY <1>2 DEF IInv, Shape, Same
<1> QED
    BY <1>4, <1>5, <1>14, <1>15, StepIInv

(* What assigning writes, and to which variables. *)
LEMMA AssignedValues ==
    ASSUME Shape, NEW s \in Steps, NEW v \in Variables,
           vars' = [vars EXCEPT ![s] = Assigned(s)]
    PROVE  vars'[s][v] = IF /\ found[s] /\ ~Refused(s)
                            /\ v \in Statement(s).targets
                         THEN <<attempt[s], index[s]>>
                         ELSE vars[s][v]
    BY DEF Shape, Assigned, Refused

LEMMA AssignedTypes ==
    ASSUME IInv, NEW s \in Steps, config' = config,
           index[s] <= Len(config[s].statements),
           vars' = [vars EXCEPT ![s] = Assigned(s)]
    PROVE  /\ vars' \in [Steps -> [Variables -> Nat \X Nat]]
           /\ vars'[s] \in [Variables -> Values(s)']
           /\ \A t \in Steps \ {s} : vars'[t] = vars[t]
           /\ Refused(s) => vars' = vars
<1>1. /\ vars \in [Steps -> [Variables -> Nat \X Nat]]
      /\ vars[s] \in [Variables -> Values(s)]
      /\ Values(s)' = Values(s)
    BY DEF IInv, Shape, StepInv, Values
<1>2. /\ attempt[s] \in 1..config[s].attempts
      /\ index[s] \in 1..Len(config[s].statements)
    BY StepTypes, ConfigTypes DEF IInv, StepInv, Control
<1>3. <<attempt[s], index[s]>> \in Values(s) /\ <<attempt[s], index[s]>> \in Nat \X Nat
    BY <1>2, StepTypes DEF Values, IInv
<1>4. Assigned(s) \in [Variables -> Values(s)]
    BY <1>1, <1>3 DEF Assigned
<1>5. Assigned(s) \in [Variables -> Nat \X Nat]
    BY <1>1, <1>3 DEF Assigned
<1>6. Refused(s) => Assigned(s) = vars[s]
    BY DEF Assigned
<1> QED
    BY <1>1, <1>4, <1>5, <1>6

LEMMA AssignStatementIInv ==
    ASSUME IInv, NEW s \in Steps, AssignStatement(s) PROVE IInv'
<1> USE DEF AssignStatement, InTransaction
<1>1. /\ index[s] \in Nat \ {0} /\ attempt[s] \in Nat \ {0}
      /\ index[s] <= Len(config[s].statements)
      /\ Len(config[s].statements) \in Nat
    BY StepTypes, ConfigTypes DEF IInv, StepInv, Control
<1>2. CASE Refused(s)
  <2>1. vars' = vars
      BY <1>1, <1>2, AssignedTypes
  <2>2. Fail(s, "rolledBack", index[s]) /\ pending' = [pending EXCEPT ![s] = {}]
        /\ UNCHANGED index
      BY <1>2 DEF Rollback
  <2>3. Pools'
      BY <2>2, FailPools DEF Fail, Goto
  <2>4. RowsOf(s, attempt[s]) = {}
      BY DEF IInv, StepInv, Kept
  <2>5. \A v \in Variables : vars[s][v][1] = attempt[s] => vars[s][v][2] < index[s]
      BY DEF IInv, StepInv, FollowsStatements
  <2> QED
      BY <1>1, <2>1, <2>2, <2>3, <2>4, <2>5, FailIInv
<1>3. CASE ~Refused(s)
  <2>1. /\ index' = [index EXCEPT ![s] = @ + 1]
        /\ pc' = [pc EXCEPT ![s] = "statement"]
        /\ UNCHANGED <<config, mu, dbs, opened, attempt, found, durable, pending, reports>>
      BY <1>3 DEF Goto
  <2>2. index'[s] = index[s] + 1 /\ pc'[s] = "statement"
      BY <2>1 DEF IInv, Shape
  <2>3. Shape'
    <3>1. vars' \in [Steps -> [Variables -> Nat \X Nat]]
        BY <1>1, <2>1, AssignedTypes
    <3>2. index' \in [Steps -> Nat \ {0}] /\ pc' \in [Steps -> Labels]
        BY <1>1, <2>1 DEF IInv, Shape, Labels
    <3> QED
        BY <2>1, <3>1, <3>2 DEF IInv, Shape
  <2>4. Pools'
      BY <2>1, PoolsSame DEF Labels, Goto
  <2>5. \A k : RowsOf(s, k)' = RowsOf(s, k)
      BY <2>1 DEF RowsOf
  <2>6. Control(s)'
      BY <1>1, <2>1, <2>2 DEF IInv, StepInv, Control, InTx
  <2>7. OpenTransaction(s)'
    <3>1. index'[s] - 1 = index[s]
        BY <1>1, <2>2
    <3> QED
        BY <2>1, <2>2, <3>1 DEF IInv, StepInv, OpenTransaction
  <2>8. Kept(s)'
      BY <2>1, <2>2, <2>5 DEF IInv, StepInv, Kept
  <2>9. \A k \in 1..Len(reports[s])' : Tells(s, k)'
      BY <2>1, <2>2, <2>5 DEF IInv, StepInv, Tells, FailedAfterWriting
  <2>10. ReadsRight(s)'
      BY <2>1, <2>5, ReadsSame DEF IInv, StepInv
  <2>11. ASSUME NEW v \in Variables
         PROVE  FollowsStatements(s, v)' /\ LeftBySucceeded(s, v)'
    <3>1. vars'[s][v] = IF found[s] /\ v \in Statement(s).targets
                        THEN <<attempt[s], index[s]>> ELSE vars[s][v]
      <4>1. Shape
          BY DEF IInv
      <4>2. vars' = [vars EXCEPT ![s] = Assigned(s)]
          OBVIOUS
      <4> QED
          BY <1>3, <4>1, <4>2, AssignedValues
    <3>2. vars[s][v] \in Nat \X Nat
        BY StepTypes DEF IInv
    <3>3. FollowsStatements(s, v) /\ LeftBySucceeded(s, v)
        BY DEF IInv, StepInv
    <3>4. Len(reports[s]) = attempt[s] - 1
        BY DEF IInv, StepInv, Control
    <3>5. \A row \in pending[s] : row.at \in Nat /\ row.at <= index[s]
      <4>1. Ats(pending[s]) = 1..index[s]
          BY DEF IInv, StepInv, OpenTransaction
      <4>2. \A row \in pending[s] : row.at \in Ats(pending[s])
          BY DEF Ats
      <4> QED
          BY <1>1, <4>1, <4>2
    <3>6. PICK run \in pending[s] : run.at = index[s] /\ run.found = found[s]
        BY <1>1 DEF IInv, StepInv, OpenTransaction, Ats
    <3>7. CASE found[s] /\ v \in Statement(s).targets
      <4>1. vars'[s][v][1] = attempt[s] /\ vars'[s][v][2] = index[s]
          BY <3>1, <3>7
      <4>2. /\ run.at < index'[s] /\ run.found
            /\ v \in config[s].statements[run.at].targets
          BY <1>1, <2>2, <3>6, <3>7 DEF Statement
      <4>3. FollowsStatements(s, v)'
          BY <1>1, <2>1, <2>2, <4>1, <4>2 DEF FollowsStatements
      <4>4. LeftBySucceeded(s, v)'
          BY <1>1, <2>1, <3>4, <4>1 DEF LeftBySucceeded
      <4> QED
          BY <4>3, <4>4
    <3>8. CASE ~(found[s] /\ v \in Statement(s).targets)
      <4>1. vars'[s][v] = vars[s][v]
          BY <3>1, <3>8
      <4>2. \A row \in pending[s] :
                /\ row.at < index'[s]
                /\ row.found
                /\ v \in config[s].statements[row.at].targets
                => row.at < index[s]
        <5> SUFFICES ASSUME NEW row \in pending[s], row.found,
                            v \in config[s].statements[row.at].targets
                     PROVE  row.at # index[s]
            BY <1>1, <3>5
        <5>1. row.at = index[s] => row.found = found[s]
            BY DEF IInv, StepInv, OpenTransaction
        <5> QED
            BY <3>8, <5>1 DEF Statement
      <4>3. FollowsStatements(s, v)'
          BY <1>1, <2>1, <2>2, <3>2, <3>3, <3>5, <4>1, <4>2 DEF FollowsStatements
      <4>4. LeftBySucceeded(s, v)'
          BY <2>1, <3>3, <4>1 DEF LeftBySucceeded
      <4> QED
          BY <4>3, <4>4
    <3> QED
        BY <3>7, <3>8
  <2>12. vars'[s] \in [Variables -> Values(s)']
      BY <1>1, <2>1, AssignedTypes
  <2>13. StepInv(s)'
      BY <2>6, <2>7, <2>8, <2>9, <2>10, <2>11, <2>12 DEF StepInv
  <2>14. \A t \in Steps \ {s} : Same(t)
      BY <1>1, <2>1, AssignedTypes DEF IInv, Shape, Same
  <2> QED
      BY <2>1, <2>3, <2>4, <2>13, <2>14, StepIInv
<1> QED
    BY <1>2, <1>3

(* The rows of an attempt that become durable together. *)
LEMMA MadeDurable ==
    ASSUME IInv, NEW s \in Steps, NEW rows,
           RowsOf(s, attempt[s]) = {},
           \A row \in rows : row.step = s /\ row.attempt = attempt[s],
           durable' = durable \cup rows, attempt' = attempt
    PROVE  /\ RowsOf(s, attempt[s])' = rows
           /\ \A k : k # attempt[s] => RowsOf(s, k)' = RowsOf(s, k)
           /\ \A t \in Steps \ {s} : \A row \in durable' :
                  row.step = t => row \in durable
           /\ \A row \in durable : row.step = s => row.attempt # attempt[s]
    BY DEF RowsOf

LEMMA ServerCommitsIInv ==
    ASSUME IInv, NEW s \in Steps, ServerCommits(s) PROVE IInv'
<1> USE DEF ServerCommits
<1>1. /\ pc' = [pc EXCEPT ![s] = "committed"]
      /\ pending' = [pending EXCEPT ![s] = {}]
      /\ pc'[s] = "committed" /\ pending'[s] = {}
    BY DEF IInv, Shape, Goto, Rollback
<1>2. /\ RowsOf(s, attempt[s]) = {}
      /\ \A row \in pending[s] : row.step = s /\ row.attempt = attempt[s]
      /\ Ats(pending[s]) = 1..index[s] - 1
      /\ index[s] = Len(config[s].statements) + 1
      /\ Len(config[s].statements) \in Nat
      /\ Len(reports[s]) = attempt[s] - 1 /\ attempt[s] \in Nat
    BY StepTypes, ConfigTypes DEF IInv, StepInv, Kept, OpenTransaction, Control
<1>3. /\ RowsOf(s, attempt[s])' = pending[s]
      /\ \A k : k # attempt[s] => RowsOf(s, k)' = RowsOf(s, k)
      /\ \A t \in Steps \ {s} : \A row \in durable' :
             row.step = t => row \in durable
      /\ \A row \in durable : row.step = s => row.attempt # attempt[s]
    BY <1>2, MadeDurable
<1>4. Shape'
    BY <1>1 DEF IInv, Shape, Labels
<1>5. Pools'
    BY <1>1, PoolsSame DEF Labels
<1>6. Control(s)'
    BY <1>1 DEF IInv, StepInv, Control, InTx
<1>7. OpenTransaction(s)'
    BY <1>1 DEF OpenTransaction, Ats
<1>8. Kept(s)'
  <2>1. Ats(pending[s]) = 1..Len(config[s].statements)
      BY <1>2
  <2>2. \A row \in durable' : row.step = s => row.attempt <= attempt[s]
      BY <1>2 DEF IInv, StepInv, Kept
  <2> QED
      BY <1>1, <1>3, <2>1, <2>2 DEF Kept
<1>9. \A k \in 1..Len(reports[s])' : Tells(s, k)'
  <2>1. \A k \in 1..Len(reports[s]) : RowsOf(s, k)' = RowsOf(s, k)
      BY <1>2, <1>3
  <2> QED
      BY <1>1, <2>1 DEF IInv, StepInv, Tells, FailedAfterWriting
<1>10. ReadsRight(s)'
  <2>1. ASSUME NEW row \in durable', row.step = s
        PROVE  Reads(row, RowsOf(s, row.attempt))'
    <3>1. CASE row \in durable
      <4>1. RowsOf(s, row.attempt)' = RowsOf(s, row.attempt)
          BY <1>3, <2>1, <3>1
      <4>2. Reads(row, RowsOf(s, row.attempt))
          BY <2>1, <3>1 DEF IInv, StepInv, ReadsRight
      <4> QED
          BY <4>1, <4>2 DEF Reads, Before
    <3>2. CASE row \in pending[s]
      <4>1. RowsOf(s, row.attempt)' = pending[s]
          BY <1>2, <1>3, <3>2
      <4>2. Reads(row, pending[s])
          BY <3>2 DEF IInv, StepInv, ReadsRight
      <4> QED
          BY <4>1, <4>2 DEF Reads, Before
    <3> QED
        BY <3>1, <3>2
  <2> QED
      BY <1>1, <2>1 DEF ReadsRight
<1>11. \A v \in Variables : FollowsStatements(s, v)' /\ LeftBySucceeded(s, v)'
    BY <1>1 DEF IInv, StepInv, FollowsStatements, LeftBySucceeded
<1>12. vars'[s] \in [Variables -> Values(s)']
    BY DEF IInv, StepInv, Values
<1>13. StepInv(s)'
    BY <1>6, <1>7, <1>8, <1>9, <1>10, <1>11, <1>12 DEF StepInv
<1>14. \A t \in Steps \ {s} : Same(t)
    BY <1>1, <1>3 DEF IInv, Shape, Same
<1> QED
    BY <1>4, <1>5, <1>13, <1>14, StepIInv

LEMMA RunQueryIInv ==
    ASSUME IInv, NEW s \in Steps, RunQuery(s) PROVE IInv'
<1> USE DEF RunQuery
<1> PICK ok \in MayFind(Statement(s)) :
        /\ durable' = durable \cup {Row(s, ok)}
        /\ found' = [found EXCEPT ![s] = ok]
    OBVIOUS
<1>0. PICK new : new = Row(s, ok)
    OBVIOUS
<1>1. /\ index[s] = 1 /\ Len(config[s].statements) = 1
      /\ attempt[s] \in Nat \ {0}
      /\ Len(reports[s]) = attempt[s] - 1
      /\ RowsOf(s, attempt[s]) = {}
    BY StepTypes, ConfigTypes DEF IInv, StepInv, Control, Kept
<1>2. /\ new \in Rows /\ ok \in BOOLEAN
      /\ new.step = s /\ new.attempt = attempt[s] /\ new.at = 1
      /\ new.found = ok
  <2>1. index[s] <= Len(config[s].statements)
      BY <1>1
  <2>2. ok \in BOOLEAN /\ Row(s, ok) \in Rows
      BY <2>1, RowType DEF IInv
  <2> QED
      BY <1>0, <1>1, <2>2 DEF Row
<1>3. pc' = [pc EXCEPT ![s] = "answered"] /\ pc'[s] = "answered"
    BY DEF IInv, Shape, Goto
<1>4. /\ RowsOf(s, attempt[s])' = {new}
      /\ \A k : k # attempt[s] => RowsOf(s, k)' = RowsOf(s, k)
      /\ \A t \in Steps \ {s} : \A row \in durable' :
             row.step = t => row \in durable
      /\ \A row \in durable : row.step = s => row.attempt # attempt[s]
  <2>1. durable' = durable \cup {new} /\ attempt' = attempt
      BY <1>0
  <2>2. \A row \in {new} : row.step = s /\ row.attempt = attempt[s]
      BY <1>2
  <2> QED
      BY <1>1, <2>1, <2>2, MadeDurable
<1>5. Shape'
    BY <1>0, <1>2, <1>3 DEF IInv, Shape, Labels
<1>6. Pools'
    BY <1>3, PoolsSame DEF Labels
<1>7. Control(s)'
    BY <1>1, <1>3 DEF IInv, StepInv, Control, InTx
<1>8. pending[s] = {} /\ OpenTransaction(s)'
    BY <1>3, NothingPending DEF OpenTransaction, Ats
<1>9. Kept(s)'
  <2>1. Ats({new}) = 1..1
      BY <1>2 DEF Ats
  <2>2. \A row \in durable' : row.step = s => row.attempt <= attempt[s]
      BY <1>0, <1>1, <1>2 DEF IInv, StepInv, Kept
  <2> QED
      BY <1>1, <1>3, <1>4, <2>1, <2>2 DEF Kept
<1>10. \A k \in 1..Len(reports[s])' : Tells(s, k)'
  <2>1. \A k \in 1..Len(reports[s]) : RowsOf(s, k)' = RowsOf(s, k)
      BY <1>1, <1>4
  <2> QED
      BY <1>3, <2>1 DEF IInv, StepInv, Tells, FailedAfterWriting
<1>11. ReadsRight(s)'
  <2>1. ASSUME NEW row \in durable', row.step = s
        PROVE  Reads(row, RowsOf(s, row.attempt))'
    <3>1. CASE row \in durable
      <4>1. RowsOf(s, row.attempt)' = RowsOf(s, row.attempt)
          BY <1>4, <2>1, <3>1
      <4>2. Reads(row, RowsOf(s, row.attempt))
          BY <2>1, <3>1 DEF IInv, StepInv, ReadsRight
      <4> QED
          BY <4>1, <4>2 DEF Reads, Before
    <3>2. CASE row = new
      <4>1. RowsOf(s, row.attempt)' = {new}
          BY <1>2, <1>4, <3>2
      <4>2. \A v : Before(new, {new}, v) = {}
          BY <1>2 DEF Before
      <4>3. ASSUME NEW v \in Variables, new.values[v] # Unread,
                   config[s].retried /\ config[s].vars[v] # Absent
            PROVE  new.values[v] = Initial
          BY <1>0, <1>2, <4>3, WrittenBound
      <4>4. ASSUME NEW v \in Variables, new.values[v] # Unread,
                   ~(config[s].retried /\ config[s].vars[v] # Absent)
            PROVE  new.values[v][1] < attempt[s]
        <5>1. vars[s][v][1] < attempt[s] /\ vars[s][v][1] \in Nat
            BY StepTypes DEF IInv, StepInv, FollowsStatements
        <5>2. Row(s, ok).values[v] = vars[s][v]
            BY <1>0, <4>4 DEF Row, Resolved, Resolve
        <5> QED
            BY <1>0, <5>1, <5>2
      <4>5. Reads(new, {new})
          BY <1>2, <4>2, <4>3, <4>4 DEF Reads
      <4> QED
          BY <3>2, <4>1, <4>5 DEF Reads, Before
    <3> QED
        BY <1>0, <3>1, <3>2
  <2> QED
      BY <1>8, <2>1 DEF ReadsRight
<1>12. \A v \in Variables : FollowsStatements(s, v)' /\ LeftBySucceeded(s, v)'
    BY <1>3 DEF IInv, StepInv, FollowsStatements, LeftBySucceeded
<1>13. vars'[s] \in [Variables -> Values(s)']
    BY DEF IInv, StepInv, Values
<1>14. StepInv(s)'
    BY <1>7, <1>8, <1>9, <1>10, <1>11, <1>12, <1>13 DEF StepInv
<1>15. \A t \in Steps \ {s} : Same(t)
    BY <1>3, <1>4 DEF IInv, Shape, Same
<1> QED
    BY <1>5, <1>6, <1>14, <1>15, StepIInv

(* Each way an attempt succeeds. *)
LEMMA AnswerIInv ==
    ASSUME IInv, NEW s \in Steps, NEW said \in {"committed", "done"},
           Answer(s, said),
           pc[s] = IF said = "committed" THEN "committed" ELSE "answered",
           UNCHANGED <<config, mu, dbs, opened, attempt, index, found,
                       pending, durable>>,
           vars' \in [Steps -> [Variables -> Nat \X Nat]],
           vars'[s] \in [Variables -> Values(s)'],
           \A t \in Steps \ {s} : vars'[t] = vars[t],
           \A v \in Variables :
               vars'[s][v] = vars[s][v] \/ vars'[s][v][1] = attempt[s]
    PROVE  IInv'
<1> DEFINE report == [said |-> said, failedAt |-> 0]
<1>1. /\ report \in Reports
      /\ pc' = [pc EXCEPT ![s] = "returned"]
      /\ reports' = [reports EXCEPT ![s] = Append(@, report)]
      /\ report.said = said /\ report.failedAt = 0
    BY DEF Reports, Answer, Goto
<1> HIDE DEF report
<1>2. /\ reports' \in [Steps -> Seq(Reports)]
      /\ Len(reports[s]) \in Nat
      /\ Len(reports'[s]) = Len(reports[s]) + 1
      /\ \A k \in 1..Len(reports[s]) : reports'[s][k] = reports[s][k]
      /\ reports'[s][Len(reports[s]) + 1] = report
      /\ \A t \in Steps \ {s} : reports'[t] = reports[t]
    BY <1>1, ReportAppended DEF IInv
<1>3. Len(reports[s]) + 1 = attempt[s] /\ attempt[s] \in Nat
    BY StepTypes DEF IInv, StepInv, Control
<1>4. pc'[s] = "returned" /\ pending[s] = {}
    BY <1>1, NothingPending DEF IInv, Shape
<1>5. Shape'
    BY <1>1, <1>2 DEF IInv, Shape, Labels
<1>6. Pools'
    BY <1>1, PoolsSame DEF Labels, Goto
<1>7. \A k : RowsOf(s, k)' = RowsOf(s, k)
    BY DEF RowsOf
<1>8. Control(s)'
    BY <1>2, <1>3, <1>4 DEF IInv, StepInv, Control, InTx
<1>9. OpenTransaction(s)'
    BY <1>4 DEF OpenTransaction, Ats
<1>10. Kept(s)'
    BY <1>4 DEF IInv, StepInv, Kept
<1>11. \A k \in 1..Len(reports'[s]) : Tells(s, k)'
  <2>1. \A k \in 1..Len(reports[s]) : Tells(s, k)'
      BY <1>1, <1>7, EarlierTold
  <2>2. Ats(RowsOf(s, attempt[s])) = 1..Len(config[s].statements)
      BY DEF IInv, StepInv, Kept
  <2>3. 1 \in 1..Len(config[s].statements)
      BY ConfigTypes DEF IInv
  <2>4. Ats(RowsOf(s, attempt[s])) # {}
      BY <2>2, <2>3
  <2>5. Tells(s, attempt[s])'
      BY <1>1, <1>2, <1>3, <1>4, <1>7, <2>2, <2>4 DEF Tells, Succeeded
  <2> QED
      BY <1>2, <1>3, <2>1, <2>5
<1>12. ReadsRight(s)'
    BY <1>7, ReadsSame DEF IInv, StepInv
<1>13. \A v \in Variables : FollowsStatements(s, v)'
    BY <1>3, <1>4 DEF IInv, StepInv, FollowsStatements
<1>14. ASSUME NEW v \in Variables PROVE LeftBySucceeded(s, v)'
  <2>1. CASE vars'[s][v] = vars[s][v]
      BY <1>1, <2>1, EarlierLeft
  <2>2. CASE vars'[s][v][1] = attempt[s]
      BY <1>1, <1>2, <1>3, <2>2 DEF LeftBySucceeded
  <2> QED
      BY <2>1, <2>2
<1>15. StepInv(s)'
    BY <1>8, <1>9, <1>10, <1>11, <1>12, <1>13, <1>14 DEF StepInv
<1>16. \A t \in Steps \ {s} : Same(t)
    BY <1>1, <1>2 DEF IInv, Shape, Same
<1> QED
    BY <1>5, <1>6, <1>15, <1>16, StepIInv

LEMMA CommitSucceedsIInv ==
    ASSUME IInv, NEW s \in Steps, CommitSucceeds(s) PROVE IInv'
<1> USE DEF CommitSucceeds
<1>1. /\ vars' \in [Steps -> [Variables -> Nat \X Nat]]
      /\ vars'[s] \in [Variables -> Values(s)']
    BY DEF IInv, Shape, StepInv, Values
<1> QED
    BY <1>1, AnswerIInv

LEMMA QuerySucceedsIInv ==
    ASSUME IInv, NEW s \in Steps, QuerySucceeds(s) PROVE IInv'
<1> USE DEF QuerySucceeds
<1>1. index[s] = 1 /\ index[s] <= Len(config[s].statements)
    BY ConfigTypes DEF IInv, StepInv, Control
<1>2. CASE Refused(s)
  <2>1. vars' = vars /\ Fail(s, "done", 1)
      BY <1>1, <1>2, AssignedTypes
  <2>2. Pools'
      BY <2>1, FailPools DEF Fail, Goto
  <2>3. pending' = [pending EXCEPT ![s] = {}]
      BY NothingPending
  <2>4. ASSUME NEW v \in Variables PROVE vars[s][v][1] # attempt[s]
    <3>1. vars[s][v][1] < attempt[s] /\ vars[s][v][1] \in Nat /\ attempt[s] \in Nat
        BY StepTypes DEF IInv, StepInv, FollowsStatements
    <3> QED
        BY <3>1
  <2>5. FailedAfterWriting(s, [said |-> "done", failedAt |-> 1])
    <3>1. ~config[s].transaction
        BY DEF IInv, StepInv, Control
    <3>2. ReadOnly \in config[s].statements[1].targets
        BY <1>1, <1>2 DEF Refused, Statement
    <3> QED
        BY <3>1, <3>2 DEF FailedAfterWriting
  <2>6. /\ pc[s] = "answered"
        /\ UNCHANGED <<config, attempt, index, found, vars, durable>>
        /\ 1 \in Nat /\ 1 # 0
      BY <2>1
  <2> HIDE DEF QuerySucceeds
  <2> QED
      BY <2>1, <2>2, <2>3, <2>4, <2>5, <2>6, FailIInv
<1>3. CASE ~Refused(s)
  <2>1. Answer(s, "done")
      BY <1>3
  <2>2. ASSUME NEW v \in Variables
        PROVE  vars'[s][v] = vars[s][v] \/ vars'[s][v][1] = attempt[s]
    <3>1. vars'[s][v] = <<attempt[s], index[s]>> \/ vars'[s][v] = vars[s][v]
        BY AssignedValues DEF IInv
    <3> QED
        BY <3>1
  <2> QED
      BY <1>1, <2>1, <2>2, AssignedTypes, AnswerIInv
<1> QED
    BY <1>2, <1>3

LEMMA StutterIInv == ASSUME IInv, UNCHANGED variables PROVE IInv'
<1> USE DEF variables
<1>1. Shape' /\ Pools'
    BY DEF IInv, Shape, Pools
<1>2. \A s \in Steps : Same(s)
    BY DEF Same
<1> QED
    BY <1>1, <1>2, SameStepInv DEF IInv

LEMMA NextIInv == IInv /\ [Next]_variables => IInv'
<1> SUFFICES ASSUME IInv, [Next]_variables PROVE IInv'
    OBVIOUS
<1>1. ASSUME NEW s \in Steps, Progress(s) PROVE IInv'
    BY <1>1, LookupDBIInv, OpenDBIInv, BeginTxIInv, BeginTxFailsIInv,
       ExecuteStatementIInv, StatementFailsIInv, AssignStatementIInv,
       SendCommitIInv, ServerCommitsIInv, CommitSucceedsIInv, CommitFailsIInv,
       RunQueryIInv, QuerySucceedsIInv, QueryFailsIInv, RetryStepIInv, GiveUpIInv
    DEF Progress
<1> QED
    BY <1>1, StutterIInv DEF Next, Terminated

----------------------------------------------------------------------------
(* Every reachable state of the steps and their server satisfies the        *)
(* inductive invariant.                                                     *)
THEOREM Invariance == Spec => []IInv
    BY InitIInv, NextIInv, PTL DEF Spec

(* The state keeps its types: no attempt passes the budget of its retry, and *)
(* a variable only ever holds a value that a statement of this step produced.*)
THEOREM TypeCorrect == Spec => []TypeOK
<1>1. ASSUME IInv PROVE TypeOK
  <2>1. opened \in [Dsns -> Nat]
      BY <1>1 DEF IInv, Pools
  <2>2. ASSUME NEW s \in Steps
        PROVE  /\ config[s] \in Configs[s]
               /\ pc[s] \in Labels
               /\ attempt[s] \in 1..config[s].attempts
               /\ index[s] \in 1..Len(config[s].statements) + 1
               /\ vars[s] \in [Variables -> Values(s)]
               /\ pending[s] \subseteq Rows
               /\ reports[s] \in Seq(Reports)
      BY <1>1, StepTypes, ConfigTypes DEF IInv, StepInv, Control
  <2> QED
      BY <1>1, <2>1, <2>2 DEF IInv, Shape, Pools, TypeOK, Labels
<1> QED
    BY <1>1, Invariance, PTL

(* However many steps ask for a DSN together, its pool is opened once, and   *)
(* no step works without one.                                                *)
THEOREM PoolsShared == Spec => []OnePoolPerDsn
<1>1. ASSUME IInv PROVE OnePoolPerDsn
    BY <1>1 DEF IInv, Pools, OnePoolPerDsn
<1> QED
    BY <1>1, Invariance, PTL

(* What Execute says of every attempt is true of the server: all or none of  *)
(* its rows are kept, an attempt that succeeded is the last, and one that    *)
(* failed leaves rows only when an answer was lost or the assignment of a    *)
(* query was refused.                                                        *)
THEOREM ReportsTrue == Spec => []ReportTellsServer
<1>1. ASSUME IInv PROVE ReportTellsServer
  <2>1. ASSUME NEW s \in Steps, NEW k \in 1..Len(reports[s]) PROVE Tells(s, k)
      BY <1>1 DEF IInv, StepInv
  <2>2. ASSUME NEW s \in Steps PROVE Len(reports[s]) \in Nat
      BY <1>1, StepTypes DEF IInv
  <2>3. ASSUME NEW s \in Steps, NEW k \in 1..Len(reports[s])
        PROVE  Succeeded(reports[s][k]) => k = Len(reports[s])
      BY <2>1, <2>2 DEF Tells
  <2> QED
      BY <2>1, <2>3 DEF ReportTellsServer, Tells, Ats
<1> QED
    BY <1>1, Invariance, PTL

(* A statement reads what its own transaction assigned before it, and never  *)
(* what a refused assignment would have written.                             *)
THEOREM OwnTransactionRead == Spec => []OwnTransactionSeen
<1>1. ASSUME IInv PROVE OwnTransactionSeen
  <2>1. ASSUME NEW row \in durable
        PROVE  row.step \in Steps /\ Reads(row, RowsOf(row.step, row.attempt))
      BY <1>1 DEF IInv, Shape, Rows, StepInv, ReadsRight
  <2>2. ReadsOwnTransaction
      BY <2>1 DEF ReadsOwnTransaction, Reads, Before
  <2>3. AssignedBySucceeded
      BY <1>1 DEF IInv, StepInv, LeftBySucceeded, AssignedBySucceeded
  <2> QED
      BY <2>2, <2>3 DEF OwnTransactionSeen
<1> QED
    BY <1>1, Invariance, PTL

==============================================================================
