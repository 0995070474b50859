---------------------------- MODULE FanOutProofs ----------------------------
(***************************************************************************)
(* Proofs about FanOut, for any number of items or branches and any        *)
(* concurrency, and that every step of its goroutines is one of Jobs.      *)
(***************************************************************************)
EXTENDS FanOut, FiniteSetTheorems, FunctionTheorems, SequenceTheorems, TLAPS

----------------------------------------------------------------------------
(* The inductive invariant. *)

Executing == {w \in Workers : worker[w] = "executing"}

Running(t) == \E w \in Executing : task[w] = t

Sent(t) == \E k \in 1..Len(outcomes) : outcomes[k].task = t

Done(t) == ordered[t] # "missing"

Started(t) == IF block.kind = "parallel" THEN worker[t] # "idle" ELSE t < next

(* What each of the two blocks has set up. *)
Setting ==
    /\ block.kind = "parallel" =>
          tasksClosed /\ next = Total + 1 /\ \A w \in Workers : task[w] = w
    /\ block.kind = "foreach" =>
          \A w \in Workers : worker[w] = "exited" => tasksClosed
    /\ block.kind = "foreach" /\ tasksClosed => next > Total \/ ctxDone
    /\ outcomesClosed => \A w \in Workers : worker[w] = "exited"
    /\ pc = "returned" => outcomesClosed /\ outcomes = <<>>

(* A task that was started is executing, in the channel or collected, and   *)
(* only one of them, in one place.                                          *)
OnePlace ==
    /\ \A w \in Executing : task[w] \in Tasks
    /\ \A w1, w2 \in Executing : task[w1] = task[w2] => w1 = w2
    /\ \A j, k \in 1..Len(outcomes) : outcomes[j].task = outcomes[k].task => j = k
    /\ \A t \in Tasks :
          /\ Started(t) <=> Running(t) \/ Sent(t) \/ Done(t)
          /\ ~(Running(t) /\ Sent(t))
          /\ ~(Running(t) /\ Done(t))
          /\ ~(Sent(t) /\ Done(t))

DoneTasks == {t \in Tasks : Done(t)}

StartedTasks == {t \in Tasks : Started(t)}

Counted ==
    Len(outcomes) + Cardinality(Executing) + Cardinality(DoneTasks)
        = Cardinality(StartedTasks)

(* Worker w executes in its own clone, whose built-ins are its task's.      *)
Clones ==
    /\ owner[0] = 0
    /\ \A w \in Executing : context[w] = w /\ owner[w] = task[w]

(* An answer is in the channel or collected, and is the one that was given. *)
Recorded ==
    /\ \A t \in Tasks : answered[t] # "missing" <=> Sent(t) \/ Done(t)
    /\ \A k \in 1..Len(outcomes) : answered[outcomes[k].task] = outcomes[k].answer

IInv ==
    /\ TypeOK
    /\ Setting
    /\ OnePlace
    /\ Counted
    /\ Clones
    /\ Recorded
    /\ ReportTellsOutcomes

----------------------------------------------------------------------------
(* How many tasks and workers a block has. *)
LEMMA Sizes ==
    ASSUME TypeOK
    PROVE  /\ Total \in Nat \ {0}
           /\ WorkerCount \in 1..Total
           /\ block.kind \in {"foreach", "parallel"}
           /\ block.kind = "parallel" => WorkerCount = Total
<1>1. block \in Blocks
    BY DEF TypeOK
<1>2. /\ block.kind \in {"foreach", "parallel"}
      /\ block.total \in 1..MaxTasks
      /\ block.concurrency \in Nat \ {0, 1}
    BY <1>1, BoundsAssumption DEF Blocks
<1>3. Total \in Nat \ {0}
    BY <1>2, BoundsAssumption DEF Total
<1> QED
    BY <1>2, <1>3 DEF WorkerCount

LEMMA StateTypes ==
    ASSUME TypeOK
    PROVE  /\ Tasks \subseteq Nat \ {0} /\ Workers \subseteq Tasks
           /\ outcomes \in Seq([task : Tasks, answer : Answers])
           /\ Len(outcomes) \in Nat
           /\ \A k \in 1..Len(outcomes) :
                 outcomes[k].task \in Tasks /\ outcomes[k].answer \in Answers
<1>1. outcomes \in Seq([task : Tasks, answer : Answers])
    BY DEF TypeOK
<1>2. \A k \in 1..Len(outcomes) : outcomes[k] \in [task : Tasks, answer : Answers]
    BY <1>1, ElementOfSeq
<1> QED
    BY <1>1, <1>2, Sizes, LenProperties DEF Tasks, Workers

(* The sets that are counted are finite. *)
LEMMA Finite ==
    ASSUME TypeOK
    PROVE  /\ IsFiniteSet(Executing) /\ Cardinality(Executing) \in Nat
           /\ \A S \in SUBSET Tasks :
                 /\ IsFiniteSet(S)
                 /\ Cardinality(S) \in Nat
                 /\ Cardinality(S) <= Total
           /\ \A S \in SUBSET Workers :
                 /\ IsFiniteSet(S)
                 /\ Cardinality(S) <= WorkerCount
<1>1. IsFiniteSet(Tasks) /\ Cardinality(Tasks) = Total
    BY Sizes, FS_Interval DEF Tasks
<1>2. IsFiniteSet(Workers) /\ Cardinality(Workers) = WorkerCount
    BY Sizes, FS_Interval DEF Workers
<1>3. ASSUME NEW S \in SUBSET Tasks
      PROVE  IsFiniteSet(S) /\ Cardinality(S) \in Nat /\ Cardinality(S) <= Total
    BY <1>1, FS_Subset, FS_CardinalityType
<1>4. ASSUME NEW S \in SUBSET Workers
      PROVE  IsFiniteSet(S) /\ Cardinality(S) \in Nat /\ Cardinality(S) <= WorkerCount
    BY <1>2, FS_Subset, FS_CardinalityType
<1>5. Executing \in SUBSET Workers
    BY DEF Executing
<1> QED
    BY <1>3, <1>4, <1>5

----------------------------------------------------------------------------
LEMMA InitIInv == Init => IInv
<1> SUFFICES ASSUME Init PROVE IInv
    OBVIOUS
<1>1. /\ block \in Blocks
      /\ block.kind \in {"foreach", "parallel"}
      /\ Total \in Nat \ {0}
      /\ WorkerCount \in 1..Total
      /\ block.kind = "parallel" => WorkerCount = Total
  <2>1. /\ block.kind \in {"foreach", "parallel"}
        /\ block.total \in 1..MaxTasks
        /\ block.concurrency \in Nat \ {0, 1}
        /\ block \in Blocks
      BY BoundsAssumption DEF Init, Blocks
  <2>2. Total \in Nat \ {0}
      BY <2>1, BoundsAssumption DEF Total
  <2> QED
      BY <2>1, <2>2 DEF WorkerCount
<1>2. TypeOK
  <2>1. task \in [Workers -> 0..Total]
      BY <1>1 DEF Init, Workers
  <2>2. next \in 1..Total + 1
      BY <1>1 DEF Init
  <2>3. context \in [Workers -> Contexts] /\ owner \in [Contexts -> 0..Total]
      BY <1>1 DEF Init, Contexts
  <2>4. failed \in 0..Total /\ firstErr \in 0..Total
      BY <1>1 DEF Init
  <2>5. outcomes \in Seq([task : Tasks, answer : Answers])
      BY DEF Init
  <2>6. /\ ordered \in [Tasks -> Answers \cup {"missing"}]
        /\ answered \in [Tasks -> Answers \cup {"missing"}]
        /\ collected \in Seq(Answers \cup {"nil"})
      BY DEF Init
  <2>7. worker \in [Workers -> {"idle", "executing", "exited"}]
      BY DEF Init
  <2>8. /\ tasksClosed \in BOOLEAN /\ outcomesClosed \in BOOLEAN
        /\ pc \in {"collecting", "returned"} /\ ctxDone \in BOOLEAN
      BY DEF Init
  <2> QED
      BY <1>1, <2>1, <2>2, <2>3, <2>4, <2>5, <2>6, <2>7, <2>8 DEF TypeOK
<1>3. Setting
    BY <1>1 DEF Init, Setting, Workers
<1>4. Executing = {}
    BY DEF Init, Executing
<1>5. \A t \in Tasks : ~Started(t) /\ ~Running(t) /\ ~Sent(t) /\ ~Done(t)
    BY <1>1, <1>4 DEF Init, Started, Running, Sent, Done, Tasks, Workers
<1>6. OnePlace
    BY <1>4, <1>5 DEF Init, OnePlace
<1>7. Counted
  <2>1. DoneTasks = {} /\ StartedTasks = {}
      BY <1>5 DEF DoneTasks, StartedTasks
  <2>2. Len(outcomes) = 0 /\ Cardinality({}) = 0
      BY FS_EmptySet DEF Init
  <2> QED
      BY <1>4, <2>1, <2>2 DEF Counted
<1>8. Clones
    BY <1>1, <1>4 DEF Clones, Init, Contexts
<1>9. ReportTellsOutcomes
  <2>1. {t \in Tasks : ordered[t] = "err"} = {}
      BY DEF Init
  <2> QED
      BY <2>1, FS_EmptySet DEF Init, ReportTellsOutcomes
<1>10. Recorded
    BY <1>5 DEF Init, Recorded
<1> QED
    BY <1>2, <1>3, <1>6, <1>7, <1>8, <1>9, <1>10 DEF IInv

(* What a step that keeps the block leaves as it is. *)
LEMMA BlockKept ==
    ASSUME block' = block
    PROVE  /\ Total' = Total /\ Tasks' = Tasks /\ WorkerCount' = WorkerCount
           /\ Workers' = Workers /\ Contexts' = Contexts
    BY DEF Total, Tasks, WorkerCount, Workers, Contexts

(* A step that leaves the report and what it is compared with as they are.  *)
LEMMA ReportKept ==
    ASSUME IInv,
           UNCHANGED <<block, next, answered, ordered, failed, firstErr,
                       collected, pc>>
    PROVE  ReportTellsOutcomes'
    BY BlockKept DEF IInv, ReportTellsOutcomes

(* A step that moves no task. *)
LEMMA QuietIInv ==
    ASSUME IInv,
           UNCHANGED <<block, next, task, context, owner, outcomes, answered,
                       ordered>>,
           Executing' = Executing,
           worker' = worker \/ block.kind = "foreach",
           TypeOK', Setting', ReportTellsOutcomes'
    PROVE  IInv'
<1>1. /\ \A t : Running(t)' = Running(t)
      /\ \A t : Sent(t)' = Sent(t)
      /\ \A t : Done(t)' = Done(t)
      /\ \A t : Started(t)' = Started(t)
    BY DEF Running, Sent, Done, Started
<1>2. OnePlace'
    BY <1>1, BlockKept DEF IInv, OnePlace
<1>3. Counted'
    BY <1>1, BlockKept DEF IInv, Counted, DoneTasks, StartedTasks
<1>4. Clones' /\ Recorded'
    BY <1>1, BlockKept DEF IInv, Clones, Recorded
<1> QED
    BY <1>2, <1>3, <1>4 DEF IInv

LEMMA CloseTasksIInv == ASSUME IInv, CloseTasks PROVE IInv'
<1> USE DEF CloseTasks
<1>1. TypeOK' /\ Setting' /\ Executing' = Executing
    BY BlockKept DEF IInv, TypeOK, Setting, Executing
<1> QED
    BY <1>1, ReportKept, QuietIInv

LEMMA ExitWorkerIInv == ASSUME IInv, NEW w \in Workers, ExitWorker(w) PROVE IInv'
<1> USE DEF ExitWorker
<1>1. worker' \in [Workers -> {"idle", "executing", "exited"}]
    BY DEF IInv, TypeOK
<1>2. TypeOK'
    BY <1>1, BlockKept DEF IInv, TypeOK
<1>3. Executing' = Executing
    BY BlockKept DEF IInv, TypeOK, Executing
<1>4. Setting'
    BY BlockKept DEF IInv, TypeOK, Setting
<1> QED
    BY <1>2, <1>3, <1>4, ReportKept, QuietIInv

LEMMA CloseOutcomesIInv == ASSUME IInv, CloseOutcomes PROVE IInv'
<1> USE DEF CloseOutcomes
<1>1. TypeOK' /\ Setting' /\ Executing' = Executing
    BY BlockKept DEF IInv, TypeOK, Setting, Executing
<1> QED
    BY <1>1, ReportKept, QuietIInv

(* A worker that has not left, or an outcome in the channel: the block has   *)
(* not returned.                                                            *)
LEMMA StillCollecting ==
    ASSUME IInv,
           outcomes # <<>> \/ \E w \in Workers : worker[w] # "exited"
    PROVE  pc # "returned"
    BY DEF IInv, Setting

(* When every goroutine has left and the channel is empty, a task that was  *)
(* started is in the report.                                                *)
LEMMA AllCollected ==
    ASSUME IInv, outcomesClosed, outcomes = <<>>
    PROVE  /\ ordered = answered
           /\ \A t \in Tasks : t < next <=> answered[t] # "missing"
<1>1. \A w \in Workers : worker[w] = "exited"
    BY DEF IInv, Setting
<1>2. \A t \in Tasks : ~Running(t) /\ ~Sent(t)
    BY <1>1 DEF Running, Executing, Sent
<1>3. \A t \in Tasks : Started(t) <=> Done(t)
    BY <1>2 DEF IInv, OnePlace
<1>4. /\ ordered \in [Tasks -> Answers \cup {"missing"}]
      /\ answered \in [Tasks -> Answers \cup {"missing"}]
    BY DEF IInv, TypeOK
<1>5. \A t \in Tasks : Done(t) <=> answered[t] # "missing"
    BY <1>2 DEF IInv, Recorded
<1>6. \A t \in Tasks : ordered[t] = answered[t]
    BY <1>5 DEF IInv, ReportTellsOutcomes, Done
<1>7. \A t \in Tasks : t < next <=> Started(t)
  <2>1. CASE block.kind = "parallel"
    <3>1. next = Total + 1 /\ Workers = Tasks /\ Total \in Nat
        BY <2>1, Sizes DEF IInv, Setting, Workers, Tasks
    <3> QED
        BY <1>1, <2>1, <3>1 DEF Started, Tasks
  <2>2. CASE block.kind = "foreach"
      BY <2>2 DEF Started
  <2> QED
      BY <2>1, <2>2, Sizes DEF IInv
<1>8. ordered = answered
    BY <1>4, <1>6
<1> QED
    BY <1>3, <1>5, <1>7, <1>8

(* The collected array, element by element. *)
LEMMA ValuesOf ==
    ASSUME TypeOK
    PROVE  /\ Values(ordered) \in Seq(Answers \cup {"nil"})
           /\ Len(Values(ordered)) = Total
           /\ \A t \in Tasks :
                 Values(ordered)[t] =
                     IF ordered[t] = "missing" THEN "nil" ELSE ordered[t]
<1>1. /\ ordered \in [Tasks -> Answers \cup {"missing"}]
      /\ Tasks = 1..Total /\ Total \in Nat
    BY Sizes DEF TypeOK, Tasks
<1>2. Values(ordered) \in [1..Total -> Answers \cup {"nil"}]
    BY <1>1 DEF Values
<1>3. /\ Values(ordered) \in Seq(Answers \cup {"nil"})
      /\ Len(Values(ordered)) = Total
    BY <1>1, <1>2, SeqDef, LenProperties
<1> QED
    BY <1>1, <1>3 DEF Values

LEMMA ReturnIInv == ASSUME IInv, Return PROVE IInv'
<1> USE DEF Return
<1>1. Setting' /\ Executing' = Executing
    BY BlockKept DEF IInv, TypeOK, Setting, Executing
<1>2. collected' \in Seq(Answers \cup {"nil"})
    BY ValuesOf DEF IInv
<1>3. TypeOK'
    BY <1>2, BlockKept DEF IInv, TypeOK
<1>4. ReportTellsOutcomes'
  <2>1. /\ ordered = answered
        /\ \A t \in Tasks : t < next <=> answered[t] # "missing"
      BY AllCollected
  <2>2. block.kind = "foreach" =>
            /\ Len(collected') = Total
            /\ \A t \in Tasks :
                  collected'[t] = IF t < next THEN answered[t] ELSE "nil"
      BY <2>1, ValuesOf DEF IInv
  <2> QED
      BY <2>1, <2>2, BlockKept DEF IInv, ReportTellsOutcomes
<1> QED
    BY <1>1, <1>3, <1>4, QuietIInv

LEMMA CancelIInv == ASSUME IInv, Cancel PROVE IInv'
<1> USE DEF Cancel
<1>1. TypeOK' /\ Setting' /\ Executing' = Executing
    BY BlockKept DEF IInv, TypeOK, Setting, Executing
<1> QED
    BY <1>1, ReportKept, QuietIInv

LEMMA StutterIInv == ASSUME IInv, UNCHANGED vars PROVE IInv'
<1> USE DEF vars
<1>1. TypeOK' /\ Setting' /\ Executing' = Executing
    BY BlockKept DEF IInv, TypeOK, Setting, Executing
<1> QED
    BY <1>1, ReportKept, QuietIInv

(* A worker takes a task that was not started yet. *)
LEMMA BeginIInv ==
    ASSUME IInv, NEW w \in Workers, NEW t \in Tasks, Execute(w, t),
           worker[w] = "idle", ~Started(t),
           \A u \in Tasks : Started(u)' <=> Started(u) \/ u = t,
           UNCHANGED <<block, outcomes, answered, ordered, failed, firstErr, pc>>,
           TypeOK', Setting'
    PROVE  IInv'
<1> USE DEF Execute
<1>1. /\ Tasks' = Tasks /\ Workers' = Workers /\ Total' = Total
      /\ worker \in [Workers -> {"idle", "executing", "exited"}]
      /\ task \in [Workers -> 0..Total] /\ context \in [Workers -> Contexts]
      /\ owner \in [Contexts -> 0..Total]
      /\ w \in Contexts /\ w # 0
  <2>1. Tasks' = Tasks /\ Workers' = Workers /\ Total' = Total
      BY BlockKept
  <2>2. /\ worker \in [Workers -> {"idle", "executing", "exited"}]
        /\ task \in [Workers -> 0..Total] /\ context \in [Workers -> Contexts]
        /\ owner \in [Contexts -> 0..Total]
      BY DEF IInv, TypeOK
  <2>3. w \in Contexts /\ w # 0
      BY Sizes DEF IInv, Workers, Contexts
  <2> QED
      BY <2>1, <2>2, <2>3
<1>2. /\ Executing' = Executing \cup {w}
      /\ w \notin Executing
      /\ task'[w] = t
      /\ \A v \in Executing : v # w /\ task'[v] = task[v]
    BY <1>1 DEF Executing
<1>3. /\ \A u : Running(u)' <=> Running(u) \/ u = t
      /\ \A u : Sent(u)' <=> Sent(u)
      /\ \A u : Done(u)' <=> Done(u)
  <2>1. \A u : Sent(u)' <=> Sent(u)
      BY DEF Sent
  <2>2. \A u : Done(u)' <=> Done(u)
      BY DEF Done
  <2>3. \A u : Running(u)' <=> Running(u) \/ u = t
      BY <1>2 DEF Running
  <2> QED
      BY <2>1, <2>2, <2>3
<1>4. ~Running(t) /\ ~Sent(t) /\ ~Done(t)
    BY DEF IInv, OnePlace
<1>5. OnePlace'
  <2>1. \A v \in Executing' : task'[v] \in Tasks'
      BY <1>1, <1>2 DEF IInv, OnePlace
  <2>2. \A v1, v2 \in Executing' : task'[v1] = task'[v2] => v1 = v2
    <3>1. \A v \in Executing : task'[v] # t
        BY <1>2, <1>4 DEF Running
    <3> QED
        BY <1>2, <3>1 DEF IInv, OnePlace
  <2>3. \A j, k \in 1..Len(outcomes') : outcomes'[j].task = outcomes'[k].task => j = k
      BY DEF IInv, OnePlace
  <2>4. ASSUME NEW u \in Tasks'
        PROVE  /\ Started(u)' <=> Running(u)' \/ Sent(u)' \/ Done(u)'
               /\ ~(Running(u)' /\ Sent(u)')
               /\ ~(Running(u)' /\ Done(u)')
               /\ ~(Sent(u)' /\ Done(u)')
    <3>1. u \in Tasks
        BY <1>1
    <3>2. /\ Started(u) <=> Running(u) \/ Sent(u) \/ Done(u)
          /\ ~(Running(u) /\ Sent(u))
          /\ ~(Running(u) /\ Done(u))
          /\ ~(Sent(u) /\ Done(u))
        BY <3>1 DEF IInv, OnePlace
    <3> QED
        BY <1>3, <1>4, <3>1, <3>2
  <2> QED
      BY <2>1, <2>2, <2>3, <2>4 DEF OnePlace
<1>6. Counted'
  <2>1. Cardinality(Executing') = Cardinality(Executing) + 1
      BY <1>2, Finite, FS_AddElement DEF IInv
  <2>2. StartedTasks' = StartedTasks \cup {t} /\ t \notin StartedTasks
      BY <1>1 DEF StartedTasks
  <2>3. Cardinality(StartedTasks') = Cardinality(StartedTasks) + 1
    <3>1. IsFiniteSet(StartedTasks)
        BY Finite DEF IInv, StartedTasks
    <3> QED
        BY <2>2, <3>1, FS_AddElement
  <2>4. DoneTasks' = DoneTasks
      BY <1>1, <1>3 DEF DoneTasks
  <2>5. /\ Cardinality(DoneTasks) \in Nat
        /\ Cardinality(StartedTasks) \in Nat
        /\ Cardinality(Executing) \in Nat
        /\ Len(outcomes) \in Nat
      BY Finite, StateTypes DEF IInv, DoneTasks, StartedTasks
  <2> QED
      BY <2>1, <2>3, <2>4, <2>5 DEF IInv, Counted
<1>7. Clones'
    BY <1>1, <1>2 DEF IInv, Clones
<1>8. ReportTellsOutcomes'
    BY <1>1, StillCollecting DEF IInv, ReportTellsOutcomes
<1>9. Recorded'
    BY <1>1, <1>3 DEF IInv, Recorded
<1> QED
    BY <1>5, <1>6, <1>7, <1>8, <1>9 DEF IInv

LEMMA DispatchIInv == ASSUME IInv, NEW w \in Workers, Dispatch(w) PROVE IInv'
<1> USE DEF Dispatch
<1>1. /\ next \in Tasks /\ next \in Nat /\ Total \in Nat
      /\ ~Started(next)
    BY Sizes DEF IInv, TypeOK, Tasks, Started
<1>2. \A u \in Tasks : Started(u)' <=> Started(u) \/ u = next
    BY <1>1 DEF Started, Tasks
<1>3. TypeOK'
  <2>1. /\ worker' \in [Workers -> {"idle", "executing", "exited"}]
        /\ task' \in [Workers -> 0..Total]
        /\ context' \in [Workers -> Contexts]
        /\ owner' \in [Contexts -> 0..Total]
      BY <1>1, Sizes DEF IInv, TypeOK, Execute, Workers, Contexts
  <2>2. next' \in 1..Total + 1
      BY <1>1
  <2> QED
      BY <2>1, <2>2, BlockKept DEF IInv, TypeOK
<1>4. Setting'
    BY BlockKept DEF IInv, TypeOK, Setting, Execute
<1> QED
    BY <1>1, <1>2, <1>3, <1>4, BeginIInv

LEMMA StartBranchIInv == ASSUME IInv, NEW w \in Workers, StartBranch(w) PROVE IInv'
<1> USE DEF StartBranch
<1>1. /\ Workers = Tasks /\ task[w] = w /\ Total \in Nat
      /\ ~Started(w)
    BY Sizes DEF IInv, Setting, Started, Workers, Tasks
<1>2. \A u \in Tasks : Started(u)' <=> Started(u) \/ u = w
    BY <1>1 DEF Started, Execute, IInv, TypeOK
<1>3. TypeOK'
  <2>1. /\ worker' \in [Workers -> {"idle", "executing", "exited"}]
        /\ task' \in [Workers -> 0..Total]
        /\ context' \in [Workers -> Contexts]
        /\ owner' \in [Contexts -> 0..Total]
      BY <1>1, Sizes DEF IInv, TypeOK, Execute, Workers, Contexts, Tasks
  <2> QED
      BY <2>1, BlockKept DEF IInv, TypeOK
<1>4. Setting'
    BY <1>1, BlockKept DEF IInv, TypeOK, Setting, Execute
<1> QED
    BY <1>1, <1>2, <1>3, <1>4, BeginIInv

(* The outcome of a worker goes into the channel. *)
LEMMA FinishIInv == ASSUME IInv, NEW w \in Workers, Finish(w) PROVE IInv'
<1> USE DEF Finish
<1> PICK answer \in Answers :
        /\ outcomes' = Append(outcomes, [task |-> task[w], answer |-> answer])
        /\ answered' = [answered EXCEPT ![task[w]] = answer]
    OBVIOUS
<1>1. /\ Tasks' = Tasks /\ Workers' = Workers /\ Total' = Total
      /\ worker \in [Workers -> {"idle", "executing", "exited"}]
      /\ w \in Executing /\ task[w] \in Tasks
    BY BlockKept DEF IInv, TypeOK, Executing, OnePlace
<1>2. Executing' = Executing \ {w}
    BY <1>1 DEF Executing
<1>3. /\ outcomes' \in Seq([task : Tasks, answer : Answers])
      /\ Len(outcomes) \in Nat
      /\ Len(outcomes') = Len(outcomes) + 1
      /\ \A k \in 1..Len(outcomes) : outcomes'[k] = outcomes[k]
      /\ outcomes'[Len(outcomes) + 1] = [task |-> task[w], answer |-> answer]
    BY <1>1, StateTypes, AppendProperties DEF IInv
<1>4. Running(task[w]) /\ ~Sent(task[w]) /\ ~Done(task[w])
    BY <1>1 DEF IInv, OnePlace, Running
<1>5. /\ \A u : Running(u)' <=> Running(u) /\ u # task[w]
      /\ \A u : Sent(u)' <=> Sent(u) \/ u = task[w]
      /\ \A u : Done(u)' <=> Done(u)
      /\ \A u \in Tasks : Started(u)' <=> Started(u)
  <2>1. \A u : Running(u)' <=> Running(u) /\ u # task[w]
      BY <1>1, <1>2 DEF Running, IInv, OnePlace
  <2>2. \A u : Sent(u)' <=> Sent(u) \/ u = task[w]
    <3> SUFFICES ASSUME NEW u PROVE Sent(u)' <=> Sent(u) \/ u = task[w]
        OBVIOUS
    <3>1. Sent(u)' => Sent(u) \/ u = task[w]
        BY <1>3 DEF Sent
    <3>2. Sent(u) => Sent(u)'
        BY <1>3 DEF Sent
    <3>3. u = task[w] => Sent(u)'
        BY <1>3, Len(outcomes) + 1 \in 1..Len(outcomes') DEF Sent
    <3> QED
        BY <3>1, <3>2, <3>3
  <2>3. \A u : Done(u)' <=> Done(u)
      BY DEF Done
  <2>4. \A u \in Tasks : Started(u)' <=> Started(u)
      BY <1>1, Sizes DEF Started, Workers, Tasks, IInv
  <2> QED
      BY <2>1, <2>2, <2>3, <2>4
<1>6. TypeOK'
  <2>1. answered' \in [Tasks -> Answers \cup {"missing"}]
      BY <1>1 DEF IInv, TypeOK
  <2> QED
      BY <1>1, <1>3, <2>1, BlockKept DEF IInv, TypeOK
<1>7. Setting'
    BY <1>1, BlockKept DEF IInv, Setting, Executing
<1>8. OnePlace'
  <2>1. \A v \in Executing' : task'[v] \in Tasks'
      BY <1>1, <1>2 DEF IInv, OnePlace
  <2>2. \A v1, v2 \in Executing' : task'[v1] = task'[v2] => v1 = v2
      BY <1>2 DEF IInv, OnePlace
  <2>3. ASSUME NEW j \in 1..Len(outcomes'), NEW k \in 1..Len(outcomes'),
               outcomes'[j].task = outcomes'[k].task
        PROVE  j = k
    <3>1. \A i \in 1..Len(outcomes) : outcomes[i].task # task[w]
        BY <1>4 DEF Sent
    <3> QED
        BY <1>3, <2>3, <3>1 DEF IInv, OnePlace
  <2>4. ASSUME NEW u \in Tasks'
        PROVE  /\ Started(u)' <=> Running(u)' \/ Sent(u)' \/ Done(u)'
               /\ ~(Running(u)' /\ Sent(u)')
               /\ ~(Running(u)' /\ Done(u)')
               /\ ~(Sent(u)' /\ Done(u)')
    <3>1. u \in Tasks
        BY <1>1
    <3>2. /\ Started(u) <=> Running(u) \/ Sent(u) \/ Done(u)
          /\ ~(Running(u) /\ Sent(u))
          /\ ~(Running(u) /\ Done(u))
          /\ ~(Sent(u) /\ Done(u))
        BY <3>1 DEF IInv, OnePlace
    <3> QED
        BY <1>4, <1>5, <3>1, <3>2
  <2> QED
      BY <2>1, <2>2, <2>3, <2>4 DEF OnePlace
<1>9. Counted'
  <2>1. Cardinality(Executing') = Cardinality(Executing) - 1
      BY <1>1, <1>2, Finite, FS_RemoveElement DEF IInv
  <2>2. StartedTasks' = StartedTasks /\ DoneTasks' = DoneTasks
      BY <1>1, <1>5 DEF StartedTasks, DoneTasks
  <2>3. /\ Cardinality(DoneTasks) \in Nat
        /\ Cardinality(StartedTasks) \in Nat
        /\ Cardinality(Executing) \in Nat
      BY Finite DEF IInv, DoneTasks, StartedTasks
  <2> QED
      BY <1>3, <2>1, <2>2, <2>3 DEF IInv, Counted
<1>10. Clones'
    BY <1>1, <1>2 DEF IInv, Clones
<1>11. /\ answered'[task[w]] = answer
       /\ \A u \in Tasks \ {task[w]} : answered'[u] = answered[u]
    BY <1>1 DEF IInv, TypeOK
<1>12. Recorded'
  <2>1. \A u \in Tasks : answered'[u] # "missing" <=> Sent(u)' \/ Done(u)'
      BY <1>5, <1>11 DEF IInv, Recorded, Answers
  <2>2. ASSUME NEW k \in 1..Len(outcomes')
        PROVE  answered'[outcomes'[k].task] = outcomes'[k].answer
    <3>1. CASE k = Len(outcomes) + 1
        BY <1>3, <1>11, <3>1
    <3>2. CASE k \in 1..Len(outcomes)
      <4>1. outcomes[k].task \in Tasks \ {task[w]}
          BY <1>4, <3>2, StateTypes DEF IInv, Sent
      <4> QED
          BY <1>3, <1>11, <3>2, <4>1 DEF IInv, Recorded
    <3> QED
        BY <1>3, <3>1, <3>2
  <2> QED
      BY <1>1, <2>1, <2>2 DEF Recorded
<1>13. ReportTellsOutcomes'
  <2>1. ordered[task[w]] = "missing"
      BY <1>4 DEF Done
  <2>2. \A u \in Tasks : ordered'[u] \in {"missing", answered'[u]}
      BY <1>11, <2>1 DEF IInv, ReportTellsOutcomes
  <2>3. firstErr # 0 => firstErr \in Tasks /\ answered'[firstErr] = "err"
    <3>1. firstErr # 0 => firstErr \in Tasks /\ answered[firstErr] = "err"
        BY Sizes DEF IInv, TypeOK, Tasks, ReportTellsOutcomes
    <3>2. firstErr # task[w]
      <4>1. answered[task[w]] = "missing"
          BY <1>1, <1>4 DEF IInv, Recorded
      <4> QED
          BY <1>1, <3>1, <4>1, StateTypes DEF IInv
    <3> QED
        BY <1>11, <3>1, <3>2
  <2>4. pc # "returned"
      BY <1>1, StillCollecting DEF Executing
  <2> QED
      BY <1>1, <2>2, <2>3, <2>4 DEF IInv, ReportTellsOutcomes
<1> QED
    BY <1>6, <1>7, <1>8, <1>9, <1>10, <1>12, <1>13 DEF IInv

(* The caller takes an outcome out of the channel. *)
LEMMA CollectIInv == ASSUME IInv, Collect PROVE IInv'
<1> USE DEF Collect
<1>0. PICK o : o = Head(outcomes)
    OBVIOUS
<1>1. /\ Tasks' = Tasks /\ Workers' = Workers /\ Total' = Total
      /\ ordered \in [Tasks -> Answers \cup {"missing"}]
      /\ failed \in Nat /\ Total \in Nat
  <2>1. Total \in Nat /\ failed \in 0..Total
      BY Sizes DEF IInv, TypeOK
  <2>2. ordered \in [Tasks -> Answers \cup {"missing"}]
      BY DEF IInv, TypeOK
  <2> QED
      BY <2>1, <2>2, BlockKept
<1>2. /\ outcomes' \in Seq([task : Tasks, answer : Answers])
      /\ Len(outcomes) \in Nat \ {0}
      /\ Len(outcomes') = Len(outcomes) - 1
      /\ \A k \in 1..Len(outcomes') : outcomes'[k] = outcomes[k + 1]
      /\ o = outcomes[1] /\ o.task \in Tasks /\ o.answer \in Answers
    BY <1>0, StateTypes, HeadTailProperties, EmptySeq DEF IInv
<1>3. /\ ordered' = [ordered EXCEPT ![o.task] = o.answer]
      /\ failed' = IF o.answer = "err" THEN failed + 1 ELSE failed
      /\ firstErr' = IF o.answer = "err" /\ firstErr = 0 THEN o.task ELSE firstErr
    BY <1>0
<1>4. Sent(o.task) /\ ~Running(o.task) /\ ~Done(o.task)
  <2>1. Sent(o.task)
      BY <1>2, 1 \in 1..Len(outcomes) DEF Sent
  <2> QED
      BY <1>2, <2>1 DEF IInv, OnePlace
<1>5. Executing' = Executing
    BY <1>1 DEF Executing
<1>6. /\ \A u : Running(u)' <=> Running(u)
      /\ \A u \in Tasks : Sent(u)' <=> Sent(u) /\ u # o.task
      /\ \A u \in Tasks : Done(u)' <=> Done(u) \/ u = o.task
      /\ \A u \in Tasks : Started(u)' <=> Started(u)
  <2>1. \A u : Running(u)' <=> Running(u)
      BY <1>5 DEF Running
  <2>2. ASSUME NEW u \in Tasks PROVE Sent(u)' <=> Sent(u) /\ u # o.task
    <3>1. ASSUME Sent(u)' PROVE Sent(u) /\ u # o.task
      <4>1. PICK k \in 1..Len(outcomes') : outcomes'[k].task = u
          BY <3>1 DEF Sent
      <4>2. k + 1 \in 1..Len(outcomes) /\ outcomes[k + 1].task = u /\ 1 \in 1..Len(outcomes) /\ k + 1 # 1
          BY <1>2, <4>1
      <4> QED
          BY <1>2, <4>2 DEF Sent, IInv, OnePlace
    <3>2. ASSUME Sent(u), u # o.task PROVE Sent(u)'
      <4>1. PICK k \in 1..Len(outcomes) : outcomes[k].task = u
          BY <3>2 DEF Sent
      <4>2. k # 1
          BY <1>2, <3>2, <4>1
      <4>3. k - 1 \in 1..Len(outcomes') /\ outcomes'[k - 1] = outcomes[k]
          BY <1>2, <4>2
      <4> QED
          BY <4>1, <4>3 DEF Sent
    <3> QED
        BY <3>1, <3>2
  <2>3. \A u \in Tasks : Done(u)' <=> Done(u) \/ u = o.task
      BY <1>1, <1>2, <1>3 DEF Done, Answers
  <2>4. \A u \in Tasks : Started(u)' <=> Started(u)
      BY DEF Started
  <2> QED
      BY <2>1, <2>2, <2>3, <2>4
<1>7. OnePlace'
  <2>1. \A j, k \in 1..Len(outcomes') : outcomes'[j].task = outcomes'[k].task => j = k
    <3> SUFFICES ASSUME NEW j \in 1..Len(outcomes'), NEW k \in 1..Len(outcomes'),
                        outcomes'[j].task = outcomes'[k].task
                 PROVE  j + 1 = k + 1
        BY <1>2
    <3>1. j + 1 \in 1..Len(outcomes) /\ k + 1 \in 1..Len(outcomes)
        BY <1>2
    <3> QED
        BY <1>2, <3>1 DEF IInv, OnePlace
  <2>2. ASSUME NEW u \in Tasks'
        PROVE  /\ Started(u)' <=> Running(u)' \/ Sent(u)' \/ Done(u)'
               /\ ~(Running(u)' /\ Sent(u)')
               /\ ~(Running(u)' /\ Done(u)')
               /\ ~(Sent(u)' /\ Done(u)')
    <3>1. u \in Tasks
        BY <1>1
    <3>2. /\ Started(u) <=> Running(u) \/ Sent(u) \/ Done(u)
          /\ ~(Running(u) /\ Sent(u))
          /\ ~(Running(u) /\ Done(u))
          /\ ~(Sent(u) /\ Done(u))
        BY <3>1 DEF IInv, OnePlace
    <3> QED
        BY <1>4, <1>6, <3>1, <3>2
  <2> QED
      BY <1>1, <1>5, <2>1, <2>2 DEF IInv, OnePlace
<1>8. Counted'
  <2>1. DoneTasks' = DoneTasks \cup {o.task} /\ o.task \notin DoneTasks
      BY <1>1, <1>2, <1>4, <1>6 DEF DoneTasks
  <2>2. IsFiniteSet(DoneTasks)
      BY Finite DEF IInv, DoneTasks
  <2>3. Cardinality(DoneTasks') = Cardinality(DoneTasks) + 1
      BY <2>1, <2>2, FS_AddElement
  <2>4. StartedTasks' = StartedTasks
      BY <1>1, <1>6 DEF StartedTasks
  <2>5. /\ Cardinality(DoneTasks) \in Nat
        /\ Cardinality(StartedTasks) \in Nat
        /\ Cardinality(Executing) \in Nat
      BY Finite DEF IInv, DoneTasks, StartedTasks
  <2> QED
      BY <1>2, <1>5, <2>3, <2>4, <2>5 DEF IInv, Counted
<1>9. answered[o.task] = o.answer
  <2>1. 1 \in 1..Len(outcomes)
      BY <1>2
  <2> QED
      BY <1>2, <2>1 DEF IInv, Recorded
<1>10. Recorded'
  <2>1. \A u \in Tasks : answered[u] # "missing" <=> Sent(u)' \/ Done(u)'
      BY <1>4, <1>6 DEF IInv, Recorded
  <2>2. ASSUME NEW k \in 1..Len(outcomes')
        PROVE  answered[outcomes'[k].task] = outcomes'[k].answer
    <3>1. k + 1 \in 1..Len(outcomes) /\ outcomes'[k] = outcomes[k + 1]
        BY <1>2
    <3> QED
        BY <3>1 DEF IInv, Recorded
  <2> QED
      BY <1>1, <2>1, <2>2 DEF Recorded
<1>11. ReportTellsOutcomes' /\ failed' \in 0..Total
  <2> DEFINE Errs == {t \in Tasks : ordered[t] = "err"}
  <2>1. Errs' = IF o.answer = "err" THEN Errs \cup {o.task} ELSE Errs
      BY <1>1, <1>2, <1>3, <1>4 DEF Done
  <2>2. o.task \notin Errs
      BY <1>4 DEF Done
  <2>3. IsFiniteSet(Errs) /\ failed = Cardinality(Errs)
      BY Finite DEF IInv, ReportTellsOutcomes
  <2>4. Cardinality(Errs') = failed'
      BY <1>3, <2>1, <2>2, <2>3, FS_AddElement
  <2>5. Cardinality(Errs') <= Total
    <3>1. Errs' \in SUBSET Tasks
        BY <1>1
    <3> QED
        BY <3>1, Finite DEF IInv
  <2>6. 0 \notin Tasks
      BY StateTypes DEF IInv
  <2>7. firstErr' = 0 <=> failed' = 0
      BY <1>1, <1>2, <1>3, <2>6 DEF IInv, ReportTellsOutcomes
  <2>8. firstErr' # 0 => answered'[firstErr'] = "err"
      BY <1>2, <1>3, <1>9 DEF IInv, ReportTellsOutcomes
  <2>9. \A u \in Tasks : ordered'[u] \in {"missing", answered'[u]}
      BY <1>1, <1>2, <1>3, <1>9 DEF IInv, ReportTellsOutcomes
  <2>10. pc # "returned"
      BY StillCollecting
  <2>11. failed' \in 0..Total
      BY <1>1, <1>3, <2>4, <2>5
  <2> QED
      BY <1>1, <2>4, <2>7, <2>8, <2>9, <2>10, <2>11 DEF ReportTellsOutcomes
<1>12. TypeOK'
  <2>1. ordered' \in [Tasks -> Answers \cup {"missing"}]
      BY <1>1, <1>2, <1>3
  <2>2. firstErr' \in 0..Total
      BY <1>1, <1>2, <1>3 DEF IInv, TypeOK, Tasks
  <2> QED
      BY <1>1, <1>2, <1>11, <2>1, <2>2, BlockKept DEF IInv, TypeOK
<1>13. Setting' /\ Clones'
    BY <1>1, <1>5 DEF IInv, Setting, Clones
<1> QED
    BY <1>7, <1>8, <1>10, <1>11, <1>12, <1>13 DEF IInv

LEMMA NextIInv == IInv /\ [Next]_vars => IInv'
    BY CloseTasksIInv, CloseOutcomesIInv, CollectIInv, ReturnIInv, DispatchIInv,
       StartBranchIInv, FinishIInv, ExitWorkerIInv, CancelIInv, StutterIInv
    DEF Next, Progress, Terminated

----------------------------------------------------------------------------
(* Every reachable state of a concurrent block satisfies the inductive      *)
(* invariant.                                                               *)
THEOREM Invariance == Spec => []IInv
    BY InitIInv, NextIInv, PTL DEF Spec

(* The state of a concurrent block keeps its types: no task past the last is *)
(* dispatched, and no more tasks fail than there are.                        *)
THEOREM TypeCorrect == Spec => []TypeOK
<1>1. IInv => TypeOK
    BY DEF IInv
<1> QED
    BY <1>1, Invariance, PTL

(* outcomes is never closed under a worker that still sends, nor full when   *)
(* it sends, and no goroutine is left when the block returns.                *)
THEOREM ChannelsClosed == Spec => []ChannelsCloseInTime
<1>1. ASSUME IInv PROVE ChannelsCloseInTime
  <2> USE <1>1
  <2>1. Executing = {w \in Workers : worker[w] = "executing"}
      BY DEF Executing
  <2>2. outcomesClosed => Executing = {}
      BY DEF IInv, Setting, Executing
  <2>3. Len(outcomes) + Cardinality(Executing) <= Total
    <3>1. /\ Cardinality(DoneTasks) \in Nat
          /\ Cardinality(StartedTasks) \in Nat
          /\ Cardinality(StartedTasks) <= Total
          /\ Cardinality(Executing) \in Nat
          /\ Len(outcomes) \in Nat /\ Total \in Nat
        BY Finite, StateTypes, Sizes DEF IInv, DoneTasks, StartedTasks
    <3> QED
        BY <3>1 DEF IInv, Counted
  <2>4. 1 \in Workers
      BY Sizes DEF IInv, Workers
  <2>5. outcomesClosed => tasksClosed
      BY <2>4, Sizes DEF IInv, Setting
  <2>6. tasksClosed \in BOOLEAN /\ outcomesClosed \in BOOLEAN
      BY DEF IInv, TypeOK
  <2>7. SendsAreSafe
      BY <2>1, <2>2, <2>3, <2>5, <2>6 DEF SendsAreSafe
  <2>8. NothingLeftRunning
      BY <2>5 DEF IInv, Setting, NothingLeftRunning
  <2> QED
      BY <2>7, <2>8 DEF ChannelsCloseInTime
<1> QED
    BY <1>1, Invariance, PTL

(* No two tasks share a RunContext, and the block's own is left alone.      *)
THEOREM ContextsApart == Spec => []OwnContext
<1>1. ASSUME IInv PROVE OwnContext
    BY <1>1 DEF IInv, Clones, Executing, OwnContext
<1> QED
    BY <1>1, Invariance, PTL

(* In whatever order the outcomes arrive, each position of results holds     *)
(* what its own task answered, the count of failures and the error that is   *)
(* quoted are those of the tasks that failed, and what is returned leaves    *)
(* out no task that was started, nor its element of a collected array.       *)
THEOREM OutcomesReported == Spec => []ReportTellsOutcomes
<1>1. IInv => ReportTellsOutcomes
    BY DEF IInv
<1> QED
    BY <1>1, Invariance, PTL

----------------------------------------------------------------------------
(* The refinement.  What Jobs knows of a task, from where the task is.      *)
StatusFollows(t) ==
    /\ Running(t) => Status(t) = "running"
    /\ ~Started(t) => Status(t) = "pending"
    /\ Done(t) => Status(t) = IF ordered[t] = "ok" THEN "ok" ELSE "failed"
    /\ \A k \in 1..Len(outcomes) : outcomes[k].task = t =>
          Status(t) = IF outcomes[k].answer = "ok" THEN "ok" ELSE "failed"

StatusesFollow == \A t \in Tasks : StatusFollows(t)

LEMMA StatusIs == IInv => StatusesFollow
<1> SUFFICES ASSUME IInv, NEW t \in Tasks PROVE StatusFollows(t)
    BY DEF StatusesFollow
<1>1. /\ Started(t) <=> Running(t) \/ Sent(t) \/ Done(t)
      /\ ~(Running(t) /\ Sent(t))
      /\ ~(Running(t) /\ Done(t))
      /\ ~(Sent(t) /\ Done(t))
    BY DEF IInv, OnePlace
<1>2. /\ ordered[t] \in {"ok", "err", "missing"}
      /\ \A k \in 1..Len(outcomes) : outcomes[k].answer \in {"ok", "err"}
    BY StateTypes DEF IInv, TypeOK, Answers
<1>3. Running(t) <=> \E w \in Workers : worker[w] = "executing" /\ task[w] = t
    BY DEF Running, Executing
<1>4. InFlight(t) # {} <=> Sent(t)
    BY DEF InFlight, Sent
<1>5. ASSUME ~Sent(t)
      PROVE  Status(t) = CASE ordered[t] = "ok" -> "ok"
                           [] ordered[t] = "err" -> "failed"
                           [] Running(t) -> "running"
                           [] OTHER -> "pending"
    BY <1>3, <1>4, <1>5 DEF Status
<1>6. ASSUME Running(t) PROVE Status(t) = "running"
    BY <1>1, <1>5, <1>6 DEF Done
<1>7. ASSUME ~Started(t) PROVE Status(t) = "pending"
    BY <1>1, <1>5, <1>7 DEF Done
<1>8. ASSUME Done(t)
      PROVE  Status(t) = IF ordered[t] = "ok" THEN "ok" ELSE "failed"
    BY <1>1, <1>2, <1>5, <1>8 DEF Done
<1>9. ASSUME NEW k \in 1..Len(outcomes), outcomes[k].task = t
      PROVE  Status(t) = IF outcomes[k].answer = "ok" THEN "ok" ELSE "failed"
  <2>1. InFlight(t) = {k}
      BY <1>9 DEF IInv, OnePlace, InFlight
  <2>2. (CHOOSE j \in InFlight(t) : TRUE) = k
      BY <2>1
  <2>3. Sent(t) /\ ~Running(t)
      BY <1>1, <1>9 DEF Sent
  <2>4. Status(t) = CASE outcomes[k].answer = "ok" -> "ok"
                      [] outcomes[k].answer = "err" -> "failed"
                      [] Running(t) -> "running"
                      [] OTHER -> "pending"
      BY <1>3, <2>1, <2>2 DEF Status
  <2> QED
      BY <1>2, <2>3, <2>4
<1> QED
    BY <1>6, <1>7, <1>8, <1>9 DEF StatusFollows

LEMMA StatusMeans ==
    IInv => \A t \in Tasks :
        /\ Status(t) = "running" <=> Running(t)
        /\ Status(t) = "pending" <=> ~Started(t)
        /\ Done(t) => (Status(t) = "failed" <=> ordered[t] = "err")
<1> SUFFICES ASSUME IInv, NEW t \in Tasks
             PROVE  /\ Status(t) = "running" <=> Running(t)
                    /\ Status(t) = "pending" <=> ~Started(t)
                    /\ Done(t) => (Status(t) = "failed" <=> ordered[t] = "err")
    OBVIOUS
<1>1. /\ Started(t) <=> Running(t) \/ Sent(t) \/ Done(t)
      /\ ~(Running(t) /\ Sent(t))
      /\ ~(Running(t) /\ Done(t))
      /\ ~(Sent(t) /\ Done(t))
    BY DEF IInv, OnePlace
<1>2. ordered[t] \in {"ok", "err", "missing"}
    BY DEF IInv, TypeOK, Answers
<1>3. CASE Running(t)
    BY <1>1, <1>3, StatusIs DEF StatusesFollow, StatusFollows
<1>4. CASE ~Started(t)
    BY <1>1, <1>4, StatusIs DEF StatusesFollow, StatusFollows
<1>5. CASE Sent(t)
    BY <1>1, <1>5, StatusIs DEF StatusesFollow, StatusFollows, Sent
<1>6. CASE Done(t)
    BY <1>1, <1>2, <1>6, StatusIs DEF StatusesFollow, StatusFollows, Done
<1> QED
    BY <1>1, <1>3, <1>4, <1>5, <1>6

(* Jobs counts as FanOut does. *)
LEMMA SameCardinality == \A S : Promise!Cardinality(S) = Cardinality(S)
    BY DEF Promise!Cardinality, Cardinality

(* The variables of Jobs, as FanOut sees them. *)
Statuses == [t \in Tasks |-> Status(t)]

Reported == IF pc = "returned" THEN failed ELSE -1

LEMMA PromiseState ==
    /\ Promise!vars = <<WorkerCount, block.kind = "foreach", Statuses, ctxDone, Reported>>
    /\ Promise!Job = Tasks
    /\ \A s : Promise!With(s) = {t \in Tasks : Status(t) = s}
    BY DEF Promise!vars, Promise!Job, Promise!With, Statuses, Reported

LEMMA InitPromise == Init => Promise!Init
<1> SUFFICES ASSUME Init PROVE Promise!Init
    OBVIOUS
<1>1. IInv
    BY InitIInv
<1>2. WorkerCount \in Nat \ {0} /\ (block.kind = "foreach") \in BOOLEAN
    BY <1>1, Sizes DEF IInv
<1>3. \A t \in Tasks : ~Started(t)
    BY <1>1, Sizes DEF Init, Started, Tasks, Workers, IInv
<1>4. \A t \in Tasks : Status(t) = "pending"
    BY <1>1, <1>3, StatusIs DEF StatusesFollow, StatusFollows
<1>5. ctxDone = FALSE /\ pc # "returned"
    BY DEF Init
<1> QED
    BY <1>2, <1>4, <1>5 DEF Promise!Init, Promise!Job

(* A step that leaves the tasks where they are. *)
LEMMA StatusesKept ==
    ASSUME UNCHANGED <<block, task, outcomes, ordered>>,
           \A w \in Workers : worker'[w] = "executing" <=> worker[w] = "executing"
    PROVE  Statuses' = Statuses
<1>1. Tasks' = Tasks /\ Workers' = Workers
    BY BlockKept
<1>2. ASSUME NEW t \in Tasks PROVE Status(t)' = Status(t)
  <2>1. InFlight(t)' = InFlight(t)
      BY DEF InFlight
  <2>2. (\E w \in Workers : worker[w] = "executing" /\ task[w] = t)'
            <=> \E w \in Workers : worker[w] = "executing" /\ task[w] = t
      BY <1>1
  <2> QED
      BY <2>1, <2>2 DEF Status
<1> QED
    BY <1>1, <1>2 DEF Statuses

(* No more tasks run than there are workers executing. *)
LEMMA RunningBound ==
    ASSUME IInv, NEW w \in Workers, worker[w] = "idle"
    PROVE  Cardinality({t \in Tasks : Status(t) = "running"}) < WorkerCount
<1> DEFINE R == {t \in Tasks : Status(t) = "running"}
           f == [t \in R |-> CHOOSE v \in Executing : task[v] = t]
<1>1. ASSUME NEW t \in R PROVE f[t] \in Executing /\ task[f[t]] = t
    BY StatusMeans DEF Running
<1>2. f \in Injection(R, Executing)
    BY <1>1 DEF Injection, IsInjective
<1>3. IsFiniteSet(Executing) /\ Cardinality(Executing) \in Nat
    BY Finite DEF IInv
<1> HIDE DEF f
<1>4. Cardinality(R) <= Cardinality(Executing) /\ IsFiniteSet(R)
    BY <1>2, <1>3, FS_Injection
<1>5. w \notin Executing /\ Executing \cup {w} \in SUBSET Workers
    BY DEF Executing
<1>6. Cardinality(Executing) + 1 <= WorkerCount
  <2>1. Cardinality(Executing \cup {w}) = Cardinality(Executing) + 1
      BY <1>3, <1>5, FS_AddElement
  <2>2. Cardinality(Executing \cup {w}) <= WorkerCount
      BY <1>5, Finite DEF IInv
  <2> QED
      BY <2>1, <2>2
<1>7. Cardinality(R) \in Nat /\ WorkerCount \in Nat
    BY <1>4, FS_CardinalityType, Sizes DEF IInv
<1> QED
    BY <1>3, <1>4, <1>6, <1>7

LEMMA BeginStep ==
    ASSUME IInv, NEW w \in Workers, NEW t \in Tasks, Execute(w, t),
           worker[w] = "idle", ~Started(t),
           UNCHANGED <<block, outcomes, ordered, failed, pc, ctxDone>>
    PROVE  Promise!Start(t)
<1> USE DEF Execute
<1>1. /\ Tasks' = Tasks /\ Workers' = Workers /\ WorkerCount' = WorkerCount
      /\ worker \in [Workers -> {"idle", "executing", "exited"}]
      /\ task \in [Workers -> 0..Total]
    BY BlockKept DEF IInv, TypeOK
<1>2. pc # "returned"
    BY DEF IInv, Setting, TypeOK
<1>3. ~Running(t) /\ ~Sent(t) /\ ~Done(t)
    BY DEF IInv, OnePlace
<1>4. ASSUME NEW u \in Tasks
      PROVE  (\E v \in Workers' : worker'[v] = "executing" /\ task'[v] = u)
             <=> u = t \/ \E v \in Workers : worker[v] = "executing" /\ task[v] = u
  <2>1. worker'[w] = "executing" /\ task'[w] = t
      BY <1>1
  <2>2. \A v \in Workers \ {w} : worker'[v] = worker[v] /\ task'[v] = task[v]
      BY <1>1
  <2> QED
      BY <1>1, <2>1, <2>2
<1>5. \A u : InFlight(u)' = InFlight(u)
    BY DEF InFlight
<1>6. Status(t)' = "running"
  <2>1. InFlight(t)' = {} /\ ordered'[t] = "missing"
      BY <1>3, <1>5 DEF Sent, Done, InFlight
  <2> QED
      BY <1>4, <2>1 DEF Status
<1>7. ASSUME NEW u \in Tasks, u # t PROVE Status(u)' = Status(u)
  <2>1. (\E v \in Workers : worker[v] = "executing" /\ task[v] = u)'
            <=> \E v \in Workers : worker[v] = "executing" /\ task[v] = u
      BY <1>4, <1>7
  <2>2. InFlight(u)' = InFlight(u) /\ outcomes' = outcomes /\ ordered' = ordered
      BY <1>5
  <2> HIDE DEF Execute
  <2> QED
      BY <2>1, <2>2 DEF Status
<1>8. Statuses' = [Statuses EXCEPT ![t] = "running"]
    BY <1>1, <1>6, <1>7 DEF Statuses
<1>9. Status(t) = "pending"
    BY StatusIs DEF StatusesFollow, StatusFollows
<1>10. Cardinality(Promise!With("running")) < WorkerCount
    BY RunningBound, PromiseState
<1>11. Statuses[t] = "pending" /\ Reported = -1
    BY <1>2, <1>9 DEF Statuses, Reported
<1>12. UNCHANGED <<WorkerCount, block.kind = "foreach", ctxDone, Reported>>
    BY <1>1 DEF Reported
<1> QED
    BY <1>8, <1>10, <1>11, <1>12, SameCardinality DEF Promise!Start, Statuses, Reported

LEMMA DispatchStep ==
    ASSUME IInv, NEW w \in Workers, Dispatch(w) PROVE Promise!Start(next)
<1>1. next \in Tasks /\ ~Started(next)
    BY Sizes DEF Dispatch, IInv, TypeOK, Tasks, Started
<1> QED
    BY <1>1, BeginStep DEF Dispatch

LEMMA StartBranchStep ==
    ASSUME IInv, NEW w \in Workers, StartBranch(w) PROVE Promise!Start(w)
<1>1. w \in Tasks /\ task[w] = w /\ ~Started(w)
    BY Sizes DEF StartBranch, IInv, Setting, Started, Tasks, Workers
<1> QED
    BY <1>1, BeginStep DEF StartBranch

(* StatusIs, in the state that a step leads to. *)
LEMMA StatusIsNext ==
    ASSUME IInv', block' = block, NEW t \in Tasks
    PROVE  /\ Running(t)' => Status(t)' = "running"
           /\ ~Started(t)' => Status(t)' = "pending"
           /\ Done(t)' => Status(t)' = IF ordered'[t] = "ok" THEN "ok" ELSE "failed"
           /\ \A k \in 1..Len(outcomes') : outcomes'[k].task = t =>
                 Status(t)' = IF outcomes'[k].answer = "ok" THEN "ok" ELSE "failed"
<1>1. StatusesFollow'
    BY StatusIs, PTL
<1>2. t \in Tasks'
    BY BlockKept
<1> QED
    BY <1>1, <1>2 DEF StatusesFollow, StatusFollows

LEMMA FinishStep ==
    ASSUME IInv, IInv', NEW w \in Workers, Finish(w) PROVE Promise!Finish(task[w])
<1> USE DEF Finish
<1> PICK answer \in Answers :
        /\ outcomes' = Append(outcomes, [task |-> task[w], answer |-> answer])
        /\ answered' = [answered EXCEPT ![task[w]] = answer]
    OBVIOUS
<1> DEFINE outcome == IF answer = "ok" THEN "ok" ELSE "failed"
<1>1. /\ Tasks' = Tasks /\ Workers' = Workers /\ WorkerCount' = WorkerCount
      /\ worker \in [Workers -> {"idle", "executing", "exited"}]
      /\ w \in Executing /\ task[w] \in Tasks
    BY BlockKept DEF IInv, TypeOK, Executing, OnePlace
<1>2. /\ Len(outcomes) \in Nat
      /\ Len(outcomes') = Len(outcomes) + 1
      /\ \A k \in 1..Len(outcomes) : outcomes'[k] = outcomes[k]
      /\ outcomes'[Len(outcomes) + 1] = [task |-> task[w], answer |-> answer]
    BY <1>1, StateTypes, AppendProperties DEF IInv
<1>3. Status(task[w]) = "running"
    BY <1>1, StatusIs DEF StatusesFollow, StatusFollows, Running
<1>4. Status(task[w])' = outcome
  <2>1. Len(outcomes) + 1 \in 1..Len(outcomes')
      BY <1>2
  <2> QED
      BY <1>1, <1>2, <2>1, StatusIsNext
<1>5. ASSUME NEW u \in Tasks, u # task[w] PROVE Status(u)' = Status(u)
  <2>1. Started(u) <=> Running(u) \/ Sent(u) \/ Done(u)
      BY DEF IInv, OnePlace
  <2>2. CASE Running(u)
    <3>1. Running(u)'
        BY <1>1, <1>5, <2>2 DEF Running, Executing
    <3> QED
        BY <2>2, <3>1, StatusIs, StatusIsNext DEF StatusesFollow, StatusFollows
  <2>3. CASE Sent(u)
    <3>1. PICK k \in 1..Len(outcomes) : outcomes[k].task = u
        BY <2>3 DEF Sent
    <3>2. k \in 1..Len(outcomes') /\ outcomes'[k] = outcomes[k]
        BY <1>2
    <3> QED
        BY <3>1, <3>2, StatusIs, StatusIsNext DEF StatusesFollow, StatusFollows
  <2>4. CASE Done(u)
    <3>1. Done(u)' /\ ordered'[u] = ordered[u]
        BY <2>4 DEF Done
    <3> QED
        BY <2>4, <3>1, StatusIs, StatusIsNext DEF StatusesFollow, StatusFollows
  <2>5. CASE ~Started(u)
    <3>1. ~Started(u)'
        BY <1>1, <2>5, Sizes DEF Started, IInv, Tasks, Workers
    <3> QED
        BY <2>5, <3>1, StatusIs, StatusIsNext DEF StatusesFollow, StatusFollows
  <2> QED
      BY <2>1, <2>2, <2>3, <2>4, <2>5
<1>6. Statuses' = [Statuses EXCEPT ![task[w]] = outcome]
    BY <1>1, <1>4, <1>5 DEF Statuses
<1>7. Statuses[task[w]] = "running"
    BY <1>1, <1>3 DEF Statuses
<1>8. UNCHANGED <<WorkerCount, block.kind = "foreach", ctxDone, Reported>>
    BY <1>1 DEF Reported
<1> QED
    BY <1>6, <1>7, <1>8 DEF Promise!Finish, Statuses, Reported

LEMMA CollectStep ==
    ASSUME IInv, IInv', Collect PROVE UNCHANGED Promise!vars
<1> USE DEF Collect
<1>0. PICK o : o = Head(outcomes)
    OBVIOUS
<1>1. /\ Tasks' = Tasks /\ Workers' = Workers /\ WorkerCount' = WorkerCount
      /\ ordered \in [Tasks -> Answers \cup {"missing"}]
      /\ ordered' = [ordered EXCEPT ![o.task] = o.answer]
    BY <1>0, BlockKept DEF IInv, TypeOK
<1>2. /\ Len(outcomes) \in Nat \ {0}
      /\ Len(outcomes') = Len(outcomes) - 1
      /\ \A k \in 1..Len(outcomes') : outcomes'[k] = outcomes[k + 1]
      /\ o = outcomes[1] /\ o.task \in Tasks /\ o.answer \in Answers
    BY <1>0, StateTypes, HeadTailProperties, EmptySeq DEF IInv
<1>3. Status(o.task)' = Status(o.task)
  <2>1. ordered'[o.task] = o.answer /\ Done(o.task)'
      BY <1>1, <1>2 DEF Done, Answers
  <2>2. 1 \in 1..Len(outcomes)
      BY <1>2
  <2> QED
      BY <1>2, <2>1, <2>2, StatusIs, StatusIsNext DEF StatusesFollow, StatusFollows
<1>4. ASSUME NEW u \in Tasks, u # o.task PROVE Status(u)' = Status(u)
  <2>1. Started(u) <=> Running(u) \/ Sent(u) \/ Done(u)
      BY DEF IInv, OnePlace
  <2>2. CASE Running(u)
    <3>1. Running(u)'
        BY <1>1, <2>2 DEF Running, Executing
    <3> QED
        BY <2>2, <3>1, StatusIs, StatusIsNext DEF StatusesFollow, StatusFollows
  <2>3. CASE Sent(u)
    <3>1. PICK k \in 1..Len(outcomes) : outcomes[k].task = u
        BY <2>3 DEF Sent
    <3>2. k # 1
        BY <1>2, <1>4, <3>1
    <3>3. k - 1 \in 1..Len(outcomes') /\ outcomes'[k - 1] = outcomes[k]
        BY <1>2, <3>2
    <3>4. Status(u) = IF outcomes[k].answer = "ok" THEN "ok" ELSE "failed"
        BY <3>1, StatusIs DEF StatusesFollow, StatusFollows
    <3>5. outcomes'[k - 1].task = u
        BY <3>1, <3>3
    <3>6. \A j \in 1..Len(outcomes') : outcomes'[j].task = u =>
              Status(u)' = IF outcomes'[j].answer = "ok" THEN "ok" ELSE "failed"
        BY StatusIsNext
    <3>7. Status(u)' = IF outcomes'[k - 1].answer = "ok" THEN "ok" ELSE "failed"
        BY <3>3, <3>5, <3>6
    <3> QED
        BY <3>3, <3>4, <3>7
  <2>4. CASE Done(u)
    <3>1. Done(u)' /\ ordered'[u] = ordered[u]
        BY <1>1, <1>4, <2>4 DEF Done
    <3> QED
        BY <2>4, <3>1, StatusIs, StatusIsNext DEF StatusesFollow, StatusFollows
  <2>5. CASE ~Started(u)
    <3>1. ~Started(u)'
        BY <2>5 DEF Started
    <3> QED
        BY <2>5, <3>1, StatusIs, StatusIsNext DEF StatusesFollow, StatusFollows
  <2> QED
      BY <2>1, <2>2, <2>3, <2>4, <2>5
<1>5. Statuses' = Statuses
    BY <1>1, <1>3, <1>4 DEF Statuses
<1>6. UNCHANGED <<WorkerCount, block.kind = "foreach", ctxDone, Reported>>
    BY <1>1 DEF Reported
<1> QED
    BY <1>5, <1>6 DEF Promise!vars, Statuses, Reported

(* The block reports once nothing runs and nothing can start any more.      *)
LEMMA ReturnStep == ASSUME IInv, Return PROVE Promise!Report
<1> USE DEF Return
<1>1. \A w \in Workers : worker[w] = "exited"
    BY DEF IInv, Setting
<1>2. \A t \in Tasks : ~Running(t) /\ ~Sent(t)
    BY <1>1 DEF Running, Executing, Sent
<1>3. \A t \in Tasks : Started(t) <=> Done(t)
    BY <1>2 DEF IInv, OnePlace
<1>4. Promise!With("running") = {}
    BY <1>2, StatusMeans, PromiseState
<1>5. Promise!With("pending") = {} \/ (ctxDone /\ block.kind = "foreach")
  <2>1. CASE block.kind = "parallel"
    <3>1. \A t \in Tasks : Started(t)
        BY <1>1, <2>1, Sizes DEF Started, Tasks, Workers, IInv
    <3> QED
        BY <3>1, StatusMeans, PromiseState
  <2>2. CASE block.kind = "foreach" /\ ~ctxDone
    <3>1. 1 \in Workers
        BY Sizes DEF IInv, Workers
    <3>2. next > Total
        BY <1>1, <2>2, <3>1 DEF IInv, Setting
    <3>3. next \in Nat /\ Total \in Nat
        BY Sizes DEF IInv, TypeOK
    <3>4. \A t \in Tasks : Started(t)
        BY <2>2, <3>2, <3>3 DEF Started, Tasks
    <3> QED
        BY <3>4, StatusMeans, PromiseState
  <2>3. CASE block.kind = "foreach" /\ ctxDone
      BY <2>3
  <2> QED
      BY <2>1, <2>2, <2>3, Sizes DEF IInv
<1>6. failed = Cardinality(Promise!With("failed"))
  <2>1. ASSUME NEW t \in Tasks PROVE Status(t) = "failed" <=> ordered[t] = "err"
      BY <1>3, StatusMeans DEF Done
  <2>2. {t \in Tasks : ordered[t] = "err"} = Promise!With("failed")
      BY <2>1, PromiseState
  <2> QED
      BY <2>2 DEF IInv, ReportTellsOutcomes
<1>7. Statuses' = Statuses
    BY StatusesKept
<1>8. Reported = -1 /\ Reported' = failed
    BY DEF Reported
<1>9. UNCHANGED <<WorkerCount, block.kind = "foreach", ctxDone>>
    BY BlockKept
<1> QED
    BY <1>4, <1>5, <1>6, <1>7, <1>8, <1>9, SameCardinality
    DEF Promise!Report, Statuses, Reported

LEMMA CancelStep == ASSUME IInv, Cancel PROVE Promise!Cancel
<1> USE DEF Cancel
<1>1. Statuses' = Statuses
    BY StatusesKept
<1>2. UNCHANGED <<WorkerCount, block.kind = "foreach", Reported>>
    BY BlockKept DEF Reported
<1> QED
    BY <1>1, <1>2 DEF Promise!Cancel, Statuses, Reported

(* The steps of the goroutines that Jobs does not see. *)
LEMMA HiddenStep ==
    ASSUME IInv,
           \/ CloseTasks \/ CloseOutcomes \/ UNCHANGED vars
           \/ \E w \in Workers : ExitWorker(w)
    PROVE  UNCHANGED Promise!vars
<1>1. UNCHANGED <<block, task, outcomes, ordered, pc, failed, ctxDone>>
    BY DEF CloseTasks, CloseOutcomes, ExitWorker, vars
<1>2. \A w \in Workers : worker'[w] = "executing" <=> worker[w] = "executing"
    BY DEF CloseTasks, CloseOutcomes, ExitWorker, vars, IInv, TypeOK
<1>3. Statuses' = Statuses
    BY <1>1, <1>2, StatusesKept
<1>4. UNCHANGED <<WorkerCount, block.kind = "foreach", ctxDone, Reported>>
    BY <1>1, BlockKept DEF Reported
<1> QED
    BY <1>3, <1>4 DEF Promise!vars, Statuses, Reported

LEMMA NextStep ==
    IInv /\ IInv' /\ [Next]_vars => [Promise!Next]_(Promise!vars)
<1> SUFFICES ASSUME IInv, IInv', [Next]_vars
             PROVE  Promise!Next \/ UNCHANGED Promise!vars
    OBVIOUS
<1>1. CASE Collect
    BY <1>1, CollectStep
<1>2. CASE Return
    BY <1>2, ReturnStep DEF Promise!Next, Promise!Progress
<1>3. CASE Cancel
    BY <1>3, CancelStep DEF Promise!Next
<1>4. ASSUME NEW w \in Workers, Dispatch(w) PROVE Promise!Next
  <2>1. Promise!Start(next)
      BY <1>4, DispatchStep
  <2>2. next \in 1..Total + 1 /\ next <= Total /\ Total \in Nat
      BY <1>4, Sizes DEF Dispatch, IInv, TypeOK
  <2>3. next \in Promise!Job
      BY <2>2, PromiseState DEF Tasks
  <2> QED
      BY <2>1, <2>3 DEF Promise!Next, Promise!Progress
<1>5. ASSUME NEW w \in Workers, StartBranch(w) PROVE Promise!Next
  <2>1. Promise!Start(w) /\ w \in Promise!Job
      BY <1>5, StartBranchStep, PromiseState, Sizes DEF IInv, Tasks, Workers
  <2> QED
      BY <2>1 DEF Promise!Next, Promise!Progress
<1>6. ASSUME NEW w \in Workers, Finish(w) PROVE Promise!Next
  <2>1. Promise!Finish(task[w]) /\ task[w] \in Promise!Job
      BY <1>6, FinishStep, PromiseState DEF Finish, IInv, OnePlace, Executing
  <2> QED
      BY <2>1 DEF Promise!Next, Promise!Progress
<1>7. CASE \/ CloseTasks \/ CloseOutcomes \/ UNCHANGED vars
           \/ \E w \in Workers : ExitWorker(w)
    BY <1>7, HiddenStep
<1> QED
    BY <1>1, <1>2, <1>3, <1>4, <1>5, <1>6, <1>7 DEF Next, Progress, Terminated

(* Every step of the goroutines and channels is one that Jobs allows, or    *)
(* one it does not see: no task runs twice, no more run than there are      *)
(* workers, and the block reports only when nothing runs or can start.      *)
THEOREM StepsOfJobs == Spec => Promise!Init /\ [][Promise!Next]_(Promise!vars)
    BY InitPromise, Invariance, NextStep, PTL DEF Spec

=============================================================================
