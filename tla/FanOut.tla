------------------------------- MODULE FanOut -------------------------------
(***************************************************************************)
(* The two blocks that run nested blocks concurrently:                     *)
(*   foreach with concurrency > 1   internal/block/foreach/block.go,       *)
(*                                  executeConcurrent                      *)
(*   parallel                       internal/block/parallel/block.go,      *)
(*                                  Execute                                *)
(* Goroutines: the workers, foreach's dispatcher, the closer that waits    *)
(* for the WaitGroup, and the caller, which collects.  A foreach worker    *)
(* ranges over the unbuffered channel tasks; parallel has one goroutine    *)
(* per branch, with its branch in hand from the start.  Items and branches *)
(* are numbered from 1, and both are called tasks.  What a nested block    *)
(* answers is external.                                                    *)
(***************************************************************************)
EXTENDS Integers, Sequences, FiniteSets

CONSTANTS
    MaxTasks,        \* most items or branches of a block
    MaxConcurrency   \* highest concurrency of a foreach

ASSUME BoundsAssumption ==
    MaxTasks \in Nat \ {0} /\ MaxConcurrency \in Nat \ {0, 1}

VARIABLES
    block,          \* [kind, total, concurrency]; never changes
    next,           \* dispatcher: the task it sends next
    tasksClosed,    \* the dispatcher has returned: close(tasks)
    worker,         \* of every worker: "idle", "executing" or "exited"
    task,           \* of every worker: the task in hand
    context,        \* of every worker: the RunContext it executes in
    owner,          \* of every RunContext: the task whose builtins it holds
    outcomes,       \* the buffered channel outcomes
    outcomesClosed,
    answered,       \* history: what the nested block answered for each task
    ordered,        \* collector: the answer of every task, by index
    failed,         \* collector: how many outcomes had an error
    firstErr,       \* collector: the task whose error is reported, or 0
    collected,      \* the array that a foreach with a collect returns
    pc,             \* of the caller
    ctxDone

vars == <<block, next, tasksClosed, worker, task, context, owner, outcomes,
          outcomesClosed, answered, ordered, failed, firstErr, collected, pc,
          ctxDone>>

Total == block.total

Tasks == 1..Total

(* min(total, concurrency) workers, or one goroutine per branch. *)
WorkerCount ==
    IF block.kind = "parallel" \/ Total < block.concurrency
      THEN Total ELSE block.concurrency

Workers == 1..WorkerCount

(* The block's own RunContext is 0; worker w's latest clone is w. *)
Contexts == 0..WorkerCount

Answers == {"ok", "err"}

(* A foreach of concurrency 1 is executed by executeSequential. *)
Blocks ==
    [kind : {"foreach"}, total : 1..MaxTasks, concurrency : 2..MaxConcurrency]
    \cup [kind : {"parallel"}, total : 1..MaxTasks, concurrency : {2}]

TypeOK ==
    /\ block \in Blocks
    /\ next \in 1..Total + 1
    /\ tasksClosed \in BOOLEAN
    /\ worker \in [Workers -> {"idle", "executing", "exited"}]
    /\ task \in [Workers -> 0..Total]
    /\ context \in [Workers -> Contexts]
    /\ owner \in [Contexts -> 0..Total]
    /\ outcomes \in Seq([task : Tasks, answer : Answers])
    /\ outcomesClosed \in BOOLEAN
    /\ answered \in [Tasks -> Answers \cup {"missing"}]
    /\ ordered \in [Tasks -> Answers \cup {"missing"}]
    /\ failed \in 0..Total
    /\ firstErr \in 0..Total
    /\ collected \in Seq(Answers \cup {"nil"})
    /\ pc \in {"collecting", "returned"}
    /\ ctxDone \in BOOLEAN

Init ==
    /\ block \in Blocks
    /\ next = IF block.kind = "foreach" THEN 1 ELSE Total + 1
    /\ tasksClosed = (block.kind = "parallel")
    /\ worker = [w \in Workers |-> "idle"]
    /\ task = [w \in Workers |-> IF block.kind = "parallel" THEN w ELSE 0]
    /\ context = [w \in Workers |-> 0]
    /\ owner = [c \in Contexts |-> 0]
    /\ outcomes = <<>>
    /\ outcomesClosed = FALSE
    /\ answered = [t \in Tasks |-> "missing"]
    /\ ordered = [t \in Tasks |-> "missing"]
    /\ failed = 0
    /\ firstErr = 0
    /\ collected = <<>>
    /\ pc = "collecting"
    /\ ctxDone = FALSE

(* Mutant: the nested block executes in the block's own RunContext. *)
ExecuteShared(w, t) ==
    /\ worker' = [worker EXCEPT ![w] = "executing"]
    /\ task' = [task EXCEPT ![w] = t]
    /\ context' = [context EXCEPT ![w] = 0]
    /\ owner' = [owner EXCEPT ![0] = t]

(* CloneRunContext and setLoopBuiltins, then ExecuteIsolatedStep in the     *)
(* clone.                                                                   *)
Execute(w, t) ==
    /\ worker' = [worker EXCEPT ![w] = "executing"]
    /\ task' = [task EXCEPT ![w] = t]
    /\ context' = [context EXCEPT ![w] = w]
    /\ owner' = [owner EXCEPT ![w] = t]

(* Mutant: the dispatcher runs off the end of the items. *)
DispatchPastEnd(w) ==
    /\ block.kind = "foreach"
    /\ ~tasksClosed
    /\ worker[w] = "idle"
    /\ Execute(w, next)
    /\ next' = next + 1
    /\ UNCHANGED <<block, tasksClosed, outcomes, outcomesClosed, answered,
                   ordered, failed, firstErr, collected, pc, ctxDone>>

(* The dispatcher's send meets worker w's receive. *)
Dispatch(w) ==
    /\ block.kind = "foreach"
    /\ ~tasksClosed
    /\ next <= Total
    /\ worker[w] = "idle"
    /\ Execute(w, next)
    /\ next' = next + 1
    /\ UNCHANGED <<block, tasksClosed, outcomes, outcomesClosed, answered,
                   ordered, failed, firstErr, collected, pc, ctxDone>>

(* The goroutine of a branch begins. *)
StartBranch(w) ==
    /\ block.kind = "parallel"
    /\ worker[w] = "idle"
    /\ Execute(w, task[w])
    /\ UNCHANGED <<block, next, tasksClosed, outcomes, outcomesClosed, answered,
                   ordered, failed, firstErr, collected, pc, ctxDone>>

(* The dispatcher has sent every item, or takes case <-ctx.Done(); select   *)
(* may prefer a ready worker to it any number of times.                     *)
CloseTasks ==
    /\ ~tasksClosed
    /\ next > Total \/ ctxDone
    /\ tasksClosed' = TRUE
    /\ UNCHANGED <<block, next, worker, task, context, owner, outcomes,
                   outcomesClosed, answered, ordered, failed, firstErr,
                   collected, pc, ctxDone>>

(* The nested block returns, and the outcome goes into the channel, whose   *)
(* capacity is the number of tasks.                                         *)
Finish(w) ==
    /\ worker[w] = "executing"
    /\ Len(outcomes) < Total
    /\ \E answer \in Answers :
          /\ outcomes' = Append(outcomes, [task |-> task[w], answer |-> answer])
          /\ answered' = [answered EXCEPT ![task[w]] = answer]
    /\ worker' = [worker EXCEPT
                     ![w] = IF block.kind = "parallel" THEN "exited" ELSE "idle"]
    /\ UNCHANGED <<block, next, tasksClosed, task, context, owner,
                   outcomesClosed, ordered, failed, firstErr, collected, pc,
                   ctxDone>>

(* The range over tasks ends; wg.Done. *)
ExitWorker(w) ==
    /\ block.kind = "foreach"
    /\ tasksClosed
    /\ worker[w] = "idle"
    /\ worker' = [worker EXCEPT ![w] = "exited"]
    /\ UNCHANGED <<block, next, tasksClosed, task, context, owner, outcomes,
                   outcomesClosed, answered, ordered, failed, firstErr,
                   collected, pc, ctxDone>>

(* Mutant: wg.Add is called by the worker once it has a task. *)
CloseOutcomesEarly ==
    /\ ~outcomesClosed
    /\ \A w \in Workers : worker[w] # "executing"
    /\ outcomesClosed' = TRUE
    /\ UNCHANGED <<block, next, tasksClosed, worker, task, context, owner,
                   outcomes, answered, ordered, failed, firstErr, collected, pc,
                   ctxDone>>

(* wg.Wait returns; close(outcomes). *)
CloseOutcomes ==
    /\ ~outcomesClosed
    /\ \A w \in Workers : worker[w] = "exited"
    /\ outcomesClosed' = TRUE
    /\ UNCHANGED <<block, next, tasksClosed, worker, task, context, owner,
                   outcomes, answered, ordered, failed, firstErr, collected, pc,
                   ctxDone>>

(* Mutant: answers are placed in the order they arrive.                     *)
CollectByArrival ==
    /\ pc = "collecting"
    /\ outcomes # <<>>
    /\ LET o == Head(outcomes)
           position == 1 + Cardinality({t \in Tasks : ordered[t] # "missing"})
       IN
       /\ ordered' = [ordered EXCEPT ![position] = o.answer]
       /\ failed' = IF o.answer = "err" THEN failed + 1 ELSE failed
       /\ firstErr' = IF o.answer = "err" /\ firstErr = 0 THEN o.task ELSE firstErr
    /\ outcomes' = Tail(outcomes)
    /\ UNCHANGED <<block, next, tasksClosed, worker, task, context, owner,
                   outcomesClosed, answered, collected, pc, ctxDone>>

(* One iteration of the range over outcomes. *)
Collect ==
    /\ pc = "collecting"
    /\ outcomes # <<>>
    /\ LET o == Head(outcomes) IN
       /\ ordered' = [ordered EXCEPT ![o.task] = o.answer]
       /\ failed' = IF o.answer = "err" THEN failed + 1 ELSE failed
       /\ firstErr' = IF o.answer = "err" /\ firstErr = 0 THEN o.task ELSE firstErr
    /\ outcomes' = Tail(outcomes)
    /\ UNCHANGED <<block, next, tasksClosed, worker, task, context, owner,
                   outcomesClosed, answered, collected, pc, ctxDone>>

(* Mutant: an item that has no result is left out of the collected array.   *)
ReturnPresent ==
    /\ pc = "collecting"
    /\ outcomesClosed
    /\ outcomes = <<>>
    /\ collected' = IF block.kind = "foreach"
                      THEN SelectSeq(ordered, LAMBDA answer : answer # "missing")
                      ELSE <<>>
    /\ pc' = "returned"
    /\ UNCHANGED <<block, next, tasksClosed, worker, task, context, owner,
                   outcomes, outcomesClosed, answered, ordered, failed, firstErr,
                   ctxDone>>

(* What a collect of a foreach reads of each result, at a path that every   *)
(* answer has; the result of an item that was not run is nil.               *)
Values(answers) ==
    [t \in DOMAIN answers |->
        IF answers[t] = "missing" THEN "nil" ELSE answers[t]]

(* The range over outcomes ends.  A foreach reads its collected arrays out  *)
(* of ordered.  Success when failed is 0, the first error and the count     *)
(* otherwise.                                                               *)
Return ==
    /\ pc = "collecting"
    /\ outcomesClosed
    /\ outcomes = <<>>
    /\ collected' = IF block.kind = "foreach" THEN Values(ordered) ELSE <<>>
    /\ pc' = "returned"
    /\ UNCHANGED <<block, next, tasksClosed, worker, task, context, owner,
                   outcomes, outcomesClosed, answered, ordered, failed, firstErr,
                   ctxDone>>

Cancel ==
    /\ pc # "returned"
    /\ ~ctxDone
    /\ ctxDone' = TRUE
    /\ UNCHANGED <<block, next, tasksClosed, worker, task, context, owner,
                   outcomes, outcomesClosed, answered, ordered, failed, firstErr,
                   collected, pc>>

Terminated == pc = "returned" /\ UNCHANGED vars

Progress ==
    \/ CloseTasks \/ CloseOutcomes \/ Collect \/ Return
    \/ \E w \in Workers :
          Dispatch(w) \/ StartBranch(w) \/ Finish(w) \/ ExitWorker(w)

Next == Progress \/ Cancel \/ Terminated

(* Goroutines are scheduled and nested blocks return.  Every behaviour of   *)
(* Progress is finite, so that its weak fairness is all that is needed.     *)
Spec == Init /\ [][Next]_vars /\ WF_vars(Progress)

----------------------------------------------------------------------------
(* Sending on a closed channel panics, and a send on a full one blocks:     *)
(* outcomes is closed only when no worker can send any more, and its        *)
(* capacity is enough for whatever is still to be sent.                     *)
SendsAreSafe ==
    LET executing == {w \in Workers : worker[w] = "executing"} IN
    /\ outcomesClosed => executing = {}
    /\ Len(outcomes) + Cardinality(executing) <= Total
    /\ block.kind = "foreach" /\ next <= Total /\ ~tasksClosed => ~outcomesClosed

(* When the block returns, none of its goroutines is left to run: a later   *)
(* step of the workflow never meets one of them.                            *)
NothingLeftRunning ==
    pc = "returned" =>
        /\ tasksClosed /\ outcomesClosed
        /\ \A w \in Workers : worker[w] = "exited"

(* The channels are closed by the right goroutine at the right time: after  *)
(* the last send, and before the block returns.                             *)
ChannelsCloseInTime == SendsAreSafe /\ NothingLeftRunning

(* No two tasks share a RunContext: what a nested block reads as the loop's *)
(* built-ins is its own item, however many others start meanwhile, and the  *)
(* block's own RunContext is left alone.                                    *)
OwnContext ==
    /\ owner[0] = 0
    /\ \A w \in Workers :
          worker[w] = "executing" => owner[context[w]] = task[w]

(* What is reported is what the nested blocks answered, in whatever order   *)
(* their outcomes arrive: the error count is that of the tasks that failed, *)
(* the error quoted is that of one of them, and each position of results    *)
(* holds what its own task answered.  When the block returns, every task    *)
(* that was started is in the report, and the collected array of a foreach  *)
(* has an element for every item, in input order: what was answered for it, *)
(* or nil when it was not run.                                              *)
ReportTellsOutcomes ==
    /\ \A t \in Tasks : ordered[t] \in {"missing", answered[t]}
    /\ failed = Cardinality({t \in Tasks : ordered[t] = "err"})
    /\ firstErr = 0 <=> failed = 0
    /\ firstErr # 0 => answered[firstErr] = "err"
    /\ pc = "returned" =>
          /\ ordered = answered
          /\ \A t \in Tasks : t < next <=> answered[t] # "missing"
          /\ block.kind = "foreach" =>
                /\ Len(collected) = Total
                /\ \A t \in Tasks :
                      collected[t] = IF t < next THEN answered[t] ELSE "nil"

(* The block implements Jobs. *)
InFlight(t) == {k \in 1..Len(outcomes) : outcomes[k].task = t}

Status(t) ==
    LET answer == IF InFlight(t) # {}
                    THEN outcomes[CHOOSE k \in InFlight(t) : TRUE].answer
                    ELSE ordered[t]
    IN  CASE answer = "ok" -> "ok"
          [] answer = "err" -> "failed"
          [] \E w \in Workers : worker[w] = "executing" /\ task[w] = t -> "running"
          [] OTHER -> "pending"

Promise == INSTANCE Jobs WITH
    limit <- WorkerCount,
    drops <- block.kind = "foreach",
    status <- [t \in Tasks |-> Status(t)],
    cancelled <- ctxDone,
    failures <- IF pc = "returned" THEN failed ELSE -1

(* Every behaviour of the goroutines and channels is one of Jobs, whose     *)
(* fairness makes the block report and return whatever is cancelled.        *)
ImplementsJobs == Promise!Spec

(* foreach/block.go:67: "Execute runs one nested block for each item in the *)
(* configured array": success means that every item has been run.           *)
SuccessRunsEveryItem ==
    pc = "returned" /\ failed = 0 => \A t \in Tasks : ordered[t] # "missing"

=============================================================================
