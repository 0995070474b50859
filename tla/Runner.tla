------------------------------- MODULE Runner -------------------------------
(***************************************************************************)
(* One run of one workflow by the engine: internal/engine/runner.go,       *)
(* runWithContext, executeStep, handleStepFailure and runErrorChain.       *)
(*                                                                         *)
(* The runner is sequential; its environment is not.  The context can be   *)
(* cancelled (the workflow's timeout, or SIGINT through the CLI) between   *)
(* any two steps of the program, and the block being executed decides its  *)
(* own outcome.  Payloads are abstracted to the values that conditions,    *)
(* assertions and gotos compare; request, response, duration and wording   *)
(* are left out.  RunContext.StepResults is left out too: no code of the   *)
(* repository reads it.                                                    *)
(***************************************************************************)
EXTENDS Naturals, Sequences

CONSTANTS
    Workflows,      \* the workflow definitions, one of which is run
    Ids,            \* block ids, the targets of goto included
    Names,          \* names of runtime variables
    ReadOnly,       \* the names that are also constants or secrets
    Values,         \* values of runtime variables
    Empty,          \* what an unset variable reads as
    MaxIterations   \* maxIterations, 1000 in the code

----------------------------------------------------------------------------
(* Definitions as the repository hands them to the engine (model.Step).    *)

Operators == {"=", "!=", "unsupported"}

(* "nil" is a step without a condition. *)
Conditions ==
    [variable : Names, operator : Operators \cup {"nil"}, expected : Values]

(* What the engine can tell apart about a block type:                      *)
(*   unknown    the registry has no such type, or Validate refuses it      *)
(*   assert, set, goto                                                     *)
(*   call       http, grpc, redis, delay...: the outcome is external       *)
(*   composite  retry, foreach, a postgres transaction: assigns runtime    *)
(*              variables while Execute is still running                   *)
Blocks == {"unknown", "assert", "set", "goto", "call", "composite"}

Steps ==
    [id : Ids, enabled : BOOLEAN, continueOnError : BOOLEAN,
     condition : Conditions, block : Blocks, test : Conditions,
     target : Ids, wait : BOOLEAN,
     assign : SUBSET Names, exports : SUBSET Names, value : Values]

Definitions == [steps : Seq(Steps), onError : Seq(Steps)]

ASSUME WorkflowsAssumption == Workflows \subseteq Definitions
ASSUME NamesAssumption == ReadOnly \subseteq Names /\ Empty \in Values
ASSUME MaxIterationsAssumption == MaxIterations \in Nat \ {0}

----------------------------------------------------------------------------
VARIABLES
    wf,          \* the definition being run; never changes
    pc,          \* where runWithContext and runErrorChain are
    index,       \* index of the loop, from 1
    hindex,      \* index of the range over OnErrorSteps, from 1
    iterations,
    results,     \* the []StepResult under construction
    started,     \* observer.OnStepStart calls: the indices, in order
    finished,    \* observer.OnStepFinish calls: index and status, in order
    store,       \* RunContext.Variables
    errorIndex,  \* the !ErrorBlockIndex built-in; 0 when unset
    runErr,      \* which error the run returns
    ctxDone      \* ctx.Done() is closed

vars == <<wf, pc, index, hindex, iterations, results, started, finished,
          store, errorIndex, runErr, ctxDone>>

PCs == {"loop", "executing", "waiting", "handling", "handlerExecuting", "done"}

MainStatuses == {"ok", "skipped", "failed", "ignored-error"}

HandlerStatuses == {"error-handler-ok", "error-handler-failed"}

RunErrors == {"none", "step", "step+handler", "iterations", "context"}

Result(i, status) == [index |-> i, status |-> status]

Results == [index : Nat \ {0}, status : MainStatuses \cup HandlerStatuses]

TypeOK ==
    /\ wf \in Workflows
    /\ pc \in PCs
    /\ index \in Nat \ {0}
    /\ hindex \in Nat \ {0}
    /\ iterations \in Nat
    /\ results \in Seq(Results)
    /\ started \in Seq(Nat \ {0})
    /\ finished \in Seq(Results)
    /\ store \in [Names -> Values]
    /\ errorIndex \in Nat
    /\ runErr \in RunErrors
    /\ ctxDone \in BOOLEAN

----------------------------------------------------------------------------
(* Conditions and blocks. *)

(* condition.Evaluate returns an error. *)
Unsupported(cond) == cond.operator = "unsupported"

(* condition.Evaluate matches. *)
Matches(cond, st) ==
    \/ cond.operator = "nil"
    \/ cond.operator = "=" /\ st[cond.variable] = cond.expected
    \/ cond.operator = "!=" /\ st[cond.variable] # cond.expected

(* validateStepCapabilities: only call blocks map their response.  Among    *)
(* the composite ones foreach and postgres do and retry does not, so a      *)
(* composite step with an assign stands for the first two.                  *)
SupportsMapping(step) == step.block \in {"call", "composite"}

(* The registry, the capability check or Validate refuses the step. *)
Refused(step) ==
    \/ step.block = "unknown"
    \/ step.assign # {} /\ ~SupportsMapping(step)

(* applyResponseExtractions: what is written is what the assign mappings    *)
(* find in the response; when they find nothing, the block's exports.       *)
Updates(step) ==
    LET found == UNION {[S -> Values] : S \in SUBSET step.assign \ {{}}}
    IN  IF step.block = "set"
          THEN {[n \in step.exports |-> step.value]}
          ELSE IF step.block \in {"call", "composite"}
                 THEN found \cup [step.exports -> Values]
                 ELSE {[n \in {} |-> Empty]}

(* validateRuntimeTarget refuses every write when it refuses one. *)
Writable(update) == DOMAIN update \cap ReadOnly = {}

(* applyRuntimeAssignments *)
Assign(update) ==
    [n \in Names |-> IF n \in DOMAIN update THEN update[n] ELSE store[n]]

(* Whether blk.Execute may return an error, and whether it may not. *)
MayFail(step, st) ==
    CASE step.block \in {"assert", "goto"} ->
             Unsupported(step.test)
             \/ (step.block = "assert" /\ ~Matches(step.test, st))
      [] step.block = "set" -> FALSE
      [] OTHER -> TRUE

MaySucceed(step, st) ==
    step.block \in {"call", "composite"} \/ ~MayFail(step, st)

Jumps(step, st) == step.block = "goto" /\ Matches(step.test, st)

(* buildStepIDIndex: ids are not checked to be unique, the last one wins. *)
Targets(id) == {i \in 1..Len(wf.steps) : wf.steps[i].id = id}

(* Mutants: an index that starts at 0, and the first of a repeated id. *)
JumpTargetFromZero(id) ==
    (CHOOSE i \in Targets(id) : \A j \in Targets(id) : j <= i) - 1

JumpTargetFirst(id) ==
    CHOOSE i \in Targets(id) : \A j \in Targets(id) : i <= j

JumpTarget(id) ==
    CHOOSE i \in Targets(id) : \A j \in Targets(id) : j <= i

Step == wf.steps[index]

Handler == wf.onError[hindex]

----------------------------------------------------------------------------
Init ==
    /\ wf \in Workflows
    /\ pc = "loop"
    /\ index = 1
    /\ hindex = 1
    /\ iterations = 0
    /\ results = <<>>
    /\ started = <<>>
    /\ finished = <<>>
    /\ store = [n \in Names |-> Empty]
    /\ errorIndex = 0
    /\ runErr = "none"
    /\ ctxDone = FALSE

(* The run returns. *)
Return(err) ==
    /\ pc' = "done"
    /\ runErr' = err

(* Mutant: the observer is not told of an ignored error. *)
RecordSilently(status) ==
    /\ finished' = IF status = "ignored-error" THEN finished
                   ELSE Append(finished, Result(index, status))
    /\ results' = Append(results, Result(index, status))

(* OnStepFinish and the append to results, always together. *)
Record(status) ==
    /\ finished' = Append(finished, Result(index, status))
    /\ results' = Append(results, Result(index, status))

(* A step that is not failed: record it and continue at next. *)
Continue(status, next) ==
    /\ Record(status)
    /\ index' = next
    /\ pc' = "loop"
    /\ UNCHANGED <<hindex, errorIndex, runErr>>

(* Mutant: no break after handleStepFailure. *)
FailWithoutBreak(step) ==
    \/ /\ step.continueOnError
       /\ Continue("ignored-error", index + 1)
    \/ /\ ~step.continueOnError
       /\ Record("failed")
       /\ errorIndex' = index
       /\ runErr' = "step"
       /\ pc' = "loop"
       /\ index' = index + 1
       /\ UNCHANGED hindex

(* Mutant: the error built-ins are set before continue_on_error is looked at. *)
FailWithBuiltins(step) ==
    \/ /\ step.continueOnError
       /\ Record("ignored-error")
       /\ errorIndex' = index
       /\ index' = index + 1
       /\ pc' = "loop"
       /\ UNCHANGED <<hindex, runErr>>
    \/ /\ ~step.continueOnError
       /\ Record("failed")
       /\ errorIndex' = index
       /\ runErr' = "step"
       /\ pc' = IF wf.onError = <<>> THEN "done" ELSE "handling"
       /\ UNCHANGED <<index, hindex>>

(* handleIgnoredStepFailure, or handleStepFailure up to the range over     *)
(* OnErrorSteps in runErrorChain.                                          *)
Fail(step) ==
    \/ /\ step.continueOnError
       /\ Continue("ignored-error", index + 1)
    \/ /\ ~step.continueOnError
       /\ Record("failed")
       /\ errorIndex' = index
       /\ runErr' = "step"
       /\ pc' = IF wf.onError = <<>> THEN "done" ELSE "handling"
       /\ UNCHANGED <<index, hindex>>

(* As Fail, where the failure is never ignored: a goto without its target. *)
FailAlways(step) == Fail([step EXCEPT !.continueOnError = FALSE])

(* The head of the loop: the next iteration is within the cap. *)
EnterStep ==
    /\ pc = "loop"
    /\ index <= Len(wf.steps)
    /\ iterations < MaxIterations
    /\ iterations' = iterations + 1
    /\ started' = Append(started, index)

(* Mutant: the loop stops one step early. *)
CompleteEarly ==
    /\ pc = "loop"
    /\ index >= Len(wf.steps)
    /\ Return("none")
    /\ UNCHANGED <<wf, index, hindex, iterations, results, started, finished,
                   store, errorIndex, ctxDone>>

(* The loop condition is false. *)
Complete ==
    /\ pc = "loop"
    /\ index > Len(wf.steps)
    /\ Return("none")
    /\ UNCHANGED <<wf, index, hindex, iterations, results, started, finished,
                   store, errorIndex, ctxDone>>

ExceedIterations ==
    /\ pc = "loop"
    /\ index <= Len(wf.steps)
    /\ iterations >= MaxIterations
    /\ iterations' = iterations + 1
    /\ Return("iterations")
    /\ UNCHANGED <<wf, index, hindex, results, started, finished, store,
                   errorIndex, ctxDone>>

(* The step is disabled, or evaluateStepCondition says it does not match. *)
SkipStep ==
    /\ EnterStep
    /\ \/ ~Step.enabled
       \/ ~Unsupported(Step.condition) /\ ~Matches(Step.condition, store)
    /\ Continue("skipped", index + 1)
    /\ UNCHANGED <<wf, store, ctxDone>>

(* executeStep returns an error before it calls Execute. *)
RejectStep ==
    /\ EnterStep
    /\ Step.enabled
    /\ \/ Unsupported(Step.condition)
       \/ Matches(Step.condition, store) /\ Refused(Step)
    /\ Fail(Step)
    /\ UNCHANGED <<wf, store, ctxDone>>

BeginExecute ==
    /\ EnterStep
    /\ Step.enabled
    /\ Matches(Step.condition, store)
    /\ ~Refused(Step)
    /\ pc' = "executing"
    /\ UNCHANGED <<wf, index, hindex, results, finished, store, errorIndex,
                   runErr, ctxDone>>

(* A composite block's own assignments, during Execute (ExecuteStep with    *)
(* applyAssignments, or a statement of a transaction).  They stay when the  *)
(* block fails later.  A refused one makes the block fail.                  *)
AssignInside ==
    /\ \/ pc = "executing" /\ Step.block = "composite"
       \/ pc = "handlerExecuting" /\ Handler.block = "composite"
    /\ \E update \in Updates(IF pc = "executing" THEN Step ELSE Handler) :
          /\ Writable(update)
          /\ store' = Assign(update)
    /\ UNCHANGED <<wf, pc, index, hindex, iterations, results, started,
                   finished, errorIndex, runErr, ctxDone>>

(* Mutant: assignments are written one by one until one is refused. *)
ExecuteFailsHalfway ==
    /\ pc = "executing"
    /\ \E update \in Updates(Step) :
          /\ ~Writable(update)
          /\ store' = Assign([n \in DOMAIN update \ ReadOnly |-> update[n]])
    /\ Fail(Step)
    /\ UNCHANGED <<wf, iterations, started, ctxDone>>

(* Execute returns an error, or the extraction of its response is refused. *)
ExecuteFails ==
    /\ pc = "executing"
    /\ \/ MayFail(Step, store)
       \/ /\ MaySucceed(Step, store)
          /\ \E update \in Updates(Step) : ~Writable(update)
    /\ Fail(Step)
    /\ UNCHANGED <<wf, iterations, started, store, ctxDone>>

ExecuteSucceeds ==
    /\ pc = "executing"
    /\ MaySucceed(Step, store)
    /\ ~Jumps(Step, store)
    /\ \E update \in Updates(Step) :
          /\ Writable(update)
          /\ store' = Assign(update)
    /\ Continue("ok", index + 1)
    /\ UNCHANGED <<wf, iterations, started, ctxDone>>

(* result.Jump names no step. *)
JumpNowhere ==
    /\ pc = "executing"
    /\ Jumps(Step, store)
    /\ Targets(Step.target) = {}
    /\ FailAlways(Step)
    /\ UNCHANGED <<wf, iterations, started, store, ctxDone>>

(* result.Jump without wait_seconds. *)
JumpNow ==
    /\ pc = "executing"
    /\ Jumps(Step, store)
    /\ Targets(Step.target) # {}
    /\ ~Step.wait
    /\ Continue("ok", JumpTarget(Step.target))
    /\ UNCHANGED <<wf, iterations, started, store, ctxDone>>

(* result.Jump with wait_seconds: recorded before the wait. *)
JumpAndWait ==
    /\ pc = "executing"
    /\ Jumps(Step, store)
    /\ Targets(Step.target) # {}
    /\ Step.wait
    /\ Record("ok")
    /\ pc' = "waiting"
    /\ UNCHANGED <<wf, index, hindex, iterations, started, store, errorIndex,
                   runErr, ctxDone>>

(* Mutant: the wait is ended by the context only. *)
WaitElapsesNever ==
    /\ pc = "waiting"
    /\ FALSE
    /\ UNCHANGED vars

(* case <-timer.C; select may take it even when ctx.Done is ready too. *)
WaitElapses ==
    /\ pc = "waiting"
    /\ index' = JumpTarget(Step.target)
    /\ pc' = "loop"
    /\ UNCHANGED <<wf, hindex, iterations, results, started, finished, store,
                   errorIndex, runErr, ctxDone>>

(* case <-ctx.Done(): return results, ctx.Err() *)
WaitCancelled ==
    /\ pc = "waiting"
    /\ ctxDone
    /\ Return("context")
    /\ UNCHANGED <<wf, index, hindex, iterations, results, started, finished,
                   store, errorIndex, ctxDone>>

----------------------------------------------------------------------------
(* runErrorChain.  It looks at no enabled, condition or continue_on_error,  *)
(* ignores jumps and tells the observer nothing.                            *)

(* Mutant: a failed handler does not stop the chain. *)
HandlerFailsAndNext ==
    /\ results' = Append(results, Result(hindex, "error-handler-failed"))
    /\ runErr' = "step+handler"
    /\ hindex' = hindex + 1
    /\ pc' = IF hindex = Len(wf.onError) THEN "done" ELSE "handling"

HandlerFails ==
    /\ results' = Append(results, Result(hindex, "error-handler-failed"))
    /\ Return("step+handler")
    /\ UNCHANGED hindex

RejectHandler ==
    /\ pc = "handling"
    /\ Refused(Handler)
    /\ HandlerFails
    /\ UNCHANGED <<wf, index, iterations, started, finished, store,
                   errorIndex, ctxDone>>

BeginHandler ==
    /\ pc = "handling"
    /\ ~Refused(Handler)
    /\ pc' = "handlerExecuting"
    /\ UNCHANGED <<wf, index, hindex, iterations, results, started, finished,
                   store, errorIndex, runErr, ctxDone>>

HandlerExecuteFails ==
    /\ pc = "handlerExecuting"
    /\ \/ MayFail(Handler, store)
       \/ /\ MaySucceed(Handler, store)
          /\ \E update \in Updates(Handler) : ~Writable(update)
    /\ HandlerFails
    /\ UNCHANGED <<wf, index, iterations, started, finished, store,
                   errorIndex, ctxDone>>

HandlerSucceeds ==
    /\ pc = "handlerExecuting"
    /\ MaySucceed(Handler, store)
    /\ \E update \in Updates(Handler) :
          /\ Writable(update)
          /\ store' = Assign(update)
    /\ results' = Append(results, Result(hindex, "error-handler-ok"))
    /\ hindex' = hindex + 1
    /\ pc' = IF hindex = Len(wf.onError) THEN "done" ELSE "handling"
    /\ UNCHANGED <<wf, index, iterations, started, finished, errorIndex,
                   runErr, ctxDone>>

----------------------------------------------------------------------------
(* The workflow's deadline passes, or the process gets SIGINT or SIGTERM. *)
Cancel ==
    /\ pc # "done"
    /\ ~ctxDone
    /\ ctxDone' = TRUE
    /\ UNCHANGED <<wf, pc, index, hindex, iterations, results, started,
                   finished, store, errorIndex, runErr>>

(* The run has returned. *)
Terminated == pc = "done" /\ UNCHANGED vars

(* Every step of the runner that moves it on. *)
Progress ==
    \/ Complete \/ ExceedIterations
    \/ SkipStep \/ RejectStep \/ BeginExecute
    \/ ExecuteFails \/ ExecuteSucceeds
    \/ JumpNowhere \/ JumpNow \/ JumpAndWait \/ WaitElapses \/ WaitCancelled
    \/ RejectHandler \/ BeginHandler \/ HandlerExecuteFails \/ HandlerSucceeds

Next == Progress \/ AssignInside \/ Cancel \/ Terminated

(* The runner's goroutine is scheduled, and every Execute returns.         *)
Spec == Init /\ [][Next]_vars /\ WF_vars(Progress)

----------------------------------------------------------------------------
(* Properties.  The main results are those of the steps, in the order the   *)
(* loop visited them; the handler results those of catch_error_blocks.      *)

LastFinished == finished[Len(finished)]

(* What an observer is told and what the run returns agree: each step that  *)
(* was announced is finished once, under the index it was announced with    *)
(* and with the status its result has, before the next is announced, and    *)
(* the results of the steps come before those of the handlers.  The CLI's   *)
(* counters and the parent workflow's "steps" output rely on it.            *)
ObserverMirrorsResults ==
    /\ Len(started) = Len(finished) + (IF pc = "executing" THEN 1 ELSE 0)
    /\ pc = "executing" => started[Len(started)] = index
    /\ Len(finished) <= Len(results)
    /\ \A k \in 1..Len(finished) :
          /\ finished[k] = results[k]
          /\ finished[k].index = started[k]
          /\ finished[k].status \in MainStatuses
    /\ \A k \in Len(finished) + 1 .. Len(results) :
          results[k].status \in HandlerStatuses

(* Only the last step can have failed: nothing is announced or executed     *)
(* after a failure that continue_on_error does not ignore.                  *)
NothingAfterFailure ==
    /\ \A k \in 1..Len(finished) - 1 : finished[k].status # "failed"
    /\ finished # <<>> /\ LastFinished.status = "failed" =>
          pc \in {"handling", "handlerExecuting", "done"}

(* The catch chain runs only after a failed step, its handlers one by one   *)
(* in their order, up to the first that fails; an error of the run says     *)
(* whether one did.                                                         *)
CatchChain ==
    LET handled == Len(results) - Len(finished) IN
    /\ handled > 0 => finished # <<>> /\ LastFinished.status = "failed"
    /\ \A k \in 1..handled :
          /\ results[Len(finished) + k].index = k
          /\ results[Len(finished) + k].status = "error-handler-failed" =>
                k = handled /\ pc = "done" /\ runErr = "step+handler"
    /\ pc \in {"handling", "handlerExecuting"} =>
          handled = hindex - 1 /\ hindex <= Len(wf.onError)
    /\ runErr = "step" /\ pc = "done" => handled = Len(wf.onError)
    /\ runErr = "step+handler" =>
          handled > 0 /\ results[Len(results)].status = "error-handler-failed"

(* While handlers run, and after, the !Error built-ins name the step that   *)
(* failed the run: not a handler that failed on the way, and not a step     *)
(* whose failure continue_on_error ignored.                                 *)
ErrorBuiltinsNameFailedStep ==
    errorIndex = IF finished # <<>> /\ LastFinished.status = "failed"
                   THEN LastFinished.index ELSE 0

(* Consecutive steps are neighbours in the definition, unless the first is  *)
(* a goto that succeeded and the second the last step that has its target's *)
(* id.                                                                      *)
ControlPath ==
    /\ started # <<>> => started[1] = 1
    /\ \A k \in 1..Len(started) - 1 :
          \/ started[k + 1] = started[k] + 1
          \/ LET from == wf.steps[started[k]] IN
             /\ from.block = "goto"
             /\ finished[k].status = "ok"
             /\ started[k + 1] \in Targets(from.target)
             /\ \A i \in Targets(from.target) : i <= started[k + 1]

(* A run that returns no error has gone off the end of the definition with  *)
(* no failed step; one that returns a step's error has a failed step; and    *)
(* one stopped by the cap has executed exactly MaxIterations steps, however  *)
(* its gotos loop.                                                          *)
OutcomeExplained ==
    pc = "done" =>
        /\ runErr = "none" =>
              /\ \A k \in 1..Len(finished) : finished[k].status # "failed"
              /\ wf.steps # <<>> => /\ finished # <<>>
                                    /\ LastFinished.index = Len(wf.steps)
        /\ runErr \in {"step", "step+handler"} =>
              finished # <<>> /\ LastFinished.status = "failed"
        /\ runErr = "iterations" => Len(started) = MaxIterations
        /\ runErr = "context" =>
              /\ ctxDone
              /\ wf.steps[LastFinished.index].wait

(* Runtime variables change only when a step or a handler is recorded as    *)
(* having succeeded, or inside a composite block: a failed step leaves no   *)
(* part of its assignments behind.                                          *)
FailedStepsAssignNothing ==
    [][store' # store =>
          \/ /\ Len(results') = Len(results) + 1
             /\ results'[Len(results')].status \in {"ok", "error-handler-ok"}
          \/ /\ UNCHANGED <<pc, results>>
             /\ \/ pc = "executing" /\ Step.block = "composite"
                \/ pc = "handlerExecuting" /\ Handler.block = "composite"]_vars

(* Whatever the gotos of the definition do, the run returns.                *)
Terminates == <>(pc = "done")

=============================================================================
