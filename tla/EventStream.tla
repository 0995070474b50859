----------------------------- MODULE EventStream -----------------------------
(***************************************************************************)
(* The stream of events of a run, from the blocks to the exit status:      *)
(*   internal/service/workflow/service.go   the producer goroutine and the *)
(*                                          channel it writes to           *)
(*   internal/engine/runner.go, internal/block/retry, workflow, parallel   *)
(*                                          who announces which step       *)
(*   internal/app/cli/run.go                the consumer, its report, its  *)
(*                                          depth, the loop over workflows *)
(*                                                                         *)
(* A project is a forest of nodes: the workflows run from the command line *)
(* are the roots; below a workflow are its steps and its catch blocks,     *)
(* below a retry or a parallel block what they nest.  Each node is a step  *)
(* that may execute many times, and branches execute at the same time.     *)
(* The channel is unbuffered: an event is sent when the consumer takes it. *)
(* Durations, requests, responses and the rendered text are left out, and  *)
(* so are gotos (Runner has them): the stream tells a step apart from its  *)
(* predecessor only by its index.                                          *)
(***************************************************************************)
EXTENDS Integers, Sequences, FiniteSets, Functions

CONSTANTS
    Projects,       \* the projects to run
    MaxAttempts     \* max_attempts of every retry

Kinds == {"block", "retry", "parallel", "workflow"}

(* A forest of numbered nodes; parent is 0 for a root, ignores is           *)
(* continue_on_error.  A node has a greater number than its parent, which   *)
(* lists it once, among its children or among its handlers.                 *)
WellFormed(p) ==
    LET nodes == DOMAIN p.kind IN
    /\ p.kind \in Seq(Kinds)
    /\ p.children \in [nodes -> Seq(nodes)] /\ p.handlers \in [nodes -> Seq(nodes)]
    /\ p.ignores \subseteq nodes
    /\ p.runs \in Seq(nodes) /\ p.runs # <<>>
    /\ \A n \in nodes :
          /\ p.parent[n] \in 0..n - 1
          /\ {m \in nodes : p.parent[m] = n} = Range(p.children[n]) \cup Range(p.handlers[n])
          /\ Range(p.children[n]) \cap Range(p.handlers[n]) = {}
          /\ IsInjective(p.children[n]) /\ IsInjective(p.handlers[n])
          /\ p.kind[n] = "block" => p.children[n] = <<>>
          /\ p.kind[n] = "retry" => Len(p.children[n]) = 1
          /\ p.kind[n] # "workflow" => p.handlers[n] = <<>>
    /\ \A i \in 1..Len(p.runs) :
          p.parent[p.runs[i]] = 0 /\ p.kind[p.runs[i]] = "workflow"

ASSUME ProjectsAssumption == \A p \in Projects : WellFormed(p)
ASSUME AttemptsAssumption == MaxAttempts \in Nat \ {0}

VARIABLES
    project,    \* never changes
    json,       \* --json; never changes
    run,        \* index of the workflow the CLI is at
    service,    \* the goroutine of RunWorkflow
    phase,      \* of every node
    outcome,    \* of every node: how it ended last
    at,         \* of every node: children finished, or attempts made
    depth,      \* textRenderer.activeWorkflowRun
    failedStep, \* report.failedStep, 0 for nil
    failedRun,  \* report.failedWorkflow is set
    exit,       \* what the process exits with; "no" while it runs
    opened,     \* of every node: starts the consumer has seen, less finishes
    verdicts    \* statuses of the workflow_finished events, in order

vars == <<project, json, run, service, phase, outcome, at, depth, failedStep,
          failedRun, exit, opened, verdicts>>

work == <<phase, outcome, at>>          \* the runner's share of the state
seen == <<opened, verdicts>>            \* what the stream has told so far
report == <<depth, failedStep, failedRun, exit, seen>>  \* the consumer's

Nodes == DOMAIN project.kind
Kind(n) == project.kind[n]
Parent(n) == project.parent[n]
Children(n) == project.children[n]
Handlers(n) == project.handlers[n]
Root == project.runs[run]

(* runWithContext announces the steps of a workflow, retry its attempts;    *)
(* runErrorChain and ExecuteIsolatedStep announce nothing.                  *)
Announced(n) ==
    /\ Parent(n) # 0
    /\ Kind(Parent(n)) \in {"workflow", "retry"}
    /\ n \in Range(Children(Parent(n)))

Outcomes == {"none", "ok", "skipped", "ignored-error", "failed"}

Starts == {"workflow_started", "step_started"}

Event(type, n, status) == [type |-> type, node |-> n, status |-> status]

TypeOK ==
    /\ project \in Projects
    /\ json \in BOOLEAN
    /\ run \in 1..Len(project.runs)
    /\ service \in {"idle", "opening", "running", "closed"}
    /\ phase \in [Nodes -> {"idle", "executing", "handling", "ending", "done"}]
    /\ outcome \in [Nodes -> Outcomes]
    /\ at \in [Nodes -> Nat]
    /\ \A n \in Nodes :
          at[n] <= IF Kind(n) = "retry" THEN MaxAttempts
                   ELSE Len(Children(n)) + Len(Handlers(n))
    /\ depth \in Nat
    /\ failedStep \in {0} \cup Nodes
    /\ failedRun \in BOOLEAN
    /\ exit \in {"no", "ok", "error"}
    /\ opened \in [Nodes -> Int]
    /\ verdicts \in Seq(Outcomes)

Init ==
    /\ project \in Projects
    /\ json \in BOOLEAN
    /\ run = 1
    /\ service = "idle"
    /\ phase = [n \in Nodes |-> "idle"]
    /\ outcome = [n \in Nodes |-> "none"]
    /\ at = [n \in Nodes |-> 0]
    /\ depth = 0
    /\ failedStep = 0
    /\ failedRun = FALSE
    /\ exit = "no"
    /\ opened = [n \in Nodes |-> 0]
    /\ verdicts = <<>>

----------------------------------------------------------------------------
(* The consumer: streamWorkflowWithReport and textRenderer. *)

(* Mutant: a failed workflow step does not bring the depth back. *)
DepthAfterOk(e) ==
    IF json \/ Kind(e.node) # "workflow" THEN depth
    ELSE CASE e.type = "step_started" -> depth + 1
           [] e.type = "step_finished" /\ depth > 0 /\ e.status # "failed" ->
                  depth - 1
           [] OTHER -> depth

(* PrintEvent, which --json does not call. *)
DepthAfter(e) ==
    IF json \/ Kind(e.node) # "workflow" THEN depth
    ELSE CASE e.type = "step_started" -> depth + 1
           [] e.type = "step_finished" /\ depth > 0 -> depth - 1
           [] OTHER -> depth

(* Mutant: the report keeps the first failed step. *)
FailedStepFirst(e) ==
    IF e.type = "step_finished" /\ e.status = "failed" /\ failedStep = 0
      THEN e.node ELSE failedStep

FailedStepAfter(e) ==
    IF e.type = "step_finished" /\ e.status = "failed"
      THEN e.node ELSE failedStep

(* One iteration of the range over events. *)
Consume(e) ==
    /\ opened' = [opened EXCEPT
                     ![e.node] = IF e.type \in Starts THEN @ + 1 ELSE @ - 1]
    /\ verdicts' = IF e.type = "workflow_finished"
                     THEN Append(verdicts, e.status) ELSE verdicts
    /\ depth' = DepthAfter(e)
    /\ failedStep' = FailedStepAfter(e)
    /\ failedRun' = (failedRun \/ (e.type = "workflow_finished" /\ e.status = "failed"))
    /\ UNCHANGED exit

(* printEventJSON fails: the CLI returns, and with it the process.          *)
GiveUp ==
    /\ json
    /\ exit' = "error"
    /\ UNCHANGED <<depth, failedStep, failedRun, seen>>

Send(e) == Consume(e) \/ GiveUp

----------------------------------------------------------------------------
(* The producer. *)

Running == exit = "no" /\ service = "running"

Active(n) == phase[n] \in {"executing", "handling", "ending"}

(* It is n's turn to execute. *)
Turn(n) ==
    LET p == Parent(n) IN
    /\ p # 0
    /\ phase[n] = "idle"
    /\ \/ /\ phase[p] = "executing"
          /\ \/ Kind(p) = "workflow" /\ at[p] < Len(Children(p))
                /\ n = Children(p)[at[p] + 1]
             \/ Kind(p) = "retry" /\ at[p] < MaxAttempts
             \/ Kind(p) = "parallel"
       \/ /\ phase[p] = "handling" /\ at[p] < Len(Handlers(p))
          /\ n = Handlers(p)[at[p] + 1]

(* n starts to execute, with nothing of an earlier execution left. *)
Begin(n) ==
    /\ phase' = [m \in Nodes |-> IF m = n THEN "executing"
                                 ELSE IF Parent(m) = n THEN "idle" ELSE phase[m]]
    /\ at' = [at EXCEPT ![n] = 0]
    /\ UNCHANGED outcome

(* The outcome of n is decided, and not reported yet. *)
End(n, result) ==
    /\ phase' = [phase EXCEPT ![n] = "ending"]
    /\ outcome' = [outcome EXCEPT ![n] = result]

(* n returns no error; its assign block may fail all the same, where it is  *)
(* applied.                                                                 *)
Succeed(n) ==
    \/ End(n, "ok")
    \/ Parent(n) # 0 /\ Kind(Parent(n)) # "parallel" /\ End(n, "failed")

(* Nothing below n is executing or done. *)
Untouched(n) ==
    phase[n] = "executing" /\ \A m \in Nodes : Parent(m) = n => phase[m] = "idle"

Start(n) ==
    /\ Running
    /\ Turn(n)
    /\ Begin(n)
    /\ IF Announced(n) THEN Send(Event("step_started", n, "running"))
                       ELSE UNCHANGED report
    /\ UNCHANGED <<project, json, run, service>>

(* A step that is disabled or whose condition does not match.  What nests   *)
(* one sees no error; a catch block has no condition.                       *)
Skip(n) ==
    /\ Running
    /\ Untouched(n) /\ at[n] = 0
    /\ Parent(n) # 0 /\ n \in Range(Children(Parent(n)))
    /\ End(n, IF Kind(Parent(n)) = "workflow" THEN "skipped" ELSE "ok")
    /\ UNCHANGED <<project, json, run, service, at, report>>

(* A block answers, or a composite one is refused before it executes or,    *)
(* when it is a retry, cancelled while it waits for its next attempt.       *)
Answer(n) ==
    /\ Running
    /\ Untouched(n)
    /\ \/ Kind(n) = "block" /\ End(n, "ok")
       \/ Parent(n) # 0 /\ End(n, "failed")
    /\ UNCHANGED <<project, json, run, service, at, report>>

(* A workflow fails without a failed step: it is refused by                 *)
(* ValidateWorkflow, as a root without steps is by the service, or by       *)
(* findWorkflowDefinition, its goto is cancelled while it waits, or the     *)
(* iteration cap is reached.  No catch block runs.                          *)
CutShort(n) ==
    /\ Running
    /\ phase[n] = "executing"
    /\ Kind(n) = "workflow"
    /\ \A m \in Range(Children(n)) : ~Active(m)
    /\ End(n, "failed")
    /\ UNCHANGED <<project, json, run, service, at, report>>

(* runWithContext comes to the end of the steps, or runErrorChain to the    *)
(* end of the catch blocks.                                                 *)
CompleteWorkflow(n) ==
    /\ Running
    /\ Kind(n) = "workflow"
    /\ \/ phase[n] = "executing" /\ at[n] = Len(Children(n))
          /\ (Children(n) # <<>> \/ Parent(n) # 0)
          /\ Succeed(n)
       \/ phase[n] = "handling" /\ at[n] = Len(Handlers(n))
          /\ End(n, "failed")
    /\ UNCHANGED <<project, json, run, service, at, report>>

(* Mutant: the attempts are not counted. *)
RetryAlways(n) ==
    /\ Running
    /\ Kind(n) = "retry" /\ phase[n] = "executing"
    /\ LET c == Children(n)[1] IN
       /\ phase[c] = "done"
       /\ phase' = [phase EXCEPT ![c] = "executing"]
    /\ at' = [at EXCEPT ![n] = @ + 1]
    /\ UNCHANGED <<project, json, run, service, outcome, report>>

(* retry waits, and goes on to the next attempt: whatever the last one      *)
(* answered, a rule may say so.                                             *)
RetryAgain(n) ==
    /\ Running
    /\ Kind(n) = "retry" /\ phase[n] = "executing"
    /\ at[n] < MaxAttempts
    /\ LET c == Children(n)[1] IN
       /\ phase[c] = "done"
       /\ phase' = [phase EXCEPT ![c] = "idle"]
    /\ UNCHANGED <<project, json, run, service, outcome, at, report>>

(* retry returns the last attempt's outcome, or fails because its answer is *)
(* still retryable.                                                         *)
CompleteRetry(n) ==
    /\ Running
    /\ Kind(n) = "retry" /\ phase[n] = "executing"
    /\ LET c == Children(n)[1] IN
       /\ phase[c] = "done"
       /\ \/ End(n, outcome[c])
          \/ at[n] = MaxAttempts /\ End(n, "failed")
    /\ UNCHANGED <<project, json, run, service, at, report>>

(* The range over outcomes ends when every branch is done. *)
CompleteParallel(n) ==
    /\ Running
    /\ Kind(n) = "parallel" /\ phase[n] = "executing"
    /\ \A c \in Range(Children(n)) : phase[c] = "done"
    /\ IF \E c \in Range(Children(n)) : outcome[c] = "failed"
         THEN End(n, "failed") ELSE Succeed(n)
    /\ UNCHANGED <<project, json, run, service, at, report>>

(* handleIgnoredStepFailure *)
Ignores(n) ==
    /\ Announced(n) /\ Kind(Parent(n)) = "workflow"
    /\ n \in project.ignores
    /\ outcome[n] = "failed"

Status(n) == IF Ignores(n) THEN "ignored-error" ELSE outcome[n]

(* n returns to its parent, which its failure may stop: a failed step sends *)
(* a workflow to its catch blocks, a failed catch block ends it.            *)
Return(n) ==
    LET p == Parent(n)
        fails == Status(n) = "failed" /\ Kind(p) = "workflow"
        handles == fails /\ phase[p] = "executing" /\ Handlers(p) # <<>>
    IN
    /\ phase' = [phase EXCEPT
                    ![n] = "done",
                    ![p] = IF handles THEN "handling"
                           ELSE IF fails THEN "ending" ELSE @]
    /\ outcome' = [outcome EXCEPT ![n] = Status(n),
                                  ![p] = IF fails THEN "failed" ELSE @]
    /\ at' = [at EXCEPT ![p] = IF handles THEN 0 ELSE @ + 1]

Finish(n) ==
    /\ Running
    /\ phase[n] = "ending"
    /\ Parent(n) # 0
    /\ Return(n)
    /\ IF Announced(n) THEN Send(Event("step_finished", n, Status(n)))
                       ELSE UNCHANGED report
    /\ UNCHANGED <<project, json, run, service>>

----------------------------------------------------------------------------
(* The service and the CLI. *)

(* RunWorkflow: the project loads, and the goroutine starts. *)
Open ==
    /\ exit = "no"
    /\ service = "idle"
    /\ service' = "opening"
    /\ UNCHANGED <<project, json, run, work, report>>

(* RunWorkflow returns an error. *)
OpenFails ==
    /\ exit = "no"
    /\ service = "idle"
    /\ exit' = "error"
    /\ UNCHANGED <<project, json, run, service, work, depth, failedStep,
                   failedRun, seen>>

AnnounceRun ==
    /\ exit = "no"
    /\ service = "opening"
    /\ service' = "running"
    /\ Begin(Root)
    /\ Send(Event("workflow_started", Root, "running"))
    /\ UNCHANGED <<project, json, run>>

(* Mutant: the channel is left open. *)
FinishRunOpen ==
    /\ Running
    /\ phase[Root] = "ending"
    /\ phase' = [phase EXCEPT ![Root] = "done"]
    /\ Send(Event("workflow_finished", Root, outcome[Root]))
    /\ UNCHANGED <<project, json, run, service, outcome, at>>

(* emitWorkflowFinished, and close(events). *)
FinishRun ==
    /\ Running
    /\ phase[Root] = "ending"
    /\ phase' = [phase EXCEPT ![Root] = "done"]
    /\ service' = "closed"
    /\ Send(Event("workflow_finished", Root, outcome[Root]))
    /\ UNCHANGED <<project, json, run, outcome, at>>

(* Mutant: a failed workflow does not stop App.Run. *)
NextRunAlways ==
    /\ exit = "no"
    /\ service = "closed"
    /\ IF run < Len(project.runs)
         THEN /\ run' = run + 1 /\ service' = "idle"
              /\ depth' = 0 /\ failedStep' = 0 /\ failedRun' = FALSE
              /\ UNCHANGED exit
         ELSE /\ exit' = IF failedRun THEN "error" ELSE "ok"
              /\ UNCHANGED <<run, service, depth, failedStep, failedRun>>
    /\ UNCHANGED <<project, json, work, seen>>

(* The range over events ends: App.Run goes on to the next workflow, with a *)
(* new report and a new renderer, unless this one failed.                   *)
NextRun ==
    /\ exit = "no"
    /\ service = "closed"
    /\ IF ~failedRun /\ run < Len(project.runs)
         THEN /\ run' = run + 1 /\ service' = "idle"
              /\ depth' = 0 /\ failedStep' = 0 /\ failedRun' = FALSE
              /\ UNCHANGED exit
         ELSE /\ exit' = IF failedRun THEN "error" ELSE "ok"
              /\ UNCHANGED <<run, service, depth, failedStep, failedRun>>
    /\ UNCHANGED <<project, json, work, seen>>

Exited == exit # "no" /\ UNCHANGED vars

Progress ==
    \/ Open \/ OpenFails \/ AnnounceRun \/ FinishRun \/ NextRun
    \/ \E n \in Nodes :
          \/ Start(n) \/ Skip(n) \/ Answer(n) \/ CutShort(n)
          \/ CompleteWorkflow(n) \/ RetryAgain(n) \/ CompleteRetry(n)
          \/ CompleteParallel(n) \/ Finish(n)

Next == Progress \/ Exited

(* Goroutines are scheduled and blocks return. *)
Spec == Init /\ [][Next]_vars /\ WF_vars(Progress)

----------------------------------------------------------------------------
(* The nodes above a node. *)
Above[n \in Nodes] ==
    IF Parent(n) = 0 THEN {} ELSE {Parent(n)} \cup Above[Parent(n)]

(* A step starts only inside the announced steps and the workflow above it, *)
(* when it finishes nothing below it is unfinished, and each of its         *)
(* executions is finished before the next one starts.                       *)
StepsNest ==
    \A n \in Nodes :
        /\ opened[n] \in {0, 1}
        /\ opened[n] = 1 =>
              \A m \in Above[n] : Announced(m) \/ Parent(m) = 0 => opened[m] = 1

(* The renderer indents by the number of announced workflow steps that are  *)
(* in progress, also when several branches open and close them.             *)
DepthIsOpenWorkflows ==
    ~json /\ service \in {"running", "closed"} =>
        depth = Cardinality({n \in Nodes :
                    Announced(n) /\ Kind(n) = "workflow" /\ opened[n] = 1})

(* The stream is bracketed, whatever runs at the same time, and its reader  *)
(* can tell how deep it is.                                                 *)
StreamIsBracketed == StepsNest /\ DepthIsOpenWorkflows

(* The exit status tells how the runs went: no error means that each was    *)
(* run to its end and no step of one failed; after a failed one nothing is  *)
(* run, and an error is either that, or a load or an output that failed.    *)
ExitStatusTellsOutcome ==
    /\ \A i \in 1..Len(verdicts) : verdicts[i] = "ok" \/ i = run
    /\ service = "closed" /\ exit = "no" =>
          /\ Len(verdicts) = run
          /\ verdicts[run] = "ok" =>
                \A n \in Range(Children(Root)) :
                    phase[n] = "done" /\ outcome[n] # "failed"
    /\ exit = "ok" =>
          /\ Len(verdicts) = Len(project.runs)
          /\ verdicts[run] = "ok"

(* The step of the root whose failure failed the run. *)
Failing == {n \in Range(Children(Root)) : phase[n] = "done" /\ outcome[n] = "failed"}

(* What the report holds of a run that a step failed is that step, or       *)
(* something its catch blocks announced after it.                           *)
ReportHoldsFailedStep ==
    service = "closed" /\ exit = "no" /\ Failing # {} =>
        /\ failedRun
        /\ \/ failedStep \in Failing
           \/ \E h \in Range(Handlers(Root)) : h \in Above[failedStep]

(* The process exits, whatever fails on the way. *)
Terminates == <>(exit # "no")

----------------------------------------------------------------------------
(* README.md:125: on failure "WireGoblin sends the failing step context     *)
(* (step type, error, request, response) to the model".  The context is     *)
(* report.failedStep, which what a catch block announces may replace.       *)
FailingStepIsExplained ==
    service = "closed" /\ exit = "no" /\ Failing # {} => failedStep \in Failing

=============================================================================
