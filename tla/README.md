# WireGoblin in TLA+

WireGoblin executes workflows: lists of steps, each handled by a block (an HTTP
request, a SQL statement, an assertion, a jump, a retry of another block...),
described in a YAML project file and run from the command line. This directory
holds TLA+ specifications of the program, the TLC configurations that check
them, and machine-checked proofs. Paths below are relative to `internal/` unless
they begin with `docs/`, `cmd/` or `README.md`, which are the repository's.

## Inventory

### Workflow engine

| Component | State | Operations | Hard behaviour | What makes it correct |
|---|---|---|---|---|
| Runner, `engine/runner.go` | loop index, iteration counter, results, `RunContext` | run a definition, execute a step, handle a failure, run the catch chain, execute a nested workflow | jumps, cancellation between any two statements, ignored failures, partial assignments | results, events and control flow agree; a failure stops the loop; the built-ins name the failed step; a run ends |
| `RunContext`, `engine/context.go`, `block/contract.go`, `block/helpers.go` | variables, constants, secrets, built-ins, step results, callbacks into the runner | clone, rebind executors, assign | shared by sequential nesting, cloned for concurrent nesting | no two concurrent blocks share one |
| References, `block/references.go` | none | replace `$name`, `@name`, `!name`, `{{...}}` in a configuration | early against late binding in nested blocks | a nested block reads the values of its own iteration |
| Conditions, `condition/compare.go` | none | compare under an operator | numeric or textual comparison | one meaning in conditions, asserts, gotos and retry rules |
| Registry, `engine/registry.go` | map of blocks | register, get, close | close while steps run | an unknown type fails its step only |

### Blocks that run other blocks

| Component | State | Operations | Hard behaviour | What makes it correct |
|---|---|---|---|---|
| Retry, `block/retry` | attempt, history, last result and error, attempt built-ins | attempt, judge, wait, return | rules that retry an answer without an error; cancelled waits; five ways out | history tells the attempts; the verdict follows the last one; built-ins are cleared; it ends |
| Foreach, `block/foreach` | item, loop built-ins, outcomes, collected arrays | one item after another, or a dispatcher, workers, a closer and a collector on two channels | cancellation against dispatch, close against send, outcomes out of order | each item at most once, in its own context, reported in its own place; nothing runs on afterwards |
| Parallel, `block/parallel` | branches, outcomes | a goroutine per branch | as above | as above |
| Workflow, `block/workflow` | none | call a sibling workflow | unbounded recursion, built-ins of the parent, events of both runs in one stream | exports reach the caller, nothing else does |

### Blocks that talk to something

| Component | State | Hard behaviour | What makes it correct |
|---|---|---|---|
| Postgres, `block/postgres` | pools by DSN, a transaction | a statement fails after others have assigned variables; the answer to a commit is lost; two steps open the same pool | what is reported is what the server keeps; a statement sees its own transaction; one pool for each DSN |
| IMAP, `block/imap` | a session, flags of messages | reading a mail marks it as seen; a command fails after others were applied; EXPUNGE reaches the whole mailbox; polling against its deadline and the context | the answer is what the mailbox held; only what was taken or flagged before disappears; polling ends |
| SMTP, `block/smtp` | a session | failure after the message was accepted | a mail is sent twice only after an answer was lost |
| Container, `block/container` | a child process, two deadlines | which deadline passed | the right one is reported |
| HTTP and signing, gRPC, Redis, OpenAI, Slack, Telegram | one request each | external outcome | an error fails the step |
| Assert, goto, set, delay, log, transform | none | goto jumps, set assigns | part of the runner's control |

### Around the engine

| Component | State | Hard behaviour | What makes it correct |
|---|---|---|---|
| Event stream, `service/workflow/service.go` | an unbuffered channel and its producer goroutine | a consumer that stops reading; attempts and nested runs in the same stream | every event delivered in order, the stream closed |
| CLI, `app/cli`, `cmd/wiregoblin-cli` | counters, nesting depth, report, exit status | events of concurrent branches, failed attempts of a retry that succeeded | counters and exit status agree with the run |
| Repository, `repository/file`, `model` | the project file, read on every call | the file changes between two reads of one run; missing and repeated ids | what was listed is what runs; no mix of versions makes calls go in a circle |
| Redaction, `redact` | none | secrets that contain each other | no secret is left in an event |
| AI service, `service/ai` | none | external model | reports, never changes a run |

### How they interact

The CLI asks the service for a run and reads events from a channel until it is
closed. The service loads the project and starts a goroutine that calls the
runner with an observer that writes to the channel. The runner gets blocks from
the registry, resolves references in their configuration, calls `Execute` and
applies the assignments of the response to the `RunContext`. Blocks that run
other blocks call back into the runner through functions stored in the
`RunContext` (`ExecuteStep` assigns, `ExecuteIsolatedStep` does not,
`ExecuteWorkflow` makes a new `RunContext`), and announce attempts to the same
observer. A single `context.Context`, with the workflow's timeout, reaches all
of them.

## Modules

| Module | Models | Run |
|---|---|---|
| `Runner` | one run of one definition: `runWithContext`, `executeStep`, `handleStepFailure`, `runErrorChain`, and the blocks assert, goto and set | `runner` through `MCRunner` |
| `Retry` | `retry.Block.Execute` with its rules and backoff | `retry`, `retry_panic` through `MCRetry` |
| `Jobs` | abstract: what a concurrent block promises | refined by `FanOut` |
| `FanOut` | `foreach.executeConcurrent` and `parallel.Block.Execute`: every goroutine and channel | `fanout`, `fanout_dropped` through `MCFanOut` |
| `EventStream` | the event stream of a command: who announces which step, the channel, the CLI's report, depth and exit status | `event_stream`, `event_stream_explain` through `MCEventStream` |
| `Scopes` | what nested blocks read and where their assignments go: the `RunContext` under retry, foreach, parallel and workflow blocks | `scopes`, `scopes_current` through `MCScopes` |
| `Transaction` | the postgres block: pools, transactions, queries, in branches and under retry | `transaction` through `MCTransaction` |
| `Mail` | the smtp block and the imap block that looks for what it sent, both under retry | `mail` through `MCMail` |
| `ProjectLoad` | the project file: parsing, the reads one command makes of it, lookups of nested workflows | `project_load` through `MCProjectLoad` |
| `RunnerProofs`, `RetryProofs`, `FanOutProofs`, `EventStreamProofs`, `ScopesProofs`, `TransactionProofs`, `MailProofs`, `ProjectLoadProofs` | theorems about the module they are named after | none |

### Runner

`index`, `iterations` and `results` are the local variables of `runWithContext`
(the first counted from 1), `hindex` the range variable of `runErrorChain`,
`store` is `RunContext.Variables`, `errorIndex` the built-in
`!ErrorBlockIndex`, which stands for the four that are set together. `started`
and `finished` are the calls of the observer. `pc` says which part of the code
is next; between two values of it only the environment acts.

Each path through one iteration of the loop is an action that makes every state
change the path makes up to the point where the environment can intervene:
`SkipStep` and `RejectStep` end without calling the block; `BeginExecute` stops
in front of `Execute`, so that the context can be cancelled and a composite
block can assign variables (`AssignInside`) meanwhile; `ExecuteSucceeds`,
`ExecuteFails`, `JumpNowhere`, `JumpNow` and `JumpAndWait` are what the runner
does with the outcome. `Fail` is `handleIgnoredStepFailure` or
`handleStepFailure` up to the first handler. The handlers follow in
`RejectHandler`, `BeginHandler`, `HandlerExecuteFails` and `HandlerSucceeds`.

Abstracted: names, payloads, durations and messages. A condition compares one
variable with one value under `=`, `!=` or an operator `condition.Evaluate`
refuses. What a response yields for an assignment is any value, and any
non-empty part of the assignments, since a path that is not found is left out;
when nothing is found the exports of the block are assigned.

Left out: the starting values of `NewRunContext` and calls of nested workflows,
which are call blocks here and are modelled in `Scopes`; redaction; and
`RunContext.StepResults` (written and never read).

### Retry

`pc` follows `Execute`: an attempt begins (`BeginAttempt`: built-ins, the start
event), ends with any answer (`FinishAttempt`: the finish event and the history
record), and is judged: `Succeed`, `GiveUp`, `Exhaust`, or `BeginWait` and one
of the two outcomes of `waitForDelay`. Answers keep what the rules read: the
error, the status code, the value at a path. The int64 in `nextDelayMS` wraps
only after waits of 2^62 ms, so the doubling is exact. The panic in
`WaitCancelled` is the code's: see the findings.

### FanOut and Jobs

The dispatcher of a foreach is `Dispatch` and `CloseTasks`; an unbuffered send
is a rendezvous, so `Dispatch(w)` is both its send and worker `w`'s receive. A
worker's receive, clone and built-ins are one action, since nothing else reads
the clone. `Finish` is the return of the nested block and the send to the
buffered `outcomes`; its guard is the capacity. `CloseOutcomes` is the
goroutine that waits for the `WaitGroup`; `Collect` and `Return` are the caller.
A parallel block begins with a branch in the hand of every goroutine.

`Jobs` says what users of a concurrent block rely on: at most `limit` jobs at a
time, each at most once, a report only when none is running or can start, and
its count the number that failed. `FanOut` implements it under the mapping at
its end: a job's status is read off the channel, the collected answers or its
worker, in that order.

`Jobs` promises a report as well: its fairness is that of any progress, since a
cancelled block need not start the jobs that are left.

`ordered` is the array of results, `collected` one that a foreach makes of it at a
path that every answer has. `answered` is a history variable: what the nested
block answered, whatever became of it on the way to the caller.

Left out: a path that an answer lacks, and the `collect` of parallel, which looks
up one branch by its id instead of going through the array. The sequential mode
of foreach is in `Scopes`.

### EventStream

A project is a forest. Its roots are the workflows `App.Run` executes one after
another; the children of a workflow are its steps, those of a retry or a
parallel block what they nest; the handlers of a workflow are its catch blocks.
A nested workflow is the step that calls it. A node executes as often as its
parent asks for it, and branches of a parallel block do so at the same time;
`phase`, `outcome` and `at` say where each node is. `Start` and `Finish` are the
two ends of an execution, and send an event where the code announces one
(`Announced`): `runWithContext` for the steps of a workflow, retry for its
attempts, nobody for catch blocks and branches. What happens in between is
`Skip`, `Answer`, `CutShort`, `RetryAgain` and the `Complete` actions.

The channel is unbuffered, so that a send is one action with the iteration of
the loop that takes it (`Consume`), or with the error of `printEventJSON` that
ends the process (`GiveUp`). `depth` is `textRenderer.activeWorkflowRun`,
`failedStep` and `failedRun` are the fields of the report, `service` the
goroutine `RunWorkflow` starts. `opened` and `verdicts` are history variables:
what a reader of the stream can tell.

Abstracted: gotos (only the index in an event tells a repeated step from its
predecessor; `Runner` has the jumps), the rules of retry (any answer may be
retried), why a step fails. A concurrent foreach sends like a parallel block.
Left out: requests, responses, durations, redaction, the second observer of
`RunOptions`, which the CLI does not set, the panic of finding 1, and the
counters of the summaries. These count attempts and nested steps too, and some
depend on how parallel branches interleave; no document says what they count.

### Scopes

A nest is a list of control blocks, outermost first, around one block that reads
every reference and exports a new value for `$x`. `stack` holds the blocks being
executed, each with the context it was called with (`outer`), the one it hands
inwards (`inner`) and the configuration of its nested block as far as references
in it are bound. A context maps the references that matter to values: `$x`, the
attempt of retry, the index of foreach, a field of its item, and each of the
built-ins under as many `Parent.` prefixes as there are workflows. A value says
which level set it in which iteration.

`Enter` is `executeStep` of a control block up to its first nested execution:
`NestedConfig` is what `resolveStepConfig` binds under the block's policy (all
of the nested block for retry, nothing of it for the others), `Inner` and
`InnerId` the context, shared by retry and sequential foreach, cloned for
concurrent foreach and parallel, new for a workflow (`Child`, with the built-ins
of the caller and the inputs). `Iterate` is the next attempt, item or branch;
`Leave` clears or restores the built-ins, and assigns the output of a workflow
that succeeded, unless the block runs isolated (`Applies`). A retry may go on
after any answer while attempts remain and may stop after any (`MayGoOn`,
`MayStop`): rules, and a wait that is cancelled, decide that in `Retry`. It
answers what its last attempt did, or fails when the budget went on an answer
that asked for another attempt (`Answers`). Iterations of
concurrent blocks run one after another in any order: they share nothing, which
`OwnContext` of `FanOut` shows.

Left out: `!Each.Item`, `!Each.Count` and the like, set beside the index; exports
that are no declared outputs, which follow the same way; the panic of finding 1;
items that a cancelled concurrent foreach never runs, which are in `FanOut`.

### Transaction

Several steps run at once in contexts of their own, on pools that belong to the
block. `LookupDB` and `OpenDB` are `db`, with the mutex between them; `BeginTx`,
`ExecuteStatement`, `AssignStatement`, `SendCommit` and `CommitSucceeds` the
path of `executeTransaction`; `StatementFails`, a refused assignment in
`AssignStatement` and `CommitFails` its other returns. `RunQuery` is
`executeQuery`, whose assignments the runner applies (`QuerySucceeds`). The
server is external: `ServerCommits` makes rows durable, and `CommitFails` may
come before it (refused) or after (the answer was lost). `Resolve` is where
references are bound: by retry before the attempts, or by `resolveStatement`
when a statement runs. A row remembers the values it was written with.

Abstracted: a value is named by the attempt and statement that produced it, a
statement is what it reads, whether it is a query, what its assignments read
of its output and what they write. A query's assignments are applied or refused
also in a branch: that is a step nested deeper than the branch itself, whose own
assignments `Validate` refuses. Left out: isolation between transactions, which is
the server's; secret variables apart from others.

### Mail

`spc` and `ipc` are the two program counters. A session of smtp is three phases
that may each fail without effect, then the end of the text, which the server
may accept (`ServerAccepts`) without its answer arriving, then QUIT; each
attempt has a `message_id` of its own. The step of imap connects, searches,
fetches one mail after another, marks, deletes, expunges; each command may fail
before it is applied (`CommandFails`) or after (`Applied`, `Fetch`). FETCH
RFC822 sets `\Seen` by the protocol. `Arrive` is the delivery of accepted mails
and of mails of others, at any time. The mailbox before the steps is any of
`Boxes`: mails of others in any order, seen or flagged by other clients.
`failures`, `taken`, `searched` and `initial` are history variables.

Abstracted: a mail is its `Message-Id`; criteria either name it or hold for the
mails of the step and some of others; `Broken` are mails `parseRFC822` cannot
read. Left out: other clients that flag or expunge while the steps run, and with
them sequence numbers that shift under the step.

### ProjectLoad

`file` is the version on disk, which `Edit` replaces between any two steps. The
repository reads and parses it on every call: `ReadProjectID`, `ReadListing`,
`ReadAI`, `ReadRoot` and `ReadSiblings` are the five reads of `App.Run`,
`executeWorkflow` and `RunWorkflow`; `listing`, `ai`, `root` and `siblings` are
the versions they saw. `FileRefused` and `Parse` are what `parse` refuses and
returns, including the environment references of the AI section. A run steps
through `stack`, the nest of called workflows, which are looked up among the
siblings and never validated (`Invalid` is `ValidateWorkflow` of the root).

Left out: environment references elsewhere, values, outputs, the fields of
blocks, and the AI summary of a success, none of which decides what is run;
`catch_error_blocks`, which `parse` and `ValidateWorkflow` treat like the blocks
and which run after a failure (`Runner`); and calls from catch blocks or from
blocks nested in a retry, foreach or parallel block, which look their target up
in the same map of siblings as the calls modelled.

## Checks

| Run | States | What it shows |
|---|---|---|
| `runner` | 48,500 | the nine properties of `Runner` |
| `retry` | 19,212 | the five properties of `Retry` |
| `retry_panic` | | a cancelled wait that dereferences a nil error |
| `fanout` | 58,318 | the five properties of `FanOut`, among them that it implements `Jobs` |
| `fanout_dropped` | | a cancelled foreach that reports success |
| `event_stream` | 30,565 | the five properties of `EventStream` |
| `event_stream_explain` | | a report that holds a catch block's attempt as the failing step |
| `scopes` | 973,605 | the four properties of `Scopes` |
| `scopes_current` | | a nested foreach whose block reads the index and the field of the outer one |
| `transaction` | 881,768 | the four properties of `Transaction` |
| `mail` | 1,187,491 | the five properties of `Mail` |
| `project_load` | 31,673 | the three properties of `ProjectLoad` |

Properties of `Runner`:
- `ObserverMirrorsResults`: what the observer is told is what the run returns.
- `NothingAfterFailure`, `CatchChain`: a failure that is not ignored stops the
  loop, and handlers run in order, only then, up to the first that fails.
- `ErrorBuiltinsNameFailedStep`: not a handler, and not an ignored failure.
- `ControlPath`: consecutive steps are neighbours or joined by a goto that
  succeeded, to the last step with its target's id.
- `OutcomeExplained`: the returned error agrees with the results, and the cap
  stops a run after exactly `MaxIterations` executions.
- `FailedStepsAssignNothing`: a step that fails leaves no part of its
  assignments behind, a composite block's own apart.
- `Terminates`.

Properties of `Retry`: `HistoryTellsAttempts`, `VerdictFollowsLastAttempt`,
`AttemptBuiltinScoped`, `Terminates`.

Properties of `FanOut`:
- `ChannelsCloseInTime`: no send on a closed channel, none that blocks for ever,
  and no goroutine left when the block returns.
- `OwnContext`: no two workers execute in one context.
- `ReportTellsOutcomes`: each position of the results holds what its own task
  answered, in whatever order the outcomes came; the error reported is that of a
  task that failed. When the block returns, all tasks that were started are in the
  results, and a collected array has what was answered at each item's position, or
  nil.
- `ImplementsJobs`: every behaviour is one of `Jobs`, so that the block reports
  in the end.

Properties of `EventStream`:
- `StreamIsBracketed`: every execution is started and finished, within the
  executions above it, also when branches interleave, and the renderer's one
  counter of open workflows is right for all branches.
- `ExitStatusTellsOutcome`: success means that every workflow ran and none of
  its steps failed; nothing runs after a failed one.
- `ReportHoldsFailedStep`: a failed step is in the report, unless something a
  catch block announced is (finding 3).
- `Terminates`: the process exits, with a blocked producer or without.

Properties of `Scopes`:
- `OwnBuiltinsInForce`: a control block finds its own built-ins whenever it has
  control, whatever was nested in it, and none is left at the end.
- `ReadsNearestScope`: where the code takes each reference of the innermost block
  from. It states the code's early binding as it is, also where the documentation
  promises the current value instead: a loop inside a retry inside a loop gets the
  index of the outer loop, and `$x` is as it was when the outermost retry began.
- `BuiltinsAreCurrent`: what the documentation says of three built-ins. The code
  does not keep it (finding 4).
- `AssignmentsReachTheirScope`: nothing outside a branch or workflow changes while
  it runs; assignments in branches and in workflows that fail are lost, others
  are not.

Properties of `Transaction`:
- `OnePoolPerDsn`: two branches that come first together open one pool.
- `ReportTellsServer`: a transaction leaves all its rows or none, an attempt that
  succeeded is the last, and one that failed left rows in three ways only: the
  answer to its commit was lost, the answer to its query was lost, or its query
  answered and an assignment was refused. So these are the ways in which a retry
  writes twice.
- `OwnTransactionSeen`: where its own transaction has assigned a value, a statement
  sees that one and not what an attempt that was rolled back assigned, unless retry
  bound the reference before; a statement before the first assignment may see what
  a rolled-back attempt left. A refused assignment wrote nothing.

Properties of `Mail`:
- `AcceptedTellsReport`: a mail said to be sent was accepted under the exported
  id; one accepted and not said so belongs to an attempt that failed at the end
  of its text or at QUIT.
- `AnswerTellsMailbox`: every match in the mailbox that SEARCH did not give was
  seen before the steps or taken by an attempt that failed, and was left out
  because only unseen mails were asked for: no poll that passed it over hid it.
  Not found: no mail given matches. Found: the mail was given, it matches, `select`
  prefers it to every other match given, and it is gone exactly when it is to be
  deleted.
- `OnlyTakenDisappear`: the step flags only mails that match and that it took; it
  expunges only what is flagged, by itself or by another client before, and only
  together with a match it took; it marks no match as seen that it did not take.
  It does not say what the documentation does of `mark_as_seen` and `delete`, as the
  code does not keep that: every mail that a poll inspects is marked, and what
  others flagged goes with the EXPUNGE (see below the findings).
- `PollingEnds`.

Properties of `ProjectLoad`:
- `RunsFollowListing`: whatever is edited meanwhile, the workflows of the first
  listing run in its order, each once, none after a failed one, and the process
  succeeds only when it ran all of them.
- `CallsDoNotCircle`: a mix of versions does not make calls recurse when none of
  the versions does.

### Bounds

- `MCRunner`: definitions of up to two steps and two handlers. Every property
  relates at most two consecutive steps, a step and the first handler, or two
  consecutive handlers, and the catalogue has an entry for each way a step can
  go, so each way meets each other as predecessor and as target of a jump.
  `MaxIterations` is 4: enough to go round a loop of two twice. Two names (one
  of them also a constant) and two values tell accepted from refused writes and
  both results of a condition.
- `MCRetry`: up to three attempts, so that there is a first, a middle and a last;
  two rules, so that `any` and `all` differ; a delay of zero and one that is not.
- `MCFanOut`: one to three items under two or three workers, so that there are
  fewer, as many and more workers than items, and a worker that gets a second.
- `MCEventStream`: three projects of six or seven nodes. A retried workflow, an
  ignored step and a catch block that retries; two branches that retry, one of
  them a workflow, so that attempts and workflows of branches interleave; two
  roots, the second with a nested workflow that handles its own failure and is
  ignored. Each composite occurs under and above another, and each announced
  step beside an unannounced one. Two attempts: a first and a last.
- `MCScopes`: all nests of up to four blocks that retry accepts, so that each
  kind occurs above, below and twice around each other; two attempts and items,
  the first item with a field the second lacks, so that a stale field is seen.
  `scopes_current` has one nest of four, in which only the second outer item has it.
- `MCTransaction`: two steps on one pool. The first has every pair of five kinds of
  statement (assigning, reading, refused, finding nothing), with a variable that
  exists before or not, in one attempt or two; the second writes without reading.
  Two statements are enough for one to see, follow or undo another.
- `MCMail`: two attempts to send and two to find, so that each may fail after a
  success of the server; two mails of others, one that may match and one that
  cannot be read, in six mailboxes: none, either or both of them there when the
  steps begin, in both orders, seen or flagged or not. Four configurations with
  every option on and off, both orders of selection with two mails that match,
  and each order with a search for unseen mails.
- `MCProjectLoad`: six versions of the file, two of them unreadable, and three
  edits in any of the gaps between five reads. Two versions call in opposite
  directions, which is what a mix would have to go in a circle.

### Fairness

Each specification assumes weak fairness of the disjunction of its own
program's steps (`Progress`), and nothing of the environment: a context need
never be cancelled. This says that the Go scheduler runs a goroutine that can
run, that a timer fires, and that `Execute` of a nested block returns. The last
is an assumption about the block (most stop when the context's deadline passes;
IMAP and SMTP read without deadline). `select` is not assumed to be fair: a
dispatcher may prefer a ready worker to a cancelled context every time. In
`EventStream` the fairness is that of the process as a whole, and its bounded
retries and trees without recursion make progress finite. `Mail` assumes that
the imap step goes on and that time passes (`DeadlinePasses`): servers answer or
the connection breaks. That is an assumption about the network, as the code
reads without deadline. Nothing is assumed of delivery or of the smtp step.
`Scopes`, `Transaction` and `ProjectLoad` state safety only.

### Findings

1. `retry_panic`: `block/retry/block.go:162` calls `Error()` on the error of the
   last attempt when the wait is cancelled; the error is nil when the attempt was
   retried for its status code or a path of its answer.
2. `fanout_dropped`: `block/foreach/block.go:67` says "Execute runs one nested
   block for each item in the configured array". A dispatcher that sees the
   cancelled context (`:163`) drops the rest, and the block succeeds if none of
   the others failed.
3. `event_stream_explain`: `README.md:125` says that "WireGoblin sends the failing
   step context (step type, error, request, response) to the model". It sends the
   last failed event (`app/cli/run.go:130`), and a retry among the catch blocks
   announces its attempts after the failing step was announced.
4. `scopes_current`: `docs/reference.md:883` says of `!Each.Index` "0-based index",
   `:889` of `!Each.Item.<field>` "Field of the current item (for objects)" and
   `:804` of `!Retry.Attempt` "Current attempt number (1-based)". A retry resolves
   all of its block before its first attempt (`block/retry/block.go:34`), so that a
   foreach or retry in it is handed the index, field and attempt of those further
   out as text. The run shows the index and the field at its first read; each of the
   three parts of the statement is also violated when it is checked alone. The last
   one fails without nested retries too: sequential items share a context
   (`block/foreach/block.go:102`), which is cleaned only after the last, and an item
   without the field reads that of an item before it.

Met while modelling, without a run: `catch_error_blocks` are "Blocks executed after
workflow failure" (`docs/reference.md:73`), but a goto whose wait is cancelled
(`engine/runner.go:348`) and the iteration cap (`:230`) fail the workflow without
them; steps still start after the deadline (`docs/reference.md:67`; the loop never
looks at the context); catch blocks and nested blocks ignore `condition`, `enabled`
and `continue_on_error` (`docs/reference.md:11`); `stopped_early` is set also when no
attempts were left (`docs/reference.md:816`); `retryable` of the last record is set
although no attempt follows (`docs/reference.md:829`). `mark_as_seen` is to "Mark the
matched message as seen" (`docs/reference.md:515`), but FETCH RFC822
(`block/imap/block.go:353`) marks every message inspected, matched or not, with and
without it; `delete` is to "Delete the matched message after reading"
(`docs/reference.md:516`), but EXPUNGE (`block/imap/block.go:120`) removes whatever is
flagged in the mailbox, also by other clients. `Mail` models both as the code does
them, and none of its properties claims what the documentation says.

In the blocks of the newer modules: a commit whose answer is lost is reported as
`rolledBack` (`block/postgres/block.go:209`) though the server may have kept it; a
QUIT that fails fails the step after the message was accepted
(`block/smtp/block.go:142`); an INSERT with RETURNING is run as an Exec, so that
assignments from its rows find nothing; assignments made in branches or items of
concurrent blocks are lost, and `HasNestedAssignments`, which refuses them, looks
one level deep (`block/helpers.go:52`); a retry drops the exports of its block; a
retry inside a foreach inside a retry clears the attempt built-in the outer one
runs under; nested workflows are never validated; a project edited while a command
runs is put together from several versions. The reference names
`body.rows_affected` (`docs/reference.md:353`) and `select_mode` (`:514`), the
code `rowsAffected` and `select`; `timeout_seconds` of imap, there the "Overall
block timeout" (`:517`), limits the dial alone.

## Proofs

Every invariant the passing runs check, the action property of `Runner` and the safety
part of `ImplementsJobs` are proved for all values of the constants, from the
assumptions the modules name and no others. TLC checked each inductive invariant
on the instance of its run before it was proved.

| Module | For every | Theorems |
|---|---|---|
| `RunnerProofs` | workflow of any length with any gotos, all names and values, any cap | `TypeCorrect`, `ObserverCorrect`, `FailureStopsTheLoop`, `CatchChainCorrect`, `ErrorBuiltinsCorrect`, `ControlPathCorrect`, `OutcomeCorrect`, `FailuresAssignNothing` |
| `RetryProofs` | budget, delay, set of rules and answers | `TypeCorrect`, `HistoryCorrect`, `VerdictCorrect`, `BuiltinsScoped` |
| `FanOutProofs` | number of items and workers | `TypeCorrect`, `ChannelsClosed`, `ContextsApart`, `OutcomesReported`, `StepsOfJobs` |
| `EventStreamProofs` | project of any size and depth, any number of workflows to run and of attempts | `TypeCorrect`, `Bracketed`, `StatusTrue`, `FailedStepReported` |
| `ScopesProofs` | nest of any depth, any number of attempts, items and branches | `TypeCorrect`, `BuiltinsInForce`, `NearestScopeRead`, `AssignmentsInScope` |
| `TransactionProofs` | number of steps, statements and attempts, all DSNs and variables | `TypeCorrect`, `PoolsShared`, `ReportsTrue`, `OwnTransactionRead` |
| `MailProofs` | number of attempts on either side, any mails of others, any mailbox before the steps, any configuration | `TypeCorrect`, `AcceptedReported`, `AnswersTrue`, `OthersStay` |
| `ProjectLoadProofs` | versions of the file, number of workflows and of edits | `TypeCorrect`, `RunsAsListed`, `NoCircle` |

Each module also has `Invariance`, `Spec => []IInv`, from which the others
follow. Its proof has a lemma for each action, or for each group of actions with
the same effect.

### The inductive invariants

None of the properties is inductive by itself. What each `IInv` adds, and why:

- `Runner`: none of its invariants says what `pc` implies about the error of the
  run and the last result. `Phase` does: outside the catch chain and the end
  there is no error and no handler result; inside it the last step failed; the
  index is within the definition wherever the code reads it. `ControlPath` and
  `OutcomeExplained` need `Way` on top: the iterations are the steps started,
  each is in the definition, and the step the loop comes to next follows the last
  one started, so that an index beyond the end is the neighbour of the last step.
- `Retry`: `Phase` says that the last record is the answer being judged, that the
  records before were to be retried, and that a wait begins with budget left.
- `FanOut`: `OnePlace` says that a task that was started is with a worker, in the
  channel or collected, and in one of these only. `Counted` adds up the three:
  it is why a send on `outcomes` never blocks, since the started tasks are at
  most its capacity. `Setting` says when goroutines may have exited, `Clones`
  that a worker executes in its own context.
- `EventStream`: `Placed` says that an active node is what the node above it is
  executing (`Asked`), so that from any active node a chain of active nodes leads
  up to the root. `Opens` says what the consumer has been told of each, and
  `Depths` that the renderer's counter is the number of nested workflows opened.
  `Counted` lets a parallel block end only with all of its branches. These hold
  while the process lives: an event that cannot be printed ends it in the middle,
  so `IInv` keeps `StepsNest`, `Depths` and `Told` alone after the exit.
- `Scopes`: for each level of the nest, `Holds` says which iteration set each
  built-in of the context handed inwards, `Bound` what the configuration carries
  already, and `Chain` how the contexts on the stack follow from each other: two
  levels share one exactly as far as no isolated block or workflow is between.
- `Transaction`: for each step, `OpenTransaction` and `Kept` say which rows are
  pending and durable at each `pc`, `Control` how far the statements and reports
  are, `FollowsStatements` that a variable holds a value of this attempt exactly
  when a statement of it assigned one. `Pools` says who holds the mutex.
- `Mail`: `Reported` ties the failures so far to the attempt, `Polled` says that a
  match the last SEARCH gave is still to be fetched, and one it did not give was
  seen before or taken (`PassedOver`), and `FoundRight` how far the mailbox has been
  changed for the mail that was found.
- `ProjectLoad`: `Progress` says that what ran and what is left are what was
  listed, `Nest` that each frame stands at a call of the next and that all but
  the lowest are of the version `siblings`.

### Assumptions

`Runner` assumes that its workflows are definitions, `Retry`, `Transaction` and
`Scopes` that their configurations and nests are what the code's validation lets
through; names for "nothing" are not values. `FanOut` needs at least one task and
two workers to be concurrent, `Runner` a positive cap, `Retry`, `EventStream` and
`Mail` a positive number of attempts. `EventStream` assumes `WellFormed` forests:
a node is numbered after its parent, which lists it once. That a forest is finite
is the absence of recursive calls, which the code does not check. `ProjectLoad`
assumes the same of each version by itself (`Circles`), and that no workflow has
the name the model gives to "all of them". `Mail` assumes that its mailboxes hold
mails of others alone, each once, and that each attempt to send has a `Message-Id`
of its own: the code makes it from the clock in nanoseconds and the process id,
and attempts of a retry are no less apart.

### How induction over data is done

The library's induction theorems are out of reach of the provers here (they take
a predicate as a parameter), so the proofs use that a non-empty set of natural
numbers has a least element (`WFMin`): the least counterexample has a
predecessor that is none. In that way `Runner` gets the last step with an id,
`ProjectLoad` what `Runnable` lists, `Scopes` the nearest loop or retry, and
`EventStream` that every node above an active one is active (of the active nodes
without that, the uppermost would have a parent without it).

### Refinement

`StepsOfJobs` is the safety part of `ImplementsJobs`: an initial state of
`FanOut` is one of `Jobs`, and under the mapping every step is a step of `Jobs`
or a stutter. `Dispatch` or `StartBranch` starts a job, `Finish` ends it,
`Return` reports, the environment's `Cancel` cancels; `CloseTasks`,
`CloseOutcomes`, `ExitWorker` and `Collect` are hidden. That the report comes is
the fairness part, which TLC checks.

### Only model-checked

Liveness, which the prover does not reach: `Terminates` of `Runner`, `Retry` and
`EventStream`, `PollingEnds` of `Mail`, and the fairness of `Jobs` in
`ImplementsJobs`. The four findings are counterexamples of TLC.

## Not modelled

- HTTP with its signing, gRPC, Redis, the container, delay, log and transform
  blocks, OpenAI, Slack and Telegram: each is one request or command and its
  outcome, a call block of `Runner`. What is left of them is the conversion of
  data and cryptography, which hold no state and no order of steps.
- Redaction: one sequential function of strings whose property is about
  characters (a secret that is a prefix of another).
- Comparison operators beyond equality, and the range of foreach: one sequential
  function each.
- The AI service: a call to an external model that changes no run. When it is
  asked is in `ProjectLoad`, what it is told in `EventStream`.
- Wording, colours, counters and flags of the CLI.
- `Close` of the registry and of the postgres block: the program never calls it.

## Plan

1. Action properties of the blocks, with proofs from the invariants above: what is
   durable, expunged or collected stays so, a returned block changes nothing.
2. The abstract promises behind them as specifications of their own, as `Jobs` is
   for `FanOut`: at-least-once delivery for `Mail`, all or nothing for
   `Transaction`.
3. The hazards without a property: the summary counters of the CLI first, if a
   document comes to say what they count.
