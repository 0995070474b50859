-------------------------------- MODULE Retry --------------------------------
(***************************************************************************)
(* One execution of a retry block: internal/block/retry/block.go, Execute, *)
(* with the rules of retry_on and the backoff of config.go.                *)
(*                                                                         *)
(* What the nested block answers is external: it may fail with or without  *)
(* a status code, or answer something that a rule still retries.  The      *)
(* context may be cancelled at any point.  An answer is abstracted to what *)
(* the rules read of it: whether Execute returned an error, the status     *)
(* code, and the value that a path rule looks at.                          *)
(***************************************************************************)
EXTENDS Naturals, Sequences

CONSTANTS
    Configs,    \* the validated retry configurations to execute
    Codes,      \* status codes a nested block may report
    NoCode,     \* extractStatusCode returns nil
    Bodies,     \* values a path rule may read
    NoBody      \* readRetryPath finds nothing

ASSUME NothingAssumption ==
    /\ {NoCode, NoBody} \cap (Codes \cup Bodies) = {}

(* accepts is the in of a status_code rule, and for a path rule the values  *)
(* for which its operator and expected hold.                                *)
Rules == [type : {"transport_error", "status_code", "path"},
          accepts : SUBSET (Codes \cup Bodies)]

(* Validate: a positive budget, a delay of no less than zero, and at least  *)
(* one rule when retry_on is given (enabled).                               *)
ValidConfigs ==
    {c \in [max : Nat \ {0}, delay : Nat, enabled : BOOLEAN,
            match : {"any", "all"}, rules : SUBSET Rules] :
        c.enabled => c.rules # {}}

ASSUME ConfigsAssumption == Configs \subseteq ValidConfigs

(* What ExecuteStep returns. *)
Answers ==
    [err : BOOLEAN, code : Codes \cup {NoCode}, body : Bodies \cup {NoBody}]

NoAnswer == [err |-> FALSE, code |-> NoCode, body |-> NoBody]

----------------------------------------------------------------------------
VARIABLES
    config,     \* the decoded configuration; never changes
    pc,
    attempt,    \* the loop variable
    answer,     \* lastResult and lastErr
    history,    \* the history slice
    builtin,    \* RunContext.Builtins["Retry.Attempt"]; 0 when deleted
    open,       \* attempts announced by EmitStepStart and not finished
    output,     \* what Result.Output says of the execution
    returned,   \* which error Execute returns
    ctxDone

vars == <<config, pc, attempt, answer, history, builtin, open, output,
          returned, ctxDone>>

----------------------------------------------------------------------------
(* matchesRetryRule *)
MatchesRule(rule, a) ==
    \/ rule.type = "transport_error" /\ a.err /\ a.code = NoCode
    \/ rule.type = "status_code" /\ a.code \in rule.accepts
    \/ rule.type = "path" /\ a.body \in rule.accepts

(* shouldRetry *)
ShouldRetry(c, a) ==
    IF ~c.enabled THEN a.err
    ELSE IF c.match = "all" THEN \A rule \in c.rules : MatchesRule(rule, a)
    ELSE \E rule \in c.rules : MatchesRule(rule, a)

(* nextDelayMS.  Its int64 wraps only after waits of 2^62 ms, which no run  *)
(* gets to, so the doubling is exact here.                                  *)
NextDelay(c, n) == c.delay * 2^(n - 1)

(* Mutant: the last attempt announces a delay too. *)
RecordedDelayAlways(c, n, retryable) ==
    IF retryable THEN NextDelay(c, n) ELSE 0

(* next_delay_ms of a history record *)
RecordedDelay(c, n, retryable) ==
    IF retryable /\ n < c.max THEN NextDelay(c, n) ELSE 0

Delays(c) == {0} \cup {NextDelay(c, n) : n \in 1..c.max}

Records(c) ==
    [attempt : 1..c.max, err : BOOLEAN, retryable : BOOLEAN, delay : Delays(c)]

Outputs == [attempts : Nat, succeeded : BOOLEAN, retryable : BOOLEAN,
            stoppedEarly : BOOLEAN]

NoOutput == [attempts |-> 0, succeeded |-> FALSE, retryable |-> FALSE,
             stoppedEarly |-> FALSE]

TypeOK ==
    /\ config \in Configs
    /\ pc \in {"loop", "executing", "judging", "waiting", "returned", "panicked"}
    /\ attempt \in 1..config.max
    /\ answer \in Answers
    /\ history \in Seq(Records(config))
    /\ builtin \in 0..config.max
    /\ open \in 0..1
    /\ output \in Outputs
    /\ returned \in {"none", "block", "exhausted", "context"}
    /\ ctxDone \in BOOLEAN

Init ==
    /\ config \in Configs
    /\ pc = "loop"
    /\ attempt = 1
    /\ answer = NoAnswer
    /\ history = <<>>
    /\ builtin = 0
    /\ open = 0
    /\ output = NoOutput
    /\ returned = "none"
    /\ ctxDone = FALSE

(* The head of the loop: setAttemptBuiltins, EmitStepStart, ExecuteStep. *)
BeginAttempt ==
    /\ pc = "loop"
    /\ builtin' = attempt
    /\ open' = open + 1
    /\ pc' = "executing"
    /\ UNCHANGED <<config, attempt, answer, history, output, returned, ctxDone>>

(* ExecuteStep returns, EmitStepFinish, and the attempt goes into history. *)
FinishAttempt ==
    /\ pc = "executing"
    /\ \E a \in Answers :
          /\ answer' = a
          /\ history' = Append(history,
                [attempt |-> attempt, err |-> a.err,
                 retryable |-> ShouldRetry(config, a),
                 delay |-> RecordedDelay(config, attempt, ShouldRetry(config, a))])
    /\ open' = open - 1
    /\ pc' = "judging"
    /\ UNCHANGED <<config, attempt, builtin, output, returned, ctxDone>>

Retryable == ShouldRetry(config, answer)

(* Mutant: a return that forgets clearAttemptBuiltins. *)
ReturnUncleared(succeeded, stoppedEarly, err) ==
    /\ pc' = "returned"
    /\ output' = [attempts |-> attempt, succeeded |-> succeeded,
                  retryable |-> Retryable, stoppedEarly |-> stoppedEarly]
    /\ returned' = err
    /\ UNCHANGED <<config, attempt, answer, history, builtin, open, ctxDone>>

(* Execute returns err; every return is preceded by clearAttemptBuiltins.  *)
Return(succeeded, stoppedEarly, err) ==
    /\ pc' = "returned"
    /\ builtin' = 0
    /\ output' = [attempts |-> attempt, succeeded |-> succeeded,
                  retryable |-> Retryable, stoppedEarly |-> stoppedEarly]
    /\ returned' = err
    /\ UNCHANGED <<config, attempt, answer, history, open, ctxDone>>

(* Not retryable and no error. *)
Succeed ==
    /\ pc = "judging"
    /\ ~Retryable
    /\ ~answer.err
    /\ Return(TRUE, FALSE, "none")

(* Not retryable: stoppedEarly whether or not attempts are left. *)
GiveUp ==
    /\ pc = "judging"
    /\ ~Retryable
    /\ answer.err
    /\ Return(FALSE, config.enabled, "block")

(* Mutant: no exhaustion error when the last attempt had none. *)
ExhaustSilently ==
    /\ pc = "judging"
    /\ Retryable
    /\ attempt = config.max
    /\ Return(FALSE, FALSE, IF answer.err THEN "block" ELSE "none")

(* The last attempt is still retryable. *)
Exhaust ==
    /\ pc = "judging"
    /\ Retryable
    /\ attempt = config.max
    /\ Return(FALSE, FALSE, IF answer.err THEN "block" ELSE "exhausted")

(* Mutant: the budget is not looked at before the wait. *)
BeginWaitAlways ==
    /\ pc = "judging"
    /\ Retryable
    /\ pc' = "waiting"
    /\ UNCHANGED <<config, attempt, answer, history, builtin, open, output,
                   returned, ctxDone>>

BeginWait ==
    /\ pc = "judging"
    /\ Retryable
    /\ attempt # config.max
    /\ pc' = "waiting"
    /\ UNCHANGED <<config, attempt, answer, history, builtin, open, output,
                   returned, ctxDone>>

(* Mutant: waitForDelay waits for a timer of no delay that never fires. *)
WaitElapsesDelayed ==
    /\ pc = "waiting"
    /\ NextDelay(config, attempt) > 0
    /\ attempt' = attempt + 1
    /\ pc' = "loop"
    /\ UNCHANGED <<config, answer, history, builtin, open, output, returned,
                   ctxDone>>

(* The timer of waitForDelay, or no delay at all; select may take the timer *)
(* when ctx.Done is ready too.                                              *)
WaitElapses ==
    /\ pc = "waiting"
    /\ attempt' = attempt + 1
    /\ pc' = "loop"
    /\ UNCHANGED <<config, answer, history, builtin, open, output, returned,
                   ctxDone>>

(* ctx.Done in waitForDelay.  The result quotes execErr.Error(), which is a *)
(* nil dereference when the attempt was retried for its answer and not for  *)
(* an error; nothing in the program recovers.                               *)
WaitCancelled ==
    /\ pc = "waiting"
    /\ ctxDone
    /\ NextDelay(config, attempt) > 0
    /\ \/ /\ answer.err
          /\ Return(FALSE, FALSE, "context")
       \/ /\ ~answer.err
          /\ pc' = "panicked"
          /\ builtin' = 0
          /\ UNCHANGED <<config, attempt, answer, history, open, output,
                         returned, ctxDone>>

Cancel ==
    /\ pc \notin {"returned", "panicked"}
    /\ ~ctxDone
    /\ ctxDone' = TRUE
    /\ UNCHANGED <<config, pc, attempt, answer, history, builtin, open, output,
                   returned>>

Terminated == pc \in {"returned", "panicked"} /\ UNCHANGED vars

Progress ==
    \/ BeginAttempt \/ FinishAttempt
    \/ Succeed \/ GiveUp \/ Exhaust
    \/ BeginWait \/ WaitElapses \/ WaitCancelled

Next == Progress \/ Cancel \/ Terminated

(* The goroutine is scheduled, the nested block returns, timers fire. *)
Spec == Init /\ [][Next]_vars /\ WF_vars(Progress)

----------------------------------------------------------------------------
LastRecord == history[Len(history)]

(* history tells the attempts as they went: one record per attempt in       *)
(* order, every one but the last retryable, and the delay announced in a    *)
(* record is the one the next attempt waited for: it doubles from attempt   *)
(* to attempt, and is 0 exactly where no attempt follows.                   *)
HistoryTellsAttempts ==
    /\ Len(history) = IF pc \in {"loop", "executing"} THEN attempt - 1 ELSE attempt
    /\ \A k \in 1..Len(history) : history[k].attempt = k
    /\ \A k \in 1..Len(history) - 1 :
          /\ history[k].retryable
          /\ history[k].delay = NextDelay(config, k)
    /\ pc = "returned" /\ returned # "context" => LastRecord.delay = 0

(* The verdict follows from the last attempt: success needs an answer that  *)
(* no rule retries and no error, a failure either an error that is not      *)
(* retried or a budget spent to the last attempt; retries are never cut     *)
(* short by anything but the context.                                       *)
VerdictFollowsLastAttempt ==
    pc = "returned" =>
        /\ output.attempts = Len(history)
        /\ output.succeeded <=> returned = "none"
        /\ output.retryable = LastRecord.retryable
        /\ returned = "none" => ~LastRecord.err /\ ~LastRecord.retryable
        /\ returned \in {"block", "exhausted"} =>
              \/ Len(history) = config.max
              \/ LastRecord.err /\ ~LastRecord.retryable
        /\ returned = "exhausted" => LastRecord.retryable /\ ~LastRecord.err
        /\ returned = "context" =>
              ctxDone /\ LastRecord.retryable /\ Len(history) < config.max

(* The nested block reads its own attempt number, and once the retry block  *)
(* is left, whichever way, the number of the last attempt is not left       *)
(* behind for the steps that follow.                                        *)
AttemptBuiltinScoped ==
    /\ pc = "executing" => builtin = attempt /\ open = 1
    /\ pc \in {"returned", "panicked"} => builtin = 0 /\ open = 0

(* Execute is left, whatever the nested block keeps answering. *)
Terminates == <>(pc \in {"returned", "panicked"})

----------------------------------------------------------------------------
(* block.go:59: "Execute retries one nested block until it succeeds or the  *)
(* attempt budget is exhausted": it returns to the runner either way.       *)
ReturnsToRunner == pc # "panicked"

==============================================================================
