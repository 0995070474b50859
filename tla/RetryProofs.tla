----------------------------- MODULE RetryProofs -----------------------------
(***************************************************************************)
(* Proofs about Retry, for every set of configurations with any budget,    *)
(* delay and rules, and for every set of codes and bodies.                 *)
(***************************************************************************)
EXTENDS Retry, SequenceTheorems, TLAPS

(* What the code reads of its configuration has the types it expects.       *)
LEMMA ConfigTypes ==
    ASSUME TypeOK
    PROVE  /\ config.max \in Nat \ {0}
           /\ config.enabled \in BOOLEAN
           /\ config.rules \in SUBSET Rules
           /\ attempt \in Nat
    BY ConfigsAssumption DEF TypeOK, ValidConfigs

(* Whether an answer is retried is always decided. *)
LEMMA ShouldRetryType ==
    ASSUME TypeOK, NEW a \in Answers
    PROVE  ShouldRetry(config, a) \in BOOLEAN
    BY ConfigTypes DEF ShouldRetry, Answers

(* A record of the attempt under way is one that history may hold.          *)
LEMMA RecordType ==
    ASSUME TypeOK, NEW a \in Answers
    PROVE  [attempt |-> attempt, err |-> a.err,
            retryable |-> ShouldRetry(config, a),
            delay |-> RecordedDelay(config, attempt, ShouldRetry(config, a))]
           \in Records(config)
<1>1. attempt \in 1..config.max /\ a.err \in BOOLEAN
    BY DEF TypeOK, Answers
<1>2. RecordedDelay(config, attempt, ShouldRetry(config, a)) \in Delays(config)
    BY <1>1 DEF RecordedDelay, Delays
<1> QED
    BY <1>1, <1>2, ShouldRetryType DEF Records

----------------------------------------------------------------------------
(* The inductive invariant.  The properties say what holds when the block   *)
(* returns.  Phase adds what the code relies on before: the last record is  *)
(* the answer in hand, attempts are announced one at a time, a wait begins  *)
(* only with budget left, and nothing is returned yet.                      *)

Judged == pc \in {"judging", "waiting", "returned", "panicked"}

LastRecordTellsAnswer ==
    Judged =>
        LastRecord = [attempt |-> attempt, err |-> answer.err,
                      retryable |-> Retryable,
                      delay |-> RecordedDelay(config, attempt, Retryable)]

EarlierRecordsRetried ==
    pc \in {"loop", "executing"} /\ history # <<>> =>
        /\ LastRecord.retryable
        /\ LastRecord.delay = NextDelay(config, attempt - 1)

AnnouncedOnce ==
    /\ open = IF pc = "executing" THEN 1 ELSE 0
    /\ pc \in {"executing", "judging", "waiting"} => builtin = attempt

Phase ==
    /\ LastRecordTellsAnswer
    /\ EarlierRecordsRetried
    /\ AnnouncedOnce
    /\ pc \in {"waiting", "panicked"} => Retryable /\ attempt # config.max
    /\ pc # "returned" => returned = "none"

IInv ==
    /\ TypeOK
    /\ Phase
    /\ HistoryTellsAttempts
    /\ VerdictFollowsLastAttempt
    /\ AttemptBuiltinScoped

USE DEF LastRecordTellsAnswer, EarlierRecordsRetried, AnnouncedOnce, Judged

LEMMA InitIInv == Init => IInv
<1> SUFFICES ASSUME Init PROVE IInv
    OBVIOUS
<1>1. config \in ValidConfigs
    BY ConfigsAssumption DEF Init
<1>2. TypeOK
  <2>1. config.max \in Nat \ {0}
      BY <1>1 DEF ValidConfigs
  <2>2. NoAnswer \in Answers /\ NoOutput \in Outputs
      BY DEF NoAnswer, Answers, NoOutput, Outputs
  <2>3. history \in Seq(Records(config))
      BY DEF Init
  <2>4. answer \in Answers /\ output \in Outputs
      BY <2>2 DEF Init
  <2>5. /\ config \in Configs
        /\ attempt \in 1..config.max
        /\ builtin \in 0..config.max
        /\ open \in 0..1
      BY <2>1 DEF Init
  <2>6. /\ pc \in {"loop", "executing", "judging", "waiting", "returned", "panicked"}
        /\ returned \in {"none", "block", "exhausted", "context"}
        /\ ctxDone \in BOOLEAN
      BY DEF Init
  <2> QED
      BY <2>3, <2>4, <2>5, <2>6 DEF TypeOK
<1>3. Phase
    BY DEF Init, Phase
<1>4. HistoryTellsAttempts /\ VerdictFollowsLastAttempt /\ AttemptBuiltinScoped
    BY DEF Init, HistoryTellsAttempts, VerdictFollowsLastAttempt, AttemptBuiltinScoped
<1> QED
    BY <1>2, <1>3, <1>4 DEF IInv

LEMMA BeginAttemptIInv == IInv /\ BeginAttempt => IInv'
<1> SUFFICES ASSUME IInv, BeginAttempt PROVE IInv'
    OBVIOUS
<1> USE DEF IInv
<1>1. TypeOK'
    BY ConfigTypes DEF TypeOK, BeginAttempt, Phase
<1>2. Phase'
    BY ConfigTypes DEF TypeOK, BeginAttempt, Phase, LastRecord, Retryable
<1>3. HistoryTellsAttempts' /\ VerdictFollowsLastAttempt' /\ AttemptBuiltinScoped'
    BY DEF BeginAttempt, Phase, TypeOK, HistoryTellsAttempts,
           VerdictFollowsLastAttempt, AttemptBuiltinScoped, LastRecord
<1> QED
    BY <1>1, <1>2, <1>3

LEMMA FinishAttemptIInv == IInv /\ FinishAttempt => IInv'
<1> SUFFICES ASSUME IInv, FinishAttempt PROVE IInv'
    OBVIOUS
<1> USE DEF IInv
<1> PICK a \in Answers :
        /\ answer' = a
        /\ history' = Append(history,
              [attempt |-> attempt, err |-> a.err,
               retryable |-> ShouldRetry(config, a),
               delay |-> RecordedDelay(config, attempt, ShouldRetry(config, a))])
    BY DEF FinishAttempt
<1> DEFINE record == [attempt |-> attempt, err |-> a.err,
                      retryable |-> ShouldRetry(config, a),
                      delay |-> RecordedDelay(config, attempt, ShouldRetry(config, a))]
<1>1. record \in Records(config) /\ history \in Seq(Records(config))
    BY RecordType DEF TypeOK
<1>2. /\ history' \in Seq(Records(config))
      /\ Len(history') = Len(history) + 1
      /\ Len(history) \in Nat
      /\ \A k \in 1..Len(history) : history'[k] = history[k]
      /\ history'[Len(history) + 1] = record
    BY <1>1, AppendProperties, LenProperties
<1>3. Len(history) = attempt - 1
    BY DEF FinishAttempt, HistoryTellsAttempts
<1>4. LastRecord' = record
    BY <1>2 DEF LastRecord
<1>5. TypeOK'
    BY <1>2, ConfigTypes DEF TypeOK, FinishAttempt, Phase
<1>6. Phase'
    BY <1>4 DEF FinishAttempt, Phase, Retryable
<1>7. HistoryTellsAttempts'
  <2>1. Len(history') = attempt
      BY <1>2, <1>3, ConfigTypes
  <2>2. \A k \in 1..Len(history') : history'[k].attempt = k
      BY <1>2, <1>3, ConfigTypes DEF HistoryTellsAttempts
  <2>3. \A k \in 1..Len(history') - 1 :
            history'[k].retryable /\ history'[k].delay = NextDelay(config, k)
      BY <1>2, <1>3, ConfigTypes
         DEF HistoryTellsAttempts, FinishAttempt, Phase, LastRecord
  <2> QED
      BY <2>1, <2>2, <2>3 DEF HistoryTellsAttempts, FinishAttempt
<1>8. VerdictFollowsLastAttempt' /\ AttemptBuiltinScoped'
    BY DEF FinishAttempt, VerdictFollowsLastAttempt, AttemptBuiltinScoped
<1> QED
    BY <1>5, <1>6, <1>7, <1>8

(* Where Execute returns or panics, what history tells stays as it is.      *)
LEMMA HistoryKept ==
    ASSUME IInv, pc \in {"judging", "waiting"},
           UNCHANGED <<config, attempt, answer, history>>,
           pc' \in {"judging", "waiting", "returned", "panicked"},
           pc' = "returned" /\ returned' # "context" =>
               ~Retryable \/ attempt = config.max
    PROVE  HistoryTellsAttempts' /\ LastRecordTellsAnswer'
<1>1. LastRecord' = LastRecord /\ Retryable' = Retryable
    BY DEF LastRecord, Retryable
<1>2. LastRecordTellsAnswer
    BY DEF IInv, Phase
<1>3. LastRecordTellsAnswer'
    BY <1>1, <1>2
<1>4. pc' = "returned" /\ returned' # "context" => LastRecord'.delay = 0
    BY <1>1, <1>2, ConfigTypes DEF RecordedDelay, IInv
<1> QED
    BY <1>1, <1>3, <1>4 DEF IInv, HistoryTellsAttempts

(* Each way Execute returns, with the verdict it gives. *)
LEMMA ReturnIInv ==
    ASSUME IInv, pc \in {"judging", "waiting"},
           NEW succeeded \in BOOLEAN, NEW stoppedEarly \in BOOLEAN,
           NEW err \in {"none", "block", "exhausted", "context"},
           Return(succeeded, stoppedEarly, err),
           succeeded <=> err = "none",
           err = "none" => ~answer.err /\ ~Retryable,
           err # "context" => ~Retryable \/ attempt = config.max,
           err \in {"block", "exhausted"} =>
               attempt = config.max \/ (answer.err /\ ~Retryable),
           err = "exhausted" => Retryable /\ ~answer.err,
           err = "context" => ctxDone /\ Retryable /\ attempt # config.max
    PROVE  IInv'
<1> USE DEF Return
<1>1. HistoryTellsAttempts' /\ LastRecordTellsAnswer'
    BY HistoryKept
<1>2. LastRecord' = LastRecord /\ Retryable' = Retryable
    BY DEF LastRecord, Retryable
<1>3. Retryable \in BOOLEAN
    BY ShouldRetryType DEF Retryable, IInv, TypeOK
<1>4. TypeOK'
    BY <1>3, ConfigTypes DEF IInv, TypeOK, Outputs
<1>5. Phase'
    BY <1>1 DEF IInv, Phase
<1>6. VerdictFollowsLastAttempt'
  <2>1. Len(history) = attempt /\ attempt \in 1..config.max /\ config.max \in Nat
      BY ConfigTypes DEF IInv, HistoryTellsAttempts, TypeOK
  <2>2. /\ LastRecord.err = answer.err
        /\ LastRecord.retryable = Retryable
      BY DEF IInv, Phase
  <2>3. answer.err \in BOOLEAN
      BY DEF IInv, TypeOK, Answers
  <2> QED
      BY <1>2, <1>3, <2>1, <2>2, <2>3 DEF VerdictFollowsLastAttempt
<1>7. AttemptBuiltinScoped'
    BY DEF IInv, Phase, AttemptBuiltinScoped
<1> QED
    BY <1>1, <1>4, <1>5, <1>6, <1>7 DEF IInv

LEMMA SucceedIInv == IInv /\ Succeed => IInv'
    BY ReturnIInv DEF Succeed

LEMMA GiveUpIInv == IInv /\ GiveUp => IInv'
    BY ReturnIInv, ConfigTypes DEF GiveUp, IInv

LEMMA ExhaustIInv == IInv /\ Exhaust => IInv'
<1> SUFFICES ASSUME IInv, Exhaust PROVE IInv'
    OBVIOUS
<1>1. pc = "judging" /\ Retryable /\ attempt = config.max
    BY DEF Exhaust
<1>2. CASE answer.err
  <2>1. Return(FALSE, FALSE, "block")
      BY <1>2 DEF Exhaust
  <2> QED
      BY <1>1, <2>1, ReturnIInv
<1>3. CASE ~answer.err
  <2>1. Return(FALSE, FALSE, "exhausted")
      BY <1>3 DEF Exhaust
  <2> QED
      BY <1>1, <1>3, <2>1, ReturnIInv
<1> QED
    BY <1>2, <1>3

LEMMA BeginWaitIInv == IInv /\ BeginWait => IInv'
<1> SUFFICES ASSUME IInv, BeginWait PROVE IInv'
    OBVIOUS
<1> USE DEF BeginWait
<1>1. HistoryTellsAttempts' /\ LastRecordTellsAnswer'
    BY HistoryKept
<1>2. TypeOK'
    BY DEF IInv, TypeOK
<1>3. Phase'
    BY <1>1 DEF IInv, Phase, Retryable
<1>4. VerdictFollowsLastAttempt' /\ AttemptBuiltinScoped'
    BY DEF IInv, VerdictFollowsLastAttempt, AttemptBuiltinScoped
<1> QED
    BY <1>1, <1>2, <1>3, <1>4 DEF IInv

LEMMA WaitElapsesIInv == IInv /\ WaitElapses => IInv'
<1> SUFFICES ASSUME IInv, WaitElapses PROVE IInv'
    OBVIOUS
<1> USE DEF WaitElapses
<1>1. attempt \in 1..config.max /\ config.max \in Nat /\ attempt # config.max
    BY ConfigTypes DEF IInv, TypeOK, Phase
<1>2. Len(history) = attempt
    BY DEF IInv, HistoryTellsAttempts
<1>3. LastRecord' = LastRecord
    BY DEF LastRecord
<1>4. LastRecord.retryable /\ LastRecord.delay = NextDelay(config, attempt)
  <2>1. Retryable /\ attempt < config.max
      BY <1>1 DEF IInv, Phase
  <2>2. LastRecord = [attempt |-> attempt, err |-> answer.err, retryable |-> Retryable,
                      delay |-> RecordedDelay(config, attempt, Retryable)]
      BY DEF IInv, Phase
  <2> QED
      BY <2>1, <2>2 DEF RecordedDelay
<1>5. TypeOK'
    BY <1>1 DEF IInv, TypeOK
<1>6. Phase'
    BY <1>1, <1>3, <1>4 DEF IInv, Phase
<1>7. HistoryTellsAttempts'
    BY <1>1, <1>2 DEF IInv, HistoryTellsAttempts
<1>8. VerdictFollowsLastAttempt' /\ AttemptBuiltinScoped'
    BY DEF IInv, VerdictFollowsLastAttempt, AttemptBuiltinScoped
<1> QED
    BY <1>5, <1>6, <1>7, <1>8 DEF IInv

LEMMA WaitCancelledIInv == IInv /\ WaitCancelled => IInv'
<1> SUFFICES ASSUME IInv, WaitCancelled PROVE IInv'
    OBVIOUS
<1>1. pc = "waiting" /\ Retryable /\ attempt # config.max /\ ctxDone
    BY DEF WaitCancelled, IInv, Phase
<1>2. CASE answer.err /\ Return(FALSE, FALSE, "context")
    BY <1>1, <1>2, ReturnIInv
<1>3. CASE /\ pc' = "panicked"
           /\ builtin' = 0
           /\ UNCHANGED <<config, attempt, answer, history, open, output,
                          returned, ctxDone>>
  <2>1. HistoryTellsAttempts' /\ LastRecordTellsAnswer'
      BY <1>1, <1>3, HistoryKept
  <2>2. TypeOK'
      BY <1>3, ConfigTypes DEF IInv, TypeOK
  <2>3. Phase'
      BY <1>1, <1>3, <2>1 DEF IInv, Phase, Retryable
  <2>4. VerdictFollowsLastAttempt' /\ AttemptBuiltinScoped'
      BY <1>1, <1>3 DEF IInv, Phase, VerdictFollowsLastAttempt, AttemptBuiltinScoped
  <2> QED
      BY <2>1, <2>2, <2>3, <2>4 DEF IInv
<1> QED
    BY <1>2, <1>3 DEF WaitCancelled

LEMMA CancelIInv == IInv /\ Cancel => IInv'
<1> SUFFICES ASSUME IInv, Cancel PROVE IInv'
    OBVIOUS
<1>1. UNCHANGED <<config, pc, attempt, answer, history, builtin, open, output,
                  returned>> /\ ctxDone' = TRUE /\ pc # "returned"
    BY DEF Cancel
<1>2. LastRecord' = LastRecord /\ Retryable' = Retryable
    BY <1>1 DEF LastRecord, Retryable
<1>3. TypeOK'
    BY <1>1 DEF IInv, TypeOK
<1>4. Phase'
    BY <1>1, <1>2 DEF IInv, Phase
<1>5. HistoryTellsAttempts' /\ VerdictFollowsLastAttempt' /\ AttemptBuiltinScoped'
    BY <1>1, <1>2 DEF IInv, HistoryTellsAttempts, VerdictFollowsLastAttempt,
                      AttemptBuiltinScoped
<1> QED
    BY <1>3, <1>4, <1>5 DEF IInv

LEMMA StutterIInv == IInv /\ UNCHANGED vars => IInv'
<1> SUFFICES ASSUME IInv, UNCHANGED vars PROVE IInv'
    OBVIOUS
<1> USE DEF vars
<1>1. LastRecord' = LastRecord /\ Retryable' = Retryable
    BY DEF LastRecord, Retryable
<1>2. TypeOK' /\ Phase'
    BY <1>1 DEF IInv, TypeOK, Phase
<1>3. HistoryTellsAttempts' /\ VerdictFollowsLastAttempt' /\ AttemptBuiltinScoped'
    BY <1>1 DEF IInv, HistoryTellsAttempts, VerdictFollowsLastAttempt,
                AttemptBuiltinScoped
<1> QED
    BY <1>2, <1>3 DEF IInv

LEMMA NextIInv == IInv /\ [Next]_vars => IInv'
    BY BeginAttemptIInv, FinishAttemptIInv, SucceedIInv, GiveUpIInv, ExhaustIInv,
       BeginWaitIInv, WaitElapsesIInv, WaitCancelledIInv, CancelIInv, StutterIInv
    DEF Next, Progress, Terminated

----------------------------------------------------------------------------
(* Every reachable state of a retry block satisfies the inductive invariant.*)
THEOREM Invariance == Spec => []IInv
    BY InitIInv, NextIInv, PTL DEF Spec

(* The state of an execution of retry keeps its types: the attempt never    *)
(* passes the budget, and attempts are announced one at a time.             *)
THEOREM TypeCorrect == Spec => []TypeOK
<1>1. IInv => TypeOK
    BY DEF IInv
<1> QED
    BY <1>1, Invariance, PTL

(* history holds one record per attempt in order, every one but the last    *)
(* retryable, with the delay that the next attempt waited for, and 0 where  *)
(* Execute returned without another attempt.                                *)
THEOREM HistoryCorrect == Spec => []HistoryTellsAttempts
<1>1. IInv => HistoryTellsAttempts
    BY DEF IInv
<1> QED
    BY <1>1, Invariance, PTL

(* What Execute returns follows from its last attempt: a failure is an      *)
(* error that no rule retries or a spent budget, and only the context cuts  *)
(* the attempts short.                                                      *)
THEOREM VerdictCorrect == Spec => []VerdictFollowsLastAttempt
<1>1. IInv => VerdictFollowsLastAttempt
    BY DEF IInv
<1> QED
    BY <1>1, Invariance, PTL

(* The nested block reads its own attempt number, and none is left behind   *)
(* once Execute is left, by a return or by the panic.                       *)
THEOREM BuiltinsScoped == Spec => []AttemptBuiltinScoped
<1>1. IInv => AttemptBuiltinScoped
    BY DEF IInv
<1> QED
    BY <1>1, Invariance, PTL

=============================================================================
