---------------------------- MODULE RunnerProofs ----------------------------
(***************************************************************************)
(* Proofs about Runner, for every set of workflows, names and values and   *)
(* every iteration cap.                                                    *)
(***************************************************************************)
EXTENDS Runner, SequenceTheorems, WellFoundedInduction, TLAPS

(* A nonempty set of naturals has a least element. *)
LEMMA LeastNatural ==
    ASSUME NEW T \in SUBSET Nat, T # {}
    PROVE  \E m \in T : \A n \in T : m <= n
<1>1. PICK m \in T : \A n \in T : <<n, m>> \notin OpToRel(<, Nat)
    BY NatLessThanWellFounded, WFMin
<1>2. \A n \in T : ~(n < m)
    BY <1>1 DEF OpToRel
<1> QED
    BY <1>2

(* A nonempty set of indices of a sequence has a greatest element. *)
LEMMA GreatestIndex ==
    ASSUME NEW N \in Nat, NEW T \in SUBSET (1..N), T # {}
    PROVE  \E m \in T : \A n \in T : n <= m
<1> DEFINE D == {d \in 0..N : N - d \in T}
<1>1. D \in SUBSET Nat /\ D # {}
  <2>1. PICK t \in T : TRUE
      OBVIOUS
  <2>2. N - t \in 0..N /\ N - (N - t) = t
      OBVIOUS
  <2>3. N - t \in D
      BY <2>2
  <2>4. D \in SUBSET Nat
      OBVIOUS
  <2> QED
      BY <2>3, <2>4
<1>2. PICK d \in D : \A e \in D : d <= e
    BY <1>1, LeastNatural
<1>3. \A n \in T : n <= N - d
  <2> TAKE n \in T
  <2>1. N - n \in D
      OBVIOUS
  <2> QED
      BY <1>2, <2>1
<1> QED
    BY <1>2, <1>3

(* The target of a jump is the index of a step. *)
LEMMA JumpTargetIsIndex ==
    ASSUME TypeOK, NEW id, Targets(id) # {}
    PROVE  /\ JumpTarget(id) \in Targets(id)
           /\ JumpTarget(id) \in 1..Len(wf.steps)
           /\ \A i \in Targets(id) : i <= JumpTarget(id)
<1>1. Len(wf.steps) \in Nat
    BY WorkflowsAssumption DEF TypeOK, Definitions
<1>2. Targets(id) \in SUBSET (1..Len(wf.steps))
    BY DEF Targets
<1>3. \E i \in Targets(id) : \A j \in Targets(id) : j <= i
    BY <1>1, <1>2, GreatestIndex
<1> QED
    BY <1>2, <1>3 DEF JumpTarget

(* What the runner reads of its definition has the types it expects. *)
LEMMA DefinitionTypes ==
    ASSUME TypeOK
    PROVE  /\ wf.steps \in Seq(Steps)
           /\ wf.onError \in Seq(Steps)
           /\ \A i \in 1..Len(wf.steps) : wf.steps[i] \in Steps
           /\ \A i \in 1..Len(wf.onError) : wf.onError[i] \in Steps
    BY WorkflowsAssumption DEF TypeOK, Definitions

(* Whatever a step assigns, the runtime variables keep their type. *)
LEMMA AssignType ==
    ASSUME TypeOK, NEW step \in Steps, NEW update \in Updates(step)
    PROVE  Assign(update) \in [Names -> Values]
<1>1. \A n \in DOMAIN update : update[n] \in Values
  <2>1. step.assign \in SUBSET Names /\ step.exports \in SUBSET Names
        /\ step.value \in Values
      BY DEF Steps
  <2>2. CASE step.block = "set"
      BY <2>1, <2>2 DEF Updates
  <2>3. CASE step.block \in {"call", "composite"}
    <3>1. CASE update \in [step.exports -> Values]
        BY <3>1
    <3>2. CASE update \in UNION {[S -> Values] : S \in SUBSET step.assign \ {{}}}
        BY <3>2
    <3> QED
        BY <2>3, <3>1, <3>2 DEF Updates
  <2>4. CASE step.block \notin {"set", "call", "composite"}
      BY <2>4 DEF Updates
  <2> QED
      BY <2>2, <2>3, <2>4
<1> QED
    BY <1>1 DEF TypeOK, Assign

(* Recording a status keeps the types of results and finished. *)
LEMMA RecordType ==
    ASSUME TypeOK, NEW status \in MainStatuses, Record(status)
    PROVE  results' \in Seq(Results) /\ finished' \in Seq(Results)
    BY DEF TypeOK, Record, Result, Results

----------------------------------------------------------------------------
(* The inductive invariant.  The properties do not say what the runner      *)
(* relies on before a failure: that no result is a handler's yet, that no   *)
(* error is set, that the step in hand is one of the definition, and that a *)
(* jump that waits has a target.  Phase does, phase by phase.               *)

InLoop == pc \in {"loop", "executing", "waiting"}

InChain == pc \in {"handling", "handlerExecuting"}

Phase ==
    /\ pc \in {"executing", "waiting"} => index <= Len(wf.steps)
    /\ pc = "waiting" => Targets(Step.target) # {}
    /\ InLoop =>
          /\ runErr = "none"
          /\ errorIndex = 0
          /\ hindex = 1
          /\ Len(results) = Len(finished)
          /\ \A k \in 1..Len(finished) : finished[k].status # "failed"
    /\ InChain =>
          /\ runErr = "step"
          /\ hindex <= Len(wf.onError)
          /\ finished # <<>>
          /\ LastFinished.status = "failed"
          /\ Len(results) = Len(finished) + (hindex - 1)
          /\ \A k \in 1..hindex - 1 :
                results[Len(finished) + k].status = "error-handler-ok"

IInv ==
    /\ TypeOK
    /\ Phase
    /\ ObserverMirrorsResults
    /\ NothingAfterFailure
    /\ CatchChain
    /\ ErrorBuiltinsNameFailedStep

LEMMA InitIInv == Init => IInv
<1> SUFFICES ASSUME Init PROVE IInv
    OBVIOUS
<1>1. TypeOK
  <2>1. store \in [Names -> Values]
      BY NamesAssumption DEF Init
  <2>2. <<>> \in Seq(Results) /\ <<>> \in Seq(Nat \ {0})
      OBVIOUS
  <2>3. pc \in PCs /\ runErr \in RunErrors
      BY DEF Init, PCs, RunErrors
  <2>4. /\ wf \in Workflows /\ index \in Nat \ {0} /\ hindex \in Nat \ {0}
        /\ iterations \in Nat /\ errorIndex \in Nat
      BY DEF Init
  <2>5. ctxDone \in BOOLEAN
      BY Zenon DEF Init
  <2>6. results = <<>> /\ started = <<>> /\ finished = <<>>
      BY DEF Init
  <2> QED
      BY <2>1, <2>2, <2>3, <2>4, <2>5, <2>6 DEF TypeOK
<1>2. Phase
    BY DEF Init, Phase, InLoop, InChain
<1>3. ObserverMirrorsResults
    BY DEF Init, ObserverMirrorsResults
<1>4. NothingAfterFailure /\ CatchChain /\ ErrorBuiltinsNameFailedStep
    BY DEF Init, NothingAfterFailure, CatchChain, ErrorBuiltinsNameFailedStep
<1> QED
    BY <1>1, <1>2, <1>3, <1>4 DEF IInv

(* The step in hand has been announced and is not finished: what EnterStep  *)
(* establishes and an executing step still has.                             *)
Announced ==
    /\ pc \in {"loop", "executing"}
    /\ index <= Len(wf.steps)
    /\ started' \in Seq(Nat \ {0})
    /\ Len(started') = Len(finished) + 1
    /\ started'[Len(finished) + 1] = index
    /\ \A k \in 1..Len(finished) : started'[k] = started[k]

(* What a step may change besides the results and the place of the runner. *)
Frame ==
    /\ wf' = wf
    /\ iterations' \in Nat
    /\ store' \in [Names -> Values]
    /\ ctxDone' \in BOOLEAN

LEMMA EnterAnnounces ==
    ASSUME IInv, EnterStep
    PROVE  Announced /\ iterations' \in Nat
    BY DEF IInv, TypeOK, EnterStep, Announced, ObserverMirrorsResults

LEMMA ExecutingAnnounced ==
    ASSUME IInv, pc = "executing", UNCHANGED started
    PROVE  Announced
    BY DEF IInv, TypeOK, Phase, Announced, ObserverMirrorsResults

(* Recording a step that does not fail the run keeps the invariant, whether *)
(* the loop goes on or waits for a jump.                                    *)
LEMMA RecordIInv ==
    ASSUME IInv, Announced, Frame,
           NEW status \in MainStatuses \ {"failed"}, Record(status),
           pc' \in {"loop", "waiting"}, index' \in Nat \ {0},
           pc' = "waiting" => UNCHANGED index /\ Targets(Step.target) # {},
           UNCHANGED <<hindex, errorIndex, runErr>>
    PROVE  IInv'
<1> DEFINE r == Result(index, status)
<1>1. r \in Results /\ r.index = index /\ r.status = status
    BY DEF IInv, TypeOK, Result, Results
<1>2. finished' = Append(finished, r) /\ results' = Append(results, r)
    BY DEF Record
<1>3. finished \in Seq(Results) /\ results \in Seq(Results)
    BY DEF IInv, TypeOK
<1>4. /\ pc' \in {"loop", "waiting"}
      /\ index' \in Nat \ {0}
      /\ pc' = "waiting" => index' <= Len(wf.steps) /\ Targets(Step.target)' # {}
      /\ UNCHANGED <<wf, hindex, errorIndex, runErr>>
    BY DEF Frame, Announced, Targets, Step
<1>5. TypeOK'
    BY <1>1, <1>2, <1>3, <1>4 DEF IInv, TypeOK, Announced, Frame, PCs
<1>6. /\ Len(finished') = Len(finished) + 1
      /\ finished'[Len(finished')] = r
      /\ \A k \in 1..Len(finished) : finished'[k] = finished[k]
      /\ \A k \in 1..Len(results) : results'[k] = results[k]
      /\ Len(results') = Len(results) + 1
      /\ results'[Len(results')] = r
    BY <1>1, <1>2, <1>3
<1>7. /\ runErr = "none" /\ errorIndex = 0 /\ hindex = 1
      /\ Len(results) = Len(finished)
      /\ \A k \in 1..Len(finished) : finished[k].status # "failed"
    BY DEF IInv, Phase, InLoop, Announced
<1>8. Phase'
    BY <1>1, <1>3, <1>4, <1>6, <1>7 DEF Phase, InLoop, InChain
<1>9. ObserverMirrorsResults'
  <2>1. ObserverMirrorsResults /\ Len(finished) \in Nat /\ Len(results) \in Nat
      BY <1>3 DEF IInv
  <2>2. Len(started') = Len(finished')
      BY <1>6 DEF Announced
  <2>3. \A k \in 1..Len(finished') : finished'[k] = results'[k]
      BY <2>1, <1>6, <1>7 DEF ObserverMirrorsResults
  <2>4. \A k \in 1..Len(finished') : finished'[k].index = started'[k]
    <3>1. \A k \in 1..Len(finished) : finished'[k].index = started'[k]
        BY <2>1, <1>6 DEF ObserverMirrorsResults, Announced
    <3>2. finished'[Len(finished')].index = started'[Len(finished')]
        BY <1>1, <1>6 DEF Announced
    <3> QED
        BY <3>1, <3>2, <2>1, <1>6
  <2>5. \A k \in 1..Len(finished') : finished'[k].status \in MainStatuses
      BY <2>1, <1>1, <1>6 DEF ObserverMirrorsResults
  <2> QED
      BY <2>1, <2>2, <2>3, <2>4, <2>5, <1>4, <1>6, <1>7
      DEF ObserverMirrorsResults
<1>10. NothingAfterFailure'
    BY <1>1, <1>3, <1>4, <1>6, <1>7 DEF NothingAfterFailure, LastFinished
<1>11. CatchChain'
    BY <1>1, <1>3, <1>4, <1>6, <1>7 DEF CatchChain
<1>12. ErrorBuiltinsNameFailedStep'
    BY <1>1, <1>3, <1>4, <1>6, <1>7 DEF ErrorBuiltinsNameFailedStep, LastFinished
<1> QED
    BY <1>5, <1>8, <1>9, <1>10, <1>11, <1>12 DEF IInv

(* A failed step keeps the invariant, ignored or not. *)
LEMMA FailIInv ==
    ASSUME IInv, Announced, Frame, NEW step, Fail(step)
    PROVE  IInv'
<1>1. CASE Continue("ignored-error", index + 1)
  <2>1. index + 1 \in Nat \ {0}
      BY DEF IInv, TypeOK
  <2> QED
      BY <1>1, <2>1, RecordIInv DEF Continue, MainStatuses
<1>2. CASE /\ Record("failed")
           /\ errorIndex' = index
           /\ runErr' = "step"
           /\ pc' = IF wf.onError = <<>> THEN "done" ELSE "handling"
           /\ UNCHANGED <<index, hindex>>
  <2> DEFINE r == Result(index, "failed")
  <2>1. /\ r \in Results /\ r.index = index /\ r.status = "failed"
        /\ r.status \in MainStatuses
      BY DEF IInv, TypeOK, Result, Results, MainStatuses
  <2>2. finished' = Append(finished, r) /\ results' = Append(results, r)
      BY <1>2 DEF Record
  <2>3. finished \in Seq(Results) /\ results \in Seq(Results)
      BY DEF IInv, TypeOK
  <2>4. /\ Len(finished') = Len(finished) + 1
        /\ finished'[Len(finished')] = r
        /\ \A k \in 1..Len(finished) : finished'[k] = finished[k]
        /\ \A k \in 1..Len(results) : results'[k] = results[k]
        /\ Len(results') = Len(results) + 1
        /\ results'[Len(results')] = r
        /\ finished' # <<>>
      BY <2>1, <2>2, <2>3
  <2>5. /\ runErr = "none" /\ errorIndex = 0 /\ hindex = 1
        /\ Len(results) = Len(finished)
        /\ \A k \in 1..Len(finished) : finished[k].status # "failed"
      BY DEF IInv, Phase, InLoop, Announced
  <2>6. wf.onError \in Seq(Steps) /\ (wf.onError # <<>> => Len(wf.onError) \in Nat \ {0})
      BY DefinitionTypes DEF IInv
  <2>7. /\ wf' = wf
        /\ pc' \in {"handling", "done"}
        /\ pc' = "handling" => wf.onError # <<>>
        /\ pc' = "done" => Len(wf.onError) = 0
      BY <1>2, <2>6 DEF Frame
  <2>8. TypeOK'
      BY <1>2, <2>1, <2>2, <2>3, <2>7 DEF IInv, TypeOK, Announced, Frame, PCs, RunErrors
  <2>9. Phase'
      BY <1>2, <2>1, <2>3, <2>4, <2>5, <2>6, <2>7 DEF Phase, InLoop, InChain, LastFinished
  <2>10. ObserverMirrorsResults'
    <3>1. ObserverMirrorsResults /\ Len(finished) \in Nat /\ Len(results) \in Nat
        BY <2>3 DEF IInv
    <3>2. Len(started') = Len(finished')
        BY <2>4 DEF Announced
    <3>3. \A k \in 1..Len(finished') : finished'[k] = results'[k]
        BY <3>1, <2>4, <2>5 DEF ObserverMirrorsResults
    <3>4. \A k \in 1..Len(finished') : finished'[k].index = started'[k]
      <4>1. \A k \in 1..Len(finished) : finished'[k].index = started'[k]
          BY <3>1, <2>4 DEF ObserverMirrorsResults, Announced
      <4>2. finished'[Len(finished')].index = started'[Len(finished')]
          BY <2>1, <2>4 DEF Announced
      <4> QED
          BY <4>1, <4>2, <3>1, <2>4
    <3>5. \A k \in 1..Len(finished') : finished'[k].status \in MainStatuses
        BY <3>1, <2>1, <2>4 DEF ObserverMirrorsResults
    <3> QED
        BY <3>1, <3>2, <3>3, <3>4, <3>5, <2>4, <2>5, <2>7
        DEF ObserverMirrorsResults
  <2>11. NothingAfterFailure'
      BY <2>1, <2>3, <2>4, <2>5, <2>7 DEF NothingAfterFailure, LastFinished
  <2>12. CatchChain'
      BY <1>2, <2>1, <2>3, <2>4, <2>5, <2>6, <2>7 DEF CatchChain, LastFinished
  <2>13. ErrorBuiltinsNameFailedStep'
      BY <1>2, <2>1, <2>3, <2>4, <2>5, <2>7 DEF ErrorBuiltinsNameFailedStep, LastFinished
  <2> QED
      BY <2>8, <2>9, <2>10, <2>11, <2>12, <2>13 DEF IInv
<1> QED
    BY <1>1, <1>2 DEF Fail

(* So does a step of the environment, or one that only assigns variables.   *)
LEMMA SameIInv ==
    ASSUME IInv, Frame,
           UNCHANGED <<pc, index, hindex, results, started, finished,
                       errorIndex, runErr>>
    PROVE  IInv'
<1>1. TypeOK'
    BY DEF IInv, TypeOK, Frame
<1>2. Phase'
    BY DEF IInv, Phase, InLoop, InChain, LastFinished, Frame, Targets, Step
<1>3. ObserverMirrorsResults' /\ NothingAfterFailure'
    BY DEF IInv, ObserverMirrorsResults, NothingAfterFailure, LastFinished
<1>4. CatchChain' /\ ErrorBuiltinsNameFailedStep'
    BY DEF IInv, CatchChain, ErrorBuiltinsNameFailedStep, LastFinished, Frame
<1> QED
    BY <1>1, <1>2, <1>3, <1>4 DEF IInv

(* Between steps the runner moves without touching what it has recorded. *)
LEMMA MoveIInv ==
    ASSUME IInv, Frame, pc \in {"loop", "waiting"},
           UNCHANGED <<hindex, results, started, finished, errorIndex>>,
           index' \in Nat \ {0},
           \/ pc' = "loop" /\ UNCHANGED runErr
           \/ pc' = "done" /\ runErr' \in {"none", "iterations", "context"}
    PROVE  IInv'
<1>1. /\ runErr = "none" /\ errorIndex = 0 /\ hindex = 1
      /\ Len(results) = Len(finished)
      /\ \A k \in 1..Len(finished) : finished[k].status # "failed"
    BY DEF IInv, Phase, InLoop
<1>2. finished \in Seq(Results) /\ results \in Seq(Results)
    BY DEF IInv, TypeOK
<1>3. TypeOK'
    BY DEF IInv, TypeOK, Frame, PCs, RunErrors
<1>4. Phase'
    BY <1>1 DEF Phase, InLoop, InChain
<1>5. ObserverMirrorsResults'
    BY DEF IInv, ObserverMirrorsResults
<1>6. NothingAfterFailure'
    BY <1>1, <1>2 DEF NothingAfterFailure, LastFinished
<1>7. CatchChain'
    BY <1>1, <1>2 DEF CatchChain
<1>8. ErrorBuiltinsNameFailedStep'
    BY DEF IInv, ErrorBuiltinsNameFailedStep, LastFinished
<1> QED
    BY <1>3, <1>4, <1>5, <1>6, <1>7, <1>8 DEF IInv

(* A handler that fails ends the run. *)
LEMMA HandlerFailsIInv ==
    ASSUME IInv, Frame, InChain, HandlerFails,
           UNCHANGED <<index, started, finished, errorIndex>>
    PROVE  IInv'
<1> DEFINE r == Result(hindex, "error-handler-failed")
<1>1. /\ r \in Results /\ r.index = hindex
      /\ r.status = "error-handler-failed"
      /\ r.status \in HandlerStatuses
    BY DEF IInv, TypeOK, Result, Results, HandlerStatuses
<1>2. finished \in Seq(Results) /\ results \in Seq(Results)
    BY DEF IInv, TypeOK
<1>3. /\ results' = Append(results, r)
      /\ pc' = "done" /\ runErr' = "step+handler" /\ hindex' = hindex
    BY DEF HandlerFails, Return
<1>4. /\ Len(results') = Len(results) + 1
      /\ results'[Len(results) + 1] = r
      /\ \A k \in 1..Len(results) : results'[k] = results[k]
    BY <1>1, <1>2, <1>3
<1>5. /\ hindex \in Nat \ {0}
      /\ finished # <<>>
      /\ LastFinished.status = "failed"
      /\ Len(results) = Len(finished) + (hindex - 1)
      /\ \A k \in 1..hindex - 1 :
            results[Len(finished) + k].status = "error-handler-ok"
    BY DEF IInv, TypeOK, Phase, InChain
<1>6. TypeOK'
    BY <1>1, <1>2, <1>3 DEF IInv, TypeOK, Frame, PCs, RunErrors
<1>7. Phase'
    BY <1>3 DEF Phase, InLoop, InChain
<1>8. ObserverMirrorsResults'
    BY <1>1, <1>2, <1>3, <1>4, <1>5 DEF IInv, InChain, ObserverMirrorsResults
<1>9. NothingAfterFailure'
    BY <1>3 DEF IInv, NothingAfterFailure, LastFinished
<1>10. CatchChain'
  <2> DEFINE handled == Len(results) - Len(finished)
  <2>1. Len(finished) \in Nat /\ Len(results) \in Nat /\ handled = hindex - 1
      BY <1>2, <1>5
  <2>2. \A k \in 1..handled : results[Len(finished) + k].index = k
      BY DEF IInv, CatchChain
  <2>3. Len(results') - Len(finished') = hindex
      BY <1>4, <1>5, <2>1
  <2>4. \A k \in 1..hindex :
           /\ results'[Len(finished) + k].index = k
           /\ results'[Len(finished) + k].status = "error-handler-failed" =>
                 k = hindex
    <3> TAKE k \in 1..hindex
    <3>1. CASE k = hindex
        BY <3>1, <1>1, <1>4, <1>5, <2>1
    <3>2. CASE k \in 1..hindex - 1
      <4>1. results'[Len(finished) + k] = results[Len(finished) + k]
          BY <3>2, <1>4, <1>5, <2>1
      <4> QED
          BY <3>2, <4>1, <1>5, <2>1, <2>2
    <3> QED
        BY <3>1, <3>2, <1>5
  <2>5. results'[Len(results')].status = "error-handler-failed"
      BY <1>1, <1>4
  <2>6. finished' # <<>> /\ LastFinished'.status = "failed"
      BY <1>5 DEF LastFinished
  <2> HIDE DEF r, handled
  <2> QED
      BY <1>3, <1>5, <2>3, <2>4, <2>5, <2>6 DEF CatchChain
<1>11. ErrorBuiltinsNameFailedStep'
    BY DEF IInv, ErrorBuiltinsNameFailedStep, LastFinished
<1> QED
    BY <1>6, <1>7, <1>8, <1>9, <1>10, <1>11 DEF IInv

(* A handler that succeeds hands over to the next one, or ends the run. *)
LEMMA HandlerSucceedsIInv ==
    ASSUME IInv, Frame, InChain,
           results' = Append(results, Result(hindex, "error-handler-ok")),
           hindex' = hindex + 1,
           pc' = IF hindex = Len(wf.onError) THEN "done" ELSE "handling",
           UNCHANGED <<index, started, finished, errorIndex, runErr>>
    PROVE  IInv'
<1> DEFINE r == Result(hindex, "error-handler-ok")
<1>1. /\ r \in Results /\ r.index = hindex
      /\ r.status = "error-handler-ok"
      /\ r.status \in HandlerStatuses
    BY DEF IInv, TypeOK, Result, Results, HandlerStatuses
<1>2. finished \in Seq(Results) /\ results \in Seq(Results)
    BY DEF IInv, TypeOK
<1>3. /\ Len(results') = Len(results) + 1
      /\ results'[Len(results) + 1] = r
      /\ \A k \in 1..Len(results) : results'[k] = results[k]
    BY <1>1, <1>2
<1>4. /\ hindex \in Nat \ {0}
      /\ hindex <= Len(wf.onError)
      /\ runErr = "step"
      /\ finished # <<>>
      /\ LastFinished.status = "failed"
      /\ Len(results) = Len(finished) + (hindex - 1)
      /\ \A k \in 1..hindex - 1 :
            results[Len(finished) + k].status = "error-handler-ok"
    BY DEF IInv, TypeOK, Phase, InChain
<1>5. Len(wf.onError) \in Nat /\ wf' = wf
    BY DefinitionTypes DEF IInv, Frame
<1>6. Len(finished) \in Nat /\ Len(results) \in Nat
    BY <1>2
<1>7. /\ pc' \in {"handling", "done"}
      /\ pc' = "handling" => hindex + 1 <= Len(wf.onError)
      /\ pc' = "done" => hindex = Len(wf.onError)
    BY <1>4, <1>5
<1>8. \A k \in 1..hindex :
         /\ results'[Len(finished) + k].index = k
         /\ results'[Len(finished) + k].status = "error-handler-ok"
  <2>1. \A k \in 1..hindex - 1 : results[Len(finished) + k].index = k
      BY <1>4, <1>6 DEF IInv, CatchChain, InChain
  <2> TAKE k \in 1..hindex
  <2>2. CASE k = hindex
      BY <2>2, <1>1, <1>3, <1>4, <1>6
  <2>3. CASE k \in 1..hindex - 1
    <3>1. results'[Len(finished) + k] = results[Len(finished) + k]
        BY <2>3, <1>3, <1>4, <1>6
    <3> QED
        BY <2>3, <3>1, <2>1, <1>4
  <2> QED
      BY <2>2, <2>3, <1>4
<1>9. TypeOK'
    BY <1>1, <1>2, <1>4, <1>7 DEF IInv, TypeOK, Frame, PCs
<1>10. Phase'
  <2>1. hindex' - 1 = hindex /\ finished' = finished
      BY <1>4
  <2>2. Len(results') = Len(finished') + (hindex' - 1)
      BY <2>1, <1>3, <1>4, <1>6
  <2>3. LastFinished' = LastFinished
      BY DEF LastFinished
  <2> HIDE DEF r
  <2> QED
      BY <2>1, <2>2, <2>3, <1>4, <1>5, <1>7, <1>8 DEF Phase, InLoop, InChain
<1>11. ObserverMirrorsResults'
    BY <1>1, <1>3, <1>4, <1>6, <1>7
    DEF IInv, InChain, ObserverMirrorsResults
<1>12. NothingAfterFailure'
    BY <1>7 DEF IInv, NothingAfterFailure, LastFinished
<1>13. CatchChain'
  <2>1. Len(results') - Len(finished') = hindex
      BY <1>3, <1>4, <1>6
  <2>2. finished' # <<>> /\ LastFinished'.status = "failed"
      BY <1>4 DEF LastFinished
  <2>3. \A k \in 1..hindex :
           /\ results'[Len(finished') + k].index = k
           /\ results'[Len(finished') + k].status # "error-handler-failed"
      BY <1>8
  <2>4. /\ hindex' - 1 = hindex
        /\ pc' \in {"handling", "handlerExecuting"} => hindex' <= Len(wf'.onError)
        /\ pc' = "done" => hindex = Len(wf'.onError)
        /\ runErr' = "step"
      BY <1>4, <1>5, <1>7
  <2> HIDE DEF r
  <2> QED
      BY <2>1, <2>2, <2>3, <2>4 DEF CatchChain
<1>14. ErrorBuiltinsNameFailedStep'
    BY DEF IInv, ErrorBuiltinsNameFailedStep, LastFinished
<1> QED
    BY <1>9, <1>10, <1>11, <1>12, <1>13, <1>14 DEF IInv

(* A block starts to execute: of a step, and of a handler. *)
LEMMA BeginExecuteIInv ==
    ASSUME IInv, BeginExecute
    PROVE  IInv'
<1>1. Announced /\ Frame
    BY EnterAnnounces DEF BeginExecute, Frame, IInv, TypeOK
<1>2. TypeOK'
    BY <1>1 DEF BeginExecute, IInv, TypeOK, Announced, Frame, PCs
<1>3. Phase'
    BY <1>1 DEF BeginExecute, EnterStep, IInv, Phase, InLoop, InChain
<1>4. ObserverMirrorsResults'
    BY <1>1
    DEF BeginExecute, EnterStep, IInv, TypeOK, ObserverMirrorsResults, Announced
<1>5. NothingAfterFailure' /\ CatchChain' /\ ErrorBuiltinsNameFailedStep'
  <2>1. NothingAfterFailure'
      BY DEF BeginExecute, EnterStep, IInv, NothingAfterFailure, LastFinished
  <2>2. CatchChain'
      BY DEF BeginExecute, EnterStep, IInv, CatchChain, LastFinished
  <2>3. ErrorBuiltinsNameFailedStep'
      BY DEF BeginExecute, IInv, ErrorBuiltinsNameFailedStep, LastFinished
  <2> QED
      BY <2>1, <2>2, <2>3
<1> QED
    BY <1>2, <1>3, <1>4, <1>5 DEF IInv

LEMMA BeginHandlerIInv ==
    ASSUME IInv, BeginHandler
    PROVE  IInv'
<1>1. TypeOK'
    BY DEF BeginHandler, IInv, TypeOK, PCs
<1>2. Phase'
    BY DEF BeginHandler, IInv, Phase, InLoop, InChain, LastFinished
<1>3. ObserverMirrorsResults' /\ NothingAfterFailure'
    BY DEF BeginHandler, IInv, ObserverMirrorsResults, NothingAfterFailure,
           LastFinished
<1>4. CatchChain' /\ ErrorBuiltinsNameFailedStep'
    BY DEF BeginHandler, IInv, CatchChain, ErrorBuiltinsNameFailedStep,
           LastFinished
<1> QED
    BY <1>1, <1>2, <1>3, <1>4 DEF IInv

----------------------------------------------------------------------------
(* Every step of the runner keeps the invariant. *)

LEMMA FailureStepsIInv ==
    ASSUME IInv, RejectStep \/ ExecuteFails \/ JumpNowhere
    PROVE  IInv'
<1>1. CASE RejectStep
  <2>1. Announced /\ Frame
      BY <1>1, EnterAnnounces DEF RejectStep, Frame, IInv, TypeOK
  <2> QED
      BY <1>1, <2>1, FailIInv DEF RejectStep
<1>2. CASE ExecuteFails
  <2>1. Announced /\ Frame
      BY <1>2, ExecutingAnnounced DEF ExecuteFails, Frame, IInv, TypeOK
  <2> QED
      BY <1>2, <2>1, FailIInv DEF ExecuteFails
<1>3. CASE JumpNowhere
  <2>1. Announced /\ Frame
      BY <1>3, ExecutingAnnounced DEF JumpNowhere, Frame, IInv, TypeOK
  <2> QED
      BY <1>3, <2>1, FailIInv DEF JumpNowhere, FailAlways
<1> QED
    BY <1>1, <1>2, <1>3

LEMMA RecordStepsIInv ==
    ASSUME IInv, SkipStep \/ ExecuteSucceeds \/ JumpNow \/ JumpAndWait
    PROVE  IInv'
<1>1. /\ index \in Nat \ {0} /\ index + 1 \in Nat \ {0}
      /\ "skipped" \in MainStatuses \ {"failed"}
      /\ "ok" \in MainStatuses \ {"failed"}
    BY DEF IInv, TypeOK, MainStatuses
<1>2. CASE SkipStep
  <2>1. Announced /\ Frame
      BY <1>2, EnterAnnounces DEF SkipStep, Frame, IInv, TypeOK
  <2> QED
      BY <1>1, <1>2, <2>1, RecordIInv DEF SkipStep, Continue
<1>3. CASE ExecuteSucceeds
  <2>1. Step \in Steps
      BY <1>3, DefinitionTypes DEF ExecuteSucceeds, IInv, TypeOK, Phase, Step
  <2>2. store' \in [Names -> Values]
      BY <1>3, <2>1, AssignType DEF ExecuteSucceeds, IInv
  <2>3. Announced /\ Frame
      BY <1>3, <2>2, ExecutingAnnounced
      DEF ExecuteSucceeds, Frame, IInv, TypeOK
  <2> QED
      BY <1>1, <1>3, <2>3, RecordIInv DEF ExecuteSucceeds, Continue
<1>4. CASE JumpNow
  <2>1. JumpTarget(Step.target) \in Nat \ {0}
      BY <1>4, JumpTargetIsIndex DEF JumpNow, IInv
  <2>2. Announced /\ Frame
      BY <1>4, ExecutingAnnounced DEF JumpNow, Frame, IInv, TypeOK
  <2> QED
      BY <1>1, <1>4, <2>1, <2>2, RecordIInv DEF JumpNow, Continue
<1>5. CASE JumpAndWait
  <2>1. Announced /\ Frame
      BY <1>5, ExecutingAnnounced DEF JumpAndWait, Frame, IInv, TypeOK
  <2> QED
      BY <1>1, <1>5, <2>1, RecordIInv DEF JumpAndWait, Announced
<1> QED
    BY <1>2, <1>3, <1>4, <1>5

LEMMA MoveStepsIInv ==
    ASSUME IInv, Complete \/ ExceedIterations \/ WaitElapses \/ WaitCancelled
    PROVE  IInv'
<1>1. CASE Complete
    BY <1>1, MoveIInv DEF Complete, Return, Frame, IInv, TypeOK
<1>2. CASE ExceedIterations
    BY <1>2, MoveIInv DEF ExceedIterations, Return, Frame, IInv, TypeOK
<1>3. CASE WaitElapses
  <2>1. JumpTarget(Step.target) \in Nat \ {0}
      BY <1>3, JumpTargetIsIndex DEF WaitElapses, IInv, Phase
  <2> QED
      BY <1>3, <2>1, MoveIInv DEF WaitElapses, Frame, IInv, TypeOK
<1>4. CASE WaitCancelled
    BY <1>4, MoveIInv DEF WaitCancelled, Return, Frame, IInv, TypeOK
<1> QED
    BY <1>1, <1>2, <1>3, <1>4

LEMMA HandlerStepsIInv ==
    ASSUME IInv, RejectHandler \/ HandlerExecuteFails \/ HandlerSucceeds
    PROVE  IInv'
<1>1. CASE RejectHandler
    BY <1>1, HandlerFailsIInv DEF RejectHandler, InChain, Frame, IInv, TypeOK
<1>2. CASE HandlerExecuteFails
    BY <1>2, HandlerFailsIInv
    DEF HandlerExecuteFails, InChain, Frame, IInv, TypeOK
<1>3. CASE HandlerSucceeds
  <2>1. Handler \in Steps
      BY <1>3, DefinitionTypes
      DEF HandlerSucceeds, IInv, TypeOK, Phase, InChain, Handler
  <2>2. Frame
      BY <1>3, <2>1, AssignType DEF HandlerSucceeds, Frame, IInv, TypeOK
  <2> QED
      BY <1>3, <2>2, HandlerSucceedsIInv DEF HandlerSucceeds, InChain
<1> QED
    BY <1>1, <1>2, <1>3

LEMMA OtherStepsIInv ==
    ASSUME IInv, AssignInside \/ Cancel \/ UNCHANGED vars
    PROVE  IInv'
<1>1. CASE AssignInside
  <2>1. /\ pc = "executing" => Step \in Steps
        /\ pc = "handlerExecuting" => Handler \in Steps
      BY DefinitionTypes DEF IInv, TypeOK, Phase, InChain, Step, Handler
  <2>2. Frame
      BY <1>1, <2>1, AssignType DEF AssignInside, Frame, IInv, TypeOK
  <2> QED
      BY <1>1, <2>2, SameIInv DEF AssignInside
<1>2. CASE Cancel
    BY <1>2, SameIInv DEF Cancel, Frame, IInv, TypeOK
<1>3. CASE UNCHANGED vars
    BY <1>3, SameIInv DEF vars, Frame, IInv, TypeOK
<1> QED
    BY <1>1, <1>2, <1>3

LEMMA NextIInv == IInv /\ [Next]_vars => IInv'
<1> SUFFICES ASSUME IInv, [Next]_vars PROVE IInv'
    OBVIOUS
<1>1. CASE RejectStep \/ ExecuteFails \/ JumpNowhere
    BY <1>1, FailureStepsIInv
<1>2. CASE SkipStep \/ ExecuteSucceeds \/ JumpNow \/ JumpAndWait
    BY <1>2, RecordStepsIInv
<1>3. CASE Complete \/ ExceedIterations \/ WaitElapses \/ WaitCancelled
    BY <1>3, MoveStepsIInv
<1>4. CASE RejectHandler \/ HandlerExecuteFails \/ HandlerSucceeds
    BY <1>4, HandlerStepsIInv
<1>5. CASE BeginExecute
    BY <1>5, BeginExecuteIInv
<1>6. CASE BeginHandler
    BY <1>6, BeginHandlerIInv
<1>7. CASE AssignInside \/ Cancel \/ Terminated \/ UNCHANGED vars
    BY <1>7, OtherStepsIInv DEF Terminated
<1> QED
    BY <1>1, <1>2, <1>3, <1>4, <1>5, <1>6, <1>7 DEF Next, Progress

(* The invariant holds in every reachable state of every run. *)
THEOREM Invariance == Spec => []IInv
<1>1. Init => IInv
    BY InitIInv
<1>2. IInv /\ [Next]_vars => IInv'
    BY NextIInv
<1> QED
    BY <1>1, <1>2, PTL DEF Spec

(* Every variable of the runner keeps its type: whatever its gotos do, the  *)
(* loop index is never 0, and no assignment of a block puts anything but a  *)
(* value under a declared name.                                             *)
THEOREM TypeCorrect == Spec => []TypeOK
<1>1. IInv => TypeOK
    BY DEF IInv
<1> QED
    BY <1>1, Invariance, PTL

(* What the observer is told and what the run returns agree, in every run   *)
(* of every workflow: handleStepFailure, runErrorChain and the loop append  *)
(* to the results exactly what they report, in the order they report it.    *)
THEOREM ObserverCorrect == Spec => []ObserverMirrorsResults
<1>1. IInv => ObserverMirrorsResults
    BY DEF IInv
<1> QED
    BY <1>1, Invariance, PTL

(* No step is announced or executed after one that failed the run: the     *)
(* breaks of runWithContext's loop are where they have to be.               *)
THEOREM FailureStopsTheLoop == Spec => []NothingAfterFailure
<1>1. IInv => NothingAfterFailure
    BY DEF IInv
<1> QED
    BY <1>1, Invariance, PTL

(* runErrorChain runs after a failed step only, its handlers one by one and *)
(* in order, up to the first that fails, and all of them when none does.    *)
THEOREM CatchChainCorrect == Spec => []CatchChain
<1>1. IInv => CatchChain
    BY DEF IInv
<1> QED
    BY <1>1, Invariance, PTL

(* The !Error built-ins are set exactly when a step has failed the run, and *)
(* name that step for as long as the run lasts.                             *)
THEOREM ErrorBuiltinsCorrect == Spec => []ErrorBuiltinsNameFailedStep
<1>1. IInv => ErrorBuiltinsNameFailedStep
    BY DEF IInv
<1> QED
    BY <1>1, Invariance, PTL

----------------------------------------------------------------------------
(* The way a run takes through its definition, how it ends, and what failed *)
(* steps assign.                                                            *)


(* Step i may come after the k-th step of the run: the disjunction of       *)
(* ControlPath.                                                             *)
Follows(k, i) ==
    \/ i = started[k] + 1
    \/ LET from == wf.steps[started[k]] IN
       /\ from.block = "goto"
       /\ finished[k].status = "ok"
       /\ i \in Targets(from.target)
       /\ \A j \in Targets(from.target) : j <= i

(* What the loop knows of the way so far: the iterations are the steps      *)
(* started, and the step it comes to follows the last one started.          *)
Way ==
    /\ \A k \in 1..Len(started) : started[k] \in 1..Len(wf.steps)
    /\ pc # "done" => iterations = Len(started) /\ iterations <= MaxIterations
    /\ pc = "loop" => IF started = <<>> THEN index = 1
                      ELSE Follows(Len(started), index)
    /\ pc = "waiting" => /\ Step.block = "goto" /\ Step.wait
                         /\ finished # <<>>
                         /\ LastFinished = Result(index, "ok")

PathInv == Way /\ ControlPath /\ OutcomeExplained

LEMMA InitPathInv == Init => PathInv
    BY MaxIterationsAssumption
    DEF Init, PathInv, Way, ControlPath, OutcomeExplained

LEMMA StepCount ==
    ASSUME TypeOK
    PROVE  Len(wf.steps) \in Nat
    BY DefinitionTypes

(* What is finished stays finished. *)
Extends == finished' = finished \/ \E r \in Results : finished' = Append(finished, r)

(* A step has been started, now or before, and is not finished: Announced,  *)
(* with what this module needs of the new state.                            *)
Begun ==
    /\ Announced
    /\ wf' = wf
    /\ \A k \in 1..Len(started') : started'[k] \in 1..Len(wf.steps)
    /\ iterations' = Len(started') /\ iterations' <= MaxIterations
    /\ ControlPath'

(* The step the loop comes to follows the one before it. *)
LEMMA EnterBegun ==
    ASSUME IInv, PathInv, EnterStep, Extends, UNCHANGED wf
    PROVE  Begun
<1>1. /\ started' = Append(started, index)
      /\ started \in Seq(Nat \ {0}) /\ finished \in Seq(Results)
      /\ index \in 1..Len(wf.steps)
    BY StepCount DEF IInv, TypeOK, EnterStep
<1>2. Len(started) \in Nat /\ Len(started) = Len(finished)
    BY <1>1 DEF IInv, ObserverMirrorsResults, EnterStep
<1>3. /\ Len(started') = Len(started) + 1
      /\ started'[Len(started) + 1] = index
      /\ \A k \in 1..Len(started) : started'[k] = started[k]
    BY <1>1, <1>2
<1>4. \A k \in 1..Len(started) : finished'[k] = finished[k]
  <2>1. CASE finished' = finished
      BY <2>1
  <2>2. ASSUME NEW r \in Results, finished' = Append(finished, r)
        PROVE  \A k \in 1..Len(started) : finished'[k] = finished[k]
      BY <2>2, <1>1, <1>2
  <2> QED
      BY <2>1, <2>2 DEF Extends
<1>5. iterations' = Len(started') /\ iterations' <= MaxIterations
    BY <1>2, <1>3, MaxIterationsAssumption
    DEF IInv, TypeOK, PathInv, Way, EnterStep
<1>6. \A k \in 1..Len(started') : started'[k] \in 1..Len(wf.steps)
    BY <1>1, <1>2, <1>3 DEF PathInv, Way
<1>7. started'[1] = 1
  <2>1. CASE started = <<>>
      BY <2>1, <1>3 DEF PathInv, Way, EnterStep
  <2>2. CASE started # <<>>
      BY <2>2, <1>1, <1>2, <1>3 DEF PathInv, ControlPath
  <2> QED
      BY <2>1, <2>2
<1>8. ASSUME NEW k \in 1..Len(started)
      PROVE  \/ started'[k + 1] = started'[k] + 1
             \/ LET from == wf.steps[started'[k]] IN
                /\ from.block = "goto"
                /\ finished'[k].status = "ok"
                /\ started'[k + 1] \in Targets(from.target)
                /\ \A i \in Targets(from.target) : i <= started'[k + 1]
  <2>1. CASE k = Len(started)
    <3>1. Follows(Len(started), index)
        BY <2>1, <1>1, <1>2 DEF PathInv, Way, EnterStep
    <3> QED
        BY <2>1, <3>1, <1>2, <1>3, <1>4 DEF Follows
  <2>2. CASE k \in 1..Len(started) - 1
    <3>1. k + 1 \in 1..Len(started)
        BY <2>2, <1>2
    <3> QED
        BY <2>2, <3>1, <1>3, <1>4 DEF PathInv, ControlPath
  <2> QED
      BY <2>1, <2>2, <1>2
<1>9. ControlPath'
    BY <1>2, <1>3, <1>7, <1>8 DEF ControlPath, Targets
<1>10. Announced
    BY EnterAnnounces
<1> QED
    BY <1>5, <1>6, <1>9, <1>10 DEF Begun

(* What starts no step leaves the way as it is. *)
LEMMA KeepPath ==
    ASSUME IInv, PathInv, Extends, UNCHANGED <<wf, started>>
    PROVE  ControlPath'
<1>1. started \in Seq(Nat \ {0}) /\ finished \in Seq(Results)
    BY DEF IInv, TypeOK
<1>2. Len(started) \in Nat /\ Len(started) <= Len(finished) + 1
    BY <1>1 DEF IInv, ObserverMirrorsResults
<1>3. \A k \in 1..Len(started) - 1 : finished'[k] = finished[k]
  <2>1. CASE finished' = finished
      BY <2>1
  <2>2. ASSUME NEW r \in Results, finished' = Append(finished, r)
        PROVE  \A k \in 1..Len(started) - 1 : finished'[k] = finished[k]
      BY <2>2, <1>1, <1>2
  <2> QED
      BY <2>1, <2>2 DEF Extends
<1> QED
    BY <1>3 DEF PathInv, ControlPath, Targets

LEMMA ExecutingBegun ==
    ASSUME IInv, PathInv, pc = "executing", Extends,
           UNCHANGED <<wf, started, iterations>>
    PROVE  Begun
<1>1. Announced
    BY ExecutingAnnounced
<1>2. ControlPath'
    BY KeepPath
<1> QED
    BY <1>1, <1>2 DEF Begun, PathInv, Way

(* Recording a status extends what is finished. *)
LEMMA RecordExtends ==
    ASSUME IInv, NEW status \in MainStatuses, Record(status)
    PROVE  /\ Extends
           /\ finished \in Seq(Results)
           /\ finished' # <<>>
           /\ Len(finished') = Len(finished) + 1
           /\ finished'[Len(finished')] = Result(index, status)
<1>1. Result(index, status) \in Results /\ finished \in Seq(Results)
    BY DEF IInv, TypeOK, Result, Results
<1>2. finished' = Append(finished, Result(index, status))
    BY DEF Record
<1> QED
    BY <1>1, <1>2 DEF Extends

(* The loop goes on at a step that may follow. *)
LEMMA ContinuePath ==
    ASSUME IInv, PathInv, Begun,
           NEW status \in MainStatuses, NEW next, Continue(status, next),
           \/ next = index + 1
           \/ /\ Step.block = "goto" /\ status = "ok"
              /\ next \in Targets(Step.target)
              /\ \A i \in Targets(Step.target) : i <= next
    PROVE  PathInv'
<1>1. /\ finished \in Seq(Results)
      /\ Len(finished') = Len(finished) + 1
      /\ finished'[Len(finished')] = Result(index, status)
    BY RecordExtends DEF Continue
<1>2. /\ Len(started') = Len(finished') /\ started'[Len(started')] = index
      /\ started' # <<>>
    BY <1>1 DEF Begun, Announced
<1>3. Follows(Len(started), index)'
    BY <1>1, <1>2 DEF Continue, Follows, Begun, Targets, Step, Result
<1>4. Way'
    BY <1>2, <1>3 DEF Way, Begun, Continue
<1>5. OutcomeExplained'
    BY DEF OutcomeExplained, Continue
<1> QED
    BY <1>4, <1>5 DEF PathInv, Begun

(* A failed step, ignored or not. *)
LEMMA FailPath ==
    ASSUME IInv, PathInv, Begun, NEW step, Fail(step)
    PROVE  PathInv'
<1>1. CASE Continue("ignored-error", index + 1)
    BY <1>1, ContinuePath DEF MainStatuses
<1>2. CASE /\ Record("failed")
           /\ runErr' = "step"
           /\ pc' = IF wf.onError = <<>> THEN "done" ELSE "handling"
  <2>1. /\ finished' # <<>>
        /\ finished'[Len(finished')] = Result(index, "failed")
      BY <1>2, RecordExtends DEF MainStatuses
  <2>2. Way'
      BY <1>2 DEF Way, Begun
  <2>3. OutcomeExplained'
      BY <1>2, <2>1 DEF OutcomeExplained, LastFinished, Result
  <2> QED
      BY <2>2, <2>3 DEF PathInv, Begun
<1> QED
    BY <1>1, <1>2 DEF Fail

----------------------------------------------------------------------------
(* Every step of the runner keeps PathInv. *)

LEMMA EnterStepsPath ==
    ASSUME IInv, PathInv, SkipStep \/ RejectStep \/ BeginExecute
    PROVE  PathInv'
<1>1. CASE SkipStep
  <2>1. Begun
      BY <1>1, RecordExtends, EnterBegun DEF SkipStep, Continue, MainStatuses
  <2> QED
      BY <1>1, <2>1, ContinuePath DEF SkipStep, MainStatuses
<1>2. CASE RejectStep
  <2>1. Begun
      BY <1>2, RecordExtends, EnterBegun
      DEF RejectStep, Fail, Continue, MainStatuses
  <2> QED
      BY <1>2, <2>1, FailPath DEF RejectStep
<1>3. CASE BeginExecute
  <2>1. Begun
      BY <1>3, EnterBegun DEF BeginExecute, Extends
  <2>2. Way' /\ OutcomeExplained'
      BY <1>3, <2>1 DEF BeginExecute, Way, OutcomeExplained, Begun
  <2> QED
      BY <2>1, <2>2 DEF PathInv, Begun
<1> QED
    BY <1>1, <1>2, <1>3

LEMMA ExecutedStepsPath ==
    ASSUME IInv, PathInv,
           ExecuteFails \/ ExecuteSucceeds \/ JumpNowhere \/ JumpNow
    PROVE  PathInv'
<1>1. CASE ExecuteFails
  <2>1. Begun
      BY <1>1, RecordExtends, ExecutingBegun
      DEF ExecuteFails, Fail, Continue, MainStatuses
  <2> QED
      BY <1>1, <2>1, FailPath DEF ExecuteFails
<1>2. CASE ExecuteSucceeds
  <2>1. Begun
      BY <1>2, RecordExtends, ExecutingBegun
      DEF ExecuteSucceeds, Continue, MainStatuses
  <2> QED
      BY <1>2, <2>1, ContinuePath DEF ExecuteSucceeds, MainStatuses
<1>3. CASE JumpNowhere
  <2>1. Begun
      BY <1>3, RecordExtends, ExecutingBegun
      DEF JumpNowhere, FailAlways, Fail, Continue, MainStatuses
  <2> QED
      BY <1>3, <2>1, FailPath DEF JumpNowhere, FailAlways
<1>4. CASE JumpNow
  <2>1. Begun
      BY <1>4, RecordExtends, ExecutingBegun
      DEF JumpNow, Continue, MainStatuses
  <2>2. /\ JumpTarget(Step.target) \in Targets(Step.target)
        /\ \A i \in Targets(Step.target) : i <= JumpTarget(Step.target)
      BY <1>4, JumpTargetIsIndex DEF JumpNow, IInv
  <2> QED
      BY <1>4, <2>1, <2>2, ContinuePath DEF JumpNow, Jumps, MainStatuses
<1> QED
    BY <1>1, <1>2, <1>3, <1>4

LEMMA WaitStepsPath ==
    ASSUME IInv, PathInv, JumpAndWait \/ WaitElapses \/ WaitCancelled
    PROVE  PathInv'
<1>1. CASE JumpAndWait
  <2>1. /\ Extends /\ finished' # <<>>
        /\ finished'[Len(finished')] = Result(index, "ok")
      BY <1>1, RecordExtends DEF JumpAndWait, MainStatuses
  <2>2. Begun
      BY <1>1, <2>1, ExecutingBegun DEF JumpAndWait
  <2>3. Way'
      BY <1>1, <2>1, <2>2
      DEF JumpAndWait, Way, Begun, Jumps, LastFinished, Result, Step
  <2>4. OutcomeExplained'
      BY <1>1 DEF JumpAndWait, OutcomeExplained
  <2> QED
      BY <2>2, <2>3, <2>4 DEF PathInv, Begun
<1>2. CASE WaitElapses
  <2>1. /\ JumpTarget(Step.target) \in Targets(Step.target)
        /\ \A i \in Targets(Step.target) : i <= JumpTarget(Step.target)
      BY <1>2, JumpTargetIsIndex DEF WaitElapses, IInv, Phase
  <2>2. /\ Len(started) = Len(finished) /\ started # <<>>
        /\ started[Len(started)] = index
        /\ finished[Len(started)].status = "ok"
    <3>1. /\ started \in Seq(Nat \ {0}) /\ finished \in Seq(Results)
          /\ finished # <<>>
          /\ finished[Len(finished)] = Result(index, "ok")
        BY <1>2 DEF IInv, TypeOK, PathInv, Way, WaitElapses, LastFinished
    <3>2. Len(started) = Len(finished) /\ Len(finished) \in 1..Len(finished)
        BY <1>2, <3>1 DEF IInv, ObserverMirrorsResults, WaitElapses
    <3>3. finished[Len(finished)].index = started[Len(finished)]
        BY <3>2 DEF IInv, ObserverMirrorsResults
    <3> QED
        BY <3>1, <3>2, <3>3 DEF Result
  <2>3. Follows(Len(started), index)'
      BY <1>2, <2>1, <2>2
      DEF WaitElapses, Follows, PathInv, Way, Targets, Step
  <2>4. Way'
      BY <1>2, <2>2, <2>3 DEF WaitElapses, PathInv, Way
  <2>5. ControlPath'
      BY <1>2, KeepPath DEF WaitElapses, Extends
  <2>6. OutcomeExplained'
      BY <1>2 DEF WaitElapses, OutcomeExplained
  <2> QED
      BY <2>4, <2>5, <2>6 DEF PathInv
<1>3. CASE WaitCancelled
  <2>1. ControlPath'
      BY <1>3, KeepPath DEF WaitCancelled, Extends
  <2>2. Way'
      BY <1>3 DEF WaitCancelled, Return, PathInv, Way
  <2>3. OutcomeExplained'
      BY <1>3
      DEF WaitCancelled, Return, PathInv, Way, OutcomeExplained, LastFinished,
          Step, Result
  <2> QED
      BY <2>1, <2>2, <2>3 DEF PathInv
<1> QED
    BY <1>1, <1>2, <1>3

(* The loop is left at its head: at the end of the definition, or at the    *)
(* cap.                                                                     *)
LEMMA LeaveLoopPath ==
    ASSUME IInv, PathInv, Complete \/ ExceedIterations
    PROVE  PathInv'
<1>1. /\ started \in Seq(Nat \ {0}) /\ finished \in Seq(Results)
      /\ index \in Nat /\ Len(wf.steps) \in Nat
      /\ wf.steps \in Seq(Steps)
    BY StepCount, DefinitionTypes DEF IInv, TypeOK
<1>2. Len(started) = Len(finished) /\ Len(started) \in Nat
    BY <1>1 DEF IInv, ObserverMirrorsResults, Complete, ExceedIterations
<1>3. UNCHANGED <<wf, started, finished>> /\ pc' = "done"
    BY DEF Complete, ExceedIterations, Return
<1>4. ControlPath' /\ Way'
    BY <1>3, KeepPath DEF Extends, PathInv, Way
<1>5. CASE Complete
  <2>1. ASSUME started = <<>> PROVE wf.steps = <<>>
    <3>1. index = 1 /\ index > Len(wf.steps)
        BY <1>5, <2>1 DEF Complete, PathInv, Way
    <3>2. Len(wf.steps) = 0
        BY <1>1, <3>1
    <3> QED
        BY <1>1, <3>2
  <2>2. ASSUME started # <<>>
        PROVE  finished # <<>> /\ LastFinished.index = Len(wf.steps)
    <3>1. Follows(Len(started), index) /\ index > Len(wf.steps)
        BY <1>5, <2>2 DEF Complete, PathInv, Way
    <3>2. Len(started) \in 1..Len(started)
        BY <1>1, <1>2, <2>2
    <3>3. started[Len(started)] \in 1..Len(wf.steps)
        BY <3>2 DEF PathInv, Way
    <3>4. started[Len(started)] = Len(wf.steps)
        BY <1>1, <3>1, <3>3 DEF Follows, Targets
    <3> QED
        BY <1>2, <3>2, <3>4 DEF IInv, ObserverMirrorsResults, LastFinished
  <2>3. wf.steps # <<>> => finished # <<>> /\ LastFinished.index = Len(wf.steps)
      BY <2>1, <2>2, <1>1, <1>2
  <2>4. \A k \in 1..Len(finished) : finished[k].status # "failed"
      BY <1>5 DEF IInv, Phase, InLoop, Complete
  <2> QED
      BY <1>3, <1>4, <1>5, <2>3, <2>4
      DEF Complete, Return, PathInv, OutcomeExplained, LastFinished
<1>6. CASE ExceedIterations
  <2>1. Len(started) = MaxIterations
      BY <1>2, <1>6, MaxIterationsAssumption DEF ExceedIterations, PathInv, Way
  <2> QED
      BY <1>3, <1>4, <1>6, <2>1
      DEF ExceedIterations, Return, PathInv, OutcomeExplained
<1> QED
    BY <1>5, <1>6

(* The catch chain touches nothing of the way. *)
LEMMA HandlerStepsPath ==
    ASSUME IInv, PathInv,
           \/ RejectHandler \/ BeginHandler \/ HandlerExecuteFails
           \/ HandlerSucceeds
    PROVE  PathInv'
<1>1. /\ UNCHANGED <<wf, started, finished, iterations>>
      /\ pc \in {"handling", "handlerExecuting"}
      /\ pc' \in {"handling", "handlerExecuting", "done"}
      /\ runErr' \in {runErr, "step+handler"}
    BY DEF RejectHandler, BeginHandler, HandlerExecuteFails, HandlerSucceeds,
           HandlerFails, Return
<1>2. runErr = "step" /\ finished # <<>> /\ LastFinished.status = "failed"
    BY <1>1 DEF IInv, Phase, InChain
<1>3. ControlPath'
    BY <1>1, KeepPath DEF Extends
<1>4. Way' /\ OutcomeExplained'
    BY <1>1, <1>2 DEF PathInv, Way, OutcomeExplained, LastFinished
<1> QED
    BY <1>3, <1>4 DEF PathInv

LEMMA OtherStepsPath ==
    ASSUME IInv, PathInv, AssignInside \/ Cancel \/ UNCHANGED vars
    PROVE  PathInv'
<1>1. /\ UNCHANGED <<wf, pc, index, started, finished, iterations, runErr>>
      /\ pc = "done" => UNCHANGED ctxDone
    BY DEF AssignInside, Cancel, vars
<1>2. ControlPath'
    BY <1>1, KeepPath DEF Extends
<1>3. Way' /\ OutcomeExplained'
    BY <1>1
    DEF PathInv, Way, OutcomeExplained, LastFinished, Follows, Targets, Step
<1> QED
    BY <1>2, <1>3 DEF PathInv

LEMMA NextPathInv == IInv /\ PathInv /\ [Next]_vars => PathInv'
<1> SUFFICES ASSUME IInv, PathInv, [Next]_vars PROVE PathInv'
    OBVIOUS
<1>1. CASE SkipStep \/ RejectStep \/ BeginExecute
    BY <1>1, EnterStepsPath
<1>2. CASE ExecuteFails \/ ExecuteSucceeds \/ JumpNowhere \/ JumpNow
    BY <1>2, ExecutedStepsPath
<1>3. CASE JumpAndWait \/ WaitElapses \/ WaitCancelled
    BY <1>3, WaitStepsPath
<1>4. CASE Complete \/ ExceedIterations
    BY <1>4, LeaveLoopPath
<1>5. CASE \/ RejectHandler \/ BeginHandler \/ HandlerExecuteFails
           \/ HandlerSucceeds
    BY <1>5, HandlerStepsPath
<1>6. CASE AssignInside \/ Cancel \/ Terminated \/ UNCHANGED vars
    BY <1>6, OtherStepsPath DEF Terminated
<1> QED
    BY <1>1, <1>2, <1>3, <1>4, <1>5, <1>6 DEF Next, Progress

LEMMA PathInvariance == Spec => []PathInv
<1>1. Init => PathInv
    BY InitPathInv
<1>2. IInv /\ PathInv /\ [Next]_vars => PathInv'
    BY NextPathInv
<1> QED
    BY <1>1, <1>2, Invariance, PTL DEF Spec

(* The runner visits the steps in their order but for the gotos that        *)
(* succeed, each of which leads to the last step with its target's id.      *)
THEOREM ControlPathCorrect == Spec => []ControlPath
<1>1. PathInv => ControlPath
    BY DEF PathInv
<1> QED
    BY <1>1, PathInvariance, PTL

(* The error runWithContext returns is explained by the results it returns, *)
(* and the iteration cap lets exactly maxIterations steps start.            *)
THEOREM OutcomeCorrect == Spec => []OutcomeExplained
<1>1. PathInv => OutcomeExplained
    BY DEF PathInv
<1> QED
    BY <1>1, PathInvariance, PTL

(* Whatever the number of assignments of a step and whichever of them is    *)
(* refused, the variables change only with a step that succeeds, or inside  *)
(* a composite block.                                                       *)
THEOREM FailuresAssignNothing == Spec => FailedStepsAssignNothing
<1> DEFINE Allowed ==
        store' # store =>
          \/ /\ Len(results') = Len(results) + 1
             /\ results'[Len(results')].status \in {"ok", "error-handler-ok"}
          \/ /\ UNCHANGED <<pc, results>>
             /\ \/ pc = "executing" /\ Step.block = "composite"
                \/ pc = "handlerExecuting" /\ Handler.block = "composite"
<1>1. ASSUME IInv, Next PROVE Allowed
  <2>1. results \in Seq(Results) /\ index \in Nat \ {0} /\ hindex \in Nat \ {0}
      BY <1>1 DEF IInv, TypeOK
  <2>2. CASE ExecuteSucceeds
    <3>1. results' = Append(results, Result(index, "ok"))
        BY <2>2 DEF ExecuteSucceeds, Continue, Record
    <3>2. Result(index, "ok") \in Results /\ Result(index, "ok").status = "ok"
        BY <2>1 DEF Result, Results, MainStatuses
    <3> QED
        BY <2>1, <3>1, <3>2
  <2>3. CASE HandlerSucceeds
    <3>1. results' = Append(results, Result(hindex, "error-handler-ok"))
        BY <2>3 DEF HandlerSucceeds
    <3>2. /\ Result(hindex, "error-handler-ok") \in Results
          /\ Result(hindex, "error-handler-ok").status = "error-handler-ok"
        BY <2>1 DEF Result, Results, HandlerStatuses
    <3> QED
        BY <2>1, <3>1, <3>2
  <2>4. CASE AssignInside
      BY <2>4 DEF AssignInside
  <2>5. CASE ~(ExecuteSucceeds \/ HandlerSucceeds \/ AssignInside)
    <3>1. UNCHANGED store
        BY <1>1, <2>5
        DEF Next, Progress, Complete, ExceedIterations, SkipStep, RejectStep,
            BeginExecute, ExecuteFails, JumpNowhere, JumpNow, JumpAndWait,
            WaitElapses, WaitCancelled, RejectHandler, BeginHandler,
            HandlerExecuteFails, Cancel, Terminated, vars
    <3> QED
        BY <3>1
  <2> QED
      BY <2>2, <2>3, <2>4, <2>5
<1>2. IInv /\ [Next]_vars => [Allowed]_vars
    BY <1>1
<1> QED
    BY <1>2, Invariance, PTL DEF Spec, FailedStepsAssignNothing

=============================================================================
