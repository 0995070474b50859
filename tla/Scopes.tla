-------------------------------- MODULE Scopes --------------------------------
(***************************************************************************)
(* What a nested block reads and where its assignments go, when retry,     *)
(* foreach, parallel and workflow blocks are nested in each other: the     *)
(* RunContext of internal/block/contract.go, handed down by the runner     *)
(* (internal/engine/runner.go, executeStep and                             *)
(* bindRunContextExecutors) and written to by the control blocks.          *)
(*                                                                         *)
(* A step is a nest of control blocks around one block that reads every    *)
(* reference and exports a new value for $x; it may fail.  The branches of *)
(* isolated contexts share nothing, so running them one after another, in  *)
(* any order, loses nothing.  A value is tagged with the level of the      *)
(* block that set it and the iteration, counted from 1.                    *)
(***************************************************************************)
EXTENDS Naturals, Sequences, FiniteSets

CONSTANT Nests     \* the nests to run, outermost block first

(* items has one member per attempt of a retry, item of a foreach, branch   *)
(* of a parallel block or run of a workflow: whether the item has a field   *)
(* that the nested block refers to.                                         *)
Wrappers ==
    [kind : {"retry", "each", "concurrent", "parallel", "workflow"},
     items : Seq(BOOLEAN)]

(* Validate of retry refuses a retry as its block; a workflow block runs    *)
(* its target once.                                                         *)
ValidNests ==
    {n \in Seq(Wrappers) :
        /\ \A l \in 1..Len(n) :
              /\ n[l].items # <<>>
              /\ n[l].kind = "workflow" => Len(n[l].items) = 1
        /\ \A l \in 1..Len(n) - 1 : n[l].kind = "retry" => n[l + 1].kind # "retry"}

ASSUME NestsAssumption == Nests \subseteq ValidNests

Absent == <<0, 0>>
Initial == <<0, 1>>     \* the value of $x in project or workflow
Text == <<0, 2>>        \* a reference that was not resolved, as a value

(* Retry.Attempt, Each.Index and Each.Item.<field>, with the number of      *)
(* Parent. prefixes; and $x.                                                *)
Attempt == <<"Retry.Attempt", 0>>
Index == <<"Each.Index", 0>>
Field == <<"Each.Item.field", 0>>
X == <<"x", 0>>

----------------------------------------------------------------------------
VARIABLES
    nest,
    stack,      \* the blocks being executed, outermost first
    contexts,   \* [level -> the RunContext made there], level 0 the root's
    phase,      \* "call" the next block inwards, or what the last returned
    writes,     \* values exported by the innermost block so far
    lost,       \* those exported in runs of workflows that failed
    reads       \* what the innermost block just read, or <<>>

vars == <<nest, stack, contexts, phase, writes, lost, reads>>

Depth == Len(nest)
Refs == ({"Retry.Attempt", "Each.Index", "Each.Item.field"} \X (0..Depth)) \cup {X}
Nothing == [r \in Refs |-> Absent]
Contexts == [Refs -> Nat \X Nat]

Level == Len(stack) + 1
Top == stack[Len(stack)]
Kind(l) == nest[l].kind
Isolated(l) == Kind(l) \in {"concurrent", "parallel"}

(* The context and the configuration that the next block inwards gets.      *)
Current == IF stack = <<>> THEN 0 ELSE Top.inner
Config == IF stack = <<>> THEN Nothing ELSE Top.config

(* The contexts of the blocks that a frame stands for, the iteration, those *)
(* before it, whether one failed; what is bound in the configuration of the *)
(* nested block; the outer context and writes from before the block.        *)
Frames == [outer : 0..Depth, inner : 0..Depth, iter : Nat, over : SUBSET Nat,
           failed : BOOLEAN, config : Contexts, saved : Contexts, since : Nat]

TypeOK ==
    /\ nest \in Nests
    /\ stack \in Seq(Frames) /\ Len(stack) <= Depth
    /\ \A l \in 1..Len(stack) :
          /\ stack[l].iter \in 1..Len(nest[l].items) \ stack[l].over
          /\ stack[l].outer = IF l = 1 THEN 0 ELSE stack[l - 1].inner
    /\ contexts \in [0..Depth -> Contexts]
    /\ phase \in {"call", "ok", "failed"}
    /\ writes \in Nat /\ lost \subseteq 1..writes
    /\ reads \in {<<>>} \cup Contexts

Init ==
    /\ nest \in Nests
    /\ stack = <<>>
    /\ contexts = [l \in 0..Depth |->
                      IF l = 0 THEN [Nothing EXCEPT ![X] = Initial] ELSE Nothing]
    /\ phase = "call"
    /\ writes = 0 /\ lost = {}
    /\ reads = <<>>

----------------------------------------------------------------------------
(* ResolveReferences: what is bound already stays, the rest is looked up,   *)
(* and what is not found is left as it is written.                          *)
Resolve(config, context) ==
    [r \in Refs |-> IF config[r] # Absent THEN config[r] ELSE context[r]]

(* NewRunContext of the target with the built-ins of the caller under       *)
(* Parent. and the inputs of the step, here x: !Each.Index, resolved.       *)
Child(config, context) ==
    [r \in Refs |->
        IF r = X THEN LET input == Resolve(config, context)[Index]
                      IN  IF input = Absent THEN Text ELSE input
        ELSE IF r[2] > 0 THEN context[<<r[1], r[2] - 1>>] ELSE Absent]

(* setLoopBuiltins overwrites; an item without the field leaves the last.   *)
SetLoopBuiltins(context, l, i) ==
    [context EXCEPT ![Index] = <<l, i>>,
                    ![Field] = IF nest[l].items[i] THEN <<l, i>> ELSE @]

(* The context in which iteration i of the block at level l is executed,    *)
(* given the one it is made of.                                             *)
Inner(l, i, config, context) ==
    CASE Kind(l) = "retry" -> [context EXCEPT ![Attempt] = <<l, i>>]
      [] Kind(l) \in {"each", "concurrent"} -> SetLoopBuiltins(context, l, i)
      [] Kind(l) = "parallel" -> context
      [] Kind(l) = "workflow" -> Child(config, context)

(* CloneRunContext and ExecuteWorkflow make a context of their own.         *)
InnerId(l) == IF Isolated(l) \/ Kind(l) = "workflow" THEN l ELSE Current

(* The order of isolated iterations is free. *)
Firsts(l) == IF Isolated(l) THEN 1..Len(nest[l].items) ELSE {1}

(* Mutant: retry resolves its block for each attempt, like any other.       *)
NestedConfigLate(l) == IF Kind(l) = "workflow" THEN Nothing ELSE Config

(* executeStep resolves the fields that the block's policy names: all of    *)
(* the nested block for retry, none of it for the others; the blocks of a   *)
(* workflow are not part of the step.                                       *)
NestedConfig(l) ==
    CASE Kind(l) = "retry" -> Resolve(Config, contexts[Current])
      [] Kind(l) = "workflow" -> Nothing
      [] OTHER -> Config

(* executeStep of a control block, to the first nested execution.           *)
Enter ==
    /\ phase = "call" /\ Level <= Depth
    /\ \E i \in Firsts(Level) :
          /\ stack' = Append(stack,
                [outer |-> Current, inner |-> InnerId(Level), iter |-> i,
                 over |-> {}, failed |-> FALSE, config |-> NestedConfig(Level),
                 saved |-> contexts[Current], since |-> writes])
          /\ contexts' = [contexts EXCEPT
                ![InnerId(Level)] = Inner(Level, i, Config, contexts[Current])]
    /\ reads' = <<>>
    /\ UNCHANGED <<nest, phase, writes, lost>>

(* applyAssignments of executeStep: not for the block that runs isolated.   *)
Applies(l) == l = 1 \/ ~Isolated(l - 1)

(* executeStep of the innermost block.  It exports x, which                 *)
(* applyResponseExtractions assigns when the block did not fail.            *)
ExecuteInnermost ==
    /\ phase = "call" /\ Level > Depth
    /\ reads' = Resolve(Config, contexts[Current])
    /\ \/ /\ phase' = "failed"
          /\ UNCHANGED <<contexts, writes>>
       \/ /\ phase' = "ok"
          /\ writes' = writes + 1
          /\ contexts' =
                IF Applies(Level)
                THEN [contexts EXCEPT ![Current][X] = <<Level, writes + 1>>]
                ELSE contexts
    /\ UNCHANGED <<nest, stack, lost>>

----------------------------------------------------------------------------
(* Mutant: an isolated iteration is not taken off the list. *)
RemainingAgain ==
    IF Isolated(Len(stack)) THEN 1..Len(nest[Len(stack)].items) \ Top.over
    ELSE {Top.iter + 1} \cap 1..Len(nest[Len(stack)].items)

(* The iterations that the block at the top of the stack may go on with.    *)
Remaining ==
    IF Isolated(Len(stack))
    THEN 1..Len(nest[Len(stack)].items) \ (Top.over \cup {Top.iter})
    ELSE {Top.iter + 1} \cap 1..Len(nest[Len(stack)].items)

(* retry_on may ask for another attempt after any answer, or for none;      *)
(* foreach goes on after a success; isolated branches all run.              *)
MayGoOn ==
    /\ Remaining # {}
    /\ Kind(Len(stack)) \in {"each", "workflow"} => phase = "ok"

MayStop == Kind(Len(stack)) = "retry" \/ ~MayGoOn

(* What the block may say when it stops: one isolated failure fails it, and *)
(* so does a budget spent on an answer that asks for another attempt.       *)
Answers ==
    IF Isolated(Len(stack)) /\ Top.failed THEN {"failed"}
    ELSE IF Kind(Len(stack)) = "retry" /\ Remaining = {} THEN {phase, "failed"}
    ELSE {phase}

Iterate ==
    /\ phase # "call" /\ stack # <<>>
    /\ MayGoOn
    /\ \E i \in Remaining :
          /\ stack' = [stack EXCEPT ![Len(stack)] =
                [Top EXCEPT !.iter = i, !.over = Top.over \cup {Top.iter},
                            !.failed = Top.failed \/ phase = "failed"]]
          /\ contexts' = [contexts EXCEPT
                ![Top.inner] = Inner(Len(stack), i, Nothing, contexts[Top.outer])]
    /\ phase' = "call"
    /\ reads' = <<>>
    /\ UNCHANGED <<nest, writes, lost>>

(* Mutant: foreach restores the built-ins only when every item succeeded.   *)
RestoredOnSuccess(context) ==
    CASE Kind(Len(stack)) = "retry" -> [context EXCEPT ![Attempt] = Absent]
      [] Kind(Len(stack)) = "each" /\ phase = "ok" -> [Top.saved EXCEPT ![X] = context[X]]
      [] OTHER -> context

(* Mutant: a workflow that failed exports what it had got to. *)
RestoredExporting(context) ==
    CASE Kind(Len(stack)) = "retry" -> [context EXCEPT ![Attempt] = Absent]
      [] Kind(Len(stack)) = "each" -> [Top.saved EXCEPT ![X] = context[X]]
      [] Kind(Len(stack)) = "workflow" /\ Applies(Len(stack)) ->
            [context EXCEPT ![X] = contexts[Top.inner][X]]
      [] OTHER -> context

(* What the block leaves of its outer context: clearAttemptBuiltins,        *)
(* restoreBuiltins with the snapshot from before the items, and for a       *)
(* workflow that succeeded its declared output x: $x.                       *)
Restored(context) ==
    CASE Kind(Len(stack)) = "retry" -> [context EXCEPT ![Attempt] = Absent]
      [] Kind(Len(stack)) = "each" -> [Top.saved EXCEPT ![X] = context[X]]
      [] Kind(Len(stack)) = "workflow" /\ phase = "ok" /\ Applies(Len(stack)) ->
            [context EXCEPT ![X] = contexts[Top.inner][X]]
      [] OTHER -> context

Leave ==
    /\ phase # "call" /\ stack # <<>>
    /\ MayStop
    /\ contexts' =
          LET restored == [contexts EXCEPT ![Top.outer] = Restored(@)]
          IN  IF Top.inner = Top.outer THEN restored
              ELSE [restored EXCEPT ![Top.inner] = Nothing]
    /\ phase' \in Answers
    /\ lost' = IF Kind(Len(stack)) = "workflow" /\ phase = "failed"
               THEN lost \cup (Top.since + 1..writes) ELSE lost
    /\ stack' = SubSeq(stack, 1, Len(stack) - 1)
    /\ reads' = <<>>
    /\ UNCHANGED <<nest, writes>>

Terminated == phase # "call" /\ stack = <<>> /\ UNCHANGED vars

Next == Enter \/ ExecuteInnermost \/ Iterate \/ Leave \/ Terminated

Spec == Init /\ [][Next]_vars

----------------------------------------------------------------------------
(* A control block finds its own built-ins in force whenever control is     *)
(* with it, whatever was nested in it set, cleared or restored; and when    *)
(* the step is left, by success or by failure, none of them is.             *)
OwnBuiltinsInForce ==
    /\ stack # <<>> =>
          LET l == Len(stack)
          IN  /\ Kind(l) = "retry" => contexts[Top.inner][Attempt] = <<l, Top.iter>>
              /\ Kind(l) \in {"each", "concurrent"} =>
                    contexts[Top.inner][Index] = <<l, Top.iter>>
    /\ stack = <<>> => contexts[0] = [Nothing EXCEPT ![X] = contexts[0][X]]

(* The levels of a kind in the workflow of the innermost block. *)
Around(kinds) ==
    {l \in 1..Depth : Kind(l) \in kinds /\ \A k \in l..Depth : Kind(k) # "workflow"}

Least(S) == CHOOSE l \in S : \A k \in S : l <= k
Greatest(S) == CHOOSE l \in S : \A k \in S : k <= l

Now(l) == <<l, stack[l].iter>>

Loops == Around({"each", "concurrent"})
Retries == Around({"retry"})

(* The retries that found an index to bind in the configuration they carry. *)
Binding == {l \in Retries : \E k \in Loops : k < l}

(* Where the code takes what the innermost block reads from, which is not   *)
(* always what the docs say: see BuiltinsAreCurrent below.  The index is    *)
(* that of the nearest loop, or of the nearest outside a retry that bound   *)
(* it before; the attempt is that of a retry around it in the same          *)
(* workflow, of the only one if there is one; a field is that of an item of *)
(* a loop around it not later than the current one, and of the current one  *)
(* where items are isolated; $x is as it was when the outermost retry       *)
(* around it began.                                                         *)
ReadsNearestScope ==
    reads # <<>> =>
        /\ reads[Index] =
              IF Loops = {} THEN Absent
              ELSE IF Binding = {} THEN Now(Greatest(Loops))
              ELSE Now(Greatest({k \in Loops : k < Least(Binding)}))
        /\ IF Retries = {} THEN reads[Attempt] = Absent
           ELSE \E l \in Retries : reads[Attempt] = Now(l)
        /\ reads[Field] # Absent =>
              \E l \in Loops :
                 /\ reads[Field][1] = l
                 /\ reads[Field][2] <= stack[l].iter
                 /\ Kind(l) = "concurrent" => reads[Field] = Now(l)
        /\ Retries # {} => reads[X] = stack[Least(Retries)].saved[X]

(* docs/reference.md:804, :883 and :889, the built-ins inside the block of  *)
(* a retry or a foreach: "Current attempt number", "0-based index", "Field  *)
(* of the current item".  So the numbers are those that the nearest retry   *)
(* and the nearest loop have got to, and a field that the current item does *)
(* not have is not found.  The code does not keep it: scopes_current.       *)
BuiltinsAreCurrent ==
    reads # <<>> =>
        /\ Retries # {} => reads[Attempt][2] = stack[Greatest(Retries)].iter
        /\ Loops # {} => /\ reads[Index][2] = stack[Greatest(Loops)].iter
                         /\ reads[Field] \in {Absent, Now(Greatest(Loops))}

(* While a branch or a workflow runs nothing of the context outside it      *)
(* changes.  What is assigned in a branch is lost; what is assigned in a    *)
(* workflow that fails is too; a step that succeeds without branches leaves *)
(* the value assigned last.                                                 *)
AssignmentsReachTheirScope ==
    /\ \A l \in 1..Len(stack) :
          stack[l].inner # stack[l].outer =>
              contexts[stack[l].outer] = stack[l].saved
    /\ stack = <<>> /\ phase # "call" =>
          /\ (\E l \in 1..Depth : Isolated(l)) => contexts[0][X][1] # Depth + 1
          /\ phase = "ok" /\ (\A l \in 1..Depth : ~Isolated(l)) =>
                contexts[0][X] = <<Depth + 1, writes>>
          /\ contexts[0][X][1] = Depth + 1 => contexts[0][X][2] \notin lost

==============================================================================
