-------------------------- MODULE ProjectLoadProofs --------------------------
(***************************************************************************)
(* Proofs about ProjectLoad, for any versions of the project file, any     *)
(* number of workflows and of edits.                                       *)
(***************************************************************************)
EXTENDS ProjectLoad, SequenceTheorems, WellFoundedInduction, TLAPS

----------------------------------------------------------------------------
(* The inductive invariant. *)
RunEntry == [id : STRING, version : Readable, ok : BOOLEAN]

Busy == {"ai", "root", "siblings", "start", "running", "report"}

(* What has been read by when, and what StartRun and ReadRoot have checked. *)
Read ==
    /\ ran \in Seq(RunEntry) /\ stack \in Seq(Frame)
    /\ pc \in Busy => queue # <<>>
    /\ pc = "report" => ran # <<>>
    /\ pc \in {"siblings", "start", "running", "report"} => root \in Readable
    /\ pc \in {"start", "running"} => siblings \in Readable
    /\ pc \in {"siblings", "start", "running"} =>
          /\ Head(queue) \in WorkflowIDs(root)
          /\ ~Workflow(root, Head(queue)).disabled
    /\ pc = "running" => ~Invalid(Workflow(root, Head(queue)))

Ids == [i \in DOMAIN ran |-> ran[i].id]

ToRun == IF pc = "report" THEN Tail(queue) ELSE queue

(* What was run and what is still to be run are what was listed.            *)
Progress ==
    /\ pc \in {"id", "list"} => ran = <<>> /\ listing = None
    /\ request # All =>
          /\ listing = None
          /\ pc \notin {"list", "next"}
          /\ pc \in Busy => queue = <<request>>
          /\ pc \in Busy \ {"report"} => ran = <<>>
          /\ pc = "report" => Ids = <<request>>
    /\ request = All /\ pc \in Busy \cup {"next"} =>
          /\ listing \in Readable
          /\ Runnable(listing) = Ids \o ToRun

FailureIsLast ==
    \A i \in DOMAIN ran : ~ran[i].ok => i = Len(ran) /\ pc \in {"report", "done"}

(* Frame k stands at a call of the workflow of frame k + 1.                 *)
CallsNext(k) ==
    LET blocks == Blocks(stack[k])
    IN  /\ stack[k].step \in 1..Len(blocks)
        /\ blocks[stack[k].step].type = "workflow"
        /\ blocks[stack[k].step].target = stack[k + 1].id

Nest ==
    /\ pc = "running" <=> stack # <<>>
    /\ \A k \in 1..Len(stack) : stack[k].version \in Readable
    /\ \A k \in 2..Len(stack) : stack[k].version = siblings
    /\ \A k \in 1..Len(stack) - 1 : CallsNext(k)

IInv ==
    /\ TypeOK
    /\ Read
    /\ Progress
    /\ FailureIsLast
    /\ Nest
    /\ RunsFollowListing

----------------------------------------------------------------------------
(* What a version that can be read holds.                                   *)
ParsedBlock ==
    [type : STRING, target : STRING,
     condition : {None, "empty", "list", "whole", "partial"}]

ParsedWorkflow ==
    [id : STRING, disabled : BOOLEAN, timeout : Int, blocks : Seq(ParsedBlock)]

LEMMA WorkflowTypes ==
    ASSUME NEW raw \in RawWorkflow
    PROVE  ParseWorkflow(raw) \in ParsedWorkflow
<1>1. raw.blocks \in Seq(RawBlock)
    BY DEF RawWorkflow
<1>2. DOMAIN raw.blocks = 1..Len(raw.blocks) /\ Len(raw.blocks) \in Nat
    BY <1>1, LenProperties
<1>3. ASSUME NEW i \in 1..Len(raw.blocks) PROVE ParseBlock(raw.blocks[i]) \in ParsedBlock
  <2>1. raw.blocks[i] \in RawBlock
      BY <1>1, <1>3, ElementOfSeq
  <2> QED
      BY <2>1 DEF ParseBlock, RawBlock, ParsedBlock
<1>4. [i \in 1..Len(raw.blocks) |-> ParseBlock(raw.blocks[i])] \in Seq(ParsedBlock)
    BY <1>2, <1>3, SeqDef
<1> QED
    BY <1>2, <1>4 DEF RawWorkflow, ParsedWorkflow, ParseWorkflow

LEMMA VersionTypes ==
    ASSUME NEW v \in Readable
    PROVE  /\ v \in Versions
           /\ Parsed[v].workflows \in Seq(ParsedWorkflow)
           /\ Len(Parsed[v].workflows) \in Nat
           /\ DOMAIN Parsed[v].workflows = 1..Len(Parsed[v].workflows)
           /\ \A i \in 1..Len(Parsed[v].workflows) :
                 /\ Parsed[v].workflows[i] \in ParsedWorkflow
                 /\ Parsed[v].workflows[i].id \in STRING
<1>1. v \in Versions /\ Files[v].workflows \in Seq(RawWorkflow)
    BY ProjectAssumption DEF Readable
<1> DEFINE raw == Files[v].workflows
           ws == Parsed[v].workflows
<1>2. DOMAIN raw = 1..Len(raw) /\ Len(raw) \in Nat
    BY <1>1, LenProperties
<1>3. ws = [i \in 1..Len(raw) |-> ParseWorkflow(raw[i])]
    BY <1>2 DEF Parsed, Parse
<1>4. \A i \in 1..Len(raw) : ParseWorkflow(raw[i]) \in ParsedWorkflow
    BY <1>1, ElementOfSeq, WorkflowTypes
<1>5. ws \in Seq(ParsedWorkflow)
    BY <1>2, <1>3, <1>4, SeqDef
<1>6. Len(ws) \in Nat /\ DOMAIN ws = 1..Len(ws)
    BY <1>5, LenProperties
<1>7. \A i \in 1..Len(ws) : ws[i] \in ParsedWorkflow
    BY <1>5, ElementOfSeq
<1> QED
    BY <1>1, <1>5, <1>6, <1>7 DEF ParsedWorkflow

(* No two workflows of a version have one id: it picks the workflow.        *)
LEMMA WorkflowOfId ==
    ASSUME NEW v \in Readable, NEW id \in WorkflowIDs(v)
    PROVE  /\ id \in STRING
           /\ Workflow(v, id) \in ParsedWorkflow
           /\ Workflow(v, id).id = id
           /\ Workflow(v, id) \in Range(Parsed[v].workflows)
           /\ Len(Workflow(v, id).blocks) \in Nat
           /\ DOMAIN Workflow(v, id).blocks = 1..Len(Workflow(v, id).blocks)
           /\ \A i \in 1..Len(Workflow(v, id).blocks) :
                 Workflow(v, id).blocks[i].target \in STRING
<1>1. \E w \in Range(Parsed[v].workflows) : w.id = id
    BY DEF WorkflowIDs
<1>2. Workflow(v, id) \in Range(Parsed[v].workflows) /\ Workflow(v, id).id = id
    BY <1>1 DEF Workflow
<1>3. Range(Parsed[v].workflows) \subseteq ParsedWorkflow
    BY VersionTypes DEF Range
<1>4. Workflow(v, id) \in ParsedWorkflow
    BY <1>2, <1>3
<1>5. Workflow(v, id).blocks \in Seq(ParsedBlock) /\ id \in STRING
    BY <1>2, <1>4 DEF ParsedWorkflow
<1>6. \A i \in 1..Len(Workflow(v, id).blocks) : Workflow(v, id).blocks[i] \in ParsedBlock
    BY <1>5, ElementOfSeq
<1> QED
    BY <1>2, <1>4, <1>5, <1>6, LenProperties DEF ParsedBlock

LEMMA WorkflowAt ==
    ASSUME NEW v \in Readable, NEW i \in 1..Len(Parsed[v].workflows)
    PROVE  /\ Parsed[v].workflows[i].id \in WorkflowIDs(v)
           /\ Workflow(v, Parsed[v].workflows[i].id) = Parsed[v].workflows[i]
<1> DEFINE raw == Files[v].workflows
           ws == Parsed[v].workflows
<1>1. raw \in Seq(RawWorkflow) /\ ~FileRefused(Files[v])
    BY ProjectAssumption DEF Readable
<1>2. DOMAIN raw = 1..Len(raw) /\ Len(raw) \in Nat
    BY <1>1, LenProperties
<1>3. ws = [j \in 1..Len(raw) |-> ParseWorkflow(raw[j])]
    BY <1>2 DEF Parsed, Parse
<1>4. \A j \in 1..Len(raw) : raw[j] \in RawWorkflow
    BY <1>1, ElementOfSeq
<1>5. DOMAIN ws = 1..Len(raw) /\ \A j \in 1..Len(raw) : ws[j].id = raw[j].id
    BY <1>3, <1>4 DEF ParseWorkflow, RawWorkflow
<1>6. \A j, k \in 1..Len(raw) : raw[j].id = raw[k].id => j = k
    BY <1>1, <1>2 DEF FileRefused, IsInjective
<1>7. DOMAIN ws = 1..Len(ws)
    BY VersionTypes
<1>8. i \in 1..Len(raw)
    BY <1>5, <1>7
<1>9. ws[i] \in Range(ws)
    BY <1>5, <1>8 DEF Range
<1>10. ws[i].id \in WorkflowIDs(v)
    BY <1>9 DEF WorkflowIDs
<1>11. ASSUME NEW w \in Range(ws), w.id = ws[i].id PROVE w = ws[i]
    BY <1>5, <1>6, <1>8, <1>11 DEF Range
<1>12. Workflow(v, ws[i].id) = ws[i]
    BY <1>9, <1>11 DEF Workflow
<1> QED
    BY <1>10, <1>12

----------------------------------------------------------------------------
(* What Append adds. *)
LEMMA RangeOfAppend ==
    ASSUME NEW U, NEW s \in Seq(U), NEW x \in U
    PROVE  /\ Append(s, x) \in Seq(U)
           /\ Range(Append(s, x)) = Range(s) \cup {x}
<1>1. /\ Len(s) \in Nat /\ DOMAIN s = 1..Len(s)
      /\ DOMAIN Append(s, x) = 1..Len(s) + 1
      /\ Append(s, x)[Len(s) + 1] = x
      /\ \A i \in 1..Len(s) : Append(s, x)[i] = s[i]
      /\ Append(s, x) \in Seq(U)
    BY AppendProperties, LenProperties
<1>2. \A i \in 1..Len(s) + 1 : i \in 1..Len(s) \/ i = Len(s) + 1
    BY <1>1
<1> QED
    BY <1>1, <1>2 DEF Range

(* The list of workflows to run is defined by recursion, over how many of   *)
(* the workflows have been looked at.                                       *)
UpTo(v, f, n) ==
    IF n = 0 THEN <<>>
    ELSE IF Parsed[v].workflows[n].disabled THEN f[n - 1]
    ELSE Append(f[n - 1], Parsed[v].workflows[n].id)

Chosen(v, n, f) == f = [k \in 0..n |-> UpTo(v, f, k)]

(* Induction over the naturals, from the least that is not in the set.      *)
LEMMA Induction ==
    ASSUME NEW S \in SUBSET Nat, 0 \in S, \A n \in S : n + 1 \in S
    PROVE  S = Nat
<1> SUFFICES ASSUME Nat \ S # {} PROVE FALSE
    OBVIOUS
<1>1. PICK n \in Nat \ S : \A m \in Nat \ S : <<m, n>> \notin OpToRel(<, Nat)
    BY NatLessThanWellFounded, WFMin
<1>2. n # 0 /\ n - 1 \in Nat
    OBVIOUS
<1>3. \A m \in Nat \ S : ~(m < n)
    BY <1>1 DEF OpToRel
<1>4. n - 1 \in S
    BY <1>2, <1>3
<1>5. (n - 1) + 1 = n
    OBVIOUS
<1> QED
    BY <1>4, <1>5

(* The recursion defines a function.                                        *)
LEMMA ChosenExists == ASSUME NEW v \in Readable, NEW n \in Nat PROVE \E f : Chosen(v, n, f)
<1> DEFINE S == {k \in Nat : \E f : Chosen(v, k, f)}
<1>1. 0 \in S
  <2>1. Chosen(v, 0, [k \in 0..0 |-> <<>>])
      BY DEF Chosen, UpTo
  <2> QED
      BY <2>1
<1>2. ASSUME NEW k \in S PROVE k + 1 \in S
  <2>1. PICK f : Chosen(v, k, f)
      OBVIOUS
  <2> DEFINE g == [j \in 0..k + 1 |-> IF j = k + 1 THEN UpTo(v, f, k + 1) ELSE f[j]]
  <2>2. ASSUME NEW j \in 0..k + 1 PROVE g[j] = UpTo(v, g, j)
    <3>1. CASE j = 0
      <4>1. f[0] = <<>>
          BY <2>1 DEF Chosen, UpTo
      <4> QED
          BY <3>1, <4>1 DEF UpTo
    <3>2. CASE j \in 1..k
      <4>1. g[j] = UpTo(v, f, j)
          BY <2>1, <3>2 DEF Chosen
      <4>2. g[j - 1] = f[j - 1]
          BY <3>2
      <4> QED
          BY <3>2, <4>1, <4>2 DEF UpTo
    <3>3. CASE j = k + 1
      <4>1. g[j] = UpTo(v, f, j) /\ g[j - 1] = f[j - 1]
          BY <3>3
      <4> QED
          BY <4>1 DEF UpTo
    <3> QED
        BY <3>1, <3>2, <3>3
  <2>3. g = [j \in 0..k + 1 |-> UpTo(v, g, j)]
    <3> HIDE DEF g
    <3>1. DOMAIN g = 0..k + 1 /\ g = [j \in 0..k + 1 |-> g[j]]
        BY DEF g
    <3> QED
        BY <2>2, <3>1
  <2>4. Chosen(v, k + 1, g)
      BY <2>3 DEF Chosen
  <2> QED
      BY <2>4
<1> HIDE DEF S
<1>3. S = Nat
    BY <1>1, <1>2, Induction DEF S
<1> QED
    BY <1>3 DEF S

LEMMA RunnableChosen ==
    ASSUME NEW v \in Readable
    PROVE  \E f : /\ Chosen(v, Len(Parsed[v].workflows), f)
                  /\ Runnable(v) = f[Len(Parsed[v].workflows)]
<1> DEFINE N == Len(Parsed[v].workflows)
           c == CHOOSE f : Chosen(v, N, f)
<1>1. N \in Nat
    BY VersionTypes
<1>2. Chosen(v, N, c)
    BY <1>1, ChosenExists
<1>3. Runnable(v) = c[N]
    BY DEF Runnable, Chosen, UpTo
<1> QED
    BY <1>2, <1>3

(* The list holds the ids of the workflows that may be run, and no other.   *)
LEMMA RunnableLists ==
    ASSUME NEW v \in Readable
    PROVE  /\ Runnable(v) \in Seq(STRING)
           /\ Range(Runnable(v)) = {id \in WorkflowIDs(v) : ~Workflow(v, id).disabled}
<1> DEFINE ws == Parsed[v].workflows
           N == Len(ws)
<1>1. /\ N \in Nat /\ DOMAIN ws = 1..N
      /\ \A i \in 1..N : ws[i] \in ParsedWorkflow /\ ws[i].id \in STRING
    BY VersionTypes
<1>2. PICK f : Chosen(v, N, f) /\ Runnable(v) = f[N]
    BY RunnableChosen
<1>3. /\ f[0] = <<>>
      /\ \A k \in 1..N : f[k] = IF ws[k].disabled THEN f[k - 1]
                                ELSE Append(f[k - 1], ws[k].id)
  <2>1. \A k \in 0..N : f[k] = UpTo(v, f, k)
      BY <1>2 DEF Chosen
  <2>2. 0 \in 0..N /\ \A k \in 1..N : k \in 0..N /\ k # 0
      BY <1>1
  <2> QED
      BY <2>1, <2>2 DEF UpTo
<1> DEFINE Enabled(k) == {ws[i].id : i \in {j \in 1..k : ~ws[j].disabled}}
           S == {k \in Nat : k <= N => f[k] \in Seq(STRING) /\ Range(f[k]) = Enabled(k)}
<1>4. 0 \in S
  <2>1. f[0] \in Seq(STRING) /\ Range(f[0]) = {} /\ Enabled(0) = {}
      BY <1>3 DEF Range
  <2> QED
      BY <2>1
<1>5. ASSUME NEW k \in S PROVE k + 1 \in S
  <2> SUFFICES ASSUME k + 1 <= N
               PROVE  f[k + 1] \in Seq(STRING) /\ Range(f[k + 1]) = Enabled(k + 1)
      OBVIOUS
  <2>1. f[k] \in Seq(STRING) /\ Range(f[k]) = Enabled(k) /\ k \in Nat
      OBVIOUS
  <2>2. /\ k + 1 \in 1..N
        /\ f[k + 1] = IF ws[k + 1].disabled THEN f[k] ELSE Append(f[k], ws[k + 1].id)
      BY <1>1, <1>3
  <2>3. \A j \in 1..k + 1 : j \in 1..k \/ j = k + 1
      OBVIOUS
  <2>4. CASE ws[k + 1].disabled
    <3>1. Enabled(k + 1) = Enabled(k)
        BY <2>1, <2>3, <2>4
    <3> QED
        BY <2>1, <2>2, <2>4, <3>1
  <2>5. CASE ~ws[k + 1].disabled
    <3>1. Enabled(k + 1) = Enabled(k) \cup {ws[k + 1].id}
        BY <2>1, <2>3, <2>5
    <3>2. f[k + 1] = Append(f[k], ws[k + 1].id) /\ ws[k + 1].id \in STRING
        BY <1>1, <2>2, <2>5
    <3>3. /\ f[k + 1] \in Seq(STRING)
          /\ Range(f[k + 1]) = Range(f[k]) \cup {ws[k + 1].id}
        BY <2>1, <3>2, RangeOfAppend
    <3> QED
        BY <2>1, <3>1, <3>3
  <2> QED
      BY <2>4, <2>5
<1>6. S = Nat
  <2> HIDE DEF S
  <2>1. S \in SUBSET Nat
      BY DEF S
  <2> QED
      BY <1>4, <1>5, <2>1, Induction
<1>7. f[N] \in Seq(STRING) /\ Range(f[N]) = Enabled(N)
  <2>1. N \in S
      BY <1>1, <1>6
  <2> QED
      BY <1>1, <2>1
<1>8. Enabled(N) = {id \in WorkflowIDs(v) : ~Workflow(v, id).disabled}
  <2>1. WorkflowIDs(v) = {ws[i].id : i \in 1..N}
      BY <1>1 DEF WorkflowIDs, Range
  <2>2. \A i \in 1..N : Workflow(v, ws[i].id) = ws[i]
      BY WorkflowAt
  <2> QED
      BY <2>1, <2>2
<1> QED
    BY <1>2, <1>7, <1>8

----------------------------------------------------------------------------
(* Sequences of runs and of ids. *)
LEMMA IdsAre ==
    ASSUME Read
    PROVE  /\ Len(ran) \in Nat /\ DOMAIN ran = 1..Len(ran)
           /\ \A i \in 1..Len(ran) : ran[i] \in RunEntry
           /\ Ids \in Seq(STRING) /\ Len(Ids) = Len(ran)
           /\ \A i \in 1..Len(ran) : Ids[i] = ran[i].id
<1>1. ran \in Seq(RunEntry)
    BY DEF Read
<1>2. /\ Len(ran) \in Nat /\ DOMAIN ran = 1..Len(ran)
      /\ \A i \in 1..Len(ran) : ran[i] \in RunEntry
    BY <1>1, LenProperties, ElementOfSeq
<1>3. Ids = [i \in 1..Len(ran) |-> ran[i].id]
    BY <1>2 DEF Ids
<1>4. \A i \in 1..Len(ran) : ran[i].id \in STRING
    BY <1>2 DEF RunEntry
<1>5. Ids \in Seq(STRING)
    BY <1>2, <1>3, <1>4, SeqDef
<1>6. Len(Ids) = Len(ran)
    BY <1>2, <1>3, <1>5, LenProperties
<1> QED
    BY <1>2, <1>3, <1>5, <1>6

LEMMA PrefixOfConcat ==
    ASSUME NEW U, NEW s \in Seq(U), NEW t \in Seq(U) PROVE IsPrefix(s, s \o t)
<1>1. /\ Len(s) \in Nat /\ Len(t) \in Nat
      /\ s \o t \in Seq(U) /\ Len(s \o t) = Len(s) + Len(t)
      /\ \A i \in 1..Len(s) : (s \o t)[i] = s[i]
    BY ConcatProperties, LenProperties
<1>2. SubSeq(s, 1, Len(s)) = [i \in 1..Len(s) |-> s[i]]
    BY <1>1
<1>3. SubSeq(s \o t, 1, Len(s)) = [i \in 1..Len(s) |-> (s \o t)[i]]
    BY <1>1
<1> QED
    BY <1>1, <1>2, <1>3 DEF IsPrefix

(* One run more, of the first of the queue. *)
LEMMA MoveFirst ==
    ASSUME NEW U, NEW s \in Seq(U), NEW t \in Seq(U), t # <<>>
    PROVE  s \o t = Append(s, Head(t)) \o Tail(t)
<1>1. /\ Len(s) \in Nat /\ Len(t) \in Nat \ {0}
      /\ Head(t) = t[1] /\ Head(t) \in U
      /\ Tail(t) \in Seq(U) /\ Len(Tail(t)) = Len(t) - 1
      /\ \A i \in 1..Len(t) - 1 : Tail(t)[i] = t[i + 1]
    BY LenProperties, HeadTailProperties, EmptySeq
<1>2. /\ Append(s, Head(t)) \in Seq(U) /\ Len(Append(s, Head(t))) = Len(s) + 1
      /\ Append(s, Head(t))[Len(s) + 1] = t[1]
      /\ \A i \in 1..Len(s) : Append(s, Head(t))[i] = s[i]
    BY <1>1, AppendProperties
<1> DEFINE a == s \o t
           b == Append(s, Head(t)) \o Tail(t)
<1>3. /\ a \in Seq(U) /\ Len(a) = Len(s) + Len(t)
      /\ \A i \in 1..Len(s) : a[i] = s[i]
      /\ \A i \in Len(s) + 1..Len(s) + Len(t) : a[i] = t[i - Len(s)]
    BY ConcatProperties
<1>4. /\ b \in Seq(U) /\ Len(b) = Len(s) + 1 + (Len(t) - 1)
      /\ \A i \in 1..Len(s) + 1 : b[i] = Append(s, Head(t))[i]
      /\ \A i \in Len(s) + 1 + 1..Len(s) + 1 + (Len(t) - 1) : b[i] = Tail(t)[i - (Len(s) + 1)]
    BY <1>1, <1>2, ConcatProperties
<1>5. ASSUME NEW i \in 1..Len(a) PROVE a[i] = b[i]
  <2>1. CASE i \in 1..Len(s)
      BY <1>1, <1>2, <1>3, <1>4, <2>1
  <2>2. CASE i = Len(s) + 1
      BY <1>1, <1>2, <1>3, <1>4, <2>2
  <2>3. CASE i \in Len(s) + 2..Len(s) + Len(t)
    <3>1. i - (Len(s) + 1) \in 1..Len(t) - 1 /\ i - (Len(s) + 1) + 1 = i - Len(s)
        BY <1>1, <2>3
    <3>2. a[i] = t[i - Len(s)] /\ b[i] = Tail(t)[i - (Len(s) + 1)]
        BY <1>1, <1>3, <1>4, <2>3
    <3> QED
        BY <1>1, <3>1, <3>2
  <2> QED
      BY <1>1, <1>3, <1>5, <2>1, <2>2, <2>3
<1>6. Len(a) = Len(b)
    BY <1>1, <1>3, <1>4
<1> HIDE DEF a, b
<1>7. a = b
    BY <1>3, <1>4, <1>5, <1>6, SeqEqual
<1> QED
    BY <1>7 DEF a, b

LEMMA FrameTypes ==
    ASSUME IInv
    PROVE  /\ Len(stack) \in Nat /\ DOMAIN stack = 1..Len(stack)
           /\ \A k \in 1..Len(stack) :
                 /\ stack[k] \in Frame /\ stack[k].version \in Readable
                 /\ stack[k].id \in WorkflowIDs(stack[k].version)
                 /\ Len(Blocks(stack[k])) \in Nat
                 /\ stack[k].step \in 1..Len(Blocks(stack[k])) + 1
<1>1. stack \in Seq(Frame)
    BY DEF IInv, Read
<1>2. Len(stack) \in Nat /\ DOMAIN stack = 1..Len(stack)
    BY <1>1, LenProperties
<1>3. \A k \in 1..Len(stack) :
         /\ stack[k] \in Frame /\ stack[k].version \in Readable
         /\ stack[k].id \in WorkflowIDs(stack[k].version)
         /\ stack[k].step \in 1..Len(Blocks(stack[k])) + 1
    BY <1>2 DEF IInv, TypeOK, Nest
<1>4. \A k \in 1..Len(stack) : Len(Blocks(stack[k])) \in Nat
    BY <1>3, WorkflowOfId DEF Blocks
<1> QED
    BY <1>2, <1>3, <1>4

----------------------------------------------------------------------------
LEMMA InitIInv == Init => IInv
<1> SUFFICES ASSUME Init PROVE IInv
    OBVIOUS
<1> USE DEF Init
<1>1. ran = <<>> /\ stack = <<>> /\ DOMAIN ran = {} /\ DOMAIN stack = {} /\ Len(stack) = 0
    OBVIOUS
<1>2. None \notin {"ok", "failed"} /\ MaxEdits \in Nat
    BY ProjectAssumption
<1>3. TypeOK
    BY <1>1, <1>2 DEF TypeOK
<1>4. Read
    BY <1>1 DEF Read, Busy
<1>5. Ids = <<>>
    BY <1>1 DEF Ids
<1>6. Progress /\ FailureIsLast /\ Nest
    BY <1>1, <1>5 DEF Progress, FailureIsLast, Nest, Busy
<1>7. RunsFollowListing
    BY <1>1, <1>2, <1>5 DEF RunsFollowListing, Ids
<1> QED
    BY <1>3, <1>4, <1>6, <1>7 DEF IInv

(* Nothing but the file is changed. *)
LEMMA EditStep == ASSUME IInv, Edit PROVE IInv'
<1> USE DEF Edit, reads
<1>1. TypeOK'
    BY ProjectAssumption DEF IInv, TypeOK
<1>2. Read' /\ FailureIsLast'
    BY DEF IInv, Read, FailureIsLast
<1>3. Ids' = Ids /\ ToRun' = ToRun
    BY DEF Ids, ToRun
<1>4. Progress' /\ Nest'
    BY <1>3 DEF IInv, Progress, Nest, CallsNext
<1>5. RunsFollowListing'
    BY DEF IInv, RunsFollowListing
<1> QED
    BY <1>1, <1>2, <1>4, <1>5 DEF IInv

----------------------------------------------------------------------------
(* Reading. *)
LEMMA Exiting ==
    ASSUME IInv, pc \in {"id", "list", "ai", "root", "siblings"}, Exit("failed")
    PROVE  IInv'
<1> USE DEF Exit, disk, reads
<1>1. None \notin {"ok", "failed"}
    BY ProjectAssumption
<1>2. TypeOK'
    BY <1>1 DEF IInv, TypeOK
<1>3. Read'
    BY DEF IInv, Read, Busy
<1>4. Ids' = Ids
    BY DEF Ids
<1>5. Progress'
    BY <1>4 DEF IInv, Progress, Busy
<1>6. FailureIsLast' /\ Nest'
    BY DEF IInv, FailureIsLast, Nest, CallsNext
<1>7. RunsFollowListing'
    BY DEF IInv, RunsFollowListing
<1> QED
    BY <1>2, <1>3, <1>5, <1>6, <1>7 DEF IInv

LEMMA ReadFailsStep == ASSUME IInv, ReadFails PROVE IInv'
    BY Exiting DEF ReadFails

LEMMA RejectRootStep == ASSUME IInv, RejectRoot PROVE IInv'
    BY Exiting DEF RejectRoot

LEMMA ReadProjectIDStep == ASSUME IInv, ReadProjectID PROVE IInv'
<1> USE DEF ReadProjectID, Unchanged, disk, reads
<1>1. request \in STRING /\ request \in Requests
    BY ProjectAssumption DEF IInv, TypeOK
<1>2. ran = <<>> /\ listing = None
    BY DEF IInv, Progress
<1>3. <<request>> \in Seq(STRING) /\ <<>> \in Seq(STRING)
    BY <1>1
<1>4. TypeOK'
    BY <1>3 DEF IInv, TypeOK
<1>5. Read'
  <2>1. <<request>> # <<>>
      OBVIOUS
  <2> QED
      BY <2>1 DEF IInv, Read, Busy
<1>6. Progress'
    BY <1>2 DEF IInv, Progress, Busy
<1>7. FailureIsLast' /\ Nest'
    BY <1>2 DEF IInv, FailureIsLast, Nest, CallsNext
<1>8. RunsFollowListing'
    BY DEF IInv, RunsFollowListing
<1> QED
    BY <1>4, <1>5, <1>6, <1>7, <1>8 DEF IInv

LEMMA ReadListingStep == ASSUME IInv, ReadListing PROVE IInv'
<1> USE DEF ReadListing, Unchanged, disk, reads
<1>1. ran = <<>> /\ request = All /\ exit # "ok"
  <2>1. ran = <<>> /\ request = All
      BY DEF IInv, Progress
  <2>2. exit = None
      BY DEF IInv, TypeOK
  <2> QED
      BY <2>1, <2>2, ProjectAssumption
<1>2. Runnable(file) \in Seq(STRING)
    BY RunnableLists
<1>3. Ids' = <<>>
    BY <1>1 DEF Ids
<1>4. Runnable(file) = <<>> \o Runnable(file)
    BY <1>2, ConcatEmptySeq
<1>5. TypeOK'
    BY <1>2 DEF IInv, TypeOK
<1>6. Read'
    BY DEF IInv, Read, Busy
<1>7. Progress'
    BY <1>1, <1>3, <1>4 DEF Progress, ToRun, Busy
<1>8. FailureIsLast' /\ Nest'
    BY <1>1 DEF IInv, FailureIsLast, Nest, CallsNext
<1>9. IsPrefix(<<>>, Runnable(file))
  <2>1. <<>> \in Seq(STRING)
      OBVIOUS
  <2>2. IsPrefix(<<>>, <<>> \o Runnable(file))
      BY <1>2, <2>1, PrefixOfConcat
  <2> QED
      BY <1>4, <2>2
<1>10. RunsFollowListing'
    BY <1>1, <1>3, <1>9 DEF RunsFollowListing, Ids
<1> QED
    BY <1>5, <1>6, <1>7, <1>8, <1>10 DEF IInv

(* At the end of the list everything on it was run.                         *)
LEMMA NextWorkflowStep == ASSUME IInv, NextWorkflow PROVE IInv'
<1> USE DEF NextWorkflow, disk, reads
<1>1. /\ request = All /\ listing \in Readable
      /\ Runnable(listing) = Ids \o queue
      /\ \A i \in DOMAIN ran : ran[i].ok
    BY DEF IInv, Progress, ToRun, FailureIsLast
<1>2. Ids' = Ids
    BY DEF Ids, Exit, Unchanged
<1>3. CASE queue = <<>>
  <2> USE DEF Exit
  <2>1. Runnable(listing) = Ids
      BY <1>1, <1>3, IdsAre, ConcatEmptySeq DEF IInv
  <2>2. TypeOK'
      BY <1>3, ProjectAssumption DEF IInv, TypeOK
  <2>3. Read'
      BY <1>3 DEF IInv, Read, Busy
  <2>4. Progress' /\ FailureIsLast' /\ Nest'
      BY <1>1, <1>3 DEF IInv, Progress, FailureIsLast, Nest, CallsNext, Busy
  <2>5. RunsFollowListing'
      BY <1>1, <1>3, <2>1 DEF IInv, RunsFollowListing, Ids
  <2> QED
      BY <2>2, <2>3, <2>4, <2>5 DEF IInv
<1>4. CASE queue # <<>>
  <2> USE DEF Unchanged
  <2>1. TypeOK' /\ Read'
      BY <1>4 DEF IInv, TypeOK, Read, Busy
  <2>2. Progress'
      BY <1>1, <1>2, <1>4 DEF Progress, ToRun, Busy
  <2>3. FailureIsLast' /\ Nest'
      BY <1>1, <1>4 DEF IInv, FailureIsLast, Nest, CallsNext
  <2>4. RunsFollowListing'
      BY <1>4 DEF IInv, RunsFollowListing
  <2> QED
      BY <2>1, <2>2, <2>3, <2>4 DEF IInv
<1> QED
    BY <1>3, <1>4

(* Between the listing and the run, only what has been read changes.        *)
LEMMA Reading ==
    ASSUME IInv, pc \in {"ai", "root", "siblings"}, pc' \in {"root", "siblings", "start"},
           Unchanged, UNCHANGED <<queue, listing>>, {ai, root, siblings}' \subseteq Readable \cup {None},
           Read'
    PROVE  IInv'
<1> USE DEF Unchanged, disk
<1>1. TypeOK'
    BY DEF IInv, TypeOK
<1>2. Ids' = Ids /\ ToRun' = ToRun
    BY DEF Ids, ToRun
<1>3. Progress'
    BY <1>2 DEF IInv, Progress, Busy
<1>4. FailureIsLast' /\ Nest'
    BY DEF IInv, FailureIsLast, Nest, CallsNext
<1>5. RunsFollowListing'
    BY DEF IInv, RunsFollowListing
<1> QED
    BY <1>1, <1>3, <1>4, <1>5 DEF IInv

LEMMA ReadAIStep == ASSUME IInv, ReadAI PROVE IInv'
<1> USE DEF ReadAI
<1>1. Read'
    BY DEF IInv, Read, Busy, Unchanged
<1> QED
    BY <1>1, Reading DEF IInv, TypeOK

LEMMA ReadRootStep == ASSUME IInv, ReadRoot PROVE IInv'
<1> USE DEF ReadRoot
<1>1. Read'
    BY DEF IInv, Read, Busy, Offers, Unchanged
<1> QED
    BY <1>1, Reading DEF IInv, TypeOK

LEMMA ReadSiblingsStep == ASSUME IInv, ReadSiblings PROVE IInv'
<1> USE DEF ReadSiblings
<1>1. Read'
    BY DEF IInv, Read, Busy, Unchanged
<1> QED
    BY <1>1, Reading DEF IInv, TypeOK

----------------------------------------------------------------------------
(* A run ends, and is put down as the first of what was to be run.          *)
LEMMA RunEnding ==
    ASSUME IInv, NEW ok \in BOOLEAN, RunEnds(ok), pc \in {"start", "running"},
           ok => ~Invalid(Workflow(root, Head(queue)))
    PROVE  IInv'
<1> DEFINE entry == [id |-> Head(queue), version |-> root, ok |-> ok]
<1>1. /\ root \in Readable /\ queue # <<>> /\ queue \in Seq(STRING)
      /\ Head(queue) \in WorkflowIDs(root)
      /\ ~Workflow(root, Head(queue)).disabled
      /\ ran \in Seq(RunEntry)
    BY DEF IInv, TypeOK, Read, Busy
<1>2. Head(queue) \in STRING
    BY <1>1, WorkflowOfId
<1>3. entry \in RunEntry
    BY <1>1, <1>2 DEF RunEntry
<1>4. /\ ran' = Append(ran, entry) /\ stack' = <<>> /\ pc' = "report"
      /\ UNCHANGED <<file, edits, request, listing, ai, root, siblings, queue, explained, exit>>
    BY DEF RunEnds, disk, reads
<1> HIDE DEF entry
<1>5. /\ Len(ran) \in Nat /\ DOMAIN ran = 1..Len(ran)
      /\ \A i \in 1..Len(ran) : ran[i] \in RunEntry
      /\ Ids \in Seq(STRING) /\ Len(Ids) = Len(ran)
      /\ \A i \in 1..Len(ran) : Ids[i] = ran[i].id
    BY IdsAre DEF IInv
<1>6. /\ ran' \in Seq(RunEntry) /\ Len(ran') = Len(ran) + 1
      /\ DOMAIN ran' = 1..Len(ran) + 1
      /\ ran'[Len(ran) + 1] = entry
      /\ \A i \in 1..Len(ran) : ran'[i] = ran[i]
    BY <1>1, <1>3, <1>4, <1>5, AppendProperties, LenProperties
<1>7. \A i \in 1..Len(ran) + 1 : i \in 1..Len(ran) \/ i = Len(ran) + 1
    BY <1>5
<1>8. entry.id = Head(queue) /\ entry.version = root /\ entry.ok = ok
    BY DEF entry
<1>9. Ids' = Append(Ids, Head(queue))
  <2>1. Ids' = [i \in 1..Len(ran) + 1 |-> ran'[i].id]
      BY <1>6 DEF Ids
  <2>2. /\ Append(Ids, Head(queue)) \in Seq(STRING)
        /\ Len(Append(Ids, Head(queue))) = Len(ran) + 1
        /\ Append(Ids, Head(queue))[Len(ran) + 1] = Head(queue)
        /\ \A i \in 1..Len(ran) : Append(Ids, Head(queue))[i] = Ids[i]
      BY <1>2, <1>5, AppendProperties
  <2>3. \A i \in 1..Len(ran) + 1 : ran'[i].id = Append(Ids, Head(queue))[i]
      BY <1>5, <1>6, <1>7, <1>8, <2>2
  <2>4. Append(Ids, Head(queue)) = [i \in 1..Len(ran) + 1 |-> Append(Ids, Head(queue))[i]]
      BY <2>2, LenProperties
  <2> QED
      BY <2>1, <2>3, <2>4
<1>10. explained' \subseteq DOMAIN ran'
  <2>1. explained \subseteq DOMAIN ran
      BY DEF IInv, TypeOK
  <2> QED
      BY <1>4, <1>5, <1>6, <1>7, <2>1
<1>11. TypeOK'
  <2>1. \A i \in DOMAIN ran' : ran'[i] \in [id : STRING, version : Readable, ok : BOOLEAN]
      BY <1>3, <1>5, <1>6, <1>7 DEF RunEntry
  <2>2. exit = None /\ pc # "done"
      BY DEF IInv, TypeOK
  <2> QED
      BY <1>4, <1>10, <2>1, <2>2 DEF IInv, TypeOK
<1>12. Read'
  <2>1. ran' # <<>>
      BY <1>5, <1>6
  <2> QED
      BY <1>1, <1>4, <1>6, <2>1 DEF Read, Busy
<1>13. request = All => listing \in Readable /\ Runnable(listing) = Ids' \o Tail(queue)
  <2>1. request = All => listing \in Readable /\ Runnable(listing) = Ids \o queue
      BY DEF IInv, Progress, ToRun, Busy
  <2> QED
      BY <1>1, <1>5, <1>9, <2>1, MoveFirst
<1>14. request # All =>
          listing = None /\ queue = <<request>> /\ Ids' = <<request>>
  <2>1. request # All => listing = None /\ ran = <<>> /\ queue = <<request>>
      BY DEF IInv, Progress, Busy
  <2>2. ran = <<>> => Ids = <<>>
      BY DEF Ids
  <2> QED
      BY <1>9, <2>1, <2>2
<1>15. Progress'
  <2>1. ToRun' = Tail(queue)
      BY <1>4 DEF ToRun
  <2>2. "report" \notin {"id", "list", "next"} /\ "report" \notin Busy \ {"report"}
      BY DEF Busy
  <2> QED
      BY <1>4, <1>13, <1>14, <2>1, <2>2 DEF Progress
<1>16. \A i \in 1..Len(ran) : ran[i].ok
  <2>1. pc \notin {"report", "done"}
      OBVIOUS
  <2> QED
      BY <1>5, <2>1 DEF IInv, FailureIsLast
<1>17. FailureIsLast'
    BY <1>4, <1>6, <1>7, <1>16 DEF FailureIsLast
<1>18. Nest'
    BY <1>4 DEF Nest
<1>19. \A i \in DOMAIN ran' :
          /\ ~ran'[i].ok => i = Len(ran')
          /\ ~Workflow(ran'[i].version, ran'[i].id).disabled
          /\ ran'[i].ok => ~Invalid(Workflow(ran'[i].version, ran'[i].id))
  <2>1. \A i \in 1..Len(ran) :
            /\ ~Workflow(ran[i].version, ran[i].id).disabled
            /\ ran[i].ok => ~Invalid(Workflow(ran[i].version, ran[i].id))
      BY <1>5 DEF IInv, RunsFollowListing
  <2> QED
      BY <1>1, <1>6, <1>7, <1>8, <1>16, <2>1
<1>20. listing # None => IsPrefix(Ids', Runnable(listing))
  <2>1. Tail(queue) \in Seq(STRING)
      BY <1>1, HeadTailProperties
  <2>2. Ids' \in Seq(STRING)
      BY <1>2, <1>5, <1>9, AppendProperties
  <2>3. IsPrefix(Ids', Ids' \o Tail(queue))
      BY <2>1, <2>2, PrefixOfConcat
  <2> QED
      BY <1>13, <1>14, <2>3
<1>21. exit' # "ok"
    BY <1>4, ProjectAssumption DEF IInv, TypeOK
<1>22. RunsFollowListing'
    BY <1>4, <1>14, <1>19, <1>20, <1>21 DEF RunsFollowListing, Ids
<1> QED
    BY <1>11, <1>12, <1>15, <1>17, <1>18, <1>22 DEF IInv

LEMMA StartRefusedStep == ASSUME IInv, StartRefused PROVE IInv'
    BY RunEnding DEF StartRefused

LEMMA StepFailsStep == ASSUME IInv, StepFails PROVE IInv'
    BY RunEnding DEF StepFails, Pending

LEMMA RootCompletesStep == ASSUME IInv, RootCompletes PROVE IInv'
<1>1. pc = "running" /\ RunEnds(TRUE)
    BY DEF RootCompletes
<1>2. ~Invalid(Workflow(root, Head(queue)))
    BY <1>1 DEF IInv, Read
<1> QED
    BY <1>1, <1>2, RunEnding

----------------------------------------------------------------------------
(* Steps of a run, which change the nest alone.                             *)
LEMMA Nesting ==
    ASSUME IInv, pc \in {"start", "running"}, pc' = "running",
           UNCHANGED <<disk, request, reads, queue, ran, explained, exit>>,
           ~Invalid(Workflow(root, Head(queue))),
           stack' \in Seq(Frame), stack' # <<>>,
           \A k \in 1..Len(stack') :
              /\ stack'[k].version \in Readable
              /\ stack'[k].id \in WorkflowIDs(stack'[k].version)
              /\ stack'[k].step \in 1..Len(Blocks(stack'[k])) + 1,
           \A k \in 2..Len(stack') : stack'[k].version = siblings,
           \A k \in 1..Len(stack') - 1 : CallsNext(k)'
    PROVE  IInv'
<1> USE DEF disk, reads
<1>1. /\ DOMAIN stack' = 1..Len(stack')
      /\ \A k \in 1..Len(stack') : stack'[k] \in Frame
    BY LenProperties, ElementOfSeq
<1>2. exit = None /\ pc # "done"
    BY DEF IInv, TypeOK
<1>3. TypeOK'
    BY <1>1, <1>2 DEF IInv, TypeOK
<1>4. Read'
    BY DEF IInv, Read, Busy
<1>5. Ids' = Ids /\ ToRun' = ToRun
    BY DEF Ids, ToRun
<1>6. Progress'
    BY <1>5 DEF IInv, Progress, Busy
<1>7. FailureIsLast'
    BY DEF IInv, FailureIsLast
<1>8. Nest'
    BY DEF Nest
<1>9. RunsFollowListing'
    BY DEF IInv, RunsFollowListing
<1> QED
    BY <1>3, <1>4, <1>6, <1>7, <1>8, <1>9 DEF IInv

LEMMA StartRunStep == ASSUME IInv, StartRun PROVE IInv'
<1> USE DEF StartRun
<1> DEFINE frame == [id |-> Head(queue), version |-> root, step |-> 1]
<1>1. root \in Readable /\ Head(queue) \in WorkflowIDs(root)
    BY DEF IInv, Read
<1>2. Head(queue) \in STRING /\ root \in Versions
    BY <1>1, WorkflowOfId, VersionTypes
<1>3. frame \in Frame
    BY <1>2 DEF Frame
<1>4. Len(Blocks(frame)) \in Nat
    BY <1>1, WorkflowOfId DEF Blocks
<1>5. stack' = <<frame>> /\ Len(stack') = 1 /\ stack'[1] = frame /\ stack' \in Seq(Frame)
    BY <1>3
<1>6. \A k \in 1..Len(stack') :
         /\ stack'[k].version \in Readable
         /\ stack'[k].id \in WorkflowIDs(stack'[k].version)
         /\ stack'[k].step \in 1..Len(Blocks(stack'[k])) + 1
    BY <1>1, <1>4, <1>5
<1>7. 2..Len(stack') = {} /\ 1..Len(stack') - 1 = {} /\ stack' # <<>>
    BY <1>5
<1>8. ~Invalid(Workflow(root, Head(queue)))
    OBVIOUS
<1>9. pc = "start" /\ pc' = "running" /\ UNCHANGED <<disk, request, reads, queue, ran, explained, exit>>
    OBVIOUS
<1> QED
    BY <1>5, <1>6, <1>7, <1>8, <1>9, Nesting

(* What changes when the last frame of a nest moves on.                     *)
LEMMA AdvancedFrames ==
    ASSUME NEW frames \in Seq(Frame), frames # <<>>
    PROVE  /\ Advanced(frames) \in Seq(Frame)
           /\ Len(Advanced(frames)) = Len(frames)
           /\ Len(frames) \in Nat \ {0}
           /\ \A k \in 1..Len(frames) - 1 : Advanced(frames)[k] = frames[k]
           /\ Advanced(frames)[Len(frames)].id = frames[Len(frames)].id
           /\ Advanced(frames)[Len(frames)].version = frames[Len(frames)].version
           /\ Advanced(frames)[Len(frames)].step = frames[Len(frames)].step + 1
<1> DEFINE n == Len(frames)
           last == [frames[n] EXCEPT !.step = @ + 1]
<1>1. n \in Nat \ {0} /\ DOMAIN frames = 1..n /\ frames[n] \in Frame
    BY LenProperties, EmptySeq, ElementOfSeq
<1>2. Advanced(frames) = [frames EXCEPT ![n] = last]
    BY DEF Advanced
<1>3. /\ last \in Frame
      /\ last.id = frames[n].id /\ last.version = frames[n].version
      /\ last.step = frames[n].step + 1
    BY <1>1 DEF Frame
<1> HIDE DEF last
<1>4. [frames EXCEPT ![n] = last] \in Seq(Frame) /\ Len([frames EXCEPT ![n] = last]) = n
    BY <1>1, <1>3, ExceptSeq
<1>5. /\ [frames EXCEPT ![n] = last][n] = last
      /\ \A k \in 1..n - 1 : [frames EXCEPT ![n] = last][k] = frames[k]
  <2> HIDE DEF n
  <2>1. n \in DOMAIN frames /\ \A k \in 1..n - 1 : k \in DOMAIN frames /\ k # n
      BY <1>1
  <2> QED
      BY <2>1
<1> QED
    BY <1>1, <1>2, <1>3, <1>4, <1>5

(* The step that the last frame stands at is one of its workflow.           *)
LEMMA AtStep ==
    ASSUME IInv, Pending
    PROVE  /\ stack # <<>> /\ Len(stack) \in Nat \ {0} /\ Current = stack[Len(stack)]
           /\ Current.step \in 1..Len(Blocks(Current))
<1>1. stack # <<>> /\ stack \in Seq(Frame)
    BY DEF IInv, Read, Nest, Pending
<1>2. Len(stack) \in Nat \ {0}
    BY <1>1, EmptySeq, LenProperties
<1>3. Current = stack[Len(stack)]
    BY DEF Current, Last
<1>4. Current.step \in 1..Len(Blocks(Current)) + 1 /\ Len(Blocks(Current)) \in Nat
    BY <1>2, <1>3, FrameTypes
<1>5. Current.step \in 1..Len(Blocks(Current))
    BY <1>4 DEF Pending
<1> QED
    BY <1>1, <1>2, <1>3, <1>5

LEMMA StepSucceedsStep == ASSUME IInv, StepSucceeds PROVE IInv'
<1>1. Pending /\ stack' = Advanced(stack) /\ Moves /\ pc = "running"
    BY DEF StepSucceeds, Pending
<1> DEFINE n == Len(stack)
<1>2. /\ stack # <<>> /\ n \in Nat \ {0} /\ Current = stack[n]
      /\ stack[n].step \in 1..Len(Blocks(stack[n]))
    BY <1>1, AtStep
<1>3. stack \in Seq(Frame)
    BY DEF IInv, Read
<1>4. /\ stack' \in Seq(Frame) /\ Len(stack') = n
      /\ \A k \in 1..n - 1 : stack'[k] = stack[k]
      /\ stack'[n].id = stack[n].id /\ stack'[n].version = stack[n].version
      /\ stack'[n].step = stack[n].step + 1
    BY <1>1, <1>2, <1>3, AdvancedFrames
<1>5. Blocks(stack'[n]) = Blocks(stack[n])
    BY <1>4 DEF Blocks
<1>6. \A k \in 1..n : k \in 1..n - 1 \/ k = n
    BY <1>2
<1>7. /\ \A k \in 1..n : /\ stack[k].version \in Readable
                         /\ stack[k].id \in WorkflowIDs(stack[k].version)
                         /\ stack[k].step \in 1..Len(Blocks(stack[k])) + 1
      /\ Len(Blocks(stack[n])) \in Nat
    BY <1>2, FrameTypes
<1>8. \A k \in 1..n :
         /\ stack'[k].version \in Readable
         /\ stack'[k].id \in WorkflowIDs(stack'[k].version)
         /\ stack'[k].step \in 1..Len(Blocks(stack'[k])) + 1
  <2>1. stack'[n].step \in 1..Len(Blocks(stack'[n])) + 1
      BY <1>2, <1>4, <1>5, <1>7
  <2>2. stack'[n].version \in Readable /\ stack'[n].id \in WorkflowIDs(stack'[n].version)
      BY <1>2, <1>4, <1>7
  <2> QED
      BY <1>2, <1>4, <1>6, <1>7, <2>1, <2>2
<1>9. \A k \in 2..n : stack'[k].version = siblings
    BY <1>2, <1>4, <1>6 DEF IInv, Nest
<1>10. ASSUME NEW k \in 1..n - 1 PROVE CallsNext(k)'
  <2>1. CallsNext(k)
      BY DEF IInv, Nest
  <2>2. stack'[k] = stack[k] /\ stack'[k + 1].id = stack[k + 1].id
      BY <1>2, <1>4, <1>6
  <2> QED
      BY <2>1, <2>2 DEF CallsNext
<1>11. ~Invalid(Workflow(root, Head(queue)))
    BY <1>1 DEF IInv, Read
<1>12. pc' = "running" /\ UNCHANGED <<disk, request, reads, queue, ran, explained, exit>> /\ stack' # <<>>
    BY <1>1, <1>2, <1>4 DEF Moves, disk, reads
<1> QED
    BY <1>1, <1>4, <1>8, <1>9, <1>10, <1>11, <1>12, Nesting

(* The workflow called is found among the siblings, and its caller stands   *)
(* at the call.                                                             *)
LEMMA CallWorkflowStep == ASSUME IInv, CallWorkflow PROVE IInv'
<1> DEFINE n == Len(stack)
           frame == [id |-> Block.target, version |-> Callees, step |-> 1]
<1>1. /\ Pending /\ stack' = Append(stack, frame) /\ Moves /\ pc = "running"
      /\ Block.type = "workflow" /\ Found(Block.target)
    BY DEF CallWorkflow, Pending
<1>2. /\ stack # <<>> /\ n \in Nat \ {0} /\ Current = stack[n]
      /\ stack[n].step \in 1..Len(Blocks(stack[n]))
    BY <1>1, AtStep
<1>3. stack \in Seq(Frame) /\ siblings \in Readable
    BY <1>1 DEF IInv, Read
<1>4. Block.target \in WorkflowIDs(siblings) /\ Callees = siblings
    BY <1>1 DEF Found, Callees
<1>5. Block.target \in STRING /\ siblings \in Versions
    BY <1>3, <1>4, WorkflowOfId, VersionTypes
<1>6. /\ frame \in Frame /\ frame.version = siblings /\ frame.id = Block.target
      /\ frame.step = 1
    BY <1>4, <1>5 DEF Frame
<1>7. Len(Blocks(frame)) \in Nat
    BY <1>3, <1>4, WorkflowOfId DEF Blocks
<1> HIDE DEF frame
<1>8. /\ stack' \in Seq(Frame) /\ Len(stack') = n + 1 /\ stack'[n + 1] = frame
      /\ \A k \in 1..n : stack'[k] = stack[k]
    BY <1>1, <1>3, <1>6, AppendProperties
<1>9. \A k \in 1..n + 1 : k \in 1..n \/ k = n + 1
    BY <1>2
<1>10. \A k \in 1..n : /\ stack[k].version \in Readable
                       /\ stack[k].id \in WorkflowIDs(stack[k].version)
                       /\ stack[k].step \in 1..Len(Blocks(stack[k])) + 1
    BY FrameTypes
<1>11. \A k \in 1..n + 1 :
          /\ stack'[k].version \in Readable
          /\ stack'[k].id \in WorkflowIDs(stack'[k].version)
          /\ stack'[k].step \in 1..Len(Blocks(stack'[k])) + 1
  <2>1. 1 \in 1..Len(Blocks(frame)) + 1
      BY <1>7
  <2> QED
      BY <1>3, <1>4, <1>6, <1>8, <1>9, <1>10, <2>1
<1>12. \A k \in 2..n + 1 : stack'[k].version = siblings
  <2>1. \A k \in 2..n : stack[k].version = siblings
      BY DEF IInv, Nest
  <2>2. \A k \in 2..n + 1 : (k \in 2..n /\ k \in 1..n) \/ k = n + 1
      BY <1>2
  <2> QED
      BY <1>6, <1>8, <2>1, <2>2
<1>13. ASSUME NEW k \in 1..n PROVE CallsNext(k)'
  <2>1. CASE k = n
    <3>1. stack'[k] = Current /\ stack'[k + 1].id = Block.target
        BY <1>2, <1>6, <1>8, <2>1
    <3>2. Block = Blocks(Current)[Current.step]
        BY DEF Block
    <3>3. Current.step \in 1..Len(Blocks(Current))
        BY <1>2
    <3> QED
        BY <1>1, <3>1, <3>2, <3>3 DEF CallsNext
  <2>2. CASE k \in 1..n - 1
    <3>1. CallsNext(k)
        BY <2>2 DEF IInv, Nest
    <3>2. stack'[k] = stack[k] /\ stack'[k + 1] = stack[k + 1]
        BY <1>2, <1>8, <2>2
    <3> QED
        BY <3>1, <3>2 DEF CallsNext
  <2> QED
      BY <1>2, <2>1, <2>2
<1>14. ~Invalid(Workflow(root, Head(queue)))
    BY <1>1 DEF IInv, Read
<1>15. pc' = "running" /\ UNCHANGED <<disk, request, reads, queue, ran, explained, exit>> /\ stack' # <<>>
    BY <1>1, <1>2, <1>8 DEF Moves, disk, reads
<1>16. Len(stack') - 1 = n
    BY <1>2, <1>8
<1> QED
    BY <1>1, <1>8, <1>11, <1>12, <1>13, <1>14, <1>15, <1>16, Nesting

LEMMA ReturnFromCallStep == ASSUME IInv, ReturnFromCall PROVE IInv'
<1> DEFINE front == Front(stack)
<1>1. pc = "running" /\ stack' = Advanced(front) /\ Moves
    BY DEF ReturnFromCall
<1>2. stack \in Seq(Frame)
    BY DEF IInv, Read
<1>3. PICK n \in Nat \ {0} : Len(stack) = n + 1
  <2>1. PICK l \in Nat : l = Len(stack)
      BY <1>2, LenProperties
  <2>2. l > 1
      BY <2>1 DEF ReturnFromCall
  <2>3. l - 1 \in Nat \ {0} /\ l = (l - 1) + 1
      BY <2>2
  <2> QED
      BY <2>1, <2>3
<1>4. /\ front \in Seq(Frame) /\ Len(front) = n
      /\ \A k \in 1..n : front[k] = stack[k]
  <2>1. front = [k \in 1..n |-> stack[k]]
      BY <1>2, <1>3 DEF Front
  <2>2. \A k \in 1..n : stack[k] \in Frame
      BY <1>2, <1>3, ElementOfSeq
  <2> HIDE DEF front
  <2>3. front \in Seq(Frame)
      BY <1>2, <1>3, <2>1, <2>2, SeqDef
  <2> QED
      BY <1>2, <1>3, <2>1, <2>3, LenProperties
<1> HIDE DEF front
<1>5. front # <<>>
    BY <1>2, <1>3, <1>4
<1>6. /\ stack' \in Seq(Frame) /\ Len(stack') = n
      /\ \A k \in 1..n - 1 : stack'[k] = stack[k]
      /\ stack'[n].id = stack[n].id /\ stack'[n].version = stack[n].version
      /\ stack'[n].step = stack[n].step + 1
  <2>1. /\ Advanced(front) \in Seq(Frame) /\ Len(Advanced(front)) = n
        /\ \A k \in 1..n - 1 : Advanced(front)[k] = front[k]
        /\ Advanced(front)[n].id = front[n].id
        /\ Advanced(front)[n].version = front[n].version
        /\ Advanced(front)[n].step = front[n].step + 1
      BY <1>4, <1>5, AdvancedFrames
  <2>2. n \in 1..n /\ \A k \in 1..n - 1 : k \in 1..n
      BY <1>3
  <2>3. front[n] = stack[n] /\ \A k \in 1..n - 1 : front[k] = stack[k]
      BY <1>4, <2>2
  <2> QED
      BY <1>1, <2>1, <2>3
<1>7. CallsNext(n)
    BY <1>2, <1>3 DEF IInv, Nest
<1>8. stack[n].step \in 1..Len(Blocks(stack[n]))
    BY <1>7 DEF CallsNext
<1>9. Blocks(stack'[n]) = Blocks(stack[n])
    BY <1>6 DEF Blocks
<1>10. \A k \in 1..n : k \in 1..n - 1 \/ k = n
    BY <1>2, <1>3
<1>11. /\ \A k \in 1..n : /\ stack[k].version \in Readable
                          /\ stack[k].id \in WorkflowIDs(stack[k].version)
                          /\ stack[k].step \in 1..Len(Blocks(stack[k])) + 1
       /\ Len(Blocks(stack[n])) \in Nat
    BY <1>2, <1>3, FrameTypes
<1>12. \A k \in 1..n :
          /\ stack'[k].version \in Readable
          /\ stack'[k].id \in WorkflowIDs(stack'[k].version)
          /\ stack'[k].step \in 1..Len(Blocks(stack'[k])) + 1
  <2>1. stack'[n].step \in 1..Len(Blocks(stack'[n])) + 1
      BY <1>2, <1>3, <1>6, <1>8, <1>9, <1>11
  <2>2. stack'[n].version \in Readable /\ stack'[n].id \in WorkflowIDs(stack'[n].version)
      BY <1>2, <1>3, <1>6, <1>11
  <2> QED
      BY <1>2, <1>3, <1>6, <1>10, <1>11, <2>1, <2>2
<1>13. \A k \in 2..n : stack'[k].version = siblings
    BY <1>2, <1>3, <1>6, <1>10 DEF IInv, Nest
<1>14. ASSUME NEW k \in 1..n - 1 PROVE CallsNext(k)'
  <2>1. CallsNext(k)
      BY <1>2, <1>3 DEF IInv, Nest
  <2>2. stack'[k] = stack[k] /\ stack'[k + 1].id = stack[k + 1].id
      BY <1>2, <1>3, <1>6, <1>10
  <2> QED
      BY <2>1, <2>2 DEF CallsNext
<1>15. ~Invalid(Workflow(root, Head(queue)))
    BY <1>1 DEF IInv, Read
<1>16. pc' = "running" /\ UNCHANGED <<disk, request, reads, queue, ran, explained, exit>> /\ stack' # <<>>
    BY <1>1, <1>2, <1>3, <1>6 DEF Moves, disk, reads
<1> QED
    BY <1>1, <1>6, <1>12, <1>13, <1>14, <1>15, <1>16, Nesting

----------------------------------------------------------------------------
(* The end of a run. *)
LEMMA ExplainedRuns ==
    ASSUME IInv, pc = "report" PROVE Explained \subseteq DOMAIN ran
<1>1. /\ explained \subseteq DOMAIN ran
      /\ Len(ran) \in Nat /\ DOMAIN ran = 1..Len(ran)
    BY IdsAre DEF IInv, TypeOK
<1>2. ran # <<>> /\ ran \in Seq(RunEntry)
    BY DEF IInv, Read
<1>3. Len(ran) # 0
    BY <1>2, EmptySeq
<1> QED
    BY <1>1, <1>3 DEF Explained

LEMMA ReportFailureStep == ASSUME IInv, ReportFailure PROVE IInv'
<1> USE DEF ReportFailure, disk, reads
<1>1. None \notin {"ok", "failed"}
    BY ProjectAssumption
<1>2. Explained \subseteq DOMAIN ran
    BY ExplainedRuns
<1>3. TypeOK'
    BY <1>1, <1>2 DEF IInv, TypeOK
<1>4. Read'
    BY DEF IInv, Read, Busy
<1>5. Progress'
    BY DEF IInv, Progress, Busy
<1>6. FailureIsLast' /\ Nest'
    BY DEF IInv, FailureIsLast, Nest
<1>7. RunsFollowListing'
    BY DEF IInv, RunsFollowListing
<1> QED
    BY <1>3, <1>4, <1>5, <1>6, <1>7 DEF IInv

LEMMA ReportSuccessStep == ASSUME IInv, ReportSuccess PROVE IInv'
<1> USE DEF ReportSuccess, disk, reads
<1>1. None \notin {"ok", "failed"}
    BY ProjectAssumption
<1>2. Explained \subseteq DOMAIN ran
    BY ExplainedRuns
<1>3. Tail(queue) \in Seq(STRING)
    BY HeadTailProperties DEF IInv, TypeOK, Read, Busy
<1>4. TypeOK'
    BY <1>1, <1>2, <1>3 DEF IInv, TypeOK
<1>5. Read'
    BY DEF IInv, Read, Busy
<1>6. \A i \in DOMAIN ran : ran[i].ok
    BY DEF IInv, FailureIsLast, Last
<1>7. FailureIsLast' /\ Nest'
    BY <1>6 DEF IInv, FailureIsLast, Nest
<1>8. Ids' = Ids
    BY DEF Ids
<1>9. /\ request = All => listing \in Readable /\ Runnable(listing) = Ids \o Tail(queue)
      /\ request # All => listing = None /\ Ids = <<request>>
    BY DEF IInv, Progress, ToRun, Busy
<1>10. Progress'
  <2>1. CASE request = All
    <3>1. ToRun' = queue' /\ queue' = Tail(queue) /\ pc' = "next"
        BY <2>1 DEF ToRun
    <3> QED
        BY <1>8, <1>9, <2>1, <3>1 DEF Progress
  <2>2. CASE request # All
      BY <1>9, <2>2 DEF Progress, Busy
  <2> QED
      BY <2>1, <2>2
<1>11. exit = None
    BY DEF IInv, TypeOK
<1>12. RunsFollowListing'
  <2>1. CASE request = All
      BY <1>1, <1>11, <2>1 DEF IInv, RunsFollowListing
  <2>2. CASE request # All
      BY <1>6, <1>9, <2>2 DEF IInv, RunsFollowListing, Ids
  <2> QED
      BY <2>1, <2>2
<1> QED
    BY <1>4, <1>5, <1>7, <1>10, <1>12 DEF IInv

----------------------------------------------------------------------------
LEMMA NextIInv == IInv /\ [Next]_vars => IInv'
<1> SUFFICES ASSUME IInv, [Next]_vars PROVE IInv'
    OBVIOUS
<1>1. CASE Edit
    BY <1>1, EditStep
<1>2. CASE Load
    BY <1>2, ReadProjectIDStep, ReadListingStep, NextWorkflowStep, ReadAIStep, ReadRootStep,
       ReadSiblingsStep, ReadFailsStep, RejectRootStep
    DEF Load
<1>3. CASE Run
    BY <1>3, StartRefusedStep, StartRunStep, StepSucceedsStep, CallWorkflowStep,
       ReturnFromCallStep, StepFailsStep, RootCompletesStep
    DEF Run
<1>4. CASE ReportFailure \/ ReportSuccess
    BY <1>4, ReportFailureStep, ReportSuccessStep
<1>5. CASE UNCHANGED vars
  <2> USE <1>5 DEF vars, disk, reads
  <2>1. TypeOK' /\ Read'
      BY DEF IInv, TypeOK, Read
  <2>2. Ids' = Ids /\ ToRun' = ToRun
      BY DEF Ids, ToRun
  <2>3. Progress' /\ FailureIsLast'
      BY <2>2 DEF IInv, Progress, FailureIsLast
  <2>4. Nest' /\ RunsFollowListing'
      BY DEF IInv, Nest, CallsNext, RunsFollowListing
  <2> QED
      BY <2>1, <2>3, <2>4 DEF IInv
<1> QED
    BY <1>1, <1>2, <1>3, <1>4, <1>5 DEF Next, Terminated

THEOREM Invariance == Spec => []IInv
    BY InitIInv, NextIInv, PTL DEF Spec

(* Every workflow that is run or called is one of the version it was taken     *)
(* from, and stands at a step of it: an edit leaves no frame pointing nowhere. *)
THEOREM TypeCorrect == Spec => []TypeOK
<1>1. IInv => TypeOK
    BY DEF IInv
<1> QED
    BY <1>1, Invariance, PTL

(* Whatever is edited meanwhile, the workflows that were listed are run in     *)
(* their order until one fails, and success is said only of all of them.       *)
THEOREM RunsAsListed == Spec => []RunsFollowListing
<1>1. IInv => RunsFollowListing
    BY DEF IInv
<1> QED
    BY <1>1, Invariance, PTL

(* A workflow met twice in a nest would be a circle of calls in the version    *)
(* that the siblings came from: the ids from the one to the other call each    *)
(* other.                                                                      *)
THEOREM NoCircle == Spec => []CallsDoNotCircle
<1>1. ASSUME IInv, NEW i \in 2..Len(stack), NEW j \in 2..Len(stack), i < j
      PROVE  stack[i].id # stack[j].id
  <2> SUFFICES ASSUME stack[i].id = stack[j].id PROVE FALSE
      OBVIOUS
  <2> DEFINE ids == {stack[k].id : k \in i..j - 1}
  <2>1. Len(stack) \in Nat
      BY <1>1, FrameTypes
  <2>2. \A k \in i..j - 1 :
           /\ k \in 1..Len(stack) - 1 /\ k \in 2..Len(stack) /\ k + 1 \in i + 1..j
           /\ k \in 1..Len(stack)
      BY <2>1
  <2>3. \A k \in i..j - 1 : stack[k].version = siblings /\ CallsNext(k)
      BY <1>1, <2>2 DEF IInv, Nest
  <2>4. \A k \in i..j - 1 : stack[k].version \in Readable /\ stack[k].id \in WorkflowIDs(siblings)
      BY <1>1, <2>2, <2>3, FrameTypes
  <2>5. i \in i..j - 1
      BY <1>1, <2>1
  <2>6. siblings \in Readable /\ ids \in SUBSET WorkflowIDs(siblings) /\ stack[i].id \in ids
      BY <2>3, <2>4, <2>5
  <2>7. ASSUME NEW k \in i..j - 1 PROVE stack[k + 1].id \in ids
    <3>1. k + 1 = j \/ k + 1 \in i..j - 1
        OBVIOUS
    <3> QED
        BY <2>6, <3>1
  <2>8. ASSUME NEW id \in ids
        PROVE  \E b \in DOMAIN Workflow(siblings, id).blocks :
                  /\ Workflow(siblings, id).blocks[b].type = "workflow"
                  /\ Workflow(siblings, id).blocks[b].target \in ids
    <3>1. PICK k \in i..j - 1 : id = stack[k].id
        OBVIOUS
    <3>2. Blocks(stack[k]) = Workflow(siblings, id).blocks
        BY <2>3, <3>1 DEF Blocks
    <3>3. id \in WorkflowIDs(siblings)
        BY <2>4, <3>1
    <3>4. DOMAIN Workflow(siblings, id).blocks = 1..Len(Workflow(siblings, id).blocks)
        BY <2>6, <3>3, WorkflowOfId
    <3> QED
        BY <2>3, <2>7, <3>2, <3>4 DEF CallsNext
  <2> HIDE DEF ids
  <2>9. Circles(siblings)
      BY <2>6, <2>8 DEF Circles
  <2> QED
      BY <2>6, <2>9, ProjectAssumption
<1>2. ASSUME IInv PROVE CallsDoNotCircle
  <2>1. \A i, j \in 2..Len(stack) : i < j => stack[i].id # stack[j].id
      BY <1>1, <1>2
  <2>2. Len(stack) \in Nat
      BY <1>2, FrameTypes
  <2>3. \A i, j \in 2..Len(stack) : i # j => i < j \/ j < i
      BY <2>2
  <2> QED
      BY <2>1, <2>3 DEF CallsDoNotCircle
<1> QED
    BY <1>2, Invariance, PTL

==============================================================================
