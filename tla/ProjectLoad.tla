------------------------------ MODULE ProjectLoad ------------------------------
(***************************************************************************)
(* The CLI running workflows of a project whose file may be edited while   *)
(* it runs: internal/repository/file/repository.go, the reads of it made   *)
(* by internal/app/cli/run.go and internal/service/workflow/service.go,    *)
(* and the lookups of nested workflows in internal/engine/runner.go.       *)
(*                                                                         *)
(* Nothing is cached: the repository reads and parses the file anew for    *)
(* the project's id, for the list of workflows, for the AI configuration,  *)
(* for the definition to run and for its siblings.  An edit is another of  *)
(* the versions in Files, one of which may be a file half written.         *)
(***************************************************************************)
EXTENDS Integers, Sequences, SequencesExt

CONSTANTS
    Files,      \* the versions of the file: a function to RawFile
    Env,        \* the environment: a function from names to values
    Requests,   \* workflow ids asked for, and All
    All,        \* no workflow id: run them all
    None,
    MaxEdits    \* the model's bound on edits

Versions == DOMAIN Files

(* A string as written: a literal, or ${ref:=text} and ${ref}, which has    *)
(* an empty text.                                                           *)
ResolveEnvRef(value) ==
    IF value.ref = None THEN value.text
    ELSE IF value.ref \in DOMAIN Env /\ Env[value.ref] # "" THEN Env[value.ref]
    ELSE value.text

(* A block as written has a type or "", the target of a workflow block, and *)
(* a condition: none, an "empty" mapping, a "list", or a mapping that is    *)
(* "whole" or "partial", without an operator.                               *)
RawBlock ==
    [type : STRING, target : STRING,
     condition : {None, "empty", "list", "whole", "partial"}]

RawWorkflow ==
    [id : STRING, disabled : BOOLEAN, timeout : Int, blocks : Seq(RawBlock)]

BlockRefused(raw) == raw.type = "" \/ raw.condition = "list"

ParseBlock(raw) ==
    [raw EXCEPT !.condition = IF raw.condition = "empty" THEN None ELSE raw.condition]

WorkflowRefused(raw) ==
    \/ raw.id = ""
    \/ \E i \in DOMAIN raw.blocks : BlockRefused(raw.blocks[i])

ParseWorkflow(raw) ==
    [raw EXCEPT !.blocks = [i \in DOMAIN raw.blocks |-> ParseBlock(raw.blocks[i])]]

Providers == {"ollama", "openai_compatible"}

(* The AI configuration: enabled unless it says otherwise, and complete     *)
(* when no field is empty.                                                  *)
ParseAI(raw) ==
    IF raw = None THEN None
    ELSE [enabled |-> raw.enabled # "false",
          provider |-> ResolveEnvRef(raw.fields.provider),
          timeout |-> raw.timeout,
          complete |-> \A f \in DOMAIN raw.fields : ResolveEnvRef(raw.fields[f]) # ""]

(* A bad timeout or provider is refused also where the AI is disabled.      *)
AIRefused(ai) ==
    /\ ai # None
    /\ \/ ai.timeout < 0
       \/ ai.provider \notin Providers \cup {""}
       \/ ai.enabled /\ ~ai.complete

(* parse: a file half written, a refused part or two workflows of one id    *)
(* make the whole file unreadable, for every workflow of the project.       *)
FileRefused(raw) ==
    \/ ~raw.whole
    \/ AIRefused(ParseAI(raw.ai))
    \/ \E i \in DOMAIN raw.workflows : WorkflowRefused(raw.workflows[i])
    \/ ~IsInjective([i \in DOMAIN raw.workflows |-> raw.workflows[i].id])

Parse(raw) ==
    [id |-> IF raw.id # "" THEN raw.id ELSE raw.name,
     ai |-> ParseAI(raw.ai),
     workflows |-> [i \in DOMAIN raw.workflows |-> ParseWorkflow(raw.workflows[i])]]

(* What each version is read as.                                            *)
Readable == {v \in Versions : ~FileRefused(Files[v])}
Parsed == [v \in Readable |-> Parse(Files[v])]

WorkflowIDs(v) == {w.id : w \in Range(Parsed[v].workflows)}

Workflow(v, id) == CHOOSE w \in Range(Parsed[v].workflows) : w.id = id

(* The loop over the workflows, which passes over those not to be run.      *)
Runnable(v) ==
    LET workflows == Parsed[v].workflows
        upTo[n \in 0..Len(workflows)] ==
            IF n = 0 THEN <<>>
            ELSE IF workflows[n].disabled THEN upTo[n - 1]
            ELSE Append(upTo[n - 1], workflows[n].id)
    IN  upTo[Len(workflows)]

(* A set of workflows each of which calls one of the set: a circle.  The    *)
(* code checks for none; versions that hold one never end a run and are     *)
(* left out.                                                                *)
Circles(v) ==
    \E ids \in SUBSET WorkflowIDs(v) \ {{}} : \A id \in ids :
        \E i \in DOMAIN Workflow(v, id).blocks :
            Workflow(v, id).blocks[i].type = "workflow"
            /\ Workflow(v, id).blocks[i].target \in ids

ASSUME ProjectAssumption ==
    /\ \A v \in Versions : Files[v].workflows \in Seq(RawWorkflow)
    /\ Requests \subseteq STRING
    /\ None \notin Versions \cup {"ok", "failed"}
    /\ \A v \in Readable : All \notin WorkflowIDs(v) /\ ~Circles(v)
    /\ MaxEdits \in Nat

----------------------------------------------------------------------------
VARIABLES
    file, edits,        \* the version on disk, and how many edits it saw
    request,            \* the workflow asked for, or All
    pc,
    listing,            \* the version the list of workflows came from
    queue,              \* ids still to run, the first of them being run
    ai, root, siblings, \* the versions the last run was put together from
    stack,              \* the nest of workflows being run, the root first
    ran,                \* the runs so far: id, version and how it went
    explained,          \* runs whose failure was sent to the AI
    exit                \* None, "ok" or "failed"

disk == <<file, edits>>
reads == <<listing, ai, root, siblings>>
vars == <<disk, request, pc, reads, queue, stack, ran, explained, exit>>

Frame == [id : STRING, version : Versions, step : Nat \ {0}]

(* The steps of a frame; one past them when the workflow is done.           *)
Blocks(frame) == Workflow(frame.version, frame.id).blocks

TypeOK ==
    /\ file \in Versions /\ edits \in 0..MaxEdits
    /\ request \in Requests
    /\ pc \in {"id", "list", "next", "ai", "root", "siblings", "start", "running",
               "report", "done"}
    /\ {listing, ai, root, siblings} \subseteq Readable \cup {None}
    /\ queue \in Seq(STRING)
    /\ \A i \in DOMAIN stack :
        /\ stack[i] \in Frame /\ stack[i].id \in WorkflowIDs(stack[i].version)
        /\ stack[i].step \in 1..Len(Blocks(stack[i])) + 1
    /\ \A i \in DOMAIN ran : ran[i] \in [id : STRING, version : Readable, ok : BOOLEAN]
    /\ explained \subseteq DOMAIN ran
    /\ exit \in {None, "ok", "failed"}
    /\ exit # None <=> pc = "done"

Init ==
    /\ file \in Versions /\ edits = 0
    /\ request \in Requests
    /\ pc = "id"
    /\ listing = None /\ ai = None /\ root = None /\ siblings = None
    /\ queue = <<>> /\ stack = <<>> /\ ran = <<>> /\ explained = {}
    /\ exit = None

(* Someone saves another version of the file.                               *)
Edit ==
    /\ edits < MaxEdits /\ pc # "done"
    /\ file' \in Versions \ {file}
    /\ edits' = edits + 1
    /\ UNCHANGED <<request, pc, reads, queue, stack, ran, explained, exit>>

Exit(status) ==
    /\ pc' = "done" /\ exit' = status
    /\ UNCHANGED <<disk, request, reads, queue, stack, ran, explained>>

(* GetProject reads and parses the file; an error ends the process.         *)
ReadFails ==
    /\ pc \in {"id", "list", "ai", "root", "siblings"}
    /\ file \notin Readable
    /\ Exit("failed")

Unchanged == UNCHANGED <<disk, request, stack, ran, explained, exit>>

(* Run begins with ProjectID.                                               *)
ReadProjectID ==
    /\ pc = "id" /\ file \in Readable
    /\ IF request = All THEN pc' = "list" /\ queue' = <<>>
                        ELSE pc' = "ai" /\ queue' = <<request>>
    /\ UNCHANGED reads /\ Unchanged

(* Without a workflow id it lists them once, before the first is run.       *)
ReadListing ==
    /\ pc = "list" /\ file \in Readable
    /\ listing' = file
    /\ queue' = Runnable(file)
    /\ pc' = "next"
    /\ UNCHANGED <<ai, root, siblings>> /\ Unchanged

NextWorkflow ==
    /\ pc = "next"
    /\ IF queue = <<>> THEN Exit("ok")
       ELSE pc' = "ai" /\ UNCHANGED <<reads, queue>> /\ Unchanged

(* executeWorkflow keeps the project it reads for its AI configuration.     *)
ReadAI ==
    /\ pc = "ai" /\ file \in Readable
    /\ ai' = file
    /\ pc' = "root"
    /\ UNCHANGED <<queue, listing, root, siblings>> /\ Unchanged

(* RunWorkflow, GetWorkflow: the definition to run; one that is not in the  *)
(* file any more, or may not be run directly, ends the process.             *)
Offers(id) == id \in WorkflowIDs(file) /\ ~Workflow(file, id).disabled

RejectRoot ==
    /\ pc = "root" /\ file \in Readable
    /\ ~Offers(Head(queue))
    /\ Exit("failed")

ReadRoot ==
    /\ pc = "root" /\ file \in Readable
    /\ Offers(Head(queue))
    /\ root' = file
    /\ pc' = "siblings"
    /\ UNCHANGED <<queue, listing, ai, siblings>> /\ Unchanged

(* RunWorkflow, GetProject: the project's values and every sibling.         *)
ReadSiblings ==
    /\ pc = "siblings" /\ file \in Readable
    /\ siblings' = file
    /\ pc' = "start"
    /\ UNCHANGED <<queue, listing, ai, root>> /\ Unchanged

RunEnds(ok) ==
    /\ ran' = Append(ran, [id |-> Head(queue), version |-> root, ok |-> ok])
    /\ stack' = <<>>
    /\ pc' = "report"
    /\ UNCHANGED <<disk, request, reads, queue, explained, exit>>

(* ValidateWorkflow, which sees the root alone: a workflow called by it is  *)
(* never validated.                                                         *)
Invalid(workflow) ==
    \/ workflow.timeout < 0
    \/ \E i \in DOMAIN workflow.blocks : workflow.blocks[i].condition = "partial"

StartRefused ==
    /\ pc = "start"
    /\ LET workflow == Workflow(root, Head(queue)) IN
        workflow.blocks = <<>> \/ Invalid(workflow)
    /\ RunEnds(FALSE)

StartRun ==
    /\ pc = "start"
    /\ LET workflow == Workflow(root, Head(queue)) IN
        workflow.blocks # <<>> /\ ~Invalid(workflow)
    /\ stack' = <<[id |-> Head(queue), version |-> root, step |-> 1]>>
    /\ pc' = "running"
    /\ UNCHANGED <<disk, request, reads, queue, ran, explained, exit>>

----------------------------------------------------------------------------
(* The run.  Conditions that skip a step, ignored failures and jumps are    *)
(* those of Runner.                                                         *)
Current == Last(stack)
Block == Blocks(Current)[Current.step]
Pending == pc = "running" /\ Current.step <= Len(Blocks(Current))

Advanced(frames) ==
    [frames EXCEPT ![Len(frames)].step = @ + 1]

Moves == UNCHANGED <<disk, request, pc, reads, queue, ran, explained, exit>>

StepSucceeds ==
    /\ Pending /\ Block.type # "workflow" /\ Block.condition # "partial"
    /\ stack' = Advanced(stack)
    /\ Moves

(* Mutant: the repository is asked, as GetWorkflow does. *)
CalleesReread == IF file \in Readable THEN file ELSE siblings

(* findWorkflowDefinition looks in the map RunWithWorkflows was given.      *)
Callees == siblings

Found(id) == id \in WorkflowIDs(Callees)

(* Mutant: a target nobody looked up is called. *)
CallWorkflowUnfound ==
    /\ Pending /\ Block.type = "workflow" /\ Block.condition # "partial"
    /\ stack' = Append(stack, [id |-> Block.target, version |-> Callees, step |-> 1])
    /\ Moves

CallWorkflow ==
    /\ Pending /\ Block.type = "workflow" /\ Block.condition # "partial"
    /\ Found(Block.target)
    /\ stack' = Append(stack, [id |-> Block.target, version |-> Callees, step |-> 1])
    /\ Moves

(* A called workflow returns, also one without steps.                       *)
ReturnFromCall ==
    /\ pc = "running" /\ Len(stack) > 1
    /\ Current.step > Len(Blocks(Current))
    /\ stack' = Advanced(Front(stack))
    /\ Moves

(* A step fails, by itself, for a condition without an operator or for a    *)
(* target not found, and with it every workflow of the nest.                *)
StepFails ==
    /\ Pending
    /\ Block.type = "workflow" /\ Block.condition # "partial" => ~Found(Block.target)
    /\ RunEnds(FALSE)

RootCompletes ==
    /\ pc = "running" /\ Len(stack) = 1
    /\ Current.step > Len(Blocks(Current))
    /\ RunEnds(TRUE)

----------------------------------------------------------------------------
(* executeWorkflow returns: a failed run is explained by the AI when the    *)
(* project read first enables it.                                           *)
Explained ==
    IF ~Last(ran).ok /\ Parsed[ai].ai # None /\ Parsed[ai].ai.enabled
    THEN explained \cup {Len(ran)} ELSE explained

(* Mutant: the next workflow is run all the same. *)
ReportFailureGoingOn ==
    /\ pc = "report" /\ ~Last(ran).ok
    /\ explained' = Explained
    /\ queue' = Tail(queue)
    /\ pc' = "next"
    /\ UNCHANGED <<disk, request, reads, stack, ran, exit>>

(* The first workflow that fails ends the process.                          *)
ReportFailure ==
    /\ pc = "report" /\ ~Last(ran).ok
    /\ explained' = Explained
    /\ pc' = "done" /\ exit' = "failed"
    /\ UNCHANGED <<disk, request, reads, queue, stack, ran>>

ReportSuccess ==
    /\ pc = "report" /\ Last(ran).ok
    /\ explained' = Explained
    /\ queue' = Tail(queue)
    /\ IF request = All THEN pc' = "next" /\ exit' = exit
                        ELSE pc' = "done" /\ exit' = "ok"
    /\ UNCHANGED <<disk, request, reads, stack, ran>>

Terminated == pc = "done" /\ UNCHANGED vars

Load ==
    \/ ReadProjectID \/ ReadListing \/ NextWorkflow \/ ReadAI \/ ReadRoot
    \/ ReadSiblings \/ ReadFails \/ RejectRoot

Run ==
    \/ StartRefused \/ StartRun \/ StepSucceeds \/ CallWorkflow \/ ReturnFromCall
    \/ StepFails \/ RootCompletes

Next == Edit \/ Load \/ Run \/ ReportFailure \/ ReportSuccess \/ Terminated

Spec == Init /\ [][Next]_vars

----------------------------------------------------------------------------
(* Whatever is edited meanwhile, a request for all workflows runs the ones  *)
(* the first listing has and may be run, in its order and each once, none   *)
(* after one that failed; only a workflow that its own version allows and   *)
(* finds valid gets as far as a success; and the process exits with success *)
(* only when it ran everything it had listed.                               *)
RunsFollowListing ==
    LET ids == [i \in DOMAIN ran |-> ran[i].id] IN
    /\ \A i \in DOMAIN ran :
        /\ ~ran[i].ok => i = Len(ran)
        /\ ~Workflow(ran[i].version, ran[i].id).disabled
        /\ ran[i].ok => ~Invalid(Workflow(ran[i].version, ran[i].id))
    /\ request # All => ids \in {<<>>, <<request>>}
    /\ listing # None => IsPrefix(ids, Runnable(listing))
    /\ exit = "ok" =>
        /\ \A i \in DOMAIN ran : ran[i].ok
        /\ ids = IF request = All THEN Runnable(listing) ELSE <<request>>

(* Siblings are read once for a run, so an edit cannot lead a call round    *)
(* in a circle: no workflow is called again from within its own call when   *)
(* none of the versions does so by itself.  The root alone, read earlier,   *)
(* may be met again, as the sibling of the same id.                         *)
CallsDoNotCircle ==
    \A i, j \in 2..Len(stack) : i # j => stack[i].id # stack[j].id

===============================================================================
