---------------------------- MODULE MCProjectLoad ----------------------------
(***************************************************************************)
(* Six versions of a project of three workflows: two that call in opposite *)
(* directions, one that lacks a workflow, one with blocks nobody checked,  *)
(* one half written and one with an id twice.                              *)
(***************************************************************************)
EXTENDS ProjectLoad

Literal(text) == [ref |-> None, text |-> text]
MCEnv == [MODEL |-> "llama", EMPTY |-> ""]

MCBlock(type, target, condition) ==
    [type |-> type, target |-> target, condition |-> condition]
MCLog == MCBlock("log", "", None)
MCCall(id) == MCBlock("workflow", id, "empty")

MCWorkflow(id, disabled, timeout, blocks) ==
    [id |-> id, disabled |-> disabled, timeout |-> timeout, blocks |-> blocks]

MCFile(aiConfig, workflows) ==
    [whole |-> TRUE, id |-> "", name |-> "shop", ai |-> aiConfig, workflows |-> workflows]

MCAIConfig(enabled, provider, model, timeout) ==
    [enabled |-> enabled, timeout |-> timeout,
     fields |-> [provider |-> Literal(provider), base_url |-> Literal("http://ai"),
                 model |-> model]]
MCAI(model) == MCAIConfig("absent", "ollama", model, 0)

MCFiles ==
    ( "down" :> MCFile(MCAI([ref |-> "MODEL", text |-> ""]),
        << MCWorkflow("a", FALSE, 0, <<MCLog, MCCall("b")>>),
           MCWorkflow("b", FALSE, 0, <<MCCall("c"), MCLog>>),
           MCWorkflow("c", TRUE, -1, <<MCLog>>) >>)
   @@ "up" :> MCFile(None,
        << MCWorkflow("c", FALSE, 0, <<MCCall("b")>>),
           MCWorkflow("b", TRUE, 0, <<MCCall("a")>>),
           MCWorkflow("a", FALSE, 0, <<MCBlock("log", "", "whole")>>) >>)
   @@ "less" :> MCFile(MCAI([ref |-> "EMPTY", text |-> "mistral"]),
        << MCWorkflow("b", FALSE, 0, <<>>),
           MCWorkflow("a", FALSE, 0, <<MCCall("b"), MCCall("c")>>) >>)
   @@ "unchecked" :> MCFile(None,
        << MCWorkflow("a", FALSE, 0, <<MCLog, MCCall("b")>>),
           MCWorkflow("b", FALSE, 0, <<MCBlock("log", "", "partial")>>),
           MCWorkflow("c", FALSE, -1, <<MCLog>>) >>)
   @@ "half" :> [MCFile(None, <<>>) EXCEPT !.whole = FALSE]
   @@ "twice" :> MCFile(None,
        << MCWorkflow("a", FALSE, 0, <<MCLog>>), MCWorkflow("a", FALSE, 0, <<MCLog>>) >>) )

(* What parse makes of them: two are refused, and so would be a missing     *)
(* type, a condition that is a list, an AI model that is set to an empty    *)
(* variable without a default, and, though the AI is disabled, a provider   *)
(* that is not known or a negative timeout.                                 *)
ASSUME Readable = {"down", "up", "less", "unchecked"}
ASSUME Parsed["less"].ai.complete /\ Parsed["up"].id = "shop"
ASSUME FileRefused(MCFile(MCAI([ref |-> "EMPTY", text |-> ""]), <<>>))
ASSUME FileRefused(MCFile(MCAIConfig("false", "openai", Literal("llama"), 0), <<>>))
ASSUME FileRefused(MCFile(MCAIConfig("false", "", Literal(""), -1), <<>>))
ASSUME ~FileRefused(MCFile(MCAIConfig("false", "", Literal(""), 0), <<>>))
ASSUME FileRefused(MCFile(None, <<MCWorkflow("a", FALSE, 0, <<MCBlock("", "", None)>>)>>))
ASSUME FileRefused(MCFile(None, <<MCWorkflow("a", FALSE, 0, <<MCBlock("log", "", "list")>>)>>))

===============================================================================
