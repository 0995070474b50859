------------------------------ MODULE MCRunner ------------------------------
(***************************************************************************)
(* Runner on every workflow of at most two steps and two catch blocks from *)
(* a catalogue with one entry per way a step can go, so that each step     *)
(* meets each predecessor, with jumps back, forward, to a repeated id and  *)
(* to no step at all.                                                      *)
(***************************************************************************)
EXTENDS Runner

CONSTANTS x, c      \* a variable, and a name that is also a constant
CONSTANTS s1, s2    \* block ids; most definitions have no step s2

MCNames == {x, c}
MCReadOnly == {c}
MCIds == {s1, s2}
MCValues == {0, 1}
MCEmpty == 0

Always == [variable |-> x, operator |-> "nil", expected |-> 0]
IsSet == [variable |-> x, operator |-> "=", expected |-> 1]
NotSet == [variable |-> x, operator |-> "!=", expected |-> 1]
Broken == [variable |-> x, operator |-> "unsupported", expected |-> 0]

Plain(block) ==
    [id |-> s1, enabled |-> TRUE, continueOnError |-> FALSE,
     condition |-> Always, block |-> block, test |-> IsSet,
     target |-> s1, wait |-> FALSE,
     assign |-> {}, exports |-> {}, value |-> 1]

Call == [Plain("call") EXCEPT !.assign = {x}, !.exports = {c}]
SetX == [Plain("set") EXCEPT !.exports = {x}]
SetC == [Plain("set") EXCEPT !.exports = {x, c}]
Goto == [Plain("goto") EXCEPT !.test = NotSet]

Catalogue ==
    { Call,
      [Call EXCEPT !.continueOnError = TRUE],
      SetC,
      [SetX EXCEPT !.condition = NotSet, !.id = s2],
      [SetX EXCEPT !.enabled = FALSE],
      [Plain("assert") EXCEPT !.condition = Broken],
      [Plain("assert") EXCEPT !.continueOnError = TRUE],
      [Plain("unknown") EXCEPT !.continueOnError = TRUE],
      [Plain("composite") EXCEPT !.exports = {x}],
      [Goto EXCEPT !.wait = TRUE],
      [Goto EXCEPT !.continueOnError = TRUE],
      [Goto EXCEPT !.target = s2, !.continueOnError = TRUE] }

Handlers ==
    { [Call EXCEPT !.condition = IsSet],
      [Plain("unknown") EXCEPT !.continueOnError = TRUE],
      [Plain("composite") EXCEPT !.exports = {x}] }

UpTo2(S) == {<<>>} \cup {<<a>> : a \in S} \cup {<<a, b>> : a, b \in S}

MCWorkflows == [steps : UpTo2(Catalogue), onError : UpTo2(Handlers)]

=============================================================================
