-------------------------- MODULE EventStreamProofs --------------------------
(***************************************************************************)
(* Proofs about EventStream, for all projects, of any size and depth, and  *)
(* every number of attempts.                                               *)
(***************************************************************************)
EXTENDS EventStream, FiniteSetTheorems, SequenceTheorems, WellFoundedInduction, TLAPS

----------------------------------------------------------------------------
(* The inductive invariant. *)

(* The step above n is where n is what it executes. *)
Asked(n) ==
    LET p == Parent(n) IN
    \/ /\ phase[p] = "executing"
       /\ \/ /\ Kind(p) = "workflow" /\ at[p] < Len(Children(p))
             /\ n = Children(p)[at[p] + 1]
          \/ Kind(p) = "retry" /\ at[p] < MaxAttempts
          \/ Kind(p) = "parallel"
    \/ /\ phase[p] = "handling" /\ at[p] < Len(Handlers(p))
       /\ n = Handlers(p)[at[p] + 1]

(* Only the run's workflow is active without a step above it. *)
Placed ==
    /\ \A n \in Nodes : Active(n) =>
          IF Parent(n) = 0 THEN n = Root ELSE Asked(n)
    /\ Active(Root) <=> service = "running"

(* A parallel block counts the branches that are done. *)
Done(cs) == {c \in cs : phase[c] = "done"}

Counted ==
    \A n \in Nodes :
        Kind(n) = "parallel" /\ phase[n] = "executing" =>
            at[n] = Cardinality(Done(Range(Children(n))))

(* The workflow of the run has done its first steps, and none of them has   *)
(* failed, or it has an outcome.                                            *)
RootSteps ==
    phase[Root] = "executing" =>
        \A i \in 1..Len(Children(Root)) :
            LET c == Children(Root)[i] IN
            /\ phase[c] = "done" <=> i <= at[Root]
            /\ i <= at[Root] => outcome[c] # "failed"

RootEnds ==
    service = "closed" \/ (service = "running" /\ phase[Root] = "ending") =>
        /\ outcome[Root] \in {"ok", "failed"}
        /\ outcome[Root] = "ok" => \A c \in Range(Children(Root)) :
                                       phase[c] = "done" /\ outcome[c] # "failed"

(* The consumer has seen the start and not the finish of what is active.    *)
Opens ==
    \A n \in Nodes :
        opened[n] = IF Active(n) /\ (Announced(n) \/ Parent(n) = 0) THEN 1 ELSE 0

Reports ==
    service \in {"running", "closed"} /\ Failing # {} =>
        \/ failedStep \in Failing
        \/ \E h \in Range(Handlers(Root)) : failedStep \in Nodes /\ h \in Above[failedStep]

(* The runs before this one went well. *)
Verdicts ==
    /\ Len(verdicts) = IF service = "closed" THEN run ELSE run - 1
    /\ \A i \in 1..run - 1 : verdicts[i] = "ok"
    /\ service = "closed" => verdicts[run] = outcome[Root]
    /\ failedRun <=> service = "closed" /\ verdicts[run] = "failed"

Going == Placed /\ Counted /\ RootSteps /\ RootEnds /\ Opens /\ Reports /\ Verdicts

(* What stays when the process has exited. *)
Told ==
    /\ \A i \in 1..Len(verdicts) : verdicts[i] = "ok" \/ i = run
    /\ exit = "ok" => Len(verdicts) = Len(project.runs) /\ verdicts[run] = "ok"

OpenWorkflows == {n \in Nodes : Announced(n) /\ Kind(n) = "workflow" /\ opened[n] = 1}

Depths ==
    ~json => depth = IF service \in {"idle", "opening"} THEN 0
                     ELSE Cardinality(OpenWorkflows)

IInv ==
    /\ TypeOK
    /\ StepsNest
    /\ Depths
    /\ Told
    /\ exit = "no" => Going

----------------------------------------------------------------------------
(* Projects. *)

LEMMA TreeFacts ==
    ASSUME project \in Projects
    PROVE  /\ Nodes \subseteq Nat \ {0} /\ IsFiniteSet(Nodes)
           /\ \E k \in Nat : Nodes = 1..k
           /\ \A n \in Nodes :
                 /\ Kind(n) \in Kinds
                 /\ Parent(n) \in {0} \cup Nodes /\ Parent(n) < n
                 /\ Children(n) \in Seq(Nodes) /\ Handlers(n) \in Seq(Nodes)
                 /\ Kind(n) = "retry" => Len(Children(n)) = 1
                 /\ Kind(n) # "workflow" => Handlers(n) = <<>>
           /\ project.runs \in Seq(Nodes) /\ project.runs # <<>>
           /\ \A i \in 1..Len(project.runs) :
                 Parent(project.runs[i]) = 0 /\ Kind(project.runs[i]) = "workflow"
<1> USE DEF Nodes, Kind, Parent, Children, Handlers
<1>1. WellFormed(project)
    BY ProjectsAssumption
<1>2. /\ project.kind \in Seq(Kinds)
      /\ \A n \in Nodes : project.parent[n] \in 0..n - 1
    BY <1>1 DEF WellFormed
<1>3. PICK k \in Nat : Nodes = 1..k /\ \A n \in 1..k : project.kind[n] \in Kinds
    BY <1>2
<1>4. IsFiniteSet(Nodes)
    BY <1>3, FS_Interval
<1>5. \A n \in Nodes : Parent(n) \in {0} \cup Nodes /\ Parent(n) < n
    BY <1>2, <1>3
<1>6. \A n \in Nodes : /\ Children(n) \in Seq(Nodes) /\ Handlers(n) \in Seq(Nodes)
                       /\ Kind(n) = "retry" => Len(Children(n)) = 1
                       /\ Kind(n) # "workflow" => Handlers(n) = <<>>
    BY <1>1 DEF WellFormed
<1>7. /\ project.runs \in Seq(Nodes) /\ project.runs # <<>>
      /\ \A i \in 1..Len(project.runs) :
            Parent(project.runs[i]) = 0 /\ Kind(project.runs[i]) = "workflow"
    BY <1>1 DEF WellFormed
<1>8. \A n \in Nodes : Kind(n) \in Kinds
    BY <1>3
<1>9. Nodes \subseteq Nat \ {0}
    BY <1>3
<1> HIDE DEF Nodes, Kind, Parent, Children, Handlers
<1> QED
    BY <1>3, <1>4, <1>5, <1>6, <1>7, <1>8, <1>9

(* What is above a node lists it once.                                      *)
LEMMA ListFacts ==
    ASSUME project \in Projects, NEW n \in Nodes
    PROVE  /\ Len(Children(n)) \in Nat /\ Len(Handlers(n)) \in Nat
           /\ \A i \in 1..Len(Children(n)) :
                 Children(n)[i] \in Nodes /\ Parent(Children(n)[i]) = n
           /\ \A i \in 1..Len(Handlers(n)) :
                 Handlers(n)[i] \in Nodes /\ Parent(Handlers(n)[i]) = n
           /\ \A i, j \in 1..Len(Children(n)) : Children(n)[i] = Children(n)[j] => i = j
           /\ \A i, j \in 1..Len(Handlers(n)) : Handlers(n)[i] = Handlers(n)[j] => i = j
           /\ \A c : c \in Range(Children(n)) <=>
                        \E i \in 1..Len(Children(n)) : c = Children(n)[i]
           /\ \A c : c \in Range(Handlers(n)) <=>
                        \E i \in 1..Len(Handlers(n)) : c = Handlers(n)[i]
           /\ \A c : c \in Range(Handlers(n)) => c \notin Range(Children(n))
           /\ \A c \in Nodes : Parent(c) = n <=>
                 c \in Range(Children(n)) \/ c \in Range(Handlers(n))
           /\ Range(Children(n)) \subseteq Nodes /\ Range(Handlers(n)) \subseteq Nodes
           /\ Kind(n) # "workflow" => Range(Handlers(n)) = {}
<1>1. Children(n) \in Seq(Nodes) /\ Handlers(n) \in Seq(Nodes)
    BY TreeFacts
<1>2. /\ {m \in Nodes : Parent(m) = n} = Range(Children(n)) \cup Range(Handlers(n))
      /\ Range(Children(n)) \cap Range(Handlers(n)) = {}
      /\ IsInjective(Children(n)) /\ IsInjective(Handlers(n))
      /\ Kind(n) # "workflow" => Handlers(n) = <<>>
    BY ProjectsAssumption DEF WellFormed, Nodes, Kind, Parent, Children, Handlers
<1> PICK cs \in Seq(Nodes), hs \in Seq(Nodes) : cs = Children(n) /\ hs = Handlers(n)
    BY <1>1
<1>3. /\ Len(cs) \in Nat /\ DOMAIN cs = 1..Len(cs)
      /\ Len(hs) \in Nat /\ DOMAIN hs = 1..Len(hs)
    BY LenProperties
<1>4. /\ \A c : c \in Range(cs) <=> \E i \in 1..Len(cs) : c = cs[i]
      /\ \A c : c \in Range(hs) <=> \E i \in 1..Len(hs) : c = hs[i]
    BY <1>3 DEF Range
<1>5. Range(cs) \subseteq Nodes /\ Range(hs) \subseteq Nodes
    BY <1>2
<1>6. /\ \A i \in 1..Len(cs) : cs[i] \in Nodes /\ Parent(cs[i]) = n
      /\ \A i \in 1..Len(hs) : hs[i] \in Nodes /\ Parent(hs[i]) = n
    BY <1>2, <1>4
<1>7. /\ \A i, j \in 1..Len(cs) : cs[i] = cs[j] => i = j
      /\ \A i, j \in 1..Len(hs) : hs[i] = hs[j] => i = j
    BY <1>2, <1>3 DEF IsInjective
<1>8. Kind(n) # "workflow" => Range(Handlers(n)) = {}
    BY <1>2, <1>4
<1> QED
    BY <1>2, <1>3, <1>4, <1>5, <1>6, <1>7, <1>8

LEMMA RootFacts ==
    ASSUME TypeOK
    PROVE  /\ Root \in Nodes /\ Parent(Root) = 0 /\ Kind(Root) = "workflow"
           /\ run \in Nat \ {0} /\ Len(project.runs) \in Nat
<1>1. project \in Projects /\ run \in 1..Len(project.runs)
    BY DEF TypeOK
<1>2. project.runs \in Seq(Nodes)
    BY <1>1, TreeFacts
<1> QED
    BY <1>1, <1>2, TreeFacts, LenProperties, ElementOfSeq DEF Root

(* Induction over a project, by a counterexample with none above it.        *)
LEMMA Uppermost ==
    ASSUME project \in Projects, NEW T \in SUBSET Nodes, T # {}
    PROVE  \E n \in T : Parent(n) \notin T
<1>1. T \subseteq Nat
    BY TreeFacts
<1>2. PICK n \in T : \A m \in T : <<m, n>> \notin OpToRel(<, Nat)
    BY <1>1, NatLessThanWellFounded, WFMin
<1>3. n \in Nat /\ \A m \in T : m \in Nat /\ ~(m < n)
    BY <1>1, <1>2 DEF OpToRel
<1>4. Parent(n) < n
    BY TreeFacts
<1> QED
    BY <1>3, <1>4

(* Induction over the natural numbers.                                      *)
LEMMA Induction ==
    ASSUME NEW S \in SUBSET Nat, 0 \in S, \A n \in S : n + 1 \in S
    PROVE  S = Nat
<1> SUFFICES ASSUME Nat \ S # {} PROVE FALSE
    OBVIOUS
<1>1. PICK n \in Nat \ S : \A m \in Nat \ S : <<m, n>> \notin OpToRel(<, Nat)
    BY NatLessThanWellFounded, WFMin
<1>2. n # 0 /\ n - 1 \in Nat
    OBVIOUS
<1>3. \A m \in Nat \ S : ~(m < n)
    BY <1>1 DEF OpToRel
<1>4. n - 1 \in S
    BY <1>2, <1>3
<1>5. (n - 1) + 1 = n
    OBVIOUS
<1> QED
    BY <1>4, <1>5

(* The recursion that defines Above, on the first k nodes.                  *)
Up(n, f) == IF Parent(n) = 0 THEN {} ELSE {Parent(n)} \cup f[Parent(n)]

LEMMA AboveExists ==
    ASSUME project \in Projects, NEW k \in Nat
    PROVE  1..k = Nodes => \E f : f = [n \in Nodes |-> Up(n, f)]
<1> DEFINE S == {j \in Nat : j <= k => \E f : f = [n \in 1..j |-> Up(n, f)]}
<1> SUFFICES ASSUME 1..k = Nodes PROVE \E f : f = [n \in 1..k |-> Up(n, f)]
    OBVIOUS
<1>1. 0 \in S
  <2>1. [n \in 1..0 |-> {}] = [n \in 1..0 |-> Up(n, [m \in 1..0 |-> {}])]
      OBVIOUS
  <2> QED
      BY <2>1
<1>2. ASSUME NEW j \in S PROVE j + 1 \in S
  <2> SUFFICES ASSUME j + 1 <= k PROVE \E f : f = [n \in 1..j + 1 |-> Up(n, f)]
      OBVIOUS
  <2>1. PICK f : f = [n \in 1..j |-> Up(n, f)]
      OBVIOUS
  <2> DEFINE g == [n \in 1..j + 1 |-> IF n = j + 1 THEN Up(n, f) ELSE f[n]]
  <2>2. ASSUME NEW n \in 1..j + 1 PROVE g[n] = Up(n, g)
    <3>1. n \in Nodes
        OBVIOUS
    <3>2. Parent(n) \in {0} \cup Nodes /\ Parent(n) < n
        BY <3>1, TreeFacts
    <3>3. Parent(n) # 0 => Parent(n) \in 1..j
        BY <3>2
    <3>4. Parent(n) # 0 => g[Parent(n)] = f[Parent(n)]
        BY <3>3
    <3>5. Up(n, g) = Up(n, f)
        BY <3>4 DEF Up
    <3>6. g[n] = Up(n, f)
        BY <2>1
    <3> QED
        BY <3>5, <3>6
  <2>3. g = [n \in 1..j + 1 |-> Up(n, g)]
    <3> HIDE DEF g
    <3>1. g = [n \in 1..j + 1 |-> g[n]]
        BY DEF g
    <3> QED
        BY <2>2, <3>1
  <2> QED
      BY <2>3
<1> HIDE DEF S
<1>3. S = Nat
    BY <1>1, <1>2, Induction DEF S
<1> QED
    BY <1>3 DEF S

LEMMA AboveIs ==
    ASSUME project \in Projects, NEW n \in Nodes
    PROVE  Above[n] = IF Parent(n) = 0 THEN {} ELSE {Parent(n)} \cup Above[Parent(n)]
<1>1. PICK k \in Nat : Nodes = 1..k
    BY TreeFacts
<1>2. \E f : f = [m \in Nodes |-> Up(m, f)]
    BY <1>1, AboveExists
<1>3. Above = CHOOSE f : f = [m \in Nodes |-> Up(m, f)]
    BY DEF Above, Up
<1>4. Above = [m \in Nodes |-> Up(m, Above)]
    BY <1>2, <1>3
<1> QED
    BY <1>4 DEF Up

LEMMA AboveSame == ASSUME project' = project PROVE Above' = Above
    BY DEF Above, Nodes, Parent

----------------------------------------------------------------------------
(* Where what is active is. *)

LEMMA AskedFacts ==
    ASSUME TypeOK, NEW n \in Nodes, Parent(n) # 0, Asked(n)
    PROVE  /\ Parent(n) \in Nodes
           /\ phase[Parent(n)] \in {"executing", "handling"}
           /\ Kind(Parent(n)) \in {"workflow", "retry", "parallel"}
           /\ at[Parent(n)] \in Nat
           /\ phase[Parent(n)] = "handling" => Kind(Parent(n)) = "workflow"
           /\ phase[Parent(n)] = "handling" <=> n \in Range(Handlers(Parent(n)))
           /\ phase[Parent(n)] = "executing" <=> n \in Range(Children(Parent(n)))
           /\ \A m \in Nodes : Asked(m) /\ Parent(m) = Parent(n) /\ m # n =>
                 Kind(Parent(n)) = "parallel"
<1>1. project \in Projects
    BY DEF TypeOK
<1> PICK p : p = Parent(n)
    OBVIOUS
<1>2. p \in Nodes /\ Kind(p) \in Kinds
    BY <1>1, TreeFacts
<1>3. at[p] \in Nat
    BY <1>2 DEF TypeOK
<1>4. Len(Children(p)) \in Nat /\ Len(Handlers(p)) \in Nat
    BY <1>1, <1>2, ListFacts
<1>5. Kind(p) # "workflow" => Handlers(p) = <<>>
    BY <1>1, <1>2, TreeFacts
<1>6. phase[p] \in {"executing", "handling"}
    BY DEF Asked
<1>7. phase[p] = "handling" => Kind(p) = "workflow" /\ n \in Range(Handlers(p))
  <2> SUFFICES ASSUME phase[p] = "handling" PROVE Kind(p) = "workflow" /\ n \in Range(Handlers(p))
      OBVIOUS
  <2>1. at[p] < Len(Handlers(p)) /\ n = Handlers(p)[at[p] + 1]
      BY DEF Asked
  <2>2. at[p] + 1 \in 1..Len(Handlers(p))
      BY <1>3, <1>4, <2>1
  <2>3. n \in Range(Handlers(p))
      BY <1>1, <1>2, <2>1, <2>2, ListFacts
  <2> QED
      BY <1>1, <1>2, <2>3, ListFacts
<1>8. phase[p] = "executing" => Kind(p) # "block" /\ n \in Range(Children(p))
  <2> SUFFICES ASSUME phase[p] = "executing" PROVE Kind(p) # "block" /\ n \in Range(Children(p))
      OBVIOUS
  <2>1. \/ /\ Kind(p) = "workflow" /\ at[p] < Len(Children(p))
           /\ n = Children(p)[at[p] + 1]
        \/ Kind(p) = "retry"
        \/ Kind(p) = "parallel"
      BY DEF Asked
  <2>2. CASE /\ Kind(p) = "workflow" /\ at[p] < Len(Children(p))
             /\ n = Children(p)[at[p] + 1]
    <3>1. at[p] + 1 \in 1..Len(Children(p))
        BY <1>3, <1>4, <2>2
    <3> QED
        BY <1>1, <1>2, <2>2, <3>1, ListFacts
  <2>3. CASE Kind(p) \in {"retry", "parallel"}
      BY <1>1, <1>2, <2>3, ListFacts
  <2> QED
      BY <2>1, <2>2, <2>3
<1>9. \A c : c \in Range(Handlers(p)) => c \notin Range(Children(p))
    BY <1>1, <1>2, ListFacts
<1>10. Kind(p) \in {"workflow", "retry", "parallel"}
    BY <1>2, <1>6, <1>7, <1>8 DEF Kinds
<1>11. ASSUME NEW m \in Nodes, Asked(m), Parent(m) = p, m # n
       PROVE  Kind(p) = "parallel"
  <2>1. CASE phase[p] = "handling"
    <3>1. n = Handlers(p)[at[p] + 1] /\ m = Handlers(p)[at[p] + 1]
        BY <1>11, <2>1 DEF Asked
    <3> QED
        BY <1>11, <3>1
  <2>2. CASE phase[p] = "executing" /\ Kind(p) = "workflow"
    <3>1. n = Children(p)[at[p] + 1] /\ m = Children(p)[at[p] + 1]
        BY <1>11, <2>2 DEF Asked
    <3> QED
        BY <1>11, <3>1
  <2>3. CASE Kind(p) = "retry"
    <3>1. n \in Range(Children(p)) /\ m \in Range(Children(p)) /\ Len(Children(p)) = 1
        BY <1>1, <1>2, <1>11, <2>3, ListFacts, TreeFacts
    <3>2. \A c \in Range(Children(p)) : c = Children(p)[1]
        BY <1>1, <1>2, <3>1, ListFacts
    <3> QED
        BY <1>11, <3>1, <3>2
  <2> QED
      BY <1>6, <1>10, <2>1, <2>2, <2>3
<1> QED
    BY <1>2, <1>3, <1>6, <1>7, <1>8, <1>9, <1>10, <1>11

LEMMA ActiveFacts ==
    ASSUME TypeOK, Placed, NEW n \in Nodes, Active(n), Parent(n) # 0
    PROVE  /\ Asked(n) /\ Parent(n) \in Nodes /\ Active(Parent(n))
           /\ \A m \in Nodes : Active(m) /\ Parent(m) = Parent(n) /\ m # n =>
                 Kind(Parent(n)) = "parallel"
<1>1. Asked(n)
    BY DEF Placed
<1>2. \A m \in Nodes : Active(m) /\ Parent(m) = Parent(n) => Asked(m)
    BY DEF Placed
<1> QED
    BY <1>1, <1>2, AskedFacts DEF Active

(* While anything runs below it, the workflow of the run executes or        *)
(* handles.                                                                 *)
LEMMA RootRuns ==
    ASSUME TypeOK, Placed, NEW n \in Nodes, Active(n), n # Root
    PROVE  phase[Root] \in {"executing", "handling"}
<1> DEFINE T == {m \in Nodes : Active(m) /\ m # Root}
<1> SUFFICES ASSUME phase[Root] \notin {"executing", "handling"} PROVE FALSE
    OBVIOUS
<1>1. n \in T /\ T \in SUBSET Nodes
    OBVIOUS
<1>2. PICK m \in T : Parent(m) \notin T
    BY <1>1, Uppermost DEF TypeOK
<1>3. m \in Nodes /\ Active(m) /\ m # Root
    OBVIOUS
<1>4. Parent(m) # 0
    BY <1>3 DEF Placed
<1>5. /\ Parent(m) \in Nodes /\ Active(Parent(m))
      /\ phase[Parent(m)] \in {"executing", "handling"}
    BY <1>3, <1>4, ActiveFacts, AskedFacts
<1> QED
    BY <1>2, <1>5

LEMMA NoneActive ==
    ASSUME TypeOK, Placed, service # "running"
    PROVE  \A n \in Nodes : ~Active(n)
    BY RootRuns DEF Placed, Active

(* All that is above an active node is active.                              *)
LEMMA AboveActive ==
    ASSUME TypeOK, Placed, NEW n \in Nodes, Active(n)
    PROVE  \A m \in Above[n] : m \in Nodes /\ Active(m)
<1> DEFINE T == {k \in Nodes : Active(k) /\ ~(\A m \in Above[k] : m \in Nodes /\ Active(m))}
<1> SUFFICES ASSUME T # {} PROVE FALSE
    OBVIOUS
<1>1. PICK k \in T : Parent(k) \notin T
    BY Uppermost DEF TypeOK
<1>2. k \in Nodes /\ Active(k) /\ ~(\A m \in Above[k] : m \in Nodes /\ Active(m))
    OBVIOUS
<1>3. Above[k] = IF Parent(k) = 0 THEN {} ELSE {Parent(k)} \cup Above[Parent(k)]
    BY AboveIs DEF TypeOK
<1>4. Parent(k) # 0
    BY <1>2, <1>3
<1>5. Parent(k) \in Nodes /\ Active(Parent(k))
    BY <1>2, <1>4, ActiveFacts
<1>6. \A m \in Above[Parent(k)] : m \in Nodes /\ Active(m)
    BY <1>1, <1>5
<1> QED
    BY <1>2, <1>3, <1>4, <1>5, <1>6

(* While the workflow of the run handles a failure, what is active is in a  *)
(* catch block of its own.                                                  *)
LEMMA BelowHandler ==
    ASSUME TypeOK, Placed, NEW n \in Nodes, Active(n), n # Root, phase[Root] = "handling"
    PROVE  \E h \in Range(Handlers(Root)) : h = n \/ h \in Above[n]
<1> DEFINE T == {k \in Nodes : /\ Active(k) /\ k # Root
                               /\ ~(\E h \in Range(Handlers(Root)) : h = k \/ h \in Above[k])}
<1> SUFFICES ASSUME T # {} PROVE FALSE
    OBVIOUS
<1>1. PICK k \in T : Parent(k) \notin T
    BY Uppermost DEF TypeOK
<1>2. /\ k \in Nodes /\ Active(k) /\ k # Root
      /\ ~(\E h \in Range(Handlers(Root)) : h = k \/ h \in Above[k])
    OBVIOUS
<1>3. Parent(k) # 0
    BY <1>2 DEF Placed
<1>4. Above[k] = {Parent(k)} \cup Above[Parent(k)]
    BY <1>3, AboveIs DEF TypeOK
<1>5. Asked(k) /\ Parent(k) \in Nodes /\ Active(Parent(k))
    BY <1>2, <1>3, ActiveFacts
<1>6. Parent(k) # Root
  <2> SUFFICES ASSUME Parent(k) = Root PROVE FALSE
      OBVIOUS
  <2>1. k \in Range(Handlers(Root))
      BY <1>2, <1>3, <1>5, AskedFacts
  <2> QED
      BY <1>2, <2>1
<1>7. \E h \in Range(Handlers(Root)) : h = Parent(k) \/ h \in Above[Parent(k)]
    BY <1>1, <1>5, <1>6
<1> QED
    BY <1>2, <1>4, <1>7

(* While its steps go well, none of them has failed. *)
LEMMA NoneFailing ==
    ASSUME TypeOK, RootSteps, phase[Root] = "executing"
    PROVE  Failing = {}
<1>1. \A c \in Range(Children(Root)) : \E i \in 1..Len(Children(Root)) : c = Children(Root)[i]
    BY RootFacts, ListFacts DEF TypeOK
<1> QED
    BY <1>1 DEF RootSteps, Failing

----------------------------------------------------------------------------
(* Steps that send nothing. *)

LEMMA SameProject ==
    ASSUME project' = project
    PROVE  /\ Nodes' = Nodes /\ Above' = Above
           /\ \A n : /\ Announced(n)' = Announced(n)
                     /\ Kind(n)' = Kind(n) /\ Parent(n)' = Parent(n)
                     /\ Children(n)' = Children(n) /\ Handlers(n)' = Handlers(n)
           /\ run' = run => Root' = Root
    BY AboveSame DEF Nodes, Announced, Kind, Parent, Children, Handlers, Root

LEMMA QuietReport ==
    ASSUME IInv, exit = "no", service = "running",
           UNCHANGED <<project, json, run, service, report>>
    PROVE  StepsNest' /\ Depths' /\ Told' /\ Verdicts'
<1> USE SameProject DEF report, seen
<1>1. StepsNest'
  <2>1. StepsNest
      BY DEF IInv
  <2> QED
      BY <2>1 DEF StepsNest
<1>2. Depths'
  <2>1. OpenWorkflows' = OpenWorkflows
      BY DEF OpenWorkflows
  <2> QED
      BY <2>1 DEF IInv, Depths
<1>3. Told' /\ Verdicts'
    BY DEF IInv, Going, Told, Verdicts
<1> QED
    BY <1>1, <1>2, <1>3

(* A node with nothing active below it ends. *)
LEMMA EndStep ==
    ASSUME IInv, exit = "no", service = "running", NEW n \in Nodes, NEW r \in Outcomes,
           phase[n] \in {"executing", "handling"},
           \A m \in Nodes : Parent(m) = n => ~Active(m),
           End(n, r), UNCHANGED <<project, json, run, service, at, report>>,
           n = Root => /\ r \in {"ok", "failed"}
                       /\ r = "ok" => \A c \in Range(Children(Root)) :
                                         phase[c] = "done" /\ outcome[c] # "failed"
    PROVE  IInv'
<1>1. /\ TypeOK /\ Placed /\ Counted /\ RootSteps /\ RootEnds /\ Opens /\ Reports
      /\ project \in Projects
    BY DEF IInv, Going, TypeOK
<1>2. /\ phase' = [phase EXCEPT ![n] = "ending"] /\ outcome' = [outcome EXCEPT ![n] = r]
      /\ UNCHANGED <<project, json, run, service, at, depth, failedStep, failedRun,
                     exit, opened, verdicts>>
    BY DEF End, report, seen
<1>3. /\ phase \in [Nodes -> {"idle", "executing", "handling", "ending", "done"}]
      /\ outcome \in [Nodes -> Outcomes]
    BY <1>1 DEF TypeOK
<1>4. /\ \A m \in Nodes \ {n} : phase'[m] = phase[m] /\ outcome'[m] = outcome[m]
      /\ phase'[n] = "ending" /\ outcome'[n] = r
      /\ phase' \in [Nodes -> {"idle", "executing", "handling", "ending", "done"}]
      /\ outcome' \in [Nodes -> Outcomes]
    BY <1>2, <1>3
<1>5. /\ \A m \in Nodes : phase'[m] = "done" <=> phase[m] = "done"
      /\ \A m \in Nodes : Active(m)' <=> Active(m)
      /\ \A m \in Nodes : phase[m] = "done" => m # n
    BY <1>4 DEF Active
<1>6. /\ Root \in Nodes /\ Range(Children(Root)) \subseteq Nodes
      /\ \A i \in 1..Len(Children(Root)) : Children(Root)[i] \in Nodes
    BY <1>1, RootFacts, ListFacts
<1>7. /\ Nodes' = Nodes /\ Root' = Root
      /\ \A m : /\ Announced(m)' = Announced(m)
                /\ Kind(m)' = Kind(m) /\ Parent(m)' = Parent(m)
                /\ Children(m)' = Children(m) /\ Handlers(m)' = Handlers(m)
    BY <1>2, SameProject
<1>8. TypeOK'
    BY <1>1, <1>2, <1>4, <1>7 DEF TypeOK
<1>9. Placed'
  <2>1. ASSUME NEW m \in Nodes, Active(m), Parent(m) # 0 PROVE Asked(m)'
    <3>1. Asked(m) /\ Parent(m) \in Nodes /\ Active(Parent(m))
        BY <1>1, <2>1, ActiveFacts
    <3>2. Parent(m) # n
        BY <2>1
    <3>3. phase'[Parent(m)] = phase[Parent(m)]
        BY <1>4, <3>1, <3>2
    <3> QED
        BY <1>2, <3>1, <3>3 DEF Asked, Kind, Parent, Children, Handlers
  <2>2. Active(Root)' <=> Active(Root)
      BY <1>4, <1>6, <1>7 DEF Active
  <2> QED
      BY <1>1, <1>2, <1>5, <1>6, <1>7, <2>1, <2>2 DEF Placed, Active, Root, Parent, Nodes
<1>10. Counted'
  <2>1. ASSUME NEW p \in Nodes, Kind(p) = "parallel", phase'[p] = "executing"
        PROVE  at[p] = Cardinality({c \in Range(Children(p)) : phase'[c] = "done"})
    <3>1. p # n /\ phase[p] = "executing"
        BY <1>4, <2>1
    <3>2. Range(Children(p)) \subseteq Nodes
        BY <1>1, ListFacts
    <3>3. {c \in Range(Children(p)) : phase'[c] = "done"} = Done(Range(Children(p)))
        BY <1>5, <3>2 DEF Done
    <3> QED
        BY <1>1, <2>1, <3>1, <3>3 DEF Counted
  <2> QED
      BY <1>2, <1>7, <2>1 DEF Counted, Done
<1>11. RootSteps'
  <2> SUFFICES ASSUME phase'[Root] = "executing", NEW i \in 1..Len(Children(Root))
               PROVE  /\ phase'[Children(Root)[i]] = "done" <=> i <= at[Root]
                      /\ i <= at[Root] => outcome'[Children(Root)[i]] # "failed"
      BY <1>2, <1>7 DEF RootSteps
  <2>1. phase[Root] = "executing"
      BY <1>4, <1>6
  <2>2. /\ phase[Children(Root)[i]] = "done" <=> i <= at[Root]
        /\ i <= at[Root] => outcome[Children(Root)[i]] # "failed"
      BY <1>1, <2>1 DEF RootSteps
  <2> QED
      BY <1>4, <1>5, <1>6, <2>2
<1>12. RootEnds'
  <2> SUFFICES ASSUME phase'[Root] = "ending"
               PROVE  /\ outcome'[Root] \in {"ok", "failed"}
                      /\ outcome'[Root] = "ok" =>
                            \A c \in Range(Children(Root)) :
                                phase'[c] = "done" /\ outcome'[c] # "failed"
      BY <1>2, <1>7 DEF RootEnds
  <2>1. /\ outcome'[Root] \in {"ok", "failed"}
        /\ outcome'[Root] = "ok" => \A c \in Range(Children(Root)) :
                                        phase[c] = "done" /\ outcome[c] # "failed"
    <3>1. CASE Root = n
        BY <1>4, <3>1
    <3>2. CASE Root # n
        BY <1>1, <1>4, <1>6, <3>2 DEF RootEnds
    <3> QED
        BY <3>1, <3>2
  <2> QED
      BY <1>4, <1>5, <1>6, <2>1
<1>13. Opens'
    BY <1>1, <1>2, <1>5, <1>7 DEF Opens
<1>14. Reports'
  <2>1. Failing' = Failing
    <3>1. \A c \in Range(Children(Root)) : phase'[c] = "done" /\ outcome'[c] = "failed"
                                          <=> phase[c] = "done" /\ outcome[c] = "failed"
        BY <1>4, <1>5, <1>6
    <3> QED
        BY <1>7, <3>1 DEF Failing
  <2>2. Above' = Above /\ Range(Handlers(Root))' = Range(Handlers(Root))
      BY <1>2, <1>7, SameProject
  <2> QED
      BY <1>1, <1>2, <1>7, <2>1, <2>2 DEF Reports
<1> QED
    BY <1>8, <1>9, <1>10, <1>11, <1>12, <1>13, <1>14, QuietReport DEF IInv, Going

(* A retry goes on to its next attempt. *)
LEMMA RetryStep ==
    ASSUME IInv, NEW n \in Nodes, RetryAgain(n)
    PROVE  IInv'
<1>1. /\ TypeOK /\ Placed /\ Counted /\ RootSteps /\ RootEnds /\ Opens /\ Reports
      /\ project \in Projects /\ exit = "no" /\ service = "running"
      /\ Kind(n) = "retry" /\ phase[n] = "executing"
    BY DEF IInv, Going, TypeOK, RetryAgain, Running
<1> PICK c : c = Children(n)[1]
    OBVIOUS
<1>2. /\ phase[c] = "done" /\ phase' = [phase EXCEPT ![c] = "idle"]
      /\ UNCHANGED <<project, json, run, service, outcome, at, depth, failedStep, failedRun,
                     exit, opened, verdicts>>
    BY DEF RetryAgain, report, seen
<1>3. c \in Nodes /\ Parent(c) = n
  <2>1. 1 \in 1..Len(Children(n))
      BY <1>1, TreeFacts
  <2> QED
      BY <1>1, <2>1, ListFacts
<1>4. /\ phase \in [Nodes -> {"idle", "executing", "handling", "ending", "done"}]
      /\ phase' \in [Nodes -> {"idle", "executing", "handling", "ending", "done"}]
      /\ \A m \in Nodes \ {c} : phase'[m] = phase[m]
      /\ phase'[c] = "idle"
    BY <1>1, <1>2, <1>3 DEF TypeOK
<1>5. /\ \A m \in Nodes : Parent(m) # n => (phase'[m] = "done" <=> phase[m] = "done")
      /\ \A m \in Nodes : Active(m)' <=> Active(m)
    BY <1>2, <1>3, <1>4 DEF Active
<1>6. /\ Root \in Nodes /\ Range(Children(Root)) \subseteq Nodes /\ Root # n /\ Root # c
      /\ \A i \in 1..Len(Children(Root)) : Children(Root)[i] \in Nodes \ {c}
      /\ \A k \in Range(Children(Root)) : k \in Nodes \ {c}
      /\ Len(Children(Root)) \in Nat
  <2>1. Root \in Nodes /\ Kind(Root) = "workflow" /\ Parent(Root) = 0 /\ n # 0
      BY <1>1, RootFacts, TreeFacts
  <2>2. Root # n /\ Root # c
      BY <1>1, <1>3, <2>1
  <2>3. \A k \in Nodes : Parent(k) = Root => k # c
      BY <1>3, <2>2
  <2> QED
      BY <1>1, <2>1, <2>2, <2>3, ListFacts
<1>7. /\ Nodes' = Nodes /\ Root' = Root
      /\ \A m : /\ Announced(m)' = Announced(m)
                /\ Kind(m)' = Kind(m) /\ Parent(m)' = Parent(m)
                /\ Children(m)' = Children(m) /\ Handlers(m)' = Handlers(m)
    BY <1>2, SameProject
<1>8. TypeOK'
    BY <1>1, <1>2, <1>4, <1>7 DEF TypeOK
<1>9. Placed'
  <2>1. ASSUME NEW m \in Nodes, Active(m), Parent(m) # 0 PROVE Asked(m)'
    <3>1. Asked(m) /\ Parent(m) \in Nodes /\ Active(Parent(m))
        BY <1>1, <2>1, ActiveFacts
    <3>2. Parent(m) # c
        BY <1>2, <3>1 DEF Active
    <3>3. phase'[Parent(m)] = phase[Parent(m)]
        BY <1>4, <3>1, <3>2
    <3> QED
        BY <1>2, <3>1, <3>3 DEF Asked, Kind, Parent, Children, Handlers
  <2>2. Active(Root)' <=> Active(Root)
      BY <1>4, <1>6, <1>7 DEF Active
  <2> QED
      BY <1>1, <1>2, <1>5, <1>6, <1>7, <2>1, <2>2 DEF Placed, Active, Root, Parent, Nodes
<1>10. Counted'
  <2>1. ASSUME NEW p \in Nodes, Kind(p) = "parallel", phase'[p] = "executing"
        PROVE  at[p] = Cardinality({k \in Range(Children(p)) : phase'[k] = "done"})
    <3>1. p # n /\ p # c /\ phase[p] = "executing"
        BY <1>1, <1>4, <2>1
    <3>2. \A k \in Range(Children(p)) : k \in Nodes /\ Parent(k) = p
        BY <1>1, ListFacts
    <3>3. {k \in Range(Children(p)) : phase'[k] = "done"} = Done(Range(Children(p)))
        BY <1>5, <3>1, <3>2 DEF Done
    <3> QED
        BY <1>1, <2>1, <3>1, <3>3 DEF Counted
  <2> QED
      BY <1>2, <1>7, <2>1 DEF Counted, Done
<1>11. RootSteps'
  <2> SUFFICES ASSUME phase'[Root] = "executing", NEW i \in 1..Len(Children(Root))
               PROVE  /\ phase'[Children(Root)[i]] = "done" <=> i <= at[Root]
                      /\ i <= at[Root] => outcome[Children(Root)[i]] # "failed"
      BY <1>2, <1>7 DEF RootSteps
  <2> QED
      BY <1>1, <1>4, <1>6 DEF RootSteps
<1>12. RootEnds'
  <2> SUFFICES ASSUME phase'[Root] = "ending"
               PROVE  /\ outcome[Root] \in {"ok", "failed"}
                      /\ outcome[Root] = "ok" =>
                            \A k \in Range(Children(Root)) :
                                phase'[k] = "done" /\ outcome[k] # "failed"
      BY <1>1, <1>2, <1>7 DEF RootEnds
  <2> QED
      BY <1>1, <1>4, <1>6 DEF RootEnds
<1>13. Opens'
    BY <1>1, <1>2, <1>5, <1>7 DEF Opens
<1>14. Reports'
  <2>1. Failing' = Failing
    <3>1. \A k \in Range(Children(Root)) : phase'[k] = phase[k]
        BY <1>4, <1>6
    <3> QED
        BY <1>2, <1>7, <3>1 DEF Failing
  <2>2. Above' = Above /\ Range(Handlers(Root))' = Range(Handlers(Root))
      BY <1>2, <1>7, SameProject
  <2> QED
      BY <1>1, <1>2, <1>7, <2>1, <2>2 DEF Reports
<1>15. StepsNest' /\ Depths' /\ Told' /\ Verdicts'
    BY <1>1, <1>2, QuietReport DEF report, seen
<1> QED
    BY <1>8, <1>9, <1>10, <1>11, <1>12, <1>13, <1>14, <1>15 DEF IInv, Going

(* What nothing below a node that executes is active means for each way it  *)
(* ends.                                                                    *)
LEMMA UntouchedBelow ==
    ASSUME TypeOK, Placed, NEW n \in Nodes, Untouched(n)
    PROVE  /\ phase[n] = "executing"
           /\ \A m \in Nodes : Parent(m) = n => ~Active(m)
    BY DEF Untouched, Active

LEMMA QuietStep ==
    ASSUME IInv, NEW n \in Nodes,
           \/ Skip(n) \/ Answer(n) \/ CutShort(n)
           \/ CompleteWorkflow(n) \/ CompleteRetry(n) \/ CompleteParallel(n)
    PROVE  IInv'
<1>1. exit = "no" /\ service = "running"
    BY DEF Skip, Answer, CutShort, CompleteWorkflow, CompleteRetry, CompleteParallel, Running
<1>2. /\ TypeOK /\ Placed /\ RootSteps
      /\ project \in Projects
      /\ outcome \in [Nodes -> Outcomes]
    BY <1>1 DEF IInv, Going, TypeOK
<1>3. Root \in Nodes /\ Parent(Root) = 0 /\ Kind(Root) = "workflow"
    BY <1>2, RootFacts
<1>4. {"ok", "skipped", "failed"} \subseteq Outcomes
    BY DEF Outcomes
<1>5. CASE Skip(n)
  <2>1. PICK r \in {"ok", "skipped"} : End(n, r)
      BY <1>5 DEF Skip
  <2>2. /\ Untouched(n) /\ n # Root
        /\ UNCHANGED <<project, json, run, service, at, report>>
      BY <1>3, <1>5 DEF Skip
  <2> QED
      BY <1>1, <1>2, <1>4, <2>1, <2>2, UntouchedBelow, EndStep
<1>6. CASE Answer(n)
  <2>1. PICK r \in {"ok", "failed"} : End(n, r) /\ (n = Root => FALSE)
      BY <1>3, <1>6 DEF Answer
  <2>2. /\ Untouched(n)
        /\ UNCHANGED <<project, json, run, service, at, report>>
      BY <1>6 DEF Answer
  <2> QED
      BY <1>1, <1>2, <1>4, <2>1, <2>2, UntouchedBelow, EndStep
<1>7. ASSUME NEW m \in Nodes, Parent(m) = n, Active(m)
      PROVE  /\ Asked(m)
             /\ phase[n] = "executing" <=> m \in Range(Children(n))
             /\ phase[n] \in {"executing", "handling"}
             /\ Kind(n) = "retry" => m = Children(n)[1]
             /\ Kind(n) = "parallel" => phase[n] = "executing"
  <2>1. n # 0
      BY <1>2, TreeFacts
  <2>2. Asked(m)
      BY <1>2, <1>7, <2>1, ActiveFacts
  <2>3. Kind(n) = "retry" => m = Children(n)[1]
    <3> SUFFICES ASSUME Kind(n) = "retry" PROVE m = Children(n)[1]
        OBVIOUS
    <3>1. m \in Range(Children(n)) /\ Len(Children(n)) = 1
        BY <1>2, <1>7, <2>1, <2>2, AskedFacts, TreeFacts
    <3> QED
        BY <1>2, <3>1, ListFacts
  <2> QED
      BY <1>2, <1>7, <2>1, <2>2, <2>3, AskedFacts
<1>8. CASE CutShort(n)
  <2>1. /\ phase[n] = "executing" /\ End(n, "failed")
        /\ \A m \in Range(Children(n)) : ~Active(m)
        /\ UNCHANGED <<project, json, run, service, at, report>>
      BY <1>8 DEF CutShort
  <2>2. \A m \in Nodes : Parent(m) = n => ~Active(m)
      BY <1>7, <2>1
  <2> QED
      BY <1>1, <1>4, <2>1, <2>2, EndStep
<1>9. CASE CompleteWorkflow(n)
  <2>1. Kind(n) = "workflow" /\ UNCHANGED <<project, json, run, service, at, report>>
      BY <1>9 DEF CompleteWorkflow
  <2>2. CASE phase[n] = "executing" /\ at[n] = Len(Children(n)) /\ Succeed(n)
    <3>1. \A m \in Nodes : Parent(m) = n => ~Active(m)
      <4> SUFFICES ASSUME NEW m \in Nodes, Parent(m) = n, Active(m) PROVE FALSE
          OBVIOUS
      <4>1. at[n] < Len(Children(n))
          BY <1>7, <2>1, <2>2 DEF Asked
      <4>2. Len(Children(n)) \in Nat
          BY <1>2, ListFacts
      <4> QED
          BY <2>2, <4>1, <4>2
    <3>2. PICK r \in {"ok", "failed"} : End(n, r)
        BY <2>2 DEF Succeed
    <3>3. n = Root => \A c \in Range(Children(Root)) : phase[c] = "done" /\ outcome[c] # "failed"
      <4> SUFFICES ASSUME n = Root, NEW c \in Range(Children(Root))
                   PROVE  phase[c] = "done" /\ outcome[c] # "failed"
          OBVIOUS
      <4>1. PICK i \in 1..Len(Children(Root)) : c = Children(Root)[i]
          BY <1>2, <1>3, ListFacts
      <4>2. i <= at[Root] /\ phase[Root] = "executing"
          BY <2>2
      <4> QED
          BY <1>2, <4>1, <4>2 DEF RootSteps
    <3> QED
        BY <1>1, <1>4, <2>1, <2>2, <3>1, <3>2, <3>3, EndStep
  <2>3. CASE phase[n] = "handling" /\ at[n] = Len(Handlers(n)) /\ End(n, "failed")
    <3>1. \A m \in Nodes : Parent(m) = n => ~Active(m)
      <4> SUFFICES ASSUME NEW m \in Nodes, Parent(m) = n, Active(m) PROVE FALSE
          OBVIOUS
      <4>1. at[n] < Len(Handlers(n))
          BY <1>7, <2>3 DEF Asked
      <4>2. Len(Handlers(n)) \in Nat
          BY <1>2, ListFacts
      <4> QED
          BY <2>3, <4>1, <4>2
    <3> QED
        BY <1>1, <1>4, <2>1, <2>3, <3>1, EndStep
  <2> QED
      BY <1>9, <2>2, <2>3 DEF CompleteWorkflow
<1>10. CASE CompleteRetry(n)
  <2>1. /\ Kind(n) = "retry" /\ phase[n] = "executing" /\ phase[Children(n)[1]] = "done"
        /\ UNCHANGED <<project, json, run, service, at, report>>
      BY <1>10 DEF CompleteRetry
  <2>2. Children(n)[1] \in Nodes
    <3>1. 1 \in 1..Len(Children(n))
        BY <1>2, <2>1, TreeFacts
    <3> QED
        BY <1>2, <3>1, ListFacts
  <2>3. PICK r \in Outcomes : End(n, r)
      BY <1>2, <1>4, <1>10, <2>2 DEF CompleteRetry
  <2>4. \A m \in Nodes : Parent(m) = n => ~Active(m)
      BY <1>7, <2>1 DEF Active
  <2> QED
      BY <1>1, <1>3, <2>1, <2>3, <2>4, EndStep
<1>11. CASE CompleteParallel(n)
  <2>1. /\ Kind(n) = "parallel" /\ phase[n] = "executing"
        /\ \A c \in Range(Children(n)) : phase[c] = "done"
        /\ UNCHANGED <<project, json, run, service, at, report>>
      BY <1>11 DEF CompleteParallel
  <2>2. PICK r \in {"ok", "failed"} : End(n, r)
      BY <1>11 DEF CompleteParallel, Succeed
  <2>3. \A m \in Nodes : Parent(m) = n => ~Active(m)
      BY <1>7, <2>1 DEF Active
  <2> QED
      BY <1>1, <1>3, <1>4, <2>1, <2>2, <2>3, EndStep
<1> QED
    BY <1>5, <1>6, <1>8, <1>9, <1>10, <1>11

----------------------------------------------------------------------------
(* An execution begins. *)

(* When an execution begins, n and its children are the only nodes that     *)
(* change: n is under way, and its children are as new.                     *)
LEMMA BeginWork ==
    ASSUME IInv, exit = "no", NEW n \in Nodes, ~Active(n), Begin(n),
           UNCHANGED <<project, json, run>>, service' = "running",
           \/ n = Root /\ service = "opening"
           \/ Parent(n) # 0 /\ Asked(n) /\ phase[n] = "idle" /\ service = "running"
    PROVE  /\ phase' \in [Nodes -> {"idle", "executing", "handling", "ending", "done"}]
           /\ outcome' \in [Nodes -> Outcomes]
           /\ at' \in [Nodes -> Nat]
           /\ \A m \in Nodes : at'[m] <= at[m]
           /\ \A m \in Nodes : Active(m)' <=> Active(m) \/ m = n
           /\ Placed' /\ Counted' /\ RootSteps' /\ RootEnds'
           /\ Failing' = IF n = Root THEN {} ELSE Failing
<1>1. /\ TypeOK /\ Placed /\ Counted /\ RootSteps /\ RootEnds
      /\ project \in Projects
    BY DEF IInv, Going, TypeOK
<1>2. /\ phase' = [m \in Nodes |-> IF m = n THEN "executing"
                                   ELSE IF Parent(m) = n THEN "idle" ELSE phase[m]]
      /\ at' = [at EXCEPT ![n] = 0]
      /\ outcome' = outcome
    BY DEF Begin
<1>3. /\ phase \in [Nodes -> {"idle", "executing", "handling", "ending", "done"}]
      /\ outcome \in [Nodes -> Outcomes] /\ at \in [Nodes -> Nat]
    BY <1>1 DEF TypeOK
<1>4. /\ phase' \in [Nodes -> {"idle", "executing", "handling", "ending", "done"}]
      /\ outcome' \in [Nodes -> Outcomes] /\ at' \in [Nodes -> Nat]
      /\ \A m \in Nodes : at'[m] <= at[m]
      /\ at'[n] = 0 /\ \A m \in Nodes \ {n} : at'[m] = at[m]
      /\ phase'[n] = "executing"
      /\ \A m \in Nodes \ {n} : /\ Parent(m) = n => phase'[m] = "idle"
                                /\ Parent(m) # n => phase'[m] = phase[m]
    BY <1>2, <1>3
<1>5. n \in Nat \ {0} /\ Parent(n) \in {0} \cup Nodes /\ Parent(n) < n
      /\ \A m \in Nodes : m \in Nat \ {0} /\ Parent(m) \in {0} \cup Nodes /\ Parent(m) < m
    BY <1>1, TreeFacts
<1>6. \A m \in Nodes : Active(m) /\ Parent(m) # 0 =>
         Asked(m) /\ Parent(m) \in Nodes /\ Active(Parent(m))
    BY <1>1, ActiveFacts
<1>7. \A m \in Nodes : Parent(m) = n => ~Active(m)
    BY <1>5, <1>6
<1>8. \A m \in Nodes : Active(m)' <=> Active(m) \/ m = n
    BY <1>4, <1>7 DEF Active
<1>9. /\ Nodes' = Nodes /\ Root' = Root
      /\ \A m : /\ Announced(m)' = Announced(m)
                /\ Kind(m)' = Kind(m) /\ Parent(m)' = Parent(m)
                /\ Children(m)' = Children(m) /\ Handlers(m)' = Handlers(m)
    BY SameProject
<1>10. /\ Root \in Nodes /\ Parent(Root) = 0 /\ Kind(Root) = "workflow"
       /\ Len(Children(Root)) \in Nat
       /\ \A i \in 1..Len(Children(Root)) :
             Children(Root)[i] \in Nodes /\ Parent(Children(Root)[i]) = Root
       /\ \A c \in Range(Children(Root)) : c \in Nodes /\ Parent(c) = Root
    BY <1>1, RootFacts, ListFacts
<1>11. n # Root => phase'[Root] = phase[Root] /\ Root \in Nodes \ {n}
    BY <1>4, <1>5, <1>10
<1>12. n # Root => phase[Root] # "ending"
  <2> SUFFICES ASSUME n # Root PROVE phase[Root] \in {"executing", "handling"}
      OBVIOUS
  <2>1. /\ Parent(n) # 0 /\ Asked(n) /\ Parent(n) \in Nodes
        /\ phase[Parent(n)] \in {"executing", "handling"}
      BY <1>1, AskedFacts
  <2> QED
      BY <1>1, <2>1, RootRuns DEF Active
<1>13. Placed'
  <2>1. ASSUME NEW m \in Nodes, Active(m), Parent(m) # 0 PROVE Asked(m)'
    <3>1. Asked(m) /\ Parent(m) \in Nodes /\ Active(Parent(m))
        BY <1>6, <2>1
    <3>2. Parent(m) # n /\ Parent(Parent(m)) # n
        BY <1>5, <1>6, <3>1
    <3>3. phase'[Parent(m)] = phase[Parent(m)] /\ at'[Parent(m)] = at[Parent(m)]
        BY <1>4, <3>1, <3>2
    <3> QED
        BY <3>1, <3>3 DEF Asked, Kind, Parent, Children, Handlers
  <2>2. ASSUME Parent(n) # 0 PROVE Asked(n)'
    <3>1. Asked(n) /\ Parent(n) \in Nodes
        BY <1>5, <1>10, <2>2
    <3>2. Parent(n) # n /\ Parent(Parent(n)) # n
      <4>1. PICK p \in Nodes : p = Parent(n)
          BY <3>1
      <4>2. p \in Nat /\ p < n /\ Parent(p) < p
          BY <1>5, <4>1
      <4>3. Parent(p) \in Nat
        <5>1. Parent(p) \in {0} \cup Nodes
            BY <1>5
        <5>2. Nodes \subseteq Nat
            BY <1>1, TreeFacts
        <5>3. CASE Parent(p) = 0
            BY <5>3
        <5>4. CASE Parent(p) \in Nodes
            BY <5>2, <5>4
        <5> QED
            BY <5>1, <5>3, <5>4
      <4> QED
          BY <1>5, <4>1, <4>2, <4>3
    <3>3. phase'[Parent(n)] = phase[Parent(n)] /\ at'[Parent(n)] = at[Parent(n)]
        BY <1>4, <3>1, <3>2
    <3> QED
        BY <3>1, <3>3 DEF Asked, Kind, Parent, Children, Handlers
  <2>3. Active(Root)'
    <3>1. CASE n = Root
        BY <1>4, <1>9, <3>1 DEF Active
    <3>2. CASE n # Root
        BY <1>1, <1>9, <1>11, <3>2 DEF Active, Placed
    <3> QED
        BY <3>1, <3>2
  <2>4. ASSUME NEW m \in Nodes, Active(m) \/ m = n, Parent(m) = 0 PROVE m = Root
      BY <1>1, <2>4 DEF Placed
  <2>5. \A m \in Nodes : Active(m) \/ m = n => IF Parent(m) = 0 THEN m = Root ELSE Asked(m)'
      BY <2>1, <2>2, <2>4
  <2> QED
      BY <1>8, <1>9, <2>3, <2>5 DEF Placed
<1>14. Counted'
  <2>1. ASSUME NEW p \in Nodes, Kind(p) = "parallel", phase'[p] = "executing"
        PROVE  at'[p] = Cardinality({c \in Range(Children(p)) : phase'[c] = "done"})
    <3>1. \A c \in Range(Children(p)) : c \in Nodes /\ Parent(c) = p
        BY <1>1, ListFacts
    <3>2. CASE p = n
      <4>1. \A c \in Range(Children(p)) : c \in Nodes \ {n} /\ Parent(c) = n
          BY <1>5, <3>1, <3>2
      <4>2. {c \in Range(Children(p)) : phase'[c] = "done"} = {}
          BY <1>4, <4>1
      <4> QED
          BY <1>4, <3>2, <4>2, FS_EmptySet
    <3>3. CASE p # n
      <4>1. phase[p] = "executing" /\ at'[p] = at[p]
          BY <1>4, <2>1, <3>3
      <4>2. ASSUME NEW c \in Range(Children(p))
            PROVE  phase'[c] = "done" <=> phase[c] = "done"
        <5>1. CASE c = n
            BY <1>4, <1>5, <1>10, <3>1, <5>1
        <5>2. CASE c # n
            BY <1>4, <3>1, <3>3, <5>2
        <5> QED
            BY <5>1, <5>2
      <4>3. {c \in Range(Children(p)) : phase'[c] = "done"} = Done(Range(Children(p)))
          BY <4>2 DEF Done
      <4> QED
          BY <1>1, <2>1, <4>1, <4>3 DEF Counted
    <3> QED
        BY <3>2, <3>3
  <2> QED
      BY <1>9, <2>1 DEF Counted, Done
<1>15. \A c \in Nodes : Parent(c) = Root /\ n # Root =>
            (phase'[c] = "done" <=> phase[c] = "done")
    BY <1>4, <1>10
<1>16. RootSteps'
  <2> SUFFICES ASSUME phase'[Root] = "executing", NEW i \in 1..Len(Children(Root))
               PROVE  /\ phase'[Children(Root)[i]] = "done" <=> i <= at'[Root]
                      /\ i <= at'[Root] => outcome'[Children(Root)[i]] # "failed"
      BY <1>9 DEF RootSteps
  <2>1. CASE n = Root
    <3>1. Children(Root)[i] \in Nodes \ {n} /\ Parent(Children(Root)[i]) = n
        BY <1>5, <1>10, <2>1
    <3>2. phase'[Children(Root)[i]] = "idle" /\ at'[Root] = 0
        BY <1>4, <2>1, <3>1
    <3> QED
        BY <1>10, <3>2
  <2>2. CASE n # Root
      BY <1>1, <1>2, <1>4, <1>10, <1>11, <1>15, <2>2 DEF RootSteps
  <2> QED
      BY <2>1, <2>2
<1>17. RootEnds'
    BY <1>4, <1>9, <1>11, <1>12 DEF RootEnds
<1>18. Failing' = IF n = Root THEN {} ELSE Failing
  <2>1. CASE n = Root
    <3>1. \A c \in Range(Children(Root)) : c \in Nodes \ {n} /\ Parent(c) = n
        BY <1>5, <1>10, <2>1
    <3>2. \A c \in Range(Children(Root)) : phase'[c] # "done"
        BY <1>4, <3>1
    <3> QED
        BY <1>9, <2>1, <3>2 DEF Failing
  <2>2. CASE n # Root
    <3>1. \A c \in Range(Children(Root)) : phase'[c] = "done" <=> phase[c] = "done"
        BY <1>10, <1>15, <2>2
    <3> QED
        BY <1>2, <1>9, <2>2, <3>1 DEF Failing
  <2> QED
      BY <2>1, <2>2
<1> QED
    BY <1>4, <1>8, <1>13, <1>14, <1>16, <1>17, <1>18

(* The brackets follow from where what is active is. *)
LEMMA NestFollows == TypeOK /\ Placed /\ Opens => StepsNest
<1> SUFFICES ASSUME TypeOK, Placed, Opens, NEW n \in Nodes
             PROVE  /\ opened[n] \in {0, 1}
                    /\ opened[n] = 1 =>
                          \A m \in Above[n] : Announced(m) \/ Parent(m) = 0 => opened[m] = 1
    BY DEF StepsNest
<1>1. opened[n] \in {0, 1} /\ (opened[n] = 1 => Active(n))
    BY DEF Opens
<1>2. Active(n) => \A m \in Above[n] : m \in Nodes /\ Active(m)
    BY AboveActive
<1> QED
    BY <1>1, <1>2 DEF Opens

LEMMA NestFollowsNext == (TypeOK /\ Placed /\ Opens => StepsNest)'
    BY NestFollows, PTL

(* The process exits because it cannot print. *)
LEMMA GiveUpStep ==
    ASSUME IInv, GiveUp, UNCHANGED <<project, json, run>>, TypeOK'
    PROVE  IInv'
<1>1. /\ json /\ exit' = "error"
      /\ UNCHANGED <<project, json, run, depth, failedStep, failedRun, opened, verdicts>>
    BY DEF GiveUp, seen
<1>2. /\ Nodes' = Nodes /\ Above' = Above
      /\ \A n : Announced(n)' = Announced(n) /\ Parent(n)' = Parent(n)
    BY <1>1, SameProject
<1>3. StepsNest'
    BY <1>1, <1>2 DEF IInv, StepsNest
<1>4. Depths'
    BY <1>1 DEF Depths
<1>5. Told'
    BY <1>1 DEF IInv, Told
<1> QED
    BY <1>1, <1>3, <1>4, <1>5 DEF IInv

(* What the consumer knows when a step starts. *)
LEMMA StartSent ==
    ASSUME TypeOK, NEW n \in Nodes,
           IF Announced(n) THEN Consume(Event("step_started", n, "running"))
           ELSE UNCHANGED report
    PROVE  /\ opened' = [opened EXCEPT ![n] = IF Announced(n) THEN @ + 1 ELSE @]
           /\ opened' \in [Nodes -> Int]
           /\ opened'[n] = IF Announced(n) THEN opened[n] + 1 ELSE opened[n]
           /\ \A m \in Nodes \ {n} : opened'[m] = opened[m]
           /\ depth' = IF Announced(n) /\ Kind(n) = "workflow" /\ ~json THEN depth + 1
                       ELSE depth
           /\ UNCHANGED <<verdicts, failedStep, failedRun, exit>>
<1>1. opened \in [Nodes -> Int]
    BY DEF TypeOK
<1>2. CASE Announced(n)
  <2> DEFINE e == Event("step_started", n, "running")
  <2>1. e.type = "step_started" /\ e.node = n
      BY DEF Event
  <2>2. Consume(e)
      BY <1>2
  <2> HIDE DEF e
  <2>3. /\ opened' = [opened EXCEPT ![n] = @ + 1]
        /\ UNCHANGED <<verdicts, failedStep, exit>>
      BY <2>1, <2>2 DEF Consume, Starts, FailedStepAfter
  <2>4. failedRun' = failedRun
      BY <2>1, <2>2 DEF Consume, TypeOK
  <2>5. depth' = IF Kind(n) = "workflow" /\ ~json THEN depth + 1 ELSE depth
      BY <2>1, <2>2 DEF Consume, DepthAfter
  <2> QED
      BY <1>1, <1>2, <2>3, <2>4, <2>5
<1>3. CASE ~Announced(n)
  <2>1. UNCHANGED <<depth, failedStep, failedRun, exit, opened, verdicts>>
      BY <1>3 DEF report, seen
  <2> QED
      BY <1>1, <1>3, <2>1
<1> QED
    BY <1>2, <1>3

LEMMA StartStep ==
    ASSUME IInv, NEW n \in Nodes, Start(n)
    PROVE  IInv'
<1>1. /\ TypeOK /\ Placed /\ Opens /\ Reports /\ Verdicts
      /\ project \in Projects /\ exit = "no" /\ service = "running"
      /\ UNCHANGED <<project, json, run, service>>
    BY DEF IInv, Going, TypeOK, Start, Running
<1>2. Begin(n) /\ phase[n] = "idle" /\ Parent(n) # 0 /\ Asked(n)
    BY DEF Start, Turn, Asked
<1>3. ~Active(n) /\ n # Root
    BY <1>1, <1>2, RootFacts DEF Active
<1>4. /\ phase' \in [Nodes -> {"idle", "executing", "handling", "ending", "done"}]
      /\ outcome' \in [Nodes -> Outcomes]
      /\ at' \in [Nodes -> Nat]
      /\ \A m \in Nodes : at'[m] <= at[m]
      /\ \A m \in Nodes : Active(m)' <=> Active(m) \/ m = n
      /\ Placed' /\ Counted' /\ RootSteps' /\ RootEnds'
      /\ Failing' = Failing
    BY <1>1, <1>2, <1>3, BeginWork
<1>5. /\ Nodes' = Nodes /\ Root' = Root /\ Above' = Above
      /\ \A m : /\ Announced(m)' = Announced(m)
                /\ Kind(m)' = Kind(m) /\ Parent(m)' = Parent(m)
                /\ Children(m)' = Children(m) /\ Handlers(m)' = Handlers(m)
    BY <1>1, SameProject
<1>6. \A m \in Nodes :
         at'[m] <= IF Kind(m) = "retry" THEN MaxAttempts ELSE Len(Children(m)) + Len(Handlers(m))
  <2> SUFFICES ASSUME NEW m \in Nodes
               PROVE  at'[m] <= IF Kind(m) = "retry" THEN MaxAttempts
                                ELSE Len(Children(m)) + Len(Handlers(m))
      OBVIOUS
  <2>1. /\ at'[m] \in Nat /\ at[m] \in Nat /\ at'[m] <= at[m]
        /\ MaxAttempts \in Nat /\ Len(Children(m)) \in Nat /\ Len(Handlers(m)) \in Nat
      BY <1>1, <1>4, ListFacts, AttemptsAssumption DEF TypeOK
  <2>2. at[m] <= IF Kind(m) = "retry" THEN MaxAttempts ELSE Len(Children(m)) + Len(Handlers(m))
      BY <1>1 DEF TypeOK
  <2> QED
      BY <2>1, <2>2
<1>7. CASE Announced(n) /\ GiveUp
  <2>1. TypeOK'
      BY <1>1, <1>4, <1>5, <1>6, <1>7 DEF TypeOK, GiveUp, seen
  <2> QED
      BY <1>1, <1>7, <2>1, GiveUpStep
<1>8. CASE IF Announced(n) THEN Consume(Event("step_started", n, "running"))
           ELSE UNCHANGED report
  <2>1. /\ opened' \in [Nodes -> Int]
        /\ opened'[n] = IF Announced(n) THEN opened[n] + 1 ELSE opened[n]
        /\ \A m \in Nodes \ {n} : opened'[m] = opened[m]
        /\ depth' = IF Announced(n) /\ Kind(n) = "workflow" /\ ~json THEN depth + 1
                    ELSE depth
        /\ UNCHANGED <<verdicts, failedStep, failedRun, exit>>
      BY <1>1, <1>8, StartSent
  <2>2. depth' \in Nat
      BY <1>1, <2>1 DEF TypeOK
  <2>3. TypeOK'
      BY <1>1, <1>4, <1>5, <1>6, <2>1, <2>2 DEF TypeOK
  <2>4. opened[n] = 0
      BY <1>1, <1>3 DEF Opens
  <2>5. Opens'
    <3>1. ASSUME NEW m \in Nodes
          PROVE  opened'[m] = IF Active(m)' /\ (Announced(m) \/ Parent(m) = 0) THEN 1 ELSE 0
      <4>1. CASE m = n
          BY <1>2, <1>4, <2>1, <2>4, <4>1
      <4>2. CASE m # n
          BY <1>1, <1>4, <2>1, <4>2 DEF Opens
      <4> QED
          BY <4>1, <4>2
    <3> QED
        BY <1>5, <3>1 DEF Opens
  <2>6. StepsNest'
      BY <1>4, <2>3, <2>5, NestFollowsNext
  <2>7. Depths'
    <3>1. OpenWorkflows' = IF Announced(n) /\ Kind(n) = "workflow" THEN OpenWorkflows \cup {n}
                           ELSE OpenWorkflows
        BY <1>5, <2>1, <2>4 DEF OpenWorkflows
    <3>2. IsFiniteSet(OpenWorkflows) /\ n \notin OpenWorkflows
      <4>1. OpenWorkflows \subseteq Nodes /\ n \notin OpenWorkflows
          BY <2>4 DEF OpenWorkflows
      <4> QED
          BY <1>1, <4>1, TreeFacts, FS_Subset
    <3>3. Cardinality(OpenWorkflows \cup {n}) = Cardinality(OpenWorkflows) + 1
        BY <3>2, FS_AddElement
    <3>4. ~json => depth = Cardinality(OpenWorkflows)
        BY <1>1 DEF IInv, Depths
    <3> QED
        BY <1>1, <2>1, <3>1, <3>3, <3>4 DEF Depths
  <2>8. Reports'
      BY <1>1, <1>4, <1>5, <2>1 DEF Reports
  <2>9. Verdicts' /\ Told'
      BY <1>1, <2>1 DEF IInv, Verdicts, Told
  <2> QED
      BY <1>4, <2>3, <2>5, <2>6, <2>7, <2>8, <2>9 DEF IInv, Going
<1> QED
    BY <1>7, <1>8 DEF Start, Send

----------------------------------------------------------------------------
(* An execution ends. *)

(* No parallel block counts more branches than it has. *)
LEMMA BranchCount ==
    ASSUME project \in Projects, NEW n \in Nodes, NEW D \in SUBSET Range(Children(n))
    PROVE  IsFiniteSet(D) /\ Cardinality(D) \in Nat /\ Cardinality(D) <= Len(Children(n))
<1> PICK cs \in Seq(Nodes) : cs = Children(n)
    BY TreeFacts
<1>1. Len(cs) \in Nat /\ cs \in [1..Len(cs) -> Range(cs)]
  <2>1. Len(cs) \in Nat /\ cs \in [1..Len(cs) -> Nodes] /\ DOMAIN cs = 1..Len(cs)
      BY LenProperties
  <2> QED
      BY <2>1 DEF Range
<1>2. cs \in Surjection(1..Len(cs), Range(cs))
    BY <1>1 DEF Surjection, Range
<1>3. IsFiniteSet(1..Len(cs)) /\ Cardinality(1..Len(cs)) = Len(cs)
  <2>1. PICK k \in Nat : k = Len(cs)
      BY <1>1
  <2>2. IsFiniteSet(1..k) /\ Cardinality(1..k) = IF 1 > k THEN 0 ELSE k - 1 + 1
      BY FS_Interval
  <2>3. Cardinality(1..k) = k
      BY <2>2
  <2> QED
      BY <2>1, <2>2, <2>3
<1>4. IsFiniteSet(Range(cs)) /\ Cardinality(Range(cs)) <= Len(cs)
    BY <1>2, <1>3, FS_Surjection
<1>5. IsFiniteSet(D) /\ Cardinality(D) <= Cardinality(Range(cs))
    BY <1>4, FS_Subset
<1>6. Cardinality(D) \in Nat /\ Cardinality(Range(cs)) \in Nat
    BY <1>4, <1>5, FS_CardinalityType
<1> QED
    BY <1>1, <1>4, <1>5, <1>6

LEMMA ReturnWork ==
    ASSUME IInv, exit = "no", service = "running", NEW n \in Nodes,
           phase[n] = "ending", Parent(n) # 0, Return(n),
           UNCHANGED <<project, json, run, service>>
    PROVE  /\ phase' \in [Nodes -> {"idle", "executing", "handling", "ending", "done"}]
           /\ outcome' \in [Nodes -> Outcomes]
           /\ at' \in [Nodes -> Nat]
           /\ \A m \in Nodes :
                 at'[m] <= IF Kind(m) = "retry" THEN MaxAttempts
                           ELSE Len(Children(m)) + Len(Handlers(m))
           /\ \A m \in Nodes : Active(m)' <=> Active(m) /\ m # n
           /\ Placed' /\ Counted' /\ RootSteps' /\ RootEnds'
           /\ \/ Failing' = {}
              \/ phase[Root] = "executing" /\ n \in Failing' /\ Announced(n) /\ Status(n) = "failed"
              \/ phase[Root] = "handling" /\ Failing' = Failing
<1>1. /\ TypeOK /\ Placed /\ Counted /\ RootSteps /\ RootEnds
      /\ project \in Projects
    BY DEF IInv, Going, TypeOK
<1> PICK p : p = Parent(n)
    OBVIOUS
<1> DEFINE fails == Status(n) = "failed" /\ Kind(p) = "workflow"
           handles == fails /\ phase[p] = "executing" /\ Handlers(p) # <<>>
<1>2. Active(n) /\ Asked(n) /\ Active(p) /\ p \in Nodes
      /\ \A m \in Nodes : Active(m) /\ Parent(m) = p /\ m # n => Kind(p) = "parallel"
    BY <1>1, ActiveFacts DEF Active
<1>3. /\ phase[p] \in {"executing", "handling"}
      /\ Kind(p) \in {"workflow", "retry", "parallel"}
      /\ phase[p] = "handling" => Kind(p) = "workflow"
      /\ phase[p] = "handling" <=> n \in Range(Handlers(p))
      /\ phase[p] = "executing" <=> n \in Range(Children(p))
    BY <1>1, <1>2, AskedFacts
<1>4. n \in Nat \ {0} /\ p < n
      /\ \A m \in Nodes : m \in Nat \ {0} /\ Parent(m) \in {0} \cup Nodes /\ Parent(m) < m
    BY <1>1, TreeFacts
<1>5. p # n /\ p \in Nat \ {0}
    BY <1>2, <1>4
<1>6. /\ phase \in [Nodes -> {"idle", "executing", "handling", "ending", "done"}]
      /\ outcome \in [Nodes -> Outcomes] /\ at \in [Nodes -> Nat]
    BY <1>1 DEF TypeOK
<1>7. Status(n) \in Outcomes
    BY <1>6 DEF Status, Outcomes
<1>8. /\ phase' = [phase EXCEPT ![n] = "done",
                                ![p] = IF handles THEN "handling"
                                       ELSE IF fails THEN "ending" ELSE @]
      /\ outcome' = [outcome EXCEPT ![n] = Status(n),
                                    ![p] = IF fails THEN "failed" ELSE @]
      /\ at' = [at EXCEPT ![p] = IF handles THEN 0 ELSE @ + 1]
    BY DEF Return
<1> HIDE DEF fails, handles
<1>9. fails \in BOOLEAN /\ handles \in BOOLEAN /\ (handles => fails)
      /\ (fails => Status(n) = "failed" /\ Kind(p) = "workflow")
      /\ (handles => phase[p] = "executing")
    BY DEF fails, handles
<1>10. /\ phase' \in [Nodes -> {"idle", "executing", "handling", "ending", "done"}]
       /\ phase'[n] = "done"
       /\ phase'[p] = IF handles THEN "handling" ELSE IF fails THEN "ending" ELSE phase[p]
       /\ \A m \in Nodes \ {n, p} : phase'[m] = phase[m]
    BY <1>2, <1>5, <1>6, <1>8
<1>11. /\ outcome' \in [Nodes -> Outcomes]
       /\ outcome'[n] = Status(n)
       /\ outcome'[p] = IF fails THEN "failed" ELSE outcome[p]
       /\ \A m \in Nodes \ {n, p} : outcome'[m] = outcome[m]
    BY <1>2, <1>5, <1>6, <1>7, <1>8 DEF Outcomes
<1>12. /\ at' \in [Nodes -> Nat]
       /\ at'[p] = IF handles THEN 0 ELSE at[p] + 1
       /\ \A m \in Nodes \ {p} : at'[m] = at[m]
    BY <1>2, <1>6, <1>8
<1>13. /\ Nodes' = Nodes /\ Root' = Root
       /\ \A m : /\ Announced(m)' = Announced(m)
                 /\ Kind(m)' = Kind(m) /\ Parent(m)' = Parent(m)
                 /\ Children(m)' = Children(m) /\ Handlers(m)' = Handlers(m)
    BY SameProject
<1>14. /\ \A m \in Nodes : Active(m)' <=> Active(m) /\ m # n
       /\ \A m \in Nodes : phase'[m] = "done" <=> phase[m] = "done" \/ m = n
    BY <1>2, <1>3, <1>5, <1>10 DEF Active
<1>15. /\ Root \in Nodes /\ Parent(Root) = 0 /\ Kind(Root) = "workflow" /\ Root # n
       /\ Len(Children(Root)) \in Nat
       /\ \A i \in 1..Len(Children(Root)) :
             Children(Root)[i] \in Nodes /\ Parent(Children(Root)[i]) = Root
       /\ \A c \in Range(Children(Root)) : c \in Nodes /\ Parent(c) = Root
    BY <1>1, RootFacts, ListFacts
<1>16. Placed'
  <2>1. ASSUME NEW m \in Nodes, m # n, Active(m), Parent(m) # 0 PROVE Asked(m)'
    <3>1. Asked(m) /\ Parent(m) \in Nodes /\ Active(Parent(m))
        BY <1>1, <2>1, ActiveFacts
    <3>2. phase[Parent(m)] \in {"executing", "handling"}
          /\ (phase[Parent(m)] = "handling" => Kind(Parent(m)) = "workflow")
        BY <1>1, <2>1, <3>1, AskedFacts
    <3>3. Parent(m) # n
        BY <3>2
    <3>4. CASE Parent(m) = p
      <4>1. Kind(p) = "parallel"
          BY <1>2, <2>1, <3>4
      <4>2. phase'[p] = "executing"
          BY <1>9, <1>10, <3>2, <3>4, <4>1
      <4> QED
          BY <3>4, <4>1, <4>2 DEF Asked, Kind, Parent, Children, Handlers
    <3>5. CASE Parent(m) # p
      <4>1. phase'[Parent(m)] = phase[Parent(m)] /\ at'[Parent(m)] = at[Parent(m)]
          BY <1>10, <1>12, <3>1, <3>3, <3>5
      <4> QED
          BY <3>1, <4>1 DEF Asked, Kind, Parent, Children, Handlers
    <3> QED
        BY <3>4, <3>5
  <2>2. Active(Root)'
    <3>1. Active(Root)
        BY <1>1 DEF Placed
    <3>2. Root = p \/ phase'[Root] = phase[Root]
        BY <1>10, <1>15
    <3>3. phase'[p] \in {"executing", "handling", "ending"}
        BY <1>3, <1>10
    <3> QED
        BY <1>13, <3>1, <3>2, <3>3 DEF Active
  <2>3. \A m \in Nodes : Active(m) /\ m # n => IF Parent(m) = 0 THEN m = Root ELSE Asked(m)'
      BY <1>1, <2>1 DEF Placed
  <2> QED
      BY <1>13, <1>14, <2>2, <2>3 DEF Placed
<1>17. Counted'
  <2>1. ASSUME NEW q \in Nodes, Kind(q) = "parallel", phase'[q] = "executing"
        PROVE  at'[q] = Cardinality({c \in Range(Children(q)) : phase'[c] = "done"})
    <3>1. /\ \A c \in Range(Children(q)) : c \in Nodes /\ Parent(c) = q
          /\ Range(Children(q)) \subseteq Nodes
        BY <1>1, ListFacts
    <3>2. CASE q = p
      <4>1. ~fails /\ ~handles /\ phase[p] = "executing" /\ at'[p] = at[p] + 1
          BY <1>9, <1>10, <1>12, <2>1, <3>2
      <4>2. n \in Range(Children(p)) /\ n \notin Done(Range(Children(p)))
          BY <1>3, <4>1 DEF Done
      <4>3. {c \in Range(Children(p)) : phase'[c] = "done"} = Done(Range(Children(p))) \cup {n}
          BY <1>14, <3>1, <3>2, <4>2 DEF Done
      <4>4. IsFiniteSet(Done(Range(Children(p))))
        <5>1. Done(Range(Children(p))) \subseteq Nodes
            BY <3>1, <3>2 DEF Done
        <5> QED
            BY <1>1, <5>1, TreeFacts, FS_Subset
      <4>5. Cardinality(Done(Range(Children(p))) \cup {n}) = Cardinality(Done(Range(Children(p)))) + 1
          BY <4>2, <4>4, FS_AddElement
      <4>6. at[p] = Cardinality(Done(Range(Children(p))))
          BY <1>1, <1>2, <2>1, <3>2, <4>1 DEF Counted
      <4> QED
          BY <3>2, <4>1, <4>3, <4>5, <4>6
    <3>3. CASE q # p
      <4>1. q # n /\ phase[q] = "executing" /\ at'[q] = at[q]
          BY <1>10, <1>12, <2>1, <3>3
      <4>2. \A c \in Range(Children(q)) : c # n
          BY <3>1, <3>3
      <4>3. {c \in Range(Children(q)) : phase'[c] = "done"} = Done(Range(Children(q)))
          BY <1>14, <3>1, <4>2 DEF Done
      <4> QED
          BY <1>1, <2>1, <4>1, <4>3 DEF Counted
    <3> QED
        BY <3>2, <3>3
  <2> QED
      BY <1>13, <2>1 DEF Counted, Done
<1>18. ASSUME NEW m \in Nodes
       PROVE  at'[m] <= IF Kind(m) = "retry" THEN MaxAttempts
                        ELSE Len(Children(m)) + Len(Handlers(m))
  <2>1. /\ at[m] \in Nat /\ MaxAttempts \in Nat
        /\ Len(Children(m)) \in Nat /\ Len(Handlers(m)) \in Nat
        /\ at[m] <= IF Kind(m) = "retry" THEN MaxAttempts
                     ELSE Len(Children(m)) + Len(Handlers(m))
      BY <1>1, ListFacts, AttemptsAssumption DEF TypeOK
  <2>2. CASE m # p
      BY <1>12, <2>1, <2>2
  <2>3. CASE m = p /\ handles
    <3>1. at'[m] = 0
        BY <1>12, <2>3
    <3> QED
        BY <2>1, <3>1
  <2>4. CASE m = p /\ ~handles /\ Kind(p) # "parallel"
    <3>1. at'[m] = at[m] + 1
        BY <1>12, <2>4
    <3>2. at[m] < IF Kind(m) = "retry" THEN MaxAttempts
                  ELSE IF phase[m] = "handling" THEN Len(Handlers(m)) ELSE Len(Children(m))
        BY <1>2, <1>3, <2>4 DEF Asked
    <3> QED
        BY <2>1, <3>1, <3>2
  <2>5. CASE m = p /\ ~handles /\ Kind(p) = "parallel"
    <3>1. phase'[m] = "executing"
        BY <1>3, <1>9, <1>10, <2>5
    <3>2. at'[m] = Cardinality({c \in Range(Children(m)) : phase'[c] = "done"})
        BY <1>13, <1>17, <2>5, <3>1 DEF Counted, Done
    <3>3. at'[m] \in Nat /\ at'[m] <= Len(Children(m))
        BY <1>1, <3>2, BranchCount
    <3> QED
        BY <2>1, <2>5, <3>3
  <2> QED
      BY <2>2, <2>3, <2>4, <2>5
<1>19. RootSteps'
  <2> SUFFICES ASSUME phase'[Root] = "executing", NEW i \in 1..Len(Children(Root))
               PROVE  /\ phase'[Children(Root)[i]] = "done" <=> i <= at'[Root]
                      /\ i <= at'[Root] => outcome'[Children(Root)[i]] # "failed"
      BY <1>13 DEF RootSteps
  <2>1. Children(Root)[i] \in Nodes /\ Parent(Children(Root)[i]) = Root
      BY <1>15
  <2>2. CASE p = Root
    <3>1. /\ ~fails /\ ~handles /\ phase[Root] = "executing" /\ at'[Root] = at[Root] + 1
          /\ Status(n) # "failed"
        BY <1>3, <1>9, <1>10, <1>12, <1>15, <2>2 DEF fails
    <3>2. at[Root] \in Nat /\ at[Root] < Len(Children(Root)) /\ n = Children(Root)[at[Root] + 1]
        BY <1>2, <1>6, <1>15, <2>2, <3>1 DEF Asked
    <3>3. at[Root] + 1 \in 1..Len(Children(Root))
        BY <1>15, <3>2
    <3>4. Children(Root)[i] = n <=> i = at[Root] + 1
        BY <1>1, <1>15, <3>2, <3>3, ListFacts
    <3>5. /\ phase[Children(Root)[i]] = "done" <=> i <= at[Root]
          /\ i <= at[Root] => outcome[Children(Root)[i]] # "failed"
        BY <1>1, <3>1 DEF RootSteps
    <3>6. phase'[Children(Root)[i]] = "done" <=> i <= at'[Root]
        BY <1>14, <2>1, <3>1, <3>2, <3>4, <3>5
    <3>7. ASSUME i <= at'[Root] PROVE outcome'[Children(Root)[i]] # "failed"
      <4>1. CASE Children(Root)[i] = n
          BY <1>11, <3>1, <4>1
      <4>2. CASE Children(Root)[i] # n
        <5>1. i <= at[Root]
            BY <3>1, <3>2, <3>4, <3>7, <4>2
        <5>2. Children(Root)[i] # p
            BY <1>15, <2>1, <2>2, <1>4
        <5> QED
            BY <1>11, <2>1, <3>5, <4>2, <5>1, <5>2
      <4> QED
          BY <4>1, <4>2
    <3> QED
        BY <3>6, <3>7
  <2>3. CASE p # Root
    <3>1. phase[Root] = "executing" /\ at'[Root] = at[Root]
        BY <1>10, <1>12, <1>15, <2>3
    <3>2. Children(Root)[i] # n
        BY <2>1, <2>3
    <3>3. /\ phase[Children(Root)[i]] = "done" <=> i <= at[Root]
          /\ i <= at[Root] => outcome[Children(Root)[i]] # "failed"
        BY <1>1, <3>1 DEF RootSteps
    <3>4. i <= at[Root] => Children(Root)[i] # p
        BY <1>3, <3>3
    <3> QED
        BY <1>11, <1>14, <2>1, <3>1, <3>2, <3>3, <3>4
  <2> QED
      BY <2>2, <2>3
<1>20. phase[Root] \in {"executing", "handling"}
    BY <1>1, <1>2, <1>15, RootRuns
<1>21. RootEnds'
  <2> SUFFICES ASSUME phase'[Root] = "ending" PROVE outcome'[Root] = "failed"
      BY <1>13 DEF RootEnds
  <2>1. p = Root /\ fails
      BY <1>10, <1>15, <1>20
  <2> QED
      BY <1>11, <2>1
<1>22. \/ Failing' = {}
       \/ phase[Root] = "executing" /\ n \in Failing' /\ Announced(n) /\ Status(n) = "failed"
       \/ phase[Root] = "handling" /\ Failing' = Failing
  <2>1. Failing' = {c \in Range(Children(Root)) : phase'[c] = "done" /\ outcome'[c] = "failed"}
      BY <1>13 DEF Failing
  <2>2. ASSUME n \notin Range(Children(Root)) PROVE Failing' = Failing
    <3>1. ASSUME NEW c \in Range(Children(Root))
          PROVE  phase'[c] = "done" /\ outcome'[c] = "failed"
                 <=> phase[c] = "done" /\ outcome[c] = "failed"
      <4>1. c \in Nodes /\ c # n
          BY <1>15, <2>2, <3>1
      <4>2. c = p => phase[c] # "done"
          BY <1>3
      <4> QED
          BY <1>11, <1>14, <4>1, <4>2
    <3> QED
        BY <2>1, <3>1 DEF Failing
  <2>3. CASE phase[Root] = "handling"
    <3>1. n \notin Range(Children(Root))
        BY <1>3, <1>15, <2>3
    <3> QED
        BY <2>2, <2>3, <3>1
  <2>4. CASE phase[Root] = "executing" /\ n \in Range(Children(Root)) /\ Status(n) = "failed"
    <3>1. n \in Failing'
        BY <1>10, <1>11, <2>1, <2>4
    <3>2. Announced(n)
        BY <1>15, <2>4 DEF Announced
    <3> QED
        BY <2>4, <3>1, <3>2
  <2>5. CASE phase[Root] = "executing" /\ n \in Range(Children(Root)) /\ Status(n) # "failed"
    <3>1. Failing = {}
        BY <1>1, <2>5, NoneFailing
    <3>2. ASSUME NEW c \in Range(Children(Root)) PROVE ~(phase'[c] = "done" /\ outcome'[c] = "failed")
      <4>1. c \in Nodes /\ (c = p => phase[c] # "done")
          BY <1>3, <1>15
      <4>2. ~(phase[c] = "done" /\ outcome[c] = "failed")
          BY <3>1 DEF Failing
      <4>3. CASE c = n
          BY <1>11, <2>5, <4>3
      <4>4. CASE c # n
          BY <1>11, <1>14, <4>1, <4>2, <4>4
      <4> QED
          BY <4>3, <4>4
    <3> QED
        BY <2>1, <3>2
  <2>6. CASE phase[Root] = "executing" /\ n \notin Range(Children(Root))
      BY <1>1, <2>2, <2>6, NoneFailing
  <2> QED
      BY <1>20, <2>3, <2>4, <2>5, <2>6
<1> QED
    BY <1>10, <1>11, <1>12, <1>14, <1>16, <1>17, <1>18, <1>19, <1>21, <1>22

(* What the consumer knows when a step finishes. *)
LEMMA FinishSent ==
    ASSUME TypeOK, NEW n \in Nodes, NEW status,
           IF Announced(n) THEN Consume(Event("step_finished", n, status))
           ELSE UNCHANGED report
    PROVE  /\ opened' \in [Nodes -> Int]
           /\ opened'[n] = IF Announced(n) THEN opened[n] - 1 ELSE opened[n]
           /\ \A m \in Nodes \ {n} : opened'[m] = opened[m]
           /\ depth' = IF Announced(n) /\ Kind(n) = "workflow" /\ ~json /\ depth > 0
                       THEN depth - 1 ELSE depth
           /\ failedStep' = IF Announced(n) /\ status = "failed" THEN n ELSE failedStep
           /\ UNCHANGED <<verdicts, failedRun, exit>>
<1>1. opened \in [Nodes -> Int]
    BY DEF TypeOK
<1>2. CASE Announced(n)
  <2> DEFINE e == Event("step_finished", n, status)
  <2>1. e.type = "step_finished" /\ e.node = n /\ e.status = status
      BY DEF Event
  <2>2. Consume(e)
      BY <1>2
  <2> HIDE DEF e
  <2>3. /\ opened' = [opened EXCEPT ![n] = @ - 1]
        /\ UNCHANGED <<verdicts, exit>>
        /\ failedStep' = IF status = "failed" THEN n ELSE failedStep
      BY <2>1, <2>2 DEF Consume, Starts, FailedStepAfter
  <2>4. failedRun' = failedRun
      BY <2>1, <2>2 DEF Consume, TypeOK
  <2>5. depth' = IF Kind(n) = "workflow" /\ ~json /\ depth > 0 THEN depth - 1 ELSE depth
      BY <2>1, <2>2 DEF Consume, DepthAfter
  <2> QED
      BY <1>1, <1>2, <2>3, <2>4, <2>5
<1>3. CASE ~Announced(n)
  <2>1. UNCHANGED <<depth, failedStep, failedRun, exit, opened, verdicts>>
      BY <1>3 DEF report, seen
  <2> QED
      BY <1>1, <1>3, <2>1
<1> QED
    BY <1>2, <1>3

LEMMA FinishStep ==
    ASSUME IInv, NEW n \in Nodes, Finish(n)
    PROVE  IInv'
<1>1. /\ TypeOK /\ Placed /\ Opens /\ Reports /\ Verdicts
      /\ project \in Projects /\ exit = "no" /\ service = "running"
      /\ UNCHANGED <<project, json, run, service>>
      /\ phase[n] = "ending" /\ Parent(n) # 0 /\ Return(n)
    BY DEF IInv, Going, TypeOK, Finish, Running
<1>2. Active(n) /\ n # Root
    BY <1>1, RootFacts DEF Active
<1>3. /\ phase' \in [Nodes -> {"idle", "executing", "handling", "ending", "done"}]
      /\ outcome' \in [Nodes -> Outcomes]
      /\ at' \in [Nodes -> Nat]
      /\ \A m \in Nodes :
            at'[m] <= IF Kind(m) = "retry" THEN MaxAttempts
                      ELSE Len(Children(m)) + Len(Handlers(m))
      /\ \A m \in Nodes : Active(m)' <=> Active(m) /\ m # n
      /\ Placed' /\ Counted' /\ RootSteps' /\ RootEnds'
      /\ \/ Failing' = {}
         \/ phase[Root] = "executing" /\ n \in Failing' /\ Announced(n) /\ Status(n) = "failed"
         \/ phase[Root] = "handling" /\ Failing' = Failing
    BY <1>1, ReturnWork
<1>4. /\ Nodes' = Nodes /\ Root' = Root /\ Above' = Above
      /\ \A m : /\ Announced(m)' = Announced(m)
                /\ Kind(m)' = Kind(m) /\ Parent(m)' = Parent(m)
                /\ Children(m)' = Children(m) /\ Handlers(m)' = Handlers(m)
    BY <1>1, SameProject
<1>5. CASE Announced(n) /\ GiveUp
  <2>1. TypeOK'
      BY <1>1, <1>3, <1>4, <1>5 DEF TypeOK, GiveUp, seen
  <2> QED
      BY <1>1, <1>5, <2>1, GiveUpStep
<1>6. CASE IF Announced(n) THEN Consume(Event("step_finished", n, Status(n)))
           ELSE UNCHANGED report
  <2>1. /\ opened' \in [Nodes -> Int]
        /\ opened'[n] = IF Announced(n) THEN opened[n] - 1 ELSE opened[n]
        /\ \A m \in Nodes \ {n} : opened'[m] = opened[m]
        /\ depth' = IF Announced(n) /\ Kind(n) = "workflow" /\ ~json /\ depth > 0
                    THEN depth - 1 ELSE depth
        /\ failedStep' = IF Announced(n) /\ Status(n) = "failed" THEN n ELSE failedStep
        /\ UNCHANGED <<verdicts, failedRun, exit>>
      BY <1>1, <1>6, FinishSent
  <2>2. depth' \in Nat /\ failedStep' \in {0} \cup Nodes
    <3>1. depth \in Nat /\ failedStep \in {0} \cup Nodes
        BY <1>1 DEF TypeOK
    <3> QED
        BY <2>1, <3>1
  <2>3. TypeOK'
      BY <1>1, <1>3, <1>4, <2>1, <2>2 DEF TypeOK
  <2>4. opened[n] = IF Announced(n) THEN 1 ELSE 0
      BY <1>1, <1>2 DEF Opens
  <2>5. Opens'
    <3>1. ASSUME NEW m \in Nodes
          PROVE  opened'[m] = IF Active(m)' /\ (Announced(m) \/ Parent(m) = 0) THEN 1 ELSE 0
      <4>1. CASE m = n
          BY <1>3, <2>1, <2>4, <4>1
      <4>2. CASE m # n
          BY <1>1, <1>3, <2>1, <4>2 DEF Opens
      <4> QED
          BY <4>1, <4>2
    <3> QED
        BY <1>4, <3>1 DEF Opens
  <2>6. StepsNest'
      BY <1>3, <2>3, <2>5, NestFollowsNext
  <2>7. Depths'
    <3>1. OpenWorkflows' = OpenWorkflows \ {n}
      <4>1. Announced(n) => opened'[n] # 1
          BY <2>1, <2>4
      <4> QED
          BY <1>4, <2>1, <4>1 DEF OpenWorkflows
    <3>2. n \in OpenWorkflows <=> Announced(n) /\ Kind(n) = "workflow"
        BY <2>4 DEF OpenWorkflows
    <3>3. IsFiniteSet(OpenWorkflows) /\ Cardinality(OpenWorkflows) \in Nat
      <4>1. OpenWorkflows \subseteq Nodes
          BY DEF OpenWorkflows
      <4> QED
          BY <1>1, <4>1, TreeFacts, FS_Subset, FS_CardinalityType
    <3>4. ~json => depth = Cardinality(OpenWorkflows)
        BY <1>1 DEF IInv, Depths
    <3>5. CASE n \in OpenWorkflows
      <4>1. Cardinality(OpenWorkflows \ {n}) = Cardinality(OpenWorkflows) - 1
          BY <3>3, <3>5, FS_RemoveElement
      <4>2. Cardinality(OpenWorkflows) > 0
          BY <3>3, <3>5, FS_EmptySet
      <4> QED
          BY <1>1, <2>1, <3>1, <3>2, <3>4, <3>5, <4>1, <4>2 DEF Depths
    <3>6. CASE n \notin OpenWorkflows
      <4>1. OpenWorkflows \ {n} = OpenWorkflows
          BY <3>6
      <4> QED
          BY <1>1, <2>1, <3>1, <3>2, <3>4, <3>6, <4>1 DEF Depths
    <3> QED
        BY <3>5, <3>6
  <2>8. Reports'
    <3>1. CASE Failing' = {}
        BY <3>1 DEF Reports
    <3>2. CASE phase[Root] = "executing" /\ n \in Failing' /\ Announced(n) /\ Status(n) = "failed"
        BY <2>1, <3>2 DEF Reports
    <3>3. CASE phase[Root] = "handling" /\ Failing' = Failing /\ Failing # {}
      <4>1. \/ failedStep \in Failing
            \/ \E h \in Range(Handlers(Root)) : failedStep \in Nodes /\ h \in Above[failedStep]
          BY <1>1, <3>3 DEF Reports
      <4>2. ASSUME Announced(n) PROVE \E h \in Range(Handlers(Root)) : h \in Above[n]
        <5>1. PICK h \in Range(Handlers(Root)) : h = n \/ h \in Above[n]
            BY <1>1, <1>2, <3>3, BelowHandler
        <5>2. h # n
          <6>1. n \in Range(Children(Parent(n)))
              BY <4>2 DEF Announced
          <6>2. /\ \A c \in Range(Handlers(Root)) : c \notin Range(Children(Root))
                /\ \A c \in Nodes : c \in Range(Handlers(Root)) => Parent(c) = Root
              BY <1>1, RootFacts, ListFacts
          <6> QED
              BY <6>1, <6>2
        <5> QED
            BY <5>1, <5>2
      <4>3. \/ failedStep' \in Failing
            \/ \E h \in Range(Handlers(Root)) : failedStep' \in Nodes /\ h \in Above[failedStep']
        <5>1. CASE Announced(n) /\ Status(n) = "failed"
            BY <2>1, <4>2, <5>1
        <5>2. CASE ~(Announced(n) /\ Status(n) = "failed")
            BY <2>1, <4>1, <5>2
        <5> QED
            BY <5>1, <5>2
      <4> QED
          BY <1>4, <3>3, <4>3 DEF Reports
    <3> QED
        BY <1>3, <3>1, <3>2, <3>3
  <2>9. Verdicts' /\ Told'
      BY <1>1, <2>1 DEF IInv, Verdicts, Told
  <2> QED
      BY <1>3, <2>3, <2>5, <2>6, <2>7, <2>8, <2>9 DEF IInv, Going
<1> QED
    BY <1>5, <1>6 DEF Finish, Send

----------------------------------------------------------------------------
(* The service and the CLI. *)

(* Between two runs nothing is active. *)
LEMMA BetweenRuns ==
    ASSUME TypeOK, Opens, \A n \in Nodes : ~Active(n),
           UNCHANGED <<project, phase, at, opened>>, service' # "running", Root' \in Nodes
    PROVE  Placed' /\ Counted' /\ Opens' /\ phase'[Root'] # "executing" /\ phase'[Root'] # "ending"
<1>1. /\ Nodes' = Nodes
      /\ \A n : /\ Announced(n)' = Announced(n)
                /\ Kind(n)' = Kind(n) /\ Parent(n)' = Parent(n)
                /\ Children(n)' = Children(n) /\ Handlers(n)' = Handlers(n)
    BY SameProject
<1>2. \A n \in Nodes : ~Active(n)' /\ phase'[n] \notin {"executing", "handling", "ending"}
    BY DEF Active
<1>3. ~Active(Root)'
    BY <1>2 DEF Active
<1> QED
    BY <1>1, <1>2, <1>3 DEF Placed, Counted, Opens

LEMMA AnnounceRunStep == ASSUME IInv, AnnounceRun PROVE IInv'
<1>1. /\ TypeOK /\ Placed /\ Opens /\ Verdicts
      /\ project \in Projects /\ exit = "no" /\ service = "opening" /\ service' = "running"
      /\ UNCHANGED <<project, json, run>> /\ Begin(Root)
    BY DEF IInv, Going, TypeOK, AnnounceRun
<1>2. \A n \in Nodes : ~Active(n)
    BY <1>1, NoneActive
<1>3. Root \in Nodes /\ Parent(Root) = 0
    BY <1>1, RootFacts
<1>4. /\ phase' \in [Nodes -> {"idle", "executing", "handling", "ending", "done"}]
      /\ outcome' \in [Nodes -> Outcomes]
      /\ at' \in [Nodes -> Nat]
      /\ \A m \in Nodes : at'[m] <= at[m]
      /\ \A m \in Nodes : Active(m)' <=> Active(m) \/ m = Root
      /\ Placed' /\ Counted' /\ RootSteps' /\ RootEnds'
      /\ Failing' = {}
  <2> PICK n \in Nodes : n = Root
      BY <1>3
  <2>1. ~Active(n) /\ Begin(n)
      BY <1>1, <1>2
  <2> QED
      BY <1>1, <2>1, BeginWork
<1>5. /\ Nodes' = Nodes /\ Root' = Root
      /\ \A m : /\ Announced(m)' = Announced(m)
                /\ Kind(m)' = Kind(m) /\ Parent(m)' = Parent(m)
                /\ Children(m)' = Children(m) /\ Handlers(m)' = Handlers(m)
    BY <1>1, SameProject
<1>6. \A m \in Nodes :
         at'[m] <= IF Kind(m) = "retry" THEN MaxAttempts ELSE Len(Children(m)) + Len(Handlers(m))
  <2> SUFFICES ASSUME NEW m \in Nodes
               PROVE  at'[m] <= IF Kind(m) = "retry" THEN MaxAttempts
                                ELSE Len(Children(m)) + Len(Handlers(m))
      OBVIOUS
  <2>1. /\ at'[m] \in Nat /\ at[m] \in Nat /\ at'[m] <= at[m]
        /\ MaxAttempts \in Nat /\ Len(Children(m)) \in Nat /\ Len(Handlers(m)) \in Nat
      BY <1>1, <1>4, ListFacts, AttemptsAssumption DEF TypeOK
  <2>2. at[m] <= IF Kind(m) = "retry" THEN MaxAttempts ELSE Len(Children(m)) + Len(Handlers(m))
      BY <1>1 DEF TypeOK
  <2> QED
      BY <2>1, <2>2
<1>7. CASE GiveUp
  <2>1. TypeOK'
      BY <1>1, <1>4, <1>5, <1>6, <1>7 DEF TypeOK, GiveUp, seen
  <2> QED
      BY <1>1, <1>7, <2>1, GiveUpStep
<1>8. CASE Consume(Event("workflow_started", Root, "running"))
  <2> PICK n \in Nodes : n = Root
      BY <1>3
  <2> DEFINE e == Event("workflow_started", n, "running")
  <2>1. e.type = "workflow_started" /\ e.node = n
      BY DEF Event
  <2>2. Consume(e)
      BY <1>8
  <2> HIDE DEF e
  <2>3. opened \in [Nodes -> Int] /\ opened[n] = 0
      BY <1>1, <1>2 DEF TypeOK, Opens
  <2>4. /\ opened' = [opened EXCEPT ![n] = @ + 1]
        /\ UNCHANGED <<verdicts, failedStep, exit, depth>>
      BY <2>1, <2>2 DEF Consume, Starts, FailedStepAfter, DepthAfter
  <2>5. failedRun' = failedRun
      BY <1>1, <2>1, <2>2 DEF Consume, TypeOK
  <2>6. /\ opened' \in [Nodes -> Int] /\ opened'[n] = 1
        /\ \A m \in Nodes \ {n} : opened'[m] = opened[m]
      BY <2>3, <2>4
  <2>7. TypeOK'
      BY <1>1, <1>4, <1>5, <1>6, <2>4, <2>5, <2>6 DEF TypeOK
  <2>8. Opens'
    <3>1. ASSUME NEW m \in Nodes
          PROVE  opened'[m] = IF Active(m)' /\ (Announced(m) \/ Parent(m) = 0) THEN 1 ELSE 0
      <4>1. CASE m = n
          BY <1>3, <1>4, <2>6, <4>1
      <4>2. CASE m # n
          BY <1>1, <1>4, <2>6, <4>2 DEF Opens
      <4> QED
          BY <4>1, <4>2
    <3> QED
        BY <1>5, <3>1 DEF Opens
  <2>9. StepsNest'
      BY <1>4, <2>7, <2>8, NestFollowsNext
  <2>10. Depths'
    <3>1. OpenWorkflows' = {}
      <4>1. ASSUME NEW m \in Nodes, Announced(m) PROVE opened'[m] # 1
        <5>1. m # n
            BY <1>3, <4>1 DEF Announced
        <5> QED
            BY <1>1, <1>2, <2>6, <5>1 DEF Opens
      <4> QED
          BY <1>5, <4>1 DEF OpenWorkflows
    <3>2. ~json => depth = 0
        BY <1>1 DEF IInv, Depths
    <3> QED
        BY <1>1, <2>4, <3>1, <3>2, FS_EmptySet DEF Depths
  <2>11. Reports'
      BY <1>4 DEF Reports
  <2>12. Verdicts' /\ Told'
      BY <1>1, <2>4, <2>5 DEF IInv, Verdicts, Told
  <2> QED
      BY <1>4, <2>7, <2>8, <2>9, <2>10, <2>11, <2>12 DEF IInv, Going
<1> QED
    BY <1>7, <1>8 DEF AnnounceRun, Send

LEMMA FinishRunStep == ASSUME IInv, FinishRun PROVE IInv'
<1>1. /\ TypeOK /\ Placed /\ RootEnds /\ Opens /\ Reports /\ Verdicts
      /\ project \in Projects /\ exit = "no" /\ service = "running" /\ service' = "closed"
      /\ UNCHANGED <<project, json, run, outcome, at>>
      /\ phase[Root] = "ending" /\ phase' = [phase EXCEPT ![Root] = "done"]
    BY DEF IInv, Going, TypeOK, FinishRun, Running
<1>2. /\ Root \in Nodes /\ Parent(Root) = 0
      /\ \A c \in Range(Children(Root)) : c \in Nodes /\ Parent(c) = Root
      /\ run \in Nat \ {0}
    BY <1>1, RootFacts, ListFacts
<1>3. /\ \A c \in Range(Children(Root)) : c \in Nodes \ {Root}
      /\ \A n \in Nodes \ {Root} : ~Active(n)
    BY <1>1, <1>2, RootRuns, TreeFacts
<1>4. /\ phase' \in [Nodes -> {"idle", "executing", "handling", "ending", "done"}]
      /\ phase'[Root] = "done"
      /\ \A n \in Nodes \ {Root} : phase'[n] = phase[n]
    BY <1>1, <1>2 DEF TypeOK
<1>5. \A n \in Nodes : ~Active(n)' /\ phase'[n] \notin {"executing", "handling", "ending"}
    BY <1>3, <1>4 DEF Active
<1>6. /\ Nodes' = Nodes /\ Root' = Root /\ Above' = Above
      /\ \A m : /\ Announced(m)' = Announced(m)
                /\ Kind(m)' = Kind(m) /\ Parent(m)' = Parent(m)
                /\ Children(m)' = Children(m) /\ Handlers(m)' = Handlers(m)
    BY <1>1, SameProject
<1>7. CASE GiveUp
  <2>1. TypeOK'
      BY <1>1, <1>4, <1>6, <1>7 DEF TypeOK, GiveUp, seen
  <2> QED
      BY <1>1, <1>7, <2>1, GiveUpStep
<1>8. CASE Consume(Event("workflow_finished", Root, outcome[Root]))
  <2> PICK n \in Nodes : n = Root
      BY <1>2
  <2> DEFINE e == Event("workflow_finished", n, outcome[n])
  <2>1. e.type = "workflow_finished" /\ e.node = n /\ e.status = outcome[n]
      BY DEF Event
  <2>2. Consume(e)
      BY <1>8
  <2> HIDE DEF e
  <2>3. opened \in [Nodes -> Int] /\ opened[n] = 1
      BY <1>1, <1>2 DEF TypeOK, Opens, Active
  <2>4. /\ opened' = [opened EXCEPT ![n] = @ - 1]
        /\ verdicts' = Append(verdicts, outcome[Root])
        /\ UNCHANGED <<exit, depth>>
        /\ failedRun' = (failedRun \/ outcome[Root] = "failed")
      BY <2>1, <2>2 DEF Consume, Starts, DepthAfter
  <2>5. failedStep' = failedStep
      BY <2>1, <2>2 DEF Consume, FailedStepAfter
  <2>6. /\ opened' \in [Nodes -> Int] /\ opened'[n] = 0
        /\ \A m \in Nodes \ {n} : opened'[m] = opened[m]
      BY <2>3, <2>4
  <2>7. /\ verdicts \in Seq(Outcomes) /\ outcome[Root] \in Outcomes
        /\ Len(verdicts) = run - 1
      BY <1>1, <1>2 DEF TypeOK, Verdicts
  <2>8. /\ verdicts' \in Seq(Outcomes) /\ Len(verdicts') = run
        /\ verdicts'[run] = outcome[Root]
        /\ \A i \in 1..run - 1 : verdicts'[i] = verdicts[i]
    <3>1. /\ verdicts' \in Seq(Outcomes) /\ Len(verdicts') = Len(verdicts) + 1
          /\ verdicts'[Len(verdicts) + 1] = outcome[Root]
          /\ \A i \in 1..Len(verdicts) : verdicts'[i] = verdicts[i]
        BY <2>4, <2>7, AppendProperties
    <3>2. Len(verdicts) + 1 = run
        BY <1>2, <2>7
    <3> QED
        BY <2>7, <3>1, <3>2
  <2>9. failedRun' \in BOOLEAN
      BY <2>4
  <2>10. TypeOK'
      BY <1>1, <1>4, <1>6, <2>4, <2>5, <2>6, <2>8, <2>9 DEF TypeOK
  <2>11. Placed' /\ Counted' /\ RootSteps'
      BY <1>1, <1>4, <1>5, <1>6 DEF Placed, Counted, RootSteps, Active
  <2>12. RootEnds'
      BY <1>1, <1>3, <1>4, <1>6 DEF RootEnds
  <2>13. Opens'
    <3>1. ASSUME NEW m \in Nodes PROVE opened'[m] = 0
      <4>1. CASE m = n
          BY <2>6, <4>1
      <4>2. CASE m # n
          BY <1>1, <1>3, <2>6, <4>2 DEF Opens
      <4> QED
          BY <4>1, <4>2
    <3> QED
        BY <1>5, <1>6, <3>1 DEF Opens
  <2>14. StepsNest'
      BY <2>10, <2>11, <2>13, NestFollowsNext
  <2>15. Depths'
    <3>1. OpenWorkflows' = OpenWorkflows
      <4>1. ~Announced(n)
          BY <1>2 DEF Announced
      <4> QED
          BY <1>6, <2>6, <4>1 DEF OpenWorkflows
    <3> QED
        BY <1>1, <2>4, <3>1 DEF IInv, Depths
  <2>16. Reports'
    <3>1. Failing' = Failing
        BY <1>1, <1>3, <1>4, <1>6 DEF Failing
    <3> QED
        BY <1>1, <1>6, <2>5, <3>1 DEF Reports
  <2>17. Verdicts' /\ Told'
    <3>1. ~failedRun /\ \A i \in 1..run - 1 : verdicts[i] = "ok"
        BY <1>1 DEF Verdicts
    <3>2. Verdicts'
        BY <1>1, <1>6, <2>4, <2>8, <3>1 DEF Verdicts
    <3>3. ASSUME NEW i \in 1..Len(verdicts') PROVE verdicts'[i] = "ok" \/ i = run
      <4>1. i \in 1..run - 1 \/ i = run
          BY <1>2, <2>8
      <4> QED
          BY <2>8, <3>1, <4>1
    <3> QED
        BY <1>1, <2>4, <3>2, <3>3 DEF Told
  <2> QED
      BY <2>10, <2>11, <2>12, <2>13, <2>14, <2>15, <2>16, <2>17 DEF IInv, Going
<1> QED
    BY <1>7, <1>8 DEF FinishRun, Send

LEMMA NextRunStep == ASSUME IInv, NextRun PROVE IInv'
<1>1. /\ TypeOK /\ Placed /\ RootEnds /\ Opens /\ Verdicts /\ Told
      /\ project \in Projects /\ exit = "no" /\ service = "closed"
      /\ UNCHANGED <<project, json, phase, outcome, at, opened, verdicts>>
    BY DEF IInv, Going, TypeOK, NextRun, work, seen
<1>2. /\ Nodes' = Nodes /\ Above' = Above
      /\ \A m : /\ Announced(m)' = Announced(m)
                /\ Kind(m)' = Kind(m) /\ Parent(m)' = Parent(m)
                /\ Children(m)' = Children(m) /\ Handlers(m)' = Handlers(m)
    BY <1>1, SameProject
<1>3. StepsNest'
    BY <1>1, <1>2 DEF IInv, StepsNest
<1>4. /\ run \in Nat \ {0} /\ Len(project.runs) \in Nat /\ run \in 1..Len(project.runs)
      /\ project.runs \in Seq(Nodes)
    BY <1>1, RootFacts, TreeFacts DEF TypeOK
<1>5. /\ Len(verdicts) = run
      /\ \A i \in 1..run - 1 : verdicts[i] = "ok"
      /\ ~failedRun => verdicts[run] = "ok"
    BY <1>1 DEF Verdicts, RootEnds
<1>6. CASE ~failedRun /\ run < Len(project.runs)
  <2>1. /\ run' = run + 1 /\ service' = "idle" /\ exit' = "no"
        /\ depth' = 0 /\ failedStep' = 0 /\ failedRun' = FALSE
      BY <1>1, <1>6 DEF NextRun
  <2>2. run' \in 1..Len(project.runs)
      BY <1>4, <1>6, <2>1
  <2>3. Root' \in Nodes
      BY <1>1, <1>4, <2>2, ElementOfSeq DEF Root
  <2>4. TypeOK'
      BY <1>1, <1>2, <2>1, <2>2 DEF TypeOK
  <2>5. Placed' /\ Counted' /\ Opens' /\ phase'[Root'] # "executing"
      BY <1>1, <2>1, <2>3, NoneActive, BetweenRuns
  <2>6. RootSteps' /\ RootEnds' /\ Reports' /\ Depths'
      BY <2>1, <2>5 DEF RootSteps, RootEnds, Reports, Depths
  <2>7. \A i \in 1..run : verdicts[i] = "ok"
      BY <1>4, <1>5, <1>6
  <2>8. Verdicts' /\ Told'
      BY <1>1, <1>4, <1>5, <2>1, <2>7 DEF Verdicts, Told
  <2> QED
      BY <1>3, <2>4, <2>5, <2>6, <2>8 DEF IInv, Going
<1>7. CASE ~(~failedRun /\ run < Len(project.runs))
  <2>1. /\ exit' = (IF failedRun THEN "error" ELSE "ok")
        /\ UNCHANGED <<run, service, depth, failedStep, failedRun>>
      BY <1>7 DEF NextRun
  <2>2. TypeOK'
      BY <1>1, <1>2, <2>1 DEF TypeOK
  <2>3. Depths'
    <3>1. OpenWorkflows' = OpenWorkflows
        BY <1>1, <1>2 DEF OpenWorkflows
    <3> QED
        BY <1>1, <2>1, <3>1 DEF IInv, Depths
  <2>4. Told'
    <3>1. exit' = "ok" => ~failedRun /\ run = Len(project.runs)
        BY <1>4, <1>7, <2>1
    <3> QED
        BY <1>1, <1>5, <2>1, <3>1 DEF Told
  <2>5. exit' # "no"
      BY <2>1
  <2> QED
      BY <1>3, <2>2, <2>3, <2>4, <2>5 DEF IInv
<1> QED
    BY <1>6, <1>7

LEMMA OpenStep == ASSUME IInv, Open PROVE IInv'
<1>1. /\ TypeOK /\ Placed /\ RootEnds /\ Opens /\ Verdicts /\ Told
      /\ project \in Projects /\ exit = "no" /\ service = "idle" /\ service' = "opening"
      /\ UNCHANGED <<project, json, run, phase, outcome, at, depth, failedStep, failedRun,
                     exit, opened, verdicts>>
    BY DEF IInv, Going, TypeOK, Open, work, report, seen
<1>2. /\ Nodes' = Nodes /\ Above' = Above /\ Root' = Root
      /\ \A m : /\ Announced(m)' = Announced(m)
                /\ Kind(m)' = Kind(m) /\ Parent(m)' = Parent(m)
                /\ Children(m)' = Children(m) /\ Handlers(m)' = Handlers(m)
    BY <1>1, SameProject
<1>3. StepsNest'
    BY <1>1, <1>2 DEF IInv, StepsNest
<1>4. TypeOK'
    BY <1>1, <1>2 DEF TypeOK
<1>5. Placed' /\ Counted' /\ Opens' /\ phase'[Root'] # "executing"
    BY <1>1, <1>2, RootFacts, NoneActive, BetweenRuns
<1>6. RootSteps' /\ RootEnds' /\ Reports' /\ Depths'
    BY <1>1, <1>5 DEF IInv, RootSteps, RootEnds, Reports, Depths
<1>7. Verdicts' /\ Told'
    BY <1>1 DEF Verdicts, Told
<1> QED
    BY <1>3, <1>4, <1>5, <1>6, <1>7 DEF IInv, Going

LEMMA OpenFailsStep == ASSUME IInv, OpenFails PROVE IInv'
<1>1. /\ TypeOK /\ StepsNest /\ Depths /\ Told /\ exit' = "error" /\ service = "idle"
      /\ UNCHANGED <<project, json, run, service, phase, outcome, at, depth, failedStep,
                     failedRun, opened, verdicts>>
    BY DEF IInv, OpenFails, work, seen
<1>2. /\ Nodes' = Nodes /\ Above' = Above
      /\ \A m : /\ Announced(m)' = Announced(m)
                /\ Kind(m)' = Kind(m) /\ Parent(m)' = Parent(m)
                /\ Children(m)' = Children(m) /\ Handlers(m)' = Handlers(m)
    BY <1>1, SameProject
<1>3. TypeOK' /\ StepsNest' /\ Depths' /\ Told'
    BY <1>1, <1>2 DEF TypeOK, StepsNest, Depths, Told
<1> QED
    BY <1>1, <1>3 DEF IInv

LEMMA StutterStep == ASSUME IInv, UNCHANGED vars PROVE IInv'
<1>1. UNCHANGED <<project, json, run, service, phase, outcome, at, depth, failedStep,
                  failedRun, exit, opened, verdicts>>
    BY DEF vars
<1>2. /\ Nodes' = Nodes /\ Above' = Above /\ Root' = Root
      /\ \A m : /\ Announced(m)' = Announced(m)
                /\ Kind(m)' = Kind(m) /\ Parent(m)' = Parent(m)
                /\ Children(m)' = Children(m) /\ Handlers(m)' = Handlers(m)
    BY <1>1, SameProject
<1>3. TypeOK' /\ StepsNest' /\ Told'
    BY <1>1, <1>2 DEF IInv, TypeOK, StepsNest, Told
<1>4. Depths'
  <2>1. OpenWorkflows' = OpenWorkflows
      BY <1>1, <1>2 DEF OpenWorkflows
  <2> QED
      BY <1>1, <2>1 DEF IInv, Depths
<1>5. ASSUME exit = "no" PROVE Going'
  <2>1. Placed /\ Counted /\ RootSteps /\ RootEnds /\ Opens /\ Reports /\ Verdicts
      BY <1>5 DEF IInv, Going
  <2>2. \A n : Active(n)' = Active(n) /\ Asked(n)' = Asked(n)
      BY <1>1 DEF Active, Asked, Kind, Parent, Children, Handlers
  <2>3. Placed'
      BY <1>1, <1>2, <2>1, <2>2 DEF Placed, Active
  <2>4. Counted' /\ Opens'
      BY <1>1, <1>2, <2>1, <2>2 DEF Counted, Done, Opens
  <2>5. RootSteps' /\ RootEnds'
      BY <1>1, <1>2, <2>1 DEF RootSteps, RootEnds
  <2>6. Reports'
    <3>1. Failing' = Failing
        BY <1>1, <1>2 DEF Failing
    <3> QED
        BY <1>1, <1>2, <2>1, <3>1 DEF Reports
  <2>7. Verdicts'
      BY <1>1, <1>2, <2>1 DEF Verdicts
  <2> QED
      BY <2>3, <2>4, <2>5, <2>6, <2>7 DEF Going
<1> QED
    BY <1>1, <1>3, <1>4, <1>5 DEF IInv

----------------------------------------------------------------------------
LEMMA InitIInv == Init => IInv
<1> SUFFICES ASSUME Init PROVE IInv
    OBVIOUS
<1> USE DEF Init
<1>1. project \in Projects /\ project.runs \in Seq(Nodes) /\ project.runs # <<>>
    BY TreeFacts
<1>2. 1 \in 1..Len(project.runs)
  <2>1. Len(project.runs) \in Nat /\ Len(project.runs) # 0
      BY <1>1, LenProperties, EmptySeq
  <2> QED
      BY <2>1
<1>3. \A n \in Nodes : at[n] <= IF Kind(n) = "retry" THEN MaxAttempts
                                ELSE Len(Children(n)) + Len(Handlers(n))
    BY <1>1, ListFacts, AttemptsAssumption
<1>4. verdicts \in Seq(Outcomes) /\ Len(verdicts) = 0
    BY EmptySeq
<1>5. TypeOK
  <2>1. /\ phase \in [Nodes -> {"idle", "executing", "handling", "ending", "done"}]
        /\ outcome \in [Nodes -> Outcomes]
      BY DEF Outcomes
  <2>2. at \in [Nodes -> Nat] /\ opened \in [Nodes -> Int]
      OBVIOUS
  <2>3. run \in 1..Len(project.runs)
      BY <1>2
  <2>4. /\ json \in BOOLEAN /\ failedRun \in BOOLEAN
        /\ service \in {"idle", "opening", "running", "closed"}
        /\ exit \in {"no", "ok", "error"}
        /\ depth \in Nat /\ failedStep \in {0} \cup Nodes
      OBVIOUS
  <2> HIDE DEF Init
  <2> QED
      BY <1>1, <1>3, <1>4, <2>1, <2>2, <2>3, <2>4 DEF TypeOK
<1>6. Root \in Nodes
    BY <1>5, RootFacts
<1>7. \A n \in Nodes : ~Active(n) /\ phase[n] = "idle"
    BY DEF Active
<1>8. Placed /\ Counted /\ RootSteps /\ RootEnds
    BY <1>6, <1>7 DEF Placed, Counted, RootSteps, RootEnds
<1>9. Opens /\ Reports
    BY <1>7 DEF Opens, Reports
<1>10. StepsNest
    BY DEF StepsNest
<1>11. Verdicts /\ Told
    BY <1>4 DEF Verdicts, Told
<1>12. Depths
    BY DEF Depths
<1> QED
    BY <1>5, <1>8, <1>9, <1>10, <1>11, <1>12 DEF IInv, Going

LEMMA NextIInv == IInv /\ [Next]_vars => IInv'
<1> SUFFICES ASSUME IInv, [Next]_vars PROVE IInv'
    OBVIOUS
<1>1. CASE Next
  <2>1. CASE Open
      BY <2>1, OpenStep
  <2>2. CASE OpenFails
      BY <2>2, OpenFailsStep
  <2>3. CASE AnnounceRun
      BY <2>3, AnnounceRunStep
  <2>4. CASE FinishRun
      BY <2>4, FinishRunStep
  <2>5. CASE NextRun
      BY <2>5, NextRunStep
  <2>6. ASSUME NEW n \in Nodes, Start(n) PROVE IInv'
      BY <2>6, StartStep
  <2>7. ASSUME NEW n \in Nodes,
               \/ Skip(n) \/ Answer(n) \/ CutShort(n)
               \/ CompleteWorkflow(n) \/ CompleteRetry(n) \/ CompleteParallel(n)
        PROVE  IInv'
      BY <2>7, QuietStep
  <2>8. ASSUME NEW n \in Nodes, RetryAgain(n) PROVE IInv'
      BY <2>8, RetryStep
  <2>9. ASSUME NEW n \in Nodes, Finish(n) PROVE IInv'
      BY <2>9, FinishStep
  <2>10. CASE Exited
      BY <2>10, StutterStep DEF Exited
  <2> QED
      BY <1>1, <2>1, <2>2, <2>3, <2>4, <2>5, <2>6, <2>7, <2>8, <2>9, <2>10 DEF Next, Progress
<1>2. CASE UNCHANGED vars
    BY <1>2, StutterStep
<1> QED
    BY <1>1, <1>2

(* The inductive invariant: where the active nodes of the project are, what  *)
(* the workflow of the run has done of its steps, and what the consumer has *)
(* been told of them.                                                       *)
THEOREM Invariance == Spec => []IInv
    BY InitIInv, NextIInv, PTL DEF Spec

(* The state of a command keeps its types: no retry makes more attempts     *)
(* than it has and no parallel block counts more branches than it has, for  *)
(* projects of any size.                                                    *)
THEOREM TypeCorrect == Spec => []TypeOK
<1>1. IInv => TypeOK
    BY DEF IInv
<1> QED
    BY <1>1, Invariance, PTL

(* The events of a run are bracketed, however many branches send at once    *)
(* and however deep they are nested, and the renderer's one counter is the  *)
(* number of nested workflows whose start and not whose finish was sent.    *)
THEOREM Bracketed == Spec => []StreamIsBracketed
<1>1. IInv => StreamIsBracketed
    BY DEF IInv, Depths, OpenWorkflows, StreamIsBracketed, DepthIsOpenWorkflows
<1> QED
    BY <1>1, Invariance, PTL

(* The exit status is that of the runs, for any number of workflows: no     *)
(* error means that each ran to its end without a failed step.              *)
THEOREM StatusTrue == Spec => []ExitStatusTellsOutcome
<1>1. ASSUME IInv PROVE ExitStatusTellsOutcome
  <2>1. Told
      BY <1>1 DEF IInv
  <2>2. ASSUME service = "closed", exit = "no"
        PROVE  /\ Len(verdicts) = run
               /\ verdicts[run] = "ok" =>
                     \A n \in Range(Children(Root)) :
                         phase[n] = "done" /\ outcome[n] # "failed"
      BY <1>1, <2>2 DEF IInv, Going, Verdicts, RootEnds
  <2> QED
      BY <2>1, <2>2 DEF Told, ExitStatusTellsOutcome
<1> QED
    BY <1>1, Invariance, PTL

(* A run that a step failed is reported with that step, or with something   *)
(* announced below one of its catch blocks, at whatever depth.              *)
THEOREM FailedStepReported == Spec => []ReportHoldsFailedStep
<1>1. ASSUME IInv PROVE ReportHoldsFailedStep
  <2> SUFFICES ASSUME service = "closed", exit = "no", Failing # {}
               PROVE  /\ failedRun
                      /\ \/ failedStep \in Failing
                         \/ \E h \in Range(Handlers(Root)) : h \in Above[failedStep]
      BY DEF ReportHoldsFailedStep
  <2>1. RootEnds /\ Reports /\ Verdicts
      BY <1>1 DEF IInv, Going
  <2>2. outcome[Root] = "failed"
      BY <2>1 DEF RootEnds, Failing
  <2> QED
      BY <2>1, <2>2 DEF Verdicts, Reports
<1> QED
    BY <1>1, Invariance, PTL

=============================================================================
