----------------------------- MODULE ScopesProofs -----------------------------
(***************************************************************************)
(* Proofs about Scopes, for nests of any depth and blocks with any number  *)
(* of attempts, items or branches.                                         *)
(***************************************************************************)
EXTENDS Scopes, SequenceTheorems, WellFoundedInduction, TLAPS

----------------------------------------------------------------------------
(***************************************************************************)
(* The inductive invariant.  ns is a nest and s a stack of frames: what is *)
(* said of a level holds while the frames up to it stay as they are.       *)
(***************************************************************************)

(* The loops and the retries around level l in its workflow, itself         *)
(* included, and those retries that found an index to bind.                 *)
LoopsAt(ns, l) ==
    {k \in 1..l : /\ ns[k].kind \in {"each", "concurrent"}
                  /\ \A j \in k..l : ns[j].kind # "workflow"}

RetriesAt(ns, l) ==
    {k \in 1..l : ns[k].kind = "retry" /\ \A j \in k..l : ns[j].kind # "workflow"}

BindingAt(ns, l) == {k \in RetriesAt(ns, l) : \E j \in LoopsAt(ns, l) : j < k}

(* The loops outside the first retry that bound an index.                   *)
BoundLoops(ns, l) == {k \in LoopsAt(ns, l) : k < Least(BindingAt(ns, l))}

NowIn(s, k) == <<k, s[k].iter>>

(* An attempt is that of a retry around; a field is that of an item of a    *)
(* loop around that is not later than the current one.                      *)
AttemptOf(s, retries, value) ==
    value # Absent => \E k \in retries : value = NowIn(s, k)

FieldOf(ns, s, loops, value) ==
    value # Absent =>
        \E k \in loops :
           /\ value[1] = k
           /\ value[2] <= s[k].iter
           /\ ns[k].kind = "concurrent" => value = NowIn(s, k)

(* What the blocks up to level l have made of the context that they hand    *)
(* inwards.                                                                 *)
Holds(ns, s, l, context) ==
    /\ context[X] # Absent
    /\ l = 0 => \A r \in DOMAIN context \ {X} : context[r] = Absent
    /\ l # 0 /\ ns[l].kind = "retry" =>
          /\ context[Attempt] = NowIn(s, l)
          /\ \A r \in DOMAIN context \ {X, Attempt} : context[r] = s[l].saved[r]
    /\ LoopsAt(ns, l) = {} => context[Index] = Absent
    /\ LoopsAt(ns, l) # {} =>
          /\ context[Index] = NowIn(s, Greatest(LoopsAt(ns, l)))
          /\ context[Index] # Absent
    /\ context[Index][1] <= l
    /\ AttemptOf(s, RetriesAt(ns, l), context[Attempt])
    /\ RetriesAt(ns, l) # {} /\ (\A k \in l + 1..Len(ns) : ns[k].kind # "retry") =>
          context[Attempt] # Absent
    /\ FieldOf(ns, s, LoopsAt(ns, l), context[Field])

(* What is bound in the configuration of the blocks inside level l.         *)
Bound(ns, s, l, config) ==
    /\ RetriesAt(ns, l) = {} => config[X] = Absent
    /\ RetriesAt(ns, l) # {} =>
          /\ config[X] = s[Least(RetriesAt(ns, l))].saved[X]
          /\ config[X] # Absent
    /\ BindingAt(ns, l) = {} => config[Index] = Absent
    /\ BindingAt(ns, l) # {} =>
          /\ config[Index] = NowIn(s, Greatest(BoundLoops(ns, l)))
          /\ config[Index] # Absent
    /\ config[Index][1] <= l
    /\ AttemptOf(s, RetriesAt(ns, l) \ {l}, config[Attempt])
    /\ FieldOf(ns, s, LoopsAt(ns, l) \ {l}, config[Field])

(* A value of $x at level l: what was assigned inside a branch further in   *)
(* has not got out of it, and what is lost, out of w exports, is nowhere.   *)
Assigned(ns, w, gone, l, value) ==
    /\ (\E k \in l + 1..Len(ns) : ns[k].kind \in {"concurrent", "parallel"}) =>
          value[1] # Len(ns) + 1
    /\ value[1] = Len(ns) + 1 => value[2] \in 1..w \ gone

(* The contexts in force at the levels that wait for one further in ...     *)
Saved ==
    \A l \in 1..Len(stack) :
       /\ Holds(nest, stack, l - 1, stack[l].saved)
       /\ Assigned(nest, writes, lost, l - 1, stack[l].saved[X])

(* ... at the innermost ...                                                 *)
InForce ==
    /\ Holds(nest, stack, Len(stack), contexts[Current])
    /\ Assigned(nest, writes, lost, Len(stack), contexts[Current][X])

(* ... and what the configurations carry.                                   *)
Carried == \A l \in 1..Len(stack) : Bound(nest, stack, l, stack[l].config)

(* How the contexts of the stack follow from each other.                    *)
Chain ==
    /\ \A l \in 1..Len(stack) :
          /\ stack[l].inner = IF Isolated(l) \/ Kind(l) = "workflow" THEN l ELSE stack[l].outer
          /\ stack[l].outer < l
          /\ stack[l].inner # stack[l].outer => contexts[stack[l].outer] = stack[l].saved
          /\ ~Isolated(l) => \A i \in stack[l].over : i < stack[l].iter
          /\ stack[l].since <= writes
          /\ stack[l].saved[X][1] = Depth + 1 => stack[l].saved[X][2] <= stack[l].since
    /\ \A l, m \in 1..Len(stack) : l < m =>
          /\ stack[l].inner <= stack[m].outer
          /\ stack[l].since <= stack[m].since

Succeeded ==
    phase = "ok" /\ (\A l \in 1..Depth : ~Isolated(l)) =>
        contexts[Current][X] = <<Depth + 1, writes>>

IInv ==
    /\ TypeOK
    /\ Chain
    /\ Saved
    /\ InForce
    /\ Carried
    /\ Succeeded
    /\ ReadsNearestScope

----------------------------------------------------------------------------
(* A reference to a built-in is never one to $x or to another built-in.     *)
LEMMA RefFacts ==
    ASSUME nest \in Nests
    PROVE  /\ X \in Refs /\ Attempt \in Refs /\ Index \in Refs /\ Field \in Refs
           /\ X # Attempt /\ X # Index /\ X # Field
           /\ Attempt # Index /\ Attempt # Field /\ Index # Field
           /\ Depth \in Nat
<1>1. nest \in Seq(Wrappers)
    BY NestsAssumption DEF ValidNests
<1>2. Depth \in Nat
    BY <1>1, LenProperties DEF Depth
<1>3. X # Attempt /\ X # Index /\ X # Field
    BY DEF X, Attempt, Index, Field
<1>4. Attempt # Index /\ Attempt # Field /\ Index # Field
    BY DEF Attempt, Index, Field
<1>5. X \in Refs
    BY DEF Refs
<1>6. 0 \in 0..Depth
    BY <1>2
<1>7. Attempt \in Refs /\ Index \in Refs /\ Field \in Refs
    BY <1>6 DEF Refs, Attempt, Index, Field
<1> QED
    BY <1>2, <1>3, <1>4, <1>5, <1>7

----------------------------------------------------------------------------
(* Least and greatest levels. *)
LEMMA LeastNatural ==
    ASSUME NEW S \in SUBSET Nat, S # {}
    PROVE  \E m \in S : \A j \in S : m <= j
<1>1. PICK m \in S : \A j \in Nat : <<j, m>> \in OpToRel(<, Nat) => j \notin S
    BY NatLessThanWellFounded, WFMin
<1>2. ASSUME NEW j \in S PROVE m <= j
  <2>1. m \in Nat /\ j \in Nat
      OBVIOUS
  <2>2. ~(j < m)
      BY <1>1, <2>1 DEF OpToRel
  <2> QED
      BY <2>1, <2>2
<1> QED
    BY <1>2

LEMMA LeastIs ==
    ASSUME NEW S \in SUBSET Nat, NEW m \in S, \A j \in S : m <= j
    PROVE  Least(S) = m
<1>1. \A k \in S : (\A j \in S : k <= j) => k = m
    OBVIOUS
<1> QED
    BY <1>1 DEF Least

LEMMA LeastIn ==
    ASSUME NEW S \in SUBSET Nat, S # {}
    PROVE  Least(S) \in S /\ \A j \in S : Least(S) <= j
BY LeastNatural DEF Least

LEMMA GreatestIs ==
    ASSUME NEW S \in SUBSET Nat, NEW m \in S, \A j \in S : j <= m
    PROVE  Greatest(S) = m
<1>1. \A k \in S : (\A j \in S : j <= k) => k = m
    OBVIOUS
<1> QED
    BY <1>1 DEF Greatest

LEMMA GreatestIn ==
    ASSUME NEW l \in Nat, NEW S \in SUBSET (1..l), S # {}
    PROVE  Greatest(S) \in S /\ \A j \in S : j <= Greatest(S)
<1> DEFINE Bounds == {m \in Nat : \A j \in S : j <= m}
<1>1. l \in Bounds
    OBVIOUS
<1>2. PICK m \in Bounds : \A j \in Bounds : m <= j
  <2>1. Bounds \in SUBSET Nat /\ Bounds # {}
      BY <1>1
  <2> HIDE DEF Bounds
  <2> QED
      BY <2>1, LeastNatural
<1>3. m \in S
  <2>1. SUFFICES ASSUME m \notin S PROVE FALSE
      OBVIOUS
  <2>2. m \in Nat /\ \A j \in S : j <= m
      OBVIOUS
  <2>3. \A j \in S : j \in Nat /\ j # m
      BY <2>1
  <2>4. \A j \in S : j <= m - 1
      BY <2>2, <2>3
  <2>5. m # 0
    <3>1. PICK j \in S : TRUE
        OBVIOUS
    <3>2. j \in Nat /\ 1 <= j /\ j <= m
        BY <2>2
    <3> QED
        BY <2>2, <3>2
  <2>6. m - 1 \in Bounds
      BY <2>2, <2>4, <2>5
  <2> QED
      BY <1>2, <2>2, <2>6
<1>4. S \in SUBSET Nat /\ \A j \in S : j <= m
    OBVIOUS
<1>5. Greatest(S) = m
    BY <1>3, <1>4, GreatestIs
<1> QED
    BY <1>3, <1>4, <1>5

(* Adding a greater member leaves the least one, if there was one.          *)
LEMMA LeastOfMore ==
    ASSUME NEW l \in Nat, NEW S \in SUBSET (1..l)
    PROVE  Least(S \cup {l + 1}) = IF S = {} THEN l + 1 ELSE Least(S)
<1> DEFINE T == S \cup {l + 1}
<1>1. T \in SUBSET Nat /\ S \in SUBSET Nat
    OBVIOUS
<1>2. CASE S = {}
  <2>1. l + 1 \in T /\ \A j \in T : l + 1 <= j
      BY <1>2
  <2>2. Least(T) = l + 1
      BY <1>1, <2>1, LeastIs
  <2> QED
      BY <1>2, <2>2
<1>3. CASE S # {}
  <2>1. PICK m \in S : m = Least(S) /\ \A j \in S : m <= j
      BY <1>1, <1>3, LeastIn
  <2>2. m \in T /\ \A j \in T : m <= j
      BY <2>1
  <2>3. Least(T) = Least(S)
      BY <1>1, <2>1, <2>2, LeastIs
  <2> QED
      BY <1>3, <2>3
<1> QED
    BY <1>2, <1>3

----------------------------------------------------------------------------
(* What is around one level more.                                           *)
LEMMA Ranges ==
    ASSUME NEW ns, NEW l \in Nat
    PROVE  /\ LoopsAt(ns, l) \in SUBSET (1..l)
           /\ RetriesAt(ns, l) \in SUBSET (1..l)
           /\ BindingAt(ns, l) \in SUBSET (1..l)
           /\ BindingAt(ns, l) \subseteq RetriesAt(ns, l)
           /\ BoundLoops(ns, l) \subseteq LoopsAt(ns, l)
BY DEF LoopsAt, RetriesAt, BindingAt, BoundLoops

LEMMA AtRoot ==
    ASSUME NEW ns
    PROVE  LoopsAt(ns, 0) = {} /\ RetriesAt(ns, 0) = {} /\ BindingAt(ns, 0) = {}
BY DEF LoopsAt, RetriesAt, BindingAt

(* No loop is bound from inside the retry that binds.                       *)
LEMMA BoundBefore ==
    ASSUME NEW ns, NEW l \in Nat, BindingAt(ns, l) # {}
    PROVE  /\ Least(BindingAt(ns, l)) \in RetriesAt(ns, l)
           /\ BoundLoops(ns, l) # {}
           /\ Greatest(BoundLoops(ns, l)) \in 1..l - 1
           /\ Greatest(BoundLoops(ns, l)) \in LoopsAt(ns, l)
<1>1. /\ BindingAt(ns, l) \in SUBSET Nat
      /\ BindingAt(ns, l) \subseteq RetriesAt(ns, l)
      /\ LoopsAt(ns, l) \in SUBSET (1..l)
      /\ RetriesAt(ns, l) \in SUBSET (1..l)
    BY Ranges
<1> DEFINE b == Least(BindingAt(ns, l))
<1>2. b \in BindingAt(ns, l)
    BY <1>1, LeastIn
<1>3. PICK j \in LoopsAt(ns, l) : j < b
    BY <1>2 DEF BindingAt
<1>4. j \in BoundLoops(ns, l)
    BY <1>3 DEF BoundLoops
<1>5. BoundLoops(ns, l) \in SUBSET (1..l) /\ BoundLoops(ns, l) # {}
    BY <1>1, <1>4 DEF BoundLoops
<1>6. Greatest(BoundLoops(ns, l)) \in BoundLoops(ns, l)
    BY <1>5, GreatestIn
<1>7. /\ Greatest(BoundLoops(ns, l)) \in LoopsAt(ns, l)
      /\ Greatest(BoundLoops(ns, l)) < b
    BY <1>6 DEF BoundLoops
<1>8. b \in 1..l
    BY <1>1, <1>2
<1>9. Greatest(BoundLoops(ns, l)) \in 1..l - 1
    BY <1>1, <1>7, <1>8
<1> QED
    BY <1>1, <1>2, <1>5, <1>7, <1>9

LEMMA AroundWorkflow ==
    ASSUME NEW ns, NEW l \in Nat \ {0}, ns[l].kind = "workflow"
    PROVE  LoopsAt(ns, l) = {} /\ RetriesAt(ns, l) = {} /\ BindingAt(ns, l) = {}
BY DEF LoopsAt, RetriesAt, BindingAt

LEMMA AroundOther ==
    ASSUME NEW ns, NEW l \in Nat, ns[l + 1].kind # "workflow"
    PROVE  /\ ns[l + 1].kind \in {"each", "concurrent"} =>
                 LoopsAt(ns, l + 1) = LoopsAt(ns, l) \cup {l + 1}
           /\ ns[l + 1].kind \notin {"each", "concurrent"} =>
                 LoopsAt(ns, l + 1) = LoopsAt(ns, l)
           /\ ns[l + 1].kind = "retry" =>
                 RetriesAt(ns, l + 1) = RetriesAt(ns, l) \cup {l + 1}
           /\ ns[l + 1].kind # "retry" => RetriesAt(ns, l + 1) = RetriesAt(ns, l)
<1>1. \A k \in 1..l : (\A j \in k..l + 1 : ns[j].kind # "workflow")
                         <=> (\A j \in k..l : ns[j].kind # "workflow")
  <2> TAKE k \in 1..l
  <2>1. k..l + 1 = (k..l) \cup {l + 1}
      OBVIOUS
  <2> QED
      BY <2>1
<1>2. \A j \in l + 1..l + 1 : ns[j].kind # "workflow"
    OBVIOUS
<1>3. 1..l + 1 = (1..l) \cup {l + 1}
    OBVIOUS
<1>4. LoopsAt(ns, l + 1) =
          {k \in 1..l + 1 : ns[k].kind \in {"each", "concurrent"}
                            /\ (k # l + 1 => \A j \in k..l : ns[j].kind # "workflow")}
    BY <1>1, <1>2, <1>3 DEF LoopsAt
<1>5. RetriesAt(ns, l + 1) =
          {k \in 1..l + 1 : ns[k].kind = "retry"
                            /\ (k # l + 1 => \A j \in k..l : ns[j].kind # "workflow")}
    BY <1>1, <1>2, <1>3 DEF RetriesAt
<1>6. l + 1 \notin 1..l
    OBVIOUS
<1>7. /\ ns[l + 1].kind \in {"each", "concurrent"} =>
                 LoopsAt(ns, l + 1) = LoopsAt(ns, l) \cup {l + 1}
      /\ ns[l + 1].kind \notin {"each", "concurrent"} =>
                 LoopsAt(ns, l + 1) = LoopsAt(ns, l)
    BY <1>3, <1>4, <1>6 DEF LoopsAt
<1>8. /\ ns[l + 1].kind = "retry" =>
                 RetriesAt(ns, l + 1) = RetriesAt(ns, l) \cup {l + 1}
      /\ ns[l + 1].kind # "retry" => RetriesAt(ns, l + 1) = RetriesAt(ns, l)
    BY <1>3, <1>5, <1>6 DEF RetriesAt
<1> QED
    BY <1>7, <1>8

LEMMA BindingOther ==
    ASSUME NEW ns, NEW l \in Nat, ns[l + 1].kind # "workflow"
    PROVE  /\ ns[l + 1].kind = "retry" /\ LoopsAt(ns, l) # {} =>
                 BindingAt(ns, l + 1) = BindingAt(ns, l) \cup {l + 1}
           /\ ns[l + 1].kind # "retry" \/ LoopsAt(ns, l) = {} =>
                 BindingAt(ns, l + 1) = BindingAt(ns, l)
<1>1. /\ LoopsAt(ns, l) \in SUBSET (1..l)
      /\ RetriesAt(ns, l) \in SUBSET (1..l)
    BY Ranges
<1>2. LoopsAt(ns, l) \subseteq LoopsAt(ns, l + 1)
      /\ LoopsAt(ns, l + 1) \subseteq LoopsAt(ns, l) \cup {l + 1}
    BY AroundOther
<1>3. \A k \in RetriesAt(ns, l) :
          (\E j \in LoopsAt(ns, l + 1) : j < k) <=> (\E j \in LoopsAt(ns, l) : j < k)
    BY <1>1, <1>2
<1>4. CASE ns[l + 1].kind # "retry"
  <2>1. RetriesAt(ns, l + 1) = RetriesAt(ns, l)
      BY <1>4, AroundOther
  <2> QED
      BY <1>3, <1>4, <2>1 DEF BindingAt
<1>5. CASE ns[l + 1].kind = "retry"
  <2>1. RetriesAt(ns, l + 1) = RetriesAt(ns, l) \cup {l + 1}
        /\ LoopsAt(ns, l + 1) = LoopsAt(ns, l)
      BY <1>5, AroundOther
  <2>2. (\E j \in LoopsAt(ns, l) : j < l + 1) <=> LoopsAt(ns, l) # {}
      BY <1>1
  <2> QED
      BY <1>3, <1>5, <2>1, <2>2 DEF BindingAt
<1> QED
    BY <1>4, <1>5

(* The loops that are bound stay the same once there are any.               *)
LEMMA BoundLoopsOther ==
    ASSUME NEW ns, NEW l \in Nat, ns[l + 1].kind # "workflow"
    PROVE  /\ BindingAt(ns, l) # {} => BoundLoops(ns, l + 1) = BoundLoops(ns, l)
           /\ BindingAt(ns, l) = {} /\ BindingAt(ns, l + 1) # {} =>
                 /\ ns[l + 1].kind = "retry"
                 /\ LoopsAt(ns, l) # {}
                 /\ BoundLoops(ns, l + 1) = LoopsAt(ns, l)
<1>1. /\ LoopsAt(ns, l) \in SUBSET (1..l)
      /\ BindingAt(ns, l) \in SUBSET (1..l)
      /\ BindingAt(ns, l) \in SUBSET Nat
    BY Ranges
<1>2. ASSUME BindingAt(ns, l) # {}
      PROVE  BoundLoops(ns, l + 1) = BoundLoops(ns, l)
  <2> DEFINE b == Least(BindingAt(ns, l))
  <2>1. Least(BindingAt(ns, l + 1)) = b
      BY <1>1, <1>2, BindingOther, LeastOfMore
  <2>2. b \in 1..l
      BY <1>1, <1>2, LeastIn
  <2>3. ~(l + 1 < b)
      BY <2>2
  <2>4. LoopsAt(ns, l + 1) = LoopsAt(ns, l) \/ LoopsAt(ns, l + 1) = LoopsAt(ns, l) \cup {l + 1}
      BY AroundOther
  <2> HIDE DEF b
  <2>5. {k \in LoopsAt(ns, l + 1) : k < b} = {k \in LoopsAt(ns, l) : k < b}
      BY <2>3, <2>4
  <2> QED
      BY <2>1, <2>5 DEF BoundLoops, b
<1>3. ASSUME BindingAt(ns, l) = {}, BindingAt(ns, l + 1) # {}
      PROVE  /\ ns[l + 1].kind = "retry"
             /\ LoopsAt(ns, l) # {}
             /\ BoundLoops(ns, l + 1) = LoopsAt(ns, l)
  <2>1. ns[l + 1].kind = "retry" /\ LoopsAt(ns, l) # {}
      BY <1>3, BindingOther
  <2>2. BindingAt(ns, l + 1) = {} \cup {l + 1} /\ LoopsAt(ns, l + 1) = LoopsAt(ns, l)
      BY <1>3, <2>1, BindingOther, AroundOther
  <2>3. {} \in SUBSET (1..l)
      OBVIOUS
  <2>4. Least(BindingAt(ns, l + 1)) = l + 1
      BY <2>2, <2>3, LeastOfMore
  <2>5. \A k \in LoopsAt(ns, l) : k < l + 1
      BY <1>1
  <2> QED
      BY <2>1, <2>2, <2>4, <2>5 DEF BoundLoops
<1> QED
    BY <1>2, <1>3

----------------------------------------------------------------------------
(* What is said of a level stays true while the frames up to it stay.       *)
LEMMA HoldsKept ==
    ASSUME NEW ns, NEW s, NEW t, NEW l \in Nat, NEW context,
           \A k \in 1..l : t[k].iter = s[k].iter /\ t[k].saved = s[k].saved,
           Holds(ns, s, l, context)
    PROVE  Holds(ns, t, l, context)
<1>1. LoopsAt(ns, l) \in SUBSET (1..l) /\ RetriesAt(ns, l) \in SUBSET (1..l)
    BY Ranges
<1>2. LoopsAt(ns, l) # {} => Greatest(LoopsAt(ns, l)) \in 1..l
    BY <1>1, GreatestIn
<1>3. l # 0 => l \in 1..l
    OBVIOUS
<1>4. AttemptOf(t, RetriesAt(ns, l), context[Attempt])
    BY <1>1 DEF Holds, AttemptOf, NowIn
<1>5. FieldOf(ns, t, LoopsAt(ns, l), context[Field])
    BY <1>1 DEF Holds, FieldOf, NowIn
<1> QED
    BY <1>2, <1>3, <1>4, <1>5 DEF Holds, NowIn

(* A configuration does not follow the iterations of its own level.         *)
LEMMA BoundKept ==
    ASSUME NEW ns, NEW s, NEW t, NEW l \in Nat, NEW config,
           \A k \in 1..l : t[k].saved = s[k].saved,
           \A k \in 1..l - 1 : t[k].iter = s[k].iter,
           Bound(ns, s, l, config)
    PROVE  Bound(ns, t, l, config)
<1>1. LoopsAt(ns, l) \in SUBSET (1..l) /\ RetriesAt(ns, l) \in SUBSET (1..l)
      /\ RetriesAt(ns, l) \in SUBSET Nat
    BY Ranges
<1>2. RetriesAt(ns, l) # {} => Least(RetriesAt(ns, l)) \in 1..l
    BY <1>1, LeastIn
<1>3. BindingAt(ns, l) # {} => Greatest(BoundLoops(ns, l)) \in 1..l - 1
    BY BoundBefore
<1>4. \A k \in 1..l : k # l => k \in 1..l - 1
    OBVIOUS
<1>5. AttemptOf(t, RetriesAt(ns, l) \ {l}, config[Attempt])
    BY <1>1, <1>4 DEF Bound, AttemptOf, NowIn
<1>6. FieldOf(ns, t, LoopsAt(ns, l) \ {l}, config[Field])
    BY <1>1, <1>4 DEF Bound, FieldOf, NowIn
<1> QED
    BY <1>2, <1>3, <1>5, <1>6 DEF Bound, NowIn

(* A value for $x changes nothing else.                                     *)
LEMMA HoldsAssigned ==
    ASSUME nest \in Nests, NEW s, NEW l \in Nat, NEW context \in Contexts,
           NEW value \in Nat \X Nat, value # Absent,
           Holds(nest, s, l, context)
    PROVE  Holds(nest, s, l, [context EXCEPT ![X] = value])
<1> DEFINE c == [context EXCEPT ![X] = value]
<1>1. c \in Contexts /\ DOMAIN c = DOMAIN context /\ c[X] = value
    BY RefFacts DEF Contexts
<1>2. \A r \in DOMAIN context \ {X} : c[r] = context[r]
    BY DEF Contexts
<1>3. c[Index] = context[Index] /\ c[Attempt] = context[Attempt] /\ c[Field] = context[Field]
    BY <1>2, RefFacts DEF Contexts
<1> HIDE DEF c
<1> QED
    BY <1>1, <1>2, <1>3 DEF Holds

LEMMA ValuesAreNatural ==
    ASSUME nest \in Nests, NEW context \in Contexts, NEW r \in Refs
    PROVE  /\ context[r] \in Nat \X Nat
           /\ context[r][1] \in Nat /\ context[r][2] \in Nat
           /\ DOMAIN context = Refs
BY DEF Contexts

LEMMA InnerTypes ==
    ASSUME nest \in Nests, NEW l \in Nat \ {0}, NEW i \in Nat, NEW config \in Contexts,
           NEW context \in Contexts,
           Kind(l) \in {"retry", "each", "concurrent", "parallel", "workflow"}
    PROVE  Inner(l, i, config, context) \in Contexts
<1>1. <<l, i>> \in Nat \X Nat
    OBVIOUS
<1>2. CASE Kind(l) = "retry"
    BY <1>1, <1>2, RefFacts DEF Inner, Contexts
<1>3. CASE Kind(l) \in {"each", "concurrent"}
  <2>1. Inner(l, i, config, context) = SetLoopBuiltins(context, l, i)
      BY <1>3 DEF Inner
  <2> QED
      BY <1>1, <2>1, RefFacts DEF SetLoopBuiltins, Contexts
<1>4. CASE Kind(l) = "parallel"
    BY <1>4 DEF Inner
<1>5. CASE Kind(l) = "workflow"
  <2>1. Inner(l, i, config, context) = Child(config, context)
      BY <1>5 DEF Inner
  <2>2. Absent \in Nat \X Nat /\ Text \in Nat \X Nat
      BY DEF Absent, Text
  <2>3. Resolve(config, context)[Index] \in Nat \X Nat
      BY RefFacts DEF Resolve, Contexts
  <2>4. ASSUME NEW r \in Refs, r # X, r[2] > 0
        PROVE  context[<<r[1], r[2] - 1>>] \in Nat \X Nat
    <3>1. r \in {"Retry.Attempt", "Each.Index", "Each.Item.field"} \X (0..Depth)
        BY <2>4 DEF Refs
    <3>2. r[1] \in {"Retry.Attempt", "Each.Index", "Each.Item.field"} /\ r[2] \in 0..Depth
        BY <3>1
    <3>3. r[2] - 1 \in 0..Depth
        BY <2>4, <3>2, RefFacts
    <3>4. <<r[1], r[2] - 1>> \in Refs
        BY <3>2, <3>3 DEF Refs
    <3> QED
        BY <3>4 DEF Contexts
  <2>5. Child(config, context) \in [Refs -> Nat \X Nat]
      BY <2>2, <2>3, <2>4 DEF Child
  <2> QED
      BY <2>1, <2>5 DEF Contexts
<1> QED
    BY <1>2, <1>3, <1>4, <1>5

(* What each kind of block changes of the context it is given.              *)
LEMMA InnerValues ==
    ASSUME nest \in Nests, NEW l \in Nat \ {0}, NEW i \in Nat, NEW config \in Contexts,
           NEW context \in Contexts
    PROVE  LET c == Inner(l, i, config, context)
           IN  /\ Kind(l) = "retry" =>
                     /\ c[Attempt] = <<l, i>>
                     /\ \A r \in Refs \ {Attempt} : c[r] = context[r]
               /\ Kind(l) \in {"each", "concurrent"} =>
                     /\ c[Index] = <<l, i>>
                     /\ c[Field] \in {<<l, i>>, context[Field]}
                     /\ \A r \in Refs \ {Index, Field} : c[r] = context[r]
               /\ Kind(l) = "parallel" => c = context
               /\ Kind(l) = "workflow" =>
                     /\ c[Attempt] = Absent /\ c[Index] = Absent /\ c[Field] = Absent
                     /\ c[X] \in {Text, config[Index], context[Index]} \ {Absent}
<1>1. CASE Kind(l) = "retry"
    BY <1>1, RefFacts DEF Inner, Contexts
<1>2. CASE Kind(l) \in {"each", "concurrent"}
  <2>1. Inner(l, i, config, context) = SetLoopBuiltins(context, l, i)
      BY <1>2 DEF Inner
  <2> QED
      BY <1>2, <2>1, RefFacts DEF SetLoopBuiltins, Contexts
<1>3. CASE Kind(l) = "parallel"
    BY <1>3 DEF Inner
<1>4. CASE Kind(l) = "workflow"
  <2>1. Inner(l, i, config, context) = Child(config, context)
      BY <1>4 DEF Inner
  <2>2. Attempt[2] = 0 /\ Index[2] = 0 /\ Field[2] = 0
      BY DEF Attempt, Index, Field
  <2>3. \A r \in {Attempt, Index, Field} : Child(config, context)[r] = Absent
      BY <2>2, RefFacts DEF Child
  <2>4. Text # Absent
      BY DEF Text, Absent
  <2>5. Resolve(config, context)[Index] \in {config[Index], context[Index]}
      BY RefFacts DEF Resolve
  <2>6. Child(config, context)[X] \in {Text, config[Index], context[Index]} \ {Absent}
      BY <2>4, <2>5, RefFacts DEF Child
  <2> QED
      BY <1>4, <2>1, <2>3, <2>6
<1> QED
    BY <1>1, <1>2, <1>3, <1>4

----------------------------------------------------------------------------
(* What holds of a context holds of the one that the next block inwards, on *)
(* its iteration i, makes of it.                                            *)
LEMMA EnterHolds ==
    ASSUME nest \in Nests, NEW l \in Nat, NEW s, NEW t, NEW i \in Nat \ {0},
           NEW config \in Contexts, NEW context \in Contexts,
           Kind(l + 1) \in {"retry", "each", "concurrent", "parallel", "workflow"},
           \A k \in 1..l : t[k].iter = s[k].iter /\ t[k].saved = s[k].saved,
           t[l + 1].iter = i, t[l + 1].saved = context,
           Holds(nest, s, l, context)
    PROVE  Holds(nest, t, l + 1, Inner(l + 1, i, config, context))
<1> DEFINE m == l + 1
           c == Inner(m, i, config, context)
<1> SUFFICES Holds(nest, t, m, c)
    OBVIOUS
<1>1. Holds(nest, t, l, context)
    BY HoldsKept
<1>2. c \in Contexts /\ DOMAIN c = Refs /\ DOMAIN context = Refs
    BY InnerTypes DEF Contexts
<1>3. m \in Nat \ {0} /\ ~(m = 0)
    OBVIOUS
<1>4. <<m, i>> # Absent /\ NowIn(t, m) = <<m, i>> /\ <<m, i>>[1] = m /\ <<m, i>>[2] = i
    BY DEF Absent, NowIn
<1>5. /\ LoopsAt(nest, l) \in SUBSET (1..l) /\ RetriesAt(nest, l) \in SUBSET (1..l)
      /\ LoopsAt(nest, m) \in SUBSET Nat
    BY Ranges
<1>6. context[Index][1] \in Nat
    BY RefFacts, ValuesAreNatural
<1>7. nest[m].kind = Kind(m)
    BY DEF Kind
<1>8. (\A k \in m + 1..Len(nest) : nest[k].kind # "retry") /\ Kind(m) # "retry"
          => \A k \in l + 1..Len(nest) : nest[k].kind # "retry"
  <2>1. \A k \in l + 1..Len(nest) : k = m \/ k \in m + 1..Len(nest)
      BY RefFacts DEF Depth
  <2> QED
      BY <1>7, <2>1
<1> HIDE DEF m, c
<1>9. CASE Kind(m) = "retry"
  <2>1. c[Attempt] = <<m, i>> /\ \A r \in Refs \ {Attempt} : c[r] = context[r]
      BY <1>3, <1>9, InnerValues DEF c
  <2>2. LoopsAt(nest, m) = LoopsAt(nest, l) /\ m \in RetriesAt(nest, m)
      BY <1>7, <1>9, AroundOther DEF m
  <2>3. c[X] = context[X] /\ c[Index] = context[Index] /\ c[Field] = context[Field]
      BY <2>1, RefFacts
  <2>4. t[m].saved = context
      BY DEF m
  <2>5. l <= m
      BY DEF m
  <2>6. c[Index][1] <= m
      BY <1>1, <1>3, <1>6, <2>3, <2>5 DEF Holds
  <2>7. AttemptOf(t, RetriesAt(nest, m), c[Attempt])
      BY <1>4, <2>1, <2>2 DEF AttemptOf
  <2> QED
      BY <1>1, <1>2, <1>3, <1>4, <2>1, <2>2, <2>3, <2>4, <2>6, <2>7 DEF Holds
<1>10. CASE Kind(m) \in {"each", "concurrent"}
  <2>1. /\ c[Index] = <<m, i>> /\ c[Field] \in {<<m, i>>, context[Field]}
        /\ \A r \in Refs \ {Index, Field} : c[r] = context[r]
      BY <1>3, <1>10, InnerValues DEF c
  <2>2. LoopsAt(nest, m) = LoopsAt(nest, l) \cup {m} /\ RetriesAt(nest, m) = RetriesAt(nest, l)
      BY <1>7, <1>10, AroundOther DEF m
  <2>3. c[X] = context[X] /\ c[Attempt] = context[Attempt]
      BY <2>1, RefFacts
  <2>4. m \in LoopsAt(nest, m) /\ \A k \in LoopsAt(nest, m) : k <= m
      BY <1>5, <2>2 DEF m
  <2>5. Greatest(LoopsAt(nest, m)) = m
      BY <1>5, <2>4, GreatestIs
  <2>6. FieldOf(nest, t, LoopsAt(nest, m), c[Field])
    <3>1. CASE c[Field] = <<m, i>>
        BY <1>4, <2>4, <3>1 DEF FieldOf, m
    <3>2. CASE c[Field] = context[Field]
        BY <1>1, <2>2, <3>2 DEF FieldOf, Holds
    <3> QED
        BY <2>1, <3>1, <3>2
  <2>7. ~(Kind(m) = "retry")
      BY <1>10
  <2> QED
      BY <1>1, <1>3, <1>4, <1>7, <1>8, <2>1, <2>2, <2>3, <2>4, <2>5, <2>6, <2>7 DEF Holds, m
<1>11. CASE Kind(m) = "parallel"
  <2>1. c = context
      BY <1>3, <1>11, InnerValues DEF c
  <2>2. LoopsAt(nest, m) = LoopsAt(nest, l) /\ RetriesAt(nest, m) = RetriesAt(nest, l)
      BY <1>7, <1>11, AroundOther DEF m
  <2>3. context[Index][1] <= m
      BY <1>1, <1>6 DEF Holds, m
  <2> QED
      BY <1>1, <1>3, <1>7, <1>8, <1>11, <2>1, <2>2, <2>3 DEF Holds
<1>12. CASE Kind(m) = "workflow"
  <2>1. /\ c[Attempt] = Absent /\ c[Index] = Absent /\ c[Field] = Absent
        /\ c[X] # Absent
    <3>1. /\ Inner(m, i, config, context)[Attempt] = Absent
          /\ Inner(m, i, config, context)[Index] = Absent
          /\ Inner(m, i, config, context)[Field] = Absent
          /\ Inner(m, i, config, context)[X] # Absent
        BY <1>3, <1>12, InnerValues
    <3> QED
        BY <3>1 DEF c
  <2>2. LoopsAt(nest, m) = {} /\ RetriesAt(nest, m) = {}
      BY <1>3, <1>7, <1>12, AroundWorkflow
  <2>3. Absent[1] <= m
      BY DEF Absent, m
  <2> QED
      BY <1>3, <1>7, <1>12, <2>1, <2>2, <2>3 DEF Holds, AttemptOf, FieldOf
<1> QED
    BY <1>9, <1>10, <1>11, <1>12 DEF m

(* What is bound stays bound inwards, and retry binds the rest.             *)
LEMMA EnterBound ==
    ASSUME nest \in Nests, NEW l \in Nat, NEW s, NEW t,
           NEW config \in Contexts, NEW context \in Contexts,
           \A k \in 1..l : t[k].iter = s[k].iter /\ t[k].saved = s[k].saved,
           t[l + 1].saved = context,
           Holds(nest, s, l, context), Bound(nest, s, l, config)
    PROVE  /\ Kind(l + 1) = "retry" => Bound(nest, t, l + 1, Resolve(config, context))
           /\ Kind(l + 1) = "workflow" => Bound(nest, t, l + 1, Nothing)
           /\ Kind(l + 1) \notin {"retry", "workflow"} => Bound(nest, t, l + 1, config)
<1> DEFINE m == l + 1
           c == Resolve(config, context)
<1>1. Holds(nest, t, l, context)
    BY HoldsKept
<1>2. Bound(nest, t, l, config)
    BY BoundKept
<1>3. /\ LoopsAt(nest, l) \in SUBSET (1..l) /\ RetriesAt(nest, l) \in SUBSET (1..l)
      /\ RetriesAt(nest, l) \in SUBSET Nat
    BY Ranges
<1>4. config[Index][1] \in Nat /\ context[Index][1] \in Nat
    BY RefFacts, ValuesAreNatural
<1>5. nest[m].kind = Kind(m)
    BY DEF Kind
<1>6. ~(m \in 1..l)
    OBVIOUS
<1>7. m \in Nat \ {0} /\ l <= m
    OBVIOUS
<1> HIDE DEF m, c
<1>8. ASSUME Kind(m) = "retry" PROVE Bound(nest, t, m, c)
  <2>1. \A r \in {X, Attempt, Index, Field} :
            c[r] = IF config[r] # Absent THEN config[r] ELSE context[r]
      BY RefFacts DEF c, Resolve
  <2>2. LoopsAt(nest, m) = LoopsAt(nest, l) /\ RetriesAt(nest, m) = RetriesAt(nest, l) \cup {m}
      BY <1>5, <1>8, AroundOther DEF m
  <2>3. Least(RetriesAt(nest, m)) = IF RetriesAt(nest, l) = {} THEN m
                                    ELSE Least(RetriesAt(nest, l))
      BY <1>3, <2>2, LeastOfMore DEF m
  <2>4. /\ RetriesAt(nest, m) # {}
        /\ c[X] = t[Least(RetriesAt(nest, m))].saved[X]
        /\ c[X] # Absent
    <3>1. CASE RetriesAt(nest, l) = {}
        BY <1>1, <1>2, <2>1, <2>2, <2>3, <3>1 DEF Holds, Bound, m
    <3>2. CASE RetriesAt(nest, l) # {}
        BY <1>2, <2>1, <2>2, <2>3, <3>2 DEF Bound
    <3> QED
        BY <3>1, <3>2
  <2>5. /\ BindingAt(nest, m) = {} => c[Index] = Absent
        /\ BindingAt(nest, m) # {} =>
              c[Index] = NowIn(t, Greatest(BoundLoops(nest, m))) /\ c[Index] # Absent
    <3>1. CASE BindingAt(nest, l) # {}
      <4>1. BoundLoops(nest, m) = BoundLoops(nest, l) /\ BindingAt(nest, m) # {}
          BY <1>5, <1>8, <3>1, BoundLoopsOther, BindingOther DEF m
      <4> QED
          BY <1>2, <2>1, <3>1, <4>1 DEF Bound
    <3>2. CASE BindingAt(nest, l) = {} /\ LoopsAt(nest, l) = {}
      <4>1. BindingAt(nest, m) = {}
          BY <1>5, <1>8, <3>2, BindingOther DEF m
      <4> QED
          BY <1>1, <1>2, <2>1, <3>2, <4>1 DEF Bound, Holds
    <3>3. CASE BindingAt(nest, l) = {} /\ LoopsAt(nest, l) # {}
      <4>1. BindingAt(nest, m) # {}
          BY <1>5, <1>8, <3>3, BindingOther DEF m
      <4>2. BoundLoops(nest, m) = LoopsAt(nest, l)
          BY <1>5, <1>8, <3>3, <4>1, BoundLoopsOther DEF m
      <4> QED
          BY <1>1, <1>2, <2>1, <3>3, <4>1, <4>2 DEF Bound, Holds
    <3> QED
        BY <3>1, <3>2, <3>3
  <2>6. c[Index][1] <= m
      BY <1>1, <1>2, <1>4, <1>7, <2>1 DEF Holds, Bound
  <2>7. RetriesAt(nest, m) \ {m} = RetriesAt(nest, l) /\ LoopsAt(nest, m) \ {m} = LoopsAt(nest, l)
      BY <1>3, <1>6, <2>2
  <2>8. AttemptOf(t, RetriesAt(nest, m) \ {m}, c[Attempt])
      BY <1>1, <1>2, <2>1, <2>7 DEF AttemptOf, Holds, Bound
  <2>9. FieldOf(nest, t, LoopsAt(nest, m) \ {m}, c[Field])
      BY <1>1, <1>2, <2>1, <2>7 DEF FieldOf, Holds, Bound
  <2> QED
      BY <2>4, <2>5, <2>6, <2>8, <2>9 DEF Bound
<1>9. ASSUME Kind(m) = "workflow" PROVE Bound(nest, t, m, Nothing)
  <2>1. LoopsAt(nest, m) = {} /\ RetriesAt(nest, m) = {} /\ BindingAt(nest, m) = {}
      BY <1>5, <1>7, <1>9, AroundWorkflow
  <2>2. Absent[1] <= m
      BY DEF Absent, m
  <2> QED
      BY <2>1, <2>2, RefFacts DEF Bound, Nothing, AttemptOf, FieldOf
<1>10. ASSUME Kind(m) \notin {"retry", "workflow"} PROVE Bound(nest, t, m, config)
  <2>1. RetriesAt(nest, m) = RetriesAt(nest, l) /\ BindingAt(nest, m) = BindingAt(nest, l)
      BY <1>5, <1>10, AroundOther, BindingOther DEF m
  <2>2. BindingAt(nest, l) # {} => BoundLoops(nest, m) = BoundLoops(nest, l)
      BY <1>5, <1>10, BoundLoopsOther DEF m
  <2>3. RetriesAt(nest, l) \ {l} \subseteq RetriesAt(nest, m) \ {m}
      BY <1>3, <1>6, <2>1
  <2>4. LoopsAt(nest, l) \ {l} \subseteq LoopsAt(nest, m) \ {m}
      BY <1>3, <1>5, <1>6, <1>10, AroundOther DEF m
  <2>5. AttemptOf(t, RetriesAt(nest, m) \ {m}, config[Attempt])
      BY <1>2, <2>3 DEF AttemptOf, Bound
  <2>6. FieldOf(nest, t, LoopsAt(nest, m) \ {m}, config[Field])
      BY <1>2, <2>4 DEF FieldOf, Bound
  <2>7. config[Index][1] <= m
      BY <1>2, <1>4, <1>7 DEF Bound
  <2> QED
      BY <1>2, <2>1, <2>2, <2>5, <2>6, <2>7 DEF Bound
<1> QED
    BY <1>8, <1>9, <1>10 DEF m, c

SameX(c, d) == c[X] = d[X]

(* The next iteration of a block that shares its context.                   *)
LEMMA IterateHolds ==
    ASSUME nest \in Nests, NEW l \in Nat \ {0}, NEW s, NEW t, NEW i \in Nat \ {0},
           NEW config \in Contexts, NEW context \in Contexts,
           Kind(l) \in {"retry", "each"},
           \A k \in 1..l - 1 : t[k].iter = s[k].iter /\ t[k].saved = s[k].saved,
           t[l].iter = i, t[l].saved = s[l].saved, s[l].iter \in Nat, s[l].iter < i,
           Holds(nest, s, l, context)
    PROVE  /\ Holds(nest, t, l, Inner(l, i, config, context))
           /\ SameX(context, Inner(l, i, config, context))
<1> DEFINE c == Inner(l, i, config, context)
<1> SUFFICES Holds(nest, t, l, c) /\ SameX(context, c)
    OBVIOUS
<1>1. /\ LoopsAt(nest, l) \in SUBSET (1..l) /\ RetriesAt(nest, l) \in SUBSET (1..l)
      /\ LoopsAt(nest, l) \in SUBSET Nat
    BY Ranges
<1>2. c \in Contexts /\ DOMAIN c = Refs /\ DOMAIN context = Refs
    BY InnerTypes DEF Contexts
<1>3. <<l, i>> # Absent /\ NowIn(t, l) = <<l, i>> /\ <<l, i>>[1] = l /\ <<l, i>>[2] = i
    BY DEF Absent, NowIn
<1>4. nest[l].kind = Kind(l)
    BY DEF Kind
<1>5. \A k \in 1..l : k # l => k \in 1..l - 1
    OBVIOUS
<1>6. context[Field][2] \in Nat
    BY RefFacts, ValuesAreNatural
<1> HIDE DEF c
<1>7. CASE Kind(l) = "retry"
  <2>1. c[Attempt] = <<l, i>> /\ \A r \in Refs \ {Attempt} : c[r] = context[r]
    <3>1. \A r \in Refs \ {Attempt} : c[r] = context[r]
        BY <1>7, InnerValues DEF c
    <3>2. c[Attempt] = <<l, i>>
        BY <1>7, InnerValues DEF c
    <3> QED
        BY <3>1, <3>2
  <2>2. l \notin LoopsAt(nest, l) /\ l \in RetriesAt(nest, l)
    <3>1. \A j \in l..l : nest[j].kind # "workflow"
        BY <1>4, <1>7
    <3>2. l \in 1..l
        OBVIOUS
    <3> QED
        BY <1>4, <1>7, <3>1, <3>2 DEF LoopsAt, RetriesAt
  <2>3. c[X] = context[X] /\ c[Index] = context[Index] /\ c[Field] = context[Field]
      BY <2>1, RefFacts
  <2>4. LoopsAt(nest, l) # {} => Greatest(LoopsAt(nest, l)) \in 1..l - 1
      BY <1>1, <1>5, <2>2, GreatestIn
  <2>5. LoopsAt(nest, l) # {} =>
            NowIn(t, Greatest(LoopsAt(nest, l))) = NowIn(s, Greatest(LoopsAt(nest, l)))
      BY <2>4 DEF NowIn
  <2>6. FieldOf(nest, t, LoopsAt(nest, l), c[Field])
    <3>1. \A k \in LoopsAt(nest, l) : t[k].iter = s[k].iter
        BY <1>1, <1>5, <2>2
    <3> QED
        BY <2>3, <3>1 DEF Holds, FieldOf, NowIn
  <2>7. AttemptOf(t, RetriesAt(nest, l), c[Attempt])
      BY <1>3, <2>1, <2>2 DEF AttemptOf
  <2>8. \A r \in Refs \ {X, Attempt} : c[r] = t[l].saved[r]
      BY <1>2, <1>4, <1>7, <2>1 DEF Holds
  <2>9. Holds(nest, t, l, c)
      BY <1>2, <1>3, <2>1, <2>3, <2>5, <2>6, <2>7, <2>8 DEF Holds
  <2> QED
      BY <2>3, <2>9 DEF SameX
<1>8. CASE Kind(l) = "each"
  <2>1. /\ c[Index] = <<l, i>> /\ c[Field] \in {<<l, i>>, context[Field]}
        /\ \A r \in Refs \ {Index, Field} : c[r] = context[r]
      BY <1>8, InnerValues DEF c
  <2>2. l \in LoopsAt(nest, l) /\ l \notin RetriesAt(nest, l)
    <3>1. \A j \in l..l : nest[j].kind # "workflow"
        BY <1>4, <1>8
    <3>2. l \in 1..l
        OBVIOUS
    <3> QED
        BY <1>4, <1>8, <3>1, <3>2 DEF LoopsAt, RetriesAt
  <2>3. c[X] = context[X] /\ c[Attempt] = context[Attempt]
      BY <2>1, RefFacts
  <2>4. Greatest(LoopsAt(nest, l)) = l
      BY <1>1, <2>2, GreatestIs
  <2>5. FieldOf(nest, t, LoopsAt(nest, l), c[Field])
    <3>1. CASE c[Field] = <<l, i>>
        BY <1>3, <2>2, <3>1 DEF FieldOf
    <3>2. CASE c[Field] = context[Field] /\ context[Field] # Absent
      <4>1. PICK k \in LoopsAt(nest, l) :
                /\ context[Field][1] = k
                /\ context[Field][2] <= s[k].iter
                /\ nest[k].kind = "concurrent" => context[Field] = NowIn(s, k)
          BY <3>2 DEF Holds, FieldOf
      <4>2. CASE k = l
        <5>1. context[Field][2] <= t[l].iter /\ nest[k].kind # "concurrent"
            BY <1>4, <1>6, <1>8, <4>1, <4>2
        <5> QED
            BY <3>2, <4>1, <4>2, <5>1 DEF FieldOf
      <4>3. CASE k # l
        <5>1. t[k].iter = s[k].iter
            BY <1>1, <1>5, <4>3
        <5> QED
            BY <3>2, <4>1, <5>1 DEF FieldOf, NowIn
      <4> QED
          BY <4>2, <4>3
    <3>3. CASE c[Field] = Absent
        BY <3>3 DEF FieldOf
    <3> QED
        BY <2>1, <3>1, <3>2, <3>3
  <2>6. AttemptOf(t, RetriesAt(nest, l), c[Attempt])
    <3>1. \A k \in RetriesAt(nest, l) : t[k].iter = s[k].iter
        BY <1>1, <1>5, <2>2
    <3> QED
        BY <2>3, <3>1 DEF Holds, AttemptOf, NowIn
  <2>7. ~(l = 0) /\ l <= l
      OBVIOUS
  <2>8. Holds(nest, t, l, c)
      BY <1>3, <1>4, <1>8, <2>1, <2>2, <2>3, <2>4, <2>5, <2>6, <2>7 DEF Holds
  <2> QED
      BY <2>3, <2>8 DEF SameX
<1> QED
    BY <1>7, <1>8

(* When a retry is left nothing but $x tells that it was there.             *)
LEMMA LeaveRetryHolds ==
    ASSUME nest \in Nests, NEW l \in Nat, l + 1 <= Depth, NEW s,
           NEW saved \in Contexts, NEW context \in Contexts,
           Kind(l + 1) = "retry", l # 0 => Kind(l) # "retry",
           s[l + 1].saved = saved,
           Holds(nest, s, l, saved), Holds(nest, s, l + 1, context)
    PROVE  Holds(nest, s, l, [context EXCEPT ![Attempt] = Absent])
<1> DEFINE c == [context EXCEPT ![Attempt] = Absent]
<1>1. /\ c \in Contexts /\ DOMAIN c = Refs /\ DOMAIN saved = Refs /\ DOMAIN context = Refs
      /\ c[Attempt] = Absent
      /\ \A r \in Refs \ {Attempt} : c[r] = context[r]
  <2>1. Absent \in Nat \X Nat
      BY DEF Absent
  <2> QED
      BY <2>1, RefFacts DEF Contexts
<1>2. l + 1 # 0 /\ nest[l + 1].kind = "retry"
    BY DEF Kind
<1>3. \A r \in Refs \ {X, Attempt} : context[r] = saved[r]
    BY <1>1, <1>2 DEF Holds
<1>4. c[Index] = saved[Index] /\ c[Field] = saved[Field] /\ c[X] = context[X]
    BY <1>1, <1>3, RefFacts
<1>5. l + 1 \in l + 1..Len(nest)
    BY RefFacts DEF Depth
<1>6. ~(\A k \in l + 1..Len(nest) : nest[k].kind # "retry")
    BY <1>2, <1>5
<1>7. l # 0 => nest[l].kind # "retry"
    BY DEF Kind
<1>8. context[X] # Absent
    BY DEF Holds
<1>9. l = 0 => \A r \in Refs \ {X} : c[r] = Absent
    BY <1>1, <1>3 DEF Holds
<1> HIDE DEF c
<1>10. Holds(nest, s, l, c)
    BY <1>1, <1>4, <1>6, <1>7, <1>8, <1>9 DEF Holds, AttemptOf
<1> QED
    BY <1>10 DEF c

----------------------------------------------------------------------------
(* The state between two steps. *)
LEMMA NestKept ==
    ASSUME nest' = nest
    PROVE  Depth' = Depth /\ Contexts' = Contexts /\ Frames' = Frames /\ Nothing' = Nothing
BY DEF Depth, Refs, Contexts, Frames, Nothing

LEMMA NestFacts ==
    ASSUME nest \in Nests
    PROVE  \A l \in 1..Depth :
              /\ Kind(l) \in {"retry", "each", "concurrent", "parallel", "workflow"}
              /\ Len(nest[l].items) \in Nat \ {0}
              /\ l # Depth /\ Kind(l) = "retry" => Kind(l + 1) # "retry"
<1>1. nest \in ValidNests
    BY NestsAssumption
<1>2. nest \in Seq(Wrappers) /\ Depth \in Nat
    BY <1>1, RefFacts DEF ValidNests
<1> TAKE l \in 1..Depth
<1>3. nest[l] \in Wrappers /\ nest[l].items # <<>>
    BY <1>1, <1>2, ElementOfSeq DEF Depth, ValidNests
<1>4. nest[l].items \in Seq(BOOLEAN)
    BY <1>3 DEF Wrappers
<1>5. Len(nest[l].items) \in Nat \ {0}
    BY <1>3, <1>4, LenProperties, EmptySeq
<1>6. l # Depth /\ Kind(l) = "retry" => Kind(l + 1) # "retry"
  <2>1. l # Depth => l \in 1..Depth - 1
      BY <1>2
  <2> QED
      BY <1>1, <2>1 DEF ValidNests, Depth, Kind
<1> QED
    BY <1>3, <1>5, <1>6 DEF Wrappers, Kind

LEMMA NothingType ==
    ASSUME nest \in Nests
    PROVE  /\ Nothing \in Contexts /\ Nothing[X] = Absent
           /\ \A r \in Refs : Nothing[r] = Absent
<1>1. Absent \in Nat \X Nat
    BY DEF Absent
<1> QED
    BY <1>1, RefFacts DEF Nothing, Contexts

LEMMA StackFacts ==
    ASSUME TypeOK
    PROVE  /\ nest \in Nests /\ Depth \in Nat /\ Len(nest) = Depth
           /\ Len(stack) \in Nat /\ Len(stack) <= Depth
           /\ stack = <<>> <=> Len(stack) = 0
           /\ \A l \in 1..Len(stack) :
                 /\ l \in 1..Depth
                 /\ stack[l] \in Frames
                 /\ stack[l].iter \in Nat \ {0} /\ stack[l].since \in Nat
                 /\ stack[l].saved \in Contexts /\ stack[l].config \in Contexts
                 /\ stack[l].inner \in 0..Depth /\ stack[l].outer \in 0..Depth
           /\ Current \in 0..Depth /\ contexts[Current] \in Contexts
           /\ Config \in Contexts
           /\ Len(stack) # 0 => /\ Len(stack) \in 1..Len(stack)
                                /\ Current = stack[Len(stack)].inner
                                /\ Config = stack[Len(stack)].config
           /\ Len(stack) = 0 => Current = 0 /\ Config = Nothing
<1>1. nest \in Nests /\ Depth \in Nat /\ Len(nest) = Depth
    BY RefFacts DEF TypeOK, Depth
<1>2. /\ stack \in Seq(Frames) /\ Len(stack) \in Nat /\ Len(stack) <= Depth
      /\ stack = <<>> <=> Len(stack) = 0
    BY LenProperties, EmptySeq DEF TypeOK
<1>3. ASSUME NEW l \in 1..Len(stack)
      PROVE  /\ l \in 1..Depth
             /\ stack[l] \in Frames
             /\ stack[l].iter \in Nat \ {0} /\ stack[l].since \in Nat
             /\ stack[l].saved \in Contexts /\ stack[l].config \in Contexts
             /\ stack[l].inner \in 0..Depth /\ stack[l].outer \in 0..Depth
  <2>1. stack[l] \in Frames
      BY <1>2, ElementOfSeq
  <2>2. stack[l].iter \in 1..Len(nest[l].items)
      BY DEF TypeOK
  <2>3. l \in 1..Depth
      BY <1>1, <1>2
  <2>4. stack[l].iter \in Nat \ {0}
      BY <1>1, <2>2, <2>3, NestFacts
  <2> QED
      BY <2>1, <2>3, <2>4 DEF Frames
<1>4. Len(stack) # 0 => /\ Len(stack) \in 1..Len(stack)
                        /\ Current = stack[Len(stack)].inner
                        /\ Config = stack[Len(stack)].config
    BY <1>2 DEF Current, Config, Top
<1>5. Len(stack) = 0 => Current = 0 /\ Config = Nothing
    BY <1>2 DEF Current, Config
<1>6. Current \in 0..Depth
    BY <1>1, <1>3, <1>4, <1>5
<1>7. Config \in Contexts
    BY <1>1, <1>3, <1>4, <1>5, NothingType
<1>8. contexts[Current] \in Contexts
    BY <1>6 DEF TypeOK
<1> QED
    BY <1>1, <1>2, <1>3, <1>4, <1>5, <1>6, <1>7, <1>8

(* No context is written to while blocks further in run in one of their own. *)
LEMMA ChainFacts ==
    ASSUME TypeOK, Chain
    PROVE  /\ Current <= Len(stack)
           /\ \A l \in 1..Len(stack) :
                 /\ stack[l].inner <= Current
                 /\ stack[l].inner # stack[l].outer => stack[l].outer # Current
                 /\ stack[l].inner # stack[l].outer => stack[l].inner = l
                 /\ stack[l].outer <= stack[l].inner
<1> PICK n \in Nat : n = Len(stack)
    BY StackFacts
<1>1. \A l \in 1..n : stack[l].inner \in Nat /\ stack[l].outer \in Nat
    BY StackFacts
<1>2. \A l \in 1..n : /\ stack[l].inner \in {l, stack[l].outer}
                      /\ stack[l].outer < l
    BY DEF Chain
<1>3. \A l, m \in 1..n : l < m => stack[l].inner <= stack[m].outer
    BY DEF Chain
<1>4. CASE n = 0
    BY <1>4, StackFacts
<1>5. CASE n # 0
  <2>1. n \in 1..n /\ Current = stack[n].inner /\ Current \in Nat
      BY <1>1, <1>5, StackFacts
  <2>2. Current <= n /\ stack[n].outer <= Current
      BY <1>1, <1>2, <2>1
  <2>3. ASSUME NEW l \in 1..n
        PROVE  /\ stack[l].inner <= Current
               /\ stack[l].inner # stack[l].outer => stack[l].outer # Current
               /\ stack[l].inner # stack[l].outer => stack[l].inner = l
               /\ stack[l].outer <= stack[l].inner
    <3>1. stack[l].outer < l /\ stack[l].inner \in {l, stack[l].outer}
          /\ stack[l].inner \in Nat /\ stack[l].outer \in Nat
        BY <1>1, <1>2
    <3>2. CASE l = n
        BY <2>1, <3>1, <3>2
    <3>3. CASE l < n
      <4>1. stack[l].inner <= stack[n].outer
          BY <1>3, <2>1, <3>3
      <4>2. stack[l].inner <= Current
          BY <1>1, <2>1, <2>2, <3>1, <4>1
      <4> QED
          BY <2>1, <3>1, <4>2
    <3> QED
        BY <3>2, <3>3
  <2> QED
      BY <2>2, <2>3
<1> QED
    BY <1>4, <1>5

(* What the next block inwards gets was made by the blocks around it.       *)
LEMMA ConfigBound ==
    ASSUME TypeOK, Carried
    PROVE  Bound(nest, stack, Len(stack), Config)
<1>1. CASE Len(stack) = 0
  <2>1. Config = Nothing
      BY <1>1, StackFacts
  <2>2. Nothing[Index] = Absent /\ Nothing[X] = Absent /\ Nothing[Attempt] = Absent
        /\ Nothing[Field] = Absent
      BY NothingType, RefFacts, StackFacts
  <2>3. Absent[1] <= 0
      BY DEF Absent
  <2> QED
      BY <1>1, <2>1, <2>2, <2>3, AtRoot DEF Bound, AttemptOf, FieldOf
<1>2. CASE Len(stack) # 0
    BY <1>2, StackFacts DEF Carried
<1> QED
    BY <1>1, <1>2

(* $x of a nested context: the one around it, or an input of a workflow.    *)
LEMMA InnerAssigned ==
    ASSUME TypeOK, NEW l \in Nat, l + 1 <= Depth, NEW i \in Nat,
           NEW config \in Contexts, NEW context \in Contexts,
           config[Index][1] <= l, context[Index][1] <= l,
           Assigned(nest, writes, lost, l, context[X])
    PROVE  /\ Assigned(nest, writes, lost, l + 1, Inner(l + 1, i, config, context)[X])
           /\ Inner(l + 1, i, config, context)[X] # context[X] =>
                 Inner(l + 1, i, config, context)[X][1] # Depth + 1
<1> DEFINE m == l + 1
           c == Inner(m, i, config, context)
<1> SUFFICES /\ Assigned(nest, writes, lost, m, c[X])
             /\ c[X] # context[X] => c[X][1] # Depth + 1
    OBVIOUS
<1>1. m \in Nat \ {0} /\ m \in 1..Depth /\ Depth \in Nat
    BY StackFacts
<1>2. Kind(m) \in {"retry", "each", "concurrent", "parallel", "workflow"}
    BY <1>1, StackFacts, NestFacts
<1>3. \A k \in m + 1..Len(nest) : k \in l + 1..Len(nest)
    BY StackFacts
<1>4. nest \in Nests
    BY StackFacts
<1> HIDE DEF m, c
<1>5. CASE Kind(m) # "workflow"
  <2>1. X \in Refs \ {Attempt, Index, Field}
      BY <1>4, RefFacts
  <2>2. c[X] = context[X]
      BY <1>1, <1>2, <1>4, <1>5, <2>1, InnerValues DEF c
  <2> QED
      BY <1>3, <2>2 DEF Assigned
<1>6. CASE Kind(m) = "workflow"
  <2>1. c[X] \in {Text, config[Index], context[Index]}
      BY <1>1, <1>4, <1>6, InnerValues DEF c
  <2>2. config[Index][1] \in Nat /\ context[Index][1] \in Nat /\ Text[1] = 0
      BY <1>4, RefFacts, ValuesAreNatural DEF Text
  <2>3. c[X][1] <= l /\ c[X][1] \in Nat
      BY <2>1, <2>2
  <2>4. c[X][1] # Depth + 1
      BY <1>1, <2>3
  <2> QED
      BY <2>4, StackFacts DEF Assigned
<1> QED
    BY <1>5, <1>6

----------------------------------------------------------------------------
LEMMA InitHolds == Init => IInv
<1> SUFFICES ASSUME Init PROVE IInv
    OBVIOUS
<1>1. /\ nest \in Nests /\ stack = <<>> /\ phase = "call" /\ writes = 0 /\ lost = {}
      /\ reads = <<>>
    BY DEF Init
<1> DEFINE root == [Nothing EXCEPT ![X] = Initial]
<1>2. Initial \in Nat \X Nat /\ Initial # Absent /\ Initial[1] = 0 /\ Absent[1] = 0
    BY DEF Initial, Absent
<1>3. /\ root \in Contexts /\ DOMAIN root = Refs
      /\ root[X] = Initial
      /\ \A r \in Refs \ {X} : root[r] = Absent
    BY <1>1, <1>2, NothingType, RefFacts DEF Contexts
<1>4. Depth \in Nat /\ contexts = [l \in 0..Depth |-> IF l = 0 THEN root ELSE Nothing]
    BY <1>1, RefFacts DEF Init
<1>5. Len(stack) = 0 /\ Current = 0 /\ contexts[0] = root
    BY <1>1, <1>4 DEF Current
<1> HIDE DEF root
<1>6. TypeOK
  <2>1. contexts \in [0..Depth -> Contexts]
      BY <1>1, <1>3, <1>4, NothingType
  <2>2. stack \in Seq(Frames)
      BY <1>1
  <2> QED
      BY <1>1, <1>4, <1>5, <2>1, <2>2 DEF TypeOK
<1>7. Chain /\ Saved /\ Carried
    BY <1>5 DEF Chain, Saved, Carried
<1>8. InForce
  <2>1. root[Attempt] = Absent /\ root[Index] = Absent /\ root[Field] = Absent
      BY <1>1, <1>3, RefFacts
  <2>2. Holds(nest, stack, 0, root)
      BY <1>2, <1>3, <2>1, AtRoot DEF Holds, AttemptOf, FieldOf
  <2>3. Assigned(nest, writes, lost, 0, root[X])
      BY <1>1, <1>2, <1>3, <1>4, RefFacts DEF Assigned, Depth
  <2> QED
      BY <1>5, <2>2, <2>3 DEF InForce
<1>9. Succeeded /\ ReadsNearestScope
    BY <1>1 DEF Succeeded, ReadsNearestScope
<1> QED
    BY <1>6, <1>7, <1>8, <1>9 DEF IInv

----------------------------------------------------------------------------
(* The innermost block writes $x at most, and reads what holds around it.   *)
LEMMA ReadHolds ==
    ASSUME TypeOK, Carried, InForce, Len(stack) = Depth,
           nest' = nest, stack' = stack, reads' = Resolve(Config, contexts[Current])
    PROVE  ReadsNearestScope'
<1> DEFINE c == contexts[Current]
           r == Resolve(Config, c)
<1>1. Bound(nest, stack, Depth, Config) /\ Holds(nest, stack, Depth, c)
    BY ConfigBound DEF InForce
<1>2. \A q \in {X, Attempt, Index, Field} :
          r[q] = IF Config[q] # Absent THEN Config[q] ELSE c[q]
    BY RefFacts, StackFacts DEF Resolve
<1>3. Depth \in Nat /\ Len(nest) = Depth
    BY StackFacts
<1>4. /\ Loops = LoopsAt(nest, Depth)
      /\ Retries = RetriesAt(nest, Depth)
    BY DEF Loops, Retries, Around, LoopsAt, RetriesAt, Kind
<1>5. /\ Binding = BindingAt(nest, Depth)
      /\ {k \in Loops : k < Least(Binding)} = BoundLoops(nest, Depth)
    BY <1>4 DEF Binding, BindingAt, BoundLoops
<1>6. Loops' = Loops /\ Retries' = Retries /\ Binding' = Binding
    BY DEF Loops, Retries, Binding, Around, Kind, Depth
<1>7. reads' = r
    OBVIOUS
<1> HIDE DEF r, c
<1>8. \A k : Now(k)' = NowIn(stack, k)
    BY DEF Now, NowIn
<1>9. IF Loops = {} THEN r[Index] = Absent
      ELSE IF Binding = {} THEN r[Index] = NowIn(stack, Greatest(Loops))
      ELSE r[Index] = NowIn(stack, Greatest({k \in Loops : k < Least(Binding)}))
  <2>1. Loops = {} => Binding = {}
      BY DEF Binding
  <2> QED
      BY <1>1, <1>2, <1>4, <1>5, <2>1 DEF Bound, Holds
<1>10. IF Retries = {} THEN r[Attempt] = Absent
       ELSE \E l \in Retries : r[Attempt] = NowIn(stack, l)
  <2>1. \A k \in Depth + 1..Len(nest) : nest[k].kind # "retry"
      BY <1>3
  <2> QED
      BY <1>1, <1>2, <1>4, <2>1 DEF Bound, Holds, AttemptOf
<1>11. FieldOf(nest, stack, Loops, r[Field])
    BY <1>1, <1>2, <1>4 DEF Bound, Holds, FieldOf
<1>12. Retries # {} => r[X] = stack[Least(Retries)].saved[X]
    BY <1>1, <1>2, <1>4 DEF Bound
<1>13. /\ reads'[Index] =
              IF Loops' = {} THEN Absent
              ELSE IF Binding' = {} THEN Now(Greatest(Loops))'
              ELSE Now(Greatest({k \in Loops : k < Least(Binding)}))'
    BY <1>6, <1>7, <1>8, <1>9
<1>14. /\ IF Retries' = {} THEN reads'[Attempt] = Absent
          ELSE \E l \in Retries' : reads'[Attempt] = Now(l)'
       /\ Retries' # {} => reads'[X] = stack'[Least(Retries')].saved[X]
    BY <1>6, <1>7, <1>8, <1>10, <1>12
<1>15. reads'[Field] # Absent =>
           \E l \in Loops' :
              /\ reads'[Field][1] = l
              /\ reads'[Field][2] <= stack'[l].iter
              /\ nest'[l].kind = "concurrent" => reads'[Field] = Now(l)'
    BY <1>6, <1>7, <1>8, <1>11 DEF FieldOf
<1> QED
    BY <1>13, <1>14, <1>15 DEF ReadsNearestScope, Now, Kind

LEMMA ExecuteHolds == IInv /\ ExecuteInnermost => IInv'
<1> SUFFICES ASSUME IInv, ExecuteInnermost PROVE IInv'
    OBVIOUS
<1>1. TypeOK /\ Chain /\ Saved /\ InForce /\ Carried
    BY DEF IInv
<1>2. /\ nest' = nest /\ stack' = stack /\ lost' = lost
      /\ Depth' = Depth /\ Contexts' = Contexts /\ Frames' = Frames
      /\ Current' = Current
    BY NestKept DEF ExecuteInnermost, Current, Top
<1> PICK n \in Nat : n = Len(stack)
    BY <1>1, StackFacts
<1>3. /\ n = Depth /\ Depth \in Nat /\ nest \in Nests /\ Len(nest) = Depth
      /\ Current \in 0..Depth /\ contexts[Current] \in Contexts /\ Config \in Contexts
      /\ contexts \in [0..Depth -> Contexts] /\ writes \in Nat /\ lost \in SUBSET (1..writes)
  <2>1. ~(n + 1 <= Depth) /\ n <= Depth /\ Depth \in Nat
      BY <1>1, StackFacts DEF ExecuteInnermost, Level
  <2>2. n = Depth
      BY <2>1
  <2> QED
      BY <1>1, <2>2, StackFacts DEF TypeOK
<1> DEFINE new == <<Depth + 1, writes + 1>>
           c == contexts[Current]
(* What becomes of the context in force.                                    *)
<1>4. \/ phase' = "failed" /\ contexts' = contexts /\ writes' = writes
      \/ /\ phase' = "ok" /\ writes' = writes + 1
         /\ contexts' = contexts
         /\ n # 0 /\ Isolated(n)
      \/ /\ phase' = "ok" /\ writes' = writes + 1
         /\ contexts' = [contexts EXCEPT ![Current] = [c EXCEPT ![X] = new]]
  <2>1. Level = n + 1 /\ Level - 1 = n
      BY DEF Level
  <2>2. Applies(Level) \/ (n # 0 /\ Isolated(n))
      BY <2>1 DEF Applies
  <2> QED
      BY <1>3, <2>1, <2>2 DEF ExecuteInnermost
<1>5. /\ new \in Nat \X Nat /\ new # Absent /\ new[1] = Depth + 1 /\ new[2] = writes + 1
    BY <1>3 DEF Absent
<1>6. [c EXCEPT ![X] = new] \in Contexts /\ [c EXCEPT ![X] = new][X] = new
    BY <1>3, <1>5, RefFacts DEF Contexts
<1>7. /\ contexts' \in [0..Depth -> Contexts]
      /\ writes' \in Nat /\ writes <= writes'
      /\ \A k \in 0..Depth : k # Current => contexts'[k] = contexts[k]
  <2> DEFINE d == [c EXCEPT ![X] = new]
  <2>1. /\ contexts' = contexts \/ contexts' = [contexts EXCEPT ![Current] = d]
        /\ writes' = writes \/ writes' = writes + 1
        /\ d \in Contexts
      BY <1>4, <1>6
  <2> HIDE DEF d
  <2>2. contexts' \in [0..Depth -> Contexts]
      BY <1>3, <2>1
  <2>3. \A k \in 0..Depth : k # Current => contexts'[k] = contexts[k]
      BY <1>3, <2>1
  <2> QED
      BY <1>3, <2>1, <2>2, <2>3
<1> HIDE DEF new
<1>8. contexts'[Current] \in {c, [c EXCEPT ![X] = new]}
    BY <1>3, <1>4
<1>9. reads' = Resolve(Config, c)
    BY DEF ExecuteInnermost
<1>10. TypeOK'
  <2>1. reads' \in Contexts
      BY <1>3, <1>9 DEF Resolve, Contexts
  <2>2. lost' \subseteq 1..writes'
      BY <1>2, <1>3, <1>7
  <2>3. phase' \in {"call", "ok", "failed"}
      BY <1>4
  <2> QED
      BY <1>1, <1>2, <1>7, <2>1, <2>2, <2>3 DEF TypeOK
<1>11. Chain'
  <2>1. ASSUME NEW l \in 1..n, stack[l].inner # stack[l].outer
        PROVE  contexts'[stack[l].outer] = stack[l].saved
    <3>1. stack[l].outer # Current /\ stack[l].outer \in 0..Depth
        BY <1>1, <2>1, ChainFacts, StackFacts
    <3> QED
        BY <1>1, <1>7, <2>1, <3>1 DEF Chain
  <2>2. ASSUME NEW l \in 1..n PROVE stack[l].since <= writes'
    <3>1. stack[l].since \in Nat /\ stack[l].since <= writes
        BY <1>1, StackFacts DEF Chain
    <3> QED
        BY <1>3, <1>7, <3>1
  <2> QED
      BY <1>1, <1>2, <2>1, <2>2 DEF Chain, Isolated, Kind, Depth
(* What was not lost is not now.                                            *)
<1>12. ASSUME NEW l \in 0..n, NEW value, Assigned(nest, writes, lost, l, value)
       PROVE  Assigned(nest, writes', lost', l, value)
    BY <1>2, <1>3, <1>7, <1>12 DEF Assigned
<1>13. Saved'
  <2>1. ASSUME NEW l \in 1..n
        PROVE  /\ Holds(nest, stack, l - 1, stack[l].saved)
               /\ Assigned(nest, writes', lost', l - 1, stack[l].saved[X])
      BY <1>1, <1>12 DEF Saved
  <2> QED
      BY <1>2, <2>1 DEF Saved
<1>14. InForce'
  <2>1. Holds(nest, stack, n, c) /\ Assigned(nest, writes', lost', n, c[X])
      BY <1>1, <1>12 DEF InForce
  <2>2. Holds(nest, stack, n, contexts'[Current])
      BY <1>3, <1>5, <1>8, <2>1, HoldsAssigned
  <2>3. Assigned(nest, writes', lost', n, contexts'[Current][X])
    <3>1. CASE contexts' = contexts
        BY <2>1, <3>1
    <3>2. CASE contexts' # contexts
      <4>1. contexts'[Current][X] = new /\ writes' = writes + 1
          BY <1>3, <1>4, <1>6, <3>2
      <4>2. writes + 1 \in 1..writes' \ lost'
          BY <1>2, <1>3, <4>1
      <4>3. ~(\E k \in n + 1..Len(nest) : TRUE)
          BY <1>3
      <4> QED
          BY <1>5, <4>1, <4>2, <4>3 DEF Assigned
    <3> QED
        BY <3>1, <3>2
  <2> QED
      BY <1>2, <2>2, <2>3 DEF InForce
<1>15. Carried'
    BY <1>1, <1>2 DEF Carried
<1>16. Succeeded'
  <2>1. ASSUME phase' = "ok", \A l \in 1..Depth : ~Isolated(l)
        PROVE  contexts'[Current][X] = <<Depth + 1, writes'>>
    <3>1. n # 0 => n \in 1..Depth
        BY <1>3
    <3>2. contexts' = [contexts EXCEPT ![Current] = [c EXCEPT ![X] = new]] /\ writes' = writes + 1
        BY <1>4, <2>1, <3>1
    <3> QED
        BY <1>3, <1>6, <3>2 DEF new
  <2> QED
      BY <1>2, <2>1 DEF Succeeded, Isolated, Kind
<1>17. ReadsNearestScope'
    BY <1>1, <1>2, <1>3, <1>9, ReadHolds
<1> QED
    BY <1>10, <1>11, <1>13, <1>14, <1>15, <1>16, <1>17 DEF IInv

----------------------------------------------------------------------------
(* A block begins its first iteration. *)
LEMMA EnterKeeps == IInv /\ Enter => IInv'
<1> SUFFICES ASSUME IInv, Enter PROVE IInv'
    OBVIOUS
<1>1. TypeOK /\ Chain /\ Saved /\ InForce /\ Carried
    BY DEF IInv
<1>2. /\ nest' = nest /\ phase' = "call" /\ writes' = writes /\ lost' = lost /\ reads' = <<>>
      /\ Depth' = Depth /\ Contexts' = Contexts /\ Frames' = Frames
    BY NestKept DEF Enter
<1> PICK n \in Nat : n = Len(stack)
    BY <1>1, StackFacts
<1> PICK m \in Nat : m = n + 1
    OBVIOUS
<1>3. /\ m <= Depth /\ Depth \in Nat /\ nest \in Nests /\ Len(nest) = Depth
      /\ Current \in 0..Depth /\ contexts[Current] \in Contexts /\ Config \in Contexts
      /\ contexts \in [0..Depth -> Contexts] /\ writes \in Nat /\ lost \in SUBSET (1..writes)
      /\ stack \in Seq(Frames) /\ Level = m /\ m \in 1..Depth
    BY <1>1, StackFacts DEF Enter, Level, TypeOK
<1> DEFINE c == contexts[Current]
           inside(i) == Inner(m, i, Config, c)
           frame(i) == [outer |-> Current, inner |-> InnerId(m), iter |-> i,
                        over |-> {}, failed |-> FALSE, config |-> NestedConfig(m),
                        saved |-> c, since |-> writes]
<1>4. PICK i \in Firsts(m) :
          /\ stack' = Append(stack, frame(i))
          /\ contexts' = [contexts EXCEPT ![InnerId(m)] = inside(i)]
    BY <1>3 DEF Enter
<1>5. /\ Kind(m) \in {"retry", "each", "concurrent", "parallel", "workflow"}
      /\ i \in 1..Len(nest[m].items) /\ i \in Nat \ {0}
  <2>1. Kind(m) \in {"retry", "each", "concurrent", "parallel", "workflow"}
        /\ Len(nest[m].items) \in Nat \ {0}
      BY <1>3, NestFacts
  <2>2. i \in 1..Len(nest[m].items)
      BY <2>1 DEF Firsts
  <2> QED
      BY <2>1, <2>2
<1> PICK f : f = frame(i)
    OBVIOUS
<1> PICK d : d = inside(i)
    OBVIOUS
<1>6. /\ f.outer = Current /\ f.inner = InnerId(m) /\ f.iter = i /\ f.over = {}
      /\ f.config = NestedConfig(m) /\ f.saved = c /\ f.since = writes
    OBVIOUS
<1>7. /\ InnerId(m) = IF Isolated(m) \/ Kind(m) = "workflow" THEN m ELSE Current
      /\ InnerId(m) \in 0..Depth /\ InnerId(m) \in {m, Current}
    BY <1>3 DEF InnerId
<1>8. NestedConfig(m) \in Contexts
  <2>1. Resolve(Config, c) \in Contexts
      BY <1>3 DEF Resolve, Contexts
  <2> QED
      BY <1>3, <1>5, <2>1, NothingType DEF NestedConfig
<1>9. f \in Frames
    BY <1>3, <1>5, <1>7, <1>8 DEF Frames
<1>10. d \in Contexts
    BY <1>3, <1>5, InnerTypes
<1>11. stack' = Append(stack, f) /\ contexts' = [contexts EXCEPT ![InnerId(m)] = d]
    BY <1>4
<1> HIDE DEF frame, inside
<1>12. /\ stack' \in Seq(Frames) /\ Len(stack') = m
       /\ \A k \in 1..n : stack'[k] = stack[k]
       /\ stack'[m] = f
    BY <1>3, <1>9, <1>11, AppendProperties
<1>13. \A k \in 1..m : k = m \/ k \in 1..n
    OBVIOUS
<1>14. Current' = InnerId(m)
  <2>1. stack' # <<>>
      BY <1>12, EmptySeq
  <2> QED
      BY <1>6, <1>12, <2>1 DEF Current, Top
<1>15. /\ contexts' \in [0..Depth -> Contexts] /\ contexts'[Current'] = d
       /\ \A k \in 0..Depth : k # InnerId(m) => contexts'[k] = contexts[k]
    BY <1>3, <1>7, <1>10, <1>11, <1>14
<1>16. Holds(nest, stack, n, c) /\ Assigned(nest, writes, lost, n, c[X])
       /\ Bound(nest, stack, n, Config)
    BY <1>1, ConfigBound DEF InForce
<1>17. \A k \in 1..n : stack'[k].iter = stack[k].iter /\ stack'[k].saved = stack[k].saved
    BY <1>12
<1>18. m - 1 = n /\ (n # 0 => n \in 1..n)
    OBVIOUS
<1>19. Current <= n /\ Current \in Nat
    BY <1>1, <1>3, ChainFacts
<1>20. TypeOK'
  <2>1. ASSUME NEW l \in 1..m
        PROVE  /\ stack'[l].iter \in 1..Len(nest[l].items) \ stack'[l].over
               /\ stack'[l].outer = IF l = 1 THEN 0 ELSE stack'[l - 1].inner
    <3>1. CASE l = m
      <4>1. CASE n = 0
          BY <1>1, <1>5, <1>6, <1>12, <3>1, <4>1, StackFacts
      <4>2. CASE n # 0
        <5>1. Current = stack'[m - 1].inner /\ m # 1
            BY <1>1, <1>12, <1>18, <4>2, StackFacts
        <5> QED
            BY <1>5, <1>6, <1>12, <3>1, <5>1
      <4> QED
          BY <4>1, <4>2
    <3>2. CASE l \in 1..n
      <4>1. l # 1 => l - 1 \in 1..n
          BY <3>2
      <4> QED
          BY <1>1, <1>12, <3>2, <4>1 DEF TypeOK
    <3> QED
        BY <1>13, <3>1, <3>2
  <2> QED
      BY <1>1, <1>2, <1>3, <1>12, <1>15, <2>1 DEF TypeOK
<1>21. Chain'
  <2>1. ASSUME NEW l \in 1..m
        PROVE  /\ stack'[l].inner = IF Isolated(l) \/ Kind(l) = "workflow" THEN l
                                    ELSE stack'[l].outer
               /\ stack'[l].outer < l
               /\ stack'[l].inner # stack'[l].outer =>
                     contexts'[stack'[l].outer] = stack'[l].saved
               /\ ~Isolated(l) => \A j \in stack'[l].over : j < stack'[l].iter
               /\ stack'[l].since <= writes
               /\ stack'[l].saved[X][1] = Depth + 1 => stack'[l].saved[X][2] <= stack'[l].since
    <3>1. CASE l = m
      <4>1. Current < m
          BY <1>19
      <4>2. InnerId(m) # Current => contexts'[Current] = c
          BY <1>3, <1>15
      <4>3. c[X][1] = Depth + 1 => c[X][2] <= writes
          BY <1>3, <1>16 DEF Assigned
      <4> QED
          BY <1>3, <1>6, <1>7, <1>12, <3>1, <4>1, <4>2, <4>3
    <3>2. CASE l \in 1..n
      <4>1. stack[l].inner # stack[l].outer => contexts'[stack[l].outer] = contexts[stack[l].outer]
        <5>1. stack[l].outer \in 0..Depth /\ stack[l].outer < l
            BY <1>1, <3>2, StackFacts DEF Chain
        <5>2. stack[l].outer # m
            BY <3>2, <5>1
        <5>3. stack[l].inner # stack[l].outer => stack[l].outer # Current
            BY <1>1, <3>2, ChainFacts
        <5> QED
            BY <1>7, <1>15, <5>1, <5>2, <5>3
      <4> QED
          BY <1>1, <1>12, <3>2, <4>1 DEF Chain
    <3> QED
        BY <1>13, <3>1, <3>2
  <2>2. ASSUME NEW l \in 1..m, NEW k \in 1..m, l < k
        PROVE  stack'[l].inner <= stack'[k].outer /\ stack'[l].since <= stack'[k].since
    <3>1. l \in 1..n
        BY <2>2
    <3>2. CASE k = m
      <4>1. stack[l].inner <= Current /\ stack[l].since <= writes
          BY <1>1, <3>1, ChainFacts DEF Chain
      <4> QED
          BY <1>6, <1>12, <3>1, <3>2, <4>1
    <3>3. CASE k \in 1..n
        BY <1>1, <1>12, <2>2, <3>1, <3>3 DEF Chain
    <3> QED
        BY <1>13, <3>2, <3>3
  <2> QED
      BY <1>2, <1>12, <2>1, <2>2 DEF Chain, Isolated, Kind, Depth
<1>22. Saved'
  <2>1. ASSUME NEW l \in 1..m
        PROVE  /\ Holds(nest, stack', l - 1, stack'[l].saved)
               /\ Assigned(nest, writes, lost, l - 1, stack'[l].saved[X])
    <3>1. CASE l = m
      <4>1. Holds(nest, stack', n, c)
          BY <1>16, <1>17, HoldsKept
      <4> QED
          BY <1>6, <1>12, <1>16, <1>18, <3>1, <4>1
    <3>2. CASE l \in 1..n
      <4>1. l - 1 \in Nat /\ \A k \in 1..l - 1 : k \in 1..n
          BY <3>2
      <4>2. Holds(nest, stack, l - 1, stack[l].saved)
            /\ Assigned(nest, writes, lost, l - 1, stack[l].saved[X])
          BY <1>1, <3>2 DEF Saved
      <4>3. Holds(nest, stack', l - 1, stack[l].saved)
          BY <1>17, <4>1, <4>2, HoldsKept
      <4> QED
          BY <1>12, <3>2, <4>2, <4>3
    <3> QED
        BY <1>13, <3>1, <3>2
  <2> QED
      BY <1>2, <1>12, <2>1 DEF Saved
<1>23. InForce'
  <2>1. Holds(nest, stack', n + 1, Inner(n + 1, i, Config, c))
    <3>1. stack'[n + 1].iter = i /\ stack'[n + 1].saved = c
        BY <1>6, <1>12
    <3>2. Kind(n + 1) \in {"retry", "each", "concurrent", "parallel", "workflow"}
        BY <1>5
    <3>3. Holds(nest, stack, n, c) /\ i \in Nat \ {0}
        BY <1>5, <1>16
    <3> QED
        BY <1>3, <1>17, <3>1, <3>2, <3>3, EnterHolds
  <2>2. Assigned(nest, writes, lost, n + 1, Inner(n + 1, i, Config, c)[X])
    <3>1. Config[Index][1] <= n /\ c[Index][1] <= n
        BY <1>16 DEF Holds, Bound
    <3> QED
        BY <1>1, <1>3, <1>5, <1>16, <3>1, InnerAssigned
  <2>3. d = Inner(n + 1, i, Config, c)
      BY DEF inside
  <2> QED
      BY <1>2, <1>12, <1>15, <2>1, <2>2, <2>3 DEF InForce
<1>24. Carried'
  <2>1. ASSUME NEW l \in 1..m PROVE Bound(nest, stack', l, stack'[l].config)
    <3>1. CASE l = m
      <4>1. /\ Kind(n + 1) = "retry" => Bound(nest, stack', n + 1, Resolve(Config, c))
            /\ Kind(n + 1) = "workflow" => Bound(nest, stack', n + 1, Nothing)
            /\ Kind(n + 1) \notin {"retry", "workflow"} => Bound(nest, stack', n + 1, Config)
          BY <1>3, <1>6, <1>12, <1>16, <1>17, EnterBound
      <4>2. Bound(nest, stack', m, NestedConfig(m))
          BY <1>5, <4>1 DEF NestedConfig
      <4> QED
          BY <1>6, <1>12, <3>1, <4>2
    <3>2. CASE l \in 1..n
      <4>1. l \in Nat /\ \A k \in 1..l : k \in 1..n
          BY <3>2
      <4>2. \A k \in 1..l - 1 : k \in 1..n
          BY <3>2
      <4>3. Bound(nest, stack, l, stack[l].config)
          BY <1>1, <3>2 DEF Carried
      <4>4. Bound(nest, stack', l, stack[l].config)
          BY <1>17, <4>1, <4>2, <4>3, BoundKept
      <4> QED
          BY <1>12, <3>2, <4>4
    <3> QED
        BY <1>13, <3>1, <3>2
  <2> QED
      BY <1>2, <1>12, <2>1 DEF Carried
<1>25. Succeeded' /\ ReadsNearestScope'
    BY <1>2 DEF Succeeded, ReadsNearestScope
<1> QED
    BY <1>20, <1>21, <1>22, <1>23, <1>24, <1>25 DEF IInv

----------------------------------------------------------------------------
(* A block goes on with another iteration. *)
LEMMA IterateKeeps == IInv /\ Iterate => IInv'
<1> SUFFICES ASSUME IInv, Iterate PROVE IInv'
    OBVIOUS
<1>1. TypeOK /\ Chain /\ Saved /\ InForce /\ Carried
    BY DEF IInv
<1>2. /\ nest' = nest /\ phase' = "call" /\ writes' = writes /\ lost' = lost /\ reads' = <<>>
      /\ Depth' = Depth /\ Contexts' = Contexts /\ Frames' = Frames
    BY NestKept DEF Iterate
<1> PICK n \in Nat : n = Len(stack)
    BY <1>1, StackFacts
<1>3. /\ n # 0 /\ n \in 1..n /\ n - 1 \in Nat /\ n - 1 + 1 = n
      /\ n \in 1..Depth /\ Depth \in Nat /\ nest \in Nests /\ Len(nest) = Depth
      /\ Current \in 0..Depth /\ contexts[Current] \in Contexts
      /\ contexts \in [0..Depth -> Contexts] /\ writes \in Nat /\ lost \in SUBSET (1..writes)
      /\ stack \in Seq(Frames) /\ Top = stack[n]
  <2>1. n # 0 /\ n <= Depth /\ Depth \in Nat
      BY <1>1, StackFacts DEF Iterate
  <2> QED
      BY <1>1, <2>1, StackFacts DEF Top, TypeOK
<1> PICK g : g = stack[n]
    OBVIOUS
<1>4. /\ g \in Frames /\ g.inner = Current /\ g.inner \in 0..Depth /\ g.outer \in 0..Depth
      /\ g.iter \in Nat \ {0} /\ g.saved \in Contexts /\ g.over \in SUBSET Nat
      /\ g.iter \in 1..Len(nest[n].items) \ g.over
      /\ g.inner = IF Isolated(n) \/ Kind(n) = "workflow" THEN n ELSE g.outer
      /\ g.outer < n
      /\ g.inner # g.outer => contexts[g.outer] = g.saved
      /\ ~Isolated(n) => \A j \in g.over : j < g.iter
    BY <1>1, <1>3, StackFacts DEF Chain, TypeOK, Frames
<1> PICK c : c = contexts[g.outer]
    OBVIOUS
<1> DEFINE inside(i) == Inner(n, i, Nothing, c)
           frame(i) == [g EXCEPT !.iter = i, !.over = g.over \cup {g.iter},
                                 !.failed = g.failed \/ phase = "failed"]
<1>5. PICK i \in Remaining :
          /\ stack' = [stack EXCEPT ![n] = frame(i)]
          /\ contexts' = [contexts EXCEPT ![Current] = inside(i)]
  <2>1. PICK i \in Remaining :
            /\ stack' = [stack EXCEPT ![Len(stack)] =
                  [Top EXCEPT !.iter = i, !.over = Top.over \cup {Top.iter},
                              !.failed = Top.failed \/ phase = "failed"]]
            /\ contexts' = [contexts EXCEPT
                  ![Top.inner] = Inner(Len(stack), i, Nothing, contexts[Top.outer])]
      BY DEF Iterate
  <2>2. contexts' = [contexts EXCEPT ![Current] = inside(i)]
      BY <1>3, <1>4, <2>1
  <2>3. stack' = [stack EXCEPT ![n] = frame(i)]
      BY <1>3, <2>1
  <2> QED
      BY <2>2, <2>3
<1>6. Kind(n) \in {"retry", "each", "concurrent", "parallel", "workflow"}
      /\ Len(nest[n].items) \in Nat \ {0}
    BY <1>3, NestFacts
<1>7. /\ i \in 1..Len(nest[n].items) \ (g.over \cup {g.iter}) /\ i \in Nat \ {0}
      /\ ~Isolated(n) => i = g.iter + 1
  <2>1. CASE Isolated(n)
      BY <1>3, <1>6, <2>1 DEF Remaining
  <2>2. CASE ~Isolated(n)
    <3>1. i = g.iter + 1 /\ i \in 1..Len(nest[n].items)
        BY <1>3, <1>6, <2>2 DEF Remaining
    <3>2. \A j \in g.over \cup {g.iter} : j # i
        BY <1>4, <2>2, <3>1
    <3> QED
        BY <1>6, <2>2, <3>1, <3>2
  <2> QED
      BY <2>1, <2>2
<1> PICK f : f = frame(i)
    OBVIOUS
<1> PICK d : d = inside(i)
    OBVIOUS
<1>8. /\ f.outer = g.outer /\ f.inner = g.inner /\ f.iter = i /\ f.over = g.over \cup {g.iter}
      /\ f.config = g.config /\ f.saved = g.saved /\ f.since = g.since
      /\ f \in Frames
  <2>1. (g.failed \/ phase = "failed") \in BOOLEAN
      BY <1>4 DEF Frames
  <2>2. g.over \cup {g.iter} \in SUBSET Nat
      BY <1>4
  <2>3. /\ f.outer = g.outer /\ f.inner = g.inner /\ f.iter = i
        /\ f.over = g.over \cup {g.iter} /\ f.config = g.config
        /\ f.saved = g.saved /\ f.since = g.since
        /\ f = [g EXCEPT !.iter = i, !.over = g.over \cup {g.iter},
                        !.failed = g.failed \/ phase = "failed"]
      BY <1>4
  <2> QED
      BY <1>4, <1>7, <2>1, <2>2, <2>3 DEF Frames
<1>9. c \in Contexts /\ Nothing \in Contexts
    BY <1>3, <1>4, NothingType
<1>10. d \in Contexts
    BY <1>3, <1>6, <1>7, <1>9, InnerTypes
<1>11. stack' = [stack EXCEPT ![n] = f] /\ contexts' = [contexts EXCEPT ![Current] = d]
    BY <1>5
<1> HIDE DEF frame, inside
<1>12. /\ stack' \in Seq(Frames) /\ Len(stack') = n
       /\ \A k \in 1..n : k # n => stack'[k] = stack[k]
       /\ stack'[n] = f
    BY <1>3, <1>8, <1>11, ExceptSeq
<1>13. Current' = Current
  <2>1. stack' # <<>>
      BY <1>3, <1>12, EmptySeq
  <2> QED
      BY <1>4, <1>8, <1>12, <2>1 DEF Current, Top
<1>14. /\ contexts' \in [0..Depth -> Contexts] /\ contexts'[Current'] = d
       /\ \A k \in 0..Depth : k # Current => contexts'[k] = contexts[k]
    BY <1>3, <1>10, <1>11, <1>13
<1>15. /\ \A k \in 1..n - 1 : stack'[k].iter = stack[k].iter /\ stack'[k].saved = stack[k].saved
       /\ \A k \in 1..n : /\ stack'[k].saved = stack[k].saved
                          /\ stack'[k].config = stack[k].config
                          /\ stack'[k].inner = stack[k].inner
                          /\ stack'[k].outer = stack[k].outer
                          /\ stack'[k].since = stack[k].since
  <2>1. \A k \in 1..n - 1 : k \in 1..n /\ k # n
      OBVIOUS
  <2> QED
      BY <1>8, <1>12, <2>1
<1>16. TypeOK'
  <2>1. ASSUME NEW l \in 1..n
        PROVE  /\ stack'[l].iter \in 1..Len(nest[l].items) \ stack'[l].over
               /\ stack'[l].outer = IF l = 1 THEN 0 ELSE stack'[l - 1].inner
    <3>1. l # 1 => l - 1 \in 1..n
        OBVIOUS
    <3>2. stack[l].outer = IF l = 1 THEN 0 ELSE stack[l - 1].inner
        BY <1>1 DEF TypeOK
    <3>3. stack'[l].outer = IF l = 1 THEN 0 ELSE stack'[l - 1].inner
        BY <1>15, <3>1, <3>2
    <3>4. CASE l = n
        BY <1>7, <1>8, <1>12, <3>3, <3>4
    <3>5. CASE l # n
        BY <1>1, <1>12, <3>3, <3>5 DEF TypeOK
    <3> QED
        BY <3>4, <3>5
  <2>2. n <= Depth
      BY <1>3
  <2> QED
      BY <1>1, <1>2, <1>12, <1>14, <2>1, <2>2 DEF TypeOK
<1>17. Chain'
  <2>1. ASSUME NEW l \in 1..n
        PROVE  stack[l].inner # stack[l].outer => contexts'[stack[l].outer] = stack[l].saved
    <3>1. stack[l].outer \in 0..Depth
        BY <1>1, StackFacts
    <3>2. stack[l].inner # stack[l].outer => stack[l].outer # Current
        BY <1>1, ChainFacts
    <3> QED
        BY <1>1, <1>14, <3>1, <3>2 DEF Chain
  <2>2. ASSUME NEW l \in 1..n, ~Isolated(l) PROVE \A j \in stack'[l].over : j < stack'[l].iter
    <3>1. CASE l = n
      <4>1. \A j \in g.over \cup {g.iter} : j < i
          BY <1>4, <1>7, <2>2, <3>1
      <4> QED
          BY <1>8, <1>12, <3>1, <4>1
    <3>2. CASE l # n
        BY <1>1, <1>12, <2>2, <3>2 DEF Chain
    <3> QED
        BY <3>1, <3>2
  <2>3. \A l \in 1..n :
           /\ stack'[l].inner = IF Isolated(l) \/ Kind(l) = "workflow" THEN l ELSE stack'[l].outer
           /\ stack'[l].outer < l
           /\ stack'[l].since <= writes
           /\ stack'[l].saved[X][1] = Depth + 1 => stack'[l].saved[X][2] <= stack'[l].since
      BY <1>1, <1>15 DEF Chain
  <2>4. \A l, k \in 1..n : l < k =>
           /\ stack'[l].inner <= stack'[k].outer
           /\ stack'[l].since <= stack'[k].since
      BY <1>1, <1>15 DEF Chain
  <2>5. \A l \in 1..n :
           stack'[l].inner # stack'[l].outer => contexts'[stack'[l].outer] = stack'[l].saved
      BY <1>15, <2>1
  <2> QED
      BY <1>2, <1>12, <2>2, <2>3, <2>4, <2>5 DEF Chain, Isolated, Kind, Depth
<1>18. Saved'
  <2>1. ASSUME NEW l \in 1..n
        PROVE  /\ Holds(nest, stack', l - 1, stack'[l].saved)
               /\ Assigned(nest, writes, lost, l - 1, stack'[l].saved[X])
    <3>1. l - 1 \in Nat /\ \A k \in 1..l - 1 : k \in 1..n - 1
        OBVIOUS
    <3>2. Holds(nest, stack, l - 1, stack[l].saved)
          /\ Assigned(nest, writes, lost, l - 1, stack[l].saved[X])
        BY <1>1 DEF Saved
    <3>3. \A k \in 1..l - 1 : stack'[k].iter = stack[k].iter /\ stack'[k].saved = stack[k].saved
        BY <1>15, <3>1
    <3>4. Holds(nest, stack', l - 1, stack[l].saved)
        BY <3>1, <3>2, <3>3, HoldsKept
    <3> QED
        BY <1>15, <3>2, <3>4
  <2> QED
      BY <1>2, <1>12, <2>1 DEF Saved
<1>19. Carried'
  <2>1. ASSUME NEW l \in 1..n PROVE Bound(nest, stack', l, stack'[l].config)
    <3>1. l \in Nat /\ (\A k \in 1..l : k \in 1..n) /\ (\A k \in 1..l - 1 : k \in 1..n - 1)
        OBVIOUS
    <3>2. Bound(nest, stack, l, stack[l].config)
        BY <1>1 DEF Carried
    <3>3. /\ \A k \in 1..l : stack'[k].saved = stack[k].saved
          /\ \A k \in 1..l - 1 : stack'[k].iter = stack[k].iter
        BY <1>15, <3>1
    <3>4. Bound(nest, stack', l, stack[l].config)
        BY <3>1, <3>2, <3>3, BoundKept
    <3> QED
        BY <1>15, <3>4
  <2> QED
      BY <1>2, <1>12, <2>1 DEF Carried
<1>20. Holds(nest, stack', n, d) /\ Assigned(nest, writes, lost, n, d[X])
  <2>1. CASE Kind(n) \in {"retry", "each"}
    <3>1. ~Isolated(n) /\ c = contexts[Current]
        BY <1>4, <2>1 DEF Isolated
    <3>2. Holds(nest, stack, n, c) /\ Assigned(nest, writes, lost, n, c[X])
        BY <1>1, <3>1 DEF InForce
    <3>3. /\ n \in Nat \ {0} /\ stack'[n].iter = i /\ stack'[n].saved = stack[n].saved
          /\ stack[n].iter \in Nat /\ stack[n].iter < i
        BY <1>3, <1>4, <1>7, <1>8, <1>12, <3>1
    <3>4. Holds(nest, stack', n, Inner(n, i, Nothing, c)) /\ SameX(c, Inner(n, i, Nothing, c))
      <4>1. \A k \in 1..n - 1 : stack'[k].iter = stack[k].iter /\ stack'[k].saved = stack[k].saved
          BY <1>15
      <4>2. Holds(nest, stack, n, c) /\ i \in Nat \ {0} /\ nest \in Nests
          BY <1>3, <1>7, <3>2
      <4> HIDE DEF inside
      <4>3. Holds(nest, stack', n, Inner(n, i, Nothing, c))
          BY <1>9, <2>1, <3>3, <4>1, <4>2, IterateHolds
      <4>4. SameX(c, Inner(n, i, Nothing, c))
          BY <1>9, <2>1, <3>3, <4>1, <4>2, IterateHolds
      <4> QED
          BY <4>3, <4>4
    <3>5. Holds(nest, stack', n, d) /\ SameX(c, d)
        BY <3>4 DEF inside
    <3> QED
        BY <3>2, <3>5 DEF SameX
  <2>2. CASE Kind(n) \notin {"retry", "each"}
    <3>1. c = g.saved
        BY <1>4, <1>6, <2>2 DEF Isolated
    <3>2. Holds(nest, stack, n - 1, c) /\ Assigned(nest, writes, lost, n - 1, c[X])
        BY <1>1, <1>3, <3>1 DEF Saved
    <3> PICK l \in Nat : l = n - 1
        BY <1>3
    <3>3. l + 1 = n /\ l + 1 <= Depth
        BY <1>3
    <3>4. stack'[l + 1].iter = i /\ stack'[l + 1].saved = c
        BY <1>8, <1>12, <3>1, <3>3
    <3>5. Holds(nest, stack', l + 1, Inner(l + 1, i, Nothing, c))
      <4>1. Kind(l + 1) \in {"retry", "each", "concurrent", "parallel", "workflow"}
          BY <1>6, <3>3
      <4>2. \A k \in 1..l : stack'[k].iter = stack[k].iter /\ stack'[k].saved = stack[k].saved
          BY <1>15
      <4>3. Holds(nest, stack, l, c)
          BY <3>2
      <4> QED
          BY <1>3, <1>7, <1>9, <3>4, <4>1, <4>2, <4>3, EnterHolds
    <3>6. Assigned(nest, writes, lost, l + 1, Inner(l + 1, i, Nothing, c)[X])
      <4>1. Nothing[Index][1] <= l
        <5>1. Nothing[Index] = Absent /\ Absent[1] = 0
            BY <1>3, NothingType, RefFacts DEF Absent
        <5> QED
            BY <5>1
      <4>2. c[Index][1] <= l
          BY <3>2 DEF Holds
      <4> QED
          BY <1>1, <1>7, <1>9, <3>2, <3>3, <4>1, <4>2, InnerAssigned
    <3> QED
        BY <3>3, <3>5, <3>6 DEF inside
  <2> QED
      BY <2>1, <2>2
<1>21. InForce'
    BY <1>2, <1>12, <1>14, <1>20 DEF InForce
<1>22. Succeeded' /\ ReadsNearestScope'
    BY <1>2 DEF Succeeded, ReadsNearestScope
<1> QED
    BY <1>16, <1>17, <1>18, <1>19, <1>21, <1>22 DEF IInv

----------------------------------------------------------------------------
(* A block is left. *)
LEMMA LeaveKeeps == IInv /\ Leave => IInv'
<1> SUFFICES ASSUME IInv, Leave PROVE IInv'
    OBVIOUS
<1>1. TypeOK /\ Chain /\ Saved /\ InForce /\ Carried /\ Succeeded
    BY DEF IInv
<1>2. /\ nest' = nest /\ writes' = writes /\ reads' = <<>>
      /\ Depth' = Depth /\ Contexts' = Contexts /\ Frames' = Frames
    BY NestKept DEF Leave
<1> PICK n \in Nat : n = Len(stack)
    BY <1>1, StackFacts
<1>3. /\ n # 0 /\ n \in 1..n
      /\ n \in 1..Depth /\ Depth \in Nat /\ nest \in Nests /\ Len(nest) = Depth
      /\ Current \in 0..Depth /\ contexts[Current] \in Contexts
      /\ contexts \in [0..Depth -> Contexts] /\ writes \in Nat /\ lost \in SUBSET (1..writes)
      /\ stack \in Seq(Frames) /\ Top = stack[n]
  <2>1. n # 0 /\ n <= Depth /\ Depth \in Nat
      BY <1>1, StackFacts DEF Leave
  <2> QED
      BY <1>1, <2>1, StackFacts DEF Top, TypeOK
<1> PICK m \in Nat : m = n - 1
    BY <1>3
<1>4. /\ m + 1 = n /\ m < n /\ ~(n \in 1..m) /\ m + 1 <= Depth
      /\ \A k \in 1..m : k \in 1..n /\ k < n /\ k # n
    BY <1>3
<1> PICK g : g = stack[n]
    OBVIOUS
<1> PICK c : c = contexts[Current]
    OBVIOUS
<1>5. /\ g.inner = Current /\ g.inner \in 0..Depth /\ g.outer \in 0..Depth
      /\ g.saved \in Contexts /\ g.since \in Nat /\ g.since <= writes
      /\ g.inner = IF Isolated(n) \/ Kind(n) = "workflow" THEN n ELSE g.outer
      /\ g.outer < n /\ g.outer <= g.inner
      /\ g.inner # g.outer => contexts[g.outer] = g.saved
      /\ g.saved[X][1] = Depth + 1 => g.saved[X][2] <= g.since
    BY <1>1, <1>3, StackFacts, ChainFacts DEF Chain
<1>6. Kind(n) \in {"retry", "each", "concurrent", "parallel", "workflow"}
    BY <1>3, NestFacts
<1>7. c \in Contexts /\ c[X] # Absent /\ g.saved[X] # Absent
      /\ c[X] \in Nat \X Nat /\ g.saved[X] \in Nat \X Nat
  <2>1. c[X] # Absent /\ g.saved[X] # Absent
      BY <1>1, <1>3 DEF InForce, Saved, Holds
  <2> QED
      BY <1>3, <1>5, <2>1, RefFacts, ValuesAreNatural
<1> PICK r : r = Restored(contexts[g.outer])
    OBVIOUS
(* What the outer context becomes. *)
<1>8. /\ Kind(n) = "retry" => r = [c EXCEPT ![Attempt] = Absent]
      /\ Kind(n) = "each" => r = [g.saved EXCEPT ![X] = c[X]]
      /\ Kind(n) \in {"concurrent", "parallel"} => r = g.saved
      /\ Kind(n) = "workflow" =>
            IF phase = "ok" /\ Applies(n) THEN r = [g.saved EXCEPT ![X] = c[X]]
            ELSE r = g.saved
  <2>1. CASE Kind(n) \in {"retry", "each"}
    <3>1. contexts[g.outer] = c
        BY <1>5, <2>1 DEF Isolated
    <3> QED
        BY <1>3, <2>1, <3>1 DEF Restored
  <2>2. CASE Kind(n) \in {"concurrent", "parallel", "workflow"}
    <3>1. contexts[g.outer] = g.saved
        BY <1>5, <2>2 DEF Isolated
    <3> QED
        BY <1>3, <1>5, <2>2, <3>1 DEF Restored
  <2> QED
      BY <1>6, <2>1, <2>2
<1>9. r \in Contexts
  <2>1. [g.saved EXCEPT ![X] = c[X]] \in Contexts
      BY <1>3, <1>5, <1>7, RefFacts DEF Contexts
  <2>2. [c EXCEPT ![Attempt] = Absent] \in Contexts
    <3>1. Absent \in Nat \X Nat
        BY DEF Absent
    <3> QED
        BY <1>3, <1>7, <3>1, RefFacts DEF Contexts
  <2> QED
      BY <1>5, <1>6, <1>8, <2>1, <2>2
<1>10. /\ contexts' \in [0..Depth -> Contexts]
       /\ contexts'[g.outer] = r
       /\ \A k \in 0..Depth : k # g.outer /\ k # g.inner => contexts'[k] = contexts[k]
  <2>1. contexts' = LET restored == [contexts EXCEPT ![g.outer] = r]
                    IN  IF g.inner = g.outer THEN restored
                        ELSE [restored EXCEPT ![g.inner] = Nothing]
      BY <1>3 DEF Leave
  <2>2. Nothing \in Contexts
      BY <1>3, NothingType
  <2> DEFINE restored == [contexts EXCEPT ![g.outer] = r]
  <2>3. /\ restored \in [0..Depth -> Contexts] /\ restored[g.outer] = r
        /\ \A k \in 0..Depth : k # g.outer => restored[k] = contexts[k]
      BY <1>3, <1>5, <1>9
  <2> HIDE DEF restored
  <2>4. contexts' = IF g.inner = g.outer THEN restored
                    ELSE [restored EXCEPT ![g.inner] = Nothing]
      BY <2>1 DEF restored
  <2> QED
      BY <1>3, <1>5, <2>2, <2>3, <2>4
<1>11. /\ stack' \in Seq(Frames) /\ Len(stack') = m
       /\ \A k \in 1..m : stack'[k] = stack[k]
  <2>1. stack' = SubSeq(stack, 1, n - 1)
      BY DEF Leave
  <2>2. m \in 0..Len(stack)
      BY <1>4
  <2> QED
      BY <1>3, <2>1, <2>2, SubSeqProperties
<1>12. Current' = g.outer
  <2>1. g.outer = IF n = 1 THEN 0 ELSE stack[m].inner
      BY <1>1, <1>3 DEF TypeOK
  <2>2. CASE m = 0
    <3>1. stack' = <<>>
        BY <1>11, <2>2, EmptySeq
    <3> QED
        BY <1>4, <2>1, <2>2, <3>1 DEF Current
  <2>3. CASE m # 0
    <3>1. stack' # <<>> /\ m \in 1..m /\ n # 1
      <4>1. Len(<<>>) = 0
          OBVIOUS
      <4>2. stack' # <<>>
          BY <1>11, <2>3, <4>1
      <4>3. m \in 1..m /\ n # 1
          BY <1>4, <2>3
      <4> QED
          BY <4>2, <4>3
    <3>2. Current' = stack'[m].inner
        BY <1>11, <3>1 DEF Current, Top
    <3> QED
        BY <1>11, <2>1, <3>1, <3>2
  <2> QED
      BY <2>2, <2>3
<1>13. /\ phase' \in {"call", "ok", "failed"}
       /\ phase' = "ok" => phase = "ok"
       /\ lost' = IF Kind(n) = "workflow" /\ phase = "failed"
                  THEN lost \cup (g.since + 1..writes) ELSE lost
       /\ phase \in {"ok", "failed"}
  <2>1. phase \in {"ok", "failed"} /\ phase' \in Answers
      BY <1>1, <1>3 DEF Leave, TypeOK
  <2>2. Answers \subseteq {phase, "failed"}
      BY DEF Answers
  <2>3. phase' \in {phase, "failed"}
      BY <2>1, <2>2
  <2> QED
      BY <1>1, <1>3, <2>1, <2>3 DEF Leave
<1>14. lost' \in SUBSET (1..writes)
  <2>1. g.since + 1..writes \subseteq 1..writes
      BY <1>3, <1>5
  <2> QED
      BY <1>3, <1>13, <2>1
<1>15. TypeOK'
  <2>1. ASSUME NEW l \in 1..m
        PROVE  /\ stack'[l].iter \in 1..Len(nest[l].items) \ stack'[l].over
               /\ stack'[l].outer = IF l = 1 THEN 0 ELSE stack'[l - 1].inner
    <3>1. l # 1 => l - 1 \in 1..m
        OBVIOUS
    <3> QED
        BY <1>1, <1>4, <1>11, <3>1 DEF TypeOK
  <2>2. m <= Depth
      BY <1>3, <1>4
  <2> QED
      BY <1>1, <1>2, <1>10, <1>11, <1>13, <1>14, <2>1, <2>2 DEF TypeOK
<1>16. Chain'
  <2>1. ASSUME NEW l \in 1..m, stack[l].inner # stack[l].outer
        PROVE  contexts'[stack[l].outer] = stack[l].saved
    <3>1. stack[l].outer \in 0..Depth /\ stack[l].outer < l /\ stack[l].inner = l
          /\ stack[l].inner <= g.outer /\ contexts[stack[l].outer] = stack[l].saved
        BY <1>1, <1>3, <1>4, <2>1, StackFacts, ChainFacts DEF Chain
    <3>2. stack[l].outer # g.outer /\ stack[l].outer # g.inner
        BY <1>5, <3>1
    <3> QED
        BY <1>10, <3>1, <3>2
  <2>2. \A l \in 1..m :
           /\ stack'[l].inner = IF Isolated(l) \/ Kind(l) = "workflow" THEN l ELSE stack'[l].outer
           /\ stack'[l].outer < l
           /\ ~Isolated(l) => \A j \in stack'[l].over : j < stack'[l].iter
           /\ stack'[l].since <= writes
           /\ stack'[l].saved[X][1] = Depth + 1 => stack'[l].saved[X][2] <= stack'[l].since
      BY <1>1, <1>4, <1>11 DEF Chain
  <2>3. \A l, k \in 1..m : l < k =>
           /\ stack'[l].inner <= stack'[k].outer
           /\ stack'[l].since <= stack'[k].since
      BY <1>1, <1>4, <1>11 DEF Chain
  <2>4. \A l \in 1..m :
           stack'[l].inner # stack'[l].outer => contexts'[stack'[l].outer] = stack'[l].saved
      BY <1>11, <2>1
  <2> QED
      BY <1>2, <1>11, <2>2, <2>3, <2>4 DEF Chain, Isolated, Kind, Depth
<1>17. \A k \in 1..m : stack'[k].iter = stack[k].iter /\ stack'[k].saved = stack[k].saved
    BY <1>11
(* What was assigned before the block began is not lost with it.            *)
<1>18. ASSUME NEW l \in Nat, NEW value \in Nat \X Nat,
              Assigned(nest, writes, lost, l, value),
              value[1] = Depth + 1 => value[2] <= g.since
       PROVE  Assigned(nest, writes, lost', l, value)
  <2>1. value[1] = Depth + 1 => value[2] \notin g.since + 1..writes
      BY <1>5, <1>18
  <2>2. value[1] = Len(nest) + 1 => value[2] \in 1..writes \ lost'
      BY <1>3, <1>13, <1>18, <2>1 DEF Assigned
  <2> QED
      BY <1>18, <2>2 DEF Assigned
<1>19. Saved'
  <2>1. ASSUME NEW l \in 1..m
        PROVE  /\ Holds(nest, stack', l - 1, stack'[l].saved)
               /\ Assigned(nest, writes, lost', l - 1, stack'[l].saved[X])
    <3>1. l - 1 \in Nat /\ \A k \in 1..l - 1 : k \in 1..m
        OBVIOUS
    <3>2. Holds(nest, stack, l - 1, stack[l].saved)
          /\ Assigned(nest, writes, lost, l - 1, stack[l].saved[X])
        BY <1>1, <1>4 DEF Saved
    <3>3. Holds(nest, stack', l - 1, stack[l].saved)
        BY <1>17, <3>1, <3>2, HoldsKept
    <3>4. stack[l].saved \in Contexts /\ stack[l].since \in Nat
        BY <1>1, <1>4, StackFacts
    <3>5. stack[l].saved[X] \in Nat \X Nat /\ stack[l].saved[X][2] \in Nat
        BY <1>3, <3>4, RefFacts, ValuesAreNatural
    <3>6. stack[l].since <= g.since
          /\ (stack[l].saved[X][1] = Depth + 1 => stack[l].saved[X][2] <= stack[l].since)
        BY <1>1, <1>3, <1>4 DEF Chain
    <3>7. stack[l].saved[X][1] = Depth + 1 => stack[l].saved[X][2] <= g.since
        BY <1>5, <3>4, <3>5, <3>6
    <3>8. Assigned(nest, writes, lost', l - 1, stack[l].saved[X])
        BY <1>18, <3>1, <3>2, <3>5, <3>7
    <3> QED
        BY <1>11, <3>3, <3>8
  <2> QED
      BY <1>2, <1>11, <2>1 DEF Saved
<1>20. Carried'
  <2>1. ASSUME NEW l \in 1..m PROVE Bound(nest, stack', l, stack'[l].config)
    <3>1. l \in Nat /\ (\A k \in 1..l : k \in 1..m) /\ (\A k \in 1..l - 1 : k \in 1..m)
        OBVIOUS
    <3>2. Bound(nest, stack, l, stack[l].config)
        BY <1>1, <1>4 DEF Carried
    <3>3. Bound(nest, stack', l, stack[l].config)
        BY <1>17, <3>1, <3>2, BoundKept
    <3> QED
        BY <1>11, <3>3
  <2> QED
      BY <1>2, <1>11, <2>1 DEF Carried
<1>21. /\ Holds(nest, stack, n, c) /\ Assigned(nest, writes, lost, n, c[X])
       /\ Holds(nest, stack, m, g.saved) /\ Assigned(nest, writes, lost, m, g.saved[X])
  <2>1. Holds(nest, stack, n, c) /\ Assigned(nest, writes, lost, n, c[X])
      BY <1>1 DEF InForce
  <2>2. Holds(nest, stack, n - 1, g.saved) /\ Assigned(nest, writes, lost, n - 1, g.saved[X])
      BY <1>1, <1>3 DEF Saved
  <2> QED
      BY <2>1, <2>2
<1>22. ~Isolated(n) => Assigned(nest, writes, lost, m, c[X])
  <2>1. \A k \in m + 1..Len(nest) : k = n \/ k \in n + 1..Len(nest)
      BY <1>3, <1>4
  <2> QED
      BY <1>21, <2>1 DEF Assigned, Isolated, Kind
<1>23. [g.saved EXCEPT ![X] = c[X]][X] = c[X] /\ [c EXCEPT ![Attempt] = Absent][X] = c[X]
    BY <1>3, <1>5, <1>7, RefFacts DEF Contexts
<1>24. Holds(nest, stack, m, r)
  <2>1. CASE Kind(n) = "retry"
    <3>1. m # 0 => Kind(m) # "retry"
      <4>1. m # 0 => m \in 1..Depth /\ m # Depth
          BY <1>3, <1>4
      <4> QED
          BY <1>3, <1>4, <2>1, <4>1, NestFacts
    <3>2. /\ Kind(m + 1) = "retry" /\ stack[m + 1].saved = g.saved
          /\ Holds(nest, stack, m + 1, c)
        BY <1>4, <1>21, <2>1
    <3>3. Holds(nest, stack, m, [c EXCEPT ![Attempt] = Absent])
        BY <1>3, <1>4, <1>5, <1>7, <1>21, <3>1, <3>2, LeaveRetryHolds
    <3> QED
        BY <1>8, <2>1, <3>3
  <2>2. CASE r = [g.saved EXCEPT ![X] = c[X]]
    <3>1. Holds(nest, stack, m, [g.saved EXCEPT ![X] = c[X]])
        BY <1>3, <1>5, <1>7, <1>21, HoldsAssigned
    <3> QED
        BY <2>2, <3>1
  <2>3. CASE r = g.saved
      BY <1>21, <2>3
  <2> QED
      BY <1>6, <1>8, <2>1, <2>2, <2>3
<1>25. Assigned(nest, writes, lost', m, r[X])
  <2>1. CASE r = g.saved
      BY <1>5, <1>7, <1>18, <1>21, <2>1
  <2>2. CASE r # g.saved
    <3>1. r[X] = c[X] /\ ~Isolated(n) /\ lost' = lost
        BY <1>6, <1>8, <1>13, <1>23, <2>2 DEF Isolated
    <3> QED
        BY <1>22, <3>1
  <2> QED
      BY <2>1, <2>2
<1>26. InForce'
  <2>1. Holds(nest, stack', m, r)
      BY <1>17, <1>24, HoldsKept
  <2> QED
      BY <1>2, <1>10, <1>11, <1>12, <1>25, <2>1 DEF InForce
<1>27. Succeeded'
  <2>1. ASSUME phase' = "ok", \A l \in 1..Depth : ~Isolated(l)
        PROVE  r[X] = <<Depth + 1, writes>>
    <3>1. c[X] = <<Depth + 1, writes>>
        BY <1>1, <1>13, <2>1 DEF Succeeded
    <3>2. Applies(n) /\ ~Isolated(n)
      <4>1. n = 1 \/ n - 1 \in 1..Depth
          BY <1>3
      <4> QED
          BY <1>3, <2>1, <4>1 DEF Applies
    <3>3. phase = "ok" /\ Kind(n) \in {"retry", "each", "workflow"}
        BY <1>6, <1>13, <2>1, <3>2 DEF Isolated
    <3> QED
        BY <1>8, <1>23, <3>1, <3>2, <3>3
  <2> QED
      BY <1>2, <1>10, <1>12, <2>1 DEF Succeeded, Isolated, Kind
<1>28. ReadsNearestScope'
    BY <1>2 DEF ReadsNearestScope
<1> QED
    BY <1>15, <1>16, <1>19, <1>20, <1>26, <1>27, <1>28 DEF IInv

----------------------------------------------------------------------------
LEMMA StutterKeeps == IInv /\ UNCHANGED vars => IInv'
<1> SUFFICES ASSUME IInv, UNCHANGED vars PROVE IInv'
    OBVIOUS
<1>1. /\ nest' = nest /\ stack' = stack /\ contexts' = contexts /\ phase' = phase
      /\ writes' = writes /\ lost' = lost /\ reads' = reads
    BY DEF vars
<1>2. /\ Depth' = Depth /\ Contexts' = Contexts /\ Frames' = Frames /\ Current' = Current
    BY <1>1, NestKept DEF Current, Top
<1>3. TypeOK'
    BY <1>1, <1>2 DEF IInv, TypeOK
<1>4. Chain'
    BY <1>1, <1>2 DEF IInv, Chain, Isolated, Kind
<1>5. Saved' /\ InForce' /\ Carried'
    BY <1>1, <1>2 DEF IInv, Saved, InForce, Carried
<1>6. Succeeded'
    BY <1>1, <1>2 DEF IInv, Succeeded, Isolated, Kind
<1>7. ReadsNearestScope'
  <2>1. Loops' = Loops /\ Retries' = Retries /\ Binding' = Binding
      BY <1>1 DEF Loops, Retries, Binding, Around, Kind, Depth
  <2> QED
      BY <1>1, <2>1 DEF IInv, ReadsNearestScope, Now, Kind
<1> QED
    BY <1>3, <1>4, <1>5, <1>6, <1>7 DEF IInv

(* The contexts, the configurations and the stack agree at every step.      *)
THEOREM Invariance == Spec => []IInv
<1>1. Init => IInv
    BY InitHolds
<1>2. IInv /\ [Next]_vars => IInv'
    BY EnterKeeps, ExecuteHolds, IterateKeeps, LeaveKeeps, StutterKeeps DEF Next, Terminated
<1> QED
    BY <1>1, <1>2, PTL DEF Spec

(* Every frame is one of a block of the nest, at one of its iterations, and *)
(* every context binds references to values.                                *)
THEOREM TypeCorrect == Spec => []TypeOK
<1>1. IInv => TypeOK
    BY DEF IInv
<1> QED
    BY <1>1, Invariance, PTL

(* Whenever control is with a retry or a loop, its own built-ins are those  *)
(* of its current iteration, whatever was nested in it; and no built-in is  *)
(* left when the step is.                                                   *)
THEOREM BuiltinsInForce == Spec => []OwnBuiltinsInForce
<1>1. IInv => OwnBuiltinsInForce
  <2> SUFFICES ASSUME IInv PROVE OwnBuiltinsInForce
      OBVIOUS
  <2>1. TypeOK /\ InForce
      BY DEF IInv
  <2> PICK n \in Nat : n = Len(stack)
      BY <2>1, StackFacts
  <2>2. Holds(nest, stack, n, contexts[Current])
      BY <2>1 DEF InForce
  <2>3. ASSUME stack # <<>>
        PROVE  /\ Kind(n) = "retry" => contexts[Top.inner][Attempt] = <<n, Top.iter>>
               /\ Kind(n) \in {"each", "concurrent"} =>
                     contexts[Top.inner][Index] = <<n, Top.iter>>
    <3>1. n # 0 /\ Current = Top.inner /\ Top = stack[n] /\ n \in 1..n
        BY <2>1, <2>3, StackFacts DEF Current, Top
    <3>2. ASSUME Kind(n) = "retry" PROVE contexts[Top.inner][Attempt] = <<n, Top.iter>>
        BY <2>2, <3>1, <3>2 DEF Holds, NowIn, Kind
    <3>3. ASSUME Kind(n) \in {"each", "concurrent"}
          PROVE  contexts[Top.inner][Index] = <<n, Top.iter>>
      <4>1. \A j \in n..n : nest[j].kind # "workflow"
          BY <3>3 DEF Kind
      <4>2. n \in LoopsAt(nest, n)
          BY <3>1, <3>3, <4>1 DEF LoopsAt, Kind
      <4>3. LoopsAt(nest, n) \in SUBSET (1..n)
          BY Ranges
      <4>4. LoopsAt(nest, n) \in SUBSET Nat /\ \A j \in LoopsAt(nest, n) : j <= n
          BY <4>3
      <4>5. Greatest(LoopsAt(nest, n)) = n
          BY <4>2, <4>4, GreatestIs
      <4> QED
          BY <2>2, <3>1, <4>2, <4>5 DEF Holds, NowIn
    <3> QED
        BY <3>2, <3>3
  <2>4. ASSUME stack = <<>>
        PROVE  contexts[0] = [Nothing EXCEPT ![X] = contexts[0][X]]
    <3>1. n = 0 /\ Current = 0 /\ contexts[0] \in Contexts /\ nest \in Nests
        BY <2>1, <2>4, StackFacts
    <3>2. DOMAIN contexts[0] = Refs /\ contexts[0] = [r \in Refs |-> contexts[0][r]]
        BY <3>1 DEF Contexts
    <3>3. \A r \in Refs : r # X => contexts[0][r] = Nothing[r]
        BY <2>2, <3>1, <3>2, NothingType DEF Holds
    <3> QED
        BY <3>2, <3>3 DEF Nothing
  <2> QED
      BY <2>3, <2>4 DEF OwnBuiltinsInForce
<1> QED
    BY <1>1, Invariance, PTL

(* What the innermost block reads is of the nearest scope that has it, or   *)
(* was bound by a retry around it.                                          *)
THEOREM NearestScopeRead == Spec => []ReadsNearestScope
<1>1. IInv => ReadsNearestScope
    BY DEF IInv
<1> QED
    BY <1>1, Invariance, PTL

(* Nothing changes outside a branch or a workflow while it runs; nothing    *)
(* assigned in a branch or a failed workflow gets out; what was assigned    *)
(* last in a step that succeeds without branches stays.                     *)
THEOREM AssignmentsInScope == Spec => []AssignmentsReachTheirScope
<1>1. IInv => AssignmentsReachTheirScope
  <2> SUFFICES ASSUME IInv PROVE AssignmentsReachTheirScope
      OBVIOUS
  <2>1. TypeOK /\ InForce /\ Chain /\ Succeeded
      BY DEF IInv
  <2>2. \A l \in 1..Len(stack) :
           stack[l].inner # stack[l].outer => contexts[stack[l].outer] = stack[l].saved
      BY <2>1 DEF Chain
  <2>3. ASSUME stack = <<>>
        PROVE  /\ (\E l \in 1..Depth : Isolated(l)) => contexts[0][X][1] # Depth + 1
               /\ phase = "ok" /\ (\A l \in 1..Depth : ~Isolated(l)) =>
                     contexts[0][X] = <<Depth + 1, writes>>
               /\ contexts[0][X][1] = Depth + 1 => contexts[0][X][2] \notin lost
    <3>1. Len(stack) = 0 /\ Current = 0 /\ Len(nest) = Depth /\ Depth \in Nat
        BY <2>1, <2>3, StackFacts
    <3>2. Assigned(nest, writes, lost, 0, contexts[0][X])
        BY <2>1, <3>1 DEF InForce
    <3>3. \A l \in 1..Depth : l \in 0 + 1..Len(nest)
        BY <3>1
    <3> QED
        BY <2>1, <3>1, <3>2, <3>3 DEF Assigned, Succeeded, Isolated, Kind
  <2> QED
      BY <2>2, <2>3 DEF AssignmentsReachTheirScope
<1> QED
    BY <1>1, Invariance, PTL


===============================================================================
