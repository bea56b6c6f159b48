------------------------ MODULE EnforcementMC_proofs ------------------------
(***************************************************************************)
(* From a policy to a tool call, for every catalogue of policies, every    *)
(* lifetime of the caches, and any number of requests, tools and workers.  *)
(*                                                                         *)
(* Sidecar: a condition is a finite tree, so what is computed from what it *)
(* is on the parts is computed for all of them, once (Recursion,           *)
(* OneAnswer); service and sidecar are compared part by part. Clients: an  *)
(* entry of a cache is no younger than the policies it was decided on.     *)
(* Wrapper: a configuration that does not show a pin is from before it, so *)
(* the pin is no older than the configuration (Behind). Proxy: a call that *)
(* is left to the answer was asked about or is still on the list.          *)
(* Policies: what an edit has loaded is what the policy is, unless another *)
(* has written (EditInv). Repositories: a token is sealed once, for its    *)
(* own row, and before the first restart by the key every worker has or    *)
(* none does (BoxInv).                                                     *)
(***************************************************************************)
EXTENDS EnforcementMC, FiniteSetTheorems, FunctionTheorems, SequenceTheorems,
        WellFoundedInduction, TLAPS

-----------------------------------------------------------------------------
(* A set of numbers that is not empty has a least.                         *)
LEMMA LeastNumber ==
  ASSUME NEW set \in SUBSET Nat, set # {}
  PROVE  \E x \in set : \A y \in set : x <= y
<1> DEFINE R == {ss \in Nat \X Nat : ss[1] < ss[2]}
<1>1. IsWellFoundedOn(R, Nat)
  BY NatLessThanWellFounded DEF OpToRel
<1>2. PICK x \in set : \A y \in set : <<y, x>> \notin R
  <2> HIDE DEF R
  <2> QED BY <1>1, WFMin
<1>3. ASSUME NEW y \in set PROVE x <= y
  <2>1. ~(y < x)
    BY <1>2
  <2> QED BY <2>1
<1> QED BY <1>3

(* What f is on the parts of a node.                                       *)
PartsOf(f, parts) == [i \in DOMAIN parts |-> f[parts[i]]]

(* C is a set of finite trees: the parts of each have a lesser depth, and J *)
(* says something in V of a tree, given what it says of the parts.         *)
Trees(C, d, args, V, J) ==
  /\ d \in [C -> Nat] /\ args \in [C -> Seq(C)]
  /\ \A c \in C : \A i \in DOMAIN args[c] : d[args[c][i]] < d[c]
  /\ \A c \in C : \A s \in Seq(V) : J[<<c, s>>] \in V

(* What is computed on finite trees from what it is on the parts of each   *)
(* is defined for all of them.                                             *)
LEMMA Recursion ==
  ASSUME NEW C, NEW d, NEW args, NEW V, NEW J, Trees(C, d, args, V, J)
  PROVE  \E f \in [C -> V] :
           \A c \in C : f[c] = J[<<c, PartsOf(f, args[c])>>]
<1> USE DEF PartsOf, Trees
<1> DEFINE Up(n) == {c \in C : d[c] < n}
           Parts(g, c) == [i \in DOMAIN args[c] |-> g[args[c][i]]]
           Good(n, g) == g \in [Up(n) -> V] /\ \A c \in Up(n) : g[c] = J[<<c, Parts(g, c)>>]
<1>1. \A c \in C : \A i \in DOMAIN args[c] : args[c][i] \in C
  OBVIOUS
<1>2. ASSUME NEW n \in Nat, NEW m \in Nat, NEW g, NEW h, Good(n, g), Good(m, h), n <= m
      PROVE  \A c \in Up(n) : g[c] = h[c]
  <2> DEFINE Bad == {k \in Nat : \E c \in Up(n) : d[c] = k /\ g[c] # h[c]}
  <2> SUFFICES ASSUME Bad # {} PROVE FALSE
    OBVIOUS
  <2>1. PICK k \in Bad : \A j \in Bad : k <= j
    BY LeastNumber
  <2>2. PICK c \in Up(n) : d[c] = k /\ g[c] # h[c]
    BY <2>1
  <2>3. \A i \in DOMAIN args[c] : args[c][i] \in Up(n) /\ g[args[c][i]] = h[args[c][i]]
    <3> SUFFICES ASSUME NEW i \in DOMAIN args[c]
                 PROVE  args[c][i] \in Up(n) /\ g[args[c][i]] = h[args[c][i]]
      OBVIOUS
    <3> DEFINE a == args[c][i]
    <3>1. a \in C /\ d[a] < k /\ d[a] \in Nat
      BY <1>1, <2>2
    <3>2. a \in Up(n)
      BY <2>2, <3>1
    <3>3. d[a] \notin Bad
      BY <2>1, <3>1
    <3> QED BY <3>1, <3>2, <3>3
  <2>4. Parts(g, c) = Parts(h, c)
    BY <2>3
  <2>5. c \in Up(m)
    BY <1>2, <2>2
  <2>6. g[c] = J[<<c, Parts(g, c)>>]
    <3> HIDE DEF Parts, Up
    <3> QED BY <1>2, <2>2
  <2>7. h[c] = J[<<c, Parts(h, c)>>]
    <3> HIDE DEF Parts, Up
    <3> QED BY <1>2, <2>5
  <2> HIDE DEF Parts
  <2> QED BY <2>2, <2>4, <2>6, <2>7
<1>3. ASSUME NEW n \in Nat PROVE \E g : Good(n, g)
  <2> DEFINE Bad == {k \in Nat : ~\E g : Good(k, g)}
  <2> SUFFICES ASSUME Bad # {} PROVE FALSE
    OBVIOUS
  <2>1. PICK k \in Bad : \A j \in Bad : k <= j
    BY LeastNumber
  <2>2. CASE k = 0
    <3>1. Up(0) = {}
      OBVIOUS
    <3>2. Good(0, [c \in {} |-> c])
      BY <3>1
    <3> QED BY <2>1, <2>2, <3>2
  <2>3. CASE k # 0
    <3>0. k \in Nat
      BY <2>1
    <3>1. k - 1 \in Nat /\ k - 1 \notin Bad
      <4>1. k - 1 \in Nat /\ ~(k <= k - 1)
        BY <2>3, <3>0
      <4> HIDE DEF Bad
      <4> QED BY <2>1, <4>1
    <3>2. PICK g : Good(k - 1, g)
      BY <3>1
    <3> DEFINE h == [c \in Up(k) |-> J[<<c, Parts(g, c)>>]]
    <3>3. \A c \in Up(k) : \A i \in DOMAIN args[c] : args[c][i] \in Up(k - 1)
      BY <1>1, <2>1
    <3>4. \A c \in Up(k) : Parts(g, c) \in Seq(V)
      <4> SUFFICES ASSUME NEW c \in Up(k) PROVE Parts(g, c) \in Seq(V)
        OBVIOUS
      <4>1. \A i \in DOMAIN args[c] : g[args[c][i]] \in V
        BY <3>2, <3>3
      <4>2. args[c] \in Seq(C)
        OBVIOUS
      <4>3. Len(args[c]) \in Nat /\ DOMAIN args[c] = 1 .. Len(args[c])
        BY <4>2
      <4> QED BY <4>1, <4>3
    <3>5. \A c \in Up(k - 1) : c \in Up(k) /\ h[c] = g[c]
      <4>1. \A c \in Up(k - 1) : c \in Up(k)
        BY <3>0
      <4>2. \A c \in Up(k - 1) : g[c] = J[<<c, Parts(g, c)>>]
        <5> HIDE DEF Up, Parts
        <5> QED BY <3>2
      <4> HIDE DEF Up, Parts
      <4> QED BY <4>1, <4>2
    <3>6. \A c \in Up(k) : Parts(h, c) = Parts(g, c)
      BY <3>3, <3>5
    <3>7. \A c \in Up(k) : h[c] = J[<<c, Parts(g, c)>>] /\ h[c] \in V
      BY <3>4
    <3>8. Good(k, h)
      <4>1. h \in [Up(k) -> V]
        BY <3>7
      <4> HIDE DEF h, Parts, Up
      <4> QED BY <3>6, <3>7, <4>1
    <3> QED BY <2>1, <3>8
  <2> QED BY <2>2, <2>3
<1> DEFINE family(n) == CHOOSE g : Good(n, g)
           f == [c \in C |-> family(d[c] + 1)[c]]
<1>4. \A n \in Nat : Good(n, family(n))
  <2> HIDE DEF Good
  <2> QED BY <1>3
<1>5. \A c \in C : d[c] + 1 \in Nat /\ c \in Up(d[c] + 1)
  OBVIOUS
<1>6. f \in [C -> V]
  <2>1. \A n \in Nat : \A c \in Up(n) : family(n)[c] \in V
    <3> HIDE DEF family, Up
    <3> QED BY <1>4
  <2> HIDE DEF family, Up
  <2> QED BY <1>5, <2>1
<1>7. ASSUME NEW c \in C PROVE f[c] = J[<<c, Parts(f, c)>>]
  <2>1. \A i \in DOMAIN args[c] : f[args[c][i]] = family(d[c] + 1)[args[c][i]]
    <3> SUFFICES ASSUME NEW i \in DOMAIN args[c]
                 PROVE  f[args[c][i]] = family(d[c] + 1)[args[c][i]]
      OBVIOUS
    <3> DEFINE a == args[c][i]
    <3>1. a \in C /\ d[a] + 1 <= d[c] + 1 /\ d[a] + 1 \in Nat /\ d[c] + 1 \in Nat
      BY <1>1
    <3>2. Good(d[a] + 1, family(d[a] + 1)) /\ Good(d[c] + 1, family(d[c] + 1))
      BY <1>4, <3>1
    <3>3. a \in Up(d[a] + 1)
      BY <3>1
    <3>4. family(d[a] + 1)[a] = family(d[c] + 1)[a]
      <4> HIDE DEF Good, family, Up
      <4> QED BY <1>2, <3>1, <3>2, <3>3
    <3> HIDE DEF family
    <3> QED BY <3>1, <3>4
  <2>2. Parts(f, c) = Parts(family(d[c] + 1), c)
    <3> HIDE DEF family, f
    <3> QED BY <2>1
  <2>3. family(d[c] + 1)[c] = J[<<c, Parts(family(d[c] + 1), c)>>]
    <3> HIDE DEF family, Up, Parts
    <3> QED BY <1>4, <1>5
  <2>4. f[c] = family(d[c] + 1)[c]
    <3> HIDE DEF family
    <3> QED OBVIOUS
  <2> HIDE DEF f, family, Parts
  <2> QED BY <2>2, <2>3, <2>4
<1> HIDE DEF f
<1> QED BY <1>6, <1>7

-----------------------------------------------------------------------------
(* The least number of a set, by its definition.                           *)
LEMMA MinIs ==
  ASSUME NEW T \in SUBSET Nat, T # {}
  PROVE  S!Min(T) \in T /\ \A y \in T : S!Min(T) <= y
<1>1. S!Min(T) = CHOOSE x \in T : \A y \in T : x <= y
  BY DEF S!Min
<1> QED BY <1>1, LeastNumber

(* A set of conditions that holds each whose operands it holds is all.     *)
LEMMA EveryCondition ==
  ASSUME NEW T \in SUBSET Conditions,
         \A c \in Conditions : (\A i \in DOMAIN S!Args(c) : S!Args(c)[i] \in T) => c \in T
  PROVE  T = Conditions
<1>1. /\ Depth \in [Conditions -> Nat]
      /\ \A c \in Conditions :
           /\ S!Args(c) \in Seq(Conditions)
           /\ \A i \in DOMAIN S!Args(c) : Depth[S!Args(c)[i]] < Depth[c]
  BY EnforcementAssumption DEF S!EngineAssumption
<1> DEFINE Bad == {k \in Nat : \E c \in Conditions : c \notin T /\ Depth[c] = k}
<1> SUFFICES ASSUME Bad # {} PROVE FALSE
  BY <1>1
<1>2. PICK k \in Bad : \A j \in Bad : k <= j
  BY LeastNumber
<1>3. PICK c \in Conditions : c \notin T /\ Depth[c] = k
  BY <1>2
<1>4. ASSUME NEW i \in DOMAIN S!Args(c) PROVE S!Args(c)[i] \in T
  <2> DEFINE a == S!Args(c)[i]
  <2>1. a \in Conditions
    BY <1>1
  <2>2. Depth[a] \in Nat /\ k \in Nat /\ ~(k <= Depth[a])
    BY <1>1, <1>3, <2>1
  <2>3. Depth[a] \notin Bad
    <3> HIDE DEF Bad, a
    <3> QED BY <1>2, <2>2
  <2> HIDE DEF a
  <2>4. a \in T
    BY <2>1, <2>2, <2>3
  <2> QED BY <2>4 DEF a
<1> QED BY <1>3, <1>4

(* Two functions that are equal on a condition when they are on its        *)
(* operands are equal on every condition.                                  *)
Agree(f, g) ==
  \A c \in Conditions :
    (\A i \in DOMAIN S!Args(c) : f[S!Args(c)[i]] = g[S!Args(c)[i]]) => f[c] = g[c]

(* Two ways to compute on conditions that agree on their parts agree.      *)
LEMMA OneAnswer ==
  ASSUME NEW f, NEW g, Agree(f, g)
  PROVE  \A c \in Conditions : f[c] = g[c]
<1> DEFINE T == {c \in Conditions : f[c] = g[c]}
<1>1. ASSUME NEW c \in Conditions, \A i \in DOMAIN S!Args(c) : S!Args(c)[i] \in T PROVE c \in T
  BY <1>1 DEF Agree
<1>2. T = Conditions
  <2>1. T \in SUBSET Conditions
    OBVIOUS
  <2> HIDE DEF T
  <2> QED BY <1>1, <2>1, EveryCondition
<1> QED BY <1>2

(* What is computed on a condition from what it is on its operands.        *)
Foldable(V, J) == \A c \in Conditions : \A s \in Seq(V) : J[<<c, s>>] \in V

(* What is computed on conditions from their parts is computed for each.   *)
LEMMA OnConditions ==
  ASSUME NEW V, NEW J, Foldable(V, J)
  PROVE  \E f \in [Conditions -> V] :
           \A c \in Conditions : f[c] = J[<<c, PartsOf(f, S!Args(c))>>]
<1> DEFINE args == [c \in Conditions |-> S!Args(c)]
<1>1. /\ Depth \in [Conditions -> Nat]
      /\ \A c \in Conditions :
           /\ S!Args(c) \in Seq(Conditions)
           /\ \A i \in DOMAIN S!Args(c) : Depth[S!Args(c)[i]] < Depth[c]
  BY EnforcementAssumption DEF S!EngineAssumption
<1>2. \A c \in Conditions : args[c] = S!Args(c)
  OBVIOUS
<1>3. args \in [Conditions -> Seq(Conditions)]
  BY <1>1
<1>4. \A c \in Conditions : \A i \in DOMAIN args[c] : Depth[args[c][i]] < Depth[c]
  BY <1>1, <1>2
<1>6. Trees(Conditions, Depth, args, V, J)
  BY <1>1, <1>3, <1>4 DEF Trees, Foldable
<1> HIDE DEF args
<1>5. \E f \in [Conditions -> V] :
        \A c \in Conditions : f[c] = J[<<c, PartsOf(f, args[c])>>]
  BY <1>6, Recursion
<1> QED BY <1>2, <1>5

(* What the operands say, as a sequence.                                   *)
LEMMA PartsAreSequence ==
  ASSUME NEW V, NEW f \in [Conditions -> V], NEW c \in Conditions
  PROVE  /\ PartsOf(f, S!Args(c)) \in Seq(V)
         /\ DOMAIN PartsOf(f, S!Args(c)) = DOMAIN S!Args(c)
<1>1. S!Args(c) \in Seq(Conditions)
  BY EnforcementAssumption DEF S!EngineAssumption
<1>2. Len(S!Args(c)) \in Nat /\ DOMAIN S!Args(c) = 1 .. Len(S!Args(c))
      /\ \A i \in DOMAIN S!Args(c) : S!Args(c)[i] \in Conditions
  BY <1>1
<1> QED BY <1>2 DEF PartsOf

-----------------------------------------------------------------------------
(* all() and any() say what going is, or what one operand says.            *)
LEMMA FirstOtherTyped ==
  ASSUME NEW V, NEW s \in Seq(V), NEW going \in V
  PROVE  S!FirstOther(s, going) \in V
<1> DEFINE others == {i \in DOMAIN s : s[i] # going}
<1>1. CASE others = {}
  BY <1>1 DEF S!FirstOther
<1>2. CASE others # {}
  <2>1. others \in SUBSET Nat
    OBVIOUS
  <2>2. S!Min(others) \in others
    <3> HIDE DEF others
    <3> QED BY <1>2, <2>1, MinIs
  <2>3. S!FirstOther(s, going) = s[S!Min(others)]
    BY <1>2 DEF S!FirstOther
  <2> QED BY <2>2, <2>3
<1> QED BY <1>1, <1>2

(* A condition says "t", "f" or "e".                                       *)
LEMMA JudgedTyped ==
  ASSUME NEW c, NEW s \in Seq({"t", "f", "e"}), NEW r
  PROVE  S!Judged(c, s, r) \in {"t", "f", "e"}
<1>1. S!FirstOther(s, "t") \in {"t", "f", "e"} /\ S!FirstOther(s, "f") \in {"t", "f", "e"}
  BY FirstOtherTyped
<1>2. \A b : S!Say(b) \in {"t", "f", "e"}
  BY DEF S!Say
<1>3. c.op \in {"eq", "neq", "gt", "in"} => S!Compare(c, r) \in {"t", "f", "e"}
  BY <1>2 DEF S!Compare
<1> QED BY <1>1, <1>2, <1>3 DEF S!Judged

(* Holds is what the evaluation of a tree computes.                        *)
LEMMA HoldsIs ==
  ASSUME NEW r
  PROVE  \E f \in [Conditions -> {"t", "f", "e"}] :
           /\ \A c \in Conditions :
                f[c] = S!Judged(c, PartsOf(f, S!Args(c)), r)
           /\ \A c \in Conditions : S!Holds(c, r) = f[c]
<1> DEFINE V == {"t", "f", "e"}
           J == [p \in Conditions \X Seq(V) |-> S!Judged(p[1], p[2], r)]
           says[c \in Conditions] == S!Judged(c, [i \in DOMAIN S!Args(c) |-> says[S!Args(c)[i]]], r)
<1>1. \A c \in Conditions : \A s \in Seq(V) : J[<<c, s>>] = S!Judged(c, s, r)
  OBVIOUS
<1>2. Foldable(V, J)
  BY <1>1, JudgedTyped DEF Foldable
<1>3. PICK f \in [Conditions -> V] :
        \A c \in Conditions : f[c] = J[<<c, PartsOf(f, S!Args(c))>>]
  <2> HIDE DEF J, V
  <2> QED BY <1>2, OnConditions
<1>4. \A c \in Conditions : f[c] = S!Judged(c, PartsOf(f, S!Args(c)), r)
  <2> HIDE DEF J, V
  <2> QED BY <1>1, <1>3, PartsAreSequence
<1>5. f = [c \in Conditions |-> S!Judged(c, [i \in DOMAIN S!Args(c) |-> f[S!Args(c)[i]]], r)]
  BY <1>4 DEF PartsOf
<1>6. says = [c \in Conditions |-> S!Judged(c, [i \in DOMAIN S!Args(c) |-> says[S!Args(c)[i]]], r)]
  BY <1>5
<1>7. \A c \in Conditions : says[c] = S!Judged(c, PartsOf(says, S!Args(c)), r)
  <2> HIDE DEF says
  <2> QED BY <1>6 DEF PartsOf
<1>8. \A c \in Conditions : says[c] = f[c]
  <2> HIDE DEF says
  <2>1. Agree(says, f)
    <3> SUFFICES ASSUME NEW c \in Conditions,
                        \A i \in DOMAIN S!Args(c) : says[S!Args(c)[i]] = f[S!Args(c)[i]]
                 PROVE  says[c] = f[c]
      BY DEF Agree
    <3>1. PartsOf(says, S!Args(c)) = PartsOf(f, S!Args(c))
      BY DEF PartsOf
    <3> QED BY <1>4, <1>7, <3>1
  <2> QED BY <2>1, OneAnswer
<1>9. \A c : S!Holds(c, r) = says[c]
  BY DEF S!Holds
<1> HIDE DEF says
<1> QED BY <1>4, <1>8, <1>9

(* evalCondition says yes or no.                                           *)
LEMMA TakenTyped ==
  ASSUME NEW c, NEW s \in Seq(BOOLEAN), NEW r
  PROVE  S!Taken(c, s, r) \in BOOLEAN
<1>1. CASE c.op \in {"nil", "false"}
  BY <1>1 DEF S!Taken
<1>2. CASE c.op = "and"
  BY <1>2 DEF S!Taken
<1>3. CASE c.op = "or"
  BY <1>3 DEF S!Taken
<1>4. CASE c.op = "not"
  BY <1>4 DEF S!Taken
<1>5. CASE c.op = "eq"
  BY <1>5 DEF S!Taken
<1>6. CASE c.op = "neq"
  BY <1>6 DEF S!Taken
<1>7. CASE c.op = "in"
  BY <1>7 DEF S!Taken
<1>8. CASE c.op = "gt"
  BY <1>8 DEF S!Taken
<1>9. CASE c.op \notin {"nil", "false", "and", "or", "not", "eq", "neq", "in", "gt"}
  BY <1>9 DEF S!Taken
<1> QED BY <1>1, <1>2, <1>3, <1>4, <1>5, <1>6, <1>7, <1>8, <1>9

(* EvalCondition is what the evaluation of a tree computes.                *)
LEMMA EvalConditionIs ==
  ASSUME NEW r
  PROVE  \E f \in [Conditions -> BOOLEAN] :
           /\ \A c \in Conditions :
                f[c] = S!Taken(c, PartsOf(f, S!Args(c)), r)
           /\ \A c \in Conditions : S!EvalCondition(c, r) = f[c]
<1> DEFINE V == BOOLEAN
           J == [p \in Conditions \X Seq(V) |-> S!Taken(p[1], p[2], r)]
           says[c \in Conditions] == S!Taken(c, [i \in DOMAIN S!Args(c) |-> says[S!Args(c)[i]]], r)
<1>1. \A c \in Conditions : \A s \in Seq(V) : J[<<c, s>>] = S!Taken(c, s, r)
  OBVIOUS
<1>2. Foldable(V, J)
  BY <1>1, TakenTyped DEF Foldable
<1>3. PICK f \in [Conditions -> V] :
        \A c \in Conditions : f[c] = J[<<c, PartsOf(f, S!Args(c))>>]
  <2> HIDE DEF J, V
  <2> QED BY <1>2, OnConditions
<1>4. \A c \in Conditions : f[c] = S!Taken(c, PartsOf(f, S!Args(c)), r)
  <2> HIDE DEF J, V
  <2> QED BY <1>1, <1>3, PartsAreSequence
<1>5. f = [c \in Conditions |-> S!Taken(c, [i \in DOMAIN S!Args(c) |-> f[S!Args(c)[i]]], r)]
  BY <1>4 DEF PartsOf
<1>6. says = [c \in Conditions |-> S!Taken(c, [i \in DOMAIN S!Args(c) |-> says[S!Args(c)[i]]], r)]
  BY <1>5
<1>7. \A c \in Conditions : says[c] = S!Taken(c, PartsOf(says, S!Args(c)), r)
  <2> HIDE DEF says
  <2> QED BY <1>6 DEF PartsOf
<1>8. \A c \in Conditions : says[c] = f[c]
  <2> HIDE DEF says
  <2>1. Agree(says, f)
    <3> SUFFICES ASSUME NEW c \in Conditions,
                        \A i \in DOMAIN S!Args(c) : says[S!Args(c)[i]] = f[S!Args(c)[i]]
                 PROVE  says[c] = f[c]
      BY DEF Agree
    <3>1. PartsOf(says, S!Args(c)) = PartsOf(f, S!Args(c))
      BY DEF PartsOf
    <3> QED BY <1>4, <1>7, <3>1
  <2> QED BY <2>1, OneAnswer
<1>9. \A c : S!EvalCondition(c, r) = says[c]
  BY DEF S!EvalCondition
<1> HIDE DEF says
<1> QED BY <1>4, <1>8, <1>9


(* So is Untainted.                                                        *)
LEMMA UntaintedIs ==
  \E f \in [Conditions -> BOOLEAN] :
    /\ \A c \in Conditions :
         f[c] <=> c.op # "is_tainted" /\ \A i \in DOMAIN S!Args(c) : f[S!Args(c)[i]]
    /\ \A c \in Conditions : S!Untainted(c) <=> f[c]
<1> DEFINE V == BOOLEAN
           J == [p \in Conditions \X Seq(V) |->
                  p[1].op # "is_tainted" /\ \A i \in DOMAIN p[2] : p[2][i]]
           says[c \in Conditions] ==
             c.op # "is_tainted" /\ \A i \in DOMAIN S!Args(c) : says[S!Args(c)[i]]
<1>1. \A c \in Conditions : \A s \in Seq(V) :
        J[<<c, s>>] = (c.op # "is_tainted" /\ \A i \in DOMAIN s : s[i])
  OBVIOUS
<1>2. Foldable(V, J)
  <2> HIDE DEF J
  <2> QED BY <1>1 DEF Foldable
<1>3. PICK f \in [Conditions -> V] :
        \A c \in Conditions : f[c] = J[<<c, PartsOf(f, S!Args(c))>>]
  <2> HIDE DEF J, V
  <2> QED BY <1>2, OnConditions
<1>4. \A c \in Conditions :
        f[c] = (c.op # "is_tainted" /\ \A i \in DOMAIN S!Args(c) : f[S!Args(c)[i]])
  <2> SUFFICES ASSUME NEW c \in Conditions
               PROVE  f[c] = (c.op # "is_tainted" /\ \A i \in DOMAIN S!Args(c) : f[S!Args(c)[i]])
    OBVIOUS
  <2> DEFINE s == PartsOf(f, S!Args(c))
  <2>1. s \in Seq(V) /\ DOMAIN s = DOMAIN S!Args(c) /\ \A i \in DOMAIN s : s[i] = f[S!Args(c)[i]]
    BY PartsAreSequence DEF PartsOf
  <2>2. f[c] = (c.op # "is_tainted" /\ \A i \in DOMAIN s : s[i])
    <3> HIDE DEF J, s
    <3>1. f[c] = J[<<c, s>>]
      BY <1>3 DEF s
    <3> QED BY <1>1, <2>1, <3>1
  <2>3. s = <<>> <=> S!Args(c) = <<>>
    <3>1. S!Args(c) \in Seq(Conditions)
      BY EnforcementAssumption DEF S!EngineAssumption
    <3> HIDE DEF s
    <3> QED BY <2>1, <3>1
  <2> HIDE DEF s
  <2> QED BY <2>1, <2>2, <2>3
<1>5. f = [c \in Conditions |->
            c.op # "is_tainted" /\ \A i \in DOMAIN S!Args(c) : f[S!Args(c)[i]]]
  BY <1>4
<1>6. says = [c \in Conditions |->
               c.op # "is_tainted" /\ \A i \in DOMAIN S!Args(c) : says[S!Args(c)[i]]]
  BY <1>5
<1>7. \A c \in Conditions :
        says[c] = (c.op # "is_tainted" /\ \A i \in DOMAIN S!Args(c) : says[S!Args(c)[i]])
  <2> HIDE DEF says
  <2> QED BY <1>6
<1>8. \A c \in Conditions : says[c] = f[c]
  <2> HIDE DEF says
  <2>1. Agree(says, f)
    BY <1>4, <1>7 DEF Agree
  <2> QED BY <2>1, OneAnswer
<1>9. \A c : S!Untainted(c) = says[c]
  BY DEF S!Untainted
<1> HIDE DEF says
<1> QED BY <1>4, <1>8, <1>9

(* So is Shared.                                                           *)
LEMMA SharedIs ==
  \E f \in [Conditions -> BOOLEAN] :
    /\ \A c \in Conditions :
         f[c] <=> (c.op \in {"and", "or", "not"} /\ (c.op = "not" => S!Args(c) # <<>>)) /\ \A i \in DOMAIN S!Args(c) : f[S!Args(c)[i]]
    /\ \A c \in Conditions : S!Shared(c) <=> f[c]
<1> DEFINE V == BOOLEAN
           J == [p \in Conditions \X Seq(V) |->
                  (p[1].op \in {"and", "or", "not"} /\ (p[1].op = "not" => p[2] # <<>>)) /\ \A i \in DOMAIN p[2] : p[2][i]]
           says[c \in Conditions] ==
             (c.op \in {"and", "or", "not"} /\ (c.op = "not" => S!Args(c) # <<>>)) /\ \A i \in DOMAIN S!Args(c) : says[S!Args(c)[i]]
<1>1. \A c \in Conditions : \A s \in Seq(V) :
        J[<<c, s>>] = ((c.op \in {"and", "or", "not"} /\ (c.op = "not" => s # <<>>)) /\ \A i \in DOMAIN s : s[i])
  OBVIOUS
<1>2. Foldable(V, J)
  <2> HIDE DEF J
  <2> QED BY <1>1 DEF Foldable
<1>3. PICK f \in [Conditions -> V] :
        \A c \in Conditions : f[c] = J[<<c, PartsOf(f, S!Args(c))>>]
  <2> HIDE DEF J, V
  <2> QED BY <1>2, OnConditions
<1>4. \A c \in Conditions :
        f[c] = ((c.op \in {"and", "or", "not"} /\ (c.op = "not" => S!Args(c) # <<>>)) /\ \A i \in DOMAIN S!Args(c) : f[S!Args(c)[i]])
  <2> SUFFICES ASSUME NEW c \in Conditions
               PROVE  f[c] = ((c.op \in {"and", "or", "not"} /\ (c.op = "not" => S!Args(c) # <<>>)) /\ \A i \in DOMAIN S!Args(c) : f[S!Args(c)[i]])
    OBVIOUS
  <2> DEFINE s == PartsOf(f, S!Args(c))
  <2>1. s \in Seq(V) /\ DOMAIN s = DOMAIN S!Args(c) /\ \A i \in DOMAIN s : s[i] = f[S!Args(c)[i]]
    BY PartsAreSequence DEF PartsOf
  <2>2. f[c] = ((c.op \in {"and", "or", "not"} /\ (c.op = "not" => s # <<>>)) /\ \A i \in DOMAIN s : s[i])
    <3> HIDE DEF J, s
    <3>1. f[c] = J[<<c, s>>]
      BY <1>3 DEF s
    <3> QED BY <1>1, <2>1, <3>1
  <2>3. s = <<>> <=> S!Args(c) = <<>>
    <3>1. S!Args(c) \in Seq(Conditions)
      BY EnforcementAssumption DEF S!EngineAssumption
    <3> HIDE DEF s
    <3> QED BY <2>1, <3>1
  <2> HIDE DEF s
  <2> QED BY <2>1, <2>2, <2>3
<1>5. f = [c \in Conditions |->
            (c.op \in {"and", "or", "not"} /\ (c.op = "not" => S!Args(c) # <<>>)) /\ \A i \in DOMAIN S!Args(c) : f[S!Args(c)[i]]]
  BY <1>4
<1>6. says = [c \in Conditions |->
               (c.op \in {"and", "or", "not"} /\ (c.op = "not" => S!Args(c) # <<>>)) /\ \A i \in DOMAIN S!Args(c) : says[S!Args(c)[i]]]
  BY <1>5
<1>7. \A c \in Conditions :
        says[c] = ((c.op \in {"and", "or", "not"} /\ (c.op = "not" => S!Args(c) # <<>>)) /\ \A i \in DOMAIN S!Args(c) : says[S!Args(c)[i]])
  <2> HIDE DEF says
  <2> QED BY <1>6
<1>8. \A c \in Conditions : says[c] = f[c]
  <2> HIDE DEF says
  <2>1. Agree(says, f)
    BY <1>4, <1>7 DEF Agree
  <2> QED BY <2>1, OneAnswer
<1>9. \A c : S!Shared(c) = says[c]
  BY DEF S!Shared
<1> HIDE DEF says
<1> QED BY <1>4, <1>8, <1>9

(* In what both engines read alike no evaluation raises, and they agree.   *)
LEMMA EnginesAgree ==
  ASSUME NEW r, NEW c \in Conditions, S!Shared(c)
  PROVE  S!Holds(c, r) \in {"t", "f"} /\ (S!EvalCondition(c, r) <=> S!Holds(c, r) = "t")
<1>1. PICK f \in [Conditions -> {"t", "f", "e"}] :
        /\ \A x \in Conditions : f[x] = S!Judged(x, PartsOf(f, S!Args(x)), r)
        /\ \A x \in Conditions : S!Holds(x, r) = f[x]
  BY HoldsIs
<1>2. PICK g \in [Conditions -> BOOLEAN] :
        /\ \A x \in Conditions : g[x] = S!Taken(x, PartsOf(g, S!Args(x)), r)
        /\ \A x \in Conditions : S!EvalCondition(x, r) = g[x]
  BY EvalConditionIs
<1>3. PICK h \in [Conditions -> BOOLEAN] :
        /\ \A x \in Conditions :
             h[x] <=> (x.op \in {"and", "or", "not"} /\ (x.op = "not" => S!Args(x) # <<>>))
                      /\ \A i \in DOMAIN S!Args(x) : h[S!Args(x)[i]]
        /\ \A x \in Conditions : S!Shared(x) <=> h[x]
  BY SharedIs
<1> DEFINE T == {x \in Conditions : h[x] => f[x] \in {"t", "f"} /\ (g[x] <=> f[x] = "t")}
<1>4. ASSUME NEW x \in Conditions, \A i \in DOMAIN S!Args(x) : S!Args(x)[i] \in T
      PROVE  x \in T
  <2> SUFFICES ASSUME h[x] PROVE f[x] \in {"t", "f"} /\ (g[x] <=> f[x] = "t")
    OBVIOUS
  <2> DEFINE s == PartsOf(f, S!Args(x))
             e == PartsOf(g, S!Args(x))
  <2>1. S!Args(x) \in Seq(Conditions)
    BY EnforcementAssumption DEF S!EngineAssumption
  <2>2. /\ s \in Seq({"t", "f", "e"}) /\ e \in Seq(BOOLEAN)
        /\ DOMAIN s = DOMAIN S!Args(x) /\ DOMAIN e = DOMAIN S!Args(x)
    BY PartsAreSequence DEF PartsOf
  <2>3. \A i \in DOMAIN s : s[i] \in {"t", "f"} /\ (e[i] <=> s[i] = "t")
    <3> SUFFICES ASSUME NEW i \in DOMAIN S!Args(x)
                 PROVE  s[i] \in {"t", "f"} /\ (e[i] <=> s[i] = "t")
      BY <2>2
    <3>1. S!Args(x)[i] \in T /\ h[S!Args(x)[i]]
      BY <1>3, <1>4
    <3> QED BY <3>1 DEF PartsOf
  <2>4. f[x] = S!Judged(x, s, r) /\ g[x] = S!Taken(x, e, r)
    BY <1>1, <1>2
  <2>5. x.op \in {"and", "or", "not"} /\ (x.op = "not" => S!Args(x) # <<>>)
    BY <1>3
  <2>6. DOMAIN s = 1 .. Len(s) /\ DOMAIN e = 1 .. Len(e) /\ DOMAIN s \subseteq Nat
        /\ Len(s) = Len(S!Args(x)) /\ Len(e) = Len(S!Args(x)) /\ Len(s) \in Nat
    <3> HIDE DEF s, e
    <3> QED BY <2>1, <2>2
  <2> HIDE DEF s, e, T
  <2>7. ASSUME NEW going \in {"t", "f"}
        PROVE  S!FirstOther(s, going) \in {"t", "f"}
               /\ (S!FirstOther(s, going) = going <=> \A i \in DOMAIN s : s[i] = going)
    <3> DEFINE others == {i \in DOMAIN s : s[i] # going}
    <3>1. CASE others = {}
      BY <3>1 DEF S!FirstOther
    <3>2. CASE others # {}
      <4>1. S!Min(others) \in others
        <5>1. others \in SUBSET Nat
          BY <2>6
        <5> HIDE DEF others
        <5> QED BY <3>2, <5>1, MinIs
      <4>2. S!FirstOther(s, going) = s[S!Min(others)]
        BY <3>2 DEF S!FirstOther
      <4> QED BY <2>3, <4>1, <4>2
    <3> QED BY <3>1, <3>2
  <2>8. CASE x.op = "and"
    <3>1. f[x] = S!FirstOther(s, "t")
      BY <2>4, <2>8 DEF S!Judged
    <3>2. g[x] = \A i \in DOMAIN e : e[i]
      BY <2>4, <2>8 DEF S!Taken
    <3> QED BY <2>2, <2>3, <2>7, <3>1, <3>2
  <2>9. CASE x.op = "or"
    <3>1. f[x] = S!FirstOther(s, "f")
      BY <2>4, <2>9 DEF S!Judged
    <3>2. g[x] = \E i \in DOMAIN e : e[i]
      BY <2>4, <2>9 DEF S!Taken
    <3> QED BY <2>2, <2>3, <2>7, <3>1, <3>2
  <2>10. CASE x.op = "not"
    <3>1. Len(s) # 0 /\ 1 \in DOMAIN s /\ s # <<>> /\ e # <<>>
      BY <2>1, <2>2, <2>5, <2>6, <2>10
    <3>2. f[x] = CASE s[1] = "t" -> "f" [] s[1] = "f" -> "t" [] OTHER -> "e"
      BY <2>4, <2>10, <3>1 DEF S!Judged
    <3>3. g[x] = ~e[1]
      BY <2>4, <2>10, <3>1 DEF S!Taken
    <3> QED BY <2>3, <3>1, <3>2, <3>3
  <2> QED BY <2>5, <2>8, <2>9, <2>10
<1>5. T = Conditions
  <2>1. T \in SUBSET Conditions
    OBVIOUS
  <2> HIDE DEF T
  <2> QED BY <1>4, <2>1, EveryCondition
<1> QED BY <1>1, <1>2, <1>3, <1>5

(* What reads no taint says the same of requests that differ in nothing    *)
(* else.                                                                   *)
LEMMA UntaintedSame ==
  ASSUME NEW r, NEW q, NEW c \in Conditions, S!Untainted(c),
         r.attrs = q.attrs, r.time = q.time, r.scopes = q.scopes, r.history = q.history
  PROVE  S!Holds(c, r) = S!Holds(c, q)
<1>1. PICK f \in [Conditions -> {"t", "f", "e"}] :
        /\ \A x \in Conditions : f[x] = S!Judged(x, PartsOf(f, S!Args(x)), r)
        /\ \A x \in Conditions : S!Holds(x, r) = f[x]
  BY HoldsIs
<1>2. PICK g \in [Conditions -> {"t", "f", "e"}] :
        /\ \A x \in Conditions : g[x] = S!Judged(x, PartsOf(g, S!Args(x)), q)
        /\ \A x \in Conditions : S!Holds(x, q) = g[x]
  BY HoldsIs
<1>3. PICK h \in [Conditions -> BOOLEAN] :
        /\ \A x \in Conditions :
             h[x] <=> x.op # "is_tainted" /\ \A i \in DOMAIN S!Args(x) : h[S!Args(x)[i]]
        /\ \A x \in Conditions : S!Untainted(x) <=> h[x]
  BY UntaintedIs
<1>4. ASSUME NEW x, NEW s, x.op # "is_tainted" PROVE S!Judged(x, s, r) = S!Judged(x, s, q)
  <2>1. S!Compare(x, r) = S!Compare(x, q)
    BY DEF S!Compare, S!Resolved
  <2>2. S!PrecededBy(x.scope, x.window, r) = S!PrecededBy(x.scope, x.window, q)
    BY DEF S!PrecededBy
  <2> QED BY <1>4, <2>1, <2>2 DEF S!Judged
<1> DEFINE T == {x \in Conditions : h[x] => f[x] = g[x]}
<1>5. ASSUME NEW x \in Conditions, \A i \in DOMAIN S!Args(x) : S!Args(x)[i] \in T
      PROVE  x \in T
  <2> SUFFICES ASSUME h[x] PROVE f[x] = g[x]
    OBVIOUS
  <2>1. \A i \in DOMAIN S!Args(x) : f[S!Args(x)[i]] = g[S!Args(x)[i]]
    BY <1>3, <1>5
  <2>2. PartsOf(f, S!Args(x)) = PartsOf(g, S!Args(x))
    BY <2>1 DEF PartsOf
  <2>3. x.op # "is_tainted"
    BY <1>3
  <2> QED BY <1>1, <1>2, <1>4, <2>2, <2>3
<1>6. T = Conditions
  <2>1. T \in SUBSET Conditions
    OBVIOUS
  <2> HIDE DEF T
  <2> QED BY <1>5, <2>1, EveryCondition
<1> QED BY <1>1, <1>2, <1>3, <1>6

-----------------------------------------------------------------------------
(* The cardinality the sidecar's module speaks of is the library's.        *)
LEMMA SameCardinality == \A all : S!Cardinality(all) = Cardinality(all)
BY DEF S!Cardinality, Cardinality

(* The service lists policies by priority, and among equals as loaded.     *)
LEMMA PriorityOrder ==
  ASSUME NEW l, l \in Seq({l[i] : i \in DOMAIN l}), \A i \in DOMAIN l : l[i].priority \in Nat
  PROVE  /\ S!ByPriority(l) \in [DOMAIN l -> DOMAIN l]
         /\ \A i \in DOMAIN l : \E n \in DOMAIN l : S!ByPriority(l)[n] = i
         /\ \A n, m \in DOMAIN l :
              n <= m => S!Before(l, S!ByPriority(l)[n], S!ByPriority(l)[m])
<1> DEFINE D == DOMAIN l
           Upto(i) == {j \in D : S!Before(l, j, i)}
<1>1. Len(l) \in Nat /\ D = 1 .. Len(l) /\ D \subseteq Nat
  OBVIOUS
<1>2. IsFiniteSet(D) /\ Cardinality(D) = Len(l)
  <2>1. IsFiniteSet(1 .. Len(l)) /\ Cardinality(1 .. Len(l)) = IF 1 > Len(l) THEN 0 ELSE Len(l) - 1 + 1
    BY <1>1, FS_Interval
  <2> HIDE DEF D
  <2> QED BY <1>1, <2>1
<1>3. \A i \in D : IsFiniteSet(Upto(i)) /\ Cardinality(Upto(i)) \in Nat /\ Cardinality(Upto(i)) <= Len(l)
                   /\ S!Rank(l, i) = Cardinality(Upto(i))
  BY <1>2, FS_Subset, FS_CardinalityType, SameCardinality DEF S!Rank
<1>4. \A i, j \in D : S!Before(l, i, j) \/ S!Before(l, j, i)
  BY <1>1 DEF S!Before
<1>5. ASSUME NEW i \in D, NEW j \in D, S!Before(l, i, j), i # j
      PROVE  Cardinality(Upto(i)) < Cardinality(Upto(j))
  <2>1. j \in Upto(j) /\ j \notin Upto(i)
    BY <1>1, <1>5 DEF S!Before
  <2>2. \A k \in Upto(i) : k \in Upto(j)
    BY <1>1, <1>5 DEF S!Before
  <2>3. Upto(i) \subseteq Upto(j) /\ Upto(i) # Upto(j)
    BY <2>1, <2>2
  <2>4. Cardinality(Upto(i)) <= Cardinality(Upto(j)) /\ Cardinality(Upto(i)) # Cardinality(Upto(j))
    BY <2>3, <1>3, FS_Subset
  <2> HIDE DEF Upto
  <2> QED BY <2>4, <1>3
<1>6. ASSUME NEW i \in D PROVE Cardinality(Upto(i)) \in 1 .. Len(l)
  <2>1. i \in Upto(i)
    BY <1>1 DEF S!Before
  <2>2. Cardinality(Upto(i)) # 0
    BY <2>1, <1>3, FS_EmptySet
  <2> HIDE DEF Upto
  <2> QED BY <2>2, <1>1, <1>3
<1>7. \A n \in D : \E i \in D : S!Rank(l, i) = n
  <2> DEFINE f == [i \in D |-> Cardinality(Upto(i))]
  <2>1. f \in [D -> D]
    BY <1>1, <1>6
  <2>2. \A a, b \in D : f[a] = f[b] => a = b
    <3> SUFFICES ASSUME NEW a \in D, NEW b \in D, a # b PROVE f[a] # f[b]
      OBVIOUS
    <3>1. f[a] < f[b] \/ f[b] < f[a]
      BY <1>4, <1>5
    <3>2. f[a] \in Nat /\ f[b] \in Nat
      BY <1>3
    <3> HIDE DEF f
    <3> QED BY <3>1, <3>2
  <2>3. f \in Injection(D, D)
    <3> HIDE DEF f, D
    <3> QED BY <2>1, <2>2, Fun_IsInj
  <2>4. f \in Surjection(D, D)
    <3> HIDE DEF f, D
    <3> QED BY <2>3, <1>2, FS_Injection
  <2>5. \A t \in D : \E s \in D : f[s] = t
    <3> HIDE DEF f, D
    <3> QED BY <2>4, Fun_SurjectionProperties
  <2>6. \A i \in D : f[i] = S!Rank(l, i)
    BY <1>3
  <2> HIDE DEF f
  <2> QED BY <2>5, <2>6
<1> DEFINE b == S!ByPriority(l)
<1>8. b = [n \in D |-> CHOOSE i \in D : S!Rank(l, i) = n]
  BY DEF S!ByPriority
<1>9. \A n \in D : b[n] \in D /\ S!Rank(l, b[n]) = n
  <2> HIDE DEF b, D
  <2> QED BY <1>7, <1>8
<1>10. b \in [D -> D]
  <2> HIDE DEF D
  <2> QED BY <1>8, <1>9
<1> HIDE DEF b
<1>11. \A n, m \in D : n <= m => S!Before(l, b[n], b[m])
  <2> SUFFICES ASSUME NEW n \in D, NEW m \in D, n <= m, ~S!Before(l, b[n], b[m]) PROVE FALSE
    OBVIOUS
  <2>1. b[n] \in D /\ b[m] \in D /\ S!Rank(l, b[n]) = n /\ S!Rank(l, b[m]) = m
    BY <1>9
  <2>2. S!Before(l, b[m], b[n]) /\ b[n] # b[m]
    BY <1>4, <2>1
  <2>3. Cardinality(Upto(b[m])) < Cardinality(Upto(b[n]))
    <3> HIDE DEF D, Upto
    <3> QED BY <1>5, <2>1, <2>2
  <2>4. m < n
    <3> HIDE DEF Upto
    <3> QED BY <1>3, <2>1, <2>3
  <2> QED BY <2>4, <1>1
<1>12. \A i \in D : S!Rank(l, i) \in D
  BY <1>1, <1>3, <1>6
<1>13. \A i \in D : \E n \in D : b[n] = i
  <2> SUFFICES ASSUME NEW i \in D PROVE \E n \in D : b[n] = i
    OBVIOUS
  <2> DEFINE n == S!Rank(l, i)
  <2>1. n \in D /\ b[n] \in D /\ S!Rank(l, b[n]) = n
    BY <1>9, <1>12
  <2>2. b[n] = i
    <3> SUFFICES ASSUME b[n] # i PROVE FALSE
      OBVIOUS
    <3>1. Cardinality(Upto(b[n])) < Cardinality(Upto(i)) \/ Cardinality(Upto(i)) < Cardinality(Upto(b[n]))
      <4> HIDE DEF D, Upto, n
      <4> QED BY <1>4, <1>5, <2>1
    <3>2. Cardinality(Upto(b[n])) = Cardinality(Upto(i)) /\ Cardinality(Upto(i)) \in Nat
      <4> HIDE DEF Upto, D
      <4> QED BY <1>3, <2>1
    <3> HIDE DEF Upto
    <3> QED BY <3>1, <3>2
  <2> QED BY <2>1, <2>2
<1> QED BY <1>10, <1>11, <1>13 DEF b

-----------------------------------------------------------------------------
(* A list the service may have, as it and a bundle present it.             *)
LEMMA ListIs ==
  ASSUME NEW l \in Lists
  PROVE  /\ l \in Seq({l[i] : i \in DOMAIN l})
         /\ Len(l) \in Nat /\ DOMAIN l = 1 .. Len(l)
         /\ \A i \in DOMAIN l : /\ l[i].priority \in Nat /\ l[i].condition \in Conditions
                               /\ l[i].effect \in {"allow", "deny", "require_approval"}
<1>1. /\ l \in Seq({l[i] : i \in DOMAIN l})
      /\ \A i \in DOMAIN l : /\ l[i].priority \in Nat /\ l[i].condition \in Conditions
                            /\ l[i].effect \in {"allow", "deny", "require_approval"}
  BY EnforcementAssumption, Zenon DEF S!SidecarAssumption
<1>2. Len(l) \in Nat /\ DOMAIN l = 1 .. Len(l)
  BY <1>1
<1> QED BY <1>1, <1>2

(* The policies of a list, in the order they are tried in.                 *)
LEMMA SortedIs ==
  ASSUME NEW l \in Lists
  PROVE  /\ DOMAIN S!Sorted(l) = DOMAIN l
         /\ Len(S!Sorted(l)) = Len(l)
         /\ \A n \in DOMAIN l : S!ByPriority(l)[n] \in DOMAIN l
                               /\ S!Sorted(l)[n] = l[S!ByPriority(l)[n]]
         /\ \A n \in 2 .. Len(S!Sorted(l)) : S!Sorted(l)[n - 1].priority <= S!Sorted(l)[n].priority
<1>1. /\ l \in Seq({l[i] : i \in DOMAIN l}) /\ Len(l) \in Nat /\ DOMAIN l = 1 .. Len(l)
      /\ \A i \in DOMAIN l : l[i].priority \in Nat
  BY ListIs
<1>2. /\ S!ByPriority(l) \in [DOMAIN l -> DOMAIN l]
      /\ \A n, m \in DOMAIN l : n <= m => S!Before(l, S!ByPriority(l)[n], S!ByPriority(l)[m])
  BY <1>1, PriorityOrder
<1>3. S!Sorted(l) = [i \in 1 .. Len(l) |-> l[S!ByPriority(l)[i]]]
  BY <1>1 DEF S!Sorted
<1>4. DOMAIN S!Sorted(l) = 1 .. Len(l) /\ Len(S!Sorted(l)) = Len(l)
  BY <1>1, <1>3
<1>5. ASSUME NEW n \in 2 .. Len(l)
      PROVE  S!Sorted(l)[n - 1].priority <= S!Sorted(l)[n].priority
  <2>1. n \in DOMAIN l /\ n - 1 \in DOMAIN l /\ n - 1 <= n
    BY <1>1
  <2>2. S!Before(l, S!ByPriority(l)[n - 1], S!ByPriority(l)[n])
        /\ S!ByPriority(l)[n - 1] \in DOMAIN l /\ S!ByPriority(l)[n] \in DOMAIN l
    BY <1>2, <2>1
  <2>3. l[S!ByPriority(l)[n - 1]].priority <= l[S!ByPriority(l)[n]].priority
    BY <1>1, <2>2 DEF S!Before
  <2>4. S!Sorted(l)[n - 1] = l[S!ByPriority(l)[n - 1]] /\ S!Sorted(l)[n] = l[S!ByPriority(l)[n]]
    BY <1>1, <1>3, <2>1
  <2> QED BY <2>3, <2>4
<1> QED BY <1>1, <1>2, <1>3, <1>4, <1>5

(* What the service answers is the effect of the first of its list that    *)
(* applies.                                                                *)
LEMMA EvaluateIs ==
  ASSUME NEW l \in Lists, NEW r
  PROVE  LET b == S!ByPriority(l)
             met == {n \in DOMAIN l : S!Applies(l[b[n]], r)} IN
         /\ met = {} => S!Evaluate(l, Granted, r) = "deny"
         /\ ~S!ScopeMatches(Granted, r.action) => S!Evaluate(l, Granted, r) = "deny"
         /\ met # {} => S!Min(met) \in met /\ \A m \in met : S!Min(met) <= m
         /\ met # {} /\ S!ScopeMatches(Granted, r.action) =>
              S!Evaluate(l, Granted, r) = S!Effect(l[b[S!Min(met)]], r)
         /\ S!Evaluate(l, Granted, r) \in {"allow", "deny", "require_approval"}
<1> DEFINE b == S!ByPriority(l)
           met == {n \in DOMAIN l : S!Applies(l[b[n]], r)}
<1>1. Len(l) \in Nat /\ DOMAIN l = 1 .. Len(l)
      /\ \A i \in DOMAIN l : l[i].effect \in {"allow", "deny", "require_approval"}
  BY ListIs
<1>2. \A n \in DOMAIN l : b[n] \in DOMAIN l
  BY SortedIs
<1>3. met # {} => S!Min(met) \in met /\ \A m \in met : S!Min(met) <= m
  <2>1. met \in SUBSET Nat
    BY <1>1
  <2> HIDE DEF met
  <2> QED BY <2>1, MinIs
<1>4. DOMAIN S!ByPriority(l) = DOMAIN l
  BY DEF S!ByPriority
<1>5. S!Evaluate(l, Granted, r) =
        IF ~S!ScopeMatches(Granted, r.action) \/ met = {} THEN "deny"
        ELSE S!Effect(l[b[S!Min(met)]], r)
  BY <1>4 DEF S!Evaluate
<1>6. met # {} => S!Effect(l[b[S!Min(met)]], r) \in {"allow", "deny", "require_approval"}
  <2> SUFFICES ASSUME met # {} PROVE S!Effect(l[b[S!Min(met)]], r) \in {"allow", "deny", "require_approval"}
    OBVIOUS
  <2>1. S!Min(met) \in DOMAIN l
    BY <1>3
  <2> HIDE DEF met
  <2>2. b[S!Min(met)] \in DOMAIN l
    BY <1>2, <2>1
  <2> HIDE DEF b
  <2> QED BY <1>1, <2>2 DEF S!Effect
<1> HIDE DEF met
<1>7. S!Evaluate(l, Granted, r) \in {"allow", "deny", "require_approval"}
  BY <1>5, <1>6
<1>8. /\ met = {} => S!Evaluate(l, Granted, r) = "deny"
      /\ ~S!ScopeMatches(Granted, r.action) => S!Evaluate(l, Granted, r) = "deny"
      /\ met # {} /\ S!ScopeMatches(Granted, r.action) =>
              S!Evaluate(l, Granted, r) = S!Effect(l[b[S!Min(met)]], r)
  BY <1>5
<1> QED BY <1>3, <1>7, <1>8 DEF met

(* What the sidecar answers is an effect of its list, or that nothing of   *)
(* it matches.                                                             *)
LEMMA DecideIs ==
  ASSUME NEW l \in Lists, NEW r
  PROVE  S!Decide(S!Sorted(l), r) \in {"allow", "deny", "require_approval"}
<1> DEFINE s == S!Sorted(l)
           met == {n \in DOMAIN s : /\ s[n].enabled
                                    /\ S!MatchAction(s[n].actions, r.action)
                                    /\ S!EvalCondition(s[n].condition, r)}
<1>1. S!Decide(s, r) = IF met = {} THEN "allow" ELSE s[S!Min(met)].effect
  BY DEF S!Decide
<1>2. DOMAIN s = DOMAIN l /\ DOMAIN l \subseteq Nat
      /\ \A n \in DOMAIN l : s[n].effect \in {"allow", "deny", "require_approval"}
  <2>1. DOMAIN l \subseteq Nat /\ \A i \in DOMAIN l : l[i].effect \in {"allow", "deny", "require_approval"}
    <3>1. Len(l) \in Nat /\ DOMAIN l = 1 .. Len(l)
      BY ListIs
    <3>2. \A i \in DOMAIN l : l[i].effect \in {"allow", "deny", "require_approval"}
      BY ListIs, Zenon
    <3> QED BY <3>1, <3>2
  <2>2. /\ DOMAIN s = DOMAIN l
        /\ \A n \in DOMAIN l : S!ByPriority(l)[n] \in DOMAIN l /\ s[n] = l[S!ByPriority(l)[n]]
    BY SortedIs
  <2> HIDE DEF s
  <2> QED BY <2>1, <2>2
<1>3. met # {} => S!Min(met) \in DOMAIN l
  <2>1. met \in SUBSET Nat /\ met \subseteq DOMAIN l
    BY <1>2
  <2> HIDE DEF met
  <2> QED BY <2>1, MinIs
<1> HIDE DEF met, s
<1>4. S!Decide(s, r) \in {"allow", "deny", "require_approval"}
  BY <1>1, <1>2, <1>3
<1> QED BY <1>4 DEF s

-----------------------------------------------------------------------------
(* What holds of the sidecar: what it received and what it decides by were *)
(* lists of the service; the answer is of the lists there still are; and   *)
(* while no refresh has failed or taken long, what it decides by grows old *)
(* by what the ticker has counted down, and no more.                       *)
Answered(request) ==
  [request |-> request, service |-> S!Evaluate(policies, Granted, request),
   sidecar |-> IF bundle = None THEN "unavailable" ELSE S!Decide(bundle, request)]

SidecarInv ==
  /\ policies \in Lists
  /\ bundle # None => \E l \in Lists : bundle = S!Sorted(l)
  /\ loop = [pc |-> loop.pc, got |-> loop.got, clock |-> loop.clock, left |-> loop.left,
             ticked |-> loop.ticked]
  /\ loop.pc \in {"due", "asked", "wait"} /\ loop.clock \in 0 .. MaxAge
  /\ loop.left \in 1 .. Every /\ loop.ticked \in BOOLEAN
  /\ loop.pc = "asked" => \E l \in Lists : loop.got = S!Sorted(l)
  /\ age \in 0 .. MaxAge /\ late \in BOOLEAN
  /\ answer = S!NoAnswer \/ \E r \in Asked : answer = Answered(r)
  /\ bundle # None /\ ~late =>
       age <= Every /\ (loop.pc = "wait" => age + loop.left <= Every)

(* A sidecar starts with nothing fetched and nothing answered.             *)
LEMMA SidecarStarts == S!Init => SidecarInv
<1> SUFFICES ASSUME S!Init PROVE SidecarInv
  OBVIOUS
<1>1. Every \in Nat \ {0} /\ MaxAge \in Nat /\ MaxAge > Every
  BY EnforcementAssumption DEF S!SidecarAssumption
<1>2. loop = [pc |-> "due", got |-> <<>>, clock |-> 0, left |-> Every, ticked |-> FALSE]
  BY DEF S!Init
<1>3. /\ loop = [pc |-> loop.pc, got |-> loop.got, clock |-> loop.clock, left |-> loop.left,
                 ticked |-> loop.ticked]
      /\ loop.pc = "due" /\ loop.clock = 0 /\ loop.left = Every /\ loop.ticked = FALSE
  BY <1>2
<1>4. policies \in Lists /\ bundle = None /\ age = 0 /\ late = FALSE /\ answer = S!NoAnswer
  BY DEF S!Init
<1>5. Every \in 1 .. Every /\ 0 \in 0 .. MaxAge
  BY <1>1
<1> QED BY <1>3, <1>4, <1>5 DEF SidecarInv

(* Each step keeps it: an answer is computed from the bundle as it is.     *)
LEMMA SidecarKept == SidecarInv /\ S!Next => SidecarInv'
<1> SUFFICES ASSUME SidecarInv, S!Next PROVE SidecarInv'
  OBVIOUS
<1>1. Every \in Nat \ {0} /\ MaxAge \in Nat /\ MaxAge > Every /\ Shown \subseteq Lists
  BY EnforcementAssumption DEF S!SidecarAssumption
<1>2. CASE S!RefreshAsks
  <2>1. loop' = [pc |-> "asked", got |-> S!Sorted(policies), clock |-> 0, left |-> loop.left,
                 ticked |-> loop.ticked]
    BY <1>2 DEF S!RefreshAsks, SidecarInv
  <2>2. /\ loop'.pc = "asked" /\ loop'.got = S!Sorted(policies) /\ loop'.clock = 0
        /\ loop'.left = loop.left /\ loop'.ticked = loop.ticked
    BY <2>1
  <2>3. UNCHANGED <<policies, bundle, age, late, answer>>
    BY <1>2 DEF S!RefreshAsks
  <2>4. \A r : Answered(r)' = Answered(r)
    BY <2>3 DEF Answered
  <2> QED BY <1>1, <2>1, <2>2, <2>3, <2>4 DEF SidecarInv
<1>3. CASE S!RefreshStores
  <2>1. loop' = [pc |-> IF loop.ticked THEN "due" ELSE "wait", got |-> <<>>, clock |-> 0,
                 left |-> loop.left, ticked |-> FALSE]
    BY <1>3 DEF S!RefreshStores, S!Rest, SidecarInv
  <2>2. /\ loop'.pc \in {"due", "wait"} /\ loop'.clock = 0
        /\ loop'.left = loop.left /\ loop'.ticked = FALSE
    BY <2>1
  <2>3. /\ bundle' = loop.got /\ age' = loop.clock /\ late' = (loop.clock > 0)
        /\ answer' = S!NoAnswer /\ policies' = policies /\ loop.pc = "asked"
    BY <1>3 DEF S!RefreshStores
  <2>4. ~late' => age' = 0
    <3>1. loop.clock \in Nat
      BY <1>1 DEF SidecarInv
    <3>2. loop.clock > 0 => late'
      BY <2>3, Zenon
    <3>3. age' = loop.clock
      BY <2>3
    <3> QED BY <3>1, <3>2, <3>3
  <2>5. late' \in BOOLEAN /\ age' \in 0 .. MaxAge
    BY <2>3 DEF SidecarInv
  <2>6. \E l \in Lists : bundle' = S!Sorted(l)
    BY <2>3 DEF SidecarInv
  <2>7. loop.left \in 1 .. Every /\ policies' \in Lists
    BY <2>3 DEF SidecarInv
  <2>8. ~late' => age' <= Every /\ age' + loop'.left <= Every
    BY <1>1, <2>2, <2>4, <2>7
  <2> QED BY <1>1, <2>1, <2>2, <2>3, <2>5, <2>6, <2>7, <2>8 DEF SidecarInv
<1>4. CASE S!RefreshFails
  <2>1. loop' = [pc |-> IF loop.ticked THEN "due" ELSE "wait", got |-> <<>>, clock |-> 0,
                 left |-> loop.left, ticked |-> FALSE]
    BY <1>4 DEF S!RefreshFails, S!Rest, SidecarInv
  <2>2. /\ loop'.pc \in {"due", "wait"} /\ loop'.clock = 0
        /\ loop'.left = loop.left /\ loop'.ticked = FALSE
    BY <2>1
  <2>3. late' = TRUE /\ UNCHANGED <<policies, bundle, age, answer>>
    BY <1>4 DEF S!RefreshFails
  <2>4. \A r : Answered(r)' = Answered(r)
    BY <2>3 DEF Answered
  <2> QED BY <1>1, <2>1, <2>2, <2>3, <2>4 DEF SidecarInv
<1>5. CASE S!Tick
  <2> DEFINE clock == IF loop.pc = "asked" /\ loop.clock < MaxAge THEN loop.clock + 1 ELSE loop.clock
             left == IF loop.left = 1 THEN Every ELSE loop.left - 1
             at == IF loop.left = 1 /\ loop.pc = "wait" THEN "due" ELSE loop.pc
             ticked == loop.ticked \/ (loop.left = 1 /\ loop.pc = "asked")
  <2>1. loop' = [pc |-> at, got |-> loop.got, clock |-> clock, left |-> left, ticked |-> ticked]
    BY <1>5 DEF S!Tick, SidecarInv
  <2>2. /\ loop'.pc = at /\ loop'.got = loop.got /\ loop'.clock = clock /\ loop'.left = left
        /\ loop'.ticked = ticked
    BY <2>1
  <2>3. /\ age' = (IF bundle = None \/ age = MaxAge THEN age ELSE age + 1)
        /\ late' = (late \/ loop.pc = "asked") /\ answer' = S!NoAnswer
        /\ policies' = policies /\ bundle' = bundle /\ loop.pc # "due"
    BY <1>5 DEF S!Tick
  <2>4. clock \in 0 .. MaxAge /\ left \in 1 .. Every /\ at \in {"due", "asked", "wait"}
        /\ ticked \in BOOLEAN /\ (at = "asked" => loop.pc = "asked")
    BY <1>1 DEF SidecarInv
  <2>5. age' \in 0 .. MaxAge /\ late' \in BOOLEAN
    BY <1>1, <2>3 DEF SidecarInv
  <2>6. bundle # None /\ ~late' => age' <= Every /\ (at = "wait" => age' + left <= Every)
    <3> SUFFICES ASSUME bundle # None, ~late'
                 PROVE  age' <= Every /\ (at = "wait" => age' + left <= Every)
      OBVIOUS
    <3>1. loop.pc = "wait" /\ ~late /\ age + loop.left <= Every /\ age <= Every
      BY <2>3 DEF SidecarInv
    <3>2. age \in Nat /\ loop.left \in 1 .. Every /\ age' = age + 1
      BY <1>1, <2>3, <3>1 DEF SidecarInv
    <3> QED BY <1>1, <3>1, <3>2
  <2> HIDE DEF at, clock, left, ticked
  <2>7. (bundle # None => \E l \in Lists : bundle = S!Sorted(l))
        /\ (loop.pc = "asked" => \E l \in Lists : loop.got = S!Sorted(l))
        /\ policies \in Lists
    BY DEF SidecarInv
  <2> QED BY <1>1, <2>1, <2>2, <2>3, <2>4, <2>5, <2>6, <2>7 DEF SidecarInv
<1>6. CASE \E l \in Shown : S!Publish(l)
  <2>1. policies' \in Lists /\ answer' = S!NoAnswer /\ UNCHANGED <<bundle, loop, age, late>>
    BY <1>1, <1>6 DEF S!Publish
  <2> QED BY <2>1 DEF SidecarInv
<1>7. CASE \E r \in Asked : S!Check(r)
  <2>1. PICK r \in Asked : answer' = Answered(r)
    BY <1>7 DEF S!Check, Answered
  <2>2. UNCHANGED <<policies, bundle, loop, age, late>>
    BY <1>7 DEF S!Check
  <2>3. \A q : Answered(q)' = Answered(q)
    BY <2>2 DEF Answered
  <2> QED BY <2>1, <2>2, <2>3 DEF SidecarInv
<1> QED BY <1>2, <1>3, <1>4, <1>5, <1>6, <1>7 DEF S!Next

(* Whether a condition holds is yes, no, or an error.                      *)
LEMMA HoldsTyped ==
  ASSUME NEW r, NEW c \in Conditions
  PROVE  S!Holds(c, r) \in {"t", "f", "e"}
<1>1. PICK f \in [Conditions -> {"t", "f", "e"}] : \A x \in Conditions : S!Holds(x, r) = f[x]
  BY HoldsIs
<1> QED BY <1>1

(* A request that was answered, and what was.                              *)
LEMMA AnsweredIs ==
  ASSUME SidecarInv, answer.request # None
  PROVE  /\ answer.request \in Asked
         /\ answer.service = S!Evaluate(policies, Granted, answer.request)
         /\ answer.sidecar = IF bundle = None THEN "unavailable"
                             ELSE S!Decide(bundle, answer.request)
<1>1. S!NoAnswer.request = None
  BY DEF S!NoAnswer
<1>2. PICK r \in Asked : answer = Answered(r)
  BY <1>1 DEF SidecarInv
<1>3. /\ Answered(r).request = r
      /\ Answered(r).service = S!Evaluate(policies, Granted, r)
      /\ Answered(r).sidecar = IF bundle = None THEN "unavailable" ELSE S!Decide(bundle, r)
  BY DEF Answered
<1> QED BY <1>2, <1>3

(* The types of the bundle, its age and the answer.                        *)
LEMMA SidecarTyped == SidecarInv => S!TypeOK
<1> SUFFICES ASSUME SidecarInv PROVE S!TypeOK
  OBVIOUS
<1>1. bundle # None => \A i \in 2 .. Len(bundle) : bundle[i - 1].priority <= bundle[i].priority
  BY SortedIs DEF SidecarInv
<1>2. /\ answer.service \in {"none", "allow", "deny", "require_approval"}
      /\ answer.sidecar \in {"none", "unavailable", "allow", "deny", "require_approval"}
  <2>1. CASE answer = S!NoAnswer
    BY <2>1 DEF S!NoAnswer
  <2>2. CASE \E r \in Asked : answer = Answered(r)
    <3>1. PICK r \in Asked : answer = Answered(r)
      BY <2>2
    <3>2. /\ answer.service = S!Evaluate(policies, Granted, r)
          /\ answer.sidecar = IF bundle = None THEN "unavailable" ELSE S!Decide(bundle, r)
      BY <3>1 DEF Answered
    <3>3. S!Evaluate(policies, Granted, r) \in {"allow", "deny", "require_approval"}
      BY EvaluateIs DEF SidecarInv
    <3>4. bundle # None => S!Decide(bundle, r) \in {"allow", "deny", "require_approval"}
      BY DecideIs DEF SidecarInv
    <3> QED BY <3>2, <3>3, <3>4
  <2> QED BY <2>1, <2>2 DEF SidecarInv
<1> QED BY <1>1, <1>2 DEF SidecarInv, S!TypeOK

(* An old bundle is one that no fetch has replaced.                        *)
LEMMA StalenessExplained == SidecarInv => S!StaleOnlyByFailure
<1> SUFFICES ASSUME SidecarInv, bundle # None, age > Every, ~late PROVE FALSE
  BY DEF S!StaleOnlyByFailure
<1>1. age <= Every /\ age \in Nat /\ Every \in Nat
  BY EnforcementAssumption DEF SidecarInv, S!SidecarAssumption
<1> QED BY <1>1

(* The service's answer is that of the first policy that matches           *)
(* (engine.py).                                                            *)
LEMMA FirstOneDecides == SidecarInv => S!FirstDecides
<1> SUFFICES ASSUME SidecarInv, answer.request # None PROVE S!FirstDecides
  BY DEF S!FirstDecides
<1> DEFINE r == answer.request
           l == policies
           b == S!ByPriority(l)
           order == {n \in DOMAIN l : S!Applies(l[b[n]], r)}
           met == {i \in S!Enabled : /\ S!ActionMatches(l[i].actions, r.action)
                                     /\ S!ResourceMatches(l[i].types, r.type)
                                     /\ S!Holds(l[i].condition, r) \in {"t", "e"}}
<1>1. l \in Lists /\ answer.service = S!Evaluate(l, Granted, r)
  BY AnsweredIs DEF SidecarInv
<1>2. /\ Len(l) \in Nat /\ DOMAIN l = 1 .. Len(l)
      /\ \A i \in DOMAIN l : l[i].priority \in Nat /\ l[i].condition \in Conditions
  <2>1. Len(l) \in Nat /\ DOMAIN l = 1 .. Len(l)
    BY <1>1, ListIs
  <2>2. \A i \in DOMAIN l : l[i].priority \in Nat /\ l[i].condition \in Conditions
    BY <1>1, ListIs, Zenon
  <2> QED BY <2>1, <2>2
<1>3. /\ b \in [DOMAIN l -> DOMAIN l]
      /\ \A i \in DOMAIN l : \E n \in DOMAIN l : b[n] = i
      /\ \A n, m \in DOMAIN l : n <= m => S!Before(l, b[n], b[m])
  <2>1. l \in Seq({l[i] : i \in DOMAIN l})
    BY <1>1, ListIs
  <2> QED BY <1>2, <2>1, PriorityOrder
<1>4. \A i \in DOMAIN l : i \in met <=> S!Applies(l[i], r)
  <2>1. \A i \in DOMAIN l : S!Holds(l[i].condition, r) \in {"t", "f", "e"}
    BY <1>2, HoldsTyped
  <2> QED BY <2>1 DEF S!Applies, S!Enabled
<1>5. met \subseteq DOMAIN l
  BY DEF S!Enabled
<1>6. order # {} <=> met # {}
  <2> HIDE DEF met, b
  <2> QED BY <1>3, <1>4, <1>5
<1>7. /\ order = {} => S!Evaluate(l, Granted, r) = "deny"
      /\ ~S!ScopeMatches(Granted, r.action) => S!Evaluate(l, Granted, r) = "deny"
      /\ order # {} => S!Min(order) \in order /\ \A m \in order : S!Min(order) <= m
      /\ order # {} /\ S!ScopeMatches(Granted, r.action) =>
              S!Evaluate(l, Granted, r) = S!Effect(l[b[S!Min(order)]], r)
  BY <1>1, EvaluateIs
<1>8. answer.service = "allow" => S!ScopeMatches(Granted, r.action) /\ met # {}
  BY <1>1, <1>6, <1>7
<1>9. ASSUME met # {}, S!ScopeMatches(Granted, r.action)
      PROVE  \E i \in met :
           /\ \A j \in met : l[i].priority <= l[j].priority
           /\ answer.service = IF S!Holds(l[i].condition, r) = "e" THEN "deny"
                              ELSE l[i].effect
  <2> DEFINE n == S!Min(order)
             i == b[n]
  <2>1. n \in order /\ (\A m \in order : n <= m) /\ answer.service = S!Effect(l[i], r)
    BY <1>1, <1>6, <1>7, <1>9
  <2>2. i \in DOMAIN l /\ n \in DOMAIN l /\ i \in met
    <3>1. n \in DOMAIN l /\ S!Applies(l[b[n]], r)
      BY <2>1
    <3> HIDE DEF n, met, order, b
    <3> QED BY <1>3, <1>4, <3>1
  <2>3. ASSUME NEW j \in met PROVE l[i].priority <= l[j].priority
    <3>1. j \in DOMAIN l /\ S!Applies(l[j], r)
      BY <1>4, <1>5
    <3>2. PICK m \in DOMAIN l : b[m] = j
      BY <1>3, <3>1
    <3>3. m \in order
      BY <3>1, <3>2
    <3>4. S!Before(l, i, j)
      <4>1. n <= m
        BY <2>1, <3>3
      <4> HIDE DEF n, order, b
      <4> QED BY <1>3, <2>2, <3>2, <4>1
    <3>5. l[i].priority \in Nat /\ l[j].priority \in Nat
      BY <1>2, <2>2, <3>1
    <3> HIDE DEF i
    <3> QED BY <3>4, <3>5 DEF S!Before
  <2>4. answer.service = IF S!Holds(l[i].condition, r) = "e" THEN "deny" ELSE l[i].effect
    BY <2>1 DEF S!Effect
  <2> HIDE DEF i, met
  <2> QED BY <2>2, <2>3, <2>4
<1> HIDE DEF order, b
<1> QED BY <1>8, <1>9 DEF S!FirstDecides

(* Of two requests that differ in taint, the tainted one is allowed no     *)
(* more.                                                                   *)
LEMMA TaintRestricts == SidecarInv => S!TaintOnlyRestricts
<1> SUFFICES ASSUME SidecarInv, answer.request # None, answer.service = "allow",
                    \A i \in S!Enabled : S!Restricts(policies[i]),
                    NEW r \in Asked, S!LessTainted(r, answer.request)
             PROVE  S!Evaluate(policies, Granted, r) = "allow"
  BY DEF S!TaintOnlyRestricts
<1> DEFINE q == answer.request
           l == policies
           b == S!ByPriority(l)
           met(x) == {n \in DOMAIN l : S!Applies(l[b[n]], x)}
           n == S!Min(met(q))
<1>1. l \in Lists /\ q \in Asked /\ S!Evaluate(l, Granted, q) = "allow"
  BY AnsweredIs DEF SidecarInv
<1>2. /\ r.action = q.action /\ r.type = q.type /\ r.attrs = q.attrs
      /\ r.time = q.time /\ r.scopes = q.scopes /\ r.history = q.history
      /\ q.generic \/ (~r.generic /\ r.taint \subseteq q.taint)
  <2>1. {"action", "type", "attrs", "taint", "generic", "time", "scopes", "history"} \subseteq DOMAIN q
    BY <1>1, EnforcementAssumption DEF S!SidecarAssumption
  <2>2. r = [q EXCEPT !.taint = r.taint, !.generic = r.generic]
    BY DEF S!LessTainted
  <2>3. /\ r.action = q.action /\ r.type = q.type /\ r.attrs = q.attrs
        /\ r.time = q.time /\ r.scopes = q.scopes /\ r.history = q.history
    BY <2>1, <2>2
  <2> QED BY <2>3 DEF S!LessTainted
<1>3. /\ Len(l) \in Nat /\ DOMAIN l = 1 .. Len(l)
      /\ \A i \in DOMAIN l : l[i].condition \in Conditions
  <2>1. Len(l) \in Nat /\ DOMAIN l = 1 .. Len(l)
    BY <1>1, ListIs
  <2>2. \A i \in DOMAIN l : l[i].condition \in Conditions
    BY <1>1, ListIs, Zenon
  <2> QED BY <2>1, <2>2
<1>4. \A k \in DOMAIN l : b[k] \in DOMAIN l
  BY <1>1, SortedIs
<1>5. /\ S!ScopeMatches(Granted, q.action) /\ n \in met(q) /\ (\A m \in met(q) : n <= m)
      /\ S!Effect(l[b[n]], q) = "allow"
  BY <1>1, EvaluateIs
<1> HIDE DEF n
<1>6. n \in DOMAIN l /\ b[n] \in DOMAIN l /\ S!Applies(l[b[n]], q)
  BY <1>4, <1>5
<1> HIDE DEF b, q
<1>7. S!Holds(l[b[n]].condition, q) \notin {"f", "e"} /\ l[b[n]].effect = "allow" /\ l[b[n]].enabled
  BY <1>5, <1>6 DEF S!Effect, S!Applies
<1>8. S!Holds(l[b[n]].condition, r) = S!Holds(l[b[n]].condition, q)
  <2>1. b[n] \in S!Enabled
    BY <1>6, <1>7 DEF S!Enabled
  <2>2. S!Untainted(l[b[n]].condition)
    BY <1>7, <2>1 DEF S!Restricts
  <2> QED BY <1>2, <1>3, <1>6, <2>2, UntaintedSame
<1>9. n \in met(r)
  BY <1>2, <1>6, <1>7, <1>8 DEF S!Applies
<1>10. ASSUME NEW m \in met(r), ~S!Applies(l[b[m]], q) PROVE FALSE
  <2> DEFINE p == l[b[m]]
  <2>1. b[m] \in DOMAIN l /\ S!Applies(p, r)
    BY <1>4
  <2>2. p.enabled /\ p.condition \in Conditions /\ b[m] \in S!Enabled
    BY <1>3, <2>1 DEF S!Applies, S!Enabled
  <2>3. S!Holds(p.condition, q) = "f" /\ S!Holds(p.condition, r) # "f"
    BY <1>2, <1>10, <2>1 DEF S!Applies
  <2>4. p.condition.op = "is_tainted"
    <3>1. ~S!Untainted(p.condition)
      BY <1>2, <2>2, <2>3, UntaintedSame
    <3> QED BY <2>2, <3>1 DEF S!Restricts
  <2>5. \A x : S!Holds(p.condition, x) = S!Say(S!Tainted(p.condition.categories, x))
    <3> TAKE x
    <3>1. PICK f \in [Conditions -> {"t", "f", "e"}] :
            /\ \A c \in Conditions : f[c] = S!Judged(c, PartsOf(f, S!Args(c)), x)
            /\ \A c \in Conditions : S!Holds(c, x) = f[c]
      BY HoldsIs
    <3> HIDE DEF p
    <3> QED BY <2>2, <2>4, <3>1 DEF S!Judged
  <2>6. ~S!Tainted(p.condition.categories, q) /\ S!Tainted(p.condition.categories, r)
    BY <2>3, <2>5 DEF S!Say
  <2> HIDE DEF p
  <2> QED BY <1>2, <2>6 DEF S!Tainted
<1>11. S!Min(met(r)) = n
  <2>1. S!Min(met(r)) \in met(r) /\ \A m \in met(r) : S!Min(met(r)) <= m
    BY <1>1, <1>9, EvaluateIs DEF b
  <2>2. S!Min(met(r)) \in met(q)
    BY <1>10, <2>1
  <2>3. S!Min(met(r)) \in Nat /\ n \in Nat /\ S!Min(met(r)) <= n /\ n <= S!Min(met(r))
    BY <1>3, <1>5, <1>6, <1>9, <2>1, <2>2
  <2> QED BY <2>3
<1>12. S!Evaluate(l, Granted, r) = S!Effect(l[b[n]], r)
  <2>1. met(r) # {} /\ S!ScopeMatches(Granted, r.action)
    BY <1>2, <1>5, <1>9
  <2>2. S!Evaluate(l, Granted, r) = S!Effect(l[b[S!Min(met(r))]], r)
    BY <1>1, <2>1, EvaluateIs DEF b
  <2> HIDE DEF met
  <2> QED BY <1>11, <2>2
<1> QED BY <1>7, <1>8, <1>12 DEF S!Effect

(* Without what they read differently, service and sidecar answer the      *)
(* same.                                                                   *)
LEMMA SidecarFollows == SidecarInv => S!SidecarAgrees
<1> SUFFICES ASSUME SidecarInv, answer.request # None, bundle = S!Sorted(policies),
                    S!ScopeMatches(Granted, answer.request.action),
                    \A i \in DOMAIN policies : S!SharedPolicy(policies[i]),
                    \E i \in S!Enabled : S!Applies(policies[i], answer.request)
             PROVE  answer.sidecar = answer.service
  BY DEF S!SidecarAgrees
<1> DEFINE r == answer.request
           l == policies
           b == S!ByPriority(l)
           s == S!Sorted(l)
           order == {n \in DOMAIN l : S!Applies(l[b[n]], r)}
           met == {n \in DOMAIN s : /\ s[n].enabled
                                    /\ S!MatchAction(s[n].actions, r.action)
                                    /\ S!EvalCondition(s[n].condition, r)}
           n == S!Min(order)
<1>1. l \in Lists /\ answer.service = S!Evaluate(l, Granted, r)
      /\ answer.sidecar = S!Decide(s, r)
  <2>1. l \in Lists
    BY DEF SidecarInv
  <2>2. bundle # None
    BY <2>1, EnforcementAssumption DEF S!SidecarAssumption
  <2> QED BY <2>1, <2>2, AnsweredIs
<1>2. DOMAIN s = DOMAIN l /\ \A k \in DOMAIN l : b[k] \in DOMAIN l /\ s[k] = l[b[k]]
  BY <1>1, SortedIs
<1>3. \A i \in DOMAIN l : l[i].condition \in Conditions
  BY <1>1, ListIs, Zenon
<1>4. \A i \in DOMAIN l : \E k \in DOMAIN l : b[k] = i
  <2>1. l \in Seq({l[i] : i \in DOMAIN l}) /\ \A i \in DOMAIN l : l[i].priority \in Nat
    BY <1>1, ListIs, Zenon
  <2> QED BY <2>1, PriorityOrder
<1> HIDE DEF b, s
<1>5. ASSUME NEW i \in DOMAIN l
      PROVE  /\ S!MatchAction(l[i].actions, r.action) <=> S!ActionMatches(l[i].actions, r.action)
             /\ S!ResourceMatches(l[i].types, r.type)
             /\ S!Holds(l[i].condition, r) \in {"t", "f"}
             /\ S!EvalCondition(l[i].condition, r) <=> S!Holds(l[i].condition, r) = "t"
  <2>1. /\ l[i].types = {} /\ l[i].actions # {} /\ S!Shared(l[i].condition)
        /\ \A p \in l[i].actions : p.form \in {"any", "exact", "dot"}
    BY DEF S!SharedPolicy
  <2>2. /\ S!Holds(l[i].condition, r) \in {"t", "f"}
        /\ S!EvalCondition(l[i].condition, r) <=> S!Holds(l[i].condition, r) = "t"
    BY <1>3, <2>1, EnginesAgree
  <2>3. S!MatchAction(l[i].actions, r.action) <=> S!ActionMatches(l[i].actions, r.action)
    BY <2>1 DEF S!MatchAction, S!ActionMatches, S!ScopeMatches
  <2> QED BY <2>1, <2>2, <2>3 DEF S!ResourceMatches
<1>6. \A k \in DOMAIN l : k \in met <=> k \in order
  BY <1>2, <1>5 DEF S!Applies
<1>7. met = order
  BY <1>2, <1>6
<1>8. order # {}
  <2>1. PICK i \in DOMAIN l : S!Applies(l[i], r)
    BY DEF S!Enabled
  <2> QED BY <1>4, <2>1
<1>9. n \in order /\ answer.service = S!Effect(l[b[n]], r)
  BY <1>1, <1>8, EvaluateIs DEF b
<1>10. answer.sidecar = s[n].effect
  <2>1. S!Decide(s, r) = IF met = {} THEN "allow" ELSE s[S!Min(met)].effect
    BY DEF S!Decide
  <2> HIDE DEF met, order
  <2> QED BY <1>1, <1>7, <1>8, <2>1
<1>11. S!Holds(l[b[n]].condition, r) # "e" /\ s[n] = l[b[n]]
  BY <1>2, <1>5, <1>9
<1> HIDE DEF n, order, met
<1> QED BY <1>9, <1>10, <1>11 DEF S!Effect

(* So what the run checks of the sidecar holds.                            *)
LEMMA SidecarSafe == SidecarInv => /\ S!TypeOK /\ S!FirstDecides /\ S!TaintOnlyRestricts
                                   /\ S!SidecarAgrees /\ S!StaleOnlyByFailure
BY SidecarTyped, FirstOneDecides, TaintRestricts, SidecarFollows, StalenessExplained

(* The sidecar decides as the service does on its bundle, taint restricts, *)
(* and an old bundle is explained, for every catalogue of policies.        *)
THEOREM SidecarStays == Spec => []SidecarHolds
<1> DEFINE I == part = "sidecar" => SidecarInv
<1>1. Init => I
  BY SidecarStarts DEF Init
<1>2. I /\ [Next]_vars => I'
  <2> SUFFICES ASSUME I, [Next]_vars PROVE I'
    OBVIOUS
  <2>1. CASE UNCHANGED vars
    <3>1. UNCHANGED <<part, policies, bundle, loop, age, late, answer>>
      BY <2>1 DEF vars, sidecarVars
    <3> QED BY <3>1 DEF SidecarInv, Answered
  <2>2. CASE part = "sidecar" /\ S!Next
    BY <2>2, SidecarKept
  <2>3. CASE Next /\ part # "sidecar"
    BY <2>3 DEF Next
  <2>4. Next => part' = part /\ (part = "sidecar" => S!Next)
    BY DEF Next
  <2> QED BY <2>1, <2>2, <2>3, <2>4
<1>3. I => SidecarHolds
  BY SidecarSafe DEF SidecarHolds
<1> HIDE DEF I
<1> QED BY <1>1, <1>2, <1>3, PTL DEF Spec

-----------------------------------------------------------------------------
(* What holds of the clients: no effect on its way, in a cache or given is *)
(* one the policies stopped giving longer ago than it has had time to get  *)
(* there; and while no attempt was given up too early, the service is at   *)
(* the latest at most, and has asked for one approval at most.             *)
Fresh(k, since) ==
  k.pc \in {"read", "cached", "sent"} =>
    /\ k.effect \in K!Effects
    /\ since[k.effect] <= (IF k.pc = "read" THEN 0 ELSE Span + ServiceTTL - 1) + k.age

CheckInv(c, k, w, of) ==
  /\ k.pc = "asking" => k.context \in Contexts /\ k.attempt \in 1 .. Attempts
  /\ k.pc # "done" => ~k.answered
  /\ \A i \in 1 .. Attempts : w[<<c, i>>].pc # "none" => k.context \in Contexts
  /\ ~k.lost =>
       /\ k.made <= 1
       /\ \A i \in 1 .. Attempts : (k.pc = "asking" /\ i = k.attempt) \/ w[<<c, i>>].pc = "none"
       /\ k.pc = "asking" => k.made = 0 \/ w[<<c, k.attempt>>].pc = "sent"
  /\ k.pc = "done" /\ k.answered =>
       IF of.language = "python" \/ k.answer = "allow"
       THEN k.old < SdkTTL + ServiceTTL + 2 * Span
       ELSE k.old < ServiceTTL + 2 * Span
  /\ k.pc = "done" /\ ~k.answered /\ k.answer = "allow" =>
       of = [language |-> "python", fail_closed |-> FALSE]

ClientsInv ==
  /\ load \in Traffic
  /\ client \in [language : {"python", "typescript"}, fail_closed : BOOLEAN]
  /\ effectIn \in Verdicts /\ edits \in 0 .. MaxChanges
  /\ gone \in [K!Effects -> 0 .. K!ClockLimit]
  /\ \A x \in Contexts : gone[effectIn[x]] = 0

CachesInv ==
  /\ serviceCache \in K!Entry(ServiceTTL)
  /\ serviceCache.effect # "none" =>
       serviceCache.left >= 1 /\ gone[serviceCache.effect] + serviceCache.left <= ServiceTTL + Span
  /\ sdk \in [Contexts \cup {None} -> K!Entry(SdkTTL)]
  /\ \A k \in DOMAIN sdk : sdk[k].effect # "none" =>
       /\ gone[sdk[k].effect] + sdk[k].left < SdkTTL + ServiceTTL + 2 * Span
       /\ client.language = "typescript" => sdk[k].effect = "allow"

ChecksInv ==
  /\ work \in [K!Asks -> K!WorkType] /\ \A a \in K!Asks : Fresh(work[a], gone)
  /\ check \in [Calls -> K!CallType] /\ \A c \in Calls : CheckInv(c, check[c], work, client)

SdkInv == ClientsInv /\ CachesInv /\ ChecksInv

(* The constants of the clients.                                           *)
LEMMA SdkNumbers ==
  /\ SdkTTL \in Nat \ {0} /\ ServiceTTL \in Nat \ {0} /\ Span \in Nat \ {0}
  /\ Attempts \in Nat \ {0} /\ MaxChanges \in Nat
  /\ K!ClockLimit = SdkTTL + ServiceTTL + 2 * Span /\ K!ClockLimit \in Nat
  /\ Verdicts \subseteq [Contexts -> K!Effects]
  /\ \A l \in Traffic : l.attempts \in 1 .. Attempts /\ l.changes \in 0 .. MaxChanges
BY EnforcementAssumption DEF K!SdkAssumption, K!ClockLimit

(* No client starts with an answer.                                        *)
LEMMA SdkStarts == K!Init => SdkInv
<1> SUFFICES ASSUME K!Init PROVE SdkInv
  OBVIOUS
<1> USE SdkNumbers
<1>1. K!NoEntry \in K!Entry(ServiceTTL) /\ K!NoEntry \in K!Entry(SdkTTL) /\ K!NoEntry.effect = "none"
  BY DEF K!NoEntry, K!Entry
<1>2. gone \in [K!Effects -> 0 .. K!ClockLimit] /\ \A x \in Contexts : gone[effectIn[x]] = 0
  BY DEF K!Init
<1>3. ClientsInv
  BY <1>2 DEF K!Init, ClientsInv
<1>4. CachesInv
  BY <1>1 DEF K!Init, CachesInv
<1>5. K!New \in K!CallType /\ K!New.pc = "new" /\ K!New.answered = FALSE /\ K!New.made = 0
  BY DEF K!New, K!CallType
<1>6. K!NoWork \in K!WorkType /\ K!NoWork.pc = "none"
  BY DEF K!NoWork, K!WorkType
<1>7. work = [a \in K!Asks |-> K!NoWork] /\ check = [c \in Calls |-> K!New]
  BY DEF K!Init
<1>8. \A c \in Calls, i \in 1 .. Attempts : work[<<c, i>>].pc = "none"
  BY <1>6, <1>7 DEF K!Asks
<1>9. \A c \in Calls : CheckInv(c, check[c], work, client)
  BY <1>5, <1>7, <1>8 DEF CheckInv
<1> QED BY <1>3, <1>4, <1>5, <1>6, <1>7, <1>9 DEF SdkInv, ChecksInv, Fresh

(* A client is one of four.                                                *)
LEMMA SdkKeys ==
  ASSUME SdkInv
  PROVE  /\ client.language \in {"python", "typescript"} /\ client.fail_closed \in BOOLEAN
         /\ \A x \in Contexts : K!Key(x) \in Contexts \cup {None}
         /\ DOMAIN sdk = Contexts \cup {None}
         /\ K!Unanswered \in K!Effects \cup {"unavailable"}
BY DEF SdkInv, ClientsInv, CachesInv, K!Key, K!Unanswered, K!Effects

(* A step that sets one check, or one attempt, and leaves the others.      *)
SetsCheck(c, k) == check' = [check EXCEPT ![c] = k]
SetsAsk(c, n, v) == work' = [work EXCEPT ![<<c, n>>] = v]
AsksInv == work' \in [K!Asks -> K!WorkType] /\ \A a \in K!Asks : Fresh(work'[a], gone)
OtherAsks(c) == \A d \in Calls \ {c}, i \in 1 .. Attempts : work'[<<d, i>>] = work[<<d, i>>]
AskIs(c, n, v) ==
  /\ AsksInv /\ OtherAsks(c)
  /\ \A d \in Calls, i \in 1 .. Attempts :
       work'[<<d, i>>] = IF d = c /\ i = n THEN v ELSE work[<<d, i>>]

(* One check moves, or what becomes of its attempts, and the rest stands.  *)
LEMMA OneCheck ==
  ASSUME SdkInv, NEW c \in Calls, NEW k \in K!CallType, SetsCheck(c, k),
         client' = client, gone' = gone, AsksInv, OtherAsks(c), CheckInv(c, k, work', client)
  PROVE  ChecksInv'
<1> USE DEF SetsCheck, AsksInv, OtherAsks
<1>1. check \in [Calls -> K!CallType] /\ \A d \in Calls : CheckInv(d, check[d], work, client)
  BY DEF SdkInv, ChecksInv
<1>2. \A d \in Calls : check'[d] = IF d = c THEN k ELSE check[d]
  BY <1>1
<1>3. ASSUME NEW d \in Calls \ {c} PROVE CheckInv(d, check[d], work', client)
  <2>1. CheckInv(d, check[d], work, client) /\ \A i \in 1 .. Attempts : work'[<<d, i>>] = work[<<d, i>>]
    BY <1>1
  <2> QED BY <2>1 DEF CheckInv
<1>4. check' \in [Calls -> K!CallType]
  BY <1>1
<1>5. \A d \in Calls : CheckInv(d, check'[d], work', client)
  BY <1>2, <1>3
<1> QED BY <1>4, <1>5 DEF ChecksInv

(* One attempt changes.                                                    *)
LEMMA OneAsk ==
  ASSUME SdkInv, NEW c \in Calls, NEW n \in 1 .. Attempts, NEW v \in K!WorkType, Fresh(v, gone),
         SetsAsk(c, n, v)
  PROVE  AskIs(c, n, v)
<1>1. work \in [K!Asks -> K!WorkType] /\ \A a \in K!Asks : Fresh(work[a], gone)
  BY DEF SdkInv, ChecksInv
<1>2. <<c, n>> \in K!Asks /\ \A d \in Calls, i \in 1 .. Attempts : <<d, i>> \in K!Asks
  BY DEF K!Asks
<1>3. \A a \in K!Asks : work'[a] = IF a = <<c, n>> THEN v ELSE work[a]
  BY <1>1, <1>2 DEF SetsAsk
<1>4. \A d \in Calls, i \in 1 .. Attempts :
        work'[<<d, i>>] = IF d = c /\ i = n THEN v ELSE work[<<d, i>>]
  BY <1>2, <1>3
<1>5. AsksInv
  BY <1>1, <1>2, <1>3 DEF AsksInv, SetsAsk
<1>6. OtherAsks(c)
  BY <1>4 DEF OtherAsks
<1> QED BY <1>4, <1>5, <1>6 DEF AskIs

(* An attempt moves that is at the service, and its check does not.        *)
LEMMA AtService ==
  ASSUME SdkInv, NEW c \in Calls, NEW n \in 1 .. Attempts, NEW v \in K!WorkType, Fresh(v, gone),
         SetsAsk(c, n, v), work[<<c, n>>].pc \in {"asked", "read", "cached"},
         UNCHANGED <<load, client, effectIn, serviceCache, sdk, gone, check, edits>>
  PROVE  SdkInv'
<1> DEFINE k == check[c]
<1>1. k \in K!CallType /\ CheckInv(c, k, work, client) /\ check \in [Calls -> K!CallType]
  BY DEF SdkInv, ChecksInv
<1>2. AskIs(c, n, v)
  BY OneAsk
<1>3. CheckInv(c, k, work', client)
  <2>1. \A i \in 1 .. Attempts : work'[<<c, i>>].pc # "none" => k.context \in Contexts
    BY <1>1, <1>2 DEF CheckInv, AskIs
  <2>2. ASSUME ~k.lost
        PROVE  /\ k.made <= 1
               /\ \A i \in 1 .. Attempts : (k.pc = "asking" /\ i = k.attempt) \/ work'[<<c, i>>].pc = "none"
               /\ k.pc = "asking" => k.made = 0 \/ work'[<<c, k.attempt>>].pc = "sent"
    <3>1. k.pc = "asking" /\ n = k.attempt
      BY <1>1, <2>2 DEF CheckInv
    <3>2. k.made = 0
      BY <1>1, <2>2, <3>1 DEF CheckInv
    <3> QED BY <1>1, <1>2, <2>2, <3>1, <3>2 DEF CheckInv, AskIs
  <2> QED BY <1>1, <2>1, <2>2 DEF CheckInv
<1>4. SetsCheck(c, k)
  BY <1>1 DEF SetsCheck
<1>5. AsksInv /\ OtherAsks(c) /\ client' = client /\ gone' = gone
  BY <1>2 DEF AskIs
<1> HIDE DEF k
<1>6. ChecksInv'
  BY <1>1, <1>3, <1>4, <1>5, OneCheck
<1> QED BY <1>6 DEF SdkInv, ClientsInv, CachesInv

(* A check is answered by the client's cache, or asks.                     *)
LEMMA CheckKept ==
  ASSUME SdkInv, NEW c \in Calls, NEW x \in Contexts, K!Check(c, x)
  PROVE  SdkInv'
<1> USE SdkNumbers
<1> DEFINE hit == sdk[K!Key(x)]
           begun == [K!New EXCEPT !.context = x]
<1>1. /\ \A i \in 1 .. Attempts : work[<<c, i>>].pc = "none"
      /\ UNCHANGED <<load, client, effectIn, serviceCache, sdk, gone, edits>>
  BY DEF K!Check
<1>2. hit \in K!Entry(SdkTTL) /\ K!Key(x) \in DOMAIN sdk
  BY SdkKeys DEF SdkInv, CachesInv
<1>3. work \in [K!Asks -> K!WorkType] /\ \A a \in K!Asks : Fresh(work[a], gone)
  BY DEF SdkInv, ChecksInv
<1>4. CASE hit.effect # "none"
  <2> DEFINE m == K!Return(begun, hit.effect)
  <2>1. hit.effect \in K!Effects /\ gone[hit.effect] \in 0 .. K!ClockLimit /\ hit.left \in Nat
    BY <1>2, <1>4 DEF SdkInv, ClientsInv, K!Entry
  <2>2. /\ gone[hit.effect] < SdkTTL + ServiceTTL + 2 * Span
        /\ client.language = "typescript" => hit.effect = "allow"
    <3>1. /\ gone[hit.effect] + hit.left < SdkTTL + ServiceTTL + 2 * Span
          /\ client.language = "typescript" => hit.effect = "allow"
      BY <1>2, <1>4 DEF SdkInv, CachesInv
    <3> HIDE DEF hit
    <3> QED BY <2>1, <3>1
  <2>3. /\ m \in K!CallType /\ m.pc = "done" /\ m.answered = TRUE /\ m.answer = hit.effect
        /\ m.old = gone[hit.effect] /\ m.made = 0
    <3> HIDE DEF hit
    <3>1. begun \in K!CallType /\ begun.made = 0
      <4>1. K!New \in K!CallType /\ K!New.made = 0
        BY DEF K!New, K!CallType
      <4>2. begun.made = K!New.made
        BY DEF K!New
      <4>3. begun \in K!CallType
        BY <4>1 DEF K!CallType
      <4> QED BY <4>1, <4>2, <4>3
    <3> HIDE DEF begun
    <3>2. 0 \in 0 .. Attempts
      OBVIOUS
    <3>3. m \in K!CallType
      BY <2>1, <3>1, <3>2 DEF K!Return, K!CallType
    <3>4. /\ m.pc = "done" /\ m.answered = TRUE /\ m.answer = hit.effect
          /\ m.old = gone[hit.effect] /\ m.made = begun.made
      BY <3>1 DEF K!Return, K!CallType
    <3> QED BY <3>1, <3>3, <3>4
  <2>4. SetsCheck(c, m) /\ work' = work
    BY <1>4 DEF K!Check, SetsCheck
  <2>5. CheckInv(c, m, work, client)
    <3> HIDE DEF m, hit
    <3> QED BY <1>1, <2>2, <2>3, SdkKeys DEF CheckInv
  <2> HIDE DEF m
  <2>6. AsksInv /\ OtherAsks(c) /\ client' = client /\ gone' = gone /\ CheckInv(c, m, work', client)
    BY <1>1, <1>3, <2>4, <2>5 DEF AsksInv, OtherAsks
  <2>7. ChecksInv'
    BY <2>3, <2>4, <2>6, OneCheck
  <2> QED BY <1>1, <2>4, <2>7 DEF SdkInv, ClientsInv, CachesInv
<1>5. CASE hit.effect = "none"
  <2> DEFINE m == [begun EXCEPT !.pc = "asking", !.attempt = 1]
  <2>1. /\ m \in K!CallType /\ m.pc = "asking" /\ m.context = x /\ m.attempt = 1 /\ m.answered = FALSE
        /\ m.made = 0
    <3>1. 1 \in 0 .. Attempts /\ 0 \in 0 .. K!ClockLimit
      OBVIOUS
    <3> QED BY <3>1 DEF K!New, K!CallType
  <2>2. SetsCheck(c, m) /\ SetsAsk(c, 1, K!Underway)
    BY <1>5 DEF K!Check, SetsCheck, SetsAsk
  <2>3. K!Underway \in K!WorkType /\ K!Underway.pc = "asked" /\ Fresh(K!Underway, gone)
    BY DEF K!Underway, K!NoWork, K!WorkType, Fresh
  <2>4. 1 \in 1 .. Attempts
    OBVIOUS
  <2> HIDE DEF m
  <2>5. AskIs(c, 1, K!Underway)
    BY <2>2, <2>3, <2>4, OneAsk
  <2>6. CheckInv(c, m, work', client)
    BY <1>1, <2>1, <2>3, <2>4, <2>5 DEF CheckInv, AskIs
  <2>7. AsksInv /\ OtherAsks(c) /\ client' = client /\ gone' = gone
    BY <1>1, <2>5 DEF AskIs
  <2>8. ChecksInv'
    BY <2>1, <2>2, <2>6, <2>7, OneCheck
  <2> QED BY <1>1, <2>8 DEF SdkInv, ClientsInv, CachesInv
<1> QED BY <1>4, <1>5

(* The service reads its cache or the policies, or fails.                  *)
LEMMA ServeKept ==
  ASSUME SdkInv, NEW a \in K!Asks, K!Hit(a) \/ K!Read(a) \/ K!Drop(a)
  PROVE  SdkInv'
<1> USE SdkNumbers
<1>1. PICK c \in Calls, n \in 1 .. Attempts : a = <<c, n>>
  BY DEF K!Asks
<1>2. /\ UNCHANGED <<load, client, effectIn, serviceCache, sdk, gone, check, edits>>
      /\ work[<<c, n>>].pc \in {"asked", "read", "cached"}
  BY <1>1 DEF K!Hit, K!Read, K!Drop
<1>3. work[<<c, n>>].pc # "none" => check[c].context \in Contexts
  BY DEF SdkInv, ChecksInv, CheckInv
<1>4. CASE K!Hit(a)
  <2> DEFINE v == [pc |-> "cached", effect |-> serviceCache.effect, age |-> 0]
  <2>1. serviceCache.effect \in K!Effects /\ serviceCache.left \in Nat
        /\ gone[serviceCache.effect] \in Nat
    BY <1>4 DEF K!Hit, SdkInv, ClientsInv, CachesInv, K!Entry
  <2>2. serviceCache.left >= 1 /\ gone[serviceCache.effect] + serviceCache.left <= ServiceTTL + Span
    BY <1>4 DEF K!Hit, SdkInv, CachesInv
  <2>3. v \in K!WorkType /\ Fresh(v, gone)
    BY <2>1, <2>2 DEF K!WorkType, Fresh
  <2>4. SetsAsk(c, n, v)
    BY <1>1, <1>4 DEF K!Hit, SetsAsk
  <2> HIDE DEF v
  <2> QED BY <1>2, <2>3, <2>4, AtService
<1>5. CASE K!Read(a)
  <2> DEFINE v == [pc |-> "read", effect |-> effectIn[check[c].context], age |-> 0]
  <2>1. effectIn[check[c].context] \in K!Effects /\ gone[effectIn[check[c].context]] = 0
    BY <1>2, <1>3 DEF SdkInv, ClientsInv
  <2>2. v \in K!WorkType /\ Fresh(v, gone)
    BY <2>1 DEF K!WorkType, Fresh
  <2>3. SetsAsk(c, n, v)
    BY <1>1, <1>5 DEF K!Read, SetsAsk
  <2> HIDE DEF v
  <2> QED BY <1>2, <2>2, <2>3, AtService
<1>6. CASE K!Drop(a)
  <2>1. K!NoWork \in K!WorkType /\ Fresh(K!NoWork, gone)
    BY DEF K!NoWork, K!WorkType, Fresh
  <2>2. SetsAsk(c, n, K!NoWork)
    BY <1>1, <1>6 DEF K!Drop, SetsAsk
  <2> QED BY <1>2, <2>1, <2>2, AtService
<1> QED BY <1>4, <1>5, <1>6

(* It caches what it read, requests an approval, and answers whoever waits.*)
LEMMA FinishKept ==
  ASSUME SdkInv, NEW a \in K!Asks, K!Finish(a)
  PROVE  SdkInv'
<1> USE SdkNumbers
<1>1. PICK c \in Calls, n \in 1 .. Attempts : a = <<c, n>>
  BY DEF K!Asks
<1> DEFINE k == check[c]
           w == work[<<c, n>>]
           waiting == k.pc = "asking" /\ n = k.attempt
           v == IF waiting THEN [w EXCEPT !.pc = "sent"] ELSE K!NoWork
           n2 == IF w.effect = "require_approval" THEN k.made + 1 ELSE k.made
           m == [k EXCEPT !.made = n2]
<1>2. /\ w.pc \in {"read", "cached"} /\ UNCHANGED <<load, client, effectIn, sdk, gone, edits>>
      /\ \/ w.pc = "read" /\ serviceCache' = [effect |-> w.effect, left |-> ServiceTTL]
         \/ serviceCache' = serviceCache
  BY <1>1 DEF K!Finish
<1>3. k \in K!CallType /\ CheckInv(c, k, work, client) /\ check \in [Calls -> K!CallType]
  BY DEF SdkInv, ChecksInv
<1>4. w \in K!WorkType /\ Fresh(w, gone) /\ work \in [K!Asks -> K!WorkType] /\ <<c, n>> \in K!Asks
  BY DEF SdkInv, ChecksInv, K!Asks
<1>5. SetsAsk(c, n, v)
  <2>1. (a = K!Latest(c)) <=> (n = k.attempt)
    BY <1>1 DEF K!Latest
  <2> QED BY <1>1, <1>4, <2>1 DEF K!Finish, SetsAsk
<1>6. SetsCheck(c, m)
  BY <1>1, <1>3 DEF K!Finish, SetsCheck
<1>7. w.effect \in K!Effects /\ gone[w.effect] \in Nat /\ w.age \in 0 .. Span
      /\ gone[w.effect] <= Span + ServiceTTL - 1 + w.age
      /\ (w.pc = "read" => gone[w.effect] <= Span)
  <2>1. w.effect \in K!Effects /\ w.age \in 0 .. Span
        /\ gone[w.effect] <= (IF w.pc = "read" THEN 0 ELSE Span + ServiceTTL - 1) + w.age
    BY <1>2, <1>4 DEF Fresh, K!WorkType
  <2>2. gone[w.effect] \in Nat
    BY <2>1 DEF SdkInv, ClientsInv
  <2> HIDE DEF w
  <2> QED BY <1>2, <2>1, <2>2
<1>8. v \in K!WorkType /\ Fresh(v, gone) /\ v.pc = (IF waiting THEN "sent" ELSE "none")
  <2> HIDE DEF waiting, w
  <2>1. CASE waiting
    <3>1. v \in K!WorkType /\ v.pc = "sent" /\ v.effect = w.effect /\ v.age = w.age
      BY <1>4, <2>1 DEF K!WorkType
    <3> HIDE DEF v
    <3> QED BY <1>7, <2>1, <3>1 DEF Fresh
  <2>2. CASE ~waiting
    BY <2>2 DEF K!NoWork, K!WorkType, Fresh
  <2> QED BY <2>1, <2>2
<1>9. /\ m \in K!CallType /\ m.pc = k.pc /\ m.context = k.context /\ m.attempt = k.attempt
      /\ m.answer = k.answer /\ m.answered = k.answered /\ m.lost = k.lost /\ m.old = k.old
      /\ m.made \in {k.made, k.made + 1} /\ k.made \in Nat
  <2> HIDE DEF w, k
  <2>1. k.made \in Nat
    BY <1>3 DEF K!CallType
  <2>2. n2 \in Nat /\ n2 \in {k.made, k.made + 1}
    BY <2>1
  <2> HIDE DEF n2
  <2> QED BY <1>3, <2>1, <2>2 DEF K!CallType
<1> HIDE DEF v, m, w
<1>10. AskIs(c, n, v)
  BY <1>5, <1>8, OneAsk
<1>11. CheckInv(c, m, work', client)
  <2>1. work[<<c, n>>].pc # "none"
    BY <1>2 DEF w
  <2>2. ASSUME ~m.lost
        PROVE  /\ m.made <= 1
               /\ \A i \in 1 .. Attempts : (m.pc = "asking" /\ i = m.attempt) \/ work'[<<c, i>>].pc = "none"
               /\ m.pc = "asking" => m.made = 0 \/ work'[<<c, m.attempt>>].pc = "sent"
    <3>1. k.pc = "asking" /\ n = k.attempt /\ ~k.lost
      BY <1>3, <1>9, <2>1, <2>2 DEF CheckInv
    <3>2. k.made = 0
      <4>1. k.made = 0 \/ work[<<c, n>>].pc = "sent"
        BY <1>3, <3>1 DEF CheckInv
      <4> QED BY <1>2, <4>1 DEF w
    <3>3. v.pc = "sent"
      BY <1>8, <3>1
    <3> QED BY <1>3, <1>9, <1>10, <3>1, <3>2, <3>3 DEF CheckInv, AskIs
  <2>3. \A i \in 1 .. Attempts : work'[<<c, i>>].pc # "none" => m.context \in Contexts
    BY <1>3, <1>9, <1>10, <2>1 DEF CheckInv, AskIs
  <2> QED BY <1>3, <1>9, <2>2, <2>3 DEF CheckInv
<1>12. ChecksInv'
  <2>1. AsksInv /\ OtherAsks(c) /\ client' = client /\ gone' = gone
    BY <1>2, <1>10 DEF AskIs
  <2> HIDE DEF k
  <2> QED BY <1>6, <1>9, <1>11, <2>1, OneCheck
<1>13. /\ serviceCache' \in K!Entry(ServiceTTL)
       /\ serviceCache'.effect # "none" =>
            serviceCache'.left >= 1 /\ gone[serviceCache'.effect] + serviceCache'.left <= ServiceTTL + Span
  <2>1. CASE serviceCache' = serviceCache
    BY <2>1 DEF SdkInv, CachesInv
  <2>2. CASE w.pc = "read" /\ serviceCache' = [effect |-> w.effect, left |-> ServiceTTL]
    BY <1>7, <2>2 DEF K!Entry
  <2> QED BY <1>2, <2>1, <2>2
<1> QED BY <1>2, <1>12, <1>13 DEF SdkInv, ClientsInv, CachesInv

(* The answer arrives, and is kept as the client keeps it.                 *)
LEMMA AnswerKept ==
  ASSUME SdkInv, NEW c \in Calls, K!Arrive(c)
  PROVE  SdkInv'
<1> USE SdkNumbers
<1> DEFINE k == check[c]
           n == k.attempt
           w == work[<<c, n>>]
           m == K!Return(k, w.effect)
<1>1. /\ k.pc = "asking" /\ w.pc = "sent" /\ SetsAsk(c, n, K!NoWork) /\ SetsCheck(c, m)
      /\ UNCHANGED <<load, client, effectIn, serviceCache, gone, edits>>
  BY DEF K!Arrive, K!Latest, SetsAsk, SetsCheck
<1>2. k \in K!CallType /\ CheckInv(c, k, work, client)
  BY DEF SdkInv, ChecksInv
<1>3. n \in 1 .. Attempts /\ k.context \in Contexts
  BY <1>1, <1>2 DEF CheckInv
<1>4. w \in K!WorkType /\ Fresh(w, gone)
  BY <1>3 DEF SdkInv, ChecksInv, K!Asks
<1>5. w.effect \in K!Effects /\ gone[w.effect] \in 0 .. K!ClockLimit
      /\ gone[w.effect] < ServiceTTL + 2 * Span
  <2>1. w.effect \in K!Effects /\ w.age \in 0 .. Span
        /\ gone[w.effect] <= Span + ServiceTTL - 1 + w.age
    BY <1>1, <1>4 DEF Fresh, K!WorkType
  <2>2. gone[w.effect] \in 0 .. K!ClockLimit
    BY <2>1 DEF SdkInv, ClientsInv
  <2> HIDE DEF w
  <2> QED BY <2>1, <2>2
<1>6. sdk' = IF K!Kept(w.effect) THEN [sdk EXCEPT ![K!Key(k.context)] = [effect |-> w.effect, left |-> SdkTTL]]
             ELSE sdk
  BY DEF K!Arrive, K!Latest
<1>7. /\ m \in K!CallType /\ m.pc = "done" /\ m.answered = TRUE /\ m.answer = w.effect
      /\ m.old = gone[w.effect] /\ m.made = k.made /\ m.lost = k.lost /\ m.context = k.context
  <2> HIDE DEF k, w
  <2>1. 0 \in 0 .. Attempts
    OBVIOUS
  <2>2. m \in K!CallType
    BY <1>2, <1>5, <2>1 DEF K!Return, K!CallType
  <2>3. /\ m.pc = "done" /\ m.answered = TRUE /\ m.answer = w.effect
        /\ m.old = gone[w.effect] /\ m.made = k.made /\ m.lost = k.lost /\ m.context = k.context
    BY <1>2 DEF K!Return, K!CallType
  <2> QED BY <2>2, <2>3
<1>8. K!NoWork \in K!WorkType /\ Fresh(K!NoWork, gone) /\ K!NoWork.pc = "none"
  BY DEF K!NoWork, K!WorkType, Fresh
<1> HIDE DEF m, w
<1>9. AskIs(c, n, K!NoWork)
  <2> HIDE DEF n
  <2> QED BY <1>1, <1>3, <1>8, OneAsk
<1>10. CheckInv(c, m, work', client)
  BY <1>1, <1>2, <1>3, <1>5, <1>7, <1>8, <1>9 DEF CheckInv, AskIs
<1>11. ChecksInv'
  <2>1. AsksInv /\ OtherAsks(c) /\ client' = client /\ gone' = gone
    BY <1>1, <1>9 DEF AskIs
  <2> HIDE DEF k
  <2> QED BY <1>1, <1>7, <1>10, <2>1, OneCheck
<1>12. /\ sdk' \in [Contexts \cup {None} -> K!Entry(SdkTTL)]
       /\ \A y \in DOMAIN sdk' : sdk'[y].effect # "none" =>
            /\ gone[sdk'[y].effect] + sdk'[y].left < SdkTTL + ServiceTTL + 2 * Span
            /\ client.language = "typescript" => sdk'[y].effect = "allow"
  <2>1. CASE ~K!Kept(w.effect)
    BY <1>6, <2>1 DEF SdkInv, CachesInv
  <2>2. CASE K!Kept(w.effect)
    <3> DEFINE e == [effect |-> w.effect, left |-> SdkTTL]
               y0 == K!Key(k.context)
    <3>1. e \in K!Entry(SdkTTL) /\ y0 \in Contexts \cup {None}
      BY <1>3, <1>5, SdkKeys DEF K!Entry
    <3>2. /\ gone[e.effect] + e.left < SdkTTL + ServiceTTL + 2 * Span
          /\ client.language = "typescript" => e.effect = "allow"
      BY <1>5, <2>2 DEF K!Kept
    <3>3. sdk' = [sdk EXCEPT ![y0] = e]
      BY <1>6, <2>2
    <3> HIDE DEF e, y0
    <3>4. sdk \in [Contexts \cup {None} -> K!Entry(SdkTTL)]
          /\ \A y \in DOMAIN sdk : sdk'[y] = IF y = y0 THEN e ELSE sdk[y]
      BY <3>3 DEF SdkInv, CachesInv
    <3> QED BY <3>1, <3>2, <3>3, <3>4 DEF SdkInv, CachesInv
  <2> QED BY <2>1, <2>2
<1> QED BY <1>1, <1>11, <1>12 DEF SdkInv, ClientsInv, CachesInv

(* An attempt is given up; another is made, or the check is over.          *)
LEMMA FailKept ==
  ASSUME SdkInv, NEW c \in Calls, K!Fail(c)
  PROVE  SdkInv'
<1> USE SdkNumbers
<1> DEFINE k == check[c]
           n == k.attempt
           w == work[<<c, n>>]
           l == [k EXCEPT !.lost = @ \/ w.pc # "none"]
           v == IF w.pc = "sent" THEN K!NoWork ELSE w
           left == [work EXCEPT ![<<c, n>>] = v]
<1>1. k.pc = "asking" /\ UNCHANGED <<load, client, effectIn, serviceCache, sdk, gone, edits>>
  BY DEF K!Fail
<1>2. k \in K!CallType /\ CheckInv(c, k, work, client)
  BY DEF SdkInv, ChecksInv
<1>3. n \in 1 .. Attempts /\ k.context \in Contexts
  BY <1>1, <1>2 DEF CheckInv
<1>4. w \in K!WorkType /\ Fresh(w, gone) /\ work \in [K!Asks -> K!WorkType]
      /\ \A b \in K!Asks : Fresh(work[b], gone)
  BY <1>3 DEF SdkInv, ChecksInv, K!Asks
<1>5. <<c, n>> \in K!Asks /\ \A d \in Calls, i \in 1 .. Attempts : <<d, i>> \in K!Asks
  BY <1>3 DEF K!Asks
<1>6. v \in K!WorkType /\ Fresh(v, gone) /\ (w.pc = "none" => v.pc = "none")
  <2> HIDE DEF w
  <2> QED BY <1>4 DEF K!NoWork, K!WorkType, Fresh
<1>7. /\ l \in K!CallType /\ l.pc = k.pc /\ l.lost = (k.lost \/ w.pc # "none") /\ l.made = k.made
      /\ l.attempt = n /\ l.context = k.context /\ l.answered = k.answered
  <2> HIDE DEF k, w
  <2>1. (k.lost \/ w.pc # "none") \in BOOLEAN
    OBVIOUS
  <2>2. l \in K!CallType
    BY <1>2, <2>1 DEF K!CallType
  <2>3. /\ l.pc = k.pc /\ l.lost = (k.lost \/ w.pc # "none") /\ l.made = k.made
        /\ l.attempt = k.attempt /\ l.context = k.context /\ l.answered = k.answered
    BY <1>2 DEF K!CallType
  <2> QED BY <2>2, <2>3
<1>8. left = [work EXCEPT ![<<c, n>>] = IF @.pc = "sent" THEN K!NoWork ELSE @]
  BY <1>4, <1>5
<1>9. IF n < load.attempts
      THEN /\ check' = [check EXCEPT ![c] = [l EXCEPT !.attempt = @ + 1]]
           /\ work' = [left EXCEPT ![<<c, n + 1>>] = K!Underway]
      ELSE /\ check' = [check EXCEPT ![c] = [l EXCEPT !.pc = "done", !.attempt = 0, !.answer = K!Unanswered]]
           /\ work' = left
  <2>1. l.attempt = n
    BY <1>7
  <2> HIDE DEF left
  <2> QED BY <1>8, <2>1 DEF K!Fail, K!Latest
<1> HIDE DEF v, l
<1>10. /\ left \in [K!Asks -> K!WorkType] /\ \A b \in K!Asks : Fresh(left[b], gone)
       /\ \A b \in K!Asks : left[b] = IF b = <<c, n>> THEN v ELSE work[b]
  BY <1>4, <1>5, <1>6
<1> HIDE DEF left
<1>11. ~l.lost => /\ k.made = 0
                  /\ \A i \in 1 .. Attempts : left[<<c, i>>].pc = "none"
  <2> SUFFICES ASSUME ~l.lost PROVE k.made = 0 /\ \A i \in 1 .. Attempts : left[<<c, i>>].pc = "none"
    OBVIOUS
  <2>1. ~k.lost /\ w.pc = "none"
    BY <1>7
  <2>2. k.made = 0 /\ \A i \in 1 .. Attempts : i = n \/ work[<<c, i>>].pc = "none"
    BY <1>1, <1>2, <2>1 DEF CheckInv
  <2>3. \A i \in 1 .. Attempts : left[<<c, i>>] = IF i = n THEN v ELSE work[<<c, i>>]
    <3> SUFFICES ASSUME NEW i \in 1 .. Attempts
                 PROVE  left[<<c, i>>] = IF i = n THEN v ELSE work[<<c, i>>]
      OBVIOUS
    <3>1. (<<c, i>> = <<c, n>>) <=> i = n
      OBVIOUS
    <3> QED BY <1>5, <1>10, <3>1
  <2> QED BY <1>6, <2>1, <2>2, <2>3
<1>12. k.answered = FALSE
  BY <1>1, <1>2 DEF CheckInv, K!CallType
<1>13. CASE n < load.attempts
  <2> DEFINE m == [l EXCEPT !.attempt = @ + 1]
  <2>1. n + 1 \in 1 .. Attempts
    BY <1>3, <1>13 DEF SdkInv, ClientsInv
  <2>2. /\ m \in K!CallType /\ m.pc = "asking" /\ m.context = k.context /\ m.made = k.made
        /\ m.lost = l.lost /\ m.attempt = n + 1 /\ m.answered = FALSE
    <3>1. n + 1 \in 0 .. Attempts
      BY <2>1
    <3> HIDE DEF k, n
    <3> QED BY <1>1, <1>7, <1>12, <3>1 DEF K!CallType
  <2>3. check' = [check EXCEPT ![c] = m] /\ work' = [left EXCEPT ![<<c, n + 1>>] = K!Underway]
    BY <1>9, <1>13
  <2>4. K!Underway \in K!WorkType /\ K!Underway.pc = "asked" /\ Fresh(K!Underway, gone)
    BY DEF K!Underway, K!NoWork, K!WorkType, Fresh
  <2>5. <<c, n + 1>> \in K!Asks
    BY <2>1 DEF K!Asks
  <2> HIDE DEF m
  <2>6. /\ work' \in [K!Asks -> K!WorkType] /\ \A b \in K!Asks : Fresh(work'[b], gone)
        /\ \A b \in K!Asks : work'[b] = IF b = <<c, n + 1>> THEN K!Underway ELSE left[b]
    BY <1>10, <2>3, <2>4, <2>5
  <2>7. \A d \in Calls \ {c}, i \in 1 .. Attempts : work'[<<d, i>>] = work[<<d, i>>]
    <3> SUFFICES ASSUME NEW d \in Calls \ {c}, NEW i \in 1 .. Attempts PROVE work'[<<d, i>>] = work[<<d, i>>]
      OBVIOUS
    <3>1. <<d, i>> # <<c, n + 1>> /\ <<d, i>> # <<c, n>>
      OBVIOUS
    <3> QED BY <1>5, <1>10, <2>6, <3>1
  <2>8. \A i \in 1 .. Attempts : i # n + 1 => work'[<<c, i>>] = left[<<c, i>>]
    <3> SUFFICES ASSUME NEW i \in 1 .. Attempts, i # n + 1 PROVE work'[<<c, i>>] = left[<<c, i>>]
      OBVIOUS
    <3>1. <<c, i>> # <<c, n + 1>>
      OBVIOUS
    <3> QED BY <1>5, <2>6, <3>1
  <2>9. CheckInv(c, m, work', client)
    <3>1. ~m.lost => /\ m.made = 0
                     /\ \A i \in 1 .. Attempts : i = m.attempt \/ work'[<<c, i>>].pc = "none"
      BY <1>11, <2>2, <2>8
    <3> QED BY <1>3, <2>1, <2>2, <3>1 DEF CheckInv
  <2>10. AsksInv /\ OtherAsks(c) /\ SetsCheck(c, m) /\ client' = client /\ gone' = gone
    BY <1>1, <2>3, <2>6, <2>7 DEF AsksInv, OtherAsks, SetsCheck
  <2>11. ChecksInv'
    BY <2>2, <2>9, <2>10, OneCheck
  <2> QED BY <1>1, <2>11 DEF SdkInv, ClientsInv, CachesInv
<1>14. CASE ~(n < load.attempts)
  <2> DEFINE m == [l EXCEPT !.pc = "done", !.attempt = 0, !.answer = K!Unanswered]
  <2>1. /\ K!Unanswered \in K!Effects \cup {"none", "unavailable"}
        /\ K!Unanswered = "allow" => client = [language |-> "python", fail_closed |-> FALSE]
    BY DEF SdkInv, ClientsInv, K!Unanswered, K!Effects
  <2>2. /\ m \in K!CallType /\ m.pc = "done" /\ m.context = k.context /\ m.made = k.made
        /\ m.lost = l.lost /\ m.answered = FALSE /\ m.answer = K!Unanswered
    <3>1. 0 \in 0 .. Attempts
      OBVIOUS
    <3> HIDE DEF k, n
    <3>2. m \in K!CallType
      BY <1>7, <2>1, <3>1 DEF K!CallType
    <3>3. /\ m.pc = "done" /\ m.context = l.context /\ m.made = l.made
          /\ m.lost = l.lost /\ m.answered = l.answered /\ m.answer = K!Unanswered
      BY <1>7 DEF K!CallType
    <3> QED BY <1>7, <1>12, <3>2, <3>3
  <2>3. check' = [check EXCEPT ![c] = m] /\ work' = left
    BY <1>9, <1>14
  <2> HIDE DEF m
  <2>4. \A d \in Calls \ {c}, i \in 1 .. Attempts : work'[<<d, i>>] = work[<<d, i>>]
    <3> SUFFICES ASSUME NEW d \in Calls \ {c}, NEW i \in 1 .. Attempts PROVE work'[<<d, i>>] = work[<<d, i>>]
      OBVIOUS
    <3>1. <<d, i>> # <<c, n>>
      OBVIOUS
    <3> QED BY <1>5, <1>10, <2>3, <3>1
  <2>5. CheckInv(c, m, work', client)
    <3>1. ~m.lost => m.made <= 1 /\ \A i \in 1 .. Attempts : work'[<<c, i>>].pc = "none"
      BY <1>11, <2>2, <2>3
    <3> QED BY <1>3, <2>1, <2>2, <3>1 DEF CheckInv
  <2>6. AsksInv /\ OtherAsks(c) /\ SetsCheck(c, m) /\ client' = client /\ gone' = gone
    BY <1>1, <1>10, <2>3, <2>4 DEF AsksInv, OtherAsks, SetsCheck
  <2>7. ChecksInv'
    BY <2>2, <2>5, <2>6, OneCheck
  <2> QED BY <1>1, <2>7 DEF SdkInv, ClientsInv, CachesInv
<1> QED BY <1>13, <1>14

(* An entry of the client's is given up.                                   *)
LEMMA EvictKept ==
  ASSUME SdkInv, NEW y \in DOMAIN sdk, K!Evict(y)
  PROVE  SdkInv'
<1> USE SdkNumbers
<1>1. /\ sdk' = [sdk EXCEPT ![y] = K!NoEntry]
      /\ UNCHANGED <<load, client, effectIn, serviceCache, gone, check, work, edits>>
  BY DEF K!Evict
<1>2. K!NoEntry \in K!Entry(SdkTTL) /\ K!NoEntry.effect = "none"
  BY DEF K!NoEntry, K!Entry
<1>3. sdk' \in [Contexts \cup {None} -> K!Entry(SdkTTL)] /\ DOMAIN sdk' = DOMAIN sdk
      /\ \A z \in DOMAIN sdk : sdk'[z] = IF z = y THEN K!NoEntry ELSE sdk[z]
  BY <1>1, <1>2 DEF SdkInv, CachesInv
<1>4. CachesInv'
  BY <1>1, <1>2, <1>3 DEF SdkInv, CachesInv
<1> QED BY <1>1, <1>4 DEF SdkInv, ClientsInv, ChecksInv

(* The policies change: an effect they have again is new, and no other is  *)
(* older for it.                                                           *)
LEMMA EffectsChange ==
  ASSUME SdkInv, K!SetPolicy
  PROVE  SdkInv'
<1> USE SdkNumbers
<1>1. /\ edits' \in 0 .. MaxChanges /\ effectIn' \in Verdicts
      /\ UNCHANGED <<load, client, serviceCache, sdk, check, work>>
  <2>1. load.changes \in 0 .. MaxChanges /\ edits \in 0 .. MaxChanges
    BY DEF SdkInv, ClientsInv
  <2>2. edits' = edits + 1 /\ edits < load.changes
    BY DEF K!SetPolicy
  <2> QED BY <2>1, <2>2 DEF K!SetPolicy
<1>2. gone' = [e \in K!Effects |-> IF \E c \in Contexts : effectIn'[c] = e THEN 0 ELSE gone[e]]
  BY DEF K!SetPolicy
<1>3. /\ gone' \in [K!Effects -> 0 .. K!ClockLimit]
      /\ \A e \in K!Effects : gone'[e] \in Nat /\ gone[e] \in Nat /\ gone'[e] <= gone[e]
  BY <1>2 DEF SdkInv, ClientsInv
<1>4. ClientsInv'
  <2>1. \A x \in Contexts : effectIn'[x] \in K!Effects
    BY <1>1
  <2>2. \A x \in Contexts : gone'[effectIn'[x]] = 0
    BY <1>2, <2>1
  <2> QED BY <1>1, <1>3, <2>2 DEF SdkInv, ClientsInv
<1>5. CachesInv'
  <2>1. serviceCache.effect # "none" =>
          serviceCache.left >= 1 /\ gone'[serviceCache.effect] + serviceCache.left <= ServiceTTL + Span
    <3> SUFFICES ASSUME serviceCache.effect # "none"
                 PROVE  serviceCache.left >= 1 /\ gone'[serviceCache.effect] + serviceCache.left <= ServiceTTL + Span
      OBVIOUS
    <3>1. serviceCache.effect \in K!Effects /\ serviceCache.left \in Nat
      BY DEF SdkInv, CachesInv, K!Entry
    <3> QED BY <1>3, <3>1 DEF SdkInv, CachesInv
  <2>2. \A y \in DOMAIN sdk : sdk[y].effect # "none" =>
          gone'[sdk[y].effect] + sdk[y].left < SdkTTL + ServiceTTL + 2 * Span
    <3> SUFFICES ASSUME NEW y \in DOMAIN sdk, sdk[y].effect # "none"
                 PROVE  gone'[sdk[y].effect] + sdk[y].left < SdkTTL + ServiceTTL + 2 * Span
      OBVIOUS
    <3>1. sdk[y].effect \in K!Effects /\ sdk[y].left \in Nat
      BY DEF SdkInv, CachesInv, K!Entry
    <3> QED BY <1>3, <3>1 DEF SdkInv, CachesInv
  <2> QED BY <1>1, <2>1, <2>2 DEF SdkInv, CachesInv
<1>6. \A a \in K!Asks : Fresh(work[a], gone')
  <2> SUFFICES ASSUME NEW a \in K!Asks, work[a].pc \in {"read", "cached", "sent"}
               PROVE  /\ work[a].effect \in K!Effects
                      /\ gone'[work[a].effect] <=
                           (IF work[a].pc = "read" THEN 0 ELSE Span + ServiceTTL - 1) + work[a].age
    BY DEF Fresh
  <2>1. work[a].effect \in K!Effects /\ work[a].age \in Nat
        /\ gone[work[a].effect] <= (IF work[a].pc = "read" THEN 0 ELSE Span + ServiceTTL - 1) + work[a].age
    BY DEF SdkInv, ChecksInv, Fresh, K!WorkType
  <2> QED BY <1>3, <2>1
<1> QED BY <1>1, <1>4, <1>5, <1>6 DEF SdkInv, ChecksInv

(* Time passes: an effect that no context has is older by one, and so is   *)
(* each attempt that has read one, and each entry has one less to live.    *)
LEMMA SdkTickKept ==
  ASSUME SdkInv, K!Tick
  PROVE  SdkInv'
<1> USE SdkNumbers
<1>1. UNCHANGED <<load, client, effectIn, check, edits>>
  BY DEF K!Tick
<1>2. gone' = [e \in K!Effects |-> IF gone[e] = K!ClockLimit \/ \E c \in Contexts : effectIn[c] = e
                              THEN gone[e] ELSE gone[e] + 1]
  BY DEF K!Tick
<1>3. /\ gone' \in [K!Effects -> 0 .. K!ClockLimit]
      /\ \A e \in K!Effects : gone'[e] \in Nat /\ gone[e] \in Nat /\ gone'[e] <= gone[e] + 1
  <2>1. gone \in [K!Effects -> 0 .. K!ClockLimit]
    BY DEF SdkInv, ClientsInv
  <2>2. ASSUME NEW e \in K!Effects
        PROVE  gone'[e] \in 0 .. K!ClockLimit /\ gone[e] \in Nat /\ gone'[e] <= gone[e] + 1
    <3>1. gone[e] \in 0 .. K!ClockLimit
          /\ (gone'[e] = gone[e] \/ (gone[e] # K!ClockLimit /\ gone'[e] = gone[e] + 1))
      BY <1>2, <2>1
    <3> QED BY <3>1
  <2> QED BY <1>2, <2>2
<1>4. ClientsInv'
  <2>1. \A x \in Contexts : gone'[effectIn[x]] = 0
    BY <1>2 DEF SdkInv, ClientsInv
  <2> QED BY <1>1, <1>3, <2>1 DEF SdkInv, ClientsInv
<1>5. /\ serviceCache' \in K!Entry(ServiceTTL)
      /\ serviceCache'.effect # "none" =>
           serviceCache'.left >= 1 /\ gone'[serviceCache'.effect] + serviceCache'.left <= ServiceTTL + Span
  <2>1. serviceCache' = IF serviceCache.left <= 1 THEN K!NoEntry ELSE K!Left(serviceCache)
    BY DEF K!Tick
  <2>2. CASE serviceCache.left <= 1
    BY <2>1, <2>2 DEF K!NoEntry, K!Entry
  <2>3. CASE ~(serviceCache.left <= 1)
    <3>1. serviceCache \in K!Entry(ServiceTTL) /\ serviceCache.left \in 0 .. ServiceTTL
      BY DEF SdkInv, CachesInv, K!Entry
    <3>2. serviceCache' = [serviceCache EXCEPT !.left = @ - 1]
      BY <2>1, <2>3, <3>1 DEF K!Left
    <3>3. serviceCache'.effect = serviceCache.effect /\ serviceCache'.left = serviceCache.left - 1
          /\ serviceCache' \in K!Entry(ServiceTTL)
      BY <2>3, <3>1, <3>2 DEF K!Entry
    <3>4. serviceCache.effect # "none" => serviceCache.effect \in K!Effects
           /\ gone[serviceCache.effect] + serviceCache.left <= ServiceTTL + Span
      BY <3>1 DEF SdkInv, CachesInv, K!Entry
    <3> QED BY <1>3, <2>3, <3>1, <3>3, <3>4
  <2> QED BY <2>2, <2>3
<1>6. ASSUME NEW y \in DOMAIN sdk
      PROVE  /\ K!Left(sdk[y]) \in K!Entry(SdkTTL)
             /\ K!Left(sdk[y]).effect # "none" =>
                 /\ gone'[K!Left(sdk[y]).effect] + K!Left(sdk[y]).left < SdkTTL + ServiceTTL + 2 * Span
                 /\ client.language = "typescript" => K!Left(sdk[y]).effect = "allow"
  <2> DEFINE e == sdk[y]
             f == K!Left(e)
  <2>1. e \in K!Entry(SdkTTL) /\ e.left \in 0 .. SdkTTL
    BY DEF SdkInv, CachesInv, K!Entry
  <2>2. CASE e.left = 0
    BY <2>2 DEF K!Left, K!NoEntry, K!Entry
  <2>3. CASE e.left # 0
    <3>1. f \in K!Entry(SdkTTL) /\ f.effect = e.effect /\ f.left = e.left - 1
      BY <2>1, <2>3 DEF K!Left, K!Entry
    <3>2. e.effect # "none" =>
            /\ gone[e.effect] + e.left < SdkTTL + ServiceTTL + 2 * Span
            /\ client.language = "typescript" => e.effect = "allow"
            /\ e.effect \in K!Effects
      BY <2>1 DEF SdkInv, CachesInv, K!Entry
    <3> HIDE DEF e, f
    <3>3. f.effect # "none" =>
            /\ gone'[f.effect] + f.left < SdkTTL + ServiceTTL + 2 * Span
            /\ client.language = "typescript" => f.effect = "allow"
      BY <1>3, <2>1, <2>3, <3>1, <3>2
    <3> QED BY <3>1, <3>3 DEF e, f
  <2> QED BY <2>2, <2>3
<1>7. CachesInv'
  <2>1. sdk' = [y \in DOMAIN sdk |-> K!Left(sdk[y])]
    BY DEF K!Tick
  <2>2. DOMAIN sdk = Contexts \cup {None}
    BY SdkKeys
  <2> QED BY <1>1, <1>5, <1>6, <2>1, <2>2 DEF CachesInv
<1>8. ASSUME NEW a \in K!Asks
      PROVE  work'[a] \in K!WorkType /\ work'[a].pc = work[a].pc /\ Fresh(work'[a], gone')
  <2> DEFINE w == work[a]
             v == work'[a]
  <2>1. w \in K!WorkType /\ Fresh(w, gone)
    BY DEF SdkInv, ChecksInv
  <2>2. work'[a] = IF w.pc \in {"read", "cached", "sent"} THEN [w EXCEPT !.age = @ + 1] ELSE w
    BY DEF K!Tick
  <2>3. CASE w.pc \in {"read", "cached", "sent"}
    <3>1. w.age \in 0 .. Span /\ w.age < Span
      BY <2>1, <2>3 DEF K!Tick, K!WorkType
    <3>2. work'[a] = [w EXCEPT !.age = @ + 1]
      BY <2>2, <2>3
    <3> HIDE DEF w
    <3>3. v \in K!WorkType /\ v.pc = w.pc /\ v.effect = w.effect /\ v.age = w.age + 1
      BY <2>1, <3>1, <3>2 DEF K!WorkType
    <3>4. w.effect \in K!Effects
          /\ gone[w.effect] <= (IF w.pc = "read" THEN 0 ELSE Span + ServiceTTL - 1) + w.age
      BY <2>1, <2>3 DEF Fresh
    <3> HIDE DEF v
    <3>5. gone'[v.effect] <= (IF v.pc = "read" THEN 0 ELSE Span + ServiceTTL - 1) + v.age
      BY <1>3, <3>1, <3>3, <3>4
    <3>6. v.effect \in K!Effects
      BY <3>3, <3>4
    <3>7. v \in K!WorkType /\ v.pc = w.pc /\ Fresh(v, gone')
      BY <3>3, <3>5, <3>6 DEF Fresh
    <3> QED BY <3>7 DEF v, w
  <2>4. CASE w.pc \notin {"read", "cached", "sent"}
    BY <2>1, <2>2, <2>4 DEF Fresh
  <2> QED BY <2>3, <2>4
<1>9. ChecksInv'
  <2>1. work' \in [K!Asks -> K!WorkType]
    BY <1>8 DEF K!Tick
  <2>2. \A c \in Calls, i \in 1 .. Attempts : work'[<<c, i>>].pc = work[<<c, i>>].pc
    BY <1>8 DEF K!Asks
  <2>3. check \in [Calls -> K!CallType] /\ \A c \in Calls : CheckInv(c, check[c], work, client)
    BY DEF SdkInv, ChecksInv
  <2>4. ASSUME NEW c \in Calls PROVE CheckInv(c, check[c], work', client)
    <3> DEFINE k == check[c]
    <3>1. CheckInv(c, k, work, client)
      BY <2>3
    <3>2. \A i \in 1 .. Attempts : work'[<<c, i>>].pc = work[<<c, i>>].pc
      BY <2>2
    <3> HIDE DEF k
    <3>3. k.pc = "asking" => work'[<<c, k.attempt>>].pc = work[<<c, k.attempt>>].pc
      BY <3>1, <3>2 DEF CheckInv
    <3>4. CheckInv(c, k, work', client)
      BY <3>1, <3>2, <3>3 DEF CheckInv
    <3> QED BY <3>4 DEF k
  <2> QED BY <1>1, <1>8, <2>1, <2>3, <2>4 DEF ChecksInv
<1> QED BY <1>4, <1>7, <1>9 DEF SdkInv

(* Every step keeps it.                                                    *)
LEMMA SdkKept == SdkInv /\ K!Next => SdkInv'
<1> SUFFICES ASSUME SdkInv, K!Next PROVE SdkInv'
  OBVIOUS
<1>1. ASSUME NEW c \in Calls, (\E x \in Contexts : K!Check(c, x)) \/ K!Arrive(c) \/ K!Fail(c)
      PROVE  SdkInv'
  BY <1>1, CheckKept, AnswerKept, FailKept
<1>2. ASSUME NEW a \in K!Asks, K!Hit(a) \/ K!Read(a) \/ K!Finish(a) \/ K!Drop(a)
      PROVE  SdkInv'
  BY <1>2, ServeKept, FinishKept
<1>3. ASSUME NEW k \in DOMAIN sdk, K!Evict(k) PROVE SdkInv'
  BY <1>3, EvictKept
<1> QED BY <1>1, <1>2, <1>3, EffectsChange, SdkTickKept DEF K!Next

(* So what the run checks of the clients holds.                            *)
LEMMA SdkSafe == SdkInv => K!TypeOK /\ K!AnswersBounded /\ K!NoAnswerNoAllow /\ K!ApprovalsExplained
<1> SUFFICES ASSUME SdkInv PROVE K!TypeOK /\ K!AnswersBounded /\ K!NoAnswerNoAllow /\ K!ApprovalsExplained
  OBVIOUS
<1>1. \A c \in Calls : CheckInv(c, check[c], work, client) /\ check[c].made \in Nat
  BY DEF SdkInv, ChecksInv, K!CallType
<1>2. K!TypeOK
  BY DEF K!TypeOK, SdkInv, ClientsInv, CachesInv, ChecksInv
<1>3. K!AnswersBounded
  BY <1>1 DEF K!AnswersBounded, K!Returned, CheckInv
<1>4. K!NoAnswerNoAllow
  BY <1>1 DEF K!NoAnswerNoAllow, CheckInv
<1>5. K!ApprovalsExplained
  <2> SUFFICES ASSUME NEW c \in Calls, check[c].made > 1, ~check[c].lost PROVE FALSE
    BY DEF K!ApprovalsExplained
  <2>1. check[c].made <= 1 /\ check[c].made \in Nat
    BY <1>1 DEF CheckInv
  <2> QED BY <2>1
<1> QED BY <1>2, <1>3, <1>4, <1>5

-----------------------------------------------------------------------------
(* What is left of the calls when those of a tool go: no more calls, those *)
(* of the other tools.                                                     *)
LEMMA StrippedIs ==
  ASSUME NEW t, toolCalls \in Seq(ModelTools)
  PROVE  LET left == {toolCalls[i] : i \in DOMAIN toolCalls} \ {t} IN
         X!Stripped(t) \in Seq(left) /\ Len(X!Stripped(t)) <= Len(toolCalls)
<1> DEFINE calls == toolCalls
           N == Len(calls)
           left == {calls[i] : i \in DOMAIN calls} \ {t}
           C == 0 .. N
           V == Seq(left)
           d == [n \in C |-> n]
           args == [n \in C |-> IF n = 0 THEN <<>> ELSE <<n - 1>>]
           J == [p \in C \X Seq(V) |->
                  IF p[1] = 0 \/ p[2] = <<>> THEN <<>>
                  ELSE IF calls[p[1]] = t THEN p[2][1] ELSE Append(p[2][1], calls[p[1]])]
           kept[n \in 0 .. N] ==
             IF n = 0 THEN <<>>
             ELSE IF calls[n] = t THEN kept[n - 1] ELSE Append(kept[n - 1], calls[n])
<1>1. N \in Nat /\ DOMAIN calls = 1 .. N
  OBVIOUS
<1>2. \A n \in C : \A s \in Seq(V) :
        J[<<n, s>>] = IF n = 0 \/ s = <<>> THEN <<>>
                      ELSE IF calls[n] = t THEN s[1] ELSE Append(s[1], calls[n])
  <2> HIDE DEF C, V
  <2> QED OBVIOUS
<1>3. Trees(C, d, args, V, J)
  <2>1. d \in [C -> Nat]
    BY <1>1
  <2>2. args \in [C -> Seq(C)]
    <3>1. \A n \in C : n # 0 => n - 1 \in C
      BY <1>1
    <3> HIDE DEF C
    <3> QED BY <3>1
  <2>3. \A n \in C : \A i \in DOMAIN args[n] : d[args[n][i]] < d[n]
    <3>1. \A n \in C : n # 0 => n - 1 \in C /\ n - 1 < n /\ args[n] = <<n - 1>>
      BY <1>1
    <3>2. \A n \in C : d[n] = n
      OBVIOUS
    <3>3. \A n \in C : n = 0 => args[n] = <<>>
      OBVIOUS
    <3> HIDE DEF C, d, args
    <3> QED BY <3>1, <3>2, <3>3
  <2>4. ASSUME NEW n \in C, NEW s \in Seq(V) PROVE J[<<n, s>>] \in V
    <3>1. CASE n = 0 \/ s = <<>>
      <4>1. J[<<n, s>>] = <<>>
        <5> HIDE DEF J, C, V
        <5> QED BY <1>2, <3>1
      <4>2. <<>> \in V
        OBVIOUS
      <4> HIDE DEF J, V
      <4> QED BY <4>1, <4>2
    <3>2. CASE n # 0 /\ s # <<>>
      <4>1. n \in DOMAIN calls /\ s[1] \in V
        <5> HIDE DEF V
        <5> QED BY <1>1, <3>2
      <4>2. calls[n] # t => calls[n] \in left
        BY <4>1
      <4>3. J[<<n, s>>] = IF calls[n] = t THEN s[1] ELSE Append(s[1], calls[n])
        <5> HIDE DEF J, C, V
        <5> QED BY <1>2, <3>2
      <4> HIDE DEF J, left
      <4> QED BY <4>1, <4>2, <4>3
    <3> HIDE DEF J, V
    <3> QED BY <3>1, <3>2
  <2> HIDE DEF C, V, d, args, J
  <2> QED BY <2>1, <2>2, <2>3, <2>4 DEF Trees
<1>4. PICK f \in [C -> V] : \A n \in C : f[n] = J[<<n, PartsOf(f, args[n])>>]
  <2> HIDE DEF C, V, d, args, J
  <2> QED BY <1>3, Recursion
<1>5. \A n \in C : f[n] = IF n = 0 THEN <<>>
                          ELSE IF calls[n] = t THEN f[n - 1] ELSE Append(f[n - 1], calls[n])
  <2> SUFFICES ASSUME NEW n \in C
               PROVE  f[n] = IF n = 0 THEN <<>>
                          ELSE IF calls[n] = t THEN f[n - 1] ELSE Append(f[n - 1], calls[n])
    OBVIOUS
  <2>1. CASE n = 0
    <3>1. PartsOf(f, args[n]) = <<>>
      BY <2>1 DEF PartsOf
    <3>2. <<>> \in Seq(V)
      OBVIOUS
    <3> HIDE DEF C, V, args, J
    <3> QED BY <1>2, <1>4, <2>1, <3>1, <3>2
  <2>2. CASE n # 0
    <3>1. n - 1 \in C /\ args[n] = <<n - 1>>
      BY <1>1, <2>2
    <3>2. f[n - 1] \in V
      <4> HIDE DEF C, V
      <4> QED BY <3>1
    <3>3. PartsOf(f, args[n]) = <<f[n - 1]>> /\ <<f[n - 1]>> \in Seq(V) /\ <<f[n - 1]>> # <<>>
      <4> HIDE DEF V, C, args
      <4> QED BY <3>1, <3>2 DEF PartsOf
    <3> HIDE DEF C, V, args, J
    <3> QED BY <1>2, <1>4, <2>2, <3>3
  <2> QED BY <2>1, <2>2
<1>6. kept = [n \in 0 .. N |-> IF n = 0 THEN <<>>
             ELSE IF calls[n] = t THEN kept[n - 1] ELSE Append(kept[n - 1], calls[n])]
  <2>1. f = [n \in 0 .. N |-> IF n = 0 THEN <<>>
             ELSE IF calls[n] = t THEN f[n - 1] ELSE Append(f[n - 1], calls[n])]
    <3> HIDE DEF V, calls, N
    <3> QED BY <1>5
  <2> HIDE DEF V
  <2> QED BY <2>1
<1>7. X!Stripped(t) = kept[N]
  BY DEF X!Stripped
<1> HIDE DEF kept
<1>8. ASSUME NEW n \in C PROVE kept[n] \in V /\ Len(kept[n]) <= n
  <2> DEFINE Bad == {k \in C : ~(kept[k] \in V /\ Len(kept[k]) <= k)}
  <2> SUFFICES ASSUME Bad # {} PROVE FALSE
    BY <1>8
  <2>1. Bad \in SUBSET Nat
    BY <1>1
  <2>2. PICK k \in Bad : \A j \in Bad : k <= j
    <3> HIDE DEF Bad
    <3> QED BY <2>1, LeastNumber
  <2>3. k \in C /\ kept[k] = IF k = 0 THEN <<>>
                 ELSE IF calls[k] = t THEN kept[k - 1] ELSE Append(kept[k - 1], calls[k])
    <3> HIDE DEF V, calls
    <3> QED BY <1>6, <2>2
  <2>4. k # 0
    <3> SUFFICES ASSUME k = 0 PROVE FALSE
      OBVIOUS
    <3>1. kept[k] = <<>> /\ Len(kept[k]) = 0 /\ kept[k] \in V
      BY <2>3
    <3> HIDE DEF V
    <3> QED BY <2>2, <3>1
  <2>5. k \in 1 .. N /\ k - 1 \in C /\ ~(k <= k - 1)
    BY <1>1, <2>3, <2>4
  <2>6. kept[k - 1] \in V /\ Len(kept[k - 1]) <= k - 1
    <3> HIDE DEF V
    <3> QED BY <2>2, <2>5
  <2>7. calls[k] # t => calls[k] \in left
    BY <1>1, <2>5
  <2>8. kept[k] = IF calls[k] = t THEN kept[k - 1] ELSE Append(kept[k - 1], calls[k])
    <3> HIDE DEF V
    <3> QED BY <2>3, <2>4
  <2> HIDE DEF left
  <2>9. kept[k] \in V /\ Len(kept[k]) <= k
    BY <1>1, <2>5, <2>6, <2>7, <2>8
  <2> HIDE DEF V
  <2> QED BY <2>2, <2>9
<1>9. N \in C
  BY <1>1
<1> HIDE DEF C, V
<1> QED BY <1>7, <1>8, <1>9 DEF V

(* What the proxy was told of a tool: nothing more than once it is asked;  *)
(* it was asked of each call it inspects, or is still to ask.              *)
Heard(t, left, answers) ==
  \/ \E j \in DOMAIN left : left[j] = t
  \/ <<t, "allow">> \in answers \/ <<t, "deny">> \in answers
Kept(t, left, answers) ==
  /\ <<t, "deny">> \notin answers
  /\ \/ \E j \in DOMAIN left : left[j] = t
     \/ \E e \in X!Effects \ {"deny"} : <<t, e>> \in answers

(* What holds of the proxy: of each call a request is seen to carry it was *)
(* told, or is still to ask; and of those of an answer, those that are     *)
(* left were not denied.                                                   *)
ProxyInv ==
  /\ format \in X!Formats /\ effectFor \in [ModelTools -> X!Effects] /\ changes \in 0 .. MaxChanges
  /\ history \in Seq(ModelTools) /\ Len(history) <= MaxCalls
  /\ pc \in {"agent", "request", "answer", "deliver"}
  /\ todo \in Seq(ModelTools) /\ toolCalls \in Seq(ModelTools)
  /\ heard \subseteq ModelTools \X X!Effects /\ seen \in BOOLEAN
  /\ \A r \in run : r.tool \in ModelTools /\ r.by \in {"request", "inspected", "passed"}
  /\ pc \in {"answer", "deliver"} => Len(history) + Len(toolCalls) <= MaxCalls
  /\ pc = "request" /\ format = "direct" =>
       history # <<>> /\ Heard(X!Last(history), todo, heard)
  /\ pc = "request" /\ format # "direct" =>
       \A i \in DOMAIN X!InRequest(history) : Heard(history[i], todo, heard)
  /\ pc = "answer" => \A i \in DOMAIN toolCalls : Kept(toolCalls[i], todo, heard)
  /\ X!InspectedIsObeyed

(* The bounds of the proxy are numbers.                                    *)
LEMMA ProxyNumbers == MaxCalls \in Nat /\ MaxAnswer \in Nat /\ MaxChanges \in Nat
BY EnforcementAssumption DEF X!ProxyAssumption

(* The proxy starts before a request.                                      *)
LEMMA ProxyStarts == X!Init => ProxyInv
<1> SUFFICES ASSUME X!Init PROVE ProxyInv
  OBVIOUS
<1>1. /\ format \in X!Formats /\ effectFor \in [ModelTools -> X!Effects] /\ changes = 0
      /\ history = <<>> /\ pc = "agent" /\ todo = <<>> /\ toolCalls = <<>>
      /\ heard = {} /\ seen = FALSE /\ run = {}
  BY DEF X!Init
<1>2. <<>> \in Seq(ModelTools) /\ Len(<<>>) <= MaxCalls /\ 0 \in 0 .. MaxChanges
  BY ProxyNumbers
<1> QED BY <1>1, <1>2 DEF ProxyInv, X!InspectedIsObeyed

(* A sequence that is not empty is its first element and the others.       *)
LEMMA HeadAndTail ==
  ASSUME NEW T, NEW s \in Seq(T), s # <<>>
  PROVE  /\ Head(s) \in T /\ Tail(s) \in Seq(T)
         /\ \A t : (\E j \in DOMAIN s : s[j] = t) =>
              t = Head(s) \/ \E j \in DOMAIN Tail(s) : Tail(s)[j] = t
<1>1. Head(s) \in T /\ Tail(s) \in Seq(T) /\ Head(s) = s[1] /\ Len(s) \in Nat /\ DOMAIN s = 1 .. Len(s)
      /\ Len(Tail(s)) = Len(s) - 1 /\ \A i \in 1 .. Len(s) - 1 : Tail(s)[i] = s[i + 1]
  OBVIOUS
<1>2. ASSUME NEW j \in DOMAIN s, j # 1
      PROVE  \E i \in DOMAIN Tail(s) : Tail(s)[i] = s[j]
  <2>1. j - 1 \in 1 .. Len(s) - 1 /\ j - 1 + 1 = j /\ DOMAIN Tail(s) = 1 .. Len(s) - 1
    BY <1>1, <1>2
  <2> QED BY <1>1, <2>1
<1> QED BY <1>1, <1>2

(* Each step keeps it: a call leaves the list only with an answer.         *)
LEMMA ProxyKept == ProxyInv /\ X!Next => ProxyInv'
<1> SUFFICES ASSUME ProxyInv, X!Next PROVE ProxyInv'
  OBVIOUS
<1> USE ProxyNumbers
<1>0. /\ format \in X!Formats /\ effectFor \in [ModelTools -> X!Effects] /\ changes \in 0 .. MaxChanges
      /\ history \in Seq(ModelTools) /\ Len(history) \in Nat /\ Len(history) <= MaxCalls
      /\ todo \in Seq(ModelTools) /\ toolCalls \in Seq(ModelTools)
      /\ heard \subseteq ModelTools \X X!Effects
  BY DEF ProxyInv
<1>1. ASSUME X!Send PROVE ProxyInv'
  <2>1. /\ todo' = X!InRequest(history) /\ heard' = {} /\ toolCalls' = <<>> /\ pc' = "request"
        /\ format # "direct" /\ UNCHANGED <<format, effectFor, changes, history, run>>
        /\ seen' \in BOOLEAN
    BY <1>1 DEF X!Send, X!conversation
  <2>2. X!InRequest(history) \in Seq(ModelTools)
    BY <1>0 DEF X!InRequest
  <2>3. \A i \in DOMAIN X!InRequest(history) : X!InRequest(history)[i] = history[i]
    BY DEF X!InRequest
  <2>4. X!InRequest(history)' = X!InRequest(history)
    BY <2>1 DEF X!InRequest
  <2>5. \A i \in DOMAIN X!InRequest(history) : Heard(history[i], todo', heard')
    BY <2>1, <2>3 DEF Heard
  <2>6. \A i \in DOMAIN X!InRequest(history)' : Heard(history'[i], todo', heard')
    BY <2>1, <2>4, <2>5
  <2>7. \A r \in run' : r.tool \in ModelTools /\ r.by \in {"request", "inspected", "passed"}
    BY <2>1 DEF ProxyInv
  <2>8. X!InspectedIsObeyed'
    BY <2>1 DEF ProxyInv, X!InspectedIsObeyed
  <2>9. toolCalls' \in Seq(ModelTools) /\ todo' \in Seq(ModelTools) /\ heard' \subseteq ModelTools \X X!Effects
    BY <2>1, <2>2
  <2> QED BY <1>0, <2>1, <2>6, <2>7, <2>8, <2>9 DEF ProxyInv
<1>2. ASSUME NEW t \in ModelTools, X!SendDirect(t) PROVE ProxyInv'
  <2>1. /\ history' = Append(history, t) /\ todo' = <<t>> /\ heard' = {} /\ toolCalls' = <<>>
        /\ pc' = "request" /\ seen' = TRUE /\ format = "direct" /\ Len(history) < MaxCalls
        /\ UNCHANGED <<format, effectFor, changes, run>>
    BY <1>2 DEF X!SendDirect
  <2>2. history' \in Seq(ModelTools) /\ Len(history') <= MaxCalls /\ history' # <<>>
        /\ history'[Len(history')] = t
    <3>1. history' \in Seq(ModelTools) /\ Len(history') = Len(history) + 1
          /\ history'[Len(history) + 1] = t
      BY <1>0, <2>1
    <3>2. history' # <<>> /\ Len(history') <= MaxCalls
      BY <1>0, <2>1, <3>1
    <3> QED BY <3>1, <3>2
  <2>3. X!Last(history)' = t
    BY <2>2 DEF X!Last
  <2>4. Heard(t, todo', heard') /\ todo' \in Seq(ModelTools)
    BY <2>1 DEF Heard
  <2>5. \A r \in run' : r.tool \in ModelTools /\ r.by \in {"request", "inspected", "passed"}
    BY <2>1 DEF ProxyInv
  <2>6. X!InspectedIsObeyed'
    BY <2>1 DEF ProxyInv, X!InspectedIsObeyed
  <2>7. toolCalls' \in Seq(ModelTools) /\ heard' \subseteq ModelTools \X X!Effects
    BY <2>1
  <2>8. Heard(X!Last(history)', todo', heard')
    BY <2>3, <2>4
  <2> QED BY <1>0, <2>1, <2>2, <2>4, <2>5, <2>6, <2>7, <2>8 DEF ProxyInv
<1>3. ASSUME NEW e \in X!Effects, X!CheckRequest(e) PROVE ProxyInv'
  <2>1. /\ pc = "request" /\ todo # <<>> /\ heard' = heard \cup {<<Head(todo), e>>}
        /\ todo' = (IF e = "require_approval" THEN <<>> ELSE Tail(todo))
        /\ pc' = (IF e = "require_approval" THEN "agent" ELSE pc)
        /\ UNCHANGED <<format, effectFor, changes, history, toolCalls, seen, run>>
    BY <1>3 DEF X!CheckRequest, X!conversation
  <2>2. /\ Head(todo) \in ModelTools /\ Tail(todo) \in Seq(ModelTools)
        /\ \A t : (\E j \in DOMAIN todo : todo[j] = t) =>
              t = Head(todo) \/ \E j \in DOMAIN Tail(todo) : Tail(todo)[j] = t
    BY <1>0, <2>1, HeadAndTail
  <2>3. heard' \subseteq ModelTools \X X!Effects /\ todo' \in Seq(ModelTools)
    BY <1>0, <2>1, <2>2
  <2>4. e # "require_approval" => \A t : Heard(t, todo, heard) => Heard(t, todo', heard')
    <3> SUFFICES ASSUME e # "require_approval", NEW t, Heard(t, todo, heard)
                 PROVE  Heard(t, todo', heard')
      OBVIOUS
    <3>1. e \in {"allow", "deny"}
      BY DEF X!Effects
    <3> QED BY <2>1, <2>2, <3>1 DEF Heard
  <2>5. X!InRequest(history)' = X!InRequest(history) /\ X!Last(history)' = X!Last(history)
    BY <2>1 DEF X!InRequest, X!Last
  <2> QED BY <2>1, <2>3, <2>4, <2>5 DEF ProxyInv, X!InspectedIsObeyed
<1>4. ASSUME X!Refuse PROVE ProxyInv'
  BY <1>4 DEF X!Refuse, X!conversation, ProxyInv, X!InspectedIsObeyed
<1>5. ASSUME NEW a \in X!Answers, NEW stream \in BOOLEAN, X!Forward(a, stream) PROVE ProxyInv'
  <2>1. /\ Len(history) + Len(a) <= MaxCalls /\ toolCalls' = a /\ heard' = {}
        /\ todo' = (IF ~seen /\ ~stream THEN a ELSE <<>>)
        /\ pc' = (IF ~seen /\ ~stream THEN "answer" ELSE "deliver")
        /\ UNCHANGED <<format, effectFor, changes, history, seen, run>>
    BY <1>5 DEF X!Forward, X!conversation
  <2>2. a \in Seq(ModelTools)
    <3>1. PICK n \in 0 .. MaxAnswer : a \in [1 .. n -> ModelTools]
      BY DEF X!Answers
    <3> QED BY <3>1
  <2>3. todo' \in Seq(ModelTools)
    BY <2>1, <2>2
  <2>4. pc' = "answer" => \A i \in DOMAIN a : Kept(a[i], todo', heard')
    BY <2>1 DEF Kept
  <2> QED BY <2>1, <2>2, <2>3, <2>4 DEF ProxyInv, X!InspectedIsObeyed
<1>6. ASSUME X!ForwardDirect PROVE ProxyInv'
  <2> DEFINE ran == [tool |-> X!Last(history), by |-> "request", told |-> heard]
  <2>1. /\ pc = "request" /\ todo = <<>> /\ X!Denied = {} /\ format = "direct"
        /\ run' = run \cup {ran} /\ pc' = "agent"
        /\ UNCHANGED <<format, effectFor, changes, history, todo, toolCalls, heard, seen>>
    BY <1>6 DEF X!ForwardDirect, X!conversation, X!Blocked
  <2>2. history # <<>> /\ Heard(X!Last(history), todo, heard)
    BY <2>1 DEF ProxyInv
  <2>3. X!Last(history) \in ModelTools
    BY <1>0, <2>2 DEF X!Last
  <2>4. <<X!Last(history), "deny">> \notin heard
    BY <2>1, <2>3 DEF X!Denied
  <2>5. <<X!Last(history), "allow">> \in heard
    BY <2>1, <2>2, <2>4 DEF Heard
  <2>6. ran.tool = X!Last(history) /\ ran.by = "request" /\ ran.told = heard
    OBVIOUS
  <2> HIDE DEF ran
  <2>7. \A r \in run' : r.tool \in ModelTools /\ r.by \in {"request", "inspected", "passed"}
    BY <2>1, <2>3, <2>6 DEF ProxyInv
  <2>8. X!InspectedIsObeyed'
    BY <2>1, <2>4, <2>5, <2>6 DEF X!InspectedIsObeyed, ProxyInv
  <2> QED BY <2>1, <2>7, <2>8 DEF ProxyInv
<1>7. ASSUME NEW e \in X!Effects, X!CheckAnswer(e) PROVE ProxyInv'
  <2>1. /\ pc = "answer" /\ todo # <<>> /\ heard' = heard \cup {<<Head(todo), e>>}
        /\ todo' = Tail(todo)
        /\ toolCalls' = (IF e = "deny" THEN X!Stripped(Head(todo)) ELSE toolCalls)
        /\ UNCHANGED <<format, effectFor, changes, history, pc, seen, run>>
    BY <1>7 DEF X!CheckAnswer, X!conversation
  <2>2. /\ Head(todo) \in ModelTools /\ Tail(todo) \in Seq(ModelTools)
        /\ \A t : (\E j \in DOMAIN todo : todo[j] = t) =>
              t = Head(todo) \/ \E j \in DOMAIN Tail(todo) : Tail(todo)[j] = t
    BY <1>0, <2>1, HeadAndTail
  <2>3. heard' \subseteq ModelTools \X X!Effects /\ todo' \in Seq(ModelTools)
    BY <1>0, <2>1, <2>2
  <2>4. \A i \in DOMAIN toolCalls : Kept(toolCalls[i], todo, heard) /\ toolCalls[i] \in ModelTools
    BY <1>0, <2>1 DEF ProxyInv
  <2>5. ASSUME NEW t, Kept(t, todo, heard), t # Head(todo) \/ e # "deny"
        PROVE  Kept(t, todo', heard')
    BY <2>1, <2>2, <2>5 DEF Kept
  <2>6. /\ toolCalls' \in Seq(ModelTools) /\ Len(toolCalls') <= Len(toolCalls)
        /\ \A i \in DOMAIN toolCalls' : Kept(toolCalls'[i], todo', heard')
    <3>1. CASE e # "deny"
      <4>1. toolCalls' = toolCalls
        BY <2>1, <3>1
      <4> QED BY <1>0, <2>4, <2>5, <3>1, <4>1
    <3>2. CASE e = "deny"
      <4> DEFINE left == {toolCalls[i] : i \in DOMAIN toolCalls} \ {Head(todo)}
      <4>1. toolCalls' = X!Stripped(Head(todo))
        BY <2>1, <3>2
      <4>2. toolCalls' \in Seq(left) /\ Len(toolCalls') <= Len(toolCalls)
        BY <1>0, <4>1, StrippedIs
      <4>3. \A t \in left : t \in ModelTools /\ t # Head(todo) /\ Kept(t, todo, heard)
        BY <2>4
      <4>4. \A t \in left : Kept(t, todo', heard')
        BY <2>5, <4>3
      <4> HIDE DEF left
      <4>5. toolCalls' \in Seq(ModelTools) /\ \A i \in DOMAIN toolCalls' : toolCalls'[i] \in left
        BY <4>2, <4>3
      <4> QED BY <4>2, <4>4, <4>5
    <3> QED BY <3>1, <3>2
  <2>7. Len(history) + Len(toolCalls') <= MaxCalls
    <3>1. Len(history) + Len(toolCalls) <= MaxCalls
      BY <2>1 DEF ProxyInv
    <3>2. Len(toolCalls) \in Nat /\ Len(toolCalls') \in Nat
      BY <1>0, <2>6
    <3> QED BY <1>0, <2>6, <3>1, <3>2
  <2> QED BY <2>1, <2>3, <2>6, <2>7 DEF ProxyInv, X!InspectedIsObeyed
<1>8. ASSUME X!Deliver PROVE ProxyInv'
  <2> DEFINE ran(i) == [tool |-> toolCalls[i], told |-> heard,
                        by |-> IF pc = "answer" THEN "inspected" ELSE "passed"]
  <2>1. /\ pc \in {"answer", "deliver"} /\ todo = <<>>
        /\ run' = run \cup {ran(i) : i \in DOMAIN toolCalls}
        /\ history' = history \o toolCalls /\ pc' = "agent"
        /\ UNCHANGED <<format, effectFor, changes, todo, toolCalls, heard, seen>>
    BY <1>8 DEF X!Deliver
  <2>2. Len(history) + Len(toolCalls) <= MaxCalls
    BY <2>1 DEF ProxyInv
  <2>3. history' \in Seq(ModelTools) /\ Len(history') <= MaxCalls
    BY <1>0, <2>1, <2>2
  <2>4. \A i \in DOMAIN toolCalls : toolCalls[i] \in ModelTools
    BY <1>0
  <2>5. pc = "answer" => \A i \in DOMAIN toolCalls :
          /\ <<toolCalls[i], "deny">> \notin heard
          /\ \E e \in X!Effects \ {"deny"} : <<toolCalls[i], e>> \in heard
    <3>1. DOMAIN todo = {}
      BY <2>1
    <3> QED BY <3>1 DEF ProxyInv, Kept
  <2>6. \A i : ran(i).tool = toolCalls[i] /\ ran(i).told = heard
               /\ ran(i).by = IF pc = "answer" THEN "inspected" ELSE "passed"
    OBVIOUS
  <2> HIDE DEF ran
  <2>7. \A r \in run' : r.tool \in ModelTools /\ r.by \in {"request", "inspected", "passed"}
    BY <2>1, <2>4, <2>6 DEF ProxyInv
  <2>8. X!InspectedIsObeyed'
    <3> SUFFICES ASSUME NEW r \in run'
                 PROVE  /\ r.by # "passed" => <<r.tool, "deny">> \notin r.told
                        /\ r.by = "inspected" => \E e \in X!Effects \ {"deny"} : <<r.tool, e>> \in r.told
                        /\ r.by = "request" => <<r.tool, "allow">> \in r.told
      BY DEF X!InspectedIsObeyed
    <3>1. CASE r \in run
      BY <3>1 DEF ProxyInv, X!InspectedIsObeyed
    <3>2. CASE \E i \in DOMAIN toolCalls : r = ran(i)
      BY <2>1, <2>5, <2>6, <3>2
    <3> QED BY <2>1, <3>1, <3>2
  <2> QED BY <2>1, <2>3, <2>7, <2>8 DEF ProxyInv
<1>9. ASSUME NEW t \in ModelTools, NEW e \in X!Effects, X!SetPolicy(t, e) PROVE ProxyInv'
  <2>1. /\ effectFor' \in [ModelTools -> X!Effects] /\ changes' \in 0 .. MaxChanges
        /\ UNCHANGED <<format, history, pc, todo, toolCalls, heard, seen, run>>
    BY <1>0, <1>9 DEF X!SetPolicy
  <2>2. X!InRequest(history)' = X!InRequest(history) /\ X!Last(history)' = X!Last(history)
    BY <2>1 DEF X!InRequest, X!Last
  <2> QED BY <2>1, <2>2 DEF ProxyInv, X!InspectedIsObeyed
<1> QED BY <1>1, <1>2, <1>3, <1>4, <1>5, <1>6, <1>7, <1>8, <1>9 DEF X!Next

(* So what the run checks of the proxy holds.                              *)
LEMMA ProxySafe == ProxyInv => X!TypeOK /\ X!InspectedIsObeyed
BY DEF ProxyInv, X!TypeOK

(* What is forwarded was allowed, call by call.                            *)
LEMMA ForwardsAllowed == ProxyInv /\ X!Next => X!ForwardedIsAllowedStep
<1> SUFFICES ASSUME ProxyInv, X!Next, pc = "request", pc' \in {"answer", "deliver"},
                    NEW i \in DOMAIN X!InRequest(history)
             PROVE  <<history[i], "allow">> \in heard
  BY DEF X!ForwardedIsAllowedStep
<1>1. PICK a \in X!Answers, stream \in BOOLEAN : X!Forward(a, stream)
  BY DEF X!Next, X!Send, X!Refuse, X!ForwardDirect, X!Deliver, X!SendDirect, X!SetPolicy,
         X!CheckRequest, X!CheckAnswer
<1>2. todo = <<>> /\ X!Denied = {} /\ format # "direct"
  BY <1>1 DEF X!Forward, X!Blocked
<1>3. Heard(history[i], todo, heard)
  BY <1>2 DEF ProxyInv
<1>4. history[i] \in ModelTools
  <2>1. i \in DOMAIN history
    BY DEF X!InRequest
  <2> QED BY <2>1 DEF ProxyInv
<1> QED BY <1>2, <1>3, <1>4 DEF Heard, X!Denied

-----------------------------------------------------------------------------
(* What holds of the wrapper: a configuration that does not deny a pinned  *)
(* tool, or is open when the server is closed, was asked for before the    *)
(* pin or the closing; so that is no older than the configuration, on its  *)
(* way or kept.  A cached allow is from before the policy, or given to a   *)
(* session that was clean.                                                 *)
Behind(given, most, pins, shut) ==
  /\ \A t \in Tools \ given.denied : pins[t] = None \/ pins[t] <= most
  /\ given.fail = "open" => shut = None \/ shut <= most

CallInv(k, pins, shut) ==
  /\ k \in W!CallType
  /\ k.pc \notin {"idle", "done"} => k.tool \in Tools
  /\ k.held # W!Unknown =>
       /\ k.held.known = TRUE /\ k.held.age <= Timeout /\ k.held.denied \subseteq k.held.tools
       /\ Behind(k.held, k.held.age, pins, shut)
  /\ W!Within(k.pin, ConfigTTL + Timeout) \/ "override" \in k.stale
  /\ k.open => W!Within(k.shut, ConfigTTL + Timeout) \/ "fail" \in k.stale
  /\ k.pc = "sent" /\ k.via = "fallback" => k.open
  /\ k.pc = "sent" /\ k.via = "service" /\ k.mapped /\ k.tainted =>
       \/ W!Within(k.guard, DecisionTTL)
       \/ k.clean # None /\ k.clean < DecisionTTL

AgeType ==
  [pin : [Tools -> W!Ages(ConfigTTL + Timeout)], shut : W!Ages(ConfigTTL + Timeout),
   guard : [Tools -> W!Ages(DecisionTTL)], clean : [Tools -> W!Ages(DecisionTTL - 1)]]

CacheType == [Tools -> [effect : {"none", "allow", "deny"}, left : 0 .. DecisionTTL]]

(* What the service knows, and for how long.                               *)
ServiceInv ==
  /\ meeting \in WrapperMixes
  /\ fail \in {"open", "closed"} /\ strict \in BOOLEAN /\ taint \in BOOLEAN
  /\ row \in [Tools -> W!RowType] /\ upstream \subseteq Tools
  /\ effectOf \in [Tools -> W!Policies]
  /\ ages \in AgeType
  /\ \A t \in Tools : ages.pin[t] = None <=> ~W!Pinned(row[t])
  /\ fail = "open" => ages.shut = None
  /\ \A t \in Tools : effectOf[t] # "unless_tainted" => ages.guard[t] = None

CacheInv ==
  /\ cache \in CacheType
  /\ \A t \in Tools : cache[t].effect # "none" => cache[t].left >= 1
  /\ \A t \in Tools : cache[t].effect = "allow" =>
       \/ ages.guard[t] = None \/ ages.guard[t] + cache[t].left <= DecisionTTL
       \/ ages.clean[t] # None /\ ages.clean[t] + cache[t].left <= DecisionTTL

ConfigInv ==
  /\ config \in W!ConfigType /\ config.denied \subseteq config.tools /\ config.age <= ConfigTTL
  /\ config.known => Behind(config, Timeout + config.age, ages.pin, ages.shut)

CallsInv ==
  /\ call = [c \in Calls |-> call[c]]
  /\ \A c \in Calls : CallInv(call[c], ages.pin, ages.shut)

WrapperInv == ServiceInv /\ CacheInv /\ ConfigInv /\ CallsInv

(* The constants of the wrapper.                                           *)
LEMMA WrapperNumbers ==
  /\ ConfigTTL \in Nat \ {0} /\ DecisionTTL \in Nat \ {0} /\ Timeout \in Nat \ {0}
  /\ None \notin Nat /\ None \notin Tools
  /\ W!ConfigSpan = ConfigTTL + Timeout /\ Tools \subseteq Tools
BY EnforcementAssumption DEF W!WrapperAssumption, W!ConfigSpan

(* The fields of a call.                                                   *)
LEMMA CallFields ==
  ASSUME NEW k \in W!CallType
  PROVE  /\ k.pc \in {"idle", "check", "sent", "done", "override", "scope", "fail"}
         /\ k.tool \in Tools \cup {None} /\ k.held \in W!ConfigType
         /\ k.mapped \in BOOLEAN /\ k.open \in BOOLEAN /\ k.tainted \in BOOLEAN
         /\ k.via \in {None, "sidecar", "service", "fallback"}
         /\ k.stale \subseteq {"override", "scope", "fail"}
         /\ k.pin \in W!Ages(ConfigTTL + Timeout) /\ k.shut \in W!Ages(ConfigTTL + Timeout)
         /\ k.guard \in W!Ages(DecisionTTL) /\ k.clean \in W!Ages(DecisionTTL - 1)
<1>1. W!Unknown \in W!ConfigType
  BY WrapperNumbers DEF W!Unknown, W!ConfigType
<1> QED BY <1>1, WrapperNumbers DEF W!CallType, W!Stages

(* The configuration of a wrapper that has none.                           *)
LEMMA UnknownIs ==
  /\ W!Unknown \in W!ConfigType /\ W!Unknown.known = FALSE /\ W!Unknown.fail = "closed"
  /\ W!Unknown.tools = {} /\ W!Unknown.denied = {} /\ W!Unknown.age = 0
BY WrapperNumbers DEF W!Unknown, W!ConfigType

(* A call that has not begun, and one that has ended.                      *)
LEMMA NoCallIs ==
  ASSUME NEW pins, NEW shut
  PROVE  /\ CallInv(W!NoCall, pins, shut) /\ CallInv(W!Ended, pins, shut)
         /\ W!NoCall.pc = "idle" /\ W!Ended.pc = "done"
<1>1. W!NoCall \in W!CallType
  BY WrapperNumbers DEF W!NoCall, W!CallType, W!Ages, W!Stages
<1>2. /\ W!NoCall.pc = "idle" /\ W!NoCall.held = W!Unknown /\ W!NoCall.pin = None
      /\ W!NoCall.open = FALSE
  BY DEF W!NoCall
<1>3. W!Ended \in W!CallType
  BY <1>1 DEF W!Ended, W!CallType
<1>4. /\ W!Ended.pc = "done" /\ W!Ended.held = W!Unknown /\ W!Ended.pin = None
      /\ W!Ended.open = FALSE
  BY <1>1, <1>2 DEF W!Ended, W!NoCall
<1> QED BY <1>1, <1>2, <1>3, <1>4 DEF CallInv, W!Within

(* The wrapper starts with no configuration, no call and no pin.           *)
LEMMA WrapperStarts == W!Init => WrapperInv
<1> SUFFICES ASSUME W!Init PROVE WrapperInv
  OBVIOUS
<1> USE WrapperNumbers
<1>1. ages = [pin |-> [t \in Tools |-> None], shut |-> ConfigTTL + Timeout,
              guard |-> [t \in Tools |-> None], clean |-> [t \in Tools |-> None]]
  BY DEF W!Init
<1>2. ages \in AgeType
  BY <1>1 DEF AgeType, W!Ages
<1>3. /\ ages.pin = [t \in Tools |-> None] /\ ages.guard = [t \in Tools |-> None]
  BY <1>1
<1>4. row = [t \in Tools |-> [here |-> TRUE, on |-> TRUE, override |-> "none"]]
  BY DEF W!Init
<1>5. ServiceInv
  <2>1. \A t \in Tools : ages.pin[t] = None /\ ~W!Pinned(row[t])
    BY <1>3, <1>4 DEF W!Pinned
  <2>2. row \in [Tools -> W!RowType]
    BY <1>4 DEF W!RowType, W!Overrides
  <2>3. /\ meeting \in WrapperMixes /\ fail = "closed" /\ strict \in BOOLEAN /\ taint = FALSE
        /\ upstream = Tools /\ effectOf = [t \in Tools |-> "allow"]
    BY DEF W!Init
  <2>4. effectOf \in [Tools -> W!Policies] /\ \A t \in Tools : ages.guard[t] = None
    BY <1>3, <2>3 DEF W!Policies
  <2> QED BY <1>2, <2>1, <2>2, <2>3, <2>4 DEF ServiceInv
<1>6. CacheInv
  <2>1. cache = [t \in Tools |-> W!NoEntry] /\ W!NoEntry = [effect |-> "none", left |-> 0]
    BY DEF W!Init, W!NoEntry
  <2>2. cache \in CacheType /\ \A t \in Tools : cache[t].effect = "none"
    BY <2>1 DEF CacheType
  <2> QED BY <2>2 DEF CacheInv
<1>7. ConfigInv
  BY UnknownIs DEF W!Init, ConfigInv
<1>8. CallsInv
  BY NoCallIs DEF W!Init, CallsInv
<1> QED BY <1>5, <1>6, <1>7, <1>8 DEF WrapperInv

-----------------------------------------------------------------------------
(* One call changes; nothing else that the others' invariant reads.        *)
LEMMA OneCall ==
  ASSUME CallsInv, NEW c \in Calls, NEW k, CallInv(k, ages.pin, ages.shut),
         call' = [call EXCEPT ![c] = k], ages'.pin = ages.pin, ages'.shut = ages.shut
  PROVE  CallsInv'
<1>1. call = [x \in Calls |-> call[x]] /\ \A x \in Calls : CallInv(call[x], ages.pin, ages.shut)
  BY DEF CallsInv
<1>2. /\ call' = [x \in Calls |-> call'[x]]
      /\ \A x \in Calls : call'[x] = IF x = c THEN k ELSE call[x]
  BY <1>1
<1>3. \A x \in Calls : CallInv(call'[x], ages'.pin, ages'.shut)
  BY <1>1, <1>2
<1> QED BY <1>2, <1>3 DEF CallsInv

(* Where a call is after it has read a configuration.                      *)
LEMMA ReadsIs ==
  ASSUME NEW c \in Calls, CallsInv, ServiceInv, W!Reading(c), NEW cfg \in W!ConfigType,
         NEW more \in SUBSET {"override", "scope", "fail"}
  PROVE  LET k == call[c]
             m == [W!Reads(c, cfg) EXCEPT !.stale = @ \cup more] IN
         (\/ "override" \in more /\ k.pc = "override"
          \/ "fail" \in more /\ k.pc = "fail"
          \/ k.pc = "scope"
          \/ Behind(cfg, ConfigTTL + Timeout - 1, ages.pin, ages.shut)) =>
         CallInv(m, ages.pin, ages.shut) /\ (more = {} => m = W!Reads(c, cfg))
<1> USE WrapperNumbers
<1> DEFINE k == call[c]
           new == W!Reads(c, cfg)
           m == [new EXCEPT !.stale = @ \cup more]
<1>1. k \in W!CallType /\ CallInv(k, ages.pin, ages.shut) /\ k.tool \in Tools
      /\ k.pc \in {"override", "scope", "fail"}
  BY DEF CallsInv, CallInv, W!Reading, W!Stages
<1>2. /\ ages.pin \in [Tools -> W!Ages(ConfigTTL + Timeout)] /\ ages.shut \in W!Ages(ConfigTTL + Timeout)
      /\ taint \in BOOLEAN
  BY DEF ServiceInv, AgeType
<1>3. SUFFICES ASSUME \/ "override" \in more /\ k.pc = "override"
                      \/ "fail" \in more /\ k.pc = "fail"
                      \/ k.pc = "scope"
                      \/ Behind(cfg, ConfigTTL + Timeout - 1, ages.pin, ages.shut)
               PROVE  CallInv(m, ages.pin, ages.shut) /\ (more = {} => m = new)
  OBVIOUS
<1> DEFINE l == [k EXCEPT !.held = W!Unknown]
<1>4. /\ l \in W!CallType /\ l.pc = k.pc /\ l.tool = k.tool /\ l.held = W!Unknown /\ l.pin = k.pin
      /\ l.stale = k.stale /\ l.open = k.open /\ l.shut = k.shut
  <2> HIDE DEF k
  <2> QED BY <1>1, UnknownIs DEF W!CallType
<1> DEFINE ended == [W!Ended EXCEPT !.stale = @ \cup more]
<1>5. /\ ended \in W!CallType /\ CallInv(ended, ages.pin, ages.shut) /\ W!Ended \in W!CallType
      /\ W!Ended = [W!Ended EXCEPT !.stale = @ \cup {}]
  <2>1. CallInv(W!Ended, ages.pin, ages.shut) /\ W!Ended.pc = "done"
    BY NoCallIs
  <2>2. W!Ended \in W!CallType
    BY <2>1 DEF CallInv
  <2>3. W!Ended.stale \cup more \subseteq {"override", "scope", "fail"}
    BY <2>2, CallFields
  <2>4. ended \in W!CallType
    BY <2>2, <2>3 DEF W!CallType, W!Stages
  <2>5. /\ ended.pc = W!Ended.pc /\ ended.held = W!Ended.held /\ ended.pin = W!Ended.pin
        /\ ended.open = W!Ended.open /\ ended.shut = W!Ended.shut
        /\ ended.stale = W!Ended.stale \cup more
    BY <2>2 DEF W!CallType
  <2>6. W!Ended = [W!Ended EXCEPT !.stale = @ \cup {}]
    BY <2>2 DEF W!CallType
  <2> HIDE DEF ended
  <2> QED BY <2>1, <2>2, <2>4, <2>5, <2>6 DEF CallInv
<1> HIDE DEF l, k
<1>6. CASE k.pc = "override"
  <2>1. CASE k.tool \in cfg.denied
    <3>1. new = W!Ended
      BY <1>4, <1>6, <2>1 DEF W!Reads, l, k
    <3> HIDE DEF new
    <3> QED BY <1>5, <3>1
  <2>2. CASE k.tool \notin cfg.denied
    <3>1. new = [l EXCEPT !.pc = "scope", !.pin = ages.pin[k.tool]]
      BY <1>4, <1>6, <2>2 DEF W!Reads, l, k
    <3>2. new \in W!CallType /\ new.pc = "scope" /\ new.pin = ages.pin[k.tool] /\ new.held = W!Unknown
          /\ new.tool = k.tool /\ new.stale = k.stale /\ new.open = k.open /\ new.shut = k.shut
      <4>1. ages.pin[k.tool] \in W!Ages(ConfigTTL + Timeout)
        BY <1>1, <1>2
      <4> HIDE WrapperNumbers
      <4>2. W!ConfigSpan = ConfigTTL + Timeout
        BY WrapperNumbers
      <4> QED BY <1>4, <3>1, <4>1, <4>2 DEF W!CallType, W!Stages
    <3> HIDE DEF new
    <3>3. m \in W!CallType /\ m.pc = "scope" /\ m.pin = ages.pin[k.tool] /\ m.held = W!Unknown
          /\ m.tool = k.tool /\ m.stale = k.stale \cup more /\ m.open = k.open /\ m.shut = k.shut
      <4>1. new.stale \cup more \subseteq {"override", "scope", "fail"}
        BY <3>2, CallFields
      <4> HIDE WrapperNumbers
      <4> QED BY <3>2, <4>1 DEF W!CallType, W!Stages
    <3>4. more = {} => m = new
      BY <3>2 DEF W!CallType
    <3> HIDE DEF m
    <3>5. W!Within(m.pin, ConfigTTL + Timeout) \/ "override" \in m.stale
      <4>1. CASE "override" \in more
        BY <3>3, <4>1
      <4>2. CASE Behind(cfg, ConfigTTL + Timeout - 1, ages.pin, ages.shut)
        <5>1. ages.pin[k.tool] = None \/ ages.pin[k.tool] <= ConfigTTL + Timeout - 1
          BY <1>1, <2>2, <4>2 DEF Behind
        <5>2. ages.pin[k.tool] \in Nat \cup {None}
          BY <1>1, <1>2 DEF W!Ages
        <5> QED BY <3>3, <5>1, <5>2 DEF W!Within
      <4> QED BY <1>3, <1>6, <4>1, <4>2
    <3>6. m.open => W!Within(m.shut, ConfigTTL + Timeout) \/ "fail" \in m.stale
      BY <1>1, <3>3 DEF CallInv
    <3> QED BY <1>1, <3>3, <3>4, <3>5, <3>6 DEF CallInv
  <2> QED BY <2>1, <2>2
<1>7. CASE k.pc = "scope"
  <2>1. new = [l EXCEPT !.pc = "fail", !.mapped = k.tool \in cfg.tools, !.tainted = taint]
    BY <1>4, <1>7 DEF W!Reads, l, k
  <2>2. new \in W!CallType /\ new.pc = "fail" /\ new.pin = k.pin /\ new.held = W!Unknown
        /\ new.tool = k.tool /\ new.stale = k.stale /\ new.open = k.open /\ new.shut = k.shut
    <3>1. (k.tool \in cfg.tools) \in BOOLEAN
      OBVIOUS
    <3> HIDE WrapperNumbers
    <3> QED BY <1>2, <1>4, <2>1, <3>1 DEF W!CallType, W!Stages
  <2> HIDE DEF new
  <2>3. m \in W!CallType /\ m.pc = "fail" /\ m.pin = k.pin /\ m.held = W!Unknown
        /\ m.tool = k.tool /\ m.stale = k.stale \cup more /\ m.open = k.open /\ m.shut = k.shut
    <3>1. new.stale \cup more \subseteq {"override", "scope", "fail"}
      BY <2>2, CallFields
    <3> HIDE WrapperNumbers
    <3> QED BY <2>2, <3>1 DEF W!CallType, W!Stages
  <2>4. more = {} => m = new
    BY <2>2 DEF W!CallType
  <2> HIDE DEF m
  <2> QED BY <1>1, <2>3, <2>4 DEF CallInv
<1>8. CASE k.pc = "fail"
  <2>1. new = [l EXCEPT !.pc = "check", !.open = cfg.fail = "open", !.shut = ages.shut]
    BY <1>4, <1>8 DEF W!Reads, l, k
  <2>2. new \in W!CallType /\ new.pc = "check" /\ new.pin = k.pin /\ new.held = W!Unknown
        /\ new.tool = k.tool /\ new.stale = k.stale /\ (new.open <=> cfg.fail = "open")
        /\ new.shut = ages.shut
    <3>1. (cfg.fail = "open") \in BOOLEAN
      OBVIOUS
    <3> HIDE WrapperNumbers
    <3>2. W!ConfigSpan = ConfigTTL + Timeout
      BY WrapperNumbers
    <3> QED BY <1>2, <1>4, <2>1, <3>1, <3>2 DEF W!CallType, W!Stages
  <2> HIDE DEF new
  <2>3. m \in W!CallType /\ m.pc = "check" /\ m.pin = k.pin /\ m.held = W!Unknown
        /\ m.tool = k.tool /\ m.stale = k.stale \cup more /\ (m.open <=> cfg.fail = "open")
        /\ m.shut = ages.shut
    <3>1. new.stale \cup more \subseteq {"override", "scope", "fail"}
      BY <2>2, CallFields
    <3> HIDE WrapperNumbers
    <3> QED BY <2>2, <3>1 DEF W!CallType, W!Stages
  <2>4. more = {} => m = new
    BY <2>2 DEF W!CallType
  <2> HIDE DEF m
  <2>5. m.open => W!Within(m.shut, ConfigTTL + Timeout) \/ "fail" \in m.stale
    <3>1. CASE "fail" \in more
      BY <2>3, <3>1
    <3>2. CASE Behind(cfg, ConfigTTL + Timeout - 1, ages.pin, ages.shut)
      <4>1. cfg.fail = "open" => ages.shut = None \/ ages.shut <= ConfigTTL + Timeout - 1
        BY <3>2 DEF Behind
      <4>2. ages.shut \in Nat \cup {None}
        BY <1>2 DEF W!Ages
      <4> QED BY <2>3, <4>1, <4>2 DEF W!Within
    <3> QED BY <1>3, <1>8, <3>1, <3>2
  <2>6. W!Within(m.pin, ConfigTTL + Timeout) \/ "override" \in m.stale
    BY <1>1, <2>3 DEF CallInv
  <2> QED BY <1>1, <2>3, <2>4, <2>5, <2>6 DEF CallInv
<1> QED BY <1>1, <1>6, <1>7, <1>8

(* What has held for no longer than before is as far behind.               *)
LEMMA NoOlder ==
  ASSUME NEW pins, NEW shut, NEW pins2, NEW shut2,
         \A t \in Tools : pins2[t] = None \/ pins2[t] = 0 \/ pins2[t] = pins[t],
         shut2 = None \/ shut2 = 0 \/ shut2 = shut
  PROVE  /\ \A x, most : most \in Nat /\ Behind(x, most, pins, shut) => Behind(x, most, pins2, shut2)
         /\ \A k : CallInv(k, pins, shut) => CallInv(k, pins2, shut2)
<1>1. \A x, most : most \in Nat /\ Behind(x, most, pins, shut) => Behind(x, most, pins2, shut2)
  <2> SUFFICES ASSUME NEW x, NEW most \in Nat, Behind(x, most, pins, shut)
               PROVE  Behind(x, most, pins2, shut2)
    OBVIOUS
  <2>1. 0 <= most
    OBVIOUS
  <2> QED BY <2>1 DEF Behind
<1>2. ASSUME NEW k, CallInv(k, pins, shut) PROVE CallInv(k, pins2, shut2)
  <2>1. k.held # W!Unknown => k.held.age \in Nat
    BY <1>2, CallFields, WrapperNumbers DEF CallInv, W!ConfigType
  <2> QED BY <1>1, <1>2, <2>1 DEF CallInv
<1> QED BY <1>1, <1>2

(* So the calls and the configuration stand when pins and closings do.     *)
LEMMA StillBehind ==
  ASSUME ServiceInv, ConfigInv, CallsInv,
         \A t \in Tools : ages'.pin[t] = None \/ ages'.pin[t] = 0 \/ ages'.pin[t] = ages.pin[t],
         ages'.shut = None \/ ages'.shut = 0 \/ ages'.shut = ages.shut
  PROVE  /\ config' = config => ConfigInv'
         /\ call' = call => CallsInv'
         /\ call' = [c \in Calls |-> IF call[c].pc = "done" THEN call[c] ELSE W!NoCall] => CallsInv'
<1> DEFINE pins2 == ages'.pin
           shut2 == ages'.shut
<1>1. /\ \A x, most : most \in Nat /\ Behind(x, most, ages.pin, ages.shut) => Behind(x, most, pins2, shut2)
      /\ \A k : CallInv(k, ages.pin, ages.shut) => CallInv(k, pins2, shut2)
  <2>1. \A t \in Tools : pins2[t] = None \/ pins2[t] = 0 \/ pins2[t] = ages.pin[t]
    OBVIOUS
  <2>2. shut2 = None \/ shut2 = 0 \/ shut2 = ages.shut
    OBVIOUS
  <2> HIDE DEF pins2, shut2
  <2> QED BY <2>1, <2>2, NoOlder
<1>2. config' = config => ConfigInv'
  <2>1. Timeout + config.age \in Nat
    BY WrapperNumbers DEF ConfigInv, W!ConfigType
  <2> QED BY <1>1, <2>1 DEF ConfigInv
<1>3. call' = call => CallsInv'
  BY <1>1 DEF CallsInv
<1>4. call' = [c \in Calls |-> IF call[c].pc = "done" THEN call[c] ELSE W!NoCall] => CallsInv'
  <2> SUFFICES ASSUME call' = [c \in Calls |-> IF call[c].pc = "done" THEN call[c] ELSE W!NoCall]
               PROVE  CallsInv'
    OBVIOUS
  <2>1. CallInv(W!NoCall, pins2, shut2)
    BY NoCallIs
  <2>2. \A c \in Calls : CallInv(call'[c], pins2, shut2)
    BY <1>1, <2>1 DEF CallsInv
  <2>3. call' = [c \in Calls |-> call'[c]]
    OBVIOUS
  <2> QED BY <2>2, <2>3 DEF CallsInv
<1> QED BY <1>2, <1>3, <1>4

(* What changes nothing but calls and taint.                               *)
LEMMA OnlyCalls ==
  ASSUME WrapperInv, taint' \in BOOLEAN, UNCHANGED <<meeting, fail, strict, row, upstream, effectOf, config, cache, ages>>
  PROVE  ServiceInv' /\ CacheInv' /\ ConfigInv'
BY DEF WrapperInv, ServiceInv, CacheInv, ConfigInv

(* A call begins without a reading.                                        *)
LEMMA StartKept ==
  ASSUME WrapperInv, NEW c \in Calls, NEW t \in Tools, W!Start(c, t)
  PROVE  WrapperInv'
<1> DEFINE m == [W!NoCall EXCEPT !.pc = "override", !.tool = t]
<1>1. /\ call' = [call EXCEPT ![c] = m]
      /\ UNCHANGED <<meeting, fail, strict, row, upstream, effectOf, config, taint, cache, ages>>
  BY DEF W!Start, W!service
<1>2. W!NoCall \in W!CallType
  BY NoCallIs DEF CallInv
<1>3. m \in W!CallType /\ m.pc = "override" /\ m.tool = t /\ m.held = W!Unknown /\ m.pin = None /\ m.open = FALSE
  BY <1>2 DEF W!CallType, W!Stages, W!NoCall
<1> HIDE DEF m
<1>4. CallInv(m, ages.pin, ages.shut)
  BY <1>3 DEF CallInv, W!Within
<1>5. CallsInv'
  BY <1>1, <1>4, OneCall DEF WrapperInv
<1> QED BY <1>1, <1>5, OnlyCalls DEF WrapperInv, ServiceInv

(* It reads what is kept, which is fresh, so not far behind.               *)
LEMMA ReadCachedKept ==
  ASSUME WrapperInv, NEW c \in Calls, W!ReadCached(c)
  PROVE  WrapperInv'
<1> USE WrapperNumbers
<1> DEFINE m == W!Reads(c, config)
<1>1. /\ call' = [call EXCEPT ![c] = m] /\ W!Reading(c) /\ config.known /\ config.age < ConfigTTL
      /\ UNCHANGED <<meeting, fail, strict, row, upstream, effectOf, config, taint, cache, ages>>
  BY DEF W!ReadCached, W!service, W!Fresh
<1>2. config \in W!ConfigType /\ config.age \in Nat /\ Behind(config, Timeout + config.age, ages.pin, ages.shut)
  BY <1>1 DEF WrapperInv, ConfigInv, W!ConfigType
<1>3. ages.shut \in Nat \cup {None} /\ \A t \in Tools : ages.pin[t] \in Nat \cup {None}
  BY DEF WrapperInv, ServiceInv, AgeType, W!Ages
<1>4. Behind(config, ConfigTTL + Timeout - 1, ages.pin, ages.shut)
  BY <1>1, <1>2, <1>3 DEF Behind
<1>5. CallInv(m, ages.pin, ages.shut)
  <2>1. CallInv([m EXCEPT !.stale = @ \cup {}], ages.pin, ages.shut) /\ [m EXCEPT !.stale = @ \cup {}] = m
    BY <1>1, <1>2, <1>4, ReadsIs DEF WrapperInv
  <2> HIDE DEF m
  <2> QED BY <2>1
<1> HIDE DEF m
<1>6. CallsInv'
  BY <1>1, <1>5, OneCall DEF WrapperInv
<1> QED BY <1>1, <1>6, OnlyCalls DEF WrapperInv, ServiceInv

(* It asks, and the answer is of the rows as they are.                     *)
LEMMA AskKept ==
  ASSUME WrapperInv, NEW c \in Calls, W!Ask(c)
  PROVE  WrapperInv'
<1> USE WrapperNumbers
<1> DEFINE k == call[c]
           m == [k EXCEPT !.held = W!Live]
<1>1. /\ call' = [call EXCEPT ![c] = m] /\ W!Reading(c)
      /\ UNCHANGED <<meeting, fail, strict, row, upstream, effectOf, config, taint, cache, ages>>
  <2>1. call = [x \in Calls |-> call[x]]
    BY DEF WrapperInv, CallsInv
  <2> QED BY <2>1 DEF W!Ask, W!service
<1>2. CallInv(k, ages.pin, ages.shut) /\ k \in W!CallType
  BY DEF WrapperInv, CallsInv, CallInv
<1>3. /\ W!Live \in W!ConfigType /\ W!Live.known = TRUE /\ W!Live.age = 0 /\ W!Live.fail = fail
      /\ W!Live.tools = {t \in Tools : row[t].here /\ row[t].on}
      /\ W!Live.denied = {t \in Tools : row[t].here /\ row[t].on /\ row[t].override = "deny"}
  BY DEF W!Live, W!ConfigType, WrapperInv, ServiceInv
<1>4. Behind(W!Live, 0, ages.pin, ages.shut) /\ W!Live.denied \subseteq W!Live.tools
  BY <1>3 DEF Behind, WrapperInv, ServiceInv, W!Pinned
<1>5. /\ m \in W!CallType /\ m.held = W!Live /\ m.pc = k.pc /\ m.tool = k.tool /\ m.pin = k.pin
      /\ m.stale = k.stale /\ m.open = k.open /\ m.shut = k.shut
  <2> HIDE DEF k
  <2> QED BY <1>2, <1>3 DEF W!CallType
<1>6. k.pc \in {"override", "scope", "fail"}
  BY <1>1 DEF W!Reading, W!Stages
<1> HIDE DEF m
<1>7. CallInv(m, ages.pin, ages.shut)
  BY <1>2, <1>3, <1>4, <1>5, <1>6 DEF CallInv
<1>8. CallsInv'
  BY <1>1, <1>7, OneCall DEF WrapperInv
<1> QED BY <1>1, <1>8, OnlyCalls DEF WrapperInv, ServiceInv

(* The answer arrives, no later than the timeout, and replaces what is     *)
(* kept.                                                                   *)
LEMMA ArriveKept ==
  ASSUME WrapperInv, NEW c \in Calls, W!Arrive(c)
  PROVE  WrapperInv'
<1> USE WrapperNumbers
<1> DEFINE k == call[c]
           cfg == [k.held EXCEPT !.age = 0]
           m == W!Reads(c, cfg)
<1>1. /\ call' = [call EXCEPT ![c] = m] /\ W!Reading(c) /\ config' = cfg /\ k.held # W!Unknown
      /\ UNCHANGED <<meeting, fail, strict, row, upstream, effectOf, taint, cache, ages>>
  BY DEF W!Arrive, W!service
<1>2. CallInv(k, ages.pin, ages.shut) /\ k.held \in W!ConfigType
  BY CallFields DEF WrapperInv, CallsInv, CallInv
<1>3. /\ cfg \in W!ConfigType /\ cfg.age = 0 /\ cfg.denied = k.held.denied /\ cfg.fail = k.held.fail
      /\ cfg.tools = k.held.tools /\ k.held.age \in Nat
  BY <1>2 DEF W!ConfigType
<1>4. ages.shut \in Nat \cup {None} /\ \A t \in Tools : ages.pin[t] \in Nat \cup {None}
  BY DEF WrapperInv, ServiceInv, AgeType, W!Ages
<1>5. k.held.age <= Timeout /\ k.held.denied \subseteq k.held.tools /\ Behind(k.held, k.held.age, ages.pin, ages.shut)
  BY <1>1, <1>2 DEF CallInv
<1> HIDE DEF cfg, k
<1>6. Behind(cfg, Timeout + 0, ages.pin, ages.shut) /\ Behind(cfg, ConfigTTL + Timeout - 1, ages.pin, ages.shut)
  BY <1>3, <1>4, <1>5 DEF Behind
<1>7. CallInv(m, ages.pin, ages.shut)
  <2>1. CallInv([m EXCEPT !.stale = @ \cup {}], ages.pin, ages.shut) /\ [m EXCEPT !.stale = @ \cup {}] = m
    BY <1>1, <1>3, <1>6, ReadsIs DEF WrapperInv
  <2> HIDE DEF m
  <2> QED BY <2>1
<1> HIDE DEF m
<1>8. CallsInv'
  BY <1>1, <1>7, OneCall DEF WrapperInv
<1>9. ConfigInv'
  BY <1>1, <1>3, <1>5, <1>6 DEF ConfigInv
<1>10. ServiceInv' /\ CacheInv'
  BY <1>1 DEF WrapperInv, ServiceInv, CacheInv
<1> QED BY <1>8, <1>9, <1>10 DEF WrapperInv

(* The request fails, and the reading is marked as stale.                  *)
LEMMA AskFailsKept ==
  ASSUME WrapperInv, NEW c \in Calls, W!AskFails(c)
  PROVE  WrapperInv'
<1> DEFINE k == call[c]
           m == [W!Reads(c, config) EXCEPT !.stale = @ \cup {k.pc}]
<1>1. /\ call' = [call EXCEPT ![c] = m] /\ W!Reading(c)
      /\ UNCHANGED <<meeting, fail, strict, row, upstream, effectOf, config, taint, cache, ages>>
  BY DEF W!AskFails, W!service
<1>2. k.pc \in {"override", "scope", "fail"} /\ config \in W!ConfigType
  BY <1>1 DEF W!Reading, W!Stages, WrapperInv, ConfigInv
<1>3. CallInv(m, ages.pin, ages.shut)
  <2> DEFINE more == {k.pc}
  <2>1. more \in SUBSET {"override", "scope", "fail"}
        /\ \/ "override" \in more /\ k.pc = "override"
           \/ "fail" \in more /\ k.pc = "fail"
           \/ k.pc = "scope"
    BY <1>2
  <2> HIDE DEF more
  <2>2. CallInv([W!Reads(c, config) EXCEPT !.stale = @ \cup more], ages.pin, ages.shut)
    BY <1>1, <1>2, <2>1, ReadsIs DEF WrapperInv
  <2> QED BY <2>2 DEF more
<1> HIDE DEF m
<1>4. CallsInv'
  BY <1>1, <1>3, OneCall DEF WrapperInv
<1> QED BY <1>1, <1>4, OnlyCalls DEF WrapperInv, ServiceInv

-----------------------------------------------------------------------------
(* A call that is answered: it ends, or is sent with what had held.        *)
LEMMA AnswerIs ==
  ASSUME WrapperInv, NEW c \in Calls, call[c].pc = "check", NEW effect, NEW via \in {"sidecar", "service", "fallback"},
         W!Answer(c, effect, via),
         effect = "allow" /\ via = "fallback" => call[c].open,
         effect = "allow" /\ via = "service" /\ call[c].mapped /\ call[c].tainted =>
           \/ W!Within(ages.guard[call[c].tool], DecisionTTL)
           \/ ages.clean[call[c].tool] # None /\ ages.clean[call[c].tool] < DecisionTTL,
         ages'.pin = ages.pin, ages'.shut = ages.shut
  PROVE  CallsInv'
<1> DEFINE k == call[c]
           sent == [k EXCEPT !.pc = "sent", !.via = via, !.guard = ages.guard[k.tool],
                             !.clean = ages.clean[k.tool]]
           m == IF effect # "allow" THEN W!Ended ELSE sent
<1>1. call' = [call EXCEPT ![c] = m]
  BY DEF W!Answer
<1>2. CallInv(k, ages.pin, ages.shut) /\ k \in W!CallType /\ k.pc = "check" /\ k.tool \in Tools
  BY DEF WrapperInv, CallsInv, CallInv
<1>3. ages.guard[k.tool] \in W!Ages(DecisionTTL) /\ ages.clean[k.tool] \in W!Ages(DecisionTTL - 1)
  BY <1>2 DEF WrapperInv, ServiceInv, AgeType
<1>4. /\ effect = "allow" /\ via = "fallback" => k.open
      /\ effect = "allow" /\ via = "service" /\ k.mapped /\ k.tainted =>
           \/ W!Within(ages.guard[k.tool], DecisionTTL)
           \/ ages.clean[k.tool] # None /\ ages.clean[k.tool] < DecisionTTL
  OBVIOUS
<1> HIDE DEF k
<1>5. /\ sent \in W!CallType /\ sent.pc = "sent" /\ sent.via = via /\ sent.guard = ages.guard[k.tool]
      /\ sent.clean = ages.clean[k.tool] /\ sent.tool = k.tool /\ sent.held = k.held /\ sent.pin = k.pin
      /\ sent.stale = k.stale /\ sent.open = k.open /\ sent.shut = k.shut /\ sent.mapped = k.mapped
      /\ sent.tainted = k.tainted
  BY <1>2, <1>3 DEF W!CallType, W!Stages
<1> HIDE DEF sent
<1>6. CallInv(m, ages.pin, ages.shut)
  <2>1. CASE effect # "allow"
    BY <2>1, NoCallIs
  <2>2. CASE effect = "allow"
    <3>1. CallInv(sent, ages.pin, ages.shut)
      BY <1>2, <1>4, <1>5, <2>2 DEF CallInv
    <3> QED BY <2>2, <3>1
  <2> QED BY <2>1, <2>2
<1> HIDE DEF m
<1> QED BY <1>1, <1>6, OneCall DEF WrapperInv

(* A sidecar answers the call.                                             *)
LEMMA CheckSidecarKept ==
  ASSUME WrapperInv, NEW c \in Calls, NEW effect, W!CheckSidecar(c, effect)
  PROVE  WrapperInv'
<1>1. /\ call[c].pc = "check" /\ W!Answer(c, effect, "sidecar")
      /\ UNCHANGED <<meeting, fail, strict, row, upstream, effectOf, config, taint, cache, ages>>
  BY DEF W!CheckSidecar, W!service
<1>2. CallsInv'
  BY <1>1, AnswerIs
<1> QED BY <1>1, <1>2, OnlyCalls DEF WrapperInv, ServiceInv

(* Nobody answers, and the fail mode it has read decides.                  *)
LEMMA CheckFallbackKept ==
  ASSUME WrapperInv, NEW c \in Calls, W!CheckFallback(c)
  PROVE  WrapperInv'
<1>1. /\ call[c].pc = "check" /\ W!Answer(c, IF call[c].open THEN "allow" ELSE "deny", "fallback")
      /\ UNCHANGED <<meeting, fail, strict, row, upstream, effectOf, config, taint, cache, ages>>
  BY DEF W!CheckFallback, W!service
<1>2. (IF call[c].open THEN "allow" ELSE "deny") = "allow" => call[c].open
  OBVIOUS
<1>3. CallsInv'
  BY <1>1, <1>2, AnswerIs
<1> QED BY <1>1, <1>3, OnlyCalls DEF WrapperInv, ServiceInv

(* What the service stores of a scope it decides.                          *)
Allowed(entry, guard, clean) ==
  entry.effect = "allow" =>
    \/ guard = None \/ guard + entry.left <= DecisionTTL
    \/ clean # None /\ clean + entry.left <= DecisionTTL

(* What the service answers and keeps was allowed before the policy, or to *)
(* a clean session.                                                        *)
LEMMA StoredIs ==
  ASSUME WrapperInv, NEW t \in Tools, NEW tainted \in BOOLEAN
  PROVE  LET new == W!Stored(t, tainted)
             clean == IF tainted THEN ages.clean[t] ELSE 0 IN
         /\ new \in [effect : {"none", "allow", "deny"}, left : 0 .. DecisionTTL]
         /\ new.effect # "none" => new.left >= 1
         /\ Allowed(new, ages.guard[t], clean)
         /\ W!Decided(t, tainted) = "allow" => new.effect = "allow"
<1> USE WrapperNumbers
<1> DEFINE new == W!Stored(t, tainted)
           clean == IF tainted THEN ages.clean[t] ELSE 0
<1>1. /\ cache[t] \in [effect : {"none", "allow", "deny"}, left : 0 .. DecisionTTL]
      /\ cache[t].effect # "none" => cache[t].left >= 1
      /\ Allowed(cache[t], ages.guard[t], ages.clean[t])
  BY DEF WrapperInv, CacheInv, CacheType, Allowed
<1>2. effectOf[t] \in {"allow", "deny", "approval", "unless_tainted"}
      /\ (effectOf[t] # "unless_tainted" => ages.guard[t] = None)
  BY DEF WrapperInv, ServiceInv, W!Policies
<1>3. ages.guard[t] \in 0 .. DecisionTTL \cup {None} /\ ages.clean[t] \in 0 .. (DecisionTTL - 1) \cup {None}
  BY DEF WrapperInv, ServiceInv, AgeType, W!Ages
<1>4. CASE W!Cached(t)
  <2>1. new = cache[t] /\ W!Decided(t, tainted) = cache[t].effect
    BY <1>4 DEF W!Stored, W!Decided
  <2>2. cache[t].left \in Nat /\ cache[t].left <= DecisionTTL
    BY <1>1
  <2>3. Allowed(cache[t], ages.guard[t], clean)
    BY <1>1, <1>3, <2>2 DEF Allowed
  <2> QED BY <1>1, <2>1, <2>3
<1>5. CASE ~W!Cached(t) /\ W!Evaluate(t, tainted) = "approval"
  <2>1. new = cache[t] /\ W!Decided(t, tainted) = "approval" /\ cache[t].effect = "none"
    BY <1>5 DEF W!Stored, W!Decided, W!Cached
  <2> QED BY <1>1, <2>1 DEF Allowed
<1>6. CASE ~W!Cached(t) /\ W!Evaluate(t, tainted) # "approval"
  <2>1. new = [effect |-> W!Evaluate(t, tainted), left |-> DecisionTTL]
        /\ W!Decided(t, tainted) = W!Evaluate(t, tainted)
    BY <1>6 DEF W!Stored, W!Decided
  <2>2. W!Evaluate(t, tainted) \in {"allow", "deny"}
        /\ (W!Evaluate(t, tainted) = "allow" => ages.guard[t] = None \/ ~tainted)
    BY <1>2, <1>6 DEF W!Evaluate
  <2>3. new.effect = W!Evaluate(t, tainted) /\ new.left = DecisionTTL
    BY <2>1
  <2>4. new \in [effect : {"none", "allow", "deny"}, left : 0 .. DecisionTTL]
    BY <2>1, <2>2
  <2>5. Allowed(new, ages.guard[t], clean)
    BY <2>2, <2>3 DEF Allowed
  <2> QED BY <2>1, <2>2, <2>3, <2>4, <2>5
<1> QED BY <1>4, <1>5, <1>6

(* The service answers the call, and keeps the answer.                     *)
LEMMA CheckServiceKept ==
  ASSUME WrapperInv, NEW c \in Calls, W!CheckService(c)
  PROVE  WrapperInv'
<1> USE WrapperNumbers
<1> DEFINE k == call[c]
<1>1. CallInv(k, ages.pin, ages.shut) /\ k \in W!CallType /\ k.pc = "check" /\ k.tool \in Tools
      /\ k.tainted \in BOOLEAN
  BY CallFields DEF WrapperInv, CallsInv, CallInv, W!CheckService
<1>2. UNCHANGED <<meeting, fail, strict, row, upstream, effectOf, config, taint>>
  BY DEF W!CheckService, W!service
<1>3. CASE k.mapped
  <2>1. /\ cache' = [cache EXCEPT ![k.tool] = W!Stored(k.tool, k.tainted)]
        /\ ages' = IF k.tainted THEN ages ELSE [ages EXCEPT !.clean[k.tool] = 0]
        /\ W!Answer(c, W!Decided(k.tool, k.tainted), "service")
    BY <1>3 DEF W!CheckService
  <2>2. ages \in AgeType /\ ages.clean \in [Tools -> W!Ages(DecisionTTL - 1)]
    BY DEF WrapperInv, ServiceInv, AgeType
  <2>3. 0 \in W!Ages(DecisionTTL - 1)
    BY DEF W!Ages
  <2> DEFINE now == [ages EXCEPT !.clean[k.tool] = 0]
  <2>4. now \in AgeType /\ now.pin = ages.pin /\ now.shut = ages.shut /\ now.guard = ages.guard
        /\ now.clean = [ages.clean EXCEPT ![k.tool] = 0]
    <3> HIDE DEF k
    <3> QED BY <1>1, <2>2, <2>3 DEF AgeType
  <2> HIDE DEF now
  <2>5. ages' \in AgeType /\ ages'.pin = ages.pin /\ ages'.shut = ages.shut /\ ages'.guard = ages.guard
        /\ ages'.clean = IF k.tainted THEN ages.clean ELSE [ages.clean EXCEPT ![k.tool] = 0]
    BY <2>1, <2>2, <2>4 DEF now
  <2>6. ServiceInv'
    BY <1>2, <2>5 DEF WrapperInv, ServiceInv
  <2> DEFINE new == W!Stored(k.tool, k.tainted)
             clean == IF k.tainted THEN ages.clean[k.tool] ELSE 0
  <2>7. /\ new \in [effect : {"none", "allow", "deny"}, left : 0 .. DecisionTTL]
        /\ new.effect # "none" => new.left >= 1
        /\ Allowed(new, ages.guard[k.tool], clean)
        /\ W!Decided(k.tool, k.tainted) = "allow" => new.effect = "allow"
    BY <1>1, StoredIs
  <2>8. ages'.clean[k.tool] = clean /\ \A t \in Tools : t # k.tool => ages'.clean[t] = ages.clean[t]
    BY <1>1, <2>2, <2>5
  <2> HIDE DEF new, clean
  <2>9. CacheInv'
    <3>1. cache \in CacheType /\ \A t \in Tools :
            /\ cache[t].effect # "none" => cache[t].left >= 1
            /\ Allowed(cache[t], ages.guard[t], ages.clean[t])
      BY DEF WrapperInv, CacheInv, Allowed
    <3>2. cache' = [cache EXCEPT ![k.tool] = new]
      BY <2>1 DEF new
    <3>3. cache' \in CacheType
      BY <1>1, <2>7, <3>1, <3>2 DEF CacheType
    <3>4. ASSUME NEW t \in Tools
          PROVE  /\ cache'[t].effect # "none" => cache'[t].left >= 1
                 /\ Allowed(cache'[t], ages'.guard[t], ages'.clean[t])
      <4>1. CASE t = k.tool
        <5>1. cache'[t] = new
          BY <3>1, <3>2, <4>1 DEF CacheType
        <5> QED BY <2>5, <2>7, <2>8, <4>1, <5>1
      <4>2. CASE t # k.tool
        <5>1. cache'[t] = cache[t]
          BY <3>1, <3>2, <4>2 DEF CacheType
        <5> QED BY <2>5, <2>8, <3>1, <4>2, <5>1
      <4> QED BY <4>1, <4>2
    <3> QED BY <3>3, <3>4 DEF CacheInv, Allowed
  <2>10. ConfigInv'
    BY <1>2, <2>5 DEF WrapperInv, ConfigInv
  <2>11. CallsInv'
    <3>1. W!Decided(k.tool, k.tainted) = "allow" /\ k.tainted =>
            \/ W!Within(ages.guard[k.tool], DecisionTTL)
            \/ ages.clean[k.tool] # None /\ ages.clean[k.tool] < DecisionTTL
      <4> SUFFICES ASSUME W!Decided(k.tool, k.tainted) = "allow", k.tainted
                   PROVE  \/ W!Within(ages.guard[k.tool], DecisionTTL)
                          \/ ages.clean[k.tool] # None /\ ages.clean[k.tool] < DecisionTTL
        OBVIOUS
      <4>1. new.effect = "allow" /\ new.left >= 1 /\ new.left \in Nat
        BY <2>7
      <4>2. ages.guard[k.tool] \in Nat \cup {None} /\ ages.clean[k.tool] \in Nat \cup {None}
        BY <1>1 DEF WrapperInv, ServiceInv, AgeType, W!Ages
      <4>3. clean = ages.clean[k.tool]
        BY DEF clean
      <4> QED BY <2>7, <4>1, <4>2, <4>3 DEF Allowed, W!Within
    <3> QED BY <1>1, <2>1, <2>5, <3>1, AnswerIs
  <2> QED BY <2>6, <2>9, <2>10, <2>11 DEF WrapperInv
<1>4. CASE ~k.mapped
  <2>1. W!Answer(c, "allow", "service") /\ UNCHANGED <<cache, ages>>
    BY <1>4 DEF W!CheckService
  <2>2. CallsInv'
    BY <1>1, <1>4, <2>1, AnswerIs
  <2> QED BY <1>2, <2>1, <2>2, OnlyCalls DEF WrapperInv, ServiceInv
<1> QED BY <1>3, <1>4

(* The upstream answers, and the call is over.                             *)
LEMMA ReturnKept ==
  ASSUME WrapperInv, NEW c \in Calls, NEW ok \in BOOLEAN, W!Return(c, ok)
  PROVE  WrapperInv'
<1>1. /\ call' = [call EXCEPT ![c] = W!Ended]
      /\ UNCHANGED <<meeting, fail, strict, row, upstream, effectOf, config, cache, ages>>
      /\ taint' \in BOOLEAN
  BY DEF W!Return, W!service, WrapperInv, ServiceInv
<1>2. CallsInv'
  BY <1>1, NoCallIs, OneCall DEF WrapperInv
<1> QED BY <1>1, <1>2, OnlyCalls DEF WrapperInv

(* A new session has no taint and no calls.                                *)
LEMMA ReconnectKept ==
  ASSUME WrapperInv, W!Reconnect
  PROVE  WrapperInv'
<1>1. /\ call' = [c \in Calls |-> IF call[c].pc = "done" THEN call[c] ELSE W!NoCall]
      /\ UNCHANGED <<meeting, fail, strict, row, upstream, effectOf, config, cache, ages>>
      /\ taint' \in BOOLEAN
  BY DEF W!Reconnect, W!service
<1>2. CallsInv'
  BY <1>1, StillBehind DEF WrapperInv
<1> QED BY <1>1, <1>2, OnlyCalls DEF WrapperInv

(* A listing stores what the tools would be answered without taint.        *)
LEMMA ListKept ==
  ASSUME WrapperInv, W!List
  PROVE  WrapperInv'
<1> USE WrapperNumbers
<1> DEFINE asked == W!Live.tools \ W!Live.denied
           entry(t) == W!Stored(t, FALSE)
           clean2 == [t \in Tools |-> IF t \in asked THEN 0 ELSE ages.clean[t]]
           now == [ages EXCEPT !.clean = clean2]
<1>1. /\ cache' = [t \in Tools |-> IF t \in asked THEN entry(t) ELSE cache[t]]
      /\ ages' = now
      /\ UNCHANGED <<meeting, fail, strict, row, upstream, effectOf, config, taint, call>>
  BY DEF W!List, W!service
<1>2. ages \in AgeType /\ ages.clean \in [Tools -> W!Ages(DecisionTTL - 1)]
  BY DEF WrapperInv, ServiceInv, AgeType
<1>3. \A t \in Tools :
        /\ entry(t) \in [effect : {"none", "allow", "deny"}, left : 0 .. DecisionTTL]
        /\ entry(t).effect # "none" => entry(t).left >= 1
        /\ Allowed(entry(t), ages.guard[t], 0)
  BY StoredIs
<1> HIDE DEF asked, entry
<1>4. clean2 \in [Tools -> W!Ages(DecisionTTL - 1)]
  BY <1>2 DEF W!Ages
<1> HIDE DEF clean2
<1>5. now \in AgeType /\ now.pin = ages.pin /\ now.shut = ages.shut /\ now.guard = ages.guard
      /\ now.clean = clean2
  BY <1>2, <1>4 DEF AgeType
<1> HIDE DEF now
<1>6. ServiceInv'
  BY <1>1, <1>5 DEF WrapperInv, ServiceInv
<1>7. CacheInv'
  <2>1. cache \in CacheType /\ \A t \in Tools :
          /\ cache[t].effect # "none" => cache[t].left >= 1
          /\ Allowed(cache[t], ages.guard[t], ages.clean[t])
    BY DEF WrapperInv, CacheInv, Allowed
  <2>2. cache' \in CacheType
    BY <1>1, <1>3, <2>1 DEF CacheType
  <2>3. ASSUME NEW t \in Tools
        PROVE  /\ cache'[t].effect # "none" => cache'[t].left >= 1
               /\ Allowed(cache'[t], ages'.guard[t], ages'.clean[t])
    <3>1. ages'.clean[t] = IF t \in asked THEN 0 ELSE ages.clean[t]
      BY <1>1, <1>5 DEF clean2
    <3> QED BY <1>1, <1>3, <1>5, <2>1, <3>1
  <2> QED BY <2>2, <2>3 DEF CacheInv, Allowed
<1>8. ConfigInv'
  BY <1>1, <1>5 DEF WrapperInv, ConfigInv
<1>9. CallsInv'
  BY <1>1, <1>5 DEF WrapperInv, CallsInv
<1> QED BY <1>6, <1>7, <1>8, <1>9 DEF WrapperInv

(* New rows: what is pinned counts from when it was pinned.                *)
LEMMA RowsKept ==
  ASSUME WrapperInv, NEW new \in [Tools -> W!RowType], W!Rows(new), taint' \in BOOLEAN,
         UNCHANGED <<meeting, fail, strict, upstream, effectOf, cache>>,
         config' = config \/ config' = W!Unknown,
         \/ call' = call
         \/ call' = [c \in Calls |-> IF call[c].pc = "done" THEN call[c] ELSE W!NoCall]
  PROVE  WrapperInv'
<1> USE WrapperNumbers
<1> DEFINE pins2 == [t \in Tools |->
             IF ~W!Pinned(new[t]) THEN None ELSE IF W!Pinned(row[t]) THEN ages.pin[t] ELSE 0]
           now == [ages EXCEPT !.pin = pins2]
<1>1. row' = new /\ ages' = now
  BY DEF W!Rows
<1>2. ages \in AgeType /\ ages.pin \in [Tools -> W!Ages(ConfigTTL + Timeout)]
      /\ \A t \in Tools : ages.pin[t] = None <=> ~W!Pinned(row[t])
  BY DEF WrapperInv, ServiceInv, AgeType
<1>3. pins2 \in [Tools -> W!Ages(ConfigTTL + Timeout)]
  BY <1>2 DEF W!Ages
<1>4. \A t \in Tools : pins2[t] = None <=> ~W!Pinned(new[t])
  BY <1>2
<1>5. \A t \in Tools : pins2[t] = None \/ pins2[t] = 0 \/ pins2[t] = ages.pin[t]
  OBVIOUS
<1> HIDE DEF pins2
<1>6. now \in AgeType /\ now.pin = pins2 /\ now.shut = ages.shut /\ now.guard = ages.guard
      /\ now.clean = ages.clean
  BY <1>2, <1>3 DEF AgeType
<1> HIDE DEF now
<1>7. ServiceInv'
  BY <1>1, <1>4, <1>6 DEF WrapperInv, ServiceInv
<1>8. CacheInv'
  BY <1>1, <1>6 DEF WrapperInv, CacheInv
<1>9. \A t \in Tools : ages'.pin[t] = None \/ ages'.pin[t] = 0 \/ ages'.pin[t] = ages.pin[t]
  BY <1>1, <1>5, <1>6
<1>10. CallsInv' /\ (config' = config => ConfigInv')
  BY <1>1, <1>6, <1>9, StillBehind DEF WrapperInv
<1>11. config' = W!Unknown => ConfigInv'
  BY UnknownIs DEF ConfigInv
<1> QED BY <1>7, <1>8, <1>10, <1>11 DEF WrapperInv

(* An administrator pins or unpins a tool.                                 *)
LEMMA UpdateToolKept ==
  ASSUME WrapperInv, NEW t \in Tools, NEW o \in W!Overrides, NEW on \in BOOLEAN, W!UpdateTool(t, o, on)
  PROVE  WrapperInv'
<1> DEFINE new == [row EXCEPT ![t] = [here |-> TRUE, on |-> on, override |-> o]]
<1>1. row \in [Tools -> W!RowType] /\ taint \in BOOLEAN
  BY DEF WrapperInv, ServiceInv
<1>2. new \in [Tools -> W!RowType]
  BY <1>1 DEF W!RowType
<1>3. W!Rows(new) /\ UNCHANGED <<meeting, fail, strict, upstream, config, taint, effectOf, cache, call>>
  BY DEF W!UpdateTool
<1> HIDE DEF new
<1> QED BY <1>1, <1>2, <1>3, RowsKept

(* The wrapper restarts and reports the tools.                             *)
LEMMA RestartKept ==
  ASSUME WrapperInv, W!Restart
  PROVE  WrapperInv'
<1> DEFINE new == [t \in Tools |-> W!SyncedRow(t)]
<1>1. row \in [Tools -> W!RowType]
  BY DEF WrapperInv, ServiceInv
<1>2. ASSUME NEW t \in Tools PROVE W!SyncedRow(t) \in W!RowType
  <2>1. row[t] \in W!RowType
    BY <1>1
  <2>2. [row[t] EXCEPT !.on = FALSE] \in W!RowType
    BY <2>1 DEF W!RowType
  <2>3. [here |-> TRUE, on |-> TRUE, override |-> IF strict THEN "approval" ELSE "none"] \in W!RowType
    BY DEF W!RowType, W!Overrides
  <2> QED BY <2>1, <2>2, <2>3 DEF W!SyncedRow
<1>3. new \in [Tools -> W!RowType]
  BY <1>2
<1>4. /\ W!Rows(new) /\ config' = W!Unknown /\ taint' = FALSE
      /\ call' = [c \in Calls |-> IF call[c].pc = "done" THEN call[c] ELSE W!NoCall]
      /\ UNCHANGED <<meeting, fail, strict, upstream, effectOf, cache>>
  BY DEF W!Restart
<1> HIDE DEF new
<1> QED BY <1>3, <1>4, RowsKept

(* The upstream offers another tool, or one less.                          *)
LEMMA OfferKept ==
  ASSUME WrapperInv, NEW t \in Tools, W!Offer(t)
  PROVE  WrapperInv'
<1>1. upstream' \subseteq Tools
      /\ UNCHANGED <<meeting, fail, strict, row, config, taint, effectOf, cache, ages, call>>
  BY DEF W!Offer, WrapperInv, ServiceInv
<1> QED BY <1>1 DEF WrapperInv, ServiceInv, CacheInv, ConfigInv, CallsInv

(* An administrator opens or closes the server.                            *)
LEMMA UpdateServerKept ==
  ASSUME WrapperInv, NEW mode \in {"open", "closed"}, W!UpdateServer(mode)
  PROVE  WrapperInv'
<1> USE WrapperNumbers
<1> DEFINE shut2 == IF mode = "open" THEN None ELSE 0
           now == [ages EXCEPT !.shut = shut2]
<1>1. fail' = mode /\ ages' = now
      /\ UNCHANGED <<meeting, strict, row, upstream, config, taint, effectOf, cache, call>>
  BY DEF W!UpdateServer
<1>2. ages \in AgeType
  BY DEF WrapperInv, ServiceInv
<1>3. shut2 \in W!Ages(ConfigTTL + Timeout) /\ (mode = "open" => shut2 = None) /\ (shut2 = None \/ shut2 = 0)
  BY DEF W!Ages
<1> HIDE DEF shut2
<1>4. now \in AgeType /\ now.pin = ages.pin /\ now.shut = shut2 /\ now.guard = ages.guard
      /\ now.clean = ages.clean
  BY <1>2, <1>3 DEF AgeType
<1> HIDE DEF now
<1>5. ServiceInv'
  BY <1>1, <1>3, <1>4 DEF WrapperInv, ServiceInv
<1>6. CacheInv'
  BY <1>1, <1>4 DEF WrapperInv, CacheInv
<1>7. CallsInv' /\ ConfigInv'
  BY <1>1, <1>3, <1>4, StillBehind DEF WrapperInv
<1> QED BY <1>5, <1>6, <1>7 DEF WrapperInv

(* An administrator writes the policy of a scope.                          *)
LEMMA SetPolicyKept ==
  ASSUME WrapperInv, NEW t \in Tools, NEW p \in W!Policies, W!SetPolicy(t, p)
  PROVE  WrapperInv'
<1> USE WrapperNumbers
<1> DEFINE held == IF p = "unless_tainted" THEN 0 ELSE None
           now == [ages EXCEPT !.guard[t] = held]
<1>1. effectOf' = [effectOf EXCEPT ![t] = p] /\ ages' = now
      /\ UNCHANGED <<meeting, fail, strict, row, upstream, config, taint, cache, call>>
  BY DEF W!SetPolicy
<1>2. ages \in AgeType /\ ages.guard \in [Tools -> W!Ages(DecisionTTL)]
  BY DEF WrapperInv, ServiceInv, AgeType
<1>3. held \in W!Ages(DecisionTTL) /\ (p # "unless_tainted" => held = None) /\ (held = None \/ held = 0)
  BY DEF W!Ages
<1> HIDE DEF held
<1>4. now \in AgeType /\ now.pin = ages.pin /\ now.shut = ages.shut /\ now.clean = ages.clean
      /\ now.guard = [ages.guard EXCEPT ![t] = held]
  BY <1>2, <1>3 DEF AgeType
<1> HIDE DEF now
<1>5. effectOf' \in [Tools -> W!Policies]
      /\ \A u \in Tools : effectOf'[u] # "unless_tainted" => ages'.guard[u] = None
  BY <1>1, <1>2, <1>3, <1>4 DEF WrapperInv, ServiceInv
<1>6. ServiceInv'
  BY <1>1, <1>4, <1>5 DEF WrapperInv, ServiceInv
<1>7. CacheInv'
  <2>1. cache \in CacheType /\ \A u \in Tools :
          /\ cache[u].effect # "none" => cache[u].left >= 1
          /\ Allowed(cache[u], ages.guard[u], ages.clean[u])
    BY DEF WrapperInv, CacheInv, Allowed
  <2>2. ASSUME NEW u \in Tools PROVE Allowed(cache'[u], ages'.guard[u], ages'.clean[u])
    <3>1. CASE u = t
      <4>1. ages'.guard[u] = held /\ cache'[u] = cache[u] /\ cache[u].left \in Nat /\ cache[u].left <= DecisionTTL
        BY <1>1, <1>2, <1>4, <2>1, <3>1 DEF CacheType
      <4> QED BY <1>3, <4>1 DEF Allowed
    <3>2. CASE u # t
      <4>1. ages'.guard[u] = ages.guard[u] /\ cache'[u] = cache[u] /\ ages'.clean[u] = ages.clean[u]
        BY <1>1, <1>2, <1>4, <3>2
      <4> QED BY <2>1, <4>1
    <3> QED BY <3>1, <3>2
  <2> QED BY <1>1, <2>1, <2>2 DEF CacheInv, Allowed
<1>8. ConfigInv' /\ CallsInv'
  BY <1>1, <1>4 DEF WrapperInv, ConfigInv, CallsInv
<1> QED BY <1>6, <1>7, <1>8 DEF WrapperInv

(* An age that goes on is one more, unless it is as large as is compared.  *)
LEMMA OlderIs ==
  ASSUME NEW most \in Nat, NEW a \in W!Ages(most)
  PROVE  /\ W!Older(a, most) \in W!Ages(most)
         /\ W!Older(a, most) = None <=> a = None
         /\ a # None => W!Older(a, most) \in Nat /\ W!Older(a, most) <= a + 1 /\ W!Older(a, most) >= a
BY WrapperNumbers DEF W!Older, W!Ages

(* Time passes: pins age as configurations do, and answers have less left. *)
LEMMA TickKept ==
  ASSUME WrapperInv, W!Tick
  PROVE  WrapperInv'
<1> USE WrapperNumbers
<1> DEFINE span == ConfigTTL + Timeout
           pin2 == [t \in Tools |-> W!Older(ages.pin[t], span)]
           shut2 == W!Older(ages.shut, span)
           guard2 == [t \in Tools |-> W!Older(ages.guard[t], DecisionTTL)]
           clean2 == [t \in Tools |-> IF ages.clean[t] = DecisionTTL - 1 THEN None
                                      ELSE W!Older(ages.clean[t], DecisionTTL)]
           now == [pin |-> pin2, shut |-> shut2, guard |-> guard2, clean |-> clean2]
<1>1. ages' = now
  BY DEF W!Tick
<1>2. /\ \A c \in Calls : call[c].held # W!Unknown => call[c].held.age < Timeout
      /\ config' = [config EXCEPT !.age = W!Older(@, ConfigTTL)]
      /\ cache' = [t \in Tools |-> IF cache[t].left <= 1 THEN W!NoEntry
                                   ELSE [cache[t] EXCEPT !.left = @ - 1]]
      /\ call' = [c \in Calls |-> IF call[c].held = W!Unknown THEN call[c]
                                  ELSE [call[c] EXCEPT !.held.age = @ + 1]]
      /\ UNCHANGED <<meeting, fail, strict, row, upstream, effectOf, taint>>
  BY DEF W!Tick, W!service
<1>3. /\ ages \in AgeType
      /\ ages.pin \in [Tools -> W!Ages(span)] /\ ages.shut \in W!Ages(span)
      /\ ages.guard \in [Tools -> W!Ages(DecisionTTL)] /\ ages.clean \in [Tools -> W!Ages(DecisionTTL - 1)]
      /\ \A t \in Tools : ages.pin[t] = None <=> ~W!Pinned(row[t])
      /\ fail = "open" => ages.shut = None
      /\ \A t \in Tools : effectOf[t] # "unless_tainted" => ages.guard[t] = None
  BY DEF WrapperInv, ServiceInv, AgeType
<1>4. span \in Nat /\ DecisionTTL \in Nat
  OBVIOUS
<1>5. \A t \in Tools : /\ pin2[t] \in W!Ages(span) /\ (pin2[t] = None <=> ages.pin[t] = None)
                       /\ ages.pin[t] # None => pin2[t] \in Nat /\ pin2[t] <= ages.pin[t] + 1
  <2> HIDE DEF span
  <2> QED BY <1>3, <1>4, OlderIs
<1>6. /\ shut2 \in W!Ages(span) /\ (shut2 = None <=> ages.shut = None)
      /\ ages.shut # None => shut2 \in Nat /\ shut2 <= ages.shut + 1
  <2> HIDE DEF span
  <2> QED BY <1>3, <1>4, OlderIs
<1>7. \A t \in Tools : /\ guard2[t] \in W!Ages(DecisionTTL) /\ (guard2[t] = None <=> ages.guard[t] = None)
                       /\ ages.guard[t] # None => guard2[t] \in Nat /\ guard2[t] <= ages.guard[t] + 1
  BY <1>3, <1>4, OlderIs
<1>8. \A t \in Tools :
        /\ clean2[t] \in W!Ages(DecisionTTL - 1)
        /\ ages.clean[t] # None /\ ages.clean[t] # DecisionTTL - 1 => clean2[t] = ages.clean[t] + 1
  BY <1>3 DEF W!Older, W!Ages
<1>9. /\ now \in AgeType /\ now.pin = pin2 /\ now.shut = shut2 /\ now.guard = guard2 /\ now.clean = clean2
  <2>1. /\ pin2 \in [Tools -> W!Ages(span)] /\ guard2 \in [Tools -> W!Ages(DecisionTTL)]
        /\ clean2 \in [Tools -> W!Ages(DecisionTTL - 1)]
    BY <1>5, <1>7, <1>8
  <2> HIDE DEF pin2, guard2, clean2, shut2
  <2> QED BY <1>6, <2>1 DEF AgeType
<1> HIDE DEF now, pin2, shut2, guard2, clean2
<1>10. ServiceInv'
  BY <1>1, <1>2, <1>3, <1>5, <1>6, <1>7, <1>9 DEF WrapperInv, ServiceInv
<1>11. CacheInv'
  <2>1. cache \in CacheType /\ \A t \in Tools :
          /\ cache[t].effect # "none" => cache[t].left >= 1
          /\ Allowed(cache[t], ages.guard[t], ages.clean[t])
    BY DEF WrapperInv, CacheInv, Allowed
  <2>2. ASSUME NEW t \in Tools
        PROVE  /\ cache'[t] \in [effect : {"none", "allow", "deny"}, left : 0 .. DecisionTTL]
               /\ cache'[t].effect # "none" => cache'[t].left >= 1
               /\ Allowed(cache'[t], guard2[t], clean2[t])
    <3> DEFINE e == cache[t]
    <3>1. e \in [effect : {"none", "allow", "deny"}, left : 0 .. DecisionTTL]
          /\ Allowed(e, ages.guard[t], ages.clean[t])
      BY <2>1 DEF CacheType
    <3>2. cache'[t] = IF e.left <= 1 THEN W!NoEntry ELSE [e EXCEPT !.left = @ - 1]
      BY <1>2
    <3> HIDE DEF e
    <3>3. CASE e.left <= 1
      BY <3>2, <3>3 DEF W!NoEntry, Allowed
    <3>4. CASE ~(e.left <= 1)
      <4>1. /\ e.left \in Nat /\ e.left > 1 /\ e.left <= DecisionTTL
        BY <3>1, <3>4
      <4> DEFINE f == [e EXCEPT !.left = @ - 1]
      <4>2. f \in [effect : {"none", "allow", "deny"}, left : 0 .. DecisionTTL]
            /\ f.effect = e.effect /\ f.left = e.left - 1
        BY <3>1, <4>1
      <4>3. cache'[t] = f
        BY <3>2, <3>4
      <4> HIDE DEF f
      <4>4. Allowed(f, guard2[t], clean2[t])
        <5> SUFFICES ASSUME e.effect = "allow"
                     PROVE  \/ guard2[t] = None \/ guard2[t] + f.left <= DecisionTTL
                            \/ clean2[t] # None /\ clean2[t] + f.left <= DecisionTTL
          BY <4>2 DEF Allowed
        <5>1. CASE ages.guard[t] = None
          BY <1>7, <5>1
        <5>2. CASE ages.guard[t] # None /\ ages.guard[t] + e.left <= DecisionTTL
          <6>1. ages.guard[t] \in Nat
            BY <1>3, <5>2 DEF W!Ages
          <6> QED BY <1>7, <4>1, <4>2, <5>2, <6>1
        <5>3. CASE ages.clean[t] # None /\ ages.clean[t] + e.left <= DecisionTTL
          <6>1. ages.clean[t] \in Nat
            BY <1>3, <5>3 DEF W!Ages
          <6>2. ages.clean[t] # DecisionTTL - 1
            BY <4>1, <5>3, <6>1
          <6>3. clean2[t] = ages.clean[t] + 1
            BY <1>8, <5>3, <6>2
          <6> QED BY <4>1, <4>2, <5>3, <6>1, <6>3
        <5> QED BY <3>1, <5>1, <5>2, <5>3 DEF Allowed
      <4>5. f.left >= 1
        BY <4>1, <4>2
      <4> QED BY <4>2, <4>3, <4>4, <4>5
    <3> QED BY <3>3, <3>4
  <2>3. cache' \in CacheType
    BY <1>2, <2>2 DEF CacheType
  <2> QED BY <1>1, <1>9, <2>2, <2>3 DEF CacheInv, Allowed
<1>12. ASSUME NEW x, NEW most \in Nat, Behind(x, most, ages.pin, ages.shut)
       PROVE  Behind(x, most + 1, pin2, shut2)
  <2>1. \A t \in Tools : ages.pin[t] \in Nat \cup {None}
    BY <1>3 DEF W!Ages
  <2>2. ages.shut \in Nat \cup {None}
    BY <1>3 DEF W!Ages
  <2>3. ASSUME NEW t \in Tools \ x.denied PROVE pin2[t] = None \/ pin2[t] <= most + 1
    BY <1>5, <1>12, <2>1, <2>3 DEF Behind
  <2>4. x.fail = "open" => shut2 = None \/ shut2 <= most + 1
    BY <1>6, <1>12, <2>2 DEF Behind
  <2> QED BY <2>3, <2>4 DEF Behind
<1>13. ConfigInv'
  <2>1. config \in W!ConfigType /\ config.denied \subseteq config.tools
        /\ config.age \in Nat /\ config.age <= ConfigTTL
        /\ (config.known => Behind(config, Timeout + config.age, ages.pin, ages.shut))
    BY DEF WrapperInv, ConfigInv, W!ConfigType
  <2> DEFINE older == W!Older(config.age, ConfigTTL)
             m == [config EXCEPT !.age = older]
  <2>2. /\ older \in Nat /\ older <= ConfigTTL
        /\ older = config.age + 1 \/ (older = ConfigTTL /\ config.age = ConfigTTL)
    BY <2>1 DEF W!Older
  <2>3. older \in 0 .. ConfigTTL + Timeout
    BY <2>2
  <2>4. config' = m
    BY <1>2
  <2> HIDE DEF older
  <2>5. /\ m \in W!ConfigType /\ m.age = older /\ m.denied = config.denied /\ m.tools = config.tools
        /\ m.fail = config.fail /\ m.known = config.known
    BY <2>1, <2>3 DEF W!ConfigType
  <2> HIDE DEF m
  <2>6. config.known => Behind(m, Timeout + older, pin2, shut2)
    <3> SUFFICES ASSUME config.known PROVE Behind(m, Timeout + older, pin2, shut2)
      OBVIOUS
    <3>1. CASE older = config.age + 1
      <4>1. Behind(config, (Timeout + config.age) + 1, pin2, shut2)
        BY <1>12, <2>1
      <4>2. (Timeout + config.age) + 1 = Timeout + older
        BY <2>1, <3>1
      <4> QED BY <2>5, <4>1, <4>2 DEF Behind
    <3>2. CASE older = ConfigTTL
      <4>1. \A t \in Tools : pin2[t] = None \/ pin2[t] <= Timeout + older
        BY <1>5, <3>2 DEF W!Ages
      <4>2. shut2 = None \/ shut2 <= Timeout + older
        BY <1>6, <3>2 DEF W!Ages
      <4> QED BY <4>1, <4>2 DEF Behind
    <3> QED BY <2>2, <3>1, <3>2
  <2> QED BY <1>1, <1>9, <2>1, <2>2, <2>4, <2>5, <2>6 DEF ConfigInv
<1>14. CallsInv'
  <2>1. ASSUME NEW c \in Calls PROVE CallInv(call'[c], pin2, shut2)
    <3> DEFINE k == call[c]
               h == [k.held EXCEPT !.age = @ + 1]
               m == [k EXCEPT !.held = h]
    <3>1. CallInv(k, ages.pin, ages.shut) /\ k \in W!CallType /\ k.held \in W!ConfigType
      BY CallFields DEF WrapperInv, CallsInv, CallInv
    <3>2. CASE k.held = W!Unknown
      <4>1. call'[c] = k
        BY <1>2, <3>2
      <4> QED BY <3>1, <3>2, <4>1 DEF CallInv
    <3>3. CASE k.held # W!Unknown
      <4>1. call'[c] = m
        BY <1>2, <3>3
      <4>2. k.held.age \in Nat /\ k.held.age < Timeout
        BY <1>2, <3>1, <3>3 DEF W!ConfigType
      <4> HIDE DEF k
      <4>3. /\ h \in W!ConfigType /\ h.age = k.held.age + 1 /\ h.denied = k.held.denied
            /\ h.tools = k.held.tools /\ h.fail = k.held.fail /\ h.known = k.held.known
        BY <3>1, <4>2 DEF W!ConfigType
      <4> HIDE DEF h
      <4>4. /\ m \in W!CallType /\ m.held = h /\ m.pc = k.pc /\ m.tool = k.tool /\ m.pin = k.pin
            /\ m.stale = k.stale /\ m.open = k.open /\ m.shut = k.shut /\ m.via = k.via
            /\ m.mapped = k.mapped /\ m.tainted = k.tainted /\ m.guard = k.guard /\ m.clean = k.clean
        BY <3>1, <4>3 DEF W!CallType
      <4> HIDE DEF m
      <4>5. Behind(h, h.age, pin2, shut2) /\ h.age <= Timeout
        <5>1. Behind(k.held, k.held.age, ages.pin, ages.shut)
          BY <3>1, <3>3 DEF CallInv
        <5>2. Behind(k.held, k.held.age + 1, pin2, shut2)
          BY <1>12, <4>2, <5>1
        <5> QED BY <4>2, <4>3, <5>2 DEF Behind
      <4>6. CallInv(m, pin2, shut2)
        BY <3>1, <3>3, <4>3, <4>4, <4>5 DEF CallInv
      <4> QED BY <4>1, <4>6
    <3> QED BY <3>2, <3>3
  <2>2. call' = [c \in Calls |-> call'[c]]
    BY <1>2
  <2> QED BY <1>1, <1>9, <2>1, <2>2 DEF CallsInv
<1> QED BY <1>10, <1>11, <1>13, <1>14 DEF WrapperInv

(* So each step of the wrapper keeps what holds of it.                     *)
LEMMA WrapperKept == WrapperInv /\ W!Next => WrapperInv'
BY StartKept, ReadCachedKept, AskKept, ArriveKept, AskFailsKept, CheckSidecarKept, CheckServiceKept,
   CheckFallbackKept, ReturnKept, ListKept, ReconnectKept, UpdateToolKept, RestartKept, OfferKept,
   UpdateServerKept, SetPolicyKept, TickKept
DEF W!Next

(* And what the run checks of the wrapper holds.                           *)
LEMMA WrapperSafe == WrapperInv => W!TypeOK /\ W!PinBounded /\ W!ClosedBounded /\ W!TaintBounded
<1> SUFFICES ASSUME WrapperInv PROVE W!TypeOK /\ W!PinBounded /\ W!ClosedBounded /\ W!TaintBounded
  OBVIOUS
<1>1. \A c \in Calls : CallInv(call[c], ages.pin, ages.shut)
  BY DEF WrapperInv, CallsInv
<1>2. W!TypeOK
  <2>1. call \in [Calls -> W!CallType]
    BY DEF WrapperInv, CallsInv, CallInv
  <2>2. ages \in [pin : [Tools -> W!Ages(W!ConfigSpan)], shut : W!Ages(W!ConfigSpan),
                  guard : [Tools -> W!Ages(DecisionTTL)], clean : [Tools -> W!Ages(DecisionTTL - 1)]]
    BY WrapperNumbers DEF WrapperInv, ServiceInv, AgeType
  <2> QED BY <2>1, <2>2 DEF WrapperInv, ServiceInv, CacheInv, ConfigInv, CacheType, W!TypeOK
<1>3. W!PinBounded
  BY <1>1 DEF CallInv, W!PinBounded
<1>4. W!ClosedBounded
  BY <1>1 DEF CallInv, W!ClosedBounded, W!Forwarded
<1>5. W!TaintBounded
  BY <1>1 DEF CallInv, W!TaintBounded, W!Forwarded
<1> QED BY <1>2, <1>3, <1>4, <1>5

(* A part that does not move stays as it is.                               *)
LEMMA IdleGates ==
  /\ UNCHANGED sdkVars => (SdkInv => SdkInv')
  /\ UNCHANGED wrapperVars => (WrapperInv => WrapperInv')
  /\ UNCHANGED proxyVars => (ProxyInv => ProxyInv')
<1>1. UNCHANGED sdkVars => (SdkInv => SdkInv')
  BY DEF sdkVars, SdkInv, ClientsInv, CachesInv, ChecksInv
<1>2. UNCHANGED wrapperVars => (WrapperInv => WrapperInv')
  BY DEF wrapperVars, WrapperInv, ServiceInv, CacheInv, ConfigInv, CallsInv
<1>3. UNCHANGED proxyVars => (ProxyInv => ProxyInv')
  BY DEF proxyVars, ProxyInv, X!InspectedIsObeyed, X!InRequest, X!Last, Heard, Kept
<1> QED BY <1>1, <1>2, <1>3

(* The clients, the wrapper and the proxy.                                 *)
GatesInv ==
  /\ part = "sdk" => SdkInv
  /\ part = "wrapper" => WrapperInv
  /\ part = "proxy" => ProxyInv

(* Each part starts as it should.                                          *)
LEMMA GatesStart == Init => GatesInv
BY SdkStarts, WrapperStarts, ProxyStarts DEF Init, GatesInv

(* Each step moves one part.                                               *)
LEMMA GatesKept == GatesInv /\ [Next]_vars => GatesInv'
<1> SUFFICES ASSUME GatesInv, [Next]_vars PROVE GatesInv'
  OBVIOUS
<1>1. CASE UNCHANGED vars
  BY <1>1, IdleGates DEF vars, GatesInv
<1>2. CASE Next
  <2>1. part' = part /\ (part = "sdk" => K!Next) /\ (part = "wrapper" => W!Next) /\ (part = "proxy" => X!Next)
    BY <1>2 DEF Next
  <2> QED BY <2>1, SdkKept, WrapperKept, ProxyKept DEF GatesInv
<1> QED BY <1>1, <1>2

(* What clients, wrapper and proxy let through is bounded and explained,   *)
(* for every lifetime of their caches, every number of calls, tools and    *)
(* policies.                                                               *)
THEOREM GatesStay == Spec => []GatesHold
<1>1. GatesInv => GatesHold
  BY SdkSafe, WrapperSafe, ProxySafe DEF GatesInv, GatesHold
<1> QED BY GatesStart, GatesKept, <1>1, PTL DEF Spec

-----------------------------------------------------------------------------
(* What holds of a request: an edit has read what the policy is, unless it *)
(* is stale; an unbinding names a binding that the log made, and that is   *)
(* gone once it is deleted; an installation has read the count, unless it  *)
(* is stale.                                                               *)
EditInv(k) ==
  /\ k.policy \in PolicyIds /\ policy[k.policy] # None
  /\ k.loaded \in P!Body /\ k.asked \in P!Body
  /\ k.stale \/ policy[k.policy] = k.loaded

UnbindInv(k) ==
  /\ k.binding \in chain.made
  /\ k.pc # "loaded" => bound[k.binding] = None

RequestInv(k) ==
  /\ k \in P!ReqType
  /\ k.pc = "numbered" => k.kind \in {"update", "rollback"}
  /\ k.pc = "listed" => k.kind = "install"
  /\ k.pc \in {"unbound", "cut"} => k.kind = "unbind"
  /\ k.pc \in {"loaded", "numbered"} /\ k.kind \in {"update", "rollback"} => EditInv(k)
  /\ k.pc \in {"loaded", "unbound", "cut"} /\ k.kind = "unbind" => UnbindInv(k)
  /\ k.pc \in {"loaded", "listed"} /\ k.kind = "install" => k.stale \/ k.seen = count

RequestsInv ==
  /\ req = [r \in Requests |-> req[r]]
  /\ \A r \in Requests : RequestInv(req[r])

(* The rows: slugs are unique, and what nobody has written was not told.   *)
RulesInv ==
  /\ policy \in [PolicyIds -> P!Body \cup {None}]
  /\ \A p, q \in PolicyIds :
       p # q /\ policy[p] # None /\ policy[q] # None => policy[p].slug # policy[q].slug
  /\ versions \in [PolicyIds -> Seq(P!Body)]
  /\ told \in [PolicyIds -> P!Body \cup {None}] /\ mixed \in [PolicyIds -> BOOLEAN]
  /\ \A p \in PolicyIds : policy[p] = None => told[p] = None
  /\ P!LiveAsTold

(* The bindings: what is bound was made, what ended binds nothing.         *)
LinksInv ==
  /\ bound \in [Bindings -> PolicyIds \cup {None}]
  /\ chain \in [made : SUBSET Bindings, ended : SUBSET Bindings]
  /\ chain.ended \subseteq chain.made
  /\ \A b \in Bindings : bound[b] # None => b \in chain.made
  /\ P!BindingsExplained

PoliciesInv ==
  /\ mix \in PolicyMixes /\ count \in Nat /\ installs \in Nat
  /\ RulesInv /\ LinksInv /\ RequestsInv

(* The bodies a template holds.                                            *)
Offered == [slug : PolicySlugs, effect : {"deny"}]

(* The constants of the policies, and the template's bodies.               *)
LEMMA PolicyConstants ==
  /\ First \in PolicyIds /\ None \notin P!Body /\ None \notin PolicyIds /\ None \notin Bindings
  /\ Offered \subseteq P!Body
  /\ \A b, d \in Offered : b.slug = d.slug => b = d
BY EnforcementAssumption DEF P!PoliciesAssumption, Offered

(* A request that has not begun, and one that is over.                     *)
LEMMA NewIs ==
  LET over == [P!New EXCEPT !.pc = "done"] IN
  /\ P!New \in P!ReqType /\ P!New.pc = "new" /\ RequestInv(P!New)
  /\ over \in P!ReqType /\ over.pc = "done" /\ RequestInv(over)
<1> DEFINE over == [P!New EXCEPT !.pc = "done"]
<1>1. P!New \in P!ReqType /\ P!New.pc = "new"
  BY DEF P!New, P!ReqType
<1>2. over \in P!ReqType /\ over.pc = "done"
  BY <1>1 DEF P!ReqType
<1> HIDE DEF over
<1>3. RequestInv(P!New) /\ RequestInv(over)
  BY <1>1, <1>2 DEF RequestInv
<1> QED BY <1>1, <1>2, <1>3 DEF over

(* There is one policy, nothing is bound, and nobody has asked for         *)
(* anything.                                                               *)
LEMMA PoliciesStart == P!Init => PoliciesInv
<1> SUFFICES ASSUME P!Init PROVE PoliciesInv
  OBVIOUS
<1> USE PolicyConstants
<1>1. PICK b \in P!Body : policy = [p \in PolicyIds |-> IF p = First THEN b ELSE None]
  BY DEF P!Init
<1>2. /\ versions = [p \in PolicyIds |-> <<>>] /\ told = policy
      /\ mixed = [p \in PolicyIds |-> FALSE]
  BY DEF P!Init
<1>3. RulesInv
  <2>1. <<>> \in Seq(P!Body)
    OBVIOUS
  <2> QED BY <1>1, <1>2, <2>1 DEF RulesInv, P!LiveAsTold
<1>4. LinksInv
  BY DEF P!Init, LinksInv, P!BindingsExplained
<1>5. RequestsInv
  BY NewIs DEF P!Init, RequestsInv
<1> QED BY <1>3, <1>4, <1>5 DEF P!Init, PoliciesInv

-----------------------------------------------------------------------------
(* One request moves, and nothing but it.                                  *)
LEMMA OneRequest ==
  ASSUME PoliciesInv, NEW r \in Requests, NEW m, RequestInv(m), req' = [req EXCEPT ![r] = m],
         UNCHANGED <<mix, policy, versions, told, mixed, bound, chain, count, installs>>,
         \/ req[r].pc \notin {"unbound", "cut"}
         \/ m.pc \in {"unbound", "cut"} /\ m.binding = req[r].binding
  PROVE  PoliciesInv'
<1>1. req = [s \in Requests |-> req[s]] /\ \A s \in Requests : RequestInv(req[s])
  BY DEF PoliciesInv, RequestsInv
<1>2. req' = [s \in Requests |-> req'[s]] /\ \A s \in Requests : req'[s] = IF s = r THEN m ELSE req[s]
  BY <1>1
<1>3. \A s \in Requests : RequestInv(req'[s])
  BY <1>1, <1>2
<1>4. RequestsInv'
  BY <1>2, <1>3 DEF RequestsInv, RequestInv, EditInv, UnbindInv
<1>5. RulesInv'
  BY DEF PoliciesInv, RulesInv, P!LiveAsTold, P!Exists
<1>6. P!BindingsExplained'
  BY <1>2 DEF PoliciesInv, LinksInv, P!BindingsExplained
<1>7. LinksInv'
  BY <1>6 DEF PoliciesInv, LinksInv
<1> QED BY <1>4, <1>5, <1>7 DEF PoliciesInv

(* A request that fails leaves nothing.                                    *)
LEMMA AbortKept ==
  ASSUME PoliciesInv, NEW r \in Requests, P!Abort(r)
  PROVE  PoliciesInv'
<1>1. /\ req' = [req EXCEPT ![r] = [P!New EXCEPT !.pc = "done"]]
      /\ UNCHANGED <<mix, policy, versions, told, mixed, bound, chain, count, installs>>
      /\ req[r].pc \notin {"unbound", "cut"}
  BY DEF P!Abort, P!Finish, P!rules, P!links, P!shop
<1> QED BY <1>1, NewIs, OneRequest

(* An edit loads the policy as it is.                                      *)
LEMMA LoadKept ==
  ASSUME PoliciesInv, NEW r \in Requests, NEW p \in PolicyIds, NEW b \in P!Body, P!Load(r, p, b)
  PROVE  PoliciesInv'
<1> USE PolicyConstants
<1> DEFINE m == [P!New EXCEPT !.pc = "loaded", !.kind = "update", !.policy = p,
                              !.loaded = policy[p], !.asked = b]
<1>1. /\ req' = [req EXCEPT ![r] = m] /\ req[r].pc = "new" /\ policy[p] # None
      /\ UNCHANGED <<mix, policy, versions, told, mixed, bound, chain, count, installs>>
  BY DEF P!Load, P!rules, P!links, P!shop, P!Exists
<1>2. policy[p] \in P!Body
  BY <1>1 DEF PoliciesInv, RulesInv
<1>3. P!New \in P!ReqType
  BY NewIs
<1>4. /\ m \in P!ReqType /\ m.pc = "loaded" /\ m.kind = "update" /\ m.policy = p
      /\ m.loaded = policy[p] /\ m.asked = b
  BY <1>2, <1>3 DEF P!ReqType, P!Kinds
<1> HIDE DEF m
<1>5. RequestInv(m)
  BY <1>1, <1>2, <1>4 DEF RequestInv, EditInv
<1> QED BY <1>1, <1>5, OneRequest

(* A rollback loads it and one of its versions.                            *)
LEMMA LoadVersionKept ==
  ASSUME PoliciesInv, NEW r \in Requests, NEW p \in PolicyIds, NEW v, P!LoadVersion(r, p, v)
  PROVE  PoliciesInv'
<1> USE PolicyConstants
<1> DEFINE m == [P!New EXCEPT !.pc = "loaded", !.kind = "rollback", !.policy = p,
                              !.loaded = policy[p], !.asked = versions[p][v]]
<1>1. /\ req' = [req EXCEPT ![r] = m] /\ req[r].pc = "new" /\ policy[p] # None
      /\ v \in DOMAIN versions[p]
      /\ UNCHANGED <<mix, policy, versions, told, mixed, bound, chain, count, installs>>
  BY DEF P!LoadVersion, P!rules, P!links, P!shop, P!Exists
<1>2. policy[p] \in P!Body /\ versions[p] \in Seq(P!Body)
  BY <1>1 DEF PoliciesInv, RulesInv
<1>3. P!New \in P!ReqType /\ versions[p][v] \in P!Body
  BY <1>1, <1>2, NewIs
<1>4. /\ m \in P!ReqType /\ m.pc = "loaded" /\ m.kind = "rollback" /\ m.policy = p
      /\ m.loaded = policy[p] /\ m.asked = versions[p][v]
  BY <1>2, <1>3 DEF P!ReqType, P!Kinds
<1> HIDE DEF m
<1>5. RequestInv(m)
  BY <1>1, <1>2, <1>3, <1>4 DEF RequestInv, EditInv
<1> QED BY <1>1, <1>5, OneRequest

(* It takes the next number.                                               *)
LEMMA NextVersionKept ==
  ASSUME PoliciesInv, NEW r \in Requests, P!NextVersion(r)
  PROVE  PoliciesInv'
<1> DEFINE k == req[r]
           m == [k EXCEPT !.pc = "numbered", !.number = Len(versions[k.policy]) + 1]
<1>1. RequestInv(k) /\ k.pc = "loaded" /\ k.kind \in {"update", "rollback"} /\ k \in P!ReqType
  BY DEF PoliciesInv, RequestsInv, RequestInv, P!NextVersion
<1>2. EditInv(k)
  BY <1>1 DEF RequestInv
<1>3. Len(versions[k.policy]) + 1 \in Nat
  BY <1>2 DEF EditInv, PoliciesInv, RulesInv
<1>4. /\ req' = [req EXCEPT ![r] = m]
      /\ UNCHANGED <<mix, policy, versions, told, mixed, bound, chain, count, installs>>
  <2>1. req = [s \in Requests |-> req[s]]
    BY DEF PoliciesInv, RequestsInv
  <2> QED BY <2>1 DEF P!NextVersion, P!rules, P!links, P!shop
<1> HIDE DEF k
<1>5. /\ m \in P!ReqType /\ m.pc = "numbered" /\ m.kind = k.kind /\ m.policy = k.policy
      /\ m.loaded = k.loaded /\ m.asked = k.asked /\ m.stale = k.stale
  BY <1>1, <1>3 DEF P!ReqType
<1> HIDE DEF m
<1>6. RequestInv(m)
  BY <1>1, <1>2, <1>5 DEF RequestInv, EditInv
<1>7. req[r].pc \notin {"unbound", "cut"}
  BY <1>1 DEF k
<1> QED BY <1>4, <1>6, <1>7, OneRequest

(* An unbinding finds a binding, which the log has made.                   *)
LEMMA UnbindReadKept ==
  ASSUME PoliciesInv, NEW r \in Requests, NEW b \in Bindings, P!UnbindRead(r, b)
  PROVE  PoliciesInv'
<1> DEFINE m == [P!New EXCEPT !.pc = "loaded", !.kind = "unbind", !.binding = b]
<1>1. /\ req' = [req EXCEPT ![r] = m] /\ req[r].pc = "new" /\ bound[b] # None
      /\ UNCHANGED <<mix, policy, versions, told, mixed, bound, chain, count, installs>>
  BY DEF P!UnbindRead, P!rules, P!links, P!shop
<1>2. P!New \in P!ReqType
  BY NewIs
<1>3. m \in P!ReqType /\ m.pc = "loaded" /\ m.kind = "unbind" /\ m.binding = b
  BY <1>2 DEF P!ReqType, P!Kinds
<1> HIDE DEF m
<1>4. RequestInv(m)
  BY <1>1, <1>3 DEF RequestInv, UnbindInv, PoliciesInv, LinksInv
<1> QED BY <1>1, <1>4, OneRequest

(* It is cut off before it is recorded.                                    *)
LEMMA UnbindUnrecordedKept ==
  ASSUME PoliciesInv, NEW r \in Requests, P!UnbindUnrecorded(r)
  PROVE  PoliciesInv'
<1> DEFINE k == req[r]
           m == [k EXCEPT !.pc = "cut"]
<1>1. RequestInv(k) /\ k.pc = "unbound" /\ k \in P!ReqType
  BY DEF PoliciesInv, RequestsInv, RequestInv, P!UnbindUnrecorded
<1>2. /\ req' = [req EXCEPT ![r] = m]
      /\ UNCHANGED <<mix, policy, versions, told, mixed, bound, chain, count, installs>>
  BY DEF P!UnbindUnrecorded, P!rules, P!links, P!shop
<1> HIDE DEF k
<1>3. /\ m \in P!ReqType /\ m.pc = "cut" /\ m.kind = k.kind /\ m.binding = k.binding
  BY <1>1 DEF P!ReqType
<1> HIDE DEF m
<1>4. RequestInv(m)
  BY <1>1, <1>3 DEF RequestInv, UnbindInv
<1>5. m.binding = req[r].binding
  BY <1>3 DEF k
<1> QED BY <1>2, <1>3, <1>4, <1>5, OneRequest

(* An installation reads the count.                                        *)
LEMMA InstallReadKept ==
  ASSUME PoliciesInv, NEW r \in Requests, P!InstallRead(r)
  PROVE  PoliciesInv'
<1> DEFINE m == [P!New EXCEPT !.pc = "loaded", !.kind = "install", !.seen = count]
<1>1. /\ req' = [req EXCEPT ![r] = m] /\ req[r].pc = "new" /\ count \in Nat
      /\ UNCHANGED <<mix, policy, versions, told, mixed, bound, chain, count, installs>>
  BY DEF P!InstallRead, P!rules, P!links, P!shop, PoliciesInv
<1>2. P!New \in P!ReqType
  BY NewIs
<1>3. m \in P!ReqType /\ m.pc = "loaded" /\ m.kind = "install" /\ m.seen = count
  BY <1>1, <1>2 DEF P!ReqType, P!Kinds
<1> HIDE DEF m
<1>4. RequestInv(m)
  BY <1>3 DEF RequestInv
<1> QED BY <1>1, <1>4, OneRequest

(* It reads the slugs in use.                                              *)
LEMMA InstallSlugsKept ==
  ASSUME PoliciesInv, NEW r \in Requests, P!InstallSlugs(r)
  PROVE  PoliciesInv'
<1> DEFINE k == req[r]
           m == [k EXCEPT !.pc = "listed", !.slugs = P!Used]
<1>1. RequestInv(k) /\ k.pc = "loaded" /\ k.kind = "install" /\ k \in P!ReqType
  BY DEF PoliciesInv, RequestsInv, RequestInv, P!InstallSlugs
<1>2. P!Used \subseteq PolicySlugs
  BY PolicyConstants DEF P!Used, P!Exists, P!Body, PoliciesInv, RulesInv
<1>3. /\ req' = [req EXCEPT ![r] = m]
      /\ UNCHANGED <<mix, policy, versions, told, mixed, bound, chain, count, installs>>
  <2>1. req = [s \in Requests |-> req[s]]
    BY DEF PoliciesInv, RequestsInv
  <2> QED BY <2>1 DEF P!InstallSlugs, P!rules, P!links, P!shop
<1>4. k.pc \notin {"unbound", "cut"}
  BY <1>1
<1> HIDE DEF k
<1>5. m \in P!ReqType /\ m.pc = "listed" /\ m.kind = "install" /\ m.stale = k.stale /\ m.seen = k.seen
  BY <1>1, <1>2 DEF P!ReqType
<1> HIDE DEF m
<1>6. RequestInv(m)
  BY <1>1, <1>5 DEF RequestInv
<1> QED BY <1>3, <1>4, <1>6, OneRequest DEF k

(* A request stands when the policies that exist, the bindings and the     *)
(* count do.                                                               *)
LEMMA StillRequest ==
  ASSUME NEW k, RequestInv(k),
         \A p \in PolicyIds : policy[p] # None => policy'[p] = policy[p],
         UNCHANGED <<bound, chain, count>>
  PROVE  RequestInv(k)'
BY DEF RequestInv, EditInv, UnbindInv

(* A policy is created, under a slug that is free.                         *)
LEMMA CreatePolicyKept ==
  ASSUME PoliciesInv, NEW r \in Requests, NEW p \in PolicyIds, NEW b \in P!Body, P!CreatePolicy(r, p, b)
  PROVE  PoliciesInv'
<1> USE PolicyConstants
<1> DEFINE over == [P!New EXCEPT !.pc = "done"]
<1>1. /\ req' = [req EXCEPT ![r] = over] /\ req[r].pc = "new" /\ policy[p] = None
      /\ UNCHANGED <<mix, bound, chain, count, installs>>
  BY DEF P!CreatePolicy, P!Finish, P!links, P!shop, P!Exists
<1>2. over.pc = "done" /\ RequestInv(over)
  BY NewIs
<1> HIDE DEF over
<1>3. CASE P!Taken(b.slug, p)
  <2>1. UNCHANGED <<policy, versions, told, mixed>>
    BY <1>3 DEF P!CreatePolicy, P!rules
  <2> QED BY <1>1, <1>2, <2>1, OneRequest
<1>4. CASE ~P!Taken(b.slug, p)
  <2>1. /\ policy' = [policy EXCEPT ![p] = b] /\ told' = [told EXCEPT ![p] = b]
        /\ mixed' = [mixed EXCEPT ![p] = FALSE] /\ versions' = versions
    BY <1>4 DEF P!CreatePolicy
  <2>2. /\ policy \in [PolicyIds -> P!Body \cup {None}] /\ told \in [PolicyIds -> P!Body \cup {None}]
        /\ mixed \in [PolicyIds -> BOOLEAN]
    BY DEF PoliciesInv, RulesInv
  <2>3. \A q \in PolicyIds : /\ policy'[q] = IF q = p THEN b ELSE policy[q]
                             /\ told'[q] = IF q = p THEN b ELSE told[q]
                             /\ mixed'[q] = IF q = p THEN FALSE ELSE mixed[q]
    BY <2>1, <2>2
  <2>4. \A q \in PolicyIds : q # p /\ policy[q] # None => policy[q].slug # b.slug
    BY <1>4 DEF P!Taken, P!Exists
  <2>5. RulesInv'
    <3>1. /\ policy' \in [PolicyIds -> P!Body \cup {None}] /\ told' \in [PolicyIds -> P!Body \cup {None}]
          /\ mixed' \in [PolicyIds -> BOOLEAN]
      BY <2>1, <2>2
    <3>2. ASSUME NEW q \in PolicyIds, NEW s \in PolicyIds, q # s, policy'[q] # None, policy'[s] # None
          PROVE  policy'[q].slug # policy'[s].slug
      <4>1. CASE q = p
        BY <2>3, <2>4, <3>2, <4>1
      <4>2. CASE s = p
        BY <2>3, <2>4, <3>2, <4>2
      <4>3. CASE q # p /\ s # p
        <5>1. policy'[q] = policy[q] /\ policy'[s] = policy[s]
          BY <2>3, <4>3
        <5>2. policy[q] # None /\ policy[s] # None
          BY <3>2, <5>1
        <5>3. policy[q].slug # policy[s].slug
          BY <3>2, <5>2 DEF PoliciesInv, RulesInv
        <5> QED BY <5>1, <5>3
      <4> QED BY <4>1, <4>2, <4>3
    <3>3. P!LiveAsTold'
      BY <2>3 DEF P!LiveAsTold, P!Exists, PoliciesInv, RulesInv
    <3> QED BY <2>1, <2>3, <3>1, <3>2, <3>3 DEF PoliciesInv, RulesInv
  <2>6. RequestsInv'
    <3>1. req = [s \in Requests |-> req[s]] /\ \A s \in Requests : RequestInv(req[s])
      BY DEF PoliciesInv, RequestsInv
    <3>2. req' = [s \in Requests |-> req'[s]] /\ \A s \in Requests : req'[s] = IF s = r THEN over ELSE req[s]
      BY <1>1, <3>1
    <3>3. \A q \in PolicyIds : policy[q] # None => policy'[q] = policy[q]
      BY <1>1, <2>3
    <3>4. \A k : RequestInv(k) => RequestInv(k)'
      BY <1>1, <3>3, StillRequest
    <3>6. \A s \in Requests : \E k : req'[s] = k /\ RequestInv(k)
      BY <1>2, <3>1, <3>2
    <3>7. \A s \in Requests : \E k : req'[s] = k /\ RequestInv(k)'
      BY <3>4, <3>6
    <3> QED BY <3>2, <3>7 DEF RequestsInv, RequestInv, EditInv, UnbindInv
  <2>7. P!BindingsExplained'
    <3>1. req = [s \in Requests |-> req[s]]
      BY DEF PoliciesInv, RequestsInv
    <3>2. \A s \in Requests : req'[s] = IF s = r THEN over ELSE req[s]
      BY <1>1, <3>1
    <3> QED BY <1>1, <3>2 DEF P!BindingsExplained, PoliciesInv, LinksInv
  <2> QED BY <1>1, <2>5, <2>6, <2>7 DEF PoliciesInv, LinksInv
<1> QED BY <1>3, <1>4

(* What an edit writes: all it asks for, of a policy that is as it read.   *)
LEMMA WrittenIs ==
  ASSUME NEW k, k.loaded \in P!Body, k.asked \in P!Body, policy[k.policy] \in P!Body
  PROVE  /\ P!Written(k) \in P!Body
         /\ policy[k.policy] = k.loaded => P!Written(k) = k.asked
<1> DEFINE w == [f \in {"slug", "effect"} |-> IF k.asked[f] = k.loaded[f] THEN policy[k.policy][f]
                                              ELSE k.asked[f]]
           old == k.loaded
           asked == k.asked
           live == policy[k.policy]
<1>1. P!Written(k) = w
  BY DEF P!Written
<1>2. /\ w["slug"] = IF asked["slug"] = old["slug"] THEN live["slug"] ELSE asked["slug"]
      /\ w["effect"] = IF asked["effect"] = old["effect"] THEN live["effect"] ELSE asked["effect"]
      /\ w = [f \in {"slug", "effect"} |-> w[f]]
  OBVIOUS
<1>3. old \in P!Body /\ asked \in P!Body /\ live \in P!Body
  OBVIOUS
<1> HIDE DEF w, old, asked, live
<1>4. w = [slug |-> w["slug"], effect |-> w["effect"]]
  BY <1>2
<1>5. w \in P!Body
  BY <1>2, <1>3, <1>4 DEF P!Body
<1>6. live = old => w = asked
  BY <1>2, <1>3, <1>4 DEF P!Body
<1> QED BY <1>1, <1>5, <1>6 DEF old, asked, live

(* A commit: what it finds and what it leaves.                             *)
LEMMA CommitIs ==
  ASSUME PoliciesInv, NEW r \in Requests, P!Commit(r)
  PROVE  LET k == req[r]
             p == k.policy IN
         /\ p \in PolicyIds /\ policy[p] \in P!Body /\ k.loaded \in P!Body /\ k.asked \in P!Body
         /\ k.pc = "numbered" /\ k.stale \in BOOLEAN
         /\ ~k.stale => policy[p] = k.loaded /\ P!Written(k) = k.asked
         /\ P!Written(k) \in P!Body
         /\ \A q \in PolicyIds : q # p /\ policy[q] # None => policy[q].slug # P!Written(k).slug
         /\ \A q \in PolicyIds : /\ policy'[q] = IF q = p THEN P!Written(k) ELSE policy[q]
                                 /\ told'[q] = IF q = p THEN k.asked ELSE told[q]
                                 /\ mixed'[q] = IF q = p THEN k.stale ELSE mixed[q]
                                 /\ versions'[q] = IF q = p THEN Append(versions[p], k.loaded)
                                                   ELSE versions[q]
         /\ policy' \in [PolicyIds -> P!Body \cup {None}] /\ told' \in [PolicyIds -> P!Body \cup {None}]
         /\ mixed' \in [PolicyIds -> BOOLEAN] /\ versions' \in [PolicyIds -> Seq(P!Body)]
         /\ UNCHANGED <<mix, bound, chain, count, installs>>
<1> USE PolicyConstants
<1> DEFINE k == req[r]
           p == k.policy
<1>1. RequestInv(k) /\ k.pc = "numbered" /\ k \in P!ReqType
  BY DEF PoliciesInv, RequestsInv, RequestInv, P!Commit
<1>2. EditInv(k) /\ k.stale \in BOOLEAN
  BY <1>1 DEF RequestInv, P!ReqType
<1>3. /\ policy \in [PolicyIds -> P!Body \cup {None}] /\ told \in [PolicyIds -> P!Body \cup {None}]
      /\ mixed \in [PolicyIds -> BOOLEAN] /\ versions \in [PolicyIds -> Seq(P!Body)]
  BY DEF PoliciesInv, RulesInv
<1>4. p \in PolicyIds /\ policy[p] \in P!Body /\ k.loaded \in P!Body /\ k.asked \in P!Body
  BY <1>2, <1>3 DEF EditInv
<1>5. P!Written(k) \in P!Body /\ (~k.stale => policy[p] = k.loaded /\ P!Written(k) = k.asked)
  <2> HIDE DEF k
  <2> QED BY <1>2, <1>4, WrittenIs DEF EditInv
<1>6. /\ k.number \notin DOMAIN versions[p]
      /\ versions' = [versions EXCEPT ![p] = IF k.number \in DOMAIN @ THEN [@ EXCEPT ![k.number] = k.loaded]
                                             ELSE Append(@, k.loaded)]
      /\ policy' = [policy EXCEPT ![p] = P!Written(k)]
      /\ told' = [told EXCEPT ![p] = k.asked]
      /\ mixed' = [mixed EXCEPT ![p] = k.stale]
      /\ ~P!Taken(P!Written(k).slug, p)
      /\ UNCHANGED <<mix, bound, chain, count, installs>>
  BY DEF P!Commit, P!NumberFree, P!Snapshot, P!links, P!shop
<1> HIDE DEF k, p
<1>7. Append(versions[p], k.loaded) \in Seq(P!Body)
  BY <1>3, <1>4
<1>8. versions' = [versions EXCEPT ![p] = Append(versions[p], k.loaded)]
  BY <1>3, <1>4, <1>6
<1>9. \A q \in PolicyIds : /\ policy'[q] = IF q = p THEN P!Written(k) ELSE policy[q]
                           /\ told'[q] = IF q = p THEN k.asked ELSE told[q]
                           /\ mixed'[q] = IF q = p THEN k.stale ELSE mixed[q]
                           /\ versions'[q] = IF q = p THEN Append(versions[p], k.loaded)
                                             ELSE versions[q]
  BY <1>3, <1>4, <1>6, <1>8
<1>10. /\ policy' \in [PolicyIds -> P!Body \cup {None}] /\ told' \in [PolicyIds -> P!Body \cup {None}]
       /\ mixed' \in [PolicyIds -> BOOLEAN] /\ versions' \in [PolicyIds -> Seq(P!Body)]
  BY <1>2, <1>3, <1>4, <1>5, <1>6, <1>7, <1>8
<1>11. \A q \in PolicyIds : q # p /\ policy[q] # None => policy[q].slug # P!Written(k).slug
  BY <1>6 DEF P!Taken, P!Exists
<1>12. k.pc = "numbered"
  BY <1>1
<1> QED BY <1>2, <1>4, <1>5, <1>6, <1>9, <1>10, <1>11, <1>12 DEF k, p

(* An edit that nobody overtook writes what it says; one that was, is      *)
(* stale.                                                                  *)
LEMMA CommitKept ==
  ASSUME PoliciesInv, NEW r \in Requests, P!Commit(r)
  PROVE  PoliciesInv'
<1> USE PolicyConstants
<1> DEFINE k == req[r]
           p == k.policy
           w == P!Written(k)
           over == [P!New EXCEPT !.pc = "done"]
<1>1. /\ p \in PolicyIds /\ policy[p] \in P!Body /\ k.loaded \in P!Body /\ k.asked \in P!Body
      /\ k.pc = "numbered" /\ k.stale \in BOOLEAN
      /\ ~k.stale => policy[p] = k.loaded /\ w = k.asked
      /\ w \in P!Body
      /\ \A q \in PolicyIds : q # p /\ policy[q] # None => policy[q].slug # w.slug
      /\ \A q \in PolicyIds : /\ policy'[q] = IF q = p THEN w ELSE policy[q]
                              /\ told'[q] = IF q = p THEN k.asked ELSE told[q]
                              /\ mixed'[q] = IF q = p THEN k.stale ELSE mixed[q]
      /\ policy' \in [PolicyIds -> P!Body \cup {None}] /\ told' \in [PolicyIds -> P!Body \cup {None}]
      /\ mixed' \in [PolicyIds -> BOOLEAN] /\ versions' \in [PolicyIds -> Seq(P!Body)]
      /\ UNCHANGED <<mix, bound, chain, count, installs>>
  BY CommitIs
<1>2. req' = [s \in Requests |-> IF s = r THEN over
                                 ELSE [req[s] EXCEPT !.stale = @ \/ req[s].policy = p]]
  BY DEF P!Commit
<1>3. over.pc = "done" /\ over \in P!ReqType
  BY NewIs
<1> HIDE DEF k, p, w, over
<1>4. RulesInv'
  <2>1. ASSUME NEW q \in PolicyIds, NEW s \in PolicyIds, q # s, policy'[q] # None, policy'[s] # None
        PROVE  policy'[q].slug # policy'[s].slug
    <3>1. CASE q = p
      BY <1>1, <2>1, <3>1
    <3>2. CASE s = p
      BY <1>1, <2>1, <3>2
    <3>3. CASE q # p /\ s # p
      BY <1>1, <2>1, <3>3 DEF PoliciesInv, RulesInv
    <3> QED BY <3>1, <3>2, <3>3
  <2>2. P!LiveAsTold'
    BY <1>1 DEF P!LiveAsTold, P!Exists, PoliciesInv, RulesInv
  <2>3. \A q \in PolicyIds : policy'[q] = None => told'[q] = None
    BY <1>1 DEF PoliciesInv, RulesInv
  <2> QED BY <1>1, <2>1, <2>2, <2>3 DEF RulesInv
<1>5. ASSUME NEW s \in Requests, s # r
      PROVE  LET n == req[s] IN
             /\ req'[s] \in P!ReqType /\ req'[s].stale = (n.stale \/ n.policy = p)
             /\ req'[s].pc = n.pc /\ req'[s].kind = n.kind /\ req'[s].policy = n.policy
             /\ req'[s].loaded = n.loaded /\ req'[s].asked = n.asked /\ req'[s].binding = n.binding
             /\ req'[s].seen = n.seen
  <2> DEFINE n == req[s]
             m == [n EXCEPT !.stale = @ \/ n.policy = p]
  <2>1. n \in P!ReqType
    BY DEF PoliciesInv, RequestsInv, RequestInv
  <2>2. n.stale \in BOOLEAN
    BY <2>1 DEF P!ReqType
  <2>3. (n.stale \/ n.policy = p) \in BOOLEAN
    OBVIOUS
  <2>4. req'[s] = m
    BY <1>2, <1>5
  <2> HIDE DEF n
  <2>5. /\ m \in P!ReqType /\ m.stale = (n.stale \/ n.policy = p)
        /\ m.pc = n.pc /\ m.kind = n.kind /\ m.policy = n.policy /\ m.loaded = n.loaded
        /\ m.asked = n.asked /\ m.binding = n.binding /\ m.seen = n.seen
    BY <2>1, <2>3 DEF P!ReqType
  <2> HIDE DEF m
  <2> QED BY <2>4, <2>5 DEF n
<1>6. RequestsInv'
  <2>1. ASSUME NEW s \in Requests PROVE RequestInv(req[s])'
    <3>1. CASE s = r
      <4>1. req'[s] = over
        BY <1>2, <3>1
      <4> QED BY <1>3, <4>1 DEF RequestInv
    <3>2. CASE s # r
      <4> DEFINE n == req[s]
                 m == req'[s]
      <4>1. RequestInv(n)
        BY DEF PoliciesInv, RequestsInv
      <4>2. /\ m \in P!ReqType /\ m.stale = (n.stale \/ n.policy = p)
            /\ m.pc = n.pc /\ m.kind = n.kind /\ m.policy = n.policy /\ m.loaded = n.loaded
            /\ m.asked = n.asked /\ m.binding = n.binding /\ m.seen = n.seen
        BY <1>5, <3>2
      <4> HIDE DEF n
      <4>3. EditInv(n) => /\ m.policy \in PolicyIds /\ policy'[m.policy] # None
                          /\ m.loaded \in P!Body /\ m.asked \in P!Body
                          /\ m.stale \/ policy'[m.policy] = m.loaded
        <5> SUFFICES ASSUME EditInv(n)
                     PROVE  /\ m.policy \in PolicyIds /\ policy'[m.policy] # None
                            /\ m.loaded \in P!Body /\ m.asked \in P!Body
                            /\ m.stale \/ policy'[m.policy] = m.loaded
          OBVIOUS
        <5>1. /\ n.policy \in PolicyIds /\ policy[n.policy] # None /\ n.loaded \in P!Body
              /\ n.asked \in P!Body /\ (n.stale \/ policy[n.policy] = n.loaded)
          BY DEF EditInv
        <5>2. policy'[n.policy] = IF n.policy = p THEN w ELSE policy[n.policy]
          BY <1>1, <5>1
        <5>3. m.policy = n.policy /\ m.loaded = n.loaded /\ m.asked = n.asked
          BY <4>2
        <5>4. n.stale \/ n.policy = p => m.stale
          BY <4>2
        <5> HIDE DEF m
        <5>5. w # None
          BY <1>1
        <5> QED BY <5>1, <5>2, <5>3, <5>4, <5>5
      <4>4. UnbindInv(n) => m.binding \in chain'.made /\ (m.pc # "loaded" => bound'[m.binding] = None)
        BY <1>1, <4>2 DEF UnbindInv
      <4>5. n.stale \/ n.seen = count => m.stale \/ m.seen = count'
        BY <1>1, <4>2
      <4> QED BY <4>1, <4>2, <4>3, <4>4, <4>5 DEF RequestInv, EditInv, UnbindInv
    <3> QED BY <3>1, <3>2
  <2>2. req' = [s \in Requests |-> req'[s]]
    BY <1>2
  <2> QED BY <2>1, <2>2 DEF RequestsInv
<1>7. P!BindingsExplained'
  <2>1. \A s \in Requests : req[s].pc \in {"unbound", "cut"} =>
          req'[s].pc = req[s].pc /\ req'[s].binding = req[s].binding
    BY <1>1, <1>5 DEF k
  <2>2. P!BindingsExplained
    BY DEF PoliciesInv, LinksInv
  <2>3. bound' = bound /\ chain' = chain
    BY <1>1
  <2> QED BY <2>1, <2>2, <2>3 DEF P!BindingsExplained
<1> QED BY <1>1, <1>4, <1>6, <1>7 DEF PoliciesInv, LinksInv

-----------------------------------------------------------------------------
(* A binding is made once.                                                 *)
LEMMA BindPolicyKept ==
  ASSUME PoliciesInv, NEW b \in Bindings, NEW p \in PolicyIds, P!BindPolicy(b, p)
  PROVE  PoliciesInv'
<1> USE PolicyConstants
<1>1. /\ bound[b] = None /\ b \notin chain.made
      /\ bound' = [bound EXCEPT ![b] = p]
      /\ chain' = [chain EXCEPT !.made = @ \cup {b}]
      /\ UNCHANGED <<mix, policy, versions, told, mixed, count, installs, req>>
  BY DEF P!BindPolicy, P!rules, P!shop
<1>2. /\ bound \in [Bindings -> PolicyIds \cup {None}]
      /\ chain \in [made : SUBSET Bindings, ended : SUBSET Bindings]
      /\ chain.ended \subseteq chain.made
      /\ \A x \in Bindings : bound[x] # None => x \in chain.made
      /\ P!BindingsExplained
  BY DEF PoliciesInv, LinksInv
<1>3. /\ chain' \in [made : SUBSET Bindings, ended : SUBSET Bindings]
      /\ chain'.made = chain.made \cup {b} /\ chain'.ended = chain.ended
  BY <1>1, <1>2
<1>4. bound' \in [Bindings -> PolicyIds \cup {None}]
      /\ \A x \in Bindings : bound'[x] = IF x = b THEN p ELSE bound[x]
  BY <1>1, <1>2
<1>5. P!BindingsExplained'
  <2>1. ASSUME NEW x \in Bindings
        PROVE  /\ x \in chain'.ended => bound'[x] = None
               /\ x \in chain'.made \ chain'.ended =>
                    bound'[x] # None \/ \E r \in Requests : req'[r].binding = x /\ req'[r].pc \in {"unbound", "cut"}
    <3>1. CASE x = b
      BY <1>1, <1>2, <1>3, <1>4, <3>1
    <3>2. CASE x # b
      BY <1>1, <1>2, <1>3, <1>4, <3>2 DEF P!BindingsExplained
    <3> QED BY <3>1, <3>2
  <2> QED BY <2>1 DEF P!BindingsExplained
<1>6. LinksInv'
  BY <1>1, <1>2, <1>3, <1>4, <1>5 DEF LinksInv
<1>7. RequestsInv'
  <2>1. ASSUME NEW k, RequestInv(k) PROVE RequestInv(k)'
    <3>1. UnbindInv(k) => UnbindInv(k)'
      <4> SUFFICES ASSUME UnbindInv(k) PROVE UnbindInv(k)'
        OBVIOUS
      <4>1. k.binding \in chain.made /\ (k.pc # "loaded" => bound[k.binding] = None)
        BY DEF UnbindInv
      <4>2. k.binding # b /\ k.binding \in Bindings
        BY <1>1, <1>2, <4>1
      <4> QED BY <1>3, <1>4, <4>1, <4>2 DEF UnbindInv
    <3>2. EditInv(k) => EditInv(k)'
      BY <1>1 DEF EditInv
    <3> QED BY <1>1, <2>1, <3>1, <3>2 DEF RequestInv
  <2>2. req = [r \in Requests |-> req[r]] /\ \A r \in Requests : RequestInv(req[r])
    BY DEF PoliciesInv, RequestsInv
  <2>3. \A r \in Requests : \E k : req'[r] = k /\ RequestInv(k)'
    BY <1>1, <2>1, <2>2
  <2>4. req' = [r \in Requests |-> req'[r]]
    BY <1>1, <2>2
  <2> QED BY <2>3, <2>4 DEF RequestsInv, RequestInv, EditInv, UnbindInv
<1>8. RulesInv'
  BY <1>1 DEF PoliciesInv, RulesInv, P!LiveAsTold, P!Exists
<1> QED BY <1>1, <1>6, <1>7, <1>8 DEF PoliciesInv

(* It is deleted by one who then owes a record.                            *)
LEMMA UnbindCommitKept ==
  ASSUME PoliciesInv, NEW r \in Requests, P!UnbindCommit(r)
  PROVE  PoliciesInv'
<1> USE PolicyConstants
<1> DEFINE k == req[r]
           b == k.binding
           m == [k EXCEPT !.pc = "unbound"]
<1>1. RequestInv(k) /\ k.pc = "loaded" /\ k.kind = "unbind" /\ k \in P!ReqType
  BY DEF PoliciesInv, RequestsInv, RequestInv, P!UnbindCommit
<1>2. b \in chain.made
  BY <1>1 DEF RequestInv, UnbindInv
<1>3. /\ bound' = [bound EXCEPT ![b] = None] /\ req' = [req EXCEPT ![r] = m]
      /\ UNCHANGED <<mix, policy, versions, told, mixed, chain, count, installs>>
  BY DEF P!UnbindCommit, P!rules, P!shop
<1>4. /\ bound \in [Bindings -> PolicyIds \cup {None}]
      /\ chain \in [made : SUBSET Bindings, ended : SUBSET Bindings]
      /\ chain.ended \subseteq chain.made
      /\ \A x \in Bindings : bound[x] # None => x \in chain.made
      /\ P!BindingsExplained
  BY DEF PoliciesInv, LinksInv
<1>5. req = [s \in Requests |-> req[s]] /\ \A s \in Requests : RequestInv(req[s])
  BY DEF PoliciesInv, RequestsInv
<1>6. req' = [s \in Requests |-> req'[s]] /\ \A s \in Requests : req'[s] = IF s = r THEN m ELSE req[s]
  BY <1>3, <1>5
<1> HIDE DEF k
<1>7. /\ m \in P!ReqType /\ m.pc = "unbound" /\ m.kind = "unbind" /\ m.binding = b
  BY <1>1 DEF P!ReqType
<1> HIDE DEF m, b
<1>8. bound' \in [Bindings -> PolicyIds \cup {None}]
      /\ \A x \in Bindings : bound'[x] = IF x = b THEN None ELSE bound[x]
  BY <1>3, <1>4
<1>9. b \in Bindings
  BY <1>2, <1>4
<1>10. P!BindingsExplained'
  <2>1. ASSUME NEW x \in Bindings
        PROVE  /\ x \in chain'.ended => bound'[x] = None
               /\ x \in chain'.made \ chain'.ended =>
                    bound'[x] # None \/ \E s \in Requests : req'[s].binding = x /\ req'[s].pc \in {"unbound", "cut"}
    <3>1. CASE x = b
      BY <1>6, <1>7, <1>8, <3>1
    <3>2. CASE x # b
      <4>1. \A s \in Requests : req[s].pc \in {"unbound", "cut"} => req'[s] = req[s]
        BY <1>1, <1>6 DEF k
      <4> QED BY <1>3, <1>4, <1>8, <3>2, <4>1 DEF P!BindingsExplained
    <3> QED BY <3>1, <3>2
  <2> QED BY <2>1 DEF P!BindingsExplained
<1>11. LinksInv'
  BY <1>3, <1>4, <1>8, <1>10 DEF LinksInv
<1>12. RequestsInv'
  <2>1. ASSUME NEW x, RequestInv(x) PROVE RequestInv(x)'
    <3>1. UnbindInv(x) => UnbindInv(x)'
      <4> SUFFICES ASSUME UnbindInv(x) PROVE UnbindInv(x)'
        OBVIOUS
      <4>1. x.binding \in chain.made /\ (x.pc # "loaded" => bound[x.binding] = None)
        BY DEF UnbindInv
      <4>2. x.binding \in Bindings
        BY <1>4, <4>1
      <4> QED BY <1>3, <1>8, <4>1, <4>2 DEF UnbindInv
    <3>2. EditInv(x) => EditInv(x)'
      BY <1>3 DEF EditInv
    <3> QED BY <1>3, <2>1, <3>1, <3>2 DEF RequestInv
  <2>2. ASSUME NEW x \in P!ReqType, x.pc = "unbound", x.kind = "unbind", x.binding = b
        PROVE  RequestInv(x)'
    BY <1>2, <1>3, <1>8, <1>9, <2>2 DEF RequestInv, UnbindInv
  <2>3. ASSUME NEW s \in Requests PROVE \E x : req'[s] = x /\ RequestInv(x)'
    <3>1. CASE s = r
      <4>1. \A x : x \in P!ReqType /\ x.pc = "unbound" /\ x.kind = "unbind" /\ x.binding = b => RequestInv(x)'
        BY <2>2
      <4>2. req'[s] = m
        BY <1>6, <3>1
      <4> QED BY <1>7, <4>1, <4>2
    <3>2. CASE s # r
      BY <1>5, <1>6, <2>1, <3>2
    <3> QED BY <3>1, <3>2
  <2> QED BY <1>6, <2>3 DEF RequestsInv, RequestInv, EditInv, UnbindInv
<1>13. RulesInv'
  BY <1>3 DEF PoliciesInv, RulesInv, P!LiveAsTold, P!Exists
<1> QED BY <1>3, <1>11, <1>12, <1>13 DEF PoliciesInv

(* The record is of a binding that is gone.                                *)
LEMMA UnbindRecordKept ==
  ASSUME PoliciesInv, NEW r \in Requests, P!UnbindRecord(r)
  PROVE  PoliciesInv'
<1> USE PolicyConstants
<1> DEFINE k == req[r]
           b == k.binding
           over == [P!New EXCEPT !.pc = "done"]
<1>1. RequestInv(k) /\ k.pc = "unbound"
  BY DEF PoliciesInv, RequestsInv, P!UnbindRecord
<1>2. b \in chain.made /\ bound[b] = None
  BY <1>1 DEF RequestInv, UnbindInv
<1>3. /\ chain' = [chain EXCEPT !.ended = @ \cup {b}] /\ req' = [req EXCEPT ![r] = over]
      /\ UNCHANGED <<mix, policy, versions, told, mixed, bound, count, installs>>
  BY DEF P!UnbindRecord, P!Finish, P!rules, P!shop
<1>4. /\ bound \in [Bindings -> PolicyIds \cup {None}]
      /\ chain \in [made : SUBSET Bindings, ended : SUBSET Bindings]
      /\ chain.ended \subseteq chain.made
      /\ \A x \in Bindings : bound[x] # None => x \in chain.made
      /\ P!BindingsExplained
  BY DEF PoliciesInv, LinksInv
<1>5. req = [s \in Requests |-> req[s]] /\ \A s \in Requests : RequestInv(req[s])
  BY DEF PoliciesInv, RequestsInv
<1>6. req' = [s \in Requests |-> req'[s]] /\ \A s \in Requests : req'[s] = IF s = r THEN over ELSE req[s]
  BY <1>3, <1>5
<1>7. RequestInv(over) /\ over.pc = "done"
  BY NewIs
<1> HIDE DEF over, k, b
<1>8. /\ chain' \in [made : SUBSET Bindings, ended : SUBSET Bindings]
      /\ chain'.made = chain.made /\ chain'.ended = chain.ended \cup {b}
  BY <1>2, <1>3, <1>4
<1>9. P!BindingsExplained'
  <2>1. ASSUME NEW x \in Bindings
        PROVE  /\ x \in chain'.ended => bound'[x] = None
               /\ x \in chain'.made \ chain'.ended =>
                    bound'[x] # None \/ \E s \in Requests : req'[s].binding = x /\ req'[s].pc \in {"unbound", "cut"}
    <3>1. CASE x = b
      BY <1>2, <1>3, <1>8, <3>1
    <3>2. CASE x # b
      <4>1. /\ x \in chain.ended => bound[x] = None
            /\ x \in chain.made \ chain.ended =>
                 bound[x] # None \/ \E s \in Requests : req[s].binding = x /\ req[s].pc \in {"unbound", "cut"}
        BY <1>4 DEF P!BindingsExplained
      <4>2. \A s \in Requests : req[s].binding = x => req'[s] = req[s]
        BY <1>6, <3>2 DEF k, b
      <4> QED BY <1>3, <1>8, <3>2, <4>1, <4>2
    <3> QED BY <3>1, <3>2
  <2> QED BY <2>1 DEF P!BindingsExplained
<1>10. LinksInv'
  BY <1>2, <1>3, <1>4, <1>8, <1>9 DEF LinksInv
<1>11. RequestsInv'
  <2>1. ASSUME NEW x, RequestInv(x) PROVE RequestInv(x)'
    BY <1>3, <1>8, <2>1 DEF RequestInv, EditInv, UnbindInv
  <2>2. \A s \in Requests : \E x : req'[s] = x /\ RequestInv(x)'
    BY <1>5, <1>6, <1>7, <2>1
  <2> QED BY <1>6, <2>2 DEF RequestsInv, RequestInv, EditInv, UnbindInv
<1>12. RulesInv'
  BY <1>3 DEF PoliciesInv, RulesInv, P!LiveAsTold, P!Exists
<1> QED BY <1>3, <1>10, <1>11, <1>12 DEF PoliciesInv

-----------------------------------------------------------------------------
(* What an installation adds: bodies of the template with other slugs than *)
(* those in use, each once, where there was no policy.                     *)
LEMMA InstallIs ==
  ASSUME PoliciesInv, NEW r \in Requests, P!InstallCommit(r)
  PROVE  LET k == req[r] IN
         /\ k.pc = "listed" /\ k.kind = "install" /\ (k.stale \/ k.seen = count)
         /\ \A p \in PolicyIds : policy[p] # None => policy'[p] = policy[p]
         /\ \A p \in PolicyIds : policy[p] = None /\ policy'[p] # None =>
              /\ policy'[p] \in P!Body
              /\ \A q \in PolicyIds \ {p} : policy'[q] # None => policy'[q].slug # policy'[p].slug
         /\ policy' = [p \in PolicyIds |-> policy'[p]]
         /\ count' = k.seen + 1 /\ installs' = installs + 1
         /\ k.seen \in Nat
         /\ UNCHANGED <<mix, versions, told, mixed, bound, chain>>
<1> USE PolicyConstants
<1> DEFINE k == req[r]
           new == {b \in Offered : b.slug \notin k.slugs}
<1>1. RequestInv(k) /\ k \in P!ReqType /\ k.pc = "listed"
  BY DEF PoliciesInv, RequestsInv, RequestInv, P!InstallCommit
<1>2. k.kind = "install" /\ (k.stale \/ k.seen = count) /\ k.seen \in Nat
  BY <1>1 DEF RequestInv, P!ReqType
<1>3. P!Missing(k) = new
  BY DEF P!Missing, Offered
<1>4. /\ {b.slug : b \in new} \cap P!Used = {}
      /\ \E at \in [new -> {p \in PolicyIds : ~P!Exists(p)}] :
           /\ \A b, d \in new : at[b] = at[d] => b = d
           /\ policy' = [p \in PolicyIds |-> IF \E b \in new : at[b] = p
                                             THEN CHOOSE b \in new : at[b] = p ELSE policy[p]]
      /\ count' = k.seen + 1 /\ installs' = installs + 1
      /\ UNCHANGED <<mix, versions, told, mixed, bound, chain>>
  <2> HIDE DEF new
  <2> QED BY <1>3 DEF P!InstallCommit, P!Counted, P!links
<1>5. new \subseteq P!Body /\ \A b, d \in new : b.slug = d.slug => b = d
  OBVIOUS
<1> HIDE DEF new, k
<1>6. PICK at \in [new -> {p \in PolicyIds : ~P!Exists(p)}] :
        /\ \A b, d \in new : at[b] = at[d] => b = d
        /\ policy' = [p \in PolicyIds |-> IF \E b \in new : at[b] = p
                                          THEN CHOOSE b \in new : at[b] = p ELSE policy[p]]
  BY <1>4
<1>7. \A b \in new : at[b] \in PolicyIds /\ policy[at[b]] = None
  BY <1>6 DEF P!Exists
<1>8. \A p \in PolicyIds :
        \/ policy'[p] = policy[p] /\ \A b \in new : at[b] # p
        \/ policy'[p] \in new /\ at[policy'[p]] = p
  <2> SUFFICES ASSUME NEW p \in PolicyIds
               PROVE  \/ policy'[p] = policy[p] /\ \A b \in new : at[b] # p
                      \/ policy'[p] \in new /\ at[policy'[p]] = p
    OBVIOUS
  <2>1. policy'[p] = IF \E b \in new : at[b] = p THEN CHOOSE b \in new : at[b] = p ELSE policy[p]
    BY <1>6
  <2>2. CASE \E b \in new : at[b] = p
    <3>1. (CHOOSE b \in new : at[b] = p) \in new /\ at[CHOOSE b \in new : at[b] = p] = p
      BY <2>2
    <3> QED BY <2>1, <2>2, <3>1
  <2> QED BY <2>1, <2>2
<1>9. \A p \in PolicyIds : policy[p] # None => policy'[p] = policy[p]
  BY <1>7, <1>8
<1>10. ASSUME NEW p \in PolicyIds, policy[p] = None, policy'[p] # None
       PROVE  /\ policy'[p] \in P!Body
              /\ \A q \in PolicyIds \ {p} : policy'[q] # None => policy'[q].slug # policy'[p].slug
  <2>1. policy'[p] \in new /\ at[policy'[p]] = p
    BY <1>8, <1>10
  <2>2. ASSUME NEW q \in PolicyIds \ {p}, policy'[q] # None
        PROVE  policy'[q].slug # policy'[p].slug
    <3>1. CASE policy'[q] \in new /\ at[policy'[q]] = q
      BY <1>5, <2>1, <2>2, <3>1
    <3>2. CASE policy'[q] = policy[q]
      <4>1. policy[q].slug \in P!Used
        BY <2>2, <3>2 DEF P!Used, P!Exists
      <4>2. policy'[p].slug \in {b.slug : b \in new}
        BY <2>1
      <4> QED BY <1>4, <3>2, <4>1, <4>2
    <3> QED BY <1>8, <2>2, <3>1, <3>2
  <2> QED BY <1>5, <2>1, <2>2
<1>11. policy' = [p \in PolicyIds |-> policy'[p]]
  BY <1>6
<1> QED BY <1>1, <1>2, <1>4, <1>9, <1>10, <1>11 DEF k

(* An installation adds policies and makes the others that read stale.     *)
LEMMA InstallCommitKept ==
  ASSUME PoliciesInv, NEW r \in Requests, P!InstallCommit(r)
  PROVE  PoliciesInv'
<1> USE PolicyConstants
<1> DEFINE k == req[r]
           over == [P!New EXCEPT !.pc = "done"]
<1>1. /\ k.pc = "listed"
      /\ \A p \in PolicyIds : policy[p] # None => policy'[p] = policy[p]
      /\ \A p \in PolicyIds : policy[p] = None /\ policy'[p] # None =>
           /\ policy'[p] \in P!Body
           /\ \A q \in PolicyIds \ {p} : policy'[q] # None => policy'[q].slug # policy'[p].slug
      /\ policy' = [p \in PolicyIds |-> policy'[p]]
      /\ count' = k.seen + 1 /\ installs' = installs + 1 /\ k.seen \in Nat
      /\ UNCHANGED <<mix, versions, told, mixed, bound, chain>>
  BY InstallIs
<1>2. req' = [s \in Requests |-> IF s = r THEN over
                                 ELSE [req[s] EXCEPT !.stale = @ \/ req[s].kind = "install"]]
  BY DEF P!InstallCommit
<1>3. over.pc = "done" /\ over \in P!ReqType
  BY NewIs
<1> HIDE DEF k, over
<1>4. RulesInv'
  <2>1. policy' \in [PolicyIds -> P!Body \cup {None}]
    <3>1. \A p \in PolicyIds : policy'[p] \in P!Body \cup {None}
      BY <1>1 DEF PoliciesInv, RulesInv
    <3> QED BY <1>1, <3>1
  <2>2. ASSUME NEW q \in PolicyIds, NEW s \in PolicyIds, q # s, policy'[q] # None, policy'[s] # None
        PROVE  policy'[q].slug # policy'[s].slug
    <3>1. CASE policy[q] = None
      BY <1>1, <2>2, <3>1
    <3>2. CASE policy[s] = None
      BY <1>1, <2>2, <3>2
    <3>3. CASE policy[q] # None /\ policy[s] # None
      BY <1>1, <2>2, <3>3 DEF PoliciesInv, RulesInv
    <3> QED BY <3>1, <3>2, <3>3
  <2>3. P!LiveAsTold' /\ \A q \in PolicyIds : policy'[q] = None => told'[q] = None
    BY <1>1 DEF P!LiveAsTold, P!Exists, PoliciesInv, RulesInv
  <2> QED BY <1>1, <2>1, <2>2, <2>3 DEF PoliciesInv, RulesInv
<1>5. ASSUME NEW s \in Requests, s # r
      PROVE  LET n == req[s] IN
             /\ req'[s] \in P!ReqType /\ req'[s].stale = (n.stale \/ n.kind = "install")
             /\ req'[s].pc = n.pc /\ req'[s].kind = n.kind /\ req'[s].policy = n.policy
             /\ req'[s].loaded = n.loaded /\ req'[s].asked = n.asked /\ req'[s].binding = n.binding
             /\ req'[s].seen = n.seen
  <2> DEFINE n == req[s]
             m == [n EXCEPT !.stale = @ \/ n.kind = "install"]
  <2>1. n \in P!ReqType
    BY DEF PoliciesInv, RequestsInv, RequestInv
  <2>2. (n.stale \/ n.kind = "install") \in BOOLEAN
    OBVIOUS
  <2>3. req'[s] = m
    BY <1>2, <1>5
  <2> HIDE DEF n
  <2>4. /\ m \in P!ReqType /\ m.stale = (n.stale \/ n.kind = "install")
        /\ m.pc = n.pc /\ m.kind = n.kind /\ m.policy = n.policy /\ m.loaded = n.loaded
        /\ m.asked = n.asked /\ m.binding = n.binding /\ m.seen = n.seen
    BY <2>1, <2>2 DEF P!ReqType
  <2> HIDE DEF m
  <2> QED BY <2>3, <2>4 DEF n
<1>6. RequestsInv'
  <2>1. ASSUME NEW s \in Requests PROVE RequestInv(req[s])'
    <3>1. CASE s = r
      <4>1. req'[s] = over
        BY <1>2, <3>1
      <4> QED BY <1>3, <4>1 DEF RequestInv
    <3>2. CASE s # r
      <4> DEFINE n == req[s]
                 m == req'[s]
      <4>1. RequestInv(n)
        BY DEF PoliciesInv, RequestsInv
      <4>2. /\ m \in P!ReqType /\ m.stale = (n.stale \/ n.kind = "install")
            /\ m.pc = n.pc /\ m.kind = n.kind /\ m.policy = n.policy /\ m.loaded = n.loaded
            /\ m.asked = n.asked /\ m.binding = n.binding /\ m.seen = n.seen
        BY <1>5, <3>2
      <4> HIDE DEF n
      <4>3. EditInv(n) => /\ m.policy \in PolicyIds /\ policy'[m.policy] # None
                          /\ m.loaded \in P!Body /\ m.asked \in P!Body
                          /\ m.stale \/ policy'[m.policy] = m.loaded
        <5> SUFFICES ASSUME EditInv(n)
                     PROVE  /\ m.policy \in PolicyIds /\ policy'[m.policy] # None
                            /\ m.loaded \in P!Body /\ m.asked \in P!Body
                            /\ m.stale \/ policy'[m.policy] = m.loaded
          OBVIOUS
        <5>1. /\ n.policy \in PolicyIds /\ policy[n.policy] # None /\ n.loaded \in P!Body
              /\ n.asked \in P!Body /\ (n.stale \/ policy[n.policy] = n.loaded)
          BY DEF EditInv
        <5>2. policy'[n.policy] = policy[n.policy]
          BY <1>1, <5>1
        <5>3. m.policy = n.policy /\ m.loaded = n.loaded /\ m.asked = n.asked
          BY <4>2
        <5>4. n.stale => m.stale
          BY <4>2
        <5> HIDE DEF m
        <5> QED BY <5>1, <5>2, <5>3, <5>4
      <4>4. UnbindInv(n) => m.binding \in chain'.made /\ (m.pc # "loaded" => bound'[m.binding] = None)
        BY <1>1, <4>2 DEF UnbindInv
      <4>5. n.kind = "install" => m.stale
        BY <4>2
      <4> QED BY <4>1, <4>2, <4>3, <4>4, <4>5 DEF RequestInv, EditInv, UnbindInv
    <3> QED BY <3>1, <3>2
  <2>2. req' = [s \in Requests |-> req'[s]]
    BY <1>2
  <2> QED BY <2>1, <2>2 DEF RequestsInv
<1>7. P!BindingsExplained'
  <2>1. \A s \in Requests : req[s].pc \in {"unbound", "cut"} =>
          req'[s].pc = req[s].pc /\ req'[s].binding = req[s].binding
    BY <1>1, <1>5 DEF k
  <2>2. P!BindingsExplained
    BY DEF PoliciesInv, LinksInv
  <2>3. bound' = bound /\ chain' = chain
    BY <1>1
  <2> QED BY <2>1, <2>2, <2>3 DEF P!BindingsExplained
<1> QED BY <1>1, <1>4, <1>6, <1>7 DEF PoliciesInv, LinksInv

(* So each step of the policies keeps what holds of them.                  *)
LEMMA PoliciesKept == PoliciesInv /\ P!Next => PoliciesInv'
BY AbortKept, NextVersionKept, CommitKept, UnbindCommitKept, UnbindRecordKept, UnbindUnrecordedKept,
   InstallReadKept, InstallSlugsKept, InstallCommitKept, CreatePolicyKept, LoadKept, LoadVersionKept,
   UnbindReadKept, BindPolicyKept
DEF P!Next

(* Only a commit changes versions, and an installation the count.          *)
LEMMA PoliciesStep ==
  PoliciesInv /\ P!Next => P!NothingLostStep /\ P!VersionsKeptStep /\ P!CountExplainedStep
<1> SUFFICES ASSUME PoliciesInv, P!Next
             PROVE  P!NothingLostStep /\ P!VersionsKeptStep /\ P!CountExplainedStep
  OBVIOUS
<1>1. ASSUME \A p \in PolicyIds : policy[p] # None => policy'[p] = policy[p], versions' = versions
      PROVE  P!NothingLostStep /\ P!VersionsKeptStep
  BY <1>1 DEF P!NothingLostStep, P!VersionsKeptStep, P!Exists
<1>2. ASSUME NEW r \in Requests, P!Commit(r)
      PROVE  P!NothingLostStep /\ P!VersionsKeptStep /\ P!CountExplainedStep
  <2> DEFINE k == req[r]
             p == k.policy
  <2>1. /\ p \in PolicyIds /\ k.loaded \in P!Body /\ k.stale \in BOOLEAN
        /\ ~k.stale => policy[p] = k.loaded
        /\ \A q \in PolicyIds : /\ q # p => policy'[q] = policy[q]
                                /\ mixed'[q] = IF q = p THEN k.stale ELSE mixed[q]
                                /\ versions'[q] = IF q = p THEN Append(versions[p], k.loaded)
                                                  ELSE versions[q]
        /\ installs' = installs
    BY <1>2, CommitIs
  <2> HIDE DEF k, p
  <2>2. versions[p] \in Seq(P!Body)
    BY <2>1 DEF PoliciesInv, RulesInv
  <2>3. /\ Len(versions[p]) + 1 \in DOMAIN versions'[p]
        /\ versions'[p][Len(versions[p]) + 1] = k.loaded
        /\ \A v \in DOMAIN versions[p] : v \in DOMAIN versions'[p] /\ versions'[p][v] = versions[p][v]
    <3> DEFINE s == versions[p]
               e == k.loaded
    <3>1. s \in Seq(P!Body) /\ e \in P!Body
      BY <2>1, <2>2
    <3>2. versions'[p] = Append(s, e)
      BY <2>1
    <3> HIDE DEF s, e
    <3>3. /\ Len(s) + 1 \in DOMAIN Append(s, e) /\ Append(s, e)[Len(s) + 1] = e
          /\ \A v \in DOMAIN s : v \in DOMAIN Append(s, e) /\ Append(s, e)[v] = s[v]
      BY <3>1
    <3> QED BY <3>2, <3>3 DEF s, e
  <2>4. P!NothingLostStep
    BY <2>1, <2>3 DEF P!NothingLostStep
  <2>5. P!VersionsKeptStep
    BY <2>1, <2>3 DEF P!VersionsKeptStep
  <2> QED BY <2>1, <2>4, <2>5 DEF P!CountExplainedStep
<1>3. ASSUME NEW r \in Requests, P!InstallCommit(r)
      PROVE  P!NothingLostStep /\ P!VersionsKeptStep /\ P!CountExplainedStep
  <2>1. LET k == req[r] IN
        /\ k.kind = "install" /\ (k.stale \/ k.seen = count)
        /\ \A p \in PolicyIds : policy[p] # None => policy'[p] = policy[p]
        /\ count' = k.seen + 1 /\ versions' = versions
    BY <1>3, InstallIs
  <2>2. P!CountExplainedStep
    BY <2>1 DEF P!CountExplainedStep
  <2> QED BY <1>1, <2>1, <2>2
<1>4. ASSUME NEW r \in Requests, NEW p \in PolicyIds, NEW b \in P!Body, P!CreatePolicy(r, p, b)
      PROVE  P!NothingLostStep /\ P!VersionsKeptStep /\ P!CountExplainedStep
  <2>1. policy[p] = None /\ versions' = versions /\ installs' = installs
        /\ (policy' = policy \/ policy' = [policy EXCEPT ![p] = b])
    BY <1>4 DEF P!CreatePolicy, P!rules, P!shop, P!Exists
  <2>2. \A q \in PolicyIds : policy[q] # None => policy'[q] = policy[q]
    BY <2>1 DEF PoliciesInv, RulesInv
  <2> QED BY <1>1, <2>1, <2>2 DEF P!CountExplainedStep
<1>5. ASSUME UNCHANGED <<policy, versions, installs>>
      PROVE  P!NothingLostStep /\ P!VersionsKeptStep /\ P!CountExplainedStep
  BY <1>1, <1>5 DEF P!CountExplainedStep
<1>6. \/ \E r \in Requests : P!Commit(r) \/ P!InstallCommit(r)
      \/ \E r \in Requests, p \in PolicyIds, b \in P!Body : P!CreatePolicy(r, p, b)
      \/ UNCHANGED <<policy, versions, installs>>
  BY DEF P!Next, P!Abort, P!NextVersion, P!UnbindCommit, P!UnbindRecord, P!UnbindUnrecorded,
         P!InstallRead, P!InstallSlugs, P!Load, P!LoadVersion, P!UnbindRead, P!BindPolicy, P!rules, P!shop
<1> QED BY <1>2, <1>3, <1>4, <1>5, <1>6

-----------------------------------------------------------------------------
(* The ways a token may have been sealed.                                  *)
BoxType == [by : {"local", "aws"}, key : Nat, context : {Org}, split : BOOLEAN]
SealedType == [token : Conns, box : BoxType]

ConnType == [there : BOOLEAN, status : {"idle", "error"}, sealed : {<<>>} \cup SealedType]
JobType == [pc : {"idle", "flush", "fetch", "end"}, conns : SUBSET Conns, hook : BOOLEAN,
            open : BOOLEAN, sealed : {<<>>} \cup SealedType]
FailType == [conn : Conns, first : BOOLEAN]

(* What holds of a token: it is its connection's; before the first restart *)
(* it is sealed by the one backend, with the one kind of key.              *)
BoxInv(box) ==
  restarts = 0 => /\ box.by = deploy.backend
                  /\ box.by = "local" /\ ~deploy.kept => box.key # 0

ConnInv(c, k) ==
  /\ k.there => k.sealed # <<>>
  /\ k.sealed # <<>> => k.sealed.token = c /\ BoxInv(k.sealed.box)

(* A synchronisation works on one connection, with the token of that.      *)
JobInv(k) ==
  k.pc # "idle" => \E c \in Conns : k.conns = {c} /\ k.sealed = conn[c].sealed /\ k.sealed # <<>>

(* The keys of the workers, before the first restart.                      *)
KeysInv ==
  /\ deploy \in [backend : G!Backends, kept : BOOLEAN]
  /\ restarts \in 0 .. MaxRestarts
  /\ master \in [Calls -> Nat]
  /\ restarts = 0 => \A w \in Calls : master[w] = 0 <=> deploy.kept

RowsInv == conn \in [Conns -> ConnType] /\ \A c \in Conns : ConnInv(c, conn[c])
JobsInv == job \in [Calls -> JobType] /\ \A w \in Calls : JobInv(job[w])

FailsInv == fails \subseteq FailType /\ \A f \in fails : conn[f.conn].sealed # <<>>

GitInv ==
  /\ KeysInv /\ RowsInv /\ JobsInv /\ FailsInv
  /\ G!TrueTokens /\ G!LostExplained /\ G!HeldWhileSyncing

(* The bound on restarts is a number.                                      *)
LEMMA GitNumbers == MaxRestarts \in Nat
BY EnforcementAssumption DEF G!GitSyncAssumption

(* No record is the empty tuple.                                           *)
LEMMA SealedIs == \A s \in SealedType : s # <<>>
<1> SUFFICES ASSUME NEW s \in SealedType, s = <<>> PROVE FALSE
  OBVIOUS
<1>1. DOMAIN s = {"token", "box"}
  BY DEF SealedType
<1>2. DOMAIN <<>> = {}
  OBVIOUS
<1> QED BY <1>1, <1>2

(* A connection that was never made, and a worker that does nothing.       *)
LEMMA RowIs ==
  /\ G!NoRow \in ConnType /\ G!NoRow.sealed = <<>> /\ G!NoRow.there = FALSE
  /\ G!NoRow.status = "idle"
  /\ G!NoJob \in JobType /\ G!NoJob.pc = "idle"
BY DEF G!NoRow, G!NoJob, ConnType, JobType

(* There are no connections, and each worker has its key.                  *)
LEMMA GitStarts == G!Init => GitInv
<1> SUFFICES ASSUME G!Init PROVE GitInv
  OBVIOUS
<1> USE GitNumbers, RowIs
<1>1. /\ deploy \in [backend : G!Backends, kept : BOOLEAN] /\ restarts = 0
      /\ conn = [c \in Conns |-> G!NoRow] /\ job = [w \in Calls |-> G!NoJob]
      /\ shown = {} /\ fails = {}
  BY DEF G!Init
<1>2. PICK n \in [Calls -> 1 .. MaxRestarts + 1] :
        master = [w \in Calls |-> G!MasterOf(w, deploy.kept, n[w])]
  BY DEF G!Init
<1>3. deploy.kept \in BOOLEAN
  BY <1>1
<1>4. KeysInv
  <2>1. \A w \in Calls : n[w] \in Nat /\ n[w] # 0
    OBVIOUS
  <2>2. \A w \in Calls : master[w] = IF deploy.kept THEN 0 ELSE n[w]
    BY <1>2 DEF G!MasterOf
  <2>3. master \in [Calls -> Nat]
    BY <1>2, <2>1 DEF G!MasterOf
  <2> QED BY <1>1, <1>3, <2>1, <2>2, <2>3 DEF KeysInv
<1>5. RowsInv
  <2>1. \A c \in Conns : conn[c] = G!NoRow
    BY <1>1
  <2> QED BY <1>1, <2>1 DEF RowsInv, ConnInv
<1>6. JobsInv
  <2>1. \A w \in Calls : job[w] = G!NoJob
    BY <1>1
  <2> QED BY <1>1, <2>1 DEF JobsInv, JobInv
<1>7. G!HeldWhileSyncing
  <2>1. \A w \in Calls : job[w].pc = "idle"
    BY <1>1
  <2> QED BY <2>1 DEF G!HeldWhileSyncing, G!Holds
<1> QED BY <1>1, <1>4, <1>5, <1>6, <1>7 DEF GitInv, FailsInv, G!TrueTokens, G!LostExplained

-----------------------------------------------------------------------------
(* What a worker's step leaves of keys, rows and locks.                    *)
LEMMA OneJob ==
  ASSUME GitInv, NEW w \in Calls, NEW m \in JobType, job' = [job EXCEPT ![w] = m],
         UNCHANGED <<deploy, master, restarts>>,
         conn' \in [Conns -> ConnType], \A c \in Conns : ConnInv(c, conn'[c]),
         \A c \in Conns : /\ conn[c].sealed # <<>> => conn'[c].sealed = conn[c].sealed
                          /\ conn[c].there => conn'[c].there,
         m.pc # "idle" => \E c \in Conns : m.conns = {c} /\ m.sealed = conn'[c].sealed /\ m.sealed # <<>>,
         \A c \in Conns : G!Holds(m, c) => conn'[c].there /\ ~G!Locked(c, w)
  PROVE  KeysInv' /\ RowsInv' /\ JobsInv' /\ G!HeldWhileSyncing'
<1>1. job \in [Calls -> JobType] /\ \A v \in Calls : JobInv(job[v])
  BY DEF GitInv, JobsInv
<1>2. job' \in [Calls -> JobType] /\ \A v \in Calls : job'[v] = IF v = w THEN m ELSE job[v]
  BY <1>1
<1>3. KeysInv'
  BY DEF GitInv, KeysInv
<1>4. RowsInv'
  BY DEF RowsInv, ConnInv, BoxInv
<1>5. ASSUME NEW v \in Calls
      PROVE  job'[v].pc # "idle" => \E c \in Conns : /\ job'[v].conns = {c}
                                                     /\ job'[v].sealed = conn'[c].sealed
                                                     /\ job'[v].sealed # <<>>
  <2>1. CASE v = w
    BY <1>2, <2>1
  <2>2. CASE v # w
    BY <1>1, <1>2, <2>2 DEF JobInv
  <2> QED BY <2>1, <2>2
<1>6. JobsInv'
  BY <1>2, <1>5 DEF JobsInv, JobInv
<1>7. G!HeldWhileSyncing'
  <2> SUFFICES ASSUME NEW v \in Calls, NEW c \in Conns, G!Holds(job'[v], c)
               PROVE  conn'[c].there /\ \A u \in Calls \ {v} : ~G!Holds(job'[u], c)
    BY DEF G!HeldWhileSyncing, G!Locked
  <2>2. CASE v = w
    <3>1. ~G!Locked(c, w) /\ conn'[c].there
      BY <1>2, <2>2
    <3> QED BY <1>2, <2>2, <3>1 DEF G!Locked
  <2>3. CASE v # w
    <3>1. job'[v] = job[v]
      BY <1>2, <2>3
    <3>2. conn[c].there /\ \A u \in Calls \ {v} : ~G!Holds(job[u], c)
      BY <3>1 DEF GitInv, G!HeldWhileSyncing, G!Locked
    <3>3. ~G!Holds(m, c)
      BY <2>3, <3>1 DEF G!Locked
    <3> QED BY <1>2, <3>2, <3>3
  <2> QED BY <2>2, <2>3
<1> QED BY <1>3, <1>4, <1>6, <1>7

(* The connections do not change at all.                                   *)
LEMMA SameRows ==
  ASSUME GitInv, conn' = conn
  PROVE  /\ conn' \in [Conns -> ConnType] /\ \A c \in Conns : ConnInv(c, conn'[c])
         /\ \A c \in Conns : /\ conn[c].sealed # <<>> => conn'[c].sealed = conn[c].sealed
                             /\ conn[c].there => conn'[c].there
BY DEF GitInv, RowsInv

(* What was sent and what failed stand while tokens do and restarts grow.  *)
LEMMA StillExplained ==
  ASSUME GitInv, restarts' \in Nat, restarts' >= restarts, UNCHANGED <<shown, fails>>,
         \A c \in Conns : conn[c].sealed # <<>> => conn'[c].sealed = conn[c].sealed
  PROVE  FailsInv' /\ G!TrueTokens' /\ G!LostExplained'
<1>1. fails \subseteq FailType /\ restarts \in Nat /\ \A f \in fails : conn[f.conn].sealed # <<>>
  BY GitNumbers DEF GitInv, KeysInv, FailsInv
<1>2. \A f \in fails : f.conn \in Conns /\ conn'[f.conn].sealed = conn[f.conn].sealed
  BY <1>1 DEF FailType
<1>3. FailsInv'
  BY <1>1, <1>2 DEF FailsInv
<1>4. G!LostExplained'
  BY <1>1, <1>2 DEF GitInv, G!LostExplained
<1> QED BY <1>3, <1>4 DEF GitInv, G!TrueTokens

(* A connection is sealed under the worker's key.                          *)
LEMMA SealedKept ==
  ASSUME GitInv, NEW w \in Calls, NEW c \in Conns, NEW s \in G!Sealed(w, c, Org),
         conn' = [conn EXCEPT ![c] = [G!NoRow EXCEPT !.there = TRUE, !.sealed = s]],
         ~conn[c].there, conn[c].sealed = <<>>, UNCHANGED <<deploy, master, restarts, job, shown, fails>>
  PROVE  GitInv'
<1>1. conn' = [conn EXCEPT ![c] = [G!NoRow EXCEPT !.there = TRUE, !.sealed = s]]
  OBVIOUS
<1>2. ~conn[c].there /\ conn[c].sealed = <<>> /\ UNCHANGED <<deploy, master, restarts, job, shown, fails>>
  OBVIOUS
<1>3. conn \in [Conns -> ConnType] /\ \A d \in Conns : ConnInv(d, conn[d])
  BY DEF GitInv, RowsInv
<1>4. deploy \in [backend : G!Backends, kept : BOOLEAN] /\ master[w] \in Nat
      /\ (restarts = 0 => (master[w] = 0 <=> deploy.kept))
  BY DEF GitInv, KeysInv
<1>5. s \in SealedType /\ s.token = c /\ BoxInv(s.box)
  <2>1. CASE deploy.backend = "local"
    <3>1. PICK k \in [by : {"local"}, key : {master[w]}, context : {Org}, split : BOOLEAN] :
            s = [token |-> c, box |-> k]
      BY <2>1 DEF G!Sealed, G!LocalKey
    <3>2. k \in BoxType /\ k.by = "local" /\ k.key = master[w]
      BY <1>4, <3>1 DEF BoxType
    <3> QED BY <1>4, <2>1, <3>1, <3>2 DEF SealedType, BoxInv
  <2>2. CASE deploy.backend = "aws"
    <3>1. PICK k \in [by : {"aws"}, key : {0}, context : {Org}, split : {FALSE}] :
            s = [token |-> c, box |-> k]
      BY <2>2 DEF G!Sealed, G!AwsKey
    <3>2. k.by = "aws" /\ k = [by |-> "aws", key |-> 0, context |-> Org, split |-> FALSE]
      BY <3>1
    <3>3. [by |-> "aws", key |-> 0, context |-> Org, split |-> FALSE] \in BoxType
      BY DEF BoxType
    <3>4. k \in BoxType
      BY <3>2, <3>3
    <3> QED BY <2>2, <3>1, <3>2, <3>4 DEF SealedType, BoxInv
  <2>3. CASE deploy.backend \in {"gcp", "azure"}
    BY <2>3 DEF G!Sealed, G!GcpKey, G!AzureKey
  <2> QED BY <1>4, <2>1, <2>2, <2>3 DEF G!Backends
<1> DEFINE m == [G!NoRow EXCEPT !.there = TRUE, !.sealed = s]
<1>6. /\ m \in ConnType /\ m.there = TRUE /\ m.sealed = s /\ m.status = "idle"
  BY <1>5, RowIs DEF ConnType
<1> HIDE DEF m
<1>7. ConnInv(c, m)
  BY <1>5, <1>6, SealedIs DEF ConnInv
<1>8. conn' \in [Conns -> ConnType] /\ \A d \in Conns : conn'[d] = IF d = c THEN m ELSE conn[d]
  BY <1>1, <1>3, <1>6 DEF m
<1>9. \A d \in Conns : ConnInv(d, conn'[d])
  BY <1>3, <1>7, <1>8
<1>10. \A d \in Conns : /\ conn[d].sealed # <<>> => conn'[d].sealed = conn[d].sealed
                        /\ conn[d].there => conn'[d].there
  BY <1>2, <1>8
<1>11. KeysInv'
  BY <1>2 DEF GitInv, KeysInv
<1>12. RowsInv'
  BY <1>2, <1>8, <1>9 DEF RowsInv, ConnInv, BoxInv
<1>13. JobsInv'
  BY <1>2, <1>10 DEF GitInv, JobsInv, JobInv
<1>14. G!HeldWhileSyncing'
  <2> SUFFICES ASSUME NEW v \in Calls, NEW d \in Conns, G!Holds(job[v], d)
               PROVE  conn'[d].there /\ ~G!Locked(d, v)
    BY <1>2 DEF G!HeldWhileSyncing, G!Locked
  <2>1. conn[d].there /\ ~G!Locked(d, v)
    BY DEF GitInv, G!HeldWhileSyncing
  <2> QED BY <1>10, <2>1
<1>15. restarts \in Nat
  BY GitNumbers DEF GitInv, KeysInv
<1> QED BY <1>2, <1>10, <1>11, <1>12, <1>13, <1>14, <1>15, StillExplained DEF GitInv

(* A connection is made, or the token cannot be sealed.                    *)
LEMMA ConnectKept ==
  ASSUME GitInv, NEW w \in Calls, NEW c \in Conns, G!Connect(w, c)
  PROVE  GitInv'
<1>1. ~conn[c].there /\ conn[c].sealed = <<>> /\ UNCHANGED <<deploy, master, restarts, job, shown, fails>>
  BY DEF G!Connect
<1>2. CASE conn' = conn
  <2>1. KeysInv' /\ RowsInv' /\ JobsInv' /\ G!HeldWhileSyncing'
    BY <1>1, <1>2 DEF GitInv, KeysInv, RowsInv, ConnInv, BoxInv, JobsInv, JobInv, G!HeldWhileSyncing,
                      G!Locked
  <2>2. restarts \in Nat
    BY GitNumbers DEF GitInv, KeysInv
  <2> QED BY <1>1, <1>2, <2>1, <2>2, StillExplained DEF GitInv
<1>3. ASSUME NEW s \in G!Sealed(w, c, Org),
             conn' = [conn EXCEPT ![c] = [G!NoRow EXCEPT !.there = TRUE, !.sealed = s]]
      PROVE  GitInv'
  BY <1>1, <1>3, SealedKept
<1> QED BY <1>2, <1>3 DEF G!Connect

(* What a step that moves one synchronisation and sends nothing leaves.    *)
LEMMA QuietJob ==
  ASSUME GitInv, NEW w \in Calls, NEW m \in JobType, job' = [job EXCEPT ![w] = m],
         UNCHANGED <<deploy, master, restarts, shown, fails>>,
         conn' \in [Conns -> ConnType], \A c \in Conns : ConnInv(c, conn'[c]),
         \A c \in Conns : /\ conn[c].sealed # <<>> => conn'[c].sealed = conn[c].sealed
                          /\ conn[c].there => conn'[c].there,
         m.pc # "idle" => \E c \in Conns : m.conns = {c} /\ m.sealed = conn'[c].sealed /\ m.sealed # <<>>,
         \A c \in Conns : G!Holds(m, c) => conn'[c].there /\ ~G!Locked(c, w)
  PROVE  GitInv'
<1>1. restarts' \in Nat /\ restarts' >= restarts
  BY GitNumbers DEF GitInv, KeysInv
<1>2. FailsInv' /\ G!TrueTokens' /\ G!LostExplained'
  BY <1>1, StillExplained
<1> QED BY <1>2, OneJob DEF GitInv

(* A synchronisation, by hand or by a hook, reads the row with its token.  *)
LEMMA SyncReadKept ==
  ASSUME GitInv, NEW w \in Calls, NEW c \in Conns, G!SyncRead(w, c) \/ G!Hook(w, c)
  PROVE  GitInv'
<1> DEFINE m(hook) == [pc |-> "flush", conns |-> {c}, hook |-> hook, open |-> TRUE,
                        sealed |-> conn[c].sealed]
<1>1. /\ conn[c].there
      /\ \E hook \in BOOLEAN : job' = [job EXCEPT ![w] = m(hook)]
      /\ UNCHANGED <<deploy, master, restarts, conn, shown, fails>>
  BY DEF G!SyncRead, G!Hook
<1>2. PICK hook \in BOOLEAN : job' = [job EXCEPT ![w] = m(hook)]
  BY <1>1
<1>3. conn[c].sealed \in SealedType /\ conn[c].sealed # <<>>
  BY <1>1 DEF GitInv, RowsInv, ConnInv, ConnType
<1> DEFINE k == m(hook)
<1>4. k \in JobType /\ k.pc = "flush" /\ k.conns = {c} /\ k.sealed = conn[c].sealed
  BY <1>3 DEF JobType
<1>5. job' = [job EXCEPT ![w] = k]
  BY <1>2
<1> HIDE DEF k, m
<1>6. \A d \in Conns : ~G!Holds(k, d)
  BY <1>4 DEF G!Holds
<1> QED BY <1>1, <1>3, <1>4, <1>5, <1>6, SameRows, QuietJob

(* It locks the row, which nobody else holds.                              *)
LEMMA SyncFlushKept ==
  ASSUME GitInv, NEW w \in Calls, NEW c \in Conns, G!SyncFlush(w, c)
  PROVE  GitInv'
<1> DEFINE k == job[w]
           held == [k EXCEPT !.pc = "fetch"]
           m == IF conn[c].there THEN held ELSE G!NoJob
<1>1. k \in JobType /\ JobInv(k) /\ job \in [Calls -> JobType] /\ k.pc = "flush" /\ k.conns = {c}
  BY DEF GitInv, JobsInv, G!SyncFlush
<1>2. /\ job' = [job EXCEPT ![w] = m] /\ ~G!Locked(c, w)
      /\ UNCHANGED <<deploy, master, restarts, conn, shown, fails>>
  BY <1>1 DEF G!SyncFlush
<1> HIDE DEF k
<1>3. held \in JobType /\ held.pc = "fetch" /\ held.conns = {c} /\ held.sealed = k.sealed
  BY <1>1 DEF JobType
<1>4. held.sealed = conn[c].sealed /\ held.sealed # <<>>
  BY <1>1, <1>3 DEF JobInv
<1> HIDE DEF held
<1>5. m \in JobType /\ (m.pc # "idle" => m = held /\ conn[c].there)
  BY <1>3, RowIs
<1> HIDE DEF m
<1>6. m.pc # "idle" => \E d \in Conns : m.conns = {d} /\ m.sealed = conn'[d].sealed /\ m.sealed # <<>>
  BY <1>2, <1>3, <1>4, <1>5
<1>7. \A d \in Conns : G!Holds(m, d) => conn'[d].there /\ ~G!Locked(d, w)
  <2> SUFFICES ASSUME NEW d \in Conns, G!Holds(m, d) PROVE conn'[d].there /\ ~G!Locked(d, w)
    OBVIOUS
  <2>1. m = held /\ conn[c].there
    BY <1>5 DEF G!Holds
  <2>2. d = c
    BY <1>3, <2>1 DEF G!Holds
  <2> QED BY <1>2, <2>1, <2>2
<1> QED BY <1>2, <1>5, <1>6, <1>7, SameRows, QuietJob

(* The session of a webhook is closed, and what it held let go.            *)
LEMMA CloseKept ==
  ASSUME GitInv, NEW w \in Calls, NEW c \in Conns, G!Close(w, c)
  PROVE  GitInv'
<1> DEFINE k == job[w]
           m == [k EXCEPT !.open = FALSE, !.pc = IF @ = "flush" THEN "fetch" ELSE @]
<1>1. k \in JobType /\ JobInv(k) /\ job \in [Calls -> JobType] /\ k.conns = {c} /\ k.open
  BY DEF GitInv, JobsInv, G!Close
<1>2. [job EXCEPT ![w].open = FALSE, ![w].pc = IF @ = "flush" THEN "fetch" ELSE @]
        = [job EXCEPT ![w] = m]
  BY <1>1
<1>3. /\ job' = [job EXCEPT ![w] = m] \/ job' = [job EXCEPT ![w] = G!NoJob]
      /\ UNCHANGED <<deploy, master, restarts, conn, shown, fails>>
  BY <1>2 DEF G!Close
<1> HIDE DEF k
<1>4. m \in JobType /\ (m.pc # "idle" => k.pc # "idle") /\ m.conns = {c} /\ m.sealed = k.sealed
      /\ m.open = FALSE
  BY <1>1 DEF JobType
<1> HIDE DEF m
<1>5. m.pc # "idle" => m.sealed = conn[c].sealed /\ m.sealed # <<>>
  BY <1>1, <1>4 DEF JobInv
<1>6. \A d \in Conns : ~G!Holds(m, d) /\ ~G!Holds(G!NoJob, d)
  BY <1>4, RowIs DEF G!Holds
<1>7. CASE job' = [job EXCEPT ![w] = m]
  BY <1>3, <1>4, <1>5, <1>6, <1>7, SameRows, QuietJob
<1>8. CASE job' = [job EXCEPT ![w] = G!NoJob]
  BY <1>3, <1>6, <1>8, RowIs, SameRows, QuietJob
<1> QED BY <1>3, <1>7, <1>8

(* A token that does not open, before the first restart: the blob is cut   *)
(* at the wrong separator, or sealed with a key that was made up.          *)
LEMMA OpenedIs ==
  ASSUME GitInv, NEW w \in Calls, NEW c \in Conns, conn[c].sealed # <<>>
  PROVE  LET tokens == G!Opened(w, conn[c].sealed, Org) IN
         /\ \A t \in tokens : t = c
         /\ tokens = {} => \/ conn[c].sealed.box.split
                           \/ conn[c].sealed.box.key # 0
                           \/ G!FirstUse(w)
                           \/ restarts > 0
<1> DEFINE s == conn[c].sealed
           right == G!Unwrapped(w, s.box, Org)
<1>1. s \in SealedType /\ s.token = c /\ BoxInv(s.box)
  BY DEF GitInv, RowsInv, ConnInv, ConnType
<1>2. G!Opened(w, s, Org) = {s.token : r \in right \cap {TRUE}}
  BY DEF G!Opened
<1>3. s.box \in BoxType
  BY <1>1 DEF SealedType
<1>4. s.box.by \in {"local", "aws"} /\ s.box.context = Org /\ s.box.split \in BOOLEAN /\ s.box.key \in Nat
  BY <1>3 DEF BoxType
<1>5. deploy.kept \in BOOLEAN /\ restarts \in Nat /\ (restarts = 0 => (master[w] = 0 <=> deploy.kept))
  BY GitNumbers DEF GitInv, KeysInv
<1> HIDE DEF s
<1>6. ASSUME ~s.box.split, s.box.key = 0, ~G!FirstUse(w), restarts = 0 PROVE right = {TRUE}
  <2>1. s.box.by = deploy.backend /\ (s.box.by = "local" /\ ~deploy.kept => s.box.key # 0)
    BY <1>1, <1>6 DEF BoxInv
  <2>2. CASE s.box.by = "local"
    <3>1. master[w] = 0
      BY <1>5, <1>6, <2>1, <2>2
    <3>2. right = G!LocalUnwrapped(w, s.box, Org)
      BY <2>1, <2>2 DEF G!Unwrapped
    <3>3. G!LocalUnwrapped(w, s.box, Org) = {master[w] = s.box.key}
      BY <1>4, <1>6 DEF G!LocalUnwrapped
    <3>4. (master[w] = s.box.key) = TRUE
      BY <1>6, <3>1
    <3> QED BY <3>2, <3>3, <3>4
  <2>3. CASE s.box.by = "aws"
    <3>1. right = G!AwsUnwrapped(w, s.box, Org)
      BY <2>1, <2>3 DEF G!Unwrapped
    <3> QED BY <1>4, <1>6, <3>1 DEF G!AwsUnwrapped
  <2> QED BY <1>4, <2>2, <2>3
<1> HIDE DEF right
<1>7. \A t \in G!Opened(w, s, Org) : t = c
  BY <1>1, <1>2
<1>8. right = {TRUE} => G!Opened(w, s, Org) # {}
  <2> SUFFICES ASSUME right = {TRUE} PROVE G!Opened(w, s, Org) # {}
    OBVIOUS
  <2>1. TRUE \in right \cap {TRUE}
    OBVIOUS
  <2>2. s.token \in {s.token : r \in right \cap {TRUE}}
    BY <2>1
  <2> QED BY <1>2, <2>2
<1>9. G!Opened(w, s, Org) = {} => s.box.split \/ s.box.key # 0 \/ G!FirstUse(w) \/ restarts > 0
  <2> SUFFICES ASSUME G!Opened(w, s, Org) = {}, ~s.box.split, s.box.key = 0, ~G!FirstUse(w),
                      ~(restarts > 0)
               PROVE FALSE
    OBVIOUS
  <2>1. restarts = 0
    BY <1>5
  <2> QED BY <1>6, <1>8, <2>1
<1> QED BY <1>7, <1>9 DEF s

(* The token is opened and sent, or it is lost for a reason.               *)
LEMMA FetchKept ==
  ASSUME GitInv, NEW w \in Calls, NEW c \in Conns, G!Fetch(w, c)
  PROVE  GitInv'
<1> DEFINE k == job[w]
           m == [k EXCEPT !.pc = "end"]
           tokens == G!Opened(w, k.sealed, Org)
           first == G!FirstUse(w)
           f == [conn |-> c, first |-> first]
<1>1. k \in JobType /\ JobInv(k) /\ job \in [Calls -> JobType] /\ k.pc = "fetch" /\ k.conns = {c}
  BY DEF GitInv, JobsInv, G!Fetch
<1>2. /\ job' = [job EXCEPT ![w] = m]
      /\ shown' = shown \cup {[conn |-> c, token |-> t] : t \in tokens}
      /\ fails' = IF tokens = {} THEN fails \cup {f} ELSE fails
      /\ UNCHANGED <<deploy, master, restarts, conn>>
  <2>1. job' = [job EXCEPT ![w] = m]
    BY <1>1 DEF G!Fetch
  <2> QED BY <2>1 DEF G!Fetch
<1>3. k.sealed = conn[c].sealed /\ k.sealed # <<>>
  BY <1>1 DEF JobInv
<1>4. /\ \A t \in tokens : t = c
      /\ tokens = {} => \/ conn[c].sealed.box.split
                        \/ conn[c].sealed.box.key # 0
                        \/ first
                        \/ restarts > 0
  <2> HIDE DEF k
  <2> QED BY <1>3, OpenedIs
<1> HIDE DEF tokens
<1>12. first \in BOOLEAN
  BY DEF G!FirstUse
<1> HIDE DEF first
<1>13. f \in FailType /\ f.conn = c /\ f.first = first
  BY <1>12 DEF FailType
<1> HIDE DEF f
<1>5. /\ m \in JobType /\ m.pc = "end" /\ m.conns = {c} /\ m.sealed = k.sealed /\ m.open = k.open
  <2> HIDE DEF k
  <2> QED BY <1>1 DEF JobType
<1> HIDE DEF m
<1>6. \A d \in Conns : G!Holds(m, d) => conn'[d].there /\ ~G!Locked(d, w)
  <2> SUFFICES ASSUME NEW d \in Conns, G!Holds(m, d) PROVE conn'[d].there /\ ~G!Locked(d, w)
    OBVIOUS
  <2>1. G!Holds(k, d)
    BY <1>1, <1>5 DEF G!Holds
  <2> QED BY <1>2, <2>1 DEF GitInv, G!HeldWhileSyncing
<1>7. m.pc # "idle" => \E d \in Conns : m.conns = {d} /\ m.sealed = conn'[d].sealed /\ m.sealed # <<>>
  BY <1>2, <1>3, <1>5
<1>8. KeysInv' /\ RowsInv' /\ JobsInv' /\ G!HeldWhileSyncing'
  BY <1>2, <1>5, <1>6, <1>7, SameRows, OneJob
<1>9. G!TrueTokens'
  <2>1. \A x \in shown : x.token = x.conn
    BY DEF GitInv, G!TrueTokens
  <2>2. ASSUME NEW x \in shown' PROVE x.token = x.conn
    <3>1. CASE x \in shown
      BY <2>1, <3>1
    <3>2. CASE x \notin shown
      <4>1. PICK t \in tokens : x = [conn |-> c, token |-> t]
        BY <1>2, <3>2
      <4> QED BY <1>4, <4>1
    <3> QED BY <3>1, <3>2
  <2> QED BY <2>2 DEF G!TrueTokens
<1>10. FailsInv'
  BY <1>2, <1>3, <1>13 DEF GitInv, FailsInv
<1>11. G!LostExplained'
  <2>1. ASSUME NEW d \in fails'
        PROVE  \/ conn[d.conn].sealed.box.split \/ conn[d.conn].sealed.box.key # 0
               \/ d.first \/ restarts > 0
    <3>1. CASE d \in fails
      BY <3>1 DEF GitInv, G!LostExplained
    <3>2. CASE d \notin fails
      <4>1. d = f /\ tokens = {}
        BY <1>2, <2>1, <3>2
      <4> QED BY <1>4, <1>13, <4>1
    <3> QED BY <3>1, <3>2
  <2> QED BY <1>2, <2>1 DEF G!LostExplained
<1> QED BY <1>8, <1>9, <1>10, <1>11 DEF GitInv

(* The outcome is written, and the lock released.                          *)
LEMMA EndKept ==
  ASSUME GitInv, NEW w \in Calls, NEW c \in Conns, G!End(w, c)
  PROVE  GitInv'
<1> DEFINE shut2 == [conn[c] EXCEPT !.status = "error"]
<1>1. /\ conn' = IF job[w].open THEN [conn EXCEPT ![c].status = "error"] ELSE conn
      /\ job' = [job EXCEPT ![w] = G!NoJob]
      /\ UNCHANGED <<deploy, master, restarts, shown, fails>>
  BY DEF G!End
<1>2. conn \in [Conns -> ConnType] /\ \A d \in Conns : ConnInv(d, conn[d])
  BY DEF GitInv, RowsInv
<1>3. /\ shut2 \in ConnType /\ shut2.there = conn[c].there /\ shut2.sealed = conn[c].sealed
      /\ shut2.status = "error"
  BY <1>2 DEF ConnType
<1>4. [conn EXCEPT ![c].status = "error"] = [conn EXCEPT ![c] = shut2]
  BY <1>2
<1> HIDE DEF shut2
<1>5. \A d \in Conns : conn'[d] = conn[d] \/ (d = c /\ conn'[d] = shut2)
  BY <1>1, <1>2, <1>4
<1>6. conn' \in [Conns -> ConnType]
  BY <1>1, <1>2, <1>3, <1>4
<1>7. ConnInv(c, shut2)
  BY <1>2, <1>3 DEF ConnInv
<1>8. /\ \A d \in Conns : ConnInv(d, conn'[d])
      /\ \A d \in Conns : /\ conn[d].sealed # <<>> => conn'[d].sealed = conn[d].sealed
                          /\ conn[d].there => conn'[d].there
  BY <1>2, <1>3, <1>5, <1>7
<1>9. \A d \in Conns : ~G!Holds(G!NoJob, d)
  BY RowIs DEF G!Holds
<1> QED BY <1>1, <1>6, <1>8, <1>9, RowIs, QuietJob

(* Only a connection that nobody holds is deleted.                         *)
LEMMA DeleteKept ==
  ASSUME GitInv, NEW c \in Conns, G!Delete(c)
  PROVE  GitInv'
<1> DEFINE m == [conn[c] EXCEPT !.there = FALSE]
<1>1. /\ conn' = [conn EXCEPT ![c] = m]
      /\ \A w \in Calls : ~G!Holds(job[w], c)
      /\ UNCHANGED <<deploy, master, restarts, job, shown, fails>>
  BY DEF G!Delete
<1>2. conn \in [Conns -> ConnType] /\ \A d \in Conns : ConnInv(d, conn[d])
  BY DEF GitInv, RowsInv
<1>3. /\ m \in ConnType /\ m.there = FALSE /\ m.sealed = conn[c].sealed /\ m.status = conn[c].status
  BY <1>2 DEF ConnType
<1> HIDE DEF m
<1>4. conn' \in [Conns -> ConnType] /\ \A d \in Conns : conn'[d] = IF d = c THEN m ELSE conn[d]
  BY <1>1, <1>2, <1>3
<1>5. \A d \in Conns : ConnInv(d, conn'[d]) /\ conn'[d].sealed = conn[d].sealed
                       /\ (d # c => conn'[d] = conn[d])
  BY <1>2, <1>3, <1>4 DEF ConnInv
<1>6. KeysInv' /\ JobsInv'
  BY <1>1, <1>5 DEF GitInv, KeysInv, JobsInv, JobInv
<1>7. RowsInv'
  BY <1>1, <1>4, <1>5 DEF RowsInv, ConnInv, BoxInv
<1>8. G!HeldWhileSyncing'
  <2> SUFFICES ASSUME NEW v \in Calls, NEW d \in Conns, G!Holds(job[v], d)
               PROVE  conn'[d].there /\ ~G!Locked(d, v)
    BY <1>1 DEF G!HeldWhileSyncing, G!Locked
  <2>1. conn[d].there /\ ~G!Locked(d, v)
    BY DEF GitInv, G!HeldWhileSyncing
  <2>2. d # c
    BY <1>1
  <2> QED BY <1>5, <2>1, <2>2
<1>9. restarts' \in Nat /\ restarts' >= restarts
  BY <1>1, GitNumbers DEF GitInv, KeysInv
<1> QED BY <1>1, <1>5, <1>6, <1>7, <1>8, <1>9, StillExplained DEF GitInv

(* After a restart or a deployment nothing is told of old keys.            *)
LEMMA AfterRestart ==
  ASSUME GitInv, restarts < MaxRestarts, restarts' = restarts + 1, UNCHANGED <<conn, shown, fails>>,
         deploy' \in [backend : G!Backends, kept : BOOLEAN], master' \in [Calls -> Nat],
         job' \in [Calls -> JobType], \A w \in Calls : job'[w] = job[w] \/ job'[w] = G!NoJob
  PROVE  GitInv'
<1>1. restarts \in Nat /\ restarts' \in 0 .. MaxRestarts /\ restarts' # 0 /\ restarts' >= restarts
      /\ restarts' \in Nat
  BY GitNumbers DEF GitInv, KeysInv
<1>2. KeysInv'
  BY <1>1 DEF KeysInv
<1>3. RowsInv'
  BY <1>1 DEF GitInv, RowsInv, ConnInv, BoxInv
<1>4. JobsInv'
  BY RowIs DEF GitInv, JobsInv, JobInv
<1>5. G!HeldWhileSyncing'
  <2> SUFFICES ASSUME NEW v \in Calls, NEW d \in Conns, G!Holds(job'[v], d)
               PROVE  conn[d].there /\ \A u \in Calls \ {v} : ~G!Holds(job'[u], d)
    BY DEF G!HeldWhileSyncing, G!Locked
  <2>1. \A u \in Calls : G!Holds(job'[u], d) => G!Holds(job[u], d)
    BY RowIs DEF G!Holds
  <2>2. conn[d].there /\ \A u \in Calls \ {v} : ~G!Holds(job[u], d)
    BY <2>1 DEF GitInv, G!HeldWhileSyncing, G!Locked
  <2> QED BY <2>1, <2>2
<1> QED BY <1>1, <1>2, <1>3, <1>4, <1>5, StillExplained DEF GitInv

(* A worker restarts, or all of them with another backend.                 *)
LEMMA RestartsKept ==
  ASSUME GitInv, (\E w \in Calls : G!Restart(w)) \/ (\E b \in G!Backends : G!Deploy(b))
  PROVE  GitInv'
<1>1. /\ deploy \in [backend : G!Backends, kept : BOOLEAN] /\ master \in [Calls -> Nat]
      /\ restarts \in Nat /\ job \in [Calls -> JobType]
  BY GitNumbers DEF GitInv, KeysInv, JobsInv
<1>2. ASSUME NEW w \in Calls, G!Restart(w) PROVE GitInv'
  <2>1. G!MasterOf(w, deploy.kept, 10 + restarts) \in Nat
    BY <1>1 DEF G!MasterOf
  <2>2. master' \in [Calls -> Nat] /\ job' \in [Calls -> JobType]
        /\ \A v \in Calls : job'[v] = job[v] \/ job'[v] = G!NoJob
    BY <1>1, <1>2, <2>1, RowIs DEF G!Restart
  <2> QED BY <1>1, <1>2, <2>2, AfterRestart DEF G!Restart
<1>3. ASSUME NEW b \in G!Backends, G!Deploy(b) PROVE GitInv'
  <2>1. master' \in [Calls -> Nat] /\ job' \in [Calls -> JobType]
        /\ \A v \in Calls : job'[v] = G!NoJob
    BY <1>3, RowIs DEF G!Deploy
  <2>2. deploy' \in [backend : G!Backends, kept : BOOLEAN]
    BY <1>3 DEF G!Deploy
  <2> QED BY <1>3, <2>1, <2>2, AfterRestart DEF G!Deploy
<1> QED BY <1>2, <1>3

(* Bundles are signed: nothing changes but which workers have used KMS.    *)
LEMMA SignBundleKept ==
  ASSUME GitInv, NEW w \in Calls, G!SignBundle(w)
  PROVE  GitInv'
<1>1. UNCHANGED <<deploy, master, restarts, conn, job, shown, fails>> /\ restarts \in Nat
  BY GitNumbers DEF G!SignBundle, GitInv, KeysInv
<1>2. KeysInv' /\ RowsInv' /\ JobsInv' /\ G!HeldWhileSyncing'
  BY <1>1 DEF GitInv, KeysInv, RowsInv, ConnInv, BoxInv, JobsInv, JobInv, G!HeldWhileSyncing, G!Locked
<1> QED BY <1>1, <1>2, StillExplained DEF GitInv

(* So each step of the repositories keeps what holds of them.              *)
LEMMA GitKept == GitInv /\ G!Next => GitInv'
BY ConnectKept, SyncReadKept, SyncFlushKept, CloseKept, FetchKept, EndKept, DeleteKept, RestartsKept,
   SignBundleKept DEF G!Next

(* The workers that have used KMS are workers.                             *)
LEMMA LoadedKept == loaded \subseteq Calls /\ G!Next => loaded' \subseteq Calls
BY DEF G!Next, G!Connect, G!SyncRead, G!SyncFlush, G!Hook, G!Close, G!Fetch, G!End, G!Delete, G!Restart,
       G!Deploy, G!SignBundle, G!Loading

(* And what the run checks of the repositories holds.                      *)
LEMMA GitSafe == GitInv /\ loaded \subseteq Calls =>
                   G!TypeOK /\ G!TrueTokens /\ G!LostExplained /\ G!HeldWhileSyncing
<1> SUFFICES ASSUME GitInv, loaded \subseteq Calls PROVE G!TypeOK
  BY DEF GitInv
<1>1. \A c \in Conns : conn[c] \in ConnType
  BY DEF GitInv, RowsInv
<1>2. \A w \in Calls : job[w] \in JobType
  BY DEF GitInv, JobsInv
<1> QED BY <1>1, <1>2 DEF G!TypeOK, GitInv, KeysInv, FailsInv, FailType, ConnType, JobType

-----------------------------------------------------------------------------
(* The policies and the repositories.                                      *)
RulebookInv ==
  /\ part = "policies" => PoliciesInv
  /\ part = "git" => GitInv /\ loaded \subseteq Calls

(* Each part starts as it should.                                          *)
LEMMA RulebookStarts == Init => RulebookInv
BY PoliciesStart, GitStarts DEF Init, RulebookInv, G!Init

(* Each step moves one part.                                               *)
LEMMA RulebookKept == RulebookInv /\ [Next]_vars => RulebookInv'
<1> SUFFICES ASSUME RulebookInv, [Next]_vars PROVE RulebookInv'
  OBVIOUS
<1>1. CASE UNCHANGED vars
  <2>1. UNCHANGED policiesVars => (PoliciesInv => PoliciesInv')
    <3> SUFFICES ASSUME UNCHANGED policiesVars, PoliciesInv PROVE PoliciesInv'
      OBVIOUS
    <3>1. UNCHANGED <<mix, policy, versions, told, mixed, bound, chain, count, installs, req>>
      BY DEF policiesVars
    <3>2. RulesInv'
      BY <3>1 DEF PoliciesInv, RulesInv, P!LiveAsTold, P!Exists
    <3>3. LinksInv'
      BY <3>1 DEF PoliciesInv, LinksInv, P!BindingsExplained
    <3>4. RequestsInv'
      BY <3>1 DEF PoliciesInv, RequestsInv, RequestInv, EditInv, UnbindInv
    <3> QED BY <3>1, <3>2, <3>3, <3>4 DEF PoliciesInv
  <2>2. UNCHANGED gitVars => (GitInv => GitInv') /\ UNCHANGED loaded
    <3> SUFFICES ASSUME UNCHANGED gitVars, GitInv PROVE GitInv'
      BY DEF gitVars
    <3>1. UNCHANGED <<deploy, master, restarts, conn, job, shown, fails>>
      BY DEF gitVars
    <3>2. KeysInv' /\ RowsInv' /\ JobsInv'
      BY <3>1 DEF GitInv, KeysInv, RowsInv, ConnInv, BoxInv, JobsInv, JobInv
    <3>3. G!TrueTokens' /\ G!LostExplained' /\ G!HeldWhileSyncing'
      BY <3>1 DEF GitInv, G!TrueTokens, G!LostExplained, G!HeldWhileSyncing, G!Locked
    <3> QED BY <3>1, <3>2, <3>3 DEF GitInv, FailsInv
  <2> QED BY <1>1, <2>1, <2>2 DEF vars, RulebookInv
<1>2. CASE Next
  <2>1. part' = part /\ (part = "policies" => P!Next) /\ (part = "git" => G!Next)
    BY <1>2 DEF Next
  <2> QED BY <2>1, PoliciesKept, GitKept, LoadedKept DEF RulebookInv
<1> QED BY <1>1, <1>2

(* What the run checks of the policies follows.                            *)
LEMMA PoliciesSafe == PoliciesInv => P!TypeOK /\ P!LiveAsTold /\ P!BindingsExplained
<1> SUFFICES ASSUME PoliciesInv PROVE P!TypeOK /\ P!LiveAsTold /\ P!BindingsExplained
  OBVIOUS
<1>1. req \in [Requests -> P!ReqType]
  BY DEF PoliciesInv, RequestsInv, RequestInv
<1>2. P!TypeOK
  BY <1>1 DEF PoliciesInv, RulesInv, LinksInv, P!TypeOK, P!Exists, P!Body
<1> QED BY <1>2 DEF PoliciesInv, RulesInv, LinksInv

(* A policy is live as its last writer was told, bound as the log          *)
(* explains, and a repository's token is its own, for any number of them,  *)
(* of requests, of workers and of restarts.                                *)
THEOREM PoliciesStay == Spec => []PoliciesHold
<1>1. RulebookInv => PoliciesHold
  BY PoliciesSafe, GitSafe DEF RulebookInv, PoliciesHold
<1> QED BY RulebookStarts, RulebookKept, <1>1, PTL DEF Spec

(* No write of a policy loses another's text, no version is rewritten, no  *)
(* installation is uncounted unless it was overtaken, and no request is    *)
(* forwarded with a call that was not allowed.                             *)
THEOREM NothingIsUnseen == Spec => NothingUnseen
<1> DEFINE Seen == /\ part = "policies" => P!NothingLostStep /\ P!VersionsKeptStep /\ P!CountExplainedStep
                   /\ part = "proxy" => X!ForwardedIsAllowedStep
<1>1. RulebookInv /\ GatesInv /\ [Next]_vars => [Seen]_vars
  <2> SUFFICES ASSUME RulebookInv, GatesInv, Next PROVE Seen
    OBVIOUS
  <2>1. (part = "policies" => P!Next) /\ (part = "proxy" => X!Next)
    BY DEF Next
  <2> QED BY <2>1, PoliciesStep, ForwardsAllowed DEF RulebookInv, GatesInv
<1>2. Spec => [][Seen]_vars
  <2> HIDE DEF Seen
  <2> QED BY RulebookStarts, RulebookKept, GatesStart, GatesKept, <1>1, PTL DEF Spec
<1> QED BY <1>2 DEF NothingUnseen

=============================================================================
