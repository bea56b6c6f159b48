---------------------------- MODULE PolicyEngine ----------------------------
(***************************************************************************)
(* policy/engine.py as operators: what a condition says of a request, and  *)
(* which policy decides it.  An action is a name in a namespace ("crm" and *)
(* "read"); a scope is one of the five forms of pattern the code tells     *)
(* apart; a request is what the conditions read of it.                     *)
(***************************************************************************)
EXTENDS Integers, Sequences, FiniteSetsExt

CONSTANTS Begins,             \* the namespaces whose name begins with that of another
          Conditions,         \* the conditions of policies, with those they are made of
          Depth,              \* how deep each of them is
          None                \* a missing value

(* The operands of a condition.                                            *)
Args(node) == IF node.op \in {"and", "or", "not"} THEN node.args ELSE <<>>

(* A condition is a finite tree, as JSON is.                               *)
EngineAssumption ==
  /\ \A n \in DOMAIN Begins : n \in Begins[n]
  /\ Depth \in [Conditions -> Nat]
  /\ \A c \in Conditions :
       /\ Args(c) \in Seq(Conditions)
       /\ \A i \in DOMAIN Args(c) : Depth[Args(c)[i]] < Depth[c]

(* "*", "crm.read", "crm.*", "crm*" and "*.read".                          *)
Star == [form |-> "any"]
Exact(a) == [form |-> "exact", of |-> a]
Dot(n) == [form |-> "dot", of |-> n]
Stem(n) == [form |-> "stem", of |-> n]
Verb(v) == [form |-> "verb", of |-> v]

(* _scope_matches                                                          *)
Matches(scope, action) ==
  CASE scope.form = "any" -> TRUE
    [] scope.form = "exact" -> scope.of = action
    [] scope.form = "dot" -> scope.of = action.ns
    [] scope.form = "stem" -> action.ns \in Begins[scope.of]
    [] scope.form = "verb" -> scope.of = action.verb

ScopeMatches(granted, action) == \E s \in granted : Matches(s, action)

(* No actions, or no resource types, are any.                              *)
ActionMatches(actions, action) == actions = {} \/ ScopeMatches(actions, action)

ResourceMatches(types, type) == types = {} \/ type \in types \/ "*" \in types

-----------------------------------------------------------------------------
(* A condition says "t", "f" or, when its evaluation raises, "e".  A path  *)
(* that does not start with "ctx." is a literal.                           *)
Say(b) == IF b THEN "t" ELSE "f"

(* _resolve_path: an attribute of the request, None when it is missing.    *)
Resolved(path, request) ==
  IF path.rooted THEN request.attrs[path.name] ELSE path.name

(* A missing value, or the text of a literal, has no order.                *)
Compare(node, request) ==
  LET v == Resolved(node.path, request) IN
  CASE node.op = "eq" -> Say(v = node.value)
    [] node.op = "neq" -> Say(v # node.value)
    [] node.op = "in" -> Say(v \in node.value)
    [] node.op = "gt" -> IF node.path.rooted /\ v # None THEN Say(v > node.value) ELSE "e"

(* _taint_state: generic taint answers for every category.                 *)
Tainted(categories, request) ==
  IF categories = {} THEN request.generic \/ request.taint # {}
  ELSE request.generic \/ categories \cap request.taint # {}

(* Over midnight when it begins after it ends.                             *)
InWindow(time, lo, hi) ==
  IF lo <= hi THEN lo <= time /\ time <= hi ELSE time >= lo \/ time <= hi

(* Any allowed action of the session that matches, and is recent enough.   *)
PrecededBy(scope, window, request) ==
  \E h \in request.history :
    Matches(scope, h.action) /\ (window = None \/ h.ago <= window)

(* all() and any() stop at the first operand that is not "going on".       *)
FirstOther(says, going) ==
  LET others == {i \in DOMAIN says : says[i] # going} IN
  IF others = {} THEN going ELSE says[Min(others)]

(* _evaluate, given what the operands say; not without one raises.         *)
Judged(node, says, request) ==
  CASE node.op = "none" -> "t"
    [] node.op = "false" -> "f"
    [] node.op = "and" -> FirstOther(says, "t")
    [] node.op = "or" -> FirstOther(says, "f")
    [] node.op = "not" -> IF says = <<>> THEN "e"
                          ELSE CASE says[1] = "t" -> "f" [] says[1] = "f" -> "t" [] OTHER -> "e"
    [] node.op \in {"eq", "neq", "gt", "in"} -> Compare(node, request)
    [] node.op = "is_tainted" -> Say(Tainted(node.categories, request))
    [] node.op = "time_between" -> Say(InWindow(request.time, node.lo, node.hi))
    [] node.op = "has_scope" -> Say(ScopeMatches(request.scopes, node.action))
    [] node.op = "preceded_by" -> Say(PrecededBy(node.scope, node.window, request))
    [] OTHER -> "e"

Holds(node, request) ==
  LET says[c \in Conditions] == Judged(c, [i \in DOMAIN Args(c) |-> says[Args(c)[i]]], request)
  IN says[node]

-----------------------------------------------------------------------------
(* evaluate: the scopes first; then the enabled policies by priority, as   *)
(* they were loaded among equals; a condition that raises denies.          *)
Before(policies, i, j) ==
  \/ policies[i].priority < policies[j].priority
  \/ policies[i].priority = policies[j].priority /\ i <= j

Rank(policies, i) == Cardinality({j \in DOMAIN policies : Before(policies, j, i)})

ByPriority(policies) ==
  [n \in DOMAIN policies |-> CHOOSE i \in DOMAIN policies : Rank(policies, i) = n]

Applies(p, request) ==
  /\ p.enabled /\ ActionMatches(p.actions, request.action)
  /\ ResourceMatches(p.types, request.type)
  /\ Holds(p.condition, request) # "f"

Effect(p, request) == IF Holds(p.condition, request) = "e" THEN "deny" ELSE p.effect

Evaluate(policies, granted, request) ==
  LET order == ByPriority(policies)
      met == {n \in DOMAIN order : Applies(policies[order[n]], request)} IN
  IF ~ScopeMatches(granted, request.action) \/ met = {} THEN "deny"
  ELSE Effect(policies[order[Min(met)]], request)

=============================================================================
