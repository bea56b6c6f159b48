------------------------------ MODULE Sidecar ------------------------------
(***************************************************************************)
(* The sidecar (sidecar/main.go): a second engine, which knows the         *)
(* policies of a bundle and nothing else, and the loop that refreshes the  *)
(* bundle.  The service it stands in for is PolicyEngine over the policies *)
(* of the moment.                                                          *)
(***************************************************************************)
EXTENDS PolicyEngine

CONSTANTS Lists,              \* the policies the service may have, as it loads them
          Shown,              \* bound: the lists that may follow one another
          Granted, Asked,     \* the scopes of the agent, and its requests
          Every,              \* BUNDLE_REFRESH_SECONDS
          MaxAge              \* bound: where ages stop

(* A bundle lists what the service would load, by priority.                *)
Sorted(S) == [i \in DOMAIN S |-> S[ByPriority(S)[i]]]

SidecarAssumption ==
  /\ Every \in Nat \ {0} /\ MaxAge \in Nat /\ MaxAge > Every
  /\ Shown \subseteq Lists
  /\ \A l \in Lists :
       /\ l \in Seq({l[i] : i \in DOMAIN l}) /\ Sorted(l) # None
       /\ \A i \in DOMAIN l : /\ l[i].priority \in Nat /\ l[i].condition \in Conditions
                             /\ l[i].effect \in {"allow", "deny", "require_approval"}
  /\ \A r \in Asked :
       {"action", "type", "attrs", "taint", "generic", "time", "scopes", "history"} \subseteq DOMAIN r

VARIABLES policies,   \* those of the service now, as it loads them
          bundle,     \* the loaded engine, None before the first bundle
          loop,       \* the refresh loop, what it received and when; the ticker
          age,        \* history: how old what the bundle says is
          late,       \* history: a refresh has failed, or taken long, since the last good one
          answer      \* of the last request: what both engines said

vars == <<policies, bundle, loop, age, late, answer>>

-----------------------------------------------------------------------------
(* matchAction: no actions match nothing, and of the patterns only "*" and *)
(* "crm.*" are known.                                                      *)
MatchAction(actions, action) ==
  \E s \in actions : s.form \in {"any", "exact", "dot"} /\ Matches(s, action)

(* get: the sidecar's names do not start with "ctx.", under which it keeps *)
(* the request's context.                                                  *)
Get(path, request) == IF path.rooted THEN None ELSE request.attrs[path.name]

(* toFloat: 0 when it is no number.                                        *)
ToFloat(v) == IF v = None THEN 0 ELSE v

(* evalCondition, given what the operands say: an operand that is not an   *)
(* object counts as no condition, {} and an operator it does not know as   *)
(* false.                                                                  *)
Taken(node, says, request) ==
  CASE node.op \in {"nil", "false"} -> TRUE
    [] node.op = "and" -> \A i \in DOMAIN says : says[i]
    [] node.op = "or" -> \E i \in DOMAIN says : says[i]
    [] node.op = "not" -> says # <<>> /\ ~says[1]
    [] node.op = "eq" -> Get(node.path, request) = node.value
    [] node.op = "neq" -> Get(node.path, request) # node.value
    [] node.op = "in" -> Get(node.path, request) \in node.value
    [] node.op = "gt" -> ToFloat(Get(node.path, request)) > node.value
    [] OTHER -> FALSE

EvalCondition(node, request) ==
  LET says[c \in Conditions] == Taken(c, [i \in DOMAIN Args(c) |-> says[Args(c)[i]]], request)
  IN says[node]

(* Decide: the first enabled policy of the bundle that matches; no role is *)
(* asked for, no resource type read, and what no policy matches is allowed.*)
Decide(loaded, request) ==
  LET met == {n \in DOMAIN loaded : /\ loaded[n].enabled
                                    /\ MatchAction(loaded[n].actions, request.action)
                                    /\ EvalCondition(loaded[n].condition, request)} IN
  IF met = {} THEN "allow" ELSE loaded[Min(met)].effect

-----------------------------------------------------------------------------
NoAnswer == [request |-> None, service |-> "none", sidecar |-> "none"]

Init ==
  /\ policies \in Lists
  /\ bundle = None /\ age = 0 /\ late = FALSE
  /\ loop = [pc |-> "due", got |-> <<>>, clock |-> 0, left |-> Every, ticked |-> FALSE]
  /\ answer = NoAnswer

(* refreshOnce: the service answers with what it has when it is asked; a   *)
(* request has no timeout of its own.                                      *)
RefreshAsks ==
  /\ loop.pc = "due"
  /\ loop' = [loop EXCEPT !.pc = "asked", !.got = Sorted(policies), !.clock = 0]
  /\ UNCHANGED <<policies, bundle, age, late, answer>>

(* The ticker keeps one tick for a loop that is late.                      *)
Rest(l) ==
  [l EXCEPT !.pc = IF l.ticked THEN "due" ELSE "wait", !.got = <<>>, !.clock = 0,
            !.ticked = FALSE]

RefreshStores_Once ==
  /\ loop.pc = "asked"
  /\ bundle' = IF bundle = None THEN loop.got ELSE bundle
  /\ age' = IF bundle = None THEN loop.clock ELSE age
  /\ late' = (loop.clock > 0)
  /\ loop' = Rest(loop)
  /\ answer' = NoAnswer
  /\ UNCHANGED policies
RefreshStores ==
  /\ loop.pc = "asked"
  /\ bundle' = loop.got /\ age' = loop.clock
  /\ late' = (loop.clock > 0)
  /\ loop' = Rest(loop)
  /\ answer' = NoAnswer
  /\ UNCHANGED policies

RefreshFails ==
  /\ loop.pc = "asked"
  /\ late' = TRUE /\ loop' = Rest(loop)
  /\ UNCHANGED <<policies, bundle, age, answer>>

Publish(list) ==
  /\ policies \in Shown \ {list} /\ policies' = list
  /\ answer' = NoAnswer
  /\ UNCHANGED <<bundle, loop, age, late>>

(* handleCheck answers 503 until a bundle is loaded.                       *)
Check(request) ==
  /\ answer' = [request |-> request, service |-> Evaluate(policies, Granted, request),
                sidecar |-> IF bundle = None THEN "unavailable" ELSE Decide(bundle, request)]
  /\ UNCHANGED <<policies, bundle, loop, age, late>>

Tick ==
  /\ loop.pc # "due"
  /\ loop' = [loop EXCEPT !.clock = IF loop.pc = "asked" /\ @ < MaxAge THEN @ + 1 ELSE @,
                           !.left = IF @ = 1 THEN Every ELSE @ - 1,
                           !.pc = IF loop.left = 1 /\ @ = "wait" THEN "due" ELSE @,
                           !.ticked = @ \/ (loop.left = 1 /\ loop.pc = "asked")]
  /\ age' = IF bundle = None \/ age = MaxAge THEN age ELSE age + 1
  /\ late' = (late \/ loop.pc = "asked")
  /\ answer' = NoAnswer
  /\ UNCHANGED <<policies, bundle>>

Next ==
  \/ RefreshAsks \/ RefreshStores \/ RefreshFails \/ Tick
  \/ \E l \in Shown : Publish(l)
  \/ \E r \in Asked : Check(r)

Spec == Init /\ [][Next]_vars

-----------------------------------------------------------------------------
(* The types of the loop, the bundle and the answers (sidecar/main.go).    *)
TypeOK ==
  /\ policies \in Lists
  /\ bundle # None => \A i \in 2..Len(bundle) : bundle[i - 1].priority <= bundle[i].priority
  /\ loop.pc \in {"due", "asked", "wait"} /\ loop.clock \in 0..MaxAge
  /\ loop.left \in 1..Every /\ loop.ticked \in BOOLEAN
  /\ age \in 0..MaxAge /\ late \in BOOLEAN
  /\ answer.service \in {"none", "allow", "deny", "require_approval"}
  /\ answer.sidecar \in {"none", "unavailable", "allow", "deny", "require_approval"}

Enabled == {i \in DOMAIN policies : policies[i].enabled}

(* The service's answer is that of the policy of the least priority whose  *)
(* condition holds or raises; it allows nothing without a role, without a  *)
(* policy, or by a condition it cannot evaluate (evaluate).                *)
FirstDecides ==
  answer.request # None =>
    LET r == answer.request
        met == {i \in Enabled : /\ ActionMatches(policies[i].actions, r.action)
                               /\ ResourceMatches(policies[i].types, r.type)
                               /\ Holds(policies[i].condition, r) \in {"t", "e"}} IN
    /\ answer.service = "allow" => ScopeMatches(Granted, r.action) /\ met # {}
    /\ met # {} /\ ScopeMatches(Granted, r.action) =>
         \E i \in met :
           /\ \A j \in met : policies[i].priority <= policies[j].priority
           /\ answer.service = IF Holds(policies[i].condition, r) = "e" THEN "deny"
                              ELSE policies[i].effect

(* The conditions that ask for taint only to restrict, as the guide of     *)
(* engine.py recommends.                                                   *)
Untainted(node) ==
  LET clean[c \in Conditions] ==
        c.op # "is_tainted" /\ \A i \in DOMAIN Args(c) : clean[Args(c)[i]]
  IN clean[node]
Restricts(p) ==
  Untainted(p.condition) \/ (p.condition.op = "is_tainted" /\ p.effect = "deny")

LessTainted(r, q) ==
  /\ r = [q EXCEPT !.taint = r.taint, !.generic = r.generic]
  /\ q.generic \/ (~r.generic /\ r.taint \subseteq q.taint)

(* Then more taint never allows more, and a request tainted in general is  *)
(* never allowed where one tainted by a single source is not               *)
(* (_taint_state, "fail-safe").                                            *)
TaintOnlyRestricts ==
  /\ answer.request # None /\ answer.service = "allow"
  /\ \A i \in Enabled : Restricts(policies[i])
  => \A r \in Asked : LessTainted(r, answer.request) => Evaluate(policies, Granted, r) = "allow"

(* The operators and the patterns the two engines read alike; not needs an *)
(* operand, without which one raises and the other says no.                *)
Shared(node) ==
  LET shared[c \in Conditions] ==
        /\ c.op \in {"and", "or", "not"} /\ (c.op = "not" => Args(c) # <<>>)
        /\ \A i \in DOMAIN Args(c) : shared[Args(c)[i]]
  IN shared[node]
SharedPolicy(p) ==
  /\ p.types = {} /\ p.actions # {} /\ Shared(p.condition)
  /\ \A s \in p.actions : s.form \in {"any", "exact", "dot"}

(* Where the scopes grant the action, every policy is written in what both *)
(* engines read alike and one of them matches, the sidecar answers as the  *)
(* service that had its bundle; nowhere else can it be relied on to        *)
(* (Decide, matchAction, evalCondition).                                   *)
SidecarAgrees ==
  /\ answer.request # None /\ bundle = Sorted(policies)
  /\ ScopeMatches(Granted, answer.request.action)
  /\ \A i \in DOMAIN policies : SharedPolicy(policies[i])
  /\ \E i \in Enabled : Applies(policies[i], answer.request)
  => answer.sidecar = answer.service

(* What the sidecar answers by is no older than its interval, unless a     *)
(* refresh failed or took long; a failure keeps the old bundle             *)
(* (refreshLoop, refreshOnce).                                             *)
StaleOnlyByFailure == bundle # None /\ age > Every => late

=============================================================================
