------------------------ MODULE DecisionService_proofs ------------------------
(***************************************************************************)
(* For any agents, users, requests, policies and administrators, any TTL   *)
(* and any bound on the length of a check: an allow is never staler than   *)
(* StaleBound, require_approval comes with its approval request, and what  *)
(* was computed was recorded.                                              *)
(*                                                                         *)
(* KillBounded and its likes speak of the last step of a check.  The       *)
(* invariant says how fresh a check is at every step (SeenOK: what it read *)
(* held when it read it, and the check is only age old), how fresh a cache *)
(* entry is by the time it has left (CacheFresh), and adds the two for an  *)
(* answer taken from the cache (HitOK).                                    *)
(***************************************************************************)
EXTENDS DecisionService, Integers, TLAPS

(* The check q goes on because it saw ground g hold.                       *)
RestsOn(q, g) ==
  \/ g = "active" /\ q.pc \in Evaluating \ {"gate"}
  \/ g = "scopes" /\ q.pc \in {"roles", "seat", "jit", "policies"} /\ Grants(q.granted)
  \/ g \in {"scopes", "policy"} /\ q.pc = "history" /\ q.effect = "allow"
  \/ /\ q.pc \in {"store", "tip", "append", "finish"}
     /\ q.source = "engine" /\ q.effect = "allow"

SeenOK(q) == \A g \in Grounds : RestsOn(q, g) => Within(q.agent, g, q.age)

(* The assignments a check has loaded are as old as the check at most.     *)
RolesOK(q) ==
  q.pc = "roles" => \A x \in q.roles : since[<<"assigned", q.agent, x[2]>>] <= q.age

HitOK(q) ==
  q.pc = "finish" /\ q.source = "cache" /\ q.effect = "allow"
  => \A g \in Grounds : Within(q.agent, g, q.age + Span + TTL - 1)

(* Where the decision comes from: only the engine and the cache allow.     *)
SourceOK(q) ==
  /\ q.pc \in Evaluating \cup {"lookup"} => q.source = "none"
  /\ q.pc \in {"lookup", "gate", "assignments"} => q.granted = {}
  /\ q.pc \in {"seat", "jit"} => q.user \in Users
  /\ q.source \in {"gate", "error"} => q.effect = "deny"
  /\ q.pc \in {"store", "tip", "append"} => q.source \in {"engine", "gate", "error"}
  /\ q.pc = "approval" => /\ q.source \in {"engine", "gate", "error"}
                          /\ q.effect = "require_approval"
  /\ q.pc = "finish" => q.source \in {"engine", "gate", "error", "cache"}

RecordOK(q) ==
  q.pc \in {"approval", "finish", "done"} /\ q.source # "cache"
  => <<q.agent, q.effect>> \in logged

ApprovalOK(q) ==
  /\ q.pc = "finish" /\ q.effect = "require_approval" => q.approval = "pending"
  /\ q.pc = "done" /\ q.effect = "require_approval" => q.approval = "committed"

RequestOK(q) ==
  /\ q \in RequestType
  /\ SeenOK(q) /\ RolesOK(q) /\ HitOK(q) /\ SourceOK(q) /\ RecordOK(q) /\ ApprovalOK(q)

ClocksFresh == \A f \in Facts : Holds(f) => since[f] = 0

CacheFresh ==
  \A a \in Agents :
    /\ cache[a].effect # "require_approval"
    /\ cache[a].left > 0 /\ cache[a].effect = "allow"
       => \A g \in Grounds : Within(a, g, Span + TTL - cache[a].left)

IInv ==
  /\ TypeOK
  /\ \A r \in Requests : RequestOK(req[r])
  /\ ClocksFresh
  /\ CacheFresh

-----------------------------------------------------------------------------
USE DEF Evaluating

(* The clocks are numbers.                                                 *)
LEMMA ClocksTyped ==
  ASSUME TypeOK
  PROVE  ClockLimit \in Nat /\ \A f \in Facts : since[f] \in 0 .. ClockLimit
BY DecisionAssumption DEF TypeOK, ClockLimit, StaleBound

(* The facts a ground is made of.                                          *)
LEMMA FactsOf ==
  ASSUME NEW a \in Agents
  PROVE  /\ <<"active", a>> \in Facts /\ <<"policy", a>> \in Facts
         /\ \A ro \in Roles : <<"assigned", a, ro>> \in Facts /\ <<"grants", ro>> \in Facts
BY DEF Facts

(* If no clock advances by more than d, neither does the age of a ground.  *)
LEMMA WithinLater ==
  ASSUME TypeOK, NEW a \in Agents, NEW g \in Grounds, NEW n \in Int, NEW m \in Int,
         NEW d \in Nat, n + d <= m, Within(a, g, n),
         \A f \in Facts : since'[f] \in Nat /\ since'[f] <= since[f] + d
  PROVE  Within(a, g, m)'
<1>1. ASSUME NEW f \in Facts, since[f] <= n PROVE since'[f] <= m
  BY <1>1, ClocksTyped
<1>2. CASE g \in {"active", "policy"}
  BY <1>1, <1>2, FactsOf DEF Within
<1>3. CASE g = "scopes"
  <2>1. PICK ro \in Roles : since[<<"assigned", a, ro>>] <= n /\ since[<<"grants", ro>>] <= n
    BY <1>3 DEF Within
  <2>2. since'[<<"assigned", a, ro>>] <= m /\ since'[<<"grants", ro>>] <= m
    BY <1>1, <2>1, FactsOf
  <2> QED BY <1>3, <2>2 DEF Within
<1> QED BY <1>2, <1>3 DEF Grounds

(* A ground read at most n ticks ago was read at most m ticks ago.         *)
LEMMA WithinWeaker ==
  ASSUME TypeOK, NEW a \in Agents, NEW g \in Grounds, NEW n \in Int, NEW m \in Int,
         n <= m, Within(a, g, n)
  PROVE  Within(a, g, m)
<1>1. ASSUME NEW f \in Facts, since[f] <= n PROVE since[f] <= m
  BY <1>1, ClocksTyped
<1>2. CASE g \in {"active", "policy"}
  BY <1>1, <1>2, FactsOf DEF Within
<1>3. CASE g = "scopes"
  <2>1. PICK ro \in Roles : since[<<"assigned", a, ro>>] <= n /\ since[<<"grants", ro>>] <= n
    BY <1>3 DEF Within
  <2>2. since[<<"assigned", a, ro>>] <= m /\ since[<<"grants", ro>>] <= m
    BY <1>1, <2>1, FactsOf
  <2> QED BY <1>3, <2>2 DEF Within
<1> QED BY <1>2, <1>3 DEF Grounds

(* Nothing is staler than it was if the clocks stand still.                *)
LEMMA WithinSame ==
  ASSUME UNCHANGED since
  PROVE  \A a, g, n : Within(a, g, n)' <=> Within(a, g, n)
BY DEF Within

(* Clocks that stand still change nothing that is known of a check.        *)
LEMMA RequestSame ==
  ASSUME UNCHANGED since, logged \subseteq logged', NEW q, RequestOK(q)
  PROVE  RequestOK(q)'
BY WithinSame DEF RequestOK, SeenOK, RolesOK, HitOK, SourceOK, RecordOK, ApprovalOK

(* The clocks stand still and so does what they measure.                   *)
LEMMA FreshSame ==
  ASSUME ClocksFresh, UNCHANGED <<since, active, policy, assigned, roleScopes>>
  PROVE  ClocksFresh'
BY DEF ClocksFresh, Holds

LEMMA CacheSame ==
  ASSUME CacheFresh, UNCHANGED <<since, cache>>
  PROVE  CacheFresh'
BY WithinSame DEF CacheFresh

-----------------------------------------------------------------------------
(* A check takes a step of its own: the check it becomes is all that must  *)
(* be looked at.                                                           *)
LEMMA LocalStep ==
  ASSUME IInv, NEW r \in Requests, NEW q, RequestOK(q),
         req' = [req EXCEPT ![r] = q],
         UNCHANGED <<db, cache, logged, since>>
  PROVE  IInv'
<1> USE DEF db
<1>1. q \in RequestType BY DEF RequestOK
<1>2. TypeOK' BY <1>1 DEF IInv, TypeOK
<1>3. ASSUME NEW o \in Requests PROVE RequestOK(req[o])'
  <2>1. req'[o] = q \/ req'[o] = req[o] BY DEF IInv, TypeOK
  <2>2. RequestOK(req'[o]) BY <2>1 DEF IInv
  <2>3. PICK p : p = req'[o] OBVIOUS
  <2>4. RequestOK(p)' BY <2>2, <2>3, RequestSame
  <2> QED BY <2>3, <2>4 DEF RequestOK, SeenOK, RolesOK, HitOK, SourceOK, RecordOK, ApprovalOK
<1>4. ClocksFresh' BY FreshSame DEF IInv
<1>5. CacheFresh' BY CacheSame DEF IInv
<1> QED BY <1>2, <1>3, <1>4, <1>5 DEF IInv

(* Facts about a check in flight that every local step uses.               *)
LEMMA InFlight ==
  ASSUME IInv, NEW r \in Requests
  PROVE  /\ RequestOK(req[r])
         /\ req[r] \in RequestType
         /\ req[r].agent \in Agents
         /\ req[r].age \in 0 .. Span
         /\ TypeOK
BY DEF IInv, RequestOK, RequestType

(* A check begins, with nothing known.                                     *)
LEMMA StartInv ==
  ASSUME IInv, NEW r \in Requests, NEW a \in Agents,
         NEW u \in Users \cup {Autonomous}, Start(r, a, u)
  PROVE  IInv'
<1>1. RequestOK(Started(a, u))
  BY DecisionAssumption
  DEF RequestOK, RequestType, Started, Running, Effects, SeenOK, RestsOn, RolesOK, HitOK,
      SourceOK, RecordOK, ApprovalOK
<1> QED BY <1>1, LocalStep DEF Start

(* An allow from the cache is as fresh as its entry.                       *)
LEMMA CacheHitInv ==
  ASSUME IInv, NEW r \in Requests, CacheHit(r)
  PROVE  IInv'
<1>0. req[r] \in RequestType BY InFlight
<1> DEFINE entry == cache[req[r].agent]
           q == [req[r] EXCEPT !.pc = "finish", !.effect = entry.effect, !.source = "cache"]
<1>1. entry \in [effect : Effects, left : 0 .. TTL] /\ entry.left > 0
  BY InFlight DEF CacheHit, IInv, TypeOK
<1>2. entry.effect \in Effects /\ entry.effect # "require_approval"
  BY <1>1, InFlight DEF IInv, CacheFresh
<1>3. ASSUME entry.effect = "allow", NEW g \in Grounds
      PROVE  Within(req[r].agent, g, req[r].age + Span + TTL - 1)
  <2>1. Within(req[r].agent, g, Span + TTL - entry.left)
    BY <1>1, <1>3, InFlight DEF IInv, CacheFresh
  <2>2. Span + TTL - entry.left <= req[r].age + Span + TTL - 1
        /\ Span + TTL - entry.left \in Int /\ req[r].age + Span + TTL - 1 \in Int
    BY <1>1, InFlight, DecisionAssumption
  <2> HIDE DEF entry
  <2> QED BY <2>1, <2>2, InFlight, WithinWeaker
<1>4. req' = [req EXCEPT ![r] = q]
  BY InFlight DEF CacheHit, IInv, TypeOK
<1> HIDE DEF entry
<1>5. q \in RequestType /\ q.agent = req[r].agent /\ q.age = req[r].age
      /\ q.pc = "finish" /\ q.effect = entry.effect /\ q.source = "cache"
  BY <1>0, <1>2 DEF RequestType, Running
<1> HIDE DEF q
<1>6. HitOK(q)
  BY <1>3, <1>5 DEF HitOK
<1>7. RolesOK(q)
  BY <1>5 DEF RolesOK
<1>8. RequestOK(q)
  BY <1>2, <1>5, <1>6, <1>7
  DEF RequestOK, ApprovalOK, SeenOK, RestsOn, SourceOK, RecordOK
<1> QED BY <1>4, <1>8, LocalStep DEF CacheHit

(* A miss, or a cache that is left out.                                    *)
LEMMA CacheMissInv ==
  ASSUME IInv, NEW r \in Requests, CacheMiss(r)
  PROVE  IInv'
<1>0. req[r] \in RequestType BY InFlight
<1> PICK up \in BOOLEAN : req' = [req EXCEPT ![r].pc = "gate", ![r].store = up]
  BY DEF CacheMiss
<1> DEFINE q == [req[r] EXCEPT !.pc = "gate", !.store = up]
<1>1. q \in RequestType /\ q.pc = "gate" /\ q.source = req[r].source
      /\ q.granted = req[r].granted
  BY <1>0 DEF RequestType, Running
<1>2. req' = [req EXCEPT ![r] = q]
  BY DEF IInv, TypeOK
<1> HIDE DEF q
<1>3. req[r].source = "none" /\ req[r].granted = {}
  BY InFlight DEF RequestOK, SourceOK, CacheMiss, At
<1>4. RequestOK(q)
  BY <1>1, <1>3 DEF RequestOK, SeenOK, RestsOn, RolesOK, HitOK, SourceOK, RecordOK, ApprovalOK
<1> QED BY <1>2, <1>4, LocalStep DEF CacheMiss

(* A check that passes the gate read an active agent.                      *)
LEMMA GateInv ==
  ASSUME IInv, NEW r \in Requests, Gate(r)
  PROVE  IInv'
<1>0. req[r] \in RequestType BY InFlight
<1>1. req[r].source = "none" /\ req[r].granted = {}
  BY InFlight DEF RequestOK, SourceOK, Gate, At
<1>2. CASE active[req[r].agent]
  <2> DEFINE q == [req[r] EXCEPT !.pc = "assignments"]
  <2>1. Within(req[r].agent, "active", req[r].age)
    <3>1. since[<<"active", req[r].agent>>] = 0
      BY <1>2, InFlight, FactsOf DEF IInv, ClocksFresh, Holds
    <3> QED BY <3>1, InFlight DEF Within
  <2>2. q \in RequestType /\ q.agent = req[r].agent /\ q.age = req[r].age
        /\ q.pc = "assignments" /\ q.source = req[r].source
        /\ q.granted = req[r].granted
    BY <1>0 DEF RequestType, Running
  <2>3. req' = [req EXCEPT ![r] = q]
    BY <1>2 DEF Gate, IInv, TypeOK
  <2> HIDE DEF q
  <2>4. SeenOK(q)
    BY <1>1, <2>1, <2>2, InFlight DEF SeenOK, RestsOn
  <2>5. RequestOK(q)
    BY <1>1, <2>2, <2>4 DEF RequestOK, RolesOK, HitOK, SourceOK, RecordOK, ApprovalOK
  <2> QED BY <2>3, <2>5, LocalStep DEF Gate
<1>3. CASE ~active[req[r].agent]
  <2> DEFINE q == [req[r] EXCEPT !.pc = "tip", !.effect = "deny", !.source = "gate"]
  <2>1. q \in RequestType /\ q.pc = "tip" /\ q.effect = "deny" /\ q.source = "gate"
    BY <1>0 DEF RequestType, Running, Effects
  <2>2. req' = [req EXCEPT ![r] = q]
    BY <1>3 DEF Gate, IInv, TypeOK
  <2> HIDE DEF q
  <2>3. RequestOK(q)
    BY <2>1 DEF RequestOK, SeenOK, RestsOn, RolesOK, HitOK, SourceOK, RecordOK, ApprovalOK
  <2> QED BY <2>2, <2>3, LocalStep DEF Gate
<1> QED BY <1>2, <1>3

(* A check resolves scopes: it stays sound if what it keeps was granted by *)
(* a role it was assigned, and the assignments it loaded are as old as it. *)
LEMMA ScopesStep ==
  ASSUME IInv, NEW r \in Requests, NEW q \in RequestType,
         req[r].pc \in {"assignments", "roles", "seat", "jit"},
         q.pc \in {"roles", "seat", "jit", "policies"},
         q.agent = req[r].agent, q.age = req[r].age, q.source = req[r].source,
         q.pc \in {"seat", "jit"} => q.user \in Users,
         Grants(q.granted) => Within(req[r].agent, "scopes", req[r].age),
         RolesOK(q),
         req' = [req EXCEPT ![r] = q],
         UNCHANGED <<db, cache, logged, since>>
  PROVE  IInv'
<1>1. RestsOn(req[r], "active") => Within(req[r].agent, "active", req[r].age)
  BY InFlight DEF RequestOK, SeenOK, Grounds
<1>2. SeenOK(q)
  BY <1>1 DEF SeenOK, RestsOn, Grounds
<1>3. SourceOK(q)
  BY InFlight DEF RequestOK, SourceOK
<1>4. RequestOK(q)
  BY <1>2, <1>3, InFlight DEF RequestOK, HitOK, SourceOK, RecordOK, ApprovalOK
<1> QED BY <1>4, LocalStep

(* The assignments are loaded: the agent is assigned their roles now.      *)
LEMMA ReadAssignmentsInv ==
  ASSUME IInv, NEW r \in Requests, ReadAssignments(r)
  PROVE  IInv'
<1>0. req[r] \in RequestType BY InFlight
<1> DEFINE a == req[r].agent
           by == IF req[r].user = Autonomous THEN Users ELSE {req[r].user}
           found == {x \in by \X Roles : assigned[a][x[1]] = x[2]}
           l == IF found = {} THEN "policies" ELSE "roles"
           q == [req[r] EXCEPT !.pc = l, !.roles = found]
<1>1. a \in Agents /\ by \subseteq Users
  BY InFlight DEF RequestType
<1>2. found \in SUBSET (Users \X Roles)
  BY <1>1
<1>3. ASSUME NEW x \in found PROVE since[<<"assigned", a, x[2]>>] <= req[r].age
  <2>1. x[1] \in Users /\ x[2] \in Roles /\ assigned[a][x[1]] = x[2] BY <1>1
  <2>2. PICK f : f = <<"assigned", a, x[2]>> OBVIOUS
  <2>3. f \in Facts /\ Holds(f) BY <1>1, <2>1, <2>2, FactsOf DEF Holds
  <2>4. since[f] = 0 BY <2>3 DEF IInv, ClocksFresh
  <2> QED BY <2>2, <2>4, InFlight
<1>4. l \in {"policies", "roles"} OBVIOUS
<1>5. req' = [req EXCEPT ![r].pc = l, ![r].roles = found] /\ req[r].pc = "assignments"
      /\ UNCHANGED <<db, cache, logged, since>>
  BY DEF ReadAssignments, At
<1> HIDE DEF found, l
<1>6. q \in RequestType /\ q.agent = a /\ q.age = req[r].age /\ q.pc = l
      /\ q.source = req[r].source /\ q.granted = req[r].granted /\ q.roles = found
  BY <1>0, <1>2, <1>4 DEF RequestType, Running
<1>7. req' = [req EXCEPT ![r] = q]
  BY <1>5 DEF IInv, TypeOK
<1> HIDE DEF q
<1>8. RolesOK(q)
  BY <1>3, <1>6 DEF RolesOK
<1>9. req[r].granted = {}
  BY <1>5, InFlight DEF RequestOK, SourceOK
<1>10. ~Grants(q.granted)
  BY <1>6, <1>9 DEF Grants
<1> QED BY <1>4, <1>5, <1>6, <1>7, <1>8, <1>10, ScopesStep

(* The permissions of a role the agent was assigned are added.             *)
LEMMA ReadRoleInv ==
  ASSUME IInv, NEW r \in Requests, ReadRole(r)
  PROVE  IInv'
<1>0. req[r] \in RequestType BY InFlight
<1> DEFINE a == req[r].agent
<1>1. PICK x \in req[r].roles :
        req' = [req EXCEPT ![r].roles = @ \ {x},
                           ![r].granted = @ \cup roleScopes[x[2]],
                           ![r].pc = IF req[r].roles # {x} THEN "roles"
                                     ELSE IF req[r].user = Autonomous THEN "policies"
                                     ELSE "seat"]
  BY DEF ReadRole
<1> DEFINE l == IF req[r].roles # {x} THEN "roles"
                ELSE IF req[r].user = Autonomous THEN "policies" ELSE "seat"
           s == req[r].granted \cup roleScopes[x[2]]
           q == [req[r] EXCEPT !.roles = @ \ {x}, !.granted = s, !.pc = l]
<1>2. x[2] \in Roles /\ req[r].pc = "roles" /\ UNCHANGED <<db, cache, logged, since>>
  BY <1>1, InFlight DEF RequestType, ReadRole, At
<1>3. s \in SUBSET Scopes
  BY <1>2, InFlight DEF RequestType, TypeOK
<1>4. l \in {"roles", "policies", "seat"} OBVIOUS
<1>5. Grants(s) => Within(a, "scopes", req[r].age)
  <2>1. CASE Grants(req[r].granted)
    BY <1>2, <2>1, InFlight DEF RequestOK, SeenOK, RestsOn, Grounds
  <2>2. CASE Grants(roleScopes[x[2]])
    <3>1. since[<<"assigned", a, x[2]>>] <= req[r].age
      BY <1>1, <1>2, InFlight DEF RequestOK, RolesOK
    <3>2. PICK f : f = <<"grants", x[2]>> OBVIOUS
    <3>3. f \in Facts /\ Holds(f) BY <1>2, <2>2, <3>2 DEF Facts, Holds
    <3>4. since[f] = 0 BY <3>3 DEF IInv, ClocksFresh
    <3>5. since[<<"grants", x[2]>>] <= req[r].age BY <3>2, <3>4, InFlight
    <3> QED BY <1>2, <3>1, <3>5 DEF Within
  <2> QED BY <2>1, <2>2 DEF Grants
<1>6. req' = [req EXCEPT ![r] = q]
  BY <1>1 DEF IInv, TypeOK
<1>9. l = "seat" => req[r].user \in Users
  BY <1>0 DEF RequestType
<1> HIDE DEF l, s
<1>7. q \in RequestType /\ q.agent = a /\ q.age = req[r].age /\ q.pc = l
      /\ q.source = req[r].source /\ q.granted = s /\ q.roles \subseteq req[r].roles
      /\ q.user = req[r].user
  BY <1>0, <1>3, <1>4 DEF RequestType, Running
<1> HIDE DEF q
<1>8. RolesOK(q)
  BY <1>2, <1>7, InFlight DEF RequestOK, RolesOK
<1> QED BY <1>2, <1>4, <1>5, <1>6, <1>7, <1>8, <1>9, ScopesStep

(* Without a membership the user has nothing to delegate.                  *)
LEMMA ReadSeatInv ==
  ASSUME IInv, NEW r \in Requests, ReadSeat(r)
  PROVE  IInv'
<1>0. req[r] \in RequestType BY InFlight
<1>1. req[r].pc = "seat" /\ UNCHANGED <<db, cache, logged, since>>
  BY DEF ReadSeat, At
<1>2. Grants(req[r].granted) => Within(req[r].agent, "scopes", req[r].age)
  BY <1>1, InFlight DEF RequestOK, SeenOK, RestsOn, Grounds
<1>5. req[r].user \in Users
  BY <1>1, InFlight DEF RequestOK, SourceOK
<1>3. CASE seat[req[r].user] = {}
  <2> DEFINE q == [req[r] EXCEPT !.pc = "policies", !.granted = {}]
  <2>1. q \in RequestType /\ q.agent = req[r].agent /\ q.age = req[r].age
        /\ q.pc = "policies" /\ q.source = req[r].source /\ q.granted = {}
    BY <1>0 DEF RequestType, Running
  <2>2. req' = [req EXCEPT ![r] = q]
    BY <1>3 DEF ReadSeat, IInv, TypeOK
  <2> HIDE DEF q
  <2>3. ~Grants(q.granted) /\ RolesOK(q) BY <2>1 DEF Grants, RolesOK
  <2> QED BY <1>1, <2>1, <2>2, <2>3, ScopesStep
<1>4. CASE seat[req[r].user] # {}
  <2> DEFINE b == seat[req[r].user]
             q == [req[r] EXCEPT !.pc = "jit", !.base = b]
  <2>1. req' = [req EXCEPT ![r] = q]
    BY <1>4 DEF ReadSeat, IInv, TypeOK
  <2>2. b \in SUBSET Scopes
    BY <1>5 DEF IInv, TypeOK
  <2> HIDE DEF b
  <2>3. q \in RequestType /\ q.agent = req[r].agent /\ q.age = req[r].age
        /\ q.pc = "jit" /\ q.source = req[r].source /\ q.granted = req[r].granted
        /\ q.user = req[r].user
    BY <1>0, <2>2 DEF RequestType, Running
  <2> HIDE DEF q
  <2>4. RolesOK(q) BY <2>3 DEF RolesOK
  <2> QED BY <1>1, <1>2, <1>5, <2>1, <2>3, <2>4, ScopesStep
<1> QED BY <1>3, <1>4

(* Intersecting with the user's scopes takes scopes away.                  *)
LEMMA ReadJitInv ==
  ASSUME IInv, NEW r \in Requests, ReadJit(r)
  PROVE  IInv'
<1>0. req[r] \in RequestType BY InFlight
<1> DEFINE s == req[r].granted \cap (req[r].base \cup jit[req[r].user])
           q == [req[r] EXCEPT !.pc = "policies", !.base = {}, !.granted = s]
<1>1. req[r].pc = "jit" /\ UNCHANGED <<db, cache, logged, since>>
  BY DEF ReadJit, At
<1>2. s \in SUBSET Scopes
  BY InFlight DEF RequestType
<1>3. Grants(s) => Grants(req[r].granted) BY DEF Grants
<1>4. Grants(req[r].granted) => Within(req[r].agent, "scopes", req[r].age)
  BY <1>1, InFlight DEF RequestOK, SeenOK, RestsOn, Grounds
<1>5. req' = [req EXCEPT ![r] = q]
  BY DEF ReadJit, IInv, TypeOK
<1> HIDE DEF s
<1>6. q \in RequestType /\ q.agent = req[r].agent /\ q.age = req[r].age
      /\ q.pc = "policies" /\ q.source = req[r].source /\ q.granted = s
  BY <1>0, <1>2 DEF RequestType, Running
<1> HIDE DEF q
<1>7. RolesOK(q) BY <1>6 DEF RolesOK
<1> QED BY <1>1, <1>3, <1>4, <1>5, <1>6, <1>7, ScopesStep

(* What the policies say of a check with the given scopes is type correct, *)
(* and an allow rests on scopes and policy alike.                          *)
LEMMA EvaluateAllows ==
  ASSUME NEW s, NEW p \in PolicyType
  PROVE  /\ Evaluate(s, p) \in Effects
         /\ Evaluate(s, p) = "allow" => Grants(s) /\ p.effect = "allow"
BY DEF Evaluate, PolicyType, Effects

(* An allow of the engine rests on the policies it read.                   *)
LEMMA ReadPoliciesInv ==
  ASSUME IInv, NEW r \in Requests, ReadPolicies(r)
  PROVE  IInv'
<1>0. req[r] \in RequestType BY InFlight
<1> DEFINE a == req[r].agent
           e == Evaluate(req[r].granted, policy[a])
<1>1. a \in Agents /\ policy[a] \in PolicyType
  BY InFlight, DecisionAssumption DEF IInv, TypeOK
<1>2. e \in Effects
  BY <1>1, EvaluateAllows
<1>3. e = "allow" => Within(a, "scopes", req[r].age)
  BY <1>1, EvaluateAllows, InFlight
  DEF RequestOK, SeenOK, RestsOn, Grounds, ReadPolicies, At
<1>4. e = "allow" => Within(a, "policy", req[r].age)
  <2>1. e = "allow" => since[<<"policy", a>>] = 0
    BY <1>1, EvaluateAllows, FactsOf DEF IInv, ClocksFresh, Holds
  <2> QED BY <2>1, InFlight DEF Within
<1> HIDE DEF e
<1>5. CASE policy[a].sequence
  <2> DEFINE q == [req[r] EXCEPT !.pc = "history", !.store = FALSE, !.granted = {},
                                 !.effect = e]
  <2>1. q \in RequestType /\ q.agent = a /\ q.age = req[r].age
        /\ q.pc = "history" /\ q.effect = e /\ q.source = req[r].source
    BY <1>0, <1>2 DEF RequestType, Running
  <2>2. req' = [req EXCEPT ![r] = q]
    BY <1>5 DEF ReadPolicies, IInv, TypeOK, e
  <2> HIDE DEF q
  <2>3. Within(a, "active", req[r].age)
    BY InFlight DEF RequestOK, SeenOK, RestsOn, Grounds, ReadPolicies, At
  <2>4. SourceOK(q)
    <3>1. req[r].source = "none"
      BY InFlight DEF RequestOK, SourceOK, ReadPolicies, At
    <3> QED BY <2>1, <3>1 DEF SourceOK
  <2>5. RequestOK(q)
    BY <1>3, <1>4, <2>1, <2>3, <2>4
    DEF RequestOK, SeenOK, RestsOn, Grounds, RolesOK, HitOK, RecordOK, ApprovalOK
  <2> QED BY <2>2, <2>5, LocalStep DEF ReadPolicies
<1>6. CASE ~policy[a].sequence
  <2> DEFINE q == [req[r] EXCEPT !.pc = "store", !.source = "engine", !.granted = {},
                                 !.effect = e]
  <2>1. q \in RequestType /\ q.agent = a /\ q.age = req[r].age
        /\ q.pc = "store" /\ q.effect = e /\ q.source = "engine"
    BY <1>0, <1>2 DEF RequestType, Running
  <2>2. req' = [req EXCEPT ![r] = q]
    BY <1>6 DEF ReadPolicies, IInv, TypeOK, e
  <2> HIDE DEF q
  <2>3. Within(a, "active", req[r].age)
    BY InFlight DEF RequestOK, SeenOK, RestsOn, Grounds, ReadPolicies, At
  <2>4. RequestOK(q)
    BY <1>3, <1>4, <2>1, <2>3
    DEF RequestOK, SeenOK, RestsOn, Grounds, RolesOK, HitOK, SourceOK, RecordOK, ApprovalOK
  <2> QED BY <2>2, <2>4, LocalStep DEF ReadPolicies
<1> QED BY <1>5, <1>6

(* The session's history only turns an allow into a deny.                  *)
LEMMA ReadHistoryInv ==
  ASSUME IInv, NEW r \in Requests, ReadHistory(r)
  PROVE  IInv'
<1>0. req[r] \in RequestType BY InFlight
<1> DEFINE e == IF verified[req[r].agent] THEN req[r].effect ELSE "deny"
           q == [req[r] EXCEPT !.pc = "store", !.source = "engine", !.effect = e]
<1>1. req' = [req EXCEPT ![r] = q]
  BY DEF ReadHistory, IInv, TypeOK
<1>2. e \in Effects /\ (e = "allow" => req[r].effect = "allow")
  BY InFlight DEF RequestType, Effects
<1> HIDE DEF e
<1>3. q \in RequestType /\ q.agent = req[r].agent /\ q.age = req[r].age
      /\ q.pc = "store" /\ q.effect = e /\ q.source = "engine"
  BY <1>0, <1>2 DEF RequestType, Running
<1> HIDE DEF q
<1>4. SeenOK(q)
  <2>1. e = "allow" => \A g \in Grounds : RestsOn(req[r], g)
    BY <1>2 DEF RestsOn, Grounds, ReadHistory, At
  <2> QED BY <1>3, <2>1, InFlight DEF RequestOK, SeenOK, RestsOn
<1>5. RequestOK(q)
  BY <1>3, <1>4 DEF RequestOK, RolesOK, HitOK, SourceOK, RecordOK, ApprovalOK
<1> QED BY <1>1, <1>5, LocalStep DEF ReadHistory

(* An error of the engine is a deny.                                       *)
LEMMA EngineErrorInv ==
  ASSUME IInv, NEW r \in Requests, EngineError(r)
  PROVE  IInv'
<1>0. req[r] \in RequestType BY InFlight
<1> PICK usable \in BOOLEAN :
      req' = [req EXCEPT ![r].pc = "store", ![r].effect = "deny", ![r].roles = {},
                         ![r].granted = {}, ![r].base = {}, ![r].source = "error",
                         ![r].usable = usable]
  BY DEF EngineError
<1> DEFINE q == [req[r] EXCEPT !.pc = "store", !.effect = "deny", !.roles = {}, !.granted = {},
                               !.base = {}, !.source = "error", !.usable = usable]
<1>1. q \in RequestType /\ q.pc = "store" /\ q.effect = "deny" /\ q.source = "error"
  BY <1>0 DEF RequestType, Running, Effects
<1>2. req' = [req EXCEPT ![r] = q]
  BY DEF IInv, TypeOK
<1> HIDE DEF q
<1>3. RequestOK(q)
  BY <1>1 DEF RequestOK, SeenOK, RestsOn, RolesOK, HitOK, SourceOK, RecordOK, ApprovalOK
<1> QED BY <1>2, <1>3, LocalStep DEF EngineError

(* The entry a check writes is as fresh as the check.                      *)
LEMMA StoreInv ==
  ASSUME IInv, NEW r \in Requests, Store(r)
  PROVE  IInv'
<1>0. req[r] \in RequestType BY InFlight
<1> DEFINE a == req[r].agent
           q == [req[r] EXCEPT !.pc = "tip", !.store = FALSE]
           entry == Entry(req[r].effect)
<1>1. q \in RequestType /\ q.agent = a /\ q.age = req[r].age /\ q.pc = "tip"
      /\ q.effect = req[r].effect /\ q.source = req[r].source
  BY <1>0 DEF RequestType, Running
<1>2. req' = [req EXCEPT ![r] = q]
  BY DEF Store, IInv, TypeOK
<1> HIDE DEF q
<1>3. RequestOK(q)
  BY <1>1, InFlight
  DEF RequestOK, SeenOK, RestsOn, RolesOK, HitOK, SourceOK, RecordOK, ApprovalOK, Store, At
<1>4. CASE UNCHANGED cache
  BY <1>2, <1>3, <1>4, LocalStep DEF Store
<1>5. CASE Cacheable(r) /\ cache' = [cache EXCEPT ![a] = entry]
  <2>1. a \in Agents /\ entry \in [effect : Effects, left : 0 .. TTL]
    BY InFlight, DecisionAssumption DEF RequestType, Entry
  <2>2. entry.effect # "require_approval" /\ entry.left = TTL
        /\ entry.effect = req[r].effect
    BY <1>5 DEF Cacheable, Entry
  <2>3. ASSUME entry.effect = "allow", NEW g \in Grounds PROVE Within(a, g, Span)
    <3>1. req[r].age <= Span /\ req[r].age \in Int /\ Span \in Int
      BY InFlight, DecisionAssumption DEF RequestType
    <3>2. RestsOn(req[r], g)
      BY <2>2, <2>3, InFlight DEF RequestOK, SourceOK, RestsOn, Store, At
    <3>3. Within(a, g, req[r].age) BY <3>2, InFlight DEF RequestOK, SeenOK
    <3> QED BY <2>1, <3>1, <3>3, InFlight, WithinWeaker
  <2> HIDE DEF entry
  <2>4. UNCHANGED <<active, assigned, roleScopes, seat, jit, policy, verified, logged, since>>
    BY DEF Store, db
  <2>5. TypeOK'
    BY <1>1, <1>2, <1>5, <2>1, <2>4 DEF IInv, TypeOK
  <2>6. ASSUME NEW o \in Requests PROVE RequestOK(req[o])'
    <3>1. req'[o] = q \/ req'[o] = req[o] BY <1>2 DEF IInv, TypeOK
    <3>2. PICK p : p = req'[o] /\ RequestOK(p) BY <1>3, <3>1 DEF IInv
    <3>3. RequestOK(p)' BY <2>4, <3>2, RequestSame
    <3> QED BY <3>2, <3>3
        DEF RequestOK, SeenOK, RolesOK, HitOK, SourceOK, RecordOK, ApprovalOK
  <2>7. ClocksFresh'
    BY <2>4, FreshSame DEF IInv
  <2>8. ASSUME NEW b \in Agents
        PROVE  (/\ cache[b].effect # "require_approval"
                /\ cache[b].left > 0 /\ cache[b].effect = "allow"
                   => \A g \in Grounds : Within(b, g, Span + TTL - cache[b].left))'
    <3>1. CASE b = a
      <4>1. cache'[b] = entry BY <1>5, <2>1, <3>1 DEF IInv, TypeOK
      <4>2. Span + TTL - TTL = Span BY DecisionAssumption
      <4>3. entry.effect = "allow" => \A g \in Grounds : Within(b, g, Span)'
        BY <2>3, <2>4, <3>1, WithinSame
      <4> QED BY <2>2, <3>1, <4>1, <4>2, <4>3
    <3>2. CASE b # a
      <4>1. cache'[b] = cache[b] BY <1>5, <3>2 DEF IInv, TypeOK
      <4> QED BY <2>4, <4>1, WithinSame DEF IInv, CacheFresh
    <3> QED BY <3>1, <3>2
  <2>9. CacheFresh' BY <2>8 DEF CacheFresh
  <2> QED BY <2>5, <2>6, <2>7, <2>9 DEF IInv
<1> QED BY <1>4, <1>5 DEF Store

(* Reading the audit tip changes nothing the invariant tells.              *)
LEMMA ReadTipInv ==
  ASSUME IInv, NEW r \in Requests, ReadTip(r)
  PROVE  IInv'
<1>0. req[r] \in RequestType BY InFlight
<1> DEFINE q == [req[r] EXCEPT !.pc = "append", !.tipValid = TRUE]
<1>1. q \in RequestType /\ q.agent = req[r].agent /\ q.age = req[r].age /\ q.pc = "append"
      /\ q.effect = req[r].effect /\ q.source = req[r].source
  BY <1>0 DEF RequestType, Running
<1>2. req' = [req EXCEPT ![r] = q]
  BY DEF ReadTip, IInv, TypeOK
<1> HIDE DEF q
<1>3. RequestOK(q)
  BY <1>1, InFlight
  DEF RequestOK, SeenOK, RestsOn, RolesOK, HitOK, SourceOK, RecordOK, ApprovalOK, ReadTip, At
<1> QED BY <1>2, <1>3, LocalStep DEF ReadTip

(* What was committed since a tip was read makes no other difference.      *)
LEMMA SupersededType ==
  ASSUME NEW requests \in [Requests -> RequestType]
  PROVE  Superseded(requests) \in [Requests -> RequestType]
<1>1. \A p \in RequestType : [p EXCEPT !.tipValid = FALSE] \in RequestType
  BY DEF RequestType
<1> QED BY <1>1 DEF Superseded

(* Superseding the tips keeps what a check knows.                           *)
LEMMA SupersededOK ==
  ASSUME NEW requests \in [Requests -> RequestType], NEW o \in Requests
  PROVE  LET q == Superseded(requests)[o]
             p == requests[o]
         IN  /\ q.pc = p.pc /\ q.agent = p.agent /\ q.age = p.age /\ q.effect = p.effect
             /\ q.source = p.source /\ q.granted = p.granted /\ q.approval = p.approval
             /\ q.roles = p.roles /\ q.user = p.user
<1>1. Superseded(requests)[o] \in {requests[o], [requests[o] EXCEPT !.tipValid = FALSE]}
  BY DEF Superseded
<1>2. requests[o] \in RequestType OBVIOUS
<1> QED BY <1>1, <1>2 DEF RequestType

(* A committed audit row: the log grows, the checks only learn of it.      *)
LEMMA RecordStep ==
  ASSUME IInv, NEW r \in Requests, NEW q, RequestOK(q)',
         req' = Superseded([req EXCEPT ![r] = q]),
         logged \subseteq logged', logged' \subseteq Agents \X Effects,
         verified' \in [Agents -> BOOLEAN],
         UNCHANGED <<active, assigned, roleScopes, seat, jit, policy, cache, since>>
  PROVE  IInv'
<1> DEFINE base == [req EXCEPT ![r] = q]
<1>1. q \in RequestType BY DEF RequestOK
<1>2. base \in [Requests -> RequestType] BY <1>1 DEF IInv, TypeOK
<1>3. \A o \in Requests : base[o] = IF o = r THEN q ELSE req[o]
  BY DEF IInv, TypeOK
<1> HIDE DEF base
<1>4. req' \in [Requests -> RequestType] BY <1>2, SupersededType DEF base
<1>5. TypeOK' BY <1>4 DEF IInv, TypeOK
<1>6. ASSUME NEW p, RequestOK(p) PROVE RequestOK(p)'
  BY <1>6, RequestSame
<1>7. ASSUME NEW o \in Requests PROVE RequestOK(req[o])'
  <2>1. PICK p : p = base[o] /\ RequestOK(p)'
    BY <1>3, <1>6 DEF IInv
  <2>2. PICK n : n = Superseded(base)[o] OBVIOUS
  <2>3. n \in RequestType /\ n.pc = p.pc /\ n.agent = p.agent /\ n.age = p.age
        /\ n.effect = p.effect /\ n.source = p.source /\ n.granted = p.granted
        /\ n.approval = p.approval /\ n.roles = p.roles /\ n.user = p.user
    BY <1>2, <2>1, <2>2, SupersededType, SupersededOK
  <2>4. RequestOK(n)'
    BY <2>1, <2>3
    DEF RequestOK, SeenOK, RestsOn, RolesOK, HitOK, SourceOK, RecordOK, ApprovalOK
  <2>5. n = req'[o] BY <2>2 DEF base
  <2> QED BY <2>4, <2>5 DEF RequestOK, SeenOK, RolesOK, HitOK, SourceOK, RecordOK, ApprovalOK
<1>8. ClocksFresh' BY FreshSame DEF IInv
<1>9. CacheFresh' BY CacheSame DEF IInv
<1> QED BY <1>5, <1>7, <1>8, <1>9 DEF IInv

(* The decision is on the chain before it is answered.                     *)
LEMMA RecordInv ==
  ASSUME IInv, NEW r \in Requests, Record(r)
  PROVE  IInv'
<1>0. req[r] \in RequestType BY InFlight
<1> DEFINE l == IF req[r].effect = "require_approval" THEN "approval" ELSE "finish"
           q == [req[r] EXCEPT !.pc = l, !.tipValid = FALSE]
<1>14. l \in Running BY DEF Running
<1>1. q \in RequestType /\ q.agent = req[r].agent /\ q.age = req[r].age /\ q.pc = l
      /\ q.effect = req[r].effect /\ q.source = req[r].source
  <2> HIDE DEF l
  <2> QED BY <1>0, <1>14 DEF RequestType
<1>2. req' = Superseded([req EXCEPT ![r] = q])
  <2>1. [req EXCEPT ![r].pc = l, ![r].tipValid = FALSE] = [req EXCEPT ![r] = q]
    BY DEF IInv, TypeOK
  <2> QED BY <2>1 DEF Record
<1>3. logged' = logged \cup {<<req[r].agent, req[r].effect>>}
  BY DEF Record
<1>4. logged' \subseteq Agents \X Effects
  BY <1>3, InFlight DEF RequestType, IInv, TypeOK
<1>5. l \in {"approval", "finish"} /\ (l = "approval" <=> req[r].effect = "require_approval")
  OBVIOUS
<1> HIDE DEF l, q
<1>6. SeenOK(q) /\ SourceOK(q)
  BY <1>1, <1>5, InFlight DEF RequestOK, SeenOK, RestsOn, SourceOK, Record, At
<1>7. q.source # "cache"
  BY <1>1, InFlight DEF RequestOK, SourceOK, Record, At
<1>8. UNCHANGED <<active, assigned, roleScopes, seat, jit, policy, verified, cache, since>>
  BY DEF Record, db
<1>9. PICK p : p = q OBVIOUS
<1>10. p \in RequestType /\ SeenOK(p) /\ SourceOK(p) /\ p.source # "cache"
       /\ <<p.agent, p.effect>> \in logged' /\ p.pc \in {"approval", "finish"}
       /\ (p.pc = "finish" => p.effect # "require_approval")
  BY <1>1, <1>3, <1>5, <1>6, <1>7, <1>9
<1>11. RequestOK(p)'
  <2>1. SeenOK(p)' BY <1>8, <1>10, WithinSame DEF SeenOK
  <2> QED BY <1>10, <2>1 DEF RequestOK, RolesOK, HitOK, SourceOK, RecordOK, ApprovalOK
<1>12. req' = Superseded([req EXCEPT ![r] = p]) BY <1>2, <1>9
<1>13. verified' \in [Agents -> BOOLEAN] BY <1>8 DEF IInv, TypeOK
<1> QED BY <1>3, <1>4, <1>8, <1>11, <1>12, <1>13, RecordStep

(* Another request appends its row.                                        *)
LEMMA OtherRecordInv ==
  ASSUME IInv, OtherRecord
  PROVE  IInv'
<1>1. verified' \in [Agents -> BOOLEAN]
  BY DEF OtherRecord, IInv, TypeOK
<1>2. req \in [Requests -> RequestType] BY DEF IInv, TypeOK
<1>3. UNCHANGED <<active, assigned, roleScopes, seat, jit, policy, cache, logged, since>>
  BY DEF OtherRecord
<1>4. req' \in [Requests -> RequestType] BY <1>2, SupersededType DEF OtherRecord
<1>5. TypeOK' BY <1>1, <1>3, <1>4 DEF IInv, TypeOK
<1>6. ASSUME NEW o \in Requests PROVE RequestOK(req[o])'
  <2>1. PICK p : p = req[o] /\ RequestOK(p) BY DEF IInv
  <2>2. PICK n : n = Superseded(req)[o] OBVIOUS
  <2>3. n \in RequestType /\ n.pc = p.pc /\ n.agent = p.agent /\ n.age = p.age
        /\ n.effect = p.effect /\ n.source = p.source /\ n.granted = p.granted
        /\ n.approval = p.approval /\ n.roles = p.roles /\ n.user = p.user
    BY <1>2, <2>1, <2>2, SupersededType, SupersededOK
  <2>4. RequestOK(n)
    BY <2>1, <2>3
    DEF RequestOK, SeenOK, RestsOn, RolesOK, HitOK, SourceOK, RecordOK, ApprovalOK
  <2>5. n = req'[o] BY <2>2 DEF OtherRecord
  <2>6. RequestOK(n)' BY <1>3, <2>4, RequestSame
  <2> QED BY <2>5, <2>6 DEF RequestOK, SeenOK, RolesOK, HitOK, SourceOK, RecordOK, ApprovalOK
<1>7. ClocksFresh' BY <1>3, FreshSame DEF IInv
<1>8. CacheFresh' BY <1>3, CacheSame DEF IInv
<1> QED BY <1>5, <1>6, <1>7, <1>8 DEF IInv

(* A check that failed says nothing.                                       *)
LEMMA FailedStep ==
  ASSUME IInv, NEW r \in Requests,
         req' = [req EXCEPT ![r] = [Started(req[r].agent, Autonomous) EXCEPT !.pc = "failed"]],
         UNCHANGED <<db, cache, logged, since>>
  PROVE  IInv'
<1> DEFINE q == [Started(req[r].agent, Autonomous) EXCEPT !.pc = "failed"]
<1>1. q \in RequestType /\ q.pc = "failed" /\ q.source = "none"
  <2>1. Started(req[r].agent, Autonomous) \in RequestType
        /\ Started(req[r].agent, Autonomous).source = "none"
    BY InFlight, DecisionAssumption DEF Started, RequestType, Running, Effects
  <2> QED BY <2>1 DEF RequestType
<1> HIDE DEF q
<1>2. RequestOK(q)
  BY <1>1 DEF RequestOK, SeenOK, RestsOn, RolesOK, HitOK, SourceOK, RecordOK, ApprovalOK
<1> QED BY <1>2, LocalStep DEF q

(* A refused audit row ends the check, or denies it again.                 *)
LEMMA RecordConflictInv ==
  ASSUME IInv, NEW r \in Requests, RecordConflict(r)
  PROVE  IInv'
<1>0. req[r] \in RequestType BY InFlight
<1>1. CASE req[r].source = "gate"
  <2> DEFINE q == [req[r] EXCEPT !.pc = "store", !.source = "error", !.usable = FALSE]
  <2>1. q \in RequestType /\ q.pc = "store" /\ q.source = "error"
        /\ q.effect = req[r].effect
    BY <1>0 DEF RequestType, Running
  <2>2. req' = [req EXCEPT ![r] = q]
    BY <1>1 DEF RecordConflict, IInv, TypeOK
  <2> HIDE DEF q
  <2>3. req[r].effect = "deny"
    BY <1>1, InFlight DEF RequestOK, SourceOK
  <2>4. RequestOK(q)
    BY <2>1, <2>3 DEF RequestOK, SeenOK, RestsOn, RolesOK, HitOK, SourceOK, RecordOK, ApprovalOK
  <2> QED BY <2>2, <2>4, LocalStep DEF RecordConflict
<1>2. CASE req[r].source # "gate"
  BY <1>2, FailedStep DEF RecordConflict, IInv, TypeOK
<1> QED BY <1>1, <1>2

(* The approval request is made, not yet committed.                        *)
LEMMA AddApprovalInv ==
  ASSUME IInv, NEW r \in Requests, AddApproval(r)
  PROVE  IInv'
<1>0. req[r] \in RequestType BY InFlight
<1> DEFINE q == [req[r] EXCEPT !.pc = "finish", !.approval = "pending"]
<1>1. q \in RequestType /\ q.agent = req[r].agent /\ q.age = req[r].age /\ q.pc = "finish"
      /\ q.effect = req[r].effect /\ q.source = req[r].source /\ q.approval = "pending"
  BY <1>0 DEF RequestType, Running
<1>2. req' = [req EXCEPT ![r] = q]
  BY DEF AddApproval, IInv, TypeOK
<1> HIDE DEF q
<1>3. req[r].effect = "require_approval"
      /\ req[r].source \in {"engine", "gate", "error"}
  BY InFlight DEF RequestOK, SourceOK, AddApproval, At
<1>4. RequestOK(q)
  BY <1>1, <1>3, InFlight
  DEF RequestOK, SeenOK, RestsOn, RolesOK, HitOK, SourceOK, RecordOK, ApprovalOK, AddApproval, At
<1> QED BY <1>2, <1>4, LocalStep DEF AddApproval

(* The approval request is committed with the answer.                      *)
LEMMA FinishInv ==
  ASSUME IInv, NEW r \in Requests, Finish(r)
  PROVE  IInv'
<1> DEFINE ap == IF req[r].approval = "pending" THEN "committed" ELSE "none"
           q == [Started(req[r].agent, req[r].user) EXCEPT
                   !.pc = "done", !.effect = req[r].effect, !.source = req[r].source,
                   !.approval = ap]
<1>1. ap \in {"none", "committed"} /\ (req[r].approval = "pending" => ap = "committed")
  OBVIOUS
<1>2. req' = [req EXCEPT ![r] = q]
  BY DEF Finish, IInv, TypeOK
<1> HIDE DEF ap
<1>3. q \in RequestType /\ q.agent = req[r].agent /\ q.pc = "done"
      /\ q.effect = req[r].effect /\ q.source = req[r].source /\ q.approval = ap
  <2>1. Started(req[r].agent, req[r].user) \in RequestType
        /\ Started(req[r].agent, req[r].user).agent = req[r].agent
    BY InFlight, DecisionAssumption DEF Started, RequestType, Running, Effects
  <2>2. req[r].effect \in Effects
        /\ req[r].source \in {"none", "cache", "gate", "engine", "error"}
    BY InFlight DEF RequestType
  <2> QED BY <1>1, <2>1, <2>2 DEF RequestType
<1> HIDE DEF q
<1>4. RequestOK(q)
  BY <1>1, <1>3, InFlight
  DEF RequestOK, SeenOK, RestsOn, RolesOK, HitOK, SourceOK, RecordOK, ApprovalOK, Finish, At
<1> QED BY <1>2, <1>4, LocalStep DEF Finish

(* A check that fails answers nothing.                                     *)
LEMMA FailInv ==
  ASSUME IInv, NEW r \in Requests, Fail(r)
  PROVE  IInv'
BY FailedStep DEF Fail, IInv, TypeOK

(* Administrators: a clock is reset, or left as it is.                     *)
LEMMA ResetStep ==
  ASSUME IInv, Reset,
         UNCHANGED <<verified, cache, req, logged>>,
         active' \in [Agents -> BOOLEAN],
         assigned' \in [Agents -> [Users -> Roles \cup {NoRole}]],
         roleScopes' \in [Roles -> SUBSET Scopes],
         UNCHANGED <<seat, jit>>,
         policy' \in [Agents -> Policies]
  PROVE  IInv'
<1>1. ASSUME NEW f \in Facts
      PROVE  /\ since'[f] \in 0 .. ClockLimit /\ since'[f] \in Nat
             /\ since'[f] <= since[f] + 0
             /\ Holds(f)' => since'[f] = 0
  <2>1. since[f] \in 0 .. ClockLimit /\ ClockLimit \in Nat BY ClocksTyped DEF IInv
  <2>2. since'[f] = IF Holds(f)' THEN 0 ELSE since[f] BY DEF Reset
  <2> QED BY <2>1, <2>2
<1>2. since' \in [Facts -> 0 .. ClockLimit]
  <2>1. since' = [f \in Facts |-> since'[f]] BY DEF Reset
  <2> QED BY <1>1, <2>1
<1>3. TypeOK' BY <1>2 DEF IInv, TypeOK
<1>4. ASSUME NEW a \in Agents, NEW g \in Grounds, NEW n \in Int, Within(a, g, n)
      PROVE  Within(a, g, n)'
  <2>1. n + 0 <= n BY <1>4
  <2> QED BY <1>1, <1>4, <2>1, WithinLater DEF IInv
<1>5. ASSUME NEW r \in Requests PROVE RequestOK(req[r])'
  <2>1. PICK q : q = req[r] /\ RequestOK(q) BY DEF IInv
  <2>2. q.agent \in Agents /\ q.age \in Int /\ q.age + Span + TTL - 1 \in Int
    BY <2>1, InFlight, DecisionAssumption
  <2>3. SeenOK(q)'
    BY <1>4, <2>1, <2>2 DEF RequestOK, SeenOK
  <2>4. HitOK(q)'
    BY <1>4, <2>1, <2>2 DEF RequestOK, HitOK
  <2>5. RolesOK(q)'
    <3> SUFFICES ASSUME q.pc = "roles", NEW x \in q.roles
                 PROVE  since'[<<"assigned", q.agent, x[2]>>] <= q.age
      BY DEF RolesOK
    <3>1. PICK f : f = <<"assigned", q.agent, x[2]>> OBVIOUS
    <3>2. x[2] \in Roles BY <2>1 DEF RequestOK, RequestType
    <3>3. f \in Facts BY <2>2, <3>1, <3>2, FactsOf
    <3>4. since[f] <= q.age BY <2>1, <3>1 DEF RequestOK, RolesOK
    <3>5. since[f] \in Int BY <3>3, ClocksTyped DEF IInv
    <3> QED BY <1>1, <2>2, <3>1, <3>3, <3>4, <3>5
  <2>6. RequestOK(q)'
    BY <2>1, <2>3, <2>4, <2>5 DEF RequestOK, SourceOK, RecordOK, ApprovalOK
  <2> QED BY <2>1, <2>6 DEF RequestOK, SeenOK, RolesOK, HitOK, SourceOK, RecordOK, ApprovalOK
<1>6. ClocksFresh' BY <1>1 DEF ClocksFresh
<1>7. CacheFresh'
  <2> SUFFICES ASSUME NEW a \in Agents
               PROVE  (/\ cache[a].effect # "require_approval"
                       /\ cache[a].left > 0 /\ cache[a].effect = "allow"
                          => \A g \in Grounds : Within(a, g, Span + TTL - cache[a].left))'
    BY DEF CacheFresh
  <2>1. Span + TTL - cache[a].left \in Int BY DecisionAssumption DEF IInv, TypeOK
  <2> QED BY <1>4, <2>1 DEF IInv, CacheFresh
<1> QED BY <1>3, <1>5, <1>6, <1>7 DEF IInv

(* An administrator's change lets no clock jump.                           *)
LEMMA AdminInv ==
  ASSUME IInv,
         \/ \E a \in Agents, b \in BOOLEAN : SetActive(a, b)
         \/ \E a \in Agents, p \in Policies : SetPolicy(a, p)
         \/ \E a \in Agents, u \in Users, ro \in Roles \cup {NoRole} : SetAssignment(a, u, ro)
         \/ \E ro \in Roles, s \in RoleScopes : SetRoleScopes(ro, s)
         \/ \E u \in Users, s \in SeatScopes : SetSeat(u, s)
         \/ \E u \in Users, s \in JitScopes : SetJit(u, s)
  PROVE  IInv'
<1>1. CASE \E a \in Agents, b \in BOOLEAN : SetActive(a, b)
  BY <1>1, ResetStep DEF SetActive, IInv, TypeOK
<1>2. CASE \E a \in Agents, p \in Policies : SetPolicy(a, p)
  BY <1>2, ResetStep DEF SetPolicy, IInv, TypeOK
<1>3. CASE \E a \in Agents, u \in Users, ro \in Roles \cup {NoRole} : SetAssignment(a, u, ro)
  BY <1>3, ResetStep DEF SetAssignment, IInv, TypeOK
<1>4. CASE \E ro \in Roles, s \in RoleScopes : SetRoleScopes(ro, s)
  BY <1>4, ResetStep, DecisionAssumption DEF SetRoleScopes, IInv, TypeOK
<1>5. CASE \/ \E u \in Users, s \in SeatScopes : SetSeat(u, s)
           \/ \E u \in Users, s \in JitScopes : SetJit(u, s)
  <2>1. seat' \in [Users -> SUBSET Scopes] /\ jit' \in [Users -> SUBSET Scopes]
    <3>1. SeatScopes \subseteq SUBSET Scopes BY DecisionAssumption DEF Scopes
    <3>2. CASE \E u \in Users, s \in SeatScopes : SetSeat(u, s)
      BY <3>1, <3>2 DEF SetSeat, IInv, TypeOK
    <3>3. CASE \E u \in Users, s \in JitScopes : SetJit(u, s)
      BY <3>3, DecisionAssumption DEF SetJit, IInv, TypeOK
    <3> QED BY <1>5, <3>2, <3>3
  <2>2. UNCHANGED <<active, assigned, roleScopes, policy, verified, cache, req, logged, since>>
    BY <1>5 DEF SetSeat, SetJit
  <2>3. TypeOK' BY <2>1, <2>2 DEF IInv, TypeOK
  <2>4. ASSUME NEW r \in Requests PROVE RequestOK(req[r])'
    <3>1. PICK q : q = req[r] /\ RequestOK(q) BY DEF IInv
    <3>2. RequestOK(q)' BY <2>2, <3>1, RequestSame
    <3> QED BY <2>2, <3>1, <3>2
        DEF RequestOK, SeenOK, RolesOK, HitOK, SourceOK, RecordOK, ApprovalOK
  <2> QED BY <2>2, <2>3, <2>4, FreshSame, CacheSame DEF IInv
<1> QED BY <1>1, <1>2, <1>3, <1>4, <1>5

(* A tick ages a check and its grounds alike.                              *)
LEMMA TickInv ==
  ASSUME IInv, Tick
  PROVE  IInv'
<1>1. ASSUME NEW f \in Facts
      PROVE  /\ since[f] \in Nat /\ since'[f] \in 0 .. ClockLimit /\ since'[f] \in Nat
             /\ since'[f] <= since[f] + 1
             /\ Holds(f)' => since'[f] = 0
  <2>1. since[f] \in 0 .. ClockLimit /\ ClockLimit \in Nat
    BY ClocksTyped DEF IInv
  <2>2. since'[f] = IF Holds(f) THEN 0 ELSE Later(since[f])
    BY DEF Tick
  <2>3. Holds(f)' <=> Holds(f)
    BY DEF Tick, db, Holds
  <2> QED BY <2>1, <2>2, <2>3 DEF Later
<1>2. since' \in [Facts -> 0 .. ClockLimit]
  <2>1. since' = [f \in Facts |-> since'[f]]
    BY DEF Tick
  <2> QED BY <1>1, <2>1
<1>10. ASSUME NEW a \in Agents, NEW g \in Grounds, NEW n \in Int, NEW m \in Int,
              n + 1 <= m, Within(a, g, n)
       PROVE  Within(a, g, m)'
  BY <1>1, <1>10, WithinLater DEF IInv
<1>3. ASSUME NEW r \in Requests
      PROVE  req'[r] \in RequestType /\ RequestOK(req[r])'
  <2>1. PICK p : p = req[r] /\ RequestOK(p) BY DEF IInv
  <2>2. PICK n : n = req'[r] OBVIOUS
  <2>3. p \in RequestType /\ p.age \in 0 .. Span /\ p.agent \in Agents
    BY <2>1 DEF RequestOK, RequestType
  <2>4. n = IF p.pc \in Running THEN [p EXCEPT !.age = @ + 1] ELSE p
    BY <2>1, <2>2 DEF Tick
  <2>5. p.pc \in Running => p.age < Span
    BY <2>1 DEF Tick
  <2>6. p.age + 1 \in 0 .. Span \/ p.pc \notin Running
    BY <2>3, <2>5, DecisionAssumption
  <2>7. /\ n \in RequestType /\ n.pc = p.pc /\ n.agent = p.agent /\ n.effect = p.effect
        /\ n.source = p.source /\ n.granted = p.granted /\ n.approval = p.approval
        /\ n.roles = p.roles /\ n.user = p.user
        /\ n.age = IF p.pc \in Running THEN p.age + 1 ELSE p.age
    <3>1. CASE p.pc \in Running
      <4>1. n = [p EXCEPT !.age = p.age + 1] BY <2>4, <3>1
      <4> QED BY <2>3, <2>6, <3>1, <4>1 DEF RequestType
    <3>2. CASE p.pc \notin Running BY <2>3, <2>4, <3>2
    <3> QED BY <3>1, <3>2
  <2>8. UNCHANGED logged BY DEF Tick
  <2>9. SeenOK(n)'
    <3> SUFFICES ASSUME NEW g \in Grounds, RestsOn(n, g)
                 PROVE  Within(n.agent, g, n.age)'
      BY <2>2 DEF SeenOK
    <3>1. RestsOn(p, g) BY <2>7 DEF RestsOn
    <3>2. p.pc \in Running BY <3>1 DEF RestsOn, Running
    <3>3. Within(p.agent, g, p.age) BY <2>1, <3>1 DEF RequestOK, SeenOK
    <3>4. p.age \in Int /\ n.age \in Int /\ p.age + 1 <= n.age BY <2>3, <2>7, <3>2
    <3> QED BY <1>10, <2>3, <2>7, <3>3, <3>4
  <2>10. HitOK(n)'
    <3> SUFFICES ASSUME NEW g \in Grounds, n.pc = "finish", n.source = "cache",
                        n.effect = "allow"
                 PROVE  Within(n.agent, g, n.age + Span + TTL - 1)'
      BY <2>2 DEF HitOK
    <3>1. p.pc \in Running BY <2>7 DEF Running
    <3>2. Within(p.agent, g, p.age + Span + TTL - 1)
      BY <2>1, <2>7 DEF RequestOK, HitOK
    <3>3. p.age + Span + TTL - 1 \in Int /\ n.age + Span + TTL - 1 \in Int
          /\ (p.age + Span + TTL - 1) + 1 <= n.age + Span + TTL - 1
      BY <2>3, <2>7, <3>1, DecisionAssumption
    <3> QED BY <1>10, <2>3, <2>7, <3>2, <3>3
  <2>12. RolesOK(n)'
    <3> SUFFICES ASSUME n.pc = "roles", NEW x \in n.roles
                 PROVE  since'[<<"assigned", n.agent, x[2]>>] <= n.age
      BY DEF RolesOK
    <3>1. PICK f : f = <<"assigned", p.agent, x[2]>> OBVIOUS
    <3>2. x[2] \in Roles BY <2>3, <2>7 DEF RequestType
    <3>3. f \in Facts BY <2>3, <3>1, <3>2, FactsOf
    <3>4. since[f] <= p.age BY <2>1, <2>7, <3>1 DEF RequestOK, RolesOK
    <3>5. n.age = p.age + 1 BY <2>7 DEF Running
    <3> QED BY <1>1, <2>3, <2>7, <3>1, <3>3, <3>4, <3>5
  <2>11. RequestOK(n)'
    BY <2>1, <2>7, <2>8, <2>9, <2>10, <2>12 DEF RequestOK, SourceOK, RecordOK, ApprovalOK
  <2> QED BY <2>2, <2>7, <2>11
      DEF RequestOK, SeenOK, RolesOK, HitOK, SourceOK, RecordOK, ApprovalOK
<1>4. req' \in [Requests -> RequestType]
  <2>1. req' = [r \in Requests |-> req'[r]] BY DEF Tick
  <2> QED BY <1>3, <2>1
<1>5. ASSUME NEW a \in Agents
      PROVE  /\ cache'[a] \in [effect : Effects, left : 0 .. TTL]
             /\ cache'[a].effect # "require_approval"
             /\ cache'[a].left > 0 =>
                  /\ cache'[a].effect = cache[a].effect
                  /\ cache[a].left = cache'[a].left + 1
  <2>1. PICK c : c = cache[a] /\ c \in [effect : Effects, left : 0 .. TTL]
                /\ c.effect # "require_approval"
    BY DEF IInv, TypeOK, CacheFresh
  <2>2. cache'[a] = IF c.left > 1 THEN [c EXCEPT !.left = c.left - 1] ELSE NoEntry
    BY <2>1 DEF Tick
  <2>3. NoEntry \in [effect : Effects, left : 0 .. TTL]
        /\ NoEntry.effect = "deny" /\ NoEntry.left = 0
    BY DecisionAssumption DEF NoEntry, Effects
  <2>4. CASE c.left > 1
    <3>1. c.left - 1 \in 0 .. TTL /\ c.left = (c.left - 1) + 1
      BY <2>1, <2>4, DecisionAssumption
    <3> QED BY <2>1, <2>2, <2>4, <3>1
  <2>5. CASE ~(c.left > 1) BY <2>2, <2>3, <2>5
  <2> QED BY <2>4, <2>5
<1>6. cache' \in [Agents -> [effect : Effects, left : 0 .. TTL]]
  <2>1. cache' = [a \in Agents |-> cache'[a]] BY DEF Tick
  <2> QED BY <1>5, <2>1
<1>7. TypeOK'
  BY <1>2, <1>4, <1>6 DEF IInv, TypeOK, Tick, db
<1>8. ClocksFresh' BY <1>1 DEF ClocksFresh
<1>9. CacheFresh'
  <2> SUFFICES ASSUME NEW a \in Agents, NEW g \in Grounds,
                      cache'[a].left > 0, cache'[a].effect = "allow"
               PROVE  Within(a, g, Span + TTL - cache[a].left)'
    BY <1>5 DEF CacheFresh
  <2>1. cache[a].left = cache'[a].left + 1 /\ cache[a].effect = "allow"
        /\ cache'[a].left \in 0 .. TTL
    BY <1>5
  <2>2. PICK n : n = Span + TTL - cache[a].left OBVIOUS
  <2>3. PICK m : m = Span + TTL - cache'[a].left OBVIOUS
  <2>4. n \in Int /\ m \in Int /\ n + 1 <= m
    BY <2>1, <2>2, <2>3, DecisionAssumption
  <2>5. Within(a, g, n)
    BY <2>1, <2>2, DecisionAssumption DEF IInv, CacheFresh
  <2>6. Within(a, g, m)' BY <1>10, <2>4, <2>5
  <2> QED BY <2>3, <2>6
<1> QED BY <1>3, <1>7, <1>8, <1>9 DEF IInv

(* The initial states satisfy the invariant.                               *)
LEMMA InitInv == Init => IInv
<1> SUFFICES ASSUME Init PROVE IInv OBVIOUS
<1>1. ASSUME NEW r \in Requests
      PROVE  req[r] \in RequestType /\ RequestOK(req[r])
  <2>1. PICK a \in Agents : req[r] = [Started(a, Autonomous) EXCEPT !.pc = "idle"]
    BY DEF Init
  <2>2. Started(a, Autonomous) \in RequestType /\ Started(a, Autonomous).source = "none"
    BY DecisionAssumption DEF Started, RequestType, Running, Effects
  <2>3. req[r] \in RequestType /\ req[r].pc = "idle" /\ req[r].source = "none"
    BY <2>1, <2>2 DEF RequestType
  <2> QED BY <2>3
      DEF RequestOK, SeenOK, RestsOn, RolesOK, HitOK, SourceOK, RecordOK, ApprovalOK
<1>2. req \in [Requests -> RequestType]
  <2>1. req = [r \in Requests |-> req[r]] BY DEF Init
  <2> QED BY <1>1, <2>1
<1>3. NoEntry \in [effect : Effects, left : 0 .. TTL]
      /\ NoEntry.effect = "deny" /\ NoEntry.left = 0
  BY DecisionAssumption DEF NoEntry, Effects
<1>4. ClockLimit \in Nat BY DecisionAssumption DEF ClockLimit, StaleBound
<1>5. since \in [Facts -> 0 .. ClockLimit] BY <1>4 DEF Init
<1>6. TypeOK
  <2>1. /\ assigned \in [Agents -> [Users -> Roles \cup {NoRole}]]
        /\ roleScopes \in [Roles -> SUBSET Scopes]
        /\ seat \in [Users -> SUBSET Scopes] /\ jit \in [Users -> SUBSET Scopes]
    BY DecisionAssumption DEF Init, Scopes
  <2>2. cache \in [Agents -> [effect : Effects, left : 0 .. TTL]] BY <1>3 DEF Init
  <2> QED BY <1>2, <1>5, <2>1, <2>2 DEF Init, TypeOK
<1>7. ClocksFresh BY DEF Init, ClocksFresh
<1>8. CacheFresh BY <1>3 DEF Init, CacheFresh
<1> QED BY <1>1, <1>6, <1>7, <1>8 DEF IInv

(* Every step keeps the invariant.                                         *)
LEMMA StepInv == IInv /\ [Next]_vars => IInv'
<1> SUFFICES ASSUME IInv, [Next]_vars PROVE IInv' OBVIOUS
<1>1. CASE \E r \in Requests : Check(r)
  <2> PICK r \in Requests : Check(r) BY <1>1
  <2>1. CASE \E a \in Agents, u \in Users \cup {Autonomous} : Start(r, a, u)
    BY <2>1, StartInv
  <2>2. CASE CacheHit(r) BY <2>2, CacheHitInv
  <2>3. CASE CacheMiss(r) BY <2>3, CacheMissInv
  <2>4. CASE Gate(r) BY <2>4, GateInv
  <2>5. CASE ReadAssignments(r) BY <2>5, ReadAssignmentsInv
  <2>6. CASE ReadRole(r) BY <2>6, ReadRoleInv
  <2>17. CASE ReadSeat(r) BY <2>17, ReadSeatInv
  <2>18. CASE ReadJit(r) BY <2>18, ReadJitInv
  <2>7. CASE ReadPolicies(r) BY <2>7, ReadPoliciesInv
  <2>8. CASE ReadHistory(r) BY <2>8, ReadHistoryInv
  <2>9. CASE EngineError(r) BY <2>9, EngineErrorInv
  <2>10. CASE Store(r) BY <2>10, StoreInv
  <2>11. CASE ReadTip(r) BY <2>11, ReadTipInv
  <2>12. CASE Record(r) BY <2>12, RecordInv
  <2>13. CASE RecordConflict(r) BY <2>13, RecordConflictInv
  <2>14. CASE AddApproval(r) BY <2>14, AddApprovalInv
  <2>15. CASE Finish(r) BY <2>15, FinishInv
  <2>16. CASE Fail(r) BY <2>16, FailInv
  <2> QED BY <2>1, <2>2, <2>3, <2>4, <2>5, <2>6, <2>7, <2>8, <2>9, <2>10, <2>11,
             <2>12, <2>13, <2>14, <2>15, <2>16, <2>17, <2>18 DEF Check
<1>2. CASE \/ \E a \in Agents, b \in BOOLEAN : SetActive(a, b)
           \/ \E a \in Agents, p \in Policies : SetPolicy(a, p)
           \/ \E a \in Agents, u \in Users, ro \in Roles \cup {NoRole} : SetAssignment(a, u, ro)
           \/ \E ro \in Roles, s \in RoleScopes : SetRoleScopes(ro, s)
           \/ \E u \in Users, s \in SeatScopes : SetSeat(u, s)
           \/ \E u \in Users, s \in JitScopes : SetJit(u, s)
  BY <1>2, AdminInv
<1>3. CASE OtherRecord BY <1>3, OtherRecordInv
<1>4. CASE Tick BY <1>4, TickInv
<1>5. CASE UNCHANGED vars
  <2>1. UNCHANGED <<db, cache, req, logged, since>> BY <1>5 DEF vars
  <2>2. TypeOK' BY <2>1 DEF IInv, TypeOK, db
  <2>3. ASSUME NEW r \in Requests PROVE RequestOK(req[r])'
    <3>1. PICK q : q = req[r] /\ RequestOK(q) BY DEF IInv
    <3>2. RequestOK(q)' BY <2>1, <3>1, RequestSame
    <3> QED BY <2>1, <3>1, <3>2
        DEF RequestOK, SeenOK, RolesOK, HitOK, SourceOK, RecordOK, ApprovalOK
  <2> QED BY <2>1, <2>2, <2>3, FreshSame, CacheSame DEF IInv, db
<1> QED BY <1>1, <1>2, <1>3, <1>4, <1>5 DEF Next

(* The inductive invariant of the decision service.                        *)
THEOREM Invariance == Spec => []IInv
<1>1. Init => IInv BY InitInv
<1>2. IInv /\ [Next]_vars => IInv' BY StepInv
<1> QED BY <1>1, <1>2, PTL DEF Spec

(* Every variable keeps its type.                                          *)
THEOREM TypeCorrect == Spec => []TypeOK
<1>1. IInv => TypeOK BY DEF IInv
<1> QED BY <1>1, Invariance, PTL

(* An answer of allow rests on grounds that held at most StaleBound ago.   *)
LEMMA AllowsAreGrounded ==
  ASSUME IInv, NEW g \in Grounds
  PROVE  GroundedIn(g)
<1> SUFFICES ASSUME NEW r \in Requests, req[r].pc = "finish", req[r].effect = "allow"
             PROVE  Within(req[r].agent, g, StaleBound)
  BY DEF GroundedIn, At
<1>1. PICK q : q = req[r] /\ RequestOK(q) BY InFlight
<1>2. q.age \in 0 .. Span /\ q.agent \in Agents /\ StaleBound \in Int
  BY <1>1, InFlight, DecisionAssumption DEF StaleBound
<1>3. CASE q.source = "cache"
  <2>1. Within(q.agent, g, q.age + Span + TTL - 1) BY <1>1, <1>3 DEF RequestOK, HitOK
  <2>2. q.age + Span + TTL - 1 \in Int /\ q.age + Span + TTL - 1 <= StaleBound
    BY <1>2, DecisionAssumption DEF StaleBound
  <2> QED BY <1>1, <1>2, <2>1, <2>2, InFlight, WithinWeaker
<1>4. CASE q.source # "cache"
  <2>1. RestsOn(q, g) BY <1>1, <1>4 DEF RequestOK, SourceOK, RestsOn
  <2>2. Within(q.agent, g, q.age) BY <1>1, <2>1 DEF RequestOK, SeenOK
  <2>3. q.age \in Int /\ q.age <= StaleBound BY <1>2, DecisionAssumption DEF StaleBound
  <2> QED BY <1>1, <1>2, <2>2, <2>3, InFlight, WithinWeaker
<1> QED BY <1>3, <1>4

(* A disabled agent is told allow for at most StaleBound.                  *)
THEOREM KillSwitchIsBounded == Spec => []KillBounded
<1>1. IInv => KillBounded BY AllowsAreGrounded DEF KillBounded, Grounds
<1> QED BY <1>1, Invariance, PTL

(* A policy that no longer allows is obeyed after StaleBound at the latest,*)
(* and no failure becomes an allow.                                        *)
THEOREM PolicyChangeIsBounded == Spec => []PolicyBounded
<1>1. IInv => PolicyBounded BY AllowsAreGrounded DEF PolicyBounded, Grounds
<1> QED BY <1>1, Invariance, PTL

(* An allow rests on one role assigned to the agent and granting the       *)
(* action, each within StaleBound.                                         *)
THEOREM RevocationIsBounded == Spec => []RevocationBounded
<1>1. IInv => RevocationBounded BY AllowsAreGrounded DEF RevocationBounded, Grounds
<1> QED BY <1>1, Invariance, PTL

(* require_approval comes with an approval request of its own.             *)
THEOREM ApprovalExists == Spec => []ApprovalBacked
<1>1. IInv => ApprovalBacked BY DEF IInv, RequestOK, ApprovalOK, ApprovalBacked, At
<1> QED BY <1>1, Invariance, PTL

(* A computed answer is on the audit chain.                                *)
THEOREM ComputedAnswersRecorded == Spec => []ComputedIsRecorded
<1>1. IInv => ComputedIsRecorded BY DEF IInv, RequestOK, RecordOK, ComputedIsRecorded, At
<1> QED BY <1>1, Invariance, PTL

=============================================================================
