--------------------------- MODULE DecisionService ---------------------------
(***************************************************************************)
(* One authorization check, POST /decisions/check: policy/service.py       *)
(* decide() and _emit_decision(), called by api/v1/decisions.py check().   *)
(*                                                                         *)
(* A check is a sequence of awaits against Redis and Postgres (READ        *)
(* COMMITTED, one statement at a time), so an administrator's change, the  *)
(* expiry of a cache entry, another check or a crash may fall between any  *)
(* two of its steps.  The model follows checks of one action on one        *)
(* resource in one session: the decision cache then has one entry per      *)
(* subject, because its key leaves out on_behalf_of and the context.  The  *)
(* policies are those bound to the agent or to every subject.  An          *)
(* assignment names a role and the role's permissions are read later, one  *)
(* role at a time, so that the two may never have held together.           *)
(*                                                                         *)
(* Time passes in ticks.  Span bounds how long a check takes, TTL is       *)
(* decision_cache_ttl_seconds; both only matter to the properties that     *)
(* say how stale an answer may be.                                         *)
(***************************************************************************)
EXTENDS Naturals

CONSTANTS Agents, Users,
          Autonomous,     \* no on_behalf_of_user_id
          Requests,       \* checks in flight
          Policies,       \* what the bound policies may say, see PolicyType
          Roles,          \* of the organisation
          NoRole,         \* no active assignment, or one without a role
          RoleScopes,     \* scope sets a role may grant
          SeatScopes,     \* base scopes of a seat role; {} is no membership
          JitScopes,      \* scope sets the active JIT grants of a user may add up to
          AdminActs,      \* what administrators do: "kill", "policy", "scopes"
          TTL, Span

Effects == {"allow", "deny", "require_approval"}

Scopes == {"action", "*", "other"}

(* The first matching policy: its effect, and whether a bound policy has a *)
(* preceded_by condition.  No match is the default effect, deny.           *)
PolicyType == [effect : Effects, sequence : BOOLEAN]

ASSUME DecisionAssumption ==
  /\ Autonomous \notin Users
  /\ Policies \subseteq PolicyType
  /\ NoRole \notin Roles
  /\ RoleScopes \subseteq SUBSET Scopes
  /\ SeatScopes \subseteq {{}, {"*"}, {"other"}}
  /\ JitScopes \subseteq SUBSET Scopes
  /\ AdminActs \subseteq {"kill", "policy", "scopes"}
  /\ TTL \in Nat \ {0}
  /\ Span \in Nat

VARIABLES active,         \* Agent.is_active
          assigned,       \* the role of the active assignment of agent a by user u
          roleScopes,     \* RolePermission.scope of each role
          seat, jit,      \* what each user's seat role and JIT grants confer
          policy,         \* what the policies bound to the agent say
          verified,       \* an earlier action of the session was allowed
          cache,          \* Redis: the entry of each agent and its time left
          req,            \* the checks in flight
          logged,         \* <<agent, effect>> of the committed policy.decision rows
          since           \* ticks since each fact an allow rests on last held

db == <<active, assigned, roleScopes, seat, jit, policy, verified>>
vars == <<db, cache, req, logged, since>>

(* How long after it stopped being justified an allow may still be given:  *)
(* one check computes it, it lives in the cache, another check returns it. *)
StaleBound == TTL + 2 * Span - 1

(* The clocks stop here, past the bound.                                   *)
ClockLimit == StaleBound + 1

(* _scope_matches(granted, action) *)
Grants(scopes) == scopes \cap {"action", "*"} # {}

(* What an allow may rest on: the agent is active, its policies allow the  *)
(* action, it is assigned a role, a role grants the action.                *)
Facts == ({"active", "policy"} \X Agents) \cup ({"grants"} \X Roles)
         \cup ({"assigned"} \X Agents \X Roles)

Holds(f) ==
  \/ f[1] = "active" /\ active[f[2]]
  \/ f[1] = "policy" /\ policy[f[2]].effect = "allow"
  \/ f[1] = "grants" /\ Grants(roleScopes[f[2]])
  \/ f[1] = "assigned" /\ \E u \in Users : assigned[f[2]][u] = f[3]

(* The grounds of an allow for agent a, each read at most n ticks ago.     *)
(* "scopes" needs one role that a was assigned and that granted the        *)
(* action, not necessarily at the same time.                               *)
Grounds == {"active", "scopes", "policy"}

Within(a, g, n) ==
  \/ g \in {"active", "policy"} /\ since[<<g, a>>] <= n
  \/ g = "scopes" /\ \E ro \in Roles : /\ since[<<"assigned", a, ro>>] <= n
                                      /\ since[<<"grants", ro>>] <= n

(* _scopes_for_user: nothing without a membership.                         *)
Held(u) == IF seat[u] = {} THEN {} ELSE seat[u] \cup jit[u]

Evaluating == {"gate", "assignments", "roles", "seat", "jit", "policies", "history"}
Running == Evaluating \cup {"lookup", "store", "tip", "append", "approval", "finish"}

(* pc       the next await                                                 *)
(* age      ticks since the check began                                    *)
(* roles    the assignments loaded whose role is still to be read          *)
(* granted  the scopes resolved so far; base: those of the user's seat     *)
(* effect   the decision; source says where it comes from                  *)
(* store    the decision may be written to the cache                       *)
(* tipValid no row was committed since the audit tip was read              *)
(* usable   the database session has not failed                            *)
(* approval the ApprovalRequest row of this check                          *)
RequestType ==
  [pc : Running \cup {"idle", "done", "failed"},
   agent : Agents, user : Users \cup {Autonomous}, age : 0 .. Span,
   roles : SUBSET (Users \X Roles), granted : SUBSET Scopes,
   base : SUBSET Scopes, effect : Effects,
   source : {"none", "cache", "gate", "engine", "error"},
   store : BOOLEAN, tipValid : BOOLEAN, usable : BOOLEAN,
   approval : {"none", "pending", "committed"}]

Started(a, u) ==
  [pc |-> "lookup", agent |-> a, user |-> u, age |-> 0, roles |-> {},
   granted |-> {}, base |-> {}, effect |-> "deny", source |-> "none", store |-> FALSE,
   tipValid |-> FALSE, usable |-> TRUE, approval |-> "none"]

NoEntry == [effect |-> "deny", left |-> 0]

Init ==
  /\ active = [a \in Agents |-> TRUE]
  /\ assigned \in [Agents -> [Users -> Roles \cup {NoRole}]]
  /\ roleScopes \in [Roles -> RoleScopes]
  /\ seat \in [Users -> SeatScopes]
  /\ jit \in [Users -> JitScopes]
  /\ policy \in [Agents -> Policies]
  /\ verified = [a \in Agents |-> FALSE]
  /\ cache = [a \in Agents |-> NoEntry]
  /\ req \in [Requests -> {[Started(a, Autonomous) EXCEPT !.pc = "idle"] : a \in Agents}]
  /\ logged = {}
  /\ since = [f \in Facts |-> IF Holds(f) THEN 0 ELSE ClockLimit]

-----------------------------------------------------------------------------
(* The steps of a check.                                                   *)

At(r, label) == req[r].pc = label

Start(r, a, u) ==
  /\ req[r].pc \in {"idle", "done", "failed"}
  /\ req' = [req EXCEPT ![r] = Started(a, u)]
  /\ UNCHANGED <<db, cache, logged, since>>

(* cache.get(ck) returns an entry: it is the answer, whoever the check is  *)
(* on behalf of, and nothing is audited.                                   *)
CacheHit(r) ==
  LET entry == cache[req[r].agent]
  IN  /\ At(r, "lookup")
      /\ entry.left > 0
      /\ req' = [req EXCEPT ![r].pc = "finish", ![r].effect = entry.effect,
                            ![r].source = "cache"]
      /\ UNCHANGED <<db, cache, logged, since>>

(* A miss, or Redis is unavailable and the cache is left out of the check. *)
CacheMiss(r) ==
  /\ At(r, "lookup")
  /\ \E up \in BOOLEAN :
       /\ up => cache[req[r].agent].left = 0
       /\ req' = [req EXCEPT ![r].pc = "gate", ![r].store = up]
  /\ UNCHANGED <<db, cache, logged, since>>

(* Mutant: is_active is not looked at.                                     *)
Gate_Dropped(r) ==
  /\ At(r, "gate")
  /\ req' = [req EXCEPT ![r].pc = "assignments"]
  /\ UNCHANGED <<db, cache, logged, since>>

(* Mutant: a disabled agent is denied without going through _emit_decision.*)
Gate_Silent(r) ==
  /\ At(r, "gate")
  /\ req' = IF active[req[r].agent]
            THEN [req EXCEPT ![r].pc = "assignments"]
            ELSE [req EXCEPT ![r].pc = "finish", ![r].effect = "deny",
                             ![r].source = "gate"]
  /\ UNCHANGED <<db, cache, logged, since>>

(* session.get(Agent): an inactive agent is denied, past the cache write.  *)
Gate(r) ==
  /\ At(r, "gate")
  /\ req' = IF active[req[r].agent]
            THEN [req EXCEPT ![r].pc = "assignments"]
            ELSE [req EXCEPT ![r].pc = "tip", ![r].effect = "deny",
                             ![r].source = "gate"]
  /\ UNCHANGED <<db, cache, logged, since>>

(* _resolve_granted_scopes: all active assignments of an autonomous agent, *)
(* or the one made by the delegating user.                                 *)
ReadAssignments(r) ==
  LET a == req[r].agent
      by == IF req[r].user = Autonomous THEN Users ELSE {req[r].user}
      found == {x \in by \X Roles : assigned[a][x[1]] = x[2]}
  IN  /\ At(r, "assignments")
      /\ req' = [req EXCEPT ![r].pc = IF found = {} THEN "policies" ELSE "roles",
                            ![r].roles = found]
      /\ UNCHANGED <<db, cache, logged, since>>

(* One select of RolePermission.scope per assignment found, by the role it *)
(* had then.  The scopes of a delegating user are read next.               *)
ReadRole(r) ==
  /\ At(r, "roles")
  /\ \E x \in req[r].roles :
       req' = [req EXCEPT ![r].roles = @ \ {x},
                          ![r].granted = @ \cup roleScopes[x[2]],
                          ![r].pc = IF req[r].roles # {x} THEN "roles"
                                    ELSE IF req[r].user = Autonomous THEN "policies"
                                    ELSE "seat"]
  /\ UNCHANGED <<db, cache, logged, since>>

(* _scopes_for_user: the membership, and then _active_jit_scopes.  The     *)
(* agent keeps the scopes that are also the user's.                        *)
ReadSeat(r) ==
  /\ At(r, "seat")
  /\ req' = IF seat[req[r].user] = {}
            THEN [req EXCEPT ![r].pc = "policies", ![r].granted = {}]
            ELSE [req EXCEPT ![r].pc = "jit", ![r].base = seat[req[r].user]]
  /\ UNCHANGED <<db, cache, logged, since>>

ReadJit(r) ==
  /\ At(r, "jit")
  /\ req' = [req EXCEPT ![r].pc = "policies", ![r].base = {},
                        ![r].granted = @ \cap (req[r].base \cup jit[req[r].user])]
  /\ UNCHANGED <<db, cache, logged, since>>

(* Mutant: the policies are evaluated whatever the scopes are.             *)
Evaluate_NoRbac(granted, p) == p.effect

(* evaluate(): the RBAC gate, then the first matching policy.              *)
Evaluate(granted, p) == IF Grants(granted) THEN p.effect ELSE "deny"

(* _load_bound_policies; sequence conditions need the session history and  *)
(* keep the decision out of the cache.                                     *)
ReadPolicies(r) ==
  LET p == policy[req[r].agent]
  IN  /\ At(r, "policies")
      /\ req' = IF p.sequence
                THEN [req EXCEPT ![r].pc = "history", ![r].store = FALSE, ![r].granted = {},
                                 ![r].effect = Evaluate(req[r].granted, p)]
                ELSE [req EXCEPT ![r].pc = "store", ![r].source = "engine",
                                 ![r].granted = {},
                                 ![r].effect = Evaluate(req[r].granted, p)]
      /\ UNCHANGED <<db, cache, logged, since>>

(* _load_session_history: preceded_by holds once an earlier action was     *)
(* allowed and recorded.                                                   *)
ReadHistory(r) ==
  /\ At(r, "history")
  /\ req' = [req EXCEPT ![r].pc = "store", ![r].source = "engine",
                        ![r].effect = IF verified[req[r].agent] THEN @ ELSE "deny"]
  /\ UNCHANGED <<db, cache, logged, since>>

(* Mutant: an error of the engine lets the action through.                 *)
EngineError_Open(r) ==
  /\ req[r].pc \in Evaluating
  /\ \E usable \in BOOLEAN :
       req' = [req EXCEPT ![r].pc = "store", ![r].effect = "allow", ![r].roles = {},
                          ![r].granted = {}, ![r].base = {}, ![r].source = "error",
                          ![r].usable = usable]
  /\ UNCHANGED <<db, cache, logged, since>>

(* except Exception: any await of the evaluation may raise; the answer is  *)
(* a deny (deny_on_policy_error).  An error of the database leaves the     *)
(* session in an aborted transaction.                                      *)
EngineError(r) ==
  /\ req[r].pc \in Evaluating
  /\ \E usable \in BOOLEAN :
       req' = [req EXCEPT ![r].pc = "store", ![r].effect = "deny", ![r].roles = {},
                          ![r].granted = {}, ![r].base = {}, ![r].source = "error",
                          ![r].usable = usable]
  /\ UNCHANGED <<db, cache, logged, since>>

(* Mutant: every decision is cached.                                       *)
Cacheable_All(r) == req[r].store

(* "Cache only non-approval decisions", and none that depends on history.  *)
Cacheable(r) == req[r].store /\ req[r].effect # "require_approval"

(* Mutant: an entry outlives its TTL.                                      *)
Entry_Outlives(effect) == [effect |-> effect, left |-> TTL + 1]

(* What cache.setex writes.                                                *)
Entry(effect) == [effect |-> effect, left |-> TTL]

(* A Redis that fails is ignored.                                          *)
Store(r) ==
  /\ At(r, "store")
  /\ req' = [req EXCEPT ![r].pc = "tip", ![r].store = FALSE]
  /\ \/ /\ Cacheable(r)
        /\ cache' = [cache EXCEPT ![req[r].agent] = Entry(req[r].effect)]
     \/ UNCHANGED cache
  /\ UNCHANGED <<db, logged, since>>

(* record_decision, _next_sequence_and_prev_hash: read the audit tip.      *)
ReadTip(r) ==
  /\ At(r, "tip")
  /\ req[r].usable
  /\ req' = [req EXCEPT ![r].pc = "append", ![r].tipValid = TRUE]
  /\ UNCHANGED <<db, cache, logged, since>>

(* A row was committed: the tips read so far are stale (see AuditLog).     *)
Superseded(requests) ==
  [o \in Requests |-> IF requests[o].pc = "append"
                      THEN [requests[o] EXCEPT !.tipValid = FALSE] ELSE requests[o]]

(* _append flushes and commits.  Only then is the approval request made.   *)
Record(r) ==
  /\ At(r, "append")
  /\ req[r].tipValid
  /\ logged' = logged \cup {<<req[r].agent, req[r].effect>>}
  /\ req' = Superseded([req EXCEPT ![r].pc = IF req[r].effect = "require_approval"
                                             THEN "approval" ELSE "finish",
                                    ![r].tipValid = FALSE])
  /\ UNCHANGED <<db, cache, since>>

(* _append fails on the unique index.  For an agent denied at the gate the *)
(* call is inside decide's try: the error becomes a cached deny and is     *)
(* emitted again on the failed session.  Otherwise the check fails.        *)
RecordConflict(r) ==
  /\ At(r, "append")
  /\ ~req[r].tipValid
  /\ req' = IF req[r].source = "gate"
            THEN [req EXCEPT ![r].pc = "store", ![r].source = "error",
                             ![r].usable = FALSE]
            ELSE [req EXCEPT ![r] = [Started(@.agent, Autonomous) EXCEPT !.pc = "failed"]]
  /\ UNCHANGED <<db, cache, logged, since>>

(* session.add(approval); session.flush(): not yet committed.              *)
AddApproval(r) ==
  /\ At(r, "approval")
  /\ req' = [req EXCEPT ![r].pc = "finish", ![r].approval = "pending"]
  /\ UNCHANGED <<db, cache, logged, since>>

(* check(): record_decision (usage) and session.commit(), then the answer. *)
Finish(r) ==
  /\ At(r, "finish")
  /\ req' = [req EXCEPT ![r] =
               [Started(@.agent, @.user) EXCEPT
                  !.pc = "done", !.effect = req[r].effect, !.source = req[r].source,
                  !.approval = IF req[r].approval = "pending" THEN "committed" ELSE "none"]]
  /\ UNCHANGED <<db, cache, logged, since>>

(* A crash, or an error nobody catches: what is not committed is lost.     *)
Fail(r) ==
  /\ req[r].pc \in Running
  /\ req' = [req EXCEPT ![r] = [Started(@.agent, Autonomous) EXCEPT !.pc = "failed"]]
  /\ UNCHANGED <<db, cache, logged, since>>

-----------------------------------------------------------------------------
(* What goes on around the checks.                                         *)

Later(clock) == IF clock < ClockLimit THEN clock + 1 ELSE clock

(* The clocks of the facts that hold after the step are reset.             *)
Reset == since' = [f \in Facts |-> IF Holds(f)' THEN 0 ELSE since[f]]

(* api/v1/agents.py kill_agent and reactivate_agent: the cache is not      *)
(* touched.                                                                *)
SetActive(a, b) ==
  /\ "kill" \in AdminActs
  /\ active' = [active EXCEPT ![a] = b]
  /\ UNCHANGED <<assigned, roleScopes, seat, jit, policy, verified, cache, req, logged>>
  /\ Reset

(* A policy or binding of the agent is created, changed or deleted.        *)
SetPolicy(a, p) ==
  /\ "policy" \in AdminActs
  /\ policy' = [policy EXCEPT ![a] = p]
  /\ UNCHANGED <<active, assigned, roleScopes, seat, jit, verified, cache, req, logged>>
  /\ Reset

(* assign_agent makes an assignment or changes its role, unassign_agent    *)
(* ends it.                                                                *)
SetAssignment(a, u, ro) ==
  /\ "scopes" \in AdminActs
  /\ assigned' = [assigned EXCEPT ![a][u] = ro]
  /\ UNCHANGED <<active, roleScopes, seat, jit, policy, verified, cache, req, logged>>
  /\ Reset

(* The permissions of a role change.                                       *)
SetRoleScopes(ro, s) ==
  /\ "scopes" \in AdminActs
  /\ roleScopes' = [roleScopes EXCEPT ![ro] = s]
  /\ UNCHANGED <<active, assigned, seat, jit, policy, verified, cache, req, logged>>
  /\ Reset

(* A user is given another seat role, or leaves the organisation.          *)
SetSeat(u, s) ==
  /\ "scopes" \in AdminActs
  /\ seat' = [seat EXCEPT ![u] = s]
  /\ UNCHANGED <<active, assigned, roleScopes, jit, policy, verified, cache, req,
                 logged, since>>

(* A JIT grant of the user is made, revoked or expires.                    *)
SetJit(u, s) ==
  /\ "scopes" \in AdminActs
  /\ jit' = [jit EXCEPT ![u] = s]
  /\ UNCHANGED <<active, assigned, roleScopes, seat, policy, verified, cache, req,
                 logged, since>>

(* Another request of the organisation commits an audit row; it may be the *)
(* earlier action that a sequence policy waits for.                        *)
OtherRecord ==
  /\ req' = Superseded(req)
  /\ \E a \in Agents : verified' \in {verified, [verified EXCEPT ![a] = TRUE]}
  /\ UNCHANGED <<active, assigned, roleScopes, seat, jit, policy, cache, logged, since>>

(* Time passes.  No check is older than Span, and Redis drops the entries  *)
(* whose time is up.                                                       *)
Tick ==
  /\ \A r \in Requests : req[r].pc \in Running => req[r].age < Span
  /\ req' = [r \in Requests |-> IF req[r].pc \in Running
                               THEN [req[r] EXCEPT !.age = @ + 1] ELSE req[r]]
  /\ cache' = [a \in Agents |-> IF cache[a].left > 1
                               THEN [cache[a] EXCEPT !.left = @ - 1] ELSE NoEntry]
  /\ since' = [f \in Facts |-> IF Holds(f) THEN 0 ELSE Later(since[f])]
  /\ UNCHANGED <<db, logged>>

Check(r) ==
  \/ \E a \in Agents, u \in Users \cup {Autonomous} : Start(r, a, u)
  \/ CacheHit(r) \/ CacheMiss(r)
  \/ Gate(r) \/ ReadAssignments(r) \/ ReadRole(r) \/ ReadSeat(r) \/ ReadJit(r)
  \/ ReadPolicies(r) \/ ReadHistory(r) \/ EngineError(r)
  \/ Store(r)
  \/ ReadTip(r) \/ Record(r) \/ RecordConflict(r)
  \/ AddApproval(r) \/ Finish(r) \/ Fail(r)

Next ==
  \/ \E r \in Requests : Check(r)
  \/ \E a \in Agents, b \in BOOLEAN : SetActive(a, b)
  \/ \E a \in Agents, p \in Policies : SetPolicy(a, p)
  \/ \E a \in Agents, u \in Users, ro \in Roles \cup {NoRole} : SetAssignment(a, u, ro)
  \/ \E ro \in Roles, s \in RoleScopes : SetRoleScopes(ro, s)
  \/ \E u \in Users, s \in SeatScopes : SetSeat(u, s)
  \/ \E u \in Users, s \in JitScopes : SetJit(u, s)
  \/ OtherRecord
  \/ Tick

Spec == Init /\ [][Next]_vars

-----------------------------------------------------------------------------
(* The types of the variables.                                             *)
TypeOK ==
  /\ active \in [Agents -> BOOLEAN]
  /\ assigned \in [Agents -> [Users -> Roles \cup {NoRole}]]
  /\ roleScopes \in [Roles -> SUBSET Scopes]
  /\ seat \in [Users -> SUBSET Scopes]
  /\ jit \in [Users -> SUBSET Scopes]
  /\ policy \in [Agents -> Policies]
  /\ verified \in [Agents -> BOOLEAN]
  /\ cache \in [Agents -> [effect : Effects, left : 0 .. TTL]]
  /\ req \in [Requests -> RequestType]
  /\ logged \subseteq Agents \X Effects
  /\ since \in [Facts -> 0 .. ClockLimit]

(* An allow is given only on a ground that held within StaleBound.         *)
GroundedIn(g) ==
  \A r \in Requests : At(r, "finish") /\ req[r].effect = "allow"
                       => Within(req[r].agent, g, StaleBound)

(* The kill switch takes effect in bounded time: an allow is given only if *)
(* the agent was active within StaleBound, although nothing flushes the    *)
(* cache and a check that read the agent before the kill may write the     *)
(* cache after it.                                                         *)
KillBounded == GroundedIn("active")

(* So does a change of policy, and no failure of the cache, the database   *)
(* or the engine turns into an allow: one is given only if the policies of *)
(* the agent allowed the action within StaleBound.                         *)
PolicyBounded == GroundedIn("policy")

(* So does a revocation, of an assignment or of a permission: an allow     *)
(* rests on one role that the agent was assigned within StaleBound and     *)
(* that granted the action within StaleBound.  It does not say that the    *)
(* two ever held together: an assignment that ends while the role is given *)
(* the action may still be answered with an allow.                         *)
RevocationBounded == GroundedIn("scopes")

(* A caller that is told require_approval has an approval request of its   *)
(* own that survives, so somebody can approve it.                          *)
ApprovalBacked ==
  \A r \in Requests : At(r, "done") /\ req[r].effect = "require_approval"
                       => req[r].approval = "committed"

(* An answer the service computed is on the audit chain before the caller  *)
(* learns it.                                                              *)
ComputedIsRecorded ==
  \A r \in Requests : At(r, "done") /\ req[r].source # "cache"
                       => <<req[r].agent, req[r].effect>> \in logged

-----------------------------------------------------------------------------
(* What the documents say and the code does not do.                        *)

(* _resolve_granted_scopes: an agent acting for a user has no more than    *)
(* the intersection of its grants and the user's, whatever was answered to *)
(* the agent on its own or acting for somebody else.  Stated for scopes    *)
(* that do not change.                                                     *)
NonEscalation ==
  \A r \in Requests :
    LET role == assigned[req[r].agent][req[r].user]
    IN  At(r, "done") /\ req[r].effect = "allow" /\ req[r].user # Autonomous
        => role # NoRole /\ Grants(roleScopes[role] \cap Held(req[r].user))

=============================================================================
