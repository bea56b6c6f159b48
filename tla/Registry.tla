------------------------------ MODULE Registry ------------------------------
(***************************************************************************)
(* The registry of an organisation: agents, roles with their scopes, and   *)
(* the assignments of roles to agents, changed through the API             *)
(* (api/v1/agents.py, api/v1/roles.py) and through the tools of the MCP    *)
(* server (api/mcp_server.py) and the import of identities from Okta       *)
(* (idp/sync.py), which write the same tables without a row in the audit   *)
(* log.  (Replacing scopes through the API: Membership.)                   *)
(*                                                                         *)
(* record_admin commits what its session holds: a row written before it    *)
(* and its audit row are committed together, or not at all.                *)
(***************************************************************************)
EXTENDS Naturals, Sequences, FiniteSets

CONSTANTS Agents,         \* agents that may be created
          RoleIds,        \* roles that may be created
          Slugs,          \* their short names
          Scopes,         \* what a role may grant
          Users,          \* whom agents act for
          Asgs,           \* assignments that may be made
          Calls,          \* concurrent requests
          None,           \* no role, nothing
          MaxOps          \* bound on requests

(* An identifier of one table is none of another.                          *)
RegistryAssumption ==
  /\ None \notin Agents \cup RoleIds \cup Asgs \cup Slugs
  /\ Agents \cap RoleIds = {} /\ (Agents \cup RoleIds) \cap Asgs = {}
  /\ MaxOps \in Nat

VARIABLES agent,          \* agent[a]: its slug, or None
          role,           \* role[r]: [there, used, slug, scopes]
          asg,            \* asg[i]: [there, used, agent, user, role]
          trail,          \* the audit log: [what, of]
          hooks,          \* webhook events: [what, of]
          call,           \* call[c]: the request in progress
          ops,            \* requests so far
          silent,         \* what the MCP server or an import has changed
          stands          \* stands[r]: the scopes an undisturbed request set

vars == <<agent, role, asg, trail, hooks, call, ops, silent, stands>>

NoRole == [there |-> FALSE, used |-> FALSE, slug |-> None, scopes |-> {}]
NoAsg == [there |-> FALSE, used |-> FALSE, agent |-> None, user |-> None, role |-> None]
Idle == [pc |-> "idle", of |-> None, read |-> {}, new |-> <<>>, mcp |-> FALSE, alone |-> FALSE]

Init ==
  /\ agent = [a \in Agents |-> None]
  /\ role = [r \in RoleIds |-> NoRole]
  /\ asg = [i \in Asgs |-> NoAsg]
  /\ trail = <<>>
  /\ hooks = {}
  /\ call = [c \in Calls |-> Idle]
  /\ ops = 0
  /\ silent = {}
  /\ stands = [r \in RoleIds |-> {}]

(* An event in the audit log, and one for the webhooks.                    *)
Event(what, of) == [what |-> what, of |-> of]

Begin(c, pc, of, read, new, mcp) ==
  /\ call[c].pc = "idle"
  /\ ops < MaxOps
  /\ ops' = ops + 1
  /\ call' = [call EXCEPT ![c] = [pc |-> pc, of |-> of, read |-> read, new |-> new,
                                  mcp |-> mcp, alone |-> TRUE]]

Done(c) == call' = [call EXCEPT ![c] = Idle]

-----------------------------------------------------------------------------
(* uq_agent_slug_per_org, uq_role_slug, uq_agent_assignment.               *)
AgentSlugTaken(slug) == \E a \in Agents : agent[a] = slug

RoleSlugTaken(slug) == \E r \in RoleIds : role[r].there /\ role[r].slug = slug
OfPair(i, a, u) == asg[i].there /\ asg[i].agent = a /\ asg[i].user = u
PairTaken(a, u) == \E i \in Asgs : OfPair(i, a, u)

(* POST /agents: the row and its audit row; a slug that is taken: 409.     *)
CreateAgent(a, slug) ==
  /\ ops < MaxOps
  /\ agent[a] = None /\ ~AgentSlugTaken(slug)
  /\ agent' = [agent EXCEPT ![a] = slug]
  /\ trail' = Append(trail, Event("agent.created", a))
  /\ ops' = ops + 1
  /\ UNCHANGED <<role, asg, hooks, call, silent, stands>>

(* kynara_create_agent.                                                    *)
CreateAgentMcp(a, slug) ==
  /\ ops < MaxOps
  /\ agent[a] = None /\ ~AgentSlugTaken(slug)
  /\ agent' = [agent EXCEPT ![a] = slug]
  /\ silent' = silent \cup {a}
  /\ ops' = ops + 1
  /\ UNCHANGED <<role, asg, trail, hooks, call, stands>>

-----------------------------------------------------------------------------
NewRole(slug, scopes) == [there |-> TRUE, used |-> TRUE, slug |-> slug, scopes |-> scopes]

(* POST /roles looks for the slug first; 409.                              *)
CreateRoleLook(c, r, slug, scopes) ==
  /\ ~role[r].used /\ \A d \in Calls : call[d].of # r
  /\ ~RoleSlugTaken(slug)
  /\ Begin(c, "create_role", r, {}, <<NewRole(slug, scopes)>>, FALSE)
  /\ UNCHANGED <<agent, role, asg, trail, hooks, silent, stands>>

(* The role, its scopes and the audit row; 500 if somebody else has taken  *)
(* the slug.                                                               *)
CreateRoleWrite(c) ==
  /\ call[c].pc = "create_role"
  /\ LET r == call[c].of new == call[c].new[1]
     IN IF RoleSlugTaken(new.slug) THEN UNCHANGED <<role, trail>>
        ELSE /\ role' = [role EXCEPT ![r] = new]
             /\ trail' = Append(trail, Event("role.created", r))
  /\ Done(c)
  /\ UNCHANGED <<agent, asg, hooks, ops, silent, stands>>

(* kynara_create_role does not look first.                                 *)
CreateRoleMcp(r, slug, scopes) ==
  /\ ops < MaxOps
  /\ ~role[r].used /\ \A d \in Calls : call[d].of # r
  /\ ~RoleSlugTaken(slug)
  /\ role' = [role EXCEPT ![r] = NewRole(slug, scopes)]
  /\ silent' = silent \cup {r}
  /\ ops' = ops + 1
  /\ UNCHANGED <<agent, asg, trail, hooks, call, stands>>

(* kynara_update_role reads the scopes it will delete.                     *)
ReplaceRead(c, r, scopes) ==
  /\ role[r].there
  /\ ops < MaxOps /\ call[c].pc = "idle"
  /\ ops' = ops + 1
  /\ LET alone == \A d \in Calls \ {c} : ~(call[d].pc = "replace" /\ call[d].of = r)
     IN call' = [d \in Calls |->
          IF d = c THEN [pc |-> "replace", of |-> r, read |-> role[r].scopes,
                         new |-> <<[NoRole EXCEPT !.scopes = scopes]>>, mcp |-> TRUE,
                         alone |-> alone]
          ELSE IF call[d].of = r THEN [call[d] EXCEPT !.alone = FALSE] ELSE call[d]]
  /\ stands' = [stands EXCEPT ![r] = {}]
  /\ UNCHANGED <<agent, role, asg, trail, hooks, silent>>

(* The flush inserts before it deletes.                                    *)
Replaced(stored, read, new) == (stored \ read) \cup new

(* So a scope that is to stay is refused by uq_role_scope, as is a role    *)
(* that is gone: an error, and nothing is written.                         *)
ReplaceWrite(c) ==
  /\ call[c].pc = "replace"
  /\ LET r == call[c].of new == call[c].new[1].scopes
     IN IF ~role[r].there \/ new \cap role[r].scopes # {} THEN UNCHANGED <<role, silent, stands>>
        ELSE /\ role' = [role EXCEPT ![r].scopes = Replaced(@, call[c].read, new)]
             /\ silent' = silent \cup {r}
             /\ stands' = [stands EXCEPT ![r] = IF call[c].alone THEN {new} ELSE {}]
  /\ Done(c)
  /\ UNCHANGED <<agent, asg, trail, hooks, ops>>

(* kynara_delete_role looks for active assignments.                        *)
DeletableByTool(r) == \A i \in Asgs : ~(asg[i].there /\ asg[i].role = r)

(* DELETE /roles and the tool read the role.                               *)
DeleteRoleRead(c, r, mcp) ==
  /\ role[r].there
  /\ mcp => DeletableByTool(r)
  /\ Begin(c, "delete_role", r, {}, <<>>, mcp)
  /\ UNCHANGED <<agent, role, asg, trail, hooks, silent, stands>>

(* Mutant: the audit row is written and committed before the deletion.     *)
DeleteRoleWrite_AuditFirst(c) ==
  /\ call[c].pc = "delete_role"
  /\ LET r == call[c].of
         assigned == \E i \in Asgs : asg[i].there /\ asg[i].role = r
     IN /\ role' = IF assigned THEN role ELSE [role EXCEPT ![r].there = FALSE, ![r].scopes = {}]
        /\ trail' = IF call[c].mcp THEN trail ELSE Append(trail, Event("role.deleted", r))
        /\ silent' = IF call[c].mcp THEN silent \cup {r} ELSE silent
        /\ stands' = [stands EXCEPT ![r] = {}]
  /\ Done(c)
  /\ UNCHANGED <<agent, asg, hooks, ops>>

(* A role that is assigned, active or not, is kept by its foreign key: 500.*)
(* One that is gone already is deleted, and recorded, again.  After the    *)
(* commit the API answers 500: the handler that serves it goes on to a     *)
(* name it does not have.                                                  *)
DeleteRoleWrite(c) ==
  /\ call[c].pc = "delete_role"
  /\ LET r == call[c].of
     IN IF \E i \in Asgs : asg[i].there /\ asg[i].role = r
        THEN UNCHANGED <<role, trail, silent, stands>>
        ELSE /\ role' = [role EXCEPT ![r].there = FALSE, ![r].scopes = {}]
             /\ trail' = IF call[c].mcp THEN trail ELSE Append(trail, Event("role.deleted", r))
             /\ silent' = IF call[c].mcp THEN silent \cup {r} ELSE silent
             /\ stands' = [stands EXCEPT ![r] = {}]
  /\ Done(c)
  /\ UNCHANGED <<agent, asg, hooks, ops>>

-----------------------------------------------------------------------------
Assigned(a, u, r) == [there |-> TRUE, used |-> TRUE, agent |-> a, user |-> u, role |-> r]

(* One identity of an import from Okta: its agent is created, unless it is *)
(* there; and it is given, for user u, the role its groups map to, if any. *)
(* The import commits once; what it writes does not depend on what it has  *)
(* read before, and a slug, a pair or a role that was taken or deleted     *)
(* meanwhile fails it: nothing is written.                                 *)
Import(a, slug, i, u, r) ==
  /\ ops < MaxOps
  /\ agent[a] = None => ~AgentSlugTaken(slug)
  /\ agent[a] # None => r # None
  /\ r # None =>
       /\ role[r].there
       /\ IF PairTaken(a, u) THEN OfPair(i, a, u)
          ELSE ~asg[i].used /\ \A d \in Calls : call[d].of # i
  /\ agent' = [agent EXCEPT ![a] = IF @ = None THEN slug ELSE @]
  /\ asg' = IF r = None THEN asg ELSE [asg EXCEPT ![i] = Assigned(a, u, r)]
  /\ silent' = silent \cup (IF agent[a] = None THEN {a} ELSE {}) \cup (IF r = None THEN {} ELSE {i})
  /\ ops' = ops + 1
  /\ UNCHANGED <<role, trail, hooks, call, stands>>

(* POST /agents/{id}/assignments reads the agent, and nothing of the role. *)
(* (kynara_assign_role passes a column that does not exist: an error.)     *)
AssignRead(c, i, a, u, r) ==
  /\ agent[a] # None
  /\ ~asg[i].used /\ \A d \in Calls : call[d].of # i
  /\ r # None => role[r].used
  /\ Begin(c, "assign", i, {}, <<Assigned(a, u, r)>>, FALSE)
  /\ UNCHANGED <<agent, role, asg, trail, hooks, silent, stands>>

(* The pair is free, and the role there: otherwise 500.                    *)
Assignable(new) ==
  /\ ~PairTaken(new.agent, new.user)
  /\ new.role = None \/ role[new.role].there

(* The row and its audit row.                                              *)
AssignWrite(c) ==
  /\ call[c].pc = "assign"
  /\ LET i == call[c].of new == call[c].new[1]
     IN IF ~Assignable(new) THEN Done(c) /\ UNCHANGED <<asg, trail>>
        ELSE /\ asg' = [asg EXCEPT ![i] = new]
             /\ trail' = Append(trail, Event("agent.assigned", i))
             /\ call' = [call EXCEPT ![c].pc = "added"]
  /\ UNCHANGED <<agent, role, hooks, ops, silent, stands>>

(* Then the webhook event, with a commit of its own.                       *)
AssignHook(c) ==
  /\ call[c].pc = "added"
  /\ hooks' = hooks \cup {Event("assignment_added", call[c].of)}
  /\ Done(c)
  /\ UNCHANGED <<agent, role, asg, trail, ops, silent, stands>>

(* DELETE /agents/{id}/assignments/{id}, which leaves no audit row.        *)
RemoveRead(c, i) ==
  /\ asg[i].there
  /\ Begin(c, "remove", i, {}, <<>>, FALSE)
  /\ UNCHANGED <<agent, role, asg, trail, hooks, silent, stands>>

RemoveWrite(c) ==
  /\ call[c].pc = "remove"
  /\ asg' = [asg EXCEPT ![call[c].of].there = FALSE]
  /\ call' = [call EXCEPT ![c].pc = "removed"]
  /\ UNCHANGED <<agent, role, trail, hooks, ops, silent, stands>>

RemoveHook(c) ==
  /\ call[c].pc = "removed"
  /\ hooks' = hooks \cup {Event("assignment_removed", call[c].of)}
  /\ Done(c)
  /\ UNCHANGED <<agent, role, asg, trail, ops, silent, stands>>

(* The process stops, or the audit row loses the race for its sequence     *)
(* number: what the request has not committed is gone.                     *)
Fail(c) ==
  /\ call[c].pc # "idle"
  /\ Done(c)
  /\ UNCHANGED <<agent, role, asg, trail, hooks, ops, silent, stands>>

Next ==
  \/ \E a \in Agents, s \in Slugs : CreateAgent(a, s) \/ CreateAgentMcp(a, s)
  \/ \E r \in RoleIds, s \in Slugs, ps \in SUBSET Scopes : CreateRoleMcp(r, s, ps)
  \/ \E a \in Agents, s \in Slugs, i \in Asgs, u \in Users, r \in RoleIds \cup {None} : Import(a, s, i, u, r)
  \/ \E c \in Calls :
       \/ \E r \in RoleIds, s \in Slugs, ps \in SUBSET Scopes : CreateRoleLook(c, r, s, ps)
       \/ \E r \in RoleIds, ps \in SUBSET Scopes : ReplaceRead(c, r, ps)
       \/ \E r \in RoleIds, mcp \in BOOLEAN : DeleteRoleRead(c, r, mcp)
       \/ \E i \in Asgs, a \in Agents, u \in Users, r \in RoleIds \cup {None} : AssignRead(c, i, a, u, r)
       \/ \E i \in Asgs : RemoveRead(c, i)
       \/ CreateRoleWrite(c)
       \/ ReplaceWrite(c)
       \/ DeleteRoleWrite(c)
       \/ AssignWrite(c)
       \/ AssignHook(c)
       \/ RemoveWrite(c)
       \/ RemoveHook(c)
       \/ Fail(c)

Spec == Init /\ [][Next]_vars

-----------------------------------------------------------------------------
(* The types of the rows of agents, roles and assignments, of the audit    *)
(* log and of a request; the unique slugs of roles (models/policy.py:14).  *)
RoleType == [there : BOOLEAN, used : BOOLEAN, slug : Slugs \cup {None}, scopes : SUBSET Scopes]

AsgType == [there : BOOLEAN, used : BOOLEAN, agent : Agents \cup {None},
            user : Users \cup {None}, role : RoleIds \cup {None}]

EventType ==
  [what : {"agent.created", "role.created", "role.deleted", "agent.assigned",
           "assignment_added", "assignment_removed"},
   of : Agents \cup RoleIds \cup Asgs]

CallType ==
  [pc : {"idle", "create_role", "replace", "delete_role", "assign", "added", "remove", "removed"},
   of : RoleIds \cup Asgs \cup {None}, read : SUBSET Scopes, new : Seq(RoleType \cup AsgType),
   mcp : BOOLEAN, alone : BOOLEAN]

TypeOK ==
  /\ agent \in [Agents -> Slugs \cup {None}]
  /\ role \in [RoleIds -> RoleType]
  /\ asg \in [Asgs -> AsgType]
  /\ trail \in Seq(EventType) /\ hooks \subseteq EventType
  /\ call \in [Calls -> CallType]
  /\ ops \in 0 .. MaxOps
  /\ silent \subseteq Agents \cup RoleIds \cup Asgs
  /\ stands \in [RoleIds -> SUBSET SUBSET Scopes]
  /\ \A r, s \in RoleIds :
       role[r].there /\ role[s].there /\ role[r].slug = role[s].slug => r = s

(* Every assignment names an agent and a role that exist, although nothing *)
(* in the handlers keeps a role from being deleted while it is assigned    *)
(* (agents.py:170, roles.py:224).                                          *)
Grounded ==
  \A i \in Asgs : asg[i].there =>
    agent[asg[i].agent] # None /\ (asg[i].role # None => role[asg[i].role].there)

(* what is the last event about x.                                         *)
LastAbout(x, what) ==
  \E k \in DOMAIN trail :
    trail[k] = Event(what, x) /\ \A m \in DOMAIN trail : trail[m].of = x => m <= k

(* Of agents and roles that neither the MCP server nor an import from Okta *)
(* has touched (both write without an audit row) the audit log tells the   *)
(* truth at any moment: they exist iff the last event about them is their  *)
(* creation (agents.py:89, roles.py:118, :225); and an assignment that no  *)
(* import made or changed is in it (agents.py:184).                        *)
TrailTells ==
  /\ \A a \in Agents \ silent : agent[a] # None <=> \E k \in DOMAIN trail : trail[k].of = a
  /\ \A r \in RoleIds \ silent : role[r].there <=> LastAbout(r, "role.created")
  /\ \A i \in Asgs \ silent :
       asg[i].there => \E k \in DOMAIN trail : trail[k] = Event("agent.assigned", i)

(* Webhooks announce only what has happened: an assignment that was added  *)
(* is in the audit log, and one that was removed is gone                   *)
(* (agents.py:190, :247).                                                  *)
HooksAreTrue ==
  \A h \in hooks :
    /\ h.what = "assignment_added" => \E k \in DOMAIN trail : trail[k] = Event("agent.assigned", h.of)
    /\ h.what = "assignment_removed" => ~asg[h.of].there

(* A replacement of scopes no other one overlapped leaves the role exactly *)
(* the scopes it was asked for, or changes nothing (mcp_server.py:492).    *)
LoneReplaceStands == \A r \in RoleIds : \A s \in stands[r] : role[r].scopes = s
=============================================================================
