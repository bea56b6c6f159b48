------------------------------- MODULE Agents -------------------------------
(***************************************************************************)
(* Who may switch an agent off and on: the kill switch and its undoing     *)
(* (api/v1/agents.py), guardrail rules that count the events a monitoring  *)
(* platform sends (api/v1/guardrails.py), and the import of agents from an *)
(* identity provider (api/v1/agent_idp.py, idp/sync.py, idp/okta.py).      *)
(*                                                                         *)
(* Each handler loads the agent once and keeps the object; its session     *)
(* writes the columns whose value the handler changed, so switching off an *)
(* agent that was read as inactive writes nothing.  record_admin commits   *)
(* whatever the session holds, in the middle of a handler; when the audit  *)
(* chain refuses it the request ends there.                                *)
(***************************************************************************)
EXTENDS Naturals, Sequences, FiniteSets, FiniteSetsExt

CONSTANTS Agents, Manual,   \* agents that may ever exist, those created by hand
          Idents,           \* identities at the identity provider
          Roles,
          Rules, Rulings,   \* guardrail rules, and what one may say
          RuleBooks,        \* what they say to begin with
          Edits,            \* bound: the changes made to rules
          Calls,
          Histories,        \* what an agent may have decided in thirty days
          Mixes,            \* bound: which handlers meet in one behaviour
          MaxEvents,        \* bound on guardrail events
          None

Actions == {"alert_only", "revoke_jit_grants", "deny_all_policy", "suspend_agent"}

AgentsAssumption ==
  /\ Manual \subseteq Agents /\ MaxEvents \in Nat
  /\ None \notin Agents \cup Idents \cup Roles
  /\ Rulings \subseteq [threshold : Nat \ {0}, narrow : BOOLEAN, short : BOOLEAN, action : Actions]
  /\ RuleBooks \subseteq [Rules -> Rulings]

VARIABLES mix,
          agent,      \* rows of agents, and the role of the on-behalf assignment
          okta,       \* the identities at Okta and the role their groups map to
          status,     \* last_sync_status
          rule,       \* guardrail_rules
          event,      \* guardrail_events, in order of commit
          old,        \* how many of them have left a short window
          deny,       \* the injected deny policy: absent, enabled or disabled
          said,       \* history: what the last handler said of the agent
          mixed,      \* history: agents whose last handler was overtaken
          crossed,    \* history: identities imported by syncs that met
          risk,       \* risk_class
          call

vars == <<mix, agent, okta, status, rule, event, old, deny, said, mixed, crossed, risk, call>>

AgentType == [here : BOOLEAN, active : BOOLEAN, ident : Idents \cup {None},
              role : Roles \cup {None}]

(* threshold, narrow, short and action of a ruling: event_count_threshold; *)
(* filter_agent_ids is set, only events about the agent count;             *)
(* time_window_seconds is small; action.                                   *)
(* from    history: events there were when the rule was last changed       *)
RuleType == [says : Rulings, on : BOOLEAN, from : Nat]

(* fired   rules that fired on it; late: overtaken while it was counted    *)
EventType == [agent : Agents \cup {None}, acted : Actions \cup {"pending"},
              fired : SUBSET Rules, late : BOOLEAN]

(* What a sync means to do for an identity: the agent it found or flushed, *)
(* the columns as loaded.                                                  *)
PlanType == [agent : Agents \cup {None}, new : BOOLEAN, active : BOOLEAN,
             role : Roles \cup {None}, had : Roles \cup {None}]

(* read    the rules as loaded                                             *)
(* late    history: since this call read, is_active was changed ("switch"),*)
(*         an event or a rule was committed ("count"), the injected policy *)
(*         was disabled ("policy"), another sync was committed ("import")  *)
Pcs == {"idle", "kill", "on", "rules", "enforce", "sync", "flush", "wait"}
CallType == [pc : Pcs, agent : Agents \cup {None}, active : BOOLEAN,
             ev : Nat, todo : SUBSET Rules, fired : SUBSET Rules,
             read : [Rules -> Rulings \cup {None}],
             rule : Rules \cup {None}, deny : {"absent", "on", "off"},
             list : SUBSET Idents, left : SUBSET Idents, at : Idents \cup {None},
             plan : [Idents -> PlanType], late : SUBSET {"switch", "count", "policy", "import"}]

NoPlan == [agent |-> None, new |-> FALSE, active |-> FALSE, role |-> None, had |-> None]
NoCall == [pc |-> "idle", agent |-> None, active |-> FALSE, ev |-> 0, todo |-> {},
           fired |-> {}, read |-> [r \in Rules |-> None], rule |-> None,
           deny |-> "absent", list |-> {}, left |-> {}, at |-> None,
           plan |-> [i \in Idents |-> NoPlan], late |-> {}]

Init ==
  /\ mix \in Mixes
  /\ agent = [a \in Agents |-> [here |-> a \in Manual, active |-> a \in Manual,
                                ident |-> None, role |-> None]]
  /\ okta = [i \in Idents |-> [listed |-> TRUE, role |-> None]]
  /\ status = "never"
  /\ \E book \in RuleBooks :
       rule = [r \in Rules |-> [says |-> book[r], on |-> TRUE, from |-> 0]]
  /\ event = <<>> /\ old = 0
  /\ deny = [a \in Agents |-> "absent"]
  /\ said = [a \in Agents |-> a \in Manual] /\ mixed = {} /\ crossed = {}
  /\ risk = [a \in Agents |-> "medium"]
  /\ call = [c \in Calls |-> NoCall]

-----------------------------------------------------------------------------
Busy(d) == call[d].pc # "idle"

(* Bound: in a mix that is alone, one handler runs at a time.              *)
Starts(c, handler) ==
  /\ handler \in mix /\ call[c].pc = "idle"
  /\ "alone" \in mix => \A d \in Calls : ~Busy(d)

Plans(k, a) == {i \in Idents : k.plan[i].agent = a}

(* Calls in flight that hold one of the agents, or are counting events.    *)
Overtake(as, counted) ==
  [d \in Calls |-> [call[d] EXCEPT !.late = @
     \cup (IF Busy(d) /\ (call[d].agent \in as \/ \E a \in as : Plans(call[d], a) # {})
           THEN {"switch"} ELSE {})
     \cup (IF counted /\ call[d].pc \in {"rules", "enforce"} /\ call[d].ev = 0
           THEN {"count"} ELSE {})]]

(* The session writes is_active when the handler changed what was loaded.  *)
Switched(a, loaded, on) ==
  [agent EXCEPT ![a].active = IF loaded # on THEN on ELSE @]

Judge(a, on, late) ==
  /\ said' = [said EXCEPT ![a] = on]
  /\ mixed' = IF late THEN mixed \cup {a} ELSE mixed \ {a}

-----------------------------------------------------------------------------
(* kill_agent: the switch is committed first, its audit row second; a      *)
(* refused row changes nothing of what is modelled here.                   *)
KillRead(c, a) ==
  /\ Starts(c, "kill") /\ agent[a].here
  /\ call' = [call EXCEPT ![c] = [NoCall EXCEPT !.pc = "kill", !.agent = a,
                                                !.active = agent[a].active]]
  /\ UNCHANGED <<mix, agent, okta, status, rule, event, old, deny, said, mixed, crossed, risk>>

KillCommit(c) ==
  LET k == call[c] IN
  /\ k.pc = "kill"
  /\ agent' = Switched(k.agent, k.active, FALSE)
  /\ Judge(k.agent, FALSE, "switch" \in k.late)
  /\ call' = [Overtake({k.agent}, FALSE) EXCEPT ![c] = NoCall]
  /\ UNCHANGED <<mix, okta, status, rule, event, old, deny, crossed, risk>>

(* reactivate_agent: nothing to do for an agent that is read as active.    *)
ReactivateRead(c, a) ==
  /\ Starts(c, "reactivate") /\ agent[a].here /\ ~agent[a].active
  /\ call' = [call EXCEPT ![c] = [NoCall EXCEPT !.pc = "on", !.agent = a]]
  /\ UNCHANGED <<mix, agent, okta, status, rule, event, old, deny, said, mixed, crossed, risk>>

ReactivateCommit(c) ==
  LET k == call[c] IN
  /\ k.pc = "on"
  /\ agent' = Switched(k.agent, k.active, TRUE)
  /\ Judge(k.agent, TRUE, "switch" \in k.late)
  /\ call' = [Overtake({k.agent}, FALSE) EXCEPT ![c] = NoCall]
  /\ UNCHANGED <<mix, okta, status, rule, event, old, deny, crossed, risk>>

-----------------------------------------------------------------------------
(* Guardrails: an event is flushed, the enabled rules are loaded, and each *)
(* of them counts.                                                         *)
Inbound(c, a) ==
  /\ Starts(c, "guardrail")
  /\ Len(event) + Cardinality({d \in Calls : call[d].pc \in {"rules", "enforce"}}) < MaxEvents
  /\ call' = [call EXCEPT ![c] = [NoCall EXCEPT !.pc = "rules", !.agent = a,
                !.active = a # None /\ agent[a].active,
                !.todo = {r \in Rules : rule[r].on},
                !.read = [r \in Rules |-> rule[r].says]]]
  /\ UNCHANGED <<mix, agent, okta, status, rule, event, old, deny, said, mixed, crossed, risk>>

(* The committed events in the window of a ruling that count when one is   *)
(* about agent a.                                                          *)
Counted(says, a) ==
  {k \in ((IF says.short THEN old ELSE 0) + 1)..Len(event) : says.narrow => event[k].agent = a}

(* Mutant: the event that is being handled is not counted.                 *)
Count_Others(c, r) == Cardinality(Counted(call[c].read[r], call[c].agent))

(* The events in the window the rule counts, this one included.            *)
Count(c, r) ==
  Cardinality(Counted(call[c].read[r], call[c].agent)) + (IF call[c].ev = 0 THEN 1 ELSE 0)

(* A rule that does not match, or has not counted enough, is passed over;  *)
(* one that only alerts, or has no agent to act on, fires without a commit.*)
Evaluate(c, r) ==
  LET k == call[c]
      says == k.read[r]
  IN
  /\ k.pc = "rules" /\ r \in k.todo
  /\ call' = [call EXCEPT ![c] =
       IF (says.narrow /\ k.agent = None) \/ Count(c, r) < says.threshold
       THEN [k EXCEPT !.todo = @ \ {r}]
       ELSE IF k.agent = None \/ says.action = "alert_only"
       THEN [k EXCEPT !.todo = @ \ {r}, !.fired = @ \cup {r}]
       ELSE [k EXCEPT !.pc = "enforce", !.rule = r, !.deny = deny[k.agent]]]
  /\ UNCHANGED <<mix, agent, okta, status, rule, event, old, deny, said, mixed, crossed, risk>>

Row(k, acted) == [agent |-> k.agent, acted |-> acted, fired |-> k.fired,
                  late |-> "count" \in k.late]

(* The event row as this commit leaves it.                                 *)
Committed(k, acted) ==
  IF k.ev = 0 THEN Append(event, Row(k, acted)) ELSE [event EXCEPT ![k.ev] = Row(k, acted)]

After(c, k, as, counted) == [Overtake(as, counted) EXCEPT ![c] = k]

(* agent.is_active = False                                                 *)
Suspended(k) == Switched(k.agent, k.active, FALSE)

(* is_enabled of the injected policy, as the session writes it             *)
Injected(k) == IF k.deny # "on" THEN "on" ELSE deny[k.agent]

(* _enforce_action: the effect, the event as it stands and the audit row   *)
(* of the effect are one commit.  An agent that was loaded as inactive is  *)
(* not written, and the request stays behind what overtook it.  No grant   *)
(* has an agent for its user_id, so revoke_jit_grants finds none; slugs    *)
(* are unique, so a policy that somebody else has injected meanwhile is a  *)
(* conflict.                                                               *)
Enforce(c) ==
  LET k == call[c]
      act == k.read[k.rule].action
      done == [k EXCEPT !.pc = "rules", !.todo = @ \ {k.rule}, !.fired = @ \cup {k.rule},
                 !.rule = None, !.ev = IF @ = 0 THEN Len(event) + 1 ELSE @,
                 !.active = IF act = "suspend_agent" THEN FALSE ELSE @]
  IN
  /\ k.pc = "enforce"
  /\ act = "deny_all_policy" /\ k.deny = "absent" => deny[k.agent] = "absent"
  /\ event' = Committed(k, "pending")
  /\ IF act = "suspend_agent"
     THEN /\ agent' = Suspended(k)
          /\ Judge(k.agent, FALSE, "switch" \in k.late)
          /\ call' = After(c, [done EXCEPT !.late = IF k.active THEN @ \ {"switch"} ELSE @],
                           {k.agent}, k.ev = 0)
     ELSE /\ UNCHANGED <<agent, said, mixed>>
          /\ call' = After(c, done, {}, k.ev = 0)
  /\ deny' = IF act = "deny_all_policy" THEN [deny EXCEPT ![k.agent] = Injected(k)] ELSE deny
  /\ UNCHANGED <<mix, okta, status, rule, old, crossed, risk>>

(* ACTION_RANK                                                             *)
Rank(act) == CASE act = "alert_only" -> 0 [] act = "revoke_jit_grants" -> 1
               [] act = "deny_all_policy" -> 2 [] act = "suspend_agent" -> 3

(* The most severe action taken across all rules that fired                *)
Top(k) ==
  IF k.fired = {} THEN "alert_only"
  ELSE CHOOSE act \in {k.read[r].action : r \in k.fired} :
         \A r \in k.fired : Rank(k.read[r].action) <= Rank(act)

Settle(c) ==
  LET k == call[c] IN
  /\ k.pc = "rules" /\ k.todo = {}
  /\ event' = Committed(k, Top(k))
  /\ call' = After(c, NoCall, {}, k.ev = 0)
  /\ UNCHANGED <<mix, agent, okta, status, rule, old, deny, said, mixed, crossed, risk>>

(* The chain or the unique slug refuses a commit: the request ends, and    *)
(* what it had committed stays.                                            *)
Refused(c) ==
  /\ \/ call[c].pc \in {"rules", "enforce"}
     \/ call[c].pc = "sync"
  /\ call' = [call EXCEPT ![c] = NoCall]
  /\ UNCHANGED <<mix, agent, okta, status, rule, event, old, deny, said, mixed, crossed, risk>>

(* update_rule: threshold, window, filters, action and is_enabled, any of  *)
(* them at a time.                                                         *)
UpdateRule(r) ==
  /\ "rules" \in mix
  /\ \E says \in Rulings, on \in BOOLEAN :
       /\ <<r, says, on>> \in Edits
       /\ rule' = [rule EXCEPT ![r] = [says |-> says, on |-> on, from |-> Len(event)]]
  /\ call' = Overtake({}, TRUE)
  /\ UNCHANGED <<mix, agent, okta, status, event, old, deny, said, mixed, crossed, risk>>

Age ==
  /\ "age" \in mix /\ old < Len(event) /\ old' = old + 1
  /\ UNCHANGED <<mix, agent, okta, status, rule, event, deny, said, mixed, crossed, risk, call>>

(* An administrator disables the injected policy.                          *)
Lift(a) ==
  /\ "lift" \in mix /\ deny[a] = "on" /\ deny' = [deny EXCEPT ![a] = "off"]
  /\ call' = [d \in Calls |-> IF call[d].pc = "enforce" /\ call[d].agent = a
                               THEN [call[d] EXCEPT !.late = @ \cup {"policy"}] ELSE call[d]]
  /\ UNCHANGED <<mix, agent, okta, status, rule, event, old, said, mixed, crossed, risk>>

-----------------------------------------------------------------------------
(* The identity provider.                                                  *)
Change(i) ==
  /\ "okta" \in mix
  /\ \E now \in [listed : BOOLEAN, role : Roles \cup {None}] : okta' = [okta EXCEPT ![i] = now]
  /\ UNCHANGED <<mix, agent, status, rule, event, old, deny, said, mixed, crossed, risk, call>>

(* run_sync: the listing, or nothing but a status                          *)
SyncList(c) ==
  /\ Starts(c, "sync")
  /\ LET list == {i \in Idents : okta[i].listed} IN
       call' = [call EXCEPT ![c] = [NoCall EXCEPT !.pc = "sync", !.list = list, !.left = list]]
  /\ UNCHANGED <<mix, agent, okta, status, rule, event, old, deny, said, mixed, crossed, risk>>

SyncFails(c) ==
  /\ Starts(c, "sync") /\ status' = "error"
  /\ UNCHANGED <<mix, agent, okta, rule, event, old, deny, said, mixed, crossed, risk, call>>

Known(i) == {a \in Agents : agent[a].here /\ agent[a].ident = i}

(* One identity: the agent it has, and its groups; an error in asking for  *)
(* the groups leaves them empty.                                           *)
Lookup(c, i) ==
  LET k == call[c] IN
  /\ k.pc = "sync" /\ i \in k.left
  /\ \E a \in IF Known(i) = {} THEN {None} ELSE Known(i), role \in {okta[i].role, None} :
       LET p == [agent |-> a, new |-> a = None, active |-> a # None /\ agent[a].active,
                 role |-> role, had |-> IF a = None THEN None ELSE agent[a].role] IN
       call' = [call EXCEPT ![c] = [k EXCEPT !.left = @ \ {i}, !.at = i, !.plan[i] = p,
                                      !.pc = IF a = None THEN "flush" ELSE "sync"]]
  /\ UNCHANGED <<mix, agent, okta, status, rule, event, old, deny, said, mixed, crossed, risk>>

(* Another sync has flushed an agent for the identity and not committed.   *)
Flushed(c, i) ==
  \E d \in Calls \ {c} : call[d].plan[i].new /\ call[d].plan[i].agent # None

(* The slug is chosen among the committed rows.  When another sync holds   *)
(* it, the insert waits for that one; a new agent that was committed after *)
(* the lookup only makes the slug a different one.                         *)
Flush(c) ==
  LET k == call[c] IN
  /\ k.pc \in {"flush", "wait"}
  /\ IF Flushed(c, k.at)
     THEN k.pc = "flush" /\ call' = [call EXCEPT ![c].pc = "wait"]
     ELSE \E a \in Agents :
            /\ ~agent[a].here /\ \A d \in Calls : Plans(call[d], a) = {}
            /\ call' = [call EXCEPT ![c] = [k EXCEPT !.pc = "sync", !.plan[k.at].agent = a]]
  /\ UNCHANGED <<mix, agent, okta, status, rule, event, old, deny, said, mixed, crossed, risk>>

(* Imported agents that are active and were not listed.                    *)
Missing(list) ==
  {a \in Agents : agent[a].here /\ agent[a].active /\ agent[a].ident \notin list \cup {None}}

(* The row of an agent that was listed.                                    *)
Synced(k, a) ==
  LET i == CHOOSE j \in Idents : k.plan[j].agent = a
      p == k.plan[i]
  IN [here |-> TRUE, ident |-> i,
      active |-> IF p.new \/ ~p.active THEN TRUE ELSE agent[a].active,
      role |-> IF p.role # None THEN p.role ELSE agent[a].role]

(* One commit for all identities; an assignment that another sync has      *)
(* inserted meanwhile fails it, and with it a sync that waits for its key  *)
(* fails.                                                                  *)
SyncCommit(c) ==
  LET k == call[c]
      as == {a \in Agents : Plans(k, a) # {}}
      off == Missing(k.list)
  IN
  /\ k.pc = "sync" /\ k.left = {}
  /\ IF \E i \in Idents : LET p == k.plan[i] IN
          ~p.new /\ p.role # None /\ p.had = None /\ agent[p.agent].role # None
     THEN /\ call' = [call EXCEPT ![c] = NoCall]
          /\ UNCHANGED <<agent, said, mixed, crossed, status>>
     ELSE /\ agent' = [a \in Agents |->
                         IF a \in as THEN Synced(k, a)
                         ELSE IF a \in off THEN [agent[a] EXCEPT !.active = FALSE] ELSE agent[a]]
          /\ said' = [a \in Agents |-> IF a \in as THEN TRUE ELSE IF a \in off THEN FALSE ELSE said[a]]
          /\ mixed' = (mixed \ (as \cup off)) \cup (IF "switch" \in k.late THEN as ELSE {})
          /\ crossed' = IF "import" \in k.late THEN crossed \cup k.list ELSE crossed
          /\ status' = "ok"
          /\ call' = [d \in Calls |->
                        IF d = c \/ (call[d].pc = "wait" /\ k.plan[call[d].at].new) THEN NoCall
                        ELSE [Overtake(as \cup off, FALSE)[d] EXCEPT
                                !.late = @ \cup (IF call[d].list # {} THEN {"import"} ELSE {})]]
  /\ UNCHANGED <<mix, okta, rule, event, old, deny, risk>>

-----------------------------------------------------------------------------
(* update_risk_scores: the score of an agent, in hundredths.  Each rate is *)
(* a share of all its decisions, the weights add up to 100, and the sum is *)
(* taken as a percentage.                                                  *)
Score(total, denied, waiting) ==
  IF total = 0 THEN 0 ELSE Min({10000, ((40 * denied + 30 * waiting) * 10000) \div total})

(* Mutant: the class follows the score.                                    *)
RiskClass_Follows(was, score) ==
  IF score > 9000 THEN "critical" ELSE IF score > 7500 THEN "high" ELSE "medium"

RiskClass(was, score) ==
  IF score > 9000 THEN "critical" ELSE IF score > 7500 THEN "high" ELSE was

(* One commit for all active agents, of which a monitors' history is any.  *)
UpdateRisk(a) ==
  /\ "risk" \in mix /\ agent[a].here /\ agent[a].active
  /\ \E h \in Histories :
       risk' = [risk EXCEPT ![a] = RiskClass(risk[a], Score(h.total, h.denied, h.waiting))]
  /\ UNCHANGED <<mix, agent, okta, status, rule, event, old, deny, said, mixed, crossed, call>>

-----------------------------------------------------------------------------
Step(c) ==
  \/ \E a \in Agents : KillRead(c, a) \/ ReactivateRead(c, a)
  \/ KillCommit(c) \/ ReactivateCommit(c)
  \/ \E a \in Agents \cup {None} : (a # None => agent[a].here) /\ Inbound(c, a)
  \/ \E r \in Rules : Evaluate(c, r)
  \/ Enforce(c) \/ Settle(c) \/ Refused(c)
  \/ SyncList(c) \/ SyncFails(c)
  \/ \E i \in Idents : Lookup(c, i)
  \/ Flush(c) \/ SyncCommit(c)

Next ==
  \/ \E c \in Calls : Step(c)
  \/ \E r \in Rules : UpdateRule(r)
  \/ \E a \in Agents : Lift(a) \/ UpdateRisk(a)
  \/ \E i \in Idents : Change(i)
  \/ Age

Spec == Init /\ [][Next]_vars

-----------------------------------------------------------------------------
(* The types of the rows (models/agent.py, models/guardrail.py).           *)
TypeOK ==
  /\ mix \in Mixes /\ agent \in [Agents -> AgentType]
  /\ okta \in [Idents -> [listed : BOOLEAN, role : Roles \cup {None}]]
  /\ status \in {"never", "ok", "error"}
  /\ rule \in [Rules -> RuleType]
  /\ event \in Seq(EventType) /\ old \in 0..Len(event)
  /\ deny \in [Agents -> {"absent", "on", "off"}]
  /\ said \in [Agents -> BOOLEAN] /\ mixed \subseteq Agents /\ crossed \subseteq Idents
  /\ risk \in [Agents -> {"medium", "high", "critical"}]
  /\ call \in [Calls -> CallType]

(* An agent is what the last kill, reactivation, suspension or sync said   *)
(* it is, unless that one was overtaken by another: each writes only what  *)
(* it changed of the row it had loaded.                                    *)
SaidIsTrue == \A a \in Agents \ mixed : agent[a].here => agent[a].active = said[a]

(* When enough events are in the window of a rule, one of them set it off, *)
(* unless they counted at the same time, one was cut short, or none came   *)
(* since the rule was last changed: a rule that is enabled, widened or     *)
(* given a lower threshold waits for the next event (_evaluate_rules       *)
(* counts before it commits, update_rule counts nothing).                  *)
NoThresholdMissed ==
  \A r \in Rules, a \in Agents :
    LET counted == Counted(rule[r].says, a) IN
    /\ rule[r].on /\ Cardinality(counted) >= rule[r].says.threshold
    /\ \A k \in counted : event[k].acted # "pending" /\ ~event[k].late
    /\ \E k \in counted : k > rule[r].from
    => \E k \in counted : r \in event[k].fired

(* A rule that denies everything leaves its policy enabled, unless an      *)
(* administrator disabled it while the rule was at it.                     *)
DenyInjectedStep ==
  \A c \in Calls :
    call[c].pc = "enforce" /\ event' # event /\ call'[c].pc = "rules" /\ call[c].rule # None
      /\ call[c].read[call[c].rule].action = "deny_all_policy"
    => deny'[call[c].agent] = "on" \/ "policy" \in call[c].late
DenyInjected == [][DenyInjectedStep]_vars

(* An identity is imported as two agents only by syncs that met.           *)
OneAgentPerIdentity ==
  \A a, b \in Agents : agent[a].ident = agent[b].ident /\ a # b
                          => agent[a].ident \in crossed \cup {None}

(* What the nightly job has raised stays above where it began.             *)
RiskStaysRaisedStep == \A a \in Agents : risk[a] # "medium" => risk'[a] # "medium"
RiskStaysRaised == [][RiskStaysRaisedStep]_vars

=============================================================================
