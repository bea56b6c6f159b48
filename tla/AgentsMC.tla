------------------------------ MODULE AgentsMC ------------------------------
(***************************************************************************)
(* What happens to an agent besides its decisions, for TLC: its row and    *)
(* what sets it (Agents), who may act for whom (Delegation), its           *)
(* credentials (Credentials), its roles and assignments (Registry), and    *)
(* the settings around it (Settings). The modules share no state, so one   *)
(* run checks them side by side: part, chosen by Init, is the one that     *)
(* moves, and the variables of the others are idle.                        *)
(***************************************************************************)
EXTENDS TLC

CONSTANTS Agents, Manual, Idents, Roles, Rules, Calls, MaxEvents, r1, r2,
          Parties, MaxDepth, Creds, Requests, Listed, RoleIds, Slugs, Scopes,
          Users, Asgs, MaxOps, Integrations, Tools, Servers, MaxChanges, None

VARIABLES part,
          mix, agent, okta, status, rule, event, old, deny, said, mixed,
          crossed, risk, call,
          grant, req,
          cred, asked,
          entry, role, asg, trail, hooks, handler, ops, silent, stands,
          kinds, row, told, tip, change, changes, mingled, untold

(* Which rows meet in one behaviour.                                       *)
SettingKinds == {Integrations \cup {r1}, Tools, Servers, Listed}

(* Which handlers meet in one behaviour.                                   *)
Mixes == {{"kill", "reactivate", "guardrail"}, {"guardrail", "rules"}, {"guardrail", "age"},
          {"guardrail", "rules", "age", "alone"},
          {"guardrail", "lift"}, {"sync", "okta"}, {"sync", "kill", "reactivate"},
          {"risk"}}

Says(threshold, narrow, short, action) ==
  [threshold |-> threshold, narrow |-> narrow, short |-> short, action |-> action]

Twice == Says(2, TRUE, TRUE, "suspend_agent")
Once == Says(1, FALSE, TRUE, "deny_all_policy")
Ever == Says(1, FALSE, FALSE, "suspend_agent")

(* A rule is made to count more and to want less, or is disabled.          *)
Edits == {<<r1, Twice, FALSE>>, <<r1, Ever, TRUE>>}

Rulings == {Twice, Once, Ever}
RuleBooks == {(r1 :> Twice) @@ (r2 :> Once)}

Histories == {[total |-> 10, denied |-> 0, waiting |-> 0],
              [total |-> 50, denied |-> 1, waiting |-> 0],
              [total |-> 10, denied |-> 1, waiting |-> 1]}

A == INSTANCE Agents
D == INSTANCE Delegation WITH Agents <- Parties
C == INSTANCE Credentials WITH req <- asked
R == INSTANCE Registry WITH Agents <- Listed, agent <- entry, call <- handler
S == INSTANCE Settings WITH Rules <- {r1}, AgentRows <- Listed,
       Kinds <- SettingKinds, MaxOps <- MaxChanges, call <- change,
       ops <- changes, crossed <- mingled

ASSUME AgentsMCAssumption ==
  /\ A!AgentsAssumption
  /\ D!DelegationAssumption
  /\ C!CredentialsAssumption
  /\ R!RegistryAssumption
  /\ S!SettingsAssumption

agentsVars == <<mix, agent, okta, status, rule, event, old, deny, said,
    mixed, crossed, risk, call>>
delegationVars == <<grant, req>>
credentialsVars == <<cred, asked>>
registryVars == <<entry, role, asg, trail, hooks, handler, ops, silent,
    stands>>
settingsVars == <<kinds, row, told, tip, change, changes, mingled, untold>>
vars == <<part, agentsVars, delegationVars, credentialsVars, registryVars,
    settingsVars>>

AgentsIdle ==
  /\ mix = None /\ agent = None /\ okta = None /\ status = None /\ rule = None
  /\ event = None /\ old = None /\ deny = None /\ said = None /\ mixed = None
  /\ crossed = None /\ risk = None /\ call = None
DelegationIdle ==
  /\ grant = None /\ req = None
CredentialsIdle ==
  /\ cred = None /\ asked = None
RegistryIdle ==
  /\ entry = None /\ role = None /\ asg = None /\ trail = None /\ hooks = None
  /\ handler = None /\ ops = None /\ silent = None /\ stands = None
SettingsIdle ==
  /\ kinds = None /\ row = None /\ told = None /\ tip = None /\ change = None
  /\ changes = None /\ mingled = None /\ untold = None

Init ==
  \/ /\ part = "agents" /\ A!Init
     /\ DelegationIdle /\ CredentialsIdle /\ RegistryIdle /\ SettingsIdle
  \/ /\ part = "delegation" /\ D!Init
     /\ AgentsIdle /\ CredentialsIdle /\ RegistryIdle /\ SettingsIdle
  \/ /\ part = "credentials" /\ C!Init
     /\ AgentsIdle /\ DelegationIdle /\ RegistryIdle /\ SettingsIdle
  \/ /\ part = "registry" /\ R!Init
     /\ AgentsIdle /\ DelegationIdle /\ CredentialsIdle /\ SettingsIdle
  \/ /\ part = "settings" /\ S!Init
     /\ AgentsIdle /\ DelegationIdle /\ CredentialsIdle /\ RegistryIdle

Next ==
  \/ part = "agents" /\ A!Next
     /\ UNCHANGED <<part, delegationVars, credentialsVars, registryVars,
       settingsVars>>
  \/ part = "delegation" /\ D!Next
     /\ UNCHANGED <<part, agentsVars, credentialsVars, registryVars,
       settingsVars>>
  \/ part = "credentials" /\ C!Next
     /\ UNCHANGED <<part, agentsVars, delegationVars, registryVars,
       settingsVars>>
  \/ part = "registry" /\ R!Next
     /\ UNCHANGED <<part, agentsVars, delegationVars, credentialsVars,
       settingsVars>>
  \/ part = "settings" /\ S!Next
     /\ UNCHANGED <<part, agentsVars, delegationVars, credentialsVars,
       registryVars>>

Spec == Init /\ [][Next]_vars

(* No property tells one call from another, or an agent that was synced    *)
(* from another.                                                           *)
Symmetry == Permutations(Calls) \cup Permutations(Agents \ Manual)

-----------------------------------------------------------------------------
(* An agent is what the last kill, reactivation, suspension or sync said,  *)
(* unless it was overtaken (agents.py:152); enough events in the window of *)
(* a rule set it off, unless they counted at the same time                 *)
(* (guardrails.py:711); one identity is one agent, unless syncs met        *)
(* (idp/sync.py:81).                                                       *)
AgentsHold ==
  part = "agents" =>
    /\ A!TypeOK /\ A!SaidIsTrue /\ A!NoThresholdMissed
    /\ A!OneAgentPerIdentity

(* A rule that denies everything leaves its policy enabled                 *)
(* (guardrails.py:626), and what the nightly job has raised stays above    *)
(* where it began (update_risk_scores.py:143).                             *)
DenyAndRiskStay == [][part = "agents" => A!DenyInjectedStep /\ A!RiskStaysRaisedStep]_vars

(* A chain of delegations gets deeper at every hop and stays within the    *)
(* limit it was made under, but for what it names (delegation.py:91); a    *)
(* credential stops working only when revoked or followed, whatever fails  *)
(* in a rotation, and has two successors only by overlap                   *)
(* (agent_credentials.py).                                                 *)
HeldRightsExplained ==
  /\ part = "delegation" =>
       /\ D!TypeOK /\ D!DeeperThanParents /\ D!LimitKept
       /\ D!RevokedAgainByOverlap
  /\ part = "credentials" =>
       /\ C!TypeOK /\ C!NeverWithout /\ C!HeirsExplained

(* Assignments rest on agents and roles that are there; the chain and the  *)
(* webhooks tell of nothing that did not happen (roles.py:224,             *)
(* agents.py:170, 190); a replacement of scopes that met no other stands   *)
(* (mcp_server.py:505). A setting holds, field by field, what was last     *)
(* recorded for it, but for the requests that overlapped on one field, and *)
(* the commits in two steps (guardrails.py:258, tools.py:108,              *)
(* mcp_gateway.py:257).  What the import from Okta changes without a word  *)
(* is named (idp/sync.py:97, 107, 113).                                    *)
RegistryHolds ==
  /\ part = "registry" =>
       /\ R!TypeOK /\ R!Grounded /\ R!TrailTells /\ R!HooksAreTrue
       /\ R!LoneReplaceStands
  /\ part = "settings" =>
       /\ S!TypeOK /\ S!SettingsAsTold /\ S!GoneAsTold /\ S!RulesRest

=============================================================================
