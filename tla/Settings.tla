------------------------------ MODULE Settings ------------------------------
(***************************************************************************)
(* The settings an administrator keeps in rows of their own: guardrail     *)
(* integrations and their rules (api/v1/guardrails.py), tools with their   *)
(* scopes (api/v1/tools.py), MCP servers (api/v1/mcp_gateway.py) and the   *)
(* properties of an agent (api/v1/agents.py).                              *)
(*                                                                         *)
(* A request loads the row, and at its flush writes the columns whose      *)
(* value differs from the loaded one.  record_admin commits the row with   *)
(* its audit row, or neither where the sequence number is taken.  But a    *)
(* server is deleted after its audit row, an agent is changed before, and  *)
(* the deletion of an integration or of a rule has none; nor has an agent  *)
(* that the import from Okta creates or renames (idp/sync.py).             *)
(***************************************************************************)
EXTENDS Naturals, Sequences

CONSTANTS Integrations, Rules, Tools, Servers, AgentRows,   \* rows there may be
          Scopes,         \* of a tool
          Calls,          \* concurrent requests
          Kinds,          \* which of these sets meet in one behaviour
          MaxOps,         \* bound on requests
          None

Rows == Integrations \cup Rules \cup Tools \cup Servers \cup AgentRows
Fields == {"action", "on"}
Values == [Fields -> BOOLEAN]

(* A scope of a tool is a row: its name, and the commit that inserted it.  *)
RowType == [there : BOOLEAN, fields : Values, scopes : SUBSET (Scopes \X Nat),
            of : Integrations \cup {None}]

(* A row of one table is none of another, and no row is nothing.           *)
SettingsAssumption ==
  /\ MaxOps \in Nat
  /\ None \notin Rows \cup RowType \cup {"create", "update", "server", "tool", "agent", "delete"}
  /\ Integrations \cap (Rules \cup Tools \cup Servers \cup AgentRows) = {}
  /\ Rules \cap (Tools \cup Servers \cup AgentRows) = {}
  /\ Tools \cap (Servers \cup AgentRows) = {}
  /\ Servers \cap AgentRows = {}

VARIABLES kinds,          \* the rows that are looked at
          row,            \* row[i]: [there, fields, scopes, of], or None before
          told,           \* told[i]: history, its changes in the audit log, and
                          \* the silent ones
          tip,            \* rows in the audit log
          call,           \* the requests
          ops,
          crossed,        \* history: rows changed on what another had changed
          untold          \* history: rows whose change and audit row differ

settings == <<kinds, row, told, tip, call, ops, crossed, untold>>

(* of      the row; set, scopes: what is asked; loaded: the row as read    *)
(* stale   history: what others changed of it since                        *)
Idle == [pc |-> "idle", op |-> None, of |-> None, set |-> <<>>, scopes |-> {},
         loaded |-> None, at |-> 0, stale |-> {}]

Init ==
  /\ kinds \in Kinds
  /\ row = [i \in Rows |-> None]
  /\ told = [i \in Rows |-> <<>>]
  /\ tip = 0
  /\ call = [c \in Calls |-> Idle]
  /\ ops = 0
  /\ crossed = {} /\ untold = {}

There(i) == row[i] # None /\ row[i].there

(* A scope is a row of its own: its name, and which one it is.             *)
Names(scopes) == {s[1] : s \in scopes}

Begin(c, k) ==
  /\ call[c].pc = "idle" /\ ops < MaxOps /\ k.of \in kinds
  /\ ops' = ops + 1
  /\ call' = [call EXCEPT ![c] = k]

(* What c writes to the columns of its row.                                *)
Changed(k) == {f \in DOMAIN k.set : k.set[f] # k.loaded.fields[f]}
Written(k, stored) == [f \in Fields |-> IF f \in Changed(k) THEN k.set[f] ELSE stored[f]]

(* What a flushed request has locked until it ends: the row it changes,    *)
(* the scopes it deletes and inserts, the integration of a new rule.       *)
Locks(k) ==
  CASE k.pc \notin {"flushed", "commit"} \/ k.op \in {"update", "delete", "agent"} -> {}
    [] k.op = "create" -> IF k.loaded.of = None THEN {} ELSE {<<k.loaded.of, "key">>}
    [] k.op = "server" -> IF Changed(k) = {} THEN {} ELSE {<<k.of, "row">>}
    [] k.op = "tool" -> (IF Changed(k) = {} THEN {} ELSE {<<k.of, "row">>})
                        \cup ({k.of} \X (k.scopes \cup Names(k.loaded.scopes)))

Free(c, locks) == \A d \in Calls \ {c} : Locks(call[d]) \cap locks = {}

(* c ends, having changed these parts of row i.                            *)
EndsOn(c, i, parts) ==
  call' = [d \in Calls |->
    IF d = c THEN Idle
    ELSE IF call[d].of = i THEN [call[d] EXCEPT !.stale = @ \cup parts] ELSE call[d]]

Ends(c) == call' = [call EXCEPT ![c] = Idle]

-----------------------------------------------------------------------------
Fresh(i) == row[i] = None /\ \A d \in Calls : call[d].of # i
New(fields, of) == [there |-> TRUE, fields |-> fields, scopes |-> {}, of |-> of]

Insert(c, i, new, scopes) ==
  /\ Fresh(i)
  /\ Begin(c, [Idle EXCEPT !.pc = "flushed", !.op = "create", !.of = i, !.set = new.fields,
                           !.scopes = scopes, !.loaded = new])
  /\ UNCHANGED <<kinds, row, told, tip, crossed, untold>>

CreateIntegration(c, i, v) == i \in Integrations /\ Insert(c, i, New(v, None), {})

(* A rule may be for one integration, which must be there: 500.            *)
CreateRule(c, i, v, of) ==
  /\ i \in Rules
  /\ of \in Integrations => There(of)
  /\ Insert(c, i, New(v, of), {})

CreateTool(c, i, v, scopes) == i \in Tools /\ Insert(c, i, New(v, None), scopes)

CreateServer(c, i, v) == i \in Servers /\ Insert(c, i, New(v, None), {})

(* An agent is created elsewhere (Registry), with an audit row or, by the  *)
(* MCP server and by the import, silently.                                 *)
AgentThere(i, v, what) ==
  /\ i \in AgentRows \cap kinds /\ row[i] = None
  /\ row' = [row EXCEPT ![i] = New(v, None)]
  /\ told' = [told EXCEPT ![i] = <<[what |-> what, set |-> v, scopes |-> {}]>>]
  /\ UNCHANGED <<kinds, tip, call, ops, crossed, untold>>

(* The import sets the name of an agent to the one at Okta, whatever it    *)
(* read before, and records nothing.  (Of the columns it sets, the only    *)
(* one that update_agent sets too.)                                        *)
ImportName(i, name) ==
  /\ i \in AgentRows \cap kinds /\ There(i)
  /\ ops < MaxOps /\ ops' = ops + 1
  /\ row' = [row EXCEPT ![i].fields["action"] = name]
  /\ told' = [told EXCEPT ![i] = Append(@, [what |-> "silent", set |-> [f \in {"action"} |-> name],
                                           scopes |-> {}])]
  /\ crossed' = IF i \in untold THEN crossed \cup {i} ELSE crossed
  /\ UNCHANGED <<kinds, tip, call, untold>>

(* The request has loaded the row; 404 without one.                        *)
Load(c, i, op, pc, set, scopes) ==
  /\ There(i)
  /\ Begin(c, [Idle EXCEPT !.pc = pc, !.op = op, !.of = i, !.set = set, !.scopes = scopes,
                           !.loaded = row[i]])
  /\ UNCHANGED <<kinds, row, told, tip, crossed, untold>>

(* PATCH sets the fields it is given.                                      *)
UpdateIntegration(c, i, set) == i \in Integrations /\ Load(c, i, "update", "flushed", set, {})

UpdateRule(c, i, set) == i \in Rules /\ Load(c, i, "update", "flushed", set, {})

UpdateServer(c, i, set) == i \in Servers /\ Load(c, i, "server", "loaded", set, {})

UpdateAgent(c, i, set) == i \in AgentRows /\ Load(c, i, "agent", "loaded", set, {})

(* PUT sets them all, and reads the scopes it will replace.                *)
UpdateTool(c, i, v, scopes) == i \in Tools /\ Load(c, i, "tool", "loaded", v, scopes)

-----------------------------------------------------------------------------
(* The flush of a server or a tool, before record_admin: it waits for the  *)
(* requests that hold a lock it needs, and fails where its row is gone, or *)
(* where a scope it inserts was inserted meanwhile.                        *)
Flush(c) ==
  LET k == call[c]
      gone == Changed(k) # {} /\ ~There(k.of)
      doubled == Names(row[k.of].scopes \ k.loaded.scopes) \cap k.scopes # {}
  IN /\ k.pc = "loaded" /\ k.op \in {"server", "tool"}
     /\ Free(c, Locks([k EXCEPT !.pc = "flushed"]))
     /\ IF gone \/ doubled THEN Ends(c) ELSE call' = [call EXCEPT ![c].pc = "flushed"]
     /\ UNCHANGED <<kinds, row, told, tip, ops, crossed, untold>>

(* update_agent commits what differs, or has nothing to do.                *)
ChangeAgent(c) ==
  LET k == call[c] i == k.of
  IN /\ k.pc = "loaded" /\ k.op = "agent"
     /\ IF Changed(k) = {} THEN Ends(c) /\ UNCHANGED <<row, crossed, untold>>
        ELSE /\ row' = [row EXCEPT ![i].fields = Written(k, @)]
             /\ call' = [d \in Calls |->
                  IF d = c THEN [k EXCEPT !.pc = "flushed", !.set = [f \in Changed(k) |-> k.set[f]]]
                  ELSE IF call[d].of = i THEN [call[d] EXCEPT !.stale = @ \cup Changed(k)]
                  ELSE call[d]]
             /\ untold' = untold \cup {i}
             /\ crossed' = IF k.stale \cap Changed(k) # {} \/ i \in untold THEN crossed \cup {i}
                           ELSE crossed
     /\ UNCHANGED <<kinds, told, tip, ops>>

(* record_admin reads the end of the chain.                                *)
ReadTip(c) ==
  /\ call[c].pc = "flushed"
  /\ call' = [call EXCEPT ![c].pc = "commit", ![c].at = tip]
  /\ UNCHANGED <<kinds, row, told, tip, ops, crossed, untold>>

Recorded(k, what) ==
  /\ tip' = tip + 1
  /\ told' = [told EXCEPT ![k.of] = Append(@, [what |-> what, set |-> k.set, scopes |-> k.scopes])]

(* The number is free, and the row is there for what is written to it.     *)
Commits(k) == k.at = tip /\ (k.op = "update" /\ Changed(k) # {} => There(k.of))

(* The row and its audit row; nobody who comes between is overwritten but  *)
(* in the columns that are set.                                            *)
Commit(c) ==
  LET k == call[c] i == k.of
  IN /\ k.pc = "commit" /\ k.op \in {"create", "update", "server", "tool"}
     /\ Commits(k)
     /\ LET stored == IF k.op = "create" THEN k.loaded ELSE row[i]
        IN row' = [row EXCEPT ![i] =
             IF ~stored.there THEN stored
             ELSE [stored EXCEPT !.fields = Written(k, @),
                     !.scopes = IF k.op = "tool" THEN (@ \ k.loaded.scopes) \cup (k.scopes \X {tip})
                                ELSE IF k.op = "create" THEN k.scopes \X {tip} ELSE @]]
     /\ Recorded(k, IF k.op = "create" THEN "created" ELSE "updated")
     /\ crossed' = IF k.stale \cap (DOMAIN k.set \cup {"scopes"}) # {} THEN crossed \cup {i} ELSE crossed
     /\ EndsOn(c, i, Changed(k) \cup IF k.op = "tool" THEN {"scopes"} ELSE {})
     /\ UNCHANGED <<kinds, ops, untold>>

(* The audit row of an agent comes after its change, of a server before.   *)
Record(c) ==
  LET k == call[c]
  IN /\ k.pc = "commit" /\ k.op \in {"agent", "delete"} /\ k.at = tip
     /\ Recorded(k, IF k.op = "agent" THEN "updated" ELSE "deleted")
     /\ IF k.op = "agent" THEN Ends(c) ELSE call' = [call EXCEPT ![c].pc = "drop"]
     /\ untold' = IF k.op = "agent" THEN untold \ {k.of} ELSE untold
     /\ UNCHANGED <<kinds, row, ops, crossed>>

-----------------------------------------------------------------------------
DeleteServer(c, i) == i \in Servers /\ Load(c, i, "delete", "flushed", <<>>, {})

DeleteIntegration(c, i) == i \in Integrations /\ Load(c, i, "delete", "drop", <<>>, {})

DeleteRule(c, i) == i \in Rules /\ Load(c, i, "delete", "drop", <<>>, {})

(* The row goes, an integration with its rules, once nobody holds it.      *)
Drop(c) ==
  LET i == call[c].of
      with == {i} \cup {r \in Rules : There(r) /\ row[r].of = i}
  IN /\ call[c].pc = "drop"
     /\ Free(c, {<<i, "row">>, <<i, "key">>})
     /\ row' = [r \in Rows |-> IF r \in with /\ There(r) THEN [row[r] EXCEPT !.there = FALSE]
                               ELSE row[r]]
     /\ Ends(c)
     /\ UNCHANGED <<kinds, told, tip, ops, crossed, untold>>

(* The process stops, or the commit fails: a number that is taken, a row   *)
(* that is gone, a deadlock.  What was committed stays.                    *)
Fail(c) ==
  /\ call[c].pc # "idle"
  /\ untold' = IF call[c].pc = "drop" THEN untold \cup {call[c].of} ELSE untold
  /\ Ends(c)
  /\ UNCHANGED <<kinds, row, told, tip, ops, crossed>>

Sets == UNION {[fs -> BOOLEAN] : fs \in SUBSET Fields \ {{}}}

Next ==
  \/ \E c \in Calls, i \in Rows :
       \/ \E v \in Values :
            \/ CreateIntegration(c, i, v) \/ CreateServer(c, i, v)
            \/ \E of \in Integrations \cup {None} : CreateRule(c, i, v, of)
            \/ \E ss \in SUBSET Scopes : CreateTool(c, i, v, ss) \/ UpdateTool(c, i, v, ss)
       \/ \E set \in Sets :
            \/ UpdateIntegration(c, i, set) \/ UpdateRule(c, i, set)
            \/ UpdateServer(c, i, set) \/ UpdateAgent(c, i, set)
       \/ DeleteServer(c, i) \/ DeleteIntegration(c, i) \/ DeleteRule(c, i)
  \/ \E i \in Rows : \/ \E v \in Values, what \in {"created", "silent"} : AgentThere(i, v, what)
                   \/ \E name \in BOOLEAN : ImportName(i, name)
  \/ \E c \in Calls : \/ Flush(c) \/ ChangeAgent(c) \/ ReadTip(c) \/ Commit(c) \/ Record(c)
                      \/ Drop(c) \/ Fail(c)

Spec == Init /\ [][Next]_settings

-----------------------------------------------------------------------------
(* The types of the rows, of the recorded changes and of the requests.     *)
Asked == UNION {[fs -> BOOLEAN] : fs \in SUBSET Fields}

ChangeType == [what : {"created", "updated", "deleted", "silent"}, set : Asked, scopes : SUBSET Scopes]

CallType ==
  [pc : {"idle", "loaded", "flushed", "commit", "drop"},
   op : {"create", "update", "server", "tool", "agent", "delete", None}, of : Rows \cup {None},
   set : Asked, scopes : SUBSET Scopes, loaded : RowType \cup {None}, at : Nat,
   stale : SUBSET (Fields \cup {"scopes"})]

TypeOK ==
  /\ row \in [Rows -> RowType \cup {None}]
  /\ told \in [Rows -> Seq(ChangeType)]
  /\ tip \in Nat /\ ops \in 0 .. MaxOps
  /\ call \in [Calls -> CallType]
  /\ crossed \subseteq Rows /\ untold \subseteq Rows

(* The value of a field, by the changes that were recorded or silent.      *)
Last(i, f) ==
  LET ks == {k \in DOMAIN told[i] : f \in DOMAIN told[i][k].set}
      k == CHOOSE k \in ks : \A m \in ks : m <= k
  IN told[i][k].set[f]

(* A row holds, field by field, the last values that were recorded for it  *)
(* (or that an import from Okta has set since, idp/sync.py:107), although  *)
(* requests on other fields come between, lose the race for the chain or   *)
(* die: unless one set a field that another had changed since it was       *)
(* loaded, or the change and its audit row are commits of their own        *)
(* (guardrails.py:258, tools.py:108, agents.py:420).                       *)
SettingsAsTold ==
  \A i \in Rows : There(i) /\ i \notin crossed \cup untold =>
    /\ \A f \in Fields : row[i].fields[f] = Last(i, f)
    /\ i \in Tools => Names(row[i].scopes) = told[i][Len(told[i])].scopes

(* A server whose deletion is recorded is gone, or being deleted, or the   *)
(* request that deletes it has died in between (mcp_gateway.py:257).       *)
GoneAsTold ==
  \A i \in Servers \ untold :
    There(i) /\ (\E k \in DOMAIN told[i] : told[i][k].what = "deleted")
    => \E c \in Calls : call[c].pc = "drop" /\ call[c].of = i

(* No rule is there without its integration, whichever of its creation and *)
(* the deletion of the integration comes first (guardrails.py:286, :316).  *)
RulesRest == \A r \in Rules : There(r) /\ row[r].of # None => There(row[r].of)
=============================================================================
