---------------------------- MODULE McpWrapper ----------------------------
(***************************************************************************)
(* The wrapper in front of a tool server (kynara-mcp-wrapper) and the rows *)
(* it is governed by (api/v1/mcp_gateway.py).  A tool call reads the       *)
(* configuration three times, each time from a cache of the process or     *)
(* from the service; it asks for a decision; it is forwarded or refused.   *)
(* What a tool brings in from outside taints the session, and later calls  *)
(* say so when they ask.                                                   *)
(*                                                                         *)
(* The decision service is reduced to its policies and its cache, whose    *)
(* key has no context (DecisionService has the rest).  What a sidecar      *)
(* would answer is anything.                                               *)
(***************************************************************************)
EXTENDS Naturals, FiniteSets

CONSTANTS Tools, Sources,     \* what the upstream may offer; what brings content in
          Calls,
          ConfigTTL,          \* KYNARA_GATEWAY_CONFIG_TTL
          DecisionTTL,        \* how long the service caches a decision
          Timeout,            \* of a request for the configuration
          Mixes,              \* bound: what else happens in one behaviour
          None

WrapperAssumption ==
  /\ Sources \subseteq Tools
  /\ {ConfigTTL, DecisionTTL, Timeout} \subseteq Nat \ {0}
  /\ None \notin Tools \cup Nat

VARIABLES mix,
          fail,       \* mcp_servers.fail_mode
          strict,     \* mcp_servers.require_approval_default
          row,        \* mcp_tools, by name
          upstream,   \* the tools the upstream server offers
          config,     \* _config of the wrapper and its age
          taint,      \* the session has untrusted content
          policy,     \* what the service's policies say of a tool's scope
          cache,      \* the service's decision cache, by scope
          age,        \* history: for how long a pin, a fail mode, a policy has held
          call

vars == <<mix, fail, strict, row, upstream, config, taint, policy, cache, age, call>>

Overrides == {"none", "deny", "approval"}
Policies == {"allow", "deny", "approval", "unless_tainted"}
Stages == {"override", "scope", "fail"}

RowType == [here : BOOLEAN, on : BOOLEAN, override : Overrides]

(* What GET /config answers: the enabled tools, and the fail mode.         *)
ConfigType == [known : BOOLEAN, fail : {"open", "closed"}, tools : SUBSET Tools,
               denied : SUBSET Tools, age : 0..ConfigTTL + Timeout]
Unknown == [known |-> FALSE, fail |-> "closed", tools |-> {}, denied |-> {}, age |-> 0]

(* held    the answer to a request for the configuration, on its way       *)
(* stale   history: the readings for which that request failed             *)
(* pin, shut, guard, clean   history: when it read the override, the fail  *)
(*         mode, the decision: for how long the tool had been pinned, the  *)
(*         server closed, the policy unless_tainted; how long ago the      *)
(*         scope was last decided for a clean session.  None is never, and *)
(*         for the last one long ago; ages stop at what is compared.       *)
ConfigSpan == ConfigTTL + Timeout
Ages(most) == 0..most \cup {None}
CallType == [pc : {"idle", "check", "sent", "done"} \cup Stages,
             tool : Tools \cup {None}, held : {Unknown} \cup ConfigType, mapped : BOOLEAN,
             open : BOOLEAN, tainted : BOOLEAN, via : {None, "sidecar", "service", "fallback"},
             stale : SUBSET Stages, pin : Ages(ConfigSpan), shut : Ages(ConfigSpan),
             guard : Ages(DecisionTTL), clean : Ages(DecisionTTL - 1)]
NoCall == [pc |-> "idle", tool |-> None, held |-> Unknown, mapped |-> FALSE, open |-> FALSE,
           tainted |-> FALSE, via |-> None, stale |-> {}, pin |-> None, shut |-> None,
           guard |-> None, clean |-> None]

Ended == [NoCall EXCEPT !.pc = "done"]
NoEntry == [effect |-> "none", left |-> 0]

Init ==
  /\ mix \in Mixes
  /\ fail = "closed" /\ strict \in IF "upstream" \in mix THEN BOOLEAN ELSE {FALSE}
  /\ row = [t \in Tools |-> [here |-> TRUE, on |-> TRUE, override |-> "none"]]
  /\ upstream = Tools
  /\ config = Unknown /\ taint = FALSE
  /\ policy = [t \in Tools |-> "allow"]
  /\ cache = [t \in Tools |-> NoEntry]
  /\ age = [pin |-> [t \in Tools |-> None], shut |-> ConfigSpan,
            guard |-> [t \in Tools |-> None], clean |-> [t \in Tools |-> None]]
  /\ call = [c \in Calls |-> NoCall]

service == <<fail, strict, row, upstream, policy>>

-----------------------------------------------------------------------------
(* gateway.get_config                                                      *)
Fresh == config.known /\ config.age < ConfigTTL

(* server_config: what the service answers now.                            *)
Live == [known |-> TRUE, fail |-> fail, age |-> 0,
         tools |-> {t \in Tools : row[t].here /\ row[t].on},
         denied |-> {t \in Tools : row[t].here /\ row[t].on /\ row[t].override = "deny"}]

(* The call goes on with configuration cfg: an administrator's deny ends   *)
(* it; then the scope, and with it the taint it will carry; then the fail  *)
(* mode, which is the default (closed) when no configuration is known.     *)
Reads(c, cfg) ==
  LET k == [call[c] EXCEPT !.held = Unknown] IN
  CASE k.pc = "override" ->
         IF k.tool \in cfg.denied THEN Ended
         ELSE [k EXCEPT !.pc = "scope", !.pin = age.pin[k.tool]]
    [] k.pc = "scope" ->
         [k EXCEPT !.pc = "fail", !.mapped = k.tool \in cfg.tools, !.tainted = taint]
    [] k.pc = "fail" ->
         [k EXCEPT !.pc = "check", !.open = cfg.fail = "open", !.shut = age.shut]

Reading(c) == call[c].pc \in Stages

(* handle_call_tool                                                        *)
Start(c, t) ==
  /\ call[c].pc = "idle"
  /\ call' = [call EXCEPT ![c] = [NoCall EXCEPT !.pc = "override", !.tool = t]]
  /\ UNCHANGED <<mix, service, config, taint, cache, age>>

ReadCached(c) ==
  /\ Reading(c) /\ Fresh /\ call[c].held = Unknown
  /\ call' = [call EXCEPT ![c] = Reads(c, config)]
  /\ UNCHANGED <<mix, service, config, taint, cache, age>>

Ask(c) ==
  /\ Reading(c) /\ ~Fresh /\ call[c].held = Unknown
  /\ call' = [call EXCEPT ![c].held = Live]
  /\ UNCHANGED <<mix, service, config, taint, cache, age>>

Arrive(c) ==
  /\ Reading(c) /\ call[c].held # Unknown
  /\ config' = [call[c].held EXCEPT !.age = 0]
  /\ call' = [call EXCEPT ![c] = Reads(c, config')]
  /\ UNCHANGED <<mix, service, taint, cache, age>>

(* The request fails: the last configuration known serves, if any.         *)
AskFails(c) ==
  /\ "lost" \in mix
  /\ Reading(c) /\ (call[c].held # Unknown \/ ~Fresh)
  /\ call' = [call EXCEPT ![c] = [Reads(c, config) EXCEPT !.stale = @ \cup {call[c].pc}]]
  /\ UNCHANGED <<mix, service, config, taint, cache, age>>

-----------------------------------------------------------------------------
(* decide: the cached answer of the scope, or the policy's, cached unless  *)
(* it is require_approval.                                                 *)
Cached(t) == cache[t].effect # "none"

Evaluate(t, tainted) ==
  CASE policy[t] = "unless_tainted" -> IF tainted THEN "deny" ELSE "allow"
    [] OTHER -> policy[t]

Decided(t, tainted) == IF Cached(t) THEN cache[t].effect ELSE Evaluate(t, tainted)

Stored(t, tainted) ==
  IF Cached(t) \/ Evaluate(t, tainted) = "approval" THEN cache[t]
  ELSE [effect |-> Evaluate(t, tainted), left |-> DecisionTTL]

(* policy.check: a sidecar, else the service, else the fail mode.  A tool  *)
(* without a scope is asked about by its bare name, which a role * grants  *)
(* and no policy mentions.                                                 *)
Answer(c, effect, via) ==
  LET k == call[c] IN
  call' = [call EXCEPT ![c] =
             IF effect # "allow" THEN Ended
             ELSE [k EXCEPT !.pc = "sent", !.via = via, !.guard = age.guard[k.tool],
                            !.clean = age.clean[k.tool]]]

CheckSidecar(c, effect) ==
  /\ "sidecar" \in mix
  /\ call[c].pc = "check"
  /\ Answer(c, effect, "sidecar")
  /\ UNCHANGED <<mix, service, config, taint, cache, age>>

CheckService(c) ==
  LET k == call[c] IN
  /\ k.pc = "check"
  /\ IF k.mapped
     THEN /\ cache' = [cache EXCEPT ![k.tool] = Stored(k.tool, k.tainted)]
          /\ age' = IF k.tainted THEN age ELSE [age EXCEPT !.clean[k.tool] = 0]
          /\ Answer(c, Decided(k.tool, k.tainted), "service")
     ELSE Answer(c, "allow", "service") /\ UNCHANGED <<cache, age>>
  /\ UNCHANGED <<mix, service, config, taint>>

CheckFallback(c) ==
  /\ "down" \in mix
  /\ call[c].pc = "check"
  /\ Answer(c, IF call[c].open THEN "allow" ELSE "deny", "fallback")
  /\ UNCHANGED <<mix, service, config, taint, cache, age>>

(* The upstream answers; an error it reports does not taint the session.   *)
Return(c, ok) ==
  /\ call[c].pc = "sent"
  /\ call' = [call EXCEPT ![c] = Ended]
  /\ taint' = (taint \/ (ok /\ call[c].tool \in Sources))
  /\ UNCHANGED <<mix, service, config, cache, age>>

(* handle_list_tools: allowed-tools decides every enabled tool that is not *)
(* pinned, in a context without taint.                                     *)
List ==
  LET asked == Live.tools \ Live.denied IN
  /\ "list" \in mix
  /\ cache' = [t \in Tools |-> IF t \in asked THEN Stored(t, FALSE) ELSE cache[t]]
  /\ age' = [age EXCEPT !.clean = [t \in Tools |-> IF t \in asked THEN 0 ELSE @[t]]]
  /\ UNCHANGED <<mix, service, config, taint, call>>

(* The session ends, its calls with it; the next one starts clean.  A      *)
(* restart also forgets the configuration and reports the upstream's tools.*)
Reconnect ==
  /\ "session" \in mix
  /\ taint' = FALSE
  /\ call' = [c \in Calls |-> IF call[c].pc = "done" THEN call[c] ELSE NoCall]
  /\ UNCHANGED <<mix, service, config, cache, age>>

-----------------------------------------------------------------------------
(* What an administrator and the upstream do.  A row's pin counts while    *)
(* the row is enabled.                                                     *)
Pinned(r) == r.here /\ r.on /\ r.override = "deny"

Rows(new) ==
  /\ row' = new
  /\ age' = [age EXCEPT !.pin = [t \in Tools |->
       IF ~Pinned(new[t]) THEN None ELSE IF Pinned(row[t]) THEN @[t] ELSE 0]]

UpdateTool(t, o, on) ==
  /\ "pins" \in mix
  /\ row[t].here /\ row[t] # [here |-> TRUE, on |-> on, override |-> o]
  /\ Rows([row EXCEPT ![t] = [here |-> TRUE, on |-> on, override |-> o]])
  /\ UNCHANGED <<mix, fail, strict, upstream, config, taint, policy, cache, call>>

(* tools/sync: what is offered for the first time gets a row, what is no   *)
(* longer offered is disabled; what is offered again stays disabled.       *)
SyncedRow(t) ==
  IF t \notin upstream THEN [row[t] EXCEPT !.on = FALSE]
  ELSE IF row[t].here THEN row[t]
  ELSE [here |-> TRUE, on |-> TRUE, override |-> IF strict THEN "approval" ELSE "none"]

Restart ==
  /\ "upstream" \in mix
  /\ Rows([t \in Tools |-> SyncedRow(t)])
  /\ config' = Unknown /\ taint' = FALSE
  /\ call' = [c \in Calls |-> IF call[c].pc = "done" THEN call[c] ELSE NoCall]
  /\ UNCHANGED <<mix, fail, strict, upstream, policy, cache>>

Offer(t) ==
  /\ "upstream" \in mix
  /\ upstream' = IF t \in upstream THEN upstream \ {t} ELSE upstream \cup {t}
  /\ UNCHANGED <<mix, fail, strict, row, config, taint, policy, cache, age, call>>

UpdateServer(mode) ==
  /\ "fail_mode" \in mix
  /\ fail # mode /\ fail' = mode
  /\ age' = [age EXCEPT !.shut = IF mode = "open" THEN None ELSE 0]
  /\ UNCHANGED <<mix, strict, row, upstream, config, taint, policy, cache, call>>

SetPolicy(t, p) ==
  /\ "policy" \in mix
  /\ policy[t] # p /\ policy' = [policy EXCEPT ![t] = p]
  /\ age' = [age EXCEPT !.guard[t] = IF p = "unless_tainted" THEN 0 ELSE None]
  /\ UNCHANGED <<mix, fail, strict, row, upstream, config, taint, cache, call>>

(* A request for the configuration takes no longer than its timeout.       *)
Older(a, most) == IF a = None \/ a = most THEN a ELSE a + 1

Tick ==
  /\ \A c \in Calls : call[c].held # Unknown => call[c].held.age < Timeout
  /\ config' = [config EXCEPT !.age = Older(@, ConfigTTL)]
  /\ cache' = [t \in Tools |-> IF cache[t].left <= 1 THEN NoEntry
                               ELSE [cache[t] EXCEPT !.left = @ - 1]]
  /\ age' = [pin |-> [t \in Tools |-> Older(age.pin[t], ConfigSpan)],
             shut |-> Older(age.shut, ConfigSpan),
             guard |-> [t \in Tools |-> Older(age.guard[t], DecisionTTL)],
             clean |-> [t \in Tools |-> IF age.clean[t] = DecisionTTL - 1 THEN None
                                        ELSE Older(age.clean[t], DecisionTTL)]]
  /\ call' = [c \in Calls |-> IF call[c].held = Unknown THEN call[c]
                              ELSE [call[c] EXCEPT !.held.age = @ + 1]]
  /\ UNCHANGED <<mix, service, taint>>

Next ==
  \/ \E c \in Calls :
       \/ \E t \in Tools : Start(c, t)
       \/ ReadCached(c) \/ Ask(c) \/ Arrive(c) \/ AskFails(c)
       \/ \E e \in {"allow", "deny", "approval"} : CheckSidecar(c, e)
       \/ CheckService(c) \/ CheckFallback(c)
       \/ \E ok \in BOOLEAN : Return(c, ok)
  \/ List \/ Reconnect \/ Restart
  \/ \E t \in Tools : \/ \E o \in Overrides, on \in BOOLEAN : UpdateTool(t, o, on)
                      \/ \E p \in Policies : SetPolicy(t, p)
                      \/ Offer(t)
  \/ \E m \in {"open", "closed"} : UpdateServer(m)
  \/ Tick

Spec == Init /\ [][Next]_vars

-----------------------------------------------------------------------------
(* The types of the variables (models/mcp_server.py, gateway.py).          *)
TypeOK ==
  /\ mix \in Mixes 
  /\ fail \in {"open", "closed"} /\ {strict, taint} \subseteq BOOLEAN
  /\ row \in [Tools -> RowType] /\ upstream \subseteq Tools
  /\ config \in ConfigType /\ config.denied \subseteq config.tools
  /\ policy \in [Tools -> Policies]
  /\ cache \in [Tools -> [effect : {"none", "allow", "deny"}, left : 0..DecisionTTL]]
  /\ age \in [pin : [Tools -> Ages(ConfigSpan)], shut : Ages(ConfigSpan),
             guard : [Tools -> Ages(DecisionTTL)], clean : [Tools -> Ages(DecisionTTL - 1)]]
  /\ call \in [Calls -> CallType]

Forwarded(c) == call[c].pc = "sent"

Within(a, bound) == a = None \/ a < bound

(* A tool an administrator has pinned to deny is forwarded no longer than  *)
(* one cache period and one timeout after the pin, whatever answers        *)
(* overtake each other on the way to the cache; only a wrapper that cannot *)
(* reach the service may go on longer (handle_call_tool, get_config).      *)
PinBounded ==
  \A c \in Calls : Forwarded(c) =>
    Within(call[c].pin, ConfigTTL + Timeout) \/ "override" \in call[c].stale

(* Nothing is forwarded without a decision unless the server was set to    *)
(* fail open within that time, or the wrapper cannot know better.          *)
ClosedBounded ==
  \A c \in Calls : Forwarded(c) /\ call[c].via = "fallback" =>
    Within(call[c].shut, ConfigTTL + Timeout) \/ "fail" \in call[c].stale

(* Under a policy that denies tainted requests, the service lets a tainted *)
(* session through only while it still has an answer from before the       *)
(* policy, or one it gave to a session without taint or to a listing of    *)
(* the tools: its cache does not know the context.                         *)
TaintBounded ==
  \A c \in Calls :
    Forwarded(c) /\ call[c].via = "service" /\ call[c].mapped /\ call[c].tainted =>
      \/ Within(call[c].guard, DecisionTTL)
      \/ call[c].clean # None /\ call[c].clean < DecisionTTL

=============================================================================
