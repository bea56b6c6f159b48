--------------------------- MODULE EnforcementMC ----------------------------
(***************************************************************************)
(* From a policy to a tool call, for TLC: the policies and their versions  *)
(* (Policies), the engine in the service and in the sidecar (Sidecar), the *)
(* clients that ask (SdkCache), the wrapper and the proxy that enforce     *)
(* (McpWrapper, Proxy), and the repositories that policies are to come     *)
(* from (GitSync). Each has of the others what it reads of them: a policy  *)
(* is an effect to a client, and a service that may not answer to the      *)
(* wrapper. So one run checks them side by side: part, chosen by Init, is  *)
(* the one that moves, and the variables of the others are idle.           *)
(***************************************************************************)
EXTENDS PolicyCatalogue

CONSTANTS Lists, Shown, Granted, Asked, Every, MaxAge, PolicyIds, First,
          PolicySlugs, Bindings, Requests, Tools, Calls, ConfigTTL,
          DecisionTTL, Timeout, ModelTools, MaxCalls, MaxAnswer, MaxChanges,
          Contexts, Verdicts, SdkTTL, ServiceTTL, Span, Attempts, Traffic, Org,
          Conns, Garbage, MaxRestarts

VARIABLES part,
          mix, policy, versions, told, mixed, bound, chain, count, installs,
          req,
          policies, bundle, loop, age, late, answer,
          load, client, effectIn, serviceCache, sdk, gone, check, work, edits,
          meeting, fail, strict, row, upstream, config, taint, effectOf,
          cache, ages, call,
          format, effectFor, changes, history, pc, todo, toolCalls, heard,
          seen, run,
          deploy, master, loaded, restarts, conn, job, shown, fails

PolicyMixes == {{"update", "rollback", "create"}, {"bind"}, {"install", "create", "update"}}

WrapperMixes == {{"pins"}, {"fail_mode", "lost", "down"}, {"policy", "list"}, {"policy", "session"},
                 {"sidecar"}, {"upstream"}}

P == INSTANCE Policies WITH Policies <- PolicyIds, Slugs <- PolicySlugs,
       Effects <- {"allow", "deny"},
       Template <- [slug : PolicySlugs, effect : {"deny"}],
       Mixes <- PolicyMixes
S == INSTANCE Sidecar
K == INSTANCE SdkCache WITH policy <- effectIn, cache <- serviceCache,
       call <- check, changes <- edits
W == INSTANCE McpWrapper WITH Sources <- Tools, Mixes <- WrapperMixes,
       mix <- meeting, policy <- effectOf, age <- ages
X == INSTANCE Proxy WITH Tools <- ModelTools, FailOpen <- FALSE,
       policy <- effectFor, told <- heard, calls <- toolCalls
G == INSTANCE GitSync WITH Workers <- Calls, OrgOf <- [c \in Conns |-> Org],
       sent <- shown

ASSUME EnforcementAssumption ==
  /\ P!PoliciesAssumption
  /\ S!EngineAssumption
  /\ S!SidecarAssumption
  /\ K!SdkAssumption
  /\ W!WrapperAssumption
  /\ X!ProxyAssumption
  /\ G!GitSyncAssumption

policiesVars == <<mix, policy, versions, told, mixed, bound, chain, count,
    installs, req>>
sidecarVars == <<policies, bundle, loop, age, late, answer>>
sdkVars == <<load, client, effectIn, serviceCache, sdk, gone, check, work,
    edits>>
wrapperVars == <<meeting, fail, strict, row, upstream, config, taint,
    effectOf, cache, ages, call>>
proxyVars == <<format, effectFor, changes, history, pc, todo, toolCalls,
    heard, seen, run>>
gitVars == <<deploy, master, loaded, restarts, conn, job, shown, fails>>
vars == <<part, policiesVars, sidecarVars, sdkVars, wrapperVars, proxyVars,
    gitVars>>

PoliciesIdle ==
  /\ mix = None /\ policy = None /\ versions = None /\ told = None
  /\ mixed = None /\ bound = None /\ chain = None /\ count = None
  /\ installs = None /\ req = None
SidecarIdle ==
  /\ policies = None /\ bundle = None /\ loop = None /\ age = None
  /\ late = None /\ answer = None
SdkIdle ==
  /\ load = None /\ client = None /\ effectIn = None /\ serviceCache = None /\ sdk = None
  /\ gone = None /\ check = None /\ work = None /\ edits = None
WrapperIdle ==
  /\ meeting = None /\ fail = None /\ strict = None /\ row = None
  /\ upstream = None /\ config = None /\ taint = None /\ effectOf = None
  /\ cache = None /\ ages = None /\ call = None
ProxyIdle ==
  /\ format = None /\ effectFor = None /\ changes = None /\ history = None
  /\ pc = None /\ todo = None /\ toolCalls = None /\ heard = None
  /\ seen = None /\ run = None
GitIdle ==
  /\ deploy = None /\ master = None /\ loaded = None /\ restarts = None
  /\ conn = None /\ job = None /\ shown = None /\ fails = None

Init ==
  \/ /\ part = "policies" /\ P!Init
     /\ SidecarIdle /\ SdkIdle /\ WrapperIdle /\ ProxyIdle /\ GitIdle
  \/ /\ part = "sidecar" /\ S!Init
     /\ PoliciesIdle /\ SdkIdle /\ WrapperIdle /\ ProxyIdle /\ GitIdle
  \/ /\ part = "sdk" /\ K!Init
     /\ PoliciesIdle /\ SidecarIdle /\ WrapperIdle /\ ProxyIdle /\ GitIdle
  \/ /\ part = "wrapper" /\ W!Init
     /\ PoliciesIdle /\ SidecarIdle /\ SdkIdle /\ ProxyIdle /\ GitIdle
  \/ /\ part = "proxy" /\ X!Init
     /\ PoliciesIdle /\ SidecarIdle /\ SdkIdle /\ WrapperIdle /\ GitIdle
  \/ /\ part = "git" /\ G!Init
     /\ PoliciesIdle /\ SidecarIdle /\ SdkIdle /\ WrapperIdle /\ ProxyIdle

Next ==
  \/ part = "policies" /\ P!Next
     /\ UNCHANGED <<part, sidecarVars, sdkVars, wrapperVars, proxyVars,
       gitVars>>
  \/ part = "sidecar" /\ S!Next
     /\ UNCHANGED <<part, policiesVars, sdkVars, wrapperVars, proxyVars,
       gitVars>>
  \/ part = "sdk" /\ K!Next
     /\ UNCHANGED <<part, policiesVars, sidecarVars, wrapperVars, proxyVars,
       gitVars>>
  \/ part = "wrapper" /\ W!Next
     /\ UNCHANGED <<part, policiesVars, sidecarVars, sdkVars, proxyVars,
       gitVars>>
  \/ part = "proxy" /\ X!Next
     /\ UNCHANGED <<part, policiesVars, sidecarVars, sdkVars, wrapperVars,
       gitVars>>
  \/ part = "git" /\ G!Next
     /\ UNCHANGED <<part, policiesVars, sidecarVars, sdkVars, wrapperVars,
       proxyVars>>

Spec == Init /\ [][Next]_vars

(* The policies say the same in every context, or allow in only one of two.*)
MCVerdicts ==
  {v \in [Contexts -> {"allow", "deny", "require_approval"}] :
     (\E c, d \in Contexts : v[c] # v[d]) => \A c \in Contexts : v[c] # "require_approval"}

(* While the policies change, one checks with two attempts, or two with    *)
(* one; or one checks with three, on policies that stay.                   *)
MCTraffic ==
  {l \in [calls : SUBSET Calls, attempts : 1..3, changes : {0, 1}] :
     <<Cardinality(l.calls), l.attempts, l.changes>> \in {<<1, 2, 1>>, <<2, 1, 1>>, <<1, 3, 0>>}}

(* No property tells one call, worker, context or repository from another. *)
Symmetry ==
  Permutations(Calls) \cup Permutations(Contexts) \cup Permutations(Conns)

-----------------------------------------------------------------------------
(* A policy is live as its last writer was told, and bound as the requests *)
(* that met explain (policies.py); a repository's token is only ever sent  *)
(* to its own provider, is lost only with the key it was sealed under or   *)
(* at a process' first use of KMS, and its row is held while an outcome    *)
(* is to be written (kms.py:58, 283, git_sync.py:169, 355).                *)
PoliciesHold ==
  /\ part = "policies" =>
       /\ P!TypeOK /\ P!LiveAsTold /\ P!BindingsExplained
  /\ part = "git" =>
       /\ G!TypeOK /\ G!TrueTokens /\ G!LostExplained /\ G!HeldWhileSyncing

(* The first policy that matches decides, taint only restricts, and the    *)
(* sidecar decides as the service does on the policies it holds, but for   *)
(* the differences named; it decides on an old bundle only while it cannot *)
(* fetch another.                                                          *)
SidecarHolds ==
  part = "sidecar" =>
    /\ S!TypeOK /\ S!FirstDecides /\ S!TaintOnlyRestricts /\ S!SidecarAgrees
    /\ S!StaleOnlyByFailure

(* What a client answers is no older than its caches, and never an allow   *)
(* nobody gave (SDKs); the wrapper forwards a pinned, closed or tainted    *)
(* call no longer than its caches last (mcp/gateway.py:60); no call the    *)
(* proxy looked at is run after a deny.                                    *)
GatesHold ==
  /\ part = "sdk" =>
       /\ K!TypeOK /\ K!AnswersBounded /\ K!NoAnswerNoAllow
       /\ K!ApprovalsExplained
  /\ part = "wrapper" =>
       /\ W!TypeOK /\ W!PinBounded /\ W!ClosedBounded /\ W!TaintBounded
  /\ part = "proxy" =>
       /\ X!TypeOK /\ X!InspectedIsObeyed

(* No write of a policy loses another's text, whichever met, versions keep *)
(* what they said (policies.py:82), and a count is of what was there; the  *)
(* proxy forwards a request only when each call it carries was allowed.    *)
NothingUnseen ==
  [][ /\ part = "policies" => P!NothingLostStep /\ P!VersionsKeptStep /\ P!CountExplainedStep
      /\ part = "proxy" => X!ForwardedIsAllowedStep ]_vars

=============================================================================
