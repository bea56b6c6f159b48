------------------------------ MODULE Policies ------------------------------
(***************************************************************************)
(* The policies of an organisation, their versions and their bindings      *)
(* (api/v1/policies.py), and the templates that create them                *)
(* (api/v1/policy_templates.py).  Each request loads the policy, writes a  *)
(* snapshot of what it loaded under the next version number, and updates   *)
(* the columns that differ from what it loaded; it and its audit row are   *)
(* one transaction, which fails as a whole.  Nothing locks the policy.     *)
(***************************************************************************)
EXTENDS Naturals, Sequences, FiniteSets

CONSTANTS Policies,           \* ids; the first exists, the others are created
          First, Slugs, Effects,
          Bindings,
          Template,           \* the bodies of the policies a template holds
          Requests,
          Mixes,              \* bound: the requests made in one behaviour
          None

Body == [slug : Slugs, effect : Effects]

PoliciesAssumption ==
  /\ First \in Policies
  /\ Template \subseteq Body
  /\ \A b, d \in Template : b.slug = d.slug => b = d
  /\ None \notin Body \cup Policies \cup Bindings

VARIABLES mix,
          policy,     \* the rows, by id
          versions,   \* the snapshots of a policy, by number
          told,       \* what the last audit row of a policy says it became
          mixed,      \* history: the last writer had read before another wrote
          bound,      \* binding id -> the policy it binds
          chain,      \* the bindings the audit log has made, and those it has ended
          count,      \* install_count of the template
          installs,   \* history: how often it was installed
          req

vars == <<mix, policy, versions, told, mixed, bound, chain, count, installs, req>>
rules == <<policy, versions, told, mixed>>
links == <<bound, chain>>
shop == <<count, installs>>

Kinds == {"update", "rollback", "unbind", "install"}

(* pc      the last step taken; "cut" is an unbinding never recorded       *)
(* policy  the target; loaded: what was read of it; asked: what to write   *)
(* number  the next version number; target: the version to go back to      *)
(* slugs   those in use, seen: the count, as an installation read them     *)
(* stale   history: the target was written, or installed, since the read   *)
ReqType ==
  [pc : {"new", "loaded", "numbered", "listed", "unbound", "cut", "done"}, kind : Kinds \cup {None},
   policy : Policies \cup {None}, loaded : Body \cup {None}, asked : Body \cup {None},
   number : Nat, binding : Bindings \cup {None}, slugs : SUBSET Slugs, seen : Nat,
   stale : BOOLEAN]
New == [pc |-> "new", kind |-> None, policy |-> None, loaded |-> None, asked |-> None,
        number |-> 0, binding |-> None, slugs |-> {}, seen |-> 0, stale |-> FALSE]

Exists(p) == policy[p] # None
Taken(s, p) == \E q \in Policies \ {p} : Exists(q) /\ policy[q].slug = s
Used == {policy[p].slug : p \in {q \in Policies : Exists(q)}}

Init ==
  /\ mix \in Mixes
  /\ \E b \in Body : policy = [p \in Policies |-> IF p = First THEN b ELSE None]
  /\ versions = [p \in Policies |-> <<>>]
  /\ told = policy /\ mixed = [p \in Policies |-> FALSE]
  /\ bound = [b \in Bindings |-> None]
  /\ chain = [made |-> {}, ended |-> {}]
  /\ count = 0 /\ installs = 0
  /\ req = [r \in Requests |-> New]

Finish(r) == req' = [req EXCEPT ![r] = [New EXCEPT !.pc = "done"]]

(* A request that fails, or whose audit row is refused, before its commit. *)
Abort(r) ==
  /\ req[r].pc \in {"loaded", "numbered", "listed"}
  /\ Finish(r)
  /\ UNCHANGED <<mix, rules, links, shop>>

-----------------------------------------------------------------------------
CreatePolicy(r, p, b) ==
  /\ "create" \in mix
  /\ req[r].pc = "new" /\ ~Exists(p)
  /\ IF Taken(b.slug, p) THEN UNCHANGED rules
     ELSE /\ policy' = [policy EXCEPT ![p] = b]
          /\ told' = [told EXCEPT ![p] = b]
          /\ mixed' = [mixed EXCEPT ![p] = FALSE]
          /\ UNCHANGED versions
  /\ Finish(r)
  /\ UNCHANGED <<mix, links, shop>>

(* update_policy and rollback_policy up to the snapshot.                   *)
Load(r, p, b) ==
  /\ "update" \in mix
  /\ req[r].pc = "new" /\ Exists(p)
  /\ req' = [req EXCEPT ![r] = [New EXCEPT !.pc = "loaded", !.kind = "update", !.policy = p,
                                           !.loaded = policy[p], !.asked = b]]
  /\ UNCHANGED <<mix, rules, links, shop>>

LoadVersion(r, p, v) ==
  /\ "rollback" \in mix
  /\ req[r].pc = "new" /\ Exists(p) /\ v \in DOMAIN versions[p]
  /\ req' = [req EXCEPT ![r] = [New EXCEPT !.pc = "loaded", !.kind = "rollback", !.policy = p,
                                           !.loaded = policy[p], !.asked = versions[p][v]]]
  /\ UNCHANGED <<mix, rules, links, shop>>

(* _next_version_number: the highest number so far, plus one.              *)
NextVersion(r) ==
  /\ req[r].pc = "loaded" /\ req[r].kind \in {"update", "rollback"}
  /\ req' = [req EXCEPT ![r].pc = "numbered", ![r].number = Len(versions[req[r].policy]) + 1]
  /\ UNCHANGED <<mix, rules, links, shop>>

(* Only the columns that differ from what was loaded are written.          *)
Written(k) ==
  [f \in {"slug", "effect"} |-> IF k.asked[f] = k.loaded[f] THEN policy[k.policy][f]
                                                           ELSE k.asked[f]]

Snapshot_After(k) == k.asked
Snapshot(k) == k.loaded

(* The snapshot takes its number, which must be free, the change its slug. *)
NumberFree(k) == k.number \notin DOMAIN versions[k.policy]

Commit(r) ==
  LET k == req[r] IN
  /\ k.pc = "numbered"
  /\ NumberFree(k) /\ ~Taken(Written(k).slug, k.policy)
  /\ versions' = [versions EXCEPT ![k.policy] =
                    IF k.number \in DOMAIN @ THEN [@ EXCEPT ![k.number] = Snapshot(k)]
                    ELSE Append(@, Snapshot(k))]
  /\ policy' = [policy EXCEPT ![k.policy] = Written(k)]
  /\ told' = [told EXCEPT ![k.policy] = k.asked]
  /\ mixed' = [mixed EXCEPT ![k.policy] = k.stale]
  /\ req' = [s \in Requests |->
       IF s = r THEN [New EXCEPT !.pc = "done"]
       ELSE [req[s] EXCEPT !.stale = @ \/ req[s].policy = k.policy]]
  /\ UNCHANGED <<mix, links, shop>>

-----------------------------------------------------------------------------
(* bind_policy is one transaction; delete_binding commits, then records.   *)
BindPolicy(b, p) ==
  /\ "bind" \in mix
  /\ bound[b] = None /\ b \notin chain.made /\ Exists(p)
  /\ bound' = [bound EXCEPT ![b] = p]
  /\ chain' = [chain EXCEPT !.made = @ \cup {b}]
  /\ UNCHANGED <<mix, rules, shop, req>>

UnbindRead(r, b) ==
  /\ "bind" \in mix
  /\ req[r].pc = "new" /\ bound[b] # None
  /\ req' = [req EXCEPT ![r] = [New EXCEPT !.pc = "loaded", !.kind = "unbind", !.binding = b]]
  /\ UNCHANGED <<mix, rules, links, shop>>

(* A row another request has deleted is deleted again with a warning.      *)
UnbindCommit(r) ==
  /\ req[r].pc = "loaded" /\ req[r].kind = "unbind"
  /\ bound' = [bound EXCEPT ![req[r].binding] = None]
  /\ req' = [req EXCEPT ![r].pc = "unbound"]
  /\ UNCHANGED <<mix, rules, chain, shop>>

UnbindRecord(r) ==
  /\ req[r].pc = "unbound"
  /\ chain' = [chain EXCEPT !.ended = @ \cup {req[r].binding}]
  /\ Finish(r)
  /\ UNCHANGED <<mix, rules, bound, shop>>

UnbindUnrecorded(r) ==
  /\ req[r].pc = "unbound"
  /\ req' = [req EXCEPT ![r].pc = "cut"]
  /\ UNCHANGED <<mix, rules, links, shop>>

-----------------------------------------------------------------------------
(* install_template reads the count with the template, then the slugs in   *)
(* use; it adds a policy for each other slug, without a binding, a version *)
(* or an audit row.  A slug taken meanwhile fails the whole installation.  *)
InstallRead(r) ==
  /\ "install" \in mix
  /\ req[r].pc = "new"
  /\ req' = [req EXCEPT ![r] = [New EXCEPT !.pc = "loaded", !.kind = "install", !.seen = count]]
  /\ UNCHANGED <<mix, rules, links, shop>>

InstallSlugs(r) ==
  /\ req[r].pc = "loaded" /\ req[r].kind = "install"
  /\ req' = [req EXCEPT ![r].pc = "listed", ![r].slugs = Used]
  /\ UNCHANGED <<mix, rules, links, shop>>

Missing(k) == {b \in Template : b.slug \notin k.slugs}

Counted(k) == k.seen + 1

InstallCommit(r) ==
  LET k == req[r] IN
  /\ k.pc = "listed"
  /\ {b.slug : b \in Missing(k)} \cap Used = {}
  /\ \E at \in [Missing(k) -> {p \in Policies : ~Exists(p)}] :
       /\ \A b, d \in Missing(k) : at[b] = at[d] => b = d
       /\ policy' = [p \in Policies |-> IF \E b \in Missing(k) : at[b] = p
                                        THEN CHOOSE b \in Missing(k) : at[b] = p ELSE policy[p]]
  /\ count' = Counted(k)
  /\ installs' = installs + 1
  /\ req' = [s \in Requests |->
       IF s = r THEN [New EXCEPT !.pc = "done"]
       ELSE [req[s] EXCEPT !.stale = @ \/ req[s].kind = "install"]]
  /\ UNCHANGED <<mix, versions, told, mixed, links>>

Next ==
  \/ \E r \in Requests :
       \/ Abort(r) \/ NextVersion(r) \/ Commit(r)
       \/ UnbindCommit(r) \/ UnbindRecord(r) \/ UnbindUnrecorded(r)
       \/ InstallRead(r) \/ InstallSlugs(r) \/ InstallCommit(r)
       \/ \E p \in Policies : \/ \E b \in Body : CreatePolicy(r, p, b) \/ Load(r, p, b)
                              \/ \E v \in 1..Cardinality(Requests) : LoadVersion(r, p, v)
       \/ \E b \in Bindings : UnbindRead(r, b)
  \/ \E b \in Bindings, p \in Policies : BindPolicy(b, p)

Spec == Init /\ [][Next]_vars

-----------------------------------------------------------------------------
(* The types of the rows (models/policy.py, models/policy_version.py), and *)
(* uq_policy_slug.                                                         *)
TypeOK ==
  /\ mix \in Mixes
  /\ policy \in [Policies -> Body \cup {None}]
  /\ \A p, q \in Policies :
       p # q /\ Exists(p) /\ Exists(q) => policy[p].slug # policy[q].slug
  /\ versions \in [Policies -> Seq(Body)]
  /\ told \in [Policies -> Body \cup {None}] /\ mixed \in [Policies -> BOOLEAN]
  /\ bound \in [Bindings -> Policies \cup {None}]
  /\ chain \in [made : SUBSET Bindings, ended : SUBSET Bindings]
  /\ count \in Nat /\ installs \in Nat
  /\ req \in [Requests -> ReqType]

(* A policy is what its last audit row says, unless that row's request and *)
(* another overlapped and each wrote its columns (update_policy,           *)
(* rollback_policy).                                                       *)
LiveAsTold ==
  \A p \in Policies : Exists(p) /\ told[p] # None /\ ~mixed[p] => policy[p] = told[p]

NothingLostStep ==
  \A p \in Policies :
     Exists(p) /\ policy'[p] # policy[p] /\ ~mixed'[p] =>
       \E v \in DOMAIN versions'[p] : versions'[p][v] = policy[p]

(* What an edit replaces can be rolled back to: it is a version by then,   *)
(* unless the edit had not seen it (_snapshot_policy).                     *)
NothingLost == [][NothingLostStep]_vars

VersionsKeptStep ==
  \A p \in Policies : \A v \in DOMAIN versions[p] :
     v \in DOMAIN versions'[p] /\ versions'[p][v] = versions[p][v]

(* A version is never rewritten, by overlapping requests either            *)
(* (ix_pv_policy_version).                                                 *)
VersionsKept == [][VersionsKeptStep]_vars

(* What the log says is unbound binds nothing; what it calls bound does,   *)
(* or is being unbound, or was by a request that could not record it       *)
(* (bind_policy, delete_binding).                                          *)
BindingsExplained ==
  \A b \in Bindings :
    /\ b \in chain.ended => bound[b] = None
    /\ b \in chain.made \ chain.ended =>
         bound[b] # None \/ \E r \in Requests : req[r].binding = b /\ req[r].pc \in {"unbound", "cut"}

CountExplainedStep ==
  installs' # installs =>
     \/ count' = count + 1
     \/ \E r \in Requests : req[r].kind = "install" /\ req[r].stale

(* Installations are counted, but those that overlapped count as one.      *)
CountExplained == [][CountExplainedStep]_vars

=============================================================================
