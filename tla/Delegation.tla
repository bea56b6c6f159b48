----------------------------- MODULE Delegation -----------------------------
(***************************************************************************)
(* Delegations from agent to agent (api/v1/delegation.py,                  *)
(* policy/delegation_service.py).  A request reads the grants its parent   *)
(* holds twice, once to be allowed and once to compute its depth, and the  *)
(* two reads count different grants: the first leaves out those that have  *)
(* expired.  Nothing locks the grants.                                     *)
(*                                                                         *)
(* The delegated scopes are left out: the caller passes the requested      *)
(* scopes as those of the parent, so any are granted, and no decision      *)
(* reads them.                                                             *)
(***************************************************************************)
EXTENDS Naturals, Sequences, FiniteSetsExt

CONSTANTS Agents,
          MaxDepth,           \* the highest max_chain_depth a request may ask for
          Requests,
          None

DelegationAssumption == MaxDepth \in Nat \ {0} /\ None \notin Agents

VARIABLES grant,      \* the rows, in the order they are committed
          req

vars == <<grant, req>>

(* most    max_chain_depth;  lives: it has no expires_at                   *)
(* knew    history: the number of grants there were when it was allowed    *)
(* lapsed  history: its depth counts a grant that did not limit it         *)
(* ends    history: how often it was revoked                               *)
GrantType == [parent : Agents, child : Agents, most : 1..MaxDepth, depth : Nat \ {0},
              active : BOOLEAN, lives : BOOLEAN, expired : BOOLEAN,
              knew : Nat, lapsed : BOOLEAN, ends : Nat]

(* stale   history: the grant was revoked since this request read it       *)
ReqType == [pc : {"new", "allowed", "depth", "revoke", "done"}, asked : GrantType \cup {None},
            limits : SUBSET Nat, target : Nat, stale : BOOLEAN]
New == [pc |-> "new", asked |-> None, limits |-> {}, target |-> 0, stale |-> FALSE]

Grant(parent, child, most, lives) ==
  [parent |-> parent, child |-> child, most |-> most, depth |-> 1, active |-> TRUE,
   lives |-> lives, expired |-> FALSE, knew |-> 0, lapsed |-> FALSE, ends |-> 0]

Init == grant = <<>> /\ req = [r \in Requests |-> New]

(* The active grants an agent holds, and those among them that are valid.  *)
Held(a) == {g \in DOMAIN grant : grant[g].child = a /\ grant[g].active}
Valid(a) == {g \in Held(a) : ~grant[g].expired}

Depths(S) == {grant[g].depth : g \in S}

Finish(r) == req' = [req EXCEPT ![r] = [New EXCEPT !.pc = "done"]]

(* A request that fails, or whose audit row is refused.                    *)
Abort(r) == req[r].pc \in {"allowed", "depth", "revoke"} /\ Finish(r) /\ UNCHANGED grant

-----------------------------------------------------------------------------
(* validate_delegation: the deepest grant the parent holds is less deep    *)
(* than the least each of them allows.                                     *)
DepthAllowed_AnyParent(a) ==
  Valid(a) # {} => Max(Depths(Valid(a))) < Max({grant[g].most : g \in Valid(a)})
DepthAllowed(a) ==
  Valid(a) # {} => Max(Depths(Valid(a))) < Min({grant[g].most : g \in Valid(a)})

Validate(r, parent, child, most, lives) ==
  /\ req[r].pc = "new"
  /\ IF parent = child \/ ~DepthAllowed(parent) THEN Finish(r)
     ELSE req' = [req EXCEPT ![r] =
            [New EXCEPT !.pc = "allowed", !.limits = Valid(parent),
                        !.asked = [Grant(parent, child, most, lives) EXCEPT !.knew = Len(grant)]]]
  /\ UNCHANGED grant

(* create_delegation                                                       *)
NewDepth(S) == IF S = {} THEN 1 ELSE Max(Depths(S)) + 1

Depth(r) ==
  LET counted == Held(req[r].asked.parent) IN
  /\ req[r].pc = "allowed"
  /\ req' = [req EXCEPT ![r].pc = "depth",
                        ![r].asked.depth = NewDepth(counted),
                        ![r].asked.lapsed = ~(counted \subseteq req[r].limits)]
  /\ UNCHANGED grant

CreateCommit(r) ==
  /\ req[r].pc = "depth"
  /\ grant' = Append(grant, req[r].asked)
  /\ Finish(r)

(* revoke_delegation; what the child has delegated in turn stays.          *)
Revocable(g) == grant[g].active

RevokeRead(r, g) ==
  /\ req[r].pc = "new"
  /\ IF Revocable(g)
     THEN req' = [req EXCEPT ![r] = [New EXCEPT !.pc = "revoke", !.target = g]]
     ELSE Finish(r)
  /\ UNCHANGED grant

RevokeCommit(r) ==
  LET g == req[r].target IN
  /\ req[r].pc = "revoke"
  /\ grant' = [grant EXCEPT ![g].active = FALSE, ![g].ends = @ + 1]
  /\ req' = [s \in Requests |->
       IF s = r THEN [New EXCEPT !.pc = "done", !.target = g, !.stale = req[r].stale]
       ELSE [req[s] EXCEPT !.stale = @ \/ (req[s].pc = "revoke" /\ req[s].target = g)]]

Expire(g) ==
  /\ ~grant[g].lives /\ ~grant[g].expired
  /\ grant' = [grant EXCEPT ![g].expired = TRUE]
  /\ UNCHANGED req

Next ==
  \/ \E r \in Requests :
       \/ \E p, c \in Agents, m \in 1..MaxDepth, l \in BOOLEAN : Validate(r, p, c, m, l)
       \/ Depth(r) \/ CreateCommit(r) \/ RevokeCommit(r) \/ Abort(r)
       \/ \E g \in DOMAIN grant : RevokeRead(r, g)
  \/ \E g \in DOMAIN grant : Expire(g)

Spec == Init /\ [][Next]_vars

-----------------------------------------------------------------------------
(* The types of the rows (models/delegation_grant.py).                     *)
TypeOK ==
  /\ grant \in Seq(GrantType)
  /\ \A g \in DOMAIN grant : grant[g].parent # grant[g].child
  /\ req \in [Requests -> ReqType]

(* The grants to g's parent that were there before g was asked for.        *)
Known(g) == {h \in 1..grant[g].knew : grant[h].child = grant[g].parent /\ grant[h].active}

(* A chain of active grants, each made with the one before it in place,    *)
(* gets deeper at every hop, round a cycle of agents too.                  *)
DeeperThanParents ==
  \A g \in DOMAIN grant : \A h \in Known(g) : grant[g].depth > grant[h].depth

(* No grant is deeper than one to its parent allowed, unless its depth     *)
(* also counts a grant that has expired or was committed between the two   *)
(* reads (validate_delegation, create_delegation).                         *)
LimitKept ==
  \A g \in DOMAIN grant : \A h \in Known(g) :
    ~grant[h].expired => grant[g].depth <= grant[h].most \/ grant[g].lapsed

(* A grant is revoked again only by a request that overlapped the first    *)
(* (revoke_delegation answers 409 to the others).                          *)
RevokedAgainByOverlap ==
  \A g \in DOMAIN grant :
    grant[g].ends > 1 => \E r \in Requests : req[r].target = g /\ req[r].stale

=============================================================================
