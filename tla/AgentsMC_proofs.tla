-------------------------- MODULE AgentsMC_proofs --------------------------
(***************************************************************************)
(* Of an agent and what is around it, what holds for any number of agents, *)
(* requests, rules, rows and limits.                                       *)
(*                                                                         *)
(* Delegation: the rows only grow and lose their effect (Grows), so what a *)
(* request was told of its parent's grants stays a bound on its own depth. *)
(* Credentials: a request that has not heard of another still sees the     *)
(* credential unspent. Registry: a request that creates a row is alone on  *)
(* an identifier that was not used, so the last event about a row is true. *)
(* Settings: what is not stale in a request is as it was loaded, so what   *)
(* it writes and what it records are the same fields.                      *)
(*                                                                         *)
(* Agents: a call that was not overtaken holds the switch as it is; a new  *)
(* agent that a sync has flushed is in no other plan and has no row, and   *)
(* the identity it is for has no agent unless syncs met; and an event that *)
(* was counted alone had, of every rule it did not set off, too few in the *)
(* window when it was counted (Short). The window only shrinks and events  *)
(* are only added, so the last event that counts for a rule tells whether  *)
(* the threshold was missed.                                               *)
(***************************************************************************)
EXTENDS AgentsMC, SequenceTheorems, FiniteSetTheorems, WellFoundedInduction, TLAPS

-----------------------------------------------------------------------------
(* The library's order on the naturals is theirs.                          *)
LEMMA LessRel ==
  ASSUME NEW x \in Nat, NEW y \in Nat, y < x
  PROVE  <<y, x>> \in OpToRel(<, Nat)
BY Zenon DEF OpToRel

(* A set of naturals that is not empty has a least element.                *)
LEMMA LeastOf ==
  ASSUME NEW U \in SUBSET Nat, U # {}
  PROVE  D!Min(U) \in U /\ \A y \in U : D!Min(U) <= y
<1>1. PICK x \in U : \A y \in U : ~ (<<y, x>> \in OpToRel(<, Nat))
  BY NatLessThanWellFounded, WFMin
<1>2. \A y \in U : ~(y < x)
  BY <1>1, LessRel
<1>3. \A y \in U : x <= y
  BY <1>2
<1> QED BY <1>3 DEF D!Min

(* One that is bounded has a greatest.                                     *)
LEMMA GreatestOf ==
  ASSUME NEW U \in SUBSET Nat, U # {}, NEW n \in Nat, \A x \in U : x <= n
  PROVE  D!Max(U) \in U /\ \A y \in U : y <= D!Max(U)
<1> DEFINE T == {k \in Nat : \E x \in U : k = n - x}
<1>1. T \in SUBSET Nat /\ T # {}
  <2>1. PICK x \in U : TRUE
    OBVIOUS
  <2>2. n - x \in T
    OBVIOUS
  <2> QED BY <2>2
<1> HIDE DEF T
<1>2. D!Min(T) \in T /\ \A y \in T : D!Min(T) <= y
  BY <1>1, LeastOf
<1>4. PICK x \in U : D!Min(T) = n - x
  BY <1>2 DEF T
<1>5. \A y \in U : y <= x
  <2> SUFFICES ASSUME NEW y \in U PROVE y <= x
    OBVIOUS
  <2>1. n - y \in T
    BY DEF T
  <2> QED BY <1>2, <1>4, <2>1
<1> QED BY <1>5 DEF D!Max

-----------------------------------------------------------------------------
(* Delegation. The grants to the parent of a that there were when a was    *)
(* asked for, as long as they are active.                                  *)
Before(rows, a) == {h \in 1 .. a.knew : rows[h].child = a.parent /\ rows[h].active}

(* a is deeper than row h, and no deeper than that allows.                 *)
Fits(rows, a, h) ==
  /\ a.depth > rows[h].depth
  /\ rows[h].expired \/ a.depth <= rows[h].most \/ a.lapsed

(* What holds of the rows.                                                 *)
RowsHold(rows) ==
  \A g \in 1 .. Len(rows) :
    /\ rows[g].parent # rows[g].child
    /\ rows[g].depth <= g /\ rows[g].knew < g
    /\ rows[g].active => rows[g].ends = 0
    /\ \A h \in Before(rows, rows[g]) : Fits(rows, rows[g], h)

(* What a request has asked for, and the limits it was allowed under.      *)
AskedHolds(q, rows) ==
  /\ q.pc \in {"allowed", "depth"} =>
       /\ q.asked \in D!GrantType /\ q.asked.parent # q.asked.child
       /\ q.asked.knew <= Len(rows) /\ q.asked.ends = 0
  /\ q.pc = "allowed" =>
       /\ q.limits \subseteq 1 .. Len(rows)
       /\ \A h \in Before(rows, q.asked) : ~rows[h].expired => h \in q.limits
       /\ \A h, i \in q.limits : rows[i].depth < rows[h].most
  /\ q.pc = "depth" =>
       /\ q.asked.depth <= Len(rows) + 1
       /\ \A h \in Before(rows, q.asked) : Fits(rows, q.asked, h)

(* A request to revoke a grant that somebody revoked is stale.             *)
RevokeHolds(q, rows) ==
  q.pc = "revoke" => q.target \in 1 .. Len(rows) /\ (rows[q.target].ends > 0 => q.stale)

(* Whoever revoked a grant again has done so for good.                     *)
AgainExplained ==
  \A g \in 1 .. Len(grant) :
    grant[g].ends > 1 =>
      \E r \in Requests : req[r].pc = "done" /\ req[r].target = g /\ req[r].stale

(* What holds of the grants and the requests.                              *)
DelegationInv ==
  /\ grant \in Seq(D!GrantType) /\ req \in [Requests -> D!ReqType]
  /\ RowsHold(grant) /\ AgainExplained
  /\ \A r \in Requests : AskedHolds(req[r], grant) /\ RevokeHolds(req[r], grant)

(* Rows are added, and lose their effect.                                  *)
Grows(rows, next) ==
  /\ Len(rows) <= Len(next)
  /\ \A h \in 1 .. Len(rows) :
       /\ next[h].child = rows[h].child /\ next[h].depth = rows[h].depth
       /\ next[h].most = rows[h].most
       /\ next[h].active => rows[h].active
       /\ rows[h].expired => next[h].expired

(* What a request knows stays true of rows that grow.                      *)
LEMMA AskedStays ==
  ASSUME NEW rows \in Seq(D!GrantType), NEW next \in Seq(D!GrantType), Grows(rows, next),
         NEW q \in D!ReqType, AskedHolds(q, rows)
  PROVE  AskedHolds(q, next)
<1>1. Len(rows) \in Nat /\ Len(next) \in Nat /\ Len(rows) <= Len(next)
  BY LenProperties DEF Grows
<1>2. ASSUME q.pc \in {"allowed", "depth"}
      PROVE  /\ q.asked \in D!GrantType /\ q.asked.parent # q.asked.child
             /\ q.asked.knew <= Len(next) /\ q.asked.ends = 0
             /\ q.asked.knew <= Len(rows) /\ q.asked.knew \in Nat /\ q.asked.depth \in Nat
  BY <1>1, <1>2 DEF AskedHolds, D!GrantType
<1>3. ASSUME q.pc \in {"allowed", "depth"}, NEW h \in Before(next, q.asked)
      PROVE  /\ h \in Before(rows, q.asked) /\ h \in 1 .. Len(rows)
             /\ next[h].depth = rows[h].depth /\ next[h].most = rows[h].most
             /\ rows[h].expired => next[h].expired
  BY <1>1, <1>2, <1>3 DEF Before, Grows
<1>4. ASSUME q.pc = "allowed"
      PROVE  /\ q.limits \subseteq 1 .. Len(next)
             /\ \A h \in Before(next, q.asked) : ~next[h].expired => h \in q.limits
             /\ \A h, i \in q.limits : next[i].depth < next[h].most
  BY <1>1, <1>3, <1>4 DEF AskedHolds, Grows
<1>5. ASSUME q.pc = "depth"
      PROVE  /\ q.asked.depth <= Len(next) + 1
             /\ \A h \in Before(next, q.asked) : Fits(next, q.asked, h)
  BY <1>1, <1>2, <1>3, <1>5 DEF AskedHolds, Fits
<1> QED BY <1>2, <1>4, <1>5 DEF AskedHolds

(* A request that has nothing under way.                                   *)
LEMMA IdleRequest ==
  ASSUME NEW q \in D!ReqType, q.pc \notin {"allowed", "depth", "revoke"}, NEW rows
  PROVE  AskedHolds(q, rows) /\ RevokeHolds(q, rows)
BY DEF AskedHolds, RevokeHolds

(* A request that begins has asked for nothing yet.                        *)
LEMMA NewRequest ==
  /\ D!New \in D!ReqType /\ [D!New EXCEPT !.pc = "done"] \in D!ReqType
  /\ D!New.pc = "new" /\ [D!New EXCEPT !.pc = "done"].pc = "done"
BY DEF D!New, D!ReqType

(* Initially nothing is delegated.                                         *)
LEMMA DelegationInit == D!Init => DelegationInv
<1> SUFFICES ASSUME D!Init PROVE DelegationInv
  OBVIOUS
<1>1. grant = <<>> /\ \A r \in Requests : req[r] = D!New
  BY DEF D!Init
<1>2. grant \in Seq(D!GrantType) /\ Len(grant) = 0
  BY <1>1
<1>3. \A g \in 1 .. 0 : FALSE
  OBVIOUS
<1>4. req \in [Requests -> D!ReqType]
  BY NewRequest DEF D!Init
<1> QED BY <1>1, <1>2, <1>3, <1>4, NewRequest, IdleRequest
        DEF DelegationInv, RowsHold, AgainExplained

(* A request goes on and the rows stay.                                    *)
LEMMA RequestStep ==
  ASSUME DelegationInv, NEW r \in Requests, req[r].pc # "done", NEW k \in D!ReqType,
         AskedHolds(k, grant), RevokeHolds(k, grant),
         req' = [req EXCEPT ![r] = k], UNCHANGED grant
  PROVE  DelegationInv'
<1>1. /\ req \in [Requests -> D!ReqType] /\ req' \in [Requests -> D!ReqType]
      /\ req'[r] = k /\ \A s \in Requests \ {r} : req'[s] = req[s]
  BY DEF DelegationInv
<1>2. AgainExplained'
  <2> SUFFICES ASSUME NEW g \in 1 .. Len(grant), grant[g].ends > 1
               PROVE  \E s \in Requests : req'[s].pc = "done" /\ req'[s].target = g /\ req'[s].stale
    BY DEF AgainExplained
  <2>1. PICK s \in Requests : req[s].pc = "done" /\ req[s].target = g /\ req[s].stale
    BY DEF DelegationInv, AgainExplained
  <2> QED BY <1>1, <2>1
<1>3. ASSUME NEW s \in Requests
      PROVE  AskedHolds(req'[s], grant') /\ RevokeHolds(req'[s], grant')
  <2>1. CASE s = r
    BY <1>1, <2>1
  <2>2. CASE s # r
    BY <1>1, <2>2 DEF DelegationInv
  <2> QED BY <2>1, <2>2
<1> QED BY <1>1, <1>2, <1>3 DEF DelegationInv

(* Allowed: the limits are those of the parent's valid grants.             *)
LEMMA ValidateInv ==
  ASSUME DelegationInv, NEW r \in Requests, NEW p \in Parties, NEW c \in Parties,
         NEW m \in 1 .. MaxDepth, NEW l \in BOOLEAN, D!Validate(r, p, c, m, l)
  PROVE  DelegationInv'
<1>1. /\ grant \in Seq(D!GrantType) /\ Len(grant) \in Nat /\ DOMAIN grant = 1 .. Len(grant)
      /\ \A g \in 1 .. Len(grant) : grant[g] \in D!GrantType
  BY LenProperties, ElementOfSeq DEF DelegationInv
<1>2. req[r].pc = "new" /\ UNCHANGED grant
  BY DEF D!Validate
<1>3. CASE p = c \/ ~D!DepthAllowed(p)
  BY <1>2, <1>3, NewRequest, IdleRequest, RequestStep DEF D!Validate, D!Finish
<1>4. CASE p # c /\ D!DepthAllowed(p)
  <2> DEFINE a == [D!Grant(p, c, m, l) EXCEPT !.knew = Len(grant)]
             k == [D!New EXCEPT !.pc = "allowed", !.limits = D!Valid(p), !.asked = a]
  <2>1. req' = [req EXCEPT ![r] = k]
    BY <1>4 DEF D!Validate
  <2>2. MaxDepth \in Nat
    BY AgentsMCAssumption DEF D!DelegationAssumption
  <2>3. /\ a \in D!GrantType /\ a.parent = p /\ a.child = c
        /\ a.knew = Len(grant) /\ a.ends = 0
    <3>1. Len(grant) \in Nat
      BY <1>1
    <3> DEFINE new == D!Grant(p, c, m, l)
    <3>2. new \in D!GrantType /\ new.parent = p /\ new.child = c /\ new.ends = 0
      BY <2>2 DEF D!Grant, D!GrantType
    <3> HIDE DEF new
    <3> QED BY <3>1, <3>2 DEF new, D!GrantType
  <2>4. D!Valid(p) \subseteq 1 .. Len(grant)
    BY <1>1 DEF D!Valid, D!Held
  <2>5. k \in D!ReqType /\ k.pc = "allowed" /\ k.asked = a /\ k.limits = D!Valid(p)
    <3> HIDE DEF a
    <3>1. D!Valid(p) \in SUBSET Nat
      BY <2>4
    <3> QED BY <2>3, <3>1 DEF D!New, D!ReqType
  <2> HIDE DEF a, k
  <2>6. \A h \in Before(grant, a) : ~grant[h].expired => h \in D!Valid(p)
    BY <1>1, <2>3 DEF Before, D!Valid, D!Held
  <2>7. ASSUME NEW h \in D!Valid(p), NEW i \in D!Valid(p)
        PROVE  grant[i].depth < grant[h].most
    <3> DEFINE deep == D!Depths(D!Valid(p))
               most == {grant[g].most : g \in D!Valid(p)}
    <3>0. \A g \in D!Valid(p) : grant[g].depth \in Nat /\ grant[g].most \in Nat
      <4> SUFFICES ASSUME NEW g \in D!Valid(p) PROVE grant[g].depth \in Nat /\ grant[g].most \in Nat
        OBVIOUS
      <4>1. grant[g] \in D!GrantType
        BY <1>1, <2>4
      <4> QED BY <2>2, <4>1 DEF D!GrantType
    <3>1. /\ deep \in SUBSET Nat /\ most \in SUBSET Nat
          /\ grant[i].depth \in deep /\ grant[h].most \in most
      BY <3>0 DEF D!Depths
    <3>2. \A x \in deep : x <= Len(grant)
      BY <1>1, <2>4 DEF D!Depths, DelegationInv, RowsHold, D!GrantType
    <3>3. D!Max(deep) < D!Min(most)
      BY <1>4 DEF D!DepthAllowed
    <3> HIDE DEF deep, most
    <3>4. grant[i].depth <= D!Max(deep) /\ D!Max(deep) \in Nat
      BY <1>1, <3>1, <3>2, GreatestOf
    <3>5. D!Min(most) <= grant[h].most /\ D!Min(most) \in Nat
      BY <3>1, LeastOf
    <3>6. grant[i].depth \in Nat /\ grant[h].most \in Nat
      BY <3>1
    <3> QED BY <3>3, <3>4, <3>5, <3>6
  <2>8. AskedHolds(k, grant) /\ RevokeHolds(k, grant)
    BY <1>1, <1>4, <2>3, <2>4, <2>5, <2>6, <2>7 DEF AskedHolds, RevokeHolds
  <2> QED BY <1>2, <2>1, <2>5, <2>8, RequestStep
<1> QED BY <1>3, <1>4

(* The depth: one more than that of the deepest active grant.              *)
LEMMA DepthInv ==
  ASSUME DelegationInv, NEW r \in Requests, D!Depth(r)
  PROVE  DelegationInv'
<1> DEFINE a == req[r].asked
           counted == D!Held(a.parent)
           b == [a EXCEPT !.depth = D!NewDepth(counted), !.lapsed = ~(counted \subseteq req[r].limits)]
           k == [req[r] EXCEPT !.pc = "depth", !.asked = b]
<1>1. /\ grant \in Seq(D!GrantType) /\ Len(grant) \in Nat /\ DOMAIN grant = 1 .. Len(grant)
      /\ \A g \in 1 .. Len(grant) : grant[g] \in D!GrantType /\ grant[g].depth \in Nat \ {0}
      /\ \A g \in 1 .. Len(grant) : grant[g].depth <= Len(grant)
  <2>1. /\ grant \in Seq(D!GrantType) /\ Len(grant) \in Nat /\ DOMAIN grant = 1 .. Len(grant)
        /\ \A g \in 1 .. Len(grant) : grant[g] \in D!GrantType
    BY LenProperties, ElementOfSeq DEF DelegationInv
  <2>2. \A g \in 1 .. Len(grant) : grant[g].depth \in Nat \ {0}
    BY <2>1 DEF D!GrantType
  <2> QED BY <2>1, <2>2 DEF DelegationInv, RowsHold
<1>2. req[r].pc = "allowed" /\ UNCHANGED grant /\ req[r] \in D!ReqType /\ AskedHolds(req[r], grant)
  BY DEF D!Depth, DelegationInv
<1>3. req' = [req EXCEPT ![r] = k]
  BY DEF D!Depth, DelegationInv
<1>4. /\ a \in D!GrantType /\ a.parent # a.child /\ a.knew <= Len(grant) /\ a.ends = 0
      /\ a.knew \in Nat /\ a.most \in Nat \ {0}
      /\ req[r].limits \subseteq 1 .. Len(grant)
      /\ \A h \in Before(grant, a) : ~grant[h].expired => h \in req[r].limits
      /\ \A h, i \in req[r].limits : grant[i].depth < grant[h].most
  BY <1>2 DEF AskedHolds, D!GrantType
<1>5. counted \subseteq 1 .. Len(grant) /\ Before(grant, a) \subseteq counted
  BY <1>1, <1>4 DEF D!Held, Before
<1>6. /\ D!NewDepth(counted) \in Nat \ {0} /\ D!NewDepth(counted) <= Len(grant) + 1
      /\ \A h \in counted : grant[h].depth < D!NewDepth(counted)
      /\ \A n \in Nat \ {0} : (\A h \in counted : grant[h].depth < n) => D!NewDepth(counted) <= n
  <2> HIDE DEF counted
  <2>1. CASE counted = {}
    BY <1>1, <2>1 DEF D!NewDepth
  <2>2. CASE counted # {}
    <3> DEFINE deep == D!Depths(counted)
    <3>1. deep \in SUBSET Nat /\ deep # {} /\ \A x \in deep : x <= Len(grant)
      BY <1>1, <1>5, <2>2 DEF D!Depths
    <3>2. \A h \in counted : grant[h].depth \in deep
      BY DEF D!Depths
    <3>3. D!NewDepth(counted) = D!Max(deep) + 1
      BY <2>2 DEF D!NewDepth
    <3>4. \A x \in deep : \E h \in counted : x = grant[h].depth
      BY DEF D!Depths
    <3> HIDE DEF deep
    <3>5. D!Max(deep) \in deep /\ \A x \in deep : x <= D!Max(deep)
      BY <1>1, <3>1, GreatestOf
    <3>6. D!Max(deep) \in Nat /\ D!Max(deep) <= Len(grant)
      BY <3>1, <3>5
    <3>7. \A h \in counted : grant[h].depth <= D!Max(deep) /\ grant[h].depth \in Nat
      BY <3>1, <3>2, <3>5
    <3>8. ASSUME NEW n \in Nat \ {0}, \A h \in counted : grant[h].depth < n
          PROVE  D!Max(deep) + 1 <= n
      BY <3>4, <3>5, <3>6, <3>8
    <3> QED BY <1>1, <3>3, <3>6, <3>7, <3>8
  <2> QED BY <2>1, <2>2
<1>7. /\ b \in D!GrantType /\ b.depth = D!NewDepth(counted) /\ b.parent = a.parent
      /\ b.child = a.child /\ b.knew = a.knew /\ b.ends = 0
      /\ b.lapsed = ~(counted \subseteq req[r].limits)
  BY <1>4, <1>6 DEF D!GrantType
<1> HIDE DEF b
<1>8. k \in D!ReqType /\ k.pc = "depth" /\ k.asked = b
  BY <1>2, <1>7 DEF D!ReqType
<1>9. Before(grant, b) = Before(grant, a)
  BY <1>7 DEF Before
<1>10. ASSUME NEW h \in Before(grant, b) PROVE Fits(grant, b, h)
  <2>1. h \in counted /\ h \in 1 .. Len(grant) /\ grant[h].depth \in Nat
    BY <1>1, <1>5, <1>9, <1>10
  <2>2. b.depth > grant[h].depth
    BY <1>1, <1>6, <1>7, <2>1
  <2>3. ASSUME ~grant[h].expired, counted \subseteq req[r].limits
        PROVE  b.depth <= grant[h].most
    <3>1. h \in req[r].limits
      BY <1>4, <1>9, <1>10, <2>3
    <3>2. \A i \in counted : grant[i].depth < grant[h].most
      BY <1>4, <2>3, <3>1
    <3>3. MaxDepth \in Nat /\ grant[h].most \in Nat \ {0}
      BY AgentsMCAssumption, <1>1, <2>1 DEF D!DelegationAssumption, D!GrantType
    <3> QED BY <1>6, <1>7, <3>2, <3>3
  <2> QED BY <1>7, <2>2, <2>3 DEF Fits
<1> HIDE DEF k
<1>11. AskedHolds(k, grant) /\ RevokeHolds(k, grant)
  BY <1>4, <1>6, <1>7, <1>8, <1>10 DEF AskedHolds, RevokeHolds
<1> QED BY <1>2, <1>3, <1>8, <1>11, RequestStep

(* The row is added; it has what its request asked for.                    *)
LEMMA CreateInv ==
  ASSUME DelegationInv, NEW r \in Requests, D!CreateCommit(r)
  PROVE  DelegationInv'
<1> DEFINE a == req[r].asked
           n == Len(grant)
<1>1. /\ grant \in Seq(D!GrantType) /\ n \in Nat
      /\ \A g \in 1 .. n : grant[g] \in D!GrantType
  BY LenProperties, ElementOfSeq DEF DelegationInv
<1>2. /\ req[r].pc = "depth" /\ req[r] \in D!ReqType
      /\ a \in D!GrantType /\ a.parent # a.child /\ a.knew <= n /\ a.ends = 0
      /\ a.depth <= n + 1 /\ a.knew \in Nat
      /\ \A h \in Before(grant, a) : Fits(grant, a, h)
  BY DEF D!CreateCommit, DelegationInv, AskedHolds, D!GrantType
<1>3. /\ grant' \in Seq(D!GrantType) /\ Len(grant') = n + 1 /\ grant'[n + 1] = a
      /\ \A g \in 1 .. n : grant'[g] = grant[g]
  BY <1>1, <1>2, AppendProperties DEF D!CreateCommit
<1>4. /\ req' \in [Requests -> D!ReqType] /\ req'[r].pc = "done"
      /\ \A s \in Requests \ {r} : req'[s] = req[s]
  BY NewRequest DEF D!CreateCommit, D!Finish, DelegationInv
<1> HIDE DEF a, n
<1>5. Grows(grant, grant')
  BY <1>1, <1>3 DEF Grows, n
<1>6. RowsHold(grant')
  <2> SUFFICES ASSUME NEW g \in 1 .. n + 1
               PROVE  /\ grant'[g].parent # grant'[g].child
                      /\ grant'[g].depth <= g /\ grant'[g].knew < g
                      /\ grant'[g].active => grant'[g].ends = 0
                      /\ \A h \in Before(grant', grant'[g]) : Fits(grant', grant'[g], h)
    BY <1>3 DEF RowsHold
  <2>1. CASE g = n + 1
    <3>1. grant'[g] = a
      BY <1>3, <2>1
    <3>2. \A h \in Before(grant', a) : h \in Before(grant, a) /\ grant'[h] = grant[h]
      BY <1>1, <1>2, <1>3 DEF Before
    <3>3. \A h \in Before(grant', a) : Fits(grant', a, h)
      BY <1>2, <3>2 DEF Fits
    <3>4. a.knew < n + 1
      BY <1>1, <1>2
    <3> QED BY <1>2, <2>1, <3>1, <3>3, <3>4
  <2>2. CASE g # n + 1
    <3>1. g \in 1 .. n /\ grant'[g] = grant[g] /\ grant[g] \in D!GrantType
      BY <1>1, <1>3, <2>2
    <3>2. /\ grant[g].parent # grant[g].child
          /\ grant[g].depth <= g /\ grant[g].knew < g /\ grant[g].knew \in Nat
          /\ grant[g].active => grant[g].ends = 0
          /\ \A h \in Before(grant, grant[g]) : Fits(grant, grant[g], h)
      BY <3>1 DEF DelegationInv, RowsHold, n, D!GrantType
    <3>3. \A h \in Before(grant', grant[g]) : h \in Before(grant, grant[g]) /\ grant'[h] = grant[h]
      BY <1>1, <1>3, <3>1, <3>2 DEF Before
    <3>4. \A h \in Before(grant', grant[g]) : Fits(grant', grant[g], h)
      BY <3>2, <3>3 DEF Fits
    <3> QED BY <3>1, <3>2, <3>4
  <2> QED BY <2>1, <2>2
<1>7. AgainExplained'
  <2> SUFFICES ASSUME NEW g \in 1 .. n + 1, grant'[g].ends > 1
               PROVE  \E s \in Requests : req'[s].pc = "done" /\ req'[s].target = g /\ req'[s].stale
    BY <1>3 DEF AgainExplained
  <2>1. g \in 1 .. n /\ grant[g].ends > 1
    BY <1>1, <1>2, <1>3
  <2>2. PICK s \in Requests : req[s].pc = "done" /\ req[s].target = g /\ req[s].stale
    BY <2>1 DEF DelegationInv, AgainExplained, n
  <2> QED BY <1>2, <1>4, <2>2
<1>8. ASSUME NEW s \in Requests
      PROVE  AskedHolds(req'[s], grant') /\ RevokeHolds(req'[s], grant')
  <2>1. CASE s = r
    BY <1>4, <2>1, IdleRequest
  <2>2. CASE s # r
    <3>1. req'[s] = req[s] /\ req[s] \in D!ReqType /\ AskedHolds(req[s], grant) /\ RevokeHolds(req[s], grant)
      BY <1>4, <2>2 DEF DelegationInv
    <3>2. AskedHolds(req[s], grant')
      BY <1>1, <1>3, <1>5, <3>1, AskedStays
    <3>3. RevokeHolds(req[s], grant')
      BY <1>1, <1>3, <3>1 DEF RevokeHolds, n
    <3> QED BY <3>1, <3>2, <3>3
  <2> QED BY <2>1, <2>2
<1> QED BY <1>3, <1>4, <1>6, <1>7, <1>8 DEF DelegationInv

(* One row loses its effect: what holds of the rows stays.                 *)
LEMMA RowChanges ==
  ASSUME DelegationInv, NEW g \in 1 .. Len(grant), NEW one \in D!GrantType,
         grant' = [grant EXCEPT ![g] = one],
         /\ one.parent = grant[g].parent /\ one.child = grant[g].child
         /\ one.depth = grant[g].depth /\ one.most = grant[g].most
         /\ one.knew = grant[g].knew /\ one.lapsed = grant[g].lapsed
         /\ one.active => (grant[g].active /\ one.ends = grant[g].ends)
         /\ grant[g].expired => one.expired
  PROVE  /\ grant' \in Seq(D!GrantType) /\ Len(grant') = Len(grant)
         /\ Grows(grant, grant') /\ RowsHold(grant')
         /\ \A h \in 1 .. Len(grant) : grant'[h] = IF h = g THEN one ELSE grant[h]
<1>1. /\ grant \in Seq(D!GrantType) /\ Len(grant) \in Nat /\ DOMAIN grant = 1 .. Len(grant)
      /\ \A h \in 1 .. Len(grant) : grant[h] \in D!GrantType
  BY LenProperties, ElementOfSeq DEF DelegationInv
<1>2. grant' \in Seq(D!GrantType) /\ Len(grant') = Len(grant)
  BY <1>1, ExceptSeq
<1>3. \A h \in 1 .. Len(grant) : grant'[h] = IF h = g THEN one ELSE grant[h]
  BY <1>1
<1>4. ASSUME NEW h \in 1 .. Len(grant)
      PROVE  /\ grant'[h].parent = grant[h].parent /\ grant'[h].child = grant[h].child
             /\ grant'[h].depth = grant[h].depth /\ grant'[h].most = grant[h].most
             /\ grant'[h].knew = grant[h].knew /\ grant'[h].lapsed = grant[h].lapsed
             /\ grant'[h].active => (grant[h].active /\ grant'[h].ends = grant[h].ends)
             /\ grant[h].expired => grant'[h].expired
             /\ grant[h].knew \in Nat
  <2>1. grant[h].knew \in Nat
    BY <1>1 DEF D!GrantType
  <2>2. CASE h = g
    BY <1>3, <2>1, <2>2
  <2>3. CASE h # g
    BY <1>3, <2>1, <2>3
  <2> QED BY <2>2, <2>3
<1>5. Grows(grant, grant')
  BY <1>1, <1>2, <1>4 DEF Grows
<1>6. RowsHold(grant')
  <2> SUFFICES ASSUME NEW h \in 1 .. Len(grant)
               PROVE  /\ grant'[h].parent # grant'[h].child
                      /\ grant'[h].depth <= h /\ grant'[h].knew < h
                      /\ grant'[h].active => grant'[h].ends = 0
                      /\ \A i \in Before(grant', grant'[h]) : Fits(grant', grant'[h], i)
    BY <1>2 DEF RowsHold
  <2>1. /\ grant[h].parent # grant[h].child
        /\ grant[h].depth <= h /\ grant[h].knew < h
        /\ grant[h].active => grant[h].ends = 0
        /\ \A i \in Before(grant, grant[h]) : Fits(grant, grant[h], i)
    BY DEF DelegationInv, RowsHold
  <2>2. ASSUME NEW i \in Before(grant', grant'[h]) PROVE Fits(grant', grant'[h], i)
    <3>1. i \in 1 .. Len(grant) /\ i \in 1 .. grant[h].knew
      BY <1>1, <1>4, <2>1, <2>2 DEF Before
    <3>2. i \in Before(grant, grant[h])
      BY <1>4, <2>2, <3>1 DEF Before
    <3> QED BY <1>4, <2>1, <3>1, <3>2 DEF Fits
  <2> QED BY <1>4, <2>1, <2>2
<1> QED BY <1>2, <1>3, <1>5, <1>6

(* The first to revoke makes the others stale.                             *)
LEMMA RevokeInv ==
  ASSUME DelegationInv, NEW r \in Requests, D!RevokeCommit(r)
  PROVE  DelegationInv'
<1> DEFINE g == req[r].target
           one == [grant[g] EXCEPT !.active = FALSE, !.ends = @ + 1]
           mine == [D!New EXCEPT !.pc = "done", !.target = g, !.stale = req[r].stale]
<1>1. /\ req \in [Requests -> D!ReqType] /\ req[r].pc = "revoke" /\ g \in 1 .. Len(grant)
      /\ grant[g].ends > 0 => req[r].stale
  BY DEF D!RevokeCommit, DelegationInv, RevokeHolds
<1>2. grant[g] \in D!GrantType /\ g \in Nat /\ DOMAIN grant = 1 .. Len(grant)
  BY <1>1, LenProperties, ElementOfSeq DEF DelegationInv
<1>3. grant' = [grant EXCEPT ![g] = one]
  BY <1>1, <1>2 DEF D!RevokeCommit
<1>4. /\ one \in D!GrantType /\ one.ends = grant[g].ends + 1 /\ grant[g].ends \in Nat
      /\ one.parent = grant[g].parent /\ one.child = grant[g].child
      /\ one.depth = grant[g].depth /\ one.most = grant[g].most
      /\ one.knew = grant[g].knew /\ one.lapsed = grant[g].lapsed
      /\ ~one.active /\ one.expired = grant[g].expired
  <2> DEFINE ends == grant[g].ends + 1
  <2>1. grant[g].ends \in Nat /\ ends \in Nat
    BY <1>2 DEF D!GrantType
  <2> HIDE DEF ends
  <2>2. one = [grant[g] EXCEPT !.active = FALSE, !.ends = ends]
    BY DEF ends
  <2> HIDE DEF one
  <2>3. /\ one \in D!GrantType /\ one.ends = ends
        /\ one.parent = grant[g].parent /\ one.child = grant[g].child
        /\ one.depth = grant[g].depth /\ one.most = grant[g].most
        /\ one.knew = grant[g].knew /\ one.lapsed = grant[g].lapsed
        /\ ~one.active /\ one.expired = grant[g].expired
    BY <1>2, <2>1, <2>2 DEF D!GrantType
  <2> QED BY <2>1, <2>3 DEF ends
<1> HIDE DEF one
<1>5. /\ grant' \in Seq(D!GrantType) /\ Len(grant') = Len(grant)
      /\ Grows(grant, grant') /\ RowsHold(grant')
      /\ \A h \in 1 .. Len(grant) : grant'[h] = IF h = g THEN one ELSE grant[h]
  <2>1. one.active => (grant[g].active /\ one.ends = grant[g].ends)
    BY <1>4
  <2> QED BY <1>1, <1>3, <1>4, <2>1, RowChanges
<1>6. mine \in D!ReqType /\ mine.pc = "done" /\ mine.target = g /\ mine.stale = req[r].stale
  BY <1>1, <1>2 DEF D!New, D!ReqType
<1>7. req'[r] = mine /\ req' = [s \in Requests |-> req'[s]]
  BY DEF D!RevokeCommit
<1>8. ASSUME NEW s \in Requests, s # r
      PROVE  /\ req'[s] \in D!ReqType /\ req'[s].pc = req[s].pc
             /\ req'[s].target = req[s].target
             /\ req'[s].asked = req[s].asked /\ req'[s].limits = req[s].limits
             /\ req[s].stale => req'[s].stale
             /\ req[s].pc = "revoke" /\ req[s].target = g => req'[s].stale
  <2>1. req'[s] = [req[s] EXCEPT !.stale = @ \/ (req[s].pc = "revoke" /\ req[s].target = g)]
    BY <1>8 DEF D!RevokeCommit
  <2>2. req[s] \in D!ReqType
    BY <1>1
  <2> DEFINE new == req[s].stale \/ (req[s].pc = "revoke" /\ req[s].target = g)
  <2>3. new \in BOOLEAN
    OBVIOUS
  <2>4. req'[s] = [req[s] EXCEPT !.stale = new]
    BY <2>1
  <2>5. (req[s].stale => new) /\ (req[s].pc = "revoke" /\ req[s].target = g => new)
    OBVIOUS
  <2> HIDE DEF new
  <2>6. /\ req'[s] \in D!ReqType /\ req'[s].pc = req[s].pc /\ req'[s].target = req[s].target
        /\ req'[s].asked = req[s].asked /\ req'[s].limits = req[s].limits /\ req'[s].stale = new
    BY <2>2, <2>3, <2>4 DEF D!ReqType
  <2> QED BY <2>5, <2>6
<1> HIDE DEF mine
<1>9. req' \in [Requests -> D!ReqType]
  BY <1>6, <1>7, <1>8
<1>10. AgainExplained'
  <2> SUFFICES ASSUME NEW h \in 1 .. Len(grant), grant'[h].ends > 1
               PROVE  \E s \in Requests : req'[s].pc = "done" /\ req'[s].target = h /\ req'[s].stale
    BY <1>5 DEF AgainExplained
  <2>1. CASE h = g
    BY <1>1, <1>4, <1>5, <1>6, <1>7, <2>1
  <2>2. CASE h # g
    <3>1. PICK s \in Requests : req[s].pc = "done" /\ req[s].target = h /\ req[s].stale
      BY <1>5, <2>2 DEF DelegationInv, AgainExplained
    <3> QED BY <1>1, <1>8, <3>1
  <2> QED BY <2>1, <2>2
<1>11. ASSUME NEW s \in Requests
       PROVE  AskedHolds(req'[s], grant') /\ RevokeHolds(req'[s], grant')
  <2>1. CASE s = r
    BY <1>6, <1>7, <2>1, IdleRequest
  <2>2. CASE s # r
    <3>1. /\ req'[s] \in D!ReqType /\ req[s] \in D!ReqType
          /\ AskedHolds(req[s], grant) /\ RevokeHolds(req[s], grant)
      BY <1>1, <1>8, <2>2 DEF DelegationInv
    <3>2. AskedHolds(req[s], grant')
      BY <1>5, <3>1, AskedStays DEF DelegationInv
    <3>3. AskedHolds(req'[s], grant')
      BY <1>8, <2>2, <3>2 DEF AskedHolds
    <3>4. RevokeHolds(req'[s], grant')
      BY <1>5, <1>8, <2>2, <3>1 DEF RevokeHolds
    <3> QED BY <3>3, <3>4
  <2> QED BY <2>1, <2>2
<1> QED BY <1>5, <1>9, <1>10, <1>11 DEF DelegationInv

(* Time passes for a grant.                                                *)
LEMMA ExpireInv ==
  ASSUME DelegationInv, NEW g \in DOMAIN grant, D!Expire(g)
  PROVE  DelegationInv'
<1> DEFINE one == [grant[g] EXCEPT !.expired = TRUE]
<1>1. g \in 1 .. Len(grant) /\ grant[g] \in D!GrantType /\ DOMAIN grant = 1 .. Len(grant)
  BY LenProperties, ElementOfSeq DEF DelegationInv
<1>2. grant' = [grant EXCEPT ![g] = one] /\ UNCHANGED req
  BY DEF D!Expire
<1>3. /\ one \in D!GrantType /\ one.ends = grant[g].ends
      /\ one.parent = grant[g].parent /\ one.child = grant[g].child
      /\ one.depth = grant[g].depth /\ one.most = grant[g].most
      /\ one.knew = grant[g].knew /\ one.lapsed = grant[g].lapsed
      /\ one.active = grant[g].active /\ one.expired
  BY <1>1 DEF D!GrantType
<1> HIDE DEF one
<1>4. /\ grant' \in Seq(D!GrantType) /\ Len(grant') = Len(grant)
      /\ Grows(grant, grant') /\ RowsHold(grant')
      /\ \A h \in 1 .. Len(grant) : grant'[h] = IF h = g THEN one ELSE grant[h]
  <2>1. one.active => (grant[g].active /\ one.ends = grant[g].ends)
    BY <1>3
  <2> QED BY <1>1, <1>2, <1>3, <2>1, RowChanges
<1>5. \A h \in 1 .. Len(grant) : grant'[h].ends = grant[h].ends
  BY <1>3, <1>4
<1>6. AgainExplained'
  BY <1>2, <1>4, <1>5 DEF DelegationInv, AgainExplained
<1>7. ASSUME NEW s \in Requests
      PROVE  AskedHolds(req[s], grant') /\ RevokeHolds(req[s], grant')
  <2>1. req[s] \in D!ReqType /\ AskedHolds(req[s], grant) /\ RevokeHolds(req[s], grant)
    BY DEF DelegationInv
  <2>2. AskedHolds(req[s], grant')
    BY <1>4, <2>1, AskedStays DEF DelegationInv
  <2>3. RevokeHolds(req[s], grant')
    BY <1>4, <1>5, <2>1 DEF RevokeHolds
  <2> QED BY <2>2, <2>3
<1> QED BY <1>2, <1>4, <1>6, <1>7 DEF DelegationInv

(* Every step of a request, or of time, keeps it.                          *)
LEMMA DelegationStep == DelegationInv /\ D!Next => DelegationInv'
<1> SUFFICES ASSUME DelegationInv, D!Next PROVE DelegationInv'
  OBVIOUS
<1>1. ASSUME NEW r \in Requests, D!Abort(r) PROVE DelegationInv'
  BY <1>1, NewRequest, IdleRequest, RequestStep DEF D!Abort, D!Finish
<1>2. ASSUME NEW r \in Requests, NEW g \in DOMAIN grant, D!RevokeRead(r, g)
      PROVE  DelegationInv'
  <2>1. g \in 1 .. Len(grant) /\ req[r].pc = "new" /\ UNCHANGED grant
    BY <1>2, LenProperties DEF DelegationInv, D!RevokeRead
  <2>2. CASE D!Revocable(g)
    <3> DEFINE k == [D!New EXCEPT !.pc = "revoke", !.target = g]
    <3>1. k \in D!ReqType /\ k.pc = "revoke" /\ k.target = g
      <4>1. g \in Nat
        BY <2>1, LenProperties DEF DelegationInv
      <4> QED BY <4>1 DEF D!New, D!ReqType
    <3>2. grant[g].ends = 0
      BY <2>1, <2>2 DEF D!Revocable, DelegationInv, RowsHold
    <3>3. req' = [req EXCEPT ![r] = k]
      BY <1>2, <2>2 DEF D!RevokeRead
    <3> HIDE DEF k
    <3>4. AskedHolds(k, grant) /\ RevokeHolds(k, grant)
      BY <2>1, <3>1, <3>2 DEF AskedHolds, RevokeHolds
    <3> QED BY <2>1, <3>1, <3>3, <3>4, RequestStep
  <2>3. CASE ~D!Revocable(g)
    BY <1>2, <2>1, <2>3, NewRequest, IdleRequest, RequestStep DEF D!RevokeRead, D!Finish
  <2> QED BY <2>2, <2>3
<1> QED BY <1>1, <1>2, ValidateInv, DepthInv, CreateInv, RevokeInv, ExpireInv DEF D!Next

(* What the runs check of it.                                              *)
LEMMA DelegationExplained ==
  DelegationInv => D!TypeOK /\ D!DeeperThanParents /\ D!LimitKept /\ D!RevokedAgainByOverlap
<1> SUFFICES ASSUME DelegationInv
             PROVE  D!TypeOK /\ D!DeeperThanParents /\ D!LimitKept /\ D!RevokedAgainByOverlap
  OBVIOUS
<1>1. grant \in Seq(D!GrantType) /\ DOMAIN grant = 1 .. Len(grant)
  BY LenProperties DEF DelegationInv
<1>2. D!TypeOK
  BY <1>1 DEF DelegationInv, RowsHold, D!TypeOK
<1>3. \A g \in DOMAIN grant : D!Known(g) = Before(grant, grant[g])
  BY DEF D!Known, Before
<1>4. \A g \in DOMAIN grant : \A h \in D!Known(g) : Fits(grant, grant[g], h)
  BY <1>1, <1>3 DEF DelegationInv, RowsHold
<1> QED BY <1>1, <1>2, <1>4
        DEF D!DeeperThanParents, D!LimitKept, Fits, D!RevokedAgainByOverlap, DelegationInv, AgainExplained

-----------------------------------------------------------------------------
(* Credentials. A credential that is active was never revoked or followed. *)
ActiveUnspent ==
  \A c \in Creds \ C!Unused : cred[c].active => cred[c].revoked = 0 /\ cred[c].rotated = 0

(* A request holds a credential that is there, and is stale if somebody    *)
(* else has spent it.                                                      *)
HolderKnows ==
  \A r \in Requests :
    /\ asked[r].pc = "new" => asked[r].cred = None
    /\ asked[r].pc \in {"revoke", "rotate"} =>
         /\ asked[r].cred \in Creds \ C!Unused
         /\ \/ asked[r].stale
            \/ cred[asked[r].cred].revoked = 0 /\ cred[asked[r].cred].rotated = 0

(* What holds of the credentials and the requests.                         *)
CredentialsInv ==
  C!TypeOK /\ C!NeverWithout /\ C!HeirsExplained /\ ActiveUnspent /\ HolderKnows

(* Initially there is no credential.                                       *)
LEMMA CredentialsInit == C!Init => CredentialsInv
<1> SUFFICES ASSUME C!Init PROVE CredentialsInv
  OBVIOUS
<1>1. /\ C!New \in C!ReqType /\ C!New.pc = "new" /\ C!New.cred = None
  BY DEF C!New, C!ReqType
<1>2. \A c \in Creds : c \in C!Unused
  BY DEF C!Init, C!Unused
<1> QED BY <1>1, <1>2 DEF C!Init, CredentialsInv, C!TypeOK, C!NeverWithout, C!HeirsExplained,
                          ActiveUnspent, HolderKnows

(* A credential that is issued.                                            *)
LEMMA IssuedCred ==
  ASSUME NEW kind \in C!Kinds, NEW from \in Creds \cup {None}
  PROVE  /\ C!Issued(kind, from) \in C!CredType /\ C!Issued(kind, from) # None
         /\ C!Issued(kind, from).active /\ C!Issued(kind, from).from = from
         /\ C!Issued(kind, from).revoked = 0 /\ C!Issued(kind, from).rotated = 0
<1>1. /\ C!Issued(kind, from) \in C!CredType
      /\ C!Issued(kind, from).active /\ C!Issued(kind, from).from = from
      /\ C!Issued(kind, from).revoked = 0 /\ C!Issued(kind, from).rotated = 0
  BY DEF C!Issued, C!CredType
<1> QED BY <1>1, AgentsMCAssumption DEF C!CredentialsAssumption

(* The ways a request goes on: it takes a credential, or it ends, and then *)
(* those that hold the credential it spent are stale.                      *)
LEMMA Ends ==
  ASSUME CredentialsInv, NEW r \in Requests, C!End(r), asked[r].pc # "done"
  PROVE  /\ asked' \in [Requests -> C!ReqType] /\ asked'[r].pc = "done"
         /\ asked'[r].cred = asked[r].cred /\ asked'[r].stale = asked[r].stale
         /\ \A s \in Requests \ {r} : asked'[s] = asked[s]
<1>1. asked \in [Requests -> C!ReqType] /\ asked[r] \in C!ReqType
  BY DEF CredentialsInv, C!TypeOK
<1>2. asked' = [asked EXCEPT ![r] = [asked[r] EXCEPT !.pc = "done"]]
  BY <1>1 DEF C!End
<1> DEFINE k == [asked[r] EXCEPT !.pc = "done"]
<1>3. k \in C!ReqType /\ k.pc = "done" /\ k.cred = asked[r].cred /\ k.stale = asked[r].stale
  BY <1>1 DEF C!ReqType
<1> HIDE DEF k
<1>4. asked' = [asked EXCEPT ![r] = k]
  BY <1>2 DEF k
<1> QED BY <1>1, <1>3, <1>4

(* A request ends, and the others about its credential are behind it.      *)
LEMMA EndsOn ==
  ASSUME CredentialsInv, NEW r \in Requests, NEW c \in Creds, C!EndOn(r, c)
  PROVE  /\ asked' \in [Requests -> C!ReqType] /\ asked'[r].pc = "done"
         /\ asked'[r].cred = asked[r].cred /\ asked'[r].stale = asked[r].stale
         /\ \A s \in Requests \ {r} :
              /\ asked'[s].pc = asked[s].pc /\ asked'[s].cred = asked[s].cred
              /\ asked[s].stale => asked'[s].stale
              /\ asked[s].cred = c /\ asked[s].pc # "done" => asked'[s].stale
<1>1. ASSUME NEW s \in Requests
      PROVE  /\ asked'[s] \in C!ReqType /\ asked'[s].cred = asked[s].cred
             /\ s = r => asked'[s].pc = "done" /\ asked'[s].stale = asked[s].stale
             /\ s # r => /\ asked'[s].pc = asked[s].pc
                         /\ asked[s].stale => asked'[s].stale
                         /\ asked[s].cred = c /\ asked[s].pc # "done" => asked'[s].stale
  <2> DEFINE new == asked[s].stale \/ (asked[s].cred = c /\ asked[s].pc # "done")
  <2>1. asked[s] \in C!ReqType /\ new \in BOOLEAN
    BY DEF CredentialsInv, C!TypeOK
  <2>2. asked'[s] = IF s = r THEN [asked[s] EXCEPT !.pc = "done"]
                    ELSE [asked[s] EXCEPT !.stale = new]
    BY DEF C!EndOn
  <2>3. (asked[s].stale => new) /\ (asked[s].cred = c /\ asked[s].pc # "done" => new)
    OBVIOUS
  <2> HIDE DEF new
  <2>4. CASE s = r
    BY <2>1, <2>2, <2>4 DEF C!ReqType
  <2>5. CASE s # r
    <3>1. /\ asked'[s] \in C!ReqType /\ asked'[s].cred = asked[s].cred
          /\ asked'[s].pc = asked[s].pc /\ asked'[s].stale = new
      BY <2>1, <2>2, <2>5 DEF C!ReqType
    <3> QED BY <2>3, <2>5, <3>1
  <2> QED BY <2>4, <2>5
<1>2. asked' = [s \in Requests |-> asked'[s]]
  BY DEF C!EndOn
<1> QED BY <1>1, <1>2

(* Nothing is issued or spent: a request takes what is active, or fails.   *)
LEMMA CredsStay ==
  ASSUME CredentialsInv, NEW r \in Requests,
         \/ C!Fail(r)
         \/ \E c \in Creds, next \in {"revoke", "rotate"}, a \in C!Kinds \cup {"other", None} :
              C!Read(r, c, next, a)
  PROVE  CredentialsInv'
<1>1. cred' = cred /\ C!Unused' = C!Unused
  BY DEF C!Fail, C!Read, C!Unused
<1>2. /\ asked' \in [Requests -> C!ReqType]
      /\ \A s \in Requests \ {r} : asked'[s] = asked[s]
      /\ \/ /\ asked'[r].pc = "done" /\ asked[r].pc # "new"
            /\ asked'[r].cred = asked[r].cred /\ asked'[r].stale = asked[r].stale
         \/ /\ asked'[r].pc \in {"revoke", "rotate"} /\ asked[r].pc = "new"
            /\ asked'[r].cred \in Creds \ C!Unused
            /\ cred[asked'[r].cred].active
  <2>1. CASE C!Fail(r)
    BY <2>1, Ends DEF C!Fail
  <2>2. ASSUME NEW c \in Creds, NEW next \in {"revoke", "rotate"},
               NEW a \in C!Kinds \cup {"other", None}, C!Read(r, c, next, a)
        PROVE  /\ asked' \in [Requests -> C!ReqType]
               /\ \A s \in Requests \ {r} : asked'[s] = asked[s]
               /\ asked'[r].pc \in {"revoke", "rotate"} /\ asked[r].pc = "new"
               /\ asked'[r].cred \in Creds \ C!Unused
               /\ cred[asked'[r].cred].active
    <3> DEFINE k == [C!New EXCEPT !.pc = next, !.cred = c, !.asked = a]
    <3>1. k \in C!ReqType /\ k.pc = next /\ k.cred = c
      BY DEF C!New, C!ReqType
    <3>2. /\ asked' = [asked EXCEPT ![r] = k] /\ asked[r].pc = "new"
          /\ cred[c] # None /\ cred[c].active
      BY <2>2 DEF C!Read, C!Revocable
    <3> HIDE DEF k
    <3>3. asked \in [Requests -> C!ReqType]
      BY DEF CredentialsInv, C!TypeOK
    <3> QED BY <3>1, <3>2, <3>3 DEF C!Unused
  <2> QED BY <2>1, <2>2
<1>3. C!TypeOK' /\ C!NeverWithout' /\ ActiveUnspent'
  BY <1>1, <1>2 DEF CredentialsInv, C!TypeOK, C!NeverWithout, ActiveUnspent
<1>4. C!HeirsExplained'
  <2> SUFFICES ASSUME NEW c \in Creds \ C!Unused,
                      cred[c].rotated > 1 \/ (cred[c].rotated > 0 /\ cred[c].revoked > 0)
               PROVE  \E s \in Requests : asked'[s].cred = c /\ asked'[s].stale
    BY <1>1 DEF C!HeirsExplained
  <2>1. PICK s \in Requests : asked[s].cred = c /\ asked[s].stale
    BY DEF CredentialsInv, C!HeirsExplained
  <2>2. asked[s].pc # "new"
    BY <2>1, AgentsMCAssumption DEF CredentialsInv, HolderKnows, C!CredentialsAssumption
  <2> QED BY <1>2, <2>1, <2>2
<1>5. HolderKnows'
  <2> SUFFICES ASSUME NEW s \in Requests
               PROVE  /\ asked'[s].pc = "new" => asked'[s].cred = None
                      /\ asked'[s].pc \in {"revoke", "rotate"} =>
                           /\ asked'[s].cred \in Creds \ C!Unused
                           /\ \/ asked'[s].stale
                              \/ /\ cred[asked'[s].cred].revoked = 0
                                 /\ cred[asked'[s].cred].rotated = 0
    BY <1>1 DEF HolderKnows
  <2>1. CASE s = r
    BY <1>2, <2>1 DEF CredentialsInv, ActiveUnspent
  <2>2. CASE s # r
    BY <1>2, <2>2 DEF CredentialsInv, HolderKnows
  <2> QED BY <2>1, <2>2
<1> QED BY <1>3, <1>4, <1>5 DEF CredentialsInv

(* A credential is issued that has no predecessor.                         *)
LEMMA IssueInv ==
  ASSUME CredentialsInv, NEW r \in Requests, NEW kind \in C!Kinds, C!Issue(r, kind)
  PROVE  CredentialsInv'
<1>1. PICK c \in C!Unused : cred' = [cred EXCEPT ![c] = C!Issued(kind, None)]
  BY DEF C!Issue
<1>2. cred \in [Creds -> C!CredType \cup {None}] /\ c \in Creds /\ cred[c] = None
  BY DEF CredentialsInv, C!TypeOK, C!Unused
<1> DEFINE new == C!Issued(kind, None)
<1>3. new \in C!CredType /\ new # None /\ new.active /\ new.from = None /\ new.revoked = 0 /\ new.rotated = 0
  BY IssuedCred
<1> HIDE DEF new
<1>4. /\ cred' \in [Creds -> C!CredType \cup {None}] /\ cred'[c] = new
      /\ \A d \in Creds \ {c} : cred'[d] = cred[d]
  BY <1>1, <1>2, <1>3 DEF new
<1>5. C!Unused' = C!Unused \ {c}
  BY <1>2, <1>3, <1>4 DEF C!Unused
<1>6. asked[r].pc = "new" /\ C!End(r)
  BY DEF C!Issue
<1>7. /\ asked' \in [Requests -> C!ReqType] /\ asked'[r].pc = "done"
      /\ asked'[r].cred = asked[r].cred /\ asked'[r].stale = asked[r].stale
      /\ \A s \in Requests \ {r} : asked'[s] = asked[s]
  BY <1>6, Ends
<1>8. C!TypeOK' /\ ActiveUnspent'
  BY <1>2, <1>3, <1>4, <1>5, <1>7 DEF CredentialsInv, C!TypeOK, ActiveUnspent
<1>9. C!NeverWithout'
  <2> SUFFICES ASSUME NEW d \in Creds \ C!Unused', ~cred'[d].active
               PROVE  cred'[d].revoked > 0 \/ \E e \in Creds \ C!Unused' : cred'[e].from = d
    BY DEF C!NeverWithout
  <2>1. d # c /\ d \in Creds \ C!Unused /\ cred'[d] = cred[d]
    BY <1>3, <1>4, <1>5
  <2>2. cred[d].revoked > 0 \/ \E e \in Creds \ C!Unused : cred[e].from = d
    BY <2>1 DEF CredentialsInv, C!NeverWithout
  <2>3. \A e \in Creds \ C!Unused : e \in Creds \ C!Unused' /\ cred'[e] = cred[e]
    BY <1>4, <1>5
  <2> QED BY <2>1, <2>2, <2>3
<1>10. C!HeirsExplained'
  <2> SUFFICES ASSUME NEW d \in Creds \ C!Unused',
                      cred'[d].rotated > 1 \/ (cred'[d].rotated > 0 /\ cred'[d].revoked > 0)
               PROVE  \E s \in Requests : asked'[s].cred = d /\ asked'[s].stale
    BY DEF C!HeirsExplained
  <2>1. d # c /\ d \in Creds \ C!Unused /\ cred'[d] = cred[d]
    BY <1>3, <1>4, <1>5
  <2>2. PICK s \in Requests : asked[s].cred = d /\ asked[s].stale
    BY <2>1 DEF CredentialsInv, C!HeirsExplained
  <2> QED BY <1>7, <2>2
<1>11. HolderKnows'
  <2> SUFFICES ASSUME NEW s \in Requests
               PROVE  /\ asked'[s].pc = "new" => asked'[s].cred = None
                      /\ asked'[s].pc \in {"revoke", "rotate"} =>
                           /\ asked'[s].cred \in Creds \ C!Unused'
                           /\ \/ asked'[s].stale
                              \/ /\ cred'[asked'[s].cred].revoked = 0
                                 /\ cred'[asked'[s].cred].rotated = 0
    BY DEF HolderKnows
  <2>1. CASE s = r
    BY <1>7, <2>1
  <2>2. CASE s # r
    <3>1. asked'[s] = asked[s]
      BY <1>7, <2>2
    <3>2. asked[s].pc \in {"revoke", "rotate"} =>
            asked[s].cred \in Creds \ C!Unused /\ asked[s].cred # c
      BY <1>2 DEF CredentialsInv, HolderKnows, C!Unused
    <3> QED BY <1>4, <1>5, <3>1, <3>2 DEF CredentialsInv, HolderKnows
  <2> QED BY <2>1, <2>2
<1> QED BY <1>8, <1>9, <1>10, <1>11 DEF CredentialsInv

(* A request spends the credential it holds: it revokes it, or issues its  *)
(* successors.                                                             *)
LEMMA SpendInv ==
  ASSUME CredentialsInv, NEW r \in Requests, asked[r].pc \in {"revoke", "rotate"},
         C!EndOn(r, asked[r].cred),
         NEW one \in C!CredType, ~one.active, one.from = cred[asked[r].cred].from,
         one.revoked >= cred[asked[r].cred].revoked,
         one.rotated >= cred[asked[r].cred].rotated,
         one.rotated > 1 \/ (one.rotated > 0 /\ one.revoked > 0) =>
           cred[asked[r].cred].rotated > 0 \/ cred[asked[r].cred].revoked > 0,
         NEW heirs \in SUBSET C!Unused, one.revoked > 0 \/ heirs # {},
         cred' \in [Creds -> C!CredType \cup {None}], cred'[asked[r].cred] = one,
         \A d \in Creds : d \notin heirs \cup {asked[r].cred} => cred'[d] = cred[d],
         \A d \in heirs : /\ cred'[d] # None /\ cred'[d].active /\ cred'[d].from = asked[r].cred
                          /\ cred'[d].revoked = 0 /\ cred'[d].rotated = 0
  PROVE  CredentialsInv'
<1> DEFINE c == asked[r].cred
<1>1. /\ c \in Creds \ C!Unused /\ cred[c] # None /\ cred[c] \in C!CredType
      /\ c \notin heirs
      /\ asked[r].stale \/ (cred[c].revoked = 0 /\ cred[c].rotated = 0)
  BY DEF CredentialsInv, HolderKnows, C!Unused, C!TypeOK
<1>2. /\ one # None /\ one.revoked \in Nat /\ one.rotated \in Nat
      /\ cred[c].revoked \in Nat /\ cred[c].rotated \in Nat
  BY <1>1, AgentsMCAssumption DEF C!CredType, C!CredentialsAssumption
<1>3. /\ asked' \in [Requests -> C!ReqType] /\ asked'[r].pc = "done"
      /\ asked'[r].cred = asked[r].cred /\ asked'[r].stale = asked[r].stale
      /\ \A s \in Requests \ {r} :
           /\ asked'[s].pc = asked[s].pc /\ asked'[s].cred = asked[s].cred
           /\ asked[s].stale => asked'[s].stale
           /\ asked[s].cred = c /\ asked[s].pc # "done" => asked'[s].stale
  BY <1>1, EndsOn
<1>4. cred'[c] = one /\ \A d \in Creds : d \notin heirs \cup {c} => cred'[d] = cred[d]
  OBVIOUS
<1>5. C!Unused' = C!Unused \ heirs
  BY <1>1, <1>2, <1>4 DEF C!Unused
<1> HIDE DEF c
<1>6. C!TypeOK'
  BY <1>3 DEF C!TypeOK
<1>7. C!NeverWithout'
  <2> SUFFICES ASSUME NEW d \in Creds \ C!Unused', ~cred'[d].active
               PROVE  cred'[d].revoked > 0 \/ \E e \in Creds \ C!Unused' : cred'[e].from = d
    BY DEF C!NeverWithout
  <2>1. CASE d = c
    <3>1. CASE one.revoked > 0
      BY <1>4, <2>1, <3>1
    <3>2. CASE heirs # {}
      BY <1>5, <2>1, <3>2 DEF c, C!Unused
    <3> QED BY <3>1, <3>2
  <2>2. CASE d # c
    <3>1. d \in Creds \ C!Unused /\ cred'[d] = cred[d]
      BY <1>4, <1>5, <2>2
    <3>2. cred[d].revoked > 0 \/ \E e \in Creds \ C!Unused : cred[e].from = d
      BY <3>1 DEF CredentialsInv, C!NeverWithout
    <3>3. \A e \in Creds \ C!Unused : e \in Creds \ C!Unused' /\ cred'[e].from = cred[e].from
      BY <1>4, <1>5 DEF c
    <3> QED BY <3>1, <3>2, <3>3
  <2> QED BY <2>1, <2>2
<1>8. C!HeirsExplained'
  <2> SUFFICES ASSUME NEW d \in Creds \ C!Unused',
                      cred'[d].rotated > 1 \/ (cred'[d].rotated > 0 /\ cred'[d].revoked > 0)
               PROVE  \E s \in Requests : asked'[s].cred = d /\ asked'[s].stale
    BY DEF C!HeirsExplained
  <2>1. CASE d = c
    <3>1. cred[c].rotated > 0 \/ cred[c].revoked > 0
      BY <1>4, <2>1 DEF c
    <3>2. asked[r].stale
      BY <1>1, <1>2, <3>1
    <3> QED BY <1>3, <2>1, <3>2 DEF c
  <2>2. CASE d # c
    <3>1. d \in Creds \ C!Unused /\ cred'[d] = cred[d]
      BY <1>4, <1>5, <2>2
    <3>2. PICK s \in Requests : asked[s].cred = d /\ asked[s].stale
      BY <3>1 DEF CredentialsInv, C!HeirsExplained
    <3> QED BY <1>3, <3>2
  <2> QED BY <2>1, <2>2
<1>9. ActiveUnspent'
  <2> SUFFICES ASSUME NEW d \in Creds \ C!Unused', cred'[d].active
               PROVE  cred'[d].revoked = 0 /\ cred'[d].rotated = 0
    BY DEF ActiveUnspent
  <2>1. CASE d \in heirs
    BY <2>1
  <2>2. CASE d \notin heirs
    <3>1. d \in Creds \ C!Unused /\ cred'[d] = cred[d]
      BY <1>4, <1>5, <2>2
    <3> QED BY <3>1 DEF CredentialsInv, ActiveUnspent
  <2> QED BY <2>1, <2>2
<1>10. HolderKnows'
  <2> SUFFICES ASSUME NEW s \in Requests
               PROVE  /\ asked'[s].pc = "new" => asked'[s].cred = None
                      /\ asked'[s].pc \in {"revoke", "rotate"} =>
                           /\ asked'[s].cred \in Creds \ C!Unused'
                           /\ \/ asked'[s].stale
                              \/ /\ cred'[asked'[s].cred].revoked = 0
                                 /\ cred'[asked'[s].cred].rotated = 0
    BY DEF HolderKnows
  <2>1. CASE s = r
    BY <1>3, <2>1
  <2>2. CASE s # r
    <3>1. /\ asked'[s].pc = asked[s].pc /\ asked'[s].cred = asked[s].cred
          /\ asked[s].stale => asked'[s].stale
          /\ asked[s].cred = c /\ asked[s].pc # "done" => asked'[s].stale
      BY <1>3, <2>2
    <3>2. /\ asked[s].pc = "new" => asked[s].cred = None
          /\ asked[s].pc \in {"revoke", "rotate"} =>
               /\ asked[s].cred \in Creds \ C!Unused
               /\ \/ asked[s].stale
                  \/ cred[asked[s].cred].revoked = 0 /\ cred[asked[s].cred].rotated = 0
      BY DEF CredentialsInv, HolderKnows
    <3>3. ASSUME asked[s].pc \in {"revoke", "rotate"}, ~asked'[s].stale
          PROVE  /\ asked[s].cred \in Creds \ C!Unused'
                 /\ cred'[asked[s].cred].revoked = 0 /\ cred'[asked[s].cred].rotated = 0
      <4>1. asked[s].cred # c /\ asked[s].cred \in Creds \ C!Unused
        BY <3>1, <3>2, <3>3
      <4>2. cred'[asked[s].cred] = cred[asked[s].cred]
        BY <1>4, <4>1
      <4> QED BY <1>5, <3>1, <3>2, <3>3, <4>1, <4>2
    <3>4. asked[s].pc \in {"revoke", "rotate"} => asked[s].cred \in Creds \ C!Unused'
      BY <1>5, <3>2
    <3> QED BY <3>1, <3>2, <3>3, <3>4
  <2> QED BY <2>1, <2>2
<1> QED BY <1>6, <1>7, <1>8, <1>9, <1>10 DEF CredentialsInv

(* Every step of a request keeps it.                                       *)
LEMMA CredentialsStep == CredentialsInv /\ C!Next => CredentialsInv'
<1> SUFFICES ASSUME CredentialsInv, NEW r \in Requests,
                    \/ \E k \in C!Kinds : C!Issue(r, k)
                    \/ \E c \in Creds : \/ C!RevokeRead(r, c)
                                        \/ \E a \in C!Kinds \cup {"other"} : C!RotateRead(r, c, a)
                    \/ C!RevokeCommit(r) \/ C!RotateCommit(r) \/ C!Fail(r)
             PROVE  CredentialsInv'
  BY DEF C!Next
<1> DEFINE c == asked[r].cred
<1>1. \/ C!Fail(r)
      \/ \E d \in Creds : \/ C!RevokeRead(r, d)
                          \/ \E a \in C!Kinds \cup {"other"} : C!RotateRead(r, d, a)
      => CredentialsInv'
  BY CredsStay DEF C!RevokeRead, C!RotateRead
<1>2. ASSUME asked[r].pc \in {"revoke", "rotate"}
      PROVE  /\ c \in Creds /\ c \notin C!Unused /\ cred[c] \in C!CredType
             /\ cred \in [Creds -> C!CredType \cup {None}]
             /\ cred[c].revoked \in Nat /\ cred[c].rotated \in Nat
             /\ cred[c].revoked + 1 \in Nat /\ cred[c].rotated + 1 \in Nat
  BY <1>2 DEF CredentialsInv, HolderKnows, C!TypeOK, C!Unused, C!CredType
<1>3. CASE C!RevokeCommit(r)
  <2> DEFINE n == cred[c].revoked + 1
             one == [cred[c] EXCEPT !.active = FALSE, !.revoked = n]
  <2>1. asked[r].pc = "revoke" /\ C!EndOn(r, c)
    BY <1>3 DEF C!RevokeCommit
  <2>2. cred' = [cred EXCEPT ![c] = one]
    BY <1>2, <1>3, <2>1 DEF C!RevokeCommit
  <2>3. n \in Nat /\ n > 0 /\ n >= cred[c].revoked /\ cred[c].revoked \in Nat /\ cred[c].rotated \in Nat
    BY <1>2, <2>1
  <2>4. n > 0 => one.revoked > 0
    BY <1>2, <2>1 DEF C!CredType
  <2> HIDE DEF n
  <2>5. /\ one \in C!CredType /\ ~one.active /\ one.from = cred[c].from
        /\ one.revoked = n /\ one.rotated = cred[c].rotated
    BY <1>2, <2>1, <2>3 DEF C!CredType
  <2> HIDE DEF one
  <2>6. /\ cred' \in [Creds -> C!CredType \cup {None}] /\ cred'[c] = one
        /\ \A d \in Creds : d \notin {} \cup {c} => cred'[d] = cred[d]
    BY <1>2, <2>1, <2>2, <2>5
  <2>7. one.revoked >= cred[c].revoked /\ one.rotated >= cred[c].rotated
    BY <2>3, <2>5
  <2>8. one.rotated > 1 \/ (one.rotated > 0 /\ one.revoked > 0)
        => cred[c].rotated > 0 \/ cred[c].revoked > 0
    BY <2>3, <2>5
  <2>9. /\ one.revoked > 0 /\ {} \in SUBSET C!Unused
        /\ \A e \in {} : /\ cred'[e] # None /\ cred'[e].active /\ cred'[e].from = c
                        /\ cred'[e].revoked = 0 /\ cred'[e].rotated = 0
    BY <2>3, <2>5
  <2> QED BY <2>1, <2>5, <2>6, <2>7, <2>8, <2>9, SpendInv
<1>4. CASE C!RotateCommit(r)
  <2> DEFINE n == cred[c].rotated + 1
             one == [cred[c] EXCEPT !.active = FALSE, !.rotated = n]
             heir == C!Successor(asked[r])
  <2>1. asked[r].pc = "rotate" /\ C!EndOn(r, c) /\ asked[r].asked \in C!Kinds
    BY <1>4 DEF C!RotateCommit
  <2>2. PICK d \in C!Unused :
          cred' = [cred EXCEPT ![d] = heir, ![c].active = FALSE, ![c].rotated = @ + 1]
    BY <1>4 DEF C!RotateCommit
  <2>3. d \in Creds /\ d # c
    BY <1>2, <2>1 DEF C!Unused
  <2>4. /\ heir \in C!CredType /\ heir # None /\ heir.active /\ heir.from = c
        /\ heir.revoked = 0 /\ heir.rotated = 0
    <3> DEFINE kind == IF asked[r].asked = "api_key" THEN cred[c].kind ELSE asked[r].asked
    <3>1. kind \in C!Kinds
      BY <1>2, <2>1 DEF C!CredType
    <3> HIDE DEF kind
    <3>2. heir = C!Issued(kind, c)
      BY DEF C!Successor, kind
    <3> QED BY <1>2, <2>1, <3>1, <3>2, IssuedCred
  <2> HIDE DEF heir
  <2>5. n \in Nat /\ n > 0 /\ n >= cred[c].rotated /\ cred[c].revoked \in Nat /\ cred[c].rotated \in Nat
    BY <1>2, <2>1
  <2>6. cred' = [cred EXCEPT ![d] = heir, ![c] = one]
    BY <1>2, <2>1, <2>2, <2>3
  <2>9. n > 1 => cred[c].rotated > 0
    BY <2>5
  <2> HIDE DEF n
  <2>7. /\ one \in C!CredType /\ ~one.active /\ one.from = cred[c].from
        /\ one.revoked = cred[c].revoked /\ one.rotated = n
    BY <1>2, <2>1, <2>5 DEF C!CredType
  <2> HIDE DEF one
  <2>8. /\ cred' \in [Creds -> C!CredType \cup {None}] /\ cred'[c] = one /\ cred'[d] = heir
        /\ \A e \in Creds : e \notin {d} \cup {c} => cred'[e] = cred[e]
    BY <1>2, <2>1, <2>3, <2>4, <2>6, <2>7
  <2>10. one.revoked >= cred[c].revoked /\ one.rotated >= cred[c].rotated
    BY <2>5, <2>7
  <2>11. one.rotated > 1 \/ (one.rotated > 0 /\ one.revoked > 0)
         => cred[c].rotated > 0 \/ cred[c].revoked > 0
    BY <2>5, <2>7, <2>9
  <2>12. {d} \in SUBSET C!Unused /\ {d} # {}
    OBVIOUS
  <2>13. \A e \in {d} : /\ cred'[e] # None /\ cred'[e].active /\ cred'[e].from = c
                        /\ cred'[e].revoked = 0 /\ cred'[e].rotated = 0
    BY <2>4, <2>8
  <2> QED BY <2>1, <2>7, <2>8, <2>10, <2>11, <2>12, <2>13, SpendInv
<1> QED BY <1>1, <1>3, <1>4, IssueInv

-----------------------------------------------------------------------------
(* The registry. No other request is about the same row.                   *)
OnlyOneOn(c) == \A d \in Calls \ {c} : handler[d].of # handler[c].of

(* No other request replaces the scopes of the same role.                  *)
OnlyReplace(c) ==
  \A d \in Calls \ {c} : ~(handler[d].pc = "replace" /\ handler[d].of = handler[c].of)

(* What a request about a role knows: one that creates it is alone on an   *)
(* identifier that was not used, one that replaces its scopes and met no   *)
(* other has read what is stored, unless the role was deleted.             *)
RoleRequestHolds(c) ==
  /\ handler[c].pc \in {"create_role", "replace", "delete_role"} => handler[c].of \in RoleIds
  /\ handler[c].pc = "create_role" =>
       /\ ~role[handler[c].of].used /\ OnlyOneOn(c)
       /\ handler[c].new[1] \in R!RoleType
       /\ handler[c].new[1].there /\ handler[c].new[1].used
  /\ handler[c].pc = "replace" =>
       /\ handler[c].new[1] \in R!RoleType
       /\ handler[c].alone =>
            role[handler[c].of].scopes \subseteq handler[c].read /\ OnlyReplace(c)

(* What a request about an assignment knows: one that makes it is alone on *)
(* an identifier that was not used, and its agent is there; the others     *)
(* have added or removed it.                                               *)
AsgRequestHolds(c) ==
  /\ handler[c].pc \in {"assign", "added", "remove", "removed"} => handler[c].of \in Asgs
  /\ handler[c].pc = "assign" =>
       /\ ~asg[handler[c].of].used /\ OnlyOneOn(c)
       /\ handler[c].new[1] \in R!AsgType
       /\ handler[c].new[1].there /\ handler[c].new[1].used
       /\ handler[c].new[1].agent \in Listed /\ entry[handler[c].new[1].agent] # None
  /\ handler[c].pc = "added" =>
       \E k \in DOMAIN trail : trail[k] = R!Event("agent.assigned", handler[c].of)
  /\ handler[c].pc \in {"remove", "removed"} => asg[handler[c].of].used
  /\ handler[c].pc = "removed" => ~asg[handler[c].of].there

(* Rows that are there were created; what is announced as removed was      *)
(* there; the scopes of a role that was not created are nobody's.          *)
RowsUsed ==
  /\ \A r \in RoleIds : /\ role[r].there => role[r].used
                        /\ ~role[r].used => stands[r] = {}
  /\ \A i \in Asgs : asg[i].there => asg[i].used /\ asg[i].agent \in Listed
  /\ \A h \in hooks : h.what = "assignment_removed" => h.of \in Asgs /\ asg[h.of].used

(* What holds of the registry.                                             *)
RegistryInv ==
  /\ R!TypeOK /\ RowsUsed
  /\ R!Grounded /\ R!TrailTells /\ R!HooksAreTrue /\ R!LoneReplaceStands
  /\ \A c \in Calls : RoleRequestHolds(c) /\ AsgRequestHolds(c)

(* The audit log with one more event.                                      *)
LEMMA AppendEvent ==
  ASSUME trail \in Seq(R!EventType), NEW e \in R!EventType, trail' = Append(trail, e)
  PROVE  /\ trail' \in Seq(R!EventType)
         /\ \A k \in DOMAIN trail : k \in DOMAIN trail' /\ trail'[k] = trail[k]
         /\ \E k \in DOMAIN trail' : trail'[k] = e
         /\ \A x : x # e.of =>
              /\ (\E k \in DOMAIN trail' : trail'[k].of = x) <=> (\E k \in DOMAIN trail : trail[k].of = x)
              /\ \A w : R!LastAbout(x, w)' <=> R!LastAbout(x, w)
         /\ \A w : R!LastAbout(e.of, w)' <=> w = e.what
<1> DEFINE n == Len(trail)
<1>1. /\ n \in Nat /\ DOMAIN trail = 1 .. n /\ DOMAIN trail' = 1 .. (n + 1)
      /\ trail' \in Seq(R!EventType) /\ trail'[n + 1] = e
      /\ \A k \in 1 .. n : trail'[k] = trail[k]
  BY AppendProperties, LenProperties
<1> HIDE DEF n
<1>2. n + 1 \in 1 .. (n + 1) /\ \A k \in 1 .. (n + 1) : k \in 1 .. n \/ k = n + 1
  BY <1>1
<1>3. \A k \in 1 .. n : k \in 1 .. (n + 1) /\ k <= n + 1 /\ ~(n + 1 <= k)
  BY <1>1
<1>4. ASSUME NEW x, x # e.of
      PROVE  (\E k \in DOMAIN trail' : trail'[k].of = x) <=> (\E k \in DOMAIN trail : trail[k].of = x)
  BY <1>1, <1>2, <1>3, <1>4
<1>5. ASSUME NEW x, x # e.of, NEW w
      PROVE  R!LastAbout(x, w)' <=> R!LastAbout(x, w)
  <2>1. R!Event(w, x).of = x
    BY DEF R!Event
  <2>2. ASSUME NEW k \in 1 .. n
        PROVE  (\A m \in 1 .. n : trail[m].of = x => m <= k)
               <=> (\A m \in 1 .. (n + 1) : trail'[m].of = x => m <= k)
    BY <1>1, <1>2, <1>3, <1>5
  <2>3. R!LastAbout(x, w) <=> \E k \in 1 .. n : /\ trail[k] = R!Event(w, x)
                                                /\ \A m \in 1 .. n : trail[m].of = x => m <= k
    BY <1>1 DEF R!LastAbout
  <2>4. R!LastAbout(x, w)' <=>
          \E k \in 1 .. (n + 1) : /\ trail'[k] = R!Event(w, x)
                                  /\ \A m \in 1 .. (n + 1) : trail'[m].of = x => m <= k
    BY <1>1 DEF R!LastAbout, R!Event
  <2>5. trail'[n + 1] # R!Event(w, x)
    BY <1>1, <1>5, <2>1
  <2> QED BY <1>1, <1>2, <1>3, <2>2, <2>3, <2>4, <2>5
<1>6. ASSUME NEW w PROVE R!LastAbout(e.of, w)' <=> w = e.what
  <2>1. R!LastAbout(e.of, w)' <=>
          \E k \in 1 .. (n + 1) : /\ trail'[k] = R!Event(w, e.of)
                                  /\ \A m \in 1 .. (n + 1) : trail'[m].of = e.of => m <= k
    BY <1>1 DEF R!LastAbout, R!Event
  <2>2. e = R!Event(e.what, e.of)
    BY DEF R!EventType, R!Event
  <2>3. R!Event(w, e.of).what = w
    BY DEF R!Event
  <2>4. ASSUME NEW k \in 1 .. (n + 1), \A m \in 1 .. (n + 1) : trail'[m].of = e.of => m <= k
        PROVE  k = n + 1
    BY <1>1, <1>2, <1>3, <2>4
  <2>5. \A m \in 1 .. (n + 1) : m <= n + 1
    BY <1>1
  <2>6. ASSUME w = e.what PROVE R!LastAbout(e.of, w)'
    BY <1>1, <1>2, <2>1, <2>2, <2>5, <2>6
  <2>7. ASSUME R!LastAbout(e.of, w)' PROVE w = e.what
    BY <1>1, <2>1, <2>3, <2>4, <2>7
  <2> QED BY <2>6, <2>7
<1> QED BY <1>1, <1>2, <1>3, <1>4, <1>5, <1>6

(* No request and no row.                                                  *)
LEMMA NothingYet ==
  /\ R!Idle \in R!CallType /\ R!Idle.pc = "idle" /\ R!Idle.of = None
  /\ R!NoRole \in R!RoleType /\ ~R!NoRole.there /\ ~R!NoRole.used /\ R!NoRole.scopes = {}
  /\ R!NoAsg \in R!AsgType /\ ~R!NoAsg.there /\ ~R!NoAsg.used
<1>1. <<>> \in Seq(R!RoleType \cup R!AsgType)
  OBVIOUS
<1> QED BY <1>1 DEF R!Idle, R!CallType, R!NoRole, R!RoleType, R!NoAsg, R!AsgType

(* Initially nothing is registered.                                        *)
LEMMA RegistryInit == R!Init => RegistryInv
<1> SUFFICES ASSUME R!Init PROVE RegistryInv
  OBVIOUS
<1>1. /\ trail \in Seq(R!EventType) /\ DOMAIN trail = {}
  BY DEF R!Init
<1>2. ops \in 0 .. MaxOps
  BY AgentsMCAssumption DEF R!Init, R!RegistryAssumption
<1>3. /\ \A a \in Listed : entry[a] = None
      /\ \A r \in RoleIds : role[r] = R!NoRole /\ stands[r] = {}
      /\ \A i \in Asgs : asg[i] = R!NoAsg
      /\ \A c \in Calls : handler[c] = R!Idle
      /\ hooks = {} /\ silent = {}
  BY DEF R!Init
<1>4. R!TypeOK
  <2>1. /\ entry \in [Listed -> Slugs \cup {None}] /\ role \in [RoleIds -> R!RoleType]
        /\ asg \in [Asgs -> R!AsgType] /\ handler \in [Calls -> R!CallType]
        /\ stands \in [RoleIds -> SUBSET SUBSET Scopes]
    BY NothingYet DEF R!Init
  <2> QED BY <1>1, <1>2, <1>3, <2>1, NothingYet DEF R!TypeOK
<1>5. RowsUsed /\ R!Grounded /\ R!HooksAreTrue /\ R!LoneReplaceStands
  BY <1>3, NothingYet DEF RowsUsed, R!Grounded, R!HooksAreTrue, R!LoneReplaceStands
<1>6. R!TrailTells
  BY <1>1, <1>3, NothingYet DEF R!TrailTells, R!LastAbout
<1>7. \A c \in Calls : RoleRequestHolds(c) /\ AsgRequestHolds(c)
  BY <1>3, NothingYet DEF RoleRequestHolds, AsgRequestHolds
<1> QED BY <1>4, <1>5, <1>6, <1>7 DEF RegistryInv

(* What the other requests know stays true when request c takes a step     *)
(* that leaves their rows alone.                                           *)
LEMMA OthersHold ==
  ASSUME RegistryInv, NEW c \in Calls, NEW d \in Calls \ {c},
         \A e \in Calls \ {c} :
           /\ handler'[e].pc = handler[e].pc /\ handler'[e].of = handler[e].of
           /\ handler'[e].read = handler[e].read /\ handler'[e].new = handler[e].new
           /\ handler'[e].alone => handler[e].alone,
         handler[d].pc \in {"create_role", "assign"} => handler'[c].of # handler[d].of,
         handler[d].pc = "replace" /\ handler'[d].alone =>
           /\ role'[handler[d].of].scopes \subseteq role[handler[d].of].scopes
           /\ ~(handler'[c].pc = "replace" /\ handler'[c].of = handler[d].of),
         \A r \in RoleIds : r = handler[d].of => role'[r].used = role[r].used,
         \A i \in Asgs : i = handler[d].of =>
           asg'[i].used = asg[i].used /\ (asg'[i].there => asg[i].there),
         \A a \in Listed : entry[a] # None => entry'[a] # None,
         \A k \in DOMAIN trail : k \in DOMAIN trail' /\ trail'[k] = trail[k]
  PROVE  RoleRequestHolds(d)' /\ AsgRequestHolds(d)'
<1>1. RoleRequestHolds(d) /\ AsgRequestHolds(d)
  BY DEF RegistryInv
<1>2. /\ handler'[d].pc = handler[d].pc /\ handler'[d].of = handler[d].of
      /\ handler'[d].read = handler[d].read /\ handler'[d].new = handler[d].new
      /\ handler'[d].alone => handler[d].alone
  OBVIOUS
<1>3. ASSUME OnlyOneOn(d), handler'[c].of # handler[d].of PROVE OnlyOneOn(d)'
  BY <1>2, <1>3 DEF OnlyOneOn
<1>4. ASSUME OnlyReplace(d), ~(handler'[c].pc = "replace" /\ handler'[c].of = handler[d].of)
      PROVE  OnlyReplace(d)'
  BY <1>2, <1>4 DEF OnlyReplace
<1>5. RoleRequestHolds(d)'
  BY <1>1, <1>2, <1>3, <1>4 DEF RoleRequestHolds
<1>6. AsgRequestHolds(d)'
  <2>1. /\ handler[d].pc \in {"assign", "added", "remove", "removed"} => handler[d].of \in Asgs
        /\ handler[d].pc = "assign" =>
             /\ ~asg'[handler[d].of].used
             /\ handler[d].new[1] \in R!AsgType
             /\ handler[d].new[1].there /\ handler[d].new[1].used
             /\ handler[d].new[1].agent \in Listed /\ entry'[handler[d].new[1].agent] # None
        /\ handler[d].pc \in {"remove", "removed"} => asg'[handler[d].of].used
        /\ handler[d].pc = "removed" => ~asg'[handler[d].of].there
    BY <1>1 DEF AsgRequestHolds
  <2>2. handler[d].pc = "assign" => OnlyOneOn(d)'
    BY <1>1, <1>3 DEF AsgRequestHolds
  <2>3. handler[d].pc = "added" =>
          \E k \in DOMAIN trail' : trail'[k] = R!Event("agent.assigned", handler'[d].of)
    BY <1>1, <1>2 DEF AsgRequestHolds
  <2> QED BY <1>2, <2>1, <2>2, <2>3 DEF AsgRequestHolds, R!Event
<1> QED BY <1>5, <1>6

(* A request begins.                                                       *)
LEMMA RequestBegun ==
  ASSUME R!TypeOK, NEW c \in Calls, NEW of \in RoleIds \cup Asgs \cup {None},
         NEW pc \in {"create_role", "replace", "delete_role", "assign", "remove"},
         NEW new \in Seq(R!RoleType \cup R!AsgType), NEW mcp \in BOOLEAN,
         R!Begin(c, pc, of, {}, new, mcp)
  PROVE  /\ handler' \in [Calls -> R!CallType] /\ ops' \in 0 .. MaxOps
         /\ handler[c].pc = "idle" /\ handler'[c].pc = pc /\ handler'[c].of = of
         /\ handler'[c].new = new
         /\ \A d \in Calls \ {c} : handler'[d] = handler[d]
<1>1. ops' \in 0 .. MaxOps
  BY AgentsMCAssumption DEF R!Begin, R!TypeOK, R!RegistryAssumption
<1> DEFINE m == [pc |-> pc, of |-> of, read |-> {}, new |-> new, mcp |-> mcp, alone |-> TRUE]
<1>2. m \in R!CallType /\ m.pc = pc /\ m.of = of /\ m.new = new
  BY DEF R!CallType
<1>3. handler' = [handler EXCEPT ![c] = m] /\ handler[c].pc = "idle"
  BY DEF R!Begin
<1> HIDE DEF m
<1>4. handler \in [Calls -> R!CallType]
  BY DEF R!TypeOK
<1> QED BY <1>1, <1>2, <1>3, <1>4

(* A request ends, and nobody else notices.                                *)
LEMMA RequestDone ==
  ASSUME RegistryInv, NEW c \in Calls, R!Done(c)
  PROVE  /\ handler' \in [Calls -> R!CallType] /\ handler'[c] = R!Idle
         /\ \A d \in Calls \ {c} : handler'[d] = handler[d]
         /\ RoleRequestHolds(c)' /\ AsgRequestHolds(c)'
<1>1. handler \in [Calls -> R!CallType]
  BY DEF RegistryInv, R!TypeOK
<1>2. /\ handler' \in [Calls -> R!CallType] /\ handler'[c] = R!Idle
      /\ \A d \in Calls \ {c} : handler'[d] = handler[d]
  BY <1>1, NothingYet DEF R!Done
<1> QED BY <1>2, NothingYet DEF RoleRequestHolds, AsgRequestHolds

(* The assignments that are there stay told: the audit log only grows, and *)
(* a new one that no import has made is in it.                             *)
Assignments(log, rows, unheard) ==
  \A i \in Asgs \ unheard : rows[i].there => \E k \in DOMAIN log : log[k] = R!Event("agent.assigned", i)

LEMMA AssignmentsTold ==
  ASSUME RegistryInv, silent \subseteq silent',
         \A i \in Asgs \ silent' : asg'[i].there => asg[i].there,
         \A k \in DOMAIN trail : k \in DOMAIN trail' /\ trail'[k] = trail[k]
  PROVE  Assignments(trail', asg', silent')
<1> SUFFICES ASSUME NEW i \in Asgs \ silent', asg'[i].there
             PROVE  \E k \in DOMAIN trail' : trail'[k] = R!Event("agent.assigned", i)
  BY DEF Assignments
<1>1. PICK k \in DOMAIN trail : trail[k] = R!Event("agent.assigned", i)
  BY DEF RegistryInv, R!TrailTells
<1> QED BY <1>1

(* Of the rows and what the audit log says of them, a step that leaves     *)
(* them alone changes nothing.                                             *)
LEMMA RowsStay ==
  ASSUME RegistryInv, entry' = entry, role' = role, asg' = asg, trail' = trail,
         silent' = silent, stands' = stands
  PROVE  R!Grounded' /\ R!TrailTells' /\ R!LoneReplaceStands' /\ (hooks' = hooks => R!HooksAreTrue' /\ RowsUsed')
<1> USE DEF RegistryInv
<1>1. R!Grounded'
  BY DEF R!Grounded
<1>2. R!TrailTells'
  <2>1. \A x, w : R!LastAbout(x, w)' <=> R!LastAbout(x, w)
    BY DEF R!LastAbout, R!Event
  <2> QED BY <2>1 DEF R!TrailTells, R!Event
<1>3. R!LoneReplaceStands'
  BY DEF R!LoneReplaceStands
<1>4. ASSUME hooks' = hooks PROVE R!HooksAreTrue' /\ RowsUsed'
  BY <1>4 DEF R!HooksAreTrue, RowsUsed, R!Event
<1> QED BY <1>1, <1>2, <1>3, <1>4

(* A request that reads, or stops, leaves the registry as it is.           *)
LEMMA ReadingStep ==
  ASSUME RegistryInv, NEW c \in Calls,
         UNCHANGED <<entry, role, asg, trail, hooks, silent, stands>>,
         handler' \in [Calls -> R!CallType], ops' \in 0 .. MaxOps,
         \A d \in Calls \ {c} : handler'[d] = handler[d],
         \A d \in Calls \ {c} :
           handler[d].pc \in {"create_role", "assign"} => handler'[c].of # handler[d].of,
         handler'[c].pc # "replace",
         RoleRequestHolds(c)' /\ AsgRequestHolds(c)'
  PROVE  RegistryInv'
<1>1. R!Grounded' /\ R!TrailTells' /\ R!LoneReplaceStands' /\ R!HooksAreTrue' /\ RowsUsed'
  BY RowsStay
<1>2. R!TypeOK'
  BY DEF RegistryInv, R!TypeOK
<1>3. ASSUME NEW d \in Calls \ {c} PROVE RoleRequestHolds(d)' /\ AsgRequestHolds(d)'
  <2>1. \A e \in Calls \ {c} :
          /\ handler'[e].pc = handler[e].pc /\ handler'[e].of = handler[e].of
          /\ handler'[e].read = handler[e].read /\ handler'[e].new = handler[e].new
          /\ handler'[e].alone => handler[e].alone
    OBVIOUS
  <2>2. handler[d].pc \in {"create_role", "assign"} => handler'[c].of # handler[d].of
    OBVIOUS
  <2>3. handler[d].pc = "replace" /\ handler'[d].alone =>
          /\ role'[handler[d].of].scopes \subseteq role[handler[d].of].scopes
          /\ ~(handler'[c].pc = "replace" /\ handler'[c].of = handler[d].of)
    OBVIOUS
  <2>4. \A r \in RoleIds : r = handler[d].of => role'[r].used = role[r].used
    OBVIOUS
  <2>5. \A i \in Asgs : i = handler[d].of =>
          asg'[i].used = asg[i].used /\ (asg'[i].there => asg[i].there)
    OBVIOUS
  <2>6. \A a \in Listed : entry[a] # None => entry'[a] # None
    OBVIOUS
  <2>7. \A k \in DOMAIN trail : k \in DOMAIN trail' /\ trail'[k] = trail[k]
    OBVIOUS
  <2> QED BY <2>1, <2>2, <2>3, <2>4, <2>5, <2>6, <2>7, OthersHold
<1>4. \A d \in Calls : RoleRequestHolds(d)' /\ AsgRequestHolds(d)'
  BY <1>3
<1> QED BY <1>1, <1>2, <1>4 DEF RegistryInv

(* What a request is about, where it matters, is a role or an assignment.  *)
LEMMA Subjects ==
  ASSUME RegistryInv, NEW c \in Calls
  PROVE  /\ handler[c].pc \in {"create_role", "replace", "delete_role"} => handler[c].of \in RoleIds
         /\ handler[c].pc \in {"assign", "added", "remove", "removed"} => handler[c].of \in Asgs
         /\ handler[c].pc # "idle" => handler[c].of # None
         /\ None \notin RoleIds \cup Asgs \cup Listed
         /\ RoleIds \cap Asgs = {} /\ Listed \cap RoleIds = {} /\ Listed \cap Asgs = {}
<1>1. RoleRequestHolds(c) /\ AsgRequestHolds(c)
  BY DEF RegistryInv
<1>2. /\ None \notin RoleIds \cup Asgs \cup Listed
      /\ RoleIds \cap Asgs = {} /\ Listed \cap RoleIds = {} /\ Listed \cap Asgs = {}
  BY AgentsMCAssumption DEF R!RegistryAssumption
<1>3. handler[c] \in R!CallType
  BY DEF RegistryInv, R!TypeOK
<1>4. handler[c].pc \in {"idle", "create_role", "replace", "delete_role", "assign", "added", "remove", "removed"}
  BY <1>3 DEF R!CallType
<1> QED BY <1>1, <1>2, <1>4 DEF RoleRequestHolds, AsgRequestHolds

(* A handler ends with nothing written.                                    *)
LEMMA RegistryFail ==
  ASSUME RegistryInv, NEW c \in Calls, R!Fail(c) PROVE RegistryInv'
<1>1. R!Done(c) /\ UNCHANGED <<entry, role, asg, trail, hooks, silent, stands>> /\ ops' = ops
  BY DEF R!Fail
<1>2. /\ handler' \in [Calls -> R!CallType] /\ handler'[c] = R!Idle
      /\ \A d \in Calls \ {c} : handler'[d] = handler[d]
      /\ RoleRequestHolds(c)' /\ AsgRequestHolds(c)'
  BY <1>1, RequestDone
<1>3. \A d \in Calls \ {c} :
        handler[d].pc \in {"create_role", "assign"} => handler'[c].of # handler[d].of
  BY <1>2, Subjects, NothingYet
<1>4. handler'[c].pc # "replace"
  BY <1>2, NothingYet
<1>5. ops' \in 0 .. MaxOps
  BY <1>1 DEF RegistryInv, R!TypeOK
<1> QED BY <1>1, <1>2, <1>3, <1>4, <1>5, ReadingStep

(* A role is to be created under a slug that is free.                      *)
LEMMA RegistryRoleLook ==
  ASSUME RegistryInv, NEW c \in Calls, NEW r \in RoleIds, NEW s \in Slugs,
         NEW ps \in SUBSET Scopes, R!CreateRoleLook(c, r, s, ps)
  PROVE  RegistryInv'
<1> DEFINE new == R!NewRole(s, ps)
<1>1. new \in R!RoleType /\ new.there /\ new.used
  BY DEF R!NewRole, R!RoleType
<1>2. /\ R!Begin(c, "create_role", r, {}, <<new>>, FALSE)
      /\ UNCHANGED <<entry, role, asg, trail, hooks, silent, stands>>
      /\ ~role[r].used /\ \A d \in Calls : handler[d].of # r
  BY DEF R!CreateRoleLook
<1> HIDE DEF new
<1>3. <<new>> \in Seq(R!RoleType \cup R!AsgType) /\ <<new>>[1] = new
  BY <1>1
<1>4. /\ handler' \in [Calls -> R!CallType] /\ ops' \in 0 .. MaxOps
      /\ handler[c].pc = "idle" /\ handler'[c].pc = "create_role" /\ handler'[c].of = r
      /\ handler'[c].new = <<new>>
      /\ \A d \in Calls \ {c} : handler'[d] = handler[d]
  <2>1. R!TypeOK /\ r \in RoleIds \cup Asgs \cup {None} /\ FALSE \in BOOLEAN
    BY DEF RegistryInv
  <2>2. "create_role" \in {"create_role", "replace", "delete_role", "assign", "remove"}
    OBVIOUS
  <2> QED BY <1>2, <1>3, <2>1, <2>2, RequestBegun
<1>5. OnlyOneOn(c)'
  BY <1>2, <1>4 DEF OnlyOneOn
<1>6. RoleRequestHolds(c)' /\ AsgRequestHolds(c)'
  BY <1>1, <1>2, <1>3, <1>4, <1>5 DEF RoleRequestHolds, AsgRequestHolds
<1>7. \A d \in Calls \ {c} :
        handler[d].pc \in {"create_role", "assign"} => handler'[c].of # handler[d].of
  BY <1>2, <1>4
<1> QED BY <1>2, <1>4, <1>6, <1>7, ReadingStep

(* A role that is there is to be deleted.                                  *)
LEMMA RegistryDeleteRead ==
  ASSUME RegistryInv, NEW c \in Calls, NEW r \in RoleIds, NEW mcp \in BOOLEAN,
         R!DeleteRoleRead(c, r, mcp)
  PROVE  RegistryInv'
<1>1. /\ R!Begin(c, "delete_role", r, {}, <<>>, mcp)
      /\ UNCHANGED <<entry, role, asg, trail, hooks, silent, stands>>
      /\ role[r].used
  BY DEF R!DeleteRoleRead, RegistryInv, RowsUsed
<1>2. <<>> \in Seq(R!RoleType \cup R!AsgType)
  OBVIOUS
<1>3. /\ handler' \in [Calls -> R!CallType] /\ ops' \in 0 .. MaxOps
      /\ handler[c].pc = "idle" /\ handler'[c].pc = "delete_role" /\ handler'[c].of = r
      /\ \A d \in Calls \ {c} : handler'[d] = handler[d]
  <2>1. R!TypeOK /\ r \in RoleIds \cup Asgs \cup {None}
    BY DEF RegistryInv
  <2>2. "delete_role" \in {"create_role", "replace", "delete_role", "assign", "remove"}
    OBVIOUS
  <2>3. CASE mcp = TRUE
    BY <1>1, <1>2, <2>1, <2>2, <2>3, RequestBegun
  <2>4. CASE mcp = FALSE
    BY <1>1, <1>2, <2>1, <2>2, <2>4, RequestBegun
  <2> QED BY <2>3, <2>4
<1>4. RoleRequestHolds(c)' /\ AsgRequestHolds(c)'
  BY <1>3 DEF RoleRequestHolds, AsgRequestHolds
<1>5. ASSUME NEW d \in Calls \ {c}, handler[d].pc \in {"create_role", "assign"}
      PROVE  handler'[c].of # handler[d].of
  <2>1. handler[d].pc = "create_role" => ~role[handler[d].of].used
    BY DEF RegistryInv, RoleRequestHolds
  <2>2. handler[d].pc = "assign" => handler[d].of \in Asgs
    BY Subjects
  <2> QED BY <1>1, <1>3, <1>5, <2>1, <2>2, Subjects
<1> QED BY <1>1, <1>3, <1>4, <1>5, ReadingStep

(* An agent that is there is to be assigned.                               *)
LEMMA RegistryAssignRead ==
  ASSUME RegistryInv, NEW c \in Calls, NEW i \in Asgs, NEW a \in Listed, NEW u \in Users,
         NEW r \in RoleIds \cup {None}, R!AssignRead(c, i, a, u, r)
  PROVE  RegistryInv'
<1> DEFINE new == R!Assigned(a, u, r)
<1>1. new \in R!AsgType /\ new.there /\ new.used /\ new.agent = a
  BY DEF R!Assigned, R!AsgType
<1>2. /\ R!Begin(c, "assign", i, {}, <<new>>, FALSE)
      /\ UNCHANGED <<entry, role, asg, trail, hooks, silent, stands>>
      /\ ~asg[i].used /\ entry[a] # None /\ \A d \in Calls : handler[d].of # i
  BY DEF R!AssignRead
<1> HIDE DEF new
<1>3. <<new>> \in Seq(R!RoleType \cup R!AsgType) /\ <<new>>[1] = new
  BY <1>1
<1>4. /\ handler' \in [Calls -> R!CallType] /\ ops' \in 0 .. MaxOps
      /\ handler[c].pc = "idle" /\ handler'[c].pc = "assign" /\ handler'[c].of = i
      /\ handler'[c].new = <<new>>
      /\ \A d \in Calls \ {c} : handler'[d] = handler[d]
  <2>1. R!TypeOK /\ i \in RoleIds \cup Asgs \cup {None} /\ FALSE \in BOOLEAN
    BY DEF RegistryInv
  <2>2. "assign" \in {"create_role", "replace", "delete_role", "assign", "remove"}
    OBVIOUS
  <2> QED BY <1>2, <1>3, <2>1, <2>2, RequestBegun
<1>5. OnlyOneOn(c)'
  BY <1>2, <1>4 DEF OnlyOneOn
<1>6. RoleRequestHolds(c)' /\ AsgRequestHolds(c)'
  BY <1>1, <1>2, <1>3, <1>4, <1>5 DEF RoleRequestHolds, AsgRequestHolds
<1>7. \A d \in Calls \ {c} :
        handler[d].pc \in {"create_role", "assign"} => handler'[c].of # handler[d].of
  BY <1>2, <1>4
<1> QED BY <1>2, <1>4, <1>6, <1>7, ReadingStep

(* An assignment that is there is to be removed.                           *)
LEMMA RegistryRemoveRead ==
  ASSUME RegistryInv, NEW c \in Calls, NEW i \in Asgs, R!RemoveRead(c, i)
  PROVE  RegistryInv'
<1>1. /\ R!Begin(c, "remove", i, {}, <<>>, FALSE)
      /\ UNCHANGED <<entry, role, asg, trail, hooks, silent, stands>>
      /\ asg[i].used
  BY DEF R!RemoveRead, RegistryInv, RowsUsed
<1>2. <<>> \in Seq(R!RoleType \cup R!AsgType)
  OBVIOUS
<1>3. /\ handler' \in [Calls -> R!CallType] /\ ops' \in 0 .. MaxOps
      /\ handler[c].pc = "idle" /\ handler'[c].pc = "remove" /\ handler'[c].of = i
      /\ \A d \in Calls \ {c} : handler'[d] = handler[d]
  <2>1. R!TypeOK /\ i \in RoleIds \cup Asgs \cup {None} /\ FALSE \in BOOLEAN
    BY DEF RegistryInv
  <2>2. "remove" \in {"create_role", "replace", "delete_role", "assign", "remove"}
    OBVIOUS
  <2> QED BY <1>1, <1>2, <2>1, <2>2, RequestBegun
<1>4. RoleRequestHolds(c)' /\ AsgRequestHolds(c)'
  BY <1>1, <1>3 DEF RoleRequestHolds, AsgRequestHolds
<1>5. ASSUME NEW d \in Calls \ {c}, handler[d].pc \in {"create_role", "assign"}
      PROVE  handler'[c].of # handler[d].of
  <2>1. handler[d].pc = "assign" => ~asg[handler[d].of].used
    BY DEF RegistryInv, AsgRequestHolds
  <2>2. handler[d].pc = "create_role" => handler[d].of \in RoleIds
    BY Subjects
  <2> QED BY <1>1, <1>3, <1>5, <2>1, <2>2, Subjects
<1> QED BY <1>1, <1>3, <1>4, <1>5, ReadingStep

(* What the requests know stays true when none of them moves, and no role  *)
(* they are about is changed, nor whether their assignments are there.     *)
LEMMA AllHold ==
  ASSUME RegistryInv, handler' = handler,
         \A d \in Calls : \A r \in RoleIds : r = handler[d].of => role'[r] = role[r],
         \A d \in Calls : \A i \in Asgs : i = handler[d].of =>
           asg'[i].used = asg[i].used /\ asg'[i].there = asg[i].there,
         \A a \in Listed : entry[a] # None => entry'[a] # None,
         \A k \in DOMAIN trail : k \in DOMAIN trail' /\ trail'[k] = trail[k]
  PROVE  \A d \in Calls : RoleRequestHolds(d)' /\ AsgRequestHolds(d)'
<1> SUFFICES ASSUME NEW d \in Calls PROVE RoleRequestHolds(d)' /\ AsgRequestHolds(d)'
  OBVIOUS
<1>1. RoleRequestHolds(d) /\ AsgRequestHolds(d)
  BY DEF RegistryInv
<1>2. OnlyOneOn(d)' = OnlyOneOn(d) /\ OnlyReplace(d)' = OnlyReplace(d)
  BY DEF OnlyOneOn, OnlyReplace
<1>3. RoleRequestHolds(d)'
  BY <1>1, <1>2 DEF RoleRequestHolds
<1>4. AsgRequestHolds(d)'
  <2>1. handler[d].pc = "added" =>
          \E k \in DOMAIN trail' : trail'[k] = R!Event("agent.assigned", handler[d].of)
    BY <1>1 DEF AsgRequestHolds
  <2>2. handler[d].pc = "assign" =>
          handler[d].new[1].agent \in Listed /\ entry'[handler[d].new[1].agent] # None
    BY <1>1 DEF AsgRequestHolds
  <2> QED BY <1>1, <1>2, <2>1, <2>2 DEF AsgRequestHolds, R!Event
<1> QED BY <1>3, <1>4

(* What the webhooks have announced stays true when the audit log only     *)
(* grows and no assignment that was used comes back.                       *)
LEMMA HooksStay ==
  ASSUME RegistryInv, hooks' = hooks,
         \A i \in Asgs : asg[i].used => asg'[i].used /\ (asg'[i].there => asg[i].there),
         \A k \in DOMAIN trail : k \in DOMAIN trail' /\ trail'[k] = trail[k]
  PROVE  /\ R!HooksAreTrue'
         /\ \A h \in hooks' : h.what = "assignment_removed" => h.of \in Asgs /\ asg'[h.of].used
<1>1. \A h \in hooks : h.what = "assignment_removed" =>
        h.of \in Asgs /\ asg[h.of].used /\ ~asg[h.of].there
  BY DEF RegistryInv, RowsUsed, R!HooksAreTrue
<1>2. \A h \in hooks : h.what = "assignment_added" =>
        \E k \in DOMAIN trail : trail[k] = R!Event("agent.assigned", h.of)
  BY DEF RegistryInv, R!HooksAreTrue
<1>3. \A h \in hooks : h.what = "assignment_added" =>
        \E k \in DOMAIN trail' : trail'[k] = R!Event("agent.assigned", h.of)
  BY <1>2
<1> QED BY <1>1, <1>3 DEF R!HooksAreTrue, R!Event

(* An agent is created.                                                    *)
LEMMA RegistryAgent ==
  ASSUME RegistryInv, NEW a \in Listed, NEW s \in Slugs,
         R!CreateAgent(a, s) \/ R!CreateAgentMcp(a, s)
  PROVE  RegistryInv'
<1> DEFINE e == R!Event("agent.created", a)
<1>1. e \in R!EventType /\ e.of = a
  BY DEF R!Event, R!EventType
<1> HIDE DEF e
<1>2. /\ entry' = [entry EXCEPT ![a] = s] /\ ops' = ops + 1 /\ ops < MaxOps
      /\ UNCHANGED <<role, asg, hooks, handler, stands>>
      /\ \/ trail' = Append(trail, e) /\ silent' = silent
         \/ trail' = trail /\ silent' = silent \cup {a}
  BY DEF R!CreateAgent, R!CreateAgentMcp, e
<1>3. /\ entry \in [Listed -> Slugs \cup {None}] /\ trail \in Seq(R!EventType)
      /\ silent \subseteq Listed \cup RoleIds \cup Asgs /\ ops \in 0 .. MaxOps
  BY DEF RegistryInv, R!TypeOK
<1>4. /\ None \notin Slugs /\ MaxOps \in Nat /\ \A r \in RoleIds : r # a
  BY AgentsMCAssumption DEF R!RegistryAssumption
<1>5. /\ trail' \in Seq(R!EventType)
      /\ \A k \in DOMAIN trail : k \in DOMAIN trail' /\ trail'[k] = trail[k]
      /\ \A x : x # a =>
           /\ (\E k \in DOMAIN trail' : trail'[k].of = x) <=> (\E k \in DOMAIN trail : trail[k].of = x)
           /\ \A w : R!LastAbout(x, w)' <=> R!LastAbout(x, w)
  <2>1. CASE trail' = Append(trail, e)
    BY <1>1, <1>3, <2>1, AppendEvent
  <2>2. CASE trail' = trail
    BY <1>3, <2>2 DEF R!LastAbout, R!Event
  <2> QED BY <1>2, <2>1, <2>2
<1>6. a \notin silent' => \E k \in DOMAIN trail' : trail'[k].of = a
  BY <1>1, <1>2, <1>3, AppendEvent
<1>7. /\ entry' \in [Listed -> Slugs \cup {None}] /\ entry'[a] # None
      /\ \A b \in Listed : b # a => entry'[b] = entry[b]
  BY <1>2, <1>3, <1>4
<1>8. R!TypeOK'
  <2>1. ops' \in 0 .. MaxOps
    BY <1>2, <1>3, <1>4
  <2>2. silent' \subseteq Listed \cup RoleIds \cup Asgs
    BY <1>2, <1>3
  <2> QED BY <1>2, <1>5, <1>7, <2>1, <2>2 DEF RegistryInv, R!TypeOK
<1>9. R!Grounded' /\ R!LoneReplaceStands'
  <2>1. R!LoneReplaceStands'
    BY <1>2 DEF RegistryInv, R!LoneReplaceStands
  <2>2. \A i \in Asgs : asg[i].there => asg[i].agent \in Listed /\ entry'[asg[i].agent] # None
    BY <1>7 DEF RegistryInv, RowsUsed, R!Grounded
  <2> QED BY <1>2, <2>1, <2>2 DEF RegistryInv, R!Grounded
<1>10. R!TrailTells'
  <2>1. \A b \in Listed \ silent' : entry'[b] # None <=> \E k \in DOMAIN trail' : trail'[k].of = b
    BY <1>2, <1>5, <1>6, <1>7 DEF RegistryInv, R!TrailTells
  <2>2. \A r \in RoleIds \ silent' : role'[r].there <=> R!LastAbout(r, "role.created")'
    BY <1>2, <1>4, <1>5 DEF RegistryInv, R!TrailTells
  <2>3. Assignments(trail', asg', silent')
    BY <1>2, <1>5, AssignmentsTold
  <2> QED BY <2>1, <2>2, <2>3 DEF R!TrailTells, Assignments, R!Event
<1>11. R!HooksAreTrue' /\ RowsUsed'
  <2>1. \A i \in Asgs : asg[i].used => asg'[i].used /\ (asg'[i].there => asg[i].there)
    BY <1>2
  <2>2. hooks' = hooks
    BY <1>2
  <2>3. \A k \in DOMAIN trail : k \in DOMAIN trail' /\ trail'[k] = trail[k]
    BY <1>5
  <2>4. R!HooksAreTrue'
    BY <2>1, <2>2, <2>3, HooksStay
  <2> QED BY <1>2, <2>4 DEF RegistryInv, RowsUsed
<1>12. \A d \in Calls : RoleRequestHolds(d)' /\ AsgRequestHolds(d)'
  <2>1. \A d \in Calls : \A r \in RoleIds : r = handler[d].of => role'[r] = role[r]
    BY <1>2
  <2>2. \A b \in Listed : entry[b] # None => entry'[b] # None
    BY <1>7
  <2>3. \A k \in DOMAIN trail : k \in DOMAIN trail' /\ trail'[k] = trail[k]
    BY <1>5
  <2>4. /\ handler' = handler
        /\ \A d \in Calls : \A i \in Asgs : i = handler[d].of =>
             asg'[i].used = asg[i].used /\ asg'[i].there = asg[i].there
    BY <1>2
  <2> QED BY <2>1, <2>2, <2>3, <2>4, AllHold
<1> QED BY <1>8, <1>9, <1>10, <1>11, <1>12 DEF RegistryInv

(* An identity is imported from Okta, and the chain does not tell of it.   *)
LEMMA RegistryImport ==
  ASSUME RegistryInv, NEW a \in Listed, NEW s \in Slugs, NEW i \in Asgs, NEW u \in Users,
         NEW r \in RoleIds \cup {None}, R!Import(a, s, i, u, r)
  PROVE  RegistryInv'
<1> DEFINE new == R!Assigned(a, u, r)
<1>1. /\ new \in R!AsgType /\ new.there /\ new.used /\ new.agent = a /\ new.role = r
  BY DEF R!Assigned, R!AsgType
<1>2. /\ entry' = [entry EXCEPT ![a] = IF @ = None THEN s ELSE @] /\ ops' = ops + 1 /\ ops < MaxOps
      /\ UNCHANGED <<role, trail, hooks, handler, stands>>
      /\ asg' = IF r = None THEN asg ELSE [asg EXCEPT ![i] = new]
      /\ silent \subseteq silent' /\ silent' \subseteq silent \cup {a, i}
      /\ entry[a] = None => a \in silent'
      /\ r # None => i \in silent'
  BY DEF R!Import
<1>3. r # None =>
        /\ role[r].there
        /\ \/ ~asg[i].used /\ \A d \in Calls : handler[d].of # i
           \/ asg[i].there
  BY DEF R!Import, R!OfPair
<1> HIDE DEF new
<1>4. /\ entry \in [Listed -> Slugs \cup {None}] /\ asg \in [Asgs -> R!AsgType]
      /\ silent \subseteq Listed \cup RoleIds \cup Asgs /\ ops \in 0 .. MaxOps
  BY DEF RegistryInv, R!TypeOK
<1>5. /\ None \notin Slugs /\ MaxOps \in Nat /\ a \notin RoleIds /\ a \notin Asgs
      /\ i \notin RoleIds /\ i \notin Listed
  BY AgentsMCAssumption DEF R!RegistryAssumption
<1>6. /\ entry' \in [Listed -> Slugs \cup {None}] /\ entry'[a] # None
      /\ \A b \in Listed : entry[b] # None => entry'[b] # None
      /\ \A b \in Listed \ silent' : entry'[b] = entry[b]
  BY <1>2, <1>4, <1>5
<1>7. /\ asg' \in [Asgs -> R!AsgType]
      /\ r # None => asg'[i] = new
      /\ \A j \in Asgs : asg'[j] = asg[j] \/ (j = i /\ r # None)
  BY <1>1, <1>2, <1>4
<1>8. R!TypeOK'
  <2>1. ops' \in 0 .. MaxOps /\ silent' \subseteq Listed \cup RoleIds \cup Asgs
    BY <1>2, <1>4, <1>5
  <2> QED BY <1>2, <1>6, <1>7, <2>1 DEF RegistryInv, R!TypeOK
<1>9. R!Grounded' /\ R!LoneReplaceStands'
  <2>1. R!LoneReplaceStands'
    BY <1>2 DEF RegistryInv, R!LoneReplaceStands
  <2>2. ASSUME NEW j \in Asgs, asg'[j].there
        PROVE  entry'[asg'[j].agent] # None /\ (asg'[j].role # None => role'[asg'[j].role].there)
    <3>1. CASE asg'[j] = asg[j]
      <4>1. asg[j].agent \in Listed /\ entry[asg[j].agent] # None
        BY <2>2, <3>1 DEF RegistryInv, RowsUsed, R!Grounded
      <4> QED BY <1>2, <1>6, <2>2, <3>1, <4>1 DEF RegistryInv, R!Grounded
    <3>2. CASE j = i /\ r # None
      BY <1>1, <1>2, <1>3, <1>6, <1>7, <3>2
    <3> QED BY <1>7, <3>1, <3>2
  <2> QED BY <2>1, <2>2 DEF R!Grounded
<1>10. R!TrailTells'
  <2>1. \A x, w : R!LastAbout(x, w)' <=> R!LastAbout(x, w)
    BY <1>2 DEF R!LastAbout, R!Event
  <2>2. \A b \in Listed \ silent' : entry'[b] # None <=> \E k \in DOMAIN trail' : trail'[k].of = b
    BY <1>2, <1>6 DEF RegistryInv, R!TrailTells
  <2>3. \A q \in RoleIds \ silent' : role'[q].there <=> R!LastAbout(q, "role.created")'
    BY <1>2, <2>1 DEF RegistryInv, R!TrailTells
  <2>4. Assignments(trail', asg', silent')
    BY <1>2, <1>7, AssignmentsTold
  <2> QED BY <2>2, <2>3, <2>4 DEF R!TrailTells, Assignments, R!Event
<1>11. \A j \in Asgs : asg[j].used => asg'[j].used /\ (asg'[j].there => asg[j].there)
  <2>1. \A j \in Asgs : asg[j].there => asg[j].used
    BY DEF RegistryInv, RowsUsed
  <2> QED BY <1>1, <1>3, <1>7, <2>1
<1>12. R!HooksAreTrue' /\ RowsUsed'
  <2>1. /\ R!HooksAreTrue'
        /\ \A h \in hooks' : h.what = "assignment_removed" => h.of \in Asgs /\ asg'[h.of].used
    BY <1>2, <1>11, HooksStay
  <2>2. \A j \in Asgs : asg'[j].there => asg'[j].used /\ asg'[j].agent \in Listed
    BY <1>1, <1>7 DEF RegistryInv, RowsUsed
  <2>3. \A q \in RoleIds : (role'[q].there => role'[q].used) /\ (~role'[q].used => stands'[q] = {})
    BY <1>2 DEF RegistryInv, RowsUsed
  <2> QED BY <2>1, <2>2, <2>3 DEF RowsUsed
<1>13. \A d \in Calls : RoleRequestHolds(d)' /\ AsgRequestHolds(d)'
  <2>1. \A d \in Calls : \A q \in RoleIds : q = handler[d].of => role'[q] = role[q]
    BY <1>2
  <2>2. \A d \in Calls : \A j \in Asgs : j = handler[d].of =>
          asg'[j].used = asg[j].used /\ asg'[j].there = asg[j].there
    <3>1. \A j \in Asgs : asg[j].there => asg[j].used
      BY DEF RegistryInv, RowsUsed
    <3>2. asg[i].used \in BOOLEAN /\ asg[i].there \in BOOLEAN /\ new.used \in BOOLEAN /\ new.there \in BOOLEAN
      BY <1>1, <1>4 DEF R!AsgType
    <3> QED BY <1>1, <1>3, <1>7, <3>1, <3>2
  <2> QED BY <1>2, <1>6, <2>1, <2>2, AllHold
<1> QED BY <1>8, <1>9, <1>10, <1>12, <1>13 DEF RegistryInv

(* A role that was not used is stored, with an event or silently.          *)
LEMMA RoleStored ==
  ASSUME RegistryInv, NEW r \in RoleIds, NEW new \in R!RoleType, new.there, new.used,
         ~role[r].used, ~R!RoleSlugTaken(new.slug), role' = [role EXCEPT ![r] = new],
         UNCHANGED <<entry, asg, hooks, stands>>,
         \/ trail' = Append(trail, R!Event("role.created", r)) /\ silent' = silent
         \/ trail' = trail /\ silent' = silent \cup {r},
         handler' \in [Calls -> R!CallType], ops' \in 0 .. MaxOps
  PROVE  /\ R!TypeOK' /\ RowsUsed' /\ R!Grounded' /\ R!TrailTells' /\ R!HooksAreTrue'
         /\ R!LoneReplaceStands'
         /\ \A q \in RoleIds : q # r => role'[q] = role[q]
         /\ \A k \in DOMAIN trail : k \in DOMAIN trail' /\ trail'[k] = trail[k]
<1> DEFINE e == R!Event("role.created", r)
<1>1. e \in R!EventType /\ e.of = r /\ e.what = "role.created"
  BY DEF R!Event, R!EventType
<1>2. /\ role \in [RoleIds -> R!RoleType] /\ trail \in Seq(R!EventType)
      /\ silent \subseteq Listed \cup RoleIds \cup Asgs
  BY DEF RegistryInv, R!TypeOK
<1>3. \A b \in Listed : b # r
  BY AgentsMCAssumption DEF R!RegistryAssumption
<1>4. trail' = Append(trail, e) \/ (trail' = trail /\ r \in silent')
  OBVIOUS
<1> HIDE DEF e
<1>5. /\ trail' \in Seq(R!EventType)
      /\ \A k \in DOMAIN trail : k \in DOMAIN trail' /\ trail'[k] = trail[k]
      /\ \A x : x # r =>
           /\ (\E k \in DOMAIN trail' : trail'[k].of = x) <=> (\E k \in DOMAIN trail : trail[k].of = x)
           /\ \A w : R!LastAbout(x, w)' <=> R!LastAbout(x, w)
  <2>1. CASE trail' = Append(trail, e)
    BY <1>1, <1>2, <2>1, AppendEvent
  <2>2. CASE trail' = trail
    BY <1>2, <2>2 DEF R!LastAbout, R!Event
  <2> QED BY <1>4, <2>1, <2>2
<1>6. r \notin silent' => R!LastAbout(r, "role.created")'
  BY <1>1, <1>2, <1>4, AppendEvent
<1>7. /\ role' \in [RoleIds -> R!RoleType] /\ role'[r] = new
      /\ \A q \in RoleIds : q # r => role'[q] = role[q]
  BY <1>2
<1>8. R!TypeOK'
  <2>1. silent' \subseteq Listed \cup RoleIds \cup Asgs
    BY <1>2
  <2>2. \A q, s \in RoleIds :
          role'[q].there /\ role'[s].there /\ role'[q].slug = role'[s].slug => q = s
    <3>1. \A q \in RoleIds : role[q].there => role[q].slug # new.slug
      BY DEF R!RoleSlugTaken
    <3>2. \A q, s \in RoleIds :
            role[q].there /\ role[s].there /\ role[q].slug = role[s].slug => q = s
      BY DEF RegistryInv, R!TypeOK
    <3> QED BY <1>7, <3>1, <3>2
  <2>3. /\ entry' \in [Listed -> Slugs \cup {None}] /\ asg' \in [Asgs -> R!AsgType]
        /\ hooks' \subseteq R!EventType /\ stands' \in [RoleIds -> SUBSET SUBSET Scopes]
    BY DEF RegistryInv, R!TypeOK
  <2> QED BY <1>5, <1>7, <2>1, <2>2, <2>3 DEF R!TypeOK
<1>9. stands[r] = {}
  BY DEF RegistryInv, RowsUsed
<1>10. R!LoneReplaceStands'
  BY <1>7, <1>9 DEF RegistryInv, R!LoneReplaceStands
<1>11. R!Grounded'
  <2>1. asg \in [Asgs -> R!AsgType]
    BY DEF RegistryInv, R!TypeOK
  <2>2. \A i \in Asgs : asg[i].role \in RoleIds \cup {None}
    BY <2>1 DEF R!AsgType
  <2>3. \A i \in Asgs : asg[i].there /\ asg[i].role # None => role'[asg[i].role].there
    BY <1>7, <2>2 DEF RegistryInv, R!Grounded
  <2> QED BY <2>3 DEF RegistryInv, R!Grounded
<1>12. R!TrailTells'
  <2>1. \A b \in Listed \ silent' : entry'[b] # None <=> \E k \in DOMAIN trail' : trail'[k].of = b
    BY <1>3, <1>5 DEF RegistryInv, R!TrailTells
  <2>2. \A q \in RoleIds \ silent' : role'[q].there <=> R!LastAbout(q, "role.created")'
    BY <1>5, <1>6, <1>7 DEF RegistryInv, R!TrailTells
  <2>3. Assignments(trail', asg', silent')
    BY <1>5, AssignmentsTold
  <2> QED BY <2>1, <2>2, <2>3 DEF R!TrailTells, Assignments, R!Event
<1>13. R!HooksAreTrue'
  <2>1. \A i \in Asgs : asg[i].used => asg'[i].used /\ (asg'[i].there => asg[i].there)
    OBVIOUS
  <2>2. hooks' = hooks
    OBVIOUS
  <2> QED BY <1>5, <2>1, <2>2, HooksStay
<1>14. RowsUsed'
  <2>1. \A q \in RoleIds : (role'[q].there => role'[q].used) /\ (~role'[q].used => stands'[q] = {})
    BY <1>7 DEF RegistryInv, RowsUsed
  <2> QED BY <2>1 DEF RegistryInv, RowsUsed
<1> QED BY <1>5, <1>7, <1>8, <1>10, <1>11, <1>12, <1>13, <1>14

(* A request of its own identifier takes a step: the others know what they *)
(* knew.                                                                   *)
LEMMA OwnStep ==
  ASSUME RegistryInv, NEW c \in Calls, OnlyOneOn(c), handler[c].of # None,
         \A d \in Calls \ {c} : handler'[d] = handler[d],
         handler'[c].of \in {None, handler[c].of}, handler'[c].pc # "replace",
         \A r \in RoleIds : r # handler[c].of => role'[r] = role[r],
         \A i \in Asgs : i # handler[c].of => asg'[i] = asg[i],
         entry' = entry,
         \A k \in DOMAIN trail : k \in DOMAIN trail' /\ trail'[k] = trail[k],
         RoleRequestHolds(c)' /\ AsgRequestHolds(c)'
  PROVE  \A d \in Calls : RoleRequestHolds(d)' /\ AsgRequestHolds(d)'
<1>1. ASSUME NEW d \in Calls \ {c} PROVE RoleRequestHolds(d)' /\ AsgRequestHolds(d)'
  <2>0. handler[d].of # handler[c].of
    BY DEF OnlyOneOn
  <2>1. \A e \in Calls \ {c} :
          /\ handler'[e].pc = handler[e].pc /\ handler'[e].of = handler[e].of
          /\ handler'[e].read = handler[e].read /\ handler'[e].new = handler[e].new
          /\ handler'[e].alone => handler[e].alone
    OBVIOUS
  <2>2. handler[d].pc \in {"create_role", "assign"} => handler'[c].of # handler[d].of
    BY <2>0, Subjects
  <2>3. handler[d].pc = "replace" /\ handler'[d].alone =>
          /\ role'[handler[d].of].scopes \subseteq role[handler[d].of].scopes
          /\ ~(handler'[c].pc = "replace" /\ handler'[c].of = handler[d].of)
    BY <2>0, Subjects
  <2>4. \A r \in RoleIds : r = handler[d].of => role'[r].used = role[r].used
    BY <2>0
  <2>5. \A i \in Asgs : i = handler[d].of =>
          asg'[i].used = asg[i].used /\ (asg'[i].there => asg[i].there)
    BY <2>0
  <2>6. \A a \in Listed : entry[a] # None => entry'[a] # None
    OBVIOUS
  <2>7. \A k \in DOMAIN trail : k \in DOMAIN trail' /\ trail'[k] = trail[k]
    OBVIOUS
  <2> QED BY <2>1, <2>2, <2>3, <2>4, <2>5, <2>6, <2>7, OthersHold
<1> QED BY <1>1

(* The role is created, and the chain tells of it.                         *)
LEMMA RegistryRoleWrite ==
  ASSUME RegistryInv, NEW c \in Calls, R!CreateRoleWrite(c) PROVE RegistryInv'
<1> DEFINE r == handler[c].of
           new == handler[c].new[1]
<1>1. /\ r \in RoleIds /\ ~role[r].used /\ OnlyOneOn(c) /\ new \in R!RoleType
      /\ new.there /\ new.used /\ r # None
  BY Subjects DEF RegistryInv, RoleRequestHolds, R!CreateRoleWrite
<1>2. CASE R!RoleSlugTaken(new.slug)
  <2>1. R!Fail(c)
    BY <1>2 DEF R!CreateRoleWrite, R!Fail
  <2> QED BY <2>1, RegistryFail
<1>3. CASE ~R!RoleSlugTaken(new.slug)
  <2>1. /\ role' = [role EXCEPT ![r] = new] /\ UNCHANGED <<entry, asg, hooks, stands>>
        /\ trail' = Append(trail, R!Event("role.created", r)) /\ silent' = silent
        /\ R!Done(c) /\ ops' = ops
    BY <1>3 DEF R!CreateRoleWrite
  <2>2. /\ handler' \in [Calls -> R!CallType] /\ handler'[c] = R!Idle
        /\ \A d \in Calls \ {c} : handler'[d] = handler[d]
        /\ RoleRequestHolds(c)' /\ AsgRequestHolds(c)'
    BY <2>1, RequestDone
  <2>3. ops' \in 0 .. MaxOps
    BY <2>1 DEF RegistryInv, R!TypeOK
  <2> HIDE DEF new
  <2>4. /\ R!TypeOK' /\ RowsUsed' /\ R!Grounded' /\ R!TrailTells' /\ R!HooksAreTrue'
        /\ R!LoneReplaceStands'
        /\ \A q \in RoleIds : q # r => role'[q] = role[q]
        /\ \A k \in DOMAIN trail : k \in DOMAIN trail' /\ trail'[k] = trail[k]
    BY <1>1, <1>3, <2>1, <2>2, <2>3, RoleStored
  <2>5. handler'[c].of \in {None, handler[c].of} /\ handler'[c].pc # "replace"
    BY <2>2, NothingYet
  <2>6. \A i \in Asgs : i # handler[c].of => asg'[i] = asg[i]
    BY <2>1
  <2>7. \A d \in Calls : RoleRequestHolds(d)' /\ AsgRequestHolds(d)'
    BY <1>1, <2>1, <2>2, <2>4, <2>5, <2>6, OwnStep
  <2> QED BY <2>4, <2>7 DEF RegistryInv
<1> QED BY <1>2, <1>3

(* The MCP server creates a role, and tells nobody.                        *)
LEMMA RegistryRoleMcp ==
  ASSUME RegistryInv, NEW r \in RoleIds, NEW s \in Slugs, NEW ps \in SUBSET Scopes,
         R!CreateRoleMcp(r, s, ps)
  PROVE  RegistryInv'
<1> DEFINE new == R!NewRole(s, ps)
<1>1. new \in R!RoleType /\ new.there /\ new.used /\ new.slug = s
  BY DEF R!NewRole, R!RoleType
<1>2. /\ role' = [role EXCEPT ![r] = new] /\ UNCHANGED <<entry, asg, hooks, stands>>
      /\ trail' = trail /\ silent' = silent \cup {r} /\ handler' = handler
      /\ ops' = ops + 1 /\ ops < MaxOps
      /\ ~role[r].used /\ ~R!RoleSlugTaken(s) /\ \A d \in Calls : handler[d].of # r
  BY DEF R!CreateRoleMcp
<1> HIDE DEF new
<1>3. handler' \in [Calls -> R!CallType] /\ ops' \in 0 .. MaxOps
  BY <1>2, AgentsMCAssumption DEF RegistryInv, R!TypeOK, R!RegistryAssumption
<1>4. ~R!RoleSlugTaken(new.slug)
  BY <1>1, <1>2
<1>5. /\ R!TypeOK' /\ RowsUsed' /\ R!Grounded' /\ R!TrailTells' /\ R!HooksAreTrue'
      /\ R!LoneReplaceStands'
      /\ \A q \in RoleIds : q # r => role'[q] = role[q]
      /\ \A k \in DOMAIN trail : k \in DOMAIN trail' /\ trail'[k] = trail[k]
  BY <1>1, <1>2, <1>3, <1>4, RoleStored
<1>6. \A d \in Calls : \A q \in RoleIds : q = handler[d].of => role'[q] = role[q]
  BY <1>2, <1>5
<1>7. \A a \in Listed : entry[a] # None => entry'[a] # None
  BY <1>2
<1>8. \A d \in Calls : RoleRequestHolds(d)' /\ AsgRequestHolds(d)'
  <2>1. \A d \in Calls : \A i \in Asgs : i = handler[d].of =>
          asg'[i].used = asg[i].used /\ asg'[i].there = asg[i].there
    BY <1>2
  <2> QED BY <1>2, <1>5, <1>6, <1>7, <2>1, AllHold
<1> QED BY <1>5, <1>8 DEF RegistryInv

(* A replacement of scopes reads what it will delete, and meets the others.*)
LEMMA RegistryReplaceRead ==
  ASSUME RegistryInv, NEW c \in Calls, NEW r \in RoleIds, NEW ps \in SUBSET Scopes,
         R!ReplaceRead(c, r, ps)
  PROVE  RegistryInv'
<1> DEFINE new == [R!NoRole EXCEPT !.scopes = ps]
           alone == \A d \in Calls \ {c} : ~(handler[d].pc = "replace" /\ handler[d].of = r)
           m == [pc |-> "replace", of |-> r, read |-> role[r].scopes, new |-> <<new>>,
                 mcp |-> TRUE, alone |-> alone]
<1>1. new \in R!RoleType
  BY NothingYet DEF R!RoleType
<1>2. /\ handler' = [d \in Calls |-> IF d = c THEN m
                                     ELSE IF handler[d].of = r THEN [handler[d] EXCEPT !.alone = FALSE]
                                     ELSE handler[d]]
      /\ stands' = [stands EXCEPT ![r] = {}]
      /\ UNCHANGED <<entry, role, asg, trail, hooks, silent>>
      /\ ops' = ops + 1 /\ ops < MaxOps /\ role[r].there
  BY DEF R!ReplaceRead
<1>3. /\ role \in [RoleIds -> R!RoleType] /\ handler \in [Calls -> R!CallType]
      /\ stands \in [RoleIds -> SUBSET SUBSET Scopes]
  BY DEF RegistryInv, R!TypeOK
<1>4. role[r].scopes \in SUBSET Scopes
  BY <1>3 DEF R!RoleType
<1>5. <<new>> \in Seq(R!RoleType \cup R!AsgType) /\ <<new>>[1] = new
  BY <1>1
<1> HIDE DEF new
<1>6. alone \in BOOLEAN
  OBVIOUS
<1> HIDE DEF alone
<1>7. m \in R!CallType /\ m.pc = "replace" /\ m.of = r /\ m.read = role[r].scopes
      /\ m.new = <<new>> /\ m.alone = alone
  BY <1>4, <1>5, <1>6 DEF R!CallType
<1> HIDE DEF m
<1>8. handler'[c] = m
  BY <1>2
<1>9. \A d \in Calls \ {c} :
        handler'[d] = IF handler[d].of = r THEN [handler[d] EXCEPT !.alone = FALSE] ELSE handler[d]
  BY <1>2
<1>10. \A k \in R!CallType :
         LET l == [k EXCEPT !.alone = FALSE]
         IN /\ l \in R!CallType /\ l.pc = k.pc /\ l.of = k.of /\ l.read = k.read
            /\ l.new = k.new /\ ~l.alone
  BY DEF R!CallType
<1>11. \A d \in Calls \ {c} :
         /\ handler'[d] \in R!CallType
         /\ handler'[d].pc = handler[d].pc /\ handler'[d].of = handler[d].of
         /\ handler'[d].read = handler[d].read /\ handler'[d].new = handler[d].new
         /\ handler'[d].alone => handler[d].alone /\ handler[d].of # r
  <2> TAKE d \in Calls \ {c}
  <2>1. handler[d] \in R!CallType
    BY <1>3
  <2>2. CASE handler[d].of = r
    <3>1. handler'[d] = [handler[d] EXCEPT !.alone = FALSE]
      BY <1>9, <2>2
    <3> QED BY <1>10, <2>1, <3>1
  <2>3. CASE handler[d].of # r
    BY <1>9, <2>1, <2>3
  <2> QED BY <2>2, <2>3
<1>12. handler' \in [Calls -> R!CallType]
  <2>1. \A d \in Calls : handler'[d] \in R!CallType
    BY <1>7, <1>8, <1>11
  <2>2. handler' = [d \in Calls |-> handler'[d]]
    BY <1>2
  <2> QED BY <2>1, <2>2
<1>13. R!TypeOK'
  <2>1. ops' \in 0 .. MaxOps
    BY <1>2, AgentsMCAssumption DEF RegistryInv, R!TypeOK, R!RegistryAssumption
  <2>2. stands' \in [RoleIds -> SUBSET SUBSET Scopes]
    BY <1>2, <1>3
  <2> QED BY <1>2, <1>12, <2>1, <2>2 DEF RegistryInv, R!TypeOK
<1>14. R!Grounded' /\ R!TrailTells' /\ R!HooksAreTrue'
  <2>1. R!TrailTells'
    <3>1. \A x, w : R!LastAbout(x, w)' <=> R!LastAbout(x, w)
      BY <1>2 DEF R!LastAbout, R!Event
    <3> QED BY <1>2, <3>1 DEF RegistryInv, R!TrailTells, R!Event
  <2> QED BY <1>2, <2>1 DEF RegistryInv, R!Grounded, R!HooksAreTrue, R!Event
<1>15. RowsUsed' /\ R!LoneReplaceStands'
  BY <1>2, <1>3 DEF RegistryInv, RowsUsed, R!LoneReplaceStands
<1>16. RoleRequestHolds(c)' /\ AsgRequestHolds(c)'
  <2>1. m.alone => OnlyReplace(c)'
    BY <1>7, <1>8, <1>11 DEF OnlyReplace, alone
  <2>2. RoleRequestHolds(c)'
    BY <1>1, <1>2, <1>5, <1>7, <1>8, <2>1 DEF RoleRequestHolds
  <2>3. AsgRequestHolds(c)'
    BY <1>7, <1>8 DEF AsgRequestHolds
  <2> QED BY <2>2, <2>3
<1>17. ASSUME NEW d \in Calls \ {c} PROVE RoleRequestHolds(d)' /\ AsgRequestHolds(d)'
  <2>1. \A e \in Calls \ {c} :
          /\ handler'[e].pc = handler[e].pc /\ handler'[e].of = handler[e].of
          /\ handler'[e].read = handler[e].read /\ handler'[e].new = handler[e].new
          /\ handler'[e].alone => handler[e].alone
    BY <1>11
  <2>2. handler[d].pc \in {"create_role", "assign"} => handler'[c].of # handler[d].of
    <3>1. handler[d].pc = "create_role" => ~role[handler[d].of].used
      BY DEF RegistryInv, RoleRequestHolds
    <3>2. handler[d].pc = "assign" => handler[d].of \in Asgs
      BY Subjects
    <3>3. role[r].used
      BY <1>2 DEF RegistryInv, RowsUsed
    <3> QED BY <1>7, <1>8, <3>1, <3>2, <3>3, Subjects
  <2>3. handler[d].pc = "replace" /\ handler'[d].alone =>
          /\ role'[handler[d].of].scopes \subseteq role[handler[d].of].scopes
          /\ ~(handler'[c].pc = "replace" /\ handler'[c].of = handler[d].of)
    BY <1>2, <1>7, <1>8, <1>11
  <2>4. \A q \in RoleIds : q = handler[d].of => role'[q].used = role[q].used
    BY <1>2
  <2>5. \A i \in Asgs : i = handler[d].of =>
          asg'[i].used = asg[i].used /\ (asg'[i].there => asg[i].there)
    BY <1>2
  <2>6. \A a \in Listed : entry[a] # None => entry'[a] # None
    BY <1>2
  <2>7. \A k \in DOMAIN trail : k \in DOMAIN trail' /\ trail'[k] = trail[k]
    BY <1>2
  <2> QED BY <2>1, <2>2, <2>3, <2>4, <2>5, <2>6, <2>7, OthersHold
<1>18. \A d \in Calls : RoleRequestHolds(d)' /\ AsgRequestHolds(d)'
  BY <1>16, <1>17
<1> QED BY <1>13, <1>14, <1>15, <1>18 DEF RegistryInv

(* The scopes of a role are replaced.                                      *)
LEMMA RegistryReplaceWrite ==
  ASSUME RegistryInv, NEW c \in Calls, R!ReplaceWrite(c) PROVE RegistryInv'
<1> DEFINE r == handler[c].of
           new == handler[c].new[1].scopes
           read == handler[c].read
           alone == handler[c].alone
<1>1. /\ handler[c].pc = "replace" /\ r \in RoleIds /\ handler[c].new[1] \in R!RoleType
      /\ alone => role[r].scopes \subseteq read /\ OnlyReplace(c)
      /\ R!Done(c) /\ ops' = ops /\ UNCHANGED <<entry, asg, trail, hooks>>
  BY Subjects DEF RegistryInv, RoleRequestHolds, R!ReplaceWrite
<1>2. new \in SUBSET Scopes
  BY <1>1 DEF R!RoleType
<1>3. CASE ~role[r].there \/ new \cap role[r].scopes # {}
  <2>1. R!Fail(c)
    BY <1>3 DEF R!ReplaceWrite, R!Fail
  <2> QED BY <2>1, RegistryFail
<1>4. CASE ~(~role[r].there \/ new \cap role[r].scopes # {})
  <2>1. /\ role' = [role EXCEPT ![r].scopes = (@ \ read) \cup new]
        /\ silent' = silent \cup {r}
        /\ stands' = [stands EXCEPT ![r] = IF alone THEN {new} ELSE {}]
        /\ role[r].there
    BY <1>4 DEF R!ReplaceWrite, R!Replaced
  <2>2. /\ handler' \in [Calls -> R!CallType] /\ handler'[c] = R!Idle
        /\ \A d \in Calls \ {c} : handler'[d] = handler[d]
        /\ RoleRequestHolds(c)' /\ AsgRequestHolds(c)'
    BY <1>1, RequestDone
  <2>3. /\ role \in [RoleIds -> R!RoleType] /\ stands \in [RoleIds -> SUBSET SUBSET Scopes]
        /\ silent \subseteq Listed \cup RoleIds \cup Asgs
    BY DEF RegistryInv, R!TypeOK
  <2> HIDE DEF new, read, alone
  <2>4. /\ role' \in [RoleIds -> R!RoleType]
        /\ role'[r].scopes = (role[r].scopes \ read) \cup new
        /\ \A q \in RoleIds : /\ role'[q].there = role[q].there /\ role'[q].used = role[q].used
                              /\ role'[q].slug = role[q].slug
        /\ \A q \in RoleIds : q # r => role'[q] = role[q]
    <3>1. role[r] \in R!RoleType
      BY <1>1, <2>3
    <3> DEFINE l == [role[r] EXCEPT !.scopes = (role[r].scopes \ read) \cup new]
    <3>2. /\ l \in R!RoleType /\ l.there = role[r].there /\ l.used = role[r].used
          /\ l.slug = role[r].slug /\ l.scopes = (role[r].scopes \ read) \cup new
      BY <1>2, <3>1 DEF R!RoleType
    <3>3. role' = [role EXCEPT ![r] = l]
      BY <2>1
    <3> HIDE DEF l
    <3> QED BY <1>1, <2>3, <3>2, <3>3
  <2>5. R!TypeOK'
    <3>1. silent' \subseteq Listed \cup RoleIds \cup Asgs
      BY <1>1, <2>1, <2>3
    <3>2. stands' \in [RoleIds -> SUBSET SUBSET Scopes]
      <4>1. (IF alone THEN {new} ELSE {}) \in SUBSET SUBSET Scopes
        BY <1>2
      <4> QED BY <1>1, <2>1, <2>3, <4>1
    <3>3. \A q, s \in RoleIds :
            role'[q].there /\ role'[s].there /\ role'[q].slug = role'[s].slug => q = s
      BY <2>4 DEF RegistryInv, R!TypeOK
    <3> QED BY <1>1, <2>2, <2>4, <3>1, <3>2, <3>3 DEF RegistryInv, R!TypeOK
  <2>6. R!Grounded'
    <3>1. asg \in [Asgs -> R!AsgType]
      BY DEF RegistryInv, R!TypeOK
    <3>2. \A i \in Asgs : asg[i].role \in RoleIds \cup {None}
      BY <3>1 DEF R!AsgType
    <3> QED BY <1>1, <2>4, <3>2 DEF RegistryInv, R!Grounded
  <2>7. R!TrailTells'
    <3>1. \A x, w : R!LastAbout(x, w)' <=> R!LastAbout(x, w)
      BY <1>1 DEF R!LastAbout, R!Event
    <3>2. \A b \in Listed \ silent' : entry'[b] # None <=> \E k \in DOMAIN trail' : trail'[k].of = b
      BY <1>1, <2>1 DEF RegistryInv, R!TrailTells
    <3>3. \A q \in RoleIds \ silent' : role'[q].there <=> R!LastAbout(q, "role.created")'
      BY <2>1, <2>4, <3>1 DEF RegistryInv, R!TrailTells
    <3>4. Assignments(trail', asg', silent')
      BY <1>1, <2>1, AssignmentsTold
    <3> QED BY <3>2, <3>3, <3>4 DEF R!TrailTells, Assignments, R!Event
  <2>8. R!HooksAreTrue'
    <3>1. \A i \in Asgs : asg[i].used => asg'[i].used /\ (asg'[i].there => asg[i].there)
      BY <1>1
    <3>2. \A k \in DOMAIN trail : k \in DOMAIN trail' /\ trail'[k] = trail[k]
      BY <1>1
    <3>3. hooks' = hooks
      BY <1>1
    <3> QED BY <3>1, <3>2, <3>3, HooksStay
  <2>9. R!LoneReplaceStands'
    <3>1. ASSUME NEW q \in RoleIds, NEW s \in stands'[q] PROVE role'[q].scopes = s
      <4>1. CASE q = r
        <5>1. alone /\ s = new
          BY <1>1, <2>1, <2>3, <3>1, <4>1
        <5>2. role[r].scopes \subseteq read
          BY <1>1, <5>1 DEF alone, read
        <5> QED BY <2>4, <4>1, <5>1, <5>2
      <4>2. CASE q # r
        BY <2>1, <2>3, <2>4, <3>1, <4>2 DEF RegistryInv, R!LoneReplaceStands
      <4> QED BY <4>1, <4>2
    <3> QED BY <3>1 DEF R!LoneReplaceStands
  <2>10. RowsUsed'
    <3>1. \A q \in RoleIds : (role'[q].there => role'[q].used) /\ (~role'[q].used => stands'[q] = {})
      BY <2>1, <2>3, <2>4 DEF RegistryInv, RowsUsed
    <3> QED BY <1>1, <3>1 DEF RegistryInv, RowsUsed
  <2>11. ASSUME NEW d \in Calls \ {c} PROVE RoleRequestHolds(d)' /\ AsgRequestHolds(d)'
    <3>1. \A e \in Calls \ {c} :
            /\ handler'[e].pc = handler[e].pc /\ handler'[e].of = handler[e].of
            /\ handler'[e].read = handler[e].read /\ handler'[e].new = handler[e].new
            /\ handler'[e].alone => handler[e].alone
      BY <2>2
    <3>2. handler[d].pc \in {"create_role", "assign"} => handler'[c].of # handler[d].of
      BY <2>2, Subjects, NothingYet
    <3>3. handler[d].pc = "replace" /\ handler'[d].alone =>
            /\ role'[handler[d].of].scopes \subseteq role[handler[d].of].scopes
            /\ ~(handler'[c].pc = "replace" /\ handler'[c].of = handler[d].of)
      <4>1. handler[d].pc = "replace" /\ handler'[d].alone => OnlyReplace(d) /\ handler[d].of \in RoleIds
        BY <3>1, Subjects DEF RegistryInv, RoleRequestHolds
      <4>2. handler[d].pc = "replace" /\ handler'[d].alone => handler[d].of # r
        BY <1>1, <4>1 DEF OnlyReplace
      <4> QED BY <2>2, <2>4, <4>1, <4>2, NothingYet
    <3>4. \A q \in RoleIds : q = handler[d].of => role'[q].used = role[q].used
      BY <2>4
    <3>5. \A i \in Asgs : i = handler[d].of =>
            asg'[i].used = asg[i].used /\ (asg'[i].there => asg[i].there)
      BY <1>1
    <3>6. \A a \in Listed : entry[a] # None => entry'[a] # None
      BY <1>1
    <3>7. \A k \in DOMAIN trail : k \in DOMAIN trail' /\ trail'[k] = trail[k]
      BY <1>1
    <3> QED BY <3>1, <3>2, <3>3, <3>4, <3>5, <3>6, <3>7, OthersHold
  <2>12. \A d \in Calls : RoleRequestHolds(d)' /\ AsgRequestHolds(d)'
    BY <2>2, <2>11
  <2> QED BY <2>5, <2>6, <2>7, <2>8, <2>9, <2>10, <2>12 DEF RegistryInv
<1> QED BY <1>3, <1>4

(* A role that nobody is assigned is deleted, and the chain tells of it.   *)
LEMMA RegistryDeleteWrite ==
  ASSUME RegistryInv, NEW c \in Calls, R!DeleteRoleWrite(c) PROVE RegistryInv'
<1>0. PICK r \in RoleIds : r = handler[c].of
  BY Subjects DEF R!DeleteRoleWrite
<1> DEFINE e == R!Event("role.deleted", r)
           assigned == \E i \in Asgs : asg[i].there /\ asg[i].role = r
<1>1. /\ handler[c].pc = "delete_role" /\ r = handler[c].of
      /\ R!Done(c) /\ ops' = ops /\ UNCHANGED <<entry, asg, hooks>>
  BY <1>0 DEF R!DeleteRoleWrite
<1>2. CASE assigned
  <2>1. R!Fail(c)
    BY <1>1, <1>2 DEF R!DeleteRoleWrite, R!Fail
  <2> QED BY <2>1, RegistryFail
<1>3. CASE ~assigned
  <2>1. /\ role' = [role EXCEPT ![r].there = FALSE, ![r].scopes = {}]
        /\ \/ trail' = Append(trail, e) /\ silent' = silent
           \/ trail' = trail /\ silent' = silent \cup {r}
        /\ stands' = [stands EXCEPT ![r] = {}]
    BY <1>1, <1>3 DEF R!DeleteRoleWrite
  <2>2. /\ handler' \in [Calls -> R!CallType] /\ handler'[c] = R!Idle
        /\ \A d \in Calls \ {c} : handler'[d] = handler[d]
        /\ RoleRequestHolds(c)' /\ AsgRequestHolds(c)'
    BY <1>1, RequestDone
  <2>3. /\ role \in [RoleIds -> R!RoleType] /\ stands \in [RoleIds -> SUBSET SUBSET Scopes]
        /\ silent \subseteq Listed \cup RoleIds \cup Asgs /\ trail \in Seq(R!EventType)
    BY DEF RegistryInv, R!TypeOK
  <2>4. e \in R!EventType /\ e.of = r /\ e.what = "role.deleted"
    BY <1>1 DEF R!Event, R!EventType
  <2> HIDE DEF e
  <2>5. /\ role' \in [RoleIds -> R!RoleType] /\ ~role'[r].there /\ role'[r].scopes = {}
        /\ \A q \in RoleIds : /\ role'[q].there => role[q].there
                              /\ role'[q].used = role[q].used /\ role'[q].slug = role[q].slug
        /\ \A q \in RoleIds : q # r => role'[q] = role[q]
    <3>1. role[r] \in R!RoleType
      BY <1>1, <2>3
    <3> DEFINE l == [role[r] EXCEPT !.there = FALSE, !.scopes = {}]
    <3>2. l \in R!RoleType /\ ~l.there /\ l.used = role[r].used /\ l.slug = role[r].slug /\ l.scopes = {}
      BY <3>1 DEF R!RoleType
    <3>3. role' = [role EXCEPT ![r] = l]
      BY <2>1
    <3> HIDE DEF l
    <3> QED BY <1>1, <2>3, <3>2, <3>3
  <2>6. /\ trail' \in Seq(R!EventType)
        /\ \A k \in DOMAIN trail : k \in DOMAIN trail' /\ trail'[k] = trail[k]
        /\ \A x : x # r =>
             /\ (\E k \in DOMAIN trail' : trail'[k].of = x) <=> (\E k \in DOMAIN trail : trail[k].of = x)
             /\ \A w : R!LastAbout(x, w)' <=> R!LastAbout(x, w)
    <3>1. CASE trail' = Append(trail, e)
      BY <2>3, <2>4, <3>1, AppendEvent
    <3>2. CASE trail' = trail
      BY <2>3, <3>2 DEF R!LastAbout, R!Event
    <3> QED BY <2>1, <3>1, <3>2
  <2>7. r \notin silent' => ~R!LastAbout(r, "role.created")'
    <3>1. r \notin silent' => trail' = Append(trail, e)
      BY <2>1
    <3>2. trail' = Append(trail, e) => \A w : R!LastAbout(e.of, w)' <=> w = e.what
      BY <2>3, <2>4, AppendEvent
    <3>3. trail' = Append(trail, e) => \A w : R!LastAbout(r, w)' <=> w = "role.deleted"
      BY <2>4, <3>2
    <3> QED BY <3>1, <3>3
  <2>8. R!TypeOK'
    <3>1. silent' \subseteq Listed \cup RoleIds \cup Asgs
      BY <1>1, <2>1, <2>3
    <3>2. stands' \in [RoleIds -> SUBSET SUBSET Scopes]
      BY <1>1, <2>1, <2>3
    <3>3. \A q, s \in RoleIds :
            role'[q].there /\ role'[s].there /\ role'[q].slug = role'[s].slug => q = s
      BY <2>5 DEF RegistryInv, R!TypeOK
    <3> QED BY <1>1, <2>2, <2>5, <2>6, <3>1, <3>2, <3>3 DEF RegistryInv, R!TypeOK
  <2>9. R!Grounded'
    <3>1. asg \in [Asgs -> R!AsgType]
      BY DEF RegistryInv, R!TypeOK
    <3>2. \A i \in Asgs : asg[i].role \in RoleIds \cup {None}
      BY <3>1 DEF R!AsgType
    <3>3. \A i \in Asgs : asg[i].there => asg[i].role # r
      BY <1>3
    <3>4. \A i \in Asgs : asg[i].there /\ asg[i].role # None => role'[asg[i].role].there
      BY <2>5, <3>2, <3>3 DEF RegistryInv, R!Grounded
    <3> QED BY <1>1, <3>4 DEF RegistryInv, R!Grounded
  <2>10. R!TrailTells'
    <3>1. \A b \in Listed : b # r
      BY <1>1, AgentsMCAssumption DEF R!RegistryAssumption
    <3>2. \A b \in Listed \ silent' : entry'[b] # None <=> \E k \in DOMAIN trail' : trail'[k].of = b
      BY <1>1, <2>1, <2>6, <3>1 DEF RegistryInv, R!TrailTells
    <3>3. \A q \in RoleIds \ silent' : role'[q].there <=> R!LastAbout(q, "role.created")'
      BY <2>1, <2>5, <2>6, <2>7 DEF RegistryInv, R!TrailTells
    <3>4. Assignments(trail', asg', silent')
      BY <1>1, <2>1, <2>6, AssignmentsTold
    <3> QED BY <3>2, <3>3, <3>4 DEF R!TrailTells, Assignments, R!Event
  <2>11. R!HooksAreTrue'
    <3>1. \A i \in Asgs : asg[i].used => asg'[i].used /\ (asg'[i].there => asg[i].there)
      BY <1>1
    <3>2. hooks' = hooks
      BY <1>1
    <3> QED BY <2>6, <3>1, <3>2, HooksStay
  <2>12. R!LoneReplaceStands' /\ RowsUsed'
    <3>1. \A q \in RoleIds : stands'[q] = IF q = r THEN {} ELSE stands[q]
      BY <1>1, <2>1, <2>3
    <3>2. R!LoneReplaceStands'
      BY <2>5, <3>1 DEF RegistryInv, R!LoneReplaceStands
    <3>3. \A q \in RoleIds : (role'[q].there => role'[q].used) /\ (~role'[q].used => stands'[q] = {})
      BY <2>5, <3>1 DEF RegistryInv, RowsUsed
    <3> QED BY <1>1, <3>2, <3>3 DEF RegistryInv, RowsUsed
  <2>13. ASSUME NEW d \in Calls \ {c} PROVE RoleRequestHolds(d)' /\ AsgRequestHolds(d)'
    <3>1. \A f \in Calls \ {c} :
            /\ handler'[f].pc = handler[f].pc /\ handler'[f].of = handler[f].of
            /\ handler'[f].read = handler[f].read /\ handler'[f].new = handler[f].new
            /\ handler'[f].alone => handler[f].alone
      BY <2>2
    <3>2. handler[d].pc \in {"create_role", "assign"} => handler'[c].of # handler[d].of
      BY <2>2, Subjects, NothingYet
    <3>3. handler[d].pc = "replace" /\ handler'[d].alone =>
            /\ role'[handler[d].of].scopes \subseteq role[handler[d].of].scopes
            /\ ~(handler'[c].pc = "replace" /\ handler'[c].of = handler[d].of)
      <4>1. handler[d].pc = "replace" => handler[d].of \in RoleIds
        BY Subjects
      <4> QED BY <2>2, <2>5, <4>1, NothingYet
    <3>4. \A q \in RoleIds : q = handler[d].of => role'[q].used = role[q].used
      BY <2>5
    <3>5. \A i \in Asgs : i = handler[d].of =>
            asg'[i].used = asg[i].used /\ (asg'[i].there => asg[i].there)
      BY <1>1
    <3>6. \A a \in Listed : entry[a] # None => entry'[a] # None
      BY <1>1
    <3>7. \A k \in DOMAIN trail : k \in DOMAIN trail' /\ trail'[k] = trail[k]
      BY <2>6
    <3> QED BY <3>1, <3>2, <3>3, <3>4, <3>5, <3>6, <3>7, OthersHold
  <2>14. \A d \in Calls : RoleRequestHolds(d)' /\ AsgRequestHolds(d)'
    BY <2>2, <2>13
  <2> QED BY <2>8, <2>9, <2>10, <2>11, <2>12, <2>14 DEF RegistryInv
<1> QED BY <1>2, <1>3

(* A step of a request that is not alone on its row, but creates none.     *)
LEMMA SharedStep ==
  ASSUME RegistryInv, NEW c \in Calls, handler[c].of # None,
         handler[c].pc \in {"added", "remove", "removed"},
         \A d \in Calls \ {c} : handler'[d] = handler[d],
         handler'[c].of \in {None, handler[c].of}, handler'[c].pc # "replace",
         UNCHANGED <<entry, role, trail>>,
         \A i \in Asgs : asg'[i].used = asg[i].used /\ (asg'[i].there => asg[i].there),
         RoleRequestHolds(c)' /\ AsgRequestHolds(c)'
  PROVE  \A d \in Calls : RoleRequestHolds(d)' /\ AsgRequestHolds(d)'
<1>1. ASSUME NEW d \in Calls \ {c} PROVE RoleRequestHolds(d)' /\ AsgRequestHolds(d)'
  <2>1. \A e \in Calls \ {c} :
          /\ handler'[e].pc = handler[e].pc /\ handler'[e].of = handler[e].of
          /\ handler'[e].read = handler[e].read /\ handler'[e].new = handler[e].new
          /\ handler'[e].alone => handler[e].alone
    OBVIOUS
  <2>2. handler[d].pc \in {"create_role", "assign"} => handler'[c].of # handler[d].of
    <3>1. handler[d].pc \in {"create_role", "assign"} => handler[c].of # handler[d].of
      BY DEF RegistryInv, RoleRequestHolds, AsgRequestHolds, OnlyOneOn
    <3> QED BY <3>1, Subjects
  <2>3. handler[d].pc = "replace" /\ handler'[d].alone =>
          /\ role'[handler[d].of].scopes \subseteq role[handler[d].of].scopes
          /\ ~(handler'[c].pc = "replace" /\ handler'[c].of = handler[d].of)
    OBVIOUS
  <2>4. \A r \in RoleIds : r = handler[d].of => role'[r].used = role[r].used
    OBVIOUS
  <2>5. \A i \in Asgs : i = handler[d].of =>
          asg'[i].used = asg[i].used /\ (asg'[i].there => asg[i].there)
    OBVIOUS
  <2>6. \A a \in Listed : entry[a] # None => entry'[a] # None
    OBVIOUS
  <2>7. \A k \in DOMAIN trail : k \in DOMAIN trail' /\ trail'[k] = trail[k]
    OBVIOUS
  <2> QED BY <2>1, <2>2, <2>3, <2>4, <2>5, <2>6, <2>7, OthersHold
<1> QED BY <1>1

(* A request goes on to its webhook event.                                 *)
LEMMA RequestGoesOn ==
  ASSUME R!TypeOK, NEW c \in Calls, NEW pc \in {"added", "removed"},
         handler' = [handler EXCEPT ![c].pc = pc]
  PROVE  /\ handler' \in [Calls -> R!CallType]
         /\ handler'[c].pc = pc /\ handler'[c].of = handler[c].of
         /\ \A d \in Calls \ {c} : handler'[d] = handler[d]
<1>1. handler \in [Calls -> R!CallType] /\ handler[c] \in R!CallType
  BY DEF R!TypeOK
<1> DEFINE l == [handler[c] EXCEPT !.pc = pc]
<1>2. l \in R!CallType /\ l.pc = pc /\ l.of = handler[c].of
  BY <1>1 DEF R!CallType
<1>3. handler' = [handler EXCEPT ![c] = l]
  OBVIOUS
<1> HIDE DEF l
<1> QED BY <1>1, <1>2, <1>3

(* An assignment is added, and the chain tells of it.                      *)
LEMMA RegistryAssignWrite ==
  ASSUME RegistryInv, NEW c \in Calls, R!AssignWrite(c) PROVE RegistryInv'
<1>0. PICK i \in Asgs : i = handler[c].of
  BY Subjects DEF R!AssignWrite
<1>1. handler[c].pc = "assign" /\ RoleRequestHolds(c) /\ AsgRequestHolds(c)
  BY DEF R!AssignWrite, RegistryInv
<1>2. PICK new \in R!AsgType : new = handler[c].new[1]
  BY <1>1 DEF AsgRequestHolds
<1> DEFINE e == R!Event("agent.assigned", i)
<1>3. /\ ~asg[i].used /\ OnlyOneOn(c) /\ new.there /\ new.used
      /\ new.agent \in Listed /\ entry[new.agent] # None
  BY <1>0, <1>1, <1>2 DEF AsgRequestHolds
<1>4. CASE ~R!Assignable(new)
  <2>1. R!Fail(c)
    BY <1>2, <1>4 DEF R!AssignWrite, R!Fail
  <2> QED BY <2>1, RegistryFail
<1>5. CASE R!Assignable(new)
  <2>1. /\ asg' = [asg EXCEPT ![i] = new] /\ trail' = Append(trail, e)
        /\ handler' = [handler EXCEPT ![c].pc = "added"]
        /\ UNCHANGED <<entry, role, hooks, ops, silent, stands>>
    BY <1>0, <1>2, <1>5 DEF R!AssignWrite
  <2>2. e \in R!EventType /\ e.of = i
    BY DEF R!Event, R!EventType
  <2> HIDE DEF e
  <2>3. trail \in Seq(R!EventType) /\ asg \in [Asgs -> R!AsgType]
    BY DEF RegistryInv, R!TypeOK
  <2>4. /\ trail' \in Seq(R!EventType)
        /\ \A k \in DOMAIN trail : k \in DOMAIN trail' /\ trail'[k] = trail[k]
        /\ \E k \in DOMAIN trail' : trail'[k] = e
        /\ \A x : x # i =>
             /\ (\E k \in DOMAIN trail' : trail'[k].of = x) <=> (\E k \in DOMAIN trail : trail[k].of = x)
             /\ \A w : R!LastAbout(x, w)' <=> R!LastAbout(x, w)
    BY <2>1, <2>2, <2>3, AppendEvent
  <2>5. /\ asg' \in [Asgs -> R!AsgType] /\ asg'[i] = new
        /\ \A j \in Asgs : j # i => asg'[j] = asg[j]
    BY <2>1, <2>3
  <2>6. /\ handler' \in [Calls -> R!CallType]
        /\ handler'[c].pc = "added" /\ handler'[c].of = handler[c].of
        /\ \A d \in Calls \ {c} : handler'[d] = handler[d]
    BY <2>1, RequestGoesOn DEF RegistryInv
  <2>7. R!TypeOK'
    BY <2>1, <2>4, <2>5, <2>6 DEF RegistryInv, R!TypeOK
  <2>8. R!Grounded'
    <3>1. new.role # None => role[new.role].there
      BY <1>5 DEF R!Assignable
    <3> QED BY <1>3, <2>1, <2>5, <3>1 DEF RegistryInv, R!Grounded
  <2>9. R!TrailTells'
    <3>1. \A b \in Listed \cup RoleIds : b # i
      BY AgentsMCAssumption DEF R!RegistryAssumption
    <3>2. \A b \in Listed \ silent' : entry'[b] # None <=> \E k \in DOMAIN trail' : trail'[k].of = b
      <4>1. \A b \in Listed : b # i
        BY <3>1
      <4>2. \A b \in Listed \ silent : entry[b] # None <=> \E k \in DOMAIN trail : trail[k].of = b
        BY DEF RegistryInv, R!TrailTells
      <4>3. \A b \in Listed : (\E k \in DOMAIN trail' : trail'[k].of = b)
                              <=> (\E k \in DOMAIN trail : trail[k].of = b)
        BY <2>4, <4>1
      <4> QED BY <2>1, <4>2, <4>3
    <3>3. \A q \in RoleIds \ silent' : role'[q].there <=> R!LastAbout(q, "role.created")'
      BY <2>1, <2>4, <3>1 DEF RegistryInv, R!TrailTells
    <3>4. Assignments(trail', asg', silent')
      <4> SUFFICES ASSUME NEW j \in Asgs \ silent', asg'[j].there
                   PROVE  \E k \in DOMAIN trail' : trail'[k] = R!Event("agent.assigned", j)
        BY DEF Assignments
      <4>1. CASE j = i
        BY <2>4, <4>1 DEF e
      <4>2. CASE j # i
        <5>1. PICK k \in DOMAIN trail : trail[k] = R!Event("agent.assigned", j)
          BY <2>1, <2>5, <4>2 DEF RegistryInv, R!TrailTells
        <5> QED BY <2>4, <5>1
      <4> QED BY <4>1, <4>2
    <3> QED BY <3>2, <3>3, <3>4 DEF R!TrailTells, Assignments, R!Event
  <2>10. \A j \in Asgs : asg[j].used => asg'[j].used /\ (asg'[j].there => asg[j].there)
    BY <1>3, <2>5
  <2>11. /\ R!HooksAreTrue'
         /\ \A h \in hooks' : h.what = "assignment_removed" => h.of \in Asgs /\ asg'[h.of].used
    <3>1. hooks' = hooks
      BY <2>1
    <3> QED BY <2>4, <2>10, <3>1, HooksStay
  <2>12. RowsUsed' /\ R!LoneReplaceStands'
    <3>1. \A j \in Asgs : asg'[j].there => asg'[j].used /\ asg'[j].agent \in Listed
      BY <1>3, <2>5 DEF RegistryInv, RowsUsed
    <3>2. \A r \in RoleIds : /\ role'[r].there => role'[r].used
                             /\ ~role'[r].used => stands'[r] = {}
      BY <2>1 DEF RegistryInv, RowsUsed
    <3> QED BY <2>1, <2>11, <3>1, <3>2 DEF RegistryInv, RowsUsed, R!LoneReplaceStands
  <2>13. RoleRequestHolds(c)' /\ AsgRequestHolds(c)'
    <3>1. \E k \in DOMAIN trail' : trail'[k] = R!Event("agent.assigned", i)
      BY <2>4 DEF e
    <3> QED BY <1>0, <2>6, <3>1 DEF RoleRequestHolds, AsgRequestHolds, R!Event
  <2>14. \A d \in Calls : RoleRequestHolds(d)' /\ AsgRequestHolds(d)'
    <3>1. handler[c].of # None
      BY <1>0, Subjects
    <3>2. handler'[c].of \in {None, handler[c].of} /\ handler'[c].pc # "replace"
      BY <2>6
    <3>3. \A r \in RoleIds : r # handler[c].of => role'[r] = role[r]
      BY <2>1
    <3>4. \A j \in Asgs : j # handler[c].of => asg'[j] = asg[j]
      BY <1>0, <2>5
    <3>5. entry' = entry
      BY <2>1
    <3> QED BY <1>3, <2>4, <2>6, <2>13, <3>1, <3>2, <3>3, <3>4, <3>5, OwnStep
  <2> QED BY <2>7, <2>8, <2>9, <2>11, <2>12, <2>14 DEF RegistryInv
<1> QED BY <1>4, <1>5

(* The webhook event of an assignment that was added or removed.           *)
LEMMA RegistryHook ==
  ASSUME RegistryInv, NEW c \in Calls, R!AssignHook(c) \/ R!RemoveHook(c) PROVE RegistryInv'
<1>0. PICK i \in Asgs : i = handler[c].of
  BY Subjects DEF R!AssignHook, R!RemoveHook
<1>1. PICK w \in {"assignment_added", "assignment_removed"} :
        /\ hooks' = hooks \cup {R!Event(w, i)}
        /\ w = "assignment_added" => handler[c].pc = "added"
        /\ w = "assignment_removed" => handler[c].pc = "removed"
  BY <1>0 DEF R!AssignHook, R!RemoveHook
<1> DEFINE h == R!Event(w, i)
<1>2. h \in R!EventType /\ h.what = w /\ h.of = i
  BY <1>1 DEF R!Event, R!EventType
<1> HIDE DEF h
<1>3. /\ R!Done(c) /\ ops' = ops /\ UNCHANGED <<entry, role, asg, trail, silent, stands>>
      /\ handler[c].pc \in {"added", "remove", "removed"} /\ hooks' = hooks \cup {h}
  BY <1>1 DEF R!AssignHook, R!RemoveHook, h
<1>4. /\ handler' \in [Calls -> R!CallType] /\ handler'[c] = R!Idle
      /\ \A d \in Calls \ {c} : handler'[d] = handler[d]
      /\ RoleRequestHolds(c)' /\ AsgRequestHolds(c)'
  BY <1>3, RequestDone
<1>5. R!Grounded' /\ R!TrailTells' /\ R!LoneReplaceStands'
  BY <1>3, RowsStay
<1>6. R!TypeOK'
  BY <1>2, <1>3, <1>4 DEF RegistryInv, R!TypeOK
<1>7. /\ w = "assignment_added" => \E k \in DOMAIN trail : trail[k] = R!Event("agent.assigned", i)
      /\ w = "assignment_removed" => asg[i].used /\ ~asg[i].there
  BY <1>0, <1>1 DEF RegistryInv, AsgRequestHolds
<1>8. R!HooksAreTrue'
  <2>1. \A g \in hooks' : g.what = "assignment_added" =>
          \E k \in DOMAIN trail : trail[k] = R!Event("agent.assigned", g.of)
    BY <1>2, <1>3, <1>7 DEF RegistryInv, R!HooksAreTrue
  <2>2. \A g \in hooks' : g.what = "assignment_removed" => ~asg[g.of].there
    BY <1>2, <1>3, <1>7 DEF RegistryInv, R!HooksAreTrue
  <2> QED BY <1>3, <2>1, <2>2 DEF R!HooksAreTrue, R!Event
<1>9. RowsUsed'
  <2>1. \A g \in hooks' : g.what = "assignment_removed" => g.of \in Asgs /\ asg[g.of].used
    BY <1>2, <1>3, <1>7 DEF RegistryInv, RowsUsed
  <2> QED BY <1>3, <2>1 DEF RegistryInv, RowsUsed
<1>10. \A d \in Calls : RoleRequestHolds(d)' /\ AsgRequestHolds(d)'
  <2>1. handler[c].of # None
    BY <1>0, Subjects
  <2>2. handler'[c].of \in {None, handler[c].of} /\ handler'[c].pc # "replace"
    BY <1>4, NothingYet
  <2>3. \A j \in Asgs : asg'[j].used = asg[j].used /\ (asg'[j].there => asg[j].there)
    BY <1>3
  <2> QED BY <1>3, <1>4, <2>1, <2>2, <2>3, SharedStep
<1> QED BY <1>5, <1>6, <1>8, <1>9, <1>10 DEF RegistryInv

(* An assignment is removed.                                               *)
LEMMA RegistryRemoveWrite ==
  ASSUME RegistryInv, NEW c \in Calls, R!RemoveWrite(c) PROVE RegistryInv'
<1>0. PICK i \in Asgs : i = handler[c].of
  BY Subjects DEF R!RemoveWrite
<1>1. /\ handler[c].pc = "remove" /\ asg' = [asg EXCEPT ![i].there = FALSE]
      /\ handler' = [handler EXCEPT ![c].pc = "removed"]
      /\ UNCHANGED <<entry, role, trail, hooks, ops, silent, stands>>
  BY <1>0 DEF R!RemoveWrite
<1>2. /\ handler' \in [Calls -> R!CallType]
      /\ handler'[c].pc = "removed" /\ handler'[c].of = handler[c].of
      /\ \A d \in Calls \ {c} : handler'[d] = handler[d]
  BY <1>1, RequestGoesOn DEF RegistryInv
<1>3. /\ asg' \in [Asgs -> R!AsgType] /\ ~asg'[i].there
      /\ \A j \in Asgs : /\ asg'[j].used = asg[j].used /\ (asg'[j].there => asg[j].there)
                         /\ asg'[j].agent = asg[j].agent /\ asg'[j].role = asg[j].role
  <2>1. asg \in [Asgs -> R!AsgType] /\ asg[i] \in R!AsgType
    BY DEF RegistryInv, R!TypeOK
  <2> DEFINE l == [asg[i] EXCEPT !.there = FALSE]
  <2>2. /\ l \in R!AsgType /\ ~l.there /\ l.used = asg[i].used
        /\ l.agent = asg[i].agent /\ l.role = asg[i].role
    BY <2>1 DEF R!AsgType
  <2>3. asg' = [asg EXCEPT ![i] = l]
    BY <1>1
  <2> HIDE DEF l
  <2> QED BY <2>1, <2>2, <2>3
<1>4. R!TypeOK'
  BY <1>1, <1>2, <1>3 DEF RegistryInv, R!TypeOK
<1>5. R!Grounded'
  BY <1>1, <1>3 DEF RegistryInv, R!Grounded
<1>6. R!TrailTells'
  <2>1. \A x, w : R!LastAbout(x, w)' <=> R!LastAbout(x, w)
    BY <1>1 DEF R!LastAbout, R!Event
  <2>2. Assignments(trail', asg', silent')
    BY <1>1, <1>3, AssignmentsTold
  <2> QED BY <1>1, <2>1, <2>2 DEF RegistryInv, R!TrailTells, Assignments, R!Event
<1>7. /\ R!HooksAreTrue'
      /\ \A h \in hooks' : h.what = "assignment_removed" => h.of \in Asgs /\ asg'[h.of].used
  <2>1. \A j \in Asgs : asg[j].used => asg'[j].used /\ (asg'[j].there => asg[j].there)
    BY <1>3
  <2>2. hooks' = hooks /\ \A k \in DOMAIN trail : k \in DOMAIN trail' /\ trail'[k] = trail[k]
    BY <1>1
  <2> QED BY <2>1, <2>2, HooksStay
<1>8. RowsUsed' /\ R!LoneReplaceStands'
  BY <1>1, <1>3, <1>7 DEF RegistryInv, RowsUsed, R!LoneReplaceStands
<1>9. RoleRequestHolds(c)' /\ AsgRequestHolds(c)'
  <2>1. asg[i].used
    BY <1>0, <1>1 DEF RegistryInv, AsgRequestHolds
  <2> QED BY <1>0, <1>2, <1>3, <2>1 DEF RoleRequestHolds, AsgRequestHolds
<1>10. \A d \in Calls : RoleRequestHolds(d)' /\ AsgRequestHolds(d)'
  <2>1. handler[c].of # None /\ handler[c].pc \in {"added", "remove", "removed"}
    BY <1>0, <1>1, Subjects
  <2>2. handler'[c].of \in {None, handler[c].of} /\ handler'[c].pc # "replace"
    BY <1>2
  <2>3. \A j \in Asgs : asg'[j].used = asg[j].used /\ (asg'[j].there => asg[j].there)
    BY <1>3
  <2>4. UNCHANGED <<entry, role, trail>>
    BY <1>1
  <2> QED BY <1>2, <1>9, <2>1, <2>2, <2>3, <2>4, SharedStep
<1> QED BY <1>4, <1>5, <1>6, <1>7, <1>8, <1>10 DEF RegistryInv

(* Every step of the registry keeps what holds of it.                      *)
LEMMA RegistryStep == RegistryInv /\ R!Next => RegistryInv'
<1> SUFFICES ASSUME RegistryInv, R!Next PROVE RegistryInv'
  OBVIOUS
<1>1. CASE \E a \in Listed, s \in Slugs : R!CreateAgent(a, s) \/ R!CreateAgentMcp(a, s)
  BY <1>1, RegistryAgent
<1>2. CASE \E r \in RoleIds, s \in Slugs, ps \in SUBSET Scopes : R!CreateRoleMcp(r, s, ps)
  BY <1>2, RegistryRoleMcp
<1>3. ASSUME NEW c \in Calls,
             \/ \E r \in RoleIds, s \in Slugs, ps \in SUBSET Scopes : R!CreateRoleLook(c, r, s, ps)
             \/ \E r \in RoleIds, ps \in SUBSET Scopes : R!ReplaceRead(c, r, ps)
             \/ \E r \in RoleIds, mcp \in BOOLEAN : R!DeleteRoleRead(c, r, mcp)
             \/ \E i \in Asgs, a \in Listed, u \in Users, r \in RoleIds \cup {None} : R!AssignRead(c, i, a, u, r)
             \/ \E i \in Asgs : R!RemoveRead(c, i)
      PROVE  RegistryInv'
  BY <1>3, RegistryRoleLook, RegistryReplaceRead, RegistryDeleteRead, RegistryAssignRead, RegistryRemoveRead
<1>4. ASSUME NEW c \in Calls,
             \/ R!CreateRoleWrite(c) \/ R!ReplaceWrite(c) \/ R!DeleteRoleWrite(c) \/ R!AssignWrite(c)
             \/ R!AssignHook(c) \/ R!RemoveWrite(c) \/ R!RemoveHook(c) \/ R!Fail(c)
      PROVE  RegistryInv'
  BY <1>4, RegistryRoleWrite, RegistryReplaceWrite, RegistryDeleteWrite, RegistryAssignWrite,
     RegistryHook, RegistryRemoveWrite, RegistryFail
<1>5. CASE \E a \in Listed, s \in Slugs, i \in Asgs, u \in Users, r \in RoleIds \cup {None} :
             R!Import(a, s, i, u, r)
  BY <1>5, RegistryImport
<1> QED BY <1>1, <1>2, <1>3, <1>4, <1>5 DEF R!Next

-----------------------------------------------------------------------------
(* The settings. What their requests are about.                            *)
OfTheirKind(k) ==
  /\ k.pc = "idle" => k = S!Idle
  /\ k.op = "create" => k.of \in Integrations \cup {r1} \cup Tools \cup Servers /\ k.pc \in {"flushed", "commit"}
  /\ k.op = "update" => k.of \in Integrations \cup {r1} /\ k.pc \in {"flushed", "commit"}
  /\ k.op = "server" => k.of \in Servers /\ k.pc \in {"loaded", "flushed", "commit"}
  /\ k.op = "tool" => k.of \in Tools /\ k.pc \in {"loaded", "flushed", "commit"} /\ DOMAIN k.set = S!Fields
  /\ k.op = "agent" => k.of \in Listed /\ k.pc \in {"loaded", "flushed", "commit"}
  /\ k.op = "delete" => k.of \in Integrations \cup {r1} \cup Servers /\ k.pc \in {"flushed", "commit", "drop"}
                      /\ DOMAIN k.set = {}
  /\ k.pc # "idle" => k.op # None /\ k.of \in S!Rows /\ k.loaded \in S!RowType

(* One that creates a row is alone with it, and holds the integration of a *)
(* rule; the others have loaded one that was there.                        *)
CreationHolds(c) ==
  LET k == change[c]
  IN /\ k.op = "create" =>
          /\ row[k.of] = None /\ \A d \in Calls \ {c} : change[d].of # k.of
          /\ k.set = k.loaded.fields /\ k.loaded.there
          /\ k.loaded.of # None => S!There(k.loaded.of)
     /\ k.pc # "idle" /\ k.op # "create" => row[k.of] # None

(* What is not stale is as it was loaded.                                  *)
LoadHolds(c) ==
  LET k == change[c]
  IN /\ k.op \in {"update", "server", "tool"} =>
          \A f \in S!Fields \ k.stale : row[k.of].fields[f] = k.loaded.fields[f]
     /\ k.op = "tool" /\ "scopes" \notin k.stale => row[k.of].scopes = k.loaded.scopes

(* An agent was changed, and the audit log does not have it yet.           *)
Untold(c) == change[c].op = "agent" /\ change[c].pc \in {"flushed", "commit"}

(* What is in the row is then what was asked for, or was told before.      *)
AgentChangeHolds(c) ==
  LET k == change[c]
  IN Untold(c) /\ k.of \notin mingled =>
       /\ k.of \in untold /\ \A d \in Calls \ {c} : Untold(d) => change[d].of # k.of
       /\ \A f \in S!Fields :
            row[k.of].fields[f] = IF f \in DOMAIN k.set THEN k.set[f] ELSE S!Last(k.of, f)

(* A row was recorded with all its fields, and not before it was there. It *)
(* holds what was recorded last.                                           *)
RowTold(i) ==
  /\ row[i] = None => told[i] = <<>>
  /\ row[i] # None => \E k \in DOMAIN told[i] : DOMAIN told[i][k].set = S!Fields
  /\ i \in Tools /\ row[i] # None => row[i].there
  /\ i \in Listed /\ row[i] # None => row[i].there

(* A row is as it was told, but for requests that met and commits in two   *)
(* steps.                                                                  *)
AsTold(i) ==
  S!There(i) /\ i \notin mingled /\ (i \in Listed => i \notin untold) =>
    /\ \A f \in S!Fields : row[i].fields[f] = S!Last(i, f)
    /\ i \in Tools => S!Names(row[i].scopes) = told[i][Len(told[i])].scopes

(* What holds of the settings.                                             *)
SettingsInv ==
  /\ S!TypeOK /\ S!GoneAsTold /\ S!RulesRest
  /\ \A i \in S!Rows : RowTold(i) /\ AsTold(i)
  /\ \A c \in Calls : /\ OfTheirKind(change[c]) /\ CreationHolds(c)
                      /\ LoadHolds(c) /\ AgentChangeHolds(c)

(* No row is nothing, and none is a row of two tables.                     *)
LEMMA SettingsApart ==
  /\ MaxChanges \in Nat
  /\ None \notin Integrations /\ None # r1 /\ None \notin Tools /\ None \notin Servers /\ None \notin Listed
  /\ None \notin S!RowType /\ None \notin {"create", "update", "server", "tool", "agent", "delete"}
  /\ \A i \in Integrations : i # r1 /\ i \notin Tools /\ i \notin Servers /\ i \notin Listed
  /\ r1 \notin Tools /\ r1 \notin Servers /\ r1 \notin Listed
  /\ \A i \in Tools : i \notin Servers /\ i \notin Listed
  /\ \A i \in Servers : i \notin Listed
BY AgentsMCAssumption DEF S!SettingsAssumption, S!Rows

(* Nothing is asked.                                                       *)
LEMMA IdleSetting ==
  /\ S!Idle.pc = "idle" /\ S!Idle.op = None /\ S!Idle.of = None /\ S!Idle.stale = {}
  /\ <<>> \in S!Asked /\ DOMAIN <<>> = {}
  /\ S!Idle \in S!CallType
<1>1. <<>> \in [{} -> BOOLEAN]
  OBVIOUS
<1>2. <<>> \in S!Asked
  BY <1>1 DEF S!Asked
<1>3. DOMAIN <<>> = {}
  <2>1. \A i \in 1 .. 0 : FALSE
    OBVIOUS
  <2> QED BY <2>1
<1> QED BY <1>2, <1>3 DEF S!Idle, S!CallType

(* The greatest element of a set is the one that is chosen.                *)
LEMMA TheGreatest ==
  ASSUME NEW U \in SUBSET Nat, NEW k \in U, \A m \in U : m <= k
  PROVE  (CHOOSE l \in U : \A m \in U : m <= l) = k
<1> DEFINE l == CHOOSE l \in U : \A m \in U : m <= l
<1>1. l \in U /\ \A m \in U : m <= l
  OBVIOUS
<1> HIDE DEF l
<1>2. l \in Nat /\ k \in Nat /\ l <= k /\ k <= l
  BY <1>1
<1>3. l = k
  BY <1>2
<1> QED BY <1>3 DEF l

(* The value that was recorded last.                                       *)
LEMMA LastIs ==
  ASSUME NEW i, told[i] \in Seq(S!ChangeType), NEW k \in DOMAIN told[i], NEW f,
         f \in DOMAIN told[i][k].set,
         \A m \in DOMAIN told[i] : f \in DOMAIN told[i][m].set => m <= k
  PROVE  S!Last(i, f) = told[i][k].set[f]
<1> DEFINE ks == {m \in DOMAIN told[i] : f \in DOMAIN told[i][m].set}
<1>1. DOMAIN told[i] \subseteq Nat
  BY LenProperties
<1>2. ks \in SUBSET Nat /\ k \in ks /\ \A m \in ks : m <= k
  BY <1>1
<1>3. (CHOOSE l \in ks : \A m \in ks : m <= l) = k
  <2> HIDE DEF ks
  <2> QED BY <1>2, TheGreatest
<1> QED BY <1>3 DEF S!Last

(* There is one, if the field was ever recorded.                           *)
LEMMA LastThere ==
  ASSUME NEW i, told[i] \in Seq(S!ChangeType), NEW f,
         \E k \in DOMAIN told[i] : f \in DOMAIN told[i][k].set
  PROVE  \E k \in DOMAIN told[i] :
           /\ f \in DOMAIN told[i][k].set
           /\ \A m \in DOMAIN told[i] : f \in DOMAIN told[i][m].set => m <= k
<1> DEFINE n == Len(told[i])
           ks == {m \in DOMAIN told[i] : f \in DOMAIN told[i][m].set}
<1>1. n \in Nat /\ DOMAIN told[i] = 1 .. n
  BY LenProperties
<1>2. ks \in SUBSET Nat /\ ks # {} /\ \A m \in ks : m <= n
  BY <1>1
<1> HIDE DEF n, ks
<1>3. D!Max(ks) \in ks /\ \A m \in ks : m <= D!Max(ks)
  BY <1>1, <1>2, GreatestOf
<1> QED BY <1>3 DEF ks

(* One more change is recorded: it sets what it sets.                      *)
LEMMA ToldMore ==
  ASSUME NEW i, told[i] \in Seq(S!ChangeType), NEW e \in S!ChangeType,
         told'[i] = Append(told[i], e)
  PROVE  /\ told'[i] \in Seq(S!ChangeType)
         /\ told'[i][Len(told'[i])] = e
         /\ \A k \in DOMAIN told[i] : k \in DOMAIN told'[i] /\ told'[i][k] = told[i][k]
         /\ \A k \in DOMAIN told'[i] : told'[i][k] = e \/ (k \in DOMAIN told[i] /\ told'[i][k] = told[i][k])
         /\ \E k \in DOMAIN told'[i] : told'[i][k] = e
         /\ \A f : f \in DOMAIN e.set => S!Last(i, f)' = e.set[f]
         /\ \A f : f \notin DOMAIN e.set /\ (\E k \in DOMAIN told[i] : f \in DOMAIN told[i][k].set) =>
              S!Last(i, f)' = S!Last(i, f)
<1> DEFINE n == Len(told[i])
<1>1. /\ n \in Nat /\ DOMAIN told[i] = 1 .. n /\ DOMAIN told'[i] = 1 .. (n + 1)
      /\ told'[i] \in Seq(S!ChangeType) /\ told'[i][n + 1] = e /\ Len(told'[i]) = n + 1
      /\ \A k \in 1 .. n : told'[i][k] = told[i][k]
  BY AppendProperties, LenProperties
<1> HIDE DEF n
<1>2. n + 1 \in 1 .. (n + 1) /\ \A k \in 1 .. (n + 1) : k <= n + 1 /\ (k \in 1 .. n \/ k = n + 1)
  BY <1>1
<1>3. \A k \in 1 .. n : k \in 1 .. (n + 1)
  BY <1>1
<1>4. ASSUME NEW f, f \in DOMAIN e.set PROVE S!Last(i, f)' = e.set[f]
  <2>1. ASSUME NEW k \in DOMAIN told'[i], f \in DOMAIN told'[i][k].set,
               \A m \in DOMAIN told'[i] : f \in DOMAIN told'[i][m].set => m <= k
        PROVE  S!Last(i, f)' = told'[i][k].set[f]
    <3> DEFINE ks == {m \in DOMAIN told'[i] : f \in DOMAIN told'[i][m].set}
    <3>1. ks \in SUBSET Nat /\ k \in ks /\ \A m \in ks : m <= k
      BY <1>1, <2>1
    <3>2. (CHOOSE l \in ks : \A m \in ks : m <= l) = k
      <4> HIDE DEF ks
      <4> QED BY <3>1, TheGreatest
    <3> QED BY <3>2 DEF S!Last
  <2> QED BY <1>1, <1>2, <1>4, <2>1
<1>5. ASSUME NEW f, f \notin DOMAIN e.set, \E k \in DOMAIN told[i] : f \in DOMAIN told[i][k].set
      PROVE  S!Last(i, f)' = S!Last(i, f)
  <2>1. PICK k \in DOMAIN told[i] :
          /\ f \in DOMAIN told[i][k].set
          /\ \A m \in DOMAIN told[i] : f \in DOMAIN told[i][m].set => m <= k
    BY <1>5, LastThere
  <2>2. S!Last(i, f) = told[i][k].set[f]
    BY <2>1, LastIs
  <2> DEFINE ks == {m \in DOMAIN told'[i] : f \in DOMAIN told'[i][m].set}
  <2>3. ks \in SUBSET Nat /\ k \in ks /\ \A m \in ks : m <= k
    BY <1>1, <1>2, <1>3, <1>5, <2>1
  <2>4. (CHOOSE l \in ks : \A m \in ks : m <= l) = k
    <3> HIDE DEF ks
    <3> QED BY <2>3, TheGreatest
  <2>5. S!Last(i, f)' = told'[i][k].set[f]
    BY <2>4 DEF S!Last
  <2> QED BY <1>1, <2>1, <2>2, <2>5
<1> QED BY <1>1, <1>2, <1>3, <1>4, <1>5

(* Initially no row is there.                                              *)
LEMMA SettingsInit == S!Init => SettingsInv
<1> SUFFICES ASSUME S!Init PROVE SettingsInv
  OBVIOUS
<1>1. /\ \A i \in S!Rows : row[i] = None /\ told[i] = <<>>
      /\ \A c \in Calls : change[c] = S!Idle
      /\ tip = 0 /\ changes = 0 /\ mingled = {} /\ untold = {}
  BY DEF S!Init
<1>2. S!TypeOK
  <2>1. row \in [S!Rows -> S!RowType \cup {None}] /\ change \in [Calls -> S!CallType]
    BY IdleSetting DEF S!Init
  <2>2. <<>> \in Seq(S!ChangeType)
    OBVIOUS
  <2>3. told \in [S!Rows -> Seq(S!ChangeType)]
    BY <2>2 DEF S!Init
  <2> QED BY <1>1, <2>1, <2>3, SettingsApart DEF S!TypeOK
<1>3. \A i \in S!Rows : ~S!There(i)
  BY <1>1 DEF S!There
<1>4. S!GoneAsTold /\ S!RulesRest
  BY <1>3 DEF S!GoneAsTold, S!RulesRest, S!Rows
<1>5. \A i \in S!Rows : RowTold(i) /\ AsTold(i)
  BY <1>1, <1>3 DEF RowTold, AsTold
<1>6. \A c \in Calls : /\ OfTheirKind(change[c]) /\ CreationHolds(c)
                       /\ LoadHolds(c) /\ AgentChangeHolds(c)
  BY <1>1, SettingsApart, IdleSetting DEF OfTheirKind, CreationHolds, LoadHolds, AgentChangeHolds, Untold
<1> QED BY <1>2, <1>4, <1>5, <1>6 DEF SettingsInv

(* An idle request knows nothing.                                          *)
LEMMA IdleHolds ==
  ASSUME NEW c \in Calls, change'[c] = S!Idle
  PROVE  /\ OfTheirKind(change'[c]) /\ CreationHolds(c)'
         /\ LoadHolds(c)' /\ AgentChangeHolds(c)' /\ ~Untold(c)'
BY SettingsApart, IdleSetting DEF OfTheirKind, CreationHolds, LoadHolds, AgentChangeHolds, Untold

(* A request that changes no row and records nothing.                      *)
LEMMA SettingStays ==
  ASSUME SettingsInv, NEW c \in Calls, UNCHANGED <<row, told, mingled>>,
         change' \in [Calls -> S!CallType], tip' \in Nat, changes' \in 0 .. MaxChanges,
         \A d \in Calls \ {c} : change'[d] = change[d],
         untold \subseteq untold', untold' \subseteq S!Rows,
         \A d \in Calls \ {c} : change[d].op = "create" => change'[c].of # change[d].of,
         Untold(c)' => Untold(c) /\ change'[c].of = change[c].of,
         change[c].pc = "drop" =>
           change[c].of \in untold' \/ (change'[c].pc = "drop" /\ change'[c].of = change[c].of),
         OfTheirKind(change'[c]), CreationHolds(c)', LoadHolds(c)', AgentChangeHolds(c)'
  PROVE  SettingsInv'
<1>1. S!TypeOK'
  BY DEF SettingsInv, S!TypeOK
<1>2. \A i \in S!Rows : S!There(i)' <=> S!There(i)
  BY DEF S!There
<1>3. \A i, f : S!Last(i, f)' = S!Last(i, f)
  BY DEF S!Last
<1>4. S!RulesRest'
  <2>1. row' = row
    OBVIOUS
  <2> QED BY <2>1 DEF SettingsInv, S!RulesRest, S!There
<1>5. S!GoneAsTold'
  <2> SUFFICES ASSUME NEW i \in Servers \ untold', S!There(i)',
                      \E k \in DOMAIN told'[i] : told'[i][k].what = "deleted"
               PROVE  \E d \in Calls : change'[d].pc = "drop" /\ change'[d].of = i
    BY DEF S!GoneAsTold
  <2>1. S!There(i)
    BY <1>2 DEF S!Rows
  <2>2. PICK d \in Calls : change[d].pc = "drop" /\ change[d].of = i
    BY <2>1 DEF SettingsInv, S!GoneAsTold
  <2> QED BY <2>2
<1>6. \A i \in S!Rows : RowTold(i)' /\ AsTold(i)'
  <2> SUFFICES ASSUME NEW i \in S!Rows PROVE RowTold(i)' /\ AsTold(i)'
    OBVIOUS
  <2>1. RowTold(i) /\ AsTold(i)
    BY DEF SettingsInv
  <2>2. RowTold(i)'
    BY <2>1 DEF RowTold
  <2>3. AsTold(i)'
    BY <1>2, <1>3, <2>1 DEF AsTold, S!Names
  <2> QED BY <2>2, <2>3
<1>7. ASSUME NEW d \in Calls
      PROVE  OfTheirKind(change'[d]) /\ CreationHolds(d)' /\ LoadHolds(d)' /\ AgentChangeHolds(d)'
  <2>1. CASE d = c
    BY <2>1
  <2>2. CASE d # c
    <3>1. /\ OfTheirKind(change[d]) /\ CreationHolds(d) /\ LoadHolds(d) /\ AgentChangeHolds(d)
          /\ change'[d] = change[d]
      BY <2>2 DEF SettingsInv
    <3>2. CreationHolds(d)'
      <4>1. row' = row
        OBVIOUS
      <4>2. change[d].op = "create" => \A e \in Calls \ {d} : change'[e].of # change[d].of
        BY <2>2, <3>1 DEF CreationHolds
      <4> QED BY <3>1, <4>1, <4>2 DEF CreationHolds, S!There
    <3>3. LoadHolds(d)'
      BY <3>1 DEF LoadHolds
    <3>4. AgentChangeHolds(d)'
      <4>1. Untold(d)' <=> Untold(d)
        BY <3>1 DEF Untold
      <4>2. Untold(d) /\ change[d].of \notin mingled =>
              \A e \in Calls \ {d} : Untold(e)' => change'[e].of # change[d].of
        BY <3>1 DEF AgentChangeHolds, Untold
      <4> QED BY <1>3, <3>1, <4>1, <4>2 DEF AgentChangeHolds
    <3> QED BY <3>1, <3>2, <3>3, <3>4
  <2> QED BY <2>1, <2>2
<1> QED BY <1>1, <1>4, <1>5, <1>6, <1>7 DEF SettingsInv

(* A request begins.                                                       *)
LEMMA SettingBegun ==
  ASSUME SettingsInv, NEW c \in Calls, NEW k \in S!CallType, S!Begin(c, k)
  PROVE  /\ change' \in [Calls -> S!CallType] /\ changes' \in 0 .. MaxChanges
         /\ change'[c] = k /\ change[c].pc = "idle"
         /\ \A d \in Calls \ {c} : change'[d] = change[d]
BY SettingsApart DEF S!Begin, SettingsInv, S!TypeOK

(* A row is created, by a request that is alone with it.                   *)
LEMMA SettingInsert ==
  ASSUME SettingsInv, NEW c \in Calls, NEW i \in Integrations \cup {r1} \cup Tools \cup Servers,
         NEW v \in S!Values, NEW of \in Integrations \cup {None}, of # None => S!There(of),
         NEW scopes \in SUBSET Scopes, S!Insert(c, i, S!New(v, of), scopes)
  PROVE  SettingsInv'
<1> DEFINE new == S!New(v, of)
           k == [S!Idle EXCEPT !.pc = "flushed", !.op = "create", !.of = i, !.set = new.fields,
                               !.scopes = scopes, !.loaded = new]
<1>1. new \in S!RowType /\ new.fields = v /\ new.there /\ new.of = of
  BY DEF S!New, S!RowType
<1>2. v \in S!Asked
  BY DEF S!Values, S!Asked
<1>3. i \in S!Rows
  BY DEF S!Rows
<1>4. S!Begin(c, k) /\ UNCHANGED <<kinds, row, told, tip, mingled, untold>> /\ S!Fresh(i)
  BY DEF S!Insert
<1> HIDE DEF new
<1>5. /\ k \in S!CallType /\ k.pc = "flushed" /\ k.op = "create" /\ k.of = i /\ k.set = v
      /\ k.loaded = new /\ k.stale = {}
  BY <1>1, <1>2, <1>3, IdleSetting DEF S!CallType, S!Idle
<1> HIDE DEF k
<1>6. /\ change' \in [Calls -> S!CallType] /\ changes' \in 0 .. MaxChanges
      /\ change'[c] = k /\ change[c].pc = "idle"
      /\ \A d \in Calls \ {c} : change'[d] = change[d]
  BY <1>4, <1>5, SettingBegun
<1>7. row[i] = None /\ \A d \in Calls : change[d].of # i
  BY <1>4 DEF S!Fresh
<1>8. OfTheirKind(change'[c])
  BY <1>1, <1>3, <1>5, <1>6, SettingsApart DEF OfTheirKind
<1>9. CreationHolds(c)'
  <2>1. of # None => S!There(of)'
    BY <1>4 DEF S!There
  <2>2. /\ change'[c].op = "create" /\ change'[c].of = i /\ change'[c].set = change'[c].loaded.fields
        /\ change'[c].loaded.there /\ change'[c].loaded.of = of /\ row'[i] = None
        /\ \A d \in Calls \ {c} : change'[d].of # i
    BY <1>1, <1>4, <1>5, <1>6, <1>7
  <2> QED BY <2>1, <2>2 DEF CreationHolds, S!There
<1>10. LoadHolds(c)' /\ AgentChangeHolds(c)' /\ ~Untold(c)'
  BY <1>5, <1>6 DEF LoadHolds, AgentChangeHolds, Untold
<1>11. tip' \in Nat /\ untold \subseteq untold' /\ untold' \subseteq S!Rows /\ UNCHANGED <<row, told, mingled>>
  BY <1>4 DEF SettingsInv, S!TypeOK
<1>12. \A d \in Calls \ {c} : change[d].op = "create" => change'[c].of # change[d].of
  BY <1>5, <1>6, <1>7
<1> QED BY <1>6, <1>8, <1>9, <1>10, <1>11, <1>12, SettingStays

(* A request loads its row.                                                *)
LEMMA SettingLoad ==
  ASSUME SettingsInv, NEW c \in Calls, NEW i \in S!Rows,
         NEW pc \in {"loaded", "flushed", "drop"},
         NEW op \in {"update", "server", "tool", "agent", "delete"},
         NEW set \in S!Asked, NEW scopes \in SUBSET Scopes, S!Load(c, i, op, pc, set, scopes),
         op = "update" => i \in Integrations \cup {r1} /\ pc = "flushed",
         op = "server" => i \in Servers /\ pc = "loaded",
         op = "tool" => i \in Tools /\ pc = "loaded" /\ DOMAIN set = S!Fields,
         op = "agent" => i \in Listed /\ pc = "loaded",
         op = "delete" => i \in Integrations \cup {r1} \cup Servers /\ pc \in {"flushed", "drop"}
                         /\ DOMAIN set = {}
  PROVE  SettingsInv'
<1> DEFINE k == [S!Idle EXCEPT !.pc = pc, !.op = op, !.of = i, !.set = set,
                               !.scopes = scopes, !.loaded = row[i]]
<1>1. row[i] \in S!RowType /\ row[i] # None
  BY DEF S!Load, S!There, SettingsInv, S!TypeOK
<1>2. S!Begin(c, k) /\ UNCHANGED <<kinds, row, told, tip, mingled, untold>>
  BY DEF S!Load
<1>3. /\ k \in S!CallType /\ k.pc = pc /\ k.op = op /\ k.of = i /\ k.set = set
      /\ k.loaded = row[i] /\ k.stale = {}
  BY <1>1, IdleSetting DEF S!CallType, S!Idle
<1> HIDE DEF k
<1>4. /\ change' \in [Calls -> S!CallType] /\ changes' \in 0 .. MaxChanges
      /\ change'[c] = k /\ change[c].pc = "idle"
      /\ \A d \in Calls \ {c} : change'[d] = change[d]
  BY <1>2, <1>3, SettingBegun
<1>5. OfTheirKind(change'[c])
  <2>1. op # None /\ op # "create"
    BY SettingsApart
  <2> QED BY <1>1, <1>3, <1>4, <2>1 DEF OfTheirKind
<1>6. CreationHolds(c)' /\ LoadHolds(c)'
  <2>1. /\ change'[c].op = op /\ op # "create" /\ change'[c].of = i /\ row' = row
        /\ change'[c].loaded = row[i] /\ row[i] # None
    BY <1>1, <1>2, <1>3, <1>4
  <2> QED BY <2>1 DEF CreationHolds, LoadHolds
<1>7. AgentChangeHolds(c)' /\ ~Untold(c)'
  BY <1>3, <1>4 DEF AgentChangeHolds, Untold
<1>8. tip' \in Nat /\ untold \subseteq untold' /\ untold' \subseteq S!Rows /\ UNCHANGED <<row, told, mingled>>
  BY <1>2 DEF SettingsInv, S!TypeOK
<1>9. \A d \in Calls \ {c} : change[d].op = "create" => change'[c].of # change[d].of
  BY <1>1, <1>3, <1>4 DEF SettingsInv, CreationHolds
<1> QED BY <1>4, <1>5, <1>6, <1>7, <1>8, <1>9, SettingStays

(* A request moves on, with its row loaded as it was.                      *)
LEMMA MovesOn ==
  ASSUME SettingsInv, NEW c \in Calls, NEW pc \in {"flushed", "commit"}, NEW at \in Nat,
         \/ change' = [change EXCEPT ![c].pc = pc] /\ change[c].pc = "loaded" /\ change[c].op # "agent"
         \/ change' = [change EXCEPT ![c].pc = pc, ![c].at = at] /\ change[c].pc = "flushed",
         UNCHANGED <<row, told, mingled, untold>>
  PROVE  /\ change' \in [Calls -> S!CallType]
         /\ \A d \in Calls \ {c} : change'[d] = change[d]
         /\ OfTheirKind(change'[c]) /\ CreationHolds(c)' /\ LoadHolds(c)' /\ AgentChangeHolds(c)'
         /\ change'[c].of = change[c].of /\ change'[c].op = change[c].op
         /\ Untold(c)' => Untold(c)
<1>1. /\ change \in [Calls -> S!CallType] /\ change[c] \in S!CallType
      /\ OfTheirKind(change[c]) /\ CreationHolds(c) /\ LoadHolds(c) /\ AgentChangeHolds(c)
  BY DEF SettingsInv, S!TypeOK
<1>2. PICK k \in S!CallType :
        /\ change' = [change EXCEPT ![c] = k]
        /\ k.pc = pc /\ k.op = change[c].op /\ k.of = change[c].of /\ k.set = change[c].set
        /\ k.loaded = change[c].loaded /\ k.stale = change[c].stale
  <2>1. CASE change' = [change EXCEPT ![c].pc = pc]
    <3> DEFINE k == [change[c] EXCEPT !.pc = pc]
    <3>1. /\ k \in S!CallType
          /\ k.pc = pc /\ k.op = change[c].op /\ k.of = change[c].of /\ k.set = change[c].set
          /\ k.loaded = change[c].loaded /\ k.stale = change[c].stale
      BY <1>1 DEF S!CallType
    <3>2. change' = [change EXCEPT ![c] = k]
      BY <2>1
    <3> QED BY <3>1, <3>2
  <2>2. CASE change' = [change EXCEPT ![c].pc = pc, ![c].at = at]
    <3> DEFINE k == [change[c] EXCEPT !.pc = pc, !.at = at]
    <3>1. /\ k \in S!CallType
          /\ k.pc = pc /\ k.op = change[c].op /\ k.of = change[c].of /\ k.set = change[c].set
          /\ k.loaded = change[c].loaded /\ k.stale = change[c].stale
      BY <1>1 DEF S!CallType
    <3>2. change' = [change EXCEPT ![c] = k]
      BY <1>1, <2>2
    <3> QED BY <3>1, <3>2
  <2> QED BY <2>1, <2>2
<1>3. /\ change' \in [Calls -> S!CallType] /\ change'[c] = k
      /\ \A d \in Calls \ {c} : change'[d] = change[d]
  BY <1>1, <1>2
<1>4. change[c].pc \in {"loaded", "flushed"} /\ (change[c].pc = "loaded" => change[c].op # "agent")
  OBVIOUS
<1>5. OfTheirKind(change'[c])
  <2>1. change[c].op = "create" => change[c].pc = "flushed"
    BY <1>1, <1>4 DEF OfTheirKind
  <2> QED BY <1>1, <1>2, <1>3, <1>4, <2>1 DEF OfTheirKind
<1>6. CreationHolds(c)'
  <2>1. row' = row
    OBVIOUS
  <2> QED BY <1>1, <1>2, <1>3, <1>4, <2>1 DEF CreationHolds, S!There
<1>7. LoadHolds(c)'
  BY <1>1, <1>2, <1>3 DEF LoadHolds
<1>8. AgentChangeHolds(c)' /\ (Untold(c)' => Untold(c))
  <2>1. \A d \in Calls \ {c} : Untold(d)' <=> Untold(d)
    BY <1>3 DEF Untold
  <2>2. Untold(c)' => Untold(c)
    BY <1>2, <1>3, <1>4 DEF Untold
  <2>3. \A i, f : S!Last(i, f)' = S!Last(i, f)
    BY DEF S!Last
  <2> QED BY <1>1, <1>2, <1>3, <2>1, <2>2, <2>3 DEF AgentChangeHolds
<1> QED BY <1>2, <1>3, <1>5, <1>6, <1>7, <1>8

(* The flush, the reading of the chain, and the end of a request.          *)
LEMMA SettingEnds ==
  ASSUME SettingsInv, NEW c \in Calls, change' = [change EXCEPT ![c] = S!Idle],
         UNCHANGED <<row, told, tip, changes, mingled>>, change[c].pc # "idle",
         untold' = IF change[c].pc = "drop" THEN untold \cup {change[c].of} ELSE untold
  PROVE  SettingsInv'
<1>1. /\ change \in [Calls -> S!CallType] /\ untold \subseteq S!Rows
      /\ tip \in Nat /\ changes \in 0 .. MaxChanges
  BY DEF SettingsInv, S!TypeOK
<1>2. /\ change' \in [Calls -> S!CallType] /\ change'[c] = S!Idle
      /\ \A d \in Calls \ {c} : change'[d] = change[d]
  BY <1>1, IdleSetting
<1>3. /\ OfTheirKind(change'[c]) /\ CreationHolds(c)'
      /\ LoadHolds(c)' /\ AgentChangeHolds(c)' /\ ~Untold(c)'
  BY <1>2, IdleHolds
<1>4. change[c].of \in S!Rows
  BY DEF SettingsInv, OfTheirKind
<1>5. /\ untold \subseteq untold' /\ untold' \subseteq S!Rows
      /\ change[c].pc = "drop" => change[c].of \in untold'
  BY <1>1, <1>4
<1>6. \A d \in Calls \ {c} : change[d].op = "create" => change'[c].of # change[d].of
  <2>1. None \notin S!Rows
    BY AgentsMCAssumption DEF S!SettingsAssumption
  <2>2. \A d \in Calls : change[d].op = "create" => change[d].of \in S!Rows
    BY IdleSetting, SettingsApart DEF SettingsInv, OfTheirKind, S!Rows
  <2> QED BY <1>2, <2>1, <2>2, IdleSetting
<1>7. tip' \in Nat /\ changes' \in 0 .. MaxChanges /\ UNCHANGED <<row, told, mingled>>
  BY <1>1
<1> QED BY <1>2, <1>3, <1>5, <1>6, <1>7, SettingStays

(* A handler fails.                                                        *)
LEMMA SettingFail ==
  ASSUME SettingsInv, NEW c \in Calls, S!Fail(c) PROVE SettingsInv'
BY SettingEnds DEF S!Fail, S!Ends

(* A handler flushes its row, or reads the tip of the chain.               *)
LEMMA SettingMoves ==
  ASSUME SettingsInv, NEW c \in Calls, S!Flush(c) \/ S!ReadTip(c) PROVE SettingsInv'
<1>0. CASE S!Flush(c) /\ change' = [change EXCEPT ![c] = S!Idle]
  <2>1. change[c].pc = "loaded" /\ UNCHANGED <<row, told, tip, changes, mingled, untold>>
    BY <1>0 DEF S!Flush
  <2> QED BY <1>0, <2>1, SettingEnds
<1>1. tip \in Nat /\ changes \in 0 .. MaxChanges /\ untold \subseteq S!Rows
  BY DEF SettingsInv, S!TypeOK
<1>2. CASE ~(S!Flush(c) /\ change' = [change EXCEPT ![c] = S!Idle])
  <2>1. \E pc \in {"flushed", "commit"}, at \in Nat :
          \/ change' = [change EXCEPT ![c].pc = pc] /\ change[c].pc = "loaded" /\ change[c].op # "agent"
          \/ change' = [change EXCEPT ![c].pc = pc, ![c].at = at] /\ change[c].pc = "flushed"
    <3>1. CASE S!Flush(c)
      <4>1. /\ change' = [change EXCEPT ![c].pc = "flushed"]
            /\ change[c].pc = "loaded" /\ change[c].op # "agent"
        BY <1>2, <3>1 DEF S!Flush, S!Ends
      <4> QED BY <1>1, <4>1
    <3>2. CASE S!ReadTip(c)
      BY <1>1, <3>2 DEF S!ReadTip
    <3> QED BY <3>1, <3>2
  <2>2. UNCHANGED <<row, told, tip, changes, mingled, untold>> /\ change[c].pc \in {"loaded", "flushed"}
    BY DEF S!Flush, S!ReadTip
  <2>3. /\ change' \in [Calls -> S!CallType]
        /\ \A d \in Calls \ {c} : change'[d] = change[d]
        /\ OfTheirKind(change'[c]) /\ CreationHolds(c)' /\ LoadHolds(c)' /\ AgentChangeHolds(c)'
        /\ change'[c].of = change[c].of /\ change'[c].op = change[c].op
        /\ Untold(c)' => Untold(c)
    BY <2>1, <2>2, MovesOn
  <2>4. \A d \in Calls \ {c} : change[d].op = "create" => change'[c].of # change[d].of
    BY <2>3 DEF SettingsInv, CreationHolds
  <2>5. /\ tip' \in Nat /\ changes' \in 0 .. MaxChanges /\ UNCHANGED <<row, told, mingled>>
        /\ untold \subseteq untold' /\ untold' \subseteq S!Rows
    BY <1>1, <2>2
  <2>6. change[c].pc = "drop" =>
          change[c].of \in untold' \/ (change'[c].pc = "drop" /\ change'[c].of = change[c].of)
    BY <2>2
  <2> QED BY <2>3, <2>4, <2>5, <2>6, SettingStays
<1> QED BY <1>0, <1>2

(* A request that does not move knows what it knew, if its row is changed  *)
(* only where it is told so.                                               *)
LEMMA RequestStays ==
  ASSUME SettingsInv, NEW d \in Calls, NEW i, i = change[d].of,
         change'[d].pc = change[d].pc, change'[d].op = change[d].op, change'[d].of = i,
         change'[d].set = change[d].set, change'[d].loaded = change[d].loaded,
         change[d].stale \subseteq change'[d].stale,
         change[d].pc = "idle" => change'[d] = change[d],
         change[d].op = "create" =>
           /\ row'[i] = row[i]
           /\ \A e \in Calls \ {d} : change[e].of # i => change'[e].of # i,
         \A j \in Integrations :
           change[d].op = "create" /\ change[d].loaded.of = j /\ row[j] # None /\ row[j].there =>
             row'[j] # None /\ row'[j].there,
         change[d].pc # "idle" /\ row[i] # None => row'[i] # None,
         change[d].op \in {"update", "server", "tool"} =>
           \A f \in S!Fields \ change'[d].stale : row'[i].fields[f] = row[i].fields[f],
         change[d].op = "tool" /\ "scopes" \notin change'[d].stale => row'[i].scopes = row[i].scopes,
         Untold(d) /\ i \notin mingled' =>
           /\ i \notin mingled /\ i \in untold'
           /\ \A e \in Calls \ {d} : Untold(e)' /\ change'[e].of = i => Untold(e) /\ change[e].of = i
           /\ \A f \in S!Fields : /\ row'[i].fields[f] = row[i].fields[f]
                                  /\ f \notin DOMAIN change[d].set => S!Last(i, f)' = S!Last(i, f)
  PROVE  OfTheirKind(change'[d]) /\ CreationHolds(d)' /\ LoadHolds(d)' /\ AgentChangeHolds(d)'
<1>1. OfTheirKind(change[d]) /\ CreationHolds(d) /\ LoadHolds(d) /\ AgentChangeHolds(d)
  BY DEF SettingsInv
<1>2. OfTheirKind(change'[d])
  <2>1. CASE change[d].pc = "idle"
    BY <1>1, <2>1
  <2>2. CASE change[d].pc # "idle"
    BY <1>1, <2>2 DEF OfTheirKind
  <2> QED BY <2>1, <2>2
<1>3. CreationHolds(d)'
  <2>1. CASE change[d].op = "create"
    <3>1. /\ row'[i] = None /\ \A e \in Calls \ {d} : change'[e].of # i
          /\ change[d].set = change[d].loaded.fields /\ change[d].loaded.there
      BY <1>1, <2>1 DEF CreationHolds
    <3>2. change[d].loaded \in S!RowType
      BY <1>1, <2>1 DEF OfTheirKind
    <3>3. change[d].loaded.of # None => change[d].loaded.of \in Integrations
      BY <3>2 DEF S!RowType
    <3>4. change[d].loaded.of # None =>
            row'[change[d].loaded.of] # None /\ row'[change[d].loaded.of].there
      BY <1>1, <2>1, <3>3 DEF CreationHolds, S!There
    <3> QED BY <2>1, <3>1, <3>4 DEF CreationHolds, S!There
  <2>2. CASE change[d].op # "create"
    BY <1>1, <2>2 DEF CreationHolds
  <2> QED BY <2>1, <2>2
<1>4. LoadHolds(d)'
  <2>1. change[d].op \in {"update", "server", "tool"} =>
          \A f \in S!Fields \ change'[d].stale : row'[i].fields[f] = change[d].loaded.fields[f]
    BY <1>1 DEF LoadHolds
  <2>2. change[d].op = "tool" /\ "scopes" \notin change'[d].stale => row'[i].scopes = change[d].loaded.scopes
    BY <1>1 DEF LoadHolds
  <2> QED BY <2>1, <2>2 DEF LoadHolds
<1>5. AgentChangeHolds(d)'
  <2>1. Untold(d)' <=> Untold(d)
    BY DEF Untold
  <2>2. ASSUME Untold(d), i \notin mingled'
        PROVE  /\ i \in untold' /\ \A e \in Calls \ {d} : Untold(e)' => change'[e].of # i
               /\ \A f \in S!Fields :
                    row'[i].fields[f] = IF f \in DOMAIN change[d].set THEN change[d].set[f] ELSE S!Last(i, f)'
    <3>1. /\ \A e \in Calls \ {d} : Untold(e) => change[e].of # i
          /\ \A f \in S!Fields :
               row[i].fields[f] = IF f \in DOMAIN change[d].set THEN change[d].set[f] ELSE S!Last(i, f)
      BY <1>1, <2>2 DEF AgentChangeHolds
    <3> QED BY <2>2, <3>1
  <2>3. \A f : S!Last(change[d].of, f)' = S!Last(i, f)'
    BY DEF S!Last
  <2> QED BY <2>1, <2>2, <2>3 DEF AgentChangeHolds
<1> QED BY <1>2, <1>3, <1>4, <1>5

(* What is asked is a value for some fields.                               *)
LEMMA AskedIs ==
  ASSUME NEW set \in S!Asked
  PROVE  DOMAIN set \subseteq S!Fields /\ \A f \in DOMAIN set : set[f] \in BOOLEAN
BY DEF S!Asked

(* What is written is what is asked where it differs, and else what is     *)
(* stored.                                                                 *)
LEMMA WrittenIs ==
  ASSUME NEW k \in S!CallType, NEW stored \in S!Values
  PROVE  /\ S!Changed(k) \subseteq DOMAIN k.set /\ S!Changed(k) \subseteq S!Fields
         /\ \A f \in DOMAIN k.set : f \notin S!Changed(k) => k.set[f] = k.loaded.fields[f]
         /\ S!Written(k, stored) \in S!Values
         /\ \A f \in S!Fields :
              S!Written(k, stored)[f] = IF f \in S!Changed(k) THEN k.set[f] ELSE stored[f]
<1>1. k.set \in S!Asked
  BY DEF S!CallType
<1>2. DOMAIN k.set \subseteq S!Fields /\ \A f \in DOMAIN k.set : k.set[f] \in BOOLEAN
  BY <1>1, AskedIs
<1>3. /\ S!Changed(k) \subseteq DOMAIN k.set
      /\ \A f \in DOMAIN k.set : f \notin S!Changed(k) => k.set[f] = k.loaded.fields[f]
  BY DEF S!Changed
<1> QED BY <1>2, <1>3 DEF S!Written, S!Values

(* An agent is there.                                                      *)
LEMMA SettingAgentThere ==
  ASSUME SettingsInv, NEW i \in S!Rows, NEW v \in S!Values, NEW what \in {"created", "silent"},
         S!AgentThere(i, v, what)
  PROVE  SettingsInv'
<1> DEFINE new == S!New(v, None)
           e == [what |-> what, set |-> v, scopes |-> {}]
<1>1. new \in S!RowType /\ new.fields = v /\ new.there
  BY DEF S!New, S!RowType
<1>2. e \in S!ChangeType /\ e.set = v /\ DOMAIN v = S!Fields
  BY DEF S!ChangeType, S!Values, S!Asked
<1>3. /\ i \in Listed /\ row[i] = None
      /\ row' = [row EXCEPT ![i] = new] /\ told' = [told EXCEPT ![i] = <<e>>]
      /\ UNCHANGED <<kinds, tip, change, changes, mingled, untold>>
  BY DEF S!AgentThere
<1> HIDE DEF new, e
<1>4. /\ row \in [S!Rows -> S!RowType \cup {None}] /\ told \in [S!Rows -> Seq(S!ChangeType)]
  BY DEF SettingsInv, S!TypeOK
<1>5. /\ row'[i] = new /\ \A j \in S!Rows \ {i} : row'[j] = row[j] /\ told'[j] = told[j]
      /\ row' \in [S!Rows -> S!RowType \cup {None}]
  BY <1>1, <1>3, <1>4
<1>6. told[i] = <<>> /\ told'[i] = Append(told[i], e)
  <2>1. told[i] = <<>>
    BY <1>3 DEF SettingsInv, RowTold
  <2>2. told'[i] = <<e>>
    BY <1>3, <1>4
  <2>3. Append(<<>>, e) = <<e>>
    OBVIOUS
  <2> QED BY <2>1, <2>2, <2>3
<1>7. /\ told'[i] \in Seq(S!ChangeType)
      /\ \E k \in DOMAIN told'[i] : told'[i][k] = e
      /\ \A f \in S!Fields : S!Last(i, f)' = v[f]
  <2>1. told[i] \in Seq(S!ChangeType)
    BY <1>4
  <2>2. /\ told'[i] \in Seq(S!ChangeType)
        /\ \E k \in DOMAIN told'[i] : told'[i][k] = e
        /\ \A f : f \in DOMAIN e.set => S!Last(i, f)' = e.set[f]
    BY <1>2, <1>6, <2>1, ToldMore
  <2> QED BY <1>2, <2>2
<1>8. told' \in [S!Rows -> Seq(S!ChangeType)]
  BY <1>3, <1>4, <1>5, <1>7
<1>9. S!TypeOK'
  BY <1>3, <1>5, <1>8 DEF SettingsInv, S!TypeOK
<1>10. \A j \in S!Rows \ {i} : \A f : S!Last(j, f)' = S!Last(j, f)
  BY <1>5 DEF S!Last
<1>11. i \notin Servers /\ i \notin Tools /\ i # r1 /\ i \notin Integrations /\ new # None
  BY <1>1, <1>3, SettingsApart
<1>12. S!GoneAsTold'
  <2> SUFFICES ASSUME NEW j \in Servers \ untold', S!There(j)',
                      \E k \in DOMAIN told'[j] : told'[j][k].what = "deleted"
               PROVE  \E d \in Calls : change'[d].pc = "drop" /\ change'[d].of = j
    BY DEF S!GoneAsTold
  <2>1. j # i /\ row'[j] = row[j] /\ told'[j] = told[j]
    BY <1>5, <1>11 DEF S!Rows
  <2>2. S!There(j) /\ \E k \in DOMAIN told[j] : told[j][k].what = "deleted"
    BY <2>1 DEF S!There
  <2> QED BY <1>3, <2>2 DEF SettingsInv, S!GoneAsTold
<1>13. S!RulesRest'
  <2>1. r1 \in S!Rows /\ Integrations \subseteq S!Rows
    BY DEF S!Rows
  <2>2. row'[r1] = row[r1] /\ \A j \in Integrations : row'[j] = row[j]
    BY <1>5, <1>11, <2>1
  <2>3. row[r1] # None => row[r1].of \in Integrations \cup {None}
    BY <1>4, <2>1 DEF S!RowType
  <2>4. S!There(r1) /\ row[r1].of # None => S!There(row[r1].of)
    BY DEF SettingsInv, S!RulesRest
  <2> QED BY <2>2, <2>3, <2>4 DEF S!RulesRest, S!There
<1>14. ASSUME NEW j \in S!Rows PROVE RowTold(j)' /\ AsTold(j)'
  <2>1. CASE j = i
    <3>1. RowTold(i)'
      BY <1>1, <1>2, <1>5, <1>7, <1>11 DEF RowTold
    <3>2. AsTold(i)'
      BY <1>1, <1>5, <1>7, <1>11 DEF AsTold
    <3> QED BY <2>1, <3>1, <3>2
  <2>2. CASE j # i
    <3>1. RowTold(j) /\ AsTold(j) /\ row'[j] = row[j] /\ told'[j] = told[j]
      BY <1>5, <2>2 DEF SettingsInv
    <3>2. RowTold(j)'
      BY <3>1 DEF RowTold
    <3>3. AsTold(j)'
      BY <1>3, <1>10, <2>2, <3>1 DEF AsTold, S!There, S!Names
    <3> QED BY <3>2, <3>3
  <2> QED BY <2>1, <2>2
<1>15. ASSUME NEW d \in Calls
       PROVE  OfTheirKind(change'[d]) /\ CreationHolds(d)' /\ LoadHolds(d)' /\ AgentChangeHolds(d)'
  <2>1. PICK j : j = change[d].of
    OBVIOUS
  <2>2. OfTheirKind(change[d]) /\ CreationHolds(d)
    BY DEF SettingsInv
  <2>3. change[d].pc # "idle" => j \in S!Rows /\ j # i
    BY <1>3, <1>11, <2>1, <2>2 DEF OfTheirKind, CreationHolds
  <2>4. change[d].pc # "idle" => row'[j] = row[j] /\ \A f : S!Last(j, f)' = S!Last(j, f)
    BY <1>5, <1>10, <2>3
  <2>5. change[d].pc = "idle" => change[d].op = None
    BY <2>2, IdleSetting DEF OfTheirKind
  <2>6. change[d].op = "create" =>
          /\ row'[j] = row[j]
          /\ \A g \in Calls \ {d} : change[g].of # j => change'[g].of # j
    BY <1>3, <2>4, <2>5, SettingsApart
  <2>7. \A h \in Integrations :
          change[d].op = "create" /\ change[d].loaded.of = h /\ row[h] # None /\ row[h].there =>
            row'[h] # None /\ row'[h].there
    <3>1. \A h \in Integrations : row'[h] = row[h]
      BY <1>5, <1>11 DEF S!Rows
    <3> QED BY <3>1
  <2>8. change[d].pc # "idle" /\ row[j] # None => row'[j] # None
    BY <2>4
  <2>9. /\ change[d].op \in {"update", "server", "tool"} =>
             \A f \in S!Fields \ change'[d].stale : row'[j].fields[f] = row[j].fields[f]
        /\ change[d].op = "tool" /\ "scopes" \notin change'[d].stale => row'[j].scopes = row[j].scopes
    BY <2>4, <2>5, SettingsApart
  <2>10. Untold(d) /\ j \notin mingled' =>
           /\ j \notin mingled /\ j \in untold'
           /\ \A g \in Calls \ {d} : Untold(g)' /\ change'[g].of = j => Untold(g) /\ change[g].of = j
           /\ \A f \in S!Fields : /\ row'[j].fields[f] = row[j].fields[f]
                                  /\ f \notin DOMAIN change[d].set => S!Last(j, f)' = S!Last(j, f)
    <3>1. Untold(d) /\ j \notin mingled => j \in untold /\ change[d].pc # "idle"
      BY <2>1 DEF SettingsInv, AgentChangeHolds, Untold
    <3>2. \A g \in Calls : Untold(g)' <=> Untold(g)
      BY <1>3 DEF Untold
    <3> QED BY <1>3, <2>4, <3>1, <3>2
  <2>11. change' = change
    BY <1>3
  <2> QED BY <2>1, <2>6, <2>7, <2>8, <2>9, <2>10, <2>11, RequestStays
<1> QED BY <1>9, <1>12, <1>13, <1>14, <1>15 DEF SettingsInv

(* An import sets the name of an agent, and records nothing.               *)
LEMMA SettingImportName ==
  ASSUME SettingsInv, NEW i \in S!Rows, NEW name \in BOOLEAN, S!ImportName(i, name)
  PROVE  SettingsInv'
<1> DEFINE set == [f \in {"action"} |-> name]
           e == [what |-> "silent", set |-> set, scopes |-> {}]
           v == [row[i].fields EXCEPT !["action"] = name]
           new == [row[i] EXCEPT !.fields = v]
<1>1. /\ i \in Listed /\ row[i] # None /\ row[i].there
      /\ row' = [row EXCEPT ![i] = new] /\ told' = [told EXCEPT ![i] = Append(told[i], e)]
      /\ mingled \subseteq mingled' /\ mingled' \subseteq mingled \cup {i}
      /\ i \in untold => i \in mingled'
      /\ changes < MaxChanges /\ changes' = changes + 1
      /\ UNCHANGED <<kinds, tip, change, untold>>
  BY DEF S!ImportName, S!There
<1>2. /\ row \in [S!Rows -> S!RowType \cup {None}] /\ told \in [S!Rows -> Seq(S!ChangeType)]
      /\ changes \in 0 .. MaxChanges /\ mingled \subseteq S!Rows
  BY DEF SettingsInv, S!TypeOK
<1>3. set \in S!Asked /\ DOMAIN set = {"action"} /\ set["action"] = name /\ "action" \in S!Fields
  <2>1. set \in [{"action"} -> BOOLEAN] /\ {"action"} \in SUBSET S!Fields
    BY DEF S!Fields
  <2> HIDE DEF set
  <2>2. set \in S!Asked
    BY <2>1 DEF S!Asked
  <2> QED BY <2>1, <2>2 DEF set
<1>4. e \in S!ChangeType /\ e.set = set /\ e.what # "deleted"
  <2> HIDE DEF set
  <2> QED BY <1>3 DEF S!ChangeType
<1>5. row[i] \in S!RowType
  BY <1>1, <1>2
<1>6. /\ v \in S!Values /\ v["action"] = name
      /\ \A f \in S!Fields : f # "action" => v[f] = row[i].fields[f]
  BY <1>3, <1>5 DEF S!RowType, S!Values
<1> HIDE DEF v, set, e
<1>7. new \in S!RowType /\ new.fields = v /\ new.there /\ new.of = row[i].of
  BY <1>1, <1>5, <1>6 DEF S!RowType
<1> HIDE DEF new
<1>8. /\ row'[i] = new /\ \A j \in S!Rows \ {i} : row'[j] = row[j] /\ told'[j] = told[j]
      /\ row' \in [S!Rows -> S!RowType \cup {None}]
      /\ told[i] \in Seq(S!ChangeType) /\ told'[i] = Append(told[i], e)
  BY <1>1, <1>2, <1>7
<1>9. /\ told'[i] \in Seq(S!ChangeType)
      /\ \A k \in DOMAIN told[i] : k \in DOMAIN told'[i] /\ told'[i][k] = told[i][k]
      /\ \A f : f \in DOMAIN e.set => S!Last(i, f)' = e.set[f]
      /\ \A f : f \notin DOMAIN e.set /\ (\E k \in DOMAIN told[i] : f \in DOMAIN told[i][k].set) =>
           S!Last(i, f)' = S!Last(i, f)
  BY <1>4, <1>8, ToldMore
<1>10. PICK k \in DOMAIN told[i] : DOMAIN told[i][k].set = S!Fields
  BY <1>1 DEF SettingsInv, RowTold
<1>11. /\ S!Last(i, "action")' = name
       /\ \A f \in S!Fields : f # "action" => S!Last(i, f)' = S!Last(i, f)
  BY <1>3, <1>4, <1>9, <1>10
<1>12. told' \in [S!Rows -> Seq(S!ChangeType)]
  BY <1>1, <1>2, <1>8, <1>9
<1>13. S!TypeOK'
  <2>1. changes' \in 0 .. MaxChanges
    BY <1>1, <1>2, SettingsApart
  <2>2. mingled' \subseteq S!Rows
    BY <1>1, <1>2
  <2> QED BY <1>1, <1>8, <1>12, <2>1, <2>2 DEF SettingsInv, S!TypeOK
<1>14. \A j \in S!Rows \ {i} : \A f : S!Last(j, f)' = S!Last(j, f)
  BY <1>8 DEF S!Last
<1>15. i \notin Servers /\ i \notin Tools /\ i # r1 /\ i \notin Integrations /\ new # None
  BY <1>1, <1>7, SettingsApart
<1>16. S!GoneAsTold'
  <2> SUFFICES ASSUME NEW j \in Servers \ untold', S!There(j)',
                      \E m \in DOMAIN told'[j] : told'[j][m].what = "deleted"
               PROVE  \E d \in Calls : change'[d].pc = "drop" /\ change'[d].of = j
    BY DEF S!GoneAsTold
  <2>1. j # i /\ row'[j] = row[j] /\ told'[j] = told[j]
    BY <1>8, <1>15 DEF S!Rows
  <2>2. S!There(j) /\ \E m \in DOMAIN told[j] : told[j][m].what = "deleted"
    BY <2>1 DEF S!There
  <2> QED BY <1>1, <2>2 DEF SettingsInv, S!GoneAsTold
<1>17. S!RulesRest'
  <2>1. r1 \in S!Rows /\ Integrations \subseteq S!Rows
    BY DEF S!Rows
  <2>2. row'[r1] = row[r1] /\ \A j \in Integrations : row'[j] = row[j]
    BY <1>8, <1>15, <2>1
  <2>3. row[r1] # None => row[r1].of \in Integrations \cup {None}
    BY <1>2, <2>1 DEF S!RowType
  <2>4. S!There(r1) /\ row[r1].of # None => S!There(row[r1].of)
    BY DEF SettingsInv, S!RulesRest
  <2> QED BY <2>2, <2>3, <2>4 DEF S!RulesRest, S!There
<1>18. ASSUME NEW j \in S!Rows PROVE RowTold(j)' /\ AsTold(j)'
  <2>1. CASE j = i
    <3>1. RowTold(i)'
      BY <1>7, <1>8, <1>9, <1>10, <1>15 DEF RowTold
    <3>2. ASSUME i \notin mingled', i \notin untold
          PROVE  \A f \in S!Fields : row'[i].fields[f] = S!Last(i, f)'
      <4>1. \A f \in S!Fields : row[i].fields[f] = S!Last(i, f)
        BY <1>1, <3>2 DEF SettingsInv, AsTold, S!There
      <4> QED BY <1>6, <1>7, <1>8, <1>11, <4>1
    <3>3. AsTold(i)'
      BY <1>1, <1>15, <3>2 DEF AsTold
    <3> QED BY <2>1, <3>1, <3>3
  <2>2. CASE j # i
    <3>1. RowTold(j) /\ AsTold(j) /\ row'[j] = row[j] /\ told'[j] = told[j]
      BY <1>8, <2>2 DEF SettingsInv
    <3>2. RowTold(j)'
      BY <3>1 DEF RowTold
    <3>3. AsTold(j)'
      BY <1>1, <1>14, <2>2, <3>1 DEF AsTold, S!There, S!Names
    <3> QED BY <3>2, <3>3
  <2> QED BY <2>1, <2>2
<1>19. ASSUME NEW d \in Calls
       PROVE  OfTheirKind(change'[d]) /\ CreationHolds(d)' /\ LoadHolds(d)' /\ AgentChangeHolds(d)'
  <2>1. PICK j : j = change[d].of
    OBVIOUS
  <2>2. OfTheirKind(change[d]) /\ CreationHolds(d)
    BY DEF SettingsInv
  <2>3. change[d].pc = "idle" => change[d].op = None
    BY <2>2, IdleSetting DEF OfTheirKind
  <2>4. change[d].pc # "idle" => j \in S!Rows
    BY <2>1, <2>2 DEF OfTheirKind
  <2>5. change[d].pc # "idle" /\ j = i => change[d].op \notin {"create", "update", "server", "tool"}
    BY <1>1, <1>15, <2>1, <2>2 DEF OfTheirKind
  <2>6. change[d].op = "create" =>
          /\ row'[j] = row[j]
          /\ \A g \in Calls \ {d} : change[g].of # j => change'[g].of # j
    BY <1>1, <1>8, <2>3, <2>4, <2>5, SettingsApart
  <2>7. \A h \in Integrations :
          change[d].op = "create" /\ change[d].loaded.of = h /\ row[h] # None /\ row[h].there =>
            row'[h] # None /\ row'[h].there
    <3>1. \A h \in Integrations : row'[h] = row[h]
      BY <1>8, <1>15 DEF S!Rows
    <3> QED BY <3>1
  <2>8. change[d].pc # "idle" /\ row[j] # None => row'[j] # None
    BY <1>8, <1>15, <2>4
  <2>9. /\ change[d].op \in {"update", "server", "tool"} =>
             \A f \in S!Fields \ change'[d].stale : row'[j].fields[f] = row[j].fields[f]
        /\ change[d].op = "tool" /\ "scopes" \notin change'[d].stale => row'[j].scopes = row[j].scopes
    BY <1>8, <2>3, <2>4, <2>5, SettingsApart
  <2>10. Untold(d) /\ j \notin mingled' =>
           /\ j \notin mingled /\ j \in untold'
           /\ \A g \in Calls \ {d} : Untold(g)' /\ change'[g].of = j => Untold(g) /\ change[g].of = j
           /\ \A f \in S!Fields : /\ row'[j].fields[f] = row[j].fields[f]
                                  /\ f \notin DOMAIN change[d].set => S!Last(j, f)' = S!Last(j, f)
    <3>1. Untold(d) /\ j \notin mingled' => j \notin mingled /\ j \in untold /\ change[d].pc # "idle"
      BY <1>1, <2>1 DEF SettingsInv, AgentChangeHolds, Untold
    <3>2. \A g \in Calls : Untold(g)' <=> Untold(g)
      BY <1>1 DEF Untold
    <3>3. Untold(d) /\ j \notin mingled' => j # i
      BY <1>1, <3>1
    <3> QED BY <1>1, <1>8, <1>14, <2>4, <3>1, <3>2, <3>3
  <2>11. change' = change
    BY <1>1
  <2> QED BY <2>1, <2>6, <2>7, <2>8, <2>9, <2>10, <2>11, RequestStays
<1> QED BY <1>13, <1>16, <1>17, <1>18, <1>19 DEF SettingsInv

(* A request on row i hears what was changed of it.                        *)
Hears(m, i, parts) == IF m.of = i THEN [m EXCEPT !.stale = @ \cup parts] ELSE m

(* One request goes on or ends, and the others on its row hear of it: they *)
(* are what they were, but for what is stale.                              *)
TellsOthers(c, i, parts) ==
  \A d \in Calls \ {c} :
    /\ change'[d].pc = change[d].pc /\ change'[d].op = change[d].op
    /\ change'[d].of = change[d].of /\ change'[d].set = change[d].set
    /\ change'[d].loaded = change[d].loaded /\ change[d].stale \subseteq change'[d].stale
    /\ change[d].of = i => parts \subseteq change'[d].stale
    /\ change[d].of # i => change'[d] = change[d]

(* A request goes on or ends, and tells the others on its row what it has  *)
(* changed.                                                                *)
LEMMA OthersTold ==
  ASSUME S!TypeOK, NEW c \in Calls, NEW i \in S!Rows, NEW k \in S!CallType,
         NEW parts \in SUBSET (S!Fields \cup {"scopes"}),
         change' = [d \in Calls |-> change'[d]], change'[c] = k,
         \A d \in Calls \ {c} : change'[d] = Hears(change[d], i, parts)
  PROVE  /\ change' \in [Calls -> S!CallType] /\ change'[c] = k
         /\ TellsOthers(c, i, parts)
<1>1. change \in [Calls -> S!CallType]
  BY DEF S!TypeOK
<1>2. ASSUME NEW d \in Calls \ {c}
      PROVE  /\ change'[d] \in S!CallType
             /\ change'[d].pc = change[d].pc /\ change'[d].op = change[d].op
             /\ change'[d].of = change[d].of /\ change'[d].set = change[d].set
             /\ change'[d].loaded = change[d].loaded /\ change[d].stale \subseteq change'[d].stale
             /\ change[d].of = i => parts \subseteq change'[d].stale
             /\ change[d].of # i => change'[d] = change[d]
  <2>1. change[d] \in S!CallType
    BY <1>1
  <2> DEFINE l == [change[d] EXCEPT !.stale = @ \cup parts]
  <2>2. /\ l \in S!CallType /\ l.pc = change[d].pc /\ l.op = change[d].op
        /\ l.of = change[d].of /\ l.set = change[d].set
        /\ l.loaded = change[d].loaded /\ l.stale = change[d].stale \cup parts
    BY <2>1 DEF S!CallType
  <2>3. change'[d] = IF change[d].of = i THEN l ELSE change[d]
    BY DEF Hears
  <2> HIDE DEF l
  <2> QED BY <2>1, <2>2, <2>3
<1>3. change'[c] = k
  OBVIOUS
<1>4. \A d \in Calls : change'[d] \in S!CallType
  BY <1>2, <1>3
<1>5. TellsOthers(c, i, parts)
  BY <1>2 DEF TellsOthers
<1> QED BY <1>3, <1>4, <1>5

(* An agent is changed, and the audit log does not have it yet.            *)
LEMMA SettingChangeAgent ==
  ASSUME SettingsInv, NEW c \in Calls, S!ChangeAgent(c) PROVE SettingsInv'
<1>0. PICK i : i = change[c].of
  OBVIOUS
<1> DEFINE k == change[c]
           diff == S!Changed(k)
           new == [k EXCEPT !.pc = "flushed", !.set = [f \in diff |-> k.set[f]]]
<1>1. /\ k.pc = "loaded" /\ k.op = "agent" /\ k \in S!CallType
      /\ OfTheirKind(k) /\ CreationHolds(c)
  BY DEF S!ChangeAgent, SettingsInv, S!TypeOK
<1>2. i \in Listed /\ i \in S!Rows /\ row[i] \in S!RowType /\ row[i] # None
  BY <1>0, <1>1 DEF OfTheirKind, CreationHolds, SettingsInv, S!TypeOK, S!Rows
<1>3. CASE diff = {}
  <2>1. change' = [change EXCEPT ![c] = S!Idle] /\ UNCHANGED <<row, told, tip, changes, mingled, untold>>
    BY <1>3 DEF S!ChangeAgent, S!Ends
  <2> QED BY <1>1, <2>1, SettingEnds
<1>4. CASE diff # {}
  <2>1. /\ row' = [row EXCEPT ![i].fields = S!Written(k, @)]
        /\ change' = [d \in Calls |->
             IF d = c THEN new
             ELSE IF change[d].of = i THEN [change[d] EXCEPT !.stale = @ \cup diff] ELSE change[d]]
        /\ untold' = untold \cup {i} /\ mingled \subseteq mingled' /\ mingled' \subseteq mingled \cup {i}
        /\ i \in untold => i \in mingled'
        /\ UNCHANGED <<kinds, told, tip, changes>>
    BY <1>0, <1>4 DEF S!ChangeAgent
  <2>2. row[i].fields \in S!Values
    BY <1>2 DEF S!RowType
  <2>3. /\ diff \subseteq DOMAIN k.set /\ diff \subseteq S!Fields
        /\ S!Written(k, row[i].fields) \in S!Values
        /\ \A f \in S!Fields :
             S!Written(k, row[i].fields)[f] = IF f \in diff THEN k.set[f] ELSE row[i].fields[f]
    BY <1>1, <2>2, WrittenIs
  <2>4. [f \in diff |-> k.set[f]] \in S!Asked
    <3>1. \A f \in DOMAIN k.set : k.set[f] \in BOOLEAN
      <4>1. k.set \in S!Asked
        BY <1>1 DEF S!CallType
      <4> QED BY <4>1, AskedIs
    <3>2. [f \in diff |-> k.set[f]] \in [diff -> BOOLEAN]
      BY <2>3, <3>1
    <3> QED BY <2>3, <3>2 DEF S!Asked
  <2>5. /\ new \in S!CallType /\ new.pc = "flushed" /\ new.op = "agent" /\ new.of = i
        /\ new.set = [f \in diff |-> k.set[f]] /\ new.loaded = k.loaded
    BY <1>0, <1>1, <2>4 DEF S!CallType
  <2> HIDE DEF new, diff
  <2>6. /\ change' \in [Calls -> S!CallType] /\ change'[c] = new
        /\ \A d \in Calls \ {c} :
             /\ change'[d].pc = change[d].pc /\ change'[d].op = change[d].op
             /\ change'[d].of = change[d].of /\ change'[d].set = change[d].set
             /\ change'[d].loaded = change[d].loaded /\ change[d].stale \subseteq change'[d].stale
             /\ change[d].of # i => change'[d] = change[d]
    <3>1. diff \in SUBSET (S!Fields \cup {"scopes"}) /\ S!TypeOK
      BY <2>3 DEF SettingsInv
    <3>2. /\ change' = [d \in Calls |-> change'[d]] /\ change'[c] = new
          /\ \A d \in Calls \ {c} : change'[d] = Hears(change[d], i, diff)
      BY <2>1 DEF Hears
    <3>3. new \in S!CallType /\ i \in S!Rows
      BY <1>2, <2>5
    <3>4. TellsOthers(c, i, diff) /\ change' \in [Calls -> S!CallType] /\ change'[c] = new
      BY <3>1, <3>2, <3>3, OthersTold
    <3> QED BY <3>4 DEF TellsOthers
  <2>7. /\ row' \in [S!Rows -> S!RowType \cup {None}]
        /\ row'[i] \in S!RowType /\ row'[i].there = row[i].there /\ row'[i].of = row[i].of
        /\ row'[i].fields = S!Written(k, row[i].fields)
        /\ \A j \in S!Rows \ {i} : row'[j] = row[j]
    <3> DEFINE l == [row[i] EXCEPT !.fields = S!Written(k, row[i].fields)]
    <3>1. /\ l \in S!RowType /\ l.there = row[i].there /\ l.of = row[i].of
          /\ l.fields = S!Written(k, row[i].fields)
      BY <1>2, <2>3 DEF S!RowType
    <3>2. row' = [row EXCEPT ![i] = l]
      BY <2>1
    <3>3. row \in [S!Rows -> S!RowType \cup {None}]
      BY DEF SettingsInv, S!TypeOK
    <3> HIDE DEF l
    <3> QED BY <1>2, <3>1, <3>2, <3>3
  <2>8. S!TypeOK'
    <3>1. mingled' \subseteq S!Rows /\ untold' \subseteq S!Rows
      BY <1>2, <2>1 DEF SettingsInv, S!TypeOK
    <3> QED BY <2>1, <2>6, <2>7, <3>1 DEF SettingsInv, S!TypeOK
  <2>9. \A j, f : S!Last(j, f)' = S!Last(j, f)
    BY <2>1 DEF S!Last
  <2>10. i \notin Servers /\ i \notin Tools /\ i # r1 /\ i \notin Integrations /\ row'[i] # None
    BY <1>2, <2>7, SettingsApart
  <2>11. S!GoneAsTold'
    <3> SUFFICES ASSUME NEW j \in Servers \ untold', S!There(j)',
                        \E n \in DOMAIN told'[j] : told'[j][n].what = "deleted"
                 PROVE  \E d \in Calls : change'[d].pc = "drop" /\ change'[d].of = j
      BY DEF S!GoneAsTold
    <3>1. j \notin untold /\ S!There(j) /\ \E n \in DOMAIN told[j] : told[j][n].what = "deleted"
      BY <2>1, <2>7, <2>10 DEF S!There, S!Rows
    <3>2. PICK d \in Calls : change[d].pc = "drop" /\ change[d].of = j
      BY <3>1 DEF SettingsInv, S!GoneAsTold
    <3> QED BY <1>1, <2>6, <3>2
  <2>12. S!RulesRest'
    <3>1. r1 \in S!Rows /\ Integrations \subseteq S!Rows
      BY DEF S!Rows
    <3>2. row'[r1] = row[r1] /\ \A j \in Integrations : row'[j] = row[j]
      BY <2>7, <2>10, <3>1
    <3>3. row[r1] # None => row[r1].of \in Integrations \cup {None}
      BY <3>1 DEF SettingsInv, S!TypeOK, S!RowType
    <3>4. S!There(r1) /\ row[r1].of # None => S!There(row[r1].of)
      BY DEF SettingsInv, S!RulesRest
    <3> QED BY <3>2, <3>3, <3>4 DEF S!RulesRest, S!There
  <2>13. ASSUME NEW j \in S!Rows PROVE RowTold(j)' /\ AsTold(j)'
    <3>0. RowTold(j) /\ AsTold(j)
      BY DEF SettingsInv
    <3>1. RowTold(j)'
      <4>1. (row'[j] = None <=> row[j] = None) /\ (row[j] # None => row'[j].there = row[j].there)
        BY <1>2, <2>7, <2>10
      <4> QED BY <2>1, <3>0, <4>1 DEF RowTold
    <3>2. CASE j = i
      BY <1>2, <2>1, <3>1, <3>2 DEF AsTold
    <3>3. CASE j # i
      <4>1. row'[j] = row[j] /\ (j \notin mingled' => j \notin mingled) /\ (j \in untold' <=> j \in untold)
        BY <2>1, <2>7, <3>3
      <4> QED BY <2>1, <2>9, <3>0, <3>1, <4>1 DEF AsTold, S!There, S!Names
    <3> QED BY <3>1, <3>2, <3>3
  <2>14. OfTheirKind(change'[c]) /\ CreationHolds(c)' /\ LoadHolds(c)' /\ AgentChangeHolds(c)'
    <3>1. OfTheirKind(change'[c])
      <4>1. k.loaded \in S!RowType
        BY <1>1 DEF OfTheirKind
      <4> QED BY <1>2, <2>5, <2>6, <4>1, SettingsApart DEF OfTheirKind
    <3>2. CreationHolds(c)' /\ LoadHolds(c)'
      BY <2>5, <2>6, <2>10 DEF CreationHolds, LoadHolds
    <3>3. ASSUME i \notin mingled'
          PROVE  /\ i \in untold' /\ \A d \in Calls \ {c} : Untold(d)' => change'[d].of # i
                 /\ \A f \in S!Fields :
                      row'[i].fields[f] = IF f \in DOMAIN change'[c].set THEN change'[c].set[f] ELSE S!Last(i, f)'
      <4>1. i \notin mingled /\ i \notin untold /\ i \in untold'
        BY <2>1, <3>3
      <4>2. \A d \in Calls \ {c} : Untold(d) => change[d].of # i
        BY <4>1 DEF SettingsInv, AgentChangeHolds
      <4>3. \A d \in Calls \ {c} : Untold(d)' => change'[d].of # i
        BY <2>6, <4>2 DEF Untold
      <4>4. S!There(i)
        BY <1>2 DEF SettingsInv, RowTold, S!There
      <4>5. \A f \in S!Fields : row[i].fields[f] = S!Last(i, f)
        BY <1>2, <4>1, <4>4 DEF SettingsInv, AsTold
      <4> QED BY <2>3, <2>5, <2>6, <2>7, <2>9, <4>1, <4>3, <4>5
    <3>4. AgentChangeHolds(c)'
      <4>1. change'[c].of = i /\ \A f : S!Last(change[c].of, f)' = S!Last(i, f)'
        BY <2>5, <2>6 DEF S!Last
      <4> QED BY <3>3, <4>1 DEF AgentChangeHolds
    <3> QED BY <3>1, <3>2, <3>4
  <2>15. ASSUME NEW d \in Calls \ {c}
         PROVE  OfTheirKind(change'[d]) /\ CreationHolds(d)' /\ LoadHolds(d)' /\ AgentChangeHolds(d)'
    <3>1. PICK j : j = change[d].of
      OBVIOUS
    <3>2. OfTheirKind(change[d]) /\ CreationHolds(d) /\ AgentChangeHolds(d)
      BY DEF SettingsInv
    <3>3. change[d].pc = "idle" => j = None /\ change[d].op = None /\ j # i
      BY <1>2, <3>1, <3>2, IdleSetting, SettingsApart DEF OfTheirKind
    <3>4. change[d].pc # "idle" => j \in S!Rows
      BY <3>1, <3>2 DEF OfTheirKind
    <3>5. j = i => change[d].op = "agent"
      BY <1>2, <2>10, <3>1, <3>2, <3>3 DEF OfTheirKind, S!CallType, SettingsInv, S!TypeOK
    <3>6. j # i /\ change[d].pc # "idle" => row'[j] = row[j]
      BY <2>7, <3>4
    <3>7. change'[d].pc = change[d].pc /\ change'[d].op = change[d].op
          /\ change'[d].of = j /\ change'[d].set = change[d].set
          /\ change'[d].loaded = change[d].loaded /\ change[d].stale \subseteq change'[d].stale
      BY <2>6, <3>1
    <3>8. change[d].pc = "idle" => change'[d] = change[d]
      BY <2>6, <3>1, <3>3
    <3>9. change[d].op = "create" =>
            /\ row'[j] = row[j]
            /\ \A g \in Calls \ {d} : change[g].of # j => change'[g].of # j
      BY <1>0, <2>5, <2>6, <3>3, <3>5, <3>6, SettingsApart
    <3>10. \A h \in Integrations :
            change[d].op = "create" /\ change[d].loaded.of = h /\ row[h] # None /\ row[h].there =>
              row'[h] # None /\ row'[h].there
      <4>1. \A h \in Integrations : row'[h] = row[h]
        BY <2>7, <2>10 DEF S!Rows
      <4> QED BY <4>1
    <3>11. change[d].pc # "idle" /\ row[j] # None => row'[j] # None
      BY <2>10, <3>6
    <3>12. /\ change[d].op \in {"update", "server", "tool"} =>
               \A f \in S!Fields \ change'[d].stale : row'[j].fields[f] = row[j].fields[f]
           /\ change[d].op = "tool" /\ "scopes" \notin change'[d].stale => row'[j].scopes = row[j].scopes
      BY <3>3, <3>5, <3>6, SettingsApart
    <3>13. Untold(d) /\ j \notin mingled' =>
             /\ j \notin mingled /\ j \in untold'
             /\ \A g \in Calls \ {d} : Untold(g)' /\ change'[g].of = j => Untold(g) /\ change[g].of = j
             /\ \A f \in S!Fields : /\ row'[j].fields[f] = row[j].fields[f]
                                    /\ f \notin DOMAIN change[d].set => S!Last(j, f)' = S!Last(j, f)
      <4> SUFFICES ASSUME Untold(d), j \notin mingled'
                   PROVE  /\ j \notin mingled /\ j \in untold'
                          /\ \A g \in Calls \ {d} : Untold(g)' /\ change'[g].of = j => Untold(g) /\ change[g].of = j
                          /\ \A f \in S!Fields :
                               /\ row'[j].fields[f] = row[j].fields[f]
                               /\ f \notin DOMAIN change[d].set => S!Last(j, f)' = S!Last(j, f)
        OBVIOUS
      <4>1. j \notin mingled
        BY <2>1
      <4>2. j \in untold
        BY <3>1, <3>2, <4>1 DEF AgentChangeHolds
      <4>3. j # i
        BY <2>1, <4>2
      <4>4. \A g \in Calls \ {d} : Untold(g)' /\ change'[g].of = j => g # c
        BY <2>5, <2>6, <4>3
      <4>5. \A g \in Calls \ {c} : Untold(g)' <=> Untold(g)
        BY <2>6 DEF Untold
      <4>6. change[d].pc # "idle"
        BY DEF Untold
      <4>7. \A g \in Calls \ {d} : Untold(g)' /\ change'[g].of = j => Untold(g) /\ change[g].of = j
        BY <2>6, <4>4, <4>5
      <4> QED BY <2>1, <2>9, <3>6, <4>1, <4>2, <4>3, <4>6, <4>7
    <3> QED BY <3>1, <3>7, <3>8, <3>9, <3>10, <3>11, <3>12, <3>13, RequestStays
  <2> QED BY <2>8, <2>11, <2>12, <2>13, <2>14, <2>15 DEF SettingsInv
<1> QED BY <1>3, <1>4

(* The names of scopes that are inserted together.                         *)
LEMMA NamesOf ==
  ASSUME NEW ps, NEW n PROVE S!Names(ps \X {n}) = ps
<1>1. \A s \in ps \X {n} : s[1] \in ps
  OBVIOUS
<1>2. ASSUME NEW p \in ps PROVE \E s \in ps \X {n} : s[1] = p
  <2>1. <<p, n>> \in ps \X {n} /\ <<p, n>>[1] = p
    OBVIOUS
  <2> QED BY <2>1
<1> QED BY <1>1, <1>2 DEF S!Names

(* A request commits its row and the audit row.                            *)
LEMMA SettingCommit ==
  ASSUME SettingsInv, NEW c \in Calls, S!Commit(c) PROVE SettingsInv'
<1>0. PICK i : i = change[c].of
  OBVIOUS
<1>k. PICK k \in S!CallType : k = change[c]
  BY DEF SettingsInv, S!TypeOK
<1>1. /\ k.pc = "commit" /\ k.op \in {"create", "update", "server", "tool"} /\ k.of = i
      /\ OfTheirKind(k) /\ CreationHolds(c) /\ LoadHolds(c)
  BY <1>0, <1>k DEF S!Commit, SettingsInv
<1>2. i \in S!Rows /\ i \notin Listed /\ k.loaded \in S!RowType /\ k.set \in S!Asked /\ k.scopes \in SUBSET Scopes
  BY <1>1, SettingsApart DEF OfTheirKind, S!CallType
<1>s. PICK stored \in S!RowType : stored = IF k.op = "create" THEN k.loaded ELSE row[i]
  <2>1. k.op # "create" => row[i] \in S!RowType
    BY <1>0, <1>k, <1>1, <1>2 DEF CreationHolds, SettingsInv, S!TypeOK
  <2> QED BY <1>2, <2>1
<1> DEFINE diff == S!Changed(k)
           parts == diff \cup IF k.op = "tool" THEN {"scopes"} ELSE {}
           scopes == IF k.op = "tool" THEN (stored.scopes \ k.loaded.scopes) \cup (k.scopes \X {tip})
                     ELSE IF k.op = "create" THEN k.scopes \X {tip} ELSE stored.scopes
           new == IF ~stored.there THEN stored
                  ELSE [stored EXCEPT !.fields = S!Written(k, @), !.scopes = scopes]
           e == [what |-> IF k.op = "create" THEN "created" ELSE "updated",
                 set |-> k.set, scopes |-> k.scopes]
<1>3. /\ row' = [row EXCEPT ![i] = new]
      /\ tip' = tip + 1 /\ told' = [told EXCEPT ![i] = Append(@, e)]
      /\ mingled' = IF k.stale \cap (DOMAIN k.set \cup {"scopes"}) # {} THEN mingled \cup {i} ELSE mingled
      /\ change' = [d \in Calls |->
           IF d = c THEN S!Idle
           ELSE IF change[d].of = i THEN [change[d] EXCEPT !.stale = @ \cup parts] ELSE change[d]]
      /\ UNCHANGED <<kinds, changes, untold>>
  BY <1>0, <1>k, <1>s DEF S!Commit, S!Recorded, S!EndsOn
<1>4. /\ diff \subseteq DOMAIN k.set /\ diff \subseteq S!Fields
      /\ \A f \in DOMAIN k.set : f \notin diff => k.set[f] = k.loaded.fields[f]
      /\ S!Written(k, stored.fields) \in S!Values
      /\ \A f \in S!Fields :
           S!Written(k, stored.fields)[f] = IF f \in diff THEN k.set[f] ELSE stored.fields[f]
  <2>1. stored.fields \in S!Values
    BY <1>s DEF S!RowType
  <2> QED BY <2>1, WrittenIs
<1>5. /\ tip \in Nat /\ row \in [S!Rows -> S!RowType \cup {None}]
      /\ told \in [S!Rows -> Seq(S!ChangeType)]
  BY DEF SettingsInv, S!TypeOK
<1>6. /\ new \in S!RowType /\ new.there = stored.there /\ new.of = stored.of
      /\ stored.there => new.fields = S!Written(k, stored.fields) /\ new.scopes = scopes
      /\ ~stored.there => new = stored
  <2>1. scopes \in SUBSET (Scopes \X Nat)
    <3>1. stored.scopes \in SUBSET (Scopes \X Nat)
      BY <1>s DEF S!RowType
    <3>2. k.scopes \X {tip} \in SUBSET (Scopes \X Nat)
      BY <1>2, <1>5
    <3> QED BY <3>1, <3>2
  <2> HIDE DEF scopes
  <2>2. [stored EXCEPT !.fields = S!Written(k, @), !.scopes = scopes] \in S!RowType
    BY <1>s, <1>4, <2>1 DEF S!RowType
  <2> QED BY <1>s, <2>2 DEF S!RowType
<1>7. e \in S!ChangeType /\ e.what \in {"created", "updated"} /\ e.set = k.set /\ e.scopes = k.scopes
  BY <1>2 DEF S!ChangeType
<1>8. parts \in SUBSET (S!Fields \cup {"scopes"}) /\ diff \subseteq parts
      /\ (k.op = "tool" => "scopes" \in parts)
  BY <1>4
<1>9. k.op # "tool" /\ k.op # "create" => scopes = stored.scopes
  OBVIOUS
<1> HIDE DEF new, e, diff, parts
<1>10. /\ change' \in [Calls -> S!CallType] /\ change'[c] = S!Idle
       /\ \A d \in Calls \ {c} :
            /\ change'[d].pc = change[d].pc /\ change'[d].op = change[d].op
            /\ change'[d].of = change[d].of /\ change'[d].set = change[d].set
            /\ change'[d].loaded = change[d].loaded /\ change[d].stale \subseteq change'[d].stale
            /\ change[d].of = i => parts \subseteq change'[d].stale
            /\ change[d].of # i => change'[d] = change[d]
  <2>1. S!TypeOK /\ S!Idle \in S!CallType /\ i \in S!Rows
    BY <1>2, IdleSetting DEF SettingsInv
  <2>2. /\ change' = [d \in Calls |-> change'[d]] /\ change'[c] = S!Idle
        /\ \A d \in Calls \ {c} : change'[d] = Hears(change[d], i, parts)
    BY <1>3 DEF Hears
  <2>3. parts \in SUBSET (S!Fields \cup {"scopes"})
    BY <1>8
  <2>4. TellsOthers(c, i, parts) /\ change' \in [Calls -> S!CallType] /\ change'[c] = S!Idle
    BY <2>1, <2>2, <2>3, OthersTold
  <2> QED BY <2>4 DEF TellsOthers
<1>11. /\ row'[i] = new /\ \A j \in S!Rows \ {i} : row'[j] = row[j] /\ told'[j] = told[j]
       /\ row' \in [S!Rows -> S!RowType \cup {None}] /\ told'[i] = Append(told[i], e)
  BY <1>2, <1>3, <1>5, <1>6
<1>12. /\ told'[i] \in Seq(S!ChangeType)
       /\ told'[i][Len(told'[i])] = e
       /\ \A n \in DOMAIN told[i] : n \in DOMAIN told'[i] /\ told'[i][n] = told[i][n]
       /\ \A n \in DOMAIN told'[i] : told'[i][n] = e \/ (n \in DOMAIN told[i] /\ told'[i][n] = told[i][n])
       /\ \E n \in DOMAIN told'[i] : told'[i][n] = e
       /\ \A f : f \in DOMAIN e.set => S!Last(i, f)' = e.set[f]
       /\ \A f : f \notin DOMAIN e.set /\ (\E n \in DOMAIN told[i] : f \in DOMAIN told[i][n].set) =>
            S!Last(i, f)' = S!Last(i, f)
  <2>1. told[i] \in Seq(S!ChangeType)
    BY <1>2, <1>5
  <2> QED BY <1>7, <1>11, <2>1, ToldMore
<1>13. S!TypeOK'
  <2>1. told' \in [S!Rows -> Seq(S!ChangeType)]
    <3>1. \A j \in S!Rows : told'[j] \in Seq(S!ChangeType)
      BY <1>5, <1>11, <1>12
    <3> QED BY <1>3, <1>5, <3>1
  <2>2. tip' \in Nat /\ mingled' \subseteq S!Rows
    BY <1>2, <1>3, <1>5 DEF SettingsInv, S!TypeOK
  <2> QED BY <1>3, <1>10, <1>11, <2>1, <2>2 DEF SettingsInv, S!TypeOK
<1>14. \A j \in S!Rows \ {i} : \A f : S!Last(j, f)' = S!Last(j, f)
  BY <1>11 DEF S!Last
<1>15. /\ k.op = "create" =>
            /\ stored = k.loaded /\ row[i] = None /\ \A d \in Calls \ {c} : change[d].of # i
            /\ k.set = k.loaded.fields /\ k.loaded.there
            /\ k.loaded.of # None => S!There(k.loaded.of)
       /\ k.op # "create" => stored = row[i] /\ row[i] # None
  BY <1>k, <1>s, <1>1 DEF CreationHolds
<1>16. new # None
  BY <1>6, SettingsApart
<1>17. S!GoneAsTold'
  <2> SUFFICES ASSUME NEW j \in Servers \ untold', S!There(j)',
                      \E n \in DOMAIN told'[j] : told'[j][n].what = "deleted"
               PROVE  \E d \in Calls : change'[d].pc = "drop" /\ change'[d].of = j
    BY DEF S!GoneAsTold
  <2>1. j \in S!Rows
    BY DEF S!Rows
  <2>2. S!There(j) /\ \E n \in DOMAIN told[j] : told[j][n].what = "deleted"
    <3>1. CASE j = i
      <4>1. \E n \in DOMAIN told[i] : told[i][n].what = "deleted"
        BY <1>7, <1>12, <3>1
      <4>2. row[i] # None
        <5>1. row[i] = None => told[i] = <<>>
          BY <1>2 DEF SettingsInv, RowTold
        <5> QED BY <4>1, <5>1, IdleSetting
      <4>3. row[i].there
        BY <1>6, <1>11, <1>15, <3>1, <4>2 DEF S!There
      <4> QED BY <3>1, <4>1, <4>2, <4>3 DEF S!There
    <3>2. CASE j # i
      BY <1>11, <2>1, <3>2 DEF S!There
    <3> QED BY <3>1, <3>2
  <2>3. j \notin untold
    BY <1>3
  <2>4. PICK d \in Calls : change[d].pc = "drop" /\ change[d].of = j
    BY <2>2, <2>3 DEF SettingsInv, S!GoneAsTold
  <2>5. d # c
    BY <1>k, <1>1, <2>4
  <2> QED BY <1>10, <2>4, <2>5
<1>18. \A h \in Integrations : row[h] # None /\ row[h].there => row'[h] # None /\ row'[h].there
  <2> SUFFICES ASSUME NEW h \in Integrations, row[h] # None, row[h].there
               PROVE  row'[h] # None /\ row'[h].there
    OBVIOUS
  <2>1. CASE h = i
    BY <1>6, <1>11, <1>15, <1>16, <2>1
  <2>2. CASE h # i
    BY <1>11, <2>2 DEF S!Rows
  <2> QED BY <2>1, <2>2
<1>19. S!RulesRest'
  <2>1. r1 \in S!Rows
    BY DEF S!Rows
  <2>2. ASSUME S!There(r1)', row'[r1].of # None
        PROVE  row'[r1].of \in Integrations /\ row[row'[r1].of] # None /\ row[row'[r1].of].there
    <3>1. CASE r1 = i /\ k.op = "create"
      <4>1. row'[r1].of = k.loaded.of /\ k.loaded.of # None
        BY <1>6, <1>11, <1>15, <2>2, <3>1
      <4>2. k.loaded.of \in Integrations
        BY <1>2, <4>1 DEF S!RowType
      <4> QED BY <1>15, <3>1, <4>1, <4>2 DEF S!There
    <3>2. CASE ~(r1 = i /\ k.op = "create")
      <4>1. row[r1] # None /\ row[r1].there /\ row'[r1].of = row[r1].of
        BY <1>6, <1>11, <1>15, <2>1, <2>2, <3>2 DEF S!There
      <4>2. row[r1].of \in Integrations
        BY <1>5, <2>1, <2>2, <4>1 DEF S!RowType
      <4>3. S!There(row[r1].of)
        BY <2>2, <4>1 DEF SettingsInv, S!RulesRest, S!There
      <4> QED BY <4>1, <4>2, <4>3 DEF S!There
    <3> QED BY <3>1, <3>2
  <2> QED BY <1>18, <2>2 DEF S!RulesRest, S!There
<1>20. RowTold(i)'
  <2>0. RowTold(i)
    BY <1>2 DEF SettingsInv
  <2>1. \E n \in DOMAIN told'[i] : DOMAIN told'[i][n].set = S!Fields
    <3>1. CASE k.op = "create"
      <4>1. DOMAIN e.set = S!Fields
        BY <1>2, <1>7, <1>15, <3>1 DEF S!RowType, S!Values
      <4> QED BY <1>12, <4>1
    <3>2. CASE k.op # "create"
      <4>1. PICK n \in DOMAIN told[i] : DOMAIN told[i][n].set = S!Fields
        BY <1>15, <2>0, <3>2 DEF RowTold
      <4> QED BY <1>12, <4>1
    <3> QED BY <3>1, <3>2
  <2>2. i \in Tools => row'[i].there
    BY <1>6, <1>11, <1>15, <2>0 DEF RowTold
  <2> QED BY <1>2, <1>11, <1>16, <2>1, <2>2 DEF RowTold
<1>21. AsTold(i)'
  <2> SUFFICES ASSUME S!There(i)', i \notin mingled'
               PROVE  /\ \A f \in S!Fields : row'[i].fields[f] = S!Last(i, f)'
                      /\ i \in Tools => S!Names(row'[i].scopes) = told'[i][Len(told'[i])].scopes
    BY DEF AsTold, S!Names
  <2>1. stored.there /\ row'[i].fields = S!Written(k, stored.fields) /\ row'[i].scopes = scopes
    BY <1>6, <1>11 DEF S!There
  <2>2. k.stale \cap (DOMAIN k.set \cup {"scopes"}) = {} /\ i \notin mingled
    BY <1>3
  <2>3. CASE k.op = "create"
    <3>1. k.set = stored.fields /\ DOMAIN k.set = S!Fields
      BY <1>s, <1>15, <2>3 DEF S!RowType, S!Values
    <3>2. \A f \in S!Fields : row'[i].fields[f] = k.set[f]
      BY <1>4, <2>1, <3>1
    <3>3. \A f \in S!Fields : S!Last(i, f)' = k.set[f]
      BY <1>7, <1>12, <3>1
    <3>4. row'[i].scopes = k.scopes \X {tip}
      BY <2>1, <2>3
    <3>5. S!Names(row'[i].scopes) = k.scopes
      BY <3>4, NamesOf
    <3> QED BY <1>7, <1>12, <3>2, <3>3, <3>5
  <2>4. CASE k.op # "create"
    <3>1. stored = row[i] /\ S!There(i)
      BY <1>15, <2>1, <2>4 DEF S!There
    <3>2. \A f \in S!Fields : row[i].fields[f] = S!Last(i, f)
      BY <1>2, <2>2, <3>1 DEF SettingsInv, AsTold
    <3>3. \A f \in S!Fields \ k.stale : row[i].fields[f] = k.loaded.fields[f]
      BY <1>0, <1>k, <1>1, <2>4 DEF LoadHolds
    <3>4. ASSUME NEW f \in S!Fields PROVE row'[i].fields[f] = S!Last(i, f)'
      <4>1. CASE f \in DOMAIN k.set
        <5>1. f \notin k.stale
          BY <2>2, <4>1
        <5>2. row'[i].fields[f] = k.set[f]
          BY <1>4, <2>1, <3>1, <3>3, <4>1, <5>1
        <5>3. S!Last(i, f)' = k.set[f]
          BY <1>7, <1>12, <4>1
        <5> QED BY <5>2, <5>3
      <4>2. CASE f \notin DOMAIN k.set
        <5>1. row'[i].fields[f] = row[i].fields[f]
          BY <1>4, <2>1, <3>1, <4>2
        <5>2. \E n \in DOMAIN told[i] : f \in DOMAIN told[i][n].set
          BY <1>2, <1>15, <2>4 DEF SettingsInv, RowTold
        <5>3. S!Last(i, f)' = S!Last(i, f)
          BY <1>7, <1>12, <4>2, <5>2
        <5> QED BY <3>2, <5>1, <5>3
      <4> QED BY <4>1, <4>2
    <3>5. i \in Tools => S!Names(row'[i].scopes) = told'[i][Len(told'[i])].scopes
      <4>1. i \in Tools => k.op = "tool"
        BY <1>1, <2>4, SettingsApart DEF OfTheirKind
      <4>2. k.op = "tool" => stored.scopes = k.loaded.scopes
        BY <1>0, <1>k, <1>1, <2>2, <3>1 DEF LoadHolds
      <4>3. k.op = "tool" => row'[i].scopes = k.scopes \X {tip}
        BY <2>1, <4>2
      <4>4. S!Names(k.scopes \X {tip}) = k.scopes
        BY NamesOf
      <4> QED BY <1>7, <1>12, <4>1, <4>3, <4>4
    <3> QED BY <3>4, <3>5
  <2> QED BY <2>3, <2>4
<1>22. ASSUME NEW j \in S!Rows, j # i PROVE RowTold(j)' /\ AsTold(j)'
  <2>1. RowTold(j) /\ AsTold(j) /\ row'[j] = row[j] /\ told'[j] = told[j]
    BY <1>11, <1>22 DEF SettingsInv
  <2>2. RowTold(j)'
    BY <2>1 DEF RowTold
  <2>3. (j \notin mingled' => j \notin mingled) /\ untold' = untold
    BY <1>3
  <2>4. AsTold(j)'
    BY <1>14, <1>22, <2>1, <2>3 DEF AsTold, S!There, S!Names
  <2> QED BY <2>2, <2>4
<1>23. OfTheirKind(change'[c]) /\ CreationHolds(c)' /\ LoadHolds(c)' /\ AgentChangeHolds(c)' /\ ~Untold(c)'
  BY <1>10, IdleHolds
<1>24. ASSUME NEW d \in Calls \ {c}
       PROVE  OfTheirKind(change'[d]) /\ CreationHolds(d)' /\ LoadHolds(d)' /\ AgentChangeHolds(d)'
  <2>1. PICK j : j = change[d].of
    OBVIOUS
  <2>2. OfTheirKind(change[d]) /\ CreationHolds(d) /\ AgentChangeHolds(d)
    BY DEF SettingsInv
  <2>3. change[d].pc = "idle" => j = None /\ change[d].op = None /\ j # i
    <3>1. None \notin S!Rows
      BY AgentsMCAssumption DEF S!SettingsAssumption
    <3> QED BY <1>2, <2>1, <2>2, <3>1, IdleSetting DEF OfTheirKind
  <2>4. change[d].pc # "idle" => j \in S!Rows
    BY <2>1, <2>2 DEF OfTheirKind
  <2>5. j # i /\ change[d].pc # "idle" => row'[j] = row[j] /\ \A f : S!Last(j, f)' = S!Last(j, f)
    BY <1>11, <1>14, <2>4
  <2>6. j = i => k.op # "create" /\ row[i] # None /\ change[d].op # "create" /\ change[d].op # "agent"
    <3>1. j = i => k.op # "create"
      BY <1>15, <2>1
    <3>2. j = i => row[i] # None
      BY <1>15, <3>1
    <3>3. j = i => change[d].op # "create"
      BY <2>1, <2>2, <3>2 DEF CreationHolds
    <3>4. j = i => change[d].op # "agent"
      BY <1>2, <2>1, <2>2 DEF OfTheirKind
    <3> QED BY <3>1, <3>2, <3>3, <3>4
  <2>7. /\ change'[d].pc = change[d].pc /\ change'[d].op = change[d].op
        /\ change'[d].of = j /\ change'[d].set = change[d].set
        /\ change'[d].loaded = change[d].loaded /\ change[d].stale \subseteq change'[d].stale
    BY <1>10, <2>1
  <2>8. change[d].pc = "idle" => change'[d] = change[d]
    BY <1>10, <2>1, <2>3
  <2>9. change[d].op = "create" =>
          /\ row'[j] = row[j]
          /\ \A g \in Calls \ {d} : change[g].of # j => change'[g].of # j
    <3>1. change[d].op = "create" => change[d].pc # "idle" /\ j # i /\ j \in S!Rows
      BY <2>3, <2>4, <2>6, SettingsApart
    <3>2. j \in S!Rows => j # None
      BY AgentsMCAssumption DEF S!SettingsAssumption
    <3>3. j \in S!Rows => \A g \in Calls \ {d} : change[g].of # j => change'[g].of # j
      BY <1>10, <3>2, IdleSetting
    <3> QED BY <2>5, <3>1, <3>3
  <2>10. \A h \in Integrations :
          change[d].op = "create" /\ change[d].loaded.of = h /\ row[h] # None /\ row[h].there =>
            row'[h] # None /\ row'[h].there
    BY <1>18
  <2>11. change[d].pc # "idle" /\ row[j] # None => row'[j] # None
    BY <1>11, <1>16, <2>5
  <2>12. j = i => /\ \A f \in S!Fields \ change'[d].stale : row'[i].fields[f] = row[i].fields[f]
                  /\ "scopes" \notin change'[d].stale => row'[i].scopes = row[i].scopes
    <3> SUFFICES ASSUME j = i
                 PROVE  /\ \A f \in S!Fields \ change'[d].stale : row'[i].fields[f] = row[i].fields[f]
                        /\ "scopes" \notin change'[d].stale => row'[i].scopes = row[i].scopes
      OBVIOUS
    <3>1. stored = row[i] /\ parts \subseteq change'[d].stale
      BY <1>10, <1>15, <2>1, <2>6
    <3>2. ~stored.there => row'[i] = row[i]
      BY <1>6, <1>11, <3>1
    <3>3. ASSUME stored.there, NEW f \in S!Fields \ change'[d].stale PROVE row'[i].fields[f] = row[i].fields[f]
      <4>1. f \notin diff
        BY <1>8, <3>1, <3>3
      <4> QED BY <1>4, <1>6, <1>11, <3>1, <3>3, <4>1
    <3>4. stored.there /\ "scopes" \notin change'[d].stale => row'[i].scopes = row[i].scopes
      BY <1>6, <1>8, <1>9, <1>11, <2>6, <3>1
    <3> QED BY <3>2, <3>3, <3>4
  <2>13. /\ change[d].op \in {"update", "server", "tool"} =>
              \A f \in S!Fields \ change'[d].stale : row'[j].fields[f] = row[j].fields[f]
         /\ change[d].op = "tool" /\ "scopes" \notin change'[d].stale => row'[j].scopes = row[j].scopes
    BY <2>3, <2>5, <2>12, SettingsApart
  <2>14. Untold(d) /\ j \notin mingled' =>
           /\ j \notin mingled /\ j \in untold'
           /\ \A g \in Calls \ {d} : Untold(g)' /\ change'[g].of = j => Untold(g) /\ change[g].of = j
           /\ \A f \in S!Fields : /\ row'[j].fields[f] = row[j].fields[f]
                                  /\ f \notin DOMAIN change[d].set => S!Last(j, f)' = S!Last(j, f)
    <3> SUFFICES ASSUME Untold(d), j \notin mingled'
                 PROVE  /\ j \notin mingled /\ j \in untold'
                        /\ \A g \in Calls \ {d} : Untold(g)' /\ change'[g].of = j => Untold(g) /\ change[g].of = j
                        /\ \A f \in S!Fields :
                             /\ row'[j].fields[f] = row[j].fields[f]
                             /\ f \notin DOMAIN change[d].set => S!Last(j, f)' = S!Last(j, f)
      OBVIOUS
    <3>1. j \notin mingled
      BY <1>3
    <3>2. j \in untold' /\ change[d].op = "agent" /\ change[d].pc # "idle"
      BY <1>3, <2>1, <2>2, <3>1 DEF AgentChangeHolds, Untold
    <3>3. j # i
      BY <2>6, <3>2
    <3>4. \A g \in Calls \ {c} : Untold(g)' <=> Untold(g)
      BY <1>10 DEF Untold
    <3>5. \A g \in Calls \ {d} : Untold(g)' /\ change'[g].of = j => Untold(g) /\ change[g].of = j
      BY <1>10, <1>23, <3>4
    <3> QED BY <2>5, <3>1, <3>2, <3>3, <3>5
  <2> QED BY <2>1, <2>7, <2>8, <2>9, <2>10, <2>11, <2>13, <2>14, RequestStays
<1> QED BY <1>13, <1>17, <1>19, <1>20, <1>21, <1>22, <1>23, <1>24 DEF SettingsInv

(* The audit row of an agent after its change, of a server before.         *)
LEMMA SettingRecord ==
  ASSUME SettingsInv, NEW c \in Calls, S!Record(c) PROVE SettingsInv'
<1>0. PICK i : i = change[c].of
  OBVIOUS
<1>k. PICK k \in S!CallType : k = change[c]
  BY DEF SettingsInv, S!TypeOK
<1>1. /\ k.pc = "commit" /\ k.op \in {"agent", "delete"} /\ k.of = i
      /\ OfTheirKind(k) /\ CreationHolds(c) /\ AgentChangeHolds(c)
  BY <1>0, <1>k DEF S!Record, SettingsInv
<1>2. /\ i \in S!Rows /\ i \notin Tools /\ k.set \in S!Asked /\ k.scopes \in SUBSET Scopes
      /\ (k.op = "agent" <=> i \in Listed) /\ row[i] # None
  <2>1. i \in S!Rows /\ k.set \in S!Asked /\ k.scopes \in SUBSET Scopes
    BY <1>1 DEF OfTheirKind, S!CallType
  <2>2. i \notin Tools /\ (k.op = "agent" <=> i \in Listed)
    BY <1>1, SettingsApart DEF OfTheirKind
  <2>3. row[i] # None
    BY <1>0, <1>k, <1>1 DEF CreationHolds
  <2> QED BY <2>1, <2>2, <2>3
<1> DEFINE e == [what |-> IF k.op = "agent" THEN "updated" ELSE "deleted",
                 set |-> k.set, scopes |-> k.scopes]
           new == IF k.op = "agent" THEN S!Idle ELSE [k EXCEPT !.pc = "drop"]
<1>3. /\ tip' = tip + 1 /\ told' = [told EXCEPT ![i] = Append(@, e)]
      /\ change' = [change EXCEPT ![c] = new]
      /\ untold' = IF k.op = "agent" THEN untold \ {i} ELSE untold
      /\ UNCHANGED <<kinds, row, changes, mingled>>
  <2>1. k.op # "agent" => change' = [change EXCEPT ![c].pc = "drop"]
    BY <1>k DEF S!Record
  <2>2. k.op = "agent" => change' = [change EXCEPT ![c] = S!Idle]
    BY <1>k DEF S!Record, S!Ends
  <2>3. change' = [change EXCEPT ![c] = new]
    BY <1>k, <2>1, <2>2
  <2> QED BY <1>0, <1>k, <2>3 DEF S!Record, S!Recorded
<1>4. /\ tip \in Nat /\ told \in [S!Rows -> Seq(S!ChangeType)] /\ change \in [Calls -> S!CallType]
  BY DEF SettingsInv, S!TypeOK
<1>5. e \in S!ChangeType /\ e.set = k.set /\ (e.what = "deleted" => k.op = "delete")
  <2>1. CASE k.op = "agent"
    <3>1. e.what = "updated" /\ e.set = k.set /\ e.scopes = k.scopes
      BY <2>1
    <3>2. e = [what |-> "updated", set |-> k.set, scopes |-> k.scopes]
      BY <2>1
    <3> QED BY <1>2, <3>1, <3>2 DEF S!ChangeType
  <2>2. CASE k.op = "delete"
    <3>1. e = [what |-> "deleted", set |-> k.set, scopes |-> k.scopes]
      BY <2>2
    <3> QED BY <1>2, <2>2, <3>1 DEF S!ChangeType
  <2> QED BY <1>1, <2>1, <2>2
<1>6. new \in S!CallType /\ new.of \in {None, i} /\ (k.op = "agent" => new = S!Idle)
      /\ (k.op = "delete" => /\ new.pc = "drop" /\ new.op = "delete" /\ new.of = i
                             /\ new.set = k.set /\ new.loaded = k.loaded)
  <2>1. CASE k.op = "agent"
    BY <2>1, IdleSetting
  <2>2. CASE k.op # "agent"
    BY <1>1, <2>2 DEF S!CallType
  <2> QED BY <2>1, <2>2
<1> HIDE DEF e, new
<1>7. /\ change' \in [Calls -> S!CallType] /\ change'[c] = new
      /\ \A d \in Calls \ {c} : change'[d] = change[d]
  BY <1>3, <1>4, <1>6
<1>8. told'[i] = Append(told[i], e) /\ \A j \in S!Rows \ {i} : told'[j] = told[j]
  BY <1>2, <1>3, <1>4
<1>9. /\ told'[i] \in Seq(S!ChangeType)
      /\ \A n \in DOMAIN told[i] : n \in DOMAIN told'[i] /\ told'[i][n] = told[i][n]
      /\ \A f : f \in DOMAIN e.set => S!Last(i, f)' = e.set[f]
      /\ \A f : f \notin DOMAIN e.set /\ (\E n \in DOMAIN told[i] : f \in DOMAIN told[i][n].set) =>
           S!Last(i, f)' = S!Last(i, f)
      /\ \A n \in DOMAIN told'[i] : told'[i][n] = e \/ (n \in DOMAIN told[i] /\ told'[i][n] = told[i][n])
  <2>1. told[i] \in Seq(S!ChangeType)
    BY <1>2, <1>4
  <2> QED BY <1>5, <1>8, <2>1, ToldMore
<1>10. S!TypeOK'
  <2>1. told' \in [S!Rows -> Seq(S!ChangeType)]
    <3>1. \A j \in S!Rows : told'[j] \in Seq(S!ChangeType)
      BY <1>4, <1>8, <1>9
    <3> QED BY <1>3, <1>4, <3>1
  <2>2. tip' \in Nat /\ untold' \subseteq S!Rows
    BY <1>3, <1>4 DEF SettingsInv, S!TypeOK
  <2> QED BY <1>3, <1>7, <2>1, <2>2 DEF SettingsInv, S!TypeOK
<1>11. \A j \in S!Rows \ {i} : \A f : S!Last(j, f)' = S!Last(j, f)
  BY <1>8 DEF S!Last
<1>12. \A j : S!There(j)' <=> S!There(j)
  BY <1>3 DEF S!There
<1>13. S!RulesRest'
  <2>1. row' = row
    BY <1>3
  <2> QED BY <2>1 DEF SettingsInv, S!RulesRest, S!There
<1>14. S!GoneAsTold'
  <2> SUFFICES ASSUME NEW j \in Servers \ untold', S!There(j)',
                      \E n \in DOMAIN told'[j] : told'[j][n].what = "deleted"
               PROVE  \E d \in Calls : change'[d].pc = "drop" /\ change'[d].of = j
    BY DEF S!GoneAsTold
  <2>1. j \in S!Rows /\ j \notin Listed
    BY SettingsApart DEF S!Rows
  <2>2. CASE j = i
    BY <1>1, <1>2, <1>6, <1>7, <2>1, <2>2
  <2>3. CASE j # i
    <3>1. S!There(j) /\ j \notin untold /\ \E n \in DOMAIN told[j] : told[j][n].what = "deleted"
      BY <1>3, <1>8, <1>12, <2>1, <2>3
    <3>2. PICK d \in Calls : change[d].pc = "drop" /\ change[d].of = j
      BY <3>1 DEF SettingsInv, S!GoneAsTold
    <3> QED BY <1>k, <1>1, <1>7, <2>3, <3>2
  <2> QED BY <2>2, <2>3
<1>15. RowTold(i)' /\ AsTold(i)'
  <2>0. RowTold(i) /\ AsTold(i)
    BY <1>2 DEF SettingsInv
  <2>1. PICK n \in DOMAIN told[i] : DOMAIN told[i][n].set = S!Fields
    BY <1>2, <2>0 DEF RowTold
  <2>2. RowTold(i)'
    <3>1. n \in DOMAIN told'[i] /\ DOMAIN told'[i][n].set = S!Fields
      BY <1>9, <2>1
    <3> QED BY <1>2, <1>3, <2>0, <3>1 DEF RowTold
  <2>3. ASSUME S!There(i)', i \notin mingled', NEW f \in S!Fields
        PROVE  row'[i].fields[f] = S!Last(i, f)'
    <3>0. row'[i].fields[f] = row[i].fields[f] /\ i \notin mingled /\ S!There(i)
      BY <1>3, <1>12, <2>3
    <3>1. f \notin DOMAIN e.set => S!Last(i, f)' = S!Last(i, f)
      BY <1>9, <2>1
    <3>2. CASE k.op = "agent"
      <4>1. Untold(c)
        BY <1>k, <1>1, <3>2 DEF Untold
      <4>2. row[i].fields[f] = IF f \in DOMAIN k.set THEN k.set[f] ELSE S!Last(i, f)
        BY <1>0, <1>k, <1>1, <3>0, <4>1 DEF AgentChangeHolds
      <4> QED BY <1>5, <1>9, <3>0, <3>1, <4>2
    <3>3. CASE k.op = "delete"
      <4>1. DOMAIN e.set = {}
        BY <1>1, <1>5, <3>3 DEF OfTheirKind
      <4>2. row[i].fields[f] = S!Last(i, f)
        BY <1>2, <2>0, <3>0, <3>3 DEF AsTold
      <4> QED BY <3>0, <3>1, <4>1, <4>2
    <3> QED BY <1>1, <3>2, <3>3
  <2>4. AsTold(i)'
    BY <1>2, <2>3 DEF AsTold
  <2> QED BY <2>2, <2>4
<1>16. ASSUME NEW j \in S!Rows, j # i PROVE RowTold(j)' /\ AsTold(j)'
  <2>1. RowTold(j) /\ AsTold(j) /\ row'[j] = row[j] /\ told'[j] = told[j]
    BY <1>3, <1>8, <1>16 DEF SettingsInv
  <2>2. RowTold(j)'
    BY <2>1 DEF RowTold
  <2>3. mingled' = mingled /\ (j \in untold' <=> j \in untold)
    BY <1>3, <1>16
  <2>4. AsTold(j)'
    BY <1>11, <1>12, <1>16, <2>1, <2>3 DEF AsTold, S!Names
  <2> QED BY <2>2, <2>4
<1>17. OfTheirKind(change'[c]) /\ CreationHolds(c)' /\ LoadHolds(c)' /\ AgentChangeHolds(c)' /\ ~Untold(c)'
  <2>1. CASE k.op = "agent"
    BY <1>6, <1>7, <2>1, IdleHolds
  <2>2. CASE k.op = "delete"
    <3>1. OfTheirKind(change'[c])
      BY <1>1, <1>6, <1>7, <2>2, SettingsApart DEF OfTheirKind
    <3>2. CreationHolds(c)' /\ LoadHolds(c)' /\ AgentChangeHolds(c)' /\ ~Untold(c)'
      BY <1>2, <1>3, <1>6, <1>7, <2>2 DEF CreationHolds, LoadHolds, AgentChangeHolds, Untold
    <3> QED BY <3>1, <3>2
  <2> QED BY <1>1, <2>1, <2>2
<1>18. ASSUME NEW d \in Calls \ {c}
       PROVE  OfTheirKind(change'[d]) /\ CreationHolds(d)' /\ LoadHolds(d)' /\ AgentChangeHolds(d)'
  <2>1. PICK j : j = change[d].of
    OBVIOUS
  <2>2. OfTheirKind(change[d]) /\ CreationHolds(d) /\ AgentChangeHolds(d)
    BY DEF SettingsInv
  <2>3. change[d].pc # "idle" => j \in S!Rows
    BY <2>1, <2>2 DEF OfTheirKind
  <2>4. change'[d] = change[d] /\ row' = row
    BY <1>3, <1>7
  <2>5. change[d].op = "create" => \A g \in Calls \ {d} : change[g].of # j => change'[g].of # j
    <3>1. change[d].op = "create" => j # i /\ j # None
      <4>1. change[d].op = "create" => change[d].pc # "idle"
        BY <2>2, IdleSetting, SettingsApart DEF OfTheirKind
      <4>2. change[d].op = "create" => row[j] = None
        BY <2>1, <2>2 DEF CreationHolds
      <4>3. None \notin S!Rows
        BY AgentsMCAssumption DEF S!SettingsAssumption
      <4> QED BY <1>2, <2>3, <4>1, <4>2, <4>3
    <3> QED BY <1>6, <1>7, <3>1
  <2>6. Untold(d) /\ j \notin mingled' =>
          /\ j \notin mingled /\ j \in untold'
          /\ \A g \in Calls \ {d} : Untold(g)' /\ change'[g].of = j => Untold(g) /\ change[g].of = j
          /\ \A f \in S!Fields : /\ row'[j].fields[f] = row[j].fields[f]
                                 /\ f \notin DOMAIN change[d].set => S!Last(j, f)' = S!Last(j, f)
    <3> SUFFICES ASSUME Untold(d), j \notin mingled'
                 PROVE  /\ j \notin mingled /\ j \in untold'
                        /\ \A g \in Calls \ {d} : Untold(g)' /\ change'[g].of = j => Untold(g) /\ change[g].of = j
                        /\ \A f \in S!Fields :
                             /\ row'[j].fields[f] = row[j].fields[f]
                             /\ f \notin DOMAIN change[d].set => S!Last(j, f)' = S!Last(j, f)
      OBVIOUS
    <3>1. j \notin mingled
      BY <1>3
    <3>2. /\ j \in untold /\ change[d].op = "agent" /\ change[d].pc # "idle"
          /\ \A g \in Calls \ {d} : Untold(g) => change[g].of # j
      BY <2>1, <2>2, <3>1 DEF AgentChangeHolds, Untold
    <3>3. j # i
      <4>1. k.op = "agent" => Untold(c)
        BY <1>k, <1>1 DEF Untold
      <4>2. j = i => k.op = "agent"
        BY <1>2, <2>1, <2>2, <3>2 DEF OfTheirKind
      <4> QED BY <1>0, <3>2, <4>1, <4>2
    <3>4. j \in untold'
      BY <1>3, <3>2, <3>3
    <3>5. \A g \in Calls \ {c} : Untold(g)' <=> Untold(g)
      BY <1>7 DEF Untold
    <3>6. \A g \in Calls \ {d} : Untold(g)' /\ change'[g].of = j => Untold(g) /\ change[g].of = j
      BY <1>7, <1>17, <3>5
    <3> QED BY <1>11, <2>3, <2>4, <3>1, <3>2, <3>3, <3>4, <3>6
  <2> QED BY <2>1, <2>4, <2>5, <2>6, RequestStays
<1> QED BY <1>10, <1>13, <1>14, <1>15, <1>16, <1>17, <1>18 DEF SettingsInv

(* A row goes, an integration with its rules.                              *)
LEMMA SettingDrop ==
  ASSUME SettingsInv, NEW c \in Calls, S!Drop(c) PROVE SettingsInv'
<1>0. PICK i : i = change[c].of
  OBVIOUS
<1> DEFINE with == {i} \cup {r \in {r1} : S!There(r) /\ row[r].of = i}
<1>1. /\ change[c].pc = "drop" /\ OfTheirKind(change[c]) /\ change[c] \in S!CallType
      /\ S!Free(c, {<<i, "row">>, <<i, "key">>})
      /\ row' = [r \in S!Rows |-> IF r \in with /\ S!There(r) THEN [row[r] EXCEPT !.there = FALSE]
                                  ELSE row[r]]
      /\ change' = [change EXCEPT ![c] = S!Idle]
      /\ UNCHANGED <<kinds, told, tip, changes, mingled, untold>>
  BY <1>0 DEF S!Drop, S!Ends, SettingsInv, S!TypeOK
<1>2. i \in S!Rows /\ i \in Integrations \cup {r1} \cup Servers
  <2>1. change[c].op = "delete"
    BY <1>1 DEF OfTheirKind, S!CallType
  <2> QED BY <1>0, <1>1, <2>1 DEF OfTheirKind
<1>3. with \cap Tools = {} /\ with \cap Listed = {} /\ i \in with
      /\ \A r \in with : r = i \/ r = r1
  BY <1>2, SettingsApart
<1> HIDE DEF with
<1>4. /\ row \in [S!Rows -> S!RowType \cup {None}] /\ change \in [Calls -> S!CallType]
  BY DEF SettingsInv, S!TypeOK
<1>5. ASSUME NEW r \in S!Rows
      PROVE  /\ row'[r] \in S!RowType \cup {None} /\ (row'[r] = None <=> row[r] = None)
             /\ row[r] # None =>
                  /\ row'[r].fields = row[r].fields /\ row'[r].scopes = row[r].scopes
                  /\ row'[r].of = row[r].of /\ (row'[r].there => row[r].there)
                  /\ row'[r].there => r \notin with
                  /\ r \notin with => row'[r] = row[r]
  <2>1. row'[r] = IF r \in with /\ S!There(r) THEN [row[r] EXCEPT !.there = FALSE] ELSE row[r]
    BY <1>1
  <2>2. CASE r \in with /\ S!There(r)
    <3>1. row[r] \in S!RowType
      BY <1>4, <2>2 DEF S!There
    <3> DEFINE l == [row[r] EXCEPT !.there = FALSE]
    <3>2. l \in S!RowType /\ l.fields = row[r].fields /\ l.scopes = row[r].scopes /\ l.of = row[r].of /\ ~l.there
      BY <3>1 DEF S!RowType
    <3>3. row'[r] = l
      BY <2>1, <2>2
    <3> HIDE DEF l
    <3> QED BY <2>2, <3>1, <3>2, <3>3, SettingsApart
  <2>3. CASE ~(r \in with /\ S!There(r))
    BY <1>4, <2>1, <2>3 DEF S!There
  <2> QED BY <2>2, <2>3
<1>6. /\ change' \in [Calls -> S!CallType] /\ change'[c] = S!Idle
      /\ \A d \in Calls \ {c} : change'[d] = change[d]
  BY <1>1, <1>4, IdleSetting
<1>7. S!TypeOK'
  <2>1. row' \in [S!Rows -> S!RowType \cup {None}]
    <3>1. row' = [r \in S!Rows |-> row'[r]]
      BY <1>1
    <3> QED BY <1>5, <3>1
  <2> QED BY <1>1, <1>6, <2>1 DEF SettingsInv, S!TypeOK
<1>8. \A j, f : S!Last(j, f)' = S!Last(j, f)
  BY <1>1 DEF S!Last
<1>9. \A j \in S!Rows : S!There(j)' => S!There(j) /\ j \notin with
  BY <1>5 DEF S!There
<1>10. S!GoneAsTold'
  <2> SUFFICES ASSUME NEW j \in Servers \ untold', S!There(j)',
                      \E n \in DOMAIN told'[j] : told'[j][n].what = "deleted"
               PROVE  \E d \in Calls : change'[d].pc = "drop" /\ change'[d].of = j
    BY DEF S!GoneAsTold
  <2>1. S!There(j) /\ j # i
    BY <1>3, <1>9 DEF S!Rows
  <2>2. PICK d \in Calls : change[d].pc = "drop" /\ change[d].of = j
    BY <1>1, <2>1 DEF SettingsInv, S!GoneAsTold
  <2> QED BY <1>0, <1>6, <2>1, <2>2
<1>11. S!RulesRest'
  <2>0. r1 \in S!Rows /\ Integrations \subseteq S!Rows
    BY DEF S!Rows
  <2>1. ASSUME S!There(r1)', row'[r1].of # None
        PROVE  row'[row'[r1].of] # None /\ row'[row'[r1].of].there
    <3>1. S!There(r1) /\ r1 \notin with /\ row'[r1].of = row[r1].of /\ row[r1].of # None
      BY <1>5, <1>9, <2>0, <2>1 DEF S!There
    <3>2. S!There(row[r1].of)
      BY <3>1 DEF SettingsInv, S!RulesRest
    <3>3. row[r1].of # i
      BY <3>1 DEF with
    <3>4. row[r1].of \in Integrations
      BY <1>4, <2>0, <3>1 DEF S!RowType, S!There
    <3>5. row[r1].of \notin with
      BY <1>3, <3>3, <3>4, SettingsApart
    <3>6. row'[row[r1].of] = row[row[r1].of]
      BY <1>5, <2>0, <3>2, <3>4, <3>5 DEF S!There
    <3> QED BY <3>1, <3>2, <3>6 DEF S!There
  <2> QED BY <2>1 DEF S!RulesRest, S!There
<1>12. ASSUME NEW j \in S!Rows PROVE RowTold(j)' /\ AsTold(j)'
  <2>1. RowTold(j) /\ AsTold(j) /\ told'[j] = told[j]
    BY <1>1 DEF SettingsInv
  <2>2. RowTold(j)'
    <3>1. j \in Tools \cup Listed /\ row[j] # None => row'[j] = row[j]
      BY <1>3, <1>5
    <3>2. row'[j] = None <=> row[j] = None
      BY <1>5
    <3> QED BY <2>1, <3>1, <3>2 DEF RowTold
  <2>3. AsTold(j)'
    <3>1. S!There(j)' => S!There(j) /\ row'[j].fields = row[j].fields /\ row'[j].scopes = row[j].scopes
      BY <1>5, <1>9 DEF S!There
    <3> QED BY <1>1, <1>8, <2>1, <3>1 DEF AsTold, S!Names
  <2> QED BY <2>2, <2>3
<1>13. OfTheirKind(change'[c]) /\ CreationHolds(c)' /\ LoadHolds(c)' /\ AgentChangeHolds(c)' /\ ~Untold(c)'
  BY <1>6, IdleHolds
<1>14. ASSUME NEW d \in Calls \ {c}
       PROVE  OfTheirKind(change'[d]) /\ CreationHolds(d)' /\ LoadHolds(d)' /\ AgentChangeHolds(d)'
  <2>1. PICK j : j = change[d].of
    OBVIOUS
  <2>2. OfTheirKind(change[d]) /\ CreationHolds(d) /\ AgentChangeHolds(d)
    BY DEF SettingsInv
  <2>3. change[d].pc # "idle" => j \in S!Rows
    BY <2>1, <2>2 DEF OfTheirKind
  <2>4. change'[d] = change[d]
    BY <1>6
  <2>5. change[d].pc = "idle" => change[d].op = None
    BY <2>2, IdleSetting DEF OfTheirKind
  <2>6. change[d].op = "create" =>
          /\ row'[j] = row[j]
          /\ \A g \in Calls \ {d} : change[g].of # j => change'[g].of # j
    <3>1. change[d].op = "create" => j \in S!Rows /\ row[j] = None
      BY <2>1, <2>2, <2>3, <2>5, SettingsApart DEF CreationHolds
    <3>2. None \notin S!Rows
      BY AgentsMCAssumption DEF S!SettingsAssumption
    <3>3. change[d].op = "create" => row'[j] = row[j]
      BY <1>5, <3>1
    <3> QED BY <1>6, <3>1, <3>2, <3>3, IdleSetting
  <2>7. ASSUME NEW h \in Integrations, change[d].op = "create", change[d].loaded.of = h,
               row[h] # None, row[h].there
        PROVE  row'[h] # None /\ row'[h].there
    <3>1. change[d].pc \in {"flushed", "commit"}
      BY <2>2, <2>7 DEF OfTheirKind
    <3>2. S!Locks(change[d]) = {<<h, "key">>}
      BY <2>7, <3>1, SettingsApart DEF S!Locks
    <3>3. h # i
      <4>1. S!Locks(change[d]) \cap {<<i, "row">>, <<i, "key">>} = {}
        BY <1>1 DEF S!Free
      <4> QED BY <3>2, <4>1
    <3>4. h \notin with
      BY <1>3, <3>3, SettingsApart
    <3> QED BY <1>5, <2>7, <3>4 DEF S!Rows
  <2>8. change[d].pc # "idle" /\ row[j] # None => row'[j] # None
    BY <1>5, <2>3
  <2>9. /\ change[d].op \in {"update", "server", "tool"} =>
             \A f \in S!Fields \ change'[d].stale : row'[j].fields[f] = row[j].fields[f]
        /\ change[d].op = "tool" /\ "scopes" \notin change'[d].stale => row'[j].scopes = row[j].scopes
    <3>1. change[d].op \in {"update", "server", "tool"} => j \in S!Rows /\ row[j] # None
      BY <2>1, <2>2, <2>3, <2>5, SettingsApart DEF CreationHolds
    <3> QED BY <1>5, <3>1
  <2>10. Untold(d) /\ j \notin mingled' =>
           /\ j \notin mingled /\ j \in untold'
           /\ \A g \in Calls \ {d} : Untold(g)' /\ change'[g].of = j => Untold(g) /\ change[g].of = j
           /\ \A f \in S!Fields : /\ row'[j].fields[f] = row[j].fields[f]
                                  /\ f \notin DOMAIN change[d].set => S!Last(j, f)' = S!Last(j, f)
    <3> SUFFICES ASSUME Untold(d), j \notin mingled'
                 PROVE  /\ j \notin mingled /\ j \in untold'
                        /\ \A g \in Calls \ {d} : Untold(g)' /\ change'[g].of = j => Untold(g) /\ change[g].of = j
                        /\ \A f \in S!Fields :
                             /\ row'[j].fields[f] = row[j].fields[f]
                             /\ f \notin DOMAIN change[d].set => S!Last(j, f)' = S!Last(j, f)
      OBVIOUS
    <3>1. j \notin mingled
      BY <1>1
    <3>2. j \in untold' /\ change[d].op = "agent" /\ change[d].pc # "idle"
      BY <1>1, <2>1, <2>2, <3>1 DEF AgentChangeHolds, Untold
    <3>3. row[j] # None /\ j \in S!Rows
      BY <2>1, <2>2, <2>3, <3>2 DEF CreationHolds
    <3>4. \A g \in Calls \ {c} : Untold(g)' <=> Untold(g)
      BY <1>6 DEF Untold
    <3>5. \A g \in Calls \ {d} : Untold(g)' /\ change'[g].of = j => Untold(g) /\ change[g].of = j
      BY <1>6, <1>13, <3>4
    <3> QED BY <1>5, <1>8, <3>1, <3>2, <3>3, <3>5
  <2> QED BY <2>1, <2>4, <2>6, <2>7, <2>8, <2>9, <2>10, RequestStays
<1> QED BY <1>7, <1>10, <1>11, <1>12, <1>13, <1>14 DEF SettingsInv

(* Every step of the settings keeps what holds of them.                    *)
LEMMA SettingsStep == SettingsInv /\ S!Next => SettingsInv'
<1> SUFFICES ASSUME SettingsInv, S!Next PROVE SettingsInv'
  OBVIOUS
<1>1. S!Values \subseteq S!Asked /\ S!Sets \subseteq S!Asked /\ <<>> \in S!Asked
      /\ \A v \in S!Values : DOMAIN v = S!Fields
  BY IdleSetting DEF S!Values, S!Asked, S!Sets
<1>2. ASSUME NEW c \in Calls, NEW i \in S!Rows, NEW v \in S!Values,
             \/ S!CreateIntegration(c, i, v) \/ S!CreateServer(c, i, v)
             \/ \E of \in Integrations \cup {None} : S!CreateRule(c, i, v, of)
             \/ \E ss \in SUBSET Scopes : S!CreateTool(c, i, v, ss)
      PROVE  SettingsInv'
  <2>1. PICK of \in Integrations \cup {None}, ss \in SUBSET Scopes :
          /\ i \in Integrations \cup {r1} \cup Tools \cup Servers
          /\ of # None => S!There(of)
          /\ S!Insert(c, i, S!New(v, of), ss)
    BY <1>2 DEF S!CreateIntegration, S!CreateServer, S!CreateRule, S!CreateTool
  <2> QED BY <2>1, SettingInsert
<1>3. ASSUME NEW c \in Calls, NEW i \in S!Rows, NEW v \in S!Values, NEW ss \in SUBSET Scopes,
             S!UpdateTool(c, i, v, ss)
      PROVE  SettingsInv'
  <2>1. i \in Tools /\ S!Load(c, i, "tool", "loaded", v, ss) /\ v \in S!Asked /\ DOMAIN v = S!Fields
    BY <1>1, <1>3 DEF S!UpdateTool
  <2> QED BY <2>1, SettingLoad
<1>4. ASSUME NEW c \in Calls, NEW i \in S!Rows, NEW set \in S!Sets,
             \/ S!UpdateIntegration(c, i, set) \/ S!UpdateRule(c, i, set)
             \/ S!UpdateServer(c, i, set) \/ S!UpdateAgent(c, i, set)
      PROVE  SettingsInv'
  <2>0. set \in S!Asked /\ {} \in SUBSET Scopes
    BY <1>1
  <2>1. CASE S!UpdateIntegration(c, i, set) \/ S!UpdateRule(c, i, set)
    <3>1. i \in Integrations \cup {r1} /\ S!Load(c, i, "update", "flushed", set, {})
      BY <2>1 DEF S!UpdateIntegration, S!UpdateRule
    <3> QED BY <2>0, <3>1, SettingLoad
  <2>2. CASE S!UpdateServer(c, i, set)
    <3>1. i \in Servers /\ S!Load(c, i, "server", "loaded", set, {})
      BY <2>2 DEF S!UpdateServer
    <3> QED BY <2>0, <3>1, SettingLoad
  <2>3. CASE S!UpdateAgent(c, i, set)
    <3>1. i \in Listed /\ S!Load(c, i, "agent", "loaded", set, {})
      BY <2>3 DEF S!UpdateAgent
    <3> QED BY <2>0, <3>1, SettingLoad
  <2> QED BY <1>4, <2>1, <2>2, <2>3
<1>5. ASSUME NEW c \in Calls, NEW i \in S!Rows,
             S!DeleteServer(c, i) \/ S!DeleteIntegration(c, i) \/ S!DeleteRule(c, i)
      PROVE  SettingsInv'
  <2>0. DOMAIN <<>> = {} /\ {} \in SUBSET Scopes
    BY IdleSetting
  <2>1. CASE S!DeleteServer(c, i)
    <3>1. i \in Servers /\ S!Load(c, i, "delete", "flushed", <<>>, {})
      BY <2>1 DEF S!DeleteServer
    <3> QED BY <1>1, <2>0, <3>1, SettingLoad
  <2>2. CASE S!DeleteIntegration(c, i) \/ S!DeleteRule(c, i)
    <3>1. i \in Integrations \cup {r1} /\ S!Load(c, i, "delete", "drop", <<>>, {})
      BY <2>2 DEF S!DeleteIntegration, S!DeleteRule
    <3> QED BY <1>1, <2>0, <3>1, SettingLoad
  <2> QED BY <1>5, <2>1, <2>2
<1>6. CASE \E i \in S!Rows : \/ \E v \in S!Values, what \in {"created", "silent"} : S!AgentThere(i, v, what)
                           \/ \E name \in BOOLEAN : S!ImportName(i, name)
  BY <1>6, SettingAgentThere, SettingImportName
<1>7. CASE \E c \in Calls : \/ S!Flush(c) \/ S!ChangeAgent(c) \/ S!ReadTip(c) \/ S!Commit(c) \/ S!Record(c)
                            \/ S!Drop(c) \/ S!Fail(c)
  BY <1>7, SettingMoves, SettingChangeAgent, SettingCommit, SettingRecord, SettingDrop, SettingFail
<1> QED BY <1>2, <1>3, <1>4, <1>5, <1>6, <1>7 DEF S!Next

(* A row is as it was told, and the rest, as the run states it.            *)
LEMMA SettingsExplained == SettingsInv => S!TypeOK /\ S!SettingsAsTold /\ S!GoneAsTold /\ S!RulesRest
<1> SUFFICES ASSUME SettingsInv PROVE S!SettingsAsTold
  BY DEF SettingsInv
<1>1. \A i \in S!Rows : AsTold(i)
  BY DEF SettingsInv
<1> QED BY <1>1 DEF S!SettingsAsTold, AsTold

-----------------------------------------------------------------------------
(* The rows of agents. Which agent a call is about, and what a sync plans. *)
Holding(k) ==
  /\ k.pc \in {"idle", "sync", "flush", "wait"} => k.agent = None
  /\ k.pc \in {"kill", "on", "enforce"} => k.agent \in Agents
  /\ k.pc = "enforce" => k.rule \in k.todo
  /\ k.pc \notin {"sync", "flush", "wait"} =>
       k.list = {} /\ \A i \in Idents : k.plan[i] = A!NoPlan
  /\ k.pc \in {"sync", "flush", "wait"} => k.left \subseteq k.list
  /\ k.pc \in {"flush", "wait"} => k.at \in Idents /\ k.plan[k.at].new

(* A call that was not overtaken has the switch as it is.                  *)
AsLoaded(k) ==
  "switch" \notin k.late =>
    /\ k.agent # None => k.active = agent[k.agent].active
    /\ \A i \in Idents :
         k.plan[i].agent # None /\ ~k.plan[i].new =>
           k.plan[i].active = agent[k.plan[i].agent].active

(* An agent that a sync has found is that of the identity; one that it has *)
(* flushed is not there yet, and unless syncs met the identity has none.   *)
PlanHolds(k, i) ==
  LET p == k.plan[i]
  IN /\ p.new \/ p.agent # None => i \in k.list
     /\ p.agent # None /\ ~p.new => agent[p.agent].here /\ agent[p.agent].ident = i
     /\ p.agent # None /\ p.new => ~agent[p.agent].here
     /\ p.new /\ "import" \notin k.late => \A a \in Agents : agent[a].ident # i

(* Nobody else has an agent that a sync has flushed.                       *)
FlushedOnce ==
  \A c, d \in Calls, i, j \in Idents :
    LET p == call[c].plan[i]
    IN p.new /\ p.agent # None /\ call[d].plan[j].agent = p.agent => c = d /\ i = j

(* An agent that is not there has no identity; two that have one come from *)
(* syncs that met.                                                         *)
IdentityOfThere ==
  /\ \A a \in Agents : ~agent[a].here => agent[a].ident = None
  /\ \A a, b \in Agents :
       agent[a].ident = agent[b].ident /\ a # b => agent[a].ident \in crossed \cup {None}

(* The first event of the window of a rule, and those of the first n that  *)
(* count for it when an event is of agent x.                               *)
Since(r) == (IF rule[r].says.short THEN old ELSE 0) + 1
Matching(r, x, n) == {m \in Since(r) .. n : rule[r].says.narrow => event[m].agent = x}

(* With n events, one of x does not reach the threshold of the rule, or is *)
(* none for it.                                                            *)
Short(r, x, n) ==
  \/ rule[r].says.narrow /\ x = None
  \/ Cardinality(Matching(r, x, n)) < rule[r].says.threshold

(* The event of a request does not reach the threshold of the rule.        *)
PassedOver(k, r) ==
  IF k.ev # 0 THEN Short(r, k.agent, k.ev)
  ELSE \/ rule[r].says.narrow /\ k.agent = None
       \/ Cardinality(Matching(r, k.agent, Len(event))) + 1 < rule[r].says.threshold

(* The rule is as it was read; it has still to be counted, or it fired, or *)
(* did not have to.                                                        *)
RuleHolds(k, r) ==
  /\ k.read[r] = rule[r].says
  /\ rule[r].on /\ r \notin k.todo \cup k.fired => PassedOver(k, r)

(* So it is with every rule: unless somebody counted or changed a rule at  *)
(* the same time, or this one was changed since the event was committed.   *)
CountHolds(k) ==
  k.pc \in {"rules", "enforce"} =>
    /\ k.ev <= Len(event) /\ (k.ev # 0 => event[k.ev].agent = k.agent)
    /\ k.read \in [Rules -> Rulings]
    /\ "count" \notin k.late =>
         \A r \in Rules : (k.ev # 0 => k.ev > rule[r].from) => RuleHolds(k, r)

(* An event that was handled alone set off every rule whose threshold it   *)
(* reached.                                                                *)
EventHolds(m) ==
  event[m].acted # "pending" /\ ~event[m].late =>
    \A r \in Rules : rule[r].on /\ m > rule[r].from /\ r \notin event[m].fired =>
      Short(r, event[m].agent, m)

(* A policy that a rule has read as enabled is, unless it was disabled.    *)
DenyHolds(k) ==
  k.pc = "enforce" /\ k.read[k.rule].action = "deny_all_policy" /\ k.deny = "on" =>
    deny[k.agent] = "on" \/ "policy" \in k.late

(* What a call knows.                                                      *)
CallHolds(k) ==
  /\ Holding(k) /\ AsLoaded(k) /\ CountHolds(k) /\ DenyHolds(k)
  /\ \A i \in Idents : PlanHolds(k, i)

(* What holds of the agents.                                               *)
AgentsInv ==
  /\ A!TypeOK /\ A!SaidIsTrue /\ FlushedOnce /\ IdentityOfThere
  /\ \A c \in Calls : CallHolds(call[c])
  /\ \A m \in 1 .. Len(event) : EventHolds(m)

(* The library's operator is that of the instance.                         *)
LEMMA CardIs == \A U : A!Cardinality(U) = Cardinality(U)
BY Zenon DEF A!Cardinality, Cardinality

(* Of two sets of events the smaller one has no more elements.             *)
LEMMA CardLe ==
  ASSUME NEW m \in Nat, NEW n \in Nat, NEW T \in SUBSET (m .. n), NEW U \in SUBSET T
  PROVE  /\ Cardinality(U) \in Nat /\ Cardinality(T) \in Nat
         /\ Cardinality(U) <= Cardinality(T)
<1>1. IsFiniteSet(m .. n)
  BY FS_Interval
<1>2. IsFiniteSet(T)
  BY <1>1, FS_Subset
<1> QED BY <1>2, FS_Subset, FS_CardinalityType

(* One more event is at most one more that matches.                        *)
LEMMA CardOneMore ==
  ASSUME NEW m \in Nat, NEW n \in Nat, NEW T \in SUBSET (m .. n), NEW x,
         NEW U \in SUBSET (T \cup {x})
  PROVE  /\ Cardinality(U) \in Nat /\ Cardinality(T) \in Nat
         /\ Cardinality(U) <= Cardinality(T) + 1
<1>1. IsFiniteSet(T)
  <2>1. IsFiniteSet(m .. n)
    BY FS_Interval
  <2> QED BY <2>1, FS_Subset
<1>2. /\ IsFiniteSet(T \cup {x})
      /\ Cardinality(T \cup {x}) = IF x \in T THEN Cardinality(T) ELSE Cardinality(T) + 1
  BY <1>1, FS_AddElement
<1>3. IsFiniteSet(U) /\ Cardinality(U) <= Cardinality(T \cup {x})
  BY <1>2, FS_Subset
<1> QED BY <1>1, <1>2, <1>3, FS_CardinalityType

(* A call that does nothing.                                               *)
LEMMA IdleCall ==
  /\ A!NoPlan \in A!PlanType /\ A!NoCall \in A!CallType
  /\ A!NoCall.pc = "idle" /\ A!NoCall.agent = None /\ A!NoCall.active = FALSE /\ A!NoCall.late = {}
  /\ A!NoCall.ev = 0 /\ A!NoCall.todo = {} /\ A!NoCall.fired = {} /\ A!NoCall.list = {}
  /\ A!NoCall.rule = None /\ A!NoCall.deny = "absent" /\ A!NoCall.left = {}
  /\ A!NoCall.at = None
  /\ A!NoCall.plan \in [Idents -> A!PlanType] /\ \A i \in Idents : A!NoCall.plan[i] = A!NoPlan
  /\ A!NoPlan.agent = None /\ ~A!NoPlan.new
<1>1. A!NoPlan \in A!PlanType /\ A!NoPlan.agent = None /\ ~A!NoPlan.new
  BY DEF A!NoPlan, A!PlanType
<1>2. [i \in Idents |-> A!NoPlan] \in [Idents -> A!PlanType]
  BY <1>1
<1> DEFINE p == [i \in Idents |-> A!NoPlan]
           q == [r \in Rules |-> None]
<1>a. q \in [Rules -> Rulings \cup {None}]
  OBVIOUS
<1>3. p \in [Idents -> A!PlanType] /\ \A i \in Idents : p[i] = A!NoPlan
  BY <1>2
<1>4. A!NoCall = [pc |-> "idle", agent |-> None, active |-> FALSE, ev |-> 0, todo |-> {},
                  fired |-> {}, read |-> q, rule |-> None, deny |-> "absent", list |-> {},
                  left |-> {}, at |-> None, plan |-> p, late |-> {}]
  BY DEF A!NoCall
<1> HIDE DEF p, q
<1>5. A!NoCall \in A!CallType
  BY <1>3, <1>4, <1>a DEF A!CallType, A!Pcs
<1> QED BY <1>1, <1>3, <1>4, <1>5

(* It is about nothing.                                                    *)
LEMMA IdleCallHolds == CallHolds(A!NoCall)
BY IdleCall DEF CallHolds, Holding, AsLoaded, CountHolds, DenyHolds, PlanHolds

(* Initially there are the agents that were created by hand.               *)
LEMMA AgentsInit == A!Init => AgentsInv
<1> SUFFICES ASSUME A!Init PROVE AgentsInv
  OBVIOUS
<1>1. /\ call \in [Calls -> A!CallType] /\ \A c \in Calls : call[c] = A!NoCall
  BY IdleCall DEF A!Init
<1>2. A!TypeOK
  <2>1. agent \in [Agents -> A!AgentType]
    BY DEF A!Init, A!AgentType
  <2>2. okta \in [Idents -> [listed : BOOLEAN, role : Roles \cup {None}]]
    BY DEF A!Init
  <2>3. rule \in [Rules -> A!RuleType]
    <3>1. PICK book \in RuleBooks :
            rule = [r \in Rules |-> [says |-> book[r], on |-> TRUE, from |-> 0]]
      BY DEF A!Init
    <3>2. book \in [Rules -> Rulings]
      BY AgentsMCAssumption DEF A!AgentsAssumption
    <3>3. ASSUME NEW r \in Rules PROVE rule[r] \in A!RuleType
      <4>1. book[r] \in Rulings
        BY <3>2
      <4> QED BY <3>1, <4>1 DEF A!RuleType
    <3> QED BY <3>1, <3>3
  <2>4. event \in Seq(A!EventType) /\ Len(event) = 0 /\ old = 0
    BY DEF A!Init
  <2> QED BY <1>1, <2>1, <2>2, <2>3, <2>4 DEF A!Init, A!TypeOK
<1>3. FlushedOnce /\ A!SaidIsTrue
  BY <1>1, IdleCall DEF FlushedOnce, A!SaidIsTrue, A!Init
<1>4. IdentityOfThere
  BY DEF IdentityOfThere, A!Init
<1>5. \A c \in Calls : CallHolds(call[c])
  BY <1>1, IdleCallHolds
<1>6. Len(event) = 0
  BY DEF A!Init
<1> QED BY <1>2, <1>3, <1>4, <1>5, <1>6 DEF AgentsInv

(* One call goes on, and plans nothing new.                                *)
LEMMA CallMoves ==
  ASSUME AgentsInv, NEW c \in Calls, NEW k \in A!CallType, CallHolds(k),
         call' = [call EXCEPT ![c] = k], FlushedOnce',
         UNCHANGED <<mix, agent, okta, status, rule, event, old, deny, said, mixed, crossed, risk>>
  PROVE  AgentsInv'
<1>1. call \in [Calls -> A!CallType]
  BY DEF AgentsInv, A!TypeOK
<1>2. call' \in [Calls -> A!CallType] /\ call'[c] = k /\ \A d \in Calls \ {c} : call'[d] = call[d]
  BY <1>1
<1>3. \A d \in Calls : CallHolds(call'[d])
  BY <1>2 DEF AgentsInv
<1>4. ASSUME NEW d \in Calls PROVE CallHolds(call[d])'
  <2>1. PICK l \in A!CallType : l = call'[d]
    BY <1>2
  <2>2. CallHolds(l)
    BY <1>3, <2>1
  <2>3. CallHolds(l)'
    <3>1. Holding(l)' /\ AsLoaded(l)' /\ DenyHolds(l)'
      BY <2>2 DEF CallHolds, Holding, AsLoaded, DenyHolds
    <3>2. \A i \in Idents : PlanHolds(l, i)'
      BY <2>2 DEF CallHolds, PlanHolds
    <3>3. CountHolds(l)'
      BY <2>2 DEF CallHolds, CountHolds, RuleHolds, PassedOver, Short, Matching, Since
    <3> QED BY <3>1, <3>2, <3>3 DEF CallHolds
  <2> QED BY <2>1, <2>3
<1>5. \A m \in 1 .. Len(event') : EventHolds(m)'
  BY DEF AgentsInv, EventHolds, Short, Matching, Since
<1>6. A!TypeOK' /\ A!SaidIsTrue' /\ IdentityOfThere'
  BY <1>2 DEF AgentsInv, A!TypeOK, A!SaidIsTrue, IdentityOfThere
<1> QED BY <1>4, <1>5, <1>6 DEF AgentsInv

(* A plan that is kept or dropped is nobody else's.                        *)
LEMMA PlansKept ==
  ASSUME AgentsInv, call' \in [Calls -> A!CallType],
         \A d \in Calls, i \in Idents : call'[d].plan[i] = call[d].plan[i]
                                        \/ call'[d].plan[i] = A!NoPlan
  PROVE  FlushedOnce'
<1> SUFFICES ASSUME NEW d \in Calls, NEW e \in Calls, NEW i \in Idents, NEW j \in Idents,
                    call'[d].plan[i].new, call'[d].plan[i].agent # None,
                    call'[e].plan[j].agent = call'[d].plan[i].agent
             PROVE  d = e /\ i = j
  BY DEF FlushedOnce
<1>1. call'[d].plan[i] = call[d].plan[i] /\ call'[e].plan[j] = call[e].plan[j]
  BY IdleCall
<1> QED BY <1>1 DEF AgentsInv, FlushedOnce

(* A call is as it was, but that it was overtaken.                         *)
OnlyLate(k, l) ==
  /\ l.pc = k.pc /\ l.agent = k.agent /\ l.active = k.active /\ l.ev = k.ev /\ l.todo = k.todo
  /\ l.fired = k.fired /\ l.read = k.read /\ l.rule = k.rule /\ l.deny = k.deny
  /\ l.list = k.list /\ l.left = k.left /\ l.at = k.at /\ l.plan = k.plan /\ k.late \subseteq l.late

(* The calls that hold one of the agents are overtaken, and those that     *)
(* have an event to commit where others count.                             *)
OvertakesAll(as, counted, l) ==
  /\ l.agent \in as \/ (\E i \in Idents : l.plan[i].agent \in as) => "switch" \in l.late
  /\ counted /\ l.pc \in {"rules", "enforce"} /\ l.ev = 0 => "count" \in l.late

(* What overtakes a call leaves the rest of it alone.                      *)
LEMMA Overtaken ==
  ASSUME AgentsInv, NEW as \in SUBSET Agents, NEW counted \in BOOLEAN, NEW d \in Calls
  PROVE  /\ A!Overtake(as, counted)[d] \in A!CallType
         /\ OnlyLate(call[d], A!Overtake(as, counted)[d])
         /\ OvertakesAll(as, counted, A!Overtake(as, counted)[d])
<1> DEFINE more == (IF A!Busy(d) /\ (call[d].agent \in as \/ \E a \in as : A!Plans(call[d], a) # {})
                    THEN {"switch"} ELSE {})
                   \cup (IF counted /\ call[d].pc \in {"rules", "enforce"} /\ call[d].ev = 0
                         THEN {"count"} ELSE {})
           l == [call[d] EXCEPT !.late = @ \cup more]
<1>1. A!Overtake(as, counted)[d] = l
  BY DEF A!Overtake
<1>2. call[d] \in A!CallType /\ Holding(call[d])
  BY DEF AgentsInv, A!TypeOK, CallHolds
<1>3. more \in SUBSET {"switch", "count", "policy", "import"}
  OBVIOUS
<1>4. call[d].agent \in as \/ (\E i \in Idents : call[d].plan[i].agent \in as) => "switch" \in more
  <2>1. as \subseteq Agents /\ None \notin Agents
    BY AgentsMCAssumption DEF A!AgentsAssumption
  <2>2. ASSUME call[d].agent \in as PROVE "switch" \in more
    <3>1. call[d].pc # "idle"
      BY <1>2, <2>1, <2>2 DEF Holding
    <3> QED BY <2>2, <3>1 DEF A!Busy
  <2>3. ASSUME NEW i \in Idents, call[d].plan[i].agent \in as PROVE "switch" \in more
    <3>1. call[d].pc # "idle"
      BY <1>2, <2>1, <2>3, IdleCall DEF Holding
    <3>2. i \in A!Plans(call[d], call[d].plan[i].agent)
      BY DEF A!Plans
    <3> QED BY <2>3, <3>1, <3>2 DEF A!Busy
  <2> QED BY <2>2, <2>3
<1>5. counted /\ call[d].pc \in {"rules", "enforce"} /\ call[d].ev = 0 => "count" \in more
  OBVIOUS
<1> HIDE DEF more
<1>6. /\ l \in A!CallType /\ l.late = call[d].late \cup more
      /\ OnlyLate(call[d], l)
  BY <1>2, <1>3 DEF A!CallType, OnlyLate
<1>7. OvertakesAll(as, counted, l)
  BY <1>4, <1>5, <1>6 DEF OvertakesAll, OnlyLate
<1> QED BY <1>1, <1>6, <1>7

(* kill_agent and reactivate_agent load the agent.                         *)
LEMMA AgentsSwitchRead ==
  ASSUME AgentsInv, NEW c \in Calls, NEW a \in Agents, A!KillRead(c, a) \/ A!ReactivateRead(c, a)
  PROVE  AgentsInv'
<1> DEFINE kill == [A!NoCall EXCEPT !.pc = "kill", !.agent = a, !.active = agent[a].active]
           back == [A!NoCall EXCEPT !.pc = "on", !.agent = a]
           k == IF A!KillRead(c, a) THEN kill ELSE back
<1>1. /\ call' = [call EXCEPT ![c] = k]
      /\ UNCHANGED <<mix, agent, okta, status, rule, event, old, deny, said, mixed, crossed, risk>>
  BY DEF A!KillRead, A!ReactivateRead
<1>2. agent \in [Agents -> A!AgentType] /\ call \in [Calls -> A!CallType]
  BY DEF AgentsInv, A!TypeOK
<1>3. agent[a].active \in BOOLEAN
  BY <1>2 DEF A!AgentType
<1>4. /\ k \in A!CallType /\ k.pc \in {"kill", "on"} /\ k.agent = a /\ k.active = agent[a].active
      /\ k.plan = A!NoCall.plan /\ k.list = {}
  <2>1. /\ kill \in A!CallType /\ kill.pc = "kill" /\ kill.agent = a
        /\ kill.active = agent[a].active /\ kill.plan = A!NoCall.plan /\ kill.list = {}
    BY <1>3, IdleCall DEF A!CallType, A!Pcs
  <2>2. /\ back \in A!CallType /\ back.pc = "on" /\ back.agent = a
        /\ back.active = A!NoCall.active /\ back.plan = A!NoCall.plan /\ back.list = {}
    BY IdleCall DEF A!CallType, A!Pcs
  <2>3. ~A!KillRead(c, a) => ~agent[a].active
    BY DEF A!ReactivateRead
  <2> HIDE DEF kill, back
  <2>4. ~A!KillRead(c, a) => back.active = agent[a].active
    BY <1>3, <2>2, <2>3, IdleCall
  <2> QED BY <2>1, <2>2, <2>4
<1> HIDE DEF k
<1>5. CallHolds(k)
  BY <1>4, IdleCall DEF CallHolds, Holding, AsLoaded, CountHolds, DenyHolds, PlanHolds
<1>6. FlushedOnce'
  BY <1>1, <1>2, <1>4, IdleCall, PlansKept
<1> QED BY <1>1, <1>4, <1>5, <1>6, CallMoves

(* The request ends, and what it had committed stays.                      *)
LEMMA AgentsRefused ==
  ASSUME AgentsInv, NEW c \in Calls, A!Refused(c) PROVE AgentsInv'
<1>1. call \in [Calls -> A!CallType]
  BY DEF AgentsInv, A!TypeOK
<1>2. FlushedOnce'
  BY <1>1, IdleCall, PlansKept DEF A!Refused
<1> QED BY <1>2, IdleCall, IdleCallHolds, CallMoves DEF A!Refused

(* An event comes in; the rules that are enabled are to be counted.        *)
LEMMA AgentsInbound ==
  ASSUME AgentsInv, NEW c \in Calls, NEW a \in Agents \cup {None}, A!Inbound(c, a)
  PROVE  AgentsInv'
<1> DEFINE on == a # None /\ agent[a].active
           rs == {r \in Rules : rule[r].on}
           says == [r \in Rules |-> rule[r].says]
           k == [A!NoCall EXCEPT !.pc = "rules", !.agent = a, !.active = on, !.todo = rs,
                                 !.read = says]
<1>1. /\ call' = [call EXCEPT ![c] = k]
      /\ UNCHANGED <<mix, agent, okta, status, rule, event, old, deny, said, mixed, crossed, risk>>
  BY DEF A!Inbound
<1>2. agent \in [Agents -> A!AgentType] /\ call \in [Calls -> A!CallType] /\ Len(event) \in Nat
  BY LenProperties DEF AgentsInv, A!TypeOK
<1>3. on \in BOOLEAN /\ (a # None => on = agent[a].active) /\ rs \in SUBSET Rules
      /\ \A r \in Rules : rule[r].on => r \in rs
  BY <1>2 DEF A!AgentType
<1>a. says \in [Rules -> Rulings] /\ \A r \in Rules : says[r] = rule[r].says
  <2>1. rule \in [Rules -> A!RuleType]
    BY DEF AgentsInv, A!TypeOK
  <2> QED BY <2>1 DEF A!RuleType
<1> HIDE DEF on, rs, says
<1>b. says \in [Rules -> Rulings \cup {None}]
  BY <1>a
<1>4. /\ k \in A!CallType /\ k.pc = "rules" /\ k.agent = a /\ k.active = on /\ k.todo = rs
      /\ k.plan = A!NoCall.plan /\ k.list = {} /\ k.ev = 0 /\ k.read = says
  BY <1>3, <1>b, IdleCall DEF A!CallType, A!Pcs
<1> HIDE DEF k
<1>5. CallHolds(k)
  <2>1. CountHolds(k)
    BY <1>2, <1>3, <1>4, <1>a DEF CountHolds, RuleHolds
  <2> QED BY <1>2, <1>3, <1>4, <2>1, IdleCall
          DEF CallHolds, Holding, AsLoaded, DenyHolds, PlanHolds
<1>6. FlushedOnce'
  BY <1>1, <1>2, <1>4, IdleCall, PlansKept
<1> QED BY <1>1, <1>4, <1>5, <1>6, CallMoves

(* A sync has read the listing.                                            *)
LEMMA AgentsSyncList ==
  ASSUME AgentsInv, NEW c \in Calls, A!SyncList(c) PROVE AgentsInv'
<1> DEFINE list == {i \in Idents : okta[i].listed}
           k == [A!NoCall EXCEPT !.pc = "sync", !.list = list, !.left = list]
<1>1. /\ call' = [call EXCEPT ![c] = k]
      /\ UNCHANGED <<mix, agent, okta, status, rule, event, old, deny, said, mixed, crossed, risk>>
  BY DEF A!SyncList
<1>2. call \in [Calls -> A!CallType]
  BY DEF AgentsInv, A!TypeOK
<1>3. list \in SUBSET Idents
  OBVIOUS
<1> HIDE DEF list
<1>4. /\ k \in A!CallType /\ k.pc = "sync" /\ k.agent = None /\ k.plan = A!NoCall.plan
      /\ k.left = k.list
  BY <1>3, IdleCall DEF A!CallType, A!Pcs
<1> HIDE DEF k
<1>5. CallHolds(k)
  BY <1>4, IdleCall DEF CallHolds, Holding, AsLoaded, CountHolds, DenyHolds, PlanHolds
<1>6. FlushedOnce'
  BY <1>1, <1>2, <1>4, IdleCall, PlansKept
<1> QED BY <1>1, <1>4, <1>5, <1>6, CallMoves

(* What a rule says, and how far its window reaches back.                  *)
LEMMA RuleSays ==
  ASSUME AgentsInv, NEW r \in Rules
  PROVE  /\ rule[r] \in A!RuleType /\ rule[r].says \in Rulings
         /\ rule[r].says.threshold \in Nat /\ rule[r].says.action \in A!Actions
         /\ rule[r].says.narrow \in BOOLEAN /\ rule[r].says.short \in BOOLEAN
         /\ rule[r].from \in Nat /\ rule[r].on \in BOOLEAN
         /\ Since(r) \in Nat /\ old \in Nat /\ Len(event) \in Nat
<1>1. rule[r] \in A!RuleType /\ Len(event) \in Nat /\ old \in Nat
  BY LenProperties DEF AgentsInv, A!TypeOK
<1>2. rule[r].says \in Rulings /\ rule[r].from \in Nat /\ rule[r].on \in BOOLEAN
  BY <1>1 DEF A!RuleType
<1>3. rule[r].says \in [threshold : Nat \ {0}, narrow : BOOLEAN, short : BOOLEAN,
                        action : A!Actions]
  BY <1>2, AgentsMCAssumption DEF A!AgentsAssumption
<1>4. Since(r) \in Nat
  BY <1>1 DEF Since
<1> QED BY <1>1, <1>2, <1>3, <1>4

(* What a rule counts that is as it was read.                              *)
LEMMA CountIs ==
  ASSUME AgentsInv, NEW c \in Calls, NEW r \in Rules, call[c].read[r] = rule[r].says
  PROVE  /\ A!Count(c, r) = Cardinality(Matching(r, call[c].agent, Len(event)))
                            + (IF call[c].ev = 0 THEN 1 ELSE 0)
         /\ Cardinality(Matching(r, call[c].agent, Len(event))) \in Nat
<1>1. Len(event) \in Nat /\ Since(r) \in Nat
  BY RuleSays
<1> DEFINE U == Matching(r, call[c].agent, Len(event))
<1>2. U \in SUBSET (Since(r) .. Len(event))
  BY DEF Matching
<1>3. Cardinality(U) \in Nat
  <2> HIDE DEF U
  <2> QED BY <1>1, <1>2, CardLe
<1>4. A!Count(c, r) = A!Cardinality(U) + (IF call[c].ev = 0 THEN 1 ELSE 0)
  BY DEF A!Count, A!Counted, Matching, Since
<1> QED BY <1>3, <1>4, CardIs

(* The first events that match are no more than all that do.               *)
LEMMA FewerFirst ==
  ASSUME AgentsInv, NEW r \in Rules, NEW x, NEW n \in Nat, n <= Len(event)
  PROVE  /\ Cardinality(Matching(r, x, n)) \in Nat
         /\ Cardinality(Matching(r, x, Len(event))) \in Nat
         /\ Cardinality(Matching(r, x, n)) <= Cardinality(Matching(r, x, Len(event)))
<1>1. Len(event) \in Nat /\ Since(r) \in Nat
  BY RuleSays
<1> DEFINE U == Matching(r, x, n)
           T == Matching(r, x, Len(event))
<1>2. T \in SUBSET (Since(r) .. Len(event)) /\ U \in SUBSET T
  BY <1>1 DEF Matching
<1> HIDE DEF U, T
<1>4. Cardinality(U) \in Nat /\ Cardinality(T) \in Nat /\ Cardinality(U) <= Cardinality(T)
  BY <1>1, <1>2, CardLe
<1> QED BY <1>4 DEF U, T

(* The types of what is compared.                                          *)
LEMMA CallTypes ==
  ASSUME AgentsInv, NEW c \in Calls
  PROVE  /\ call \in [Calls -> A!CallType] /\ call[c] \in A!CallType
         /\ agent \in [Agents -> A!AgentType] /\ rule \in [Rules -> A!RuleType]
         /\ event \in Seq(A!EventType) /\ Len(event) \in Nat /\ old \in Nat
         /\ deny \in [Agents -> {"absent", "on", "off"}]
         /\ call[c].ev \in Nat /\ CallHolds(call[c])
         /\ None \notin Agents /\ None \notin Idents /\ None \notin Roles
<1>1. /\ call \in [Calls -> A!CallType] /\ call[c] \in A!CallType
      /\ agent \in [Agents -> A!AgentType] /\ rule \in [Rules -> A!RuleType]
      /\ event \in Seq(A!EventType) /\ Len(event) \in Nat /\ old \in Nat
      /\ deny \in [Agents -> {"absent", "on", "off"}] /\ CallHolds(call[c])
  BY LenProperties DEF AgentsInv, A!TypeOK
<1>2. call[c].ev \in Nat
  BY <1>1 DEF A!CallType
<1> QED BY <1>1, <1>2, AgentsMCAssumption DEF A!AgentsAssumption

(* A rule is passed over when it has not counted enough.                   *)
LEMMA AgentsEvaluate ==
  ASSUME AgentsInv, NEW c \in Calls, NEW r \in Rules, A!Evaluate(c, r)
  PROVE  AgentsInv'
<1>0. PICK k : k = call[c]
  OBVIOUS
<1> DEFINE passes == (k.read[r].narrow /\ k.agent = None) \/ A!Count(c, r) < k.read[r].threshold
           fires == k.agent = None \/ k.read[r].action = "alert_only"
           passed == [k EXCEPT !.todo = @ \ {r}]
           fired == [k EXCEPT !.todo = @ \ {r}, !.fired = @ \cup {r}]
           enforced == [k EXCEPT !.pc = "enforce", !.rule = r, !.deny = deny[k.agent]]
           new == IF passes THEN passed ELSE IF fires THEN fired ELSE enforced
<1>1. /\ k.pc = "rules" /\ r \in k.todo
      /\ call' = [call EXCEPT ![c] = new]
      /\ UNCHANGED <<mix, agent, okta, status, rule, event, old, deny, said, mixed, crossed, risk>>
  BY <1>0 DEF A!Evaluate
<1>2. /\ call \in [Calls -> A!CallType] /\ k \in A!CallType /\ CallHolds(k) /\ k.ev \in Nat
      /\ Len(event) \in Nat /\ deny \in [Agents -> {"absent", "on", "off"}]
      /\ rule[r].says.threshold \in Nat
  BY <1>0, CallTypes, RuleSays
<1>3. /\ passed \in A!CallType /\ passed.pc = "rules" /\ passed.agent = k.agent
      /\ passed.active = k.active /\ passed.ev = k.ev /\ passed.todo = k.todo \ {r}
      /\ passed.fired = k.fired /\ passed.plan = k.plan /\ passed.list = k.list /\ passed.read = k.read
      /\ passed.late = k.late
  BY <1>1, <1>2 DEF A!CallType, A!Pcs
<1>4. /\ fired \in A!CallType /\ fired.pc = "rules" /\ fired.agent = k.agent
      /\ fired.active = k.active /\ fired.ev = k.ev /\ fired.todo = k.todo \ {r}
      /\ fired.fired = k.fired \cup {r} /\ fired.plan = k.plan /\ fired.list = k.list /\ fired.read = k.read
      /\ fired.late = k.late
  BY <1>1, <1>2 DEF A!CallType, A!Pcs
<1>5. ~fires => /\ enforced \in A!CallType /\ enforced.pc = "enforce" /\ enforced.agent = k.agent
                /\ enforced.active = k.active /\ enforced.ev = k.ev /\ enforced.todo = k.todo
                /\ enforced.fired = k.fired /\ enforced.plan = k.plan /\ enforced.list = k.list /\ enforced.read = k.read
                /\ enforced.late = k.late /\ enforced.rule = r /\ enforced.deny = deny[k.agent]
                /\ k.agent \in Agents
  <2> SUFFICES ASSUME ~fires
               PROVE  /\ enforced \in A!CallType /\ enforced.pc = "enforce" /\ enforced.agent = k.agent
                      /\ enforced.active = k.active /\ enforced.ev = k.ev /\ enforced.todo = k.todo
                      /\ enforced.fired = k.fired /\ enforced.plan = k.plan /\ enforced.list = k.list /\ enforced.read = k.read
                      /\ enforced.late = k.late /\ enforced.rule = r /\ enforced.deny = deny[k.agent]
                      /\ k.agent \in Agents
    OBVIOUS
  <2>1. k.agent \in Agents /\ deny[k.agent] \in {"absent", "on", "off"}
    BY <1>2 DEF A!CallType
  <2> QED BY <1>1, <1>2, <2>1 DEF A!CallType, A!Pcs
<1> HIDE DEF passed, fired, enforced, fires
<1>6. passes /\ k.read[r] = rule[r].says => PassedOver(k, r)
  <2> SUFFICES ASSUME passes, k.read[r] = rule[r].says PROVE PassedOver(k, r)
    OBVIOUS
  <2>1. /\ A!Count(c, r) = Cardinality(Matching(r, k.agent, Len(event)))
                           + (IF k.ev = 0 THEN 1 ELSE 0)
        /\ Cardinality(Matching(r, k.agent, Len(event))) \in Nat
    BY <1>0, CountIs
  <2>2. k.ev <= Len(event)
    BY <1>1, <1>2 DEF CallHolds, CountHolds
  <2>3. /\ Cardinality(Matching(r, k.agent, k.ev)) \in Nat
        /\ Cardinality(Matching(r, k.agent, k.ev)) <= Cardinality(Matching(r, k.agent, Len(event)))
    BY <1>2, <2>2, FewerFirst
  <2> QED BY <1>2, <2>1, <2>3 DEF Short, PassedOver
<1> HIDE DEF passes
<1>7. /\ new \in A!CallType /\ new.agent = k.agent /\ new.active = k.active /\ new.plan = k.plan
      /\ new.list = k.list /\ new.read = k.read /\ new.late = k.late /\ new.ev = k.ev
      /\ new.pc \in {"rules", "enforce"}
      /\ k.fired \subseteq new.fired /\ k.todo \ {r} \subseteq new.todo
      /\ (passes \/ r \in new.todo \/ r \in new.fired)
      /\ (new.pc = "enforce" => new.agent \in Agents /\ new.rule = r /\ r \in new.todo
                                /\ new.deny = deny[k.agent])
  BY <1>1, <1>3, <1>4, <1>5
<1> HIDE DEF new
<1>8. Holding(new) /\ AsLoaded(new) /\ \A i \in Idents : PlanHolds(new, i)
  <2>1. Holding(new)
    BY <1>1, <1>2, <1>7 DEF CallHolds, Holding
  <2>2. AsLoaded(new)
    BY <1>2, <1>7 DEF CallHolds, AsLoaded
  <2>3. \A i \in Idents : PlanHolds(new, i)
    BY <1>2, <1>7 DEF CallHolds, PlanHolds
  <2> QED BY <2>1, <2>2, <2>3
<1>9. CountHolds(new) /\ DenyHolds(new)
  <2>0. CountHolds(k)
    BY <1>2 DEF CallHolds
  <2>1. CountHolds(new)
    <3>1. ASSUME NEW s \in Rules, RuleHolds(k, s) PROVE RuleHolds(new, s)
      <4>1. PassedOver(k, s) => PassedOver(new, s)
        BY <1>7 DEF PassedOver
      <4> QED BY <1>6, <1>7, <3>1, <4>1 DEF RuleHolds
    <3> QED BY <1>1, <1>7, <2>0, <3>1 DEF CountHolds
  <2> QED BY <2>1, <1>7 DEF DenyHolds
<1>10. FlushedOnce'
  <2>1. call' \in [Calls -> A!CallType]
        /\ \A d \in Calls, i \in Idents : call'[d].plan[i] = call[d].plan[i]
    BY <1>0, <1>1, <1>2, <1>7
  <2> QED BY <2>1, PlansKept
<1>11. CallHolds(new)
  BY <1>8, <1>9 DEF CallHolds
<1> QED BY <1>1, <1>7, <1>10, <1>11, CallMoves

(* The sync has looked an identity up: the agent it has, or none.          *)
LEMMA AgentsLookup ==
  ASSUME AgentsInv, NEW c \in Calls, NEW i \in Idents, A!Lookup(c, i)
  PROVE  AgentsInv'
<1>0. PICK k : k = call[c]
  OBVIOUS
<1>1. PICK a \in (IF A!Known(i) = {} THEN {None} ELSE A!Known(i)), now \in {okta[i].role, None} :
        call' = [call EXCEPT ![c] =
          [k EXCEPT !.left = @ \ {i}, !.at = i,
             !.plan[i] = [agent |-> a, new |-> a = None, active |-> a # None /\ agent[a].active,
                          role |-> now, had |-> IF a = None THEN None ELSE agent[a].role],
             !.pc = IF a = None THEN "flush" ELSE "sync"]]
  BY <1>0 DEF A!Lookup
<1>2. /\ k.pc = "sync" /\ i \in k.left
      /\ UNCHANGED <<mix, agent, okta, status, rule, event, old, deny, said, mixed, crossed, risk>>
  BY <1>0 DEF A!Lookup
<1>3. /\ call \in [Calls -> A!CallType] /\ k \in A!CallType /\ CallHolds(k)
      /\ agent \in [Agents -> A!AgentType] /\ None \notin Agents /\ None \notin Idents
  BY <1>0, CallTypes
<1>4. /\ a \in Agents \cup {None} /\ now \in Roles \cup {None}
      /\ a # None => agent[a].here /\ agent[a].ident = i
      /\ a = None => \A b \in Agents : agent[b].ident # i
  <2>1. now \in Roles \cup {None}
    BY DEF AgentsInv, A!TypeOK
  <2>2. CASE A!Known(i) = {}
    <3>1. \A b \in Agents : ~(agent[b].here /\ agent[b].ident = i)
      BY <2>2 DEF A!Known
    <3>2. \A b \in Agents : agent[b].ident # i
      BY <1>3, <3>1 DEF AgentsInv, IdentityOfThere
    <3> QED BY <2>1, <2>2, <3>2
  <2>3. CASE A!Known(i) # {}
    BY <1>3, <2>1, <2>3 DEF A!Known
  <2> QED BY <2>2, <2>3
<1> DEFINE p == [agent |-> a, new |-> a = None, active |-> a # None /\ agent[a].active,
                 role |-> now, had |-> IF a = None THEN None ELSE agent[a].role]
           pc == IF a = None THEN "flush" ELSE "sync"
           plan == [k.plan EXCEPT ![i] = p]
           new == [k EXCEPT !.left = @ \ {i}, !.at = i, !.plan = plan, !.pc = pc]
<1>5. call' = [call EXCEPT ![c] = new]
  BY <1>1
<1>6. /\ p \in A!PlanType /\ p.agent = a /\ (p.new <=> a = None)
      /\ (a # None => p.active = agent[a].active)
  <2>1. a # None => agent[a].active \in BOOLEAN /\ agent[a].role \in Roles \cup {None}
    BY <1>3, <1>4 DEF A!AgentType
  <2>2. (IF a = None THEN None ELSE agent[a].role) \in Roles \cup {None}
    BY <2>1
  <2>3. p \in A!PlanType
    BY <1>4, <2>2 DEF A!PlanType
  <2> QED BY <2>1, <2>3
<1>7. pc \in {"flush", "sync"} /\ (pc = "flush" => a = None)
  OBVIOUS
<1> HIDE DEF p, pc
<1>8. /\ plan \in [Idents -> A!PlanType] /\ plan[i] = p
      /\ \A j \in Idents \ {i} : plan[j] = k.plan[j]
  BY <1>3, <1>6 DEF A!CallType
<1> HIDE DEF plan
<1>9. /\ new \in A!CallType /\ new.pc = pc /\ new.agent = k.agent /\ new.plan = plan
      /\ new.list = k.list /\ new.left = k.left \ {i} /\ new.at = i /\ new.late = k.late
      /\ new.active = k.active
  BY <1>3, <1>7, <1>8 DEF A!CallType, A!Pcs
<1> HIDE DEF new
<1>10. CallHolds(new)
  <2>1. i \in k.list /\ k.agent = None
    BY <1>2, <1>3 DEF CallHolds, Holding
  <2>2. Holding(new)
    BY <1>2, <1>3, <1>6, <1>7, <1>8, <1>9, <2>1 DEF CallHolds, Holding
  <2>3. AsLoaded(new)
    <3> SUFFICES ASSUME "switch" \notin k.late, NEW j \in Idents,
                        plan[j].agent # None, ~plan[j].new
                 PROVE  plan[j].active = agent[plan[j].agent].active
      BY <1>9, <2>1 DEF AsLoaded
    <3>1. CASE j = i
      BY <1>6, <1>8, <3>1
    <3>2. CASE j # i
      BY <1>3, <1>8, <3>2 DEF CallHolds, AsLoaded
    <3> QED BY <3>1, <3>2
  <2>4. ASSUME NEW j \in Idents PROVE PlanHolds(new, j)
    <3>1. CASE j = i
      BY <1>4, <1>6, <1>8, <1>9, <2>1, <3>1 DEF PlanHolds
    <3>2. CASE j # i
      <4>1. PlanHolds(k, j)
        BY <1>3 DEF CallHolds
      <4> QED BY <1>8, <1>9, <3>2, <4>1 DEF PlanHolds
    <3> QED BY <3>1, <3>2
  <2>5. CountHolds(new) /\ DenyHolds(new)
    BY <1>7, <1>9 DEF CountHolds, DenyHolds
  <2> QED BY <2>2, <2>3, <2>4, <2>5 DEF CallHolds
<1>11. FlushedOnce'
  <2> SUFFICES ASSUME NEW d \in Calls, NEW e \in Calls, NEW m \in Idents, NEW n \in Idents,
                      call'[d].plan[m].new, call'[d].plan[m].agent # None,
                      call'[e].plan[n].agent = call'[d].plan[m].agent
               PROVE  d = e /\ m = n
    BY DEF FlushedOnce
  <2>1. \A f \in Calls, l \in Idents :
          call'[f].plan[l] = IF f = c /\ l = i THEN p ELSE call[f].plan[l]
    BY <1>0, <1>3, <1>5, <1>8, <1>9
  <2>2. call'[d].plan[m] = call[d].plan[m]
    BY <1>6, <2>1
  <2>3. call[d].plan[m].new /\ call[d].plan[m].agent # None
    BY <2>2
  <2>4. PlanHolds(call[d], m)
    BY DEF AgentsInv, CallHolds
  <2>5. ~agent[call[d].plan[m].agent].here
    BY <2>3, <2>4 DEF PlanHolds
  <2>6. call'[e].plan[n] = call[e].plan[n]
    BY <1>4, <1>6, <2>1, <2>2, <2>3, <2>5
  <2> QED BY <2>2, <2>3, <2>6 DEF AgentsInv, FlushedOnce
<1> QED BY <1>2, <1>5, <1>9, <1>10, <1>11, CallMoves

(* The new agent is flushed, or waits for that of another sync.            *)
LEMMA AgentsFlush ==
  ASSUME AgentsInv, NEW c \in Calls, A!Flush(c)
  PROVE  AgentsInv'
<1>0. PICK k : k = call[c]
  OBVIOUS
<1>1. /\ k.pc \in {"flush", "wait"}
      /\ UNCHANGED <<mix, agent, okta, status, rule, event, old, deny, said, mixed, crossed, risk>>
      /\ \/ call' = [call EXCEPT ![c].pc = "wait"]
         \/ \E a \in Agents :
              /\ ~agent[a].here /\ \A d \in Calls : A!Plans(call[d], a) = {}
              /\ call' = [call EXCEPT ![c] = [k EXCEPT !.pc = "sync", !.plan[k.at].agent = a]]
  BY <1>0 DEF A!Flush
<1>2. /\ call \in [Calls -> A!CallType] /\ k \in A!CallType /\ CallHolds(k)
      /\ agent \in [Agents -> A!AgentType] /\ None \notin Agents /\ None \notin Idents
  BY <1>0, CallTypes
<1>3. k.at \in Idents /\ k.plan[k.at].new /\ k.agent = None /\ k.left \subseteq k.list
  BY <1>1, <1>2 DEF CallHolds, Holding
<1>4. CASE call' = [call EXCEPT ![c].pc = "wait"]
  <2> DEFINE new == [k EXCEPT !.pc = "wait"]
  <2>1. call' = [call EXCEPT ![c] = new]
    BY <1>0, <1>4
  <2>2. /\ new \in A!CallType /\ new.pc = "wait" /\ new.agent = k.agent /\ new.plan = k.plan
        /\ new.list = k.list /\ new.left = k.left /\ new.at = k.at /\ new.late = k.late
        /\ new.active = k.active
    BY <1>2 DEF A!CallType, A!Pcs
  <2> HIDE DEF new
  <2>3. CallHolds(new)
    BY <1>2, <1>3, <2>2 DEF CallHolds, Holding, AsLoaded, CountHolds, DenyHolds, PlanHolds
  <2>4. FlushedOnce'
    <3>1. call' \in [Calls -> A!CallType]
          /\ \A d \in Calls, i \in Idents : call'[d].plan[i] = call[d].plan[i]
      BY <1>0, <1>2, <2>1, <2>2
    <3> QED BY <3>1, PlansKept
  <2> QED BY <1>1, <2>1, <2>2, <2>3, <2>4, CallMoves
<1>5. ASSUME NEW a \in Agents, ~agent[a].here, \A d \in Calls : A!Plans(call[d], a) = {},
             call' = [call EXCEPT ![c] = [k EXCEPT !.pc = "sync", !.plan[k.at].agent = a]]
      PROVE  AgentsInv'
  <2> DEFINE i == k.at
             p == [k.plan[i] EXCEPT !.agent = a]
             plan == [k.plan EXCEPT ![i] = p]
             new == [k EXCEPT !.pc = "sync", !.plan = plan]
  <2>1. call' = [call EXCEPT ![c] = new]
    BY <1>5
  <2>2. p \in A!PlanType /\ p.agent = a /\ p.new
    <3>1. k.plan[i] \in A!PlanType
      BY <1>2, <1>3 DEF A!CallType
    <3> QED BY <1>3, <3>1 DEF A!PlanType
  <2> HIDE DEF p
  <2>3. /\ plan \in [Idents -> A!PlanType] /\ plan[i] = p
        /\ \A j \in Idents \ {i} : plan[j] = k.plan[j]
    BY <1>2, <1>3, <2>2 DEF A!CallType
  <2> HIDE DEF plan
  <2>4. /\ new \in A!CallType /\ new.pc = "sync" /\ new.agent = k.agent /\ new.plan = plan
        /\ new.list = k.list /\ new.left = k.left /\ new.late = k.late /\ new.active = k.active
    BY <1>2, <2>3 DEF A!CallType, A!Pcs
  <2> HIDE DEF new
  <2>5. CallHolds(new)
    <3>1. Holding(new)
      BY <1>3, <2>4 DEF Holding
    <3>2. AsLoaded(new)
      <4> SUFFICES ASSUME "switch" \notin k.late, NEW j \in Idents,
                          plan[j].agent # None, ~plan[j].new
                   PROVE  plan[j].active = agent[plan[j].agent].active
        BY <1>3, <2>4 DEF AsLoaded
      <4>1. j # i
        BY <2>2, <2>3
      <4> QED BY <1>2, <2>3, <4>1 DEF CallHolds, AsLoaded
    <3>3. ASSUME NEW j \in Idents PROVE PlanHolds(new, j)
      <4>1. PlanHolds(k, j)
        BY <1>2 DEF CallHolds
      <4>2. CASE j = i
        BY <1>3, <1>5, <2>2, <2>3, <2>4, <4>1, <4>2 DEF PlanHolds
      <4>3. CASE j # i
        BY <2>3, <2>4, <4>1, <4>3 DEF PlanHolds
      <4> QED BY <4>2, <4>3
    <3>4. CountHolds(new) /\ DenyHolds(new)
      BY <2>4 DEF CountHolds, DenyHolds
    <3> QED BY <3>1, <3>2, <3>3, <3>4 DEF CallHolds
  <2>6. FlushedOnce'
    <3> SUFFICES ASSUME NEW d \in Calls, NEW e \in Calls, NEW m \in Idents, NEW n \in Idents,
                        call'[d].plan[m].new, call'[d].plan[m].agent # None,
                        call'[e].plan[n].agent = call'[d].plan[m].agent
                 PROVE  d = e /\ m = n
      BY DEF FlushedOnce
    <3>1. \A f \in Calls, l \in Idents :
            call'[f].plan[l] = IF f = c /\ l = i THEN p ELSE call[f].plan[l]
      BY <1>0, <1>2, <1>3, <2>1, <2>3, <2>4
    <3>2. \A f \in Calls, l \in Idents : call[f].plan[l].agent # a
      BY <1>5 DEF A!Plans
    <3>3. (d = c /\ m = i) <=> (e = c /\ n = i)
      BY <2>2, <3>1, <3>2
    <3>4. CASE d = c /\ m = i
      BY <3>3, <3>4
    <3>5. CASE ~(d = c /\ m = i)
      <4>1. call'[d].plan[m] = call[d].plan[m] /\ call'[e].plan[n] = call[e].plan[n]
        BY <3>1, <3>3, <3>5
      <4>2. /\ call[d].plan[m].new /\ call[d].plan[m].agent # None
            /\ call[e].plan[n].agent = call[d].plan[m].agent
        BY <4>1
      <4> QED BY <4>2 DEF AgentsInv, FlushedOnce
    <3> QED BY <3>4, <3>5
  <2> QED BY <1>1, <2>1, <2>4, <2>5, <2>6, CallMoves
<1> QED BY <1>1, <1>4, <1>5

(* The switch of an agent is as a call has it, or the call was overtaken.  *)
LEMMA SwitchAfter ==
  ASSUME NEW k \in A!CallType, NEW l \in A!CallType, OnlyLate(k, l),
         Holding(k), AsLoaded(k), NEW as \in SUBSET Agents,
         \A a \in Agents \ as : agent'[a].active = agent[a].active,
         l.agent \in as \/ (\E i \in Idents : l.plan[i].agent \in as) => "switch" \in l.late
  PROVE  Holding(l)' /\ AsLoaded(l)'
<1>1. Holding(l)'
  BY DEF OnlyLate, Holding
<1>2. k.agent \in Agents \cup {None} /\ k.plan \in [Idents -> A!PlanType]
  BY DEF A!CallType
<1>3. \A i \in Idents : k.plan[i].agent \in Agents \cup {None}
  BY <1>2 DEF A!PlanType
<1>4. AsLoaded(l)'
  <2> SUFFICES ASSUME "switch" \notin l.late
               PROVE  /\ l.agent # None => l.active = agent'[l.agent].active
                      /\ \A i \in Idents :
                           l.plan[i].agent # None /\ ~l.plan[i].new =>
                             l.plan[i].active = agent'[l.plan[i].agent].active
    BY DEF AsLoaded
  <2>1. l.agent \notin as /\ \A i \in Idents : l.plan[i].agent \notin as
    OBVIOUS
  <2>2. /\ k.agent # None => k.active = agent[k.agent].active
        /\ \A i \in Idents :
             k.plan[i].agent # None /\ ~k.plan[i].new =>
               k.plan[i].active = agent[k.plan[i].agent].active
    BY DEF OnlyLate, AsLoaded
  <2>3. l.agent = k.agent /\ l.active = k.active /\ l.plan = k.plan
    BY DEF OnlyLate
  <2> QED BY <1>2, <1>3, <2>1, <2>2, <2>3
<1> QED BY <1>1, <1>4

(* The agents a call holds are what they were, or it was overtaken.        *)
LEMMA LoadedAfter ==
  ASSUME NEW k \in A!CallType, NEW l \in A!CallType, OnlyLate(k, l),
         Holding(k), AsLoaded(k), \A i \in Idents : PlanHolds(k, i),
         NEW as \in SUBSET Agents,
         \A a \in Agents : agent'[a].here = agent[a].here /\ agent'[a].ident = agent[a].ident,
         \A a \in Agents \ as : agent'[a].active = agent[a].active,
         l.agent \in as \/ (\E i \in Idents : l.plan[i].agent \in as) => "switch" \in l.late
  PROVE  Holding(l)' /\ AsLoaded(l)' /\ \A i \in Idents : PlanHolds(l, i)'
<1>1. Holding(l)' /\ AsLoaded(l)'
  BY SwitchAfter
<1>2. \A i \in Idents : k.plan[i].agent \in Agents \cup {None}
  BY DEF A!CallType, A!PlanType
<1>3. ASSUME NEW i \in Idents PROVE PlanHolds(l, i)'
  <2>1. PlanHolds(k, i)
    OBVIOUS
  <2>2. l.plan = k.plan /\ l.list = k.list /\ k.late \subseteq l.late
    BY DEF OnlyLate
  <2> QED BY <1>2, <2>1, <2>2 DEF PlanHolds
<1> QED BY <1>1, <1>3

(* No event is taken back or changes its agent.                            *)
EventsGoOn ==
  /\ Len(event') \in Nat /\ Len(event) <= Len(event')
  /\ \A m \in 1 .. Len(event) : event'[m].agent = event[m].agent

(* The events that were there match as they did.                           *)
LEMMA MatchingSame ==
  ASSUME AgentsInv, EventsGoOn, rule' = rule, old' = old,
         NEW r \in Rules, NEW x, NEW n \in Nat, n <= Len(event)
  PROVE  Matching(r, x, n)' = Matching(r, x, n) /\ (Short(r, x, n)' <=> Short(r, x, n))
<1>1. Since(r) \in Nat /\ Since(r)' = Since(r) /\ Len(event) \in Nat
  <2>1. Since(r)' = Since(r)
    BY DEF Since
  <2> QED BY <2>1, RuleSays
<1>2. Matching(r, x, n)' = Matching(r, x, n)
  <2>1. ASSUME NEW m \in Since(r) .. n PROVE event'[m].agent = event[m].agent
    <3>1. m \in 1 .. Len(event)
      BY <1>1 DEF Since, AgentsInv, A!TypeOK
    <3> QED BY <3>1 DEF EventsGoOn
  <2> QED BY <1>1, <2>1 DEF Matching
<1> QED BY <1>2 DEF Short

(* A request that counts goes on, and hears of an event that is committed. *)
LEMMA CountAfter ==
  ASSUME AgentsInv, EventsGoOn, rule' = rule, old' = old,
         NEW k \in A!CallType, NEW l \in A!CallType, OnlyLate(k, l), CountHolds(k),
         Len(event') # Len(event) /\ l.pc \in {"rules", "enforce"} /\ l.ev = 0 => "count" \in l.late
  PROVE  CountHolds(l)'
<1> SUFFICES ASSUME l.pc \in {"rules", "enforce"}
             PROVE  /\ l.ev <= Len(event') /\ (l.ev # 0 => event'[l.ev].agent = l.agent)
                    /\ l.read \in [Rules -> Rulings]
                    /\ "count" \notin l.late =>
                         \A r \in Rules : (l.ev # 0 => l.ev > rule'[r].from) => RuleHolds(l, r)'
  BY DEF CountHolds
<1>1. /\ l.pc = k.pc /\ l.agent = k.agent /\ l.ev = k.ev /\ l.todo = k.todo /\ l.fired = k.fired
      /\ l.read = k.read
      /\ k.late \subseteq l.late /\ l.ev \in Nat /\ Len(event) \in Nat
  BY LenProperties DEF OnlyLate, A!CallType, AgentsInv, A!TypeOK
<1>2. /\ l.ev <= Len(event) /\ (l.ev # 0 => event[l.ev].agent = l.agent)
      /\ l.read \in [Rules -> Rulings]
  BY <1>1 DEF CountHolds
<1>3. l.ev <= Len(event') /\ (l.ev # 0 => event'[l.ev].agent = l.agent)
  BY <1>1, <1>2 DEF EventsGoOn
<1>4. ASSUME "count" \notin l.late, NEW r \in Rules, l.ev # 0 => l.ev > rule'[r].from
      PROVE  RuleHolds(l, r)'
  <2>1. RuleHolds(k, r)
    BY <1>1, <1>4 DEF CountHolds
  <2>2. PassedOver(k, r) => PassedOver(l, r)'
    <3>1. CASE l.ev # 0
      BY <1>1, <1>2, <3>1, MatchingSame DEF PassedOver
    <3>2. CASE l.ev = 0
      <4>1. Len(event') = Len(event)
        BY <1>1, <1>4, <3>2
      <4>2. Matching(r, l.agent, Len(event))' = Matching(r, l.agent, Len(event))
        <5>1. PICK n \in Nat : n = Len(event)
          BY <1>1
        <5>2. Matching(r, l.agent, n)' = Matching(r, l.agent, n)
          BY <5>1, MatchingSame
        <5> QED BY <4>1, <5>1, <5>2 DEF Matching
      <4> QED BY <1>1, <3>2, <4>2 DEF PassedOver
    <3> QED BY <3>1, <3>2
  <2> QED BY <1>1, <2>1, <2>2 DEF RuleHolds
<1> QED BY <1>2, <1>3, <1>4

(* What was said of an event stays.                                        *)
LEMMA EventAfter ==
  ASSUME AgentsInv, EventsGoOn, rule' = rule, old' = old,
         NEW m \in 1 .. Len(event), event'[m] = event[m]
  PROVE  EventHolds(m)'
<1>1. EventHolds(m) /\ Len(event) \in Nat
  BY LenProperties DEF AgentsInv, A!TypeOK
<1>2. PICK x : x = event[m].agent
  OBVIOUS
<1>3. \A r \in Rules : Short(r, x, m)' <=> Short(r, x, m)
  BY <1>1, MatchingSame
<1> QED BY <1>1, <1>2, <1>3 DEF EventHolds

(* A policy that was read as enabled is, unless it was disabled since.     *)
LEMMA DenyAfter ==
  ASSUME NEW k, NEW l, OnlyLate(k, l), Holding(k), DenyHolds(k),
         \A a \in Agents : deny[a] = "on" => deny'[a] = "on"
  PROVE  DenyHolds(l)'
BY DEF OnlyLate, Holding, DenyHolds

(* The switch of some agents is set, and perhaps an event is committed:    *)
(* the calls that are overtaken hold what they held.                       *)
LEMMA OthersGoOn ==
  ASSUME AgentsInv, EventsGoOn, rule' = rule, old' = old,
         NEW as \in SUBSET Agents, NEW counted \in BOOLEAN, NEW d \in Calls,
         \A a \in Agents : agent'[a].here = agent[a].here /\ agent'[a].ident = agent[a].ident,
         \A a \in Agents \ as : agent'[a].active = agent[a].active,
         Len(event') # Len(event) => counted,
         \A a \in Agents : deny[a] = "on" => deny'[a] = "on",
         NEW l \in A!CallType, l = A!Overtake(as, counted)[d]
  PROVE  CallHolds(l)'
<1>1. PICK k \in A!CallType : k = call[d]
  BY CallTypes
<1>2. OnlyLate(k, l) /\ OvertakesAll(as, counted, l)
  BY <1>1, Overtaken
<1>3. Holding(k) /\ AsLoaded(k) /\ CountHolds(k) /\ DenyHolds(k) /\ \A i \in Idents : PlanHolds(k, i)
  BY <1>1 DEF AgentsInv, CallHolds
<1>4. l.agent \in as \/ (\E i \in Idents : l.plan[i].agent \in as) => "switch" \in l.late
  BY <1>2 DEF OvertakesAll
<1>5. Holding(l)' /\ AsLoaded(l)' /\ \A i \in Idents : PlanHolds(l, i)'
  BY <1>2, <1>3, <1>4, LoadedAfter
<1>6. Len(event') # Len(event) /\ l.pc \in {"rules", "enforce"} /\ l.ev = 0 => "count" \in l.late
  BY <1>2 DEF OvertakesAll
<1>7. CountHolds(l)'
  BY <1>2, <1>3, <1>6, CountAfter
<1>8. DenyHolds(l)'
  BY <1>2, <1>3, DenyAfter
<1> QED BY <1>5, <1>7, <1>8 DEF CallHolds

(* What the session writes of an agent, and what it says of it.            *)
LEMMA SwitchedIs ==
  ASSUME AgentsInv, NEW a \in Agents, NEW loaded \in BOOLEAN, NEW on \in BOOLEAN,
         NEW late \in BOOLEAN, agent' = A!Switched(a, loaded, on), A!Judge(a, on, late),
         ~late => loaded = agent[a].active
  PROVE  /\ agent' \in [Agents -> A!AgentType]
         /\ \A b \in Agents : /\ agent'[b].here = agent[b].here
                              /\ agent'[b].ident = agent[b].ident
         /\ \A b \in Agents \ {a} : agent'[b].active = agent[b].active
         /\ agent'[a].active = IF loaded # on THEN on ELSE agent[a].active
         /\ said' \in [Agents -> BOOLEAN] /\ mixed' \subseteq Agents
         /\ A!SaidIsTrue'
<1>1. agent \in [Agents -> A!AgentType] /\ said \in [Agents -> BOOLEAN] /\ mixed \subseteq Agents
  BY DEF AgentsInv, A!TypeOK
<1> DEFINE now == IF loaded # on THEN on ELSE agent[a].active
           new == [agent[a] EXCEPT !.active = now]
<1>2. agent' = [agent EXCEPT ![a] = new]
  BY DEF A!Switched
<1>3. /\ new \in A!AgentType /\ new.here = agent[a].here /\ new.ident = agent[a].ident
      /\ new.active = now
  <2>1. agent[a] \in A!AgentType /\ now \in BOOLEAN
    BY <1>1 DEF A!AgentType
  <2> HIDE DEF now
  <2> QED BY <2>1 DEF A!AgentType
<1> HIDE DEF new
<1>4. agent' \in [Agents -> A!AgentType] /\ agent'[a] = new /\ \A b \in Agents \ {a} : agent'[b] = agent[b]
  BY <1>1, <1>2, <1>3
<1>5. /\ said' \in [Agents -> BOOLEAN] /\ said'[a] = on
      /\ \A b \in Agents \ {a} : said'[b] = said[b]
      /\ mixed' \subseteq Agents /\ mixed' \cup {a} = mixed \cup {a} /\ (a \in mixed' <=> late)
  BY <1>1 DEF A!Judge
<1>6. ~late => agent'[a].active = on
  <2>1. agent[a].active \in BOOLEAN
    BY <1>1 DEF A!AgentType
  <2> QED BY <1>3, <1>4, <2>1
<1>7. A!SaidIsTrue'
  <2> SUFFICES ASSUME NEW b \in Agents \ mixed', agent'[b].here
               PROVE  agent'[b].active = said'[b]
    BY DEF A!SaidIsTrue
  <2>1. CASE b = a
    BY <1>5, <1>6, <2>1
  <2>2. CASE b # a
    <3>1. b \notin mixed /\ agent[b].here
      BY <1>4, <1>5, <2>2
    <3> QED BY <1>4, <1>5, <2>2, <3>1 DEF AgentsInv, A!SaidIsTrue
  <2> QED BY <2>1, <2>2
<1> QED BY <1>3, <1>4, <1>5, <1>7

(* Agents are where they were, and syncs hold what they held.              *)
LEMMA PlacesStay ==
  ASSUME AgentsInv, crossed' = crossed,
         \A a \in Agents : agent'[a].here = agent[a].here /\ agent'[a].ident = agent[a].ident
  PROVE  IdentityOfThere'
BY DEF AgentsInv, IdentityOfThere

(* kill_agent and reactivate_agent set the switch they have loaded.        *)
LEMMA SwitchCommit ==
  ASSUME AgentsInv, NEW c \in Calls, NEW on \in BOOLEAN, call[c].pc \in {"kill", "on"},
         agent' = A!Switched(call[c].agent, call[c].active, on),
         A!Judge(call[c].agent, on, "switch" \in call[c].late),
         call' = [A!Overtake({call[c].agent}, FALSE) EXCEPT ![c] = A!NoCall],
         UNCHANGED <<mix, okta, status, rule, event, old, deny, crossed, risk>>
  PROVE  AgentsInv'
<1>1. PICK k \in A!CallType : k = call[c]
  BY CallTypes
<1>2. PICK a \in Agents : a = k.agent
  <2>1. Holding(k)
    BY <1>1 DEF AgentsInv, CallHolds
  <2> QED BY <1>1, <2>1 DEF Holding
<1>3. PICK late \in BOOLEAN : late <=> "switch" \in k.late
  <2>1. CASE "switch" \in k.late
    BY <2>1
  <2>2. CASE "switch" \notin k.late
    BY <2>2
  <2> QED BY <2>1, <2>2
<1>4. k.active \in BOOLEAN /\ (~late => k.active = agent[a].active)
  <2>1. AsLoaded(k) /\ None \notin Agents
    BY <1>1, CallTypes DEF AgentsInv, CallHolds
  <2> QED BY <1>2, <1>3, <2>1 DEF AsLoaded, A!CallType
<1>5. agent' = A!Switched(a, k.active, on) /\ A!Judge(a, on, late)
  <2>1. A!Judge(a, on, "switch" \in k.late)
    BY <1>1, <1>2
  <2> QED BY <1>1, <1>2, <1>3, <2>1 DEF A!Judge
<1>6. /\ agent' \in [Agents -> A!AgentType]
      /\ \A b \in Agents : agent'[b].here = agent[b].here /\ agent'[b].ident = agent[b].ident
      /\ \A b \in Agents \ {a} : agent'[b].active = agent[b].active
      /\ said' \in [Agents -> BOOLEAN] /\ mixed' \subseteq Agents
      /\ A!SaidIsTrue'
  BY <1>4, <1>5, SwitchedIs
<1>7. ASSUME NEW d \in Calls
      PROVE  /\ call'[d] \in A!CallType /\ CallHolds(call[d])'
             /\ \A i \in Idents : call'[d].plan[i] = call[d].plan[i]
                                  \/ call'[d].plan[i] = A!NoPlan
  <2>1. CASE d = c
    <3>1. call'[d] = A!NoCall
      BY <2>1 DEF A!Overtake
    <3>2. CallHolds(A!NoCall)'
      BY IdleCall DEF CallHolds, Holding, AsLoaded, CountHolds, DenyHolds, PlanHolds, A!NoCall
    <3> QED BY <3>1, <3>2, IdleCall
  <2>2. CASE d # c
    <3>1. PICK l \in A!CallType : l = A!Overtake({a}, FALSE)[d] /\ OnlyLate(call[d], l)
      BY Overtaken
    <3>2. call'[d] = l
      BY <1>1, <1>2, <2>2, <3>1 DEF A!Overtake
    <3>3. EventsGoOn
      BY LenProperties DEF EventsGoOn, AgentsInv, A!TypeOK
    <3>4. CallHolds(l)'
      BY <1>6, <3>1, <3>3, OthersGoOn
    <3> QED BY <3>1, <3>2, <3>4 DEF OnlyLate
  <2> QED BY <2>1, <2>2
<1>8. call' \in [Calls -> A!CallType]
  BY <1>7 DEF A!Overtake
<1>9. A!TypeOK'
  BY <1>6, <1>8 DEF AgentsInv, A!TypeOK
<1>10. FlushedOnce'
  BY <1>7, <1>8, PlansKept
<1>11. IdentityOfThere'
  BY <1>6, PlacesStay
<1>12. ASSUME NEW m \in 1 .. Len(event') PROVE EventHolds(m)'
  <2>1. EventsGoOn
    BY LenProperties DEF EventsGoOn, AgentsInv, A!TypeOK
  <2> QED BY <2>1, EventAfter
<1> QED BY <1>6, <1>7, <1>9, <1>10, <1>11, <1>12 DEF AgentsInv

(* The event as a commit leaves it: a new one, or one that was committed   *)
(* before.                                                                 *)
LEMMA CommittedIs ==
  ASSUME AgentsInv, NEW k \in A!CallType, CountHolds(k), k.pc \in {"rules", "enforce"},
         NEW acted \in A!Actions \cup {"pending"}, event' = A!Committed(k, acted),
         NEW n \in Nat, n = IF k.ev = 0 THEN Len(event) + 1 ELSE k.ev
  PROVE  /\ event' \in Seq(A!EventType) /\ EventsGoOn
         /\ Len(event') = IF k.ev = 0 THEN Len(event) + 1 ELSE Len(event)
         /\ n \in 1 .. Len(event') /\ event'[n].agent = k.agent
         /\ event'[n].acted = acted /\ event'[n].fired = k.fired
         /\ (event'[n].late <=> "count" \in k.late)
         /\ \A m \in 1 .. Len(event') : m # n => m \in 1 .. Len(event) /\ event'[m] = event[m]
<1> DEFINE new == A!Row(k, acted)
<1>1. /\ new \in A!EventType /\ new.agent = k.agent /\ new.acted = acted /\ new.fired = k.fired
      /\ (new.late <=> "count" \in k.late)
  <2>1. k.agent \in Agents \cup {None} /\ k.fired \in SUBSET Rules
    BY DEF A!CallType
  <2>2. ("count" \in k.late) \in BOOLEAN
    OBVIOUS
  <2>3. new = [agent |-> k.agent, acted |-> acted, fired |-> k.fired, late |-> "count" \in k.late]
    BY Zenon DEF A!Row
  <2> HIDE DEF new
  <2>4. new \in A!EventType
    BY <2>1, <2>2, <2>3 DEF A!EventType
  <2>5. new.agent = k.agent /\ new.acted = acted /\ new.fired = k.fired
    BY <2>3
  <2>6. new.late = ("count" \in k.late)
    BY <2>3
  <2> QED BY <2>4, <2>5, <2>6
<1>2. event \in Seq(A!EventType) /\ Len(event) \in Nat /\ k.ev \in Nat
  BY LenProperties DEF AgentsInv, A!TypeOK, A!CallType
<1>3. event' = IF k.ev = 0 THEN Append(event, new) ELSE [event EXCEPT ![k.ev] = new]
  BY DEF A!Committed
<1> HIDE DEF new
<1>4. CASE k.ev = 0
  <2>1. /\ event' \in Seq(A!EventType) /\ Len(event') = Len(event) + 1
        /\ event'[n] = new /\ \A m \in 1 .. Len(event) : event'[m] = event[m]
    BY <1>1, <1>2, <1>3, <1>4, AppendProperties
  <2> QED BY <1>1, <1>2, <1>4, <2>1 DEF EventsGoOn
<1>5. CASE k.ev # 0
  <2>1. n \in 1 .. Len(event) /\ n = k.ev /\ event[n].agent = k.agent
    BY <1>2, <1>5 DEF CountHolds
  <2>2. /\ event' \in Seq(A!EventType) /\ Len(event') = Len(event)
        /\ \A m \in 1 .. Len(event) : event'[m] = IF m = n THEN new ELSE event[m]
    BY <1>1, <1>2, <1>3, <1>5, <2>1, ExceptSeq
  <2> QED BY <1>1, <1>2, <1>5, <2>1, <2>2 DEF EventsGoOn
<1> QED BY <1>4, <1>5

(* A rule that the request has passed over does not count its event as     *)
(* enough when it is committed either.                                     *)
LEMMA OwnShort ==
  ASSUME AgentsInv, EventsGoOn, rule' = rule, old' = old,
         NEW k \in A!CallType, CountHolds(k), k.pc \in {"rules", "enforce"},
         NEW n \in Nat, n = IF k.ev = 0 THEN Len(event) + 1 ELSE k.ev,
         NEW r \in Rules, rule[r].on, r \notin k.todo \cup k.fired, n > rule[r].from,
         "count" \notin k.late
  PROVE  Short(r, k.agent, n)'
<1>1. /\ Len(event) \in Nat /\ k.ev \in Nat /\ rule[r].says.threshold \in Nat
      /\ Since(r) \in Nat /\ Since(r)' = Since(r)
  BY RuleSays DEF A!CallType, Since
<1>a. RuleHolds(k, r) /\ PassedOver(k, r)
  BY DEF CountHolds, RuleHolds
<1>2. CASE k.ev # 0
  BY <1>1, <1>2, <1>a, MatchingSame DEF CountHolds, PassedOver
<1>3. CASE k.ev = 0
  <2>1. \/ rule[r].says.narrow /\ k.agent = None
        \/ Cardinality(Matching(r, k.agent, Len(event))) + 1 < rule[r].says.threshold
    BY <1>3, <1>a DEF PassedOver
  <2> DEFINE U == Matching(r, k.agent, n)'
             T == Matching(r, k.agent, Len(event))
  <2>2. T \in SUBSET (Since(r) .. Len(event))
    BY <1>1 DEF Matching
  <2>3. U \in SUBSET (T \cup {n})
    <3> SUFFICES ASSUME NEW m \in Since(r) .. n, rule[r].says.narrow => event'[m].agent = k.agent,
                        m # n
                 PROVE  m \in T
      BY <1>1 DEF Matching
    <3>1. m \in Since(r) .. Len(event) /\ m \in 1 .. Len(event)
      BY <1>1, <1>3 DEF Since, AgentsInv, A!TypeOK
    <3> QED BY <3>1 DEF Matching, EventsGoOn
  <2>4. U = Matching(r, k.agent, n)' /\ T = Matching(r, k.agent, Len(event))
    OBVIOUS
  <2> HIDE DEF U, T
  <2>5. Cardinality(U) \in Nat /\ Cardinality(T) \in Nat /\ Cardinality(U) <= Cardinality(T) + 1
    BY <1>1, <2>2, <2>3, CardOneMore
  <2> QED BY <1>1, <2>1, <2>4, <2>5 DEF Short
<1> QED BY <1>2, <1>3

(* The most severe action is one of them.                                  *)
LEMMA TopIs ==
  ASSUME NEW k \in A!CallType, k.read \in [Rules -> Rulings]
  PROVE  A!Top(k) \in A!Actions
<1> DEFINE U == {k.read[r].action : r \in k.fired}
<1>1. U \subseteq A!Actions
  <2>1. \A r \in k.fired : k.read[r] \in Rulings
    BY DEF A!CallType
  <2>2. \A says \in Rulings : says.action \in A!Actions
    BY AgentsMCAssumption DEF A!AgentsAssumption
  <2> QED BY <2>1, <2>2
<1>2. CASE k.fired = {}
  BY <1>2 DEF A!Top, A!Actions
<1>3. CASE k.fired # {}
  <2>1. \E act \in U : \A b \in U : A!Rank(b) <= A!Rank(act)
    <3>1. U # {}
      BY <1>3
    <3>2. /\ A!Rank("alert_only") = 0 /\ A!Rank("revoke_jit_grants") = 1
          /\ A!Rank("deny_all_policy") = 2 /\ A!Rank("suspend_agent") = 3
      BY DEF A!Rank
    <3> HIDE DEF U
    <3>3. CASE "suspend_agent" \in U
      BY <1>1, <3>2, <3>3 DEF A!Actions
    <3>4. CASE "suspend_agent" \notin U /\ "deny_all_policy" \in U
      BY <1>1, <3>2, <3>4 DEF A!Actions
    <3>5. CASE "suspend_agent" \notin U /\ "deny_all_policy" \notin U /\ "revoke_jit_grants" \in U
      BY <1>1, <3>2, <3>5 DEF A!Actions
    <3>6. CASE "suspend_agent" \notin U /\ "deny_all_policy" \notin U /\ "revoke_jit_grants" \notin U
      <4>1. "alert_only" \in U /\ \A b \in U : b = "alert_only"
        BY <1>1, <3>1, <3>6 DEF A!Actions
      <4> QED BY <3>2, <4>1
    <3> QED BY <3>3, <3>4, <3>5, <3>6
  <2>2. A!Top(k) = CHOOSE act \in U : \A r \in k.fired : A!Rank(k.read[r].action) <= A!Rank(act)
    BY <1>3 DEF A!Top
  <2>3. \E act \in U : \A r \in k.fired : A!Rank(k.read[r].action) <= A!Rank(act)
    BY <2>1
  <2>4. A!Top(k) \in U
    <3> HIDE DEF U
    <3> QED BY <2>2, <2>3
  <2> QED BY <1>1, <2>4
<1> QED BY <1>2, <1>3

(* The last commit of an event: every rule has counted.                    *)
LEMMA AgentsSettle ==
  ASSUME AgentsInv, NEW c \in Calls, A!Settle(c) PROVE AgentsInv'
<1>1. PICK k \in A!CallType : k = call[c]
  BY CallTypes
<1>2. k.pc = "rules" /\ k.todo = {} /\ CountHolds(k)
  BY <1>1 DEF A!Settle, AgentsInv, CallHolds
<1>3. /\ event' = A!Committed(k, A!Top(k))
      /\ call' = [A!Overtake({}, k.ev = 0) EXCEPT ![c] = A!NoCall]
      /\ UNCHANGED <<mix, agent, okta, status, rule, old, deny, said, mixed, crossed, risk>>
  BY <1>1 DEF A!Settle, A!After
<1>4. PICK n \in Nat : n = IF k.ev = 0 THEN Len(event) + 1 ELSE k.ev
  BY LenProperties DEF AgentsInv, A!TypeOK, A!CallType
<1>5. PICK acted \in A!Actions : acted = A!Top(k)
  BY <1>2, TopIs DEF CountHolds
<1>6. /\ event' \in Seq(A!EventType) /\ EventsGoOn
      /\ Len(event') = (IF k.ev = 0 THEN Len(event) + 1 ELSE Len(event))
      /\ n \in 1 .. Len(event') /\ event'[n].agent = k.agent /\ event'[n].fired = k.fired
      /\ (event'[n].late <=> "count" \in k.late)
      /\ \A m \in 1 .. Len(event') : m # n => m \in 1 .. Len(event) /\ event'[m] = event[m]
  BY <1>2, <1>3, <1>4, <1>5, CommittedIs
<1>7. PICK counted \in BOOLEAN : (counted <=> k.ev = 0) /\ A!Overtake({}, k.ev = 0) = A!Overtake({}, counted)
  <2>1. CASE k.ev = 0
    <3>1. A!Overtake({}, k.ev = 0) = A!Overtake({}, TRUE)
      BY <2>1 DEF A!Overtake
    <3> QED BY <2>1, <3>1
  <2>2. CASE k.ev # 0
    <3>1. A!Overtake({}, k.ev = 0) = A!Overtake({}, FALSE)
      BY <2>2 DEF A!Overtake
    <3> QED BY <2>2, <3>1
  <2> QED BY <2>1, <2>2
<1>8. ASSUME NEW d \in Calls
      PROVE  /\ call'[d] \in A!CallType /\ CallHolds(call[d])'
             /\ \A i \in Idents : call'[d].plan[i] = call[d].plan[i]
                                  \/ call'[d].plan[i] = A!NoPlan
  <2>1. CASE d = c
    <3>1. call'[d] = A!NoCall
      BY <1>3, <2>1 DEF A!Overtake
    <3>2. CallHolds(A!NoCall)'
      BY IdleCall DEF CallHolds, Holding, AsLoaded, CountHolds, DenyHolds, PlanHolds, A!NoCall
    <3> QED BY <3>1, <3>2, IdleCall
  <2>2. CASE d # c
    <3>1. PICK l \in A!CallType : l = A!Overtake({}, counted)[d] /\ OnlyLate(call[d], l)
      BY Overtaken
    <3>2. call'[d] = l
      BY <1>3, <1>7, <2>2, <3>1 DEF A!Overtake
    <3>3. Len(event') # Len(event) => counted
      BY <1>6, <1>7
    <3>4. CallHolds(l)'
      BY <1>3, <1>6, <3>1, <3>3, OthersGoOn
    <3> QED BY <3>1, <3>2, <3>4 DEF OnlyLate
  <2> QED BY <2>1, <2>2
<1>9. call' \in [Calls -> A!CallType]
  BY <1>3, <1>8 DEF A!Overtake
<1>10. A!TypeOK' /\ A!SaidIsTrue'
  <2>1. old' \in 0 .. Len(event')
    BY <1>3, <1>6, LenProperties DEF AgentsInv, A!TypeOK, EventsGoOn
  <2> QED BY <1>3, <1>6, <1>9, <2>1 DEF AgentsInv, A!TypeOK, A!SaidIsTrue
<1>11. FlushedOnce'
  BY <1>8, <1>9, PlansKept
<1>12. IdentityOfThere'
  BY <1>3, PlacesStay
<1>13. ASSUME NEW m \in 1 .. Len(event') PROVE EventHolds(m)'
  <2>1. CASE m = n
    <3> SUFFICES ASSUME "count" \notin k.late, NEW r \in Rules, rule'[r].on, n > rule'[r].from,
                        r \notin k.fired
                 PROVE  Short(r, k.agent, n)'
      BY <1>6, <2>1 DEF EventHolds
    <3>1. rule[r].on /\ n > rule[r].from /\ r \notin k.todo \cup k.fired
      BY <1>2, <1>3
    <3> QED BY <1>2, <1>3, <1>4, <1>6, <3>1, OwnShort
  <2>2. CASE m # n
    <3>1. m \in 1 .. Len(event) /\ event'[m] = event[m]
      BY <1>6, <2>2
    <3> QED BY <1>3, <1>6, <3>1, EventAfter
  <2> QED BY <2>1, <2>2
<1> QED BY <1>8, <1>10, <1>11, <1>12, <1>13 DEF AgentsInv

(* The record of a request after it has enforced a rule: the rule fired,   *)
(* and an agent that it switched off is as it says.                        *)
Fired(k, n, act) ==
  [k EXCEPT !.pc = "rules", !.todo = @ \ {k.rule}, !.fired = @ \cup {k.rule},
     !.rule = None, !.ev = n, !.active = IF act = "suspend_agent" THEN FALSE ELSE @]

(* One that has switched its agent off is ahead of what overtook it.       *)
Suspending(k, n, act) ==
  [Fired(k, n, act) EXCEPT !.late = IF k.active THEN @ \ {"switch"} ELSE @]

(* What all of its fields but two are.                                     *)
FiredOnce(k, n, l) ==
  /\ l.pc = "rules" /\ l.agent = k.agent /\ l.plan = k.plan
  /\ l.list = k.list /\ l.left = k.left
  /\ l.todo = k.todo \ {k.rule} /\ l.fired = k.fired \cup {k.rule} /\ l.ev = n
  /\ l.read = k.read /\ ("count" \in l.late <=> "count" \in k.late)

(* Both are calls, and what they are but for the switch.                   *)
LEMMA EnforcedCall ==
  ASSUME NEW k \in A!CallType, k.pc = "enforce", Holding(k), NEW n \in Nat, NEW act
  PROVE  /\ Fired(k, n, act) \in A!CallType /\ FiredOnce(k, n, Fired(k, n, act))
         /\ Fired(k, n, act).late = k.late
         /\ Fired(k, n, act).active = (IF act = "suspend_agent" THEN FALSE ELSE k.active)
         /\ Suspending(k, n, act) \in A!CallType /\ FiredOnce(k, n, Suspending(k, n, act))
         /\ "switch" \in Suspending(k, n, act).late <=> "switch" \in k.late /\ ~k.active
         /\ Suspending(k, n, act).active = (IF act = "suspend_agent" THEN FALSE ELSE k.active)
<1>1. k.rule \in Rules
  BY DEF Holding, A!CallType
<1> DEFINE now == IF act = "suspend_agent" THEN FALSE ELSE k.active
           late == IF k.active THEN k.late \ {"switch"} ELSE k.late
           done == Fired(k, n, act)
           l == Suspending(k, n, act)
<1>2. /\ now \in BOOLEAN /\ late \in SUBSET {"switch", "count", "policy", "import"}
      /\ k.late \in SUBSET {"switch", "count", "policy", "import"}
      /\ ("count" \in late <=> "count" \in k.late)
      /\ ("switch" \in late <=> "switch" \in k.late /\ ~k.active)
  BY DEF A!CallType
<1>3. done = [k EXCEPT !.pc = "rules", !.todo = k.todo \ {k.rule},
                !.fired = k.fired \cup {k.rule}, !.rule = None, !.ev = n, !.active = now]
  BY DEF Fired
<1>4. now = (IF act = "suspend_agent" THEN FALSE ELSE k.active)
  OBVIOUS
<1> HIDE DEF now, done
<1>5. /\ done \in A!CallType /\ done.pc = "rules" /\ done.agent = k.agent /\ done.plan = k.plan
      /\ done.list = k.list /\ done.left = k.left
      /\ done.todo = k.todo \ {k.rule} /\ done.fired = k.fired \cup {k.rule} /\ done.ev = n
      /\ done.active = now /\ done.late = k.late /\ done.read = k.read
  BY <1>1, <1>2, <1>3 DEF A!CallType, A!Pcs
<1>6. l = [done EXCEPT !.late = late]
  BY <1>5 DEF Suspending, done
<1> HIDE DEF late, l
<1>7. /\ l \in A!CallType /\ l.pc = done.pc /\ l.agent = done.agent /\ l.plan = done.plan
      /\ l.list = done.list /\ l.left = done.left /\ l.todo = done.todo
      /\ l.fired = done.fired /\ l.ev = done.ev /\ l.active = done.active /\ l.late = late
      /\ l.read = done.read
  BY <1>2, <1>5, <1>6 DEF A!CallType
<1>8. FiredOnce(k, n, done) /\ FiredOnce(k, n, l)
  BY <1>2, <1>5, <1>7 DEF FiredOnce
<1> QED BY <1>2, <1>4, <1>5, <1>7, <1>8 DEF done, l

(* A rule is enforced: the effect, the event and its audit row.            *)
LEMMA AgentsEnforce ==
  ASSUME AgentsInv, NEW c \in Calls, A!Enforce(c) PROVE AgentsInv'
<1>1. PICK k \in A!CallType : k = call[c]
  BY CallTypes
<1>2. k.pc = "enforce" /\ CountHolds(k) /\ Holding(k) /\ AsLoaded(k)
  BY <1>1 DEF A!Enforce, AgentsInv, CallHolds
<1>3. PICK a \in Agents : a = k.agent
  BY <1>2 DEF Holding
<1>4. PICK n \in Nat : n = IF k.ev = 0 THEN Len(event) + 1 ELSE k.ev
  BY LenProperties DEF AgentsInv, A!TypeOK, A!CallType
<1>5. PICK act : act = k.read[k.rule].action
  OBVIOUS
<1>6. event' = A!Committed(k, "pending")
      /\ UNCHANGED <<mix, okta, status, rule, old, crossed, risk>>
  BY <1>1 DEF A!Enforce
<1>7. PICK l \in A!CallType, as \in SUBSET {a} :
        /\ call' = [A!Overtake(as, k.ev = 0) EXCEPT ![c] = l]
        /\ FiredOnce(k, n, l)
        /\ ("switch" \notin l.late => l.active = agent'[a].active)
        /\ agent' \in [Agents -> A!AgentType]
        /\ \A b \in Agents : agent'[b].here = agent[b].here /\ agent'[b].ident = agent[b].ident
        /\ \A b \in Agents \ as : agent'[b].active = agent[b].active
        /\ said' \in [Agents -> BOOLEAN] /\ mixed' \subseteq Agents /\ A!SaidIsTrue'
  <2>1. k.active \in BOOLEAN /\ None \notin Agents
        /\ ("switch" \notin k.late => k.active = agent[a].active)
    BY <1>1, <1>2, <1>3, CallTypes DEF AsLoaded, A!CallType
  <2>2. CASE act = "suspend_agent"
    <3>1. /\ agent' = A!Switched(a, k.active, FALSE)
          /\ A!Judge(a, FALSE, "switch" \in k.late)
          /\ call' = [A!Overtake({a}, k.ev = 0) EXCEPT ![c] = Suspending(k, n, act)]
      BY <1>1, <1>3, <1>4, <1>5, <2>2 DEF A!Enforce, A!After, A!Suspended, Suspending, Fired
    <3>2. PICK l \in A!CallType :
            /\ l = Suspending(k, n, act) /\ FiredOnce(k, n, l) /\ l.active = FALSE
            /\ ("switch" \in l.late <=> "switch" \in k.late /\ ~k.active)
      BY <1>2, <2>2, EnforcedCall
    <3>3. PICK late \in BOOLEAN : late <=> "switch" \in k.late
      <4>1. CASE "switch" \in k.late
        BY <4>1
      <4>2. CASE "switch" \notin k.late
        BY <4>2
      <4> QED BY <4>1, <4>2
    <3>4. A!Judge(a, FALSE, late)
      BY <3>1, <3>3 DEF A!Judge
    <3>5. /\ agent' \in [Agents -> A!AgentType]
          /\ \A b \in Agents : agent'[b].here = agent[b].here /\ agent'[b].ident = agent[b].ident
          /\ \A b \in Agents \ {a} : agent'[b].active = agent[b].active
          /\ agent'[a].active = IF k.active # FALSE THEN FALSE ELSE agent[a].active
          /\ said' \in [Agents -> BOOLEAN] /\ mixed' \subseteq Agents /\ A!SaidIsTrue'
      BY <2>1, <3>1, <3>3, <3>4, SwitchedIs
    <3>6. "switch" \notin l.late => l.active = agent'[a].active
      BY <2>1, <3>2, <3>5
    <3> QED BY <1>3, <3>1, <3>2, <3>5, <3>6
  <2>3. CASE act # "suspend_agent"
    <3>1. /\ UNCHANGED <<agent, said, mixed>>
          /\ call' = [A!Overtake({}, k.ev = 0) EXCEPT ![c] = Fired(k, n, act)]
      BY <1>1, <1>3, <1>4, <1>5, <2>3 DEF A!Enforce, A!After, Fired
    <3>2. PICK l \in A!CallType :
            /\ l = Fired(k, n, act) /\ FiredOnce(k, n, l) /\ l.active = k.active /\ l.late = k.late
      BY <1>2, <2>3, EnforcedCall
    <3>3. /\ agent' \in [Agents -> A!AgentType]
          /\ said' \in [Agents -> BOOLEAN] /\ mixed' \subseteq Agents /\ A!SaidIsTrue'
      BY <3>1 DEF AgentsInv, A!TypeOK, A!SaidIsTrue
    <3> QED BY <1>3, <2>1, <3>1, <3>2, <3>3
  <2> QED BY <2>2, <2>3
<1>8. /\ deny' \in [Agents -> {"absent", "on", "off"}]
      /\ \A b \in Agents : deny[b] = "on" => deny'[b] = "on"
  <2>1. deny \in [Agents -> {"absent", "on", "off"}]
    BY DEF AgentsInv, A!TypeOK
  <2>2. deny' = deny \/ deny' = [deny EXCEPT ![a] = IF k.deny # "on" THEN "on" ELSE deny[a]]
    BY <1>1, <1>3 DEF A!Enforce, A!Injected
  <2> QED BY <2>1, <2>2
<1>9. /\ event' \in Seq(A!EventType) /\ EventsGoOn
      /\ Len(event') = (IF k.ev = 0 THEN Len(event) + 1 ELSE Len(event))
      /\ n \in 1 .. Len(event') /\ event'[n].agent = k.agent
      /\ event'[n].acted = "pending"
      /\ \A m \in 1 .. Len(event') : m # n => m \in 1 .. Len(event) /\ event'[m] = event[m]
  BY <1>2, <1>4, <1>6, CommittedIs
<1>10. PICK counted \in BOOLEAN : (counted <=> k.ev = 0) /\ A!Overtake(as, k.ev = 0) = A!Overtake(as, counted)
  <2>1. CASE k.ev = 0
    <3>1. A!Overtake(as, k.ev = 0) = A!Overtake(as, TRUE)
      BY <2>1 DEF A!Overtake
    <3> QED BY <2>1, <3>1
  <2>2. CASE k.ev # 0
    <3>1. A!Overtake(as, k.ev = 0) = A!Overtake(as, FALSE)
      BY <2>2 DEF A!Overtake
    <3> QED BY <2>2, <3>1
  <2> QED BY <2>1, <2>2
<1>11. CallHolds(l)'
  <2>1. k.rule \in k.todo /\ k.todo \subseteq Rules /\ k.list = {}
        /\ \A i \in Idents : k.plan[i] = A!NoPlan
    BY <1>2 DEF Holding, A!CallType
  <2>a. /\ l.pc = "rules" /\ l.agent = a /\ l.plan = k.plan /\ l.list = k.list /\ l.ev = n
        /\ l.todo = k.todo \ {k.rule} /\ l.fired = k.fired \cup {k.rule}
        /\ l.read = k.read /\ ("count" \in l.late <=> "count" \in k.late)
    BY <1>3, <1>7 DEF FiredOnce
  <2>2. Holding(l)'
    BY <2>a, <2>1 DEF Holding
  <2>3. AsLoaded(l)'
    BY <1>7, <2>a, <2>1, IdleCall DEF AsLoaded
  <2>4. \A i \in Idents : PlanHolds(l, i)'
    BY <2>a, <2>1, IdleCall DEF PlanHolds
  <2>5. DenyHolds(l)'
    BY <2>a DEF DenyHolds
  <2>6. CountHolds(l)'
    <3>1. /\ l.ev = n /\ n # 0 /\ n <= Len(event') /\ event'[n].agent = l.agent
          /\ l.read \in [Rules -> Rulings]
      BY <1>2, <1>3, <1>9, <2>a DEF CountHolds
    <3>2. ASSUME "count" \notin l.late, NEW r \in Rules, n > rule'[r].from
          PROVE  RuleHolds(l, r)'
      <4>1. "count" \notin k.late /\ n > rule[r].from /\ (k.ev # 0 => k.ev > rule[r].from)
        BY <1>4, <1>6, <2>a, <3>2
      <4>2. l.read[r] = rule'[r].says
        BY <1>2, <1>6, <2>a, <4>1 DEF CountHolds, RuleHolds
      <4>3. ASSUME rule[r].on, r \notin l.todo \cup l.fired PROVE Short(r, k.agent, n)'
        <5>1. r \notin k.todo \cup k.fired
          BY <2>a, <2>1, <4>3
        <5> QED BY <1>2, <1>4, <1>6, <1>9, <4>1, <4>3, <5>1, OwnShort
      <4>4. rule'[r].on /\ r \notin l.todo \cup l.fired => PassedOver(l, r)'
        BY <1>3, <1>6, <2>a, <3>1, <4>3 DEF PassedOver
      <4> QED BY <4>2, <4>4 DEF RuleHolds
    <3> QED BY <3>1, <3>2 DEF CountHolds
  <2> QED BY <2>2, <2>3, <2>4, <2>5, <2>6 DEF CallHolds
<1>12. ASSUME NEW d \in Calls
       PROVE  /\ call'[d] \in A!CallType /\ CallHolds(call[d])'
              /\ \A i \in Idents : call'[d].plan[i] = call[d].plan[i]
                                   \/ call'[d].plan[i] = A!NoPlan
  <2>1. CASE d = c
    <3>1. call'[d] = l
      BY <1>7, <2>1 DEF A!Overtake
    <3> QED BY <1>1, <1>7, <1>11, <2>1, <3>1 DEF FiredOnce
  <2>2. CASE d # c
    <3>1. PICK m \in A!CallType : m = A!Overtake(as, counted)[d] /\ OnlyLate(call[d], m)
      BY Overtaken
    <3>2. call'[d] = m
      BY <1>7, <1>10, <2>2, <3>1 DEF A!Overtake
    <3>3. (Len(event') # Len(event) => counted) /\ as \in SUBSET Agents
      BY <1>9, <1>10
    <3>4. CallHolds(m)'
      BY <1>6, <1>7, <1>8, <1>9, <3>1, <3>3, OthersGoOn
    <3> QED BY <3>1, <3>2, <3>4 DEF OnlyLate
  <2> QED BY <2>1, <2>2
<1>13. call' \in [Calls -> A!CallType]
  BY <1>7, <1>12 DEF A!Overtake
<1>14. A!TypeOK'
  <2>1. old' \in 0 .. Len(event')
    BY <1>6, <1>9, LenProperties DEF AgentsInv, A!TypeOK, EventsGoOn
  <2> QED BY <1>6, <1>7, <1>8, <1>9, <1>13, <2>1 DEF AgentsInv, A!TypeOK
<1>15. FlushedOnce'
  BY <1>12, <1>13, PlansKept
<1>16. IdentityOfThere'
  BY <1>6, <1>7, PlacesStay
<1>17. ASSUME NEW m \in 1 .. Len(event') PROVE EventHolds(m)'
  <2>1. CASE m = n
    BY <1>9, <2>1 DEF EventHolds
  <2>2. CASE m # n
    <3>1. m \in 1 .. Len(event) /\ event'[m] = event[m]
      BY <1>9, <2>2
    <3> QED BY <1>6, <1>9, <3>1, EventAfter
  <2> QED BY <2>1, <2>2
<1> QED BY <1>7, <1>12, <1>14, <1>15, <1>16, <1>17 DEF AgentsInv

(* A rule is changed: who counts hears of it, and so do the others that    *)
(* were committed before.                                                  *)
LEMMA AgentsUpdateRule ==
  ASSUME AgentsInv, NEW r \in Rules, A!UpdateRule(r) PROVE AgentsInv'
<1>1. PICK says \in Rulings, on \in BOOLEAN :
        rule' = [rule EXCEPT ![r] = [says |-> says, on |-> on, from |-> Len(event)]]
  BY DEF A!UpdateRule
<1>a. /\ call' = A!Overtake({}, TRUE)
      /\ UNCHANGED <<mix, agent, okta, status, event, old, deny, said, mixed, crossed, risk>>
  BY DEF A!UpdateRule
<1>2. rule \in [Rules -> A!RuleType] /\ Len(event) \in Nat
  BY LenProperties DEF AgentsInv, A!TypeOK
<1>3. /\ rule' \in [Rules -> A!RuleType] /\ rule'[r].from = Len(event)
      /\ \A s \in Rules \ {r} : rule'[s] = rule[s]
  <2> DEFINE new == [says |-> says, on |-> on, from |-> Len(event)]
  <2>1. new \in A!RuleType /\ new.from = Len(event)
    BY <1>2 DEF A!RuleType
  <2>2. rule' = [rule EXCEPT ![r] = new]
    BY <1>1
  <2> HIDE DEF new
  <2> QED BY <1>2, <2>1, <2>2
<1>4. ASSUME NEW s \in Rules \ {r}, NEW x, NEW n
      PROVE  Matching(s, x, n)' = Matching(s, x, n) /\ (Short(s, x, n)' <=> Short(s, x, n))
  <2>1. Matching(s, x, n)' = Matching(s, x, n)
    BY <1>3, <1>a DEF Matching, Since
  <2> QED BY <1>3, <2>1 DEF Short
<1>5. ASSUME NEW d \in Calls PROVE call'[d] \in A!CallType /\ CallHolds(call[d])'
                                   /\ OnlyLate(call[d], call'[d])
  <2>1. PICK l \in A!CallType : l = call'[d]
    BY <1>a, Overtaken
  <2>2. PICK k \in A!CallType : k = call[d]
    BY CallTypes
  <2>3. OnlyLate(k, l) /\ OvertakesAll({}, TRUE, l)
    BY <1>a, <2>1, <2>2, Overtaken
  <2>4. Holding(k) /\ AsLoaded(k) /\ CountHolds(k) /\ DenyHolds(k) /\ \A i \in Idents : PlanHolds(k, i)
    BY <2>2 DEF AgentsInv, CallHolds
  <2>5. Holding(l)' /\ AsLoaded(l)' /\ \A i \in Idents : PlanHolds(l, i)'
    <3>1. l.agent \in {} \/ (\E i \in Idents : l.plan[i].agent \in {}) => "switch" \in l.late
      OBVIOUS
    <3>2. {} \in SUBSET Agents
      OBVIOUS
    <3> QED BY <1>a, <2>3, <2>4, <3>1, <3>2, LoadedAfter
  <2>6. CountHolds(l)'
    <3> SUFFICES ASSUME l.pc \in {"rules", "enforce"}
                 PROVE  CountHolds(l)'
      BY DEF CountHolds
    <3>1. l.pc = k.pc /\ l.agent = k.agent /\ l.ev = k.ev /\ k.ev \in Nat
      BY <2>3 DEF OnlyLate, A!CallType
    <3>2. /\ l.ev <= Len(event) /\ (l.ev # 0 => event[l.ev].agent = l.agent)
          /\ l.read = k.read /\ l.read \in [Rules -> Rulings]
      BY <2>3, <2>4, <3>1 DEF CountHolds, OnlyLate
    <3>3. l.ev = 0 => "count" \in l.late
      BY <2>3, <3>1 DEF OvertakesAll
    <3>4. ASSUME "count" \notin l.late, NEW s \in Rules, l.ev > rule'[s].from
          PROVE  RuleHolds(l, s)'
      <4>1. s # r
        BY <1>2, <1>3, <3>1, <3>2, <3>4
      <4>2. RuleHolds(k, s) /\ l.ev # 0
        BY <1>3, <2>3, <2>4, <3>1, <3>3, <3>4, <4>1 DEF OnlyLate, CountHolds
      <4>3. PassedOver(k, s) => PassedOver(l, s)'
        BY <1>4, <3>1, <4>1, <4>2 DEF PassedOver
      <4> QED BY <1>3, <2>3, <4>1, <4>2, <4>3 DEF RuleHolds, OnlyLate
    <3> QED BY <1>a, <3>2, <3>3, <3>4 DEF CountHolds
  <2>7. DenyHolds(l)'
    BY <1>a, <2>3, <2>4, DenyAfter
  <2> QED BY <2>1, <2>2, <2>3, <2>5, <2>6, <2>7 DEF CallHolds
<1>6. call' \in [Calls -> A!CallType]
  BY <1>a, <1>5 DEF A!Overtake
<1>7. A!TypeOK' /\ A!SaidIsTrue'
  BY <1>a, <1>3, <1>6 DEF AgentsInv, A!TypeOK, A!SaidIsTrue
<1>8. FlushedOnce'
  <2>1. \A d \in Calls, i \in Idents : call'[d].plan[i] = call[d].plan[i]
    BY <1>5 DEF OnlyLate
  <2> QED BY <1>6, <2>1, PlansKept
<1>9. IdentityOfThere'
  BY <1>a, PlacesStay
<1>10. ASSUME NEW m \in 1 .. Len(event') PROVE EventHolds(m)'
  <2>1. EventHolds(m) /\ m <= Len(event)
    BY <1>2, <1>a DEF AgentsInv
  <2>2. PICK x : x = event[m].agent
    OBVIOUS
  <2> SUFFICES ASSUME event[m].acted # "pending", ~event[m].late, NEW s \in Rules, rule'[s].on,
                      m > rule'[s].from, s \notin event[m].fired
               PROVE  Short(s, x, m)'
    BY <1>a, <2>2 DEF EventHolds
  <2>3. s # r
    BY <1>2, <1>3, <2>1
  <2>4. Short(s, x, m)
    BY <1>3, <2>1, <2>2, <2>3 DEF EventHolds
  <2> QED BY <1>4, <2>3, <2>4
<1> QED BY <1>5, <1>7, <1>8, <1>9, <1>10 DEF AgentsInv

(* An event leaves the window of every rule.                               *)
LEMMA AgentsAge ==
  ASSUME AgentsInv, A!Age PROVE AgentsInv'
<1>1. /\ old' = old + 1 /\ old < Len(event)
      /\ UNCHANGED <<mix, agent, okta, status, rule, event, deny, said, mixed, crossed, risk, call>>
  BY DEF A!Age
<1>2. Len(event) \in Nat /\ old \in Nat
  BY LenProperties DEF AgentsInv, A!TypeOK
<1>3. ASSUME NEW r \in Rules, NEW x, NEW n \in Nat, n <= Len(event)
      PROVE  /\ Cardinality(Matching(r, x, n)') \in Nat /\ Cardinality(Matching(r, x, n)) \in Nat
             /\ Cardinality(Matching(r, x, n)') <= Cardinality(Matching(r, x, n))
  <2> DEFINE U == Matching(r, x, n)'
             T == Matching(r, x, n)
  <2>0. Since(r) \in Nat /\ Since(r)' \in Nat /\ Since(r)' >= Since(r)
    BY <1>1, <1>2 DEF Since
  <2>1. T \in SUBSET (Since(r) .. Len(event)) /\ U \in SUBSET T
    BY <1>1, <1>2, <1>3, <2>0 DEF Matching
  <2>2. U = Matching(r, x, n)' /\ T = Matching(r, x, n)
    OBVIOUS
  <2> HIDE DEF U, T
  <2>3. Cardinality(U) \in Nat /\ Cardinality(T) \in Nat /\ Cardinality(U) <= Cardinality(T)
    BY <1>2, <2>0, <2>1, CardLe
  <2> QED BY <2>2, <2>3
<1>4. ASSUME NEW r \in Rules, NEW x, NEW n \in Nat, n <= Len(event), Short(r, x, n)
      PROVE  Short(r, x, n)'
  <2>1. rule[r].says.threshold \in Nat /\ rule' = rule
    BY <1>1, RuleSays
  <2> QED BY <1>3, <1>4, <2>1 DEF Short
<1>5. ASSUME NEW c \in Calls PROVE CallHolds(call[c])'
  <2>1. PICK k \in A!CallType : k = call[c] /\ k = call'[c]
    BY <1>1, CallTypes
  <2>2. CallHolds(k)
    BY <2>1 DEF AgentsInv
  <2>3. Holding(k)' /\ AsLoaded(k)' /\ DenyHolds(k)' /\ \A i \in Idents : PlanHolds(k, i)'
    BY <1>1, <2>2 DEF CallHolds, Holding, AsLoaded, DenyHolds, PlanHolds
  <2>4. CountHolds(k)'
    <3> SUFFICES ASSUME k.pc \in {"rules", "enforce"} PROVE CountHolds(k)'
      BY DEF CountHolds
    <3>1. /\ k.ev \in Nat /\ k.ev <= Len(event) /\ (k.ev # 0 => event[k.ev].agent = k.agent)
          /\ k.read \in [Rules -> Rulings]
      BY <2>2 DEF CallHolds, CountHolds, A!CallType
    <3>2. ASSUME "count" \notin k.late, NEW r \in Rules, k.ev # 0 => k.ev > rule[r].from
          PROVE  RuleHolds(k, r)'
      <4>1. RuleHolds(k, r)
        BY <2>2, <3>2 DEF CallHolds, CountHolds
      <4>2. PassedOver(k, r) => PassedOver(k, r)'
        <5>1. CASE k.ev # 0
          BY <1>4, <3>1, <5>1 DEF PassedOver
        <5>2. CASE k.ev = 0
          <6>1. PICK n \in Nat : n = Len(event)
            BY <1>2
          <6>2. /\ Cardinality(Matching(r, k.agent, n)') \in Nat
                /\ Cardinality(Matching(r, k.agent, n)) \in Nat
                /\ Cardinality(Matching(r, k.agent, n)') <= Cardinality(Matching(r, k.agent, n))
            BY <1>3, <6>1
          <6>3. Matching(r, k.agent, n)' = Matching(r, k.agent, Len(event))'
            BY <1>1, <6>1 DEF Matching
          <6>4. rule[r].says.threshold \in Nat
            BY RuleSays
          <6> QED BY <1>1, <5>2, <6>1, <6>2, <6>3, <6>4 DEF PassedOver
        <5> QED BY <5>1, <5>2
      <4> QED BY <1>1, <4>1, <4>2 DEF RuleHolds
    <3> QED BY <1>1, <3>1, <3>2 DEF CountHolds
  <2> QED BY <2>1, <2>3, <2>4 DEF CallHolds
<1>6. ASSUME NEW m \in 1 .. Len(event') PROVE EventHolds(m)'
  <2>1. PICK x : x = event[m].agent
    OBVIOUS
  <2>2. EventHolds(m) /\ m \in Nat /\ m <= Len(event)
    BY <1>1, <1>2 DEF AgentsInv
  <2>3. \A r \in Rules : Short(r, x, m) => Short(r, x, m)'
    BY <1>4, <2>2
  <2> QED BY <1>1, <2>1, <2>2, <2>3 DEF EventHolds
<1>7. A!TypeOK' /\ A!SaidIsTrue' /\ FlushedOnce' /\ IdentityOfThere'
  BY <1>1, <1>2 DEF AgentsInv, A!TypeOK, A!SaidIsTrue, FlushedOnce, IdentityOfThere
<1> QED BY <1>5, <1>6, <1>7 DEF AgentsInv

(* An administrator disables the policy that a rule has injected.          *)
LEMMA AgentsLift ==
  ASSUME AgentsInv, NEW a \in Agents, A!Lift(a) PROVE AgentsInv'
<1>1. /\ deny' = [deny EXCEPT ![a] = "off"]
      /\ call' = [d \in Calls |-> IF call[d].pc = "enforce" /\ call[d].agent = a
                                  THEN [call[d] EXCEPT !.late = @ \cup {"policy"}] ELSE call[d]]
      /\ UNCHANGED <<mix, agent, okta, status, rule, event, old, said, mixed, crossed, risk>>
  BY DEF A!Lift
<1>2. EventsGoOn
  BY <1>1, LenProperties DEF EventsGoOn, AgentsInv, A!TypeOK
<1>3. deny \in [Agents -> {"absent", "on", "off"}]
  BY DEF AgentsInv, A!TypeOK
<1>4. ASSUME NEW d \in Calls PROVE call'[d] \in A!CallType /\ CallHolds(call[d])'
                                   /\ OnlyLate(call[d], call'[d])
  <2>1. PICK k \in A!CallType : k = call[d]
    BY CallTypes
  <2>2. PICK l \in A!CallType :
          /\ l = call'[d] /\ OnlyLate(k, l)
          /\ l.pc = "enforce" /\ l.agent = a => "policy" \in l.late
    <3>1. CASE k.pc = "enforce" /\ k.agent = a
      <4> DEFINE l == [k EXCEPT !.late = @ \cup {"policy"}]
      <4>1. l \in A!CallType /\ OnlyLate(k, l) /\ "policy" \in l.late
        BY DEF A!CallType, OnlyLate
      <4>2. call'[d] = l
        BY <1>1, <2>1, <3>1
      <4> QED BY <4>1, <4>2
    <3>2. CASE ~(k.pc = "enforce" /\ k.agent = a)
      <4>1. call'[d] = k /\ OnlyLate(k, k)
        BY <1>1, <2>1, <3>2 DEF OnlyLate
      <4> QED BY <3>2, <4>1
    <3> QED BY <3>1, <3>2
  <2>3. Holding(k) /\ AsLoaded(k) /\ CountHolds(k) /\ DenyHolds(k) /\ \A i \in Idents : PlanHolds(k, i)
    BY <2>1 DEF AgentsInv, CallHolds
  <2>4. Holding(l)' /\ AsLoaded(l)' /\ \A i \in Idents : PlanHolds(l, i)'
    <3>1. l.agent \in {} \/ (\E i \in Idents : l.plan[i].agent \in {}) => "switch" \in l.late
      OBVIOUS
    <3>2. {} \in SUBSET Agents
      OBVIOUS
    <3> QED BY <1>1, <2>2, <2>3, <3>1, <3>2, LoadedAfter
  <2>5. CountHolds(l)'
    <3>1. Len(event') # Len(event) /\ l.pc \in {"rules", "enforce"} /\ l.ev = 0 => "count" \in l.late
      BY <1>1
    <3> QED BY <1>1, <1>2, <2>2, <2>3, <3>1, CountAfter
  <2>6. DenyHolds(l)'
    BY <1>1, <1>3, <2>2, <2>3 DEF OnlyLate, Holding, DenyHolds
  <2> QED BY <2>1, <2>2, <2>4, <2>5, <2>6 DEF CallHolds
<1>5. call' \in [Calls -> A!CallType]
  BY <1>1, <1>4
<1>6. A!TypeOK' /\ A!SaidIsTrue'
  BY <1>1, <1>3, <1>5 DEF AgentsInv, A!TypeOK, A!SaidIsTrue
<1>7. FlushedOnce'
  <2>1. \A d \in Calls, i \in Idents : call'[d].plan[i] = call[d].plan[i]
    BY <1>4 DEF OnlyLate
  <2> QED BY <1>5, <2>1, PlansKept
<1>8. IdentityOfThere'
  BY <1>1, PlacesStay
<1>9. ASSUME NEW m \in 1 .. Len(event') PROVE EventHolds(m)'
  BY <1>1, <1>2, EventAfter
<1> QED BY <1>4, <1>6, <1>7, <1>8, <1>9 DEF AgentsInv

(* What the identity provider says, how a sync ended and how risky an      *)
(* agent is touch nothing else.                                            *)
LEMMA AgentsElsewhere ==
  ASSUME AgentsInv, UNCHANGED <<mix, agent, rule, event, old, deny, said, mixed, crossed, call>>,
         okta' \in [Idents -> [listed : BOOLEAN, role : Roles \cup {None}]],
         status' \in {"never", "ok", "error"},
         risk' \in [Agents -> {"medium", "high", "critical"}]
  PROVE  AgentsInv'
<1>1. A!TypeOK' /\ A!SaidIsTrue' /\ FlushedOnce' /\ IdentityOfThere'
  BY DEF AgentsInv, A!TypeOK, A!SaidIsTrue, FlushedOnce, IdentityOfThere
<1>2. EventsGoOn
  BY LenProperties DEF EventsGoOn, AgentsInv, A!TypeOK
<1>3. ASSUME NEW c \in Calls PROVE CallHolds(call[c])'
  <2>1. PICK k \in A!CallType : k = call[c] /\ k = call'[c] /\ CallHolds(k)
    BY CallTypes
  <2>2. OnlyLate(k, k) /\ Holding(k) /\ AsLoaded(k) /\ CountHolds(k) /\ DenyHolds(k)
        /\ \A i \in Idents : PlanHolds(k, i)
    BY <2>1 DEF OnlyLate, CallHolds
  <2>3. Holding(k)' /\ AsLoaded(k)' /\ \A i \in Idents : PlanHolds(k, i)'
    <3>1. k.agent \in {} \/ (\E i \in Idents : k.plan[i].agent \in {}) => "switch" \in k.late
      OBVIOUS
    <3>2. {} \in SUBSET Agents
      OBVIOUS
    <3> QED BY <2>2, <3>1, <3>2, LoadedAfter
  <2>4. CountHolds(k)'
    <3>1. Len(event') # Len(event) /\ k.pc \in {"rules", "enforce"} /\ k.ev = 0 => "count" \in k.late
      OBVIOUS
    <3> QED BY <1>2, <2>2, <3>1, CountAfter
  <2>5. DenyHolds(k)'
    BY <2>2, DenyAfter
  <2> QED BY <2>1, <2>3, <2>4, <2>5 DEF CallHolds
<1>4. ASSUME NEW m \in 1 .. Len(event') PROVE EventHolds(m)'
  BY <1>2, EventAfter
<1> QED BY <1>1, <1>3, <1>4 DEF AgentsInv

(* Those that do not touch a call.                                         *)
LEMMA AgentsApart ==
  ASSUME AgentsInv,
         \/ \E c \in Calls : A!SyncFails(c)
         \/ \E i \in Idents : A!Change(i)
         \/ \E a \in Agents : A!UpdateRisk(a)
  PROVE  AgentsInv'
<1>1. /\ okta \in [Idents -> [listed : BOOLEAN, role : Roles \cup {None}]]
      /\ status \in {"never", "ok", "error"}
      /\ risk \in [Agents -> {"medium", "high", "critical"}]
  BY DEF AgentsInv, A!TypeOK
<1>2. CASE \E c \in Calls : A!SyncFails(c)
  BY <1>1, <1>2, AgentsElsewhere DEF A!SyncFails
<1>3. ASSUME NEW i \in Idents, A!Change(i) PROVE AgentsInv'
  <2>1. okta' \in [Idents -> [listed : BOOLEAN, role : Roles \cup {None}]]
    BY <1>1, <1>3 DEF A!Change
  <2> QED BY <1>1, <1>3, <2>1, AgentsElsewhere DEF A!Change
<1>4. ASSUME NEW a \in Agents, A!UpdateRisk(a) PROVE AgentsInv'
  <2>1. PICK h \in Histories :
          risk' = [risk EXCEPT ![a] = A!RiskClass(risk[a], A!Score(h.total, h.denied, h.waiting))]
    BY <1>4 DEF A!UpdateRisk
  <2>2. A!RiskClass(risk[a], A!Score(h.total, h.denied, h.waiting)) \in {"medium", "high", "critical"}
    BY <1>1 DEF A!RiskClass
  <2>3. risk' \in [Agents -> {"medium", "high", "critical"}]
    BY <1>1, <2>1, <2>2
  <2> QED BY <1>1, <1>4, <2>3, AgentsElsewhere DEF A!UpdateRisk
<1> QED BY <1>2, <1>3, <1>4

(* The row of an agent that a sync has listed.                             *)
LEMMA SyncedIs ==
  ASSUME AgentsInv, NEW k \in A!CallType, CallHolds(k), NEW a \in Agents, A!Plans(k, a) # {}
  PROVE  \E j \in Idents :
           /\ k.plan[j].agent = a
           /\ A!Synced(k, a) \in A!AgentType
           /\ A!Synced(k, a).here /\ A!Synced(k, a).ident = j
           /\ ("switch" \notin k.late => A!Synced(k, a).active)
           /\ (~k.plan[j].new => agent[a].here /\ agent[a].ident = j)
           /\ (k.plan[j].new => ~agent[a].here)
           /\ j \in k.list
<1> DEFINE j == CHOOSE i \in Idents : k.plan[i].agent = a
           p == k.plan[j]
           on == IF p.new \/ ~p.active THEN TRUE ELSE agent[a].active
           duty == IF p.role # None THEN p.role ELSE agent[a].role
<1>1. j \in Idents /\ k.plan[j].agent = a
  BY DEF A!Plans
<1>2. A!Synced(k, a) = [here |-> TRUE, ident |-> j, active |-> on, role |-> duty]
  BY DEF A!Synced
<1> HIDE DEF j
<1>3. /\ p \in A!PlanType /\ agent[a] \in A!AgentType /\ None \notin Agents
      /\ PlanHolds(k, j) /\ AsLoaded(k)
  BY <1>1, CallTypes, AgentsMCAssumption
  DEF A!AgentsAssumption, A!CallType, CallHolds, AgentsInv, A!TypeOK
<1>4. on \in BOOLEAN /\ duty \in Roles \cup {None}
  BY <1>3 DEF A!PlanType, A!AgentType
<1>5. "switch" \notin k.late => on
  <2>1. "switch" \notin k.late /\ ~p.new => p.active = agent[a].active
    BY <1>1, <1>3 DEF AsLoaded
  <2> QED BY <2>1
<1> HIDE DEF on, duty
<1>6. /\ A!Synced(k, a) \in A!AgentType /\ A!Synced(k, a).here /\ A!Synced(k, a).ident = j
      /\ A!Synced(k, a).active = on
  BY <1>1, <1>2, <1>4 DEF A!AgentType
<1>7. /\ ~p.new => agent[a].here /\ agent[a].ident = j
      /\ p.new => ~agent[a].here
      /\ j \in k.list
  BY <1>1, <1>3 DEF PlanHolds
<1> QED BY <1>1, <1>5, <1>6, <1>7

(* The agents that a sync has listed, what it writes when it is committed, *)
(* and what the calls that list hear of it.                                *)
Found(k) == {a \in Agents : A!Plans(k, a) # {}}

Written(k, as, off) ==
  [a \in Agents |-> IF a \in as THEN A!Synced(k, a)
                   ELSE IF a \in off THEN [agent[a] EXCEPT !.active = FALSE] ELSE agent[a]]

ImportTold(new, list) == [new EXCEPT !.late = @ \cup (IF list # {} THEN {"import"} ELSE {})]

Imported(c, k, as, off) ==
  /\ agent' = Written(k, as, off)
  /\ said' = [a \in Agents |-> IF a \in as THEN TRUE ELSE IF a \in off THEN FALSE ELSE said[a]]
  /\ mixed' = (mixed \ (as \cup off)) \cup (IF "switch" \in k.late THEN as ELSE {})
  /\ crossed' = IF "import" \in k.late THEN crossed \cup k.list ELSE crossed
  /\ status' = "ok"
  /\ call' = [d \in Calls |->
                IF d = c \/ (call[d].pc = "wait" /\ k.plan[call[d].at].new) THEN A!NoCall
                ELSE ImportTold(A!Overtake(as \cup off, FALSE)[d], call[d].list)]

(* A sync leaves an agent where it was, or adds one it has flushed; it     *)
(* switches the agents it has listed and those that are missing.           *)
Imports(k, a) ==
  \E j \in Idents : /\ k.plan[j].agent = a /\ k.plan[j].new /\ j \in k.list
                    /\ ~agent[a].here /\ agent'[a].here /\ agent'[a].ident = j

(* Its row is one of an agent.                                             *)
LEMMA SyncWrites ==
  ASSUME AgentsInv, NEW k \in A!CallType, CallHolds(k),
         NEW as \in SUBSET Agents, as = Found(k),
         NEW off \in SUBSET Agents, agent' = Written(k, as, off), NEW a \in Agents
  PROVE  /\ agent'[a] \in A!AgentType
         /\ a \in as => /\ agent'[a].here
                        /\ "switch" \notin k.late => agent'[a].active
         /\ a \in off \ as => ~agent'[a].active
         /\ a \notin as \cup off => agent'[a].active = agent[a].active
         /\ \/ (agent'[a].here <=> agent[a].here) /\ agent'[a].ident = agent[a].ident
            \/ Imports(k, a) /\ a \in as
<1>1. agent[a] \in A!AgentType
  BY DEF AgentsInv, A!TypeOK
<1>2. CASE a \in as
  <2>1. PICK j \in Idents :
           /\ k.plan[j].agent = a
           /\ A!Synced(k, a) \in A!AgentType
           /\ A!Synced(k, a).here /\ A!Synced(k, a).ident = j
           /\ ("switch" \notin k.late => A!Synced(k, a).active)
           /\ (~k.plan[j].new => agent[a].here /\ agent[a].ident = j)
           /\ (k.plan[j].new => ~agent[a].here)
           /\ j \in k.list
    BY <1>2, SyncedIs DEF Found
  <2>2. agent'[a] = A!Synced(k, a)
    BY <1>2 DEF Written
  <2>3. CASE k.plan[j].new
    <3>1. Imports(k, a)
      BY <2>1, <2>2, <2>3 DEF Imports
    <3> QED BY <1>2, <2>1, <2>2, <3>1
  <2>4. CASE ~k.plan[j].new
    BY <1>2, <2>1, <2>2, <2>4
  <2> QED BY <2>3, <2>4
<1>3. CASE a \in off \ as
  <2> DEFINE r == [agent[a] EXCEPT !.active = FALSE]
  <2>1. /\ r \in A!AgentType /\ r.active = FALSE /\ r.here = agent[a].here
        /\ r.ident = agent[a].ident
    BY <1>1 DEF A!AgentType
  <2>2. agent'[a] = r
    BY <1>3 DEF Written
  <2> HIDE DEF r
  <2> QED BY <1>3, <2>1, <2>2
<1>4. CASE a \notin as \cup off
  BY <1>1, <1>4 DEF Written
<1> QED BY <1>2, <1>3, <1>4

(* Agents are where they were, or were imported by the sync: two have an   *)
(* identity only when syncs met.                                           *)
LEMMA ImportsKnown ==
  ASSUME AgentsInv, NEW k \in A!CallType, CallHolds(k),
         NEW as \in SUBSET Agents, as = Found(k),
         \A a \in Agents : \/ (agent'[a].here <=> agent[a].here) /\ agent'[a].ident = agent[a].ident
                           \/ Imports(k, a) /\ a \in as,
         \A a \in as : agent'[a].here,
         \A a \in as : \E j \in Idents : k.plan[j].agent = a /\ agent'[a].ident = j,
         crossed' = IF "import" \in k.late THEN crossed \cup k.list ELSE crossed
  PROVE  IdentityOfThere'
<1>1. \A i \in Idents : PlanHolds(k, i)
  BY DEF CallHolds
<1>2. ASSUME NEW a \in Agents, ~agent'[a].here PROVE agent'[a].ident = None
  BY <1>2 DEF Imports, AgentsInv, IdentityOfThere
<1>3. ASSUME NEW a \in Agents, NEW b \in Agents, agent'[a].ident = agent'[b].ident, a # b,
             Imports(k, a)
      PROVE  agent'[a].ident \in crossed'
  <2>1. PICK j \in Idents : /\ k.plan[j].agent = a /\ k.plan[j].new /\ j \in k.list
                            /\ ~agent[a].here /\ agent'[a].ident = j
    BY <1>3 DEF Imports
  <2>2. CASE "import" \in k.late
    BY <2>1, <2>2
  <2>3. CASE "import" \notin k.late
    <3>1. \A x \in Agents : agent[x].ident # j
      BY <1>1, <2>1, <2>3 DEF PlanHolds
    <3>2. b \in as
      BY <1>3, <2>1, <3>1
    <3>3. PICK i \in Idents : k.plan[i].agent = b /\ agent'[b].ident = i
      BY <3>2
    <3>4. i = j
      BY <1>3, <2>1, <3>3
    <3> QED BY <1>3, <2>1, <3>3, <3>4
  <2> QED BY <2>2, <2>3
<1>4. ASSUME NEW a \in Agents, NEW b \in Agents, agent'[a].ident = agent'[b].ident, a # b
      PROVE  agent'[a].ident \in crossed' \cup {None}
  <2>1. CASE Imports(k, a)
    BY <1>3, <1>4, <2>1
  <2>2. CASE Imports(k, b)
    <3>1. agent'[b].ident \in crossed'
      BY <1>3, <1>4, <2>2
    <3> QED BY <1>4, <3>1
  <2>3. CASE ~Imports(k, a) /\ ~Imports(k, b)
    <3>1. agent'[a].ident = agent[a].ident /\ agent'[b].ident = agent[b].ident
      BY <2>3
    <3>2. agent[a].ident \in crossed \cup {None}
      BY <1>4, <3>1 DEF AgentsInv, IdentityOfThere
    <3> QED BY <3>1, <3>2
  <2> QED BY <2>1, <2>2, <2>3
<1> QED BY <1>2, <1>4 DEF IdentityOfThere

(* What another call holds is left as it was, or the call hears of it.     *)
LEMMA SyncLeaves ==
  ASSUME AgentsInv, NEW c \in Calls, NEW k \in A!CallType, k = call[c], CallHolds(k),
         NEW as \in SUBSET Agents, as = Found(k),
         NEW with \in SUBSET Agents, as \subseteq with,
         \A a \in Agents : \/ (agent'[a].here <=> agent[a].here) /\ agent'[a].ident = agent[a].ident
                           \/ Imports(k, a) /\ a \in as,
         \A a \in Agents \ with : agent'[a].active = agent[a].active,
         UNCHANGED <<rule, event, old, deny>>,
         NEW d \in Calls \ {c},
         NEW new \in A!CallType, new = A!Overtake(with, FALSE)[d],
         NEW l \in A!CallType, l = ImportTold(new, call[d].list)
  PROVE  OnlyLate(call[d], l) /\ CallHolds(l)'
<1>1. PICK m \in A!CallType : m = call[d] /\ CallHolds(m)
  BY CallTypes
<1>2. OnlyLate(m, new) /\ OvertakesAll(with, FALSE, new)
  BY <1>1, Overtaken
<1>3. /\ l.pc = new.pc /\ l.agent = new.agent /\ l.active = new.active /\ l.ev = new.ev
      /\ l.todo = new.todo /\ l.fired = new.fired /\ l.rule = new.rule /\ l.deny = new.deny
      /\ l.read = new.read /\ l.list = new.list /\ l.left = new.left /\ l.at = new.at /\ l.plan = new.plan
      /\ new.late \subseteq l.late /\ (m.list # {} => "import" \in l.late)
  <2> DEFINE more == IF call[d].list # {} THEN {"import"} ELSE {}
  <2>1. m.list # {} => "import" \in more
    BY <1>1
  <2> HIDE DEF more
  <2>2. l = [new EXCEPT !.late = @ \cup more]
    BY DEF more, ImportTold
  <2>3. /\ l.pc = new.pc /\ l.agent = new.agent /\ l.active = new.active /\ l.ev = new.ev
        /\ l.todo = new.todo /\ l.fired = new.fired /\ l.rule = new.rule /\ l.deny = new.deny
        /\ l.read = new.read /\ l.list = new.list /\ l.left = new.left /\ l.at = new.at /\ l.plan = new.plan
    BY <2>2 DEF A!CallType
  <2>4. l.late = new.late \cup more
    BY <2>2 DEF A!CallType
  <2> QED BY <2>1, <2>3, <2>4
<1>4. OnlyLate(m, l)
  BY <1>2, <1>3 DEF OnlyLate
<1>5. Holding(m) /\ AsLoaded(m) /\ CountHolds(m) /\ DenyHolds(m) /\ \A i \in Idents : PlanHolds(m, i)
  BY <1>1 DEF CallHolds
<1>6. l.agent \in with \/ (\E i \in Idents : l.plan[i].agent \in with) => "switch" \in l.late
  BY <1>2, <1>3 DEF OvertakesAll
<1>7. Holding(l)' /\ AsLoaded(l)'
  BY <1>4, <1>5, <1>6, SwitchAfter
<1>8. CountHolds(l)'
  <2>1. EventsGoOn
    BY LenProperties DEF EventsGoOn, AgentsInv, A!TypeOK
  <2>2. Len(event') # Len(event) /\ l.pc \in {"rules", "enforce"} /\ l.ev = 0 => "count" \in l.late
    OBVIOUS
  <2> QED BY <1>4, <1>5, <2>1, <2>2, CountAfter
<1>9. DenyHolds(l)'
  BY <1>4, <1>5, DenyAfter
<1>10. ASSUME NEW i \in Idents PROVE PlanHolds(l, i)'
  <2>1. PICK p \in A!PlanType : p = m.plan[i] /\ p = l.plan[i]
    <3>1. m.plan \in [Idents -> A!PlanType]
      BY DEF A!CallType
    <3>2. l.plan = m.plan
      BY <1>4 DEF OnlyLate
    <3> QED BY <3>1, <3>2
  <2>2. PlanHolds(m, i)
    BY <1>5
  <2>3. p.new \/ p.agent # None => i \in l.list
    BY <1>4, <2>1, <2>2 DEF PlanHolds, OnlyLate
  <2>4. p.agent \in Agents \cup {None}
    BY <2>1 DEF A!PlanType
  <2>5. ASSUME p.agent # None, ~p.new PROVE agent'[p.agent].here /\ agent'[p.agent].ident = i
    <3>1. agent[p.agent].here /\ agent[p.agent].ident = i
      BY <2>1, <2>2, <2>5 DEF PlanHolds
    <3> QED BY <2>4, <2>5, <3>1 DEF Imports
  <2>6. ASSUME p.agent # None, p.new PROVE ~agent'[p.agent].here
    <3>1. ~agent[p.agent].here
      BY <2>1, <2>2, <2>6 DEF PlanHolds
    <3>2. p.agent \notin as
      <4> SUFFICES ASSUME p.agent \in as PROVE FALSE
        OBVIOUS
      <4>1. PICK j \in Idents : k.plan[j].agent = p.agent
        BY DEF A!Plans, Found
      <4>2. call[d].plan[i].new /\ call[d].plan[i].agent # None
            /\ call[c].plan[j].agent = call[d].plan[i].agent
        BY <1>1, <2>1, <2>6, <4>1
      <4>3. d = c
        BY <4>2 DEF AgentsInv, FlushedOnce
      <4> QED BY <4>3
    <3> QED BY <2>4, <2>6, <3>1, <3>2
  <2>7. p.new => "import" \in l.late
    BY <1>3, <2>1, <2>2 DEF PlanHolds
  <2> QED BY <2>1, <2>3, <2>5, <2>6, <2>7 DEF PlanHolds
<1> QED BY <1>1, <1>4, <1>7, <1>8, <1>9, <1>10 DEF CallHolds

(* A sync that is committed.                                               *)
LEMMA AgentsSyncCommit ==
  ASSUME AgentsInv, NEW c \in Calls, A!SyncCommit(c) PROVE AgentsInv'
<1>1. PICK k \in A!CallType : k = call[c] /\ CallHolds(k)
  BY CallTypes
<1>2. /\ call \in [Calls -> A!CallType] /\ agent \in [Agents -> A!AgentType]
      /\ said \in [Agents -> BOOLEAN] /\ mixed \in SUBSET Agents /\ crossed \in SUBSET Idents
      /\ k.list \in SUBSET Idents
  BY <1>1 DEF AgentsInv, A!TypeOK, A!CallType
<1>3. PICK as \in SUBSET Agents : as = Found(k)
  BY DEF Found
<1>4. PICK off \in SUBSET Agents : off = A!Missing(k.list)
  BY DEF A!Missing
<1>5. UNCHANGED <<mix, okta, rule, event, old, deny, risk>>
  BY DEF A!SyncCommit
<1>6. \/ call' = [call EXCEPT ![c] = A!NoCall] /\ UNCHANGED <<agent, said, mixed, crossed, status>>
      \/ Imported(c, k, as, off)
  <2>1. \/ call' = [call EXCEPT ![c] = A!NoCall] /\ UNCHANGED <<agent, said, mixed, crossed, status>>
        \/ Imported(c, call[c], Found(call[c]), A!Missing(call[c].list))
    BY DEF A!SyncCommit, Imported, Written, ImportTold, Found
  <2> QED BY <1>1, <1>3, <1>4, <2>1
<1>7. CASE call' = [call EXCEPT ![c] = A!NoCall] /\ UNCHANGED <<agent, said, mixed, crossed, status>>
  <2>1. FlushedOnce'
    BY <1>2, <1>7, IdleCall, PlansKept
  <2> QED BY <1>5, <1>7, <2>1, IdleCall, IdleCallHolds, CallMoves
<1>8. CASE Imported(c, k, as, off)
  <2>0. agent' = Written(k, as, off) /\ status' = "ok"
    BY <1>8 DEF Imported
  <2>1. ASSUME NEW a \in Agents
        PROVE  /\ agent'[a] \in A!AgentType
               /\ a \in as => /\ agent'[a].here
                              /\ "switch" \notin k.late => agent'[a].active
               /\ a \in off \ as => ~agent'[a].active
               /\ a \notin as \cup off => agent'[a].active = agent[a].active
               /\ \/ (agent'[a].here <=> agent[a].here) /\ agent'[a].ident = agent[a].ident
                  \/ Imports(k, a) /\ a \in as
    BY <1>1, <1>3, <2>0, SyncWrites
  <2>2. /\ agent' \in [Agents -> A!AgentType] /\ said' \in [Agents -> BOOLEAN]
        /\ mixed' \in SUBSET Agents /\ crossed' \in SUBSET Idents /\ status' = "ok"
    <3>1. agent' \in [Agents -> A!AgentType]
      <4>1. DOMAIN agent' = Agents /\ agent' = [a \in Agents |-> agent'[a]]
        BY <2>0 DEF Written
      <4> QED BY <2>1, <4>1
    <3>2. said' \in [Agents -> BOOLEAN]
      BY <1>2, <1>8 DEF Imported
    <3>3. mixed' \in SUBSET Agents /\ crossed' \in SUBSET Idents
      BY <1>2, <1>8 DEF Imported
    <3> QED BY <2>0, <3>1, <3>2, <3>3
  <2>3. A!SaidIsTrue'
    <3> SUFFICES ASSUME NEW b \in Agents \ mixed', agent'[b].here
                 PROVE  agent'[b].active = said'[b]
      BY DEF A!SaidIsTrue
    <3>1. agent'[b].active \in BOOLEAN
      BY <2>2 DEF A!AgentType
    <3>2. CASE b \in as
      <4>1. said'[b] = TRUE /\ "switch" \notin k.late
        BY <1>8, <3>2 DEF Imported
      <4> QED BY <2>1, <3>1, <3>2, <4>1
    <3>3. CASE b \in off \ as
      <4>1. said'[b] = FALSE
        BY <1>8, <3>3 DEF Imported
      <4> QED BY <2>1, <3>1, <3>3, <4>1
    <3>4. CASE b \notin as \cup off
      <4>1. said'[b] = said[b] /\ b \notin mixed /\ agent'[b].active = agent[b].active
        BY <1>8, <2>1, <3>4 DEF Imported
      <4>2. agent[b].here
        BY <2>1, <3>4
      <4> QED BY <4>1, <4>2 DEF AgentsInv, A!SaidIsTrue
    <3> QED BY <3>2, <3>3, <3>4
  <2>4. IdentityOfThere'
    <3>1. \A a \in as : \E j \in Idents : k.plan[j].agent = a /\ agent'[a].ident = j
      <4> SUFFICES ASSUME NEW a \in as
                   PROVE  \E j \in Idents : k.plan[j].agent = a /\ agent'[a].ident = j
        OBVIOUS
      <4>1. A!Plans(k, a) # {} /\ a \in Agents
        BY <1>3 DEF Found
      <4>2. PICK j \in Idents : k.plan[j].agent = a /\ A!Synced(k, a).ident = j
        BY <1>1, <4>1, SyncedIs
      <4>3. agent'[a] = A!Synced(k, a)
        BY <2>0, <4>1 DEF Written
      <4> QED BY <4>2, <4>3
    <3>2. crossed' = IF "import" \in k.late THEN crossed \cup k.list ELSE crossed
      BY <1>8 DEF Imported
    <3>3. /\ \A a \in Agents : \/ (agent'[a].here <=> agent[a].here) /\ agent'[a].ident = agent[a].ident
                               \/ Imports(k, a) /\ a \in as
          /\ \A a \in as : agent'[a].here
      BY <2>1
    <3> QED BY <1>1, <1>3, <3>1, <3>2, <3>3, ImportsKnown
  <2>5. ASSUME NEW d \in Calls
        PROVE  /\ call'[d] \in A!CallType /\ CallHolds(call[d])'
               /\ \A i \in Idents : call'[d].plan[i] = call[d].plan[i]
                                    \/ call'[d].plan[i] = A!NoPlan
    <3>1. CASE d = c \/ (call[d].pc = "wait" /\ k.plan[call[d].at].new)
      <4>1. call'[d] = A!NoCall
        BY <1>8, <3>1 DEF Imported
      <4>2. CallHolds(A!NoCall)'
        BY IdleCall DEF CallHolds, Holding, AsLoaded, CountHolds, DenyHolds, PlanHolds, A!NoCall
      <4> QED BY <4>1, <4>2, IdleCall
    <3>2. CASE ~(d = c \/ (call[d].pc = "wait" /\ k.plan[call[d].at].new))
      <4>1. PICK with \in SUBSET Agents : with = as \cup off
        OBVIOUS
      <4>2. PICK new \in A!CallType : new = A!Overtake(with, FALSE)[d]
        BY Overtaken
      <4>3. PICK l \in A!CallType : l = ImportTold(new, call[d].list)
        <5> DEFINE more == IF call[d].list # {} THEN {"import"} ELSE {}
        <5>1. more \in SUBSET {"switch", "count", "policy", "import"}
          OBVIOUS
        <5> HIDE DEF more
        <5>2. [new EXCEPT !.late = @ \cup more] \in A!CallType
          BY <5>1 DEF A!CallType
        <5> QED BY <5>2 DEF more, ImportTold
      <4>4. call'[d] = l
        BY <1>8, <3>2, <4>1, <4>2, <4>3 DEF Imported
      <4>5. /\ as \subseteq with /\ d \in Calls \ {c}
            /\ \A a \in Agents \ with : agent'[a].active = agent[a].active
            /\ \A a \in Agents : \/ (agent'[a].here <=> agent[a].here) /\ agent'[a].ident = agent[a].ident
                                 \/ Imports(k, a) /\ a \in as
        BY <2>1, <3>2, <4>1
      <4>6. OnlyLate(call[d], l) /\ CallHolds(l)'
        BY <1>1, <1>3, <1>5, <4>2, <4>3, <4>5, SyncLeaves
      <4> QED BY <4>4, <4>6 DEF OnlyLate
    <3> QED BY <3>1, <3>2
  <2>6. call' \in [Calls -> A!CallType]
    BY <1>8, <2>5 DEF Imported
  <2>7. A!TypeOK'
    BY <1>5, <2>2, <2>6 DEF AgentsInv, A!TypeOK
  <2>8. FlushedOnce'
    BY <2>5, <2>6, PlansKept
  <2>9. ASSUME NEW m \in 1 .. Len(event') PROVE EventHolds(m)'
    <3>1. EventsGoOn
      BY <1>5, LenProperties DEF EventsGoOn, AgentsInv, A!TypeOK
    <3> QED BY <1>5, <3>1, EventAfter
  <2> QED BY <2>3, <2>4, <2>5, <2>7, <2>8, <2>9 DEF AgentsInv
<1> QED BY <1>6, <1>7, <1>8

(* Every step keeps it.                                                    *)
LEMMA AgentsStep == AgentsInv /\ A!Next => AgentsInv'
<1> SUFFICES ASSUME AgentsInv, A!Next PROVE AgentsInv'
  OBVIOUS
<1>1. ASSUME NEW c \in Calls, A!KillCommit(c) \/ A!ReactivateCommit(c) PROVE AgentsInv'
  <2>1. CASE A!KillCommit(c)
    <3>1. FALSE \in BOOLEAN /\ call[c].pc \in {"kill", "on"}
      BY <2>1 DEF A!KillCommit
    <3> QED BY <2>1, <3>1, SwitchCommit DEF A!KillCommit
  <2>2. CASE A!ReactivateCommit(c)
    <3>1. TRUE \in BOOLEAN /\ call[c].pc \in {"kill", "on"}
      BY <2>2 DEF A!ReactivateCommit
    <3> QED BY <2>2, <3>1, SwitchCommit DEF A!ReactivateCommit
  <2> QED BY <1>1, <2>1, <2>2
<1>2. ASSUME NEW c \in Calls, A!Step(c) PROVE AgentsInv'
  BY <1>1, <1>2, AgentsSwitchRead, AgentsInbound, AgentsEvaluate, AgentsEnforce, AgentsSettle,
     AgentsRefused, AgentsSyncList, AgentsLookup, AgentsFlush, AgentsSyncCommit, AgentsApart
  DEF A!Step
<1> QED BY <1>2, AgentsUpdateRule, AgentsLift, AgentsAge, AgentsApart DEF A!Next

(* When a rule missed its threshold, the last event in its window counted  *)
(* no fewer than there are.                                                *)
LEMMA ThresholdsMet == AgentsInv => A!NoThresholdMissed
<1> SUFFICES ASSUME AgentsInv, NEW r \in Rules, NEW a \in Agents, NEW counted,
                    counted = A!Counted(rule[r].says, a),
                    rule[r].on, A!Cardinality(counted) >= rule[r].says.threshold,
                    \A m \in counted : event[m].acted # "pending" /\ ~event[m].late,
                    \E m \in counted : m > rule[r].from,
                    \A m \in counted : r \notin event[m].fired
             PROVE  FALSE
  BY DEF A!NoThresholdMissed
<1>1. Len(event) \in Nat /\ Since(r) \in Nat /\ old \in Nat /\ None \notin Agents
  BY RuleSays, AgentsMCAssumption DEF A!AgentsAssumption
<1>2. rule[r].says.threshold \in Nat /\ rule[r].from \in Nat
  BY RuleSays
<1>a. counted = {m \in Since(r) .. Len(event) : rule[r].says.narrow => event[m].agent = a}
  BY DEF A!Counted, Since
<1>3. counted \in SUBSET Nat /\ counted # {} /\ \A m \in counted : m <= Len(event)
  BY <1>1, <1>a
<1>4. PICK m \in counted : \A n \in counted : n <= m
  BY <1>1, <1>3, GreatestOf
<1>5. /\ m \in Nat /\ m \in 1 .. Len(event) /\ m > rule[r].from
      /\ rule[r].says.narrow => event[m].agent = a
  <2>1. m \in Nat /\ m \in Since(r) .. Len(event)
    BY <1>1, <1>4, <1>a
  <2>2. m \in 1 .. Len(event)
    BY <1>1, <2>1 DEF Since
  <2>3. m > rule[r].from
    BY <1>2, <1>3, <1>4
  <2> QED BY <1>4, <1>a, <2>1, <2>2, <2>3
<1>6. PICK x : x = event[m].agent
  OBVIOUS
<1>7. Short(r, x, m)
  BY <1>4, <1>5, <1>6 DEF AgentsInv, EventHolds
<1>8. Cardinality(Matching(r, x, m)) < rule[r].says.threshold
  BY <1>1, <1>5, <1>6, <1>7 DEF Short
<1> DEFINE T == Matching(r, x, m)
<1>9. counted \in SUBSET T
  BY <1>3, <1>4, <1>5, <1>6, <1>a DEF Matching
<1>10. T \in SUBSET (Since(r) .. m)
  BY <1>1 DEF Matching
<1>11. Cardinality(T) < rule[r].says.threshold
  BY <1>8
<1> HIDE DEF T
<1>12. /\ Cardinality(counted) \in Nat /\ Cardinality(T) \in Nat
       /\ Cardinality(counted) <= Cardinality(T)
  BY <1>1, <1>5, <1>9, <1>10, CardLe
<1>13. Cardinality(counted) >= rule[r].says.threshold
  BY CardIs
<1> QED BY <1>2, <1>11, <1>12, <1>13

(* What the runs check of the agents follows.                              *)
LEMMA AgentsExplained ==
  AgentsInv => A!TypeOK /\ A!SaidIsTrue /\ A!NoThresholdMissed /\ A!OneAgentPerIdentity
BY ThresholdsMet DEF AgentsInv, IdentityOfThere, A!OneAgentPerIdentity

(* A rule that denies everything leaves its policy enabled.                *)
LEMMA DenyStays == AgentsInv /\ A!Next => A!DenyInjectedStep
<1> SUFFICES ASSUME AgentsInv, A!Next, NEW c \in Calls, call[c].pc = "enforce", event' # event,
                    call'[c].pc = "rules", call[c].read[call[c].rule].action = "deny_all_policy"
             PROVE  deny'[call[c].agent] = "on" \/ "policy" \in call[c].late
  BY DEF A!DenyInjectedStep
<1>1. \/ \E d \in Calls : A!Enforce(d)
      \/ \E d \in Calls : A!Settle(d)
  BY DEF A!Next, A!Step, A!KillRead, A!KillCommit, A!ReactivateRead, A!ReactivateCommit,
         A!Inbound, A!Evaluate, A!Refused, A!SyncList, A!SyncFails, A!Lookup, A!Flush,
         A!SyncCommit, A!UpdateRule, A!Age, A!Lift, A!Change, A!UpdateRisk
<1>2. ASSUME NEW d \in Calls, d # c, NEW k, NEW as \in SUBSET Agents,
             NEW counted \in BOOLEAN, call' = A!After(d, k, as, counted)
      PROVE  FALSE
  <2>1. PICK l \in A!CallType : l = A!Overtake(as, counted)[c] /\ OnlyLate(call[c], l)
    BY Overtaken
  <2>2. call'[c] = l
    BY <1>2, <2>1 DEF A!After, A!Overtake
  <2>3. l.pc = "enforce"
    BY <2>1 DEF OnlyLate
  <2> QED BY <2>2, <2>3
<1>3. ASSUME NEW d \in Calls, A!Settle(d) PROVE FALSE
  <2>1. /\ call' = A!After(d, A!NoCall, {}, call[d].ev = 0) /\ d # c
        /\ (call[d].ev = 0) \in BOOLEAN /\ {} \in SUBSET Agents
    BY <1>3 DEF A!Settle
  <2> QED BY <1>2, <2>1
<1>4. ASSUME NEW d \in Calls, A!Enforce(d)
      PROVE  deny'[call[c].agent] = "on" \/ "policy" \in call[c].late
  <2>1. PICK k \in A!CallType : k = call[d] /\ CallHolds(k)
    BY CallTypes
  <2>2. k.pc = "enforce" /\ k.agent \in Agents
    BY <1>4, <2>1 DEF A!Enforce, CallHolds, Holding
  <2>3. CASE d # c
    <3>1. (call[d].ev = 0) \in BOOLEAN /\ {} \in SUBSET Agents /\ {call[d].agent} \in SUBSET Agents
      BY <2>1, <2>2
    <3>2. \/ \E new : call' = A!After(d, new, {call[d].agent}, call[d].ev = 0)
          \/ \E new : call' = A!After(d, new, {}, call[d].ev = 0)
      BY <1>4 DEF A!Enforce
    <3>3. CASE \E new : call' = A!After(d, new, {call[d].agent}, call[d].ev = 0)
      BY <1>2, <2>3, <3>1, <3>3
    <3>4. CASE \E new : call' = A!After(d, new, {}, call[d].ev = 0)
      BY <1>2, <2>3, <3>1, <3>4
    <3> QED BY <3>2, <3>3, <3>4
  <2>4. CASE d = c
    <3>1. deny' = [deny EXCEPT ![k.agent] = A!Injected(k)]
      BY <1>4, <2>1, <2>4 DEF A!Enforce
    <3>2. deny'[k.agent] = A!Injected(k)
      BY <2>2, <3>1 DEF AgentsInv, A!TypeOK
    <3>3. k.deny = "on" => deny[k.agent] = "on" \/ "policy" \in k.late
      BY <2>1, <2>2, <2>4 DEF CallHolds, DenyHolds
    <3> QED BY <2>1, <2>4, <3>2, <3>3 DEF A!Injected
  <2> QED BY <2>3, <2>4
<1> QED BY <1>1, <1>3, <1>4

(* The risk class changes only where the nightly job runs.                 *)
LEMMA RiskStays == AgentsInv /\ A!Next => A!RiskStaysRaisedStep
<1> SUFFICES ASSUME AgentsInv, A!Next, NEW a \in Agents, risk[a] # "medium"
             PROVE  risk'[a] # "medium"
  BY DEF A!RiskStaysRaisedStep
<1>1. risk' = risk \/ \E b \in Agents : A!UpdateRisk(b)
  <2>1. ASSUME NEW c \in Calls, A!Step(c) PROVE risk' = risk
    <3>1. ASSUME NEW b \in Agents \cup {None},
                 A!KillRead(c, b) \/ A!ReactivateRead(c, b) \/ A!Inbound(c, b)
          PROVE  risk' = risk
      BY <3>1 DEF A!KillRead, A!ReactivateRead, A!Inbound
    <3>2. ASSUME NEW r \in Rules, A!Evaluate(c, r) PROVE risk' = risk
      BY <3>2 DEF A!Evaluate
    <3>3. ASSUME NEW i \in Idents, A!Lookup(c, i) PROVE risk' = risk
      BY <3>3 DEF A!Lookup
    <3>4. CASE A!KillCommit(c) \/ A!ReactivateCommit(c)
      BY <3>4 DEF A!KillCommit, A!ReactivateCommit
    <3>5. CASE A!Enforce(c) \/ A!Settle(c) \/ A!Refused(c)
      BY <3>5 DEF A!Enforce, A!Settle, A!Refused
    <3>6. CASE A!SyncList(c) \/ A!SyncFails(c) \/ A!Flush(c) \/ A!SyncCommit(c)
      BY <3>6 DEF A!SyncList, A!SyncFails, A!Flush, A!SyncCommit
    <3> QED BY <2>1, <3>1, <3>2, <3>3, <3>4, <3>5, <3>6, Zenon DEF A!Step
  <2>2. ASSUME NEW r \in Rules, A!UpdateRule(r) PROVE risk' = risk
    BY <2>2 DEF A!UpdateRule
  <2>3. ASSUME NEW b \in Agents, A!Lift(b) PROVE risk' = risk
    BY <2>3 DEF A!Lift
  <2>4. ASSUME NEW i \in Idents, A!Change(i) PROVE risk' = risk
    BY <2>4 DEF A!Change
  <2>5. ASSUME A!Age PROVE risk' = risk
    BY <2>5 DEF A!Age
  <2> QED BY <2>1, <2>2, <2>3, <2>4, <2>5, Zenon DEF A!Next
<1>2. ASSUME NEW b \in Agents, A!UpdateRisk(b) PROVE risk'[a] # "medium"
  <2>1. PICK h \in Histories :
          risk' = [risk EXCEPT ![b] = A!RiskClass(risk[b], A!Score(h.total, h.denied, h.waiting))]
    BY <1>2 DEF A!UpdateRisk
  <2>2. risk' \in [Agents -> {"medium", "high", "critical"}]
        /\ risk \in [Agents -> {"medium", "high", "critical"}]
    <3>1. AgentsInv'
      BY AgentsStep
    <3> QED BY <3>1 DEF AgentsInv, A!TypeOK
  <2>3. risk[b] # "medium" => A!RiskClass(risk[b], A!Score(h.total, h.denied, h.waiting)) # "medium"
    BY DEF A!RiskClass
  <2> QED BY <2>1, <2>2, <2>3
<1> QED BY <1>1, <1>2

-----------------------------------------------------------------------------
(* The parts together. One of them moves.                                  *)
AgentsAllInv ==
  /\ part = "agents" => AgentsInv
  /\ part = "delegation" => DelegationInv
  /\ part = "credentials" => CredentialsInv
  /\ part = "registry" => RegistryInv
  /\ part = "settings" => SettingsInv

(* Each begins as its module does.                                         *)
LEMMA AllInit == Init => AgentsAllInv
BY AgentsInit, DelegationInit, CredentialsInit, RegistryInit, SettingsInit DEF Init, AgentsAllInv

(* Nothing moves.                                                          *)
LEMMA SettingsIdleStep == SettingsInv /\ UNCHANGED settingsVars => SettingsInv'
<1> SUFFICES ASSUME SettingsInv, UNCHANGED settingsVars PROVE SettingsInv'
  OBVIOUS
<1>1. /\ row' = row /\ told' = told /\ tip' = tip /\ change' = change /\ changes' = changes
      /\ mingled' = mingled /\ untold' = untold
  BY DEF settingsVars
<1>2. \A i, f : S!Last(i, f)' = S!Last(i, f)
  BY <1>1 DEF S!Last
<1>3. S!TypeOK' /\ S!GoneAsTold' /\ S!RulesRest'
  BY <1>1 DEF SettingsInv, S!TypeOK, S!GoneAsTold, S!RulesRest, S!There
<1>4. ASSUME NEW i \in S!Rows PROVE RowTold(i)' /\ AsTold(i)'
  <2>1. RowTold(i) /\ AsTold(i)
    BY DEF SettingsInv
  <2> QED BY <1>1, <1>2, <2>1 DEF RowTold, AsTold, S!There
<1>5. ASSUME NEW c \in Calls
      PROVE  OfTheirKind(change'[c]) /\ CreationHolds(c)' /\ LoadHolds(c)' /\ AgentChangeHolds(c)'
  <2>1. OfTheirKind(change[c]) /\ CreationHolds(c) /\ LoadHolds(c) /\ AgentChangeHolds(c)
    BY DEF SettingsInv
  <2>2. CreationHolds(c)'
    BY <1>1, <2>1 DEF CreationHolds, S!There
  <2>3. LoadHolds(c)'
    BY <1>1, <2>1 DEF LoadHolds
  <2>4. AgentChangeHolds(c)'
    BY <1>1, <1>2, <2>1 DEF AgentChangeHolds, Untold
  <2> QED BY <1>1, <2>1, <2>2, <2>3, <2>4
<1> QED BY <1>3, <1>4, <1>5 DEF SettingsInv, OfTheirKind

(* Nothing moves in any part.                                              *)
LEMMA AllStutter == AgentsAllInv /\ UNCHANGED vars => AgentsAllInv'
<1> SUFFICES ASSUME AgentsAllInv, UNCHANGED vars PROVE AgentsAllInv'
  OBVIOUS
<1>1. /\ part' = part /\ UNCHANGED agentsVars /\ UNCHANGED delegationVars
      /\ UNCHANGED credentialsVars /\ UNCHANGED registryVars /\ UNCHANGED settingsVars
  BY DEF vars
<1>2. ASSUME AgentsInv PROVE AgentsInv'
  <2>1. /\ okta \in [Idents -> [listed : BOOLEAN, role : Roles \cup {None}]]
        /\ status \in {"never", "ok", "error"}
        /\ risk \in [Agents -> {"medium", "high", "critical"}]
    BY <1>2 DEF AgentsInv, A!TypeOK
  <2> QED BY <1>1, <1>2, <2>1, AgentsElsewhere DEF agentsVars
<1>3. DelegationInv => DelegationInv'
  BY <1>1 DEF delegationVars, DelegationInv, RowsHold, AgainExplained, AskedHolds, RevokeHolds,
              Before, Fits
<1>4. CredentialsInv => CredentialsInv'
  BY <1>1 DEF credentialsVars, CredentialsInv, C!TypeOK, C!NeverWithout, C!HeirsExplained,
              ActiveUnspent, HolderKnows, C!Unused
<1>5. ASSUME RegistryInv PROVE RegistryInv'
  <2>1. UNCHANGED <<entry, role, asg, trail, hooks, handler, ops, silent, stands>>
    BY <1>1 DEF registryVars
  <2>2. R!TypeOK' /\ RowsUsed'
    BY <1>5, <2>1 DEF RegistryInv, R!TypeOK, RowsUsed
  <2>3. R!Grounded' /\ R!TrailTells' /\ R!HooksAreTrue' /\ R!LoneReplaceStands'
    BY <1>5, <2>1 DEF RegistryInv, R!Grounded, R!TrailTells, R!LastAbout, R!HooksAreTrue, R!LoneReplaceStands, R!Event
  <2>4. \A c \in Calls : RoleRequestHolds(c)' /\ AsgRequestHolds(c)'
    BY <1>5, <2>1 DEF RegistryInv, RoleRequestHolds, AsgRequestHolds, OnlyOneOn, OnlyReplace
  <2> QED BY <2>2, <2>3, <2>4 DEF RegistryInv
<1> QED BY <1>1, <1>2, <1>3, <1>4, <1>5, SettingsIdleStep DEF AgentsAllInv

(* The part that moves takes a step of its module.                         *)
LEMMA AllStep == AgentsAllInv /\ [Next]_vars => AgentsAllInv'
<1> SUFFICES ASSUME AgentsAllInv, Next PROVE AgentsAllInv'
  BY AllStutter
<1> QED BY AgentsStep, DelegationStep, CredentialsStep, RegistryStep, SettingsStep
        DEF AgentsAllInv, Next

(* The invariant of the composition.                                       *)
LEMMA AllInvariant == Spec => []AgentsAllInv
BY AllInit, AllStep, PTL DEF Spec

(* What the runs check follows from the invariant.                         *)
LEMMA AllSafe == AgentsAllInv => AgentsHold /\ HeldRightsExplained /\ RegistryHolds
<1>1. CredentialsInv => C!TypeOK /\ C!NeverWithout /\ C!HeirsExplained
  BY DEF CredentialsInv
<1>2. RegistryInv => R!TypeOK /\ R!Grounded /\ R!TrailTells /\ R!HooksAreTrue /\ R!LoneReplaceStands
  BY DEF RegistryInv
<1> QED BY <1>1, <1>2, AgentsExplained, DelegationExplained, SettingsExplained
        DEF AgentsAllInv, AgentsHold, HeldRightsExplained, RegistryHolds

(* For any agents, requests, syncs, rules and thresholds, and events in    *)
(* any order: an agent is what was last said of it, enough events set a    *)
(* rule off, and an identity is one agent, but for the requests that met   *)
(* (api/v1/agents.py, api/v1/guardrails.py, idp/sync.py).                  *)
THEOREM AgentsHeld == Spec => []AgentsHold
BY AllInvariant, AllSafe, PTL

(* For any parties, requests and limits, a chain of delegations is deeper  *)
(* at every hop and within the limits it was made under; no failure in a   *)
(* rotation leaves an agent without a credential (api/v1/delegation.py,    *)
(* api/v1/agent_credentials.py).                                           *)
THEOREM RightsExplained == Spec => []HeldRightsExplained
BY AllInvariant, AllSafe, PTL

(* For any agents, roles, assignments and requests, what the audit log and *)
(* the webhooks tell of them is so, unless the MCP server or an import from*)
(* Okta changed them; a setting is what was recorded last, or what an      *)
(* import has set since, but for requests that overlapped on one field     *)
(* (api/v1/agents.py, api/v1/roles.py, api/v1/guardrails.py,               *)
(* api/v1/tools.py, api/v1/mcp_gateway.py, idp/sync.py).                   *)
THEOREM RegistryHold == Spec => []RegistryHolds
BY AllInvariant, AllSafe, PTL

(* A rule that denies everything leaves its policy enabled, or somebody    *)
(* disabled it meanwhile; the nightly job never lowers a class to where it *)
(* began (guardrails.py, _enforce_action; update_risk_scores.py).          *)
THEOREM DenyAndRiskHold == Spec => DenyAndRiskStay
<1>1. AgentsAllInv /\ [Next]_vars =>
        [part = "agents" => A!DenyInjectedStep /\ A!RiskStaysRaisedStep]_vars
  <2> SUFFICES ASSUME AgentsAllInv, Next, part = "agents"
               PROVE  A!DenyInjectedStep /\ A!RiskStaysRaisedStep
    OBVIOUS
  <2>1. AgentsInv /\ A!Next
    BY DEF AgentsAllInv, Next
  <2> QED BY <2>1, DenyStays, RiskStays
<1> QED BY <1>1, AllInvariant, PTL DEF Spec, DenyAndRiskStay

====
