------------------------- MODULE AccountsMC_proofs -------------------------
(***************************************************************************)
(* For any people, calls, names, scopes and bounds: an organisation has no *)
(* owner, too many members or two members from one invite only by what     *)
(* explains it; what it pays and is told follows from Stripe's events and  *)
(* from the usage that was metered.                                        *)
(*                                                                         *)
(* Each part has an inductive invariant.  Of members: what a call read     *)
(* still holds unless the call was told that another one committed - the   *)
(* other owner (OwnersHeld), the free seat (SeatsHeld), the unused invite  *)
(* (InvitesHeld), the free name (NamesHeld), the scopes (ScopesHeld).  Of  *)
(* bills: every check in flight still fits under the bound (QuotaHeld);    *)
(* Stripe is ahead of the rows by the one report that has not committed    *)
(* (ReportHeld); what a handler read is the row, but for its plan and for *)
(* a trial that ended (HooksHeld), so that the last event makes the row    *)
(* say what Stripe says (StatusHeld) and the stamp is that of the spell    *)
(* (GraceHeld).                                                            *)
(***************************************************************************)
EXTENDS AccountsMC, SequenceTheorems, FiniteSetTheorems, TLAPS

-----------------------------------------------------------------------------
(* A call that takes an owner's seat away when it commits.                 *)
Leaves(k) == k.pc = "remove" \/ (k.pc = "change" /\ k.want # "owner")

(* As long as nothing excuses the loss of the last owner there is one, and *)
(* one besides the member whom a call under way is about to take down.     *)
OwnersHeld ==
  excuse = {} /\ exists =>
    /\ M!Owners # {}
    /\ \A c \in Calls : Leaves(call[c]) /\ "owner" \notin call[c].late
                         => \E v \in M!Owners : v # call[c].user

(* The members whose seat was counted.                                     *)
Counted == {u \in M!Members : via[u] \in {"founder", "invite"}}

(* They fit in the plan, and so does whom a call under way lets in, if     *)
(* nobody else came in since.                                              *)
SeatsHeld ==
  /\ Cardinality(Counted) <= SeatsIncluded
  /\ \A c \in Calls : call[c].pc = "accept" /\ "seat" \notin call[c].late /\ plan = "free"
                       => Cardinality(M!Members) < SeatsIncluded

(* An invite admits nobody before it is used, and one if nothing overlaps; *)
(* the invite of a call under way is there, and unused if nothing did.     *)
InvitesHeld ==
  /\ \A i \in DOMAIN invite : /\ ~invite[i].used => invite[i].admitted = {}
                              /\ ~invite[i].late => Cardinality(invite[i].admitted) <= 1
  /\ \A c \in Calls : call[c].pc = "accept" /\ exists =>
       /\ call[c].row \in DOMAIN invite
       /\ "invite" \in call[c].late \/ ~invite[call[c].row].used

(* A name about to be registered is new, unless another was registered.    *)
NamesHeld ==
  /\ M!NamesExplained
  /\ \A c \in Calls : call[c].pc = "register" /\ "name" \notin call[c].late
                       => \A i \in DOMAIN names : names[i].name # call[c].name

(* What a call knows of the role's scopes is so, unless another wrote.     *)
ScopesHeld ==
  /\ M!ScopesAsAsked
  /\ \A c \in Calls : "scopes" \notin call[c].late =>
       /\ call[c].pc = "scopes" => call[c].old = scopes
       /\ call[c].pc = "again" => call[c].perms = scopes

(* What holds of the members of an organisation and of the calls on it.    *)
MembersInv ==
  /\ M!TypeOK /\ OwnersHeld /\ SeatsHeld /\ InvitesHeld
  /\ M!GoneIsGone /\ NamesHeld /\ ScopesHeld

-----------------------------------------------------------------------------
(* What a call is after another one committed: it may be late for reasons. *)
Told(k, q, reasons) ==
  /\ q \in M!CallType
  /\ q.pc = k.pc /\ q.user = k.user /\ q.row = k.row /\ q.saw = k.saw /\ q.want = k.want
  /\ q.known = k.known /\ q.name = k.name /\ q.perms = k.perms
  /\ k.pc # "idle" /\ "scopes" \notin q.late => q.old = k.old
  /\ k.late \subseteq q.late
  /\ k.pc # "idle" => reasons \subseteq q.late

(* A call that is not there.                                               *)
LEMMA NoCallType ==
  ASSUME M!MembershipAssumption
  PROVE  M!NoCall \in M!CallType /\ M!NoCall.pc = "idle" /\ M!NoCall.late = {}
<1> DEFINE n == CHOOSE n \in Names : TRUE
<1>1. n \in Names /\ Founder \in Users
  BY DEF M!MembershipAssumption
<1>2. "none" \in {"none"} \cup M!Seats /\ "idle" \in M!Pcs /\ 0 \in 0 .. MaxInvites
  BY DEF M!Seats, M!Pcs, M!MembershipAssumption
<1> HIDE DEF n
<1>3. M!NoCall = [pc |-> "idle", user |-> Founder, row |-> 0, saw |-> "none",
                  want |-> "none", known |-> TRUE, name |-> n, perms |-> {}, old |-> {},
                  late |-> {}]
  BY DEF M!NoCall, n
<1> QED BY <1>1, <1>2, <1>3 DEF M!CallType

(* What a commit does to every other call.                                 *)
LEMMA OvertakeTold ==
  ASSUME call \in [Calls -> M!CallType], NEW reasons \in SUBSET M!Reasons
  PROVE  /\ M!Overtake(reasons) \in [Calls -> M!CallType]
         /\ \A d \in Calls : Told(call[d], M!Overtake(reasons)[d], reasons)
<1>1. ASSUME NEW d \in Calls
      PROVE  /\ M!Overtake(reasons)[d] \in M!CallType
             /\ Told(call[d], M!Overtake(reasons)[d], reasons)
  <2>1. call[d] \in M!CallType
    OBVIOUS
  <2>2. CASE call[d].pc = "idle"
    <3>1. M!Overtake(reasons)[d] = call[d]
      BY <2>2 DEF M!Overtake
    <3> QED BY <2>1, <2>2, <3>1 DEF Told
  <2>3. CASE call[d].pc # "idle"
    <3>1. M!Overtake(reasons)[d] = [call[d] EXCEPT !.late = @ \cup reasons]
      BY <2>3 DEF M!Overtake
    <3> QED BY <2>1, <2>3, <3>1 DEF Told, M!CallType
  <2> QED BY <2>2, <2>3
<1>2. M!Overtake(reasons) = [d \in Calls |-> M!Overtake(reasons)[d]]
  BY DEF M!Overtake
<1> QED BY <1>1, <1>2, Zenon

(* A call ends, and the others learn of it.                                *)
LEMMA DoneTold ==
  ASSUME M!MembershipAssumption, call \in [Calls -> M!CallType],
         NEW c \in Calls, NEW reasons \in SUBSET M!Reasons, M!Done(c, reasons)
  PROVE  /\ call' \in [Calls -> M!CallType]
         /\ call'[c].pc = "idle" /\ call'[c].late = {}
         /\ \A d \in Calls \ {c} : Told(call[d], call'[d], reasons)
<1> DEFINE o == M!Overtake(reasons)
<1>1. o \in [Calls -> M!CallType] /\ \A d \in Calls : Told(call[d], o[d], reasons)
  BY OvertakeTold
<1>2. M!NoCall \in M!CallType /\ M!NoCall.pc = "idle" /\ M!NoCall.late = {}
  BY NoCallType
<1>3. call' = [o EXCEPT ![c] = M!NoCall]
  BY DEF M!Done
<1> HIDE DEF o
<1> QED BY <1>1, <1>2, <1>3

(* A call begins; the others do not notice.                                *)
LEMMA BeginTold ==
  ASSUME call \in [Calls -> M!CallType], NEW c \in Calls, NEW k \in M!CallType, M!Begin(c, k)
  PROVE  /\ call' \in [Calls -> M!CallType]
         /\ call'[c] = k
         /\ \A d \in Calls \ {c} : call'[d] = call[d]
BY DEF M!Begin

-----------------------------------------------------------------------------
(* The parts of the invariant that a step does not touch.                  *)

(* No owner goes, and whoever is about to take one down was so before.     *)
LEMMA OwnersKept ==
  ASSUME OwnersHeld, exists' => exists, excuse \subseteq excuse', M!Owners \subseteq M!Owners',
         \A d \in Calls : Told(call[d], call'[d], {}) \/ ~Leaves(call'[d])
  PROVE  OwnersHeld'
<1> SUFFICES ASSUME excuse' = {}, exists'
             PROVE  /\ M!Owners' # {}
                    /\ \A c \in Calls : Leaves(call'[c]) /\ "owner" \notin call'[c].late
                                         => \E v \in M!Owners' : v # call'[c].user
  BY DEF OwnersHeld
<1>1. excuse = {} /\ exists
  OBVIOUS
<1>2. /\ M!Owners # {}
      /\ \A c \in Calls : Leaves(call[c]) /\ "owner" \notin call[c].late
                           => \E v \in M!Owners : v # call[c].user
  BY <1>1 DEF OwnersHeld
<1>3. ASSUME NEW c \in Calls, Leaves(call'[c]), "owner" \notin call'[c].late
      PROVE  \E v \in M!Owners' : v # call'[c].user
  <2>1. Told(call[c], call'[c], {})
    BY <1>3
  <2>2. Leaves(call[c]) /\ "owner" \notin call[c].late /\ call'[c].user = call[c].user
    BY <1>3, <2>1 DEF Told, Leaves
  <2> QED BY <1>2, <2>2
<1> QED BY <1>2, <1>3

(* The members of an organisation are people.                              *)
LEMMA MembersFinite ==
  ASSUME M!MembershipAssumption
  PROVE  /\ IsFiniteSet(M!Members)
         /\ \A s \in SUBSET M!Members : /\ IsFiniteSet(s)
                                        /\ Cardinality(s) <= Cardinality(M!Members)
         /\ Cardinality(M!Members) \in Nat
<1>1. IsFiniteSet(Users)
  BY Zenon DEF M!MembershipAssumption, M!IsFiniteSet, IsFiniteSet
<1>2. M!Members \subseteq Users
  BY DEF M!Members
<1>3. IsFiniteSet(M!Members)
  BY <1>1, <1>2, FS_Subset
<1> QED BY <1>3, FS_Subset, FS_CardinalityType

(* Nobody comes in, the plan stays.                                        *)
LEMMA SeatsKept ==
  ASSUME M!MembershipAssumption, SeatsHeld, M!Members' \subseteq M!Members, via' = via, plan' = plan,
         \A d \in Calls : Told(call[d], call'[d], {}) \/ call'[d].pc # "accept"
  PROVE  SeatsHeld'
<1>1. IsFiniteSet(M!Members) /\ Cardinality(M!Members) \in Nat
  BY MembersFinite
<1>2. Counted \subseteq M!Members /\ Counted' \subseteq Counted
  BY DEF Counted
<1>3. Cardinality(M!Members') <= Cardinality(M!Members) /\ Cardinality(M!Members') \in Nat
  BY <1>1, FS_Subset, FS_CardinalityType
<1>4. IsFiniteSet(Counted) /\ IsFiniteSet(Counted')
  BY <1>1, <1>2, FS_Subset
<1>5. Cardinality(Counted') <= Cardinality(Counted)
  BY <1>2, <1>4, FS_Subset
<1>6. Cardinality(Counted) \in Nat /\ Cardinality(Counted') \in Nat
  BY <1>4, FS_CardinalityType
<1>7. SeatsIncluded \in Nat
  BY DEF M!MembershipAssumption
<1>8. Cardinality(Counted') <= SeatsIncluded
  BY <1>5, <1>6, <1>7 DEF SeatsHeld
<1>9. ASSUME NEW c \in Calls, call'[c].pc = "accept", "seat" \notin call'[c].late, plan' = "free"
      PROVE  Cardinality(M!Members') < SeatsIncluded
  <2>1. Told(call[c], call'[c], {})
    BY <1>9
  <2>2. call[c].pc = "accept" /\ "seat" \notin call[c].late /\ plan = "free"
    BY <1>9, <2>1 DEF Told
  <2>3. Cardinality(M!Members) < SeatsIncluded
    BY <2>2 DEF SeatsHeld
  <2> QED BY <1>1, <1>3, <1>7, <2>3
<1> QED BY <1>8, <1>9 DEF SeatsHeld

(* The invites are as they were, and so are the calls that use one.        *)
LEMMA InvitesKept ==
  ASSUME InvitesHeld, exists' => exists, exists' => invite' = invite,
         \A d \in Calls : Told(call[d], call'[d], {}) \/ call'[d].pc # "accept",
         ~exists' => invite' = <<>>
  PROVE  InvitesHeld'
<1>1. ASSUME NEW c \in Calls, call'[c].pc = "accept", exists'
      PROVE  /\ call'[c].row \in DOMAIN invite'
             /\ "invite" \in call'[c].late \/ ~invite'[call'[c].row].used
  <2>1. Told(call[c], call'[c], {})
    BY <1>1
  <2>2. /\ call[c].pc = "accept" /\ call'[c].row = call[c].row
        /\ call[c].late \subseteq call'[c].late
    BY <1>1, <2>1 DEF Told
  <2> QED BY <1>1, <2>2 DEF InvitesHeld
<1>2. \A i \in DOMAIN invite' :
        /\ ~invite'[i].used => invite'[i].admitted = {}
        /\ ~invite'[i].late => Cardinality(invite'[i].admitted) <= 1
  BY DEF InvitesHeld
<1> QED BY <1>1, <1>2 DEF InvitesHeld

(* No name is given.                                                       *)
LEMMA NamesKept ==
  ASSUME NamesHeld, names' = names,
         \A d \in Calls : Told(call[d], call'[d], {}) \/ call'[d].pc # "register"
  PROVE  NamesHeld'
<1>1. ASSUME NEW c \in Calls, call'[c].pc = "register", "name" \notin call'[c].late
      PROVE  \A i \in DOMAIN names : names[i].name # call'[c].name
  <2>1. Told(call[c], call'[c], {})
    BY <1>1
  <2>2. call[c].pc = "register" /\ "name" \notin call[c].late /\ call'[c].name = call[c].name
    BY <1>1, <2>1 DEF Told
  <2> QED BY <2>2 DEF NamesHeld
<1>2. M!NamesExplained'
  BY DEF NamesHeld, M!NamesExplained
<1> QED BY <1>1, <1>2 DEF NamesHeld

(* The scopes of the role are as they were.                                *)
LEMMA ScopesKept ==
  ASSUME ScopesHeld, scopes' = scopes, asked' = asked,
         \A d \in Calls : Told(call[d], call'[d], {}) \/ call'[d].pc \notin {"scopes", "again"}
  PROVE  ScopesHeld'
<1>1. ASSUME NEW c \in Calls, "scopes" \notin call'[c].late
      PROVE  /\ call'[c].pc = "scopes" => call'[c].old = scopes
             /\ call'[c].pc = "again" => call'[c].perms = scopes
  <2>1. CASE call'[c].pc \in {"scopes", "again"}
    <3>1. Told(call[c], call'[c], {})
      BY <2>1
    <3>2. /\ call'[c].pc = call[c].pc /\ "scopes" \notin call[c].late
          /\ call'[c].old = call[c].old /\ call'[c].perms = call[c].perms
      BY <1>1, <2>1, <3>1 DEF Told
    <3> QED BY <3>2 DEF ScopesHeld
  <2> QED BY <2>1
<1>2. M!ScopesAsAsked'
  BY DEF ScopesHeld, M!ScopesAsAsked
<1> QED BY <1>1, <1>2 DEF ScopesHeld

-----------------------------------------------------------------------------
(* The operators of the modules that an instance brings are those here.    *)
LEMMA SameCardinality ==
  /\ \A s : M!Cardinality(s) = Cardinality(s)
  /\ \A s : B!Cardinality(s) = Cardinality(s)
BY Zenon DEF M!Cardinality, B!Cardinality, Cardinality, M!IsFiniteSet, IsFiniteSet, B!IsFiniteSet

(* The rows of an organisation and the other variables.                    *)
membersRows == <<mix, exists, account, role, via, excuse, plan, invite, key, names, scopes, asked>>

(* A call reads.  What the call has found is so when it begins.            *)
LEMMA BeginStep ==
  ASSUME M!MembershipAssumption, MembersInv, NEW c \in Calls, NEW k \in M!CallType,
         M!Begin(c, k), UNCHANGED membersRows, exists,
         Leaves(k) /\ excuse = {} => \E v \in M!Owners : v # k.user,
         k.pc = "accept" => /\ plan = "free" => Cardinality(M!Members) < SeatsIncluded
                            /\ k.row \in DOMAIN invite /\ ~invite[k.row].used,
         k.pc = "register" => \A i \in DOMAIN names : names[i].name # k.name,
         k.pc = "scopes" => k.old = scopes, k.pc # "again"
  PROVE  MembersInv'
<1>1. call \in [Calls -> M!CallType]
  BY DEF MembersInv, M!TypeOK
<1>2. /\ call' \in [Calls -> M!CallType]
      /\ call'[c] = k
      /\ \A d \in Calls \ {c} : call'[d] = call[d]
  BY <1>1, BeginTold
<1>3. M!TypeOK'
  BY <1>2 DEF MembersInv, M!TypeOK, membersRows
<1>4. OwnersHeld'
  BY <1>2 DEF MembersInv, OwnersHeld, membersRows, M!Owners
<1>5. SeatsHeld'
  BY <1>2 DEF MembersInv, SeatsHeld, membersRows, M!Members, Counted
<1>6. InvitesHeld'
  BY <1>2 DEF MembersInv, InvitesHeld, membersRows
<1>7. M!GoneIsGone'
  BY DEF MembersInv, M!GoneIsGone, membersRows, M!Members
<1>8. NamesHeld'
  BY <1>2 DEF MembersInv, NamesHeld, membersRows, M!NamesExplained
<1>9. ScopesHeld'
  BY <1>2 DEF MembersInv, ScopesHeld, membersRows, M!ScopesAsAsked
<1> QED BY <1>3, <1>4, <1>5, <1>6, <1>7, <1>8, <1>9 DEF MembersInv

(* A call ends with an error, or is no more.                               *)
LEMMA RefusedStep ==
  ASSUME M!MembershipAssumption, MembersInv, NEW c \in Calls, M!Refused(c), mix' = mix
  PROVE  MembersInv'
<1>1. call \in [Calls -> M!CallType] /\ {} \in SUBSET M!Reasons
  BY DEF MembersInv, M!TypeOK
<1>2. M!Done(c, {}) /\ UNCHANGED membersRows
  BY DEF M!Refused, M!people, M!rest, membersRows
<1>3. /\ call' \in [Calls -> M!CallType]
      /\ call'[c].pc = "idle"
      /\ \A d \in Calls \ {c} : Told(call[d], call'[d], {})
  BY <1>1, <1>2, DoneTold
<1>4. M!TypeOK'
  BY <1>2, <1>3 DEF MembersInv, M!TypeOK, membersRows
<1>5. OwnersHeld'
  <2>1. exists' = exists /\ excuse' = excuse /\ M!Owners' = M!Owners
    BY <1>2 DEF membersRows, M!Owners
  <2>2. ~Leaves(call'[c]) /\ OwnersHeld
    BY <1>3 DEF Leaves, MembersInv
  <2> QED BY <1>3, <2>1, <2>2, OwnersKept
<1>6. SeatsHeld'
  <2>1. via' = via /\ plan' = plan /\ M!Members' = M!Members
    BY <1>2 DEF membersRows, M!Members
  <2>2. SeatsHeld
    BY DEF MembersInv
  <2> QED BY <1>3, <2>1, <2>2, SeatsKept
<1>7. InvitesHeld'
  <2>1. exists' = exists /\ invite' = invite
    BY <1>2 DEF membersRows
  <2>2. InvitesHeld /\ (~exists => invite = <<>>)
    BY DEF MembersInv, M!GoneIsGone
  <2> QED BY <1>3, <2>1, <2>2, InvitesKept
<1>8. M!GoneIsGone'
  BY <1>2 DEF MembersInv, M!GoneIsGone, membersRows, M!Members
<1>9. NamesHeld'
  BY <1>2, <1>3, NamesKept DEF MembersInv, membersRows
<1>10. ScopesHeld'
  BY <1>2, <1>3, ScopesKept DEF MembersInv, membersRows
<1> QED BY <1>4, <1>5, <1>6, <1>7, <1>8, <1>9, <1>10 DEF MembersInv

(* What a seat is, and who has one.                                        *)
LEMMA SeatSet ==
  ASSUME role \in [Users -> {"none"} \cup M!Seats], NEW u \in Users,
         NEW r \in {"none"} \cup M!Seats, M!Seat(u, r)
  PROVE  /\ role' \in [Users -> {"none"} \cup M!Seats]
         /\ M!Members' = IF r = "none" THEN M!Members \ {u} ELSE M!Members \cup {u}
         /\ M!Owners' = IF r = "owner" THEN M!Owners \cup {u} ELSE M!Owners \ {u}
BY DEF M!Seat, M!Members, M!Owners

(* A call that is not the last owner's leaves another one.                 *)
LEMMA AnotherOwner ==
  ASSUME NEW u, M!Owners # {}, ~(u \in M!Owners /\ Cardinality(M!Owners) <= 1)
  PROVE  \E v \in M!Owners : v # u
<1>1. Cardinality({u}) = 1
  BY FS_Singleton
<1>2. ASSUME \A v \in M!Owners : v = u
      PROVE  FALSE
  <2>1. M!Owners = {u}
    BY <1>2
  <2> QED BY <1>1, <2>1
<1> QED BY <1>2

-----------------------------------------------------------------------------
(* A call on a member, on an invite, on a name or on the scopes begins.    *)
LEMMA ReadStep ==
  ASSUME M!MembershipAssumption, MembersInv, NEW c \in Calls,
         \/ \E a, u \in Users : M!RemoveRead(c, a, u) \/ \E r \in M!Seats : M!ChangeRead(c, a, u, r)
         \/ \E u \in Users : M!DirectRead(c, u) \/ \E i \in DOMAIN invite : M!AcceptRead(c, i, u)
         \/ M!DeleteRead(c)
         \/ \E n \in Names : M!RegisterRead(c, n)
         \/ \E s \in SUBSET Scopes : M!ScopesRead(c, s)
  PROVE  MembersInv'
<1>1. M!NoCall \in M!CallType /\ M!NoCall.pc = "idle" /\ M!NoCall.late = {}
  BY NoCallType
<1>2. /\ {"change", "remove", "direct", "accept", "register", "scopes", "delete"} \subseteq M!Pcs
      /\ role \in [Users -> {"none"} \cup M!Seats] /\ scopes \in SUBSET Scopes
      /\ invite \in Seq(M!InviteType) /\ Len(invite) <= MaxInvites /\ MaxInvites \in Nat
  BY DEF M!Pcs, MembersInv, M!TypeOK, M!MembershipAssumption
<1>3. ASSUME exists, excuse = {}, NEW u, ~M!LastOwner(u), u \in Users
      PROVE  \E v \in M!Owners : v # u
  <2>1. M!Owners # {}
    BY <1>3 DEF MembersInv, OwnersHeld
  <2>2. ~(u \in M!Owners /\ Cardinality(M!Owners) <= 1)
    BY <1>3, SameCardinality DEF M!LastOwner, M!Owners
  <2> QED BY <2>1, <2>2, AnotherOwner
<1>4. ASSUME NEW a \in Users, NEW u \in Users, M!RemoveRead(c, a, u)
      PROVE  MembersInv'
  <2> DEFINE k == [M!NoCall EXCEPT !.pc = "remove", !.user = u]
  <2>1. k \in M!CallType /\ k.pc = "remove" /\ k.user = u
    BY <1>1, <1>2 DEF M!CallType
  <2>2. M!Begin(c, k) /\ UNCHANGED membersRows /\ exists /\ ~M!LastOwner(u)
    BY <1>4 DEF M!RemoveRead, M!Starts, M!people, M!rest, membersRows
  <2> HIDE DEF k
  <2>3. Leaves(k) /\ excuse = {} => \E v \in M!Owners : v # k.user
    BY <1>3, <2>1, <2>2
  <2> QED BY <2>1, <2>2, <2>3, BeginStep
<1>5. ASSUME NEW a \in Users, NEW u \in Users, NEW r \in M!Seats, M!ChangeRead(c, a, u, r)
      PROVE  MembersInv'
  <2> DEFINE k == [M!NoCall EXCEPT !.pc = "change", !.user = u, !.saw = role[u], !.want = r]
  <2>1. k \in M!CallType /\ k.pc = "change" /\ k.user = u /\ k.want = r
    BY <1>1, <1>2 DEF M!CallType
  <2>2. M!Begin(c, k) /\ UNCHANGED membersRows /\ exists /\ (M!LastOwner(u) => r = "owner")
    BY <1>5 DEF M!ChangeRead, M!Starts, M!people, M!rest, membersRows
  <2> HIDE DEF k
  <2>3. Leaves(k) /\ excuse = {} => \E v \in M!Owners : v # k.user
    BY <1>3, <2>1, <2>2 DEF Leaves
  <2> QED BY <2>1, <2>2, <2>3, BeginStep
<1>6. ASSUME NEW u \in Users, M!DirectRead(c, u)
      PROVE  MembersInv'
  <2> DEFINE k == [M!NoCall EXCEPT !.pc = "direct", !.user = u]
  <2>1. k \in M!CallType /\ k.pc = "direct"
    BY <1>1, <1>2 DEF M!CallType
  <2>2. M!Begin(c, k) /\ UNCHANGED membersRows /\ exists
    BY <1>6 DEF M!DirectRead, M!Starts, M!people, M!rest, membersRows
  <2> HIDE DEF k
  <2>3. ~Leaves(k)
    BY <2>1 DEF Leaves
  <2> QED BY <2>1, <2>2, <2>3, BeginStep
<1>7. ASSUME NEW u \in Users, NEW i \in DOMAIN invite, M!AcceptRead(c, i, u)
      PROVE  MembersInv'
  <2> DEFINE k == [M!NoCall EXCEPT !.pc = "accept", !.user = u, !.row = i, !.known = u \in account]
  <2>1. i \in 0 .. MaxInvites
    BY <1>2
  <2>2. k \in M!CallType /\ k.pc = "accept" /\ k.row = i
    <3> DEFINE q(b) == [M!NoCall EXCEPT !.pc = "accept", !.user = u, !.row = i, !.known = b]
    <3>1. \A b \in BOOLEAN : q(b) \in M!CallType /\ q(b).pc = "accept" /\ q(b).row = i
      BY <1>1, <1>2, <2>1 DEF M!CallType
    <3>2. (u \in account) \in BOOLEAN
      OBVIOUS
    <3> HIDE DEF q
    <3>3. q(u \in account) \in M!CallType /\ q(u \in account).pc = "accept" /\ q(u \in account).row = i
      BY <3>1, <3>2, Zenon
    <3> QED BY <3>3, Zenon DEF q
  <2>3. /\ M!Begin(c, k) /\ UNCHANGED membersRows /\ exists /\ ~invite[i].used
        /\ plan = "free" => Cardinality(M!Members) < SeatsIncluded
    BY <1>7, SameCardinality
       DEF M!AcceptRead, M!Starts, M!people, M!rest, membersRows, M!SeatFree
  <2> HIDE DEF k
  <2>4. ~Leaves(k)
    BY <2>2 DEF Leaves
  <2> QED BY <2>2, <2>3, <2>4, BeginStep
<1>8. ASSUME M!DeleteRead(c)
      PROVE  MembersInv'
  <2> DEFINE k == [M!NoCall EXCEPT !.pc = "delete"]
  <2>1. k \in M!CallType /\ k.pc = "delete"
    BY <1>1, <1>2 DEF M!CallType
  <2>2. M!Begin(c, k) /\ UNCHANGED membersRows /\ exists
    BY <1>8 DEF M!DeleteRead, M!Starts, M!people, M!rest, membersRows
  <2> HIDE DEF k
  <2>3. ~Leaves(k)
    BY <2>1 DEF Leaves
  <2> QED BY <2>1, <2>2, <2>3, BeginStep
<1>9. ASSUME NEW n \in Names, M!RegisterRead(c, n)
      PROVE  MembersInv'
  <2> DEFINE k == [M!NoCall EXCEPT !.pc = "register", !.name = n]
  <2>1. k \in M!CallType /\ k.pc = "register" /\ k.name = n
    BY <1>1, <1>2 DEF M!CallType
  <2>2. /\ M!Begin(c, k) /\ UNCHANGED membersRows /\ exists
        /\ \A i \in DOMAIN names : names[i].name # n
    BY <1>9 DEF M!RegisterRead, M!Starts, M!people, M!rest, membersRows
  <2> HIDE DEF k
  <2>3. ~Leaves(k)
    BY <2>1 DEF Leaves
  <2> QED BY <2>1, <2>2, <2>3, BeginStep
<1>10. ASSUME NEW s \in SUBSET Scopes, M!ScopesRead(c, s)
       PROVE  MembersInv'
  <2> DEFINE k == [M!NoCall EXCEPT !.pc = "scopes", !.perms = s, !.old = scopes]
  <2>1. k \in M!CallType /\ k.pc = "scopes" /\ k.old = scopes
    BY <1>1, <1>2 DEF M!CallType
  <2>2. M!Begin(c, k) /\ UNCHANGED membersRows /\ exists
    BY <1>10 DEF M!ScopesRead, M!Starts, M!people, M!rest, membersRows
  <2> HIDE DEF k
  <2>3. ~Leaves(k)
    BY <2>1 DEF Leaves
  <2> QED BY <2>1, <2>2, <2>3, BeginStep
<1> QED BY <1>4, <1>5, <1>6, <1>7, <1>8, <1>9, <1>10

-----------------------------------------------------------------------------
(* What is told with a reason is told.                                     *)
LEMMA ToldIsTold ==
  ASSUME NEW k, NEW q, NEW reasons, Told(k, q, reasons)
  PROVE  Told(k, q, {})
BY DEF Told

(* A member's seat is changed or taken; what else depends on the seats.    *)
LEMMA SeatFrame ==
  ASSUME M!MembershipAssumption, MembersInv, NEW u \in Users, NEW r \in {"none"} \cup M!Seats,
         M!Seat(u, r), role[u] # "none" \/ r = "none", call' \in [Calls -> M!CallType],
         \A d \in Calls : Told(call[d], call'[d], {}) \/ call'[d].pc = "idle",
         excuse' \in SUBSET {"overlap", "superadmin"},
         UNCHANGED <<mix, exists, account, via, plan, invite, key, names, scopes, asked>>
  PROVE  /\ M!TypeOK' /\ SeatsHeld' /\ InvitesHeld' /\ M!GoneIsGone'
         /\ NamesHeld' /\ ScopesHeld'
<1>1. /\ role' \in [Users -> {"none"} \cup M!Seats]
      /\ M!Members' = IF r = "none" THEN M!Members \ {u} ELSE M!Members \cup {u}
  BY SeatSet DEF MembersInv, M!TypeOK
<1>2. M!Members' \subseteq M!Members
  BY <1>1 DEF M!Members
<1>3. M!TypeOK'
  BY <1>1 DEF MembersInv, M!TypeOK
<1>4. SeatsHeld'
  <2>1. SeatsHeld /\ via' = via /\ plan' = plan
    BY DEF MembersInv
  <2> QED BY <1>2, <2>1, SeatsKept
<1>5. InvitesHeld'
  <2>1. InvitesHeld /\ exists' = exists /\ invite' = invite /\ (~exists => invite = <<>>)
    BY DEF MembersInv, M!GoneIsGone
  <2> QED BY <2>1, InvitesKept
<1>6. M!GoneIsGone'
  BY <1>2 DEF MembersInv, M!GoneIsGone
<1>7. NamesHeld'
  BY NamesKept DEF MembersInv
<1>8. ScopesHeld'
  BY ScopesKept DEF MembersInv
<1> QED BY <1>3, <1>4, <1>5, <1>6, <1>7, <1>8

(* The commit of a call that changes or takes a seat: the owners that are  *)
(* left, and the calls that learn that there is one less.                  *)
LEMMA SeatStep ==
  ASSUME M!MembershipAssumption, MembersInv, NEW c \in Calls, NEW u \in Users,
         NEW r \in {"none"} \cup M!Seats,
         role[u] # "none" \/ r = "none", r # "owner" => Leaves(call[c]) /\ call[c].user = u,
         M!Seat(u, r), M!Done(c, M!Lost(u)), M!Excused(c),
         UNCHANGED <<mix, exists, account, via, plan, invite, key, names, scopes, asked>>
  PROVE  MembersInv'
<1>1. M!Lost(u) \in SUBSET M!Reasons /\ call \in [Calls -> M!CallType]
  BY DEF M!Lost, M!Reasons, MembersInv, M!TypeOK
<1>2. /\ call' \in [Calls -> M!CallType]
      /\ call'[c].pc = "idle"
      /\ \A d \in Calls \ {c} : Told(call[d], call'[d], M!Lost(u))
  BY <1>1, DoneTold
<1>3. \A d \in Calls : Told(call[d], call'[d], {}) \/ call'[d].pc = "idle"
  BY <1>2, ToldIsTold
<1>4. M!Owners' = IF r = "owner" THEN M!Owners \cup {u} ELSE M!Owners \ {u}
  BY SeatSet DEF MembersInv, M!TypeOK
<1>5. OwnersHeld'
  <2>1. excuse \subseteq excuse' /\ OwnersHeld
    BY DEF M!Excused, MembersInv
  <2>2. \A d \in Calls : Told(call[d], call'[d], {}) \/ ~Leaves(call'[d])
    BY <1>3 DEF Leaves
  <2>3. CASE r = "owner"
    <3>1. M!Owners \subseteq M!Owners'
      BY <1>4, <2>3
    <3> QED BY <2>1, <2>2, <3>1, OwnersKept
  <2>4. CASE excuse' # {} \/ ~exists
    BY <2>4 DEF OwnersHeld
  <2>5. CASE r # "owner" /\ excuse' = {} /\ exists
    <3>1. excuse = {} /\ "owner" \notin call[c].late /\ Leaves(call[c]) /\ call[c].user = u
      BY <2>5 DEF M!Excused
    <3>2. PICK v \in M!Owners : v # u
      BY <2>1, <2>5, <3>1 DEF OwnersHeld
    <3>3. M!Owners' # {}
      BY <1>4, <2>5, <3>2
    <3>4. ASSUME NEW d \in Calls, Leaves(call'[d]), "owner" \notin call'[d].late
          PROVE  \E w \in M!Owners' : w # call'[d].user
      <4>1. d # c
        BY <1>2, <3>4 DEF Leaves
      <4>2. Told(call[d], call'[d], M!Lost(u))
        BY <1>2, <4>1
      <4>3. /\ Leaves(call[d]) /\ "owner" \notin call[d].late /\ call'[d].user = call[d].user
            /\ "owner" \notin M!Lost(u)
        BY <3>4, <4>2 DEF Told, Leaves
      <4>4. M!Owners' = M!Owners
        BY <1>4, <2>5, <4>3 DEF M!Lost, M!Owners
      <4> QED BY <2>1, <2>5, <3>1, <4>3, <4>4 DEF OwnersHeld
    <3> QED BY <3>3, <3>4 DEF OwnersHeld
  <2> QED BY <2>3, <2>4, <2>5
<1>6. excuse' \in SUBSET {"overlap", "superadmin"}
  BY DEF M!Excused, MembersInv, M!TypeOK
<1>7. /\ M!TypeOK' /\ SeatsHeld' /\ InvitesHeld' /\ M!GoneIsGone'
      /\ NamesHeld' /\ ScopesHeld'
  BY <1>2, <1>3, <1>6, SeatFrame
<1> QED BY <1>5, <1>7 DEF MembersInv

(* update_member_role, remove_member and their counterparts of superadmins.*)
LEMMA SeatsChange ==
  ASSUME M!MembershipAssumption, MembersInv,
         \/ \E c \in Calls : M!ChangeCommit(c) \/ M!RemoveCommit(c)
         \/ \E u \in Users, r \in {"none"} \cup M!Seats : M!AdminSeat(u, r)
  PROVE  MembersInv'
<1>1. call \in [Calls -> M!CallType]
  BY DEF MembersInv, M!TypeOK
<1>2. ASSUME NEW c \in Calls, M!ChangeCommit(c)
      PROVE  MembersInv'
  <2> DEFINE k == call[c]
  <2>1. k.user \in Users /\ k.want \in {"none"} \cup M!Seats
    BY <1>1 DEF M!CallType
  <2>2. k.pc = "change" /\ mix' = mix
    BY <1>2 DEF M!ChangeCommit
  <2>3. CASE role[k.user] = "none" \/ k.saw = k.want
    <3>1. M!Refused(c)
      BY <1>2, <2>3 DEF M!ChangeCommit
    <3> QED BY <2>2, <3>1, RefusedStep
  <2>4. CASE ~(role[k.user] = "none" \/ k.saw = k.want)
    <3>1. /\ M!Seat(k.user, k.want) /\ M!Done(c, M!Lost(k.user)) /\ M!Excused(c)
          /\ UNCHANGED <<exists, account, via, M!rest>>
      BY <1>2, <2>4 DEF M!ChangeCommit
    <3>2. UNCHANGED <<mix, exists, account, via, plan, invite, key, names, scopes, asked>>
      BY <2>2, <3>1 DEF M!rest
    <3>3. k.want # "owner" => Leaves(call[c])
      BY <2>2 DEF Leaves
    <3> QED BY <2>1, <2>4, <3>1, <3>2, <3>3, SeatStep
  <2> QED BY <2>3, <2>4
<1>3. ASSUME NEW c \in Calls, M!RemoveCommit(c)
      PROVE  MembersInv'
  <2> DEFINE u == call[c].user
  <2>1. u \in Users /\ "none" \in {"none"} \cup M!Seats
    BY <1>1 DEF M!CallType
  <2>2. /\ M!Seat(u, "none") /\ M!Done(c, M!Lost(u)) /\ M!Excused(c)
        /\ UNCHANGED <<mix, exists, account, via, plan, invite, key, names, scopes, asked>>
    BY <1>3 DEF M!RemoveCommit, M!rest
  <2>3. Leaves(call[c])
    BY <1>3 DEF M!RemoveCommit, Leaves
  <2> QED BY <2>1, <2>2, <2>3, SeatStep
<1>4. ASSUME NEW u \in Users, NEW r \in {"none"} \cup M!Seats, M!AdminSeat(u, r)
      PROVE  MembersInv'
  <2>1. /\ M!Seat(u, r) /\ call' = M!Overtake(M!Lost(u)) /\ role[u] # "none"
        /\ excuse' = excuse \cup {"superadmin"}
        /\ UNCHANGED <<mix, exists, account, via, plan, invite, key, names, scopes, asked>>
    BY <1>4 DEF M!AdminSeat, M!rest
  <2>2. M!Lost(u) \in SUBSET M!Reasons
    BY DEF M!Lost, M!Reasons
  <2>3. /\ call' \in [Calls -> M!CallType]
        /\ \A d \in Calls : Told(call[d], call'[d], {}) \/ call'[d].pc = "idle"
    BY <1>1, <2>1, <2>2, OvertakeTold, ToldIsTold
  <2>4. excuse' \in SUBSET {"overlap", "superadmin"} /\ excuse' # {}
    BY <2>1 DEF MembersInv, M!TypeOK
  <2>5. /\ M!TypeOK' /\ SeatsHeld' /\ InvitesHeld' /\ M!GoneIsGone'
        /\ NamesHeld' /\ ScopesHeld'
    BY <2>1, <2>3, <2>4, SeatFrame
  <2>6. OwnersHeld'
    BY <2>4 DEF OwnersHeld
  <2> QED BY <2>5, <2>6 DEF MembersInv
<1> QED BY <1>2, <1>3, <1>4

-----------------------------------------------------------------------------
(* Somebody comes in: a counted seat was free, and every other call that   *)
(* counted the seats learns of it.                                         *)
LEMMA JoinFrame ==
  ASSUME M!MembershipAssumption, MembersInv, NEW c \in Calls, NEW u \in Users,
         NEW r \in {"admin", "member"}, NEW way \in {"invite", "direct", "overlap", "paid"},
         NEW reasons \in SUBSET M!Reasons, "seat" \in reasons,
         role[u] = "none", exists, M!Joins(u, r, way), M!Done(c, reasons),
         way = "invite" => Cardinality(M!Members) < SeatsIncluded,
         UNCHANGED <<mix, exists, plan, key, names, scopes, asked>>
  PROVE  /\ role' \in [Users -> {"none"} \cup M!Seats] /\ via' \in [Users -> M!Ways]
         /\ account' \in SUBSET Users /\ excuse' = excuse
         /\ call' \in [Calls -> M!CallType]
         /\ \A d \in Calls : Told(call[d], call'[d], reasons) \/ call'[d].pc = "idle"
         /\ OwnersHeld' /\ SeatsHeld' /\ M!GoneIsGone' /\ NamesHeld' /\ ScopesHeld'
<1>1. /\ role \in [Users -> {"none"} \cup M!Seats] /\ via \in [Users -> M!Ways]
      /\ account \in SUBSET Users /\ call \in [Calls -> M!CallType]
  BY DEF MembersInv, M!TypeOK
<1>2. r \in {"none"} \cup M!Seats /\ way \in M!Ways
  BY DEF M!Seats, M!Ways
<1>3. /\ M!Seat(u, r) /\ account' = account \cup {u} /\ via' = [via EXCEPT ![u] = way]
      /\ excuse' = excuse
  BY DEF M!Joins
<1>4. /\ role' \in [Users -> {"none"} \cup M!Seats]
      /\ M!Members' = M!Members \cup {u} /\ M!Owners' = M!Owners \ {u}
  BY <1>1, <1>2, <1>3, SeatSet
<1>5. u \notin M!Members /\ u \notin M!Owners
  BY DEF M!Members, M!Owners
<1>6. via' \in [Users -> M!Ways] /\ account' \in SUBSET Users
  BY <1>1, <1>2, <1>3
<1>7. /\ call' \in [Calls -> M!CallType]
      /\ call'[c].pc = "idle"
      /\ \A d \in Calls \ {c} : Told(call[d], call'[d], reasons)
  BY <1>1, DoneTold
<1>8. \A d \in Calls : Told(call[d], call'[d], reasons) \/ call'[d].pc = "idle"
  BY <1>7
<1>9. \A d \in Calls : Told(call[d], call'[d], {}) \/ call'[d].pc = "idle"
  BY <1>8, ToldIsTold
<1>10. OwnersHeld'
  <2>1. M!Owners \subseteq M!Owners'
    BY <1>4, <1>5
  <2>2. \A d \in Calls : Told(call[d], call'[d], {}) \/ ~Leaves(call'[d])
    BY <1>9 DEF Leaves
  <2>3. OwnersHeld /\ excuse \subseteq excuse'
    BY <1>3 DEF MembersInv
  <2> QED BY <2>1, <2>2, <2>3, OwnersKept
<1>11. SeatsHeld'
  <2>1. /\ IsFiniteSet(M!Members) /\ Cardinality(M!Members) \in Nat
        /\ Counted \subseteq M!Members /\ IsFiniteSet(Counted)
    BY MembersFinite DEF Counted
  <2>2. SeatsIncluded \in Nat /\ Cardinality(Counted) <= SeatsIncluded /\ Cardinality(Counted) \in Nat
    BY <2>1, FS_CardinalityType DEF M!MembershipAssumption, MembersInv, SeatsHeld
  <2>3. Cardinality(Counted') <= SeatsIncluded
    <3>1. CASE way = "invite"
      <4>1. IsFiniteSet(M!Members \cup {u}) /\ Cardinality(M!Members \cup {u}) = Cardinality(M!Members) + 1
        BY <1>5, <2>1, FS_AddElement
      <4>2. Counted' \subseteq M!Members \cup {u}
        BY <1>4 DEF Counted
      <4>3. Cardinality(Counted') <= Cardinality(M!Members \cup {u}) /\ Cardinality(Counted') \in Nat
        BY <4>1, <4>2, FS_Subset, FS_CardinalityType
      <4>4. Cardinality(M!Members) < SeatsIncluded
        BY <3>1
      <4> QED BY <2>1, <2>2, <4>1, <4>3, <4>4
    <3>2. CASE way # "invite"
      <4>1. via'[u] \notin {"founder", "invite"} /\ \A v \in Users \ {u} : via'[v] = via[v]
        BY <1>1, <1>3, <3>2
      <4>2. Counted' = Counted
        BY <1>4, <1>5, <4>1 DEF Counted, M!Members
      <4> QED BY <2>2, <4>2
    <3> QED BY <3>1, <3>2
  <2>4. \A d \in Calls : call'[d].pc = "accept" => "seat" \in call'[d].late
    BY <1>8 DEF Told
  <2> QED BY <2>3, <2>4 DEF SeatsHeld
<1>12. M!GoneIsGone'
  BY DEF M!GoneIsGone
<1>13. NamesHeld'
  BY <1>9, NamesKept DEF MembersInv
<1>14. ScopesHeld'
  BY <1>9, ScopesKept DEF MembersInv
<1> QED BY <1>3, <1>4, <1>6, <1>7, <1>8, <1>10, <1>11, <1>12, <1>13, <1>14

(* An invite that was used.                                                *)
LEMMA InviteUsed ==
  ASSUME invite \in Seq(M!InviteType), NEW i \in DOMAIN invite, NEW u \in Users,
         NEW overlapped \in BOOLEAN, M!Use(i, u, overlapped)
  PROVE  /\ invite' \in Seq(M!InviteType) /\ Len(invite') = Len(invite)
         /\ DOMAIN invite' = DOMAIN invite
         /\ invite'[i].used /\ invite'[i].admitted = invite[i].admitted \cup {u}
         /\ invite'[i].late <=> invite[i].late \/ overlapped
         /\ \A j \in DOMAIN invite \ {i} : invite'[j] = invite[j]
<1>1. invite[i] \in M!InviteType
  OBVIOUS
<1>2. PICK late \in BOOLEAN : late = (invite[i].late \/ overlapped)
  BY <1>1 DEF M!InviteType
<1> DEFINE new == [invite[i] EXCEPT !.used = TRUE, !.admitted = @ \cup {u}, !.late = late]
<1>3. /\ new \in M!InviteType /\ new.used /\ new.admitted = invite[i].admitted \cup {u}
      /\ new.late = late
  BY <1>1 DEF M!InviteType
<1>4. invite' = [invite EXCEPT ![i] = new]
  BY <1>2 DEF M!Use
<1>5. late <=> invite[i].late \/ overlapped
  BY <1>2
<1> HIDE DEF new
<1>6. /\ invite' \in Seq(M!InviteType) /\ Len(invite') = Len(invite)
      /\ DOMAIN invite' = DOMAIN invite
  BY <1>3, <1>4
<1>7. invite'[i] = new /\ \A j \in DOMAIN invite \ {i} : invite'[j] = invite[j]
  BY <1>4
<1>8. invite'[i].late <=> invite[i].late \/ overlapped
  BY <1>3, <1>5, <1>7, Zenon
<1> QED BY <1>3, <1>6, <1>7, <1>8, Zenon

(* An invite, or a member to be, is added or admitted: what becomes of the *)
(* invites.                                                                *)
LEMMA AcceptStep ==
  ASSUME M!MembershipAssumption, MembersInv, NEW c \in Calls, M!AcceptCommit(c)
  PROVE  MembersInv'
<1> DEFINE k == call[c]
           u == k.user
           i == k.row
           r == invite[i].seat
           way == M!Way(c)
           reasons == {"seat", "invite"}
<1>1. k.pc = "accept" /\ mix' = mix
  BY DEF M!AcceptCommit
<1>2. CASE M!AcceptRefused(c)
  <2>1. M!Refused(c)
    BY <1>2 DEF M!AcceptCommit
  <2> QED BY <1>1, <2>1, RefusedStep
<1>3. CASE ~M!AcceptRefused(c)
  <2>1. call \in [Calls -> M!CallType] /\ invite \in Seq(M!InviteType)
    BY DEF MembersInv, M!TypeOK
  <2>2. /\ M!Joins(u, r, way) /\ M!Use(i, u, "invite" \in k.late) /\ M!Done(c, reasons)
        /\ UNCHANGED <<exists, plan, key, names, scopes, asked>>
    BY <1>3 DEF M!AcceptCommit
  <2>3. exists /\ role[u] = "none" /\ u \in Users
    BY <1>3, <2>1 DEF M!AcceptRefused, M!CallType
  <2>4. i \in DOMAIN invite /\ ("invite" \in k.late \/ ~invite[i].used)
    BY <1>1, <2>3 DEF MembersInv, InvitesHeld
  <2>5. r \in {"admin", "member"} /\ reasons \in SUBSET M!Reasons
    <3>1. invite[i] \in M!InviteType
      BY <2>1, <2>4
    <3>2. r \in {"admin", "member"}
      BY <3>1 DEF M!InviteType
    <3> QED BY <3>2 DEF M!Reasons
  <2>6. way \in {"invite", "direct", "overlap", "paid"}
    BY DEF M!Way
  <2>7. way = "invite" => Cardinality(M!Members) < SeatsIncluded
    BY <1>1 DEF M!Way, MembersInv, SeatsHeld
  <2>8. ("invite" \in k.late) \in BOOLEAN
    OBVIOUS
  <2>9. PICK overlapped \in BOOLEAN : overlapped = ("invite" \in k.late)
    BY <2>8
  <2>10. M!Use(i, u, overlapped)
    BY <2>2, <2>9, Zenon
  <2>11. overlapped <=> "invite" \in k.late
    BY <2>9, Zenon
  <2> HIDE DEF k, u, i, r, way
  <2>12. /\ role' \in [Users -> {"none"} \cup M!Seats] /\ via' \in [Users -> M!Ways]
         /\ account' \in SUBSET Users /\ excuse' = excuse
         /\ call' \in [Calls -> M!CallType]
         /\ \A d \in Calls : Told(call[d], call'[d], reasons) \/ call'[d].pc = "idle"
         /\ OwnersHeld' /\ SeatsHeld' /\ M!GoneIsGone' /\ NamesHeld' /\ ScopesHeld'
    BY <1>1, <2>2, <2>3, <2>5, <2>6, <2>7, JoinFrame
  <2>13. /\ invite' \in Seq(M!InviteType) /\ Len(invite') = Len(invite)
         /\ DOMAIN invite' = DOMAIN invite
         /\ invite'[i].used /\ invite'[i].admitted = invite[i].admitted \cup {u}
         /\ invite'[i].late <=> invite[i].late \/ overlapped
         /\ \A j \in DOMAIN invite \ {i} : invite'[j] = invite[j]
    BY <2>1, <2>3, <2>4, <2>10, InviteUsed
  <2>14. M!TypeOK'
    BY <1>1, <2>2, <2>12, <2>13 DEF MembersInv, M!TypeOK
  <2>15. InvitesHeld'
    <3>1. ASSUME NEW j \in DOMAIN invite'
          PROVE  /\ ~invite'[j].used => invite'[j].admitted = {}
                 /\ ~invite'[j].late => Cardinality(invite'[j].admitted) <= 1
      <4>1. CASE j # i
        BY <2>13, <3>1, <4>1 DEF MembersInv, InvitesHeld
      <4>2. CASE j = i
        <5>1. ASSUME ~invite'[i].late
              PROVE  Cardinality(invite'[i].admitted) <= 1
          <6>1. ~invite[i].used
            BY <2>4, <2>11, <2>13, <5>1 DEF k
          <6>2. invite[i].admitted = {}
            BY <2>4, <6>1 DEF MembersInv, InvitesHeld
          <6>3. invite'[i].admitted = {u}
            BY <2>13, <6>2
          <6>4. Cardinality({u}) = 1
            BY FS_Singleton
          <6> QED BY <6>3, <6>4
        <5> QED BY <2>13, <4>2, <5>1
      <4> QED BY <4>1, <4>2
    <3>2. ASSUME NEW d \in Calls, call'[d].pc = "accept", exists'
          PROVE  /\ call'[d].row \in DOMAIN invite'
                 /\ "invite" \in call'[d].late \/ ~invite'[call'[d].row].used
      <4>1. Told(call[d], call'[d], reasons)
        BY <2>12, <3>2
      <4>2. call[d].pc = "accept" /\ call'[d].row = call[d].row /\ "invite" \in call'[d].late
        BY <3>2, <4>1 DEF Told
      <4> QED BY <2>3, <2>13, <4>2 DEF MembersInv, InvitesHeld
    <3> QED BY <3>1, <3>2 DEF InvitesHeld
  <2> QED BY <2>12, <2>14, <2>15 DEF MembersInv
<1> QED BY <1>2, <1>3

(* A direct addition; a change of the plan.                                *)
LEMMA DirectStep ==
  ASSUME M!MembershipAssumption, MembersInv, NEW c \in Calls, M!DirectCommit(c)
  PROVE  MembersInv'
<1> DEFINE u == call[c].user
           reasons == {"seat"}
<1>1. call[c].pc = "direct" /\ mix' = mix
  BY DEF M!DirectCommit
<1>2. CASE role[u] # "none" \/ ~exists
  <2>1. M!Refused(c)
    BY <1>2 DEF M!DirectCommit
  <2> QED BY <1>1, <2>1, RefusedStep
<1>3. CASE ~(role[u] # "none" \/ ~exists)
  <2>1. call \in [Calls -> M!CallType]
    BY DEF MembersInv, M!TypeOK
  <2>2. /\ M!Joins(u, "member", "direct") /\ M!Done(c, reasons)
        /\ UNCHANGED <<exists, plan, invite, key, names, scopes, asked>>
    BY <1>3 DEF M!DirectCommit, M!rest
  <2>3. exists /\ role[u] = "none" /\ u \in Users
    BY <1>3, <2>1 DEF M!CallType
  <2>4. /\ "member" \in {"admin", "member"} /\ reasons \in SUBSET M!Reasons /\ "seat" \in reasons
        /\ "direct" \in {"invite", "direct", "overlap", "paid"} /\ "direct" # "invite"
    BY DEF M!Reasons
  <2> HIDE DEF u, reasons
  <2>5. /\ role' \in [Users -> {"none"} \cup M!Seats] /\ via' \in [Users -> M!Ways]
        /\ account' \in SUBSET Users /\ excuse' = excuse
        /\ call' \in [Calls -> M!CallType]
        /\ \A d \in Calls : Told(call[d], call'[d], reasons) \/ call'[d].pc = "idle"
        /\ OwnersHeld' /\ SeatsHeld' /\ M!GoneIsGone' /\ NamesHeld' /\ ScopesHeld'
    BY <1>1, <2>2, <2>3, <2>4, JoinFrame
  <2>6. M!TypeOK'
    BY <1>1, <2>2, <2>5 DEF MembersInv, M!TypeOK
  <2>7. InvitesHeld'
    <3>1. InvitesHeld /\ exists' = exists /\ invite' = invite
      BY <2>2 DEF MembersInv
    <3>2. \A d \in Calls : Told(call[d], call'[d], {}) \/ call'[d].pc # "accept"
      BY <2>5, ToldIsTold
    <3> QED BY <2>3, <3>1, <3>2, InvitesKept
  <2> QED BY <2>5, <2>6, <2>7 DEF MembersInv
<1> QED BY <1>2, <1>3

-----------------------------------------------------------------------------
(* The plan changes; an invite is written; keys come and go.               *)
LEMMA PlanAndKeysStep ==
  ASSUME M!MembershipAssumption, MembersInv,
         \/ \E p \in {"free", "paid"} : M!SetPlan(p)
         \/ \E e \in Users \cup {M!Anyone} :
              M!CreateInvite(e) \/ \E r \in {"admin", "member"} : M!AdminInvite(e, r)
         \/ M!CreateKey \/ M!RotateKeys \/ \E i \in DOMAIN key : M!RevokeKey(i)
  PROVE  MembersInv'
<1>1. call \in [Calls -> M!CallType] /\ invite \in Seq(M!InviteType) /\ key \in Seq(BOOLEAN)
  BY DEF MembersInv, M!TypeOK
<1>2. ASSUME NEW p \in {"free", "paid"}, M!SetPlan(p)
      PROVE  MembersInv'
  <2> DEFINE reasons == {"seat"}
  <2>1. reasons \in SUBSET M!Reasons
    BY DEF M!Reasons
  <2>2. /\ call' = M!Overtake(reasons) /\ plan' = p
        /\ UNCHANGED <<mix, exists, account, role, via, excuse, invite, key, names, scopes, asked>>
    BY <1>2 DEF M!SetPlan, M!people
  <2>3. /\ call' \in [Calls -> M!CallType]
        /\ \A d \in Calls : Told(call[d], call'[d], reasons)
    BY <1>1, <2>1, <2>2, OvertakeTold
  <2>4. \A d \in Calls : Told(call[d], call'[d], {})
    BY <2>3, ToldIsTold
  <2>5. M!TypeOK'
    BY <2>2, <2>3 DEF MembersInv, M!TypeOK
  <2>6. OwnersHeld'
    <3>1. OwnersHeld /\ exists' = exists /\ excuse' = excuse /\ M!Owners' = M!Owners
      BY <2>2 DEF MembersInv, M!Owners
    <3> QED BY <2>4, <3>1, OwnersKept
  <2>7. SeatsHeld'
    <3>1. Counted' = Counted
      BY <2>2 DEF Counted, M!Members
    <3>2. \A d \in Calls : call'[d].pc = "accept" => "seat" \in call'[d].late
      BY <2>3 DEF Told
    <3> QED BY <3>1, <3>2 DEF MembersInv, SeatsHeld
  <2>8. InvitesHeld'
    <3>1. InvitesHeld /\ exists' = exists /\ invite' = invite /\ (~exists => invite = <<>>)
      BY <2>2 DEF MembersInv, M!GoneIsGone
    <3> QED BY <2>4, <3>1, InvitesKept
  <2>9. M!GoneIsGone'
    BY <2>2 DEF MembersInv, M!GoneIsGone, M!Members
  <2>10. NamesHeld' /\ ScopesHeld'
    BY <2>2, <2>4, NamesKept, ScopesKept DEF MembersInv
  <2> QED BY <2>5, <2>6, <2>7, <2>8, <2>9, <2>10 DEF MembersInv
<1>3. ASSUME exists, UNCHANGED <<mix, exists, account, role, via, excuse, plan, names, scopes, asked, call>>,
             M!TypeOK', InvitesHeld'
      PROVE  MembersInv'
  <2>1. M!Owners' = M!Owners /\ M!Members' = M!Members /\ Counted' = Counted
    BY <1>3 DEF M!Owners, M!Members, Counted
  <2>2. OwnersHeld'
    BY <1>3, <2>1 DEF MembersInv, OwnersHeld
  <2>3. SeatsHeld'
    BY <1>3, <2>1 DEF MembersInv, SeatsHeld
  <2>4. M!GoneIsGone' /\ NamesHeld' /\ ScopesHeld'
    BY <1>3 DEF MembersInv, M!GoneIsGone, NamesHeld, ScopesHeld, M!NamesExplained, M!ScopesAsAsked
  <2> QED BY <1>3, <2>2, <2>3, <2>4 DEF MembersInv
<1>4. ASSUME NEW e \in Users \cup {M!Anyone}, NEW r \in {"admin", "member"}, M!Invite(e, r),
             exists, Len(invite) < MaxInvites,
             UNCHANGED <<mix, exists, account, role, via, excuse, plan, key, names, scopes, asked, call>>
      PROVE  MembersInv'
  <2> DEFINE new == [email |-> e, seat |-> r, used |-> FALSE, admitted |-> {}, late |-> FALSE]
  <2>1. new \in M!InviteType /\ ~new.used /\ new.admitted = {}
    BY DEF M!InviteType
  <2>2. invite' = Append(invite, new)
    BY <1>4 DEF M!Invite
  <2> HIDE DEF new
  <2>3. /\ invite' \in Seq(M!InviteType) /\ Len(invite') = Len(invite) + 1
        /\ invite'[Len(invite) + 1] = new
        /\ \A i \in 1 .. Len(invite) : invite'[i] = invite[i]
        /\ DOMAIN invite = 1 .. Len(invite) /\ DOMAIN invite' = 1 .. Len(invite) + 1
        /\ Len(invite) \in Nat
    BY <1>1, <2>1, <2>2, AppendProperties
  <2>4. MaxInvites \in Nat
    BY DEF M!MembershipAssumption
  <2>5. Len(invite') <= MaxInvites
    BY <1>4, <2>3, <2>4
  <2>6. M!TypeOK'
    BY <1>4, <2>3, <2>5 DEF MembersInv, M!TypeOK
  <2>7. InvitesHeld'
    <3>1. Cardinality({}) = 0
      BY FS_EmptySet
    <3>2. ASSUME NEW i \in DOMAIN invite'
          PROVE  /\ ~invite'[i].used => invite'[i].admitted = {}
                 /\ ~invite'[i].late => Cardinality(invite'[i].admitted) <= 1
      <4>1. CASE i = Len(invite) + 1
        <5>1. invite'[i].admitted = {}
          BY <2>1, <2>3, <4>1
        <5> QED BY <3>1, <5>1
      <4>2. CASE i \in DOMAIN invite
        BY <2>3, <4>2 DEF MembersInv, InvitesHeld
      <4> QED BY <2>3, <4>1, <4>2
    <3>3. ASSUME NEW d \in Calls, call'[d].pc = "accept"
          PROVE  /\ call'[d].row \in DOMAIN invite'
                 /\ "invite" \in call'[d].late \/ ~invite'[call'[d].row].used
      <4>1. call[d].pc = "accept" /\ call'[d] = call[d]
        BY <1>4, <3>3
      <4>2. call[d].row \in DOMAIN invite /\ ("invite" \in call[d].late \/ ~invite[call[d].row].used)
        BY <1>4, <4>1 DEF MembersInv, InvitesHeld
      <4> QED BY <2>3, <4>1, <4>2
    <3> QED BY <3>2, <3>3 DEF InvitesHeld
  <2> QED BY <1>3, <1>4, <2>6, <2>7
<1>5. ASSUME exists, key' \in Seq(BOOLEAN), Len(key') <= MaxKeys,
             UNCHANGED <<mix, exists, account, role, via, excuse, plan, invite, names, scopes, asked, call>>
      PROVE  MembersInv'
  <2>1. M!TypeOK'
    BY <1>5 DEF MembersInv, M!TypeOK
  <2>2. InvitesHeld'
    BY <1>5 DEF MembersInv, InvitesHeld
  <2> QED BY <1>3, <1>5, <2>1, <2>2
<1>6. Len(key) \in Nat /\ MaxKeys \in Nat /\ DOMAIN key = 1 .. Len(key) /\ Len(key) <= MaxKeys
  BY <1>1 DEF M!MembershipAssumption, MembersInv, M!TypeOK
<1>7. ASSUME NEW e \in Users \cup {M!Anyone}, M!CreateInvite(e)
      PROVE  MembersInv'
  BY <1>4, <1>7 DEF M!CreateInvite, M!people
<1>8. ASSUME NEW e \in Users \cup {M!Anyone}, NEW r \in {"admin", "member"}, M!AdminInvite(e, r)
      PROVE  MembersInv'
  BY <1>4, <1>8 DEF M!AdminInvite, M!people
<1>9. ASSUME M!CreateKey
      PROVE  MembersInv'
  <2>1. /\ key' = Append(key, TRUE) /\ exists /\ Len(key) < MaxKeys
        /\ UNCHANGED <<mix, exists, account, role, via, excuse, plan, invite, names, scopes, asked, call>>
    BY <1>9 DEF M!CreateKey, M!people
  <2>2. key' \in Seq(BOOLEAN) /\ Len(key') <= MaxKeys
    BY <1>1, <1>6, <2>1, AppendProperties
  <2> QED BY <1>5, <2>1, <2>2
<1>10. ASSUME NEW i \in DOMAIN key, M!RevokeKey(i)
       PROVE  MembersInv'
  <2>1. /\ key' = [key EXCEPT ![i] = FALSE] /\ exists
        /\ UNCHANGED <<mix, exists, account, role, via, excuse, plan, invite, names, scopes, asked, call>>
    BY <1>10 DEF M!RevokeKey, M!people
  <2>2. key' \in Seq(BOOLEAN) /\ Len(key') <= MaxKeys
    BY <1>1, <1>6, <2>1
  <2> QED BY <1>5, <2>1, <2>2
<1>11. ASSUME M!RotateKeys
       PROVE  MembersInv'
  <2>1. /\ key' = [i \in DOMAIN key |-> FALSE] /\ exists
        /\ UNCHANGED <<mix, exists, account, role, via, excuse, plan, invite, names, scopes, asked, call>>
    BY <1>11 DEF M!RotateKeys, M!people
  <2>2. key' \in Seq(BOOLEAN) /\ Len(key') <= MaxKeys
    BY <1>6, <2>1
  <2> QED BY <1>5, <2>1, <2>2
<1> QED BY <1>2, <1>7, <1>8, <1>9, <1>10, <1>11

(* An organisation is deleted once nobody belongs to it.                   *)
LEMMA DeleteStep ==
  ASSUME M!MembershipAssumption, MembersInv,
         (\E c \in Calls : M!DeleteCommit(c)) \/ M!AdminDelete
  PROVE  MembersInv'
<1>1. call \in [Calls -> M!CallType] /\ {} \in SUBSET M!Reasons
  BY DEF MembersInv, M!TypeOK
<1>2. ASSUME M!Delete, ~M!DeleteRefused, mix' = mix, call' \in [Calls -> M!CallType],
             \A d \in Calls : Told(call[d], call'[d], {}) \/ call'[d].pc = "idle"
      PROVE  MembersInv'
  <2>1. /\ ~exists' /\ invite' = <<>> /\ key' = <<>> /\ M!Members = {}
        /\ UNCHANGED <<account, role, via, excuse, plan, names, scopes, asked>>
    BY <1>2 DEF M!Delete, M!DeleteRefused, M!people
  <2>2. Len(<<>>) = 0 /\ <<>> \in Seq(M!InviteType) /\ <<>> \in Seq(BOOLEAN)
    OBVIOUS
  <2>3. MaxInvites \in Nat /\ MaxKeys \in Nat
    BY DEF M!MembershipAssumption
  <2>4. exists' \in BOOLEAN
    BY <1>2 DEF M!Delete
  <2>5. M!TypeOK'
    BY <1>2, <2>1, <2>2, <2>3, <2>4 DEF MembersInv, M!TypeOK
  <2>6. M!Members' = M!Members /\ Counted' = Counted
    BY <2>1 DEF M!Members, Counted
  <2>7. OwnersHeld' /\ M!GoneIsGone'
    BY <2>1, <2>6 DEF OwnersHeld, M!GoneIsGone
  <2>8. SeatsHeld'
    <3>1. SeatsHeld /\ M!Members' \subseteq M!Members /\ via' = via /\ plan' = plan
      BY <2>1, <2>6 DEF MembersInv
    <3> QED BY <1>2, <3>1, SeatsKept
  <2>9. InvitesHeld'
    <3>1. InvitesHeld
      BY DEF MembersInv
    <3> QED BY <1>2, <2>1, <3>1, InvitesKept
  <2>10. NamesHeld' /\ ScopesHeld'
    BY <1>2, <2>1, NamesKept, ScopesKept DEF MembersInv
  <2> QED BY <2>5, <2>7, <2>8, <2>9, <2>10 DEF MembersInv
<1>3. ASSUME NEW c \in Calls, M!DeleteCommit(c)
      PROVE  MembersInv'
  <2>1. mix' = mix
    BY <1>3 DEF M!DeleteCommit
  <2>2. CASE M!DeleteRefused
    <3>1. M!Refused(c)
      BY <1>3, <2>2 DEF M!DeleteCommit
    <3> QED BY <2>1, <3>1, RefusedStep
  <2>3. CASE ~M!DeleteRefused
    <3>1. M!Delete /\ M!Done(c, {})
      BY <1>3, <2>3 DEF M!DeleteCommit
    <3>2. /\ call' \in [Calls -> M!CallType]
          /\ call'[c].pc = "idle"
          /\ \A d \in Calls \ {c} : Told(call[d], call'[d], {})
      BY <1>1, <3>1, DoneTold
    <3>3. \A d \in Calls : Told(call[d], call'[d], {}) \/ call'[d].pc = "idle"
      BY <3>2
    <3> QED BY <1>2, <2>1, <2>3, <3>1, <3>2, <3>3
  <2> QED BY <2>2, <2>3
<1>4. ASSUME M!AdminDelete
      PROVE  MembersInv'
  <2>1. M!Delete /\ ~M!DeleteRefused /\ mix' = mix /\ call' = call
    BY <1>4 DEF M!AdminDelete
  <2>2. \A d \in Calls : Told(call[d], call'[d], {}) \/ call'[d].pc = "idle"
    BY <1>1, <2>1 DEF Told
  <2> QED BY <1>1, <1>2, <2>1, <2>2
<1> QED BY <1>3, <1>4

-----------------------------------------------------------------------------
(* The names and the scopes of a role: what else is, stays.                *)
LEMMA NamesFrame ==
  ASSUME M!MembershipAssumption, MembersInv, call' \in [Calls -> M!CallType],
         \A d \in Calls : Told(call[d], call'[d], {}) \/ call'[d].pc \in {"idle", "again"},
         UNCHANGED <<mix, exists, account, role, via, excuse, plan, invite, key>>
  PROVE  OwnersHeld' /\ SeatsHeld' /\ InvitesHeld' /\ M!GoneIsGone'
<1>1. OwnersHeld'
  <2>1. OwnersHeld /\ exists' = exists /\ excuse' = excuse /\ M!Owners' = M!Owners
    BY DEF MembersInv, M!Owners
  <2>2. \A d \in Calls : Told(call[d], call'[d], {}) \/ ~Leaves(call'[d])
    BY DEF Leaves
  <2> QED BY <2>1, <2>2, OwnersKept
<1>2. SeatsHeld'
  <2>1. SeatsHeld /\ M!Members' = M!Members /\ via' = via /\ plan' = plan
    BY DEF MembersInv, M!Members
  <2> QED BY <2>1, SeatsKept
<1>3. InvitesHeld'
  <2>1. InvitesHeld /\ exists' = exists /\ invite' = invite /\ (~exists => invite = <<>>)
    BY DEF MembersInv, M!GoneIsGone
  <2> QED BY <2>1, InvitesKept
<1>4. M!GoneIsGone'
  BY DEF MembersInv, M!GoneIsGone, M!Members
<1> QED BY <1>1, <1>2, <1>3, <1>4

(* A name is registered, or an organisation renamed.                       *)
LEMMA NamesStep ==
  ASSUME M!MembershipAssumption, MembersInv,
         \/ \E c \in Calls : M!RegisterCommit(c)
         \/ \E i \in DOMAIN names, n \in Names : M!Rename(i, n)
  PROVE  MembersInv'
<1> DEFINE nameType == [name : Names, late : BOOLEAN]
           reasons == {"name"}
<1>1. /\ call \in [Calls -> M!CallType] /\ reasons \in SUBSET M!Reasons
      /\ names \in Seq(nameType) /\ Len(names) <= MaxOrgs /\ MaxOrgs \in Nat
      /\ Len(names) \in Nat /\ DOMAIN names = 1 .. Len(names)
      /\ NamesHeld /\ M!NamesExplained
  BY DEF MembersInv, M!TypeOK, M!Reasons, M!MembershipAssumption, NamesHeld
<1>2. ASSUME names' \in Seq(nameType), Len(names') <= MaxOrgs, M!NamesExplained',
             call' \in [Calls -> M!CallType],
             \A d \in Calls : Told(call[d], call'[d], reasons) \/ call'[d].pc = "idle",
             UNCHANGED <<mix, exists, account, role, via, excuse, plan, invite, key, scopes, asked>>
      PROVE  MembersInv'
  <2>1. \A d \in Calls : Told(call[d], call'[d], {}) \/ call'[d].pc = "idle"
    BY <1>2, ToldIsTold
  <2>2. M!TypeOK'
    BY <1>2 DEF MembersInv, M!TypeOK
  <2>3. OwnersHeld' /\ SeatsHeld' /\ InvitesHeld' /\ M!GoneIsGone'
    BY <1>2, <2>1, NamesFrame
  <2>4. ScopesHeld'
    BY <1>2, <2>1, ScopesKept DEF MembersInv
  <2>5. \A d \in Calls : call'[d].pc = "register" => "name" \in call'[d].late
    BY <1>2 DEF Told
  <2>6. NamesHeld'
    BY <1>2, <2>5 DEF NamesHeld
  <2> QED BY <2>2, <2>3, <2>4, <2>6 DEF MembersInv
<1>3. ASSUME NEW c \in Calls, M!RegisterCommit(c)
      PROVE  MembersInv'
  <2>1. /\ call[c].pc = "register" /\ Len(names) < MaxOrgs /\ M!Done(c, reasons)
        /\ names' = Append(names, [name |-> call[c].name, late |-> "name" \in call[c].late])
        /\ UNCHANGED <<mix, exists, account, role, via, excuse, plan, invite, key, scopes, asked>>
    BY <1>3 DEF M!RegisterCommit, M!people
  <2>2. /\ call' \in [Calls -> M!CallType]
        /\ call'[c].pc = "idle"
        /\ \A d \in Calls \ {c} : Told(call[d], call'[d], reasons)
    BY <1>1, <2>1, DoneTold
  <2>3. \A d \in Calls : Told(call[d], call'[d], reasons) \/ call'[d].pc = "idle"
    BY <2>2
  <2>4. ("name" \in call[c].late) \in BOOLEAN
    OBVIOUS
  <2>5. PICK late \in BOOLEAN : late = ("name" \in call[c].late)
    BY <2>4
  <2> DEFINE new == [name |-> call[c].name, late |-> late]
  <2>6. new \in nameType /\ new.name = call[c].name /\ new.late = late
    BY <1>1 DEF M!CallType
  <2>7. names' = Append(names, new)
    BY <2>1, <2>5, Zenon
  <2>8. late <=> "name" \in call[c].late
    BY <2>5, Zenon
  <2> HIDE DEF new, nameType
  <2>9. /\ names' \in Seq(nameType) /\ Len(names') = Len(names) + 1
        /\ names'[Len(names) + 1] = new
        /\ \A i \in 1 .. Len(names) : names'[i] = names[i]
        /\ DOMAIN names' = 1 .. Len(names) + 1
    BY <1>1, <2>6, <2>7, AppendProperties
  <2>10. Len(names') <= MaxOrgs
    BY <1>1, <2>1, <2>9
  <2>11. M!NamesExplained'
    <3>1. ~late => \A i \in DOMAIN names : names[i].name # new.name
      BY <1>1, <2>1, <2>6, <2>8 DEF NamesHeld
    <3>2. ASSUME NEW i \in DOMAIN names', NEW j \in DOMAIN names', i # j,
                 names'[i].name = names'[j].name
          PROVE  names'[i].late \/ names'[j].late
      <4>1. CASE i = Len(names) + 1
        <5>1. j \in DOMAIN names /\ names'[j] = names[j] /\ names'[i] = new
          BY <1>1, <2>9, <3>2, <4>1
        <5> QED BY <2>6, <3>1, <3>2, <5>1
      <4>2. CASE j = Len(names) + 1
        <5>1. i \in DOMAIN names /\ names'[i] = names[i] /\ names'[j] = new
          BY <1>1, <2>9, <3>2, <4>2
        <5> QED BY <2>6, <3>1, <3>2, <5>1
      <4>3. CASE i # Len(names) + 1 /\ j # Len(names) + 1
        <5>1. i \in DOMAIN names /\ names'[i] = names[i] /\ j \in DOMAIN names /\ names'[j] = names[j]
          BY <1>1, <2>9, <4>3
        <5> QED BY <1>1, <3>2, <5>1 DEF M!NamesExplained
      <4> QED BY <4>1, <4>2, <4>3
    <3> QED BY <3>2 DEF M!NamesExplained
  <2> QED BY <1>2, <2>1, <2>2, <2>3, <2>9, <2>10, <2>11
<1>4. ASSUME NEW i \in DOMAIN names, NEW n \in Names, M!Rename(i, n)
      PROVE  MembersInv'
  <2> DEFINE new == [name |-> n, late |-> TRUE]
  <2>1. /\ names' = [names EXCEPT ![i] = new] /\ call' = M!Overtake(reasons)
        /\ UNCHANGED <<mix, exists, account, role, via, excuse, plan, invite, key, scopes, asked>>
    BY <1>4 DEF M!Rename, M!people
  <2>2. /\ call' \in [Calls -> M!CallType]
        /\ \A d \in Calls : Told(call[d], call'[d], reasons) \/ call'[d].pc = "idle"
    BY <1>1, <2>1, OvertakeTold
  <2>3. new \in nameType /\ new.late
    OBVIOUS
  <2> HIDE DEF new, nameType
  <2>4. /\ names' \in Seq(nameType) /\ Len(names') = Len(names) /\ DOMAIN names' = DOMAIN names
        /\ names'[i] = new /\ \A j \in DOMAIN names \ {i} : names'[j] = names[j]
    BY <1>1, <2>1, <2>3
  <2>5. M!NamesExplained'
    BY <1>1, <2>3, <2>4 DEF M!NamesExplained
  <2>6. Len(names') <= MaxOrgs
    BY <1>1, <2>4
  <2> QED BY <1>2, <2>1, <2>2, <2>4, <2>5, <2>6
<1> QED BY <1>3, <1>4

(* The scopes of a role are written.                                       *)
LEMMA ScopesStep ==
  ASSUME M!MembershipAssumption, MembersInv, NEW c \in Calls, M!ScopesCommit(c)
  PROVE  MembersInv'
<1> DEFINE k == call[c]
           reasons == {"scopes"}
           o == M!Overtake(reasons)
           next == IF k.pc = "again" THEN M!NoCall ELSE [k EXCEPT !.pc = "again", !.old = {}]
<1>1. k.pc \in {"scopes", "again"} /\ mix' = mix
  BY DEF M!ScopesCommit
<1>2. CASE M!Collides(c)
  <2>1. M!Refused(c)
    BY <1>2 DEF M!ScopesCommit
  <2> QED BY <1>1, <2>1, RefusedStep
<1>3. CASE ~M!Collides(c)
  <2>1. /\ call \in [Calls -> M!CallType] /\ reasons \in SUBSET M!Reasons
        /\ scopes \in SUBSET Scopes /\ k \in M!CallType
    BY DEF MembersInv, M!TypeOK, M!Reasons
  <2>2. /\ scopes' = (scopes \ k.old) \cup k.perms
        /\ asked' = [scopes |-> k.perms, late |-> "scopes" \in k.late]
        /\ call' = [d \in Calls |-> IF d # c THEN [o[d] EXCEPT !.old = @ \ k.old] ELSE next]
        /\ UNCHANGED <<exists, account, role, via, excuse, plan, invite, key, names>>
    BY <1>3 DEF M!ScopesCommit, M!people, M!Replaced
  <2>3. /\ next \in M!CallType
        /\ next.pc = "idle" \/ (/\ next.pc = "again" /\ next.perms = k.perms
                                /\ next.late = k.late /\ k.pc = "scopes")
    <3>1. CASE k.pc = "again"
      BY <3>1, NoCallType
    <3>2. CASE k.pc # "again"
      <4>1. "again" \in M!Pcs
        BY DEF M!Pcs
      <4> QED BY <1>1, <2>1, <3>2, <4>1 DEF M!CallType
    <3> QED BY <3>1, <3>2
  <2>4. o \in [Calls -> M!CallType] /\ \A d \in Calls : Told(call[d], o[d], reasons)
    BY <2>1, OvertakeTold
  <2> HIDE DEF o, next
  <2>18. ASSUME NEW d \in Calls, d # c
         PROVE  call'[d] \in M!CallType /\ Told(call[d], call'[d], reasons)
    <3>1. call[d].pc \in M!Pcs /\ o[d] \in M!CallType /\ Told(call[d], o[d], reasons)
      BY <2>1, <2>4 DEF M!CallType
    <3>2. call'[d] = [o[d] EXCEPT !.old = o[d].old \ k.old]
      BY <2>2, <2>18
    <3>3. call'[d] \in M!CallType
      <4>1. o[d].old \ k.old \in SUBSET Scopes
        BY <3>1 DEF M!CallType
      <4> QED BY <3>1, <3>2, <4>1 DEF M!CallType
    <3>4. /\ call'[d].pc = o[d].pc /\ call'[d].user = o[d].user /\ call'[d].row = o[d].row
          /\ call'[d].saw = o[d].saw /\ call'[d].want = o[d].want /\ call'[d].known = o[d].known
          /\ call'[d].name = o[d].name /\ call'[d].perms = o[d].perms /\ call'[d].late = o[d].late
      BY <3>1, <3>2 DEF M!CallType
    <3>5. call[d].pc # "idle" => "scopes" \in call'[d].late
      BY <3>1, <3>4 DEF Told
    <3> QED BY <3>1, <3>3, <3>4, <3>5 DEF Told
  <2>5. /\ call' \in [Calls -> M!CallType] /\ call'[c] = next
        /\ \A d \in Calls \ {c} : Told(call[d], call'[d], reasons)
    <3>1. call' = [d \in Calls |-> call'[d]] /\ call'[c] = next
      BY <2>2
    <3> QED BY <2>3, <2>18, <3>1
  <2>6. \A d \in Calls : Told(call[d], call'[d], {}) \/ call'[d].pc \in {"idle", "again"}
    BY <2>3, <2>5, ToldIsTold
  <2>7. k.perms \in SUBSET Scopes
    BY <2>1 DEF M!CallType
  <2>8. ("scopes" \in k.late) \in BOOLEAN
    OBVIOUS
  <2>9. PICK late \in BOOLEAN : late = ("scopes" \in k.late)
    BY <2>8
  <2>10. asked' = [scopes |-> k.perms, late |-> late] /\ (late <=> "scopes" \in k.late)
    BY <2>2, <2>9, Zenon
  <2>11. /\ asked' \in [scopes : SUBSET Scopes, late : BOOLEAN]
         /\ asked'.scopes = k.perms /\ (asked'.late <=> "scopes" \in k.late)
    BY <2>7, <2>10
  <2>12. scopes' \in SUBSET Scopes
    BY <2>1, <2>2, <2>7
  <2> HIDE DEF k
  <2>13. M!TypeOK'
    BY <1>1, <2>2, <2>5, <2>11, <2>12 DEF MembersInv, M!TypeOK
  <2>14. OwnersHeld' /\ SeatsHeld' /\ InvitesHeld' /\ M!GoneIsGone'
    BY <1>1, <2>2, <2>5, <2>6, NamesFrame
  <2>15. NamesHeld'
    <3>1. NamesHeld /\ names' = names
      BY <2>2 DEF MembersInv
    <3>2. \A d \in Calls : Told(call[d], call'[d], {}) \/ call'[d].pc # "register"
      BY <2>6
    <3> QED BY <3>1, <3>2, NamesKept
  <2>19. k.perms \subseteq scopes'
    BY <2>2
  <2>16. "scopes" \notin k.late => scopes' = k.perms
    BY <1>1, <2>2 DEF MembersInv, ScopesHeld, k
  <2>17. ScopesHeld'
    <3>1. M!ScopesAsAsked'
      BY <2>11, <2>16, <2>19 DEF M!ScopesAsAsked
    <3>2. ASSUME NEW d \in Calls, "scopes" \notin call'[d].late
          PROVE  /\ call'[d].pc = "scopes" => call'[d].old = scopes'
                 /\ call'[d].pc = "again" => call'[d].perms = scopes'
      <4>1. CASE d = c
        BY <2>3, <2>5, <2>16, <3>2, <4>1
      <4>2. CASE d # c
        BY <2>5, <3>2, <4>2 DEF Told
      <4> QED BY <4>1, <4>2
    <3> QED BY <3>1, <3>2 DEF ScopesHeld
  <2> QED BY <2>13, <2>14, <2>15, <2>17 DEF MembersInv
<1> QED BY <1>2, <1>3

-----------------------------------------------------------------------------
(* Every step of an organisation and its callers.                          *)
LEMMA MembersStep ==
  ASSUME M!MembershipAssumption, MembersInv, M!Next
  PROVE  MembersInv'
<1>1. ASSUME NEW c \in Calls,
             \/ \E a, u \in Users : M!RemoveRead(c, a, u) \/ \E r \in M!Seats : M!ChangeRead(c, a, u, r)
             \/ M!ChangeCommit(c) \/ M!RemoveCommit(c)
             \/ \E u \in Users : M!DirectRead(c, u) \/ \E i \in DOMAIN invite : M!AcceptRead(c, i, u)
             \/ M!DirectCommit(c) \/ M!AcceptCommit(c)
             \/ M!DeleteRead(c) \/ M!DeleteCommit(c)
             \/ (\E n \in Names : M!RegisterRead(c, n)) \/ M!RegisterCommit(c)
             \/ (\E s \in SUBSET Scopes : M!ScopesRead(c, s)) \/ M!ScopesCommit(c)
      PROVE  MembersInv'
  <2>1. CASE M!ChangeCommit(c) \/ M!RemoveCommit(c)
    BY <2>1, SeatsChange
  <2>2. CASE M!DirectCommit(c)
    BY <2>2, DirectStep
  <2>3. CASE M!AcceptCommit(c)
    BY <2>3, AcceptStep
  <2>4. CASE M!DeleteCommit(c)
    BY <2>4, DeleteStep
  <2>5. CASE M!RegisterCommit(c)
    BY <2>5, NamesStep
  <2>6. CASE M!ScopesCommit(c)
    BY <2>6, ScopesStep
  <2> QED BY <1>1, <2>1, <2>2, <2>3, <2>4, <2>5, <2>6, ReadStep
<1>2. CASE \E u \in Users, r \in {"none"} \cup M!Seats : M!AdminSeat(u, r)
  BY <1>2, SeatsChange
<1>3. CASE \/ \E p \in {"free", "paid"} : M!SetPlan(p)
           \/ \E e \in Users \cup {M!Anyone} :
                M!CreateInvite(e) \/ \E r \in {"admin", "member"} : M!AdminInvite(e, r)
           \/ M!CreateKey \/ M!RotateKeys \/ \E i \in DOMAIN key : M!RevokeKey(i)
  BY <1>3, PlanAndKeysStep
<1>4. CASE M!AdminDelete
  BY <1>4, DeleteStep
<1>5. CASE \E i \in DOMAIN names, n \in Names : M!Rename(i, n)
  BY <1>5, NamesStep
<1> QED BY <1>1, <1>2, <1>3, <1>4, <1>5 DEF M!Next

(* The founder's organisation.                                             *)
LEMMA MembersInit == M!MembershipAssumption /\ M!Init => MembersInv
<1> SUFFICES ASSUME M!MembershipAssumption, M!Init PROVE MembersInv
  OBVIOUS
<1>1. M!NoCall \in M!CallType /\ M!NoCall.pc = "idle" /\ M!NoCall.late = {}
  BY NoCallType
<1>2. call \in [Calls -> M!CallType] /\ \A c \in Calls : call[c].pc = "idle"
  BY <1>1 DEF M!Init
<1>3. /\ Len(<<>>) = 0 /\ DOMAIN <<>> = {} /\ <<>> \in Seq(M!InviteType) /\ <<>> \in Seq(BOOLEAN)
      /\ <<>> \in Seq([name : Names, late : BOOLEAN])
  OBVIOUS
<1>4. /\ Founder \in Users /\ SeatsIncluded \in Nat \ {0}
      /\ MaxInvites \in Nat /\ MaxOrgs \in Nat /\ MaxKeys \in Nat
  BY DEF M!MembershipAssumption
<1>5. M!TypeOK
  <2>1. /\ exists \in BOOLEAN /\ account \in SUBSET Users
        /\ excuse \in SUBSET {"overlap", "superadmin"} /\ plan \in {"free", "paid"}
    BY DEF M!Init
  <2>2. role \in [Users -> {"none"} \cup M!Seats] /\ via \in [Users -> M!Ways]
    BY DEF M!Init, M!Seats, M!Ways
  <2>3. /\ invite \in Seq(M!InviteType) /\ Len(invite) <= MaxInvites
        /\ key \in Seq(BOOLEAN) /\ Len(key) <= MaxKeys
        /\ names \in Seq([name : Names, late : BOOLEAN]) /\ Len(names) <= MaxOrgs
    BY <1>3, <1>4 DEF M!Init
  <2>4. scopes \in SUBSET Scopes /\ asked \in [scopes : SUBSET Scopes, late : BOOLEAN]
    BY DEF M!Init
  <2> QED BY <1>2, <2>1, <2>2, <2>3, <2>4 DEF M!TypeOK
<1>6. M!Owners = {Founder} /\ M!Members = {Founder} /\ Counted = {Founder}
  BY <1>4 DEF M!Init, M!Owners, M!Members, Counted
<1>7. OwnersHeld
  BY <1>2, <1>6 DEF OwnersHeld, Leaves
<1>8. SeatsHeld
  <2>1. Cardinality(Counted) = 1
    BY <1>6, FS_Singleton
  <2> QED BY <1>2, <1>4, <2>1 DEF SeatsHeld
<1>9. InvitesHeld /\ M!GoneIsGone /\ NamesHeld /\ ScopesHeld
  BY <1>2, <1>3
     DEF M!Init, InvitesHeld, M!GoneIsGone, NamesHeld, M!NamesExplained, ScopesHeld, M!ScopesAsAsked
<1> QED BY <1>5, <1>7, <1>8, <1>9 DEF MembersInv

(* What the invariant says of owners, seats and invites.                   *)
LEMMA MembersShown ==
  ASSUME M!MembershipAssumption, MembersInv
  PROVE  M!OwnerlessExplained /\ M!SeatsExplained /\ M!InviteOnce
<1>1. M!OwnerlessExplained
  BY DEF MembersInv, OwnersHeld, M!OwnerlessExplained
<1>2. M!SeatsExplained
  <2> SUFFICES ASSUME Cardinality(M!Members) > SeatsIncluded,
                      \A u \in M!Members : via[u] \notin {"direct", "overlap", "paid"}
               PROVE  FALSE
    BY SameCardinality DEF M!SeatsExplained
  <2>1. Counted = M!Members
    BY DEF Counted, MembersInv, M!TypeOK, M!Ways, M!Members
  <2>2. Cardinality(M!Members) \in Nat /\ SeatsIncluded \in Nat
    BY MembersFinite DEF M!MembershipAssumption
  <2> QED BY <2>1, <2>2 DEF MembersInv, SeatsHeld
<1>3. M!InviteOnce
  <2> SUFFICES ASSUME NEW i \in DOMAIN invite, Cardinality(invite[i].admitted) > 1, ~invite[i].late
               PROVE  FALSE
    BY SameCardinality DEF M!InviteOnce
  <2>1. invite[i].admitted \in SUBSET Users
    <3>1. invite[i] \in M!InviteType
      BY DEF MembersInv, M!TypeOK
    <3> QED BY <3>1 DEF M!InviteType
  <2>2. IsFiniteSet(Users)
    BY Zenon DEF M!MembershipAssumption, M!IsFiniteSet, IsFiniteSet
  <2>3. Cardinality(invite[i].admitted) \in Nat
    BY <2>1, <2>2, FS_Subset, FS_CardinalityType
  <2> QED BY <2>3 DEF MembersInv, InvitesHeld
<1> QED BY <1>1, <1>2, <1>3

(* What explains an organisation and its members holds in every behaviour. *)
THEOREM MembersHold == Spec => []MembersExplained
<1> DEFINE Inv == part = "members" => MembersInv
<1>1. M!MembershipAssumption
  BY AccountsAssumption
<1>2. Init => Inv
  BY <1>1, MembersInit DEF Init
<1>3. Inv /\ [Next]_vars => Inv'
  <2> SUFFICES ASSUME Inv, [Next]_vars, part' = "members" PROVE MembersInv'
    OBVIOUS
  <2>1. CASE part = "members" /\ M!Next
    BY <1>1, <2>1, MembersStep
  <2>2. CASE UNCHANGED vars \/ (part = "billing" /\ UNCHANGED part)
    <3>1. UNCHANGED vars /\ part = "members"
      BY <2>2 DEF vars
    <3>2. UNCHANGED <<mix, exists, account, role, via, excuse, plan, invite, key, names, scopes, asked, call>>
      BY <3>1 DEF vars, membersVars
    <3> QED BY <3>1, <3>2
         DEF MembersInv, M!TypeOK, OwnersHeld, M!Owners, SeatsHeld, M!Members, Counted, InvitesHeld,
             M!GoneIsGone, NamesHeld, M!NamesExplained, ScopesHeld, M!ScopesAsAsked
  <2> QED BY <2>1, <2>2 DEF Next
<1>4. Inv => MembersExplained
  <2>1. MembersInv => M!TypeOK /\ M!GoneIsGone /\ M!NamesExplained /\ M!ScopesAsAsked
    BY DEF MembersInv, NamesHeld, ScopesHeld
  <2> QED BY <1>1, <2>1, MembersShown DEF MembersExplained
<1> QED BY <1>2, <1>3, <1>4, PTL DEF Spec

-----------------------------------------------------------------------------
(* Nothing is known to have gone wrong with the reports.                   *)
Sound == why \cap {"crash", "overlap", "stale"} = {}

(* The decisions being made that found the quota free.                     *)
Checks == {c \in Calls : handler[c].pc = "check"}

(* The quota with the calls that overrun it, or what a superadmin granted. *)
Fits(n, p) == n <= Included + Cardinality(Calls) - 1 \/ n <= granted[p]

(* Each check in flight may be recorded and the bound still holds.         *)
QuotaHeld ==
  /\ \A p \in B!Periods : p > period => used[p] = 0
  /\ sub.plan = "free" =>
       /\ \A p \in B!Periods : Fits(used[p], p)
       /\ Fits(used[period] + Cardinality(Checks), period)

(* The only report that Stripe has counted and that is not committed.      *)
Sole(c) == handler[c].pc = "record" /\ \A d \in Calls : handler[d].pc = "record" => d = c

(* What a report is about to add is what was used beyond the rows, and     *)
(* Stripe is ahead of the rows by the one report that is not committed.    *)
ReportHeld ==
  /\ \A c \in Calls : handler[c].pc \in {"report", "record"} /\ ~handler[c].late
                       => handler[c].n + rows[handler[c].saw.period] = handler[c].seen
  /\ Sound => /\ \A c \in Calls : handler[c].pc = "record" => handler[c].saw.period = handler[c].at
              /\ rows = metered
              /\ (\A c \in Calls : handler[c].pc # "record") => billed = metered
              /\ \A c \in Calls : Sole(c) /\ ~handler[c].late =>
                   billed = [metered EXCEPT ![handler[c].at] = @ + handler[c].n]

(* What a handler read is so, but for the plan and a trial that ended.     *)
Seen(s, now) ==
  /\ s.since = now.since /\ s.item = now.item /\ s.period = now.period
  /\ s.status = now.status \/ (s.status = "trialing" /\ now.status = "active")

HooksHeld ==
  \A c \in Calls : handler[c].pc = "hook" =>
    /\ handler[c].e \in DOMAIN event
    /\ ~handler[c].late => Seen(handler[c].saw, sub)

(* The last event says what Stripe says, and none speaks of a trial.       *)
StatusHeld ==
  /\ event # <<>> => event[Len(event)].kind = "subscription" /\ event[Len(event)].status = stripe
  /\ \A e \in DOMAIN event : event[e].status # "trialing"
  /\ B!StatusFollowsStripe

(* The stamp is that of the spell, and there is none outside a spell.      *)
GraceHeld ==
  why \cap {"overlap", "checkout"} = {} =>
    IF sub.status = "past_due" THEN sub.since = spell /\ sub.since # 0 ELSE sub.since = 0

(* What holds of a subscription, its events, its usage and its handlers.   *)
BillsInv ==
  /\ B!TypeOK /\ QuotaHeld /\ ReportHeld /\ HooksHeld
  /\ StatusHeld /\ GraceHeld /\ B!PaymentsInvoiced

-----------------------------------------------------------------------------
(* A row of the free plan, a handler that is not there.                    *)
LEMMA NoHandlerType ==
  ASSUME B!BillingAssumption
  PROVE  /\ B!FreeSub \in B!SubType /\ B!FreeSub.since = 0 /\ B!FreeSub.status = "trialing"
         /\ B!ProSub \in B!SubType /\ B!ProSub.since = 0 /\ B!ProSub.status = "active"
         /\ B!NoCall \in B!CallType /\ B!NoCall.pc = "idle" /\ ~B!NoCall.late
         /\ 1 \in B!Periods
<1>1. 1 \in B!Periods /\ 0 \in 0 .. MaxEvents
  BY DEF B!BillingAssumption, B!Periods
<1>2. B!FreeSub \in B!SubType /\ B!FreeSub.since = 0 /\ B!FreeSub.status = "trialing"
  BY <1>1 DEF B!FreeSub, B!SubType, B!Statuses
<1>3. B!ProSub \in B!SubType /\ B!ProSub.since = 0 /\ B!ProSub.status = "active"
  BY <1>2 DEF B!ProSub, B!SubType, B!Statuses
<1>4. B!NoCall \in B!CallType /\ B!NoCall.pc = "idle" /\ ~B!NoCall.late
  BY <1>1, <1>2 DEF B!NoCall, B!CallType, B!Pcs
<1> QED BY <1>1, <1>2, <1>3, <1>4

(* What a handler is after another of these kinds committed.               *)
Behind(k, q, pcs) ==
  /\ k.pc \notin pcs => q = k
  /\ k.pc \in pcs => q.pc = k.pc /\ q.e = k.e /\ q.saw = k.saw /\ q.at = k.at /\ q.late

(* A handler ends; those of its kind are overtaken.                        *)
LEMMA HandlerEnds ==
  ASSUME B!BillingAssumption, handler \in [Calls -> B!CallType], NEW c \in Calls, NEW pcs,
         handler' = [B!Overtake(pcs) EXCEPT ![c] = B!NoCall]
  PROVE  /\ handler' \in [Calls -> B!CallType]
         /\ handler'[c].pc = "idle"
         /\ \A d \in Calls \ {c} : Behind(handler[d], handler'[d], pcs)
<1> DEFINE o == B!Overtake(pcs)
<1>1. ASSUME NEW d \in Calls
      PROVE  o[d] \in B!CallType /\ Behind(handler[d], o[d], pcs)
  <2>1. handler[d] \in B!CallType
    OBVIOUS
  <2>2. CASE handler[d].pc \in pcs
    <3>1. o[d] = [handler[d] EXCEPT !.late = TRUE]
      BY <2>2 DEF B!Overtake
    <3> QED BY <2>1, <2>2, <3>1 DEF Behind, B!CallType
  <2>3. CASE handler[d].pc \notin pcs
    <3>1. o[d] = handler[d]
      BY <2>3 DEF B!Overtake
    <3> QED BY <2>1, <2>3, <3>1 DEF Behind
  <2> QED BY <2>2, <2>3
<1>2. o = [d \in Calls |-> o[d]]
  BY DEF B!Overtake
<1>3. o \in [Calls -> B!CallType] /\ \A d \in Calls : Behind(handler[d], o[d], pcs)
  <2> HIDE DEF o
  <2> QED BY <1>1, <1>2, Zenon
<1> HIDE DEF o
<1>4. handler' = [o EXCEPT ![c] = B!NoCall]
  BY DEF o
<1> QED BY <1>3, <1>4, NoHandlerType

(* A handler takes a step of its own.                                      *)
LEMMA HandlerMoves ==
  ASSUME handler \in [Calls -> B!CallType], NEW c \in Calls, NEW k \in B!CallType,
         handler' = [handler EXCEPT ![c] = k]
  PROVE  /\ handler' \in [Calls -> B!CallType]
         /\ handler'[c] = k
         /\ \A d \in Calls \ {c} : handler'[d] = handler[d]
OBVIOUS

-----------------------------------------------------------------------------
(* The parts of the invariant that a step does not touch.                  *)

(* No decision is made, a paid plan stays paid.                            *)
LEMMA QuotaKept ==
  ASSUME QuotaHeld, UNCHANGED <<used, granted, period>>, sub'.plan = "free" => sub.plan = "free",
         \A d \in Calls : handler'[d].pc = "check" <=> handler[d].pc = "check"
  PROVE  QuotaHeld'
<1>1. Checks' = Checks
  BY DEF Checks
<1> QED BY <1>1 DEF QuotaHeld, Fits

(* No report moves.                                                        *)
LEMMA ReportKept ==
  ASSUME ReportHeld, rows' = rows, metered' = metered, billed' = billed, Sound' => Sound,
         \A d \in Calls : handler'[d].pc \in {"report", "record"} => handler'[d] = handler[d],
         Sound' => \A d \in Calls : handler[d].pc = "record" => handler'[d] = handler[d]
  PROVE  ReportHeld'
<1>1. \A c \in Calls : handler'[c].pc \in {"report", "record"} /\ ~handler'[c].late
                        => handler'[c].n + rows'[handler'[c].saw.period] = handler'[c].seen
  BY DEF ReportHeld
<1>2. ASSUME Sound'
      PROVE  /\ \A c \in Calls : handler'[c].pc = "record" => handler'[c].saw.period = handler'[c].at
             /\ rows' = metered'
             /\ (\A c \in Calls : handler'[c].pc # "record") => billed' = metered'
             /\ \A c \in Calls : Sole(c)' /\ ~handler'[c].late =>
                   billed' = [metered' EXCEPT ![handler'[c].at] = @ + handler'[c].n]
  <2>1. Sound /\ \A d \in Calls : handler[d].pc = "record" => handler'[d] = handler[d]
    BY <1>2
  <2>2. \A d \in Calls : handler'[d].pc = "record" <=> handler[d].pc = "record"
    BY <2>1
  <2>3. /\ \A c \in Calls : handler'[c].pc = "record" => handler'[c].saw.period = handler'[c].at
        /\ rows' = metered'
    BY <2>1 DEF ReportHeld
  <2>4. (\A c \in Calls : handler'[c].pc # "record") => billed' = metered'
    BY <2>1, <2>2 DEF ReportHeld
  <2>5. ASSUME NEW c \in Calls, Sole(c)', ~handler'[c].late
        PROVE  billed' = [metered' EXCEPT ![handler'[c].at] = @ + handler'[c].n]
    <3>1. handler'[c] = handler[c] /\ Sole(c)
      BY <2>1, <2>2, <2>5 DEF Sole
    <3>2. billed = [metered EXCEPT ![handler[c].at] = @ + handler[c].n]
      BY <2>1, <2>5, <3>1 DEF ReportHeld
    <3> QED BY <3>1, <3>2
  <2> QED BY <2>3, <2>4, <2>5
<1> QED BY <1>1, <1>2 DEF ReportHeld

(* No handler of an event moves.                                           *)
LEMMA HooksKept ==
  ASSUME HooksHeld, sub' = sub, DOMAIN event \subseteq DOMAIN event',
         \A d \in Calls : handler'[d].pc = "hook" => handler'[d] = handler[d]
  PROVE  HooksHeld'
<1> SUFFICES ASSUME NEW c \in Calls, handler'[c].pc = "hook"
             PROVE  /\ handler'[c].e \in DOMAIN event'
                    /\ ~handler'[c].late => Seen(handler'[c].saw, sub')
  BY DEF HooksHeld
<1>1. handler'[c] = handler[c]
  OBVIOUS
<1>2. handler[c].e \in DOMAIN event /\ (~handler[c].late => Seen(handler[c].saw, sub))
  BY <1>1 DEF HooksHeld
<1> QED BY <1>1, <1>2

-----------------------------------------------------------------------------
(* The variables a step leaves alone, by the part of the invariant.        *)
billsRows == <<market, tagged, granted, stripe, event, sent, acked, sub, trial, invoice, period, used,
               rows, billed, metered, why, spell>>

(* The facts about a list of events that grows.                            *)
LEMMA EventsGrow ==
  ASSUME B!TypeOK, NEW es \in Seq(B!EventType), Len(es) \in 1 .. 2, B!Tell(es)
  PROVE  /\ event' \in Seq(B!EventType) /\ Len(event') <= MaxEvents
         /\ sent' \in [DOMAIN event' -> 0 .. 2]
         /\ Len(event) \in Nat /\ DOMAIN event = 1 .. Len(event)
         /\ Len(event') = Len(event) + Len(es)
         /\ DOMAIN event' = 1 .. Len(event')
         /\ \A e \in DOMAIN event : event'[e] = event[e]
         /\ \A i \in 1 .. Len(es) : event'[Len(event) + i] = es[i]
<1>1. event \in Seq(B!EventType) /\ sent \in [DOMAIN event -> 0 .. 2]
  BY DEF B!TypeOK
<1>2. /\ event' = event \o es /\ Len(event) + Len(es) <= MaxEvents
      /\ sent' = [e \in DOMAIN event' |-> IF e \in DOMAIN event THEN sent[e] ELSE 0]
  BY DEF B!Tell
<1>3. /\ event' \in Seq(B!EventType) /\ Len(event') = Len(event) + Len(es)
      /\ \A i \in 1 .. Len(event) + Len(es) :
           event'[i] = IF i <= Len(event) THEN event[i] ELSE es[i - Len(event)]
      /\ Len(event) \in Nat /\ Len(es) \in Nat
      /\ DOMAIN event = 1 .. Len(event) /\ DOMAIN event' = 1 .. Len(event')
  BY <1>1, <1>2, ConcatProperties
<1>4. sent' \in [DOMAIN event' -> 0 .. 2]
  BY <1>1, <1>2
<1>5. \A e \in DOMAIN event : event'[e] = event[e]
  BY <1>3
<1>6. \A i \in 1 .. Len(es) : event'[Len(event) + i] = es[i]
  <2> TAKE i \in 1 .. Len(es)
  <2>1. /\ Len(event) + i \in 1 .. Len(event) + Len(es) /\ ~(Len(event) + i <= Len(event))
        /\ Len(event) + i - Len(event) = i
    BY <1>3
  <2> QED BY <1>3, <2>1
<1> QED BY <1>2, <1>3, <1>4, <1>5, <1>6

(* Time may pass: nothing was used of a period to come.                    *)
LEMMA NextPeriodQuota ==
  ASSUME B!BillingAssumption, B!TypeOK, QuotaHeld, period' \in B!Periods, period' >= period,
         UNCHANGED <<sub, used, granted, handler>>
  PROVE  QuotaHeld'
<1>1. Checks' = Checks
  BY DEF Checks
<1>2. /\ \A p \in B!Periods : p > period => used[p] = 0
      /\ sub.plan = "free" => /\ \A p \in B!Periods : Fits(used[p], p)
                              /\ Fits(used[period] + Cardinality(Checks), period)
  BY DEF QuotaHeld
<1>3. period \in Nat /\ period' \in Nat /\ \A p \in B!Periods : p \in Nat
  BY DEF B!TypeOK, B!Periods
<1>4. \A p \in B!Periods : p > period' => used[p] = 0
  BY <1>2, <1>3
<1>5. sub.plan = "free" => Fits(used[period'] + Cardinality(Checks), period')
  <2>1. CASE period' = period
    BY <1>2, <2>1
  <2>2. CASE period' # period
    <3>1. used[period'] = 0
      BY <1>2, <1>3, <2>2
    <3>2. IsFiniteSet(Calls)
      BY Zenon DEF B!BillingAssumption, B!IsFiniteSet, IsFiniteSet
    <3>3. Checks \subseteq Calls
      BY DEF Checks
    <3>4. /\ Cardinality(Checks) <= Cardinality(Calls) /\ Cardinality(Calls) \in Nat
          /\ Cardinality(Checks) \in Nat
      BY <3>2, <3>3, FS_Subset, FS_CardinalityType
    <3>5. Included \in Nat \ {0}
      BY DEF B!BillingAssumption
    <3> QED BY <3>1, <3>4, <3>5 DEF Fits
  <2> QED BY <2>1, <2>2
<1> QED BY <1>1, <1>2, <1>4, <1>5 DEF QuotaHeld, Fits

(* Something happens at Stripe, and is told.                               *)
LEMMA ToldStep ==
  ASSUME B!BillingAssumption, BillsInv, NEW es \in Seq(B!EventType), Len(es) \in 1 .. 2, B!Tell(es),
         stripe' \in B!Statuses, \A i \in 1 .. Len(es) : es[i].status # "trialing",
         es[Len(es)].kind = "subscription", es[Len(es)].status = stripe',
         period' \in B!Periods, period' >= period,
         UNCHANGED <<market, tagged, granted, acked, sub, invoice, spell, trial, used, rows, billed, metered,
                     why, handler>>
  PROVE  BillsInv'
<1>1. /\ event' \in Seq(B!EventType) /\ Len(event') <= MaxEvents
      /\ sent' \in [DOMAIN event' -> 0 .. 2]
      /\ Len(event) \in Nat /\ DOMAIN event = 1 .. Len(event)
      /\ Len(event') = Len(event) + Len(es)
      /\ DOMAIN event' = 1 .. Len(event')
      /\ \A e \in DOMAIN event : event'[e] = event[e]
      /\ \A i \in 1 .. Len(es) : event'[Len(event) + i] = es[i]
  BY EventsGrow DEF BillsInv
<1>2. DOMAIN event \subseteq DOMAIN event' /\ acked \subseteq DOMAIN event
  BY <1>1 DEF BillsInv, B!TypeOK
<1>3. B!TypeOK'
  BY <1>1, <1>2 DEF BillsInv, B!TypeOK
<1>4. QuotaHeld'
  BY NextPeriodQuota DEF BillsInv
<1>5. ReportHeld'
  <2>1. ReportHeld /\ (Sound' => Sound)
    BY DEF BillsInv, Sound
  <2> QED BY <2>1, ReportKept
<1>6. HooksHeld'
  BY <1>2, HooksKept DEF BillsInv
<1>7. StatusHeld'
  <2>1. /\ event'[Len(event')] = es[Len(es)]
        /\ \A e \in DOMAIN event' : event'[e].status # "trialing"
    <3>1. Len(es) \in 1 .. Len(es) /\ Len(event) + Len(es) = Len(event')
      <4>1. \A n \in 1 .. 2 : n \in 1 .. n
        OBVIOUS
      <4> QED BY <1>1, <4>1, Zenon
    <3>2. ASSUME NEW e \in DOMAIN event'
          PROVE  event'[e].status # "trialing"
      <4>1. CASE e \in DOMAIN event
        BY <1>1, <4>1 DEF BillsInv, StatusHeld
      <4>2. CASE e \notin DOMAIN event
        <5>1. e - Len(event) \in 1 .. Len(es) /\ e = Len(event) + (e - Len(event))
          BY <1>1, <4>2
        <5>2. event'[e] = es[e - Len(event)]
          BY <1>1, <5>1
        <5> QED BY <5>1, <5>2
      <4> QED BY <4>1, <4>2
    <3>3. event'[Len(event')] = es[Len(es)]
      BY <1>1, <3>1
    <3> QED BY <3>2, <3>3
  <2>2. Len(event') \notin acked
    <3>1. \A n \in 1 .. 2, l \in Nat : l + n \notin 1 .. l
      OBVIOUS
    <3>2. Len(event') \notin DOMAIN event
      BY <1>1, <3>1, Zenon
    <3> QED BY <1>2, <3>2
  <2> QED BY <2>1, <2>2 DEF StatusHeld, B!StatusFollowsStripe
<1>8. GraceHeld'
  BY DEF BillsInv, GraceHeld
<1>9. B!PaymentsInvoiced'
  BY <1>1, <1>2 DEF BillsInv, B!PaymentsInvoiced
<1> QED BY <1>3, <1>4, <1>5, <1>6, <1>7, <1>8, <1>9 DEF BillsInv

(* A customer subscribes, pays or not, cancels; a period begins.           *)
LEMMA StripeStep ==
  ASSUME B!BillingAssumption, BillsInv,
         B!Subscribe \/ B!FailPayment \/ B!Pay \/ B!Cancel \/ B!NewPeriod
  PROVE  BillsInv'
<1>1. /\ period \in B!Periods /\ stripe \in B!Statuses
      /\ \A p \in B!Periods : p >= p /\ p \in Nat
  BY DEF BillsInv, B!TypeOK, B!Periods
<1>2. ASSUME NEW kind \in B!Kinds, NEW status \in B!Statuses \ {"trialing"}, NEW p \in B!Periods
      PROVE  /\ B!Ev(kind, status, p) \in B!EventType /\ B!Ev(kind, status, p).kind = kind
             /\ B!Ev(kind, status, p).status = status
  BY DEF B!Ev, B!EventType
<1>3. /\ {"checkout", "subscription", "failed", "paid"} \subseteq B!Kinds
      /\ {"active", "past_due", "canceled"} \subseteq B!Statuses \ {"trialing"}
  BY DEF B!Kinds, B!Statuses
<1>4. ASSUME NEW a \in B!EventType, NEW b \in B!EventType
      PROVE  /\ <<a, b>> \in Seq(B!EventType) /\ Len(<<a, b>>) = 2
             /\ <<a, b>>[1] = a /\ <<a, b>>[2] = b
             /\ <<b>> \in Seq(B!EventType) /\ Len(<<b>>) = 1 /\ <<b>>[1] = b
  OBVIOUS
<1>5. ASSUME NEW kind \in B!Kinds, NEW status \in B!Statuses \ {"trialing"},
             B!External(status, <<B!Ev(kind, status, period), B!Ev("subscription", status, period)>>)
      PROVE  BillsInv'
  <2> DEFINE a == B!Ev(kind, status, period)
             b == B!Ev("subscription", status, period)
             es == <<a, b>>
  <2>1. /\ a \in B!EventType /\ a.status = status
        /\ b \in B!EventType /\ b.status = status /\ b.kind = "subscription"
    BY <1>1, <1>2, <1>3
  <2>2. /\ stripe' = status /\ B!Tell(es)
        /\ UNCHANGED <<market, tagged, granted, acked, sub, invoice, spell, trial, period, used, rows, billed,
                       metered, why, handler>>
    BY <1>5 DEF B!External, B!usageVars
  <2> HIDE DEF a, b
  <2>3. es \in Seq(B!EventType) /\ Len(es) = 2 /\ es[1] = a /\ es[2] = b
    BY <1>4, <2>1
  <2> HIDE DEF es
  <2>4. /\ Len(es) \in 1 .. 2 /\ \A i \in 1 .. Len(es) : es[i].status # "trialing"
        /\ es[Len(es)].kind = "subscription" /\ es[Len(es)].status = stripe'
        /\ stripe' \in B!Statuses
    BY <2>1, <2>2, <2>3
  <2>5. period' \in B!Periods /\ period' >= period
    BY <1>1, <2>2
  <2> QED BY <2>2, <2>3, <2>4, <2>5, ToldStep
<1>6. ASSUME NEW status \in B!Statuses \ {"trialing"}, NEW p \in B!Periods, p >= period,
             B!Tell(<<B!Ev("subscription", status, p)>>), stripe' = status, period' = p,
             UNCHANGED <<market, tagged, granted, acked, sub, invoice, spell, trial, used, rows, billed,
                         metered, why, handler>>
      PROVE  BillsInv'
  <2> DEFINE b == B!Ev("subscription", status, p)
             es == <<b>>
  <2>1. b \in B!EventType /\ b.status = status /\ b.kind = "subscription"
    BY <1>2, <1>3
  <2> HIDE DEF b
  <2>2. es \in Seq(B!EventType) /\ Len(es) = 1 /\ es[1] = b
    BY <1>4, <2>1
  <2>3. B!Tell(es)
    BY <1>6 DEF b
  <2> HIDE DEF es
  <2>4. /\ Len(es) \in 1 .. 2 /\ \A i \in 1 .. Len(es) : es[i].status # "trialing"
        /\ es[Len(es)].kind = "subscription" /\ es[Len(es)].status = stripe'
        /\ stripe' \in B!Statuses /\ period' \in B!Periods /\ period' >= period
    BY <1>6, <2>1, <2>2
  <2> QED BY <1>6, <2>2, <2>3, <2>4, ToldStep
<1>7. CASE B!Subscribe
  BY <1>3, <1>5, <1>7 DEF B!Subscribe
<1>8. CASE B!FailPayment
  BY <1>3, <1>5, <1>8 DEF B!FailPayment
<1>9. CASE B!Pay
  BY <1>3, <1>5, <1>9 DEF B!Pay
<1>10. CASE B!Cancel
  BY <1>1, <1>3, <1>6, <1>10 DEF B!Cancel, B!External, B!usageVars
<1>11. CASE B!NewPeriod
  <2>1. /\ period' = period + 1 /\ period + 1 \in B!Periods /\ period + 1 >= period
        /\ UNCHANGED <<market, tagged, granted, stripe, acked, sub, invoice, spell, trial, used, rows, billed,
                       metered, why, handler>>
    BY <1>1, <1>11 DEF B!NewPeriod, B!usageVars, B!Periods, B!BillingAssumption
  <2>2. CASE stripe = "active"
    <3>1. B!Tell(<<B!Ev("subscription", "active", period + 1)>>)
      BY <1>11, <2>2 DEF B!NewPeriod
    <3> QED BY <1>3, <1>6, <2>1, <2>2, <3>1
  <2>3. CASE stripe # "active"
    <3>1. UNCHANGED <<event, sent>>
      BY <1>11, <2>3 DEF B!NewPeriod
    <3>2. B!TypeOK'
      BY <2>1, <3>1 DEF BillsInv, B!TypeOK
    <3>3. QuotaHeld'
      BY <2>1, NextPeriodQuota DEF BillsInv
    <3>4. ReportHeld' /\ HooksHeld' /\ StatusHeld' /\ GraceHeld' /\ B!PaymentsInvoiced'
      BY <2>1, <3>1 DEF BillsInv, ReportHeld, Sound, Sole, HooksHeld, StatusHeld, GraceHeld,
                        B!StatusFollowsStripe, B!PaymentsInvoiced
    <3> QED BY <3>2, <3>3, <3>4 DEF BillsInv
  <2> QED BY <2>2, <2>3
<1> QED BY <1>7, <1>8, <1>9, <1>10, <1>11

-----------------------------------------------------------------------------
(* A step that moves no event leaves the subscription as it is explained.  *)
LEMMA SubKept ==
  ASSUME BillsInv, why \subseteq why', UNCHANGED <<tagged, stripe, event, acked, sub, invoice, spell>>,
         \A d \in Calls : handler'[d].pc = "hook" => handler'[d] = handler[d]
  PROVE  HooksHeld' /\ StatusHeld' /\ GraceHeld' /\ B!PaymentsInvoiced'
<1>1. HooksHeld'
  BY HooksKept DEF BillsInv
<1>2. StatusHeld'
  BY DEF BillsInv, StatusHeld, B!StatusFollowsStripe
<1>3. GraceHeld'
  BY DEF BillsInv, GraceHeld
<1>4. B!PaymentsInvoiced'
  BY DEF BillsInv, B!PaymentsInvoiced
<1> QED BY <1>1, <1>2, <1>3, <1>4

(* The calls that are finite.                                              *)
LEMMA CallsFinite ==
  ASSUME B!BillingAssumption
  PROVE  /\ IsFiniteSet(Calls) /\ Cardinality(Calls) \in Nat /\ Cardinality(Calls) >= 1
         /\ \A s \in SUBSET Calls : /\ IsFiniteSet(s) /\ Cardinality(s) \in Nat
                                    /\ Cardinality(s) <= Cardinality(Calls)
         /\ Included \in Nat /\ Included >= 1
<1>1. IsFiniteSet(Calls)
  BY Zenon DEF B!BillingAssumption, B!IsFiniteSet, IsFiniteSet
<1>2. Cardinality(Calls) # 0 /\ Cardinality(Calls) \in Nat
  BY <1>1, FS_EmptySet, FS_CardinalityType DEF B!BillingAssumption
<1>3. \A s \in SUBSET Calls : /\ IsFiniteSet(s) /\ Cardinality(s) \in Nat
                              /\ Cardinality(s) <= Cardinality(Calls)
  BY <1>1, FS_Subset, FS_CardinalityType
<1>4. Included \in Nat /\ Included >= 1
  BY DEF B!BillingAssumption
<1> QED BY <1>1, <1>2, <1>3, <1>4

(* A decision is asked for, made or not, under a plan that is paid or not. *)
LEMMA QuotaStep ==
  ASSUME B!BillingAssumption, BillsInv,
         B!PaidCheck \/ \E c \in Calls : B!CheckRead(c) \/ B!CheckCommit(c)
  PROVE  BillsInv'
<1>1. /\ handler \in [Calls -> B!CallType] /\ used \in [B!Periods -> Nat]
      /\ period \in B!Periods /\ B!Periods \subseteq Nat
  BY DEF BillsInv, B!TypeOK, B!Periods
<1>2. B!NoCall \in B!CallType /\ B!NoCall.pc = "idle"
  BY NoHandlerType
<1>3. ASSUME used' \in [B!Periods -> Nat], handler' \in [Calls -> B!CallType], QuotaHeld',
             \A d \in Calls : /\ handler'[d].pc \in {"hook", "report", "record"} => handler'[d] = handler[d]
                              /\ handler[d].pc = "record" => handler'[d] = handler[d],
             UNCHANGED <<market, tagged, granted, stripe, event, sent, acked, sub, trial, invoice, period, rows,
                         billed, metered, why, spell>>
      PROVE  BillsInv'
  <2>1. B!TypeOK'
    BY <1>3 DEF BillsInv, B!TypeOK
  <2>2. ReportHeld'
    <3>1. ReportHeld /\ (Sound' => Sound)
      BY <1>3 DEF BillsInv, Sound
    <3> QED BY <1>3, <3>1, ReportKept
  <2>3. HooksHeld' /\ StatusHeld' /\ GraceHeld' /\ B!PaymentsInvoiced'
    BY <1>3, SubKept
  <2> QED BY <1>3, <2>1, <2>2, <2>3 DEF BillsInv
<1>4. ASSUME B!PaidCheck PROVE BillsInv'
  <2>1. /\ used' = [used EXCEPT ![period] = @ + 1] /\ handler' = handler /\ sub.plan # "free"
        /\ UNCHANGED <<market, tagged, granted, stripe, event, sent, acked, sub, trial, invoice, period, rows,
                       billed, metered, why, spell>>
    BY <1>4 DEF B!PaidCheck, B!stripeVars, B!hookVars
  <2>2. used' \in [B!Periods -> Nat]
    BY <1>1, <2>1
  <2>3. QuotaHeld'
    <3>1. \A p \in B!Periods : p > period => p # period /\ used'[p] = used[p]
      BY <1>1, <2>1
    <3> QED BY <2>1, <3>1 DEF BillsInv, QuotaHeld
  <2> QED BY <1>1, <1>3, <2>1, <2>2, <2>3
<1>5. ASSUME NEW c \in Calls, B!CheckRead(c) PROVE BillsInv'
  <2> DEFINE k == [B!NoCall EXCEPT !.pc = "check"]
  <2>1. k \in B!CallType /\ k.pc = "check"
    BY <1>2 DEF B!CallType, B!Pcs
  <2>2. /\ handler[c].pc = "idle" /\ (sub.plan = "free" => used[period] < Included)
        /\ handler' = [handler EXCEPT ![c] = k]
        /\ UNCHANGED <<market, tagged, granted, stripe, event, sent, acked, sub, trial, invoice, period, used,
                       rows, billed, metered, why, spell>>
    BY <1>5 DEF B!CheckRead, B!WithinQuota, B!stripeVars, B!hookVars, B!usageVars
  <2> HIDE DEF k
  <2>3. /\ handler' \in [Calls -> B!CallType] /\ handler'[c] = k
        /\ \A d \in Calls \ {c} : handler'[d] = handler[d]
    BY <1>1, <2>1, <2>2, HandlerMoves
  <2>4. QuotaHeld'
    <3> SUFFICES ASSUME sub.plan = "free" PROVE QuotaHeld'
      BY <2>2 DEF BillsInv, QuotaHeld
    <3>1. Checks' \in SUBSET Calls
      BY DEF Checks
    <3>2. Cardinality(Checks') \in Nat /\ Cardinality(Checks') <= Cardinality(Calls)
      BY <3>1, CallsFinite
    <3>3. /\ used[period] \in Nat /\ Included \in Nat /\ used[period] < Included
          /\ Cardinality(Calls) \in Nat
      BY <1>1, <2>2, CallsFinite
    <3>4. used[period] + Cardinality(Checks') <= Included + Cardinality(Calls) - 1
      BY <3>2, <3>3
    <3> QED BY <2>2, <3>4 DEF BillsInv, QuotaHeld, Fits
  <2> QED BY <1>1, <1>3, <2>1, <2>2, <2>3, <2>4
<1>6. ASSUME NEW c \in Calls, B!CheckCommit(c) PROVE BillsInv'
  <2>1. /\ handler[c].pc = "check" /\ handler' = [handler EXCEPT ![c] = B!NoCall]
        /\ used' = [used EXCEPT ![period] = @ + 1] \/ used' = used
        /\ UNCHANGED <<market, tagged, granted, stripe, event, sent, acked, sub, trial, invoice, period,
                       rows, billed, metered, why, spell>>
    BY <1>6 DEF B!CheckCommit, B!stripeVars, B!hookVars
  <2>2. /\ handler' \in [Calls -> B!CallType] /\ handler'[c] = B!NoCall
        /\ \A d \in Calls \ {c} : handler'[d] = handler[d]
    BY <1>1, <1>2, <2>1, HandlerMoves
  <2>3. /\ used' \in [B!Periods -> Nat] /\ used'[period] <= used[period] + 1
        /\ \A p \in B!Periods \ {period} : used'[p] = used[p]
    BY <1>1, <2>1
  <2>4. QuotaHeld'
    <3>1. Checks' = Checks \ {c} /\ c \in Checks /\ Checks \in SUBSET Calls
      BY <1>2, <2>1, <2>2 DEF Checks
    <3>2. IsFiniteSet(Checks) /\ Cardinality(Checks) \in Nat /\ Cardinality(Calls) \in Nat
          /\ Included \in Nat
      BY <3>1, CallsFinite
    <3>3. Cardinality(Checks') = Cardinality(Checks) - 1 /\ Cardinality(Checks') \in Nat
      <4>1. IsFiniteSet(Checks')
        BY <3>1, <3>2, FS_Subset
      <4> QED BY <3>1, <3>2, <4>1, FS_RemoveElement, FS_CardinalityType
    <3>4. \A p \in B!Periods : p > period => used'[p] = 0
      <4>1. \A p \in B!Periods : p > period => p # period /\ used[p] = 0
        BY <1>1 DEF BillsInv, QuotaHeld
      <4> QED BY <2>3, <4>1
    <3>5. ASSUME sub.plan = "free"
          PROVE  /\ \A p \in B!Periods : Fits(used[p], p)
                 /\ Fits(used[period] + Cardinality(Checks), period)
      BY <3>5 DEF BillsInv, QuotaHeld
    <3>6. used[period] \in Nat /\ used'[period] \in Nat /\ granted[period] \in Nat
      BY <1>1, <2>3 DEF BillsInv, B!TypeOK
    <3>7. ASSUME sub.plan = "free"
          PROVE  /\ Fits(used'[period] + Cardinality(Checks'), period)
                 /\ Fits(used'[period], period)
      BY <2>3, <3>2, <3>3, <3>5, <3>6, <3>7 DEF Fits
    <3>8. sub.plan = "free" => \A p \in B!Periods : Fits(used'[p], p)
      BY <2>3, <3>5, <3>7
    <3> QED BY <2>1, <3>4, <3>7, <3>8 DEF QuotaHeld, Fits
  <2> QED BY <1>2, <1>3, <2>1, <2>2, <2>3, <2>4
<1> QED BY <1>4, <1>5, <1>6

-----------------------------------------------------------------------------
(* The nightly report: what a step of it leaves alone.                     *)
LEMMA ReportFrame ==
  ASSUME BillsInv, rows' \in [B!Periods -> Nat], metered' \in [B!Periods -> Nat],
         billed' \in [B!Periods -> 0 .. MaxBilled], handler' \in [Calls -> B!CallType],
         why \subseteq why', why' \subseteq why \cup {"overlap", "stale", "crash"},
         \A d \in Calls : /\ handler'[d].pc = "hook" => handler'[d] = handler[d]
                          /\ handler'[d].pc = "check" <=> handler[d].pc = "check",
         UNCHANGED <<market, tagged, granted, stripe, event, sent, acked, sub, trial, invoice, period, used, spell>>
  PROVE  B!TypeOK' /\ QuotaHeld' /\ HooksHeld' /\ StatusHeld' /\ GraceHeld' /\ B!PaymentsInvoiced'
<1>1. B!TypeOK'
  BY DEF BillsInv, B!TypeOK
<1>2. QuotaHeld'
  BY QuotaKept DEF BillsInv
<1>3. HooksHeld' /\ StatusHeld' /\ GraceHeld' /\ B!PaymentsInvoiced'
  BY SubKept
<1> QED BY <1>1, <1>2, <1>3

(* A report begins, and tells Stripe.                                      *)
LEMMA ReportBegins ==
  ASSUME B!BillingAssumption, BillsInv, NEW c \in Calls, B!JobRead(c)
  PROVE  BillsInv'
<1> DEFINE p == sub.period
           k == [B!NoCall EXCEPT !.pc = "report", !.saw = sub, !.at = period,
                                 !.n = used[p] - rows[p], !.seen = used[p]]
<1>1. /\ handler \in [Calls -> B!CallType] /\ used \in [B!Periods -> Nat]
      /\ rows \in [B!Periods -> Nat] /\ metered \in [B!Periods -> Nat]
      /\ billed \in [B!Periods -> 0 .. MaxBilled]
      /\ period \in B!Periods /\ sub \in B!SubType /\ p \in B!Periods
  BY DEF BillsInv, B!TypeOK, B!SubType
<1>2. /\ handler[c].pc = "idle" /\ used[p] > rows[p] /\ handler' = [handler EXCEPT ![c] = k]
      /\ UNCHANGED <<market, tagged, granted, stripe, event, sent, acked, sub, trial, invoice, period, used,
                     rows, billed, metered, why, spell>>
  BY DEF B!JobRead, B!Reported, B!stripeVars, B!hookVars, B!usageVars
<1>3. used[p] \in Nat /\ rows[p] \in Nat /\ used[p] - rows[p] \in Nat
  BY <1>1, <1>2
<1> HIDE DEF p
<1>4. /\ k \in B!CallType /\ k.pc = "report" /\ k.saw = sub /\ k.at = period
      /\ k.n = used[p] - rows[p] /\ k.seen = used[p] /\ ~k.late
  BY <1>1, <1>3, NoHandlerType DEF B!CallType, B!Pcs
<1> HIDE DEF k
<1>5. /\ handler' \in [Calls -> B!CallType] /\ handler'[c] = k
      /\ \A d \in Calls \ {c} : handler'[d] = handler[d]
  BY <1>1, <1>2, <1>4, HandlerMoves
<1>6. \A d \in Calls : handler'[d].pc = "record" <=> handler[d].pc = "record"
  BY <1>2, <1>4, <1>5
<1>7. ReportHeld'
  <2>1. k.n + rows[k.saw.period] = k.seen
    BY <1>3, <1>4 DEF p
  <2>2. \A d \in Calls : handler'[d].pc \in {"report", "record"} /\ ~handler'[d].late
                          => handler'[d].n + rows'[handler'[d].saw.period] = handler'[d].seen
    BY <1>2, <1>5, <2>1 DEF BillsInv, ReportHeld
  <2>3. ASSUME Sound'
        PROVE  /\ \A d \in Calls : handler'[d].pc = "record" => handler'[d].saw.period = handler'[d].at
               /\ rows' = metered'
               /\ (\A d \in Calls : handler'[d].pc # "record") => billed' = metered'
               /\ \A d \in Calls : Sole(d)' /\ ~handler'[d].late =>
                    billed' = [metered' EXCEPT ![handler'[d].at] = @ + handler'[d].n]
    <3>1. Sound
      BY <1>2, <2>3 DEF Sound
    <3>2. /\ \A d \in Calls : handler'[d].pc = "record" => handler'[d].saw.period = handler'[d].at
          /\ rows' = metered'
      BY <1>2, <1>4, <1>5, <3>1 DEF BillsInv, ReportHeld
    <3>3. (\A d \in Calls : handler'[d].pc # "record") => billed' = metered'
      BY <1>2, <1>6, <3>1 DEF BillsInv, ReportHeld
    <3>4. ASSUME NEW d \in Calls, Sole(d)', ~handler'[d].late
          PROVE  billed' = [metered' EXCEPT ![handler'[d].at] = @ + handler'[d].n]
      <4>1. Sole(d) /\ handler'[d] = handler[d]
        BY <1>4, <1>5, <1>6, <3>4 DEF Sole
      <4>2. billed = [metered EXCEPT ![handler[d].at] = @ + handler[d].n]
        BY <3>1, <3>4, <4>1 DEF BillsInv, ReportHeld
      <4> QED BY <1>2, <4>1, <4>2
    <3> QED BY <3>2, <3>3, <3>4
  <2> QED BY <2>2, <2>3 DEF ReportHeld
<1>8. \A d \in Calls : /\ handler'[d].pc = "hook" => handler'[d] = handler[d]
                       /\ handler'[d].pc = "check" <=> handler[d].pc = "check"
  BY <1>2, <1>4, <1>5
<1>9. B!TypeOK' /\ QuotaHeld' /\ HooksHeld' /\ StatusHeld' /\ GraceHeld' /\ B!PaymentsInvoiced'
  BY <1>1, <1>2, <1>5, <1>8, ReportFrame
<1> QED BY <1>7, <1>9 DEF BillsInv

(* Stripe counts what a report tells it, or answers with an error.         *)
LEMMA ReportTold ==
  ASSUME B!BillingAssumption, BillsInv, NEW c \in Calls, B!JobReport(c)
  PROVE  BillsInv'
<1> DEFINE k == handler[c]
           q == [handler[c] EXCEPT !.pc = "record"]
<1>1. /\ handler \in [Calls -> B!CallType]
      /\ rows \in [B!Periods -> Nat] /\ metered \in [B!Periods -> Nat]
      /\ billed \in [B!Periods -> 0 .. MaxBilled] /\ MaxBilled \in Nat
      /\ k \in B!CallType /\ why \subseteq {"overlap", "order", "checkout", "stale", "crash"}
      /\ k.at \in B!Periods /\ k.n \in Nat
  BY DEF BillsInv, B!TypeOK, B!BillingAssumption, B!CallType
<1>2. /\ k.pc = "report"
      /\ UNCHANGED <<market, tagged, granted, stripe, event, sent, acked, sub, trial, invoice, period, used,
                     rows, metered, spell>>
  BY DEF B!JobReport, B!stripeVars, B!hookVars
<1>3. CASE billed' = billed /\ why' = why /\ handler' = [handler EXCEPT ![c] = B!NoCall]
  <2>1. B!NoCall \in B!CallType /\ B!NoCall.pc = "idle"
    BY NoHandlerType
  <2>2. /\ handler' \in [Calls -> B!CallType] /\ handler'[c] = B!NoCall
        /\ \A d \in Calls \ {c} : handler'[d] = handler[d]
    BY <1>1, <1>3, <2>1, HandlerMoves
  <2>3. ReportHeld'
    <3>1. ReportHeld /\ (Sound' => Sound)
      BY <1>3 DEF BillsInv, Sound
    <3>2. /\ \A d \in Calls : handler'[d].pc \in {"report", "record"} => handler'[d] = handler[d]
          /\ Sound' => \A d \in Calls : handler[d].pc = "record" => handler'[d] = handler[d]
      BY <1>2, <2>1, <2>2
    <3> QED BY <1>2, <1>3, <3>1, <3>2, ReportKept
  <2>4. \A d \in Calls : /\ handler'[d].pc = "hook" => handler'[d] = handler[d]
                         /\ handler'[d].pc = "check" <=> handler[d].pc = "check"
    BY <1>2, <2>1, <2>2
  <2>5. /\ rows' \in [B!Periods -> Nat] /\ metered' \in [B!Periods -> Nat]
        /\ billed' \in [B!Periods -> 0 .. MaxBilled]
        /\ why \subseteq why' /\ why' \subseteq why \cup {"overlap", "stale", "crash"}
    BY <1>1, <1>2, <1>3
  <2>6. B!TypeOK' /\ QuotaHeld' /\ HooksHeld' /\ StatusHeld' /\ GraceHeld' /\ B!PaymentsInvoiced'
    BY <1>2, <2>2, <2>4, <2>5, ReportFrame
  <2> QED BY <2>3, <2>6 DEF BillsInv
<1>4. CASE /\ billed[k.at] + k.n <= MaxBilled /\ billed' = [billed EXCEPT ![k.at] = @ + k.n]
           /\ why' = why \cup (IF k.saw.period # k.at THEN {"stale"} ELSE {})
           /\ handler' = [handler EXCEPT ![c].pc = "record"]
  <2>1. /\ q \in B!CallType /\ q.pc = "record" /\ q.n = k.n /\ q.at = k.at /\ q.saw = k.saw
        /\ q.seen = k.seen /\ q.late = k.late
    BY <1>1 DEF B!CallType, B!Pcs
  <2>2. handler' = [handler EXCEPT ![c] = q]
    BY <1>1, <1>4
  <2> HIDE DEF k, q
  <2>3. /\ handler' \in [Calls -> B!CallType] /\ handler'[c] = q
        /\ \A d \in Calls \ {c} : handler'[d] = handler[d]
    BY <1>1, <2>1, <2>2, HandlerMoves
  <2>4. billed' \in [B!Periods -> 0 .. MaxBilled]
    <3>1. billed[k.at] \in Nat /\ billed[k.at] + k.n \in 0 .. MaxBilled
      BY <1>1, <1>4
    <3> QED BY <1>1, <1>4, <3>1
  <2>5. ReportHeld'
    <3>1. \A d \in Calls : handler'[d].pc \in {"report", "record"} /\ ~handler'[d].late
                            => handler'[d].n + rows'[handler'[d].saw.period] = handler'[d].seen
      BY <1>2, <2>1, <2>3 DEF BillsInv, ReportHeld, k
    <3>2. ASSUME Sound'
          PROVE  /\ \A d \in Calls : handler'[d].pc = "record" => handler'[d].saw.period = handler'[d].at
                 /\ rows' = metered'
                 /\ (\A d \in Calls : handler'[d].pc # "record") => billed' = metered'
                 /\ \A d \in Calls : Sole(d)' /\ ~handler'[d].late =>
                      billed' = [metered' EXCEPT ![handler'[d].at] = @ + handler'[d].n]
      <4>1. Sound /\ k.saw.period = k.at
        BY <1>4, <3>2 DEF Sound
      <4>2. /\ \A d \in Calls : handler'[d].pc = "record" => handler'[d].saw.period = handler'[d].at
            /\ rows' = metered'
        BY <1>2, <2>1, <2>3, <4>1 DEF BillsInv, ReportHeld
      <4>3. handler'[c].pc = "record"
        BY <2>1, <2>3
      <4>4. ASSUME NEW d \in Calls, Sole(d)', ~handler'[d].late
            PROVE  billed' = [metered' EXCEPT ![handler'[d].at] = @ + handler'[d].n]
        <5>1. d = c /\ \A e \in Calls : handler[e].pc # "record"
          BY <1>2, <2>3, <4>3, <4>4 DEF Sole, k
        <5>2. billed = metered
          BY <4>1, <5>1 DEF BillsInv, ReportHeld
        <5> QED BY <1>2, <1>4, <2>1, <2>3, <5>1, <5>2
      <4> QED BY <4>2, <4>3, <4>4
    <3> QED BY <3>1, <3>2 DEF ReportHeld
  <2>6. \A d \in Calls : /\ handler'[d].pc = "hook" => handler'[d] = handler[d]
                         /\ handler'[d].pc = "check" <=> handler[d].pc = "check"
    BY <1>2, <2>1, <2>3 DEF k
  <2>7. /\ rows' \in [B!Periods -> Nat] /\ metered' \in [B!Periods -> Nat]
        /\ why \subseteq why' /\ why' \subseteq why \cup {"overlap", "stale", "crash"}
    BY <1>1, <1>2, <1>4
  <2>8. B!TypeOK' /\ QuotaHeld' /\ HooksHeld' /\ StatusHeld' /\ GraceHeld' /\ B!PaymentsInvoiced'
    BY <1>2, <2>3, <2>4, <2>6, <2>7, ReportFrame
  <2> QED BY <2>5, <2>8 DEF BillsInv
<1> QED BY <1>3, <1>4 DEF B!JobReport

(* A report commits its row, or dies.                                      *)
LEMMA ReportEnds ==
  ASSUME B!BillingAssumption, BillsInv, NEW c \in Calls, B!JobCommit(c) \/ B!JobCrash(c)
  PROVE  BillsInv'
<1> DEFINE k == handler[c]
           jobs == {"report", "record"}
<1>1. /\ handler \in [Calls -> B!CallType]
      /\ rows \in [B!Periods -> Nat] /\ metered \in [B!Periods -> Nat]
      /\ billed \in [B!Periods -> 0 .. MaxBilled]
      /\ k \in B!CallType /\ k.at \in B!Periods /\ k.n \in Nat /\ k.seen \in Nat
      /\ k.saw.period \in B!Periods
  BY DEF BillsInv, B!TypeOK, B!CallType, B!SubType
<1>2. ASSUME B!JobCommit(c) PROVE BillsInv'
  <2>1. /\ k.pc = "record"
        /\ rows' = [rows EXCEPT ![k.at] = @ + k.n]
        /\ metered' = [metered EXCEPT ![k.saw.period] = k.seen]
        /\ why' = why \cup (IF k.late THEN {"overlap"} ELSE {})
        /\ handler' = [B!Overtake(jobs) EXCEPT ![c] = B!NoCall]
        /\ UNCHANGED <<market, tagged, granted, stripe, event, sent, acked, sub, trial, invoice, period, used,
                       billed, spell>>
    BY <1>2 DEF B!JobCommit, B!stripeVars, B!hookVars
  <2>2. /\ handler' \in [Calls -> B!CallType]
        /\ handler'[c].pc = "idle"
        /\ \A d \in Calls \ {c} : Behind(handler[d], handler'[d], jobs)
    BY <1>1, <2>1, HandlerEnds
  <2> HIDE DEF k
  <2>3. \A d \in Calls : /\ handler'[d].pc = "hook" => handler'[d] = handler[d]
                         /\ handler'[d].pc = "check" <=> handler[d].pc = "check"
                         /\ handler'[d].pc \in jobs => handler'[d].late
                         /\ d # c /\ handler[d].pc = "record" => handler'[d].pc = "record"
    BY <2>1, <2>2 DEF Behind, k
  <2>4. /\ rows' \in [B!Periods -> Nat] /\ metered' \in [B!Periods -> Nat]
        /\ billed' \in [B!Periods -> 0 .. MaxBilled]
        /\ why \subseteq why' /\ why' \subseteq why \cup {"overlap", "stale", "crash"}
    BY <1>1, <2>1
  <2>5. B!TypeOK' /\ QuotaHeld' /\ HooksHeld' /\ StatusHeld' /\ GraceHeld' /\ B!PaymentsInvoiced'
    BY <2>1, <2>2, <2>3, <2>4, ReportFrame
  <2>6. ReportHeld'
    <3>1. ASSUME Sound'
          PROVE  /\ rows' = metered'
                 /\ (\A d \in Calls : handler'[d].pc # "record") => billed' = metered'
                 /\ \A d \in Calls : handler'[d].pc = "record" => handler'[d].saw.period = handler'[d].at
      <4>1. Sound /\ ~k.late
        BY <2>1, <3>1 DEF Sound
      <4>2. /\ k.saw.period = k.at /\ rows = metered /\ k.n + rows[k.at] = k.seen
        BY <2>1, <4>1 DEF BillsInv, ReportHeld, k
      <4>3. rows' = metered'
        <5>1. rows[k.at] + k.n = k.seen
          BY <1>1, <4>2
        <5>2. rows' = [rows EXCEPT ![k.at] = k.seen]
          BY <2>1, <5>1
        <5> QED BY <2>1, <4>2, <5>2
      <4>4. ASSUME \A d \in Calls : handler'[d].pc # "record"
            PROVE  billed' = metered'
        <5>1. Sole(c)
          BY <2>1, <2>3, <4>4 DEF Sole, k
        <5>2. billed = [metered EXCEPT ![k.at] = @ + k.n]
          BY <4>1, <5>1 DEF BillsInv, ReportHeld, k
        <5>3. metered[k.at] + k.n = k.seen
          BY <1>1, <4>2
        <5> QED BY <1>1, <2>1, <4>2, <5>2, <5>3
      <4>5. ASSUME NEW d \in Calls, handler'[d].pc = "record"
            PROVE  handler'[d].saw.period = handler'[d].at
        <5>1. d # c /\ Behind(handler[d], handler'[d], jobs)
          BY <2>2, <4>5
        <5>2. handler[d].pc = "record" /\ handler'[d].saw = handler[d].saw /\ handler'[d].at = handler[d].at
          BY <4>5, <5>1 DEF Behind
        <5> QED BY <4>1, <5>2 DEF BillsInv, ReportHeld
      <4> QED BY <4>3, <4>4, <4>5
    <3> QED BY <2>3, <3>1 DEF ReportHeld, Sole
  <2> QED BY <2>5, <2>6 DEF BillsInv
<1>3. ASSUME B!JobCrash(c) PROVE BillsInv'
  <2>1. /\ k.pc \in jobs /\ why' = IF k.pc = "record" THEN why \cup {"crash"} ELSE why
        /\ handler' = [handler EXCEPT ![c] = B!NoCall]
        /\ UNCHANGED <<market, tagged, granted, stripe, event, sent, acked, sub, trial, invoice, period, used,
                       rows, metered, billed, spell>>
    BY <1>3 DEF B!JobCrash, B!stripeVars, B!hookVars, B!usageVars
  <2>2. B!NoCall \in B!CallType /\ B!NoCall.pc = "idle"
    BY NoHandlerType
  <2>3. /\ handler' \in [Calls -> B!CallType] /\ handler'[c] = B!NoCall
        /\ \A d \in Calls \ {c} : handler'[d] = handler[d]
    BY <1>1, <2>1, <2>2, HandlerMoves
  <2>4. ReportHeld'
    <3>1. ReportHeld /\ (Sound' => Sound /\ k.pc # "record")
      BY <2>1 DEF BillsInv, Sound
    <3>2. /\ \A d \in Calls : handler'[d].pc \in {"report", "record"} => handler'[d] = handler[d]
          /\ Sound' => \A d \in Calls : handler[d].pc = "record" => handler'[d] = handler[d]
      BY <2>2, <2>3, <3>1
    <3> QED BY <2>1, <3>1, <3>2, ReportKept
  <2>5. \A d \in Calls : /\ handler'[d].pc = "hook" => handler'[d] = handler[d]
                         /\ handler'[d].pc = "check" <=> handler[d].pc = "check"
    BY <2>1, <2>2, <2>3
  <2>6. /\ rows' \in [B!Periods -> Nat] /\ metered' \in [B!Periods -> Nat]
        /\ billed' \in [B!Periods -> 0 .. MaxBilled]
        /\ why \subseteq why' /\ why' \subseteq why \cup {"overlap", "stale", "crash"}
    BY <1>1, <2>1
  <2>7. B!TypeOK' /\ QuotaHeld' /\ HooksHeld' /\ StatusHeld' /\ GraceHeld' /\ B!PaymentsInvoiced'
    BY <2>1, <2>3, <2>5, <2>6, ReportFrame
  <2> QED BY <2>4, <2>7 DEF BillsInv
<1> QED BY <1>2, <1>3

-----------------------------------------------------------------------------
(* The end of a trial is looked for; an event is received.                 *)
LEMMA TrialAndReadStep ==
  ASSUME B!BillingAssumption, BillsInv, NEW c \in Calls,
         B!TrialRead(c) \/ B!TrialCommit(c) \/ B!Deliver(c)
  PROVE  BillsInv'
<1>1. /\ handler \in [Calls -> B!CallType] /\ sub \in B!SubType
      /\ event \in Seq(B!EventType) /\ Len(event) \in Nat /\ DOMAIN event = 1 .. Len(event)
      /\ sent \in [DOMAIN event -> 0 .. 2] /\ acked \subseteq DOMAIN event /\ Len(event) <= MaxEvents
      /\ MaxEvents \in Nat
  BY DEF BillsInv, B!TypeOK, B!BillingAssumption
<1>2. B!NoCall \in B!CallType /\ B!NoCall.pc = "idle" /\ ~B!NoCall.late
  BY NoHandlerType
<1>3. ASSUME NEW k \in B!CallType, handler' = [handler EXCEPT ![c] = k],
             handler[c].pc \in {"idle", "trial"},
             k.pc \in {"idle", "trial", "hook"}, k.pc = "hook" => k.e \in DOMAIN event /\ Seen(k.saw, sub'),
             sent' \in [DOMAIN event -> 0 .. 2], trial' \in BOOLEAN,
             sub' = sub \/ /\ sub.plan = "free" /\ sub.status = "trialing"
                           /\ sub' = [sub EXCEPT !.status = "active"],
             UNCHANGED <<market, tagged, granted, stripe, event, acked, invoice, period, used,
                         rows, billed, metered, why, spell>>
      PROVE  BillsInv'
  <2>1. /\ handler' \in [Calls -> B!CallType] /\ handler'[c] = k
        /\ \A d \in Calls \ {c} : handler'[d] = handler[d]
    BY <1>1, <1>3, HandlerMoves
  <2>2. /\ sub' \in B!SubType /\ sub'.plan = sub.plan /\ sub'.since = sub.since
        /\ sub'.item = sub.item /\ sub'.period = sub.period
        /\ \/ sub'.status = sub.status
           \/ sub.status = "trialing" /\ sub'.status = "active"
    BY <1>1, <1>3 DEF B!SubType, B!Statuses
  <2>3. B!TypeOK'
    BY <1>3, <2>1, <2>2 DEF BillsInv, B!TypeOK
  <2>4. QuotaHeld'
    <3>1. \A d \in Calls : handler'[d].pc = "check" <=> handler[d].pc = "check"
      BY <1>3, <2>1
    <3>2. QuotaHeld /\ UNCHANGED <<used, granted, period>> /\ (sub'.plan = "free" => sub.plan = "free")
      BY <1>3, <2>2 DEF BillsInv
    <3> QED BY <3>1, <3>2, QuotaKept
  <2>5. ReportHeld'
    <3>1. ReportHeld /\ (Sound' => Sound)
      BY <1>3 DEF BillsInv, Sound
    <3>2. /\ \A d \in Calls : handler'[d].pc \in {"report", "record"} => handler'[d] = handler[d]
          /\ Sound' => \A d \in Calls : handler[d].pc = "record" => handler'[d] = handler[d]
      BY <1>3, <2>1
    <3> QED BY <1>3, <3>1, <3>2, ReportKept
  <2>6. HooksHeld'
    <3> SUFFICES ASSUME NEW d \in Calls, handler'[d].pc = "hook"
                 PROVE  /\ handler'[d].e \in DOMAIN event
                        /\ ~handler'[d].late => Seen(handler'[d].saw, sub')
      BY <1>3 DEF HooksHeld
    <3>1. CASE d = c
      BY <1>3, <2>1, <3>1
    <3>2. CASE d # c
      <4>1. handler'[d] = handler[d]
        BY <2>1, <3>2
      <4>2. handler[d].e \in DOMAIN event /\ (~handler[d].late => Seen(handler[d].saw, sub))
        BY <4>1 DEF BillsInv, HooksHeld
      <4>3. Seen(handler[d].saw, sub) => Seen(handler[d].saw, sub')
        BY <2>2 DEF Seen
      <4> QED BY <4>1, <4>2, <4>3
    <3> QED BY <3>1, <3>2
  <2>7. StatusHeld'
    <3>1. ASSUME tagged, Len(event) \in acked, why \cap {"order", "overlap"} = {}
          PROVE  sub'.status = stripe
      <4>1. sub.status = stripe
        BY <3>1 DEF BillsInv, StatusHeld, B!StatusFollowsStripe
      <4>2. stripe # "trialing"
        BY <1>1, <3>1 DEF BillsInv, StatusHeld
      <4> QED BY <2>2, <4>1, <4>2
    <3> QED BY <1>3, <3>1 DEF BillsInv, StatusHeld, B!StatusFollowsStripe
  <2>8. GraceHeld'
    BY <1>3, <2>2 DEF BillsInv, GraceHeld
  <2>9. B!PaymentsInvoiced'
    BY <1>3 DEF BillsInv, B!PaymentsInvoiced
  <2> QED BY <2>3, <2>4, <2>5, <2>6, <2>7, <2>8, <2>9 DEF BillsInv
<1>4. CASE B!TrialRead(c)
  <2> DEFINE k == [B!NoCall EXCEPT !.pc = "trial"]
  <2>1. k \in B!CallType /\ k.pc = "trial"
    BY <1>2 DEF B!CallType, B!Pcs
  <2>2. /\ handler[c].pc = "idle" /\ handler' = [handler EXCEPT ![c] = k]
        /\ UNCHANGED <<market, tagged, granted, stripe, event, sent, acked, sub, trial, invoice, period, used,
                       rows, billed, metered, why, spell>>
    BY <1>4 DEF B!TrialRead, B!stripeVars, B!hookVars, B!usageVars
  <2> HIDE DEF k
  <2>3. trial' \in BOOLEAN /\ sent' \in [DOMAIN event -> 0 .. 2]
    BY <1>1, <2>2 DEF BillsInv, B!TypeOK
  <2> QED BY <1>3, <2>1, <2>2, <2>3
<1>5. CASE B!TrialCommit(c)
  <2>1. /\ handler[c].pc = "trial" /\ handler' = [handler EXCEPT ![c] = B!NoCall]
        /\ sub' = sub \/ /\ sub.plan = "free" /\ sub.status = "trialing"
                         /\ sub' = [sub EXCEPT !.status = "active"]
        /\ trial' \in BOOLEAN
        /\ UNCHANGED <<market, tagged, granted, stripe, event, sent, acked, invoice, period, used,
                       rows, billed, metered, why, spell>>
    BY <1>5 DEF B!TrialCommit, B!stripeVars, B!usageVars
  <2> QED BY <1>1, <1>2, <1>3, <2>1
<1>6. CASE B!Deliver(c)
  <2>1. PICK e \in DOMAIN event : B!HookRead(c, e)
    BY <1>6 DEF B!Deliver
  <2>2. /\ handler[c].pc = "idle" /\ sent[e] \in {0, 1} /\ sent' = [sent EXCEPT ![e] = @ + 1]
        /\ UNCHANGED <<market, tagged, granted, stripe, event, sub, trial, invoice, period, used,
                       rows, billed, metered, why, spell>>
    BY <2>1 DEF B!HookRead, B!stripeVars, B!usageVars
  <2>3. sent' \in [DOMAIN event -> 0 .. 2] /\ trial' \in BOOLEAN
    BY <1>1, <2>2 DEF BillsInv, B!TypeOK
  <2>4. CASE event[e].kind = "checkout" \/ tagged
    <3> DEFINE k == [B!NoCall EXCEPT !.pc = "hook", !.e = e, !.saw = sub]
    <3>1. k \in B!CallType /\ k.pc = "hook" /\ k.e = e /\ k.saw = sub
      <4>1. e \in 0 .. MaxEvents
        BY <1>1
      <4> QED BY <1>1, <1>2, <4>1 DEF B!CallType, B!Pcs
    <3>2. handler' = [handler EXCEPT ![c] = k] /\ acked' = acked
      BY <2>1, <2>4 DEF B!HookRead
    <3> HIDE DEF k
    <3>3. Seen(k.saw, sub')
      BY <2>2, <3>1 DEF Seen
    <3> QED BY <1>3, <2>2, <2>3, <3>1, <3>2, <3>3
  <2>5. CASE ~(event[e].kind = "checkout" \/ tagged)
    <3>1. handler' = handler /\ acked' = acked \cup {e} /\ ~tagged
      BY <2>1, <2>5 DEF B!HookRead
    <3>2. B!TypeOK'
      BY <2>2, <2>3, <3>1 DEF BillsInv, B!TypeOK
    <3>3. QuotaHeld' /\ ReportHeld' /\ HooksHeld' /\ GraceHeld'
      BY <2>2, <3>1 DEF BillsInv, QuotaHeld, Fits, Checks, ReportHeld, Sound, Sole, HooksHeld,
                        GraceHeld
    <3>4. StatusHeld' /\ B!PaymentsInvoiced'
      BY <2>2, <3>1 DEF BillsInv, StatusHeld, B!StatusFollowsStripe, B!PaymentsInvoiced
    <3> QED BY <3>2, <3>3, <3>4 DEF BillsInv
  <2> QED BY <2>4, <2>5
<1> QED BY <1>4, <1>5, <1>6

-----------------------------------------------------------------------------
(* What a handler makes of the subscription it read.                       *)
LEMMA Applied ==
  ASSUME B!BillingAssumption, B!TypeOK, NEW s \in B!SubType, NEW e \in DOMAIN event
  PROVE  /\ B!Apply(s, e) \in B!SubType
         /\ B!Apply(s, e).plan \in {s.plan, "pro"}
         /\ event[e].kind = "checkout" => /\ B!Apply(s, e).status = "active"
                                          /\ B!Apply(s, e).since = s.since
         /\ event[e].kind = "subscription" =>
              /\ B!Apply(s, e).status = event[e].status
              /\ B!Apply(s, e).since = IF event[e].status = "past_due"
                                       THEN (IF s.since = 0 THEN e ELSE s.since) ELSE 0
         /\ event[e].kind = "paid" =>
              IF s.status = "past_due" THEN B!Apply(s, e).status = "active" /\ B!Apply(s, e).since = 0
              ELSE B!Apply(s, e).status = s.status /\ B!Apply(s, e).since = s.since
         /\ event[e].kind = "failed" =>
              /\ B!Apply(s, e).status = "past_due"
              /\ B!Apply(s, e).since = IF s.since = 0 THEN e ELSE s.since
<1> DEFINE v == event[e]
           a == B!Apply(s, e)
<1>1. v \in B!EventType /\ e \in 1 .. MaxEvents
  BY DEF B!TypeOK, B!BillingAssumption
<1>2. /\ v.kind \in {"checkout", "subscription", "paid", "failed"}
      /\ v.status \in B!Statuses /\ v.period \in B!Periods
      /\ {"active", "past_due"} \subseteq B!Statuses /\ e \in 0 .. MaxEvents /\ 0 \in 0 .. MaxEvents
  <2>1. v.kind \in B!Kinds /\ v.status \in B!Statuses /\ v.period \in B!Periods
    BY <1>1 DEF B!EventType
  <2>2. e \in 0 .. MaxEvents /\ 0 \in 0 .. MaxEvents
    BY <1>1 DEF B!BillingAssumption
  <2> HIDE DEF v
  <2> QED BY <2>1, <2>2 DEF B!Kinds, B!Statuses
<1>3. CASE v.kind = "checkout"
  <2>1. a = [s EXCEPT !.plan = "pro", !.status = "active"]
    BY <1>3 DEF B!Apply
  <2> QED BY <1>2, <1>3, <2>1 DEF B!SubType
<1>4. CASE v.kind = "subscription"
  <2> DEFINE since == IF v.status = "past_due" THEN (IF s.since = 0 THEN e ELSE s.since) ELSE 0
  <2>1. a = [s EXCEPT !.status = v.status, !.period = v.period, !.item = TRUE, !.since = since]
    BY <1>4 DEF B!Apply
  <2>2. since \in 0 .. MaxEvents
    BY <1>2 DEF B!SubType
  <2> HIDE DEF since
  <2>3. a \in B!SubType /\ a.plan = s.plan /\ a.status = v.status /\ a.since = since
    BY <1>2, <2>1, <2>2 DEF B!SubType
  <2> QED BY <1>4, <2>3 DEF since
<1>5. CASE v.kind = "paid"
  <2>1. a = IF s.status = "past_due" THEN [s EXCEPT !.status = "active", !.since = 0] ELSE s
    BY <1>5 DEF B!Apply
  <2> QED BY <1>2, <1>5, <2>1 DEF B!SubType
<1>6. CASE v.kind = "failed"
  <2> DEFINE since == IF s.since = 0 THEN e ELSE s.since
  <2>1. a = [s EXCEPT !.status = "past_due", !.since = since]
    BY <1>6 DEF B!Apply
  <2>2. since \in 0 .. MaxEvents
    BY <1>2 DEF B!SubType
  <2> HIDE DEF since
  <2>3. a \in B!SubType /\ a.plan = s.plan /\ a.status = "past_due" /\ a.since = since
    BY <1>2, <2>1, <2>2 DEF B!SubType
  <2> QED BY <1>6, <2>3 DEF since
<1> QED BY <1>2, <1>3, <1>4, <1>5, <1>6

(* What the session writes of it.                                          *)
LEMMA Merged ==
  ASSUME sub \in B!SubType, NEW new \in B!SubType, NEW saw \in B!SubType
  PROVE  /\ B!Merge(new, saw) \in B!SubType
         /\ B!Merge(new, saw).plan = IF new.plan # saw.plan THEN new.plan ELSE sub.plan
         /\ B!Merge(new, saw).status = IF new.status # saw.status THEN new.status ELSE sub.status
         /\ B!Merge(new, saw).since = IF new.since # saw.since THEN new.since ELSE sub.since
BY DEF B!Merge, B!Column, B!SubType

(* An event is applied, and its transaction commits.                       *)
LEMMA HookApplied ==
  ASSUME B!BillingAssumption, BillsInv, NEW c \in Calls, handler[c].pc = "hook",
         sub' = B!Merge(B!Apply(handler[c].saw, handler[c].e), handler[c].saw),
         invoice' = IF event[handler[c].e].kind = "paid" THEN invoice \cup {handler[c].e} ELSE invoice,
         spell' = IF sub'.status = "past_due" /\ sub.status # "past_due" THEN handler[c].e ELSE spell,
         why' = why \cup B!Mishap(handler[c]), acked' = acked \cup {handler[c].e},
         handler' = [B!Overtake({"hook"}) EXCEPT ![c] = B!NoCall],
         UNCHANGED <<market, tagged, granted, stripe, event, sent, trial, period, used, rows, billed, metered>>
  PROVE  BillsInv'
<1> DEFINE k == handler[c]
           saw == k.saw
           a == B!Apply(saw, k.e)
           v == event[k.e]
<1>1. /\ handler \in [Calls -> B!CallType] /\ sub \in B!SubType /\ saw \in B!SubType
      /\ event \in Seq(B!EventType) /\ Len(event) \in Nat /\ DOMAIN event = 1 .. Len(event)
      /\ acked \subseteq DOMAIN event /\ Len(event) <= MaxEvents /\ MaxEvents \in Nat
      /\ invoice \subseteq DOMAIN event /\ spell \in 0 .. MaxEvents
      /\ k.late \in BOOLEAN
  <2>1. /\ handler \in [Calls -> B!CallType] /\ sub \in B!SubType
        /\ event \in Seq(B!EventType) /\ acked \subseteq DOMAIN event /\ Len(event) <= MaxEvents
        /\ invoice \subseteq DOMAIN event /\ spell \in 0 .. MaxEvents
    BY DEF BillsInv, B!TypeOK
  <2>2. saw \in B!SubType /\ k.late \in BOOLEAN
    <3>1. k \in B!CallType
      BY <2>1
    <3> QED BY <3>1 DEF B!CallType
  <2>3. Len(event) \in Nat /\ DOMAIN event = 1 .. Len(event)
    BY <2>1
  <2> QED BY <2>1, <2>2, <2>3 DEF B!BillingAssumption
<1>2. /\ k.e \in DOMAIN event /\ (~k.late => Seen(saw, sub))
      /\ k.e \in 1 .. MaxEvents
  <2>1. k.e \in DOMAIN event /\ (~k.late => Seen(saw, sub))
    BY DEF BillsInv, HooksHeld
  <2> QED BY <1>1, <2>1
<1>3. /\ a \in B!SubType
      /\ a.plan \in {saw.plan, "pro"}
      /\ v.kind = "checkout" => /\ a.status = "active"
                                /\ a.since = saw.since
      /\ v.kind = "subscription" =>
           /\ a.status = v.status
           /\ a.since = IF v.status = "past_due"
                        THEN (IF saw.since = 0 THEN k.e ELSE saw.since) ELSE 0
      /\ v.kind = "paid" =>
           IF saw.status = "past_due" THEN a.status = "active" /\ a.since = 0
           ELSE a.status = saw.status /\ a.since = saw.since
      /\ v.kind = "failed" =>
           /\ a.status = "past_due"
           /\ a.since = IF saw.since = 0 THEN k.e ELSE saw.since
  BY <1>1, <1>2, Applied DEF BillsInv
<1>4. /\ sub' \in B!SubType
      /\ sub'.plan = IF a.plan # saw.plan THEN a.plan ELSE sub.plan
      /\ sub'.status = IF a.status # saw.status THEN a.status ELSE sub.status
      /\ sub'.since = IF a.since # saw.since THEN a.since ELSE sub.since
  BY <1>1, <1>3, Merged
<1>5. /\ handler' \in [Calls -> B!CallType]
      /\ handler'[c].pc = "idle"
      /\ \A d \in Calls \ {c} : Behind(handler[d], handler'[d], {"hook"})
  BY <1>1, HandlerEnds
<1>6. /\ why \subseteq why' /\ why' \subseteq why \cup {"overlap", "order", "checkout"}
      /\ "overlap" \notin why' => ~k.late
      /\ "order" \notin why' => \A e \in acked : ~(e > k.e)
      /\ "checkout" \notin why' => ~(v.kind = "checkout" /\ sub.since # 0)
  BY DEF B!Mishap
<1>7. v.kind \in {"checkout", "subscription", "paid", "failed"} /\ v.status \in B!Statuses
  <2>1. v \in B!EventType
    BY <1>1, <1>2
  <2> QED BY <2>1 DEF B!EventType, B!Kinds
<1> HIDE DEF saw, a, v
<1>8. B!TypeOK'
  <2>1. invoice' \subseteq DOMAIN event /\ acked' \subseteq DOMAIN event /\ spell' \in 0 .. MaxEvents
    BY <1>1, <1>2
  <2> QED BY <1>4, <1>5, <1>6, <2>1 DEF BillsInv, B!TypeOK
<1>9. QuotaHeld'
  <2>1. \A d \in Calls : handler'[d].pc = "check" <=> handler[d].pc = "check"
    BY <1>5 DEF Behind
  <2>2. QuotaHeld /\ (sub'.plan = "free" => sub.plan = "free")
    BY <1>3, <1>4 DEF BillsInv
  <2> QED BY <2>1, <2>2, QuotaKept
<1>10. ReportHeld'
  <2>1. ReportHeld /\ (Sound' => Sound)
    BY <1>6 DEF BillsInv, Sound
  <2>2. /\ \A d \in Calls : handler'[d].pc \in {"report", "record"} => handler'[d] = handler[d]
        /\ Sound' => \A d \in Calls : handler[d].pc = "record" => handler'[d] = handler[d]
    BY <1>5 DEF Behind
  <2> QED BY <2>1, <2>2, ReportKept
<1>11. HooksHeld'
  <2> SUFFICES ASSUME NEW d \in Calls, handler'[d].pc = "hook"
               PROVE  handler'[d].e \in DOMAIN event /\ handler'[d].late
    BY DEF HooksHeld
  <2>1. Behind(handler[d], handler'[d], {"hook"})
    BY <1>5
  <2>2. handler[d].pc = "hook" /\ handler'[d].e = handler[d].e /\ handler'[d].late
    BY <2>1 DEF Behind
  <2> QED BY <2>2 DEF BillsInv, HooksHeld
<1>12. StatusHeld'
  <2>1. ASSUME tagged, Len(event) \in acked', why' \cap {"order", "overlap"} = {}
        PROVE  sub'.status = stripe
    <3>1. ~k.late /\ Seen(saw, sub) /\ why \cap {"order", "overlap"} = {}
      BY <1>2, <1>6, <2>1
    <3>2. k.e = Len(event)
      <4>1. CASE Len(event) \in acked
        BY <1>1, <1>2, <1>6, <2>1, <4>1
      <4>2. CASE Len(event) \notin acked
        BY <2>1, <4>2
      <4> QED BY <4>1, <4>2
    <3>3. v.kind = "subscription" /\ v.status = stripe /\ v.status # "trialing"
      <4>1. event # <<>>
        BY <1>1, <1>2
      <4> QED BY <1>2, <3>2, <4>1 DEF BillsInv, StatusHeld, v
    <3>4. a.status = stripe
      BY <1>3, <3>3
    <3>5. CASE a.status # saw.status
      BY <1>4, <3>4, <3>5
    <3>6. CASE a.status = saw.status
      BY <1>4, <3>1, <3>3, <3>4, <3>6 DEF Seen
    <3> QED BY <3>5, <3>6
  <2> QED BY <2>1 DEF BillsInv, StatusHeld, B!StatusFollowsStripe
<1>13. GraceHeld'
  <2> SUFFICES ASSUME why' \cap {"overlap", "checkout"} = {}
               PROVE  IF sub'.status = "past_due" THEN sub'.since = spell' /\ sub'.since # 0
                      ELSE sub'.since = 0
    BY DEF GraceHeld
  <2>1. /\ ~k.late /\ Seen(saw, sub) /\ ~(v.kind = "checkout" /\ sub.since # 0)
        /\ why \cap {"overlap", "checkout"} = {}
    BY <1>2, <1>6
  <2>2. IF sub.status = "past_due" THEN sub.since = spell /\ sub.since # 0 ELSE sub.since = 0
    BY <2>1 DEF BillsInv, GraceHeld
  <2>3. saw.since = sub.since /\ (saw.status = sub.status \/ (saw.status = "trialing" /\ sub.status = "active"))
    BY <2>1 DEF Seen
  <2>4. k.e # 0 /\ spell' = IF sub'.status = "past_due" /\ sub.status # "past_due" THEN k.e ELSE spell
    BY <1>2
  <2> HIDE DEF k
  <2>5. CASE v.kind = "checkout"
    BY <1>3, <1>4, <2>1, <2>2, <2>3, <2>4, <2>5
  <2>6. CASE v.kind = "subscription"
    BY <1>3, <1>4, <2>2, <2>3, <2>4, <2>6
  <2>7. CASE v.kind = "paid"
    BY <1>3, <1>4, <2>2, <2>3, <2>4, <2>7
  <2>8. CASE v.kind = "failed"
    BY <1>3, <1>4, <2>2, <2>3, <2>4, <2>8
  <2> QED BY <1>7, <2>5, <2>6, <2>7, <2>8
<1>14. B!PaymentsInvoiced'
  BY DEF BillsInv, B!PaymentsInvoiced
<1> QED BY <1>8, <1>9, <1>10, <1>11, <1>12, <1>13, <1>14 DEF BillsInv

(* The handler of an event ends: applied, or refused as a second invoice.  *)
LEMMA HookStep ==
  ASSUME B!BillingAssumption, BillsInv, NEW c \in Calls, B!HookCommit(c)
  PROVE  BillsInv'
<1> DEFINE k == handler[c]
<1>1. /\ handler \in [Calls -> B!CallType] /\ k.pc = "hook"
      /\ UNCHANGED <<market, tagged, granted, stripe, event, sent, trial, period, used, rows, billed, metered>>
  BY DEF BillsInv, B!TypeOK, B!HookCommit, B!stripeVars, B!usageVars
<1>2. CASE event[k.e].kind = "paid" /\ k.e \in invoice
  <2>1. /\ handler' = [handler EXCEPT ![c] = B!NoCall]
        /\ UNCHANGED <<sub, invoice, spell, why, acked>>
    BY <1>2 DEF B!HookCommit
  <2>2. B!NoCall \in B!CallType /\ B!NoCall.pc = "idle"
    BY NoHandlerType
  <2>3. /\ handler' \in [Calls -> B!CallType] /\ handler'[c] = B!NoCall
        /\ \A d \in Calls \ {c} : handler'[d] = handler[d]
    BY <1>1, <2>1, <2>2, HandlerMoves
  <2>4. B!TypeOK'
    BY <1>1, <2>1, <2>3 DEF BillsInv, B!TypeOK
  <2>5. QuotaHeld'
    <3>1. \A d \in Calls : handler'[d].pc = "check" <=> handler[d].pc = "check"
      BY <1>1, <2>2, <2>3
    <3>2. QuotaHeld /\ sub' = sub
      BY <2>1 DEF BillsInv
    <3> QED BY <1>1, <3>1, <3>2, QuotaKept
  <2>6. ReportHeld'
    <3>1. ReportHeld /\ (Sound' => Sound)
      BY <2>1 DEF BillsInv, Sound
    <3>2. /\ \A d \in Calls : handler'[d].pc \in {"report", "record"} => handler'[d] = handler[d]
          /\ Sound' => \A d \in Calls : handler[d].pc = "record" => handler'[d] = handler[d]
      BY <1>1, <2>2, <2>3
    <3> QED BY <1>1, <3>1, <3>2, ReportKept
  <2>7. HooksHeld' /\ StatusHeld' /\ GraceHeld' /\ B!PaymentsInvoiced'
    <3>1. \A d \in Calls : handler'[d].pc = "hook" => handler'[d] = handler[d]
      BY <2>2, <2>3
    <3> QED BY <1>1, <2>1, <3>1, SubKept
  <2> QED BY <2>4, <2>5, <2>6, <2>7 DEF BillsInv
<1>3. CASE ~(event[k.e].kind = "paid" /\ k.e \in invoice)
  BY <1>1, <1>3, HookApplied DEF B!HookCommit
<1> QED BY <1>2, <1>3

(* A superadmin sets the plan.                                             *)
LEMMA SetPlanStep ==
  ASSUME B!BillingAssumption, BillsInv, NEW plan1 \in {"free", "pro"}, B!SetPlan(plan1)
  PROVE  BillsInv'
<1>1. /\ sub \in B!SubType /\ used \in [B!Periods -> Nat] /\ granted \in [B!Periods -> Nat]
      /\ period \in B!Periods
  BY DEF BillsInv, B!TypeOK
<1>2. /\ sub.plan # plan1 /\ sub' = [sub EXCEPT !.plan = plan1]
      /\ granted' = IF plan1 = "free"
                    THEN [q \in B!Periods |-> used[q] + B!Cardinality(B!Checking)] ELSE granted
      /\ UNCHANGED <<market, tagged, stripe, event, sent, acked, invoice, spell, trial, period,
                     used, rows, billed, metered, why, handler>>
  BY DEF B!SetPlan, B!stripeVars, B!usageVars
<1>3. /\ sub' \in B!SubType /\ sub'.plan = plan1 /\ sub'.status = sub.status
      /\ sub'.since = sub.since /\ sub'.item = sub.item /\ sub'.period = sub.period
  BY <1>1, <1>2 DEF B!SubType
<1>4. Checks' = Checks /\ Checks \in SUBSET Calls /\ B!Checking = Checks
  BY <1>2 DEF Checks, B!Checking
<1>5. /\ Cardinality(Checks) \in Nat
      /\ granted' = IF plan1 = "free"
                    THEN [q \in B!Periods |-> used[q] + Cardinality(Checks)] ELSE granted
  BY <1>2, <1>4, CallsFinite, SameCardinality
<1>6. granted' \in [B!Periods -> Nat]
  BY <1>1, <1>5
<1>7. B!TypeOK'
  BY <1>2, <1>3, <1>6 DEF BillsInv, B!TypeOK
<1>8. QuotaHeld'
  <2>1. \A p \in B!Periods : p > period => used[p] = 0
    BY DEF BillsInv, QuotaHeld
  <2>2. ASSUME plan1 = "free"
        PROVE  /\ \A p \in B!Periods : used[p] <= granted'[p]
               /\ used[period] + Cardinality(Checks) <= granted'[period]
    BY <1>1, <1>5, <2>2
  <2> QED BY <1>2, <1>3, <1>4, <2>1, <2>2 DEF QuotaHeld, Fits
<1>9. ReportHeld'
  BY <1>2 DEF BillsInv, ReportHeld, Sound, Sole
<1>10. HooksHeld'
  BY <1>2, <1>3 DEF BillsInv, HooksHeld, Seen
<1>11. StatusHeld' /\ GraceHeld' /\ B!PaymentsInvoiced'
  BY <1>2, <1>3 DEF BillsInv, StatusHeld, B!StatusFollowsStripe, GraceHeld, B!PaymentsInvoiced
<1> QED BY <1>7, <1>8, <1>9, <1>10, <1>11 DEF BillsInv

-----------------------------------------------------------------------------
(* Every step of Stripe and of the handlers.                               *)
LEMMA BillsStep ==
  ASSUME B!BillingAssumption, BillsInv, B!Next
  PROVE  BillsInv'
<1>1. CASE B!Subscribe \/ B!FailPayment \/ B!Pay \/ B!Cancel \/ B!NewPeriod
  BY <1>1, StripeStep
<1>2. CASE B!PaidCheck
  BY <1>2, QuotaStep
<1>4. ASSUME NEW p \in {"free", "pro"}, B!SetPlan(p)
      PROVE  BillsInv'
  BY <1>4, SetPlanStep
<1>3. ASSUME NEW c \in Calls, B!Step(c)
      PROVE  BillsInv'
  <2>1. CASE B!Deliver(c) \/ B!TrialRead(c) \/ B!TrialCommit(c)
    BY <2>1, TrialAndReadStep
  <2>2. CASE B!HookCommit(c)
    BY <2>2, HookStep
  <2>3. CASE B!CheckRead(c) \/ B!CheckCommit(c)
    BY <2>3, QuotaStep
  <2>4. CASE B!JobRead(c)
    BY <2>4, ReportBegins
  <2>5. CASE B!JobReport(c)
    BY <2>5, ReportTold
  <2>6. CASE B!JobCommit(c) \/ B!JobCrash(c)
    BY <2>6, ReportEnds
  <2> QED BY <1>3, <2>1, <2>2, <2>3, <2>4, <2>5, <2>6 DEF B!Step
<1> QED BY <1>1, <1>2, <1>3, <1>4 DEF B!Next

(* A customer, before anything is told of it.                              *)
LEMMA BillsInit == B!BillingAssumption /\ B!Init => BillsInv
<1> SUFFICES ASSUME B!BillingAssumption, B!Init PROVE BillsInv
  OBVIOUS
<1>1. /\ B!FreeSub \in B!SubType /\ B!FreeSub.since = 0 /\ B!FreeSub.status = "trialing"
      /\ B!ProSub \in B!SubType /\ B!ProSub.since = 0 /\ B!ProSub.status = "active"
      /\ B!NoCall \in B!CallType /\ B!NoCall.pc = "idle" /\ ~B!NoCall.late
      /\ 1 \in B!Periods
  BY NoHandlerType
<1>2. /\ handler \in [Calls -> B!CallType] /\ \A c \in Calls : handler[c].pc = "idle"
      /\ sub \in B!SubType /\ sub.since = 0 /\ sub.status # "past_due"
  BY <1>1 DEF B!Init
<1>3. /\ event = <<>> /\ Len(<<>>) = 0 /\ DOMAIN event = {} /\ event \in Seq(B!EventType)
      /\ acked = {} /\ invoice = {} /\ why = {} /\ period = 1
      /\ rows = [p \in B!Periods |-> 0] /\ metered = [p \in B!Periods |-> 0]
      /\ billed = [p \in B!Periods |-> 0] /\ used = [p \in B!Periods |-> 0]
      /\ granted = [p \in B!Periods |-> 0]
  BY DEF B!Init
<1>4. B!TypeOK
  <2>1. market \in BillingMixes /\ tagged \in BOOLEAN /\ stripe \in B!Statuses /\ trial \in BOOLEAN
    BY DEF B!Init, B!Statuses
  <2>2. MaxBilled \in Nat /\ MaxEvents \in Nat
    BY DEF B!BillingAssumption
  <2>3. sent \in [DOMAIN event -> 0 .. 2]
    BY DEF B!Init
  <2>4. /\ {used, rows, metered, granted} \subseteq [B!Periods -> Nat]
        /\ billed \in [B!Periods -> 0 .. MaxBilled]
    BY <1>3, <2>2
  <2>5. spell \in 0 .. MaxEvents /\ Len(event) <= MaxEvents
    BY <1>3, <2>2 DEF B!Init
  <2>6. acked \subseteq DOMAIN event /\ invoice \subseteq DOMAIN event
        /\ why \subseteq {"overlap", "order", "checkout", "stale", "crash"}
    BY <1>3
  <2> QED BY <1>1, <1>2, <1>3, <2>1, <2>3, <2>4, <2>5, <2>6 DEF B!TypeOK
<1>5. QuotaHeld
  <2>1. Checks = {}
    BY <1>2 DEF Checks
  <2>2. Cardinality(Checks) = 0
    BY <2>1, FS_EmptySet
  <2>3. Cardinality(Calls) \in Nat /\ Cardinality(Calls) >= 1 /\ Included \in Nat
    BY CallsFinite
  <2>4. 0 <= Included + Cardinality(Calls) - 1
    BY <2>3
  <2>5. used[period] = 0 /\ \A p \in B!Periods : used[p] = 0
    BY <1>1, <1>3
  <2> QED BY <1>1, <1>3, <2>1, <2>2, <2>4, <2>5 DEF QuotaHeld, Fits
<1>6. ReportHeld
  BY <1>2, <1>3 DEF ReportHeld, Sole
<1>7. HooksHeld /\ StatusHeld /\ GraceHeld /\ B!PaymentsInvoiced
  BY <1>2, <1>3 DEF HooksHeld, StatusHeld, GraceHeld, B!StatusFollowsStripe, B!PaymentsInvoiced
<1> QED BY <1>4, <1>5, <1>6, <1>7 DEF BillsInv

(* The invariant of every behaviour.                                       *)
LEMMA BillsInvHolds == Spec => [](part = "billing" => BillsInv)
<1> DEFINE Inv == part = "billing" => BillsInv
<1>1. B!BillingAssumption
  BY AccountsAssumption
<1>2. Init => Inv
  BY <1>1, BillsInit DEF Init
<1>3. Inv /\ [Next]_vars => Inv'
  <2> SUFFICES ASSUME Inv, [Next]_vars, part' = "billing" PROVE BillsInv'
    OBVIOUS
  <2>1. CASE part = "billing" /\ B!Next
    BY <1>1, <2>1, BillsStep
  <2>2. CASE UNCHANGED vars \/ (part = "members" /\ UNCHANGED part)
    <3>1. UNCHANGED vars /\ part = "billing"
      BY <2>2 DEF vars
    <3>2. UNCHANGED <<market, tagged, granted, stripe, event, sent, acked, sub, trial, invoice, period, used,
                      rows, billed, metered, why, spell, handler>>
      BY <3>1 DEF vars, billingVars
    <3> QED BY <3>1, <3>2
         DEF BillsInv, B!TypeOK, QuotaHeld, Fits, Checks, ReportHeld, Sound, Sole, HooksHeld, StatusHeld,
             B!StatusFollowsStripe, GraceHeld, B!PaymentsInvoiced
  <2> QED BY <2>1, <2>2 DEF Next
<1> HIDE DEF Inv
<1>4. Spec => []Inv
  BY <1>2, <1>3, PTL DEF Spec
<1> QED BY <1>4 DEF Inv

(* Quota, reports, status, grace and invoices are as explained always.     *)
THEOREM BillsHold == Spec => []BillsExplained
<1>1. (part = "billing" => BillsInv) => BillsExplained
  <2> SUFFICES ASSUME BillsInv
               PROVE  /\ B!TypeOK /\ B!OverrunBounded /\ B!BilledAsMetered
                      /\ B!StatusFollowsStripe /\ B!GraceIsFresh /\ B!PaymentsInvoiced
    BY DEF BillsExplained
  <2>1. B!OverrunBounded
    BY SameCardinality DEF BillsInv, QuotaHeld, Fits, B!OverrunBounded
  <2>2. B!BilledAsMetered
    BY DEF BillsInv, ReportHeld, Sound, B!BilledAsMetered
  <2>3. B!GraceIsFresh
    BY DEF BillsInv, GraceHeld, B!GraceIsFresh
  <2> QED BY <2>1, <2>2, <2>3 DEF BillsInv, StatusHeld
<1> QED BY <1>1, BillsInvHolds, PTL

(* A step that changes a subscription that is paid for is a handler of an  *)
(* event that commits, or a superadmin's change of the plan.               *)
LEMMA TrialStep == part = "billing" /\ BillsInv /\ B!Next => B!TrialEndsQuietlyStep
<1> SUFFICES ASSUME BillsInv, B!Next, sub.plan = "pro", sub' # sub
             PROVE  \/ \E c \in Calls : handler[c].pc = "hook" /\ handler'[c].pc = "idle"
                    \/ sub' = [sub EXCEPT !.plan = "free"]
  BY DEF B!TrialEndsQuietlyStep
<1>1. /\ handler \in [Calls -> B!CallType] /\ B!BillingAssumption
  BY AccountsAssumption DEF BillsInv, B!TypeOK
<1>2. CASE B!Subscribe \/ B!FailPayment \/ B!Pay \/ B!Cancel \/ B!NewPeriod \/ B!PaidCheck
  BY <1>2 DEF B!Subscribe, B!FailPayment, B!Pay, B!Cancel, B!External, B!NewPeriod, B!PaidCheck,
              B!hookVars
<1>3. ASSUME NEW c \in Calls, B!Step(c)
      PROVE  handler[c].pc = "hook" /\ handler'[c].pc = "idle"
  <2>1. CASE B!Deliver(c)
    BY <2>1 DEF B!Deliver, B!HookRead
  <2>2. CASE B!HookCommit(c)
    <3>1. handler[c].pc = "hook"
      BY <2>2 DEF B!HookCommit
    <3>2. handler' = [B!Overtake({"hook"}) EXCEPT ![c] = B!NoCall]
      BY <2>2 DEF B!HookCommit
    <3>3. handler'[c].pc = "idle"
      BY <1>1, <3>2, HandlerEnds
    <3> QED BY <3>1, <3>3
  <2>3. CASE B!CheckRead(c) \/ B!CheckCommit(c)
    BY <2>3 DEF B!CheckRead, B!CheckCommit, B!hookVars
  <2>4. CASE B!JobRead(c) \/ B!JobReport(c) \/ B!JobCommit(c) \/ B!JobCrash(c)
    BY <2>4 DEF B!JobRead, B!JobReport, B!JobCommit, B!JobCrash, B!hookVars
  <2>5. CASE B!TrialRead(c) \/ B!TrialCommit(c)
    BY <2>5 DEF B!TrialRead, B!TrialCommit, B!hookVars
  <2> QED BY <1>3, <2>1, <2>2, <2>3, <2>4, <2>5 DEF B!Step
<1>4. ASSUME NEW p \in {"free", "pro"}, B!SetPlan(p)
      PROVE  sub' = [sub EXCEPT !.plan = "free"]
  BY <1>4 DEF B!SetPlan
<1> QED BY <1>2, <1>3, <1>4 DEF B!Next

(* Nothing but an event or a superadmin changes a subscription that is     *)
(* paid for.                                                               *)
THEOREM TrialsEndQuietly == Spec => TrialEndsQuietly
<1>1. (part = "billing" => BillsInv) /\ [Next]_vars
      => [part = "billing" => B!TrialEndsQuietlyStep]_vars
  <2> SUFFICES ASSUME part = "billing", BillsInv, Next
               PROVE  B!TrialEndsQuietlyStep
    OBVIOUS
  <2> QED BY TrialStep DEF Next
<1> QED BY <1>1, BillsInvHolds, PTL DEF Spec, TrialEndsQuietly
=============================================================================
