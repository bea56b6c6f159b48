----------------------------- MODULE Membership -----------------------------
(***************************************************************************)
(* One organisation and who belongs to it: seat roles (api/v1/org.py,      *)
(* api/v1/admin.py), invites and the seats of the plan (api/v1/invites.py, *)
(* billing/quota.py), API keys, the scopes of its agent roles              *)
(* (api/v1/roles.py), the name it was registered under, and its deletion.  *)
(*                                                                         *)
(* A handler reads in one step and commits in another, and the commits of  *)
(* other handlers fall between: what it checked may no longer hold.  Only  *)
(* unique indexes and foreign keys are checked by the commit itself; a     *)
(* commit they refuse is an error to the caller and changes nothing.       *)
(***************************************************************************)
EXTENDS Naturals, Sequences, FiniteSets

CONSTANTS Users, Founder, Calls,
          Mixes,                    \* bound: which handlers meet in one behaviour
          Names, Scopes,            \* names of organisations, scopes of an agent role
          Included,                 \* seats_included of the free plan
          MaxInvites, MaxOrgs, MaxKeys      \* bounds on the rows of a table

MembershipAssumption ==
  /\ IsFiniteSet(Users) /\ Founder \in Users /\ Names # {}
  /\ Included \in Nat \ {0} /\ {MaxInvites, MaxOrgs, MaxKeys} \subseteq Nat

VARIABLES mix,
          exists,       \* the organisation's row
          account,      \* the addresses with a row in users
          role,         \* seat_role of a member, by user
          via,          \* history: how the member came in
          excuse,       \* history: what may have left no owner
          plan,         \* of the subscription: free, or paid
          invite,       \* org_invites
          key,          \* api_keys: TRUE until revoked
          names,        \* the names of all organisations, in order of creation
          scopes,       \* role_permissions of one agent role
          asked,        \* history: the scopes last asked for, and by a call overtaken
          call

vars == <<mix, exists, account, role, via, excuse, plan, invite, key, names, scopes, asked, call>>

people == <<account, role, via, excuse>>
rest == <<plan, invite, key, names, scopes, asked>>

(* developer, auditor and member seats have the same rights here.          *)
Seats == {"owner", "admin", "member"}
Ways == {"founder", "invite", "direct", "overlap", "paid"}

Anyone == "anyone"
InviteType == [email : Users \cup {Anyone}, seat : {"admin", "member"}, used : BOOLEAN,
               admitted : SUBSET Users, late : BOOLEAN]

(* late  history: what another call has changed since this one read        *)
Reasons == {"owner", "seat", "invite", "name", "scopes"}
Pcs == {"idle", "change", "remove", "direct", "accept", "register", "scopes", "again", "delete"}
CallType == [pc : Pcs, user : Users, row : 0..MaxInvites, saw : {"none"} \cup Seats,
             want : {"none"} \cup Seats, known : BOOLEAN, name : Names,
             perms : SUBSET Scopes, old : SUBSET Scopes, late : SUBSET Reasons]

NoCall == [pc |-> "idle", user |-> Founder, row |-> 0, saw |-> "none", want |-> "none",
           known |-> TRUE, name |-> CHOOSE n \in Names : TRUE,
           perms |-> {}, old |-> {}, late |-> {}]

Members == {u \in Users : role[u] # "none"}
Owners == {u \in Users : role[u] = "owner"}

(* register: an account, its organisation, the owner's seat, a free plan.  *)
Init ==
  /\ mix \in Mixes
  /\ exists = TRUE
  /\ account \in {A \in SUBSET Users : Founder \in A}
  /\ role = [u \in Users |-> IF u = Founder THEN "owner" ELSE "none"]
  /\ via = [u \in Users |-> "founder"]
  /\ excuse = {} /\ plan = "free"
  /\ invite = <<>> /\ key = <<>> /\ names = <<>>
  /\ scopes = {} /\ asked = [scopes |-> {}, late |-> FALSE]
  /\ call = [c \in Calls |-> NoCall]

-----------------------------------------------------------------------------
Starts(c, handler) == handler \in mix /\ call[c].pc = "idle" /\ exists

Begin(c, k) == call' = [call EXCEPT ![c] = k]

(* Every other call in flight learns what this commit changed.             *)
Overtake(reasons) ==
  [d \in Calls |-> IF call[d].pc = "idle" THEN call[d]
                   ELSE [call[d] EXCEPT !.late = @ \cup reasons]]

Done(c, reasons) == call' = [Overtake(reasons) EXCEPT ![c] = NoCall]

(* An error to the caller: the transaction is rolled back.                 *)
Refused(c) == Done(c, {}) /\ UNCHANGED <<exists, people, rest>>

Lost(u) == IF role[u] = "owner" THEN {"owner"} ELSE {}

Seat(u, r) == role' = [role EXCEPT ![u] = r]

(* An owner's seat is gone: was the last-owner check overtaken?            *)
Excused(c) ==
  excuse' = IF "owner" \in call[c].late THEN excuse \cup {"overlap"} ELSE excuse

-----------------------------------------------------------------------------
(* Cannot demote, or remove, the only owner.                               *)
LastOwner(u) == role[u] = "owner" /\ Cardinality(Owners) <= 1

ChangeRead(c, a, u, r) ==
  /\ Starts(c, "change")
  /\ role[a] \in {"owner", "admin"} /\ a # u /\ role[u] # "none"
  /\ role[a] = "admin" => r # "owner"
  /\ LastOwner(u) => r = "owner"
  /\ Begin(c, [NoCall EXCEPT !.pc = "change", !.user = u, !.saw = role[u], !.want = r])
  /\ UNCHANGED <<mix, exists, people, rest>>

(* The session writes a column whose value it changed, and nothing else.   *)
ChangeCommit(c) ==
  LET k == call[c] IN
  /\ k.pc = "change"
  /\ IF role[k.user] = "none" \/ k.saw = k.want
     THEN Refused(c)
     ELSE /\ Seat(k.user, k.want)
          /\ Done(c, Lost(k.user))
          /\ Excused(c)
          /\ UNCHANGED <<exists, account, via, rest>>
  /\ UNCHANGED mix

RemoveRead(c, a, u) ==
  /\ Starts(c, "change")
  /\ role[a] \in {"owner", "admin"} /\ a # u /\ role[u] # "none"
  /\ ~LastOwner(u)
  /\ Begin(c, [NoCall EXCEPT !.pc = "remove", !.user = u])
  /\ UNCHANGED <<mix, exists, people, rest>>

RemoveCommit(c) ==
  /\ call[c].pc = "remove"
  /\ Seat(call[c].user, "none")
  /\ Done(c, Lost(call[c].user))
  /\ Excused(c)
  /\ UNCHANGED <<mix, exists, account, via, rest>>

(* Superadmins change and remove seats without a look at the other owners. *)
AdminSeat(u, r) ==
  /\ "superadmin" \in mix /\ exists /\ role[u] # "none"
  /\ Seat(u, r)
  /\ call' = Overtake(Lost(u))
  /\ excuse' = excuse \cup {"superadmin"}
  /\ UNCHANGED <<mix, exists, account, via, rest>>

-----------------------------------------------------------------------------
(* Invites and seats.                                                      *)
SetPlan(p) ==
  /\ "plan" \in mix /\ exists /\ plan # p
  /\ plan' = p
  /\ call' = Overtake({"seat"})
  /\ UNCHANGED <<mix, exists, people, invite, key, names, scopes, asked>>

(* Mutant: an invite counts a seat only against the other invites.         *)
SeatFree_OneMore == plan = "free" => Cardinality(Members) <= Included

(* enforce_seat_limit                                                      *)
SeatFree == plan = "free" => Cardinality(Members) < Included

Invite(e, r) ==
  invite' = Append(invite, [email |-> e, seat |-> r, used |-> FALSE,
                            admitted |-> {}, late |-> FALSE])

(* create_invite for an address without an account, or for nobody in       *)
(* particular.                                                             *)
CreateInvite(e) ==
  /\ "invite" \in mix /\ exists /\ Len(invite) < MaxInvites
  /\ \E a \in Users : role[a] \in {"owner", "admin"}
  /\ e \notin account
  /\ Invite(e, "member")
  /\ UNCHANGED <<mix, exists, people, plan, key, names, scopes, asked, call>>

(* A superadmin's invite may name an account, and make an admin.           *)
AdminInvite(e, r) ==
  /\ "superinvite" \in mix /\ exists /\ Len(invite) < MaxInvites
  /\ Invite(e, r)
  /\ UNCHANGED <<mix, exists, people, plan, key, names, scopes, asked, call>>

(* An address with an account becomes a member at once; the seats of the   *)
(* plan are not counted.                                                   *)
DirectRead(c, u) ==
  /\ Starts(c, "direct")
  /\ \E a \in Users : role[a] \in {"owner", "admin"}
  /\ u \in account /\ role[u] = "none"
  /\ Begin(c, [NoCall EXCEPT !.pc = "direct", !.user = u])
  /\ UNCHANGED <<mix, exists, people, rest>>

Joins(u, r, way) ==
  /\ Seat(u, r)
  /\ account' = account \cup {u}
  /\ via' = [via EXCEPT ![u] = way]
  /\ UNCHANGED excuse

(* uq_membership: one seat for one user; and the organisation is there.    *)
DirectCommit(c) ==
  LET u == call[c].user IN
  /\ call[c].pc = "direct"
  /\ IF role[u] # "none" \/ ~exists
     THEN Refused(c)
     ELSE Joins(u, "member", "direct") /\ Done(c, {"seat"}) /\ UNCHANGED <<exists, rest>>
  /\ UNCHANGED mix

(* accept_invite                                                           *)
AcceptRead(c, i, u) ==
  /\ Starts(c, "accept")
  /\ ~invite[i].used
  /\ invite[i].email \in {Anyone, u}
  /\ role[u] = "none" /\ SeatFree
  /\ Begin(c, [NoCall EXCEPT !.pc = "accept", !.user = u, !.row = i, !.known = u \in account])
  /\ UNCHANGED <<mix, exists, people, rest>>

Way(c) == IF plan # "free" THEN "paid"
          ELSE IF "seat" \in call[c].late THEN "overlap" ELSE "invite"

(* invite.used_at                                                          *)
Use(i, u, overlapped) ==
  invite' = [invite EXCEPT ![i].used = TRUE, ![i].admitted = @ \cup {u},
                           ![i].late = @ \/ overlapped]

(* users.email, uq_membership, and the row of the organisation.            *)
AcceptRefused(c) ==
  \/ role[call[c].user] # "none"
  \/ ~call[c].known /\ call[c].user \in account
  \/ ~exists

AcceptCommit(c) ==
  LET k == call[c] IN
  /\ k.pc = "accept"
  /\ IF AcceptRefused(c)
     THEN Refused(c)
     ELSE /\ Joins(k.user, invite[k.row].seat, Way(c))
          /\ Use(k.row, k.user, "invite" \in k.late)
          /\ Done(c, {"seat", "invite"})
          /\ UNCHANGED <<exists, plan, key, names, scopes, asked>>
  /\ UNCHANGED mix

-----------------------------------------------------------------------------
(* API keys.                                                               *)
CreateKey ==
  /\ "keys" \in mix /\ exists /\ Len(key) < MaxKeys
  /\ \E a \in Users : role[a] \in {"owner", "admin"}
  /\ key' = Append(key, TRUE)
  /\ UNCHANGED <<mix, exists, people, plan, invite, names, scopes, asked, call>>

RevokeKey(i) ==
  /\ "keys" \in mix /\ exists /\ key[i]
  /\ \E a \in Users : role[a] \in {"owner", "admin"}
  /\ key' = [key EXCEPT ![i] = FALSE]
  /\ UNCHANGED <<mix, exists, people, plan, invite, names, scopes, asked, call>>

(* rotate_api_keys: one UPDATE over the keys of the organisation.          *)
RotateKeys ==
  /\ "keys" \in mix /\ exists /\ Owners # {}
  /\ key' = [i \in DOMAIN key |-> FALSE]
  /\ UNCHANGED <<mix, exists, people, plan, invite, names, scopes, asked, call>>

-----------------------------------------------------------------------------
(* The rows of an organisation go with it; a seat does not: the session    *)
(* clears organization_id of every seat it finds, and the column refuses.  *)
DeleteRefused == Members # {} \/ ~exists

Delete ==
  /\ exists' = FALSE
  /\ invite' = <<>> /\ key' = <<>>
  /\ UNCHANGED <<people, plan, names, scopes, asked>>

DeleteRead(c) ==
  /\ Starts(c, "delete")
  /\ \E a \in Users : role[a] = "owner"
  /\ Begin(c, [NoCall EXCEPT !.pc = "delete"])
  /\ UNCHANGED <<mix, exists, people, rest>>

DeleteCommit(c) ==
  /\ call[c].pc = "delete"
  /\ IF DeleteRefused THEN Refused(c) ELSE Delete /\ Done(c, {})
  /\ UNCHANGED mix

AdminDelete ==
  /\ "superadmin" \in mix /\ "delete" \in mix /\ ~DeleteRefused
  /\ Delete
  /\ UNCHANGED <<mix, call>>

-----------------------------------------------------------------------------
RegisterRead(c, n) ==
  /\ Starts(c, "names")
  /\ \A i \in DOMAIN names : names[i].name # n
  /\ Begin(c, [NoCall EXCEPT !.pc = "register", !.name = n])
  /\ UNCHANGED <<mix, exists, people, rest>>

RegisterCommit(c) ==
  /\ call[c].pc = "register" /\ Len(names) < MaxOrgs
  /\ names' = Append(names, [name |-> call[c].name, late |-> "name" \in call[c].late])
  /\ Done(c, {"name"})
  /\ UNCHANGED <<mix, exists, people, plan, invite, key, scopes, asked>>

Rename(i, n) ==
  /\ "names" \in mix
  /\ names' = [names EXCEPT ![i] = [name |-> n, late |-> TRUE]]
  /\ call' = Overtake({"name"})
  /\ UNCHANGED <<mix, exists, people, plan, invite, key, scopes, asked>>

-----------------------------------------------------------------------------
(* update_role loads the permission rows of the role, deletes them by id   *)
(* and inserts those asked for.  perms is what is asked for, old the rows  *)
(* loaded that are still there: a row another call put in their place has  *)
(* another id and is not deleted.                                          *)
ScopesRead(c, s) ==
  /\ Starts(c, "roles")
  /\ Begin(c, [NoCall EXCEPT !.pc = "scopes", !.perms = s, !.old = scopes])
  /\ UNCHANGED <<mix, exists, people, rest>>

Replaced(c) == (scopes \ call[c].old) \cup call[c].perms

(* uq_role_scope: a permission asked for is there, in a row that this call *)
(* does not delete.                                                        *)
Collides(c) == (scopes \ call[c].old) \cap call[c].perms # {}

(* record_admin commits.  Then the handler does it all over: the rows it   *)
(* loaded are gone, so it only inserts, and any permission it asked for    *)
(* that is still there from the first time is a violation: the caller gets *)
(* an error for a change that was made.                                    *)
ScopesCommit(c) ==
  LET k == call[c]
      told == Overtake({"scopes"})
  IN
  /\ k.pc \in {"scopes", "again"}
  /\ IF Collides(c)
     THEN Refused(c)
     ELSE /\ scopes' = Replaced(c)
          /\ asked' = [scopes |-> k.perms, late |-> "scopes" \in k.late]
          /\ call' = [d \in Calls |->
                       IF d # c THEN [told[d] EXCEPT !.old = @ \ k.old]
                       ELSE IF k.pc = "again" THEN NoCall
                       ELSE [k EXCEPT !.pc = "again", !.old = {}]]
          /\ UNCHANGED <<exists, people, plan, invite, key, names>>
  /\ UNCHANGED mix

-----------------------------------------------------------------------------
Next ==
  \/ \E c \in Calls :
       \/ \E a, u \in Users : RemoveRead(c, a, u) \/ \E r \in Seats : ChangeRead(c, a, u, r)
       \/ ChangeCommit(c) \/ RemoveCommit(c)
       \/ \E u \in Users : DirectRead(c, u) \/ \E i \in DOMAIN invite : AcceptRead(c, i, u)
       \/ DirectCommit(c) \/ AcceptCommit(c)
       \/ DeleteRead(c) \/ DeleteCommit(c)
       \/ (\E n \in Names : RegisterRead(c, n)) \/ RegisterCommit(c)
       \/ (\E s \in SUBSET Scopes : ScopesRead(c, s)) \/ ScopesCommit(c)
  \/ \E u \in Users, r \in {"none"} \cup Seats : AdminSeat(u, r)
  \/ \E p \in {"free", "paid"} : SetPlan(p)
  \/ \E e \in Users \cup {Anyone} : CreateInvite(e) \/ \E r \in {"admin", "member"} : AdminInvite(e, r)
  \/ CreateKey \/ RotateKeys \/ \E i \in DOMAIN key : RevokeKey(i)
  \/ AdminDelete
  \/ \E i \in DOMAIN names, n \in Names : Rename(i, n)

Spec == Init /\ [][Next]_vars

-----------------------------------------------------------------------------
(* The types of the rows and of the calls (models/organization.py,         *)
(* models/user.py, models/policy.py).                                      *)
TypeOK ==
  /\ exists \in BOOLEAN /\ account \in SUBSET Users
  /\ role \in [Users -> {"none"} \cup Seats] /\ via \in [Users -> Ways]
  /\ excuse \in SUBSET {"overlap", "superadmin"} /\ plan \in {"free", "paid"}
  /\ invite \in Seq(InviteType) /\ Len(invite) <= MaxInvites
  /\ key \in Seq(BOOLEAN) /\ Len(key) <= MaxKeys
  /\ names \in Seq([name : Names, late : BOOLEAN]) /\ Len(names) <= MaxOrgs
  /\ scopes \in SUBSET Scopes /\ asked \in [scopes : SUBSET Scopes, late : BOOLEAN]
  /\ call \in [Calls -> CallType]

(* An organisation is left without an owner only by a superadmin, or by    *)
(* two calls that each saw the other's owner still in place: the           *)
(* last-owner checks of update_member_role and remove_member.              *)
OwnerlessExplained == exists /\ Owners = {} => excuse # {}

(* More members than the free plan has seats: one of them was added        *)
(* directly, came under a paid plan, or came in while another did          *)
(* (enforce_seat_limit and its callers).                                   *)
SeatsExplained ==
  Cardinality(Members) > Included =>
    \E u \in Members : via[u] \in {"direct", "overlap", "paid"}

(* One invite, one member, unless two people accepted it at the same time. *)
InviteOnce ==
  \A i \in DOMAIN invite : Cardinality(invite[i].admitted) > 1 => invite[i].late

(* An organisation that is gone has no members, no keys and no invites,    *)
(* whatever was in flight when it went.                                    *)
GoneIsGone == ~exists => Members = {} /\ key = <<>> /\ invite = <<>>

(* Two organisations have the same name only after a rename or after two   *)
(* registrations at the same time.                                         *)
NamesExplained ==
  \A i, j \in DOMAIN names :
    i # j /\ names[i].name = names[j].name => names[i].late \/ names[j].late

(* An agent role never lacks a permission of its last update, and has no   *)
(* other unless two updates met: then each left the rows the other made    *)
(* since it looked, and the role has permissions of both.                  *)
ScopesAsAsked ==
  /\ asked.scopes \subseteq scopes
  /\ scopes = asked.scopes \/ asked.late
=============================================================================
