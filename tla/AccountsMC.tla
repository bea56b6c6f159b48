----------------------------- MODULE AccountsMC -----------------------------
(***************************************************************************)
(* Who belongs to an organisation, and what it pays, for TLC: members and  *)
(* seats (Membership), and the subscription (Billing). Membership has the  *)
(* plan as state of its own, so one run checks them side by side: part,    *)
(* chosen by Init, is the one that moves, and the variables of the other   *)
(* are idle.                                                               *)
(***************************************************************************)
EXTENDS TLC

CONSTANTS Users, Founder, Calls, Names, Scopes, SeatsIncluded, MaxInvites, MaxOrgs,
          MaxKeys, Included, MaxEvents, MaxAgain, MaxUsage, MaxPaid,
          MaxPeriods, MaxBilled, None

VARIABLES part,
          mix, exists, account, role, via, excuse, plan, invite, key, names,
          scopes, asked, call,
          market, tagged, granted, stripe, event, sent, acked, sub, trial, invoice,
          period, used, rows, billed, metered, why, spell, handler

(* Which handlers meet in one behaviour.                                   *)
MemberMixes == {{"change", "direct", "superadmin"},
                {"invite", "superinvite", "direct", "accept", "plan"},
                {"invite", "accept", "superadmin", "delete"},
                {"superadmin", "delete", "keys"}, {"names"}, {"roles"}}

BillingMixes == {{"checkout", "default"}, {"checkout", "trial", "period"}, {"checkout", "plan"},
                 {"quota", "trial", "period", "plan"}, {"usage", "report", "period"}}

M == INSTANCE Membership WITH Mixes <- MemberMixes, Included <- SeatsIncluded
B == INSTANCE Billing WITH Mixes <- BillingMixes, mix <- market,
       call <- handler

ASSUME AccountsAssumption == M!MembershipAssumption /\ B!BillingAssumption

membersVars == <<mix, exists, account, role, via, excuse, plan, invite, key,
    names, scopes, asked, call>>
billingVars == <<market, tagged, granted, stripe, event, sent, acked, sub, trial,
    invoice, period, used, rows, billed, metered, why, spell, handler>>
vars == <<part, membersVars, billingVars>>

MembersIdle ==
  /\ mix = None /\ exists = None /\ account = None /\ role = None
  /\ via = None /\ excuse = None /\ plan = None /\ invite = None /\ key = None
  /\ names = None /\ scopes = None /\ asked = None /\ call = None
BillingIdle ==
  /\ market = None /\ tagged = None /\ granted = None /\ stripe = None /\ event = None
  /\ sent = None /\ acked = None /\ sub = None /\ trial = None
  /\ invoice = None /\ period = None /\ used = None /\ rows = None
  /\ billed = None /\ metered = None /\ why = None /\ spell = None
  /\ handler = None

Init ==
  \/ /\ part = "members" /\ M!Init
     /\ BillingIdle
  \/ /\ part = "billing" /\ B!Init
     /\ MembersIdle

Next ==
  \/ part = "members" /\ M!Next
     /\ UNCHANGED <<part, billingVars>>
  \/ part = "billing" /\ B!Next
     /\ UNCHANGED <<part, membersVars>>

Spec == Init /\ [][Next]_vars

(* No property tells one call from another, or one person from another but *)
(* the founder.                                                            *)
Symmetry == {p @@ q : p \in Permutations(Calls), q \in Permutations(Users \ {Founder})}

-----------------------------------------------------------------------------
(* An organisation has no owner, too many members, or two people from one  *)
(* invite only by the calls that met, the direct additions and the         *)
(* superadmins that explain it (invites.py:296, org.py:116); a deleted one *)
(* leaves nothing behind; two have one name, and a role scopes nobody      *)
(* asked for in one piece, only where calls met (roles.py:165).            *)
MembersExplained ==
  part = "members" =>
    /\ M!TypeOK /\ M!OwnerlessExplained /\ M!SeatsExplained /\ M!InviteOnce
    /\ M!GoneIsGone /\ M!NamesExplained /\ M!ScopesAsAsked

(* The free quota is overrun by the checks in flight alone (quota.py:84),  *)
(* or by what was used before a superadmin set the plan (admin.py:239);    *)
(* Stripe is told exactly the usage that was metered unless a report died, *)
(* met another or was early (report_billing_usage.py:92); the subscription *)
(* follows Stripe's events, its grace period counts from its own lapse,    *)
(* and every payment answered for is in the invoices (billing.py:324).     *)
BillsExplained ==
  part = "billing" =>
    /\ B!TypeOK /\ B!OverrunBounded /\ B!BilledAsMetered
    /\ B!StatusFollowsStripe /\ B!GraceIsFresh /\ B!PaymentsInvoiced

(* The end of the trial never undoes a subscription: a customer who paid   *)
(* while the job was running stays what the webhook made it, but for the   *)
(* plan, which a superadmin sets.                                          *)
TrialEndsQuietly == [][part = "billing" => B!TrialEndsQuietlyStep]_vars

=============================================================================
