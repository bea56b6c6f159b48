------------------------------ MODULE Billing ------------------------------
(***************************************************************************)
(* What one organisation pays for: Stripe's events about its subscription  *)
(* (the webhook of api/v1/billing.py), the monthly quota of the free plan  *)
(* (billing/quota.py around api/v1/decisions.py), the nightly usage report *)
(* to Stripe (scripts/report_billing_usage.py), and the end of the trial   *)
(* (scripts/expire_trials.py).                                             *)
(*                                                                         *)
(* Stripe delivers an event at least once and in any order.  A handler     *)
(* reads the subscription, changes the object in memory and commits the    *)
(* columns it changed; nothing compares the event with the last one seen.  *)
(* A month and a billing period are the same stretch of time here.         *)
(***************************************************************************)
EXTENDS Naturals, Sequences, FiniteSets

CONSTANTS Calls,
          Mixes,                        \* bound: what meets in one behaviour
          Included,                     \* decisions_included of the free plan
          MaxEvents, MaxAgain,          \* bounds on events, and on events sent twice
          MaxUsage, MaxPaid, MaxPeriods, \* bounds on usage, on a paid plan's usage, and time
          MaxBilled                     \* bound on what a meter that runs away adds

BillingAssumption ==
  /\ IsFiniteSet(Calls) /\ Calls # {} /\ MaxPeriods \in Nat \ {0}
  /\ Included \in Nat \ {0}
  /\ {MaxEvents, MaxAgain, MaxUsage, MaxPaid, MaxBilled} \subseteq Nat

VARIABLES mix,
          granted,    \* history: usage when last put on the free plan, and in flight then
          tagged,     \* Stripe's subscription carries the organisation's id
          stripe,     \* status of the subscription at Stripe
          event,      \* the events Stripe sent, in the order they happened
          sent,       \* how often each was delivered
          acked,      \* the events answered with 200
          sub,        \* the row of subscriptions
          trial,      \* the organisation is_trialing
          invoice,    \* stripe_invoice_id of the rows of invoices
          period,     \* the period it is
          used,       \* decisions in usage_records, by period
          rows,       \* what stripe_reported rows add up to, by period
          billed,     \* what Stripe was told, by period
          metered,    \* history: usage a finished report has read, by period
          why,        \* history: what can have gone wrong
          spell,      \* history: the event that last made it past due
          call

stripeVars == <<stripe, event>>
hookVars == <<sent, acked, sub, invoice, spell>>
usageVars == <<used, rows, billed, metered>>
vars == <<mix, tagged, granted, stripeVars, hookVars, trial, period, usageVars, why, call>>

Statuses == {"trialing", "active", "past_due", "canceled"}
Kinds == {"checkout", "subscription", "paid", "failed"}
Periods == 1..MaxPeriods

EventType == [kind : Kinds, status : Statuses, period : Periods]

(* since   past_due_since: the event that stamped it, 0 when empty         *)
(* item    stripe_subscription_item_id is known                            *)
SubType == [plan : {"free", "pro"}, status : Statuses, since : 0..MaxEvents,
            item : BOOLEAN, period : Periods]

Pcs == {"idle", "hook", "check", "report", "record", "trial"}
CallType == [pc : Pcs, e : 0..MaxEvents, saw : SubType, n : Nat,
             seen : Nat, at : Periods, late : BOOLEAN]

(* register: the free plan, in its trial                                   *)
FreeSub == [plan |-> "free", status |-> "trialing", since |-> 0, item |-> FALSE, period |-> 1]
ProSub == [FreeSub EXCEPT !.plan = "pro", !.status = "active", !.item = TRUE]

NoCall == [pc |-> "idle", e |-> 0, saw |-> FreeSub, n |-> 0, seen |-> 0, at |-> 1, late |-> FALSE]

Init ==
  /\ mix \in Mixes
  /\ tagged \in BOOLEAN
  /\ sub = IF mix \cap {"default", "report"} # {} THEN ProSub ELSE FreeSub
  /\ stripe = IF sub = ProSub THEN "active" ELSE "canceled"
  /\ event = <<>> /\ sent = <<>> /\ acked = {} /\ invoice = {}
  /\ trial = TRUE /\ period = 1
  /\ used = [p \in Periods |-> 0] /\ rows = [p \in Periods |-> 0]
  /\ billed = [p \in Periods |-> 0] /\ metered = [p \in Periods |-> 0]
  /\ granted = [p \in Periods |-> 0]
  /\ why = {} /\ spell = 0
  /\ call = [c \in Calls |-> NoCall]

-----------------------------------------------------------------------------
(* Stripe: what happens there, and the events that tell of it.             *)
Tell(es) ==
  /\ Len(event) + Len(es) <= MaxEvents
  /\ event' = event \o es
  /\ sent' = [e \in DOMAIN event' |-> IF e \in DOMAIN event THEN sent[e] ELSE 0]

Ev(kind, status, p) == [kind |-> kind, status |-> status, period |-> p]

External(status, es) ==
  /\ stripe' = status /\ Tell(es)
  /\ UNCHANGED <<mix, tagged, granted, acked, sub, invoice, spell, trial, period, usageVars, why, call>>

(* checkout opens a session at Stripe, which the customer completes.       *)
Subscribe ==
  /\ "checkout" \in mix /\ stripe = "canceled"
  /\ External("active", <<Ev("checkout", "active", period), Ev("subscription", "active", period)>>)

FailPayment ==
  /\ "default" \in mix /\ stripe = "active"
  /\ External("past_due", <<Ev("failed", "past_due", period),
                            Ev("subscription", "past_due", period)>>)

Pay ==
  /\ "default" \in mix /\ stripe = "past_due"
  /\ External("active", <<Ev("paid", "active", period), Ev("subscription", "active", period)>>)

Cancel ==
  /\ mix \cap {"default", "trial"} # {} /\ stripe \in {"active", "past_due"}
  /\ External("canceled", <<Ev("subscription", "canceled", period)>>)

(* A new period begins; the renewal is told by an event.                   *)
NewPeriod ==
  /\ "period" \in mix /\ period < MaxPeriods
  /\ period' = period + 1
  /\ IF stripe = "active"
     THEN Tell(<<Ev("subscription", "active", period + 1)>>)
     ELSE UNCHANGED <<event, sent>>
  /\ UNCHANGED <<mix, tagged, granted, stripe, acked, sub, invoice, spell, trial, usageVars, why, call>>

-----------------------------------------------------------------------------
(* The subscription object as the handler leaves it.                       *)
Apply(s, e) ==
  LET v == event[e] IN
  CASE v.kind = "checkout" -> [s EXCEPT !.plan = "pro", !.status = "active"]
    [] v.kind = "subscription" ->
         [s EXCEPT !.status = v.status, !.period = v.period, !.item = TRUE,
                   !.since = IF v.status = "past_due"
                             THEN (IF s.since = 0 THEN e ELSE s.since) ELSE 0]
    [] v.kind = "paid" ->
         IF s.status = "past_due" THEN [s EXCEPT !.status = "active", !.since = 0] ELSE s
    [] v.kind = "failed" ->
         [s EXCEPT !.status = "past_due", !.since = IF s.since = 0 THEN e ELSE s.since]

Overtake(pcs) ==
  [d \in Calls |-> IF call[d].pc \in pcs THEN [call[d] EXCEPT !.late = TRUE] ELSE call[d]]

HookRead(c, e) ==
  /\ call[c].pc = "idle"
  /\ sent[e] = 0 \/ (sent[e] = 1 /\ Cardinality({d \in DOMAIN event : sent[d] > 1}) < MaxAgain)
  /\ sent' = [sent EXCEPT ![e] = @ + 1]
  /\ IF event[e].kind = "checkout" \/ tagged
     THEN /\ call' = [call EXCEPT ![c] = [NoCall EXCEPT !.pc = "hook", !.e = e, !.saw = sub]]
          /\ UNCHANGED acked
     ELSE UNCHANGED call /\ acked' = acked \cup {e}
  /\ UNCHANGED <<mix, tagged, granted, stripeVars, sub, invoice, spell, trial, period, usageVars, why>>

(* The session updates the columns whose value it changed.                 *)
Column(new, saw, here) == IF new # saw THEN new ELSE here

Merge(new, saw) ==
  [plan |-> Column(new.plan, saw.plan, sub.plan),
   status |-> Column(new.status, saw.status, sub.status),
   since |-> Column(new.since, saw.since, sub.since),
   item |-> Column(new.item, saw.item, sub.item),
   period |-> Column(new.period, saw.period, sub.period)]

(* An event that was overtaken by another handler, or that is older than   *)
(* one already applied, may undo the newer one; a checkout leaves the      *)
(* stamp of an old default.                                                *)
Mishap(k) ==
  (IF k.late THEN {"overlap"} ELSE {})
  \cup (IF \E e \in acked : e > k.e THEN {"order"} ELSE {})
  \cup (IF event[k.e].kind = "checkout" /\ sub.since # 0 THEN {"checkout"} ELSE {})

(* Stripe's invoice id is unique: a second row for it is refused, and the  *)
(* whole transaction with it.  The audit row comes after the commit; when  *)
(* the chain refuses it the answer is an error, and Stripe sends the event *)
(* again.                                                                  *)
HookCommit(c) ==
  LET k == call[c]
      new == Merge(Apply(k.saw, k.e), k.saw)
  IN
  /\ k.pc = "hook"
  /\ IF event[k.e].kind = "paid" /\ k.e \in invoice
     THEN /\ call' = [call EXCEPT ![c] = NoCall]
          /\ UNCHANGED <<sub, invoice, spell, why, acked>>
     ELSE /\ sub' = new
          /\ invoice' = IF event[k.e].kind = "paid" THEN invoice \cup {k.e} ELSE invoice
          /\ spell' = IF new.status = "past_due" /\ sub.status # "past_due" THEN k.e ELSE spell
          /\ why' = why \cup Mishap(k)
          /\ acked' = acked \cup {k.e}
          /\ call' = [Overtake({"hook"}) EXCEPT ![c] = NoCall]
  /\ UNCHANGED <<mix, tagged, granted, stripeVars, sent, trial, period, usageVars>>

-----------------------------------------------------------------------------
(* The quota.                                                              *)
(* Mutant: the last decision of the month is given away.                   *)
WithinQuota_OneMore == sub.plan = "free" => used[period] <= Included

(* enforce_decision_quota                                                  *)
WithinQuota == sub.plan = "free" => used[period] < Included

CheckRead(c) ==
  /\ "quota" \in mix /\ call[c].pc = "idle"
  /\ WithinQuota
  /\ call' = [call EXCEPT ![c] = [NoCall EXCEPT !.pc = "check"]]
  /\ UNCHANGED <<mix, tagged, granted, stripeVars, hookVars, trial, period, usageVars, why>>

(* A plan that is paid for is not limited; what is used is the same.       *)
PaidCheck ==
  /\ "usage" \in mix /\ sub.plan # "free" /\ used[period] < MaxPaid
  /\ used' = [used EXCEPT ![period] = @ + 1]
  /\ UNCHANGED <<mix, tagged, granted, stripeVars, hookVars, trial, period, rows, billed, metered, why, call>>

Checking == {c \in Calls : call[c].pc = "check"}

(* A superadmin sets the plan of an organisation, a column of its own: the *)
(* quota of the free plan then meets what was used under the other one.    *)
SetPlan(p) ==
  /\ "plan" \in mix /\ sub.plan # p
  /\ sub' = [sub EXCEPT !.plan = p]
  /\ granted' = IF p = "free" THEN [q \in Periods |-> used[q] + Cardinality(Checking)] ELSE granted
  /\ UNCHANGED <<mix, tagged, stripeVars, sent, acked, invoice, spell, trial, period, usageVars,
                 why, call>>

(* The decision is made and its usage recorded, or the check fails.        *)
CheckCommit(c) ==
  /\ call[c].pc = "check"
  /\ \/ used[period] < MaxUsage /\ used' = [used EXCEPT ![period] = @ + 1]
     \/ UNCHANGED used
  /\ call' = [call EXCEPT ![c] = NoCall]
  /\ UNCHANGED <<mix, tagged, granted, stripeVars, hookVars, trial, period, rows, billed, metered, why>>

-----------------------------------------------------------------------------
(* The nightly report.                                                     *)
(* stripe_reported rows of the period                                      *)
Reported(p) == rows[p]

Metered == sub.plan = "pro" /\ sub.status \in {"active", "past_due"} /\ sub.item

JobRead(c) ==
  LET p == sub.period IN
  /\ "report" \in mix /\ call[c].pc = "idle"
  /\ Metered /\ used[p] > Reported(p)
  /\ call' = [call EXCEPT ![c] = [NoCall EXCEPT !.pc = "report", !.saw = sub, !.at = period,
                                    !.n = used[p] - Reported(p), !.seen = used[p]]]
  /\ UNCHANGED <<mix, tagged, granted, stripeVars, hookVars, trial, period, usageVars, why>>

(* report_usage: an increment at Stripe, or an error the job goes on from. *)
JobReport(c) ==
  LET k == call[c] IN
  /\ k.pc = "report"
  /\ \/ /\ billed[k.at] + k.n <= MaxBilled
        /\ billed' = [billed EXCEPT ![k.at] = @ + k.n]
        /\ why' = why \cup (IF k.saw.period # k.at THEN {"stale"} ELSE {})
        /\ call' = [call EXCEPT ![c].pc = "record"]
     \/ UNCHANGED <<billed, why>> /\ call' = [call EXCEPT ![c] = NoCall]
  /\ UNCHANGED <<mix, tagged, granted, stripeVars, hookVars, trial, period, used, rows, metered>>

(* The row is dated with the time of the run, whatever period it is for.   *)
JobCommit(c) ==
  LET k == call[c] IN
  /\ k.pc = "record"
  /\ rows' = [rows EXCEPT ![k.at] = @ + k.n]
  /\ metered' = [metered EXCEPT ![k.saw.period] = k.seen]
  /\ why' = why \cup (IF k.late THEN {"overlap"} ELSE {})
  /\ call' = [Overtake({"report", "record"}) EXCEPT ![c] = NoCall]
  /\ UNCHANGED <<mix, tagged, granted, stripeVars, hookVars, trial, period, used, billed>>

(* The job dies, or its one commit fails: Stripe has the increment.        *)
JobCrash(c) ==
  /\ call[c].pc \in {"report", "record"}
  /\ why' = IF call[c].pc = "record" THEN why \cup {"crash"} ELSE why
  /\ call' = [call EXCEPT ![c] = NoCall]
  /\ UNCHANGED <<mix, tagged, granted, stripeVars, hookVars, trial, period, usageVars>>

-----------------------------------------------------------------------------
(* expire_trials: look for trials that are over, then two updates.         *)
TrialRead(c) ==
  /\ "trial" \in mix /\ call[c].pc = "idle"
  /\ sub.plan = "free" /\ sub.status = "trialing" /\ period > sub.period
  /\ call' = [call EXCEPT ![c] = [NoCall EXCEPT !.pc = "trial"]]
  /\ UNCHANGED <<mix, tagged, granted, stripeVars, hookVars, trial, period, usageVars, why>>

(* Mutant: the rows found are updated, without looking again.              *)
TrialCommit_Blind(c) ==
  /\ call[c].pc = "trial"
  /\ sub' = [sub EXCEPT !.status = "active"]
  /\ trial' = FALSE
  /\ call' = [call EXCEPT ![c] = NoCall]
  /\ UNCHANGED <<mix, tagged, granted, stripeVars, sent, acked, invoice, spell, period, usageVars, why>>

TrialCommit(c) ==
  /\ call[c].pc = "trial"
  /\ sub' = IF sub.plan = "free" /\ sub.status = "trialing"
            THEN [sub EXCEPT !.status = "active"] ELSE sub
  /\ trial' = FALSE
  /\ call' = [call EXCEPT ![c] = NoCall]
  /\ UNCHANGED <<mix, tagged, granted, stripeVars, sent, acked, invoice, spell, period, usageVars, why>>

-----------------------------------------------------------------------------
Deliver(c) == \E e \in DOMAIN event : HookRead(c, e)

Step(c) ==
  \/ Deliver(c) \/ HookCommit(c)
  \/ CheckRead(c) \/ CheckCommit(c)
  \/ JobRead(c) \/ JobReport(c) \/ JobCommit(c) \/ JobCrash(c)
  \/ TrialRead(c) \/ TrialCommit(c)

Next ==
  \/ Subscribe \/ FailPayment \/ Pay \/ Cancel \/ NewPeriod \/ PaidCheck
  \/ (\E p \in {"free", "pro"} : SetPlan(p)) \/ \E c \in Calls : Step(c)

Spec == Init /\ [][Next]_vars

-----------------------------------------------------------------------------
(* The types of the rows, of Stripe and of the calls (models/billing.py).  *)
TypeOK ==
  /\ mix \in Mixes /\ tagged \in BOOLEAN /\ stripe \in Statuses
  /\ event \in Seq(EventType) /\ Len(event) <= MaxEvents
  /\ sent \in [DOMAIN event -> 0..2]
  /\ acked \subseteq DOMAIN event /\ invoice \subseteq DOMAIN event
  /\ sub \in SubType /\ trial \in BOOLEAN /\ period \in Periods
  /\ {used, rows, metered, granted} \subseteq [Periods -> Nat] /\ billed \in [Periods -> 0..MaxBilled]
  /\ why \subseteq {"overlap", "order", "checkout", "stale", "crash"}
  /\ spell \in 0..MaxEvents
  /\ call \in [Calls -> CallType]

(* The quota of the free plan is overrun by no more than the checks that   *)
(* were in flight together, less the one that was entitled                 *)
(* (enforce_decision_quota counts before record_decision adds); after a    *)
(* superadmin has put the organisation back on that plan, by no more than  *)
(* was used by then and the checks then in flight.                         *)
OverrunBounded ==
  sub.plan = "free" =>
    \A p \in Periods :
      used[p] <= Included + Cardinality(Calls) - 1 \/ used[p] <= granted[p]

(* Stripe was told exactly the usage that finished reports have read,      *)
(* unless a report died between Stripe and its commit, two reports met, or *)
(* the renewal of the period had not arrived yet: then the row is dated    *)
(* outside the period it is for, and no later report counts it.            *)
BilledAsMetered ==
  why \cap {"crash", "overlap", "stale"} = {} /\ (\A c \in Calls : call[c].pc # "record")
  => billed = metered

(* Once the last event was applied, and unless an event was overtaken by   *)
(* another, the subscription says what Stripe says.                        *)
StatusFollowsStripe ==
  tagged /\ Len(event) \in acked /\ why \cap {"order", "overlap"} = {}
  => sub.status = stripe

(* The grace period of a subscription that is past due counts from when it *)
(* became so, unless handlers met or a checkout left an old stamp.         *)
GraceIsFresh ==
  sub.status = "past_due" /\ why \cap {"overlap", "checkout"} = {} => sub.since = spell

TrialEndsQuietlyStep ==
  sub.plan = "pro" /\ sub' # sub =>
    \/ \E c \in Calls : call[c].pc = "hook" /\ call'[c].pc = "idle"
    \/ sub' = [sub EXCEPT !.plan = "free"]

(* The end of the trial never undoes a subscription: a customer who paid   *)
(* while the job was running stays what the webhook made it, but for the   *)
(* plan, which a superadmin sets.                                          *)
TrialEndsQuietly == [][TrialEndsQuietlyStep]_vars

(* A payment Stripe was answered for has its row of invoices, however      *)
(* often and in whatever order the events came (stripe_webhook).            *)
PaymentsInvoiced ==
  tagged => \A e \in acked : event[e].kind = "paid" => e \in invoice
=============================================================================
