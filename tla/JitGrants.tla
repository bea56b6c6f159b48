----------------------------- MODULE JitGrants -----------------------------
(***************************************************************************)
(* Just-in-time grants of one organisation: created and revoked by         *)
(* administrators, expired by them (api/v1/jit_grants.py) and by a cron    *)
(* job (scripts/expire_jit_grants.py).                                     *)
(*                                                                         *)
(* Each change is committed with its audit row by record_admin, which      *)
(* fails when another row was appended to the chain since it read the tip  *)
(* (see AuditLog).  The webhook event of the change is added afterwards,   *)
(* and committed by whatever commits next: the next grant's record_admin,  *)
(* or the end of the call.  The expirers read the due grants once, go      *)
(* through them in no order, and write what they read.                     *)
(***************************************************************************)
EXTENDS Naturals, Sequences, FiniteSets

CONSTANTS Grants,
          Admins,         \* calls of administrators in flight
          Cron,           \* the cron job: its runs follow one another
          Expirers,       \* who expires: Cron, and calls of expire-due
          MaxTrouble      \* bound: appends of others and failed calls

JitAssumption ==
  /\ Cron \notin Admins
  /\ Expirers \subseteq Admins \cup {Cron}
  /\ MaxTrouble \in Nat

VARIABLES state,          \* of a grant: "none", "active" or "inactive"
          overdue,        \* expires_at has passed
          trail,          \* the audit rows of a grant, in order
          events,         \* webhook_outbox: what was announced of which grant
          job, trouble

vars == <<state, overdue, trail, events, job, trouble>>

Callers == Admins \cup {Cron}

Words == {"granted", "revoked", "expired"}

Endings == Words \ {"granted"}

(* word     what the call does to its grants                               *)
(* todo     the grants it has still to write; now, the one it is at        *)
(* stale    those somebody else ended since the call read them             *)
(* unsent   events added to the session, not committed                     *)
JobType ==
  [pc : {"idle", "tip", "append", "emit", "commit"}, word : Words,
   todo : SUBSET Grants, now : SUBSET Grants, stale : SUBSET Grants,
   unsent : SUBSET (Grants \X Words), tipValid : BOOLEAN]

NoJob == [pc |-> "idle", word |-> "granted", todo |-> {}, now |-> {}, stale |-> {},
          unsent |-> {}, tipValid |-> FALSE]

Begin(word, todo) == [NoJob EXCEPT !.pc = "tip", !.word = word, !.todo = todo]

(* create_grant and the cron job announce; revoke and expire-due do not.   *)
Announces(j) == j = Cron \/ job[j].word = "granted"

Init ==
  /\ state = [g \in Grants |-> "none"]
  /\ overdue = [g \in Grants |-> FALSE]
  /\ trail = [g \in Grants |-> <<>>]
  /\ events = {}
  /\ job = [j \in Callers |-> NoJob]
  /\ trouble = 0

-----------------------------------------------------------------------------
Create(j, g) ==
  /\ job[j].pc = "idle"
  /\ state[g] = "none"
  /\ \A i \in Admins : ~(job[i].word = "granted" /\ g \in job[i].todo \cup job[i].now)
  /\ job' = [job EXCEPT ![j] = Begin("granted", {g})]
  /\ UNCHANGED <<state, overdue, trail, events, trouble>>

Revoke(j, g) ==
  /\ job[j].pc = "idle"
  /\ state[g] = "active"
  /\ job' = [job EXCEPT ![j] = Begin("revoked", {g})]
  /\ UNCHANGED <<state, overdue, trail, events, trouble>>

(* Mutant: the WHERE clause does not ask for is_active.                    *)
Due_Inactive == {g \in Grants : state[g] # "none" /\ overdue[g]}

Due == {g \in Grants : state[g] = "active" /\ overdue[g]}

(* expire_due, _expire_grants: one SELECT.                                 *)
Expire(j) ==
  /\ job[j].pc = "idle"
  /\ Due # {}
  /\ job' = [job EXCEPT ![j] = Begin("expired", Due)]
  /\ UNCHANGED <<state, overdue, trail, events, trouble>>

(* record_admin reads the tip of the chain for one grant.                  *)
ReadTip(j) ==
  /\ job[j].pc = "tip"
  /\ \E g \in job[j].todo :
       job' = [job EXCEPT ![j].pc = "append", ![j].now = {g},
                          ![j].todo = @ \ {g}, ![j].tipValid = TRUE]
  /\ UNCHANGED <<state, overdue, trail, events, trouble>>

(* A row was appended to the chain, for one of these grants.               *)
Superseded(jobs, ended) ==
  [j \in Callers |-> [jobs[j] EXCEPT
     !.tipValid = FALSE, !.stale = @ \cup (ended \cap (jobs[j].todo \cup jobs[j].now))]]

(* Its flush and commit: the grant, the audit row, and the events that the *)
(* session still holds.                                                    *)
Record(j) ==
  /\ job[j].pc = "append"
  /\ job[j].tipValid
  /\ LET after == CASE Announces(j) -> "emit"
                    [] job[j].todo # {} -> "tip"
                    [] OTHER -> "idle"
         ended == IF job[j].word = "granted" THEN {} ELSE job[j].now
     IN  job' = [Superseded(job, ended) EXCEPT
                   ![j] = IF after = "idle" THEN NoJob
                          ELSE [job[j] EXCEPT !.pc = after, !.unsent = {},
                                              !.tipValid = FALSE]]
  /\ state' = [g \in Grants |-> IF g \notin job[j].now THEN state[g]
                               ELSE IF job[j].word = "granted" THEN "active"
                               ELSE "inactive"]
  /\ trail' = [g \in Grants |-> IF g \in job[j].now THEN Append(trail[g], job[j].word)
                               ELSE trail[g]]
  /\ events' = events \cup job[j].unsent
  /\ UNCHANGED <<overdue, trouble>>

(* Mutant: the grant is written although its audit row is refused.         *)
Conflict_Writes(j) ==
  /\ job[j].pc = "append"
  /\ ~job[j].tipValid
  /\ job' = [job EXCEPT ![j] = NoJob]
  /\ state' = [g \in Grants |-> IF g \notin job[j].now THEN state[g]
                               ELSE IF job[j].word = "granted" THEN "active"
                               ELSE "inactive"]
  /\ UNCHANGED <<overdue, trail, events, trouble>>

(* Mutant: the append is tried again with the number it has.               *)
Conflict_Retries(j) ==
  /\ job[j].pc = "append"
  /\ ~job[j].tipValid
  /\ UNCHANGED vars

(* The unique index refuses the audit row: the call ends, and what its     *)
(* session held is rolled back.                                            *)
Conflict(j) ==
  /\ job[j].pc = "append"
  /\ ~job[j].tipValid
  /\ job' = [job EXCEPT ![j] = NoJob]
  /\ UNCHANGED <<state, overdue, trail, events, trouble>>

(* emit adds the event to the session.                                     *)
Emit(j) ==
  /\ job[j].pc = "emit"
  /\ job' = [job EXCEPT ![j].unsent = @ \cup (job[j].now \X {job[j].word}),
                        ![j].now = {},
                        ![j].pc = IF job[j].todo = {} THEN "commit" ELSE "tip"]
  /\ UNCHANGED <<state, overdue, trail, events, trouble>>

Commit(j) ==
  /\ job[j].pc = "commit"
  /\ events' = events \cup job[j].unsent
  /\ job' = [job EXCEPT ![j] = NoJob]
  /\ UNCHANGED <<state, overdue, trail, trouble>>

(* A crash or a lost connection.                                           *)
Fail(j) ==
  /\ job[j].pc # "idle"
  /\ trouble < MaxTrouble
  /\ trouble' = trouble + 1
  /\ job' = [job EXCEPT ![j] = NoJob]
  /\ UNCHANGED <<state, overdue, trail, events>>

(* Another request of the organisation appends to the chain.               *)
OtherRecord ==
  /\ trouble < MaxTrouble
  /\ trouble' = trouble + 1
  /\ job' = Superseded(job, {})
  /\ UNCHANGED <<state, overdue, trail, events>>

PassExpiry(g) ==
  /\ state[g] # "none"
  /\ ~overdue[g]
  /\ overdue' = [overdue EXCEPT ![g] = TRUE]
  /\ UNCHANGED <<state, trail, events, job, trouble>>

JobStep(j) == ReadTip(j) \/ Record(j) \/ Conflict(j) \/ Emit(j) \/ Commit(j)

Next ==
  \/ \E j \in Admins, g \in Grants : Create(j, g) \/ Revoke(j, g)
  \/ \E j \in Expirers : Expire(j)
  \/ \E j \in Callers : JobStep(j) \/ Fail(j)
  \/ \E g \in Grants : PassExpiry(g)
  \/ OtherRecord

Spec == Init /\ [][Next]_vars

(* The CronJob runs every two minutes, and a call that has begun goes on.  *)
Fairness == WF_vars(Expire(Cron)) /\ \A j \in Callers : WF_vars(JobStep(j))

FairSpec == Spec /\ Fairness

-----------------------------------------------------------------------------
(* The types of the variables (models/jit_grant.py); a call is at one      *)
(* grant at most, and not at one it still has to do.                       *)
TypeOK ==
  /\ state \in [Grants -> {"none", "active", "inactive"}]
  /\ overdue \in [Grants -> BOOLEAN]
  /\ trail \in [Grants -> Seq(Words)]
  /\ events \subseteq Grants \X Words
  /\ job \in [Callers -> JobType]
  /\ \A j \in Callers : /\ \A g, h \in job[j].now : g = h
                        /\ job[j].now \cap job[j].todo = {}
  /\ trouble \in 0 .. MaxTrouble

Ended(g) == \E i \in 1 .. Len(trail[g]) : trail[g][i] \in Endings

(* The chain tells the state of every grant at any moment: it is active    *)
(* exactly if it was granted and nothing since, whatever fails between the *)
(* calls' commits (jit_grants.py: every create and revoke is recorded).    *)
TrailMatchesGrant ==
  \A g \in Grants :
    /\ state[g] = "none" <=> trail[g] = <<>>
    /\ state[g] = "active" <=> trail[g] = <<"granted">>
    /\ state[g] = "inactive" <=> Ended(g)

EndsAgainOnlyByOverlapStep ==
  \A g \in Grants :
     Ended(g) /\ trail'[g] # trail[g]
     => \E j \in Callers : job[j].pc = "append" /\ g \in job[j].now \cap job[j].stale

(* A grant that has ended is ended again, in the chain, only by a call     *)
(* that read it before: the expirers and the administrators who come later *)
(* leave it alone.                                                         *)
EndsAgainOnlyByOverlap == [][EndsAgainOnlyByOverlapStep]_vars

(* The cron job ends every overdue grant, however often it loses the race  *)
(* for the chain.                                                          *)
OverdueEnds ==
  \A g \in Grants : state[g] = "active" /\ overdue[g] ~> state[g] = "inactive"

=============================================================================
