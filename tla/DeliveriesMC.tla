---------------------------- MODULE DeliveriesMC ----------------------------
(***************************************************************************)
(* What is owed to somebody later, for TLC: the end of a JIT grant, the    *)
(* delivery of a webhook event. The modules share no state here, so one    *)
(* run checks them side by side: part, chosen by Init, is the one that     *)
(* moves, and the variables of the others are idle.                        *)
(***************************************************************************)
EXTENDS Naturals

CONSTANTS Grants, Admins, Cron, Expirers, MaxTrouble, Rows, Workers,
          BatchSize, MaxAttempts, MaxReplays, MaxAborts, Endpoints, Changes,
          Clients, MaxSecrets, None

VARIABLES part,
          state, overdue, trail, events, job, trouble,
          status, attempts, due, aged, endpoint, pc, marked, batch, outcome,
          replay, aborts, tally, owed,
          registered, used, secrets, shown, mixed, queued, announced,
          refused, subscribed, caller

J == INSTANCE JitGrants
W == INSTANCE WebhookOutbox WITH MaxReplays <- 0
R == INSTANCE WebhookOutbox WITH Rows <- {1}
E == INSTANCE WebhookEndpoints WITH endpoint <- registered, due <- subscribed

ASSUME DeliveriesAssumption ==
  /\ J!JitAssumption
  /\ W!OutboxAssumption
  /\ R!OutboxAssumption
  /\ E!EndpointsAssumption

grantsVars == <<state, overdue, trail, events, job, trouble>>
outboxVars == <<status, attempts, due, aged, endpoint, pc, marked, batch,
    outcome, replay, aborts, tally, owed>>
endpointsVars == <<registered, used, secrets, shown, mixed, queued,
    announced, refused, subscribed, caller>>
vars == <<part, grantsVars, outboxVars, endpointsVars>>

GrantsIdle ==
  /\ state = None /\ overdue = None /\ trail = None /\ events = None
  /\ job = None /\ trouble = None
OutboxIdle ==
  /\ status = None /\ attempts = None /\ due = None /\ aged = None
  /\ endpoint = None /\ pc = None /\ marked = None /\ batch = None
  /\ outcome = None /\ replay = None /\ aborts = None /\ tally = None
  /\ owed = None
EndpointsIdle ==
  /\ registered = None /\ used = None /\ secrets = None /\ shown = None
  /\ mixed = None /\ queued = None /\ announced = None /\ refused = None
  /\ subscribed = None /\ caller = None

Init ==
  \/ /\ part = "grants" /\ J!Init
     /\ OutboxIdle /\ EndpointsIdle
  \/ /\ part = "outbox" /\ W!Init
     /\ GrantsIdle /\ EndpointsIdle
  \/ /\ part = "replays" /\ R!Init
     /\ GrantsIdle /\ EndpointsIdle
  \/ /\ part = "endpoints" /\ E!Init
     /\ GrantsIdle /\ OutboxIdle

Next ==
  \/ part = "grants" /\ J!Next
     /\ UNCHANGED <<part, outboxVars, endpointsVars>>
  \/ part = "outbox" /\ W!Next
     /\ UNCHANGED <<part, grantsVars, endpointsVars>>
  \/ part = "replays" /\ R!Next
     /\ UNCHANGED <<part, grantsVars, endpointsVars>>
  \/ part = "endpoints" /\ E!Next
     /\ UNCHANGED <<part, grantsVars, outboxVars>>

(* The fairness of each module, where it moves.                            *)
GrantsFairness ==
  /\ WF_grantsVars(part = "grants" /\ J!Expire(Cron))
  /\ \A j \in Admins \cup {Cron} : WF_grantsVars(part = "grants" /\ J!JobStep(j))

OutboxFairness ==
  /\ \A w \in Workers : WF_outboxVars(part = "outbox" /\ W!WorkerStep(w))
  /\ \A r \in Rows : WF_outboxVars(part = "outbox" /\ W!PassBackoff(r))
  /\ WF_outboxVars(part = "outbox" /\ W!FinishDelete) /\ WF_outboxVars(part = "outbox" /\ W!DeleteIsVictim)

MCFairness == GrantsFairness /\ OutboxFairness

Spec == Init /\ [][Next]_vars /\ MCFairness

-----------------------------------------------------------------------------
(* The chain tells the state of every grant at any moment: it is active    *)
(* exactly if it was granted and nothing since, whatever fails between the *)
(* commits of a grant and of its row (jit_grants.py: every create and      *)
(* revoke is recorded).                                                    *)
GrantsAreTrailed ==
  part = "grants" =>
    /\ J!TypeOK /\ J!TrailMatchesGrant

(* A receiver sees an event again only after a rollback or a replay: two   *)
(* workers never deliver the same row (webhooks/worker.py, skip_locked). A *)
(* row is posted MAX_ATTEMPTS times, and again after each replay; what the *)
(* console shows as delivered was acknowledged, and as dead, used its      *)
(* attempts up. A change that is committed has a row for everyone who      *)
(* subscribed and is still there (webhooks/service.py:111), and the secret *)
(* somebody was last shown is the one that is stored, but for answers that *)
(* crossed (webhooks.py:107).                                              *)
DeliveriesExplained ==
  /\ part = "outbox" =>
       /\ W!TypeOK /\ W!DuplicatesExplained
  /\ part = "replays" =>
       /\ R!TypeOK /\ R!PostsBounded /\ R!SettledIsTrue
  /\ part = "endpoints" =>
       /\ E!TypeOK /\ E!SecretsExplained /\ E!EveryoneTold
       /\ E!RefusedByDeletion

(* A grant that has ended is ended again, in the chain, only by a call     *)
(* that read it before: the expirers and the administrators who come later *)
(* leave it alone.                                                         *)
EndsAgainOnlyByOverlap == [][part = "grants" => J!EndsAgainOnlyByOverlapStep]_vars

(* The cron job ends every overdue grant, however often it loses the race  *)
(* for the chain.                                                          *)
OverdueEnds ==
  \A g \in Grants :
    part = "grants" /\ state[g] = "active" /\ overdue[g]
    ~> part = "grants" /\ state[g] = "inactive"

(* Every event is settled within the day, or the day passes.               *)
EveryEventSettles ==
  \A r \in Rows :
    part = "outbox" /\ status[r] = "pending"
    ~> part = "outbox" /\ (status[r] # "pending" \/ aged[r])

=============================================================================
