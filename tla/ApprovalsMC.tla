---------------------------- MODULE ApprovalsMC -----------------------------
(***************************************************************************)
(* The life of an approval request (Approvals), how people are told of it  *)
(* through the organisation's accounts elsewhere (Notifications), and the  *)
(* nightly job that tells of a broken audit chain (AuditVerify), for TLC.  *)
(* They share no state, so one run checks them side by side: part, chosen  *)
(* by Init, is the one that moves, and the variables of the others are     *)
(* idle.                                                                   *)
(***************************************************************************)
EXTENDS Approvals, TLC

CONSTANTS Announced, Admins, k1, k2, Global, MaxChanges, Orgs, Events, Alert,
          MaxRows, MaxTampers, MaxRuns, None

VARIABLES part,
          env, row, request, changes, dispatch, seen, posts, stands,
          table, tampers, job, run

(* No property tells one call, or one administrator, from another.         *)
Symmetry == Permutations(Calls) \cup Permutations(Admins)

(* What an administrator saves: a token, switched off; a webhook, on; the  *)
(* others.                                                                 *)
SlackBody(token, url, channel, on) ==
  [slack_token |-> token, slack_url |-> url, slack_channel |-> channel, slack_on |-> on]

OtherBody ==
  [teams_url |-> k1, teams_on |-> TRUE, pd_key |-> k1, pd_on |-> TRUE, mail_to |-> k2,
   mail_on |-> TRUE]

SavedBodies == {SlackBody(k1, None, k2, FALSE), SlackBody(None, k2, None, TRUE), OtherBody}

Deployments == {{"slack_channel"}, {"slack_token", "slack_channel", "teams_url"}}

N == INSTANCE Notifications WITH Approvals <- Announced, Calls <- Admins,
       Environments <- Deployments, Bodies <- SavedBodies,
       call <- request
V == INSTANCE AuditVerify

ASSUME ApprovalsMCAssumption ==
  /\ N!NotificationsAssumption
  /\ V!VerifyAssumption

notifyVars == <<env, row, request, changes, dispatch, seen, posts, stands>>
verifyVars == <<table, tampers, job, run>>
mcVars == <<part, vars, notifyVars, verifyVars>>

NotifyIdle ==
  /\ env = None /\ row = None /\ request = None /\ changes = None
  /\ dispatch = None /\ seen = None /\ posts = None /\ stands = None
VerifyIdle ==
  /\ table = None /\ tampers = None /\ job = None /\ run = None

MCInit ==
  \/ part = "approvals" /\ Init /\ NotifyIdle /\ VerifyIdle
  \/ /\ part = "notify" /\ N!Init
     /\ Init /\ VerifyIdle
  \/ /\ part = "verify" /\ V!Init
     /\ Init /\ NotifyIdle

MCNext ==
  \/ part = "approvals" /\ Next /\ UNCHANGED <<part, notifyVars, verifyVars>>
  \/ part = "notify" /\ N!Next
     /\ UNCHANGED <<part, vars, verifyVars>>
  \/ part = "verify" /\ V!Next
     /\ UNCHANGED <<part, vars, notifyVars>>

MCSpec == MCInit /\ [][MCNext]_mcVars

-----------------------------------------------------------------------------
(* A change of one section of the settings that met no other on it stands  *)
(* (integration_config.py:153); an approval goes through the environment's *)
(* account only if the organisation had none (slack.py:178); the failure   *)
(* of one channel silences no other (notify.py:66).                        *)
AnnouncementsHold ==
  part = "notify" =>
    /\ N!TypeOK /\ N!LoneRequestStands /\ N!GlobalOnlyWithout
    /\ N!FailuresAreIsolated

(* The verifier accepts exactly the chains that appends alone can build; a *)
(* nightly run that exits 0 has recorded and announced every break it      *)
(* found, and announces none it has not recorded                           *)
(* (verify_audit_chain.py:70-103).                                         *)
BreaksAreTold ==
  part = "verify" =>
    /\ V!TypeOK /\ V!VerifierExact /\ V!ZeroMeansTold /\ V!AnnouncedIsRecorded

=============================================================================
