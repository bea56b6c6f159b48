--------------------------- MODULE Notifications ---------------------------
(***************************************************************************)
(* What people are told of a new approval request: the notifications sent  *)
(* through Slack, Teams, email and PagerDuty (integrations/notify.py), and *)
(* the row of org_integrations that configures them, while administrators  *)
(* save, test and delete its sections (api/v1/integration_config.py).      *)
(*                                                                         *)
(* An UPDATE writes the columns whose value differs from the one the       *)
(* request has read; a secret is encrypted anew each time, so it always    *)
(* differs.  Requests that overlap are therefore merged column by column.  *)
(* A notification is a task of the process that answered the check: it has *)
(* no retry, and dies with the process.                                    *)
(***************************************************************************)
EXTENDS Naturals, FiniteSets

CONSTANTS Approvals,      \* the approval requests
          Calls,          \* concurrent requests of administrators
          Environments,   \* what a deployment may set, see env
          Bodies,         \* what they save: columns to values, None where empty
          Global,         \* the account the deployment's environment configures
          None,           \* no row, an empty column
          MaxChanges      \* bound on requests

VARIABLES env,            \* what the environment of the process sets
          row,            \* the row of the organisation, or None
          call,           \* call[c]: the request in progress
          changes,        \* requests so far
          dispatch,       \* dispatch[a]: the task that tells people of a
          seen,           \* seen[a]: the rows there were since a was created
          posts,          \* what was posted: [about, channel, via]
          stands          \* stands[s]: what the last undisturbed request left in s

vars == <<env, row, call, changes, dispatch, seen, posts, stands>>

Sections == {"slack", "teams", "pagerduty", "email"}

Columns(s) ==
  CASE s = "slack" -> {"slack_token", "slack_url", "slack_channel", "slack_on"}
    [] s = "teams" -> {"teams_url", "teams_on"}
    [] s = "pagerduty" -> {"pd_key", "pd_on"}
    [] s = "email" -> {"mail_to", "mail_on"}

AllColumns == UNION {Columns(s) : s \in Sections}
Secrets == {"slack_token", "slack_url", "teams_url", "pd_key"}
Switches == {"slack_on", "teams_on", "pd_on", "mail_on"}
Empty(f) == IF f \in Switches THEN FALSE ELSE None
Blank == [f \in AllColumns |-> Empty(f)]

(* The rows of org_integrations.                                           *)
Values == {None, FALSE} \cup UNION {{b[f] : f \in DOMAIN b} : b \in Bodies}
Rows == {r \in [AllColumns -> Values] : \A f \in Switches : r[f] \in BOOLEAN}

NotificationsAssumption ==
  /\ \A b \in Bodies : /\ b # <<>> /\ DOMAIN b \subseteq AllColumns
                       /\ \A f \in DOMAIN b \cap Switches : b[f] \in BOOLEAN
  /\ None \notin Rows \cup BOOLEAN /\ Global \notin Values
  /\ "test" \notin Approvals
  /\ Environments \subseteq SUBSET {"slack_token", "slack_channel", "teams_url"}
  /\ MaxChanges \in Nat

(* The sections a change of columns touches.                               *)
Touched(set) == {s \in Sections : DOMAIN set \cap Columns(s) # {}}

Idle == [pc |-> "idle", loaded |-> None, fresh |-> FALSE, set |-> <<>>,
         kind |-> None, alone |-> {}]
Unsent == [pc |-> "none", row |-> None, todo |-> {}, failed |-> {}]

Init ==
  /\ env \in Environments
  /\ row = None
  /\ call = [c \in Calls |-> Idle]
  /\ changes = 0
  /\ dispatch = [a \in Approvals |-> Unsent]
  /\ seen = [a \in Approvals |-> {}]
  /\ posts = {}
  /\ stands = [s \in Sections |-> <<>>]

-----------------------------------------------------------------------------
(* The columns a body assigns: the fields of Slack only where they are not *)
(* empty, everything else of a section that is given.                      *)
Assigned(b) ==
  [f \in {f \in DOMAIN b : b[f] # None \/ f \notin Columns("slack")} |-> b[f]]

(* What deleting a section assigns.                                        *)
Cleared(s) == [f \in Columns(s) |-> Empty(f)]

(* The UPDATE: assigned columns that differ from what was loaded.          *)
Merged(stored, loaded, set) ==
  [f \in AllColumns |->
     IF f \in DOMAIN set /\ (set[f] # loaded[f] \/ (f \in Secrets /\ set[f] # None))
     THEN set[f] ELSE stored[f]]

(* Every other request on these sections is disturbed by this one, and     *)
(* what stood there stands no longer.                                      *)
Disturb(c, set) ==
  [d \in Calls \ {c} |-> [call[d] EXCEPT !.alone = @ \ Touched(set)]]

Busy(c) == UNION {Touched(call[d].set) : d \in Calls \ {c}}

Begin(c, kind, set) ==
  /\ call[c].pc = "idle"
  /\ changes < MaxChanges
  /\ changes' = changes + 1
  /\ call' = [d \in Calls |->
                IF d # c THEN Disturb(c, set)[d]
                ELSE [pc |-> IF row = None THEN "insert" ELSE "commit",
                      loaded |-> IF row = None THEN Blank ELSE row,
                      fresh |-> FALSE, set |-> set, kind |-> kind,
                      alone |-> Touched(set) \ Busy(c)]]
  /\ stands' = [s \in Sections |-> IF s \in Touched(set) THEN <<>> ELSE stands[s]]
  /\ UNCHANGED <<env, row, dispatch, seen, posts>>

(* PUT /integrations/config reads the row, if there is one.                *)
SaveRead(c, b) == Begin(c, "save", Assigned(b))

(* DELETE .../slack and .../teams; without a row there is nothing to do.   *)
DeleteRead(c, s) ==
  /\ s \in {"slack", "teams"}
  /\ row # None
  /\ Begin(c, "delete", Cleared(s))

(* Without a row it is inserted at once.  The second of two inserts waits  *)
(* for the first and is then refused by the unique organisation: 500.      *)
SaveInsert(c) ==
  /\ call[c].pc = "insert"
  /\ \A d \in Calls \ {c} : ~call[d].fresh
  /\ call' = [call EXCEPT ![c] = IF row = None THEN [@ EXCEPT !.pc = "commit", !.fresh = TRUE]
                                 ELSE Idle]
  /\ UNCHANGED <<env, row, changes, dispatch, seen, posts, stands>>

(* The commit of a save or of a deletion.                                  *)
Commit(c) ==
  LET k == call[c]
      new == Merged(IF k.fresh THEN Blank ELSE row, k.loaded, k.set)
  IN /\ k.pc = "commit"
     /\ row' = new
     /\ seen' = [a \in Approvals |-> IF dispatch[a].pc = "new" THEN seen[a] \cup {new} ELSE seen[a]]
     /\ stands' = [s \in Sections |->
          IF s \notin k.alone THEN stands[s]
          ELSE IF k.kind = "delete" THEN [f \in Columns(s) |-> Empty(f)]
          ELSE [f \in Columns(s) \cap DOMAIN k.set |-> k.set[f]]]
     /\ call' = [call EXCEPT ![c] = Idle]
     /\ UNCHANGED <<env, changes, dispatch, posts>>

-----------------------------------------------------------------------------
(* post_approval_message: the account a message to Slack goes through; {}  *)
(* if none is configured.  The row counts only while Slack is enabled in   *)
(* it; otherwise, and where it has no token, the environment is used.  An  *)
(* incoming webhook is never called: with it alone the message goes to     *)
(* chat.postMessage without a token or a channel, {None}, in vain.         *)
SlackSender(r) ==
  LET own == r # None /\ r.slack_on
      token == IF own /\ r.slack_token # None THEN {r.slack_token}
               ELSE IF "slack_token" \in env THEN {Global} ELSE {}
      target == "slack_channel" \in env \/ (own /\ r.slack_channel # None)
      hook == own /\ r.slack_url # None
  IN IF (token = {} \/ ~target) /\ ~hook THEN {}
     ELSE IF token # {} /\ target THEN token ELSE {None}

(* post_approval_card.                                                     *)
TeamsSender(r) ==
  IF r # None /\ r.teams_on /\ r.teams_url # None THEN {r.teams_url}
  ELSE IF "teams_url" \in env THEN {Global} ELSE {}

(* _email and _pagerduty: the row's own address and key only.              *)
EmailSender(r) == IF r # None /\ r.mail_on /\ r.mail_to # None THEN {r.mail_to} ELSE {}
PagerDutySender(r) == IF r # None /\ r.pd_on /\ r.pd_key # None THEN {r.pd_key} ELSE {}

Sender(ch, r) ==
  CASE ch = "slack" -> SlackSender(r)
    [] ch = "teams" -> TeamsSender(r)
    [] ch = "email" -> EmailSender(r)
    [] ch = "pagerduty" -> PagerDutySender(r)

(* A check answers require_approval: its request is committed, and the     *)
(* task is created.                                                        *)
Create(a) ==
  /\ dispatch[a].pc = "none"
  /\ dispatch' = [dispatch EXCEPT ![a].pc = "new"]
  /\ seen' = [seen EXCEPT ![a] = {row}]
  /\ UNCHANGED <<env, row, call, changes, posts, stands>>

(* _get_org_integration: the row, or None if the database does not answer. *)
DispatchRead(a) ==
  /\ dispatch[a].pc = "new"
  /\ \E r \in {row, None} :
       /\ dispatch' = [dispatch EXCEPT ![a] = [pc |-> "post", row |-> r, todo |-> Sections,
                                               failed |-> {}]]
       /\ seen' = [seen EXCEPT ![a] = @ \cup {r}]
  /\ UNCHANGED <<env, row, call, changes, posts, stands>>

(* One of the four concurrent posts ends well, if its account allows.      *)
Post(a, ch) ==
  /\ dispatch[a].pc = "post" /\ ch \in dispatch[a].todo
  /\ LET via == Sender(ch, dispatch[a].row) \ {None}
     IN posts' = posts \cup {[about |-> a, channel |-> ch, via |-> k] : k \in via}
  /\ dispatch' = [dispatch EXCEPT ![a].todo = @ \ {ch}]
  /\ UNCHANGED <<env, row, call, changes, seen, stands>>

(* Mutant: the first failure ends the gather.                              *)
PostFails_EndsAll(a, ch) ==
  /\ dispatch[a].pc = "post" /\ ch \in dispatch[a].todo
  /\ Sender(ch, dispatch[a].row) # {}
  /\ dispatch' = [dispatch EXCEPT ![a].todo = {}, ![a].failed = @ \cup {ch}]
  /\ UNCHANGED <<env, row, call, changes, seen, posts, stands>>

(* Or it fails, which is logged and changes nothing for the others.        *)
PostFails(a, ch) ==
  /\ dispatch[a].pc = "post" /\ ch \in dispatch[a].todo
  /\ Sender(ch, dispatch[a].row) # {}
  /\ dispatch' = [dispatch EXCEPT ![a].todo = @ \ {ch}, ![a].failed = @ \cup {ch}]
  /\ UNCHANGED <<env, row, call, changes, seen, posts, stands>>

(* The process stops: requests in progress and tasks are lost.             *)
Crash ==
  LET lost == {a \in Approvals : dispatch[a].pc = "new" \/ dispatch[a].todo # {}}
  IN /\ lost # {}
     /\ call' = [c \in Calls |-> Idle]
     /\ dispatch' = [a \in Approvals |->
                       IF a \in lost THEN [dispatch[a] EXCEPT !.pc = "post", !.todo = {}, !.failed = Sections]
                       ELSE dispatch[a]]
     /\ UNCHANGED <<env, row, changes, seen, posts, stands>>

(* POST .../test: posts with the row as it is, where the row itself says   *)
(* that Slack or Teams is configured; the environment alone does not count.*)
Test(ch) ==
  /\ ch \in {"slack", "teams"}
  /\ row # None
  /\ IF ch = "slack" THEN row.slack_on /\ (row.slack_token # None \/ row.slack_url # None)
     ELSE row.teams_on /\ row.teams_url # None
  /\ posts' = posts \cup {[about |-> "test", channel |-> ch, via |-> k] :
                            k \in Sender(ch, row) \ {None}}
  /\ UNCHANGED <<env, row, call, changes, dispatch, seen, stands>>

Next ==
  \/ \E c \in Calls : \/ \E b \in Bodies : SaveRead(c, b)
                      \/ \E s \in Sections : DeleteRead(c, s)
                      \/ SaveInsert(c)
                      \/ Commit(c)
  \/ \E a \in Approvals : \/ Create(a)
                          \/ DispatchRead(a)
                          \/ \E ch \in Sections : Post(a, ch) \/ PostFails(a, ch)
  \/ \E ch \in Sections : Test(ch)
  \/ Crash

Spec == Init /\ [][Next]_vars

-----------------------------------------------------------------------------
(* The types of the row of org_integrations, the requests that change it   *)
(* and the tasks that read it.                                             *)
TypeOK ==
  /\ row \in Rows \cup {None}
  /\ \A c \in Calls : call[c].pc \in {"idle", "insert", "commit"}
  /\ Cardinality({c \in Calls : call[c].fresh}) <= 1
  /\ \A c \in Calls : call[c].fresh => row = None
  /\ changes \in 0 .. MaxChanges
  /\ \A a \in Approvals : /\ dispatch[a].pc \in {"none", "new", "post"}
                          /\ dispatch[a].todo \cap dispatch[a].failed = {}

(* A request nobody else on the same section overlapped has its effect:    *)
(* what it saved is stored, and of a deleted section nothing is left,      *)
(* however requests on the other sections interleave                       *)
(* (integration_config.py:153-181, :246-279).                              *)
LoneRequestStands ==
  \A s \in Sections : \A f \in DOMAIN stands[s] :
    row # None /\ row[f] = stands[s][f]

(* An approval is only announced through the account of the environment if *)
(* the organisation had none of its own switched on at some moment since   *)
(* the request was made, or its row could not be read (slack.py:178-186).  *)
GlobalOnlyWithout ==
  \A p \in posts : p.via = Global /\ p.about \in Approvals =>
    \E r \in seen[p.about] :
      \/ r = None
      \/ /\ p.channel = "slack"
         /\ ~(r.slack_on /\ r.slack_token # None)
      \/ /\ p.channel = "teams"
         /\ ~(r.teams_on /\ r.teams_url # None)

(* Once its task has ended, an approval was announced on every channel the *)
(* row it read configures in full, but for those that failed themselves:   *)
(* no failure of one channel silences another (notify.py:64-106).          *)
FailuresAreIsolated ==
  \A a \in Approvals : \A ch \in Sections :
    (/\ dispatch[a].pc = "post" /\ dispatch[a].todo = {} /\ ch \notin dispatch[a].failed
     /\ Sender(ch, dispatch[a].row) \ {None} # {})
    => \E p \in posts : p.about = a /\ p.channel = ch
=============================================================================
