--------------------------- MODULE WebhookOutbox ---------------------------
(***************************************************************************)
(* Delivery of webhook events: the table webhook_outbox of one endpoint,   *)
(* the workers that empty it (webhooks/worker.py) and the administrator    *)
(* who replays deliveries or deletes the endpoint (api/v1/webhooks.py).    *)
(*                                                                         *)
(* A worker's batch is one transaction.  It marks old rows dead, locks the *)
(* due ones FOR UPDATE SKIP LOCKED, posts them one by one, and commits     *)
(* what happened to all of them at the end.  If it fails in between, or    *)
(* finds nothing to deliver, the whole batch is rolled back, but what was  *)
(* posted stays posted.                                                    *)
(*                                                                         *)
(* A row is the rank of its created_at.  The delivery health columns of    *)
(* the endpoint, which are only shown, are left out.                       *)
(***************************************************************************)
EXTENDS Naturals, FiniteSets

CONSTANTS Rows,           \* rows of webhook_outbox
          Workers,
          BatchSize,      \* batch_size
          MaxAttempts,    \* MAX_ATTEMPTS
          MaxReplays,     \* bound: replays of a row
          MaxAborts       \* bound: batches that are rolled back half way

OutboxAssumption ==
  /\ Rows \subseteq Nat
  /\ {BatchSize, MaxAttempts} \subseteq Nat \ {0}
  /\ {MaxReplays, MaxAborts} \subseteq Nat

VARIABLES status, attempts,  \* the columns of a row, as committed
          due,               \* deliver_after has passed
          aged,              \* created_at is 24 hours ago
          endpoint,          \* "up", "deleting", "kept" or "deleted"
          pc,                \* of a worker: idle, select, post or commit
          marked,            \* the rows a worker's UPDATE made dead
          batch,             \* the rows a worker has locked and not settled
          outcome,           \* what a worker's post of a row came to
          replay,            \* the administrator's session
          aborts,
          tally, owed        \* history: posts of a row; dead, replayed, not posted since

outbox == <<status, attempts, due, aged, endpoint>>
workers == <<pc, marked, batch, outcome>>
history == <<tally, owed>>
vars == <<outbox, workers, replay, aborts, history>>

NoReplay == [on |-> {}, status |-> "pending", attempts |-> 0]

(* acks counts the 2xx answers among the posts; lost counts what rolled    *)
(* back batches forgot; unsigned: there was no secret at least once.       *)
NoTally == [posts |-> 0, acks |-> 0, lostPosts |-> 0, lostAcks |-> 0, replays |-> 0,
            unsigned |-> FALSE]

Init ==
  /\ status = [r \in Rows |-> "none"]
  /\ attempts = [r \in Rows |-> 0]
  /\ due = [r \in Rows |-> FALSE]
  /\ aged = [r \in Rows |-> FALSE]
  /\ endpoint = "up"
  /\ pc = [w \in Workers |-> "idle"]
  /\ marked = [w \in Workers |-> {}]
  /\ batch = [w \in Workers |-> {}]
  /\ outcome = [w \in Workers |-> [r \in Rows |-> "none"]]
  /\ replay = NoReplay
  /\ aborts = 0
  /\ tally = [r \in Rows |-> NoTally]
  /\ owed = [r \in Rows |-> FALSE]

-----------------------------------------------------------------------------
(* The rows an open transaction of a worker has locked.                    *)
Held(w) == marked[w] \cup batch[w]

Free(r) == \A w \in Workers : r \notin Held(w)

(* ORDER BY created_at LIMIT k                                             *)
Oldest(S, k) == {r \in S : Cardinality({s \in S : s < r}) < k}

(* The end of a worker's transaction.                                      *)
Close(w) ==
  /\ pc' = [pc EXCEPT ![w] = "idle"]
  /\ marked' = [marked EXCEPT ![w] = {}]
  /\ batch' = [batch EXCEPT ![w] = {}]
  /\ outcome' = [outcome EXCEPT ![w] = [r \in Rows |-> "none"]]

-----------------------------------------------------------------------------
(* enqueue: the row appears with the commit of the state change.           *)
Enqueue(r) ==
  /\ status[r] = "none"
  /\ endpoint \in {"up", "kept"}
  /\ status' = [status EXCEPT ![r] = "pending"]
  /\ due' = [due EXCEPT ![r] = TRUE]
  /\ UNCHANGED <<attempts, aged, endpoint, workers, replay, aborts, history>>

PassBackoff(r) ==
  /\ status[r] # "none"
  /\ ~due[r]
  /\ due' = [due EXCEPT ![r] = TRUE]
  /\ UNCHANGED <<status, attempts, aged, endpoint, workers, replay, aborts, history>>

PassDay(r) ==
  /\ status[r] # "none"
  /\ ~aged[r]
  /\ aged' = [aged EXCEPT ![r] = TRUE]
  /\ UNCHANGED <<status, attempts, due, endpoint, workers, replay, aborts, history>>

(* deliver_pending, the UPDATE: it waits for the locks of others.          *)
Mark(w) ==
  /\ pc[w] = "idle"
  /\ LET old == {r \in Rows : status[r] = "pending" /\ aged[r]}
     IN  /\ \A r \in old : Free(r)
         /\ marked' = [marked EXCEPT ![w] = old]
  /\ pc' = [pc EXCEPT ![w] = "select"]
  /\ UNCHANGED <<outbox, batch, outcome, replay, aborts, history>>

(* Mutant: the SELECT does not lock, as if with_for_update were dropped.   *)
Available_Unlocked(w) ==
  {r \in Rows : status[r] = "pending" /\ due[r] /\ r \notin marked[w]}

(* Mutant: a failed delivery is not taken up again, as if the enum's       *)
(* "failed" were used for it.                                              *)
Available_Unfailed(w) ==
  {r \in Rows : status[r] = "pending" /\ due[r] /\ attempts[r] = 0 /\ Free(r)}

(* FOR UPDATE SKIP LOCKED; the worker's own UPDATE hides what it marked.   *)
Available(w) == {r \in Rows : status[r] = "pending" /\ due[r] /\ Free(r)}

Select(w) ==
  /\ pc[w] = "select"
  /\ Available(w) # {}
  /\ batch' = [batch EXCEPT ![w] = Oldest(Available(w), BatchSize)]
  /\ pc' = [pc EXCEPT ![w] = "post"]
  /\ UNCHANGED <<outbox, marked, outcome, replay, aborts, history>>

(* return 0: the session is closed without a commit.                       *)
SelectNothing(w) ==
  /\ pc[w] = "select"
  /\ Available(w) = {}
  /\ Close(w)
  /\ UNCHANGED <<outbox, replay, aborts, history>>

Todo(w) == {r \in batch[w] : outcome[w][r] = "none"}

(* One row of the batch, in the order it was selected: the endpoint        *)
(* answers 2xx, it does not, or secret_lookup has no secret.               *)
Deliver(w, r, result) ==
  /\ pc[w] = "post"
  /\ r \in Oldest(Todo(w), 1)
  /\ outcome' = [outcome EXCEPT ![w][r] = result]
  /\ pc' = [pc EXCEPT ![w] = IF Todo(w) = {r} THEN "commit" ELSE "post"]
  /\ tally' = [tally EXCEPT ![r].posts = IF result = "unsigned" THEN @ ELSE @ + 1,
                            ![r].acks = IF result = "acked" THEN @ + 1 ELSE @,
                            ![r].unsigned = @ \/ result = "unsigned"]
  /\ owed' = [owed EXCEPT ![r] = FALSE]
  /\ UNCHANGED <<outbox, marked, batch, replay, aborts>>

(* deliver_one counts an attempt before it posts.                          *)
AttemptsAfter(w, r) ==
  IF outcome[w][r] \in {"acked", "failed"} THEN attempts[r] + 1 ELSE attempts[r]

(* What the batch makes of a row.                                          *)
StatusAfter(w, r) ==
  CASE r \in marked[w] \/ outcome[w][r] = "unsigned" -> "dead"
    [] outcome[w][r] = "acked" -> "delivered"
    [] outcome[w][r] = "failed" ->
         IF AttemptsAfter(w, r) >= MaxAttempts THEN "dead" ELSE "pending"
    [] OTHER -> status[r]

(* The commit also updates the endpoint of the rows that were posted,      *)
(* which a DELETE of the endpoint has locked.                              *)
Posted(w) == {r \in batch[w] : outcome[w][r] \in {"acked", "failed"}}

Commit(w) ==
  /\ pc[w] = "commit"
  /\ endpoint = "deleting" => Posted(w) = {}
  /\ status' = [r \in Rows |-> StatusAfter(w, r)]
  /\ attempts' = [r \in Rows |-> AttemptsAfter(w, r)]
  /\ due' = [r \in Rows |-> IF outcome[w][r] = "failed" /\ status'[r] = "pending"
                            THEN FALSE ELSE due[r]]
  /\ Close(w)
  /\ UNCHANGED <<aged, endpoint, replay, aborts, history>>

(* An exception of the batch, a crash of the worker, or the database that  *)
(* breaks the deadlock of a commit with a DELETE: all is rolled back.      *)
Abort(w) ==
  /\ pc[w] # "idle"
  /\ aborts < MaxAborts
  /\ aborts' = aborts + 1
  /\ tally' = [r \in Rows |->
                 [tally[r] EXCEPT
                    !.lostPosts = IF r \in Posted(w) THEN @ + 1 ELSE @,
                    !.lostAcks = IF outcome[w][r] = "acked" THEN @ + 1 ELSE @]]
  /\ Close(w)
  /\ UNCHANGED <<outbox, replay, owed>>

-----------------------------------------------------------------------------
(* replay_delivery reads the row, whatever its status.                     *)
ReplayRead(r) ==
  /\ replay.on = {}
  /\ status[r] \notin {"none", "gone"}
  /\ tally[r].replays < MaxReplays
  /\ replay' = [on |-> {r}, status |-> status[r], attempts |-> attempts[r]]
  /\ UNCHANGED <<outbox, workers, aborts, history>>

(* The session waits for the lock of the row and writes the columns whose  *)
(* value differs from the one it read.  deliver_after stays.               *)
ReplayWrite(r) ==
  /\ replay.on = {r}
  /\ Free(r)
  /\ replay' = NoReplay
  /\ IF status[r] = "gone" THEN UNCHANGED <<status, attempts, history>>
     ELSE /\ status' = [status EXCEPT ![r] = IF replay.status = "pending" THEN @ ELSE "pending"]
          /\ attempts' = [attempts EXCEPT ![r] = IF replay.attempts = 0 THEN @ ELSE 0]
          /\ tally' = [tally EXCEPT ![r].replays = @ + 1]
          /\ owed' = [owed EXCEPT ![r] = replay.status = "dead"]
  /\ UNCHANGED <<due, aged, endpoint, workers, aborts>>

(* delete_endpoint: the DELETE locks the endpoint, then its rows.          *)
StartDelete ==
  /\ endpoint = "up"
  /\ endpoint' = "deleting"
  /\ UNCHANGED <<status, attempts, due, aged, workers, replay, aborts, history>>

FinishDelete ==
  /\ endpoint = "deleting"
  /\ \A r \in Rows : Free(r)
  /\ endpoint' = "deleted"
  /\ status' = [r \in Rows |-> IF status[r] = "none" THEN "none" ELSE "gone"]
  /\ UNCHANGED <<attempts, due, aged, workers, replay, aborts, history>>

(* The database breaks the deadlock the other way.                         *)
DeleteIsVictim ==
  /\ endpoint = "deleting"
  /\ \E w \in Workers : pc[w] = "commit" /\ Posted(w) # {}
  /\ endpoint' = "kept"
  /\ UNCHANGED <<status, attempts, due, aged, workers, replay, aborts, history>>

WorkerStep(w) ==
  \/ Mark(w) \/ Select(w) \/ SelectNothing(w) \/ Commit(w)
  \/ \E r \in Rows, result \in {"acked", "failed", "unsigned"} : Deliver(w, r, result)

Next ==
  \/ \E r \in Rows : \/ Enqueue(r) \/ PassBackoff(r) \/ PassDay(r)
                     \/ ReplayRead(r) \/ ReplayWrite(r)
  \/ \E w \in Workers : WorkerStep(w) \/ Abort(w)
  \/ StartDelete \/ FinishDelete \/ DeleteIsVictim

Spec == Init /\ [][Next]_vars

(* The workers run (run_loop never returns), backoffs end, and the         *)
(* database resolves what is locked.  Nothing is promised of the           *)
(* administrator, and a day need not pass.                                 *)
Fairness ==
  /\ \A w \in Workers : WF_vars(WorkerStep(w))
  /\ \A r \in Rows : WF_vars(PassBackoff(r))
  /\ WF_vars(FinishDelete) /\ WF_vars(DeleteIsVictim)

FairSpec == Spec /\ Fairness

-----------------------------------------------------------------------------
(* The types of the variables (models/webhook.py); a row that a worker     *)
(* delivers is not one it has just marked dead.                            *)
TypeOK ==
  /\ status \in [Rows -> {"none", "pending", "delivered", "dead", "gone"}]
  /\ attempts \in [Rows -> 0 .. MaxAttempts]
  /\ {due, aged, owed} \subseteq [Rows -> BOOLEAN]
  /\ endpoint \in {"up", "deleting", "kept", "deleted"}
  /\ pc \in [Workers -> {"idle", "select", "post", "commit"}]
  /\ {marked, batch} \subseteq [Workers -> SUBSET Rows]
  /\ outcome \in [Workers -> [Rows -> {"none", "acked", "failed", "unsigned"}]]
  /\ \A w \in Workers : marked[w] \cap batch[w] = {}
  /\ replay \in [on : {{}} \cup {{r} : r \in Rows},
                 status : {"pending", "delivered", "dead"}, attempts : 0 .. MaxAttempts]
  /\ aborts \in 0 .. MaxAborts
  /\ tally \in [Rows -> [posts : Nat, acks : Nat, lostPosts : Nat, lostAcks : Nat,
                         replays : 0 .. MaxReplays, unsigned : BOOLEAN]]

(* A receiver sees an event more than once only because a batch was rolled *)
(* back after its post or because somebody replayed it: two workers never  *)
(* deliver the same row (with_for_update(skip_locked=True)).               *)
DuplicatesExplained ==
  \A r \in Rows : tally[r].acks <= 1 + tally[r].lostAcks + tally[r].replays

(* A row is posted MAX_ATTEMPTS times, again after each replay; only       *)
(* batches that were rolled back add to that.                              *)
PostsBounded ==
  \A r \in Rows :
    tally[r].posts <= MaxAttempts * (1 + tally[r].replays) + tally[r].lostPosts

(* What the console shows is what happened: a delivered row was            *)
(* acknowledged by a post that was not forgotten, and a row that is dead   *)
(* within the day had its attempts or no secret.                           *)
SettledIsTrue ==
  \A r \in Rows :
    /\ status[r] = "delivered" => tally[r].acks > tally[r].lostAcks
    /\ status[r] = "dead" /\ ~aged[r] =>
         \/ tally[r].posts - tally[r].lostPosts >= MaxAttempts
         \/ tally[r].unsigned

(* Every event is settled within the day, or the day passes.               *)
EveryEventSettles ==
  \A r \in Rows : status[r] = "pending" ~> status[r] # "pending" \/ aged[r]

-----------------------------------------------------------------------------
(* What comments say and the code does not do.                             *)

(* api/v1/webhooks.py, replay_delivery: "Re-queue a failed/dead delivery   *)
(* for another attempt".                                                   *)
ReplayRequeues == \A r \in Rows : owed[r] => status[r] # "dead"

=============================================================================
