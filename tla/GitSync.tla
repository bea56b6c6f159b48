------------------------------ MODULE GitSync ------------------------------
(***************************************************************************)
(* Policies from a git repository (api/v1/git_sync.py): connections, whose *)
(* access token is sealed with the tenant's key (security/kms.py), manual  *)
(* synchronisations, push webhooks and deletion, on worker processes that  *)
(* restart.                                                                *)
(*                                                                         *)
(* No synchronisation ever succeeds: apply_bundle reads an attribute that  *)
(* Policy does not have, so what is fetched is answered with an error.     *)
(* The task of a webhook is given the session of the request, which is     *)
(* closed under it sooner or later; it writes its outcome if it is quicker.*)
(***************************************************************************)
EXTENDS Naturals

CONSTANTS Conns,          \* connections that may be registered
          Workers,        \* the worker processes
          OrgOf,          \* OrgOf[c]: the organisation a connection belongs to
          Garbage,        \* what a wrong key would decrypt to
          MaxRestarts     \* bound on restarts and deployments

GitSyncAssumption ==
  /\ Garbage \notin Conns
  /\ OrgOf \in [Conns -> {OrgOf[c] : c \in Conns}]
  /\ MaxRestarts \in Nat

VARIABLES deploy,         \* the KMS backend, and whether its local key is set
          master,         \* master[w]: the master key w works with, if local
          loaded,         \* workers that have been through get_backend, but
                          \* for the local backend
          restarts,       \* restarts so far; also the next fresh master key
          conn,           \* conn[c]: the row
          job,            \* job[w]: the synchronisation w carries out
          sent,           \* [conn, token]: what the providers were sent
          fails           \* [conn, first]: tokens that could not be opened,
                          \* and whether by a process that came to KMS first

vars == <<deploy, master, loaded, restarts, conn, job, sent, fails>>

Backends == {"local", "aws", "gcp", "azure"}
NoRow == [there |-> FALSE, status |-> "idle", sealed |-> <<>>]
NoJob == [pc |-> "idle", conns |-> {}, hook |-> FALSE, open |-> FALSE, sealed |-> <<>>]

(* A local key that is set is the same in every process, key 0.            *)
MasterOf(w, kept, n) == IF kept THEN 0 ELSE n

Init ==
  /\ deploy \in [backend : Backends, kept : BOOLEAN]
  /\ deploy.backend # "local" => deploy.kept
  /\ \E n \in [Workers -> 1 .. MaxRestarts + 1] :
       /\ \A v, w \in Workers : n[v] = n[w] => v = w
       /\ master = [w \in Workers |-> MasterOf(w, deploy.kept, n[w])]
  /\ loaded = {}
  /\ restarts = 0
  /\ conn = [c \in Conns |-> NoRow]
  /\ job = [w \in Workers |-> NoJob]
  /\ sent = {}
  /\ fails = {}

-----------------------------------------------------------------------------
(* get_backend: outside of the local backend, the first call in a process  *)
(* keeps the backend and then raises, as its log line has arguments that   *)
(* the standard logger does not take (at LOG_LEVEL INFO, the default).     *)
FirstUse(w) == deploy.backend # "local" /\ w \notin loaded
Loading(w) == IF deploy.backend = "local" THEN loaded ELSE loaded \cup {w}

(* LocalKmsBackend.generate_data_key: the key XORed with the master, a     *)
(* separator and the context; the random bytes may contain the separator.  *)
LocalKey(w, org) == [by : {"local"}, key : {master[w]}, context : {org}, split : BOOLEAN]

(* AwsKmsBackend: a blob only KMS can open, in the same context.           *)
AwsKey(w, org) ==
  IF FirstUse(w) THEN {} ELSE [by : {"aws"}, key : {0}, context : {org}, split : {FALSE}]

(* GcpKmsBackend and AzureKmsBackend are asked for a key that is named     *)
(* alias/kynara-tenant-... and prefer it to their own (key_id or ...):     *)
(* neither has such a key, and the request fails.                          *)
GcpKey == {}
AzureKey == {}

(* encrypt_for_tenant: the ways a token may be sealed.                     *)
Sealed(w, token, org) ==
  {[token |-> token, box |-> k] : k \in CASE deploy.backend = "local" -> LocalKey(w, org)
                                          [] deploy.backend = "aws" -> AwsKey(w, org)
                                          [] deploy.backend = "gcp" -> GcpKey
                                          [] deploy.backend = "azure" -> AzureKey}

(* LocalKmsBackend.decrypt: whether it gives the right data key, or {}     *)
(* where it raises: another context, or a blob cut at the wrong separator. *)
(* It notices no wrong master.                                             *)
LocalUnwrapped(w, s, org) ==
  IF s.context # org \/ s.split THEN {} ELSE {master[w] = s.key}

(* AwsKmsBackend.decrypt.                                                  *)
AwsUnwrapped(w, s, org) == IF FirstUse(w) \/ s.context # org THEN {} ELSE {TRUE}

(* A blob of another backend is never understood.                          *)
Unwrapped(w, s, org) ==
  CASE s.by # deploy.backend -> {}
    [] s.by = "local" -> LocalUnwrapped(w, s, org)
    [] s.by = "aws" -> AwsUnwrapped(w, s, org)

(* Mutant: the token is decrypted without its tag being checked.           *)
Opened_Unchecked(w, s, org) ==
  {IF right THEN s.token ELSE Garbage : right \in Unwrapped(w, s.box, org)}

(* decrypt_for_tenant: AES-GCM refuses a wrong key, so the token or {}.    *)
Opened(w, s, org) == {s.token : right \in Unwrapped(w, s.box, org) \cap {TRUE}}

-----------------------------------------------------------------------------
(* POST /git/connect, after the provider has accepted the token: the row,  *)
(* committed.  Where the token cannot be sealed: 500, and no row.          *)
Connect(w, c) ==
  /\ ~conn[c].there /\ conn[c].sealed = <<>>
  /\ \/ \E s \in Sealed(w, c, OrgOf[c]) :
          conn' = [conn EXCEPT ![c] = [NoRow EXCEPT !.there = TRUE, !.sealed = s]]
     \/ Sealed(w, c, OrgOf[c]) = {} /\ UNCHANGED conn
  /\ loaded' = Loading(w)
  /\ UNCHANGED <<deploy, master, restarts, job, sent, fails>>

(* The keys that sign bundles are sealed with the same backend             *)
(* (bundle_signing.py, policy_bundle.py).                                  *)
SignBundle(w) ==
  /\ loaded' = Loading(w)
  /\ UNCHANGED <<deploy, master, restarts, conn, job, sent, fails>>

(* trigger_sync reads the row.                                             *)
SyncRead(w, c) ==
  /\ job[w].pc = "idle"
  /\ conn[c].there
  /\ job' = [job EXCEPT ![w] = [pc |-> "flush", conns |-> {c}, hook |-> FALSE, open |-> TRUE,
                                sealed |-> conn[c].sealed]]
  /\ UNCHANGED <<deploy, master, loaded, restarts, conn, sent, fails>>

(* receive_webhook: the row whose secret signs the body; 202, and a task   *)
(* that goes on with the row and the session of the request.               *)
Hook(w, c) ==
  /\ job[w].pc = "idle"
  /\ conn[c].there
  /\ job' = [job EXCEPT ![w] = [pc |-> "flush", conns |-> {c}, hook |-> TRUE, open |-> TRUE,
                                sealed |-> conn[c].sealed]]
  /\ UNCHANGED <<deploy, master, loaded, restarts, conn, sent, fails>>

(* k holds the row of c: its session is open, and has flushed.             *)
Holds(k, c) == k.pc \in {"fetch", "end"} /\ k.open /\ k.conns = {c}

(* The row of c is locked by somebody other than w.                        *)
Locked(c, w) == \E v \in Workers \ {w} : Holds(job[v], c)

(* _run_sync flushes "syncing": nobody sees it, but the row stays locked   *)
(* until the outcome is committed.  A row that is gone by then raises.     *)
SyncFlush(w, c) ==
  /\ job[w].pc = "flush" /\ job[w].conns = {c}
  /\ ~Locked(c, w)
  /\ job' = [job EXCEPT ![w] = IF conn[c].there THEN [@ EXCEPT !.pc = "fetch"] ELSE NoJob]
  /\ UNCHANGED <<deploy, master, loaded, restarts, conn, sent, fails>>

(* The request of a webhook is over and its session is closed: rolled      *)
(* back, without its rows.  The task goes on with the row as it was read;  *)
(* a flush that was under way raises, and one that had not begun is empty. *)
Close(w, c) ==
  /\ job[w].hook /\ job[w].open /\ job[w].conns = {c}
  /\ \/ job' = [job EXCEPT ![w].open = FALSE, ![w].pc = IF @ = "flush" THEN "fetch" ELSE @]
     \/ job[w].pc = "flush" /\ job' = [job EXCEPT ![w] = NoJob]
  /\ UNCHANGED <<deploy, master, loaded, restarts, conn, sent, fails>>

(* _fetch_policy_file opens the token and sends it to the provider.        *)
Fetch(w, c) ==
  /\ job[w].pc = "fetch" /\ job[w].conns = {c}
  /\ LET tokens == Opened(w, job[w].sealed, OrgOf[c])
     IN /\ sent' = sent \cup {[conn |-> c, token |-> t] : t \in tokens}
        /\ fails' = IF tokens = {} THEN fails \cup {[conn |-> c, first |-> FirstUse(w)]} ELSE fails
  /\ loaded' = Loading(w)
  /\ job' = [job EXCEPT ![w].pc = "end"]
  /\ UNCHANGED <<deploy, master, restarts, conn>>

(* Whatever was fetched, _run_sync ends in its except branch: the error is *)
(* committed if the session still has the row.                             *)
End(w, c) ==
  /\ job[w].pc = "end" /\ job[w].conns = {c}
  /\ conn' = IF job[w].open THEN [conn EXCEPT ![c].status = "error"] ELSE conn
  /\ job' = [job EXCEPT ![w] = NoJob]
  /\ UNCHANGED <<deploy, master, loaded, restarts, sent, fails>>

(* DELETE /git/connections waits for the lock.                             *)
Delete(c) ==
  /\ conn[c].there
  /\ \A w \in Workers : ~Holds(job[w], c)
  /\ conn' = [conn EXCEPT ![c].there = FALSE]
  /\ UNCHANGED <<deploy, master, loaded, restarts, job, sent, fails>>

(* A worker restarts: its transaction is rolled back, its tasks are lost,  *)
(* and get_backend makes up a new local key unless one is set.             *)
Restart(w) ==
  /\ restarts < MaxRestarts
  /\ restarts' = restarts + 1
  /\ master' = [master EXCEPT ![w] = MasterOf(w, deploy.kept, 10 + restarts)]
  /\ loaded' = loaded \ {w}
  /\ job' = [job EXCEPT ![w] = NoJob]
  /\ UNCHANGED <<deploy, conn, sent, fails>>

(* A deployment with another backend restarts every worker.                *)
Deploy(b) ==
  /\ restarts < MaxRestarts
  /\ b # deploy.backend
  /\ deploy' = [backend |-> b, kept |-> TRUE]
  /\ restarts' = restarts + 1
  /\ master' = [w \in Workers |-> 0]
  /\ loaded' = {}
  /\ job' = [w \in Workers |-> NoJob]
  /\ UNCHANGED <<conn, sent, fails>>

Next ==
  \/ \E w \in Workers : \/ Restart(w)
                        \/ SignBundle(w)
                        \/ \E c \in Conns : \/ Connect(w, c)
                                            \/ SyncRead(w, c)
                                            \/ SyncFlush(w, c)
                                            \/ Hook(w, c)
                                            \/ Close(w, c)
                                            \/ Fetch(w, c)
                                            \/ End(w, c)
  \/ \E c \in Conns : Delete(c)
  \/ \E b \in Backends : Deploy(b)

Spec == Init /\ [][Next]_vars

-----------------------------------------------------------------------------
(* The types of the connections and of the synchronisations                *)
(* (models/git_connection.py).                                             *)
TypeOK ==
  /\ deploy \in [backend : Backends, kept : BOOLEAN]
  /\ restarts \in 0 .. MaxRestarts
  /\ \A c \in Conns : conn[c].status \in {"idle", "error"} /\ conn[c].there \in BOOLEAN
  /\ \A w \in Workers : job[w].pc \in {"idle", "flush", "fetch", "end"} /\ job[w].conns \subseteq Conns
  /\ loaded \subseteq Workers
  /\ fails \subseteq [conn : Conns, first : BOOLEAN]

(* A provider is only ever sent the token that was given for this very     *)
(* repository: a wrong data key never turns into a token, although the     *)
(* local backend unwraps with whatever master it has (kms.py:66, :321).    *)
TrueTokens == \A s \in sent : s.token = s.conn

(* A token that cannot be opened was sealed in a local blob that is cut at *)
(* the wrong separator, or with a master key or backend that is gone, or   *)
(* is the first thing its process asks of KMS: with a key that is set, one *)
(* backend, and a process that has been through its first use, every other *)
(* token opens (kms.py:58-71, :268, :283).                                 *)
LostExplained ==
  \A f \in fails :
    \/ conn[f.conn].sealed.box.split
    \/ conn[f.conn].sealed.box.key # 0
    \/ f.first
    \/ restarts > 0

(* While a synchronisation uses the token of a connection and means to     *)
(* write its outcome, the connection is not deleted, nobody else does, and *)
(* the outcome finds a row (git_sync.py:169, :219, :273).                  *)
HeldWhileSyncing ==
  \A w \in Workers : \A c \in Conns : Holds(job[w], c) => conn[c].there /\ ~Locked(c, w)
=============================================================================
