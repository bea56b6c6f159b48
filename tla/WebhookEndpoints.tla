-------------------------- MODULE WebhookEndpoints --------------------------
(***************************************************************************)
(* The endpoints of an organisation's webhooks (api/v1/webhooks.py) and    *)
(* what is queued for them (webhooks/service.py, enqueue), up to the row   *)
(* of the outbox that WebhookOutbox delivers.                              *)
(*                                                                         *)
(* An endpoint's secret is shown in the answer that made it and kept as a  *)
(* hash; an answer may be lost.  enqueue reads who subscribes and inserts  *)
(* a row for each: rows that refer to an endpoint deleted in between are   *)
(* refused, all of them.  Nothing disables an endpoint.                    *)
(***************************************************************************)
EXTENDS Naturals

CONSTANTS Endpoints,      \* ids of endpoints, each used once
          Changes,        \* what there is to announce, each once
          Clients,        \* requests in flight
          MaxSecrets,     \* bound on secrets
          None

(* None is an id of nothing and no row of the table.                       *)
EndpointsAssumption ==
  /\ MaxSecrets \in Nat
  /\ None \notin Endpoints \cup Changes
  /\ None \notin [hears : BOOLEAN, secret : 1 .. MaxSecrets]

VARIABLES endpoint,       \* endpoint[e]: the row, None without one
          used,           \* ids that were given
          secrets,        \* secrets stored so far, numbered as they are
          shown,          \* shown[e]: the secret of e somebody was last shown
          mixed,          \* endpoints whose answers crossed or were lost
          queued,         \* rows of the outbox: endpoint and change
          announced,      \* changes whose rows are committed
          refused,        \* changes whose rows were refused
          due,            \* due[k]: who subscribed when k was begun
          caller          \* the requests

endpoints == <<endpoint, used, secrets, shown, mixed, queued, announced, refused, due, caller>>

Idle == [pc |-> "idle", e |-> None, k |-> None, secret |-> 0, to |-> {}]

Init ==
  /\ endpoint = [e \in Endpoints |-> None]
  /\ used = {} /\ secrets = 0
  /\ shown = [e \in Endpoints |-> 0]
  /\ mixed = {}
  /\ queued = {} /\ announced = {} /\ refused = {}
  /\ due = [k \in Changes |-> {}]
  /\ caller = [c \in Clients |-> Idle]

Present == {e \in Endpoints : endpoint[e] # None}

(* enqueue's query: the enabled endpoints that subscribe to the event.     *)
Subscribed == {e \in Present : endpoint[e].hears}

Ends(c) == caller' = [caller EXCEPT ![c] = Idle]

(* Another answer about e is still on its way.                             *)
Crossing(c, e) == \E d \in Clients \ {c} : caller[d].pc = "answer" /\ caller[d].e = e

-----------------------------------------------------------------------------
(* What create_endpoint of the service stores: every endpoint is enabled.  *)
NewEndpoint(hears, secret) == [hears |-> hears, secret |-> secret]

(* WebhookService.create_endpoint and its commit.                          *)
Create(c, e, hears) ==
  /\ caller[c].pc = "idle"
  /\ e \notin used /\ secrets < MaxSecrets
  /\ used' = used \cup {e}
  /\ secrets' = secrets + 1
  /\ endpoint' = [endpoint EXCEPT ![e] = NewEndpoint(hears, secrets + 1)]
  /\ caller' = [caller EXCEPT ![c] = [Idle EXCEPT !.pc = "answer", !.e = e, !.secret = secrets + 1]]
  /\ UNCHANGED <<shown, mixed, queued, announced, refused, due>>

(* rotate_secret reads the endpoint; 404 without one.                      *)
RotateRead(c, e) ==
  /\ caller[c].pc = "idle" /\ e \in Present
  /\ caller' = [caller EXCEPT ![c] = [Idle EXCEPT !.pc = "rotate", !.e = e]]
  /\ UNCHANGED <<endpoint, used, secrets, shown, mixed, queued, announced, refused, due>>

(* The new hash is flushed and committed; an endpoint that is gone by then *)
(* matches no row, 500.                                                    *)
RotateCommit(c) ==
  /\ caller[c].pc = "rotate"
  /\ LET e == caller[c].e
     IN IF e \in Present
        THEN /\ secrets < MaxSecrets
             /\ secrets' = secrets + 1
             /\ endpoint' = [endpoint EXCEPT ![e].secret = secrets + 1]
             /\ caller' = [caller EXCEPT ![c].pc = "answer", ![c].secret = secrets + 1]
             /\ mixed' = IF Crossing(c, e) THEN mixed \cup {e} ELSE mixed
        ELSE Ends(c) /\ UNCHANGED <<endpoint, secrets, mixed>>
  /\ UNCHANGED <<used, shown, queued, announced, refused, due>>

(* FreshSecretOut: the only time the secret is shown.                      *)
Answer(c) ==
  /\ caller[c].pc = "answer"
  /\ shown' = [shown EXCEPT ![caller[c].e] = caller[c].secret]
  /\ Ends(c)
  /\ UNCHANGED <<endpoint, used, secrets, mixed, queued, announced, refused, due>>

(* The connection is lost, or the process: the transaction is rolled back, *)
(* the answer never arrives.                                               *)
Lost(c) ==
  /\ caller[c].pc # "idle"
  /\ mixed' = IF caller[c].pc = "answer" THEN mixed \cup {caller[c].e} ELSE mixed
  /\ Ends(c)
  /\ UNCHANGED <<endpoint, used, secrets, shown, queued, announced, refused, due>>

(* delete_endpoint: its rows of the outbox go with it.                     *)
Delete(e) ==
  /\ e \in Present
  /\ endpoint' = [endpoint EXCEPT ![e] = None]
  /\ queued' = {q \in queued : q[1] # e}
  /\ UNCHANGED <<used, secrets, shown, mixed, announced, refused, due, caller>>

-----------------------------------------------------------------------------
(* test_endpoint finds the endpoint, and goes on to announce an event to   *)
(* everybody who subscribes to decision.allowed, this one or not.          *)
TestRead(c, e, k) ==
  /\ caller[c].pc = "idle" /\ e \in Present
  /\ k \notin announced \cup refused /\ \A d \in Clients : caller[d].k # k
  /\ due' = [due EXCEPT ![k] = Subscribed]
  /\ caller' = [caller EXCEPT ![c] = [Idle EXCEPT !.pc = "select", !.k = k]]
  /\ UNCHANGED <<endpoint, used, secrets, shown, mixed, queued, announced, refused>>

(* enqueue in the transaction of a test, or of another change.             *)
Select(c, k) ==
  /\ \/ caller[c].pc = "select" /\ caller[c].k = k /\ UNCHANGED due
     \/ /\ caller[c].pc = "idle"
        /\ k \notin announced \cup refused /\ \A d \in Clients : caller[d].k # k
        /\ due' = [due EXCEPT ![k] = Subscribed]
  /\ caller' = [caller EXCEPT ![c] = [Idle EXCEPT !.pc = "insert", !.k = k, !.to = Subscribed]]
  /\ UNCHANGED <<endpoint, used, secrets, shown, mixed, queued, announced, refused>>

(* Its rows are inserted and committed, or one of them has lost its        *)
(* endpoint and all are refused.                                           *)
Insert(c) ==
  /\ caller[c].pc = "insert"
  /\ IF caller[c].to \subseteq Present
     THEN /\ queued' = queued \cup (caller[c].to \X {caller[c].k})
          /\ announced' = announced \cup {caller[c].k}
          /\ UNCHANGED refused
     ELSE refused' = refused \cup {caller[c].k} /\ UNCHANGED <<queued, announced>>
  /\ Ends(c)
  /\ UNCHANGED <<endpoint, used, secrets, shown, mixed, due>>

Next ==
  \/ \E c \in Clients :
       \/ \E e \in Endpoints : \/ \E hears \in BOOLEAN : Create(c, e, hears)
                               \/ RotateRead(c, e)
                               \/ \E k \in Changes : TestRead(c, e, k)
       \/ RotateCommit(c) \/ Answer(c) \/ Lost(c)
       \/ \E k \in Changes : Select(c, k)
       \/ Insert(c)
  \/ \E e \in Endpoints : Delete(e)

Spec == Init /\ [][Next]_endpoints

-----------------------------------------------------------------------------
(* The types of the endpoints and of what is queued (models/webhook.py).   *)
TypeOK ==
  /\ endpoint \in [Endpoints -> [hears : BOOLEAN, secret : 1 .. MaxSecrets] \cup {None}]
  /\ secrets \in 0 .. MaxSecrets
  /\ shown \in [Endpoints -> 0 .. MaxSecrets]
  /\ mixed \subseteq used /\ used \subseteq Endpoints
  /\ queued \subseteq Endpoints \X Changes
  /\ \A c \in Clients : caller[c].pc \in {"idle", "rotate", "answer", "select", "insert"}

(* The secret somebody was last shown is the one that is stored, unless    *)
(* the answer with another is on its way, was lost, or was overtaken       *)
(* (webhooks.py:107, :146: the commit comes before the answer).            *)
SecretsExplained ==
  \A e \in Present \ mixed :
    shown[e] = endpoint[e].secret
      \/ \E c \in Clients : caller[c].pc = "answer" /\ caller[c].e = e

(* What is committed has a row for everyone who subscribed before and is   *)
(* still there, and none for an endpoint that is gone: a deletion in       *)
(* between costs all the rows or its own alone (service.py:111-130).       *)
EveryoneTold ==
  /\ \A k \in announced : \A e \in due[k] \cap Present : <<e, k>> \in queued
  /\ \A q \in queued : q[1] \in Present

(* Rows are only refused for an endpoint that was deleted meanwhile.       *)
RefusedByDeletion == \A k \in refused : used \ Present # {}
=============================================================================
