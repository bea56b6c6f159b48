---------------------------- MODULE Credentials ----------------------------
(***************************************************************************)
(* The credentials of an agent (api/v1/agent_credentials.py).  A rotation  *)
(* revokes the old credential and issues its successor in one transaction; *)
(* a request reads whether the credential is active, and nothing locks it. *)
(* No request is ever authenticated with one of them.                      *)
(***************************************************************************)
EXTENDS Naturals

CONSTANTS Creds, Requests, None

VARIABLES cred,       \* the rows
          req

vars == <<cred, req>>

Kinds == {"api_key", "mtls_cert"}

(* from     history: the credential it was rotated from                    *)
(* revoked  history: by how many requests to revoke it, or to rotate it    *)
CredType == [kind : Kinds, active : BOOLEAN, from : Creds \cup {None},
             revoked : Nat, rotated : Nat]

(* asked   credential_type of the request, "other" is none of the two      *)
(* stale   history: the credential was revoked since this request read it  *)
ReqType == [pc : {"new", "revoke", "rotate", "done"}, cred : Creds \cup {None},
            asked : Kinds \cup {"other", None}, stale : BOOLEAN]
New == [pc |-> "new", cred |-> None, asked |-> None, stale |-> FALSE]

(* None is no credential, and no row of one.                               *)
CredentialsAssumption == None \notin Creds /\ None \notin CredType

Issued(kind, from) ==
  [kind |-> kind, active |-> TRUE, from |-> from, revoked |-> 0, rotated |-> 0]

Unused == {c \in Creds : cred[c] = None}

Init == cred = [c \in Creds |-> None] /\ req = [r \in Requests |-> New]

End(r) == req' = [req EXCEPT ![r].pc = "done"]

(* The request ends and those that read the credential before are stale.   *)
EndOn(r, c) ==
  req' = [s \in Requests |->
    IF s = r THEN [req[s] EXCEPT !.pc = "done"]
    ELSE [req[s] EXCEPT !.stale = @ \/ (req[s].cred = c /\ req[s].pc # "done")]]

-----------------------------------------------------------------------------
Issue(r, kind) ==
  /\ req[r].pc = "new"
  /\ \E c \in Unused : cred' = [cred EXCEPT ![c] = Issued(kind, None)]
  /\ End(r)

(* revoke_credential and rotate_credential answer 400 to the second.       *)
Revocable(c) == cred[c] # None /\ cred[c].active

Read(r, c, next, asked) ==
  /\ req[r].pc = "new" /\ Revocable(c)
  /\ req' = [req EXCEPT ![r] = [New EXCEPT !.pc = next, !.cred = c, !.asked = asked]]
  /\ UNCHANGED cred

RevokeRead(r, c) == Read(r, c, "revoke", None)
RotateRead(r, c, asked) == Read(r, c, "rotate", asked)

RevokeCommit(r) ==
  LET c == req[r].cred IN
  /\ req[r].pc = "revoke"
  /\ cred' = [cred EXCEPT ![c].active = FALSE, ![c].revoked = @ + 1]
  /\ EndOn(r, c)

(* A rotation keeps the kind when none, or api_key, is asked for.          *)
Successor(k) ==
  Issued(IF k.asked = "api_key" THEN cred[k.cred].kind ELSE k.asked, k.cred)

RotateCommit(r) ==
  LET k == req[r] IN
  /\ k.pc = "rotate" /\ k.asked \in Kinds
  /\ \E c \in Unused :
       cred' = [cred EXCEPT ![c] = Successor(k), ![k.cred].active = FALSE,
                            ![k.cred].rotated = @ + 1]
  /\ EndOn(r, k.cred)

(* A kind it does not know, or an audit row that is refused, undoes it all.*)
Fail(r) ==
  /\ req[r].pc \in {"revoke", "rotate"}
  /\ End(r)
  /\ UNCHANGED cred

Next ==
  \E r \in Requests :
    \/ \E k \in Kinds : Issue(r, k)
    \/ \E c \in Creds : \/ RevokeRead(r, c)
                        \/ \E a \in Kinds \cup {"other"} : RotateRead(r, c, a)
    \/ RevokeCommit(r) \/ RotateCommit(r) \/ Fail(r)

Spec == Init /\ [][Next]_vars

-----------------------------------------------------------------------------
(* The types of the rows (models/agent_credential.py); no more of them     *)
(* than requests that issue one.                                           *)
TypeOK ==
  /\ cred \in [Creds -> CredType \cup {None}]
  /\ req \in [Requests -> ReqType]

(* A credential stops working only when it was revoked or has a successor, *)
(* whatever fails on the way (rotate_credential: "a single atomic          *)
(* operation").                                                            *)
NeverWithout ==
  \A c \in Creds \ Unused :
    ~cred[c].active => cred[c].revoked > 0 \/ \E d \in Creds \ Unused : cred[d].from = c

(* Two credentials with one predecessor, or the successor of a credential  *)
(* that was revoked, come from requests that overlapped.                   *)
HeirsExplained ==
  \A c \in Creds \ Unused :
    cred[c].rotated > 1 \/ (cred[c].rotated > 0 /\ cred[c].revoked > 0) =>
      \E r \in Requests : req[r].cred = c /\ req[r].stale

=============================================================================
