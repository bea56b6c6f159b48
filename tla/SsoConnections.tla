--------------------------- MODULE SsoConnections ---------------------------
(***************************************************************************)
(* Single sign-on connections: their administration                        *)
(* (api/v1/sso_connections.py), and the OIDC login that goes through one   *)
(* of them (api/v1/sso.py, sso/okta_oidc.py) while they change.            *)
(*                                                                         *)
(* A login reads its connection twice: when it begins, for the issuer,     *)
(* which it keeps in Redis; and when the browser comes back, for the       *)
(* client secret, which it sends to the issuer it kept.                    *)
(***************************************************************************)
EXTENDS Naturals, Sequences, FiniteSets

CONSTANTS Orgs, Users,
          Member,         \* Member[u]: the organisations u belongs to
          DomainOf,       \* DomainOf[u]: the domain of u's address
          Issuers, Domains,
          Bodies,         \* what administrators send for a connection
          Slots,          \* connections that there may be
          Calls,
          None, Gone,
          MaxChanges,     \* bound on calls of administrators
          MaxLogins       \* bound on logins begun

SsoAssumption ==
  /\ Member \in [Users -> SUBSET Orgs] /\ DomainOf \in [Users -> Domains]
  /\ Bodies \subseteq [name : STRING, protocol : {"oidc", "saml"}, issuer : Issuers \cup {None},
                       secret : Issuers \cup {None}, domain : Domains \cup {None}]
  /\ None \notin Issuers \cup Domains /\ None # Gone
  /\ MaxChanges \in Nat /\ MaxLogins \in Nat

VARIABLES conn,           \* sso_connections, Gone once deleted; a secret is the
                          \* issuer that gave it
          bundle,         \* Redis: the state of logins begun
          call,           \* call[c]: a request in flight
          paired,         \* <<secret, issuer>>: rows that existed
          sent,           \* secrets sent: [secret, issuer, now]
          logins,         \* logins that succeeded
          refused,        \* creations the unique index refused, and whether they overlapped
          changes

sso == <<conn, bundle, call, paired, sent, logins, refused, changes>>

Idle == [pc |-> "idle"]

Init ==
  /\ conn = [i \in Slots |-> None]
  /\ bundle = <<>>
  /\ call = [c \in Calls |-> Idle]
  /\ paired = {} /\ sent = {} /\ logins = {} /\ refused = {}
  /\ changes = 0

Rows == {i \in Slots : conn[i] \notin {None, Gone}}

(* uq_sso_slug.                                                            *)
SlugTaken(org, slug) == \E i \in Rows : conn[i].org = org /\ conn[i].slug = slug

Changes(c) == call[c].pc = "idle" /\ changes < MaxChanges /\ changes' = changes + 1

Ends(c) == call' = [call EXCEPT ![c] = Idle]

-----------------------------------------------------------------------------
(* _slugify, and a suffix that nobody else has, or 0.                      *)
Slug(b, suffix) == [name |-> b.name, protocol |-> b.protocol, suffix |-> suffix]

(* The creations under way, which another one meets.                       *)
Creating == {d \in Calls : call[d].pc = "create"}
Met == [d \in Calls |-> IF d \in Creating THEN [call[d] EXCEPT !.overlap = TRUE] ELSE call[d]]

(* create_connection: a taken slug gets a random suffix.                   *)
CreateRead(c, o, b) ==
  /\ Changes(c)
  /\ call' = [Met EXCEPT ![c] =
                 [pc |-> "create", org |-> o, body |-> b,
                  slug |-> Slug(b, IF SlugTaken(o, Slug(b, 0)) THEN changes + 1 ELSE 0),
                  overlap |-> Creating # {}]]
  /\ UNCHANGED <<conn, bundle, paired, sent, logins, refused>>

NewRow(o, slug, b) ==
  [org |-> o, slug |-> slug, protocol |-> b.protocol, issuer |-> b.issuer, secret |-> b.secret,
   domain |-> b.domain, enabled |-> TRUE]

CreateCommit(c) ==
  /\ call[c].pc = "create"
  /\ IF SlugTaken(call[c].org, call[c].slug)
     THEN refused' = refused \cup {call[c].overlap} /\ UNCHANGED <<conn, paired>>
     ELSE LET row == NewRow(call[c].org, call[c].slug, call[c].body)
          IN /\ \E i \in Slots : conn[i] = None /\ conn' = [conn EXCEPT ![i] = row]
             /\ paired' = paired \cup {<<row.secret, row.issuer>>}
             /\ UNCHANGED refused
  /\ Ends(c)
  /\ UNCHANGED <<bundle, sent, logins, changes>>

(* update_connection, patch_connection: the row as it is loaded, and as    *)
(* the call will have it.  PUT keeps a field the body leaves empty - but   *)
(* the domain, which it removes - and PATCH writes only the switch.        *)
Put(row, b) ==
  [row EXCEPT !.issuer = IF b.issuer = None THEN @ ELSE b.issuer,
              !.secret = IF b.secret = None THEN @ ELSE b.secret,
              !.domain = b.domain]

Update(c, i, b) ==
  /\ Changes(c) /\ i \in Rows
  /\ call' = [call EXCEPT ![c] = [pc |-> "update", i |-> i, saw |-> conn[i], new |-> Put(conn[i], b)]]
  /\ UNCHANGED <<conn, bundle, paired, sent, logins, refused>>

Patch(c, i, on) ==
  /\ Changes(c) /\ i \in Rows
  /\ call' = [call EXCEPT ![c] = [pc |-> "patch", i |-> i, saw |-> conn[i],
                                  new |-> [conn[i] EXCEPT !.enabled = on]]]
  /\ UNCHANGED <<conn, bundle, paired, sent, logins, refused>>

(* The UPDATE names the columns that differ from what was loaded.          *)
Column(is, was, to) == IF to # was THEN to ELSE is

Written(row, saw, new) ==
  [row EXCEPT !.issuer = Column(@, saw.issuer, new.issuer),
              !.secret = Column(@, saw.secret, new.secret),
              !.domain = Column(@, saw.domain, new.domain),
              !.enabled = Column(@, saw.enabled, new.enabled)]

(* A row that was deleted meanwhile is not updated: the call fails.        *)
UpdateCommit(c) ==
  /\ call[c].pc \in {"update", "patch"}
  /\ LET i == call[c].i
     IN IF i \in Rows
        THEN LET row == Written(conn[i], call[c].saw, call[c].new)
             IN conn' = [conn EXCEPT ![i] = row] /\ paired' = paired \cup {<<row.secret, row.issuer>>}
        ELSE UNCHANGED <<conn, paired>>
  /\ Ends(c)
  /\ UNCHANGED <<bundle, sent, logins, refused, changes>>

Delete(c, i) ==
  /\ Changes(c) /\ i \in Rows
  /\ conn' = [conn EXCEPT ![i] = Gone]
  /\ UNCHANGED <<bundle, call, paired, sent, logins, refused>>

-----------------------------------------------------------------------------
Enabled(i) == conn[i].enabled
Oidc(i) == conn[i].protocol = "oidc"
ForDomain(u) == {i \in Rows : Enabled(i) /\ conn[i].domain = DomainOf[u]}

(* lookup_by_email, when it reads the membership in m: the connections of  *)
(* that organisation, or else those for the domain.                        *)
Offered(u, m) ==
  LET own == {i \in Rows : conn[i].org \in m /\ Enabled(i)}
  IN IF own # {} THEN own ELSE ForDomain(u)

(* oidc_start with an address: the same, among OIDC connections.           *)
Found(u, m) ==
  LET own == {i \in Rows : conn[i].org \in m /\ Enabled(i) /\ Oidc(i)}
  IN IF own # {} THEN own ELSE {i \in ForDomain(u) : Oidc(i)}

(* The membership that is read first, none if there is none.               *)
FirstOf(u) == IF Member[u] = {} THEN {{}} ELSE {{m} : m \in Member[u]}

Usable(i) == i \in Rows /\ Oidc(i) /\ Enabled(i) /\ conn[i].issuer # None

(* oidc_start: with the connection Found, or the one the login page was    *)
(* offered, which may have changed since.                                  *)
Start(c, u) ==
  /\ call[c].pc = "idle" /\ Len(bundle) < MaxLogins
  /\ \E i \in Slots :
       /\ Usable(i)
       /\ call' = [call EXCEPT ![c] = [pc |-> "start", i |-> i, user |-> u, issuer |-> conn[i].issuer]]
  /\ UNCHANGED <<conn, bundle, paired, sent, logins, refused, changes>>

(* start_flow_with_config asks the issuer for its endpoints; then the      *)
(* issuer, but not the secret, is kept in Redis for ten minutes.           *)
StartStore(c) ==
  /\ call[c].pc = "start"
  /\ \/ /\ Len(bundle) < MaxLogins
        /\ bundle' = Append(bundle, [i |-> call[c].i, user |-> call[c].user, issuer |-> call[c].issuer,
                                     code |-> "none", here |-> TRUE])
     \/ UNCHANGED bundle
  /\ Ends(c)
  /\ UNCHANGED <<conn, paired, sent, logins, refused, changes>>

(* The user signs in at the issuer, which gives out a code.                *)
IssueCode(k) ==
  /\ bundle[k].code = "none"
  /\ bundle' = [bundle EXCEPT ![k].code = "issued"]
  /\ UNCHANGED <<conn, call, paired, sent, logins, refused, changes>>

(* Ten minutes pass.                                                       *)
Expire(k) ==
  /\ bundle[k].here
  /\ bundle' = [bundle EXCEPT ![k].here = FALSE]
  /\ UNCHANGED <<conn, call, paired, sent, logins, refused, changes>>

(* oidc_callback: GET, then DEL, which another callback may do in between. *)
Callback(c, k) ==
  /\ call[c].pc = "idle" /\ bundle[k].here /\ bundle[k].code # "none"
  /\ call' = [call EXCEPT ![c] = [pc |-> "blob", k |-> k]]
  /\ UNCHANGED <<conn, bundle, paired, sent, logins, refused, changes>>

IssuerNow(i) == IF i \in Rows THEN conn[i].issuer ELSE None

(* The connection is read again, for its organisation and its secret.      *)
CallbackRead(c) ==
  /\ call[c].pc = "blob"
  /\ LET k == call[c].k
         i == bundle[k].i
     IN /\ bundle' = [bundle EXCEPT ![k].here = FALSE]
        /\ call' = [call EXCEPT ![c] = IF i \in Rows
                                       THEN [pc |-> "exchange", k |-> k, row |-> conn[i],
                                             now |-> IssuerNow(i)]
                                       ELSE Idle]
  /\ UNCHANGED <<conn, paired, sent, logins, refused, changes>>

(* Mutant: the code goes to the issuer the connection names by now.        *)
Issuer_Current(c) == call[c].row.issuer

(* complete_flow_with_config: the token endpoint of the issuer in Redis.   *)
Issuer(c) == bundle[call[c].k].issuer

(* The issuer takes its code once, for the secret it gave.                 *)
Accepted(c) ==
  /\ bundle[call[c].k].code = "issued"
  /\ Issuer(c) = bundle[call[c].k].issuer
  /\ call[c].row.secret = Issuer(c)

(* Then the user must be a member of the connection's organisation.        *)
Exchange(c) ==
  /\ call[c].pc = "exchange"
  /\ LET k == call[c].k
         u == bundle[k].user
         o == call[c].row.org
     IN /\ sent' = sent \cup {[secret |-> call[c].row.secret, issuer |-> Issuer(c),
                               begun |-> bundle[k].issuer, now |-> call[c].now]}
        /\ bundle' = IF Accepted(c) THEN [bundle EXCEPT ![k].code = "used"] ELSE bundle
        /\ logins' = IF Accepted(c) /\ o \in Member[u]
                     THEN logins \cup {[user |-> u, org |-> o, k |-> k]}
                     ELSE logins
  /\ Ends(c)
  /\ UNCHANGED <<conn, paired, refused, changes>>

Next ==
  \/ \E c \in Calls :
       \/ \E o \in Orgs, b \in Bodies : CreateRead(c, o, b)
       \/ \E i \in Slots : \/ \E b \in Bodies : Update(c, i, b)
                           \/ \E on \in BOOLEAN : Patch(c, i, on)
                           \/ Delete(c, i)
       \/ CreateCommit(c) \/ UpdateCommit(c)
       \/ \E u \in Users : Start(c, u)
       \/ StartStore(c)
       \/ \E k \in DOMAIN bundle : Callback(c, k)
       \/ CallbackRead(c) \/ Exchange(c)
  \/ \E k \in DOMAIN bundle : IssueCode(k) \/ Expire(k)

Spec == Init /\ [][Next]_sso

-----------------------------------------------------------------------------
(* The types of the connections and of the logins under way (models/sso.py)*)
(* and one row per slug of an organisation.                                *)
TypeOK ==
  /\ \A i \in Rows : /\ conn[i].org \in Orgs /\ conn[i].issuer \in Issuers \cup {None}
                     /\ conn[i].secret \in Issuers \cup {None}
                     /\ \A j \in Rows : conn[i].org = conn[j].org /\ conn[i].slug = conn[j].slug => i = j
  /\ \A k \in DOMAIN bundle : bundle[k].i \in Slots /\ bundle[k].issuer \in Issuers
  /\ \A c \in Calls : call[c].pc \in {"idle", "create", "update", "patch", "start", "blob", "exchange"}

(* A client secret reaches another issuer than the one it is configured    *)
(* with only when the connection names another issuer by then              *)
(* (sso.py:327-336, okta_oidc.py:130-147).                                 *)
SecretsExplained ==
  \A s \in sent : <<s.secret, s.issuer>> \in paired \/ s.now # s.begun

(* The code of a login goes to the issuer that gave it, whatever became of *)
(* the connection since (sso.py:321-336, okta_oidc.py:130).                *)
SentWhereBegun == \A s \in sent : s.issuer = s.begun

(* oidc_start never takes another connection than lookup offers for the    *)
(* same address, unless all it offers is SAML (sso.py:237-284, 453-497).   *)
SameDoor ==
  \A u \in Users : \A m \in FirstOf(u) :
    \/ Found(u, m) \subseteq Offered(u, m)
    \/ Offered(u, m) # {} /\ \A i \in Offered(u, m) : ~Oidc(i)

(* A connection is refused for its slug only if another was being created  *)
(* (sso_connections.py:78-85).                                             *)
RefusedByOverlap == refused \subseteq {TRUE}

(* A connection is on or off as it was, unless a PATCH on it ends.         *)
SwitchStandsStep ==
  \A i \in Rows : conn'[i] # Gone /\ conn'[i].enabled # conn[i].enabled
    => \E c \in Calls : call[c].pc = "patch" /\ call[c].i = i /\ call'[c].pc = "idle"

(* Only PATCH turns a connection on or off, however calls overlap          *)
(* (sso_connections.py:159).                                               *)
SwitchStands == [][SwitchStandsStep]_sso
=============================================================================
