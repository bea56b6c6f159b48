------------------------------ MODULE SignInMC ------------------------------
(***************************************************************************)
(* How people sign in and stay so, for TLC: the sessions and credentials   *)
(* the service keeps (Sessions), the connections to identity providers     *)
(* (SsoConnections), the tokens in a browser (Console, for which a refresh *)
(* is one step). One run checks them side by side: part, chosen by Init,   *)
(* is the one that moves, and the variables of the others are idle.        *)
(***************************************************************************)
EXTENDS TLC

CONSTANTS Users, Calls, Uris, MaxSessions, MaxTokens, Orgs, o1, u1, u2, i1,
          i2, d1, Slots, MaxChanges, MaxLogins, Tabs, Reqs, MaxIssued, MaxSends,
          None, Gone

VARIABLES part,
          mix, user, session, reset, code, state, uris, call, since,
          conn, bundle, request, paired, sent, logins, refused, changes,
          scene, sends, store, access, refresh, req, flight, uses, again,
          mixed, out

(* Which handlers meet in one behaviour.                                   *)
SessionMixes == {{"login", "refresh", "logout", "reset"},
                 {"login", "refresh", "admin", "scim"},
                 {"sso", "refresh", "admin"},
                 {"oauth", "client", "admin"}}

(* What is saved for a connection to an identity provider.                 *)
Connection(name, protocol, issuer, secret, domain) ==
  [name |-> name, protocol |-> protocol, issuer |-> issuer, secret |-> secret,
   domain |-> domain]

ConnectionBodies ==
  {Connection("a", "oidc", i1, i1, d1), Connection("b", "oidc", i2, i2, None),
   Connection("b", "oidc", i2, None, d1), Connection("c", "saml", None, None, d1)}

MemberOf == (u1 :> {o1}) @@ (u2 :> {})

(* Who signs in at the browser, and what the console asks for.             *)
Scene(users, kinds) == [users |-> users, kinds |-> kinds]

ConsoleScenes ==
  {Scene({u1}, {"get", "switch"}), Scene({u1}, {"boot", "logout"}),
   Scene({u1, u2}, {"boot"}), Scene({u1, u2}, {"switch"})}

(* Every tab has a request.                                                *)
TabOfRequest ==
  CHOOSE f \in [Reqs -> Tabs] : \A t \in Tabs : \E r \in Reqs : f[r] = t

S == INSTANCE Sessions WITH Mixes <- SessionMixes
P == INSTANCE SsoConnections WITH Users <- {u1, u2}, Member <- MemberOf,
       DomainOf <- [u \in {u1, u2} |-> d1], Issuers <- {i1, i2},
       Domains <- {d1}, Bodies <- ConnectionBodies, call <- request
C == INSTANCE Console WITH Users <- {u1, u2}, TabOf <- TabOfRequest,
       Scenes <- ConsoleScenes, MaxTokens <- MaxIssued

ASSUME SignInAssumption ==
  /\ S!SessionsAssumption
  /\ P!SsoAssumption
  /\ C!ConsoleAssumption

sessionsVars == <<mix, user, session, reset, code, state, uris, call, since>>
providersVars == <<conn, bundle, request, paired, sent, logins, refused,
    changes>>
consoleVars == <<scene, sends, store, access, refresh, req, flight, uses,
    again, mixed, out>>
vars == <<part, sessionsVars, providersVars, consoleVars>>

SessionsIdle ==
  /\ mix = None /\ user = None /\ session = None /\ reset = None
  /\ code = None /\ state = None /\ uris = None /\ call = None /\ since = None
ProvidersIdle ==
  /\ conn = None /\ bundle = None /\ request = None /\ paired = None
  /\ sent = None /\ logins = None /\ refused = None /\ changes = None
ConsoleIdle ==
  /\ scene = None /\ sends = None /\ store = None /\ access = None
  /\ refresh = None /\ req = None /\ flight = None /\ uses = None
  /\ again = None /\ mixed = None /\ out = None

Init ==
  \/ /\ part = "sessions" /\ S!Init
     /\ ProvidersIdle /\ ConsoleIdle
  \/ /\ part = "providers" /\ P!Init
     /\ SessionsIdle /\ ConsoleIdle
  \/ /\ part = "console" /\ C!Init
     /\ SessionsIdle /\ ProvidersIdle

Next ==
  \/ part = "sessions" /\ S!Next
     /\ UNCHANGED <<part, providersVars, consoleVars>>
  \/ part = "providers" /\ P!Next
     /\ UNCHANGED <<part, sessionsVars, consoleVars>>
  \/ part = "console" /\ C!Next
     /\ UNCHANGED <<part, sessionsVars, providersVars>>

Spec == Init /\ [][Next]_vars

(* No property of the first two tells one call from another.               *)
Symmetry == Permutations(Calls)

-----------------------------------------------------------------------------
(* A refresh token, a reset link, a login state and an authorization code  *)
(* are spent twice only by calls that overlap (auth.py:165, oauth.py:327); *)
(* a session that lives after a revocation comes from a later login or     *)
(* from a call in flight across it; a user has one reset link, unless two  *)
(* requests met.                                                           *)
SessionsHold ==
  part = "sessions" =>
    /\ S!TypeOK /\ S!OneUse /\ S!RevocationHolds /\ S!OneLinkUnlessOverlap

(* A client secret reaches another issuer than its own, and a connection   *)
(* is refused for its slug, only when calls met (sso.py:327,               *)
(* sso_connections.py:78); a code goes to the issuer that gave it; a login *)
(* takes a connection that lookup offers (sso.py:237, 453).                *)
ProvidersHold ==
  part = "providers" =>
    /\ P!TypeOK /\ P!SecretsExplained /\ P!SentWhereBegun /\ P!SameDoor
    /\ P!RefusedByOverlap

(* The console presents a rotated refresh token only from a second tab or  *)
(* after a switch of organisation, never changes who is signed in by a     *)
(* refresh, and keeps no token after a logout, but for the flights the     *)
(* definitions name (api.ts:57, auth.ts:73, SsoCallback.tsx:42).           *)
BrowserHolds ==
  part = "console" =>
    /\ C!TypeOK /\ C!AgainExplained /\ C!SameUser /\ C!LogoutStands

(* A password that was reset comes back, and a redirect URI is lost, only  *)
(* by a call in flight across the change (auth.py, oauth.py); only PATCH   *)
(* turns a connection on or off, however calls overlap                     *)
(* (sso_connections.py:159).                                               *)
SettingsStick ==
  [][ /\ part = "sessions" => S!PasswordSticksStep /\ S!RedirectsKeptStep
      /\ part = "providers" => P!SwitchStandsStep ]_vars

=============================================================================
