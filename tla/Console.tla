------------------------------ MODULE Console ------------------------------
(***************************************************************************)
(* The session of the console in one browser: tabs that share the tokens   *)
(* in localStorage (frontend/src/lib/api.ts, lib/auth.ts) and talk to the  *)
(* endpoints of Sessions, whose refresh is one step here.                  *)
(*                                                                         *)
(* A request that is answered 401 waits for the one refresh its tab makes, *)
(* and is sent again once.  A refresh that fails clears the stored tokens  *)
(* and loads the login page, which drops whatever the tab was doing.       *)
(***************************************************************************)
EXTENDS Naturals, Sequences, FiniteSets

CONSTANTS Tabs, Users,
          Reqs,           \* requests, each of one tab
          TabOf,          \* TabOf[r]: its tab
          Scenes,         \* who signs in, and what the console asks for
          MaxTokens,      \* bound on access tokens
          MaxSends        \* bound on requests

ConsoleAssumption ==
  /\ TabOf \in [Reqs -> Tabs]
  /\ \A s \in Scenes : s.users \subseteq Users /\ s.kinds \subseteq {"get", "boot", "logout", "switch"}
  /\ MaxTokens \in Nat /\ MaxSends \in Nat

VARIABLES scene,          \* the scene; bounds the state space
          sends,          \* requests so far
          store,          \* localStorage: numbers of tokens, 0 if there is none
          access,         \* access[i]: [user, live]
          refresh,        \* refresh[i]: the server's row [user, live, rotated]
          req,            \* req[r]: a request of the console
          flight,         \* flight[t]: the refresh tab t is waiting for
          uses,           \* who presented which refresh token
          again,          \* tokens presented once they were rotated
          mixed,          \* whether the stored tokens come from two sign-ins
          out             \* whether a logout stands

console == <<scene, sends, store, access, refresh, req, flight, uses, again, mixed, out>>

NoTokens == [access |-> 0, refresh |-> 0]
IdleReq == [pc |-> "idle", kind |-> "get", access |-> 0, body |-> 0, retry |-> FALSE,
            got |-> NoTokens]
NoFlight == [pc |-> "none", body |-> 0, got |-> NoTokens]

Init ==
  /\ scene \in Scenes
  /\ sends = 0
  /\ store = NoTokens
  /\ access = <<>>
  /\ refresh = <<>>
  /\ req = [r \in Reqs |-> IdleReq]
  /\ flight = [t \in Tabs |-> NoFlight]
  /\ uses = {} /\ again = {}
  /\ mixed = FALSE /\ out = FALSE

Room == Len(access) < MaxTokens
Live(i) == i # 0 /\ access[i].live

(* The tab loads another page.                                             *)
Reloaded(t) == [r \in Reqs |-> IF TabOf[r] = t THEN IdleReq ELSE req[r]]

Cleared == NoTokens

-----------------------------------------------------------------------------
(* POST /auth/refresh with token n (see Sessions): a new pair; or a reuse, *)
(* which revokes every session of the user; or 401.                        *)
Refresh(n, use) ==
  /\ uses' = uses \cup {[use EXCEPT !.token = n]}
  /\ IF n # 0 /\ refresh[n].live
     THEN /\ Room
          /\ access' = Append(access, [user |-> refresh[n].user, live |-> TRUE])
          /\ refresh' = Append([refresh EXCEPT ![n].live = FALSE, ![n].rotated = TRUE],
                               [user |-> refresh[n].user, live |-> TRUE, rotated |-> FALSE])
          /\ again' = again
     ELSE /\ access' = access
          /\ refresh' = IF n = 0 THEN refresh
                        ELSE [i \in DOMAIN refresh |->
                                IF refresh[i].user = refresh[n].user
                                THEN [refresh[i] EXCEPT !.live = FALSE] ELSE refresh[i]]
          /\ again' = IF n # 0 /\ refresh[n].rotated THEN again \cup {n} ELSE again

Granted(n) == IF n # 0 /\ refresh[n].live
              THEN [access |-> Len(access) + 1, refresh |-> Len(refresh) + 1] ELSE NoTokens

-----------------------------------------------------------------------------
(* Login: both tokens are stored.                                          *)
SignIn(t, u) ==
  /\ Room
  /\ access' = Append(access, [user |-> u, live |-> TRUE])
  /\ refresh' = Append(refresh, [user |-> u, live |-> TRUE, rotated |-> FALSE])
  /\ store' = [access |-> Len(access) + 1, refresh |-> Len(refresh) + 1]
  /\ mixed' = FALSE /\ out' = FALSE
  /\ UNCHANGED <<scene, sends, req, flight, uses, again>>

(* The SSO callback stores the access token it is given, and leaves an     *)
(* older refresh token where it is.                                        *)
SsoCallback(t, u) ==
  /\ Room
  /\ access' = Append(access, [user |-> u, live |-> TRUE])
  /\ store' = [store EXCEPT !.access = Len(access) + 1]
  /\ mixed' = (store.refresh # 0)
  /\ out' = FALSE
  /\ UNCHANGED <<scene, sends, refresh, req, flight, uses, again>>

(* The stored access token expires.                                        *)
Expire(i) ==
  /\ access[i].live /\ i = store.access
  /\ access' = [access EXCEPT ![i].live = FALSE]
  /\ UNCHANGED <<scene, sends, store, refresh, req, flight, uses, again, mixed, out>>

-----------------------------------------------------------------------------
(* bootstrap, which RequireAuth calls, only asks with a token.             *)
Starts(kind) == kind = "boot" => store.access # 0

(* switchOrg puts the stored refresh token into the body.                  *)
Body(kind) == IF kind = "switch" THEN store.refresh ELSE 0

(* request: sent with the token that is stored at that moment.             *)
Send(r, kind) ==
  /\ req[r].pc = "idle"
  /\ sends < MaxSends
  /\ sends' = sends + 1
  /\ Starts(kind)
  /\ req' = [req EXCEPT ![r] = [pc |-> "sent", kind |-> kind, access |-> store.access,
                                body |-> Body(kind), retry |-> TRUE, got |-> NoTokens]]
  /\ UNCHANGED <<scene, store, access, refresh, flight, uses, again, mixed, out>>

(* A request that fails for good: bootstrap and logout clear the tokens.   *)
Ended(r) ==
  LET k == req[r].kind
  IN /\ store' = IF k \in {"boot", "logout"} THEN Cleared ELSE store
     /\ req' = IF k = "logout" THEN Reloaded(TabOf[r]) ELSE [req EXCEPT ![r] = IdleReq]
     /\ flight' = IF k = "logout" THEN [flight EXCEPT ![TabOf[r]] = NoFlight] ELSE flight
     /\ out' = (out \/ /\ k = "logout"
                       /\ \A t \in Tabs \ {TabOf[r]} : flight[t].pc = "none"
                       /\ \A q \in Reqs \ {r} : req[q].kind # "switch" \/ req[q].pc = "idle")

(* It is answered well.  A logout revokes the user's sessions.             *)
AnswerOk(r) ==
  /\ req[r].pc = "sent" /\ req[r].kind # "switch"
  /\ Live(req[r].access)
  /\ refresh' = IF req[r].kind # "logout" THEN refresh
                ELSE [i \in DOMAIN refresh |->
                        IF refresh[i].user = access[req[r].access].user
                        THEN [refresh[i] EXCEPT !.live = FALSE] ELSE refresh[i]]
  /\ IF req[r].kind = "logout" THEN Ended(r)
     ELSE req' = [req EXCEPT ![r] = IdleReq] /\ UNCHANGED <<store, flight, out>>
  /\ UNCHANGED <<scene, sends, access, uses, again, mixed>>

(* 401: the first time, the request joins the refresh of its tab, which is *)
(* begun if there is none; without a refresh token that fails at once.     *)
Waits(r) ==
  /\ req[r].retry
  /\ req' = [req EXCEPT ![r].pc = "waiting"]
  /\ flight' = IF flight[TabOf[r]].pc # "none" THEN flight
               ELSE [flight EXCEPT ![TabOf[r]] =
                       [pc |-> IF store.refresh = 0 THEN "answered" ELSE "sent",
                        body |-> store.refresh, got |-> NoTokens]]
  /\ UNCHANGED <<store, out>>

Answer401(r) ==
  /\ req[r].pc = "sent" /\ req[r].kind # "switch"
  /\ ~Live(req[r].access)
  /\ \/ Waits(r)
     \/ ~req[r].retry /\ Ended(r)
  /\ UNCHANGED <<scene, sends, access, refresh, uses, again, mixed>>

(* The network fails, or the server does.                                  *)
AnswerFails(r) ==
  /\ req[r].pc \in {"sent", "answered"}
  /\ Ended(r)
  /\ UNCHANGED <<scene, sends, access, refresh, uses, again, mixed>>

(* switchOrg: the server rotates the token ...                             *)
SwitchServer(r) ==
  /\ req[r].pc = "sent" /\ req[r].kind = "switch"
  /\ Refresh(req[r].body, [token |-> 0, tab |-> TabOf[r], kind |-> "switch"])
  /\ req' = [req EXCEPT ![r].pc = "answered", ![r].got = Granted(req[r].body)]
  /\ UNCHANGED <<scene, sends, store, flight, mixed, out>>

(* ... and the console stores the new access token, but not the new        *)
(* refresh token.                                                          *)
SwitchArrives(r) ==
  /\ req[r].pc = "answered"
  /\ IF req[r].got # NoTokens
     THEN /\ store' = [store EXCEPT !.access = req[r].got.access]
          /\ req' = [req EXCEPT ![r] = IdleReq]
          /\ mixed' = (mixed \/ store.refresh # req[r].body)
          /\ UNCHANGED <<flight, out>>
     ELSE /\ Waits(r) \/ (~req[r].retry /\ Ended(r))
          /\ UNCHANGED mixed
  /\ UNCHANGED <<scene, sends, access, refresh, uses, again>>

-----------------------------------------------------------------------------
(* tryRefresh reaches the server.                                          *)
FlightServer(t) ==
  /\ flight[t].pc = "sent"
  /\ Refresh(flight[t].body, [token |-> 0, tab |-> t, kind |-> "refresh"])
  /\ flight' = [flight EXCEPT ![t].pc = "answered", ![t].got = Granted(flight[t].body)]
  /\ UNCHANGED <<scene, sends, store, req, mixed, out>>

(* Mutant: the rotated refresh token is not stored.                        *)
FlightArrives_KeepsOld(t) ==
  /\ flight[t].pc = "answered" /\ flight[t].got # NoTokens
  /\ store' = [store EXCEPT !.access = flight[t].got.access]
  /\ flight' = [flight EXCEPT ![t] = NoFlight]
  /\ req' = [r \in Reqs |->
               IF TabOf[r] = t /\ req[r].pc = "waiting"
               THEN [req[r] EXCEPT !.pc = "sent", !.retry = FALSE, !.access = flight[t].got.access]
               ELSE req[r]]
  /\ UNCHANGED <<scene, sends, access, refresh, uses, again, mixed, out>>

(* Its answer is stored, and every request that waited is sent again, with *)
(* the body it had.                                                        *)
FlightArrives(t) ==
  /\ flight[t].pc = "answered" /\ flight[t].got # NoTokens
  /\ store' = flight[t].got
  /\ flight' = [flight EXCEPT ![t] = NoFlight]
  /\ req' = [r \in Reqs |->
               IF TabOf[r] = t /\ req[r].pc = "waiting"
               THEN [req[r] EXCEPT !.pc = "sent", !.retry = FALSE, !.access = flight[t].got.access]
               ELSE req[r]]
  /\ mixed' = FALSE
  /\ UNCHANGED <<scene, sends, access, refresh, uses, again, out>>

(* It is refused, or lost: the tokens are cleared, and the login page is   *)
(* loaded.                                                                 *)
FlightFails(t) ==
  /\ flight[t].pc # "none"
  /\ store' = Cleared
  /\ flight' = [flight EXCEPT ![t] = NoFlight]
  /\ req' = Reloaded(t)
  /\ UNCHANGED <<scene, sends, access, refresh, uses, again, mixed, out>>

Next ==
  \/ \E t \in Tabs : \/ \E u \in scene.users : SignIn(t, u) \/ SsoCallback(t, u)
                     \/ FlightServer(t)
                     \/ FlightArrives(t)
                     \/ FlightFails(t)
  \/ \E r \in Reqs : \/ \E k \in scene.kinds : Send(r, k)
                     \/ AnswerOk(r)
                     \/ Answer401(r)
                     \/ AnswerFails(r)
                     \/ SwitchServer(r)
                     \/ SwitchArrives(r)
  \/ \E i \in DOMAIN access : Expire(i)

Spec == Init /\ [][Next]_console

-----------------------------------------------------------------------------
(* The types of the tokens, requests and refreshes of the console          *)
(* (lib/api.ts).                                                           *)
TypeOK ==
  /\ store.access \in 0 .. Len(access)
  /\ store.refresh \in 0 .. Len(refresh)
  /\ Len(refresh) <= Len(access)
  /\ \A r \in Reqs : /\ req[r].pc \in {"idle", "sent", "waiting", "answered"}
                     /\ req[r].pc = "waiting" => flight[TabOf[r]].pc # "none"
  /\ again \subseteq DOMAIN refresh

(* The console presents a refresh token that was already rotated, and so   *)
(* has all sessions of its user revoked, only when two tabs refresh with   *)
(* the same token, or after a switch of organisation, which drops the new  *)
(* one (api.ts:57, auth.ts:73).                                            *)
AgainExplained ==
  \A n \in again :
    \E u, v \in uses : /\ u.token = n /\ v.token = n
                       /\ u.tab # v.tab \/ u.kind = "switch"

(* The stored refresh token is the one of the user who is signed in, so a  *)
(* refresh never changes who that is - but after a sign-in through SSO     *)
(* over somebody's tokens, or a switch of organisation that ends when      *)
(* other tokens are stored already (SsoCallback.tsx:42, auth.ts:79).       *)
SameUser ==
  store.access # 0 /\ store.refresh # 0 /\ ~mixed
    => access[store.access].user = refresh[store.refresh].user

(* After a logout no token is stored until somebody signs in, unless a     *)
(* refresh of another tab was on its way (auth.ts:56).                     *)
LogoutStands == out => store = NoTokens
=============================================================================
