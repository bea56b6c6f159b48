------------------------------ MODULE Sessions ------------------------------
(***************************************************************************)
(* How users come into one organisation and are kept out of it again:      *)
(* password login, rotating refresh tokens and password resets             *)
(* (api/v1/auth.py), single sign-on (api/v1/sso.py), the authorization     *)
(* codes of the OAuth server (api/v1/oauth.py), and what administrators    *)
(* and SCIM do to accounts meanwhile (admin.py, org.py, scim.py).          *)
(*                                                                         *)
(* Nothing here locks.  A handler reads the rows it needs, decides, and    *)
(* commits once: the read and the commit are two steps, and other calls    *)
(* may commit between them.  A bulk UPDATE reads and writes in one step.   *)
(* Expired credentials are refused without a change of state, so expiry is *)
(* the absence of a step.                                                  *)
(***************************************************************************)
EXTENDS Naturals, Sequences, FiniteSets

CONSTANTS Users, Calls,
          Mixes,          \* bound: which handlers meet in one behaviour
          Uris,           \* redirect URIs a client may register
          MaxSessions, MaxTokens    \* bounds on the rows of a table

SessionsAssumption ==
  /\ Users # {} /\ IsFiniteSet(Calls)
  /\ MaxSessions \in Nat /\ MaxTokens \in Nat

VARIABLES mix,            \* the handlers in use
          user,           \* account and membership, by user
          session,        \* refresh_sessions, in order of commit
          reset,          \* password_reset_tokens
          code,           \* oauth_codes
          state,          \* login states kept in Redis: TRUE until deleted
          uris,           \* redirect_uris of a registered OAuth client
          call,
          since           \* history: rows when a user was last revoked

vars == <<mix, user, session, reset, code, state, uris, call, since>>

(* pw counts the passwords a user ever chose; stale: its hash has outdated *)
(* parameters.                                                             *)
UserType == [active : BOOLEAN, super : BOOLEAN, member : BOOLEAN,
             pw : 0..MaxTokens, top : 0..MaxTokens, stale : BOOLEAN]

(* parent  the session it was rotated from, 0 for a login                  *)
(* sso     the family began with single sign-on                            *)
(* super   the access token minted with it claims superadmin               *)
(* late    history: its call was overtaken (see call)                      *)
SessionType == [user : Users, live : BOOLEAN, parent : 0..MaxSessions,
                sso : BOOLEAN, super : BOOLEAN, late : BOOLEAN]

TokenType == [user : Users, used : BOOLEAN, late : BOOLEAN]

(* row     the credential the call was given                               *)
(* saw     what it read: the user row, the rows to change, the URIs        *)
(* late    history: another call has spent the credential, or has revoked  *)
(*         the user, since this one read                                   *)
Pcs == {"idle", "login", "refresh", "reuse", "forgot", "reset", "state", "sso",
        "redeem", "mint", "client"}

SawType == [super : BOOLEAN, pw : 0..MaxTokens, stale : BOOLEAN]

CallType == [pc : Pcs, user : Users, row : 0..(MaxSessions + MaxTokens),
             saw : SawType, rows : SUBSET (1..MaxTokens), uris : SUBSET Uris,
             late : BOOLEAN]

NewUser == [active |-> TRUE, super |-> FALSE, member |-> TRUE,
            pw |-> 0, top |-> 0, stale |-> TRUE]

NoCall == [pc |-> "idle", user |-> CHOOSE u \in Users : TRUE, row |-> 0,
           saw |-> [super |-> FALSE, pw |-> 0, stale |-> FALSE], rows |-> {}, uris |-> {}, late |-> FALSE]

Init ==
  /\ mix \in Mixes
  /\ user = [u \in Users |-> NewUser]
  /\ session = <<>> /\ reset = <<>> /\ code = <<>> /\ state = <<>>
  /\ uris = {}
  /\ call = [c \in Calls |-> NoCall]
  /\ since = [u \in Users |-> 0]

-----------------------------------------------------------------------------
Starts(c, handler) == handler \in mix /\ call[c].pc = "idle"

Saw(u) == [super |-> user[u].super, pw |-> user[u].pw, stale |-> user[u].stale]

Begin(pc, u, row) == [NoCall EXCEPT !.pc = pc, !.user = u, !.row = row, !.saw = Saw(u)]

(* The calls in flight for a user, and those that were given a credential. *)
CallsOf(u) == {d \in Calls : call[d].pc # "idle" /\ call[d].user = u}
CallsWith(pc, row) == {d \in Calls : call[d].pc = pc /\ call[d].row = row}

(* Somebody else's commit concerns them.                                   *)
Overtaken(concerned) ==
  [d \in Calls |-> IF d \in concerned THEN [call[d] EXCEPT !.late = TRUE] ELSE call[d]]

Done(c, concerned) == [Overtaken(concerned) EXCEPT ![c] = NoCall]

Room == Len(session) + Cardinality({c \in Calls : call[c].pc \in {"login", "refresh", "sso"}})
          < MaxSessions

NewSession(c, parent, sso, super) ==
  [user |-> call[c].user, live |-> TRUE, parent |-> parent, sso |-> sso,
   super |-> super, late |-> call[c].late]

(* get_principal: a valid access token is not enough.                      *)
Admitted(u) == user[u].active /\ user[u].member

(* UPDATE refresh_sessions SET revoked WHERE user_id = u AND NOT revoked.  *)
Revoked(u) ==
  [i \in DOMAIN session |-> IF session[i].user = u
                            THEN [session[i] EXCEPT !.live = FALSE] ELSE session[i]]

RevokeAll(u) == session' = Revoked(u) /\ since' = [since EXCEPT ![u] = Len(session)]

-----------------------------------------------------------------------------
(* login: the password typed is the one whose hash is read, or nothing     *)
(* happens.                                                                *)
LoginRead(c, u) ==
  /\ Starts(c, "login") /\ Room
  /\ user[u].active /\ user[u].member
  /\ call' = [call EXCEPT ![c] = Begin("login", u, 0)]
  /\ UNCHANGED <<mix, user, session, reset, code, state, uris, since>>

(* Mutant: every login renews the hash.                                    *)
LoginCommit_Renews(c) ==
  /\ call[c].pc = "login"
  /\ session' = Append(session, NewSession(c, 0, FALSE, call[c].saw.super))
  /\ user' = [user EXCEPT ![call[c].user].pw = call[c].saw.pw]
  /\ call' = Done(c, {})
  /\ UNCHANGED <<mix, reset, code, state, uris, since>>

(* A hash with outdated parameters is written again, from the password     *)
(* that was typed.                                                         *)
LoginCommit(c) ==
  /\ call[c].pc = "login"
  /\ session' = Append(session, NewSession(c, 0, FALSE, call[c].saw.super))
  /\ user' = IF call[c].saw.stale
             THEN [user EXCEPT ![call[c].user].pw = call[c].saw.pw,
                               ![call[c].user].stale = FALSE]
             ELSE user
  /\ call' = Done(c, {})
  /\ UNCHANGED <<mix, reset, code, state, uris, since>>

(* Mutant: a rotated token is good for another session.                    *)
RefreshRead_Unchecked(c, i) ==
  /\ Starts(c, "refresh") /\ Room
  /\ user[session[i].user].member
  /\ call' = [call EXCEPT ![c] = Begin("refresh", session[i].user, i)]
  /\ UNCHANGED <<mix, user, session, reset, code, state, uris, since>>

(* refresh: the row is live, or this is a reuse.  The account may be       *)
(* inactive; the membership is needed.                                     *)
RefreshRead(c, i) ==
  /\ Starts(c, "refresh") /\ Room
  /\ \/ ~session[i].live
     \/ user[session[i].user].member
  /\ call' = [call EXCEPT ![c] =
                Begin(IF session[i].live THEN "refresh" ELSE "reuse", session[i].user, i)]
  /\ UNCHANGED <<mix, user, session, reset, code, state, uris, since>>

RefreshCommit(c) ==
  LET i == call[c].row
  IN  /\ call[c].pc = "refresh"
      /\ session' = Append([session EXCEPT ![i].live = FALSE],
                           NewSession(c, i, session[i].sso, call[c].saw.super))
      /\ call' = Done(c, CallsWith("refresh", i))
      /\ UNCHANGED <<mix, user, reset, code, state, uris, since>>

(* _revoke_chain: every session of the user, not only the family.          *)
Reuse(c) ==
  LET u == call[c].user
  IN  /\ call[c].pc = "reuse"
      /\ RevokeAll(u)
      /\ call' = Done(c, CallsOf(u))
      /\ UNCHANGED <<mix, user, reset, code, state, uris>>

Logout(u) ==
  /\ "logout" \in mix /\ Admitted(u)
  /\ RevokeAll(u)
  /\ call' = Overtaken(CallsOf(u))
  /\ UNCHANGED <<mix, user, reset, code, state, uris>>

-----------------------------------------------------------------------------
(* forgot_password: the unused tokens it reads are used up with the commit *)
(* of the new one.                                                         *)
ForgotRead(c, u) ==
  /\ Starts(c, "reset") /\ Len(reset) < MaxTokens
  /\ call' = [call EXCEPT ![c] = [Begin("forgot", u, 0) EXCEPT
                !.rows = {t \in DOMAIN reset : reset[t].user = u /\ ~reset[t].used}]]
  /\ UNCHANGED <<mix, user, session, reset, code, state, uris, since>>

ForgotCommit(c) ==
  LET u == call[c].user
      closed == [t \in DOMAIN reset |-> IF t \in call[c].rows
                                        THEN [reset[t] EXCEPT !.used = TRUE] ELSE reset[t]]
  IN  /\ call[c].pc = "forgot" /\ Len(reset) < MaxTokens
      /\ reset' = Append(closed, [user |-> u, used |-> FALSE, late |-> call[c].late])
      /\ call' = Done(c, {d \in Calls : \/ (call[d].pc = "forgot" /\ call[d].user = u)
                                       \/ (call[d].pc = "reset" /\ call[d].row \in call[c].rows)})
      /\ UNCHANGED <<mix, user, session, code, state, uris, since>>

ResetRead(c, t) ==
  /\ Starts(c, "reset")
  /\ ~reset[t].used /\ user[reset[t].user].top < MaxTokens
  /\ call' = [call EXCEPT ![c] = Begin("reset", reset[t].user, t)]
  /\ UNCHANGED <<mix, user, session, reset, code, state, uris, since>>

(* The new password, the token and the revocation are one transaction.     *)
ResetCommit(c) ==
  LET u == call[c].user
  IN  /\ call[c].pc = "reset" /\ user[u].top < MaxTokens
      /\ user' = [user EXCEPT ![u].pw = user[u].top + 1, ![u].top = @ + 1, ![u].stale = FALSE]
      /\ reset' = [reset EXCEPT ![call[c].row].used = TRUE]
      /\ RevokeAll(u)
      /\ call' = Done(c, CallsOf(u))
      /\ UNCHANGED <<mix, code, state, uris>>

-----------------------------------------------------------------------------
(* okta_start, oidc_start: the state of a login, kept in Redis.            *)
SsoStart ==
  /\ "sso" \in mix /\ Len(state) < MaxTokens
  /\ state' = Append(state, TRUE)
  /\ UNCHANGED <<mix, user, session, reset, code, uris, call, since>>

(* okta_callback, oidc_callback: GET the state, and later DELETE it.       *)
SsoState(c, u, k) ==
  /\ Starts(c, "sso") /\ Room
  /\ state[k]
  /\ call' = [call EXCEPT ![c] = Begin("state", u, k)]
  /\ UNCHANGED <<mix, user, session, reset, code, state, uris, since>>

(* The state is deleted; the identity provider refuses, or the user has no *)
(* membership, or the login goes on.  Nobody asks whether it is active.    *)
SsoExchange(c) ==
  LET u == call[c].user
      gone == Overtaken(CallsWith("state", call[c].row))
  IN  /\ call[c].pc = "state"
      /\ state' = [state EXCEPT ![call[c].row] = FALSE]
      /\ \/ call' = [gone EXCEPT ![c] = NoCall]
         \/ /\ user[u].member /\ Room
            /\ call' = [gone EXCEPT ![c] = Begin("sso", u, 0)]
      /\ UNCHANGED <<mix, user, session, reset, code, uris, since>>

(* saml_acs: the assertion is the credential, no state is kept.            *)
SamlAcs(c, u) ==
  /\ Starts(c, "sso") /\ Room
  /\ user[u].member
  /\ call' = [call EXCEPT ![c] = Begin("sso", u, 0)]
  /\ UNCHANGED <<mix, user, session, reset, code, state, uris, since>>

SsoCommit(c) ==
  /\ call[c].pc = "sso"
  /\ session' = Append(session, NewSession(c, 0, TRUE, FALSE))
  /\ call' = Done(c, {})
  /\ UNCHANGED <<mix, user, reset, code, state, uris, since>>

-----------------------------------------------------------------------------
(* authorize_post: the access token is decoded; membership is not asked.   *)
Authorize(u) ==
  /\ "oauth" \in mix /\ Len(code) < MaxTokens
  /\ code' = Append(code, [user |-> u, used |-> FALSE, late |-> FALSE])
  /\ UNCHANGED <<mix, user, session, reset, state, uris, call, since>>

RedeemRead(c, k) ==
  /\ Starts(c, "oauth")
  /\ ~code[k].used
  /\ call' = [call EXCEPT ![c] = Begin("redeem", code[k].user, k)]
  /\ UNCHANGED <<mix, user, session, reset, code, state, uris, since>>

(* token_endpoint commits the use of the code first ...                    *)
RedeemUse(c) ==
  LET k == call[c].row
  IN  /\ call[c].pc = "redeem"
      /\ code' = [code EXCEPT ![k].used = TRUE]
      /\ call' = [Overtaken(CallsWith("redeem", k))
                    EXCEPT ![c] = [call[c] EXCEPT !.pc = "mint"]]
      /\ UNCHANGED <<mix, user, session, reset, state, uris, since>>

(* ... and then asks for the account and the membership.                   *)
RedeemMint(c) ==
  /\ call[c].pc = "mint"
  /\ call' = Done(c, {})
  /\ UNCHANGED <<mix, user, session, reset, code, state, uris, since>>

(* register_client of a client that exists: read, merge, write.            *)
ClientRead(c) ==
  /\ Starts(c, "client")
  /\ call' = [call EXCEPT ![c] = [Begin("client", CHOOSE u \in Users : TRUE, 0)
                                    EXCEPT !.uris = uris]]
  /\ UNCHANGED <<mix, user, session, reset, code, state, uris, since>>

ClientWrite(c, new) ==
  /\ call[c].pc = "client"
  /\ uris' = call[c].uris \cup {new}
  /\ call' = Done(c, {d \in Calls : call[d].pc = "client"})
  /\ UNCHANGED <<mix, user, session, reset, code, state, since>>

-----------------------------------------------------------------------------
(* update_user of a super administrator: deactivation revokes.             *)
Deactivate(u) ==
  /\ "admin" \in mix
  /\ user' = [user EXCEPT ![u].active = FALSE]
  /\ RevokeAll(u)
  /\ call' = Overtaken(CallsOf(u))
  /\ UNCHANGED <<mix, reset, code, state, uris>>

Reactivate(u, super) ==
  /\ "admin" \in mix
  /\ user' = [user EXCEPT ![u].active = TRUE, ![u].super = super]
  /\ UNCHANGED <<mix, session, reset, code, state, uris, call, since>>

(* SCIM writes the flag and leaves the sessions alone.                     *)
ScimActive(u, active) ==
  /\ "scim" \in mix
  /\ user' = [user EXCEPT ![u].active = active]
  /\ UNCHANGED <<mix, session, reset, code, state, uris, call, since>>

(* remove_member: every session of the user, in any organisation.          *)
RemoveMember(u) ==
  /\ "admin" \in mix /\ user[u].member
  /\ user' = [user EXCEPT ![u].member = FALSE]
  /\ RevokeAll(u)
  /\ call' = Overtaken(CallsOf(u))
  /\ UNCHANGED <<mix, reset, code, state, uris>>

(* The super administrator's removal deletes the membership only; an       *)
(* invite of an existing account brings it back.                           *)
ChangeMembership(u) ==
  /\ "scim" \in mix
  /\ user' = [user EXCEPT ![u].member = ~@]
  /\ UNCHANGED <<mix, session, reset, code, state, uris, call, since>>

(* revoke_all_sessions of an owner.                                        *)
RevokeSessions ==
  /\ "logout" \in mix
  /\ session' = [i \in DOMAIN session |-> IF user[session[i].user].member
                                          THEN [session[i] EXCEPT !.live = FALSE] ELSE session[i]]
  /\ since' = [u \in Users |-> IF user[u].member THEN Len(session) ELSE since[u]]
  /\ call' = Overtaken({d \in Calls : call[d].pc # "idle" /\ user[call[d].user].member})
  /\ UNCHANGED <<mix, user, reset, code, state, uris>>

Auth(c) ==
  \/ \E u \in Users : LoginRead(c, u) \/ ForgotRead(c, u) \/ SamlAcs(c, u)
  \/ \E i \in DOMAIN session : RefreshRead(c, i)
  \/ \E t \in DOMAIN reset : ResetRead(c, t)
  \/ \E k \in DOMAIN state, u \in Users : SsoState(c, u, k)
  \/ \E k \in DOMAIN code : RedeemRead(c, k)
  \/ ClientRead(c)
  \/ \E new \in Uris : ClientWrite(c, new)
  \/ LoginCommit(c) \/ RefreshCommit(c) \/ Reuse(c)
  \/ ForgotCommit(c) \/ ResetCommit(c)
  \/ SsoExchange(c) \/ SsoCommit(c)
  \/ RedeemUse(c) \/ RedeemMint(c)

Admin(u) ==
  \/ Logout(u) \/ Deactivate(u) \/ RemoveMember(u) \/ ChangeMembership(u) \/ Authorize(u)
  \/ \E b \in BOOLEAN : Reactivate(u, b) \/ ScimActive(u, b)

Next == \/ \E c \in Calls : Auth(c)
        \/ \E u \in Users : Admin(u)
        \/ SsoStart \/ RevokeSessions

Spec == Init /\ [][Next]_vars

-----------------------------------------------------------------------------
(* The types of the rows and of the calls (models/user.py, session.py,     *)
(* password_reset.py, oauth.py).                                           *)
TypeOK ==
  /\ mix \in Mixes
  /\ user \in [Users -> UserType]
  /\ session \in Seq(SessionType) /\ Len(session) <= MaxSessions
  /\ reset \in Seq(TokenType) /\ code \in Seq(TokenType) /\ state \in Seq(BOOLEAN)
  /\ Len(reset) <= MaxTokens /\ Len(code) <= MaxTokens /\ Len(state) <= MaxTokens
  /\ uris \subseteq Uris
  /\ call \in [Calls -> CallType]
  /\ since \in [Users -> 0..MaxSessions]

(* What a call was given is spent by now.                                  *)
SpentFor(k) ==
  CASE k.pc = "refresh" -> ~session[k.row].live
    [] k.pc = "reset" -> reset[k.row].used
    [] k.pc = "state" -> ~state[k.row]
    [] k.pc = "redeem" -> code[k.row].used
    [] OTHER -> FALSE

(* A credential is spent twice, a refresh token, a reset link, a login     *)
(* state or an authorization code, only by calls that overlap: whoever     *)
(* holds a spent one as good was already in flight when it was spent.      *)
OneUse == \A c \in Calls : SpentFor(call[c]) => call[c].late

(* A login made it, or a call that was in flight during a revocation.      *)
Earned(i) == session[i].parent = 0 \/ session[i].late

(* Logging out, a reset, a deactivation, a removal and a detected reuse    *)
(* keep the user out: a session that is live was made after the last of    *)
(* them, and what was made after it was earned or rotates another session  *)
(* of the user that was made after it.                                     *)
RevocationHolds ==
  \A i \in DOMAIN session :
    LET u == session[i].user
        p == session[i].parent
    IN  /\ session[i].live => i > since[u]
        /\ i > since[u] => Earned(i) \/ (p \in since[u] + 1 .. i - 1 /\ session[p].user = u)

PasswordSticksStep ==
  \A u \in Users : user'[u].pw < user[u].pw =>
     \E c \in Calls : /\ call[c].pc = "login" /\ call[c].user = u
                      /\ call[c].late /\ call[c].saw.stale

(* A password that was reset stays: an older one comes back only by a      *)
(* login that was in flight during the reset and renews the hash.          *)
PasswordSticks == [][PasswordSticksStep]_vars

(* A user has one usable reset link, unless two requests for it overlap.   *)
OneLinkUnlessOverlap ==
  \A s, t \in DOMAIN reset :
    (s < t /\ reset[s].user = reset[t].user /\ ~reset[s].used /\ ~reset[t].used)
      => reset[t].late

RedirectsKeptStep ==
  ~(uris \subseteq uris') => \E c \in Calls : call[c].pc = "client" /\ call[c].late

(* A redirect URI once registered is lost only by an overlapping           *)
(* registration of the same client.                                        *)
RedirectsKept == [][RedirectsKeptStep]_vars

=============================================================================
